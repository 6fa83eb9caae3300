SPECIFICATION Spec
CONSTANTS
  None = None
  Temps <- MCTemps
  NGpr = 4
  NFpr = 1
  KBase <- MCKBase
  RGlob = {2}
  RSave = {1, 5}
  Programs <- Tight
CHECK_DEADLOCK FALSE
INVARIANT JmpInReg
