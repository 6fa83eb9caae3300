SPECIFICATION MCSpec
CONSTANTS
  t1 = t1  t2 = t2  f1 = f1
  None = None
  Temps <- MCTemps
  KBase <- MCKBase
  Phicls <- MCPhicls
  Avoid <- MCAvoid
  NGpr = 2
  NFpr = 1
  MaxLoop = 2
CHECK_DEADLOCK FALSE
INVARIANTS
  MapInv
  UsesRight
  NoAbort
PROPERTIES
  Lands
  DieOnlyFull
