SPECIFICATION MCSpec
CONSTANTS
  w1 = w1  w2 = w2  s1 = s1  s2 = s2  s3 = s3
  Temps <- MCTemps
  WideTemps <- MCWide
  Sizes <- MCSizes
  StartBlocks <- MCStartBlocks
  IntMax = 40
  NRClob = 9
  MaxParams = 3
  DReg = {"d0", "d1"}
  AReg = {"a1"}
  Functions <- MCFunctions
INVARIANTS
  NoOverlap
  OneHole
  FrameDone
  IselWithinInt
  SavedApart
  CodeRight
PROPERTY
  SlotsStable
