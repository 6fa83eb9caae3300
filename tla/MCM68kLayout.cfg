SPECIFICATION BothSpec
CONSTANTS
  w1 = w1  w2 = w2  s1 = s1  s2 = s2  s3 = s3
  Temps <- NoTemps
  WideTemps <- NoTemps
  Sizes <- MCSizes
  StartBlocks <- OneLocal
  IntMax = 40
  NRClob = 9
  MaxParams = 3
  DReg = {"d0"}
  AReg <- NoAddressRegisters
  Functions <- Unfinished
INVARIANT AsDescribed
