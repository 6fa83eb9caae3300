SPECIFICATION MCSpec
CONSTANTS
  NBlk = 4
  Graphs <- MCGraphs
  NJmp = 4
  Temps <- MCTemps
  Wide <- MCWide
  RGlob <- MCRGlob
  NRSave <- MCNRSave
  Programs <- MCPrograms
  ta = ta  tb = tb  tc = tc  td = td  r0 = r0  sp = sp
  None = None
INVARIANTS
  RpoOK
  DomOK
  FronOK
  LoopOK
  LiveOK
  PressureOK
  SameFlow
  Threaded
PROPERTY
  PassesEnd
