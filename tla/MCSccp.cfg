SPECIFICATION MCSpec
CONSTANTS
  ta = ta  tb = tb  tc = tc  td = td  te = te
  Temps <- MCTemps
  Programs <- MCPrograms
INVARIANTS
  NoAbort
  Fixpoint
  FactsHold
  SameBehaviour
  FoldOK
PROPERTIES
  Terminates
