SPECIFICATION Spec
CONSTANTS
  Fns <- Test
  Family = "all"
  FreeNames = {0, 2}
  MaxBlks = 6
INVARIANTS SameBehaviour SsaOK NamesApart NoAbort
