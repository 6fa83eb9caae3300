SPECIFICATION Spec
CONSTANTS
  Fns <- Test
  Family = "mistaken"
  FreeNames = {0}
  MaxBlks = 6
INVARIANT SameBehaviour
