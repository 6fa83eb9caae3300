SPECIFICATION Spec
CONSTANTS
  l1 = l1  l2 = l2  l3 = l3  l4 = l4  l5 = l5
  Loc <- MCLoc
  Tmp0 = 4
  Junk = Junk
SYMMETRY MCSymmetry
INVARIANTS
  MovedDone
  CycleConsumed
PROPERTIES
  ImplementsAssign
  Shrinks
