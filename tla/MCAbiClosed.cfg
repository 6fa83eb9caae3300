SPECIFICATION Spec
CONSTANTS
  Targets = {"arm64"}
  Signatures <- ClosedSigs
INVARIANT VarargsArrive
CHECK_DEADLOCK FALSE
