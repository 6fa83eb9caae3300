SPECIFICATION Spec
CONSTANTS
  Targets = {"rv64"}
  Signatures <- NestedSigs
INVARIANT ArgsArrive
CHECK_DEADLOCK FALSE
