SPECIFICATION Spec
CONSTANTS
  Targets = {"rv64", "amd64", "arm64", "m68k"}
  Signatures <- AllSigs
INVARIANTS ArgsArrive VarargsArrive ResultArrives RegsDeclared StackKept
CHECK_DEADLOCK FALSE
