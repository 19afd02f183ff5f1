SPECIFICATION Spec
CONSTANTS
  Setups <- OnlyLate
  Node <- Two
INVARIANT NoFork
CHECK_DEADLOCK FALSE
