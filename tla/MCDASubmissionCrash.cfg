SPECIFICATION Spec
CONSTANTS
  Setups <- Crashing
  MaxAttempts = 2
INVARIANT MutationsPersist
CHECK_DEADLOCK FALSE
