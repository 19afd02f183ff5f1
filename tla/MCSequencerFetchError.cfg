SPECIFICATION Spec
CONSTANT Setups <- FailingFetch
INVARIANT NoneSkipped
CHECK_DEADLOCK FALSE
