SPECIFICATION Spec
CONSTANTS
  Setups <- OnlyMissingLine
  MaxAttempts = 2
PROPERTY RecoveryResyncs
CHECK_DEADLOCK FALSE
