SPECIFICATION MCSpec
CONSTANTS
  Setups <- AllSetups
INVARIANT NoBlockMissed InclusionTrue TipUsable  ServedRange
PROPERTY SyncedInTheEnd CaughtUpInTheEnd EventuallyApplied
CHECK_DEADLOCK FALSE
