SPECIFICATION MCSpec
CONSTANTS
  Setups <- AllSetups
  MaxAttempts = 2
INVARIANT   BasedTimesMonotone NothingCommittedLost HistoryKept
PROPERTY ForcedInTheEnd  
CHECK_DEADLOCK FALSE
