SPECIFICATION MCSpec
CONSTANTS
  Batches = {b1, b2}
  NoTxs = NoTxs
  NoBlock = NoBlock
  NoHash = NoHash
  NoRaft = NoRaft
  MaxHeight = 3
  MaxTime = 7
  MaxFaults = 2
INVARIANT ExecFollowsChain NoEquivocation 
PROPERTY ImplementsLedger GoesOnProducing ChainGrows
CHECK_DEADLOCK FALSE
