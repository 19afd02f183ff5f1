SPECIFICATION FairSpec
CONSTANTS
  Setups <- GossipCatchingUp
PROPERTY CatchupEnds
CHECK_DEADLOCK FALSE
