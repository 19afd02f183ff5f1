SPECIFICATION MCSpec
CONSTANTS
  Batches = {b1, b2}
  Legacy = {l1}
  MaxQueueSize = 2
  MaxReturned = 1
  MaxCrashes = 2
  SigningKeys = {"k1", "k2"}
  Passphrases = {"p"}
INVARIANT AtMostOnce  LogHoldsQueue SameBlocks NothingMissing  CensorshipFound OneProposer 
PROPERTY ImplementsQueue
