SPECIFICATION MCSpec
CONSTANTS
  Setups <- AllSetups
  MaxAttempts = 2
INVARIANT SubmittedOnDA  ProofsExact AnswersTrue
PROPERTY ImplementsFinality FinalInTheEnd AnswersStable 
CHECK_DEADLOCK FALSE
