SPECIFICATION FairSpec
CONSTANTS
  MaxSets = 2
  QueueBound = 1
  None = None
INVARIANTS MatchedLabelAlive ClientAgrees CallbackHasLog
PROPERTY UIReturns
CHECK_DEADLOCK FALSE
