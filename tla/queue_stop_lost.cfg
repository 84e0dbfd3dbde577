\* stop against a worker that is about to sleep.
SPECIFICATION FairSpec
CONSTANTS
  Callers = {c1}
  Operations <- ServerOperations
  RetryStates <- FailedOnly
  Chunks = 1
  MaxId = 1
  MaxRetries = 0
  MaxSockets = 1
PROPERTIES StopJoins
CHECK_DEADLOCK FALSE
