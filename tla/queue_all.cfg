\* Every operation, on two files and a socket that is replaced once.
SPECIFICATION FairSpec
CONSTANTS
  Callers = {c1}
  Operations <- AllOperations
  RetryStates <- FailedOnly
  Chunks = 2
  MaxId = 2
  MaxRetries = 1
  MaxSockets = 2
INVARIANTS TypeOK QueueOrder SendingIsActive DoneWasSent WorkerOwnsItem CancelCloses
PROPERTIES NoLostRetry EveryFileAttempted NoLostWakeup LedgerSpec
CHECK_DEADLOCK FALSE
