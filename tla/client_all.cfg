\* Every command, on one file and one reconnect, with a peer that may stop reading.
SPECIFICATION ClientFairSpec
CONSTANTS
  Cmd = Cmd
  Io = Io
  Callers <- Threads
  Operations <- ManagerOperations
  Commands <- AllCommands
  RetryStates <- FailedOnly
  Chunks = 1
  MaxId = 1
  MaxRetries = 1
  MaxSockets = 2
INVARIANTS ClientTypeOK HistoryAsked QuitClosesAll FewReadLoops
PROPERTIES PausedForAReason QuitEnds CancelFreesWorker
CHECK_DEADLOCK FALSE
