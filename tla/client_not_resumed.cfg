\* /cancelall by a user who never pauses the queue.
SPECIFICATION ClientFairSpec
CONSTANTS
  Cmd = Cmd
  Io = Io
  Callers <- Threads
  Operations <- ManagerOperations
  Commands <- CancelCommands
  RetryStates <- FailedOnly
  Chunks = 1
  MaxId = 1
  MaxRetries = 1
  MaxSockets = 2
PROPERTIES ReconnectResumes
CHECK_DEADLOCK FALSE
