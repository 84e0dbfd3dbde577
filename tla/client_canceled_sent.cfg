\* /cancelall while the worker is between picking a file and asking for the socket.
SPECIFICATION ClientFairSpec
CONSTANTS
  Cmd = Cmd
  Io = Io
  Callers <- Threads
  Operations <- ManagerOperations
  Commands <- CancelCommands
  RetryStates <- FailedOnly
  Chunks = 1
  MaxId = 1
  MaxRetries = 1
  MaxSockets = 2
PROPERTIES CanceledStaysOffWire
CHECK_DEADLOCK FALSE
