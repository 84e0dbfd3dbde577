\* A client joins while two things happen, under threads that run on.
SPECIFICATION FairSpec
CONSTANTS
  Clients = {c1, c2}
  Sockets <- AllSockets
  Present = {c2}
  Slow = {c1}
  MAX_HISTORY_MESSAGES = 1
  MaxTexts = 1
  MaxFiles = 1
  MaxRequests = 1
  MaxLeaves = 1
  Stops = TRUE
  MaxCalls = 2
INVARIANTS WaitsEndAtWorkers TextsReachJoiner HistoryHoldsLast
PROPERTIES HandlersReturn StopReturns TextReachesClients
CHECK_DEADLOCK FALSE
