\* A client joins and asks for the history while a file is sent and the server is stopped.
SPECIFICATION Spec
CONSTANTS
  Clients = {c1, c2}
  Sockets <- FileSockets
  Present = {c2}
  Slow = {}
  MAX_HISTORY_MESSAGES = 1
  MaxTexts = 0
  MaxFiles = 1
  MaxRequests = 1
  MaxLeaves = 1
  Stops = TRUE
  MaxCalls = 3
INVARIANTS TypeOK FilesReachJoiner FilesReachListed ReplayIsSegment QueueOwnership MixEndsWithRace FilesKept
CHECK_DEADLOCK FALSE
