\* A file socket is accepted while a file is being broadcast.
SPECIFICATION Spec
CONSTANTS
  Clients = {c1, c2}
  Sockets <- AllSockets
  Present = {}
  Slow = {}
  MAX_HISTORY_MESSAGES = 3
  MaxTexts = 0
  MaxFiles = 1
  MaxRequests = 1
  MaxLeaves = 0
  Stops = FALSE
  MaxCalls = 2
SYMMETRY Symmetry
INVARIANTS OneWriter
CHECK_DEADLOCK FALSE
