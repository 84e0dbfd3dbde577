\* A joiner asks for the history while a text is being broadcast.
SPECIFICATION Spec
CONSTANTS
  Clients = {c1, c2}
  Sockets <- AllSockets
  Present = {}
  Slow = {}
  MAX_HISTORY_MESSAGES = 2
  MaxTexts = 1
  MaxFiles = 0
  MaxRequests = 1
  MaxLeaves = 0
  Stops = FALSE
  MaxCalls = 2
SYMMETRY Symmetry
INVARIANTS JoinerMissesNoText
CHECK_DEADLOCK FALSE
