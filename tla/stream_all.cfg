\* A text socket and a file socket with a receiver that reads on.
SPECIFICATION StreamFairSpec
CONSTANTS
  Kinds = {"text", "file"}
  Lengths <- BodyLengths
  Transfer = 2
  Room = 3
  MaxMessages = 3
INVARIANTS StreamTypeOK FittingTextsArrive
PROPERTIES ImplementsChannel EveryFrameArrives
CHECK_DEADLOCK FALSE
