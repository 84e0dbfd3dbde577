\* Texts sent by SendMessage to a client that reads slowly.
SPECIFICATION StreamSpec
CONSTANTS
  Kinds = {"text"}
  Lengths <- BodyLengths
  Transfer = 2
  Room = 3
  MaxMessages = 2
INVARIANTS OnlySentArrives
CHECK_DEADLOCK FALSE
