SPECIFICATION FairSpec
CONSTANTS
  HeaderSize = 2
  MaxPayload = 1
  MaxChunk = 5
  MaxFrames = 3
  MaxLen = 2
  Wires <- MCWires
INVARIANTS
  DecodesExactly
  NothingHeldBack
PROPERTIES
  FeedTerminates
  ImplementsStream
CHECK_DEADLOCK FALSE
