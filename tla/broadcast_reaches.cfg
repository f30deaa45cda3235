SPECIFICATION Spec
CONSTANTS
  RequireAuth = FALSE
  Platforms = {TRUE}
  MayStall = {}
  Frames <- ChatFrames
  MaxFrames = 1
  MaxBatch = 1
  Conns = {c1}
  NoId = NoId
  Recorded = {"CHAT_MESSAGE"}
PROPERTY BroadcastReaches
CHECK_DEADLOCK FALSE
