SPECIFICATION FairSpec
CONSTANTS
  RequireAuth = FALSE
  Platforms = {TRUE}
  MayStall = {}
  Frames <- OnlyPing
  MaxFrames = 1
  MaxBatch = 1
  Conns = {c1}
  NoId = NoId
  Recorded = {}
PROPERTY StopTerminates
CHECK_DEADLOCK FALSE
