SPECIFICATION FairSpec
CONSTANTS
  RequireAuth = TRUE
  Platforms = {TRUE, FALSE}
  MayStall = {c1}
  Frames <- AllFrames
  MaxFrames = 2
  MaxBatch = 2
  Conns = {c1}
  NoId = NoId
  Recorded = {}
PROPERTIES
  StopReturns
  UiReturns
  GoneIsReaped
CHECK_DEADLOCK FALSE
