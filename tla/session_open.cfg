SPECIFICATION Spec
CONSTANTS
  RequireAuth = FALSE
  Platforms = {FALSE}
  MayStall = {}
  Frames <- OpenFrames
  MaxFrames = 1
  MaxBatch = 1
  Conns = {c1, c2}
  NoId = NoId
  Recorded = {}
SYMMETRY Symmetry
INVARIANTS
  TypeOK
  MapsAgree
  RecvThreadOwned
  DisconnectedIsSilent
  ChatIsGated
  EventsBalance
CHECK_DEADLOCK FALSE
