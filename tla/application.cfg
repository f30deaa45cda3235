SPECIFICATION FairSpec
CONSTANTS
  Clients = {k1, k2}
  Remote = r
  Platforms = {"linux", "windows"}
  Modes = {"listen", "connect"}
  MaxInterrupts = 1
  MaxErrors = 1
  MaxSignals = 1
INVARIANTS
  TypeOK
  NoClientLost
  ScopeRespected
PROPERTIES
  StopIsSharp
  ServerStopReturns
  ClientsAreServed
  StopEndsRun
CHECK_DEADLOCK FALSE
