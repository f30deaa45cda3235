SPECIFICATION FairSpec
CONSTANTS
  Devices = {a, b}
  Self = b
  Peer = a
  Other = c
  Ports <- MCPorts
  Foreign <- MCForeign
  Period = 1
  Window = 1
  MaxNet = 2
  Ideal = FALSE
INVARIANTS
  TypeOK
  ListsWhatWasHeard
PROPERTIES
  SilentWhenStopped
  StopAnnounceReturns
  ScanReturns
  KeepsAnnouncing
