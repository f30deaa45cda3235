SPECIFICATION Spec
CONSTANTS
  Devices = {a, b}
  Self = b
  Peer = a
  Other = c
  Ports <- MCPorts
  Foreign <- MCForeign
  Period = 10
  Window = 1
  MaxNet = 2
  Ideal = TRUE
INVARIANT ScanFindsPeers
