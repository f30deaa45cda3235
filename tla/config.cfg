SPECIFICATION Spec
CONSTANTS
  Procs = {p1, p2, p3}
  DeviceIds = {d1, d2, d3, d4, d5}
  HostName = host
  Empty = empty
  name = name
  padded = padded
  twoLines = twoLines
  Texts <- MCTexts
  Inputs <- MCInputs
  FirstLine <- MCFirstLine
  MoreLines <- MCMoreLines
  Ports = {70000}
  NoFile = NoFile
  MaxFaults = 1
INVARIANTS
  TypeOK
  IdentityKept
  LastSetWins
SYMMETRY Symmetry
CHECK_DEADLOCK FALSE
