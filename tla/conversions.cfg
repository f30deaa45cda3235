SPECIFICATION Spec
CONSTANTS
  Messages <- MCMessages
  Names <- MCNames
  ArgVectors <- MCArgVectors
  PortFlags <- MCPortFlags
  PortSettings <- MCPortSettings
  Recvs <- MCRecvs
  Headers <- MCHeaders
  Dashed <- MCDashed
  NotANumber = NotANumber
  NoPort = NoPort
  Limit = 2
  Second = 2
INVARIANTS
  SurvivesTheWire
  CommandLineIsKept
  RateLimitWithinTwo
CHECK_DEADLOCK FALSE
