SPECIFICATION FairSpec
CONSTANTS
  Conns = {c1, c2}
  Fds = {3}
  NoFd = NoFd
  Nobody = Nobody
  Session = Session
  Rude = {c1}
  FrameLen = 2
  MaxSends = 1
INVARIANTS
  TypeOK
  FramesWhole
  DescriptorsInOrder
PROPERTIES
  SessionGetsThrough
CHECK_DEADLOCK FALSE
