SPECIFICATION FairSpec
CONSTANTS
  Threads = {t1, t2, t3}
  Messages = {m1, m2}
  MaxSize = 2
  MaxOps = 4
INVARIANT NoLostWakeup
PROPERTIES
  ImplementsFifo
  EveryCallReturns
