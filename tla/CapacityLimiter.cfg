CONSTANTS
  t1 = t1
  t2 = t2
  t3 = t3
  Threads <- MCThreads
  Total <- MCTotal
  Sizes <- MCSizes

SPECIFICATION FairSpec

INVARIANT NoLostWakeup

PROPERTY DrainServesAll
PROPERTY ImplementsBroker
