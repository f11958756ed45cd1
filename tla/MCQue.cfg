SPECIFICATION FairSpec
CONSTANTS
  t1 = t1  t2 = t2  t3 = t3  v1 = v1  v2 = v2
  Threads <- ThreeThreads
  Ops <- AllOps
  Values <- TwoValues
  Depth = 2
  Junk = Junk
INVARIANTS RingOK NoLostWakeup
PROPERTIES ImplementsFifo SleepersServed
