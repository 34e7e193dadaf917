SPECIFICATION FairSpec
CONSTANTS
  keyer = keyer
  ep02 = ep02
  Threads <- BothThreads
  Capacity = 2
  MaxPosts = 3
INVARIANTS NoLostWakeUp NoDataRace
PROPERTIES ImplementsFifo EveryFrameHandedOver
\* Once both threads have posted all they post, the queue is empty and everybody sleeps.
CHECK_DEADLOCK FALSE
