SPECIFICATION FairSpec
CONSTANTS
  Refusals = TRUE
  SlowReader = FALSE
  MaxToggles = 2
  MaxPlugs = 2
  MaxGlitches = 1
  MaxQueued = 2
INVARIANTS TypeOK HandleIsLive KeyingIsGated FacadeKnows NoDeafReader
PROPERTIES RemovedOnce LossIsHeard
\* With the device unplugged or closed for good, nothing is left to do.
CHECK_DEADLOCK FALSE
