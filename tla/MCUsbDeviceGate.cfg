SPECIFICATION Spec
CONSTANTS
  Refusals = TRUE
  SlowReader = FALSE
  MaxToggles = 0
  MaxPlugs = 1
  MaxGlitches = 0
  MaxQueued = 2
INVARIANT GateFollowsOpen
CHECK_DEADLOCK FALSE
