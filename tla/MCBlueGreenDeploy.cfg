\* Deployments at any time, every failure.
SPECIFICATION LiveSpec
CONSTANTS
  NoColour = NoColour
  Deploy = {d1, d2, d3}
  Failures = {"unhealthy", "unready", "config", "reload", "cut", "swallowed"}
  Overlap = TRUE
CHECK_DEADLOCK FALSE
INVARIANTS
  ActiveIsServing
  ServedOutsideSwitch
  DeployInv
PROPERTIES
  EventuallyEnds
