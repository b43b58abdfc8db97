\* Two deployments, nginx may refuse its configuration.
SPECIFICATION Spec
CONSTANTS
  NoColour = NoColour
  Deploy = {d1, d2}
  Failures = {"config"}
  Overlap = FALSE
CHECK_DEADLOCK FALSE
INVARIANTS
  SuccessIsTrue
