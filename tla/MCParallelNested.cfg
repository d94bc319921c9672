SPECIFICATION ParSpec
CONSTANTS
  Team = {m, w}
  Master = m
  Iterations = 2
  Nobody = Nobody
PROPERTY
  SkippedAfterExit
CHECK_DEADLOCK FALSE
