SPECIFICATION ParSpec
CONSTANTS
  Team = {m, v, w}
  Master = m
  Iterations = 2
  Nobody = Nobody
INVARIANT
  MayStepIsEnabled
CHECK_DEADLOCK FALSE
