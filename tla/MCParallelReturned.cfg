SPECIFICATION ParSpec
CONSTANTS
  Team = {m, w}
  Master = m
  Iterations = 2
  Nobody = Nobody
INVARIANT
  ReturnedIsReleased
CHECK_DEADLOCK FALSE
