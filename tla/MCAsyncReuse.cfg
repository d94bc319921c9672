SPECIFICATION AsyncSpec
CONSTANTS
  Awaitables = {a1, a2, a3}
  AsyncLanes = {}
INVARIANT
  FinishedIsClosed
CHECK_DEADLOCK FALSE
