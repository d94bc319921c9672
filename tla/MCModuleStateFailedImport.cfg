SPECIFICATION Spec
CONSTANTS
  main = main
  sub = sub
  worker = worker
  None = None
  Unset = Unset
  Interpreters = {0, 1}
  Threads = {main, sub, worker}
  Home <- TwoInterpreters
  SmallSize = 1
  Addresses = {low, high}
  low = low
  high = high
  MaxModules = 2
  Lanes = {}
INVARIANT
  ImportsAreComplete
CHECK_DEADLOCK FALSE
