SPECIFICATION Spec
CONSTANTS
  main = main
  sub = sub
  worker = worker
  None = None
  Unset = Unset
  Interpreters = {0, 1, 2}
  Threads = {main, sub, worker}
  Home <- ThreeInterpreters
  SmallSize = 2
  Addresses = {low, high}
  low = low
  high = high
  MaxModules = 1
  Lanes = {}
INVARIANTS
  TypeOK
  TableMatches
SYMMETRY Moves
CHECK_DEADLOCK FALSE
