SPECIFICATION Spec
CONSTANTS
  main = main
  sub = sub
  worker = worker
  None = None
  Unset = Unset
  Interpreters = {0, 1}
  Threads = {main, sub}
  Home <- OnePerInterpreter
  SmallSize = 1
  Addresses = {low, high}
  low = low
  high = high
  MaxModules = 2
  Lanes = {}
INVARIANTS
  ReadersAreSafe
  LookupIsCurrent
  RemovalsHaveATable
PROPERTY
  CallsReturn
CHECK_DEADLOCK FALSE
