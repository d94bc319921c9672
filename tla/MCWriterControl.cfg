SPECIFICATION Spec
CONSTANTS
  None = None
  Names = {a, x}
  Args = {a}
  Tracked = TRUE
  MaxTemps = 4
  MaxDepth = 1
  MaxOperands = 2
  MaxOperandsInside = 1
  Lanes = {}
INVARIANTS
  TypeOK
  HandlesMatch
  ExitReleasesEverything
  NoDanglingUse
  NamesDenoteTheirValues
  ReadsAreCurrent
CHECK_DEADLOCK FALSE
