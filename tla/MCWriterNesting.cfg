SPECIFICATION Spec
CONSTANTS
  None = None
  Names = {a}
  Args = {a}
  Tracked = TRUE
  MaxTemps = 4
  MaxDepth = 2
  MaxOperands = 2
  MaxOperandsInside = 2
  Lanes = {}
INVARIANTS
  NoDanglingUse
CHECK_DEADLOCK FALSE
