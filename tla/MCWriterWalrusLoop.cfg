SPECIFICATION Spec
CONSTANTS
  None = None
  Names = {a}
  Args = {}
  Tracked = TRUE
  MaxTemps = 5
  MaxDepth = 1
  MaxOperands = 1
  MaxOperandsInside = 1
  Lanes = {"walrusLoop"}
INVARIANT
  NoDanglingUse
CHECK_DEADLOCK FALSE
