SPECIFICATION Spec
CONSTANTS
  None = None
  Names = {a}
  Args = {}
  Tracked = TRUE
  MaxTemps = 5
  MaxDepth = 2
  MaxOperands = 1
  MaxOperandsInside = 1
  Lanes = {"hiddenLoop"}
INVARIANT
  NoDanglingUse
CHECK_DEADLOCK FALSE
