SPECIFICATION Spec
CONSTANTS
  None = None
  Names = {a}
  Args = {a}
  Tracked = TRUE
  MaxTemps = 5
  MaxDepth = 0
  MaxOperands = 1
  MaxOperandsInside = 1
  Lanes = {"staleArgument"}
INVARIANT
  ReadsAreCurrent
CHECK_DEADLOCK FALSE
