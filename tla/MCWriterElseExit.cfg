SPECIFICATION Spec
CONSTANTS
  None = None
  Names = {a}
  Args = {}
  Tracked = TRUE
  MaxTemps = 5
  MaxDepth = 2
  MaxOperands = 1
  MaxOperandsInside = 1
  Lanes = {"elseExit"}
INVARIANT
  ExitReleasesEverything
CHECK_DEADLOCK FALSE
