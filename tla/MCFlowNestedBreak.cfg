SPECIFICATION FlowSpec
CONSTANTS
  Programs <- NestedBreak
INVARIANT
  ReachCovers
CHECK_DEADLOCK FALSE
