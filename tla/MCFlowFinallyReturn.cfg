SPECIFICATION FlowSpec
CONSTANTS
  Programs <- FinallyReturn
INVARIANT
  ReachCovers
CHECK_DEADLOCK FALSE
