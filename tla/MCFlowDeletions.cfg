SPECIFICATION FlowSpec
CONSTANTS
  Programs <- Deletions
INVARIANT
  ReachCovers
CHECK_DEADLOCK FALSE
