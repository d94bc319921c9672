SPECIFICATION Spec
CONSTANTS
  MaxTemps = 2
  MaxGeneration = 3
  Names = {a, b}
  Trackers = {t1, t2, t3}
  Root = t1
  StorageKinds = {"local", "global"}
  NoPlan = NoPlan
  Planners = {t1, t2}
INVARIANTS
  LiveOwnedIsBound
  StateHoldsOnEveryPath
PROPERTIES
  LinearSpec
  CleanupIsComplete
SYMMETRY NameSymmetry
CHECK_DEADLOCK FALSE
