SPECIFICATION Spec
CONSTANTS
  Programs <- Small
  Methods = {f, g}
  Globals = {f, x, y}
  Constants = {builtins}
  TypeDefaults = {default}
  Types <- BaseFirst
  Base = Base
  Derived = Derived
  Defaults = {d}
  MaxStatements = 3
  MaxRemaining = 1
  NoError = NoError
  Files = {1, 2, 3, 4}
  Order <- Rotated
  CimportPairs <- SomePairs
  IncludePairs <- LastIsIncluded
  NoLoop = NoLoop
  Builders = {b1, b2}
  SourceTexts = {good, broken}
  Broken = {broken}
  Directives = {d}
  Forces = {FALSE}
  Inodes = {i1, i2, i3}
  NoFile = NoFile
  Blocks = 2
  CacheSize = 1
  CacheKeep = 1
  Team = {m, b1, b2}
  Master = m
  Iterations = 3
  Nobody = Nobody
INVARIANT
  ErrorArrives
CHECK_DEADLOCK FALSE
