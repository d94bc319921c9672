SPECIFICATION BuildSpec
CONSTANTS
  Builders = {b1}
  SourceTexts = {good}
  Broken = {}
  Directives = {d}
  Forces = {TRUE}
  Inodes = {i1, i2, i3}
  NoFile = NoFile
  Blocks = 1
  CacheSize = 4
  CacheKeep = 4
INVARIANT
  ForceCompiles
CHECK_DEADLOCK FALSE
