SPECIFICATION BuildSpec
CONSTANTS
  Builders = {b1}
  SourceTexts = {good, broken}
  Broken = {broken}
  Directives = {d}
  Forces = {FALSE}
  Inodes = {i1, i2, i3}
  NoFile = NoFile
  Blocks = 1
  CacheSize = 4
  CacheKeep = 4
INVARIANT
  BrokenIsReported
CHECK_DEADLOCK FALSE
