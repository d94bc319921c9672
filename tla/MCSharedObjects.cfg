SPECIFICATION Spec
CONSTANTS
  Workers = {t1, t2, t3}
  TraceLines = {0, 1, 2, 3}
  CodeObjects = {o1, o2, o3}
  INT_MIN <- IntMin
  Chunk = 1
  NoObject = NoObject
  Threads = {t1, t2, t3}
  Views = {o1, o2, o3}
  Slices = {s1, s2, s3}
  Names = {n1, n2}
  NoView = NoView
INVARIANTS
  SharedTypeOK
  WriterIsAlone
  CounterIsAccessors
  CodeReferencesMatch
  CacheIsRight
  ViewReferencesMatch
  ViewsInUseLive
SYMMETRY Interchangeable
CHECK_DEADLOCK FALSE
