SPECIFICATION Spec
CONSTANTS
  Gens = {g1, g2}
  Kinds <- OneKind
  Calls = {c1, c2, c3}
  Iterator = Iterator
  Nobody = Nobody
  Awaitables = {a1, a2, a3, a4}
  AsyncLanes = {"arguments"}
INVARIANTS
  GeneratorsTypeOK
  RunningIsOneCall
  CloseFinishes
  OneAtATime
PROPERTIES
  InnermostFirst
  ProtocolSpec
SYMMETRY Interchangeable
CHECK_DEADLOCK FALSE
