--------------------------- MODULE MCSharedObjects ---------------------------
(* Small instances of CodeObjectCache and of MemoryviewSlices, which share    *)
(* nothing: a behaviour is one of the first or one of the second.             *)
EXTENDS CodeObjectCache, MemoryviewSlices, TLC

VARIABLE system

\* Stands for -2^31: less than the number of threads below zero.
IntMin == -8

Interchangeable == Permutations(Workers) \cup Permutations(Views)

Init ==
  /\ system \in {"code objects", "memoryviews"}
  /\ CodeInit /\ ViewInit

Next ==
  \/ system = "code objects" /\ CodeNext /\ UNCHANGED <<system, viewVars>>
  \/ system = "memoryviews" /\ ViewNext /\ UNCHANGED <<system, codeVars>>

Spec == Init /\ [][Next]_<<system, codeVars, viewVars>>

\* Every variable of the two modules has its type.
SharedTypeOK == CodeTypeOK /\ ViewTypeOK
==============================================================================
