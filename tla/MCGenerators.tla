----------------------------- MODULE MCGenerators ----------------------------
(* Small instances of Generators and of AsyncGenerators, which share nothing: *)
(* a behaviour is one of the first or one of the second.                      *)
EXTENDS Generators, AsyncGenerators, TLC

VARIABLE system

OneKind == {{}, Gens}

Interchangeable == Permutations(Calls) \cup Permutations(Gens)

Init ==
  /\ system \in {"generators", "asynchronous generator"}
  /\ GenInit /\ AsyncInit
  /\ system = "asynchronous generator" => coroutines = {}

Next ==
  \/ system = "generators" /\ GenNext /\ UNCHANGED <<system, asyncVars>>
  \/ system = "asynchronous generator" /\ AsyncNext /\ UNCHANGED <<system, genVars>>

Spec == Init /\ [][Next]_<<system, genVars, asyncVars>>

\* Every variable of the two modules has its type.
GeneratorsTypeOK == GenTypeOK /\ AsyncTypeOK
=============================================================================
