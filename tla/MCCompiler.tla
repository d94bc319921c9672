------------------------------ MODULE MCCompiler ------------------------------
(* Small instances of the parts that run in the compiler and its build front   *)
(* end, and of two pieces of the code it generates: module initialization and  *)
(* parallel sections.  They share no state: a behaviour is one of one part.    *)
EXTENDS MCFlowControl, Compiler, TLC

CONSTANTS Base, Derived

VARIABLE part

\* An extension type and its base, in the order in which they are created.
BaseFirst == <<Base, Derived>>

\* Three modules that may cimport each other in every way, and a fourth in a
\* cycle with them, which is also included by the first.
SomePairs == {<<f, g>> \in (1 .. 3) \X (1 .. 3) : f # g} \cup {<<2, 4>>, <<4, 1>>, <<4, 3>>}
LastIsIncluded == {<<1, 4>>}

\* A file's cimports are walked from the file that follows it.
Rotated == [f \in 1 .. 4 |-> [g \in 1 .. 4 |-> (g - f) % 4]]

\* The builders are also the team of threads without its master.
Interchangeable == Permutations(Builders) \cup Permutations(Inodes)

Init ==
  /\ part \in {"flow", "exec", "dependencies", "cache", "parallel"}
  /\ IF part = "flow" THEN FlowInit
     ELSE program = <<>> /\ reach = {} /\ todo = <<>> /\ signal = "" /\ def = Unbound
  /\ IF part = "exec" THEN ExecInit
     ELSE /\ plan = <<>> /\ value = {} /\ attributes = {} /\ published = <<>>
          /\ publications = <<>> /\ remaining = {}
          /\ undo = <<>> /\ error = NoError /\ cause = NoError /\ exec = "done"
  /\ IF part = "dependencies" THEN DepInit
     ELSE cimports = {} /\ includes = {} /\ seen = <<>>
  /\ BuildInit
  /\ ParInit
  /\ part # "parallel" => section = [shape |-> "parallel", keepsGil |-> FALSE]

Next ==
  \/ part = "flow" /\ FlowNext /\ UNCHANGED <<part, execVars, depVars, buildVars, parVars>>
  \/ part = "exec" /\ ExecNext /\ UNCHANGED <<part, flowVars, depVars, buildVars, parVars>>
  \/ part = "dependencies" /\ DepNext /\ UNCHANGED <<part, flowVars, execVars, buildVars, parVars>>
  \/ part = "cache" /\ BuildNext /\ UNCHANGED <<part, flowVars, execVars, depVars, parVars>>
  \/ part = "parallel" /\ ParNext /\ UNCHANGED <<part, flowVars, execVars, depVars, buildVars>>

Spec == Init /\ [][Next]_<<part, flowVars, execVars, depVars, buildVars, parVars>>
===============================================================================
