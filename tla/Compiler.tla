------------------------------- MODULE Compiler -------------------------------
(* The parts of the build front end, module initialization and parallel        *)
(* sections, next to each other.  They share no state.                         *)
EXTENDS ModuleExec, BuildDependencies, BuildCache, ParallelSections

\* Every variable of these parts has its type; cleanup_cache counts the files it
\* has listed, and the cache's times are those of the files that are there.
CompilerTypeOK == ExecTypeOK /\ DepTypeOK /\ BuildTypeOK /\ ParTypeOK
===============================================================================
