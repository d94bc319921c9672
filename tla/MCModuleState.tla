---------------------------- MODULE MCModuleState ---------------------------
(***************************************************************************)
(* Instances of ModuleStateLookup: one thread per interpreter, or a second *)
(* thread of the last one.                                                 *)
(***************************************************************************)
EXTENDS ModuleStateLookup, TLC

CONSTANTS main, sub, worker, low, high

OnePerInterpreter == (main :> 0) @@ (sub :> 1)
TwoInterpreters   == (main :> 0) @@ (sub :> 1) @@ (worker :> 1)
ThreeInterpreters == (main :> 0) @@ (sub :> 1) @@ (worker :> 2)

Moves == Permutations(Addresses)
=============================================================================
