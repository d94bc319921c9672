--------------------------- MODULE LinearResource ---------------------------
(***************************************************************************)
(* What the aHPy compiler promises about every owned HPy handle: one       *)
(* lifetime is acquired at most once and ends at most once, by a close or  *)
(* by a move, and nothing brings it back.  HandleModel.py states this      *)
(* through its HandleState enum and the transitions it refuses; the        *)
(* managers built on it are shown to implement this specification.         *)
(***************************************************************************)
CONSTANT Lifetimes

VARIABLE phase          \* [Lifetimes -> Phases]

Phases == {"unborn", "live", "ended"}

TypeOK == phase \in [Lifetimes -> Phases]

Init == phase = [l \in Lifetimes |-> "unborn"]

Acquire(l) == /\ phase[l] = "unborn"
              /\ phase' = [phase EXCEPT ![l] = "live"]

End(l) == /\ phase[l] = "live"
          /\ phase' = [phase EXCEPT ![l] = "ended"]

Next == \E l \in Lifetimes : Acquire(l) \/ End(l)

Spec == Init /\ [][Next]_phase
=============================================================================
