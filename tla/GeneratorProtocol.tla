-------------------------- MODULE GeneratorProtocol --------------------------
(***************************************************************************)
(* What a generator promises to the threads that share it: its body is in  *)
(* the hands of one call at a time, only that call moves it, and it goes   *)
(* from created through suspensions to closed and never back.              *)
(***************************************************************************)
CONSTANTS Gens, Calls, Nobody  \* Nobody is no call

VARIABLES owner,   \* the call that has the generator in its hands, or Nobody
          status

Status == {"created", "suspended", "closed"}

\* The states a call may leave a generator in.
After(s) == IF s = "closed" THEN {"closed"}
            ELSE IF s = "suspended" THEN {"suspended", "closed"} ELSE Status

Init ==
  /\ owner = [g \in Gens |-> Nobody]
  /\ status = [g \in Gens |-> "created"]

Take(g, c) ==
  /\ owner[g] = Nobody
  /\ owner' = [owner EXCEPT ![g] = c]
  /\ UNCHANGED status

Move(g, s) ==
  /\ owner[g] # Nobody
  /\ s \in After(status[g])
  /\ status' = [status EXCEPT ![g] = s]
  /\ UNCHANGED owner

Give(g) ==
  /\ owner[g] # Nobody
  /\ owner' = [owner EXCEPT ![g] = Nobody]
  /\ UNCHANGED status

Next == \E g \in Gens : \/ \E c \in Calls : Take(g, c)
                        \/ \E s \in Status : Move(g, s)
                        \/ Give(g)

Spec == Init /\ [][Next]_<<owner, status>>
=============================================================================
