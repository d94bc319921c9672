------------------------------ MODULE MCHandles ------------------------------
(* Small instances of HandleTemporaries and of HandleStateTracker, which share *)
(* nothing: a behaviour is one of the first or one of the second.              *)
EXTENDS HandleTemporaries, HandleStateTracker, TLC

VARIABLE part

NameSymmetry == Permutations(Names)

Init == part \in {"temporaries", "tracker"} /\ TempInit /\ TrackerInit

Next ==
  \/ part = "temporaries" /\ TempNext /\ UNCHANGED <<part, trackerVars>>
  \/ part = "tracker" /\ TrackerNext /\ UNCHANGED <<part, tempVars>>

Spec == Init /\ [][Next]_<<part, tempVars, trackerVars>>
=============================================================================
