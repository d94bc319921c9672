---------------------- MODULE HandleStateTracker_proofs ----------------------
(***************************************************************************)
(* Proofs about HandleStateTracker for any set of names and of trackers.   *)
(***************************************************************************)
EXTENDS HandleStateTracker, TLAPS

USE TrackerAssumption

Entries == {Undeclared} \cup StorageEntry \cup ValueEntry

IInv == TrackerTypeOK /\ StateHoldsOnEveryPath

\* How often a path has released a name whose entry is e.
Released(e) == IF e.is = "value" /\ ~IsLive(e) THEN 1 ELSE 0

LEMMA EntryTypes ==
  /\ Undeclared \in Entries /\ Undeclared.is = "none"
  /\ \A k \in HandleStorageKind : Storage(k) \in Entries /\ Storage(k).is = "storage"
  /\ \A o \in {"owned", "borrowed-argument", "immortal"} :
       Value(o) \in Entries /\ Released(Value(o)) = 0
BY DEF Entries, Undeclared, Storage, StorageEntry, Value, ValueEntry, HandleState,
       Released, IsLive

\* The names an operation or a plan consumes are live and owned.
LEMMA ClosedAreLive ==
  ASSUME NEW t \in Trackers, NEW p \in Plans
  PROVE  ClosedBy(t, p) \subseteq live_owned_handles(t)
BY DEF ClosedBy, live_owned_handles, Plans

\* Declaring a new name on one tracker, with no release on any path.
LEMMA DeclareStep ==
  ASSUME IInv, NEW t \in Trackers, NEW n \in Names, NEW e \in Entries,
         Released(e) = 0, DeclareEntry(t, n, e)
  PROVE  IInv'
<1>1. /\ t \in inUse /\ entry[t][n] = Undeclared
      /\ entry' = [entry EXCEPT ![t][n] = e]
      /\ UNCHANGED <<inUse, plan, paths>> /\ outcome' = "ok"
      /\ earlier' = IF e.is = "value" THEN [earlier EXCEPT ![t][n] = values(t)]
                    ELSE earlier
  BY DEF DeclareEntry, IsNew
<1>2. entry \in [Trackers -> [Names -> Entries]]
  BY DEF IInv, TrackerTypeOK, Entries
<1>3. TrackerTypeOK'
  <2>1. entry' \in [Trackers -> [Names -> Entries]]
    BY <1>1, <1>2
  <2>2. values(t) \subseteq Names
    BY DEF values
  <2>3. earlier' \in [Trackers -> [Names -> SUBSET Names]]
    BY <1>1, <2>2 DEF IInv, TrackerTypeOK
  <2> QED BY <1>1, <2>1, <2>3 DEF IInv, TrackerTypeOK, Entries
<1>4. StateHoldsOnEveryPath'
  <2> SUFFICES ASSUME NEW u \in inUse', NEW h \in paths'[u], NEW m \in Names
               PROVE  h[m] = Released(entry'[u][m])
    BY DEF StateHoldsOnEveryPath, Released, IsLive
  <2>0. u \in Trackers /\ u \in inUse /\ h \in paths[u]
    BY <1>1 DEF IInv, TrackerTypeOK
  <2>1. h[m] = Released(entry[u][m])
    BY <2>0 DEF IInv, StateHoldsOnEveryPath, Released
  <2>2. CASE u = t /\ m = n
    <3>1. entry'[u][m] = e
      BY <1>1, <1>2, <2>2
    <3>2. Released(entry[u][m]) = 0
      BY <1>1, <2>2, EntryTypes DEF Released
    <3> QED BY <2>1, <3>1, <3>2
  <2>3. CASE ~(u = t /\ m = n)
    BY <1>1, <1>2, <2>0, <2>1, <2>3
  <2> QED BY <2>2, <2>3
<1> QED BY <1>3, <1>4 DEF IInv

\* Consuming live owned names releases each of them once, on every path.
LEMMA ConsumeStep ==
  ASSUME IInv, NEW t \in inUse, NEW S \in SUBSET Names,
         S \subseteq live_owned_handles(t), NEW target \in {"closed", "moved"},
         ConsumeAll(t, S, target), UNCHANGED <<inUse, earlier, plan>>,
         outcome' \in {"ok", "raised"}
  PROVE  IInv'
<1> DEFINE after(n)   == [entry[t][n] EXCEPT !.state = target]
           count(h)   == [n \in Names |-> IF n \in S THEN h[n] + 1 ELSE h[n]]
<1>1. t \in Trackers /\ entry \in [Trackers -> [Names -> Entries]]
      /\ paths \in [Trackers -> SUBSET Histories]
  BY DEF IInv, TrackerTypeOK, Entries
<1>2. /\ entry' = [entry EXCEPT ![t] =
                     [n \in Names |-> IF n \in S THEN after(n) ELSE entry[t][n]]]
      /\ paths' = [paths EXCEPT ![t] = {count(h) : h \in paths[t]}]
  BY <1>1 DEF ConsumeAll
<1>3. ASSUME NEW n \in S
      PROVE  after(n) \in Entries /\ Released(after(n)) = 1 /\ Released(entry[t][n]) = 0
  <2>1. entry[t][n] \in ValueEntry /\ IsLiveOwned(entry[t][n])
    BY <1>1 DEF live_owned_handles, IsLiveOwned, IsLive, Entries, StorageEntry, Undeclared
  <2>2. after(n) = [is |-> "value", ownership |-> entry[t][n].ownership, state |-> target]
    BY <2>1 DEF ValueEntry
  <2>3. after(n) \in ValueEntry
    BY <2>1, <2>2 DEF ValueEntry, HandleState
  <2> HIDE DEF after
  <2>4. (after(n)).is = "value" /\ (after(n)).state = target
    BY <2>2
  <2> QED BY <2>1, <2>3, <2>4 DEF Entries, Released, IsLive, IsLiveOwned
<1> HIDE DEF after
<1>4. TrackerTypeOK'
  <2>1. entry' \in [Trackers -> [Names -> Entries]]
    BY <1>1, <1>2, <1>3
  <2>2. \A h \in Histories : count(h) \in Histories
    BY DEF Histories
  <2>3. paths' \in [Trackers -> SUBSET Histories]
    BY <1>1, <1>2, <2>2
  <2> QED BY <2>1, <2>3 DEF IInv, TrackerTypeOK, Entries
<1>5. StateHoldsOnEveryPath'
  <2> SUFFICES ASSUME NEW u \in inUse', NEW h \in paths'[u], NEW m \in Names
               PROVE  h[m] = Released(entry'[u][m])
    BY DEF StateHoldsOnEveryPath, Released, IsLive
  <2>0. u \in Trackers /\ u \in inUse
    BY DEF IInv, TrackerTypeOK
  <2>1. CASE u # t
    BY <1>1, <1>2, <2>0, <2>1 DEF IInv, StateHoldsOnEveryPath, Released
  <2>2. CASE u = t
    <3>1. PICK g \in paths[t] : h = count(g)
      BY <1>1, <1>2, <2>2
    <3>2. g[m] = Released(entry[t][m]) /\ g \in Histories
      BY <1>1 DEF IInv, StateHoldsOnEveryPath, Released
    <3>3. h[m] = IF m \in S THEN g[m] + 1 ELSE g[m]
      BY <3>1
    <3>4. entry'[u][m] = IF m \in S THEN after(m) ELSE entry[t][m]
      BY <1>1, <1>2, <2>2
    <3> QED BY <1>3, <3>2, <3>3, <3>4
  <2> QED BY <2>1, <2>2
<1> QED BY <1>4, <1>5 DEF IInv

LEMMA ForkStep ==
  ASSUME IInv, NEW t \in Trackers, NEW new \in Trackers, fork(t, new)
  PROVE  IInv'
<1>1. TrackerTypeOK'
  BY DEF IInv, TrackerTypeOK, fork
<1>2. StateHoldsOnEveryPath'
  <2> SUFFICES ASSUME NEW u \in inUse', NEW h \in paths'[u], NEW m \in Names
               PROVE  h[m] = Released(entry'[u][m])
    BY DEF StateHoldsOnEveryPath, Released, IsLive
  <2>1. CASE u = new
    BY <2>1 DEF fork, IInv, TrackerTypeOK, StateHoldsOnEveryPath, Released
  <2>2. CASE u # new
    BY <2>2 DEF fork, IInv, TrackerTypeOK, StateHoldsOnEveryPath, Released
  <2> QED BY <2>1, <2>2
<1> QED BY <1>1, <1>2 DEF IInv

LEMMA MergeStep ==
  ASSUME IInv, NEW B \in SUBSET Trackers, NEW first \in Trackers,
         NEW new \in Trackers, merge(B, first, new)
  PROVE  IInv'
<1>1. /\ B \subseteq inUse /\ first \in B /\ new \notin inUse
      /\ \A b \in B : entry[b] = entry[first]
      /\ inUse' = inUse \cup {new}
      /\ entry' = [entry EXCEPT ![new] = entry[first]]
      /\ earlier' = [earlier EXCEPT ![new] = earlier[first]]
      /\ paths' = [paths EXCEPT ![new] = UNION {paths[b] : b \in B}]
      /\ outcome' = "ok" /\ UNCHANGED plan
  BY DEF merge, Agree
<1>2. UNION {paths[b] : b \in B} \in SUBSET Histories
  BY DEF IInv, TrackerTypeOK
<1>3. TrackerTypeOK'
  BY <1>1, <1>2 DEF IInv, TrackerTypeOK
<1>4. StateHoldsOnEveryPath'
  <2> SUFFICES ASSUME NEW u \in inUse', NEW h \in paths'[u], NEW m \in Names
               PROVE  h[m] = Released(entry'[u][m])
    BY DEF StateHoldsOnEveryPath, Released, IsLive
  <2>1. CASE u = new
    <3>1. PICK b \in B : h \in paths[b]
      BY <1>1, <2>1 DEF IInv, TrackerTypeOK
    <3>2. h[m] = Released(entry[b][m])
      BY <1>1, <3>1 DEF IInv, StateHoldsOnEveryPath, Released
    <3> QED BY <1>1, <2>1, <3>1, <3>2 DEF IInv, TrackerTypeOK
  <2>2. CASE u # new
    BY <1>1, <2>2 DEF IInv, TrackerTypeOK, StateHoldsOnEveryPath, Released
  <2> QED BY <2>1, <2>2
<1> QED BY <1>3, <1>4 DEF IInv

LEMMA InitIInv == TrackerInit => IInv
BY DEF TrackerInit, IInv, TrackerTypeOK, StateHoldsOnEveryPath, Empty, Undeclared,
       Histories, IsLive

LEMMA NextIInv == IInv /\ [TrackerNext]_trackerVars => IInv'
<1> SUFFICES ASSUME IInv, [TrackerNext]_trackerVars PROVE IInv'
  OBVIOUS
<1>1. CASE UNCHANGED trackerVars
  BY <1>1 DEF trackerVars, IInv, TrackerTypeOK, StateHoldsOnEveryPath
<1>2. ASSUME NEW t \in Trackers, NEW n \in Names, NEW kind \in HandleStorageKind,
             declare_storage(t, n, kind)
      PROVE  IInv'
  <2>1. Storage(kind) \in Entries /\ Released(Storage(kind)) = 0
    BY EntryTypes DEF Released
  <2> QED BY <1>2, <2>1, DeclareStep DEF declare_storage
<1>3. ASSUME NEW t \in Trackers, NEW n \in Names, NEW kind \in HandleStorageKind,
             NEW o \in {"owned", "borrowed-argument", "immortal"},
             declare_value(t, n, kind, o)
      PROVE  IInv'
  BY <1>3, EntryTypes, DeclareStep DEF declare_value
<1>4. ASSUME NEW t \in Trackers, NEW n \in Names, NEW target \in {"closed", "moved"},
             _consume_owned(t, n, target), outcome' \in {"ok", "raised"}
      PROVE  IInv'
  <2>1. {n} \in SUBSET Names /\ {n} \subseteq live_owned_handles(t)
    BY <1>4 DEF _consume_owned, live_owned_handles
  <2> QED BY <1>4, <2>1, ConsumeStep DEF _consume_owned
<1>5. ASSUME NEW t \in Trackers, NEW preserve \in SUBSET Names, cleanup_plan(t, preserve)
      PROVE  IInv'
  <2>1. plan' \in Plans
    BY <1>5 DEF cleanup_plan, NamesToClose, Plans, live_owned_handles, values, IInv,
                TrackerTypeOK
  <2> QED BY <1>5, <2>1 DEF cleanup_plan, IInv, TrackerTypeOK, StateHoldsOnEveryPath
<1>6. ASSUME NEW t \in Trackers, apply_cleanup_plan(t) PROVE IInv'
  <2>1. plan \in Plans /\ t \in inUse
    BY <1>6 DEF apply_cleanup_plan, IInv, TrackerTypeOK
  <2>2. /\ ClosedBy(t, plan) \in SUBSET Names
        /\ ClosedBy(t, plan) \subseteq live_owned_handles(t)
    BY <2>1, ClosedAreLive DEF live_owned_handles
  <2> QED BY <1>6, <2>1, <2>2, ConsumeStep DEF apply_cleanup_plan
<1>7. ASSUME NEW t \in Trackers, NEW new \in Trackers, fork(t, new) PROVE IInv'
  BY <1>7, ForkStep
<1>8. ASSUME NEW t \in Trackers, NEW B \in SUBSET Trackers, NEW new \in Trackers,
             merge(B, t, new)
      PROVE  IInv'
  BY <1>8, MergeStep
<1>9. ASSUME NEW t \in Trackers, NEW n \in Names,
             \/ \E kind \in StorageKinds : declare_storage(t, n, kind)
             \/ close(t, n) \/ prepare_return(t, n)
             \/ \E m \in Names : duplicate(t, n, m) \/ load_storage(t, n, m)
             \/ \E S \in SUBSET Names : apply_borrowing_operation(t, S, n)
             \/ \E w \in BOOLEAN : apply_close_operation(t, n, w)
      PROVE  IInv'
  <2>1. "local" \in HandleStorageKind
    BY DEF HandleStorageKind
  <2>2. StorageKinds \subseteq HandleStorageKind
    BY TrackerAssumption
  <2> QED
    BY <1>2, <1>3, <1>4, <1>9, <2>1, <2>2
    DEF close, prepare_return, move, duplicate, load_storage,
        apply_borrowing_operation, apply_close_operation
<1> QED BY <1>1, <1>3, <1>5, <1>6, <1>7, <1>8, <1>9 DEF TrackerNext, Creatable

\* The tracker's tables are well typed in every reachable state.
THEOREM TypeCorrect == TrackerSpec => []TrackerTypeOK
<1>1. IInv => TrackerTypeOK
  BY DEF IInv
<1> QED BY <1>1, InitIInv, NextIInv, PTL DEF TrackerSpec

\* Forks, merges and partial failures never make the static ownership state of
\* a tracker wrong for an execution that reaches it (HandleStateTracker.merge).
THEOREM StateIsSound == TrackerSpec => []StateHoldsOnEveryPath
<1>1. IInv => StateHoldsOnEveryPath
  BY DEF IInv
<1> QED BY <1>1, InitIInv, NextIInv, PTL DEF TrackerSpec

-----------------------------------------------------------------------------
\* What a step may do to the entry of a name: a value stays one, and does not
\* become live and owned again.
Onward(e, f) == e.is = "value" => f.is = "value" /\ (IsLiveOwned(f) => IsLiveOwned(e))

Monotone == /\ inUse \subseteq inUse'
            /\ \A t \in inUse, n \in Names : Onward(entry[t][n], entry'[t][n])

LEMMA DeclareMonotone ==
  ASSUME IInv, NEW t \in Trackers, NEW n \in Names, NEW e, DeclareEntry(t, n, e)
  PROVE  Monotone /\ UNCHANGED plan
<1>1. entry \in [Trackers -> [Names -> Entries]] /\ inUse \subseteq Trackers
  BY DEF IInv, TrackerTypeOK, Entries
<1>2. \A u \in inUse, m \in Names :
        entry'[u][m] = entry[u][m] \/ entry[u][m] = Undeclared
  BY <1>1 DEF DeclareEntry, IsNew
<1> QED BY <1>2 DEF DeclareEntry, Monotone, Onward, Undeclared

LEMMA ConsumeMonotone ==
  ASSUME IInv, NEW t \in inUse, NEW S \in SUBSET Names,
         S \subseteq live_owned_handles(t), NEW target \in {"closed", "moved"},
         ConsumeAll(t, S, target), UNCHANGED inUse
  PROVE  Monotone
<1>1. entry \in [Trackers -> [Names -> Entries]] /\ inUse \subseteq Trackers
  BY DEF IInv, TrackerTypeOK, Entries
<1>2. ASSUME NEW u \in inUse, NEW m \in Names PROVE Onward(entry[u][m], entry'[u][m])
  <2>1. CASE u = t /\ m \in S
    <3>1. entry[t][m] \in ValueEntry
      BY <1>1, <2>1
      DEF live_owned_handles, IsLiveOwned, IsLive, Entries, StorageEntry, Undeclared
    <3>2. entry'[t][m] = [entry[t][m] EXCEPT !.state = target]
      BY <1>1, <2>1 DEF ConsumeAll
    <3>3. entry'[t][m] = [is |-> "value", ownership |-> entry[t][m].ownership,
                          state |-> target]
      BY <3>1, <3>2 DEF ValueEntry
    <3>4. entry'[t][m].is = "value" /\ entry'[t][m].state = target
      BY <3>3
    <3> QED BY <2>1, <3>4 DEF Onward, IsLiveOwned, IsLive
  <2>2. CASE ~(u = t /\ m \in S)
    <3>1. entry'[u][m] = entry[u][m]
      BY <1>1, <2>2 DEF ConsumeAll
    <3> QED BY <3>1 DEF Onward
  <2> QED BY <2>1, <2>2
<1> QED BY <1>2 DEF Monotone

LEMMA CreateMonotone ==
  ASSUME IInv, NEW new \in Trackers \ inUse, NEW e,
         inUse' = inUse \cup {new}, entry' = [entry EXCEPT ![new] = e]
  PROVE  Monotone
BY DEF IInv, TrackerTypeOK, Monotone, Onward

\* Every step but cleanup_plan leaves the plan and moves the entries onward.
LEMMA NextMonotone ==
  IInv /\ [TrackerNext]_trackerVars =>
    \/ Monotone /\ UNCHANGED plan
    \/ \E t \in Trackers, preserve \in SUBSET Names : cleanup_plan(t, preserve)
<1> SUFFICES ASSUME IInv, [TrackerNext]_trackerVars,
             ~ \E t \in Trackers, preserve \in SUBSET Names : cleanup_plan(t, preserve)
             PROVE  Monotone /\ UNCHANGED plan
  OBVIOUS
<1>1. CASE UNCHANGED trackerVars
  BY <1>1 DEF trackerVars, Monotone, Onward
<1>2. ASSUME NEW t \in Trackers, NEW n \in Names, NEW target \in {"closed", "moved"},
             _consume_owned(t, n, target)
      PROVE  Monotone /\ UNCHANGED plan
  <2>1. {n} \in SUBSET Names /\ {n} \subseteq live_owned_handles(t)
    BY <1>2 DEF _consume_owned, live_owned_handles
  <2> QED BY <1>2, <2>1, ConsumeMonotone DEF _consume_owned
<1>3. ASSUME NEW t \in Trackers, apply_cleanup_plan(t) PROVE Monotone /\ UNCHANGED plan
  <2>1. plan \in Plans /\ t \in inUse
    BY <1>3 DEF apply_cleanup_plan, IInv, TrackerTypeOK
  <2>2. /\ ClosedBy(t, plan) \in SUBSET Names
        /\ ClosedBy(t, plan) \subseteq live_owned_handles(t)
    BY <2>1, ClosedAreLive DEF live_owned_handles
  <2> QED BY <1>3, <2>1, <2>2, ConsumeMonotone DEF apply_cleanup_plan
<1>4. ASSUME NEW t \in Trackers, NEW new \in Trackers, fork(t, new)
      PROVE  Monotone /\ UNCHANGED plan
  BY <1>4, CreateMonotone DEF fork
<1>5. ASSUME NEW t \in Trackers, NEW B \in SUBSET Trackers, NEW new \in Trackers,
             merge(B, t, new)
      PROVE  Monotone /\ UNCHANGED plan
  BY <1>5, CreateMonotone DEF merge
<1>6. ASSUME NEW t \in Trackers, NEW n \in Names,
             \/ \E kind \in StorageKinds : declare_storage(t, n, kind)
             \/ \E kind \in HandleStorageKind,
                   o \in {"owned", "borrowed-argument", "immortal"} :
                  declare_value(t, n, kind, o)
             \/ \E m \in Names : duplicate(t, m, n) \/ load_storage(t, m, n)
             \/ \E S \in SUBSET Names : apply_borrowing_operation(t, S, n)
      PROVE  Monotone /\ UNCHANGED plan
  <2>1. PICK e : DeclareEntry(t, n, e)
    BY <1>6 DEF declare_storage, declare_value, duplicate, load_storage,
                apply_borrowing_operation
  <2> QED BY <2>1, DeclareMonotone
<1>7. ASSUME NEW t \in Trackers, NEW n \in Names,
             \/ close(t, n) \/ prepare_return(t, n)
             \/ \E w \in BOOLEAN : apply_close_operation(t, n, w)
      PROVE  Monotone /\ UNCHANGED plan
  BY <1>2, <1>7 DEF close, prepare_return, move, apply_close_operation
<1> QED BY <1>1, <1>3, <1>4, <1>5, <1>6, <1>7 DEF TrackerNext, Creatable

\* What a plan leaves open, of the values known to it, is what it preserves:
\* nothing it passed over has become live and owned since.
PlanCovers ==
  plan # NoPlan =>
    /\ plan.of \in inUse
    /\ \A n \in plan.known :
         /\ entry[plan.of][n].is = "value"
         /\ n \notin plan.close_names \cup plan.preserve
            => ~IsLiveOwned(entry[plan.of][n])

LEMMA PlanStep == IInv /\ PlanCovers /\ [TrackerNext]_trackerVars => PlanCovers'
<1> SUFFICES ASSUME IInv, PlanCovers, [TrackerNext]_trackerVars PROVE PlanCovers'
  OBVIOUS
<1>1. plan \in Plans \cup {NoPlan}
  BY DEF IInv, TrackerTypeOK
<1>2. CASE Monotone /\ UNCHANGED plan
  <2>1. plan # NoPlan => plan.known \subseteq Names
    BY <1>1 DEF Plans
  <2> QED BY <1>2, <2>1 DEF PlanCovers, Monotone, Onward
<1>3. ASSUME NEW t \in Trackers, NEW preserve \in SUBSET Names, cleanup_plan(t, preserve)
      PROVE  PlanCovers'
  <2>1. /\ plan'.of = t /\ plan'.known = values(t) /\ plan'.preserve = preserve
        /\ plan'.close_names = live_owned_handles(t) \ preserve
        /\ t \in inUse /\ inUse' = inUse /\ entry' = entry
    BY <1>3 DEF cleanup_plan, NamesToClose
  <2>2. \A n \in values(t) : n \in Names /\ entry[t][n].is = "value"
    BY DEF values
  <2>3. \A n \in Names \ live_owned_handles(t) : ~IsLiveOwned(entry[t][n])
    BY DEF live_owned_handles
  <2> QED BY <2>1, <2>2, <2>3 DEF PlanCovers
<1> QED BY <1>2, <1>3, NextMonotone

\* A cleanup plan applied without complaint to the tracker it was computed for
\* closes every owned handle but the preserved and the later ones, whatever
\* happened in between (HandleStateTracker.apply_cleanup_plan).
THEOREM PlansAreComplete == TrackerSpec => CleanupIsComplete
<1>1. TrackerInit => PlanCovers
  BY DEF TrackerInit, PlanCovers
<1>2. ASSUME IInv, PlanCovers, NEW t \in Trackers, apply_cleanup_plan(t),
             outcome' = "ok", t = plan.of
      PROVE  live_owned_handles(t)' \subseteq plan.preserve \cup (Names \ plan.known)
  <2>1. /\ plan \in Plans /\ t \in inUse
        /\ plan.close_names \subseteq live_owned_handles(t)
        /\ ConsumeAll(t, ClosedBy(t, plan), "closed") /\ inUse' = inUse
    BY <1>2 DEF apply_cleanup_plan, IInv, TrackerTypeOK
  <2>2. ClosedBy(t, plan) = plan.close_names
    BY <2>1 DEF ClosedBy, live_owned_handles
  <2>3. \A n \in Names : n \notin plan.close_names => entry'[t][n] = entry[t][n]
    BY <1>2, <2>1, <2>2 DEF ConsumeAll, IInv, TrackerTypeOK
  <2>4. \A n \in plan.close_names : n \in Names /\ ~IsLiveOwned(entry'[t][n])
    <3> SUFFICES ASSUME NEW n \in plan.close_names
                 PROVE  n \in Names /\ ~IsLiveOwned(entry'[t][n])
      OBVIOUS
    <3>1. n \in Names /\ IsLiveOwned(entry[t][n])
      BY <2>1 DEF live_owned_handles
    <3>2. entry[t][n] \in ValueEntry
      <4>1. entry \in [Trackers -> [Names -> Entries]]
        BY <1>2 DEF IInv, TrackerTypeOK, Entries
      <4> QED BY <2>1, <3>1, <4>1
              DEF IsLiveOwned, IsLive, Entries, StorageEntry, Undeclared
    <3>3. entry'[t][n] = [entry[t][n] EXCEPT !.state = "closed"]
      BY <1>2, <2>1, <2>2, <3>1 DEF ConsumeAll, IInv, TrackerTypeOK
    <3>4. entry'[t][n].state = "closed"
      BY <3>2, <3>3 DEF ValueEntry
    <3> QED BY <3>1, <3>4 DEF IsLiveOwned, IsLive
  <2>5. live_owned_handles(t)' = {n \in Names : IsLiveOwned(entry'[t][n])}
    BY DEF live_owned_handles, IsLiveOwned, IsLive
  <2>6. \A n \in plan.known \ (plan.close_names \cup plan.preserve) :
          ~IsLiveOwned(entry[t][n])
    BY <1>2, <2>1 DEF PlanCovers, apply_cleanup_plan
  <2> QED BY <2>3, <2>4, <2>5, <2>6
<1>3. IInv /\ PlanCovers /\ [TrackerNext]_trackerVars =>
        [\A t \in Trackers : apply_cleanup_plan(t) /\ outcome' = "ok" /\ t = plan.of
           => live_owned_handles(t)' \subseteq plan.preserve \cup (Names \ plan.known)]_trackerVars
  BY <1>2
<1> QED BY <1>1, <1>3, InitIInv, NextIInv, PlanStep, PTL DEF TrackerSpec, CleanupIsComplete
=============================================================================
