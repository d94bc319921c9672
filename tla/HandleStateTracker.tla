-------------------------- MODULE HandleStateTracker -------------------------
(***************************************************************************)
(* HandleStateTracker of HandleModel.py: the ownership state of every HPy  *)
(* value of a function along one control-flow state.  A tracker is forked  *)
(* where control splits, the branches evolve apart, and merge() accepts    *)
(* them only when they agree.                                              *)
(*                                                                         *)
(* paths[t] is a history variable: the executions a tracker stands for,    *)
(* each as the number of times it has released (closed or moved) every     *)
(* name.  fork() copies it, merge() takes the union, and every transition  *)
(* happens on all of them.                                                 *)
(*                                                                         *)
(* A call that raises before it changes anything is a step that does not   *)
(* happen.  The two operations that can raise after a change record it in  *)
(* outcome.                                                                *)
(***************************************************************************)
EXTENDS Naturals

CONSTANTS Names,         \* names of values and of indirect storage
          Trackers,      \* bound: trackers that exist in one run
          Root,          \* the tracker the function starts with
          StorageKinds,  \* kinds of indirect storage declared in the run
          Planners,      \* bound: the trackers of a run that computes cleanup plans
          NoPlan

VARIABLES inUse,    \* the trackers created so far
          entry,    \* _values and _storage: what each name is, by tracker
          earlier,  \* _values' insertion order: the values declared before a name
          plan,     \* the last cleanup plan computed
          outcome,  \* "ok", or "raised" after a partial effect
          paths     \* history: the executions a tracker stands for

trackerVars == <<inUse, entry, earlier, plan, outcome, paths>>

HandleStorageKind == {"local", "field", "global", "context-constant"}
HandleState       == {"live", "moved", "closed"}

Undeclared    == [is |-> "none"]
StorageEntry  == [is : {"storage"}, kind : HandleStorageKind]
ValueEntry    == [is : {"value"},
                  ownership : {"owned", "borrowed-argument", "immortal"},
                  state : HandleState]
Value(own)    == [is |-> "value", ownership |-> own, state |-> "live"]
Storage(kind) == [is |-> "storage", kind |-> kind]

IsLive(e)      == e.is = "value" /\ e.state = "live"
IsLiveOwned(e) == IsLive(e) /\ e.ownership = "owned"

values(t) == {n \in Names : entry[t][n].is = "value"}
live_owned_handles(t) == {n \in Names : IsLiveOwned(entry[t][n])}

Histories == [Names -> Nat]

\* A cleanup plan and, for the properties, where and when it was computed.
Plans == [close_names : SUBSET Names, earlier : [Names -> SUBSET Names],
          of : Trackers, preserve : SUBSET Names, known : SUBSET Names]

ASSUME TrackerAssumption == /\ Root \in Trackers
                            /\ StorageKinds \subseteq HandleStorageKind
                            /\ NoPlan \notin Plans

TrackerTypeOK ==
  /\ inUse \subseteq Trackers
  /\ entry \in [Trackers -> [Names -> {Undeclared} \cup StorageEntry \cup ValueEntry]]
  /\ earlier \in [Trackers -> [Names -> SUBSET Names]]
  /\ plan \in Plans \cup {NoPlan}
  /\ outcome \in {"ok", "raised"}
  /\ paths \in [Trackers -> SUBSET Histories]

Empty == [n \in Names |-> Undeclared]

TrackerInit ==
  /\ inUse = {Root}
  /\ entry = [t \in Trackers |-> Empty]
  /\ earlier = [t \in Trackers |-> [n \in Names |-> {}]]
  /\ plan = NoPlan
  /\ outcome = "ok"
  /\ paths = [t \in Trackers |-> {[n \in Names |-> 0]}]

-----------------------------------------------------------------------------
\* _require_new_name: one namespace for values and storage.
IsNew(t, n) == entry[t][n] = Undeclared

DeclareEntry(t, n, e) ==
  /\ t \in inUse /\ IsNew(t, n)
  /\ entry' = [entry EXCEPT ![t][n] = e]
  /\ earlier' = IF e.is = "value" THEN [earlier EXCEPT ![t][n] = values(t)]
                ELSE earlier
  /\ outcome' = "ok"
  /\ UNCHANGED <<inUse, plan, paths>>

declare_storage(t, n, kind) == DeclareEntry(t, n, Storage(kind))

\* Field and global storage cannot hold function-local values; immortal values
\* are exactly the context constants.
declare_value(t, n, kind, ownership) ==
  /\ kind \in {"local", "context-constant"}
  /\ kind = "context-constant" <=> ownership = "immortal"
  /\ DeclareEntry(t, n, Value(ownership))

\* Consume the live owned names of S, on every path the tracker stands for.
ConsumeAll(t, S, target) ==
  /\ entry' = [entry EXCEPT ![t] =
       [n \in Names |-> IF n \in S THEN [@[n] EXCEPT !.state = target] ELSE @[n]]]
  /\ paths' = [paths EXCEPT ![t] =
       {[n \in Names |-> IF n \in S THEN h[n] + 1 ELSE h[n]] : h \in @}]

_consume_owned(t, n, target) ==
  /\ t \in inUse /\ IsLiveOwned(entry[t][n])
  /\ ConsumeAll(t, {n}, target)
  /\ UNCHANGED <<inUse, earlier, plan>>

close(t, n) == _consume_owned(t, n, "closed") /\ outcome' = "ok"
move(t, n)  == _consume_owned(t, n, "moved") /\ outcome' = "ok"

duplicate(t, source, target) ==
  /\ IsLive(entry[t][source])
  /\ declare_value(t, target, "local", "owned")

\* An operation whose arguments are borrowed and which yields a new handle.
apply_borrowing_operation(t, arguments, result) ==
  /\ \A n \in arguments : IsLive(entry[t][n])
  /\ declare_value(t, result, "local", "owned")

\* CLOSE consumes its argument before the result name is looked at: asking it
\* for a result raises with the handle already closed.
apply_close_operation(t, n, withResult) ==
  /\ _consume_owned(t, n, "closed")
  /\ outcome' = IF withResult THEN "raised" ELSE "ok"

load_storage(t, storage, target) ==
  /\ entry[t][storage].is = "storage"
  /\ entry[t][storage].kind \in {"field", "global"}
  /\ declare_value(t, target, "local", "owned")

\* The returned value moves to the caller; a borrowed one is duplicated there.
prepare_return(t, n) == move(t, n)

\* Mutant: the walk back over the values stops at a name to preserve.
Mut_NamesToCloseUpTo(t, preserve) ==
  {n \in live_owned_handles(t) \ preserve : \A p \in preserve : n \notin earlier[t][p]}

NamesToClose(t, preserve) == live_owned_handles(t) \ preserve

cleanup_plan(t, preserve) ==
  /\ t \in inUse
  /\ \A n \in preserve : IsLive(entry[t][n])
  /\ plan' = [of |-> t,
              close_names |-> NamesToClose(t, preserve),
              earlier |-> earlier[t],
              preserve |-> preserve,
              known |-> values(t)]
  /\ outcome' = "ok"
  /\ UNCHANGED <<inUse, entry, earlier, paths>>

\* A plan closes the latest declared name first and stops, with an error, at
\* the first that is not live and owned any more.
ClosedBy(t, p) ==
  {n \in p.close_names : \A m \in p.close_names :
     m = n \/ n \in p.earlier[m] => IsLiveOwned(entry[t][m])}

apply_cleanup_plan(t) ==
  /\ t \in inUse /\ plan # NoPlan
  /\ ConsumeAll(t, ClosedBy(t, plan), "closed")
  /\ outcome' = IF plan.close_names \subseteq live_owned_handles(t)
                THEN "ok" ELSE "raised"
  /\ UNCHANGED <<inUse, earlier, plan>>

fork(t, new) ==
  /\ t \in inUse /\ new \notin inUse
  /\ inUse' = inUse \cup {new}
  /\ entry' = [entry EXCEPT ![new] = entry[t]]
  /\ earlier' = [earlier EXCEPT ![new] = earlier[t]]
  /\ paths' = [paths EXCEPT ![new] = paths[t]]
  /\ outcome' = "ok"
  /\ UNCHANGED plan

\* Mutant: the branches need only declare the same values.
Mut_AgreeOnNames(b, c) == values(b) = values(c)

Agree(b, c) == entry[b] = entry[c]

\* merge(first, ...): every name must have the same state on every branch.
merge(branches, first, new) ==
  /\ branches \subseteq inUse /\ first \in branches /\ new \notin inUse
  /\ \A b \in branches : Agree(b, first)
  /\ inUse' = inUse \cup {new}
  /\ entry' = [entry EXCEPT ![new] = entry[first]]
  /\ earlier' = [earlier EXCEPT ![new] = earlier[first]]
  /\ paths' = [paths EXCEPT ![new] = UNION {paths[b] : b \in branches}]
  /\ outcome' = "ok"
  /\ UNCHANGED plan

\* The bound that Planners sets: a run has cleanup plans or it has others than
\* the planners.
Creatable == {new \in Trackers : plan = NoPlan \/ new \in Planners}

TrackerNext ==
  \E t \in Trackers :
    \/ \E n \in Names, kind \in StorageKinds : declare_storage(t, n, kind)
    \/ \E n \in Names, kind \in HandleStorageKind,
          ownership \in {"owned", "borrowed-argument", "immortal"} :
         declare_value(t, n, kind, ownership)
    \/ \E n \in Names : close(t, n)
    \/ \E n \in Names : prepare_return(t, n)
    \/ \E n \in Names, m \in Names : duplicate(t, n, m)
    \/ \E n \in Names, m \in Names : load_storage(t, n, m)
    \/ \E S \in SUBSET Names, n \in Names : apply_borrowing_operation(t, S, n)
    \/ \E n \in Names, withResult \in BOOLEAN : apply_close_operation(t, n, withResult)
    \/ /\ inUse \subseteq Planners
       /\ \E preserve \in SUBSET Names : cleanup_plan(t, preserve)
    \/ apply_cleanup_plan(t)
    \/ \E new \in Creatable : fork(t, new)
    \/ \E branches \in SUBSET Trackers, new \in Creatable : merge(branches, t, new)

TrackerSpec == TrackerInit /\ [][TrackerNext]_trackerVars

-----------------------------------------------------------------------------
\* The one static state of a tracker is true of every execution that reaches
\* it, through whatever forks and merges: a live or borrowed name has been
\* released by none of them, a closed or moved one exactly once by each.
StateHoldsOnEveryPath ==
  \A t \in inUse : \A h \in paths[t] : \A n \in Names :
    h[n] = IF entry[t][n].is = "value" /\ ~IsLive(entry[t][n]) THEN 1 ELSE 0

\* A plan applied to the tracker it was computed for, with no complaint, leaves
\* no owned handle open but those it was told to keep and those declared since.
CleanupIsComplete ==
  [][\A t \in Trackers :
       apply_cleanup_plan(t) /\ outcome' = "ok" /\ t = plan.of
       => live_owned_handles(t)' \subseteq plan.preserve \cup (Names \ plan.known)]_trackerVars
=============================================================================
