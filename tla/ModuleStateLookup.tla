-------------------------- MODULE ModuleStateLookup -------------------------
(***************************************************************************)
(* The table of ModuleSetupCode.c from interpreter to module object, with  *)
(* the imports that fill it.  Readers take no lock: they count themselves  *)
(* in, make sure that the table is still the published one, and count      *)
(* themselves out.  A writer holds the lock, takes the table away, waits   *)
(* until nobody is counted, changes it, and publishes it again.            *)
(*                                                                         *)
(* The table is indexed by interpreter while all ids are small, and sorted *)
(* by id from the first large one on.  Operations on atomics are           *)
(* sequentially consistent here.                                           *)
(***************************************************************************)
EXTENDS Integers, FiniteSets

CONSTANTS Interpreters,  \* ids of the interpreters
          Threads,
          Home,          \* the interpreter of every thread
          SmallSize,     \* __PYX_MODULE_STATE_LOOKUP_SMALL_SIZE
          Addresses,     \* bound: where the allocator may put the table
          MaxModules,    \* bound: module objects an interpreter creates
          Lanes,         \* known faults to admit, see MayImport
          None, Unset

ASSUME HomeAssumption == Home \in [Threads -> Interpreters]

Modules == Interpreters \X (1 .. MaxModules)

ASSUME BoundsAssumption ==
  /\ IsFiniteSet(Threads)
  /\ Interpreters \subseteq Nat /\ MaxModules \in Nat
  /\ None \notin Addresses /\ None \notin Threads
  /\ None \notin Nat \cup Modules /\ Unset \notin Nat
ASSUME LanesAssumption == Lanes \subseteq {"tail"}

VARIABLES published,   \* __Pyx_ModuleStateLookup_data
          readers,     \* __Pyx_ModuleStateLookup_read_counter
          lock,        \* the holder of the mutex
          heap,        \* the tables, by address
          call,        \* what every thread is doing
          imports,     \* the module's life in every interpreter
          registered   \* history: the module every interpreter registered

vars == <<published, readers, lock, heap, call, imports, registered>>

Phases  == {"absent", "creating", "running", "ready", "failed", "clearing"}
Reading == {"reading", "located"}
Counted == Reading \cup {"counted", "undo"}
Writing == {"taken", "waiting", "changing", "publishing", "failing"}
Labels  == Counted \cup Writing \cup {"idle", "loaded", "blocked", "taking"}

Idle == [op |-> "none", at |-> "idle", data |-> None, found |-> None,
         fresh |-> FALSE]

Goto(t, label)  == call' = [call EXCEPT ![t].at = label]
Return(t)       == call' = [call EXCEPT ![t] = Idle]
At(t, label)    == call[t].at = label
Phase(t)        == imports[Home[t]].phase
SetPhase(t, p)  == imports' = [imports EXCEPT ![Home[t]].phase = p,
                                              ![Home[t]].by = None]

-----------------------------------------------------------------------------
(* The table.  Slots at count and beyond keep whatever was there.          *)

Blank(i) == [id |-> i, module |-> None]
Fresh    == [indexed |-> TRUE, count |-> 0, table |-> [k \in {0} |-> Blank(0)]]

allocated(b)  == Cardinality(DOMAIN b.table)
Entries(b)    == {k \in DOMAIN b.table : k < b.count}
Largest(a, b) == IF a > b THEN a ELSE b

\* The search of FindModuleStateLookupTableLowerBound, by its result.
LowerBound(b, i) ==
  IF b.table[0].id = i THEN 0
  ELSE Cardinality({k \in Entries(b) : b.table[k].id < i})

Position(b, i) ==
  IF ~b.indexed THEN LowerBound(b, i) ELSE IF i < b.count THEN i ELSE None

Garbage == [id |-> Unset, module |-> Unset]

\* What reading the slot gives.  The slots that realloc adds to a sorted table
\* are uninitialized, and a conversion whose realloc failed leaves no slot behind
\* the last entry: what is read there can be any id, also the one looked for.
Outcomes(b, k, i) ==
  LET slot == IF k \in DOMAIN b.table THEN b.table[k] ELSE Garbage
  IN  IF k = None THEN {None}
      ELSE CASE slot.id = Unset -> {None} \cup IF Lanes = {} THEN {} ELSE {Unset}
             [] slot.id = i     -> {slot.module}
             [] OTHER           -> {None}

Resized(b, n, added) ==
  [b EXCEPT !.table = [k \in 0 .. n - 1 |->
                         IF k \in DOMAIN b.table THEN b.table[k] ELSE added[k]]]

\* AddModuleInterpIdAsIndex: the size is doubled until the id fits.
Doubled(b, i) ==
  LET double[n \in Nat] == IF n > i THEN n ELSE double[2 * n]
  IN  Resized(b, double[allocated(b)], [k \in Nat |-> Blank(k)])

SetIndexed(b, i, m) ==
  [b EXCEPT !.table[i].module = m, !.count = Largest(@, i + 1)]

\* ConvertFromInterpIdAsIndex: the occupied slots move to the front.
Converted(b) ==
  LET occupied == {k \in Entries(b) : b.table[k].module # None}
      nth(k)   == CHOOSE j \in occupied :
                    Cardinality({l \in occupied : l < j}) = k
  IN  [indexed |-> FALSE,
       count   |-> Cardinality(occupied),
       table   |-> [k \in DOMAIN b.table |->
                      IF k < Cardinality(occupied) THEN b.table[nth(k)]
                      ELSE IF k < b.count THEN Blank(0) ELSE b.table[k]]]

\* The insertion shifts the entries behind the new one.
Roomy(b) ==
  IF b.count + 1 < allocated(b) THEN b
  ELSE Resized(b, 2 * (b.count + 1),
               [k \in Nat |-> Garbage])

\* Mutant: the last entry is not shifted.
Mut_Inserted(b, i, m) ==
  [b EXCEPT !.count = @ + 1,
            !.table[LowerBound(b, i)] = [id |-> i, module |-> m]]

Inserted(b, i, m) ==
  LET p == LowerBound(b, i)
  IN  [b EXCEPT !.count = @ + 1,
                !.table = [k \in DOMAIN @ |->
                             IF k < p \/ k > b.count THEN @[k]
                             ELSE IF k = p THEN [id |-> i, module |-> m]
                             ELSE @[k - 1]]]

\* Mutant: the count alone changes.
Mut_WithoutEntry(b, i) == [b EXCEPT !.count = @ - 1]

\* Removal shifts them back and leaves the last slot as it was.
WithoutEntry(b, i) ==
  [b EXCEPT !.count = @ - 1,
            !.table = [k \in DOMAIN @ |->
                         IF LowerBound(b, i) <= k /\ k < b.count - 1
                         THEN @[k + 1] ELSE @[k]]]

\* What AddModule makes of the table once it has converted it, if it must.
Prepared(b, i) == IF b.indexed /\ i >= SmallSize THEN Converted(b) ELSE b

Stored(b, i, m) ==
  LET known == {k \in Entries(b) : b.table[k].id = i}
  IN  IF b.indexed     THEN SetIndexed(Doubled(b, i), i, m)
      ELSE IF known = {} THEN Inserted(Roomy(b), i, m)
      ELSE [b EXCEPT !.table[LowerBound(b, i)].module = m]

\* RemoveModule on a table of either kind.
Removed(b, i) ==
  LET k == IF b.indexed THEN i ELSE LowerBound(b, i)
  IN  CASE b.indexed -> IF k < b.count THEN [b EXCEPT !.table[k].module = None] ELSE b
        [] OTHER     -> IF b.table[k].id = i THEN WithoutEntry(b, i) ELSE b

-----------------------------------------------------------------------------
(* FindModule.                                                             *)

StartLookup(t, op) ==
  call' = [call EXCEPT ![t].op = op, ![t].at = "loaded", ![t].data = published]

Count(t) ==
  /\ At(t, "loaded")
  /\ readers' = readers + 1
  /\ Goto(t, "counted")
  /\ UNCHANGED <<published, lock, heap, imports, registered>>

\* The pointer is still the one loaded before the thread was counted.
Confirm(t) ==
  /\ At(t, "counted")
  /\ call[t].data # None /\ published = call[t].data
  /\ Goto(t, "reading")
  /\ UNCHANGED <<published, readers, lock, heap, imports, registered>>

Miss(t) ==
  /\ At(t, "counted")
  /\ call[t].data = None \/ published # call[t].data
  /\ Goto(t, "undo")
  /\ UNCHANGED <<published, readers, lock, heap, imports, registered>>

\* Mutant: the slow path stays counted.
Mut_Uncount(t) ==
  /\ At(t, "undo")
  /\ Goto(t, "blocked")
  /\ UNCHANGED <<published, readers, lock, heap, imports, registered>>

Uncount(t) ==
  /\ At(t, "undo")
  /\ readers' = readers - 1
  /\ Goto(t, "blocked")
  /\ UNCHANGED <<published, lock, heap, imports, registered>>

\* Lock, count, load, unlock: nobody can publish in between.
CountLocked(t) ==
  /\ At(t, "blocked") /\ lock = None
  /\ readers' = readers + 1
  /\ call' = [call EXCEPT ![t].at = "reading", ![t].data = published]
  /\ UNCHANGED <<published, lock, heap, imports, registered>>

Locate(t) ==
  /\ At(t, "reading")
  /\ call' = [call EXCEPT ![t].at = "located",
                          ![t].found = IF call[t].data = None THEN None
                                       ELSE Position(heap[call[t].data], Home[t])]
  /\ UNCHANGED <<published, readers, lock, heap, imports, registered>>

Results(t) ==
  IF call[t].data = None THEN {None}
  ELSE Outcomes(heap[call[t].data], call[t].found, Home[t])

FinishUse(t) ==
  /\ At(t, "located") /\ call[t].op = "use"
  /\ readers' = readers - 1
  /\ Return(t)
  /\ UNCHANGED <<published, lock, heap, imports, registered>>

\* The slots beyond count hold entries that were removed.  Without the lane an
\* interpreter whose own entry is among them does not import the module again.
MayImport(i) ==
  \/ Lanes # {}
  \/ \A a \in DOMAIN heap :
       \A k \in DOMAIN heap[a].table \ Entries(heap[a]) :
         heap[a].table[k].id = i => heap[a].table[k].module = None

-----------------------------------------------------------------------------
(* The import: mod_create looks the module up and hands it out if it is    *)
(* there, else makes one, for which mod_exec calls AddModule.  The import  *)
(* lock and the GIL admit one import or removal per interpreter at a time. *)

BeginUse(t) ==
  /\ At(t, "idle") /\ Phase(t) \in {"running", "ready", "failed"}
  /\ StartLookup(t, "use")
  /\ UNCHANGED <<published, readers, lock, heap, imports, registered>>

BeginImport(t) ==
  /\ At(t, "idle") /\ Phase(t) \in {"absent", "ready", "failed"}
  /\ imports[Home[t]].by = None
  /\ Phase(t) = "absent" => imports[Home[t]].made < MaxModules
  /\ MayImport(Home[t])
  /\ imports' = [imports EXCEPT ![Home[t]].by = t]
  /\ StartLookup(t, "import")
  /\ UNCHANGED <<published, readers, lock, heap, registered>>

ImportExisting(t) ==
  /\ At(t, "located") /\ call[t].op = "import"
  /\ Results(t) # {None}
  /\ readers' = readers - 1
  /\ SetPhase(t, Phase(t))
  /\ Return(t)
  /\ UNCHANGED <<published, lock, heap, registered>>

CreateModule(t) ==
  /\ At(t, "located") /\ call[t].op = "import"
  /\ None \in Results(t)
  /\ readers' = readers - 1
  /\ imports' = [imports EXCEPT ![Home[t]].phase = "creating",
                                ![Home[t]].made = @ + 1]
  /\ Goto(t, "taking")
  /\ UNCHANGED <<published, lock, heap, registered>>

\* The body of the module runs after AddModule.  When it raises, the error path
\* of mod_exec calls PyState_RemoveModule, which knows nothing of this table.
Finish(t, p) ==
  /\ At(t, "idle") /\ Phase(t) = "running" /\ imports[Home[t]].by = t
  /\ SetPhase(t, p)
  /\ UNCHANGED <<published, readers, lock, heap, call, registered>>

Succeed(t) == Finish(t, "ready")
Fail(t)    == Finish(t, "failed")

\* A failed module is garbage once nobody runs its functions.  If it is in a
\* reference cycle, the collector calls m_clear, else it is just deallocated.
IsGarbage(i) ==
  /\ imports[i].phase = "failed" /\ imports[i].by = None
  /\ \A t \in Threads : Home[t] = i => At(t, "idle")

BeginClear(t) ==
  /\ IsGarbage(Home[t])
  /\ imports' = [imports EXCEPT ![Home[t]] = [@ EXCEPT !.phase = "clearing",
                                                       !.by = t]]
  /\ call' = [call EXCEPT ![t].op = "remove", ![t].at = "taking"]
  /\ UNCHANGED <<published, readers, lock, heap, registered>>

Deallocate(i) ==
  /\ IsGarbage(i)
  /\ imports' = [imports EXCEPT ![i].phase = "absent"]
  /\ UNCHANGED <<published, readers, lock, heap, call, registered>>

-----------------------------------------------------------------------------
(* AddModule and RemoveModule.                                             *)

\* Mutant: RemoveModule never waits.
Mut_Waits(t, a) == call[t].op = "import"

\* RemoveModule does not wait for the readers of an indexed table: it only
\* clears a slot of its own interpreter.
Waits(t, a) == call[t].op = "import" \/ ~heap[a].indexed

Take(t) ==
  /\ At(t, "taking") /\ lock = None
  /\ lock' = t
  /\ published' = None
  /\ call' = [call EXCEPT ![t].data = published,
                          ![t].at = IF published = None THEN "taken"
                                    ELSE IF Waits(t, published) THEN "waiting"
                                    ELSE "changing"]
  /\ UNCHANGED <<readers, heap, imports, registered>>

\* The table at a is now b, at address c; the table at a is gone.
Moved(a, c, b) ==
  [x \in (DOMAIN heap \ {a}) \cup {c} |-> IF x = c THEN b ELSE heap[x]]
Without(a) == [x \in DOMAIN heap \ {a} |-> heap[x]]

Allocate(t) ==
  /\ At(t, "taken") /\ call[t].op = "import"
  /\ \E a \in Addresses :
       /\ a \notin DOMAIN heap
       /\ heap' = Moved(a, a, Fresh)
       /\ call' = [call EXCEPT ![t].data = a, ![t].at = "waiting",
                               ![t].fresh = TRUE]
  /\ UNCHANGED <<published, readers, lock, imports, registered>>

AllocateFails(t) ==
  /\ At(t, "taken") /\ call[t].op = "import"
  /\ Goto(t, "failing")
  /\ UNCHANGED <<published, readers, lock, heap, imports, registered>>

NoReaders(t) ==
  /\ At(t, "waiting") /\ readers = 0
  /\ Goto(t, "changing")
  /\ UNCHANGED <<published, readers, lock, heap, imports, registered>>

Before(t)    == Prepared(heap[call[t].data], Home[t])
NewModule(t) == <<Home[t], imports[Home[t]].made>>
After(t)     == Stored(Before(t), Home[t], NewModule(t))
Grows(t)     == allocated(After(t)) # allocated(Before(t))

\* The table stays where it is, or realloc puts it at b.
AddModule(t) ==
  /\ At(t, "changing") /\ call[t].op = "import"
  /\ \E b \in Addresses :
       /\ b = call[t].data \/ (Grows(t) /\ b \notin DOMAIN heap)
       /\ heap' = Moved(call[t].data, b, After(t))
       /\ call' = [call EXCEPT ![t].data = b, ![t].at = "publishing"]
  /\ registered' = [registered EXCEPT ![Home[t]] = NewModule(t)]
  /\ UNCHANGED <<published, readers, lock, imports>>

\* Mutant: NULL is published whenever realloc fails.
Mut_AddFails(t) ==
  /\ At(t, "changing") /\ call[t].op = "import"
  /\ Grows(t)
  /\ heap' = Without(call[t].data)
  /\ call' = [call EXCEPT ![t].data = None, ![t].at = "failing"]
  /\ UNCHANGED <<published, readers, lock, imports, registered>>

\* realloc fails.  A converted table made by this call is leaked, and NULL is
\* published again; here its address becomes free.
AddFails(t) ==
  /\ At(t, "changing") /\ call[t].op = "import"
  /\ Grows(t)
  /\ IF call[t].fresh /\ ~Before(t).indexed
     THEN /\ heap' = Without(call[t].data)
          /\ call' = [call EXCEPT ![t].data = None, ![t].at = "failing"]
     ELSE /\ heap' = [heap EXCEPT ![call[t].data] = Before(t)]
          /\ Goto(t, "failing")
  /\ UNCHANGED <<published, readers, lock, imports, registered>>

RemoveModule(t) ==
  /\ At(t, "changing") /\ call[t].op = "remove"
  /\ LET b == Removed(heap[call[t].data], Home[t])
     IN  IF ~b.indexed /\ b.count = 0
         THEN /\ heap' = Without(call[t].data)
              /\ call' = [call EXCEPT ![t].data = None, ![t].at = "publishing"]
         ELSE /\ heap' = [heap EXCEPT ![call[t].data] = b]
              /\ Goto(t, "publishing")
  /\ registered' = [registered EXCEPT ![Home[t]] = None]
  /\ UNCHANGED <<published, readers, lock, imports>>

Publish(t, label, p) ==
  /\ At(t, label)
  /\ published' = call[t].data
  /\ lock' = None
  /\ imports' = [imports EXCEPT ![Home[t]].phase = p,
                                ![Home[t]].by = IF p = "running" THEN t ELSE None]
  /\ Return(t)
  /\ UNCHANGED <<readers, heap, registered>>

PublishAdded(t)   == call[t].op = "import" /\ Publish(t, "publishing", "running")
PublishRemoved(t) == call[t].op = "remove" /\ Publish(t, "publishing", "absent")
PublishFailed(t)  == Publish(t, "failing", "absent")

-----------------------------------------------------------------------------
Init ==
  /\ published = None /\ readers = 0 /\ lock = None
  /\ heap = [a \in {} |-> Fresh]
  /\ call = [t \in Threads |-> Idle]
  /\ imports = [i \in Interpreters |-> [phase |-> "absent", by |-> None, made |-> 0]]
  /\ registered = [i \in Interpreters |-> None]

Lookup(t) ==
  \/ Count(t) \/ Confirm(t) \/ Miss(t) \/ Uncount(t) \/ CountLocked(t)
  \/ Locate(t) \/ FinishUse(t) \/ ImportExisting(t) \/ CreateModule(t)

Update(t) ==
  \/ Take(t) \/ Allocate(t) \/ AllocateFails(t) \/ NoReaders(t)
  \/ AddModule(t) \/ AddFails(t) \/ RemoveModule(t)
  \/ PublishAdded(t) \/ PublishRemoved(t) \/ PublishFailed(t)

Program(t) ==
  \/ BeginUse(t) \/ BeginImport(t) \/ BeginClear(t) \/ Succeed(t) \/ Fail(t)

Next ==
  \/ \E t \in Threads : Lookup(t) \/ Update(t) \/ Program(t)
  \/ \E i \in Interpreters : Deallocate(i)

\* A started call runs on; a thread that waits for the mutex gets it if it is
\* free again and again.  Nobody has to start a call.
Fairness == \A t \in Threads : /\ WF_vars(Lookup(t) \/ Update(t))
                               /\ SF_vars(CountLocked(t))
                               /\ SF_vars(Take(t))

Spec == Init /\ [][Next]_vars /\ Fairness

-----------------------------------------------------------------------------
Blocks == {heap[a] : a \in DOMAIN heap}

TypeOK ==
  /\ published \in Addresses \cup {None}
  /\ readers \in 0 .. Cardinality(Threads)
  /\ lock \in Threads \cup {None}
  /\ DOMAIN heap \subseteq Addresses
  /\ \A b \in Blocks : /\ b.indexed \in BOOLEAN
                       /\ DOMAIN b.table = 0 .. allocated(b) - 1
                       /\ b.count \in 0 .. allocated(b)
  /\ call \in [Threads -> [op : {"none", "use", "import", "remove"}, at : Labels,
                           data : Addresses \cup {None},
                           found : Nat \cup {None}, fresh : BOOLEAN]]
  /\ imports \in [Interpreters -> [phase : Phases, by : Threads \cup {None},
                                   made : 0 .. MaxModules]]
  /\ registered \in [Interpreters -> Modules \cup {None}]

\* A thread that reads a table reads one that is allocated, and that is either
\* published or in the hands of a writer that has not begun to change it, the
\* one exception being the slot that RemoveModule clears without waiting.  This
\* is what the counter and the second load of the pointer are for.
ReadersAreSafe ==
  \A t \in Threads :
    call[t].at \in Reading =>
      LET a == call[t].data
      IN  a # None =>
            /\ a \in DOMAIN heap
            /\ IF lock = None THEN published = a
               ELSE /\ call[lock].data = a
                    /\ \/ At(lock, "waiting")
                       \/ call[lock].op = "remove" /\ heap[a].indexed

\* A lookup that found its slot returns what its interpreter has registered at
\* that moment, however many others are importing: FindModule finds "the correct
\* module state for the current interpreter".
LookupIsCurrent ==
  \A t \in Threads : At(t, "located") => Results(t) = {registered[Home[t]]}

\* Whenever no writer is at work the published table is the registry: indexed by
\* interpreter, or sorted without gaps, through every growth and conversion.
TableMatches ==
  lock = None =>
    LET known == {i \in Interpreters : registered[i] # None}
    IN  IF published = None THEN known = {}
        ELSE LET b == heap[published]
             IN  IF b.indexed
                 THEN \A i \in Interpreters :
                        registered[i] = IF i < b.count THEN b.table[i].module
                                                       ELSE None
                 ELSE /\ {b.table[k] : k \in Entries(b)} =
                           {[id |-> i, module |-> registered[i]] : i \in known}
                      /\ \A j, k \in Entries(b) :
                           j < k => b.table[j].id < b.table[k].id

\* RemoveModule dereferences the pointer that it takes without a test: there is
\* a table whenever a module is left to be removed, whatever imports of other
\* interpreters have failed and removals have freed.
RemovalsHaveATable ==
  \A t \in Threads : At(t, "taken") => call[t].op = "import"

\* Every lookup and every update returns: readers do not keep a spinning writer
\* busy for ever, since those that come late queue up behind its lock.
CallsReturn == \A t \in Threads : ~At(t, "idle") ~> At(t, "idle")

\* A lookup never finds a module that was removed: the table maps interpreters
\* to the modules "they imported" (ModuleSetupCode.c:2739).
RemovedIsNotFound ==
  \A t \in Threads :
    At(t, "located") /\ registered[Home[t]] = None =>
      Results(t) \intersect Modules = {}

\* An import hands out a module from the table only if its body has completed:
\* mod_exec is to "remove the failed module from the module state lookup"
\* (ModuleNode.py:4755).
ImportsAreComplete ==
  \A t \in Threads :
    At(t, "located") /\ call[t].op = "import" /\ Results(t) # {None} =>
      Phase(t) = "ready"
=============================================================================
