---------------------- MODULE ModuleStateLookup_proofs ----------------------
(***************************************************************************)
(* Proofs about ModuleStateLookup, for any number of threads, interpreters *)
(* and addresses.  First that readers are safe, from the counter, the lock *)
(* and the pointer; then what every operation makes of a table; then that  *)
(* the table is the registry, and with it that lookups are right.          *)
(***************************************************************************)
EXTENDS ModuleStateLookup, FiniteSetTheorems, WellFoundedInduction, TLAPS

USE BoundsAssumption

Readers == {t \in Threads : call[t].at \in Counted}

Shape ==
  /\ DOMAIN call = Threads
  /\ \A t \in Threads : DOMAIN call[t] = DOMAIN Idle
  /\ DOMAIN heap \subseteq Addresses
  /\ \A a \in DOMAIN heap : "indexed" \in DOMAIN heap[a]

\* The counter counts.
Counting == readers = Cardinality(Readers)

\* The lock is held by the one thread that changes the table.
Exclusion ==
  /\ lock \in Threads \cup {None}
  /\ \A t \in Threads : call[t].at \in Writing <=> lock = t

\* While it does so nothing is published, else there is a table behind the pointer.
Pointer ==
  /\ lock # None => published = None
  /\ published # None => published \in DOMAIN heap

\* What the writer has in its hands.
Hands ==
  \A t \in Threads :
    /\ call[t].at \in Writing \cup {"taking"} => call[t].op \in {"import", "remove"}
    /\ call[t].at \in Writing => call[t].data \in DOMAIN heap \cup {None}
    /\ call[t].at = "taken" => call[t].data = None
    /\ call[t].at \in {"waiting", "changing"} => call[t].data # None

IInv == Shape /\ Counting /\ Exclusion /\ Pointer /\ Hands /\ ReadersAreSafe

-----------------------------------------------------------------------------
\* What AddModule and RemoveModule make of a table is a table, and removal does
\* not change its kind.
LEMMA StoredIsTable ==
  ASSUME NEW b, NEW i, NEW m, "indexed" \in DOMAIN b
  PROVE  /\ "indexed" \in DOMAIN Prepared(b, i)
         /\ "indexed" \in DOMAIN Stored(Prepared(b, i), i, m)
<1>1. ASSUME NEW c, "indexed" \in DOMAIN c
      PROVE  "indexed" \in DOMAIN Stored(c, i, m)
  <2>1. \A n, f : "indexed" \in DOMAIN Resized(c, n, f)
    BY <1>1 DEF Resized
  <2>2. "indexed" \in DOMAIN Doubled(c, i)
    BY <2>1 DEF Doubled
  <2>3. "indexed" \in DOMAIN SetIndexed(Doubled(c, i), i, m)
    BY <2>2 DEF SetIndexed
  <2>4. "indexed" \in DOMAIN Roomy(c)
    BY <2>1, <1>1 DEF Roomy
  <2>5. "indexed" \in DOMAIN Inserted(Roomy(c), i, m)
    BY <2>4 DEF Inserted
  <2> QED BY <1>1, <2>3, <2>5 DEF Stored
<1>2. "indexed" \in DOMAIN Converted(b)
  BY DEF Converted
<1>3. "indexed" \in DOMAIN Prepared(b, i)
  BY <1>2 DEF Prepared
<1> QED BY <1>1, <1>3

LEMMA RemovedIsTable ==
  ASSUME NEW b, NEW i, "indexed" \in DOMAIN b
  PROVE  /\ "indexed" \in DOMAIN Removed(b, i)
         /\ Removed(b, i).indexed = b.indexed
BY DEF Removed, WithoutEntry

\* One thread moves from one label to another and the counter follows.
LEMMA CountingStep ==
  ASSUME Counting, NEW t \in Threads,
         \A u \in Threads \ {t} : call'[u] = call[u],
         readers' = readers + (IF call'[t].at \in Counted THEN 1 ELSE 0)
                            - (IF call[t].at \in Counted THEN 1 ELSE 0)
  PROVE  Counting'
<1>1. IsFiniteSet(Readers)
  BY FS_Subset DEF Readers, BoundsAssumption
<1>2. Cardinality(Readers) \in Nat
  BY <1>1, FS_CardinalityType
<1>3. CASE call[t].at \in Counted /\ call'[t].at \notin Counted
  <2>1. t \in Readers /\ Readers' = Readers \ {t}
    BY <1>3 DEF Readers
  <2>2. Cardinality(Readers \ {t}) = Cardinality(Readers) - 1
    BY <2>1, <1>1, FS_RemoveElement
  <2> QED BY <1>2, <1>3, <2>1, <2>2 DEF Counting
<1>4. CASE call[t].at \notin Counted /\ call'[t].at \in Counted
  <2>1. t \notin Readers /\ Readers' = Readers \cup {t}
    BY <1>4 DEF Readers
  <2>2. Cardinality(Readers \cup {t}) = Cardinality(Readers) + 1
    BY <2>1, <1>1, FS_AddElement
  <2> QED BY <1>2, <1>4, <2>1, <2>2 DEF Counting
<1>5. CASE call[t].at \in Counted <=> call'[t].at \in Counted
  <2>1. Readers' = Readers
    BY <1>5 DEF Readers
  <2> QED BY <1>2, <1>5, <2>1 DEF Counting
<1> QED BY <1>3, <1>4, <1>5

\* A writer that sees the counter at zero has no readers.
LEMMA ZeroMeansNone ==
  ASSUME Counting, readers = 0
  PROVE  \A t \in Threads : call[t].at \notin Counted
<1>1. IsFiniteSet(Readers)
  BY FS_Subset DEF Readers, BoundsAssumption
<1>2. Readers = {}
  BY <1>1, FS_EmptySet DEF Counting
<1> QED BY <1>2 DEF Readers

\* A step of a thread that does not hold the lock.  If it becomes a reader, of
\* a table, then of the one that is published.
LEMMA QuietStep ==
  ASSUME IInv, NEW t \in Threads,
         UNCHANGED <<published, lock, heap>>,
         DOMAIN call' = Threads, DOMAIN call'[t] = DOMAIN Idle,
         \A u \in Threads \ {t} : call'[u] = call[u],
         call[t].at \notin Writing, call'[t].at \notin Writing,
         call'[t].at = "taking" => call'[t].op \in {"import", "remove"},
         call'[t].at \in Reading =>
           \/ call[t].at \in Reading /\ call'[t].data = call[t].data
           \/ call'[t].data = published,
         Counting'
  PROVE  IInv'
<1>1. Shape'
  BY DEF IInv, Shape
<1>2. Exclusion'
  BY DEF IInv, Exclusion
<1>3. Pointer'
  BY DEF IInv, Pointer
<1>4. Hands'
  <2> SUFFICES ASSUME NEW u \in Threads
               PROVE  /\ call'[u].at \in Writing \cup {"taking"} => call'[u].op \in {"import", "remove"}
                      /\ call'[u].at \in Writing => call'[u].data \in DOMAIN heap \cup {None}
                      /\ call'[u].at = "taken" => call'[u].data = None
                      /\ call'[u].at \in {"waiting", "changing"} => call'[u].data # None
    BY DEF Hands
  <2>1. CASE u = t
    BY <2>1 DEF Writing
  <2>2. CASE u # t
    BY <2>2 DEF IInv, Hands
  <2> QED BY <2>1, <2>2
<1>5. ReadersAreSafe'
  <2> SUFFICES ASSUME NEW u \in Threads, call'[u].at \in Reading,
                      NEW a, a = call'[u].data, a # None
               PROVE  /\ a \in DOMAIN heap
                      /\ IF lock = None THEN published = a
                         ELSE /\ call'[lock].data = a
                              /\ \/ call'[lock].at = "waiting"
                                 \/ call'[lock].op = "remove" /\ heap[a].indexed
    BY DEF ReadersAreSafe, At
  <2>1. lock # None => lock \in Threads /\ call'[lock] = call[lock]
    BY DEF IInv, Exclusion
  <2>2. CASE u # t \/ (call[t].at \in Reading /\ call'[t].data = call[t].data)
    <3>1. call[u].at \in Reading /\ call[u].data = a
      BY <2>2
    <3> QED BY <3>1, <2>1 DEF IInv, ReadersAreSafe, At
  <2>3. CASE u = t /\ call'[t].data = published
    BY <2>3 DEF IInv, Pointer
  <2> QED BY <2>2, <2>3
<1> QED BY <1>1, <1>2, <1>3, <1>4, <1>5 DEF IInv

-----------------------------------------------------------------------------
LEMMA InitIsSafe == Init => IInv
<1> SUFFICES ASSUME Init PROVE IInv
  OBVIOUS
<1>1. \A t \in Threads : call[t] = Idle
  BY DEF Init
<1>2. Readers = {}
  BY <1>1 DEF Readers, Counted, Reading, Idle
<1>3. Counting
  BY <1>2, FS_EmptySet DEF Counting, Init
<1>4. Shape /\ Exclusion /\ Pointer /\ Hands /\ ReadersAreSafe
  BY <1>1 DEF Init, Shape, Exclusion, Pointer, Hands, ReadersAreSafe, Idle,
              Writing, Reading
<1> QED BY <1>3, <1>4 DEF IInv

\* The steps of FindModule and of the imports, none of which touches the table.
LEMMA LookupStep ==
  ASSUME IInv, NEW t \in Threads, Lookup(t)
  PROVE  IInv'
<1> USE DEF Counted, Reading, Writing
<1>0. DOMAIN call = Threads /\ DOMAIN call[t] = DOMAIN Idle /\ Counting
  BY DEF IInv, Shape
<1>1. readers \in Nat
  <2>1. IsFiniteSet(Readers)
    BY FS_Subset DEF Readers, BoundsAssumption
  <2> QED BY <1>0, <2>1, FS_CardinalityType DEF Counting
<1>2. CASE Count(t)
  <2>1. UNCHANGED <<published, lock, heap>> /\ readers' = readers + 1
        /\ call[t].at = "loaded" /\ call' = [call EXCEPT ![t].at = "counted"]
    BY <1>2 DEF Count, At, Goto
  <2>2. DOMAIN call' = Threads /\ DOMAIN call'[t] = DOMAIN Idle
        /\ call'[t].at = "counted" /\ \A u \in Threads \ {t} : call'[u] = call[u]
    BY <2>1, <1>0 DEF Idle
  <2>3. Counting'
    BY <2>1, <2>2, <1>0, <1>1, CountingStep
  <2> QED BY <2>1, <2>2, <2>3, QuietStep
<1>3. CASE Confirm(t)
  <2>1. UNCHANGED <<published, readers, lock, heap>>
        /\ call[t].at = "counted" /\ call[t].data = published
        /\ call' = [call EXCEPT ![t].at = "reading"]
    BY <1>3 DEF Confirm, At, Goto
  <2>2. DOMAIN call' = Threads /\ DOMAIN call'[t] = DOMAIN Idle
        /\ call'[t].at = "reading" /\ call'[t].data = published
        /\ \A u \in Threads \ {t} : call'[u] = call[u]
    BY <2>1, <1>0 DEF Idle
  <2>3. Counting'
    BY <2>1, <2>2, <1>0, <1>1, CountingStep
  <2> QED BY <2>1, <2>2, <2>3, QuietStep
<1>4. CASE Miss(t)
  <2>1. UNCHANGED <<published, readers, lock, heap>>
        /\ call[t].at = "counted" /\ call' = [call EXCEPT ![t].at = "undo"]
    BY <1>4 DEF Miss, At, Goto
  <2>2. DOMAIN call' = Threads /\ DOMAIN call'[t] = DOMAIN Idle
        /\ call'[t].at = "undo" /\ \A u \in Threads \ {t} : call'[u] = call[u]
    BY <2>1, <1>0 DEF Idle
  <2>3. Counting'
    BY <2>1, <2>2, <1>0, <1>1, CountingStep
  <2> QED BY <2>1, <2>2, <2>3, QuietStep
<1>5. CASE Uncount(t)
  <2>1. UNCHANGED <<published, lock, heap>> /\ readers' = readers - 1
        /\ call[t].at = "undo" /\ call' = [call EXCEPT ![t].at = "blocked"]
    BY <1>5 DEF Uncount, At, Goto
  <2>2. DOMAIN call' = Threads /\ DOMAIN call'[t] = DOMAIN Idle
        /\ call'[t].at = "blocked" /\ \A u \in Threads \ {t} : call'[u] = call[u]
    BY <2>1, <1>0 DEF Idle
  <2>3. Counting'
    BY <2>1, <2>2, <1>0, <1>1, CountingStep
  <2> QED BY <2>1, <2>2, <2>3, QuietStep
<1>6. CASE CountLocked(t)
  <2>1. UNCHANGED <<published, lock, heap>> /\ readers' = readers + 1
        /\ call[t].at = "blocked"
        /\ call' = [call EXCEPT ![t].at = "reading", ![t].data = published]
    BY <1>6 DEF CountLocked, At
  <2>2. DOMAIN call' = Threads /\ DOMAIN call'[t] = DOMAIN Idle
        /\ call'[t].at = "reading" /\ call'[t].data = published
        /\ \A u \in Threads \ {t} : call'[u] = call[u]
    BY <2>1, <1>0 DEF Idle
  <2>3. Counting'
    BY <2>1, <2>2, <1>0, <1>1, CountingStep
  <2> QED BY <2>1, <2>2, <2>3, QuietStep
<1>7. CASE Locate(t)
  <2>1. PICK f : /\ UNCHANGED <<published, readers, lock, heap>>
                 /\ call[t].at = "reading"
                 /\ call' = [call EXCEPT ![t].at = "located", ![t].found = f]
    BY <1>7 DEF Locate, At
  <2>2. DOMAIN call' = Threads /\ DOMAIN call'[t] = DOMAIN Idle
        /\ call'[t].at = "located" /\ call'[t].data = call[t].data
        /\ \A u \in Threads \ {t} : call'[u] = call[u]
    BY <2>1, <1>0 DEF Idle
  <2>3. Counting'
    BY <2>1, <2>2, <1>0, <1>1, CountingStep
  <2> QED BY <2>1, <2>2, <2>3, QuietStep
<1>8. CASE FinishUse(t) \/ ImportExisting(t)
  <2>1. UNCHANGED <<published, lock, heap>> /\ readers' = readers - 1
        /\ call[t].at = "located" /\ call' = [call EXCEPT ![t] = Idle]
    BY <1>8 DEF FinishUse, ImportExisting, At, Return
  <2>2. DOMAIN call' = Threads /\ DOMAIN call'[t] = DOMAIN Idle
        /\ call'[t].at = "idle" /\ \A u \in Threads \ {t} : call'[u] = call[u]
    BY <2>1, <1>0 DEF Idle
  <2>3. Counting'
    BY <2>1, <2>2, <1>0, <1>1, CountingStep
  <2> QED BY <2>1, <2>2, <2>3, QuietStep
<1>9. CASE CreateModule(t)
  <2>1. UNCHANGED <<published, lock, heap>> /\ readers' = readers - 1
        /\ call[t].at = "located" /\ call[t].op = "import"
        /\ call' = [call EXCEPT ![t].at = "taking"]
    BY <1>9 DEF CreateModule, At, Goto
  <2>2. DOMAIN call' = Threads /\ DOMAIN call'[t] = DOMAIN Idle
        /\ call'[t].at = "taking" /\ call'[t].op = "import"
        /\ \A u \in Threads \ {t} : call'[u] = call[u]
    BY <2>1, <1>0 DEF Idle
  <2>3. Counting'
    BY <2>1, <2>2, <1>0, <1>1, CountingStep
  <2> QED BY <2>1, <2>2, <2>3, QuietStep
<1> QED BY <1>2, <1>3, <1>4, <1>5, <1>6, <1>7, <1>8, <1>9 DEF Lookup

\* A thread that is idle begins a call, or the import it was in ends.
LEMMA ProgramStep ==
  ASSUME IInv, NEW t \in Threads, Program(t)
  PROVE  IInv'
<1> USE DEF Counted, Reading, Writing
<1>0. DOMAIN call = Threads /\ DOMAIN call[t] = DOMAIN Idle /\ Counting
  BY DEF IInv, Shape
<1>1. readers \in Nat
  <2>1. IsFiniteSet(Readers)
    BY FS_Subset DEF Readers, BoundsAssumption
  <2> QED BY <1>0, <2>1, FS_CardinalityType DEF Counting
<1>2. CASE BeginUse(t) \/ BeginImport(t)
  <2>1. PICK op : /\ UNCHANGED <<published, readers, lock, heap>>
                  /\ call[t].at = "idle"
                  /\ call' = [call EXCEPT ![t].op = op, ![t].at = "loaded",
                                          ![t].data = published]
    BY <1>2 DEF BeginUse, BeginImport, StartLookup, At
  <2>2. DOMAIN call' = Threads /\ DOMAIN call'[t] = DOMAIN Idle
        /\ call'[t].at = "loaded" /\ \A u \in Threads \ {t} : call'[u] = call[u]
    BY <2>1, <1>0 DEF Idle
  <2>3. Counting'
    BY <2>1, <2>2, <1>0, <1>1, CountingStep
  <2> QED BY <2>1, <2>2, <2>3, QuietStep
<1>3. CASE BeginClear(t)
  <2>1. UNCHANGED <<published, readers, lock, heap>> /\ call[t].at = "idle"
        /\ call' = [call EXCEPT ![t].op = "remove", ![t].at = "taking"]
    <3>1. call[t].at = "idle"
      BY <1>3, HomeAssumption DEF BeginClear, IsGarbage, At
    <3> QED BY <1>3, <3>1 DEF BeginClear
  <2>2. DOMAIN call' = Threads /\ DOMAIN call'[t] = DOMAIN Idle
        /\ call'[t].at = "taking" /\ call'[t].op = "remove"
        /\ \A u \in Threads \ {t} : call'[u] = call[u]
    BY <2>1, <1>0 DEF Idle
  <2>3. Counting'
    BY <2>1, <2>2, <1>0, <1>1, CountingStep
  <2> QED BY <2>1, <2>2, <2>3, QuietStep
<1>4. CASE Succeed(t) \/ Fail(t)
  <2>1. UNCHANGED <<published, readers, lock, heap, call>>
    BY <1>4 DEF Succeed, Fail, Finish
  <2> QED BY <2>1 DEF IInv, Shape, Counting, Readers, Exclusion, Pointer, Hands,
                      ReadersAreSafe, At
<1> QED BY <1>2, <1>3, <1>4 DEF Program

-----------------------------------------------------------------------------
\* A step of the writer that keeps the lock.  What a thread still reads is in
\* its hands, and it waits or only clears a slot.
LEMMA HoldStep ==
  ASSUME IInv, NEW t \in Threads,
         UNCHANGED <<published, readers, lock>>,
         DOMAIN call' = Threads, DOMAIN call'[t] = DOMAIN Idle,
         \A u \in Threads \ {t} : call'[u] = call[u],
         call[t].at \in Writing, call'[t].at \in Writing \ {"taken"},
         call'[t].op = call[t].op,
         DOMAIN heap' \subseteq Addresses,
         \A a \in DOMAIN heap' : "indexed" \in DOMAIN heap'[a],
         call'[t].data \in DOMAIN heap' \cup {None},
         call'[t].at \in {"waiting", "changing"} => call'[t].data # None,
         \A u \in Threads :
           call[u].at \in Reading /\ call[u].data # None =>
             /\ call[u].data \in DOMAIN heap'
             /\ call'[t].data = call[u].data
             /\ \/ call'[t].at = "waiting"
                \/ call[t].op = "remove" /\ heap'[call[u].data].indexed
  PROVE  IInv'
<1> USE DEF Writing, Reading
<1>0. lock = t /\ lock' = t
  BY DEF IInv, Exclusion
<1>1. Shape'
  BY DEF IInv, Shape
<1>2. Counting'
  <2>1. Readers' = Readers
    BY DEF Readers, Counted
  <2> QED BY <2>1 DEF IInv, Counting
<1>3. Exclusion'
  BY DEF IInv, Exclusion
<1>4. Pointer'
  BY <1>0, BoundsAssumption DEF IInv, Pointer
<1>5. Hands'
  <2> SUFFICES ASSUME NEW u \in Threads
               PROVE  /\ call'[u].at \in Writing \cup {"taking"} => call'[u].op \in {"import", "remove"}
                      /\ call'[u].at \in Writing => call'[u].data \in DOMAIN heap' \cup {None}
                      /\ call'[u].at = "taken" => call'[u].data = None
                      /\ call'[u].at \in {"waiting", "changing"} => call'[u].data # None
    BY DEF Hands
  <2>1. CASE u = t
    BY <2>1 DEF IInv, Hands
  <2>2. CASE u # t
    <3>1. call[u].at \notin Writing
      BY <1>0, <2>2 DEF IInv, Exclusion
    <3>2. call[u].at = "taking" => call[u].op \in {"import", "remove"}
      BY DEF IInv, Hands
    <3>3. call'[u] = call[u]
      BY <2>2
    <3> QED BY <3>1, <3>2, <3>3
  <2> QED BY <2>1, <2>2
<1>6. ReadersAreSafe'
  <2> SUFFICES ASSUME NEW u \in Threads, call'[u].at \in Reading, call'[u].data # None
               PROVE  /\ call'[u].data \in DOMAIN heap'
                      /\ call'[t].data = call'[u].data
                      /\ \/ call'[t].at = "waiting"
                         \/ call'[t].op = "remove" /\ heap'[call'[u].data].indexed
    BY <1>0, BoundsAssumption DEF ReadersAreSafe, At
  <2>1. u # t /\ call'[u] = call[u]
    OBVIOUS
  <2> QED BY <2>1
<1> QED BY <1>1, <1>2, <1>3, <1>4, <1>5, <1>6 DEF IInv

\* The lock is taken and the pointer becomes NULL.
LEMMA TakeStep ==
  ASSUME IInv, NEW t \in Threads, Take(t)
  PROVE  IInv'
<1> USE DEF Writing, Reading
<1>1. /\ call[t].at = "taking" /\ lock = None /\ lock' = t /\ published' = None
      /\ UNCHANGED <<readers, heap>>
      /\ DOMAIN call = Threads /\ DOMAIN call[t] = DOMAIN Idle
  BY DEF Take, At, IInv, Shape
<1>2. /\ DOMAIN call' = Threads /\ DOMAIN call'[t] = DOMAIN Idle
      /\ \A u \in Threads \ {t} : call'[u] = call[u]
      /\ call'[t].data = published /\ call'[t].op = call[t].op
      /\ call'[t].at \in {"taken", "waiting", "changing"}
      /\ call'[t].at = "taken" <=> published = None
      /\ call'[t].at = "changing" => ~Waits(t, published)
  BY <1>1 DEF Take, Idle
<1>3. call[t].op \in {"import", "remove"}
  BY <1>1 DEF IInv, Hands
<1>4. \A u \in Threads : call[u].at \notin Writing
  BY <1>1, BoundsAssumption DEF IInv, Exclusion
<1>5. Shape'
  BY <1>1, <1>2 DEF IInv, Shape
<1>6. Counting'
  <2>1. Readers' = Readers
    BY <1>1, <1>2 DEF Readers, Counted
  <2> QED BY <1>1, <2>1 DEF IInv, Counting
<1>7. Exclusion'
  <2>1. \A u \in Threads : call'[u].at \in Writing <=> t = u
    BY <1>2, <1>4
  <2> QED BY <1>1, <2>1 DEF Exclusion
<1>8. Pointer'
  BY <1>1 DEF Pointer
<1>9. Hands'
  <2> SUFFICES ASSUME NEW u \in Threads
               PROVE  /\ call'[u].at \in Writing \cup {"taking"} => call'[u].op \in {"import", "remove"}
                      /\ call'[u].at \in Writing => call'[u].data \in DOMAIN heap \cup {None}
                      /\ call'[u].at = "taken" => call'[u].data = None
                      /\ call'[u].at \in {"waiting", "changing"} => call'[u].data # None
    BY <1>1 DEF Hands
  <2>1. published \in DOMAIN heap \cup {None}
    BY DEF IInv, Pointer
  <2>2. CASE u = t
    BY <1>2, <1>3, <2>1, <2>2
  <2>3. CASE u # t
    BY <1>2, <2>3 DEF IInv, Hands
  <2> QED BY <2>2, <2>3
<1>10. ReadersAreSafe'
  <2> SUFFICES ASSUME NEW u \in Threads, call'[u].at \in Reading, call'[u].data # None
               PROVE  /\ call'[u].data \in DOMAIN heap
                      /\ call'[t].data = call'[u].data
                      /\ \/ call'[t].at = "waiting"
                         \/ call'[t].op = "remove" /\ heap[call'[u].data].indexed
    BY <1>1, BoundsAssumption DEF ReadersAreSafe, At
  <2>1. u # t /\ call'[u] = call[u]
    BY <1>2
  <2>2. call[u].data \in DOMAIN heap /\ published = call[u].data
    BY <1>1, <2>1 DEF IInv, ReadersAreSafe
  <2>3. ~Waits(t, published) => call[t].op = "remove" /\ heap[published].indexed
    BY <1>3 DEF Waits
  <2> QED BY <1>2, <2>1, <2>2, <2>3
<1> QED BY <1>5, <1>6, <1>7, <1>8, <1>9, <1>10 DEF IInv

\* The table is published and the lock is free again.
LEMMA PublishStep ==
  ASSUME IInv, NEW t \in Threads, NEW label \in {"publishing", "failing"}, NEW p,
         Publish(t, label, p)
  PROVE  IInv'
<1> USE DEF Writing, Reading
<1>1. /\ call[t].at = label /\ published' = call[t].data /\ lock' = None
      /\ UNCHANGED <<readers, heap>> /\ lock = t
      /\ DOMAIN call = Threads /\ DOMAIN call[t] = DOMAIN Idle
  BY DEF Publish, At, IInv, Shape, Exclusion
<1>2. /\ DOMAIN call' = Threads /\ DOMAIN call'[t] = DOMAIN Idle
      /\ \A u \in Threads \ {t} : call'[u] = call[u]
      /\ call'[t].at = "idle"
  BY <1>1 DEF Publish, Return, Idle
<1>3. Shape'
  BY <1>1, <1>2 DEF IInv, Shape
<1>4. Counting'
  <2>1. Readers' = Readers
    BY <1>1, <1>2 DEF Readers, Counted
  <2> QED BY <1>1, <2>1 DEF IInv, Counting
<1>5. Exclusion'
  <2>1. \A u \in Threads : call'[u].at \notin Writing
    BY <1>1, <1>2 DEF IInv, Exclusion
  <2> QED BY <1>1, <2>1, BoundsAssumption DEF Exclusion
<1>6. Pointer'
  BY <1>1 DEF IInv, Hands, Pointer
<1>7. Hands'
  <2>1. \A u \in Threads : call'[u].at # "idle" => call'[u] = call[u]
    BY <1>2
  <2> QED BY <1>1, <2>1 DEF IInv, Hands
<1>8. ReadersAreSafe'
  <2> SUFFICES ASSUME NEW u \in Threads, call'[u].at \in Reading, call'[u].data # None
               PROVE  call'[u].data \in DOMAIN heap /\ call[t].data = call'[u].data
    BY <1>1 DEF ReadersAreSafe
  <2>1. u # t /\ call'[u] = call[u]
    BY <1>2
  <2> QED BY <1>1, <2>1, BoundsAssumption DEF IInv, ReadersAreSafe
<1> QED BY <1>3, <1>4, <1>5, <1>6, <1>7, <1>8 DEF IInv

\* AddModule and RemoveModule between taking the table and publishing it.
LEMMA UpdateStep ==
  ASSUME IInv, NEW t \in Threads, Update(t)
  PROVE  IInv'
<1> USE DEF Writing, Reading
<1> DEFINE d == call[t].data
<1>0. /\ DOMAIN call = Threads /\ DOMAIN call[t] = DOMAIN Idle
      /\ DOMAIN heap \subseteq Addresses /\ None \notin DOMAIN heap
      /\ \A a \in DOMAIN heap : "indexed" \in DOMAIN heap[a]
      /\ call[t].at \in Writing => lock = t
  BY BoundsAssumption DEF IInv, Shape, Exclusion
\* What is still read, and when nothing is.
<1>1. ASSUME call[t].at \in Writing, NEW u \in Threads,
             call[u].at \in Reading, call[u].data # None
      PROVE  /\ call[u].data \in DOMAIN heap /\ call[u].data = d
             /\ \/ call[t].at = "waiting"
                \/ call[t].op = "remove" /\ heap[d].indexed
  BY <1>0, <1>1, BoundsAssumption DEF IInv, ReadersAreSafe, At
<1>2. CASE Take(t)
  BY <1>2, TakeStep
<1>3. CASE Allocate(t)
  <2>1. PICK c \in Addresses :
          /\ c \notin DOMAIN heap
          /\ heap' = Moved(c, c, Fresh)
          /\ call' = [call EXCEPT ![t].data = c, ![t].at = "waiting",
                                  ![t].fresh = TRUE]
    BY <1>3 DEF Allocate
  <2>2. /\ call[t].at = "taken" /\ UNCHANGED <<published, readers, lock>>
    BY <1>3 DEF Allocate, At
  <2>3. /\ DOMAIN call' = Threads /\ DOMAIN call'[t] = DOMAIN Idle
        /\ \A u \in Threads \ {t} : call'[u] = call[u]
        /\ call'[t].at = "waiting" /\ call'[t].data = c /\ call'[t].op = call[t].op
    BY <2>1, <1>0 DEF Idle
  <2>4. DOMAIN heap' = DOMAIN heap \cup {c}
        /\ \A a \in DOMAIN heap' : "indexed" \in DOMAIN heap'[a]
    BY <2>1, <1>0 DEF Moved, Fresh
  <2>5. d = None
    BY <2>2 DEF IInv, Hands
  <2>6. \A u \in Threads : call[u].at \in Reading => call[u].data = None
    BY <1>1, <2>2, <2>5
  <2> QED BY <1>0, <2>1, <2>2, <2>3, <2>4, <2>6, BoundsAssumption, HoldStep
<1>4. CASE AllocateFails(t)
  <2>1. /\ call[t].at = "taken" /\ UNCHANGED <<published, readers, lock, heap>>
        /\ call' = [call EXCEPT ![t].at = "failing"]
    BY <1>4 DEF AllocateFails, At, Goto
  <2>2. /\ DOMAIN call' = Threads /\ DOMAIN call'[t] = DOMAIN Idle
        /\ \A u \in Threads \ {t} : call'[u] = call[u]
        /\ call'[t].at = "failing" /\ call'[t].data = d /\ call'[t].op = call[t].op
    BY <2>1, <1>0 DEF Idle
  <2>3. d = None
    BY <2>1 DEF IInv, Hands
  <2>4. \A u \in Threads : call[u].at \in Reading => call[u].data = None
    BY <1>1, <2>1, <2>3
  <2> QED BY <1>0, <2>1, <2>2, <2>3, <2>4, HoldStep
<1>5. CASE NoReaders(t)
  <2>1. /\ call[t].at = "waiting" /\ readers = 0
        /\ UNCHANGED <<published, readers, lock, heap>>
        /\ call' = [call EXCEPT ![t].at = "changing"]
    BY <1>5 DEF NoReaders, At, Goto
  <2>2. /\ DOMAIN call' = Threads /\ DOMAIN call'[t] = DOMAIN Idle
        /\ \A u \in Threads \ {t} : call'[u] = call[u]
        /\ call'[t].at = "changing" /\ call'[t].data = d /\ call'[t].op = call[t].op
    BY <2>1, <1>0 DEF Idle
  <2>3. d \in DOMAIN heap
    BY <2>1 DEF IInv, Hands
  <2>4. \A u \in Threads : call[u].at \notin Reading
    BY <2>1, ZeroMeansNone DEF IInv, Counted
  <2> QED BY <1>0, <2>1, <2>2, <2>3, <2>4, HoldStep
<1>6. CASE AddModule(t)
  <2>1. PICK c \in Addresses :
          /\ heap' = Moved(d, c, After(t))
          /\ call' = [call EXCEPT ![t].data = c, ![t].at = "publishing"]
    BY <1>6 DEF AddModule
  <2>2. /\ call[t].at = "changing" /\ call[t].op = "import"
        /\ UNCHANGED <<published, readers, lock>>
    BY <1>6 DEF AddModule, At
  <2>3. /\ DOMAIN call' = Threads /\ DOMAIN call'[t] = DOMAIN Idle
        /\ \A u \in Threads \ {t} : call'[u] = call[u]
        /\ call'[t].at = "publishing" /\ call'[t].data = c /\ call'[t].op = call[t].op
    BY <2>1, <1>0 DEF Idle
  <2>4. d \in DOMAIN heap
    BY <2>2 DEF IInv, Hands
  <2>5. "indexed" \in DOMAIN After(t)
    BY <2>4, <1>0, StoredIsTable DEF After, Before
  <2>6. /\ c \in DOMAIN heap' /\ DOMAIN heap' \subseteq Addresses
        /\ \A a \in DOMAIN heap' : "indexed" \in DOMAIN heap'[a]
    BY <2>1, <2>5, <1>0 DEF Moved
  <2>7. \A u \in Threads : call[u].at \in Reading => call[u].data = None
    BY <1>1, <2>2
  <2> QED BY <2>2, <2>3, <2>6, <2>7, HoldStep
<1>7. CASE AddFails(t)
  <2>1. /\ call[t].at = "changing" /\ call[t].op = "import"
        /\ UNCHANGED <<published, readers, lock>>
    BY <1>7 DEF AddFails, At
  <2>2. d \in DOMAIN heap
    BY <2>1 DEF IInv, Hands
  <2>3. \A u \in Threads : call[u].at \in Reading => call[u].data = None
    BY <1>1, <2>1
  <2>4. CASE /\ heap' = Without(d)
             /\ call' = [call EXCEPT ![t].data = None, ![t].at = "failing"]
    <3>1. /\ DOMAIN call' = Threads /\ DOMAIN call'[t] = DOMAIN Idle
          /\ \A u \in Threads \ {t} : call'[u] = call[u]
          /\ call'[t].at = "failing" /\ call'[t].data = None
          /\ call'[t].op = call[t].op
      BY <2>4, <1>0 DEF Idle
    <3>2. /\ DOMAIN heap' \subseteq Addresses
          /\ \A a \in DOMAIN heap' : "indexed" \in DOMAIN heap'[a]
      BY <2>4, <1>0 DEF Without
    <3> QED BY <2>1, <2>3, <3>1, <3>2, HoldStep
  <2>5. CASE /\ heap' = [heap EXCEPT ![d] = Before(t)]
             /\ call' = [call EXCEPT ![t].at = "failing"]
    <3>1. /\ DOMAIN call' = Threads /\ DOMAIN call'[t] = DOMAIN Idle
          /\ \A u \in Threads \ {t} : call'[u] = call[u]
          /\ call'[t].at = "failing" /\ call'[t].data = d
          /\ call'[t].op = call[t].op
      BY <2>5, <1>0 DEF Idle
    <3>2. "indexed" \in DOMAIN Before(t)
      BY <2>2, <1>0, StoredIsTable DEF Before
    <3>3. /\ DOMAIN heap' = DOMAIN heap
          /\ \A a \in DOMAIN heap' : "indexed" \in DOMAIN heap'[a]
      BY <2>5, <3>2, <1>0
    <3> QED BY <1>0, <2>1, <2>2, <2>3, <3>1, <3>3, HoldStep
  <2> QED BY <1>7, <2>4, <2>5 DEF AddFails, Goto
<1>8. CASE RemoveModule(t)
  <2> DEFINE b == Removed(heap[d], Home[t])
  <2>1. /\ call[t].at = "changing" /\ call[t].op = "remove"
        /\ UNCHANGED <<published, readers, lock>>
    BY <1>8 DEF RemoveModule, At
  <2>2. d \in DOMAIN heap
    BY <2>1 DEF IInv, Hands
  <2>3. "indexed" \in DOMAIN b /\ b.indexed = heap[d].indexed
    BY <2>2, <1>0, RemovedIsTable
  <2> HIDE DEF b
  <2>4. CASE /\ ~b.indexed /\ heap' = Without(d)
             /\ call' = [call EXCEPT ![t].data = None, ![t].at = "publishing"]
    <3>1. /\ DOMAIN call' = Threads /\ DOMAIN call'[t] = DOMAIN Idle
          /\ \A u \in Threads \ {t} : call'[u] = call[u]
          /\ call'[t].at = "publishing" /\ call'[t].data = None
          /\ call'[t].op = call[t].op
      BY <2>4, <1>0 DEF Idle
    <3>2. /\ DOMAIN heap' \subseteq Addresses
          /\ \A a \in DOMAIN heap' : "indexed" \in DOMAIN heap'[a]
      BY <2>4, <1>0 DEF Without
    <3>3. \A u \in Threads : call[u].at \in Reading => call[u].data = None
      BY <1>1, <2>1, <2>3, <2>4
    <3> QED BY <2>1, <3>1, <3>2, <3>3, HoldStep
  <2>5. CASE /\ heap' = [heap EXCEPT ![d] = b]
             /\ call' = [call EXCEPT ![t].at = "publishing"]
    <3>1. /\ DOMAIN call' = Threads /\ DOMAIN call'[t] = DOMAIN Idle
          /\ \A u \in Threads \ {t} : call'[u] = call[u]
          /\ call'[t].at = "publishing" /\ call'[t].data = d
          /\ call'[t].op = call[t].op
      BY <2>5, <1>0 DEF Idle
    <3>2. /\ DOMAIN heap' = DOMAIN heap /\ heap'[d] = b
          /\ \A a \in DOMAIN heap' : "indexed" \in DOMAIN heap'[a]
      BY <2>2, <2>5, <2>3, <1>0
    <3>3. \A u \in Threads : call[u].at \in Reading /\ call[u].data # None =>
            call[u].data = d /\ heap'[d].indexed
      BY <1>1, <2>1, <2>3, <3>2
    <3> QED BY <1>0, <2>1, <2>2, <3>1, <3>2, <3>3, HoldStep
  <2> QED BY <1>8, <2>4, <2>5 DEF RemoveModule, Goto, b
<1>9. CASE PublishAdded(t) \/ PublishRemoved(t) \/ PublishFailed(t)
  BY <1>9, PublishStep DEF PublishAdded, PublishRemoved, PublishFailed
<1> QED BY <1>2, <1>3, <1>4, <1>5, <1>6, <1>7, <1>8, <1>9 DEF Update

-----------------------------------------------------------------------------
LEMMA NextIsSafe == IInv /\ [Next]_vars => IInv'
<1> SUFFICES ASSUME IInv, [Next]_vars PROVE IInv'
  OBVIOUS
<1>1. ASSUME NEW t \in Threads, Lookup(t) \/ Update(t) \/ Program(t)
      PROVE  IInv'
  BY <1>1, LookupStep, UpdateStep, ProgramStep
<1>2. CASE \/ \E i \in Interpreters : Deallocate(i)
           \/ UNCHANGED vars
  <2>1. UNCHANGED <<published, readers, lock, heap, call>>
    BY <1>2 DEF Deallocate, vars
  <2> QED BY <2>1 DEF IInv, Shape, Counting, Readers, Exclusion, Pointer, Hands,
                      ReadersAreSafe, At
<1> QED BY <1>1, <1>2 DEF Next

\* FindModule (ModuleSetupCode.c:2893) never reads a table that AddModule or
\* RemoveModule (3000-3160) has freed or moved or is changing under it, for any
\* number of threads: the counter covers every reader that got past the second
\* load of the pointer, and the writer's exchange keeps the others out.
THEOREM ReadersSafe == Spec => []ReadersAreSafe
<1>1. Spec => []IInv
  BY InitIsSafe, NextIsSafe, PTL DEF Spec
<1>2. IInv => ReadersAreSafe
  BY DEF IInv
<1> QED BY <1>1, <1>2, PTL

-----------------------------------------------------------------------------
(* Sets of naturals.                                                       *)

Below == {p \in Nat \X Nat : p[1] < p[2]}

\* A nonempty set of naturals has a least element: the order is well founded.
LEMMA LeastNumber ==
  ASSUME NEW S \in SUBSET Nat, S # {}
  PROVE  \E n \in S : \A m \in S : n <= m
<1>1. IsWellFoundedOn(Below, Nat)
  BY NatLessThanWellFounded DEF OpToRel, Below
<1>2. PICK n \in S : \A m \in S : ~ (<<m, n>> \in Below)
  BY <1>1, WFMin
<1>3. \A m \in S : ~ (m < n)
  <2> TAKE m \in S
  <2>1. <<m, n>> \in Nat \X Nat /\ <<m, n>>[1] = m /\ <<m, n>>[2] = n
    OBVIOUS
  <2> QED BY <1>2, <2>1 DEF Below
<1> QED BY <1>3

\* How many of S lie below x, and the one with k below it.
Rank(S, x) == Cardinality({l \in S : l < x})
Nth(S, k)  == CHOOSE j \in S : Rank(S, j) = k

LEMMA FiniteNumbers ==
  ASSUME NEW n \in Nat, NEW S \in SUBSET (0 .. n)
  PROVE  IsFiniteSet(S) /\ Cardinality(S) \in Nat /\ Cardinality(S) <= n + 1
<1>1. IsFiniteSet(0 .. n) /\ Cardinality(0 .. n) = n + 1
  BY FS_Interval
<1>2. IsFiniteSet(S) /\ Cardinality(S) <= Cardinality(0 .. n)
  BY <1>1, FS_Subset
<1> QED BY <1>1, <1>2, FS_CardinalityType

LEMMA RankStep ==
  ASSUME NEW n \in Nat, NEW S \in SUBSET (0 .. n), NEW x \in S, NEW y \in Nat, x < y
  PROVE  /\ Rank(S, x) \in Nat /\ Rank(S, y) \in Nat /\ Rank(S, x) < Rank(S, y)
         /\ Cardinality(S) \in Nat /\ Rank(S, x) < Cardinality(S)
         /\ (\A l \in S : l < y => l <= x) => Rank(S, y) = Rank(S, x) + 1
<1>0. \A l \in S : l \in Nat
  OBVIOUS
<1>1. IsFiniteSet(S)
  BY FiniteNumbers
<1> DEFINE A == {l \in S : l < x}  B == {l \in S : l < y}
<1>2. IsFiniteSet(A) /\ IsFiniteSet(B) /\ Cardinality(A) \in Nat /\ Cardinality(B) \in Nat
      /\ Cardinality(S) \in Nat
  BY <1>1, FS_Subset, FS_CardinalityType
<1>3. x \notin A
  OBVIOUS
<1>4. Cardinality(A \cup {x}) = Cardinality(A) + 1
  BY <1>2, <1>3, FS_AddElement
<1>5. A \cup {x} \in SUBSET B /\ A \cup {x} \in SUBSET S
  <2>1. \A l \in S : l < x => l < y
    BY <1>0
  <2> QED BY <2>1
<1>6. Cardinality(A \cup {x}) <= Cardinality(B) /\ Cardinality(A \cup {x}) <= Cardinality(S)
  BY <1>1, <1>2, <1>5, FS_Subset
<1>7. ASSUME \A l \in S : l < y => l <= x PROVE B = A \cup {x}
  <2>1. \A l \in S : l < y <=> (l < x \/ l = x)
    BY <1>0, <1>7
  <2>2. \A l : l \in B <=> l \in A \cup {x}
    BY <2>1
  <2> QED BY <2>2
<1> HIDE DEF A, B
<1>8. Rank(S, x) = Cardinality(A) /\ Rank(S, y) = Cardinality(B)
  BY DEF A, B, Rank
<1> QED BY <1>2, <1>4, <1>6, <1>7, <1>8

LEMMA RankBelow ==
  ASSUME NEW n \in Nat, NEW S \in SUBSET (0 .. n), NEW x \in S
  PROVE  Rank(S, x) \in Nat /\ Cardinality(S) \in Nat /\ Rank(S, x) < Cardinality(S)
<1>1. x + 1 \in Nat /\ x < x + 1
  OBVIOUS
<1> QED BY <1>1, RankStep

\* There is an element of every rank.
LEMMA NthOf ==
  ASSUME NEW n \in Nat, NEW S \in SUBSET (0 .. n), NEW k \in Nat, k < Cardinality(S)
  PROVE  Nth(S, k) \in S /\ Rank(S, Nth(S, k)) = k
<1>0. IsFiniteSet(S) /\ Cardinality(S) \in Nat
  BY FiniteNumbers
<1> DEFINE Bad == {m \in Nat : m < Cardinality(S) /\ ~ \E j \in S : Rank(S, j) = m}
<1>1. Bad = {}
  <2> SUFFICES ASSUME Bad # {} PROVE FALSE
    OBVIOUS
  <2>1. PICK m \in Bad : \A o \in Bad : m <= o
    BY LeastNumber
  <2>2. m \in Nat /\ m < Cardinality(S) /\ ~ \E j \in S : Rank(S, j) = m
    BY <2>1
  <2>3. CASE m = 0
    <3>1. S # {}
      BY <1>0, <2>2, <2>3, FS_EmptySet
    <3>2. PICK x \in S : \A l \in S : x <= l
      BY <3>1, LeastNumber
    <3>3. {l \in S : l < x} = {}
      <4>1. \A l \in S : ~ (l < x)
        BY <3>2
      <4> QED BY <4>1
    <3>4. Rank(S, x) = 0
      BY <3>3, FS_EmptySet DEF Rank
    <3> QED BY <2>2, <2>3, <3>4
  <2>4. CASE m # 0
    <3>1. m - 1 \in Nat /\ m - 1 < Cardinality(S) /\ m - 1 \notin Bad
      BY <1>0, <2>1, <2>2, <2>4
    <3>2. PICK x \in S : Rank(S, x) = m - 1
      BY <3>1
    <3> DEFINE T == {l \in S : l > x}
    <3>3. CASE T = {}
      <4>1. PICK y \in Nat : y = n + 1
        OBVIOUS
      <4>2. \A l \in S : l < y /\ l <= x
        BY <3>3, <4>1
      <4>3. {l \in S : l < y} = S
        BY <4>2
      <4>4. x < y
        BY <4>2
      <4>5. Rank(S, y) = Rank(S, x) + 1
        <5>1. \A l \in S : l < y => l <= x
          BY <4>2
        <5> HIDE DEF T
        <5> QED BY <5>1, <4>4, RankStep
      <4>6. Rank(S, y) = Cardinality(S)
        BY <4>3 DEF Rank
      <4> QED BY <4>5, <4>6, <3>2, <2>2, <1>0
    <3>4. CASE T # {}
      <4>0. T \in SUBSET Nat
        <5>1. \A l \in S : l \in Nat
          OBVIOUS
        <5> QED BY <5>1
      <4>1. PICK y \in T : \A l \in T : y <= l
        BY <3>4, <4>0, LeastNumber
      <4>2. y \in S /\ y \in Nat /\ x < y /\ \A l \in S : l < y => l <= x
        BY <4>1
      <4>3. Rank(S, y) = Rank(S, x) + 1
        BY <4>2, RankStep
      <4> QED BY <2>2, <3>2, <4>2, <4>3
    <3> QED BY <3>3, <3>4
  <2> QED BY <2>3, <2>4
<1>2. \E j \in S : Rank(S, j) = k
  BY <1>1
<1> QED BY <1>2 DEF Nth

\* Ranks tell elements apart and keep their order.
LEMMA NthOrder ==
  ASSUME NEW n \in Nat, NEW S \in SUBSET (0 .. n)
  PROVE  /\ \A j, k \in Nat : j < k /\ k < Cardinality(S) => Nth(S, j) < Nth(S, k)
         /\ \A x \in S : Nth(S, Rank(S, x)) = x
<1>0. Cardinality(S) \in Nat /\ \A l \in S : l \in Nat
  BY FiniteNumbers
<1>1. ASSUME NEW x \in S, NEW y \in S, Rank(S, x) < Rank(S, y) PROVE x < y
  <2>1. Rank(S, x) \in Nat /\ Rank(S, y) \in Nat
    BY RankBelow
  <2>2. y < x => Rank(S, y) < Rank(S, x)
    BY <1>0, RankStep
  <2> QED BY <1>1, <2>1, <2>2
<1>2. ASSUME NEW x \in S, NEW y \in S, Rank(S, x) = Rank(S, y) PROVE x = y
  <2>1. Rank(S, x) \in Nat /\ Rank(S, y) \in Nat
    BY RankBelow
  <2>2. y < x => Rank(S, y) < Rank(S, x)
    BY <1>0, RankStep
  <2>3. x < y => Rank(S, x) < Rank(S, y)
    BY <1>0, RankStep
  <2> QED BY <1>2, <2>1, <2>2, <2>3
<1>3. ASSUME NEW j \in Nat, NEW k \in Nat, j < k, k < Cardinality(S)
      PROVE  Nth(S, j) < Nth(S, k)
  <2>1. j < Cardinality(S)
    BY <1>0, <1>3
  <2>2. Nth(S, j) \in S /\ Rank(S, Nth(S, j)) = j
    BY <2>1, NthOf
  <2>3. Nth(S, k) \in S /\ Rank(S, Nth(S, k)) = k
    BY <1>3, NthOf
  <2> QED BY <1>1, <1>3, <2>2, <2>3
<1>4. ASSUME NEW x \in S PROVE Nth(S, Rank(S, x)) = x
  <2>1. Rank(S, x) \in Nat /\ Rank(S, x) < Cardinality(S)
    BY RankBelow
  <2>2. Nth(S, Rank(S, x)) \in S /\ Rank(S, Nth(S, Rank(S, x))) = Rank(S, x)
    BY <2>1, NthOf
  <2> QED BY <1>2, <2>2
<1> QED BY <1>3, <1>4

-----------------------------------------------------------------------------
(* Tables.                                                                 *)

Slot == [id : Nat \cup {Unset}, module : Modules \cup {None, Unset}]
TableOf(n) == [indexed : BOOLEAN, count : 0 .. n, table : [0 .. n - 1 -> Slot]]
IsTable(b) == allocated(b) \in Nat \ {0} /\ b \in TableOf(allocated(b))

LEMMA TableSize ==
  ASSUME NEW n \in Nat \ {0}, NEW b \in TableOf(n)
  PROVE  IsTable(b) /\ allocated(b) = n
<1>1. DOMAIN b.table = 0 .. n - 1
  BY DEF TableOf
<1>2. Cardinality(0 .. n - 1) = n
  BY FS_Interval
<1>3. allocated(b) = n
  BY <1>1, <1>2 DEF allocated
<1> QED BY <1>3 DEF IsTable

LEMMA TableIs ==
  ASSUME NEW b, IsTable(b)
  PROVE  \E n \in Nat \ {0} : allocated(b) = n /\ b \in TableOf(n)
BY DEF IsTable

\* A module i has no entry left behind the last one.
Clean(b, i) ==
  \A k \in DOMAIN b.table \ Entries(b) : b.table[k].id = i => b.table[k].module = None

\* The table is the registry reg, in either of its layouts.
RegisteredAs(reg, k) == IF k \in Interpreters THEN reg[k] ELSE None
IndexedBy(b, reg) ==
  /\ \A k \in DOMAIN b.table : b.table[k] = [id |-> k, module |-> RegisteredAs(reg, k)]
  /\ \A i \in Interpreters : reg[i] # None => i < b.count
SortedBy(b, reg) ==
  /\ \A k \in Entries(b) : /\ b.table[k].id \in Interpreters
                           /\ reg[b.table[k].id] # None
                           /\ b.table[k].module = reg[b.table[k].id]
  /\ \A j, k \in Entries(b) : j < k => b.table[j].id < b.table[k].id
  /\ \A i \in Interpreters : reg[i] # None => \E k \in Entries(b) : b.table[k].id = i
IsRegistry(b, reg) == IF b.indexed THEN IndexedBy(b, reg) ELSE SortedBy(b, reg)

Registries == [Interpreters -> Modules \cup {None}]

LEMMA FreshTable ==
  ASSUME NEW reg \in Registries, \A i \in Interpreters : reg[i] = None
  PROVE  IsTable(Fresh) /\ IsRegistry(Fresh, reg) /\ \A i : Clean(Fresh, i)
<1>1. Blank(0) \in Slot
  BY DEF Blank, Slot
<1>2. Fresh \in TableOf(1)
  BY <1>1 DEF Fresh, TableOf
<1>3. IsTable(Fresh)
  BY <1>2, TableSize
<1>4. IndexedBy(Fresh, reg)
  BY DEF IndexedBy, Fresh, Blank, RegisteredAs
<1> QED BY <1>3, <1>4 DEF IsRegistry, Fresh, Clean, Blank

\* realloc keeps what is there.
LEMMA ResizedKeeps ==
  ASSUME NEW n \in Nat \ {0}, NEW b \in TableOf(n), NEW m \in Nat \ {0}, n <= m,
         NEW added, \A k \in Nat : added[k] \in Slot, NEW r, r = Resized(b, m, added)
  PROVE  /\ r \in TableOf(m) /\ r.indexed = b.indexed /\ r.count = b.count
         /\ \A k \in 0 .. n - 1 : r.table[k] = b.table[k]
         /\ \A k \in n .. m - 1 : r.table[k] = added[k]
<1> DEFINE f == [k \in 0 .. m - 1 |-> IF k \in 0 .. n - 1 THEN b.table[k] ELSE added[k]]
<1>1. DOMAIN b.table = 0 .. n - 1 /\ b.table \in [0 .. n - 1 -> Slot]
  BY DEF TableOf
<1>2. f \in [0 .. m - 1 -> Slot]
  BY <1>1
<1>3. r = [b EXCEPT !.table = f]
  BY <1>1 DEF Resized
<1>4. \A k \in 0 .. n - 1 : f[k] = b.table[k]
  BY <1>1
<1>5. \A k \in n .. m - 1 : f[k] = added[k]
  OBVIOUS
<1> HIDE DEF f
<1>6. r \in TableOf(m) /\ r.indexed = b.indexed /\ r.count = b.count /\ r.table = f
  BY <1>2, <1>3 DEF TableOf
<1> QED BY <1>4, <1>5, <1>6

\* The doubling of the size is defined, and ends above the id.
LEMMA DoubleDefined ==
  ASSUME NEW i \in Nat
  PROVE  \E f : f = [n \in Nat |-> IF n > i THEN n ELSE f[2 * n]]
<1> DEFINE From(m) == {k \in Nat : k >= m}
           Good(m) == \E f : f = [n \in From(m) |-> IF n > i THEN n ELSE f[2 * n]]
           All     == {m \in Nat \ {0} : Good(m)}
<1>1. Good(i + 1)
  <2> DEFINE f == [n \in From(i + 1) |-> n]
  <2>1. f = [n \in From(i + 1) |-> IF n > i THEN n ELSE f[2 * n]]
    OBVIOUS
  <2> HIDE DEF f
  <2> QED BY <2>1
<1>2. ASSUME NEW m \in Nat \ {0}, m <= i, Good(m + 1) PROVE Good(m)
  <2>1. PICK f : f = [n \in From(m + 1) |-> IF n > i THEN n ELSE f[2 * n]]
    BY <1>2
  <2> DEFINE g == [n \in From(m) |-> IF n = m THEN f[2 * m] ELSE f[n]]
             h == [n \in From(m) |-> IF n > i THEN n ELSE g[2 * n]]
  <2>2. \A n \in From(m) : n # m => n \in From(m + 1)
    OBVIOUS
  <2>3. \A n \in From(m) : 2 * n \in From(m) /\ 2 * n # m /\ 2 * n # n
    OBVIOUS
  <2>4. \A n \in From(m) : g[2 * n] = f[2 * n]
    BY <2>3
  <2>5. \A n \in From(m + 1) : f[n] = IF n > i THEN n ELSE f[2 * n]
    BY <2>1
  <2>6. \A n \in From(m) : g[n] = h[n]
    <3> SUFFICES ASSUME NEW n \in From(m) PROVE g[n] = h[n]
      OBVIOUS
    <3>1. h[n] = IF n > i THEN n ELSE f[2 * n]
      BY <2>4
    <3>2. CASE n = m
      BY <1>2, <3>1, <3>2
    <3>3. CASE n # m
      BY <3>1, <3>3, <2>2, <2>5
    <3> QED BY <3>2, <3>3
  <2>7. g = h
    BY <2>6
  <2> HIDE DEF g
  <2> QED BY <2>7
<1>3. i + 1 \in All
  <2>1. i + 1 \in Nat \ {0}
    OBVIOUS
  <2> HIDE DEF Good
  <2> QED BY <1>1, <2>1
<1>4. PICK m \in All : \A o \in All : m <= o
  <2>1. All \in SUBSET Nat
    OBVIOUS
  <2> HIDE DEF All
  <2> QED BY <1>3, <2>1, LeastNumber
<1>5. Good(m) /\ m \in Nat \ {0} /\ m <= i + 1
  BY <1>3, <1>4
<1>6. m = 1
  <2> SUFFICES ASSUME m # 1 PROVE FALSE
    OBVIOUS
  <2>1. m - 1 \in Nat \ {0} /\ m - 1 <= i /\ (m - 1) + 1 = m
    BY <1>5
  <2>2. Good(m - 1)
    <3> HIDE DEF Good
    <3> QED BY <1>2, <1>5, <2>1
  <2>3. m - 1 \in All
    <3> HIDE DEF Good
    <3> QED BY <2>1, <2>2
  <2>4. m <= m - 1
    <3> HIDE DEF All
    <3> QED BY <1>4, <2>3
  <2> QED BY <1>5, <2>4
<1>7. PICK f : f = [n \in From(1) |-> IF n > i THEN n ELSE f[2 * n]]
  BY <1>5, <1>6
<1> DEFINE g == [n \in Nat |-> IF n = 0 THEN 0 ELSE f[n]]
           h == [n \in Nat |-> IF n > i THEN n ELSE g[2 * n]]
<1>8. \A n \in From(1) : f[n] = IF n > i THEN n ELSE f[2 * n]
  BY <1>7
<1>9. \A n \in Nat : g[n] = h[n]
  <2> SUFFICES ASSUME NEW n \in Nat PROVE g[n] = h[n]
    OBVIOUS
  <2>1. CASE n = 0
    BY <2>1
  <2>2. CASE n # 0
    <3>1. n \in From(1) /\ 2 * n \in Nat /\ 2 * n # 0
      BY <2>2
    <3>2. g[n] = f[n] /\ g[2 * n] = f[2 * n]
      BY <2>2, <3>1
    <3> QED BY <3>1, <3>2, <1>8
  <2> QED BY <2>1, <2>2
<1>10. g = h
  BY <1>9
<1> HIDE DEF g
<1> QED BY <1>10

LEMMA DoubleGrows ==
  ASSUME NEW i \in Nat, NEW f, f = [n \in Nat |-> IF n > i THEN n ELSE f[2 * n]]
  PROVE  \A n \in Nat \ {0} : f[n] \in Nat /\ f[n] > i /\ f[n] >= n
<1> DEFINE Good(n) == f[n] \in Nat /\ f[n] > i /\ f[n] >= n
           Bad     == {n \in Nat \ {0} : ~ Good(n)}
           Left    == {i - n : n \in Bad}
<1>1. \A n \in Nat : f[n] = IF n > i THEN n ELSE f[2 * n]
  OBVIOUS
<1>2. \A n \in Bad : n <= i
  BY <1>1
<1>3. ASSUME Bad # {} PROVE FALSE
  <2>1. Left \in SUBSET Nat /\ Left # {}
    <3>1. \A n \in Bad : n \in Nat /\ i - n \in Nat
      BY <1>2
    <3> HIDE DEF Bad
    <3> QED BY <1>3, <3>1
  <2>2. PICK l \in Left : \A k \in Left : l <= k
    <3> HIDE DEF Left
    <3> QED BY <2>1, LeastNumber
  <2>3. PICK n \in Bad : l = i - n
    BY <2>2
  <2>4. n \in Nat \ {0} /\ n <= i /\ 2 * n \in Nat \ {0} /\ 2 * n > n
    BY <1>2, <2>3
  <2>5. 2 * n \notin Bad
    <3> SUFFICES ASSUME 2 * n \in Bad PROVE FALSE
      OBVIOUS
    <3>1. i - 2 * n \in Left
      OBVIOUS
    <3>2. i - n <= i - 2 * n
      BY <2>2, <2>3, <3>1
    <3> HIDE DEF Left, Bad
    <3> QED BY <2>4, <3>2
  <2>6. Good(2 * n)
    BY <2>4, <2>5
  <2>7. f[n] = f[2 * n]
    BY <1>1, <2>4
  <2>8. Good(n)
    BY <2>4, <2>6, <2>7
  <2> QED BY <2>3, <2>8
<1> QED BY <1>3

\* d is b with blank slots behind it.
Extends(d, b, n, m) ==
  /\ d \in TableOf(m) /\ d.indexed = b.indexed /\ d.count = b.count
  /\ \A k \in 0 .. n - 1 : d.table[k] = b.table[k]
  /\ \A k \in n .. m - 1 : d.table[k] = [id |-> k, module |-> None]

LEMMA DoubledIs ==
  ASSUME NEW i \in Nat, NEW n \in Nat \ {0}, NEW b \in TableOf(n),
         NEW d, d = Doubled(b, i)
  PROVE  \E m \in Nat \ {0} : n <= m /\ i < m /\ Extends(d, b, n, m)
<1>1. \E f : f = [k \in Nat |-> IF k > i THEN k ELSE f[2 * k]]
  BY DoubleDefined
<1> DEFINE f == CHOOSE f : f = [k \in Nat |-> IF k > i THEN k ELSE f[2 * k]]
           blanks == [k \in Nat |-> Blank(k)]
<1>2. f = [k \in Nat |-> IF k > i THEN k ELSE f[2 * k]]
  BY <1>1
<1>3. allocated(b) = n
  BY TableSize
<1>4. d = Resized(b, f[n], blanks)
  BY <1>3 DEF Doubled
<1>5. \A k \in Nat : blanks[k] \in Slot /\ blanks[k] = [id |-> k, module |-> None]
  BY DEF Blank, Slot
<1> HIDE DEF f, blanks
<1>6. f[n] \in Nat /\ f[n] > i /\ f[n] >= n
  BY <1>2, DoubleGrows
<1>7. PICK m \in Nat \ {0} : m = f[n]
  BY <1>6
<1>8. \A k \in Nat : blanks[k] \in Slot
  BY <1>5
<1>9. n <= m /\ d = Resized(b, m, blanks)
  BY <1>4, <1>6, <1>7
<1>10. /\ d \in TableOf(m) /\ d.indexed = b.indexed /\ d.count = b.count
       /\ \A k \in 0 .. n - 1 : d.table[k] = b.table[k]
       /\ \A k \in n .. m - 1 : d.table[k] = blanks[k]
  BY <1>8, <1>9, ResizedKeeps
<1>11. \A k \in n .. m - 1 : d.table[k] = [id |-> k, module |-> None]
  BY <1>5, <1>10
<1>12. i < m
  BY <1>6, <1>7
<1> QED BY <1>9, <1>10, <1>11, <1>12 DEF Extends

LEMMA TableParts ==
  ASSUME NEW n \in Nat \ {0}, NEW b \in TableOf(n)
  PROVE  /\ DOMAIN b.table = 0 .. n - 1 /\ b.table \in [0 .. n - 1 -> Slot]
         /\ b.indexed \in BOOLEAN /\ b.count \in 0 .. n
         /\ Entries(b) = {k \in 0 .. n - 1 : k < b.count}
         /\ \A k \in 0 .. n - 1 : b.table[k] \in Slot
         /\ 0 \in 0 .. n - 1
<1>1. DOMAIN b.table = 0 .. n - 1 /\ b.table \in [0 .. n - 1 -> Slot]
      /\ b.indexed \in BOOLEAN /\ b.count \in 0 .. n
  BY DEF TableOf
<1> QED BY <1>1 DEF Entries

LEMMA IndexedIsClean ==
  ASSUME NEW n \in Nat \ {0}, NEW b \in TableOf(n), NEW reg, IndexedBy(b, reg)
  PROVE  \A i : Clean(b, i)
<1> SUFFICES ASSUME NEW k \in 0 .. n - 1, k \notin Entries(b)
             PROVE  b.table[k].module = None
  BY TableParts DEF Clean
<1>1. k >= b.count /\ b.count \in Nat /\ k \in Nat
  BY TableParts
<1>2. b.table[k].module = RegisteredAs(reg, k)
  <2>1. k \in DOMAIN b.table
    BY TableParts
  <2>2. b.table[k] = [id |-> k, module |-> RegisteredAs(reg, k)]
    BY <2>1 DEF IndexedBy
  <2> QED BY <2>2
<1> QED BY <1>1, <1>2 DEF IndexedBy, RegisteredAs

SetSlot(b, i, m, c) == [b EXCEPT !.table[i].module = m, !.count = c]

\* A slot of an indexed table is set, to a module or to none.
LEMMA IndexedSet ==
  ASSUME NEW n \in Nat \ {0}, NEW b \in TableOf(n), b.indexed,
         NEW reg \in Registries, NEW i \in Interpreters, i < n,
         NEW m \in Modules \cup {None}, NEW c \in 0 .. n, b.count <= c, m # None => i < c,
         IndexedBy(b, reg),
         NEW r, r = SetSlot(b, i, m, c),
         NEW reg2, reg2 = [reg EXCEPT ![i] = m]
  PROVE  r \in TableOf(n) /\ r.indexed /\ IndexedBy(r, reg2)
<1> DEFINE f == [b.table EXCEPT ![i].module = m]
<1>1. i \in 0 .. n - 1
  OBVIOUS
<1>2. b.table[i] = [id |-> i, module |-> RegisteredAs(reg, i)]
  BY <1>1, TableParts DEF IndexedBy
<1>3. f[i] = [id |-> i, module |-> m]
  BY <1>1, <1>2, TableParts
<1>4. \A k \in 0 .. n - 1 : k # i => f[k] = b.table[k]
  BY TableParts
<1>5. f[i] \in Slot
  BY <1>3 DEF Slot
<1>6. f \in [0 .. n - 1 -> Slot]
  BY <1>1, <1>4, <1>5, TableParts
<1>7. \A k \in 0 .. n - 1 : f[k] = [id |-> k, module |-> RegisteredAs(reg2, k)]
  <2> TAKE k \in 0 .. n - 1
  <2>1. CASE k = i
    BY <2>1, <1>3 DEF RegisteredAs, Registries
  <2>2. CASE k # i
    <3>1. RegisteredAs(reg2, k) = RegisteredAs(reg, k)
      BY <2>2 DEF RegisteredAs, Registries
    <3> QED BY <2>2, <3>1, <1>4, TableParts DEF IndexedBy
  <2> QED BY <2>1, <2>2
<1>8. \A j \in Interpreters : reg2[j] # None => j < c
  <2> SUFFICES ASSUME NEW j \in Interpreters, reg2[j] # None, j # i PROVE j < c
    BY DEF Registries
  <2>1. j < b.count /\ b.count \in Nat /\ j \in Nat
    BY TableParts DEF Registries, IndexedBy
  <2> QED BY <2>1
<1> HIDE DEF f
<1>9. r = [b EXCEPT !.table = f, !.count = c]
  BY DEF f, TableOf, SetSlot
<1>10. r.table = f /\ r.count = c /\ r.indexed /\ r \in TableOf(n)
  BY <1>6, <1>9 DEF TableOf
<1>11. DOMAIN r.table = 0 .. n - 1
  BY <1>6, <1>10
<1>12. IndexedBy(r, reg2)
  BY <1>7, <1>8, <1>10, <1>11 DEF IndexedBy
<1> QED BY <1>10, <1>12

LEMMA IndexedAdd ==
  ASSUME NEW b, IsTable(b), b.indexed, NEW reg \in Registries, IndexedBy(b, reg),
         NEW i \in Interpreters, NEW m \in Modules,
         NEW r, r = SetIndexed(Doubled(b, i), i, m),
         NEW reg2, reg2 = [reg EXCEPT ![i] = m]
  PROVE  IsTable(r) /\ r.indexed /\ IndexedBy(r, reg2)
<1>1. PICK n \in Nat \ {0} : b \in TableOf(n)
  BY TableIs
<1>2. i \in Nat
  OBVIOUS
<1> DEFINE d == Doubled(b, i)  c == Largest(d.count, i + 1)
<1>4. PICK l \in Nat \ {0} : n <= l /\ i < l /\ Extends(d, b, n, l)
  <2> HIDE DEF d
  <2>1. d = Doubled(b, i)
    BY DEF d
  <2> QED BY <1>1, <1>2, <2>1, DoubledIs
<1>3. /\ n <= l /\ i < l
      /\ d \in TableOf(l) /\ d.indexed = b.indexed /\ d.count = b.count
      /\ \A k \in 0 .. n - 1 : d.table[k] = b.table[k]
      /\ \A k \in n .. l - 1 : d.table[k] = [id |-> k, module |-> None]
  <2> HIDE DEF d
  <2> QED BY <1>4 DEF Extends
<1> HIDE DEF d
<1>6. b.count \in 0 .. n /\ DOMAIN b.table = 0 .. n - 1 /\ DOMAIN d.table = 0 .. l - 1
  BY <1>1, <1>3, TableParts
<1>7. IndexedBy(d, reg)
  <2>1. ASSUME NEW k \in 0 .. l - 1 PROVE d.table[k] = [id |-> k, module |-> RegisteredAs(reg, k)]
    <3>1. CASE k \in 0 .. n - 1
      BY <3>1, <1>3, <1>6 DEF IndexedBy
    <3>2. CASE k \in n .. l - 1
      <4>1. RegisteredAs(reg, k) = None
        <5> SUFFICES ASSUME k \in Interpreters, reg[k] # None PROVE FALSE
          BY DEF RegisteredAs
        <5>1. k < b.count
          BY DEF IndexedBy
        <5> QED BY <5>1, <3>2, <1>6
      <4> QED BY <3>2, <4>1, <1>3
    <3> QED BY <3>1, <3>2
  <2>2. \A j \in Interpreters : reg[j] # None => j < d.count
    BY <1>3 DEF IndexedBy
  <2> QED BY <2>1, <2>2, <1>6 DEF IndexedBy
<1>8. c \in 0 .. l /\ d.count <= c /\ i < c
  BY <1>2, <1>3, <1>3, <1>6 DEF Largest
<1>9. r = SetSlot(d, i, m, c)
  BY DEF SetIndexed, d, SetSlot
<1> HIDE DEF c
<1>10. r \in TableOf(l) /\ r.indexed /\ IndexedBy(r, reg2)
  <2>1. /\ i < l /\ d.indexed /\ m \in Modules \cup {None} /\ (m # None => i < c)
        /\ d \in TableOf(l) /\ c \in 0 .. l /\ d.count <= c
    BY <1>3, <1>3, <1>8
  <2> QED BY <2>1, <1>7, <1>9, IndexedSet
<1>11. IsTable(r)
  BY <1>10, TableSize
<1> QED BY <1>10, <1>11

Recorded(reg, i, m) == [reg EXCEPT ![i] = m]

LEMMA IndexedRemove ==
  ASSUME NEW b, IsTable(b), b.indexed, NEW reg \in Registries, IndexedBy(b, reg),
         NEW i \in Interpreters, reg[i] # None,
         NEW r, r = Removed(b, i), NEW reg2, reg2 = Recorded(reg, i, None)
  PROVE  IsTable(r) /\ r.indexed /\ r.count = b.count /\ IndexedBy(r, reg2)
<1>1. PICK n \in Nat \ {0} : b \in TableOf(n)
  BY TableIs
<1>2. b.count \in 0 .. n /\ i < b.count /\ i \in Nat
  BY <1>1, TableParts DEF IndexedBy
<1>3. r = [b EXCEPT !.table[i].module = None]
  BY <1>2 DEF Removed
<1>4. r = SetSlot(b, i, None, b.count)
  BY <1>1, <1>3 DEF TableOf, SetSlot
<1>5. r \in TableOf(n) /\ r.indexed /\ IndexedBy(r, reg2)
  <2>1. i < n /\ b.count <= b.count /\ None \in Modules \cup {None}
        /\ b \in TableOf(n) /\ b.count \in 0 .. n
    BY <1>1, <1>2
  <2> QED BY <2>1, <1>4, IndexedSet DEF Recorded
<1>6. r.count = b.count
  BY <1>1, <1>3 DEF TableOf
<1>7. IsTable(r)
  BY <1>5, TableSize
<1> QED BY <1>5, <1>6, <1>7

\* ConvertFromInterpIdAsIndex keeps the registry and leaves nothing behind it.
LEMMA ConvertedIs ==
  ASSUME NEW b, IsTable(b), b.indexed, NEW reg \in Registries, IndexedBy(b, reg),
         NEW r, r = Converted(b)
  PROVE  IsTable(r) /\ ~r.indexed /\ SortedBy(r, reg) /\ \A i : Clean(r, i)
<1>1. PICK n \in Nat \ {0} : b \in TableOf(n)
  BY TableIs
<1>2. /\ DOMAIN b.table = 0 .. n - 1 /\ b.count \in 0 .. n
      /\ Entries(b) = {k \in 0 .. n - 1 : k < b.count}
      /\ \A k \in 0 .. n - 1 : b.table[k] \in Slot
      /\ b.table \in [0 .. n - 1 -> Slot]
  BY <1>1, TableParts
<1> DEFINE O == {k \in Entries(b) : b.table[k].module # None}
           C == Cardinality(O)
           f == [k \in 0 .. n - 1 |-> IF k < C THEN b.table[Nth(O, k)]
                                      ELSE IF k < b.count THEN Blank(0) ELSE b.table[k]]
<1>3. n - 1 \in Nat /\ O \in SUBSET (0 .. (n - 1))
  BY <1>2
<1>4. C \in Nat /\ C <= n
  <2> HIDE DEF O
  <2> QED BY <1>3, FiniteNumbers
<1>5. r = [indexed |-> FALSE, count |-> C, table |-> f]
  BY <1>2 DEF Converted, Nth, Rank
<1>6. \A k \in O : /\ k \in Interpreters /\ reg[k] # None
                   /\ b.table[k] = [id |-> k, module |-> reg[k]]
  <2> SUFFICES ASSUME NEW k \in O
               PROVE  /\ k \in Interpreters /\ reg[k] # None
                      /\ b.table[k] = [id |-> k, module |-> reg[k]]
    OBVIOUS
  <2>1. k \in DOMAIN b.table /\ b.table[k].module # None
    BY <1>2
  <2>2. b.table[k] = [id |-> k, module |-> RegisteredAs(reg, k)]
    BY <2>1 DEF IndexedBy
  <2>3. b.table[k].module = RegisteredAs(reg, k)
    BY <2>2
  <2>4. k \in Interpreters /\ RegisteredAs(reg, k) = reg[k]
    BY <2>1, <2>3 DEF RegisteredAs
  <2> QED BY <2>1, <2>2, <2>3, <2>4
<1>7. \A i \in Interpreters : reg[i] # None => i \in O
  <2> SUFFICES ASSUME NEW i \in Interpreters, reg[i] # None PROVE i \in O
    OBVIOUS
  <2>1. i < b.count /\ i \in 0 .. n - 1
    BY <1>2 DEF IndexedBy
  <2>2. b.table[i] = [id |-> i, module |-> RegisteredAs(reg, i)]
    BY <2>1, <1>2 DEF IndexedBy
  <2>3. b.table[i].module # None
    BY <2>2 DEF RegisteredAs
  <2> QED BY <2>1, <2>3, <1>2
<1> HIDE DEF O
<1>8. \A k \in Nat : k < C => Nth(O, k) \in O
  BY <1>3, NthOf
<1>9. \A j, k \in Nat : j < k /\ k < C => Nth(O, j) < Nth(O, k)
  BY <1>3, NthOrder
<1>10. \A i \in O : Rank(O, i) \in Nat /\ Rank(O, i) < C /\ Nth(O, Rank(O, i)) = i
  <2>1. \A i \in O : Rank(O, i) \in Nat /\ Rank(O, i) < C
    BY <1>3, RankBelow
  <2> QED BY <2>1, <1>3, NthOrder
<1> HIDE DEF C
<1>11. \A k \in 0 .. n - 1 : k < C => f[k] = [id |-> Nth(O, k), module |-> reg[Nth(O, k)]]
  BY <1>6, <1>8
<1>12. \A k \in 0 .. n - 1 : f[k] \in Slot /\ (k >= C => f[k].module = None)
  <2> TAKE k \in 0 .. n - 1
  <2>1. CASE k < C
    <3>1. Nth(O, k) \in O
      BY <2>1, <1>8
    <3>2. Nth(O, k) \in 0 .. n - 1
      BY <3>1, <1>3
    <3> QED BY <2>1, <3>2, <1>2, <1>4
  <2>2. CASE k >= C /\ k < b.count
    BY <2>2, <1>4 DEF Blank, Slot
  <2>3. CASE k >= C /\ k >= b.count
    <3>1. f[k] = b.table[k]
      BY <2>3, <1>2, <1>4
    <3>2. k \notin Entries(b) /\ k \in DOMAIN b.table
      BY <2>3, <1>2
    <3>4. Clean(b, k)
      BY <1>1, IndexedIsClean
    <3>3. b.table[k].id = k
      <4>1. b.table[k] = [id |-> k, module |-> RegisteredAs(reg, k)]
        BY <1>2 DEF IndexedBy
      <4> QED BY <4>1
    <3> QED BY <3>1, <3>2, <3>3, <3>4, <1>2 DEF Clean
  <2> QED BY <2>1, <2>2, <2>3, <1>2, <1>4
<1>13. f \in [0 .. n - 1 -> Slot]
  BY <1>12
<1> HIDE DEF f
<1>14. r \in TableOf(n) /\ r.table = f /\ r.count = C /\ ~r.indexed
  BY <1>4, <1>5, <1>13 DEF TableOf
<1>15. IsTable(r)
  BY <1>14, TableSize
<1>16. DOMAIN r.table = 0 .. n - 1 /\ Entries(r) = {k \in 0 .. n - 1 : k < C}
  BY <1>13, <1>14 DEF Entries
<1>17. \A i : Clean(r, i)
  BY <1>12, <1>14, <1>16, <1>4 DEF Clean
<1>18. \A k \in Entries(r) : k \in Nat /\ k < C /\ r.table[k] = [id |-> Nth(O, k), module |-> reg[Nth(O, k)]]
  BY <1>11, <1>14, <1>16
<1>19. \A k \in Entries(r) : /\ r.table[k].id = Nth(O, k)
                              /\ r.table[k].module = reg[Nth(O, k)]
  <2> TAKE k \in Entries(r)
  <2>1. r.table[k] = [id |-> Nth(O, k), module |-> reg[Nth(O, k)]]
    BY <1>18
  <2> QED BY <2>1
<1>20. SortedBy(r, reg)
  <2>1. ASSUME NEW k \in Entries(r)
        PROVE  /\ r.table[k].id \in Interpreters /\ reg[r.table[k].id] # None
               /\ r.table[k].module = reg[r.table[k].id]
    <3>1. k \in Nat /\ k < C
      BY <1>18
    <3>2. PICK o \in O : o = Nth(O, k)
      BY <3>1, <1>8
    <3>3. r.table[k].id = o /\ r.table[k].module = reg[o]
      BY <3>2, <1>19
    <3>4. o \in Interpreters /\ reg[o] # None
      BY <1>6
    <3> QED BY <3>3, <3>4
  <2>2. ASSUME NEW j \in Entries(r), NEW k \in Entries(r), j < k
        PROVE  r.table[j].id < r.table[k].id
    <3>1. j \in Nat /\ k \in Nat /\ k < C
      BY <1>18
    <3>2. r.table[j].id = Nth(O, j) /\ r.table[k].id = Nth(O, k)
      BY <1>19
    <3>3. Nth(O, j) < Nth(O, k)
      BY <2>2, <3>1, <1>9
    <3> QED BY <3>2, <3>3
  <2>3. ASSUME NEW i \in Interpreters, reg[i] # None
        PROVE  \E k \in Entries(r) : r.table[k].id = i
    <3>1. i \in O
      BY <1>7, <2>3
    <3>2. PICK k \in Nat : k = Rank(O, i) /\ k < C /\ Nth(O, k) = i
      BY <3>1, <1>10
    <3>3. k \in Entries(r)
      <4>1. k \in 0 .. n - 1 /\ k < C
        BY <3>2, <1>4
      <4> QED BY <4>1, <1>16
    <3>4. r.table[k].id = i
      BY <3>2, <3>3, <1>19
    <3> QED BY <3>3, <3>4
  <2> QED BY <2>1, <2>2, <2>3 DEF SortedBy
<1> QED BY <1>14, <1>15, <1>17, <1>20

\* The ids of a sorted table, and where the search ends.
LEMMA SortedParts ==
  ASSUME NEW n \in Nat \ {0}, NEW b \in TableOf(n), NEW reg, SortedBy(b, reg)
  PROVE  /\ \A k \in Entries(b) : k \in 0 .. n - 1 /\ k < b.count /\ b.table[k].id \in Nat
         /\ \A k \in 0 .. n - 1 : k < b.count => k \in Entries(b)
         /\ b.count \in 0 .. n
<1>1. \A k \in Entries(b) : b.table[k].id \in Interpreters
  BY DEF SortedBy
<1>2. b.count \in 0 .. n /\ Entries(b) = {k \in 0 .. n - 1 : k < b.count}
  BY TableParts
<1>3. \A k \in Entries(b) : b.table[k].id \in Nat
  BY <1>1
<1> QED BY <1>2, <1>3

LEMMA LowerBoundIs ==
  ASSUME NEW n \in Nat \ {0}, NEW b \in TableOf(n), NEW reg, SortedBy(b, reg),
         NEW i \in Nat, NEW p, p = LowerBound(b, i)
  PROVE  /\ p \in Nat /\ p <= b.count
         /\ \A k \in Entries(b) : b.table[k].id < i <=> k < p
<1>1. /\ \A k \in Entries(b) : k \in 0 .. n - 1 /\ k < b.count /\ b.table[k].id \in Nat
      /\ \A k \in 0 .. n - 1 : k < b.count => k \in Entries(b)
      /\ b.count \in 0 .. n /\ Entries(b) \in SUBSET Nat
  BY SortedParts
<1>2. \A j, k \in Entries(b) : j < k => b.table[j].id < b.table[k].id
  BY DEF SortedBy
<1> DEFINE L == {k \in Entries(b) : b.table[k].id < i}
           H == {k \in Entries(b) : ~ (b.table[k].id < i)}
<1>3. PICK q \in Nat : q <= b.count /\ L = 0 .. q - 1
  <2>1. CASE H = {}
    <3>1. \A k : k \in L <=> k \in 0 .. b.count - 1
      BY <2>1, <1>1
    <3>2. L = 0 .. b.count - 1
      BY <3>1
    <3> HIDE DEF L
    <3> QED BY <3>2, <1>1
  <2>2. CASE H # {}
    <3>1. H \in SUBSET Nat
      BY <1>1
    <3>2. PICK q \in H : \A k \in H : q <= k
      <4> HIDE DEF H
      <4> QED BY <2>2, <3>1, LeastNumber
    <3>3. \A k \in Entries(b) : k < q => k \in L
      BY <3>2, <1>1
    <3>4. \A k \in Entries(b) : k > q => k \notin L
      BY <3>2, <1>1, <1>2
    <3>5. q \notin L /\ q \in Entries(b)
      BY <3>2
    <3>6. \A k : k \in L <=> k \in 0 .. q - 1
      <4> TAKE k
      <4>1. k \in L => k \in Entries(b)
        OBVIOUS
      <4> HIDE DEF L, H
      <4>2. k \in 0 .. q - 1 => k \in Entries(b)
        BY <3>5, <1>1
      <4> QED BY <4>1, <4>2, <3>3, <3>4, <3>5, <1>1
    <3>7. L = 0 .. q - 1
      BY <3>6
    <3> HIDE DEF L, H
    <3> QED BY <3>5, <3>7, <1>1
  <2> QED BY <2>1, <2>2
<1>4. Cardinality(L) = q
  <2>1. Cardinality(0 .. q - 1) = q
    BY FS_Interval
  <2> QED BY <2>1, <1>3
<1>5. \A k \in Entries(b) : b.table[k].id < i <=> k < q
  <2> TAKE k \in Entries(b)
  <2>1. b.table[k].id < i <=> k \in L
    OBVIOUS
  <2>2. k \in L <=> k < q
    BY <1>1, <1>3
  <2> QED BY <2>1, <2>2
<1>6. p = q
  <2>1. CASE b.table[0].id # i
    BY <2>1, <1>4 DEF LowerBound
  <2>2. CASE b.table[0].id = i
    <3>1. p = 0
      BY <2>2 DEF LowerBound
    <3>2. q # 0 => 0 \in Entries(b)
      BY <1>1, <1>3
    <3>3. q # 0 => b.table[0].id < i
      BY <3>2, <1>5
    <3> QED BY <2>2, <3>1, <3>3
  <2> QED BY <2>1, <2>2
<1> QED BY <1>3, <1>5, <1>6

\* An entry is found where it is.
LEMMA FoundIs ==
  ASSUME NEW n \in Nat \ {0}, NEW b \in TableOf(n), NEW reg, SortedBy(b, reg),
         NEW i \in Nat, NEW k \in Entries(b), b.table[k].id = i
  PROVE  LowerBound(b, i) = k
<1>1. PICK p : p = LowerBound(b, i)
  OBVIOUS
<1>2. /\ p \in Nat /\ p <= b.count
      /\ \A j \in Entries(b) : b.table[j].id < i <=> j < p
  BY <1>1, LowerBoundIs
<1>3. /\ \A j \in Entries(b) : j \in 0 .. n - 1 /\ j < b.count /\ b.table[j].id \in Nat
      /\ \A j \in 0 .. n - 1 : j < b.count => j \in Entries(b)
      /\ b.count \in 0 .. n
  BY SortedParts
<1>4. p <= k /\ k \in Nat /\ k < b.count
  BY <1>2, <1>3
<1>5. p \in Entries(b)
  BY <1>2, <1>3, <1>4
<1>6. p < k => b.table[p].id < i
  BY <1>5 DEF SortedBy
<1>7. ~ (b.table[p].id < i)
  BY <1>2, <1>5
<1> QED BY <1>1, <1>4, <1>6, <1>7, <1>2

\* There is room for one more entry, and what realloc adds is nobody's entry.
LEMMA RoomyIs ==
  ASSUME NEW n \in Nat \ {0}, NEW b \in TableOf(n), ~b.indexed, NEW reg, SortedBy(b, reg),
         NEW r, r = Roomy(b)
  PROVE  \E l \in Nat \ {0} :
           /\ r \in TableOf(l) /\ ~r.indexed /\ r.count < l /\ SortedBy(r, reg)
           /\ \A j \in Nat : Clean(b, j) => Clean(r, j)
<1>1. /\ DOMAIN b.table = 0 .. n - 1 /\ b.count \in 0 .. n
      /\ Entries(b) = {k \in 0 .. n - 1 : k < b.count}
  BY TableParts
<1>2. allocated(b) = n
  BY TableSize
<1>3. CASE b.count + 1 < n
  <2>1. r = b /\ b.count < n
    BY <1>1, <1>2, <1>3 DEF Roomy
  <2> QED BY <2>1
<1>4. CASE ~ (b.count + 1 < n)
  <2> DEFINE added == [k \in Nat |-> Garbage]
  <2>1. PICK l \in Nat \ {0} : l = 2 * (b.count + 1)
    BY <1>1
  <2>2. r = Resized(b, l, added)
    BY <1>2, <1>4, <2>1 DEF Roomy
  <2>3. \A k \in Nat : added[k] \in Slot /\ added[k].id = Unset
    BY DEF Garbage, Slot
  <2> HIDE DEF added
  <2>4. n <= l /\ b.count < l
    BY <1>1, <1>4, <2>1
  <2>5. \A k \in Nat : added[k] \in Slot
    BY <2>3
  <2>6. /\ r \in TableOf(l) /\ r.indexed = b.indexed /\ r.count = b.count
        /\ \A k \in 0 .. n - 1 : r.table[k] = b.table[k]
        /\ \A k \in n .. l - 1 : r.table[k] = added[k]
    BY <2>2, <2>4, <2>5, ResizedKeeps
  <2>7. DOMAIN r.table = 0 .. l - 1 /\ Entries(r) = {k \in 0 .. l - 1 : k < r.count}
    BY <2>6, TableParts
  <2>8. \A k : k \in Entries(r) <=> k \in Entries(b)
    BY <1>1, <2>4, <2>6, <2>7
  <2>9. Entries(r) = Entries(b) /\ \A k \in Entries(b) : r.table[k] = b.table[k]
    BY <2>8, <2>6, <1>1
  <2>10. SortedBy(r, reg)
    BY <2>9 DEF SortedBy
  <2>11. ASSUME NEW j \in Nat, Clean(b, j) PROVE Clean(r, j)
    <3> SUFFICES ASSUME NEW k \in 0 .. l - 1, k \notin Entries(r), r.table[k].id = j
                 PROVE  r.table[k].module = None
      BY <2>7 DEF Clean
    <3>1. CASE k \in 0 .. n - 1
      BY <3>1, <2>6, <2>9, <2>11, <1>1 DEF Clean
    <3>2. CASE k \in n .. l - 1
      BY <3>2, <2>3, <2>6
    <3> QED BY <3>1, <3>2
  <2> QED BY <2>4, <2>6, <2>10, <2>11
<1> QED BY <1>3, <1>4

\* A new entry goes where the search ended, and pushes the others.
LEMMA InsertedIs ==
  ASSUME NEW n \in Nat \ {0}, NEW b \in TableOf(n), ~b.indexed, b.count < n,
         NEW reg \in Registries, SortedBy(b, reg),
         NEW i \in Interpreters, reg[i] = None, NEW m \in Modules,
         NEW r, r = Inserted(b, i, m), NEW reg2, reg2 = [reg EXCEPT ![i] = m]
  PROVE  /\ r \in TableOf(n) /\ ~r.indexed /\ SortedBy(r, reg2)
         /\ \A j \in Nat : Clean(b, j) => Clean(r, j)
<1>1. /\ DOMAIN b.table = 0 .. n - 1 /\ b.count \in 0 .. n
      /\ Entries(b) = {k \in 0 .. n - 1 : k < b.count}
      /\ \A k \in 0 .. n - 1 : b.table[k] \in Slot
  BY TableParts
<1>2. PICK p : p = LowerBound(b, i)
  OBVIOUS
<1>3. i \in Nat
  OBVIOUS
<1>4. /\ p \in Nat /\ p <= b.count
      /\ \A k \in Entries(b) : b.table[k].id < i <=> k < p
  BY <1>2, <1>3, LowerBoundIs
<1> DEFINE f == [k \in 0 .. n - 1 |-> IF k < p \/ k > b.count THEN b.table[k]
                                      ELSE IF k = p THEN [id |-> i, module |-> m]
                                      ELSE b.table[k - 1]]
<1>5. r = [b EXCEPT !.count = b.count + 1, !.table = f]
  BY <1>1, <1>2 DEF Inserted, TableOf
<1>6. /\ \A k \in 0 .. n - 1 : k < p \/ k > b.count => f[k] = b.table[k]
      /\ f[p] = [id |-> i, module |-> m]
      /\ \A k \in 0 .. n - 1 : k > p /\ k <= b.count => f[k] = b.table[k - 1] /\ k - 1 \in Entries(b)
  BY <1>1, <1>4
<1>7. f \in [0 .. n - 1 -> Slot]
  <2>1. [id |-> i, module |-> m] \in Slot
    BY DEF Slot
  <2>2. ASSUME NEW k \in 0 .. n - 1 PROVE f[k] \in Slot
    <3>1. CASE k < p \/ k > b.count
      BY <3>1, <1>1, <1>6
    <3>2. CASE k = p
      BY <3>2, <1>6, <2>1
    <3>3. CASE k > p /\ k <= b.count
      BY <3>3, <1>1, <1>6
    <3> QED BY <3>1, <3>2, <3>3, <1>1, <1>4
  <2> QED BY <2>2
<1> HIDE DEF f
<1>8. r \in TableOf(n) /\ r.table = f /\ r.count = b.count + 1 /\ ~r.indexed
  <2>1. PICK c \in 0 .. n : c = b.count + 1
    BY <1>1
  <2>2. r = [b EXCEPT !.count = c, !.table = f]
    BY <1>5, <2>1
  <2>3. r.table = f /\ r.count = c /\ r.indexed = b.indexed
    BY <2>2 DEF TableOf
  <2>4. r \in TableOf(n)
    BY <2>2, <1>7 DEF TableOf
  <2> QED BY <2>1, <2>3, <2>4
<1>9. DOMAIN r.table = 0 .. n - 1 /\ Entries(r) = {k \in 0 .. n - 1 : k < b.count + 1}
  BY <1>8, TableParts
\* Where an entry of the new table was in the old one.
<1> DEFINE from(k) == IF k < p THEN k ELSE k - 1
<1>10. ASSUME NEW k \in Entries(r), k # p
       PROVE  /\ from(k) \in Entries(b) /\ f[k] = b.table[from(k)]
              /\ from(k) < p <=> k < p
  <2>1. k \in 0 .. n - 1 /\ k <= b.count
    BY <1>1, <1>9
  <2>2. CASE k < p
    BY <2>1, <2>2, <1>1, <1>4, <1>6
  <2>3. CASE k > p
    BY <2>1, <2>3, <1>1, <1>4, <1>6
  <2> QED BY <1>10, <2>1, <2>2, <2>3, <1>4
<1>11. /\ p \in Entries(r) /\ f[p].id = i /\ f[p].module = m
  <2>1. p \in 0 .. n - 1 /\ p < b.count + 1
    BY <1>1, <1>4
  <2> QED BY <2>1, <1>6, <1>9
<1>12. reg2[i] = m /\ m # None /\ \A j \in Interpreters : j # i => reg2[j] = reg[j]
  BY DEF Registries
<1>13. \A k \in Entries(b) : /\ b.table[k].id \in Interpreters /\ b.table[k].id # i
                             /\ reg[b.table[k].id] # None
                             /\ b.table[k].module = reg[b.table[k].id]
  BY DEF SortedBy
<1>14. SortedBy(r, reg2)
  <2>1. ASSUME NEW k \in Entries(r)
        PROVE  /\ f[k].id \in Interpreters /\ reg2[f[k].id] # None
               /\ f[k].module = reg2[f[k].id]
    <3>1. CASE k = p
      BY <3>1, <1>11, <1>12
    <3>2. CASE k # p
      <4>1. from(k) \in Entries(b) /\ f[k] = b.table[from(k)]
        BY <3>2, <1>10
      <4> HIDE DEF from
      <4> QED BY <4>1, <1>12, <1>13
    <3> QED BY <3>1, <3>2
  <2>2. ASSUME NEW j \in Entries(r), NEW k \in Entries(r), j < k
        PROVE  f[j].id < f[k].id
    <3>0. j \in Nat /\ k \in Nat /\ \A o \in Entries(b) : b.table[o].id \in Nat
      <4>1. j \in Nat /\ k \in Nat
        BY <1>9
      <4>2. \A o \in Entries(b) : b.table[o].id \in Nat
        <5> TAKE o \in Entries(b)
        <5>1. b.table[o].id \in Interpreters
          BY <1>13
        <5> QED BY <5>1
      <4> QED BY <4>1, <4>2
    <3>1. CASE j # p /\ k # p
      <4>1. /\ from(j) \in Entries(b) /\ f[j] = b.table[from(j)]
            /\ from(k) \in Entries(b) /\ f[k] = b.table[from(k)]
        BY <3>1, <1>10
      <4>2. from(j) < from(k)
        BY <2>2, <3>0, <3>1, <1>4
      <4> HIDE DEF from
      <4> QED BY <4>1, <4>2 DEF SortedBy
    <3>2. CASE j = p /\ k # p
      <4>1. PICK o \in Entries(b) : f[k] = b.table[o] /\ (o < p <=> k < p)
        <5> HIDE DEF from
        <5> QED BY <3>2, <1>10
      <4>2. ~ (k < p)
        BY <2>2, <3>2, <3>0, <1>4
      <4>3. ~ (b.table[o].id < i) /\ b.table[o].id # i /\ b.table[o].id \in Nat
        BY <4>1, <4>2, <3>0, <1>4, <1>13
      <4>4. i < b.table[o].id
        BY <4>3, <1>3
      <4> QED BY <3>2, <4>1, <4>4, <1>11
    <3>3. CASE k = p /\ j # p
      <4>1. from(j) \in Entries(b) /\ f[j] = b.table[from(j)] /\ (from(j) < p <=> j < p)
        BY <3>3, <1>10
      <4> HIDE DEF from
      <4>2. b.table[from(j)].id < i
        BY <4>1, <2>2, <3>3, <1>4
      <4> QED BY <3>3, <4>1, <4>2, <1>11
    <3> QED BY <2>2, <3>0, <3>1, <3>2, <3>3
  <2>3. ASSUME NEW j \in Interpreters, reg2[j] # None
        PROVE  \E k \in Entries(r) : f[k].id = j
    <3>1. CASE j = i
      BY <3>1, <1>11
    <3>2. CASE j # i
      <4>1. PICK k \in Entries(b) : b.table[k].id = j
        BY <2>3, <3>2, <1>12 DEF SortedBy
      <4>2. k \in 0 .. n - 1 /\ k < b.count
        BY <1>1
      <4>3. CASE k < p
        <5>1. k \in Entries(r) /\ f[k] = b.table[k]
          BY <4>2, <4>3, <1>1, <1>6, <1>9
        <5> QED BY <4>1, <5>1
      <4>4. CASE ~ (k < p)
        <5>1. k + 1 \in 0 .. n - 1 /\ k + 1 > p /\ k + 1 <= b.count /\ (k + 1) - 1 = k
          BY <4>2, <4>4, <1>1, <1>4
        <5>2. k + 1 \in Entries(r)
          BY <5>1, <1>1, <1>9
        <5>3. f[k + 1] = b.table[k]
          BY <5>1, <1>6
        <5> QED BY <4>1, <5>2, <5>3
      <4> QED BY <4>3, <4>4
    <3> QED BY <3>1, <3>2
  <2> QED BY <2>1, <2>2, <2>3, <1>8 DEF SortedBy
<1>15. ASSUME NEW j \in Nat, Clean(b, j) PROVE Clean(r, j)
  <2> SUFFICES ASSUME NEW k \in 0 .. n - 1, k \notin Entries(r), f[k].id = j
               PROVE  f[k].module = None
    BY <1>8, <1>9 DEF Clean
  <2>1. k > b.count /\ k \notin Entries(b)
    BY <1>1, <1>9
  <2> QED BY <2>1, <1>1, <1>6, <1>15 DEF Clean
<1> QED BY <1>8, <1>14, <1>15

\* Removal closes the gap, and what it leaves behind the last entry belongs to
\* the interpreter that had the last entry.
LEMMA SortedRemove ==
  ASSUME NEW b, IsTable(b), ~b.indexed, NEW reg \in Registries, SortedBy(b, reg),
         NEW i \in Interpreters, reg[i] # None,
         NEW r, r = Removed(b, i), NEW reg2, reg2 = Recorded(reg, i, None)
  PROVE  /\ IsTable(r) /\ ~r.indexed /\ SortedBy(r, reg2)
         /\ \A j \in Interpreters : reg[j] = None /\ Clean(b, j) => Clean(r, j)
         /\ r.count = 0 => \A j \in Interpreters : reg2[j] = None
<1>0. PICK n \in Nat \ {0} : b \in TableOf(n)
  BY TableIs
<1>1. /\ DOMAIN b.table = 0 .. n - 1 /\ b.count \in 0 .. n
      /\ Entries(b) = {k \in 0 .. n - 1 : k < b.count}
      /\ \A k \in 0 .. n - 1 : b.table[k] \in Slot
  BY <1>0, TableParts
<1>2. PICK p \in Entries(b) : b.table[p].id = i
  BY DEF SortedBy
<1>3. i \in Nat /\ p \in 0 .. n - 1 /\ p < b.count
  BY <1>1, <1>2
<1>4. LowerBound(b, i) = p
  BY <1>0, <1>2, <1>3, FoundIs
<1> DEFINE f == [k \in 0 .. n - 1 |-> IF p <= k /\ k < b.count - 1 THEN b.table[k + 1]
                                      ELSE b.table[k]]
<1>5. r = [b EXCEPT !.count = b.count - 1, !.table = f]
  <2>1. r = WithoutEntry(b, i)
    BY <1>2, <1>4 DEF Removed
  <2> QED BY <2>1, <1>0, <1>1, <1>4 DEF WithoutEntry, TableOf
<1>6. /\ \A k \in 0 .. n - 1 : k < p \/ k >= b.count - 1 => f[k] = b.table[k]
      /\ \A k \in 0 .. n - 1 : p <= k /\ k < b.count - 1 =>
            f[k] = b.table[k + 1] /\ k + 1 \in Entries(b)
  BY <1>1, <1>3
<1>7. f \in [0 .. n - 1 -> Slot]
  <2>1. ASSUME NEW k \in 0 .. n - 1 PROVE f[k] \in Slot
    <3>1. CASE k < p \/ k >= b.count - 1
      BY <3>1, <1>1, <1>6
    <3>2. CASE p <= k /\ k < b.count - 1
      BY <3>2, <1>1, <1>6
    <3> QED BY <3>1, <3>2, <1>1, <1>3
  <2> QED BY <2>1
<1> HIDE DEF f
<1>8. r \in TableOf(n) /\ r.table = f /\ r.count = b.count - 1 /\ ~r.indexed
  <2>1. PICK c \in 0 .. n : c = b.count - 1
    BY <1>1, <1>3
  <2>2. r = [b EXCEPT !.count = c, !.table = f]
    BY <1>5, <2>1
  <2>3. r.table = f /\ r.count = c /\ r.indexed = b.indexed
    BY <2>2, <1>0 DEF TableOf
  <2>4. r \in TableOf(n)
    BY <2>2, <1>0, <1>7 DEF TableOf
  <2> QED BY <2>1, <2>3, <2>4
<1>9. DOMAIN r.table = 0 .. n - 1 /\ Entries(r) = {k \in 0 .. n - 1 : k < b.count - 1}
  BY <1>8, TableParts
\* Where an entry of the new table was in the old one.
<1> DEFINE from(k) == IF k < p THEN k ELSE k + 1
<1>10. ASSUME NEW k \in Entries(r)
       PROVE  from(k) \in Entries(b) /\ f[k] = b.table[from(k)] /\ from(k) # p
  <2>1. k \in 0 .. n - 1 /\ k < b.count - 1
    BY <1>9
  <2>2. CASE k < p
    BY <2>1, <2>2, <1>1, <1>3, <1>6
  <2>3. CASE p <= k
    BY <2>1, <2>3, <1>1, <1>3, <1>6
  <2> QED BY <2>1, <2>2, <2>3, <1>3
<1>11. reg2[i] = None /\ \A j \in Interpreters : j # i => reg2[j] = reg[j]
  BY DEF Registries, Recorded
<1>12. \A k \in Entries(b) : /\ b.table[k].id \in Interpreters
                             /\ reg[b.table[k].id] # None
                             /\ b.table[k].module = reg[b.table[k].id]
  BY DEF SortedBy
<1>13. \A j, k \in Entries(b) : j < k => b.table[j].id < b.table[k].id
  BY DEF SortedBy
<1>14. \A k \in Entries(b) : k # p => b.table[k].id # i
  <2> TAKE k \in Entries(b)
  <2>0. k \in Nat /\ p \in Nat
    BY <1>1
  <2>1. CASE k < p
    <3>1. b.table[k].id < i
      BY <2>1, <1>13, <1>2
    <3> QED BY <3>1, <1>3
  <2>2. CASE p < k
    <3>1. i < b.table[k].id
      BY <2>2, <1>13, <1>2
    <3> QED BY <3>1, <1>3
  <2> QED BY <2>0, <2>1, <2>2
<1>15. SortedBy(r, reg2)
  <2>1. ASSUME NEW k \in Entries(r)
        PROVE  /\ f[k].id \in Interpreters /\ reg2[f[k].id] # None
               /\ f[k].module = reg2[f[k].id]
    <3>1. PICK o \in Entries(b) : f[k] = b.table[o] /\ o # p
      <4> HIDE DEF from
      <4> QED BY <1>10
    <3> QED BY <3>1, <1>11, <1>12, <1>14
  <2>2. ASSUME NEW j \in Entries(r), NEW k \in Entries(r), j < k
        PROVE  f[j].id < f[k].id
    <3>1. from(j) < from(k)
      <4>1. j \in Nat /\ k \in Nat /\ p \in Nat
        BY <1>9, <1>1
      <4> QED BY <4>1, <2>2
    <3>2. /\ from(j) \in Entries(b) /\ f[j] = b.table[from(j)]
          /\ from(k) \in Entries(b) /\ f[k] = b.table[from(k)]
      BY <1>10
    <3> HIDE DEF from
    <3> QED BY <3>1, <3>2, <1>13
  <2>3. ASSUME NEW j \in Interpreters, reg2[j] # None
        PROVE  \E k \in Entries(r) : f[k].id = j
    <3>1. j # i /\ reg[j] # None
      BY <2>3, <1>11
    <3>2. PICK k \in Entries(b) : b.table[k].id = j
      BY <3>1 DEF SortedBy
    <3>3. k \in 0 .. n - 1 /\ k < b.count /\ k # p
      BY <1>1, <1>2, <3>1, <3>2
    <3>4. CASE k < p
      <4>1. k \in Entries(r) /\ f[k] = b.table[k]
        BY <3>3, <3>4, <1>1, <1>3, <1>6, <1>9
      <4> QED BY <3>2, <4>1
    <3>5. CASE k > p
      <4>1. k - 1 \in 0 .. n - 1 /\ p <= k - 1 /\ k - 1 < b.count - 1 /\ (k - 1) + 1 = k
        BY <3>3, <3>5, <1>1, <1>3
      <4>2. k - 1 \in Entries(r)
        BY <4>1, <1>9
      <4>3. f[k - 1] = b.table[k]
        BY <4>1, <1>6
      <4> QED BY <3>2, <4>2, <4>3
    <3>6. k < p \/ k > p
      BY <3>3, <1>3
    <3> QED BY <3>4, <3>5, <3>6
  <2> HIDE DEF from
  <2>4. r.table = f
    BY <1>8
  <2>5. \A k \in Entries(r) : /\ r.table[k].id \in Interpreters
                              /\ reg2[r.table[k].id] # None
                              /\ r.table[k].module = reg2[r.table[k].id]
    BY <2>1, <2>4
  <2>6. \A j, k \in Entries(r) : j < k => r.table[j].id < r.table[k].id
    BY <2>2, <2>4
  <2>7. \A j \in Interpreters : reg2[j] # None => \E k \in Entries(r) : r.table[k].id = j
    BY <2>3, <2>4
  <2> QED BY <2>5, <2>6, <2>7 DEF SortedBy
<1>16. ASSUME NEW j \in Interpreters, reg[j] = None, Clean(b, j) PROVE Clean(r, j)
  <2> SUFFICES ASSUME NEW k \in 0 .. n - 1, k \notin Entries(r), f[k].id = j
               PROVE  f[k].module = None
    BY <1>8, <1>9 DEF Clean
  <2>1. k >= b.count - 1 /\ f[k] = b.table[k]
    BY <1>1, <1>6, <1>9
  <2>2. k \notin Entries(b)
    BY <2>1, <1>12, <1>16
  <2> QED BY <2>1, <2>2, <1>1, <1>16 DEF Clean
<1>17. r.count = 0 => \A j \in Interpreters : reg2[j] = None
  <2>1. r.count = 0 => Entries(r) = {}
    <3>1. \A k \in 0 .. n - 1 : ~ (k < 0)
      OBVIOUS
    <3> QED BY <3>1, <1>8, <1>9
  <2> QED BY <2>1, <1>15 DEF SortedBy
<1>18. IsTable(r)
  BY <1>8, TableSize
<1> QED BY <1>8, <1>15, <1>16, <1>17, <1>18

-----------------------------------------------------------------------------
(* AddModule, RemoveModule and FindModule on a table of either layout.      *)

LEMMA PreparedIs ==
  ASSUME NEW b, IsTable(b), NEW reg \in Registries, IsRegistry(b, reg), NEW i,
         NEW r, r = Prepared(b, i)
  PROVE  /\ IsTable(r) /\ IsRegistry(r, reg)
         /\ \A j \in Nat : Clean(b, j) => Clean(r, j)
<1>1. CASE b.indexed /\ i >= SmallSize
  <2>1. r = Converted(b) /\ IndexedBy(b, reg)
    BY <1>1 DEF Prepared, IsRegistry
  <2>2. IsTable(r) /\ ~r.indexed /\ SortedBy(r, reg) /\ \A j : Clean(r, j)
    BY <1>1, <2>1, ConvertedIs
  <2> QED BY <2>2 DEF IsRegistry
<1>2. CASE ~ (b.indexed /\ i >= SmallSize)
  BY <1>2 DEF Prepared
<1> QED BY <1>1, <1>2

LEMMA StoredIs ==
  ASSUME NEW b, IsTable(b), NEW reg \in Registries, IsRegistry(b, reg),
         NEW i \in Interpreters, reg[i] = None, NEW m \in Modules,
         NEW r, r = Stored(b, i, m), NEW reg2, reg2 = [reg EXCEPT ![i] = m]
  PROVE  /\ IsTable(r) /\ IsRegistry(r, reg2)
         /\ \A j \in Nat : Clean(b, j) => Clean(r, j)
<1>1. CASE b.indexed
  <2>1. r = SetIndexed(Doubled(b, i), i, m) /\ IndexedBy(b, reg)
    BY <1>1 DEF Stored, IsRegistry
  <2>2. IsTable(r) /\ r.indexed /\ IndexedBy(r, reg2)
    BY <1>1, <2>1, IndexedAdd
  <2>3. PICK n \in Nat \ {0} : r \in TableOf(n)
    BY <2>2, TableIs
  <2>4. \A j : Clean(r, j)
    BY <2>2, <2>3, IndexedIsClean
  <2> QED BY <2>2, <2>4 DEF IsRegistry
<1>2. CASE ~b.indexed
  <2>1. PICK n \in Nat \ {0} : b \in TableOf(n)
    BY TableIs
  <2>2. SortedBy(b, reg)
    BY <1>2 DEF IsRegistry
  <2>3. {k \in Entries(b) : b.table[k].id = i} = {}
    BY <2>2 DEF SortedBy
  <2>4. r = Inserted(Roomy(b), i, m)
    BY <1>2, <2>3 DEF Stored
  <2>5. PICK c : c = Roomy(b)
    OBVIOUS
  <2>6. PICK l \in Nat \ {0} :
           /\ c \in TableOf(l) /\ ~c.indexed /\ c.count < l /\ SortedBy(c, reg)
           /\ \A j \in Nat : Clean(b, j) => Clean(c, j)
    BY <1>2, <2>1, <2>2, <2>5, RoomyIs
  <2>7. r = Inserted(c, i, m)
    BY <2>4, <2>5
  <2>8. /\ r \in TableOf(l) /\ ~r.indexed /\ SortedBy(r, reg2)
        /\ \A j \in Nat : Clean(c, j) => Clean(r, j)
    <3>1. /\ c \in TableOf(l) /\ ~c.indexed /\ c.count < l /\ SortedBy(c, reg)
          /\ r = Inserted(c, i, m) /\ reg[i] = None /\ reg2 = [reg EXCEPT ![i] = m]
      BY <2>6, <2>7
    <3> QED BY <3>1, InsertedIs
  <2>9. IsTable(r)
    BY <2>8, TableSize
  <2> QED BY <2>6, <2>8, <2>9 DEF IsRegistry
<1> QED BY <1>1, <1>2

LEMMA RemovedIs ==
  ASSUME NEW b, IsTable(b), NEW reg \in Registries, IsRegistry(b, reg),
         NEW i \in Interpreters, reg[i] # None,
         NEW r, r = Removed(b, i), NEW reg2, reg2 = Recorded(reg, i, None)
  PROVE  /\ IsTable(r) /\ IsRegistry(r, reg2) /\ r.indexed = b.indexed
         /\ b.indexed => r.count = b.count
         /\ \A j \in Interpreters : reg[j] = None /\ Clean(b, j) => Clean(r, j)
         /\ ~r.indexed /\ r.count = 0 => \A j \in Interpreters : reg2[j] = None
<1>0. b.indexed \in BOOLEAN
  BY DEF IsTable, TableOf
<1>1. CASE b.indexed
  <2>1. b.indexed /\ IndexedBy(b, reg) /\ r = Removed(b, i)
        /\ reg2 = Recorded(reg, i, None) /\ reg[i] # None
    BY <1>1 DEF IsRegistry
  <2>2. IsTable(r) /\ r.indexed /\ r.count = b.count /\ IndexedBy(r, reg2)
    BY <2>1, IndexedRemove
  <2>3. PICK n \in Nat \ {0} : r \in TableOf(n)
    BY <2>2, TableIs
  <2>4. \A j : Clean(r, j)
    BY <2>2, <2>3, IndexedIsClean
  <2>5. r.indexed = b.indexed
    BY <2>3, <2>2, <1>1, <1>0 DEF TableOf
  <2> QED BY <2>2, <2>4, <2>5 DEF IsRegistry
<1>2. CASE ~b.indexed
  <2>1. ~b.indexed /\ SortedBy(b, reg) /\ r = Removed(b, i)
        /\ reg2 = Recorded(reg, i, None) /\ reg[i] # None
    BY <1>2 DEF IsRegistry
  <2>2. /\ IsTable(r) /\ ~r.indexed /\ SortedBy(r, reg2)
        /\ \A j \in Interpreters : reg[j] = None /\ Clean(b, j) => Clean(r, j)
        /\ r.count = 0 => \A j \in Interpreters : reg2[j] = None
    BY <2>1, SortedRemove
  <2>3. r.indexed \in BOOLEAN
    BY <2>2 DEF IsTable, TableOf
  <2>4. r.indexed = b.indexed
    BY <2>2, <2>3, <1>2, <1>0
  <2> QED BY <2>2, <2>4, <1>2 DEF IsRegistry
<1> QED BY <1>1, <1>2

LEMMA PositionIs ==
  ASSUME NEW b, IsTable(b), NEW i \in Nat
  PROVE  Position(b, i) \in Nat \cup {None}
<1>1. PICK n \in Nat \ {0} : b \in TableOf(n)
  BY TableIs
<1>2. n - 1 \in Nat /\ Entries(b) \in SUBSET (0 .. n - 1)
  BY <1>1, TableParts
<1> DEFINE L == {k \in Entries(b) : b.table[k].id < i}
<1>3. L \in SUBSET (0 .. n - 1)
  BY <1>2
<1>4. Cardinality(L) \in Nat
  <2> HIDE DEF L
  <2> QED BY <1>2, <1>3, FiniteNumbers
<1>5. LowerBound(b, i) \in Nat
  BY <1>4 DEF LowerBound
<1> QED BY <1>5 DEF Position

\* FindModule on a table that is the registry finds what is registered.
LEMMA OutcomesAre ==
  ASSUME NEW b, IsTable(b), NEW reg \in Registries, IsRegistry(b, reg),
         NEW i \in Interpreters
  PROVE  /\ reg[i] # None => Outcomes(b, Position(b, i), i) = {reg[i]}
         /\ Lanes = {} /\ reg[i] = None /\ Clean(b, i) =>
              Outcomes(b, Position(b, i), i) = {None}
<1>1. PICK n \in Nat \ {0} : b \in TableOf(n)
  BY TableIs
<1>2. /\ DOMAIN b.table = 0 .. n - 1 /\ b.count \in 0 .. n /\ i \in Nat
      /\ Entries(b) = {k \in 0 .. n - 1 : k < b.count}
      /\ \A k \in 0 .. n - 1 : b.table[k] \in Slot
  BY <1>1, TableParts
<1>3. CASE b.indexed
  <2>1. /\ \A k \in 0 .. n - 1 : b.table[k] = [id |-> k, module |-> RegisteredAs(reg, k)]
        /\ reg[i] # None => i < b.count
    BY <1>2, <1>3 DEF IsRegistry, IndexedBy
  <2>2. CASE i < b.count
    <3>1. Position(b, i) = i /\ i \in 0 .. n - 1 /\ i # None /\ i # Unset
      BY <1>2, <1>3, <2>2 DEF Position
    <3>2. b.table[i] = [id |-> i, module |-> RegisteredAs(reg, i)]
      BY <2>1, <3>1
    <3>3. b.table[i].id = i /\ b.table[i].module = reg[i]
      BY <3>2 DEF RegisteredAs
    <3> QED BY <1>2, <3>1, <3>3 DEF Outcomes
  <2>3. CASE ~ (i < b.count)
    <3>1. Position(b, i) = None /\ reg[i] = None
      BY <1>3, <2>1, <2>3 DEF Position
    <3>2. Outcomes(b, None, i) = {None}
      BY DEF Outcomes
    <3> QED BY <3>1, <3>2
  <2> QED BY <2>2, <2>3
<1>4. CASE ~b.indexed
  <2>1. SortedBy(b, reg)
    BY <1>4 DEF IsRegistry
  <2>2. PICK p : p = LowerBound(b, i)
    OBVIOUS
  <2>3. Position(b, i) = p
    BY <1>4, <2>2 DEF Position
  <2>4. p \in Nat /\ p <= b.count
    BY <1>1, <1>2, <2>1, <2>2, LowerBoundIs
  <2>5. p # None /\ i # Unset
    BY <1>2, <2>4
  <2>6. CASE reg[i] # None
    <3>1. PICK k \in Entries(b) : b.table[k].id = i
      BY <2>1, <2>6 DEF SortedBy
    <3>2. p = k /\ p \in DOMAIN b.table /\ b.table[p].id = i
      BY <1>1, <1>2, <2>1, <2>2, <3>1, FoundIs
    <3>3. b.table[p].module = reg[i]
      BY <2>1, <3>1, <3>2 DEF SortedBy
    <3>4. Outcomes(b, p, i) = {reg[i]}
      BY <2>5, <3>2, <3>3 DEF Outcomes
    <3> QED BY <2>3, <2>6, <3>4
  <2>7. CASE reg[i] = None
    <3> SUFFICES ASSUME Lanes = {}, Clean(b, i) PROVE Outcomes(b, p, i) = {None}
      BY <2>3, <2>7
    <3>1. CASE p \notin DOMAIN b.table
      <4>1. Garbage.id = Unset
        BY DEF Garbage
      <4> QED BY <3>1, <4>1, <2>5 DEF Outcomes
    <3>2. CASE p \in DOMAIN b.table /\ b.table[p].id = Unset
      BY <3>2, <2>5 DEF Outcomes
    <3>3. CASE p \in DOMAIN b.table /\ b.table[p].id = i
      <4>1. p \notin Entries(b)
        BY <2>1, <2>7, <3>3 DEF SortedBy
      <4>2. b.table[p].module = None
        BY <4>1, <3>3 DEF Clean
      <4> QED BY <3>3, <4>2, <2>5 DEF Outcomes
    <3>4. CASE p \in DOMAIN b.table /\ b.table[p].id # i /\ b.table[p].id # Unset
      BY <3>4, <2>5 DEF Outcomes
    <3> QED BY <3>1, <3>2, <3>3, <3>4
  <2> QED BY <2>6, <2>7
<1> QED BY <1>3, <1>4

-----------------------------------------------------------------------------
(* The invariant.                                                          *)

Looking == Reading \cup {"loaded", "counted", "undo", "blocked"}
Alive   == {"running", "ready", "failed"}
Calls   == [op : {"none", "use", "import", "remove"}, at : Labels,
            data : Addresses \cup {None}, found : Nat \cup {None}, fresh : BOOLEAN]
Imports == [phase : Phases, by : Threads \cup {None}, made : 0 .. MaxModules]

Typed ==
  /\ published \in Addresses \cup {None}
  /\ DOMAIN heap \subseteq Addresses
  /\ \A a \in DOMAIN heap : IsTable(heap[a])
  /\ call \in [Threads -> Calls]
  /\ imports \in [Interpreters -> Imports]
  /\ registered \in Registries

\* The table that is published, or that the writer has in its hands, is the
\* registry; without a table nobody is registered.
Nobody  == \A i \in Interpreters : registered[i] = None
Current == IF lock = None THEN published ELSE call[lock].data
Matching ==
  IF Current = None THEN Nobody
  ELSE Current \in DOMAIN heap /\ IsRegistry(heap[Current], registered)

\* A module that can be used is registered.
Living == \A i \in Interpreters : imports[i].phase \in Alive => registered[i] # None

\* What a thread that is in a call has announced, and what it may rely on.
Duty(t) ==
  LET op == call[t].op  at == call[t].at  i == Home[t]
  IN  /\ at = "idle" => call[t] = Idle
      /\ op = "none" <=> at = "idle"
      /\ op \in {"import", "remove"} => imports[i].by = t
      /\ op = "use" => at \in Looking /\ imports[i].phase \in Alive
      /\ op = "import" /\ at \in Looking =>
           /\ imports[i].phase \in {"absent", "ready", "failed"}
           /\ imports[i].phase = "absent" => imports[i].made < MaxModules
      /\ op = "import" /\ at \notin Looking =>
           /\ imports[i].phase = "creating" /\ imports[i].made > 0
           /\ registered[i] = None <=> at # "publishing"
      /\ op = "remove" =>
           /\ imports[i].phase = "clearing" /\ at \notin Looking \cup {"failing"}
           /\ at # "publishing" => registered[i] # None
      /\ call[t].fresh => at \in Writing
      /\ call[t].fresh /\ at \in {"waiting", "changing"} => Nobody

\* What a reader found, and why a table it could not find has no entry of its own.
NothingToRead ==
  \/ lock = None /\ published = None
  \/ lock # None /\ \/ call[lock].at = "taken"
                    \/ call[lock].at = "waiting" /\ call[lock].fresh
                    \/ call[lock].at = "failing" /\ call[lock].data = None
Sees(t) ==
  /\ call[t].at = "located" /\ call[t].data # None =>
       call[t].found = Position(heap[call[t].data], Home[t])
  /\ call[t].at \in Reading /\ call[t].data = None => NothingToRead
  /\ Lanes = {} /\ call[t].op = "import" /\ call[t].at \in Looking
     /\ registered[Home[t]] = None =>
       \A a \in DOMAIN heap : Clean(heap[a], Home[t])

TableInv == /\ Typed /\ Matching /\ Living
            /\ \A t \in Threads : Duty(t) /\ Sees(t)

\* The imports record of an interpreter is changed by the thread it belongs to,
\* and no use of the module loses it.
Proper(t) ==
  /\ imports' \in [Interpreters -> Imports]
  /\ \A i \in Interpreters \ {Home[t]} : imports'[i] = imports[i]
  /\ \/ imports' = imports
     \/ /\ imports[Home[t]].by \in {t, None}
        /\ \/ imports[Home[t]].phase \in Alive => imports'[Home[t]].phase \in Alive
           \/ \A u \in Threads \ {t} : Home[u] = Home[t] => call[u].at = "idle"

\* The others do not notice.
LEMMA OthersDuty ==
  ASSUME TableInv, NEW t \in Threads, NEW u \in Threads, u # t, call'[u] = call[u],
         Proper(t),
         \A i \in Interpreters \ {Home[t]} : registered'[i] = registered[i],
         registered' = registered \/ imports[Home[t]].by = t,
         call[u].at \notin {"waiting", "changing"} \/ registered' = registered
  PROVE  Duty(u)'
<1>0. Home[t] \in Interpreters /\ Home[u] \in Interpreters /\ t # None
  BY HomeAssumption
<1>1. Duty(u)
  BY DEF TableInv
<1>2. CASE Home[u] # Home[t]
  <2>1. imports'[Home[u]] = imports[Home[u]] /\ registered'[Home[u]] = registered[Home[u]]
    BY <1>0, <1>2 DEF Proper
  <2> QED BY <1>1, <2>1 DEF Duty, Nobody
<1>3. CASE Home[u] = Home[t] /\ imports' = imports
  <2>1. CASE registered' = registered
    BY <1>1, <1>3, <2>1 DEF Duty, Nobody
  <2>2. CASE imports[Home[t]].by = t
    <3>1. call[u].op \notin {"import", "remove"}
      BY <1>1, <1>3, <2>2 DEF Duty
    <3> QED BY <1>1, <1>3, <3>1 DEF Duty, Nobody
  <2> QED BY <2>1, <2>2
<1>4. CASE Home[u] = Home[t] /\ imports' # imports
  <2>1. imports[Home[t]].by \in {t, None} /\ u # None
    BY <1>4 DEF Proper
  <2>2. call[u].op \notin {"import", "remove"}
    BY <1>1, <1>4, <2>1 DEF Duty
  <2>3. call[u].op = "use" => imports'[Home[t]].phase \in Alive
    <3>1. call[u].at = "idle" => call[u].op = "none"
      BY <1>1 DEF Duty
    <3>2. call[u].op = "use" => imports[Home[t]].phase \in Alive
      BY <1>1, <1>4 DEF Duty
    <3> QED BY <1>4, <3>1, <3>2 DEF Proper
  <2> QED BY <1>1, <1>4, <2>2, <2>3 DEF Duty, Nobody
<1> QED BY <1>2, <1>3, <1>4

\* A step of FindModule or of the program.
LEMMA LookingStep ==
  ASSUME IInv, TableInv, NEW t \in Threads,
         UNCHANGED <<published, lock, heap, registered>>,
         call' \in [Threads -> Calls], \A u \in Threads \ {t} : call'[u] = call[u],
         call[t].at \notin Writing, Proper(t),
         imports'[Home[t]].phase \in Alive => registered[Home[t]] # None,
         Duty(t)', Sees(t)'
  PROVE  TableInv'
<1>1. lock # None => lock \in Threads \ {t}
  BY DEF IInv, Exclusion
<1>2. Typed'
  BY DEF TableInv, Typed, Proper
<1>3. Current' = Current
  BY <1>1 DEF Current
<1>4. Matching'
  BY <1>3 DEF TableInv, Matching, Nobody
<1>5. Living'
  BY HomeAssumption DEF TableInv, Living, Proper
<1>6. NothingToRead' <=> NothingToRead
  BY <1>1 DEF NothingToRead
<1>7. ASSUME NEW u \in Threads \ {t} PROVE Duty(u)' /\ Sees(u)'
  <2>1. Duty(u)'
    BY OthersDuty
  <2>2. Sees(u)
    BY DEF TableInv
  <2>3. Sees(u)'
    BY <1>6, <2>2 DEF Sees
  <2> QED BY <2>1, <2>3
<1> QED BY <1>2, <1>4, <1>5, <1>7 DEF TableInv

\* A step of the writer that keeps the lock.
LEMMA WritingStep ==
  ASSUME IInv, TableInv, NEW t \in Threads, lock = t,
         UNCHANGED <<published, lock, imports>>,
         registered' \in Registries,
         \A i \in Interpreters \ {Home[t]} : registered'[i] = registered[i],
         call' \in [Threads -> Calls], \A u \in Threads \ {t} : call'[u] = call[u],
         call'[t].at \in Writing,
         DOMAIN heap' \subseteq Addresses,
         \A a \in DOMAIN heap' :
           /\ IsTable(heap'[a])
           /\ \A i \in Interpreters :
                /\ i # Home[t] /\ registered[i] = None
                /\ \A c \in DOMAIN heap : Clean(heap[c], i)
                => Clean(heap'[a], i),
         \A u \in Threads \ {t} : call[u].at \in Reading /\ call[u].data # None =>
           Position(heap'[call[u].data], Home[u]) = Position(heap[call[u].data], Home[u]),
         \A u \in Threads \ {t} : call[u].at \in Reading /\ call[u].data = None =>
           \/ call'[t].at = "taken"
           \/ call'[t].at = "waiting" /\ call'[t].fresh
           \/ call'[t].at = "failing" /\ call'[t].data = None,
         Matching', Duty(t)'
  PROVE  TableInv'
<1>0. t # None /\ Home[t] \in Interpreters
  BY HomeAssumption
<1>1. call[t].at \in Writing /\ \A u \in Threads \ {t} : call[u].at \notin Writing
  BY DEF IInv, Exclusion
<1>2. Typed'
  BY DEF TableInv, Typed
<1>3. /\ call[t].op \in {"import", "remove"}
      /\ imports[Home[t]].by = t /\ imports[Home[t]].phase \notin Alive
  <2>1. call[t].op \in {"import", "remove"} /\ Duty(t)
    BY <1>1 DEF IInv, Hands, TableInv
  <2>2. call[t].at \notin Looking
    BY <1>1 DEF Writing, Looking, Reading
  <2> QED BY <2>1, <2>2 DEF Duty, Alive
<1>4. Living'
  <2> SUFFICES ASSUME NEW i \in Interpreters, imports[i].phase \in Alive
               PROVE  registered'[i] # None
    BY DEF Living
  <2>1. i # Home[t]
    BY <1>3
  <2> QED BY <2>1 DEF TableInv, Living
<1>5. ASSUME NEW u \in Threads \ {t} PROVE Duty(u)' /\ Sees(u)'
  <2>1. call[u].at \notin {"waiting", "changing"} /\ call'[u] = call[u] /\ u # t
    BY <1>1 DEF Writing
  <2>2. Proper(t)
    BY DEF Proper, TableInv, Typed
  <2>3. Duty(u)'
    BY <1>3, <2>1, <2>2, OthersDuty
  <2>4. Sees(u) /\ Duty(u)
    BY DEF TableInv
  <2>5. call[u].at \in Reading /\ call[u].data = None => NothingToRead'
    BY <1>0 DEF NothingToRead
  <2>6. ASSUME Lanes = {}, call[u].op = "import", call[u].at \in Looking,
               registered'[Home[u]] = None, NEW a \in DOMAIN heap'
        PROVE  Clean(heap'[a], Home[u])
    <3>0. Home[u] \in Interpreters
      BY HomeAssumption
    <3>1. Home[u] # Home[t]
      BY <1>3, <2>4, <2>6 DEF Duty
    <3>2. registered[Home[u]] = None
      BY <2>6, <3>0, <3>1
    <3>3. \A c \in DOMAIN heap : Clean(heap[c], Home[u])
      BY <2>4, <2>6, <3>2 DEF Sees
    <3> QED BY <3>0, <3>1, <3>2, <3>3
  <2>7. call[u].at = "located" /\ call[u].data # None =>
          call[u].found = Position(heap'[call[u].data], Home[u])
    BY <2>4 DEF Sees, Reading
  <2>8. Sees(u)'
    <3>1. \A a \in DOMAIN heap' :
            Lanes = {} /\ call[u].op = "import" /\ call[u].at \in Looking
            /\ registered'[Home[u]] = None => Clean(heap'[a], Home[u])
      BY <2>6
    <3> QED BY <2>1, <2>5, <2>7, <3>1 DEF Sees, Clean, Entries
  <2> QED BY <2>3, <2>8
<1>6. Sees(t)'
  BY DEF Sees, Looking, Reading, Writing
<1> QED BY <1>2, <1>4, <1>5, <1>6 DEF TableInv

\* A thread that has located its slot reads the registry.
LEMMA ResultsAre ==
  ASSUME IInv, TableInv, NEW t \in Threads, call[t].at = "located"
  PROVE  /\ registered[Home[t]] # None => Results(t) = {registered[Home[t]]}
         /\ Lanes = {} => Results(t) = {registered[Home[t]]}
<1> DEFINE a == call[t].data  i == Home[t]
<1>0. i \in Interpreters /\ lock \in Threads \cup {None} /\ registered \in Registries
  BY HomeAssumption DEF IInv, Exclusion, TableInv, Typed
<1>1. /\ Sees(t) /\ Duty(t) /\ Matching /\ Living
      /\ lock # None => Duty(lock)
  BY <1>0 DEF TableInv
<1>2. CASE a = None
  <2>1. Results(t) = {None}
    BY <1>2 DEF Results
  <2>2. NothingToRead
    BY <1>1, <1>2 DEF Sees, Reading
  <2>3. Nobody
    <3>1. CASE Current = None
      BY <3>1, <1>1 DEF Matching
    <3>2. CASE Current # None
      <4>1. lock # None /\ call[lock].at = "waiting" /\ call[lock].fresh
        BY <2>2, <3>2, <1>0 DEF NothingToRead, Current, IInv, Hands
      <4> QED BY <4>1, <1>1 DEF Duty
    <3> QED BY <3>1, <3>2
  <2> QED BY <1>0, <2>1, <2>3 DEF Nobody
<1>3. CASE a # None
  <2>1. a \in DOMAIN heap /\ Current = a
    BY <1>0, <1>3 DEF IInv, ReadersAreSafe, Reading, Current
  <2>2. PICK b : b = heap[a]
    OBVIOUS
  <2>3. IsTable(b) /\ IsRegistry(b, registered)
    BY <1>1, <1>3, <2>1, <2>2 DEF Matching, TableInv, Typed
  <2>4. Results(t) = Outcomes(b, Position(b, i), i)
    BY <1>1, <1>3, <2>2 DEF Results, Sees
  <2>5. /\ registered[i] # None => Results(t) = {registered[i]}
        /\ Lanes = {} /\ registered[i] = None /\ Clean(b, i) => Results(t) = {None}
    BY <1>0, <2>3, <2>4, OutcomesAre
  <2>6. ASSUME Lanes = {}, registered[i] = None PROVE Clean(b, i)
    <3>1. call[t].op = "import"
      <4>1. call[t].op # "use"
        BY <1>0, <1>1, <2>6 DEF Duty, Living
      <4>2. call[t].op # "remove"
        BY <1>1 DEF Duty, Looking, Reading
      <4>3. call[t].op # "none"
        BY <1>1 DEF Duty
      <4> QED BY <4>1, <4>2, <4>3 DEF TableInv, Typed, Calls
    <3> QED BY <1>1, <2>1, <2>2, <2>6, <3>1 DEF Sees, Looking, Reading
  <2> QED BY <2>5, <2>6
<1> QED BY <1>2, <1>3

\* What the conjuncts of the invariant say of one thread.
LEMMA Threaded ==
  ASSUME IInv, TableInv, NEW t \in Threads
  PROVE  /\ Home[t] \in Interpreters /\ t # None /\ Duty(t) /\ Sees(t)
         /\ call \in [Threads -> Calls] /\ call[t] \in Calls /\ DOMAIN call = Threads
         /\ imports \in [Interpreters -> Imports] /\ imports[Home[t]] \in Imports
         /\ DOMAIN imports = Interpreters
         /\ call[t].at \in Writing <=> lock = t
BY HomeAssumption DEF TableInv, Typed, IInv, Exclusion

\* The steps of FindModule that only move on.
LEMMA LookupMoves ==
  ASSUME IInv, TableInv, NEW t \in Threads,
         Count(t) \/ Confirm(t) \/ Miss(t) \/ Uncount(t) \/ CountLocked(t)
  PROVE  TableInv'
<1>0. /\ Duty(t) /\ Sees(t) /\ call \in [Threads -> Calls] /\ call[t] \in Calls
      /\ DOMAIN call = Threads /\ Home[t] \in Interpreters
  BY Threaded
<1>1. /\ UNCHANGED <<published, lock, heap, imports, registered>>
      /\ call[t].at \in {"loaded", "counted", "undo", "blocked"}
  BY DEF Count, Confirm, Miss, Uncount, CountLocked, At
<1>2. PICK l \in {"counted", "reading", "undo", "blocked"}, d \in {call[t].data, published} :
         /\ call' = [call EXCEPT ![t].at = l, ![t].data = d]
         /\ l = "reading" => d = published /\ (d # None \/ lock = None)
  <2>1. CASE CountLocked(t)
    BY <2>1 DEF CountLocked
  <2>2. CASE ~CountLocked(t)
    <3>1. PICK l \in {"counted", "reading", "undo", "blocked"} :
             /\ call' = [call EXCEPT ![t].at = l]
             /\ l = "reading" => call[t].data = published /\ call[t].data # None
      BY <2>2 DEF Count, Confirm, Miss, Uncount, Goto
    <3>2. call' = [call EXCEPT ![t].at = l, ![t].data = call[t].data]
      BY <3>1, <1>0 DEF Calls
    <3> QED BY <3>1, <3>2
  <2> QED BY <2>1, <2>2
<1>3. published \in Addresses \cup {None}
  BY DEF TableInv, Typed
<1>4. d \in Addresses \cup {None} /\ l \in Labels
  BY <1>0, <1>2, <1>3 DEF Calls, Labels, Counted, Reading, Writing
<1>5. /\ call' \in [Threads -> Calls] /\ \A u \in Threads \ {t} : call'[u] = call[u]
      /\ call'[t].at = l /\ call'[t].data = d /\ call'[t].op = call[t].op
      /\ call'[t].fresh = call[t].fresh
  BY <1>0, <1>2, <1>4 DEF Calls
<1>6. Duty(t)'
  BY <1>0, <1>1, <1>5 DEF Duty, Looking, Reading, Writing, Nobody
<1>7. Sees(t)'
  BY <1>0, <1>1, <1>2, <1>5 DEF Sees, NothingToRead, Looking, Reading
<1>8. /\ call[t].at \notin Writing /\ Proper(t)
      /\ imports'[Home[t]].phase \in Alive => registered[Home[t]] # None
  BY <1>0, <1>1 DEF Writing, Proper, TableInv, Typed, Living
<1> QED BY <1>1, <1>5, <1>6, <1>7, <1>8, LookingStep

LEMMA LocateStep ==
  ASSUME IInv, TableInv, NEW t \in Threads, Locate(t)
  PROVE  TableInv'
<1>0. /\ Duty(t) /\ Sees(t) /\ call \in [Threads -> Calls] /\ call[t] \in Calls
      /\ DOMAIN call = Threads /\ Home[t] \in Interpreters
  BY Threaded
<1>1. /\ UNCHANGED <<published, lock, heap, imports, registered>>
      /\ call[t].at = "reading"
  BY DEF Locate, At
<1> DEFINE f == IF call[t].data = None THEN None ELSE Position(heap[call[t].data], Home[t])
<1>2. f \in Nat \cup {None}
  <2>1. CASE call[t].data # None
    <3>1. call[t].data \in DOMAIN heap
      BY <1>1, <2>1 DEF IInv, ReadersAreSafe, Reading
    <3>2. IsTable(heap[call[t].data]) /\ Home[t] \in Nat
      BY <3>1, <1>0 DEF TableInv, Typed
    <3> QED BY <2>1, <3>2, PositionIs
  <2> QED BY <2>1
<1>3. call' = [call EXCEPT ![t].at = "located", ![t].found = f]
  BY DEF Locate
<1>4. call[t].data # None => f = Position(heap[call[t].data], Home[t])
  OBVIOUS
<1> HIDE DEF f
<1>5. /\ call' \in [Threads -> Calls] /\ \A u \in Threads \ {t} : call'[u] = call[u]
      /\ call'[t].at = "located" /\ call'[t].data = call[t].data
      /\ call'[t].op = call[t].op /\ call'[t].fresh = call[t].fresh /\ call'[t].found = f
  BY <1>0, <1>2, <1>3 DEF Calls, Labels, Counted, Reading
<1>6. Duty(t)'
  BY <1>0, <1>1, <1>5 DEF Duty, Looking, Reading, Writing, Nobody
<1>7. Sees(t)'
  <2>1. call[t].data = None => NothingToRead
    BY <1>0, <1>1 DEF Sees, Reading
  <2>2. NothingToRead' <=> NothingToRead
    <3>1. lock # None => lock \in Threads \ {t}
      BY <1>1 DEF IInv, Exclusion, Writing
    <3> QED BY <1>1, <1>5, <3>1 DEF NothingToRead
  <2> QED BY <1>0, <1>1, <1>4, <1>5, <2>1, <2>2 DEF Sees, Looking, Reading
<1>8. /\ call[t].at \notin Writing /\ Proper(t)
      /\ imports'[Home[t]].phase \in Alive => registered[Home[t]] # None
  BY <1>0, <1>1 DEF Writing, Proper, TableInv, Typed, Living
<1> QED BY <1>1, <1>5, <1>6, <1>7, <1>8, LookingStep

\* A call that ends.
LEMMA IdleIs ==
  ASSUME IInv, TableInv, NEW t \in Threads, call' = [call EXCEPT ![t] = Idle]
  PROVE  /\ call' \in [Threads -> Calls] /\ \A u \in Threads \ {t} : call'[u] = call[u]
         /\ call'[t] = Idle /\ Duty(t)' /\ Sees(t)'
<1>0. call \in [Threads -> Calls] /\ DOMAIN call = Threads
  BY Threaded
<1>1. Idle \in Calls
  BY DEF Idle, Calls, Labels
<1>2. call' \in [Threads -> Calls] /\ call'[t] = Idle
      /\ \A u \in Threads \ {t} : call'[u] = call[u]
  BY <1>0, <1>1
<1>3. call'[t].at = "idle" /\ call'[t].op = "none" /\ call'[t].fresh = FALSE
  BY <1>2 DEF Idle
<1>4. Duty(t)'
  BY <1>2, <1>3 DEF Duty
<1>5. Sees(t)'
  BY <1>3 DEF Sees, Reading
<1> QED BY <1>2, <1>4, <1>5

LEMMA LookupEnds ==
  ASSUME IInv, TableInv, NEW t \in Threads, FinishUse(t) \/ ImportExisting(t)
  PROVE  TableInv'
<1>0. /\ Duty(t) /\ Home[t] \in Interpreters /\ t # None
      /\ imports \in [Interpreters -> Imports] /\ DOMAIN imports = Interpreters
      /\ imports[Home[t]] \in Imports
  BY Threaded
<1>1. /\ UNCHANGED <<published, lock, heap, registered>> /\ call[t].at = "located"
      /\ call' = [call EXCEPT ![t] = Idle]
  BY DEF FinishUse, ImportExisting, At, Return
<1>2. /\ call' \in [Threads -> Calls] /\ \A u \in Threads \ {t} : call'[u] = call[u]
      /\ Duty(t)' /\ Sees(t)'
  BY <1>1, IdleIs
<1>3. Proper(t) /\ imports'[Home[t]].phase = imports[Home[t]].phase
  <2>1. CASE FinishUse(t)
    BY <1>0, <2>1 DEF FinishUse, Proper
  <2>2. CASE ImportExisting(t)
    <3>1. imports[Home[t]].by = t
      BY <1>0, <2>2 DEF ImportExisting, Duty
    <3>2. imports' = [imports EXCEPT ![Home[t]].phase = imports[Home[t]].phase,
                                     ![Home[t]].by = None]
      BY <2>2 DEF ImportExisting, SetPhase, Phase
    <3>3. /\ imports' \in [Interpreters -> Imports]
          /\ \A i \in Interpreters \ {Home[t]} : imports'[i] = imports[i]
          /\ imports'[Home[t]].phase = imports[Home[t]].phase
      BY <1>0, <3>2 DEF Imports
    <3> QED BY <3>1, <3>3 DEF Proper
  <2> QED BY <2>1, <2>2
<1>4. /\ call[t].at \notin Writing
      /\ imports'[Home[t]].phase \in Alive => registered[Home[t]] # None
  BY <1>0, <1>1, <1>3 DEF Writing, TableInv, Living
<1> QED BY <1>1, <1>2, <1>3, <1>4, LookingStep

LEMMA CreateStep ==
  ASSUME IInv, TableInv, NEW t \in Threads, CreateModule(t)
  PROVE  TableInv'
<1>0. /\ Duty(t) /\ Home[t] \in Interpreters /\ t # None
      /\ imports \in [Interpreters -> Imports] /\ DOMAIN imports = Interpreters
      /\ imports[Home[t]] \in Imports
      /\ call \in [Threads -> Calls] /\ call[t] \in Calls /\ DOMAIN call = Threads
  BY Threaded
<1>1. /\ UNCHANGED <<published, lock, heap, registered>>
      /\ call[t].at = "located" /\ call[t].op = "import" /\ None \in Results(t)
      /\ imports' = [imports EXCEPT ![Home[t]].phase = "creating", ![Home[t]].made = @ + 1]
      /\ call' = [call EXCEPT ![t].at = "taking"]
  BY DEF CreateModule, At, Goto
<1>2. registered[Home[t]] = None
  BY <1>1, ResultsAre
<1>3. /\ imports[Home[t]].by = t /\ imports[Home[t]].phase = "absent"
      /\ imports[Home[t]].made < MaxModules
  BY <1>0, <1>1, <1>2 DEF Duty, Looking, Reading, TableInv, Living, Alive
<1>4. PICK m \in 0 .. MaxModules : m = imports[Home[t]].made + 1 /\ m > 0
  BY <1>0, <1>3 DEF Imports
<1>5. imports' = [imports EXCEPT ![Home[t]].phase = "creating", ![Home[t]].made = m]
  BY <1>1, <1>4
<1>6. /\ imports' \in [Interpreters -> Imports]
      /\ \A i \in Interpreters \ {Home[t]} : imports'[i] = imports[i]
      /\ imports'[Home[t]].phase = "creating" /\ imports'[Home[t]].made = m
      /\ imports'[Home[t]].by = t
  BY <1>0, <1>3, <1>5 DEF Imports, Phases
<1>7. Proper(t)
  BY <1>3, <1>6 DEF Proper, Alive
<1>8. /\ call' \in [Threads -> Calls] /\ \A u \in Threads \ {t} : call'[u] = call[u]
      /\ call'[t].at = "taking" /\ call'[t].op = "import" /\ call'[t].fresh = call[t].fresh
  BY <1>0, <1>1 DEF Calls, Labels
<1>9. Duty(t)'
  BY <1>0, <1>1, <1>2, <1>4, <1>6, <1>8 DEF Duty, Looking, Reading, Writing
<1>10. Sees(t)'
  BY <1>8 DEF Sees, Looking, Reading
<1>11. /\ call[t].at \notin Writing
       /\ imports'[Home[t]].phase \in Alive => registered[Home[t]] # None
  BY <1>1, <1>6 DEF Writing, Alive
<1> QED BY <1>1, <1>7, <1>8, <1>9, <1>10, <1>11, LookingStep

\* Calls begin, and imports end.
LEMMA BeginCalls ==
  ASSUME IInv, TableInv, NEW t \in Threads, BeginUse(t) \/ BeginImport(t)
  PROVE  TableInv'
<1>0. /\ Duty(t) /\ Home[t] \in Interpreters /\ t # None
      /\ imports \in [Interpreters -> Imports] /\ DOMAIN imports = Interpreters
      /\ imports[Home[t]] \in Imports
      /\ call \in [Threads -> Calls] /\ call[t] \in Calls /\ DOMAIN call = Threads
  BY Threaded
<1>1. PICK op \in {"use", "import"} :
         /\ call' = [call EXCEPT ![t].op = op, ![t].at = "loaded", ![t].data = published]
         /\ op = "use" => BeginUse(t)
         /\ op = "import" => BeginImport(t)
  BY DEF BeginUse, BeginImport, StartLookup
<1>2. UNCHANGED <<published, lock, heap, registered>> /\ call[t].at = "idle"
  BY DEF BeginUse, BeginImport, At
<1>3. published \in Addresses \cup {None} /\ call[t].fresh = FALSE
  BY <1>0, <1>2 DEF TableInv, Typed, Duty, Idle
<1>4. /\ call' \in [Threads -> Calls] /\ \A u \in Threads \ {t} : call'[u] = call[u]
      /\ call'[t].at = "loaded" /\ call'[t].op = op /\ call'[t].fresh = FALSE
  BY <1>0, <1>1, <1>3 DEF Calls, Labels
<1>5. /\ Proper(t) /\ imports'[Home[t]].phase = imports[Home[t]].phase
      /\ op = "use" => imports[Home[t]].phase \in Alive
      /\ op = "import" =>
           /\ imports'[Home[t]].by = t /\ imports'[Home[t]].made = imports[Home[t]].made
           /\ imports[Home[t]].phase \in {"absent", "ready", "failed"}
           /\ imports[Home[t]].phase = "absent" => imports[Home[t]].made < MaxModules
           /\ MayImport(Home[t])
  <2>1. CASE op = "use"
    BY <1>0, <1>1, <2>1 DEF BeginUse, Proper, Phase, Alive
  <2>2. CASE op = "import"
    <3>1. /\ imports[Home[t]].phase \in {"absent", "ready", "failed"}
          /\ imports[Home[t]].by = None /\ MayImport(Home[t])
          /\ imports[Home[t]].phase = "absent" => imports[Home[t]].made < MaxModules
          /\ imports' = [imports EXCEPT ![Home[t]].by = t]
      BY <1>1, <2>2 DEF BeginImport, Phase
    <3>2. /\ imports' \in [Interpreters -> Imports]
          /\ \A i \in Interpreters \ {Home[t]} : imports'[i] = imports[i]
          /\ imports'[Home[t]].phase = imports[Home[t]].phase
          /\ imports'[Home[t]].made = imports[Home[t]].made
          /\ imports'[Home[t]].by = t
      BY <1>0, <3>1 DEF Imports
    <3> QED BY <2>2, <3>1, <3>2 DEF Proper
  <2> QED BY <2>1, <2>2
<1>6. Duty(t)'
  BY <1>0, <1>4, <1>5 DEF Duty, Looking, Reading
<1>7. Sees(t)'
  <2>1. Lanes = {} /\ op = "import" => \A a \in DOMAIN heap : Clean(heap[a], Home[t])
    BY <1>5 DEF MayImport, Clean
  <2> QED BY <1>2, <1>4, <2>1 DEF Sees, Reading
<1>8. /\ call[t].at \notin Writing
      /\ imports'[Home[t]].phase \in Alive => registered[Home[t]] # None
  BY <1>0, <1>2, <1>5 DEF Writing, TableInv, Living
<1> QED BY <1>2, <1>4, <1>5, <1>6, <1>7, <1>8, LookingStep

LEMMA BeginClearStep ==
  ASSUME IInv, TableInv, NEW t \in Threads, BeginClear(t)
  PROVE  TableInv'
<1>0. /\ Duty(t) /\ Home[t] \in Interpreters /\ t # None
      /\ imports \in [Interpreters -> Imports] /\ DOMAIN imports = Interpreters
      /\ imports[Home[t]] \in Imports
      /\ call \in [Threads -> Calls] /\ call[t] \in Calls /\ DOMAIN call = Threads
  BY Threaded
<1>1. /\ UNCHANGED <<published, lock, heap, registered>>
      /\ imports[Home[t]].phase = "failed" /\ imports[Home[t]].by = None
      /\ \A u \in Threads : Home[u] = Home[t] => call[u].at = "idle"
      /\ imports' = [imports EXCEPT ![Home[t]] =
                        [imports[Home[t]] EXCEPT !.phase = "clearing", !.by = t]]
      /\ call' = [call EXCEPT ![t].op = "remove", ![t].at = "taking"]
  BY <1>0 DEF BeginClear, IsGarbage, At
<1>2. /\ call[t].at = "idle" /\ call[t].fresh = FALSE /\ registered[Home[t]] # None
  BY <1>0, <1>1 DEF Duty, Idle, TableInv, Living, Alive
<1>3. /\ call' \in [Threads -> Calls] /\ \A u \in Threads \ {t} : call'[u] = call[u]
      /\ call'[t].at = "taking" /\ call'[t].op = "remove" /\ call'[t].fresh = FALSE
  BY <1>0, <1>1, <1>2 DEF Calls, Labels
<1>4. PICK e : e = [imports[Home[t]] EXCEPT !.phase = "clearing", !.by = t]
  OBVIOUS
<1>5. e \in Imports /\ e.phase = "clearing" /\ e.by = t
  BY <1>0, <1>4 DEF Imports, Phases
<1>6. imports' = [imports EXCEPT ![Home[t]] = e]
  BY <1>1, <1>4
<1>7. /\ imports' \in [Interpreters -> Imports] /\ imports'[Home[t]] = e
      /\ \A i \in Interpreters \ {Home[t]} : imports'[i] = imports[i]
  BY <1>0, <1>5, <1>6
<1>8. Proper(t)
  BY <1>1, <1>7 DEF Proper
<1>9. Duty(t)'
  BY <1>1, <1>2, <1>3, <1>5, <1>7 DEF Duty, Looking, Reading
<1>10. Sees(t)'
  BY <1>3 DEF Sees, Looking, Reading
<1>11. /\ call[t].at \notin Writing
       /\ imports'[Home[t]].phase \in Alive => registered[Home[t]] # None
  BY <1>2 DEF Writing
<1> QED BY <1>1, <1>3, <1>8, <1>9, <1>10, <1>11, LookingStep

LEMMA FinishStep ==
  ASSUME IInv, TableInv, NEW t \in Threads, NEW p \in {"ready", "failed"}, Finish(t, p)
  PROVE  TableInv'
<1>0. /\ Duty(t) /\ Sees(t) /\ Home[t] \in Interpreters /\ t # None
      /\ imports \in [Interpreters -> Imports] /\ DOMAIN imports = Interpreters
      /\ imports[Home[t]] \in Imports
      /\ call \in [Threads -> Calls] /\ call[t] \in Calls
  BY Threaded
<1>1. /\ UNCHANGED <<published, lock, heap, registered, call>>
      /\ call[t].at = "idle" /\ imports[Home[t]].phase = "running" /\ imports[Home[t]].by = t
      /\ imports' = [imports EXCEPT ![Home[t]].phase = p, ![Home[t]].by = None]
  BY DEF Finish, SetPhase, At, Phase
<1>2. /\ imports' \in [Interpreters -> Imports] /\ imports'[Home[t]].phase = p
      /\ \A i \in Interpreters \ {Home[t]} : imports'[i] = imports[i]
  BY <1>0, <1>1 DEF Imports, Phases
<1>3. Proper(t)
  BY <1>1, <1>2 DEF Proper, Alive
<1>4. call[t].op = "none" /\ call[t].fresh = FALSE
  BY <1>0, <1>1 DEF Duty, Idle
<1>5. Duty(t)' /\ Sees(t)'
  BY <1>0, <1>1, <1>4 DEF Duty, Sees, Reading
<1>6. call[t].at \notin Writing /\ registered[Home[t]] # None
  BY <1>0, <1>1 DEF Writing, TableInv, Living, Alive
<1>7. call' \in [Threads -> Calls] /\ \A u \in Threads \ {t} : call'[u] = call[u]
  BY <1>0, <1>1
<1> QED BY <1>1, <1>3, <1>5, <1>6, <1>7, LookingStep

LEMMA DeallocateStep ==
  ASSUME IInv, TableInv, NEW i \in Interpreters, Deallocate(i)
  PROVE  TableInv'
<1>1. /\ UNCHANGED <<published, lock, heap, registered, call>>
      /\ imports[i].phase = "failed" /\ imports[i].by = None
      /\ \A u \in Threads : Home[u] = i => call[u].at = "idle"
      /\ imports' = [imports EXCEPT ![i].phase = "absent"]
  BY DEF Deallocate, IsGarbage, At
<1>2. imports \in [Interpreters -> Imports]
  BY DEF TableInv, Typed
<1>3. /\ imports' \in [Interpreters -> Imports] /\ imports'[i].phase = "absent"
      /\ \A j \in Interpreters \ {i} : imports'[j] = imports[j]
  BY <1>1, <1>2 DEF Imports, Phases
<1>4. Typed' /\ Matching'
  BY <1>1, <1>3 DEF TableInv, Typed, Matching, Current, Nobody
<1>5. Living'
  BY <1>1, <1>3 DEF TableInv, Living, Alive
<1>6. ASSUME NEW u \in Threads PROVE Duty(u)' /\ Sees(u)'
  <2>1. Duty(u) /\ Sees(u)
    BY DEF TableInv
  <2>2. Sees(u)'
    BY <1>1, <2>1 DEF Sees, NothingToRead
  <2>3. CASE Home[u] = i
    <3>1. call[u].at = "idle" /\ call[u].op = "none" /\ call[u] = Idle
      BY <1>1, <2>1, <2>3 DEF Duty
    <3>2. call[u].fresh = FALSE
      BY <3>1 DEF Idle
    <3>3. Duty(u)'
      BY <1>1, <3>1, <3>2 DEF Duty
    <3> QED BY <2>2, <3>3
  <2>4. CASE Home[u] # i
    <3>1. imports'[Home[u]] = imports[Home[u]]
      BY <1>3, <2>4, HomeAssumption
    <3>2. Duty(u)'
      BY <1>1, <2>1, <3>1 DEF Duty, Nobody
    <3> QED BY <2>2, <3>2
  <2> QED BY <2>3, <2>4
<1> QED BY <1>4, <1>5, <1>6 DEF TableInv

-----------------------------------------------------------------------------
\* While a table is changed nobody reads one, except an indexed one whose slot
\* RemoveModule clears.
LEMMA WhileChanging ==
  ASSUME IInv, TableInv, NEW t \in Threads, call[t].at = "changing",
         NEW u \in Threads, call[u].at \in Reading
  PROVE  /\ call[t].op = "remove" /\ call[u].data = call[t].data
         /\ call[u].data # None /\ heap[call[u].data].indexed
<1>1. lock = t /\ t # None
  BY DEF IInv, Exclusion, Writing
<1>2. call[u].data # None
  BY <1>1 DEF TableInv, Sees, NothingToRead
<1> QED BY <1>1, <1>2 DEF IInv, ReadersAreSafe, At

LEMMA TakeTable ==
  ASSUME IInv, TableInv, NEW t \in Threads, Take(t)
  PROVE  TableInv'
<1>0. /\ Duty(t) /\ Sees(t) /\ Home[t] \in Interpreters /\ t # None
      /\ call \in [Threads -> Calls] /\ call[t] \in Calls /\ DOMAIN call = Threads
  BY Threaded
<1>1. /\ call[t].at = "taking" /\ lock = None /\ lock' = t /\ published' = None
      /\ UNCHANGED <<readers, heap, imports, registered>>
  BY DEF Take, At
<1>2. PICK l \in {"taken", "waiting", "changing"} :
         /\ call' = [call EXCEPT ![t].data = published, ![t].at = l]
         /\ l = "taken" <=> published = None
  BY DEF Take
<1>3. published \in Addresses \cup {None} /\ l \in Labels
  BY DEF TableInv, Typed, Labels, Writing
<1>4. /\ call' \in [Threads -> Calls] /\ \A u \in Threads \ {t} : call'[u] = call[u]
      /\ call'[t].at = l /\ call'[t].op = call[t].op /\ call'[t].fresh = call[t].fresh
      /\ call'[t].data = published
  BY <1>0, <1>2, <1>3 DEF Calls
<1>5. Typed'
  BY <1>1, <1>4 DEF TableInv, Typed
<1>6. Current' = Current
  BY <1>0, <1>1, <1>4 DEF Current
<1>7. Matching' /\ Living'
  BY <1>1, <1>6 DEF TableInv, Matching, Nobody, Living
<1>8. call[t].op \in {"import", "remove"} /\ call[t].fresh = FALSE
  BY <1>0, <1>1 DEF IInv, Hands, Duty, Writing, Calls
<1>9. Duty(t)'
  BY <1>0, <1>1, <1>4, <1>8 DEF Duty, Looking, Reading
<1>10. Sees(t)'
  BY <1>4 DEF Sees, Looking, Reading
<1>11. ASSUME NEW u \in Threads \ {t} PROVE Duty(u)' /\ Sees(u)'
  <2>1. Proper(t) /\ call'[u] = call[u]
    BY <1>1, <1>4 DEF Proper, TableInv, Typed
  <2>2. Duty(u)'
    BY <1>1, <2>1, OthersDuty
  <2>3. Sees(u)
    BY DEF TableInv
  <2>4. NothingToRead => NothingToRead'
    BY <1>0, <1>1, <1>2, <1>4 DEF NothingToRead
  <2>5. Sees(u)'
    BY <1>1, <2>1, <2>3, <2>4 DEF Sees
  <2> QED BY <2>2, <2>5
<1> QED BY <1>5, <1>7, <1>9, <1>10, <1>11 DEF TableInv

LEMMA PublishTable ==
  ASSUME IInv, TableInv, NEW t \in Threads,
         PublishAdded(t) \/ PublishRemoved(t) \/ PublishFailed(t)
  PROVE  TableInv'
<1>0. /\ Duty(t) /\ Sees(t) /\ Home[t] \in Interpreters /\ t # None
      /\ call \in [Threads -> Calls] /\ call[t] \in Calls /\ DOMAIN call = Threads
      /\ imports \in [Interpreters -> Imports] /\ DOMAIN imports = Interpreters
      /\ imports[Home[t]] \in Imports
  BY Threaded
<1>1. PICK p \in {"running", "absent"} :
         /\ call[t].at \in {"publishing", "failing"}
         /\ published' = call[t].data /\ lock' = None
         /\ imports' = [imports EXCEPT ![Home[t]].phase = p,
                                       ![Home[t]].by = IF p = "running" THEN t ELSE None]
         /\ call' = [call EXCEPT ![t] = Idle]
         /\ UNCHANGED <<readers, heap, registered>>
         /\ p = "running" => call[t].op = "import" /\ call[t].at = "publishing"
  BY DEF PublishAdded, PublishRemoved, PublishFailed, Publish, At, Return
<1>2. /\ call' \in [Threads -> Calls] /\ \A u \in Threads \ {t} : call'[u] = call[u]
      /\ call'[t] = Idle /\ Duty(t)' /\ Sees(t)'
  BY <1>1, IdleIs
<1>3. PICK o \in Threads \cup {None} : o = IF p = "running" THEN t ELSE None
  OBVIOUS
<1>4. imports' = [imports EXCEPT ![Home[t]].phase = p, ![Home[t]].by = o]
  BY <1>1, <1>3
<1>5. /\ imports' \in [Interpreters -> Imports] /\ imports'[Home[t]].phase = p
      /\ \A i \in Interpreters \ {Home[t]} : imports'[i] = imports[i]
  BY <1>0, <1>4 DEF Imports, Phases
<1>6. /\ lock = t /\ call[t].op \in {"import", "remove"}
      /\ call[t].data \in DOMAIN heap \cup {None}
  BY <1>1 DEF IInv, Exclusion, Hands, Writing
<1>7. imports[Home[t]].by = t /\ imports[Home[t]].phase \notin Alive
  BY <1>0, <1>1, <1>6 DEF Duty, Looking, Reading, Alive
<1>8. Proper(t)
  BY <1>5, <1>7 DEF Proper
<1>9. Typed'
  BY <1>1, <1>2, <1>5, <1>6 DEF TableInv, Typed
<1>10. Current' = Current
  BY <1>0, <1>1, <1>6 DEF Current
<1>11. Matching'
  BY <1>1, <1>10 DEF TableInv, Matching, Nobody
<1>12. Living'
  <2>1. p = "running" => registered[Home[t]] # None
    BY <1>0, <1>1 DEF Duty, Looking, Reading
  <2>2. p # "running" => p \notin Alive
    BY DEF Alive
  <2> QED BY <1>1, <1>5, <2>1, <2>2 DEF TableInv, Living
<1>13. ASSUME NEW u \in Threads \ {t} PROVE Duty(u)' /\ Sees(u)'
  <2>1. Duty(u)'
    BY <1>1, <1>2, <1>8, OthersDuty
  <2>2. Sees(u) /\ call'[u] = call[u]
    BY <1>2 DEF TableInv
  <2>3. NothingToRead => NothingToRead'
    BY <1>0, <1>1, <1>6 DEF NothingToRead
  <2>4. Sees(u)'
    BY <1>1, <2>2, <2>3 DEF Sees
  <2> QED BY <2>1, <2>4
<1> QED BY <1>2, <1>9, <1>11, <1>12, <1>13 DEF TableInv

\* The steps of the writer that leave the tables as they are, and the first table.
LEMMA WaitSteps ==
  ASSUME IInv, TableInv, NEW t \in Threads, AllocateFails(t) \/ NoReaders(t)
  PROVE  TableInv'
<1>0. /\ Duty(t) /\ Home[t] \in Interpreters /\ t # None
      /\ call \in [Threads -> Calls] /\ call[t] \in Calls /\ DOMAIN call = Threads
  BY Threaded
<1>1. PICK l \in {"failing", "changing"} :
         /\ UNCHANGED <<published, readers, lock, heap, imports, registered>>
         /\ call[t].at \in {"taken", "waiting"}
         /\ call' = [call EXCEPT ![t].at = l]
         /\ l = "failing" => call[t].at = "taken" /\ call[t].op = "import"
         /\ l = "changing" => call[t].at = "waiting" /\ readers = 0
  BY DEF AllocateFails, NoReaders, At, Goto
<1>2. /\ call' \in [Threads -> Calls] /\ \A u \in Threads \ {t} : call'[u] = call[u]
      /\ call'[t].at = l /\ call'[t].op = call[t].op /\ call'[t].fresh = call[t].fresh
      /\ call'[t].data = call[t].data
  BY <1>0, <1>1 DEF Calls, Labels, Writing
<1>3. lock = t /\ lock' = t
  BY <1>1 DEF IInv, Exclusion, Writing
<1>4. Current' = Current
  BY <1>0, <1>2, <1>3 DEF Current
<1>5. Matching'
  BY <1>1, <1>4 DEF TableInv, Matching, Nobody
<1>6. Duty(t)'
  BY <1>0, <1>1, <1>2 DEF Duty, Looking, Reading, Writing, Nobody
<1>7. \A u \in Threads \ {t} : call[u].at \in Reading /\ call[u].data = None =>
        call'[t].at = "failing" /\ call'[t].data = None
  <2>1. CASE l = "failing"
    BY <1>1, <1>2, <2>1 DEF IInv, Hands
  <2>2. CASE l = "changing"
    <3>1. \A u \in Threads : call[u].at \notin Counted
      BY <1>1, <2>2, ZeroMeansNone DEF IInv
    <3> QED BY <3>1 DEF Counted
  <2> QED BY <2>1, <2>2
<1>8. /\ registered' \in Registries /\ call'[t].at \in Writing
      /\ \A i \in Interpreters \ {Home[t]} : registered'[i] = registered[i]
      /\ DOMAIN heap' \subseteq Addresses
      /\ \A a \in DOMAIN heap' :
           /\ IsTable(heap'[a])
           /\ \A i \in Interpreters :
                /\ i # Home[t] /\ registered[i] = None
                /\ \A c \in DOMAIN heap : Clean(heap[c], i)
                => Clean(heap'[a], i)
      /\ \A u \in Threads \ {t} : call[u].at \in Reading /\ call[u].data # None =>
           Position(heap'[call[u].data], Home[u]) = Position(heap[call[u].data], Home[u])
  BY <1>1, <1>2 DEF TableInv, Typed, Writing
<1> QED BY <1>1, <1>2, <1>3, <1>5, <1>6, <1>7, <1>8, WritingStep

LEMMA AllocateTable ==
  ASSUME IInv, TableInv, NEW t \in Threads, Allocate(t)
  PROVE  TableInv'
<1>0. /\ Duty(t) /\ Home[t] \in Interpreters /\ t # None
      /\ call \in [Threads -> Calls] /\ call[t] \in Calls /\ DOMAIN call = Threads
  BY Threaded
<1>1. /\ UNCHANGED <<published, readers, lock, imports, registered>>
      /\ call[t].at = "taken" /\ call[t].op = "import"
  BY DEF Allocate, At
<1>2. PICK a \in Addresses :
         /\ a \notin DOMAIN heap /\ heap' = Moved(a, a, Fresh)
         /\ call' = [call EXCEPT ![t].data = a, ![t].at = "waiting", ![t].fresh = TRUE]
  BY DEF Allocate
<1>3. /\ call' \in [Threads -> Calls] /\ \A u \in Threads \ {t} : call'[u] = call[u]
      /\ call'[t].at = "waiting" /\ call'[t].op = "import" /\ call'[t].fresh = TRUE
      /\ call'[t].data = a
  BY <1>0, <1>1, <1>2 DEF Calls, Labels, Writing
<1>4. lock = t /\ lock' = t /\ call[t].data = None
  BY <1>1 DEF IInv, Exclusion, Hands, Writing
<1>5. Nobody /\ registered \in Registries
  BY <1>0, <1>4 DEF TableInv, Matching, Current, Typed
<1>6. IsTable(Fresh) /\ IsRegistry(Fresh, registered) /\ \A i : Clean(Fresh, i)
  BY <1>5, FreshTable DEF Nobody
<1>7. /\ DOMAIN heap' = DOMAIN heap \cup {a} /\ heap'[a] = Fresh
      /\ \A c \in DOMAIN heap : heap'[c] = heap[c]
  BY <1>2 DEF Moved
<1>8. Matching'
  <2>1. Current' = a /\ a # None
    BY <1>0, <1>3, <1>4 DEF Current
  <2> QED BY <1>1, <1>6, <1>7, <2>1 DEF Matching
<1>9. Duty(t)'
  BY <1>0, <1>1, <1>3, <1>5 DEF Duty, Looking, Reading, Writing, Nobody
<1>10. \A u \in Threads \ {t} : call[u].at \in Reading /\ call[u].data # None =>
         Position(heap'[call[u].data], Home[u]) = Position(heap[call[u].data], Home[u])
  BY <1>7 DEF IInv, ReadersAreSafe
<1>11. /\ registered' \in Registries /\ call'[t].at \in Writing
       /\ \A i \in Interpreters \ {Home[t]} : registered'[i] = registered[i]
  BY <1>1, <1>3, <1>5 DEF Writing
<1>12. DOMAIN heap' \subseteq Addresses
  BY <1>7 DEF TableInv, Typed
<1>13. \A c \in DOMAIN heap' :
         /\ IsTable(heap'[c])
         /\ \A i \in Interpreters :
              /\ i # Home[t] /\ registered[i] = None
              /\ \A x \in DOMAIN heap : Clean(heap[x], i)
              => Clean(heap'[c], i)
  BY <1>6, <1>7 DEF TableInv, Typed
<1> QED BY <1>1, <1>3, <1>4, <1>8, <1>9, <1>10, <1>11, <1>12, <1>13, WritingStep

\* The table that AddModule changes.
LEMMA InHand ==
  ASSUME IInv, TableInv, NEW t \in Threads, call[t].at = "changing", NEW b, b = heap[call[t].data]
  PROVE  /\ lock = t /\ call[t].data \in DOMAIN heap /\ call[t].data # None
         /\ IsTable(b) /\ IsRegistry(b, registered) /\ registered \in Registries
         /\ call[t].data \in Addresses /\ DOMAIN heap \subseteq Addresses
         /\ call[t].op \in {"import", "remove"}
<1>1. lock = t /\ t # None /\ call[t].data # None /\ call[t].data \in DOMAIN heap
      /\ call[t].op \in {"import", "remove"}
  BY DEF IInv, Exclusion, Hands, Writing
<1>2. Current = call[t].data
  BY <1>1 DEF Current
<1> QED BY <1>1, <1>2 DEF TableInv, Typed, Matching

\* What a step that changes the table of t needs, when it is an addition.
LEMMA AddTable ==
  ASSUME IInv, TableInv, NEW t \in Threads, AddModule(t)
  PROVE  TableInv'
<1>0. /\ Duty(t) /\ Home[t] \in Interpreters /\ t # None
      /\ call \in [Threads -> Calls] /\ call[t] \in Calls /\ DOMAIN call = Threads
      /\ imports[Home[t]] \in Imports
  BY Threaded
<1>1. /\ UNCHANGED <<published, readers, lock, imports>>
      /\ call[t].at = "changing" /\ call[t].op = "import"
      /\ registered' = [registered EXCEPT ![Home[t]] = NewModule(t)]
  BY DEF AddModule, At
<1> DEFINE d == call[t].data
<1>2. PICK c \in Addresses :
         /\ heap' = Moved(d, c, After(t))
         /\ call' = [call EXCEPT ![t].data = c, ![t].at = "publishing"]
         /\ c = d \/ c \notin DOMAIN heap
  BY DEF AddModule
<1>3. PICK b : b = heap[d]
  OBVIOUS
<1>4. /\ lock = t /\ d \in DOMAIN heap /\ IsTable(b) /\ IsRegistry(b, registered)
      /\ registered \in Registries /\ DOMAIN heap \subseteq Addresses
  BY <1>1, <1>3, InHand
<1>5. PICK m \in Modules : m = NewModule(t)
  <2>1. imports[Home[t]].made \in 1 .. MaxModules
    BY <1>0, <1>1 DEF Duty, Looking, Reading, Imports
  <2> QED BY <1>0, <2>1 DEF NewModule, Modules
<1>6. registered[Home[t]] = None
  BY <1>0, <1>1 DEF Duty, Looking, Reading
<1>7. PICK p : p = Prepared(b, Home[t])
  OBVIOUS
<1>8. IsTable(p) /\ IsRegistry(p, registered) /\ \A j \in Nat : Clean(b, j) => Clean(p, j)
  BY <1>4, <1>7, PreparedIs
<1>9. PICK r : r = Stored(p, Home[t], m)
  OBVIOUS
<1>10. PICK reg2 : reg2 = [registered EXCEPT ![Home[t]] = m]
  OBVIOUS
<1>11. /\ IsTable(r) /\ IsRegistry(r, reg2)
       /\ \A j \in Nat : Clean(p, j) => Clean(r, j)
  <2>1. /\ IsTable(p) /\ IsRegistry(p, registered) /\ registered \in Registries
        /\ Home[t] \in Interpreters /\ registered[Home[t]] = None
    BY <1>0, <1>4, <1>6, <1>8
  <2>2. PICK i \in Interpreters, reg \in Registries : i = Home[t] /\ reg = registered
    BY <2>1
  <2>3. /\ IsTable(p) /\ IsRegistry(p, reg) /\ reg[i] = None
        /\ r = Stored(p, i, m) /\ reg2 = [reg EXCEPT ![i] = m]
    BY <2>1, <2>2, <1>9, <1>10
  <2> QED BY <2>3, StoredIs
<1>12. registered' = reg2 /\ After(t) = r
  BY <1>1, <1>3, <1>5, <1>7, <1>9, <1>10 DEF After, Before
<1>13. /\ registered' \in Registries /\ registered'[Home[t]] # None
       /\ \A i \in Interpreters \ {Home[t]} : registered'[i] = registered[i]
  BY <1>0, <1>4, <1>10, <1>12 DEF Registries
<1>14. /\ call' \in [Threads -> Calls] /\ \A u \in Threads \ {t} : call'[u] = call[u]
       /\ call'[t].at = "publishing" /\ call'[t].op = "import" /\ call'[t].data = c
       /\ call'[t].fresh = call[t].fresh
  BY <1>0, <1>1, <1>2 DEF Calls, Labels, Writing
<1>15. /\ DOMAIN heap' = (DOMAIN heap \ {d}) \cup {c} /\ heap'[c] = r
       /\ \A a \in DOMAIN heap \ {d} : heap'[a] = heap[a]
  BY <1>2, <1>12 DEF Moved
<1>16. Matching'
  <2>1. Current' = c /\ c # None
    BY <1>0, <1>1, <1>4, <1>14 DEF Current
  <2> QED BY <1>11, <1>12, <1>15, <2>1 DEF Matching
<1>17. Duty(t)'
  BY <1>0, <1>1, <1>13, <1>14 DEF Duty, Looking, Reading, Writing
<1>18. \A u \in Threads : call[u].at \notin Reading
  BY <1>1, WhileChanging
<1>19. DOMAIN heap' \subseteq Addresses /\ call'[t].at \in Writing
  BY <1>4, <1>14, <1>15 DEF Writing
<1>20. \A a \in DOMAIN heap' :
         /\ IsTable(heap'[a])
         /\ \A i \in Interpreters :
              /\ i # Home[t] /\ registered[i] = None
              /\ \A x \in DOMAIN heap : Clean(heap[x], i)
              => Clean(heap'[a], i)
  <2> TAKE a \in DOMAIN heap'
  <2>1. CASE a = c
    <3>1. \A i \in Interpreters : Clean(heap[d], i) => Clean(r, i)
      BY <1>3, <1>8, <1>11
    <3> QED BY <1>4, <1>11, <1>15, <2>1, <3>1
  <2>2. CASE a # c
    BY <1>15, <2>2 DEF TableInv, Typed
  <2> QED BY <2>1, <2>2
<1> QED BY <1>1, <1>4, <1>13, <1>14, <1>16, <1>17, <1>18, <1>19, <1>20, WritingStep

LEMMA AddFailsTable ==
  ASSUME IInv, TableInv, NEW t \in Threads, AddFails(t)
  PROVE  TableInv'
<1>0. /\ Duty(t) /\ Home[t] \in Interpreters /\ t # None
      /\ call \in [Threads -> Calls] /\ call[t] \in Calls /\ DOMAIN call = Threads
  BY Threaded
<1>1. /\ UNCHANGED <<published, readers, lock, imports, registered>>
      /\ call[t].at = "changing" /\ call[t].op = "import"
  BY DEF AddFails, At
<1> DEFINE d == call[t].data
<1>2. PICK b : b = heap[d]
  OBVIOUS
<1>3. /\ lock = t /\ d \in DOMAIN heap /\ IsTable(b) /\ IsRegistry(b, registered)
      /\ registered \in Registries /\ DOMAIN heap \subseteq Addresses /\ d # None
  BY <1>1, <1>2, InHand
<1>4. PICK p : p = Prepared(b, Home[t])
  OBVIOUS
<1>5. IsTable(p) /\ IsRegistry(p, registered) /\ \A j \in Nat : Clean(b, j) => Clean(p, j)
  BY <1>3, <1>4, PreparedIs
<1>6. Before(t) = p
  BY <1>2, <1>4 DEF Before
<1>7. PICK e \in {d, None} :
         /\ call' = [call EXCEPT ![t].data = e, ![t].at = "failing"]
         /\ e = None => heap' = Without(d) /\ call[t].fresh
         /\ e # None => heap' = [heap EXCEPT ![d] = p]
  <2>1. CASE call[t].fresh /\ ~Before(t).indexed
    BY <2>1, <1>3 DEF AddFails
  <2>2. CASE ~ (call[t].fresh /\ ~Before(t).indexed)
    <3>1. heap' = [heap EXCEPT ![d] = p] /\ call' = [call EXCEPT ![t].at = "failing"]
      BY <2>2, <1>6 DEF AddFails, Goto
    <3>2. call' = [call EXCEPT ![t].data = d, ![t].at = "failing"]
      BY <3>1, <1>0 DEF Calls
    <3> QED BY <3>1, <3>2, <1>3
  <2> QED BY <2>1, <2>2
<1>8. e \in Addresses \cup {None}
  BY <1>3
<1>9. /\ call' \in [Threads -> Calls] /\ \A u \in Threads \ {t} : call'[u] = call[u]
      /\ call'[t].at = "failing" /\ call'[t].op = "import" /\ call'[t].data = e
      /\ call'[t].fresh = call[t].fresh
  BY <1>0, <1>1, <1>7, <1>8 DEF Calls, Labels, Writing
<1>10. /\ DOMAIN heap' \in SUBSET DOMAIN heap
       /\ \A a \in DOMAIN heap' : heap'[a] = IF a = d THEN p ELSE heap[a]
       /\ e # None => d \in DOMAIN heap'
  BY <1>3, <1>7 DEF Without
<1>11. Matching'
  <2>1. Current' = e
    BY <1>0, <1>1, <1>3, <1>9 DEF Current
  <2>2. CASE e = None
    <3>1. Nobody
      BY <1>0, <1>1, <1>7, <2>2 DEF Duty
    <3> QED BY <1>1, <2>1, <2>2, <3>1 DEF Matching, Nobody
  <2>3. CASE e # None
    <3>1. e = d /\ d \in DOMAIN heap' /\ heap'[d] = p
      BY <1>10, <2>3
    <3> QED BY <1>1, <1>5, <2>1, <2>3, <3>1 DEF Matching
  <2> QED BY <2>2, <2>3
<1>12. Duty(t)'
  BY <1>0, <1>1, <1>9 DEF Duty, Looking, Reading, Writing
<1>13. \A u \in Threads : call[u].at \notin Reading
  BY <1>1, WhileChanging
<1>14. /\ DOMAIN heap' \subseteq Addresses /\ call'[t].at \in Writing
       /\ registered' \in Registries
       /\ \A i \in Interpreters \ {Home[t]} : registered'[i] = registered[i]
  BY <1>1, <1>3, <1>9, <1>10 DEF Writing
<1>15. \A a \in DOMAIN heap' :
         /\ IsTable(heap'[a])
         /\ \A i \in Interpreters :
              /\ i # Home[t] /\ registered[i] = None
              /\ \A x \in DOMAIN heap : Clean(heap[x], i)
              => Clean(heap'[a], i)
  <2> TAKE a \in DOMAIN heap'
  <2>1. CASE a = d
    <3>1. \A i \in Interpreters : Clean(heap[d], i) => Clean(p, i)
      BY <1>2, <1>5
    <3> QED BY <1>3, <1>5, <1>10, <2>1, <3>1
  <2>2. CASE a # d
    BY <1>10, <2>2 DEF TableInv, Typed
  <2> QED BY <2>1, <2>2
<1> QED BY <1>1, <1>3, <1>9, <1>11, <1>12, <1>13, <1>14, <1>15, WritingStep

LEMMA RemoveTable ==
  ASSUME IInv, TableInv, NEW t \in Threads, RemoveModule(t)
  PROVE  TableInv'
<1>0. /\ Duty(t) /\ Home[t] \in Interpreters /\ t # None
      /\ call \in [Threads -> Calls] /\ call[t] \in Calls /\ DOMAIN call = Threads
  BY Threaded
<1>1. /\ UNCHANGED <<published, readers, lock, imports>>
      /\ call[t].at = "changing" /\ call[t].op = "remove"
      /\ registered' = [registered EXCEPT ![Home[t]] = None]
  BY DEF RemoveModule, At
<1> DEFINE d == call[t].data
<1>2. PICK b : b = heap[d]
  OBVIOUS
<1>3. /\ lock = t /\ d \in DOMAIN heap /\ IsTable(b) /\ IsRegistry(b, registered)
      /\ registered \in Registries /\ DOMAIN heap \subseteq Addresses /\ d # None
  BY <1>1, <1>2, InHand
<1>4. registered[Home[t]] # None
  BY <1>0, <1>1 DEF Duty
<1>5. PICK r : r = Removed(b, Home[t])
  OBVIOUS
<1>6. PICK reg2 : reg2 = Recorded(registered, Home[t], None)
  OBVIOUS
<1>7. /\ IsTable(r) /\ IsRegistry(r, reg2) /\ r.indexed = b.indexed
      /\ b.indexed => r.count = b.count
      /\ \A j \in Interpreters : registered[j] = None /\ Clean(b, j) => Clean(r, j)
      /\ ~r.indexed /\ r.count = 0 => \A j \in Interpreters : reg2[j] = None
  <2>1. /\ IsTable(b) /\ IsRegistry(b, registered) /\ registered \in Registries
        /\ Home[t] \in Interpreters /\ registered[Home[t]] # None
    BY <1>0, <1>3, <1>4
  <2>2. PICK i \in Interpreters, reg \in Registries : i = Home[t] /\ reg = registered
    BY <2>1
  <2>3. /\ IsTable(b) /\ IsRegistry(b, reg) /\ reg[i] # None
        /\ r = Removed(b, i) /\ reg2 = Recorded(reg, i, None)
    BY <2>1, <2>2, <1>5, <1>6
  <2>4. /\ IsTable(r) /\ IsRegistry(r, reg2) /\ r.indexed = b.indexed
        /\ b.indexed => r.count = b.count
        /\ \A j \in Interpreters : reg[j] = None /\ Clean(b, j) => Clean(r, j)
        /\ ~r.indexed /\ r.count = 0 => \A j \in Interpreters : reg2[j] = None
    BY <2>3, RemovedIs
  <2> QED BY <2>2, <2>4
<1>8. registered' = reg2
  BY <1>1, <1>6 DEF Recorded
<1>9. /\ registered' \in Registries
      /\ \A i \in Interpreters \ {Home[t]} : registered'[i] = registered[i]
  BY <1>0, <1>1, <1>3 DEF Registries
<1>10. PICK e \in {d, None} :
          /\ call' = [call EXCEPT ![t].data = e, ![t].at = "publishing"]
          /\ e = None => heap' = Without(d) /\ ~r.indexed /\ r.count = 0
          /\ e # None => heap' = [heap EXCEPT ![d] = r]
  <2>1. CASE ~r.indexed /\ r.count = 0
    <3>1. /\ heap' = Without(d)
          /\ call' = [call EXCEPT ![t].data = None, ![t].at = "publishing"]
      BY <2>1, <1>2, <1>5 DEF RemoveModule
    <3> QED BY <2>1, <3>1
  <2>2. CASE ~ (~r.indexed /\ r.count = 0)
    <3>1. heap' = [heap EXCEPT ![d] = r] /\ call' = [call EXCEPT ![t].at = "publishing"]
      BY <2>2, <1>2, <1>5 DEF RemoveModule, Goto
    <3>2. call' = [call EXCEPT ![t].data = d, ![t].at = "publishing"]
      BY <3>1, <1>0 DEF Calls
    <3> QED BY <3>1, <3>2, <1>3
  <2> QED BY <2>1, <2>2
<1>11. e \in Addresses \cup {None}
  BY <1>3
<1>12. /\ call' \in [Threads -> Calls] /\ \A u \in Threads \ {t} : call'[u] = call[u]
       /\ call'[t].at = "publishing" /\ call'[t].op = "remove" /\ call'[t].data = e
       /\ call'[t].fresh = call[t].fresh
  BY <1>0, <1>1, <1>10, <1>11 DEF Calls, Labels, Writing
<1>13. /\ DOMAIN heap' \in SUBSET DOMAIN heap
       /\ \A a \in DOMAIN heap' : heap'[a] = IF a = d THEN r ELSE heap[a]
       /\ e # None => d \in DOMAIN heap'
  BY <1>3, <1>10 DEF Without
<1>14. Matching'
  <2>1. Current' = e
    BY <1>0, <1>1, <1>3, <1>12 DEF Current
  <2>2. CASE e = None
    BY <1>7, <1>8, <1>10, <2>1, <2>2 DEF Matching, Nobody
  <2>3. CASE e # None
    <3>1. e = d /\ d \in DOMAIN heap' /\ heap'[d] = r
      BY <1>13, <2>3
    <3> QED BY <1>7, <1>8, <2>1, <2>3, <3>1 DEF Matching
  <2> QED BY <2>2, <2>3
<1>15. Duty(t)'
  BY <1>0, <1>1, <1>12 DEF Duty, Looking, Reading, Writing
<1>16. \A u \in Threads : call[u].at \in Reading =>
         call[u].data = d /\ call[u].data # None /\ b.indexed
  BY <1>1, <1>2, WhileChanging
<1>17. \A u \in Threads \ {t} : call[u].at \in Reading /\ call[u].data # None =>
         Position(heap'[call[u].data], Home[u]) = Position(heap[call[u].data], Home[u])
  <2> SUFFICES ASSUME NEW u \in Threads, call[u].at \in Reading
               PROVE  Position(heap'[d], Home[u]) = Position(heap[d], Home[u])
    BY <1>16
  <2>1. b.indexed /\ r.indexed
    BY <1>16, <1>7
  <2>2. e # None
    BY <1>10, <2>1
  <2>3. heap'[d] = r
    BY <1>13, <2>2
  <2> QED BY <1>2, <1>7, <2>1, <2>3 DEF Position
<1>18. /\ DOMAIN heap' \subseteq Addresses /\ call'[t].at \in Writing
  BY <1>3, <1>12, <1>13 DEF Writing
<1>19. \A a \in DOMAIN heap' :
         /\ IsTable(heap'[a])
         /\ \A i \in Interpreters :
              /\ i # Home[t] /\ registered[i] = None
              /\ \A x \in DOMAIN heap : Clean(heap[x], i)
              => Clean(heap'[a], i)
  <2> TAKE a \in DOMAIN heap'
  <2>1. CASE a = d
    <3>1. \A i \in Interpreters : registered[i] = None /\ Clean(heap[d], i) => Clean(r, i)
      BY <1>2, <1>7
    <3> QED BY <1>3, <1>7, <1>13, <2>1, <3>1
  <2>2. CASE a # d
    BY <1>13, <2>2 DEF TableInv, Typed
  <2> QED BY <2>1, <2>2
<1>20. \A u \in Threads \ {t} : call[u].at \in Reading => call[u].data # None
  BY <1>16
<1> QED BY <1>1, <1>3, <1>9, <1>12, <1>14, <1>15, <1>17, <1>18, <1>19, <1>20, WritingStep

-----------------------------------------------------------------------------
LEMMA InitIsTable == Init => TableInv
<1> SUFFICES ASSUME Init PROVE TableInv
  OBVIOUS
<1>1. /\ published = None /\ lock = None /\ DOMAIN heap = {}
      /\ call = [t \in Threads |-> Idle]
      /\ imports = [i \in Interpreters |-> [phase |-> "absent", by |-> None, made |-> 0]]
      /\ registered = [i \in Interpreters |-> None]
  BY DEF Init
<1>2. Idle \in Calls /\ [phase |-> "absent", by |-> None, made |-> 0] \in Imports
  BY DEF Idle, Calls, Labels, Imports, Phases
<1>3. Typed
  BY <1>1, <1>2 DEF Typed, Registries
<1>4. Matching /\ Living
  BY <1>1 DEF Matching, Current, Nobody, Living, Alive
<1>5. ASSUME NEW t \in Threads PROVE Duty(t) /\ Sees(t)
  <2>1. call[t] = Idle /\ call[t].at = "idle" /\ call[t].op = "none" /\ call[t].fresh = FALSE
    BY <1>1 DEF Idle
  <2> QED BY <2>1 DEF Duty, Sees, Reading
<1> QED BY <1>3, <1>4, <1>5 DEF TableInv

LEMMA NextKeepsTable == IInv /\ TableInv /\ [Next]_vars => TableInv'
<1> SUFFICES ASSUME IInv, TableInv, [Next]_vars PROVE TableInv'
  OBVIOUS
<1>1. ASSUME NEW t \in Threads, Lookup(t) PROVE TableInv'
  BY <1>1, LookupMoves, LocateStep, LookupEnds, CreateStep DEF Lookup
<1>2. ASSUME NEW t \in Threads, Update(t) PROVE TableInv'
  BY <1>2, TakeTable, AllocateTable, WaitSteps, AddTable, AddFailsTable, RemoveTable,
     PublishTable DEF Update
<1>3. ASSUME NEW t \in Threads, Program(t) PROVE TableInv'
  BY <1>3, BeginCalls, BeginClearStep, FinishStep DEF Program, Succeed, Fail
<1>4. ASSUME NEW i \in Interpreters, Deallocate(i) PROVE TableInv'
  BY <1>4, DeallocateStep
<1>5. CASE UNCHANGED vars
  <2>1. UNCHANGED <<published, lock, heap, call, imports, registered>>
    BY <1>5 DEF vars
  <2> QED BY <2>1 DEF TableInv, Typed, Matching, Current, Nobody, Living, Duty, Sees,
                      NothingToRead
<1> QED BY <1>1, <1>2, <1>3, <1>4, <1>5 DEF Next

LEMMA TableInvariant == Spec => [](IInv /\ TableInv)
<1>1. Init => IInv /\ TableInv
  BY InitIsSafe, InitIsTable
<1>2. IInv /\ TableInv /\ [Next]_vars => (IInv /\ TableInv)'
  BY NextIsSafe, NextKeepsTable
<1> QED BY <1>1, <1>2, PTL DEF Spec

\* The state of ModuleSetupCode.c's table stays within its types, for any number of
\* threads and interpreters: the counter of readers never wraps, and no table counts
\* more entries than it has slots.
THEOREM TypeCorrect == Spec => []TypeOK
<1>1. IInv /\ TableInv => TypeOK
  <2> SUFFICES ASSUME IInv, TableInv PROVE TypeOK
    OBVIOUS
  <2>1. IsFiniteSet(Threads) /\ Readers \in SUBSET Threads
    BY DEF Readers
  <2>2. Cardinality(Readers) \in Nat /\ Cardinality(Threads) \in Nat
        /\ Cardinality(Readers) <= Cardinality(Threads)
    BY <2>1, FS_Subset, FS_CardinalityType
  <2>3. readers \in 0 .. Cardinality(Threads)
    BY <2>2 DEF IInv, Counting
  <2>4. ASSUME NEW b \in Blocks
        PROVE  /\ b.indexed \in BOOLEAN /\ DOMAIN b.table = 0 .. allocated(b) - 1
               /\ b.count \in 0 .. allocated(b)
    <3>1. IsTable(b)
      BY DEF Blocks, TableInv, Typed
    <3>2. PICK n \in Nat \ {0} : allocated(b) = n /\ b \in TableOf(n)
      BY <3>1, TableIs
    <3> QED BY <3>2, TableParts
  <2>5. lock \in Threads \cup {None}
    BY DEF IInv, Exclusion
  <2> QED BY <2>3, <2>4, <2>5 DEF TypeOK, TableInv, Typed, Calls, Imports, Registries
<1> QED BY <1>1, TableInvariant, PTL

\* Whenever no writer is at work the table that AddModule and RemoveModule
\* (ModuleSetupCode.c:3010-3160) have left is the registry, for any number of
\* interpreters: through every doubling, conversion, insertion and removal.
THEOREM TableIsRegistry == Spec => []TableMatches
<1>1. IInv /\ TableInv => TableMatches
  <2> SUFFICES ASSUME IInv, TableInv, lock = None
               PROVE  LET known == {i \in Interpreters : registered[i] # None}
                      IN  IF published = None THEN known = {}
                          ELSE LET b == heap[published]
                               IN  IF b.indexed
                                   THEN \A i \in Interpreters :
                                          registered[i] = IF i < b.count THEN b.table[i].module
                                                                         ELSE None
                                   ELSE /\ {b.table[k] : k \in Entries(b)} =
                                             {[id |-> i, module |-> registered[i]] : i \in known}
                                        /\ \A j, k \in Entries(b) :
                                             j < k => b.table[j].id < b.table[k].id
    BY DEF TableMatches
  <2> DEFINE known == {i \in Interpreters : registered[i] # None}
             b == heap[published]
  <2>1. Matching /\ Current = published
    BY DEF TableInv, Current
  <2>2. CASE published = None
    BY <2>1, <2>2 DEF Matching, Nobody
  <2>3. CASE published # None
    <3>1. IsTable(b) /\ IsRegistry(b, registered)
      BY <2>1, <2>3 DEF Matching, TableInv, Typed
    <3>2. PICK n \in Nat \ {0} : b \in TableOf(n)
      BY <3>1, TableIs
    <3>3. /\ DOMAIN b.table = 0 .. n - 1 /\ b.count \in 0 .. n
          /\ Entries(b) = {k \in 0 .. n - 1 : k < b.count}
          /\ \A k \in 0 .. n - 1 : b.table[k] \in Slot
      BY <3>2, TableParts
    <3> HIDE DEF b
    <3>4. CASE b.indexed
      <4>1. IndexedBy(b, registered)
        BY <3>1, <3>4 DEF IsRegistry
      <4>2. ASSUME NEW i \in Interpreters
            PROVE  registered[i] = IF i < b.count THEN b.table[i].module ELSE None
        <5>1. CASE i < b.count
          <6>1. i \in 0 .. n - 1
            BY <3>3, <5>1
          <6>2. b.table[i] = [id |-> i, module |-> RegisteredAs(registered, i)]
            BY <3>3, <4>1, <6>1 DEF IndexedBy
          <6>3. b.table[i].module = registered[i]
            BY <6>2 DEF RegisteredAs
          <6> QED BY <5>1, <6>3
        <5>2. CASE ~ (i < b.count)
          BY <4>1, <5>2 DEF IndexedBy
        <5> QED BY <5>1, <5>2
      <4> QED BY <2>3, <3>4, <4>2 DEF b
    <3>5. CASE ~b.indexed
      <4>1. SortedBy(b, registered)
        BY <3>1, <3>5 DEF IsRegistry
      <4>2. \A k \in Entries(b) : b.table[k] = [id |-> b.table[k].id, module |-> b.table[k].module]
        BY <3>3 DEF Slot
      <4>3. \A s : s \in {b.table[k] : k \in Entries(b)} <=>
                   s \in {[id |-> i, module |-> registered[i]] : i \in known}
        <5> TAKE s
        <5>1. ASSUME NEW k \in Entries(b), s = b.table[k]
              PROVE  s \in {[id |-> i, module |-> registered[i]] : i \in known}
          <6>1. PICK i : i = b.table[k].id
            OBVIOUS
          <6>2. i \in known /\ b.table[k].module = registered[i]
            BY <4>1, <6>1 DEF SortedBy
          <6>3. s = [id |-> i, module |-> registered[i]]
            BY <4>2, <5>1, <6>1, <6>2
          <6> QED BY <6>2, <6>3
        <5>2. ASSUME NEW i \in known, s = [id |-> i, module |-> registered[i]]
              PROVE  s \in {b.table[k] : k \in Entries(b)}
          <6>1. PICK k \in Entries(b) : b.table[k].id = i
            BY <4>1 DEF SortedBy
          <6>2. b.table[k].module = registered[i]
            BY <4>1, <6>1 DEF SortedBy
          <6>3. s = b.table[k]
            BY <4>2, <5>2, <6>1, <6>2
          <6> QED BY <6>3
        <5> QED BY <5>1, <5>2
      <4>4. {b.table[k] : k \in Entries(b)} =
              {[id |-> i, module |-> registered[i]] : i \in known}
        BY <4>3
      <4>5. \A j, k \in Entries(b) : j < k => b.table[j].id < b.table[k].id
        BY <4>1 DEF SortedBy
      <4> QED BY <2>3, <3>5, <4>4, <4>5 DEF b
    <3> QED BY <3>4, <3>5
  <2> QED BY <2>2, <2>3
<1> QED BY <1>1, TableInvariant, PTL

\* RemoveModule (ModuleSetupCode.c:3112) uses the pointer that it took without a
\* test, and may: a module that is still registered is in a table, so that there is one.
THEOREM RemovalsFindATable == Spec => []RemovalsHaveATable
<1>1. IInv /\ TableInv => RemovalsHaveATable
  <2> SUFFICES ASSUME IInv, TableInv, NEW t \in Threads, call[t].at = "taken"
               PROVE  call[t].op = "import"
    BY DEF RemovalsHaveATable, At
  <2>1. lock = t /\ t # None /\ call[t].data = None /\ call[t].op \in {"import", "remove"}
    BY DEF IInv, Exclusion, Hands, Writing
  <2>2. Nobody
    BY <2>1 DEF TableInv, Matching, Current
  <2>3. call[t].op = "remove" => registered[Home[t]] # None
    BY DEF TableInv, Duty
  <2> QED BY <2>1, <2>2, <2>3, HomeAssumption DEF Nobody
<1> QED BY <1>1, TableInvariant, PTL

\* FindModule (ModuleSetupCode.c:2886) answers what its interpreter has registered at
\* that moment, for any number of threads that import, use and remove.  The slots
\* behind the last entry must not be met, which is what an empty Lanes says; with the
\* lane the same holds of every interpreter that has registered a module.
THEOREM LookupsAreCurrent ==
  ASSUME Lanes = {}
  PROVE  Spec => []LookupIsCurrent
<1>1. IInv /\ TableInv => LookupIsCurrent
  BY ResultsAre DEF LookupIsCurrent, At
<1> QED BY <1>1, TableInvariant, PTL
=============================================================================
