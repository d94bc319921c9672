--------------------------- MODULE CodeObjectCache ---------------------------
(* The cache of code objects for tracebacks (ModuleSetupCode.c,              *)
(* CodeObjectCache) in a free-threaded build: a table sorted by line and one *)
(* atomic counter, positive while threads read the table, negative while one *)
(* writes it.  Nobody waits: a reader that meets a writer misses, a writer   *)
(* that meets anybody gives up.  The callers are the threads that raise,     *)
(* each running __Pyx_AddTraceback (Exceptions.c).  The body of every        *)
(* function is cut at each access to the counter, the table or a reference   *)
(* count; the atomics are sequentially consistent.                           *)
EXTENDS Integers, Sequences, FiniteSets

CONSTANTS Workers,     \* threads that add tracebacks
          TraceLines,  \* line numbers they look up; 0 means "no line"
          CodeObjects, \* code objects, by address: a freed one can be made again
          INT_MIN,     \* what a writer adds to the counter
          Chunk,       \* entries added to the table by an allocation (64)
          NoObject     \* NULL

ASSUME WorkersAssumption ==
    /\ IsFiniteSet(Workers)
    /\ INT_MIN \in Int
    /\ INT_MIN + Cardinality(Workers) < 0
ASSUME CacheAssumption ==
    /\ TraceLines \subseteq Int
    /\ NoObject \notin CodeObjects
    /\ Chunk \in Nat \ {0}

VARIABLES accessor_count, \* code_cache->accessor_count
          entries,        \* code_cache->entries[0..count-1], and the cell being filled
          count,          \* code_cache->count
          max_count,      \* code_cache->max_count; 0 when entries is NULL
          refcnt,         \* ob_refcnt of each code object; 0 when it is freed
          code_line,      \* the line each code object was made for
          worker          \* what each thread is doing

tableVars == <<entries, count, max_count>>
codeVars == <<accessor_count, tableVars, refcnt, code_line, worker>>

Reading == {"locating", "found", "leaving"}
Writing == {"writing", "shifting", "stored", "replacing", "releasing"}
AtPlaces == {"idle", "entering", "turning", "missed", "made", "using"}
                \cup Reading \cup Writing

\* A worker holds a line, the object it found or made, and the object or the
\* position it is replacing or filling.
IdleWorker == [at |-> "idle", line |-> 0, object |-> NoObject, tmp |-> NoObject, pos |-> 0]

------------------------------------------------------------------------------
(* __pyx_bisect_code_objects: C positions, from 0.  "mid" is what the last   *)
(* turn of the loop left in it, not the middle of the last interval.         *)
LineAt(table, i) == table[i + 1].line
Spans(n) == [start : 0 .. n, end : 0 .. n, mid : 0 .. n]

\* The loop and the comparison behind it.
BisectLoop(table, n, line) ==
    LET narrow[s \in Spans(n)] ==
            LET m == s.start + (s.end - s.start) \div 2
            IN  IF s.start >= s.end
                THEN IF line <= LineAt(table, s.mid) THEN s.mid ELSE s.mid + 1
                ELSE IF line < LineAt(table, m)
                THEN narrow[[start |-> s.start, end |-> m, mid |-> m]]
                ELSE IF line > LineAt(table, m)
                THEN narrow[[start |-> m + 1, end |-> s.end, mid |-> m]]
                ELSE m
    IN  narrow[[start |-> 0, end |-> n - 1, mid |-> 0]]

\* Mutant: a line past the end is not told from the others.
Mut_BisectTail(table, n, line) == BisectLoop(table, n, line)

Bisect(table, n, line) ==
    IF n > 0 /\ line > LineAt(table, n - 1) THEN n ELSE BisectLoop(table, n, line)

\* The position Bisect returns holds this very line.
HitAt(pos, line) == pos < count /\ LineAt(entries, pos) = line

------------------------------------------------------------------------------
CodeInit ==
    /\ accessor_count = 0
    /\ entries = <<>> /\ count = 0 /\ max_count = 0
    /\ refcnt = [o \in CodeObjects |-> 0]
    /\ code_line = [o \in CodeObjects |-> 0]
    /\ worker = [w \in Workers |-> IdleWorker]

Goes(w, place) == worker' = [worker EXCEPT ![w].at = place]

\* AddTraceback for one line; it asks the cache first.
AddTraceback(w) ==
    /\ worker[w].at = "idle"
    /\ \E line \in TraceLines :
          worker' = [worker EXCEPT ![w].at = "entering", ![w].line = line]
    /\ UNCHANGED <<accessor_count, tableVars, refcnt, code_line>>

\* find: increment; the old count says whether somebody is writing.
CountIn(w) ==
    /\ worker[w].at = "entering"
    /\ accessor_count' = accessor_count + 1
    /\ Goes(w, IF accessor_count < 0 THEN "turning" ELSE "locating")
    /\ UNCHANGED <<tableVars, refcnt, code_line>>

\* Mutant: it forgets to count itself out again.
Mut_TurnBack(w) ==
    /\ worker[w].at = "turning"
    /\ Goes(w, "missed")
    /\ UNCHANGED <<accessor_count, tableVars, refcnt, code_line>>

TurnBack(w) ==
    /\ worker[w].at = "turning"
    /\ accessor_count' = accessor_count - 1
    /\ Goes(w, "missed")
    /\ UNCHANGED <<tableVars, refcnt, code_line>>

Locate(w) ==
    /\ worker[w].at = "locating"
    /\ LET line == worker[w].line
           hit == /\ line # 0 /\ max_count # 0
                  /\ HitAt(Bisect(entries, count, line), line)
       IN  IF hit
           THEN worker' = [worker EXCEPT ![w].at = "found",
                    ![w].object = entries[Bisect(entries, count, line) + 1].object]
           ELSE Goes(w, "leaving")
    /\ UNCHANGED <<accessor_count, tableVars, refcnt, code_line>>

\* Py_INCREF of what was read, still inside.
TakeReference(w) ==
    /\ worker[w].at = "found"
    /\ refcnt' = [refcnt EXCEPT ![worker[w].object] = @ + 1]
    /\ Goes(w, "leaving")
    /\ UNCHANGED <<accessor_count, tableVars, code_line>>

CountOut(w) ==
    /\ worker[w].at = "leaving"
    /\ accessor_count' = accessor_count - 1
    /\ Goes(w, IF worker[w].object = NoObject THEN "missed" ELSE "using")
    /\ UNCHANGED <<tableVars, refcnt, code_line>>

\* A miss makes a code object; failing that, AddTraceback gives up.
MakeCodeObject(w) ==
    /\ worker[w].at = "missed"
    /\ \/ \E o \in CodeObjects :
             /\ refcnt[o] = 0
             /\ refcnt' = [refcnt EXCEPT ![o] = 1]
             /\ code_line' = [code_line EXCEPT ![o] = worker[w].line]
             /\ worker' = [worker EXCEPT ![w].at = "made", ![w].object = o]
       \/ worker' = [worker EXCEPT ![w] = IdleWorker] /\ UNCHANGED <<refcnt, code_line>>
    /\ UNCHANGED <<accessor_count, tableVars>>

\* Mutant: only another writer keeps a writer out.
Mut_ClaimTable(w) ==
    /\ worker[w].at = "made"
    /\ IF accessor_count >= 0
       THEN accessor_count' = accessor_count + INT_MIN /\ Goes(w, "writing")
       ELSE UNCHANGED accessor_count /\ Goes(w, "using")
    /\ UNCHANGED <<tableVars, refcnt, code_line>>

\* insert: 0 becomes INT_MIN, or the object is not cached.
ClaimTable(w) ==
    /\ worker[w].at = "made"
    /\ IF accessor_count = 0
       THEN accessor_count' = INT_MIN /\ Goes(w, "writing")
       ELSE UNCHANGED accessor_count /\ Goes(w, "using")
    /\ UNCHANGED <<tableVars, refcnt, code_line>>

\* No line, or no memory for the table or for its growth: nothing is stored.
CannotStore(w) ==
    /\ worker[w].at = "writing"
    /\ worker[w].line = 0 \/ max_count = 0 \/ count = max_count
    /\ worker[w].line # 0 /\ max_count # 0 =>
          ~HitAt(Bisect(entries, count, worker[w].line), worker[w].line)
    /\ Goes(w, "releasing")
    /\ UNCHANGED <<accessor_count, tableVars, refcnt, code_line>>

FirstEntry(w) ==
    /\ worker[w].at = "writing" /\ worker[w].line # 0 /\ max_count = 0
    /\ entries' = <<[line |-> worker[w].line, object |-> worker[w].object]>>
    /\ count' = 1 /\ max_count' = Chunk
    /\ Goes(w, "stored")
    /\ UNCHANGED <<accessor_count, refcnt, code_line>>

\* The line was cached meanwhile: its object is exchanged.
ReplaceEntry(w) ==
    /\ worker[w].at = "writing" /\ worker[w].line # 0 /\ max_count # 0
    /\ LET pos == Bisect(entries, count, worker[w].line)
       IN  /\ HitAt(pos, worker[w].line)
           /\ entries' = [entries EXCEPT ![pos + 1].object = worker[w].object]
           /\ worker' = [worker EXCEPT ![w].at = "stored",
                                       ![w].tmp = entries[pos + 1].object]
    /\ UNCHANGED <<accessor_count, count, max_count, refcnt, code_line>>

\* A new line: the table grows by a chunk when it is full, and the entries
\* after the position move up.
MakeRoom(w) ==
    /\ worker[w].at = "writing" /\ worker[w].line # 0 /\ max_count # 0
    /\ LET pos == Bisect(entries, count, worker[w].line)
       IN  /\ ~HitAt(pos, worker[w].line)
           /\ max_count' = IF count = max_count THEN max_count + Chunk ELSE max_count
           /\ entries' = [i \in 1 .. count + 1 |->
                            IF i <= pos \/ (i = pos + 1 /\ i <= count)
                            THEN entries[i]
                            ELSE IF i = pos + 1
                            THEN [line |-> 0, object |-> NoObject]
                            ELSE entries[i - 1]]
           /\ worker' = [worker EXCEPT ![w].at = "shifting", ![w].pos = pos]
    /\ UNCHANGED <<accessor_count, count, refcnt, code_line>>

FillEntry(w) ==
    /\ worker[w].at = "shifting"
    /\ entries' = [entries EXCEPT ![worker[w].pos + 1] =
                      [line |-> worker[w].line, object |-> worker[w].object]]
    /\ count' = count + 1
    /\ worker' = [worker EXCEPT ![w].at = "stored", ![w].pos = 0]
    /\ UNCHANGED <<accessor_count, max_count, refcnt, code_line>>

\* Mutant: the object taken out of the table is never released.
Mut_OwnEntry(w) ==
    /\ worker[w].at = "stored"
    /\ refcnt' = [refcnt EXCEPT ![worker[w].object] = @ + 1]
    /\ worker' = [worker EXCEPT ![w].at = "releasing", ![w].tmp = NoObject]
    /\ UNCHANGED <<accessor_count, tableVars, code_line>>

\* Py_INCREF for the table's reference.
OwnEntry(w) ==
    /\ worker[w].at = "stored"
    /\ refcnt' = [refcnt EXCEPT ![worker[w].object] = @ + 1]
    /\ Goes(w, IF worker[w].tmp = NoObject THEN "releasing" ELSE "replacing")
    /\ UNCHANGED <<accessor_count, tableVars, code_line>>

DropReplaced(w) ==
    /\ worker[w].at = "replacing"
    /\ refcnt' = [refcnt EXCEPT ![worker[w].tmp] = @ - 1]
    /\ worker' = [worker EXCEPT ![w].at = "releasing", ![w].tmp = NoObject]
    /\ UNCHANGED <<accessor_count, tableVars, code_line>>

\* Mutant: INT_MIN is added instead of subtracted.
Mut_ReleaseTable(w) ==
    /\ worker[w].at = "releasing"
    /\ accessor_count' = accessor_count + INT_MIN
    /\ Goes(w, "using")
    /\ UNCHANGED <<tableVars, refcnt, code_line>>

ReleaseTable(w) ==
    /\ worker[w].at = "releasing"
    /\ accessor_count' = accessor_count - INT_MIN
    /\ Goes(w, "using")
    /\ UNCHANGED <<tableVars, refcnt, code_line>>

\* The frame is made from the object and AddTraceback drops its reference.
EndTraceback(w) ==
    /\ worker[w].at = "using"
    /\ refcnt' = [refcnt EXCEPT ![worker[w].object] = @ - 1]
    /\ worker' = [worker EXCEPT ![w] = IdleWorker]
    /\ UNCHANGED <<accessor_count, tableVars, code_line>>

Holding(o) == Cardinality({i \in 1 .. count : entries[i].object = o})

\* The module is cleaned up when no thread runs its code.
CleanUpCache ==
    /\ \A w \in Workers : worker[w].at = "idle"
    /\ max_count # 0
    /\ refcnt' = [o \in CodeObjects |-> refcnt[o] - Holding(o)]
    /\ entries' = <<>> /\ count' = 0 /\ max_count' = 0
    /\ UNCHANGED <<accessor_count, code_line, worker>>

WorkerStep(w) ==
    \/ AddTraceback(w) \/ CountIn(w) \/ TurnBack(w) \/ Locate(w)
    \/ TakeReference(w) \/ CountOut(w) \/ MakeCodeObject(w) \/ ClaimTable(w)
    \/ CannotStore(w) \/ FirstEntry(w) \/ ReplaceEntry(w) \/ MakeRoom(w)
    \/ FillEntry(w) \/ OwnEntry(w) \/ DropReplaced(w) \/ ReleaseTable(w)
    \/ EndTraceback(w)

CodeNext == CleanUpCache \/ \E w \in Workers : WorkerStep(w)

CodeSpec == CodeInit /\ [][CodeNext]_codeVars

------------------------------------------------------------------------------
WorkerType == [at : AtPlaces, line : Int, object : CodeObjects \cup {NoObject},
               tmp : CodeObjects \cup {NoObject}, pos : Nat]

\* The variables keep their types; the counter stays within an int.
CodeTypeOK ==
    /\ accessor_count \in INT_MIN .. Cardinality(Workers)
    /\ entries \in Seq([line : Int, object : CodeObjects \cup {NoObject}])
    /\ count \in Nat /\ max_count \in Nat
    /\ refcnt \in [CodeObjects -> Int]
    /\ code_line \in [CodeObjects -> Int]
    /\ worker \in [Workers -> WorkerType]

InTable == {w \in Workers : worker[w].at \in Reading \cup {"turning"}}
Writers == {w \in Workers : worker[w].at \in Writing}

\* While a thread writes the table no other thread writes it and none reads
\* it: those that counted themselves in meanwhile have turned back.  This is
\* what the sign of accessor_count is for.
WriterIsAlone ==
    \A w \in Writers, v \in Workers :
        v # w => worker[v].at \notin Reading \cup Writing

\* The counter is the number of threads inside, less INT_MIN for a writer: no
\* path through find or insert forgets to count itself out, so a table left
\* alone can always be claimed again.
CounterIsAccessors ==
    accessor_count = Cardinality(InTable) + (IF Writers = {} THEN 0 ELSE INT_MIN)

\* The cells of the table that own a reference: all but the one being filled.
Cells == DOMAIN entries
            \ {worker[w].pos + 1 : w \in {v \in Workers : worker[v].at = "shifting"}}

\* Every code object has exactly the references that the table and the threads
\* own (those between a store and its Py_INCREF are still owed), and nobody
\* holds a freed one: a failed store leaks nothing, and an object exchanged in
\* the table is not freed under a thread that found it.
CodeReferencesMatch ==
    /\ \A o \in CodeObjects :
          LET owned == {w \in Workers : worker[w].object = o /\ worker[w].at # "found"}
              taken_out == {w \in Workers : worker[w].tmp = o}
              owed == {w \in Workers : worker[w].object = o /\ worker[w].at = "stored"}
          IN  refcnt[o] + Cardinality(owed) =
                 Cardinality(owned) + Cardinality(taken_out)
                    + Cardinality({i \in Cells : entries[i].object = o})
    /\ \A w \in Workers : worker[w].object # NoObject => refcnt[worker[w].object] > 0

\* Whenever no thread is writing, the lines ascend strictly and every entry's
\* object was made for its line; and what a thread takes out for its traceback
\* was made for the line it asked for.
CacheIsRight ==
    /\ Writers = {} =>
          /\ count = Len(entries) /\ count <= max_count
          /\ \A i, j \in 1 .. count : i < j => entries[i].line < entries[j].line
          /\ \A i \in 1 .. count : code_line[entries[i].object] = entries[i].line
    /\ \A w \in Workers :
          worker[w].object # NoObject => code_line[worker[w].object] = worker[w].line
==============================================================================
