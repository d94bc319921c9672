-------------------------- MODULE MemoryviewSlices --------------------------
(* Typed memoryviews shared between threads (MemoryView_C.c, MemoryView.pyx, *)
(* MemoryView.py).  A slice is a C struct that points to a memoryview object *)
(* and is copied without the GIL: the object's acquisition_count counts the  *)
(* slices, and all of them together own one Python reference, taken when the *)
(* count leaves zero and given back when it returns to it.  The count and    *)
(* the reference are changed by separate steps of several threads.  A slice  *)
(* passed back to Python is an object of its own (_memoryviewslice) with a   *)
(* slice inside, so freeing one object may release the next.                 *)
(* The atomics are sequentially consistent; one variable is written by one   *)
(* thread at a time, as the language asks of its users.                      *)
EXTENDS Integers, FiniteSets

CONSTANTS Threads,
          Views,    \* memoryview objects, by address
          Slices,   \* slice variables of the program
          Names,    \* Python references of the program
          NoView    \* NULL

ASSUME ViewsAssumption ==
    /\ IsFiniteSet(Slices) /\ IsFiniteSet(Views) /\ IsFiniteSet(Names)
    /\ IsFiniteSet(Threads)
    /\ NoView \notin Views \cup Slices \cup Names
    /\ Views \cap Slices = {} /\ Names \cap (Views \cup Slices) = {}

VARIABLES ob_refcnt,         \* of each object; 0 when it is freed
          acquisition_count, \* memview->acquisition_count
          memview,           \* slice.memview of each variable, and the
                             \* from_slice.memview of each object
          name,              \* what each Python reference refers to
          job                \* what each thread is doing

viewVars == <<ob_refcnt, acquisition_count, memview, name, job>>

ViewCells == Slices \cup Views

\* A job releases what "clearing" holds, drops a reference to "object", then
\* acquires "view" and stores it in "dst"; it reads "src".
NoJob == [at |-> "idle", clearing |-> NoView, object |-> NoView,
          view |-> NoView, dst |-> NoView, src |-> NoView, moves |-> FALSE]

------------------------------------------------------------------------------
ViewInit ==
    /\ ob_refcnt = [v \in Views |-> 0]
    /\ acquisition_count = [v \in Views |-> 0]
    /\ memview = [c \in ViewCells |-> NoView]
    /\ name = [n \in Names |-> NoView]
    /\ job = [t \in Threads |-> NoJob]

\* No thread is writing, or none is using, this variable.
NotWritten(c) == \A t \in Threads : job[t].dst # c /\ job[t].clearing # c
                                       /\ ~(job[t].src = c /\ job[t].moves)
NotUsed(c) == NotWritten(c) /\ \A t \in Threads : job[t].src # c

Fresh(v) == ob_refcnt[v] = 0 /\ memview[v] = NoView /\ NotUsed(v)

\* Where a job goes when there is nothing more to release: to the end, to the
\* store of what it moves, or to the acquisition.
AfterRelease(j) ==
    IF j.view = NoView THEN NoJob
    ELSE [j EXCEPT !.at = IF j.moves THEN "store" ELSE "inc",
                   !.clearing = NoView, !.object = NoView]

IdleJob(t) == job[t].at = "idle"

\* put_assign_to_memviewslice: the old value of the variable is released, then
\* the new one is acquired or, from a temporary, taken over.
Assigns(t, dst, view, src, moves) ==
    LET j == [NoJob EXCEPT !.dst = dst, !.view = view, !.src = src, !.moves = moves]
    IN  job' = [job EXCEPT ![t] = IF memview[dst] = NoView THEN AfterRelease(j)
                                  ELSE [j EXCEPT !.at = "clear", !.clearing = dst]]

\* memoryview(obj): a Python object, not acquired yet.
NewView(t) ==
    /\ IdleJob(t)
    /\ \E v \in Views, n \in Names :
          /\ Fresh(v) /\ name[n] = NoView /\ NotUsed(n)
          /\ ob_refcnt' = [ob_refcnt EXCEPT ![v] = 1]
          /\ name' = [name EXCEPT ![n] = v]
    /\ UNCHANGED <<acquisition_count, memview, job>>

\* A slice of any other object: the memoryview made for it has no other owner,
\* and its first acquisition takes over the new reference.
SliceOfObject(t) ==
    /\ IdleJob(t)
    /\ \E v \in Views, s \in Slices :
          /\ Fresh(v) /\ memview[s] = NoView /\ NotUsed(s)
          /\ ob_refcnt' = [ob_refcnt EXCEPT ![v] = 1]
          /\ acquisition_count' = [acquisition_count EXCEPT ![v] = @ + 1]
          /\ memview' = [memview EXCEPT ![s] = v]
    /\ UNCHANGED <<name, job>>

\* A slice of a memoryview object of the same item type, whose reference the
\* caller keeps meanwhile.
SliceOfView(t) ==
    /\ IdleJob(t)
    /\ \E n \in Names, s \in Slices :
          /\ name[n] # NoView /\ NotWritten(n)
          /\ memview[s] = NoView /\ NotUsed(s)
          /\ Assigns(t, s, name[n], n, FALSE)
    /\ UNCHANGED <<ob_refcnt, acquisition_count, memview, name>>

\* dst = src, from another variable.
AssignSlice(t) ==
    /\ IdleJob(t)
    /\ \E src, dst \in Slices :
          /\ src # dst /\ memview[src] # NoView
          /\ NotWritten(src) /\ NotUsed(dst)
          /\ Assigns(t, dst, memview[src], src, FALSE)
    /\ UNCHANGED <<ob_refcnt, acquisition_count, memview, name>>

\* dst = <an owned temporary>: the temporary gives its share away.
AssignTemporary(t) ==
    /\ IdleJob(t)
    /\ \E src, dst \in Slices :
          /\ src # dst /\ memview[src] # NoView
          /\ NotUsed(src) /\ NotUsed(dst)
          /\ Assigns(t, dst, memview[src], src, TRUE)
    /\ UNCHANGED <<ob_refcnt, acquisition_count, memview, name>>

\* Mutant: the comparison of the two objects is forgotten.
Mut_AssignSlicing(t) ==
    /\ IdleJob(t)
    /\ \E src, dst \in Slices :
          /\ memview[src] # NoView
          /\ NotWritten(src) /\ NotUsed(dst)
          /\ Assigns(t, dst, memview[src], src, FALSE)
    /\ UNCHANGED <<ob_refcnt, acquisition_count, memview, name>>

\* dst = src[...], perhaps of the same variable.  The slicing is a borrowed
\* temporary; when both are slices of one object, dst keeps its share.
AssignSlicing(t) ==
    /\ IdleJob(t)
    /\ \E src, dst \in Slices :
          /\ memview[src] \notin {NoView, memview[dst]}
          /\ NotWritten(src) /\ NotUsed(dst)
          /\ Assigns(t, dst, memview[src], src, FALSE)
    /\ UNCHANGED <<ob_refcnt, acquisition_count, memview, name>>

\* memoryview_fromslice, of a slice or of what another object shows (copy,
\* transpose, slicing in Python): a new object with a slice inside.
ShownBy(v) == IF memview[v] = NoView THEN v ELSE memview[v]

ObjectOfSlice(t) ==
    /\ IdleJob(t)
    /\ \E v \in Views, n \in Names :
          /\ Fresh(v) /\ name[n] = NoView /\ NotUsed(n)
          /\ \/ \E s \in Slices :
                   memview[s] # NoView /\ NotWritten(s) /\ Assigns(t, v, memview[s], s, FALSE)
             \/ \E m \in Names :
                   name[m] # NoView /\ NotWritten(m) /\ NotWritten(name[m])
                     /\ Assigns(t, v, ShownBy(name[m]), m, FALSE)
          /\ ob_refcnt' = [ob_refcnt EXCEPT ![v] = 1]
          /\ name' = [name EXCEPT ![n] = v]
    /\ UNCHANGED <<acquisition_count, memview>>

\* A slice variable goes out of scope; a Python reference is dropped.
EndSlice(t) ==
    /\ IdleJob(t)
    /\ \E s \in Slices :
          /\ memview[s] # NoView /\ NotUsed(s)
          /\ job' = [job EXCEPT ![t] = [NoJob EXCEPT !.at = "clear", !.clearing = s]]
    /\ UNCHANGED <<ob_refcnt, acquisition_count, memview, name>>

EndName(t) ==
    /\ IdleJob(t)
    /\ \E n \in Names :
          /\ name[n] # NoView /\ NotUsed(n) /\ NotWritten(name[n])
          /\ job' = [job EXCEPT ![t] = [NoJob EXCEPT !.at = "decref", !.object = name[n]]]
          /\ name' = [name EXCEPT ![n] = NoView]
    /\ UNCHANGED <<ob_refcnt, acquisition_count, memview>>

\* __Pyx_XCLEAR_MEMVIEW: the count first; the last slice drops the reference,
\* after waiting for the GIL where the thread does not hold it.
XClear(t) ==
    /\ job[t].at = "clear"
    /\ LET c == job[t].clearing
           v == memview[c]
       IN  /\ acquisition_count' = [acquisition_count EXCEPT ![v] = @ - 1]
           /\ memview' = [memview EXCEPT ![c] = NoView]
           /\ job' = [job EXCEPT ![t] =
                 IF acquisition_count[v] > 1 THEN AfterRelease(@)
                 ELSE [@ EXCEPT !.at = "decref", !.object = v, !.clearing = NoView]]
    /\ UNCHANGED <<ob_refcnt, name>>

\* Py_DECREF; the last one frees the object, and __dealloc__ of a
\* _memoryviewslice releases the slice inside it.
Decref(t) ==
    /\ job[t].at = "decref"
    /\ LET v == job[t].object
       IN  /\ ob_refcnt' = [ob_refcnt EXCEPT ![v] = @ - 1]
           /\ job' = [job EXCEPT ![t] =
                 IF ob_refcnt[v] = 1 /\ memview[v] # NoView
                 THEN [@ EXCEPT !.at = "clear", !.clearing = v, !.object = NoView]
                 ELSE AfterRelease(@)]
    /\ UNCHANGED <<acquisition_count, memview, name>>

\* Mutant: the first acquisition takes no reference.
Mut_IncMemview(t) ==
    /\ job[t].at = "inc"
    /\ acquisition_count' = [acquisition_count EXCEPT ![job[t].view] = @ + 1]
    /\ job' = [job EXCEPT ![t].at = "store"]
    /\ UNCHANGED <<ob_refcnt, memview, name>>

\* __Pyx_INC_MEMVIEW and init_memviewslice: the first acquisition takes a
\* reference, in a step of its own.
IncMemview(t) ==
    /\ job[t].at = "inc"
    /\ acquisition_count' = [acquisition_count EXCEPT ![job[t].view] = @ + 1]
    /\ job' = [job EXCEPT ![t].at =
                  IF acquisition_count[job[t].view] = 0 THEN "incref" ELSE "store"]
    /\ UNCHANGED <<ob_refcnt, memview, name>>

Incref(t) ==
    /\ job[t].at = "incref"
    /\ ob_refcnt' = [ob_refcnt EXCEPT ![job[t].view] = @ + 1]
    /\ job' = [job EXCEPT ![t].at = "store"]
    /\ UNCHANGED <<acquisition_count, memview, name>>

StoreSlice(t) ==
    /\ job[t].at = "store"
    /\ memview' = [c \in ViewCells |->
          IF c = job[t].dst THEN job[t].view
          ELSE IF job[t].moves /\ c = job[t].src THEN NoView ELSE memview[c]]
    /\ job' = [job EXCEPT ![t] = NoJob]
    /\ UNCHANGED <<ob_refcnt, acquisition_count, name>>

ViewNext ==
    \E t \in Threads :
        \/ NewView(t) \/ SliceOfObject(t) \/ SliceOfView(t) \/ AssignSlice(t)
        \/ AssignTemporary(t) \/ AssignSlicing(t) \/ ObjectOfSlice(t)
        \/ EndSlice(t) \/ EndName(t) \/ XClear(t) \/ Decref(t)
        \/ IncMemview(t) \/ Incref(t) \/ StoreSlice(t)

ViewSpec == ViewInit /\ [][ViewNext]_viewVars

------------------------------------------------------------------------------
JobType == [at : {"idle", "clear", "decref", "inc", "incref", "store"},
            clearing : ViewCells \cup {NoView}, object : Views \cup {NoView},
            view : Views \cup {NoView}, dst : ViewCells \cup {NoView},
            src : ViewCells \cup Names \cup {NoView}, moves : BOOLEAN]

\* The variables keep their types; in particular no count becomes negative,
\* which the code answers with a fatal error.
ViewTypeOK ==
    /\ ob_refcnt \in [Views -> Nat]
    /\ acquisition_count \in [Views -> Nat]
    /\ memview \in [ViewCells -> Views \cup {NoView}]
    /\ name \in [Names -> Views \cup {NoView}]
    /\ job \in [Threads -> JobType]

Doing(place, v) == {t \in Threads : job[t].at = place /\ job[t].view = v}

\* The count of an object is the number of slices of it, those about to be
\* stored included.
CountIsSlices ==
    \A v \in Views :
        acquisition_count[v] =
            Cardinality({c \in ViewCells : memview[c] = v})
              + Cardinality(Doing("incref", v))
              + Cardinality({t \in Doing("store", v) : ~job[t].moves})

\* Every object has exactly the references it should: those of Python, one for
\* all its slices, less the one a thread is about to take, and the ones threads
\* are about to drop.  Threads that move the count from 0 to 1 and from 1 to 0
\* (__Pyx_INC_MEMVIEW, __Pyx_XCLEAR_MEMVIEW) may take their steps on the
\* reference in any order; nothing is lost or leaked.
ViewReferencesMatch ==
    \A v \in Views :
        ob_refcnt[v] + Cardinality(Doing("incref", v)) =
            Cardinality({n \in Names : name[n] = v})
              + (IF acquisition_count[v] > 0 THEN 1 ELSE 0)
              + Cardinality({t \in Threads : job[t].at = "decref" /\ job[t].object = v})

\* No slice, reference or thread points to a freed object: a slice used
\* without the GIL keeps its buffer.
ViewsInUseLive ==
    /\ \A c \in ViewCells : memview[c] # NoView => ob_refcnt[memview[c]] > 0
    /\ \A n \in Names : name[n] # NoView => ob_refcnt[name[n]] > 0
    /\ \A t \in Threads :
          job[t].at \in {"inc", "incref", "store"} => ob_refcnt[job[t].view] > 0
==============================================================================
