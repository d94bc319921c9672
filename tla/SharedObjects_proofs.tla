------------------------- MODULE SharedObjects_proofs -------------------------
(***************************************************************************)
(* Two parts that run in many threads at once and share no state.          *)
(*                                                                         *)
(* The count and the references of memoryview objects are right for any    *)
(* number of threads, objects, slices and Python references.  A count and  *)
(* a reference that two threads change in separate steps can be off only   *)
(* by a thread between its two steps.  The argument is that such a thread  *)
(* still reads a Python reference of the object: it found the count at 0,  *)
(* so nothing else can have been its source.                               *)
(*                                                                         *)
(* The cache of code objects is right for any number of threads, lines,    *)
(* code objects and table sizes.  First the counter keeps a writer alone.  *)
(* Then the bisection finds the place of a line in a table in order.  With *)
(* both, every step keeps the table in order but for the cell that a       *)
(* thread is about to fill, and keeps the balance of every code object:    *)
(* the references counted and those still owed are those that the threads  *)
(* and the cells own.                                                      *)
(***************************************************************************)
EXTENDS MCSharedObjects, Functions, FiniteSetTheorems, FunctionTheorems,
        SequenceTheorems, WellFoundedInduction, TLAPS

-----------------------------------------------------------------------------
(* Memoryviews.                                                            *)

USE ViewsAssumption

\* What a thread in the middle of a job has in its hands.
JobOK(t) ==
  LET j == job[t] IN
  /\ j.at = "idle" => j = NoJob
  /\ j.at = "clear" <=> j.clearing # NoView
  /\ j.at = "decref" <=> j.object # NoView
  /\ j.view = NoView => j.at \notin {"inc", "incref", "store"}
                        /\ j.dst = NoView /\ j.src = NoView /\ ~j.moves
  /\ j.view # NoView => j.dst \in ViewCells /\ j.src \in Slices \cup Names
                        /\ j.src \notin {j.dst, j.clearing}
  /\ j.clearing # NoView => memview[j.clearing] # NoView
  /\ j.view # NoView /\ j.clearing # j.dst => memview[j.dst] = NoView

\* Nobody frees or fills the object that a name refers to.
CellsOK(t) ==
  /\ job[t].clearing \in Views => ob_refcnt[job[t].clearing] = 0
  /\ job[t].dst \in Views => \E n \in Names : name[n] = job[t].dst

\* What the view of a job is read from still has it.
SourceOK(t) ==
  LET j == job[t] IN
  /\ j.moves => j.src \in Slices /\ memview[j.src] = j.view /\ j.at \notin {"inc", "incref"}
  /\ j.view # NoView /\ j.at # "store" =>
       \/ j.src \in Slices /\ memview[j.src] = j.view
       \/ /\ j.src \in Names /\ name[j.src] # NoView
          /\ name[j.src] = j.view \/ memview[name[j.src]] = j.view
  /\ j.at = "incref" => j.src \in Names /\ name[j.src] = j.view

\* Threads do not write what another one uses.
Apart(t, u) ==
  /\ job[t].dst # NoView => job[t].dst \notin {job[u].dst, job[u].clearing, job[u].src}
  /\ job[t].clearing # NoView => job[t].clearing \notin {job[u].clearing, job[u].src}
  /\ job[t].moves => job[t].src # job[u].src

FirstIsAlone ==
  \A t, u \in Threads :
    job[t].at = "incref" /\ job[u].at = "incref" /\ job[t].view = job[u].view => t = u

IInv == /\ ViewTypeOK
        /\ \A t \in Threads : JobOK(t) /\ CellsOK(t) /\ SourceOK(t)
        /\ \A t, u \in Threads : t # u => Apart(t, u)
        /\ FirstIsAlone
        /\ CountIsSlices /\ ViewReferencesMatch

-----------------------------------------------------------------------------
(* Counting: what a step adds to the sets that the invariant counts.         *)

SlicesOf(v) == {c \in ViewCells : memview[c] = v}
Storing(v)  == {t \in Doing("store", v) : ~job[t].moves}
NamesOf(v)  == {n \in Names : name[n] = v}
Dropping(v) == {t \in Threads : job[t].at = "decref" /\ job[t].object = v}

Is(P) == IF P THEN 1 ELSE 0

\* Two sets that differ at most in one element.
LEMMA OneChanges ==
  ASSUME NEW D, IsFiniteSet(D), NEW S \in SUBSET D, NEW T \in SUBSET D,
         NEW d \in D, \A e \in D \ {d} : e \in S <=> e \in T
  PROVE  /\ Cardinality(S) \in Nat /\ Cardinality(T) \in Nat
         /\ Cardinality(T) + Is(d \in S) = Cardinality(S) + Is(d \in T)
<1>1. IsFiniteSet(S) /\ IsFiniteSet(T)
  BY FS_Subset
<1>2. Cardinality(S) \in Nat /\ Cardinality(T) \in Nat
  BY <1>1, FS_CardinalityType
<1>3. CASE d \in S <=> d \in T
  <2>1. S = T
    BY <1>3
  <2> QED BY <2>1, <1>2, <1>3 DEF Is
<1>4. CASE d \in S /\ d \notin T
  <2>1. S = T \cup {d}
    BY <1>4
  <2>2. Cardinality(S) = Cardinality(T) + 1
    BY <2>1, <1>1, <1>4, FS_AddElement
  <2> QED BY <2>2, <1>2, <1>4 DEF Is
<1>5. CASE d \notin S /\ d \in T
  <2>1. T = S \cup {d}
    BY <1>5
  <2>2. Cardinality(T) = Cardinality(S) + 1
    BY <2>1, <1>1, <1>5, FS_AddElement
  <2> QED BY <2>2, <1>2, <1>5 DEF Is
<1> QED BY <1>3, <1>4, <1>5

LEMMA CellsAreFinite == IsFiniteSet(ViewCells)
  BY FS_Union DEF ViewCells

LEMMA Sizes ==
  ASSUME NEW v \in Views
  PROVE  /\ Cardinality(SlicesOf(v)) \in Nat /\ Cardinality(NamesOf(v)) \in Nat
         /\ Cardinality(Doing("incref", v)) \in Nat /\ Cardinality(Storing(v)) \in Nat
         /\ Cardinality(Dropping(v)) \in Nat
         /\ \A c \in ViewCells : memview[c] = v => Cardinality(SlicesOf(v)) > 0
         /\ \A n \in Names : name[n] = v => Cardinality(NamesOf(v)) > 0
         /\ \A t \in Threads : job[t].at = "decref" /\ job[t].object = v
                                => Cardinality(Dropping(v)) > 0
         /\ \A t \in Threads : job[t].at = "incref" /\ job[t].view = v
                                => Cardinality(Doing("incref", v)) > 0
         /\ \A t \in Threads : job[t].at = "store" /\ job[t].view = v /\ ~job[t].moves
                                => Cardinality(Storing(v)) > 0
<1>1. /\ IsFiniteSet(SlicesOf(v)) /\ IsFiniteSet(NamesOf(v))
      /\ IsFiniteSet(Doing("incref", v)) /\ IsFiniteSet(Storing(v)) /\ IsFiniteSet(Dropping(v))
  <2>1. SlicesOf(v) \in SUBSET ViewCells /\ NamesOf(v) \in SUBSET Names
    BY DEF SlicesOf, NamesOf
  <2>2. /\ Doing("incref", v) \in SUBSET Threads
        /\ Storing(v) \in SUBSET Threads /\ Dropping(v) \in SUBSET Threads
    BY DEF Doing, Storing, Dropping
  <2> QED BY <2>1, <2>2, CellsAreFinite, FS_Subset
<1>2. /\ Cardinality(SlicesOf(v)) \in Nat /\ Cardinality(NamesOf(v)) \in Nat
      /\ Cardinality(Doing("incref", v)) \in Nat /\ Cardinality(Storing(v)) \in Nat
      /\ Cardinality(Dropping(v)) \in Nat
  BY <1>1, FS_CardinalityType
<1>3. \A c \in ViewCells : memview[c] = v => Cardinality(SlicesOf(v)) > 0
  <2> SUFFICES ASSUME SlicesOf(v) # {} PROVE Cardinality(SlicesOf(v)) > 0
    BY DEF SlicesOf
  <2> QED BY <1>1, <1>2, FS_EmptySet
<1>4. \A n \in Names : name[n] = v => Cardinality(NamesOf(v)) > 0
  <2> SUFFICES ASSUME NamesOf(v) # {} PROVE Cardinality(NamesOf(v)) > 0
    BY DEF NamesOf
  <2> QED BY <1>1, <1>2, FS_EmptySet
<1>5. \A t \in Threads : job[t].at = "decref" /\ job[t].object = v
                         => Cardinality(Dropping(v)) > 0
  <2> SUFFICES ASSUME Dropping(v) # {} PROVE Cardinality(Dropping(v)) > 0
    BY DEF Dropping
  <2> QED BY <1>1, <1>2, FS_EmptySet
<1>6. \A t \in Threads : job[t].at = "incref" /\ job[t].view = v
                         => Cardinality(Doing("incref", v)) > 0
  <2> SUFFICES ASSUME Doing("incref", v) # {} PROVE Cardinality(Doing("incref", v)) > 0
    BY DEF Doing
  <2> QED BY <1>1, <1>2, FS_EmptySet
<1>7. \A t \in Threads : job[t].at = "store" /\ job[t].view = v /\ ~job[t].moves
                         => Cardinality(Storing(v)) > 0
  <2> SUFFICES ASSUME Storing(v) # {} PROVE Cardinality(Storing(v)) > 0
    BY DEF Storing, Doing
  <2> QED BY <1>1, <1>2, FS_EmptySet
<1> QED BY <1>2, <1>3, <1>4, <1>5, <1>6, <1>7

OnlyJob(t) == \A u \in Threads \ {t} : job'[u] = job[u]

\* A thread moves on to another job.
LEMMA JobCounts ==
  ASSUME NEW t \in Threads, OnlyJob(t), NEW v \in Views
  PROVE  /\ Cardinality(Doing("incref", v)') + Is(t \in Doing("incref", v))
               = Cardinality(Doing("incref", v)) + Is(t \in Doing("incref", v)')
         /\ Cardinality(Storing(v)') + Is(t \in Storing(v))
               = Cardinality(Storing(v)) + Is(t \in Storing(v)')
         /\ Cardinality(Dropping(v)') + Is(t \in Dropping(v))
               = Cardinality(Dropping(v)) + Is(t \in Dropping(v)')
         /\ Cardinality(Doing("incref", v)') \in Nat /\ Cardinality(Storing(v)') \in Nat
         /\ Cardinality(Dropping(v)') \in Nat
<1>1. /\ Doing("incref", v) \in SUBSET Threads /\ Doing("incref", v)' \in SUBSET Threads
      /\ \A u \in Threads \ {t} : u \in Doing("incref", v) <=> u \in Doing("incref", v)'
  BY DEF OnlyJob, Doing
<1>2. /\ Storing(v) \in SUBSET Threads /\ Storing(v)' \in SUBSET Threads
      /\ \A u \in Threads \ {t} : u \in Storing(v) <=> u \in Storing(v)'
  BY DEF OnlyJob, Doing, Storing
<1>3. /\ Dropping(v) \in SUBSET Threads /\ Dropping(v)' \in SUBSET Threads
      /\ \A u \in Threads \ {t} : u \in Dropping(v) <=> u \in Dropping(v)'
  BY DEF OnlyJob, Dropping
<1> QED
  <2>1. Cardinality(Doing("incref", v)') + Is(t \in Doing("incref", v))
           = Cardinality(Doing("incref", v)) + Is(t \in Doing("incref", v)')
        /\ Cardinality(Doing("incref", v)') \in Nat
    <3> DEFINE S == Doing("incref", v)
    <3> DEFINE T == Doing("incref", v)'
    <3>1. /\ S \in SUBSET Threads /\ T \in SUBSET Threads
          /\ \A u \in Threads \ {t} : u \in S <=> u \in T
      BY <1>1
    <3>2. IsFiniteSet(Threads)
      OBVIOUS
    <3> HIDE DEF S, T
    <3>3. /\ Cardinality(S) \in Nat /\ Cardinality(T) \in Nat
          /\ Cardinality(T) + Is(t \in S) = Cardinality(S) + Is(t \in T)
      BY <3>1, <3>2, OneChanges
    <3> QED BY <3>3 DEF S, T
  <2>2. Cardinality(Storing(v)') + Is(t \in Storing(v))
           = Cardinality(Storing(v)) + Is(t \in Storing(v)')
        /\ Cardinality(Storing(v)') \in Nat
    <3> DEFINE S == Storing(v)
    <3> DEFINE T == Storing(v)'
    <3>1. /\ S \in SUBSET Threads /\ T \in SUBSET Threads
          /\ \A u \in Threads \ {t} : u \in S <=> u \in T
      BY <1>2
    <3>2. IsFiniteSet(Threads)
      OBVIOUS
    <3> HIDE DEF S, T
    <3>3. /\ Cardinality(S) \in Nat /\ Cardinality(T) \in Nat
          /\ Cardinality(T) + Is(t \in S) = Cardinality(S) + Is(t \in T)
      BY <3>1, <3>2, OneChanges
    <3> QED BY <3>3 DEF S, T
  <2>3. Cardinality(Dropping(v)') + Is(t \in Dropping(v))
           = Cardinality(Dropping(v)) + Is(t \in Dropping(v)')
        /\ Cardinality(Dropping(v)') \in Nat
    <3> DEFINE S == Dropping(v)
    <3> DEFINE T == Dropping(v)'
    <3>1. /\ S \in SUBSET Threads /\ T \in SUBSET Threads
          /\ \A u \in Threads \ {t} : u \in S <=> u \in T
      BY <1>3
    <3>2. IsFiniteSet(Threads)
      OBVIOUS
    <3> HIDE DEF S, T
    <3>3. /\ Cardinality(S) \in Nat /\ Cardinality(T) \in Nat
          /\ Cardinality(T) + Is(t \in S) = Cardinality(S) + Is(t \in T)
      BY <3>1, <3>2, OneChanges
    <3> QED BY <3>3 DEF S, T
  <2> QED BY <2>1, <2>2, <2>3

\* One cell, or one name, changes.
LEMMA CellCounts ==
  ASSUME NEW c \in ViewCells, \A d \in ViewCells \ {c} : memview'[d] = memview[d],
         NEW v \in Views
  PROVE  /\ Cardinality(SlicesOf(v)') + Is(memview[c] = v)
               = Cardinality(SlicesOf(v)) + Is(memview'[c] = v)
         /\ Cardinality(SlicesOf(v)') \in Nat
<1>1. /\ SlicesOf(v) \in SUBSET ViewCells /\ SlicesOf(v)' \in SUBSET ViewCells
      /\ \A d \in ViewCells \ {c} : d \in SlicesOf(v) <=> d \in SlicesOf(v)'
      /\ c \in SlicesOf(v) <=> memview[c] = v
      /\ c \in SlicesOf(v)' <=> memview'[c] = v
  BY DEF SlicesOf
<1>2. /\ Cardinality(SlicesOf(v)') + Is(c \in SlicesOf(v))
            = Cardinality(SlicesOf(v)) + Is(c \in SlicesOf(v)')
      /\ Cardinality(SlicesOf(v)') \in Nat
  <2> DEFINE S == SlicesOf(v)
  <2> DEFINE T == SlicesOf(v)'
  <2>1. /\ S \in SUBSET ViewCells /\ T \in SUBSET ViewCells
        /\ \A d \in ViewCells \ {c} : d \in S <=> d \in T
    BY <1>1
  <2>2. IsFiniteSet(ViewCells)
    BY CellsAreFinite
  <2> HIDE DEF S, T
  <2>3. /\ Cardinality(S) \in Nat /\ Cardinality(T) \in Nat
        /\ Cardinality(T) + Is(c \in S) = Cardinality(S) + Is(c \in T)
    BY <2>1, <2>2, OneChanges
  <2> QED BY <2>3 DEF S, T
<1> QED BY <1>1, <1>2 DEF Is

LEMMA NameCounts ==
  ASSUME NEW n \in Names, \A m \in Names \ {n} : name'[m] = name[m], NEW v \in Views
  PROVE  /\ Cardinality(NamesOf(v)') + Is(name[n] = v)
               = Cardinality(NamesOf(v)) + Is(name'[n] = v)
         /\ Cardinality(NamesOf(v)') \in Nat
<1>1. /\ NamesOf(v) \in SUBSET Names /\ NamesOf(v)' \in SUBSET Names
      /\ \A m \in Names \ {n} : m \in NamesOf(v) <=> m \in NamesOf(v)'
      /\ n \in NamesOf(v) <=> name[n] = v
      /\ n \in NamesOf(v)' <=> name'[n] = v
  BY DEF NamesOf
<1>2. /\ Cardinality(NamesOf(v)') + Is(n \in NamesOf(v))
            = Cardinality(NamesOf(v)) + Is(n \in NamesOf(v)')
      /\ Cardinality(NamesOf(v)') \in Nat
  <2> DEFINE S == NamesOf(v)
  <2> DEFINE T == NamesOf(v)'
  <2>1. /\ S \in SUBSET Names /\ T \in SUBSET Names
        /\ \A m \in Names \ {n} : m \in S <=> m \in T
    BY <1>1
  <2>2. IsFiniteSet(Names)
    OBVIOUS
  <2> HIDE DEF S, T
  <2>3. /\ Cardinality(S) \in Nat /\ Cardinality(T) \in Nat
        /\ Cardinality(T) + Is(n \in S) = Cardinality(S) + Is(n \in T)
    BY <2>1, <2>2, OneChanges
  <2> QED BY <2>3 DEF S, T
<1> QED BY <1>1, <1>2 DEF Is

Counted(v) ==
  acquisition_count[v] =
    Cardinality(SlicesOf(v)) + Cardinality(Doing("incref", v)) + Cardinality(Storing(v))

Referenced(v) ==
  ob_refcnt[v] + Cardinality(Doing("incref", v)) =
    Cardinality(NamesOf(v)) + Is(acquisition_count[v] > 0) + Cardinality(Dropping(v))

LEMMA CountsAre ==
  /\ (CountIsSlices /\ ViewReferencesMatch)
       <=> \A v \in Views : Counted(v) /\ Referenced(v)
  /\ (CountIsSlices /\ ViewReferencesMatch)'
       <=> \A v \in Views : Counted(v)' /\ Referenced(v)'
<1>1. CountIsSlices <=> \A v \in Views : Counted(v)
  BY DEF CountIsSlices, Counted, SlicesOf, Storing
<1>2. ViewReferencesMatch <=> \A v \in Views : Referenced(v)
  BY DEF ViewReferencesMatch, Referenced, NamesOf, Dropping, Is
<1>3. CountIsSlices' <=> \A v \in Views : Counted(v)'
  BY DEF CountIsSlices, Counted, SlicesOf, Storing
<1>4. ViewReferencesMatch' <=> \A v \in Views : Referenced(v)'
  BY DEF ViewReferencesMatch, Referenced, NamesOf, Dropping, Is
<1> QED BY <1>1, <1>2, <1>3, <1>4

-----------------------------------------------------------------------------
\* At most one thread is between the count and the reference of an object, and
\* then a name refers to the object.
LEMMA FirstReads ==
  ASSUME IInv, NEW v \in Views
  PROVE  \/ Cardinality(Doing("incref", v)) = 0
         \/ Cardinality(Doing("incref", v)) = 1 /\ Cardinality(NamesOf(v)) > 0
<1>1. CASE Doing("incref", v) = {}
  BY <1>1, FS_EmptySet
<1>2. CASE Doing("incref", v) # {}
  <2>1. PICK t \in Threads : job[t].at = "incref" /\ job[t].view = v
    BY <1>2 DEF Doing
  <2>2. Doing("incref", v) = {t}
    BY <2>1 DEF Doing, IInv, FirstIsAlone
  <2>3. Cardinality(Doing("incref", v)) = 1
    BY <2>2, FS_Singleton
  <2>4. job[t].src \in Names /\ name[job[t].src] = v
    BY <2>1 DEF IInv, SourceOK
  <2> QED BY <2>3, <2>4, Sizes
<1> QED BY <1>1, <1>2

\* An object that has a name, a slice, or a reference about to be dropped.
LEMMA ObjectLives ==
  ASSUME IInv, NEW v \in Views,
         \/ acquisition_count[v] > 0
         \/ \E n \in Names : name[n] = v
         \/ \E t \in Threads : job[t].at = "decref" /\ job[t].object = v
  PROVE  ob_refcnt[v] > 0
<1>1. Counted(v) /\ Referenced(v)
  BY CountsAre DEF IInv
<1>2. ob_refcnt[v] \in Nat /\ acquisition_count[v] \in Nat
  BY DEF IInv, ViewTypeOK
<1>3. CASE Cardinality(Doing("incref", v)) = 0
  <2>1. \/ acquisition_count[v] > 0
        \/ Cardinality(NamesOf(v)) > 0
        \/ Cardinality(Dropping(v)) > 0
    BY Sizes
  <2>2. Cardinality(NamesOf(v)) \in Nat /\ Cardinality(Dropping(v)) \in Nat
    BY Sizes
  <2> QED BY <1>1, <1>2, <1>3, <2>1, <2>2 DEF Referenced, Is
<1>4. CASE Cardinality(Doing("incref", v)) = 1 /\ Cardinality(NamesOf(v)) > 0
  BY <1>1, <1>2, <1>4, Sizes DEF Counted, Referenced, Is
<1> QED BY <1>3, <1>4, FirstReads

LEMMA SliceCounts ==
  ASSUME IInv, NEW c \in ViewCells, memview[c] # NoView
  PROVE  memview[c] \in Views /\ acquisition_count[memview[c]] > 0
<1>1. memview[c] \in Views
  BY DEF IInv, ViewTypeOK
<1>2. Counted(memview[c])
  BY <1>1, CountsAre DEF IInv
<1> QED BY <1>1, <1>2, Sizes DEF Counted

LEMMA InUse == IInv => ViewsInUseLive
<1> SUFFICES ASSUME IInv PROVE ViewsInUseLive
  OBVIOUS
<1>1. ASSUME NEW c \in ViewCells, memview[c] # NoView PROVE ob_refcnt[memview[c]] > 0
  BY <1>1, SliceCounts, ObjectLives
<1>2. ASSUME NEW n \in Names, name[n] # NoView PROVE name[n] \in Views /\ ob_refcnt[name[n]] > 0
  <2>1. name[n] \in Views
    BY <1>2 DEF IInv, ViewTypeOK
  <2> QED BY <2>1, ObjectLives
<1>3. ASSUME NEW t \in Threads, job[t].at \in {"inc", "incref", "store"}
      PROVE  ob_refcnt[job[t].view] > 0
  <2>1. JobOK(t) /\ SourceOK(t) /\ job[t] \in JobType
    BY DEF IInv, ViewTypeOK
  <2>2. job[t].view \in Views
    BY <1>3, <2>1 DEF JobOK, JobType
  <2>3. CASE job[t].at # "store" \/ job[t].moves
    <3>1. CASE job[t].src \in Slices /\ memview[job[t].src] = job[t].view
      BY <3>1, <2>2, <1>1 DEF ViewCells
    <3>2. CASE job[t].src \in Names /\ name[job[t].src] = job[t].view
      BY <3>2, <2>2, <1>2
    <3>3. CASE job[t].src \in Names /\ name[job[t].src] # NoView
               /\ memview[name[job[t].src]] = job[t].view
      <4>1. name[job[t].src] \in Views
        BY <3>3, <1>2
      <4> QED BY <3>3, <4>1, <2>2, <1>1 DEF ViewCells
    <3> QED BY <2>1, <2>2, <2>3, <1>3, <3>1, <3>2, <3>3 DEF SourceOK
  <2>4. CASE job[t].at = "store" /\ ~job[t].moves
    <3>1. Counted(job[t].view)
      BY <2>2, CountsAre DEF IInv
    <3>2. acquisition_count[job[t].view] > 0
      BY <3>1, <2>2, <2>4, Sizes DEF Counted
    <3> QED BY <3>2, <2>2, ObjectLives
  <2> QED BY <2>3, <2>4
<1> QED BY <1>1, <1>2, <1>3 DEF ViewsInUseLive

-----------------------------------------------------------------------------
HandsOK(t) == JobOK(t) /\ CellsOK(t) /\ SourceOK(t)

\* What has to be shown of a step of thread t.
LEMMA StepOf ==
  ASSUME IInv, NEW t \in Threads, OnlyJob(t), ViewTypeOK', HandsOK(t)',
         \A u \in Threads \ {t} : HandsOK(u)' /\ Apart(t, u)' /\ Apart(u, t)',
         job'[t].at = "incref" => /\ job'[t].view \in Views
                                  /\ acquisition_count[job'[t].view] = 0,
         \A v \in Views : Counted(v)' /\ Referenced(v)'
  PROVE  IInv'
<1>1. \A u, w \in Threads : u # w => Apart(u, w)'
  <2> SUFFICES ASSUME NEW u \in Threads, NEW w \in Threads, u # w, u # t, w # t
               PROVE  Apart(u, w)'
    OBVIOUS
  <2>1. job'[u] = job[u] /\ job'[w] = job[w] /\ Apart(u, w)
    BY DEF OnlyJob, IInv
  <2> QED BY <2>1 DEF Apart
<1>2. FirstIsAlone'
  <2>1. ASSUME NEW u \in Threads \ {t}, job'[t].at = "incref", job[u].at = "incref",
               job'[t].view = job[u].view
        PROVE  FALSE
    <3>1. Counted(job'[t].view) /\ job'[t].view \in Views
      BY <2>1, CountsAre DEF IInv
    <3>2. Cardinality(Doing("incref", job'[t].view)) > 0
      BY <2>1, <3>1, Sizes
    <3> QED BY <2>1, <3>1, <3>2, Sizes DEF Counted
  <2> QED BY <2>1 DEF FirstIsAlone, OnlyJob, IInv
<1>3. (CountIsSlices /\ ViewReferencesMatch)'
  BY CountsAre
<1>4. \A u \in Threads : (JobOK(u) /\ CellsOK(u) /\ SourceOK(u))'
  BY DEF HandsOK
<1> QED BY <1>1, <1>2, <1>3, <1>4 DEF IInv

\* The other threads, when the step changes nothing but the job.
LEMMA OthersKeep ==
  ASSUME IInv, NEW t \in Threads, OnlyJob(t),
         UNCHANGED <<ob_refcnt, acquisition_count, memview, name>>
  PROVE  \A u \in Threads \ {t} : HandsOK(u)'
<1> SUFFICES ASSUME NEW u \in Threads \ {t} PROVE HandsOK(u)'
  OBVIOUS
<1>1. job'[u] = job[u] /\ JobOK(u) /\ CellsOK(u) /\ SourceOK(u)
  BY DEF OnlyJob, IInv
<1>2. JobOK(u)'
  BY <1>1 DEF JobOK
<1>3. CellsOK(u)'
  BY <1>1 DEF CellsOK
<1>4. SourceOK(u)'
  BY <1>1 DEF SourceOK
<1> QED BY <1>2, <1>3, <1>4 DEF HandsOK

\* The counts, when a step neither makes nor ends a share of an object.
Counts(j) == \/ j.at \in {"incref", "decref"}
             \/ j.at = "store" /\ ~j.moves

LEMMA CountsKeep ==
  ASSUME IInv, NEW t \in Threads, OnlyJob(t), ~Counts(job[t]), ~Counts(job'[t]),
         UNCHANGED <<ob_refcnt, acquisition_count, memview, name>>
  PROVE  \A v \in Views : Counted(v)' /\ Referenced(v)'
<1> SUFFICES ASSUME NEW v \in Views PROVE Counted(v)' /\ Referenced(v)'
  OBVIOUS
<1>1. Counted(v) /\ Referenced(v)
  BY CountsAre DEF IInv
<1>2. /\ Doing("incref", v)' = Doing("incref", v)
      /\ Storing(v)' = Storing(v) /\ Dropping(v)' = Dropping(v)
  BY DEF Doing, Storing, Dropping, OnlyJob, Counts
<1>3. SlicesOf(v)' = SlicesOf(v) /\ NamesOf(v)' = NamesOf(v)
  BY DEF SlicesOf, NamesOf
<1> QED BY <1>1, <1>2, <1>3 DEF Counted, Referenced

-----------------------------------------------------------------------------
(* The steps that begin a job.                                               *)

LEMMA NoJobIs ==
  /\ NoJob \in JobType
  /\ NoJob.at = "idle" /\ NoJob.clearing = NoView /\ NoJob.object = NoView
  /\ NoJob.view = NoView /\ NoJob.dst = NoView /\ NoJob.src = NoView /\ NoJob.moves = FALSE
  BY DEF NoJob, JobType

\* put_assign_to_memviewslice: the job it begins.
LEMMA Assigned ==
  ASSUME IInv, NEW t \in Threads, NEW dst \in ViewCells, NEW view \in Views,
         NEW src \in Slices \cup Names, NEW moves \in BOOLEAN,
         Assigns(t, dst, view, src, moves)
  PROVE  /\ job' = [job EXCEPT ![t] = job'[t]] /\ OnlyJob(t) /\ job'[t] \in JobType
         /\ job'[t].dst = dst /\ job'[t].view = view /\ job'[t].src = src
         /\ job'[t].moves = moves /\ job'[t].object = NoView
         /\ IF memview[dst] # NoView
            THEN job'[t].at = "clear" /\ job'[t].clearing = dst
            ELSE job'[t].at = (IF moves THEN "store" ELSE "inc") /\ job'[t].clearing = NoView
<1>1. job \in [Threads -> JobType] /\ view # NoView
  BY DEF IInv, ViewTypeOK
<1> DEFINE j == [NoJob EXCEPT !.dst = dst, !.view = view, !.src = src, !.moves = moves]
<1>2. /\ j \in JobType /\ j.at = "idle" /\ j.clearing = NoView /\ j.object = NoView
      /\ j.view = view /\ j.dst = dst /\ j.src = src /\ j.moves = moves
  BY NoJobIs DEF JobType, ViewCells
<1> HIDE DEF j
<1>3. CASE memview[dst] = NoView
  <2>1. job' = [job EXCEPT ![t] = AfterRelease(j)]
    BY <1>3 DEF Assigns, j
  <2>2. AfterRelease(j) = [j EXCEPT !.at = IF moves THEN "store" ELSE "inc",
                                    !.clearing = NoView, !.object = NoView]
    BY <1>1, <1>2 DEF AfterRelease
  <2> QED BY <1>1, <1>2, <1>3, <2>1, <2>2 DEF OnlyJob, JobType
<1>4. CASE memview[dst] # NoView
  <2>1. job' = [job EXCEPT ![t] = [j EXCEPT !.at = "clear", !.clearing = dst]]
    BY <1>4 DEF Assigns, j
  <2> QED BY <1>1, <1>2, <1>4, <2>1 DEF OnlyJob, JobType
<1> QED BY <1>3, <1>4

\* What another thread uses and what this one writes.
LEMMA Unused ==
  ASSUME IInv, NEW u \in Threads, NEW c \in ViewCells, NotUsed(c)
  PROVE  c \notin {job[u].dst, job[u].clearing, job[u].src}
  BY DEF NotUsed, NotWritten

\* An assignment to a slice, from a slice or a name that keeps it.
LEMMA AssignStep ==
  ASSUME IInv, NEW t \in Threads, IdleJob(t), NEW dst \in Slices,
         NEW src \in Slices \cup Names, NEW view \in Views, NEW moves \in BOOLEAN,
         src # dst, NotUsed(dst), NotWritten(src),
         moves => src \in Slices /\ NotUsed(src) /\ memview[src] = view,
         \/ src \in Slices /\ memview[src] = view
         \/ src \in Names /\ name[src] = view,
         Assigns(t, dst, view, src, moves),
         UNCHANGED <<ob_refcnt, acquisition_count, memview, name>>
  PROVE  IInv'
<1>0. dst \in ViewCells /\ dst \notin Views /\ dst # NoView /\ view # NoView /\ src # NoView
  BY DEF ViewCells
<1>1. /\ job' = [job EXCEPT ![t] = job'[t]] /\ OnlyJob(t) /\ job'[t] \in JobType
      /\ job'[t].dst = dst /\ job'[t].view = view /\ job'[t].src = src
      /\ job'[t].moves = moves /\ job'[t].object = NoView
      /\ IF memview[dst] # NoView
         THEN job'[t].at = "clear" /\ job'[t].clearing = dst
         ELSE job'[t].at = (IF moves THEN "store" ELSE "inc") /\ job'[t].clearing = NoView
  BY <1>0, Assigned
<1>2. ViewTypeOK'
  BY <1>1 DEF ViewTypeOK, IInv
<1>3. HandsOK(t)'
  <2>1. JobOK(t)'
    BY <1>0, <1>1 DEF JobOK
  <2>2. CellsOK(t)'
    BY <1>0, <1>1 DEF CellsOK
  <2>3. SourceOK(t)'
    BY <1>0, <1>1 DEF SourceOK
  <2> QED BY <2>1, <2>2, <2>3 DEF HandsOK
<1>4. ASSUME NEW u \in Threads \ {t} PROVE Apart(t, u)' /\ Apart(u, t)'
  <2>1. job'[u] = job[u]
    BY <1>1 DEF OnlyJob
  <2>2. dst \notin {job[u].dst, job[u].clearing, job[u].src}
    BY <1>0, Unused
  <2>3. src \notin {job[u].dst, job[u].clearing} /\ ~(job[u].moves /\ job[u].src = src)
    BY DEF NotWritten
  <2>4. moves => src # job[u].src
    BY Unused DEF ViewCells
  <2> QED BY <1>0, <1>1, <2>1, <2>2, <2>3, <2>4 DEF Apart
<1>5. \A v \in Views : Counted(v)' /\ Referenced(v)'
  <2>1. ~Counts(job[t]) /\ ~Counts(job'[t])
    BY <1>1 DEF Counts, IdleJob
  <2> QED BY <2>1, <1>1, CountsKeep
<1> QED BY <1>1, <1>2, <1>3, <1>4, <1>5, OthersKeep, StepOf

-----------------------------------------------------------------------------
(* The other steps.  First, what a step does to the three counts of jobs.    *)

IncOf(j, v)  == Is(j.at = "incref" /\ j.view = v)
StoOf(j, v)  == Is(j.at = "store" /\ j.view = v /\ ~j.moves)
DropOf(j, v) == Is(j.at = "decref" /\ j.object = v)

LEMMA JobMoves ==
  ASSUME NEW t \in Threads, OnlyJob(t), NEW v \in Views
  PROVE  /\ Cardinality(Doing("incref", v)') + IncOf(job[t], v)
               = Cardinality(Doing("incref", v)) + IncOf(job'[t], v)
         /\ Cardinality(Storing(v)') + StoOf(job[t], v)
               = Cardinality(Storing(v)) + StoOf(job'[t], v)
         /\ Cardinality(Dropping(v)') + DropOf(job[t], v)
               = Cardinality(Dropping(v)) + DropOf(job'[t], v)
<1>1. /\ Is(t \in Doing("incref", v)) = IncOf(job[t], v)
      /\ Is(t \in Doing("incref", v)') = IncOf(job'[t], v)
  BY DEF Doing, IncOf, Is
<1>2. /\ Is(t \in Storing(v)) = StoOf(job[t], v)
      /\ Is(t \in Storing(v)') = StoOf(job'[t], v)
  BY DEF Doing, Storing, StoOf, Is
<1>3. /\ Is(t \in Dropping(v)) = DropOf(job[t], v)
      /\ Is(t \in Dropping(v)') = DropOf(job'[t], v)
  BY DEF Dropping, DropOf, Is
<1> QED BY <1>1, <1>2, <1>3, JobCounts

\* Every count is a natural number, before and after.
LEMMA CountsAreNat ==
  ASSUME NEW t \in Threads, OnlyJob(t), NEW v \in Views
  PROVE  /\ Cardinality(Doing("incref", v)) \in Nat /\ Cardinality(Doing("incref", v)') \in Nat
         /\ Cardinality(Storing(v)) \in Nat /\ Cardinality(Storing(v)') \in Nat
         /\ Cardinality(Dropping(v)) \in Nat /\ Cardinality(Dropping(v)') \in Nat
         /\ Cardinality(SlicesOf(v)) \in Nat /\ Cardinality(NamesOf(v)) \in Nat
<1>1. /\ Cardinality(Doing("incref", v)') \in Nat /\ Cardinality(Storing(v)') \in Nat
      /\ Cardinality(Dropping(v)') \in Nat
  BY JobCounts
<1>2. /\ Cardinality(Doing("incref", v)) \in Nat /\ Cardinality(Storing(v)) \in Nat
      /\ Cardinality(Dropping(v)) \in Nat
      /\ Cardinality(SlicesOf(v)) \in Nat /\ Cardinality(NamesOf(v)) \in Nat
  BY Sizes
<1> QED BY <1>1, <1>2

\* Another thread, when a step leaves alone what it uses.
LEMMA OtherLeft ==
  ASSUME IInv, NEW t \in Threads, OnlyJob(t), NEW u \in Threads \ {t},
         job[u].clearing \in Views => ob_refcnt'[job[u].clearing] = 0,
         job[u].dst \in Views => \E n \in Names : name'[n] = job[u].dst,
         job[u].src \in Names /\ name[job[u].src] # NoView
            => name'[job[u].src] = name[job[u].src],
         \A c \in ViewCells : c \in {job[u].dst, job[u].clearing, job[u].src}
            => memview'[c] = memview[c],
         job[u].src \in Names /\ name[job[u].src] # NoView /\ job[u].view # NoView
            /\ memview[name[job[u].src]] = job[u].view
            => memview'[name[job[u].src]] = memview[name[job[u].src]]
  PROVE  HandsOK(u)'
<1>1. job'[u] = job[u] /\ JobOK(u) /\ CellsOK(u) /\ SourceOK(u) /\ job[u] \in JobType
  BY DEF OnlyJob, IInv, ViewTypeOK
<1>2. JobOK(u)'
  BY <1>1 DEF JobOK, JobType
<1>3. CellsOK(u)'
  BY <1>1 DEF CellsOK
<1>4. SourceOK(u)'
  <2>1. job[u].moves => /\ job[u].src \in Slices /\ memview'[job[u].src] = job[u].view
                        /\ job[u].at \notin {"inc", "incref"}
    BY <1>1 DEF SourceOK, ViewCells
  <2>2. ASSUME job[u].view # NoView, job[u].at # "store"
        PROVE  \/ job[u].src \in Slices /\ memview'[job[u].src] = job[u].view
               \/ /\ job[u].src \in Names /\ name'[job[u].src] # NoView
                  /\ name'[job[u].src] = job[u].view
                       \/ memview'[name'[job[u].src]] = job[u].view
    <3>1. CASE job[u].src \in Slices /\ memview[job[u].src] = job[u].view
      BY <3>1 DEF ViewCells
    <3>2. CASE /\ job[u].src \in Names /\ name[job[u].src] # NoView
               /\ name[job[u].src] = job[u].view \/ memview[name[job[u].src]] = job[u].view
      BY <3>2, <2>2
    <3> QED BY <3>1, <3>2, <2>2, <1>1 DEF SourceOK
  <2>3. job[u].at = "incref" => job[u].src \in Names /\ name'[job[u].src] = job[u].view
    <3>1. job[u].at = "incref" => job[u].view # NoView
      BY <1>1 DEF JobOK
    <3> QED BY <3>1, <1>1 DEF SourceOK
  <2> QED BY <1>1, <2>1, <2>2, <2>3 DEF SourceOK
<1> QED BY <1>2, <1>3, <1>4 DEF HandsOK

\* Nobody starts to write anything.
LEMMA StayApart ==
  ASSUME IInv, NEW t \in Threads, OnlyJob(t),
         job'[t].dst \in {job[t].dst, NoView}, job'[t].src \in {job[t].src, NoView},
         job'[t].clearing \in {job[t].clearing, NoView}, job'[t].moves => job[t].moves,
         job'[t].src = NoView => ~job'[t].moves
  PROVE  \A u \in Threads \ {t} : Apart(t, u)' /\ Apart(u, t)'
<1> SUFFICES ASSUME NEW u \in Threads \ {t} PROVE Apart(t, u)' /\ Apart(u, t)'
  OBVIOUS
<1>1. job'[u] = job[u] /\ Apart(t, u) /\ Apart(u, t) /\ SourceOK(u)
  BY DEF OnlyJob, IInv
<1>2. job[u].moves => job[u].src # NoView
  BY <1>1 DEF SourceOK
<1> QED BY <1>1, <1>2 DEF Apart
-----------------------------------------------------------------------------
\* A fresh address is counted nowhere and used by no thread.
LEMMA FreshIs ==
  ASSUME IInv, NEW v \in Views, Fresh(v)
  PROVE  /\ acquisition_count[v] = 0 /\ ob_refcnt[v] = 0 /\ memview[v] = NoView
         /\ \A u \in Threads : v \notin {job[u].dst, job[u].clearing, job[u].src}
         /\ \A n \in Names : name[n] # v
         /\ \A c \in ViewCells : memview[c] # v
         /\ Cardinality(Doing("incref", v)) = 0 /\ Cardinality(Storing(v)) = 0
         /\ Cardinality(Dropping(v)) = 0
         /\ Cardinality(NamesOf(v)) = 0 /\ Cardinality(SlicesOf(v)) = 0
<1>1. ob_refcnt[v] = 0 /\ memview[v] = NoView /\ acquisition_count[v] \in Nat
  BY DEF Fresh, IInv, ViewTypeOK
<1>2. acquisition_count[v] = 0
  BY <1>1, ObjectLives
<1>3. Counted(v) /\ Referenced(v)
  BY CountsAre DEF IInv
<1>4. /\ Cardinality(Doing("incref", v)) \in Nat /\ Cardinality(Storing(v)) \in Nat
      /\ Cardinality(Dropping(v)) \in Nat
      /\ Cardinality(SlicesOf(v)) \in Nat /\ Cardinality(NamesOf(v)) \in Nat
  BY Sizes
<1>5. /\ Cardinality(Doing("incref", v)) = 0 /\ Cardinality(Storing(v)) = 0
      /\ Cardinality(SlicesOf(v)) = 0
  BY <1>2, <1>3, <1>4 DEF Counted
<1>6. Cardinality(Dropping(v)) = 0 /\ Cardinality(NamesOf(v)) = 0
  BY <1>1, <1>2, <1>3, <1>4, <1>5 DEF Referenced, Is
<1>7. \A u \in Threads : v \notin {job[u].dst, job[u].clearing, job[u].src}
  BY DEF Fresh, NotUsed, NotWritten
<1>8. \A n \in Names : name[n] # v
  BY <1>6, Sizes
<1>9. \A c \in ViewCells : memview[c] # v
  BY <1>5, Sizes
<1> QED BY <1>1, <1>2, <1>5, <1>6, <1>7, <1>8, <1>9

\* memoryview(obj) and memoryview_fromslice: a new object and its name.
LEMMA NewObject ==
  ASSUME IInv, NEW t \in Threads, OnlyJob(t), ~Counts(job[t]), ~Counts(job'[t]),
         NEW v \in Views, NEW n \in Names, Fresh(v), name[n] = NoView, NotUsed(n),
         ob_refcnt' = [ob_refcnt EXCEPT ![v] = 1],
         name' = [name EXCEPT ![n] = v],
         UNCHANGED <<acquisition_count, memview>>
  PROVE  /\ \A u \in Threads \ {t} : HandsOK(u)'
         /\ \A w \in Views : Counted(w)' /\ Referenced(w)'
         /\ name'[n] = v
         /\ \A m \in Names \ {n} : name'[m] = name[m]
<1>1. ob_refcnt \in [Views -> Nat] /\ name \in [Names -> Views \cup {NoView}] /\ v # NoView
  BY DEF IInv, ViewTypeOK
<1>2. name'[n] = v /\ \A m \in Names \ {n} : name'[m] = name[m]
  BY <1>1
<1>3. ASSUME NEW u \in Threads \ {t} PROVE HandsOK(u)'
  <2>1. JobOK(u) /\ CellsOK(u) /\ v \notin {job[u].dst, job[u].clearing, job[u].src}
    BY FreshIs DEF IInv
  <2>2. job[u].clearing \in Views => ob_refcnt'[job[u].clearing] = 0
    BY <1>1, <2>1 DEF CellsOK
  <2>3. job[u].dst \in Views => \E m \in Names : name'[m] = job[u].dst
    <3> SUFFICES ASSUME job[u].dst \in Views PROVE \E m \in Names : name'[m] = job[u].dst
      OBVIOUS
    <3>1. PICK m \in Names : name[m] = job[u].dst
      BY <2>1 DEF CellsOK
    <3> QED BY <3>1, <1>2
  <2>4. job[u].src \in Names /\ name[job[u].src] # NoView
          => name'[job[u].src] = name[job[u].src]
    BY <1>2
  <2> QED BY <2>2, <2>3, <2>4, OtherLeft
<1>4. ASSUME NEW w \in Views PROVE Counted(w)' /\ Referenced(w)'
  <2>1. Counted(w) /\ Referenced(w)
    BY CountsAre DEF IInv
  <2>2. /\ Doing("incref", w)' = Doing("incref", w)
        /\ Storing(w)' = Storing(w) /\ Dropping(w)' = Dropping(w)
    BY DEF Doing, Storing, Dropping, OnlyJob, Counts
  <2>3. SlicesOf(w)' = SlicesOf(w)
    BY DEF SlicesOf
  <2>4. Cardinality(NamesOf(w)') + Is(name[n] = w) = Cardinality(NamesOf(w)) + Is(name'[n] = w)
    BY <1>2, NameCounts
  <2>5. CASE w = v
    <3>1. /\ acquisition_count[v] = 0 /\ Cardinality(Doing("incref", v)) = 0
          /\ Cardinality(Dropping(v)) = 0 /\ Cardinality(NamesOf(v)) = 0
      BY FreshIs
    <3>2. Cardinality(NamesOf(v)') = 1 /\ ob_refcnt'[v] = 1
      <4>1. Is(name[n] = v) = 0 /\ Is(name'[n] = v) = 1
        BY <1>1, <1>2 DEF Is
      <4>2. Cardinality(NamesOf(v)') \in Nat
        BY <1>2, NameCounts
      <4> QED BY <4>1, <4>2, <3>1, <2>4, <2>5, <1>1
    <3> QED BY <2>1, <2>2, <2>3, <2>5, <3>1, <3>2 DEF Counted, Referenced, Is
  <2>6. CASE w # v
    <3>1. Cardinality(NamesOf(w)') = Cardinality(NamesOf(w)) /\ ob_refcnt'[w] = ob_refcnt[w]
      <4>1. Is(name[n] = w) = 0 /\ Is(name'[n] = w) = 0
        BY <1>1, <1>2, <2>6 DEF Is
      <4>2. Cardinality(NamesOf(w)') \in Nat /\ Cardinality(NamesOf(w)) \in Nat
        BY <1>2, NameCounts, Sizes
      <4> QED BY <4>1, <4>2, <2>4, <2>6, <1>1
    <3> QED BY <2>1, <2>2, <2>3, <3>1 DEF Counted, Referenced
  <2> QED BY <2>5, <2>6
<1> QED BY <1>2, <1>3, <1>4

LEMMA NewViewStep ==
  ASSUME IInv, NEW t \in Threads, NewView(t)
  PROVE  IInv'
<1>1. PICK v \in Views, n \in Names :
         /\ Fresh(v) /\ name[n] = NoView /\ NotUsed(n)
         /\ ob_refcnt' = [ob_refcnt EXCEPT ![v] = 1]
         /\ name' = [name EXCEPT ![n] = v]
  BY DEF NewView
<1>2. /\ job[t].at = "idle" /\ job'= job /\ OnlyJob(t)
      /\ UNCHANGED <<acquisition_count, memview, job>>
  BY DEF NewView, IdleJob, OnlyJob
<1>3. ~Counts(job[t]) /\ ~Counts(job'[t])
  BY <1>2 DEF Counts
<1>4. /\ \A u \in Threads \ {t} : HandsOK(u)'
      /\ \A w \in Views : Counted(w)' /\ Referenced(w)'
  BY <1>1, <1>2, <1>3, NewObject
<1>5. ViewTypeOK'
  BY <1>1, <1>2 DEF IInv, ViewTypeOK
<1>6. HandsOK(t)'
  <2>1. job[t] = NoJob
    BY <1>2 DEF IInv, JobOK
  <2> QED BY <1>2, <2>1, NoJobIs DEF HandsOK, JobOK, CellsOK, SourceOK
<1>7. \A u \in Threads \ {t} : Apart(t, u)' /\ Apart(u, t)'
  BY <1>2 DEF IInv, Apart
<1> QED BY <1>2, <1>4, <1>5, <1>6, <1>7, StepOf
LEMMA SliceOfObjectStep ==
  ASSUME IInv, NEW t \in Threads, SliceOfObject(t)
  PROVE  IInv'
<1>1. PICK v \in Views, s \in Slices :
         /\ Fresh(v) /\ memview[s] = NoView /\ NotUsed(s)
         /\ ob_refcnt' = [ob_refcnt EXCEPT ![v] = 1]
         /\ acquisition_count' = [acquisition_count EXCEPT ![v] = @ + 1]
         /\ memview' = [memview EXCEPT ![s] = v]
  BY DEF SliceOfObject
<1>2. job[t].at = "idle" /\ job'= job /\ OnlyJob(t) /\ UNCHANGED <<name, job>>
  BY DEF SliceOfObject, IdleJob, OnlyJob
<1>3. /\ ob_refcnt \in [Views -> Nat] /\ acquisition_count \in [Views -> Nat]
      /\ memview \in [ViewCells -> Views \cup {NoView}] /\ v # NoView
      /\ s \in ViewCells /\ s \notin Views
  BY DEF IInv, ViewTypeOK, ViewCells
<1>4. memview'[s] = v /\ \A c \in ViewCells \ {s} : memview'[c] = memview[c]
  BY <1>1, <1>3
<1>5. ViewTypeOK'
  BY <1>1, <1>2, <1>3 DEF IInv, ViewTypeOK
<1>6. HandsOK(t)'
  <2>1. job[t] = NoJob
    BY <1>2 DEF IInv, JobOK
  <2> QED BY <1>2, <2>1, NoJobIs DEF HandsOK, JobOK, CellsOK, SourceOK
<1>7. ASSUME NEW u \in Threads \ {t} PROVE HandsOK(u)'
  <2>1. JobOK(u) /\ CellsOK(u)
    BY DEF IInv
  <2>2. v \notin {job[u].dst, job[u].clearing, job[u].src}
    BY <1>1, FreshIs
  <2>3. s \notin {job[u].dst, job[u].clearing, job[u].src}
    BY <1>1, <1>3, Unused
  <2>4. job[u].clearing \in Views => ob_refcnt'[job[u].clearing] = 0
    BY <1>1, <1>3, <2>1, <2>2 DEF CellsOK
  <2>5. job[u].dst \in Views => \E m \in Names : name'[m] = job[u].dst
    BY <1>2, <2>1 DEF CellsOK
  <2>6. \A c \in ViewCells : c \in {job[u].dst, job[u].clearing, job[u].src}
            => memview'[c] = memview[c]
    BY <1>4, <2>3
  <2>7. job[u].src \in Names /\ name[job[u].src] # NoView
          => name[job[u].src] \in ViewCells /\ name[job[u].src] # s
    BY <1>3 DEF IInv, ViewTypeOK, ViewCells
  <2> QED BY <1>2, <1>4, <2>4, <2>5, <2>6, <2>7, OtherLeft
<1>8. \A u \in Threads \ {t} : Apart(t, u)' /\ Apart(u, t)'
  BY <1>2 DEF IInv, Apart
<1>9. ASSUME NEW w \in Views PROVE Counted(w)' /\ Referenced(w)'
  <2>1. Counted(w) /\ Referenced(w)
    BY CountsAre DEF IInv
  <2>2. /\ Doing("incref", w)' = Doing("incref", w)
        /\ Storing(w)' = Storing(w) /\ Dropping(w)' = Dropping(w)
        /\ NamesOf(w)' = NamesOf(w)
    BY <1>2 DEF Doing, Storing, Dropping, NamesOf
  <2>3. /\ Cardinality(SlicesOf(w)') + Is(memview[s] = w)
             = Cardinality(SlicesOf(w)) + Is(memview'[s] = w)
        /\ Cardinality(SlicesOf(w)') \in Nat /\ Cardinality(SlicesOf(w)) \in Nat
    BY <1>3, <1>4, CellCounts, Sizes
  <2>4. CASE w = v
    <3>1. /\ acquisition_count[v] = 0 /\ Cardinality(Doing("incref", v)) = 0
          /\ Cardinality(Dropping(v)) = 0 /\ Cardinality(NamesOf(v)) = 0
          /\ Cardinality(Storing(v)) = 0 /\ Cardinality(SlicesOf(v)) = 0
      BY <1>1, FreshIs
    <3>2. Is(memview[s] = v) = 0 /\ Is(memview'[s] = v) = 1
      BY <1>1, <1>3, <1>4 DEF Is
    <3>3. Cardinality(SlicesOf(v)') = 1
      BY <2>3, <2>4, <3>1, <3>2
    <3>4. acquisition_count'[v] = 1 /\ ob_refcnt'[v] = 1
      BY <1>1, <1>3, <3>1
    <3> QED BY <2>2, <2>4, <3>1, <3>3, <3>4 DEF Counted, Referenced, Is
  <2>5. CASE w # v
    <3>1. Is(memview[s] = w) = 0 /\ Is(memview'[s] = w) = 0
      BY <1>1, <1>3, <1>4, <2>5 DEF Is
    <3>2. Cardinality(SlicesOf(w)') = Cardinality(SlicesOf(w))
      BY <2>3, <3>1
    <3>3. acquisition_count'[w] = acquisition_count[w] /\ ob_refcnt'[w] = ob_refcnt[w]
      BY <1>1, <1>3, <2>5
    <3> QED BY <2>1, <2>2, <3>2, <3>3 DEF Counted, Referenced
  <2> QED BY <2>4, <2>5
<1> QED BY <1>2, <1>5, <1>6, <1>7, <1>8, <1>9, StepOf

\* memoryview_fromslice
LEMMA ObjectOfSliceStep ==
  ASSUME IInv, NEW t \in Threads, ObjectOfSlice(t)
  PROVE  IInv'
<1>1. PICK v \in Views, n \in Names :
         /\ Fresh(v) /\ name[n] = NoView /\ NotUsed(n)
         /\ \/ \E s \in Slices :
                  memview[s] # NoView /\ NotWritten(s) /\ Assigns(t, v, memview[s], s, FALSE)
            \/ \E m \in Names :
                  name[m] # NoView /\ NotWritten(m) /\ NotWritten(name[m])
                    /\ Assigns(t, v, ShownBy(name[m]), m, FALSE)
         /\ ob_refcnt' = [ob_refcnt EXCEPT ![v] = 1]
         /\ name' = [name EXCEPT ![n] = v]
  BY DEF ObjectOfSlice
<1>2. /\ job[t].at = "idle" /\ UNCHANGED <<acquisition_count, memview>>
      /\ memview \in [ViewCells -> Views \cup {NoView}]
      /\ name \in [Names -> Views \cup {NoView}]
      /\ v \in ViewCells /\ v # NoView /\ memview[v] = NoView
  BY <1>1 DEF ObjectOfSlice, IdleJob, IInv, ViewTypeOK, ViewCells, Fresh
<1>3. PICK src \in Slices \cup Names, view \in Views :
         /\ Assigns(t, v, view, src, FALSE) /\ NotWritten(src) /\ src # v
         /\ \/ src \in Slices /\ memview[src] = view
            \/ /\ src \in Names /\ name[src] # NoView
               /\ name[src] = view \/ memview[name[src]] = view
  <2>1. CASE \E s \in Slices :
               memview[s] # NoView /\ NotWritten(s) /\ Assigns(t, v, memview[s], s, FALSE)
    <3>1. PICK s \in Slices :
             memview[s] # NoView /\ NotWritten(s) /\ Assigns(t, v, memview[s], s, FALSE)
      BY <2>1
    <3>2. memview[s] \in Views /\ s # v
      BY <1>2, <3>1 DEF ViewCells
    <3> QED BY <3>1, <3>2
  <2>2. CASE \E m \in Names :
               name[m] # NoView /\ NotWritten(m) /\ NotWritten(name[m])
                 /\ Assigns(t, v, ShownBy(name[m]), m, FALSE)
    <3>1. PICK m \in Names :
             name[m] # NoView /\ NotWritten(m) /\ Assigns(t, v, ShownBy(name[m]), m, FALSE)
      BY <2>2
    <3>2. name[m] \in Views /\ m # v
      BY <1>2, <3>1
    <3>3. ShownBy(name[m]) \in Views
          /\ (name[m] = ShownBy(name[m]) \/ memview[name[m]] = ShownBy(name[m]))
      BY <1>2, <3>2 DEF ShownBy, ViewCells
    <3> QED BY <3>1, <3>2, <3>3
  <2> QED BY <1>1, <2>1, <2>2
<1>4. /\ job' = [job EXCEPT ![t] = job'[t]] /\ OnlyJob(t) /\ job'[t] \in JobType
      /\ job'[t].dst = v /\ job'[t].view = view /\ job'[t].src = src
      /\ job'[t].moves = FALSE /\ job'[t].object = NoView
      /\ job'[t].at = "inc" /\ job'[t].clearing = NoView
  <2>1. PICK moves \in BOOLEAN : moves = FALSE
    OBVIOUS
  <2>2. Assigns(t, v, view, src, moves)
    BY <1>3, <2>1
  <2> QED BY <1>2, <2>1, <2>2, Assigned
<1>5. ~Counts(job[t]) /\ ~Counts(job'[t])
  BY <1>2, <1>4 DEF Counts
<1>6. /\ \A u \in Threads \ {t} : HandsOK(u)'
      /\ \A w \in Views : Counted(w)' /\ Referenced(w)'
      /\ name'[n] = v
      /\ \A m \in Names \ {n} : name'[m] = name[m]
  BY <1>1, <1>2, <1>4, <1>5, NewObject
<1>7. ViewTypeOK'
  BY <1>1, <1>2, <1>4 DEF IInv, ViewTypeOK
<1>8. HandsOK(t)'
  <2>0. view # NoView /\ src # NoView
    OBVIOUS
  <2>1. JobOK(t)'
    BY <2>0, <1>2, <1>3, <1>4 DEF JobOK
  <2>2. CellsOK(t)'
    BY <1>4, <1>6 DEF CellsOK
  <2>3. SourceOK(t)'
    <3>1. src \in Names /\ name[src] # NoView => name'[src] = name[src]
      BY <1>1, <1>6
    <3> QED BY <3>1, <1>2, <1>3, <1>4 DEF SourceOK
  <2> QED BY <2>1, <2>2, <2>3 DEF HandsOK
<1>9. ASSUME NEW u \in Threads \ {t} PROVE Apart(t, u)' /\ Apart(u, t)'
  <2>1. job'[u] = job[u] /\ v \notin {job[u].dst, job[u].clearing, job[u].src}
    BY <1>1, <1>4, FreshIs DEF OnlyJob
  <2>2. src \notin {job[u].dst, job[u].clearing} /\ ~(job[u].moves /\ job[u].src = src)
    BY <1>3 DEF NotWritten
  <2> QED BY <1>4, <2>1, <2>2 DEF Apart
<1> QED BY <1>4, <1>6, <1>7, <1>8, <1>9, StepOf

\* A slice goes out of scope.
LEMMA EndSliceStep ==
  ASSUME IInv, NEW t \in Threads, EndSlice(t)
  PROVE  IInv'
<1>1. PICK s \in Slices :
         /\ memview[s] # NoView /\ NotUsed(s)
         /\ job' = [job EXCEPT ![t] = [NoJob EXCEPT !.at = "clear", !.clearing = s]]
  BY DEF EndSlice
<1>2. /\ job[t].at = "idle" /\ UNCHANGED <<ob_refcnt, acquisition_count, memview, name>>
      /\ s \in ViewCells /\ s \notin Views /\ s # NoView
      /\ job \in [Threads -> JobType]
  BY DEF EndSlice, IdleJob, ViewCells, IInv, ViewTypeOK
<1>3. /\ OnlyJob(t) /\ job'[t] \in JobType /\ job' \in [Threads -> JobType]
      /\ job'[t].at = "clear" /\ job'[t].clearing = s /\ job'[t].object = NoView
      /\ job'[t].view = NoView /\ job'[t].dst = NoView /\ job'[t].src = NoView
      /\ job'[t].moves = FALSE
  BY <1>1, <1>2, NoJobIs DEF OnlyJob, JobType
<1>4. ViewTypeOK'
  BY <1>2, <1>3 DEF IInv, ViewTypeOK
<1>5. HandsOK(t)'
  BY <1>1, <1>2, <1>3 DEF HandsOK, JobOK, CellsOK, SourceOK
<1>6. ASSUME NEW u \in Threads \ {t} PROVE Apart(t, u)' /\ Apart(u, t)'
  <2>1. job'[u] = job[u] /\ s \notin {job[u].dst, job[u].clearing, job[u].src}
    BY <1>1, <1>2, <1>3, Unused DEF OnlyJob
  <2>2. job[u].moves => job[u].src # NoView
    BY DEF IInv, SourceOK
  <2> QED BY <1>2, <1>3, <2>1, <2>2 DEF Apart
<1>7. \A v \in Views : Counted(v)' /\ Referenced(v)'
  <2>1. ~Counts(job[t]) /\ ~Counts(job'[t])
    BY <1>2, <1>3 DEF Counts
  <2> QED BY <2>1, <1>2, <1>3, CountsKeep
<1> QED BY <1>2, <1>3, <1>4, <1>5, <1>6, <1>7, OthersKeep, StepOf
\* The four assignments to a slice.
LEMMA AssignSteps ==
  ASSUME IInv, NEW t \in Threads,
         SliceOfView(t) \/ AssignSlice(t) \/ AssignTemporary(t) \/ AssignSlicing(t)
  PROVE  IInv'
<1>1. /\ memview \in [ViewCells -> Views \cup {NoView}]
      /\ name \in [Names -> Views \cup {NoView}]
  BY DEF IInv, ViewTypeOK
<1>2. PICK moves \in {FALSE} : TRUE
  OBVIOUS
<1>3. moves \in BOOLEAN /\ ~moves
  BY <1>2
<1>4. CASE SliceOfView(t)
  <2>1. PICK n \in Names, s \in Slices :
           /\ name[n] # NoView /\ NotWritten(n) /\ memview[s] = NoView /\ NotUsed(s)
           /\ Assigns(t, s, name[n], n, FALSE)
    BY <1>4 DEF SliceOfView
  <2>2. name[n] \in Views /\ n # s /\ Assigns(t, s, name[n], n, moves)
    BY <1>1, <1>2, <2>1
  <2>3. IdleJob(t) /\ UNCHANGED <<ob_refcnt, acquisition_count, memview, name>>
    BY <1>4 DEF SliceOfView
  <2> QED BY <1>3, <2>1, <2>2, <2>3, AssignStep
<1>5. CASE AssignSlice(t) \/ AssignSlicing(t)
  <2>1. PICK src, dst \in Slices :
           /\ src # dst /\ memview[src] # NoView /\ NotWritten(src) /\ NotUsed(dst)
           /\ Assigns(t, dst, memview[src], src, FALSE)
    BY <1>5 DEF AssignSlice, AssignSlicing
  <2>2. memview[src] \in Views /\ Assigns(t, dst, memview[src], src, moves)
    BY <1>1, <1>2, <2>1 DEF ViewCells
  <2>3. IdleJob(t) /\ UNCHANGED <<ob_refcnt, acquisition_count, memview, name>>
    BY <1>5 DEF AssignSlice, AssignSlicing
  <2> QED BY <1>3, <2>1, <2>2, <2>3, AssignStep
<1>6. CASE AssignTemporary(t)
  <2>1. PICK src, dst \in Slices :
           /\ src # dst /\ memview[src] # NoView /\ NotUsed(src) /\ NotUsed(dst)
           /\ Assigns(t, dst, memview[src], src, TRUE)
    BY <1>6 DEF AssignTemporary
  <2>2. memview[src] \in Views /\ NotWritten(src)
    BY <1>1, <2>1 DEF ViewCells, NotUsed
  <2>3. IdleJob(t) /\ UNCHANGED <<ob_refcnt, acquisition_count, memview, name>>
    BY <1>6 DEF AssignTemporary
  <2>4. PICK takes \in {TRUE} : TRUE
    OBVIOUS
  <2>5. takes \in BOOLEAN /\ Assigns(t, dst, memview[src], src, takes)
    BY <2>1, <2>4
  <2> QED BY <2>1, <2>2, <2>3, <2>5, AssignStep
<1> QED BY <1>4, <1>5, <1>6

\* A Python reference is dropped: the thread has it until its Py_DECREF.
LEMMA EndNameStep ==
  ASSUME IInv, NEW t \in Threads, EndName(t)
  PROVE  IInv'
<1>1. PICK n \in Names :
         /\ name[n] # NoView /\ NotUsed(n) /\ NotWritten(name[n])
         /\ job' = [job EXCEPT ![t] = [NoJob EXCEPT !.at = "decref", !.object = name[n]]]
         /\ name' = [name EXCEPT ![n] = NoView]
  BY DEF EndName
<1> DEFINE v == name[n]
<1>2. /\ job[t].at = "idle" /\ UNCHANGED <<ob_refcnt, acquisition_count, memview>>
      /\ name \in [Names -> Views \cup {NoView}] /\ job \in [Threads -> JobType]
      /\ v \in Views /\ v # NoView
  BY <1>1 DEF EndName, IdleJob, IInv, ViewTypeOK
<1>3. /\ OnlyJob(t) /\ job'[t] \in JobType /\ job' \in [Threads -> JobType]
      /\ job'[t].at = "decref" /\ job'[t].clearing = NoView /\ job'[t].object = v
      /\ job'[t].view = NoView /\ job'[t].dst = NoView /\ job'[t].src = NoView
      /\ job'[t].moves = FALSE
  BY <1>1, <1>2, NoJobIs DEF OnlyJob, JobType
<1>4. name'[n] = NoView /\ \A m \in Names \ {n} : name'[m] = name[m]
  BY <1>1, <1>2
<1> HIDE DEF v
<1>5. ViewTypeOK'
  BY <1>1, <1>2, <1>3 DEF IInv, ViewTypeOK
<1>6. HandsOK(t)'
  BY <1>2, <1>3 DEF HandsOK, JobOK, CellsOK, SourceOK
<1>7. ASSUME NEW u \in Threads \ {t} PROVE HandsOK(u)'
  <2>1. JobOK(u) /\ CellsOK(u) /\ job[u].src # n /\ job[u].dst # v
    BY <1>1 DEF IInv, NotUsed, NotWritten, v
  <2>2. job[u].clearing \in Views => ob_refcnt'[job[u].clearing] = 0
    BY <1>2, <2>1 DEF CellsOK
  <2>3. job[u].dst \in Views => \E m \in Names : name'[m] = job[u].dst
    <3> SUFFICES ASSUME job[u].dst \in Views PROVE \E m \in Names : name'[m] = job[u].dst
      OBVIOUS
    <3>1. PICK m \in Names : name[m] = job[u].dst
      BY <2>1 DEF CellsOK
    <3> QED BY <3>1, <2>1, <1>4 DEF v
  <2> QED BY <1>2, <1>3, <1>4, <2>1, <2>2, <2>3, OtherLeft
<1>8. ASSUME NEW u \in Threads \ {t} PROVE Apart(t, u)' /\ Apart(u, t)'
  <2>1. job'[u] = job[u] /\ (job[u].moves => job[u].src # NoView)
    BY <1>3 DEF OnlyJob, IInv, SourceOK
  <2> QED BY <1>3, <2>1 DEF Apart
<1>9. ASSUME NEW w \in Views PROVE Counted(w)' /\ Referenced(w)'
  <2>1. Counted(w) /\ Referenced(w) /\ ob_refcnt[w] \in Nat
    BY CountsAre DEF IInv, ViewTypeOK
  <2>2. IncOf(job[t], w) = 0 /\ StoOf(job[t], w) = 0 /\ DropOf(job[t], w) = 0
        /\ IncOf(job'[t], w) = 0 /\ StoOf(job'[t], w) = 0
        /\ DropOf(job'[t], w) = Is(v = w)
    BY <1>2, <1>3 DEF IncOf, StoOf, DropOf, Is
  <2>3. Cardinality(NamesOf(w)') + Is(v = w) = Cardinality(NamesOf(w))
    <3>1. Cardinality(NamesOf(w)') + Is(v = w) = Cardinality(NamesOf(w)) + Is(name'[n] = w)
      BY <1>4, NameCounts DEF v
    <3>2. Is(name'[n] = w) = 0
      BY <1>4 DEF Is
    <3> QED BY <3>1, <3>2, Sizes
  <2>4. /\ Cardinality(Doing("incref", w)') = Cardinality(Doing("incref", w))
        /\ Cardinality(Storing(w)') = Cardinality(Storing(w))
        /\ Cardinality(Dropping(w)') = Cardinality(Dropping(w)) + Is(v = w)
    BY <1>3, <2>2, JobMoves, CountsAreNat
  <2>5. SlicesOf(w)' = SlicesOf(w)
    BY <1>2 DEF SlicesOf
  <2>6. Counted(w)'
    BY <1>2, <2>1, <2>4, <2>5 DEF Counted
  <2>7. Referenced(w)'
    <3>1. /\ Cardinality(NamesOf(w)') \in Nat /\ Cardinality(Dropping(w)) \in Nat
          /\ Is(v = w) \in Nat /\ Is(acquisition_count[w] > 0) \in Nat
      BY <1>4, NameCounts, Sizes DEF Is
    <3> QED BY <1>2, <2>1, <2>3, <2>4, <3>1 DEF Referenced
  <2> QED BY <2>6, <2>7
<1> QED BY <1>3, <1>5, <1>6, <1>7, <1>8, <1>9, StepOf
-----------------------------------------------------------------------------
(* The steps that carry a job on.                                            *)

\* What is left of a job when there is nothing more to release.
LEMMA Released ==
  ASSUME IInv, NEW t \in Threads, job[t].at \in {"clear", "decref"}
  PROVE  LET j == AfterRelease(job[t])
         IN  /\ j \in JobType /\ ~Counts(j)
             /\ j.clearing = NoView /\ j.object = NoView
             /\ IF job[t].view = NoView THEN j = NoJob
                ELSE /\ j.at = (IF job[t].moves THEN "store" ELSE "inc")
                     /\ j.view = job[t].view /\ j.dst = job[t].dst
                     /\ j.src = job[t].src /\ j.moves = job[t].moves
<1>1. job[t] \in JobType
  BY DEF IInv, ViewTypeOK
<1>2. CASE job[t].view = NoView
  BY <1>2, NoJobIs DEF AfterRelease, Counts
<1>3. CASE job[t].view # NoView
  <2>1. AfterRelease(job[t]) = [job[t] EXCEPT !.at = IF job[t].moves THEN "store" ELSE "inc",
                                             !.clearing = NoView, !.object = NoView]
    BY <1>3 DEF AfterRelease
  <2> DEFINE j == AfterRelease(job[t])
  <2> DEFINE k == job[t]
  <2> DEFINE place == IF k.moves THEN "store" ELSE "inc"
  <2>2. /\ k \in JobType /\ k.moves \in BOOLEAN
        /\ j = [k EXCEPT !.at = place, !.clearing = NoView, !.object = NoView]
    BY <1>1, <2>1 DEF JobType
  <2>3. place \in {"store", "inc"} /\ (place = "store" => k.moves)
    OBVIOUS
  <2> HIDE DEF j, k, place
  <2>4. /\ j \in JobType /\ j.at = place /\ j.clearing = NoView /\ j.object = NoView
        /\ j.view = k.view /\ j.dst = k.dst /\ j.src = k.src /\ j.moves = k.moves
    BY <2>2, <2>3 DEF JobType
  <2>5. ~Counts(j)
    BY <2>3, <2>4 DEF Counts
  <2> QED BY <1>3, <2>4, <2>5 DEF j, k, place
<1> QED BY <1>2, <1>3

\* The job of a thread that has released what it holds.
LEMMA ReleasedHands ==
  ASSUME IInv, NEW t \in Threads, job[t].at \in {"clear", "decref"},
         job'[t] = AfterRelease(job[t]), OnlyJob(t), UNCHANGED name,
         job[t].view # NoView => /\ memview'[job[t].dst] = NoView
                                 /\ job[t].src \in Slices
                                       => memview'[job[t].src] = memview[job[t].src],
         \A n \in Names : name[n] # NoView => memview'[name[n]] = memview[name[n]]
  PROVE  /\ job'[t] \in JobType /\ HandsOK(t)'
         /\ job'[t].at # "incref" /\ ~Counts(job'[t])
         /\ \A u \in Threads \ {t} : Apart(t, u)' /\ Apart(u, t)'
<1>1. JobOK(t) /\ CellsOK(t) /\ SourceOK(t) /\ job[t] \in JobType
  BY DEF IInv, ViewTypeOK
<1>2. /\ job'[t] \in JobType /\ ~Counts(job'[t])
      /\ job'[t].clearing = NoView /\ job'[t].object = NoView
      /\ IF job[t].view = NoView THEN job'[t] = NoJob
         ELSE /\ job'[t].at = (IF job[t].moves THEN "store" ELSE "inc")
              /\ job'[t].view = job[t].view /\ job'[t].dst = job[t].dst
              /\ job'[t].src = job[t].src /\ job'[t].moves = job[t].moves
  BY Released
<1>3. CASE job[t].view = NoView
  <2>1. job'[t] = NoJob
    BY <1>2, <1>3
  <2>2. HandsOK(t)'
    BY <2>1, NoJobIs DEF HandsOK, JobOK, CellsOK, SourceOK
  <2>3. \A u \in Threads \ {t} : Apart(t, u)' /\ Apart(u, t)'
    BY <2>1, NoJobIs, StayApart
  <2> QED BY <1>2, <2>1, <2>2, <2>3, NoJobIs
<1>4. CASE job[t].view # NoView
  <2>1. JobOK(t)'
    BY <1>1, <1>2, <1>4 DEF JobOK
  <2>2. CellsOK(t)'
    BY <1>1, <1>2, <1>4 DEF CellsOK
  <2>3. SourceOK(t)'
    BY <1>1, <1>2, <1>4 DEF SourceOK
  <2>4. \A u \in Threads \ {t} : Apart(t, u)' /\ Apart(u, t)'
    <3>1. job[t].src # NoView
      BY <1>1, <1>4 DEF JobOK
    <3> QED BY <1>2, <1>4, <3>1, StayApart
  <2> QED BY <1>2, <1>4, <2>1, <2>2, <2>3, <2>4 DEF HandsOK
<1> QED BY <1>3, <1>4

\* __Pyx_XCLEAR_MEMVIEW
LEMMA XClearStep ==
  ASSUME IInv, NEW t \in Threads, XClear(t)
  PROVE  IInv'
<1> DEFINE c == job[t].clearing
<1> DEFINE v == memview[job[t].clearing]
<1>1. /\ job[t].at = "clear" /\ UNCHANGED <<ob_refcnt, name>>
      /\ acquisition_count' = [acquisition_count EXCEPT ![v] = @ - 1]
      /\ memview' = [memview EXCEPT ![c] = NoView]
      /\ job' = [job EXCEPT ![t] = IF acquisition_count[v] > 1 THEN AfterRelease(job[t])
                    ELSE [job[t] EXCEPT !.at = "decref", !.object = v, !.clearing = NoView]]
  BY DEF XClear
<1>2. JobOK(t) /\ CellsOK(t) /\ SourceOK(t) /\ job[t] \in JobType
  BY DEF IInv, ViewTypeOK
<1>3. /\ c \in ViewCells /\ c # NoView /\ v # NoView /\ v = memview[c]
  BY <1>1, <1>2 DEF JobOK, JobType
<1>4. v \in Views /\ acquisition_count[v] > 0
  BY <1>3, SliceCounts
<1>5. /\ acquisition_count \in [Views -> Nat] /\ ob_refcnt \in [Views -> Nat]
      /\ memview \in [ViewCells -> Views \cup {NoView}]
      /\ name \in [Names -> Views \cup {NoView}] /\ job \in [Threads -> JobType]
  BY DEF IInv, ViewTypeOK
<1> HIDE DEF c, v
<1>6. /\ memview'[c] = NoView /\ \A d \in ViewCells \ {c} : memview'[d] = memview[d]
      /\ acquisition_count'[v] = acquisition_count[v] - 1
      /\ \A w \in Views \ {v} : acquisition_count'[w] = acquisition_count[w]
      /\ acquisition_count' \in [Views -> Nat]
      /\ memview' \in [ViewCells -> Views \cup {NoView}]
  BY <1>1, <1>3, <1>4, <1>5
<1>7. OnlyJob(t)
  BY <1>1, <1>5 DEF OnlyJob
<1>8. \A n \in Names : name[n] # NoView => name[n] \in ViewCells /\ name[n] # c
  <2> SUFFICES ASSUME NEW n \in Names, name[n] # NoView
               PROVE  name[n] \in ViewCells /\ name[n] # c
    OBVIOUS
  <2>1. name[n] \in Views /\ ob_refcnt[name[n]] > 0
    BY <1>5, InUse DEF ViewsInUseLive
  <2> QED BY <1>2, <2>1 DEF CellsOK, ViewCells, c
<1>9. ASSUME NEW u \in Threads \ {t} PROVE HandsOK(u)'
  <2>1. JobOK(u) /\ CellsOK(u) /\ Apart(t, u) /\ Apart(u, t)
    BY DEF IInv
  <2>2. job[u].clearing \in Views => ob_refcnt'[job[u].clearing] = 0
    BY <1>1, <2>1 DEF CellsOK
  <2>3. job[u].dst \in Views => \E m \in Names : name'[m] = job[u].dst
    BY <1>1, <2>1 DEF CellsOK
  <2>4. c \notin {job[u].dst, job[u].clearing, job[u].src}
    BY <1>3, <2>1 DEF Apart, c
  <2>5. \A d \in ViewCells : d \in {job[u].dst, job[u].clearing, job[u].src}
            => memview'[d] = memview[d]
    BY <1>6, <2>4
  <2> QED BY <1>1, <1>6, <1>7, <1>8, <2>2, <2>3, <2>5, OtherLeft
<1>10. /\ job[t].view # NoView => /\ memview'[job[t].dst] = NoView
                                  /\ job[t].src \in Slices
                                        => memview'[job[t].src] = memview[job[t].src]
       /\ \A n \in Names : name[n] # NoView => memview'[name[n]] = memview[name[n]]
  <2>1. ASSUME job[t].view # NoView
        PROVE  /\ memview'[job[t].dst] = NoView
               /\ job[t].src \in Slices => memview'[job[t].src] = memview[job[t].src]
    <3>1. /\ job[t].dst \in ViewCells /\ job[t].src # c
          /\ job[t].dst = c \/ memview[job[t].dst] = NoView
      BY <1>2, <2>1 DEF JobOK, c
    <3> QED BY <1>6, <3>1 DEF ViewCells
  <2> QED BY <1>6, <1>8, <2>1
<1>11. /\ job'[t] \in JobType /\ HandsOK(t)' /\ job'[t].at # "incref"
       /\ \A u \in Threads \ {t} : Apart(t, u)' /\ Apart(u, t)'
       /\ \A w \in Views : IncOf(job'[t], w) = 0 /\ StoOf(job'[t], w) = 0
       /\ \A w \in Views :
             DropOf(job'[t], w) = Is(w = v /\ acquisition_count[v] = 1)
  <2>1. CASE acquisition_count[v] > 1
    <3>1. job'[t] = AfterRelease(job[t])
      BY <1>1, <1>5, <2>1
    <3>2. /\ job'[t] \in JobType /\ HandsOK(t)' /\ job'[t].at # "incref"
          /\ ~Counts(job'[t])
          /\ \A u \in Threads \ {t} : Apart(t, u)' /\ Apart(u, t)'
      BY <3>1, <1>1, <1>7, <1>10, ReleasedHands
    <3> QED BY <3>2, <2>1 DEF Counts, IncOf, StoOf, DropOf, Is
  <2>2. CASE ~(acquisition_count[v] > 1)
    <3>0. acquisition_count[v] = 1
      BY <2>2, <1>4, <1>5
    <3>1. job'[t] = [job[t] EXCEPT !.at = "decref", !.object = v, !.clearing = NoView]
      BY <1>1, <1>5, <2>2
    <3>2. /\ job'[t] \in JobType /\ job'[t].at = "decref" /\ job'[t].object = v
          /\ job'[t].clearing = NoView /\ job'[t].view = job[t].view
          /\ job'[t].dst = job[t].dst /\ job'[t].src = job[t].src
          /\ job'[t].moves = job[t].moves
      BY <3>1, <1>2, <1>4 DEF JobType
    <3>3. JobOK(t)'
      BY <1>2, <1>3, <1>4, <1>10, <3>2 DEF JobOK
    <3>4. CellsOK(t)'
      BY <1>1, <1>2, <3>2 DEF CellsOK
    <3>5. SourceOK(t)'
      BY <1>1, <1>2, <1>10, <3>2 DEF SourceOK, JobOK
    <3>6. \A u \in Threads \ {t} : Apart(t, u)' /\ Apart(u, t)'
      <4>1. job[t].src = NoView => ~job[t].moves
        BY <1>2 DEF SourceOK
      <4> QED BY <1>7, <3>2, <4>1, StayApart
    <3>7. \A w \in Views : /\ IncOf(job'[t], w) = 0 /\ StoOf(job'[t], w) = 0
                           /\ DropOf(job'[t], w) = Is(w = v)
      BY <3>2 DEF IncOf, StoOf, DropOf, Is
    <3> QED BY <3>0, <3>2, <3>3, <3>4, <3>5, <3>6, <3>7 DEF HandsOK
  <2> QED BY <2>1, <2>2
<1>12. ViewTypeOK'
  <2>1. job' \in [Threads -> JobType]
    BY <1>1, <1>5, <1>11
  <2> QED BY <1>1, <1>5, <1>6, <2>1 DEF ViewTypeOK
<1>13. ASSUME NEW w \in Views PROVE Counted(w)' /\ Referenced(w)'
  <2>1. Counted(w) /\ Referenced(w) /\ ob_refcnt[w] \in Nat /\ acquisition_count[w] \in Nat
    BY <1>5, CountsAre DEF IInv
  <2>2. IncOf(job[t], w) = 0 /\ StoOf(job[t], w) = 0 /\ DropOf(job[t], w) = 0
    BY <1>1 DEF IncOf, StoOf, DropOf, Is
  <2>3. /\ Cardinality(Doing("incref", w)') = Cardinality(Doing("incref", w))
        /\ Cardinality(Storing(w)') = Cardinality(Storing(w))
        /\ Cardinality(Dropping(w)')
             = Cardinality(Dropping(w)) + Is(w = v /\ acquisition_count[v] = 1)
    BY <1>7, <1>11, <2>2, JobMoves, CountsAreNat
  <2>4. Cardinality(SlicesOf(w)') + Is(w = v) = Cardinality(SlicesOf(w))
    <3>1. /\ Cardinality(SlicesOf(w)') + Is(memview[c] = w)
               = Cardinality(SlicesOf(w)) + Is(memview'[c] = w)
          /\ Cardinality(SlicesOf(w)) \in Nat /\ Cardinality(SlicesOf(w)') \in Nat
      BY <1>3, <1>6, CellCounts, Sizes
    <3>2. Is(memview[c] = w) = Is(w = v) /\ Is(memview'[c] = w) = 0
      BY <1>3, <1>6 DEF Is
    <3> QED BY <3>1, <3>2
  <2>5. NamesOf(w)' = NamesOf(w)
    BY <1>1 DEF NamesOf
  <2>6. /\ Cardinality(SlicesOf(w)') \in Nat /\ Cardinality(Doing("incref", w)) \in Nat
        /\ Cardinality(Storing(w)) \in Nat /\ Cardinality(Dropping(w)) \in Nat
        /\ Cardinality(NamesOf(w)) \in Nat
    BY <1>3, <1>6, <1>7, CellCounts, CountsAreNat
  <2>7. Counted(w)'
    <3>1. acquisition_count'[w] + Is(w = v) = acquisition_count[w]
      BY <1>5, <1>6 DEF Is
    <3>2. Is(w = v) \in Nat /\ acquisition_count'[w] \in Nat
      BY <1>6 DEF Is
    <3> QED BY <2>1, <2>3, <2>4, <2>6, <3>1, <3>2 DEF Counted
  <2>8. Referenced(w)'
    <3>1. Is(acquisition_count'[w] > 0) + Is(w = v /\ acquisition_count[v] = 1)
             = Is(acquisition_count[w] > 0)
      BY <1>4, <1>5, <1>6 DEF Is
    <3>2. /\ Is(acquisition_count'[w] > 0) \in Nat /\ Is(acquisition_count[w] > 0) \in Nat
          /\ Is(w = v /\ acquisition_count[v] = 1) \in Nat
      BY DEF Is
    <3> QED BY <1>1, <2>1, <2>3, <2>5, <2>6, <3>1, <3>2 DEF Referenced
  <2> QED BY <2>7, <2>8
<1> QED BY <1>7, <1>9, <1>11, <1>12, <1>13, StepOf
\* Who drops a reference to an object that has a name does not free it.
LEMMA NamedIsKept ==
  ASSUME IInv, NEW t \in Threads, job[t].at = "decref", NEW n \in Names,
         name[n] = job[t].object, job[t].object \in Views
  PROVE  ob_refcnt[job[t].object] > 1
<1> DEFINE v == job[t].object
<1>1. Counted(v) /\ Referenced(v) /\ ob_refcnt[v] \in Nat /\ acquisition_count[v] \in Nat
  BY CountsAre DEF IInv, ViewTypeOK
<1>2. /\ Cardinality(NamesOf(v)) > 0 /\ Cardinality(Dropping(v)) > 0
      /\ Cardinality(NamesOf(v)) \in Nat /\ Cardinality(Dropping(v)) \in Nat
      /\ Cardinality(Doing("incref", v)) \in Nat /\ Cardinality(Storing(v)) \in Nat
      /\ Cardinality(SlicesOf(v)) \in Nat
  BY Sizes
<1>3. Cardinality(Doing("incref", v)) \in {0, 1}
  BY FirstReads
<1> HIDE DEF v
<1>4. Cardinality(Doing("incref", v)) = 1 => acquisition_count[v] > 0
  BY <1>1, <1>2 DEF Counted
<1> QED BY <1>1, <1>2, <1>3, <1>4 DEF Referenced, Is, v

\* Py_DECREF
LEMMA DecrefStep ==
  ASSUME IInv, NEW t \in Threads, Decref(t)
  PROVE  IInv'
<1> DEFINE v == job[t].object
<1>1. /\ job[t].at = "decref" /\ UNCHANGED <<acquisition_count, memview, name>>
      /\ ob_refcnt' = [ob_refcnt EXCEPT ![v] = @ - 1]
      /\ job' = [job EXCEPT ![t] = IF ob_refcnt[v] = 1 /\ memview[v] # NoView
                    THEN [job[t] EXCEPT !.at = "clear", !.clearing = v, !.object = NoView]
                    ELSE AfterRelease(job[t])]
  BY DEF Decref
<1>2. JobOK(t) /\ CellsOK(t) /\ SourceOK(t) /\ job[t] \in JobType
  BY DEF IInv, ViewTypeOK
<1>3. v \in Views /\ v # NoView /\ v \in ViewCells /\ job[t].clearing = NoView
  BY <1>1, <1>2 DEF JobOK, JobType, ViewCells
<1>4. ob_refcnt[v] > 0
  BY <1>1, <1>3, ObjectLives
<1>5. /\ ob_refcnt \in [Views -> Nat] /\ job \in [Threads -> JobType]
      /\ acquisition_count \in [Views -> Nat]
  BY DEF IInv, ViewTypeOK
<1>6. \A n \in Names : name[n] = v => ob_refcnt[v] > 1
  BY <1>1, <1>3, NamedIsKept
<1> HIDE DEF v
<1>7. /\ ob_refcnt'[v] = ob_refcnt[v] - 1
      /\ \A w \in Views \ {v} : ob_refcnt'[w] = ob_refcnt[w]
      /\ ob_refcnt' \in [Views -> Nat]
  BY <1>1, <1>3, <1>4, <1>5
<1>8. OnlyJob(t)
  BY <1>1, <1>5 DEF OnlyJob
<1>9. ASSUME NEW u \in Threads \ {t}
      PROVE HandsOK(u)' /\ job[u].clearing # v /\ (ob_refcnt[v] = 1 => job[u].dst # v)
  <2>1. JobOK(u) /\ CellsOK(u)
    BY DEF IInv
  <2>2. job[u].clearing # v
    BY <1>3, <1>4, <2>1 DEF CellsOK
  <2>3. job[u].clearing \in Views => ob_refcnt'[job[u].clearing] = 0
    BY <1>7, <2>1, <2>2 DEF CellsOK
  <2>4. job[u].dst \in Views => \E m \in Names : name'[m] = job[u].dst
    BY <1>1, <2>1 DEF CellsOK
  <2>5. ob_refcnt[v] = 1 => job[u].dst # v
    BY <1>3, <1>6, <2>1 DEF CellsOK
  <2>6. HandsOK(u)'
    BY <1>1, <1>8, <2>3, <2>4, OtherLeft
  <2> QED BY <2>2, <2>5, <2>6
<1>10. /\ job'[t] \in JobType /\ HandsOK(t)' /\ job'[t].at # "incref" /\ ~Counts(job'[t])
       /\ \A u \in Threads \ {t} : Apart(t, u)' /\ Apart(u, t)'
  <2>1. CASE ob_refcnt[v] = 1 /\ memview[v] # NoView
    <3>1. job'[t] = [job[t] EXCEPT !.at = "clear", !.clearing = v, !.object = NoView]
      BY <1>1, <1>5, <2>1
    <3>2. /\ job'[t] \in JobType /\ job'[t].at = "clear" /\ job'[t].object = NoView
          /\ job'[t].clearing = v /\ job'[t].view = job[t].view
          /\ job'[t].dst = job[t].dst /\ job'[t].src = job[t].src
          /\ job'[t].moves = job[t].moves
      BY <3>1, <1>2, <1>3 DEF JobType
    <3>3. JobOK(t)'
      <4>1. job[t].view # NoView => job[t].src # v
        BY <1>2, <1>3 DEF JobOK
      <4>2. job[t].view # NoView => memview[job[t].dst] = NoView
        BY <1>2, <1>3 DEF JobOK, ViewCells
      <4> QED BY <1>1, <1>2, <1>3, <2>1, <3>2, <4>1, <4>2 DEF JobOK
    <3>4. CellsOK(t)'
      BY <1>1, <1>2, <1>5, <1>7, <2>1, <3>2, <1>3 DEF CellsOK
    <3>5. SourceOK(t)'
      BY <1>1, <1>2, <3>2 DEF SourceOK, JobOK
    <3>6. ASSUME NEW u \in Threads \ {t} PROVE Apart(t, u)' /\ Apart(u, t)'
      <4>1. /\ job'[u] = job[u] /\ Apart(t, u) /\ Apart(u, t)
            /\ job[u].clearing # v /\ job[u].dst # v
        BY <1>8, <1>9, <2>1 DEF IInv, OnlyJob
      <4>2. job[u].src # v
        <5>1. JobOK(u) /\ job[u].view \in Views \cup {NoView}
          BY DEF IInv, ViewTypeOK, JobType
        <5> QED BY <5>1, <1>3 DEF JobOK
      <4> QED BY <1>3, <3>2, <4>1, <4>2 DEF Apart
    <3> QED BY <3>2, <3>3, <3>4, <3>5, <3>6 DEF HandsOK, Counts
  <2>2. CASE ~(ob_refcnt[v] = 1 /\ memview[v] # NoView)
    <3>1. job'[t] = AfterRelease(job[t])
      BY <1>1, <1>5, <2>2
    <3>2. job[t].view # NoView => memview[job[t].dst] = NoView
      BY <1>2, <1>3 DEF JobOK, ViewCells
    <3>3. /\ job'[t] \in JobType /\ HandsOK(t)' /\ job'[t].at # "incref" /\ ~Counts(job'[t])
          /\ \A u \in Threads \ {t} : Apart(t, u)' /\ Apart(u, t)'
      BY <1>1, <1>8, <3>1, <3>2, ReleasedHands
    <3> QED BY <3>3
  <2> QED BY <2>1, <2>2
<1>11. ViewTypeOK'
  <2>1. job' \in [Threads -> JobType]
    BY <1>1, <1>5, <1>10
  <2> QED BY <1>1, <1>7, <2>1 DEF ViewTypeOK, IInv
<1>12. ASSUME NEW w \in Views PROVE Counted(w)' /\ Referenced(w)'
  <2>1. Counted(w) /\ Referenced(w) /\ ob_refcnt[w] \in Nat /\ ob_refcnt'[w] \in Nat
    BY <1>5, <1>7, CountsAre DEF IInv
  <2>2. /\ IncOf(job[t], w) = 0 /\ StoOf(job[t], w) = 0
        /\ DropOf(job[t], w) = Is(w = v)
        /\ IncOf(job'[t], w) = 0 /\ StoOf(job'[t], w) = 0 /\ DropOf(job'[t], w) = 0
    BY <1>1, <1>10 DEF IncOf, StoOf, DropOf, Is, Counts, v
  <2>3. /\ Cardinality(Doing("incref", w)') = Cardinality(Doing("incref", w))
        /\ Cardinality(Storing(w)') = Cardinality(Storing(w))
        /\ Cardinality(Dropping(w)') + Is(w = v) = Cardinality(Dropping(w))
    BY <1>8, <2>2, JobMoves, CountsAreNat
  <2>4. SlicesOf(w)' = SlicesOf(w) /\ NamesOf(w)' = NamesOf(w)
    BY <1>1 DEF SlicesOf, NamesOf
  <2>5. Counted(w)'
    BY <1>1, <2>1, <2>3, <2>4 DEF Counted
  <2>6. Referenced(w)'
    <3>1. ob_refcnt'[w] + Is(w = v) = ob_refcnt[w]
      BY <1>4, <1>5, <1>7 DEF Is
    <3>2. /\ Is(w = v) \in Nat /\ Is(acquisition_count[w] > 0) \in Nat
          /\ Cardinality(Dropping(w)') \in Nat /\ Cardinality(Doing("incref", w)) \in Nat
          /\ Cardinality(NamesOf(w)) \in Nat
      BY <1>8, CountsAreNat DEF Is
    <3>3. Is(acquisition_count'[w] > 0) = Is(acquisition_count[w] > 0)
      BY <1>1 DEF Is
    <3>4. Cardinality(Dropping(w)) \in Nat
      BY Sizes
    <3> DEFINE o == ob_refcnt[w]
    <3> DEFINE o1 == ob_refcnt'[w]
    <3> DEFINE p == Cardinality(Dropping(w))
    <3> DEFINE p1 == Cardinality(Dropping(w)')
    <3> DEFINE e == Is(w = v)
    <3> DEFINE d == Cardinality(Doing("incref", w))
    <3> DEFINE n == Cardinality(NamesOf(w))
    <3> DEFINE a == Is(acquisition_count[w] > 0)
    <3>5. /\ o + d = n + a + p /\ o1 + e = o /\ p1 + e = p
          /\ o \in Nat /\ o1 \in Nat /\ p \in Nat /\ p1 \in Nat /\ e \in Nat
          /\ d \in Nat /\ n \in Nat /\ a \in Nat
      BY <2>1, <2>3, <3>1, <3>2, <3>4 DEF Referenced
    <3>6. o1 + d = n + a + p1
      <4> HIDE DEF o, o1, p, p1, e, d, n, a
      <4> QED BY <3>5
    <3>7. o1 + Cardinality(Doing("incref", w)')
             = Cardinality(NamesOf(w)') + Is(acquisition_count'[w] > 0) + p1
      <4>1. /\ Cardinality(Doing("incref", w)') = d /\ Cardinality(NamesOf(w)') = n
            /\ Is(acquisition_count'[w] > 0) = a
        BY <2>3, <2>4, <3>3
      <4> HIDE DEF o, o1, p, p1, e, d, n, a
      <4> QED BY <3>6, <4>1
    <3> QED BY <3>7 DEF Referenced
  <2> QED BY <2>5, <2>6
<1> QED BY <1>8, <1>9, <1>10, <1>11, <1>12, StepOf
\* __Pyx_INC_MEMVIEW: who finds the count at 0 reads a name of the object.
LEMMA IncStep ==
  ASSUME IInv, NEW t \in Threads, IncMemview(t)
  PROVE  IInv'
<1> DEFINE v == job[t].view
<1> DEFINE place == IF acquisition_count[v] = 0 THEN "incref" ELSE "store"
<1>1. /\ job[t].at = "inc" /\ UNCHANGED <<ob_refcnt, memview, name>>
      /\ acquisition_count' = [acquisition_count EXCEPT ![v] = @ + 1]
      /\ job' = [job EXCEPT ![t].at = place]
  BY DEF IncMemview
<1>2. JobOK(t) /\ CellsOK(t) /\ SourceOK(t) /\ job[t] \in JobType
  BY DEF IInv, ViewTypeOK
<1>3. v \in Views /\ v # NoView /\ ~job[t].moves /\ job[t].moves = FALSE
  BY <1>1, <1>2 DEF JobOK, SourceOK, JobType
<1>4. /\ acquisition_count \in [Views -> Nat] /\ job \in [Threads -> JobType]
      /\ ob_refcnt \in [Views -> Nat]
  BY DEF IInv, ViewTypeOK
<1>5. /\ place \in {"incref", "store"}
      /\ place = "incref" <=> acquisition_count[v] = 0
  OBVIOUS
<1>6. acquisition_count[v] = 0 => job[t].src \in Names /\ name[job[t].src] = v
  <2>1. ASSUME NEW c \in ViewCells, memview[c] = v PROVE acquisition_count[v] > 0
    BY <1>3, <2>1, SliceCounts
  <2>2. ASSUME job[t].src \in Names, name[job[t].src] # NoView
        PROVE  name[job[t].src] \in ViewCells
    BY <2>2 DEF IInv, ViewTypeOK, ViewCells
  <2>3. acquisition_count[v] = 0 => ~(acquisition_count[v] > 0)
    BY <1>3, <1>4
  <2> QED BY <1>1, <1>2, <1>3, <2>1, <2>2, <2>3 DEF SourceOK, ViewCells
<1> HIDE DEF v, place
<1>7. /\ OnlyJob(t) /\ job'[t] \in JobType /\ job' \in [Threads -> JobType]
      /\ job'[t].at = place /\ job'[t].clearing = job[t].clearing
      /\ job'[t].object = job[t].object /\ job'[t].view = v /\ job'[t].dst = job[t].dst
      /\ job'[t].src = job[t].src /\ job'[t].moves = FALSE
  BY <1>1, <1>2, <1>3, <1>4, <1>5 DEF OnlyJob, JobType, v
<1>8. /\ acquisition_count'[v] = acquisition_count[v] + 1
      /\ \A w \in Views \ {v} : acquisition_count'[w] = acquisition_count[w]
      /\ acquisition_count' \in [Views -> Nat]
  BY <1>1, <1>3, <1>4
<1>9. ViewTypeOK'
  BY <1>1, <1>7, <1>8 DEF IInv, ViewTypeOK
<1>10. HandsOK(t)'
  <2>1. JobOK(t)'
    BY <1>1, <1>2, <1>3, <1>5, <1>7 DEF JobOK, v
  <2>2. CellsOK(t)'
    BY <1>1, <1>2, <1>7 DEF CellsOK
  <2>3. SourceOK(t)'
    BY <1>1, <1>2, <1>3, <1>5, <1>6, <1>7 DEF SourceOK, v
  <2> QED BY <2>1, <2>2, <2>3 DEF HandsOK
<1>11. \A u \in Threads \ {t} : HandsOK(u)'
  BY <1>1, <1>7, OtherLeft DEF IInv, CellsOK
<1>12. \A u \in Threads \ {t} : Apart(t, u)' /\ Apart(u, t)'
  BY <1>3, <1>7, StayApart
<1>13. ASSUME NEW w \in Views PROVE Counted(w)' /\ Referenced(w)'
  <2>1. /\ Counted(w) /\ Referenced(w) /\ ob_refcnt[w] \in Nat
        /\ acquisition_count[w] \in Nat /\ acquisition_count'[w] \in Nat
    BY <1>4, <1>8, CountsAre DEF IInv
  <2>2. /\ IncOf(job[t], w) = 0 /\ StoOf(job[t], w) = 0 /\ DropOf(job[t], w) = 0
        /\ IncOf(job'[t], w) = Is(w = v /\ acquisition_count[v] = 0)
        /\ StoOf(job'[t], w) = Is(w = v /\ acquisition_count[v] # 0)
        /\ DropOf(job'[t], w) = 0
    BY <1>1, <1>5, <1>7 DEF IncOf, StoOf, DropOf, Is
  <2>3. /\ Cardinality(Doing("incref", w)')
             = Cardinality(Doing("incref", w)) + Is(w = v /\ acquisition_count[v] = 0)
        /\ Cardinality(Storing(w)')
             = Cardinality(Storing(w)) + Is(w = v /\ acquisition_count[v] # 0)
        /\ Cardinality(Dropping(w)') = Cardinality(Dropping(w))
    BY <1>7, <2>2, JobMoves, CountsAreNat
  <2>4. SlicesOf(w)' = SlicesOf(w) /\ NamesOf(w)' = NamesOf(w)
    BY <1>1 DEF SlicesOf, NamesOf
  <2>5. /\ Cardinality(SlicesOf(w)) \in Nat /\ Cardinality(Doing("incref", w)) \in Nat
        /\ Cardinality(Storing(w)) \in Nat /\ Cardinality(Dropping(w)) \in Nat
        /\ Cardinality(NamesOf(w)) \in Nat
    BY Sizes
  <2>6. Counted(w)'
    <3>1. acquisition_count'[w] = acquisition_count[w]
             + Is(w = v /\ acquisition_count[v] = 0) + Is(w = v /\ acquisition_count[v] # 0)
      BY <1>4, <1>8 DEF Is
    <3>2. /\ Is(w = v /\ acquisition_count[v] = 0) \in Nat
          /\ Is(w = v /\ acquisition_count[v] # 0) \in Nat
      BY DEF Is
    <3> QED BY <2>1, <2>3, <2>4, <2>5, <3>1, <3>2 DEF Counted
  <2>7. Referenced(w)'
    <3>1. Is(acquisition_count'[w] > 0)
             = Is(acquisition_count[w] > 0) + Is(w = v /\ acquisition_count[v] = 0)
      BY <1>4, <1>8 DEF Is
    <3>2. /\ Is(acquisition_count[w] > 0) \in Nat
          /\ Is(w = v /\ acquisition_count[v] = 0) \in Nat
      BY DEF Is
    <3> DEFINE o == ob_refcnt[w]
    <3> DEFINE p == Cardinality(Dropping(w))
    <3> DEFINE e == Is(w = v /\ acquisition_count[v] = 0)
    <3> DEFINE d == Cardinality(Doing("incref", w))
    <3> DEFINE d1 == Cardinality(Doing("incref", w)')
    <3> DEFINE n == Cardinality(NamesOf(w))
    <3> DEFINE a == Is(acquisition_count[w] > 0)
    <3> DEFINE a1 == Is(acquisition_count'[w] > 0)
    <3>3. /\ o + d = n + a + p /\ d1 = d + e /\ a1 = a + e
          /\ o \in Nat /\ p \in Nat /\ e \in Nat
          /\ d \in Nat /\ n \in Nat /\ a \in Nat
      BY <2>1, <2>3, <2>5, <3>1, <3>2 DEF Referenced
    <3>4. o + d1 = n + a1 + p
      <4> HIDE DEF o, p, e, d, d1, n, a, a1
      <4> QED BY <3>3
    <3>5. /\ ob_refcnt'[w] = o /\ Cardinality(NamesOf(w)') = n
          /\ Cardinality(Dropping(w)') = p
      BY <1>1, <2>3, <2>4
    <3>6. ob_refcnt'[w] + d1 = Cardinality(NamesOf(w)') + a1 + Cardinality(Dropping(w)')
      <4> HIDE DEF o, p, e, d, d1, n, a, a1
      <4> QED BY <3>4, <3>5
    <3> QED BY <3>6 DEF Referenced
  <2> QED BY <2>6, <2>7
<1>14. job'[t].at = "incref" => job'[t].view \in Views
                                /\ acquisition_count[job'[t].view] = 0
  BY <1>3, <1>5, <1>7
<1> QED BY <1>7, <1>9, <1>10, <1>11, <1>12, <1>13, <1>14, StepOf

\* init_memviewslice: the reference of the first slice.
LEMMA IncrefStep ==
  ASSUME IInv, NEW t \in Threads, Incref(t)
  PROVE  IInv'
<1> DEFINE v == job[t].view
<1>1. /\ job[t].at = "incref" /\ UNCHANGED <<acquisition_count, memview, name>>
      /\ ob_refcnt' = [ob_refcnt EXCEPT ![v] = @ + 1]
      /\ job' = [job EXCEPT ![t].at = "store"]
  BY DEF Incref
<1>2. JobOK(t) /\ CellsOK(t) /\ SourceOK(t) /\ job[t] \in JobType
  BY DEF IInv, ViewTypeOK
<1>3. v \in Views /\ v # NoView /\ job[t].moves = FALSE /\ job[t].clearing = NoView
  BY <1>1, <1>2 DEF JobOK, SourceOK, JobType
<1>4. /\ ob_refcnt \in [Views -> Nat] /\ job \in [Threads -> JobType]
      /\ ob_refcnt[v] > 0
  BY <1>1, InUse DEF IInv, ViewTypeOK, ViewsInUseLive
<1> HIDE DEF v
<1>5. /\ OnlyJob(t) /\ job'[t] \in JobType /\ job' \in [Threads -> JobType]
      /\ job'[t].at = "store" /\ job'[t].clearing = NoView
      /\ job'[t].object = job[t].object /\ job'[t].view = v /\ job'[t].dst = job[t].dst
      /\ job'[t].src = job[t].src /\ job'[t].moves = FALSE
  BY <1>1, <1>2, <1>3, <1>4 DEF OnlyJob, JobType, v
<1>6. /\ ob_refcnt'[v] = ob_refcnt[v] + 1
      /\ \A w \in Views \ {v} : ob_refcnt'[w] = ob_refcnt[w]
      /\ ob_refcnt' \in [Views -> Nat]
  BY <1>1, <1>3, <1>4
<1>7. ViewTypeOK'
  BY <1>1, <1>5, <1>6 DEF IInv, ViewTypeOK
<1>8. HandsOK(t)'
  <2>1. JobOK(t)'
    BY <1>1, <1>2, <1>3, <1>5 DEF JobOK, v
  <2>2. CellsOK(t)'
    BY <1>1, <1>2, <1>5 DEF CellsOK
  <2>3. SourceOK(t)'
    BY <1>5 DEF SourceOK
  <2> QED BY <2>1, <2>2, <2>3 DEF HandsOK
<1>9. ASSUME NEW u \in Threads \ {t} PROVE HandsOK(u)'
  <2>1. CellsOK(u)
    BY DEF IInv
  <2>2. job[u].clearing \in Views => ob_refcnt'[job[u].clearing] = 0
    BY <1>4, <1>6, <2>1 DEF CellsOK
  <2>3. job[u].dst \in Views => \E m \in Names : name'[m] = job[u].dst
    BY <1>1, <2>1 DEF CellsOK
  <2> QED BY <1>1, <1>5, <2>2, <2>3, OtherLeft
<1>10. \A u \in Threads \ {t} : Apart(t, u)' /\ Apart(u, t)'
  BY <1>3, <1>5, StayApart
<1>11. ASSUME NEW w \in Views PROVE Counted(w)' /\ Referenced(w)'
  <2>1. Counted(w) /\ Referenced(w) /\ ob_refcnt[w] \in Nat
    BY <1>4, CountsAre DEF IInv
  <2>2. /\ IncOf(job[t], w) = Is(w = v) /\ StoOf(job[t], w) = 0 /\ DropOf(job[t], w) = 0
        /\ IncOf(job'[t], w) = 0 /\ StoOf(job'[t], w) = Is(w = v)
        /\ DropOf(job'[t], w) = 0
    BY <1>1, <1>5 DEF IncOf, StoOf, DropOf, Is, v
  <2>3. /\ Cardinality(Doing("incref", w)') + Is(w = v) = Cardinality(Doing("incref", w))
        /\ Cardinality(Storing(w)') = Cardinality(Storing(w)) + Is(w = v)
        /\ Cardinality(Dropping(w)') = Cardinality(Dropping(w))
    BY <1>5, <2>2, JobMoves, CountsAreNat
  <2>4. SlicesOf(w)' = SlicesOf(w) /\ NamesOf(w)' = NamesOf(w)
    BY <1>1 DEF SlicesOf, NamesOf
  <2>5. /\ Cardinality(SlicesOf(w)) \in Nat /\ Cardinality(Doing("incref", w)') \in Nat
        /\ Cardinality(Storing(w)) \in Nat /\ Cardinality(Dropping(w)) \in Nat
        /\ Cardinality(NamesOf(w)) \in Nat /\ Is(w = v) \in Nat
    BY <1>5, CountsAreNat DEF Is
  <2>6. Counted(w)'
    BY <1>1, <2>1, <2>3, <2>4, <2>5 DEF Counted
  <2>7. Referenced(w)'
    <3>1. ob_refcnt'[w] = ob_refcnt[w] + Is(w = v)
      BY <1>4, <1>6 DEF Is
    <3>2. Is(acquisition_count'[w] > 0) = Is(acquisition_count[w] > 0)
          /\ Is(acquisition_count[w] > 0) \in Nat
      BY <1>1 DEF Is
    <3> QED BY <2>1, <2>3, <2>4, <2>5, <3>1, <3>2 DEF Referenced
  <2> QED BY <2>6, <2>7
<1> QED BY <1>5, <1>7, <1>8, <1>9, <1>10, <1>11, StepOf
\* The variable that is filled, and the temporary that is emptied by a move.
LEMMA StoreCounts ==
  ASSUME NEW dst \in ViewCells, NEW src, NEW v \in Views, NEW moves \in BOOLEAN,
         memview[dst] = NoView, src # dst,
         moves => src \in ViewCells /\ memview[src] = v,
         memview' = [c \in ViewCells |->
                        IF c = dst THEN v
                        ELSE IF moves /\ c = src THEN NoView ELSE memview[c]],
         NEW w \in Views
  PROVE  Cardinality(SlicesOf(w)') + Is(moves /\ w = v)
           = Cardinality(SlicesOf(w)) + Is(w = v)
<1>1. IsFiniteSet(SlicesOf(w)) /\ Cardinality(SlicesOf(w)) \in Nat
  <2>1. SlicesOf(w) \in SUBSET ViewCells
    BY DEF SlicesOf
  <2> QED BY <2>1, CellsAreFinite, FS_Subset, FS_CardinalityType
<1>2. dst \notin SlicesOf(w) /\ w # NoView
  BY DEF SlicesOf
<1>3. CASE w # v
  <2>1. SlicesOf(w)' = SlicesOf(w)
    BY <1>3 DEF SlicesOf
  <2> QED BY <2>1, <1>3 DEF Is
<1>4. CASE w = v /\ ~moves
  <2>1. SlicesOf(w)' = SlicesOf(w) \cup {dst}
    BY <1>4 DEF SlicesOf
  <2>2. Cardinality(SlicesOf(w) \cup {dst}) = Cardinality(SlicesOf(w)) + 1
    BY <1>1, <1>2, FS_AddElement
  <2>3. Is(moves /\ w = v) = 0 /\ Is(w = v) = 1
    BY <1>4 DEF Is
  <2> QED BY <1>1, <2>1, <2>2, <2>3
<1>5. CASE w = v /\ moves
  <2>1. SlicesOf(w)' = (SlicesOf(w) \ {src}) \cup {dst} /\ src \in SlicesOf(w)
    BY <1>5 DEF SlicesOf
  <2>2. /\ IsFiniteSet(SlicesOf(w) \ {src})
        /\ Cardinality(SlicesOf(w) \ {src}) = Cardinality(SlicesOf(w)) - 1
    BY <1>1, <2>1, FS_RemoveElement
  <2>3. Cardinality((SlicesOf(w) \ {src}) \cup {dst})
           = Cardinality(SlicesOf(w) \ {src}) + 1
    BY <1>2, <2>2, FS_AddElement
  <2>4. Is(moves /\ w = v) = 1 /\ Is(w = v) = 1
    BY <1>5 DEF Is
  <2> QED BY <1>1, <2>1, <2>2, <2>3, <2>4
<1> QED BY <1>3, <1>4, <1>5

LEMMA StoreStep ==
  ASSUME IInv, NEW t \in Threads, StoreSlice(t)
  PROVE  IInv'
<1> DEFINE v == job[t].view
<1> DEFINE dst == job[t].dst
<1> DEFINE src == job[t].src
<1> DEFINE moves == job[t].moves
<1>1. /\ job[t].at = "store" /\ UNCHANGED <<ob_refcnt, acquisition_count, name>>
      /\ memview' = [c \in ViewCells |->
                        IF c = dst THEN v
                        ELSE IF moves /\ c = src THEN NoView ELSE memview[c]]
      /\ job' = [job EXCEPT ![t] = NoJob]
  BY DEF StoreSlice
<1>2. JobOK(t) /\ CellsOK(t) /\ SourceOK(t) /\ job[t] \in JobType
  BY DEF IInv, ViewTypeOK
<1>3. /\ v \in Views /\ v # NoView /\ dst \in ViewCells /\ dst # NoView /\ src # dst
      /\ moves \in BOOLEAN
      /\ memview[dst] = NoView
      /\ moves => src \in Slices /\ src \in ViewCells /\ src \notin Views
                  /\ memview[src] = v
  BY <1>1, <1>2 DEF JobOK, SourceOK, JobType, ViewCells
<1>4. /\ memview \in [ViewCells -> Views \cup {NoView}] /\ job \in [Threads -> JobType]
      /\ name \in [Names -> Views \cup {NoView}]
      /\ ob_refcnt \in [Views -> Nat] /\ acquisition_count \in [Views -> Nat]
  BY DEF IInv, ViewTypeOK
<1> HIDE DEF v, dst, src, moves
<1>5. /\ OnlyJob(t) /\ job'[t] = NoJob /\ job' \in [Threads -> JobType]
  BY <1>1, <1>4, NoJobIs DEF OnlyJob
<1>6. /\ memview' \in [ViewCells -> Views \cup {NoView}]
      /\ \A c \in ViewCells : c # dst /\ ~(moves /\ c = src) => memview'[c] = memview[c]
  BY <1>1, <1>3, <1>4
<1>7. ViewTypeOK'
  BY <1>1, <1>5, <1>6 DEF IInv, ViewTypeOK
<1>8. HandsOK(t)'
  BY <1>5, NoJobIs DEF HandsOK, JobOK, CellsOK, SourceOK
<1>9. ASSUME NEW u \in Threads \ {t} PROVE HandsOK(u)'
  <2>1. JobOK(u) /\ CellsOK(u) /\ Apart(t, u) /\ Apart(u, t)
    BY DEF IInv
  <2>2. /\ dst \notin {job[u].dst, job[u].clearing, job[u].src}
        /\ moves => src \notin {job[u].dst, job[u].clearing, job[u].src}
    BY <1>3, <2>1 DEF Apart, dst, src, moves
  <2>3. \A c \in ViewCells : c \in {job[u].dst, job[u].clearing, job[u].src}
            => memview'[c] = memview[c]
    BY <1>6, <2>2
  <2>4. job[u].clearing \in Views => ob_refcnt'[job[u].clearing] = 0
    BY <1>1, <2>1 DEF CellsOK
  <2>5. job[u].dst \in Views => \E m \in Names : name'[m] = job[u].dst
    BY <1>1, <2>1 DEF CellsOK
  <2>6. ASSUME job[u].src \in Names, name[job[u].src] # NoView, job[u].view # NoView,
               memview[name[job[u].src]] = job[u].view
        PROVE  memview'[name[job[u].src]] = memview[name[job[u].src]]
    <3>1. name[job[u].src] \in Views
      BY <1>4, <2>6
    <3> QED BY <1>3, <1>6, <2>6, <3>1 DEF ViewCells
  <2> QED BY <1>1, <1>5, <2>3, <2>4, <2>5, <2>6, OtherLeft
<1>10. \A u \in Threads \ {t} : Apart(t, u)' /\ Apart(u, t)'
  BY <1>5, NoJobIs, StayApart
<1>11. ASSUME NEW w \in Views PROVE Counted(w)' /\ Referenced(w)'
  <2>1. Counted(w) /\ Referenced(w) /\ acquisition_count[w] \in Nat
    BY <1>4, CountsAre DEF IInv
  <2>2. /\ IncOf(job[t], w) = 0 /\ StoOf(job[t], w) = Is(w = v /\ ~moves)
        /\ DropOf(job[t], w) = 0
        /\ IncOf(job'[t], w) = 0 /\ StoOf(job'[t], w) = 0
        /\ DropOf(job'[t], w) = 0
    BY <1>1, <1>5, NoJobIs DEF IncOf, StoOf, DropOf, Is, v, moves
  <2>3. /\ Cardinality(Doing("incref", w)') = Cardinality(Doing("incref", w))
        /\ Cardinality(Storing(w)') + Is(w = v /\ ~moves) = Cardinality(Storing(w))
        /\ Cardinality(Dropping(w)') = Cardinality(Dropping(w))
    BY <1>5, <2>2, JobMoves, CountsAreNat
  <2>4. Cardinality(SlicesOf(w)') + Is(moves /\ w = v)
           = Cardinality(SlicesOf(w)) + Is(w = v)
    BY <1>1, <1>3, StoreCounts
  <2>5. NamesOf(w)' = NamesOf(w)
    BY <1>1 DEF NamesOf
  <2>6. Counted(w)'
    <3>1. Is(moves /\ w = v) + Is(w = v /\ ~moves) = Is(w = v)
      BY <1>3 DEF Is
    <3>2. /\ Is(moves /\ w = v) \in Nat /\ Is(w = v /\ ~moves) \in Nat /\ Is(w = v) \in Nat
      BY DEF Is
    <3>3. /\ Cardinality(SlicesOf(w)) \in Nat /\ Cardinality(SlicesOf(w)') \in Nat
          /\ Cardinality(Storing(w)) \in Nat /\ Cardinality(Storing(w)') \in Nat
          /\ Cardinality(Doing("incref", w)) \in Nat
      <4>1. SlicesOf(w)' \in SUBSET ViewCells
        BY DEF SlicesOf
      <4>2. Cardinality(SlicesOf(w)') \in Nat
        BY <4>1, CellsAreFinite, FS_Subset, FS_CardinalityType
      <4> QED BY <1>5, <4>2, CountsAreNat
    <3>4. Cardinality(SlicesOf(w)') + Cardinality(Storing(w)')
             = Cardinality(SlicesOf(w)) + Cardinality(Storing(w))
      <4> DEFINE s == Cardinality(SlicesOf(w))
      <4> DEFINE s1 == Cardinality(SlicesOf(w)')
      <4> DEFINE r == Cardinality(Storing(w))
      <4> DEFINE r1 == Cardinality(Storing(w)')
      <4> DEFINE a == Is(moves /\ w = v)
      <4> DEFINE b == Is(w = v /\ ~moves)
      <4>1. /\ r1 + b = r /\ s1 + a = s + Is(w = v) /\ a + b = Is(w = v)
            /\ s \in Nat /\ s1 \in Nat /\ r \in Nat /\ r1 \in Nat /\ a \in Nat /\ b \in Nat
        BY <2>3, <2>4, <3>1, <3>2, <3>3
      <4>2. s1 + r1 = s + r
        <5> HIDE DEF s, s1, r, r1, a, b
        <5> QED BY <4>1
      <4> QED BY <4>2
    <3>5. acquisition_count'[w] = acquisition_count[w]
      BY <1>1
    <3>6. acquisition_count'[w] = Cardinality(SlicesOf(w)')
             + Cardinality(Doing("incref", w)') + Cardinality(Storing(w)')
      <4> DEFINE s == Cardinality(SlicesOf(w))
      <4> DEFINE s1 == Cardinality(SlicesOf(w)')
      <4> DEFINE r == Cardinality(Storing(w))
      <4> DEFINE r1 == Cardinality(Storing(w)')
      <4> DEFINE d == Cardinality(Doing("incref", w))
      <4> DEFINE q == acquisition_count[w]
      <4>1. /\ q = s + d + r /\ s1 + r1 = s + r
            /\ s \in Nat /\ s1 \in Nat /\ r \in Nat /\ r1 \in Nat /\ d \in Nat
        BY <2>1, <3>3, <3>4 DEF Counted
      <4>2. q = s1 + d + r1
        <5> HIDE DEF s, s1, r, r1, d, q
        <5> QED BY <4>1
      <4> QED BY <2>3, <3>5, <4>2
    <3> QED BY <3>6 DEF Counted
  <2>7. Referenced(w)'
    <3>1. /\ ob_refcnt'[w] = ob_refcnt[w]
          /\ Is(acquisition_count'[w] > 0) = Is(acquisition_count[w] > 0)
          /\ Cardinality(NamesOf(w)') = Cardinality(NamesOf(w))
      BY <1>1, <2>5
    <3> QED BY <2>1, <2>3, <3>1 DEF Referenced
  <2> QED BY <2>6, <2>7
<1>12. job'[t].at # "incref"
  BY <1>5, NoJobIs
<1> QED BY <1>5, <1>7, <1>8, <1>9, <1>10, <1>11, <1>12, StepOf
-----------------------------------------------------------------------------
LEMMA InitIsRight == ViewInit => IInv
<1> SUFFICES ASSUME ViewInit PROVE IInv
  OBVIOUS
<1>1. ViewTypeOK
  BY NoJobIs DEF ViewInit, ViewTypeOK
<1>2. ASSUME NEW t \in Threads PROVE job[t] = NoJob
  BY DEF ViewInit
<1>3. \A t \in Threads : JobOK(t) /\ CellsOK(t) /\ SourceOK(t)
  BY <1>2, NoJobIs DEF JobOK, CellsOK, SourceOK
<1>4. \A t, u \in Threads : t # u => Apart(t, u)
  BY <1>2, NoJobIs DEF Apart
<1>5. FirstIsAlone
  BY <1>2, NoJobIs DEF FirstIsAlone
<1>6. ASSUME NEW v \in Views PROVE Counted(v) /\ Referenced(v)
  <2>1. SlicesOf(v) = {} /\ NamesOf(v) = {} /\ v # NoView
    BY DEF ViewInit, SlicesOf, NamesOf
  <2>2. Doing("incref", v) = {} /\ Storing(v) = {} /\ Dropping(v) = {}
    BY <1>2, NoJobIs DEF Doing, Storing, Dropping
  <2>3. ob_refcnt[v] = 0 /\ acquisition_count[v] = 0
    BY DEF ViewInit
  <2> QED BY <2>1, <2>2, <2>3, FS_EmptySet DEF Counted, Referenced, Is
<1> QED BY <1>1, <1>3, <1>4, <1>5, <1>6, CountsAre DEF IInv

LEMMA NextIsRight == IInv /\ [ViewNext]_viewVars => IInv'
<1> SUFFICES ASSUME IInv, [ViewNext]_viewVars PROVE IInv'
  OBVIOUS
<1>1. ASSUME NEW t \in Threads,
             \/ NewView(t) \/ SliceOfObject(t) \/ SliceOfView(t) \/ AssignSlice(t)
             \/ AssignTemporary(t) \/ AssignSlicing(t) \/ ObjectOfSlice(t)
             \/ EndSlice(t) \/ EndName(t) \/ XClear(t) \/ Decref(t)
             \/ IncMemview(t) \/ Incref(t) \/ StoreSlice(t)
      PROVE  IInv'
  <2>1. CASE NewView(t)
    BY <2>1, NewViewStep
  <2>2. CASE SliceOfObject(t)
    BY <2>2, SliceOfObjectStep
  <2>3. CASE SliceOfView(t) \/ AssignSlice(t) \/ AssignTemporary(t) \/ AssignSlicing(t)
    BY <2>3, AssignSteps
  <2>4. CASE ObjectOfSlice(t)
    BY <2>4, ObjectOfSliceStep
  <2>5. CASE EndSlice(t)
    BY <2>5, EndSliceStep
  <2>6. CASE EndName(t)
    BY <2>6, EndNameStep
  <2>7. CASE XClear(t)
    BY <2>7, XClearStep
  <2>8. CASE Decref(t)
    BY <2>8, DecrefStep
  <2>9. CASE IncMemview(t)
    BY <2>9, IncStep
  <2>10. CASE Incref(t)
    BY <2>10, IncrefStep
  <2>11. CASE StoreSlice(t)
    BY <2>11, StoreStep
  <2> QED BY <1>1, <2>1, <2>2, <2>3, <2>4, <2>5, <2>6, <2>7, <2>8, <2>9, <2>10, <2>11
<1>2. CASE ViewNext
  BY <1>1, <1>2 DEF ViewNext
<1>3. CASE UNCHANGED viewVars
  <2>1. UNCHANGED <<ob_refcnt, acquisition_count, memview, name, job>>
    BY <1>3 DEF viewVars
  <2>2. ViewTypeOK' /\ FirstIsAlone'
    BY <2>1 DEF IInv, ViewTypeOK, FirstIsAlone
  <2>3. \A t \in Threads : (JobOK(t) /\ CellsOK(t) /\ SourceOK(t))'
    BY <2>1 DEF IInv, JobOK, CellsOK, SourceOK
  <2>4. \A t, u \in Threads : t # u => Apart(t, u)'
    BY <2>1 DEF IInv, Apart
  <2>5. CountIsSlices' /\ ViewReferencesMatch'
    BY <2>1 DEF IInv, CountIsSlices, ViewReferencesMatch, Doing
  <2> QED BY <2>2, <2>3, <2>4, <2>5 DEF IInv
<1> QED BY <1>2, <1>3

\* The variables keep their types: no count that __Pyx_XCLEAR_MEMVIEW or
\* Py_DECREF lowers becomes negative.
THEOREM TypeCorrect == ViewSpec => []ViewTypeOK
<1>1. IInv => ViewTypeOK
  BY DEF IInv
<1> QED BY InitIsRight, NextIsRight, <1>1, PTL DEF ViewSpec

\* acquisition_count is the number of slices of a memoryview object, those that
\* a thread is about to store included, however __Pyx_INC_MEMVIEW and
\* __Pyx_XCLEAR_MEMVIEW of several threads interleave.
THEOREM CountsSlices == ViewSpec => []CountIsSlices
<1>1. IInv => CountIsSlices
  BY DEF IInv
<1> QED BY InitIsRight, NextIsRight, <1>1, PTL DEF ViewSpec

\* All slices of an object hold one reference together: none is lost or leaked
\* when threads move the count from 0 to 1 and from 1 to 0 at the same time.
THEOREM ReferencesMatch == ViewSpec => []ViewReferencesMatch
<1>1. IInv => ViewReferencesMatch
  BY DEF IInv
<1> QED BY InitIsRight, NextIsRight, <1>1, PTL DEF ViewSpec

\* What a slice, a reference or a thread that acquires points to is not freed,
\* so a slice keeps its buffer where its thread does not hold the GIL.
THEOREM NothingFreedInUse == ViewSpec => []ViewsInUseLive
BY InitIsRight, NextIsRight, InUse, PTL DEF ViewSpec

HIDE ViewsAssumption

-----------------------------------------------------------------------------
(* The cache of code objects.                                              *)

USE WorkersAssumption, CacheAssumption

Shape ==
  /\ DOMAIN worker = Workers
  /\ \A w \in Workers : DOMAIN worker[w] = DOMAIN IdleWorker

\* The counter tells how many threads are inside and whether one of them writes,
\* and that is enough to keep the writer alone.
CounterInv == Shape /\ CounterIsAccessors /\ WriterIsAlone

Places(w) == worker[w].at

\* What a thread at a place adds to the counter.
Weight(at) ==
  IF at \in Reading \cup {"turning"} THEN 1 ELSE IF at \in Writing THEN INT_MIN ELSE 0

-----------------------------------------------------------------------------
LEMMA ThreadsInside ==
  /\ IsFiniteSet(InTable)
  /\ Cardinality(InTable) \in Nat
  /\ Cardinality(InTable) <= Cardinality(Workers)
  /\ Cardinality(Workers) \in Nat
<1>1. InTable \subseteq Workers
  BY DEF InTable
<1> QED BY <1>1, FS_Subset, FS_CardinalityType

\* The sign of the counter: not negative means that nobody writes, zero that
\* nobody is inside.
LEMMA SignOfCounter ==
  ASSUME CounterIsAccessors
  PROVE  /\ accessor_count \in Int
         /\ accessor_count >= 0 => Writers = {}
         /\ accessor_count = 0 => InTable = {}
<1>1. CASE Writers = {}
  <2>1. accessor_count = Cardinality(InTable)
    BY <1>1, ThreadsInside DEF CounterIsAccessors
  <2> QED BY <1>1, <2>1, ThreadsInside, FS_EmptySet
<1>2. CASE Writers # {}
  <2>1. accessor_count = Cardinality(InTable) + INT_MIN
    BY <1>2, ThreadsInside DEF CounterIsAccessors
  <2> QED BY <2>1, ThreadsInside
<1> QED BY <1>1, <1>2

\* A step of thread w: no other thread moves, the counter follows, and w begins
\* to read only if nobody writes, to write only if nobody is inside.
OthersStay(w) == \A v \in Workers \ {w} : worker'[v] = worker[v]
CounterFollows(w) ==
  accessor_count' = accessor_count + Weight(Places(w)') - Weight(Places(w))
MayEnter(w) ==
  /\ Places(w)' \in Reading => Places(w) \in Reading \/ Writers = {}
  /\ Places(w)' \in Writing => Places(w) \in Writing \/ (Writers = {} /\ InTable = {})

\* Such a step keeps the invariant.
LEMMA ThreadMoves ==
  ASSUME CounterInv, NEW w \in Workers, Shape', OthersStay(w), CounterFollows(w), MayEnter(w)
  PROVE  CounterInv'
<1> USE DEF OthersStay, CounterFollows, MayEnter
<1> DEFINE In(at) == at \in Reading \cup {"turning"}
<1>0. Reading \cap Writing = {} /\ "turning" \notin Writing /\ "turning" \notin Reading
  BY DEF Reading, Writing
<1>1. CASE Places(w) \in Writing
  <2>1. Writers = {w} /\ w \notin InTable
    BY <1>1, <1>0 DEF CounterInv, WriterIsAlone, Writers, Places, InTable
  <2>2. Weight(Places(w)) = INT_MIN
    BY <1>1, <1>0 DEF Weight
  <2>3. accessor_count = Cardinality(InTable) + INT_MIN
    BY <2>1, ThreadsInside DEF CounterInv, CounterIsAccessors
  <2>4. CASE Places(w)' \in Writing
    <3>1. Writers' = {w} /\ InTable' = InTable
      BY <1>0, <2>1, <2>4 DEF Writers, InTable, Places
    <3>2. accessor_count' = accessor_count
      BY <2>2, <2>3, <2>4, <1>0, ThreadsInside DEF Weight
    <3>3. WriterIsAlone'
      BY <3>1, <2>1, <1>1 DEF WriterIsAlone, CounterInv, Places, Writers
    <3> QED BY <3>1, <3>2, <3>3, <2>3, ThreadsInside DEF CounterInv, CounterIsAccessors
  <2>5. CASE Places(w)' \notin Writing
    <3>1. Writers' = {}
      BY <2>1, <2>5 DEF Writers, Places
    <3>2. Places(w)' \notin Reading
      BY <2>1, <1>1, <1>0
    <3>3. WriterIsAlone'
      BY <3>1 DEF WriterIsAlone
    <3>4. CASE Places(w)' = "turning"
      <4>1. InTable' = InTable \cup {w}
        BY <3>4, <2>1 DEF InTable, Places
      <4>2. Cardinality(InTable') = Cardinality(InTable) + 1
        BY <4>1, <2>1, ThreadsInside, FS_AddElement
      <4>3. accessor_count' = Cardinality(InTable) + 1
        BY <3>4, <2>2, <2>3, ThreadsInside DEF Weight
      <4> QED BY <4>2, <4>3, <3>1, <3>3, ThreadsInside DEF CounterInv, CounterIsAccessors
    <3>5. CASE Places(w)' # "turning"
      <4>1. InTable' = InTable
        BY <3>5, <3>2, <2>1 DEF InTable, Places
      <4>2. accessor_count' = Cardinality(InTable)
        BY <3>5, <3>2, <2>5, <2>2, <2>3, ThreadsInside DEF Weight
      <4> QED BY <4>1, <4>2, <3>1, <3>3, ThreadsInside DEF CounterInv, CounterIsAccessors
    <3> QED BY <3>4, <3>5
  <2> QED BY <2>4, <2>5
<1>2. CASE Places(w) \notin Writing
  <2>0. w \notin Writers
    BY <1>2 DEF Writers, Places
  <2>1. CASE Places(w)' \in Writing
    <3>1. Writers = {} /\ InTable = {}
      BY <1>2, <2>1
    <3>2. Writers' = {w} /\ InTable' = {}
      BY <3>1, <2>1, <1>0 DEF Writers, InTable, Places
    <3>3. Weight(Places(w)) = 0 /\ Weight(Places(w)') = INT_MIN
      BY <3>1, <1>2, <2>1, <1>0 DEF Weight, InTable, Places
    <3>4. accessor_count = 0
      BY <3>1, FS_EmptySet DEF CounterInv, CounterIsAccessors
    <3>5. WriterIsAlone'
      BY <3>1, <3>2 DEF WriterIsAlone, Writers, InTable, Places
    <3> QED BY <3>2, <3>3, <3>4, <3>5, FS_EmptySet DEF CounterInv, CounterIsAccessors
  <2>2. CASE Places(w)' \notin Writing
    <3>1. Writers' = Writers
      BY <1>2, <2>2 DEF Writers, Places
    <3>2. WriterIsAlone'
      <4> SUFFICES ASSUME NEW u \in Writers, NEW v \in Workers, v # u
                   PROVE  worker'[v].at \notin Reading \cup Writing
        BY <3>1 DEF WriterIsAlone
      <4>1. u \in Workers /\ u # w /\ Writers # {}
        BY <2>0 DEF Writers
      <4>2. worker[v].at \notin Reading \cup Writing
        BY DEF CounterInv, WriterIsAlone
      <4>3. CASE v = w
        BY <4>3, <4>1, <4>2, <2>2 DEF Places
      <4>4. CASE v # w
        BY <4>4, <4>2
      <4> QED BY <4>3, <4>4
    <3>3. accessor_count = Cardinality(InTable) + (IF Writers = {} THEN 0 ELSE INT_MIN)
      BY DEF CounterInv, CounterIsAccessors
    <3>4. CASE In(Places(w)) /\ ~In(Places(w)')
      <4>1. w \in InTable /\ InTable' = InTable \ {w}
        BY <3>4 DEF InTable, Places
      <4>2. Cardinality(InTable \ {w}) = Cardinality(InTable) - 1
        BY <4>1, ThreadsInside, FS_RemoveElement
      <4>3. accessor_count' = accessor_count - 1
        BY <3>4, <2>2, <3>3, ThreadsInside DEF Weight
      <4> QED BY <4>1, <4>2, <4>3, <3>1, <3>2, <3>3, ThreadsInside DEF CounterInv, CounterIsAccessors
    <3>5. CASE ~In(Places(w)) /\ In(Places(w)')
      <4>1. w \notin InTable /\ InTable' = InTable \cup {w}
        BY <3>5 DEF InTable, Places
      <4>2. Cardinality(InTable \cup {w}) = Cardinality(InTable) + 1
        BY <4>1, ThreadsInside, FS_AddElement
      <4>3. accessor_count' = accessor_count + 1
        BY <3>5, <1>2, <3>3, ThreadsInside DEF Weight
      <4> QED BY <4>1, <4>2, <4>3, <3>1, <3>2, <3>3, ThreadsInside DEF CounterInv, CounterIsAccessors
    <3>6. CASE In(Places(w)) <=> In(Places(w)')
      <4>1. InTable' = InTable
        BY <3>6 DEF InTable, Places
      <4>2. accessor_count' = accessor_count
        BY <3>6, <1>2, <2>2, <3>3, ThreadsInside DEF Weight
      <4> QED BY <4>1, <4>2, <3>1, <3>2, <3>3, ThreadsInside DEF CounterInv, CounterIsAccessors
    <3> QED BY <3>4, <3>5, <3>6
  <2> QED BY <2>1, <2>2
<1> QED BY <1>1, <1>2

-----------------------------------------------------------------------------
LEMMA CounterInit == CodeInit => CounterInv
<1> SUFFICES ASSUME CodeInit PROVE CounterInv
  OBVIOUS
<1>1. Shape
  BY DEF CodeInit, Shape, IdleWorker
<1>2. InTable = {} /\ Writers = {}
  BY DEF CodeInit, IdleWorker, InTable, Writers, Reading, Writing
<1> QED BY <1>1, <1>2, FS_EmptySet DEF CodeInit, CounterInv, CounterIsAccessors, WriterIsAlone

\* A worker that goes somewhere keeps its shape, and no other one moves.
LEMMA GoesKeepsShape ==
  ASSUME Shape, NEW w \in Workers, NEW place, Goes(w, place)
  PROVE  /\ Shape'
         /\ Places(w)' = place
         /\ OthersStay(w)
BY DEF OthersStay, Shape, Goes, IdleWorker, Places

LEMMA CounterStep ==
  ASSUME CounterInv, NEW w \in Workers, WorkerStep(w)
  PROVE  CounterInv'
<1>0. accessor_count \in Int /\ INT_MIN \in Int
  BY SignOfCounter DEF CounterInv
<1>s. Shape /\ worker[w].at = Places(w)
  BY DEF Places, CounterInv
<1>1. CASE AddTraceback(w)
  <2>1. Shape' /\ OthersStay(w) /\ Places(w)' = "entering" /\ Places(w) = "idle"
    BY <1>1, <1>s DEF OthersStay, AddTraceback, Shape, IdleWorker, Places
  <2>2. accessor_count' = accessor_count
    BY <1>1 DEF AddTraceback
  <2>3. CounterFollows(w)
    BY <2>1, <2>2, <1>0 DEF CounterFollows, Weight, Reading, Writing
  <2>4. MayEnter(w)
    BY <2>1, <2>2 DEF MayEnter, Reading, Writing
  <2> QED BY <2>1, <2>2, <2>3, <2>4, ThreadMoves
<1>2. CASE CountIn(w)
  <2>1. Places(w) = "entering" /\ accessor_count' = accessor_count + 1
    BY <1>2, <1>s DEF CountIn
  <2>2. CASE accessor_count < 0
    <3>1. Goes(w, "turning")
      BY <1>2, <2>2 DEF CountIn
    <3>2. Shape' /\ OthersStay(w) /\ Places(w)' = "turning"
      BY <3>1, GoesKeepsShape, <1>s
    <3>7. CounterFollows(w)
      BY <2>1, <3>2, <1>0 DEF CounterFollows, Weight, Reading, Writing
    <3>8. MayEnter(w)
      BY <2>1, <3>2 DEF MayEnter, Reading, Writing
    <3> QED BY <2>1, <3>2, <3>7, <3>8, ThreadMoves
  <2>3. CASE accessor_count >= 0
    <3>1. Goes(w, "locating")
      BY <1>2, <2>3, <1>0 DEF CountIn
    <3>2. Shape' /\ OthersStay(w) /\ Places(w)' = "locating"
      BY <3>1, GoesKeepsShape, <1>s
    <3>3. Writers = {}
      BY <2>3, SignOfCounter DEF CounterInv
    <3>7. CounterFollows(w)
      BY <2>1, <3>2, <3>3, <1>0 DEF CounterFollows, Weight, Reading, Writing
    <3>8. MayEnter(w)
      BY <2>1, <3>2, <3>3 DEF MayEnter, Reading, Writing
    <3> QED BY <2>1, <3>2, <3>3, <3>7, <3>8, ThreadMoves
  <2> QED BY <2>2, <2>3, <1>0
<1>3. CASE TurnBack(w)
  <2>1. Places(w) = "turning" /\ accessor_count' = accessor_count - 1 /\ Goes(w, "missed")
    BY <1>3, <1>s DEF TurnBack
  <2>2. Shape' /\ OthersStay(w) /\ Places(w)' = "missed"
    BY <2>1, GoesKeepsShape, <1>s
  <2>7. CounterFollows(w)
    BY <2>1, <2>2, <1>0 DEF CounterFollows, Weight, Reading, Writing
  <2>8. MayEnter(w)
    BY <2>1, <2>2 DEF MayEnter, Reading, Writing
  <2> QED BY <2>1, <2>2, <2>7, <2>8, ThreadMoves
<1>4. CASE Locate(w)
  <2>1. Places(w) = "locating" /\ accessor_count' = accessor_count
    BY <1>4, <1>s DEF Locate
  <2>2. Shape' /\ OthersStay(w) /\ Places(w)' \in {"found", "leaving"}
    BY <1>4, <1>s DEF OthersStay, Locate, Goes, Shape, IdleWorker, Places
  <2>7. CounterFollows(w)
    BY <2>1, <2>2, <1>0 DEF CounterFollows, Weight, Reading, Writing
  <2>8. MayEnter(w)
    BY <2>1, <2>2 DEF MayEnter, Reading, Writing
  <2> QED BY <2>1, <2>2, <2>7, <2>8, ThreadMoves
<1>5. CASE TakeReference(w)
  <2>1. Places(w) = "found" /\ accessor_count' = accessor_count /\ Goes(w, "leaving")
    BY <1>5, <1>s DEF TakeReference
  <2>2. Shape' /\ OthersStay(w) /\ Places(w)' = "leaving"
    BY <2>1, GoesKeepsShape, <1>s
  <2>7. CounterFollows(w)
    BY <2>1, <2>2, <1>0 DEF CounterFollows, Weight, Reading, Writing
  <2>8. MayEnter(w)
    BY <2>1, <2>2 DEF MayEnter, Reading, Writing
  <2> QED BY <2>1, <2>2, <2>7, <2>8, ThreadMoves
<1>6. CASE CountOut(w)
  <2>1. Places(w) = "leaving" /\ accessor_count' = accessor_count - 1
    BY <1>6, <1>s DEF CountOut
  <2>2. Shape' /\ OthersStay(w) /\ Places(w)' \in {"missed", "using"}
    BY <1>6, <1>s DEF OthersStay, CountOut, Goes, Shape, IdleWorker, Places
  <2>3. CounterFollows(w)
    BY <2>1, <2>2, <1>0 DEF CounterFollows, Weight, Reading, Writing
  <2>4. MayEnter(w)
    BY <2>1, <2>2 DEF MayEnter, Reading, Writing
  <2> QED BY <2>1, <2>2, <2>3, <2>4, ThreadMoves
<1>7. CASE MakeCodeObject(w)
  <2>1. Places(w) = "missed" /\ accessor_count' = accessor_count
    BY <1>7, <1>s DEF MakeCodeObject
  <2>2. Shape' /\ OthersStay(w) /\ Places(w)' \in {"made", "idle"}
    BY <1>7, <1>s DEF OthersStay, MakeCodeObject, Shape, IdleWorker, Places
  <2>7. CounterFollows(w)
    BY <2>1, <2>2, <1>0 DEF CounterFollows, Weight, Reading, Writing
  <2>8. MayEnter(w)
    BY <2>1, <2>2 DEF MayEnter, Reading, Writing
  <2> QED BY <2>1, <2>2, <2>7, <2>8, ThreadMoves
<1>8. CASE ClaimTable(w)
  <2>1. Places(w) = "made"
    BY <1>8, <1>s DEF ClaimTable
  <2>2. CASE accessor_count = 0
    <3>1. accessor_count' = INT_MIN /\ Goes(w, "writing")
      BY <1>8, <2>2 DEF ClaimTable
    <3>2. Shape' /\ OthersStay(w) /\ Places(w)' = "writing"
      BY <3>1, GoesKeepsShape, <1>s
    <3>3. Writers = {} /\ InTable = {}
      BY <2>2, SignOfCounter DEF CounterInv
    <3>7. CounterFollows(w)
      BY <2>1, <2>2, <3>1, <3>2, <3>3, <1>0 DEF CounterFollows, Weight, Reading, Writing
    <3>8. MayEnter(w)
      BY <2>1, <2>2, <3>1, <3>2, <3>3 DEF MayEnter, Reading, Writing
    <3> QED BY <2>1, <2>2, <3>1, <3>2, <3>3, <3>7, <3>8, ThreadMoves
  <2>3. CASE accessor_count # 0
    <3>1. accessor_count' = accessor_count /\ Goes(w, "using")
      BY <1>8, <2>3 DEF ClaimTable
    <3>2. Shape' /\ OthersStay(w) /\ Places(w)' = "using"
      BY <3>1, GoesKeepsShape, <1>s
    <3>7. CounterFollows(w)
      BY <2>1, <3>1, <3>2, <1>0 DEF CounterFollows, Weight, Reading, Writing
    <3>8. MayEnter(w)
      BY <2>1, <3>1, <3>2 DEF MayEnter, Reading, Writing
    <3> QED BY <2>1, <3>1, <3>2, <3>7, <3>8, ThreadMoves
  <2> QED BY <2>2, <2>3
<1>9. CASE \/ CannotStore(w) \/ FirstEntry(w) \/ ReplaceEntry(w) \/ MakeRoom(w)
           \/ FillEntry(w) \/ OwnEntry(w) \/ DropReplaced(w)
  <2>1. accessor_count' = accessor_count
    BY <1>9 DEF CannotStore, FirstEntry, ReplaceEntry, MakeRoom, FillEntry, OwnEntry,
                DropReplaced
  <2>2. Places(w) \in Writing
    BY <1>9, <1>s DEF CannotStore, FirstEntry, ReplaceEntry, MakeRoom, FillEntry, OwnEntry,
                DropReplaced, Writing
  <2>3. Shape' /\ OthersStay(w) /\ Places(w)' \in Writing
    <3>1. CASE CannotStore(w) \/ FirstEntry(w) \/ OwnEntry(w)
      BY <3>1, <1>s DEF OthersStay, CannotStore, FirstEntry, OwnEntry, Goes, Shape, IdleWorker, Places, Writing
    <3>2. CASE ReplaceEntry(w)
      BY <3>2, <1>s DEF OthersStay, ReplaceEntry, Shape, IdleWorker, Places, Writing
    <3>3. CASE MakeRoom(w)
      BY <3>3, <1>s DEF OthersStay, MakeRoom, Shape, IdleWorker, Places, Writing
    <3>4. CASE FillEntry(w) \/ DropReplaced(w)
      BY <3>4, <1>s DEF OthersStay, FillEntry, DropReplaced, Shape, IdleWorker, Places, Writing
    <3> QED BY <1>9, <3>1, <3>2, <3>3, <3>4
  <2>7. CounterFollows(w)
    BY <2>1, <2>2, <2>3, <1>0 DEF CounterFollows, Weight, Reading, Writing
  <2>8. MayEnter(w)
    BY <2>1, <2>2, <2>3 DEF MayEnter, Reading, Writing
  <2> QED BY <2>1, <2>2, <2>3, <2>7, <2>8, ThreadMoves
<1>10. CASE ReleaseTable(w)
  <2>1. Places(w) = "releasing" /\ accessor_count' = accessor_count - INT_MIN /\ Goes(w, "using")
    BY <1>10, <1>s DEF ReleaseTable
  <2>2. Shape' /\ OthersStay(w) /\ Places(w)' = "using"
    BY <2>1, GoesKeepsShape, <1>s
  <2>7. CounterFollows(w)
    BY <2>1, <2>2, <1>0 DEF CounterFollows, Weight, Reading, Writing
  <2>8. MayEnter(w)
    BY <2>1, <2>2 DEF MayEnter, Reading, Writing
  <2> QED BY <2>1, <2>2, <2>7, <2>8, ThreadMoves
<1>11. CASE EndTraceback(w)
  <2>1. Places(w) = "using" /\ accessor_count' = accessor_count
    BY <1>11, <1>s DEF EndTraceback
  <2>2. Shape' /\ OthersStay(w) /\ Places(w)' = "idle"
    BY <1>11, <1>s DEF OthersStay, EndTraceback, Shape, IdleWorker, Places
  <2>3. CounterFollows(w)
    BY <2>1, <2>2, <1>0 DEF CounterFollows, Weight, Reading, Writing
  <2>4. MayEnter(w)
    BY <2>1, <2>2 DEF MayEnter, Reading, Writing
  <2> QED BY <2>1, <2>2, <2>3, <2>4, ThreadMoves
<1> QED
  BY <1>1, <1>2, <1>3, <1>4, <1>5, <1>6, <1>7, <1>8, <1>9, <1>10, <1>11 DEF WorkerStep

LEMMA SameThreads ==
  ASSUME CounterInv, UNCHANGED <<accessor_count, worker>>
  PROVE  CounterInv'
BY DEF CounterInv, Shape, CounterIsAccessors, WriterIsAlone, InTable, Writers

LEMMA CounterNext == CounterInv /\ [CodeNext]_codeVars => CounterInv'
<1> SUFFICES ASSUME CounterInv, [CodeNext]_codeVars PROVE CounterInv'
  OBVIOUS
<1>1. CASE CleanUpCache
  BY <1>1, SameThreads DEF CleanUpCache
<1>2. CASE \E w \in Workers : WorkerStep(w)
  BY <1>2, CounterStep
<1>3. CASE UNCHANGED codeVars
  BY <1>3, SameThreads DEF codeVars
<1> QED BY <1>1, <1>2, <1>3 DEF CodeNext

LEMMA CounterInductive == CodeSpec => []CounterInv
<1> QED BY CounterInit, CounterNext, PTL DEF CodeSpec

-----------------------------------------------------------------------------
\* The bisection: __pyx_bisect_code_objects in a table in order.

Below == OpToRel(<, Nat)

LEMMA LeastNumber ==
  ASSUME NEW S \in SUBSET Nat, S # {}
  PROVE  \E n \in S : \A m \in S : n <= m
<1>1. IsWellFoundedOn(Below, Nat)
  BY NatLessThanWellFounded DEF OpToRel, Below
<1>2. PICK n \in S : \A m \in S : ~ (<<m, n>> \in Below)
  BY <1>1, WFMin
<1>3. \A m \in S : ~ (m < n)
  <2> TAKE m \in S
  <2>1. <<m, n>> \in Nat \X Nat /\ <<m, n>>[1] = m /\ <<m, n>>[2] = n
    BY DEF OpToRel
  <2> QED BY <1>2, <2>1 DEF Below, OpToRel
<1> QED BY <1>3

\* The middle of a span.
Mid(s) == s.start + (s.end - s.start) \div 2
Lower(s) == [start |-> s.start, end |-> Mid(s), mid |-> Mid(s)]
Upper(s) == [start |-> Mid(s) + 1, end |-> s.end, mid |-> Mid(s)]

\* What one turn of the loop makes of a span, when f is what the rest makes.
Turn(f, table, line, s) ==
  IF s.start >= s.end
  THEN IF line <= LineAt(table, s.mid) THEN s.mid ELSE s.mid + 1
  ELSE IF line < LineAt(table, Mid(s)) THEN f[Lower(s)]
  ELSE IF line > LineAt(table, Mid(s)) THEN f[Upper(s)]
  ELSE Mid(s)

LEMMA Halves ==
  ASSUME NEW n \in Nat, NEW s \in Spans(n), s.start < s.end
  PROVE  /\ Mid(s) \in 0 .. n /\ s.start <= Mid(s) /\ Mid(s) < s.end
         /\ Lower(s) \in Spans(n) /\ Lower(s).end - Lower(s).start < s.end - s.start
         /\ Upper(s) \in Spans(n) /\ Upper(s).end - Upper(s).start < s.end - s.start
         /\ Lower(s).start = s.start /\ Lower(s).end = Mid(s) /\ Lower(s).mid = Mid(s)
         /\ Upper(s).start = Mid(s) + 1 /\ Upper(s).end = s.end /\ Upper(s).mid = Mid(s)
<1>1. s.start \in 0 .. n /\ s.end \in 0 .. n
  BY DEF Spans
<1>2. Mid(s) \in 0 .. n /\ s.start <= Mid(s) /\ Mid(s) < s.end
  BY <1>1 DEF Mid
<1> QED BY <1>1, <1>2 DEF Spans, Lower, Upper

\* The loop is defined for every span.
Upto(n, m) == {s \in Spans(n) : s.end - s.start <= m}
Loops(table, n, line, m) == \E f : f = [s \in Upto(n, m) |-> Turn(f, table, line, s)]

LEMMA LoopGrows ==
  ASSUME NEW table, NEW n \in Nat, NEW line, NEW m \in Nat, Loops(table, n, line, m)
  PROVE  Loops(table, n, line, m + 1)
<1>1. PICK f : f = [s \in Upto(n, m) |-> Turn(f, table, line, s)]
  BY DEF Loops
<1> DEFINE g == [s \in Upto(n, m + 1) |-> Turn(f, table, line, s)]
           h == [s \in Upto(n, m + 1) |-> Turn(g, table, line, s)]
<1>2. \A s \in Upto(n, m) : s \in Upto(n, m + 1) /\ f[s] = Turn(f, table, line, s)
  <2>1. \A s \in Upto(n, m) : f[s] = Turn(f, table, line, s)
    BY <1>1
  <2>2. \A s \in Upto(n, m) : s \in Upto(n, m + 1)
    BY DEF Upto, Spans
  <2> QED BY <2>1, <2>2
<1>3. \A s \in Upto(n, m) : g[s] = f[s]
  BY <1>2
<1>4. \A s \in Upto(n, m + 1) : Turn(g, table, line, s) = Turn(f, table, line, s)
  <2> HIDE DEF g
  <2> SUFFICES ASSUME NEW s \in Upto(n, m + 1)
               PROVE  Turn(g, table, line, s) = Turn(f, table, line, s)
    OBVIOUS
  <2>0. s \in Spans(n) /\ s.start \in Nat /\ s.end \in Nat
    BY DEF Upto, Spans
  <2>1. CASE s.start >= s.end
    BY <2>1 DEF Turn
  <2>2. CASE s.start < s.end
    <3>1. Lower(s) \in Upto(n, m)
      BY <2>0, <2>2, Halves DEF Upto, Lower, Mid
    <3>2. Upper(s) \in Upto(n, m)
      BY <2>0, <2>2, Halves DEF Upto, Upper, Mid
    <3> QED BY <1>3, <3>1, <3>2 DEF Turn
  <2> QED BY <2>0, <2>1, <2>2
<1>5. g = h
  BY <1>4
<1> HIDE DEF g
<1> QED BY <1>5 DEF Loops

LEMMA LoopDefined ==
  ASSUME NEW table, NEW n \in Nat, NEW line
  PROVE  \E f : f = [s \in Spans(n) |-> Turn(f, table, line, s)]
<1> DEFINE Bad == {m \in Nat : ~ Loops(table, n, line, m)}
<1>1. Loops(table, n, line, 0)
  <2> DEFINE f == [s \in Upto(n, 0) |-> Turn(<<>>, table, line, s)]
             h == [s \in Upto(n, 0) |-> Turn(f, table, line, s)]
  <2>1. \A s \in Upto(n, 0) : s.start >= s.end
    BY DEF Upto, Spans
  <2>2. \A s \in Upto(n, 0) : Turn(<<>>, table, line, s) = Turn(f, table, line, s)
    BY <2>1 DEF Turn
  <2>3. f = h
    BY <2>2
  <2> HIDE DEF f
  <2> QED BY <2>3 DEF Loops
<1>2. Bad = {}
  <2> SUFFICES ASSUME Bad # {} PROVE FALSE
    OBVIOUS
  <2>1. PICK m \in Bad : \A o \in Bad : m <= o
    BY LeastNumber
  <2>2. m # 0 /\ m - 1 \in Nat
    BY <2>1, <1>1
  <2>3. Loops(table, n, line, m - 1)
    BY <2>1, <2>2
  <2>4. Loops(table, n, line, (m - 1) + 1)
    BY <2>2, <2>3, LoopGrows
  <2> QED BY <2>1, <2>2, <2>4
<1>3. Loops(table, n, line, n)
  BY <1>2
<1>4. Upto(n, n) = Spans(n)
  <2>1. \A s \in Spans(n) : s.end - s.start <= n
    BY DEF Spans
  <2> QED BY <2>1 DEF Upto
<1> QED BY <1>3, <1>4 DEF Loops

\* The first n entries ascend.
Ascending(table, n) ==
  /\ \A k \in 0 .. n - 1 : LineAt(table, k) \in Int
  /\ \A k, l \in 0 .. n - 1 : k < l => LineAt(table, k) < LineAt(table, l)

\* p is where the line is, or where it belongs.
Splits(table, n, line, p) ==
  /\ p \in 0 .. n
  /\ \A k \in 0 .. n - 1 :
        /\ k < p => LineAt(table, k) < line
        /\ p <= k => line <= LineAt(table, k)

\* The line belongs within the span s, and when that is one place "mid" is that
\* place or the one before.
Encloses(table, n, line, s) ==
  /\ s \in Spans(n) /\ s.start <= s.end /\ s.end < n
  /\ \A k \in 0 .. n - 1 :
        /\ k < s.start => LineAt(table, k) < line
        /\ s.end <= k => line <= LineAt(table, k)
  /\ s.start = s.end => s.mid = s.start \/ s.mid = s.start - 1

LEMMA TurnKeeps ==
  ASSUME NEW table, NEW n \in Nat, NEW line \in Int, Ascending(table, n),
         NEW s, Encloses(table, n, line, s), s.start < s.end
  PROVE  /\ Mid(s) \in 0 .. n - 1
         /\ line < LineAt(table, Mid(s)) => Encloses(table, n, line, Lower(s))
         /\ line > LineAt(table, Mid(s)) => Encloses(table, n, line, Upper(s))
         /\ line = LineAt(table, Mid(s)) => Splits(table, n, line, Mid(s))
<1>0. s \in Spans(n) /\ s.start \in Nat /\ s.end \in Nat
  BY DEF Encloses, Spans
<1>1. PICK m \in Nat : m = Mid(s)
  BY <1>0, Halves
<1>2. m \in 0 .. n - 1 /\ s.start <= m /\ m < s.end
  BY <1>0, <1>1, Halves DEF Encloses
<1>3. ASSUME line < LineAt(table, m) PROVE Encloses(table, n, line, Lower(s))
  <2>1. \A k \in 0 .. n - 1 : m <= k => line <= LineAt(table, k)
    <3> SUFFICES ASSUME NEW k \in 0 .. n - 1, m <= k PROVE line <= LineAt(table, k)
      OBVIOUS
    <3>1. CASE k = m
      BY <3>1, <1>2, <1>3 DEF Ascending
    <3>2. CASE m < k
      BY <3>2, <1>2, <1>3 DEF Ascending
    <3> QED BY <3>1, <3>2, <1>2
  <2>2. /\ Lower(s) \in Spans(n) /\ Lower(s).start = s.start
        /\ Lower(s).end = m /\ Lower(s).mid = m
    BY <1>0, <1>1, Halves
  <2> QED BY <2>1, <2>2, <1>0, <1>2 DEF Encloses
<1>4. ASSUME line > LineAt(table, m) PROVE Encloses(table, n, line, Upper(s))
  <2>1. \A k \in 0 .. n - 1 : k < m + 1 => LineAt(table, k) < line
    <3> SUFFICES ASSUME NEW k \in 0 .. n - 1, k < m + 1 PROVE LineAt(table, k) < line
      OBVIOUS
    <3>1. CASE k = m
      BY <3>1, <1>2, <1>4 DEF Ascending
    <3>2. CASE k < m
      BY <3>2, <1>2, <1>4 DEF Ascending
    <3> QED BY <3>1, <3>2, <1>2
  <2>2. /\ Upper(s) \in Spans(n) /\ Upper(s).start = m + 1
        /\ Upper(s).end = s.end /\ Upper(s).mid = m
    BY <1>0, <1>1, Halves
  <2> QED BY <2>1, <2>2, <1>0, <1>2 DEF Encloses
<1>5. ASSUME line = LineAt(table, m) PROVE Splits(table, n, line, m)
  <2> SUFFICES ASSUME NEW k \in 0 .. n - 1
               PROVE  /\ k < m => LineAt(table, k) < line
                      /\ m <= k => line <= LineAt(table, k)
    BY <1>2 DEF Splits
  <2>1. k < m \/ k = m \/ m < k
    BY <1>2
  <2> QED BY <2>1, <1>2, <1>5 DEF Ascending
<1> QED BY <1>1, <1>2, <1>3, <1>4, <1>5

LEMMA LoopFinds ==
  ASSUME NEW table, NEW n \in Nat, NEW line \in Int, Ascending(table, n),
         NEW f, f = [s \in Spans(n) |-> Turn(f, table, line, s)]
  PROVE  \A s : Encloses(table, n, line, s) => Splits(table, n, line, f[s])
<1> DEFINE Wrong(s) == Encloses(table, n, line, s) /\ ~ Splits(table, n, line, f[s])
           Widths == {m \in Nat : \E s \in Spans(n) : Wrong(s) /\ m = s.end - s.start}
<1>0. \A s \in Spans(n) : f[s] = Turn(f, table, line, s)
  OBVIOUS
<1>1. Widths = {}
  <2> SUFFICES ASSUME Widths # {} PROVE FALSE
    OBVIOUS
  <2>1. PICK m \in Widths : \A o \in Widths : m <= o
    BY LeastNumber
  <2>2. PICK s \in Spans(n) : Wrong(s) /\ m = s.end - s.start
    BY <2>1
  <2>3. /\ s.start \in Nat /\ s.end \in Nat /\ s.mid \in Nat
        /\ Encloses(table, n, line, s) /\ s.start <= s.end /\ s.end < n
    BY <2>2 DEF Encloses, Spans
  <2>4. CASE s.start = s.end
    <3>1. f[s] = IF line <= LineAt(table, s.mid) THEN s.mid ELSE s.mid + 1
      BY <1>0, <2>2, <2>3, <2>4 DEF Turn
    <3>2. Splits(table, n, line, s.start)
      BY <2>3, <2>4 DEF Encloses, Splits
    <3>3. CASE s.mid = s.start
      <4>1. line <= LineAt(table, s.mid)
        BY <2>3, <2>4, <3>3 DEF Encloses
      <4> QED BY <3>1, <3>2, <3>3, <4>1, <2>2
    <3>4. CASE s.mid = s.start - 1
      <4>1. LineAt(table, s.mid) < line /\ LineAt(table, s.mid) \in Int
        BY <2>3, <2>4, <3>4 DEF Encloses, Ascending
      <4>2. ~ (line <= LineAt(table, s.mid))
        BY <4>1
      <4>3. f[s] = s.start
        BY <3>1, <3>4, <4>2, <2>3
      <4> QED BY <3>2, <4>3, <2>2
    <3> QED BY <2>3, <2>4, <3>3, <3>4 DEF Encloses
  <2>5. CASE s.start < s.end
    <3>1. ~ Splits(table, n, line, f[s])
      BY <2>2
    <3>2. Mid(s) \in 0 .. n - 1 /\ LineAt(table, Mid(s)) \in Int
      BY <2>3, <2>5, TurnKeeps DEF Ascending
    <3>3. \A u \in Spans(n) :
            u.end - u.start < m /\ Encloses(table, n, line, u) => Splits(table, n, line, f[u])
      <4> SUFFICES ASSUME NEW u \in Spans(n), u.end - u.start < m,
                          Encloses(table, n, line, u), ~ Splits(table, n, line, f[u])
                   PROVE  FALSE
        OBVIOUS
      <4>1. u.end - u.start \in Nat /\ Wrong(u)
        BY DEF Encloses, Spans
      <4>2. u.end - u.start \in Widths
        BY <4>1
      <4> HIDE DEF Widths
      <4> QED BY <4>1, <4>2, <2>1, <2>2, <2>3
    <3>4. CASE line < LineAt(table, Mid(s))
      <4>1. f[s] = f[Lower(s)]
        BY <1>0, <2>2, <2>3, <2>5, <3>4 DEF Turn
      <4>2. Encloses(table, n, line, Lower(s))
        BY <2>3, <2>5, <3>4, TurnKeeps
      <4> QED BY <3>1, <3>3, <4>1, <4>2, <2>2, <2>5, Halves
    <3>5. CASE line > LineAt(table, Mid(s))
      <4>1. f[s] = f[Upper(s)]
        BY <1>0, <2>2, <2>3, <2>5, <3>2, <3>5 DEF Turn
      <4>2. Encloses(table, n, line, Upper(s))
        BY <2>3, <2>5, <3>5, TurnKeeps
      <4> QED BY <3>1, <3>3, <4>1, <4>2, <2>2, <2>5, Halves
    <3>6. CASE line = LineAt(table, Mid(s))
      <4>1. f[s] = Mid(s)
        BY <1>0, <2>2, <2>3, <2>5, <3>2, <3>6 DEF Turn
      <4> QED BY <3>1, <4>1, <2>3, <2>5, <3>6, TurnKeeps
    <3> QED BY <3>2, <3>4, <3>5, <3>6
  <2> QED BY <2>3, <2>4, <2>5
<1>2. \A s \in Spans(n) : Encloses(table, n, line, s) => s.end - s.start \in Nat
  BY DEF Encloses, Spans
<1> QED BY <1>1, <1>2 DEF Encloses

\* Bisect finds the line in a table in order, or the place where it belongs.
LEMMA BisectFinds ==
  ASSUME NEW table, NEW n \in Nat \ {0}, NEW line \in Int, Ascending(table, n),
         NEW p, p = Bisect(table, n, line)
  PROVE  Splits(table, n, line, p)
<1>1. CASE line > LineAt(table, n - 1)
  <2>1. p = n
    BY <1>1 DEF Bisect
  <2>2. \A k \in 0 .. n - 1 : LineAt(table, k) < line
    <3> SUFFICES ASSUME NEW k \in 0 .. n - 1 PROVE LineAt(table, k) < line
      OBVIOUS
    <3>1. CASE k = n - 1
      BY <3>1, <1>1 DEF Ascending
    <3>2. CASE k < n - 1
      BY <3>2, <1>1 DEF Ascending
    <3> QED BY <3>1, <3>2
  <2> QED BY <2>1, <2>2 DEF Splits
<1>2. CASE ~ (line > LineAt(table, n - 1))
  <2> DEFINE f == CHOOSE f : f = [s \in Spans(n) |-> Turn(f, table, line, s)]
             s0 == [start |-> 0, end |-> n - 1, mid |-> 0]
  <2>1. f = [s \in Spans(n) |-> Turn(f, table, line, s)]
    BY LoopDefined
  <2>2. p = f[s0]
    BY <1>2 DEF Bisect, BisectLoop, Turn, Mid, Lower, Upper
  <2> HIDE DEF f
  <2>3. Encloses(table, n, line, s0)
    <3>1. s0 \in Spans(n) /\ s0.start = 0 /\ s0.end = n - 1 /\ s0.mid = 0
      BY DEF Spans
    <3>2. \A k \in 0 .. n - 1 : n - 1 <= k => line <= LineAt(table, k)
      BY <1>2 DEF Ascending
    <3> HIDE DEF s0
    <3> QED BY <3>1, <3>2 DEF Encloses
  <2> HIDE DEF s0
  <2> QED BY <2>1, <2>2, <2>3, LoopFinds
<1> QED BY <1>1, <1>2

-----------------------------------------------------------------------------
\* Tables in order, and what the writers make of them.

Cell(objects) == [line : Int, object : objects]

\* A table of n entries in order, each for an object made for its line.
InOrder(e, n, made) ==
  /\ e \in Seq(Cell(CodeObjects)) /\ Len(e) = n
  /\ \A i, j \in 1 .. n : i < j => e[i].line < e[j].line
  /\ \A i \in 1 .. n : made[e[i].object] = e[i].line

LEMMA CellsMakeTable ==
  ASSUME NEW S, NEW n \in Nat, NEW f \in [1 .. n -> S]
  PROVE  f \in Seq(S) /\ Len(f) = n
OBVIOUS

LEMMA OrderAscends ==
  ASSUME NEW e, NEW n \in Nat, NEW made, InOrder(e, n, made)
  PROVE  Ascending(e, n)
<1>1. \A k \in 0 .. n - 1 : k + 1 \in 1 .. n /\ LineAt(e, k) = e[k + 1].line
  BY DEF LineAt
<1>2. \A i \in 1 .. n : e[i] \in Cell(CodeObjects) /\ e[i].line \in Int
  <2>1. \A i \in 1 .. n : e[i] \in Cell(CodeObjects)
    BY DEF InOrder
  <2> QED BY <2>1 DEF Cell
<1>3. \A k \in 0 .. n - 1 : LineAt(e, k) \in Int
  BY <1>1, <1>2
<1>4. \A k, l \in 0 .. n - 1 : k < l => LineAt(e, k) < LineAt(e, l)
  <2> SUFFICES ASSUME NEW k \in 0 .. n - 1, NEW l \in 0 .. n - 1, k < l
               PROVE  LineAt(e, k) < LineAt(e, l)
    OBVIOUS
  <2>1. k + 1 \in 1 .. n /\ l + 1 \in 1 .. n /\ k + 1 < l + 1
    OBVIOUS
  <2> QED BY <1>1, <2>1 DEF InOrder
<1> QED BY <1>3, <1>4 DEF Ascending

\* The object of one entry is exchanged.
LEMMA Replaced ==
  ASSUME NEW e, NEW n \in Nat, NEW made, InOrder(e, n, made),
         NEW p \in 0 .. n - 1, NEW o \in CodeObjects, made[o] = LineAt(e, p),
         NEW d \in [1 .. n -> Cell(CodeObjects)],
         \A i \in 1 .. n : /\ d[i].line = e[i].line
                           /\ d[i].object = IF i = p + 1 THEN o ELSE e[i].object
  PROVE  InOrder(d, n, made)
<1>1. d \in Seq(Cell(CodeObjects)) /\ Len(d) = n
  BY CellsMakeTable
<1>2. \A i \in 1 .. n : made[d[i].object] = d[i].line
  BY DEF InOrder, LineAt
<1>3. \A i, j \in 1 .. n : i < j => d[i].line < d[j].line
  BY DEF InOrder
<1> QED BY <1>1, <1>2, <1>3 DEF InOrder

LEMMA Remade ==
  ASSUME NEW e, NEW n \in Nat, NEW made, NEW other, InOrder(e, n, made),
         NEW o, \A i \in 1 .. n : e[i].object # o,
         \A u \in CodeObjects \ {o} : other[u] = made[u]
  PROVE  InOrder(e, n, other)
<1>1. \A i \in 1 .. n : e[i] \in Cell(CodeObjects)
  BY DEF InOrder
<1>2. \A i \in 1 .. n : e[i].object \in CodeObjects \ {o}
  BY <1>1 DEF Cell
<1> QED BY <1>2 DEF InOrder

\* Room for a line at p: the entries from p on move up by one.
MovedUp(e, n, p) ==
  [i \in 1 .. n + 1 |-> IF i <= p \/ (i = p + 1 /\ i <= n) THEN e[i]
                        ELSE IF i = p + 1 THEN [line |-> 0, object |-> NoObject]
                        ELSE e[i - 1]]

LEMMA RoomMade ==
  ASSUME NEW e, NEW n \in Nat, NEW made, InOrder(e, n, made),
         NEW line \in Int, NEW o \in CodeObjects, made[o] = line,
         NEW p, Splits(e, n, line, p), ~ (p < n /\ LineAt(e, p) = line),
         NEW d, d = MovedUp(e, n, p)
  PROVE  /\ d \in Seq(Cell(CodeObjects \cup {NoObject})) /\ Len(d) = n + 1
         /\ InOrder([d EXCEPT ![p + 1] = [line |-> line, object |-> o]], n + 1, made)
<1> DEFINE C == Cell(CodeObjects \cup {NoObject})
           f == [d EXCEPT ![p + 1] = [line |-> line, object |-> o]]
<1>0. p \in 0 .. n
  BY DEF Splits
<1>1. e \in [1 .. n -> Cell(CodeObjects)]
  BY DEF InOrder
<1>2. \A i \in 1 .. n : e[i] \in C /\ e[i] \in Cell(CodeObjects) /\ e[i].line \in Int
  <2>1. \A i \in 1 .. n : e[i] \in Cell(CodeObjects)
    BY <1>1
  <2> QED BY <2>1 DEF Cell
<1>3. [line |-> 0, object |-> NoObject] \in C
  BY DEF Cell
<1>4. d \in [1 .. n + 1 -> C]
  <2> HIDE DEF C
  <2>1. \A i \in 1 .. n + 1 : d[i] \in C
    BY <1>0, <1>2, <1>3 DEF MovedUp
  <2> QED BY <2>1 DEF MovedUp
<1>5. d \in Seq(C) /\ Len(d) = n + 1
  <2> HIDE DEF C
  <2> QED BY <1>4, CellsMakeTable
<1>6. \A i \in 1 .. n + 1 : f[i] = IF i <= p THEN e[i]
                                  ELSE IF i = p + 1 THEN [line |-> line, object |-> o]
                                  ELSE e[i - 1]
  BY <1>0 DEF MovedUp
<1>7. [line |-> line, object |-> o] \in Cell(CodeObjects)
  BY DEF Cell
<1>8. f \in [1 .. n + 1 -> Cell(CodeObjects)]
  <2>1. \A i \in 1 .. n + 1 : f[i] \in Cell(CodeObjects)
    BY <1>0, <1>2, <1>6, <1>7
  <2>2. DOMAIN f = 1 .. n + 1
    BY DEF MovedUp
  <2>3. f = [i \in 1 .. n + 1 |-> f[i]]
    BY <2>2 DEF MovedUp
  <2> HIDE DEF f
  <2> QED BY <2>1, <2>3
<1>9. f \in Seq(Cell(CodeObjects)) /\ Len(f) = n + 1
  <2> HIDE DEF f
  <2> QED BY <1>8, CellsMakeTable
<1>10. \A i \in 1 .. n : /\ i <= p => e[i].line < line
                         /\ p < i => line < e[i].line
  <2> SUFFICES ASSUME NEW i \in 1 .. n
               PROVE  /\ i <= p => e[i].line < line
                      /\ p < i => line < e[i].line
    OBVIOUS
  <2>1. i - 1 \in 0 .. n - 1 /\ LineAt(e, i - 1) = e[i].line /\ e[i].line \in Int
    BY <1>2 DEF LineAt
  <2>2. i <= p => e[i].line < line
    BY <1>0, <2>1 DEF Splits
  <2>3. ASSUME p < i PROVE line < e[i].line
    <3>1. line <= e[i].line
      BY <1>0, <2>1, <2>3 DEF Splits
    <3>2. p + 1 \in 1 .. n /\ p \in 0 .. n - 1 /\ LineAt(e, p) = e[p + 1].line
          /\ e[p + 1].line \in Int
      BY <1>0, <1>2, <2>3 DEF LineAt
    <3>3. line <= e[p + 1].line
      BY <3>2 DEF Splits
    <3>4. line < e[p + 1].line
      BY <3>2, <3>3
    <3>5. CASE i = p + 1
      BY <3>4, <3>5
    <3>6. CASE i > p + 1
      <4>1. e[p + 1].line < e[i].line
        BY <3>2, <3>6 DEF InOrder
      <4> QED BY <3>2, <3>4, <4>1, <2>1
    <3> QED BY <1>0, <2>3, <3>5, <3>6
  <2> QED BY <2>2, <2>3
<1>11. ASSUME NEW i \in 1 .. n + 1, NEW j \in 1 .. n + 1, i < j
       PROVE  f[i].line < f[j].line
  <2> HIDE DEF f
  <2> USE <1>0, <1>2, <1>6, <1>10
  <2>1. CASE j <= p
    BY <2>1, <1>11 DEF InOrder
  <2>2. CASE i <= p /\ j = p + 1
    BY <2>2
  <2>3. CASE i <= p /\ j > p + 1
    <3>1. f[i] = e[i] /\ f[j] = e[j - 1] /\ i \in 1 .. n /\ j - 1 \in 1 .. n /\ i < j - 1
      BY <2>3
    <3> QED BY <3>1 DEF InOrder
  <2>4. CASE i = p + 1
    <3>1. f[i].line = line /\ f[j] = e[j - 1] /\ j - 1 \in 1 .. n /\ p < j - 1
      BY <2>4, <1>11
    <3> QED BY <3>1
  <2>5. CASE i > p + 1
    <3>1. f[i] = e[i - 1] /\ f[j] = e[j - 1] /\ i - 1 \in 1 .. n /\ j - 1 \in 1 .. n
      BY <2>5, <1>11
    <3> QED BY <3>1, <1>11 DEF InOrder
  <2>6. i <= p \/ i = p + 1 \/ i > p + 1
    OBVIOUS
  <2>7. j <= p \/ j = p + 1 \/ j > p + 1
    OBVIOUS
  <2> QED BY <2>1, <2>2, <2>3, <2>4, <2>5, <2>6, <2>7, <1>11
<1>12. \A i \in 1 .. n + 1 : made[f[i].object] = f[i].line
  <2> SUFFICES ASSUME NEW i \in 1 .. n + 1 PROVE made[f[i].object] = f[i].line
    OBVIOUS
  <2> HIDE DEF f
  <2>1. CASE i <= p
    BY <2>1, <1>0, <1>6 DEF InOrder
  <2>2. CASE i = p + 1
    BY <2>2, <1>0, <1>6
  <2>3. CASE i > p + 1
    <3>1. i - 1 \in 1 .. n /\ f[i] = e[i - 1]
      BY <2>3, <1>0, <1>6
    <3> QED BY <3>1 DEF InOrder
  <2> QED BY <2>1, <2>2, <2>3, <1>0
<1> QED BY <1>5, <1>9, <1>11, <1>12 DEF InOrder

-----------------------------------------------------------------------------
\* What is so of the table and of every thread between two steps.

Typed ==
  /\ entries \in Seq(Cell(CodeObjects \cup {NoObject}))
  /\ count \in Nat /\ max_count \in Nat
  /\ refcnt \in [CodeObjects -> Int] /\ code_line \in [CodeObjects -> Int]
  /\ worker \in [Workers -> WorkerType]

Shifts(w) == worker[w].at = "shifting"
Filled(w) == [entries EXCEPT ![worker[w].pos + 1] =
                 [line |-> worker[w].line, object |-> worker[w].object]]

\* The table is in order, but for the cell a thread is about to fill.
TableOK ==
  /\ (\A w \in Workers : ~ Shifts(w)) =>
        /\ InOrder(entries, count, code_line)
        /\ count <= max_count
        /\ max_count # 0 => count # 0
  /\ \A w \in Workers : Shifts(w) =>
        /\ worker[w].pos <= count
        /\ count + 1 <= max_count
        /\ Len(entries) = count + 1
        /\ InOrder(Filled(w), count + 1, code_line)

InSomeCell(o) == \E i \in 1 .. count : entries[i].object = o

\* What a thread holds at each place.
WorkerOK(w) ==
  /\ worker[w].at = "idle" => worker[w] = IdleWorker
  /\ worker[w].at \in {"entering", "turning", "locating", "missed"} =>
        worker[w].object = NoObject
  /\ worker[w].at \in {"found", "made", "using"} \cup Writing =>
        worker[w].object # NoObject
  /\ worker[w].tmp # NoObject => worker[w].at \in {"stored", "replacing"}
  /\ worker[w].at = "replacing" => worker[w].tmp # NoObject
  /\ worker[w].object # NoObject => code_line[worker[w].object] = worker[w].line
  /\ worker[w].at \in {"found", "stored"} => InSomeCell(worker[w].object)

WorkersOK == \A w \in Workers : WorkerOK(w)

-----------------------------------------------------------------------------
\* The step of a thread that leaves the others alone.
MovesTo(w, at, line, object, tmp, pos) ==
  /\ worker' \in [Workers -> WorkerType] /\ OthersStay(w)
  /\ worker'[w].at = at /\ worker'[w].line = line /\ worker'[w].object = object
  /\ worker'[w].tmp = tmp /\ worker'[w].pos = pos

LEMMA Changed ==
  ASSUME Typed, NEW w \in Workers, NEW r \in WorkerType, worker' = [worker EXCEPT ![w] = r]
  PROVE  MovesTo(w, r.at, r.line, r.object, r.tmp, r.pos)
BY DEF Typed, MovesTo, OthersStay

LEMMA GoesTo ==
  ASSUME Typed, NEW w \in Workers, NEW place \in AtPlaces, Goes(w, place)
  PROVE  MovesTo(w, place, worker[w].line, worker[w].object, worker[w].tmp, worker[w].pos)
<1> DEFINE r == [worker[w] EXCEPT !.at = place]
<1>1. worker[w] \in WorkerType
  BY DEF Typed
<1>2. /\ r \in WorkerType /\ r.at = place /\ r.line = worker[w].line
      /\ r.object = worker[w].object /\ r.tmp = worker[w].tmp /\ r.pos = worker[w].pos
  BY <1>1 DEF WorkerType
<1>3. worker' = [worker EXCEPT ![w] = r]
  BY <1>1 DEF Goes, Typed
<1> HIDE DEF r
<1> QED BY <1>2, <1>3, Changed

LEMMA Fields ==
  ASSUME Typed, NEW w \in Workers
  PROVE  /\ worker[w] \in WorkerType /\ worker[w].at \in AtPlaces /\ worker[w].line \in Int
         /\ worker[w].object \in CodeObjects \cup {NoObject}
         /\ worker[w].tmp \in CodeObjects \cup {NoObject} /\ worker[w].pos \in Nat
<1>1. worker[w] \in WorkerType
  BY DEF Typed
<1> QED BY <1>1 DEF WorkerType

\* A step that leaves the table and the lines of the objects alone.
LEMMA TableStays ==
  ASSUME TableOK, WorkersOK, NEW w \in Workers, OthersStay(w),
         UNCHANGED <<tableVars, code_line>>, ~ Shifts(w), ~ Shifts(w)', WorkerOK(w)'
  PROVE  TableOK' /\ WorkersOK'
<1>1. UNCHANGED <<entries, count, max_count, code_line>>
  BY DEF tableVars
<1>2. \A v \in Workers : v # w => worker'[v] = worker[v] /\ (Shifts(v)' <=> Shifts(v))
  BY DEF OthersStay, Shifts
<1>3. \A v \in Workers : WorkerOK(v)'
  <2> SUFFICES ASSUME NEW v \in Workers PROVE WorkerOK(v)'
    OBVIOUS
  <2>1. CASE v = w
    BY <2>1
  <2>2. CASE v # w
    BY <2>2, <1>1, <1>2 DEF WorkersOK, WorkerOK, InSomeCell
  <2> QED BY <2>1, <2>2
<1>4. (\A v \in Workers : ~ Shifts(v)') =>
         /\ InOrder(entries, count, code_line)'
         /\ (count <= max_count)'
         /\ (max_count # 0 => count # 0)'
  <2>1. (\A v \in Workers : ~ Shifts(v)') => \A v \in Workers : ~ Shifts(v)
    BY <1>2
  <2> QED BY <1>1, <2>1 DEF TableOK, InOrder
<1>5. ASSUME NEW v \in Workers, Shifts(v)'
      PROVE  /\ (worker[v].pos <= count)'
             /\ (count + 1 <= max_count)'
             /\ (Len(entries) = count + 1)'
             /\ InOrder(Filled(v), count + 1, code_line)'
  <2>1. v # w /\ worker'[v] = worker[v] /\ Shifts(v)
    BY <1>2, <1>5
  <2>2. Filled(v)' = Filled(v)
    BY <1>1, <2>1 DEF Filled
  <2> QED BY <1>1, <2>1, <2>2 DEF TableOK, InOrder
<1> QED BY <1>3, <1>4, <1>5 DEF TableOK, WorkersOK

\* While a thread writes, the others are neither reading nor writing.
LEMMA OthersAway ==
  ASSUME WorkersOK, WriterIsAlone, NEW w \in Workers, worker[w].at \in Writing,
         OthersStay(w), UNCHANGED code_line
  PROVE  \A v \in Workers : v # w => ~ Shifts(v) /\ ~ Shifts(v)' /\ WorkerOK(v)'
<1> SUFFICES ASSUME NEW v \in Workers, v # w
             PROVE  ~ Shifts(v) /\ ~ Shifts(v)' /\ WorkerOK(v)'
  OBVIOUS
<1>1. worker'[v] = worker[v] /\ worker[v].at \notin Reading \cup Writing
  BY DEF OthersStay, WriterIsAlone, Writers
<1>2. worker[v].at \notin {"found", "stored", "shifting"}
  BY <1>1 DEF Reading, Writing
<1> QED BY <1>1, <1>2 DEF WorkersOK, WorkerOK, Shifts

\* When the table is in order after a writer's step.
LEMMA WriterStores ==
  ASSUME WorkersOK, WriterIsAlone, NEW w \in Workers, worker[w].at \in Writing,
         OthersStay(w), UNCHANGED code_line, ~ Shifts(w)', WorkerOK(w)',
         InOrder(entries', count', code_line), count' <= max_count', count' # 0
  PROVE  TableOK' /\ WorkersOK'
<1>1. \A v \in Workers : ~ Shifts(v)' /\ WorkerOK(v)'
  BY OthersAway
<1>2. InOrder(entries, count, code_line)'
  BY DEF InOrder
<1> QED BY <1>1, <1>2 DEF TableOK, WorkersOK

\* Nobody shifts while a thread reads, or is about to write, the table.
LEMMA NobodyShifts ==
  ASSUME TableOK, WriterIsAlone, NEW w \in Workers, worker[w].at \in Reading \cup Writing,
         ~ Shifts(w)
  PROVE  /\ \A v \in Workers : ~ Shifts(v)
         /\ InOrder(entries, count, code_line) /\ count <= max_count
         /\ max_count # 0 => count # 0
<1>1. \A v \in Workers : ~ Shifts(v)
  BY DEF WriterIsAlone, Writers, Shifts, Writing
<1> QED BY <1>1 DEF TableOK

-----------------------------------------------------------------------------
\* The balance of the references of a code object.

\* The references thread w owns in o, those it took out of the table, and those
\* it still owes to the table.
Owns(w, o) == worker[w].object = o /\ worker[w].at # "found"
Took(w, o) == worker[w].tmp = o
Owes(w, o) == worker[w].object = o /\ worker[w].at = "stored"
CellsOf(o) == {i \in Cells : entries[i].object = o}

Balanced(o) ==
  refcnt[o] + Cardinality({w \in Workers : Owes(w, o)}) =
     Cardinality({w \in Workers : Owns(w, o)}) + Cardinality({w \in Workers : Took(w, o)})
       + Cardinality(CellsOf(o))

Balances == \A o \in CodeObjects : Balanced(o)

CacheInv == Typed /\ TableOK /\ WorkersOK /\ Balances

Bit(b) == IF b THEN 1 ELSE 0

\* What thread w has in o on the balance.
Held(w, o) == Bit(Owns(w, o)) + Bit(Took(w, o)) - Bit(Owes(w, o))

-----------------------------------------------------------------------------
LEMMA OneMoves ==
  ASSUME NEW S, NEW T, NEW x, IsFiniteSet(S), S \ {x} = T \ {x}
  PROVE  /\ IsFiniteSet(T) /\ Cardinality(S) \in Nat /\ Cardinality(T) \in Nat
         /\ Cardinality(T) = Cardinality(S) + Bit(x \in T) - Bit(x \in S)
<1>1. Cardinality(S) \in Nat
  BY FS_CardinalityType
<1>2. CASE x \in S /\ x \notin T
  <2>1. T = S \ {x}
    BY <1>2
  <2>2. IsFiniteSet(T) /\ Cardinality(T) = Cardinality(S) - 1
    BY <2>1, <1>2, FS_RemoveElement
  <2> QED BY <1>1, <1>2, <2>2, FS_CardinalityType DEF Bit
<1>3. CASE x \notin S /\ x \in T
  <2>1. T = S \cup {x}
    BY <1>3
  <2>2. IsFiniteSet(T) /\ Cardinality(T) = Cardinality(S) + 1
    BY <2>1, <1>3, FS_AddElement
  <2> QED BY <1>1, <1>3, <2>2, FS_CardinalityType DEF Bit
<1>4. CASE x \in S <=> x \in T
  <2>1. T = S
    BY <1>4
  <2> QED BY <2>1, <1>1 DEF Bit
<1> QED BY <1>2, <1>3, <1>4

LEMMA SomeThreads ==
  ASSUME NEW S \in SUBSET Workers
  PROVE  IsFiniteSet(S) /\ Cardinality(S) \in Nat
BY FS_Subset, FS_CardinalityType

LEMMA CellsFinite ==
  ASSUME Typed, NEW o
  PROVE  /\ Cells \subseteq 1 .. Len(entries) /\ Len(entries) \in Nat
         /\ IsFiniteSet(CellsOf(o)) /\ Cardinality(CellsOf(o)) \in Nat
<1>1. Cells \subseteq 1 .. Len(entries) /\ Len(entries) \in Nat
  BY DEF Typed, Cells
<1>2. CellsOf(o) \subseteq 1 .. Len(entries)
  BY <1>1 DEF CellsOf
<1>3. IsFiniteSet(1 .. Len(entries))
  BY <1>1, FS_Interval
<1> QED BY <1>1, <1>2, <1>3, FS_Subset, FS_CardinalityType

\* The balance after a step of thread w that adds d cells with o.
LEMMA BalanceMoves ==
  ASSUME Typed, Typed', NEW w \in Workers, OthersStay(w), NEW o \in CodeObjects, Balanced(o),
         NEW d \in Int, Cardinality(CellsOf(o)') = Cardinality(CellsOf(o)) + d,
         refcnt'[o] = refcnt[o] + Held(w, o)' - Held(w, o) + d
  PROVE  Balanced(o)'
<1> DEFINE A == {v \in Workers : Owes(v, o)}
           B == {v \in Workers : Owns(v, o)}
           C == {v \in Workers : Took(v, o)}
           A1 == {v \in Workers : Owes(v, o)'}
           B1 == {v \in Workers : Owns(v, o)'}
           C1 == {v \in Workers : Took(v, o)'}
<1>1. A \ {w} = A1 \ {w} /\ B \ {w} = B1 \ {w} /\ C \ {w} = C1 \ {w}
  BY DEF OthersStay, Owes, Owns, Took
<1>2. IsFiniteSet(A) /\ IsFiniteSet(B) /\ IsFiniteSet(C)
  BY SomeThreads
<1>3. /\ w \in A <=> Owes(w, o)
      /\ w \in B <=> Owns(w, o)
      /\ w \in C <=> Took(w, o)
      /\ w \in A1 <=> Owes(w, o)'
      /\ w \in B1 <=> Owns(w, o)'
      /\ w \in C1 <=> Took(w, o)'
  OBVIOUS
<1>4. refcnt[o] \in Int /\ refcnt'[o] \in Int /\ Cardinality(CellsOf(o)) \in Nat
  BY CellsFinite DEF Typed
<1>5. refcnt[o] + Cardinality(A) = Cardinality(B) + Cardinality(C) + Cardinality(CellsOf(o))
  BY DEF Balanced
<1> HIDE DEF A, B, C, A1, B1, C1
<1>6. /\ Cardinality(A) \in Nat /\ Cardinality(A1) \in Nat
      /\ Cardinality(A1) = Cardinality(A) + Bit(Owes(w, o)') - Bit(Owes(w, o))
  BY <1>1, <1>2, <1>3, OneMoves DEF Bit
<1>7. /\ Cardinality(B) \in Nat /\ Cardinality(B1) \in Nat
      /\ Cardinality(B1) = Cardinality(B) + Bit(Owns(w, o)') - Bit(Owns(w, o))
  BY <1>1, <1>2, <1>3, OneMoves DEF Bit
<1>8. /\ Cardinality(C) \in Nat /\ Cardinality(C1) \in Nat
      /\ Cardinality(C1) = Cardinality(C) + Bit(Took(w, o)') - Bit(Took(w, o))
  BY <1>1, <1>2, <1>3, OneMoves DEF Bit
<1>9. \A b \in BOOLEAN : Bit(b) \in Int
  BY DEF Bit
<1>10. refcnt'[o] + Cardinality(A1) =
          Cardinality(B1) + Cardinality(C1) + Cardinality(CellsOf(o)')
  BY <1>4, <1>5, <1>6, <1>7, <1>8 DEF Held, Bit
<1> QED BY <1>10 DEF Balanced, A1, B1, C1

LEMMA SameCells ==
  ASSUME NEW w \in Workers, OthersStay(w), UNCHANGED entries, ~ Shifts(w), ~ Shifts(w)', NEW o
  PROVE  CellsOf(o)' = CellsOf(o)
<1>1. \A v \in Workers : /\ worker'[v].at = "shifting" <=> worker[v].at = "shifting"
                         /\ worker[v].at = "shifting" => worker'[v] = worker[v]
  BY DEF OthersStay, Shifts
<1>2. Cells' = Cells
  BY <1>1 DEF Cells
<1> QED BY <1>2 DEF CellsOf

\* A step that leaves the table alone.
LEMMA QuietStep ==
  ASSUME CacheInv, NEW w \in Workers, worker' \in [Workers -> WorkerType], OthersStay(w),
         UNCHANGED <<tableVars, code_line>>, ~ Shifts(w), ~ Shifts(w)', WorkerOK(w)',
         refcnt' \in [CodeObjects -> Int],
         \A o \in CodeObjects : refcnt'[o] = refcnt[o] + Held(w, o)' - Held(w, o)
  PROVE  CacheInv'
<1>1. UNCHANGED <<entries, count, max_count, code_line>>
  BY DEF tableVars
<1>2. Typed'
  BY <1>1 DEF CacheInv, Typed
<1>3. TableOK' /\ WorkersOK'
  BY TableStays DEF CacheInv
<1>4. ASSUME NEW o \in CodeObjects PROVE Balanced(o)'
  <2>1. CellsOf(o)' = CellsOf(o) /\ Cardinality(CellsOf(o)) \in Nat
    BY <1>1, SameCells, CellsFinite DEF CacheInv
  <2>2. Cardinality(CellsOf(o)') = Cardinality(CellsOf(o)) + 0
    BY <2>1
  <2>3. Held(w, o) \in Int /\ Held(w, o)' \in Int /\ refcnt[o] \in Int
    BY DEF Held, Bit, CacheInv, Typed
  <2>4. refcnt'[o] = refcnt[o] + Held(w, o)' - Held(w, o) + 0
    BY <2>3
  <2>5. Typed /\ Balanced(o)
    BY DEF CacheInv, Balances
  <2> QED BY <1>2, <2>2, <2>4, <2>5, BalanceMoves
<1> QED BY <1>2, <1>3, <1>4 DEF CacheInv, Balances

-----------------------------------------------------------------------------
\* The steps that leave the table alone.

\* The steps of a thread that leave the table alone.
LEMMA AddTracebackStep ==
  ASSUME CacheInv, NEW w \in Workers, AddTraceback(w)
  PROVE  CacheInv'
<1>1. PICK line \in TraceLines :
        worker' = [worker EXCEPT ![w].at = "entering", ![w].line = line]
  BY DEF AddTraceback
<1>2. UNCHANGED <<tableVars, code_line>> /\ refcnt' = refcnt
  BY DEF AddTraceback
<1>3. /\ worker[w].at = "idle" /\ worker[w] \in WorkerType /\ worker[w] = IdleWorker
      /\ worker \in [Workers -> WorkerType]
  BY DEF AddTraceback, CacheInv, Typed, WorkersOK, WorkerOK
<1> DEFINE r == [worker[w] EXCEPT !.at = "entering", !.line = line]
<1>4. /\ r \in WorkerType /\ r.at = "entering" /\ r.line = line /\ r.object = NoObject
      /\ r.tmp = NoObject /\ r.pos = 0
  <2>1. line \in Int /\ "entering" \in AtPlaces
    BY DEF AtPlaces
  <2>2. /\ worker[w].object = NoObject /\ worker[w].tmp = NoObject /\ worker[w].pos = 0
    BY <1>3 DEF IdleWorker
  <2> QED BY <1>3, <2>1, <2>2 DEF WorkerType
<1>5. worker' = [worker EXCEPT ![w] = r]
  BY <1>1, <1>3
<1> HIDE DEF r
<1>6. MovesTo(w, "entering", line, NoObject, NoObject, 0)
  BY <1>4, <1>5, Changed DEF CacheInv
<1>7. ~ Shifts(w) /\ ~ Shifts(w)' /\ WorkerOK(w)'
  BY <1>3, <1>6 DEF Shifts, WorkerOK, MovesTo, Writing
<1>8. \A o \in CodeObjects : refcnt'[o] = refcnt[o] + Held(w, o)' - Held(w, o)
  BY <1>2, <1>3, <1>6 DEF Held, Bit, Owns, Took, Owes, MovesTo, IdleWorker, CacheInv, Typed
<1> QED BY <1>2, <1>6, <1>7, <1>8, QuietStep DEF MovesTo, CacheInv, Typed

\* A thread that only goes on, with the references it has.
\* It leaves with what the cell held, or with nothing.
LEMMA LocateStep ==
  ASSUME CacheInv, WriterIsAlone, NEW w \in Workers, Locate(w)
  PROVE  CacheInv'
<1> DEFINE line == worker[w].line
           pos == Bisect(entries, count, line)
           hit == line # 0 /\ max_count # 0 /\ HitAt(pos, line)
<1>0. /\ UNCHANGED <<tableVars, code_line>> /\ refcnt' = refcnt
      /\ entries' = entries /\ count' = count /\ code_line' = code_line
  BY DEF Locate, tableVars
<1>1. worker[w].at = "locating" /\ worker[w].object = NoObject /\ worker[w].tmp = NoObject
  BY DEF Locate, CacheInv, WorkersOK, WorkerOK
<1>2. worker[w] \in WorkerType /\ line \in Int
  BY Fields DEF CacheInv
<1>3. /\ InOrder(entries, count, code_line) /\ count \in Nat
      /\ max_count # 0 => count # 0
  BY <1>1, NobodyShifts DEF CacheInv, Shifts, Reading, Typed
<1>4. CASE hit
  <2>1. Splits(entries, count, line, pos)
    BY <1>2, <1>3, <1>4, OrderAscends, BisectFinds
  <2>2. pos \in 0 .. count - 1 /\ entries[pos + 1].line = line
    BY <1>3, <1>4, <2>1 DEF Splits, HitAt, LineAt
  <2>3. worker' = [worker EXCEPT ![w].at = "found", ![w].object = entries[pos + 1].object]
    BY <1>4 DEF Locate
  <2> HIDE DEF pos
  <2>4. pos + 1 \in 1 .. count /\ entries[pos + 1] \in Cell(CodeObjects)
    BY <1>3, <2>2 DEF InOrder
  <2>5. PICK o \in CodeObjects : o = entries[pos + 1].object /\ code_line[o] = line
    BY <1>3, <2>2, <2>4 DEF InOrder, Cell
  <2>6. InSomeCell(o)'
    BY <1>0, <2>4, <2>5 DEF InSomeCell
  <2> DEFINE r == [worker[w] EXCEPT !.at = "found", !.object = o]
  <2>7. /\ r \in WorkerType /\ r.at = "found" /\ r.line = line /\ r.object = o
        /\ r.tmp = NoObject /\ r.pos = worker[w].pos
    BY <1>1, <1>2, <2>5 DEF WorkerType, AtPlaces, Reading
  <2> HIDE DEF r
  <2>8. MovesTo(w, "found", line, o, NoObject, worker[w].pos)
    <3>1. worker' = [worker EXCEPT ![w] = r]
      BY <1>2, <2>3, <2>5 DEF CacheInv, Typed, r
    <3> QED BY <2>7, <3>1, Changed DEF CacheInv
  <2>9. ~ Shifts(w) /\ ~ Shifts(w)' /\ WorkerOK(w)'
    BY <1>0, <1>1, <2>5, <2>6, <2>8 DEF Shifts, WorkerOK, MovesTo, Writing
  <2>10. \A u \in CodeObjects : refcnt'[u] = refcnt[u] + Held(w, u)' - Held(w, u)
    BY <1>0, <1>1, <2>8 DEF Held, Bit, Owns, Took, Owes, MovesTo, CacheInv, Typed
  <2> QED BY <1>0, <2>8, <2>9, <2>10, QuietStep DEF MovesTo, CacheInv, Typed
<1>5. CASE ~ hit
  <2>1. Goes(w, "leaving")
    BY <1>5 DEF Locate
  <2>2. MovesTo(w, "leaving", line, NoObject, NoObject, worker[w].pos)
    BY <1>1, <2>1, GoesTo DEF CacheInv, AtPlaces, Reading
  <2>3. ~ Shifts(w) /\ ~ Shifts(w)' /\ WorkerOK(w)'
    BY <1>0, <1>1, <2>2 DEF Shifts, WorkerOK, MovesTo, Writing
  <2>4. \A u \in CodeObjects : refcnt'[u] = refcnt[u] + Held(w, u)' - Held(w, u)
    BY <1>0, <1>1, <2>2 DEF Held, Bit, Owns, Took, Owes, MovesTo, CacheInv, Typed
  <2> QED BY <1>0, <2>2, <2>3, <2>4, QuietStep DEF MovesTo, CacheInv, Typed
<1> QED BY <1>4, <1>5

LEMMA GoesQuietly ==
  ASSUME CacheInv, NEW w \in Workers, NEW place \in AtPlaces \ {"idle", "shifting"},
         Goes(w, place), UNCHANGED <<tableVars, code_line, refcnt>>, ~ Shifts(w),
         worker[w].at # "idle",
         place \in {"entering", "turning", "locating", "missed"} => worker[w].object = NoObject,
         place \in {"found", "made", "using"} \cup Writing => worker[w].object # NoObject,
         worker[w].tmp = NoObject, place # "replacing",
         place \notin {"found", "stored"}, worker[w].at \notin {"found", "stored"}
  PROVE  CacheInv'
<1>1. MovesTo(w, place, worker[w].line, worker[w].object, worker[w].tmp, worker[w].pos)
  BY GoesTo DEF CacheInv
<1>2. ~ Shifts(w)' /\ WorkerOK(w)'
  BY <1>1 DEF Shifts, WorkerOK, MovesTo, CacheInv, WorkersOK
<1>3. \A o \in CodeObjects : refcnt'[o] = refcnt[o] + Held(w, o)' - Held(w, o)
  BY <1>1 DEF Held, Bit, Owns, Took, Owes, MovesTo, CacheInv, Typed
<1> QED BY <1>1, <1>2, <1>3, QuietStep DEF MovesTo, CacheInv, Typed

LEMMA WithoutTmp ==
  ASSUME CacheInv, NEW w \in Workers
  PROVE  /\ worker[w].at \notin {"stored", "replacing"} => worker[w].tmp = NoObject
         /\ worker[w].at \in {"entering", "turning", "locating", "missed"} =>
               worker[w].object = NoObject
         /\ worker[w].at \in {"found", "made", "using"} \cup Writing =>
               worker[w].object # NoObject
BY DEF CacheInv, WorkersOK, WorkerOK

LEMMA GoingSteps ==
  ASSUME CacheInv, NEW w \in Workers,
         \/ CountIn(w) \/ TurnBack(w) \/ CountOut(w) \/ ClaimTable(w)
         \/ CannotStore(w) \/ ReleaseTable(w)
  PROVE  CacheInv'
<1> USE DEF AtPlaces, Reading, Writing, Shifts
<1>1. CASE CountIn(w)
  <2>1. \/ Goes(w, "turning") \/ Goes(w, "locating")
    BY <1>1 DEF CountIn
  <2> QED BY <1>1, <2>1, WithoutTmp, GoesQuietly DEF CountIn
<1>2. CASE TurnBack(w)
  BY <1>2, WithoutTmp, GoesQuietly DEF TurnBack
<1>3. CASE CountOut(w)
  <2>1. CASE worker[w].object = NoObject
    BY <1>3, <2>1, WithoutTmp, GoesQuietly DEF CountOut
  <2>2. CASE worker[w].object # NoObject
    BY <1>3, <2>2, WithoutTmp, GoesQuietly DEF CountOut
  <2> QED BY <2>1, <2>2
<1>4. CASE ClaimTable(w)
  <2>1. CASE accessor_count = 0
    BY <1>4, <2>1, WithoutTmp, GoesQuietly DEF ClaimTable
  <2>2. CASE accessor_count # 0
    BY <1>4, <2>2, WithoutTmp, GoesQuietly DEF ClaimTable
  <2> QED BY <2>1, <2>2
<1>5. CASE CannotStore(w)
  BY <1>5, WithoutTmp, GoesQuietly DEF CannotStore
<1>6. CASE ReleaseTable(w)
  BY <1>6, WithoutTmp, GoesQuietly DEF ReleaseTable
<1> QED BY <1>1, <1>2, <1>3, <1>4, <1>5, <1>6
\* A thread takes or drops one reference in what it holds.
LEMMA CountingSteps ==
  ASSUME CacheInv, NEW w \in Workers,
         TakeReference(w) \/ OwnEntry(w) \/ DropReplaced(w) \/ EndTraceback(w)
  PROVE  CacheInv'
<1>0. /\ worker[w] \in WorkerType /\ WorkerOK(w)
      /\ worker[w].object \in CodeObjects \cup {NoObject}
      /\ worker[w].tmp \in CodeObjects \cup {NoObject} /\ Typed
      /\ refcnt \in [CodeObjects -> Int]
  BY Fields DEF CacheInv, WorkersOK, Typed
<1>1. CASE TakeReference(w)
  <2>1. /\ worker[w].at = "found" /\ UNCHANGED <<tableVars, code_line>>
        /\ Goes(w, "leaving") /\ refcnt' = [refcnt EXCEPT ![worker[w].object] = @ + 1]
    BY <1>1 DEF TakeReference
  <2>2. PICK o \in CodeObjects : o = worker[w].object /\ worker[w].tmp = NoObject
    BY <1>0, <2>1 DEF WorkerOK, Writing
  <2>3. MovesTo(w, "leaving", worker[w].line, worker[w].object, NoObject, worker[w].pos)
    BY <1>0, <2>1, <2>2, GoesTo DEF AtPlaces, Reading
  <2>4. ~ Shifts(w) /\ ~ Shifts(w)' /\ WorkerOK(w)'
    BY <1>0, <2>1, <2>2, <2>3 DEF MovesTo, Shifts, WorkerOK, Writing
  <2>5. \A u \in CodeObjects :
          Held(w, u)' - Held(w, u) = IF u = o THEN 1 ELSE 0
    BY <2>1, <2>2, <2>3 DEF Held, Bit, Owns, Took, Owes, MovesTo
  <2>6. \A u \in CodeObjects : refcnt'[u] = refcnt[u] + Held(w, u)' - Held(w, u)
    BY <1>0, <2>1, <2>2, <2>5 DEF Held, Bit
  <2>7. refcnt' \in [CodeObjects -> Int]
    BY <1>0, <2>1, <2>2
  <2> QED BY <2>1, <2>3, <2>4, <2>6, <2>7, QuietStep DEF MovesTo
<1>2. CASE OwnEntry(w)
  <2>1. /\ worker[w].at = "stored" /\ UNCHANGED <<tableVars, code_line>>
        /\ Goes(w, IF worker[w].tmp = NoObject THEN "releasing" ELSE "replacing")
        /\ refcnt' = [refcnt EXCEPT ![worker[w].object] = @ + 1]
    BY <1>2 DEF OwnEntry
  <2>2. PICK o \in CodeObjects : o = worker[w].object
    BY <1>0, <2>1 DEF WorkerOK, Writing
  <2>3. MovesTo(w, IF worker[w].tmp = NoObject THEN "releasing" ELSE "replacing",
                worker[w].line, worker[w].object, worker[w].tmp, worker[w].pos)
    BY <1>0, <2>1, <2>2, GoesTo DEF AtPlaces, Writing
  <2>4. ~ Shifts(w) /\ ~ Shifts(w)' /\ WorkerOK(w)'
    BY <1>0, <2>1, <2>2, <2>3 DEF MovesTo, Shifts, WorkerOK, Writing
  <2>5. \A u \in CodeObjects :
          Held(w, u)' - Held(w, u) = IF u = o THEN 1 ELSE 0
    BY <2>1, <2>2, <2>3 DEF Held, Bit, Owns, Took, Owes, MovesTo
  <2>6. \A u \in CodeObjects : refcnt'[u] = refcnt[u] + Held(w, u)' - Held(w, u)
    BY <1>0, <2>1, <2>2, <2>5 DEF Held, Bit
  <2>7. refcnt' \in [CodeObjects -> Int]
    BY <1>0, <2>1, <2>2
  <2> QED BY <2>1, <2>3, <2>4, <2>6, <2>7, QuietStep DEF MovesTo
<1>3. CASE DropReplaced(w)
  <2> DEFINE r == [worker[w] EXCEPT !.at = "releasing", !.tmp = NoObject]
  <2>1. /\ worker[w].at = "replacing" /\ UNCHANGED <<tableVars, code_line>>
        /\ refcnt' = [refcnt EXCEPT ![worker[w].tmp] = @ - 1] /\ worker' = [worker EXCEPT ![w] = r]
    BY <1>0, <1>3 DEF DropReplaced, Typed
  <2>2. PICK o \in CodeObjects : o = worker[w].tmp
    BY <1>0, <2>1 DEF WorkerOK
  <2>3. /\ r \in WorkerType /\ r.at = "releasing" /\ r.line = worker[w].line
        /\ r.object = worker[w].object /\ r.tmp = NoObject /\ r.pos = worker[w].pos
    BY <1>0 DEF WorkerType, AtPlaces, Writing
  <2> HIDE DEF r
  <2>4. MovesTo(w, "releasing", worker[w].line, worker[w].object, NoObject, worker[w].pos)
    BY <1>0, <2>1, <2>3, Changed
  <2>5. ~ Shifts(w) /\ ~ Shifts(w)' /\ WorkerOK(w)'
    BY <1>0, <2>1, <2>4 DEF MovesTo, Shifts, WorkerOK, Writing
  <2>6. \A u \in CodeObjects : Held(w, u)' - Held(w, u) = IF u = o THEN -1 ELSE 0
    BY <2>1, <2>2, <2>4 DEF Held, Bit, Owns, Took, Owes, MovesTo
  <2>7. \A u \in CodeObjects : refcnt'[u] = refcnt[u] + Held(w, u)' - Held(w, u)
    BY <1>0, <2>1, <2>2, <2>6 DEF Held, Bit
  <2>8. refcnt' \in [CodeObjects -> Int]
    BY <1>0, <2>1, <2>2
  <2> QED BY <2>1, <2>4, <2>5, <2>7, <2>8, QuietStep DEF MovesTo
<1>4. CASE EndTraceback(w)
  <2>1. /\ worker[w].at = "using" /\ UNCHANGED <<tableVars, code_line>>
        /\ refcnt' = [refcnt EXCEPT ![worker[w].object] = @ - 1]
        /\ worker' = [worker EXCEPT ![w] = IdleWorker]
    BY <1>4 DEF EndTraceback
  <2>2. PICK o \in CodeObjects : o = worker[w].object /\ worker[w].tmp = NoObject
    BY <1>0, <2>1 DEF WorkerOK, Writing
  <2>3. /\ IdleWorker \in WorkerType /\ IdleWorker.at = "idle" /\ IdleWorker.line = 0
        /\ IdleWorker.object = NoObject /\ IdleWorker.tmp = NoObject /\ IdleWorker.pos = 0
    BY DEF IdleWorker, WorkerType, AtPlaces
  <2>4. MovesTo(w, "idle", 0, NoObject, NoObject, 0) /\ worker'[w] = IdleWorker
    BY <1>0, <2>1, <2>3, Changed DEF Typed
  <2>5. ~ Shifts(w) /\ ~ Shifts(w)' /\ WorkerOK(w)'
    BY <1>0, <2>1, <2>4 DEF MovesTo, Shifts, WorkerOK, Writing
  <2>6. \A u \in CodeObjects : Held(w, u)' - Held(w, u) = IF u = o THEN -1 ELSE 0
    BY <2>1, <2>2, <2>4 DEF Held, Bit, Owns, Took, Owes, MovesTo
  <2>7. \A u \in CodeObjects : refcnt'[u] = refcnt[u] + Held(w, u)' - Held(w, u)
    BY <1>0, <2>1, <2>2, <2>6 DEF Held, Bit
  <2>8. refcnt' \in [CodeObjects -> Int]
    BY <1>0, <2>1, <2>2
  <2> QED BY <2>1, <2>4, <2>5, <2>7, <2>8, QuietStep DEF MovesTo
<1> QED BY <1>1, <1>2, <1>3, <1>4

-----------------------------------------------------------------------------
\* A code object is made.

LEMMA SameSize ==
  ASSUME NEW S, NEW T, IsFiniteSet(S), NEW f \in [S -> T],
         \A a, b \in S : f[a] = f[b] => a = b,
         \A t \in T : \E a \in S : f[a] = t
  PROVE  IsFiniteSet(T) /\ Cardinality(T) = Cardinality(S)
<1>1. f \in Bijection(S, T)
  BY Fun_IsBij
<1> QED BY <1>1, FS_Bijection DEF ExistsBijection

\* The cells that own a reference, while nobody shifts and while somebody does.
LEMMA CellsAtRest ==
  ASSUME Typed, \A w \in Workers : ~ Shifts(w), Len(entries) = count
  PROVE  Cells = 1 .. count /\ \A o : CellsOf(o) = {i \in 1 .. count : entries[i].object = o}
<1>1. DOMAIN entries = 1 .. count
  BY DEF Typed
<1>2. Cells = 1 .. count
  BY <1>1 DEF Cells, Shifts
<1> QED BY <1>2 DEF CellsOf

LEMMA CellsShifted ==
  ASSUME Typed, NEW w \in Workers, Shifts(w), \A v \in Workers : v # w => ~ Shifts(v),
         Len(entries) = count + 1
  PROVE  Cells = (1 .. count + 1) \ {worker[w].pos + 1}
<1>1. DOMAIN entries = 1 .. count + 1
  BY DEF Typed
<1>2. {v \in Workers : worker[v].at = "shifting"} = {w}
  BY DEF Shifts
<1> QED BY <1>1, <1>2 DEF Cells

\* A freed object is in no cell and in nobody's hands.
LEMMA FreedIsUnused ==
  ASSUME CacheInv, WriterIsAlone, NEW o \in CodeObjects, refcnt[o] = 0
  PROVE  /\ CellsOf(o) = {}
         /\ \A v \in Workers : worker[v].object # o /\ worker[v].tmp # o
<1> DEFINE A == {v \in Workers : Owes(v, o)}
           B == {v \in Workers : Owns(v, o)}
           C == {v \in Workers : Took(v, o)}
<1>1. A \subseteq B
  BY DEF Owes, Owns
<1>2. /\ IsFiniteSet(A) /\ IsFiniteSet(B) /\ IsFiniteSet(C) /\ IsFiniteSet(CellsOf(o))
      /\ Cardinality(A) \in Nat /\ Cardinality(B) \in Nat /\ Cardinality(C) \in Nat
      /\ Cardinality(CellsOf(o)) \in Nat
  BY SomeThreads, CellsFinite DEF CacheInv
<1>3. 0 + Cardinality(A) = Cardinality(B) + Cardinality(C) + Cardinality(CellsOf(o))
  BY DEF CacheInv, Balances, Balanced
<1>4. \A v \in Workers : /\ v \in A <=> Owes(v, o)
                         /\ v \in B <=> Owns(v, o)
                         /\ v \in C <=> Took(v, o)
  OBVIOUS
<1> HIDE DEF A, B, C
<1>5. Cardinality(A) <= Cardinality(B)
  BY <1>1, <1>2, FS_Subset
<1>6. Cardinality(C) = 0 /\ Cardinality(CellsOf(o)) = 0 /\ Cardinality(A) = Cardinality(B)
  BY <1>2, <1>3, <1>5
<1>7. C = {} /\ CellsOf(o) = {} /\ A = B
  BY <1>1, <1>2, <1>6, FS_EmptySet, FS_Subset
<1>8. ASSUME NEW v \in Workers, worker[v].object = o PROVE FALSE
  <2>1. WorkerOK(v) /\ worker[v].at \in AtPlaces /\ Typed /\ TableOK
    BY Fields DEF CacheInv, WorkersOK
  <2>2. worker[v].at \in {"found", "stored"}
    BY <1>4, <1>7, <1>8 DEF Owns, Owes
  <2>3. InSomeCell(o)
    BY <1>8, <2>1, <2>2 DEF WorkerOK
  <2>4. (\A u \in Workers : ~ Shifts(u)) /\ Len(entries) = count
    BY <2>1, <2>2, NobodyShifts DEF Shifts, Reading, Writing, InOrder
  <2> QED BY <1>7, <2>1, <2>3, <2>4, CellsAtRest DEF InSomeCell
<1>9. \A v \in Workers : worker[v].tmp # o
  BY <1>4, <1>7 DEF Took
<1> QED BY <1>7, <1>8, <1>9

LEMMA MakeCodeObjectStep ==
  ASSUME CacheInv, WriterIsAlone, NEW w \in Workers, MakeCodeObject(w)
  PROVE  CacheInv'
<1>1. /\ worker[w].at = "missed" /\ worker[w].object = NoObject /\ worker[w].tmp = NoObject
      /\ worker[w] \in WorkerType /\ Typed /\ ~ Shifts(w) /\ worker[w].line \in Int
      /\ UNCHANGED <<entries, count, max_count>> /\ UNCHANGED tableVars
  BY Fields DEF MakeCodeObject, CacheInv, WorkersOK, WorkerOK, Shifts, tableVars
<1>2. CASE worker' = [worker EXCEPT ![w] = IdleWorker] /\ UNCHANGED <<refcnt, code_line>>
  <2>1. /\ IdleWorker \in WorkerType /\ IdleWorker.at = "idle" /\ IdleWorker.line = 0
        /\ IdleWorker.object = NoObject /\ IdleWorker.tmp = NoObject /\ IdleWorker.pos = 0
    BY DEF IdleWorker, WorkerType, AtPlaces
  <2>2. MovesTo(w, "idle", 0, NoObject, NoObject, 0) /\ worker'[w] = IdleWorker
    BY <1>1, <1>2, <2>1, Changed DEF Typed
  <2>3. ~ Shifts(w)' /\ WorkerOK(w)'
    BY <2>1, <2>2 DEF MovesTo, Shifts, WorkerOK, Writing
  <2>4. \A u \in CodeObjects : refcnt'[u] = refcnt[u] + Held(w, u)' - Held(w, u)
    BY <1>1, <1>2, <2>2 DEF MovesTo, Held, Bit, Owns, Took, Owes, Typed
  <2>5. refcnt' \in [CodeObjects -> Int]
    BY <1>1, <1>2 DEF Typed
  <2> QED BY <1>1, <1>2, <2>2, <2>3, <2>4, <2>5, QuietStep DEF MovesTo
<1>3. ASSUME NEW o \in CodeObjects, refcnt[o] = 0, refcnt' = [refcnt EXCEPT ![o] = 1],
             code_line' = [code_line EXCEPT ![o] = worker[w].line],
             worker' = [worker EXCEPT ![w].at = "made", ![w].object = o]
      PROVE  CacheInv'
  <2> DEFINE r == [worker[w] EXCEPT !.at = "made", !.object = o]
  <2>1. /\ r \in WorkerType /\ r.at = "made" /\ r.line = worker[w].line /\ r.object = o
        /\ r.tmp = NoObject /\ r.pos = worker[w].pos
    BY <1>1 DEF WorkerType, AtPlaces
  <2>2. worker' = [worker EXCEPT ![w] = r]
    BY <1>1, <1>3 DEF Typed
  <2> HIDE DEF r
  <2>3. MovesTo(w, "made", worker[w].line, o, NoObject, worker[w].pos)
    BY <1>1, <2>1, <2>2, Changed
  <2>4. /\ CellsOf(o) = {}
        /\ \A v \in Workers : worker[v].object # o /\ worker[v].tmp # o
    BY <1>3, FreedIsUnused
  <2>5. /\ code_line' \in [CodeObjects -> Int] /\ refcnt' \in [CodeObjects -> Int]
        /\ code_line'[o] = worker[w].line
        /\ \A u \in CodeObjects \ {o} : code_line'[u] = code_line[u]
        /\ \A u \in CodeObjects : refcnt'[u] = IF u = o THEN 1 ELSE refcnt[u]
    BY <1>1, <1>3 DEF Typed
  <2>6. Typed'
    BY <1>1, <2>3, <2>5 DEF Typed, MovesTo
  <2>7. \A v \in Workers : v # w => worker'[v] = worker[v] /\ (Shifts(v)' <=> Shifts(v))
    BY <2>3 DEF MovesTo, OthersStay, Shifts
  <2>8. ~ Shifts(w)' /\ WorkerOK(w)'
    BY <1>1, <2>3, <2>5 DEF MovesTo, Shifts, WorkerOK, Writing
  <2>9. WorkersOK'
    <3> SUFFICES ASSUME NEW v \in Workers, v # w PROVE WorkerOK(v)'
      BY <2>8 DEF WorkersOK
    <3>1. worker[v].object \in CodeObjects \cup {NoObject}
      BY <1>1, Fields
    <3>2. worker[v].object # NoObject =>
            code_line'[worker[v].object] = code_line[worker[v].object]
      BY <2>4, <2>5, <3>1
    <3> QED BY <1>1, <2>7, <3>2 DEF CacheInv, WorkersOK, WorkerOK, InSomeCell
  <2>10. TableOK'
    <3>1. ASSUME \A v \in Workers : ~ Shifts(v)
          PROVE  InOrder(entries, count, code_line')
      <4>1. InOrder(entries, count, code_line) /\ count \in Nat /\ Len(entries) = count
        BY <1>1, <3>1 DEF CacheInv, TableOK, Typed, InOrder
      <4>2. \A i \in 1 .. count : entries[i].object # o
        BY <1>1, <2>4, <3>1, <4>1, CellsAtRest
      <4> QED BY <2>5, <4>1, <4>2, Remade
    <3>2. ASSUME NEW v \in Workers, Shifts(v)
          PROVE  InOrder(Filled(v), count + 1, code_line')
      <4>1. /\ InOrder(Filled(v), count + 1, code_line) /\ count \in Nat
            /\ Len(entries) = count + 1 /\ worker[v].pos <= count /\ worker[v].pos \in Nat
        BY <1>1, <3>2, Fields DEF CacheInv, TableOK, Typed
      <4>2. \A u \in Workers : u # v => ~ Shifts(u)
        BY <3>2 DEF WriterIsAlone, Writers, Shifts, Writing
      <4>3. Cells = (1 .. count + 1) \ {worker[v].pos + 1}
        BY <1>1, <3>2, <4>1, <4>2, CellsShifted
      <4>4. \A i \in Cells : entries[i].object # o
        BY <2>4 DEF CellsOf
      <4>5. ASSUME NEW i \in 1 .. count + 1 PROVE Filled(v)[i].object # o
        <5>1. DOMAIN entries = 1 .. count + 1
          BY <1>1, <4>1 DEF Typed
        <5>2. CASE i = worker[v].pos + 1
          BY <2>4, <5>1, <5>2 DEF Filled
        <5>3. CASE i # worker[v].pos + 1
          BY <4>3, <4>4, <5>1, <5>3 DEF Filled
        <5> QED BY <5>2, <5>3
      <4>6. PICK e : e = Filled(v)
        OBVIOUS
      <4>7. /\ InOrder(e, count + 1, code_line) /\ count + 1 \in Nat
            /\ \A i \in 1 .. count + 1 : e[i].object # o
        BY <4>1, <4>5, <4>6
      <4>8. InOrder(e, count + 1, code_line')
        BY <2>5, <4>7, Remade
      <4> QED BY <4>6, <4>8
    <3>3. \A v \in Workers : Shifts(v)' => v # w /\ Shifts(v) /\ Filled(v)' = Filled(v)
      BY <1>1, <2>7, <2>8 DEF Filled
    <3>4. (\A v \in Workers : ~ Shifts(v)') => \A v \in Workers : ~ Shifts(v)
      BY <1>1, <2>7
    <3>5. (\A v \in Workers : ~ Shifts(v)') =>
             /\ InOrder(entries, count, code_line)'
             /\ (count <= max_count)'
             /\ (max_count # 0 => count # 0)'
      BY <1>1, <3>1, <3>4 DEF CacheInv, TableOK, InOrder
    <3>6. ASSUME NEW v \in Workers, Shifts(v)'
          PROVE  /\ (worker[v].pos <= count)'
                 /\ (count + 1 <= max_count)'
                 /\ (Len(entries) = count + 1)'
                 /\ InOrder(Filled(v), count + 1, code_line)'
      <4>1. v # w /\ Shifts(v) /\ Filled(v)' = Filled(v) /\ worker'[v] = worker[v]
        BY <2>7, <3>3, <3>6
      <4>2. InOrder(Filled(v), count + 1, code_line)'
        BY <1>1, <3>2, <4>1 DEF InOrder
      <4> QED BY <1>1, <4>1, <4>2 DEF CacheInv, TableOK
    <3> QED BY <3>5, <3>6 DEF TableOK
  <2>11. ASSUME NEW u \in CodeObjects PROVE Balanced(u)'
    <3>1. CellsOf(u)' = CellsOf(u) /\ Cardinality(CellsOf(u)) \in Nat
      BY <1>1, <2>3, <2>8, SameCells, CellsFinite DEF MovesTo
    <3>2. Cardinality(CellsOf(u)') = Cardinality(CellsOf(u)) + 0
      BY <3>1
    <3>3. refcnt'[u] = refcnt[u] + Held(w, u)' - Held(w, u) + 0
      <4>1. Held(w, u) = 0
        BY <1>1 DEF Held, Bit, Owns, Took, Owes
      <4>2. Held(w, u)' = IF u = o THEN 1 ELSE 0
        BY <2>3 DEF Held, Bit, Owns, Took, Owes, MovesTo
      <4>3. refcnt[u] \in Int
        BY <1>1 DEF Typed
      <4> QED BY <1>3, <2>5, <4>1, <4>2, <4>3
    <3>4. OthersStay(w) /\ Balanced(u)
      BY <2>3 DEF MovesTo, CacheInv, Balances
    <3> QED BY <1>1, <2>6, <3>2, <3>3, <3>4, BalanceMoves
  <2> QED BY <2>6, <2>9, <2>10, <2>11 DEF CacheInv, Balances
<1> QED BY <1>2, <1>3 DEF MakeCodeObject

-----------------------------------------------------------------------------
\* The steps of a writer.

\* What a thread that writes the table begins with.
LEMMA WriterHas ==
  ASSUME CacheInv, WriterIsAlone, NEW w \in Workers, worker[w].at = "writing"
  PROVE  /\ Typed /\ worker[w] \in WorkerType /\ worker[w].line \in Int
         /\ worker[w].object \in CodeObjects /\ worker[w].tmp = NoObject
         /\ code_line[worker[w].object] = worker[w].line
         /\ \A v \in Workers : ~ Shifts(v)
         /\ InOrder(entries, count, code_line) /\ count \in Nat /\ Len(entries) = count
         /\ count <= max_count /\ max_count \in Nat
         /\ max_count # 0 => count # 0
         /\ Cells = 1 .. count
         /\ \A o : CellsOf(o) = {i \in 1 .. count : entries[i].object = o}
<1>1. Typed /\ WorkerOK(w) /\ TableOK
  BY DEF CacheInv, WorkersOK
<1>2. /\ worker[w] \in WorkerType /\ worker[w].line \in Int
      /\ worker[w].object \in CodeObjects \cup {NoObject}
  BY <1>1, Fields
<1>3. /\ worker[w].object \in CodeObjects /\ worker[w].tmp = NoObject
      /\ code_line[worker[w].object] = worker[w].line
  BY <1>1, <1>2 DEF WorkerOK, Writing
<1>4. /\ \A v \in Workers : ~ Shifts(v)
      /\ InOrder(entries, count, code_line) /\ count <= max_count
      /\ max_count # 0 => count # 0
  BY <1>1, NobodyShifts DEF Writing, Shifts
<1>5. Len(entries) = count /\ count \in Nat /\ max_count \in Nat
  BY <1>1, <1>4 DEF InOrder, Typed
<1>6. Cells = 1 .. count /\ \A o : CellsOf(o) = {i \in 1 .. count : entries[i].object = o}
  BY <1>1, <1>4, <1>5, CellsAtRest
<1> QED BY <1>1, <1>2, <1>3, <1>4, <1>5, <1>6

LEMMA OrderIsTyped ==
  ASSUME NEW e, NEW n, NEW made, InOrder(e, n, made)
  PROVE  e \in Seq(Cell(CodeObjects \cup {NoObject}))
<1>1. e \in Seq(Cell(CodeObjects))
  BY DEF InOrder
<1>2. Cell(CodeObjects) \subseteq Cell(CodeObjects \cup {NoObject})
  BY DEF Cell
<1>3. PICK m \in Nat : m = Len(e)
  BY <1>1
<1>4. \A i \in 1 .. m : e[i] \in Cell(CodeObjects \cup {NoObject})
  <2>1. \A i \in 1 .. m : e[i] \in Cell(CodeObjects)
    BY <1>1, <1>3
  <2> QED BY <1>2, <2>1
<1>5. DOMAIN e = 1 .. m /\ e = [i \in 1 .. m |-> e[i]]
  BY <1>1, <1>3
<1>6. e \in [1 .. m -> Cell(CodeObjects \cup {NoObject})]
  BY <1>4, <1>5
<1> QED BY <1>6, CellsMakeTable

LEMMA RestAfter ==
  ASSUME Typed', \A w \in Workers : ~ Shifts(w)', Len(entries') = count'
  PROVE  \A o : CellsOf(o)' = {i \in 1 .. count' : entries'[i].object = o}
<1>1. DOMAIN entries' = 1 .. count'
  BY DEF Typed
<1>2. Cells' = 1 .. count'
  BY <1>1 DEF Cells, Shifts
<1> QED BY <1>2 DEF CellsOf

LEMMA FirstEntryStep ==
  ASSUME CacheInv, WriterIsAlone, NEW w \in Workers, FirstEntry(w)
  PROVE  CacheInv'
<1>1. /\ worker[w].at = "writing" /\ Goes(w, "stored") /\ max_count = 0
      /\ entries' = <<[line |-> worker[w].line, object |-> worker[w].object]>>
      /\ count' = 1 /\ max_count' = Chunk /\ UNCHANGED <<refcnt, code_line>>
  BY DEF FirstEntry
<1>2. /\ Typed /\ worker[w].line \in Int /\ worker[w].tmp = NoObject
      /\ code_line[worker[w].object] = worker[w].line
      /\ count = 0
      /\ \A o : CellsOf(o) = {i \in 1 .. count : entries[i].object = o}
  BY <1>1, WriterHas
<1>3. PICK x \in CodeObjects : x = worker[w].object
  BY <1>1, WriterHas
<1>4. PICK l \in Int : l = worker[w].line
  BY <1>2
<1>5. MovesTo(w, "stored", l, x, NoObject, worker[w].pos)
  BY <1>1, <1>2, <1>3, <1>4, GoesTo DEF AtPlaces, Writing
<1>6. entries' = <<[line |-> l, object |-> x]>>
  BY <1>1, <1>3, <1>4
<1>7. InOrder(entries', 1, code_line)
  <2>1. [line |-> l, object |-> x] \in Cell(CodeObjects)
    BY DEF Cell
  <2>2. entries' \in Seq(Cell(CodeObjects)) /\ Len(entries') = 1
    BY <1>6, <2>1
  <2>3. \A i \in 1 .. 1 : entries'[i].object = x /\ entries'[i].line = l
    BY <1>6
  <2> QED BY <1>2, <1>3, <1>4, <2>2, <2>3 DEF InOrder
<1>8. Typed'
  BY <1>1, <1>2, <1>5, <1>7, OrderIsTyped DEF Typed, MovesTo
<1>9. ~ Shifts(w)' /\ WorkerOK(w)'
  <2>1. InSomeCell(x)'
    BY <1>1, <1>6 DEF InSomeCell
  <2> QED BY <1>1, <1>2, <1>3, <1>4, <1>5, <2>1 DEF MovesTo, Shifts, WorkerOK, Writing
<1>10. TableOK' /\ WorkersOK'
  BY <1>1, <1>5, <1>7, <1>9, WriterStores DEF MovesTo, CacheInv, Writing
<1>11. ASSUME NEW o \in CodeObjects PROVE Balanced(o)'
  <2>1. CellsOf(o) = {}
    BY <1>2
  <2>2. CellsOf(o)' = IF o = x THEN {1} ELSE {}
    <3>1. \A v \in Workers : ~ Shifts(v)'
      BY <1>1, <1>5, <1>9, WriterHas DEF MovesTo, OthersStay, Shifts
    <3>2. Len(entries') = count'
      BY <1>1, <1>6
    <3>3. CellsOf(o)' = {i \in 1 .. 1 : entries'[i].object = o}
      BY <1>1, <1>8, <3>1, <3>2, RestAfter
    <3>4. entries'[1].object = x
      BY <1>6
    <3> QED BY <3>3, <3>4
  <2>3. Cardinality(CellsOf(o)') = Cardinality(CellsOf(o)) + Bit(o = x)
    BY <2>1, <2>2, FS_EmptySet, FS_Singleton DEF Bit
  <2>4. refcnt'[o] = refcnt[o] + Held(w, o)' - Held(w, o) + Bit(o = x)
    <3>1. Held(w, o) = Bit(o = x)
      BY <1>1, <1>2, <1>3 DEF Held, Bit, Owns, Took, Owes
    <3>2. Held(w, o)' = 0
      BY <1>5 DEF Held, Bit, Owns, Took, Owes, MovesTo
    <3>3. refcnt[o] \in Int /\ refcnt'[o] = refcnt[o] /\ Bit(o = x) \in Int
      BY <1>1, <1>2 DEF Typed, Bit
    <3> QED BY <3>1, <3>2, <3>3
  <2>5. OthersStay(w) /\ Balanced(o) /\ Bit(o = x) \in Int
    BY <1>5 DEF MovesTo, CacheInv, Balances, Bit
  <2> QED BY <1>2, <1>8, <2>3, <2>4, <2>5, BalanceMoves
<1> QED BY <1>8, <1>10, <1>11 DEF CacheInv, Balances

\* Where the line of a writer is, or belongs.
LEMMA PositionIs ==
  ASSUME CacheInv, WriterIsAlone, NEW w \in Workers, worker[w].at = "writing", max_count # 0,
         NEW p, p = Bisect(entries, count, worker[w].line)
  PROVE  Splits(entries, count, worker[w].line, p) /\ p \in Nat /\ p <= count
<1>1. /\ InOrder(entries, count, code_line) /\ count \in Nat \ {0} /\ worker[w].line \in Int
  BY WriterHas
<1>2. Splits(entries, count, worker[w].line, p)
  BY <1>1, OrderAscends, BisectFinds
<1> QED BY <1>1, <1>2 DEF Splits

LEMMA ReplaceEntryStep ==
  ASSUME CacheInv, WriterIsAlone, NEW w \in Workers, ReplaceEntry(w)
  PROVE  CacheInv'
<1>0. /\ worker[w].at = "writing" /\ max_count # 0
      /\ UNCHANGED <<count, max_count, refcnt, code_line>>
  BY DEF ReplaceEntry
<1>1. PICK p : p = Bisect(entries, count, worker[w].line)
  OBVIOUS
<1>2. /\ HitAt(p, worker[w].line)
      /\ entries' = [entries EXCEPT ![p + 1].object = worker[w].object]
      /\ worker' = [worker EXCEPT ![w].at = "stored", ![w].tmp = entries[p + 1].object]
  BY <1>1 DEF ReplaceEntry
<1>3. /\ Typed /\ worker[w] \in WorkerType /\ worker[w].tmp = NoObject
      /\ InOrder(entries, count, code_line) /\ count \in Nat /\ Len(entries) = count
      /\ code_line[worker[w].object] = worker[w].line /\ count <= max_count /\ count # 0
      /\ \A o : CellsOf(o) = {i \in 1 .. count : entries[i].object = o}
  BY <1>0, WriterHas
<1>4. p \in 0 .. count - 1 /\ LineAt(entries, p) = worker[w].line /\ p + 1 \in 1 .. count
  BY <1>0, <1>1, <1>2, <1>3, PositionIs DEF HitAt
<1>5. PICK x \in CodeObjects : x = worker[w].object
  BY <1>0, WriterHas
<1>6. PICK y \in CodeObjects : y = entries[p + 1].object
  <2>1. entries[p + 1] \in Cell(CodeObjects)
    BY <1>3, <1>4 DEF InOrder
  <2> QED BY <2>1 DEF Cell
<1> DEFINE r == [worker[w] EXCEPT !.at = "stored", !.tmp = y]
<1>7. /\ r \in WorkerType /\ r.at = "stored" /\ r.line = worker[w].line /\ r.object = x
      /\ r.tmp = y /\ r.pos = worker[w].pos
  BY <1>3, <1>5, <1>6 DEF WorkerType, AtPlaces, Writing
<1>8. worker' = [worker EXCEPT ![w] = r]
  BY <1>2, <1>3, <1>6 DEF Typed
<1> HIDE DEF r
<1>9. MovesTo(w, "stored", worker[w].line, x, y, worker[w].pos)
  BY <1>3, <1>7, <1>8, Changed
<1>10. /\ InOrder(entries', count, code_line)
       /\ \A i \in 1 .. count : entries'[i].object = IF i = p + 1 THEN x ELSE entries[i].object
  <2>1. code_line[x] = LineAt(entries, p) /\ entries' = [entries EXCEPT ![p + 1].object = x]
    BY <1>2, <1>3, <1>4, <1>5
  <2>2. entries \in [1 .. count -> Cell(CodeObjects)]
    BY <1>3 DEF InOrder
  <2>3. entries' \in [1 .. count -> Cell(CodeObjects)]
    BY <2>1, <2>2 DEF Cell
  <2>4. \A i \in 1 .. count :
          /\ entries'[i].line = entries[i].line
          /\ entries'[i].object = IF i = p + 1 THEN x ELSE entries[i].object
    BY <1>4, <2>1, <2>2 DEF Cell
  <2>5. PICK d \in [1 .. count -> Cell(CodeObjects)] : d = entries'
    BY <2>3
  <2>6. /\ InOrder(entries, count, code_line) /\ count \in Nat /\ p \in 0 .. count - 1
        /\ code_line[x] = LineAt(entries, p)
        /\ \A i \in 1 .. count : /\ d[i].line = entries[i].line
                                /\ d[i].object = IF i = p + 1 THEN x ELSE entries[i].object
    BY <1>3, <1>4, <2>1, <2>4, <2>5
  <2>7. InOrder(d, count, code_line)
    BY <2>6, Replaced
  <2> QED BY <2>5, <2>6, <2>7
<1>11. Typed'
  BY <1>0, <1>3, <1>9, <1>10, OrderIsTyped DEF Typed, MovesTo
<1>12. ~ Shifts(w)' /\ WorkerOK(w)'
  <2>1. InSomeCell(x)'
    BY <1>0, <1>4, <1>10 DEF InSomeCell
  <2> QED BY <1>0, <1>3, <1>5, <1>9, <2>1 DEF MovesTo, Shifts, WorkerOK, Writing
<1>13. TableOK' /\ WorkersOK'
  BY <1>0, <1>3, <1>9, <1>10, <1>12, WriterStores DEF MovesTo, CacheInv, Writing
<1>14. ASSUME NEW o \in CodeObjects PROVE Balanced(o)'
  <2>1. CellsOf(o) = {i \in 1 .. count : entries[i].object = o} /\ IsFiniteSet(CellsOf(o))
    BY <1>3, CellsFinite
  <2>2. CellsOf(o)' = {i \in 1 .. count : entries'[i].object = o}
    <3>1. \A v \in Workers : ~ Shifts(v)'
      BY <1>0, <1>9, <1>12, WriterHas DEF MovesTo, OthersStay, Shifts
    <3>2. Len(entries') = count'
      BY <1>0, <1>10 DEF InOrder
    <3> QED BY <1>0, <1>11, <3>1, <3>2, RestAfter
  <2>3. CellsOf(o) \ {p + 1} = CellsOf(o)' \ {p + 1}
    BY <1>10, <2>1, <2>2
  <2>4. /\ p + 1 \in CellsOf(o) <=> o = y
        /\ p + 1 \in CellsOf(o)' <=> o = x
    BY <1>4, <1>6, <1>10, <2>1, <2>2
  <2>5. Cardinality(CellsOf(o)') = Cardinality(CellsOf(o)) + (Bit(o = x) - Bit(o = y))
    <3>1. /\ Cardinality(CellsOf(o)) \in Nat
          /\ Cardinality(CellsOf(o)') = Cardinality(CellsOf(o)) + Bit(p + 1 \in CellsOf(o)')
                                           - Bit(p + 1 \in CellsOf(o))
      BY <2>1, <2>3, OneMoves
    <3> QED BY <2>4, <3>1 DEF Bit
  <2>6. refcnt'[o] = refcnt[o] + Held(w, o)' - Held(w, o) + (Bit(o = x) - Bit(o = y))
    <3>1. Held(w, o) = Bit(o = x)
      BY <1>0, <1>3, <1>5 DEF Held, Bit, Owns, Took, Owes
    <3>2. Held(w, o)' = Bit(o = y)
      BY <1>9 DEF Held, Bit, Owns, Took, Owes, MovesTo
    <3>3. /\ refcnt[o] \in Int /\ refcnt'[o] = refcnt[o]
          /\ Bit(o = x) \in Int /\ Bit(o = y) \in Int
      BY <1>0, <1>3 DEF Typed, Bit
    <3> QED BY <3>1, <3>2, <3>3
  <2>7. OthersStay(w) /\ Balanced(o) /\ Bit(o = x) - Bit(o = y) \in Int
    BY <1>9 DEF MovesTo, CacheInv, Balances, Bit
  <2> QED BY <1>3, <1>11, <2>5, <2>6, <2>7, BalanceMoves
<1> QED BY <1>11, <1>13, <1>14 DEF CacheInv, Balances

LEMMA MakeRoomStep ==
  ASSUME CacheInv, WriterIsAlone, NEW w \in Workers, MakeRoom(w)
  PROVE  CacheInv'
<1>0. /\ worker[w].at = "writing" /\ max_count # 0 /\ worker[w].line # 0
      /\ UNCHANGED <<count, refcnt, code_line>>
      /\ max_count' = IF count = max_count THEN max_count + Chunk ELSE max_count
  BY DEF MakeRoom
<1>1. PICK p : p = Bisect(entries, count, worker[w].line)
  OBVIOUS
<1>2. /\ ~ HitAt(p, worker[w].line)
      /\ entries' = MovedUp(entries, count, p)
      /\ worker' = [worker EXCEPT ![w].at = "shifting", ![w].pos = p]
  BY <1>1 DEF MakeRoom, MovedUp
<1>3. /\ Typed /\ worker[w] \in WorkerType /\ worker[w].tmp = NoObject
      /\ InOrder(entries, count, code_line) /\ count \in Nat /\ Len(entries) = count
      /\ code_line[worker[w].object] = worker[w].line /\ count <= max_count /\ count # 0
      /\ max_count \in Nat
      /\ \A v \in Workers : ~ Shifts(v)
      /\ \A o : CellsOf(o) = {i \in 1 .. count : entries[i].object = o}
  BY <1>0, WriterHas
<1>4. /\ Splits(entries, count, worker[w].line, p) /\ p \in Nat /\ p <= count
      /\ ~ (p < count /\ LineAt(entries, p) = worker[w].line)
  BY <1>0, <1>1, <1>2, PositionIs DEF HitAt
<1>5. PICK x \in CodeObjects : x = worker[w].object
  BY <1>0, WriterHas
<1>6. PICK l \in Int : l = worker[w].line
  BY <1>0, WriterHas
<1> DEFINE r == [worker[w] EXCEPT !.at = "shifting", !.pos = p]
<1>7. /\ r \in WorkerType /\ r.at = "shifting" /\ r.line = l /\ r.object = x
      /\ r.tmp = NoObject /\ r.pos = p
  BY <1>3, <1>4, <1>5, <1>6 DEF WorkerType, AtPlaces, Writing
<1>8. worker' = [worker EXCEPT ![w] = r]
  BY <1>2, <1>3 DEF Typed
<1> HIDE DEF r
<1>9. MovesTo(w, "shifting", l, x, NoObject, p)
  BY <1>3, <1>7, <1>8, Changed
<1>10. PICK e : e = entries
  OBVIOUS
<1>11. PICK d : d = entries' /\ d = MovedUp(e, count, p)
  BY <1>2, <1>10
<1>12. /\ d \in Seq(Cell(CodeObjects \cup {NoObject})) /\ Len(d) = count + 1
       /\ InOrder([d EXCEPT ![p + 1] = [line |-> l, object |-> x]], count + 1, code_line)
  <2>1. /\ InOrder(e, count, code_line) /\ count \in Nat /\ code_line[x] = l
        /\ Splits(e, count, l, p) /\ ~ (p < count /\ LineAt(e, p) = l)
    BY <1>3, <1>4, <1>5, <1>6, <1>10
  <2> QED BY <1>11, <2>1, RoomMade
<1>13. max_count' \in Nat /\ count + 1 <= max_count'
  BY <1>0, <1>3
<1>14. Typed'
  BY <1>0, <1>3, <1>9, <1>11, <1>12, <1>13 DEF Typed, MovesTo
<1>15. \A v \in Workers : v # w => ~ Shifts(v)' /\ WorkerOK(v)'
  BY <1>0, <1>9, OthersAway DEF CacheInv, MovesTo, Writing
<1>16. Shifts(w)' /\ WorkerOK(w)'
  BY <1>0, <1>3, <1>5, <1>6, <1>9 DEF MovesTo, Shifts, WorkerOK, Writing
<1>17. WorkersOK'
  BY <1>15, <1>16 DEF WorkersOK
<1>18. TableOK'
  <2>1. Filled(w)' = [d EXCEPT ![p + 1] = [line |-> l, object |-> x]]
    BY <1>9, <1>11 DEF Filled, MovesTo
  <2>2. /\ (worker[w].pos <= count)'
        /\ (count + 1 <= max_count)'
        /\ (Len(entries) = count + 1)'
    BY <1>0, <1>4, <1>9, <1>11, <1>12, <1>13 DEF MovesTo
  <2>3. InOrder(Filled(w), count + 1, code_line)'
    BY <1>0, <1>12, <2>1 DEF InOrder
  <2> QED BY <1>15, <1>16, <2>2, <2>3 DEF TableOK
<1>19. ASSUME NEW o \in CodeObjects PROVE Balanced(o)'
  <2> DEFINE S == CellsOf(o)
             T == CellsOf(o)'
             g == [i \in S |-> IF i <= p THEN i ELSE i + 1]
  <2>1. S = {i \in 1 .. count : entries[i].object = o} /\ IsFiniteSet(S)
    BY <1>3, CellsFinite
  <2>2. T = {i \in (1 .. count + 1) \ {p + 1} : entries'[i].object = o}
    <3>1. DOMAIN entries' = 1 .. count + 1
      BY <1>11, <1>12, <1>3
    <3>2. {v \in Workers : worker'[v].at = "shifting"} = {w}
      BY <1>15, <1>16 DEF Shifts
    <3>3. Cells' = (1 .. count + 1) \ {p + 1}
      BY <1>9, <3>1, <3>2 DEF Cells, MovesTo
    <3> QED BY <3>3 DEF CellsOf
  <2>3. \A i \in (1 .. count + 1) \ {p + 1} :
          entries'[i] = IF i <= p THEN entries[i] ELSE entries[i - 1]
    BY <1>2, <1>3, <1>4 DEF MovedUp
  <2>4. \A i \in S : g[i] \in T
    <3> SUFFICES ASSUME NEW i \in S PROVE g[i] \in T
      OBVIOUS
    <3>1. i \in 1 .. count /\ entries[i].object = o
      BY <2>1
    <3>2. CASE i <= p
      BY <1>3, <1>4, <2>2, <2>3, <3>1, <3>2
    <3>3. CASE i > p
      <4>1. g[i] = i + 1 /\ i + 1 \in (1 .. count + 1) \ {p + 1} /\ ~ (i + 1 <= p)
        BY <1>3, <1>4, <3>1, <3>3
      <4>2. entries'[i + 1] = entries[i]
        BY <2>3, <3>1, <4>1
      <4> QED BY <2>2, <3>1, <4>1, <4>2
    <3> QED BY <1>4, <3>1, <3>2, <3>3
  <2>5. \A a, b \in S : g[a] = g[b] => a = b
    BY <1>4, <2>1
  <2>6. \A t \in T : \E a \in S : g[a] = t
    <3> SUFFICES ASSUME NEW t \in T PROVE \E a \in S : g[a] = t
      OBVIOUS
    <3>1. t \in (1 .. count + 1) \ {p + 1} /\ entries'[t].object = o
      BY <2>2
    <3>2. CASE t <= p
      <4>1. t \in 1 .. count /\ entries'[t] = entries[t]
        BY <1>3, <1>4, <2>3, <3>1, <3>2
      <4>2. t \in S /\ g[t] = t
        BY <2>1, <3>1, <3>2, <4>1
      <4> QED BY <4>2
    <3>3. CASE t > p
      <4>1. t - 1 \in 1 .. count /\ entries'[t] = entries[t - 1] /\ ~ (t - 1 <= p)
        BY <1>3, <1>4, <2>3, <3>1, <3>3
      <4>2. t - 1 \in S
        BY <2>1, <3>1, <4>1
      <4>3. g[t - 1] = t
        BY <3>1, <4>1, <4>2
      <4> QED BY <4>2, <4>3
    <3> QED BY <1>4, <3>1, <3>2, <3>3
  <2>7. g \in [S -> T]
    BY <2>4
  <2> HIDE DEF g
  <2>8. Cardinality(T) = Cardinality(S)
    <3> HIDE DEF S, T
    <3> QED BY <2>1, <2>5, <2>6, <2>7, SameSize
  <2>9. Cardinality(CellsOf(o)') = Cardinality(CellsOf(o)) + 0
    BY <1>3, <2>8, CellsFinite
  <2>10. refcnt'[o] = refcnt[o] + Held(w, o)' - Held(w, o) + 0
    <3>1. Held(w, o) = Bit(o = x)
      BY <1>0, <1>3, <1>5 DEF Held, Bit, Owns, Took, Owes
    <3>2. Held(w, o)' = Bit(o = x)
      BY <1>9 DEF Held, Bit, Owns, Took, Owes, MovesTo
    <3>3. refcnt[o] \in Int /\ refcnt'[o] = refcnt[o] /\ Bit(o = x) \in Int
      BY <1>0, <1>3 DEF Typed, Bit
    <3> QED BY <3>1, <3>2, <3>3
  <2>11. OthersStay(w) /\ Balanced(o)
    BY <1>9 DEF MovesTo, CacheInv, Balances
  <2> QED BY <1>3, <1>14, <2>9, <2>10, <2>11, BalanceMoves
<1> QED BY <1>14, <1>17, <1>18, <1>19 DEF CacheInv, Balances

LEMMA FillEntryStep ==
  ASSUME CacheInv, WriterIsAlone, NEW w \in Workers, FillEntry(w)
  PROVE  CacheInv'
<1>0. /\ worker[w].at = "shifting" /\ count' = count + 1
      /\ entries' = Filled(w)
      /\ worker' = [worker EXCEPT ![w].at = "stored", ![w].pos = 0]
      /\ UNCHANGED <<max_count, refcnt, code_line>>
  BY DEF FillEntry, Filled
<1>1. /\ Typed /\ WorkerOK(w) /\ worker[w] \in WorkerType
      /\ worker[w].object \in CodeObjects \cup {NoObject} /\ worker[w].pos \in Nat
      /\ count \in Nat /\ max_count \in Nat
  BY Fields DEF CacheInv, WorkersOK, Typed
<1>2. /\ worker[w].pos <= count /\ count + 1 <= max_count /\ Len(entries) = count + 1
      /\ InOrder(Filled(w), count + 1, code_line)
  BY <1>0 DEF CacheInv, TableOK, Shifts
<1>3. PICK p \in 0 .. count : p = worker[w].pos
  BY <1>1, <1>2
<1>4. PICK x \in CodeObjects : x = worker[w].object
  BY <1>0, <1>1 DEF WorkerOK, Writing
<1>5. worker[w].tmp = NoObject /\ code_line[x] = worker[w].line
  BY <1>0, <1>1, <1>4 DEF WorkerOK
<1> DEFINE r == [worker[w] EXCEPT !.at = "stored", !.pos = 0]
<1>6. /\ r \in WorkerType /\ r.at = "stored" /\ r.line = worker[w].line /\ r.object = x
      /\ r.tmp = NoObject /\ r.pos = 0
  BY <1>1, <1>4, <1>5 DEF WorkerType, AtPlaces, Writing
<1>7. worker' = [worker EXCEPT ![w] = r]
  BY <1>0, <1>1 DEF Typed
<1> HIDE DEF r
<1>8. MovesTo(w, "stored", worker[w].line, x, NoObject, 0)
  BY <1>1, <1>6, <1>7, Changed
<1>9. DOMAIN entries = 1 .. count + 1
  BY <1>1, <1>2 DEF Typed
<1>10. /\ entries'[p + 1].object = x
       /\ \A i \in (1 .. count + 1) \ {p + 1} : entries'[i] = entries[i]
  <2>1. entries' = [entries EXCEPT ![p + 1] = [line |-> worker[w].line, object |-> x]]
    BY <1>0, <1>3, <1>4 DEF Filled
  <2>2. p + 1 \in DOMAIN entries
    BY <1>1, <1>9
  <2>3. entries'[p + 1] = [line |-> worker[w].line, object |-> x]
    BY <2>1, <2>2
  <2> QED BY <1>9, <2>1, <2>3
<1>11. InOrder(entries', count', code_line) /\ count' <= max_count' /\ count' # 0
  BY <1>0, <1>1, <1>2
<1>12. Typed'
  <2>1. entries' \in Seq(Cell(CodeObjects \cup {NoObject}))
    BY <1>11, OrderIsTyped
  <2> QED BY <1>0, <1>1, <1>8, <2>1 DEF Typed, MovesTo
<1>13. ~ Shifts(w)' /\ WorkerOK(w)'
  <2>1. p + 1 \in 1 .. count'
    BY <1>0, <1>1
  <2>2. InSomeCell(x)'
    BY <1>10, <2>1 DEF InSomeCell
  <2> QED BY <1>0, <1>5, <1>8, <2>2 DEF MovesTo, Shifts, WorkerOK, Writing
<1>14. TableOK' /\ WorkersOK'
  BY <1>0, <1>8, <1>11, <1>13, WriterStores DEF MovesTo, CacheInv, Writing
<1>15. \A v \in Workers : v # w => ~ Shifts(v) /\ ~ Shifts(v)'
  BY <1>0, <1>8, OthersAway DEF CacheInv, MovesTo, Writing
<1>16. ASSUME NEW o \in CodeObjects PROVE Balanced(o)'
  <2>1. /\ CellsOf(o) = {i \in (1 .. count + 1) \ {p + 1} : entries[i].object = o}
        /\ IsFiniteSet(CellsOf(o))
    <3>1. Cells = (1 .. count + 1) \ {p + 1}
      BY <1>0, <1>1, <1>2, <1>3, <1>15, CellsShifted DEF Shifts
    <3> QED BY <1>1, <3>1, CellsFinite DEF CellsOf
  <2>2. CellsOf(o)' = {i \in 1 .. count + 1 : entries'[i].object = o}
    <3>1. \A v \in Workers : ~ Shifts(v)'
      BY <1>13, <1>15
    <3>2. Len(entries') = count'
      BY <1>11 DEF InOrder
    <3> QED BY <1>0, <1>12, <3>1, <3>2, RestAfter
  <2>3. CellsOf(o) \ {p + 1} = CellsOf(o)' \ {p + 1}
    BY <1>10, <2>1, <2>2
  <2>4. /\ p + 1 \notin CellsOf(o)
        /\ p + 1 \in CellsOf(o)' <=> o = x
    BY <1>1, <1>10, <2>1, <2>2
  <2>5. Cardinality(CellsOf(o)') = Cardinality(CellsOf(o)) + Bit(o = x)
    <3>1. /\ Cardinality(CellsOf(o)) \in Nat
          /\ Cardinality(CellsOf(o)') = Cardinality(CellsOf(o)) + Bit(p + 1 \in CellsOf(o)')
                                           - Bit(p + 1 \in CellsOf(o))
      BY <2>1, <2>3, OneMoves
    <3> QED BY <2>4, <3>1 DEF Bit
  <2>6. refcnt'[o] = refcnt[o] + Held(w, o)' - Held(w, o) + Bit(o = x)
    <3>1. Held(w, o) = Bit(o = x)
      BY <1>0, <1>4, <1>5 DEF Held, Bit, Owns, Took, Owes
    <3>2. Held(w, o)' = 0
      BY <1>8 DEF Held, Bit, Owns, Took, Owes, MovesTo
    <3>3. refcnt[o] \in Int /\ refcnt'[o] = refcnt[o] /\ Bit(o = x) \in Int
      BY <1>0, <1>1 DEF Typed, Bit
    <3> QED BY <3>1, <3>2, <3>3
  <2>7. OthersStay(w) /\ Balanced(o) /\ Bit(o = x) \in Int
    BY <1>8 DEF MovesTo, CacheInv, Balances, Bit
  <2> QED BY <1>1, <1>12, <2>5, <2>6, <2>7, BalanceMoves
<1> QED BY <1>12, <1>14, <1>16 DEF CacheInv, Balances

-----------------------------------------------------------------------------
\* While every thread is idle, the balance is between the counts and the cells.
LEMMA IdleBalance ==
  ASSUME NEW o \in CodeObjects, \A v \in Workers : worker[v] = IdleWorker
  PROVE  /\ Cardinality({v \in Workers : Owes(v, o)}) = 0
         /\ Cardinality({v \in Workers : Owns(v, o)}) = 0
         /\ Cardinality({v \in Workers : Took(v, o)}) = 0
<1>1. /\ {v \in Workers : Owes(v, o)} = {} /\ {v \in Workers : Owns(v, o)} = {}
      /\ {v \in Workers : Took(v, o)} = {}
  BY DEF Owes, Owns, Took, IdleWorker
<1> QED BY <1>1, FS_EmptySet

LEMMA EmptyTable ==
  ASSUME NEW made
  PROVE  InOrder(<<>>, 0, made) /\ <<>> \in Seq(Cell(CodeObjects \cup {NoObject}))
BY DEF InOrder

LEMMA CleanUpStep == ASSUME CacheInv, CleanUpCache PROVE CacheInv'
<1>1. /\ \A v \in Workers : worker[v].at = "idle"
      /\ refcnt' = [o \in CodeObjects |-> refcnt[o] - Holding(o)]
      /\ entries' = <<>> /\ count' = 0 /\ max_count' = 0
      /\ code_line' = code_line /\ worker' = worker
  BY DEF CleanUpCache
<1>2. \A v \in Workers : worker[v] = IdleWorker /\ ~ Shifts(v)
  BY <1>1 DEF CacheInv, WorkersOK, WorkerOK, Shifts
<1>3. Typed /\ InOrder(entries, count, code_line) /\ Len(entries) = count /\ count \in Nat
  BY <1>2 DEF CacheInv, TableOK, InOrder, Typed
<1>4. \A o : CellsOf(o) = {i \in 1 .. count : entries[i].object = o}
  BY <1>2, <1>3, CellsAtRest
<1>5. \A o \in CodeObjects : Holding(o) \in Nat /\ refcnt[o] = Holding(o)
  <2> SUFFICES ASSUME NEW o \in CodeObjects PROVE Holding(o) \in Nat /\ refcnt[o] = Holding(o)
    OBVIOUS
  <2>1. Holding(o) = Cardinality(CellsOf(o)) /\ Cardinality(CellsOf(o)) \in Nat
    BY <1>3, <1>4, CellsFinite DEF Holding
  <2>2. refcnt[o] + 0 = 0 + 0 + Cardinality(CellsOf(o)) /\ refcnt[o] \in Int
    BY <1>2, <1>3, IdleBalance DEF CacheInv, Balances, Balanced, Typed
  <2> QED BY <2>1, <2>2
<1>6. \A o \in CodeObjects : refcnt'[o] = 0
  BY <1>1, <1>5
<1>7. Typed'
  <2>1. refcnt' \in [CodeObjects -> Int]
    BY <1>1, <1>5
  <2>2. entries' \in Seq(Cell(CodeObjects \cup {NoObject}))
    BY <1>1, EmptyTable
  <2> QED BY <1>1, <1>3, <2>1, <2>2 DEF Typed
<1>8. TableOK'
  <2>1. InOrder(entries, count, code_line)'
    BY <1>1, EmptyTable DEF InOrder
  <2> QED BY <1>1, <1>2, <2>1 DEF TableOK, Shifts
<1>9. WorkersOK'
  BY <1>1, <1>2 DEF WorkersOK, WorkerOK, IdleWorker, Writing
<1>10. ASSUME NEW o \in CodeObjects PROVE Balanced(o)'
  <2>1. CellsOf(o)' = {}
    BY <1>1 DEF CellsOf, Cells
  <2>2. /\ Cardinality({v \in Workers : Owes(v, o)}) = 0
        /\ Cardinality({v \in Workers : Owns(v, o)}) = 0
        /\ Cardinality({v \in Workers : Took(v, o)}) = 0
    BY <1>2, IdleBalance
  <2>3. /\ \A v \in Workers : Owes(v, o)' <=> Owes(v, o)
        /\ \A v \in Workers : Owns(v, o)' <=> Owns(v, o)
        /\ \A v \in Workers : Took(v, o)' <=> Took(v, o)
    BY <1>1 DEF Owes, Owns, Took
  <2>4. /\ {v \in Workers : Owes(v, o)'} = {v \in Workers : Owes(v, o)}
        /\ {v \in Workers : Owns(v, o)'} = {v \in Workers : Owns(v, o)}
        /\ {v \in Workers : Took(v, o)'} = {v \in Workers : Took(v, o)}
    BY <2>3
  <2>5. 0 + 0 = 0 + 0 + 0
    OBVIOUS
  <2> QED BY <1>6, <2>1, <2>2, <2>4, FS_EmptySet DEF Balanced
<1> QED BY <1>7, <1>8, <1>9, <1>10 DEF CacheInv, Balances

LEMMA CacheInit == CodeInit => CacheInv
<1> SUFFICES ASSUME CodeInit PROVE CacheInv
  OBVIOUS
<1>1. /\ \A v \in Workers : worker[v] = IdleWorker /\ ~ Shifts(v)
      /\ entries = <<>> /\ count = 0 /\ max_count = 0
      /\ \A o \in CodeObjects : refcnt[o] = 0
  BY DEF CodeInit, Shifts, IdleWorker
<1>2. Typed
  <2>1. IdleWorker \in WorkerType
    BY DEF IdleWorker, WorkerType, AtPlaces
  <2> QED BY <2>1, EmptyTable DEF CodeInit, Typed
<1>3. TableOK
  BY <1>1, EmptyTable DEF TableOK
<1>4. WorkersOK
  BY <1>1 DEF WorkersOK, WorkerOK, IdleWorker, Writing
<1>5. ASSUME NEW o \in CodeObjects PROVE Balanced(o)
  <2>1. CellsOf(o) = {}
    BY <1>1 DEF CellsOf, Cells
  <2> QED BY <1>1, <2>1, IdleBalance, FS_EmptySet DEF Balanced
<1> QED BY <1>2, <1>3, <1>4, <1>5 DEF CacheInv, Balances

LEMMA CacheSame == ASSUME CacheInv, UNCHANGED codeVars PROVE CacheInv'
<1>1. UNCHANGED <<entries, count, max_count, refcnt, code_line, worker>>
  BY DEF codeVars, tableVars
<1>2. Typed' /\ TableOK' /\ WorkersOK'
  BY <1>1 DEF CacheInv, Typed, TableOK, WorkersOK, WorkerOK, InOrder, Shifts, Filled, InSomeCell
<1>3. ASSUME NEW o \in CodeObjects PROVE Balanced(o)'
  <2>1. /\ \A v \in Workers : Owes(v, o)' <=> Owes(v, o)
        /\ \A v \in Workers : Owns(v, o)' <=> Owns(v, o)
        /\ \A v \in Workers : Took(v, o)' <=> Took(v, o)
    BY <1>1 DEF Owes, Owns, Took
  <2>2. /\ {v \in Workers : Owes(v, o)'} = {v \in Workers : Owes(v, o)}
        /\ {v \in Workers : Owns(v, o)'} = {v \in Workers : Owns(v, o)}
        /\ {v \in Workers : Took(v, o)'} = {v \in Workers : Took(v, o)}
    BY <2>1
  <2>3. CellsOf(o)' = CellsOf(o)
    BY <1>1 DEF CellsOf, Cells
  <2>4. Balanced(o) /\ refcnt'[o] = refcnt[o]
    BY <1>1 DEF CacheInv, Balances
  <2> QED BY <2>2, <2>3, <2>4 DEF Balanced
<1> QED BY <1>2, <1>3 DEF CacheInv, Balances

LEMMA CacheNext == CacheInv /\ CounterInv /\ [CodeNext]_codeVars => CacheInv'
<1> SUFFICES ASSUME CacheInv, CounterInv, [CodeNext]_codeVars PROVE CacheInv'
  OBVIOUS
<1>0. WriterIsAlone
  BY DEF CounterInv
<1>1. CASE CleanUpCache
  BY <1>1, CleanUpStep
<1>2. ASSUME NEW w \in Workers, WorkerStep(w) PROVE CacheInv'
  BY <1>0, <1>2, AddTracebackStep, GoingSteps, LocateStep, CountingSteps, MakeCodeObjectStep,
     FirstEntryStep, ReplaceEntryStep, MakeRoomStep, FillEntryStep DEF WorkerStep
<1>3. CASE UNCHANGED codeVars
  BY <1>3, CacheSame
<1> QED BY <1>1, <1>2, <1>3 DEF CodeNext

LEMMA CacheInductive == CodeSpec => []CacheInv
<1>1. CodeSpec => []CounterInv
  BY CounterInductive
<1> QED BY <1>1, CacheInit, CacheNext, PTL DEF CodeSpec

-----------------------------------------------------------------------------
\* However many threads add tracebacks, the counter is the number of those
\* inside __pyx__find_code_object and __pyx__insert_code_object, less INT_MIN
\* while one of them writes.
THEOREM CounterCorrect == CodeSpec => []CounterIsAccessors
<1>1. CounterInv => CounterIsAccessors
  BY DEF CounterInv
<1> QED BY <1>1, CounterInductive, PTL

\* However many threads add tracebacks, none of them reads or writes the table
\* of code objects while another one writes it.
THEOREM MutualExclusion == CodeSpec => []WriterIsAlone
<1>1. CounterInv => WriterIsAlone
  BY DEF CounterInv
<1> QED BY <1>1, CounterInductive, PTL

\* Whenever no thread writes the table, its lines ascend strictly and each entry
\* is for an object made for its line; and __pyx__find_code_object and
\* __pyx__insert_code_object leave a thread with an object for its own line.
THEOREM CacheCorrect == CodeSpec => []CacheIsRight
<1>1. CacheInv => CacheIsRight
  <2> SUFFICES ASSUME CacheInv PROVE CacheIsRight
    OBVIOUS
  <2>1. ASSUME Writers = {}
        PROVE  /\ count = Len(entries) /\ count <= max_count
               /\ \A i, j \in 1 .. count : i < j => entries[i].line < entries[j].line
               /\ \A i \in 1 .. count : code_line[entries[i].object] = entries[i].line
    <3>1. \A v \in Workers : ~ Shifts(v)
      BY <2>1 DEF Writers, Writing, Shifts
    <3> QED BY <3>1 DEF CacheInv, TableOK, InOrder
  <2>2. \A w \in Workers :
          worker[w].object # NoObject => code_line[worker[w].object] = worker[w].line
    BY DEF CacheInv, WorkersOK, WorkerOK
  <2> QED BY <2>1, <2>2 DEF CacheIsRight
<1> QED BY <1>1, CacheInductive, PTL

\* Every code object has exactly the references that the table and the threads
\* own, and none that a thread holds is freed: the stores, the exchanges and the
\* failures of __pyx__insert_code_object neither leak nor free one too early.
THEOREM ReferencesCorrect == CodeSpec => []CodeReferencesMatch
<1>1. CacheInv /\ CounterInv => CodeReferencesMatch
  <2> SUFFICES ASSUME CacheInv, CounterInv PROVE CodeReferencesMatch
    OBVIOUS
  <2>1. ASSUME NEW o \in CodeObjects
        PROVE  refcnt[o] + Cardinality({w \in Workers : Owes(w, o)}) =
                  Cardinality({w \in Workers : Owns(w, o)})
                     + Cardinality({w \in Workers : Took(w, o)}) + Cardinality(CellsOf(o))
    BY DEF CacheInv, Balances, Balanced
  <2>2. ASSUME NEW w \in Workers, worker[w].object # NoObject
        PROVE  refcnt[worker[w].object] > 0
    <3>1. PICK o \in CodeObjects : o = worker[w].object
      BY <2>2, Fields DEF CacheInv
    <3>2. refcnt[o] \in Int
      BY DEF CacheInv, Typed
    <3>3. refcnt[o] >= 0 /\ refcnt[o] # 0
      <4> DEFINE A == {v \in Workers : Owes(v, o)}
                 B == {v \in Workers : Owns(v, o)}
                 C == {v \in Workers : Took(v, o)}
      <4>1. refcnt[o] # 0
        BY <3>1, FreedIsUnused DEF CounterInv
      <4>2. A \subseteq B
        BY DEF Owes, Owns
      <4>3. /\ IsFiniteSet(B) /\ Cardinality(A) \in Nat /\ Cardinality(B) \in Nat
            /\ Cardinality(C) \in Nat /\ Cardinality(CellsOf(o)) \in Nat
        BY SomeThreads, CellsFinite DEF CacheInv
      <4>4. refcnt[o] + Cardinality(A) =
              Cardinality(B) + Cardinality(C) + Cardinality(CellsOf(o))
        BY <2>1
      <4> HIDE DEF A, B, C
      <4>5. Cardinality(A) <= Cardinality(B)
        BY <4>2, <4>3, FS_Subset
      <4> QED BY <3>2, <4>1, <4>3, <4>4, <4>5
    <3> QED BY <3>1, <3>2, <3>3
  <2> QED BY <2>1, <2>2 DEF CodeReferencesMatch, Owes, Owns, Took, CellsOf
<1> QED BY <1>1, CacheInductive, CounterInductive, PTL

LEMMA CodeTypes == CodeSpec => []CodeTypeOK
<1>1. CacheInv /\ CounterInv => CodeTypeOK
  <2> SUFFICES ASSUME CacheInv, CounterInv PROVE CodeTypeOK
    OBVIOUS
  <2>1. accessor_count \in INT_MIN .. Cardinality(Workers)
    <3>1. accessor_count = Cardinality(InTable) + (IF Writers = {} THEN 0 ELSE INT_MIN)
      BY DEF CounterInv, CounterIsAccessors
    <3> QED BY <3>1, ThreadsInside
  <2> QED BY <2>1 DEF CacheInv, Typed, CodeTypeOK, Cell
<1> QED BY <1>1, CacheInductive, CounterInductive, PTL

\* The variables of the cache and of the memoryviews keep their types; the
\* counter of the cache stays between INT_MIN and the number of threads.
THEOREM SharedTypes == Spec => []SharedTypeOK
<1>1. Init => CodeInit /\ ViewInit
  BY DEF Init
<1>2. [Next]_<<system, codeVars, viewVars>> => [CodeNext]_codeVars /\ [ViewNext]_viewVars
  BY DEF Next
<1>3. CodeTypeOK /\ ViewTypeOK => SharedTypeOK
  BY DEF SharedTypeOK
<1>4. Spec => CodeSpec /\ ViewSpec
  BY <1>1, <1>2, PTL DEF Spec, CodeSpec, ViewSpec
<1> QED BY <1>3, <1>4, CodeTypes, TypeCorrect, PTL
=============================================================================
