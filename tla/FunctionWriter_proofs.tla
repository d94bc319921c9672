----------------------- MODULE FunctionWriter_proofs -----------------------
(***************************************************************************)
(* Proofs that the bookkeeping of the HPy function writer is true of every *)
(* execution of the code it emits, for any function of the sound shapes:   *)
(* any names, arguments, nesting and number of temporaries.                *)
(***************************************************************************)
EXTENDS FunctionWriter, WellFoundedInduction, SequenceTheorems, TLAPS

\* What WriterAssumption says of the constants, one fact at a time.
LEMMA Constants ==
  /\ MaxTemps \in Nat /\ MaxDepth \in Nat
  /\ Args \subseteq Names /\ Tracked \in BOOLEAN
  /\ None \notin Nat /\ None \notin Names
BY WriterAssumption

-----------------------------------------------------------------------------
(* The least and the greatest of some numbers.                             *)

Below == {p \in Nat \X Nat : p[1] < p[2]}

\* A nonempty set of naturals has a least element: the order is well founded.
LEMMA LeastNumber ==
  ASSUME NEW S \in SUBSET Nat, S # {}
  PROVE  \E n \in S : \A m \in S : n <= m
<1>1. IsWellFoundedOn(Below, Nat)
  BY NatLessThanWellFounded DEF OpToRel, Below
<1>2. PICK n \in S : \A m \in S : ~ (<<m, n>> \in Below)
  BY <1>1, WFMin
<1>3. \A m \in S : ~ (m < n)
  <2> TAKE m \in S
  <2>1. <<m, n>> \in Nat \X Nat /\ <<m, n>>[1] = m /\ <<m, n>>[2] = n
    OBVIOUS
  <2> QED BY <1>2, <2>1 DEF Below
<1> QED BY <1>3

LEMMA MinOf ==
  ASSUME NEW S \in SUBSET Nat, S # {}
  PROVE  Min(S) \in S
BY LeastNumber DEF Min

LEMMA MaxOf ==
  ASSUME NEW n \in Nat, NEW S \in SUBSET (0 .. n), S # {}
  PROVE  Max(S) \in S /\ \A m \in S : m <= Max(S)
<1> DEFINE T == {n - m : m \in S}
<1>0. \A m \in S : n - m \in Nat
  OBVIOUS
<1>1. T \in SUBSET Nat /\ T # {}
  BY <1>0
<1>2. PICK k \in T : \A l \in T : k <= l
  BY <1>1, LeastNumber
<1>3. PICK m \in S : k = n - m
  OBVIOUS
<1>4. \A l \in S : m >= l
  <2> TAKE l \in S
  <2>1. n - l \in T
    OBVIOUS
  <2>2. n - m <= n - l
    BY <1>2, <1>3, <2>1
  <2> QED BY <2>2
<1>5. m \in S /\ \A l \in S : m >= l
  BY <1>4
<1>6. Max(S) \in S /\ \A l \in S : Max(S) >= l
  BY <1>5 DEF Max
<1> QED BY <1>6

-----------------------------------------------------------------------------
(* The invariant.  Its parts are stated of a writer w, a stack of frames   *)
(* fs and a statement s, so that the lemmas about them need no primes.     *)

WriterType == [live : SUBSET Temps, locals : [Names -> Temps \cup {None}],
               stable : SUBSET Names, borrowed : SUBSET Names,
               builder : BOOLEAN, tracker : BOOLEAN]

FrameType == [kind : {"if", "returningIf", "loop", "try", "handler"},
              at : {"head", "body", "else"}, names : SUBSET Names,
              snap : WriterType, head : WriterType, target : Names \cup {None},
              seq : Temps \cup {None}, els : {"none", "falls", "exits"}]

\* The temporaries that hold names, and those in which the loops up to frame i
\* keep their sequences.
Slots(w)    == {w.locals[x] : x \in Names} \ {None}
Seqs(fs, i) == {fs[j].seq : j \in 1 .. i} \ {None}

\* What is live holds a name or is one of the others, and no temporary has two
\* of these uses.
Owns(w, others) ==
  /\ w.live = Slots(w) \cup others
  /\ Slots(w) \cap others = {}
  /\ \A x, y \in Names : w.locals[x] = w.locals[y] /\ w.locals[x] # None => x = y
  /\ \A x \in w.stable : w.locals[x] # None
  /\ w.borrowed = Args /\ w.tracker = Tracked

\* w holds every name that s holds in the same way.
Agree(s, w) ==
  /\ s.stable \subseteq w.stable
  /\ \A x \in Names : IsInitialized(s, x) => w.locals[x] = s.locals[x]
Same(s, w) == s.locals = w.locals /\ s.stable = w.stable

\* The frames whose snapshot is still to be restored, and those inside which no
\* name changes hands.
IsSaved(f) == f.kind \in {"if", "loop", "try"}
IsExact(f) == f.kind = "if" \/ (f.kind = "loop" /\ f.at \in {"head", "else"})

\* Frame f as the i-th, with the sequences in outer kept by those below it.
FrameOK(f, outer) ==
  /\ Owns(f.snap, outer \cup ({f.seq} \ {None}))
  /\ f.head = f.snap /\ f.snap.builder = FALSE
  /\ f.names \subseteq f.snap.stable
  /\ f.target \in f.names \cup {None}
  /\ f.seq # None => /\ f.kind = "loop" /\ f.at # "else"
                     /\ f.target # None /\ f.seq \notin outer
  /\ f.at = "head" => f.kind \in {"loop", "handler"}
  /\ f.els # "exits"

Tries(fs) == {i \in DOMAIN fs : fs[i].kind \in {"try", "handler"}}

Stacked(fs) ==
  /\ fs \in Seq(FrameType)
  /\ \A i \in DOMAIN fs : FrameOK(fs[i], Seqs(fs, i - 1))
  /\ \A i \in DOMAIN fs : fs[i].at = "head" => i = Len(fs)
  /\ \A i, j \in Tries(fs) : i = j
  /\ \A i, j \in DOMAIN fs : i < j /\ IsSaved(fs[i]) => Agree(fs[i].snap, fs[j].snap)
  /\ \A i, j \in DOMAIN fs : j = i + 1 /\ IsExact(fs[i]) => Same(fs[i].snap, fs[j].snap)

\* The writer inside these frames.
Inside(fs, w) ==
  /\ \A i \in DOMAIN fs : IsSaved(fs[i]) => Agree(fs[i].snap, w)
  /\ fs # <<>> /\ IsExact(fs[Len(fs)]) => Same(fs[Len(fs)].snap, w)

AllSeqs(fs) == Seqs(fs, Len(fs))
Distinct(ops) == \A i, j \in DOMAIN ops : i # j => ops[i] # ops[j]

\* What is being evaluated, and for which purpose.
Nothing == [goal |-> "none", name |-> None, operands |-> <<>>,
            pending |-> {}, names |-> {}, els |-> "none"]

StatementOK(w, fs, s) ==
  /\ s.operands \in Seq(Temps) /\ Distinct(s.operands)
  /\ s.goal = "none" => s = Nothing /\ ~w.builder
  /\ s.els # "exits"
  /\ s.goal \in {"if", "while", "for"} => s.names \subseteq w.stable \cup s.pending
  /\ s.goal \in {"while", "delete"} => s.operands = <<>> /\ ~w.builder
  /\ s.goal = "delete" => s.name \in Names /\ s.name \in s.pending \cup w.stable
  /\ s.goal = "assign" => s.name \in Names
  /\ s.goal = "for" => s.name \in s.names
  /\ s.goal = "returningIf" => s.names = {}
  /\ s.goal \in {"if", "returningIf", "while", "for"} => Len(fs) < MaxDepth
  /\ s.goal = "condition" => /\ fs # <<>>
                             /\ LET f == fs[Len(fs)]
                                IN  f.kind = "loop" /\ f.at = "head" /\ f.seq = None
  /\ s.goal \notin {"none", "condition"} /\ fs # <<>> => fs[Len(fs)].at # "head"

Books(w, fs, s) ==
  /\ Stacked(fs) /\ Inside(fs, w)
  /\ Owns(w, AllSeqs(fs) \cup Range(s.operands))
  /\ AllSeqs(fs) \cap Range(s.operands) = {}
  /\ StatementOK(w, fs, s)

\* The live variables L hold the open handles, each one of its own, or HPy_NULL.
Match(L, c, o) ==
  /\ o = {c[t] : t \in L} \ {Null}
  /\ \A t, u \in L : t # u /\ c[t] = c[u] => c[t] = Null

\* What the names hold is what they are bound to.
Bindings(w, c, b, orig) ==
  \A x \in Names :
    /\ w.locals[x] # None => b[x] = c[w.locals[x]]
    /\ w.locals[x] = None /\ x \in w.borrowed => x \in orig /\ b[x] = Caller
    /\ ~IsInitialized(w, x) => b[x] = Null

Running ==
  /\ Books(writer, frames, stmt)
  /\ Match(writer.live, cvar, open) /\ Bindings(writer, cvar, bound, original)
  /\ builderOpen = writer.builder /\ trackerOpen = writer.tracker
  /\ result = Null

IInv == /\ TypeOK
        /\ status = "running" => Running
        /\ status # "running" => Idle
        /\ ExitReleasesEverything
        /\ NoDanglingUse /\ (Lanes = {} => ReadsAreCurrent)

\* The programs whose names are promoted wherever they are rebound.
SoundShapes == Lanes \subseteq {"staleArgument"}

-----------------------------------------------------------------------------
(* Stacks of frames.                                                       *)

LEMMA WriterTypes ==
  ASSUME NEW w
  PROVE  IsWriter(w) <=> w \in WriterType
BY DEF IsWriter, WriterType

LEMMA NoSeqs == ASSUME NEW fs PROVE Seqs(fs, 0) = {}
BY DEF Seqs

LEMMA SeqsStep ==
  ASSUME NEW fs, NEW i \in Nat \ {0}
  PROVE  Seqs(fs, i) = Seqs(fs, i - 1) \cup ({fs[i].seq} \ {None})
<1>1. 1 .. i = (1 .. i - 1) \cup {i}
  OBVIOUS
<1> QED BY <1>1 DEF Seqs

LEMMA SeqsSame ==
  ASSUME NEW fs, NEW gs, NEW i \in Nat, \A j \in 1 .. i : fs[j].seq = gs[j].seq
  PROVE  Seqs(fs, i) = Seqs(gs, i)
BY DEF Seqs

LEMMA FrameTypes ==
  ASSUME NEW fs, Stacked(fs)
  PROVE  /\ Len(fs) \in Nat /\ DOMAIN fs = 1 .. Len(fs)
         /\ \A i \in DOMAIN fs : fs[i] \in FrameType /\ fs[i].snap \in WriterType
         /\ fs # <<>> => Len(fs) \in DOMAIN fs
         /\ fs # <<>> => AllSeqs(fs) = Seqs(fs, Len(fs) - 1) \cup ({fs[Len(fs)].seq} \ {None})
<1>1. fs \in Seq(FrameType)
  BY DEF Stacked
<1>2. Len(fs) \in Nat /\ DOMAIN fs = 1 .. Len(fs) /\ \A i \in DOMAIN fs : fs[i] \in FrameType
  BY <1>1
<1>3. \A f \in FrameType : f.snap \in WriterType
  BY DEF FrameType
<1>4. fs # <<>> => Len(fs) > 0
  BY <1>1
<1>5. fs # <<>> => AllSeqs(fs) = Seqs(fs, Len(fs) - 1) \cup ({fs[Len(fs)].seq} \ {None})
  BY <1>2, <1>4, SeqsStep DEF AllSeqs
<1> QED BY <1>2, <1>3, <1>4, <1>5

\* A construct is opened.
LEMMA PushFrame ==
  ASSUME NEW fs, NEW w, NEW f \in FrameType,
         Stacked(fs), Inside(fs, w), FrameOK(f, AllSeqs(fs)), Same(f.snap, w),
         fs # <<>> => fs[Len(fs)].at # "head",
         f.kind \in {"try", "handler"} => Tries(fs) = {}
  PROVE  /\ Stacked(Append(fs, f)) /\ Inside(Append(fs, f), w)
         /\ AllSeqs(Append(fs, f)) = AllSeqs(fs) \cup ({f.seq} \ {None})
         /\ Append(fs, f) # <<>> /\ Len(Append(fs, f)) = Len(fs) + 1
         /\ Append(fs, f)[Len(Append(fs, f))] = f
<1> DEFINE n  == Len(fs)
           gs == Append(fs, f)
<1>1. n \in Nat /\ DOMAIN fs = 1 .. n
  BY FrameTypes
<1>2. /\ gs \in Seq(FrameType) /\ Len(gs) = n + 1 /\ DOMAIN gs = 1 .. n + 1
      /\ gs[n + 1] = f /\ \A i \in 1 .. n : gs[i] = fs[i]
  BY DEF Stacked
<1> HIDE DEF gs
<1>3. \A i \in 0 .. n : Seqs(gs, i) = Seqs(fs, i)
  BY <1>1, <1>2, SeqsSame
<1>4. Seqs(gs, n + 1) = Seqs(fs, n) \cup ({f.seq} \ {None})
  BY <1>1, <1>2, <1>3, SeqsStep
<1>5. \A i \in DOMAIN gs : FrameOK(gs[i], Seqs(gs, i - 1))
  <2> TAKE i \in DOMAIN gs
  <2>1. CASE i \in 1 .. n
    BY <2>1, <1>1, <1>2, <1>3 DEF Stacked
  <2>2. CASE i = n + 1
    BY <2>2, <1>1, <1>2, <1>3 DEF AllSeqs
  <2> QED BY <2>1, <2>2, <1>1, <1>2
<1>6. \A i \in DOMAIN gs : gs[i].at = "head" => i = Len(gs)
  <2> SUFFICES ASSUME NEW i \in 1 .. n, gs[i].at = "head" PROVE FALSE
    BY <1>1, <1>2
  <2>1. fs[i].at = "head" /\ i \in DOMAIN fs
    BY <1>1, <1>2
  <2>2. i = n /\ fs # <<>>
    BY <2>1, <1>1 DEF Stacked
  <2> QED BY <2>1, <2>2
<1>7. \A i, j \in Tries(gs) : i = j
  <2>1. \A i \in 1 .. n : i \in Tries(gs) <=> i \in Tries(fs)
    BY <1>1, <1>2 DEF Tries
  <2>2. n + 1 \in Tries(gs) => Tries(fs) = {}
    BY <1>2 DEF Tries
  <2>3. \A i, j \in Tries(fs) : i = j
    BY DEF Stacked
  <2>4. \A i \in Tries(gs) : i \in 1 .. n \/ i = n + 1
    BY <1>1, <1>2 DEF Tries
  <2> QED BY <2>1, <2>2, <2>3, <2>4
<1>8. \A i \in 1 .. n : IsSaved(fs[i]) => Agree(fs[i].snap, f.snap)
  BY <1>1 DEF Inside, Same, Agree
<1>9. \A i, j \in DOMAIN gs : i < j /\ IsSaved(gs[i]) => Agree(gs[i].snap, gs[j].snap)
  <2> SUFFICES ASSUME NEW i \in DOMAIN gs, NEW j \in DOMAIN gs, i < j, IsSaved(gs[i])
               PROVE  Agree(gs[i].snap, gs[j].snap)
    OBVIOUS
  <2>1. i \in 1 .. n /\ gs[i] = fs[i]
    BY <1>1, <1>2
  <2>2. CASE j = n + 1
    BY <2>1, <2>2, <1>2, <1>8
  <2>3. CASE j \in 1 .. n
    BY <2>1, <2>3, <1>1, <1>2 DEF Stacked
  <2> QED BY <2>2, <2>3, <1>1, <1>2
<1>10. \A i, j \in DOMAIN gs : j = i + 1 /\ IsExact(gs[i]) => Same(gs[i].snap, gs[j].snap)
  <2> SUFFICES ASSUME NEW i \in DOMAIN gs, i + 1 \in DOMAIN gs, IsExact(gs[i])
               PROVE  Same(gs[i].snap, gs[i + 1].snap)
    OBVIOUS
  <2>1. i \in 1 .. n /\ gs[i] = fs[i]
    BY <1>1, <1>2
  <2>2. CASE i = n
    <3>1. fs # <<>>
      BY <2>2, <2>1, <1>1
    <3>2. Same(fs[n].snap, w)
      BY <3>1, <2>1, <2>2 DEF Inside
    <3> QED BY <2>1, <2>2, <1>2, <3>2 DEF Same
  <2>3. CASE i # n
    <3>1. i + 1 \in DOMAIN fs /\ i \in DOMAIN fs /\ gs[i + 1] = fs[i + 1]
      BY <2>1, <2>3, <1>1, <1>2
    <3> QED BY <2>1, <3>1 DEF Stacked
  <2> QED BY <2>2, <2>3
<1>11. Stacked(gs)
  BY <1>2, <1>5, <1>6, <1>7, <1>9, <1>10 DEF Stacked
<1>12. Agree(f.snap, w)
  BY DEF Same, Agree
<1>13. gs # <<>>
  BY <1>1, <1>2
<1>14. Inside(gs, w)
  BY <1>1, <1>2, <1>12 DEF Inside
<1> QED BY <1>1, <1>2, <1>4, <1>11, <1>13, <1>14 DEF gs, AllSeqs

\* What is inside a construct is left: the bookkeeping from before the k-th is
\* right for the frames below it.
LEMMA CutFrames ==
  ASSUME NEW fs, Stacked(fs), NEW k \in DOMAIN fs
  PROVE  /\ Stacked(SubSeq(fs, 1, k - 1)) /\ Len(SubSeq(fs, 1, k - 1)) = k - 1
         /\ Inside(SubSeq(fs, 1, k - 1), fs[k].snap)
         /\ AllSeqs(SubSeq(fs, 1, k - 1)) = Seqs(fs, k - 1)
         /\ \A i \in 1 .. k - 1 : SubSeq(fs, 1, k - 1)[i] = fs[i] /\ fs[i].at # "head"
<1> DEFINE gs == SubSeq(fs, 1, k - 1)
<1>1. Len(fs) \in Nat /\ DOMAIN fs = 1 .. Len(fs) /\ k \in Nat /\ 0 < k /\ k <= Len(fs)
  BY FrameTypes
<1>2. /\ gs \in Seq(FrameType) /\ Len(gs) = k - 1 /\ DOMAIN gs = 1 .. k - 1
      /\ \A i \in 1 .. k - 1 : gs[i] = fs[i]
  BY <1>1, SubSeqProperties DEF Stacked
<1> HIDE DEF gs
<1>3. \A i \in 1 .. k - 1 : i \in DOMAIN fs /\ i < k /\ i # Len(fs)
  <2> TAKE i \in 1 .. k - 1
  <2>1. i \in DOMAIN fs /\ i < k /\ i < Len(fs)
    BY <1>1
  <2> QED BY <2>1, <1>1
<1>4. \A i \in 0 .. k - 1 : Seqs(gs, i) = Seqs(fs, i)
  <2> TAKE i \in 0 .. k - 1
  <2>1. i \in Nat /\ \A j \in 1 .. i : gs[j] = fs[j]
    BY <1>1, <1>2
  <2> QED BY <2>1, SeqsSame
<1>5. \A i \in DOMAIN gs : FrameOK(gs[i], Seqs(gs, i - 1))
  <2> TAKE i \in DOMAIN gs
  <2>1. i \in 1 .. k - 1 /\ i - 1 \in 0 .. k - 1
    BY <1>1, <1>2
  <2> QED BY <2>1, <1>2, <1>3, <1>4 DEF Stacked
<1>6. \A i \in 1 .. k - 1 : fs[i].at # "head"
  BY <1>3 DEF Stacked
<1>7. \A i, j \in Tries(gs) : i = j
  BY <1>2, <1>3 DEF Stacked, Tries
<1>8. \A i, j \in DOMAIN gs : i < j /\ IsSaved(gs[i]) => Agree(gs[i].snap, gs[j].snap)
  BY <1>2, <1>3 DEF Stacked
<1>9. \A i, j \in DOMAIN gs : j = i + 1 /\ IsExact(gs[i]) => Same(gs[i].snap, gs[j].snap)
  BY <1>2, <1>3 DEF Stacked
<1>10. Stacked(gs)
  BY <1>2, <1>5, <1>6, <1>7, <1>8, <1>9 DEF Stacked
<1>11. \A i \in DOMAIN gs : IsSaved(gs[i]) => Agree(gs[i].snap, fs[k].snap)
  BY <1>2, <1>3 DEF Stacked
<1>12. gs # <<>> /\ IsExact(gs[Len(gs)]) => Same(gs[Len(gs)].snap, fs[k].snap)
  <2> SUFFICES ASSUME gs # <<>>, IsExact(gs[Len(gs)])
               PROVE  Same(gs[Len(gs)].snap, fs[k].snap)
    OBVIOUS
  <2>1. k - 1 \in 1 .. k - 1
    BY <1>1, <1>2
  <2>2. gs[k - 1] = fs[k - 1] /\ k - 1 \in DOMAIN fs
    BY <2>1, <1>2, <1>3
  <2>3. k = (k - 1) + 1
    BY <1>1
  <2> QED BY <2>2, <2>3, <1>2 DEF Stacked
<1> QED BY <1>1, <1>2, <1>4, <1>6, <1>10, <1>11, <1>12 DEF gs, AllSeqs, Inside

\* The k-th frame becomes the innermost, and changes to g.
Replaced(fs, k, g) == [i \in 1 .. k |-> IF i = k THEN g ELSE fs[i]]

LEMMA ReplaceFrame ==
  ASSUME NEW fs, Stacked(fs), NEW k \in DOMAIN fs, NEW g \in FrameType,
         FrameOK(g, Seqs(fs, k - 1)), Same(g.snap, fs[k].snap),
         g.kind = fs[k].kind \/ (g.kind = "handler" /\ fs[k].kind = "try")
  PROVE  /\ Stacked(Replaced(fs, k, g)) /\ Len(Replaced(fs, k, g)) = k
         /\ Replaced(fs, k, g) # <<>> /\ Replaced(fs, k, g)[k] = g
         /\ AllSeqs(Replaced(fs, k, g)) = Seqs(fs, k - 1) \cup ({g.seq} \ {None})
         /\ \A w : Same(g.snap, w) => Inside(Replaced(fs, k, g), w)
         /\ \A w : k = Len(fs) /\ g.kind = "handler" /\ Inside(fs, w)
                     => Inside(Replaced(fs, k, g), w)
<1> DEFINE gs == Replaced(fs, k, g)
<1>1. Len(fs) \in Nat /\ DOMAIN fs = 1 .. Len(fs) /\ k \in Nat /\ 0 < k /\ k <= Len(fs)
  BY FrameTypes
<1>2. \A i \in 1 .. k - 1 : i \in DOMAIN fs /\ i < k /\ i # Len(fs) /\ fs[i] \in FrameType
  <2> TAKE i \in 1 .. k - 1
  <2>1. i \in DOMAIN fs /\ i < k /\ i < Len(fs)
    BY <1>1
  <2> QED BY <2>1, <1>1, FrameTypes
<1>3. /\ gs \in Seq(FrameType) /\ Len(gs) = k /\ DOMAIN gs = 1 .. k
      /\ gs[k] = g /\ \A i \in 1 .. k - 1 : gs[i] = fs[i]
  <2>1. \A i \in 1 .. k : (IF i = k THEN g ELSE fs[i]) \in FrameType
    BY <1>1, <1>2
  <2>2. gs \in [1 .. k -> FrameType]
    BY <2>1 DEF Replaced
  <2>3. gs \in Seq(FrameType) /\ Len(gs) = k
    BY <2>2, <1>1
  <2> QED BY <2>2, <2>3, <1>1 DEF Replaced
<1> HIDE DEF gs
<1>4. \A i \in 0 .. k - 1 : Seqs(gs, i) = Seqs(fs, i)
  BY <1>1, <1>3, SeqsSame
<1>5. Seqs(gs, k) = Seqs(fs, k - 1) \cup ({g.seq} \ {None})
  BY <1>1, <1>3, <1>4, SeqsStep
<1>6. \A i \in DOMAIN gs : FrameOK(gs[i], Seqs(gs, i - 1))
  <2> TAKE i \in DOMAIN gs
  <2>1. CASE i = k
    BY <2>1, <1>1, <1>3, <1>4
  <2>2. CASE i # k
    <3>1. i \in 1 .. k - 1 /\ i - 1 \in 0 .. k - 1
      BY <2>2, <1>1, <1>3
    <3> QED BY <3>1, <1>2, <1>3, <1>4 DEF Stacked
  <2> QED BY <2>1, <2>2
<1>7. \A i \in DOMAIN gs : gs[i].at = "head" => i = Len(gs)
  <2> SUFFICES ASSUME NEW i \in DOMAIN gs, gs[i].at = "head", i # k PROVE FALSE
    BY <1>3
  <2>1. i \in 1 .. k - 1
    BY <1>1, <1>3
  <2> QED BY <2>1, <1>2, <1>3 DEF Stacked
<1>8. \A i, j \in Tries(gs) : i = j
  <2>1. \A i \in DOMAIN gs : i \in 1 .. k - 1 \/ i = k
    BY <1>1, <1>3
  <2>2. \A i \in Tries(gs) : i \in Tries(fs)
    BY <2>1, <1>2, <1>3 DEF Tries
  <2> QED BY <2>2 DEF Stacked
<1>9. \A i, j \in DOMAIN gs : i < j /\ IsSaved(gs[i]) => Agree(gs[i].snap, gs[j].snap)
  <2> SUFFICES ASSUME NEW i \in DOMAIN gs, NEW j \in DOMAIN gs, i < j, IsSaved(gs[i])
               PROVE  Agree(gs[i].snap, gs[j].snap)
    OBVIOUS
  <2>1. i \in 1 .. k - 1 /\ gs[i] = fs[i]
    BY <1>1, <1>3
  <2>2. CASE j = k
    <3>1. Agree(fs[i].snap, fs[k].snap)
      BY <2>1, <1>2 DEF Stacked
    <3> QED BY <3>1, <2>1, <2>2, <1>3 DEF Agree, Same
  <2>3. CASE j # k
    <3>1. j \in 1 .. k - 1 /\ i \in DOMAIN fs /\ j \in DOMAIN fs
      BY <2>1, <2>3, <1>1, <1>2, <1>3
    <3> QED BY <2>1, <3>1, <1>3 DEF Stacked
  <2> QED BY <2>2, <2>3
<1>10. \A i, j \in DOMAIN gs : j = i + 1 /\ IsExact(gs[i]) => Same(gs[i].snap, gs[j].snap)
  <2> SUFFICES ASSUME NEW i \in DOMAIN gs, i + 1 \in DOMAIN gs, IsExact(gs[i])
               PROVE  Same(gs[i].snap, gs[i + 1].snap)
    OBVIOUS
  <2>1. i \in 1 .. k - 1 /\ gs[i] = fs[i]
    BY <1>1, <1>3
  <2>2. i \in DOMAIN fs /\ i + 1 \in DOMAIN fs
    BY <2>1, <1>1
  <2>3. Same(fs[i].snap, fs[i + 1].snap)
    BY <2>1, <2>2 DEF Stacked
  <2>4. CASE i + 1 = k
    BY <2>1, <2>3, <2>4, <1>3 DEF Same
  <2>5. CASE i + 1 # k
    <3>1. gs[i + 1] = fs[i + 1]
      BY <2>1, <2>5, <1>1, <1>3
    <3> QED BY <3>1, <2>1, <2>3
  <2> QED BY <2>4, <2>5
<1>11. Stacked(gs)
  BY <1>3, <1>6, <1>7, <1>8, <1>9, <1>10 DEF Stacked
<1>12. gs # <<>>
  BY <1>1, <1>3
<1>13. \A w : Same(g.snap, w) => Inside(gs, w)
  <2> SUFFICES ASSUME NEW w, Same(g.snap, w) PROVE Inside(gs, w)
    OBVIOUS
  <2>1. \A i \in 1 .. k - 1 : IsSaved(gs[i]) => Agree(gs[i].snap, w)
    <3> SUFFICES ASSUME NEW i \in 1 .. k - 1, IsSaved(gs[i]) PROVE Agree(gs[i].snap, w)
      OBVIOUS
    <3>1. Agree(gs[i].snap, g.snap)
      BY <1>1, <1>3, <1>9
    <3> QED BY <3>1 DEF Agree, Same
  <2>2. Agree(g.snap, w)
    BY DEF Agree, Same
  <2>3. \A i \in DOMAIN gs : i \in 1 .. k - 1 \/ i = k
    BY <1>1, <1>3
  <2> QED BY <2>1, <2>2, <2>3, <1>3 DEF Inside
<1>14. \A w : k = Len(fs) /\ g.kind = "handler" /\ Inside(fs, w) => Inside(gs, w)
  <2> SUFFICES ASSUME NEW w, k = Len(fs), g.kind = "handler", Inside(fs, w)
               PROVE  Inside(gs, w)
    OBVIOUS
  <2>1. \A i \in DOMAIN gs : i \in 1 .. k - 1 \/ i = k
    BY <1>1, <1>3
  <2> QED BY <2>1, <1>2, <1>3 DEF Inside, IsSaved, IsExact
<1> QED BY <1>3, <1>5, <1>11, <1>12, <1>13, <1>14 DEF gs, AllSeqs

-----------------------------------------------------------------------------
(* What owns the temporaries.                                              *)

\* Temporaries in no use by a name come and go.
LEMMA OwnsOthers ==
  ASSUME NEW w, NEW v, NEW S, NEW T, Owns(w, S),
         v.locals = w.locals, v.stable = w.stable, v.borrowed = w.borrowed,
         v.tracker = w.tracker,
         v.live = Slots(w) \cup T, Slots(w) \cap T = {}
  PROVE  Owns(v, T)
BY DEF Owns, Slots

\* The temporary t of an expression becomes the one that holds x.
LEMMA OwnsBinding ==
  ASSUME NEW w \in WriterType, NEW v, NEW S, Owns(w, S), NEW x \in Names, NEW t \in S, t # None,
         v.locals = [w.locals EXCEPT ![x] = t],
         v.stable \subseteq w.stable \cup {x}, v.borrowed = w.borrowed, v.tracker = w.tracker,
         v.live = w.live \ ({w.locals[x]} \ {None})
  PROVE  Owns(v, S \ {t})
<1>1. w.locals \in [Names -> Temps \cup {None}]
  BY DEF WriterType
<1>2. v.locals[x] = t /\ \A y \in Names \ {x} : v.locals[y] = w.locals[y]
  BY <1>1
<1>3. \A y \in Names : w.locals[y] # t
  BY DEF Owns, Slots
<1>4. Slots(v) = (Slots(w) \ {w.locals[x]}) \cup {t}
  <2>1. \A y \in Names \ {x} : w.locals[y] = w.locals[x] => w.locals[x] = None
    BY DEF Owns
  <2> QED BY <1>2, <2>1 DEF Slots
<1>5. v.live = Slots(v) \cup (S \ {t})
  BY <1>3, <1>4 DEF Owns, Slots
<1>6. Slots(v) \cap (S \ {t}) = {}
  BY <1>4 DEF Owns
<1>7. \A y, z \in Names : v.locals[y] = v.locals[z] /\ v.locals[y] # None => y = z
  BY <1>2, <1>3 DEF Owns
<1>8. \A y \in v.stable : v.locals[y] # None
  <2>1. \A y \in v.stable : y = x \/ (y \in w.stable /\ y \in Names \ {x})
    BY DEF WriterType
  <2> QED BY <1>2, <2>1 DEF Owns
<1> QED BY <1>5, <1>6, <1>7, <1>8 DEF Owns

-----------------------------------------------------------------------------
(* The handles in the live variables.                                      *)

LEMMA MatchClose ==
  ASSUME NEW L, NEW c, NEW o, Match(L, c, o), NEW S \in SUBSET L,
         NEW d, \A t \in L \ S : d[t] = c[t]
  PROVE  /\ Match(L \ S, d, o \ ({c[t] : t \in S} \ {Null}))
         /\ {c[t] : t \in S} \ {Null} \subseteq o
         /\ \A t, u \in S : t # u /\ c[t] = c[u] => c[t] = Null
BY DEF Match

LEMMA MatchClosed ==
  ASSUME NEW L, NEW c, NEW o, Match(L, c, o), NEW S \in SUBSET L
  PROVE  Match(L \ S, c, o \ ({c[t] : t \in S} \ {Null}))
BY DEF Match

LEMMA MatchAdd ==
  ASSUME NEW L, NEW c, NEW o, Match(L, c, o), NEW t, t \notin L,
         NEW d, \A u \in L : d[u] = c[u]
  PROVE  /\ d[t] \notin o => Match(L \cup {t}, d, o \cup ({d[t]} \ {Null}))
         /\ d[t] = Null => Match(L \cup {t}, d, o)
BY DEF Match

\* The handle in t is moved to u.
LEMMA MatchMove ==
  ASSUME NEW L, NEW c, NEW o, Match(L, c, o), NEW t \in L, NEW u, u \notin L,
         NEW d, \A v \in L \ {t} : d[v] = c[v], d[u] = c[t]
  PROVE  Match((L \ {t}) \cup {u}, d, o)
BY DEF Match

LEMMA MatchSame ==
  ASSUME NEW L, NEW c, NEW o, Match(L, c, o), NEW d, \A t \in L : d[t] = c[t]
  PROVE  Match(L, d, o)
BY DEF Match

LEMMA BindingsSame ==
  ASSUME NEW w, NEW v, NEW c, NEW d, NEW b, NEW orig, Bindings(w, c, b, orig),
         v.locals = w.locals, v.borrowed = w.borrowed,
         \A t \in Slots(w) : d[t] = c[t]
  PROVE  Bindings(v, d, b, orig)
BY DEF Bindings, Slots, IsInitialized

\* Bookkeeping that agrees with the current one is restored.
LEMMA BindingsRestored ==
  ASSUME NEW w, NEW s, NEW c, NEW d, NEW b, NEW orig, Bindings(w, c, b, orig),
         s.borrowed = w.borrowed,
         \A x \in Names : IsInitialized(s, x) => w.locals[x] = s.locals[x],
         \A t \in Slots(s) : d[t] = c[t]
  PROVE  Bindings(s, d, [x \in Names |-> IF IsInitialized(s, x) THEN b[x] ELSE Null], orig)
<1> DEFINE e == [x \in Names |-> IF IsInitialized(s, x) THEN b[x] ELSE Null]
<1> SUFFICES ASSUME NEW x \in Names
             PROVE  /\ s.locals[x] # None => e[x] = d[s.locals[x]]
                    /\ s.locals[x] = None /\ x \in s.borrowed => x \in orig /\ e[x] = Caller
                    /\ ~IsInitialized(s, x) => e[x] = Null
  BY DEF Bindings
<1>1. CASE IsInitialized(s, x)
  <2>1. w.locals[x] = s.locals[x] /\ e[x] = b[x]
    BY <1>1
  <2>2. s.locals[x] # None => d[s.locals[x]] = c[s.locals[x]]
    BY DEF Slots
  <2> QED BY <1>1, <2>1, <2>2 DEF Bindings
<1>2. CASE ~IsInitialized(s, x)
  BY <1>2 DEF IsInitialized
<1> QED BY <1>1, <1>2

-----------------------------------------------------------------------------
(* Frames and names.                                                       *)

LEMMA InsideSame ==
  ASSUME NEW fs, NEW w, NEW v, Inside(fs, w), Same(w, v)
  PROVE  Inside(fs, v)
BY DEF Inside, Same, Agree

\* x is held in another way.
LEMMA InsideReheld ==
  ASSUME NEW fs, NEW w, NEW v, NEW x \in Names, Inside(fs, w),
         w.stable \subseteq v.stable, \A y \in Names \ {x} : v.locals[y] = w.locals[y],
         \A i \in DOMAIN fs : IsSaved(fs[i]) => ~IsInitialized(fs[i].snap, x),
         fs # <<>> => ~IsExact(fs[Len(fs)])
  PROVE  Inside(fs, v)
<1>1. ASSUME NEW i \in DOMAIN fs, IsSaved(fs[i]) PROVE Agree(fs[i].snap, v)
  <2>1. Agree(fs[i].snap, w) /\ ~IsInitialized(fs[i].snap, x)
    BY <1>1 DEF Inside
  <2> QED BY <2>1 DEF Agree
<1> QED BY <1>1 DEF Inside

\* Where a name that has no slot of its own may be given another temporary, no
\* construct that is still to be left by a restore knows the name.
LEMMA ReholdSafe ==
  ASSUME SoundShapes, Stacked(frames), Inside(frames, writer), writer.borrowed = Args,
         NEW x \in Names, x \notin writer.stable, Rehold(x)
  PROVE  /\ \A i \in DOMAIN frames : IsSaved(frames[i]) => ~IsInitialized(frames[i].snap, x)
         /\ frames # <<>> => ~IsExact(frames[Len(frames)])
<1> DEFINE n == Len(frames)
           unaware == {i \in Merging : x \notin frames[i].names}
           m == Max(unaware)
<1>1. n \in Nat /\ DOMAIN frames = 1 .. n /\ (frames # <<>> => n \in DOMAIN frames)
  BY FrameTypes
<1>2. \A i \in DOMAIN frames : i \in Merging <=> frames[i].kind \in {"if", "loop"}
  BY DEF Merging, FramesOf
<1>3. Merging \subseteq DOMAIN frames
  BY DEF Merging, FramesOf
<1>4. \A i \in DOMAIN frames : frames[i].names \subseteq frames[i].snap.stable
                              /\ frames[i].snap.borrowed = Args
  BY DEF Stacked, FrameOK, Owns
<1>5. unaware = Merging
  <2> SUFFICES ASSUME NEW i \in Merging, x \in frames[i].names PROVE FALSE
    OBVIOUS
  <2>1. i \in DOMAIN frames /\ IsSaved(frames[i])
    BY <1>2, <1>3 DEF IsSaved
  <2>2. frames[i].snap.stable \subseteq writer.stable
    BY <2>1 DEF Inside, Agree
  <2> QED BY <2>1, <2>2, <1>4
<1>6. \A i \in DOMAIN frames : frames[i].kind = "try" => ~IsInitialized(frames[i].snap, x)
  BY DEF Rehold, SoundShapes, FramesOf
<1>7. CASE Merging = {}
  <2>1. \A i \in DOMAIN frames : frames[i].kind \notin {"if", "loop"}
    BY <1>2, <1>7
  <2> QED BY <2>1, <1>1, <1>6 DEF IsSaved, IsExact
<1>8. CASE Merging # {}
  <2>1. unaware \in SUBSET (0 .. n)
    BY <1>1, <1>3
  <2>2. m \in Merging /\ \A i \in Merging : i <= m
    BY <1>1, <1>5, <1>8, <2>1, MaxOf
  <2>3. unaware # {}
    BY <1>5, <1>8
  <2>4. /\ frames[m].kind # "if" /\ frames[m].at # "else" /\ frames[m].at # "head"
        /\ frames[m].at = "body" => ~IsInitialized(frames[m].snap, x)
    BY <2>3 DEF Rehold, SoundShapes
  <2>5. m \in DOMAIN frames /\ frames[m].at \in {"head", "body", "else"}
    BY <2>2, <1>3, FrameTypes DEF FrameType
  <2>6. ~IsInitialized(frames[m].snap, x)
    BY <2>4, <2>5
  <2>7. ASSUME NEW i \in Merging PROVE ~IsInitialized(frames[i].snap, x)
    <3>1. CASE i = m
      BY <3>1, <2>6
    <3>2. CASE i # m
      <4>1. i \in DOMAIN frames /\ IsSaved(frames[i])
        BY <1>2, <1>3 DEF IsSaved
      <4>2. i \in Nat /\ m \in Nat /\ i <= m
        BY <4>1, <1>1, <2>2, <2>5
      <4>3. i < m
        BY <4>2, <3>2
      <4>4. Agree(frames[i].snap, frames[m].snap)
        BY <4>1, <4>3, <2>5 DEF Stacked
      <4> QED BY <4>1, <4>4, <2>5, <2>6, <1>4 DEF Agree, IsInitialized
    <3> QED BY <3>1, <3>2
  <2>8. frames # <<>> => ~IsExact(frames[n])
    <3> SUFFICES ASSUME frames # <<>>, IsExact(frames[n]) PROVE FALSE
      OBVIOUS
    <3>1. n \in Merging
      BY <1>1, <1>2 DEF IsExact
    <3>2. n <= m /\ m \in 1 .. n
      BY <3>1, <2>2, <2>5, <1>1
    <3>3. n = m
      BY <3>2, <1>1
    <3> QED BY <3>3, <2>4 DEF IsExact
  <2> QED BY <1>2, <1>6, <2>7, <2>8 DEF IsSaved
<1> QED BY <1>7, <1>8

-----------------------------------------------------------------------------
(* From one state with its books in order to the next.                     *)

StatementType == [goal : Goals, name : Names \cup {None}, operands : Seq(Temps),
                  pending : SUBSET Names, names : SUBSET Names,
                  els : {"none", "falls", "exits"}]
Slotted == [Temps -> Handles \cup {Null}]
Bound   == [Names -> Handles \cup {Null, Caller}]

\* Nothing is used after it was closed, and no read is stale.
Sound(F) == F \subseteq {"stale"} /\ (Lanes = {} => F = {})

LEMMA Typed ==
  ASSUME TypeOK
  PROVE  /\ writer \in WriterType /\ stmt \in StatementType /\ cvar \in Slotted
         /\ bound \in Bound /\ original \subseteq Args /\ Len(frames) <= MaxDepth
         /\ open \subseteq Handles
BY WriterTypes DEF TypeOK, IsStatement, StatementType, Slotted, Bound

LEMMA NullNoHandle == Null \notin Handles /\ Caller \notin Handles /\ Null # Caller
BY Constants DEF Null, Handles, Caller

LEMMA Assemble ==
  ASSUME IInv, status = "running", status' = "running",
         NEW f \in Slotted, cvar' = f \/ cvar' = Settle(f),
         writer' \in WriterType, Len(frames') <= MaxDepth, stmt' \in StatementType,
         bound' \in Bound, original' \subseteq Args,
         Books(writer', frames', stmt'),
         Match(writer'.live, f, open'), Bindings(writer', f, bound', original'),
         builderOpen' = writer'.builder, trackerOpen' = trackerOpen, result' = result,
         Sound(faults')
  PROVE  IInv'
<1>1. writer'.live \subseteq Temps /\ Slots(writer') \subseteq writer'.live
  BY DEF WriterType, Books, Owns
<1>2. cvar' \in Slotted /\ \A t \in writer'.live : cvar'[t] = f[t]
  BY <1>1 DEF Slotted, Settle
<1>3. Match(writer'.live, cvar', open')
  BY <1>2, MatchSame
<1>4. Bindings(writer', cvar', bound', original')
  BY <1>1, <1>2, BindingsSame
<1>5. open' \subseteq Handles
  BY <1>1, <1>2, <1>3 DEF Match, Slotted
<1>6. \A i \in DOMAIN frames' : IsFrame(frames'[i])
  <2> TAKE i \in DOMAIN frames'
  <2>1. frames'[i] \in FrameType
    BY FrameTypes DEF Books
  <2> QED BY <2>1, WriterTypes DEF FrameType, IsFrame
<1>7. writer'.tracker = Tracked /\ writer.tracker = Tracked
  BY DEF Books, Owns, IInv, Running
<1>8. writer'.builder \in BOOLEAN
  BY DEF WriterType
<1>9. trackerOpen' = writer'.tracker /\ trackerOpen' \in BOOLEAN /\ result' = Null
  BY <1>7, Constants DEF IInv, Running
<1>10. TypeOK'
  BY <1>2, <1>5, <1>6, <1>8, <1>9, WriterTypes
     DEF TypeOK, IsStatement, StatementType, Slotted, Bound, Sound
<1>11. Running'
  BY <1>3, <1>4, <1>9 DEF Running
<1>12. ExitReleasesEverything' /\ NoDanglingUse' /\ (Lanes = {} => ReadsAreCurrent')
  BY DEF ExitReleasesEverything, NoDanglingUse, ReadsAreCurrent, Sound
<1> QED BY <1>10, <1>11, <1>12 DEF IInv

LEMMA SoundFaults ==
  ASSUME IInv
  PROVE  Sound(faults) /\ \A F : Sound(F) => Sound(faults \cup F)
BY DEF IInv, TypeOK, NoDanglingUse, ReadsAreCurrent, Sound

LEMMA SoundNone == Sound({})
BY DEF Sound

\* Closing handles that are live is no fault, and the rest stay as they are.
LEMMA ClosingLive ==
  ASSUME Match(writer.live, cvar, open), NEW S \in SUBSET writer.live
  PROVE  ClosingFaults(S) = {} /\ Match(writer.live \ S, cvar, open \ Values(S))
<1>1. ClosingFaults(S) = {}
  BY DEF Match, ClosingFaults, Values
<1>2. Match(writer.live \ S, cvar, open \ Values(S))
  BY MatchClosed DEF Values
<1> QED BY <1>1, <1>2

\* What an allocation yields is in no use.
LEMMA Fresh ==
  ASSUME TypeOK
  PROVE  /\ FreeTemps # {} => /\ NewTemp \in Temps \ writer.live /\ NewTemp # None
         /\ FreeHandles # {} => /\ NewHandle \in Handles /\ NewHandle # Null
                                /\ NewHandle \notin open
<1>1. FreeTemps \in SUBSET Nat /\ FreeHandles \in SUBSET Nat
  BY Constants DEF FreeTemps, FreeHandles, Temps, Handles
<1>2. FreeTemps # {} => NewTemp \in FreeTemps
  BY <1>1, MinOf DEF NewTemp
<1>3. FreeHandles # {} => NewHandle \in FreeHandles
  BY <1>1, MinOf DEF NewHandle
<1>4. \A t \in Temps : t # None
  BY Constants DEF Temps
<1> QED BY <1>2, <1>3, <1>4, NullNoHandle DEF FreeTemps, FreeHandles

-----------------------------------------------------------------------------
(* The values in hand.                                                     *)

LEMMA NoOperands == Range(<<>>) = {} /\ Distinct(<<>>) /\ \A S : <<>> \in Seq(S)
BY DEF Range, Distinct

LEMMA OneOperand ==
  ASSUME NEW ops \in Seq(Temps), Len(ops) = 1
  PROVE  Range(ops) = {ops[1]} /\ ops[1] \in Temps
BY DEF Range

LEMMA SingleOperand ==
  ASSUME NEW t \in Temps
  PROVE  <<t>> \in Seq(Temps) /\ Range(<<t>>) = {t} /\ Distinct(<<t>>)
BY DEF Range, Distinct

LEMMA PushedOperand ==
  ASSUME NEW ops \in Seq(Temps), Distinct(ops), NEW t \in Temps \ Range(ops)
  PROVE  /\ Append(ops, t) \in Seq(Temps) /\ Range(Append(ops, t)) = Range(ops) \cup {t}
         /\ Distinct(Append(ops, t))
<1>1. /\ Append(ops, t) \in Seq(Temps) /\ Len(ops) \in Nat /\ DOMAIN ops = 1 .. Len(ops)
      /\ DOMAIN Append(ops, t) = 1 .. Len(ops) + 1
      /\ Append(ops, t)[Len(ops) + 1] = t
      /\ \A i \in 1 .. Len(ops) : Append(ops, t)[i] = ops[i]
  OBVIOUS
<1>2. 1 .. Len(ops) + 1 = (1 .. Len(ops)) \cup {Len(ops) + 1}
  BY <1>1
<1>3. Range(Append(ops, t)) = Range(ops) \cup {t}
  BY <1>1, <1>2, Zenon DEF Range
<1>4. \A i \in 1 .. Len(ops) : ops[i] # t
  BY <1>1 DEF Range
<1>5. Distinct(Append(ops, t))
  BY <1>1, <1>2, <1>4 DEF Distinct
<1> QED BY <1>1, <1>3, <1>5

LEMMA LastOperand ==
  ASSUME NEW ops \in Seq(Temps), Distinct(ops), Len(ops) > 0, NEW t \in Temps \ Range(ops)
  PROVE  LET n == Len(ops)
             new == [ops EXCEPT ![n] = t]
         IN  /\ ops[n] \in Range(ops) /\ ops[n] \in Temps
             /\ new \in Seq(Temps) /\ Distinct(new)
             /\ Range(new) = (Range(ops) \ {ops[n]}) \cup {t}
<1> DEFINE n == Len(ops)
           new == [ops EXCEPT ![n] = t]
<1>1. n \in Nat /\ n \in DOMAIN ops /\ DOMAIN ops = 1 .. n
  OBVIOUS
<1>2. new \in Seq(Temps) /\ DOMAIN new = 1 .. n /\ new[n] = t
      /\ \A i \in 1 .. n : i # n => new[i] = ops[i]
  <2>1. ops \in [1 .. n -> Temps]
    BY <1>1
  <2>2. new \in [1 .. n -> Temps]
    BY <2>1
  <2> QED BY <1>1, <2>1, <2>2
<1>3. \A i \in 1 .. n : ops[i] # t
  BY <1>1 DEF Range
<1>4. Distinct(new)
  BY <1>1, <1>2, <1>3 DEF Distinct
<1>5. \A i \in 1 .. n : ops[i] = ops[n] => i = n
  BY <1>1 DEF Distinct
<1> HIDE DEF new
<1>6. Range(new) = (Range(ops) \ {ops[n]}) \cup {t}
  BY <1>1, <1>2, <1>5 DEF Range
<1>7. ops[n] \in Range(ops) /\ ops[n] \in Temps
  BY <1>1 DEF Range
<1> QED BY <1>2, <1>4, <1>6, <1>7 DEF new

-----------------------------------------------------------------------------
(* Steps that neither open nor close a construct, nor hold a name in       *)
(* another way.                                                            *)

LEMMA EvaluationBooks ==
  ASSUME NEW fs, NEW w, NEW s, Books(w, fs, s), NEW v, NEW r,
         v.locals = w.locals, v.stable = w.stable, v.borrowed = w.borrowed,
         v.tracker = w.tracker, StatementOK(v, fs, r),
         v.live = Slots(w) \cup AllSeqs(fs) \cup Range(r.operands),
         Range(r.operands) \cap (Slots(w) \cup AllSeqs(fs)) = {}
  PROVE  Books(v, fs, r)
<1>1. Owns(w, AllSeqs(fs) \cup Range(s.operands)) /\ Stacked(fs) /\ Inside(fs, w)
  BY DEF Books
<1>2. Slots(w) \cap (AllSeqs(fs) \cup Range(r.operands)) = {}
  BY <1>1 DEF Owns
<1>3. v.live = Slots(w) \cup (AllSeqs(fs) \cup Range(r.operands))
  OBVIOUS
<1>4. Owns(v, AllSeqs(fs) \cup Range(r.operands))
  BY <1>1, <1>2, <1>3, OwnsOthers
<1>5. Inside(fs, v)
  BY <1>1, InsideSame DEF Same
<1>6. AllSeqs(fs) \cap Range(r.operands) = {}
  OBVIOUS
<1> QED BY <1>1, <1>4, <1>5, <1>6 DEF Books

\* The live temporaries, apart from the values in hand.
LEMMA LiveParts ==
  ASSUME NEW fs, NEW w, NEW s, Books(w, fs, s)
  PROVE  /\ w.live = Slots(w) \cup AllSeqs(fs) \cup Range(s.operands)
         /\ Range(s.operands) \cap (Slots(w) \cup AllSeqs(fs)) = {}
BY DEF Books, Owns

LEMMA Evaluates ==
  ASSUME IInv, status = "running", status' = "running", frames' = frames,
         writer' \in WriterType, stmt' \in StatementType,
         writer'.locals = writer.locals, writer'.stable = writer.stable,
         writer'.borrowed = writer.borrowed, writer'.tracker = writer.tracker,
         StatementOK(writer', frames, stmt'),
         writer'.live = Slots(writer) \cup AllSeqs(frames) \cup Range(stmt'.operands),
         Range(stmt'.operands) \cap (Slots(writer) \cup AllSeqs(frames)) = {},
         NEW f \in Slotted, \A t \in Slots(writer) : f[t] = cvar[t],
         cvar' = f \/ cvar' = Settle(f), Match(writer'.live, f, open'),
         UNCHANGED <<bound, original, trackerOpen, result>>,
         builderOpen' = writer'.builder, Sound(faults')
  PROVE  IInv'
<1>1. Books(writer, frames, stmt) /\ Bindings(writer, cvar, bound, original)
  BY DEF IInv, Running
<1>2. Books(writer', frames', stmt')
  BY <1>1, EvaluationBooks
<1>3. Bindings(writer', f, bound', original')
  BY <1>1, BindingsSame
<1>4. bound' \in Bound /\ original' \subseteq Args /\ Len(frames') <= MaxDepth
  BY Typed DEF IInv
<1> QED BY <1>2, <1>3, <1>4, Assemble

\* A statement begins, or goes on to another of its parts.
LEMMA StatementStep ==
  ASSUME IInv, status = "running", stmt' \in StatementType,
         stmt'.operands = stmt.operands, StatementOK(writer, frames, stmt'),
         UNCHANGED <<writer, frames, runtime, status, result, faults>>
  PROVE  IInv'
<1>1. writer \in WriterType /\ cvar \in Slotted
  BY Typed DEF IInv
<1>2. Books(writer, frames, stmt) /\ Match(writer.live, cvar, open) /\ builderOpen = writer.builder
  BY DEF IInv, Running
<1>3. Sound(faults)
  BY SoundFaults
<1> QED BY <1>1, <1>2, <1>3, LiveParts, Evaluates DEF runtime

LEMMA ApplyStep ==
  ASSUME IInv, Evaluating, NEW consumed, NEW rest \in Seq(Temps), NEW X, Sound(X), Distinct(rest),
         Range(stmt.operands) = consumed \cup Range(rest), consumed \cap Range(rest) = {},
         Apply(consumed, rest, X)
  PROVE  IInv'
<1> DEFINE t == NewTemp
           f == [cvar EXCEPT ![t] = NewHandle]
           ops == Append(rest, t)
<1>1. writer \in WriterType /\ stmt \in StatementType /\ cvar \in Slotted /\ TypeOK
  BY Typed DEF IInv
<1>2. /\ Books(writer, frames, stmt) /\ Match(writer.live, cvar, open)
      /\ builderOpen = writer.builder /\ Sound(faults)
  BY SoundFaults DEF IInv, Running, Evaluating
<1>3. /\ t \in Temps \ writer.live /\ t # None
      /\ NewHandle \in Handles /\ NewHandle # Null /\ NewHandle \notin open
  BY <1>1, Fresh DEF Apply, CanAllocate
<1> HIDE DEF t
<1>4. /\ writer.live = Slots(writer) \cup AllSeqs(frames) \cup Range(stmt.operands)
      /\ Range(stmt.operands) \cap (Slots(writer) \cup AllSeqs(frames)) = {}
  BY <1>2, LiveParts
<1>5. ops \in Seq(Temps) /\ Range(ops) = Range(rest) \cup {t} /\ Distinct(ops)
  BY <1>3, <1>4, PushedOperand
<1>6. writer' = [writer EXCEPT !.live = (@ \ consumed) \cup {t}]
  BY DEF Apply, t
<1>7. stmt' = [stmt EXCEPT !.operands = ops]
  BY DEF Apply, t
<1> HIDE DEF ops
<1>8. /\ writer'.live = (writer.live \ consumed) \cup {t} /\ writer' \in WriterType
      /\ writer'.locals = writer.locals /\ writer'.stable = writer.stable
      /\ writer'.borrowed = writer.borrowed /\ writer'.tracker = writer.tracker
      /\ writer'.builder = writer.builder
  BY <1>1, <1>3, <1>6 DEF WriterType
<1>9. /\ stmt' \in StatementType /\ stmt'.operands = ops /\ stmt'.goal = stmt.goal
      /\ stmt'.name = stmt.name /\ stmt'.pending = stmt.pending /\ stmt'.names = stmt.names
      /\ stmt'.els = stmt.els
  BY <1>1, <1>5, <1>7 DEF StatementType
<1>10. StatementOK(writer', frames, stmt')
  BY <1>2, <1>5, <1>8, <1>9 DEF StatementOK, Books, Evaluating
<1>11. /\ writer'.live = Slots(writer) \cup AllSeqs(frames) \cup Range(stmt'.operands)
       /\ Range(stmt'.operands) \cap (Slots(writer) \cup AllSeqs(frames)) = {}
  BY <1>3, <1>4, <1>5, <1>8, <1>9
<1>12. f \in Slotted /\ f[t] = NewHandle /\ \A u \in writer.live : f[u] = cvar[u]
  BY <1>1, <1>3 DEF Slotted, WriterType
<1>13. Match(writer.live \ consumed, cvar, open \ Values(consumed)) /\ consumed \subseteq writer.live
  <2>1. consumed \in SUBSET writer.live
    BY <1>4
  <2> QED BY <1>2, <2>1, ClosingLive
<1>14. Match((writer.live \ consumed) \cup {t}, f, (open \ Values(consumed)) \cup {NewHandle})
  <2>1. t \notin writer.live \ consumed /\ \A u \in writer.live \ consumed : f[u] = cvar[u]
    BY <1>3, <1>12
  <2>2. f[t] \notin open \ Values(consumed) /\ {f[t]} \ {Null} = {NewHandle}
    BY <1>3, <1>12
  <2> HIDE DEF f
  <2> QED BY <1>13, <2>1, <2>2, MatchAdd
<1>15. /\ open' = (open \ Values(consumed)) \cup {NewHandle} /\ cvar' = Settle(f)
       /\ UNCHANGED <<frames, bound, original, builderOpen, trackerOpen, status, result>>
       /\ faults' = faults \cup ClosingFaults(consumed) \cup X
  BY DEF Apply, t
<1>16. Sound(faults')
  BY <1>2, <1>13, <1>15, ClosingLive DEF Sound
<1>17. status = "running" /\ status' = "running" /\ frames' = frames
  BY <1>15 DEF Evaluating
<1>18. \A u \in Slots(writer) : f[u] = cvar[u]
  BY <1>4, <1>12
<1> HIDE DEF f
<1> QED BY <1>2, <1>8, <1>9, <1>10, <1>11, <1>12, <1>14, <1>15, <1>16, <1>17, <1>18, Evaluates

-----------------------------------------------------------------------------
(* Back to what a snapshot saved.                                          *)

LEMMA NothingOK ==
  /\ Nothing \in StatementType
  /\ EndStatement <=> stmt' = Nothing
  /\ \A w, fs : ~w.builder => StatementOK(w, fs, Nothing)
BY NoOperands DEF Nothing, StatementType, Goals, EndStatement, StartStatement, StatementOK

\* Everything a saved snapshot takes for live is live.
LEMMA SnapshotLive ==
  ASSUME NEW fs, NEW w, NEW s, Books(w, fs, s), NEW k \in DOMAIN fs, IsSaved(fs[k])
  PROVE  /\ fs[k].snap.live \subseteq w.live
         /\ Slots(fs[k].snap) \subseteq w.live
         /\ fs[k].snap.live = Slots(fs[k].snap) \cup Seqs(fs, k - 1) \cup ({fs[k].seq} \ {None})
         /\ \A x \in Names : IsInitialized(fs[k].snap, x) => w.locals[x] = fs[k].snap.locals[x]
         /\ fs[k].snap.borrowed = w.borrowed
<1>1. /\ Stacked(fs) /\ Inside(fs, w) /\ Owns(w, AllSeqs(fs) \cup Range(s.operands))
  BY DEF Books
<1>2. DOMAIN fs = 1 .. Len(fs) /\ Len(fs) \in Nat
  BY <1>1, FrameTypes
<1>3. Owns(fs[k].snap, Seqs(fs, k - 1) \cup ({fs[k].seq} \ {None}))
  BY <1>1 DEF Stacked, FrameOK
<1>4. Agree(fs[k].snap, w)
  BY <1>1 DEF Inside
<1>5. Seqs(fs, k - 1) \cup ({fs[k].seq} \ {None}) \subseteq AllSeqs(fs)
  <2>1. \A j \in 1 .. k - 1 : j \in 1 .. Len(fs)
    BY <1>2
  <2> QED BY <1>2, <2>1 DEF Seqs, AllSeqs
<1>6. Slots(fs[k].snap) \subseteq Slots(w)
  BY <1>4 DEF Agree, Slots, IsInitialized
<1>7. \A x \in Names : IsInitialized(fs[k].snap, x) => w.locals[x] = fs[k].snap.locals[x]
  BY <1>4 DEF Agree
<1> QED BY <1>1, <1>3, <1>5, <1>6, <1>7 DEF Owns

\* The bookkeeping s is restored, with gs open, after closing what is not live
\* in it.
LEMMA RestoreStep ==
  ASSUME IInv, status = "running", NEW s \in WriterType, NEW gs, NEW k \in DOMAIN frames,
         IsSaved(frames[k]), s.locals = frames[k].snap.locals,
         s.borrowed = frames[k].snap.borrowed, s.live \subseteq frames[k].snap.live,
         NEW S, S = writer.live \ s.live, Books(s, gs, Nothing),
         Len(gs) <= MaxDepth, s.builder = FALSE,
         writer' = s, frames' = gs, stmt' = Nothing,
         open' = open \ Values(S), Sound(faults'), builderOpen' = FALSE,
         bound' = KnownBindings, cvar' = Settle(cvar),
         UNCHANGED <<original, trackerOpen, status, result>>
  PROVE  IInv'
<1>1. writer \in WriterType /\ cvar \in Slotted /\ bound \in Bound /\ original \subseteq Args
  BY Typed DEF IInv
<1>2. /\ Books(writer, frames, stmt) /\ Match(writer.live, cvar, open)
      /\ Bindings(writer, cvar, bound, original)
  BY DEF IInv, Running
<1>3. /\ frames[k].snap.live \subseteq writer.live
      /\ \A x \in Names : IsInitialized(s, x) => writer.locals[x] = s.locals[x]
      /\ s.borrowed = writer.borrowed
  BY <1>2, SnapshotLive DEF IsInitialized
<1>4. S \in SUBSET writer.live /\ writer.live \ S = s.live
  BY <1>3
<1>5. Match(s.live, cvar, open \ Values(S))
  BY <1>2, <1>4, ClosingLive
<1>7. bound' = [x \in Names |-> IF IsInitialized(s, x) THEN bound[x] ELSE Null]
  BY DEF KnownBindings
<1>8. Bindings(s, cvar, bound', original)
  BY <1>2, <1>3, <1>7, BindingsRestored
<1>9. bound' \in Bound
  BY <1>1, <1>7 DEF Bound
<1>6. stmt' \in StatementType
  BY NothingOK
<1> QED BY <1>1, <1>2, <1>5, <1>6, <1>8, <1>9, Assemble

\* The only try there can be.
LEMMA TheTry ==
  ASSUME Stacked(frames), InTry
  PROVE  LET i == Max(FramesOf({"try"}))
         IN  i \in DOMAIN frames /\ FramesOf({"try"}) = {i} /\ frames[i].kind = "try"
<1>1. FramesOf({"try"}) # {} /\ FramesOf({"try"}) \subseteq Tries(frames)
  BY DEF InTry, FramesOf, Tries
<1>2. PICK i \in FramesOf({"try"}) : TRUE
  BY <1>1
<1>3. FramesOf({"try"}) = {i}
  BY <1>1, <1>2 DEF Stacked
<1>4. i \in DOMAIN frames /\ frames[i].kind = "try" /\ i \in Nat
  BY <1>2, FrameTypes DEF FramesOf
<1>5. Max({i}) = i
  <2>1. {i} \in SUBSET (0 .. i) /\ {i} # {}
    BY <1>4
  <2>2. Max({i}) \in {i}
    BY <1>4, <2>1, MaxOf
  <2> QED BY <2>2
<1> QED BY <1>3, <1>4, <1>5

\* The path ends.
LEMMA EndedStep ==
  ASSUME IInv, status = "running", Ended, status' \in {"returned", "failed"},
         result' \in Handles \cup {Null}, open' = {result'} \ {Null}, builderOpen' = FALSE,
         Sound(faults')
  PROVE  IInv'
<1>1. trackerOpen = writer.tracker /\ writer.tracker = Tracked
  BY DEF IInv, Running, Books, Owns
<1>2. ~trackerOpen'
  BY <1>1, Constants DEF Ended
<1>3. /\ writer' \in WriterType /\ frames' = <<>> /\ stmt' = Nothing /\ stmt' \in StatementType
      /\ cvar' \in Slotted /\ bound' \in Bound /\ original' = {}
  BY NothingOK DEF Ended, WriterType, Slotted, Bound
<1>4. Len(frames') <= MaxDepth /\ (\A i \in DOMAIN frames' : IsFrame(frames'[i]))
      /\ trackerOpen' = FALSE
  BY <1>2, <1>3, Constants DEF Ended, IInv, TypeOK
<1>5. open' \subseteq Handles
  OBVIOUS
<1>6. TypeOK'
  BY <1>3, <1>4, <1>5, WriterTypes
     DEF TypeOK, IsStatement, StatementType, Slotted, Bound, Sound
<1>7. ExitReleasesEverything' /\ NoDanglingUse' /\ (Lanes = {} => ReadsAreCurrent')
  BY <1>2 DEF ExitReleasesEverything, NoDanglingUse, ReadsAreCurrent, Sound
<1> QED BY <1>3, <1>6, <1>7 DEF IInv, Idle, Nothing

\* A call fails.
LEMMA UnwindStep ==
  ASSUME IInv, status = "running", NEW X, Sound(X), Unwind(X)
  PROVE  IInv'
<1>1. /\ Books(writer, frames, stmt) /\ Stacked(frames) /\ Match(writer.live, cvar, open)
      /\ builderOpen = writer.builder /\ trackerOpen = writer.tracker /\ Sound(faults)
      /\ result = Null /\ TypeOK /\ Len(frames) <= MaxDepth
  BY SoundFaults, Typed DEF IInv, Running, Books
<1>2. builderOpen' = FALSE
  BY <1>1 DEF Unwind, FailureExit, TypeOK
<1>3. CASE InTry
  <2> DEFINE i == Max(FramesOf({"try"}))
             s == frames[i].snap
             g == [frames[i] EXCEPT !.kind = "handler", !.at = "head"]
             gs == Replaced(frames, i, g)
  <2>1. i \in DOMAIN frames /\ FramesOf({"try"}) = {i} /\ frames[i].kind = "try"
    BY <1>1, <1>3, TheTry
  <2>2. Preserved = s.live
    BY <2>1 DEF Preserved
  <2>3. /\ writer' = s /\ bound' = KnownBindings /\ cvar' = Settle(cvar) /\ stmt' = Nothing
        /\ frames' = [SubSeq(frames, 1, i) EXCEPT ![i].kind = "handler", ![i].at = "head"]
        /\ UNCHANGED <<original, trackerOpen, status, result>>
        /\ open' = open \ Values(writer.live \ s.live)
        /\ faults' = faults \cup ClosingFaults(writer.live \ s.live) \cup X
    BY <1>3, <2>2, NothingOK DEF Unwind, FailureExit
  <2> HIDE DEF i
  <2>4. i \in Nat /\ 0 < i /\ i <= Len(frames) /\ Len(frames) \in Nat /\ frames[i] \in FrameType
    BY <1>1, <2>1, FrameTypes
  <2>5. frames' = gs
    <3>1. /\ SubSeq(frames, 1, i) \in Seq(FrameType) /\ Len(SubSeq(frames, 1, i)) = i
          /\ \A j \in 1 .. i : SubSeq(frames, 1, i)[j] = frames[j]
      BY <1>1, <2>4, SubSeqProperties DEF Stacked
    <3>2. SubSeq(frames, 1, i) = [j \in 1 .. i |-> frames[j]]
      BY <3>1
    <3> QED BY <2>3, <2>4, <3>2 DEF Replaced
  <2>6. /\ g \in FrameType /\ g.snap = s /\ g.head = frames[i].head /\ g.kind = "handler"
        /\ g.names = frames[i].names /\ g.target = frames[i].target /\ g.seq = frames[i].seq
        /\ g.els = frames[i].els /\ s \in WriterType
    BY <2>4 DEF FrameType
  <2>7. FrameOK(frames[i], Seqs(frames, i - 1))
    BY <1>1, <2>1 DEF Stacked
  <2> HIDE DEF g
  <2>8. FrameOK(g, Seqs(frames, i - 1)) /\ g.seq = None /\ s.builder = FALSE
        /\ Owns(s, Seqs(frames, i - 1) \cup ({None} \ {None}))
    BY <2>1, <2>6, <2>7 DEF FrameOK
  <2>9. /\ Stacked(gs) /\ Len(gs) = i /\ AllSeqs(gs) = Seqs(frames, i - 1) \cup ({g.seq} \ {None})
        /\ Inside(gs, s)
    BY <1>1, <2>1, <2>6, <2>8, ReplaceFrame DEF Same
  <2>10. Books(s, gs, Nothing)
    BY <2>8, <2>9, NothingOK, NoOperands DEF Books, Nothing
  <2>11. Len(gs) <= MaxDepth
    BY <1>1, <2>4, <2>9, Constants
  <2>12. IsSaved(frames[i])
    BY <2>1 DEF IsSaved
  <2>13. writer.live \ s.live \in SUBSET writer.live
    OBVIOUS
  <2>14. ClosingFaults(writer.live \ s.live) = {}
    BY <1>1, <2>13, ClosingLive
  <2>15. Sound(faults')
    BY <1>1, <2>3, <2>14 DEF Sound
  <2>16. s.live \subseteq frames[i].snap.live /\ s.locals = frames[i].snap.locals
         /\ s.borrowed = frames[i].snap.borrowed
    OBVIOUS
  <2> HIDE DEF s, gs
  <2> QED BY <1>2, <2>1, <2>3, <2>5, <2>6, <2>8, <2>10, <2>11, <2>12, <2>15, <2>16, RestoreStep
<1>4. CASE ~InTry
  <2>1. Preserved = {}
    BY <1>4 DEF Preserved, InTry
  <2>2. /\ Ended /\ status' = "failed" /\ result' = result
        /\ open' = open \ Values(writer.live)
        /\ faults' = faults \cup ClosingFaults(writer.live) \cup X
    BY <1>4, <2>1 DEF Unwind, FailureExit
  <2>3. open' = {}
    BY <1>1, <2>2 DEF Match, Values
  <2>4. Sound(faults')
    BY <1>1, <2>2, ClosingLive DEF Sound
  <2> QED BY <1>1, <1>2, <2>2, <2>3, <2>4, EndedStep
<1> QED BY <1>3, <1>4

-----------------------------------------------------------------------------
(* Steps after which a name is held in another way.                        *)

\* The temporary t, in use by nothing that Inside speaks of, becomes x's.
LEMMA ReheldBooks ==
  ASSUME SoundShapes, Books(writer, frames, stmt), writer \in WriterType,
         NEW x \in Names, x \notin writer.stable, Rehold(x),
         NEW v, v.locals = [writer.locals EXCEPT ![x] = v.locals[x]],
         writer.stable \subseteq v.stable
  PROVE  Inside(frames, v)
<1>1. /\ Stacked(frames) /\ Inside(frames, writer) /\ writer.borrowed = Args
  BY DEF Books, Owns
<1>2. \A y \in Names \ {x} : v.locals[y] = writer.locals[y]
  <2>1. writer.locals \in [Names -> Temps \cup {None}]
    BY DEF WriterType
  <2> QED BY <2>1
<1> QED BY <1>1, <1>2, ReholdSafe, InsideReheld

\* x is bound to the value in v, one of those in hand; the writer goes on with
\* the values in new.
LEMMA RebindStep ==
  ASSUME IInv, SoundShapes, status = "running",
         NEW x \in Names, NEW v \in Range(stmt.operands), NEW extra \in SUBSET {NewTemp},
         extra # {} => CanAllocate,
         Rebind(x, v, extra),
         NEW s \in StatementType, stmt' = s,
         Range(s.operands) = (Range(stmt.operands) \ {v}) \cup extra,
         \A w : w.stable = writer.stable /\ w.builder = writer.builder => StatementOK(w, frames, s)
  PROVE  IInv'
<1> DEFINE R == Range(stmt.operands)
           Q == Range(s.operands)
           slot == writer.locals[x]
<1>1. /\ writer \in WriterType /\ cvar \in Slotted /\ bound \in Bound /\ original \subseteq Args
      /\ TypeOK /\ Len(frames) <= MaxDepth
  BY Typed DEF IInv
<1>2. /\ Books(writer, frames, stmt) /\ Match(writer.live, cvar, open)
      /\ Bindings(writer, cvar, bound, original) /\ Sound(faults)
      /\ builderOpen = writer.builder
      /\ Owns(writer, AllSeqs(frames) \cup R) /\ AllSeqs(frames) \cap R = {}
  BY SoundFaults DEF IInv, Running, Books
<1>3. /\ writer.live = Slots(writer) \cup AllSeqs(frames) \cup R
      /\ R \cap (Slots(writer) \cup AllSeqs(frames)) = {}
  BY <1>2, LiveParts
<1>4. /\ writer.live \subseteq Temps /\ writer.locals \in [Names -> Temps \cup {None}]
      /\ v \in writer.live /\ v \in Temps /\ v \notin Slots(writer) /\ v # None
      /\ None \notin Temps
  BY <1>1, <1>3, Constants DEF WriterType, Temps
<1>5. \A t \in extra : /\ t = NewTemp /\ t \in Temps /\ t \notin writer.live
                       /\ NewHandle \in Handles /\ NewHandle # Null /\ NewHandle \notin open
  BY <1>1, Fresh DEF CanAllocate
<1>6. /\ Rehold(x) /\ open' = (open \ Values(Holding(x))) \cup {NewHandle : t \in extra}
      /\ faults' = faults \cup ClosingFaults(Holding(x))
      /\ bound' = [bound EXCEPT ![x] = cvar[v]] /\ original' = original \ {x}
      /\ UNCHANGED <<frames, builderOpen, trackerOpen, status, result>>
  BY DEF Rebind, BindClosing
<1>7. Holding(x) \in SUBSET writer.live
  BY <1>3 DEF Holding, Slots
<1>8. Sound(faults')
  BY <1>2, <1>6, <1>7, ClosingLive DEF Sound
<1>9. bound' \in Bound /\ original' \subseteq Args
  <2>1. cvar[v] \in Handles \cup {Null, Caller}
    BY <1>1, <1>4 DEF Slotted
  <2> QED BY <1>1, <1>6, <2>1 DEF Bound
<1>10. Match(writer.live \ Holding(x), cvar, open \ Values(Holding(x)))
  BY <1>2, <1>7, ClosingLive
<1>11. \A y \in Names \ {x} : /\ writer.locals[y] # None => writer.locals[y] # slot
                              /\ bound'[y] = bound[y]
  BY <1>1, <1>2, <1>6 DEF Owns, Bound
<1>12. bound'[x] = cvar[v]
  BY <1>1, <1>6 DEF Bound
<1>13. CASE x \in writer.stable
  <2> DEFINE f == [t \in Temps |-> IF t \in extra THEN NewHandle
                                   ELSE [cvar EXCEPT ![slot] = cvar[v]][t]]
  <2>1. slot # None /\ slot \in Slots(writer) /\ slot \in Temps /\ Holding(x) = {slot}
    BY <1>2, <1>4, <1>13 DEF Owns, Slots, Holding
  <2>2. writer' = [writer EXCEPT !.live = (@ \ {v}) \cup extra] /\ cvar' = Settle(f)
    BY <1>13 DEF Rebind, BindClosing
  <2>3. /\ writer'.live = (writer.live \ {v}) \cup extra /\ writer' \in WriterType
        /\ writer'.locals = writer.locals /\ writer'.stable = writer.stable
        /\ writer'.borrowed = writer.borrowed /\ writer'.tracker = writer.tracker
        /\ writer'.builder = writer.builder
    BY <1>1, <1>5, <2>2 DEF WriterType
  <2>4. StatementOK(writer', frames, s)
    BY <2>3
  <2>5. Books(writer', frames', stmt')
    <3>1. writer'.live = Slots(writer) \cup AllSeqs(frames) \cup Q
      BY <1>3, <1>4, <2>3
    <3>2. Q \cap (Slots(writer) \cup AllSeqs(frames)) = {}
      BY <1>3, <1>5
    <3> QED BY <1>2, <1>6, <2>3, <2>4, <3>1, <3>2, EvaluationBooks
  <2>6. f \in Slotted
    BY <1>1, <1>4, <1>5 DEF Slotted
  <2>7. /\ f[slot] = cvar[v] /\ (\A t \in extra : f[t] = NewHandle)
        /\ \A t \in Temps : t \notin extra /\ t # slot => f[t] = cvar[t]
    BY <1>1, <1>3, <1>5, <2>1 DEF Slotted
  <2> HIDE DEF f
  <2>8. Match(writer.live \ {v}, f, open \ Values(Holding(x)))
    <3>1. v \in writer.live \ {slot} /\ slot \notin writer.live \ {slot}
      BY <1>4, <2>1
    <3>2. \A t \in (writer.live \ {slot}) \ {v} : f[t] = cvar[t]
      BY <1>4, <1>5, <2>7
    <3>3. Match(((writer.live \ {slot}) \ {v}) \cup {slot}, f, open \ Values(Holding(x)))
      BY <1>10, <2>1, <2>7, <3>1, <3>2, MatchMove
    <3>4. ((writer.live \ {slot}) \ {v}) \cup {slot} = writer.live \ {v}
      BY <1>3, <1>4, <2>1
    <3> QED BY <3>3, <3>4
  <2>9. Match(writer'.live, f, open')
    <3>1. CASE extra = {}
      BY <1>6, <2>3, <2>8, <3>1
    <3>2. CASE extra # {}
      <4>1. extra = {NewTemp}
        BY <3>2
      <4>2. NewTemp \notin writer.live \ {v} /\ f[NewTemp] \notin open \ Values(Holding(x))
            /\ {f[NewTemp]} \ {Null} = {NewHandle}
        BY <1>5, <2>7, <4>1
      <4>3. Match((writer.live \ {v}) \cup {NewTemp}, f, (open \ Values(Holding(x))) \cup {NewHandle})
        BY <2>8, <4>2, MatchAdd
      <4> QED BY <1>6, <2>3, <4>1, <4>3
    <3> QED BY <3>1, <3>2
  <2>10. Bindings(writer', f, bound', original')
    <3> SUFFICES ASSUME NEW y \in Names
                 PROVE  /\ writer.locals[y] # None => bound'[y] = f[writer.locals[y]]
                        /\ writer.locals[y] = None /\ y \in writer.borrowed
                             => y \in original' /\ bound'[y] = Caller
                        /\ ~IsInitialized(writer, y) => bound'[y] = Null
      BY <2>3 DEF Bindings, IsInitialized
    <3>1. CASE y = x
      BY <3>1, <1>12, <2>1, <2>7 DEF IsInitialized
    <3>2. CASE y # x
      <4>1. writer.locals[y] # None => f[writer.locals[y]] = cvar[writer.locals[y]]
        BY <3>2, <1>3, <1>4, <1>5, <1>11, <2>7 DEF Slots
      <4> QED BY <3>2, <4>1, <1>2, <1>6, <1>11 DEF Bindings
    <3> QED BY <3>1, <3>2
  <2>11. status' = "running" /\ Len(frames') <= MaxDepth /\ stmt' \in StatementType
         /\ builderOpen' = writer'.builder
    BY <1>1, <1>2, <1>6, <2>3
  <2> QED BY <1>6, <1>8, <1>9, <2>2, <2>3, <2>5, <2>6, <2>9, <2>10, <2>11, Assemble
<1>14. CASE x \notin writer.stable
  <2> DEFINE f == [t \in Temps |-> IF t \in extra THEN NewHandle ELSE cvar[t]]
             m == [writer EXCEPT !.live = @ \ Holding(x), !.locals[x] = v]
  <2>1. /\ writer' = [writer EXCEPT !.live = (@ \ Holding(x)) \cup extra, !.locals[x] = v]
        /\ cvar' = Settle(f)
    BY <1>14 DEF Rebind, BindClosing
  <2>2. /\ m.live = writer.live \ Holding(x) /\ m.stable = writer.stable
        /\ m.borrowed = writer.borrowed /\ m.tracker = writer.tracker /\ m.builder = writer.builder
        /\ m.locals = [writer.locals EXCEPT ![x] = v] /\ m \in WriterType
    BY <1>1, <1>4 DEF WriterType
  <2> HIDE DEF m
  <2>3. /\ writer'.live = m.live \cup extra /\ writer'.locals = m.locals
        /\ writer'.stable = m.stable /\ writer'.borrowed = m.borrowed
        /\ writer'.tracker = m.tracker /\ writer'.builder = m.builder /\ writer' \in WriterType
    BY <1>1, <1>4, <1>5, <2>1, <2>2 DEF WriterType
  <2>4. Owns(m, (AllSeqs(frames) \cup R) \ {v})
    <3>1. v \in AllSeqs(frames) \cup R
      OBVIOUS
    <3> QED BY <1>1, <1>2, <1>4, <2>2, <3>1, OwnsBinding DEF Holding
  <2>5. (AllSeqs(frames) \cup R) \ {v} = AllSeqs(frames) \cup (R \ {v})
    BY <1>3
  <2>6. \A t \in extra : t \notin Slots(m) /\ t \notin AllSeqs(frames)
    <3>1. m.live \subseteq writer.live \cup {v} /\ Slots(m) \subseteq m.live
      BY <2>2, <2>4 DEF Owns
    <3> QED BY <1>3, <1>4, <1>5, <3>1
  <2>7. Owns(writer', AllSeqs(frames) \cup Q)
    <3>1. writer'.live = Slots(m) \cup (AllSeqs(frames) \cup Q)
      BY <2>3, <2>4, <2>5 DEF Owns
    <3>2. Slots(m) \cap (AllSeqs(frames) \cup Q) = {}
      BY <2>4, <2>5, <2>6 DEF Owns
    <3> QED BY <2>3, <2>4, <3>1, <3>2, OwnsOthers
  <2>8. Inside(frames, writer')
    <3>1. writer'.locals[x] = v
      BY <1>4, <2>2, <2>3
    <3> QED BY <1>1, <1>2, <1>6, <1>14, <2>2, <2>3, <3>1, ReheldBooks
  <2>9. Books(writer', frames', stmt')
    <3>1. AllSeqs(frames) \cap Q = {}
      BY <1>3, <1>5
    <3>2. StatementOK(writer', frames, s)
      BY <2>2, <2>3
    <3> QED BY <1>2, <1>6, <2>7, <2>8, <3>1, <3>2 DEF Books
  <2>10. /\ f \in Slotted /\ (\A t \in extra : f[t] = NewHandle)
         /\ \A t \in writer.live : f[t] = cvar[t]
    BY <1>1, <1>4, <1>5 DEF Slotted
  <2> HIDE DEF f
  <2>11. Match(writer'.live, f, open')
    <3>1. CASE extra = {}
      <4>1. \A t \in writer.live \ Holding(x) : f[t] = cvar[t]
        BY <2>10
      <4>2. Match(writer.live \ Holding(x), f, open \ Values(Holding(x)))
        BY <1>10, <4>1, MatchSame
      <4> QED BY <1>6, <2>2, <2>3, <3>1, <4>2
    <3>2. CASE extra # {}
      <4>1. extra = {NewTemp}
        BY <3>2
      <4>2. /\ NewTemp \notin writer.live \ Holding(x)
            /\ f[NewTemp] \notin open \ Values(Holding(x))
            /\ {f[NewTemp]} \ {Null} = {NewHandle}
            /\ \A t \in writer.live \ Holding(x) : f[t] = cvar[t]
        BY <1>5, <2>10, <4>1
      <4>3. Match((writer.live \ Holding(x)) \cup {NewTemp}, f,
                  (open \ Values(Holding(x))) \cup {NewHandle})
        BY <1>10, <4>2, MatchAdd
      <4> QED BY <1>6, <2>2, <2>3, <4>1, <4>3
    <3> QED BY <3>1, <3>2
  <2>12. Bindings(writer', f, bound', original')
    <3> SUFFICES ASSUME NEW y \in Names
                 PROVE  /\ m.locals[y] # None => bound'[y] = f[m.locals[y]]
                        /\ m.locals[y] = None /\ y \in writer.borrowed
                             => y \in original' /\ bound'[y] = Caller
                        /\ ~IsInitialized(m, y) => bound'[y] = Null
      BY <2>2, <2>3 DEF Bindings, IsInitialized
    <3>1. CASE y = x
      BY <3>1, <1>4, <1>12, <2>2, <2>10 DEF IsInitialized
    <3>2. CASE y # x
      <4>1. m.locals[y] = writer.locals[y]
        BY <3>2, <1>4, <2>2
      <4>2. writer.locals[y] # None => f[writer.locals[y]] = cvar[writer.locals[y]]
        BY <1>3, <2>10 DEF Slots
      <4> QED BY <3>2, <4>1, <4>2, <1>2, <1>6, <1>11, <2>2 DEF Bindings, IsInitialized
    <3> QED BY <3>1, <3>2
  <2>13. status' = "running" /\ Len(frames') <= MaxDepth /\ stmt' \in StatementType
         /\ builderOpen' = writer'.builder
    BY <1>1, <1>2, <1>6, <2>2, <2>3
  <2> QED BY <1>6, <1>8, <1>9, <2>1, <2>3, <2>9, <2>10, <2>11, <2>12, <2>13, Assemble
<1> QED BY <1>13, <1>14

\* A name gets a slot of its own.
LEMMA PromoteStep ==
  ASSUME IInv, SoundShapes, NEW x \in Names, promote_local_slot(x)
  PROVE  IInv'
<1> DEFINE R == Range(stmt.operands)
           held == writer.locals[x]
           slot == NewTemp
           argument == held = None /\ x \in writer.borrowed
           value == IF held # None THEN cvar[held] ELSE IF argument THEN NewHandle ELSE Null
           f == [cvar EXCEPT ![slot] = value]
           s == [stmt EXCEPT !.pending = @ \ {x}]
<1>1. /\ writer \in WriterType /\ cvar \in Slotted /\ bound \in Bound /\ original \subseteq Args
      /\ TypeOK /\ Len(frames) <= MaxDepth /\ stmt \in StatementType
  BY Typed DEF IInv
<1>2. /\ status = "running" /\ x \in stmt.pending /\ stmt' = s
      /\ UNCHANGED <<frames, original, builderOpen, trackerOpen, status, result, faults>>
  BY DEF promote_local_slot, promoteFrom
<1>3. /\ Books(writer, frames, stmt) /\ Match(writer.live, cvar, open)
      /\ Bindings(writer, cvar, bound, original) /\ Sound(faults)
      /\ builderOpen = writer.builder
      /\ Owns(writer, AllSeqs(frames) \cup R) /\ AllSeqs(frames) \cap R = {}
  BY <1>2, SoundFaults DEF IInv, Running, Books
<1>4. /\ s \in StatementType /\ s.operands = stmt.operands /\ s.goal = stmt.goal
      /\ s.name = stmt.name /\ s.pending = stmt.pending \ {x} /\ s.names = stmt.names
      /\ s.els = stmt.els
  BY <1>1 DEF StatementType
<1> HIDE DEF s
<1>5. ASSUME NEW w, x \in w.stable, writer.stable \subseteq w.stable, w.builder = writer.builder
      PROVE  StatementOK(w, frames, s)
  BY <1>2, <1>3, <1>4, <1>5 DEF Books, StatementOK, Nothing
<1>6. CASE x \in writer.stable /\ UNCHANGED <<writer, cvar, open, bound>>
  <2>1. StatementOK(writer, frames, s)
    BY <1>5, <1>6
  <2> QED BY <1>2, <1>4, <1>6, <2>1, StatementStep DEF runtime
<1>7. CASE x \notin writer.stable /\ Rehold(x) /\ CanAllocate
  <2>1. /\ slot \in Temps \ writer.live /\ slot # None
        /\ NewHandle \in Handles /\ NewHandle # Null /\ NewHandle \notin open
    BY <1>1, <1>7, Fresh DEF CanAllocate
  <2>2. /\ writer' = [writer EXCEPT !.live = (@ \ {held}) \cup {slot},
                                    !.locals[x] = slot, !.stable = @ \cup {x}]
        /\ open' = IF argument THEN open \cup {NewHandle} ELSE open
        /\ bound' = IF argument /\ bound[x] = Caller
                    THEN [bound EXCEPT ![x] = NewHandle] ELSE bound
        /\ cvar' = Settle(f)
    BY <1>2, <1>7 DEF promote_local_slot, promoteFrom
  <2> HIDE DEF slot
  <2>3. /\ writer.live \subseteq Temps /\ writer.locals \in [Names -> Temps \cup {None}]
        /\ None \notin Temps /\ held \in Temps \cup {None}
        /\ writer.live = Slots(writer) \cup AllSeqs(frames) \cup R
        /\ held # None => held \in Slots(writer)
    BY <1>1, <1>3, LiveParts, Constants DEF WriterType, Temps, Slots
  <2>4. /\ writer'.live = (writer.live \ {held}) \cup {slot} /\ writer' \in WriterType
        /\ writer'.locals = [writer.locals EXCEPT ![x] = slot]
        /\ writer'.stable = writer.stable \cup {x}
        /\ writer'.borrowed = writer.borrowed /\ writer'.tracker = writer.tracker
        /\ writer'.builder = writer.builder
    BY <1>1, <2>1, <2>2, <2>3 DEF WriterType
  <2>5. writer'.locals[x] = slot /\ \A y \in Names \ {x} : writer'.locals[y] = writer.locals[y]
    BY <2>3, <2>4
  <2>6. Owns(writer', AllSeqs(frames) \cup R)
    <3> DEFINE m == [writer EXCEPT !.live = @ \cup {slot}]
    <3>1. /\ m.live = writer.live \cup {slot} /\ m.locals = writer.locals
          /\ m.stable = writer.stable /\ m.borrowed = writer.borrowed
          /\ m.tracker = writer.tracker /\ m \in WriterType
      BY <1>1, <2>1 DEF WriterType
    <3> HIDE DEF m
    <3>2. Slots(m) = Slots(writer)
      BY <3>1 DEF Slots
    <3>3. /\ m.live = Slots(writer) \cup (AllSeqs(frames) \cup R \cup {slot})
          /\ Slots(writer) \cap (AllSeqs(frames) \cup R \cup {slot}) = {}
      BY <1>3, <2>1, <2>3, <3>1 DEF Owns
    <3>4. Owns(m, AllSeqs(frames) \cup R \cup {slot})
      BY <1>3, <3>1, <3>3, OwnsOthers
    <3>5. writer'.live = m.live \ ({m.locals[x]} \ {None})
      BY <2>1, <2>3, <2>4, <3>1
    <3>6. Owns(writer', (AllSeqs(frames) \cup R \cup {slot}) \ {slot})
      BY <2>1, <2>4, <3>1, <3>4, <3>5, OwnsBinding
    <3>7. (AllSeqs(frames) \cup R \cup {slot}) \ {slot} = AllSeqs(frames) \cup R
      BY <2>1, <2>3
    <3> QED BY <3>6, <3>7
  <2>7. Inside(frames, writer')
    BY <1>1, <1>3, <1>7, <2>4, <2>5, ReheldBooks
  <2>8. Books(writer', frames', stmt')
    <3>1. StatementOK(writer', frames, s)
      BY <1>5, <2>4
    <3> QED BY <1>2, <1>3, <1>4, <2>6, <2>7, <3>1 DEF Books
  <2>9. value \in Handles \cup {Null}
    BY <1>1, <2>1, <2>3 DEF Slotted
  <2>10. f \in Slotted /\ f[slot] = value /\ \A t \in writer.live : f[t] = cvar[t]
    BY <1>1, <2>1, <2>3, <2>9 DEF Slotted
  <2> HIDE DEF f
  <2>11. Match(writer'.live, f, open')
    <3>1. CASE held # None
      <4>1. held \in writer.live /\ open' = open /\ f[slot] = cvar[held]
            /\ \A t \in writer.live \ {held} : f[t] = cvar[t]
        BY <2>2, <2>3, <2>10, <3>1
      <4> QED BY <1>3, <2>1, <2>4, <4>1, MatchMove
    <3>2. CASE argument
      <4>1. open' = open \cup ({f[slot]} \ {Null}) /\ f[slot] \notin open
            /\ writer'.live = writer.live \cup {slot}
        BY <2>1, <2>2, <2>3, <2>4, <2>10, <3>2
      <4>2. Match(writer.live \cup {slot}, f, open \cup ({f[slot]} \ {Null}))
        BY <1>3, <2>1, <2>10, <4>1, MatchAdd
      <4> QED BY <4>1, <4>2
    <3>3. CASE held = None /\ ~argument
      <4>1. open' = open /\ f[slot] = Null /\ writer'.live = writer.live \cup {slot}
        BY <2>2, <2>3, <2>4, <2>10, <3>3
      <4> QED BY <1>3, <2>1, <2>10, <4>1, MatchAdd
    <3> QED BY <3>1, <3>2, <3>3
  <2>12. bound'[x] = value /\ \A y \in Names \ {x} : bound'[y] = bound[y]
    <3>1. CASE held # None
      <4>1. bound[x] = cvar[held]
        BY <1>3, <3>1 DEF Bindings
      <4> QED BY <2>2, <3>1, <4>1
    <3>2. CASE argument
      <4>1. bound[x] = Caller
        BY <1>3, <3>2 DEF Bindings
      <4> QED BY <1>1, <2>2, <3>2, <4>1 DEF Bound
    <3>3. CASE held = None /\ ~argument
      <4>1. bound[x] = Null
        BY <1>3, <3>3 DEF Bindings, IsInitialized
      <4> QED BY <2>2, <3>3, <4>1
    <3> QED BY <3>1, <3>2, <3>3
  <2>13. bound' \in Bound
    BY <1>1, <2>1, <2>2 DEF Bound
  <2>14. Bindings(writer', f, bound', original')
    <3> SUFFICES ASSUME NEW y \in Names
                 PROVE  /\ writer'.locals[y] # None => bound'[y] = f[writer'.locals[y]]
                        /\ writer'.locals[y] = None /\ y \in writer.borrowed
                             => y \in original /\ bound'[y] = Caller
                        /\ writer'.locals[y] = None /\ y \notin writer.borrowed => bound'[y] = Null
      BY <1>2, <2>4 DEF Bindings, IsInitialized
    <3>1. CASE y = x
      BY <3>1, <2>1, <2>5, <2>10, <2>12
    <3>2. CASE y # x
      <4>1. writer.locals[y] # None => f[writer.locals[y]] = cvar[writer.locals[y]]
        BY <2>3, <2>10 DEF Slots
      <4> QED BY <3>2, <4>1, <1>3, <2>5, <2>12 DEF Bindings, IsInitialized
    <3> QED BY <3>1, <3>2
  <2> QED BY <1>1, <1>2, <1>3, <1>4, <2>2, <2>4, <2>8, <2>10, <2>11, <2>13, <2>14, Assemble
<1>8. \/ x \in writer.stable /\ UNCHANGED <<writer, cvar, open, bound>>
      \/ x \notin writer.stable /\ Rehold(x) /\ CanAllocate
  BY DEF promote_local_slot, promoteFrom
<1> QED BY <1>6, <1>7, <1>8

-----------------------------------------------------------------------------
(* The actions.                                                            *)

LEMMA OperandsTyped ==
  ASSUME IInv, status = "running"
  PROVE  /\ stmt.operands \in Seq(Temps) /\ Distinct(stmt.operands)
         /\ Books(writer, frames, stmt) /\ StatementOK(writer, frames, stmt)
         /\ stmt \in StatementType /\ writer \in WriterType /\ cvar \in Slotted
         /\ Stacked(frames) /\ Inside(frames, writer)
         /\ Match(writer.live, cvar, open) /\ Bindings(writer, cvar, bound, original)
         /\ builderOpen = writer.builder /\ trackerOpen = writer.tracker /\ result = Null
BY Typed DEF IInv, Running, Books, StatementOK

\* A value is pushed on those in hand.
LEMMA PushStep ==
  ASSUME IInv, Evaluating, NEW X, Sound(X), Apply({}, stmt.operands, X)
  PROVE  IInv'
<1>1. /\ stmt.operands \in Seq(Temps) /\ Distinct(stmt.operands)
  BY OperandsTyped DEF Evaluating
<1>2. Range(stmt.operands) = {} \cup Range(stmt.operands) /\ {} \cap Range(stmt.operands) = {}
  OBVIOUS
<1> QED BY <1>1, <1>2, ApplyStep

\* x is read as the handle it is taken to stand for, or is found unbound.
LEMMA ReadStep ==
  ASSUME IInv, Evaluating, NEW x \in Names, NEW handle, Read(x, handle),
         handle \in open \cup {Null, Caller}, Lanes = {} => IsValueOf(handle, x)
  PROVE  IInv'
<1> DEFINE misread == IF IsValueOf(handle, x) THEN {} ELSE {"stale"}
<1>1. Sound(misread)
  BY DEF Sound
<1>2. CASE handle = Null
  <2>1. Unwind(misread)
    BY <1>2 DEF Read
  <2> QED BY <1>1, <2>1, UnwindStep DEF Evaluating
<1>3. CASE handle # Null
  <2>1. Apply({}, stmt.operands,
              misread \cup IF handle \in open \cup {Caller} THEN {} ELSE {"dangling"})
    BY <1>3 DEF Read
  <2>2. misread \cup (IF handle \in open \cup {Caller} THEN {} ELSE {"dangling"}) = misread
    BY <1>3
  <2>3. Apply({}, stmt.operands, misread)
    BY <2>1, <2>2
  <2> HIDE DEF misread
  <2> QED BY <1>1, <2>3, PushStep
<1> QED BY <1>2, <1>3

\* What a name the writer knows stands for.
LEMMA DenotesValue ==
  ASSUME IInv, status = "running", NEW x \in Names, IsInitialized(writer, x)
  PROVE  /\ Denotes(x) \in open \cup {Null, Caller} /\ IsValueOf(Denotes(x), x)
         /\ x \in writer.borrowed /\ writer.locals[x] = None => IsValueOf(Caller, x)
<1>1. /\ Bindings(writer, cvar, bound, original) /\ Match(writer.live, cvar, open)
      /\ Books(writer, frames, stmt) /\ cvar \in Slotted /\ writer \in WriterType
  BY OperandsTyped
<1>2. CASE writer.locals[x] # None
  <2>1. writer.locals[x] \in writer.live
    BY <1>1, <1>2, LiveParts DEF Slots
  <2>2. cvar[writer.locals[x]] \in open \cup {Null} /\ cvar[writer.locals[x]] \in Handles \cup {Null}
    BY <1>1, <2>1 DEF Match, Slotted, WriterType
  <2>3. bound[x] = cvar[writer.locals[x]]
    BY <1>1, <1>2 DEF Bindings
  <2> QED BY <1>2, <2>2, <2>3, NullNoHandle DEF Denotes, IsValueOf
<1>3. CASE writer.locals[x] = None
  <2>1. x \in original
    BY <1>1, <1>3 DEF Bindings, IsInitialized
  <2> QED BY <1>3, <2>1 DEF Denotes, IsValueOf
<1> QED BY <1>2, <1>3

LEMMA CombineStep ==
  ASSUME IInv, Combine
  PROVE  IInv'
<1>1. <<>> \in Seq(Temps) /\ Distinct(<<>>) /\ Range(<<>>) = {}
  BY NoOperands
<1>2. Apply(Range(stmt.operands), <<>>, {}) /\ Evaluating
  BY DEF Combine
<1>3. Range(stmt.operands) = Range(stmt.operands) \cup Range(<<>>)
      /\ Range(stmt.operands) \cap Range(<<>>) = {}
  BY <1>1
<1> QED BY <1>1, <1>2, <1>3, SoundNone, ApplyStep

\* A builder is opened, filled and finished.
LEMMA BuilderStep ==
  ASSUME IInv, allocate_sequence_builder \/ set_sequence_builder_item \/ build_sequence
  PROVE  IInv'
<1>1. status = "running" /\ Evaluating
  BY DEF allocate_sequence_builder, set_sequence_builder_item, build_sequence, Evaluating
<1>2. /\ stmt.operands \in Seq(Temps) /\ Books(writer, frames, stmt)
      /\ StatementOK(writer, frames, stmt) /\ writer \in WriterType /\ stmt \in StatementType
      /\ cvar \in Slotted /\ Match(writer.live, cvar, open) /\ builderOpen = writer.builder
      /\ Sound(faults) /\ TypeOK
  BY <1>1, OperandsTyped, SoundFaults DEF IInv
<1>3. /\ writer.live = Slots(writer) \cup AllSeqs(frames) \cup Range(stmt.operands)
      /\ Range(stmt.operands) \cap (Slots(writer) \cup AllSeqs(frames)) = {}
  BY <1>2, LiveParts
<1>4. CASE allocate_sequence_builder
  <2>1. /\ writer' = [writer EXCEPT !.builder = TRUE] /\ builderOpen' = TRUE
        /\ UNCHANGED <<frames, stmt, cvar, open, bound, original, trackerOpen, status, result, faults>>
    BY <1>4 DEF allocate_sequence_builder
  <2>2. /\ writer'.live = writer.live /\ writer' \in WriterType /\ writer'.builder = TRUE
        /\ writer'.locals = writer.locals /\ writer'.stable = writer.stable
        /\ writer'.borrowed = writer.borrowed /\ writer'.tracker = writer.tracker
    BY <1>2, <2>1 DEF WriterType
  <2>3. StatementOK(writer', frames, stmt')
    BY <1>1, <1>2, <2>1, <2>2 DEF StatementOK, Evaluating
  <2> QED BY <1>1, <1>2, <1>3, <2>1, <2>2, <2>3, Evaluates
<1>5. CASE set_sequence_builder_item
  <2>1. Len(stmt.operands) = 1
    BY <1>5 DEF set_sequence_builder_item
  <2>2. Range(stmt.operands) = {Value} /\ Value \in Temps
    BY <1>2, <2>1, OneOperand DEF Value
  <2>3. /\ writer' = [writer EXCEPT !.live = @ \ {Value}] /\ open' = open \ Values({Value})
        /\ faults' = faults \cup ClosingFaults({Value})
        /\ stmt' = [stmt EXCEPT !.operands = <<>>]
        /\ UNCHANGED <<frames, bound, original, builderOpen, trackerOpen, status, result>>
        /\ cvar' = Settle(cvar)
    BY <1>5 DEF set_sequence_builder_item
  <2>4. /\ writer'.live = writer.live \ {Value} /\ writer' \in WriterType
        /\ writer'.builder = writer.builder
        /\ writer'.locals = writer.locals /\ writer'.stable = writer.stable
        /\ writer'.borrowed = writer.borrowed /\ writer'.tracker = writer.tracker
    BY <1>2, <2>3 DEF WriterType
  <2>5. /\ stmt' \in StatementType /\ stmt'.operands = <<>> /\ stmt'.goal = stmt.goal
        /\ stmt'.name = stmt.name /\ stmt'.pending = stmt.pending /\ stmt'.names = stmt.names
        /\ stmt'.els = stmt.els /\ Range(stmt'.operands) = {} /\ Distinct(stmt'.operands)
    BY <1>2, <2>3, NoOperands DEF StatementType
  <2>6. StatementOK(writer', frames, stmt')
    BY <1>1, <1>2, <2>4, <2>5, NoOperands DEF StatementOK, Evaluating
  <2>7. {Value} \in SUBSET writer.live
    BY <1>3, <2>2
  <2>8. Match(writer'.live, cvar, open')
    <3>1. Match(writer.live \ {Value}, cvar, open \ Values({Value}))
      BY <1>2, <2>7, ClosingLive
    <3> QED BY <2>3, <2>4, <3>1
  <2>9. Sound(faults')
    BY <1>2, <2>3, <2>7, ClosingLive DEF Sound
  <2>10. writer'.live = Slots(writer) \cup AllSeqs(frames) \cup Range(stmt'.operands)
    BY <1>3, <2>2, <2>4, <2>5
  <2> QED BY <1>1, <1>2, <2>3, <2>4, <2>5, <2>6, <2>8, <2>9, <2>10, Evaluates
<1>6. CASE build_sequence
  <2>1. /\ stmt.operands = <<>> /\ CanAllocate
        /\ writer' = [writer EXCEPT !.builder = FALSE, !.live = @ \cup {NewTemp}]
        /\ builderOpen' = FALSE /\ open' = open \cup {NewHandle}
        /\ stmt' = [stmt EXCEPT !.operands = <<NewTemp>>]
        /\ UNCHANGED <<frames, bound, original, trackerOpen, status, result, faults>>
        /\ cvar' = Settle([cvar EXCEPT ![NewTemp] = NewHandle])
    BY <1>6 DEF build_sequence
  <2> DEFINE t == NewTemp
             f == [cvar EXCEPT ![NewTemp] = NewHandle]
  <2>2. /\ t \in Temps \ writer.live /\ t # None
        /\ NewHandle \in Handles /\ NewHandle # Null /\ NewHandle \notin open
    BY <1>2, <2>1, Fresh DEF CanAllocate
  <2>3. /\ writer'.live = writer.live \cup {t} /\ writer' \in WriterType
        /\ writer'.builder = FALSE
        /\ writer'.locals = writer.locals /\ writer'.stable = writer.stable
        /\ writer'.borrowed = writer.borrowed /\ writer'.tracker = writer.tracker
    BY <1>2, <2>1, <2>2 DEF WriterType
  <2>4. <<t>> \in Seq(Temps) /\ Range(<<t>>) = {t} /\ Distinct(<<t>>)
    BY <2>2, SingleOperand
  <2>5. /\ stmt' \in StatementType /\ stmt'.operands = <<t>> /\ stmt'.goal = stmt.goal
        /\ stmt'.name = stmt.name /\ stmt'.pending = stmt.pending /\ stmt'.names = stmt.names
        /\ stmt'.els = stmt.els
    BY <1>2, <2>1, <2>4 DEF StatementType
  <2>6. StatementOK(writer', frames, stmt')
    BY <1>1, <1>2, <2>3, <2>4, <2>5 DEF StatementOK, Evaluating
  <2>7. f \in Slotted /\ f[t] = NewHandle /\ \A u \in writer.live : f[u] = cvar[u]
    BY <1>2, <2>2 DEF Slotted, WriterType
  <2>8. cvar' = Settle(f)
    BY <2>1
  <2> HIDE DEF f, t
  <2>9. Match(writer'.live, f, open')
    <3>1. t \notin writer.live /\ f[t] \notin open /\ {f[t]} \ {Null} = {NewHandle}
      BY <2>2, <2>7
    <3>2. Match(writer.live \cup {t}, f, open \cup {NewHandle})
      BY <1>2, <2>7, <3>1, MatchAdd
    <3> QED BY <2>1, <2>3, <3>2
  <2>10. /\ writer'.live = Slots(writer) \cup AllSeqs(frames) \cup Range(stmt'.operands)
         /\ Range(stmt'.operands) \cap (Slots(writer) \cup AllSeqs(frames)) = {}
    BY <1>3, <2>1, <2>2, <2>3, <2>4, <2>5, NoOperands
  <2>11. \A u \in Slots(writer) : f[u] = cvar[u]
    BY <1>3, <2>7
  <2> QED BY <1>1, <1>2, <2>1, <2>3, <2>5, <2>6, <2>7, <2>8, <2>9, <2>10, <2>11, Evaluates
<1> QED BY <1>4, <1>5, <1>6

LEMMA WalrusStep ==
  ASSUME IInv, SoundShapes, NEW x \in Names, generate_walrus(x)
  PROVE  IInv'
<1> DEFINE n == Len(stmt.operands)
           ops == [stmt.operands EXCEPT ![n] = NewTemp]
           s == [stmt EXCEPT !.operands = ops]
<1>1. /\ Evaluating /\ status = "running" /\ n > 0 /\ CanAllocate
      /\ Rebind(x, stmt.operands[n], {NewTemp}) /\ stmt' = [stmt EXCEPT !.operands[n] = NewTemp]
  BY DEF generate_walrus, Evaluating
<1>2. /\ stmt.operands \in Seq(Temps) /\ Distinct(stmt.operands) /\ Books(writer, frames, stmt)
      /\ StatementOK(writer, frames, stmt) /\ stmt \in StatementType /\ TypeOK
  BY <1>1, OperandsTyped DEF IInv
<1>3. NewTemp \in Temps \ Range(stmt.operands)
  <2>1. Range(stmt.operands) \subseteq writer.live
    BY <1>2, LiveParts
  <2> QED BY <1>1, <1>2, <2>1, Fresh DEF CanAllocate
<1>4. /\ stmt.operands[n] \in Range(stmt.operands) /\ ops \in Seq(Temps) /\ Distinct(ops)
      /\ Range(ops) = (Range(stmt.operands) \ {stmt.operands[n]}) \cup {NewTemp}
  BY <1>1, <1>2, <1>3, LastOperand
<1>5. stmt' = s
  BY <1>1, <1>2 DEF StatementType
<1> HIDE DEF ops
<1>6. /\ s \in StatementType /\ s.operands = ops /\ s.goal = stmt.goal
      /\ s.name = stmt.name /\ s.pending = stmt.pending /\ s.names = stmt.names
      /\ s.els = stmt.els
  BY <1>2, <1>4 DEF StatementType
<1> HIDE DEF s
<1>7. \A w : w.stable = writer.stable /\ w.builder = writer.builder => StatementOK(w, frames, s)
  BY <1>1, <1>2, <1>4, <1>6 DEF StatementOK, Evaluating
<1>8. PICK v \in Range(stmt.operands) : v = stmt.operands[n]
  BY <1>4
<1>9. Rebind(x, v, {NewTemp}) /\ Range(s.operands) = (Range(stmt.operands) \ {v}) \cup {NewTemp}
  BY <1>1, <1>4, <1>6, <1>8
<1> QED BY <1>1, <1>5, <1>6, <1>7, <1>9, RebindStep

LEMMA ExpressionStep ==
  ASSUME IInv, SoundShapes, Expression
  PROVE  IInv'
<1>1. CASE LoadFresh
  BY <1>1, SoundNone, PushStep DEF LoadFresh, CanPush
<1>2. CASE Combine
  BY <1>2, CombineStep
<1>3. CASE CallFails
  BY <1>3, SoundNone, UnwindStep DEF CallFails
<1>4. CASE allocate_sequence_builder \/ set_sequence_builder_item \/ build_sequence
  BY <1>4, BuilderStep
<1>5. ASSUME NEW x \in Names, duplicate_named_value(x) PROVE IInv'
  <2>1. /\ Evaluating /\ status = "running" /\ IsInitialized(writer, x) /\ Read(x, Denotes(x))
    BY <1>5 DEF duplicate_named_value, CanPush, Evaluating
  <2>2. Denotes(x) \in open \cup {Null, Caller} /\ IsValueOf(Denotes(x), x)
    BY <2>1, DenotesValue
  <2> QED BY <2>1, <2>2, ReadStep
<1>6. ASSUME NEW x \in Names, borrow_direct_named_value(x) PROVE IInv'
  <2>1. /\ Evaluating /\ status = "running" /\ IsInitialized(writer, x) /\ DirectIsCurrent(x)
        /\ Read(x, Direct(x))
    BY <1>6 DEF borrow_direct_named_value, CanPush, Evaluating
  <2>2. Direct(x) \in open \cup {Null, Caller}
    BY <2>1, DenotesValue DEF Direct
  <2>3. Lanes = {} => IsValueOf(Direct(x), x)
    BY <2>1, DenotesValue DEF Direct, DirectIsCurrent
  <2> QED BY <2>1, <2>2, <2>3, ReadStep
<1>7. ASSUME NEW x \in Names, generate_walrus(x) PROVE IInv'
  BY <1>7, WalrusStep
<1> QED BY <1>1, <1>2, <1>3, <1>4, <1>5, <1>6, <1>7 DEF Expression

LEMMA BeginStep ==
  ASSUME IInv, NEW goal \in Goals \ {"none", "condition"}, NEW x \in Names \cup {None},
         NEW pending \in SUBSET Names, NEW names \in SUBSET Names, NEW els \in {"none", "falls"},
         Begin(goal, x, pending, names, els),
         goal \in {"if", "while", "for"} => names \subseteq pending,
         goal = "delete" => x \in pending,
         goal = "assign" => x \in Names,
         goal = "for" => x \in names,
         goal = "returningIf" => names = {},
         goal \in {"if", "returningIf", "while", "for"} => Len(frames) < MaxDepth
  PROVE  IInv'
<1>1. /\ status = "running" /\ Idle /\ StartStatement(goal, x, pending, names, els)
      /\ UNCHANGED <<writer, frames, runtime, status, result, faults>>
      /\ frames # <<>> => ~(Top.kind \in {"loop", "handler"} /\ Top.at = "head")
  BY DEF Begin, Ready
<1>2. Stacked(frames) /\ stmt.operands = <<>> /\ ~writer.builder
  BY <1>1, OperandsTyped DEF StatementOK, Idle, Nothing
<1>3. frames # <<>> => frames[Len(frames)].at # "head"
  BY <1>1, <1>2, FrameTypes DEF Stacked, FrameOK, Top
<1>4. /\ stmt' \in StatementType /\ stmt'.operands = <<>> /\ stmt'.goal = goal
      /\ stmt'.name = x /\ stmt'.pending = pending /\ stmt'.names = names
      /\ stmt'.els = els /\ Distinct(<<>>) /\ <<>> \in Seq(Temps)
  BY <1>1, NoOperands DEF StartStatement, StatementType
<1>5. StatementOK(writer, frames, stmt')
  BY <1>2, <1>3, <1>4 DEF StatementOK
<1> QED BY <1>1, <1>2, <1>4, <1>5, StatementStep

\* The books once the value in hand is closed and the statement done.
LEMMA TestedBooks ==
  ASSUME IInv, HasValue
  PROVE  /\ status = "running" /\ Tested \in WriterType /\ Tested.builder = FALSE
         /\ Tested.live = writer.live \ {Value} /\ Tested.stable = writer.stable
         /\ Tested.locals = writer.locals
         /\ Books(Tested, frames, Nothing) /\ Bindings(Tested, cvar, bound, original)
         /\ Match(Tested.live, cvar, open \ Values({Value}))
         /\ Sound(faults \cup ClosingFaults({Value}))
         /\ Range(stmt.operands) = {Value} /\ Value \in Temps /\ Value \in writer.live
<1>1. status = "running" /\ Len(stmt.operands) = 1 /\ ~writer.builder
  BY DEF HasValue, Evaluating
<1>2. /\ stmt.operands \in Seq(Temps) /\ Books(writer, frames, stmt) /\ writer \in WriterType
      /\ Match(writer.live, cvar, open) /\ Bindings(writer, cvar, bound, original)
      /\ Sound(faults)
  BY <1>1, OperandsTyped, SoundFaults
<1>3. Range(stmt.operands) = {Value} /\ Value \in Temps
  BY <1>1, <1>2, OneOperand DEF Value
<1>4. /\ writer.live = Slots(writer) \cup AllSeqs(frames) \cup {Value}
      /\ {Value} \cap (Slots(writer) \cup AllSeqs(frames)) = {}
  BY <1>2, <1>3, LiveParts
<1>5. /\ Tested \in WriterType /\ Tested.live = writer.live \ {Value}
      /\ Tested.locals = writer.locals /\ Tested.stable = writer.stable
      /\ Tested.borrowed = writer.borrowed /\ Tested.tracker = writer.tracker
      /\ Tested.builder = FALSE
  BY <1>1, <1>2 DEF Tested, WriterType
<1>6. Nothing.operands = <<>> /\ Range(<<>>) = {} /\ StatementOK(Tested, frames, Nothing)
  BY <1>5, NothingOK, NoOperands DEF Nothing
<1>7. Books(Tested, frames, Nothing)
  <2>1. /\ Tested.live = Slots(writer) \cup AllSeqs(frames) \cup Range(Nothing.operands)
        /\ Range(Nothing.operands) \cap (Slots(writer) \cup AllSeqs(frames)) = {}
    BY <1>4, <1>5, <1>6
  <2> QED BY <1>2, <1>5, <1>6, <2>1, EvaluationBooks
<1>8. {Value} \in SUBSET writer.live
  BY <1>4
<1>9. Match(Tested.live, cvar, open \ Values({Value})) /\ ClosingFaults({Value}) = {}
  BY <1>2, <1>5, <1>8, ClosingLive
<1>10. Bindings(Tested, cvar, bound, original)
  BY <1>2, <1>5, BindingsSame
<1> QED BY <1>1, <1>2, <1>3, <1>5, <1>7, <1>8, <1>9, <1>10

LEMMA ConsumeStep ==
  ASSUME IInv, HasValue, CloseTemps({Value}), writer' = Tested, EndStatement,
         UNCHANGED <<frames, bound, original, builderOpen, trackerOpen, status, result>>,
         cvar' = Settle(cvar)
  PROVE  IInv'
<1>1. /\ open' = open \ Values({Value}) /\ faults' = faults \cup ClosingFaults({Value})
      /\ stmt' = Nothing /\ Nothing \in StatementType
  BY NothingOK DEF CloseTemps
<1>2. /\ bound \in Bound /\ original \subseteq Args /\ cvar \in Slotted /\ Len(frames) <= MaxDepth
  BY Typed DEF IInv
<1>3. builderOpen' = FALSE
  BY OperandsTyped DEF HasValue, Evaluating, WriterType
<1> QED BY <1>1, <1>2, <1>3, TestedBooks, Assemble

LEMMA AssignStep ==
  ASSUME IInv, SoundShapes, FinishAssign
  PROVE  IInv'
<1>1. /\ HasValue /\ status = "running" /\ stmt.goal = "assign" /\ ~writer.builder
      /\ Rebind(stmt.name, Value, {}) /\ EndStatement
  BY DEF FinishAssign, HasValue, Evaluating
<1>2. StatementOK(writer, frames, stmt) /\ Range(stmt.operands) = {Value}
  BY <1>1, OperandsTyped, TestedBooks
<1>3. PICK x \in Names : x = stmt.name
  BY <1>1, <1>2 DEF StatementOK
<1>4. PICK v \in Range(stmt.operands) : v = Value
  BY <1>2
<1>5. /\ Rebind(x, v, {}) /\ stmt' = Nothing /\ Nothing \in StatementType
      /\ Range(Nothing.operands) = (Range(stmt.operands) \ {v}) \cup {}
      /\ \A w : w.stable = writer.stable /\ w.builder = writer.builder => StatementOK(w, frames, Nothing)
  BY <1>1, <1>2, <1>3, <1>4, NothingOK, NoOperands DEF Nothing
<1> QED BY <1>1, <1>5, RebindStep

LEMMA ReturnStep ==
  ASSUME IInv, FinishReturn
  PROVE  IInv'
<1>1. /\ HasValue /\ status = "running" /\ ~writer.builder
      /\ open' = open \ Values(writer.live \ {Value})
      /\ faults' = faults \cup ClosingFaults(writer.live)
      /\ Ended /\ status' = "returned" /\ result' = cvar[Value] /\ builderOpen' = builderOpen
  BY DEF FinishReturn, ReturnClosing, HasValue, Evaluating
<1>2. /\ Match(writer.live, cvar, open) /\ cvar \in Slotted /\ Sound(faults)
      /\ builderOpen = writer.builder /\ writer \in WriterType
  BY <1>1, OperandsTyped, SoundFaults
<1>3. Value \in writer.live /\ Value \in Temps
  BY <1>1, TestedBooks
<1>4. cvar[Value] \in Handles \cup {Null}
  BY <1>2, <1>3 DEF Slotted
<1>5. open' = {cvar[Value]} \ {Null}
  BY <1>1, <1>2, <1>3 DEF Match, Values
<1>6. Sound(faults')
  <2>1. writer.live \in SUBSET writer.live
    OBVIOUS
  <2> QED BY <1>1, <1>2, <2>1, ClosingLive DEF Sound
<1>7. builderOpen' = FALSE
  BY <1>1, <1>2 DEF WriterType
<1> QED BY <1>1, <1>4, <1>5, <1>6, <1>7, EndedStep

LEMMA DeleteStep ==
  ASSUME IInv, FinishDelete
  PROVE  IInv'
<1> DEFINE x == stmt.name
           slot == writer.locals[x]
<1>1. status = "running" /\ stmt.goal = "delete" /\ stmt.pending = {}
  BY DEF FinishDelete
<1>2. /\ Books(writer, frames, stmt) /\ StatementOK(writer, frames, stmt) /\ writer \in WriterType
      /\ cvar \in Slotted /\ Match(writer.live, cvar, open) /\ builderOpen = writer.builder
      /\ Bindings(writer, cvar, bound, original) /\ Sound(faults)
      /\ bound \in Bound /\ original \subseteq Args /\ Len(frames) <= MaxDepth
  BY <1>1, OperandsTyped, SoundFaults, Typed DEF IInv
<1>3. x \in Names /\ x \in writer.stable /\ stmt.operands = <<>> /\ ~writer.builder
  BY <1>1, <1>2 DEF StatementOK
<1>4. slot # None /\ slot \in Slots(writer) /\ slot \in writer.live /\ slot \in Temps
  BY <1>2, <1>3 DEF Books, Owns, Slots, WriterType
<1>5. bound[x] = cvar[slot]
  BY <1>2, <1>3, <1>4 DEF Bindings
<1>6. CASE cvar[slot] = Null
  <2>1. Unwind({})
    BY <1>5, <1>6 DEF FinishDelete
  <2> QED BY <1>1, <2>1, SoundNone, UnwindStep
<1>7. CASE cvar[slot] # Null
  <2> DEFINE f == [cvar EXCEPT ![slot] = Null]
  <2>1. /\ open' = open \ Values({slot}) /\ faults' = faults \cup ClosingFaults({slot})
        /\ bound' = [bound EXCEPT ![x] = Null] /\ original' = original \ {x}
        /\ stmt' = Nothing /\ cvar' = Settle(f)
        /\ UNCHANGED <<writer, frames, builderOpen, trackerOpen, status, result>>
    BY <1>7, NothingOK DEF FinishDelete, CloseTemps
  <2>2. f \in Slotted /\ f[slot] = Null /\ \A t \in writer.live : t # slot => f[t] = cvar[t]
    BY <1>2, <1>4 DEF Slotted, WriterType
  <2> HIDE DEF f
  <2>3. {slot} \in SUBSET writer.live
    BY <1>4
  <2>4. Match(writer.live \ {slot}, cvar, open \ Values({slot})) /\ ClosingFaults({slot}) = {}
    BY <1>2, <2>3, ClosingLive
  <2>5. Match(writer.live, f, open')
    <3>1. slot \notin writer.live \ {slot} /\ \A t \in writer.live \ {slot} : f[t] = cvar[t]
      BY <2>2
    <3>2. Match((writer.live \ {slot}) \cup {slot}, f, open \ Values({slot}))
      BY <2>2, <2>4, <3>1, MatchAdd
    <3>3. (writer.live \ {slot}) \cup {slot} = writer.live
      BY <1>4
    <3> QED BY <2>1, <3>2, <3>3
  <2>6. bound' \in Bound /\ bound'[x] = Null /\ \A y \in Names \ {x} : bound'[y] = bound[y]
    BY <1>2, <1>3, <2>1 DEF Bound
  <2>7. Bindings(writer, f, bound', original')
    <3> SUFFICES ASSUME NEW y \in Names
                 PROVE  /\ writer.locals[y] # None => bound'[y] = f[writer.locals[y]]
                        /\ writer.locals[y] = None /\ y \in writer.borrowed
                             => y \in original' /\ bound'[y] = Caller
                        /\ ~IsInitialized(writer, y) => bound'[y] = Null
      BY DEF Bindings
    <3>1. CASE y = x
      BY <3>1, <1>4, <2>2, <2>6
    <3>2. CASE y # x
      <4>1. writer.locals[y] # None => f[writer.locals[y]] = cvar[writer.locals[y]]
        <5> SUFFICES ASSUME writer.locals[y] # None PROVE f[writer.locals[y]] = cvar[writer.locals[y]]
          OBVIOUS
        <5>1. writer.locals[y] \in writer.live
          BY <1>2, LiveParts DEF Slots
        <5>2. writer.locals[y] # slot
          BY <3>2, <1>2, <1>3 DEF Books, Owns
        <5> QED BY <2>2, <5>1, <5>2
      <4> QED BY <3>2, <4>1, <1>2, <2>1, <2>6 DEF Bindings
    <3> QED BY <3>1, <3>2
  <2>8. Books(writer, frames, Nothing)
    <3>1. StatementOK(writer, frames, Nothing) /\ Nothing.operands = stmt.operands
      BY <1>3, NothingOK DEF Nothing
    <3> QED BY <1>2, <3>1 DEF Books
  <2>9. Sound(faults')
    BY <1>2, <2>1, <2>4
  <2> QED BY <1>1, <1>2, <2>1, <2>2, <2>5, <2>6, <2>7, <2>8, <2>9, NothingOK, Assemble
<1> QED BY <1>6, <1>7

LEMMA SimpleStatementStep ==
  ASSUME IInv, SoundShapes, SimpleStatement
  PROVE  IInv'
<1>1. CASE BeginDiscard
  BY <1>1, BeginStep DEF BeginDiscard, BeginSimple, Goals
<1>2. CASE BeginReturn
  BY <1>2, BeginStep DEF BeginReturn, BeginSimple, Goals
<1>3. CASE BeginRaise
  BY <1>3, BeginStep DEF BeginRaise, BeginSimple, Goals
<1>4. CASE FinishDiscard
  BY <1>4, ConsumeStep DEF FinishDiscard, Tested
<1>5. CASE FinishRaise
  BY <1>5, SoundNone, UnwindStep DEF FinishRaise, Evaluating
<1>6. ASSUME NEW x \in Names, BeginAssign(x) PROVE IInv'
  BY <1>6, BeginStep DEF BeginAssign, BeginSimple, Goals
<1>7. ASSUME NEW x \in Names, BeginDelete(x) PROVE IInv'
  BY <1>7, BeginStep DEF BeginDelete, Goals
<1>8. ASSUME NEW x \in Names, DeleteUnbound(x) PROVE IInv'
  BY <1>8, SoundNone, UnwindStep DEF DeleteUnbound, Ready
<1> QED BY <1>1, <1>2, <1>3, <1>4, <1>5, <1>6, <1>7, <1>8, AssignStep, ReturnStep, DeleteStep
        DEF SimpleStatement

\* A construct whose frame is f is entered, with the bookkeeping v.
LEMMA EnterStep ==
  ASSUME IInv, status = "running", status' = "running", Len(frames) < MaxDepth,
         NEW v \in WriterType, v.builder = FALSE, Inside(frames, v),
         NEW f \in FrameType, f.snap = v, f.head = v, f.names \subseteq v.stable,
         Owns(v, AllSeqs(frames) \cup ({f.seq} \ {None})),
         f.target \in f.names \cup {None},
         f.seq # None => /\ f.kind = "loop" /\ f.at # "else"
                         /\ f.target # None /\ f.seq \notin AllSeqs(frames),
         f.at = "head" => f.kind = "loop", f.els # "exits", f.kind # "handler",
         f.kind = "try" => Tries(frames) = {},
         frames # <<>> => frames[Len(frames)].at # "head",
         frames' = Append(frames, f), writer' = v, stmt' = Nothing,
         Match(v.live, cvar, open'), Bindings(v, cvar, bound, original),
         cvar' = cvar \/ cvar' = Settle(cvar),
         UNCHANGED <<bound, original, builderOpen, trackerOpen, result>>,
         builderOpen = FALSE, Sound(faults')
  PROVE  IInv'
<1>1. /\ Stacked(frames) /\ cvar \in Slotted /\ bound \in Bound /\ original \subseteq Args
  BY OperandsTyped, Typed DEF IInv
<1>2. Len(frames) \in Nat /\ frames \in Seq(FrameType)
  BY <1>1 DEF Stacked
<1>5. FrameOK(f, AllSeqs(frames))
  <2>1. Owns(f.snap, AllSeqs(frames) \cup ({f.seq} \ {None})) /\ f.snap.builder = FALSE
    OBVIOUS
  <2>2. f.at = "head" => f.kind \in {"loop", "handler"}
    OBVIOUS
  <2>3. f.names \subseteq f.snap.stable /\ f.head = f.snap
    OBVIOUS
  <2> QED BY <2>1, <2>2, <2>3 DEF FrameOK
<1>6. /\ Stacked(frames') /\ Inside(frames', v) /\ Len(frames') = Len(frames) + 1
      /\ AllSeqs(frames') = AllSeqs(frames) \cup ({f.seq} \ {None})
  <2>1. Same(f.snap, v) /\ (f.kind \in {"try", "handler"} => Tries(frames) = {})
    BY DEF Same
  <2>2. Stacked(frames) /\ (frames # <<>> => frames[Len(frames)].at # "head")
    BY <1>1
  <2> DEFINE gs == Append(frames, f)
  <2>3. /\ Stacked(gs) /\ Inside(gs, v) /\ Len(gs) = Len(frames) + 1
        /\ AllSeqs(gs) = AllSeqs(frames) \cup ({f.seq} \ {None})
    BY ONLY <1>5, <2>1, <2>2, PushFrame, f \in FrameType, Inside(frames, v)
  <2> QED BY <2>3
<1>7. Books(v, frames', Nothing)
  BY <1>6, NothingOK, NoOperands DEF Books, Nothing
<1>8. Len(frames') <= MaxDepth
  BY <1>2, <1>6, Constants
<1> QED BY <1>1, <1>7, <1>8, NothingOK, Assemble

LEMMA BranchStep ==
  ASSUME IInv, NEW goal \in {"if", "returningIf"}, EnterBranch(goal)
  PROVE  IInv'
<1>1. /\ HasValue /\ stmt.goal = goal /\ CloseTemps({Value}) /\ writer' = Tested
      /\ frames' = Append(frames, [Frame(goal, stmt.names, stmt.els) EXCEPT
                                     !.snap = Tested, !.head = Tested])
      /\ EndStatement /\ cvar' = Settle(cvar)
      /\ UNCHANGED <<bound, original, builderOpen, trackerOpen, status, result>>
  BY DEF EnterBranch, ConditionTested
<1>2. /\ status = "running" /\ Tested \in WriterType /\ Tested.builder = FALSE
      /\ Tested.stable = writer.stable
      /\ Books(Tested, frames, Nothing) /\ Bindings(Tested, cvar, bound, original)
      /\ Match(Tested.live, cvar, open \ Values({Value}))
      /\ Sound(faults \cup ClosingFaults({Value}))
  BY <1>1, TestedBooks
<1>3. StatementOK(writer, frames, stmt) /\ stmt \in StatementType /\ writer \in WriterType
      /\ builderOpen = writer.builder
  BY <1>2, OperandsTyped
<1>4. stmt.pending = {} /\ ~writer.builder
  BY <1>1 DEF HasValue, Evaluating
<1>5. /\ Len(frames) < MaxDepth /\ stmt.els # "exits" /\ stmt.names \subseteq writer.stable
      /\ frames # <<>> => frames[Len(frames)].at # "head"
  BY <1>1, <1>3, <1>4 DEF StatementOK
<1> DEFINE f == [Frame(goal, stmt.names, stmt.els) EXCEPT !.snap = Tested, !.head = Tested]
<1>6. /\ f \in FrameType /\ f.kind = goal /\ f.at = "body" /\ f.names = stmt.names
      /\ f.snap = Tested /\ f.head = Tested /\ f.target = None /\ f.seq = None /\ f.els = stmt.els
  <2>1. /\ goal \in {"if", "returningIf", "loop", "try"} /\ stmt.names \in SUBSET Names
        /\ stmt.els \in {"none", "falls", "exits"} /\ None \in Temps \cup {None}
        /\ None \in Names \cup {None}
    BY <1>3 DEF StatementType
  <2> QED BY <1>2, <1>3, <2>1 DEF Frame, FrameType
<1>7. frames' = Append(frames, f)
  BY <1>1
<1> HIDE DEF f
<1>8. /\ Inside(frames, Tested) /\ Owns(Tested, AllSeqs(frames)) /\ frames \in Seq(FrameType)
  BY <1>2, NoOperands DEF Books, Nothing, Stacked
<1>9. Owns(Tested, AllSeqs(frames) \cup ({f.seq} \ {None}))
  BY <1>6, <1>8
<1>10. /\ builderOpen = FALSE /\ open' = open \ Values({Value}) /\ Sound(faults')
       /\ stmt' = Nothing /\ status' = "running"
  BY <1>1, <1>2, <1>3, <1>4, NothingOK DEF CloseTemps, WriterType
<1> QED BY <1>1, <1>2, <1>5, <1>6, <1>7, <1>8, <1>9, <1>10, EnterStep

\* A loop or a try is entered as it stands; the value in hand, if any, is the
\* sequence that the loop keeps.
LEMMA EnterHereStep ==
  ASSUME IInv, status = "running", status' = "running", Len(frames) < MaxDepth,
         NEW f \in FrameType, f.snap = writer, f.head = writer, f.names \subseteq writer.stable,
         f.target \in f.names \cup {None},
         {f.seq} \ {None} = Range(stmt.operands), f.seq # None => f.kind = "loop" /\ f.target # None,
         f.at = "head" => f.kind = "loop", f.at # "else", f.els # "exits", f.kind # "handler",
         f.kind = "try" => Tries(frames) = {},
         frames # <<>> => frames[Len(frames)].at # "head",
         frames' = Append(frames, f), stmt' = Nothing, ~writer.builder,
         UNCHANGED <<writer, cvar, open, bound, original, builderOpen, trackerOpen, result>>,
         Sound(faults')
  PROVE  IInv'
<1>1. /\ Books(writer, frames, stmt) /\ writer \in WriterType /\ builderOpen = writer.builder
      /\ Match(writer.live, cvar, open) /\ Bindings(writer, cvar, bound, original)
  BY OperandsTyped
<1>2. /\ Inside(frames, writer) /\ Owns(writer, AllSeqs(frames) \cup Range(stmt.operands))
      /\ AllSeqs(frames) \cap Range(stmt.operands) = {} /\ frames \in Seq(FrameType)
  BY <1>1 DEF Books, Stacked
<1>4. Owns(writer, AllSeqs(frames) \cup ({f.seq} \ {None}))
  BY <1>2
<1>5. f.seq # None => f.seq \notin AllSeqs(frames)
  BY <1>2
<1>6. writer.builder = FALSE
  BY <1>1 DEF WriterType
<1>7. /\ writer' = writer /\ Match(writer.live, cvar, open') /\ cvar' = cvar /\ builderOpen = FALSE
      /\ UNCHANGED <<bound, original, builderOpen, trackerOpen, result>>
  BY <1>1, <1>6
<1> QED BY <1>1, <1>2, <1>4, <1>5, <1>6, <1>7, EnterStep

LEMMA TryStep ==
  ASSUME IInv, SoundShapes, OpenTry
  PROVE  IInv'
<1>1. /\ status = "running" /\ Idle /\ Len(frames) < MaxDepth /\ FramesOf({"try", "handler"}) = {}
      /\ frames # <<>> => ~(Top.kind \in {"loop", "handler"} /\ Top.at = "head")
      /\ frames' = Append(frames, Frame("try", {}, "none"))
      /\ UNCHANGED <<writer, stmt, runtime, status, result, faults>>
  BY DEF OpenTry, Ready, MayOpen
<1>2. /\ Stacked(frames) /\ writer \in WriterType /\ stmt.operands = <<>> /\ ~writer.builder
      /\ Books(writer, frames, stmt) /\ Sound(faults) /\ stmt \in StatementType
      /\ builderOpen = writer.builder
  BY <1>1, OperandsTyped, SoundFaults DEF StatementOK, Idle, Nothing
<1> DEFINE f == Frame("try", {}, "none")
<1>3. /\ f \in FrameType /\ f.kind = "try" /\ f.at = "body" /\ f.names = {}
      /\ f.snap = writer /\ f.head = writer /\ f.target = None /\ f.seq = None /\ f.els = "none"
  BY <1>2 DEF Frame, FrameType
<1>4. frames # <<>> => frames[Len(frames)].at # "head"
  BY <1>1, <1>2, FrameTypes DEF Stacked, FrameOK, Top
<1>5. Tries(frames) = {}
  BY <1>1 DEF Tries, FramesOf
<1> HIDE DEF f
<1>6. stmt' = Nothing /\ Range(stmt.operands) = {}
  BY <1>1, <1>2, NoOperands DEF StatementOK, Books, Idle
<1> QED BY <1>1, <1>2, <1>3, <1>4, <1>5, <1>6, EnterHereStep DEF f, runtime

\* Where no name changes hands the snapshot is what the writer says.
LEMMA AtExact ==
  ASSUME NEW fs, NEW w \in WriterType, Books(w, fs, Nothing), w.builder = FALSE,
         fs # <<>>, IsExact(fs[Len(fs)])
  PROVE  fs[Len(fs)].snap = w
<1> DEFINE s == fs[Len(fs)].snap
           n == Len(fs)
<1>1. /\ Stacked(fs) /\ Same(s, w) /\ Owns(w, AllSeqs(fs))
  BY NoOperands DEF Books, Inside, Nothing
<1>2. /\ n \in DOMAIN fs /\ s \in WriterType
      /\ AllSeqs(fs) = Seqs(fs, n - 1) \cup ({fs[n].seq} \ {None})
  BY <1>1, FrameTypes
<1>3. Owns(s, AllSeqs(fs)) /\ s.builder = FALSE
  BY <1>1, <1>2 DEF Stacked, FrameOK
<1>4. Slots(s) = Slots(w)
  BY <1>1 DEF Same, Slots
<1>5. /\ s.live = w.live /\ s.locals = w.locals /\ s.stable = w.stable
      /\ s.borrowed = w.borrowed /\ s.tracker = w.tracker /\ s.builder = w.builder
  BY <1>1, <1>3, <1>4 DEF Owns, Same
<1> QED BY <1>2, <1>5 DEF WriterType

\* The writer after a construct: its snapshot without the sequence of a loop.
Left(f) == [f.snap EXCEPT !.live = @ \ {f.seq}]

LEMMA LeftBooks ==
  ASSUME NEW fs, Stacked(fs), NEW k \in DOMAIN fs
  PROVE  /\ Left(fs[k]) \in WriterType /\ Left(fs[k]).live = fs[k].snap.live \ {fs[k].seq}
         /\ Left(fs[k]).locals = fs[k].snap.locals /\ Left(fs[k]).stable = fs[k].snap.stable
         /\ Left(fs[k]).borrowed = fs[k].snap.borrowed /\ Left(fs[k]).builder = FALSE
         /\ fs[k].seq = None => Left(fs[k]) = fs[k].snap
         /\ Owns(Left(fs[k]), Seqs(fs, k - 1))
         /\ Books(Left(fs[k]), SubSeq(fs, 1, k - 1), Nothing)
         /\ Len(SubSeq(fs, 1, k - 1)) = k - 1
<1> DEFINE s == fs[k].snap
           v == Left(fs[k])
           outer == Seqs(fs, k - 1)
<1>1. fs[k] \in FrameType /\ s \in WriterType /\ s.live \subseteq Temps /\ None \notin Temps
  BY FrameTypes, Constants DEF WriterType, Temps
<1>2. FrameOK(fs[k], outer)
  BY DEF Stacked
<1>3. /\ v \in WriterType /\ v.live = s.live \ {fs[k].seq} /\ v.locals = s.locals
      /\ v.stable = s.stable /\ v.borrowed = s.borrowed /\ v.tracker = s.tracker
      /\ v.builder = s.builder /\ s.builder = FALSE
  BY <1>1, <1>2 DEF WriterType, Left, FrameOK
<1>4. fs[k].seq = None => v = s
  BY <1>1, <1>3 DEF WriterType
<1> HIDE DEF v
<1>5. Owns(v, outer)
  <2>1. Owns(s, outer \cup ({fs[k].seq} \ {None})) /\ (fs[k].seq # None => fs[k].seq \notin outer)
    BY <1>2 DEF FrameOK
  <2>2. None \notin outer
    BY DEF Seqs
  <2>3. v.live = Slots(s) \cup outer /\ Slots(s) \cap outer = {}
    BY <1>1, <1>3, <2>1, <2>2 DEF Owns
  <2> QED BY <1>3, <2>1, <2>3, OwnsOthers
<1>6. /\ Stacked(SubSeq(fs, 1, k - 1)) /\ Len(SubSeq(fs, 1, k - 1)) = k - 1
      /\ Inside(SubSeq(fs, 1, k - 1), s) /\ AllSeqs(SubSeq(fs, 1, k - 1)) = outer
  BY CutFrames
<1>7. Inside(SubSeq(fs, 1, k - 1), v)
  BY <1>3, <1>6, InsideSame DEF Same
<1>8. StatementOK(v, SubSeq(fs, 1, k - 1), Nothing)
  BY <1>3, NothingOK
<1>9. Books(v, SubSeq(fs, 1, k - 1), Nothing)
  BY <1>5, <1>6, <1>7, <1>8, NoOperands DEF Books, Nothing
<1> QED BY <1>3, <1>4, <1>5, <1>6, <1>9 DEF v

LEMMA TopReplaced ==
  ASSUME NEW fs \in Seq(FrameType), fs # <<>>, NEW g
  PROVE  /\ [fs EXCEPT ![Len(fs)] = g] = Replaced(fs, Len(fs), g)
         /\ Len(fs) \in DOMAIN fs /\ Front(fs) = SubSeq(fs, 1, Len(fs) - 1)
<1>1. DOMAIN fs = 1 .. Len(fs) /\ Len(fs) \in Nat /\ Len(fs) > 0
  OBVIOUS
<1>2. Len(fs) \in DOMAIN fs
  BY <1>1
<1> QED BY <1>1, <1>2 DEF Replaced, Front

\* Between two statements.
LEMMA IdleBooks ==
  ASSUME IInv, status = "running", Idle
  PROVE  /\ stmt = Nothing /\ writer.builder = FALSE /\ builderOpen = FALSE
         /\ Books(writer, frames, Nothing) /\ Nothing \in StatementType
<1>1. /\ Books(writer, frames, stmt) /\ writer \in WriterType /\ builderOpen = writer.builder
      /\ StatementOK(writer, frames, stmt)
  BY OperandsTyped
<1> QED BY <1>1, NothingOK DEF Idle, StatementOK, WriterType

LEMMA EndIfStep ==
  ASSUME IInv, EndIf
  PROVE  IInv'
<1> DEFINE n == Len(frames)
           s == Top.snap
<1>1. /\ status = "running" /\ Idle /\ frames # <<>> /\ Top.kind = "if"
      /\ frames' = Front(frames) /\ writer' = s /\ bound' = KnownBindings /\ cvar' = Settle(cvar)
      /\ UNCHANGED <<stmt, open, original, builderOpen, trackerOpen, status, result, faults>>
  BY DEF EndIf, Ready, TopIs
<1>2. /\ stmt = Nothing /\ writer.builder = FALSE /\ builderOpen = FALSE
      /\ Books(writer, frames, Nothing) /\ Stacked(frames) /\ frames \in Seq(FrameType)
      /\ writer \in WriterType /\ Sound(faults) /\ Len(frames) <= MaxDepth
  BY <1>1, IdleBooks, OperandsTyped, SoundFaults, Typed DEF Stacked, IInv
<1>3. n \in DOMAIN frames /\ frames' = SubSeq(frames, 1, n - 1) /\ Top = frames[n] /\ n \in Nat
  BY <1>1, <1>2, TopReplaced, FrameTypes DEF Top
<1>4. IsExact(Top) /\ IsSaved(Top) /\ Top.seq = None
  BY <1>1, <1>2, <1>3 DEF IsExact, IsSaved, Stacked, FrameOK
<1>5. s = writer
  <2>1. writer \in WriterType /\ Books(writer, frames, Nothing) /\ writer.builder = FALSE
        /\ frames # <<>> /\ IsExact(frames[Len(frames)])
    BY <1>1, <1>2, <1>3, <1>4
  <2>2. frames[Len(frames)].snap = writer
    BY <2>1, AtExact
  <2> QED BY <2>2 DEF Top
<1>6. /\ Books(s, SubSeq(frames, 1, n - 1), Nothing) /\ Len(SubSeq(frames, 1, n - 1)) = n - 1
      /\ s \in WriterType /\ s.builder = FALSE
  <2>1. Stacked(frames) /\ n \in DOMAIN frames
    BY <1>2, <1>3
  <2>2. frames[n].seq = None /\ frames[n].snap = s
    BY <1>3, <1>4
  <2> HIDE DEF n, s
  <2>3. Left(frames[n]) = s
    BY <2>1, <2>2, LeftBooks
  <2> QED BY <2>1, <2>3, LeftBooks
<1>7. open' = open \ Values(writer.live \ s.live)
  BY <1>1, <1>5 DEF Values
<1>8. n - 1 <= MaxDepth
  BY <1>2, <1>3, Constants
<1>9. /\ IsSaved(frames[n]) /\ s.locals = frames[n].snap.locals
      /\ s.borrowed = frames[n].snap.borrowed /\ s.live \subseteq frames[n].snap.live
  BY <1>3, <1>4
<1> HIDE DEF s, n
<1> QED BY <1>1, <1>2, <1>3, <1>6, <1>7, <1>8, <1>9, RestoreStep

LEMMA ConditionalStep ==
  ASSUME IInv, SoundShapes, Conditional
  PROVE  IInv'
<1>1. ASSUME NEW S \in SUBSET Names, NEW hasElse \in BOOLEAN, OpenIf(S, hasElse) PROVE IInv'
  BY <1>1, BeginStep DEF OpenIf, MayOpen, Goals
<1>2. CASE OpenReturningIf
  BY <1>2, BeginStep DEF OpenReturningIf, MayOpen, Goals
<1>3. ASSUME NEW goal \in {"if", "returningIf"}, SkipBranch(goal) PROVE IInv'
  BY <1>3, ConsumeStep DEF SkipBranch, ConditionTested
<1> QED BY <1>1, <1>2, <1>3, BranchStep, EndIfStep DEF Conditional

LEMMA LoopFrame ==
  ASSUME writer \in WriterType, stmt \in StatementType, NEW target \in Names \cup {None},
         NEW seq \in Temps \cup {None}, PushLoop(target, seq)
  PROVE  \E f \in FrameType :
           /\ frames' = Append(frames, f)
           /\ f.kind = "loop" /\ f.at = "head" /\ f.names = stmt.names /\ f.snap = writer
           /\ f.head = writer /\ f.target = target /\ f.seq = seq /\ f.els = stmt.els
<1> DEFINE f == [Frame("loop", stmt.names, stmt.els) EXCEPT
                  !.at = "head", !.target = target, !.seq = seq]
<1>1. stmt.names \in SUBSET Names /\ stmt.els \in {"none", "falls", "exits"}
  BY DEF StatementType
<1>2. /\ f \in FrameType
      /\ f.kind = "loop" /\ f.at = "head" /\ f.names = stmt.names /\ f.snap = writer
      /\ f.head = writer /\ f.target = target /\ f.seq = seq /\ f.els = stmt.els
  BY <1>1 DEF Frame, FrameType
<1>3. frames' = Append(frames, f)
  BY DEF PushLoop
<1> QED BY <1>2, <1>3

\* A loop is entered.
LEMMA EnterLoopStep ==
  ASSUME IInv, status = "running", stmt.goal \in {"while", "for"}, stmt.pending = {},
         ~writer.builder, NEW target \in stmt.names \cup {None}, NEW seq \in Temps \cup {None},
         {seq} \ {None} = Range(stmt.operands), seq # None => target # None,
         PushLoop(target, seq), EndStatement,
         UNCHANGED <<writer, runtime, status, result>>, Sound(faults')
  PROVE  IInv'
<1>1. /\ StatementOK(writer, frames, stmt) /\ stmt \in StatementType /\ writer \in WriterType
  BY OperandsTyped
<1>2. /\ stmt.names \subseteq writer.stable /\ stmt.els # "exits" /\ Len(frames) < MaxDepth
      /\ frames # <<>> => frames[Len(frames)].at # "head"
  BY <1>1 DEF StatementOK
<1>3. target \in Names \cup {None}
  BY <1>1 DEF StatementType
<1>4. PICK f \in FrameType :
        /\ frames' = Append(frames, f)
        /\ f.kind = "loop" /\ f.at = "head" /\ f.names = stmt.names /\ f.snap = writer
        /\ f.head = writer /\ f.target = target /\ f.seq = seq /\ f.els = stmt.els
  BY <1>1, <1>3, LoopFrame
<1>5. stmt' = Nothing /\ status' = "running"
  BY NothingOK
<1> QED BY <1>1, <1>2, <1>4, <1>5, EnterHereStep DEF runtime

LEMMA EnterLoops ==
  ASSUME IInv, EnterWhile \/ EnterFor \/ \E x \in Names : EnterForBorrowed(x)
  PROVE  IInv'
<1>1. status = "running"
  BY DEF EnterWhile, EnterFor, EnterForBorrowed, HasValue, Evaluating
<1>2. /\ StatementOK(writer, frames, stmt) /\ stmt \in StatementType /\ Sound(faults)
  BY <1>1, OperandsTyped, SoundFaults
<1>3. CASE EnterWhile
  <2>1. /\ stmt.goal = "while" /\ stmt.pending = {} /\ PushLoop(None, None) /\ EndStatement
        /\ UNCHANGED <<writer, runtime, status, result, faults>>
    BY <1>3 DEF EnterWhile
  <2>2. Range(stmt.operands) = {} /\ ~writer.builder
    BY <1>2, <2>1, NoOperands DEF StatementOK
  <2>3. None \in stmt.names \cup {None} /\ None \in Temps \cup {None}
        /\ {None} \ {None} = Range(stmt.operands) /\ Sound(faults')
    BY <1>2, <2>1, <2>2
  <2> QED BY <1>1, <2>1, <2>2, <2>3, EnterLoopStep
<1>4. CASE EnterFor
  <2>1. /\ HasValue /\ stmt.goal = "for" /\ stmt.pending = {} /\ PushLoop(stmt.name, Value)
        /\ EndStatement /\ ~writer.builder
        /\ UNCHANGED <<writer, runtime, status, result, faults>>
    BY <1>4 DEF EnterFor, HasValue, Evaluating
  <2>2. Range(stmt.operands) = {Value} /\ Value \in Temps
    BY <2>1, TestedBooks
  <2>3. None \notin Temps
    BY Constants DEF Temps
  <2>4. stmt.name \in stmt.names \cup {None} /\ Value \in Temps \cup {None}
        /\ {Value} \ {None} = Range(stmt.operands) /\ Sound(faults') /\ stmt.name # None
    BY <1>2, <2>1, <2>2, <2>3, Constants DEF StatementOK, StatementType
  <2> QED BY <1>1, <2>1, <2>4, EnterLoopStep
<1>5. ASSUME NEW x \in Names, EnterForBorrowed(x) PROVE IInv'
  <2>1. /\ stmt.goal = "for" /\ stmt.pending = {} /\ PushLoop(stmt.name, None)
        /\ stmt.operands = <<>> /\ ~writer.builder /\ EndStatement
        /\ x \in writer.borrowed /\ DirectIsCurrent(x)
        /\ faults' = faults \cup IF IsValueOf(Caller, x) THEN {} ELSE {"stale"}
        /\ UNCHANGED <<writer, runtime, status, result>>
    BY <1>5 DEF EnterForBorrowed, Evaluating
  <2>2. Lanes = {} => IsValueOf(Caller, x)
    BY <1>1, <2>1, DenotesValue DEF DirectIsCurrent, IsInitialized
  <2>3. Sound(faults')
    BY <1>2, <2>1, <2>2 DEF Sound
  <2>4. stmt.name \in stmt.names \cup {None} /\ None \in Temps \cup {None}
        /\ {None} \ {None} = Range(stmt.operands)
    BY <1>2, <2>1, NoOperands DEF StatementOK
  <2> QED BY <1>1, <2>1, <2>3, <2>4, EnterLoopStep
<1> QED BY <1>3, <1>4, <1>5

\* At the head of a loop, apart from a condition that is tested.
LEMMA HeadBooks ==
  ASSUME IInv, status = "running", NEW w \in WriterType, Books(w, frames, Nothing), w.builder = FALSE,
         frames # <<>>, Top.kind = "loop", Top.at = "head"
  PROVE  /\ w = Top.snap /\ Len(frames) \in DOMAIN frames /\ Top = frames[Len(frames)]
         /\ frames \in Seq(FrameType) /\ Stacked(frames) /\ Top \in FrameType
         /\ FrameOK(Top, Seqs(frames, Len(frames) - 1))
         /\ Len(frames) \in Nat /\ Len(frames) <= MaxDepth
<1>1. Stacked(frames) /\ frames \in Seq(FrameType) /\ Top = frames[Len(frames)]
  BY DEF Books, Stacked, Top
<1>2. Len(frames) \in DOMAIN frames /\ Top \in FrameType /\ Len(frames) \in Nat
  BY <1>1, FrameTypes
<1>3. IsExact(frames[Len(frames)])
  BY <1>1 DEF IsExact
<1>4. frames[Len(frames)].snap = w
  BY <1>3, AtExact
<1>5. Len(frames) <= MaxDepth
  BY Typed DEF IInv
<1> QED BY <1>1, <1>2, <1>4, <1>5 DEF Stacked

\* The body of the loop is entered.
LEMMA BodyBooks ==
  ASSUME IInv, status = "running", NEW w \in WriterType, Books(w, frames, Nothing), w.builder = FALSE,
         frames # <<>>, Top.kind = "loop", Top.at = "head", EnterBody(w)
  PROVE  Books(w, frames', Nothing) /\ Len(frames') <= MaxDepth
<1> DEFINE n == Len(frames)
           g == [Top EXCEPT !.at = "body"]
<1>1. /\ w = Top.snap /\ n \in DOMAIN frames /\ Top = frames[n]
      /\ frames \in Seq(FrameType) /\ Stacked(frames) /\ Top \in FrameType
      /\ FrameOK(Top, Seqs(frames, n - 1)) /\ n \in Nat /\ n <= MaxDepth
  BY HeadBooks
<1>2. /\ g \in FrameType /\ g.kind = Top.kind /\ g.at = "body" /\ g.names = Top.names
      /\ g.snap = w /\ g.head = Top.head /\ g.target = Top.target /\ g.seq = Top.seq
      /\ g.els = Top.els
  BY <1>1 DEF FrameType
<1>3. g = [Top EXCEPT !.at = "body", !.snap = w]
  BY <1>1 DEF FrameType
<1>4. frames' = [frames EXCEPT ![n] = g]
  BY <1>1, <1>3 DEF EnterBody
<1> HIDE DEF g
<1>5. frames' = Replaced(frames, n, g)
  BY <1>1, <1>4, TopReplaced
<1>6. FrameOK(g, Seqs(frames, n - 1))
  BY <1>1, <1>2 DEF FrameOK
<1>7. Same(g.snap, frames[n].snap) /\ Same(g.snap, w) /\ g.kind = frames[n].kind
  BY <1>1, <1>2 DEF Same
<1>8. /\ Stacked(frames') /\ Len(frames') = n /\ Inside(frames', w)
      /\ AllSeqs(frames') = Seqs(frames, n - 1) \cup ({g.seq} \ {None})
  BY <1>1, <1>2, <1>5, <1>6, <1>7, ReplaceFrame
<1>9. AllSeqs(frames') = AllSeqs(frames)
  BY <1>1, <1>2, <1>8, FrameTypes
<1>10. StatementOK(w, frames', Nothing)
  BY NothingOK
<1> QED BY <1>1, <1>8, <1>9, <1>10 DEF Books

LEMMA ConditionHoldsStep ==
  ASSUME IInv, ConditionHolds
  PROVE  IInv'
<1>1. /\ HasValue /\ stmt.goal = "condition" /\ CloseTemps({Value}) /\ writer' = Tested
      /\ EnterBody(Tested) /\ EndStatement /\ cvar' = Settle(cvar)
      /\ UNCHANGED <<bound, original, builderOpen, trackerOpen, status, result>>
  BY DEF ConditionHolds, ConditionTested
<1>2. /\ status = "running" /\ Tested \in WriterType /\ Tested.builder = FALSE
      /\ Books(Tested, frames, Nothing) /\ Bindings(Tested, cvar, bound, original)
      /\ Match(Tested.live, cvar, open \ Values({Value}))
      /\ Sound(faults \cup ClosingFaults({Value}))
  BY <1>1, TestedBooks
<1>3. StatementOK(writer, frames, stmt) /\ builderOpen = writer.builder /\ writer \in WriterType
  BY <1>2, OperandsTyped
<1>4. frames # <<>> /\ Top.kind = "loop" /\ Top.at = "head"
  BY <1>1, <1>3 DEF StatementOK, Top
<1>5. Books(Tested, frames', Nothing) /\ Len(frames') <= MaxDepth
  BY <1>1, <1>2, <1>4, BodyBooks
<1>6. /\ open' = open \ Values({Value}) /\ Sound(faults') /\ stmt' = Nothing
      /\ builderOpen' = FALSE
  BY <1>1, <1>2, <1>3, NothingOK DEF CloseTemps, HasValue, WriterType
<1>7. cvar \in Slotted /\ bound \in Bound /\ original \subseteq Args
  BY Typed DEF IInv
<1> QED BY <1>1, <1>2, <1>5, <1>6, <1>7, NothingOK, Assemble

LEMMA NextItemStep ==
  ASSUME IInv, NextItem
  PROVE  IInv'
<1> DEFINE x == Top.target
           slot == writer.locals[x]
           f == [cvar EXCEPT ![slot] = NewHandle]
<1>1. /\ status = "running" /\ Idle /\ frames # <<>> /\ Top.kind = "loop" /\ Top.at = "head"
      /\ x # None /\ FreeHandles # {} /\ EnterBody(writer)
      /\ open' = (open \ Values({slot})) \cup {NewHandle}
      /\ faults' = faults \cup ClosingFaults({slot})
      /\ bound' = [bound EXCEPT ![x] = NewHandle] /\ original' = original \ {x}
      /\ UNCHANGED <<writer, stmt, builderOpen, trackerOpen, status, result>>
      /\ cvar' = Settle(f)
  BY DEF NextItem, AtLoopHead, TopIs
<1>2. /\ stmt = Nothing /\ writer.builder = FALSE /\ builderOpen = FALSE
      /\ Books(writer, frames, Nothing) /\ writer \in WriterType /\ cvar \in Slotted
      /\ Match(writer.live, cvar, open) /\ Bindings(writer, cvar, bound, original)
      /\ Sound(faults) /\ TypeOK /\ bound \in Bound /\ original \subseteq Args
      /\ Nothing \in StatementType
  BY <1>1, IdleBooks, OperandsTyped, SoundFaults, Typed DEF IInv
<1>3. Books(writer, frames', Nothing) /\ Len(frames') <= MaxDepth
  BY <1>1, <1>2, BodyBooks
<1>4. x \in Names /\ x \in writer.stable
  <2>1. writer = Top.snap /\ FrameOK(Top, Seqs(frames, Len(frames) - 1)) /\ Top \in FrameType
    BY <1>1, <1>2, HeadBooks
  <2> QED BY <1>1, <2>1 DEF FrameOK, FrameType
<1>5. slot # None /\ slot \in Slots(writer) /\ slot \in writer.live /\ slot \in Temps
  BY <1>2, <1>4 DEF Books, Owns, Slots, WriterType
<1>6. NewHandle \in Handles /\ NewHandle # Null /\ NewHandle \notin open
  BY <1>1, <1>2, Fresh
<1>7. f \in Slotted /\ f[slot] = NewHandle /\ \A t \in writer.live : t # slot => f[t] = cvar[t]
  BY <1>2, <1>5, <1>6 DEF Slotted, WriterType
<1>8. bound' \in Bound /\ bound'[x] = NewHandle /\ \A y \in Names \ {x} : bound'[y] = bound[y]
  BY <1>1, <1>2, <1>4, <1>6 DEF Bound
<1>9. \A y \in Names : y # x /\ writer.locals[y] # None
                         => writer.locals[y] \in writer.live /\ writer.locals[y] # slot
  BY <1>2, <1>4, LiveParts DEF Books, Owns, Slots
<1> HIDE DEF f, x, slot
<1>10. {slot} \in SUBSET writer.live
  BY <1>5
<1>11. Match(writer.live \ {slot}, cvar, open \ Values({slot})) /\ ClosingFaults({slot}) = {}
  BY <1>2, <1>10, ClosingLive
<1>12. Match(writer.live, f, open')
  <2>1. slot \notin writer.live \ {slot} /\ \A t \in writer.live \ {slot} : f[t] = cvar[t]
    BY <1>7
  <2>2. f[slot] \notin open \ Values({slot}) /\ {f[slot]} \ {Null} = {NewHandle}
    BY <1>6, <1>7
  <2>3. Match((writer.live \ {slot}) \cup {slot}, f, (open \ Values({slot})) \cup {NewHandle})
    BY <1>11, <2>1, <2>2, MatchAdd
  <2>4. (writer.live \ {slot}) \cup {slot} = writer.live
    BY <1>5
  <2> QED BY <1>1, <2>3, <2>4
<1>13. Bindings(writer, f, bound', original')
  <2> SUFFICES ASSUME NEW y \in Names
               PROVE  /\ writer.locals[y] # None => bound'[y] = f[writer.locals[y]]
                      /\ writer.locals[y] = None /\ y \in writer.borrowed
                           => y \in original' /\ bound'[y] = Caller
                      /\ ~IsInitialized(writer, y) => bound'[y] = Null
    BY DEF Bindings
  <2>1. CASE y = x
    BY <2>1, <1>5, <1>7, <1>8 DEF slot, IsInitialized
  <2>2. CASE y # x
    BY <2>2, <1>1, <1>2, <1>7, <1>8, <1>9 DEF Bindings
  <2> QED BY <2>1, <2>2
<1>14. Sound(faults')
  BY <1>1, <1>2, <1>11
<1> QED BY <1>1, <1>2, <1>3, <1>7, <1>8, <1>12, <1>13, <1>14, Assemble

\* The loop is left at its head, for its else clause or for what follows.
LEMMA LeaveStep ==
  ASSUME IInv, SoundShapes, status = "running", NEW w \in WriterType, Books(w, frames, Nothing),
         w.builder = FALSE, frames # <<>>, Top.kind = "loop", Top.at = "head",
         LeaveLoop(Left(Top)), Match(Left(Top).live, cvar, open'),
         Bindings(w, cvar, bound, original), Sound(faults'), builderOpen = FALSE,
         UNCHANGED <<bound, original, builderOpen, trackerOpen, status, result>>
  PROVE  IInv'
<1> DEFINE n == Len(frames)
           v == Left(Top)
           g == [Top EXCEPT !.at = "else", !.seq = None, !.snap = v, !.head = v]
<1>1. /\ w = Top.snap /\ n \in DOMAIN frames /\ Top = frames[n]
      /\ frames \in Seq(FrameType) /\ Stacked(frames) /\ Top \in FrameType
      /\ FrameOK(Top, Seqs(frames, n - 1)) /\ n \in Nat /\ n <= MaxDepth
  BY HeadBooks
<1>2. /\ v \in WriterType /\ v.locals = w.locals /\ v.stable = w.stable
      /\ v.borrowed = w.borrowed /\ v.builder = FALSE /\ Owns(v, Seqs(frames, n - 1))
      /\ Books(v, SubSeq(frames, 1, n - 1), Nothing) /\ Len(SubSeq(frames, 1, n - 1)) = n - 1
  <2>1. Left(Top) = Left(frames[n]) /\ Stacked(frames) /\ n \in DOMAIN frames
    BY <1>1
  <2> HIDE DEF n, v
  <2>2. /\ Left(frames[n]) \in WriterType /\ Left(frames[n]).locals = frames[n].snap.locals
        /\ Left(frames[n]).stable = frames[n].snap.stable
        /\ Left(frames[n]).borrowed = frames[n].snap.borrowed /\ Left(frames[n]).builder = FALSE
        /\ Owns(Left(frames[n]), Seqs(frames, n - 1))
        /\ Books(Left(frames[n]), SubSeq(frames, 1, n - 1), Nothing)
        /\ Len(SubSeq(frames, 1, n - 1)) = n - 1
    BY <2>1, LeftBooks
  <2> QED BY <1>1, <2>1, <2>2 DEF v
<1>3. writer' = v /\ stmt' = Nothing /\ cvar' = Settle(cvar)
  BY NothingOK DEF LeaveLoop
<1>4. Books(v, frames', Nothing) /\ Len(frames') <= MaxDepth
  <2>1. CASE Top.els = "none"
    <3>1. frames' = SubSeq(frames, 1, n - 1)
      BY <1>1, <2>1, TopReplaced DEF LeaveLoop
    <3>2. n - 1 <= MaxDepth
      BY <1>1, Constants
    <3> QED BY <1>2, <3>1, <3>2
  <2>2. CASE Top.els # "none"
    <3>1. /\ g \in FrameType /\ g.kind = "loop" /\ g.at = "else" /\ g.names = Top.names
          /\ g.snap = v /\ g.head = v /\ g.target = Top.target /\ g.seq = None
          /\ g.els = Top.els
      BY <1>1, <1>2 DEF FrameType
    <3>2. frames' = [frames EXCEPT ![n] = g]
      BY <1>1, <2>2 DEF LeaveLoop
    <3> HIDE DEF g, v
    <3>3. frames' = Replaced(frames, n, g)
      BY <1>1, <3>2, TopReplaced
    <3>4. FrameOK(g, Seqs(frames, n - 1))
      <4>1. Owns(g.snap, Seqs(frames, n - 1) \cup ({g.seq} \ {None}))
        BY <1>2, <3>1
      <4>2. g.names \subseteq g.snap.stable /\ g.target \in g.names \cup {None}
        BY <1>1, <1>2, <3>1 DEF FrameOK
      <4> QED BY <1>1, <1>2, <3>1, <4>1, <4>2 DEF FrameOK
    <3>5. Same(g.snap, frames[n].snap) /\ Same(g.snap, v) /\ g.kind = frames[n].kind
      BY <1>1, <1>2, <3>1 DEF Same
    <3>6. /\ Stacked(frames') /\ Len(frames') = n /\ Inside(frames', v)
          /\ AllSeqs(frames') = Seqs(frames, n - 1) \cup ({g.seq} \ {None})
      BY <1>1, <3>1, <3>3, <3>4, <3>5, ReplaceFrame
    <3>7. AllSeqs(frames') = Seqs(frames, n - 1)
      BY <3>1, <3>6
    <3>8. StatementOK(v, frames', Nothing)
      BY <1>2, NothingOK
    <3> QED BY <1>1, <1>2, <3>6, <3>7, <3>8, NoOperands DEF Books, Nothing
  <2> QED BY <2>1, <2>2
<1> HIDE DEF v
<1>5. Bindings(v, cvar, bound, original)
  BY <1>2, BindingsSame
<1>6. cvar \in Slotted /\ bound \in Bound /\ original \subseteq Args
  BY Typed DEF IInv
<1>7. Match(v.live, cvar, open')
  BY DEF v
<1> QED BY <1>2, <1>3, <1>4, <1>5, <1>6, <1>7, NothingOK, Assemble

LEMMA ConditionFailsStep ==
  ASSUME IInv, SoundShapes, ConditionFails
  PROVE  IInv'
<1>1. /\ HasValue /\ stmt.goal = "condition" /\ CloseTemps({Value}) /\ LeaveLoop(Tested)
      /\ UNCHANGED <<bound, original, builderOpen, trackerOpen, status, result>>
  BY DEF ConditionFails, ConditionTested
<1>2. /\ status = "running" /\ Tested \in WriterType /\ Tested.builder = FALSE
      /\ Books(Tested, frames, Nothing) /\ Bindings(Tested, cvar, bound, original)
      /\ Match(Tested.live, cvar, open \ Values({Value}))
      /\ Sound(faults \cup ClosingFaults({Value}))
  BY <1>1, TestedBooks
<1>3. StatementOK(writer, frames, stmt) /\ builderOpen = writer.builder /\ writer \in WriterType
  BY <1>2, OperandsTyped
<1>4. frames # <<>> /\ Top.kind = "loop" /\ Top.at = "head" /\ Top.seq = None
  BY <1>1, <1>3 DEF StatementOK, Top
<1>5. Left(Top) = Tested
  <2>1. Tested = Top.snap /\ Stacked(frames) /\ Len(frames) \in DOMAIN frames /\ Top = frames[Len(frames)]
    BY <1>2, <1>4, HeadBooks
  <2> QED BY <1>4, <2>1, LeftBooks
<1>6. /\ open' = open \ Values({Value}) /\ Sound(faults') /\ builderOpen = FALSE
  BY <1>1, <1>2, <1>3 DEF CloseTemps, HasValue, WriterType
<1> QED BY <1>1, <1>2, <1>4, <1>5, <1>6, LeaveStep

LEMMA ItemsExhaustedStep ==
  ASSUME IInv, SoundShapes, ItemsExhausted
  PROVE  IInv'
<1> DEFINE S == {Top.seq} \ {None}
<1>1. /\ status = "running" /\ Idle /\ frames # <<>> /\ Top.kind = "loop" /\ Top.at = "head"
      /\ CloseTemps(S) /\ LeaveLoop([writer EXCEPT !.live = @ \ {Top.seq}])
      /\ UNCHANGED <<bound, original, builderOpen, trackerOpen, status, result>>
  BY DEF ItemsExhausted, AtLoopHead, TopIs
<1>2. /\ writer.builder = FALSE /\ builderOpen = FALSE
      /\ Books(writer, frames, Nothing) /\ writer \in WriterType
      /\ Match(writer.live, cvar, open) /\ Bindings(writer, cvar, bound, original)
      /\ Sound(faults)
  BY <1>1, IdleBooks, OperandsTyped, SoundFaults
<1>3. /\ writer = Top.snap /\ Stacked(frames) /\ Len(frames) \in DOMAIN frames
      /\ Top = frames[Len(frames)] /\ FrameOK(Top, Seqs(frames, Len(frames) - 1))
  BY <1>1, <1>2, HeadBooks
<1>4. [writer EXCEPT !.live = @ \ {Top.seq}] = Left(Top)
  BY <1>3 DEF Left
<1>5. Left(Top).live = writer.live \ S /\ S \in SUBSET writer.live
  <2>1. Left(Top).live = writer.live \ {Top.seq}
    BY <1>3, LeftBooks
  <2>2. None \notin writer.live
    BY <1>2, Constants DEF WriterType, Temps
  <2>3. S \in SUBSET writer.live
    BY <1>3 DEF FrameOK, Owns
  <2> QED BY <2>1, <2>2, <2>3
<1> HIDE DEF S
<1>6. Match(Left(Top).live, cvar, open') /\ Sound(faults')
  BY <1>1, <1>2, <1>5, ClosingLive DEF CloseTemps
<1>7. LeaveLoop(Left(Top))
  BY <1>1, <1>4
<1> QED BY <1>1, <1>2, <1>6, <1>7, LeaveStep

LEMMA EndElseStep ==
  ASSUME IInv, EndElse
  PROVE  IInv'
<1> DEFINE n == Len(frames)
<1>1. /\ status = "running" /\ Idle /\ frames # <<>> /\ Top.kind = "loop" /\ Top.at = "else"
      /\ frames' = Front(frames) /\ cvar' = Settle(cvar)
      /\ UNCHANGED <<writer, stmt, open, bound, original, builderOpen, trackerOpen,
                     status, result, faults>>
  BY DEF EndElse, Ready, TopIs
<1>2. /\ stmt = Nothing /\ writer.builder = FALSE /\ builderOpen = FALSE
      /\ Books(writer, frames, Nothing) /\ Stacked(frames) /\ frames \in Seq(FrameType)
      /\ writer \in WriterType /\ Sound(faults) /\ Len(frames) <= MaxDepth
      /\ Match(writer.live, cvar, open) /\ Bindings(writer, cvar, bound, original)
      /\ cvar \in Slotted /\ bound \in Bound /\ original \subseteq Args /\ stmt \in StatementType
  BY <1>1, IdleBooks, OperandsTyped, SoundFaults, Typed DEF Stacked, IInv
<1>3. n \in DOMAIN frames /\ frames' = SubSeq(frames, 1, n - 1) /\ Top = frames[n] /\ n \in Nat
  BY <1>1, <1>2, TopReplaced, FrameTypes DEF Top
<1>4. IsExact(frames[n]) /\ frames[n].seq = None
  BY <1>1, <1>2, <1>3 DEF IsExact, Stacked, FrameOK
<1>5. frames[n].snap = writer
  BY <1>1, <1>2, <1>4, AtExact
<1>6. Left(frames[n]) = writer
  BY <1>2, <1>3, <1>4, <1>5, LeftBooks
<1>7. Books(writer, frames', Nothing) /\ Len(frames') = n - 1
  BY <1>2, <1>3, <1>6, LeftBooks
<1>8. n - 1 <= MaxDepth
  BY <1>2, <1>3, Constants
<1> HIDE DEF n
<1>9. writer' = writer /\ stmt' = Nothing /\ open' = open /\ Sound(faults')
  BY <1>1, <1>2
<1> QED BY <1>1, <1>2, <1>7, <1>8, <1>9, Assemble

\* The loop whose body break and continue leave.
LEMMA TheLoop ==
  ASSUME Stacked(frames), Innermost # 0
  PROVE  /\ Innermost \in DOMAIN frames
         /\ frames[Innermost].kind = "loop" /\ frames[Innermost].at = "body"
<1> DEFINE S == {0} \cup {i \in FramesOf({"loop"}) : frames[i].at = "body"}
<1>1. Len(frames) \in Nat /\ DOMAIN frames = 1 .. Len(frames)
  BY FrameTypes
<1>2. S \in SUBSET (0 .. Len(frames)) /\ S # {}
  BY <1>1 DEF FramesOf
<1>3. Max(S) \in S
  BY <1>1, <1>2, MaxOf
<1>4. Innermost = Max(S)
  BY DEF Innermost
<1> QED BY <1>3, <1>4 DEF FramesOf

LEMMA BreakStep ==
  ASSUME IInv, SoundShapes, Break
  PROVE  IInv'
<1> DEFINE k == Innermost
           loop == frames[k]
           left == [loop.snap EXCEPT !.live = @ \ {loop.seq}]
           S == Created \cup ({loop.seq} \ {None})
<1>1. /\ status = "running" /\ Idle /\ Innermost # 0
      /\ CloseTemps(S) /\ writer' = IF loop.els = "exits" THEN Released(left) ELSE left
      /\ frames' = SubSeq(frames, 1, k - 1) /\ bound' = KnownBindings /\ cvar' = Settle(cvar)
      /\ UNCHANGED <<stmt, original, builderOpen, trackerOpen, status, result>>
  BY DEF Break, MayLeaveBody, Ready
<1>2. /\ stmt = Nothing /\ writer.builder = FALSE /\ builderOpen = FALSE
      /\ Books(writer, frames, Nothing) /\ Stacked(frames) /\ writer \in WriterType
      /\ Sound(faults) /\ Match(writer.live, cvar, open) /\ Len(frames) <= MaxDepth
  BY <1>1, IdleBooks, OperandsTyped, SoundFaults, Typed DEF IInv
<1>3. k \in DOMAIN frames /\ loop.kind = "loop" /\ loop.at = "body" /\ loop.els # "exits"
      /\ IsSaved(frames[k]) /\ k \in Nat /\ k <= Len(frames) /\ Len(frames) \in Nat
  <2>1. k \in DOMAIN frames /\ loop.kind = "loop" /\ loop.at = "body"
    BY <1>1, <1>2, TheLoop
  <2>2. FrameOK(loop, Seqs(frames, k - 1))
    BY <1>2, <2>1 DEF Stacked
  <2>3. k \in Nat /\ k <= Len(frames) /\ Len(frames) \in Nat
    BY <1>2, <2>1, FrameTypes
  <2> QED BY <2>1, <2>2, <2>3 DEF FrameOK, IsSaved
<1>4. left = Left(frames[k]) /\ writer' = Left(frames[k])
  BY <1>1, <1>3 DEF Left
<1> DEFINE s == Left(frames[k])
<1>5. /\ s \in WriterType /\ s.live = loop.snap.live \ {loop.seq} /\ s.locals = loop.snap.locals
      /\ s.borrowed = loop.snap.borrowed /\ s.builder = FALSE
      /\ Books(s, SubSeq(frames, 1, k - 1), Nothing) /\ Len(SubSeq(frames, 1, k - 1)) = k - 1
  BY <1>2, <1>3, LeftBooks
<1>6. S = writer.live \ s.live /\ S \in SUBSET writer.live
  <2>1. /\ loop.snap.live \subseteq writer.live
        /\ loop.snap.live = Slots(loop.snap) \cup Seqs(frames, k - 1) \cup ({loop.seq} \ {None})
    BY <1>2, <1>3, SnapshotLive
  <2>2. None \notin writer.live
    BY <1>2, Constants DEF WriterType, Temps
  <2> QED BY <1>5, <2>1, <2>2 DEF Created
<1>7. k - 1 <= MaxDepth
  BY <1>2, <1>3, Constants
<1> HIDE DEF S, s
<1>8. open' = open \ Values(S) /\ Sound(faults')
  BY <1>1, <1>2, <1>6, ClosingLive DEF CloseTemps
<1>9. s.live \subseteq frames[k].snap.live /\ writer' = s /\ stmt' = Nothing
  BY <1>1, <1>2, <1>4, <1>5 DEF s
<1> HIDE DEF k
<1> QED BY <1>1, <1>2, <1>3, <1>5, <1>6, <1>7, <1>8, <1>9, RestoreStep

LEMMA IterateStep ==
  ASSUME IInv, Iterate
  PROVE  IInv'
<1> DEFINE k == Innermost
           loop == frames[k]
           g == [loop EXCEPT !.at = "head", !.snap = loop.head]
           s == loop.snap
<1>1. /\ status = "running" /\ Idle /\ Innermost # 0
      /\ CloseTemps(Created) /\ writer' = loop.head
      /\ frames' = [SubSeq(frames, 1, k) EXCEPT
                     ![k] = [@ EXCEPT !.at = "head", !.snap = loop.head]]
      /\ bound' = KnownBindings /\ cvar' = Settle(cvar)
      /\ UNCHANGED <<stmt, original, builderOpen, trackerOpen, status, result>>
  BY DEF Iterate, MayLeaveBody, Ready
<1>2. /\ stmt = Nothing /\ writer.builder = FALSE /\ builderOpen = FALSE
      /\ Books(writer, frames, Nothing) /\ Stacked(frames) /\ writer \in WriterType
      /\ Sound(faults) /\ Match(writer.live, cvar, open) /\ Len(frames) <= MaxDepth
  BY <1>1, IdleBooks, OperandsTyped, SoundFaults, Typed DEF IInv
<1>3. /\ k \in DOMAIN frames /\ loop.kind = "loop" /\ loop.at = "body"
      /\ IsSaved(frames[k]) /\ k \in Nat /\ 0 < k /\ k <= Len(frames) /\ Len(frames) \in Nat
      /\ FrameOK(loop, Seqs(frames, k - 1)) /\ loop \in FrameType /\ s \in WriterType
  <2>1. k \in DOMAIN frames /\ loop.kind = "loop" /\ loop.at = "body"
    BY <1>1, <1>2, TheLoop
  <2>2. FrameOK(loop, Seqs(frames, k - 1))
    BY <1>2, <2>1 DEF Stacked
  <2>3. /\ k \in Nat /\ 0 < k /\ k <= Len(frames) /\ Len(frames) \in Nat
        /\ loop \in FrameType /\ s \in WriterType
    BY <1>2, <2>1, FrameTypes
  <2> QED BY <2>1, <2>2, <2>3 DEF IsSaved
<1>4. loop.head = s /\ s.builder = FALSE /\ Owns(s, Seqs(frames, k - 1) \cup ({loop.seq} \ {None}))
  BY <1>3 DEF FrameOK
<1>5. /\ g \in FrameType /\ g.kind = "loop" /\ g.at = "head" /\ g.names = loop.names
      /\ g.snap = s /\ g.head = s /\ g.target = loop.target /\ g.seq = loop.seq
      /\ g.els = loop.els
  BY <1>3, <1>4 DEF FrameType
<1>6. frames' = Replaced(frames, k, g)
  <2>1. /\ SubSeq(frames, 1, k) \in Seq(FrameType) /\ Len(SubSeq(frames, 1, k)) = k
        /\ \A j \in 1 .. k : SubSeq(frames, 1, k)[j] = frames[j]
    BY <1>2, <1>3, SubSeqProperties DEF Stacked
  <2>2. SubSeq(frames, 1, k) = [j \in 1 .. k |-> frames[j]]
    BY <2>1
  <2>3. k \in 1 .. k
    BY <1>3
  <2> QED BY <1>1, <2>2, <2>3 DEF Replaced
<1> HIDE DEF g
<1>7. FrameOK(g, Seqs(frames, k - 1))
  BY <1>3, <1>4, <1>5 DEF FrameOK
<1>8. Same(g.snap, frames[k].snap) /\ Same(g.snap, s) /\ g.kind = frames[k].kind
  BY <1>3, <1>5 DEF Same
<1> DEFINE gs == Replaced(frames, k, g)
<1>9. /\ Stacked(gs) /\ Len(gs) = k /\ Inside(gs, s)
      /\ AllSeqs(gs) = Seqs(frames, k - 1) \cup ({g.seq} \ {None})
  BY <1>2, <1>3, <1>5, <1>7, <1>8, ReplaceFrame
<1>10. Books(s, gs, Nothing)
  <2>1. StatementOK(s, gs, Nothing) /\ AllSeqs(gs) = Seqs(frames, k - 1) \cup ({loop.seq} \ {None})
    BY <1>4, <1>5, <1>9, NothingOK
  <2> QED BY <1>4, <1>9, <2>1, NoOperands DEF Books, Nothing
<1>11. Len(gs) <= MaxDepth
  BY <1>2, <1>3, <1>9, Constants
<1>12. Created = writer.live \ s.live /\ Created \in SUBSET writer.live
  BY DEF Created
<1>13. open' = open \ Values(Created) /\ Sound(faults')
  BY <1>1, <1>2, <1>12, ClosingLive DEF CloseTemps
<1>14. /\ s.locals = frames[k].snap.locals /\ s.borrowed = frames[k].snap.borrowed
       /\ s.live \subseteq frames[k].snap.live /\ writer' = s /\ stmt' = Nothing
  BY <1>1, <1>2, <1>4
<1> HIDE DEF s, k, gs
<1>15. frames' = gs
  BY <1>6 DEF gs
<1> QED BY <1>1, <1>2, <1>3, <1>4, <1>10, <1>11, <1>12, <1>13, <1>14, <1>15, RestoreStep

LEMMA LoopStep ==
  ASSUME IInv, SoundShapes, Loop
  PROVE  IInv'
<1>1. ASSUME NEW S \in SUBSET Names, NEW els \in {"none", "falls", "exits"}, OpenWhile(S, els)
      PROVE  IInv'
  <2>1. els \in {"none", "falls"} /\ Len(frames) < MaxDepth
    BY <1>1 DEF OpenWhile, MayOpen, SoundShapes
  <2> QED BY <1>1, <2>1, BeginStep DEF OpenWhile, Goals
<1>2. ASSUME NEW S \in SUBSET Names, NEW els \in {"none", "falls", "exits"}, NEW x \in Names,
             OpenFor(S, x, els)
      PROVE  IInv'
  <2>1. els \in {"none", "falls"} /\ Len(frames) < MaxDepth
    BY <1>2 DEF OpenFor, MayOpen, SoundShapes
  <2>2. S \cup {x} \in SUBSET Names
    OBVIOUS
  <2> QED BY <1>2, <2>1, <2>2, BeginStep DEF OpenFor, Goals
<1>3. CASE EnterWhile \/ EnterFor \/ \E x \in Names : EnterForBorrowed(x)
  BY <1>3, EnterLoops
<1>4. CASE BeginCondition
  <2>1. /\ status = "running" /\ Idle /\ frames # <<>> /\ Top.kind = "loop" /\ Top.at = "head"
        /\ Top.target = None /\ StartStatement("condition", None, {}, {}, "none")
        /\ UNCHANGED <<writer, frames, runtime, status, result, faults>>
    BY <1>4 DEF BeginCondition, AtLoopHead, TopIs
  <2>2. stmt = Nothing /\ writer.builder = FALSE
    BY <2>1, IdleBooks
  <2>3. /\ stmt' \in StatementType /\ stmt'.operands = <<>> /\ stmt'.goal = "condition"
        /\ stmt'.pending = {} /\ stmt'.els = "none" /\ stmt.operands = <<>>
    BY <2>1, <2>2, NoOperands DEF StartStatement, StatementType, Goals, Nothing
  <2>4. frames[Len(frames)] = Top /\ Top.seq = None
    <3>1. Books(writer, frames, Nothing) /\ writer \in WriterType
      BY <2>1, IdleBooks, OperandsTyped
    <3>2. FrameOK(Top, Seqs(frames, Len(frames) - 1)) /\ Top = frames[Len(frames)]
      BY <2>1, <2>2, <3>1, HeadBooks
    <3> QED BY <2>1, <3>2 DEF FrameOK
  <2>5. StatementOK(writer, frames, stmt')
    BY <2>1, <2>2, <2>3, <2>4, NoOperands DEF StatementOK
  <2> QED BY <2>1, <2>3, <2>5, StatementStep
<1>5. ConditionHolds \/ ConditionFails \/ NextItem \/ ItemsExhausted \/ EndElse \/ Break \/ Iterate
        => IInv'
  BY ConditionHoldsStep, ConditionFailsStep, NextItemStep, ItemsExhaustedStep, EndElseStep,
     BreakStep, IterateStep
<1> QED BY <1>1, <1>2, <1>3, <1>4, <1>5 DEF Loop

\* An except clause matches, or the error goes on.
LEMMA HandlerStep ==
  ASSUME IInv, MatchHandler
  PROVE  IInv'
<1> DEFINE n == Len(frames)
           g == [Top EXCEPT !.at = "body"]
<1>1. status = "running" /\ frames # <<>> /\ Top.kind = "handler"
  BY DEF MatchHandler, TopIs
<1>2. CASE Unwind({})
  BY <1>1, <1>2, SoundNone, UnwindStep
<1>3. CASE /\ frames' = [frames EXCEPT ![n].at = "body"]
           /\ UNCHANGED <<writer, stmt, runtime, status, result, faults>>
  <2>1. /\ Books(writer, frames, stmt) /\ Stacked(frames) /\ frames \in Seq(FrameType)
        /\ Inside(frames, writer) /\ writer \in WriterType /\ stmt \in StatementType
        /\ cvar \in Slotted /\ bound \in Bound /\ original \subseteq Args
        /\ Match(writer.live, cvar, open) /\ Bindings(writer, cvar, bound, original)
        /\ builderOpen = writer.builder /\ Sound(faults) /\ n <= MaxDepth
    BY <1>1, OperandsTyped, SoundFaults, Typed DEF Stacked, IInv
  <2>2. n \in DOMAIN frames /\ Top = frames[n] /\ Top \in FrameType
        /\ FrameOK(Top, Seqs(frames, n - 1))
    BY <1>1, <2>1, TopReplaced, FrameTypes DEF Top, Stacked
  <2>3. /\ g \in FrameType /\ g.kind = "handler" /\ g.at = "body" /\ g.names = Top.names
        /\ g.snap = Top.snap /\ g.head = Top.head /\ g.target = Top.target /\ g.seq = Top.seq
        /\ g.els = Top.els
    BY <1>1, <2>2 DEF FrameType
  <2>4. frames' = [frames EXCEPT ![n] = g]
    BY <1>3, <2>1, <2>2
  <2> HIDE DEF g
  <2>5. frames' = Replaced(frames, n, g)
    BY <1>1, <2>1, <2>4, TopReplaced
  <2>6. FrameOK(g, Seqs(frames, n - 1))
    BY <1>1, <2>2, <2>3 DEF FrameOK
  <2>7. Same(g.snap, frames[n].snap) /\ g.kind = frames[n].kind
    BY <1>1, <2>2, <2>3 DEF Same
  <2>8. /\ Stacked(frames') /\ Len(frames') = n /\ Inside(frames', writer)
        /\ AllSeqs(frames') = Seqs(frames, n - 1) \cup ({g.seq} \ {None}) /\ frames' # <<>>
        /\ frames'[n] = g
    BY <2>1, <2>2, <2>3, <2>5, <2>6, <2>7, ReplaceFrame
  <2>9. AllSeqs(frames') = AllSeqs(frames)
    BY <1>1, <2>1, <2>2, <2>3, <2>8, FrameTypes
  <2>10. StatementOK(writer, frames', stmt)
    BY <1>1, <2>1, <2>2, <2>3, <2>8 DEF Books, StatementOK
  <2>11. Books(writer, frames', stmt)
    BY <2>1, <2>8, <2>9, <2>10 DEF Books
  <2>12. UNCHANGED <<writer, stmt, cvar, open, bound, original, builderOpen, trackerOpen,
                     status, result, faults>>
    BY <1>3 DEF runtime
  <2> QED BY <1>1, <2>1, <2>8, <2>11, <2>12, Assemble
<1> QED BY <1>2, <1>3 DEF MatchHandler

-----------------------------------------------------------------------------
(* The invariant holds.                                                    *)

LEMMA InitIInv == Init => IInv
<1> SUFFICES ASSUME Init PROVE IInv
  OBVIOUS
<1>1. /\ writer \in WriterType /\ writer.live = {} /\ writer.stable = {} /\ writer.borrowed = Args
      /\ writer.builder = FALSE /\ writer.tracker = Tracked
      /\ \A x \in Names : writer.locals[x] = None
  BY Constants DEF Init, WriterType
<1>2. stmt = Nothing /\ stmt \in StatementType /\ frames = <<>> /\ Len(frames) = 0
      /\ DOMAIN frames = {}
  BY NothingOK DEF Init, Nothing
<1>3. /\ cvar \in Slotted /\ open = {} /\ bound \in Bound /\ original = Args
      /\ builderOpen = FALSE /\ trackerOpen = Tracked /\ status = "running" /\ result = Null
      /\ faults = {}
  BY DEF Init, Slotted, Bound
<1>4. TypeOK
  <2>1. Len(frames) <= MaxDepth /\ \A i \in DOMAIN frames : IsFrame(frames[i])
    BY <1>2, Constants
  <2>2. builderOpen \in BOOLEAN /\ trackerOpen \in BOOLEAN
    BY <1>3, Constants
  <2> QED BY <1>1, <1>2, <1>3, <2>1, <2>2, WriterTypes
          DEF TypeOK, StatementType, IsStatement, Slotted, Bound
<1>5. Stacked(frames) /\ Inside(frames, writer)
  BY <1>2 DEF Stacked, Inside, Tries
<1>6. AllSeqs(frames) = {}
  BY <1>2, NoSeqs DEF AllSeqs
<1>7. Slots(writer) = {}
  BY <1>1 DEF Slots
<1>8. Owns(writer, {})
  BY <1>1, <1>7 DEF Owns
<1>9. StatementOK(writer, frames, stmt) /\ Range(stmt.operands) = {}
  BY <1>1, <1>2, NothingOK, NoOperands DEF Nothing
<1>10. Books(writer, frames, stmt)
  BY <1>5, <1>6, <1>8, <1>9 DEF Books
<1>11. Match(writer.live, cvar, open)
  BY <1>1, <1>3 DEF Match
<1>12. Bindings(writer, cvar, bound, original)
  BY <1>1, <1>3 DEF Bindings, IsInitialized, Init
<1>13. Running
  BY <1>1, <1>3, <1>10, <1>11, <1>12 DEF Running
<1> QED BY <1>3, <1>4, <1>13 DEF IInv, ExitReleasesEverything, NoDanglingUse, ReadsAreCurrent

LEMMA NextIInv ==
  ASSUME SoundShapes, IInv, [Next]_vars
  PROVE  IInv'
<1>1. CASE Expression
  BY <1>1, ExpressionStep
<1>2. CASE SimpleStatement
  BY <1>2, SimpleStatementStep
<1>3. CASE Conditional
  BY <1>3, ConditionalStep
<1>4. CASE Loop
  BY <1>4, LoopStep
<1>5. CASE OpenTry
  BY <1>5, TryStep
<1>6. CASE MatchHandler
  BY <1>6, HandlerStep
<1>7. ASSUME NEW x \in Names, promote_local_slot(x) PROVE IInv'
  BY <1>7, PromoteStep
<1>8. CASE UNCHANGED vars
  BY <1>8 DEF vars, runtime, IInv, TypeOK, Running, Idle, ExitReleasesEverything,
              NoDanglingUse, ReadsAreCurrent
<1> QED BY <1>1, <1>2, <1>3, <1>4, <1>5, <1>6, <1>7, <1>8 DEF Next

\* Wherever the writer stands in a function, and whatever constructs it is
\* inside of, its bookkeeping is that of the generated C: each live temporary
\* holds one open handle, each name denotes what it is bound to, and what a
\* construct's _snapshot_lifetime_state() put aside still agrees with the
\* present as far as it will be restored.
THEOREM Invariant ==
  ASSUME SoundShapes PROVE Spec => []IInv
<1>1. Init => IInv
  BY InitIInv
<1>2. IInv /\ [Next]_vars => IInv'
  BY NextIInv
<1> QED BY <1>1, <1>2, PTL DEF Spec

\* The writer, its frames and the run of what it wrote keep their types.
THEOREM TypeCorrect ==
  ASSUME SoundShapes PROVE Spec => []TypeOK
<1>1. IInv => TypeOK
  BY DEF IInv
<1> QED BY <1>1, Invariant, PTL

\* The temporaries that the manager takes for live at a point of the generated
\* function (temp_manager.live_lifetimes() there) are those that hold an open
\* handle when the function runs past it, one handle each.
THEOREM BooksAreTrue ==
  ASSUME SoundShapes PROVE Spec => []HandlesMatch
<1>1. IInv => HandlesMatch
  BY DEF IInv, Running, Match, HandlesMatch, Values
<1> QED BY <1>1, Invariant, PTL

\* Every way out closes every handle the function opened: return_owned_result(),
\* the end of the body, and _put_failure_cleanup() after any call that fails.
THEOREM ExitsRelease ==
  ASSUME SoundShapes PROVE Spec => []ExitReleasesEverything
<1>1. IInv => ExitReleasesEverything
  BY DEF IInv
<1> QED BY <1>1, Invariant, PTL

\* No generated statement uses or closes a handle that is not open, whatever
\* was restored by _restore_lifetime_state() before it.
THEOREM NothingDangles ==
  ASSUME SoundShapes PROVE Spec => []NoDanglingUse
<1>1. IInv => NoDanglingUse
  BY DEF IInv
<1> QED BY <1>1, Invariant, PTL

\* At any point of the function a name, whether it is read through its slot
\* (promote_local_slot), the temporary it was bound to or the argument the
\* caller lent (duplicate_named_value), stands for the value last bound to it.
THEOREM NamesAreRight ==
  ASSUME SoundShapes PROVE Spec => []NamesDenoteTheirValues
<1>1. IInv => NamesDenoteTheirValues
  BY DenotesValue DEF NamesDenoteTheirValues
<1> QED BY <1>1, Invariant, PTL

\* A value that an expression has in hand is the one its name had when the
\* expression read it, as in Python, except where an argument is rebound by an
\* operand to its right.
THEOREM ReadsAreRight ==
  ASSUME Lanes = {} PROVE Spec => []ReadsAreCurrent
<1>1. SoundShapes
  BY DEF SoundShapes
<1>2. IInv => ReadsAreCurrent
  BY DEF IInv
<1> QED BY <1>1, <1>2, Invariant, PTL
=============================================================================
