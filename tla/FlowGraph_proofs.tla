--------------------------- MODULE FlowGraph_proofs ---------------------------
(***************************************************************************)
(* The data-flow analysis finds what the walks through the graph bring to  *)
(* each place, for every graph of blocks.                                  *)
(*                                                                         *)
(* What walks carry to the blocks is the least set of pairs that contains  *)
(* the entry point's and is closed under the edges.  The search from the   *)
(* entry point finds the blocks of those pairs; leaving out the edges of   *)
(* the other blocks, and bypassing empty ones, changes no pair of a block  *)
(* that is left; and the rounds of reaching_definitions come to rest on    *)
(* the pairs, because outputs only grow and are finitely many.             *)
(***************************************************************************)
EXTENDS FlowGraph, FiniteSetTheorems, SequenceTheorems, WellFoundedInduction, TLAPS

Below == {p \in Nat \X Nat : p[1] < p[2]}

\* A nonempty set of naturals has a least element: the order is well founded.
LEMMA LeastNumber ==
  ASSUME NEW S \in SUBSET Nat, S # {}
  PROVE  \E n \in S : \A m \in S : n <= m
<1>1. IsWellFoundedOn(Below, Nat)
  BY NatLessThanWellFounded DEF OpToRel, Below
<1>2. PICK n \in S : \A m \in S : ~ (<<m, n>> \in Below)
  BY <1>1, WFMin
<1>3. \A m \in S : ~ (m < n)
  <2> TAKE m \in S
  <2>1. <<m, n>> \in Nat \X Nat /\ <<m, n>>[1] = m /\ <<m, n>>[2] = n
    OBVIOUS
  <2> QED BY <1>2, <2>1 DEF Below
<1> QED BY <1>3

-----------------------------------------------------------------------------
(* Definitions by recursion over the naturals.                             *)

\* Induction: what holds at the beginning and from a turn to the next.
LEMMA AllTurns ==
  ASSUME NEW Good, 0 \in Good, \A n \in Nat : n \in Good => n + 1 \in Good
  PROVE  \A n \in Nat : n \in Good
<1> DEFINE Bad == {n \in Nat : n \notin Good}
<1> SUFFICES ASSUME Bad # {} PROVE FALSE
  OBVIOUS
<1>1. PICK n \in Bad : \A m \in Bad : n <= m
  BY LeastNumber
<1>2. n # 0 /\ n \in Nat /\ n \notin Good
  OBVIOUS
<1>3. n - 1 \in Nat /\ (n - 1) + 1 = n /\ ~ (n <= n - 1)
  BY <1>2
<1>4. n - 1 \in Good
  BY <1>1, <1>3
<1> QED BY <1>2, <1>3, <1>4

\* The turns up to the m-th, each made from the one before it.
IsRun(f, base, turn, m) ==
  f = [i \in 0 .. m |-> IF i = 0 THEN base ELSE turn[<<i, f[i - 1]>>]]
RunTo(base, turn, m) == CHOOSE f : IsRun(f, base, turn, m)

\* There are such turns.
LEMMA RunExists ==
  ASSUME NEW base, NEW turn, NEW m \in Nat
  PROVE  IsRun(RunTo(base, turn, m), base, turn, m)
<1> DEFINE Good == {n \in Nat : \E f : IsRun(f, base, turn, n)}
<1>1. 0 \in Good
  <2> DEFINE f == [i \in 0 .. 0 |-> base]
  <2>1. f = [i \in 0 .. 0 |-> IF i = 0 THEN base ELSE turn[<<i, f[i - 1]>>]]
    OBVIOUS
  <2> HIDE DEF f
  <2> QED BY <2>1 DEF IsRun
<1>2. ASSUME NEW n \in Nat, n \in Good PROVE n + 1 \in Good
  <2>1. PICK f : IsRun(f, base, turn, n)
    BY <1>2
  <2> DEFINE g == [i \in 0 .. n + 1 |-> IF i = n + 1 THEN turn[<<n + 1, f[n]>>] ELSE f[i]]
             h == [i \in 0 .. n + 1 |-> IF i = 0 THEN base ELSE turn[<<i, g[i - 1]>>]]
  <2>2. \A i \in 0 .. n + 1 : g[i] = h[i]
    <3> TAKE i \in 0 .. n + 1
    <3>1. CASE i = n + 1
      <4>1. i - 1 = n /\ n \in 0 .. n + 1 /\ n # n + 1 /\ i # 0
        BY <3>1
      <4>2. g[n] = f[n]
        BY <4>1
      <4> HIDE DEF g
      <4>3. h[i] = turn[<<i, g[i - 1]>>]
        BY <4>1
      <4>4. g[i] = turn[<<n + 1, f[n]>>]
        BY <3>1 DEF g
      <4> QED BY <3>1, <4>1, <4>2, <4>3, <4>4
    <3>2. CASE i # n + 1
      <4>1. i \in 0 .. n
        BY <3>2
      <4>2. f[i] = IF i = 0 THEN base ELSE turn[<<i, f[i - 1]>>]
        BY <2>1, <4>1 DEF IsRun
      <4>3. g[i] = f[i]
        BY <3>2
      <4>4. i # 0 => g[i - 1] = f[i - 1]
        BY <4>1
      <4> HIDE DEF g
      <4> QED BY <4>2, <4>3, <4>4
    <3> QED BY <3>1, <3>2
  <2>3. g = h
    BY <2>2
  <2>4. IsRun(g, base, turn, n + 1)
    <3> HIDE DEF g
    <3> QED BY <2>3 DEF IsRun
  <2> HIDE DEF g
  <2> QED BY <2>4
<1>3. m \in Good
  <2> HIDE DEF Good
  <2> QED BY <1>1, <1>2, AllTurns
<1> QED BY <1>3 DEF RunTo

\* A function of all naturals whose values are made one from the other.
IsTurns(f, base, turn) == f = [n \in Nat |-> IF n = 0 THEN base ELSE turn[<<n, f[n - 1]>>]]

LEMMA TurnsExist ==
  ASSUME NEW base, NEW turn
  PROVE  \E f : IsTurns(f, base, turn)
<1> DEFINE R(m) == RunTo(base, turn, m)
           f == [n \in Nat |-> R(n)[n]]
           g == [n \in Nat |-> IF n = 0 THEN base ELSE turn[<<n, f[n - 1]>>]]
<1>1. \A m \in Nat : \A i \in 0 .. m : R(m)[i] = IF i = 0 THEN base ELSE turn[<<i, R(m)[i - 1]>>]
  <2> TAKE m \in Nat
  <2>1. IsRun(R(m), base, turn, m)
    BY RunExists
  <2> HIDE DEF R
  <2> QED BY <2>1 DEF IsRun
<1> HIDE DEF R
<1>2. ASSUME NEW m \in Nat
      PROVE  \A i \in Nat : i <= m => R(m + 1)[i] = R(m)[i]
  <2> DEFINE Good == {i \in Nat : i <= m => R(m + 1)[i] = R(m)[i]}
  <2>a. m + 1 \in Nat
    OBVIOUS
  <2>b. \A i \in 0 .. m + 1 :
            R(m + 1)[i] = IF i = 0 THEN base ELSE turn[<<i, R(m + 1)[i - 1]>>]
    BY <1>1, <2>a
  <2>c. \A i \in 0 .. m : R(m)[i] = IF i = 0 THEN base ELSE turn[<<i, R(m)[i - 1]>>]
    BY <1>1
  <2>1. 0 \in Good
    <3>1. 0 \in 0 .. m /\ 0 \in 0 .. m + 1
      OBVIOUS
    <3> QED BY <2>b, <2>c, <3>1
  <2>2. ASSUME NEW i \in Nat, i \in Good PROVE i + 1 \in Good
    <3> SUFFICES ASSUME i + 1 <= m PROVE R(m + 1)[i + 1] = R(m)[i + 1]
      OBVIOUS
    <3>1. i + 1 \in 0 .. m /\ i + 1 \in 0 .. m + 1 /\ (i + 1) - 1 = i /\ i + 1 # 0 /\ i <= m
      OBVIOUS
    <3>2. R(m + 1)[i] = R(m)[i]
      BY <2>2, <3>1
    <3>3. R(m + 1)[i + 1] = turn[<<i + 1, R(m + 1)[i]>>]
      BY <2>b, <3>1
    <3>4. R(m)[i + 1] = turn[<<i + 1, R(m)[i]>>]
      BY <2>c, <3>1
    <3> QED BY <3>2, <3>3, <3>4
  <2>3. \A i \in Nat : i \in Good
    <3> HIDE DEF Good
    <3> QED BY <2>1, <2>2, AllTurns
  <2> QED BY <2>3
<1>3. \A n \in Nat : f[n] = g[n]
  <2> TAKE n \in Nat
  <2>1. CASE n = 0
    <3>1. 0 \in Nat /\ 0 \in 0 .. 0
      OBVIOUS
    <3>2. R(0)[0] = base
      BY <1>1, <3>1
    <3>3. f[n] = R(n)[n]
      OBVIOUS
    <3> QED BY <2>1, <3>2, <3>3
  <2>2. CASE n # 0
    <3>1. n - 1 \in Nat /\ n - 1 <= n - 1 /\ (n - 1) + 1 = n /\ n \in 0 .. n
      BY <2>2
    <3>2. R(n)[n - 1] = R(n - 1)[n - 1]
      BY <1>2, <3>1
    <3>3. R(n)[n] = turn[<<n, R(n)[n - 1]>>]
      BY <1>1, <2>2, <3>1
    <3>4. f[n - 1] = R(n - 1)[n - 1]
      BY <3>1
    <3> HIDE DEF f
    <3>5. g[n] = turn[<<n, f[n - 1]>>]
      BY <2>2
    <3>6. f[n] = R(n)[n]
      BY DEF f
    <3> QED BY <3>2, <3>3, <3>4, <3>5, <3>6
  <2> QED BY <2>1, <2>2
<1>4. f = g
  BY <1>3
<1> HIDE DEF f
<1>5. IsTurns(f, base, turn)
  BY <1>4 DEF IsTurns
<1> QED BY <1>5

\* Sets of a finite universe that only grow come to rest within its size.
LEMMA ChainSettles ==
  ASSUME NEW U, IsFiniteSet(U), NEW c,
         \A n \in Nat : c[n] \subseteq U /\ c[n] \subseteq c[n + 1]
  PROVE  \E n \in 0 .. Cardinality(U) : c[n + 1] = c[n]
<1> SUFFICES ASSUME \A n \in 0 .. Cardinality(U) : c[n + 1] # c[n] PROVE FALSE
  OBVIOUS
<1> DEFINE N == Cardinality(U)
           Good == {n \in Nat : n <= N + 1 => Cardinality(c[n]) >= n}
<1>1. N \in Nat
  BY FS_CardinalityType
<1>2. \A n \in Nat : IsFiniteSet(c[n]) /\ Cardinality(c[n]) \in Nat /\ Cardinality(c[n]) <= N
  BY FS_Subset, FS_CardinalityType
<1>3. 0 \in Good
  BY <1>2
<1>4. ASSUME NEW n \in Nat, n \in Good PROVE n + 1 \in Good
  <2> SUFFICES ASSUME n + 1 <= N + 1 PROVE Cardinality(c[n + 1]) >= n + 1
    OBVIOUS
  <2>1. n \in 0 .. N /\ n <= N + 1
    BY <1>1
  <2>2. c[n] \subseteq c[n + 1] /\ c[n + 1] # c[n]
    BY <2>1
  <2>3. Cardinality(c[n]) < Cardinality(c[n + 1])
    <3>1. Cardinality(c[n]) <= Cardinality(c[n + 1])
          /\ (Cardinality(c[n]) = Cardinality(c[n + 1]) => c[n] = c[n + 1])
      BY <1>2, <2>2, FS_Subset
    <3> QED BY <1>2, <2>2, <3>1
  <2>4. Cardinality(c[n]) >= n
    BY <1>4, <2>1
  <2> QED BY <1>2, <2>3, <2>4
<1>5. N + 1 \in Good
  <2>1. N + 1 \in Nat
    BY <1>1
  <2> HIDE DEF Good, N
  <2> QED BY <1>3, <1>4, <2>1, AllTurns
<1> QED BY <1>1, <1>2, <1>5

-----------------------------------------------------------------------------
\* Walks over given edges.
Typed(E, S) ==
  /\ S \in Seq(Seq(Stats)) /\ Entry \in DOMAIN S /\ S[Entry] = <<>>
  /\ E \subseteq (DOMAIN S) \X (DOMAIN S \ {Entry})
Walks(E, S) == {w \in Seq(Nat \X ProgramPlaces) : IsWalk(E, S, w)}
Carried(E, S) == {w[Len(w)] : w \in Walks(E, S)}

\* A set of pairs that a walk cannot leave.
Closed(E, S, Q) ==
  /\ <<Entry, Unbound>> \in Q
  /\ \A a, b, d : <<a, b>> \in E /\ <<a, d>> \in Q => <<b, LeavingBlock(S, a, d)>> \in Q

\* The last change of a block is one of its stats.
LEMMA ChangeIs ==
  ASSUME NEW s \in Seq(Stats), NEW n \in Nat
  PROVE  /\ Change(s, n) # 0 => Change(s, n) \in Changes(s, n)
         /\ Change(s, n) = 0 <=> Changes(s, n) = {}
<1>1. DOMAIN s = 1 .. Len(s) /\ Len(s) \in Nat
  OBVIOUS
<1>2. CASE Changes(s, n) = {}
  BY <1>2 DEF Change
<1>3. CASE Changes(s, n) # {}
  <2> DEFINE Top == {k \in Nat : \E i \in Changes(s, n) : k = Len(s) - i}
  <2>1. Changes(s, n) \subseteq 1 .. Len(s)
    BY <1>1 DEF Changes
  <2>2. Top # {}
    <3>1. PICK i \in Changes(s, n) : TRUE
      BY <1>3
    <3>2. Len(s) - i \in Nat
      BY <1>1, <2>1, <3>1
    <3> QED BY <3>1, <3>2
  <2>3. PICK k \in Top : \A j \in Top : k <= j
    <3>1. Top \in SUBSET Nat
      OBVIOUS
    <3> HIDE DEF Top
    <3> QED BY <2>2, <3>1, LeastNumber
  <2>4. PICK i \in Changes(s, n) : k = Len(s) - i
    BY <2>3
  <2>5. \A j \in Changes(s, n) : j <= i
    <3> TAKE j \in Changes(s, n)
    <3>1. j \in 1 .. Len(s) /\ i \in 1 .. Len(s)
      BY <2>1
    <3>a. Len(s) - j \in Nat
      <4> DEFINE m == Len(s)
      <4>1. m \in Nat /\ j \in 1 .. m
        BY <1>1, <3>1
      <4> HIDE DEF m, Top
      <4>2. m - j \in Nat
        BY <4>1
      <4> QED BY <4>2 DEF m
    <3>2. Len(s) - j \in Top
      BY <3>a
    <3>3. k <= Len(s) - j
      BY <2>3, <3>2
    <3> QED BY <1>1, <2>4, <3>1, <3>3
  <2>6. Change(s, n) \in Changes(s, n)
    BY <1>3, <2>5 DEF Change
  <2> QED BY <1>3, <2>1, <2>6
<1> QED BY <1>2, <1>3

\* What a block leaves is what it found or one of its definitions.
LEMMA AfterTyped ==
  ASSUME NEW S \in Seq(Seq(Stats)), NEW b \in DOMAIN S, NEW n \in Nat, NEW d \in Definitions(S)
  PROVE  After(S[b], n, d) \in Definitions(S)
<1>1. S[b] \in Seq(Stats)
  OBVIOUS
<1> DEFINE i == Change(S[b], n)
<1>2. CASE i = 0
  BY <1>2 DEF After
<1>3. CASE i # 0
  <2>1. i \in DOMAIN S[b]
    BY <1>1, <1>3, ChangeIs DEF Changes
  <2>2. S[b][i].place \in Definitions(S)
    BY <2>1 DEF Definitions
  <2>3. Unbound \in Definitions(S)
    BY DEF Definitions
  <2> QED BY <1>3, <2>2, <2>3 DEF After, Given
<1> QED BY <1>2, <1>3

\* A function's values on a finite set are finitely many.
LEMMA ValuesFinite ==
  ASSUME NEW T, IsFiniteSet(T), NEW f
  PROVE  IsFiniteSet({f[x] : x \in T})
<1> DEFINE V == {f[x] : x \in T}
           g == [x \in T |-> f[x]]
<1>1. g \in Surjection(T, V)
  BY DEF Surjection
<1> HIDE DEF V, g
<1>2. IsFiniteSet(V)
  BY <1>1, FS_Surjection
<1> QED BY <1>2 DEF V

\* A graph has finitely many blocks and definitions.
LEMMA DefinitionsTyped ==
  ASSUME NEW S \in Seq(Seq(Stats))
  PROVE  /\ Unbound \in Definitions(S)
         /\ Definitions(S) \subseteq ProgramPlaces
         /\ IsFiniteSet(Definitions(S)) /\ IsFiniteSet(DOMAIN S)
         /\ Cardinality(DOMAIN S) = Len(S)
<1> DEFINE At(b) == {S[b][i].place : i \in DOMAIN S[b]}
           All == {At(b) : b \in DOMAIN S}
<1>1. DOMAIN S = 1 .. Len(S) /\ Len(S) \in Nat
  OBVIOUS
<1>2. \A b \in DOMAIN S : S[b] \in Seq(Stats) /\ DOMAIN S[b] = 1 .. Len(S[b]) /\ Len(S[b]) \in Nat
  OBVIOUS
<1>3. IsFiniteSet(DOMAIN S) /\ Cardinality(DOMAIN S) = Len(S)
  <2>1. 1 \in Int /\ Len(S) \in Int
    BY <1>1
  <2>2. IsFiniteSet(1 .. Len(S)) /\ Cardinality(1 .. Len(S)) = IF 1 > Len(S) THEN 0 ELSE Len(S) - 1 + 1
    BY <2>1, FS_Interval
  <2>3. (IF 1 > Len(S) THEN 0 ELSE Len(S) - 1 + 1) = Len(S)
    BY <1>1
  <2> QED BY <1>1, <2>2, <2>3
<1>4. \A b \in DOMAIN S : IsFiniteSet(At(b)) /\ At(b) \subseteq ProgramPlaces
  <2> TAKE b \in DOMAIN S
  <2>1. IsFiniteSet(1 .. Len(S[b]))
    <3>1. 1 \in Int /\ Len(S[b]) \in Int
      BY <1>2
    <3> QED BY <3>1, FS_Interval
  <2>2. IsFiniteSet(DOMAIN S[b])
    BY <1>2, <2>1
  <2>3. IsFiniteSet(At(b))
    <3> DEFINE f == [i \in DOMAIN S[b] |-> S[b][i].place]
    <3>1. At(b) = {f[i] : i \in DOMAIN S[b]}
      OBVIOUS
    <3> HIDE DEF f, At
    <3> QED BY <2>2, <3>1, ValuesFinite
  <2>4. \A i \in DOMAIN S[b] : S[b][i] \in Stats
    BY <1>2
  <2> QED BY <2>3, <2>4 DEF Stats
<1>5. IsFiniteSet(All)
  <2> HIDE DEF At
  <2> DEFINE f == [b \in DOMAIN S |-> At(b)]
  <2>1. All = {f[b] : b \in DOMAIN S}
    OBVIOUS
  <2> HIDE DEF f, All
  <2> QED BY <1>3, <2>1, ValuesFinite
<1>6. IsFiniteSet(UNION All)
  <2> HIDE DEF At
  <2>1. \A x \in All : IsFiniteSet(x)
    BY <1>4
  <2> HIDE DEF All
  <2> QED BY <1>5, <2>1, FS_UNION
<1>7. Definitions(S) = {Unbound} \cup UNION All
  BY DEF Definitions
<1>8. Unbound \in ProgramPlaces
  BY DEF Unbound, ProgramPlaces
<1>9. UNION All \subseteq ProgramPlaces
  <2> HIDE DEF At
  <2> QED BY <1>4
<1>10. IsFiniteSet({Unbound} \cup UNION All)
  <2> HIDE DEF All
  <2> QED BY <1>6, FS_Singleton, FS_Union
<1> HIDE DEF All
<1> QED BY <1>3, <1>7, <1>8, <1>9, <1>10

\* A walk begins at the entry point, and can be continued along every edge.
LEMMA CarriedClosed ==
  ASSUME NEW E, NEW S, Typed(E, S)
  PROVE  Closed(E, S, Carried(E, S))
<1> DEFINE P == Nat \X ProgramPlaces
<1>1. Entry \in Nat /\ Unbound \in ProgramPlaces
  BY DefinitionsTyped DEF Typed, Entry
<1>2. <<Entry, Unbound>> \in Carried(E, S)
  <2> DEFINE w == << <<Entry, Unbound>> >>
  <2>1. w \in Seq(P) /\ Len(w) = 1 /\ w[1] = <<Entry, Unbound>> /\ w # <<>>
    BY <1>1
  <2> HIDE DEF w
  <2>2. 1 .. Len(w) - 1 = {}
    BY <2>1
  <2>3. IsWalk(E, S, w)
    BY <2>1, <2>2 DEF IsWalk
  <2> QED BY <2>1, <2>3 DEF Carried, Walks
<1>3. ASSUME NEW a, NEW b, NEW d, <<a, b>> \in E, <<a, d>> \in Carried(E, S)
      PROVE  <<b, LeavingBlock(S, a, d)>> \in Carried(E, S)
  <2>1. PICK w \in Walks(E, S) : w[Len(w)] = <<a, d>>
    BY <1>3 DEF Carried
  <2>2. w \in Seq(P) /\ IsWalk(E, S, w)
    BY <2>1 DEF Walks
  <2> DEFINE p == <<b, LeavingBlock(S, a, d)>>
             v == Append(w, p)
  <2>3. a \in DOMAIN S /\ b \in DOMAIN S /\ DOMAIN S \subseteq Nat
    BY <1>3 DEF Typed
  <2>4. d \in ProgramPlaces
    <3>1. Len(w) \in DOMAIN w
      BY <2>2 DEF IsWalk
    <3>2. <<a, d>> \in P
      BY <2>1, <2>2, <3>1
    <3> QED BY <3>2
  <2>5. LeavingBlock(S, a, d) \in ProgramPlaces
    <3> DEFINE i == Change(S[a], Len(S[a]))
    <3>1. S[a] \in Seq(Stats) /\ Len(S[a]) \in Nat
      BY <2>3 DEF Typed
    <3>2. i # 0 => S[a][i] \in Stats
      BY <3>1, ChangeIs DEF Changes
    <3>3. i # 0 => Given(S[a][i]) \in ProgramPlaces
      BY <1>1, <3>2 DEF Given, Stats
    <3> QED BY <2>4, <3>3 DEF LeavingBlock, After
  <2>6. p \in P
    BY <2>3, <2>5
  <2> HIDE DEF p, P
  <2>7. v \in Seq(P) /\ Len(v) = Len(w) + 1 /\ v[Len(v)] = p /\ v # <<>>
        /\ \A n \in 1 .. Len(w) : v[n] = w[n]
    BY <2>2, <2>6
  <2>8. Len(w) \in Nat /\ Len(w) >= 1
    BY <2>2 DEF IsWalk
  <2> HIDE DEF v
  <2>9. ASSUME NEW n \in 1 .. Len(v) - 1
        PROVE  /\ <<v[n][1], v[n + 1][1]>> \in E
               /\ v[n + 1][2] = LeavingBlock(S, v[n][1], v[n][2])
    <3>1. CASE n = Len(w)
      <4>1. v[n] = <<a, d>> /\ v[n + 1] = p
        BY <2>1, <2>7, <2>8, <3>1
      <4> QED BY <1>3, <4>1 DEF p
    <3>2. CASE n # Len(w)
      <4>1. n \in 1 .. Len(w) - 1 /\ n \in 1 .. Len(w) /\ n + 1 \in 1 .. Len(w)
        BY <2>7, <2>8, <3>2
      <4>2. v[n] = w[n] /\ v[n + 1] = w[n + 1]
        BY <2>7, <4>1
      <4> QED BY <2>2, <4>1, <4>2 DEF IsWalk
    <3> QED BY <3>1, <3>2
  <2>10. v[1] = <<Entry, Unbound>>
    <3>1. 1 \in 1 .. Len(w)
      BY <2>8
    <3> QED BY <2>2, <2>7, <3>1 DEF IsWalk
  <2>11. v \in Walks(E, S)
    BY <2>7, <2>9, <2>10 DEF Walks, IsWalk, P
  <2> QED BY <2>7, <2>11 DEF Carried, p
<1> QED BY <1>2, <1>3 DEF Closed

\* A walk stays in a closed set.
LEMMA CarriedLeast ==
  ASSUME NEW E, NEW S, NEW Q, Closed(E, S, Q)
  PROVE  Carried(E, S) \subseteq Q
<1> SUFFICES ASSUME NEW w \in Walks(E, S) PROVE w[Len(w)] \in Q
  BY DEF Carried
<1> DEFINE Good == {n \in Nat : n + 1 <= Len(w) => w[n + 1] \in Q}
<1>1. w \in Seq(Nat \X ProgramPlaces) /\ IsWalk(E, S, w)
  BY DEF Walks
<1>2. Len(w) \in Nat /\ Len(w) >= 1
  BY <1>1 DEF IsWalk
<1>3. 0 \in Good
  <2>1. w[1] \in Q
    BY <1>1 DEF IsWalk, Closed
  <2> QED BY <2>1
<1>4. ASSUME NEW n \in Nat, n \in Good PROVE n + 1 \in Good
  <2> SUFFICES ASSUME (n + 1) + 1 <= Len(w) PROVE w[(n + 1) + 1] \in Q
    OBVIOUS
  <2> DEFINE k == n + 1
  <2>1. k \in 1 .. Len(w) - 1 /\ k \in 1 .. Len(w) /\ k + 1 \in 1 .. Len(w)
    BY <1>2
  <2>2. w[k] \in Q
    BY <1>4, <2>1
  <2> HIDE DEF k
  <2>3. w[k] = <<w[k][1], w[k][2]>> /\ w[k + 1] = <<w[k + 1][1], w[k + 1][2]>>
    BY <1>1, <2>1
  <2>4. <<w[k][1], w[k + 1][1]>> \in E /\ w[k + 1][2] = LeavingBlock(S, w[k][1], w[k][2])
    BY <1>1, <2>1 DEF IsWalk
  <2>5. <<w[k + 1][1], LeavingBlock(S, w[k][1], w[k][2])>> \in Q
    BY <2>2, <2>3, <2>4 DEF Closed
  <2>6. w[k + 1] \in Q
    BY <2>3, <2>4, <2>5
  <2> QED BY <2>6 DEF k
<1>5. Len(w) - 1 \in Good
  <2>1. Len(w) - 1 \in Nat
    BY <1>2
  <2> HIDE DEF Good
  <2> QED BY <1>3, <1>4, <2>1, AllTurns
<1> QED BY <1>2, <1>5

\* Its pairs are those of the graph.
LEMMA CarriedTyped ==
  ASSUME NEW E, NEW S, Typed(E, S)
  PROVE  Carried(E, S) \subseteq (DOMAIN S) \X Definitions(S)
<1>1. Closed(E, S, (DOMAIN S) \X Definitions(S))
  <2>1. S \in Seq(Seq(Stats))
    BY DEF Typed
  <2>2. <<Entry, Unbound>> \in (DOMAIN S) \X Definitions(S)
    BY <2>1, DefinitionsTyped DEF Typed
  <2>3. ASSUME NEW a, NEW b, NEW d, <<a, b>> \in E, <<a, d>> \in (DOMAIN S) \X Definitions(S)
        PROVE  <<b, LeavingBlock(S, a, d)>> \in (DOMAIN S) \X Definitions(S)
    <3>1. a \in DOMAIN S /\ b \in DOMAIN S /\ d \in Definitions(S) /\ Len(S[a]) \in Nat
      BY <2>1, <2>3 DEF Typed
    <3>2. LeavingBlock(S, a, d) \in Definitions(S)
      BY <2>1, <3>1, AfterTyped DEF LeavingBlock
    <3> QED BY <3>1, <3>2
  <2> QED BY <2>2, <2>3 DEF Closed
<1> QED BY <1>1, CarriedLeast

-----------------------------------------------------------------------------
\* A turn of the search adds the children of what was found.
Children(E, found) == {e[2] : e \in {c \in E : c[1] \in found}}

\* The turns of the search from the entry point, in normalize.
LEMMA SearchTurns ==
  ASSUME NEW E, NEW S, Typed(E, S)
  PROVE  /\ Search(E)[0] = {Entry}
         /\ \A n \in Nat : Search(E)[n + 1] = Search(E)[n] \cup Children(E, Search(E)[n])
         /\ \A n \in Nat : Search(E)[n] \in SUBSET DOMAIN S
<1> DEFINE D == SUBSET DOMAIN S
           Turn(found) == found \cup Children(E, found)
           turn == [p \in Nat \X D |-> Turn(p[2])]
<1>1. \A x \in D : Turn(x) \in D
  BY DEF Typed, Children
<1>2. {Entry} \in D
  BY DEF Typed
<1>3. \A n \in Nat : \A x \in D : turn[<<n + 1, x>>] = Turn(x)
  OBVIOUS
<1> HIDE DEF D, Turn, turn
<1>4. PICK f : IsTurns(f, {Entry}, turn)
  BY TurnsExist
<1>5. f[0] = {Entry} /\ \A n \in Nat : f[n + 1] = turn[<<n + 1, f[n]>>]
  <2>1. \A m \in Nat : f[m] = IF m = 0 THEN {Entry} ELSE turn[<<m, f[m - 1]>>]
    BY <1>4 DEF IsTurns
  <2>2. \A n \in Nat : n + 1 \in Nat /\ n + 1 # 0 /\ (n + 1) - 1 = n
    OBVIOUS
  <2>3. \A n \in Nat : f[n + 1] = turn[<<n + 1, f[(n + 1) - 1]>>]
    BY <2>1, <2>2
  <2> QED BY <2>1, <2>2, <2>3
<1>6. \A n \in Nat : f[n] \in D
  <2> DEFINE Good == {n \in Nat : f[n] \in D}
  <2>1. 0 \in Good
    BY <1>2, <1>5
  <2>2. ASSUME NEW n \in Nat, n \in Good PROVE n + 1 \in Good
    <3>1. f[n] \in D
      BY <2>2
    <3>2. f[n + 1] = Turn(f[n])
      BY <1>3, <1>5, <3>1
    <3>3. f[n + 1] \in D
      BY <1>1, <3>1, <3>2
    <3> QED BY <3>3
  <2>3. \A n \in Nat : n \in Good
    <3> HIDE DEF Good
    <3> QED BY <2>1, <2>2, AllTurns
  <2> QED BY <2>3
<1>7. \A n \in Nat : f[n + 1] = Turn(f[n])
  BY <1>3, <1>5, <1>6
<1> DEFINE IsIt(g) == g = [n \in Nat |-> IF n = 0 THEN {Entry} ELSE Turn(g[n - 1])]
<1>8. IsIt(f)
  <2> DEFINE g == [n \in Nat |-> IF n = 0 THEN {Entry} ELSE Turn(f[n - 1])]
  <2>1. \A n \in Nat : f[n] = g[n]
    <3> TAKE n \in Nat
    <3>1. CASE n = 0
      BY <1>5, <3>1
    <3>2. CASE n # 0
      <4>1. n - 1 \in Nat /\ (n - 1) + 1 = n
        BY <3>2
      <4>2. f[n] = Turn(f[n - 1])
        BY <1>7, <4>1
      <4> QED BY <3>2, <4>2
    <3> QED BY <3>1, <3>2
  <2>2. f = g
    BY <1>4, <2>1 DEF IsTurns
  <2> QED BY <2>2
<1> DEFINE h == CHOOSE g : IsIt(g)
<1>9. IsIt(h)
  <2> HIDE DEF IsIt
  <2> QED BY <1>8
<1>10. Search(E) = h
  BY DEF Search, Children, Turn
<1> HIDE DEF h
<1>11. h[0] = {Entry} /\ \A n \in Nat : h[n + 1] = Turn(h[n])
  <2>1. \A m \in Nat : h[m] = IF m = 0 THEN {Entry} ELSE Turn(h[m - 1])
    BY <1>9
  <2>2. \A n \in Nat : n + 1 \in Nat /\ n + 1 # 0 /\ (n + 1) - 1 = n
    OBVIOUS
  <2>3. \A n \in Nat : h[n + 1] = Turn(h[(n + 1) - 1])
    BY <2>1, <2>2
  <2> QED BY <2>1, <2>2, <2>3
<1>12. \A n \in Nat : h[n] \in D
  <2> DEFINE Good == {n \in Nat : h[n] \in D}
  <2>1. 0 \in Good
    BY <1>2, <1>11
  <2>2. \A n \in Nat : n \in Good => n + 1 \in Good
    BY <1>1, <1>11
  <2>3. \A n \in Nat : n \in Good
    <3> HIDE DEF Good
    <3> QED BY <2>1, <2>2, AllTurns
  <2> QED BY <2>3
<1> QED BY <1>10, <1>11, <1>12 DEF Turn, D

\* The search finds the blocks that walks lead to.
LEMMA VisitedIs ==
  ASSUME NEW f, Typed(f.edges, f.stats)
  PROVE  /\ Entry \in visited(f) /\ visited(f) \subseteq DOMAIN f.stats
         /\ \A a, b : <<a, b>> \in f.edges /\ a \in visited(f) => b \in visited(f)
         /\ \A b \in visited(f) : \E d : <<b, d>> \in Carried(f.edges, f.stats)
<1> DEFINE E == f.edges
           S == f.stats
           c == Search(E)
           N == Len(S)
<1>1. S \in Seq(Seq(Stats)) /\ N = Cardinality(DOMAIN S) /\ IsFiniteSet(DOMAIN S) /\ Typed(E, S)
  BY DefinitionsTyped DEF Typed
<1> HIDE DEF E, S
<1>2. /\ c[0] = {Entry}
      /\ \A n \in Nat : c[n + 1] = c[n] \cup Children(E, c[n])
      /\ \A n \in Nat : c[n] \in SUBSET DOMAIN S
  BY <1>1, SearchTurns
<1> HIDE DEF c
<1>3. \E n \in 0 .. N : c[n + 1] = c[n]
  <2>1. \A n \in Nat : c[n] \subseteq DOMAIN S /\ c[n] \subseteq c[n + 1]
    BY <1>2
  <2>2. \E n \in 0 .. Cardinality(DOMAIN S) : c[n + 1] = c[n]
    BY <1>1, <2>1, ChainSettles
  <2> HIDE DEF N
  <2> QED BY <1>1, <2>2
<1> DEFINE last == CHOOSE n \in 0 .. N : c[n + 1] = c[n]
<1>4. last \in 0 .. N /\ c[last + 1] = c[last]
  BY <1>3
<1>5. visited(f) = c[last]
  BY DEF visited, Settled, c, E, S
<1> HIDE DEF last
<1>6. last \in Nat
  BY <1>4
<1>7. Children(E, c[last]) \subseteq c[last]
  BY <1>2, <1>4, <1>6
<1>8. \A n \in Nat : Entry \in c[n] /\ \A b \in c[n] : \E d : <<b, d>> \in Carried(E, S)
  <2> DEFINE Right(n) == Entry \in c[n] /\ \A b \in c[n] : \E d : <<b, d>> \in Carried(E, S)
             Good == {n \in Nat : Right(n)}
  <2>1. Closed(E, S, Carried(E, S))
    BY <1>1, CarriedClosed
  <2>2. 0 \in Good
    BY <1>2, <2>1 DEF Closed
  <2>3. ASSUME NEW n \in Nat, n \in Good PROVE n + 1 \in Good
    <3>1. c[n + 1] = c[n] \cup Children(E, c[n])
      BY <1>2
    <3>2. \A b \in Children(E, c[n]) : \E d : <<b, d>> \in Carried(E, S)
      <4> TAKE b \in Children(E, c[n])
      <4>1. PICK e \in E : e[1] \in c[n] /\ e[2] = b
        BY DEF Children
      <4>2. e = <<e[1], e[2]>>
        BY <1>1 DEF Typed
      <4>3. PICK d : <<e[1], d>> \in Carried(E, S)
        BY <2>3, <4>1
      <4>4. <<b, LeavingBlock(S, e[1], d)>> \in Carried(E, S)
        BY <2>1, <4>1, <4>2, <4>3 DEF Closed
      <4> QED BY <4>4
    <3>3. Entry \in c[n + 1]
      BY <2>3, <3>1
    <3>4. \A b \in c[n + 1] : \E d : <<b, d>> \in Carried(E, S)
      BY <2>3, <3>1, <3>2
    <3>5. Right(n + 1)
      BY <3>3, <3>4
    <3> HIDE DEF Right
    <3> QED BY <3>5
  <2>4. \A n \in Nat : n \in Good
    <3> HIDE DEF Good
    <3> QED BY <2>2, <2>3, AllTurns
  <2> QED BY <2>4
<1>9. ASSUME NEW a, NEW b, <<a, b>> \in E, a \in c[last] PROVE b \in c[last]
  <2>1. <<a, b>>[1] = a /\ <<a, b>>[2] = b
    OBVIOUS
  <2>2. b \in Children(E, c[last])
    BY <1>9, <2>1 DEF Children
  <2> QED BY <1>7, <2>2
<1>10. Entry \in c[last] /\ c[last] \subseteq DOMAIN S
  BY <1>2, <1>6, <1>8
<1>11. \A b \in c[last] : \E d : <<b, d>> \in Carried(E, S)
  BY <1>6, <1>8
<1>12. \A a, b : <<a, b>> \in E /\ a \in c[last] => b \in c[last]
  BY <1>9
<1> HIDE DEF N
<1>13. /\ Entry \in visited(f) /\ visited(f) \subseteq DOMAIN S
       /\ \A a, b : <<a, b>> \in E /\ a \in visited(f) => b \in visited(f)
       /\ \A b \in visited(f) : \E d : <<b, d>> \in Carried(E, S)
  <2>1. Entry \in visited(f) /\ visited(f) \subseteq DOMAIN S
    BY <1>5, <1>10
  <2>2. \A a, b : <<a, b>> \in E /\ a \in visited(f) => b \in visited(f)
    BY <1>5, <1>12
  <2>3. \A b \in visited(f) : \E d : <<b, d>> \in Carried(E, S)
    BY <1>5, <1>11
  <2> QED BY <2>1, <2>2, <2>3
<1> QED BY <1>13 DEF E, S

\* Edges from blocks that are not reached are on no walk.
LEMMA ReachedEdges ==
  ASSUME NEW E, NEW S, NEW V, Typed(E, S), Entry \in V,
         \A a, b : <<a, b>> \in E /\ a \in V => b \in V
  PROVE  LET F == {e \in E : e[1] \in V}
         IN  /\ Typed(F, S)
             /\ Carried(F, S) = Carried(E, S)
             /\ \A p \in Carried(E, S) : p[1] \in V
<1> DEFINE F == {e \in E : e[1] \in V}
           Q == {p \in Carried(F, S) : p[1] \in V}
<1>1. Typed(F, S)
  BY DEF Typed
<1>2. Carried(F, S) \subseteq Carried(E, S)
  <2>1. Closed(E, S, Carried(E, S))
    BY CarriedClosed
  <2>2. Closed(F, S, Carried(E, S))
    BY <2>1 DEF Closed
  <2> QED BY <2>2, CarriedLeast
<1>3. Carried(E, S) \subseteq Q
  <2>1. Closed(F, S, Carried(F, S))
    BY <1>1, CarriedClosed
  <2>2. ASSUME NEW a, NEW b, NEW d, <<a, b>> \in E, <<a, d>> \in Q
        PROVE  <<b, LeavingBlock(S, a, d)>> \in Q
    <3>1. <<a, d>> \in Carried(F, S) /\ a \in V
      BY <2>2
    <3>2. <<a, b>> \in F /\ b \in V
      BY <2>2, <3>1
    <3> HIDE DEF F
    <3>3. <<b, LeavingBlock(S, a, d)>> \in Carried(F, S)
      BY <2>1, <3>1, <3>2 DEF Closed
    <3> QED BY <3>2, <3>3
  <2>3. <<Entry, Unbound>> \in Q
    BY <2>1 DEF Closed
  <2>4. Closed(E, S, Q)
    <3> HIDE DEF Q
    <3> QED BY <2>2, <2>3 DEF Closed
  <2> QED BY <2>4, CarriedLeast
<1> HIDE DEF F
<1>4. Carried(F, S) = Carried(E, S) /\ \A p \in Carried(E, S) : p[1] \in V
  BY <1>2, <1>3
<1> QED BY <1>1, <1>4 DEF F

\* Taking an empty block out changes what is carried to no other block.
LEMMA BypassIs ==
  ASSUME NEW E, NEW S, NEW x \in DOMAIN S, Typed(E, S), x # Entry, S[x] = <<>>
  PROVE  /\ Typed(Bypass(E, x), S)
         /\ Carried(Bypass(E, x), S) = {p \in Carried(E, S) : p[1] # x}
         /\ \A a, b : <<a, b>> \in Bypass(E, x) => a # x /\ \E c : <<a, c>> \in E
<1> DEFINE F == Bypass(E, x)
           W == Carried(E, S)
           Q == {p \in W : p[1] # x}
           R == Carried(F, S)
           P == {p \in W : IF p[1] # x THEN p \in R
                           ELSE \E a, d : /\ a # x /\ <<a, x>> \in E /\ <<a, d>> \in R
                                          /\ p[2] = LeavingBlock(S, a, d)}
<1>1. /\ \A a, b : <<a, b>> \in F <=>
                    /\ a # x /\ b # x
                    /\ <<a, b>> \in E \/ (<<a, x>> \in E /\ <<x, b>> \in E)
      /\ \A e \in F : e = <<e[1], e[2]>>
  <2> DEFINE parents  == {e[1] : e \in {p \in E : p[2] = x}}
             children == {e[2] : e \in {c \in E : c[1] = x}}
  <2>1. F = {e \in E \cup (parents \X children) : x \notin {e[1], e[2]}}
    BY DEF Bypass
  <2>2. \A e \in E : e = <<e[1], e[2]>>
    BY DEF Typed
  <2>3. \A a : a \in parents <=> <<a, x>> \in E
    BY <2>2
  <2>4. \A b : b \in children <=> <<x, b>> \in E
    BY <2>2
  <2> HIDE DEF parents, children, F
  <2>5. \A a, b : <<a, b>> \in F <=> /\ <<a, b>> \in E \cup (parents \X children)
                                     /\ x \notin {a, b}
    BY <2>1
  <2> QED BY <2>1, <2>2, <2>3, <2>4, <2>5
<1>2. \A d : LeavingBlock(S, x, d) = d
  BY DEF LeavingBlock, After, Change, Changes
<1>3. Closed(E, S, W)
  BY CarriedClosed
<1>4. Typed(F, S)
  <2>1. \A a, b : <<a, b>> \in E => a \in DOMAIN S /\ b \in DOMAIN S \ {Entry}
    BY DEF Typed
  <2> HIDE DEF F
  <2>2. \A e \in F : e[1] \in DOMAIN S /\ e[2] \in DOMAIN S \ {Entry}
    <3> TAKE e \in F
    <3>1. e = <<e[1], e[2]>>
      BY <1>1
    <3> DEFINE a == e[1]
               b == e[2]
    <3>2. <<a, b>> \in F
      BY <3>1
    <3> HIDE DEF a, b
    <3>3. <<a, b>> \in E \/ (<<a, x>> \in E /\ <<x, b>> \in E)
      BY <1>1, <3>2
    <3>4. a \in DOMAIN S /\ b \in DOMAIN S \ {Entry}
      BY <2>1, <3>3
    <3> QED BY <3>4 DEF a, b
  <2>3. F \subseteq (DOMAIN S) \X (DOMAIN S \ {Entry})
    BY <1>1, <2>2
  <2> QED BY <2>3 DEF Typed
<1> HIDE DEF F
<1>5. Closed(F, S, R)
  BY <1>4, CarriedClosed
<1>6. R \subseteq Q
  <2> HIDE DEF W
  <2>1. <<Entry, Unbound>> \in Q
    BY <1>3 DEF Closed
  <2>2. ASSUME NEW a, NEW b, NEW d, <<a, b>> \in F, <<a, d>> \in Q
        PROVE  <<b, LeavingBlock(S, a, d)>> \in Q
    <3>1. <<a, d>> \in W /\ a # x /\ b # x
      BY <1>1, <2>2
    <3>2. CASE <<a, b>> \in E
      BY <1>3, <3>1, <3>2 DEF Closed
    <3>3. CASE <<a, x>> \in E /\ <<x, b>> \in E
      <4>1. <<x, LeavingBlock(S, a, d)>> \in W
        BY <1>3, <3>1, <3>3 DEF Closed
      <4>2. <<b, LeavingBlock(S, x, LeavingBlock(S, a, d))>> \in W
        BY <1>3, <3>3, <4>1 DEF Closed
      <4> QED BY <1>2, <3>1, <4>2
    <3> QED BY <1>1, <2>2, <3>2, <3>3
  <2>3. Closed(F, S, Q)
    <3> HIDE DEF Q
    <3> QED BY <2>1, <2>2 DEF Closed
  <2> HIDE DEF Q
  <2> QED BY <2>3, CarriedLeast
<1>7. W \subseteq P
  <2> HIDE DEF W, R
  <2>1. <<Entry, Unbound>> \in P
    BY <1>3, <1>5 DEF Closed
  <2>2. ASSUME NEW a, NEW b, NEW d, <<a, b>> \in E, <<a, d>> \in P
        PROVE  <<b, LeavingBlock(S, a, d)>> \in P
    <3>1. <<b, LeavingBlock(S, a, d)>> \in W
      BY <1>3, <2>2 DEF Closed
    <3>2. CASE a # x /\ b # x
      <4>1. <<a, b>> \in F /\ <<a, d>> \in R
        BY <1>1, <2>2, <3>2
      <4> QED BY <1>5, <3>1, <3>2, <4>1 DEF Closed
    <3>3. CASE a # x /\ b = x
      <4>1. <<a, d>> \in R
        BY <2>2, <3>3
      <4> QED BY <2>2, <3>1, <3>3, <4>1
    <3>4. CASE a = x
      <4>1. PICK c, k : /\ c # x /\ <<c, x>> \in E /\ <<c, k>> \in R
                        /\ d = LeavingBlock(S, c, k)
        BY <2>2, <3>4
      <4>2. LeavingBlock(S, a, d) = d
        BY <1>2, <3>4
      <4>3. CASE b = x
        BY <3>1, <4>1, <4>2, <4>3
      <4>4. CASE b # x
        <5>1. <<c, b>> \in F
          BY <1>1, <2>2, <3>4, <4>1, <4>4
        <5>2. <<b, d>> \in R
          BY <1>5, <4>1, <5>1 DEF Closed
        <5> QED BY <3>1, <4>2, <4>4, <5>2
      <4> QED BY <4>3, <4>4
    <3> QED BY <3>2, <3>3, <3>4
  <2>3. Closed(E, S, P)
    <3> HIDE DEF P
    <3> QED BY <2>1, <2>2 DEF Closed
  <2>4. Carried(E, S) \subseteq P
    <3> HIDE DEF P
    <3> QED BY <2>3, CarriedLeast
  <2> HIDE DEF P
  <2> QED BY <2>4 DEF W
<1>8. Q \subseteq R
  <2> HIDE DEF W, R
  <2> QED BY <1>7
<1>9. R = Q
  BY <1>6, <1>8
<1>10. \A a, b : <<a, b>> \in F => a # x /\ \E c : <<a, c>> \in E
  BY <1>1
<1> QED BY <1>4, <1>9, <1>10 DEF F

\* What becomes of the edges when block n is looked at, in normalize.
Unblocked(f, n, E) == IF n \in Empty(f) THEN Bypass(E, n) ELSE E

\* normalize looks at one block after the other.
LEMMA BypassingTurns ==
  ASSUME NEW f, Typed(f.edges, f.stats)
  PROVE  /\ Bypassing(f)[0] = {e \in f.edges : e[1] \in visited(f)}
         /\ \A n \in Nat : Bypassing(f)[n + 1] = Unblocked(f, n + 1, Bypassing(f)[n])
<1> DEFINE B == DOMAIN f.stats
           D == SUBSET (B \X B)
           base == {e \in f.edges : e[1] \in visited(f)}
           turn == [p \in Nat \X D |-> Unblocked(f, p[1], p[2])]
<1>1. ASSUME NEW n, NEW E \in D PROVE Unblocked(f, n, E) \in D
  <2>1. Bypass(E, n) \subseteq B \X B
    <3> DEFINE parents  == {e[1] : e \in {p \in E : p[2] = n}}
               children == {e[2] : e \in {c \in E : c[1] = n}}
    <3>1. parents \subseteq B /\ children \subseteq B
      OBVIOUS
    <3>2. Bypass(E, n) \subseteq E \cup (parents \X children)
      BY DEF Bypass
    <3> HIDE DEF parents, children, B
    <3> QED BY <3>1, <3>2
  <2> QED BY <2>1 DEF Unblocked
<1>2. base \in D
  BY DEF Typed
<1>3. \A n \in Nat : \A x \in D : turn[<<n + 1, x>>] = Unblocked(f, n + 1, x)
  OBVIOUS
<1> HIDE DEF D, turn, base
<1>4. PICK g : IsTurns(g, base, turn)
  BY TurnsExist
<1>5. g[0] = base /\ \A n \in Nat : g[n + 1] = turn[<<n + 1, g[n]>>]
  <2>1. \A m \in Nat : g[m] = IF m = 0 THEN base ELSE turn[<<m, g[m - 1]>>]
    BY <1>4 DEF IsTurns
  <2>2. \A n \in Nat : n + 1 \in Nat /\ n + 1 # 0 /\ (n + 1) - 1 = n
    OBVIOUS
  <2>3. \A n \in Nat : g[n + 1] = turn[<<n + 1, g[(n + 1) - 1]>>]
    BY <2>1, <2>2
  <2> QED BY <2>1, <2>2, <2>3
<1>6. \A n \in Nat : g[n] \in D
  <2> DEFINE Good == {n \in Nat : g[n] \in D}
  <2>1. 0 \in Good
    BY <1>2, <1>5
  <2>2. ASSUME NEW n \in Nat, n \in Good PROVE n + 1 \in Good
    <3>1. g[n] \in D
      BY <2>2
    <3>2. g[n + 1] = Unblocked(f, n + 1, g[n])
      BY <1>3, <1>5, <3>1
    <3>3. g[n + 1] \in D
      BY <1>1, <3>1, <3>2
    <3> QED BY <3>3
  <2>3. \A n \in Nat : n \in Good
    <3> HIDE DEF Good
    <3> QED BY <2>1, <2>2, AllTurns
  <2> QED BY <2>3
<1>7. \A n \in Nat : g[n + 1] = Unblocked(f, n + 1, g[n])
  BY <1>3, <1>5, <1>6
<1> DEFINE IsIt(h) == h = [n \in Nat |-> IF n = 0 THEN base ELSE Unblocked(f, n, h[n - 1])]
<1>8. IsIt(g)
  <2> DEFINE h == [n \in Nat |-> IF n = 0 THEN base ELSE Unblocked(f, n, g[n - 1])]
  <2>1. \A n \in Nat : g[n] = h[n]
    <3> TAKE n \in Nat
    <3>1. CASE n = 0
      BY <1>5, <3>1
    <3>2. CASE n # 0
      <4>1. n - 1 \in Nat /\ (n - 1) + 1 = n
        BY <3>2
      <4>2. g[n] = Unblocked(f, n, g[n - 1])
        BY <1>7, <4>1
      <4> QED BY <3>2, <4>2
    <3> QED BY <3>1, <3>2
  <2>2. g = h
    BY <1>4, <2>1 DEF IsTurns
  <2> QED BY <2>2
<1> DEFINE h == CHOOSE k : IsIt(k)
<1>9. IsIt(h)
  <2> HIDE DEF IsIt
  <2> QED BY <1>8
<1>10. Bypassing(f) = h
  BY DEF Bypassing, Unblocked, base
<1> HIDE DEF h
<1>11. h[0] = base /\ \A n \in Nat : h[n + 1] = Unblocked(f, n + 1, h[n])
  <2>1. \A m \in Nat : h[m] = IF m = 0 THEN base ELSE Unblocked(f, m, h[m - 1])
    BY <1>9
  <2>2. \A n \in Nat : n + 1 \in Nat /\ n + 1 # 0 /\ (n + 1) - 1 = n
    OBVIOUS
  <2>3. \A n \in Nat : h[n + 1] = Unblocked(f, n + 1, h[(n + 1) - 1])
    BY <2>1, <2>2
  <2> QED BY <2>1, <2>2, <2>3
<1> QED BY <1>10, <1>11 DEF base

\* Normalization takes blocks out, and changes what is carried to no other.
LEMMA NormalIs ==
  ASSUME NEW f, Typed(f.edges, f.stats)
  PROVE  /\ Typed(normalize(f), f.stats)
         /\ Carried(normalize(f), f.stats)
              = {p \in Carried(f.edges, f.stats) : p[1] \notin Empty(f)}
         /\ \A a, b : <<a, b>> \in normalize(f) => a \in visited(f) \ Empty(f)
<1> DEFINE E == f.edges
           S == f.stats
           V == visited(f)
           W == Carried(E, S)
           c == Bypassing(f)
           N == Len(S)
           Left(n) == {p \in W : p[1] \notin Empty(f) \/ p[1] > n}
           Right(n) == /\ Typed(c[n], S)
                       /\ Carried(c[n], S) = Left(n)
                       /\ \A a, b : <<a, b>> \in c[n] => a \in V /\ (a \notin Empty(f) \/ a > n)
           Good == {n \in Nat : Right(n)}
<1>1. /\ Entry \in V /\ V \subseteq DOMAIN S
      /\ \A a, b : <<a, b>> \in E /\ a \in V => b \in V
  BY VisitedIs
<1>2. c[0] = {e \in E : e[1] \in V} /\ \A n \in Nat : c[n + 1] = Unblocked(f, n + 1, c[n])
  BY BypassingTurns
<1>3. DOMAIN S = 1 .. N /\ N \in Nat
  BY DEF Typed
<1>4. Empty(f) \subseteq V /\ Entry \notin Empty(f) /\ \A b \in Empty(f) : S[b] = <<>>
  BY DEF Empty
<1>5. \A p \in W : p[1] \in DOMAIN S
  BY CarriedTyped
<1>6. 0 \in Good
  <2>1. Typed(c[0], S) /\ Carried(c[0], S) = W
    <3> HIDE DEF V, c
    <3>1. /\ Typed({e \in E : e[1] \in V}, S)
          /\ Carried({e \in E : e[1] \in V}, S) = Carried(E, S)
      BY <1>1, ReachedEdges
    <3> QED BY <1>2, <3>1
  <2>2. Left(0) = W
    <3> HIDE DEF W
    <3>1. \A p \in W : p[1] > 0
      BY <1>3, <1>5
    <3> QED BY <3>1
  <2>3. \A a, b : <<a, b>> \in c[0] => a \in V /\ a > 0
    <3> HIDE DEF V, c
    <3>1. \A a, b : <<a, b>> \in c[0] => a \in V
      BY <1>2
    <3>2. \A a \in V : a > 0
      BY <1>1, <1>3
    <3> QED BY <3>1, <3>2
  <2>4. Right(0)
    <3> HIDE DEF Left, W, c, V
    <3> QED BY <2>1, <2>2, <2>3
  <2> HIDE DEF Right
  <2> QED BY <2>4
<1>7. ASSUME NEW n \in Nat, n \in Good PROVE n + 1 \in Good
  <2>1. c[n + 1] = Unblocked(f, n + 1, c[n])
    BY <1>2
  <2>2. /\ Typed(c[n], S) /\ Carried(c[n], S) = Left(n)
        /\ \A a, b : <<a, b>> \in c[n] => a \in V /\ (a \notin Empty(f) \/ a > n)
    BY <1>7
  <2> HIDE DEF c, V, W
  <2>3. CASE n + 1 \notin Empty(f)
    <3>1. c[n + 1] = c[n]
      BY <2>1, <2>3 DEF Unblocked
    <3>2. \A a \in Nat : a > n /\ a # n + 1 => a > n + 1
      OBVIOUS
    <3>3. \A a : a \in Empty(f) => a \in Nat /\ a # n + 1
      BY <1>1, <1>3, <1>4, <2>3
    <3>4. Left(n + 1) = Left(n)
      <4>1. \A p \in W : p[1] \in Nat
        BY <1>3, <1>5
      <4>2. \A a \in Nat : a > n + 1 => a > n
        OBVIOUS
      <4> QED BY <3>2, <3>3, <4>1, <4>2
    <3>5. \A a, b : <<a, b>> \in c[n + 1] => a \in V /\ (a \notin Empty(f) \/ a > n + 1)
      BY <2>2, <3>1, <3>2, <3>3
    <3>6. Right(n + 1)
      <4> HIDE DEF Left
      <4> QED BY <2>2, <3>1, <3>4, <3>5
    <3> HIDE DEF Right
    <3> QED BY <3>6
  <2>4. CASE n + 1 \in Empty(f)
    <3> DEFINE x == n + 1
    <3>1. x \in DOMAIN S /\ x # Entry /\ S[x] = <<>>
      BY <1>1, <1>4, <2>4
    <3>2. c[n + 1] = Bypass(c[n], x)
      BY <2>1, <2>4 DEF Unblocked
    <3>3. /\ Typed(c[n + 1], S)
          /\ Carried(c[n + 1], S) = {p \in Carried(c[n], S) : p[1] # x}
          /\ \A a, b : <<a, b>> \in c[n + 1] => a # x /\ \E d : <<a, d>> \in c[n]
      <4> HIDE DEF x, S
      <4>1. /\ Typed(Bypass(c[n], x), S)
            /\ Carried(Bypass(c[n], x), S) = {p \in Carried(c[n], S) : p[1] # x}
            /\ \A a, b : <<a, b>> \in Bypass(c[n], x) => a # x /\ \E d : <<a, d>> \in c[n]
        BY <2>2, <3>1, BypassIs
      <4> QED BY <3>2, <4>1
    <3>4. \A a \in Nat : a > n + 1 <=> a > n /\ a # x
      OBVIOUS
    <3>5. {p \in Left(n) : p[1] # x} = Left(n + 1)
      <4>1. \A p \in W : p[1] \in Nat
        BY <1>3, <1>5
      <4> HIDE DEF x
      <4> QED BY <2>4, <3>4, <4>1 DEF x
    <3>6. \A a, b : <<a, b>> \in c[n + 1] => a \in V /\ (a \notin Empty(f) \/ a > n + 1)
      <4>1. \A a \in V : a \in Nat
        BY <1>1, <1>3
      <4> HIDE DEF x
      <4> QED BY <2>2, <3>3, <3>4, <4>1
    <3>7. Right(n + 1)
      <4> HIDE DEF Left, x
      <4> QED BY <2>2, <3>3, <3>5, <3>6
    <3> HIDE DEF Right
    <3> QED BY <3>7
  <2> QED BY <2>3, <2>4
<1>8. N \in Good
  <2> HIDE DEF Good
  <2> QED BY <1>3, <1>6, <1>7, AllTurns
<1>9. normalize(f) = c[N]
  BY DEF normalize
<1>10. \A a \in DOMAIN S : ~ (a > N)
  BY <1>3
<1>11. Left(N) = {p \in W : p[1] \notin Empty(f)}
  <2> HIDE DEF W, S, N
  <2> QED BY <1>5, <1>10
<1>12. \A a, b : <<a, b>> \in c[N] => a \in V \ Empty(f)
  <2>1. \A a, b : <<a, b>> \in c[N] => a \in V /\ (a \notin Empty(f) \/ a > N)
    BY <1>8
  <2> HIDE DEF V, S, N, c
  <2> QED BY <1>1, <1>10, <2>1
<1>13. Typed(c[N], S) /\ Carried(c[N], S) = Left(N)
  BY <1>8
<1> HIDE DEF c, N
<1>14. /\ Typed(normalize(f), S)
       /\ Carried(normalize(f), S) = {p \in W : p[1] \notin Empty(f)}
       /\ \A a, b : <<a, b>> \in normalize(f) => a \in V \ Empty(f)
  <2> HIDE DEF S, V, W
  <2> QED BY <1>9, <1>11, <1>12, <1>13
<1> QED BY <1>14

-----------------------------------------------------------------------------
\* What a block that changes nothing passes on, and what it outputs itself.
NoChange(s) == Change(s, Len(s)) = 0
Round(E, S, output) == Gen(S) \cup {i \in Input(E, output) : NoChange(S[i[1]])}

\* The input of a block is what its parents output.
LEMMA InputIs ==
  ASSUME NEW E, NEW S, Typed(E, S), NEW O
  PROVE  \A b, d : <<b, d>> \in Input(E, O) <=>
                     \E a : <<a, b>> \in E /\ \E p \in O : p[1] = a /\ p[2] = d
<1> TAKE b, d
<1>1. \A e \in E : e = <<e[1], e[2]>>
  BY DEF Typed
<1>2. <<b, d>> \in Input(E, O) <=>
        \E e \in E : \E p \in O : p[1] = e[1] /\ e[2] = b /\ p[2] = d
  BY DEF Input
<1>3. ASSUME NEW a, <<a, b>> \in E, \E p \in O : p[1] = a /\ p[2] = d
      PROVE  \E e \in E : \E p \in O : p[1] = e[1] /\ e[2] = b /\ p[2] = d
  BY <1>3
<1> QED BY <1>1, <1>2, <1>3

\* A round adds pairs of the graph, and more where there were more.
LEMMA RoundTyped ==
  ASSUME NEW E, NEW S, Typed(E, S)
  PROVE  LET U == (DOMAIN S) \X Definitions(S) IN
         /\ Gen(S) \in SUBSET U
         /\ \A O \in SUBSET U : Round(E, S, O) \in SUBSET U
         /\ \A O, P \in SUBSET U : O \subseteq P => Round(E, S, O) \subseteq Round(E, S, P)
<1> DEFINE U == (DOMAIN S) \X Definitions(S)
<1>1. S \in Seq(Seq(Stats)) /\ Entry \in DOMAIN S
  BY DEF Typed
<1>2. Gen(S) \subseteq U
  <2>1. <<Entry, Unbound>> \in U
    BY <1>1, DefinitionsTyped
  <2>2. \A b \in DOMAIN S : <<b, After(S[b], Len(S[b]), Unbound)>> \in U
    <3> TAKE b \in DOMAIN S
    <3>1. Len(S[b]) \in Nat /\ Unbound \in Definitions(S)
      BY <1>1, DefinitionsTyped
    <3>2. After(S[b], Len(S[b]), Unbound) \in Definitions(S)
      BY <1>1, <3>1, AfterTyped
    <3> QED BY <3>2
  <2> HIDE DEF U
  <2> QED BY <2>1, <2>2 DEF Gen
<1>3. ASSUME NEW O \in SUBSET U PROVE Input(E, O) \subseteq U
  <2>1. ASSUME NEW e \in E, NEW o \in O PROVE <<e[2], o[2]>> \in U
    <3>1. e[2] \in DOMAIN S
      BY DEF Typed
    <3>2. o[2] \in Definitions(S)
      OBVIOUS
    <3> QED BY <3>1, <3>2
  <2> HIDE DEF U
  <2> QED BY <2>1 DEF Input
<1>4. ASSUME NEW O, NEW P, O \subseteq P PROVE Input(E, O) \subseteq Input(E, P)
  BY <1>4 DEF Input
<1> HIDE DEF U
<1>5. \A O \in SUBSET U : Round(E, S, O) \in SUBSET U
  BY <1>2, <1>3 DEF Round
<1>6. \A O, P \in SUBSET U : O \subseteq P => Round(E, S, O) \subseteq Round(E, S, P)
  BY <1>4 DEF Round
<1> QED BY <1>2, <1>5, <1>6 DEF U

\* The rounds of reaching_definitions.
LEMMA RoundsTurns ==
  ASSUME NEW E, NEW S, Typed(E, S)
  PROVE  /\ Rounds(E, S)[0] = Gen(S)
         /\ \A n \in Nat : Rounds(E, S)[n + 1] = Round(E, S, Rounds(E, S)[n])
         /\ \A n \in Nat : Rounds(E, S)[n] \in SUBSET ((DOMAIN S) \X Definitions(S))
<1> DEFINE D == SUBSET ((DOMAIN S) \X Definitions(S))
           base == Gen(S)
           Turn(O) == Round(E, S, O)
           turn == [p \in Nat \X D |-> Turn(p[2])]
<1>1. \A x \in D : Turn(x) \in D
  BY RoundTyped
<1>2. base \in D
  BY RoundTyped
<1>3. \A n \in Nat : \A x \in D : turn[<<n + 1, x>>] = Turn(x)
  OBVIOUS
<1> HIDE DEF D, Turn, turn, base
<1>4. PICK f : IsTurns(f, base, turn)
  BY TurnsExist
<1>5. f[0] = base /\ \A n \in Nat : f[n + 1] = turn[<<n + 1, f[n]>>]
  <2>1. \A m \in Nat : f[m] = IF m = 0 THEN base ELSE turn[<<m, f[m - 1]>>]
    BY <1>4 DEF IsTurns
  <2>2. \A n \in Nat : n + 1 \in Nat /\ n + 1 # 0 /\ (n + 1) - 1 = n
    OBVIOUS
  <2>3. \A n \in Nat : f[n + 1] = turn[<<n + 1, f[(n + 1) - 1]>>]
    BY <2>1, <2>2
  <2> QED BY <2>1, <2>2, <2>3
<1>6. \A n \in Nat : f[n] \in D
  <2> DEFINE Good == {n \in Nat : f[n] \in D}
  <2>1. 0 \in Good
    BY <1>2, <1>5
  <2>2. ASSUME NEW n \in Nat, n \in Good PROVE n + 1 \in Good
    <3>1. f[n] \in D
      BY <2>2
    <3>2. f[n + 1] = Turn(f[n])
      BY <1>3, <1>5, <3>1
    <3>3. f[n + 1] \in D
      BY <1>1, <3>1, <3>2
    <3> QED BY <3>3
  <2>3. \A n \in Nat : n \in Good
    <3> HIDE DEF Good
    <3> QED BY <2>1, <2>2, AllTurns
  <2> QED BY <2>3
<1>7. \A n \in Nat : f[n + 1] = Turn(f[n])
  BY <1>3, <1>5, <1>6
<1> DEFINE IsIt(g) == g = [n \in Nat |-> IF n = 0 THEN base ELSE Turn(g[n - 1])]
<1>8. IsIt(f)
  <2> DEFINE g == [n \in Nat |-> IF n = 0 THEN base ELSE Turn(f[n - 1])]
  <2>1. \A n \in Nat : f[n] = g[n]
    <3> TAKE n \in Nat
    <3>1. CASE n = 0
      BY <1>5, <3>1
    <3>2. CASE n # 0
      <4>1. n - 1 \in Nat /\ (n - 1) + 1 = n
        BY <3>2
      <4>2. f[n] = Turn(f[n - 1])
        BY <1>7, <4>1
      <4> QED BY <3>2, <4>2
    <3> QED BY <3>1, <3>2
  <2>2. f = g
    BY <1>4, <2>1 DEF IsTurns
  <2> QED BY <2>2
<1> DEFINE h == CHOOSE g : IsIt(g)
<1>9. IsIt(h)
  <2> HIDE DEF IsIt
  <2> QED BY <1>8
<1>10. Rounds(E, S) = h
  BY DEF Rounds, initialize, Round, Turn, NoChange, base
<1> HIDE DEF h
<1>11. h[0] = base /\ \A n \in Nat : h[n + 1] = Turn(h[n])
  <2>1. \A m \in Nat : h[m] = IF m = 0 THEN base ELSE Turn(h[m - 1])
    BY <1>9
  <2>2. \A n \in Nat : n + 1 \in Nat /\ n + 1 # 0 /\ (n + 1) - 1 = n
    OBVIOUS
  <2>3. \A n \in Nat : h[n + 1] = Turn(h[(n + 1) - 1])
    BY <2>1, <2>2
  <2> QED BY <2>1, <2>2, <2>3
<1>12. \A n \in Nat : h[n] \in D
  <2> DEFINE Good == {n \in Nat : h[n] \in D}
  <2>1. 0 \in Good
    BY <1>2, <1>11
  <2>2. ASSUME NEW n \in Nat, n \in Good PROVE n + 1 \in Good
    <3>1. h[n] \in D
      BY <2>2
    <3>2. h[n + 1] \in D
      BY <1>1, <1>11, <3>1
    <3> QED BY <3>2
  <2>3. \A n \in Nat : n \in Good
    <3> HIDE DEF Good
    <3> QED BY <2>1, <2>2, AllTurns
  <2> QED BY <2>3
<1> QED BY <1>10, <1>11, <1>12 DEF Turn, D, base

\* The rounds come to an end within the bound, with outputs that another round
\* would not change.
LEMMA RoundsSettle ==
  ASSUME NEW E, NEW S, Typed(E, S)
  PROVE  \E n \in Nat : LET O == Rounds(E, S)[n]
                        IN  /\ O = Round(E, S, O)
                            /\ reaching_definitions(E, S) = Input(E, O)
<1> DEFINE c == Rounds(E, S)
           U == (DOMAIN S) \X Definitions(S)
           N == MostRounds(S)
<1>1. IsFiniteSet(U) /\ Cardinality(U) = N
  <2>1. S \in Seq(Seq(Stats))
    BY DEF Typed
  <2>2. /\ IsFiniteSet(Definitions(S)) /\ IsFiniteSet(DOMAIN S)
        /\ Cardinality(DOMAIN S) = Len(S)
    BY <2>1, DefinitionsTyped
  <2> QED BY <2>2, FS_Product DEF MostRounds
<1>2. /\ c[0] = Gen(S)
      /\ \A n \in Nat : c[n + 1] = Round(E, S, c[n])
      /\ \A n \in Nat : c[n] \in SUBSET U
  BY RoundsTurns
<1>3. \A O, P \in SUBSET U : O \subseteq P => Round(E, S, O) \subseteq Round(E, S, P)
  BY RoundTyped
<1> HIDE DEF c, U, N
<1>4. \A n \in Nat : c[n] \subseteq c[n + 1]
  <2> DEFINE Good == {n \in Nat : c[n] \subseteq c[n + 1]}
  <2>1. 0 \in Good
    <3>1. c[0 + 1] = Round(E, S, c[0])
      BY <1>2
    <3> QED BY <1>2, <3>1 DEF Round
  <2>2. ASSUME NEW n \in Nat, n \in Good PROVE n + 1 \in Good
    <3>1. n + 1 \in Nat /\ c[n] \subseteq c[n + 1]
      BY <2>2
    <3>2. c[n] \in SUBSET U /\ c[n + 1] \in SUBSET U
      BY <1>2, <3>1
    <3>3. Round(E, S, c[n]) \subseteq Round(E, S, c[n + 1])
      BY <1>3, <3>1, <3>2
    <3>4. c[n + 1] = Round(E, S, c[n]) /\ c[(n + 1) + 1] = Round(E, S, c[n + 1])
      BY <1>2, <3>1
    <3> QED BY <3>1, <3>3, <3>4
  <2>3. \A n \in Nat : n \in Good
    <3> HIDE DEF Good
    <3> QED BY <2>1, <2>2, AllTurns
  <2> QED BY <2>3
<1>5. \E n \in 0 .. N : c[n + 1] = c[n]
  <2>1. \A n \in Nat : c[n] \subseteq U /\ c[n] \subseteq c[n + 1]
    BY <1>2, <1>4
  <2>2. \E n \in 0 .. Cardinality(U) : c[n + 1] = c[n]
    BY <1>1, <2>1, ChainSettles
  <2> QED BY <1>1, <2>2
<1> DEFINE last == CHOOSE n \in 0 .. N : c[n + 1] = c[n]
<1>6. last \in 0 .. N /\ c[last + 1] = c[last]
  BY <1>5
<1>7. reaching_definitions(E, S) = Input(E, c[last])
  BY DEF reaching_definitions, Settled, c, N
<1> HIDE DEF last
<1>8. last \in Nat
  BY <1>6
<1>9. c[last] = Round(E, S, c[last])
  BY <1>2, <1>6, <1>8
<1> QED BY <1>7, <1>8, <1>9 DEF c

\* A block's changes decide what leaves it, whatever it finds.
LEMMA LeavingIs ==
  ASSUME NEW S, NEW b, NEW d
  PROVE  LeavingBlock(S, b, d) = IF NoChange(S[b]) THEN d ELSE After(S[b], Len(S[b]), Unbound)
BY DEF LeavingBlock, NoChange, After

\* Where every block that has children is on a walk, the input of a block is
\* what the walks to it carry.
LEMMA ReachingIs ==
  ASSUME NEW E, NEW S, Typed(E, S),
         \A a, b : <<a, b>> \in E => \E d : <<a, d>> \in Carried(E, S)
  PROVE  \A b, d : <<b, d>> \in reaching_definitions(E, S)
                     <=> b # Entry /\ <<b, d>> \in Carried(E, S)
<1> DEFINE W == Carried(E, S)
           L(b, d) == LeavingBlock(S, b, d)
<1>1. PICK n \in Nat : LET O == Rounds(E, S)[n]
                       IN  O = Round(E, S, O) /\ reaching_definitions(E, S) = Input(E, O)
  BY RoundsSettle
<1> DEFINE c == Rounds(E, S)
           O == c[n]
<1>2. /\ c[0] = Gen(S)
      /\ \A m \in Nat : c[m + 1] = Round(E, S, c[m])
      /\ \A m \in Nat : c[m] \in SUBSET ((DOMAIN S) \X Definitions(S))
  BY RoundsTurns
<1>3. Closed(E, S, W)
  BY CarriedClosed
<1>4. \A a, b : <<a, b>> \in E => a \in DOMAIN S /\ b \in DOMAIN S /\ b # Entry
  BY DEF Typed
<1>5. O = Round(E, S, O) /\ reaching_definitions(E, S) = Input(E, O)
  BY <1>1
<1> HIDE DEF W, c, L
<1>6. ASSUME NEW a, NEW b, NEW d, <<a, b>> \in E, <<a, d>> \in O
      PROVE  <<b, d>> \in Input(E, O)
  <2>1. <<a, d>>[1] = a /\ <<a, d>>[2] = d
    OBVIOUS
  <2> HIDE DEF O
  <2> QED BY <1>6, <2>1, InputIs
\* What leaves a block on a walk is among its outputs.
<1>7. ASSUME NEW b, NEW d, b # Entry, <<b, d>> \in W
      PROVE  <<b, d>> \in Input(E, O)
  <2> HIDE DEF O
  <2> DEFINE Found(p) == p[1] = Entry \/ p \in Input(E, O)
             Q == {p \in (DOMAIN S) \X Definitions(S) : <<p[1], L(p[1], p[2])>> \in O /\ Found(p)}
  <2>1. S \in Seq(Seq(Stats)) /\ Entry \in DOMAIN S /\ S[Entry] = <<>>
    BY DEF Typed
  <2>2. Gen(S) \subseteq O
    BY <1>5 DEF Round
  <2>3. <<Entry, Unbound>> \in Q
    <3>1. L(Entry, Unbound) = Unbound
      BY <2>1 DEF L, LeavingBlock, After, Change, Changes
    <3>2. <<Entry, Unbound>> \in O
      BY <2>2 DEF Gen
    <3>3. <<Entry, Unbound>> \in (DOMAIN S) \X Definitions(S)
      BY <2>1, DefinitionsTyped
    <3> QED BY <3>1, <3>2, <3>3
  <2>4. ASSUME NEW a, NEW x, NEW k, <<a, x>> \in E, <<a, k>> \in Q
        PROVE  <<x, L(a, k)>> \in Q
    <3> DEFINE m == L(a, k)
    <3>1. <<a, m>> \in O /\ a \in DOMAIN S /\ k \in Definitions(S)
      BY <2>4
    <3>2. x \in DOMAIN S /\ m \in Definitions(S)
      <4>1. Len(S[a]) \in Nat
        BY <2>1, <3>1
      <4> QED BY <1>4, <2>1, <2>4, <3>1, <4>1, AfterTyped DEF L, LeavingBlock
    <3> HIDE DEF m, Q
    <3>3. <<x, m>> \in Input(E, O)
      BY <1>6, <2>4, <3>1
    <3>4. <<x, L(x, m)>> \in O
      <4>1. CASE NoChange(S[x])
        <5>1. L(x, m) = m
          BY <4>1, LeavingIs DEF L
        <5>2. <<x, m>> \in Round(E, S, O)
          BY <3>3, <4>1 DEF Round
        <5> QED BY <1>5, <5>1, <5>2
      <4>2. CASE ~ NoChange(S[x])
        <5>1. L(x, m) = After(S[x], Len(S[x]), Unbound)
          BY <4>2, LeavingIs DEF L
        <5>2. <<x, After(S[x], Len(S[x]), Unbound)>> \in Gen(S)
          BY <3>2, <4>2 DEF Gen, NoChange
        <5> QED BY <2>2, <5>1, <5>2
      <4> QED BY <4>1, <4>2
    <3>5. <<x, m>> \in (DOMAIN S) \X Definitions(S)
      BY <3>2
    <3>6. <<x, m>> \in Q
      BY <3>3, <3>4, <3>5 DEF Q
    <3> QED BY <3>6 DEF m
  <2>5. Closed(E, S, Q)
    <3> HIDE DEF Q
    <3> QED BY <2>3, <2>4 DEF Closed, L
  <2>6. W \subseteq Q
    <3> HIDE DEF Q
    <3> QED BY <2>5, CarriedLeast DEF W
  <2> QED BY <1>7, <2>6
\* And nothing else is, of a block that has children.
<1>8. \A m \in Nat : \A p \in c[m] : \A b : <<p[1], b>> \in E
          => \E k : <<p[1], k>> \in W /\ p[2] = L(p[1], k)
  <2> DEFINE Fine(p) == \A b : <<p[1], b>> \in E
                           => \E k : <<p[1], k>> \in W /\ p[2] = L(p[1], k)
             Good == {m \in Nat : \A p \in c[m] : Fine(p)}
  <2>1. \A a, b : <<a, b>> \in E => \E d : <<a, d>> \in W
    BY DEF W
  <2>2. \A p \in Gen(S) : Fine(p)
    <3> TAKE p \in Gen(S)
    <3>1. CASE p = <<Entry, Unbound>>
      <4>1. L(Entry, Unbound) = Unbound
        BY DEF L, LeavingBlock, After, Change, Changes, Typed
      <4>2. <<Entry, Unbound>> \in W
        BY <1>3 DEF Closed
      <4> QED BY <3>1, <4>1, <4>2
    <3>2. CASE p # <<Entry, Unbound>>
      <4>1. PICK x \in DOMAIN S : ~ NoChange(S[x]) /\ p = <<x, After(S[x], Len(S[x]), Unbound)>>
        BY <3>2 DEF Gen, NoChange
      <4>2. \A k : L(x, k) = p[2]
        BY <4>1, LeavingIs DEF L
      <4>3. p[1] = x
        BY <4>1
      <4> QED BY <2>1, <4>2, <4>3
    <3> QED BY <3>1, <3>2
  <2>3. 0 \in Good
    <3> HIDE DEF Fine
    <3> QED BY <1>2, <2>2
  <2>4. ASSUME NEW m \in Nat, m \in Good PROVE m + 1 \in Good
    <3>1. \A p \in c[m] : Fine(p)
      BY <2>4
    <3>2. c[m + 1] = Gen(S) \cup {i \in Input(E, c[m]) : NoChange(S[i[1]])}
      BY <1>2 DEF Round
    <3>3. ASSUME NEW i \in Input(E, c[m]), NoChange(S[i[1]]) PROVE Fine(i)
      <4>1. PICK e \in E, p \in c[m] : p[1] = e[1] /\ i = <<e[2], p[2]>>
        BY DEF Input
      <4>2. e = <<p[1], i[1]>> /\ p[2] = i[2] /\ i = <<i[1], i[2]>>
        BY <4>1 DEF Typed
      <4>3. PICK k : <<p[1], k>> \in W /\ p[2] = L(p[1], k)
        BY <3>1, <4>1, <4>2
      <4>4. <<i[1], i[2]>> \in W
        BY <1>3, <4>1, <4>2, <4>3 DEF Closed, L
      <4>5. L(i[1], i[2]) = i[2]
        BY <3>3, LeavingIs DEF L
      <4> QED BY <4>4, <4>5
    <3> HIDE DEF Fine
    <3>4. \A p \in c[m + 1] : Fine(p)
      BY <2>2, <3>2, <3>3
    <3> QED BY <3>4
  <2>5. \A m \in Nat : m \in Good
    <3> HIDE DEF Good
    <3> QED BY <2>3, <2>4, AllTurns
  <2> QED BY <2>5
<1>9. ASSUME NEW b, NEW d, <<b, d>> \in Input(E, O)
      PROVE  b # Entry /\ <<b, d>> \in W
  <2>1. PICK e \in E, p \in O : p[1] = e[1] /\ <<b, d>> = <<e[2], p[2]>>
    <3> HIDE DEF O
    <3> QED BY <1>9 DEF Input
  <2> DEFINE a == p[1]
  <2>2. <<a, b>> \in E /\ p[2] = d
    <3>1. e = <<e[1], e[2]>>
      BY DEF Typed
    <3>2. e[1] = a /\ e[2] = b /\ p[2] = d
      BY <2>1
    <3> HIDE DEF a
    <3>3. e = <<a, b>>
      BY <3>1, <3>2
    <3> QED BY <3>2, <3>3
  <2>3. PICK k : <<a, k>> \in W /\ d = L(a, k)
    BY <1>8, <2>2
  <2>4. <<b, d>> \in W
    BY <1>3, <2>2, <2>3 DEF Closed, L
  <2> QED BY <1>4, <2>2, <2>4
<1> HIDE DEF O
<1> QED BY <1>5, <1>7, <1>9 DEF W

\* For every graph of blocks: what check_definitions lists for a place is what
\* the walks through the graph bring there, no less (an unbound variable is not
\* taken for bound) and no more (a bound one is not checked for nothing), although
\* normalize takes unreachable and empty blocks out and reaching_definitions works
\* on bits of whole blocks until a round changes none.
THEOREM AnalysisIsExact ==
  ASSUME NEW f, IsGraph(f)
  PROVE  \A place, d :
           <<place, d>> \in check_definitions(f) <=>
             \E w \in Seq(Nat \X ProgramPlaces) :
               IsWalk(f.edges, f.stats, w) /\ Brings(f.stats, w, place, d)
<1> DEFINE E == f.edges
           S == f.stats
           V == visited(f)
           W == Carried(E, S)
           M == Empty(f)
           I == reaching_definitions(normalize(f), S)
           At(b, i, x, place, d) == place = S[b][i].place /\ d = After(S[b], i - 1, x)
<1>1. Typed(E, S)
  BY DEF IsGraph, Typed
<1>2. /\ V \subseteq DOMAIN S
      /\ \A b \in V : \E x : <<b, x>> \in W
      /\ \A p \in W : p[1] \in V
  <2>1. /\ Entry \in V /\ V \subseteq DOMAIN S
        /\ \A a, b : <<a, b>> \in E /\ a \in V => b \in V
        /\ \A b \in V : \E x : <<b, x>> \in W
    BY <1>1, VisitedIs
  <2> HIDE DEF E, S, V
  <2>2. \A p \in Carried(E, S) : p[1] \in V
    BY <1>1, <2>1, ReachedEdges
  <2> QED BY <2>1, <2>2
<1>3. \A b, x : <<b, x>> \in I <=> b # Entry /\ <<b, x>> \in W /\ b \notin M
  <2> DEFINE F == normalize(f)
  <2>1. /\ Typed(F, S)
        /\ Carried(F, S) = {p \in W : p[1] \notin M}
        /\ \A a, b : <<a, b>> \in F => a \in V \ M
    BY <1>1, NormalIs
  <2> HIDE DEF E, S, V, W, M, F
  <2>2. \A b, x : <<b, x>> \in Carried(F, S) <=> <<b, x>> \in W /\ b \notin M
    BY <2>1
  <2>3. \A a, b : <<a, b>> \in F => \E d : <<a, d>> \in Carried(F, S)
    BY <1>2, <2>1, <2>2
  <2>4. \A b, x : <<b, x>> \in reaching_definitions(F, S)
                    <=> b # Entry /\ <<b, x>> \in Carried(F, S)
    BY <2>1, <2>3, ReachingIs
  <2> QED BY <2>2, <2>4 DEF F
<1>4. S[Entry] = <<>> /\ \A b \in M : S[b] = <<>>
  BY <1>1 DEF Typed, Empty
<1>5. \A p \in W : p = <<p[1], p[2]>>
  BY <1>1, CarriedTyped
<1> DEFINE State(b, i) == IF Change(S[b], i - 1) # 0 THEN {After(S[b], i - 1, Unbound)}
                          ELSE {p[2] : p \in {q \in I : q[1] = b}}
<1>6. check_definitions(f) = UNION {UNION {{S[b][i].place} \X State(b, i) : i \in DOMAIN S[b]}
                                    : b \in V \ M}
  BY DEF check_definitions
<1>7. \A p \in I : p = <<p[1], p[2]>>
  BY DEF reaching_definitions, Input
<1> SUFFICES ASSUME NEW place, NEW d
             PROVE  <<place, d>> \in check_definitions(f) <=>
                      \E w \in Walks(E, S) : Brings(S, w, place, d)
  <2>1. \A place, d : (\E w \in Walks(E, S) : Brings(S, w, place, d)) <=>
                         \E w \in Seq(Nat \X ProgramPlaces) :
                            IsWalk(E, S, w) /\ Brings(S, w, place, d)
    BY DEF Walks
  <2> QED BY <2>1
<1> HIDE DEF E, S, V, W, M, I, State
<1>8. <<place, d>> \in check_definitions(f) <=>
        \E b \in V \ M : \E i \in DOMAIN S[b] : place = S[b][i].place /\ d \in State(b, i)
  BY <1>6
<1>9. (\E w \in Walks(E, S) : Brings(S, w, place, d))
        <=> \E p \in W : \E i \in DOMAIN S[p[1]] : At(p[1], i, p[2], place, d)
  <2>1. \A w : Brings(S, w, place, d) <=>
                 \E i \in DOMAIN S[w[Len(w)][1]] : At(w[Len(w)][1], i, w[Len(w)][2], place, d)
    BY DEF Brings
  <2> HIDE DEF At
  <2> QED BY <2>1 DEF W, Carried
<1>10. ASSUME NEW b \in V \ M, NEW i \in DOMAIN S[b], place = S[b][i].place, d \in State(b, i)
       PROVE  \E p \in W : \E j \in DOMAIN S[p[1]] : At(p[1], j, p[2], place, d)
  <2>1. \E x : <<b, x>> \in W /\ d = After(S[b], i - 1, x)
    <3>1. CASE Change(S[b], i - 1) # 0
      <4>1. d = After(S[b], i - 1, Unbound)
        BY <1>10, <3>1 DEF State
      <4>2. \A x : After(S[b], i - 1, x) = d
        BY <3>1, <4>1 DEF After
      <4>3. PICK x : <<b, x>> \in W
        BY <1>2
      <4>4. d = After(S[b], i - 1, x)
        BY <4>2
      <4> HIDE DEF At
      <4> QED BY <4>3, <4>4
    <3>2. CASE Change(S[b], i - 1) = 0
      <4>1. <<b, d>> \in I
        BY <1>7, <1>10, <3>2 DEF State
      <4>2. After(S[b], i - 1, d) = d
        BY <3>2 DEF After
      <4> QED BY <1>3, <4>1, <4>2
    <3> QED BY <3>1, <3>2
  <2>2. PICK x : <<b, x>> \in W /\ d = After(S[b], i - 1, x)
    BY <2>1
  <2>3. <<b, x>>[1] = b /\ <<b, x>>[2] = x
    OBVIOUS
  <2>4. At(b, i, x, place, d)
    BY <1>10, <2>2
  <2> HIDE DEF At
  <2> QED BY <2>2, <2>3, <2>4
<1>11. ASSUME NEW p \in W, NEW i \in DOMAIN S[p[1]], At(p[1], i, p[2], place, d)
       PROVE  \E b \in V \ M : \E j \in DOMAIN S[b] : place = S[b][j].place /\ d \in State(b, j)
  <2> DEFINE b == p[1]
             x == p[2]
  <2>1. S[b] # <<>>
    OBVIOUS
  <2>2. <<b, x>> \in W /\ b \in V
    BY <1>2, <1>5
  <2>3. b \notin M /\ b # Entry
    BY <1>4, <2>1
  <2>4. <<b, x>> \in I
    BY <1>3, <2>2, <2>3
  <2>5. i \in DOMAIN S[b] /\ place = S[b][i].place /\ d = After(S[b], i - 1, x)
    BY <1>11
  <2> HIDE DEF b, x
  <2>6. d \in State(b, i)
    <3>1. CASE Change(S[b], i - 1) # 0
      BY <2>5, <3>1 DEF State, After
    <3>2. CASE Change(S[b], i - 1) = 0
      <4>1. d = x
        BY <2>5, <3>2 DEF After
      <4>2. <<b, x>>[1] = b /\ <<b, x>>[2] = x
        OBVIOUS
      <4> QED BY <2>4, <3>2, <4>1, <4>2 DEF State
    <3> QED BY <3>1, <3>2
  <2> QED BY <2>2, <2>3, <2>5, <2>6
<1> QED BY <1>8, <1>9, <1>10, <1>11
===============================================================================
