-------------------------- MODULE Compiler_proofs --------------------------
(***************************************************************************)
(* Proofs about four parts that share no state: the cache of generated     *)
(* files, parallel sections, module initialization, and the dependencies   *)
(* of sources.                                                             *)
(***************************************************************************)
EXTENDS Compiler, FiniteSetTheorems, SequenceTheorems, WellFoundedInduction, TLAPS

-----------------------------------------------------------------------------
(* Sequences.                                                              *)

Below == {p \in Nat \X Nat : p[1] < p[2]}

\* A nonempty set of naturals has a least element: the order is well founded.
LEMMA LeastNumber ==
  ASSUME NEW S \in SUBSET Nat, S # {}
  PROVE  \E n \in S : \A m \in S : n <= m
<1>1. IsWellFoundedOn(Below, Nat)
  BY NatLessThanWellFounded DEF OpToRel, Below
<1>2. PICK n \in S : \A m \in S : ~ (<<m, n>> \in Below)
  BY <1>1, WFMin
<1>3. \A m \in S : ~ (m < n)
  <2> TAKE m \in S
  <2>1. <<m, n>> \in Nat \X Nat /\ <<m, n>>[1] = m /\ <<m, n>>[2] = n
    OBVIOUS
  <2> QED BY <1>2, <2>1 DEF Below
<1> QED BY <1>3

\* The elements taken from the first i.
KeptSoFar(f, s, S, i) ==
  IF i = 0 THEN <<>> ELSE IF s[i] \in S THEN Append(f[i - 1], s[i]) ELSE f[i - 1]

LEMMA OnlyDefined ==
  ASSUME NEW T, NEW s \in Seq(T), NEW S
  PROVE  \E f : /\ f = [i \in 0 .. Len(s) |-> KeptSoFar(f, s, S, i)]
                /\ Only(s, S) = f[Len(s)]
<1> DEFINE Good(m) == \E f : f = [i \in 0 .. m |-> KeptSoFar(f, s, S, i)]
           Bad == {m \in Nat : ~ Good(m)}
<1>1. Len(s) \in Nat
  BY LenProperties
<1>2. Good(0)
  <2> DEFINE f == [i \in 0 .. 0 |-> <<>>]
  <2>1. f = [i \in 0 .. 0 |-> KeptSoFar(f, s, S, i)]
    BY DEF KeptSoFar
  <2> HIDE DEF f
  <2> QED BY <2>1
<1>3. ASSUME NEW m \in Nat, Good(m) PROVE Good(m + 1)
  <2>1. PICK f : f = [i \in 0 .. m |-> KeptSoFar(f, s, S, i)]
    BY <1>3
  <2> DEFINE g == [i \in 0 .. m + 1 |-> IF i = m + 1 THEN KeptSoFar(f, s, S, m + 1) ELSE f[i]]
             h == [i \in 0 .. m + 1 |-> KeptSoFar(g, s, S, i)]
  <2>2. \A i \in 0 .. m : g[i] = f[i]
    OBVIOUS
  <2>3. \A i \in 0 .. m : f[i] = KeptSoFar(f, s, S, i)
    BY <2>1
  <2>4. \A i \in 0 .. m + 1 : KeptSoFar(g, s, S, i) = KeptSoFar(f, s, S, i)
    <3> TAKE i \in 0 .. m + 1
    <3> HIDE DEF g
    <3>1. CASE i = 0
      BY <3>1 DEF KeptSoFar
    <3>2. CASE i # 0
      <4>1. g[i - 1] = f[i - 1]
        BY <2>2, <3>2
      <4> QED BY <4>1 DEF KeptSoFar
    <3> QED BY <3>1, <3>2
  <2>5. \A i \in 0 .. m + 1 : g[i] = h[i]
    BY <2>2, <2>3, <2>4
  <2>6. g = h
    BY <2>5
  <2> HIDE DEF g
  <2> QED BY <2>6
<1>4. Bad = {}
  <2> SUFFICES ASSUME Bad # {} PROVE FALSE
    OBVIOUS
  <2>1. PICK n \in Bad : \A m \in Bad : n <= m
    BY LeastNumber
  <2>2. n # 0 /\ n \in Nat /\ ~ Good(n)
    BY <1>2
  <2>3. n - 1 \in Nat /\ Good(n - 1) /\ (n - 1) + 1 = n
    BY <2>1, <2>2
  <2> HIDE DEF Good
  <2> QED BY <1>3, <2>2, <2>3
<1>5. Good(Len(s))
  BY <1>1, <1>4
<1>6. \E f : f = [i \in 0 .. Len(s) |-> KeptSoFar(f, s, S, i)]
  BY <1>5
<1> DEFINE only == CHOOSE f : f = [i \in 0 .. Len(s) |-> KeptSoFar(f, s, S, i)]
<1>7. only = [i \in 0 .. Len(s) |-> KeptSoFar(only, s, S, i)]
  BY <1>6
<1>8. Only(s, S) = only[Len(s)]
  BY DEF Only, KeptSoFar
<1> HIDE DEF only
<1> QED BY <1>7, <1>8

\* Only keeps what is in S, once where it was once.
LEMMA OnlyIs ==
  ASSUME NEW T, NEW s \in Seq(T), NEW S
  PROVE  /\ Only(s, S) \in Seq(T)
         /\ ToSet(Only(s, S)) = ToSet(s) \cap S
         /\ IsInjective(s) => IsInjective(Only(s, S))
<1>1. PICK f : f = [i \in 0 .. Len(s) |-> KeptSoFar(f, s, S, i)] /\ Only(s, S) = f[Len(s)]
  BY OnlyDefined
<1> DEFINE First(i) == {s[k] : k \in 1 .. i}
           Right(i) == /\ f[i] \in Seq(T)
                       /\ ToSet(f[i]) = First(i) \cap S
                       /\ IsInjective(s) => IsInjective(f[i])
           Bad == {i \in 0 .. Len(s) : ~ Right(i)}
<1>2. Len(s) \in Nat /\ \A k \in 1 .. Len(s) : s[k] \in T
  BY LenProperties
<1>a. DOMAIN s = 1 .. Len(s)
  BY LenProperties
<1>b. \A i \in 0 .. Len(s) : f[i] = KeptSoFar(f, s, S, i)
  BY <1>1, <1>2
<1>3. Right(0)
  <2>1. f[0] = <<>>
    BY <1>1, <1>2 DEF KeptSoFar
  <2> QED BY <2>1 DEF ToSet, IsInjective
<1>4. ASSUME NEW i \in 1 .. Len(s), Right(i - 1) PROVE Right(i)
  <2>0. i \in 0 .. Len(s) /\ i # 0
    BY <1>2
  <2>1. f[i] = IF s[i] \in S THEN Append(f[i - 1], s[i]) ELSE f[i - 1]
    BY <1>b, <2>0 DEF KeptSoFar
  <2>2. First(i) = First(i - 1) \cup {s[i]}
    BY <1>2
  <2>3. CASE s[i] \notin S
    <3> HIDE DEF First
    <3> QED BY <1>4, <2>1, <2>2, <2>3
  <2>4. CASE s[i] \in S
    <3> DEFINE e == f[i - 1]
    <3>1. e \in Seq(T) /\ f[i] = Append(e, s[i]) /\ s[i] \in T /\ ToSet(e) = First(i - 1) \cap S
      BY <1>2, <1>4, <2>1, <2>4
    <3> HIDE DEF e, First
    <3>2. /\ f[i] \in Seq(T) /\ Len(f[i]) = Len(e) + 1 /\ Len(e) \in Nat
          /\ f[i][Len(e) + 1] = s[i] /\ \A k \in 1 .. Len(e) : f[i][k] = e[k]
          /\ DOMAIN f[i] = 1 .. Len(e) + 1 /\ DOMAIN e = 1 .. Len(e)
      BY <3>1
    <3>3. ToSet(f[i]) = ToSet(e) \cup {s[i]}
      BY <3>2 DEF ToSet
    <3>4. ToSet(f[i]) = First(i) \cap S
      BY <2>2, <2>4, <3>1, <3>3
    <3>5. ASSUME IsInjective(s) PROVE IsInjective(f[i])
      <4>1. IsInjective(e)
        BY <1>4, <3>5 DEF e
      <4>2. s[i] \notin First(i - 1)
        BY <1>a, <1>2, <3>5 DEF IsInjective, First
      <4>3. \A k \in 1 .. Len(e) : e[k] # s[i]
        BY <3>1, <3>2, <4>2 DEF ToSet
      <4> QED BY <3>2, <4>1, <4>3 DEF IsInjective
    <3> QED BY <3>2, <3>4, <3>5
  <2> QED BY <2>3, <2>4
<1>5. Bad = {}
  <2> SUFFICES ASSUME Bad # {} PROVE FALSE
    OBVIOUS
  <2>0. Bad \in SUBSET Nat
    OBVIOUS
  <2>1. PICK n \in Bad : \A m \in Bad : n <= m
    BY <2>0, LeastNumber
  <2> HIDE DEF Right
  <2>2. n # 0 /\ n \in 1 .. Len(s) /\ ~ Right(n)
    BY <1>2, <1>3
  <2>3. n - 1 \notin Bad /\ n - 1 \in 0 .. Len(s)
    BY <2>1, <2>2
  <2>4. Right(n - 1)
    BY <2>3
  <2> QED BY <1>4, <2>2, <2>4
<1>6. Right(Len(s))
  <2> HIDE DEF Right
  <2> QED BY <1>2, <1>5
<1>7. First(Len(s)) = ToSet(s)
  BY <1>a DEF ToSet
<1> QED BY <1>1, <1>6, <1>7

-----------------------------------------------------------------------------
(* The cache of generated files.                                           *)

\* Where compiler_directives do not change, the fingerprint tells requests apart.
OneSetting == \A d, e \in Directives : d = e

\* What the blocks of an archive with this fingerprint hold.
Holds(print) == Archived(CHOOSE request \in Requests : Fingerprint(request) = print)

BuilderPlaces == {"idle", "lookup", "touch", "open", "read", "compile", "store", "write",
                  "rename", "listdir", "stat", "evict"}
BuilderRecord ==
  [at : BuilderPlaces, request : Requests \cup {NoFile}, cached : CacheNames \cup {NoFile},
   handle : Inodes \cup {NoFile}, written : 0 .. Blocks, files : Seq(CacheNames), total : Nat]

CacheTypes ==
  /\ directory \in [CacheNames -> Inodes \cup {NoFile}]
  /\ contents \in [Inodes -> [1 .. Blocks -> {File("none")} \cup {Archived(r) : r \in Requests}]]
  /\ builder \in [Builders -> BuilderRecord]
  /\ DOMAIN c_file = Builders /\ DOMAIN disturbed = Builders
  /\ result \in [Builders -> {"none", "ok", "failed"}]
  /\ killed \in BOOLEAN
  /\ atimes \in Seq(CacheNames)

\* What a builder knows at each of its steps.
Doing(b) ==
  LET at == builder[b].at  request == builder[b].request  cached == builder[b].cached
  IN  /\ at # "idle" \/ result[b] # "none" => request \in Requests
      /\ builder[b].handle # NoFile <=> at \in {"read", "write"}
      /\ at \in {"touch", "open", "read"} =>
           cached \in CacheNames /\ ~cached.tmp /\ cached.print = Fingerprint(request)
      /\ at \in {"store", "write", "rename"} => cached = EntryName(request)
      /\ at \in {"lookup", "compile", "store"} => builder[b].written = 0
      /\ at = "write" => builder[b].written < Blocks
      /\ at = "evict" => builder[b].files # <<>>
      /\ result[b] # "none" => at = "idle"
      /\ \/ at \in {"store", "write", "rename", "listdir", "stat", "evict"}
         \/ result[b] = "ok"
         => (Compiles(request) => c_file[b] = Generated(request))

\* An inode in use belongs to one fingerprint, whoever names it or has it open.
Stores(i, print) == \A k \in 1 .. Blocks : contents[i][k] \in {File("none"), Holds(print)}
Links ==
  /\ \A m, n \in Listing : directory[m] = directory[n] => m = n
  /\ \A n \in Listing : Stores(directory[n], n.print)
  /\ \A n \in Listing, b \in Builders :
       builder[b].handle = directory[n] => n.print = builder[b].cached.print
  /\ \A b \in Builders :
       builder[b].handle # NoFile =>
         /\ Stores(builder[b].handle, builder[b].cached.print)
         /\ \A c \in Builders : builder[c].handle = builder[b].handle =>
              builder[c].cached.print = builder[b].cached.print

\* A file with a name has all its blocks, or the builder that opened it last is
\* still to write the missing ones.
Filled(i, n) == \A k \in 1 .. n : contents[i][k] # File("none")
Whole(n) ==
  \/ killed \/ Filled(directory[n], Blocks)
  \/ \E b \in Builders : /\ builder[b].at = "write" /\ builder[b].handle = directory[n]
                         /\ Filled(directory[n], builder[b].written)

\* The last uses name the files there are, each once.
Ordered == ToSet(atimes) = Listing /\ IsInjective(atimes)

CacheInv ==
  /\ CacheTypes
  /\ \A b \in Builders : Doing(b)
  /\ Links
  /\ \A n \in Listing : Whole(n)

LEMMA HoldsArchived ==
  ASSUME OneSetting, NEW r \in Requests
  PROVE  Archived(r) = Holds(Fingerprint(r)) /\ Archived(r).is # "none"
<1>1. \A q \in Requests : Fingerprint(q) = Fingerprint(r) => q = r
  BY DEF OneSetting, Requests, Fingerprint
<1>2. (CHOOSE q \in Requests : Fingerprint(q) = Fingerprint(r)) = r
  BY <1>1
<1>3. Archived(r).is # "none"
  BY DEF Archived, Generated, File
<1> QED BY <1>2, <1>3 DEF Holds

LEMMA EntryNameOf ==
  ASSUME NEW r \in Requests
  PROVE  /\ EntryName(r) \in CacheNames /\ TmpOf(EntryName(r)) \in CacheNames
         /\ ~EntryName(r).tmp /\ TmpOf(EntryName(r)).tmp
         /\ EntryName(r).print = Fingerprint(r) /\ TmpOf(EntryName(r)).print = Fingerprint(r)
BY DEF EntryName, TmpOf, CacheNames

LEMMA IdleRecord == Idle \in BuilderRecord
BY CacheSizeAssumption DEF Idle, BuilderRecord, BuilderPlaces

LEMMA HandleOf ==
  ASSUME CacheTypes, NEW b \in Builders
  PROVE  builder[b] \in BuilderRecord
BY DEF CacheTypes

LEMMA ListingUse ==
  ASSUME CacheTypes
  PROVE  /\ \A n \in Listing : n \in CacheNames /\ directory[n] \in Inodes /\ directory[n] \in InUse
         /\ \A b \in Builders : builder[b].handle \in InUse
BY DEF CacheTypes, Listing, Exists, InUse

\* Names move or go, handles are closed, and what is still in use keeps its blocks.
Moved == /\ \A n \in Listing' : \E m \in Listing : m.print = n.print /\ directory'[n] = directory[m]
         /\ \A m, n \in Listing' : directory'[m] = directory'[n] => m = n

LEMMA LinksMoved ==
  ASSUME CacheInv, CacheTypes', Moved,
         \A b \in Builders : \/ builder'[b].handle = NoFile
                             \/ /\ builder'[b].handle = builder[b].handle
                                /\ builder'[b].cached = builder[b].cached,
         \A i \in InUse' \cap Inodes : contents'[i] = contents[i]
  PROVE  Links'
<1>1. \A n \in Listing' : directory'[n] \in InUse' \cap Inodes /\ directory'[n] # NoFile
  BY DEF InUse, Listing, Exists, CacheTypes
<1>2. \A b \in Builders : /\ builder'[b].handle \in InUse'
                          /\ builder'[b].handle # NoFile => builder'[b].handle \in Inodes
  BY DEF InUse, CacheTypes, BuilderRecord
<1>3. \A n \in Listing' : Stores(directory[n], n.print)'
  BY <1>1 DEF CacheInv, Links, Stores, Moved
<1>4. \A m, n \in Listing' : directory'[m] = directory'[n] => m = n
  BY DEF Moved
<1>5. \A n \in Listing', b \in Builders :
        builder'[b].handle = directory'[n] => n.print = builder'[b].cached.print
  BY <1>1 DEF CacheInv, Links, Moved
<1>6. \A b \in Builders : builder'[b].handle # NoFile =>
        Stores(builder[b].handle, builder[b].cached.print)'
  BY <1>2 DEF CacheInv, Links, Stores
<1>7. \A b, c \in Builders : builder'[b].handle # NoFile /\ builder'[c].handle = builder'[b].handle =>
              builder'[c].cached.print = builder'[b].cached.print
  BY DEF CacheInv, Links
<1> QED BY <1>3, <1>4, <1>5, <1>6, <1>7 DEF Links, Stores

LEMMA WholeMoved ==
  ASSUME CacheInv, CacheTypes', Moved,
         \/ killed'
         \/ /\ killed' = killed
            /\ \A b \in Builders : builder[b].at = "write" =>
                 /\ builder'[b].at = "write" /\ builder'[b].handle = builder[b].handle
                 /\ builder'[b].written = builder[b].written,
         \A i \in InUse' \cap Inodes : contents'[i] = contents[i]
  PROVE  \A n \in Listing' : Whole(n)'
<1> TAKE n \in Listing'
<1>1. directory'[n] \in InUse' \cap Inodes
  BY DEF InUse, Listing, Exists, CacheTypes
<1>2. PICK m \in Listing : directory'[n] = directory[m]
  BY DEF Moved
<1>3. contents'[directory'[n]] = contents[directory[m]]
  BY <1>1, <1>2
<1>4. Whole(m)
  BY DEF CacheInv
<1>5. \A k : Filled(directory[m], k) => Filled(directory[n], k)'
  BY <1>1, <1>2, <1>3 DEF Filled
<1> QED BY <1>1, <1>2, <1>4, <1>5 DEF Whole

\* Another builder's step leaves a builder as it is.
LEMMA DoingKept ==
  ASSUME NEW b, Doing(b), builder'[b] = builder[b], c_file'[b] = c_file[b], result'[b] = result[b]
  PROVE  Doing(b)'
BY DEF Doing

\* A builder takes a step; its record becomes r.
LEMMA Acts ==
  ASSUME CacheInv, NEW b \in Builders, NEW r \in BuilderRecord,
         builder' = [builder EXCEPT ![b] = r],
         DOMAIN c_file' = Builders, \A v \in Builders \ {b} : c_file'[v] = c_file[v],
         result' \in [Builders -> {"none", "ok", "failed"}],
         \A v \in Builders \ {b} : result'[v] = result[v],
         directory' \in [CacheNames -> Inodes \cup {NoFile}],
         contents' \in [Inodes -> [1 .. Blocks -> {File("none")} \cup {Archived(q) : q \in Requests}]],
         DOMAIN disturbed' = Builders, killed' \in BOOLEAN, atimes' \in Seq(CacheNames)
  PROVE  /\ CacheTypes' /\ builder'[b] = r
         /\ \A v \in Builders \ {b} : Doing(v)' /\ builder'[v] = builder[v]
<1>1. builder' \in [Builders -> BuilderRecord] /\ builder'[b] = r
      /\ \A v \in Builders \ {b} : builder'[v] = builder[v]
  BY DEF CacheInv, CacheTypes
<1>2. \A v \in Builders \ {b} : Doing(v)'
  BY <1>1, DoingKept DEF CacheInv
<1> QED BY <1>1, <1>2 DEF CacheTypes

\* ... and closes its handle, if it had one; other files may lose their names.
LEMMA ActsMoved ==
  ASSUME CacheInv, NEW b \in Builders, NEW r \in BuilderRecord,
         builder' = [builder EXCEPT ![b] = r],
         DOMAIN c_file' = Builders, \A v \in Builders \ {b} : c_file'[v] = c_file[v],
         result' \in [Builders -> {"none", "ok", "failed"}],
         \A v \in Builders \ {b} : result'[v] = result[v],
         directory' \in [CacheNames -> Inodes \cup {NoFile}],
         contents' \in [Inodes -> [1 .. Blocks -> {File("none")} \cup {Archived(q) : q \in Requests}]],
         DOMAIN disturbed' = Builders, killed' \in BOOLEAN, atimes' \in Seq(CacheNames),
         Moved, \A i \in InUse' \cap Inodes : contents'[i] = contents[i],
         killed' \/ (killed' = killed /\ builder[b].at # "write"),
         r.handle = NoFile, Doing(b)'
  PROVE  CacheInv'
<1>1. /\ CacheTypes' /\ builder'[b] = r
      /\ \A v \in Builders \ {b} : Doing(v)' /\ builder'[v] = builder[v]
  BY Acts
<1>3. \A v \in Builders : \/ builder'[v].handle = NoFile
                          \/ /\ builder'[v].handle = builder[v].handle
                             /\ builder'[v].cached = builder[v].cached
  BY <1>1
<1>4. \/ killed'
      \/ /\ killed' = killed
         /\ \A v \in Builders : builder[v].at = "write" =>
                 /\ builder'[v].at = "write" /\ builder'[v].handle = builder[v].handle
                 /\ builder'[v].written = builder[v].written
  BY <1>1
<1>5. Links'
  BY <1>1, <1>3, LinksMoved
<1>6. \A n \in Listing' : Whole(n)'
  BY <1>1, <1>4, WholeMoved
<1> QED BY <1>1, <1>5, <1>6 DEF CacheInv

\* ... and does nothing to the cache.
LEMMA ActsAlone ==
  ASSUME CacheInv, NEW b \in Builders, NEW r \in BuilderRecord,
         builder' = [builder EXCEPT ![b] = r],
         DOMAIN c_file' = Builders, \A v \in Builders \ {b} : c_file'[v] = c_file[v],
         result' \in [Builders -> {"none", "ok", "failed"}],
         \A v \in Builders \ {b} : result'[v] = result[v],
         UNCHANGED <<directory, contents, killed>>, atimes' \in Seq(CacheNames),
         DOMAIN disturbed' = Builders,
         builder[b].at # "write", r.handle = NoFile, Doing(b)'
  PROVE  CacheInv'
<1>1. Listing' = Listing
  BY DEF Listing, Exists
<1>2. Moved
  BY <1>1 DEF CacheInv, Links, Moved
<1>3. directory' \in [CacheNames -> Inodes \cup {NoFile}]
  BY DEF CacheInv, CacheTypes
<1>4. contents' \in [Inodes -> [1 .. Blocks -> {File("none")} \cup {Archived(q) : q \in Requests}]]
  BY DEF CacheInv, CacheTypes
<1>5. killed' \in BOOLEAN
  BY DEF CacheInv, CacheTypes
<1>6. \A i \in InUse' \cap Inodes : contents'[i] = contents[i]
  OBVIOUS
<1> QED BY <1>2, <1>3, <1>4, <1>5, <1>6, ActsMoved

LEMMA StartBuildStep ==
  ASSUME CacheInv, NEW b \in Builders, StartBuild(b) PROVE CacheInv'
<1>1. PICK request \in Requests :
        builder' = [builder EXCEPT ![b] = [Idle EXCEPT !.at = "lookup", !.request = request]]
  BY DEF StartBuild
<1> DEFINE r == [Idle EXCEPT !.at = "lookup", !.request = request]
<1>2. r \in BuilderRecord
  BY IdleRecord DEF BuilderRecord, BuilderPlaces
<1>3. r.handle = NoFile /\ r.at = "lookup" /\ r.request = request /\ r.written = 0
  BY DEF Idle
<1>4. /\ UNCHANGED <<directory, contents, killed, atimes, c_file>>
      /\ result' = [result EXCEPT ![b] = "none"] /\ builder[b].at = "idle"
      /\ DOMAIN disturbed' = Builders
  BY DEF StartBuild, cacheVars
<1>5. CacheTypes /\ DOMAIN c_file = Builders /\ result \in [Builders -> {"none", "ok", "failed"}]
      /\ builder \in [Builders -> BuilderRecord] /\ atimes \in Seq(CacheNames)
  BY DEF CacheInv, CacheTypes
<1> HIDE DEF r
<1>6. builder'[b] = r /\ result'[b] = "none"
  BY <1>1, <1>4, <1>5 DEF r
<1>7. Doing(b)'
  BY <1>3, <1>6 DEF Doing
<1>8. result' \in [Builders -> {"none", "ok", "failed"}] /\ \A v \in Builders \ {b} : result'[v] = result[v]
  BY <1>4, <1>5
<1> QED BY <1>1, <1>2, <1>3, <1>4, <1>5, <1>7, <1>8, ActsAlone DEF r

\* What there is to say of a builder before its step.
LEMMA ActsFrom ==
  ASSUME CacheInv, NEW b \in Builders
  PROVE  /\ CacheTypes /\ Doing(b) /\ builder[b] \in BuilderRecord
         /\ DOMAIN c_file = Builders /\ DOMAIN disturbed = Builders
         /\ result \in [Builders -> {"none", "ok", "failed"}]
         /\ builder \in [Builders -> BuilderRecord] /\ atimes \in Seq(CacheNames)
         /\ directory \in [CacheNames -> Inodes \cup {NoFile}]
         /\ contents \in [Inodes -> [1 .. Blocks -> {File("none")} \cup {Archived(q) : q \in Requests}]]
         /\ killed \in BOOLEAN
         /\ builder[b].at # "idle" => builder[b].request \in Requests /\ result[b] = "none"
         /\ builder[b].at \notin {"read", "write"} => builder[b].handle = NoFile
<1>1. /\ CacheTypes /\ Doing(b) /\ builder[b] \in BuilderRecord
      /\ DOMAIN c_file = Builders /\ DOMAIN disturbed = Builders
      /\ result \in [Builders -> {"none", "ok", "failed"}]
      /\ builder \in [Builders -> BuilderRecord] /\ atimes \in Seq(CacheNames)
      /\ directory \in [CacheNames -> Inodes \cup {NoFile}]
      /\ contents \in [Inodes -> [1 .. Blocks -> {File("none")} \cup {Archived(q) : q \in Requests}]]
      /\ killed \in BOOLEAN
  BY DEF CacheInv, CacheTypes
<1>2. builder[b].at # "idle" => builder[b].request \in Requests /\ result[b] = "none"
  BY <1>1 DEF Doing
<1>3. builder[b].at \notin {"read", "write"} => builder[b].handle = NoFile
  BY <1>1 DEF Doing
<1> QED BY <1>1, <1>2, <1>3

LEMMA LookupStep ==
  ASSUME CacheInv, NEW b \in Builders, LookupCache(b) PROVE CacheInv'
<1> DEFINE print == Fingerprint(builder[b].request)
           gz == [print |-> print, ext |-> "gz", tmp |-> FALSE]
           zip == [print |-> print, ext |-> "zip", tmp |-> FALSE]
           at == IF Exists(gz) \/ Exists(zip) THEN "touch" ELSE "compile"
           cached == IF Exists(gz) THEN gz ELSE IF Exists(zip) THEN zip ELSE NoFile
           r == [builder[b] EXCEPT !.at = at, !.cached = cached]
<1>2. builder[b].at = "lookup" /\ UNCHANGED <<directory, contents, killed, atimes, c_file, result, disturbed>>
  BY DEF LookupCache, cacheVars
<1>1. /\ Doing(b) /\ builder[b] \in BuilderRecord /\ builder[b].request \in Requests
      /\ builder[b].handle = NoFile /\ result[b] = "none"
  BY <1>2, ActsFrom
<1>3. builder' = [builder EXCEPT ![b] = r]
  BY ActsFrom DEF LookupCache, BuilderRecord
<1>5. gz \in CacheNames /\ zip \in CacheNames
  BY <1>1 DEF CacheNames
<1>6. cached \in CacheNames \cup {NoFile}
  BY <1>5
<1>7. r \in BuilderRecord
  BY <1>1, <1>6 DEF BuilderRecord, BuilderPlaces
<1>8. r.at = at /\ r.cached = cached /\ r.handle = NoFile /\ r.request = builder[b].request
      /\ r.written = builder[b].written
  BY <1>1 DEF BuilderRecord
<1>9. at = "touch" => cached \in CacheNames /\ ~cached.tmp /\ cached.print = print
  BY <1>5
<1>10. at \in {"touch", "compile"}
  OBVIOUS
<1> HIDE DEF r, at, cached
<1>11. builder'[b] = r
  BY <1>3, ActsFrom
<1>12. Doing(b)'
  BY <1>1, <1>2, <1>8, <1>9, <1>10, <1>11 DEF Doing
<1> QED BY <1>1, <1>2, <1>3, <1>7, <1>8, <1>12, ActsFrom, ActsAlone

\* A build ends, which never leaves a handle behind.
LEMMA EndsRecord ==
  ASSUME CacheInv, NEW b \in Builders, NEW end \in {"none", "ok", "failed"}, Ends(b, end)
  PROVE  \E r \in BuilderRecord :
           /\ builder' = [builder EXCEPT ![b] = r] /\ builder'[b] = r
           /\ r.at = "idle" /\ r.handle = NoFile
           /\ end # "none" => r.request = builder[b].request
           /\ result' \in [Builders -> {"none", "ok", "failed"}] /\ result'[b] = end
           /\ \A v \in Builders \ {b} : result'[v] = result[v]
<1> DEFINE r == [Idle EXCEPT !.request = IF end = "none" THEN NoFile ELSE builder[b].request]
<1>1. builder[b] \in BuilderRecord /\ builder \in [Builders -> BuilderRecord]
      /\ result \in [Builders -> {"none", "ok", "failed"}]
  BY ActsFrom
<1>2. r \in BuilderRecord
  BY <1>1, IdleRecord DEF BuilderRecord
<1>3. r.at = "idle" /\ r.handle = NoFile /\ (end # "none" => r.request = builder[b].request)
  BY DEF Idle
<1>4. builder' = [builder EXCEPT ![b] = r] /\ result' = [result EXCEPT ![b] = end]
  BY DEF Ends
<1> HIDE DEF r
<1>5. builder'[b] = r /\ result'[b] = end /\ result' \in [Builders -> {"none", "ok", "failed"}]
      /\ \A v \in Builders \ {b} : result'[v] = result[v]
  BY <1>1, <1>4
<1> QED BY <1>2, <1>3, <1>4, <1>5

LEMMA EndsDoing ==
  ASSUME CacheInv, NEW b \in Builders, NEW end \in {"none", "ok", "failed"}, Ends(b, end),
         builder[b].at # "idle",
         end = "ok" /\ Compiles(builder[b].request) => c_file'[b] = Generated(builder[b].request)
  PROVE  Doing(b)'
<1>1. PICK r \in BuilderRecord :
           /\ builder'[b] = r
           /\ r.at = "idle" /\ r.handle = NoFile
           /\ end # "none" => r.request = builder[b].request
           /\ result'[b] = end
  BY EndsRecord
<1>2. builder[b].request \in Requests
  BY ActsFrom
<1> QED BY <1>1, <1>2 DEF Doing

LEMMA CleansUpRecord ==
  ASSUME CacheInv, NEW b \in Builders, CleansUp(b)
  PROVE  \E r \in BuilderRecord :
           /\ builder' = [builder EXCEPT ![b] = r] /\ builder'[b] = r
           /\ r.at = "listdir" /\ r.handle = NoFile /\ r.request = builder[b].request
<1> DEFINE r == [Idle EXCEPT !.at = "listdir", !.request = builder[b].request]
<1>1. builder[b] \in BuilderRecord /\ builder \in [Builders -> BuilderRecord]
  BY ActsFrom
<1>2. r \in BuilderRecord
  BY <1>1, IdleRecord DEF BuilderRecord, BuilderPlaces
<1>3. r.at = "listdir" /\ r.handle = NoFile /\ r.request = builder[b].request
  BY DEF Idle
<1>4. builder' = [builder EXCEPT ![b] = r]
  BY DEF CleansUp
<1> HIDE DEF r
<1> QED BY <1>1, <1>2, <1>3, <1>4

LEMMA CleansUpDoing ==
  ASSUME CacheInv, NEW b \in Builders, CleansUp(b), builder[b].at # "idle", result'[b] = result[b],
         Compiles(builder[b].request) => c_file'[b] = Generated(builder[b].request)
  PROVE  Doing(b)'
<1>1. PICK r \in BuilderRecord :
           /\ builder'[b] = r
           /\ r.at = "listdir" /\ r.handle = NoFile /\ r.request = builder[b].request
  BY CleansUpRecord
<1>2. builder[b].request \in Requests /\ result[b] = "none"
  BY ActsFrom
<1> QED BY <1>1, <1>2 DEF Doing

\* A step that ends a build, or a file operation on the cache that fails.
LEMMA EndsAlone ==
  ASSUME CacheInv, NEW b \in Builders, NEW end \in {"none", "ok", "failed"}, Ends(b, end),
         UNCHANGED <<directory, contents, killed, atimes, c_file, disturbed>>,
         builder[b].at \notin {"idle", "write"},
         end = "ok" /\ Compiles(builder[b].request) => c_file[b] = Generated(builder[b].request)
  PROVE  CacheInv'
<1>1. PICK r \in BuilderRecord :
           /\ builder' = [builder EXCEPT ![b] = r] /\ builder'[b] = r
           /\ r.at = "idle" /\ r.handle = NoFile
           /\ result' \in [Builders -> {"none", "ok", "failed"}] /\ result'[b] = end
           /\ \A v \in Builders \ {b} : result'[v] = result[v]
  BY EndsRecord
<1>2. Doing(b)'
  BY EndsDoing
<1> QED BY <1>1, <1>2, ActsFrom, ActsAlone

LEMMA ReclaimKeeps ==
  ASSUME CacheInv, Reclaim
  PROVE  /\ contents' \in [Inodes -> [1 .. Blocks -> {File("none")} \cup {Archived(q) : q \in Requests}]]
         /\ \A i \in InUse' \cap Inodes : contents'[i] = contents[i]
<1>1. contents \in [Inodes -> [1 .. Blocks -> {File("none")} \cup {Archived(q) : q \in Requests}]]
  BY DEF CacheInv, CacheTypes
<1> QED BY <1>1 DEF Reclaim, Blank

LEMMA UsedIs ==
  ASSUME CacheInv, NEW n \in CacheNames
  PROVE  Used(n) \in Seq(CacheNames)
<1>1. atimes \in Seq(CacheNames)
  BY ActsFrom DEF CacheInv, CacheTypes
<1>2. Only(atimes, CacheNames \ {n}) \in Seq(CacheNames)
  BY <1>1, OnlyIs
<1> QED BY <1>2 DEF Used

\* A build ends with a step that may take names away.
LEMMA EndsMoved ==
  ASSUME CacheInv, NEW b \in Builders, NEW end \in {"none", "ok", "failed"}, Ends(b, end),
         builder[b].at # "idle", Reclaim, Moved,
         directory' \in [CacheNames -> Inodes \cup {NoFile}], atimes' \in Seq(CacheNames),
         DOMAIN c_file' = Builders, \A v \in Builders \ {b} : c_file'[v] = c_file[v],
         disturbed' = disturbed, killed' \in BOOLEAN,
         killed' \/ (killed' = killed /\ builder[b].at # "write"),
         end = "ok" /\ Compiles(builder[b].request) => c_file'[b] = Generated(builder[b].request)
  PROVE  CacheInv'
<1>1. PICK r \in BuilderRecord :
           /\ builder' = [builder EXCEPT ![b] = r] /\ builder'[b] = r
           /\ r.at = "idle" /\ r.handle = NoFile
           /\ result' \in [Builders -> {"none", "ok", "failed"}] /\ result'[b] = end
           /\ \A v \in Builders \ {b} : result'[v] = result[v]
  BY EndsRecord
<1>2. Doing(b)'
  BY EndsDoing
<1>3. DOMAIN disturbed' = Builders
  BY ActsFrom
<1> QED BY <1>1, <1>2, <1>3, ReclaimKeeps, ActsMoved

LEMMA CleansUpMoved ==
  ASSUME CacheInv, NEW b \in Builders, CleansUp(b), result' = result,
         builder[b].at \notin {"idle", "write"}, Reclaim, Moved,
         directory' \in [CacheNames -> Inodes \cup {NoFile}], atimes' \in Seq(CacheNames),
         DOMAIN c_file' = Builders, \A v \in Builders \ {b} : c_file'[v] = c_file[v],
         disturbed' = disturbed, killed' = killed,
         Compiles(builder[b].request) => c_file'[b] = Generated(builder[b].request)
  PROVE  CacheInv'
<1>1. PICK r \in BuilderRecord :
           /\ builder' = [builder EXCEPT ![b] = r] /\ builder'[b] = r
           /\ r.at = "listdir" /\ r.handle = NoFile /\ r.request = builder[b].request
  BY CleansUpRecord
<1>2. Doing(b)'
  BY CleansUpDoing
<1>3. DOMAIN disturbed' = Builders /\ killed' \in BOOLEAN
      /\ result' \in [Builders -> {"none", "ok", "failed"}]
      /\ \A v \in Builders \ {b} : result'[v] = result[v]
  BY ActsFrom
<1> QED BY <1>1, <1>2, <1>3, ReclaimKeeps, ActsMoved

LEMMA NothingMoved ==
  ASSUME CacheInv, directory' = directory
  PROVE  Moved /\ Listing' = Listing /\ directory' \in [CacheNames -> Inodes \cup {NoFile}]
<1>1. Listing' = Listing
  BY DEF Listing, Exists
<1> QED BY <1>1 DEF CacheInv, CacheTypes, Links, Moved

LEMMA TouchStep ==
  ASSUME CacheInv, NEW b \in Builders, TouchEntry(b) PROVE CacheInv'
<1>1. /\ builder[b].at = "touch" /\ UNCHANGED <<directory, contents, c_file, killed, disturbed>>
      /\ \/ atimes' = Used(builder[b].cached) /\ Steps(b, "open") /\ UNCHANGED result
         \/ Ends(b, "failed") /\ UNCHANGED atimes
  BY DEF TouchEntry
<1>2. CASE Ends(b, "failed") /\ UNCHANGED atimes
  <2>1. UNCHANGED <<directory, contents, killed, atimes, c_file, disturbed>>
    BY <1>1, <1>2
  <2> QED BY <1>1, <1>2, <2>1, EndsAlone
<1>3. CASE atimes' = Used(builder[b].cached) /\ Steps(b, "open") /\ UNCHANGED result
  <2> DEFINE r == [builder[b] EXCEPT !.at = "open"]
  <2>1. /\ Doing(b) /\ builder[b] \in BuilderRecord /\ builder[b].handle = NoFile
        /\ builder \in [Builders -> BuilderRecord] /\ result[b] = "none"
    BY <1>1, ActsFrom
  <2>2. builder[b].cached \in CacheNames
    BY <1>1, <2>1 DEF Doing
  <2>3. atimes' \in Seq(CacheNames)
    BY <1>3, <2>2, UsedIs
  <2>4. r \in BuilderRecord
    BY <2>1 DEF BuilderRecord, BuilderPlaces
  <2>5. /\ r.at = "open" /\ r.handle = NoFile /\ r.request = builder[b].request
        /\ r.cached = builder[b].cached
    BY <2>1 DEF BuilderRecord
  <2>6. builder' = [builder EXCEPT ![b] = r]
    BY <1>3, <2>1 DEF Steps
  <2> HIDE DEF r
  <2>7. builder'[b] = r
    BY <2>1, <2>6
  <2>8. Doing(b)'
    BY <1>1, <1>3, <2>1, <2>5, <2>7 DEF Doing
  <2> QED BY <1>1, <1>3, <2>3, <2>4, <2>5, <2>6, <2>8, ActsFrom, ActsAlone
<1> QED BY <1>1, <1>2, <1>3

LEMMA CompileStep ==
  ASSUME CacheInv, NEW b \in Builders, Compile(b) PROVE CacheInv'
<1> DEFINE file == IF Compiles(builder[b].request) THEN Generated(builder[b].request)
                   ELSE IF c_file[b].is = "none" THEN c_file[b] ELSE File("#error")
           r == [builder[b] EXCEPT !.at = "store", !.cached = EntryName(builder[b].request)]
<1>1. builder[b].at = "compile" /\ UNCHANGED <<directory, contents, atimes, result, killed, disturbed>>
  BY DEF Compile, cacheVars
<1>2. /\ Doing(b) /\ builder[b] \in BuilderRecord /\ builder[b].handle = NoFile
      /\ builder \in [Builders -> BuilderRecord] /\ result[b] = "none" /\ DOMAIN c_file = Builders
      /\ builder[b].request \in Requests
  BY <1>1, ActsFrom
<1>3. c_file' = [c_file EXCEPT ![b] = file]
  BY <1>2 DEF Compile
<1>4. builder' = [builder EXCEPT ![b] = r]
  BY <1>2 DEF Compile, BuilderRecord
<1>5. r \in BuilderRecord
  BY <1>2, EntryNameOf DEF BuilderRecord, BuilderPlaces
<1>6. /\ r.at = "store" /\ r.handle = NoFile /\ r.request = builder[b].request
      /\ r.cached = EntryName(builder[b].request) /\ r.written = builder[b].written
  BY <1>2 DEF BuilderRecord
<1>7. builder[b].written = 0
  BY <1>1, <1>2 DEF Doing
<1> HIDE DEF r
<1>8. DOMAIN c_file' = Builders /\ \A v \in Builders \ {b} : c_file'[v] = c_file[v]
  BY <1>2, <1>3
<1>9. Compiles(builder[b].request) => c_file'[b] = Generated(builder[b].request)
  BY <1>2, <1>3
<1>10. builder'[b] = r
  BY <1>2, <1>4
<1>11. Doing(b)'
  BY <1>1, <1>2, <1>6, <1>7, <1>9, <1>10 DEF Doing
<1>12. atimes' \in Seq(CacheNames) /\ DOMAIN disturbed' = Builders
       /\ result' \in [Builders -> {"none", "ok", "failed"}]
       /\ \A v \in Builders \ {b} : result'[v] = result[v]
  BY <1>1, ActsFrom
<1> QED BY <1>1, <1>4, <1>5, <1>6, <1>8, <1>11, <1>12, ActsAlone

LEMMA ListStep ==
  ASSUME CacheInv, NEW b \in Builders, ListCache(b) PROVE CacheInv'
<1>1. /\ builder[b].at = "listdir" /\ UNCHANGED <<directory, contents, atimes, c_file, killed, disturbed>>
      /\ \/ Ends(b, "ok")
         \/ /\ builder' = [builder EXCEPT ![b].at = "stat", ![b].files = Only(atimes, Listing)]
            /\ UNCHANGED result
  BY DEF ListCache, cacheVars
<1>2. /\ Doing(b) /\ builder[b] \in BuilderRecord /\ builder[b].handle = NoFile
      /\ builder \in [Builders -> BuilderRecord] /\ result[b] = "none" /\ atimes \in Seq(CacheNames)
      /\ builder[b].request \in Requests
  BY <1>1, ActsFrom
<1>3. Compiles(builder[b].request) => c_file[b] = Generated(builder[b].request)
  BY <1>1, <1>2 DEF Doing
<1>4. CASE Ends(b, "ok")
  BY <1>1, <1>3, <1>4, EndsAlone
<1>5. CASE /\ builder' = [builder EXCEPT ![b].at = "stat", ![b].files = Only(atimes, Listing)]
           /\ UNCHANGED result
  <2> DEFINE r == [builder[b] EXCEPT !.at = "stat", !.files = Only(atimes, Listing)]
  <2>1. builder' = [builder EXCEPT ![b] = r]
    BY <1>2, <1>5 DEF BuilderRecord
  <2>2. r \in BuilderRecord
    BY <1>2, OnlyIs DEF BuilderRecord, BuilderPlaces
  <2>3. r.at = "stat" /\ r.handle = NoFile /\ r.request = builder[b].request
    BY <1>2 DEF BuilderRecord
  <2> HIDE DEF r
  <2>4. builder'[b] = r
    BY <1>2, <2>1
  <2>5. Doing(b)'
    BY <1>1, <1>2, <1>3, <1>5, <2>3, <2>4 DEF Doing
  <2> QED BY <1>1, <1>5, <2>1, <2>2, <2>3, <2>5, ActsFrom, ActsAlone
<1> QED BY <1>1, <1>4, <1>5

LEMMA ReverseIs ==
  ASSUME NEW T, NEW s \in Seq(T)
  PROVE  /\ Reverse(s) \in Seq(T) /\ Len(Reverse(s)) = Len(s) /\ ToSet(Reverse(s)) = ToSet(s)
         /\ IsInjective(s) => IsInjective(Reverse(s))
<1>1. Len(s) \in Nat /\ DOMAIN s = 1 .. Len(s) /\ \A i \in 1 .. Len(s) : s[i] \in T
  BY LenProperties
<1>2. Reverse(s) = [i \in 1 .. Len(s) |-> s[(Len(s) - i) + 1]]
  BY DEF Reverse
<1>3. /\ Reverse(s) \in Seq(T) /\ Len(Reverse(s)) = Len(s) /\ DOMAIN Reverse(s) = 1 .. Len(s)
      /\ \A i \in 1 .. Len(s) : Reverse(s)[i] = s[(Len(s) - i) + 1]
  <2>1. \A i \in 1 .. Len(s) : s[(Len(s) - i) + 1] \in T
    BY <1>1
  <2> QED BY <1>1, <1>2, <2>1
<1>4. ToSet(Reverse(s)) \subseteq ToSet(s)
  BY <1>1, <1>3 DEF ToSet
<1>5. \A i \in 1 .. Len(s) : s[i] = Reverse(s)[(Len(s) - i) + 1] /\ (Len(s) - i) + 1 \in 1 .. Len(s)
  BY <1>1, <1>3
<1>6. ToSet(s) \subseteq ToSet(Reverse(s))
  BY <1>1, <1>3, <1>5 DEF ToSet
<1>7. ASSUME IsInjective(s) PROVE IsInjective(Reverse(s))
  <2> SUFFICES ASSUME NEW i \in 1 .. Len(s), NEW j \in 1 .. Len(s), Reverse(s)[i] = Reverse(s)[j]
               PROVE  i = j
    BY <1>3 DEF IsInjective
  <2>1. (Len(s) - i) + 1 = (Len(s) - j) + 1
    BY <1>1, <1>3, <1>7 DEF IsInjective
  <2> QED BY <1>1, <2>1
<1> QED BY <1>3, <1>4, <1>6, <1>7

LEMMA LastUsed ==
  ASSUME CacheInv
  PROVE  \A names : /\ Only(atimes, names) \in Seq(CacheNames)
                    /\ ToSet(Only(atimes, names)) = ToSet(atimes) \cap names
                    /\ IsInjective(atimes) => IsInjective(Only(atimes, names))
<1> TAKE names
<1>1. atimes \in Seq(CacheNames)
  BY DEF CacheInv, CacheTypes
<1> QED BY ONLY <1>1, OnlyIs

LEMMA StatStep ==
  ASSUME CacheInv, Ordered, NEW b \in Builders, StatCache(b) PROVE CacheInv'
<1> DEFINE files == builder[b].files
           evicted == Reverse(Only(atimes, ToSet(files)))
<1>1. /\ builder[b].at = "stat" /\ UNCHANGED <<directory, contents, atimes, c_file, killed, disturbed>>
      /\ \/ Ends(b, "ok")
         \/ Ends(b, "failed")
         \/ /\ Len(files) > CacheSize
            /\ builder' = [builder EXCEPT ![b].at = "evict", ![b].total = Len(files),
                                          ![b].files = evicted]
            /\ UNCHANGED result
            /\ \A i \in DOMAIN files : Exists(files[i])
  <2> HIDE DEF evicted
  <2>1. builder[b].at = "stat" /\ UNCHANGED <<directory, contents, atimes, c_file, killed, disturbed>>
    BY DEF StatCache, cacheVars
  <2>2. \/ Ends(b, "ok")
        \/ Ends(b, "failed")
        \/ /\ Len(files) > CacheSize
           /\ builder' = [builder EXCEPT ![b].at = "evict", ![b].total = Len(files),
                                         ![b].files = evicted]
           /\ UNCHANGED result
           /\ \A i \in DOMAIN files : Exists(files[i])
    BY DEF StatCache, evicted
  <2> QED BY <2>1, <2>2
<1>2. /\ Doing(b) /\ builder[b] \in BuilderRecord /\ builder[b].handle = NoFile
      /\ builder \in [Builders -> BuilderRecord] /\ result[b] = "none"
      /\ builder[b].request \in Requests
  BY <1>1, ActsFrom
<1>3. Compiles(builder[b].request) => c_file[b] = Generated(builder[b].request)
  BY <1>1, <1>2 DEF Doing
<1>4. CASE Ends(b, "ok")
  BY <1>1, <1>3, <1>4, EndsAlone
<1>5. CASE Ends(b, "failed")
  BY <1>1, <1>5, EndsAlone
<1>6. CASE /\ Len(files) > CacheSize
           /\ builder' = [builder EXCEPT ![b].at = "evict", ![b].total = Len(files),
                                         ![b].files = evicted]
           /\ UNCHANGED result
           /\ \A i \in DOMAIN files : Exists(files[i])
  <2>1. files \in Seq(CacheNames)
    BY <1>2 DEF BuilderRecord
  <2>2. Len(files) \in Nat /\ files # <<>>
    <3>1. Len(files) > CacheSize
      BY <1>6
    <3> HIDE DEF files
    <3>2. Len(files) \in Nat
      BY <2>1
    <3>3. Len(files) # 0
      BY <3>1, <3>2, CacheSizeAssumption
    <3> QED BY <3>2, <3>3
  <2>3. /\ Only(atimes, ToSet(files)) \in Seq(CacheNames)
        /\ ToSet(Only(atimes, ToSet(files))) = ToSet(atimes) \cap ToSet(files)
    BY LastUsed
  <2>4. evicted \in Seq(CacheNames) /\ ToSet(evicted) = ToSet(atimes) \cap ToSet(files)
    BY <2>3, ReverseIs
  <2>5. evicted # <<>>
    <3>0. 1 \in DOMAIN files
      <4> HIDE DEF files
      <4> QED BY <2>1, <2>2, EmptySeq, LenProperties
    <3>1. files[1] \in ToSet(files) /\ files[1] \in CacheNames
      <4> HIDE DEF files
      <4> QED BY <2>1, <3>0, LenProperties DEF ToSet
    <3>2. files[1] \in Listing
      <4> HIDE DEF evicted, files
      <4> QED BY <1>6, <3>0, <3>1 DEF Listing
    <3>3. ToSet(<<>>) = {}
      BY DEF ToSet
    <3>4. files[1] \in ToSet(evicted)
      BY <2>4, <3>1, <3>2 DEF Ordered
    <3> HIDE DEF evicted
    <3> QED BY <3>3, <3>4
  <2> HIDE DEF evicted
  <2> DEFINE r == [builder[b] EXCEPT !.at = "evict", !.total = Len(files), !.files = evicted]
  <2>6. builder' = [builder EXCEPT ![b] = r]
    BY <1>2, <1>6 DEF BuilderRecord
  <2>7. r \in BuilderRecord
    BY <1>2, <2>2, <2>4 DEF BuilderRecord, BuilderPlaces
  <2>8. r.at = "evict" /\ r.handle = NoFile /\ r.request = builder[b].request /\ r.files = evicted
    BY <1>2 DEF BuilderRecord
  <2> HIDE DEF r
  <2>9. builder'[b] = r
    BY <1>2, <2>6
  <2>10. Doing(b)'
    BY <1>1, <1>2, <1>3, <1>6, <2>5, <2>8, <2>9 DEF Doing
  <2> QED BY <1>1, <1>6, <2>6, <2>7, <2>8, <2>10, ActsFrom, ActsAlone
<1> QED BY <1>1, <1>4, <1>5, <1>6

\* A name that is taken away moves nothing else.
LEMMA OneUnlinked ==
  ASSUME CacheInv, NEW file, directory' = [directory EXCEPT ![file] = NoFile]
  PROVE  Moved /\ directory' \in [CacheNames -> Inodes \cup {NoFile}]
<1>1. directory \in [CacheNames -> Inodes \cup {NoFile}]
  BY DEF CacheInv, CacheTypes
<1>2. \A n \in Listing' : n \in Listing /\ directory'[n] = directory[n]
  BY <1>1 DEF Listing, Exists
<1> QED BY <1>1, <1>2 DEF Moved, CacheInv, Links

LEMMA EvictStep ==
  ASSUME CacheInv, NEW b \in Builders, EvictFile(b) PROVE CacheInv'
<1> DEFINE file == Head(builder[b].files)
<1>1. /\ builder[b].at = "evict" /\ UNCHANGED <<c_file, killed, disturbed>> /\ Reclaim
      /\ \/ /\ directory' = [directory EXCEPT ![file] = NoFile]
            /\ atimes' = Only(atimes, CacheNames \ {file})
            /\ Ends(b, "ok")
         \/ /\ directory' = [directory EXCEPT ![file] = NoFile]
            /\ atimes' = Only(atimes, CacheNames \ {file})
            /\ ~ (builder[b].total - 1 < CacheKeep) /\ Len(builder[b].files) # 1
            /\ builder' = [builder EXCEPT ![b].total = @ - 1, ![b].files = Tail(@)]
            /\ UNCHANGED result
         \/ Ends(b, "failed") /\ UNCHANGED <<directory, atimes>>
  BY DEF EvictFile
<1>2. /\ Doing(b) /\ builder[b] \in BuilderRecord /\ builder[b].handle = NoFile
      /\ builder \in [Builders -> BuilderRecord] /\ result[b] = "none"
      /\ builder[b].request \in Requests /\ atimes \in Seq(CacheNames) /\ killed \in BOOLEAN
      /\ DOMAIN c_file = Builders
  BY <1>1, ActsFrom
<1>3. Compiles(builder[b].request) => c_file[b] = Generated(builder[b].request)
  BY <1>1, <1>2 DEF Doing
<1>4. ASSUME directory' = [directory EXCEPT ![file] = NoFile],
             atimes' = Only(atimes, CacheNames \ {file})
      PROVE  /\ Moved /\ directory' \in [CacheNames -> Inodes \cup {NoFile}]
             /\ atimes' \in Seq(CacheNames)
  <2> HIDE DEF file
  <2>1. atimes' \in Seq(CacheNames)
    BY <1>2, <1>4, OnlyIs
  <2> QED BY <1>4, <2>1, OneUnlinked
<1>5. CASE Ends(b, "failed") /\ UNCHANGED <<directory, atimes>>
  <2>1. directory' = directory
    BY <1>5
  <2>2. Moved /\ directory' \in [CacheNames -> Inodes \cup {NoFile}]
    BY <2>1, NothingMoved
  <2> QED BY <1>1, <1>2, <1>5, <2>2, EndsMoved
<1>6. CASE /\ directory' = [directory EXCEPT ![file] = NoFile]
           /\ atimes' = Only(atimes, CacheNames \ {file})
           /\ Ends(b, "ok")
  <2>1. /\ Moved /\ directory' \in [CacheNames -> Inodes \cup {NoFile}]
        /\ atimes' \in Seq(CacheNames)
    BY <1>4, <1>6
  <2> QED BY <1>1, <1>2, <1>3, <1>6, <2>1, EndsMoved
<1>7. CASE /\ directory' = [directory EXCEPT ![file] = NoFile]
           /\ atimes' = Only(atimes, CacheNames \ {file})
           /\ ~ (builder[b].total - 1 < CacheKeep) /\ Len(builder[b].files) # 1
           /\ builder' = [builder EXCEPT ![b].total = @ - 1, ![b].files = Tail(@)]
           /\ UNCHANGED result
  <2>1. /\ Moved /\ directory' \in [CacheNames -> Inodes \cup {NoFile}]
        /\ atimes' \in Seq(CacheNames)
    BY <1>4, <1>7
  <2> DEFINE files == builder[b].files
             r == [builder[b] EXCEPT !.total = builder[b].total - 1, !.files = Tail(files)]
  <2>2. files \in Seq(CacheNames) /\ files # <<>> /\ builder[b].total \in Nat
    BY <1>1, <1>2 DEF Doing, BuilderRecord
  <2>3. Tail(files) \in Seq(CacheNames) /\ Tail(files) # <<>>
    <3>1. Len(files) # 1
      BY <1>7
    <3> HIDE DEF files
    <3>2. Len(files) \in Nat \ {0}
      BY <2>2, EmptySeq
    <3>3. Tail(files) \in Seq(CacheNames) /\ Len(Tail(files)) = Len(files) - 1
      BY <2>2, HeadTailProperties
    <3>4. Len(Tail(files)) # 0
      BY <3>1, <3>2, <3>3
    <3> DEFINE rest == Tail(files)
    <3>5. rest # <<>>
      <4>1. Len(rest) # 0
        BY <3>4
      <4> HIDE DEF rest
      <4> QED BY <4>1, EmptySeq
    <3> QED BY <3>3, <3>5
  <2>4. builder[b].total - 1 \in Nat
    BY <1>7, <2>2, CacheSizeAssumption
  <2>5. builder' = [builder EXCEPT ![b] = r]
    BY <1>2, <1>7 DEF BuilderRecord
  <2>6. r \in BuilderRecord
    BY <1>2, <2>3, <2>4 DEF BuilderRecord
  <2>7. r.at = "evict" /\ r.handle = NoFile /\ r.request = builder[b].request /\ r.files = Tail(files)
    BY <1>1, <1>2 DEF BuilderRecord
  <2> HIDE DEF r
  <2>8. builder'[b] = r
    BY <1>2, <2>5
  <2>9. Doing(b)'
    BY <1>1, <1>2, <1>3, <1>7, <2>3, <2>7, <2>8 DEF Doing
  <2>10. /\ DOMAIN disturbed' = Builders /\ result' \in [Builders -> {"none", "ok", "failed"}]
         /\ \A v \in Builders \ {b} : result'[v] = result[v]
    BY <1>1, <1>7, ActsFrom
  <2> QED BY <1>1, <1>2, <2>1, <2>5, <2>6, <2>7, <2>9, <2>10, ReclaimKeeps, ActsMoved
<1> QED BY <1>1, <1>5, <1>6, <1>7

LEMMA KillStep ==
  ASSUME CacheInv, NEW b \in Builders, KillBuilder(b) PROVE CacheInv'
<1>1. /\ builder[b].at # "idle" /\ Ends(b, "none") /\ killed' = TRUE
      /\ UNCHANGED <<directory, atimes, c_file, disturbed>> /\ Reclaim
  BY DEF KillBuilder
<1>2. Moved /\ directory' \in [CacheNames -> Inodes \cup {NoFile}]
  BY <1>1, NothingMoved
<1>3. DOMAIN c_file = Builders /\ atimes \in Seq(CacheNames)
  BY ActsFrom
<1> QED BY <1>1, <1>2, <1>3, EndsMoved

\* What a reader of a complete archive copies is what it asked for.
LEMMA ReadIs ==
  ASSUME CacheInv, OneSetting, NEW b \in Builders, builder[b].at = "read",
         Complete(builder[b].handle)
  PROVE  contents[builder[b].handle][1] = Archived(builder[b].request)
<1>1. Doing(b) /\ builder[b].request \in Requests
  BY ActsFrom
<1>2. builder[b].handle # NoFile /\ builder[b].cached.print = Fingerprint(builder[b].request)
  BY <1>1 DEF Doing
<1>3. Stores(builder[b].handle, builder[b].cached.print)
  BY <1>2 DEF CacheInv, Links
<1>4. Archived(builder[b].request) = Holds(builder[b].cached.print)
  BY <1>1, <1>2, HoldsArchived
<1>5. 1 \in 1 .. Blocks
  BY CacheSizeAssumption
<1>6. contents[builder[b].handle][1] # File("none")
  BY DEF Complete, File
<1> QED BY <1>3, <1>4, <1>5, <1>6 DEF Stores

LEMMA ReadStep ==
  ASSUME CacheInv, OneSetting, NEW b \in Builders, ReadEntry(b) PROVE CacheInv'
<1> DEFINE blocks == contents[builder[b].handle]
           file == IF blocks[1].is = "empty" THEN c_file ELSE [c_file EXCEPT ![b] = blocks[1]]
<1>1. /\ builder[b].at = "read" /\ UNCHANGED <<directory, atimes, killed, disturbed>> /\ Reclaim
      /\ \/ Ends(b, "failed") /\ UNCHANGED c_file
         \/ /\ Complete(builder[b].handle) /\ c_file' = file
            /\ \/ Ends(b, "ok")
               \/ CleansUp(b) /\ UNCHANGED result
  BY DEF ReadEntry
<1>2. /\ DOMAIN c_file = Builders /\ atimes \in Seq(CacheNames) /\ killed \in BOOLEAN
      /\ builder[b].request \in Requests
  BY <1>1, ActsFrom
<1>3. Moved /\ directory' \in [CacheNames -> Inodes \cup {NoFile}]
  BY <1>1, NothingMoved
<1>4. CASE Ends(b, "failed") /\ UNCHANGED c_file
  BY <1>1, <1>2, <1>3, <1>4, EndsMoved
<1>5. CASE Complete(builder[b].handle) /\ c_file' = file
  <2>1. blocks[1] = Archived(builder[b].request)
    BY <1>1, <1>5, ReadIs
  <2>2. DOMAIN c_file' = Builders /\ \A v \in Builders \ {b} : c_file'[v] = c_file[v]
    BY <1>2, <1>5
  <2>3. Compiles(builder[b].request) => c_file'[b] = Generated(builder[b].request)
    <3> SUFFICES ASSUME Compiles(builder[b].request) PROVE c_file'[b] = Generated(builder[b].request)
      OBVIOUS
    <3>1. blocks[1] = Generated(builder[b].request)
      BY <2>1 DEF Archived
    <3> HIDE DEF blocks
    <3>4. Generated(builder[b].request).is = "c file"
      BY DEF Generated
    <3>2. blocks[1].is = "c file"
      BY <3>1, <3>4
    <3>3. c_file' = [c_file EXCEPT ![b] = blocks[1]]
      BY <1>5, <3>2
    <3> QED BY <1>2, <3>1, <3>3
  <2>4. CASE Ends(b, "ok")
    BY <1>1, <1>2, <1>3, <2>2, <2>3, <2>4, EndsMoved
  <2>5. CASE CleansUp(b) /\ UNCHANGED result
    BY <1>1, <1>2, <1>3, <2>2, <2>3, <2>5, CleansUpMoved
  <2> QED BY <1>1, <1>4, <1>5, <2>4, <2>5
<1> QED BY <1>1, <1>4, <1>5

LEMMA RenameStep ==
  ASSUME CacheInv, NEW b \in Builders, RenameTmp(b) PROVE CacheInv'
<1> DEFINE entry == builder[b].cached
           tmp == TmpOf(entry)
<1>1. /\ builder[b].at = "rename" /\ UNCHANGED <<c_file, killed, disturbed>> /\ Reclaim
      /\ \/ /\ Exists(tmp)
            /\ directory' = [directory EXCEPT ![entry] = directory[tmp], ![tmp] = NoFile]
            /\ atimes' = Append(Only(atimes, CacheNames \ {tmp, entry}), entry)
            /\ \/ Ends(b, IF Compiles(builder[b].request) THEN "ok" ELSE "failed")
               \/ CleansUp(b) /\ UNCHANGED result
         \/ Ends(b, "failed") /\ UNCHANGED <<directory, atimes>>
  BY DEF RenameTmp
<1>2. /\ DOMAIN c_file = Builders /\ atimes \in Seq(CacheNames) /\ killed \in BOOLEAN
      /\ builder[b].request \in Requests /\ Doing(b)
      /\ directory \in [CacheNames -> Inodes \cup {NoFile}]
  BY <1>1, ActsFrom
<1>3. Compiles(builder[b].request) => c_file[b] = Generated(builder[b].request)
  BY <1>1, <1>2 DEF Doing
<1>4. CASE Ends(b, "failed") /\ UNCHANGED <<directory, atimes>>
  <2>1. Moved /\ directory' \in [CacheNames -> Inodes \cup {NoFile}]
    BY <1>4, NothingMoved
  <2> QED BY <1>1, <1>2, <1>4, <2>1, EndsMoved
<1>5. CASE /\ Exists(tmp)
           /\ directory' = [directory EXCEPT ![entry] = directory[tmp], ![tmp] = NoFile]
           /\ atimes' = Append(Only(atimes, CacheNames \ {tmp, entry}), entry)
  <2>1. entry = EntryName(builder[b].request)
    BY <1>1, <1>2 DEF Doing
  <2>2. /\ entry \in CacheNames /\ tmp \in CacheNames /\ entry # tmp
        /\ tmp.print = entry.print
    BY <1>2, <2>1, EntryNameOf
  <2> HIDE DEF entry, tmp
  <2>3. directory' \in [CacheNames -> Inodes \cup {NoFile}]
    BY <1>2, <1>5, <2>2
  <2>4. \A n \in Listing' : IF n = entry THEN directory'[n] = directory[tmp]
                            ELSE n # tmp /\ n \in Listing /\ directory'[n] = directory[n]
    BY <1>2, <1>5, <2>2 DEF Listing, Exists
  <2>5. tmp \in Listing
    BY <1>5, <2>2 DEF Listing
  <2>6. Moved
    BY <2>2, <2>4, <2>5 DEF Moved, CacheInv, Links
  <2>7. atimes' \in Seq(CacheNames)
    BY <1>5, <2>2, LastUsed
  <2>8. CASE Ends(b, IF Compiles(builder[b].request) THEN "ok" ELSE "failed")
    <3>1. CASE Compiles(builder[b].request)
      BY <1>1, <1>2, <1>3, <2>3, <2>6, <2>7, <2>8, <3>1, EndsMoved
    <3>2. CASE ~ Compiles(builder[b].request)
      BY <1>1, <1>2, <1>3, <2>3, <2>6, <2>7, <2>8, <3>2, EndsMoved
    <3> QED BY <3>1, <3>2
  <2>9. CASE CleansUp(b) /\ UNCHANGED result
    BY <1>1, <1>2, <1>3, <2>3, <2>6, <2>7, <2>9, CleansUpMoved
  <2> QED BY <1>1, <1>4, <1>5, <2>8, <2>9
<1> QED BY <1>1, <1>4, <1>5
\* The links of a builder that opens an inode.
LEMMA OpenStep ==
  ASSUME CacheInv, NEW b \in Builders, OpenEntry(b) PROVE CacheInv'
<1> DEFINE cached == builder[b].cached
           r == [builder[b] EXCEPT !.at = "read", !.handle = directory[cached]]
<1>1. /\ builder[b].at = "open" /\ UNCHANGED <<directory, contents, atimes, killed, disturbed>>
      /\ \/ Ends(b, "failed") /\ UNCHANGED c_file
         \/ /\ Exists(cached)
            /\ builder' = [builder EXCEPT ![b].at = "read", ![b].handle = directory[cached]]
            /\ c_file' = IF cached.ext = "gz" THEN [c_file EXCEPT ![b] = File("partial")] ELSE c_file
            /\ UNCHANGED result
  BY DEF OpenEntry, cacheVars
<1>2. /\ Doing(b) /\ builder[b] \in BuilderRecord /\ builder[b].handle = NoFile
      /\ builder \in [Builders -> BuilderRecord] /\ result[b] = "none" /\ atimes \in Seq(CacheNames)
      /\ builder[b].request \in Requests /\ DOMAIN c_file = Builders
      /\ directory \in [CacheNames -> Inodes \cup {NoFile}]
  BY <1>1, ActsFrom
<1>3. CASE Ends(b, "failed") /\ UNCHANGED c_file
  BY <1>1, <1>3, EndsAlone
<1>4. CASE /\ Exists(cached)
           /\ builder' = [builder EXCEPT ![b].at = "read", ![b].handle = directory[cached]]
           /\ c_file' = IF cached.ext = "gz" THEN [c_file EXCEPT ![b] = File("partial")] ELSE c_file
           /\ UNCHANGED result
  <2>1. cached \in CacheNames /\ ~cached.tmp /\ cached.print = Fingerprint(builder[b].request)
    BY <1>1, <1>2 DEF Doing
  <2>2. cached \in Listing /\ directory[cached] \in Inodes /\ directory[cached] # NoFile
    BY <1>2, <1>4, <2>1, CacheSizeAssumption DEF Listing, Exists
  <2>3. builder' = [builder EXCEPT ![b] = r]
    BY <1>2, <1>4 DEF BuilderRecord
  <2>4. r \in BuilderRecord
    BY <1>2, <2>2 DEF BuilderRecord, BuilderPlaces
  <2>5. /\ r.at = "read" /\ r.request = builder[b].request /\ r.cached = cached
        /\ r.handle = directory[cached]
    BY <1>2 DEF BuilderRecord
  <2> HIDE DEF r
  <2>6. DOMAIN c_file' = Builders /\ \A v \in Builders \ {b} : c_file'[v] = c_file[v]
    BY <1>2, <1>4
  <2>7. /\ result' \in [Builders -> {"none", "ok", "failed"}]
        /\ \A v \in Builders \ {b} : result'[v] = result[v]
        /\ DOMAIN disturbed' = Builders /\ killed' \in BOOLEAN /\ atimes' \in Seq(CacheNames)
        /\ directory' \in [CacheNames -> Inodes \cup {NoFile}]
        /\ contents' \in [Inodes -> [1 .. Blocks -> {File("none")} \cup {Archived(q) : q \in Requests}]]
    BY <1>1, <1>4, ActsFrom
  <2>8. /\ CacheTypes' /\ builder'[b] = r
        /\ \A v \in Builders \ {b} : Doing(v)' /\ builder'[v] = builder[v]
    BY <2>3, <2>4, <2>6, <2>7, Acts
  <2> HIDE DEF cached
  <2>9. Doing(b)'
    BY <1>1, <1>2, <1>4, <2>1, <2>2, <2>5, <2>8 DEF Doing
  <2>10. Listing' = Listing
    BY <1>1 DEF Listing, Exists
  <2>11. Links
    BY DEF CacheInv
  <2>12. \A m, n \in Listing' : directory'[m] = directory'[n] => m = n
    BY <1>1, <2>10, <2>11 DEF Links
  <2>13. \A n \in Listing' : Stores(directory[n], n.print)'
    BY <1>1, <2>10, <2>11 DEF Links, Stores
  <2>14. \A n \in Listing', v \in Builders :
           builder'[v].handle = directory'[n] => n.print = builder'[v].cached.print
    BY <1>1, <2>2, <2>5, <2>8, <2>10, <2>11 DEF Links
  <2>15. \A v \in Builders : builder'[v].handle # NoFile =>
           Stores(builder[v].handle, builder[v].cached.print)'
    BY <1>1, <2>2, <2>5, <2>8, <2>11 DEF Links, Stores
  <2>16. \A v, c \in Builders :
           builder'[v].handle # NoFile /\ builder'[c].handle = builder'[v].handle =>
             builder'[c].cached.print = builder'[v].cached.print
    BY <2>2, <2>5, <2>8, <2>11 DEF Links
  <2>17. Links'
    BY <2>12, <2>13, <2>14, <2>15, <2>16 DEF Links, Stores
  <2>18. Moved /\ killed' = killed /\ \A i \in InUse' \cap Inodes : contents'[i] = contents[i]
    BY <1>1, NothingMoved
  <2>19. \A v \in Builders : builder[v].at = "write" =>
              /\ builder'[v].at = "write" /\ builder'[v].handle = builder[v].handle
              /\ builder'[v].written = builder[v].written
    BY <1>1, <2>8
  <2>20. \A n \in Listing' : Whole(n)'
    BY <2>8, <2>18, <2>19, WholeMoved
  <2> QED BY <2>8, <2>9, <2>17, <2>20 DEF CacheInv
<1> QED BY <1>1, <1>3, <1>4

LEMMA OpenTmpStep ==
  ASSUME CacheInv, NEW b \in Builders, OpenTmp(b) PROVE CacheInv'
<1> DEFINE cached == builder[b].cached
           tmp == TmpOf(cached)
<1>1. builder[b].at = "store" /\ UNCHANGED <<c_file, result, killed, disturbed>>
  BY DEF OpenTmp
<1>2. PICK inode \in IF Exists(tmp) THEN {directory[tmp]} ELSE Inodes \ InUse :
         /\ directory' = [directory EXCEPT ![tmp] = inode]
         /\ contents' = [contents EXCEPT ![inode] = Blank]
         /\ atimes' = Used(tmp)
         /\ builder' = [builder EXCEPT ![b].at = "write", ![b].handle = inode]
  BY DEF OpenTmp
<1> DEFINE r == [builder[b] EXCEPT !.at = "write", !.handle = inode]
<1>3. /\ Doing(b) /\ builder[b] \in BuilderRecord /\ builder[b].handle = NoFile
      /\ builder \in [Builders -> BuilderRecord] /\ result[b] = "none"
      /\ builder[b].request \in Requests /\ DOMAIN c_file = Builders
      /\ directory \in [CacheNames -> Inodes \cup {NoFile}]
      /\ contents \in [Inodes -> [1 .. Blocks -> {File("none")} \cup {Archived(q) : q \in Requests}]]
      /\ CacheTypes
  BY <1>1, ActsFrom
<1>4. cached = EntryName(builder[b].request) /\ builder[b].written = 0
  BY <1>1, <1>3 DEF Doing
<1>5. cached \in CacheNames /\ tmp \in CacheNames /\ tmp.print = cached.print
  BY <1>3, <1>4, EntryNameOf
<1>6. builder' = [builder EXCEPT ![b] = r]
  BY <1>2, <1>3 DEF BuilderRecord
<1> HIDE DEF tmp
<1>7. /\ inode \in Inodes /\ inode # NoFile
      /\ \A n \in Listing : directory[n] = inode => n = tmp
      /\ \A v \in Builders : builder[v].handle = inode => builder[v].cached.print = cached.print
  <2>1. CASE Exists(tmp)
    <3>1. tmp \in Listing /\ inode = directory[tmp]
      BY <1>2, <1>5, <2>1 DEF Listing
    <3>2. inode \in Inodes /\ inode # NoFile
      BY <1>3, <3>1, ListingUse, CacheSizeAssumption
    <3>3. Links
      BY DEF CacheInv
    <3> QED BY <1>5, <3>1, <3>2, <3>3 DEF Links
  <2>2. CASE ~ Exists(tmp)
    <3>1. inode \in Inodes /\ inode \notin InUse
      BY <1>2, <2>2
    <3> QED BY <1>3, <3>1, ListingUse, CacheSizeAssumption
  <2> QED BY <2>1, <2>2
<1>8. r \in BuilderRecord
  BY <1>3, <1>7 DEF BuilderRecord, BuilderPlaces
<1>9. /\ r.at = "write" /\ r.request = builder[b].request /\ r.cached = cached
      /\ r.handle = inode /\ r.written = 0
  BY <1>3, <1>4 DEF BuilderRecord
<1> HIDE DEF r
<1>10. directory' \in [CacheNames -> Inodes \cup {NoFile}]
  BY <1>2, <1>3, <1>5, <1>7
<1>11. Blank \in [1 .. Blocks -> {File("none")} \cup {Archived(q) : q \in Requests}]
  BY DEF Blank
<1>12. contents' \in [Inodes -> [1 .. Blocks -> {File("none")} \cup {Archived(q) : q \in Requests}]]
  BY <1>2, <1>3, <1>7, <1>11
<1>13. atimes' \in Seq(CacheNames)
  BY <1>2, <1>5, UsedIs
<1>14. /\ result' \in [Builders -> {"none", "ok", "failed"}]
       /\ \A v \in Builders \ {b} : result'[v] = result[v] /\ c_file'[v] = c_file[v]
       /\ DOMAIN disturbed' = Builders /\ killed' \in BOOLEAN /\ DOMAIN c_file' = Builders
  BY <1>1, ActsFrom
<1>15. /\ CacheTypes' /\ builder'[b] = r
       /\ \A v \in Builders \ {b} : Doing(v)' /\ builder'[v] = builder[v]
  BY <1>6, <1>8, <1>10, <1>12, <1>13, <1>14, Acts
<1> HIDE DEF cached
<1>16. Doing(b)'
  BY <1>1, <1>3, <1>4, <1>7, <1>9, <1>15, CacheSizeAssumption DEF Doing
<1>17. /\ directory'[tmp] = inode
       /\ \A n \in Listing' : n # tmp => n \in Listing /\ directory'[n] = directory[n] /\ directory'[n] # inode
  BY <1>2, <1>3, <1>5, <1>7 DEF Listing, Exists
<1>18. /\ \A k \in 1 .. Blocks : contents'[inode][k] = File("none")
       /\ \A i \in Inodes \ {inode} : contents'[i] = contents[i]
  BY <1>2, <1>3, <1>7 DEF Blank
<1>19. Links
  BY DEF CacheInv
<1>20. \A n \in Listing : directory[n] \in Inodes
  BY <1>3, ListingUse
<1>21. \A m, n \in Listing' : directory'[m] = directory'[n] => m = n
  BY <1>17, <1>19 DEF Links
<1>22. \A n \in Listing' : Stores(directory[n], n.print)'
  <2> TAKE n \in Listing'
  <2>1. CASE n = tmp
    BY <1>17, <1>18, <2>1 DEF Stores
  <2>2. CASE n # tmp
    BY <1>17, <1>18, <1>19, <1>20, <2>2 DEF Links, Stores
  <2> QED BY <2>1, <2>2
<1>23. \A n \in Listing', v \in Builders :
         builder'[v].handle = directory'[n] => n.print = builder'[v].cached.print
  <2> TAKE n \in Listing', v \in Builders
  <2>1. CASE n = tmp
    BY <1>5, <1>7, <1>9, <1>15, <1>17, <2>1
  <2>2. CASE n # tmp
    BY <1>9, <1>15, <1>17, <1>19, <2>2 DEF Links
  <2> QED BY <2>1, <2>2
<1>24. \A v \in Builders : builder[v].handle # NoFile => builder[v].handle \in Inodes
  BY <1>3 DEF BuilderRecord
<1>25. \A v \in Builders : builder'[v].handle # NoFile =>
         Stores(builder[v].handle, builder[v].cached.print)'
  <2> SUFFICES ASSUME NEW v \in Builders, builder'[v].handle # NoFile
               PROVE  Stores(builder[v].handle, builder[v].cached.print)'
    OBVIOUS
  <2>1. CASE builder'[v].handle = inode
    BY <1>18, <2>1 DEF Stores
  <2>2. CASE builder'[v].handle # inode
    BY <1>9, <1>15, <1>18, <1>19, <1>24, <2>2 DEF Links, Stores
  <2> QED BY <2>1, <2>2
<1>26. \A v, c \in Builders :
         builder'[v].handle # NoFile /\ builder'[c].handle = builder'[v].handle =>
           builder'[c].cached.print = builder'[v].cached.print
  <2> TAKE v, c \in Builders
  <2>1. CASE builder'[v].handle = inode
    BY <1>7, <1>9, <1>15, <2>1
  <2>2. CASE builder'[v].handle # inode
    BY <1>9, <1>15, <1>19, <2>2 DEF Links
  <2> QED BY <2>1, <2>2
<1>27. Links'
  BY <1>21, <1>22, <1>23, <1>25, <1>26 DEF Links, Stores
<1>28. \A n \in Listing' : Whole(n)'
  <2> TAKE n \in Listing'
  <2>1. CASE n = tmp
    <3>1. Filled(inode, 0)'
      BY DEF Filled
    <3> QED BY <1>9, <1>15, <1>17, <2>1, <3>1 DEF Whole
  <2>2. CASE n # tmp
    <3>1. Whole(n) /\ directory'[n] = directory[n] /\ contents'[directory[n]] = contents[directory[n]]
      BY <1>17, <1>18, <1>20, <2>2 DEF CacheInv
    <3>2. \A k : Filled(directory[n], k) => Filled(directory[n], k)'
      BY <3>1 DEF Filled
    <3>3. \A v \in Builders : builder[v].at = "write" => builder'[v] = builder[v]
      BY <1>1, <1>15
    <3> QED BY <1>1, <3>1, <3>2, <3>3 DEF Whole
  <2> QED BY <2>1, <2>2
<1> QED BY <1>15, <1>16, <1>27, <1>28 DEF CacheInv

LEMMA WriteStep ==
  ASSUME CacheInv, OneSetting, NEW b \in Builders, WriteBlock(b) PROVE CacheInv'
<1> DEFINE h == builder[b].handle
           w == builder[b].written
           print == builder[b].cached.print
           full == w + 1 = Blocks
           r == [builder[b] EXCEPT !.at = IF full THEN "rename" ELSE "write",
                                   !.written = w + 1, !.handle = IF full THEN NoFile ELSE h]
<1>1. /\ builder[b].at = "write" /\ UNCHANGED <<directory, atimes, c_file, result, killed, disturbed>>
      /\ contents' = [contents EXCEPT ![h][w + 1] = Archived(builder[b].request)]
  BY DEF WriteBlock
<1>2. /\ Doing(b) /\ builder[b] \in BuilderRecord
      /\ builder \in [Builders -> BuilderRecord] /\ result[b] = "none"
      /\ builder[b].request \in Requests /\ DOMAIN c_file = Builders
      /\ contents \in [Inodes -> [1 .. Blocks -> {File("none")} \cup {Archived(q) : q \in Requests}]]
      /\ CacheTypes
  BY <1>1, ActsFrom
<1>3. /\ builder[b].cached = EntryName(builder[b].request) /\ w < Blocks /\ w \in Nat
      /\ h # NoFile /\ h \in Inodes
  BY <1>1, <1>2 DEF Doing, BuilderRecord
<1>4. Archived(builder[b].request) = Holds(print) /\ Archived(builder[b].request) # File("none")
  <2>1. print = Fingerprint(builder[b].request)
    BY <1>2, <1>3, EntryNameOf
  <2>2. Archived(builder[b].request) = Holds(Fingerprint(builder[b].request))
        /\ Archived(builder[b].request).is # "none"
    BY <1>2, HoldsArchived
  <2> QED BY <2>1, <2>2 DEF File
<1>5. builder' = [builder EXCEPT ![b] = r]
  BY <1>2 DEF WriteBlock, BuilderRecord
<1>6. r \in BuilderRecord
  <2> DEFINE at == IF full THEN "rename" ELSE "write"
             handle == IF full THEN NoFile ELSE h
  <2>1. at \in BuilderPlaces /\ handle \in Inodes \cup {NoFile}
    BY <1>3 DEF BuilderPlaces
  <2>2. w + 1 \in 0 .. Blocks
    <3> HIDE DEF w
    <3> QED BY <1>3, CacheSizeAssumption
  <2> HIDE DEF at, handle, full, h, w
  <2>3. [builder[b] EXCEPT !.at = at, !.written = w + 1, !.handle = handle] \in BuilderRecord
    BY <1>2, <2>1, <2>2 DEF BuilderRecord
  <2> QED BY <2>3 DEF at, handle
<1>7. /\ r.at = (IF full THEN "rename" ELSE "write") /\ r.written = w + 1
      /\ r.handle = (IF full THEN NoFile ELSE h) /\ r.request = builder[b].request
      /\ r.cached = builder[b].cached
  BY <1>2 DEF BuilderRecord
<1> HIDE DEF r
<1>8. /\ contents' \in [Inodes -> [1 .. Blocks -> {File("none")} \cup {Archived(q) : q \in Requests}]]
      /\ \A i \in Inodes \ {h} : contents'[i] = contents[i]
      /\ \A k \in 1 .. Blocks :
           contents'[h][k] = IF k = w + 1 THEN Archived(builder[b].request) ELSE contents[h][k]
  <2> HIDE DEF h, w
  <2>1. w + 1 \in 1 .. Blocks
    BY <1>3, CacheSizeAssumption
  <2> QED BY <1>1, <1>2, <1>3, <2>1
<1>9. /\ CacheTypes' /\ builder'[b] = r
      /\ \A v \in Builders \ {b} : Doing(v)' /\ builder'[v] = builder[v]
  <2>1. /\ result' \in [Builders -> {"none", "ok", "failed"}]
        /\ \A v \in Builders \ {b} : result'[v] = result[v] /\ c_file'[v] = c_file[v]
        /\ DOMAIN disturbed' = Builders /\ killed' \in BOOLEAN /\ DOMAIN c_file' = Builders
        /\ directory' \in [CacheNames -> Inodes \cup {NoFile}] /\ atimes' \in Seq(CacheNames)
    BY <1>1, ActsFrom
  <2> QED BY <1>5, <1>6, <1>8, <2>1, Acts
<1>10. full \/ w + 1 < Blocks
  BY <1>3, CacheSizeAssumption
<1> HIDE DEF h, w, full, print
<1>11. Doing(b)'
  <2>1. CASE full
    BY <1>1, <1>2, <1>3, <1>7, <1>9, <2>1 DEF Doing
  <2>2. CASE ~ full
    BY <1>1, <1>2, <1>3, <1>7, <1>9, <1>10, <2>2 DEF Doing
  <2> QED BY <2>1, <2>2
<1>12. Links /\ Listing' = Listing /\ builder[b].handle = h /\ builder[b].cached.print = print
  BY <1>1 DEF CacheInv, Listing, Exists, h, print
<1>13. \A n \in Listing : directory[n] \in Inodes /\ directory'[n] = directory[n]
  BY <1>1, <1>2, ListingUse
<1>14. \A i \in Inodes : \A p : Stores(i, p) /\ (i = h => p = print) => Stores(i, p)'
  <2> SUFFICES ASSUME NEW i \in Inodes, NEW p, Stores(i, p), i = h => p = print PROVE Stores(i, p)'
    OBVIOUS
  <2>1. CASE i = h
    BY <1>4, <1>8, <2>1 DEF Stores
  <2>2. CASE i # h
    BY <1>8, <2>2 DEF Stores
  <2> QED BY <2>1, <2>2
<1>15. \A m, n \in Listing' : directory'[m] = directory'[n] => m = n
  BY <1>12, <1>13 DEF Links
<1>16. \A n \in Listing' : Stores(directory[n], n.print)'
  <2> TAKE n \in Listing'
  <2>1. Stores(directory[n], n.print) /\ (directory[n] = h => n.print = print) /\ directory[n] \in Inodes
    BY <1>12, <1>13 DEF Links
  <2>2. directory'[n] = directory[n]
    BY <1>12, <1>13
  <2>3. \A k \in 1 .. Blocks : contents'[directory[n]][k] \in {File("none"), Holds(n.print)}
    BY <1>14, <2>1 DEF Stores
  <2> QED BY <2>2, <2>3 DEF Stores
<1>17. \A v \in Builders : builder'[v].handle # NoFile =>
         builder'[v].handle = builder[v].handle /\ builder'[v].cached = builder[v].cached
  BY <1>7, <1>9, <1>12
<1>18. \A n \in Listing', v \in Builders :
         builder'[v].handle = directory'[n] => n.print = builder'[v].cached.print
  BY <1>12, <1>13, <1>17, CacheSizeAssumption DEF Links
<1>19. \A v \in Builders : builder'[v].handle # NoFile =>
         Stores(builder[v].handle, builder[v].cached.print)'
  <2> SUFFICES ASSUME NEW v \in Builders, builder'[v].handle # NoFile
               PROVE  Stores(builder[v].handle, builder[v].cached.print)'
    OBVIOUS
  <2>1. builder'[v].handle = builder[v].handle /\ builder'[v].cached = builder[v].cached
    BY <1>17
  <2>2. builder[v].handle \in Inodes
    BY <1>2, <2>1 DEF BuilderRecord
  <2>3. Stores(builder[v].handle, builder[v].cached.print)
        /\ (builder[v].handle = h => builder[v].cached.print = print)
    BY <1>3, <1>12, <2>1 DEF Links
  <2>4. \A k \in 1 .. Blocks :
          contents'[builder[v].handle][k] \in {File("none"), Holds(builder[v].cached.print)}
    BY <1>14, <2>2, <2>3 DEF Stores
  <2> QED BY <2>1, <2>4 DEF Stores
<1>20. \A v, c \in Builders :
         builder'[v].handle # NoFile /\ builder'[c].handle = builder'[v].handle =>
           builder'[c].cached.print = builder'[v].cached.print
  BY <1>12, <1>17 DEF Links
<1>21. Links'
  BY <1>15, <1>16, <1>18, <1>19, <1>20 DEF Links, Stores
<1>22. \A i \in Inodes, m \in 0 .. Blocks :
         Filled(i, m) => \A k \in 1 .. m : contents'[i][k] # File("none")
  <2> SUFFICES ASSUME NEW i \in Inodes, NEW m \in 0 .. Blocks, Filled(i, m), NEW k \in 1 .. m
               PROVE  contents'[i][k] # File("none")
    OBVIOUS
  <2>1. k \in 1 .. Blocks /\ contents[i][k] # File("none")
    BY CacheSizeAssumption DEF Filled
  <2> QED BY <1>4, <1>8, <2>1
<1>23. Filled(h, w) => \A k \in 1 .. w + 1 : contents'[h][k] # File("none")
  <2> SUFFICES ASSUME Filled(h, w), NEW k \in 1 .. w + 1 PROVE contents'[h][k] # File("none")
    OBVIOUS
  <2>1. k \in 1 .. Blocks /\ (k = w + 1 \/ k \in 1 .. w)
    BY <1>3, CacheSizeAssumption
  <2> QED BY <1>4, <1>8, <2>1 DEF Filled
<1>24. \A n \in Listing' : Whole(n)'
  <2> TAKE n \in Listing'
  <2>1. directory'[n] = directory[n] /\ directory[n] \in Inodes /\ Whole(n) /\ killed' = killed
    BY <1>1, <1>12, <1>13 DEF CacheInv
  <2>2. Blocks \in 0 .. Blocks
    BY CacheSizeAssumption
  <2>3. CASE killed
    BY <2>1, <2>3 DEF Whole
  <2>4. CASE Filled(directory[n], Blocks)
    <3>1. \A k \in 1 .. Blocks : contents'[directory[n]][k] # File("none")
      BY <1>22, <2>1, <2>2, <2>4
    <3> QED BY <2>1, <3>1 DEF Whole, Filled
  <2>5. ASSUME NEW v \in Builders \ {b}, builder[v].at = "write", builder[v].handle = directory[n],
               Filled(directory[n], builder[v].written)
        PROVE  Whole(n)'
    <3>1. builder[v].written \in 0 .. Blocks /\ builder'[v] = builder[v]
      BY <1>2, <1>9 DEF BuilderRecord
    <3>2. \A k \in 1 .. builder[v].written : contents'[directory[n]][k] # File("none")
      BY <1>22, <2>1, <2>5, <3>1
    <3> QED BY <2>1, <2>5, <3>1, <3>2 DEF Whole, Filled
  <2>6. CASE builder[b].handle = directory[n] /\ Filled(directory[n], builder[b].written)
    <3>1. h = directory[n] /\ \A k \in 1 .. w + 1 : contents'[h][k] # File("none")
      BY <1>23, <2>6 DEF h, w
    <3>2. CASE full
      <4>1. w + 1 = Blocks
        BY <3>2 DEF full
      <4> QED BY <2>1, <3>1, <4>1 DEF Whole, Filled
    <3>3. CASE ~ full
      <4>1. builder'[b].at = "write" /\ builder'[b].handle = h /\ builder'[b].written = w + 1
        BY <1>7, <1>9, <3>3
      <4> QED BY <2>1, <3>1, <4>1 DEF Whole, Filled
    <3> QED BY <3>2, <3>3
  <2> QED BY <2>1, <2>3, <2>4, <2>5, <2>6 DEF Whole
<1> QED BY <1>9, <1>11, <1>21, <1>24 DEF CacheInv

LEMMA AppendIs ==
  ASSUME NEW T, NEW s \in Seq(T), NEW e \in T
  PROVE  /\ ToSet(Append(s, e)) = ToSet(s) \cup {e}
         /\ IsInjective(s) /\ e \notin ToSet(s) => IsInjective(Append(s, e))
<1> DEFINE t == Append(s, e)
<1>1. /\ Len(s) \in Nat /\ DOMAIN t = 1 .. Len(s) + 1 /\ DOMAIN s = 1 .. Len(s)
      /\ t[Len(s) + 1] = e /\ \A k \in 1 .. Len(s) : t[k] = s[k]
  OBVIOUS
<1> HIDE DEF t
<1>2. ToSet(t) = ToSet(s) \cup {e}
  BY <1>1 DEF ToSet
<1>3. IsInjective(s) /\ e \notin ToSet(s) => IsInjective(t)
  <2>1. (\A k \in 1 .. Len(s) : s[k] # e) <=> e \notin ToSet(s)
    BY <1>1 DEF ToSet
  <2> QED BY <1>1, <2>1 DEF IsInjective
<1> QED BY <1>2, <1>3 DEF t

\* A name is used: it becomes the last of the list.
LEMMA OrderedAppend ==
  ASSUME CacheInv, Ordered, NEW n \in CacheNames, NEW gone \in SUBSET CacheNames, n \in gone,
         atimes' = Append(Only(atimes, CacheNames \ gone), n),
         Listing' = (Listing \ gone) \cup {n}
  PROVE  Ordered'
<1> DEFINE rest == Only(atimes, CacheNames \ gone)
<1>1. rest \in Seq(CacheNames) /\ ToSet(rest) = ToSet(atimes) \cap (CacheNames \ gone) /\ IsInjective(rest)
  BY LastUsed DEF Ordered
<1>2. atimes' = Append(rest, n)
  OBVIOUS
<1> HIDE DEF rest
<1>3. ToSet(atimes') = ToSet(rest) \cup {n} /\ IsInjective(atimes')
  <2>1. n \notin ToSet(rest)
    BY <1>1
  <2>2. ASSUME NEW s \in Seq(CacheNames), n \notin ToSet(s), IsInjective(s)
        PROVE  ToSet(Append(s, n)) = ToSet(s) \cup {n} /\ IsInjective(Append(s, n))
    BY ONLY <2>2, n \in CacheNames, AppendIs
  <2> QED BY <1>1, <1>2, <2>1, <2>2
<1>4. ToSet(atimes') = Listing'
  BY <1>1, <1>3 DEF Ordered, Listing
<1> QED BY <1>3, <1>4 DEF Ordered

LEMMA OrderedStep ==
  ASSUME CacheInv, Ordered, NEW b \in Builders,
         \/ UNCHANGED <<directory, atimes>>
         \/ TouchEntry(b) \/ OpenTmp(b) \/ RenameTmp(b) \/ EvictFile(b)
  PROVE  Ordered'
<1>1. /\ directory \in [CacheNames -> Inodes \cup {NoFile}] /\ atimes \in Seq(CacheNames)
      /\ Doing(b) /\ NoFile \notin Inodes
  BY ActsFrom, CacheSizeAssumption
<1>2. CASE UNCHANGED <<directory, atimes>>
  <2>1. Listing' = Listing
    BY <1>2 DEF Listing, Exists
  <2> QED BY <1>2, <2>1 DEF Ordered
<1>3. CASE TouchEntry(b)
  <2>1. CASE UNCHANGED <<directory, atimes>>
    BY <1>2, <2>1
  <2>2. CASE ~ UNCHANGED <<directory, atimes>>
    <3>1. /\ builder[b].at = "touch" /\ directory' = directory /\ Exists(builder[b].cached)
          /\ atimes' = Used(builder[b].cached)
      BY <1>3, <2>2 DEF TouchEntry
    <3>2. builder[b].cached \in CacheNames
      BY <1>1, <3>1 DEF Doing
    <3>3. Listing' = (Listing \ {builder[b].cached}) \cup {builder[b].cached}
      BY <3>1, <3>2 DEF Listing, Exists
    <3>4. atimes' = Append(Only(atimes, CacheNames \ {builder[b].cached}), builder[b].cached)
      BY <3>1 DEF Used
    <3>5. {builder[b].cached} \in SUBSET CacheNames /\ builder[b].cached \in {builder[b].cached}
      BY <3>2
    <3> QED BY <3>2, <3>3, <3>4, <3>5, OrderedAppend
  <2> QED BY <2>1, <2>2
<1>4. CASE OpenTmp(b)
  <2> DEFINE tmp == TmpOf(builder[b].cached)
  <2>1. builder[b].at = "store" /\ builder[b].request \in Requests
    BY <1>4, ActsFrom DEF OpenTmp
  <2>2. builder[b].cached = EntryName(builder[b].request)
    BY <1>1, <2>1 DEF Doing
  <2>3. tmp \in CacheNames
    BY <2>1, <2>2, EntryNameOf
  <2>4. PICK inode \in IF Exists(tmp) THEN {directory[tmp]} ELSE Inodes \ InUse :
           /\ directory' = [directory EXCEPT ![tmp] = inode]
           /\ atimes' = Used(tmp)
    BY <1>4 DEF OpenTmp
  <2> HIDE DEF tmp
  <2>5. inode # NoFile
    BY <1>1, <2>4 DEF Exists
  <2>6. Listing' = (Listing \ {tmp}) \cup {tmp}
    BY <1>1, <2>3, <2>4, <2>5 DEF Listing, Exists
  <2>7. atimes' = Append(Only(atimes, CacheNames \ {tmp}), tmp)
    BY <2>4 DEF Used
  <2>8. {tmp} \in SUBSET CacheNames /\ tmp \in {tmp}
    BY <2>3
  <2> QED BY <2>3, <2>6, <2>7, <2>8, OrderedAppend
<1>5. CASE RenameTmp(b)
  <2> DEFINE entry == builder[b].cached
             tmp == TmpOf(entry)
  <2>1. CASE UNCHANGED <<directory, atimes>>
    BY <1>2, <2>1
  <2>2. CASE ~ UNCHANGED <<directory, atimes>>
    <3>1. builder[b].at = "rename" /\ builder[b].request \in Requests
      BY <1>5, ActsFrom DEF RenameTmp
    <3>2. entry = EntryName(builder[b].request)
      BY <1>1, <3>1 DEF Doing
    <3>3. entry \in CacheNames /\ tmp \in CacheNames /\ entry # tmp
      BY <3>1, <3>2, EntryNameOf
    <3>4. /\ Exists(tmp)
          /\ directory' = [directory EXCEPT ![entry] = directory[tmp], ![tmp] = NoFile]
          /\ atimes' = Append(Only(atimes, CacheNames \ {tmp, entry}), entry)
      BY <1>5, <2>2 DEF RenameTmp
    <3> HIDE DEF tmp, entry
    <3>5. Listing' = (Listing \ {tmp, entry}) \cup {entry}
      BY <1>1, <3>3, <3>4 DEF Listing, Exists
    <3>6. {tmp, entry} \in SUBSET CacheNames /\ entry \in {tmp, entry}
      BY <3>3
    <3> QED BY <3>3, <3>4, <3>5, <3>6, OrderedAppend
  <2> QED BY <2>1, <2>2
<1>6. CASE EvictFile(b)
  <2> DEFINE file == Head(builder[b].files)
  <2>1. CASE UNCHANGED <<directory, atimes>>
    BY <1>2, <2>1
  <2>2. CASE ~ UNCHANGED <<directory, atimes>>
    <3>1. /\ directory' = [directory EXCEPT ![file] = NoFile]
          /\ atimes' = Only(atimes, CacheNames \ {file})
      BY <1>6, <2>2 DEF EvictFile
    <3> HIDE DEF file
    <3>2. Listing' = Listing \ {file}
      BY <1>1, <3>1 DEF Listing, Exists
    <3>3. ToSet(atimes') = ToSet(atimes) \cap (CacheNames \ {file}) /\ IsInjective(atimes')
      BY <3>1, LastUsed DEF Ordered
    <3> QED BY <3>2, <3>3 DEF Ordered, Listing
  <2> QED BY <2>1, <2>2
<1> QED BY <1>2, <1>3, <1>4, <1>5, <1>6

BuildInv == CacheInv /\ Ordered

LEMMA BuildInitially == BuildInit => BuildInv
<1> SUFFICES ASSUME BuildInit PROVE BuildInv
  OBVIOUS
<1>1. Listing = {}
  BY DEF BuildInit, Listing, Exists
<1>2. CacheTypes
  <2>1. Blank \in [1 .. Blocks -> {File("none")} \cup {Archived(r) : r \in Requests}]
    BY DEF Blank
  <2>2. builder \in [Builders -> BuilderRecord]
    BY IdleRecord DEF BuildInit
  <2>3. atimes \in Seq(CacheNames)
    BY DEF BuildInit
  <2> QED BY <2>1, <2>2, <2>3 DEF BuildInit, CacheTypes
<1>3. ASSUME NEW b \in Builders PROVE builder[b].at = "idle" /\ builder[b].handle = NoFile
  BY DEF BuildInit, Idle
<1>4. \A b \in Builders : Doing(b)
  BY <1>3 DEF Doing, BuildInit
<1>5. Links
  BY <1>1, <1>3 DEF Links
<1>6. Ordered
  BY <1>1 DEF Ordered, BuildInit, ToSet, IsInjective
<1> QED BY <1>1, <1>2, <1>4, <1>5, <1>6 DEF BuildInv, CacheInv

LEMMA BuildStep == ASSUME OneSetting PROVE BuildInv /\ [BuildNext]_buildVars => BuildInv'
<1> SUFFICES ASSUME CacheInv, Ordered, [BuildNext]_buildVars PROVE CacheInv' /\ Ordered'
  BY DEF BuildInv
<1>1. CASE UNCHANGED buildVars
  BY <1>1 DEF buildVars, cacheVars, CacheInv, CacheTypes, Doing, Links, Stores, Whole, Filled,
              Listing, Exists, Ordered
<1>2. CASE BuildNext
  <2>1. PICK b \in Builders :
           \/ StartBuild(b) \/ LookupCache(b) \/ TouchEntry(b)
           \/ OpenEntry(b) \/ ReadEntry(b) \/ Compile(b) \/ OpenTmp(b)
           \/ WriteBlock(b) \/ RenameTmp(b) \/ ListCache(b) \/ StatCache(b)
           \/ EvictFile(b) \/ KillBuilder(b)
    BY <1>2 DEF BuildNext
  <2>2. CASE StartBuild(b)
    <3>1. UNCHANGED <<directory, atimes>>
      BY <2>2 DEF StartBuild, cacheVars
    <3> QED BY <2>2, <3>1, StartBuildStep, OrderedStep
  <2>3. CASE LookupCache(b)
    <3>1. UNCHANGED <<directory, atimes>>
      BY <2>3 DEF LookupCache, cacheVars
    <3> QED BY <2>3, <3>1, LookupStep, OrderedStep
  <2>4. CASE TouchEntry(b)
    BY <2>4, TouchStep, OrderedStep
  <2>5. CASE OpenEntry(b)
    <3>1. UNCHANGED <<directory, atimes>>
      BY <2>5 DEF OpenEntry, cacheVars
    <3> QED BY <2>5, <3>1, OpenStep, OrderedStep
  <2>6. CASE ReadEntry(b)
    <3>1. UNCHANGED <<directory, atimes>>
      BY <2>6 DEF ReadEntry
    <3> QED BY <2>6, <3>1, ReadStep, OrderedStep
  <2>7. CASE Compile(b)
    <3>1. UNCHANGED <<directory, atimes>>
      BY <2>7 DEF Compile, cacheVars
    <3> QED BY <2>7, <3>1, CompileStep, OrderedStep
  <2>8. CASE OpenTmp(b)
    BY <2>8, OpenTmpStep, OrderedStep
  <2>9. CASE WriteBlock(b)
    <3>1. UNCHANGED <<directory, atimes>>
      BY <2>9 DEF WriteBlock
    <3> QED BY <2>9, <3>1, WriteStep, OrderedStep
  <2>10. CASE RenameTmp(b)
    BY <2>10, RenameStep, OrderedStep
  <2>11. CASE ListCache(b)
    <3>1. UNCHANGED <<directory, atimes>>
      BY <2>11 DEF ListCache, cacheVars
    <3> QED BY <2>11, <3>1, ListStep, OrderedStep
  <2>12. CASE StatCache(b)
    <3>1. UNCHANGED <<directory, atimes>>
      BY <2>12 DEF StatCache, cacheVars
    <3> QED BY <2>12, <3>1, StatStep, OrderedStep
  <2>13. CASE EvictFile(b)
    BY <2>13, EvictStep, OrderedStep
  <2>14. CASE KillBuilder(b)
    <3>1. UNCHANGED <<directory, atimes>>
      BY <2>14 DEF KillBuilder
    <3> QED BY <2>14, <3>1, KillStep, OrderedStep
  <2> QED BY <2>1, <2>2, <2>3, <2>4, <2>5, <2>6, <2>7, <2>8, <2>9, <2>10, <2>11, <2>12, <2>13, <2>14
<1> QED BY <1>1, <1>2

LEMMA BuildInvRight == BuildInv => BuildIsRight
<1> SUFFICES ASSUME BuildInv, NEW b \in Builders, result[b] = "ok", Compiles(builder[b].request)
             PROVE  c_file[b] = Generated(builder[b].request)
  BY DEF BuildIsRight
<1> QED BY DEF BuildInv, CacheInv, Doing

LEMMA BuildInvWhole == ASSUME OneSetting PROVE BuildInv => EntriesAreWhole
<1> SUFFICES ASSUME CacheInv, NEW n \in Listing
             PROVE  /\ \A i \in 1 .. Blocks : contents[directory[n]][i].is = "c file" =>
                         contents[directory[n]][i].source = n.print[1]
                    /\ \/ Complete(directory[n]) \/ killed
                       \/ \E b \in Builders : builder[b].at = "write" /\ builder[b].handle = directory[n]
  BY DEF BuildInv, EntriesAreWhole
<1>1. PICK request \in Requests : n.print = Fingerprint(request)
  BY DEF Listing, CacheNames
<1>2. Stores(directory[n], n.print) /\ Whole(n)
  BY DEF CacheInv, Links
<1>3. Archived(request) = Holds(n.print) /\ Archived(request).is # "none"
  BY <1>1, HoldsArchived
<1>4. Archived(request).is = "c file" => Archived(request).source = n.print[1]
  BY <1>1 DEF Archived, Generated, File, Fingerprint
<1>5. File("none").is = "none"
  BY DEF File
<1>6. \A i \in 1 .. Blocks : contents[directory[n]][i].is = "c file" =>
                         contents[directory[n]][i].source = n.print[1]
  BY <1>2, <1>3, <1>4, <1>5 DEF Stores
<1>7. Filled(directory[n], Blocks) => Complete(directory[n])
  <2> SUFFICES ASSUME Filled(directory[n], Blocks) PROVE Complete(directory[n])
    OBVIOUS
  <2>1. \A i \in 1 .. Blocks : contents[directory[n]][i] = Holds(n.print)
    BY <1>2 DEF Stores, Filled
  <2>2. 1 \in 1 .. Blocks
    BY CacheSizeAssumption
  <2> QED BY <1>3, <2>1, <2>2 DEF Complete
<1> QED BY <1>2, <1>6, <1>7 DEF Whole

\* In every state of any number of builders that share a cache directory, each
\* knows what it is doing, an inode in use stores the archive of one fingerprint,
\* and a file with a name has its blocks or a builder that is still to write them
\* (lookup_cache, store_to_cache and cleanup_cache in Build/Cache.py).
THEOREM BuildInductive == ASSUME OneSetting PROVE BuildSpec => []BuildInv
<1>1. BuildInit => BuildInv
  BY BuildInitially
<1>2. BuildInv /\ [BuildNext]_buildVars => BuildInv'
  BY BuildStep
<1> QED BY <1>1, <1>2, PTL DEF BuildSpec

\* With one set of compiler_directives, a build of a correct source that reports
\* success leaves the C file the compiler generates for it, whatever the other
\* builders of run_cached_pipeline store, evict or leave half written.
THEOREM BuildsAreRight == ASSUME OneSetting PROVE BuildSpec => []BuildIsRight
BY BuildInductive, BuildInvRight, PTL

\* With one set of compiler_directives, an entry of the cache holds what its
\* fingerprint stands for, and all of it unless a builder was killed or one is
\* still writing: store_to_cache publishes a file by renaming it.
THEOREM EntriesStayWhole == ASSUME OneSetting PROVE BuildSpec => []EntriesAreWhole
<1>1. BuildInv => EntriesAreWhole
  BY BuildInvWhole
<1> QED BY <1>1, BuildInductive, PTL

\* A builder that has the cache to itself finds its files where it left them.
Undisturbed(b) ==
  LET at == builder[b].at  cached == builder[b].cached  files == builder[b].files
  IN  /\ at \in {"touch", "open", "read"} => cached \in Listing
      /\ at = "read" => builder[b].handle = directory[cached]
      /\ at \in {"write", "rename"} => TmpOf(cached) \in Listing
      /\ at \in {"stat", "evict"} => ToSet(files) \subseteq Listing /\ IsInjective(files)
      /\ result[b] = "failed" => ~Compiles(builder[b].request)
Alone(b) ==
  /\ builder[b].at # "idle" => \A v \in Builders \ {b} : builder[v].at = "idle"
  /\ killed \/ Undisturbed(b)
AloneInv == \A b \in Builders : disturbed[b] \/ Alone(b)

\* A step of a builder leaves what the others do, and how their builds ended.
Leaves(b) ==
  /\ builder[b].at # "idle" /\ disturbed' = disturbed /\ (killed => killed')
  /\ \A v \in Builders \ {b} : builder'[v] = builder[v] /\ result'[v] = result[v]

LEMMA LeavesEnds ==
  ASSUME CacheInv, NEW b \in Builders, NEW end \in {"none", "ok", "failed"}, Ends(b, end)
  PROVE  /\ \A v \in Builders \ {b} : builder'[v] = builder[v] /\ result'[v] = result[v]
         /\ builder'[b].at = "idle" /\ result'[b] = end
         /\ end # "none" => builder'[b].request = builder[b].request
<1>1. PICK r \in BuilderRecord :
           /\ builder' = [builder EXCEPT ![b] = r] /\ builder'[b] = r
           /\ r.at = "idle" /\ r.handle = NoFile
           /\ end # "none" => r.request = builder[b].request
           /\ result' \in [Builders -> {"none", "ok", "failed"}] /\ result'[b] = end
           /\ \A v \in Builders \ {b} : result'[v] = result[v]
  BY EndsRecord
<1> QED BY <1>1, ActsFrom

LEMMA LeavesCleansUp ==
  ASSUME CacheInv, NEW b \in Builders, CleansUp(b), result' = result, builder[b].at # "idle"
  PROVE  /\ \A v \in Builders \ {b} : builder'[v] = builder[v] /\ result'[v] = result[v]
         /\ builder'[b].at = "listdir" /\ result'[b] = "none"
<1>1. PICK r \in BuilderRecord :
           /\ builder' = [builder EXCEPT ![b] = r] /\ builder'[b] = r
           /\ r.at = "listdir" /\ r.handle = NoFile /\ r.request = builder[b].request
  BY CleansUpRecord
<1> QED BY <1>1, ActsFrom

LEMMA LeavesOthers ==
  ASSUME CacheInv, NEW b \in Builders,
         \/ LookupCache(b) \/ TouchEntry(b)
         \/ OpenEntry(b) \/ ReadEntry(b) \/ Compile(b) \/ OpenTmp(b)
         \/ WriteBlock(b) \/ RenameTmp(b) \/ ListCache(b) \/ StatCache(b)
         \/ EvictFile(b) \/ KillBuilder(b)
  PROVE  Leaves(b)
<1>1. builder \in [Builders -> BuilderRecord]
  BY ActsFrom
<1>3. ASSUME NEW end \in {"none", "ok", "failed"}, Ends(b, end),
             disturbed' = disturbed, killed => killed', builder[b].at # "idle"
      PROVE  Leaves(b)
  BY <1>3, LeavesEnds DEF Leaves
<1>4. ASSUME CleansUp(b), result' = result,
             disturbed' = disturbed, killed' = killed, builder[b].at # "idle"
      PROVE  Leaves(b)
  BY <1>4, LeavesCleansUp DEF Leaves
<1>5. CASE LookupCache(b)
  BY <1>1, <1>5 DEF LookupCache, Leaves
<1>6. CASE TouchEntry(b)
  BY <1>1, <1>3, <1>6 DEF TouchEntry, Steps, Leaves
<1>7. CASE OpenEntry(b)
  BY <1>1, <1>3, <1>7 DEF OpenEntry, Leaves
<1>8. CASE ReadEntry(b)
  BY <1>3, <1>4, <1>8 DEF ReadEntry
<1>9. CASE Compile(b)
  BY <1>1, <1>9 DEF Compile, Leaves
<1>10. CASE OpenTmp(b)
  BY <1>1, <1>10 DEF OpenTmp, Leaves
<1>11. CASE WriteBlock(b)
  BY <1>1, <1>11 DEF WriteBlock, Leaves
<1>12. CASE RenameTmp(b)
  BY <1>3, <1>4, <1>12 DEF RenameTmp
<1>13. CASE ListCache(b)
  BY <1>1, <1>3, <1>13 DEF ListCache, Leaves
<1>14. CASE StatCache(b)
  BY <1>1, <1>3, <1>14 DEF StatCache, Leaves
<1>15. CASE EvictFile(b)
  BY <1>1, <1>3, <1>15 DEF EvictFile, Leaves
<1>16. CASE KillBuilder(b)
  BY <1>3, <1>16 DEF KillBuilder
<1> QED BY <1>5, <1>6, <1>7, <1>8, <1>9, <1>10, <1>11, <1>12, <1>13, <1>14, <1>15, <1>16

\* The builders that do not take the step.
LEMMA OthersAlone ==
  ASSUME CacheInv, AloneInv, NEW b \in Builders, NEW v \in Builders \ {b}, Leaves(b) \/ StartBuild(b)
  PROVE  disturbed'[v] \/ Alone(v)'
<1>1. /\ builder'[v] = builder[v] /\ result'[v] = result[v] /\ (killed => killed')
      /\ disturbed[v] => disturbed'[v]
      /\ disturbed'[v] \/ builder[v].at = "idle"
  <2>1. CASE StartBuild(b)
    BY <2>1, ActsFrom DEF StartBuild
  <2>2. CASE Leaves(b)
    BY <2>2 DEF Leaves, AloneInv, Alone
  <2> QED BY <2>1, <2>2
<1>2. disturbed[v] \/ Alone(v)
  BY DEF AloneInv
<1>3. ASSUME builder[v].at = "idle", Undisturbed(v) PROVE Undisturbed(v)'
  BY <1>1, <1>3 DEF Undisturbed
<1> QED BY <1>1, <1>2, <1>3 DEF Alone

\* What an undisturbed builder may count on.
LEMMA AloneFrom ==
  ASSUME CacheInv, Ordered, AloneInv, NEW b \in Builders, ~ disturbed[b], ~ killed
  PROVE  /\ Undisturbed(b)
         /\ builder[b].at # "idle" => \A v \in Builders \ {b} : builder[v].at = "idle"
         /\ builder[b] \in BuilderRecord /\ builder \in [Builders -> BuilderRecord]
         /\ Doing(b) /\ directory \in [CacheNames -> Inodes \cup {NoFile}] /\ NoFile \notin Inodes
         /\ result \in [Builders -> {"none", "ok", "failed"}]
         /\ builder[b].at # "idle" => builder[b].request \in Requests /\ result[b] = "none"
BY ActsFrom, CacheSizeAssumption DEF AloneInv, Alone

LEMMA EndsUndisturbed ==
  ASSUME CacheInv, NEW b \in Builders, NEW end \in {"none", "ok", "failed"}, Ends(b, end),
         end = "failed" => ~ Compiles(builder[b].request)
  PROVE  Undisturbed(b)'
BY LeavesEnds DEF Undisturbed

LEMMA CleansUpUndisturbed ==
  ASSUME CacheInv, NEW b \in Builders, CleansUp(b), result' = result, builder[b].at # "idle"
  PROVE  Undisturbed(b)'
BY LeavesCleansUp DEF Undisturbed

LEMMA OwnLoad ==
  ASSUME CacheInv, Ordered, AloneInv, NEW b \in Builders, ~ disturbed[b], ~ killed,
         LookupCache(b) \/ TouchEntry(b) \/ OpenEntry(b)
  PROVE  Undisturbed(b)'
<1>1. /\ Undisturbed(b) /\ builder \in [Builders -> BuilderRecord] /\ Doing(b) /\ result[b] = "none"
      /\ directory \in [CacheNames -> Inodes \cup {NoFile}]
  BY AloneFrom DEF LookupCache, TouchEntry, OpenEntry
<1>2. Listing' = Listing /\ directory' = directory
  BY DEF LookupCache, TouchEntry, OpenEntry, cacheVars, Listing, Exists
<1>3. CASE LookupCache(b)
  <2> DEFINE print == Fingerprint(builder[b].request)
             gz == [print |-> print, ext |-> "gz", tmp |-> FALSE]
             zip == [print |-> print, ext |-> "zip", tmp |-> FALSE]
  <2>1. builder[b].at = "lookup" /\ builder[b].request \in Requests
    BY <1>3, AloneFrom DEF LookupCache
  <2>2. gz \in CacheNames /\ zip \in CacheNames
    BY <2>1 DEF CacheNames
  <2>3. /\ builder'[b].at = IF Exists(gz) \/ Exists(zip) THEN "touch" ELSE "compile"
        /\ builder'[b].cached = IF Exists(gz) THEN gz ELSE IF Exists(zip) THEN zip ELSE NoFile
        /\ result' = result
    BY <1>1, <1>3 DEF LookupCache, BuilderRecord
  <2> HIDE DEF gz, zip
  <2>4. builder'[b].at = "touch" => builder'[b].cached \in Listing'
    BY <1>2, <2>2, <2>3 DEF Listing
  <2>5. builder'[b].at \in {"touch", "compile"}
    BY <2>3
  <2> QED BY <1>1, <2>3, <2>4, <2>5 DEF Undisturbed
<1>4. CASE TouchEntry(b)
  <2>1. builder[b].at = "touch" /\ Exists(builder[b].cached)
    BY <1>1, <1>4 DEF TouchEntry, Undisturbed, Listing
  <2>2. builder' = [builder EXCEPT ![b].at = "open"] /\ result' = result
    BY <1>4, <2>1 DEF TouchEntry, Steps
  <2>3. builder'[b].at = "open" /\ builder'[b].cached = builder[b].cached
    BY <1>1, <2>2 DEF BuilderRecord
  <2> QED BY <1>1, <1>2, <2>1, <2>2, <2>3 DEF Undisturbed
<1>5. CASE OpenEntry(b)
  <2>1. builder[b].at = "open" /\ Exists(builder[b].cached)
    BY <1>1, <1>5 DEF OpenEntry, Undisturbed, Listing
  <2>2. /\ builder' = [builder EXCEPT ![b].at = "read", ![b].handle = directory[builder[b].cached]]
        /\ result' = result
    BY <1>5, <2>1 DEF OpenEntry
  <2>3. builder'[b].at = "read" /\ builder'[b].cached = builder[b].cached
        /\ builder'[b].handle = directory[builder[b].cached]
    BY <1>1, <2>2 DEF BuilderRecord
  <2> QED BY <1>1, <1>2, <2>1, <2>2, <2>3 DEF Undisturbed
<1> QED BY <1>3, <1>4, <1>5

\* Nobody else writes: the archive that an undisturbed builder reads is complete.
LEMMA OwnReadComplete ==
  ASSUME CacheInv, Ordered, AloneInv, NEW b \in Builders, ~ disturbed[b], ~ killed,
         builder[b].at = "read", OneSetting
  PROVE  Complete(builder[b].handle)
<1> DEFINE n == builder[b].cached
<1>1. Undisturbed(b) /\ \A v \in Builders \ {b} : builder[v].at = "idle"
  BY AloneFrom
<1>2. n \in Listing /\ builder[b].handle = directory[n]
  BY <1>1 DEF Undisturbed
<1>3. Filled(directory[n], Blocks) /\ Stores(directory[n], n.print)
  BY <1>1, <1>2 DEF CacheInv, Whole, Links
<1>4. PICK request \in Requests : n.print = Fingerprint(request)
  BY <1>2 DEF Listing, CacheNames
<1>5. Holds(n.print).is # "none"
  BY <1>4, HoldsArchived
<1>6. \A i \in 1 .. Blocks : contents[directory[n]][i] = Holds(n.print)
  BY <1>3 DEF Stores, Filled
<1>7. 1 \in 1 .. Blocks
  BY CacheSizeAssumption
<1> QED BY <1>2, <1>5, <1>6, <1>7 DEF Complete

LEMMA OwnStore ==
  ASSUME CacheInv, Ordered, AloneInv, OneSetting, NEW b \in Builders, ~ disturbed[b], ~ killed,
         ReadEntry(b) \/ Compile(b) \/ OpenTmp(b) \/ WriteBlock(b) \/ RenameTmp(b)
  PROVE  Undisturbed(b)'
<1>1. /\ Undisturbed(b) /\ builder \in [Builders -> BuilderRecord] /\ Doing(b) /\ result[b] = "none"
      /\ directory \in [CacheNames -> Inodes \cup {NoFile}] /\ builder[b].request \in Requests
      /\ NoFile \notin Inodes
  BY AloneFrom DEF ReadEntry, Compile, OpenTmp, WriteBlock, RenameTmp
<1>2. CASE ReadEntry(b)
  <2>1. builder[b].at = "read"
    BY <1>2 DEF ReadEntry
  <2>2. Ends(b, "ok") \/ (CleansUp(b) /\ result' = result)
    BY <1>2, <2>1, OwnReadComplete DEF ReadEntry
  <2> QED BY <2>1, <2>2, EndsUndisturbed, CleansUpUndisturbed
<1>3. CASE Compile(b)
  <2>1. builder'[b].at = "store" /\ result' = result
    BY <1>1, <1>3 DEF Compile, BuilderRecord, cacheVars
  <2> QED BY <1>1, <2>1 DEF Undisturbed
<1>4. CASE OpenTmp(b)
  <2> DEFINE tmp == TmpOf(builder[b].cached)
  <2>1. builder[b].at = "store" /\ result' = result
    BY <1>4 DEF OpenTmp
  <2>2. builder[b].cached = EntryName(builder[b].request)
    BY <1>1, <2>1 DEF Doing
  <2>3. tmp \in CacheNames
    BY <1>1, <2>2, EntryNameOf
  <2>4. PICK inode \in IF Exists(tmp) THEN {directory[tmp]} ELSE Inodes \ InUse :
           /\ directory' = [directory EXCEPT ![tmp] = inode]
           /\ builder' = [builder EXCEPT ![b].at = "write", ![b].handle = inode]
    BY <1>4 DEF OpenTmp
  <2>5. builder'[b].at = "write" /\ builder'[b].cached = builder[b].cached
    BY <1>1, <2>4 DEF BuilderRecord
  <2>6. TmpOf(builder'[b].cached) = tmp
    BY <2>5
  <2> HIDE DEF tmp
  <2>7. inode # NoFile
    BY <1>1, <2>4 DEF Exists
  <2>8. tmp \in Listing'
    BY <1>1, <2>3, <2>4, <2>7 DEF Listing, Exists
  <2> QED BY <1>1, <2>1, <2>5, <2>6, <2>8 DEF Undisturbed
<1>5. CASE WriteBlock(b)
  <2>1. /\ builder[b].at = "write" /\ result' = result /\ Listing' = Listing
        /\ builder'[b].at \in {"write", "rename"} /\ builder'[b].cached = builder[b].cached
    BY <1>1, <1>5 DEF WriteBlock, BuilderRecord, Listing, Exists
  <2>2. TmpOf(builder'[b].cached) \in Listing'
    BY <1>1, <2>1 DEF Undisturbed
  <2> QED BY <1>1, <2>1, <2>2 DEF Undisturbed
<1>6. CASE RenameTmp(b)
  <2>1. builder[b].at = "rename" /\ Exists(TmpOf(builder[b].cached))
    BY <1>1, <1>6 DEF RenameTmp, Undisturbed, Listing
  <2>2. \/ Ends(b, IF Compiles(builder[b].request) THEN "ok" ELSE "failed")
        \/ CleansUp(b) /\ result' = result
    BY <1>6, <2>1 DEF RenameTmp
  <2>3. CASE Compiles(builder[b].request)
    BY <2>1, <2>2, <2>3, EndsUndisturbed, CleansUpUndisturbed
  <2>4. CASE ~ Compiles(builder[b].request)
    BY <2>1, <2>2, <2>4, EndsUndisturbed, CleansUpUndisturbed
  <2> QED BY <2>3, <2>4
<1> QED BY <1>2, <1>3, <1>4, <1>5, <1>6

LEMMA OwnClean ==
  ASSUME CacheInv, Ordered, AloneInv, NEW b \in Builders, ~ disturbed[b], ~ killed,
         ListCache(b) \/ StatCache(b) \/ EvictFile(b)
  PROVE  Undisturbed(b)'
<1> DEFINE files == builder[b].files
<1>1. /\ Undisturbed(b) /\ builder \in [Builders -> BuilderRecord] /\ Doing(b) /\ result[b] = "none"
      /\ directory \in [CacheNames -> Inodes \cup {NoFile}] /\ builder[b] \in BuilderRecord
  BY AloneFrom DEF ListCache, StatCache, EvictFile
<1>2. files \in Seq(CacheNames)
  BY <1>1 DEF BuilderRecord
<1>3. CASE ListCache(b)
  <2>1. CASE Ends(b, "ok")
    BY <2>1, EndsUndisturbed
  <2>2. CASE ~ Ends(b, "ok")
    <3>1. /\ builder' = [builder EXCEPT ![b].at = "stat", ![b].files = Only(atimes, Listing)]
          /\ result' = result /\ Listing' = Listing
      BY <1>3, <2>2 DEF ListCache, cacheVars, Listing, Exists
    <3>2. builder'[b].at = "stat" /\ builder'[b].files = Only(atimes, Listing)
      BY <1>1, <3>1 DEF BuilderRecord
    <3>3. ToSet(builder'[b].files) \subseteq Listing' /\ IsInjective(builder'[b].files)
      BY <3>1, <3>2, LastUsed DEF Ordered
    <3> QED BY <1>1, <3>1, <3>2, <3>3 DEF Undisturbed
  <2> QED BY <2>1, <2>2
<1>4. CASE StatCache(b)
  <2>1. CASE Ends(b, "ok")
    BY <2>1, EndsUndisturbed
  <2>2. CASE ~ Ends(b, "ok")
    <3>1. builder[b].at = "stat"
      BY <1>4 DEF StatCache
    <3>2. \A i \in DOMAIN files : Exists(files[i])
      BY <1>1, <3>1 DEF Undisturbed, ToSet, Listing
    <3> DEFINE evicted == Reverse(Only(atimes, ToSet(files)))
    <3> HIDE DEF evicted
    <3>3. /\ builder' = [builder EXCEPT ![b].at = "evict", ![b].total = Len(files), ![b].files = evicted]
          /\ result' = result
      BY <1>4, <2>2, <3>2 DEF StatCache, evicted
    <3>4. builder'[b].at = "evict" /\ builder'[b].files = evicted
      BY <1>1, <3>3 DEF BuilderRecord
    <3>5. Listing' = Listing
      BY <1>4 DEF StatCache, cacheVars, Listing, Exists
    <3>6. /\ Only(atimes, ToSet(files)) \in Seq(CacheNames)
          /\ ToSet(Only(atimes, ToSet(files))) = ToSet(atimes) \cap ToSet(files)
          /\ IsInjective(Only(atimes, ToSet(files)))
      BY LastUsed DEF Ordered
    <3>7. ToSet(evicted) = ToSet(atimes) \cap ToSet(files) /\ IsInjective(evicted)
      BY <3>6, ReverseIs DEF evicted
    <3>8. ToSet(builder'[b].files) \subseteq Listing' /\ IsInjective(builder'[b].files)
      BY <3>4, <3>5, <3>7 DEF Ordered
    <3> QED BY <1>1, <3>3, <3>4, <3>8 DEF Undisturbed
  <2> QED BY <2>1, <2>2
<1>5. CASE EvictFile(b)
  <2> DEFINE file == Head(files)
  <2>1. builder[b].at = "evict" /\ files # <<>>
    BY <1>1, <1>5 DEF EvictFile, Doing
  <2>2. ToSet(files) \subseteq Listing /\ IsInjective(files)
    BY <1>1, <2>1 DEF Undisturbed
  <2> HIDE DEF files
  <2>3. /\ 1 \in DOMAIN files /\ file = files[1] /\ Tail(files) \in Seq(CacheNames)
        /\ Len(files) \in Nat /\ DOMAIN files = 1 .. Len(files)
        /\ Len(Tail(files)) = Len(files) - 1 /\ DOMAIN Tail(files) = 1 .. Len(files) - 1
        /\ \A i \in 1 .. Len(files) - 1 : Tail(files)[i] = files[i + 1]
    BY <1>2, <2>1, HeadTailProperties, LenProperties, EmptySeq
  <2>4. file \in Listing
    BY <2>2, <2>3 DEF ToSet
  <2> HIDE DEF file
  <2>5. Exists(file)
    BY <2>4 DEF Listing
  <2>6. CASE Ends(b, "ok")
    BY <2>6, EndsUndisturbed
  <2>7. CASE ~ Ends(b, "ok")
    <3>1. /\ directory' = [directory EXCEPT ![file] = NoFile]
          /\ builder' = [builder EXCEPT ![b].total = @ - 1, ![b].files = Tail(@)]
          /\ result' = result
      BY <1>5, <2>5, <2>7 DEF EvictFile, file, files
    <3>2. builder'[b].at = "evict" /\ builder'[b].files = Tail(files)
      BY <1>1, <2>1, <3>1 DEF BuilderRecord, files
    <3>3. Listing' = Listing \ {file}
      BY <1>1, <3>1 DEF Listing, Exists
    <3>4. IsInjective(Tail(files))
      BY <2>2, <2>3 DEF IsInjective
    <3>5. \A i \in 1 .. Len(files) - 1 : Tail(files)[i] # file /\ Tail(files)[i] \in Listing
      BY <2>2, <2>3 DEF IsInjective, ToSet
    <3>6. ToSet(Tail(files)) \subseteq Listing'
      BY <2>3, <3>3, <3>5 DEF ToSet
    <3> QED BY <1>1, <3>1, <3>2, <3>4, <3>6 DEF Undisturbed
  <2> QED BY <2>6, <2>7
<1> QED BY <1>3, <1>4, <1>5

LEMMA AloneKept ==
  ASSUME CacheInv, Ordered, AloneInv, OneSetting, [BuildNext]_buildVars
  PROVE  AloneInv'
<1>1. CASE UNCHANGED buildVars
  BY <1>1 DEF buildVars, cacheVars, AloneInv, Alone, Undisturbed, Listing, Exists
<1>2. CASE BuildNext
  <2>1. PICK b \in Builders :
           \/ StartBuild(b) \/ LookupCache(b) \/ TouchEntry(b)
           \/ OpenEntry(b) \/ ReadEntry(b) \/ Compile(b) \/ OpenTmp(b)
           \/ WriteBlock(b) \/ RenameTmp(b) \/ ListCache(b) \/ StatCache(b)
           \/ EvictFile(b) \/ KillBuilder(b)
    BY <1>2 DEF BuildNext
  <2>2. Leaves(b) \/ StartBuild(b)
    BY <2>1, LeavesOthers
  <2>3. \A v \in Builders \ {b} : disturbed'[v] \/ Alone(v)'
    BY <2>2, OthersAlone
  <2>4. disturbed'[b] \/ Alone(b)'
    <3>1. CASE StartBuild(b)
      <4>1. /\ builder'[b].at = "lookup" /\ result'[b] = "none"
            /\ disturbed'[b] \/ \A v \in Builders \ {b} : builder[v].at = "idle"
            /\ \A v \in Builders \ {b} : builder'[v] = builder[v]
        BY <3>1, ActsFrom DEF StartBuild, Idle
      <4> QED BY <4>1 DEF Alone, Undisturbed
    <3>2. CASE ~ StartBuild(b)
      <4>1. SUFFICES ASSUME ~ disturbed[b] PROVE Alone(b)'
        BY <2>2, <3>2 DEF Leaves
      <4>2. Leaves(b) /\ builder[b].at # "idle"
        BY <2>2, <3>2 DEF Leaves
      <4>3. \A v \in Builders \ {b} : builder'[v].at = "idle"
        BY <4>1, <4>2 DEF Leaves, AloneInv, Alone
      <4>4. killed' \/ Undisturbed(b)'
        <5>1. CASE killed
          BY <4>2, <5>1 DEF Leaves
        <5>2. CASE KillBuilder(b)
          BY <5>2 DEF KillBuilder
        <5>3. CASE ~ killed /\ ~ KillBuilder(b)
          BY <2>1, <3>2, <4>1, <5>3, OwnLoad, OwnStore, OwnClean
        <5> QED BY <5>1, <5>2, <5>3
      <4> QED BY <4>3, <4>4 DEF Alone
    <3> QED BY <3>1, <3>2
  <2> QED BY <2>3, <2>4 DEF AloneInv
<1> QED BY <1>1, <1>2

\* A builder that nobody disturbed and that was not killed finds the entry it
\* looked up, the temporary file it writes and the files it listed still there.
THEOREM AloneInductive == ASSUME OneSetting PROVE BuildSpec => [](BuildInv /\ AloneInv)
<1>1. BuildInit => BuildInv /\ AloneInv
  <2>1. BuildInit => AloneInv
    BY DEF BuildInit, AloneInv, Alone, Undisturbed, Idle
  <2> QED BY <2>1, BuildInitially
<1>2. BuildInv /\ AloneInv /\ [BuildNext]_buildVars => BuildInv' /\ AloneInv'
  <2>1. BuildInv /\ [BuildNext]_buildVars => BuildInv'
    BY BuildStep
  <2>2. BuildInv /\ AloneInv /\ [BuildNext]_buildVars => AloneInv'
    BY AloneKept DEF BuildInv
  <2> QED BY <2>1, <2>2
<1> QED BY <1>1, <1>2, PTL DEF BuildSpec

\* A build that had the cache to itself fails only because its source does not
\* compile: load_from_cache, store_to_cache and cleanup_cache never trip over
\* files that they removed themselves.
THEOREM AloneBuildsSucceed == ASSUME OneSetting PROVE BuildSpec => []AloneItSucceeds
<1>1. AloneInv => AloneItSucceeds
  BY DEF AloneInv, Alone, Undisturbed, AloneItSucceeds
<1> QED BY <1>1, AloneInductive, PTL

-----------------------------------------------------------------------------
(* Parallel sections: where the exceptions are.                            *)

\* The exception of t, if it has raised one, is in t's thread state, in the
\* variables of its inner prange, in those of the section, or freed.
Quiet(t)  == t \notin raised /\ pending[t] = Nobody
InLoop(t) == /\ section.shape = "nested" /\ exc[t] = t /\ exc_lineno[t] = t
             /\ pending[t] = Nobody /\ exc[Section] # t /\ t \notin dropped
Taken(t)  == pending[t] = Nobody /\ exc[Section] = t /\ t \notin dropped
Late(t)   == /\ pending[t] = t /\ lineno[t] = t
             /\ exc[Section] \notin {t, Nobody} /\ t \notin dropped
Freed(t)  == pending[t] = Nobody /\ exc[Section] \notin {t, Nobody} /\ t \in dropped

BeforeTheLoop == {"begin", "before", "admitted", "body"}
AroundTheLoop == {"loop", "barrier", "passed", "inner"}

Raises(t) ==
  /\ t \in raised /\ pending[t] = t /\ lineno[t] = t
  /\ thread[t].exit = ERROR /\ t \notin dropped /\ exc[Section] # t
  /\ thread[t].scope = t => exc[t] = Nobody

Traps(t) ==
  IF thread[t].exit = ERROR
  THEN t \in raised /\ IF thread[t].scope = t THEN InLoop(t) ELSE Taken(t) \/ Late(t)
  ELSE Quiet(t) /\ (thread[t].scope = t => exc[t] = Nobody)

Loops(t) ==
  \/ Quiet(t) /\ exc[t] = Nobody
  \/ /\ t \in raised /\ why[LoopScope(t)] >= BREAK
     /\ IF section.shape = "nested" THEN InLoop(t) ELSE Taken(t) \/ Late(t)

\* Where each thread stands tells where its exception is.
Placed(t) ==
  /\ StandsAt(t, BeforeTheLoop) => Quiet(t) /\ exc[t] = Nobody
  /\ StandsAt(t, {"after"}) => Quiet(t)
  /\ StandsAt(t, {"fetch"}) => Raises(t)
  /\ StandsAt(t, {"trap"}) => Traps(t)
  /\ StandsAt(t, AroundTheLoop) => Loops(t)
  /\ StandsAt(t, {"end"}) => \/ Quiet(t)
                             \/ t \in raised /\ (Taken(t) \/ Late(t))
  /\ StandsAt(t, {"done"}) => \/ Quiet(t)
                              \/ t \in raised /\ (Taken(t) \/ Freed(t) \/ (Late(t) /\ t = Master))

\* The scopes a thread's exit is recorded in; "continue" is none of a loop.
Exits(t) ==
  /\ StandsAt(t, {"before", "after"}) => section.shape # "prange"
  /\ StandsAt(t, AroundTheLoop \cup {"admitted", "body"}) => section.shape # "parallel"
  /\ StandsAt(t, {"fetch", "trap"}) =>
       /\ thread[t].scope \in {t, Section}
       /\ thread[t].scope = t => section.shape = "nested"
       /\ thread[t].scope = LoopScope(t) /\ section.shape # "parallel" => thread[t].exit >= BREAK

\* The variables of the section and of the loops.
FirstKept ==
  /\ \A s \in Scopes : why[s] = ERROR => exc[s] # Nobody
  /\ exc[Section] # Nobody => exc[Section] \in raised /\ exc_lineno[Section] = exc[Section]
  /\ dropped \subseteq raised
  /\ section.shape # "nested" => \A t \in Team : exc[t] = Nobody

SectionInv ==
  /\ ParTypeOK
  /\ outcome = "none" => /\ \A t \in Team : Placed(t) /\ Exits(t)
                         /\ FirstKept
  /\ outcome # "none" => \A t \in Team : StandsAt(t, {"done"})
  /\ ErrorComesOut

-----------------------------------------------------------------------------
ThreadType == [at : Places, scope : Scopes, exit : 0 .. ERROR]

LEMMA TypesOf ==
  ASSUME ParTypeOK
  PROVE  /\ section.shape \in Shapes /\ section.keepsGil \in BOOLEAN
         /\ thread \in [Team -> ThreadType] /\ why \in [Scopes -> 0 .. ERROR]
         /\ pending \in [Team -> Team \cup {Nobody}] /\ lineno \in [Team -> Team \cup {Nobody}]
         /\ exc \in [Scopes -> Team \cup {Nobody}] /\ exc_lineno \in [Scopes -> Team \cup {Nobody}]
         /\ gil \in Team \cup {Nobody} /\ retval \in Team \cup {Nobody} /\ left \in 0 .. Iterations
         /\ raised \subseteq Team /\ dropped \subseteq Team /\ leaked \subseteq Team
BY DEF ParTypeOK, ThreadType

LEMMA TypesPut ==
  ASSUME section \in [shape : Shapes, keepsGil : BOOLEAN],
         thread \in [Team -> ThreadType], why \in [Scopes -> 0 .. ERROR],
         pending \in [Team -> Team \cup {Nobody}], lineno \in [Team -> Team \cup {Nobody}],
         exc \in [Scopes -> Team \cup {Nobody}], exc_lineno \in [Scopes -> Team \cup {Nobody}],
         gil \in Team \cup {Nobody}, retval \in Team \cup {Nobody}, left \in 0 .. Iterations,
         raised \subseteq Team, dropped \subseteq Team, leaked \subseteq Team
  PROVE  ParTypeOK
BY DEF ParTypeOK, ThreadType

\* What another thread does leaves a thread's exception where it is: only the
\* first exception gets into the variables of the section.
LEMMA OthersStay ==
  ASSUME NEW t \in Team, NEW u \in Team, u # t, Placed(u), Exits(u),
         thread'[u] = thread[u], pending'[u] = pending[u], lineno'[u] = lineno[u],
         section' = section, u \in raised' <=> u \in raised, u \in dropped' <=> u \in dropped,
         exc'[u] = exc[u], exc_lineno'[u] = exc_lineno[u],
         \/ exc'[Section] = exc[Section]
         \/ exc[Section] = Nobody /\ exc'[Section] = t,
         section.shape \in Shapes, why'[u] = why[u],
         section.shape = "prange" /\ why[Section] >= BREAK => why'[Section] >= BREAK
  PROVE  Placed(u)' /\ Exits(u)'
<1>0. u # Nobody /\ t # Nobody
  BY TeamAssumption
<1>1. Quiet(u)' <=> Quiet(u)
  BY DEF Quiet
<1>2. InLoop(u) => InLoop(u)'
  BY <1>0 DEF InLoop
<1>3. (Taken(u) => Taken(u)') /\ (Late(u) => Late(u)') /\ (Freed(u) => Freed(u)')
  BY <1>0 DEF Taken, Late, Freed
<1>4. Raises(u) => Raises(u)'
  BY <1>0 DEF Raises
<1>5. Traps(u) => Traps(u)'
  BY <1>1, <1>2, <1>3 DEF Traps
<1>6. StandsAt(u, AroundTheLoop) /\ Loops(u) => Loops(u)'
  <2>1. Exits(u) /\ StandsAt(u, AroundTheLoop) => section.shape # "parallel"
    BY DEF Exits, StandsAt
  <2>2. StandsAt(u, AroundTheLoop) /\ why[LoopScope(u)] >= BREAK
        => section.shape = "nested" \/ section.shape # "prange" \/ why'[LoopScope(u)'] >= BREAK
    BY DEF LoopScope
  <2>3. section.shape = "nested" /\ why[LoopScope(u)] >= BREAK => why'[LoopScope(u)'] >= BREAK
    BY DEF LoopScope
  <2> QED BY <1>1, <1>2, <1>3, <2>1, <2>2, <2>3 DEF Loops, Shapes
<1>7. Placed(u)'
  BY <1>1, <1>3, <1>4, <1>5, <1>6 DEF Placed, StandsAt
<1>8. Exits(u)'
  BY DEF Exits, StandsAt, LoopScope
<1> QED BY <1>7, <1>8

\* A thread moves, and its exception with it.
LEMMA ThreadMoves ==
  ASSUME SectionInv, outcome = "none", NEW t \in Team, ParTypeOK', outcome' = outcome,
         section' = section, \A u \in Team \ {t} : thread'[u] = thread[u],
         \A u \in Team \ {t} : pending'[u] = pending[u] /\ lineno'[u] = lineno[u],
         \A u \in Team \ {t} : (u \in raised' <=> u \in raised) /\ (u \in dropped' <=> u \in dropped),
         \A u \in Team \ {t} : exc'[u] = exc[u] /\ exc_lineno'[u] = exc_lineno[u] /\ why'[u] = why[u],
         \/ exc'[Section] = exc[Section]
         \/ exc[Section] = Nobody /\ exc'[Section] = t,
         section.shape = "prange" /\ why[Section] >= BREAK => why'[Section] >= BREAK,
         Placed(t)', Exits(t)', FirstKept'
  PROVE  SectionInv'
<1>0. section.shape \in Shapes
  BY TypesOf DEF SectionInv
<1>1. ASSUME NEW u \in Team PROVE Placed(u)' /\ Exits(u)'
  <2>1. CASE u = t
    BY <2>1
  <2>2. CASE u # t
    <3>1. Placed(u) /\ Exits(u)
      BY DEF SectionInv
    <3> QED BY <1>0, <2>2, <3>1, OthersStay
  <2> QED BY <2>1, <2>2
<1> QED BY <1>1 DEF SectionInv, ErrorComesOut

\* A thread goes on and no exception moves, nor is an exit recorded.
LEMMA ThreadGoes ==
  ASSUME SectionInv, outcome = "none", NEW t \in Team, NEW place \in ThreadType,
         thread' = [thread EXCEPT ![t] = place],
         UNCHANGED <<excVars, section, outcome, leaked, why>>,
         gil' \in Team \cup {Nobody}, retval' \in Team \cup {Nobody}, left' \in 0 .. Iterations,
         Placed(t)', Exits(t)'
  PROVE  SectionInv'
<1>1. thread' \in [Team -> ThreadType] /\ \A u \in Team \ {t} : thread'[u] = thread[u]
  BY TypesOf DEF SectionInv
<1>2. section \in [shape : Shapes, keepsGil : BOOLEAN]
  BY DEF SectionInv, ParTypeOK
<1>3. ParTypeOK'
  <2>1. ParTypeOK
    BY DEF SectionInv
  <2> QED BY <1>1, <1>2, <2>1, TypesOf DEF excVars, ParTypeOK, ThreadType
<1>4. FirstKept'
  BY DEF SectionInv, FirstKept, excVars
<1> QED BY <1>1, <1>3, <1>4, ThreadMoves DEF excVars

\* ... from one of the places without an exit to another.
LEMMA GoesOn ==
  ASSUME SectionInv, outcome = "none", NEW t \in Team, NEW to \in Places, Goes(t, to),
         UNCHANGED <<excVars, section, outcome, leaked, why>>,
         gil' \in Team \cup {Nobody}, retval' \in Team \cup {Nobody}, left' \in 0 .. Iterations,
         \/ Quiet(t) /\ exc[t] = Nobody /\ to \in BeforeTheLoop \cup AroundTheLoop \cup {"end"}
         \/ Quiet(t) /\ to = "end"
         \/ StandsAt(t, AroundTheLoop) /\ to \in AroundTheLoop,
         to = "before" => section.shape # "prange",
         to \in AroundTheLoop \cup {"admitted", "body"} => section.shape # "parallel"
  PROVE  SectionInv'
<1>1. Placed(t) /\ Exits(t) /\ thread[t] \in ThreadType /\ thread \in [Team -> ThreadType]
  BY TypesOf DEF SectionInv
<1> DEFINE place == [thread[t] EXCEPT !.at = to]
<1>2. place \in ThreadType
  BY <1>1 DEF ThreadType
<1>3. thread' = [thread EXCEPT ![t] = place] /\ thread'[t] = place /\ place.at = to
  BY <1>1 DEF Goes, ThreadType
<1>4. StandsAt(t, AroundTheLoop) => Loops(t)
  BY <1>1 DEF Placed
<1>5. (Quiet(t) => Quiet(t)') /\ (Loops(t) => Loops(t)')
  BY DEF Quiet, Loops, InLoop, Taken, Late, LoopScope, excVars
<1>6. \A S : StandsAt(t, S)' <=> to \in S
  BY <1>3 DEF StandsAt
<1> HIDE DEF place
<1>7. Placed(t)'
  <2>1. CASE Quiet(t) /\ exc[t] = Nobody /\ to \in BeforeTheLoop \cup AroundTheLoop \cup {"end"}
    <3>1. Loops(t)'
      BY <1>5, <2>1 DEF Loops, excVars
    <3> QED BY <1>5, <1>6, <2>1, <3>1 DEF Placed, BeforeTheLoop, AroundTheLoop, excVars
  <2>2. CASE Quiet(t) /\ to = "end"
    BY <1>5, <1>6, <2>2 DEF Placed, BeforeTheLoop, AroundTheLoop, excVars
  <2>3. CASE StandsAt(t, AroundTheLoop) /\ to \in AroundTheLoop
    BY <1>4, <1>5, <1>6, <2>3 DEF Placed, BeforeTheLoop, AroundTheLoop
  <2> QED BY <2>1, <2>2, <2>3
<1>8. Exits(t)'
  BY <1>6 DEF Exits, BeforeTheLoop, AroundTheLoop
<1> QED BY <1>2, <1>3, <1>7, <1>8, ThreadGoes

LEMMA BeginThreadStep ==
  ASSUME SectionInv, outcome = "none", NEW t \in Team, BeginThread(t) PROVE SectionInv'
<1>1. ParTypeOK /\ Placed(t)
  BY DEF SectionInv
<1> DEFINE to == IF section.shape = "prange" THEN "loop" ELSE "before"
<1>2. Quiet(t) /\ exc[t] = Nobody
  BY <1>1 DEF Placed, BeginThread, StandsAt, BeforeTheLoop
<1>3. to \in Places /\ Goes(t, to) /\ UNCHANGED <<excVars, section, outcome, leaked, why>>
      /\ UNCHANGED <<left, retval>>
  BY DEF BeginThread, Places, restVars
<1>4. gil' \in Team \cup {Nobody}
  BY DEF BeginThread
<1>5. /\ to \in BeforeTheLoop \cup AroundTheLoop \cup {"end"}
      /\ to = "before" => section.shape # "prange"
      /\ to \in AroundTheLoop \cup {"admitted", "body"} => section.shape # "parallel"
  BY DEF BeforeTheLoop, AroundTheLoop
<1>6. retval' \in Team \cup {Nobody} /\ left' \in 0 .. Iterations
  BY <1>1, <1>3, TypesOf
<1> HIDE DEF to
<1> QED BY <1>2, <1>3, <1>4, <1>5, <1>6, GoesOn

LEMMA ReachLoopStep ==
  ASSUME SectionInv, outcome = "none", NEW t \in Team, ReachLoop(t) PROVE SectionInv'
<1>1. ParTypeOK /\ Placed(t)
  BY DEF SectionInv
<1>2. Quiet(t) /\ exc[t] = Nobody
  BY <1>1 DEF Placed, ReachLoop, StandsAt, BeforeTheLoop
<1>3. "loop" \in Places /\ Goes(t, "loop") /\ UNCHANGED <<excVars, section, outcome, leaked, why>>
      /\ UNCHANGED <<left, retval>>
  BY DEF ReachLoop, Places, restVars
<1>4. gil' \in Team \cup {Nobody} /\ retval' \in Team \cup {Nobody} /\ left' \in 0 .. Iterations
  BY <1>1, <1>3, TypesOf DEF ReachLoop
<1>5. "loop" \in AroundTheLoop /\ section.shape # "parallel"
  BY DEF AroundTheLoop, ReachLoop
<1> QED BY <1>2, <1>3, <1>4, <1>5, GoesOn

LEMMA NextIterationStep ==
  ASSUME SectionInv, outcome = "none", NEW t \in Team, NextIteration(t) PROVE SectionInv'
<1>1. ParTypeOK /\ Placed(t) /\ Exits(t)
  BY DEF SectionInv
<1>2. StandsAt(t, AroundTheLoop) /\ StandsAt(t, {"loop"}) /\ Loops(t) /\ section.shape # "parallel"
  BY <1>1 DEF Placed, Exits, NextIteration, StandsAt, AroundTheLoop
<1>3. UNCHANGED <<excVars, section, outcome, leaked, why>> /\ UNCHANGED <<gil, retval>>
  BY DEF NextIteration
<1>4. gil' \in Team \cup {Nobody} /\ retval' \in Team \cup {Nobody} /\ left' \in 0 .. Iterations
  <2>1. left' = left - 1 /\ left > 0 /\ left \in 0 .. Iterations /\ Iterations \in Nat
    BY <1>1, TypesOf, TeamAssumption DEF NextIteration
  <2> QED BY <1>1, <1>3, <2>1, TypesOf
<1>5. CASE Admits(t)
  <2>1. LoopScope(t) \in Scopes
    BY DEF LoopScope, Scopes
  <2>2. why[LoopScope(t)] \in Nat
    BY <1>1, <2>1, TypesOf DEF ERROR
  <2>3. Quiet(t) /\ exc[t] = Nobody
    BY <1>2, <1>5, <2>2 DEF Loops, Admits, BREAK
  <2>4. "admitted" \in Places /\ Goes(t, "admitted") /\ "admitted" \in BeforeTheLoop
        /\ "admitted" \notin AroundTheLoop
    BY <1>5 DEF NextIteration, Places, BeforeTheLoop, AroundTheLoop
  <2> QED BY <1>2, <1>3, <1>4, <2>3, <2>4, GoesOn
<1>6. CASE ~Admits(t)
  <2>1. Goes(t, "loop") /\ "loop" \in Places /\ "loop" \in AroundTheLoop
    <3>1. thread' = thread /\ thread[t].at = "loop" /\ thread \in [Team -> ThreadType]
      BY <1>1, <1>2, <1>6, TypesOf DEF NextIteration, StandsAt
    <3> QED BY <3>1 DEF Goes, Places, AroundTheLoop, ThreadType
  <2> QED BY <1>2, <1>3, <1>4, <2>1, GoesOn
<1> QED BY <1>5, <1>6

LEMMA BeginBodyStep ==
  ASSUME SectionInv, outcome = "none", NEW t \in Team, BeginBody(t) PROVE SectionInv'
<1>1. ParTypeOK /\ Placed(t) /\ Exits(t)
  BY DEF SectionInv
<1>2. Quiet(t) /\ exc[t] = Nobody /\ section.shape # "parallel"
  BY <1>1 DEF Placed, Exits, BeginBody, StandsAt, BeforeTheLoop
<1>3. "body" \in Places /\ Goes(t, "body") /\ UNCHANGED <<excVars, section, outcome, leaked, why>>
      /\ UNCHANGED <<left, retval>>
  BY DEF BeginBody, Places, restVars
<1>4. gil' \in Team \cup {Nobody} /\ retval' \in Team \cup {Nobody} /\ left' \in 0 .. Iterations
  BY <1>1, <1>3, TypesOf DEF BeginBody
<1>5. "body" \in BeforeTheLoop
  BY DEF BeforeTheLoop
<1> QED BY <1>2, <1>3, <1>4, <1>5, GoesOn

LEMMA SwitchStep ==
  ASSUME SectionInv, outcome = "none", NEW t \in Team, Switch(t) PROVE SectionInv'
<1>1. ParTypeOK /\ Placed(t) /\ Exits(t)
  BY DEF SectionInv
<1>2. UNCHANGED <<thread, excVars, section, outcome, leaked, why, left, retval>>
  BY DEF Switch, restVars
<1>3. thread[t] \in ThreadType /\ thread' = [thread EXCEPT ![t] = thread[t]]
  BY <1>1, <1>2, TypesOf
<1>4. gil' \in Team \cup {Nobody} /\ retval' \in Team \cup {Nobody} /\ left' \in 0 .. Iterations
  BY <1>1, <1>2, TypesOf DEF Switch
<1>5. Placed(t)' /\ Exits(t)'
  BY <1>1, <1>2 DEF Placed, Exits, StandsAt, Quiet, Raises, Traps, Loops, InLoop, Taken, Late, Freed,
     LoopScope, excVars
<1> QED BY <1>2, <1>3, <1>4, <1>5, ThreadGoes

LEMMA FinishBodyStep ==
  ASSUME SectionInv, outcome = "none", NEW t \in Team, FinishBody(t) PROVE SectionInv'
<1>1. ParTypeOK /\ Placed(t) /\ Exits(t)
  BY DEF SectionInv
<1>2. UNCHANGED <<excVars, section, outcome, leaked, why, left, retval, gil>>
  BY DEF FinishBody, restVars
<1>3. gil' \in Team \cup {Nobody} /\ retval' \in Team \cup {Nobody} /\ left' \in 0 .. Iterations
  BY <1>1, <1>2, TypesOf
<1>4. CASE StandsAt(t, {"body"}) /\ Goes(t, "loop")
  <2>1. Quiet(t) /\ exc[t] = Nobody /\ section.shape # "parallel"
    BY <1>1, <1>4 DEF Placed, Exits, StandsAt, BeforeTheLoop
  <2>2. "loop" \in Places /\ "loop" \in AroundTheLoop
    BY DEF Places, AroundTheLoop
  <2> QED BY <1>2, <1>3, <1>4, <2>1, <2>2, GoesOn
<1>5. CASE StandsAt(t, {"before", "after"}) /\ Goes(t, "end")
  <2>1. Quiet(t)
    BY <1>1, <1>5 DEF Placed, StandsAt, BeforeTheLoop
  <2>2. "end" \in Places /\ "end" \notin AroundTheLoop
    BY DEF Places, AroundTheLoop
  <2> QED BY <1>2, <1>3, <1>5, <2>1, <2>2, GoesOn
<1> QED BY <1>4, <1>5 DEF FinishBody, StandsAt

LEMMA BarrierStep ==
  ASSUME SectionInv, outcome = "none", NEW t \in Team,
         LeavePrange(t) \/ PassBarrier(t) \/ RestoreThread(t)
  PROVE  SectionInv'
<1>1. ParTypeOK /\ Placed(t) /\ Exits(t)
  BY DEF SectionInv
<1>2. UNCHANGED <<excVars, section, outcome, leaked, why, left, retval>>
  BY DEF LeavePrange, PassBarrier, RestoreThread, restVars
<1>3. gil' \in Team \cup {Nobody} /\ retval' \in Team \cup {Nobody} /\ left' \in 0 .. Iterations
  BY <1>1, <1>2, TypesOf DEF LeavePrange, PassBarrier, RestoreThread
<1>4. PICK to \in {"barrier", "passed", "inner"} : Goes(t, to)
  BY DEF LeavePrange, PassBarrier, RestoreThread
<1>5. StandsAt(t, AroundTheLoop) /\ section.shape # "parallel"
  BY <1>1 DEF LeavePrange, PassBarrier, RestoreThread, StandsAt, AroundTheLoop, Exits
<1>6. to \in Places /\ to \in AroundTheLoop /\ to # "before"
  BY DEF Places, AroundTheLoop
<1> QED BY <1>2, <1>3, <1>4, <1>5, <1>6, GoesOn

LEMMA ExitStep ==
  ASSUME SectionInv, outcome = "none", NEW t \in Team,
         (\E exit \in {CONTINUE, BREAK} : JumpOut(t, exit)) \/ Return(t)
  PROVE  SectionInv'
<1>1. ParTypeOK /\ Placed(t) /\ Exits(t) /\ thread \in [Team -> ThreadType] /\ t # Nobody
  BY TypesOf, TeamAssumption DEF SectionInv
<1>2. UNCHANGED <<excVars, section, outcome, leaked, why, left, gil>>
      /\ retval' \in Team \cup {Nobody}
  BY <1>1, TypesOf DEF JumpOut, Return, restVars
<1>3. gil' \in Team \cup {Nobody} /\ left' \in 0 .. Iterations
  BY <1>1, <1>2, TypesOf
<1>4. PICK exit \in {CONTINUE, BREAK, RETURN} :
         /\ MayExit(t) /\ TakesExit(t, "trap", exit)
         /\ exit = CONTINUE => ~StandsAt(t, {"body"})
  BY DEF JumpOut, Return, RETURN, CONTINUE
<1> DEFINE place == [at |-> "trap", scope |-> ExitScope(t), exit |-> exit]
<1>5. ExitScope(t) \in {t, Section} /\ (ExitScope(t) = t => StandsAt(t, {"body"}) /\ section.shape = "nested")
  BY <1>1 DEF ExitScope, LoopScope, Section
<1>6. place \in ThreadType /\ thread' = [thread EXCEPT ![t] = place]
  BY <1>4, <1>5 DEF TakesExit, ThreadType, Places, Scopes, CONTINUE, BREAK, RETURN, ERROR
<1>7. thread'[t].at = "trap" /\ thread'[t].scope = ExitScope(t) /\ thread'[t].exit = exit /\ exit # ERROR
  BY <1>1, <1>4, <1>6 DEF CONTINUE, BREAK, RETURN, ERROR
<1>8. Quiet(t) /\ (StandsAt(t, {"body"}) => exc[t] = Nobody) /\ StandsAt(t, UserCode)
  BY <1>1, <1>4 DEF Placed, MayExit, Runs, StandsAt, UserCode, BeforeTheLoop
<1>9. Placed(t)'
  <2>1. Quiet(t)' /\ (thread'[t].scope = t => exc'[t] = Nobody)
    BY <1>2, <1>5, <1>7, <1>8 DEF Quiet, excVars
  <2>2. Traps(t)'
    BY <1>7, <2>1 DEF Traps
  <2> QED BY <1>7, <2>2 DEF Placed, StandsAt, BeforeTheLoop, AroundTheLoop
<1>10. Exits(t)'
  <2>1. thread'[t].scope = LoopScope(t)' /\ section'.shape # "parallel" => thread'[t].exit >= BREAK
    <3>1. CASE exit # CONTINUE
      BY <1>4, <1>7, <3>1 DEF CONTINUE, BREAK, RETURN
    <3>2. CASE exit = CONTINUE
      <4>1. ExitScope(t) = Section /\ ~StandsAt(t, {"body"}) /\ section.shape # "prange"
        BY <1>1, <1>4, <1>8, <3>2 DEF ExitScope, StandsAt, UserCode, Exits
      <4> QED BY <1>1, <1>2, <1>7, <4>1, TypesOf DEF LoopScope, Section, Shapes
    <3> QED BY <3>1, <3>2
  <2> QED BY <1>2, <1>5, <1>7, <2>1 DEF Exits, StandsAt, AroundTheLoop
<1> HIDE DEF place
<1> QED BY <1>2, <1>3, <1>6, <1>9, <1>10, ThreadGoes

LEMMA RaiseStep ==
  ASSUME SectionInv, outcome = "none", NEW t \in Team, Raise(t)
  PROVE  SectionInv'
<1>1. ParTypeOK /\ Placed(t) /\ Exits(t) /\ FirstKept /\ thread \in [Team -> ThreadType] /\ t # Nobody
  BY TypesOf, TeamAssumption DEF SectionInv
<1>2. /\ UNCHANGED <<exc, exc_lineno, dropped, section, left, retval, outcome, leaked, gil, why>>
      /\ pending' = [pending EXCEPT ![t] = t] /\ lineno' = [lineno EXCEPT ![t] = t]
      /\ raised' = raised \cup {t}
      /\ thread' = [thread EXCEPT ![t] = [at |-> "fetch", scope |-> ExitScope(t), exit |-> ERROR]]
  BY DEF Raise, restVars, LinenoOf, TakesExit
<1>3. ExitScope(t) \in {t, Section} /\ (ExitScope(t) = t => StandsAt(t, {"body"}) /\ section.shape = "nested")
  BY <1>1 DEF ExitScope, LoopScope, Section
<1>4. ParTypeOK'
  <2>1. [at |-> "fetch", scope |-> ExitScope(t), exit |-> ERROR] \in ThreadType
    BY <1>3 DEF ThreadType, Places, Scopes, ERROR
  <2>2. thread' \in [Team -> ThreadType]
    BY <1>1, <1>2, <2>1
  <2> QED BY <1>1, <1>2, <2>2 DEF ParTypeOK, ThreadType
<1>5. Quiet(t) /\ (StandsAt(t, {"body"}) => exc[t] = Nobody)
  BY <1>1 DEF Raise, Placed, MayExit, Runs, StandsAt, UserCode, BeforeTheLoop
<1>6. /\ thread'[t] = [at |-> "fetch", scope |-> ExitScope(t), exit |-> ERROR]
      /\ pending'[t] = t /\ lineno'[t] = t
      /\ \A u \in Team \ {t} : thread'[u] = thread[u] /\ pending'[u] = pending[u] /\ lineno'[u] = lineno[u]
  BY <1>1, <1>2, TypesOf
<1>7. t \notin dropped /\ exc[Section] # t
  BY <1>1, <1>5 DEF Quiet, FirstKept
<1>8. Raises(t)'
  BY <1>2, <1>3, <1>5, <1>6, <1>7 DEF Raises
<1>9. Placed(t)'
  BY <1>6, <1>8 DEF Placed, StandsAt, BeforeTheLoop, AroundTheLoop
<1>10. Exits(t)'
  BY <1>2, <1>3, <1>6 DEF Exits, StandsAt, AroundTheLoop, LoopScope, BREAK, ERROR
<1>11. FirstKept'
  BY <1>1, <1>2 DEF FirstKept
<1> QED BY <1>2, <1>4, <1>6, <1>9, <1>10, <1>11, ThreadMoves

LEMMA FetchStep ==
  ASSUME SectionInv, outcome = "none", NEW t \in Team, FetchException(t)
  PROVE  SectionInv'
<1>1. ParTypeOK /\ Placed(t) /\ Exits(t) /\ FirstKept /\ thread \in [Team -> ThreadType] /\ t # Nobody
  BY TypesOf, TeamAssumption DEF SectionInv
<1> DEFINE s == thread[t].scope
<1>2. Raises(t) /\ s \in {t, Section} /\ s \in Scopes /\ (s = t => section.shape = "nested")
  BY <1>1 DEF FetchException, Placed, Exits, StandsAt, Scopes
<1>3. /\ UNCHANGED <<lineno, raised, dropped, section, left, retval, outcome, leaked, gil, why>>
      /\ thread' = [thread EXCEPT ![t].at = "trap"]
  BY DEF FetchException, restVars, Goes
<1>4. /\ thread' \in [Team -> ThreadType] /\ thread'[t].at = "trap"
      /\ thread'[t].scope = s /\ thread'[t].exit = ERROR
      /\ \A u \in Team \ {t} : thread'[u] = thread[u]
  BY <1>1, <1>2, <1>3 DEF ThreadType, Places, Raises
<1>5. Exits(t)'
  BY <1>2, <1>3, <1>4 DEF Exits, StandsAt, AroundTheLoop, LoopScope, BREAK, ERROR
<1>6. CASE exc[s] = Nobody
  <2>1. /\ exc' = [exc EXCEPT ![s] = t] /\ exc_lineno' = [exc_lineno EXCEPT ![s] = t]
        /\ pending' = [pending EXCEPT ![t] = Nobody]
    BY <1>2, <1>6 DEF FetchException, Raises
  <2>2. /\ exc'[s] = t /\ exc_lineno'[s] = t /\ pending'[t] = Nobody
        /\ \A u \in Scopes \ {s} : exc'[u] = exc[u] /\ exc_lineno'[u] = exc_lineno[u]
        /\ \A u \in Team \ {t} : pending'[u] = pending[u]
    BY <1>1, <1>2, <2>1, TypesOf
  <2>3. ParTypeOK'
    BY <1>1, <1>2, <1>3, <1>4, <2>1 DEF ParTypeOK, ThreadType
  <2>4. Traps(t)'
    BY <1>1, <1>2, <1>3, <1>4, <2>2 DEF Traps, Raises, InLoop, Taken, Section, Scopes
  <2>5. Placed(t)'
    BY <1>4, <2>4 DEF Placed, StandsAt, BeforeTheLoop, AroundTheLoop
  <2>6. FirstKept'
    <3>1. section.shape # "nested" => \A u \in Team : u \in Scopes \ {s}
      BY <1>2, TeamAssumption DEF Scopes, Section
    <3>2. section.shape # "nested" => \A u \in Team : exc'[u] = Nobody
      BY <1>1, <2>2, <3>1 DEF FirstKept
    <3> QED BY <1>1, <1>2, <1>3, <2>2, <3>2 DEF FirstKept, Raises, Section, Scopes
  <2>7. exc'[Section] = exc[Section] \/ (exc[Section] = Nobody /\ exc'[Section] = t)
    BY <1>1, <1>2, <1>6, <2>2 DEF Scopes, Section
  <2>8. \A u \in Team \ {t} : exc'[u] = exc[u] /\ exc_lineno'[u] = exc_lineno[u]
    BY <1>2, <2>2, TeamAssumption DEF Scopes, Section
  <2> HIDE DEF s
  <2> QED BY <1>3, <1>4, <1>5, <2>2, <2>3, <2>5, <2>6, <2>7, <2>8, ThreadMoves
<1>7. CASE exc[s] # Nobody
  <2>1. UNCHANGED <<exc, exc_lineno, pending>>
    BY <1>7 DEF FetchException
  <2>2. ParTypeOK'
    BY <1>1, <1>3, <1>4, <2>1 DEF ParTypeOK, ThreadType
  <2>3. Traps(t)'
    BY <1>1, <1>2, <1>3, <1>4, <1>7, <2>1 DEF Traps, Raises, Late, Section
  <2>4. Placed(t)'
    BY <1>4, <2>3 DEF Placed, StandsAt, BeforeTheLoop, AroundTheLoop
  <2>5. FirstKept'
    BY <1>1, <1>3, <2>1 DEF FirstKept
  <2> HIDE DEF s
  <2> QED BY <1>3, <1>4, <1>5, <2>1, <2>2, <2>4, <2>5, ThreadMoves
<1> QED BY <1>6, <1>7

LEMMA TrapStep ==
  ASSUME SectionInv, outcome = "none", NEW t \in Team, TrapExit(t)
  PROVE  SectionInv'
<1>1. ParTypeOK /\ Placed(t) /\ Exits(t) /\ FirstKept /\ thread \in [Team -> ThreadType] /\ t # Nobody
  BY TypesOf, TeamAssumption DEF SectionInv
<1> DEFINE s == thread[t].scope
           to == IF section.shape = "prange" \/ s # Section THEN "loop" ELSE "end"
<1>2. /\ Traps(t) /\ s \in {t, Section} /\ s \in Scopes /\ (s = t => section.shape = "nested")
      /\ s = LoopScope(t) /\ section.shape # "parallel" => thread[t].exit >= BREAK
  BY <1>1 DEF TrapExit, Placed, Exits, StandsAt, Scopes
<1>3. /\ UNCHANGED <<excVars, section, left, retval, outcome, leaked, gil>>
      /\ why' = [why EXCEPT ![s] = thread[t].exit]
      /\ thread' = [thread EXCEPT ![t].at = to]
  BY DEF TrapExit, restVars, Goes
<1>4. /\ thread' \in [Team -> ThreadType] /\ thread'[t].at = to
      /\ \A u \in Team \ {t} : thread'[u] = thread[u]
  BY <1>1, <1>3 DEF ThreadType, Places
<1>5. thread[t].exit \in 0 .. ERROR /\ why'[s] = thread[t].exit
      /\ \A u \in Scopes \ {s} : why'[u] = why[u]
  BY <1>1, <1>2, <1>3, TypesOf DEF ThreadType
<1>6. ParTypeOK'
  BY <1>1, <1>2, <1>3, <1>4, <1>5, TypesOf DEF ParTypeOK, ThreadType, excVars
<1>7. Exits(t)'
  <2>1. to = "loop" => section.shape # "parallel"
    BY <1>2
  <2> QED BY <1>3, <1>4, <2>1 DEF Exits, StandsAt, AroundTheLoop
<1>8. Placed(t)'
  <2>1. to = "loop" => s = LoopScope(t) /\ section.shape \in {"prange", "nested"}
    BY <1>1, <1>2, TypesOf DEF LoopScope, Section, Shapes
  <2>2. to = "loop" => why'[LoopScope(t)'] >= BREAK
    BY <1>2, <1>3, <1>5, <2>1 DEF LoopScope
  <2>3. to = "loop" => Loops(t)'
    <3>1. CASE thread[t].exit = ERROR
      BY <1>1, <1>2, <1>3, <2>1, <2>2, <3>1
         DEF Traps, Loops, InLoop, Taken, Late, excVars, LoopScope, Section
    <3>2. CASE thread[t].exit # ERROR
      <4>1. to = "loop" => exc[t] = Nobody
        BY <1>1, <1>2, <2>1, <3>2 DEF Traps, LoopScope, FirstKept
      <4> QED BY <1>2, <1>3, <3>2, <4>1 DEF Traps, Loops, Quiet, excVars
    <3> QED BY <3>1, <3>2
  <2>4. to = "end" => Quiet(t)' \/ (t \in raised' /\ (Taken(t)' \/ Late(t)'))
    BY <1>1, <1>2, <1>3 DEF Traps, Quiet, Taken, Late, excVars, Section
  <2> HIDE DEF s
  <2> QED BY <1>4, <2>3, <2>4 DEF Placed, StandsAt, BeforeTheLoop, AroundTheLoop
<1>9. FirstKept'
  <2>1. thread[t].exit = ERROR => exc[s] # Nobody
    BY <1>1, <1>2 DEF Traps, InLoop, Taken, Late, Section
  <2> QED BY <1>1, <1>3, <1>5, <2>1 DEF FirstKept, excVars
<1>10. \A u \in Team \ {t} : why'[u] = why[u]
  BY <1>2, <1>5, TeamAssumption DEF Scopes, Section
<1>11. section.shape = "prange" /\ why[Section] >= BREAK => why'[Section] >= BREAK
  BY <1>2, <1>5 DEF LoopScope, Scopes
<1> HIDE DEF s, to
<1> QED BY <1>3, <1>4, <1>6, <1>7, <1>8, <1>9, <1>10, <1>11, ThreadMoves DEF excVars

LEMMA EndPrangeStep ==
  ASSUME SectionInv, outcome = "none", NEW t \in Team, EndPrange(t)
  PROVE  SectionInv'
<1>1. ParTypeOK /\ Placed(t) /\ Exits(t) /\ FirstKept /\ thread \in [Team -> ThreadType] /\ t # Nobody
  BY TypesOf, TeamAssumption DEF SectionInv
<1>2. Loops(t)
  BY <1>1 DEF EndPrange, Placed, StandsAt, AroundTheLoop
<1>3. UNCHANGED <<exc, exc_lineno, raised, dropped, section, left, retval, outcome, leaked, gil, why>>
  BY DEF EndPrange, restVars
<1>4. CASE section.shape = "prange" /\ Goes(t, "end") /\ UNCHANGED <<pending, lineno>>
  <2>1. thread' = [thread EXCEPT ![t].at = "end"]
    BY <1>4 DEF Goes
  <2>2. /\ thread' \in [Team -> ThreadType] /\ thread'[t].at = "end"
        /\ \A u \in Team \ {t} : thread'[u] = thread[u]
    BY <1>1, <2>1 DEF ThreadType, Places
  <2>3. ParTypeOK'
    BY <1>1, <1>3, <1>4, <2>2 DEF ParTypeOK, ThreadType
  <2>4. Quiet(t)' \/ (t \in raised' /\ (Taken(t)' \/ Late(t)'))
    BY <1>2, <1>3, <1>4 DEF Loops, Quiet, Taken, Late
  <2>5. Placed(t)' /\ Exits(t)'
    BY <2>2, <2>4 DEF Placed, Exits, StandsAt, BeforeTheLoop, AroundTheLoop
  <2>6. FirstKept'
    BY <1>1, <1>3 DEF FirstKept
  <2> QED BY <1>3, <1>4, <2>2, <2>3, <2>5, <2>6, ThreadMoves
<1>5. CASE /\ section.shape = "nested" /\ exc[t] # Nobody
           /\ pending' = [pending EXCEPT ![t] = exc[t]]
           /\ lineno' = [lineno EXCEPT ![t] = exc_lineno[t]]
           /\ thread' = [thread EXCEPT ![t] = [at |-> "fetch", scope |-> Section, exit |-> ERROR]]
  <2>1. t \in raised /\ InLoop(t)
    BY <1>2, <1>5 DEF Loops
  <2>2. [at |-> "fetch", scope |-> Section, exit |-> ERROR] \in ThreadType
    BY DEF ThreadType, Places, Scopes, ERROR
  <2>3. /\ thread' \in [Team -> ThreadType]
        /\ thread'[t] = [at |-> "fetch", scope |-> Section, exit |-> ERROR]
        /\ pending'[t] = t /\ lineno'[t] = t
        /\ \A u \in Team \ {t} : /\ thread'[u] = thread[u] /\ pending'[u] = pending[u]
                                 /\ lineno'[u] = lineno[u]
    BY <1>1, <1>5, <2>1, <2>2, TypesOf DEF InLoop
  <2>4. ParTypeOK'
    <3>1. pending' \in [Team -> Team \cup {Nobody}] /\ lineno' \in [Team -> Team \cup {Nobody}]
      BY <1>1, <1>5, <2>1, TypesOf DEF InLoop
    <3> QED BY <1>1, <1>3, <2>3, <3>1 DEF ParTypeOK, ThreadType
  <2>5. Raises(t)'
    BY <1>1, <1>3, <2>1, <2>3 DEF Raises, InLoop, Section
  <2>6. Placed(t)'
    BY <2>3, <2>5 DEF Placed, StandsAt, BeforeTheLoop, AroundTheLoop
  <2>7. Exits(t)'
    BY <1>1, <2>3 DEF Exits, StandsAt, AroundTheLoop, Section, ERROR, BREAK
  <2>8. FirstKept'
    BY <1>1, <1>3 DEF FirstKept
  <2> QED BY <1>3, <2>3, <2>4, <2>6, <2>7, <2>8, ThreadMoves
<1>6. CASE /\ section.shape = "nested" /\ exc[t] = Nobody /\ UNCHANGED <<pending, lineno>>
           /\ thread' = [thread EXCEPT ![t] =
                 IF why[t] = RETURN THEN [at |-> "trap", scope |-> Section, exit |-> RETURN]
                 ELSE [@ EXCEPT !.at = "after"]]
  <2>1. Quiet(t)
    BY <1>1, <1>2, <1>6 DEF Loops, InLoop
  <2> DEFINE place == IF why[t] = RETURN THEN [at |-> "trap", scope |-> Section, exit |-> RETURN]
                      ELSE [thread[t] EXCEPT !.at = "after"]
  <2>2. place \in ThreadType /\ thread' = [thread EXCEPT ![t] = place]
    BY <1>1, <1>6 DEF ThreadType, Places, Scopes, RETURN, ERROR
  <2>3. /\ thread'[t] = place /\ place.at \in {"trap", "after"}
        /\ place.at = "trap" => place.scope = Section /\ place.exit = RETURN
    BY <1>1, <2>2 DEF ThreadType
  <2> HIDE DEF place
  <2>4. Quiet(t)'
    BY <1>3, <1>6, <2>1 DEF Quiet
  <2>5. place.at = "trap" => Traps(t)'
    BY <1>1, <2>3, <2>4 DEF Traps, Section, RETURN, ERROR
  <2>6. Placed(t)'
    BY <2>3, <2>4, <2>5 DEF Placed, StandsAt, BeforeTheLoop, AroundTheLoop
  <2>7. Exits(t)'
    BY <1>1, <1>3, <1>6, <2>3 DEF Exits, StandsAt, AroundTheLoop, Section, RETURN, BREAK
  <2>8. gil' \in Team \cup {Nobody} /\ retval' \in Team \cup {Nobody} /\ left' \in 0 .. Iterations
    BY <1>1, <1>3, TypesOf
  <2> QED BY <1>3, <1>6, <2>2, <2>6, <2>7, <2>8, ThreadGoes DEF excVars
<1>7. \/ section.shape = "prange" /\ Goes(t, "end") /\ UNCHANGED <<pending, lineno>>
      \/ /\ section.shape = "nested" /\ exc[t] # Nobody
         /\ pending' = [pending EXCEPT ![t] = exc[t]]
         /\ lineno' = [lineno EXCEPT ![t] = exc_lineno[t]]
         /\ thread' = [thread EXCEPT ![t] = [at |-> "fetch", scope |-> Section, exit |-> ERROR]]
      \/ /\ section.shape = "nested" /\ exc[t] = Nobody /\ UNCHANGED <<pending, lineno>>
         /\ thread' = [thread EXCEPT ![t] =
               IF why[t] = RETURN THEN [at |-> "trap", scope |-> Section, exit |-> RETURN]
               ELSE [@ EXCEPT !.at = "after"]]
  BY DEF EndPrange
<1> QED BY <1>4, <1>5, <1>6, <1>7

LEMMA EndThreadStep ==
  ASSUME SectionInv, outcome = "none", NEW t \in Team, EndThread(t)
  PROVE  SectionInv'
<1>1. ParTypeOK /\ Placed(t) /\ Exits(t) /\ FirstKept /\ thread \in [Team -> ThreadType] /\ t # Nobody
  BY TypesOf, TeamAssumption DEF SectionInv
<1>2. Quiet(t) \/ (t \in raised /\ (Taken(t) \/ Late(t)))
  BY <1>1 DEF EndThread, Placed, StandsAt
<1>3. /\ UNCHANGED <<lineno, exc, exc_lineno, raised, section, left, retval, outcome, leaked, why>>
      /\ gil' = Nobody /\ thread' = [thread EXCEPT ![t].at = "done"]
  BY DEF EndThread, restVars, Goes
<1>4. /\ thread' \in [Team -> ThreadType] /\ thread'[t].at = "done"
      /\ \A u \in Team \ {t} : thread'[u] = thread[u]
  BY <1>1, <1>3 DEF ThreadType, Places
<1>5. pending[t] \in {t, Nobody}
  BY <1>2 DEF Quiet, Taken, Late
<1>6. \/ t = Master /\ UNCHANGED <<pending, dropped>>
      \/ /\ t # Master /\ pending' = [pending EXCEPT ![t] = Nobody]
         /\ dropped' = dropped \cup ({pending[t]} \ {Nobody})
  BY DEF EndThread
<1>7. /\ pending' \in [Team -> Team \cup {Nobody}] /\ dropped' \subseteq Team
      /\ \A u \in Team \ {t} : pending'[u] = pending[u] /\ (u \in dropped' <=> u \in dropped)
  BY <1>1, <1>5, <1>6, TypesOf
<1>8. ParTypeOK'
  BY <1>1, <1>3, <1>4, <1>7 DEF ParTypeOK, ThreadType
<1>9. \/ Quiet(t)'
      \/ t \in raised' /\ (Taken(t)' \/ Freed(t)' \/ (Late(t)' /\ t = Master))
  <2>1. CASE t = Master
    BY <1>2, <1>3, <1>6, <2>1 DEF Quiet, Taken, Late
  <2>2. CASE t # Master
    <3>1. pending'[t] = Nobody /\ dropped' = dropped \cup ({pending[t]} \ {Nobody})
      BY <1>1, <1>6, <2>2, TypesOf
    <3> QED BY <1>1, <1>2, <1>3, <3>1 DEF Quiet, Taken, Late, Freed
  <2> QED BY <2>1, <2>2
<1>10. Placed(t)' /\ Exits(t)'
  BY <1>4, <1>9 DEF Placed, Exits, StandsAt, BeforeTheLoop, AroundTheLoop
<1>11. FirstKept'
  <2>1. dropped' \subseteq raised'
    BY <1>1, <1>2, <1>3, <1>6 DEF FirstKept, Quiet, Taken, Late
  <2> QED BY <1>1, <1>3, <2>1 DEF FirstKept
<1> QED BY <1>3, <1>4, <1>7, <1>8, <1>10, <1>11, ThreadMoves

LEMMA EndSectionStep ==
  ASSUME SectionInv, EndSection
  PROVE  SectionInv'
<1>1. /\ ParTypeOK /\ FirstKept /\ Master \in Team /\ Nobody \notin Team /\ outcome = "none"
      /\ \A t \in Team : StandsAt(t, {"done"})
      /\ \A t \in Team : \/ Quiet(t)
                         \/ t \in raised /\ (Taken(t) \/ Freed(t) \/ (Late(t) /\ t = Master))
  BY TeamAssumption DEF SectionInv, EndSection, Placed
<1>2. /\ outcome' = ResultOf(LastExit) /\ UNCHANGED <<section, gil, thread, why, exc, exc_lineno, left, raised>>
  BY DEF EndSection
<1>3. \A t \in Team : StandsAt(t, {"done"})'
  BY <1>1, <1>2 DEF StandsAt
<1>4. raised # {} <=> exc[Section] # Nobody
  BY <1>1, TypesOf DEF FirstKept, Quiet, Taken, Freed, Late, Section
<1>5. LastExit = ERROR <=> exc[Section] # Nobody
  BY <1>1 DEF LastExit, FirstKept, Scopes
<1>6. outcome' # "none" /\ (outcome' = "error" <=> LastExit = ERROR)
  BY <1>2 DEF ResultOf, ERROR, RETURN, BREAK, CONTINUE
<1>7. CASE LastExit = ERROR
  <2>1. /\ pending' = [pending EXCEPT ![Master] = exc[Section]]
        /\ lineno' = [lineno EXCEPT ![Master] = exc_lineno[Section]]
        /\ dropped' = dropped \cup ({pending[Master]} \ {Nobody})
        /\ leaked' = leaked \cup ({retval} \ {Nobody}) /\ retval' = Nobody
    BY <1>7 DEF EndSection
  <2>2. exc[Section] \in raised /\ exc[Section] \in Team /\ exc_lineno[Section] = exc[Section]
    BY <1>1, <1>5, <1>7, TypesOf DEF FirstKept
  <2>3. /\ pending'[Master] = exc[Section] /\ lineno'[Master] = exc[Section]
        /\ \A t \in Team \ {Master} : pending'[t] = pending[t]
    BY <1>1, <2>1, <2>2, TypesOf
  <2>4. dropped' = raised \ {exc[Section]}
    <3>1. ASSUME NEW t \in raised, t # exc[Section] PROVE t \in dropped'
      BY <1>1, <2>1, <3>1, TypesOf DEF Quiet, Taken, Freed, Late
    <3>2. ASSUME NEW t \in dropped' PROVE t \in raised /\ t # exc[Section]
      <4>1. CASE t \in dropped
        BY <1>1, <4>1, TypesOf DEF FirstKept, Quiet, Taken, Freed, Late
      <4>2. CASE t = pending[Master] /\ t # Nobody
        BY <1>1, <4>2 DEF Quiet, Taken, Freed, Late
      <4> QED BY <2>1, <3>2, <4>1, <4>2
    <3> QED BY <3>1, <3>2
  <2>5. \A t \in Team \ {Master} : pending'[t] = Nobody
    BY <1>1, <2>3 DEF Quiet, Taken, Freed, Late
  <2>6. ErrorComesOut'
    BY <1>2, <1>4, <1>5, <1>6, <1>7, <2>2, <2>3, <2>4, <2>5 DEF ErrorComesOut
  <2>7. ParTypeOK'
    <3>1. pending' \in [Team -> Team \cup {Nobody}] /\ lineno' \in [Team -> Team \cup {Nobody}]
      BY <1>1, <2>1, <2>2, TypesOf
    <3>2. dropped' \subseteq Team /\ leaked' \subseteq Team /\ retval' \in Team \cup {Nobody}
      BY <1>1, <2>1, <2>4, TypesOf
    <3> QED BY <1>1, <1>2, <3>1, <3>2 DEF ParTypeOK
  <2> QED BY <1>3, <1>6, <2>6, <2>7 DEF SectionInv
<1>8. CASE LastExit # ERROR
  <2>1. UNCHANGED <<pending, lineno, dropped, leaked, retval>>
    BY <1>8 DEF EndSection
  <2>2. ErrorComesOut'
    BY <1>1, <1>2, <1>4, <1>5, <1>6, <1>8, <2>1 DEF ErrorComesOut, Quiet
  <2>3. ParTypeOK'
    BY <1>1, <1>2, <2>1 DEF ParTypeOK
  <2> QED BY <1>3, <1>6, <2>2, <2>3 DEF SectionInv
<1> QED BY <1>7, <1>8

LEMMA SectionInitially == ParInit => SectionInv
<1> SUFFICES ASSUME ParInit PROVE SectionInv
  OBVIOUS
<1>1. thread \in [Team -> ThreadType]
  BY DEF ParInit, ThreadType, Places, Scopes, Section, ERROR
<1>2. ParTypeOK
  BY <1>1, TeamAssumption DEF ParInit, ParTypeOK, ThreadType, ERROR
<1>3. \A t \in Team : Placed(t) /\ Exits(t)
  BY DEF ParInit, Placed, Exits, StandsAt, BeforeTheLoop, AroundTheLoop, Quiet, Scopes
<1>4. FirstKept
  BY DEF ParInit, FirstKept, Scopes, Section, ERROR
<1> QED BY <1>2, <1>3, <1>4 DEF ParInit, SectionInv, ErrorComesOut

LEMMA SectionStep == SectionInv /\ [ParNext]_parVars => SectionInv'
<1> SUFFICES ASSUME SectionInv, [ParNext]_parVars PROVE SectionInv'
  OBVIOUS
<1>1. CASE EndSection
  BY <1>1, EndSectionStep
<1>2. ASSUME NEW t \in Team, ThreadStep(t) PROVE SectionInv'
  <2>1. ~StandsAt(t, {"done"})
    BY <1>2 DEF ThreadStep, StandsAt, BeginThread, ReachLoop, NextIteration, BeginBody, Switch,
       FinishBody, Return, Raise, FetchException, TrapExit, JumpOut, LeavePrange, PassBarrier,
       RestoreThread, EndPrange, EndThread, MayExit, Runs, UserCode
  <2>2. outcome = "none"
    BY <2>1 DEF SectionInv
  <2> QED BY <1>2, <2>2, BeginThreadStep, ReachLoopStep, NextIterationStep, BeginBodyStep,
     SwitchStep, FinishBodyStep, ExitStep, RaiseStep, FetchStep, TrapStep, BarrierStep,
     EndPrangeStep, EndThreadStep DEF ThreadStep
<1>3. CASE UNCHANGED parVars
  BY <1>3 DEF parVars, SectionInv, ParTypeOK, ErrorComesOut, FirstKept, Placed, Exits, StandsAt, Quiet,
     Raises, Traps, Loops, InLoop, Taken, Late, Freed, LoopScope
<1> QED BY <1>1, <1>2, <1>3 DEF ParNext

LEMMA SectionInductive == ParSpec => []SectionInv
<1> QED BY SectionInitially, SectionStep, PTL DEF ParSpec

\* However many threads of a parallel section or a prange raise, in whatever
\* order they trap their exceptions, the first one kept comes out with its own
\* line number, and every other is freed: none is lost and none leaks
\* (ParallelStatNode.trap_parallel_exit and fetch_parallel_exception).
THEOREM ErrorsComeOut == ParSpec => []ErrorComesOut
<1>1. SectionInv => ErrorComesOut
  BY DEF SectionInv
<1> QED BY <1>1, SectionInductive, PTL

\* Who holds the GIL has begun, waits for nobody and has not ended.
HolderRuns == gil # Nobody => ~StandsAt(gil, {"begin", "barrier", "passed", "done"})

LEMMA HolderStep ==
  ASSUME SectionInv, HolderRuns, NEW t \in Team, ThreadStep(t)
  PROVE  HolderRuns'
<1>1. /\ thread \in [Team -> ThreadType] /\ gil \in Team \cup {Nobody}
      /\ section.shape \in Shapes /\ t # Nobody /\ section' = section
  BY TypesOf, TeamAssumption DEF SectionInv, ThreadStep, restVars, BeginThread, ReachLoop, NextIteration,
     BeginBody, Switch, FinishBody, JumpOut, Return, Raise, FetchException, TrapExit, LeavePrange,
     PassBarrier, RestoreThread, EndPrange, EndThread
<1>2. \A u \in Team \ {t} : thread'[u] = thread[u]
  BY <1>1 DEF ThreadStep, excVars, restVars, Goes, TakesExit, BeginThread, ReachLoop, NextIteration,
     BeginBody, Switch, FinishBody, JumpOut, Return, Raise, FetchException, TrapExit, LeavePrange,
     PassBarrier, RestoreThread, EndPrange, EndThread
<1>3. gil' \in {gil, t, Nobody}
  BY DEF ThreadStep, restVars, BeginThread, ReachLoop, NextIteration, BeginBody, Switch, FinishBody,
     JumpOut, Return, Raise, FetchException, TrapExit, LeavePrange, PassBarrier, RestoreThread,
     EndPrange, EndThread
<1>4. gil' = t => thread'[t].at \notin {"begin", "barrier", "passed", "done"}
  BY <1>1 DEF HolderRuns, StandsAt, ThreadType, ThreadStep, excVars, restVars, Goes, TakesExit, MayTake,
     Runs, MayExit, UserCode, BeginThread, ReachLoop, NextIteration, BeginBody, Switch, FinishBody,
     JumpOut, Return, Raise, FetchException, TrapExit, LeavePrange, PassBarrier, RestoreThread,
     EndPrange, EndThread
<1> QED BY <1>1, <1>2, <1>3, <1>4 DEF HolderRuns, StandsAt

\* Whatever a section does, its threads do not end up all waiting, for the GIL
\* or for each other at the barrier: the holder of the GIL never waits, and if
\* nobody has it only those at the barrier wait, for somebody who is on the way
\* (LeavePrange gives the GIL back before the barrier, RestoreThread takes it
\* again after it: ParallelRangeNode.generate_loop).
THEOREM NotAllWait == ParSpec => []SectionCanEnd
<1>1. ParInit => HolderRuns
  BY DEF ParInit, HolderRuns
<1>2. SectionInv /\ HolderRuns /\ [ParNext]_parVars => HolderRuns'
  <2> SUFFICES ASSUME SectionInv, HolderRuns, [ParNext]_parVars PROVE HolderRuns'
    OBVIOUS
  <2>1. CASE EndSection \/ UNCHANGED parVars
    BY <2>1 DEF EndSection, parVars, HolderRuns, StandsAt
  <2> QED BY <2>1, HolderStep DEF ParNext
<1>3. SectionInv /\ HolderRuns => SectionCanEnd
  <2> SUFFICES ASSUME SectionInv, HolderRuns, NEW t \in Team, ~StandsAt(t, {"done"})
               PROVE  \E u \in Team : MayStep(u)
    BY DEF SectionCanEnd
  <2>1. thread \in [Team -> ThreadType] /\ gil \in Team \cup {Nobody} /\ section.shape \in Shapes
    BY TypesOf DEF SectionInv
  <2>2. \A u \in Team : thread[u].at \in Places
    BY <2>1 DEF ThreadType
  <2>3. CASE gil # Nobody
    BY <2>1, <2>2, <2>3 DEF HolderRuns, MayStep, MayTake, StandsAt, Places, UserCode
  <2>4. CASE gil = Nobody
    <3>1. ASSUME NEW u \in Team, ~StandsAt(u, {"barrier", "done"}) PROVE MayStep(u)
      BY <2>2, <2>4, <3>1 DEF MayStep, MayTake, StandsAt, Places, UserCode
    <3>2. CASE \A u \in Team : StandsAt(u, {"barrier", "done"})
      <4>1. StandsAt(t, {"barrier"}) /\ \A u \in Team : Arrived(u)
        BY <3>2 DEF StandsAt, Arrived
      <4> QED BY <4>1 DEF MayStep
    <3> QED BY <3>1, <3>2
  <2> QED BY <2>3, <2>4
<1> QED BY <1>1, <1>2, <1>3, SectionInductive, PTL DEF ParSpec

-----------------------------------------------------------------------------
(* A module whose initialization fails in a call reports the error of that  *)
(* call and, after a MemoryError, takes back what it published, in the      *)
(* reverse order of first publications.                                     *)

USE ExecAssumption

-----------------------------------------------------------------------------
LEMMA ListOfSet ==
  ASSUME NEW S, IsFiniteSet(S)
  PROVE  SetToSeq(S) \in Seq(S) /\ ToSet(SetToSeq(S)) = S
<1> DEFINE n == Cardinality(S)
           list == SetToSeq(S)
<1>1. n \in Nat /\ ExistsBijection(1 .. n, S)
  BY FS_CardinalityType
<1>2. PICK f \in [1 .. n -> S] : IsInjective(f)
  BY <1>1 DEF ExistsBijection, Bijection, Injection
<1>3. list \in [1 .. n -> S] /\ IsInjective(list)
  BY <1>2 DEF SetToSeq
<1>4. list \in Injection(1 .. n, S)
  BY <1>3 DEF Injection
<1>5. Cardinality(1 .. n) = n
  BY <1>1, FS_Interval
<1>6. list \in Surjection(1 .. n, S)
  BY <1>4, <1>5, FS_Injection
<1>7. ToSet(list) = S
  BY <1>3, <1>6 DEF Surjection, ToSet
<1> QED BY <1>1, <1>3, <1>7, IsASeq

-----------------------------------------------------------------------------
\* What a MemoryError takes back, in this order.
Everything == SetToSeq(Methods) \o published

\* The deletions still to be made are the last ones of Everything.
IsRest == /\ Len(undo) <= Len(Everything)
          /\ \A i \in 1 .. Len(undo) :
               undo[i] = Everything[Len(Everything) - Len(undo) + i]

\* The record has the names that were published, each once, and those first
\* published later before the others.
RecordIsRight ==
  /\ IsInjective(published)
  /\ ToSet(publications) = ToSet(published)
  /\ \A i, j \in DOMAIN published :
       i < j => IsBefore(publications, published[j], published[i])

\* Every attribute is one of the functions or recorded, the record is right, and
\* what is still to be deleted covers what is there.
ExecInv ==
  /\ ExecTypeOK
  /\ value # {} => plan # <<>> /\ value = {Head(plan)}
  /\ RecordIsRight
  /\ exec = "running" => /\ error = NoError
                         /\ attributes \subseteq Methods \cup ToSet(published)
  /\ exec = "done" => error = NoError
  /\ exec = "undoing" => /\ cause = "memory" /\ IsRest
                         /\ attributes \subseteq ToSet(undo) \cup remaining
  /\ exec = "leaving" => ToSet(undo) \subseteq Methods
  /\ exec = "failed" => /\ error = cause /\ cause # NoError
                        /\ cause = "memory" => attributes \subseteq remaining

LEMMA NamesOfMethods ==
  SetToSeq(Methods) \in Seq(Names) /\ ToSet(SetToSeq(Methods)) = Methods
<1>1. SetToSeq(Methods) \in Seq(Methods) /\ ToSet(SetToSeq(Methods)) = Methods
  BY ListOfSet
<1> QED BY <1>1, SeqMonotonic DEF Names

LEMMA EverythingIs ==
  ASSUME ExecTypeOK
  PROVE  /\ Everything \in Seq(Names)
         /\ Len(SetToSeq(Methods)) \in Nat /\ Len(published) \in Nat
         /\ Len(Everything) = Len(SetToSeq(Methods)) + Len(published)
         /\ \A i \in 1 .. Len(Everything) :
              IF i <= Len(SetToSeq(Methods))
              THEN Everything[i] \in Methods
              ELSE Everything[i] = published[i - Len(SetToSeq(Methods))]
<1>1. SetToSeq(Methods) \in Seq(Names) /\ published \in Seq(Names)
  BY NamesOfMethods DEF ExecTypeOK
<1>2. \A i \in 1 .. Len(SetToSeq(Methods)) : SetToSeq(Methods)[i] \in Methods
  BY <1>1, NamesOfMethods DEF ToSet
<1> QED BY <1>1, <1>2, ConcatProperties, LenProperties DEF Everything

LEMMA ExecInitially == ExecInit => ExecInv
<1> SUFFICES ASSUME ExecInit PROVE ExecInv
  OBVIOUS
<1>1. PICK statements \in UNION {[1 .. n -> Globals] : n \in 0 .. MaxStatements} :
        plan = SetToSeq(Constants) \o SetToSeq(TypeDefaults) \o Types
                 \o statements \o SetToSeq(Defaults)
  BY DEF ExecInit
<1>2. SetToSeq(Constants) \in Seq(Names) /\ SetToSeq(TypeDefaults) \in Seq(Names)
      /\ SetToSeq(Defaults) \in Seq(Names)
      /\ Types \in Seq(Names) /\ statements \in Seq(Names)
  <2>1. SetToSeq(Constants) \in Seq(Constants) /\ SetToSeq(Defaults) \in Seq(Defaults)
        /\ SetToSeq(TypeDefaults) \in Seq(TypeDefaults)
    BY ListOfSet
  <2>2. PICK n \in 0 .. MaxStatements : statements \in [1 .. n -> Globals]
    OBVIOUS
  <2>3. statements \in Seq(Globals)
    BY <2>2, IsASeq
  <2>4. Constants \subseteq Names /\ TypeDefaults \subseteq Names /\ Defaults \subseteq Names
        /\ Globals \subseteq Names /\ ToSet(Types) \subseteq Names
    BY DEF Names, Expressions
  <2> QED BY <2>1, <2>3, <2>4, SeqMonotonic
<1>3. plan \in Seq(Names)
  BY <1>1, <1>2, ConcatProperties
<1>4. ExecTypeOK
  BY <1>3, FS_EmptySet DEF ExecInit, ExecTypeOK, Names
<1>5. RecordIsRight
  <2>1. DOMAIN <<>> = {}
    OBVIOUS
  <2> QED BY <2>1 DEF ExecInit, RecordIsRight, IsInjective, ToSet
<1> QED BY <1>4, <1>5 DEF ExecInit, ExecInv

-----------------------------------------------------------------------------
LEMMA MakeKeeps ==
  ASSUME ExecInv, Make PROVE ExecInv'
<1>1. value' = {Head(plan)} /\ plan # <<>> /\ Head(plan) \in Names
  BY HeadTailProperties DEF ExecInv, ExecTypeOK, Make
<1>2. Cardinality(value') <= 1
  <2>1. Cardinality({Head(plan)}) = 1
    BY FS_Singleton
  <2> QED BY <1>1, <2>1
<1>3. ExecTypeOK'
  BY <1>1, <1>2 DEF ExecInv, ExecTypeOK, Make
<1>4. RecordIsRight'
  BY DEF ExecInv, Make, RecordIsRight
<1> QED BY <1>1, <1>3, <1>4 DEF ExecInv, Make

\* A publication leaves the order of those before it, and comes after them.
LEMMA PublicationOrder ==
  ASSUME ExecTypeOK, NEW name \in Names, publications' = Append(publications, name)
  PROVE  /\ publications' \in Seq(Names)
         /\ ToSet(publications') = ToSet(publications) \cup {name}
         /\ \A a, b : IsBefore(publications, a, b) => IsBefore(publications', a, b)
         /\ name \notin ToSet(publications) =>
               \A a \in ToSet(publications) : IsBefore(publications', a, name)
<1> DEFINE n == Len(publications)
<1>1. /\ publications \in Seq(Names) /\ n \in Nat /\ DOMAIN publications = 1 .. n
      /\ publications' \in Seq(Names) /\ DOMAIN publications' = 1 .. n + 1
      /\ \A i \in 1 .. n : publications'[i] = publications[i]
      /\ publications'[n + 1] = name
  BY AppendProperties, LenProperties DEF ExecTypeOK
<1> HIDE DEF n
<1>2. ToSet(publications') = ToSet(publications) \cup {name}
  <2>1. ToSet(publications') \subseteq ToSet(publications) \cup {name}
    BY <1>1 DEF ToSet
  <2>2. ToSet(publications) \subseteq ToSet(publications')
    BY <1>1 DEF ToSet
  <2>3. name \in ToSet(publications')
    BY <1>1 DEF ToSet
  <2> QED BY <2>1, <2>2, <2>3
<1>3. ASSUME NEW a, NEW b, NEW i \in 1 .. n,
             publications[i] = a, \A j \in 1 .. i : publications[j] # b
      PROVE  IsBefore(publications', a, b)
  <2>1. i \in 1 .. n + 1 /\ \A j \in 1 .. i : j \in 1 .. n
    BY <1>1
  <2> QED BY <1>1, <1>3, <2>1 DEF IsBefore
<1>4. \A a, b : IsBefore(publications, a, b) => IsBefore(publications', a, b)
  BY <1>1, <1>3 DEF IsBefore
<1>5. ASSUME name \notin ToSet(publications), NEW a \in ToSet(publications)
      PROVE  IsBefore(publications', a, name)
  <2>1. PICK i \in 1 .. n : publications[i] = a
    BY <1>1 DEF ToSet
  <2>2. \A j \in 1 .. i : j \in DOMAIN publications
    BY <1>1, <2>1
  <2>3. \A j \in 1 .. i : publications[j] # name
    BY <1>5, <2>2 DEF ToSet
  <2> QED BY <1>3, <2>1, <2>3
<1> QED BY <1>1, <1>2, <1>4, <1>5

LEMMA RecordedOnce ==
  ASSUME ExecTypeOK, IsInjective(published), NEW name \in Names
  PROVE  /\ Recorded(name) \in Seq(Names)
         /\ IsInjective(Recorded(name))
         /\ ToSet(Recorded(name)) = ToSet(published) \cup {name}
         /\ name \notin ToSet(published) =>
              /\ DOMAIN published = 1 .. Len(published) /\ Len(published) \in Nat
              /\ DOMAIN Recorded(name) = 1 .. Len(published) + 1
              /\ \A i \in 1 .. Len(published) + 1 :
                   Recorded(name)[i] = IF i = 1 THEN name ELSE published[i - 1]
<1> DEFINE after == <<name>> \o published
<1>1. CASE name \in ToSet(published)
  BY <1>1 DEF Recorded, ExecTypeOK
<1>2. CASE name \notin ToSet(published)
  <2>1. /\ after \in Seq(Names) /\ Len(after) = 1 + Len(published) /\ Len(published) \in Nat
        /\ \A i \in 1 .. Len(after) : after[i] = IF i = 1 THEN name ELSE published[i - 1]
        /\ DOMAIN after = 1 .. Len(after) /\ DOMAIN published = 1 .. Len(published)
    <3>1. <<name>> \in Seq(Names) /\ Len(<<name>>) = 1 /\ <<name>>[1] = name
          /\ published \in Seq(Names)
      BY DEF ExecTypeOK
    <3> QED BY <3>1, ConcatProperties, LenProperties
  <2>2. \A i \in 1 .. Len(published) : published[i] # name
    BY <1>2, <2>1 DEF ToSet
  <2> HIDE DEF after
  <2>3. IsInjective(after)
    <3> SUFFICES ASSUME NEW i \in 1 .. Len(after), NEW j \in 1 .. Len(after),
                        after[i] = after[j]
                 PROVE  i = j
      BY <2>1 DEF IsInjective
    <3>1. CASE i = 1 \/ j = 1
      BY <3>1, <2>1, <2>2
    <3>2. CASE i # 1 /\ j # 1
      BY <3>2, <2>1 DEF IsInjective
    <3> QED BY <3>1, <3>2
  <2>4. ToSet(after) = ToSet(published) \cup {name}
    <3>1. ToSet(after) \subseteq ToSet(published) \cup {name}
      BY <2>1 DEF ToSet
    <3>2. after[1] = name /\ \A i \in 1 .. Len(published) : after[i + 1] = published[i]
                                                      /\ i + 1 \in 1 .. Len(after)
      BY <2>1
    <3>3. name \in ToSet(after)
      BY <2>1, <3>2 DEF ToSet
    <3>4. ASSUME NEW i \in 1 .. Len(published) PROVE published[i] \in ToSet(after)
      BY <2>1, <3>2 DEF ToSet
    <3>5. ToSet(published) \subseteq ToSet(after)
      BY <2>1, <3>4 DEF ToSet
    <3> QED BY <3>1, <3>3, <3>5
  <2> QED BY <1>2, <2>1, <2>3, <2>4 DEF Recorded, after
<1> QED BY <1>1, <1>2

LEMMA PublishKeeps ==
  ASSUME ExecInv, Publish PROVE ExecInv'
<1> DEFINE name == Head(plan)
<1>1. plan # <<>> /\ value = {name} /\ name \in Names /\ Tail(plan) \in Seq(Names)
  BY HeadTailProperties DEF ExecInv, ExecTypeOK, Publish
<1>2. /\ published' = Recorded(name) /\ attributes' = attributes \cup {name}
      /\ publications' = Append(publications, name)
      /\ plan' = Tail(plan) /\ value' = {} /\ UNCHANGED <<undo, error, exec, cause, remaining>>
      /\ exec = "running"
  BY <1>1 DEF Publish
<1> HIDE DEF name
<1>a. ExecTypeOK /\ RecordIsRight
  BY DEF ExecInv
<1>3. /\ published' \in Seq(Names) /\ IsInjective(published')
      /\ ToSet(published') = ToSet(published) \cup {name}
  BY <1>1, <1>2, <1>a, RecordedOnce DEF RecordIsRight
<1>4. /\ publications' \in Seq(Names)
      /\ ToSet(publications') = ToSet(publications) \cup {name}
      /\ \A a, b : IsBefore(publications, a, b) => IsBefore(publications', a, b)
      /\ name \notin ToSet(publications) =>
            \A a \in ToSet(publications) : IsBefore(publications', a, name)
  BY <1>1, <1>2, <1>a, PublicationOrder
<1>5. ExecTypeOK'
  BY <1>1, <1>2, <1>3, <1>4, FS_EmptySet DEF ExecInv, ExecTypeOK
<1>6. ASSUME NEW i \in DOMAIN published', NEW j \in DOMAIN published', i < j
      PROVE  IsBefore(publications', published'[j], published'[i])
  <2>1. CASE name \in ToSet(published)
    <3>1. published' = published
      BY <2>1, <1>2 DEF Recorded
    <3>2. IsBefore(publications, published[j], published[i])
      BY <3>1, <1>6, <1>a DEF RecordIsRight
    <3> QED BY <3>1, <3>2, <1>4
  <2>2. CASE name \notin ToSet(published)
    <3>1. /\ DOMAIN published = 1 .. Len(published) /\ Len(published) \in Nat
          /\ DOMAIN published' = 1 .. Len(published) + 1
          /\ \A k \in 1 .. Len(published) + 1 :
               published'[k] = IF k = 1 THEN name ELSE published[k - 1]
      BY <2>2, <1>1, <1>2, <1>a, RecordedOnce DEF RecordIsRight
    <3>2. j - 1 \in DOMAIN published /\ published'[j] = published[j - 1]
      BY <3>1, <1>6
    <3>3. CASE i = 1
      <4>1. published[j - 1] \in ToSet(publications)
        BY <3>2, <1>a DEF RecordIsRight, ToSet
      <4>2. name \notin ToSet(publications)
        BY <2>2, <1>a DEF RecordIsRight
      <4>3. published'[i] = name
        BY <3>1, <3>3
      <4> QED BY <4>1, <4>2, <4>3, <3>2, <1>4
    <3>4. CASE i # 1
      <4>1. i - 1 \in DOMAIN published /\ published'[i] = published[i - 1] /\ i - 1 < j - 1
        BY <3>1, <3>4, <1>6
      <4>2. IsBefore(publications, published[j - 1], published[i - 1])
        BY <4>1, <3>2, <1>a DEF RecordIsRight
      <4> QED BY <4>1, <4>2, <3>2, <1>4
    <3> QED BY <3>3, <3>4
  <2> QED BY <2>1, <2>2
<1>7. RecordIsRight'
  BY <1>3, <1>4, <1>6, <1>a DEF RecordIsRight
<1> QED BY <1>2, <1>3, <1>5, <1>7 DEF ExecInv

LEMMA FailKeeps ==
  ASSUME ExecInv, NEW kind \in {"memory", "other"}, Fail(kind) PROVE ExecInv'
<1>1. CASE kind = "memory"
  <2>1. /\ exec = "running" /\ exec' = "undoing" /\ undo' = Everything /\ cause' = "memory"
        /\ error' = "memory" /\ value' = {}
        /\ UNCHANGED <<plan, attributes, published, publications, remaining>>
    BY <1>1 DEF Fail, Everything
  <2>2. Everything' = Everything
    BY <2>1 DEF Everything
  <2>3. /\ Everything \in Seq(Names) /\ Len(Everything) \in Nat
        /\ DOMAIN Everything = 1 .. Len(Everything)
    BY EverythingIs, LenProperties DEF ExecInv
  <2>4. IsRest'
    BY <2>1, <2>2, <2>3 DEF IsRest
  <2>5. attributes' \subseteq ToSet(undo') \cup remaining'
    <3>1. Methods \subseteq ToSet(Everything)
      <4> SUFFICES ASSUME NEW m \in Methods PROVE m \in ToSet(Everything)
        OBVIOUS
      <4>1. PICK i \in DOMAIN SetToSeq(Methods) : SetToSeq(Methods)[i] = m
        BY NamesOfMethods DEF ToSet
      <4>2. i \in 1 .. Len(SetToSeq(Methods)) /\ Len(SetToSeq(Methods)) \in Nat
        BY <4>1, NamesOfMethods, LenProperties
      <4>3. Everything[i] = m /\ i \in 1 .. Len(Everything)
        <5>1. published \in Seq(Names) /\ Len(published) \in Nat
          BY LenProperties DEF ExecInv, ExecTypeOK
        <5> QED BY <4>1, <4>2, <5>1, NamesOfMethods, ConcatProperties DEF Everything
      <4> QED BY <4>3, <2>3 DEF ToSet
    <3>2. ToSet(published) \subseteq ToSet(Everything)
      <4> SUFFICES ASSUME NEW i \in DOMAIN published
                   PROVE  published[i] \in ToSet(Everything)
        BY DEF ToSet
      <4>1. i \in 1 .. Len(published)
        BY LenProperties DEF ExecInv, ExecTypeOK
      <4>2. Everything[i + Len(SetToSeq(Methods))] = published[i]
            /\ i + Len(SetToSeq(Methods)) \in 1 .. Len(Everything)
        BY <4>1, EverythingIs DEF ExecInv
      <4> QED BY <4>2, <2>3 DEF ToSet
    <3> QED BY <3>1, <3>2, <2>1 DEF ExecInv
  <2>6. ExecTypeOK'
    BY <2>1, <2>3, FS_EmptySet DEF ExecInv, ExecTypeOK
  <2>7. RecordIsRight'
    BY <2>1 DEF ExecInv, RecordIsRight
  <2> QED BY <2>1, <2>4, <2>5, <2>6, <2>7 DEF ExecInv
<1>2. CASE kind = "other"
  <2>1. ExecTypeOK'
    BY <1>2, FS_EmptySet DEF ExecInv, ExecTypeOK, Fail
  <2>2. RecordIsRight'
    BY DEF ExecInv, Fail, RecordIsRight
  <2> QED BY <1>2, <2>1, <2>2 DEF ExecInv, Fail
<1> QED BY <1>1, <1>2

LEMMA LeaveKeeps ==
  ASSUME ExecInv, NEW kind \in {"memory", "other"}, Leave(kind) PROVE ExecInv'
<1>1. undo' \in Seq(Names) /\ ToSet(undo') \subseteq Methods
  BY NamesOfMethods DEF Leave
<1>2. ExecTypeOK'
  BY <1>1 DEF ExecInv, ExecTypeOK, Leave
<1>3. RecordIsRight'
  BY DEF ExecInv, Leave, RecordIsRight
<1> QED BY <1>1, <1>2, <1>3 DEF ExecInv, Leave

\* What a deletion does: the name goes, or is remaining if it was there.
LEMMA WhatUnpublishDoes ==
  ASSUME ExecInv, Unpublish
  PROVE  /\ exec' = exec /\ cause' = cause /\ undo # <<>> /\ undo' = Tail(undo)
         /\ UNCHANGED <<plan, value, published, publications>>
         /\ exec = "undoing" \/ exec = "leaving"
         /\ remaining \subseteq remaining' /\ remaining' \subseteq Names
         /\ attributes' \subseteq attributes
         /\ attributes \ attributes' \subseteq {Head(undo)}
         /\ Head(undo) \in attributes' => Head(undo) \in remaining'
         /\ Head(undo) \in attributes \ attributes' => remaining' = remaining
         /\ error' \in {"memory", "other", "deletion", NoError}
<1>1. CASE DeletionSucceeds(Head(undo))
  BY <1>1 DEF Unpublish, DeletionSucceeds, ExecInv, ExecTypeOK
<1>2. CASE DeletionFails(Head(undo))
  BY <1>2 DEF Unpublish, DeletionFails, ExecInv, ExecTypeOK
<1> QED BY <1>1, <1>2 DEF Unpublish

LEMMA UnpublishKeeps ==
  ASSUME ExecInv, Unpublish PROVE ExecInv'
<1>1. undo \in Seq(Names) /\ undo # <<>> /\ undo' = Tail(undo)
  BY WhatUnpublishDoes DEF ExecInv, ExecTypeOK
<1>2. /\ Tail(undo) \in Seq(Names) /\ Len(Tail(undo)) = Len(undo) - 1 /\ Len(undo) \in Nat
      /\ \A i \in 1 .. Len(Tail(undo)) : Tail(undo)[i] = undo[i + 1]
      /\ DOMAIN undo = 1 .. Len(undo) /\ DOMAIN Tail(undo) = 1 .. Len(Tail(undo))
      /\ Head(undo) = undo[1]
  BY <1>1, HeadTailProperties, LenProperties
<1>3. ExecTypeOK'
  BY <1>1, <1>2, WhatUnpublishDoes DEF ExecInv, ExecTypeOK
<1>4. RecordIsRight'
  BY WhatUnpublishDoes DEF ExecInv, RecordIsRight
<1>5. value' # {} => plan' # <<>> /\ value' = {Head(plan')}
  BY WhatUnpublishDoes DEF ExecInv
<1>6. CASE exec = "undoing"
  <2>1. IsRest /\ attributes \subseteq ToSet(undo) \cup remaining /\ cause = "memory"
    BY <1>6 DEF ExecInv
  <2>2. Everything' = Everything /\ Len(Everything) \in Nat
    <3>1. published' = published
      BY WhatUnpublishDoes
    <3>2. Everything' = Everything
      BY <3>1 DEF Everything
    <3>3. Len(Everything) \in Nat
      BY EverythingIs, LenProperties DEF ExecInv
    <3> QED BY <3>2, <3>3
  <2>3. IsRest'
    BY <1>1, <1>2, <2>1, <2>2 DEF IsRest
  <2>4. attributes' \subseteq ToSet(undo') \cup remaining'
    <3> SUFFICES ASSUME NEW name \in attributes', name \notin remaining'
                 PROVE  name \in ToSet(Tail(undo))
      BY <1>1
    <3>1. name # Head(undo) /\ name \in ToSet(undo)
      BY <2>1, WhatUnpublishDoes
    <3>2. PICK i \in 1 .. Len(undo) : undo[i] = name
      BY <3>1, <1>2 DEF ToSet
    <3>3. i - 1 \in 1 .. Len(Tail(undo)) /\ Tail(undo)[i - 1] = name
      BY <3>1, <3>2, <1>2
    <3> QED BY <3>3, <1>2 DEF ToSet
  <2> QED BY <1>3, <1>4, <1>5, <1>6, <2>1, <2>3, <2>4, WhatUnpublishDoes DEF ExecInv
<1>7. CASE exec = "leaving"
  <2>1. ToSet(undo) \subseteq Methods
    BY <1>7 DEF ExecInv
  <2>2. ASSUME NEW i \in 1 .. Len(Tail(undo)) PROVE Tail(undo)[i] \in Methods
    BY <1>2, <2>1 DEF ToSet
  <2>3. ToSet(undo') \subseteq Methods
    BY <1>1, <1>2, <2>2 DEF ToSet
  <2> QED BY <1>3, <1>4, <1>5, <1>7, <2>3, WhatUnpublishDoes DEF ExecInv
<1> QED BY <1>6, <1>7, WhatUnpublishDoes

LEMMA GiveUpKeeps ==
  ASSUME ExecInv, GiveUp PROVE ExecInv'
<1>1. attributes \subseteq remaining /\ cause = "memory"
  <2>1. ToSet(<<>>) = {}
    BY DEF ToSet
  <2> QED BY <2>1 DEF ExecInv, GiveUp
<1>2. ExecTypeOK'
  BY DEF ExecInv, ExecTypeOK, GiveUp, ErrorAfter
<1>3. RecordIsRight'
  BY DEF ExecInv, GiveUp, RecordIsRight
<1> QED BY <1>1, <1>2, <1>3 DEF ExecInv, GiveUp, ErrorAfter

LEMMA ExecStep == ExecInv /\ [ExecNext]_execVars => ExecInv'
<1> SUFFICES ASSUME ExecInv, [ExecNext]_execVars PROVE ExecInv'
  OBVIOUS
<1>1. ASSUME Finish \/ ReturnAnyway PROVE ExecInv'
  <2>1. ExecTypeOK' /\ RecordIsRight'
    BY <1>1 DEF Finish, ReturnAnyway, ExecInv, ExecTypeOK, RecordIsRight
  <2> QED BY <1>1, <2>1 DEF Finish, ReturnAnyway, ExecInv
<1>2. CASE UNCHANGED execVars
  BY <1>2 DEF execVars, ExecInv, ExecTypeOK, IsRest, Everything, RecordIsRight
<1> QED
  BY <1>1, <1>2, MakeKeeps, PublishKeeps, FailKeeps, LeaveKeeps, UnpublishKeeps,
     GiveUpKeeps DEF ExecNext

LEMMA ExecInductive == ExecSpec => []ExecInv
<1> QED BY ExecInitially, ExecStep, PTL DEF ExecSpec

-----------------------------------------------------------------------------
\* However many values a module publishes and whichever call fails, the error it
\* reports is that of the call, and a MemoryError leaves nothing published but
\* what could not be deleted.
THEOREM FailuresAreReported == ExecSpec => []FailureIsReported
<1>1. ExecInv => FailureIsReported
  BY DEF ExecInv, FailureIsReported
<1> QED BY <1>1, ExecInductive, PTL

\* However many values a module publishes, again or for the first time, what is
\* taken back goes in the reverse order of first publications.
THEOREM RollbackIsInReverse == ExecSpec => LatestGoesFirst
<1>1. ASSUME ExecInv, Unpublish,
             NEW gone \in (attributes \ attributes') \ Methods,
             NEW there \in attributes' \ remaining
      PROVE  IsBefore(publications, there, gone)
  <2> DEFINE m == Len(SetToSeq(Methods))
  <2>1. gone = Head(undo) /\ there # gone /\ undo # <<>> /\ there \in attributes
    BY <1>1, WhatUnpublishDoes
  <2>2. undo \in Seq(Names) /\ published \in Seq(Names) /\ RecordIsRight
    BY <1>1 DEF ExecInv, ExecTypeOK
  <2>3. /\ Len(undo) \in Nat /\ DOMAIN undo = 1 .. Len(undo) /\ gone = undo[1]
        /\ 1 \in 1 .. Len(undo) /\ DOMAIN published = 1 .. Len(published)
    BY <2>1, <2>2, LenProperties, HeadTailProperties, EmptySeq
  <2>4. exec = "undoing"
    BY <1>1, <2>3, WhatUnpublishDoes DEF ExecInv, ToSet
  <2>5. IsRest /\ there \in ToSet(undo)
    BY <1>1, <2>1, <2>4 DEF ExecInv
  <2>6. /\ m \in Nat /\ Len(published) \in Nat /\ Len(Everything) = m + Len(published)
        /\ \A k \in 1 .. Len(Everything) :
              IF k <= m THEN Everything[k] \in Methods ELSE Everything[k] = published[k - m]
    BY <1>1, EverythingIs DEF ExecInv
  <2> HIDE DEF m
  <2> DEFINE before == Len(Everything) - Len(undo)
  <2>7. before \in Nat /\ \A k \in 1 .. Len(undo) : undo[k] = Everything[before + k]
    BY <2>3, <2>5, <2>6 DEF IsRest
  <2>8. PICK k \in 1 .. Len(undo) : undo[k] = there
    BY <2>3, <2>5 DEF ToSet
  <2>9. k > 1
    BY <2>1, <2>3, <2>8
  <2>10. before + k \in 1 .. Len(Everything) /\ Everything[before + k] = there
    BY <2>3, <2>6, <2>7, <2>8
  <2>11. before + 1 \in 1 .. Len(Everything) /\ Everything[before + 1] = gone
    BY <2>3, <2>6, <2>7
  <2> HIDE DEF before
  <2>12. before + 1 > m /\ published[before + 1 - m] = gone
    BY <1>1, <2>6, <2>7, <2>11
  <2>13. published[before + k - m] = there
    BY <2>6, <2>7, <2>9, <2>10, <2>12
  <2>14. before + 1 - m \in DOMAIN published /\ before + k - m \in DOMAIN published
         /\ before + 1 - m < before + k - m
    BY <2>3, <2>6, <2>7, <2>9, <2>10, <2>11, <2>12
  <2> QED BY <2>2, <2>12, <2>13, <2>14 DEF RecordIsRight
<1>2. ASSUME ExecInv, [ExecNext]_execVars, ~Unpublish PROVE attributes \ attributes' = {}
  BY <1>2 DEF ExecNext, Make, Publish, Fail, Leave, GiveUp, ReturnAnyway, Finish, execVars
<1>3. ExecInv /\ [ExecNext]_execVars =>
        \A gone \in (attributes \ attributes') \ Methods, there \in attributes' \ remaining :
           IsBefore(publications, there, gone)
  BY <1>1, <1>2
<1> QED BY <1>3, ExecInductive, PTL DEF ExecSpec, LatestGoesFirst

-----------------------------------------------------------------------------
(* Dependencies.                                                           *)

\* A step that looks at a function only where the measure is smaller.
LooksBelow(S, V, N, measure, step) ==
  /\ V # {} /\ N \in Nat /\ measure \in [S -> 0 .. N]
  /\ \A f \in [S -> V], x \in S : step[<<f, x>>] \in V
  /\ \A f, g \in [S -> V], x \in S :
        (\A y \in S : measure[y] < measure[x] => f[y] = g[y])
           => step[<<f, x>>] = step[<<g, x>>]

Fixed(S, V, step) == {f \in [S -> V] : \A x \in S : f[x] = step[<<f, x>>]}

\* Such a step leaves some function as it is.
LEMMA Recursion ==
  ASSUME NEW S, NEW V, NEW N, NEW measure, NEW step, LooksBelow(S, V, N, measure, step)
  PROVE  Fixed(S, V, step) # {}
<1>0. /\ V # {} /\ N \in Nat /\ measure \in [S -> 0 .. N]
      /\ \A f \in [S -> V], x \in S : step[<<f, x>>] \in V
      /\ \A f, g \in [S -> V], x \in S :
            (\A y \in S : measure[y] < measure[x] => f[y] = g[y])
               => step[<<f, x>>] = step[<<g, x>>]
  BY DEF LooksBelow
<1> DEFINE Good(n) == \E f \in [S -> V] :
                        \A x \in S : measure[x] < n => f[x] = step[<<f, x>>]
           Bad == {n \in Nat : ~ Good(n)}
<1>1. Good(0)
  <2>1. PICK v \in V : TRUE
    BY <1>0
  <2>2. [x \in S |-> v] \in [S -> V] /\ \A x \in S : ~ (measure[x] < 0)
    BY <1>0
  <2> QED BY <2>2
<1>2. ASSUME NEW n \in Nat, Good(n) PROVE Good(n + 1)
  <2>1. PICK f \in [S -> V] : \A x \in S : measure[x] < n => f[x] = step[<<f, x>>]
    BY <1>2
  <2> DEFINE g == [x \in S |-> IF measure[x] = n THEN step[<<f, x>>] ELSE f[x]]
  <2>2. g \in [S -> V]
    BY <1>0
  <2>3. \A x \in S : g[x] = IF measure[x] = n THEN step[<<f, x>>] ELSE f[x]
    OBVIOUS
  <2> HIDE DEF g
  <2>4. ASSUME NEW x \in S, measure[x] < n + 1 PROVE g[x] = step[<<g, x>>]
    <3>0. measure[x] \in Nat /\ \A y \in S : measure[y] \in Nat
      BY <1>0
    <3>1. ASSUME NEW y \in S, measure[y] < measure[x] PROVE f[y] = g[y]
      <4>1. measure[y] # n
        BY <2>4, <3>0, <3>1
      <4> QED BY <2>3, <4>1
    <3>2. step[<<f, x>>] = step[<<g, x>>]
      BY <1>0, <2>2, <3>1
    <3>3. g[x] = step[<<f, x>>]
      BY <2>1, <2>3, <2>4, <3>0
    <3> QED BY <3>2, <3>3
  <2> QED BY <2>2, <2>4
<1>3. Bad = {}
  <2> SUFFICES ASSUME Bad # {} PROVE FALSE
    OBVIOUS
  <2>1. PICK n \in Bad : \A m \in Bad : n <= m
    BY LeastNumber
  <2>2. n # 0 /\ n \in Nat /\ ~ Good(n)
    BY <1>1
  <2>3. n - 1 \in Nat /\ Good(n - 1) /\ (n - 1) + 1 = n
    BY <2>1, <2>2
  <2> HIDE DEF Good
  <2> QED BY <1>2, <2>2, <2>3
<1>4. Good(N + 1)
  <2> HIDE DEF Good
  <2> QED BY <1>0, <1>3
<1>5. \A x \in S : measure[x] < N + 1
  BY <1>0
<1> QED BY <1>4, <1>5 DEF Fixed

LEMMA DictIs ==
  ASSUME NEW K, NEW V, NEW f
  PROVE  f \in Dict(K, V) <=> /\ DOMAIN f \subseteq K /\ f \in [DOMAIN f -> V]
<1>1. ASSUME f \in Dict(K, V) PROVE DOMAIN f \subseteq K /\ f \in [DOMAIN f -> V]
  <2>1. PICK D \in SUBSET K : f \in [D -> V]
    BY <1>1 DEF Dict
  <2> QED BY <2>1
<1>2. ASSUME DOMAIN f \subseteq K, f \in [DOMAIN f -> V] PROVE f \in Dict(K, V)
  BY <1>2 DEF Dict
<1> QED BY <1>1, <1>2

\* Includes that do not go in circles lead to files.
LEMMA IncludedType ==
  ASSUME NEW pairs \in SUBSET IncludePairs
  PROVE  Included(pairs) \in [Files -> SUBSET Files]
<1> DEFINE direct(f) == {g \in Files : <<f, g>> \in pairs}
           Step(h, f) == direct(f) \cup UNION {h[g] : g \in direct(f)}
           V == SUBSET Files
           step == [p \in [Files -> V] \X Files |-> Step(p[1], p[2])]
<1>1. PICK rank \in [Files -> 0 .. Cardinality(Files)] :
         \A f, g \in Files : <<f, g>> \in IncludePairs => rank[g] < rank[f]
  BY FilesAssumption
<1>2. Cardinality(Files) \in Nat
  BY FilesAssumption, FS_CardinalityType
<1>3. \A h \in [Files -> V], f \in Files : step[<<h, f>>] = Step(h, f)
  OBVIOUS
<1>4. \A h \in [Files -> V], f \in Files : Step(h, f) \in V
  OBVIOUS
<1>5. ASSUME NEW h, NEW k, NEW f \in Files,
             \A g \in Files : rank[g] < rank[f] => h[g] = k[g]
      PROVE  Step(h, f) = Step(k, f)
  <2>1. \A g \in direct(f) : h[g] = k[g]
    BY <1>1, <1>5
  <2>2. {h[g] : g \in direct(f)} = {k[g] : g \in direct(f)}
    BY <2>1
  <2> QED BY <2>2
<1>6. \E h \in [Files -> V] : \A f \in Files : h[f] = Step(h, f)
  <2> HIDE DEF step, Step
  <2>1. V # {}
    OBVIOUS
  <2>2. ASSUME NEW h \in [Files -> V], NEW f \in Files PROVE step[<<h, f>>] \in V
    <3> HIDE DEF V
    <3> QED BY <1>3, <1>4
  <2>3. \A h, k \in [Files -> V], f \in Files :
           (\A g \in Files : rank[g] < rank[f] => h[g] = k[g])
              => step[<<h, f>>] = step[<<k, f>>]
    BY <1>3, <1>5
  <2> HIDE DEF V
  <2>4. PICK N \in Nat : N = Cardinality(Files)
    BY <1>2
  <2>5. PICK s : s = step
    OBVIOUS
  <2>6. LooksBelow(Files, V, N, rank, s)
    BY <2>1, <2>2, <2>3, <2>4, <2>5 DEF LooksBelow
  <2>7. Fixed(Files, V, s) # {}
    BY <2>6, Recursion
  <2>8. \E h \in [Files -> V] : \A f \in Files : h[f] = s[<<h, f>>]
    BY <2>7 DEF Fixed
  <2> QED BY <1>3, <2>5, <2>8
<1>7. \E h : h = [f \in Files |-> Step(h, f)]
  <2> HIDE DEF Step
  <2>1. PICK h \in [Files -> V] : \A f \in Files : h[f] = Step(h, f)
    BY <1>6
  <2>2. h = [f \in Files |-> Step(h, f)]
    BY <2>1
  <2> QED BY <2>2
<1> DEFINE inc == CHOOSE h : h = [f \in Files |-> Step(h, f)]
<1>8. inc = [f \in Files |-> Step(inc, f)]
  BY <1>7
<1>9. Included(pairs) = inc
  BY DEF Included
<1>10. PICK h : h = inc
  OBVIOUS
<1>11. h = [f \in Files |-> Step(h, f)]
  <2> HIDE DEF inc, Step
  <2> QED BY <1>8, <1>10
<1>12. PICK k \in [Files -> V] : \A f \in Files : k[f] = Step(k, f)
  BY <1>6
<1>13. \A f \in Files : h[f] = Step(h, f)
  <2> HIDE DEF Step
  <2> QED BY <1>11
<1>14. \A f \in Files : h[f] = k[f]
  <2> DEFINE Bad == {rank[f] : f \in {g \in Files : h[g] # k[g]}}
  <2> HIDE DEF Step
  <2> SUFFICES ASSUME Bad # {} PROVE FALSE
    OBVIOUS
  <2>1. Bad \in SUBSET Nat
    BY <1>1, <1>2
  <2>2. PICK n \in Bad : \A m \in Bad : n <= m
    BY <2>1, LeastNumber
  <2>3. PICK f \in Files : n = rank[f] /\ h[f] # k[f]
    BY <2>2
  <2>4. \A g \in Files : rank[g] \in Nat
    BY <1>1, <1>2
  <2>5. ASSUME NEW g \in Files, rank[g] < rank[f] PROVE h[g] = k[g]
    <3>1. ~ (n <= rank[g])
      BY <2>3, <2>4, <2>5
    <3> QED BY <2>2, <3>1
  <2> QED BY <1>5, <1>12, <1>13, <2>3, <2>5
<1>15. h = k
  <2> HIDE DEF Step, inc
  <2>1. h = [f \in Files |-> h[f]] /\ k = [f \in Files |-> k[f]]
    <3>1. DOMAIN h = Files
      BY <1>11
    <3> QED BY <1>11, <3>1
  <2> QED BY <1>14, <2>1
<1> HIDE DEF inc
<1> QED BY <1>9, <1>10, <1>15
\* What can be included is among the files.
LEMMA ImmediateType ==
  ASSUME includes \in SUBSET IncludePairs, NEW f \in Files
  PROVE  /\ immediate_dependencies(f) \in SUBSET Files
         /\ f \in immediate_dependencies(f)
         /\ cimported_files(f) \in SUBSET Files
<1>1. PICK pairs \in SUBSET IncludePairs : pairs = includes
  OBVIOUS
<1>2. Included(pairs)[f] \in SUBSET Files
  BY IncludedType
<1>3. included_files(f) \in SUBSET Files
  BY <1>1, <1>2 DEF included_files
<1>4. cimported_files(f) \in SUBSET Files
  BY DEF cimported_files
<1> QED BY <1>3, <1>4 DEF immediate_dependencies

\* What a file reaches is closed, and the least such set.
LEMMA ReachedIs ==
  ASSUME NEW f \in Files
  PROVE  /\ f \in Reached(f) /\ Reached(f) \in SUBSET Files
         /\ \A g \in Reached(f) : cimported_files(g) \subseteq Reached(f)
         /\ \A S \in SUBSET Files : f \in S /\ Closed(S) => Reached(f) \subseteq S
<1>1. \A S \in SUBSET Files : f \in S /\ Closed(S) => Reached(f) \subseteq S
  BY DEF Reached
<1>2. f \in Reached(f) /\ Reached(f) \in SUBSET Files
  BY DEF Reached
<1>3. ASSUME NEW g \in Reached(f), NEW h \in cimported_files(g) PROVE h \in Reached(f)
  <2>1. h \in Files
    BY <1>3 DEF cimported_files
  <2>2. ASSUME NEW S \in SUBSET Files, f \in S, Closed(S) PROVE h \in S
    <3>1. g \in S
      BY <1>1, <2>2
    <3> QED BY <2>2, <3>1 DEF Closed
  <2> QED BY <2>1, <2>2 DEF Reached
<1> QED BY <1>1, <1>2, <1>3

LEMMA ReachedOn ==
  ASSUME NEW f \in Files, NEW g \in Reached(f)
  PROVE  Reached(g) \subseteq Reached(f)
<1>1. PICK R \in SUBSET Files : R = Reached(f)
  BY ReachedIs
<1>2. g \in R /\ g \in Files /\ Closed(R)
  BY <1>1, ReachedIs DEF Closed
<1> QED BY <1>1, <1>2, ReachedIs

-----------------------------------------------------------------------------
(* The walk ends: a call is deeper, or has less left to visit.             *)

FileCount == Cardinality(Files)

Room(x) == (FileCount - Cardinality(DOMAIN x.stack)) * (FileCount + 1) + Cardinality(x.next)

Rest(x, n, sofar) == [node |-> x.node, next |-> x.next \ {n}, stack |-> x.stack, sofar |-> sofar]

LEMMA StackIs ==
  ASSUME NEW stack \in Stacks
  PROVE  /\ DOMAIN stack \in SUBSET Files /\ \A n \in DOMAIN stack : stack[n] \in 0 .. FileCount
         /\ FileCount \in Nat /\ Cardinality(DOMAIN stack) \in 0 .. FileCount
<1>1. DOMAIN stack \in SUBSET Files /\ stack \in [DOMAIN stack -> 0 .. FileCount]
  BY DictIs DEF Stacks, FileCount
<1>2. /\ FileCount \in Nat /\ Cardinality(DOMAIN stack) \in Nat
      /\ Cardinality(DOMAIN stack) <= FileCount
  BY <1>1, FilesAssumption, FS_CardinalityType, FS_Subset DEF FileCount
<1> QED BY <1>1, <1>2

LEMMA PushIs ==
  ASSUME NEW stack \in Stacks, NEW n \in Files, n \notin DOMAIN stack
  PROVE  /\ Push(stack, n) \in Stacks
         /\ DOMAIN Push(stack, n) = DOMAIN stack \cup {n}
         /\ Push(stack, n)[n] = Cardinality(DOMAIN stack)
         /\ \A m \in DOMAIN stack : Push(stack, n)[m] = stack[m]
         /\ Cardinality(DOMAIN stack \cup {n}) = Cardinality(DOMAIN stack) + 1
         /\ Cardinality(DOMAIN stack) + 1 <= FileCount
<1> DEFINE p == Push(stack, n)
           D == DOMAIN stack
<1>1. /\ D \in SUBSET Files /\ \A m \in D : stack[m] \in 0 .. FileCount
      /\ FileCount \in Nat /\ Cardinality(D) \in 0 .. FileCount
  BY StackIs
<1>2. /\ DOMAIN p = D \cup {n} /\ p[n] = Cardinality(D)
      /\ \A m \in D : p[m] = stack[m]
      /\ p = [m \in D \cup {n} |-> p[m]]
  BY DEF Push
<1>3. IsFiniteSet(D) /\ Cardinality(D \cup {n}) = Cardinality(D) + 1
  <2>1. IsFiniteSet(D)
    BY <1>1, FilesAssumption, FS_Subset
  <2> QED BY <2>1, FS_AddElement
<1>4. Cardinality(D \cup {n}) <= FileCount
  BY <1>1, FilesAssumption, FS_Subset DEF FileCount
<1>5. \A m \in D \cup {n} : p[m] \in 0 .. FileCount
  BY <1>1, <1>2
<1>6. p \in Dict(Files, 0 .. FileCount)
  <2> HIDE DEF p
  <2>1. DOMAIN p \subseteq Files /\ p \in [DOMAIN p -> 0 .. FileCount]
    BY <1>1, <1>2, <1>5
  <2> QED BY <2>1, DictIs
<1>7. p \in Stacks
  <2> HIDE DEF p
  <2> QED BY <1>6 DEF Stacks, FileCount
<1> QED BY <1>2, <1>3, <1>4, <1>7

LEMMA RoomType == ASSUME NEW x \in Walks PROVE Room(x) \in 0 .. FileCount * (FileCount + 1) + FileCount
<1> DEFINE a == FileCount - Cardinality(DOMAIN x.stack)
           k == Cardinality(x.next)
<1>0. x.stack \in Stacks /\ x.next \in SUBSET Files
  BY DEF Walks
<1>1. FileCount \in Nat /\ a \in 0 .. FileCount
  BY <1>0, StackIs
<1>2. k \in Nat /\ k <= FileCount
  BY <1>0, FilesAssumption, FS_CardinalityType, FS_Subset DEF FileCount
<1>3. Room(x) = a * (FileCount + 1) + k
  BY DEF Room
<1> HIDE DEF a, k
<1>4. a * (FileCount + 1) \in Nat /\ a * (FileCount + 1) <= FileCount * (FileCount + 1) /\ FileCount * (FileCount + 1) \in Nat
  BY <1>1
<1> QED BY <1>1, <1>2, <1>3, <1>4

LEMMA EnterSmaller ==
  ASSUME includes \in SUBSET IncludePairs, NEW x \in Walks,
         NEW n \in Files, n \notin DOMAIN x.stack, NEW cache \in Dict(Files, SUBSET Files)
  PROVE  /\ Enter(n, cache, x.stack) \in Walks
         /\ Room(Enter(n, cache, x.stack)) < Room(x)
<1> DEFINE e == Enter(n, cache, x.stack)
           s == Cardinality(DOMAIN x.stack)
           j == Cardinality(e.next)
           k == Cardinality(x.next)
           a == FileCount - (s + 1)
<1>0. x.stack \in Stacks /\ x.next \in SUBSET Files
  BY DEF Walks
<1>1. /\ e.node = n /\ e.next = cimported_files(n) /\ e.stack = Push(x.stack, n)
      /\ e.sofar = [deps |-> immediate_dependencies(n), loop |-> NoLoop, cache |-> cache]
      /\ e = [node |-> e.node, next |-> e.next, stack |-> e.stack, sofar |-> e.sofar]
  BY DEF Enter
<1>2. e.next \in SUBSET Files /\ e.sofar \in Merges
  BY <1>1, ImmediateType DEF Merges, Memos
<1>3. e.stack \in Stacks
  BY <1>0, <1>1, PushIs
<1>4. e \in Walks
  <2> HIDE DEF e
  <2> QED BY <1>1, <1>2, <1>3 DEF Walks
<1>5. Cardinality(DOMAIN e.stack) = s + 1 /\ s + 1 <= FileCount /\ s \in Nat /\ FileCount \in Nat
  <2>1. PICK stack \in Stacks : stack = x.stack
    BY <1>0
  <2>2. /\ DOMAIN Push(stack, n) = DOMAIN stack \cup {n}
        /\ Cardinality(DOMAIN stack \cup {n}) = Cardinality(DOMAIN stack) + 1
        /\ Cardinality(DOMAIN stack) + 1 <= FileCount
    BY <2>1, PushIs
  <2>3. FileCount \in Nat /\ Cardinality(DOMAIN stack) \in Nat
    BY StackIs
  <2> QED BY <1>1, <2>1, <2>2, <2>3
<1>6. j \in Nat /\ j <= FileCount /\ k \in Nat
  BY <1>0, <1>2, FilesAssumption, FS_CardinalityType, FS_Subset DEF FileCount
<1>7. Room(e) = a * (FileCount + 1) + j
  BY <1>5 DEF Room
<1>8. Room(x) = (a + 1) * (FileCount + 1) + k
  <2>1. FileCount - s = a + 1
    BY <1>5
  <2> QED BY <2>1 DEF Room
<1>9. a \in Nat
  BY <1>5
<1> HIDE DEF a, j, k, s, e
<1>10. (a + 1) * (FileCount + 1) = a * (FileCount + 1) + (FileCount + 1) /\ a * (FileCount + 1) \in Nat
  BY <1>5, <1>9
<1>11. Room(e) < Room(x)
  BY <1>5, <1>6, <1>7, <1>8, <1>9, <1>10
<1> QED BY <1>4, <1>11 DEF e

LEMMA RestSmaller ==
  ASSUME NEW x \in Walks, NEW n \in x.next, NEW sofar \in Merges
  PROVE  Rest(x, n, sofar) \in Walks /\ Room(Rest(x, n, sofar)) < Room(x)
<1> DEFINE y == Rest(x, n, sofar)
<1>0. /\ x.stack \in Stacks /\ x.next \in SUBSET Files /\ x.node \in Files
  BY DEF Walks
<1>1. /\ y.node = x.node /\ y.next = x.next \ {n} /\ y.stack = x.stack /\ y.sofar = sofar
      /\ y \in Walks
  BY <1>0 DEF Rest, Walks
<1>2. IsFiniteSet(x.next)
  BY <1>0, FilesAssumption, FS_Subset
<1>3. Cardinality(x.next \ {n}) = Cardinality(x.next) - 1 /\ Cardinality(x.next) \in Nat
  BY <1>2, FS_RemoveElement, FS_CardinalityType
<1> DEFINE b == (FileCount - Cardinality(DOMAIN x.stack)) * (FileCount + 1)
<1>4. b \in Int
  <2>1. FileCount \in Nat /\ Cardinality(DOMAIN x.stack) \in Nat
    BY <1>0, StackIs
  <2> QED BY <2>1
<1>5. Room(y) = b + (Cardinality(x.next) - 1) /\ Room(x) = b + Cardinality(x.next)
  BY <1>1, <1>3 DEF Room
<1> HIDE DEF b, y
<1>6. Room(y) < Room(x)
  BY <1>3, <1>4, <1>5
<1> QED BY <1>1, <1>6 DEF y
LEMMA ForemostIs ==
  ASSUME NEW f \in Files, NEW next \in SUBSET Files, next # {}
  PROVE  Foremost(f, next) \in next
<1> DEFINE ranks == {Order[f][g] : g \in next}
<1>1. \A g \in Files : Order[f][g] \in Nat
  BY FilesAssumption
<1>2. ranks \in SUBSET Nat /\ ranks # {}
  BY <1>1
<1>3. PICK p \in ranks : \A q \in ranks : p <= q
  BY <1>2, LeastNumber
<1>4. \E n \in next : \A m \in next : Order[f][n] <= Order[f][m]
  BY <1>3
<1> QED BY <1>4 DEF Foremost

LEMMA HelperType ==
  ASSUME includes \in SUBSET IncludePairs, NEW x \in Walks, NEW n \in Files,
         NEW cache \in Dict(Files, SUBSET Files), NEW merge,
         n \notin DOMAIN cache /\ n \notin DOMAIN x.stack
            => merge[Enter(n, cache, x.stack)] \in Merges
  PROVE  Helper(n, cache, x.stack, merge) \in Merges
<1>1. CASE n \in DOMAIN cache
  <2>1. cache[n] \in SUBSET Files
    BY <1>1, DictIs
  <2>2. Helper(n, cache, x.stack, merge) = [deps |-> cache[n], loop |-> NoLoop, cache |-> cache]
    BY <1>1 DEF Helper
  <2> QED BY <2>1, <2>2 DEF Merges, Memos
<1>2. CASE n \notin DOMAIN cache /\ n \in DOMAIN x.stack
  <2>1. Helper(n, cache, x.stack, merge)
          = [deps |-> immediate_dependencies(n), loop |-> n, cache |-> cache]
    BY <1>2 DEF Helper
  <2> QED BY <2>1, ImmediateType DEF Merges, Memos
<1>3. CASE n \notin DOMAIN cache /\ n \notin DOMAIN x.stack
  <2>1. PICK r \in Merges : r = merge[Enter(n, cache, x.stack)]
    BY <1>3
  <2>2. Helper(n, cache, x.stack, merge) = Finished(n, r)
    BY <1>3, <2>1 DEF Helper
  <2> DEFINE loop == LoopLeft(n, r.loop)
             new  == [m \in DOMAIN r.cache \cup {n} |-> IF m = n THEN r.deps ELSE r.cache[m]]
  <2>3. r.deps \in SUBSET Files /\ r.loop \in Files \cup {NoLoop} /\ r.cache \in Dict(Files, SUBSET Files)
    BY DEF Merges, Memos
  <2>4. loop \in Files \cup {NoLoop}
    BY <2>3 DEF LoopLeft
  <2>5. DOMAIN r.cache \subseteq Files /\ \A m \in DOMAIN r.cache : r.cache[m] \in SUBSET Files
    BY <2>3, DictIs
  <2>6. new \in Dict(Files, SUBSET Files)
    <3>1. new \in [DOMAIN r.cache \cup {n} -> SUBSET Files]
      BY <2>3, <2>5
    <3>2. DOMAIN new = DOMAIN r.cache \cup {n}
      OBVIOUS
    <3> HIDE DEF new
    <3> QED BY <2>5, <3>1, <3>2, DictIs
  <2>7. Finished(n, r) = [deps |-> r.deps, loop |-> loop,
                          cache |-> IF loop # NoLoop THEN r.cache ELSE new]
    BY DEF Finished
  <2> HIDE DEF loop, new
  <2>8. Finished(n, r) \in Merges
    BY <2>3, <2>4, <2>6, <2>7 DEF Merges, Memos
  <2> QED BY <2>2, <2>8
<1> QED BY <1>1, <1>2, <1>3

LEMMA MergeType ==
  ASSUME NEW stack, NEW sofar \in Merges, NEW r \in Merges
  PROVE  Merge(stack, sofar, r) \in Merges
<1>1. /\ sofar.deps \cup r.deps \in SUBSET Files /\ r.cache \in Dict(Files, SUBSET Files)
      /\ sofar.loop \in Files \cup {NoLoop} /\ r.loop \in Files \cup {NoLoop}
  BY DEF Merges, Memos
<1>2. Outer(stack, sofar.loop, r.loop) \in Files \cup {NoLoop}
  BY <1>1 DEF Outer
<1> QED BY <1>1, <1>2 DEF Merge, Merges, Memos

\* The calls that the call x leads to.
Smaller(x) == {y \in Walks : Room(y) < Room(x)}

\* A turn depends on the smaller calls only.
LEMMA TurnLooksBelow ==
  ASSUME includes \in SUBSET IncludePairs, NEW x \in Walks, NEW merge, NEW other,
         \A y \in Smaller(x) : merge[y] \in Merges /\ other[y] = merge[y]
  PROVE  Turn(x, merge) \in Merges /\ Turn(x, other) = Turn(x, merge)
<1>0. /\ x.stack \in Stacks /\ x.next \in SUBSET Files /\ x.node \in Files /\ x.sofar \in Merges
  BY DEF Walks
<1>1. CASE x.next = {}
  BY <1>0, <1>1 DEF Turn
<1>2. CASE x.next # {}
  <2>1. PICK n \in x.next : n = Foremost(x.node, x.next)
    BY <1>0, <1>2, ForemostIs
  <2>2. PICK cache \in Dict(Files, SUBSET Files) : cache = x.sofar.cache
    BY <1>0 DEF Merges, Memos
  <2>3. n \in Files
    BY <1>0
  <2>4. ASSUME n \notin DOMAIN x.stack
        PROVE  /\ merge[Enter(n, cache, x.stack)] \in Merges
               /\ other[Enter(n, cache, x.stack)] = merge[Enter(n, cache, x.stack)]
    <3>1. Enter(n, cache, x.stack) \in Smaller(x)
      BY <2>3, <2>4, EnterSmaller DEF Smaller
    <3> QED BY <3>1
  <2>5. Helper(n, cache, x.stack, merge) \in Merges
    BY <2>3, <2>4, HelperType
  <2>6. Helper(n, cache, x.stack, other) = Helper(n, cache, x.stack, merge)
    BY <2>4 DEF Helper
  <2>7. PICK r \in Merges : r = Helper(n, cache, x.stack, merge)
    BY <2>5
  <2>8. PICK sofar \in Merges : sofar = Merge(x.stack, x.sofar, r)
    BY <1>0, MergeType
  <2>9. Rest(x, n, sofar) \in Smaller(x)
    BY RestSmaller DEF Smaller
  <2>10. Turn(x, merge) = merge[Rest(x, n, sofar)]
    BY <1>2, <2>1, <2>2, <2>7, <2>8 DEF Turn, Rest
  <2>11. Turn(x, other) = other[Rest(x, n, sofar)]
    BY <1>2, <2>1, <2>2, <2>6, <2>7, <2>8 DEF Turn, Rest
  <2> QED BY <2>9, <2>10, <2>11
<1> QED BY <1>1, <1>2

\* The loop's definition has a solution, and it returns what a call may return.
LEMMA MergeNextIs ==
  ASSUME includes \in SUBSET IncludePairs
  PROVE  /\ MergeNext \in [Walks -> Merges]
         /\ \A x \in Walks : MergeNext[x] = Turn(x, MergeNext)
<1> DEFINE M == FileCount * (FileCount + 1) + FileCount
<1>0. FileCount \in Nat /\ M \in Nat
  <2>1. FileCount \in Nat
    BY FilesAssumption, FS_CardinalityType DEF FileCount
  <2> QED BY <2>1
<1>1. \A x \in Walks : Room(x) \in 0 .. M
  BY RoomType
<1> HIDE DEF M
<1>2. PICK measure : measure = [x \in Walks |-> Room(x)]
  OBVIOUS
<1>3. PICK step : step = [p \in [Walks -> Merges] \X Walks |-> Turn(p[2], p[1])]
  OBVIOUS
<1>4. \A f \in [Walks -> Merges], x \in Walks : step[<<f, x>>] = Turn(x, f)
  <2> TAKE f \in [Walks -> Merges], x \in Walks
  <2>1. <<f, x>> \in [Walks -> Merges] \X Walks
    OBVIOUS
  <2> QED BY <1>3, <2>1
<1>5. \A x \in Walks : \A y \in Smaller(x) : y \in Walks
  BY DEF Smaller
<1>6. LooksBelow(Walks, Merges, M, measure, step)
  <2>1. Merges # {}
    <3>1. <<>> \in Dict(Files, SUBSET Files)
      <4>1. DOMAIN <<>> = {} /\ <<>> \in [{} -> SUBSET Files]
        OBVIOUS
      <4> QED BY <4>1, DictIs
    <3>2. [deps |-> {}, loop |-> NoLoop, cache |-> <<>>] \in Merges
      BY <3>1 DEF Merges, Memos
    <3> QED BY <3>2
  <2>2. measure \in [Walks -> 0 .. M]
    BY <1>1, <1>2
  <2>3. ASSUME NEW f \in [Walks -> Merges], NEW x \in Walks PROVE step[<<f, x>>] \in Merges
    <3>1. \A y \in Smaller(x) : f[y] \in Merges /\ f[y] = f[y]
      BY <1>5
    <3>2. Turn(x, f) \in Merges
      BY <3>1, TurnLooksBelow
    <3> QED BY <1>4, <3>2
  <2>4. ASSUME NEW f \in [Walks -> Merges], NEW g \in [Walks -> Merges], NEW x \in Walks,
               \A y \in Walks : measure[y] < measure[x] => f[y] = g[y]
        PROVE  step[<<f, x>>] = step[<<g, x>>]
    <3>1. \A y \in Smaller(x) : f[y] \in Merges /\ g[y] = f[y]
      BY <1>2, <1>5, <2>4 DEF Smaller
    <3>2. Turn(x, g) = Turn(x, f)
      BY <3>1, TurnLooksBelow
    <3> QED BY <1>4, <3>2
  <2> QED BY <1>0, <2>1, <2>2, <2>3, <2>4 DEF LooksBelow
<1>7. PICK k \in [Walks -> Merges] : \A x \in Walks : k[x] = Turn(x, k)
  <2>1. PICK f \in Fixed(Walks, Merges, step) : TRUE
    BY <1>6, Recursion
  <2>2. f \in [Walks -> Merges] /\ \A x \in Walks : f[x] = step[<<f, x>>]
    BY <2>1 DEF Fixed
  <2> QED BY <1>4, <2>2
<1>8. k = [x \in Walks |-> Turn(x, k)]
  BY <1>7
<1>9. MergeNext = [x \in Walks |-> Turn(x, MergeNext)]
  <2> DEFINE m == CHOOSE h : h = [x \in Walks |-> Turn(x, h)]
  <2>1. m = [x \in Walks |-> Turn(x, m)]
    BY <1>8
  <2>2. MergeNext = m
    BY DEF MergeNext
  <2> HIDE DEF m
  <2> QED BY <2>1, <2>2
<1>10. PICK h : h = MergeNext
  OBVIOUS
<1>11. h = [x \in Walks |-> Turn(x, h)]
  BY <1>9, <1>10
<1>12. DOMAIN h = Walks /\ \A x \in Walks : h[x] = Turn(x, h)
  BY <1>11
<1>13. \A x \in Walks : h[x] = k[x]
  <2> DEFINE Wrong == {x \in Walks : h[x] # k[x]}
             Bad == {Room(x) : x \in Wrong}
  <2> SUFFICES ASSUME Bad # {} PROVE FALSE
    OBVIOUS
  <2>1. Bad \in SUBSET Nat
    BY <1>0, <1>1
  <2>2. PICK n \in Bad : \A m \in Bad : n <= m
    BY <2>1, LeastNumber
  <2>3. PICK x \in Walks : n = Room(x) /\ h[x] # k[x]
    BY <2>2
  <2>4. ASSUME NEW y \in Smaller(x) PROVE k[y] \in Merges /\ h[y] = k[y]
    <3>1. y \in Walks /\ Room(y) < Room(x) /\ Room(x) \in Nat /\ Room(y) \in Nat
      BY <1>0, <1>1 DEF Smaller
    <3>2. ~ (n <= Room(y))
      BY <2>3, <3>1
    <3>3. y \notin Wrong
      BY <2>2, <3>2
    <3> QED BY <1>7, <3>1, <3>3
  <2>5. Turn(x, h) = Turn(x, k)
    BY <2>4, TurnLooksBelow
  <2> QED BY <1>7, <1>12, <2>3, <2>5
<1>14. h = k
  <2>1. h = [x \in Walks |-> h[x]] /\ k = [x \in Walks |-> k[x]]
    BY <1>11, <1>7
  <2> QED BY <1>13, <2>1
<1> QED BY <1>7, <1>10, <1>14
-----------------------------------------------------------------------------
(* What the walk has merged.                                               *)

Imports(S) == UNION {cimported_files(g) : g \in S}
Needs(S)   == UNION {immediate_dependencies(g) : g \in S}

AllFinished(cache) == \A f \in DOMAIN cache : cache[f] = DependsOn(f)

\* A depth is the number of files below it.
Depths(stack) == \A f \in DOMAIN stack : stack[f] < Cardinality(DOMAIN stack)

\* r is what the files in "done", and those in "above" that are on the stack,
\* need; the loop is the lowest of these.
Covers(done, above, stack, r) ==
  /\ done \in SUBSET Files /\ above \in SUBSET DOMAIN stack
  /\ r.deps = Needs(done \cup above)
  /\ r.loop = NoLoop => above = {}
  /\ r.loop # NoLoop => r.loop \in DOMAIN stack /\ \A f \in above : stack[r.loop] <= stack[f]
  /\ AllFinished(r.cache)

\* A visit of n returned r: from n, only files on the stack lead on.
Visited(n, stack, r) ==
  \E done \in SUBSET Files, above \in SUBSET DOMAIN stack :
    /\ Covers(done, above, stack, r)
    /\ n \in done \cup above /\ done \cup above \subseteq Reached(n)
    /\ Imports(done) \subseteq done \cup above

\* The loop over the cimports of n has merged r, and "next" are left.
Walked(n, next, stack, r) ==
  \E done \in SUBSET Files, above \in SUBSET DOMAIN stack :
    /\ Covers(done, above, stack, r)
    /\ n \in done /\ done \cup above \subseteq Reached(n)
    /\ Imports(done \ {n}) \subseteq done \cup above
    /\ cimported_files(n) \ next \subseteq done \cup above

Ready(x) ==
  /\ Depths(x.stack) /\ x.next \subseteq cimported_files(x.node)
  /\ Walked(x.node, x.next, x.stack, x.sofar)

\* A file that nothing above it can be reached from, with all that it reaches.
LEMMA WholeIsFinished ==
  ASSUME NEW n \in Files, NEW done \in SUBSET Files,
         n \in done, done \subseteq Reached(n), Imports(done) \subseteq done
  PROVE  done = Reached(n) /\ Needs(done) = DependsOn(n)
<1>1. Closed(done)
  BY DEF Closed, Imports
<1>2. done = Reached(n)
  BY <1>1, ReachedIs
<1> QED BY <1>2 DEF Needs, DependsOn

\* The node that the loop was run for is finished, or waits for the loop's.
LEMMA FinishedVisits ==
  ASSUME includes \in SUBSET IncludePairs,
         NEW stack \in Stacks, Depths(stack), NEW n \in Files, n \notin DOMAIN stack,
         NEW r \in Merges, Walked(n, {}, Push(stack, n), r)
  PROVE  Visited(n, stack, Finished(n, r))
<1> DEFINE push == Push(stack, n)
           told == Finished(n, r)
<1>1. /\ DOMAIN push = DOMAIN stack \cup {n} /\ push[n] = Cardinality(DOMAIN stack)
      /\ \A m \in DOMAIN stack : push[m] = stack[m]
  BY PushIs
<1>2. PICK done \in SUBSET Files, above \in SUBSET DOMAIN push :
         /\ Covers(done, above, push, r)
         /\ n \in done /\ done \cup above \subseteq Reached(n)
         /\ Imports(done \ {n}) \subseteq done \cup above
         /\ cimported_files(n) \ {} \subseteq done \cup above
  BY DEF Walked
<1>3. Imports(done) \subseteq done \cup above
  BY <1>2 DEF Imports
<1>4. /\ r.deps = Needs(done \cup above) /\ AllFinished(r.cache)
      /\ r.loop = NoLoop => above = {}
      /\ r.loop # NoLoop => r.loop \in DOMAIN push /\ \A f \in above : push[r.loop] <= push[f]
  BY <1>2 DEF Covers
<1>5. /\ told.deps = r.deps /\ told.loop = LoopLeft(n, r.loop)
      /\ told.loop # NoLoop => told.cache = r.cache
      /\ told.loop = NoLoop =>
           /\ DOMAIN told.cache = DOMAIN r.cache \cup {n}
           /\ \A m \in DOMAIN r.cache \cup {n} :
                told.cache[m] = IF m = n THEN r.deps ELSE r.cache[m]
  BY DEF Finished
<1>6. \A f \in DOMAIN stack : stack[f] \in Nat /\ stack[f] < Cardinality(DOMAIN stack)
  BY StackIs DEF Depths
<1>6a. Cardinality(DOMAIN stack) \in Nat
  BY StackIs
<1> HIDE DEF push, told
<1>7. CASE told.loop = NoLoop
  <2>1. above \subseteq {n}
    <3>1. CASE r.loop = NoLoop
      BY <1>4, <3>1
    <3>2. CASE r.loop = n
      <4>1. ASSUME NEW f \in above, f # n PROVE FALSE
        <5>1. f \in DOMAIN stack /\ push[n] <= push[f] /\ r.loop # NoLoop
          BY <1>1, <1>4, <3>2, <4>1, FilesAssumption
        <5> QED BY <1>1, <1>6, <1>6a, <5>1
      <4> QED BY <4>1
    <3> QED BY <1>5, <1>7, <3>1, <3>2 DEF LoopLeft
  <2>2. Imports(done) \subseteq done /\ done \cup above = done
    BY <1>2, <1>3, <2>1
  <2>3. Needs(done) = DependsOn(n)
    BY <1>2, <2>2, WholeIsFinished
  <2>4. r.deps = DependsOn(n)
    BY <1>4, <2>2, <2>3
  <2>5. AllFinished(told.cache)
    BY <1>4, <1>5, <1>7, <2>4 DEF AllFinished
  <2>6. Covers(done, {}, stack, told)
    BY <1>4, <1>5, <1>7, <2>2, <2>5 DEF Covers
  <2>7. {} \in SUBSET DOMAIN stack /\ done \cup {} = done
    OBVIOUS
  <2> QED BY <1>2, <2>2, <2>6, <2>7 DEF Visited, told
<1>8. CASE told.loop # NoLoop
  <2>1. r.loop # NoLoop /\ r.loop # n /\ told.loop = r.loop
    BY <1>5, <1>8 DEF LoopLeft
  <2> DEFINE up == above \ {n}
  <2>2. done \cup up = done \cup above /\ up \in SUBSET DOMAIN stack
    BY <1>1, <1>2
  <2>3. r.loop \in DOMAIN stack /\ \A f \in up : stack[r.loop] <= stack[f]
    BY <1>1, <1>4, <2>1
  <2> HIDE DEF up
  <2>4. Covers(done, up, stack, told)
    BY <1>4, <1>5, <1>8, <2>1, <2>2, <2>3 DEF Covers
  <2> QED BY <1>2, <1>3, <2>2, <2>4 DEF Visited, told
<1> QED BY <1>7, <1>8

LEMMA HelperVisits ==
  ASSUME includes \in SUBSET IncludePairs,
         NEW stack \in Stacks, Depths(stack), NEW n \in Files,
         NEW cache \in Dict(Files, SUBSET Files), AllFinished(cache), NEW merge,
         n \notin DOMAIN cache /\ n \notin DOMAIN stack =>
            /\ merge[Enter(n, cache, stack)] \in Merges
            /\ Walked(n, {}, Push(stack, n), merge[Enter(n, cache, stack)])
  PROVE  Visited(n, stack, Helper(n, cache, stack, merge))
<1> DEFINE r == Helper(n, cache, stack, merge)
<1>1. CASE n \in DOMAIN cache
  <2>1. r = [deps |-> cache[n], loop |-> NoLoop, cache |-> cache]
    BY <1>1 DEF Helper
  <2>2. cache[n] = DependsOn(n)
    BY <1>1 DEF AllFinished
  <2>3. PICK done \in SUBSET Files : done = Reached(n)
    BY ReachedIs
  <2>4. n \in done /\ Imports(done) \subseteq done
    BY <2>3, ReachedIs DEF Imports
  <2>5. Needs(done) = DependsOn(n)
    BY <2>3 DEF Needs, DependsOn
  <2>6. r.deps = Needs(done \cup {}) /\ r.loop = NoLoop /\ r.cache = cache
    BY <2>1, <2>2, <2>5
  <2> HIDE DEF r
  <2>7. Covers(done, {}, stack, r)
    BY <2>6 DEF Covers
  <2>8. {} \in SUBSET DOMAIN stack /\ done \cup {} = done
    OBVIOUS
  <2> QED BY <2>3, <2>4, <2>7, <2>8 DEF Visited, r
<1>2. CASE n \notin DOMAIN cache /\ n \in DOMAIN stack
  <2>1. r = [deps |-> immediate_dependencies(n), loop |-> n, cache |-> cache]
    BY <1>2 DEF Helper
  <2>2. n \in Reached(n) /\ n # NoLoop
    BY ReachedIs, FilesAssumption
  <2>3. stack[n] <= stack[n]
    BY <1>2, StackIs
  <2>4. Needs({} \cup {n}) = immediate_dependencies(n) /\ Imports({}) = {}
    BY DEF Needs, Imports
  <2>5. r.deps = Needs({} \cup {n}) /\ r.loop = n /\ r.cache = cache
    BY <2>1, <2>4
  <2> HIDE DEF r
  <2>6. Covers({}, {n}, stack, r)
    BY <1>2, <2>2, <2>3, <2>5 DEF Covers
  <2>7. {} \in SUBSET Files /\ {n} \in SUBSET DOMAIN stack
    BY <1>2
  <2> QED BY <2>2, <2>4, <2>6, <2>7 DEF Visited, r
<1>3. CASE n \notin DOMAIN cache /\ n \notin DOMAIN stack
  <2>1. PICK m \in Merges : m = merge[Enter(n, cache, stack)]
    BY <1>3
  <2>2. r = Finished(n, m)
    BY <1>3, <2>1 DEF Helper
  <2>3. Visited(n, stack, Finished(n, m))
    BY <1>3, <2>1, FinishedVisits
  <2> QED BY <2>2, <2>3
<1> QED BY <1>1, <1>2, <1>3

\* What a visit returned is merged into what the loop has.
LEMMA MergeWalks ==
  ASSUME NEW stack \in Stacks, NEW f \in Files, NEW next \in SUBSET Files, NEW n \in next,
         next \subseteq cimported_files(f),
         NEW sofar \in Merges, Walked(f, next, stack, sofar),
         NEW r \in Merges, Visited(n, stack, r)
  PROVE  Walked(f, next \ {n}, stack, Merge(stack, sofar, r))
<1> DEFINE m == Merge(stack, sofar, r)
<1>1. PICK done \in SUBSET Files, above \in SUBSET DOMAIN stack :
         /\ Covers(done, above, stack, sofar)
         /\ f \in done /\ done \cup above \subseteq Reached(f)
         /\ Imports(done \ {f}) \subseteq done \cup above
         /\ cimported_files(f) \ next \subseteq done \cup above
  BY DEF Walked
<1>2. PICK more \in SUBSET Files, higher \in SUBSET DOMAIN stack :
         /\ Covers(more, higher, stack, r)
         /\ n \in more \cup higher /\ more \cup higher \subseteq Reached(n)
         /\ Imports(more) \subseteq more \cup higher
  BY DEF Visited
<1>3. m.deps = sofar.deps \cup r.deps /\ m.loop = Outer(stack, sofar.loop, r.loop) /\ m.cache = r.cache
  BY DEF Merge
<1>4. /\ sofar.deps = Needs(done \cup above)
      /\ sofar.loop = NoLoop => above = {}
      /\ sofar.loop # NoLoop =>
           sofar.loop \in DOMAIN stack /\ \A g \in above : stack[sofar.loop] <= stack[g]
  BY <1>1 DEF Covers
<1>5. /\ r.deps = Needs(more \cup higher) /\ AllFinished(r.cache)
      /\ r.loop = NoLoop => higher = {}
      /\ r.loop # NoLoop => r.loop \in DOMAIN stack /\ \A g \in higher : stack[r.loop] <= stack[g]
  BY <1>2 DEF Covers
<1>6. \A g \in DOMAIN stack : stack[g] \in Nat
  BY StackIs
<1> DEFINE all == done \cup more
           up  == above \cup higher
<1>7. m.deps = Needs(all \cup up)
  BY <1>3, <1>4, <1>5 DEF Needs
<1> HIDE DEF m
<1>8. m.loop = NoLoop => up = {}
  BY <1>3, <1>4, <1>5 DEF Outer
<1>9. ASSUME m.loop # NoLoop
      PROVE  m.loop \in DOMAIN stack /\ \A g \in up : stack[m.loop] <= stack[g]
  <2>1. CASE r.loop = NoLoop
    BY <1>3, <1>4, <1>5, <1>9, <2>1 DEF Outer
  <2>2. CASE r.loop # NoLoop /\ sofar.loop = NoLoop
    BY <1>3, <1>4, <1>5, <1>9, <2>2 DEF Outer
  <2>3. CASE r.loop # NoLoop /\ sofar.loop # NoLoop
    <3>1. /\ m.loop \in {r.loop, sofar.loop} /\ m.loop \in DOMAIN stack
          /\ stack[m.loop] <= stack[r.loop] /\ stack[m.loop] <= stack[sofar.loop]
      BY <1>3, <1>4, <1>5, <1>6, <2>3 DEF Outer
    <3>2. ASSUME NEW g \in up PROVE stack[m.loop] <= stack[g]
      <4>1. /\ stack[g] \in Nat /\ stack[m.loop] \in Nat
            /\ stack[r.loop] \in Nat /\ stack[sofar.loop] \in Nat
        BY <1>4, <1>5, <1>6, <2>3, <3>1
      <4>2. stack[r.loop] <= stack[g] \/ stack[sofar.loop] <= stack[g]
        BY <1>4, <1>5, <2>3
      <4> QED BY <3>1, <4>1, <4>2
    <3> QED BY <3>1, <3>2
  <2> QED BY <2>1, <2>2, <2>3
<1>10. Covers(all, up, stack, m)
  <2> HIDE DEF all, up
  <2>1. all \in SUBSET Files /\ up \in SUBSET DOMAIN stack
    BY DEF all, up
  <2> QED BY <1>3, <1>5, <1>7, <1>8, <1>9, <2>1 DEF Covers
<1>11. more \cup higher \subseteq Reached(f)
  <2>1. n \in Reached(f)
    BY ReachedIs
  <2> QED BY <1>2, <2>1, ReachedOn
<1>12. Imports(all \ {f}) \subseteq all \cup up
  BY <1>1, <1>2 DEF Imports
<1>13. cimported_files(f) \ (next \ {n}) \subseteq all \cup up
  BY <1>1, <1>2
<1>14. f \in all /\ all \cup up \subseteq Reached(f)
  BY <1>1, <1>11
<1>15. all \in SUBSET Files /\ up \in SUBSET DOMAIN stack
  OBVIOUS
<1> HIDE DEF all, up
<1> QED BY <1>10, <1>12, <1>13, <1>14, <1>15 DEF Walked, m
LEMMA EnterReady ==
  ASSUME includes \in SUBSET IncludePairs,
         NEW stack \in Stacks, Depths(stack), NEW n \in Files, n \notin DOMAIN stack,
         NEW cache \in Dict(Files, SUBSET Files), AllFinished(cache)
  PROVE  Ready(Enter(n, cache, stack))
<1> DEFINE push == Push(stack, n)
           first == [deps |-> immediate_dependencies(n), loop |-> NoLoop, cache |-> cache]
<1>1. /\ DOMAIN push = DOMAIN stack \cup {n} /\ push[n] = Cardinality(DOMAIN stack)
      /\ \A m \in DOMAIN stack : push[m] = stack[m]
      /\ Cardinality(DOMAIN push) = Cardinality(DOMAIN stack) + 1
  BY PushIs
<1>2. /\ \A m \in DOMAIN stack : stack[m] \in Nat /\ stack[m] < Cardinality(DOMAIN stack)
      /\ Cardinality(DOMAIN stack) \in Nat
  BY StackIs DEF Depths
<1>3. Depths(push)
  <2> HIDE DEF push
  <2> QED BY <1>1, <1>2 DEF Depths
<1>4. Covers({n}, {}, push, first)
  <2>1. Needs({n} \cup {}) = immediate_dependencies(n)
    BY DEF Needs
  <2>2. first.deps = Needs({n} \cup {}) /\ first.loop = NoLoop /\ first.cache = cache
    BY <2>1
  <2> HIDE DEF first, push
  <2> QED BY <2>2 DEF Covers
<1>5. Imports({n} \ {n}) = {}
  BY DEF Imports
<1> HIDE DEF first, push
<1>6. Walked(n, cimported_files(n), push, first)
  <2>1. n \in Reached(n)
    BY ReachedIs
  <2>2. {n} \in SUBSET Files /\ {} \in SUBSET DOMAIN push
    OBVIOUS
  <2> QED BY <1>4, <1>5, <2>1, <2>2 DEF Walked
<1>7. LET e == Enter(n, cache, stack)
      IN  e.node = n /\ e.next = cimported_files(n) /\ e.stack = push /\ e.sofar = first
  BY DEF Enter, push, first
<1> QED BY <1>3, <1>6, <1>7 DEF Ready

\* A turn carries the loop on.
LEMMA TurnWalks ==
  ASSUME includes \in SUBSET IncludePairs, NEW x \in Walks, Ready(x),
         \A y \in Smaller(x) : Ready(y) => Walked(y.node, {}, y.stack, MergeNext[y])
  PROVE  Walked(x.node, {}, x.stack, MergeNext[x])
<1>0. /\ x.node \in Files /\ x.next \in SUBSET Files /\ x.stack \in Stacks /\ x.sofar \in Merges
      /\ x.sofar.cache \in Dict(Files, SUBSET Files)
  BY DEF Walks, Merges, Memos
<1>1. /\ Depths(x.stack) /\ x.next \subseteq cimported_files(x.node)
      /\ Walked(x.node, x.next, x.stack, x.sofar)
  BY DEF Ready
<1>2. PICK merge \in [Walks -> Merges] : merge = MergeNext /\ merge[x] = Turn(x, merge)
  BY MergeNextIs
<1>3. CASE x.next = {}
  <2>1. merge[x] = x.sofar
    BY <1>2, <1>3 DEF Turn
  <2> QED BY <1>1, <1>2, <1>3, <2>1
<1>4. CASE x.next # {}
  <2>1. PICK n \in x.next : n = Foremost(x.node, x.next)
    BY <1>0, <1>4, ForemostIs
  <2>2. PICK stack \in Stacks : stack = x.stack
    BY <1>0
  <2>3. PICK cache \in Dict(Files, SUBSET Files) : cache = x.sofar.cache
    BY <1>0
  <2>4. n \in Files /\ Depths(stack)
    BY <1>0, <1>1, <2>2
  <2>5. AllFinished(cache)
    BY <1>1, <2>3 DEF Walked, Covers
  <2>6. ASSUME n \notin DOMAIN cache, n \notin DOMAIN stack
        PROVE  /\ merge[Enter(n, cache, stack)] \in Merges
               /\ Walked(n, {}, Push(stack, n), merge[Enter(n, cache, stack)])
    <3>1. PICK e \in Smaller(x) : e = Enter(n, cache, stack)
      BY <2>2, <2>4, <2>6, EnterSmaller DEF Smaller
    <3>2. e \in Walks
      BY DEF Smaller
    <3>3. Ready(e)
      BY <2>4, <2>5, <2>6, <3>1, EnterReady
    <3>4. e.node = n /\ e.stack = Push(stack, n)
      BY <3>1 DEF Enter
    <3> QED BY <1>2, <3>1, <3>2, <3>3, <3>4
  <2>7. PICK r \in Merges : r = Helper(n, cache, stack, merge)
    BY <1>0, <2>2, <2>4, <2>6, HelperType
  <2>8. Visited(n, stack, r)
    BY <2>4, <2>5, <2>6, <2>7, HelperVisits
  <2>9. PICK sofar \in Merges : sofar = Merge(stack, x.sofar, r)
    BY <1>0, MergeType
  <2>10. Walked(x.node, x.next \ {n}, stack, sofar)
    BY <1>0, <1>1, <2>2, <2>8, <2>9, MergeWalks
  <2>11. PICK y \in Smaller(x) : y = Rest(x, n, sofar)
    BY RestSmaller DEF Smaller
  <2>12. y.node = x.node /\ y.next = x.next \ {n} /\ y.stack = stack /\ y.sofar = sofar
    BY <2>2, <2>11 DEF Rest
  <2>13. Ready(y)
    BY <1>1, <2>4, <2>10, <2>12 DEF Ready
  <2>14. Walked(x.node, {}, stack, merge[y])
    BY <1>2, <2>12, <2>13
  <2>15. merge[x] = merge[y]
    BY <1>2, <1>4, <2>1, <2>2, <2>3, <2>7, <2>9, <2>11 DEF Turn, Rest
  <2> QED BY <1>2, <2>2, <2>14, <2>15
<1> QED BY <1>3, <1>4

\* The loop merges all that its node reaches, up to the stack.
LEMMA LoopWalks ==
  ASSUME includes \in SUBSET IncludePairs, NEW x \in Walks, Ready(x)
  PROVE  Walked(x.node, {}, x.stack, MergeNext[x])
<1> DEFINE Wrong == {y \in Walks : Ready(y) /\ ~ Walked(y.node, {}, y.stack, MergeNext[y])}
           Bad == {Room(y) : y \in Wrong}
<1> SUFFICES ASSUME Bad # {} PROVE FALSE
  OBVIOUS
<1>1. \A y \in Walks : Room(y) \in Nat
  <2> TAKE y \in Walks
  <2>1. Room(y) \in 0 .. FileCount * (FileCount + 1) + FileCount
    BY RoomType
  <2> QED BY <2>1
<1>2. Bad \in SUBSET Nat
  BY <1>1
<1>3. PICK n \in Bad : \A m \in Bad : n <= m
  BY <1>2, LeastNumber
<1>4. PICK y \in Wrong : n = Room(y)
  BY <1>3
<1>5. ASSUME NEW z \in Smaller(y), Ready(z) PROVE Walked(z.node, {}, z.stack, MergeNext[z])
  <2>1. z \in Walks /\ Room(z) < Room(y) /\ Room(y) \in Nat /\ Room(z) \in Nat
    BY <1>1 DEF Smaller
  <2>2. ~ (n <= Room(z))
    BY <1>4, <2>1
  <2>3. z \notin Wrong
    BY <1>3, <2>2
  <2> QED BY <1>5, <2>1, <2>3
<1> QED BY <1>4, <1>5, TurnWalks

DepInv ==
  /\ includes \in SUBSET IncludePairs
  /\ seen \in Dict(Files, SUBSET Files)
  /\ SeenIsFinished

\* A question asked of the tree leaves a cache of finished files.
LEMMA AskedIsFinished ==
  ASSUME DepInv, NEW f \in Files, f \notin DOMAIN seen
  PROVE  LET r == Helper(f, seen, <<>>, MergeNext)
         IN  r \in Merges /\ AllFinished(r.cache)
<1>1. /\ includes \in SUBSET IncludePairs /\ seen \in Dict(Files, SUBSET Files)
      /\ AllFinished(seen)
  BY DEF DepInv, SeenIsFinished, AllFinished
<1>2. PICK cache \in Dict(Files, SUBSET Files) : cache = seen
  BY <1>1
<1>3. PICK stack \in Stacks : stack = <<>>
  <2>1. DOMAIN <<>> = {} /\ <<>> \in [{} -> 0 .. Cardinality(Files)]
    OBVIOUS
  <2>2. <<>> \in Dict(Files, 0 .. Cardinality(Files))
    BY <2>1, DictIs
  <2> QED BY <2>2 DEF Stacks
<1>4. DOMAIN stack = {} /\ Depths(stack)
  BY <1>3 DEF Depths
<1>5. PICK sofar \in Merges : TRUE
  <2>1. [deps |-> {}, loop |-> NoLoop, cache |-> cache] \in Merges
    BY DEF Merges, Memos
  <2> QED BY <2>1
<1>6. PICK x \in Walks : x.stack = stack
  <2>1. [node |-> f, next |-> {}, stack |-> stack, sofar |-> sofar] \in Walks
    BY DEF Walks
  <2> QED BY <2>1
<1>7. PICK e \in Walks : e = Enter(f, cache, stack)
  BY <1>1, <1>4, <1>6, EnterSmaller
<1>8. Ready(e) /\ e.node = f /\ e.stack = Push(stack, f)
  <2>1. Ready(e)
    BY <1>1, <1>2, <1>4, <1>7, EnterReady
  <2> QED BY <1>7, <2>1 DEF Enter
<1>9. PICK merge \in [Walks -> Merges] : merge = MergeNext
  BY <1>1, MergeNextIs
<1>10. merge[e] \in Merges /\ Walked(f, {}, Push(stack, f), merge[e])
  BY <1>1, <1>8, <1>9, LoopWalks
<1>11. Helper(f, cache, stack, merge) \in Merges
  BY <1>1, <1>6, <1>7, <1>10, HelperType
<1>12. Visited(f, stack, Helper(f, cache, stack, merge))
  BY <1>1, <1>2, <1>4, <1>7, <1>10, HelperVisits
<1>13. AllFinished(Helper(f, cache, stack, merge).cache)
  BY <1>12 DEF Visited, Covers
<1> QED BY <1>2, <1>3, <1>9, <1>11, <1>13

\* What a file depends on is a matter of the project's files alone.
LEMMA DependsOnStays ==
  ASSUME UNCHANGED <<cimports, includes>>, NEW f \in Files
  PROVE  DependsOn(f)' = DependsOn(f)
<1>1. \A g \in Files : cimported_files(g)' = cimported_files(g)
  BY DEF cimported_files, included_files
<1>2. \A g \in Files : immediate_dependencies(g)' = immediate_dependencies(g)
  BY <1>1 DEF immediate_dependencies, included_files
<1>3. \A S \in SUBSET Files : Closed(S)' <=> Closed(S)
  BY <1>1 DEF Closed
<1>4. Reached(f)' = Reached(f)
  BY <1>3 DEF Reached
<1>5. Reached(f) \in SUBSET Files
  BY ReachedIs
<1> QED BY <1>2, <1>4, <1>5 DEF DependsOn

LEMMA DepInitially == DepInit => DepInv
<1> SUFFICES ASSUME DepInit PROVE DepInv
  OBVIOUS
<1>1. seen = <<>> /\ includes \in SUBSET IncludePairs
  BY DEF DepInit
<1>2. DOMAIN <<>> = {} /\ <<>> \in [{} -> SUBSET Files]
  OBVIOUS
<1>3. <<>> \in Dict(Files, SUBSET Files)
  BY <1>2, DictIs
<1> QED BY <1>1, <1>2, <1>3 DEF DepInv, SeenIsFinished

LEMMA DepStep == DepInv /\ [DepNext]_depVars => DepInv'
<1> SUFFICES ASSUME DepInv, [DepNext]_depVars PROVE DepInv'
  OBVIOUS
<1>0. /\ includes \in SUBSET IncludePairs /\ seen \in Dict(Files, SUBSET Files)
      /\ AllFinished(seen)
  BY DEF DepInv, SeenIsFinished, AllFinished
<1>1. UNCHANGED <<cimports, includes>>
  BY DEF DepNext, AllDependencies, depVars
<1>2. PICK cache \in Dict(Files, SUBSET Files) : seen' = cache /\ AllFinished(cache)
  <2>1. CASE UNCHANGED depVars
    BY <1>0, <2>1 DEF depVars
  <2>2. ASSUME NEW f \in Files, AllDependencies(f)
        PROVE  \E cache \in Dict(Files, SUBSET Files) : seen' = cache /\ AllFinished(cache)
    <3>1. PICK r \in Merges : AllFinished(r.cache) /\ seen' = r.cache
      BY <2>2, AskedIsFinished DEF AllDependencies
    <3>2. r.cache \in Dict(Files, SUBSET Files)
      BY DEF Merges, Memos
    <3> QED BY <3>1, <3>2
  <2> QED BY <2>1, <2>2 DEF DepNext
<1>3. \A f \in DOMAIN cache : f \in Files /\ cache[f] = DependsOn(f)'
  <2> TAKE f \in DOMAIN cache
  <2>1. f \in Files
    BY DictIs
  <2>2. cache[f] = DependsOn(f)
    BY <1>2 DEF AllFinished
  <2> QED BY <1>1, <2>1, <2>2, DependsOnStays
<1>4. SeenIsFinished'
  BY <1>2, <1>3 DEF SeenIsFinished
<1> QED BY <1>0, <1>1, <1>2, <1>4 DEF DepInv

\* transitive_merge memoises what is finished and nothing else
\* (transitive_merge_helper writes a node to the cache only when no loop that
\* it is in began above it): for any files, whatever cimports what and in
\* whatever order a file's cimports are walked, all_dependencies answers with
\* all that a file depends on, and with no more.
THEOREM SeenAreFinished == DepSpec => []SeenIsFinished
<1>1. DepInv => SeenIsFinished
  BY DEF DepInv
<1> QED BY <1>1, DepInitially, DepStep, PTL DEF DepSpec

-----------------------------------------------------------------------------
(* Types.                                                                  *)

\* A sequence without repetitions is as long as the set of its elements.
LEMMA LenOfInjective ==
  ASSUME NEW T, NEW s \in Seq(T), IsInjective(s)
  PROVE  Len(s) \in Nat /\ IsFiniteSet(ToSet(s)) /\ Cardinality(ToSet(s)) = Len(s)
<1> DEFINE n == Len(s)
<1>1. n \in Nat /\ DOMAIN s = 1 .. n /\ \A i \in 1 .. n : s[i] \in T
  BY LenProperties
<1>2. s \in [1 .. n -> ToSet(s)]
  <2>1. \A i \in 1 .. n : s[i] \in ToSet(s)
    BY <1>1 DEF ToSet
  <2>2. s = [i \in 1 .. n |-> s[i]]
    BY <1>1
  <2> HIDE DEF n
  <2> QED BY <2>1, <2>2
<1>3. s \in Bijection(1 .. n, ToSet(s))
  BY <1>1, <1>2 DEF Bijection, Injection, Surjection, ToSet, IsInjective
<1> HIDE DEF n
<1>4. IsFiniteSet(1 .. n) /\ Cardinality(1 .. n) = n
  BY <1>1, FS_Interval
<1>5. IsFiniteSet(ToSet(s)) /\ Cardinality(ToSet(s)) = Cardinality(1 .. n)
  <2>1. ExistsBijection(1 .. Len(s), ToSet(s))
    BY <1>3 DEF ExistsBijection, n
  <2> QED BY <1>4, <2>1, FS_Bijection DEF n
<1> QED BY <1>1, <1>4, <1>5 DEF n

\* A builder lists each file once and counts what it has listed.
Counts(b) ==
  /\ builder[b].at = "stat" => IsInjective(builder[b].files)
  /\ builder[b].at = "evict" => builder[b].total = Len(builder[b].files)

LEMMA CountsStep ==
  ASSUME BuildInv, NEW b \in Builders, Counts(b),
         \/ StartBuild(b) \/ LookupCache(b) \/ TouchEntry(b)
         \/ OpenEntry(b) \/ ReadEntry(b) \/ Compile(b) \/ OpenTmp(b)
         \/ WriteBlock(b) \/ RenameTmp(b) \/ ListCache(b) \/ StatCache(b)
         \/ EvictFile(b) \/ KillBuilder(b)
  PROVE  Counts(b)' /\ \A c \in Builders \ {b} : builder'[c] = builder[c]
<1>0. /\ builder \in [Builders -> BuilderRecord] /\ builder[b] \in BuilderRecord
      /\ builder[b].files \in Seq(CacheNames) /\ CacheInv /\ Doing(b)
  BY ActsFrom DEF BuildInv, BuilderRecord
<1>1. ASSUME NEW r, r.at \notin {"stat", "evict"}, builder' = [builder EXCEPT ![b] = r]
      PROVE  Counts(b)' /\ \A c \in Builders \ {b} : builder'[c] = builder[c]
  <2>1. builder'[b] = r
    BY <1>0, <1>1
  <2> QED BY <1>0, <1>1, <2>1 DEF Counts
<1>a. ASSUME NEW how, Ends(b, how)
      PROVE  Counts(b)' /\ \A c \in Builders \ {b} : builder'[c] = builder[c]
  <2> DEFINE r == [Idle EXCEPT !.request = IF how = "none" THEN NoFile ELSE builder[b].request]
  <2>1. r.at = "idle" /\ builder' = [builder EXCEPT ![b] = r]
    BY <1>a DEF Ends, Idle
  <2> HIDE DEF r
  <2> QED BY <1>1, <2>1
<1>b. ASSUME CleansUp(b)
      PROVE  Counts(b)' /\ \A c \in Builders \ {b} : builder'[c] = builder[c]
  <2> DEFINE r == [Idle EXCEPT !.at = "listdir", !.request = builder[b].request]
  <2>1. r.at = "listdir" /\ builder' = [builder EXCEPT ![b] = r]
    BY <1>b DEF CleansUp, Idle
  <2> HIDE DEF r
  <2> QED BY <1>1, <2>1
<1>c. ASSUME NEW place, place \notin {"stat", "evict"}, builder'[b].at = place,
             \A c \in Builders \ {b} : builder'[c] = builder[c]
      PROVE  Counts(b)'
  BY <1>c DEF Counts
<1>2. CASE KillBuilder(b) \/ ReadEntry(b) \/ RenameTmp(b)
  <2>1. CleansUp(b) \/ \E how : Ends(b, how)
    BY <1>2 DEF KillBuilder, ReadEntry, RenameTmp
  <2> QED BY <1>a, <1>b, <2>1
<1>2a. CASE StartBuild(b)
  <2>1. PICK request \in Requests :
           builder' = [builder EXCEPT ![b] = [Idle EXCEPT !.at = "lookup", !.request = request]]
    BY <1>2a DEF StartBuild
  <2>2. [Idle EXCEPT !.at = "lookup", !.request = request].at = "lookup"
    BY DEF Idle
  <2> QED BY <1>1, <2>1, <2>2
<1>3. CASE LookupCache(b)
  <2>1. /\ builder'[b].at = IF \E ext \in {"gz", "zip"} :
                                 Exists([print |-> Fingerprint(builder[b].request), ext |-> ext, tmp |-> FALSE])
                            THEN "touch" ELSE "compile"
        /\ \A c \in Builders \ {b} : builder'[c] = builder[c]
    BY <1>0, <1>3 DEF LookupCache, BuilderRecord
  <2> QED BY <2>1 DEF Counts
<1>3a. CASE TouchEntry(b)
  <2>1. Ends(b, "failed") \/ Steps(b, "open")
    BY <1>3a DEF TouchEntry
  <2>2. ASSUME Steps(b, "open")
        PROVE  builder'[b].at = "open" /\ \A c \in Builders \ {b} : builder'[c] = builder[c]
    BY <1>0, <2>2 DEF Steps, BuilderRecord
  <2> QED BY <1>a, <1>c, <2>1, <2>2
<1>3b. CASE OpenEntry(b)
  <2>1. \/ Ends(b, "failed")
        \/ builder' = [builder EXCEPT ![b].at = "read", ![b].handle = directory[builder[b].cached]]
    BY <1>3b DEF OpenEntry
  <2>2. ASSUME builder' = [builder EXCEPT ![b].at = "read", ![b].handle = directory[builder[b].cached]]
        PROVE  builder'[b].at = "read" /\ \A c \in Builders \ {b} : builder'[c] = builder[c]
    BY <1>0, <2>2 DEF BuilderRecord
  <2> QED BY <1>a, <1>c, <2>1, <2>2
<1>3c. CASE Compile(b)
  <2>1. builder' = [builder EXCEPT ![b].at = "store", ![b].cached = EntryName(builder[b].request)]
    BY <1>3c DEF Compile
  <2>2. builder'[b].at = "store" /\ \A c \in Builders \ {b} : builder'[c] = builder[c]
    BY <1>0, <2>1 DEF BuilderRecord
  <2> QED BY <1>c, <2>2
<1>3d. CASE OpenTmp(b)
  <2>1. PICK inode : builder' = [builder EXCEPT ![b].at = "write", ![b].handle = inode]
    BY <1>3d DEF OpenTmp
  <2>2. builder'[b].at = "write" /\ \A c \in Builders \ {b} : builder'[c] = builder[c]
    BY <1>0, <2>1 DEF BuilderRecord
  <2> QED BY <1>c, <2>2
<1>3e. CASE WriteBlock(b)
  <2>1. builder' = [builder EXCEPT
           ![b].at = IF builder[b].written + 1 = Blocks THEN "rename" ELSE "write",
           ![b].written = @ + 1,
           ![b].handle = IF builder[b].written + 1 = Blocks THEN NoFile ELSE @]
    BY <1>3e DEF WriteBlock
  <2>2. /\ builder'[b].at = IF builder[b].written + 1 = Blocks THEN "rename" ELSE "write"
        /\ \A c \in Builders \ {b} : builder'[c] = builder[c]
    BY <1>0, <2>1 DEF BuilderRecord
  <2> QED BY <2>2 DEF Counts
<1>4. CASE ListCache(b)
  <2>1. CASE Ends(b, "ok")
    BY <1>a, <2>1
  <2>2. CASE builder' = [builder EXCEPT ![b].at = "stat", ![b].files = Only(atimes, Listing)]
    <3>1. PICK listed : listed = Only(atimes, Listing)
      OBVIOUS
    <3>2. IsInjective(listed)
      BY <1>0, <3>1, LastUsed DEF BuildInv, Ordered
    <3>3. /\ builder'[b].at = "stat" /\ builder'[b].files = listed
          /\ \A c \in Builders \ {b} : builder'[c] = builder[c]
      BY <1>0, <2>2, <3>1 DEF BuilderRecord
    <3> QED BY <3>2, <3>3 DEF Counts
  <2> QED BY <1>4, <2>1, <2>2 DEF ListCache
<1>5. CASE StatCache(b)
  <2> DEFINE files == builder[b].files
  <2>1. CASE Ends(b, "ok") \/ Ends(b, "failed")
    BY <1>a, <2>1
  <2>2. CASE ~ (Ends(b, "ok") \/ Ends(b, "failed"))
    <3>1. /\ builder[b].at = "stat" /\ \A i \in DOMAIN files : Exists(files[i])
          /\ builder' = [builder EXCEPT ![b].at = "evict", ![b].total = Len(files),
                           ![b].files = Reverse(Only(atimes, ToSet(files)))]
      BY <1>5, <2>2 DEF StatCache
    <3>2. PICK kept : kept = Only(atimes, ToSet(files))
      OBVIOUS
    <3>3. PICK evicted : evicted = Reverse(kept)
      OBVIOUS
    <3>4. /\ kept \in Seq(CacheNames) /\ IsInjective(kept)
          /\ ToSet(kept) = ToSet(atimes) \cap ToSet(files)
      BY <1>0, <3>2, LastUsed DEF BuildInv, Ordered
    <3>5. IsInjective(files) /\ files \in Seq(CacheNames)
      BY <1>0, <3>1 DEF Counts
    <3>6. ToSet(kept) = ToSet(files)
      <4>1. \A i \in DOMAIN files : files[i] \in CacheNames
        BY <1>0, LenProperties
      <4>2. ToSet(files) \subseteq Listing
        BY <3>1, <4>1 DEF ToSet, Listing
      <4> QED BY <3>4, <4>2 DEF BuildInv, Ordered
    <3> HIDE DEF files
    <3>7. Len(kept) = Len(files)
      BY <3>4, <3>5, <3>6, LenOfInjective
    <3>8. Len(evicted) = Len(files)
      BY <3>3, <3>4, <3>7, ReverseIs
    <3>9. /\ builder'[b].at = "evict" /\ builder'[b].total = Len(files) /\ builder'[b].files = evicted
          /\ \A c \in Builders \ {b} : builder'[c] = builder[c]
      BY <1>0, <3>1, <3>2, <3>3 DEF BuilderRecord
    <3> QED BY <3>8, <3>9 DEF Counts
  <2> QED BY <2>1, <2>2
<1>6. CASE EvictFile(b)
  <2>1. CASE Ends(b, "ok") \/ Ends(b, "failed")
    BY <1>a, <2>1
  <2>2. CASE ~ (Ends(b, "ok") \/ Ends(b, "failed"))
    <3>1. /\ builder[b].at = "evict"
          /\ builder' = [builder EXCEPT ![b].total = @ - 1, ![b].files = Tail(@)]
      BY <1>6, <2>2 DEF EvictFile
    <3>2. PICK files \in Seq(CacheNames) : files = builder[b].files /\ files # <<>>
      BY <1>0, <3>1 DEF Doing
    <3>3. Len(Tail(files)) = Len(files) - 1
      BY <3>2, HeadTailProperties
    <3>4. /\ builder'[b].at = "evict" /\ builder'[b].total = builder[b].total - 1
          /\ builder'[b].files = Tail(files)
          /\ \A c \in Builders \ {b} : builder'[c] = builder[c]
      BY <1>0, <3>1, <3>2 DEF BuilderRecord
    <3>5. builder[b].total = Len(files)
      BY <3>1, <3>2 DEF Counts
    <3> QED BY <3>3, <3>4, <3>5 DEF Counts
  <2> QED BY <2>1, <2>2
<1> QED BY <1>2, <1>2a, <1>3, <1>3a, <1>3b, <1>3c, <1>3d, <1>3e, <1>4, <1>5, <1>6

CountInv == BuildInv /\ \A b \in Builders : Counts(b)

LEMMA CountStep == ASSUME OneSetting PROVE CountInv /\ [BuildNext]_buildVars => CountInv'
<1> SUFFICES ASSUME CountInv, [BuildNext]_buildVars PROVE CountInv'
  OBVIOUS
<1>1. BuildInv'
  BY BuildStep DEF CountInv
<1>2. CASE UNCHANGED buildVars
  BY <1>1, <1>2 DEF CountInv, Counts, buildVars
<1>3. CASE BuildNext
  <2>1. PICK b \in Builders :
           \/ StartBuild(b) \/ LookupCache(b) \/ TouchEntry(b)
           \/ OpenEntry(b) \/ ReadEntry(b) \/ Compile(b) \/ OpenTmp(b)
           \/ WriteBlock(b) \/ RenameTmp(b) \/ ListCache(b) \/ StatCache(b)
           \/ EvictFile(b) \/ KillBuilder(b)
    BY <1>3 DEF BuildNext
  <2>2. Counts(b)' /\ \A c \in Builders \ {b} : builder'[c] = builder[c]
    BY <2>1, CountsStep DEF CountInv
  <2>3. ASSUME NEW c \in Builders PROVE Counts(c)'
    BY <2>2, <2>3 DEF CountInv, Counts
  <2> QED BY <1>1, <2>3 DEF CountInv
<1> QED BY <1>2, <1>3

LEMMA CountInitially == BuildInit => CountInv
<1> SUFFICES ASSUME BuildInit PROVE CountInv
  OBVIOUS
<1>1. \A b \in Builders : builder[b].at = "idle"
  BY DEF BuildInit, Idle
<1> QED BY <1>1, BuildInitially DEF CountInv, Counts

LEMMA CountInvTypes == CountInv => BuildTypeOK
<1> SUFFICES ASSUME CountInv PROVE BuildTypeOK
  OBVIOUS
<1>1. /\ directory \in [CacheNames -> Inodes \cup {NoFile}] /\ CacheInv /\ Ordered
      /\ atimes \in Seq(CacheNames)
  BY DEF CountInv, BuildInv, CacheInv, CacheTypes
<1>2. ASSUME NEW b \in Builders
      PROVE  /\ builder[b] \in BuilderType
             /\ builder[b].at = "evict" =>
                  builder[b].files # <<>> /\ builder[b].total = Len(builder[b].files)
  <2>1. builder[b] \in BuilderRecord /\ Doing(b) /\ Counts(b)
    BY <1>1, ActsFrom DEF CountInv
  <2>2. BuilderType = BuilderRecord
    BY DEF BuilderType, BuilderRecord, BuilderPlaces
  <2> QED BY <2>1, <2>2 DEF Doing, Counts
<1>3. Listing = ToSet(atimes) /\ Len(atimes) = Cardinality(Listing)
  BY <1>1, LenOfInjective DEF Ordered
<1> QED BY <1>1, <1>2, <1>3 DEF BuildTypeOK

\* Whatever module initialization, parallel sections, the dependency tree and any
\* number of builders that share the cache do, their variables keep their types;
\* cleanup_cache subtracts what it unlinks from the total of the files that it
\* still has on its list, and the times of use name the files that are there.
THEOREM CompilerTypes ==
  ASSUME OneSetting
  PROVE  ExecSpec /\ DepSpec /\ BuildSpec /\ ParSpec => []CompilerTypeOK
<1>1. BuildSpec => []BuildTypeOK
  BY CountInitially, CountStep, CountInvTypes, PTL DEF BuildSpec
<1>2. ExecInv => ExecTypeOK
  BY DEF ExecInv
<1>3. SectionInv => ParTypeOK
  BY DEF SectionInv
<1>4. DepSpec => []DepTypeOK
  <2> DEFINE Inv == DepInv /\ cimports \subseteq CimportPairs
  <2>1. DepInit => Inv
    BY DepInitially DEF DepInit
  <2>2. Inv /\ [DepNext]_depVars => Inv'
    <3>1. [DepNext]_depVars => UNCHANGED cimports
      BY DEF DepNext, AllDependencies, depVars
    <3> QED BY <3>1, DepStep
  <2>3. Inv => DepTypeOK
    BY DEF DepInv, DepTypeOK, Memos
  <2> QED BY <2>1, <2>2, <2>3, PTL DEF DepSpec
<1>5. ExecTypeOK /\ DepTypeOK /\ BuildTypeOK /\ ParTypeOK => CompilerTypeOK
  BY DEF CompilerTypeOK
<1> QED BY <1>1, <1>2, <1>3, <1>4, <1>5, ExecInductive, SectionInductive, PTL
============================================================================
