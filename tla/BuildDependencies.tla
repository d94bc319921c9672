-------------------------- MODULE BuildDependencies --------------------------
(* The dependency tree of cythonize (Build/Dependencies.py): which files a   *)
(* source depends on, through cimports that may be circular and through      *)
(* textual includes.  transitive_merge walks the graph of cimports depth     *)
(* first and keeps finished nodes in a cache that all later questions share; *)
(* inside a cycle only the node at which the cycle was entered is finished.  *)
EXTENDS Integers, FiniteSets

CONSTANTS Files,
          Order,          \* Order[f]: the order in which f's cimports are walked
          CimportPairs,   \* who may cimport whom
          IncludePairs,   \* who may include whom, without cycles
          NoLoop          \* None

\* The cimports of a file are listed from a set, in any order.
ASSUME FilesAssumption ==
    /\ IsFiniteSet(Files) /\ NoLoop \notin Files
    /\ Order \in [Files -> [Files -> Nat]]
    /\ \E rank \in [Files -> 0 .. Cardinality(Files)] :
          \A f, g \in Files : <<f, g>> \in IncludePairs => rank[g] < rank[f]

VARIABLES cimports,  \* the pairs of this project
          includes,
          seen       \* _transitive_cache: the finished nodes and their results

depVars == <<cimports, includes, seen>>

------------------------------------------------------------------------------
\* What is included in each file, and in what is included in it.
Included(pairs) ==
    LET included[f \in Files] ==
            LET direct == {g \in Files : <<f, g>> \in pairs}
            IN  direct \cup UNION {included[g] : g \in direct}
    IN  included

included_files(f) == Included(includes)[f]

\* The cimports of a file and of the text included in it.
cimported_files(f) ==
    {g \in Files : \E h \in {f} \cup included_files(f) : <<h, g>> \in cimports}

immediate_dependencies(f) == {f} \cup cimported_files(f) \cup included_files(f)

\* A dict: a function on some of the keys.
Dict(keys, values) == UNION {[D -> values] : D \in SUBSET keys}

\* The cache maps a file to its dependencies, and the stack to its depth.
Memos  == Dict(Files, SUBSET Files)
Stacks == Dict(Files, 0 .. Cardinality(Files))

Push(stack, node) ==
    [n \in DOMAIN stack \cup {node} |->
        IF n = node THEN Cardinality(DOMAIN stack) ELSE stack[n]]

\* Of two loops, the one that was entered first.
Outer(stack, loop, sub_loop) ==
    IF sub_loop = NoLoop \/ (loop # NoLoop /\ stack[loop] < stack[sub_loop])
    THEN loop ELSE sub_loop

\* Mutant: every node is taken for finished.
Mut_LoopLeft(node, loop) == NoLoop
\* A node is finished when no loop it is in began above it.
LoopLeft(node, loop) == IF loop = node THEN NoLoop ELSE loop

\* What a call has merged: the dependencies, the loop, and the cache by then.
Merges == [deps : SUBSET Files, loop : Files \cup {NoLoop}, cache : Memos]

\* The loop over outgoing(node) with "next" still to be visited.
Walks == [node : Files, next : SUBSET Files, stack : Stacks, sofar : Merges]

Enter(node, cache, stack) ==
    [node |-> node, next |-> cimported_files(node), stack |-> Push(stack, node),
     sofar |-> [deps |-> immediate_dependencies(node), loop |-> NoLoop, cache |-> cache]]

Finished(node, r) ==
    LET loop == LoopLeft(node, r.loop)
    IN  [deps |-> r.deps, loop |-> loop,
         cache |-> IF loop # NoLoop THEN r.cache
                   ELSE [n \in DOMAIN r.cache \cup {node} |->
                            IF n = node THEN r.deps ELSE r.cache[n]]]

\* transitive_merge_helper; "merge" runs the loop.
Helper(node, cache, stack, merge) ==
    IF node \in DOMAIN cache
    THEN [deps |-> cache[node], loop |-> NoLoop, cache |-> cache]
    ELSE IF node \in DOMAIN stack
    THEN [deps |-> immediate_dependencies(node), loop |-> node, cache |-> cache]
    ELSE Finished(node, merge[Enter(node, cache, stack)])

Foremost(node, next) == CHOOSE n \in next : \A m \in next : Order[node][n] <= Order[node][m]

Merge(stack, sofar, r) ==
    [deps |-> sofar.deps \cup r.deps, loop |-> Outer(stack, sofar.loop, r.loop), cache |-> r.cache]

\* One turn of the loop, and the rest of it.
Turn(x, merge) ==
    IF x.next = {} THEN x.sofar
    ELSE LET n == Foremost(x.node, x.next)
             r == Helper(n, x.sofar.cache, x.stack, merge)
         IN  merge[[node |-> x.node, next |-> x.next \ {n}, stack |-> x.stack,
                    sofar |-> Merge(x.stack, x.sofar, r)]]

MergeNext[x \in Walks] == Turn(x, MergeNext)

------------------------------------------------------------------------------
DepInit ==
    /\ cimports \in SUBSET CimportPairs
    /\ includes \in SUBSET IncludePairs
    /\ seen = <<>>

\* all_dependencies(f); nothing is above f, so it is finished by the end and
\* the answer is in the cache.
AllDependencies(f) ==
    /\ f \notin DOMAIN seen
    /\ seen' = Helper(f, seen, <<>>, MergeNext).cache
    /\ UNCHANGED <<cimports, includes>>

DepNext == \E f \in Files : AllDependencies(f)

DepSpec == DepInit /\ [][DepNext]_depVars

------------------------------------------------------------------------------
\* The tree keeps to the project's files.
DepTypeOK ==
    /\ cimports \subseteq CimportPairs /\ includes \subseteq IncludePairs
    /\ seen \in Memos

\* Reference: the files that are in every set that f is in and that nothing
\* leaves by a cimport.
Closed(S) == \A g \in S : cimported_files(g) \subseteq S

Reached(f) == {g \in Files : \A S \in SUBSET Files : f \in S /\ Closed(S) => g \in S}

DependsOn(f) == UNION {immediate_dependencies(g) : g \in Reached(f)}

\* all_dependencies returns every file that the source reaches and no other,
\* whatever was asked before and wherever the cycles of cimports were entered:
\* nothing half-finished is kept in the cache.
SeenIsFinished == \A f \in DOMAIN seen : seen[f] = DependsOn(f)
==============================================================================
