------------------------------ MODULE FlowGraph ------------------------------
(***************************************************************************)
(* The data-flow analysis of the compiler (normalize, initialize,          *)
(* reaching_definitions and check_definitions of Compiler/FlowControl.py): *)
(* from a graph of blocks it finds, for each place that names a variable,  *)
(* the definitions that may reach it.                                      *)
(*                                                                         *)
(* One variable is tracked; each has bits of its own in the code, so they  *)
(* do not influence each other.  The bits of all blocks together are a set *)
(* of pairs <<block, definition>>.                                         *)
(***************************************************************************)
EXTENDS Integers, Sequences, FiniteSets

\* A place in the program; the last one that named the variable on its left is
\* its definition.
ProgramPlaces == Seq(Nat \X Nat)
Unbound == <<>>  \* the definition that is none

\* A block lists what it does to the variable: "ref", "def" or "del", and where.
Stats == [is : {"ref", "def", "del"}, place : ProgramPlaces]

Entry == 1
Exit  == 2

\* The entry point is an empty block of its own, with no way back to it.
IsGraph(f) ==
    /\ f.stats \in Seq(Seq(Stats))
    /\ Entry \in DOMAIN f.stats /\ f.stats[Entry] = <<>>
    /\ f.edges \subseteq (DOMAIN f.stats) \X (DOMAIN f.stats \ {Entry})

\* The last of a block's stats up to the n-th that binds or unbinds: 0 if none.
Changes(stats, n) == {i \in DOMAIN stats : i <= n /\ stats[i].is # "ref"}
Change(stats, n) ==
    IF Changes(stats, n) = {} THEN 0
    ELSE CHOOSE i \in Changes(stats, n) : \A j \in Changes(stats, n) : j <= i
Given(stat) == IF stat.is = "def" THEN stat.place ELSE Unbound

\* The definition that holds after n stats of a block, where d holds before them.
After(stats, n, d) == IF Change(stats, n) = 0 THEN d ELSE Given(stats[Change(stats, n)])

------------------------------------------------------------------------------
(* normalize                                                                *)

\* The n-th turn of the search from the entry point.
Search(edges) ==
    LET Turn(found) == found \cup {e[2] : e \in {c \in edges : c[1] \in found}}
        found[n \in Nat] == IF n = 0 THEN {Entry} ELSE Turn(found[n - 1])
    IN  found
Settled(turn, bound) == turn[CHOOSE n \in 0 .. bound : turn[n + 1] = turn[n]]
visited(f) == Settled(Search(f.edges), Len(f.stats))

Empty(f) == {b \in visited(f) \ {Entry, Exit} : f.stats[b] = <<>>}

\* An empty block is taken out and its parents linked to its children.
Bypass(edges, b) ==
    LET parents  == {e[1] : e \in {p \in edges : p[2] = b}}
        children == {e[2] : e \in {c \in edges : c[1] = b}}
    IN  {e \in edges \cup (parents \X children) : b \notin {e[1], e[2]}}

\* The blocks are a set, gone through in any order: that of their numbers here.
\* (A block without stats that has a position in the source stays; it makes no
\* difference.)
Bypassing(f) ==
    LET Step(edges, b) == IF b \in Empty(f) THEN Bypass(edges, b) ELSE edges
        edges[n \in Nat] == IF n = 0 THEN {e \in f.edges : e[1] \in visited(f)}
                            ELSE Step(edges[n - 1], n)
    IN  edges
normalize(f) == Bypassing(f)[Len(f.stats)]

------------------------------------------------------------------------------
(* initialize, reaching_definitions and check_definitions                   *)

\* What a block outputs whatever its input is.
Gen(stats) ==
    {<<Entry, Unbound>>}
    \cup {<<b, After(stats[b], Len(stats[b]), Unbound)>> :
              b \in {c \in DOMAIN stats : Change(stats[c], Len(stats[c])) # 0}}
initialize(stats) == Gen(stats)

Input(edges, output) ==
    UNION {{<<e[2], o[2]>> : o \in {p \in output : p[1] = e[1]}} : e \in edges}

\* The n-th round; "dirty" is a round that changes an output.
Rounds(edges, stats) ==
    LET Turn(output) ==
            Gen(stats) \cup {i \in Input(edges, output) : Change(stats[i[1]], Len(stats[i[1]])) = 0}
        output[n \in Nat] == IF n = 0 THEN initialize(stats) ELSE Turn(output[n - 1])
    IN  output

Definitions(stats) ==
    {Unbound} \cup UNION {{stats[b][i].place : i \in DOMAIN stats[b]} : b \in DOMAIN stats}
MostRounds(stats) == Len(stats) * Cardinality(Definitions(stats))

reaching_definitions(edges, stats) ==
    Input(edges, Settled(Rounds(edges, stats), MostRounds(stats)))

\* The cf_state of each place: what reaches it inside its block.
check_definitions(f) ==
    LET input == reaching_definitions(normalize(f), f.stats)
        state(b, i) ==
            IF Change(f.stats[b], i - 1) # 0 THEN {After(f.stats[b], i - 1, Unbound)}
            ELSE {d[2] : d \in {p \in input : p[1] = b}}
    IN  UNION {UNION {{f.stats[b][i].place} \X state(b, i) : i \in DOMAIN f.stats[b]}
               : b \in visited(f) \ Empty(f)}

------------------------------------------------------------------------------
\* A walk through the graph from its entry point, with the definition that the
\* variable has at the beginning of each block: a run of the function, for all
\* that the graph says of it.
LeavingBlock(stats, b, d) == After(stats[b], Len(stats[b]), d)
IsWalk(edges, stats, w) ==
    /\ w # <<>> /\ w[1] = <<Entry, Unbound>>
    /\ \A n \in 1 .. Len(w) - 1 :
           /\ <<w[n][1], w[n + 1][1]>> \in edges
           /\ w[n + 1][2] = LeavingBlock(stats, w[n][1], w[n][2])

\* What such a walk brings to a place in its last block.
Brings(stats, w, place, d) ==
    LET b == w[Len(w)][1] IN
    \E i \in DOMAIN stats[b] :
        place = stats[b][i].place /\ d = After(stats[b], i - 1, w[Len(w)][2])
==============================================================================
