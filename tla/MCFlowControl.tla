----------------------------- MODULE MCFlowControl -----------------------------
(* Programs for FlowControl: all those of a number of statements, compounds   *)
(* included, made of given kinds.                                             *)
EXTENDS FlowControl

\* What surrounds a statement: whether it is in the body of a try, and how many
\* finally clauses a break and a return have to pass.
NoLoopAround == 3
Outside == [try |-> FALSE, toLoop |-> NoLoopAround, toEnd |-> 0]

Inside(kind, k, in) ==
    CASE kind \in {"while", "for"} /\ k = 1 -> [in EXCEPT !.toLoop = 0]
      [] kind = "except" /\ k = 1 -> [in EXCEPT !.try = TRUE]
      [] kind = "finally" /\ k = 1 ->
             [try |-> TRUE, toEnd |-> in.toEnd + 1,
              toLoop |-> IF in.toLoop = NoLoopAround THEN NoLoopAround ELSE in.toLoop + 1]
      [] OTHER -> in

\* Left out of the passing run: deletions inside a try, a break through two
\* finally clauses and a return through three.
MayUse(family, kind, in) ==
    CASE kind = "delete" -> ~in.try \/ family.deleteInTry
      [] kind \in {"break", "continue"} -> in.toLoop <= 1
      [] kind = "return" -> in.toEnd <= 2
      [] OTHER -> TRUE

Sizes(kind, n) ==
    {s \in (1 .. n) \X (0 .. n) \X (0 .. n) :
        /\ s[1] + s[2] + s[3] = n
        /\ kind \in {"except", "finally"} => s[2] > 0
        /\ kind # "except" => s[3] = 0}

RECURSIVE BlocksOf(_, _, _), StatementsOf(_, _, _)
StatementsOf(family, n, in) ==
    IF n = 1
    THEN {[kind |-> k, blocks |-> <<>>] : k \in {l \in family.leaves : MayUse(family, l, in)}}
    ELSE UNION {UNION {{[kind |-> k, blocks |-> b] :
                           b \in BlocksOf(family, s[1], Inside(k, 1, in))
                                     \X BlocksOf(family, s[2], Inside(k, 2, in))
                                     \X BlocksOf(family, s[3], Inside(k, 3, in))}
                       : s \in Sizes(k, n - 1)} : k \in family.compounds}

\* Nothing follows a jump.
BlocksOf(family, n, in) ==
    IF n = 0 THEN {<<>>}
    ELSE UNION {{<<first>> \o rest :
                    first \in {s \in StatementsOf(family, m, in) : m = n \/ s.kind \notin Jumps},
                    rest \in BlocksOf(family, n - m, in)} : m \in 1 .. n}

ProgramsOf(family) == UNION {BlocksOf(family, n, Outside) : n \in 1 .. family.size}

Small ==
    ProgramsOf([size |-> 4, deleteInTry |-> FALSE, leaves |-> Leaves, compounds |-> Compounds])
    \cup ProgramsOf([size |-> 5, deleteInTry |-> FALSE, leaves |-> {"assign", "use", "break"},
                     compounds |-> {"while", "except", "finally"}])

Deletions == ProgramsOf([size |-> 5, deleteInTry |-> TRUE,
                         leaves |-> {"assign", "delete", "use"}, compounds |-> {"except"}])

Leaf(kind) == <<[kind |-> kind, blocks |-> <<>>]>>
Compound(kind, body, second) == <<[kind |-> kind, blocks |-> <<body, second, <<>> >>]>>

\* A break that passes two finally clauses, the outer of which deletes.
NestedBreak ==
    {Leaf("assign")
     \o Compound("while",
          Compound("finally", Compound("finally", Leaf("break"), Leaf("use")), Leaf("delete")),
          <<>>)
     \o Leaf("use")}

\* A finally clause that uses the variable and returns, inside a try.
FinallyReturn ==
    {Compound("except",
         Compound("finally", Leaf("assign"), Leaf("use") \o Leaf("return")), Leaf("use"))}
================================================================================
