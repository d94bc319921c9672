----------------------------- MODULE FlowControl -----------------------------
(***************************************************************************)
(* Control-flow analysis of the compiler (Compiler/FlowControl.py).  The   *)
(* visitor turns a function body into a graph of blocks; the analysis      *)
(* finds, for each place that names a variable, the assignments that may   *)
(* reach it and whether it may still be unbound.  Code generation trusts   *)
(* the answer: it leaves out the check for an unbound variable.            *)
(*                                                                         *)
(* One variable is tracked; each has a bit of its own in the code, so they *)
(* do not influence each other.  A program is chosen, analysed, and then   *)
(* executed statement by statement: which tests hold, which handlers match *)
(* and where exceptions are raised is nondeterministic.                    *)
(* The module declares RECURSIVE operators and is only model-checked.      *)
(***************************************************************************)
EXTENDS FlowGraph, SequencesExt

CONSTANT Programs  \* bound: the function bodies, as sequences of statements

Leaves    == {"assign", "delete", "use", "break", "continue", "return", "raise"}
Compounds == {"if", "while", "for", "except", "finally"}

\* A statement has a kind and, if it is a compound, three blocks: while, for and
\* if have a body and an else block, try a body, a handler and an else block,
\* try-finally a body and a clause.
RECURSIVE IsBlock(_)
IsBlock(block) ==
    \A i \in DOMAIN block :
        \/ block[i].kind \in Leaves /\ block[i].blocks = <<>>
        \/ /\ block[i].kind \in Compounds
           /\ \A k \in 1 .. 3 : IsBlock(block[i].blocks[k])
           /\ block[i].kind # "except" => block[i].blocks[3] = <<>>

ASSUME ProgramsAssumption == \A p \in Programs : IsBlock(p)

VARIABLES program,  \* the function body
          reach,    \* <<place, definition>>: the cf_state of every name node
          todo,     \* execution: what is left to do, the next item first
          signal,   \* the exit under way: "" if none
          def       \* the definition that the variable has at this point

flowVars == <<program, reach, todo, signal, def>>

Jumps == {"break", "continue", "return", "raise"}

\* A place is the path to a statement: pairs of a block's number and an index.
\* The finally clause exists twice; block 3 is the copy for exceptions.
Block(s, k) == IF s.kind = "finally" /\ k = 3 THEN s.blocks[2] ELSE s.blocks[k]
Root(body) == [kind |-> "def", blocks |-> <<body>>]
At(place) == FoldLeft(LAMBDA s, step : Block(s, step[1])[step[2]], Root(program), place)

------------------------------------------------------------------------------
(* The graph, while it is built: ControlFlow's current block (0 for None),  *)
(* the edges, each block's stats, and the stacks of loops and handlers.     *)

Start == [block |-> Entry, edges |-> {}, stats |-> << <<>>, <<>> >>,
          loops |-> <<>>, exceptions |-> <<>>]

LastBlock(f) == Len(f.stats)
newblock(f) == [f EXCEPT !.stats = Append(@, <<>>)]
add_child(f, parent, child) ==
    IF parent = 0 THEN f ELSE [f EXCEPT !.edges = @ \cup {<<parent, child>>}]
nextblock(f, parent) ==
    LET g == newblock(f) IN [add_child(g, parent, LastBlock(g)) EXCEPT !.block = LastBlock(g)]

\* A statement about the variable: "ref", "def" or "del", and its place.
mark(f, is, place) ==
    IF f.block = 0 THEN f ELSE [f EXCEPT !.stats[f.block] = Append(@, [is |-> is, place |-> place])]

\* An assignment is a block of its own, with a way to the handler before it
\* and after it.
LinkHandler(f) ==
    IF f.exceptions = <<>> THEN f
    ELSE nextblock(add_child(f, f.block, Last(f.exceptions).entry_point), f.block)

\* Mutant: no way to the handler after the assignment.
Mut_OnlyBefore(f, place) ==
    IF f.block = 0 THEN f ELSE mark(LinkHandler(f), "def", place)
mark_assignment(f, place) ==
    IF f.block = 0 THEN f ELSE LinkHandler(mark(LinkHandler(f), "def", place))

\* No way to the handler here.
visit_DelStatNode(f, place) == mark(mark(f, "ref", place), "del", place)

\* Where paths meet: unreachable if nothing leads there.
Meet(f, next) == [f EXCEPT !.block = IF \E e \in f.edges : e[2] = next THEN next ELSE 0]

\* break and continue: through the innermost finally clause of the loop.
visit_Jump(f, target) ==
    LET passed == Last(f.loops).exceptions
    IN  [IF passed = <<>> THEN add_child(f, f.block, target)
         ELSE add_child(add_child(f, f.block, Last(passed).finally_enter),
                        Last(passed).finally_exit, target)
         EXCEPT !.block = 0]

\* return: through the innermost finally clause, and on to the next one.
visit_ReturnStatNode(f) ==
    LET finals == SelectSeq(f.exceptions, LAMBDA d : d.finally_enter # 0)
        next == IF Len(finals) > 1 THEN finals[Len(finals) - 1].finally_enter ELSE Exit
    IN  [IF finals = <<>> THEN add_child(f, f.block, Exit)
         ELSE add_child(add_child(f, f.block, Last(finals).finally_enter),
                        Last(finals).finally_exit, next)
         EXCEPT !.block = 0]

visit_RaiseStatNode(f) ==
    [IF f.exceptions = <<>> THEN f
     ELSE add_child(f, f.block, Last(f.exceptions).entry_point) EXCEPT !.block = 0]

RECURSIVE visit(_, _, _)
\* A statement list is visited up to the point where it becomes unreachable.
visit_Block(f, s, k, place) ==
    FoldLeft(LAMBDA g, i : IF g.block = 0 THEN g
                           ELSE visit(g, Block(s, k)[i], Append(place, <<k, i>>)),
             f, [i \in 1 .. Len(Block(s, k)) |-> i])

\* An optional else block between "parent" and "next".
visit_Else(f, s, k, place, parent, next) ==
    IF Block(s, k) = <<>> THEN add_child(f, parent, next)
    ELSE LET g == visit_Block(nextblock(f, parent), s, k, place) IN add_child(g, g.block, next)

visit_IfStatNode(f, s, place) ==
    LET next == LastBlock(f) + 1
        test == nextblock(newblock(f), f.block)
        body == visit_Block(nextblock(test, test.block), s, 1, place)
    IN  Meet(visit_Else(add_child(body, body.block, next), s, 2, place, test.block, next), next)

\* while and for: only a for loop assigns its target, and only a while loop
\* has a way from the end of its body to what follows.
visit_Loop(f, s, place) ==
    LET test == nextblock(f, f.block)
        next == LastBlock(test) + 1
        loop == [next_block |-> next, loop_block |-> test.block, exceptions |-> <<>>]
        into == nextblock([newblock(test) EXCEPT !.loops = Append(@, loop)], test.block)
        top  == IF s.kind = "while" THEN into
                ELSE LET g == mark_assignment(into, place) IN nextblock(g, g.block)
        body == [visit_Block(top, s, 1, place) EXCEPT !.loops = f.loops]
        back == add_child(body, body.block, test.block)
        done == IF s.kind = "while" THEN add_child(back, body.block, next) ELSE back
    IN  Meet(visit_Else(done, s, 2, place, test.block, next), next)

visit_TryExceptStatNode(f, s, place) ==
    LET next    == LastBlock(f) + 1
        handler == LastBlock(f) + 3
        descr   == [entry_point |-> handler, finally_enter |-> 0, finally_exit |-> 0]
        pushed  == [newblock(newblock(newblock(f))) EXCEPT !.exceptions = Append(@, descr)]
        opened  == nextblock(pushed, f.block)
        linked  == add_child(opened, opened.block, handler)
        body    == [visit_Block(nextblock(linked, linked.block), s, 1, place)
                        EXCEPT !.exceptions = f.exceptions]
        els     == IF body.block = 0 \/ Block(s, 3) = <<>> THEN body
                   ELSE visit_Block(nextblock(body, body.block), s, 3, place)
        normal  == add_child(els, els.block, next)
        \* The clause, and the way of an exception that it does not match.
        unmatched == LastBlock(normal) + 1
        entered == nextblock(add_child(newblock(normal), handler, unmatched), handler)
        clause  == visit_Block(entered, s, 2, place)
        left    == add_child(clause, clause.block, next)
    IN  Meet(IF f.exceptions = <<>> THEN left
             ELSE add_child(left, unmatched, Last(f.exceptions).entry_point), next)

\* The clause is visited twice before the body: for an exception, which goes on
\* to the outer handler, and for every other way out of the body.
visit_TryFinallyStatNode(f, s, place) ==
    LET opened  == nextblock(f, f.block)
        failing == newblock(opened)
        raised  == visit_Block([failing EXCEPT !.block = LastBlock(failing)], s, 3, place)
        entry   == LastBlock(failing)
        passed  == IF f.exceptions = <<>> THEN raised
                   ELSE add_child(raised, raised.block, Last(f.exceptions).entry_point)
        normal  == newblock(passed)
        enter   == LastBlock(normal)
        clause  == visit_Block([normal EXCEPT !.block = enter], s, 2, place)
        descr   == [entry_point |-> entry, finally_enter |-> enter, finally_exit |-> clause.block]
        linked  == add_child([clause EXCEPT !.block = opened.block,
                                  !.exceptions = Append(@, descr),
                                  !.loops = IF @ = <<>> THEN @
                                            ELSE [@ EXCEPT ![Len(@)].exceptions = Append(@, descr)]],
                             opened.block, entry)
        body    == [visit_Block(nextblock(linked, linked.block), s, 1, place)
                        EXCEPT !.exceptions = f.exceptions, !.loops = f.loops]
        left    == add_child(body, body.block, enter)
    IN  IF body.block = 0 THEN body
        ELSE IF descr.finally_exit = 0 THEN [left EXCEPT !.block = 0]
        ELSE nextblock(left, descr.finally_exit)

visit(f, s, place) ==
    CASE s.kind = "assign"   -> mark_assignment(f, place)
      [] s.kind = "delete"   -> visit_DelStatNode(f, place)
      [] s.kind = "use"      -> mark(f, "ref", place)
      [] s.kind = "break"    -> visit_Jump(f, Last(f.loops).next_block)
      [] s.kind = "continue" -> visit_Jump(f, Last(f.loops).loop_block)
      [] s.kind = "return"   -> visit_ReturnStatNode(f)
      [] s.kind = "raise"    -> visit_RaiseStatNode(f)
      [] s.kind = "if"       -> visit_IfStatNode(f, s, place)
      [] s.kind \in {"while", "for"} -> visit_Loop(f, s, place)
      [] s.kind = "except"   -> visit_TryExceptStatNode(f, s, place)
      [] s.kind = "finally"  -> visit_TryFinallyStatNode(f, s, place)
      [] s.kind = "def"      ->
             LET body == visit_Block(nextblock(f, f.block), s, 1, place)
             IN  add_child(body, body.block, Exit)

\* The graph of a function.
visit_FuncDefNode(body) == visit(Start, Root(body), <<>>)

\* What the analysis takes for granted of its graphs.
ASSUME GraphAssumption == \A p \in Programs : IsGraph(visit_FuncDefNode(p))

------------------------------------------------------------------------------
(* Execution.  Items are statements; "head" tests a loop's condition again; *)
(* "try" and "final" mark the end of a try body, "resume" that of a finally *)
(* clause with the exit it interrupted.                                     *)

Item(is, at, exit) == [is |-> is, at |-> at, exit |-> exit]
ItemsOf(place, k) ==
    [i \in 1 .. Len(Block(At(place), k)) |-> Item("stat", Append(place, <<k, i>>), "")]

NotAnalysed == {<<Unbound, Unbound>>}

FlowInit ==
    /\ program \in Programs
    /\ reach = NotAnalysed
    /\ todo = <<>> /\ signal = "" /\ def = Unbound

\* The analysis of a function, before its code is generated.
Analyse ==
    /\ reach = NotAnalysed
    /\ reach' = check_definitions(visit_FuncDefNode(program))
    /\ todo' = ItemsOf(<<>>, 1)
    /\ UNCHANGED <<program, signal, def>>

Top    == Head(todo)
Kind   == At(Top.at).kind
Ready  == todo # <<>> /\ signal = ""
Facing(kinds) == Ready /\ Top.is = "stat" /\ Kind \in kinds

Go(rest, exit) == todo' = rest /\ signal' = exit /\ UNCHANGED <<program, reach>>
Then(items) == Go(items \o Tail(todo), "")
Body(k) == ItemsOf(Top.at, k)

Assign == Facing({"assign"}) /\ def' = Top.at /\ Then(<<>>)
Delete == Facing({"delete"}) /\ def # Unbound /\ def' = Unbound /\ Then(<<>>)

\* An assignment's value, a condition, an iterator or a call raises; so does
\* the use of an unbound variable.
Fails ==
    /\ \/ Facing({"assign", "delete", "use", "if", "while", "for"})
       \/ Ready /\ Top.is = "head"
    /\ Facing({"delete"}) => def = Unbound
    /\ Go(Tail(todo), "raise") /\ UNCHANGED def

Use == Facing({"use"}) /\ def # Unbound /\ Then(<<>>) /\ UNCHANGED def

Jump == Facing(Jumps) /\ Go(Tail(todo), Kind) /\ UNCHANGED def

Choose == Facing({"if"}) /\ (Then(Body(1)) \/ Then(Body(2))) /\ UNCHANGED def

BeginLoop == Facing({"while", "for"}) /\ Then(<<Item("head", Top.at, "")>>) /\ UNCHANGED def

Iterate ==
    /\ Ready /\ Top.is = "head"
    /\ Go(Body(1) \o todo, "")
    /\ def' = IF Kind = "for" THEN Top.at ELSE def

EndLoop == Ready /\ Top.is = "head" /\ Then(Body(2)) /\ UNCHANGED def

BeginTry ==
    /\ Facing({"except", "finally"})
    /\ Then(Append(Body(1), Item(IF Kind = "except" THEN "try" ELSE "final", Top.at, "")))
    /\ UNCHANGED def

EndTry ==
    /\ Ready /\ Top.is \in {"try", "final"}
    /\ Then(Body(IF Top.is = "try" THEN 3 ELSE 2))
    /\ UNCHANGED def

EndFinally == Ready /\ Top.is = "resume" /\ Go(Tail(todo), Top.exit) /\ UNCHANGED def

\* An exit leaves what is left of the block, then meets the construct around it.
Leaving == todo # <<>> /\ signal # ""

Skip ==
    /\ Leaving
    /\ \/ Top.is \in {"stat", "resume"}
       \/ Top.is = "head" /\ signal \in {"return", "raise"}
       \/ Top.is = "try"
    /\ Go(Tail(todo), signal) /\ UNCHANGED def

LeaveLoop ==
    /\ Leaving /\ Top.is = "head" /\ signal \in {"break", "continue"}
    /\ Go(IF signal = "break" THEN Tail(todo) ELSE todo, "")
    /\ UNCHANGED def

Catch == Leaving /\ Top.is = "try" /\ signal = "raise" /\ Then(Body(2)) /\ UNCHANGED def

EnterFinally ==
    /\ Leaving /\ Top.is = "final"
    /\ Then(Append(Body(IF signal = "raise" THEN 3 ELSE 2), Item("resume", Top.at, signal)))
    /\ UNCHANGED def

FlowNext ==
    \/ Analyse
    \/ Assign \/ Delete \/ Use \/ Fails \/ Jump
    \/ Choose \/ BeginLoop \/ Iterate \/ EndLoop
    \/ BeginTry \/ EndTry \/ EndFinally
    \/ Skip \/ LeaveLoop \/ Catch \/ EnterFinally

FlowSpec == FlowInit /\ [][FlowNext]_flowVars

------------------------------------------------------------------------------
\* Every statement about the variable that is about to run has been visited,
\* and the definition it finds is among those the analysis lists for it: an
\* unbound variable is never taken for bound, nor one value for another
\* (check_definitions fills the cf_state that code generation relies on).
ReachCovers ==
    Facing({"assign", "delete", "use"}) => <<Top.at, def>> \in reach
==============================================================================
