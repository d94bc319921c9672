--------------------------- MODULE FunctionWriter ---------------------------
(***************************************************************************)
(* UniversalHPyFunctionWriter (HPyModuleWriter.py) emits the C code of one *)
(* Python function while it keeps, at compile time, the set of HPy handles *)
(* that C code owns at each point.  Control flow is handled by taking      *)
(* snapshots of that bookkeeping and restoring them where paths meet.      *)
(*                                                                         *)
(* The model emits a function statement by statement and, in step with it, *)
(* executes the C code along one path: which statements the function has,  *)
(* which calls fail and which way conditions go are nondeterministic.      *)
(* writer, frames and stmt are the compiler's state at the point reached;  *)
(* cvar, open, bound, builderOpen and trackerOpen belong to the execution. *)
(*                                                                         *)
(* Code that a path does not execute is not emitted in the model: the      *)
(* snapshot restored after it makes the writer's state independent of it.  *)
(***************************************************************************)
EXTENDS Naturals, FiniteSets, SequencesExt

CONSTANTS Names,     \* the function's Python names
          Args,      \* those that are its arguments
          Tracked,   \* whether arguments come through an argument tracker
          MaxTemps,  \* bound: handle temporaries live or mentioned at once
          MaxDepth,  \* bound: nesting of control constructs
          MaxOperands, MaxOperandsInside, \* bound: see OperandBound
          Lanes,     \* program shapes admitted beyond the sound ones
          None

AllLanes == {"hiddenLoop", "walrusLoop", "tryRebind", "elseExit", "staleArgument"}

ASSUME WriterAssumption == /\ Args \subseteq Names /\ Tracked \in BOOLEAN
                           /\ Lanes \subseteq AllLanes
                           /\ {MaxTemps, MaxDepth, MaxOperands, MaxOperandsInside} \subseteq Nat
                           /\ None \notin Nat \cup Names

VARIABLES writer,       \* the lifetime bookkeeping a snapshot saves
          frames,       \* the open control constructs, outermost first
          stmt,         \* the statement being emitted, with its operands
          cvar,         \* C variable -> the handle it holds, or Null
          open,         \* the handles this call has open
          bound,        \* name -> the handle Python semantics binds it to
          original,     \* arguments still bound to what the caller passed
          builderOpen, trackerOpen,
          status,       \* "running", "returned" or "failed"
          result,       \* the handle returned
          faults        \* what went wrong at run time

runtime == <<cvar, open, bound, original, builderOpen, trackerOpen>>
vars == <<writer, frames, stmt, runtime, status, result, faults>>

Temps   == 1 .. MaxTemps
Handles == 1 .. MaxTemps + 2   \* bound: enough for the live temporaries
Null    == 0                   \* HPy_NULL; an unbound name
Caller  == MaxTemps + 3        \* a handle owned by the caller or the tracker

IsWriter(w) ==
  w \in [live : SUBSET Temps, locals : [Names -> Temps \cup {None}],
         stable : SUBSET Names, borrowed : SUBSET Names,
         builder : BOOLEAN, tracker : BOOLEAN]

\* names: what the construct promoted; snap: restored where its paths meet;
\* head: at a loop's head; seq: the temporary that holds a for loop's sequence;
\* els: whether an else clause is absent, falls through or ends in an exit.
IsFrame(f) ==
  /\ f \in [kind : {"if", "returningIf", "loop", "try", "handler"},
            at : {"head", "body", "else"}, names : SUBSET Names,
            snap : {f.snap}, head : {f.head}, target : Names \cup {None},
            seq : Temps \cup {None}, els : {"none", "falls", "exits"}]
  /\ IsWriter(f.snap) /\ IsWriter(f.head)

Goals == {"none", "assign", "discard", "return", "raise", "delete",
          "if", "returningIf", "while", "condition", "for"}

IsStatement(s) ==
  s \in [goal : Goals, name : Names \cup {None}, operands : Seq(Temps),
         pending : SUBSET Names, names : SUBSET Names,
         els : {"none", "falls", "exits"}]

TypeOK ==
  /\ IsWriter(writer)
  /\ Len(frames) <= MaxDepth /\ \A i \in DOMAIN frames : IsFrame(frames[i])
  /\ IsStatement(stmt)
  /\ cvar \in [Temps -> Handles \cup {Null}]
  /\ open \subseteq Handles
  /\ bound \in [Names -> Handles \cup {Null, Caller}]
  /\ original \subseteq Args
  /\ builderOpen \in BOOLEAN /\ trackerOpen \in BOOLEAN
  /\ status \in {"running", "returned", "failed"}
  /\ result \in Handles \cup {Null}
  /\ faults \subseteq {"dangling", "stale"}

Idle == stmt.goal = "none"

StartStatement(goal, x, pending, names, els) ==
  stmt' = [goal |-> goal, name |-> x, operands |-> <<>>,
           pending |-> pending, names |-> names, els |-> els]
EndStatement == StartStatement("none", None, {}, {}, "none")

Frame(kind, names, els) ==
  [kind |-> kind, at |-> "body", names |-> names, snap |-> writer,
   head |-> writer, target |-> None, seq |-> None, els |-> els]

\* A METH_O function gets its argument from the caller, any other through an
\* argument tracker.
Init ==
  /\ writer = [live |-> {}, locals |-> [x \in Names |-> None], stable |-> {},
               borrowed |-> Args, builder |-> FALSE, tracker |-> Tracked]
  /\ trackerOpen = Tracked
  /\ frames = <<>>
  /\ stmt = [goal |-> "none", name |-> None, operands |-> <<>>,
              pending |-> {}, names |-> {}, els |-> "none"]
  /\ cvar = [t \in Temps |-> Null]
  /\ open = {} /\ builderOpen = FALSE
  /\ bound = [x \in Names |-> IF x \in Args THEN Caller ELSE Null]
  /\ original = Args
  /\ status = "running" /\ result = Null /\ faults = {}

-----------------------------------------------------------------------------
\* has_initialized_named_value
IsInitialized(w, x) == w.locals[x] # None \/ x \in w.borrowed

(* The execution: what the emitted HPy calls do.                           *)

Values(S) == {cvar[t] : t \in S} \ {Null}

\* Temporaries a snapshot still names.  A variable that neither the writer nor
\* a snapshot names is never read again and its number can be given out anew.
Mentioned == UNION {frames[i].snap.live \cup frames[i].head.live : i \in DOMAIN frames}
Settle(f) == [t \in Temps |-> IF t \in writer'.live \cup Mentioned' THEN f[t] ELSE Null]

\* A name the restored bookkeeping does not know cannot be read any more: the
\* compiler rejects the function.
KnownBindings == [x \in Names |-> IF IsInitialized(writer', x) THEN bound[x] ELSE Null]

\* HPy_Close of the variables in S: each must hold an open handle or HPy_NULL,
\* and no two of them the same one.
ClosingFaults(S) ==
  IF /\ Values(S) \subseteq open
     /\ \A t, u \in S : t # u /\ cvar[t] = cvar[u] => cvar[t] = Null
  THEN {} ELSE {"dangling"}

FreeTemps   == Temps \ (writer.live \cup Mentioned)
FreeHandles == Handles \ (open \cup {cvar[t] : t \in Temps} \cup {bound[x] : x \in Names})
NewTemp     == Min(FreeTemps)
NewHandle   == Min(FreeHandles)
CanAllocate == FreeTemps # {} /\ FreeHandles # {}                  \* bound

-----------------------------------------------------------------------------
(* What the writer knows about names.                                      *)

\* The handle a name stands for according to the writer's bookkeeping.
Denotes(x) == IF writer.locals[x] # None THEN cvar[writer.locals[x]] ELSE Caller

Top == frames[Len(frames)]
TopIs(kind) == frames # <<>> /\ Top.kind = kind
FramesOf(kinds) == {i \in DOMAIN frames : frames[i].kind \in kinds}
Merging == FramesOf({"if", "loop"})    \* constructs that end in a restore
InTry == FramesOf({"try"}) # {}

\* _hpy_assigned_local_names looks through nested ifs only: an assignment is
\* seen by the constructs up to the innermost loop or try around it.
CollectedAssignment(x) ==
  LET from == Max({0} \cup FramesOf({"loop", "try", "handler"}))
  IN \A i \in Merging : i >= from => x \in frames[i].names

\* _hpy_deleted_local_names looks through loops too, but not through try.
CollectedDeletion(x) ==
  LET from == Max({0} \cup FramesOf({"try", "handler"}))
  IN \A i \in Merging : i >= from => x \in frames[i].names

\* _hpy_walrus_local_names looks through everything, except that no loop
\* promotes the names its own condition assigns.
CollectedWalrus(x) ==
  \A i \in Merging : frames[i].at # "head" => x \in frames[i].names

\* Giving x another temporary changes how the name is held; a snapshot taken
\* before and restored after would bring the old one back.  That is why the
\* constructs promote the names they collect.  The sound programs do so under a
\* construct that did not collect x only where its loop body's cleanup releases
\* a name that did not exist outside.
Rehold(x) ==
  LET unaware == {i \in Merging : x \notin frames[i].names}
      inner   == frames[Max(unaware)]
      undone  == /\ unaware # {}
                 /\ \/ inner.kind = "if" \/ inner.at = "else"
                    \/ inner.at = "body" /\ IsInitialized(inner.snap, x)
      atHead  == unaware # {} /\ inner.at = "head"
      rebound == \E i \in FramesOf({"try"}) : IsInitialized(frames[i].snap, x)
  IN x \in writer.stable
     \/ /\ undone  => "hiddenLoop" \in Lanes
        /\ atHead  => "walrusLoop" \in Lanes
        /\ rebound => "tryRebind" \in Lanes

-----------------------------------------------------------------------------
(* Leaving a region.                                                       *)

\* The path ends: the C frame is gone.
Ended == /\ writer' = [live |-> {}, locals |-> [x \in Names |-> None], stable |-> {},
                       borrowed |-> {}, builder |-> FALSE, tracker |-> FALSE]
         /\ frames' = <<>> /\ EndStatement
         /\ cvar' = [t \in Temps |-> Null]
         /\ bound' = [x \in Names |-> Null] /\ original' = {}
         /\ trackerOpen' = (trackerOpen /\ ~writer.tracker)

\* The failure exit emitted after every call that can fail: close what is live
\* and not preserved, cancel the builder, close the tracker; then go to the
\* handler of the try, or return the failure value.
FailureExit(preserved, cancelled, extraFaults) ==
  LET i      == Max(FramesOf({"try"}))
      closed == writer.live \ preserved
  IN /\ open' = open \ Values(closed)
     /\ faults' = faults \cup ClosingFaults(closed) \cup extraFaults
     /\ builderOpen' = (builderOpen /\ ~cancelled)
     /\ UNCHANGED result
     /\ \/ /\ InTry
           /\ writer' = frames[i].snap
           /\ frames' = [SubSeq(frames, 1, i) EXCEPT ![i].kind = "handler", ![i].at = "head"]
           /\ cvar' = Settle(cvar)
           /\ bound' = KnownBindings
           /\ EndStatement
           /\ UNCHANGED <<original, trackerOpen, status>>
        \/ ~InTry /\ Ended /\ status' = "failed"

\* The failure scope of the try keeps the handles live when it was pushed.
Preserved == UNION {frames[i].snap.live : i \in FramesOf({"try"})}

\* Mutant: the handles that the handler goes on using are closed.
Mut_UnwindPreservingNothing(extraFaults) == FailureExit({}, writer.builder, extraFaults)

Unwind(extraFaults) == FailureExit(Preserved, writer.builder, extraFaults)

\* The bookkeeping after code that ended in a return: everything is released.
Released(w) == [w EXCEPT !.live = {}, !.locals = [x \in Names |-> None], !.stable = {},
                         !.borrowed = IF w.tracker THEN {} ELSE @, !.tracker = FALSE]

Ready == /\ status = "running" /\ Idle
         /\ frames # <<>> => ~(Top.kind \in {"loop", "handler"} /\ Top.at = "head")
Evaluating == /\ status = "running" /\ stmt.pending = {}
              /\ stmt.goal \notin {"none", "delete", "while"}

\* The value of the expression, once nothing else is left to evaluate.
HasValue == Evaluating /\ Len(stmt.operands) = 1 /\ ~writer.builder
Value    == stmt.operands[1]

-----------------------------------------------------------------------------
(* Expressions.                                                            *)

\* A call that yields a new handle, closes the operands it consumed and, when
\* it succeeded, leaves its result on top of the rest.
Apply(consumed, rest, extraFaults) ==
  /\ CanAllocate
  /\ writer' = [writer EXCEPT !.live = (@ \ consumed) \cup {NewTemp}]
  /\ open' = (open \ Values(consumed)) \cup {NewHandle}
  /\ faults' = faults \cup ClosingFaults(consumed) \cup extraFaults
  /\ stmt' = [stmt EXCEPT !.operands = Append(rest, NewTemp)]
  /\ UNCHANGED <<frames, bound, original, builderOpen, trackerOpen, status, result>>
  /\ cvar' = Settle([cvar EXCEPT ![NewTemp] = NewHandle])

\* Bound: the values in hand at once, where a builder's items count as one.
OperandBound == IF frames = <<>> THEN MaxOperands ELSE MaxOperandsInside

CanPush ==
  Evaluating /\ Len(stmt.operands) < (IF writer.builder THEN 1 ELSE OperandBound)

\* A constant, a global, a builtin.
LoadFresh == CanPush /\ Apply({}, stmt.operands, {})

\* Duplicating or using the handle a name is taken to stand for; a stable slot
\* is first tested for HPy_NULL.
IsValueOf(handle, x) == IF handle = Caller THEN x \in original ELSE handle = bound[x]

Read(x, handle) ==
  LET misread == IF IsValueOf(handle, x) THEN {} ELSE {"stale"}
  IN IF handle = Null THEN x \in writer.stable /\ Unwind(misread)
     ELSE Apply({}, stmt.operands,
                misread \cup IF handle \in open \cup {Caller} THEN {} ELSE {"dangling"})

\* Mutant: arguments are looked up before locals.
Mut_DuplicateArgumentFirst(x) ==
  /\ CanPush /\ IsInitialized(writer, x)
  /\ Read(x, IF x \in writer.borrowed THEN Caller ELSE Denotes(x))

duplicate_named_value(x) ==
  CanPush /\ IsInitialized(writer, x) /\ Read(x, Denotes(x))

\* The operand of an attribute read, a call or an operator is not duplicated:
\* an argument is taken from the caller's frame whether or not it was rebound.
Direct(x) == IF x \in writer.borrowed THEN Caller ELSE Denotes(x)
DirectIsCurrent(x) ==
  x \in writer.borrowed /\ writer.locals[x] # None => "staleArgument" \in Lanes

borrow_direct_named_value(x) ==
  CanPush /\ IsInitialized(writer, x) /\ DirectIsCurrent(x) /\ Read(x, Direct(x))

Combine == /\ Evaluating /\ Len(stmt.operands) = 2
           /\ Apply(Range(stmt.operands), <<>>, {})

allocate_sequence_builder ==
  /\ Evaluating /\ stmt.operands = <<>> /\ ~writer.builder
  /\ OperandBound > 1                                               \* bound
  /\ writer' = [writer EXCEPT !.builder = TRUE]
  /\ builderOpen' = TRUE
  /\ UNCHANGED <<frames, stmt, cvar, open, bound, original, trackerOpen, status, result, faults>>

set_sequence_builder_item ==
  /\ Evaluating /\ writer.builder /\ Len(stmt.operands) = 1
  /\ writer' = [writer EXCEPT !.live = @ \ {Value}]
  /\ open' = open \ Values({Value})
  /\ faults' = faults \cup ClosingFaults({Value})
  /\ stmt' = [stmt EXCEPT !.operands = <<>>]
  /\ UNCHANGED <<frames, bound, original, builderOpen, trackerOpen, status, result>>
  /\ cvar' = Settle(cvar)

build_sequence ==
  /\ Evaluating /\ writer.builder /\ stmt.operands = <<>> /\ CanAllocate
  /\ writer' = [writer EXCEPT !.builder = FALSE, !.live = @ \cup {NewTemp}]
  /\ builderOpen' = FALSE
  /\ open' = open \cup {NewHandle}
  /\ stmt' = [stmt EXCEPT !.operands = <<NewTemp>>]
  /\ UNCHANGED <<frames, bound, original, trackerOpen, status, result, faults>>
  /\ cvar' = Settle([cvar EXCEPT ![NewTemp] = NewHandle])

AtLoopHead == /\ status = "running" /\ Idle
              /\ TopIs("loop") /\ Top.at = "head"

\* Any of the fallible calls of the statement fails, or the length or the item
\* of a sequence cannot be had.
CallFails == /\ status = "running"
             /\ ~Idle \/ AtLoopHead
             /\ Unwind({})

\* Bind x to the value in temporary v: moved into the slot of a stable name,
\* otherwise v becomes the name's temporary.  The previous value's handle is
\* closed.  extra, if any, is a further temporary, holding the new handle.
Holding(x) == {writer.locals[x]} \ {None}

BindClosing(x, v, extra, closed) ==
  LET stable == x \in writer.stable
      slots  == IF stable THEN [cvar EXCEPT ![writer.locals[x]] = cvar[v]] ELSE cvar
  IN /\ Rehold(x)
     /\ writer' = IF stable THEN [writer EXCEPT !.live = (@ \ {v}) \cup extra]
                  ELSE [writer EXCEPT !.live = (@ \ Holding(x)) \cup extra, !.locals[x] = v]
     /\ open' = (open \ Values(closed)) \cup {NewHandle : t \in extra}
     /\ faults' = faults \cup ClosingFaults(closed)
     /\ bound' = [bound EXCEPT ![x] = cvar[v]]
     /\ original' = original \ {x}
     /\ UNCHANGED <<frames, builderOpen, trackerOpen, status, result>>
     /\ cvar' = Settle([t \in Temps |-> IF t \in extra THEN NewHandle ELSE slots[t]])

\* Mutant: the previous value is overwritten without being closed.
Mut_RebindWithoutClose(x, v, extra) == BindClosing(x, v, extra, {})

Rebind(x, v, extra) == BindClosing(x, v, extra, Holding(x))

\* The condition of an if has its names promoted with those of the branches.
generate_walrus(x) ==
  LET n == Len(stmt.operands) IN
  /\ Evaluating /\ n > 0 /\ CanAllocate
  /\ CollectedWalrus(x) /\ (stmt.goal = "if" => x \in stmt.names)
  /\ Rebind(x, stmt.operands[n], {NewTemp})
  /\ stmt' = [stmt EXCEPT !.operands[n] = NewTemp]

-----------------------------------------------------------------------------
(* Simple statements.                                                      *)

\* An else clause taken to fall through has no return or raise at its end; all
\* branches of a returning conditional end in a return.
MayExit == ~(TopIs("loop") /\ Top.at = "else" /\ Top.els = "falls")
MayJump == MayExit /\ ~TopIs("returningIf")

Begin(goal, x, pending, names, els) ==
  /\ Ready
  /\ StartStatement(goal, x, pending, names, els)
  /\ UNCHANGED <<writer, frames, runtime, status, result, faults>>
BeginSimple(goal, x) == Begin(goal, x, {}, {}, "none")

BeginAssign(x) == CollectedAssignment(x) /\ BeginSimple("assign", x)
BeginDiscard   == BeginSimple("discard", None)
BeginReturn    == MayExit /\ BeginSimple("return", None)
BeginRaise     == MayJump /\ BeginSimple("raise", None)

\* delete_local promotes the name first.
BeginDelete(x) ==
  /\ IsInitialized(writer, x) /\ CollectedDeletion(x)
  /\ Begin("delete", x, {x}, {}, "none")

\* UnboundLocalError, unconditionally.
DeleteUnbound(x) ==
  Ready /\ ~IsInitialized(writer, x) /\ CollectedDeletion(x) /\ Unwind({})

FinishAssign ==
  /\ HasValue /\ stmt.goal = "assign"
  /\ Rebind(stmt.name, Value, {})
  /\ EndStatement

\* Close the temporaries in S and carry on with what code follows.
CloseTemps(S) == /\ open' = open \ Values(S)
                 /\ faults' = faults \cup ClosingFaults(S)

FinishDiscard ==
  /\ HasValue /\ stmt.goal = "discard"
  /\ CloseTemps({Value})
  /\ writer' = [writer EXCEPT !.live = @ \ {Value}]
  /\ EndStatement
  /\ UNCHANGED <<frames, bound, original, builderOpen, trackerOpen, status, result>>
  /\ cvar' = Settle(cvar)

\* return_owned_result: move the result out, close all else and the tracker.
ReturnClosing(closed) ==
  /\ HasValue /\ stmt.goal = "return"
  /\ open' = open \ Values(closed)
  /\ faults' = faults \cup ClosingFaults(writer.live)
  /\ Ended
  /\ status' = "returned" /\ result' = cvar[Value]
  /\ UNCHANGED builderOpen

\* Mutant: only names are closed, not a sequence being iterated.
Mut_ReturnClosingNames ==
  ReturnClosing({writer.locals[x] : x \in Names} \ {None})

FinishReturn == ReturnClosing(writer.live \ {Value})

FinishRaise ==
  /\ Evaluating /\ stmt.goal = "raise"
  /\ Len(stmt.operands) < 2 /\ ~writer.builder
  /\ Unwind({})

FinishDelete ==
  LET x == stmt.name
      slot == writer.locals[x]
  IN /\ status = "running" /\ stmt.goal = "delete" /\ stmt.pending = {}
     /\ IF cvar[slot] = Null
        THEN Unwind(IF bound[x] = Null THEN {} ELSE {"stale"})
        ELSE /\ CloseTemps({slot})
             /\ bound' = [bound EXCEPT ![x] = Null]
             /\ original' = original \ {x}
             /\ EndStatement
             /\ UNCHANGED <<writer, frames, builderOpen, trackerOpen, status, result>>
             /\ cvar' = Settle([cvar EXCEPT ![slot] = Null])

-----------------------------------------------------------------------------
(* Opening a conditional, a loop or a try.                                 *)

\* promote_local_slot: give a name that a branch or a loop body changes a slot
\* that stays its own, holding its value, a duplicate of an argument, or null.
promoteFrom(x, arguments) ==
  LET held     == writer.locals[x]
      slot     == NewTemp
      argument == held = None /\ x \in arguments
      value    == IF held # None THEN cvar[held] ELSE IF argument THEN NewHandle ELSE Null
  IN /\ status = "running" /\ x \in stmt.pending
     /\ stmt' = [stmt EXCEPT !.pending = @ \ {x}]
     /\ UNCHANGED <<frames, original, builderOpen, trackerOpen, status, result, faults>>
     /\ \/ x \in writer.stable /\ UNCHANGED <<writer, cvar, open, bound>>
        \/ /\ x \notin writer.stable /\ Rehold(x) /\ CanAllocate
           /\ writer' = [writer EXCEPT !.live = (@ \ {held}) \cup {slot},
                                       !.locals[x] = slot, !.stable = @ \cup {x}]
           /\ open' = IF argument THEN open \cup {NewHandle} ELSE open
           /\ bound' = IF argument /\ bound[x] = Caller
                       THEN [bound EXCEPT ![x] = NewHandle] ELSE bound
           /\ cvar' = Settle([cvar EXCEPT ![slot] = value])

\* Mutant: an argument's slot is left null.
Mut_PromoteLocalsOnly(x) == promoteFrom(x, {})

promote_local_slot(x) == promoteFrom(x, writer.borrowed)

MayOpen(els) == /\ Len(frames) < MaxDepth                           \* bound
                /\ els = "exits" => "elseExit" \in Lanes
AreInitialized(S) == \A x \in S : IsInitialized(writer, x)
AreCollected(S)   == \A x \in S : CollectedAssignment(x)

\* S: the names assigned or deleted in the branches; without an else clause
\* they must exist before.
OpenIf(S, hasElse) ==
  /\ MayOpen("none")
  /\ hasElse \/ AreInitialized(S)
  /\ AreCollected(S)
  /\ Begin("if", None, S, S, IF hasElse THEN "falls" ELSE "none")

\* generate_returning_if: every clause ends in a return; nothing is promoted.
OpenReturningIf ==
  MayOpen("none") /\ Begin("returningIf", None, {}, {}, "none")

\* What a loop assigns is hidden from the constructs around it.
OpenWhile(S, els) ==
  /\ MayOpen(els) /\ AreInitialized(S)
  /\ Begin("while", None, S, S, els)

OpenFor(S, x, els) ==
  /\ MayOpen(els) /\ AreInitialized(S \ {x})
  /\ Begin("for", x, S \cup {x}, S \cup {x}, els)

\* Mutant: a try may be opened anywhere, at any depth.
Mut_OpenTryAnywhere ==
  /\ Ready
  /\ frames' = Append(frames, Frame("try", {}, "none"))
  /\ UNCHANGED <<writer, stmt, runtime, status, result, faults>>

OpenTry ==
  /\ Ready /\ MayOpen("none") /\ FramesOf({"try", "handler"}) = {}
  /\ frames' = Append(frames, Frame("try", {}, "none"))
  /\ UNCHANGED <<writer, stmt, runtime, status, result, faults>>

\* An except clause matches the current error, or none does.
MatchHandler ==
  /\ status = "running" /\ TopIs("handler") /\ Top.at = "head"
  /\ \/ /\ frames' = [frames EXCEPT ![Len(frames)].at = "body"]
        /\ UNCHANGED <<writer, stmt, runtime, status, result, faults>>
     \/ Unwind({})

-----------------------------------------------------------------------------
(* Conditionals.                                                           *)

\* The condition is tested and closed before the snapshot is taken.
ConditionTested(goal) ==
  /\ HasValue /\ stmt.goal = goal
  /\ CloseTemps({Value})
  /\ UNCHANGED <<bound, original, builderOpen, trackerOpen, status, result>>
Tested == [writer EXCEPT !.live = @ \ {Value}]

EnterBranch(goal) ==
  /\ ConditionTested(goal)
  /\ writer' = Tested
  /\ frames' = Append(frames, [Frame(goal, stmt.names, stmt.els) EXCEPT
                                 !.snap = Tested, !.head = Tested])
  /\ EndStatement
  /\ cvar' = Settle(cvar)

SkipBranch(goal) ==
  /\ stmt.els = "none"
  /\ ConditionTested(goal)
  /\ writer' = Tested
  /\ EndStatement
  /\ UNCHANGED frames
  /\ cvar' = Settle(cvar)

\* Whatever the branch did, go on with the bookkeeping from before it.
EndIf ==
  /\ Ready /\ TopIs("if")
  /\ frames' = Front(frames)
  /\ writer' = Top.snap
  /\ bound' = KnownBindings
  /\ UNCHANGED <<stmt, open, original, builderOpen, trackerOpen, status, result, faults>>
  /\ cvar' = Settle(cvar)

-----------------------------------------------------------------------------
(* Loops.                                                                  *)

PushLoop(target, seq) ==
  frames' = Append(frames, [Frame("loop", stmt.names, stmt.els) EXCEPT
                             !.at = "head", !.target = target, !.seq = seq])

EnterWhile ==
  /\ status = "running" /\ stmt.goal = "while" /\ stmt.pending = {}
  /\ PushLoop(None, None)
  /\ EndStatement
  /\ UNCHANGED <<writer, runtime, status, result, faults>>

BeginCondition ==
  /\ AtLoopHead /\ Top.target = None
  /\ StartStatement("condition", None, {}, {}, "none")
  /\ UNCHANGED <<writer, frames, runtime, status, result, faults>>

\* The sequence stays in a temporary that the loop owns; an argument is
\* iterated where the caller holds it.
EnterFor ==
  /\ HasValue /\ stmt.goal = "for"
  /\ PushLoop(stmt.name, Value)
  /\ EndStatement
  /\ UNCHANGED <<writer, runtime, status, result, faults>>

EnterForBorrowed(x) ==
  /\ Evaluating /\ stmt.goal = "for" /\ stmt.operands = <<>> /\ ~writer.builder
  /\ x \in writer.borrowed /\ DirectIsCurrent(x)
  /\ PushLoop(stmt.name, None)
  /\ faults' = faults \cup IF IsValueOf(Caller, x) THEN {} ELSE {"stale"}
  /\ EndStatement
  /\ UNCHANGED <<writer, runtime, status, result>>

\* The state saved here is what every way out of the body goes back to.
EnterBody(w) == frames' = [frames EXCEPT ![Len(frames)].at = "body",
                                         ![Len(frames)].snap = w]

ConditionHolds ==
  /\ ConditionTested("condition")
  /\ writer' = Tested
  /\ EnterBody(Tested)
  /\ EndStatement
  /\ cvar' = Settle(cvar)

NextItem ==
  LET slot == writer.locals[Top.target] IN
  /\ AtLoopHead /\ Top.target # None /\ FreeHandles # {}
  /\ EnterBody(writer)
  /\ open' = (open \ Values({slot})) \cup {NewHandle}
  /\ faults' = faults \cup ClosingFaults({slot})
  /\ bound' = [bound EXCEPT ![Top.target] = NewHandle]
  /\ original' = original \ {Top.target}
  /\ UNCHANGED <<writer, stmt, builderOpen, trackerOpen, status, result>>
  /\ cvar' = Settle([cvar EXCEPT ![slot] = NewHandle])

\* The loop ends without break: on to the else clause, if there is one.
LeaveLoop(w) ==
  /\ writer' = w
  /\ frames' = IF Top.els = "none" THEN Front(frames)
               ELSE [frames EXCEPT ![Len(frames)] =
                       [@ EXCEPT !.at = "else", !.seq = None, !.snap = w, !.head = w]]
  /\ EndStatement
  /\ cvar' = Settle(cvar)

ConditionFails == ConditionTested("condition") /\ LeaveLoop(Tested)

ItemsExhausted ==
  /\ AtLoopHead /\ Top.target # None
  /\ CloseTemps({Top.seq} \ {None})
  /\ LeaveLoop([writer EXCEPT !.live = @ \ {Top.seq}])
  /\ UNCHANGED <<bound, original, builderOpen, trackerOpen, status, result>>

EndElse ==
  /\ Ready /\ TopIs("loop") /\ Top.at = "else" /\ Top.els = "falls"
  /\ frames' = Front(frames)
  /\ UNCHANGED <<writer, stmt, open, bound, original, builderOpen, trackerOpen,
                 status, result, faults>>
  /\ cvar' = Settle(cvar)

\* The loop that break and continue refer to.
Innermost == Max({0} \cup {i \in FramesOf({"loop"}) : frames[i].at = "body"})
MayLeaveBody == /\ Ready /\ MayJump /\ Innermost # 0
                /\ ~TopIs("try") /\ ~TopIs("handler")
                /\ TopIs("loop") => Top.at = "body"

\* _emit_loop_body_cleanup: close what the iteration created.
\* Mutant: close whatever is live.
Mut_CreatedEverything == writer.live

Created == writer.live \ frames[Innermost].snap.live

\* After an else clause that ended in an exit the writer takes everything for
\* released, on this path too.
Break ==
  LET loop == frames[Innermost]
      left == [loop.snap EXCEPT !.live = @ \ {loop.seq}]
  IN /\ MayLeaveBody
     /\ CloseTemps(Created \cup ({loop.seq} \ {None}))
     /\ writer' = IF loop.els = "exits" THEN Released(left) ELSE left
     /\ frames' = SubSeq(frames, 1, Innermost - 1)
     /\ bound' = KnownBindings
     /\ UNCHANGED <<stmt, original, builderOpen, trackerOpen, status, result>>
     /\ cvar' = Settle(cvar)

\* continue, or the end of the body: the code at the head runs again.
Iterate ==
  LET loop == frames[Innermost]
  IN /\ MayLeaveBody
     /\ CloseTemps(Created)
     /\ writer' = loop.head
     /\ frames' = [SubSeq(frames, 1, Innermost) EXCEPT
                     ![Innermost] = [@ EXCEPT !.at = "head", !.snap = loop.head]]
     /\ bound' = KnownBindings
     /\ UNCHANGED <<stmt, original, builderOpen, trackerOpen, status, result>>
     /\ cvar' = Settle(cvar)

-----------------------------------------------------------------------------
Expression ==
  \/ LoadFresh \/ Combine \/ CallFails
  \/ allocate_sequence_builder \/ set_sequence_builder_item \/ build_sequence
  \/ \E x \in Names : \/ duplicate_named_value(x)
                      \/ borrow_direct_named_value(x)
                      \/ generate_walrus(x)

SimpleStatement ==
  \/ BeginDiscard \/ BeginReturn \/ BeginRaise
  \/ FinishAssign \/ FinishDiscard \/ FinishReturn \/ FinishRaise \/ FinishDelete
  \/ \E x \in Names : BeginAssign(x) \/ BeginDelete(x) \/ DeleteUnbound(x)

Conditional ==
  \/ \E S \in SUBSET Names, hasElse \in BOOLEAN : OpenIf(S, hasElse)
  \/ OpenReturningIf
  \/ \E goal \in {"if", "returningIf"} : EnterBranch(goal) \/ SkipBranch(goal)
  \/ EndIf

Loop ==
  \/ \E S \in SUBSET Names, els \in {"none", "falls", "exits"} :
       OpenWhile(S, els) \/ \E x \in Names : OpenFor(S, x, els)
  \/ EnterWhile \/ BeginCondition \/ ConditionHolds \/ ConditionFails
  \/ EnterFor \/ (\E x \in Names : EnterForBorrowed(x)) \/ NextItem \/ ItemsExhausted
  \/ EndElse \/ Break \/ Iterate

Next == \/ Expression \/ SimpleStatement \/ Conditional \/ Loop
        \/ OpenTry \/ MatchHandler
        \/ \E x \in Names : promote_local_slot(x)

Spec == Init /\ [][Next]_vars

-----------------------------------------------------------------------------
\* The C variables the writer takes for live hold exactly the handles that are
\* open, each in one variable only, and the builder and the tracker are open
\* just when it thinks so (_snapshot_lifetime_state / _restore_lifetime_state
\* keep the bookkeeping true on every path).
HandlesMatch ==
  status = "running" =>
    /\ open = Values(writer.live)
    /\ \A t, u \in writer.live : t # u /\ cvar[t] = cvar[u] => cvar[t] = Null
    /\ builderOpen = writer.builder /\ trackerOpen = writer.tracker

\* Returning leaves the result as the only open handle, failing leaves none;
\* the builder and the tracker are gone (return_owned_result,
\* _put_failure_cleanup).
ExitReleasesEverything ==
  status # "running" =>
    /\ open = {result} \ {Null}
    /\ ~builderOpen /\ ~trackerOpen

\* No handle is closed twice, read or returned after it was closed.
NoDanglingUse == "dangling" \notin faults

\* A name the writer has a handle for denotes the value Python binds it to,
\* whichever path led here (promote_local_slot, prepare_conditional_locals).
NamesDenoteTheirValues ==
  status = "running" =>
    \A x \in Names : IsInitialized(writer, x) => IsValueOf(Denotes(x), x)

\* A name is read, deleted or iterated as the value it has at that point, and
\* reported unbound only when it is (duplicate_named_value,
\* borrow_direct_named_value, delete_local, _borrow_sequence_source).
ReadsAreCurrent == "stale" \notin faults
=============================================================================
