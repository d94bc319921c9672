-------------------------- MODULE ParallelSections --------------------------
(***************************************************************************)
(* The code generated for cython.parallel (Nodes.py, ParallelStatNode): a  *)
(* section that OpenMP runs with a team of threads, and its ways out.      *)
(* Nobody can leave a section, so an exit is recorded in parallel_why and  *)
(* taken by the master when all have arrived; an exception is moved from   *)
(* the thread that raised it into variables of the section, and back.      *)
(*                                                                         *)
(* The section is a prange, a "with parallel()" block, or a block with a   *)
(* prange inside, whose control flow variables are each thread's own.      *)
(* It runs without the GIL (taking it where Python needs it), or with it,  *)
(* and then lets go of it where OpenMP makes threads wait for each other.  *)
(* OpenMP is external; accesses to shared variables are single steps.      *)
(***************************************************************************)
EXTENDS Integers, FiniteSets

CONSTANTS Team, Master,
          Iterations,   \* bound: of a prange
          Nobody

ASSUME TeamAssumption ==
  IsFiniteSet(Team) /\ Master \in Team /\ Nobody \notin Team /\ Iterations \in Nat

VARIABLES section,   \* its shape, and whether it keeps the GIL
          gil,       \* who holds it
          thread,    \* of each thread: where it is, and the exit it is taking
          pending,   \* the exception in each thread state, named for its thread
          lineno,    \* __pyx_lineno, private to each thread: whose exception it is of
          why, exc, exc_lineno,  \* parallel_why, _exc_type and _lineno of each scope
          left,      \* iterations that no thread has begun
          retval,    \* __pyx_r, an object named for the thread that returned it
          outcome,    \* what the master does after the section
          raised, dropped, leaked  \* history: exceptions raised and freed, objects lost

parVars == <<section, gil, thread, pending, lineno, why, exc, exc_lineno, left,
             retval, outcome, raised, dropped, leaked>>

Shapes == {"prange", "parallel", "nested"}

\* The values of parallel_why, 0 for none.
CONTINUE == 1
BREAK    == 2
RETURN   == 3
ERROR    == 4

\* The section's variables, and those of the inner prange of each thread.
Section == Nobody
Scopes  == Team \cup {Section}
LoopScope(t) == IF section.shape = "nested" THEN t ELSE Section

Places == {"begin", "before", "loop", "admitted", "body", "fetch", "trap",
           "barrier", "passed", "inner", "after", "end", "done"}
UserCode == {"before", "body", "after"}  \* where code of the user runs

ParInit ==
  /\ section \in [shape : Shapes, keepsGil : BOOLEAN]
  /\ gil = Nobody
  /\ thread = [t \in Team |-> [at |-> "begin", scope |-> Section, exit |-> 0]]
  /\ pending = [t \in Team |-> Nobody] /\ lineno = [t \in Team |-> Nobody]
  /\ why = [s \in Scopes |-> 0]
  /\ exc = [s \in Scopes |-> Nobody] /\ exc_lineno = [s \in Scopes |-> Nobody]
  /\ left = IF section.shape = "parallel" THEN 0 ELSE Iterations
  /\ retval = Nobody /\ outcome = "none"
  /\ raised = {} /\ dropped = {} /\ leaked = {}

-----------------------------------------------------------------------------
excVars  == <<pending, lineno, exc, exc_lineno, raised, dropped>>
restVars == <<section, left, retval, outcome, leaked>>

StandsAt(t, places) == thread[t].at \in places
MayTake(t)    == gil \in {Nobody, t}
Runs(t)       == StandsAt(t, UserCode) /\ (section.keepsGil => gil = t)
Goes(t, place) == thread' = [thread EXCEPT ![t].at = place]

\* begin_parallel_block: the thread state is made under the GIL.
BeginThread(t) ==
  /\ StandsAt(t, {"begin"}) /\ gil = Nobody
  /\ Goes(t, IF section.shape = "prange" THEN "loop" ELSE "before")
  /\ gil' = IF section.keepsGil /\ section.shape # "prange" THEN t ELSE Nobody
  /\ UNCHANGED <<excVars, restVars, why>>

\* The prange in a block: a section that keeps the GIL gives it up here.
ReachLoop(t) ==
  /\ Runs(t) /\ StandsAt(t, {"before"}) /\ section.shape = "nested"
  /\ Goes(t, "loop")
  /\ gil' = IF gil = t THEN Nobody ELSE gil
  /\ UNCHANGED <<excVars, restVars, why>>

\* The guard around the body of the loop.
Admits(t) == why[LoopScope(t)] < BREAK

NextIteration(t) ==
  /\ StandsAt(t, {"loop"}) /\ left > 0
  /\ left' = left - 1
  /\ IF Admits(t) THEN Goes(t, "admitted") ELSE UNCHANGED thread
  /\ UNCHANGED <<excVars, section, retval, outcome, leaked, gil, why>>

\* The first admitted iteration of a section that keeps the GIL takes it again.
BeginBody(t) ==
  /\ StandsAt(t, {"admitted"})
  /\ section.keepsGil => MayTake(t)
  /\ Goes(t, "body")
  /\ gil' = IF section.keepsGil THEN t ELSE gil
  /\ UNCHANGED <<excVars, restVars, why>>

\* Python code lets another thread run, and waits for the GIL to go on.
Switch(t) ==
  /\ section.keepsGil /\ StandsAt(t, UserCode)
  /\ gil' = IF gil = t THEN Nobody ELSE t
  /\ MayTake(t)
  /\ UNCHANGED <<thread, excVars, restVars, why>>

\* A body ends, or continues, which in a loop is the same.
FinishBody(t) ==
  /\ Runs(t)
  /\ \/ StandsAt(t, {"body"}) /\ Goes(t, "loop")
     \/ StandsAt(t, {"before"}) /\ section.shape = "parallel" /\ Goes(t, "end")
     \/ StandsAt(t, {"after"}) /\ Goes(t, "end")
  /\ UNCHANGED <<excVars, restVars, gil, why>>

\* An exit is recorded in the variables of the loop or of the block.  Threads
\* that keep the GIL wait for one another in the loop, so that none of them may
\* leave the block before it.
ExitScope(t) == IF StandsAt(t, {"body"}) THEN LoopScope(t) ELSE Section
MayExit(t) ==
  /\ Runs(t)
  /\ ~(StandsAt(t, {"before"}) /\ section.shape = "nested" /\ section.keepsGil)

TakesExit(t, place, exit) ==
  thread' = [thread EXCEPT ![t] = [at |-> place, scope |-> ExitScope(t), exit |-> exit]]

\* "continue" is an exit of a block only.
JumpOut(t, exit) ==
  /\ MayExit(t)
  /\ exit = CONTINUE => ~StandsAt(t, {"body"})
  /\ TakesExit(t, "trap", exit)
  /\ UNCHANGED <<excVars, restVars, gil, why>>

\* The value is stored in a critical section and the old one released after it.
Return(t) ==
  /\ MayExit(t)
  /\ retval' = t
  /\ TakesExit(t, "trap", RETURN)
  /\ UNCHANGED <<excVars, section, left, outcome, leaked, gil, why>>

\* Python code raises; the position is stored on the way to the error label.
\* Mutant: the position is shared by all threads.
Mut_LinenoOf(t) == [u \in Team |-> t]
LinenoOf(t) == [lineno EXCEPT ![t] = t]

Raise(t) ==
  /\ MayExit(t) /\ MayTake(t)
  /\ pending' = [pending EXCEPT ![t] = t]
  /\ lineno' = LinenoOf(t)
  /\ raised' = raised \cup {t}
  /\ TakesExit(t, "fetch", ERROR)
  /\ UNCHANGED <<exc, exc_lineno, dropped, restVars, gil, why>>

\* fetch_parallel_exception: the first exception of a scope, with its position.
FetchException(t) ==
  LET s == thread[t].scope IN
  /\ StandsAt(t, {"fetch"}) /\ MayTake(t)
  /\ IF exc[s] = Nobody
     THEN /\ exc' = [exc EXCEPT ![s] = pending[t]]
          /\ exc_lineno' = [exc_lineno EXCEPT ![s] = lineno[t]]
          /\ pending' = [pending EXCEPT ![t] = Nobody]
     ELSE UNCHANGED <<exc, exc_lineno, pending>>
  /\ Goes(t, "trap")
  /\ UNCHANGED <<lineno, raised, dropped, restVars, gil, why>>

\* trap_parallel_exit.
TrapExit(t) ==
  /\ StandsAt(t, {"trap"})
  /\ why' = [why EXCEPT ![thread[t].scope] = thread[t].exit]
  /\ Goes(t, IF section.shape = "prange" \/ thread[t].scope # Section THEN "loop" ELSE "end")
  /\ UNCHANGED <<excVars, restVars, gil>>

\* The thread finds no more iterations.  With the GIL to care about, all wait
\* for one another here.  Mutant: with the GIL in hand.
Mut_LeavePrange(t) ==
  /\ StandsAt(t, {"loop"}) /\ left = 0
  /\ Goes(t, IF section.keepsGil THEN "barrier" ELSE "inner")
  /\ UNCHANGED <<excVars, restVars, gil, why>>

LeavePrange(t) ==
  /\ StandsAt(t, {"loop"}) /\ left = 0
  /\ Goes(t, IF section.keepsGil THEN "barrier" ELSE "inner")
  /\ gil' = IF gil = t THEN Nobody ELSE gil
  /\ UNCHANGED <<excVars, restVars, why>>

\* The barrier, and PyEval_RestoreThread after it.
Arrived(t) ==
  \/ StandsAt(t, {"barrier", "passed", "inner", "after", "end", "done"})
  \/ section.shape = "nested" /\ StandsAt(t, {"fetch", "trap"}) /\ thread[t].scope = Section

PassBarrier(t) ==
  /\ StandsAt(t, {"barrier"})
  /\ \A u \in Team : Arrived(u)
  /\ Goes(t, "passed")
  /\ UNCHANGED <<excVars, restVars, gil, why>>

RestoreThread(t) ==
  /\ StandsAt(t, {"passed"}) /\ gil = Nobody
  /\ gil' = t
  /\ Goes(t, "inner")
  /\ UNCHANGED <<excVars, restVars, why>>

\* After the loop: of the section, its end; of an inner prange, its control flow
\* block, which hands an error or a return on to the block around it.
EndPrange(t) ==
  /\ StandsAt(t, {"inner"})
  /\ \/ section.shape = "prange" /\ Goes(t, "end") /\ UNCHANGED <<pending, lineno>>
     \/ /\ section.shape = "nested" /\ exc[t] # Nobody /\ MayTake(t)
        /\ pending' = [pending EXCEPT ![t] = exc[t]]
        /\ lineno' = [lineno EXCEPT ![t] = exc_lineno[t]]
        /\ thread' = [thread EXCEPT ![t] = [at |-> "fetch", scope |-> Section, exit |-> ERROR]]
     \/ /\ section.shape = "nested" /\ exc[t] = Nobody
        /\ thread' = [thread EXCEPT ![t] =
              IF why[t] = RETURN THEN [at |-> "trap", scope |-> Section, exit |-> RETURN]
              ELSE [@ EXCEPT !.at = "after"]]
        /\ UNCHANGED <<pending, lineno>>
  /\ UNCHANGED <<exc, exc_lineno, raised, dropped, restVars, gil, why>>

\* end_parallel_block: temporaries are released under the GIL, and the thread
\* state goes with the exception in it, except the master's.
EndThread(t) ==
  /\ StandsAt(t, {"end"}) /\ MayTake(t)
  /\ IF t = Master THEN UNCHANGED <<pending, dropped>>
     ELSE /\ pending' = [pending EXCEPT ![t] = Nobody]
          /\ dropped' = dropped \cup ({pending[t]} \ {Nobody})
  /\ gil' = Nobody
  /\ Goes(t, "done")
  /\ UNCHANGED <<lineno, exc, exc_lineno, raised, restVars, why>>

-----------------------------------------------------------------------------
\* "Prefer the error."
LastExit == IF exc[Section] # Nobody THEN ERROR ELSE why[Section]

\* A prange is a loop of its own: it has an else clause, and after a break the
\* function goes on.
ResultOf(exit) ==
  CASE exit = ERROR  -> "error"
    [] exit = RETURN -> "return"
    [] exit = BREAK /\ section.shape # "prange" -> "break"
    [] exit = CONTINUE -> "continue"
    [] exit = 0 /\ section.shape = "prange" -> "else"
    [] OTHER -> "next"

\* All have arrived, and the master leaves the section.  An exception is raised
\* in place of what its thread state has; a returned object is forgotten by the
\* error label.
EndSection ==
  /\ \A t \in Team : StandsAt(t, {"done"})
  /\ outcome = "none"
  /\ outcome' = ResultOf(LastExit)
  /\ IF LastExit = ERROR
     THEN /\ pending' = [pending EXCEPT ![Master] = exc[Section]]
          /\ lineno' = [lineno EXCEPT ![Master] = exc_lineno[Section]]
          /\ dropped' = dropped \cup ({pending[Master]} \ {Nobody})
          /\ leaked' = leaked \cup ({retval} \ {Nobody})
          /\ retval' = Nobody
     ELSE UNCHANGED <<pending, lineno, dropped, leaked, retval>>
  /\ UNCHANGED <<section, gil, thread, why, exc, exc_lineno, left, raised>>

ThreadStep(t) ==
  \/ BeginThread(t) \/ ReachLoop(t) \/ NextIteration(t) \/ BeginBody(t) \/ Switch(t)
  \/ FinishBody(t) \/ Return(t) \/ Raise(t) \/ FetchException(t) \/ TrapExit(t)
  \/ \E exit \in {CONTINUE, BREAK} : JumpOut(t, exit)
  \/ LeavePrange(t) \/ PassBarrier(t) \/ RestoreThread(t) \/ EndPrange(t) \/ EndThread(t)

ParNext == EndSection \/ \E t \in Team : ThreadStep(t)

ParSpec == ParInit /\ [][ParNext]_parVars

-----------------------------------------------------------------------------
\* The variables keep their types.
ParTypeOK ==
  /\ section \in [shape : Shapes, keepsGil : BOOLEAN]
  /\ thread \in [Team -> [at : Places, scope : Scopes, exit : 0 .. ERROR]]
  /\ why \in [Scopes -> 0 .. ERROR]
  /\ {pending, lineno} \subseteq [Team -> Team \cup {Nobody}]
  /\ {exc, exc_lineno} \subseteq [Scopes -> Team \cup {Nobody}]
  /\ {gil, retval} \subseteq Team \cup {Nobody} /\ left \in 0 .. Iterations
  /\ UNION {raised, dropped, leaked} \subseteq Team

\* "Firstly, always prefer errors over returning, continue or break"
\* (Nodes.py:11408): when the section is left, an exception that any thread
\* raised is raised, at its own line, whatever the others recorded after it;
\* every other exception was freed with the thread state it was left in.
ErrorComesOut ==
  outcome # "none" =>
    /\ outcome = "error" <=> raised # {}
    /\ outcome = "error" =>
         /\ pending[Master] \in raised /\ lineno[Master] = pending[Master]
         /\ dropped = raised \ {pending[Master]}
    /\ \A t \in Team \ {Master} : pending[t] = Nobody

\* Where a thread can go on: unless it waits for the GIL or at the barrier, or
\* has ended.  (MayStepIsEnabled: these are the guards of its steps.)
MayStep(t) ==
  \/ StandsAt(t, {"begin", "passed"}) /\ gil = Nobody
  \/ StandsAt(t, {"loop", "trap"})
  \/ StandsAt(t, UserCode \cup {"admitted"}) /\ (section.keepsGil => MayTake(t))
  \/ StandsAt(t, {"fetch", "end"}) /\ MayTake(t)
  \/ StandsAt(t, {"barrier"}) /\ \A u \in Team : Arrived(u)
  \/ /\ StandsAt(t, {"inner"})
     /\ section.shape = "prange" \/ exc[t] = Nobody \/ MayTake(t)
MayStepIsEnabled == outcome = "none" => \A t \in Team : MayStep(t) <=> ENABLED ThreadStep(t)

\* Threads never wait for one another at the barrier, or for the GIL, for ever:
\* until all have ended somebody can take a step ("synchronization point for all
\* loops at the end of the thread but without the GIL", Nodes.py:11948).
SectionCanEnd ==
  (\E t \in Team : ~StandsAt(t, {"done"})) => \E t \in Team : MayStep(t)

\* "the loop body is skipped after the first break, return or exception for any
\* subsequent iteration in any thread" (parallelism.rst:233).
SkippedAfterExit ==
  [][\A t \in Team : NextIteration(t) /\ thread'[t].at = "admitted"
                        => \A u \in Team : why[LoopScope(u)] < BREAK]_parVars

\* An object that a thread returned is returned or released: ReturnStatNode puts
\* a new reference into __pyx_r, and the error label of the function overwrites
\* it with NULL (Nodes.py:2458) when another thread raised.
ReturnedIsReleased == leaked = {}
=============================================================================
