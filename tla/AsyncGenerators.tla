--------------------------- MODULE AsyncGenerators ---------------------------
(***************************************************************************)
(* One asynchronous generator and the awaitables made from it              *)
(* (Utility/AsyncGen.c).  asend(), athrow() and aclose() do nothing but    *)
(* make an awaitable; it is driven later, by send() and throw(), and each  *)
(* drive runs the body up to its next await or yield, or to its end.       *)
(*                                                                         *)
(* A method is two steps, around the stretch in which the body runs: in it *)
(* the body, or another thread while the GIL is released, may call the     *)
(* methods of any awaitable.  Everything else a method does is one step    *)
(* under the GIL.  What the body does is any choice it can make.           *)
(***************************************************************************)
CONSTANTS Awaitables,  \* bound: awaitables made in one run
          AsyncLanes   \* the uses admitted out of AllAsyncLanes

VARIABLES ag_label,          \* resume_label, and where: at a yield or an await
          ag_closed, ag_running_async,
          aw,                \* the awaitables: kind and state
          driver,            \* the method call the body runs in, if it runs
          finished           \* history: awaitables that have raised

asyncVars == <<ag_label, ag_closed, ag_running_async, aw, driver, finished>>

\* "again": an awaitable that has raised is driven once more.  "itself": the
\* body drives the awaitable that drives it.  "arguments": athrow() without any.
AllAsyncLanes == {"again", "itself", "arguments"}

ASSUME LaneAssumption == AsyncLanes \subseteq AllAsyncLanes

AwaitableKinds == {"asend", "athrow", "aclose"}

\* Out of a drive comes a wrapped value, a value to pass on to the event loop,
\* or an exception.
Raised  == {"StopAsyncIteration", "GeneratorExit", "error"}
Results == {"yielded", "awaiting"} \cup Raised

Drives == {"send", "throw"}

\* The fields of the generator and of its awaitables keep their types, and the
\* body is driven by one method call.
AsyncTypeOK ==
  /\ ag_label \in {"first", "yield", "await", "terminated"}
  /\ ag_closed \in BOOLEAN /\ ag_running_async \in BOOLEAN
  /\ aw \in [Awaitables -> [kind : AwaitableKinds,
                            state : {"none", "init", "iter", "closed"}]]
  /\ driver \subseteq [a : Awaitables, how : Drives, was : {"init", "iter"}]
  /\ finished \subseteq Awaitables

AsyncInit ==
  /\ ag_label = "first"
  /\ ag_closed = FALSE /\ ag_running_async = FALSE
  /\ aw = [a \in Awaitables |-> [kind |-> "asend", state |-> "none"]]
  /\ driver = {}
  /\ finished = {}

-----------------------------------------------------------------------------
NewAwaitable(a, kind) ==
  /\ aw[a].state = "none"
  /\ aw' = [aw EXCEPT ![a] = [kind |-> kind, state |-> "init"]]
  /\ UNCHANGED <<ag_label, ag_closed, ag_running_async, driver, finished>>

\* A closed awaitable only raises "cannot reuse already awaited".
MayDrive(a) ==
  /\ aw[a].state \in {"init", "iter"}
  /\ a \in finished => "again" \in AsyncLanes
  /\ (\E d \in driver : d.a = a) => "itself" \in AsyncLanes

\* The awaitable raises and is closed, without touching the generator.
Refuse(a) ==
  /\ aw' = [aw EXCEPT ![a].state = "closed"]
  /\ finished' = finished \cup {a}
  /\ UNCHANGED <<ag_label, ag_closed, ag_running_async, driver>>

\* Of a generator that is past its end an athrow or aclose awaitable says so
\* before anything else; throw() does not look.
PastTheEnd(a, how) ==
  aw[a].kind # "asend" /\ how = "send" /\ ag_label = "terminated"

IsBusy(a) == aw[a].state = "init" /\ ag_running_async

IsShut(a, how) ==
  aw[a].kind # "asend" /\ how = "send" /\ aw[a].state = "init" /\ ag_closed

Refused(a, how) ==
  /\ MayDrive(a)
  /\ PastTheEnd(a, how) \/ IsBusy(a) \/ IsShut(a, how)
  /\ Refuse(a)

Admitted(a, how) ==
  MayDrive(a) /\ ~PastTheEnd(a, how) /\ ~IsBusy(a) /\ ~IsShut(a, how)

\* What a method does with the result of the body: __Pyx_async_gen_unwrap_value
\* for asend and athrow, its own code for aclose.  A result other than a value
\* to pass on ends the awaitable, except that the send() of an athrow that was
\* iterating does not close it.  Mutant: a value to pass on is taken for the end.
Mut_UnmarkedInAwait(result) == FALSE
RunningAfter(result) == IF result = "awaiting" THEN ag_running_async ELSE FALSE

Unwrap(a, how, was, result) ==
  /\ ag_running_async' = RunningAfter(result)
  /\ ag_closed' = \/ ag_closed
                  \/ aw[a].kind = "aclose" /\ how = "send" /\ was = "init"
                  \/ aw[a].kind # "aclose" /\ result \in Raised \ {"error"}
  /\ IF result = "awaiting" THEN UNCHANGED <<aw, finished>>
     ELSE /\ finished' = finished \cup {a}
          /\ aw' = [aw EXCEPT ![a].state =
               IF aw[a].kind = "athrow" /\ how = "send" /\ was = "iter"
               THEN "iter" ELSE "closed"]

\* The generator is executing, or has ended: an answer without a run.
AnswersAtOnce(a, how, thrown) ==
  /\ Admitted(a, how)
  /\ \/ driver # {} /\ Unwrap(a, how, aw[a].state, "error")
     \/ /\ driver = {} /\ ag_label = "terminated"
        /\ Unwrap(a, how, aw[a].state,
                  IF how = "send" THEN "StopAsyncIteration" ELSE thrown)
  /\ UNCHANGED <<ag_label, driver>>

\* The body is entered, unless the arguments of athrow() cannot be unpacked:
\* that is found after the generator was marked.
Drive(a, how, unpacks) ==
  LET was == aw[a].state IN
  /\ Admitted(a, how) /\ driver = {} /\ ag_label # "terminated"
  /\ ~unpacks => /\ "arguments" \in AsyncLanes
                 /\ aw[a].kind = "athrow" /\ how = "send" /\ was = "init"
  /\ driver' = IF unpacks THEN {[a |-> a, how |-> how, was |-> was]} ELSE {}
  /\ finished' = IF unpacks THEN finished ELSE finished \cup {a}
  /\ aw' = [aw EXCEPT ![a].state = "iter"]
  /\ ag_running_async' = \/ was = "init"
                         \/ aw[a].kind = "asend" /\ how = "send"
                         \/ ag_running_async
  /\ ag_closed' = \/ ag_closed
                  \/ aw[a].kind = "aclose" /\ how = "send" /\ was = "init"
  /\ UNCHANGED ag_label

\* The body comes out: at an await, at a yield, or ended.  A body that has not
\* started ends with what is thrown into it; returning is StopAsyncIteration.
BodyComesOut(result) ==
  \E d \in driver :
    /\ ag_label = "first" /\ (d.how = "throw" \/ aw[d.a].kind # "asend")
       => result \in {"GeneratorExit", "error"}
    /\ ag_label' = CASE result = "yielded" -> "yield" [] result = "awaiting" -> "await"
                     [] OTHER -> "terminated"
    /\ driver' = {}
    /\ Unwrap(d.a, d.how, d.was, result)

AsyncNext ==
  \E a \in Awaitables :
    \/ \E kind \in AwaitableKinds : NewAwaitable(a, kind)
    \/ \E how \in Drives : Refused(a, how)
    \/ \E how \in Drives, unpacks \in BOOLEAN : Drive(a, how, unpacks)
    \/ \E how \in Drives, thrown \in {"GeneratorExit", "error"} :
         AnswersAtOnce(a, how, thrown)
    \/ \E result \in Results : BodyComesOut(result)

AsyncSpec == AsyncInit /\ [][AsyncNext]_asyncVars

-----------------------------------------------------------------------------
Iterating == {a \in Awaitables : aw[a].state = "iter" /\ a \notin finished}

\* The awaitables of a generator take turns (ag_running_async, AsyncGen.c): the
\* second to be driven is told that the generator "is already running" until
\* the first has raised.
OneAtATime == \A a, b \in Iterating : a = b

\* A body suspended in an await belongs to the awaitable that will bring it the
\* answer: ag_running_async is set, so nobody else's value arrives there.
AwaitIsGuarded == ag_label = "await" => ag_running_async

\* "cannot reuse already awaited": an awaitable that has raised is closed.
FinishedIsClosed == \A a \in finished : aw[a].state = "closed"
=============================================================================
