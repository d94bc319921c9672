------------------------------ MODULE Generators -----------------------------
(***************************************************************************)
(* The run time of generators and coroutines (Utility/Coroutine.c): send,  *)
(* next, throw and close from any number of threads, and delegation by     *)
(* "yield from" and "await".                                               *)
(*                                                                         *)
(* A call is one activation of a method on one generator.  A call that     *)
(* needs another generator (its delegate, or the source its body starts to *)
(* delegate to) makes a call of its own and waits for the answer, so the   *)
(* calls that wait for one another are the C stack of one thread, and the  *)
(* calls made by nobody are as many threads as there are calls.  What a    *)
(* body does between two yields is any choice it can make.  A call that a  *)
(* body makes on some generator in plain Python is one more call made by   *)
(* nobody.                                                                 *)
(*                                                                         *)
(* The build has am_send (CYTHON_USE_AM_SEND) and PEP 479 (language level  *)
(* 3); reads and writes of a generator's fields are single steps.          *)
(***************************************************************************)
CONSTANTS Gens,
          Kinds,     \* bound: which sets of Gens may be made by "async def"
          Calls,     \* bound: calls under way at the same time
          Iterator,  \* any other iterator a generator may delegate to
          Nobody

VARIABLES coroutines,  \* the objects whose type is that of coroutines
          is_running, resume_label, yieldfrom,  \* the fields of a generator
          call

genVars == <<coroutines, is_running, resume_label, yieldfrom, call>>

ASSUME GeneratorAssumption == /\ Kinds \subseteq SUBSET Gens
                              /\ Nobody \notin Calls \cup Gens
                              /\ Iterator \notin Gens \cup {Nobody}

\* What a call sends in and what it gets back: a value (None apart from the
\* others), a yielded value, or an exception.  "already executing" and every
\* other exception are "error".
Exceptions == {"GeneratorExit", "StopIteration", "error"}
Values     == {"None", "value"}
Things     == Values \cup {"yielded"} \cup Exceptions

Delegates == Gens \cup {Iterator}

\* "first" is label 0, "yield" any label of a yield, "terminated" -1.
Labels == {"first", "yield", "terminated"}

Waiting == {"delegate", "closing", "starting"}
Within  == Waiting \cup {"entered", "resume", "body", "leave"}

Activation(op, g, by, has) ==
  [at |-> "begin", op |-> op, gen |-> g, by |-> by, on |-> Nobody, has |-> has]
Idle == [at |-> "idle", op |-> "send", gen |-> Nobody, by |-> Nobody, on |-> Nobody,
         has |-> "None"]

CallType == [at : Within \cup {"idle", "begin", "answered"}, op : {"send", "throw", "close"},
             gen : Gens \cup {Nobody}, by : Calls \cup {Nobody},
             on : Delegates \cup {Nobody}, has : Things]

\* The fields of a generator and the activations keep their types: yieldfrom
\* holds a delegate or NULL, resume_label one of the labels of the body.
GenTypeOK ==
  /\ coroutines \in Kinds
  /\ is_running \in [Gens -> BOOLEAN]
  /\ resume_label \in [Gens -> Labels]
  /\ yieldfrom \in [Gens -> Delegates \cup {Nobody}]
  /\ call \in [Calls -> CallType]

GenInit ==
  /\ coroutines \in Kinds
  /\ is_running = [g \in Gens |-> FALSE]
  /\ resume_label = [g \in Gens |-> "first"]
  /\ yieldfrom = [g \in Gens |-> Nobody]
  /\ call = [c \in Calls |-> Idle]

-----------------------------------------------------------------------------
\* The call moves on; a call it made and waited for is over.
Proceed(c, at, has) ==
  call' = [d \in Calls |-> IF d = c THEN [call[c] EXCEPT !.at = at, !.on = Nobody, !.has = has]
                           ELSE IF call[d].by = c THEN Idle ELSE call[d]]

\* Ask a delegate: a call of our own on a generator, a plain call otherwise.
Ask(c, at, op, source, has) ==
  \/ /\ source = Iterator
     /\ call' = [call EXCEPT ![c].at = at, ![c].on = source]
  \/ /\ source \in Gens
     /\ \E d \in Calls :
          /\ call[d].at = "idle" /\ d # c
          /\ call' = [call EXCEPT ![c].at = at, ![c].on = source,
                                  ![d] = Activation(op, source, c, has)]

\* What the delegate may have answered by now.
Answers(c) ==
  IF call[c].on = Iterator THEN Things \ {"StopIteration"}
  ELSE {call[d].has : d \in {d \in Calls : call[d].by = c /\ call[d].at = "answered"}}

\* A thread calls a method, or returns from one.
BeginCall(c, op, g, has) ==
  /\ call[c].at = "idle"
  /\ has \in CASE op = "send"  -> Values
               [] op = "throw" -> {"GeneratorExit", "error"}
               [] op = "close" -> {"GeneratorExit"}
  /\ call' = [call EXCEPT ![c] = Activation(op, g, Nobody, has)]
  /\ UNCHANGED <<coroutines, is_running, resume_label, yieldfrom>>

EndCall(c) ==
  /\ call[c].at = "answered" /\ call[c].by = Nobody
  /\ call' = [call EXCEPT ![c] = Idle]
  /\ UNCHANGED <<coroutines, is_running, resume_label, yieldfrom>>

\* __Pyx_Coroutine_test_and_set_is_running, in a critical section.
Mut_EnterUnchecked(c) ==
  LET g == call[c].gen IN
  /\ call[c].at = "begin"
  /\ is_running' = [is_running EXCEPT ![g] = TRUE]
  /\ Proceed(c, "entered", call[c].has)
  /\ UNCHANGED <<coroutines, resume_label, yieldfrom>>

Enter(c) ==
  LET g == call[c].gen IN
  /\ call[c].at = "begin"
  /\ IF is_running[g] THEN Proceed(c, "answered", "error")
     ELSE Proceed(c, "entered", call[c].has)
  /\ is_running' = [is_running EXCEPT ![g] = TRUE]
  /\ UNCHANGED <<coroutines, resume_label, yieldfrom>>

\* Nobody to delegate to: the body gets what was sent.
EnterBody(c) ==
  /\ call[c].at = "entered" /\ yieldfrom[call[c].gen] = Nobody
  /\ Proceed(c, "resume", call[c].has)
  /\ UNCHANGED <<coroutines, is_running, resume_label, yieldfrom>>

ClosesDelegate(c) == call[c].has = "GeneratorExit" /\ call[c].op # "send"

\* send, next and throw pass what they have to the delegate.
PassOn(c) ==
  LET g == call[c].gen IN
  /\ call[c].at = "entered" /\ yieldfrom[g] # Nobody /\ ~ClosesDelegate(c)
  /\ Ask(c, "delegate", call[c].op, yieldfrom[g], call[c].has)
  /\ UNCHANGED <<coroutines, is_running, resume_label, yieldfrom>>

\* __Pyx_Coroutine_CloseIter, for close() and for throw(GeneratorExit).
CloseIter(c) ==
  LET g == call[c].gen IN
  /\ call[c].at = "entered" /\ yieldfrom[g] # Nobody /\ ClosesDelegate(c)
  /\ Ask(c, "closing", "close", yieldfrom[g], "GeneratorExit")
  /\ UNCHANGED <<coroutines, is_running, resume_label, yieldfrom>>

\* __Pyx_Coroutine_Undelegate.  Mutant: None is left there instead of NULL.
Mut_Undelegated(g) == [yieldfrom EXCEPT ![g] = "None"]
Undelegated(g) == [yieldfrom EXCEPT ![g] = Nobody]

\* throw to an iterator that has no throw(), or whose lookup of it fails.
ThrowHere(c) ==
  LET g == call[c].gen IN
  /\ call[c].at = "entered" /\ call[c].op = "throw" /\ ~ClosesDelegate(c)
  /\ yieldfrom[g] = Iterator
  /\ yieldfrom' = Undelegated(g)
  /\ Proceed(c, "resume", call[c].has)
  /\ UNCHANGED <<coroutines, is_running, resume_label>>

NoThrowMethod(c) ==
  /\ call[c].at = "entered" /\ call[c].op = "throw" /\ ~ClosesDelegate(c)
  /\ yieldfrom[call[c].gen] = Iterator
  /\ Proceed(c, "leave", "error")
  /\ UNCHANGED <<coroutines, is_running, resume_label, yieldfrom>>

\* The delegate yielded, and stays.
DelegateYields(c) ==
  /\ call[c].at = "delegate" /\ "yielded" \in Answers(c)
  /\ Proceed(c, "leave", "yielded")
  /\ UNCHANGED <<coroutines, is_running, resume_label, yieldfrom>>

\* FinishDelegation turns a StopIteration into its value; SendToDelegate, the
\* way of send() and next() to an am_send, passes on what it got.
FromDelegate(c, answer) ==
  IF answer = "StopIteration" /\ call[c].op = "throw" THEN "None" ELSE answer

DelegateEnds(c) ==
  LET g == call[c].gen IN
  /\ call[c].at = "delegate"
  /\ \E answer \in Answers(c) \ {"yielded"} :
       Proceed(c, "resume", FromDelegate(c, answer))
  /\ yieldfrom' = Undelegated(g)
  /\ UNCHANGED <<coroutines, is_running, resume_label>>

\* A delegate that would not close puts its exception in place of ours.
\* Mutant: what the delegate says is ignored.
Mut_SentAfterClose(c, answer) == call[c].has
SentAfterClose(c, answer) == IF answer \in Exceptions THEN answer ELSE call[c].has

DelegateCloses(c) ==
  LET g == call[c].gen IN
  /\ call[c].at = "closing"
  /\ \E answer \in Answers(c) : Proceed(c, "resume", SentAfterClose(c, answer))
  /\ yieldfrom' = Undelegated(g)
  /\ UNCHANGED <<coroutines, is_running, resume_label>>

-----------------------------------------------------------------------------
\* __Pyx_Coroutine_AlreadyTerminatedError.
Exhausted(c) ==
  LET has == call[c].has IN
  CASE call[c].gen \in coroutines /\ call[c].op # "close" -> "error"
    [] OTHER -> IF has \in Values THEN "StopIteration" ELSE has

ResumeTerminated(c) ==
  /\ call[c].at = "resume" /\ resume_label[call[c].gen] = "terminated"
  /\ Proceed(c, "leave", Exhausted(c))
  /\ UNCHANGED <<coroutines, is_running, resume_label, yieldfrom>>

\* The body ends: its label is -1 and the generator is cleared.
Terminate(c, has) ==
  /\ resume_label' = [resume_label EXCEPT ![call[c].gen] = "terminated"]
  /\ yieldfrom' = Undelegated(call[c].gen)
  /\ Proceed(c, "leave", has)
  /\ UNCHANGED <<coroutines, is_running>>

\* A body that has not started takes nothing but None.
FirstRunFails(c) ==
  /\ call[c].at = "resume" /\ resume_label[call[c].gen] = "first"
  /\ call[c].has # "None"
  /\ Terminate(c, IF call[c].has \in Exceptions THEN call[c].has ELSE "error")

Resume(c) ==
  /\ call[c].at = "resume"
  /\ \/ resume_label[call[c].gen] = "yield"
     \/ resume_label[call[c].gen] = "first" /\ call[c].has = "None"
  /\ Proceed(c, "body", call[c].has)
  /\ UNCHANGED <<coroutines, is_running, resume_label, yieldfrom>>

\* A coroutine suspends only where it awaits.
BodyYields(c) ==
  /\ call[c].at = "body" /\ call[c].gen \notin coroutines
  /\ resume_label' = [resume_label EXCEPT ![call[c].gen] = "yield"]
  /\ Proceed(c, "leave", "yielded")
  /\ UNCHANGED <<coroutines, is_running, yieldfrom>>

BodyReturns(c, value) ==
  /\ call[c].at = "body" /\ value \in Values
  /\ Terminate(c, value)

\* __Pyx_Generator_Replace_StopIteration makes a StopIteration an error.
BodyRaises(c, exception) ==
  /\ call[c].at = "body" /\ exception \in Exceptions
  /\ Terminate(c, IF exception = "StopIteration" THEN "error" ELSE exception)

\* "yield from" and "await": the first next() on the source.
BodyDelegates(c, source) ==
  LET g == call[c].gen IN
  /\ call[c].at = "body" /\ source \in Delegates
  /\ ~(g \in coroutines /\ source \in coroutines /\ yieldfrom[source] # Nobody)
  /\ Ask(c, "starting", "send", source, "None")
  /\ UNCHANGED <<coroutines, is_running, resume_label, yieldfrom>>

\* "coroutine is being awaited already".
BodyAwaitsAwaited(c, source) ==
  /\ call[c].at = "body" /\ call[c].gen \in coroutines
  /\ source \in coroutines /\ yieldfrom[source] # Nobody
  /\ Proceed(c, "body", "error")
  /\ UNCHANGED <<coroutines, is_running, resume_label, yieldfrom>>

\* The source yielded: it becomes the delegate and the body is suspended.
SourceYields(c) ==
  LET g == call[c].gen IN
  /\ call[c].at = "starting" /\ "yielded" \in Answers(c)
  /\ yieldfrom' = [yieldfrom EXCEPT ![g] = call[c].on]
  /\ resume_label' = [resume_label EXCEPT ![g] = "yield"]
  /\ Proceed(c, "leave", "yielded")
  /\ UNCHANGED <<coroutines, is_running>>

\* The source ended at once: the body goes on.  A generator source is asked by
\* next(), whose StopIteration is a value, a coroutine by am_send.
SourceEnds(c) ==
  /\ call[c].at = "starting"
  /\ \E answer \in Answers(c) \ {"yielded"} :
       Proceed(c, "body", IF answer = "StopIteration" THEN "None" ELSE answer)
  /\ UNCHANGED <<coroutines, is_running, resume_label, yieldfrom>>

\* What close() answers.  Mutant: a generator that goes on yielding is fine.
Mut_CloseAnswer(has) ==
  IF has = "error" THEN "error" ELSE "None"
CloseAnswer(has) ==
  IF has \in {"None", "GeneratorExit", "StopIteration"} THEN "None" ELSE "error"

\* __Pyx_Coroutine_unset_is_running, and the method returns.
Leave(c) ==
  LET has == call[c].has IN
  /\ call[c].at = "leave"
  /\ is_running' = [is_running EXCEPT ![call[c].gen] = FALSE]
  /\ Proceed(c, "answered", IF call[c].op = "close" THEN CloseAnswer(has) ELSE has)
  /\ UNCHANGED <<coroutines, resume_label, yieldfrom>>

GenNext ==
  \E c \in Calls :
    \/ \E op \in {"send", "throw", "close"}, g \in Gens, has \in Things :
         BeginCall(c, op, g, has)
    \/ Enter(c) \/ EnterBody(c) \/ PassOn(c) \/ CloseIter(c)
    \/ ThrowHere(c) \/ NoThrowMethod(c)
    \/ DelegateYields(c) \/ DelegateEnds(c) \/ DelegateCloses(c)
    \/ ResumeTerminated(c) \/ FirstRunFails(c) \/ Resume(c)
    \/ BodyYields(c)
    \/ \E value \in Values : BodyReturns(c, value)
    \/ \E exception \in Exceptions : BodyRaises(c, exception)
    \/ \E source \in Delegates : BodyDelegates(c, source) \/ BodyAwaitsAwaited(c, source)
    \/ SourceYields(c) \/ SourceEnds(c)
    \/ Leave(c) \/ EndCall(c)

GenSpec == GenInit /\ [][GenNext]_genVars

-----------------------------------------------------------------------------
\* is_running is set exactly while one call is between the test and its
\* release: no path of a method forgets to release it, none releases it for
\* another call (Coroutine.c:1692).
Inside(g) == {c \in Calls : call[c].gen = g /\ call[c].at \in Within}

RunningIsOneCall ==
  \A g \in Gens : /\ is_running[g] <=> Inside(g) # {}
                  /\ \A c, d \in Inside(g) : c = d

\* "we assume that gen->yieldfrom cannot change as long as gen->is_running is
\* set => no safety INCREF()" (Coroutine.c:1009): while a delegate is asked it
\* is the delegate, and only a suspended generator has one.
DelegateIsHeld ==
  /\ \A c \in Calls :
       call[c].at \in {"delegate", "closing"} => yieldfrom[call[c].gen] = call[c].on
  /\ \A g \in Gens : yieldfrom[g] # Nobody => resume_label[g] = "yield"

\* close() (__Pyx_Coroutine_Close) returns without an exception only from a
\* generator that is over.
CloseFinishes ==
  \A c \in Calls :
    call[c].at = "answered" /\ call[c].op = "close" /\ call[c].has = "None"
    => resume_label[call[c].gen] = "terminated"

\* GeneratorExit reaches a body that delegates only after the generator it
\* delegates to has ended (__Pyx_Coroutine_CloseIter).
InnermostFirst ==
  [][\A c \in Calls :
       DelegateCloses(c) /\ call[c].on \in Gens /\ call'[c].has = "GeneratorExit"
       => resume_label[call[c].on] = "terminated"]_genVars

\* PEP 380: a delegate that has ended, also through somebody else's hands, ends
\* the "yield from" with a value; its StopIteration is not raised in the body.
ExhaustedDelegateReturns ==
  \A c \in Calls : call[c].at = "body" => call[c].has # "StopIteration"

\* Calls share a generator as GeneratorProtocol says.
OneOf(calls) == IF calls = {} THEN Nobody ELSE CHOOSE c \in calls : TRUE

ownerOf == [g \in Gens |-> OneOf(Inside(g))]
statusOf == [g \in Gens |-> CASE resume_label[g] = "first" -> "created"
                              [] resume_label[g] = "yield" -> "suspended"
                              [] OTHER -> "closed"]

Protocol == INSTANCE GeneratorProtocol WITH owner <- ownerOf, status <- statusOf

ProtocolSpec == Protocol!Spec
=============================================================================
