-------------------------- MODULE Generators_proofs --------------------------
(***************************************************************************)
(* Proofs that calls share generators as GeneratorProtocol says and that   *)
(* close() keeps its promises, for any number of generators and calls and  *)
(* any depth of delegation; and that the awaitables of an asynchronous     *)
(* generator take turns, for any number of them, as long as none is driven *)
(* again after it has raised and the body does not drive the one that      *)
(* drives it.                                                              *)
(***************************************************************************)
EXTENDS MCGenerators, TLAPS

USE GeneratorAssumption

-----------------------------------------------------------------------------
(* The inductive invariant.                                                *)

\* Calls that wait for one another: a call made by another one is the only one
\* it made, that one waits, and waits for this generator.
MadeBy(d) ==
  call[d].by # Nobody =>
    /\ call[d].at # "idle" /\ call[d].by # d
    /\ call[call[d].by].at \in Waiting
    /\ call[call[d].by].on = call[d].gen
    /\ call[call[d].by].at = "closing" => call[d].op = "close"
    /\ \A e \in Calls : call[e].by = call[d].by => e = d

Tree == \A d \in Calls : MadeBy(d) /\ (call[d].at # "idle" => call[d].gen \in Gens)

\* A body runs only in a generator that is not over.
Alive(c) == call[c].at \in {"body", "starting"} => resume_label[call[c].gen] # "terminated"

\* What a call to close() is about to answer, and has answered.
Closed(c) ==
  call[c].op = "close" =>
    /\ call[c].at = "leave" /\ CloseAnswer(call[c].has) = "None"
         => resume_label[call[c].gen] = "terminated"
    /\ call[c].at = "answered" =>
         /\ call[c].has \in {"None", "error"}
         /\ call[c].has = "None" => resume_label[call[c].gen] = "terminated"

Held(c) == call[c].at \in {"delegate", "closing"} => yieldfrom[call[c].gen] = call[c].on
Suspends(g) == yieldfrom[g] # Nobody => resume_label[g] = "yield"

IInv ==
  /\ GenTypeOK
  /\ Tree
  /\ RunningIsOneCall
  /\ \A c \in Calls : Alive(c) /\ Closed(c) /\ Held(c)
  /\ \A g \in Gens : Suspends(g)

-----------------------------------------------------------------------------
(* What a step does to the calls.                                          *)

\* No other call moves, but the one that this one waited for or makes.
OthersStay(c) ==
  \A d \in Calls \ {c} :
    \/ call'[d] = call[d]
    \/ call[d].at \in {"idle", "answered"} /\ call'[d].at \in {"idle", "begin"}

\* Call c goes on to a place, within the same activation.
GoesOn(c, at) == /\ call'[c].at = at
                 /\ call'[c].gen = call[c].gen
                 /\ call'[c].op = call[c].op

LEMMA IdleType == Idle \in CallType
BY DEF Idle, CallType, Things, Values

LEMMA OneChild ==
  ASSUME GenTypeOK, Tree, NEW c \in Calls, NEW d \in Calls, call[d].by = c,
         call[c].at \in Waiting => Answers(c) # {}
  PROVE  call[d].at = "answered" /\ d # c
<1>1. c # Nobody /\ MadeBy(d) /\ MadeBy(c)
  BY DEF Tree
<1>2. call[c].at \in Waiting /\ call[c].on = call[d].gen /\ d # c /\ call[d].at # "idle"
  BY <1>1 DEF MadeBy
<1>3. call[c].on \in Gens /\ call[c].on # Iterator
  BY <1>2 DEF Tree
<1>4. PICK e \in Calls : call[e].by = c /\ call[e].at = "answered"
  BY <1>2, <1>3 DEF Answers
<1>5. e = d
  BY <1>1, <1>4 DEF MadeBy
<1> QED BY <1>2, <1>4, <1>5

LEMMA ProceedCall ==
  ASSUME GenTypeOK, Tree, NEW c \in Calls, NEW at, NEW has,
         call[c].at \in Within \cup {"begin"},
         call[c].at \in Waiting => Answers(c) # {},
         at \in (Within \ Waiting) \cup {"answered"}, has \in Things,
         Proceed(c, at, has)
  PROVE  /\ call' \in [Calls -> CallType]
         /\ Tree'
         /\ OthersStay(c)
         /\ GoesOn(c, at) /\ call'[c].has = has
<1>1. call \in [Calls -> CallType] /\ call[c] \in CallType
  BY DEF GenTypeOK
<1>2. call'[c] = [call[c] EXCEPT !.at = at, !.on = Nobody, !.has = has]
  BY DEF Proceed
<1>3. /\ call'[c].at = at /\ call'[c].has = has /\ call'[c].gen = call[c].gen
      /\ call'[c].op = call[c].op /\ call'[c].by = call[c].by
      /\ call'[c] \in CallType
  BY <1>1, <1>2 DEF CallType
<1>4. \A d \in Calls \ {c} : call'[d] = IF call[d].by = c THEN Idle ELSE call[d]
  BY DEF Proceed
<1>5. \A d \in Calls : call[d].by = c => call[d].at = "answered" /\ d # c
  BY OneChild
<1>6. call' \in [Calls -> CallType]
  <2>1. \A d \in Calls : call'[d] \in CallType
    BY <1>1, <1>3, <1>4, IdleType
  <2>2. call' = [d \in Calls |-> call'[d]]
    BY DEF Proceed
  <2> QED BY <2>1, <2>2
<1>7. Idle.at = "idle" /\ Idle.by = Nobody
  BY DEF Idle
<1>8. OthersStay(c)
  BY <1>4, <1>5, <1>7 DEF OthersStay
<1>9. ASSUME NEW p \in Calls, call[p].at \in Waiting, p # c PROVE call'[p] = call[p]
  BY <1>4, <1>5, <1>9 DEF Waiting
<1>10. ASSUME NEW d \in Calls
       PROVE  MadeBy(d)' /\ (call'[d].at # "idle" => call'[d].gen \in Gens)
  <2>1. call'[d].at # "idle" => call'[d].gen \in Gens
    BY <1>3, <1>4, <1>7 DEF Tree, Within, Waiting
  <2>2. ASSUME call'[d].by # Nobody PROVE MadeBy(d)'
    <3>1. call[d].by = call'[d].by /\ call'[d].op = call[d].op /\ call'[d].gen = call[d].gen
      BY <1>3, <1>4, <1>7, <2>2
    <3>2. MadeBy(d) /\ call[d].by \in Calls
      BY <3>1, <2>2, <1>1 DEF Tree, CallType
    <3>3. call[d].by # c
      BY <1>3, <1>4, <1>5, <1>7, <2>2, <3>1
    <3>4. call'[call[d].by] = call[call[d].by]
      BY <3>1, <3>2, <3>3, <2>2, <1>9 DEF MadeBy
    <3>5. call'[d].at # "idle"
      BY <1>3, <1>4, <3>1, <3>2, <3>3, <2>2 DEF MadeBy, Within
    <3>6. \A e \in Calls : call'[e].by = call[d].by => call[e].by = call[d].by
      BY <1>3, <1>4, <1>7, <3>1, <2>2
    <3> QED BY <3>1, <3>2, <3>4, <3>5, <3>6, <2>2 DEF MadeBy
  <2> QED BY <2>1, <2>2 DEF MadeBy
<1> QED BY <1>3, <1>6, <1>8, <1>10 DEF Tree, GoesOn

LEMMA AskCall ==
  ASSUME GenTypeOK, Tree, NEW c \in Calls, NEW at, NEW op, NEW source, NEW has,
         call[c].at \in {"entered", "body"}, at \in Waiting,
         op \in {"send", "throw", "close"}, source \in Delegates, has \in Things,
         at = "closing" => op = "close",
         Ask(c, at, op, source, has)
  PROVE  /\ call' \in [Calls -> CallType]
         /\ Tree'
         /\ OthersStay(c)
         /\ GoesOn(c, at) /\ call'[c].on = source
<1>1. call \in [Calls -> CallType] /\ call[c] \in CallType
  BY DEF GenTypeOK
<1> DEFINE asking == [call[c] EXCEPT !.at = at, !.on = source]
<1>2. /\ asking \in CallType /\ asking.at = at /\ asking.on = source
      /\ asking.gen = call[c].gen /\ asking.op = call[c].op /\ asking.by = call[c].by
  BY <1>1 DEF CallType, Within
<1>3. \A d \in Calls : call[d].by # c
  BY DEF Tree, MadeBy, Waiting
<1>4. call[c].at # "idle" /\ call[c].gen \in Gens
  BY DEF Tree
<1>5. CASE source = Iterator /\ call' = [call EXCEPT ![c].at = at, ![c].on = source]
  <2>1. call' = [call EXCEPT ![c] = asking]
    BY <1>5
  <2>2. call' \in [Calls -> CallType] /\ call'[c] = asking
    BY <2>1, <1>1, <1>2
  <2>3. \A d \in Calls \ {c} : call'[d] = call[d]
    BY <2>1, <1>1
  <2>4. ASSUME NEW d \in Calls, call'[d].by # Nobody PROVE MadeBy(d)'
    <3>1. call[d].by = call'[d].by /\ call'[d].op = call[d].op /\ call'[d].gen = call[d].gen
      BY <2>2, <2>3, <1>2
    <3>2. MadeBy(d) /\ call[d].by \in Calls /\ call[d].by # c
      BY <3>1, <2>4, <1>1, <1>3 DEF Tree, CallType
    <3>3. call'[call[d].by] = call[call[d].by]
      BY <3>2, <2>3
    <3>4. call'[d].at # "idle"
      BY <2>2, <2>3, <1>2, <3>1, <3>2, <2>4 DEF MadeBy, Waiting
    <3>5. \A e \in Calls : call'[e].by = call[e].by
      BY <2>2, <2>3, <1>2
    <3> QED BY <3>1, <3>2, <3>3, <3>4, <3>5, <2>4 DEF MadeBy
  <2>5. Tree'
    <3>1. \A d \in Calls : call'[d].at # "idle" => call'[d].gen \in Gens
      BY <2>2, <2>3, <1>2, <1>4 DEF Tree
    <3>2. \A d \in Calls : MadeBy(d)'
      BY <2>4 DEF MadeBy
    <3> QED BY <3>1, <3>2 DEF Tree
  <2> QED BY <2>2, <2>3, <2>5, <1>2 DEF OthersStay, GoesOn
<1>6. ASSUME source \in Gens, NEW new \in Calls, call[new].at = "idle", new # c,
             call' = [call EXCEPT ![c].at = at, ![c].on = source,
                                  ![new] = Activation(op, source, c, has)]
      PROVE  /\ call' \in [Calls -> CallType] /\ Tree' /\ OthersStay(c)
             /\ GoesOn(c, at) /\ call'[c].on = source
  <2> DEFINE made == Activation(op, source, c, has)
  <2>1. call' = [call EXCEPT ![c] = asking, ![new] = made]
    BY <1>6
  <2>2. /\ made \in CallType /\ made.at = "begin" /\ made.gen = source /\ made.by = c
        /\ made.op = op
    BY <1>6 DEF Activation, CallType
  <2>3. call' \in [Calls -> CallType] /\ call'[c] = asking /\ call'[new] = made
    BY <2>1, <2>2, <1>1, <1>2, <1>6
  <2>4. \A d \in Calls \ {c, new} : call'[d] = call[d]
    BY <2>1, <1>1
  <2>5. \A d \in Calls : call[d].by # new
    BY <1>6 DEF Tree, MadeBy, Waiting
  <2>6. MadeBy(new)'
    <3>1. \A e \in Calls : call'[e].by = c => e = new
      BY <2>3, <2>4, <1>2, <1>3
    <3>2. /\ call'[new].by = c /\ call'[new].at = "begin" /\ call'[new].gen = source
          /\ call'[new].op = op
      BY <2>2, <2>3
    <3>3. call'[c].at = at /\ call'[c].on = source
      BY <2>3, <1>2
    <3> HIDE DEF made, asking
    <3> QED BY <3>1, <3>2, <3>3, <1>6 DEF MadeBy
  <2>7. ASSUME NEW d \in Calls \ {new}, call'[d].by # Nobody PROVE MadeBy(d)'
    <3>1. call[d].by = call'[d].by /\ call'[d].op = call[d].op /\ call'[d].gen = call[d].gen
      BY <2>3, <2>4, <1>2
    <3>2. MadeBy(d) /\ call[d].by \in Calls /\ call[d].by # c /\ call[d].by # new
      BY <3>1, <2>7, <1>1, <1>3, <2>5 DEF Tree, CallType
    <3>3. call'[call[d].by] = call[call[d].by]
      BY <3>2, <2>4
    <3>4. call'[d].at # "idle"
      BY <2>3, <2>4, <1>2, <3>1, <3>2, <2>7 DEF MadeBy, Waiting
    <3>5. \A e \in Calls : call'[e].by = call[d].by => call[e].by = call[d].by
      BY <2>2, <2>3, <2>4, <1>2, <3>2
    <3> QED BY <3>1, <3>2, <3>3, <3>4, <3>5, <2>7 DEF MadeBy
  <2>8. \A d \in Calls : call'[d].at # "idle" => call'[d].gen \in Gens
    BY <2>2, <2>3, <2>4, <1>2, <1>4, <1>6 DEF Tree
  <2>9. Tree'
    <3>1. \A d \in Calls : MadeBy(d)'
      BY <2>6, <2>7 DEF MadeBy
    <3> QED BY <2>8, <3>1 DEF Tree
  <2> QED BY <2>2, <2>3, <2>4, <2>9, <1>2, <1>6 DEF OthersStay, GoesOn
<1> QED BY <1>5, <1>6 DEF Ask

-----------------------------------------------------------------------------
(* What a step inside a generator does to the generators.                  *)

\* A label only moves the way GeneratorProtocol's status does.
LabelMoves(g) == \/ resume_label'[g] = resume_label[g]
                 \/ resume_label'[g] = "terminated"
                 \/ resume_label'[g] = "yield" /\ resume_label[g] # "terminated"

\* Call c, inside its generator before and after, moves and may change it.
MovesInside(c, at) ==
  /\ call[c].at \in Within /\ at \in Within
  /\ GenTypeOK' /\ Tree' /\ OthersStay(c) /\ GoesOn(c, at)
  /\ is_running' = is_running
  /\ \A g \in Gens \ {call[c].gen} : /\ resume_label'[g] = resume_label[g]
                                     /\ yieldfrom'[g] = yieldfrom[g]
  /\ LabelMoves(call[c].gen)
  /\ Alive(c)' /\ Closed(c)' /\ Held(c)' /\ Suspends(call[c].gen)'

\* The step keeps the invariant and is a step of GeneratorProtocol or a stutter.
Advances == IInv' /\ [Protocol!Next]_<<ownerOf, statusOf>>

LEMMA InsideStays ==
  ASSUME NEW c \in Calls, NEW at, MovesInside(c, at), NEW g \in Gens
  PROVE  Inside(g)' = Inside(g)
BY DEF MovesInside, OthersStay, GoesOn, Inside, Within, Waiting

LEMMA GenOfCall ==
  ASSUME IInv, NEW c \in Calls, call[c].at \in Within
  PROVE  call[c].gen \in Gens /\ c \in Inside(call[c].gen)
BY DEF IInv, Tree, Within, Waiting, Inside

LEMMA InsideKeepsIInv ==
  ASSUME IInv, NEW c \in Calls, NEW at, MovesInside(c, at)
  PROVE  IInv'
<1> DEFINE g == call[c].gen
<1>1. g \in Gens /\ c \in Inside(g)
  BY GenOfCall DEF MovesInside
<1>2. RunningIsOneCall'
  BY InsideStays DEF IInv, RunningIsOneCall, MovesInside
<1>3. ASSUME NEW d \in Calls PROVE (Alive(d) /\ Closed(d) /\ Held(d))'
  <2>1. CASE d = c
    BY <2>1 DEF MovesInside
  <2>2. CASE d # c /\ call'[d] # call[d]
    BY <2>2 DEF MovesInside, OthersStay, Alive, Closed, Held
  <2>3. CASE d # c /\ call'[d] = call[d]
    <3>1. Alive(d) /\ Closed(d) /\ Held(d)
      BY DEF IInv
    <3>2. CASE call[d].at \in Within
      <4>1. call[d].gen \in Gens /\ d \in Inside(call[d].gen)
        BY <3>2, GenOfCall
      <4>2. call[d].gen # g
        BY <4>1, <1>1, <2>3 DEF IInv, RunningIsOneCall
      <4>3. resume_label'[call[d].gen] = resume_label[call[d].gen]
            /\ yieldfrom'[call[d].gen] = yieldfrom[call[d].gen]
        BY <4>1, <4>2 DEF MovesInside
      <4> QED BY <4>3, <3>1, <2>3 DEF Alive, Closed, Held
    <3>3. CASE call[d].at \notin Within /\ call[d].at # "idle"
      <4>1. call[d].gen \in Gens
        BY <3>3 DEF IInv, Tree
      <4>2. resume_label[call[d].gen] = "terminated"
            => resume_label'[call[d].gen] = "terminated"
        BY <4>1 DEF MovesInside, LabelMoves
      <4> QED BY <4>2, <3>1, <3>3, <2>3 DEF Alive, Closed, Held, Within, Waiting
    <3>4. CASE call[d].at = "idle"
      BY <3>4, <2>3 DEF Alive, Closed, Held
    <3> QED BY <3>2, <3>3, <3>4
  <2> QED BY <2>1, <2>2, <2>3
<1>4. ASSUME NEW h \in Gens PROVE Suspends(h)'
  <2>1. CASE h = g
    BY <2>1 DEF MovesInside, GoesOn
  <2>2. CASE h # g
    BY <2>2 DEF MovesInside, IInv, Suspends
  <2> QED BY <2>1, <2>2
<1> QED BY <1>2, <1>3, <1>4 DEF IInv, MovesInside

LEMMA InsideMaps ==
  ASSUME IInv, NEW c \in Calls, NEW at, MovesInside(c, at)
  PROVE  [Protocol!Next]_<<ownerOf, statusOf>>
<1> DEFINE g == call[c].gen
<1>1. g \in Gens /\ c \in Inside(g)
  BY GenOfCall DEF MovesInside
<1>2. ownerOf' = ownerOf
  <2>1. \A h \in Gens : OneOf(Inside(h))' = OneOf(Inside(h))
    BY InsideStays
  <2> QED BY <2>1 DEF ownerOf
<1>3. resume_label \in [Gens -> Labels] /\ resume_label' \in [Gens -> Labels]
  BY DEF MovesInside, IInv, GenTypeOK
<1>4. \A h \in Gens \ {g} : statusOf'[h] = statusOf[h]
  BY DEF statusOf, MovesInside
<1>5. statusOf' = [statusOf EXCEPT ![g] = statusOf'[g]]
  BY <1>1, <1>4 DEF statusOf
<1>6. statusOf'[g] = statusOf[g] \/ statusOf'[g] \in Protocol!After(statusOf[g])
  BY <1>1, <1>3 DEF MovesInside, LabelMoves, statusOf, Protocol!After, Protocol!Status, Labels
<1>7. CASE statusOf'[g] = statusOf[g]
  BY <1>1, <1>2, <1>5, <1>7 DEF statusOf
<1>8. CASE statusOf'[g] \in Protocol!After(statusOf[g])
  <2>1. ownerOf[g] \in Inside(g) /\ ownerOf[g] # Nobody
    BY <1>1 DEF ownerOf, Inside, OneOf
  <2>2. Protocol!Move(g, statusOf'[g])
    BY <1>2, <1>5, <1>8, <2>1 DEF Protocol!Move
  <2>3. statusOf'[g] \in Protocol!Status
    BY <1>8 DEF Protocol!After, Protocol!Status
  <2> QED BY <2>2, <2>3, <1>1 DEF Protocol!Next
<1> QED BY <1>6, <1>7, <1>8

LEMMA InsideAdvances ==
  ASSUME IInv, NEW c \in Calls, NEW at, MovesInside(c, at)
  PROVE  Advances
BY InsideKeepsIInv, InsideMaps DEF Advances

\* The call proceeds and leaves its generator with a label and a delegate.
LeavesWith(c, at, has, label, from) ==
  /\ label \in Labels /\ from \in Delegates \cup {Nobody}
  /\ call[c].at \in Within /\ at \in Within \ Waiting /\ has \in Things
  /\ call[c].at \in Waiting => Answers(c) # {}
  /\ Proceed(c, at, has) /\ UNCHANGED <<coroutines, is_running>>
  /\ resume_label' = [resume_label EXCEPT ![call[c].gen] = label]
  /\ yieldfrom' = [yieldfrom EXCEPT ![call[c].gen] = from]
  /\ \/ label = resume_label[call[c].gen] \/ label = "terminated"
     \/ label = "yield" /\ resume_label[call[c].gen] # "terminated"
  /\ from # Nobody => label = "yield"
  /\ at = "body" => label # "terminated"
  /\ at = "leave" /\ call[c].op = "close" /\ CloseAnswer(has) = "None"
       => label = "terminated"

LEMMA ProceedAdvances ==
  ASSUME IInv, NEW c \in Calls, NEW at, NEW has, NEW label, NEW from,
         LeavesWith(c, at, has, label, from)
  PROVE  Advances
<1> USE DEF LeavesWith
<1>0. GenTypeOK /\ Tree
  BY DEF IInv
<1>1. call[c].gen \in Gens
  BY GenOfCall
<1>2. /\ call' \in [Calls -> CallType] /\ Tree' /\ OthersStay(c)
      /\ GoesOn(c, at) /\ call'[c].has = has
  BY <1>0, ProceedCall
<1>3. resume_label'[call[c].gen] = label /\ yieldfrom'[call[c].gen] = from
  BY <1>0, <1>1 DEF GenTypeOK
<1>4. GenTypeOK'
  BY <1>0, <1>2 DEF GenTypeOK
<1>5. \A g \in Gens \ {call[c].gen} : /\ resume_label'[g] = resume_label[g]
                                     /\ yieldfrom'[g] = yieldfrom[g]
  BY <1>0 DEF GenTypeOK
<1>6. LabelMoves(call[c].gen)
  BY <1>3 DEF LabelMoves
<1>7. Alive(c)' /\ Held(c)' /\ Suspends(call[c].gen)'
  BY <1>2, <1>3 DEF GoesOn, Alive, Held, Suspends, Waiting
<1>8. Closed(c)'
  BY <1>2, <1>3 DEF GoesOn, Closed, Within, Waiting
<1>9. MovesInside(c, at)
  BY <1>2, <1>4, <1>5, <1>6, <1>7, <1>8 DEF MovesInside
<1> QED BY <1>9, InsideAdvances

\* The call proceeds and its generator stays as it is.
Quietly(c, at, has) ==
  /\ call[c].at \in Within /\ at \in Within \ Waiting /\ has \in Things
  /\ call[c].at \in Waiting => Answers(c) # {}
  /\ Proceed(c, at, has)
  /\ UNCHANGED <<coroutines, is_running, resume_label, yieldfrom>>
  /\ at = "body" => resume_label[call[c].gen] # "terminated"
  /\ at = "leave" /\ call[c].op = "close" /\ CloseAnswer(has) = "None"
       => resume_label[call[c].gen] = "terminated"

LEMMA ProceedQuietly ==
  ASSUME IInv, NEW c \in Calls, NEW at, NEW has, Quietly(c, at, has)
  PROVE  Advances
<1> USE DEF Quietly
<1>1. call[c].gen \in Gens /\ Suspends(call[c].gen)
  BY GenOfCall DEF IInv
<1>2. /\ resume_label[call[c].gen] \in Labels
      /\ yieldfrom[call[c].gen] \in Delegates \cup {Nobody}
      /\ resume_label' = [resume_label EXCEPT ![call[c].gen] = resume_label[call[c].gen]]
      /\ yieldfrom' = [yieldfrom EXCEPT ![call[c].gen] = yieldfrom[call[c].gen]]
  BY <1>1 DEF IInv, GenTypeOK
<1>3. LeavesWith(c, at, has, resume_label[call[c].gen], yieldfrom[call[c].gen])
  BY <1>1, <1>2 DEF LeavesWith, Suspends
<1> QED BY <1>3, ProceedAdvances

\* The call goes on to its body after its generator let go of the delegate.
LEMMA ProceedUndelegated ==
  ASSUME IInv, NEW c \in Calls, NEW has \in Things, call[c].at \in Within,
         call[c].at \in Waiting => Answers(c) # {},
         Proceed(c, "resume", has),
         UNCHANGED <<coroutines, is_running, resume_label>>,
         yieldfrom' = Undelegated(call[c].gen)
  PROVE  Advances
<1>1. call[c].gen \in Gens
  BY GenOfCall
<1>2. /\ resume_label[call[c].gen] \in Labels
      /\ resume_label' = [resume_label EXCEPT ![call[c].gen] = resume_label[call[c].gen]]
  BY <1>1 DEF IInv, GenTypeOK
<1>3. yieldfrom' = [yieldfrom EXCEPT ![call[c].gen] = Nobody]
  BY DEF Undelegated
<1>4. "resume" \in Within \ Waiting
  BY DEF Within, Waiting
<1>5. LeavesWith(c, "resume", has, resume_label[call[c].gen], Nobody)
  BY <1>2, <1>3, <1>4 DEF LeavesWith
<1> QED BY <1>5, ProceedAdvances

\* The call asks a delegate and its generator stays as it is.
LEMMA AskAdvances ==
  ASSUME IInv, NEW c \in Calls, NEW at, NEW op, NEW source, NEW has,
         call[c].at \in {"entered", "body"}, at \in Waiting,
         op \in {"send", "throw", "close"}, source \in Delegates, has \in Things,
         at = "closing" => op = "close",
         Ask(c, at, op, source, has),
         UNCHANGED <<coroutines, is_running, resume_label, yieldfrom>>,
         at = "starting" => call[c].at = "body",
         at # "starting" => source = yieldfrom[call[c].gen]
  PROVE  Advances
<1>0. GenTypeOK /\ Tree /\ Alive(c) /\ call[c].at \in Within /\ at \in Within
  BY DEF IInv, Within
<1>1. call[c].gen \in Gens /\ Suspends(call[c].gen)
  BY <1>0, GenOfCall DEF IInv
<1>2. /\ call' \in [Calls -> CallType] /\ Tree' /\ OthersStay(c)
      /\ GoesOn(c, at) /\ call'[c].on = source
  BY <1>0, AskCall
<1>3. GenTypeOK'
  BY <1>0, <1>2 DEF GenTypeOK
<1>4. Alive(c)' /\ Held(c)' /\ Suspends(call[c].gen)' /\ Closed(c)'
  BY <1>0, <1>1, <1>2 DEF GoesOn, Alive, Held, Suspends, Closed, Waiting
<1>5. MovesInside(c, at)
  BY <1>0, <1>2, <1>3, <1>4 DEF MovesInside, LabelMoves
<1> QED BY <1>5, InsideAdvances

LEMMA AnswersAreThings == ASSUME IInv, NEW c \in Calls PROVE Answers(c) \subseteq Things
BY DEF IInv, GenTypeOK, CallType, Answers

LEMMA ThingsSent ==
  ASSUME IInv, NEW c \in Calls
  PROVE  /\ call[c].has \in Things /\ call[c].op \in {"send", "throw", "close"}
         /\ call[c].on \in Delegates \cup {Nobody}
         /\ {"None", "value", "yielded", "error", "StopIteration", "GeneratorExit"} = Things
BY DEF IInv, GenTypeOK, CallType, Things, Values, Exceptions

\* Every step of a call that is inside its generator and stays there.
LEMMA WithinAdvances ==
  ASSUME IInv, NEW c \in Calls,
         \/ EnterBody(c) \/ PassOn(c) \/ CloseIter(c) \/ ThrowHere(c) \/ NoThrowMethod(c)
         \/ DelegateYields(c) \/ DelegateEnds(c) \/ DelegateCloses(c)
         \/ ResumeTerminated(c) \/ FirstRunFails(c) \/ Resume(c) \/ BodyYields(c)
         \/ \E value \in Values : BodyReturns(c, value)
         \/ \E exception \in Exceptions : BodyRaises(c, exception)
         \/ \E source \in Delegates : BodyDelegates(c, source) \/ BodyAwaitsAwaited(c, source)
         \/ SourceYields(c) \/ SourceEnds(c)
  PROVE  Advances
<1> DEFINE g == call[c].gen
<1>0. /\ call[c].has \in Things /\ call[c].op \in {"send", "throw", "close"}
      /\ call[c].on \in Delegates \cup {Nobody}
      /\ {"None", "value", "yielded", "error", "StopIteration", "GeneratorExit"} = Things
  BY ThingsSent
<1>1. Waiting \subseteq Within /\ {"entered", "resume", "body", "leave"} = Within \ Waiting
  BY DEF Within, Waiting
<1>2. Answers(c) \subseteq Things
  BY AnswersAreThings
<1>3. call[c].at \in Within =>
        /\ g \in Gens /\ Suspends(g)
        /\ resume_label[g] \in Labels
        /\ yieldfrom[g] \in Delegates \cup {Nobody}
        /\ resume_label = [resume_label EXCEPT ![g] = resume_label[g]]
        /\ yieldfrom = [yieldfrom EXCEPT ![g] = yieldfrom[g]]
  BY GenOfCall DEF IInv, GenTypeOK
<1>4. call[c].at \in {"body", "starting"} => resume_label[g] # "terminated"
  BY DEF IInv, Alive
<1>5. CloseAnswer("yielded") = "error" /\ CloseAnswer("error") = "error"
  BY DEF CloseAnswer
<1>6. "yield" \in Labels /\ "terminated" \in Labels /\ "first" # "terminated"
  BY DEF Labels
<1> HIDE DEF g
<1>7. ASSUME call[c].at \in Within \ Waiting, NEW has \in Things, Terminate(c, has)
      PROVE  Advances
  <2>1. /\ Proceed(c, "leave", has) /\ UNCHANGED <<coroutines, is_running>>
        /\ resume_label' = [resume_label EXCEPT ![call[c].gen] = "terminated"]
        /\ yieldfrom' = [yieldfrom EXCEPT ![call[c].gen] = Nobody]
    BY <1>7 DEF Terminate, Undelegated
  <2>2. LeavesWith(c, "leave", has, "terminated", Nobody)
    BY <2>1, <1>1, <1>6, <1>7 DEF LeavesWith
  <2> QED BY <2>2, ProceedAdvances
<1>11. CASE EnterBody(c)
  <2>1. Quietly(c, "resume", call[c].has)
    BY <1>11, <1>0, <1>1 DEF EnterBody, Quietly
  <2> QED BY <2>1, ProceedQuietly
<1>12. CASE PassOn(c)
  BY <1>12, <1>0, <1>1, <1>3, AskAdvances DEF PassOn, g, Waiting
<1>13. CASE CloseIter(c)
  BY <1>13, <1>0, <1>1, <1>3, AskAdvances DEF CloseIter, g, Waiting
<1>14. CASE ThrowHere(c)
  BY <1>14, <1>0, <1>1, ProceedUndelegated DEF ThrowHere, Waiting
<1>15. CASE NoThrowMethod(c)
  <2>1. Quietly(c, "leave", "error")
    BY <1>15, <1>0, <1>1, <1>5 DEF NoThrowMethod, Quietly
  <2> QED BY <2>1, ProceedQuietly
<1>16. CASE DelegateYields(c)
  <2>1. Quietly(c, "leave", "yielded")
    BY <1>16, <1>0, <1>1, <1>5 DEF DelegateYields, Waiting, Quietly
  <2> QED BY <2>1, ProceedQuietly
<1>17. CASE DelegateEnds(c)
  <2>1. PICK answer \in Answers(c) \ {"yielded"} : Proceed(c, "resume", FromDelegate(c, answer))
    BY <1>17 DEF DelegateEnds
  <2>2. FromDelegate(c, answer) \in Things
    BY <1>0, <1>2 DEF FromDelegate
  <2>3. /\ call[c].at \in Within
        /\ UNCHANGED <<coroutines, is_running, resume_label>>
        /\ yieldfrom' = Undelegated(call[c].gen)
    BY <1>17, <1>1 DEF DelegateEnds, Waiting
  <2> QED BY <2>1, <2>2, <2>3, ProceedUndelegated
<1>18. CASE DelegateCloses(c)
  <2>1. PICK answer \in Answers(c) : Proceed(c, "resume", SentAfterClose(c, answer))
    BY <1>18 DEF DelegateCloses
  <2>2. SentAfterClose(c, answer) \in Things
    BY <1>0, <1>2 DEF SentAfterClose
  <2>3. /\ call[c].at \in Within
        /\ UNCHANGED <<coroutines, is_running, resume_label>>
        /\ yieldfrom' = Undelegated(call[c].gen)
    BY <1>18, <1>1 DEF DelegateCloses, Waiting
  <2> QED BY <2>1, <2>2, <2>3, ProceedUndelegated
<1>19. CASE ResumeTerminated(c)
  <2>1. Exhausted(c) \in Things
    BY <1>0 DEF Exhausted
  <2>2. call[c].at = "resume" /\ resume_label[call[c].gen] = "terminated"
        /\ Proceed(c, "leave", Exhausted(c))
        /\ UNCHANGED <<coroutines, is_running, resume_label, yieldfrom>>
    BY <1>19 DEF ResumeTerminated
  <2>3. Quietly(c, "leave", Exhausted(c))
    BY <2>1, <2>2, <1>1 DEF Quietly
  <2> QED BY <2>3, ProceedQuietly
<1>20. CASE FirstRunFails(c)
  BY <1>20, <1>0, <1>1, <1>7 DEF FirstRunFails
<1>21. CASE Resume(c)
  <2>1. Quietly(c, "body", call[c].has)
    BY <1>21, <1>0, <1>1, <1>6 DEF Resume, Quietly
  <2> QED BY <2>1, ProceedQuietly
<1>22. CASE BodyYields(c)
  <2>1. /\ call[c].at = "body" /\ Proceed(c, "leave", "yielded")
        /\ UNCHANGED <<coroutines, is_running>>
        /\ resume_label' = [resume_label EXCEPT ![call[c].gen] = "yield"]
        /\ yieldfrom' = [yieldfrom EXCEPT ![call[c].gen] = yieldfrom[g]]
    BY <1>22, <1>1, <1>3 DEF BodyYields, g
  <2>2. "yielded" \in Things /\ resume_label[call[c].gen] # "terminated"
    BY <2>1, <1>0, <1>4 DEF g
  <2>3. g = call[c].gen /\ yieldfrom[g] \in Delegates \cup {Nobody} /\ "leave" \in Within \ Waiting
    BY <2>1, <1>1, <1>3 DEF g
  <2>4. LeavesWith(c, "leave", "yielded", "yield", yieldfrom[g])
    BY <2>1, <2>2, <2>3, <1>1, <1>5, <1>6 DEF LeavesWith
  <2> QED BY <2>4, ProceedAdvances
<1>23. CASE \E value \in Values : BodyReturns(c, value)
  BY <1>23, <1>1, <1>7 DEF BodyReturns, Things
<1>24. CASE \E exception \in Exceptions : BodyRaises(c, exception)
  BY <1>24, <1>0, <1>1, <1>7 DEF BodyRaises, Things
<1>25. ASSUME NEW source \in Delegates, BodyDelegates(c, source) PROVE Advances
  BY <1>25, <1>0, AskAdvances DEF BodyDelegates, Waiting
<1>26. ASSUME NEW source \in Delegates, BodyAwaitsAwaited(c, source) PROVE Advances
  <2>1. Quietly(c, "body", "error")
    BY <1>26, <1>0, <1>1, <1>4 DEF BodyAwaitsAwaited, g, Quietly
  <2> QED BY <2>1, ProceedQuietly
<1>27. CASE SourceYields(c)
  <2>1. /\ call[c].at = "starting" /\ "yielded" \in Answers(c)
        /\ Proceed(c, "leave", "yielded")
        /\ UNCHANGED <<coroutines, is_running>>
        /\ resume_label' = [resume_label EXCEPT ![call[c].gen] = "yield"]
        /\ yieldfrom' = [yieldfrom EXCEPT ![call[c].gen] = call[c].on]
    BY <1>27 DEF SourceYields
  <2>2. "yielded" \in Things /\ resume_label[call[c].gen] # "terminated"
        /\ "starting" \in Within
    BY <2>1, <1>0, <1>1, <1>4 DEF g, Waiting
  <2>3. "leave" \in Within \ Waiting /\ Answers(c) # {} /\ call[c].at \in Within
    BY <2>1, <2>2, <1>1
  <2>4. LeavesWith(c, "leave", "yielded", "yield", call[c].on)
    BY <2>1, <2>2, <2>3, <1>0, <1>5, <1>6 DEF LeavesWith
  <2> QED BY <2>4, ProceedAdvances
<1>28. CASE SourceEnds(c)
  <2>1. PICK answer \in Answers(c) \ {"yielded"} :
          Proceed(c, "body", IF answer = "StopIteration" THEN "None" ELSE answer)
    BY <1>28 DEF SourceEnds
  <2>2. (IF answer = "StopIteration" THEN "None" ELSE answer) \in Things
    BY <1>0, <1>2
  <2>3. call[c].at = "starting" /\ call[c].at \in Within
        /\ resume_label[call[c].gen] # "terminated"
        /\ UNCHANGED <<coroutines, is_running, resume_label, yieldfrom>>
    BY <1>28, <1>1, <1>4 DEF SourceEnds, g, Waiting
  <2>4. Quietly(c, "body", IF answer = "StopIteration" THEN "None" ELSE answer)
    BY <2>1, <2>2, <2>3, <1>1 DEF Quietly
  <2> QED BY <2>4, ProceedQuietly
<1> QED
  BY <1>11, <1>12, <1>13, <1>14, <1>15, <1>16, <1>17, <1>18, <1>19, <1>20, <1>21, <1>22,
     <1>23, <1>24, <1>25, <1>26, <1>27, <1>28

-----------------------------------------------------------------------------
(* The steps that enter and leave.                                         *)

LEMMA UntouchedAdvances ==
  ASSUME IInv, UNCHANGED <<coroutines, is_running, resume_label, yieldfrom>>,
         call' \in [Calls -> CallType], Tree',
         \A d \in Calls : \/ call'[d] = call[d]
                          \/ /\ call[d].at \notin Within /\ call'[d].at \notin Within
                             /\ Closed(d)'
  PROVE  Advances
<1>1. GenTypeOK'
  BY DEF IInv, GenTypeOK
<1>2. \A g \in Gens : Inside(g)' = Inside(g)
  BY DEF Inside
<1>3. RunningIsOneCall'
  BY <1>2 DEF IInv, RunningIsOneCall
<1>4. \A g \in Gens : Suspends(g)'
  BY DEF IInv, Suspends
<1>5. ASSUME NEW d \in Calls PROVE (Alive(d) /\ Closed(d) /\ Held(d))'
  <2>1. CASE call'[d] = call[d]
    BY <2>1 DEF IInv, Alive, Closed, Held
  <2>2. CASE call'[d].at \notin Within /\ Closed(d)'
    BY <2>2 DEF Alive, Held, Within, Waiting
  <2> QED BY <2>1, <2>2
<1>6. \A g \in Gens : OneOf(Inside(g))' = OneOf(Inside(g))
  BY <1>2
<1>7. ownerOf' = ownerOf
  BY <1>6 DEF ownerOf
<1>8. statusOf' = statusOf
  BY DEF statusOf
<1> QED BY <1>1, <1>3, <1>4, <1>5, <1>7, <1>8 DEF IInv, Advances

LEMMA BeginAdvances ==
  ASSUME IInv, NEW c \in Calls, NEW op \in {"send", "throw", "close"}, NEW g \in Gens,
         NEW has \in Things, BeginCall(c, op, g, has)
  PROVE  Advances
<1> DEFINE new == Activation(op, g, Nobody, has)
<1>1. call \in [Calls -> CallType] /\ call[c].at = "idle" /\ call' = [call EXCEPT ![c] = new]
  BY DEF BeginCall, IInv, GenTypeOK
<1>2. new \in CallType /\ new.at = "begin" /\ new.gen = g /\ new.by = Nobody
  BY DEF Activation, CallType
<1>3. /\ call' \in [Calls -> CallType] /\ call'[c] = new
      /\ \A d \in Calls \ {c} : call'[d] = call[d]
  BY <1>1, <1>2
<1>4. \A d \in Calls : call[d].by # c
  BY <1>1 DEF IInv, Tree, MadeBy, Waiting
<1> HIDE DEF new
<1>5. ASSUME NEW d \in Calls, call'[d].by # Nobody PROVE MadeBy(d)'
  <2>1. d # c /\ call'[d] = call[d]
    BY <1>2, <1>3, <1>5
  <2>2. MadeBy(d) /\ call[d].by \in Calls /\ call[d].by # c
    BY <1>1, <1>4, <1>5, <2>1 DEF IInv, Tree, CallType
  <2>3. call'[call[d].by] = call[call[d].by]
    BY <1>3, <2>2
  <2>4. \A e \in Calls : call'[e].by = call[d].by => call[e].by = call[d].by
    BY <1>2, <1>3, <1>5, <2>1
  <2> QED BY <2>1, <2>2, <2>3, <2>4, <1>5 DEF MadeBy
<1>6. Tree'
  <2>1. \A d \in Calls : call'[d].at # "idle" => call'[d].gen \in Gens
    BY <1>2, <1>3 DEF IInv, Tree
  <2>2. \A d \in Calls : MadeBy(d)'
    BY <1>5 DEF MadeBy
  <2> QED BY <2>1, <2>2 DEF Tree
<1>7. Closed(c)' /\ call'[c].at \notin Within /\ call[c].at \notin Within
  BY <1>1, <1>2, <1>3 DEF Closed, Within, Waiting
<1> QED BY <1>3, <1>6, <1>7, UntouchedAdvances DEF BeginCall

LEMMA EndAdvances ==
  ASSUME IInv, NEW c \in Calls, EndCall(c)
  PROVE  Advances
<1>1. /\ call \in [Calls -> CallType] /\ call[c].at = "answered"
      /\ call' = [call EXCEPT ![c] = Idle]
  BY DEF EndCall, IInv, GenTypeOK
<1>2. Idle \in CallType /\ Idle.at = "idle" /\ Idle.by = Nobody
  BY IdleType DEF Idle
<1>3. /\ call' \in [Calls -> CallType] /\ call'[c] = Idle
      /\ \A d \in Calls \ {c} : call'[d] = call[d]
  BY <1>1, <1>2
<1>4. \A d \in Calls : call[d].by # c
  BY <1>1 DEF IInv, Tree, MadeBy, Waiting
<1>5. ASSUME NEW d \in Calls, call'[d].by # Nobody PROVE MadeBy(d)'
  <2>1. d # c /\ call'[d] = call[d]
    BY <1>2, <1>3, <1>5
  <2>2. MadeBy(d) /\ call[d].by \in Calls /\ call[d].by # c
    BY <1>1, <1>4, <1>5, <2>1 DEF IInv, Tree, CallType
  <2>3. call'[call[d].by] = call[call[d].by]
    BY <1>3, <2>2
  <2>4. \A e \in Calls : call'[e].by = call[d].by => call[e].by = call[d].by
    BY <1>2, <1>3, <1>5, <2>1
  <2> QED BY <2>1, <2>2, <2>3, <2>4, <1>5 DEF MadeBy
<1>6. Tree'
  <2>1. \A d \in Calls : call'[d].at # "idle" => call'[d].gen \in Gens
    BY <1>2, <1>3 DEF IInv, Tree
  <2>2. \A d \in Calls : MadeBy(d)'
    BY <1>5 DEF MadeBy
  <2> QED BY <2>1, <2>2 DEF Tree
<1>7. Closed(c)' /\ call'[c].at \notin Within /\ call[c].at \notin Within
  BY <1>1, <1>2, <1>3 DEF Closed, Within, Waiting
<1> QED BY <1>3, <1>6, <1>7, UntouchedAdvances DEF EndCall

\* The other calls, and what they rest on, when one call enters or leaves.
LEMMA OthersKeep ==
  ASSUME IInv, NEW c \in Calls, OthersStay(c), UNCHANGED <<resume_label, yieldfrom>>,
         NEW d \in Calls \ {c}
  PROVE  (Alive(d) /\ Closed(d) /\ Held(d))'
BY DEF IInv, OthersStay, Alive, Closed, Held

LEMMA OtherInside ==
  ASSUME NEW c \in Calls, NEW at, OthersStay(c), GoesOn(c, at),
         NEW g \in Gens, g # call[c].gen
  PROVE  Inside(g)' = Inside(g)
<1>1. \A d \in Calls : (/\ call'[d].gen = g /\ call'[d].at \in Within)
                     <=> (call[d].gen = g /\ call[d].at \in Within)
  BY DEF OthersStay, GoesOn, Within, Waiting
<1> QED BY <1>1 DEF Inside

LEMMA EnterAdvances ==
  ASSUME IInv, NEW c \in Calls, Enter(c)
  PROVE  Advances
<1>g. PICK g \in Gens : g = call[c].gen
  BY DEF IInv, Tree, Enter
<1>0. GenTypeOK /\ Tree /\ call[c].at = "begin" /\ g = call[c].gen
  BY <1>g DEF IInv, Enter
<1>1. call[c].has \in Things /\ "error" \in Things /\ call[c].at \notin Waiting
  BY <1>0, ThingsSent DEF Waiting
<1>2. CASE is_running[g]
  <2>1. Proceed(c, "answered", "error")
    BY <1>0, <1>2 DEF Enter
  <2>2. /\ call' \in [Calls -> CallType] /\ Tree' /\ OthersStay(c)
        /\ GoesOn(c, "answered") /\ call'[c].has = "error"
    BY <2>1, <1>0, <1>1, ProceedCall
  <2>3. is_running' = is_running
    BY <1>0, <1>2 DEF Enter, GenTypeOK
  <2>4. Closed(c)' /\ call'[c].at \notin Within /\ call[c].at \notin Within
    BY <2>2, <1>0 DEF GoesOn, Closed, Within, Waiting
  <2>5. \A d \in Calls \ {c} : \/ call'[d] = call[d]
                                \/ /\ call[d].at \notin Within /\ call'[d].at \notin Within
                                   /\ Closed(d)'
    <3>1. UNCHANGED <<resume_label, yieldfrom>>
      BY DEF Enter
    <3>2. \A d \in Calls \ {c} : Closed(d)'
      BY <2>2, <3>1, OthersKeep
    <3> QED BY <2>2, <3>2 DEF OthersStay, Within, Waiting
  <2> QED BY <2>2, <2>3, <2>4, <2>5, UntouchedAdvances DEF Enter
<1>3. CASE ~is_running[g]
  <2>1. Proceed(c, "entered", call[c].has) /\ "entered" \in Within \ Waiting
    BY <1>0, <1>3 DEF Enter, Within, Waiting
  <2>2. /\ call' \in [Calls -> CallType] /\ Tree' /\ OthersStay(c)
        /\ GoesOn(c, "entered")
    BY <2>1, <1>0, <1>1, ProceedCall
  <2>3. is_running' = [is_running EXCEPT ![g] = TRUE]
        /\ UNCHANGED <<coroutines, resume_label, yieldfrom>>
    BY <1>0, <1>3 DEF Enter
  <2>4. GenTypeOK'
    BY <2>2, <2>3, <1>0 DEF GenTypeOK
  <2>5. Inside(g) = {}
    BY <1>0, <1>3 DEF IInv, RunningIsOneCall
  <2>6. Inside(g)' = {c}
    <3>1. call'[c].gen = g /\ call'[c].at \in Within
      BY <2>1, <2>2, <1>0 DEF GoesOn
    <3>2. \A d \in Calls \ {c} : ~(call'[d].gen = g /\ call'[d].at \in Within)
      BY <2>2, <2>5 DEF Inside, OthersStay, Within, Waiting
    <3> QED BY <3>1, <3>2 DEF Inside
  <2>7. \A h \in Gens \ {g} : Inside(h)' = Inside(h)
    BY <2>2, <1>0, OtherInside
  <2>8. RunningIsOneCall'
    <3>1. ASSUME NEW h \in Gens
          PROVE  (is_running'[h] <=> Inside(h)' # {}) /\ \A x, y \in Inside(h)' : x = y
      <4>1. CASE h = g
        BY <4>1, <2>3, <2>6, <1>0 DEF GenTypeOK
      <4>2. CASE h # g
        BY <4>2, <2>3, <2>7, <1>0 DEF IInv, RunningIsOneCall, GenTypeOK
      <4> QED BY <4>1, <4>2
    <3> QED BY <3>1 DEF RunningIsOneCall
  <2>9. (Alive(c) /\ Closed(c) /\ Held(c))'
    BY <2>2 DEF GoesOn, Alive, Closed, Held
  <2>10. IInv'
    BY <2>2, <2>3, <2>4, <2>8, <2>9, OthersKeep DEF IInv, Suspends
  <2>11. statusOf' = statusOf
    BY <2>3 DEF statusOf
  <2>12. ownerOf[g] = Nobody
    BY <1>0, <2>5 DEF ownerOf, OneOf
  <2>13. ownerOf' = [ownerOf EXCEPT ![g] = c]
    <3>1. OneOf(Inside(g)') = c
      BY <2>6 DEF OneOf
    <3>2. \A h \in Gens \ {g} : OneOf(Inside(h)') = OneOf(Inside(h))
      BY <2>7
    <3> QED BY <3>1, <3>2 DEF ownerOf
  <2>14. Protocol!Take(g, c)
    BY <2>11, <2>12, <2>13 DEF Protocol!Take
  <2> QED BY <2>10, <2>14, <1>0 DEF Advances, Protocol!Next
<1> QED BY <1>2, <1>3

LEMMA LeaveAdvances ==
  ASSUME IInv, NEW c \in Calls, Leave(c)
  PROVE  Advances
<1>g. PICK g \in Gens : g = call[c].gen
  BY GenOfCall DEF Leave, Within
<1> DEFINE has == IF call[c].op = "close" THEN CloseAnswer(call[c].has) ELSE call[c].has
<1>0. /\ GenTypeOK /\ Tree /\ call[c].at = "leave" /\ g = call[c].gen /\ c \in Inside(g)
      /\ Closed(c) /\ Suspends(g)
  BY <1>g, GenOfCall DEF IInv, Leave, Within
<1>1. /\ has \in Things /\ call[c].at \notin Waiting /\ call[c].at \in Within
      /\ call[c].op = "close" => has \in {"None", "error"}
  BY <1>0, ThingsSent DEF Waiting, Within, CloseAnswer
<1>2. /\ Proceed(c, "answered", has) /\ is_running' = [is_running EXCEPT ![g] = FALSE]
      /\ UNCHANGED <<coroutines, resume_label, yieldfrom>>
  BY <1>0 DEF Leave
<1>3. /\ call' \in [Calls -> CallType] /\ Tree' /\ OthersStay(c)
      /\ GoesOn(c, "answered") /\ call'[c].has = has
  BY <1>0, <1>1, <1>2, ProceedCall
<1>4. GenTypeOK'
  BY <1>0, <1>2, <1>3 DEF GenTypeOK
<1>5. Inside(g) = {c}
  BY <1>0 DEF IInv, RunningIsOneCall
<1>6. Inside(g)' = {}
  BY <1>5, <1>3 DEF Inside, OthersStay, GoesOn, Within, Waiting
<1>7. \A h \in Gens \ {g} : Inside(h)' = Inside(h)
  BY <1>3, <1>0, OtherInside
<1>8. RunningIsOneCall'
  <2>1. ASSUME NEW h \in Gens
        PROVE  (is_running'[h] <=> Inside(h)' # {}) /\ \A x, y \in Inside(h)' : x = y
    <3>1. CASE h = g
      BY <3>1, <1>2, <1>6, <1>0 DEF GenTypeOK
    <3>2. CASE h # g
      BY <3>2, <1>2, <1>7, <1>0 DEF IInv, RunningIsOneCall, GenTypeOK
    <3> QED BY <3>1, <3>2
  <2> QED BY <2>1 DEF RunningIsOneCall
<1>9. (Alive(c) /\ Closed(c) /\ Held(c))'
  BY <1>0, <1>1, <1>2, <1>3 DEF GoesOn, Alive, Closed, Held
<1>10. IInv'
  BY <1>2, <1>3, <1>4, <1>8, <1>9, OthersKeep DEF IInv, Suspends
<1>11. statusOf' = statusOf
  BY <1>2 DEF statusOf
<1>12. ownerOf[g] # Nobody
  BY <1>0, <1>5 DEF ownerOf, OneOf
<1>13. ownerOf' = [ownerOf EXCEPT ![g] = Nobody]
  <2>1. OneOf(Inside(g)') = Nobody
    BY <1>6 DEF OneOf
  <2>2. \A h \in Gens \ {g} : OneOf(Inside(h)') = OneOf(Inside(h))
    BY <1>7
  <2> QED BY <2>1, <2>2 DEF ownerOf
<1>14. Protocol!Give(g)
  BY <1>11, <1>12, <1>13 DEF Protocol!Give
<1> QED BY <1>10, <1>14, <1>0 DEF Advances, Protocol!Next

-----------------------------------------------------------------------------
LEMMA InitIInv == GenInit => IInv /\ Protocol!Init
<1> SUFFICES ASSUME GenInit PROVE IInv /\ Protocol!Init
  OBVIOUS
<1>1. \A c \in Calls : call[c] = Idle
  BY DEF GenInit
<1>2. Idle.at = "idle" /\ Idle.by = Nobody
  BY DEF Idle
<1>3. GenTypeOK
  BY IdleType DEF GenInit, GenTypeOK, Labels
<1>4. \A g \in Gens : Inside(g) = {}
  BY <1>1, <1>2 DEF Inside, Within, Waiting
<1>5. RunningIsOneCall
  BY <1>4 DEF RunningIsOneCall, GenInit
<1>6. Tree /\ \A c \in Calls : Alive(c) /\ Closed(c) /\ Held(c)
  BY <1>1, <1>2 DEF Tree, MadeBy, Alive, Closed, Held
<1>7. \A g \in Gens : Suspends(g)
  BY DEF GenInit, Suspends
<1>8. Protocol!Init
  <2>1. \A g \in Gens : OneOf(Inside(g)) = Nobody
    BY <1>4 DEF OneOf
  <2> QED BY <2>1 DEF Protocol!Init, ownerOf, statusOf, GenInit
<1> QED BY <1>3, <1>5, <1>6, <1>7, <1>8 DEF IInv

LEMMA NextAdvances == IInv /\ [GenNext]_genVars => Advances
<1> SUFFICES ASSUME IInv, [GenNext]_genVars PROVE Advances
  OBVIOUS
<1>1. CASE UNCHANGED genVars
  <2>1. Tree' /\ call' \in [Calls -> CallType]
    BY <1>1 DEF genVars, IInv, Tree, MadeBy, GenTypeOK
  <2> QED BY <1>1, <2>1, UntouchedAdvances DEF genVars
<1>2. ASSUME NEW c \in Calls, NEW op \in {"send", "throw", "close"}, NEW g \in Gens,
             NEW has \in Things, BeginCall(c, op, g, has)
      PROVE  Advances
  BY <1>2, BeginAdvances
<1>3. ASSUME NEW c \in Calls, Enter(c) PROVE Advances
  BY <1>3, EnterAdvances
<1>4. ASSUME NEW c \in Calls, Leave(c) PROVE Advances
  BY <1>4, LeaveAdvances
<1>5. ASSUME NEW c \in Calls, EndCall(c) PROVE Advances
  BY <1>5, EndAdvances
<1> QED BY <1>1, <1>2, <1>3, <1>4, <1>5, WithinAdvances DEF GenNext

LEMMA Inductive == GenSpec => []IInv
<1>1. GenInit => IInv
  BY InitIInv
<1>2. IInv /\ [GenNext]_genVars => IInv'
  BY NextAdvances DEF Advances
<1> QED BY <1>1, <1>2, PTL DEF GenSpec

-----------------------------------------------------------------------------
\* The fields of the generators and the activations keep their types.
THEOREM TypeCorrect == GenSpec => []GenTypeOK
<1>1. IInv => GenTypeOK
  BY DEF IInv
<1> QED BY <1>1, Inductive, PTL

\* is_running is set exactly while one call is between the test of it and its
\* release, however the calls interleave and however deep they delegate.
THEOREM OneCallRuns == GenSpec => []RunningIsOneCall
<1>1. IInv => RunningIsOneCall
  BY DEF IInv
<1> QED BY <1>1, Inductive, PTL

\* gen->yieldfrom cannot change while gen->is_running is set by the call that
\* asks it, and only a suspended generator has a delegate.
THEOREM DelegateStays == GenSpec => []DelegateIsHeld
<1>1. IInv => DelegateIsHeld
  BY DEF IInv, DelegateIsHeld, Held, Suspends
<1> QED BY <1>1, Inductive, PTL

\* close() returns without an exception only from a generator that is over.
THEOREM CloseIsFinal == GenSpec => []CloseFinishes
<1>1. IInv => CloseFinishes
  BY DEF IInv, CloseFinishes, Closed
<1> QED BY <1>1, Inductive, PTL

\* GeneratorExit reaches a body that delegates only after the generator it
\* delegates to has ended: what CloseIter got from the delegate says so.
THEOREM DelegatesCloseFirst == GenSpec => InnermostFirst
<1>1. ASSUME IInv, NEW c \in Calls, DelegateCloses(c), call[c].on \in Gens,
             call'[c].has = "GeneratorExit"
      PROVE  resume_label[call[c].on] = "terminated"
  <2>1. PICK answer \in Answers(c) : Proceed(c, "resume", SentAfterClose(c, answer))
    BY <1>1 DEF DelegateCloses
  <2>2. call'[c].has = SentAfterClose(c, answer)
    <3>1. call[c] \in CallType
      BY <1>1 DEF IInv, GenTypeOK
    <3>2. call'[c] = [call[c] EXCEPT !.at = "resume", !.on = Nobody,
                                     !.has = SentAfterClose(c, answer)]
      BY <2>1 DEF Proceed
    <3> QED BY <3>1, <3>2 DEF CallType
  <2>3. PICK d \in Calls : call[d].by = c /\ call[d].at = "answered" /\ answer = call[d].has
    BY <1>1 DEF Answers
  <2>4. c # Nobody /\ MadeBy(d) /\ Closed(d)
    BY <1>1 DEF IInv, Tree
  <2>5. call[d].gen = call[c].on /\ call[d].op = "close"
    BY <1>1, <2>3, <2>4 DEF MadeBy, DelegateCloses
  <2>6. answer = "None"
    BY <1>1, <2>2, <2>3, <2>4, <2>5 DEF Closed, SentAfterClose, Exceptions
  <2> QED BY <2>3, <2>4, <2>5, <2>6 DEF Closed
<1>2. IInv => \A c \in Calls :
        DelegateCloses(c) /\ call[c].on \in Gens /\ call'[c].has = "GeneratorExit"
          => resume_label[call[c].on] = "terminated"
  BY <1>1
<1> QED BY <1>2, Inductive, PTL DEF InnermostFirst

\* Calls share generators as GeneratorProtocol says.
THEOREM ImplementsProtocol == GenSpec => ProtocolSpec
<1>1. GenInit => Protocol!Init
  BY InitIInv
<1>2. IInv /\ [GenNext]_genVars => [Protocol!Next]_<<ownerOf, statusOf>>
  BY NextAdvances DEF Advances
<1> QED BY <1>1, <1>2, Inductive, PTL DEF GenSpec, ProtocolSpec, Protocol!Spec

-----------------------------------------------------------------------------
(* Asynchronous generators.                                                *)

ProperUse == AsyncLanes \subseteq {"arguments"}

AwType == [kind : AwaitableKinds, state : {"none", "init", "iter", "closed"}]

\* ag_running_async is what keeps a second awaitable out: it is set as long as
\* one has begun and has not raised, and while the body hangs in an await.
AsyncIInv ==
  /\ AsyncTypeOK
  /\ \A a \in finished : aw[a].state \in {"iter", "closed"}
  /\ OneAtATime
  /\ Iterating # {} => ag_running_async
  /\ AwaitIsGuarded
  /\ \A d \in driver : d.a \in Iterating
  /\ \A d, e \in driver : d = e

-----------------------------------------------------------------------------
LEMMA AsyncInitIInv == AsyncInit => AsyncIInv
<1> SUFFICES ASSUME AsyncInit PROVE AsyncIInv
  OBVIOUS
<1>1. AsyncTypeOK
  BY DEF AsyncInit, AsyncTypeOK, AwaitableKinds
<1>2. Iterating = {}
  BY DEF AsyncInit, Iterating
<1> QED BY <1>1, <1>2 DEF AsyncInit, AsyncIInv, OneAtATime, AwaitIsGuarded

\* An awaitable that may be driven has not raised, and is not being driven.
LEMMA MayDriveProper ==
  ASSUME ProperUse, NEW a \in Awaitables, MayDrive(a)
  PROVE  /\ a \notin finished /\ \A d \in driver : d.a # a
         /\ aw[a].state = "iter" => a \in Iterating
BY DEF ProperUse, MayDrive, Iterating

\* An awaitable ends: nothing is iterating any more if it was.
LEMMA EndKeepsAsyncIInv ==
  ASSUME AsyncIInv, NEW a \in Awaitables, NEW how, NEW was, NEW result \in Raised \cup {"yielded"},
         a \in Iterating \/ Iterating = {}, \A d \in driver : d.a = a,
         driver' = {}, Unwrap(a, how, was, result),
         ag_label' \in {"first", "yield", "terminated"}
  PROVE  AsyncIInv'
<1>1. /\ result # "awaiting" /\ ag_running_async' = FALSE /\ finished' = finished \cup {a}
      /\ ag_closed' \in BOOLEAN
      /\ aw' = [aw EXCEPT ![a].state =
                  IF aw[a].kind = "athrow" /\ how = "send" /\ was = "iter"
                  THEN "iter" ELSE "closed"]
  BY DEF Unwrap, RunningAfter, Raised
<1>2. aw \in [Awaitables -> AwType]
  BY DEF AsyncIInv, AsyncTypeOK, AwType
<1>3. aw' \in [Awaitables -> AwType] /\ aw'[a].state \in {"iter", "closed"}
      /\ \A b \in Awaitables \ {a} : aw'[b] = aw[b]
  BY <1>1, <1>2 DEF AwType
<1>4. AsyncTypeOK'
  BY <1>1, <1>3 DEF AsyncIInv, AsyncTypeOK, AwType
<1>5. Iterating' = {}
  BY <1>1, <1>3 DEF AsyncIInv, OneAtATime, Iterating
<1>6. \A b \in finished' : aw'[b].state \in {"iter", "closed"}
  BY <1>1, <1>3 DEF AsyncIInv, AsyncTypeOK
<1> QED BY <1>4, <1>5, <1>6 DEF AsyncIInv, OneAtATime, AwaitIsGuarded

LEMMA AsyncNextIInv == ProperUse /\ AsyncIInv /\ [AsyncNext]_asyncVars => AsyncIInv'
<1> SUFFICES ASSUME ProperUse, AsyncIInv, [AsyncNext]_asyncVars PROVE AsyncIInv'
  OBVIOUS
<1>0. AsyncTypeOK /\ aw \in [Awaitables -> AwType]
  BY DEF AsyncIInv, AsyncTypeOK, AwType
<1>1. ASSUME NEW a \in Awaitables, NEW kind \in AwaitableKinds, NewAwaitable(a, kind)
      PROVE  AsyncIInv'
  <2>1. /\ aw[a].state = "none" /\ aw' = [aw EXCEPT ![a] = [kind |-> kind, state |-> "init"]]
        /\ UNCHANGED <<ag_label, ag_closed, ag_running_async, driver, finished>>
    BY <1>1 DEF NewAwaitable
  <2>2. aw' \in [Awaitables -> AwType] /\ aw'[a].state = "init"
        /\ \A b \in Awaitables \ {a} : aw'[b] = aw[b]
    BY <2>1, <1>0 DEF AwType
  <2>3. Iterating' = Iterating
    BY <2>1, <2>2 DEF Iterating
  <2>4. AsyncTypeOK'
    BY <2>1, <2>2, <1>0 DEF AsyncTypeOK, AwType
  <2>5. \A b \in finished' : aw'[b].state \in {"iter", "closed"}
    BY <2>1, <2>2 DEF AsyncIInv, AsyncTypeOK
  <2> QED BY <2>1, <2>3, <2>4, <2>5 DEF AsyncIInv, OneAtATime, AwaitIsGuarded
<1>2. ASSUME NEW a \in Awaitables, NEW how \in Drives, Refused(a, how) PROVE AsyncIInv'
  <2>1. /\ aw' = [aw EXCEPT ![a].state = "closed"] /\ finished' = finished \cup {a}
        /\ UNCHANGED <<ag_label, ag_closed, ag_running_async, driver>> /\ MayDrive(a)
    BY <1>2 DEF Refused, Refuse
  <2>2. aw' \in [Awaitables -> AwType] /\ aw'[a].state = "closed"
        /\ \A b \in Awaitables \ {a} : aw'[b] = aw[b]
    BY <2>1, <1>0 DEF AwType
  <2>3. Iterating' \subseteq Iterating
    BY <2>1, <2>2 DEF Iterating
  <2>4. \A d \in driver' : d.a \in Iterating'
    <3>1. \A d \in driver : d.a # a /\ d.a \in Iterating
      BY <2>1, MayDriveProper DEF AsyncIInv
    <3> QED BY <3>1, <2>1, <2>2 DEF Iterating
  <2>5. AsyncTypeOK'
    BY <2>1, <2>2, <1>0 DEF AsyncTypeOK, AwType
  <2>6. \A b \in finished' : aw'[b].state \in {"iter", "closed"}
    BY <2>1, <2>2 DEF AsyncIInv, AsyncTypeOK
  <2> QED BY <2>1, <2>3, <2>4, <2>5, <2>6 DEF AsyncIInv, OneAtATime, AwaitIsGuarded
<1>3. ASSUME NEW a \in Awaitables, NEW how \in Drives, NEW unpacks \in BOOLEAN,
             Drive(a, how, unpacks)
      PROVE  AsyncIInv'
  <2>1. /\ MayDrive(a) /\ ~IsBusy(a) /\ driver = {}
        /\ driver' = IF unpacks THEN {[a |-> a, how |-> how, was |-> aw[a].state]} ELSE {}
        /\ finished' = IF unpacks THEN finished ELSE finished \cup {a}
        /\ aw' = [aw EXCEPT ![a].state = "iter"]
        /\ ag_running_async' = \/ aw[a].state = "init"
                               \/ aw[a].kind = "asend" /\ how = "send"
                               \/ ag_running_async
        /\ ag_closed' \in BOOLEAN /\ ag_label' = ag_label
    BY <1>0, <1>3 DEF Drive, Admitted, AsyncTypeOK
  <2>2. aw[a].state \in {"init", "iter"} /\ a \notin finished
    BY <2>1, MayDriveProper DEF MayDrive
  <2>3. aw' \in [Awaitables -> AwType] /\ aw'[a].state = "iter"
        /\ \A b \in Awaitables \ {a} : aw'[b] = aw[b]
    BY <2>1, <1>0 DEF AwType
  <2>4. Iterating \subseteq {a}
    <3>1. CASE aw[a].state = "init"
      BY <3>1, <2>1 DEF AsyncIInv, IsBusy
    <3>2. CASE aw[a].state = "iter"
      BY <3>2, <2>2 DEF AsyncIInv, OneAtATime, Iterating
    <3> QED BY <3>1, <3>2, <2>2
  <2>5. ag_running_async'
    BY <2>1, <2>2 DEF AsyncIInv, Iterating
  <2>6. Iterating' \subseteq {a} /\ (unpacks => a \in Iterating')
    BY <2>1, <2>2, <2>3, <2>4 DEF Iterating
  <2>7. AsyncTypeOK'
    BY <2>1, <2>2, <2>3, <1>0, <2>5 DEF AsyncTypeOK, AwType
  <2>8. \A b \in finished' : aw'[b].state \in {"iter", "closed"}
    BY <2>1, <2>3 DEF AsyncIInv, AsyncTypeOK
  <2>9. (\A d \in driver' : d.a \in Iterating') /\ \A d, e \in driver' : d = e
    BY <2>1, <2>6
  <2> QED BY <2>5, <2>6, <2>7, <2>8, <2>9 DEF AsyncIInv, OneAtATime, AwaitIsGuarded
<1>4. ASSUME NEW a \in Awaitables, NEW how \in Drives,
             NEW thrown \in {"GeneratorExit", "error"}, AnswersAtOnce(a, how, thrown)
      PROVE  AsyncIInv'
  <2>1. MayDrive(a) /\ ~IsBusy(a) /\ aw[a].state \in {"init", "iter"}
        /\ UNCHANGED <<ag_label, driver>>
    BY <1>4 DEF AnswersAtOnce, Admitted, MayDrive
  <2>2. a \notin finished /\ \A d \in driver : d.a # a
    BY <2>1, MayDriveProper
  <2>3. driver = {}
    BY <2>1, <2>2 DEF AsyncIInv, OneAtATime, IsBusy, Iterating
  <2>4. ag_label = "terminated"
    BY <2>3, <1>4 DEF AnswersAtOnce
  <2>5. a \in Iterating \/ Iterating = {}
    BY <2>1, <2>2 DEF AsyncIInv, IsBusy, Iterating
  <2>6. \E result \in Raised \cup {"yielded"} : Unwrap(a, how, aw[a].state, result)
    BY <2>3, <1>4 DEF AnswersAtOnce, Raised
  <2> QED BY <2>1, <2>3, <2>4, <2>5, <2>6, EndKeepsAsyncIInv
<1>5. ASSUME NEW result \in Results, BodyComesOut(result) PROVE AsyncIInv'
  <2>1. PICK d \in driver : /\ driver' = {} /\ Unwrap(d.a, d.how, d.was, result)
                            /\ ag_label' = CASE result = "yielded" -> "yield"
                                             [] result = "awaiting" -> "await"
                                             [] OTHER -> "terminated"
    BY <1>5 DEF BodyComesOut
  <2>2. d.a \in Iterating /\ d.a \in Awaitables /\ \A e \in driver : e.a = d.a
    BY DEF AsyncIInv, Iterating
  <2>3. CASE result = "awaiting"
    <3>1. UNCHANGED <<aw, finished, ag_running_async>> /\ ag_closed' \in BOOLEAN
          /\ ag_label' = "await"
      BY <2>1, <2>3, <1>0 DEF Unwrap, RunningAfter, AsyncTypeOK
    <3>2. Iterating' = Iterating
      BY <3>1 DEF Iterating
    <3>3. AsyncTypeOK'
      BY <2>1, <3>1, <1>0 DEF AsyncTypeOK
    <3> QED BY <2>1, <2>2, <3>1, <3>2, <3>3 DEF AsyncIInv, OneAtATime, AwaitIsGuarded
  <2>4. CASE result # "awaiting"
    <3>1. result \in Raised \cup {"yielded"} /\ ag_label' \in {"first", "yield", "terminated"}
      BY <2>1, <2>4 DEF Results
    <3> QED BY <2>1, <2>2, <3>1, EndKeepsAsyncIInv
  <2> QED BY <2>3, <2>4
<1>6. CASE UNCHANGED asyncVars
  BY <1>6 DEF asyncVars, AsyncIInv, AsyncTypeOK, OneAtATime, AwaitIsGuarded, Iterating
<1> QED BY <1>1, <1>2, <1>3, <1>4, <1>5, <1>6 DEF AsyncNext

LEMMA AsyncInductive == ASSUME ProperUse PROVE AsyncSpec => []AsyncIInv
<1>1. AsyncIInv /\ [AsyncNext]_asyncVars => AsyncIInv'
  BY AsyncNextIInv
<1> QED BY <1>1, AsyncInitIInv, PTL DEF AsyncSpec

-----------------------------------------------------------------------------
\* However many awaitables of one asynchronous generator are made and driven,
\* at most one has begun and has not raised: ag_running_async turns the others
\* away.
THEOREM TakeTurns == ASSUME ProperUse PROVE AsyncSpec => []OneAtATime
<1>1. AsyncIInv => OneAtATime
  BY DEF AsyncIInv
<1> QED BY <1>1, AsyncInductive, PTL

\* A body that hangs in an await is marked as running, so that no other
\* awaitable's value arrives there.
THEOREM AwaitsAreGuarded == ASSUME ProperUse PROVE AsyncSpec => []AwaitIsGuarded
<1>1. AsyncIInv => AwaitIsGuarded
  BY DEF AsyncIInv
<1> QED BY <1>1, AsyncInductive, PTL

-----------------------------------------------------------------------------
(* The types of both, as the model that runs either of them has them.      *)

LEMMA AsyncTypeStep == AsyncTypeOK /\ [AsyncNext]_asyncVars => AsyncTypeOK'
<1> SUFFICES ASSUME AsyncTypeOK, [AsyncNext]_asyncVars PROVE AsyncTypeOK'
  OBVIOUS
<1>0. aw \in [Awaitables -> AwType]
  BY DEF AsyncTypeOK, AwType
<1>1. ASSUME NEW a \in Awaitables, NEW kind \in AwaitableKinds, NewAwaitable(a, kind)
      PROVE  AsyncTypeOK'
  <2>1. aw' \in [Awaitables -> AwType]
    BY <1>0, <1>1 DEF NewAwaitable, AwType
  <2> QED BY <1>1, <2>1 DEF NewAwaitable, AsyncTypeOK, AwType
<1>2. ASSUME NEW a \in Awaitables, NEW how \in Drives, Refused(a, how)
      PROVE  AsyncTypeOK'
  <2>1. aw' \in [Awaitables -> AwType]
    BY <1>0, <1>2 DEF Refused, Refuse, AwType
  <2> QED BY <1>2, <2>1 DEF Refused, Refuse, AsyncTypeOK, AwType
<1>3. ASSUME NEW a \in Awaitables, NEW how \in Drives, NEW unpacks \in BOOLEAN,
             Drive(a, how, unpacks)
      PROVE  AsyncTypeOK'
  <2>1. aw' \in [Awaitables -> AwType] /\ aw[a].state \in {"init", "iter"}
    BY <1>0, <1>3 DEF Drive, Admitted, MayDrive, AwType
  <2>2. ag_running_async' \in BOOLEAN /\ ag_closed' \in BOOLEAN
    BY <1>3 DEF Drive, AsyncTypeOK
  <2>3. driver' \subseteq [a : Awaitables, how : Drives, was : {"init", "iter"}]
    BY <1>3, <2>1 DEF Drive
  <2>4. finished' \subseteq Awaitables /\ ag_label' = ag_label
    BY <1>3 DEF Drive, AsyncTypeOK
  <2> QED BY <2>1, <2>2, <2>3, <2>4 DEF AsyncTypeOK, AwType
<1>4. ASSUME NEW a \in Awaitables, NEW how, NEW was, NEW result, Unwrap(a, how, was, result)
      PROVE  /\ aw' \in [Awaitables -> AwType] /\ finished' \subseteq Awaitables
             /\ ag_running_async' \in BOOLEAN /\ ag_closed' \in BOOLEAN
  <2>1. aw' \in [Awaitables -> AwType]
    BY <1>0, <1>4 DEF Unwrap, AwType
  <2>2. finished' \subseteq Awaitables
    BY <1>4 DEF Unwrap, AsyncTypeOK
  <2>3. ag_running_async' \in BOOLEAN
    BY <1>4 DEF Unwrap, RunningAfter, AsyncTypeOK
  <2>4. ag_closed' \in BOOLEAN
    BY <1>4 DEF Unwrap, AsyncTypeOK
  <2> QED BY <2>1, <2>2, <2>3, <2>4
<1>5. ASSUME NEW a \in Awaitables, NEW how \in Drives,
             NEW thrown \in {"GeneratorExit", "error"}, AnswersAtOnce(a, how, thrown)
      PROVE  AsyncTypeOK'
  <2>1. UNCHANGED <<ag_label, driver>> /\ \E result : Unwrap(a, how, aw[a].state, result)
    BY <1>5 DEF AnswersAtOnce
  <2> QED BY <2>1, <1>4 DEF AsyncTypeOK, AwType
<1>6. ASSUME NEW result \in Results, BodyComesOut(result) PROVE AsyncTypeOK'
  <2>1. PICK d \in driver : /\ driver' = {} /\ Unwrap(d.a, d.how, d.was, result)
                            /\ ag_label' = CASE result = "yielded" -> "yield"
                                             [] result = "awaiting" -> "await"
                                             [] OTHER -> "terminated"
    BY <1>6 DEF BodyComesOut
  <2>2. d.a \in Awaitables
    BY DEF AsyncTypeOK
  <2>3. ag_label' \in {"yield", "await", "terminated"}
    BY <2>1
  <2> QED BY <2>1, <2>2, <2>3, <1>4 DEF AsyncTypeOK, AwType
<1>7. CASE UNCHANGED asyncVars
  BY <1>7 DEF asyncVars, AsyncTypeOK
<1> QED BY <1>1, <1>2, <1>3, <1>5, <1>6, <1>7 DEF AsyncNext

\* Whatever calls are made on generators and whatever awaitables are driven,
\* every use of an awaitable included, the fields of the C structures and the
\* activations keep their types: resume_label is the label of a yield, 0 or -1,
\* yieldfrom holds a delegate or NULL.
THEOREM BothKeepTheirTypes == Spec => []GeneratorsTypeOK
<1>1. Init => IInv /\ AsyncTypeOK
  <2>1. AsyncInit => AsyncTypeOK
    BY AsyncInitIInv DEF AsyncIInv
  <2> QED BY <2>1, InitIInv DEF Init
<1>2. IInv /\ AsyncTypeOK /\ [Next]_<<system, genVars, asyncVars>> => (IInv /\ AsyncTypeOK)'
  <2>1. [Next]_<<system, genVars, asyncVars>> => [GenNext]_genVars /\ [AsyncNext]_asyncVars
    BY DEF Next
  <2>2. IInv /\ [GenNext]_genVars => IInv'
    BY NextAdvances DEF Advances
  <2> QED BY <2>1, <2>2, AsyncTypeStep
<1>3. IInv /\ AsyncTypeOK => GeneratorsTypeOK
  BY DEF IInv, GeneratorsTypeOK
<1> QED BY <1>1, <1>2, <1>3, PTL DEF Spec
=============================================================================
