----------------------- MODULE HandleTemporaries_proofs ----------------------
(***************************************************************************)
(* Proofs about HandleTemporaries for any number of slots and generations: *)
(* the inductive invariant, the completeness of the exit check, and the    *)
(* refinement of LinearResource.                                           *)
(***************************************************************************)
EXTENDS HandleTemporaries, TLAPS

USE BoundsAssumption

\* A slot is bound to its latest generation or to none.
BoundToLatest == \A c \in Cnames : is_active(c) => active[c] = generations[c]

\* What release_temp will not take again covers what the pool hands out, and
\* both lie among the declared slots.
PoolIsDeclared == temps_free \subseteq freed /\ freed \subseteq 1 .. temp_counter

IInv == /\ TempTypeOK
        /\ PoolIsDeclared
        /\ BoundSlotsAreTaken
        /\ BoundToLatest
        /\ GenerationsAreFresh
        /\ LiveOwnedIsBound

LEMMA LifetimeParts ==
  ASSUME NEW l \in Lifetimes
  PROVE  l[1] \in Cnames /\ l[2] \in Generations /\ l = <<l[1], l[2]>>
BY DEF Lifetimes

\* The pool operations keep the pool well formed; the slot taken is declared
\* afterwards and held free by nobody.
LEMMA TakeKeepsPool ==
  ASSUME TempTypeOK, PoolIsDeclared, BoundSlotsAreTaken,
         NEW c \in Cnames, NEW r \in BOOLEAN, allocate_temp(c, r)
  PROVE  /\ PoolIsDeclared'
         /\ temp_counter' \in 0 .. MaxTemps
         /\ temps_free' \subseteq Cnames /\ freed' \subseteq Cnames
         /\ zombie_temps' \subseteq Cnames
         /\ c \in (1 .. temp_counter') \ freed'
         /\ \A d \in Cnames : is_active(d) => d \in (1 .. temp_counter') \ freed'
         /\ ~is_active(c)
<1>1. CASE TakeFree(c, r)
  BY <1>1 DEF TakeFree, TempTypeOK, PoolIsDeclared, BoundSlotsAreTaken, is_active, Cnames
<1>2. CASE TakeNew(c, r)
  <2>1. temp_counter \in Nat /\ temp_counter' = temp_counter + 1 /\ c = temp_counter'
    BY <1>2 DEF TakeNew, TempTypeOK
  <2>2. c \notin freed /\ freed' = freed /\ temps_free' = temps_free
    BY <1>2, <2>1 DEF TakeNew, PoolIsDeclared
  <2>3. 1 .. temp_counter \subseteq 1 .. temp_counter'
    BY <2>1
  <2> QED
    BY <1>2, <2>1, <2>2, <2>3
    DEF TakeNew, TempTypeOK, PoolIsDeclared, BoundSlotsAreTaken, Cnames
<1> QED BY <1>1, <1>2 DEF allocate_temp

LEMMA ReleaseKeepsPool ==
  ASSUME TempTypeOK, PoolIsDeclared, NEW c \in Cnames, release_temp(c)
  PROVE  /\ PoolIsDeclared'
         /\ temp_counter' \in 0 .. MaxTemps
         /\ temps_free' \subseteq Cnames /\ freed' \subseteq Cnames
         /\ zombie_temps' \subseteq Cnames
         /\ temp_counter' = temp_counter /\ freed' = freed \cup {c}
BY DEF release_temp, TempTypeOK, PoolIsDeclared

\* Binding a slot declares a lifetime that had no state before.
LEMMA BindDeclaresFresh ==
  ASSUME IInv, NEW c \in Cnames, NEW o \in Ownerships, Bind(c, o)
  PROVE  /\ <<c, generations[c] + 1>> \in Lifetimes
         /\ generations[c] \in Nat
         /\ lifetime_values[<<c, generations[c] + 1>>] = NoLifetime
<1>1. generations[c] \in 0 .. MaxGeneration /\ generations[c] < MaxGeneration
  BY DEF Bind, BindAs, IInv, TempTypeOK
<1>2. generations[c] + 1 \in Generations
  BY <1>1 DEF Generations
<1>3. <<c, generations[c] + 1>> \in Lifetimes
  BY <1>2 DEF Lifetimes
<1> QED BY <1>1, <1>3 DEF IInv, GenerationsAreFresh

LEMMA AllocateStep ==
  ASSUME IInv, NEW c \in Cnames, NEW o \in Ownerships, NEW r \in BOOLEAN,
         allocate_handle_temp(c, o, r)
  PROVE  IInv'
<1> DEFINE new == <<c, generations[c] + 1>>
           v   == [ownership |-> o, state |-> "live"]
<1>1. /\ allocate_temp(c, r) /\ Bind(c, o)
      /\ TempTypeOK /\ PoolIsDeclared /\ BoundSlotsAreTaken
  BY DEF allocate_handle_temp, IInv
<1>2. /\ PoolIsDeclared'
      /\ temp_counter' \in 0 .. MaxTemps
      /\ temps_free' \subseteq Cnames /\ freed' \subseteq Cnames
      /\ zombie_temps' \subseteq Cnames
      /\ c \in (1 .. temp_counter') \ freed'
      /\ \A d \in Cnames : is_active(d) => d \in (1 .. temp_counter') \ freed'
  BY <1>1, TakeKeepsPool
<1>3. new \in Lifetimes /\ generations[c] \in Nat /\ lifetime_values[new] = NoLifetime
  BY <1>1, BindDeclaresFresh
<1>4. v \in HandleValue
  BY DEF HandleValue, LifetimeState
<1>5. /\ lifetime_values' = [lifetime_values EXCEPT ![new] = v]
      /\ active' = [active EXCEPT ![c] = generations[c] + 1]
      /\ generations' = [generations EXCEPT ![c] = generations[c] + 1]
      /\ active[c] = 0 /\ generations[c] + 1 \in 0 .. MaxGeneration
  BY <1>1, <1>3 DEF Bind, BindAs, is_active, TempTypeOK
<1>6. TempTypeOK'
  BY <1>1, <1>2, <1>3, <1>4, <1>5 DEF TempTypeOK
<1>7. BoundSlotsAreTaken' /\ BoundToLatest'
  BY <1>1, <1>2, <1>3, <1>5 DEF IInv, BoundSlotsAreTaken, BoundToLatest, is_active, TempTypeOK
<1>8. GenerationsAreFresh'
  <2> SUFFICES ASSUME NEW l \in Lifetimes, l[2] > generations'[l[1]]
               PROVE  lifetime_values'[l] = NoLifetime
    BY DEF GenerationsAreFresh
  <2>1. l[1] \in Cnames /\ l[2] \in Nat /\ l = <<l[1], l[2]>>
    BY LifetimeParts DEF Generations
  <2>2. l # new
    BY <1>1, <1>3, <1>5, <2>1 DEF TempTypeOK
  <2>3. l[2] > generations[l[1]]
    BY <1>1, <1>3, <1>5, <2>1 DEF TempTypeOK
  <2> QED BY <1>1, <1>5, <2>2, <2>3 DEF IInv, GenerationsAreFresh, TempTypeOK
<1>9. LiveOwnedIsBound'
  <2> SUFFICES ASSUME NEW l \in Lifetimes, IsOpen(lifetime_values'[l])
               PROVE  active'[l[1]] = l[2]
    BY DEF LiveOwnedIsBound
  <2>1. l[1] \in Cnames /\ l[2] \in Generations /\ l = <<l[1], l[2]>>
    BY LifetimeParts
  <2>2. CASE l = new
    BY <1>1, <1>5, <2>1, <2>2 DEF TempTypeOK
  <2>3. CASE l # new
    <3>1. active[l[1]] = l[2]
      BY <1>1, <1>5, <2>3 DEF IInv, LiveOwnedIsBound, TempTypeOK
    <3>2. l[1] # c
      BY <1>5, <2>1, <3>1 DEF Generations
    <3> QED BY <1>1, <1>5, <2>1, <3>1, <3>2 DEF TempTypeOK
  <2> QED BY <2>2, <2>3
<1> QED BY <1>2, <1>6, <1>7, <1>8, <1>9 DEF IInv

LEMMA ConsumeStep ==
  ASSUME IInv, NEW c \in Cnames, NEW t \in {"moved", "closed"}, Consume(c, t)
  PROVE  IInv'
<1> DEFINE id == identity(c)
<1>1. /\ active[c] \in Generations /\ id \in Lifetimes
      /\ lifetime_values[id].ownership = "owned" /\ lifetime_values[id].state = "live"
      /\ lifetime_values \in [Lifetimes -> HandleValue]
  BY DEF Consume, is_active, identity, IInv, TempTypeOK, Generations, Lifetimes, IsOpen
<1>2. /\ lifetime_values' = [lifetime_values EXCEPT ![id].state = t]
      /\ UNCHANGED <<poolVars, active, generations>>
  BY DEF Consume
<1>3. lifetime_values[id] \in [ownership : Ownerships, state : LifetimeState]
  BY <1>1 DEF HandleValue, NoLifetime
<1>4. /\ lifetime_values'[id] = [ownership |-> "owned", state |-> t]
      /\ \A l \in Lifetimes : l # id => lifetime_values'[l] = lifetime_values[l]
      /\ lifetime_values' \in [Lifetimes -> HandleValue]
  BY <1>1, <1>2, <1>3 DEF HandleValue, LifetimeState, Ownerships
<1>5. TempTypeOK' /\ PoolIsDeclared' /\ BoundSlotsAreTaken' /\ BoundToLatest'
  BY <1>2, <1>4 DEF IInv, TempTypeOK, PoolIsDeclared, BoundSlotsAreTaken, BoundToLatest,
                    is_active, poolVars
<1>6. GenerationsAreFresh'
  <2>1. ~(id[2] > generations[id[1]])
    BY <1>1 DEF IInv, GenerationsAreFresh, NoLifetime
  <2> QED BY <1>2, <1>4, <2>1 DEF IInv, GenerationsAreFresh
<1>7. LiveOwnedIsBound'
  BY <1>2, <1>4 DEF IInv, LiveOwnedIsBound, IsOpen
<1> QED BY <1>5, <1>6, <1>7 DEF IInv

LEMMA ReleaseStep ==
  ASSUME IInv, NEW c \in Cnames, release_handle_temp(c)
  PROVE  IInv'
<1>1. /\ active[c] # 0 /\ ~IsOpen(lifetime_values[<<c, active[c]>>])
      /\ active' = [active EXCEPT ![c] = 0]
      /\ generations' = generations /\ lifetime_values' = lifetime_values
      /\ release_temp(c)
  BY DEF release_handle_temp, is_active, identity
<1>2. TempTypeOK /\ PoolIsDeclared
  BY DEF IInv
<1>3. /\ PoolIsDeclared'
      /\ temp_counter' \in 0 .. MaxTemps
      /\ temps_free' \subseteq Cnames /\ freed' \subseteq Cnames
      /\ zombie_temps' \subseteq Cnames
      /\ temp_counter' = temp_counter /\ freed' = freed \cup {c}
  BY <1>1, <1>2, ReleaseKeepsPool
<1>4. TempTypeOK'
  BY <1>1, <1>2, <1>3 DEF TempTypeOK
<1>5. BoundSlotsAreTaken' /\ BoundToLatest'
  BY <1>1, <1>2, <1>3 DEF IInv, BoundSlotsAreTaken, BoundToLatest, is_active, TempTypeOK
<1>6. GenerationsAreFresh'
  BY <1>1 DEF IInv, GenerationsAreFresh
<1>7. LiveOwnedIsBound'
  <2> SUFFICES ASSUME NEW l \in Lifetimes, IsOpen(lifetime_values'[l])
               PROVE  active'[l[1]] = l[2]
    BY DEF LiveOwnedIsBound
  <2>1. l[1] \in Cnames /\ l = <<l[1], l[2]>> /\ active[l[1]] = l[2]
    BY <1>1, LifetimeParts DEF IInv, LiveOwnedIsBound
  <2>2. l[1] # c
    BY <1>1, <2>1
  <2> QED BY <1>1, <1>2, <2>1, <2>2 DEF TempTypeOK
<1> QED BY <1>3, <1>4, <1>5, <1>6, <1>7 DEF IInv

LEMMA RawSteps ==
  ASSUME IInv, NEW c \in Cnames, NEW r \in BOOLEAN,
         AllocateRaw(c, r) \/ ReleaseRaw(c)
  PROVE  IInv'
<1>1. /\ active' = active /\ generations' = generations /\ lifetime_values' = lifetime_values
      /\ TempTypeOK /\ PoolIsDeclared /\ BoundSlotsAreTaken
  BY DEF AllocateRaw, ReleaseRaw, IInv
<1>2. CASE AllocateRaw(c, r)
  <2>1. /\ PoolIsDeclared'
        /\ temp_counter' \in 0 .. MaxTemps
        /\ temps_free' \subseteq Cnames /\ freed' \subseteq Cnames
        /\ zombie_temps' \subseteq Cnames
        /\ \A d \in Cnames : is_active(d) => d \in (1 .. temp_counter') \ freed'
    BY <1>1, <1>2, TakeKeepsPool DEF AllocateRaw
  <2> QED
    BY <1>1, <2>1 DEF IInv, TempTypeOK, BoundSlotsAreTaken, BoundToLatest, is_active,
                      GenerationsAreFresh, LiveOwnedIsBound
<1>3. CASE ReleaseRaw(c)
  <2>1. /\ PoolIsDeclared'
        /\ temp_counter' \in 0 .. MaxTemps
        /\ temps_free' \subseteq Cnames /\ freed' \subseteq Cnames
        /\ zombie_temps' \subseteq Cnames
        /\ temp_counter' = temp_counter /\ freed' = freed \cup {c}
    BY <1>1, <1>3, ReleaseKeepsPool DEF ReleaseRaw
  <2> QED
    BY <1>1, <1>3, <2>1 DEF ReleaseRaw, IInv, TempTypeOK, BoundSlotsAreTaken, BoundToLatest,
                      is_active, GenerationsAreFresh, LiveOwnedIsBound
<1> QED BY <1>2, <1>3

LEMMA InitIInv == TempInit => IInv
BY DEF TempInit, IInv, TempTypeOK, PoolIsDeclared, BoundSlotsAreTaken, BoundToLatest,
       is_active,
       GenerationsAreFresh, LiveOwnedIsBound, IsOpen, HandleValue, NoLifetime

LEMMA NextIInv == IInv /\ [TempNext]_tempVars => IInv'
<1> SUFFICES ASSUME IInv, [TempNext]_tempVars PROVE IInv'
  OBVIOUS
<1>1. CASE UNCHANGED tempVars
  BY <1>1 DEF tempVars, poolVars, IInv, TempTypeOK, PoolIsDeclared, BoundSlotsAreTaken,
              BoundToLatest, is_active, GenerationsAreFresh, LiveOwnedIsBound
<1>2. ASSUME NEW c \in Cnames, NEW o \in Ownerships, NEW r \in BOOLEAN,
             allocate_handle_temp(c, o, r)
      PROVE  IInv'
  BY <1>2, AllocateStep
<1>3. ASSUME NEW c \in Cnames, close_handle_temp(c) \/ move_handle_temp(c)
      PROVE  IInv'
  BY <1>3, ConsumeStep DEF close_handle_temp, move_handle_temp
<1>4. ASSUME NEW c \in Cnames, release_handle_temp(c) PROVE IInv'
  BY <1>4, ReleaseStep
<1>5. ASSUME NEW c \in Cnames, NEW r \in BOOLEAN, AllocateRaw(c, r) \/ ReleaseRaw(c)
      PROVE  IInv'
  BY <1>5, RawSteps
<1> QED BY <1>1, <1>2, <1>3, <1>4, <1>5 DEF TempNext

\* The invariant holds in every reachable state, whatever the bounds.
THEOREM Invariance == TempSpec => []IInv
BY InitIInv, NextIInv, PTL DEF TempSpec

\* Type correctness of the slot pool and of the manager's tables
\* (HandleTemporaryManager, FunctionState.allocate_handle_temp).
THEOREM TypeCorrect == TempSpec => []TempTypeOK
<1>1. IInv => TempTypeOK
  BY DEF IInv
<1> QED BY <1>1, Invariance, PTL

\* live_owned_handles() misses no lifetime: an owned handle that is still live
\* is the one its slot is bound to, so validate_exit reports it.
THEOREM ExitCheckComplete == TempSpec => []LiveOwnedIsBound
<1>1. IInv => LiveOwnedIsBound
  BY DEF IInv
<1> QED BY <1>1, Invariance, PTL

\* The pool never hands out a slot that is bound to a handle.
THEOREM ReuseIsSafe == TempSpec => []FreeSlotsAreUnbound
<1>1. IInv => FreeSlotsAreUnbound
  BY DEF IInv, PoolIsDeclared, BoundSlotsAreTaken, FreeSlotsAreUnbound, TempTypeOK
<1> QED BY <1>1, Invariance, PTL

-----------------------------------------------------------------------------
\* A change to one lifetime changes the abstract phase of that lifetime only.
LEMMA PhaseOfChange ==
  ASSUME NEW id \in Lifetimes, lifetime_values' \in [Lifetimes -> HandleValue],
         \A l \in Lifetimes : l # id => lifetime_values'[l] = lifetime_values[l]
  PROVE  lifetimePhase' = [lifetimePhase EXCEPT ![id] = Phase(lifetime_values'[id])]
BY DEF lifetimePhase, Phase

LEMMA LinearStep == IInv /\ [TempNext]_tempVars => [Linear!Next]_lifetimePhase
<1> SUFFICES ASSUME IInv, IInv', [TempNext]_tempVars, lifetime_values' # lifetime_values
             PROVE  [Linear!Next]_lifetimePhase
  BY NextIInv DEF lifetimePhase, Phase
<1>0. /\ lifetime_values \in [Lifetimes -> HandleValue]
      /\ lifetime_values' \in [Lifetimes -> HandleValue]
  BY DEF IInv, TempTypeOK
<1>1. ASSUME NEW c \in Cnames, NEW o \in Ownerships, NEW r \in BOOLEAN,
             allocate_handle_temp(c, o, r)
      PROVE  [Linear!Next]_lifetimePhase
  <2> DEFINE new == <<c, generations[c] + 1>>
             v   == [ownership |-> o, state |-> "live"]
  <2>1. new \in Lifetimes /\ lifetime_values[new] = NoLifetime
        /\ lifetime_values' = [lifetime_values EXCEPT ![new] = v]
    BY <1>1, BindDeclaresFresh DEF allocate_handle_temp, Bind, BindAs
  <2>2. lifetime_values'[new] = v /\ lifetimePhase[new] = "unborn"
    BY <1>0, <2>1 DEF lifetimePhase, Phase, NoLifetime
  <2>3. lifetimePhase' = [lifetimePhase EXCEPT ![new] = Phase(v)]
    BY <1>0, <2>1, <2>2, PhaseOfChange
  <2>4. CASE o = "owned"
    BY <2>1, <2>2, <2>3, <2>4 DEF Phase, Linear!Next, Linear!Acquire
  <2>5. CASE o # "owned"
    <3>1. lifetimePhase' = lifetimePhase
      BY <2>2, <2>3, <2>5 DEF Phase, lifetimePhase
    <3> QED BY <3>1
  <2> QED BY <2>4, <2>5
<1>2. ASSUME NEW c \in Cnames, NEW t \in {"moved", "closed"}, Consume(c, t)
      PROVE  [Linear!Next]_lifetimePhase
  <2> DEFINE id == identity(c)
  <2>1. id \in Lifetimes /\ IsOpen(lifetime_values[id]) /\ lifetime_values[id] # NoLifetime
        /\ lifetime_values' = [lifetime_values EXCEPT ![id].state = t]
    BY <1>2 DEF Consume, is_active, identity, IInv, TempTypeOK, Generations, Lifetimes,
                IsOpen, NoLifetime
  <2>2. lifetime_values[id] \in [ownership : Ownerships, state : LifetimeState]
    BY <1>0, <2>1 DEF HandleValue
  <2>3. Phase(lifetime_values'[id]) = "ended" /\ lifetimePhase[id] = "live"
    BY <1>0, <2>1, <2>2 DEF lifetimePhase, Phase, IsOpen
  <2>4. lifetimePhase' = [lifetimePhase EXCEPT ![id] = "ended"]
    BY <1>0, <2>1, <2>3, PhaseOfChange
  <2> QED BY <2>1, <2>3, <2>4 DEF Linear!Next, Linear!End
<1> QED BY <1>1, <1>2 DEF TempNext, tempVars, close_handle_temp, move_handle_temp,
           release_handle_temp, AllocateRaw, ReleaseRaw

\* Slot reuse is invisible: seen by lifetimes, the manager is a linear resource
\* (HandleModel.py _consume_owned, allocate), each handle ended at most once.
THEOREM ImplementsLinearResource == TempSpec => LinearSpec
<1>1. TempInit => Linear!Init
  BY DEF TempInit, Linear!Init, lifetimePhase, Phase, NoLifetime
<1> QED BY <1>1, LinearStep, Invariance, PTL DEF TempSpec, LinearSpec, Linear!Spec
=============================================================================
