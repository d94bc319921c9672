-------------------------- MODULE HandleTemporaries -------------------------
(***************************************************************************)
(* Handle temporaries of one C function: HandleTemporaryManager of         *)
(* HandleModel.py together with the pool of FunctionState in Code.py that  *)
(* hands out the C slots.  A slot (a cname) is reused; each use of it is a *)
(* lifetime of its own, identified by the slot and a generation, and the   *)
(* ownership state is kept per lifetime in the manager's                   *)
(* HandleStateTracker.                                                     *)
(*                                                                         *)
(* Calls that raise before they change anything are steps that do not      *)
(* happen: their conditions are the guards.                                *)
(***************************************************************************)
EXTENDS Naturals, FiniteSets

CONSTANTS MaxTemps,      \* bound: C temporaries the function may declare
          MaxGeneration  \* bound: times one slot may be bound

ASSUME BoundsAssumption == MaxTemps \in Nat /\ MaxGeneration \in Nat

VARIABLES temp_counter,  \* FunctionState.temp_counter
          temps_free,    \* the reusable free slots of the HPy type
          freed,         \* the slots release_temp will not release again
          zombie_temps,  \* slots that are never reused
          active,        \* manager._active: slot -> bound generation, 0 if none
          generations,   \* manager._generations
          lifetime_values  \* manager.state._values, by lifetime

poolVars == <<temp_counter, temps_free, freed, zombie_temps>>
tempVars == <<poolVars, active, generations, lifetime_values>>

Cnames      == 1 .. MaxTemps
Generations == 1 .. MaxGeneration
Lifetimes   == Cnames \X Generations

Ownerships    == {"owned", "borrowed-argument"}
LifetimeState == {"live", "moved", "closed"}
NoLifetime    == [ownership |-> "none", state |-> "none"]
HandleValue   == [ownership : Ownerships, state : LifetimeState] \cup {NoLifetime}

identity(c) == <<c, active[c]>>
is_active(c) == active[c] # 0

IsOpen(v) == v.ownership = "owned" /\ v.state = "live"

\* live_owned_handles(): the manager looks at bound slots only.
live_owned_slots ==
  {c \in Cnames : is_active(c) /\ IsOpen(lifetime_values[identity(c)])}

TempTypeOK ==
  /\ temp_counter \in 0 .. MaxTemps
  /\ temps_free \subseteq Cnames
  /\ freed \subseteq Cnames
  /\ zombie_temps \subseteq Cnames
  /\ active \in [Cnames -> 0 .. MaxGeneration]
  /\ generations \in [Cnames -> 0 .. MaxGeneration]
  /\ lifetime_values \in [Lifetimes -> HandleValue]

TempInit ==
  /\ temp_counter = 0
  /\ temps_free = {} /\ freed = {} /\ zombie_temps = {}
  /\ active = [c \in Cnames |-> 0]
  /\ generations = [c \in Cnames |-> 0]
  /\ lifetime_values = [l \in Lifetimes |-> NoLifetime]

-----------------------------------------------------------------------------
\* allocate_temp: a free slot of the type when the temp may be reused, a new
\* one otherwise.  Which of the free slots is taken makes no difference here.
TakeFree(c, reusable) ==
  /\ reusable /\ c \in temps_free
  /\ temps_free' = temps_free \ {c}
  /\ freed' = freed \ {c}
  /\ UNCHANGED <<temp_counter, zombie_temps>>

TakeNew(c, reusable) ==
  /\ ~reusable \/ temps_free = {}
  /\ c = temp_counter + 1
  /\ temp_counter' = c
  /\ zombie_temps' = IF reusable THEN zombie_temps ELSE zombie_temps \cup {c}
  /\ UNCHANGED <<temps_free, freed>>

allocate_temp(c, reusable) == TakeFree(c, reusable) \/ TakeNew(c, reusable)

\* release_temp raises "freed twice" for a slot it already holds.
release_temp(c) ==
  /\ c \in 1 .. temp_counter /\ c \notin freed
  /\ freed' = freed \cup {c}
  /\ temps_free' = IF c \in zombie_temps THEN temps_free ELSE temps_free \cup {c}
  /\ UNCHANGED <<temp_counter, zombie_temps>>

\* HandleTemporaryManager.allocate: bind the slot to a new lifetime.
BindAs(c, ownership, generation) ==
  /\ ~is_active(c)
  /\ generations[c] < MaxGeneration                                \* bound
  /\ generations' = [generations EXCEPT ![c] = generation]
  /\ active' = [active EXCEPT ![c] = generation]
  /\ lifetime_values' = [lifetime_values EXCEPT ![<<c, generation>>] =
                  [ownership |-> ownership, state |-> "live"]]

\* Mutant: a slot keeps its first one.
Mut_BindSameLifetime(c, ownership) == BindAs(c, ownership, 1)

Bind(c, ownership) == BindAs(c, ownership, generations[c] + 1)

allocate_handle_temp(c, ownership, reusable) ==
  /\ allocate_temp(c, reusable)
  /\ Bind(c, ownership)

\* A slot of the same C type taken without a handle lifetime.
AllocateRaw(c, reusable) ==
  /\ allocate_temp(c, reusable)
  /\ UNCHANGED <<active, generations, lifetime_values>>

\* close_handle_temp and move_handle_temp: HandleStateTracker._consume_owned.
Consume(c, target) ==
  /\ is_active(c)
  /\ IsOpen(lifetime_values[identity(c)])
  /\ lifetime_values' = [lifetime_values EXCEPT ![identity(c)].state = target]
  /\ UNCHANGED <<poolVars, active, generations>>

close_handle_temp(c) == Consume(c, "closed")
move_handle_temp(c)  == Consume(c, "moved")

\* Mutant: a live owned handle is let go.
Mut_ReleaseLive(c) ==
  /\ is_active(c)
  /\ active' = [active EXCEPT ![c] = 0]
  /\ release_temp(c)
  /\ UNCHANGED <<generations, lifetime_values>>

release_handle_temp(c) ==
  /\ is_active(c)
  /\ ~IsOpen(lifetime_values[identity(c)])
  /\ active' = [active EXCEPT ![c] = 0]
  /\ release_temp(c)
  /\ UNCHANGED <<generations, lifetime_values>>

\* release_temp_result: a slot without a handle lifetime goes straight back.
ReleaseRaw(c) ==
  /\ ~is_active(c)
  /\ release_temp(c)
  /\ UNCHANGED <<active, generations, lifetime_values>>

TempNext ==
  \E c \in Cnames :
    \/ \E ownership \in Ownerships, reusable \in BOOLEAN :
         allocate_handle_temp(c, ownership, reusable)
    \/ \E reusable \in BOOLEAN : AllocateRaw(c, reusable)
    \/ close_handle_temp(c)
    \/ move_handle_temp(c)
    \/ release_handle_temp(c)
    \/ ReleaseRaw(c)

TempSpec == TempInit /\ [][TempNext]_tempVars

-----------------------------------------------------------------------------
\* A slot the pool can hand out carries no handle lifetime, so reusing it can
\* neither raise "already allocated" nor drop a live handle (Code.py
\* release_handle_temp releases the lifetime before the slot).
FreeSlotsAreUnbound == \A c \in temps_free : ~is_active(c)

\* The check at the end of a function (FunctionState.validate_exit) looks only
\* at bound slots; it is complete because every lifetime still live and owned
\* is the one its slot is bound to.
LiveOwnedIsBound ==
  \A l \in Lifetimes : IsOpen(lifetime_values[l]) => active[l[1]] = l[2]

\* Generations name lifetimes: none is declared beyond the slot's counter, so
\* a reused slot never inherits the state of an earlier lifetime.
GenerationsAreFresh ==
  \A l \in Lifetimes : l[2] > generations[l[1]] => lifetime_values[l] = NoLifetime

\* The pool and the manager agree on the slots in use: one bound to a handle
\* has been declared and is not held free.
BoundSlotsAreTaken ==
  \A c \in Cnames : is_active(c) => c \in (1 .. temp_counter) \ freed

\* Every owned lifetime is acquired once and ended at most once.
Phase(v) == IF v.ownership # "owned" THEN "unborn"
            ELSE IF v.state = "live" THEN "live" ELSE "ended"

lifetimePhase == [l \in Lifetimes |-> Phase(lifetime_values[l])]

Linear == INSTANCE LinearResource WITH phase <- lifetimePhase

LinearSpec == Linear!Spec
=============================================================================
