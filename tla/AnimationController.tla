------------------------- MODULE AnimationController -------------------------
(***************************************************************************)
(* The states of animated entities (AnimationController): what is asked    *)
(* for by playAnimation, what completes by itself in update, and the       *)
(* callback that update calls on completion, which may ask for the next    *)
(* animation of the entity while update goes over the entries.             *)
(*                                                                         *)
(* Time is in units of 100 milliseconds, of which the durations are        *)
(* multiples.                                                              *)
(***************************************************************************)
EXTENDS Integers, Functions

CONSTANTS
  EntityId,
  FrameTimes,        \* the deltaTimes of update
  Chained            \* per state that has completed: what the callback plays,
                     \* or "nothing"

AnimationState == {"Idle", "Walking", "Attacking", "TakingDamage", "Dying", "Dead"}

ControllerAssumption ==
  /\ FrameTimes \subseteq Nat \ {0}
  /\ Chained \in [AnimationState -> AnimationState \cup {"nothing"}]

VARIABLES
  entries,           \* entries_: of the entities that are tracked
  deaths             \* history: reports of a death, per entity that is tracked

vars == <<entries, deaths>>

defaultDuration ==
  [Idle |-> 10, Walking |-> 8, Attacking |-> 5, TakingDamage |-> 3, Dying |-> 6, Dead |-> 0]

Entered(state) == [state |-> state, elapsed |-> 0, duration |-> defaultDuration[state]]

\* Mutant: nothing is said about leaving Dead.
isValidTransitionOut(from, to) ==
  \/ from = "Dying" /\ to = "Dead"
  \/ from # "Dying" /\ to # "Dead"

\* Dead is left for nothing, Dying for Dead, and Dead is entered from Dying.
isValidTransition(from, to) ==
  \/ from \in {"Dying", "Dead"} /\ to = "Dead"
  \/ from \notin {"Dying", "Dead"} /\ to # "Dead"

\* What playAnimation leaves of an entry.
Played(entry, state) == IF isValidTransition(entry.state, state) THEN Entered(state) ELSE entry

Init == entries = [e \in {} |-> 0] /\ deaths = [e \in {} |-> 0]

\* A new entity is accepted in any state.
playAnimation(e, state) ==
  /\ entries' = [x \in DOMAIN entries \cup {e} |->
                   IF x # e THEN entries[x]
                   ELSE IF e \in DOMAIN entries THEN Played(entries[e], state) ELSE Entered(state)]
  /\ deaths' = [x \in DOMAIN entries' |-> IF x \in DOMAIN deaths THEN deaths[x] ELSE 0]

removeEntity(e) ==
  /\ entries' = Restrict(entries, DOMAIN entries \ {e})
  /\ deaths' = Restrict(deaths, DOMAIN deaths \ {e})

\* Whole rounds of a loop are taken off.
Wrapped(entry) == entry.elapsed % entry.duration

\* handleCompletion before it calls back: one-shots fall back to Idle, the
\* dying are dead, loops go round.
Completed(entry) ==
  CASE entry.state \in {"Attacking", "TakingDamage"} -> Entered("Idle")
    [] entry.state = "Dying" -> Entered("Dead")
    [] entry.state \in {"Idle", "Walking"} -> [entry EXCEPT !.elapsed = Wrapped(entry)]

Advanced(entry, dt) == IF entry.state = "Dead" THEN entry ELSE [entry EXCEPT !.elapsed = @ + dt]

Completes(entry) == entry.duration > 0 /\ entry.elapsed >= entry.duration

\* The callback plays on the entity that has completed.
CalledBack(finished, entry) ==
  IF Chained[finished] = "nothing" THEN entry ELSE Played(entry, Chained[finished])

\* update.  The entities are independent of each other.
update(dt) ==
  /\ entries' = [e \in DOMAIN entries |->
                   LET on == Advanced(entries[e], dt)
                   IN  IF Completes(on) THEN CalledBack(on.state, Completed(on)) ELSE on]
  /\ deaths' = [e \in DOMAIN entries |->
                  deaths[e] + IF entries[e].state = "Dying" /\ Completes(Advanced(entries[e], dt))
                              THEN 1 ELSE 0]

Update == \E dt \in FrameTimes : update(dt)

Next ==
  \/ Update
  \/ \E e \in EntityId :
       \/ \E state \in AnimationState : playAnimation(e, state)
       \/ removeEntity(e)

\* The frames go on.
Spec == Init /\ [][Next]_vars /\ WF_vars(Update)

-----------------------------------------------------------------------------
(* What is checked. *)

\* Among others: an animation that is over is never seen, the progress stays
\* below 1 but for Dead, however long a frame was.
TypeOK ==
  /\ DOMAIN entries \subseteq EntityId /\ DOMAIN deaths = DOMAIN entries
  /\ \A e \in DOMAIN entries :
       /\ entries[e].state \in AnimationState
       /\ entries[e].duration = defaultDuration[entries[e].state]
       /\ \/ entries[e].state = "Dead" /\ entries[e].elapsed = 0
          \/ entries[e].elapsed \in 0 .. entries[e].duration - 1

\* Nobody comes back to life: whoever is dying or dead is so until it is
\* removed, whatever is played and whatever the callback chains to it.
NobodyRises ==
  [][\A e \in DOMAIN entries \cap DOMAIN entries' :
       /\ entries[e].state = "Dead" => entries'[e].state = "Dead"
       /\ entries[e].state = "Dying" => entries'[e].state \in {"Dying", "Dead"}]_vars

\* A death is reported once: when an entity that was seen dying is dead, and
\* not before.
DeathReportedOnce ==
  \A e \in DOMAIN entries : deaths[e] = 0 \/ (deaths[e] = 1 /\ entries[e].state = "Dead")

\* The dying die, even if Dying is played again and again.
DyingDies ==
  \A e \in EntityId :
    (e \in DOMAIN entries /\ entries[e].state = "Dying")
      ~> (e \in DOMAIN entries => entries[e].state = "Dead")

\* Death is final, and reported once.
DeadStayDead == [](TypeOK /\ DeathReportedOnce) /\ NobodyRises

=============================================================================
