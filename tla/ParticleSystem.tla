---------------------------- MODULE ParticleSystem ----------------------------
(***************************************************************************)
(* The particles of the engine (ParticleSystem): a pool of fixed size in   *)
(* which emit looks for dead particles from a hint on and which update     *)
(* ages.  Where particles fly is left out; time is in units of 100         *)
(* milliseconds, of which the lifetimes are multiples.                     *)
(***************************************************************************)
EXTENDS Integers, FiniteSetsExt

CONSTANTS
  MaxParticles,      \* MAX_PARTICLES
  FrameTimes,        \* how long a frame may take
  MaxBurst           \* bound of the model: particles emitted at once

ParticleAssumption ==
  MaxParticles \in Nat \ {0} /\ FrameTimes \subseteq Nat \ {0} /\ MaxBurst \in Nat

VARIABLES pool, searchHint

vars == <<pool, searchHint>>

Slots == 0 .. MaxParticles - 1

\* Lifetime, and what of the opacity of 255 fades in a unit of time.
defaultProperties ==
  [CombatHit |-> [lifetime |-> 6, fadeRate |-> 40],
   UnitSpawn |-> [lifetime |-> 8, fadeRate |-> 30],
   BuildingComplete |-> [lifetime |-> 10, fadeRate |-> 24],
   Capture |-> [lifetime |-> 9, fadeRate |-> 27],
   LevelUp |-> [lifetime |-> 12, fadeRate |-> 20]]

ParticleType == DOMAIN defaultProperties

\* What a dead particle was is never read.
DeadParticle == [alive |-> FALSE, type |-> "CombatHit", age |-> 0, alpha |-> 0]

Fresh(type) == [alive |-> TRUE, type |-> type, age |-> 0, alpha |-> 255]

Init == pool = [s \in Slots |-> DeadParticle] /\ searchHint = 0

\* Mutant: the search ends at the end of the pool.
findDeadSlotToTheEnd(p, hint) ==
  LET dead == {s \in Slots : ~p[s].alive /\ s >= hint}
  IN  IF dead = {} THEN MaxParticles ELSE Min(dead)

\* The first dead particle from the hint on, all the way round;
\* MaxParticles if there is none.
findDeadSlot(p, hint) ==
  LET ahead == {i \in Slots : ~p[(hint + i) % MaxParticles].alive}
  IN  IF ahead = {} THEN MaxParticles ELSE (hint + Min(ahead)) % MaxParticles

Particle == [alive : BOOLEAN, type : ParticleType, age : Nat, alpha : 0 .. 255]

\* One round of emit's loop, on pool and hint.
EmitOne(type) ==
  [s \in [pool : [Slots -> Particle], hint : Slots] |->
     LET slot == findDeadSlot(s.pool, s.hint)
     IN  IF slot = MaxParticles THEN s
         ELSE [pool |-> [s.pool EXCEPT ![slot] = Fresh(type)], hint |-> (slot + 1) % MaxParticles]]

\* Pool and hint after so many rounds.
Rounds(type, count) ==
  LET after[n \in 0 .. count] ==
        IF n = 0 THEN [pool |-> pool, hint |-> searchHint] ELSE EmitOne(type)[after[n - 1]]
  IN  after

\* What finds no place is not emitted.
Emitted(type, count) == Rounds(type, count)[count]

emit(type, count) ==
  /\ pool' = Emitted(type, count).pool
  /\ searchHint' = Emitted(type, count).hint

Aged(p, dt) ==
  LET age == p.age + dt
  IN  IF ~p.alive \/ age >= defaultProperties[p.type].lifetime THEN DeadParticle
      ELSE [p EXCEPT !.age = age, !.alpha = Max({255 - defaultProperties[p.type].fadeRate * age, 0})]

update(dt) == pool' = [s \in Slots |-> Aged(pool[s], dt)] /\ UNCHANGED searchHint

Update == \E dt \in FrameTimes : update(dt)

Next == Update \/ \E type \in ParticleType, count \in 0 .. MaxBurst : emit(type, count)

\* The frames go on.
Spec == Init /\ [][Next]_vars /\ WF_vars(Update)

-----------------------------------------------------------------------------
(* What is checked. *)

Living == {s \in Slots : pool[s].alive}

TypeOK ==
  /\ searchHint \in Slots
  /\ \A s \in Slots : /\ pool[s].alive \in BOOLEAN /\ pool[s].type \in ParticleType
                      /\ pool[s].age \in 0 .. defaultProperties[pool[s].type].lifetime - 1
                      /\ pool[s].alpha \in 0 .. 255

\* What lives is to be seen: no particle of the default types takes a slot
\* after it has faded.
LivingAreSeen == \A s \in Living : pool[s].alpha > 0

\* Whatever is emitted next, it takes no living particle's place, and there
\* is none too few as long as there is place.
EmitUsesThePool ==
  \A type \in ParticleType, count \in 0 .. MaxBurst :
    LET after == Emitted(type, count).pool
        lives == {s \in Slots : after[s].alive}
    IN  /\ \A s \in Living : after[s] = pool[s]
        /\ Cardinality(lives) = Min({Cardinality(Living) + count, MaxParticles})

\* A full pool gets place again.
FullPoolEmpties == Living = Slots ~> Living # Slots

\* The pool serves all that are emitted, as far as it goes.
PoolIsUsed == TypeOK /\ LivingAreSeen /\ EmitUsesThePool

=============================================================================
