----------------------------- MODULE NeutralAI -----------------------------
(***************************************************************************)
(* What the neutral factions intend when a turn is resolved: every unit of *)
(* theirs attacks an enemy beside it, or holds.  The intents come out of   *)
(* resolveTurn(state, outActions); nothing in the program carries them out *)
(* yet, so that they are a function of the world and change nothing.       *)
(***************************************************************************)
EXTENDS Economy

CONSTANTS
  RegistryOrder,    \* the factions in the order of the registry
  IsPlayer          \* per faction: its type is FactionType::Player

\* Every unit type has the action points for a blow when a turn begins.  Not
\* every one can strike: a settler's range is 0.
ASSUME NeutralAssumption ==
  /\ RegistryOrder \in Seq(Factions) /\ IsInjective(RegistryOrder)
  /\ Range(RegistryOrder) = Registered
  /\ IsPlayer \in [Factions -> BOOLEAN]
  /\ \A k \in Kinds : Template[k].moves >= AttackCost

\* The neighbours of a tile, on the map or not.
NeighborOrder(t) ==
  LET odd == t[1] % 2
  IN  << <<t[1] - 1, t[2] + odd - 1>>, <<t[1] - 1, t[2] + odd>>, <<t[1], t[2] - 1>>,
         <<t[1], t[2] + 1>>, <<t[1] + 1, t[2] + odd - 1>>, <<t[1] + 1, t[2] + odd>> >>

\* Mutant: on each tile, only the first unit is looked at.
FirstUnitOnly(w, t, own) ==
  {i \in Indices(w) :
     /\ UnitAt(w, i).tile = t
     /\ \A j \in Indices(w) : UnitAt(w, j).tile = t => i <= j
     /\ <<own, UnitAt(w, i).faction>> \in AtWar}

EnemiesOn(w, t, own) ==
  {i \in Indices(w) :
     /\ UnitAt(w, i).tile = t
     /\ Alive(UnitAt(w, i))
     /\ <<own, UnitAt(w, i).faction>> \in AtWar}

\* The neighbours of a tile, by their place in the order, that have an enemy.
Beside(w, t, own) ==
  {n \in 1 .. 6 : NeighborOrder(t)[n] \in Tiles /\ EnemiesOn(w, NeighborOrder(t)[n], own) # {}}

\* The first enemy of the unit vector on the first such neighbour.
FindAdjacentEnemy(w, t, own) ==
  Min(EnemiesOn(w, NeighborOrder(t)[Min(Beside(w, t, own))], own))

Intent(w, i) ==
  LET u == UnitAt(w, i)
  IN  IF Beside(w, u.tile, u.faction) = {}
      THEN [type |-> "Hold", unitIndex |-> i, faction |-> u.faction, target |-> u.tile]
      ELSE [type |-> "Attack", unitIndex |-> i, faction |-> u.faction,
            target |-> UnitAt(w, FindAdjacentEnemy(w, u.tile, u.faction)).tile]

GenerateFactionActions(w, f) ==
  LET after[n \in 0 .. Len(w.order)] ==
        IF n = 0 THEN <<>>
        ELSE IF UnitAt(w, n).faction = f /\ Alive(UnitAt(w, n))
        THEN Append(after[n - 1], Intent(w, n)) ELSE after[n - 1]
  IN  after[Len(w.order)]

GenerateActions(w) ==
  LET after[n \in 0 .. Len(RegistryOrder)] ==
        IF n = 0 THEN <<>>
        ELSE IF IsPlayer[RegistryOrder[n]] THEN after[n - 1]
        ELSE after[n - 1] \o GenerateFactionActions(w, RegistryOrder[n])
  IN  after[Len(RegistryOrder)]

\* resolveTurn(state, outActions): the intents are those before the movement
\* is given back.
ResolveTurnWithActions(w) ==
  [world |-> ResolveTurn(w),
   actions |-> GenerateActions([w EXCEPT !.town = ResolveCities(w.town)])]

-----------------------------------------------------------------------------
(* What is checked, of any world a turn is resolved in. *)

\* As the new turn begins, AttackAction accepts an attack that is intended, on
\* some unit that stands on the intended tile, if the attacker's kind has any
\* range; and if it has none, as settlers have not, AttackAction refuses what
\* was intended for it, whichever unit on the tile is meant.
IntentsCanBeCarriedOut(w) ==
  LET resolved == ResolveTurnWithActions(w)
      there == resolved.world
  IN  \A n \in DOMAIN resolved.actions :
        LET intent == resolved.actions[n]
        IN  intent.type = "Attack" =>
              ((\E j \in Indices(there) :
                  /\ UnitAt(there, j).tile = intent.target
                  /\ ValidAttack(there, intent.unitIndex, j))
                <=> Template[UnitAt(there, intent.unitIndex).kind].range > 0)

\* Every living unit of a neutral faction has one intent, and it is to attack
\* exactly when the unit stands in an enemy's zone of control: the scan of the
\* unit vector here and that of the registry in ZoneOfControl find the same
\* enemies.
NeutralsSee(w) ==
  LET actions == GenerateActions(w)
  IN  \A i \in Indices(w) :
        LET u == UnitAt(w, i)
            own == {n \in DOMAIN actions : actions[n].unitIndex = i}
        IN  /\ Cardinality(own) = (IF u.faction \in Registered /\ ~IsPlayer[u.faction] THEN 1 ELSE 0)
            /\ \A n \in own :
                 actions[n].type = "Attack" <=> EnemiesNear(w, u.tile, u.faction) # {}

=============================================================================
