------------------------------- MODULE World -------------------------------
(***************************************************************************)
(* game::GameState as far as units and cities go, and the three actions    *)
(* that change it during a turn: MoveAction, AttackAction, CaptureAction.  *)
(*                                                                         *)
(* The units are owned by a vector of pointers and found by position       *)
(* through the TileRegistry, which keeps pointers of its own.  So a world  *)
(* is a record of                                                          *)
(*   order      the vector: unit indices are positions in it (from 1)      *)
(*   unit       the unit objects that exist, by pointer                    *)
(*   registry   the unit pointers filed under each tile                    *)
(*   town       the cities: a record of functions on them, among which     *)
(*              owner (the faction), queue (the production orders) and     *)
(*              stock (the production accumulated for the first order)     *)
(* and using the pointer of a unit that no longer exists is an error that  *)
(* TLC reports.  Everything is a function from worlds to worlds, because   *)
(* callers run several of these operations within one call of their own.   *)
(*                                                                         *)
(* A unit is a record; `kind' selects its template.  The level is a        *)
(* function of the experience (the code recomputes it whenever that        *)
(* changes), so it is not kept.                                            *)
(***************************************************************************)
EXTENDS HexGrid, FiniteSets, Sequences, SequencesExt

CONSTANTS
  Kinds,             \* the keys of the unit type registry
  Template,          \* per kind: health, attack, defense, moves, range
  XpThresholds,      \* the experience each level takes, in order
  XpPerDamage, XpKillBonus, XpDefendSurvive,
  StatBonusPerLevel,
  Pointers,          \* where unit objects can live
  Factions,
  AtWar,             \* the pairs of factions at war, both ways round
  MoveCost,          \* of entering each tile; 0 for impassable terrain
  TerrainBonus,      \* the defense modifier of each tile
  NumCities,         \* the length of the city vector
  Center,            \* per city
  CityTiles          \* per city

CombatStats == [health : Nat \ {0}, attack : Nat, defense : Nat, moves : Nat, range : Nat]

ASSUME CombatAssumption ==
  /\ Template \in [Kinds -> CombatStats]
  /\ XpThresholds \subseteq Nat /\ IsFiniteSet(XpThresholds)
  /\ {XpPerDamage, XpKillBonus, XpDefendSurvive, StatBonusPerLevel} \subseteq Nat

Cities == 1 .. NumCities

ASSUME WorldAssumption ==
  /\ NumCities \in Nat
  /\ AtWar \subseteq Factions \X Factions
  /\ \A f, g \in Factions : <<f, g>> \in AtWar => f # g /\ <<g, f>> \in AtWar
  /\ MoveCost \in [Tiles -> Nat]
  /\ TerrainBonus \in [Tiles -> Int]
  /\ \A t \in Tiles, k \in Kinds : Template[k].defense + TerrainBonus[t] >= 0
  /\ Center \in [Cities -> Tiles]
  /\ CityTiles \in [Cities -> SUBSET Tiles]
  /\ \A c \in Cities : Center[c] \in CityTiles[c]

\* AttackAction: ATTACK_MOVEMENT_COST.
AttackCost == 1

Units ==
  {u \in [kind : Kinds, faction : Factions, tile : Tiles, health : Nat,
          moves : Nat, xp : Nat] :
     /\ u.health <= Template[u.kind].health
     /\ u.moves <= Template[u.kind].moves}

NewUnit(k, f, t) ==
  [kind |-> k, faction |-> f, tile |-> t, health |-> Template[k].health,
   moves |-> Template[k].moves, xp |-> 0]

-----------------------------------------------------------------------------
(* Combat.h and Unit.h: experience and the resolution of one exchange of      *)
(* blows, which does not change the units it is given.                        *)

AtLeast(n, low) == IF n < low THEN low ELSE n

AtMost(n, high) == IF n > high THEN high ELSE n

Level(u) == Cardinality({x \in XpThresholds : u.xp >= x})

Attack(u) == Template[u.kind].attack + Level(u) * StatBonusPerLevel

Defense(u) == Template[u.kind].defense + Level(u) * StatBonusPerLevel

\* No blow does less than one point of damage, nor more than there is
\* health.
Blow(striker, struck, terrainBonus) ==
  AtMost(AtLeast(Attack(striker) - (Defense(struck) + terrainBonus) \div 2, 1),
         struck.health)

\* Only melee units strike back, and only at a neighbour.
Answers(u, distance) == Template[u.kind].range = 1 /\ distance <= 1

\* What an attack does: the damage to the defender, and that of the
\* counter-attack, which a defender who falls does not get to make.
Exchange(a, d, distance, bonusAtDefender, bonusAtAttacker) ==
  LET hit == Blow(a, d, bonusAtDefender)
  IN  [toDefender |-> hit,
       toAttacker |-> IF hit < d.health /\ Answers(d, distance)
                      THEN Blow(d, a, bonusAtAttacker) ELSE 0]

Wounded(u, damage) == [u EXCEPT !.health = AtLeast(@ - damage, 0)]

Alive(u) == u.health > 0

\* Experience for the attacker, and for a defender who survives.
AttackerXp(x, defenderFalls) ==
  x.toDefender * XpPerDamage + (IF defenderFalls THEN XpKillBonus ELSE 0)

DefenderXp(x, attackerFalls) ==
  XpDefendSurvive + x.toAttacker * XpPerDamage
    + (IF attackerFalls THEN XpKillBonus ELSE 0)

-----------------------------------------------------------------------------
(* Bookkeeping. *)

\* Mutant: the unit stays filed under the tile it left.
FileAlso(w, p, t) ==
  [w EXCEPT !.registry = [@ EXCEPT ![t] = @ \cup {p}],
            !.unit = [@ EXCEPT ![p].tile = t]]

\* Unregister at the old tile, set the position, register at the new tile.
\* (Of the registry, a world has what is filed under the tiles of the map.)
Relocate(w, p, t) ==
  [order |-> w.order,
   unit |-> [q \in DOMAIN w.unit |->
     IF q = p THEN [w.unit[q] EXCEPT !.tile = t] ELSE w.unit[q]],
   registry |-> [n \in Tiles |->
     IF n = t THEN w.registry[n] \cup {p}
     ELSE IF n = w.unit[p].tile THEN w.registry[n] \ {p} ELSE w.registry[n]],
   town |-> w.town]

\* p is a pointer that no existing unit has.
AddUnit(w, p, u) ==
  [order |-> Append(w.order, p),
   unit |-> [q \in DOMAIN w.unit \cup {p} |-> IF q = p THEN u ELSE w.unit[q]],
   registry |-> [w.registry EXCEPT ![u.tile] = @ \cup {p}],
   town |-> w.town]

RemoveUnit(w, i) ==
  LET p == w.order[i]
  IN  [order |-> RemoveAt(w.order, i),
       unit |-> Restrict(w.unit, DOMAIN w.unit \ {p}),
       registry |-> [w.registry EXCEPT ![w.unit[p].tile] = @ \ {p}],
       town |-> w.town]

UnitAt(w, i) == w.unit[w.order[i]]

Indices(w) == DOMAIN w.order

-----------------------------------------------------------------------------
(* Zones of control. *)

\* The factions at war with f that have a unit next to t.
EnemiesNear(w, t, f) ==
  {g \in Factions :
     /\ <<f, g>> \in AtWar
     /\ \E n \in Neighbors(t) : \E p \in w.registry[n] : w.unit[p].faction = g}

\* From one zone of control into another of the same enemy.
BlockedByZoc(w, from, to, f) == EnemiesNear(w, to, f) \cap EnemiesNear(w, from, f) # {}

-----------------------------------------------------------------------------
(* MoveAction. *)

\* Mutant: zones of control do not matter.
ValidMoveAnywhere(w, i, t) ==
  /\ i \in Indices(w)
  /\ LET u == UnitAt(w, i) IN
       /\ Alive(u)
       /\ u.moves > 0
       /\ HexDistance(u.tile, t) = 1
       /\ MoveCost[t] # 0
       /\ u.moves >= MoveCost[t]

\* Mutant: any movement left will do.
ValidMoveOnCredit(w, i, t) ==
  /\ i \in Indices(w)
  /\ LET u == UnitAt(w, i) IN
       /\ Alive(u)
       /\ u.moves > 0
       /\ HexDistance(u.tile, t) = 1
       /\ MoveCost[t] # 0
       /\ ~BlockedByZoc(w, u.tile, t, u.faction)

\* Other units on the destination, a tile of the map, are no obstacle.
ValidMove(w, i, t) ==
  /\ i \in Indices(w)
  /\ LET u == UnitAt(w, i) IN
       /\ Alive(u)
       /\ u.moves > 0
       /\ HexDistance(u.tile, t) = 1
       /\ MoveCost[t] # 0
       /\ u.moves >= MoveCost[t]
       /\ ~BlockedByZoc(w, u.tile, t, u.faction)

Walk(w, i, t, cost) ==
  LET p == w.order[i]
      moved == Relocate(w, p, t)
  IN  [moved EXCEPT !.unit = [moved.unit EXCEPT ![p].moves = @ - cost]]

Move(w, i, t) == Walk(w, i, t, MoveCost[t])

\* Whether the destination is on the map is not asked.  Beside the map are the
\* places at distance 1 from a tile of its edge that are none of its tiles.
BesideTheMap == ((-1 .. Rows) \X (-1 .. Cols)) \ Tiles

\* What is asked before Map::tile is called for the terrain of such a place.
MayStepOff(w, i, t) ==
  /\ i \in Indices(w)
  /\ LET u == UnitAt(w, i) IN
       /\ Alive(u)
       /\ u.moves > 0
       /\ HexDistance(u.tile, t) = 1

-----------------------------------------------------------------------------
(* AttackAction. *)

\* Units that share a tile are in range of each other, at distance 0.
ValidAttack(w, i, j) ==
  /\ i \in Indices(w)
  /\ j \in Indices(w)
  /\ LET a == UnitAt(w, i)
         d == UnitAt(w, j)
     IN  /\ Alive(a)
         /\ Alive(d)
         /\ <<a.faction, d.faction>> \in AtWar
         /\ a.moves >= AttackCost
         /\ HexDistance(a.tile, d.tile) <= Template[a.kind].range

ExchangeOf(w, i, j) ==
  LET a == UnitAt(w, i)
      d == UnitAt(w, j)
  IN  Exchange(a, d, HexDistance(a.tile, d.tile), TerrainBonus[d.tile], TerrainBonus[a.tile])

\* The fight itself: damage, experience, and the attacker's action points.
Fight(w, i, j) ==
  LET x == ExchangeOf(w, i, j)
      a == Wounded(UnitAt(w, i), x.toAttacker)
      d == Wounded(UnitAt(w, j), x.toDefender)
      veteran == IF Alive(a) THEN [a EXCEPT !.xp = @ + AttackerXp(x, ~Alive(d))] ELSE a
      survivor == IF Alive(d) THEN [d EXCEPT !.xp = @ + DefenderXp(x, ~Alive(a))] ELSE d
  IN  [w EXCEPT !.unit = [p \in DOMAIN @ |->
         IF p = w.order[i] THEN [veteran EXCEPT !.moves = AtLeast(@ - AttackCost, 0)]
         ELSE IF p = w.order[j] THEN survivor ELSE @[p]]]

\* Dead units of the two are removed, the higher index first.
Bury(w, i, j) ==
  LET low == IF i < j THEN i ELSE j
      high == IF i < j THEN j ELSE i
      once == IF ~Alive(UnitAt(w, high)) THEN RemoveUnit(w, high) ELSE w
  IN  IF ~Alive(UnitAt(w, low)) THEN RemoveUnit(once, low) ELSE once

AttackUnit(w, i, j) == Bury(Fight(w, i, j), i, j)

-----------------------------------------------------------------------------
(* CaptureAction. *)

\* The first city of the vector with its center on t, if there is one.
CitiesCenteredAt(t) == {c \in Cities : Center[c] = t}

CityCenteredAt(t) == CHOOSE c \in CitiesCenteredAt(t) : \A d \in CitiesCenteredAt(t) : c <= d

\* Mutant: only the center is looked at.
IsCenterDefended(w, c) ==
  \E p \in w.registry[Center[c]] : Alive(w.unit[p]) /\ w.unit[p].faction = w.town.owner[c]

IsCityDefended(w, c) ==
  \E t \in CityTiles[c] : \E p \in w.registry[t] :
    Alive(w.unit[p]) /\ w.unit[p].faction = w.town.owner[c]

ValidCapture(w, i) ==
  /\ i \in Indices(w)
  /\ LET u == UnitAt(w, i) IN
       /\ Alive(u)
       /\ CitiesCenteredAt(u.tile) # {}
       /\ LET c == CityCenteredAt(u.tile) IN
            /\ <<u.faction, w.town.owner[c]>> \in AtWar
            /\ ~IsCityDefended(w, c)

\* Mutant: the former owner's production goes on.
CaptureWithOrders(w, i) ==
  LET u == UnitAt(w, i)
      c == CityCenteredAt(u.tile)
  IN  [w EXCEPT !.town.owner[c] = u.faction]

\* The city changes hands and its production is dropped.  Capturing costs
\* no movement, and the unit need not have moved.
Capture(w, i) ==
  LET u == UnitAt(w, i)
      c == CityCenteredAt(u.tile)
  IN  [w EXCEPT !.town = [@ EXCEPT !.owner[c] = u.faction, !.queue[c] = <<>>, !.stock[c] = 0]]

\* Mutant: only the units count.
NoUnitsLeft(w, f) == \A i \in Indices(w) : Alive(UnitAt(w, i)) => UnitAt(w, i).faction # f

\* No city and no living unit left.
IsFactionEliminated(w, f) ==
  /\ \A c \in Cities : w.town.owner[c] # f
  /\ \A i \in Indices(w) : Alive(UnitAt(w, i)) => UnitAt(w, i).faction # f

-----------------------------------------------------------------------------
(* What the classes keep of a world. *)

WorldShape(w) ==
  /\ w.order \in Seq(Pointers)
  /\ DOMAIN w.unit \subseteq Pointers
  /\ w.unit \in [DOMAIN w.unit -> Units]
  /\ w.registry \in [Tiles -> SUBSET Pointers]

\* The vector owns every unit exactly once.
VectorExact(w) == IsInjective(w.order) /\ Range(w.order) = DOMAIN w.unit

\* The registry files every unit under its tile and nowhere else, and holds
\* no pointer to a unit that is gone.
RegistryExact(w) ==
  \A t \in Tiles : w.registry[t] = {p \in DOMAIN w.unit : w.unit[p].tile = t}

\* A world has exactly the fields that it is made with.
Fields(w) ==
  w = [order |-> w.order, unit |-> w.unit, registry |-> w.registry, town |-> w.town]

Sound(w) == Fields(w) /\ WorldShape(w) /\ VectorExact(w) /\ RegistryExact(w)

\* Nobody is left of those who have fallen.
Living(w) == \A p \in DOMAIN w.unit : Alive(w.unit[p])

=============================================================================
