--------------------------- MODULE Serialization ---------------------------
(***************************************************************************)
(* serializeGameState and deserializeGameState: the protobuf message a     *)
(* game is saved as, and the game made from it.                            *)
(*                                                                         *)
(* A game is a record of                                                   *)
(*   turn, world                                                           *)
(*   ids, nextBuildingId   the buildings' ids, in the order of the         *)
(*                         building vector, and the next one               *)
(*   fog                   the player's grid of the FogOfWar               *)
(*   registered            the factions of the FactionRegistry; without    *)
(*                         them there are no relations either, and         *)
(*                         everybody is at peace                           *)
(* Factions, relations and fog are not part of the message.  Nor are, in   *)
(* the model, the cities' names, centers and tiles and the terrain, which  *)
(* nothing changes in a game (TerrainMap has the tiles).                   *)
(***************************************************************************)
EXTENDS FogOfWar, GameRules

ASSUME SerializationAssumption ==
  /\ Kinds \subseteq DOMAIN UnitCodes
  /\ BuildingTypes \subseteq DOMAIN BuildingCost

CityMessage(town, c) ==
  [owner |-> town.owner[c], population |-> town.population[c],
   foodSurplus |-> town.food[c], accumulatedProduction |-> town.stock[c],
   buildQueueItems |-> town.queue[c]]

\* Mutant: the experience is left out.
UnitMessageRaw(u) ==
  [type |-> UnitCodes[u.kind], tile |-> u.tile, health |-> u.health,
   movementRemaining |-> u.moves, faction |-> u.faction, experience |-> 0]

UnitMessage(u) ==
  [type |-> UnitCodes[u.kind], tile |-> u.tile, health |-> u.health,
   movementRemaining |-> u.moves, faction |-> u.faction, experience |-> u.xp]

SerializeGameState(g) ==
  [turn |-> g.turn,
   nextBuildingId |-> g.nextBuildingId,
   cities |-> [c \in Cities |-> CityMessage(g.world.town, c)],
   buildings |-> [n \in DOMAIN g.ids |-> [id |-> g.ids[n], building |-> g.world.town.buildings[n]]],
   units |-> [i \in Indices(g.world) |-> UnitMessage(UnitAt(g.world, i))],
   factionResources |-> g.world.town.gold[Common]]

-----------------------------------------------------------------------------

\* A unit starts out as its template has it; its health, movement and
\* experience are then set, each within its limits.
UnitOf(m) ==
  LET kind == TemplateKeyOfCode[m.type]
      t == Template[kind]
  IN  [NewUnit(kind, m.faction, m.tile) EXCEPT
         !.health = AtLeast(AtMost(m.health, t.health), 0),
         !.moves = AtLeast(AtMost(m.movementRemaining, t.moves), 0),
         !.xp = AtLeast(m.experience, 0)]

\* A city begins with a population of 1.
TownOf(m) ==
  [owner |-> [c \in Cities |-> m.cities[c].owner],
   queue |-> [c \in Cities |-> m.cities[c].buildQueueItems],
   stock |-> [c \in Cities |-> m.cities[c].accumulatedProduction],
   population |-> [c \in Cities |-> 1 + (m.cities[c].population - 1)],
   food |-> [c \in Cities |-> m.cities[c].foodSurplus],
   buildings |-> [n \in DOMAIN m.buildings |-> m.buildings[n].building],
   gold |-> [f \in Factions \cup {Common} |-> IF f = Common THEN m.factionResources ELSE 0]]

\* The units are added one by one, to a world that has the cities.
WorldOf(m) ==
  LET empty == [order |-> <<>>, unit |-> [p \in {} |-> p],
                registry |-> [t \in Tiles |-> {}], town |-> TownOf(m)]
      after[n \in 0 .. Len(m.units)] ==
        IF n = 0 THEN empty
        ELSE LET w == after[n - 1] IN AddUnit(w, FreshPointer(w), UnitOf(m.units[n]))
  IN  after[Len(m.units)]

\* Mutant: ids start over at 1.
DeserializeRenumbering(m) ==
  [turn |-> m.turn, world |-> WorldOf(m),
   ids |-> [n \in DOMAIN m.buildings |-> m.buildings[n].id],
   nextBuildingId |-> 1, fog |-> Dark, registered |-> {}]

DeserializeGameState(m) ==
  [turn |-> m.turn, world |-> WorldOf(m),
   ids |-> [n \in DOMAIN m.buildings |-> m.buildings[n].id],
   nextBuildingId |-> m.nextBuildingId, fog |-> Dark, registered |-> {}]

=============================================================================
