-------------------------- MODULE ActionProcessor --------------------------
(***************************************************************************)
(* The world of a GameSession, changed by game::ActionProcessor on behalf  *)
(* of its clients, and by the end of the turn.                             *)
(*                                                                         *)
(* A client names units by their index, from whatever world it last saw;   *)
(* the indices are checked against the present world only, so each action  *)
(* here comes with any index.  An action that is refused changes nothing   *)
(* and is left out.  (EndTurnAction is in TurnServer.)                     *)
(***************************************************************************)
EXTENDS Economy

CONSTANTS
  Players,
  FactionOf,        \* per player, as the session has it
  InitialUnits,     \* the pointers of the units at the start, in order
  InitialUnit,      \* and the units
  InitialOwner,     \* the faction of each city
  Costs,            \* the production costs that clients name for units,
  BuildTiles,       \* the tiles they name for buildings,
  Beyond,           \* and the places beside the map they name for moves
  MaxQueue,         \* bound of the model: the longest build queue
  MaxTurn           \* bound of the model: no turn after this one

ASSUME SessionAssumption ==
  /\ FactionOf \in [Players -> Factions]
  /\ InitialUnits \in Seq(Pointers) /\ IsInjective(InitialUnits)
  /\ InitialUnit \in [Range(InitialUnits) -> Units]
  /\ \A p \in Range(InitialUnits) : Alive(InitialUnit[p])
  /\ InitialOwner \in [Cities -> Factions]
  /\ Costs \subseteq Nat /\ BuildTiles \subseteq Tiles /\ Beyond \subseteq BesideTheMap
  /\ MaxQueue \in Nat /\ MaxTurn \in Nat

\* There is only so much memory.
ASSUME MemoryAssumption == IsFiniteSet(Pointers)

VARIABLES
  world,
  online,        \* the players whose status is Connected
  turn,
  process        \* "running"; "ended"; or "strayed": a unit has left the map

vars == <<world, online, turn, process>>

InitialTown ==
  [owner |-> InitialOwner, queue |-> [c \in Cities |-> <<>>],
   stock |-> [c \in Cities |-> 0], population |-> [c \in Cities |-> 1],
   food |-> [c \in Cities |-> 0], buildings |-> <<>>,
   gold |-> [f \in Factions \cup {Common} |-> 0]]

\* A world set up with addUnit and addCity.
Init ==
  /\ world = [order |-> InitialUnits, unit |-> InitialUnit,
              registry |-> [t \in Tiles |-> {p \in Range(InitialUnits) : InitialUnit[p].tile = t}],
              town |-> InitialTown]
  /\ online = Players
  /\ turn = 1
  /\ process = "running"

\* Connections come and go; a player who is not connected is refused.
Connectivity ==
  /\ \E p \in Players : online' = IF p \in online THEN online \ {p} ELSE online \cup {p}
  /\ UNCHANGED <<world, turn>>

\* Whose units they are is not asked: the three actions below depend on the
\* player only in that it is connected.
ProcessMove ==
  \E i \in Indices(world), t \in Tiles :
    /\ ValidMove(world, i, t)
    /\ world' = Move(world, i, t)

ProcessAttack ==
  \E i, j \in Indices(world) :
    /\ ValidAttack(world, i, j)
    /\ world' = AttackUnit(world, i, j)

ProcessCapture ==
  \E i \in Indices(world) :
    /\ ValidCapture(world, i)
    /\ world' = Capture(world, i)

CityBelongsToPlayer(p, c) == world.town.owner[c] = FactionOf[p]

\* The client names the cost of the unit; the queue has no limit of its own.
ProcessProduceUnit(p) ==
  \E c \in Cities, k \in Kinds, cost \in Costs :
    /\ CityBelongsToPlayer(p, c)
    /\ Len(world.town.queue[c]) < MaxQueue
    /\ world' = [world EXCEPT !.town = Enqueue(world.town, c,
         [item |-> k, cost |-> cost, tile |-> Center[c], by |-> FactionOf[p]])]

\* The client names the tile, on the city's ground or not.
ProcessBuild(p) ==
  \E c \in Cities, b \in BuildingTypes, t \in BuildTiles :
    /\ CityBelongsToPlayer(p, c)
    /\ Len(world.town.queue[c]) < MaxQueue
    /\ world' = [world EXCEPT !.town = Enqueue(world.town, c,
         [item |-> b, cost |-> BuildCost[b], tile |-> t, by |-> FactionOf[p]])]

ProcessAction ==
  /\ \E p \in online :
       \/ ProcessMove
       \/ ProcessAttack
       \/ ProcessCapture
       \/ ProcessProduceUnit(p)
       \/ ProcessBuild(p)
  /\ UNCHANGED <<online, turn>>

\* GameSession::applyAction, which asks only that the player exists.
ApplyAction ==
  /\ Players # {}
  /\ ProcessMove \/ ProcessAttack \/ ProcessCapture
  /\ UNCHANGED <<online, turn>>

\* A client, connected or not in applyAction, names a destination beside the
\* map.  Map::tile asserts that it is on the map; a build without assertions
\* reads whatever is there, which may end the process, too.  Or it is taken for
\* some terrain: one that getTerrainProperties does not know, that is
\* impassable or too dear, and nothing changes; or one that the unit can pay
\* for, and if no zone of control is in the way, it walks off the map.
MoveOffTheMap ==
  \E i \in Indices(world), t \in Beyond :
    /\ Players # {}
    /\ MayStepOff(world, i, t)
    /\ \/ process' = "ended" /\ UNCHANGED world
       \/ \E cost \in 1 .. UnitAt(world, i).moves :
            /\ ~BlockedByZoc(world, UnitAt(world, i).tile, t, UnitAt(world, i).faction)
            /\ world' = Walk(world, i, t, cost)
            /\ process' = "strayed"
    /\ UNCHANGED <<online, turn>>

\* GameSession::tryAdvanceTurn.
EndOfTurn ==
  /\ turn < MaxTurn
  /\ world' = ResolveTurn(world)
  /\ turn' = turn + 1
  /\ UNCHANGED online

\* A caller that has a unit type registry.  The model stops short of running
\* out of pointers.
EndOfTurnSpawning ==
  /\ turn < MaxTurn
  /\ Cardinality(Pointers \ DOMAIN world.unit) >= NumCities
  /\ world' = ResolveTurnSpawning(world)
  /\ turn' = turn + 1
  /\ UNCHANGED online

\* What is done on the map.
PlayNext == Connectivity \/ ProcessAction \/ ApplyAction \/ EndOfTurn

\* The model ends with the first unit that walks off the map: everything that
\* reads the terrain under that unit is undefined again.
Next ==
  /\ process = "running"
  /\ \/ PlayNext /\ UNCHANGED process
     \/ MoveOffTheMap

Spec == Init /\ [][Next]_vars

\* The same with everybody connected and a unit type registry at hand.
SpawningNext ==
  /\ process = "running"
  /\ \/ (ProcessAction \/ EndOfTurnSpawning) /\ UNCHANGED process
     \/ MoveOffTheMap

SpawningSpec == Init /\ [][SpawningNext]_vars

-----------------------------------------------------------------------------
(* What is checked. *)

\* One unit has left the map, from a tile of its edge; but for its position the
\* world is as it should be.
OneHasStrayed(w) ==
  \E p \in DOMAIN w.unit, t \in Tiles :
    /\ w.unit[p].tile \in BesideTheMap
    /\ HexDistance(t, w.unit[p].tile) = 1
    /\ WorldShape([w EXCEPT !.unit = [@ EXCEPT ![p].tile = t]])

TypeOK ==
  /\ process \in {"running", "ended", "strayed"}
  /\ IF process = "strayed" THEN OneHasStrayed(world) ELSE WorldShape(world)
  /\ world.town \in Towns
  /\ online \in SUBSET Players
  /\ turn \in Nat

\* GameState's two ways to find a unit agree after every action: the vector
\* that owns them and the tile registry that AttackAction, MoveAction,
\* ZoneOfControl and the spawning of units search on the map.
Consistent == VectorExact(world) /\ RegistryExact(world)

\* Nobody who has fallen is ever left on the map, so that the code that
\* does not look (ZoneOfControl, FogOfWar) need not.
NobodyDead == \A p \in DOMAIN world.unit : Alive(world.unit[p])

\* The units are where and what everybody who looks for them takes them for.
WorldIsSound == Consistent /\ NobodyDead

\* The units of faction g next to t, by their own positions.
Guards(w, t, g) ==
  {p \in DOMAIN w.unit : w.unit[p].faction = g /\ w.unit[p].tile \in Neighbors(t)}

\* No unit slips past an enemy: a step between two tiles that units of one
\* faction at war with it stand next to is never taken.
NobodySlipsPast ==
  [][\A p \in DOMAIN world.unit \cap DOMAIN world'.unit :
       LET from == world.unit[p].tile
           to == world'.unit[p].tile
           f == world.unit[p].faction
       IN  from # to =>
             ~\E g \in Factions : /\ <<f, g>> \in AtWar
                                  /\ Guards(world, from, g) # {}
                                  /\ Guards(world, to, g) # {}]_vars

\* A city falls only to a unit on its center, and only when no unit of its
\* owner stands on its ground.
CitiesFallUndefended ==
  [][\A c \in Cities :
       world'.town.owner[c] # world.town.owner[c] =>
         /\ \E p \in DOMAIN world.unit :
              /\ world.unit[p].tile = Center[c]
              /\ world.unit[p].faction = world'.town.owner[c]
         /\ ~\E p \in DOMAIN world.unit :
              /\ world.unit[p].tile \in CityTiles[c]
              /\ world.unit[p].faction = world.town.owner[c]]_vars

\* What a city is working on was ordered by the faction that holds it: its
\* production never serves a former owner's plans.
OrdersAreTheOwners ==
  \A c \in Cities : \A n \in DOMAIN world.town.queue[c] :
    world.town.queue[c][n].by = world.town.owner[c]

\* The production a city has accumulated is for the order in hand and not
\* enough for it: nothing is hoarded by an idle city, carried over to the
\* next order, or taken over by a conqueror.
StockIsForTheOrder ==
  \A c \in Cities :
    world.town.stock[c] > 0 =>
      /\ world.town.queue[c] # <<>>
      /\ world.town.stock[c] < Head(world.town.queue[c]).cost

\* A city works for the faction that holds it, and for one order at a time.
ProductionIsTheOwners == OrdersAreTheOwners /\ StockIsForTheOrder

\* A faction without cities and units has lost for good.
EliminationIsFinal ==
  [][\A f \in Factions :
       IsFactionEliminated(world, f) => IsFactionEliminated(world', f)]_vars

-----------------------------------------------------------------------------
(* What the repository says and the code does not do. *)

\* GameSession::applyAction: the unit of an action belongs to the faction of
\* the player, so that no unit moves whose faction nobody in the session
\* leads.
OnlyOwnUnitsMove ==
  [][\A p \in DOMAIN world.unit \cap DOMAIN world'.unit :
       world'.unit[p].tile # world.unit[p].tile =>
         \E q \in Players : FactionOf[q] = world.unit[p].faction]_vars

=============================================================================
