------------------------------ MODULE Economy ------------------------------
(***************************************************************************)
(* Cities, their build queues and the buildings, and TurnResolver, which   *)
(* lets a turn pass: yields, production, growth, and fresh movement for    *)
(* every unit.  (The turn counter is kept by the modules that use this     *)
(* one; NeutralAI's intents are computed there and dropped.)               *)
(*                                                                         *)
(* The record `town' of a world has, on top of owner, queue and stock,     *)
(*   population, food   per city                                           *)
(*   buildings          the building vector                                *)
(*   gold               per faction, and Common for factionResources()     *)
(***************************************************************************)
EXTENDS World

CONSTANTS
  BuildingTypes,
  Yield,                 \* per type: gold, production, food each turn
  BuildCost,             \* the production each type takes
  Registered,            \* the factions the FactionRegistry knows
  ProductionPerTurn,     \* City::productionPerTurn
  BaseGrowth, GrowthPerPopulation

ASSUME EconomyAssumption ==
  /\ BuildingTypes \cap Kinds = {}
  /\ Yield \in [BuildingTypes -> [gold : Nat, production : Nat, food : Nat]]
  /\ BuildCost \in [BuildingTypes -> Nat]
  /\ Registered \subseteq Factions
  /\ {ProductionPerTurn, BaseGrowth, GrowthPerPopulation} \subseteq Nat

Common == "factionResources"

ASSUME CommonIsNoFaction == Common \notin Factions

\* `by' is history: the faction whose player placed the order.
Orders == [item : Kinds \cup BuildingTypes, cost : Nat, tile : Tiles, by : Factions]

Buildings == [type : BuildingTypes, tile : Tiles, faction : Factions]

Towns ==
  [owner : [Cities -> Factions], queue : [Cities -> Seq(Orders)],
   stock : [Cities -> Nat], population : [Cities -> Nat], food : [Cities -> Nat],
   buildings : Seq(Buildings), gold : [Factions \cup {Common} -> Nat]]

Enqueue(town, c, order) == [town EXCEPT !.queue[c] = Append(@, order)]

\* What the buildings on the city's tiles yield, whoever owns them.
CityYield(town, c, resource) ==
  LET here == {b \in DOMAIN town.buildings : town.buildings[b].tile \in CityTiles[c]}
  IN  SumFunctionOnSet(
        [b \in DOMAIN town.buildings |-> Yield[town.buildings[b].type][resource]], here)

Treasury(f) == IF f \in Registered THEN f ELSE Common

GrowthThreshold(population) == BaseGrowth + GrowthPerPopulation * population

\* The production of this turn, added to what is accumulated.
Output(town, c) == town.stock[c] + ProductionPerTurn + CityYield(town, c, "production")

Completes(town, c) ==
  town.queue[c] # <<>> /\ Output(town, c) >= Head(town.queue[c]).cost

\* An idle city accumulates nothing; what exceeds the cost is lost.
ApplyProduction(town, c) ==
  IF town.queue[c] = <<>> THEN town
  ELSE IF Completes(town, c)
  THEN [town EXCEPT !.queue[c] = Tail(@), !.stock[c] = 0]
  ELSE [town EXCEPT !.stock[c] = Output(town, c)]

\* A building that is completed belongs to the city's faction; nothing asks
\* what stands on its tile already.
Raise(town, c, order) ==
  [town EXCEPT !.buildings =
     Append(@, [type |-> order.item, tile |-> order.tile, faction |-> town.owner[c]])]

\* At most one more inhabitant a turn.
Feed(town, c, food) ==
  LET stored == town.food[c] + food
      threshold == GrowthThreshold(town.population[c])
  IN  IF stored >= threshold
      THEN [town EXCEPT !.food[c] = stored - threshold, !.population[c] = @ + 1]
      ELSE [town EXCEPT !.food[c] = stored]

\* One city's turn.  The yields are those before its building is completed.
\* A unit order that is completed leaves no trace here.
ResolveCity(town, c) ==
  LET paid == [town EXCEPT !.gold[Treasury(town.owner[c])] = @ + CityYield(town, c, "gold")]
      worked == ApplyProduction(paid, c)
      built == IF Completes(town, c) /\ Head(town.queue[c]).item \in BuildingTypes
               THEN Raise(worked, c, Head(town.queue[c])) ELSE worked
  IN  Feed(built, c, CityYield(town, c, "food"))

\* The cities in their order: what one completes, the next may profit from.
ResolveCities(town) ==
  LET after[n \in 0 .. NumCities] ==
        IF n = 0 THEN town ELSE ResolveCity(after[n - 1], n)
  IN  after[NumCities]

ResetMovement(w) ==
  [w EXCEPT !.unit = [p \in DOMAIN w.unit |->
     [w.unit[p] EXCEPT !.moves = Template[w.unit[p].kind].moves]]]

\* resolveTurn(state), as GameSession and everybody else calls it.
ResolveTurn(w) == ResetMovement([w EXCEPT !.town = ResolveCities(w.town)])

-----------------------------------------------------------------------------
(* resolveTurn(state, unitRegistry): completed unit orders become units. *)

\* The neighbours of a tile in the order of TurnResolver's tables.
SpawnOrder(t) ==
  LET odd == t[1] % 2
  IN  << <<t[1] - 1, t[2] + odd - 1>>, <<t[1] - 1, t[2] + odd>>, <<t[1], t[2] + 1>>,
         <<t[1] + 1, t[2] + odd>>, <<t[1] + 1, t[2] + odd - 1>>, <<t[1], t[2] - 1>> >>

\* The neighbours without units, on whatever terrain, by their place there.
FreeNeighbors(w, c) ==
  {n \in 1 .. 6 : /\ SpawnOrder(Center[c])[n] \in Tiles
                  /\ w.registry[SpawnOrder(Center[c])[n]] = {}}

\* The first of them, or the center.
SpawnTile(w, c) ==
  IF FreeNeighbors(w, c) = {} THEN Center[c]
  ELSE SpawnOrder(Center[c])[Min(FreeNeighbors(w, c))]

FreshPointer(w) == CHOOSE p \in Pointers : p \notin DOMAIN w.unit

Spawn(w, c, order) ==
  AddUnit(w, FreshPointer(w), NewUnit(order.item, w.town.owner[c], SpawnTile(w, c)))

ResolveCitySpawning(w, c) ==
  LET resolved == [w EXCEPT !.town = ResolveCity(w.town, c)]
  IN  IF Completes(w.town, c) /\ Head(w.town.queue[c]).item \in Kinds
      THEN Spawn(resolved, c, Head(w.town.queue[c])) ELSE resolved

ResolveTurnSpawning(w) ==
  LET after[n \in 0 .. NumCities] ==
        IF n = 0 THEN w ELSE ResolveCitySpawning(after[n - 1], n)
  IN  ResetMovement(after[NumCities])

=============================================================================
