---------------------------- MODULE MCAlgorithms ----------------------------
(***************************************************************************)
(* The computations that share no state, each on an instance of its own:   *)
(* distances, the minimap, the searches, the mouse and the generator.  A   *)
(* behaviour is one of one of them, while the others rest; so what is      *)
(* checked is what a run of each would check.                              *)
(***************************************************************************)
EXTENDS HexGrid, Minimap, FiniteSets

CONSTANTS
  Kinds, Template, Pointers, Factions, AtWar, MoveCost,   \* Pathfinding
  Worlds, Searches, red, blue, green, u1, u2, u3, scout,
  Parts, Margin, Reach, FrameTimes, HoverDelay, MaxTime,  \* Pointing
  Sizes, Dice, Noises, FactionCounts                      \* TerrainMap

VARIABLES
  part,                                                   \* which of them
  origin, reached, steps,                                 \* the flood
  world, search, queue, cost, cameFrom, done, answer,     \* Pathfinding
  mouse, tooltip, rest,                                   \* Pointing
  map, other, how, spawns                                 \* TerrainMap

floodVars == <<origin, reached, steps>>

searchVars == <<world, search, queue, cost, cameFrom, done, answer>>

pointingVars == <<mouse, tooltip, rest>>

mapVars == <<map, other, how, spawns>>

-----------------------------------------------------------------------------
(* The reference that HexGrid's formulas are checked against: a flood that *)
(* starts on one tile, the origin, and takes every step to a neighbour at  *)
(* once; reached are the tiles it has reached in so many steps.            *)

FloodInit == origin \in Tiles /\ reached = {origin} /\ steps = 0

Flood ==
  /\ steps < Rows + Cols
  /\ reached' = reached \cup UNION {Neighbors(t) : t \in reached}
  /\ steps' = steps + 1
  /\ UNCHANGED origin

-----------------------------------------------------------------------------
(* The game's own map, 40 by 24, maps of a single row or column, and some  *)
(* as large as the panel has pixels.                                       *)

MCRowSizes == 1 .. 12 \cup {40, 72, 73, 143, 144}

MCColSizes == {1, 2, 3, 4, 7, 24, 40, 97, 98, 194}

-----------------------------------------------------------------------------
(* Searches on the grid of the distances, with all kinds of terrain costs: *)
(* a unit that wants to go anywhere, an enemy, and a unit of a third       *)
(* faction that is at peace with both.                                     *)

ScoutTemplate ==
  [k \in {scout} |-> [health |-> 1, attack |-> 1, defense |-> 0, moves |-> 3, range |-> 1]]

RedAgainstBlue == {<<red, blue>>, <<blue, red>>}

FieldCost ==
  [t \in Tiles |->
     CASE t \in {<<0, 1>>, <<3, 1>>} -> 2 [] t = <<1, 1>> -> 3 [] t = <<1, 2>> -> 0 [] OTHER -> 1]

FlatField == [t \in Tiles |-> 0]

\* Red's unit stands aside in the world: searches begin wherever they like.
Scouts(enemy) ==
  LET tileOf == [p \in {u1, u2, u3} |->
                   CASE p = u1 -> <<3, 3>> [] p = u2 -> enemy [] OTHER -> <<0, 0>>]
      factionOf == [p \in {u1, u2, u3} |->
                      CASE p = u1 -> red [] p = u2 -> blue [] OTHER -> green]
  IN  [order |-> <<u1, u2, u3>>,
       unit |-> [p \in {u1, u2, u3} |->
                   [kind |-> scout, faction |-> factionOf[p], tile |-> tileOf[p],
                    health |-> 1, moves |-> 3, xp |-> 0]],
       registry |-> [t \in Tiles |-> {p \in {u1, u2, u3} : tileOf[p] = t}],
       town |-> <<>>]

SearchedWorlds == {Scouts(enemy) : enemy \in {<<0, 3>>, <<1, 1>>, <<2, 1>>, <<2, 2>>}}

AllSearches ==
  [kind : {"path", "pathWithZoc"}, start : {<<0, 1>>, <<1, 0>>, <<1, 3>>, <<3, 1>>}, goal : Tiles,
   budget : {0}, faction : {red}]
  \cup
  [kind : {"range"}, start : {<<0, 1>>, <<1, 0>>, <<1, 3>>, <<3, 1>>}, goal : {<<0, 0>>},
   budget : {1, 3, 4}, faction : {red}]

\* Searches read nothing of fights and cities.
Searching ==
  INSTANCE Pathfinding WITH
    XpThresholds <- {}, XpPerDamage <- 1, XpKillBonus <- 1, XpDefendSurvive <- 1,
    StatBonusPerLevel <- 1, TerrainBonus <- FlatField,
    NumCities <- 0, Center <- <<>>, CityTiles <- <<>>

ASSUME SearchesAssumption ==
  /\ Searching!CombatAssumption /\ Searching!WorldAssumption
  /\ Searching!PathfindingAssumption

-----------------------------------------------------------------------------
(* The mouse, on the same grid. *)

Mouse == INSTANCE Pointing

ASSUME MouseAssumption == Mouse!PointingAssumption

-----------------------------------------------------------------------------
(* Maps: a small one for the generator and its spawns, and some that are   *)
(* just large enough for the demo river, or just not.                      *)

GridOf(height, width) == (0 .. height - 1) \X (0 .. width - 1)

Land == [elevation |-> 0, moisture |-> -20]
Deep == [elevation |-> -80, moisture |-> 0]
High == [elevation |-> 50, moisture |-> 0]

\* A rectangle in a map of something else.
Patch(grid, r1, r2, c1, c2, in, out) ==
  [t \in grid |-> IF t[1] \in r1 .. r2 /\ t[2] \in c1 .. c2 THEN in ELSE out]

SmallGrid == GridOf(7, 8)

SmallDice == {[t \in SmallGrid |-> "Mountain"], [t \in SmallGrid |-> "Swamp"]}

SmallFields ==
  {Patch(SmallGrid, r[1], r[2], c[1], c[2], k[1], k[2]) :
     r \in {x \in {1, 3} \X {2, 4, 6} : x[1] <= x[2]},
     c \in {x \in {0, 3, 5} \X {2, 4, 6} : x[1] <= x[2]},
     k \in {<<Land, Deep>>, <<Deep, Land>>, <<High, Land>>}}

RiverGrid == GridOf(15, 15)

RiverDice == {[t \in RiverGrid |-> k] : k \in {"Water", "Mountain", "Swamp"}}

RiverFields ==
  {[t \in RiverGrid |-> k] : k \in {Land, Deep}} \cup {Patch(RiverGrid, 0, 8, 3, 14, Deep, High)}

MCSizes == {<<7, 8>>, <<15, 15>>, <<15, 14>>, <<1, 1>>}

MCDice == [size \in MCSizes |-> IF size = <<7, 8>> THEN SmallDice ELSE RiverDice]

MCNoises == [size \in MCSizes |-> IF size = <<7, 8>> THEN SmallFields ELSE RiverFields]

MCFactionCounts == [size \in MCSizes |-> IF size = <<7, 8>> THEN {0, 3} ELSE {0}]

Maps == INSTANCE TerrainMap

ASSUME MapsAssumption == Maps!TerrainMapAssumption

-----------------------------------------------------------------------------

GridRests == origin = <<0, 0>> /\ reached = {<<0, 0>>} /\ steps = 0

MinimapRests == rows = 1 /\ cols = 1

SearchRests ==
  world = 0 /\ search = 0 /\ queue = 0 /\ cost = 0 /\ cameFrom = 0 /\ done = FALSE /\ answer = 0

MouseRests == mouse = 0 /\ tooltip = 0 /\ rest = 0

MapRests == map = 0 /\ other = 0 /\ how = 0 /\ spawns = 0

Init ==
  \/ part = "grid" /\ FloodInit /\ MinimapRests /\ SearchRests /\ MouseRests /\ MapRests
  \/ part = "minimap" /\ MinimapInit /\ GridRests /\ SearchRests /\ MouseRests /\ MapRests
  \/ part = "search" /\ Searching!Init /\ GridRests /\ MinimapRests /\ MouseRests /\ MapRests
  \/ part = "mouse" /\ Mouse!Init /\ GridRests /\ MinimapRests /\ SearchRests /\ MapRests
  \/ part = "map" /\ Maps!Init /\ GridRests /\ MinimapRests /\ SearchRests /\ MouseRests

FloodStep ==
  part = "grid" /\ Flood /\ UNCHANGED <<part, minimapVars, searchVars, pointingVars, mapVars>>

MinimapStep ==
  part = "minimap" /\ DrawAnother /\ UNCHANGED <<part, floodVars, searchVars, pointingVars, mapVars>>

SearchStep ==
  part = "search" /\ Searching!Next /\ UNCHANGED <<part, floodVars, minimapVars, pointingVars, mapVars>>

MouseStep ==
  part = "mouse" /\ Mouse!Next /\ UNCHANGED <<part, floodVars, minimapVars, searchVars, mapVars>>

MapStep ==
  part = "map" /\ Maps!Next /\ UNCHANGED <<part, floodVars, minimapVars, searchVars, pointingVars>>

Next == FloodStep \/ MinimapStep \/ SearchStep \/ MouseStep \/ MapStep

\* A search is a loop that runs until it returns.
Spec == Init /\ [][Next]_<<part, floodVars, minimapVars, searchVars, pointingVars, mapVars>>
        /\ WF_searchVars(SearchStep)

-----------------------------------------------------------------------------

\* The distance formula counts steps between adjacent tiles: the flood has
\* reached exactly the tiles at most `steps' away (AttackAction's range,
\* MoveAction's adjacency and the heuristic of Pathfinding rely on it).
DistanceCountsSteps ==
  reached = {t \in Tiles : HexDistance(origin, t) <= steps}

\* Fog of war: the bounding box that applyVision scans misses no tile that
\* is in sight.
BoxMissesNothing == Sight(origin, steps) = reached

\* findPath, findPathWithZoc and computeMovementRange answer what comparing
\* all ways there are would give, whichever node of equal priority they take
\* first, and a planned path is one that MoveAction accepts.
SearchesAreRight == part = "search" => Searching!SearchIsRight

\* Every search returns.
SearchEnds == (part = "search") => Searching!SearchEnds

\* The mouse picks the tile whose hexagon it is on, and the tooltip shows the
\* tile on which it has been for HOVER_DELAY.
PointingIsRight == part = "mouse" => Mouse!PointingIsRight

\* The generator's terrain, spawns and rivers are what a map needs, and a save
\* gives its terrain back.
MapsAreRight == part = "map" => Maps!MapIsRight

=============================================================================
