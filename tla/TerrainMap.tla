----------------------------- MODULE TerrainMap -----------------------------
(***************************************************************************)
(* game::Map and game::MapGenerator: how the tiles of a map come to have   *)
(* their terrain, elevation, water and rivers, which of it is random,      *)
(* which is a function of the generator's seed, and which is in a save.    *)
(*                                                                         *)
(* What the random device gives, and the noise of a seed, are given per    *)
(* tile; the noise in hundredths.  Tiles are <<row, column>> from 0.       *)
(***************************************************************************)
EXTENDS Integers, FiniteSets, FiniteSetsExt, Functions, Sequences, GameRules

CONSTANTS
  Sizes,             \* of maps: <<height, width>>
                     \* and for each size:
  Dice,              \* what the random device may give: terrains by tile
  Noises,            \* what noise there is: elevation and moisture by tile
  FactionCounts      \* for how many factions spawns are looked for

Grid(size) == (0 .. size[1] - 1) \X (0 .. size[2] - 1)

TerrainMapAssumption ==
  /\ \A size \in Sizes : size \in (Nat \ {0}) \X (Nat \ {0})
  /\ \A size \in Sizes : \A roll \in Dice[size] : \A t \in Grid(size) : roll[t] \in TerrainTypes
  /\ \A size \in Sizes : FactionCounts[size] \subseteq Nat

VARIABLES
  map,               \* [size |-> its size, tile |-> its tiles]
  other,             \* another map that was made from the same, or the map before
  how,               \* why there are two: "generated" from one seed, or "loaded"
  spawns             \* the spawn points found for the generator's map

vars == <<map, other, how, spawns>>

-----------------------------------------------------------------------------
(* HexDirection: the six directions, from the north-east clockwise, and    *)
(* the tile that lies in each.  Rivers follow them.                        *)

Directions == 0 .. 5

\* The two of the six that the demo river takes.
E == 1
SE == 2

OppositeDirection(d) == (d + 3) % 6

EvenRowOffsets == <<<<-1, 0>>, <<0, 1>>, <<1, 0>>, <<1, -1>>, <<0, -1>>, <<-1, -1>>>>

OddRowOffsets == <<<<-1, 1>>, <<0, 1>>, <<1, 1>>, <<1, 0>>, <<0, -1>>, <<-1, 0>>>>

\* neighborCoord, before it is known whether the tile is on the map.
Toward(t, d) ==
  LET offset == IF t[1] % 2 = 0 THEN EvenRowOffsets[d + 1] ELSE OddRowOffsets[d + 1]
  IN  <<t[1] + offset[1], t[2] + offset[2]>>

-----------------------------------------------------------------------------
(* Map. *)

DefaultElevation ==
  [Plains |-> 1, Hills |-> 2, Forest |-> 1, Water |-> 0, Mountain |-> 3, Desert |-> 1, Swamp |-> 1]

\* A tile has at most one river that comes in, and one that goes out: the
\* sets of the directions they have.
GenerateTile(terrain) ==
  [terrain |-> terrain, elevation |-> DefaultElevation[terrain],
   waterLevel |-> IF terrain = "Water" THEN 1 ELSE 0, incoming |-> {}, outgoing |-> {}]

IsUnderwater(tile) == tile.waterLevel > tile.elevation

RiverMinMapSize == 15

\* Where the demo river begins, the ways it takes, and what it makes of the
\* tiles it comes to.
RiverStart == <<5, 10>>
RiverCourse == <<SE, E, SE, E, SE>>
RiverSource == [terrain |-> "Hills", elevation |-> 3]
RiverBed == <<[terrain |-> "Plains", elevation |-> 2], [terrain |-> "Plains", elevation |-> 2],
              [terrain |-> "Plains", elevation |-> 1], [terrain |-> "Plains", elevation |-> 1],
              [terrain |-> "Plains", elevation |-> 1]>>

SetRiverSegment(tiles, src, d) ==
  IF Toward(src, d) \notin DOMAIN tiles THEN tiles
  ELSE [tiles EXCEPT ![src].outgoing = {d}, ![Toward(src, d)].incoming = {OppositeDirection(d)}]

\* A tile of the river: its terrain and elevation are replaced, and it is dry.
Dig(tiles, t, bed) ==
  [tiles EXCEPT ![t].terrain = bed.terrain, ![t].elevation = bed.elevation, ![t].waterLevel = 0]

\* The river as far as its n-th segment, with the tile it has come to: it
\* ends where it would leave the map.
River(tiles) ==
  LET river[n \in 0 .. Len(RiverCourse)] ==
        IF n = 0 THEN [at |-> RiverStart, tiles |-> Dig(tiles, RiverStart, RiverSource)]
        ELSE LET before == river[n - 1]
                 next == Toward(before.at, RiverCourse[n])
                 joined == SetRiverSegment(before.tiles, before.at, RiverCourse[n])
             IN  IF next \notin DOMAIN tiles THEN before
                 ELSE [at |-> next, tiles |-> Dig(joined, next, RiverBed[n])]
  IN  river

AddDemoRivers(tiles, size) ==
  IF size[1] < RiverMinMapSize \/ size[2] < RiverMinMapSize THEN tiles
  ELSE River(tiles)[Len(RiverCourse)].tiles

NewMap(size, roll) ==
  [size |-> size, tile |-> AddDemoRivers([t \in Grid(size) |-> GenerateTile(roll[t])], size)]

\* setTerrainType: elevation, water and rivers stay what they were.
WithTerrain(m, terrain) ==
  [m EXCEPT !.tile = [t \in DOMAIN @ |-> [@[t] EXCEPT !.terrain = terrain[t]]]]

TerrainOf(m) == [t \in DOMAIN m.tile |-> m.tile[t].terrain]

-----------------------------------------------------------------------------
(* MapGenerator. *)

ClassifyTerrain(noise) ==
  CASE noise.elevation < -60 -> "Water"
    [] noise.elevation > 60 -> "Mountain"
    [] noise.elevation \in 36 .. 60 -> "Hills"
    [] noise.elevation \in -60 .. 35 /\ noise.moisture < -55 -> "Desert"
    [] noise.elevation \in -60 .. 35 /\ noise.moisture > 55 -> "Swamp"
    [] noise.elevation \in -60 .. 35 /\ noise.moisture \in -9 .. 55 -> "Forest"
    [] OTHER -> "Plains"

\* The smoothing does not know of hexagons: eight neighbours.
Around(terrain, t) ==
  ((t[1] - 1 .. t[1] + 1) \X (t[2] - 1 .. t[2] + 1) \ {t}) \cap DOMAIN terrain

CountSameNeighbours(terrain, t) == Cardinality({n \in Around(terrain, t) : terrain[n] = terrain[t]})

\* The order of TerrainType, which decides between terrains as common.
TerrainOrder == <<"Plains", "Hills", "Forest", "Water", "Mountain", "Desert", "Swamp">>

MostCommonNeighbour(terrain, t) ==
  LET around == Around(terrain, t)
      Count(k) == Cardinality({n \in around : terrain[n] = TerrainOrder[k]})
      most == Max({Count(k) : k \in DOMAIN TerrainOrder})
  IN  TerrainOrder[Min({k \in DOMAIN TerrainOrder : Count(k) = most})]

SmoothingThreshold == 4

\* A pass of smoothMap looks at the terrain there was before it.
SmoothPass(terrain) ==
  [t \in DOMAIN terrain |->
     IF CountSameNeighbours(terrain, t) < SmoothingThreshold /\ Around(terrain, t) # {}
     THEN MostCommonNeighbour(terrain, t) ELSE terrain[t]]

\* The loop of generate().
AssignTerrain(m, field) == [t \in DOMAIN m.tile |-> ClassifyTerrain(field[t])]

\* m is what generate() makes of the noise and of the random map that it is
\* laid upon: there are two passes of smoothing.
IsGenerated(m, random, field) ==
  \E noisy \in {AssignTerrain(random, field)} :
    \E smoother \in {SmoothPass(noisy)} :
      m = WithTerrain(random, SmoothPass(smoother))

SpawnBorderMargin == 2

Candidates(m) ==
  {t \in DOMAIN m.tile :
     /\ t[1] \in SpawnBorderMargin .. m.size[1] - SpawnBorderMargin - 1
     /\ t[2] \in SpawnBorderMargin .. m.size[2] - SpawnBorderMargin - 1
     /\ TerrainProperties[m.tile[t].terrain].movementCost # 0}

Chebyshev(s, t) == Max({s[1] - t[1], t[1] - s[1], s[2] - t[2], t[2] - s[2]})

\* Of some candidates, the one that the loops come to first: row by row.
FirstInRows(some) ==
  CHOOSE t \in some : \A u \in some : t[1] < u[1] \/ (t[1] = u[1] /\ t[2] <= u[2])

\* Those for which a measure is least.
Least(some, measure) == {t \in some : \A u \in some : measure[t] <= measure[u]}

\* Mutant: only the spawn that was found last is kept away from.
NextSpawnOfLast(candidates, found) ==
  FirstInRows(Least(candidates,
    [t \in candidates |-> -Chebyshev(t, found[Len(found)])]))

\* The candidate that is farthest from the nearest spawn there is.
NextSpawn(candidates, found) ==
  FirstInRows(Least(candidates,
    [t \in candidates |-> -Min({Chebyshev(t, found[k]) : k \in DOMAIN found})]))

\* The candidate nearest to the middle of the map, and then one by one.
SpawnsUpTo(candidates, middle, factionCount) ==
  LET first == FirstInRows(Least(candidates,
                 [t \in candidates |-> (t[1] - middle[1]) * (t[1] - middle[1])
                                       + (t[2] - middle[2]) * (t[2] - middle[2])]))
      found[n \in 1 .. factionCount] ==
        IF n = 1 THEN <<first>>
        ELSE LET before == found[n - 1] IN Append(before, NextSpawn(candidates, before))
  IN  found

FindSpawnPoints(m, factionCount) ==
  LET candidates == Candidates(m)
      middle == <<m.size[1] \div 2, m.size[2] \div 2>>
  IN  IF candidates = {} \/ factionCount <= 0 THEN <<>>
      ELSE SpawnsUpTo(candidates, middle, factionCount)[factionCount]

-----------------------------------------------------------------------------
(* Saving and loading: of a tile, its terrain is saved. *)

TerrainMessage(m) == [t \in DOMAIN m.tile |-> TerrainCodes[m.tile[t].terrain]]

\* The rest is that of a random map.
LoadMap(message, size, roll) ==
  WithTerrain(NewMap(size, roll), [t \in DOMAIN message |-> TerrainOfCode[message[t]]])

-----------------------------------------------------------------------------
Init ==
  /\ \E size \in Sizes : \E roll \in Dice[size] : map = NewMap(size, roll)
  /\ other = map
  /\ how = "same"
  /\ spawns = <<>>

\* generate(), for a map that is random as yet, and spawnPoints(), which
\* generates a map once more, on another random one, and looks for spawns
\* on that.
GenerateWithSpawns ==
  \E field \in Noises[map.size], roll \in Dice[map.size], n \in FactionCounts[map.size] :
    /\ how = "same"
    /\ IsGenerated(map', map, field)
    /\ IsGenerated(other', NewMap(map.size, roll), field)
    /\ how' = "generated"
    /\ spawns' = FindSpawnPoints(other', n)

SaveAndLoad ==
  \E roll \in Dice[map.size] :
    /\ map' = LoadMap(TerrainMessage(map), map.size, roll)
    /\ other' = map
    /\ how' = "loaded"
    /\ spawns' = <<>>

Next == GenerateWithSpawns \/ SaveAndLoad

Spec == Init /\ [][Next]_vars

-----------------------------------------------------------------------------
(* What is checked. *)

Tile ==
  [terrain : TerrainTypes, elevation : 0 .. 3, waterLevel : 0 .. 1,
   incoming : SUBSET Directions, outgoing : SUBSET Directions]

TypeOK ==
  /\ \A m \in {map, other} : m.size \in Sizes /\ m.tile \in [Grid(m.size) -> Tile]
  /\ how \in {"same", "generated", "loaded"}
  /\ spawns \in Seq(Grid(map.size))

\* Two maps of one seed have the same terrain, and so has the map that a save
\* gives back, though each is laid upon another random map.
TerrainIsReproduced == TerrainOf(map) = TerrainOf(other)

\* Wherever a river leaves a tile it enters the next one, which is on the map
\* and not higher, and nowhere does one enter that has not left; none of its
\* tiles is under water, even after a save was loaded.
RiversRunDown ==
  \A t \in DOMAIN map.tile :
    LET tile == map.tile[t]
    IN  /\ \A d \in tile.outgoing :
             /\ Toward(t, d) \in DOMAIN map.tile
             /\ map.tile[Toward(t, d)].incoming = {OppositeDirection(d)}
             /\ map.tile[Toward(t, d)].elevation <= tile.elevation
        /\ \A d \in tile.incoming :
             /\ Toward(t, d) \in DOMAIN map.tile
             /\ map.tile[Toward(t, d)].outgoing = {OppositeDirection(d)}
        /\ tile.incoming \cup tile.outgoing # {} => ~IsUnderwater(tile)

\* The spawns, found on one generated map, are where units can stand on the
\* other, and off its border; there is one for each faction, or none.
SpawnsOnLand ==
  how = "generated" =>
    \A t \in Range(spawns) :
      /\ map.tile[t].terrain \notin {"Water", "Mountain"}
      /\ Min({t[1], t[2], map.size[1] - 1 - t[1], map.size[2] - 1 - t[2]}) >= SpawnBorderMargin

\* How far the nearest two of a set of tiles are apart.
Separation(S) == Min({Chebyshev(s, t) : s, t \in S} \ {0})

\* The spawns are different tiles if there are as many, and the nearest two
\* are at least half as far apart as they could be in any other choice: for
\* a greedy choice that is not obvious, and as good as it gets.
SpawnsSpread ==
  LET candidates == Candidates(map)
      n == Len(spawns)
  IN  (n > 1 /\ Cardinality(candidates) >= n) =>
         /\ IsInjective(spawns)
         /\ \A best \in kSubset(n, candidates) :
              Separation(best) <= 2 * Separation(Range(spawns))

\* Smoothing prefers no side: the mirrored map becomes the mirror image.
SmoothingIsFair ==
  LET terrain == TerrainOf(map)
      Mirror(f) == [t \in DOMAIN f |-> f[<<t[1], map.size[2] - 1 - t[2]>>]]
  IN  SmoothPass(Mirror(terrain)) = Mirror(SmoothPass(terrain))

\* All that concerns a map that was generated or loaded.
MapIsRight ==
  /\ TypeOK /\ TerrainIsReproduced /\ SpawnsOnLand /\ SpawnsSpread
  /\ SmoothingIsFair /\ RiversRunDown

=============================================================================
