---------------------------- MODULE MCLocalGame ----------------------------
(***************************************************************************)
(* LocalGame with the game's own numbers (GameRules) on a map of one row.  *)
(* It begins in the middle of a battle, in the third turn and with a save  *)
(* on the disk, or in a time of peace, in which a city builds: the turns   *)
(* in which the user builds and saves are bounded to those of peace.       *)
(***************************************************************************)
EXTENDS LocalGame

CONSTANTS rome, persia, nobody, u1, u2, u3, u4

MCSightRange == UnitSight
MCTemplate == UnitTemplates
MCXpThresholds == ExperienceThresholds
MCYield == BuildingYield
MCBuildCost == BuildingCost
MCKinds == DOMAIN UnitTemplates
MCBuildingTypes == DOMAIN BuildingCost
MCAtWar == {<<rome, persia>>, <<persia, rome>>}

\* Water, then plains, but for hills at the fourth tile.
MCTerrain ==
  [t \in Tiles |-> CASE t = <<0, 3>> -> "Hills" [] t = <<0, 0>> -> "Water" [] OTHER -> "Plains"]
MCMoveCost == [t \in Tiles |-> TerrainProperties[MCTerrain[t]].movementCost]
MCTerrainBonus == [t \in Tiles |-> TerrainProperties[MCTerrain[t]].defenseModifier]

Town(owner, buildings) ==
  [owner |-> owner, queue |-> [c \in Cities |-> <<>>], stock |-> [c \in Cities |-> 0],
   population |-> [c \in Cities |-> 2], food |-> [c \in Cities |-> 3],
   buildings |-> buildings, gold |-> [f \in Factions \cup {Common} |-> 0]]

World0(order, unit, town) ==
  [order |-> order, unit |-> unit, town |-> town,
   registry |-> [t \in Tiles |-> {p \in Range(order) : unit[p].tile = t}]]

Game(world, turn) ==
  [turn |-> turn, world |-> world,
   ids |-> [n \in DOMAIN world.town.buildings |-> n],
   nextBuildingId |-> Len(world.town.buildings) + 1,
   fog |-> Recalculate(Dark, world, Player), registered |-> {rome, persia}]

\* The battle: persia's warriors are worn out, one before rome's in the
\* vector; behind them lies persia's city.
OneCenter == <<<<0, 5>>>>
OneCityTiles == <<{<<0, 5>>, <<0, 6>>}>>
BattleUnit ==
  [p \in {u1, u2, u3} |->
     CASE p = u1 -> [NewUnit("Warrior", persia, <<0, 4>>) EXCEPT !.health = 14]
       [] p = u2 -> [NewUnit("Warrior", rome, <<0, 3>>) EXCEPT !.health = 12, !.xp = 95]
       [] p = u3 -> [NewUnit("Archer", rome, <<0, 1>>) EXCEPT !.moves = 1]]
Battle == Game(World0(<<u1, u2, u3>>, BattleUnit, Town(<<persia>>, <<>>)), 3)

\* Peace: the city is rome's and has a farm, and a settler of persia's has
\* nothing to do.
PeaceUnit == [p \in {u1} |-> [NewUnit("Settler", persia, <<0, 8>>) EXCEPT !.moves = 0]]
PeaceTime ==
  Game(World0(<<u1>>, PeaceUnit,
         Town(<<rome>>, <<[type |-> "Farm", tile |-> <<0, 6>>, faction |-> nobody]>>)), 1)

MCBeginnings ==
  {[game |-> Battle, saved |-> <<Battle>>], [game |-> PeaceTime, saved |-> <<>>]}

OneTile == {<<0, 7>>}
=============================================================================
