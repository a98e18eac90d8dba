----------------------------- MODULE GameRules -----------------------------
(***************************************************************************)
(* The game's numbers: terrain, the kinds of units, the buildings.         *)
(***************************************************************************)
EXTENDS Integers

\* TERRAIN_PROPERTIES.  A movement cost of 0 is that of impassable terrain.
TerrainProperties ==
  [Plains   |-> [movementCost |-> 1, defenseModifier |-> 0],
   Hills    |-> [movementCost |-> 2, defenseModifier |-> 3],
   Forest   |-> [movementCost |-> 2, defenseModifier |-> 2],
   Water    |-> [movementCost |-> 0, defenseModifier |-> 0],
   Mountain |-> [movementCost |-> 0, defenseModifier |-> 0],
   Desert   |-> [movementCost |-> 1, defenseModifier |-> 0],
   Swamp    |-> [movementCost |-> 3, defenseModifier |-> -1]]

TerrainTypes == DOMAIN TerrainProperties

\* UnitTypeRegistry::registerDefaults.
UnitTemplates ==
  [Warrior |-> [health |-> 100, attack |-> 15, defense |-> 10, moves |-> 2, range |-> 1],
   Archer  |-> [health |-> 70, attack |-> 12, defense |-> 5, moves |-> 2, range |-> 3],
   Settler |-> [health |-> 50, attack |-> 0, defense |-> 3, moves |-> 3, range |-> 0]]

UnitSight == [Warrior |-> 2, Archer |-> 3, Settler |-> 2]

UnitCost == [Warrior |-> 20, Archer |-> 25, Settler |-> 40]

\* The factories of Building.cpp: what each yields a turn,
BuildingYield ==
  [CityCenter |-> [gold |-> 0, production |-> 1, food |-> 1],
   Farm       |-> [gold |-> 0, production |-> 0, food |-> 2],
   Mine       |-> [gold |-> 0, production |-> 2, food |-> 0],
   LumberMill |-> [gold |-> 0, production |-> 2, food |-> 0],
   Barracks   |-> [gold |-> 0, production |-> 0, food |-> 0],
   Market     |-> [gold |-> 3, production |-> 0, food |-> 0]]

\* what it takes to build,
BuildingCost ==
  [CityCenter |-> 0, Farm |-> 20, Mine |-> 10, LumberMill |-> 15, Barracks |-> 25, Market |-> 30]

\* and where it may stand: everywhere, if the set is empty.
AllowedTerrains ==
  [CityCenter |-> {}, Farm |-> {}, Mine |-> {"Hills"}, LumberMill |-> {"Forest"},
   Barracks |-> {}, Market |-> {}]

CanBuildOn(type, terrain) ==
  AllowedTerrains[type] = {} \/ terrain \in AllowedTerrains[type]

\* Unit.h: the experience each level takes, what it is given for, and what
\* a level is worth.
ExperienceThresholds == {100, 250, 500, 750, 1000}

Experience == [perDamage |-> 3, killBonus |-> 50, defendSurvive |-> 10]

LevelBonus == 2

\* City::productionPerTurn and City::growthThreshold; FogOfWar: CITY_SIGHT_RANGE.
CityProduction == 5

CityGrowth == [base |-> 10, perPopulation |-> 5]

CitySightRange == 3

\* TerrainType and back: the tables of Serialization.cpp, one line per type.
TerrainCodes ==
  [Plains |-> "PLAINS", Hills |-> "HILLS", Forest |-> "FOREST", Water |-> "WATER",
   Mountain |-> "MOUNTAIN", Desert |-> "DESERT", Swamp |-> "SWAMP"]

TerrainOfCode ==
  [PLAINS |-> "Plains", HILLS |-> "Hills", FOREST |-> "Forest", WATER |-> "Water",
   MOUNTAIN |-> "Mountain", DESERT |-> "Desert", SWAMP |-> "Swamp"]

\* The same for the kinds of units.
UnitCodes == [Warrior |-> "WARRIOR", Archer |-> "ARCHER", Settler |-> "SETTLER"]

TemplateKeyOfCode == [WARRIOR |-> "Warrior", ARCHER |-> "Archer", SETTLER |-> "Settler"]

=============================================================================
