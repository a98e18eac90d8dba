SPECIFICATION SpawningSpec
CONSTANTS
  red = red
  blue = blue
  warrior = warrior
  archer = archer
  settler = settler
  u1 = u1
  u2 = u2
  u3 = u3
  u4 = u4
  farm = farm
  mine = mine
  Cols = 3
  XpThresholds <- MCXpThresholds
  StatBonusPerLevel = 1
  Factions = {red, blue}
  AtWar <- MCAtWar
  MoveCost <- MCMoveCost
  TerrainBonus <- MCTerrainBonus
  Yield <- MCYield
  BuildCost <- MCBuildCost
  ProductionPerTurn = 1
  BaseGrowth = 2
  GrowthPerPopulation = 1
  FactionOf <- MCFactionOf
  Costs = {1, 2}
  XpPerDamage = 0
  XpKillBonus = 0
  XpDefendSurvive = 0
  Template <- FrailTemplate
  BuildingTypes = {mine}
  Registered = {red}
  Pointers = {u1, u2, u3, u4}
  NumCities = 2
  Center <- TwoCenters
  CityTiles <- TwoCityTiles
  InitialUnits <- TwoUnits
  InitialUnit <- TwoUnit
  InitialOwner <- TwoOwners
  MaxQueue = 1
  Kinds = {warrior}
  BuildTiles <- SharedTile
  Beyond <- TwoSides
  Players = {red, blue}
  MaxTurn = 3
  RegistryOrder <- OnlyRed
  IsPlayer <- RedPlays
  Rows = 1
INVARIANTS ProductionIsTheOwners
PROPERTIES EliminationIsFinal
CHECK_DEADLOCK FALSE
