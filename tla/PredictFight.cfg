SPECIFICATION FightingSpec
CONSTANTS
  red = red
  blue = blue
  warrior = warrior
  archer = archer
  settler = settler
  u1 = u1
  u2 = u2
  u3 = u3
  u4 = u4
  farm = farm
  mine = mine
  Cols = 3
  XpThresholds <- MCXpThresholds
  StatBonusPerLevel = 1
  Factions = {red, blue}
  AtWar <- MCAtWar
  MoveCost <- MCMoveCost
  TerrainBonus <- MCTerrainBonus
  Yield <- MCYield
  BuildCost <- MCBuildCost
  ProductionPerTurn = 1
  BaseGrowth = 2
  GrowthPerPopulation = 1
  FactionOf <- MCFactionOf
  Costs = {2}
  XpPerDamage = 1
  XpKillBonus = 2
  XpDefendSurvive = 1
  Template <- MCTemplate
  BuildingTypes = {farm, mine}
  Registered = {red, blue}
  Pointers = {u1, u2, u3}
  NumCities = 1
  Center <- OneCenter
  CityTiles <- OneCityTiles
  InitialUnits <- ThreeUnits
  InitialUnit <- SquadOfTwo
  InitialOwner <- OneOwner
  MaxQueue = 0
  Kinds = {warrior, archer}
  BuildTiles = {}
  Beyond = {}
  Players = {red}
  MaxTurn = 1
  Rows = 2
  MaxId = 3
  RegistryOrder <- RedThenBlue
  IsPlayer <- RedPlays
  MaxXp = 8
  Mine = red
INVARIANT RejectedIsUndone
CHECK_DEADLOCK FALSE
