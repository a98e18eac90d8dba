SPECIFICATION Spec
CONSTANTS
  rome = rome
  persia = persia
  nobody = nobody
  u1 = u1
  u2 = u2
  u3 = u3
  u4 = u4
  Rows = 1
  Cols = 9
  Kinds <- MCKinds
  Template <- MCTemplate
  XpThresholds <- MCXpThresholds
  XpPerDamage = 3
  XpKillBonus = 50
  XpDefendSurvive = 10
  StatBonusPerLevel = 2
  Pointers = {u1, u2, u3, u4}
  Factions = {rome, persia, nobody}
  AtWar <- MCAtWar
  MoveCost <- MCMoveCost
  TerrainBonus <- MCTerrainBonus
  NumCities = 1
  Center <- OneCenter
  CityTiles <- OneCityTiles
  BuildingTypes <- MCBuildingTypes
  Yield <- MCYield
  BuildCost <- MCBuildCost
  Registered = {rome, persia}
  ProductionPerTurn = 5
  BaseGrowth = 10
  GrowthPerPopulation = 5
  SightRange <- MCSightRange
  CitySight = 3
  Player = rome
  Nobody = nobody
  Terrain <- MCTerrain
  Beginnings <- MCBeginnings
  SaveTurns = {2}
  BuildTurns = {1, 2}
  BuildTiles <- OneTile
  MaxTurn = 4
  MaxQueue = 2
INVARIANTS GameIsSound SelectionFollowsUnit WhatIsShownIsSeen SaveKeepsTheGame
