SPECIFICATION Spec
CONSTANTS
  red = red
  blue = blue
  green = green
  u1 = u1
  u2 = u2
  u3 = u3
  scout = scout
  Kinds = {scout}
  Template <- ScoutTemplate
  Pointers = {u1, u2, u3}
  Factions = {red, blue, green}
  AtWar <- RedAgainstBlue
  MoveCost <- FieldCost
  Worlds <- SearchedWorlds
  Searches <- AllSearches
  Rows = 4
  Cols = 4
  ContentW = 194
  ContentH = 144
  RowSizes <- MCRowSizes
  ColSizes <- MCColSizes
  Parts = 6
  Margin = 6
  Reach = 1
  FrameTimes = {1, 2}
  HoverDelay = 3
  MaxTime = 4
  Sizes <- MCSizes
  Dice <- MCDice
  Noises <- MCNoises
  FactionCounts <- MCFactionCounts
CHECK_DEADLOCK FALSE
INVARIANTS
  DistanceCountsSteps
  BoxMissesNothing
  PicturesAgree
  SearchesAreRight
  PointingIsRight
  MapsAreRight
PROPERTY SearchEnds
