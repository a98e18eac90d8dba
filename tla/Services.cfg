SPECIFICATION FairSpec
CONSTANTS
  Players = {ann, bob, cid}
  NoPlayer = nobody
  Settings <- TwoSettings
  MaxGames = 2
  main = main
  MaxConnects = 3
  Games = {demo, battle}
  Demo = demo
  Chunks = 3
  LastSecond = 1
  MaxWrites = 6
  Objects = {here, there}
  Ids = {alpha, beta}
  States <- TwoStates
  MaxConnections = 2
  Events <- ThreeEvents
  TurnOf <- TurnOfThree
  Capacity = 3
  MaxDisplay = 2
  MaxScroll = 2
  MaxHistory = 5
  Blank = blank
  MaxFactions = 3
  MaxAdditions = 3
CHECK_DEADLOCK FALSE
INVARIANTS
  ClientIsSound
  DatabaseIsSound
  DiplomacyIsSound
PROPERTIES
  LobbyIsSound
  DisconnectReturns
  SavesAreKept
  LogTellsTheHistory
