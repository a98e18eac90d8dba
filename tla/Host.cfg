SPECIFICATION HostSpec
CONSTANTS
  Players = {p1, p2, p3}
  Factions = {p1, p2, p3}
  FactionOf <- MCFactionOf
  TurnDuration = 2
  GracePeriod = 1
  DisconnectTimeout = 2
  MaxTurn = 2
SYMMETRY Symmetry
INVARIANTS TypeOK PlayersAccountedFor ExpiryIsEarned
PROPERTIES EliminatedOnlyAfterTimeout
