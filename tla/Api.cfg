SPECIFICATION Spec
CONSTANTS
  Players = {p1, p2}
  Factions = {p1, p2}
  FactionOf <- MCFactionOf
  TurnDuration = 1
  GracePeriod = 1
  DisconnectTimeout = 1
  MaxTurn = 2
SYMMETRY Symmetry
PROPERTIES PlaysSimultaneousTurns
