SPECIFICATION FairHostSpec
CONSTANTS
  Players = {p1, p2}
  Factions = {p1, p2}
  FactionOf <- MCFactionOf
  TurnDuration = 2
  GracePeriod = 1
  DisconnectTimeout = 2
  MaxTurn = 3
PROPERTIES ClosesTurns TurnsAdvance AbsenceEnds
