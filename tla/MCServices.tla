----------------------------- MODULE MCServices -----------------------------
(***************************************************************************)
(* The services that share no state with each other, each on an instance   *)
(* of its own: the lobby, the network client, save files, the database,    *)
(* the combat log and diplomacy.  In a behaviour one of them does          *)
(* something and the others rest in their initial states; so what is       *)
(* checked is what a run of each would check.                              *)
(***************************************************************************)
EXTENDS Naturals

CONSTANTS
  Players, NoPlayer, Settings, MaxGames,                   \* LobbyManager
  main, MaxConnects,                                       \* NetworkClient
  Games, Demo, Chunks, LastSecond, MaxWrites,              \* SaveLoad
  Objects, Ids, States, MaxConnections,                    \* GamePersistence
  Events, TurnOf, Capacity, MaxDisplay, MaxScroll, MaxHistory, Blank,  \* CombatLog
  MaxFactions, MaxAdditions                                \* Factions

VARIABLES
  part,                                                    \* which of them
  games, nextGameId, handles,                              \* LobbyManager
  state, stub, queue, queueShut, shutdown, thread, pc, made, inFlight,  \* NetworkClient
  files, second, tick, saving, loaded, kept, begun,        \* SaveLoad
  db, open, table, now, listed, recent, closed, leaked,    \* GamePersistence
  buffer, head, count, scroll, history,                    \* CombatLog
  factions, nextFactionId, relations, settled              \* Factions

lobbyVars == <<games, nextGameId, handles>>

clientVars == <<state, stub, queue, queueShut, shutdown, thread, pc, made, inFlight>>

saveVars == <<files, second, tick, saving, loaded, kept, begun>>

databaseVars == <<db, open, table, now, listed, recent, closed, leaked>>

logVars == <<buffer, head, count, scroll, history>>

factionVars == <<factions, nextFactionId, relations, settled>>

-----------------------------------------------------------------------------
(* The instances, with the constants of the same names. *)

Lobby == INSTANCE LobbyManager

\* One thread uses the client, as in the program.
Client == INSTANCE NetworkClient WITH Callers <- {main}

Saves == INSTANCE SaveLoad WITH state <- loaded

Database == INSTANCE GamePersistence

Log == INSTANCE CombatLog

Diplomacy == INSTANCE Factions

ASSUME LobbyAssumption == Lobby!LobbyAssumption

ASSUME ClientAssumption == Client!ClientAssumption

ASSUME SaveLoadAssumption == Saves!SaveLoadAssumption

ASSUME PersistenceAssumption == Database!PersistenceAssumption

ASSUME CombatLogAssumption == Log!CombatLogAssumption /\ Log!Abstract!BoundedLogAssumption

ASSUME FactionsAssumption == Diplomacy!FactionsAssumption

-----------------------------------------------------------------------------
(* What the constants are for TLC. *)

\* Games of three slots, and of two that one player may start.
TwoSettings == {[maxPlayers |-> 3, minPlayers |-> 2], [maxPlayers |-> 2, minPlayers |-> 1]}

\* They differ in the turn and in who has units, but not in who has cities.
TwoStates ==
  {[turn |-> 1, units |-> {1, 2}, cities |-> {1}], [turn |-> 2, units |-> {2}, cities |-> {1}]}

ThreeEvents == {"skirmish", "siege", "capture"}

\* Two of a turn and one of the next.
TurnOfThree == [e \in ThreeEvents |-> IF e = "capture" THEN 2 ELSE 1]

-----------------------------------------------------------------------------

Init ==
  /\ part \in {"lobby", "client", "saves", "database", "log", "factions"}
  /\ Lobby!Init /\ Client!Init /\ Saves!Init /\ Database!Init /\ Log!Init /\ Diplomacy!Init

LobbyStep ==
  /\ part = "lobby" /\ Lobby!Next
  /\ UNCHANGED <<part, clientVars, saveVars, databaseVars, logVars, factionVars>>

ClientStep ==
  /\ part = "client" /\ Client!Next
  /\ UNCHANGED <<part, lobbyVars, saveVars, databaseVars, logVars, factionVars>>

SaveStep ==
  /\ part = "saves" /\ Saves!Next
  /\ UNCHANGED <<part, lobbyVars, clientVars, databaseVars, logVars, factionVars>>

DatabaseStep ==
  /\ part = "database" /\ Database!Next
  /\ UNCHANGED <<part, lobbyVars, clientVars, saveVars, logVars, factionVars>>

LogStep ==
  /\ part = "log" /\ Log!Next
  /\ UNCHANGED <<part, lobbyVars, clientVars, saveVars, databaseVars, factionVars>>

DiplomacyStep ==
  /\ part = "factions" /\ Diplomacy!Next
  /\ UNCHANGED <<part, lobbyVars, clientVars, saveVars, databaseVars, logVars>>

Next == LobbyStep \/ ClientStep \/ SaveStep \/ DatabaseStep \/ LogStep \/ DiplomacyStep

Vars == <<part, lobbyVars, clientVars, saveVars, databaseVars, logVars, factionVars>>

Spec == Init /\ [][Next]_Vars

\* The threads of the client run, as in its FairSpec.
ClientRuns ==
  /\ WF_clientVars(ClientStep /\ Client!ThreadStep)
  /\ WF_clientVars(ClientStep /\ pc[main] # "idle" /\ Client!CallerStep(main))

FairSpec == Spec /\ ClientRuns

-----------------------------------------------------------------------------

\* Nobody sits in two slots of a game, a session has exactly the players who
\* were seated, each with a faction of his own, and it outlives the pointers
\* that startGame and getSession give away.
LobbyIsSound == Lobby!LobbyIsSound

\* connect, disconnect, submitAction and the network thread find what they
\* use, wherever their steps fall.
ClientIsSound == Client!ClientIsSound

\* disconnect returns: the thread that it joins sees that it shall stop.
DisconnectReturns == Client!DisconnectReturns

\* The file of the last completed save outlives crashes and full disks in later
\* saves, but for one of the same name; and F9 gives the save begun last: the
\* completed one if it is that, else at most a part of the one cut off.
SavesAreKept == Saves!SavesAreKept

\* Connections have one owner however objects are moved, but for those whose
\* constructor threw, which have none; and listGames and loadGame agree with
\* what was saved last.
DatabaseIsSound == Database!DatabaseIsSound

\* The ring of CombatLog is a log of the latest events.
LogTellsTheHistory == Log!LogTellsTheHistory

\* Ids are unique, relations are mutual, and the defaults are the header's.
DiplomacyIsSound == Diplomacy!DiplomacyIsSound

=============================================================================
