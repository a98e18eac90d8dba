---------------------------- MODULE LobbyManager ----------------------------
(***************************************************************************)
(* game::LobbyManager: games that wait for players, and the sessions that  *)
(* come of them.                                                           *)
(*                                                                         *)
(* Any player may call any method with any game id, at any time.  A        *)
(* refused call changes nothing and is left out.  A game's settings are    *)
(* the number of its slots and of the players it takes to start; the size  *)
(* of the map is in neither.                                               *)
(***************************************************************************)
EXTENDS Integers, Sequences, FiniteSets, Functions

CONSTANTS
  Players,     \* the player ids
  NoPlayer,    \* the id 0 of an empty slot
  Settings,    \* what games are created with: maxPlayers, minPlayers
  MaxGames     \* bound of the model: the games ever created

\* createGame writes to the first slot without asking whether there is one.
LobbyAssumption ==
  /\ NoPlayer \notin Players
  /\ Settings \subseteq [maxPlayers : Nat \ {0}, minPlayers : Int]
  /\ MaxGames \in Nat

VARIABLES
  games,       \* games_, by id
  nextGameId,
  handles      \* history: the ids whose session somebody has been given

vars == <<games, nextGameId, handles>>

Session == INSTANCE GameSession WITH session <- games

InitialGameId == 1

Slots == [player : Players \cup {NoPlayer}, faction : Nat]

EmptySlot == [player |-> NoPlayer, faction |-> 0]

Occupied(g) == {n \in DOMAIN g.slots : g.slots[n].player # NoPlayer}

OccupiedSlotCount(g) == Cardinality(Occupied(g))

Seated(g) == {g.slots[n].player : n \in Occupied(g)}

\* The first slot of a player.
SeatOf(g, p) ==
  CHOOSE n \in Occupied(g) :
    g.slots[n].player = p /\ \A m \in Occupied(g) : g.slots[m].player = p => n <= m

\* The session that a game does not have before it starts.
NoSession == Session!NewSession

-----------------------------------------------------------------------------
(* The methods. *)

Init ==
  /\ games = <<>>
  /\ nextGameId = InitialGameId
  /\ handles = {}

NewGame(host, s) ==
  [state |-> "WaitingForPlayers", host |-> host, minPlayers |-> s.minPlayers,
   slots |-> [n \in 1 .. s.maxPlayers |->
     IF n = 1 THEN [player |-> host, faction |-> 1] ELSE EmptySlot],
   session |-> NoSession, factions |-> <<>>]

CreateGame(host) ==
  \E s \in Settings :
    /\ nextGameId <= MaxGames
    /\ games' = [id \in DOMAIN games \cup {nextGameId} |->
                   IF id = nextGameId THEN NewGame(host, s) ELSE games[id]]
    /\ nextGameId' = nextGameId + 1
    /\ UNCHANGED handles

CanJoin(g, p) ==
  /\ g.state = "WaitingForPlayers"
  /\ p \notin Seated(g)
  /\ DOMAIN g.slots # Occupied(g)

\* The first empty slot, with the number of the slots occupied, this one
\* not among them yet, plus one for a faction.
JoinGame(id, p) ==
  LET g == games[id]
      free == DOMAIN g.slots \ Occupied(g)
      first == CHOOSE n \in free : \A m \in free : n <= m
  IN  /\ CanJoin(g, p)
      /\ games' = [games EXCEPT ![id].slots[first] =
                     [player |-> p, faction |-> OccupiedSlotCount(g) + 1]]
      /\ UNCHANGED <<nextGameId, handles>>

CanLeave(g, p) ==
  /\ g.state = "WaitingForPlayers"
  /\ p = g.host \/ p \in Seated(g)

\* When the host leaves, the game is gone.
LeaveGame(id, p) ==
  LET g == games[id] IN
  /\ CanLeave(g, p)
  /\ games' = IF p = g.host
              THEN [other \in DOMAIN games \ {id} |-> games[other]]
              ELSE [games EXCEPT ![id].slots[SeatOf(g, p)] = EmptySlot]
  /\ UNCHANGED <<nextGameId, handles>>

\* Mutant: the factions of the slots are those of the session.
SlotFactions(g) == [p \in Seated(g) |-> g.slots[SeatOf(g, p)].faction]

\* The factions are numbered anew, whatever the slots say.
SessionFactions(g) ==
  [p \in Seated(g) |-> Cardinality({n \in Occupied(g) : n <= SeatOf(g, p)})]

\* The players of the occupied slots, one slot after the other.
SessionOf(g) ==
  LET after[n \in 0 .. Len(g.slots)] ==
        IF n = 0 THEN Session!NewSession
        ELSE IF n \in Occupied(g) THEN Session!AddPlayer(after[n - 1], g.slots[n].player)
        ELSE after[n - 1]
  IN  after[Len(g.slots)]

StartGame(id, p) ==
  LET g == games[id] IN
  /\ p = g.host
  /\ g.state = "WaitingForPlayers"
  /\ OccupiedSlotCount(g) >= g.minPlayers
  /\ games' = [games EXCEPT ![id].session = SessionOf(g),
                            ![id].factions = SessionFactions(g),
                            ![id].state = "InProgress"]
  /\ handles' = handles \cup {id}
  /\ UNCHANGED nextGameId

FinishGame(id) ==
  /\ games[id].state = "InProgress"
  /\ games' = [games EXCEPT ![id].state = "Finished"]
  /\ UNCHANGED <<nextGameId, handles>>

\* getSession: somebody asks for the session of a game in progress.
GetSession(id) ==
  /\ games[id].state = "InProgress"
  /\ handles' = handles \cup {id}
  /\ UNCHANGED <<games, nextGameId>>

Next ==
  \/ \E p \in Players : CreateGame(p)
  \/ \E id \in DOMAIN games :
       \/ \E p \in Players : JoinGame(id, p) \/ LeaveGame(id, p) \/ StartGame(id, p)
       \/ FinishGame(id)
       \/ GetSession(id)

Spec == Init /\ [][Next]_vars

-----------------------------------------------------------------------------
(* What is checked. *)

TypeOK ==
  /\ DOMAIN games \subseteq InitialGameId .. nextGameId - 1
  /\ nextGameId \in Nat
  /\ handles \subseteq InitialGameId .. nextGameId - 1
  /\ \A id \in DOMAIN games :
       /\ games[id].state \in {"WaitingForPlayers", "InProgress", "Finished"}
       /\ games[id].host \in Players
       /\ games[id].slots \in Seq(Slots)
       /\ games[id].session \in Session!Sessions
       /\ DOMAIN games[id].factions \subseteq Players

\* Nobody sits in two slots of a game, however often players leave and join
\* again, and the host is always there: leaveGame removes the first slot of
\* a player only, and startGame depends on the host's presence.
SeatedOnce ==
  \A id \in DOMAIN games :
    /\ Cardinality(Seated(games[id])) = OccupiedSlotCount(games[id])
    /\ games[id].host \in Seated(games[id])

\* A session has exactly the players seated in its game, all connected, and
\* as many factions as players, numbered from 1, although the factions of
\* the slots may coincide by then: TurnServer's OwnFactions.
SessionsMatchSeats ==
  \A id \in DOMAIN games :
    LET g == games[id] IN
      g.state # "WaitingForPlayers" =>
        /\ g.session = [players |-> Seated(g), connected |-> Seated(g),
                        ended |-> {}, turn |-> 1]
        /\ g.factions \in Bijection(Seated(g), 1 .. OccupiedSlotCount(g))

\* startGame and getSession give out plain pointers; the game, its session
\* and the seats stay as they were when the first was given out.
SessionsOutliveHandles ==
  [][\A id \in handles :
       /\ id \in DOMAIN games'
       /\ games'[id].session = games[id].session
       /\ games'[id].slots = games[id].slots]_vars

\* What the lobby owes the players it seats and the sessions it hands out.
LobbyIsSound == [](TypeOK /\ SeatedOnce /\ SessionsMatchSeats) /\ SessionsOutliveHandles

=============================================================================
