---------------------------- MODULE GameSession ----------------------------
(***************************************************************************)
(* game::GameSession: who takes part in a game, who of them is connected,  *)
(* who has ended the current turn, and the turn number.                    *)
(*                                                                         *)
(* The code's unordered_map of PlayerInfo is three sets: a player is a key *)
(* of the map iff it is in `players', its status is Connected iff it is in *)
(* `connected', its endedTurn flag is up iff it is in `ended'.  The        *)
(* methods are functions from a session to a session, because the classes  *)
(* built on GameSession call several of them within one call of their own. *)
(* The world (GameState) is only its turn counter here: what resolveTurn   *)
(* does to cities and units is left to the modules of the world.           *)
(***************************************************************************)
EXTENDS Integers

CONSTANT Players     \* the player ids

VARIABLE session     \* the GameSession object

Sessions ==
  [players : SUBSET Players, connected : SUBSET Players,
   ended : SUBSET Players, turn : Nat \ {0}]

\* A freshly constructed session; GameState counts turns from 1.
NewSession == [players |-> {}, connected |-> {}, ended |-> {}, turn |-> 1]

AddPlayer(s, p) ==
  IF p \in s.players THEN s
  ELSE [s EXCEPT !.players = @ \cup {p}, !.connected = @ \cup {p}]

\* Mutant: the end-of-turn mark outlives the player.
RemovePlayersKeepingMarks(s, P) ==
  [s EXCEPT !.players = @ \ P, !.connected = @ \ P]

RemovePlayers(s, P) ==
  [s EXCEPT !.players = @ \ P, !.connected = @ \ P, !.ended = @ \ P]

ConnectPlayer(s, p) ==
  IF p \in s.players THEN [s EXCEPT !.connected = @ \cup {p}] ELSE s

DisconnectPlayer(s, p) == [s EXCEPT !.connected = @ \ {p}]

EndTurn(s, p) ==
  IF p \in s.players THEN [s EXCEPT !.ended = @ \cup {p}] ELSE s

\* Mutant: disconnected players are waited for.
AllRegisteredPlayersEndedTurn(s) == s.players # {} /\ s.players \subseteq s.ended

\* Mutant: one finished player is enough.
AnyPlayerEndedTurn(s) == s.players # {} /\ s.ended # {}

\* Disconnected players are skipped, so a session of disconnected players
\* only is ready; an empty one never is.
AllPlayersEndedTurn(s) == s.players # {} /\ s.connected \subseteq s.ended

ResetTurnFlags(s) == [s EXCEPT !.ended = {}]

TryAdvanceTurn(s) ==
  IF AllPlayersEndedTurn(s)
  THEN ResetTurnFlags([s EXCEPT !.turn = @ + 1])
  ELSE s

\* Connected players whose turn is still open.
Acting(s) == s.connected \ s.ended

\* The connection and end-of-turn marks are fields of a registered player.
SessionShape(s) == s.connected \subseteq s.players /\ s.ended \subseteq s.players

TypeOKSession == session \in Sessions /\ SessionShape(session)

=============================================================================
