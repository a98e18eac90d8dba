----------------------------- MODULE TurnServer -----------------------------
(***************************************************************************)
(* A GameSession with the three classes that act on it: TurnManager,       *)
(* ReconnectionManager, and ActionProcessor (its end-of-turn path).  None  *)
(* of them locks anything; each public call is one step.                   *)
(*                                                                         *)
(* Spec lets the calls come in any order, as the public interfaces do.     *)
(* HostSpec is the discipline the classes document: the lobby's players    *)
(* are added and registered when the session starts, turns end through     *)
(* TurnManager, connections go through ReconnectionManager, a player who   *)
(* leaves is also unregistered, and both managers are polled.              *)
(***************************************************************************)
EXTENDS TurnManager, ReconnectionManager, TLC

CONSTANT MaxTurn     \* bound of the model: no turn after this one

ASSUME MaxTurnAssumption == MaxTurn \in Nat \ {0}

\* What really happened, kept beside the program's own books.
VARIABLES
  age,          \* time since the session's turn began, up to TurnDuration
  sinceEnd,     \* time since its first end-of-turn, up to GracePeriod
  offline       \* time since each player was connected, up to the timeout

history == <<age, sinceEnd, offline>>

vars == <<session, tmVars, rmVars, history>>

NobodyEnded == -1

TypeOK ==
  /\ TypeOKSession
  /\ TypeOKTurnManager
  /\ TypeOKReconnection
  /\ age \in 0 .. TurnDuration
  /\ sinceEnd \in {NobodyEnded} \cup 0 .. GracePeriod
  /\ offline \in [Players -> 0 .. DisconnectTimeout]

InitHistory ==
  /\ age = 0
  /\ sinceEnd = NobodyEnded
  /\ offline = [p \in Players |-> 0]

\* Brings the history up to date with a step; `t' is the time it takes.
Record(t) ==
  /\ session'.turn <= MaxTurn
  /\ age' = IF session'.turn # session.turn THEN 0
            ELSE IF t > 0 THEN Later(age, TurnDuration) ELSE age
  /\ sinceEnd' =
       IF session'.turn # session.turn THEN NobodyEnded
       ELSE IF sinceEnd # NobodyEnded
       THEN IF t > 0 THEN Later(sinceEnd, GracePeriod) ELSE sinceEnd
       ELSE IF session'.ended \ session.ended # {} THEN 0 ELSE NobodyEnded
  /\ offline' = [p \in Players |->
       IF p \in session'.connected THEN 0
       ELSE IF t > 0 THEN Later(offline[p], DisconnectTimeout) ELSE offline[p]]

-----------------------------------------------------------------------------
(* The calls. *)

\* GameSession's own methods, called by whoever holds the session.
SessionCall ==
  /\ \E p \in Players :
       \/ p \notin session.players /\ session' = AddPlayer(session, p)
       \/ session' = RemovePlayers(session, {p})
       \/ session' = ConnectPlayer(session, p)
       \/ session' = DisconnectPlayer(session, p)
       \/ session' = EndTurn(session, p)
       \/ session' = TryAdvanceTurn(session)
  /\ UNCHANGED <<tmVars, rmVars>>
  /\ Record(0)

\* ActionProcessor::processAction with an EndTurnAction: the player must be
\* registered and connected; the session's turn advances without TurnManager.
ProcessEndTurn(p) ==
  /\ p \in session.connected
  /\ session' = TryAdvanceTurn(EndTurn(session, p))
  /\ UNCHANGED <<tmVars, rmVars>>
  /\ Record(0)

Start == StartTurn /\ UNCHANGED rmVars /\ Record(0)

Finish(p) ==
  /\ PlayerEndTurn(p)
  /\ UNCHANGED rmVars
  /\ Record(0)

Poll == TryAdvance /\ UNCHANGED rmVars /\ Record(0)

Register(p) == RegisterPlayer(p) /\ UNCHANGED tmVars /\ Record(0)

Unregister(p) == UnregisterPlayer(p) /\ UNCHANGED tmVars /\ Record(0)

Disconnect(p) == HandleDisconnect(p) /\ UNCHANGED tmVars /\ Record(0)

Reconnect(p) ==
  /\ \E f \in Factions : HandleReconnect(p, f)
  /\ UNCHANGED tmVars
  /\ Record(0)

Sweep == CheckTimeouts /\ UNCHANGED tmVars /\ Record(0)

Tick == TurnClocksTick /\ AwayClocksTick /\ UNCHANGED session /\ Record(1)

Init == session = NewSession /\ InitTurnManager /\ InitReconnection /\ InitHistory

Next ==
  \/ SessionCall
  \/ Start
  \/ Poll
  \/ Sweep
  \/ Tick
  \/ \E p \in Players :
        \/ ProcessEndTurn(p)
        \/ Finish(p)
        \/ Register(p)
        \/ Unregister(p)
        \/ Disconnect(p)
        \/ Reconnect(p)

Spec == Init /\ [][Next]_vars

-----------------------------------------------------------------------------
(* The documented host. *)

\* LobbyManager::startGame has added every player; each is registered.
HostInit ==
  /\ session = [players |-> Players, connected |-> Players, ended |-> {}, turn |-> 1]
  /\ InitTurnManager
  /\ tracked = Players
  /\ reachable = Players
  /\ awayClock = [p \in Players |-> 0]
  /\ eliminated = {}
  /\ armies = Factions
  /\ lastSnapshot = NoSnapshot
  /\ InitHistory

\* A voluntary leave.
LeaveGame(p) ==
  /\ p \in session.players
  /\ session' = RemovePlayers(session, {p})
  /\ tracked' = tracked \ {p}
  /\ reachable' = reachable \ {p}
  /\ awayClock' = [awayClock EXCEPT ![p] = 0]
  /\ UNCHANGED <<tmVars, eliminated, armies, lastSnapshot>>
  /\ Record(0)

HostNext ==
  \/ ~turnInProgress /\ Start
  \/ Poll
  \/ Sweep
  \/ Tick
  \/ \E p \in Players :
        \/ Finish(p)
        \/ Disconnect(p)
        \/ Reconnect(p)
        \/ LeaveGame(p)

HostSpec == HostInit /\ [][HostNext]_vars

\* The classes are driven by their callers: time passes, the turn is
\* started, and tryAdvance and checkTimeouts are polled.  No player is ever
\* obliged to act.
FairHostSpec ==
  /\ HostSpec
  /\ WF_vars(Tick)
  /\ WF_vars(~turnInProgress /\ Start)
  /\ WF_vars(Poll)
  /\ WF_vars(Sweep)

-----------------------------------------------------------------------------
(* What is checked. *)

Turns == INSTANCE SimultaneousTurns WITH
  turn <- session.turn, members <- session.players,
  online <- session.connected, done <- session.ended, overdue <- IsExpired

\* Whatever calls come in whatever order, the session is a game of
\* simultaneous turns: a turn closes only when every connected player has
\* finished or it is overdue, and finishing never outlives its turn.
PlaysSimultaneousTurns == Turns!Spec

\* Polled, it also closes every turn that can be closed.
ClosesTurns == Turns!FairSpec

\* Two classes keep a table of players each: under the documented host the
\* ReconnectionManager's and the session's never disagree on who takes part
\* and who is connected.
TablesAgree == tracked = session.players /\ reachable = session.connected

\* An eliminated player is out of the session and has lost its units; the
\* units of whoever still plays are never swept away with them.
EliminatedForGood ==
  /\ \A p \in eliminated : p \notin session.players /\ FactionOf[p] \notin armies
  /\ \A p \in session.players : FactionOf[p] \in armies

\* When TurnManager finds the turn expired, it is the session's current
\* turn that has used up its duration, or its grace period.
ExpiryIsEarned ==
  IsExpired => \/ age >= TurnDuration
               \/ GracePeriod > 0 /\ sinceEnd >= GracePeriod

\* hasPlayerEndedTurn speaks of the current turn: a player of the session
\* it answers true for has ended the turn in the session as well.
ReadyMeansEnded == readyPlayers \cap session.players \subseteq session.ended

\* The books of the three classes agree on every player, whether it plays,
\* is away, has left or was eliminated.
PlayersAccountedFor == TablesAgree /\ EliminatedForGood /\ ReadyMeansEnded

\* Nobody is eliminated who has been connected within the timeout, however
\* often the connection was lost and regained before.
EliminatedOnlyAfterTimeout ==
  [][\A p \in eliminated' \ eliminated : offline[p] >= DisconnectTimeout]_vars

\* As long as somebody is left to play, the turn advances: no absent or idle
\* player can hold it up (TurnManager's deadline and its skipping of
\* disconnected players).
TurnsAdvance ==
  \A n \in 1 .. MaxTurn - 1 :
    session.turn = n ~> session.turn > n \/ session.players = {}

\* A disconnected player does not stay in limbo: it returns, leaves or is
\* eliminated, even if the loss of its connection is reported repeatedly.
AbsenceEnds ==
  \A p \in Players :
    p \in tracked \ reachable ~> p \in reachable \/ p \notin tracked

-----------------------------------------------------------------------------
(* For TLC: every player leads a faction of its own, as the lobby's        *)
(* startGame hands them out, and players may be exchanged.                 *)

MCFactionOf == [p \in Players |-> p]

Symmetry == Permutations(Players)

=============================================================================
