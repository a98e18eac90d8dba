-------------------------- MODULE TurnServerProofs --------------------------
(***************************************************************************)
(* Proofs about TurnServer, for any set of players, any durations and any  *)
(* bound on the turn number.                                               *)
(***************************************************************************)
EXTENDS TurnServer, TLAPS

GoodSession(s) == s \in Sessions /\ SessionShape(s)

\* Every method of GameSession leaves a well-formed session well-formed.
LEMMA SessionMethods ==
  ASSUME NEW s, GoodSession(s)
  PROVE  /\ \A p \in Players : GoodSession(AddPlayer(s, p))
         /\ \A P \in SUBSET Players : GoodSession(RemovePlayers(s, P))
         /\ \A p \in Players : GoodSession(ConnectPlayer(s, p))
         /\ \A p \in Players : GoodSession(DisconnectPlayer(s, p))
         /\ \A p \in Players : GoodSession(EndTurn(s, p))
         /\ GoodSession(TryAdvanceTurn(s))
         /\ GoodSession(ForceEndRemainingPlayers(s))
<1> USE DEF GoodSession, Sessions, SessionShape
<1>1. \A p \in Players : GoodSession(AddPlayer(s, p))
  BY DEF AddPlayer
<1>2. \A P \in SUBSET Players : GoodSession(RemovePlayers(s, P))
  BY DEF RemovePlayers
<1>3. \A p \in Players : GoodSession(ConnectPlayer(s, p))
  BY DEF ConnectPlayer
<1>4. \A p \in Players : GoodSession(DisconnectPlayer(s, p))
  BY DEF DisconnectPlayer
<1>5. \A p \in Players : GoodSession(EndTurn(s, p))
  BY DEF EndTurn
<1>6. GoodSession(TryAdvanceTurn(s))
  <2> DEFINE next == [s EXCEPT !.turn = @ + 1]
  <2>1. next \in Sessions
    OBVIOUS
  <2>2. next.players = s.players /\ next.connected = s.connected
    OBVIOUS
  <2> HIDE DEF next
  <2>3. GoodSession(ResetTurnFlags(next))
    BY <2>1, <2>2 DEF ResetTurnFlags
  <2>4. TryAdvanceTurn(s) = ResetTurnFlags(next) \/ TryAdvanceTurn(s) = s
    BY DEF TryAdvanceTurn, next
  <2> QED
    BY <2>3, <2>4
<1>7. GoodSession(ForceEndRemainingPlayers(s))
  BY DEF ForceEndRemainingPlayers, Acting
<1> QED
  BY <1>1, <1>2, <1>3, <1>4, <1>5, <1>6, <1>7

\* The history keeps its type, whatever the step does to the session.
LEMMA RecordType ==
  ASSUME TypeOK, NEW t \in {0, 1}, Record(t)
  PROVE  /\ age' \in 0 .. TurnDuration
         /\ sinceEnd' \in {NobodyEnded} \cup 0 .. GracePeriod
         /\ offline' \in [Players -> 0 .. DisconnectTimeout]
BY TurnConfigAssumption, ReconnectionAssumption
   DEF TypeOK, Record, Later, NobodyEnded

\* The state of a turn that has just been started.
LEMMA ArmedType ==
  ASSUME ArmTurn
  PROVE  TypeOKTurnManager'
<1>1. 0 \in 0 .. TurnDuration /\ 0 \in 0 .. GracePeriod
  BY TurnConfigAssumption
<1>2. turnClock' \in 0 .. TurnDuration /\ graceClock' \in 0 .. GracePeriod
  BY <1>1 DEF ArmTurn
<1>3. turnInProgress' \in BOOLEAN /\ graceActive' \in BOOLEAN
  BY DEF ArmTurn
<1> QED
  BY <1>2, <1>3 DEF ArmTurn, TypeOKTurnManager

\* What is left to show of TypeOK once the history is accounted for.
CoreType == TypeOKSession /\ TypeOKTurnManager /\ TypeOKReconnection

\* The initial values of the managers have their types.
LEMMA InitialTypes ==
  /\ InitTurnManager => TypeOKTurnManager
  /\ InitHistory => /\ age \in 0 .. TurnDuration
                    /\ sinceEnd \in {NobodyEnded} \cup 0 .. GracePeriod
                    /\ offline \in [Players -> 0 .. DisconnectTimeout]
<1>1. 0 \in 0 .. TurnDuration /\ 0 \in 0 .. GracePeriod /\ 0 \in 0 .. DisconnectTimeout
  BY TurnConfigAssumption, ReconnectionAssumption
<1>2. ASSUME InitTurnManager
      PROVE  turnInProgress \in BOOLEAN /\ graceActive \in BOOLEAN
  BY <1>2 DEF InitTurnManager
<1>3. InitTurnManager => TypeOKTurnManager
  BY <1>1, <1>2 DEF InitTurnManager, TypeOKTurnManager
<1> QED
  BY <1>1, <1>3 DEF InitHistory, NobodyEnded

\* Both ways to begin start well-typed.
LEMMA InitType == Init \/ HostInit => TypeOK
<1>1. ASSUME Init
      PROVE  TypeOK
  <2>1. TypeOKSession
    BY <1>1 DEF Init, NewSession, TypeOKSession, Sessions, SessionShape
  <2>2. TypeOKReconnection
    BY <1>1, ReconnectionAssumption
       DEF Init, InitReconnection, TypeOKReconnection, NoSnapshot
  <2> QED
    BY <1>1, <2>1, <2>2, InitialTypes DEF Init, TypeOK
<1>2. ASSUME HostInit
      PROVE  TypeOK
  <2>1. TypeOKSession
    BY <1>2 DEF HostInit, NewSession, TypeOKSession, Sessions, SessionShape
  <2>2. TypeOKReconnection
    BY <1>2, ReconnectionAssumption
       DEF HostInit, TypeOKReconnection, NoSnapshot
  <2> QED
    BY <1>2, <2>1, <2>2, InitialTypes DEF HostInit, TypeOK
<1> QED
  BY <1>1, <1>2

\* No call breaks the type of a variable.
LEMMA TypeStep ==
  ASSUME TypeOK, [Next \/ \E p \in Players : LeaveGame(p)]_vars
  PROVE  TypeOK'
<1> USE TurnConfigAssumption, ReconnectionAssumption
<1>a. GoodSession(session)
  BY DEF TypeOK, TypeOKSession, GoodSession
<1>b. ASSUME CoreType', Record(0) \/ Record(1)
      PROVE  TypeOK'
  BY <1>b, RecordType DEF TypeOK, CoreType
<1>c. ASSUME GoodSession(session')
      PROVE  TypeOKSession'
  BY <1>c DEF GoodSession, TypeOKSession
<1>1. CASE SessionCall
  <2>1. GoodSession(session')
    BY <1>1, <1>a, SessionMethods, \A p \in Players : {p} \in SUBSET Players
       DEF SessionCall
  <2>2. CoreType'
    BY <1>1, <1>c, <2>1
       DEF SessionCall, CoreType, TypeOK, tmVars, rmVars, TypeOKTurnManager,
           TypeOKReconnection
  <2> QED BY <1>1, <1>b, <2>2 DEF SessionCall
<1>2. CASE Start
  <2>1. TypeOKTurnManager'
    BY <1>2, ArmedType DEF Start, StartTurn
  <2>2. CoreType'
    BY <1>2, <2>1 DEF Start, StartTurn, CoreType, TypeOK, rmVars,
                      TypeOKSession, TypeOKReconnection
  <2> QED BY <1>2, <1>b, <2>2 DEF Start
<1>3. CASE Poll
  <2>1. GoodSession(session')
    <3>1. GoodSession(ForceEndRemainingPlayers(session))
      BY <1>a, SessionMethods
    <3>2. PICK s : GoodSession(s) /\ session' = TryAdvanceTurn(s)
      BY <1>3, <1>a, <3>1 DEF Poll, TryAdvance, Advanced
    <3> QED
      BY <3>2, SessionMethods
  <2>2. TypeOKTurnManager'
    BY <1>3, ArmedType DEF Poll, TryAdvance
  <2>3. CoreType'
    BY <1>3, <1>c, <2>1, <2>2
       DEF Poll, CoreType, TypeOK, rmVars, TypeOKReconnection
  <2> QED BY <1>3, <1>b, <2>3 DEF Poll
<1>4. CASE Sweep
  <2>1. GoodSession(session')
    BY <1>4, <1>a, SessionMethods DEF Sweep, CheckTimeouts, Eliminate
  <2>2. CoreType'
    BY <1>4, <1>c, <2>1
       DEF Sweep, CheckTimeouts, Eliminate, TimedOut, CoreType, TypeOK,
           tmVars, TypeOKTurnManager, TypeOKReconnection
  <2> QED BY <1>4, <1>b, <2>2 DEF Sweep
<1>5. CASE Tick
  <2>1. CoreType'
    BY <1>5 DEF Tick, TurnClocksTick, AwayClocksTick, Later, CoreType, TypeOK,
                TypeOKSession, TypeOKTurnManager, TypeOKReconnection
  <2> QED BY <1>5, <1>b, <2>1 DEF Tick
<1>6. ASSUME NEW p \in Players, ProcessEndTurn(p)
      PROVE  TypeOK'
  <2>1. GoodSession(session')
    BY <1>6, <1>a, SessionMethods DEF ProcessEndTurn
  <2>2. CoreType'
    BY <1>6, <1>c, <2>1
       DEF ProcessEndTurn, CoreType, TypeOK, tmVars, rmVars,
           TypeOKTurnManager, TypeOKReconnection
  <2> QED BY <1>6, <1>b, <2>2 DEF ProcessEndTurn
<1>7. ASSUME NEW p \in Players, Finish(p)
      PROVE  TypeOK'
  <2>1. GoodSession(session')
    BY <1>7, <1>a, SessionMethods DEF Finish, PlayerEndTurn
  <2>2. CoreType'
    BY <1>7, <1>c, <2>1
       DEF Finish, PlayerEndTurn, CoreType, TypeOK, rmVars,
           TypeOKTurnManager, TypeOKReconnection
  <2> QED BY <1>7, <1>b, <2>2 DEF Finish
<1>8. ASSUME NEW p \in Players, Register(p) \/ Unregister(p)
      PROVE  TypeOK'
  <2>1. CoreType'
    BY <1>8 DEF Register, RegisterPlayer, Unregister, UnregisterPlayer,
                CoreType, TypeOK, tmVars, TypeOKSession, TypeOKTurnManager,
                TypeOKReconnection
  <2> QED BY <1>8, <1>b, <2>1 DEF Register, Unregister
<1>9. ASSUME NEW p \in Players, Disconnect(p)
      PROVE  TypeOK'
  <2>1. GoodSession(session')
    BY <1>9, <1>a, SessionMethods DEF Disconnect, HandleDisconnect
  <2>2. CoreType'
    BY <1>9, <1>c, <2>1
       DEF Disconnect, HandleDisconnect, CoreType, TypeOK, tmVars,
           TypeOKTurnManager, TypeOKReconnection
  <2> QED BY <1>9, <1>b, <2>2 DEF Disconnect
<1>10. ASSUME NEW p \in Players, Reconnect(p)
       PROVE  TypeOK'
  <2>1. GoodSession(session')
    BY <1>10, <1>a, SessionMethods, {p} \in SUBSET Players
       DEF Reconnect, HandleReconnect, Eliminate
  <2>2. CoreType'
    BY <1>10, <1>c, <2>1
       DEF Reconnect, HandleReconnect, Eliminate, Snapshot, CoreType, TypeOK,
           tmVars, TypeOKTurnManager, TypeOKReconnection, TypeOKSession, Sessions
  <2> QED BY <1>10, <1>b, <2>2 DEF Reconnect
<1>11. ASSUME NEW p \in Players, LeaveGame(p)
       PROVE  TypeOK'
  <2>1. GoodSession(session')
    BY <1>11, <1>a, SessionMethods, {p} \in SUBSET Players DEF LeaveGame
  <2>2. CoreType'
    BY <1>11, <1>c, <2>1
       DEF LeaveGame, CoreType, TypeOK, tmVars, TypeOKTurnManager,
           TypeOKReconnection
  <2> QED BY <1>11, <1>b, <2>2 DEF LeaveGame
<1>12. CASE UNCHANGED vars
  BY <1>12 DEF vars, tmVars, rmVars, history, TypeOK, TypeOKSession,
               TypeOKTurnManager, TypeOKReconnection
<1> QED
  BY <1>1, <1>2, <1>3, <1>4, <1>5, <1>6, <1>7, <1>8, <1>9, <1>10, <1>11, <1>12 DEF Next

\* Sessions are well-formed and every variable keeps its type, in whatever
\* order the calls come.
THEOREM TypeCorrect == Spec => []TypeOK
<1>1. Init => TypeOK
  BY InitType
<1>2. TypeOK /\ [Next]_vars => TypeOK'
  BY TypeStep
<1> QED
  BY <1>1, <1>2, PTL DEF Spec

\* So they do under the documented host.
THEOREM HostTypeCorrect == HostSpec => []TypeOK
<1>1. HostInit => TypeOK
  BY InitType
<1>2. TypeOK /\ [HostNext]_vars => TypeOK'
  BY TypeStep DEF HostNext, Next
<1> QED
  BY <1>1, <1>2, PTL DEF HostSpec


-----------------------------------------------------------------------------
(* Refinement of the abstract game of simultaneous turns. *)

\* What one attempt to advance does to a session that may not be ready.
LEMMA AdvanceCases ==
  ASSUME NEW s, s \in Sessions
  PROVE  \/ /\ AllPlayersEndedTurn(s)
            /\ TryAdvanceTurn(s).turn = s.turn + 1
            /\ TryAdvanceTurn(s).ended = {}
            /\ TryAdvanceTurn(s).players = s.players
            /\ TryAdvanceTurn(s).connected = s.connected
         \/ ~AllPlayersEndedTurn(s) /\ TryAdvanceTurn(s) = s
BY DEF TryAdvanceTurn, ResetTurnFlags, Sessions

\* IsExpired reads only TurnManager's own variables.
LEMMA ExpiryUnchanged ==
  UNCHANGED tmVars => IsExpired' = IsExpired
BY DEF tmVars, IsExpired

\* The abstract turn closes in the step that advances a session, whether the
\* player p finishes in that same step or not.
LEMMA AdvanceRefines ==
  ASSUME TypeOK, NEW p \in Players, UNCHANGED tmVars,
         session'.turn <= MaxTurn,
         \/ session' = TryAdvanceTurn(session)
         \/ p \in session.players /\ session' = TryAdvanceTurn(EndTurn(session, p))
  PROVE  [Turns!Next]_(Turns!vars)
<1>1. session \in Sessions /\ SessionShape(session)
  BY DEF TypeOK, TypeOKSession
<1>2. \A q \in Players : GoodSession(EndTurn(session, q))
  BY <1>1, SessionMethods DEF GoodSession
<1>3. IsExpired' = IsExpired
  BY ExpiryUnchanged
<1>4. CASE session' = TryAdvanceTurn(session)
  <2>1. CASE AllPlayersEndedTurn(session)
    <3>1. Turns!Advance({})
      BY <1>1, <1>3, <1>4, <2>1, AdvanceCases, MaxTurnAssumption
         DEF Turns!Advance, AllPlayersEndedTurn, Sessions, IsExpired
    <3> QED BY <3>1 DEF Turns!Next
  <2>2. CASE ~AllPlayersEndedTurn(session)
    BY <1>1, <1>3, <1>4, <2>2, AdvanceCases DEF Turns!vars
  <2> QED BY <2>1, <2>2
<1>5. CASE p \in session.players /\ session' = TryAdvanceTurn(EndTurn(session, p))
  <2>0. /\ EndTurn(session, p).players = session.players
        /\ EndTurn(session, p).connected = session.connected
        /\ EndTurn(session, p).ended = session.ended \cup {p}
        /\ EndTurn(session, p).turn = session.turn
    BY <1>1, <1>5 DEF EndTurn, Sessions
  <2>1. CASE AllPlayersEndedTurn(EndTurn(session, p))
    <3>1. Turns!Advance({p})
      BY <1>1, <1>2, <1>3, <1>5, <2>0, <2>1, AdvanceCases, MaxTurnAssumption
         DEF Turns!Advance, AllPlayersEndedTurn, Sessions, IsExpired, GoodSession
    <3> QED BY <3>1 DEF Turns!Next
  <2>2. CASE ~AllPlayersEndedTurn(EndTurn(session, p))
    <3>1. session' = EndTurn(session, p)
      BY <1>2, <1>5, <2>2, AdvanceCases DEF GoodSession
    <3>2. Turns!Finish(p)
      BY <1>3, <1>5, <2>0, <3>1 DEF Turns!Finish
    <3> QED BY <3>2 DEF Turns!Next
  <2> QED BY <2>1, <2>2
<1> QED BY <1>4, <1>5

\* A call that leaves the session and the deadline alone, or only lets the
\* deadline pass or be set again.
LEMMA ClockRefines ==
  ASSUME TypeOK, TypeOK', UNCHANGED session
  PROVE  [Turns!Next]_(Turns!vars)
<1>1. IsExpired \in BOOLEAN /\ IsExpired' \in BOOLEAN
  BY DEF IsExpired, TypeOK, TypeOKTurnManager
<1>2. IsExpired' = IsExpired \/ IsExpired' = ~IsExpired
  BY <1>1
<1> QED
  BY <1>2 DEF Turns!Next, Turns!Clock, Turns!vars

\* Players who leave or are removed leave the abstract game.
LEMMA RemovalRefines ==
  ASSUME TypeOK, NEW P \in SUBSET Players, UNCHANGED tmVars,
         session' = RemovePlayers(session, P)
  PROVE  Turns!Next
<1>1. IsExpired' = IsExpired
  BY ExpiryUnchanged
<1>2. Turns!Leave(P)
  BY <1>1 DEF RemovePlayers, Turns!Leave, TypeOK, TypeOKSession, Sessions
<1> QED
  BY <1>2 DEF Turns!Next

\* So do connections that are made or lost.
LEMMA ConnectionRefines ==
  ASSUME TypeOK, NEW p \in Players, UNCHANGED tmVars,
         \/ session' = AddPlayer(session, p)
         \/ session' = ConnectPlayer(session, p)
         \/ session' = DisconnectPlayer(session, p)
  PROVE  [Turns!Next]_(Turns!vars)
<1>1. IsExpired' = IsExpired
  BY ExpiryUnchanged
<1>2. session \in Sessions /\ SessionShape(session)
  BY DEF TypeOK, TypeOKSession
<1>3. CASE session' = AddPlayer(session, p)
  <2>1. CASE p \in session.players
    BY <1>1, <1>3, <2>1 DEF AddPlayer, Turns!vars
  <2>2. CASE p \notin session.players
    <3>1. Turns!Arrive(p)
      BY <1>1, <1>2, <1>3, <2>2 DEF AddPlayer, Turns!Arrive, Sessions
    <3> QED BY <3>1 DEF Turns!Next
  <2> QED BY <2>1, <2>2
<1>4. CASE session' = ConnectPlayer(session, p)
  <2>1. CASE p \notin session.players
    BY <1>1, <1>4, <2>1 DEF ConnectPlayer, Turns!vars
  <2>2. CASE p \in session.players
    <3>1. Turns!Arrive(p)
      BY <1>1, <1>2, <1>4, <2>2 DEF ConnectPlayer, Turns!Arrive, Sessions
    <3> QED BY <3>1 DEF Turns!Next
  <2> QED BY <2>1, <2>2
<1>5. CASE session' = DisconnectPlayer(session, p)
  <2>1. Turns!Disconnect(p)
    BY <1>1, <1>2, <1>5 DEF DisconnectPlayer, Turns!Disconnect, Sessions
  <2> QED BY <2>1 DEF Turns!Next
<1> QED BY <1>3, <1>4, <1>5

\* A player finishes.  The grace period it may start has not run out yet.
LEMMA FinishRefines ==
  ASSUME TypeOK, NEW p \in Players, PlayerEndTurn(p)
  PROVE  Turns!Next
<1>1. IsExpired' = IsExpired
  BY TurnConfigAssumption
     DEF PlayerEndTurn, IsExpired, TypeOK, TypeOKTurnManager
<1>2. Turns!Finish(p)
  BY <1>1 DEF PlayerEndTurn, EndTurn, Turns!Finish, TypeOK, TypeOKSession, Sessions
<1> QED
  BY <1>2 DEF Turns!Next

\* tryAdvance closes a turn that everybody has finished or that is overdue.
LEMMA PollRefines ==
  ASSUME TypeOK, TypeOK', TryAdvance, session'.turn <= MaxTurn
  PROVE  Turns!Next
<1> DEFINE s == IF IsExpired /\ ~IsReady
                THEN ForceEndRemainingPlayers(session) ELSE session
<1>1. session \in Sessions /\ GoodSession(session)
  BY DEF TypeOK, TypeOKSession, GoodSession
<1>2. s \in Sessions
  BY <1>1, SessionMethods DEF GoodSession
<1>3. /\ s.players = session.players
      /\ s.connected = session.connected
      /\ s.turn = session.turn
  BY <1>1 DEF ForceEndRemainingPlayers, Sessions
<1>4. session' = TryAdvanceTurn(s)
  BY DEF TryAdvance, Advanced
<1>5. IsExpired \/ s = session
  OBVIOUS
<1>6. IsExpired' \in BOOLEAN
  BY DEF IsExpired, TypeOK, TypeOKTurnManager
<1> HIDE DEF s
<1>7. session'.turn # session.turn
  BY DEF TryAdvance
<1>8. AllPlayersEndedTurn(s)
  BY <1>2, <1>3, <1>4, <1>7, AdvanceCases
<1>9. /\ session'.turn = session.turn + 1
      /\ session'.ended = {}
      /\ session'.players = session.players
      /\ session'.connected = session.connected
  BY <1>2, <1>3, <1>4, <1>8, AdvanceCases
<1>10. session.players # {} /\ (IsExpired \/ session.connected \subseteq session.ended)
  BY <1>3, <1>5, <1>8 DEF AllPlayersEndedTurn
<1>11. session.turn < MaxTurn
  BY <1>1, <1>9, MaxTurnAssumption DEF Sessions
<1>12. Turns!Advance({})
  BY <1>6, <1>9, <1>10, <1>11 DEF Turns!Advance
<1> QED
  BY <1>12 DEF Turns!Next

\* Every call, and a voluntary leave, is a step of the abstract game.
LEMMA StepRefines ==
  ASSUME TypeOK, [Next \/ \E p \in Players : LeaveGame(p)]_vars
  PROVE  [Turns!Next]_(Turns!vars)
<1>a. TypeOK'
  BY TypeStep
<1>b. \A p \in Players : {p} \in SUBSET Players
  OBVIOUS
<1>1. CASE SessionCall
  <2>1. PICK p \in Players :
          \/ session' = AddPlayer(session, p)
          \/ session' = RemovePlayers(session, {p})
          \/ session' = ConnectPlayer(session, p)
          \/ session' = DisconnectPlayer(session, p)
          \/ session' = EndTurn(session, p)
          \/ session' = TryAdvanceTurn(session)
    BY <1>1 DEF SessionCall
  <2>2. UNCHANGED tmVars /\ session'.turn <= MaxTurn
    BY <1>1 DEF SessionCall, Record
  <2>3. CASE session' = EndTurn(session, p)
    <3>1. CASE p \notin session.players
      BY <1>a, <2>3, <3>1, ClockRefines DEF EndTurn
    <3>2. CASE p \in session.players
      <4>1. IsExpired' = IsExpired
        BY <2>2, ExpiryUnchanged
      <4>2. Turns!Finish(p)
        BY <2>3, <3>2, <4>1
           DEF EndTurn, Turns!Finish, TypeOK, TypeOKSession, Sessions
      <4> QED BY <4>2 DEF Turns!Next
    <3> QED BY <3>1, <3>2
  <2> QED
    BY <1>b, <2>1, <2>2, <2>3, RemovalRefines, ConnectionRefines, AdvanceRefines
<1>2. CASE Start \/ Tick
  BY <1>a, <1>2, ClockRefines DEF Start, StartTurn, Tick
<1>3. CASE Poll
  BY <1>a, <1>3, PollRefines DEF Poll, Record
<1>4. CASE Sweep
  <2>1. {p \in Players : TimedOut(p)} \in SUBSET Players
    OBVIOUS
  <2> QED
    BY <1>4, <2>1, RemovalRefines DEF Sweep, CheckTimeouts, Eliminate
<1>5. ASSUME NEW p \in Players, ProcessEndTurn(p)
      PROVE  [Turns!Next]_(Turns!vars)
  <2>1. p \in session.players
    BY <1>5 DEF ProcessEndTurn, TypeOK, TypeOKSession, SessionShape
  <2> QED
    BY <1>5, <2>1, AdvanceRefines DEF ProcessEndTurn, Record
<1>6. ASSUME NEW p \in Players, Finish(p)
      PROVE  [Turns!Next]_(Turns!vars)
  BY <1>6, FinishRefines DEF Finish
<1>7. ASSUME NEW p \in Players, Register(p) \/ Unregister(p)
      PROVE  [Turns!Next]_(Turns!vars)
  BY <1>a, <1>7, ClockRefines
     DEF Register, RegisterPlayer, Unregister, UnregisterPlayer
<1>8. ASSUME NEW p \in Players, Disconnect(p)
      PROVE  [Turns!Next]_(Turns!vars)
  BY <1>8, ConnectionRefines DEF Disconnect, HandleDisconnect
<1>9. ASSUME NEW p \in Players, Reconnect(p)
      PROVE  [Turns!Next]_(Turns!vars)
  BY <1>9, <1>b, ConnectionRefines, RemovalRefines
     DEF Reconnect, HandleReconnect, Eliminate
<1>10. ASSUME NEW p \in Players, LeaveGame(p)
       PROVE  [Turns!Next]_(Turns!vars)
  BY <1>10, <1>b, RemovalRefines DEF LeaveGame
<1>11. CASE UNCHANGED vars
  BY <1>11, <1>a, ClockRefines DEF vars
<1> QED
  BY <1>1, <1>2, <1>3, <1>4, <1>5, <1>6, <1>7, <1>8, <1>9, <1>10, <1>11 DEF Next

\* Whatever calls come in whatever order, the session is a game of
\* simultaneous turns.
THEOREM SimultaneousTurnsRefined == Spec => PlaysSimultaneousTurns
<1>1. Init => Turns!Init
  BY DEF Init, NewSession, InitTurnManager, IsExpired, Turns!Init
<1>2. TypeOK /\ [Next]_vars => [Turns!Next]_(Turns!vars)
  BY StepRefines
<1> QED
  BY <1>1, <1>2, TypeCorrect, PTL DEF Spec, PlaysSimultaneousTurns, Turns!Spec

\* So it is under the documented host, with players who leave.
THEOREM HostSimultaneousTurnsRefined == HostSpec => PlaysSimultaneousTurns
<1>1. HostInit => Turns!Init
  BY DEF HostInit, InitTurnManager, IsExpired, Turns!Init
<1>2. TypeOK /\ [HostNext]_vars => [Turns!Next]_(Turns!vars)
  BY StepRefines DEF HostNext, Next
<1> QED
  BY <1>1, <1>2, HostTypeCorrect, PTL DEF HostSpec, PlaysSimultaneousTurns, Turns!Spec

-----------------------------------------------------------------------------
(* The documented host. *)

\* The program's clocks against what really happened: they never run ahead,
\* and a player's absence is timed from the moment of the disconnection.
ClocksAgree ==
  /\ turnInProgress => turnClock <= age
  /\ graceActive => /\ GracePeriod > 0
                    /\ sinceEnd # NobodyEnded
                    /\ graceClock <= sinceEnd
  /\ session.ended # {} => sinceEnd # NobodyEnded
  /\ \A p \in session.connected : offline[p] = 0
  /\ \A p \in tracked \ reachable : offline[p] = awayClock[p]

\* The inductive invariant of HostSpec: each promise needs the others, since
\* only agreeing tables make a reconnection restore the session's view.
HostInv ==
  /\ TypeOK
  /\ TablesAgree
  /\ EliminatedForGood
  /\ ReadyMeansEnded
  /\ ClocksAgree

\* Distinct players lead distinct factions, as LobbyManager::startGame
\* numbers them.
OwnFactions == \A p, q \in Players : FactionOf[p] = FactionOf[q] => p = q

LEMMA HostInvInit == HostInit => HostInv
<1> SUFFICES ASSUME HostInit
             PROVE  HostInv
  OBVIOUS
<1>1. TypeOK
  BY InitType
<1>2. TablesAgree /\ ReadyMeansEnded
  BY DEF HostInit, InitTurnManager, TablesAgree, ReadyMeansEnded
<1>3. EliminatedForGood
  BY ReconnectionAssumption DEF HostInit, EliminatedForGood
<1>4. ClocksAgree
  BY DEF HostInit, InitTurnManager, InitHistory, ClocksAgree
<1> QED
  BY <1>1, <1>2, <1>3, <1>4 DEF HostInv

\* A step that takes no time and does not change the turn number keeps the
\* history, but for the first end of turn and for who is connected now.
LEMMA InstantRecord ==
  ASSUME HostInv, TypeOK', Record(0), session'.turn = session.turn
  PROVE  /\ age' = age
         /\ sinceEnd # NobodyEnded => sinceEnd' = sinceEnd
         /\ session'.ended # {} => sinceEnd' # NobodyEnded
         /\ \A p \in session'.connected : offline'[p] = 0
         /\ \A p \in Players \ session'.connected : offline'[p] = offline[p]
<1>1. session'.connected \subseteq Players
  BY DEF TypeOK, TypeOKSession, Sessions
<1>2. age' = age /\ (sinceEnd # NobodyEnded => sinceEnd' = sinceEnd)
  BY DEF Record
<1>3. offline' = [p \in Players |-> IF p \in session'.connected THEN 0 ELSE offline[p]]
  BY DEF Record
<1>4. ASSUME session'.ended # {}
      PROVE  sinceEnd' # NobodyEnded
  <2>1. CASE session.ended # {}
    BY <1>2, <2>1 DEF HostInv, ClocksAgree
  <2>2. CASE session.ended = {}
    BY <1>4, <2>2 DEF Record, NobodyEnded
  <2> QED BY <2>1, <2>2
<1> QED
  BY <1>1, <1>2, <1>3, <1>4

\* Such a step keeps the clocks in agreement if the managers' own clocks
\* stand still and only players who were connected go missing.
LEMMA ClocksKept ==
  ASSUME HostInv, TypeOK', Record(0), session'.turn = session.turn,
         UNCHANGED tmVars,
         \A p \in tracked' \ reachable' :
            /\ p \in Players \ session'.connected
            /\ \/ p \in tracked \ reachable /\ awayClock'[p] = awayClock[p]
               \/ p \in session.connected /\ awayClock'[p] = 0
  PROVE  ClocksAgree'
<1>1. /\ age' = age
      /\ sinceEnd # NobodyEnded => sinceEnd' = sinceEnd
      /\ session'.ended # {} => sinceEnd' # NobodyEnded
      /\ \A p \in session'.connected : offline'[p] = 0
      /\ \A p \in Players \ session'.connected : offline'[p] = offline[p]
  BY InstantRecord
<1> QED
  BY <1>1 DEF HostInv, ClocksAgree, tmVars

\* Every step of the documented host preserves the invariant.
LEMMA HostInvStep ==
  ASSUME OwnFactions, HostInv, [HostNext]_vars
  PROVE  HostInv'
<1>a. TypeOK /\ TypeOK'
  BY TypeStep DEF HostInv, HostNext, Next
<1>b. /\ session \in Sessions /\ session.connected \subseteq session.players
      /\ session.players \subseteq Players /\ session.ended \subseteq session.players
      /\ tracked = session.players /\ reachable = session.connected
  BY <1>a DEF HostInv, TablesAgree, TypeOKSession, TypeOK, SessionShape, Sessions
<1>1. CASE ~turnInProgress /\ Start
  <2>1. TablesAgree' /\ EliminatedForGood' /\ ReadyMeansEnded'
    BY <1>1 DEF Start, StartTurn, ArmTurn, rmVars, HostInv, TablesAgree,
                EliminatedForGood, ReadyMeansEnded
  <2>2. ClocksAgree'
    <3>1. age' \in Nat
      BY <1>a, TurnConfigAssumption DEF TypeOK
    <3>2. Record(0) /\ session'.turn = session.turn
      BY <1>1 DEF Start, StartTurn
    <3> QED
      BY <1>1, <1>a, <1>b, <3>1, <3>2, InstantRecord
         DEF Start, StartTurn, ArmTurn, rmVars, HostInv, ClocksAgree
  <2> QED BY <1>a, <2>1, <2>2 DEF HostInv
<1>2. CASE Poll
  <2> DEFINE s == IF IsExpired /\ ~IsReady
                  THEN ForceEndRemainingPlayers(session) ELSE session
  <2>1. s \in Sessions
    BY <1>a, SessionMethods DEF GoodSession, TypeOK, TypeOKSession
  <2>2. s.players = session.players /\ s.connected = session.connected
    BY <1>b DEF ForceEndRemainingPlayers, Sessions
  <2>3. session' = TryAdvanceTurn(s) /\ s.turn = session.turn
    BY <1>2, <1>b DEF Poll, TryAdvance, Advanced, ForceEndRemainingPlayers, Sessions
  <2> HIDE DEF s
  <2>4. /\ session'.players = session.players
        /\ session'.connected = session.connected
        /\ session'.ended = {}
    BY <1>2, <2>1, <2>2, <2>3, AdvanceCases DEF Poll, TryAdvance
  <2>5. TablesAgree' /\ EliminatedForGood' /\ ReadyMeansEnded'
    BY <1>2, <2>4 DEF Poll, TryAdvance, ArmTurn, rmVars, HostInv, TablesAgree,
                      EliminatedForGood, ReadyMeansEnded
  <2>6. ClocksAgree'
    <3>1. age' = 0 /\ session'.connected \subseteq Players
      BY <1>2, <1>b, <2>4 DEF Poll, TryAdvance, Record
    <3>2. offline' = [p \in Players |->
                        IF p \in session.connected THEN 0 ELSE offline[p]]
      BY <1>2, <2>4 DEF Poll, Record
    <3> QED
      BY <1>2, <1>a, <1>b, <2>4, <3>1, <3>2
         DEF Poll, TryAdvance, ArmTurn, rmVars, HostInv, ClocksAgree
  <2> QED BY <1>a, <2>5, <2>6 DEF HostInv
<1>3. ASSUME NEW P \in SUBSET session.players, session' = RemovePlayers(session, P),
             tracked' = tracked \ P, reachable' = reachable \ P,
             \A p \in Players \ P : awayClock'[p] = awayClock[p],
             \/ UNCHANGED <<eliminated, armies>>
             \/ /\ eliminated' = eliminated \cup P
                /\ armies' = armies \ {FactionOf[p] : p \in P},
             UNCHANGED tmVars, Record(0)
      PROVE  HostInv'
  <2>1. /\ session'.players = session.players \ P
        /\ session'.connected = session.connected \ P
        /\ session'.ended = session.ended \ P
        /\ session'.turn = session.turn
    BY <1>3, <1>b DEF RemovePlayers, Sessions
  <2>2. TablesAgree' /\ ReadyMeansEnded'
    BY <1>3, <1>b, <2>1 DEF TablesAgree, HostInv, ReadyMeansEnded, tmVars
  <2>3. EliminatedForGood'
    BY <1>3, <1>b, <2>1 DEF HostInv, EliminatedForGood, OwnFactions
  <2>4. ClocksAgree'
    BY <1>3, <1>a, <1>b, <2>1, ClocksKept
  <2> QED BY <1>a, <2>2, <2>3, <2>4 DEF HostInv
<1>4. CASE Sweep
  <2> DEFINE P == {p \in Players : TimedOut(p)}
  <2>1. P \subseteq session.players /\ reachable' = reachable \ P
    BY <1>4, <1>b DEF Sweep, CheckTimeouts, Eliminate, TimedOut
  <2>2. \A p \in Players \ P : awayClock'[p] = awayClock[p]
    BY <1>4 DEF Sweep, CheckTimeouts, Eliminate
  <2> QED BY <1>3, <1>4, <2>1, <2>2 DEF Sweep, CheckTimeouts, Eliminate
<1>5. CASE Tick
  <2>1. TablesAgree' /\ EliminatedForGood' /\ ReadyMeansEnded'
    BY <1>5 DEF Tick, TurnClocksTick, AwayClocksTick, HostInv, TablesAgree,
                EliminatedForGood, ReadyMeansEnded
  <2>2. ClocksAgree'
    <3>1. turnInProgress => turnClock' <= age'
      BY <1>5, <1>a, TurnConfigAssumption
         DEF Tick, TurnClocksTick, Record, Later, HostInv, ClocksAgree, TypeOK,
             TypeOKTurnManager
    <3>2. graceActive => sinceEnd' # NobodyEnded /\ graceClock' <= sinceEnd'
      BY <1>5, <1>a, TurnConfigAssumption
         DEF Tick, TurnClocksTick, Record, Later, HostInv, ClocksAgree, TypeOK,
             TypeOKTurnManager, NobodyEnded
    <3>3. session.ended # {} => sinceEnd' # NobodyEnded
      BY <1>5, <1>a, TurnConfigAssumption
         DEF Tick, Record, Later, HostInv, ClocksAgree, TypeOK, NobodyEnded
    <3>4. /\ \A p \in session.connected : offline'[p] = 0
          /\ \A p \in tracked \ reachable : offline'[p] = awayClock'[p]
      BY <1>5, <1>b DEF Tick, AwayClocksTick, Record, Later, HostInv, ClocksAgree
    <3> QED
      BY <1>5, <3>1, <3>2, <3>3, <3>4
         DEF Tick, TurnClocksTick, AwayClocksTick, HostInv, ClocksAgree
  <2> QED BY <1>a, <2>1, <2>2 DEF HostInv
<1>6. ASSUME NEW p \in Players, Finish(p)
      PROVE  HostInv'
  <2>1. /\ session'.players = session.players
        /\ session'.connected = session.connected
        /\ session'.ended = session.ended \cup {p}
        /\ session'.turn = session.turn
    BY <1>6, <1>b DEF Finish, PlayerEndTurn, EndTurn, Sessions
  <2>2. TablesAgree' /\ EliminatedForGood' /\ ReadyMeansEnded'
    BY <1>6, <2>1 DEF Finish, PlayerEndTurn, rmVars, HostInv, TablesAgree,
                      EliminatedForGood, ReadyMeansEnded
  <2>3. ClocksAgree'
    <3>1. /\ age' = age
          /\ sinceEnd # NobodyEnded => sinceEnd' = sinceEnd
          /\ sinceEnd' # NobodyEnded
          /\ \A q \in session'.connected : offline'[q] = 0
          /\ \A q \in Players \ session'.connected : offline'[q] = offline[q]
      BY <1>6, <1>a, <2>1, InstantRecord DEF Finish
    <3>2. graceActive' => GracePeriod > 0 /\ graceClock' <= sinceEnd'
      BY <1>6, <1>a, <3>1, TurnConfigAssumption
         DEF Finish, PlayerEndTurn, HostInv, ClocksAgree, TypeOK,
             TypeOKTurnManager, NobodyEnded
    <3>3. /\ turnInProgress' => turnClock' <= age'
          /\ \A q \in tracked' \ reachable' : offline'[q] = awayClock'[q]
      BY <1>6, <1>b, <2>1, <3>1
         DEF Finish, PlayerEndTurn, rmVars, HostInv, ClocksAgree
    <3> QED
      BY <3>1, <3>2, <3>3 DEF ClocksAgree
  <2> QED BY <1>a, <2>2, <2>3 DEF HostInv
<1>7. ASSUME NEW p \in Players, Disconnect(p)
      PROVE  HostInv'
  <2>1. /\ session'.players = session.players
        /\ session'.connected = session.connected \ {p}
        /\ session'.ended = session.ended
        /\ session'.turn = session.turn
    BY <1>7, <1>b DEF Disconnect, HandleDisconnect, DisconnectPlayer, Sessions
  <2>2. TablesAgree' /\ EliminatedForGood' /\ ReadyMeansEnded'
    BY <1>7, <2>1 DEF Disconnect, HandleDisconnect, tmVars, HostInv, TablesAgree,
                      EliminatedForGood, ReadyMeansEnded
  <2>3. ClocksAgree'
    <3>1. \A q \in tracked' \ reachable' :
            /\ q \in Players \ session'.connected
            /\ \/ q \in tracked \ reachable /\ awayClock'[q] = awayClock[q]
               \/ q \in session.connected /\ awayClock'[q] = 0
      BY <1>7, <1>a, <1>b, <2>1
         DEF Disconnect, HandleDisconnect, TypeOK, TypeOKReconnection
    <3> QED
      BY <1>7, <1>a, <2>1, <3>1, ClocksKept DEF Disconnect
  <2> QED BY <1>a, <2>2, <2>3 DEF HostInv
<1>8. ASSUME NEW p \in Players, Reconnect(p)
      PROVE  HostInv'
  <2>1. CASE Eliminate({p})
    <3>1. p \in session.players /\ reachable' = reachable \ {p}
      BY <1>8, <1>b, <2>1 DEF Reconnect, HandleReconnect, Eliminate
    <3>2. \A q \in Players \ {p} : awayClock'[q] = awayClock[q]
      BY <2>1 DEF Eliminate
    <3> QED BY <1>3, <1>8, <2>1, <3>1, <3>2 DEF Reconnect, Eliminate
  <2>2. CASE ~Eliminate({p})
    <3>1. /\ session' = ConnectPlayer(session, p)
          /\ reachable' = reachable \cup {p}
          /\ p \in tracked
          /\ UNCHANGED <<tracked, awayClock, eliminated, armies>>
      BY <1>8, <2>2 DEF Reconnect, HandleReconnect
    <3>2. /\ session'.players = session.players
          /\ session'.connected = session.connected \cup {p}
          /\ session'.ended = session.ended
          /\ session'.turn = session.turn
      BY <3>1, <1>b DEF ConnectPlayer, Sessions
    <3>3. TablesAgree' /\ EliminatedForGood' /\ ReadyMeansEnded'
      BY <1>8, <3>1, <3>2 DEF Reconnect, tmVars, HostInv, TablesAgree,
                              EliminatedForGood, ReadyMeansEnded
    <3>4. ClocksAgree'
      BY <1>8, <1>a, <1>b, <3>1, <3>2, ClocksKept DEF Reconnect
    <3> QED BY <1>a, <3>3, <3>4 DEF HostInv
  <2> QED BY <2>1, <2>2
<1>9. ASSUME NEW p \in Players, LeaveGame(p)
      PROVE  HostInv'
  <2>1. \A q \in Players \ {p} : awayClock'[q] = awayClock[q]
    BY <1>9, <1>a DEF LeaveGame, TypeOK, TypeOKReconnection
  <2> QED BY <1>3, <1>9, <2>1 DEF LeaveGame
<1>10. CASE UNCHANGED vars
  BY <1>10 DEF vars, tmVars, rmVars, history, HostInv, TypeOK, TypeOKSession,
               TypeOKTurnManager, TypeOKReconnection, TablesAgree,
               EliminatedForGood, ReadyMeansEnded, ClocksAgree
<1> QED
  BY <1>1, <1>2, <1>4, <1>5, <1>6, <1>7, <1>8, <1>9, <1>10 DEF HostNext

\* The host's invariant, from which its promises follow.
THEOREM HostInvariant == ASSUME OwnFactions PROVE HostSpec => []HostInv
<1>1. HostInv /\ [HostNext]_vars => HostInv'
  BY HostInvStep
<1> QED
  BY <1>1, HostInvInit, PTL DEF HostSpec

\* The books of the three classes agree on every player: the two tables, the
\* eliminated with their units, and who has ended the turn.
THEOREM HostPlayersAccountedFor ==
  ASSUME OwnFactions PROVE HostSpec => []PlayersAccountedFor
<1>1. HostInv => PlayersAccountedFor
  BY DEF HostInv, PlayersAccountedFor
<1> QED
  BY <1>1, HostInvariant, PTL

\* A turn found expired is the current one, and has had its time.
THEOREM HostExpiryIsEarned == ASSUME OwnFactions PROVE HostSpec => []ExpiryIsEarned
<1>1. HostInv => ExpiryIsEarned
  BY TurnConfigAssumption
     DEF HostInv, ClocksAgree, IsExpired, ExpiryIsEarned, TypeOK,
         TypeOKTurnManager, NobodyEnded
<1> QED
  BY <1>1, HostInvariant, PTL

\* Nobody is eliminated who was connected within the timeout.
THEOREM HostEliminatedOnlyAfterTimeout ==
  ASSUME OwnFactions PROVE HostSpec => EliminatedOnlyAfterTimeout
<1>1. ASSUME HostInv, [HostNext]_vars
      PROVE  [\A p \in eliminated' \ eliminated : offline[p] >= DisconnectTimeout]_vars
  <2>1. ASSUME NEW p \in eliminated', p \notin eliminated
        PROVE  TimedOut(p)
    BY <1>1, <2>1
       DEF HostNext, Start, Poll, Sweep, CheckTimeouts, Tick, AwayClocksTick,
           Finish, Disconnect, HandleDisconnect, Reconnect, HandleReconnect,
           Eliminate, LeaveGame, vars, rmVars
  <2> QED
    BY <1>1, <2>1 DEF HostInv, ClocksAgree, TimedOut
<1> QED
  BY <1>1, HostInvariant, PTL DEF HostSpec, EliminatedOnlyAfterTimeout
=============================================================================
