---------------------------- MODULE TurnManager ----------------------------
(***************************************************************************)
(* game::TurnManager: the deadline and grace period of a simultaneous      *)
(* turn, on top of a GameSession.                                          *)
(*                                                                         *)
(* The class owns no clock: callers pass the current time.  The deadlines  *)
(* it computes are only ever compared with that time, so the model keeps   *)
(* the time elapsed since each was armed: currentTime >= deadline_ is      *)
(* turnClock >= TurnDuration, and currentTime >= graceDeadline_ is         *)
(* graceClock >= GracePeriod.  A clock stops at the value that decides the *)
(* comparison, which keeps the state finite without bounding time.         *)
(***************************************************************************)
EXTENDS GameSession

CONSTANTS
  TurnDuration,      \* TurnConfig::turnDurationSeconds, in ticks
  GracePeriod        \* TurnConfig::gracePeriodSeconds, in ticks; 0: no grace

ASSUME TurnConfigAssumption == TurnDuration \in Nat /\ GracePeriod \in Nat

VARIABLES
  turnInProgress,    \* has startTurn been called?
  readyPlayers,      \* who called playerEndTurn since startTurn
  graceActive,       \* has the grace period of this turn begun?
  turnClock,         \* time since startTurn, up to TurnDuration
  graceClock         \* time since graceActive was set, up to GracePeriod

tmVars == <<turnInProgress, readyPlayers, graceActive, turnClock, graceClock>>

TypeOKTurnManager ==
  /\ turnInProgress \in BOOLEAN
  /\ readyPlayers \in SUBSET Players
  /\ graceActive \in BOOLEAN
  /\ turnClock \in 0 .. TurnDuration
  /\ graceClock \in 0 .. GracePeriod
  /\ graceActive \/ graceClock = 0

InitTurnManager ==
  /\ turnInProgress = FALSE
  /\ readyPlayers = {}
  /\ graceActive = FALSE
  /\ turnClock = 0
  /\ graceClock = 0

\* Mutant: the grace period of the last turn stays active.
ArmTurnKeepingGrace ==
  /\ turnInProgress' = TRUE
  /\ readyPlayers' = {}
  /\ graceActive' = graceActive
  /\ turnClock' = 0
  /\ graceClock' = 0

\* startTurn forgets who was ready and re-arms the deadline.  It does not
\* touch the session: a player who ended the turn there stays ended.
ArmTurn ==
  /\ turnInProgress' = TRUE
  /\ readyPlayers' = {}
  /\ graceActive' = FALSE
  /\ turnClock' = 0
  /\ graceClock' = 0

StartTurn == ArmTurn /\ UNCHANGED session

\* The first player to finish starts the grace period, if there is one.  A
\* disconnected player may finish, and a turn need not be in progress.
PlayerEndTurn(p) ==
  /\ p \in session.players
  /\ session' = EndTurn(session, p)
  /\ readyPlayers' = readyPlayers \cup {p}
  /\ graceActive' = (graceActive \/ GracePeriod > 0)
  /\ UNCHANGED <<turnInProgress, turnClock, graceClock>>

IsReady == AllPlayersEndedTurn(session)

IsExpired ==
  /\ turnInProgress
  /\ \/ turnClock >= TurnDuration
     \/ graceActive /\ graceClock >= GracePeriod

\* Mutant: nobody is forced.
ForceEndNobody(s) == s

ForceEndRemainingPlayers(s) == [s EXCEPT !.ended = @ \cup Acting(s)]

\* The session as tryAdvance leaves it.
Advanced ==
  TryAdvanceTurn(IF IsExpired /\ ~IsReady
                 THEN ForceEndRemainingPlayers(session)
                 ELSE session)

\* One poll that does something.  An expired session without players is
\* polled in vain: its turn does not advance.
TryAdvance ==
  /\ turnInProgress
  /\ IsReady \/ IsExpired
  /\ session' = Advanced
  /\ session'.turn # session.turn
  /\ ArmTurn

Later(clock, limit) == IF clock < limit THEN clock + 1 ELSE clock

\* One tick of the callers' clock.
TurnClocksTick ==
  /\ turnClock' = IF turnInProgress THEN Later(turnClock, TurnDuration)
                  ELSE turnClock
  /\ graceClock' = IF graceActive THEN Later(graceClock, GracePeriod)
                   ELSE graceClock
  /\ UNCHANGED <<turnInProgress, readyPlayers, graceActive>>

=============================================================================
