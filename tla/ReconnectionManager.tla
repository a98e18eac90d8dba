------------------------ MODULE ReconnectionManager ------------------------
(***************************************************************************)
(* game::ReconnectionManager: which players it tracks, who of them it      *)
(* believes connected, and whom it has eliminated for staying away.        *)
(*                                                                         *)
(* A player's disconnectTime is kept as the time elapsed since then, up to *)
(* the timeout it is compared with.  Of the world, the units are kept per  *)
(* faction (`armies': the factions with units on the map), which is what   *)
(* eliminatePlayerUnits removes.  The serialized snapshot is the state it  *)
(* was taken of, reduced to the same two things.                           *)
(***************************************************************************)
EXTENDS GameSession

CONSTANTS
  Factions,           \* the faction ids
  FactionOf,          \* the faction each player is registered with
  DisconnectTimeout   \* in ticks

ASSUME ReconnectionAssumption ==
  FactionOf \in [Players -> Factions] /\ DisconnectTimeout \in Nat

VARIABLES
  tracked,            \* the keys of players_
  reachable,          \* those of them with connected == true
  awayClock,          \* time since disconnectTime; stands still once back
  eliminated,         \* eliminated_
  armies,             \* factions that have units on the map
  lastSnapshot        \* what the last reconnecting player was sent

rmVars == <<tracked, reachable, awayClock, eliminated, armies, lastSnapshot>>

NoSnapshot == [turn |-> 0, armies |-> {}]

Snapshot == [turn |-> session.turn, armies |-> armies]

TypeOKReconnection ==
  /\ tracked \in SUBSET Players
  /\ reachable \in SUBSET tracked
  /\ awayClock \in [Players -> 0 .. DisconnectTimeout]
  /\ eliminated \in SUBSET Players
  /\ armies \in SUBSET Factions
  /\ lastSnapshot \in [turn : Nat, armies : SUBSET Factions]

InitReconnection ==
  /\ tracked = {}
  /\ reachable = {}
  /\ awayClock = [p \in Players |-> 0]
  /\ eliminated = {}
  /\ armies = Factions
  /\ lastSnapshot = NoSnapshot

\* registerPlayer takes the player for connected whatever the session says,
\* and does not ask whether the player was eliminated before.
RegisterPlayer(p) ==
  /\ p \notin tracked
  /\ tracked' = tracked \cup {p}
  /\ reachable' = reachable \cup {p}
  /\ awayClock' = [awayClock EXCEPT ![p] = 0]
  /\ UNCHANGED <<session, eliminated, armies, lastSnapshot>>

UnregisterPlayer(p) ==
  /\ p \in tracked
  /\ tracked' = tracked \ {p}
  /\ reachable' = reachable \ {p}
  /\ awayClock' = [awayClock EXCEPT ![p] = 0]
  /\ UNCHANGED <<session, eliminated, armies, lastSnapshot>>

\* Mutant: the time of the disconnection is not recorded.
HandleDisconnectUntimed(p) ==
  /\ p \in reachable
  /\ reachable' = reachable \ {p}
  /\ session' = DisconnectPlayer(session, p)
  /\ UNCHANGED <<tracked, awayClock, eliminated, armies, lastSnapshot>>

\* Mutant: a repeated report of the same loss starts the clock again.
HandleDisconnectAgain(p) ==
  /\ p \in tracked
  /\ reachable' = reachable \ {p}
  /\ awayClock' = [awayClock EXCEPT ![p] = 0]
  /\ session' = DisconnectPlayer(session, p)
  /\ UNCHANGED <<tracked, eliminated, armies, lastSnapshot>>

HandleDisconnect(p) ==
  /\ p \in reachable
  /\ reachable' = reachable \ {p}
  /\ awayClock' = [awayClock EXCEPT ![p] = 0]
  /\ session' = DisconnectPlayer(session, p)
  /\ UNCHANGED <<tracked, eliminated, armies, lastSnapshot>>

TimedOut(p) == p \in tracked \ reachable /\ awayClock[p] >= DisconnectTimeout

\* Mutant: they stay in the session.
EliminateFromTableOnly(P) ==
  /\ armies' = armies \ {FactionOf[p] : p \in P}
  /\ tracked' = tracked \ P
  /\ eliminated' = eliminated \cup P
  /\ awayClock' = [p \in Players |-> IF p \in P THEN 0 ELSE awayClock[p]]
  /\ UNCHANGED <<session, reachable, lastSnapshot>>

\* Their units go, they leave the session and the tracking table.  Cities
\* and buildings of the faction stay.
Eliminate(P) ==
  /\ armies' = armies \ {FactionOf[p] : p \in P}
  /\ session' = RemovePlayers(session, P)
  /\ tracked' = tracked \ P
  /\ eliminated' = eliminated \cup P
  /\ awayClock' = [p \in Players |-> IF p \in P THEN 0 ELSE awayClock[p]]
  /\ UNCHANGED <<reachable, lastSnapshot>>

\* A player who claims the faction it was registered with and is not
\* believed connected comes back in time, or is eliminated on the spot.
HandleReconnect(p, f) ==
  /\ p \notin eliminated
  /\ p \in tracked
  /\ f = FactionOf[p]
  /\ p \notin reachable
  /\ \/ /\ TimedOut(p)
        /\ Eliminate({p})
     \/ /\ ~TimedOut(p)
        /\ reachable' = reachable \cup {p}
        /\ session' = ConnectPlayer(session, p)
        /\ lastSnapshot' = Snapshot
        /\ UNCHANGED <<tracked, awayClock, eliminated, armies>>

CheckTimeouts ==
  /\ \E p \in Players : TimedOut(p)
  /\ Eliminate({p \in Players : TimedOut(p)})

\* One tick of the callers' clock.
AwayClocksTick ==
  /\ awayClock' = [p \in Players |->
       IF p \in tracked \ reachable /\ awayClock[p] < DisconnectTimeout
       THEN awayClock[p] + 1 ELSE awayClock[p]]
  /\ UNCHANGED <<tracked, reachable, eliminated, armies, lastSnapshot>>

=============================================================================
