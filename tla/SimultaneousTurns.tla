------------------------- MODULE SimultaneousTurns -------------------------
(***************************************************************************)
(* What a game of simultaneous turns promises its players, whoever drives  *)
(* it: all act in the same turn, the turn closes when every connected      *)
(* player has finished or when it is overdue, and a new turn is open for   *)
(* everybody.  Finishing is remembered for the rest of the turn, also      *)
(* across a disconnection, and never beyond it.                            *)
(***************************************************************************)
EXTENDS Integers

CONSTANTS Players, MaxTurn

VARIABLES
  turn,       \* the number of the current turn
  members,    \* who takes part in the game
  online,     \* who of them is connected
  done,       \* who of them has finished the current turn
  overdue     \* has the time given to the turn run out?

vars == <<turn, members, online, done, overdue>>

Init ==
  /\ turn = 1
  /\ members \in SUBSET Players
  /\ online \in SUBSET members
  /\ done = {}
  /\ overdue = FALSE

\* A player joins, or comes back.
Arrive(p) ==
  /\ members' = members \cup {p}
  /\ online' = online \cup {p}
  /\ UNCHANGED <<turn, done, overdue>>

Disconnect(p) ==
  /\ online' = online \ {p}
  /\ UNCHANGED <<turn, members, done, overdue>>

\* Players leave the game, of their own will or eliminated.
Leave(P) ==
  /\ members' = members \ P
  /\ online' = online \ P
  /\ done' = done \ P
  /\ UNCHANGED <<turn, overdue>>

Finish(p) ==
  /\ p \in members
  /\ done' = done \cup {p}
  /\ UNCHANGED <<turn, members, online, overdue>>

\* The time runs out, or is given anew.
Clock ==
  /\ overdue' = ~overdue
  /\ UNCHANGED <<turn, members, online, done>>

\* The turn closes.  The player who completes it (F) may be finishing in
\* the same step.
Advance(F) ==
  /\ turn < MaxTurn
  /\ members # {}
  /\ overdue \/ online \subseteq done \cup (F \cap members)
  /\ turn' = turn + 1
  /\ done' = {}
  /\ overdue' \in BOOLEAN
  /\ UNCHANGED <<members, online>>

Next ==
  \/ \E p \in Players :
        Arrive(p) \/ Disconnect(p) \/ Finish(p) \/ Advance({p})
  \/ \E P \in SUBSET Players : Leave(P)
  \/ Clock
  \/ Advance({})

Spec == Init /\ [][Next]_vars

\* Somebody keeps asking whether the turn may close.
FairSpec == Spec /\ WF_vars(Advance({}))

=============================================================================
