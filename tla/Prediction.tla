----------------------------- MODULE Prediction -----------------------------
(***************************************************************************)
(* game::PredictionManager: a client that applies its actions to a session *)
(* of its own before the server has confirmed them.                        *)
(*                                                                         *)
(* The server is ActionProcessor, with its variables world, online, turn   *)
(* and process.  The client's GameState is `local'.  Answers to            *)
(* predictions come from a network: in any order, and whatever the server  *)
(* did about them.  A snapshot of the server's state that was long under   *)
(* way is one that the server took its later steps after, so that the      *)
(* present one will do.                                                    *)
(***************************************************************************)
EXTENDS ActionProcessor

CONSTANTS
  MaxId,      \* bound of the model: the last sequence id
  MaxXp,      \* bound of the model: no reconciliation beyond this experience
  Mine        \* the faction the client leads

VARIABLES
  local,      \* the client's units and cities
  localTurn,
  pending,    \* the unconfirmed predictions, in the order they were made
  nextId,     \* nextSequenceId_
  base,       \* history: what `local' should be without the unconfirmed
  careful     \* history: the unconfirmed are moves of the client's own units,
              \* one each, since they were last none

client == <<local, localTurn, pending, nextId, base, careful>>

InitialId == 1

PredictionInit ==
  /\ Init
  /\ local = world
  /\ localTurn = turn
  /\ pending = <<>>
  /\ nextId = InitialId
  /\ base = world
  /\ careful = TRUE

-----------------------------------------------------------------------------
(* Actions as data. *)

GameActions(w) ==
  [type : {"move"}, unit : Indices(w), tile : Tiles]
    \cup [type : {"attack"}, unit : Indices(w), target : Indices(w)]
    \cup [type : {"capture"}, unit : Indices(w)]

Executes(w, a) ==
  \/ a.type = "move" /\ ValidMove(w, a.unit, a.tile)
  \/ a.type = "attack" /\ ValidAttack(w, a.unit, a.target)
  \/ a.type = "capture" /\ ValidCapture(w, a.unit)

Execute(w, a) ==
  IF ~Executes(w, a) THEN w
  ELSE CASE a.type = "move" -> Move(w, a.unit, a.tile)
         [] a.type = "attack" -> AttackUnit(w, a.unit, a.target)
         [] a.type = "capture" -> Capture(w, a.unit)

-----------------------------------------------------------------------------
(* Snapshots. *)

\* setHealth, setMovementRemaining and setPosition on the unit at index i,
\* and its registration.  The values may come from another kind of unit.
SetUnit(w, i, values) ==
  LET p == w.order[i]
      most == Template[w.unit[p].kind]
      set == [w.unit[p] EXCEPT !.health = AtMost(values.health, most.health),
                               !.moves = AtMost(values.moves, most.moves)]
  IN  Relocate([w EXCEPT !.unit = [q \in DOMAIN w.unit |-> IF q = p THEN set ELSE w.unit[q]]],
               p, values.tile)

CaptureSnapshot(w, a) ==
  LET u == UnitAt(w, a.unit)
  IN  [unit |-> a.unit, tile |-> u.tile, health |-> u.health, moves |-> u.moves]

\* Mutant: movement is not given back.
RollbackPosition(w, snapshot) ==
  IF snapshot.unit \in Indices(w)
  THEN SetUnit(w, snapshot.unit,
         [snapshot EXCEPT !.moves = UnitAt(w, snapshot.unit).moves])
  ELSE w

\* What else the action changed stays; the index may name another unit now.
RollbackPrediction(w, snapshot) ==
  IF snapshot.unit \in Indices(w) THEN SetUnit(w, snapshot.unit, snapshot) ELSE w

\* Newest first.
RollbackAll(w, predictions) ==
  LET last == Len(predictions)
      after[n \in 0 .. last] ==
        IF n = 0 THEN w
        ELSE RollbackPrediction(after[n - 1], predictions[last + 1 - n].snapshot)
  IN  after[last]

\* A prediction after others; what cannot be applied is dropped.
Follow(before, p) ==
  IF Executes(before.world, p.action)
  THEN [world |-> Execute(before.world, p.action), pending |-> Append(before.pending, p)]
  ELSE before

\* Oldest first; they keep the snapshots they have.
Reapply(w, predictions) ==
  LET after[n \in 0 .. Len(predictions)] ==
        IF n = 0 THEN [world |-> w, pending |-> <<>>]
        ELSE Follow(after[n - 1], predictions[n])
  IN  after[Len(predictions)]

-----------------------------------------------------------------------------
(* The methods. *)

PredictAction(a) ==
  /\ nextId <= MaxId
  /\ Executes(local, a)
  /\ local' = Execute(local, a)
  /\ pending' = Append(pending,
       [id |-> nextId, action |-> a, snapshot |-> CaptureSnapshot(local, a)])
  /\ nextId' = nextId + 1
  /\ careful' = /\ careful
                /\ a.type = "move"
                /\ UnitAt(local, a.unit).faction = Mine
                /\ \A n \in DOMAIN pending : pending[n].action.unit # a.unit
  /\ UNCHANGED <<localTurn, base>>

ConfirmAction(n) ==
  /\ pending' = RemoveAt(pending, n)
  /\ base' = Execute(base, pending[n].action)
  /\ UNCHANGED <<local, localTurn, nextId, careful>>

RejectAction(n) ==
  LET from == SubSeq(pending, n, Len(pending))
      again == Reapply(RollbackAll(local, from), Tail(from))
  IN  /\ local' = again.world
      /\ pending' = SubSeq(pending, 1, n - 1) \o again.pending
      /\ UNCHANGED <<localTurn, nextId, base, careful>>

\* The units' positions, health and movement are copied index by index, as
\* far as both vectors go; everything else is left as it is.
Synchronize(w, from) ==
  LET common == AtMost(Len(w.order), Len(from.order))
      after[n \in 0 .. common] ==
        IF n = 0 THEN w ELSE SetUnit(after[n - 1], n, UnitAt(from, n))
  IN  after[common]

\* Each time a pending attack is applied again it brings experience again.
Reconcile ==
  LET synced == Synchronize(local, world)
      again == Reapply(synced, pending)
  IN  /\ \A p \in DOMAIN local.unit : local.unit[p].xp <= MaxXp
      /\ local' = again.world
      /\ localTurn' = turn
      /\ pending' = again.pending
      /\ base' = synced
      /\ careful' = (pending = <<>>)
      /\ UNCHANGED nextId

\* The predictions are taken for the truth.
ClearPredictions ==
  /\ pending # <<>>
  /\ pending' = <<>>
  /\ base' = local
  /\ careful' = TRUE
  /\ UNCHANGED <<local, localTurn, nextId>>

Answer == \E n \in DOMAIN pending : ConfirmAction(n) \/ RejectAction(n)

ClientStep ==
  \/ \E a \in GameActions(local) : PredictAction(a)
  \/ Answer
  \/ Reconcile
  \/ ClearPredictions

\* The server is sent destinations on its map, as the client's own are.
ServerStep == (ProcessAction \/ EndOfTurn) /\ UNCHANGED process

PredictionSpec ==
  /\ PredictionInit
  /\ [][\/ ClientStep /\ UNCHANGED vars
        \/ ServerStep /\ UNCHANGED client]_<<vars, client>>

\* A client that fights, one prediction at a time.
FightingSpec ==
  /\ PredictionInit
  /\ [][/\ \/ \E a \in GameActions(local) :
                a.type = "attack" /\ pending = <<>> /\ PredictAction(a)
           \/ Answer
        /\ UNCHANGED vars]_<<vars, client>>

-----------------------------------------------------------------------------
(* What is checked. *)

Ids == {pending[n].id : n \in DOMAIN pending}

PredictionTypeOK ==
  /\ WorldShape(local) /\ WorldShape(base)
  /\ local.town \in Towns
  /\ localTurn \in Nat
  /\ nextId \in Nat
  /\ \A n \in DOMAIN pending : pending[n].snapshot.tile \in Tiles

\* Putting units where they were, or where the server has them, leaves the
\* client's vector and registry in agreement, and nobody on the map who has
\* fallen: whichever unit an old index names by then.
LocalSound ==
  /\ VectorExact(local)
  /\ RegistryExact(local)
  /\ \A p \in DOMAIN local.unit : Alive(local.unit[p])

\* Predictions are kept once each and in the order in which they were made,
\* through every rejection and reconciliation: it is the order in which they
\* are applied again, and an answer is about the first with its id.
PendingInOrder ==
  /\ \A m, n \in DOMAIN pending : m < n => pending[m].id < pending[n].id
  /\ \A id \in Ids : id < nextId

\* The client shows what has been confirmed, and on top of it what has not
\* been answered yet: a rejected action leaves no trace.
LocalIsConfirmedPlusPending == local = Reapply(base, pending).world

\* The client's copy of the game is sound whatever is answered, and when the
\* unanswered are moves, one per unit, in whatever order the answers come, it
\* is the confirmed game and those moves.
PredictionsAreSound ==
  /\ PredictionTypeOK
  /\ LocalSound
  /\ PendingInOrder
  /\ careful => LocalIsConfirmedPlusPending

-----------------------------------------------------------------------------
(* What the repository says and the code does not do. *)

\* PredictionManager.cpp:56: the order of rollback ensures correct state when
\* predictions depend on each other.  So a rejected attack is undone, too.
RejectedIsUndone == LocalIsConfirmedPlusPending

=============================================================================
