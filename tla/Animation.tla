------------------------------ MODULE Animation ------------------------------
(***************************************************************************)
(* What is shown of a game while it is played: the animations of units     *)
(* (UnitAnimator), the effects of a fight (CombatEffects), the flight of   *)
(* the camera to the fight and back (CameraCinematic, Camera), and the     *)
(* order in which a frame (updateInGame) advances them before it handles   *)
(* the input that starts new ones.                                         *)
(*                                                                         *)
(* Time is in units of 50 milliseconds, of which all durations are         *)
(* multiples.  Places are on a line, tile n at 100 * n; a view is on its   *)
(* way from the player's to the fight's by a number of percent.  What of   *)
(* the game decides whether a move or a fight is possible is LocalGame's.  *)
(***************************************************************************)
EXTENDS Integers, SequencesExt

CONSTANTS
  Line,              \* the tiles
  Height,            \* and their elevation
  Views,             \* what the player's camera may look at
  FrameTimes,        \* how long a frame may take
  MaxFights          \* bound of the model: fights

AnimationAssumption ==
  /\ Line \subseteq Nat /\ Height \in [Line -> Nat]
  /\ FrameTimes \subseteq Nat \ {0} /\ MaxFights \in Nat

VARIABLES
  tiles,             \* where the units are: by index in the game's vector
  entries,           \* UnitAnimator::entries_, by index
  effects,           \* CombatEffectManager's three vectors, as one set
  cine,              \* CameraCinematic
  view,              \* Camera
  hist               \* history

vars == <<tiles, entries, effects, cine, view, hist>>

Least(a, b) == IF a <= b THEN a ELSE b

-----------------------------------------------------------------------------
(* UnitAnimator. *)

AnimDuration == [Move |-> 8, Attack |-> 7, Death |-> 10]

\* Smooth-step easing, of part a of b, in percent.
SmoothStep(a, b) == (100 * a * a * (3 * b - 2 * a)) \div (b * b * b)

\* How far the lunge is out, in percent of its distance: it is furthest
\* after 35 percent of the time.
LungeFraction(e) ==
  LET d == AnimDuration.Attack
  IN  IF 100 * e <= 35 * d THEN (10000 * e) \div (35 * d) ELSE (10000 * (d - e)) \div (65 * d)

\* What the three kinds of animation look like: place and height (a tile's
\* center is at height 0) and scale in percent.  A lunge goes for 20 percent
\* of the way to the next tile.
Visual(entry) ==
  LET e == entry.elapsed
      d == AnimDuration[entry.type]
      side == IF entry.to > entry.from THEN 1 ELSE IF entry.to < entry.from THEN -1 ELSE 0
  IN  CASE entry.type = "Move" ->
             [x |-> 100 * entry.from + (entry.to - entry.from) * SmoothStep(e, d), y |-> 0, scale |-> 100]
        [] entry.type = "Attack" ->
             [x |-> 100 * entry.from + (side * 20 * LungeFraction(e)) \div 100, y |-> 0, scale |-> 100]
        [] entry.type = "Death" ->
             [x |-> 100 * entry.from, y |-> -((50 * e) \div d), scale |-> 100 - (100 * e) \div d]

\* An animation replaces the one that the unit had.
StartAnim(es, i, type, from, to) ==
  [k \in DOMAIN es \cup {i} |->
     IF k = i THEN [type |-> type, elapsed |-> 0, from |-> from, to |-> to] ELSE es[k]]

\* update.  An entry is finished when its time is over.
UpdateAnims(es, dt) ==
  [i \in DOMAIN es |-> [es[i] EXCEPT !.elapsed = Least(@ + dt, AnimDuration[es[i].type])]]

Finished(entry) == entry.elapsed >= AnimDuration[entry.type]

RemoveFinished(es) == [i \in {k \in DOMAIN es : ~Finished(es[k])} |-> es[i]]

\* drawUnits: where the unit at index i is drawn.
Drawn(i) ==
  IF i \in DOMAIN entries THEN Visual(entries[i])
  ELSE [x |-> 100 * tiles[i], y |-> Height[tiles[i]], scale |-> 100]

-----------------------------------------------------------------------------
(* CombatEffects. *)

EffectDuration == [Number |-> 30, Flash |-> 6, Death |-> 12]

\* Those of a fight at the defender's tile, and at the attacker's.
SpawnEffects(i, j, counter, dead) ==
  {[kind |-> k, at |-> tiles[j], left |-> EffectDuration[k]] :
     k \in {"Flash", "Number"} \cup (IF j \in dead THEN {"Death"} ELSE {})}
  \cup
  {[kind |-> k, at |-> tiles[i], left |-> EffectDuration[k]] :
     k \in (IF counter THEN {"Flash", "Number"} ELSE {}) \cup (IF i \in dead THEN {"Death"} ELSE {})}

UpdateEffects(efs, dt) == {f \in {[g EXCEPT !.left = @ - dt] : g \in efs} : f.left > 0}

-----------------------------------------------------------------------------
(* CameraCinematic.  A snapshot is a view of the player's and how far from *)
(* there to the fight.                                                     *)

PhaseDuration == [PanToTarget |-> 12, Hold |-> 16, ReturnToOrigin |-> 10]

Active(c) == c.phase # "Idle"

Snapshot(v, away) == [of |-> v, away |-> away]

TriggerCombat(v) ==
  [phase |-> "PanToTarget", elapsed |-> 0, origin |-> v, current |-> v]

\* Mutant: the time of the phase that is over counts for the next.
EnterPhaseGoingOn(c, phase) == [c EXCEPT !.phase = phase]

\* The new phase begins at 0, whatever time is over.
EnterPhase(c, phase) == [c EXCEPT !.phase = phase, !.elapsed = 0]

\* Where the phase has the camera after its time so far.
CurrentAt(c) ==
  LET part == Least(c.elapsed, PhaseDuration[c.phase])
  IN  CASE c.phase = "PanToTarget" ->
             [c.origin EXCEPT !.away = SmoothStep(part, PhaseDuration.PanToTarget)]
        [] c.phase = "Hold" -> [c.origin EXCEPT !.away = 100]
        [] c.phase = "ReturnToOrigin" ->
             [c.origin EXCEPT !.away = 100 - SmoothStep(part, PhaseDuration.ReturnToOrigin)]

\* Mutant: the hold ends as the flight there begins.
NextPhaseCopied == [PanToTarget |-> "Hold", Hold |-> "PanToTarget", ReturnToOrigin |-> "Idle"]

NextPhase == [PanToTarget |-> "Hold", Hold |-> "ReturnToOrigin", ReturnToOrigin |-> "Idle"]

\* update of an active cinematic: at most one phase ends.
UpdateCinematic(c, dt) ==
  LET on == [c EXCEPT !.elapsed = @ + dt]
      there == [on EXCEPT !.current = CurrentAt(on)]
  IN  IF on.elapsed >= PhaseDuration[c.phase] THEN EnterPhase(there, NextPhase[c.phase]) ELSE there

SkipCinematic(c) == [c EXCEPT !.phase = "Idle", !.elapsed = 0, !.current = c.origin]

\* What is seen: the cinematic's view while there is one.
Seen == IF Active(cine) THEN cine.current ELSE view

-----------------------------------------------------------------------------
(* The frame. *)

Init ==
  /\ tiles \in [1 .. 2 -> Line] /\ tiles[1] # tiles[2]
  /\ entries = [i \in {} |-> 0] /\ effects = {}
  /\ view \in {Snapshot(v, 0) : v \in Views}
  /\ cine = [phase |-> "Idle", elapsed |-> 0, origin |-> view, current |-> view]
  /\ hist = [chosen |-> view,          \* what the player looks at,
             skipped |-> FALSE,        \* a cinematic was skipped since the last fight,
             shifted |-> FALSE,        \* units have other indices than their animations,
             dt |-> 1,                 \* how long this frame took,
             jumped |-> FALSE,         \* and whether it skipped,
             fights |-> 0]

\* The camera first: what the player does to it, or the cinematic.  The last
\* frame of a cinematic gives the camera back.
CameraFrame(space, dt, look) ==
  LET c == IF space THEN SkipCinematic(cine) ELSE UpdateCinematic(cine, dt)
  IN  IF ~Active(cine) THEN [cine |-> cine, view |-> Snapshot(look, 0)]
      ELSE [cine |-> c, view |-> IF Active(c) THEN view ELSE c.current]

\* Then what goes on by itself.
Running(dt) ==
  [effects |-> UpdateEffects(effects, dt), entries |-> RemoveFinished(UpdateAnims(entries, dt))]

\* History of a frame.
Record(space, dt, after, on) ==
  hist' = [hist EXCEPT !.chosen = IF Active(cine) THEN @ ELSE after.view,
                       !.skipped = @ \/ (space /\ Active(cine)),
                       !.shifted = @ /\ DOMAIN on.entries # {},
                       !.dt = dt, !.jumped = space /\ Active(cine)]

\* A frame without input that shows, after the camera and with what goes on.
Watch(space, dt, after, on) ==
  /\ cine' = after.cine /\ view' = after.view
  /\ effects' = on.effects /\ entries' = on.entries
  /\ Record(space, dt, after, on)
  /\ UNCHANGED tiles

\* tryMoveUnit: from where the unit was before the move to where it is.
StartMove(es, i, t) == StartAnim(es, i, "Move", tiles[i], t)

\* tryMoveUnit, if the move is possible.
MoveUnit(space, dt, after, on) ==
  \E i \in DOMAIN tiles, t \in Line \ Range(tiles) :
    /\ ~Active(after.cine)
    /\ tiles[i] - t \in {-1, 1}
    /\ cine' = after.cine /\ view' = after.view
    /\ effects' = on.effects
    /\ entries' = StartMove(on.entries, i, t)
    /\ tiles' = [tiles EXCEPT ![i] = t]
    /\ Record(space, dt, after, on)

\* Lunge and deaths are started under the indices of before the fight.
FightAnims(es, i, j, dead) ==
  LET lunge == StartAnim(es, i, "Attack", tiles[i], tiles[j])
      falls == IF j \in dead THEN StartAnim(lunge, j, "Death", tiles[j], tiles[j]) ELSE lunge
  IN  IF i \in dead THEN StartAnim(falls, i, "Death", tiles[i], tiles[i]) ELSE falls

\* tryAttack, if the attack is possible; the dead leave the vector.
Attack(space, dt, after, on) ==
  \E i, j \in DOMAIN tiles, counter \in BOOLEAN :
  \E dead \in SUBSET {i, j} :
    /\ ~Active(after.cine) /\ i # j
    /\ i \in dead => counter /\ j \notin dead
    /\ hist.fights < MaxFights
    /\ effects' = on.effects \cup SpawnEffects(i, j, counter, dead)
    /\ cine' = TriggerCombat(after.view) /\ view' = after.view
    /\ entries' = FightAnims(on.entries, i, j, dead)
    /\ \/ dead = {} /\ tiles' = tiles
       \/ \E k \in dead : tiles' = RemoveAt(tiles, k)
    /\ hist' = [hist EXCEPT !.chosen = after.view, !.skipped = FALSE,
                            !.shifted = dead # {} \/ (@ /\ DOMAIN on.entries # {}),
                            !.dt = dt, !.jumped = space /\ Active(cine), !.fights = @ + 1]

\* Space is of use, and a new view is chosen, only where the camera is asked.
Frame ==
  \E space \in BOOLEAN, dt \in FrameTimes, look \in Views :
    /\ IF Active(cine) THEN view = Snapshot(look, 0) ELSE ~space
    /\ \E after \in {CameraFrame(space, dt, look)}, on \in {Running(dt)} :
         \/ Watch(space, dt, after, on)
         \/ MoveUnit(space, dt, after, on)
         \/ Attack(space, dt, after, on)

Next == Frame

\* Frame follows frame.
Spec == Init /\ [][Next]_vars /\ WF_vars(Next)

-----------------------------------------------------------------------------
(* What is checked. *)

TypeOK ==
  /\ tiles \in Seq(Line) /\ Len(tiles) <= 2
  /\ \A i \in DOMAIN entries : /\ entries[i].type \in DOMAIN AnimDuration
                               /\ entries[i].elapsed \in 0 .. AnimDuration[entries[i].type] - 1
                               /\ {entries[i].from, entries[i].to} \subseteq Line
  /\ \A f \in effects : f.kind \in DOMAIN EffectDuration /\ f.at \in Line
  /\ Active(cine) => cine.elapsed \in 0 .. PhaseDuration[cine.phase] /\ cine.current.away \in 0 .. 100
  /\ view \in {Snapshot(v, 0) : v \in Views}

\* The opacity of an effect, the part of its time that is left, is more than
\* nothing and no more than all: its conversion to a byte is defined.
OpacityIsDefined == \A f \in effects : f.left \in 1 .. EffectDuration[f.kind]

\* When the player may act again after having watched a fight, nothing of
\* the fight is still going on, however long the frames were.
FightIsOver ==
  ~Active(cine) /\ ~hist.skipped =>
    effects = {} /\ \A i \in DOMAIN entries : entries[i].type = "Move"

\* Between fights the camera is where the player left it, skipped or not.
CameraComesBack == ~Active(cine) => view = hist.chosen

Abs(n) == IF n < 0 THEN -n ELSE n

\* The eye flies: in a frame it gets no further than its greatest speed
\* allows, which is that of the way back, unless the cinematic is skipped.
EyeFlies ==
  [][\/ hist'.jumped
     \/ Seen'.away # Seen.away /\ Seen'.of = Seen.of /\ Abs(Seen'.away - Seen.away) <= 15 * hist'.dt + 1
     \/ Seen'.away = Seen.away /\ (Active(cine) => Seen'.of = Seen.of)]_vars

\* A unit is never seen to jump along its way: not when it is on its new tile
\* already, nor when its animation ends and it is drawn there; unless a new
\* animation begins before the last is over, or units have changed indices.
UnitsWalk ==
  [][hist.shifted \/ hist'.shifted \/
     \A i \in DOMAIN tiles' :
       \/ i \in DOMAIN Running(hist'.dt).entries /\ entries'[i].elapsed = 0
       \/ Abs(Drawn(i)'.x - Drawn(i).x) <= 20 * hist'.dt + 1]_vars

\* The camera comes back.
CinematicEnds == Active(cine) ~> ~Active(cine)

\* What is shown of moves and fights goes together, in a frame and from frame
\* to frame.
FightsAreShown ==
  /\ [](TypeOK /\ OpacityIsDefined /\ FightIsOver /\ CameraComesBack)
  /\ EyeFlies /\ UnitsWalk

=============================================================================
