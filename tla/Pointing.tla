------------------------------ MODULE Pointing ------------------------------
(***************************************************************************)
(* From the mouse to a tile, and the tooltip that waits for it: HexGrid of *)
(* the engine (tileCenter, worldToTile), Input and Tooltip, one frame a    *)
(* step.                                                                   *)
(*                                                                         *)
(* Points on the ground are pairs of integers, <<x, z>>, in Parts of the   *)
(* distance between two columns and between two rows.  With a radius of 1  *)
(* these distances are sqrt(3) and 3/2, so that squared lengths, times     *)
(* 4 * Parts * Parts, are integers: nothing is rounded that the code does  *)
(* not round.                                                              *)
(***************************************************************************)
EXTENDS Integers, FiniteSetsExt

CONSTANTS
  Rows, Cols,        \* the map
  Parts,             \* bound of the model: the resolution of the points,
  Margin,            \* how far from the map they reach,
  Reach,             \* and how far the mouse gets in a frame
  FrameTimes,        \* the lengths of frames
  HoverDelay,        \* HOVER_DELAY
  MaxTime            \* bound of the model: times are not counted beyond it

PointingAssumption ==
  /\ {Rows, Cols, Parts, Reach, HoverDelay, MaxTime} \subseteq Nat \ {0} /\ Margin \in Nat
  /\ Parts % 2 = 0 /\ HoverDelay < MaxTime /\ FrameTimes \subseteq Nat \ {0}

VARIABLES
  mouse,             \* the point under the mouse, or the sky
  tooltip,           \* hoverRow_ and hoverCol_, hoverTime_, hovering_
  rest               \* history: the tile under the mouse, and the time it has
                     \* been there since it was found there, by a frame of
                     \* which length

vars == <<mouse, tooltip, rest>>

Map == (0 .. Rows - 1) \X (0 .. Cols - 1)

NoTile == <<-1, -1>>

Sky == <<>>

Ground ==
  (-Margin .. Parts * Cols + Margin) \X (-Margin .. Parts * Rows + Margin)

\* A squared distance of 1.
SquaredRadius == 4 * Parts * Parts

tileCenter(t) == <<Parts * t[2] + (IF t[1] % 2 # 0 THEN Parts \div 2 ELSE 0), Parts * t[1]>>

SquaredDistance(p, q) == 12 * (p[1] - q[1]) * (p[1] - q[1]) + 9 * (p[2] - q[2]) * (p[2] - q[2])

\* std::round of n / Parts: halves go away from zero.
Rounded(n) ==
  IF n >= 0 THEN (2 * n + Parts) \div (2 * Parts) ELSE -((Parts - 2 * n) \div (2 * Parts))

\* Mutant: the row and the column next to the approximation are not tried.
NearbyOnly(p) == {<<Rounded(p[2]), Rounded(p[1])>>} \cap Map

\* The tiles of the map that are tried.
Nearby(p) ==
  {<<Rounded(p[2]) + i, Rounded(p[1]) + j>> : i, j \in -1 .. 1} \cap Map

\* Of two that are equally near, the first in the order of the loops.
worldToTile(p) ==
  LET near == {t \in Nearby(p) :
                 \A o \in Nearby(p) :
                   SquaredDistance(p, tileCenter(t)) <= SquaredDistance(p, tileCenter(o))}
      best == CHOOSE t \in near : \A o \in near : t[1] < o[1] \/ (t[1] = o[1] /\ t[2] <= o[2])
  IN  IF near = {} \/ SquaredDistance(p, tileCenter(best)) > SquaredRadius THEN NoTile ELSE best

\* A ray that does not meet the ground has no tile.
mouseToTile(p) == IF p = Sky THEN NoTile ELSE worldToTile(p)

\* Tooltip::update; MaxTime stands for all longer times.
Update(tip, t, dt) ==
  IF t = NoTile THEN [tip EXCEPT !.hovering = FALSE, !.time = 0]
  ELSE [tile |-> t, hovering |-> TRUE,
        time |-> Min({(IF t = tip.tile THEN tip.time ELSE 0) + dt, MaxTime})]

\* Whether draw shows it.
Shown(tip) == tip.hovering /\ tip.time >= HoverDelay

-----------------------------------------------------------------------------
(* The reference: the hexagons.  Their corners are 1 from the centre, two  *)
(* of them straight ahead and behind.                                      *)

Magnitude(n) == IF n < 0 THEN -n ELSE n

\* Whether the point is in the hexagon with the given centre, its border
\* included.
InHexagon(p, center) ==
  LET dx == Magnitude(p[1] - center[1])
      dz == Magnitude(p[2] - center[2])
  IN  2 * dx <= Parts /\ 2 * dx + 3 * dz <= 2 * Parts

\* The tiles the point lies on: several on a border, none outside.
TilesUnder(p) == {t \in Map : InHexagon(p, tileCenter(t))}

-----------------------------------------------------------------------------

Init ==
  /\ mouse = Sky
  /\ tooltip = [tile |-> NoTile, hovering |-> FALSE, time |-> 0]
  /\ rest = [tile |-> NoTile, time |-> 0, came |-> 0]

\* Where the mouse may be next: within reach, or off the ground; and from
\* there anywhere, as when the camera turns.
Within(p) ==
  IF p = Sky THEN Ground \cup {Sky}
  ELSE {Sky} \cup (Ground \cap ((p[1] - Reach .. p[1] + Reach) \X (p[2] - Reach .. p[2] + Reach)))

\* A frame.
Frame(p, dt) ==
  LET t == mouseToTile(p)
  IN  /\ mouse' = p
      /\ tooltip' = Update(tooltip, t, dt)
      /\ rest' = IF t = NoTile THEN [tile |-> NoTile, time |-> 0, came |-> 0]
                 ELSE IF t = rest.tile THEN [rest EXCEPT !.time = Min({@ + dt, MaxTime})]
                 ELSE [tile |-> t, time |-> 0, came |-> dt]

Next == \E p \in Within(mouse), dt \in FrameTimes : Frame(p, dt)

Spec == Init /\ [][Next]_vars

-----------------------------------------------------------------------------
(* What is checked. *)

TypeOK ==
  /\ mouse \in Ground \cup {Sky}
  /\ tooltip \in [tile : Map \cup {NoTile}, hovering : BOOLEAN, time : 0 .. MaxTime]
  /\ rest \in [tile : Map \cup {NoTile}, time : 0 .. MaxTime, came : FrameTimes \cup {0}]

\* A point on the map is taken for a tile whose hexagon it lies on: that the
\* approximation by rectangles is at most one off is enough, in all places of
\* rows of both kinds and at the edges of the map, where the tiles tried are
\* fewer.
HexagonIsPicked ==
  mouse # Sky /\ TilesUnder(mouse) # {} => mouseToTile(mouse) \in TilesUnder(mouse)

\* What is shown is of the tile the mouse is on, and the mouse has been there
\* for the delay, but for the one frame in which it came: neither a tile that
\* was left and entered again nor the sky in between lends its time.
TooltipWaits ==
  Shown(tooltip) => /\ tooltip.tile = mouseToTile(mouse) /\ tooltip.tile = rest.tile
                    /\ rest.time + rest.came >= HoverDelay

\* Both, in every frame.
PointingIsRight == TypeOK /\ HexagonIsPicked /\ TooltipWaits

=============================================================================
