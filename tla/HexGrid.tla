------------------------------ MODULE HexGrid ------------------------------
(***************************************************************************)
(* The map's geometry: a rectangle of hexagonal tiles in odd-r offset      *)
(* coordinates, <<row, column>> from 0, where odd rows are shifted right   *)
(* by half a tile.                                                         *)
(*                                                                         *)
(* The code holds three tables of neighbour offsets (TurnResolver,         *)
(* NeutralAI, Pathfinding, of which ZoneOfControl uses the last) and three *)
(* copies of the distance formula (AttackAction, Pathfinding, FogOfWar).   *)
(* They differ only in the order in which neighbours are listed.           *)
(***************************************************************************)
EXTENDS Integers

CONSTANTS Rows, Cols     \* the map's height and width

ASSUME GridAssumption == Rows \in Nat \ {0} /\ Cols \in Nat \ {0}

Tiles == (0 .. Rows - 1) \X (0 .. Cols - 1)

Magnitude(n) == IF n < 0 THEN -n ELSE n

\* Two neighbours in the tile's own row, two in each of the adjacent rows:
\* the columns left and right of the shared edge, which depend on the row.
Neighbors(t) ==
  {n \in Tiles :
     \/ n[1] = t[1] /\ n[2] \in {t[2] - 1, t[2] + 1}
     \/ /\ n[1] \in {t[1] - 1, t[1] + 1}
        /\ n[2] \in {t[2] + (t[1] % 2) - 1, t[2] + (t[1] % 2)}}

\* The cube coordinate x of a tile; z is its row, and y is -x - z.
CubeX(t) == t[2] - (t[1] - (t[1] % 2)) \div 2

\* Mutant: the y coordinate is left out.
AxialDistance(a, b) == Magnitude(CubeX(a) - CubeX(b)) + Magnitude(a[1] - b[1])

HexDistance(a, b) ==
  LET dx == CubeX(a) - CubeX(b)
      dz == a[1] - b[1]
  IN  (Magnitude(dx) + Magnitude(dx + dz) + Magnitude(dz)) \div 2

\* Mutant: the bounding box leaves out its last column.
SightBoxShort(center, radius) ==
  {t \in Tiles : /\ t[1] \in center[1] - radius .. center[1] + radius
                 /\ t[2] \in center[2] - radius .. center[2] + radius - 1}

\* FogOfWar::applyVision scans a bounding box and keeps the tiles in range.
SightBox(center, radius) ==
  {t \in Tiles : /\ t[1] \in center[1] - radius .. center[1] + radius
                 /\ t[2] \in center[2] - radius .. center[2] + radius}

Sight(center, radius) ==
  {t \in SightBox(center, radius) : HexDistance(center, t) <= radius}

=============================================================================
