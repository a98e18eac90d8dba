------------------------------- MODULE Minimap -------------------------------
(***************************************************************************)
(* The arithmetic of the minimap (engine/src/Minimap.cpp), which shows two *)
(* pictures of the map one upon the other: the tiles, as square cells, and *)
(* where the camera looks, scaled from the ground.  A step draws a map of  *)
(* another size.                                                           *)
(*                                                                         *)
(* Lengths on the ground are in halves of the distance between columns and *)
(* in distances between rows.  Pixels that are no integers are fractions,  *)
(* [num |-> n, den |-> d]; the code computes them in floats.               *)
(***************************************************************************)
EXTENDS Integers

CONSTANTS
  ContentW, ContentH,  \* WIDTH and HEIGHT without borders and padding
  RowSizes, ColSizes   \* the sizes of maps

ASSUME MinimapAssumption ==
  /\ ContentW \in Nat \ {0} /\ ContentH \in Nat \ {0}
  /\ RowSizes \subseteq Nat \ {0} /\ ColSizes \subseteq Nat \ {0}

VARIABLES rows, cols

minimapVars == <<rows, cols>>

Greater(a, b) == IF a >= b THEN a ELSE b

Smaller(a, b) == IF a <= b THEN a ELSE b

\* Division by two as in C++, towards zero.
Halved(n) == IF n >= 0 THEN n \div 2 ELSE -((-n) \div 2)

\* cellW and cellH.
CellSize == Smaller(Greater(1, ContentW \div cols), Greater(1, ContentH \div rows))

OffsetX == Halved(ContentW - cols * CellSize)

OffsetY == Halved(ContentH - rows * CellSize)

\* tileToMinimap: the corner of the tile's cell.
CellX(col) == OffsetX + col * CellSize

CellY(row) == OffsetY + row * CellSize

\* The centre of a tile on the ground, as in hex::tileCenter.
CenterX(row, col) == 2 * col + (row % 2)

CenterZ(row) == row

\* Mutant: of the last column in a row that is not shifted.
MaxWorldXOfEvenRow == 2 * (cols - 1)

\* Of the last column in an odd row, whether the map has one or not.
MaxWorldX == 2 * (cols - 1) + 1

MaxWorldZ == rows - 1

\* worldToMinimap, which puts what has no extent in the middle.
WorldX(x) ==
  IF MaxWorldX > 0
  THEN [num |-> OffsetX * MaxWorldX + x * (cols * CellSize), den |-> MaxWorldX]
  ELSE [num |-> OffsetX * 2 + cols * CellSize, den |-> 2]

WorldZ(z) ==
  IF MaxWorldZ > 0
  THEN [num |-> OffsetY * MaxWorldZ + z * (rows * CellSize), den |-> MaxWorldZ]
  ELSE [num |-> OffsetY * 2 + rows * CellSize, den |-> 2]

MinimapInit == rows \in RowSizes /\ cols \in ColSizes

DrawAnother == rows' \in RowSizes /\ cols' \in ColSizes

-----------------------------------------------------------------------------
(* What is checked. *)

\* Whether the fraction lies in a..b.
Within(f, a, b) == a * f.den <= f.num /\ f.num <= b * f.den

\* When the camera looks at the centre of a tile, the indicator is on the
\* cell of that tile, or its border: the two pictures, which are scaled in
\* two ways, agree about every tile of every map.
LookIsInItsCell ==
  \A row \in 0 .. rows - 1, col \in 0 .. cols - 1 :
    /\ Within(WorldX(CenterX(row, col)), CellX(col), CellX(col) + CellSize)
    /\ Within(WorldZ(CenterZ(row)), CellY(row), CellY(row) + CellSize)

\* All cells are inside the panel, if it has a pixel for each.
MapFits ==
  cols <= ContentW /\ rows <= ContentH =>
    /\ CellX(0) >= 0 /\ CellX(cols - 1) + CellSize <= ContentW
    /\ CellY(0) >= 0 /\ CellY(rows - 1) + CellSize <= ContentH

\* What the player sees of the map and of the camera is consistent.
PicturesAgree == MapFits /\ LookIsInItsCell

=============================================================================
