--------------------------- MODULE GeometryProofs --------------------------
(***************************************************************************)
(* Proofs about the parts of MCAlgorithms.  For maps of any size: the      *)
(* distance formula counts steps between adjacent tiles, none of which     *)
(* leaves the map.  For maps and panels of any size: the two pictures of   *)
(* the minimap agree about every tile.  For points of any resolution: the  *)
(* mouse picks a tile whose hexagon it is on.  For any map, worlds and     *)
(* searches: the searches answer what comparing all ways would give.       *)
(***************************************************************************)
EXTENDS MCAlgorithms, Sequences, FiniteSetTheorems, WellFoundedInduction, TLAPS

\* A displacement of dx, dz in cube coordinates takes at most n steps.
InSteps(dx, dz, n) == Magnitude(dx) <= n /\ Magnitude(dz) <= n /\ Magnitude(dx + dz) <= n

\* Half the sum of the three magnitudes is the largest of them.
LEMMA DistanceIsLargest ==
  ASSUME NEW dx \in Int, NEW dz \in Int, NEW n \in Nat
  PROVE  (Magnitude(dx) + Magnitude(dx + dz) + Magnitude(dz)) \div 2 <= n
           <=> InSteps(dx, dz, n)
BY DEF Magnitude, InSteps

\* A row is twice its shift plus its parity.
Shift(t) == (t[1] - (t[1] % 2)) \div 2

Parity(t) == t[1] % 2

\* Integer division by two loses the parity, and nothing else.
LEMMA Halving ==
  ASSUME NEW r \in Int
  PROVE  /\ (r - (r % 2)) \div 2 \in Int /\ r % 2 \in {0, 1}
         /\ r = 2 * ((r - (r % 2)) \div 2) + (r % 2)
OBVIOUS

\* A tile by its row, as shift and parity, and its column.
LEMMA Coordinates ==
  ASSUME NEW t \in Tiles
  PROVE  /\ t = <<t[1], t[2]>>
         /\ t[1] \in 0 .. Rows - 1 /\ t[2] \in 0 .. Cols - 1
         /\ t[1] \in Int /\ t[2] \in Int
         /\ Shift(t) \in Int /\ Parity(t) \in {0, 1}
         /\ t[1] = 2 * Shift(t) + Parity(t)
         /\ CubeX(t) = t[2] - Shift(t)
<1>1. /\ t = <<t[1], t[2]>>
      /\ t[1] \in 0 .. Rows - 1 /\ t[2] \in 0 .. Cols - 1
  BY DEF Tiles
<1>2. Rows \in Int /\ Cols \in Int
  BY GridAssumption
<1>3. t[1] \in Int /\ t[2] \in Int
  BY <1>1, <1>2
<1>4. /\ Shift(t) \in Int /\ Parity(t) \in {0, 1}
      /\ t[1] = 2 * Shift(t) + Parity(t)
  BY <1>3, Halving DEF Shift, Parity
<1> QED
  BY <1>1, <1>3, <1>4 DEF CubeX, Shift

\* HexDistance in terms of rows and columns.
LEMMA DistanceInCoordinates ==
  ASSUME NEW a \in Tiles, NEW b \in Tiles, NEW n \in Nat
  PROVE  HexDistance(a, b) <= n
           <=> InSteps((a[2] - Shift(a)) - (b[2] - Shift(b)), a[1] - b[1], n)
<1>1. CubeX(a) - CubeX(b) \in Int /\ a[1] - b[1] \in Int
  BY Coordinates
<1> QED
  BY <1>1, Coordinates, DistanceIsLargest DEF HexDistance

\* The neighbour tables, which depend on the parity of the row.
LEMMA NeighborsInCoordinates ==
  ASSUME NEW t \in Tiles, NEW m \in Tiles
  PROVE  m \in Neighbors(t) <=>
           \/ m[1] = t[1] /\ m[2] \in {t[2] - 1, t[2] + 1}
           \/ /\ m[1] \in {t[1] - 1, t[1] + 1}
              /\ m[2] \in {t[2] + Parity(t) - 1, t[2] + Parity(t)}
BY DEF Neighbors, Parity

\* A step to a neighbour changes the distance by one at most.
LEMMA StepsAreShort ==
  ASSUME NEW o \in Tiles, NEW t \in Tiles, NEW m \in Neighbors(t), NEW n \in Nat,
         HexDistance(o, t) <= n
  PROVE  m \in Tiles /\ HexDistance(o, m) <= n + 1
<1>1. m \in Tiles
  BY DEF Neighbors
<1> USE Coordinates
<1>2. InSteps((o[2] - Shift(o)) - (t[2] - Shift(t)), o[1] - t[1], n)
  BY DistanceInCoordinates
<1>3. \/ m[1] = t[1] /\ m[2] \in {t[2] - 1, t[2] + 1}
      \/ /\ m[1] \in {t[1] - 1, t[1] + 1}
         /\ m[2] \in {t[2] + Parity(t) - 1, t[2] + Parity(t)}
  BY <1>1, NeighborsInCoordinates
<1>4. InSteps((o[2] - Shift(o)) - (m[2] - Shift(m)), o[1] - m[1], n + 1)
  BY <1>1, <1>2, <1>3 DEF InSteps, Magnitude
<1> QED
  BY <1>1, <1>4, DistanceInCoordinates, n + 1 \in Nat

\* Whoever is too far away by one step has a neighbour, on the map, that is
\* near enough.
LEMMA WayBack ==
  ASSUME NEW o \in Tiles, NEW t \in Tiles, NEW n \in Nat,
         HexDistance(o, t) <= n + 1, ~(HexDistance(o, t) <= n)
  PROVE  \E m \in Tiles : HexDistance(o, m) <= n /\ t \in Neighbors(m)
<1> DEFINE h == Shift(t)
           p == Parity(t)
           c == t[2]
           ho == Shift(o)
           po == Parity(o)
           co == o[2]
<1>1. /\ h \in Int /\ p \in {0, 1} /\ c \in Int /\ t[1] = 2 * h + p
      /\ ho \in Int /\ po \in {0, 1} /\ co \in Int /\ o[1] = 2 * ho + po
      /\ 2 * h + p \in 0 .. Rows - 1 /\ c \in 0 .. Cols - 1
      /\ 2 * ho + po \in 0 .. Rows - 1 /\ co \in 0 .. Cols - 1
      /\ Rows \in Int /\ Cols \in Int
  BY Coordinates, GridAssumption
<1>2. /\ InSteps((co - ho) - (c - h), (2 * ho + po) - (2 * h + p), n + 1)
      /\ ~InSteps((co - ho) - (c - h), (2 * ho + po) - (2 * h + p), n)
  BY <1>1, DistanceInCoordinates, n + 1 \in Nat
<1>a. /\ t = <<t[1], c>> /\ p = t[1] % 2
      /\ p = 0 => 2 * h + p = 2 * h
  BY Coordinates, <1>1 DEF Parity
<1> HIDE DEF h, p, c, ho, po, co
\* The tile in row 2g + q and column d.
<1>3. ASSUME NEW g \in Int, NEW q \in {0, 1}, NEW d \in 0 .. Cols - 1,
             2 * g + q \in 0 .. Rows - 1
      PROVE  LET m == <<2 * g + q, d>>
             IN  m \in Tiles /\ Shift(m) = g /\ Parity(m) = q
  <2>1. (2 * g + q) % 2 = q /\ ((2 * g + q) - q) \div 2 = g
    BY <1>3
  <2> QED
    BY <1>3, <2>1 DEF Tiles, Shift, Parity
<1>4. ASSUME NEW g \in Int, NEW q \in {0, 1}, NEW d \in 0 .. Cols - 1,
             2 * g + q \in 0 .. Rows - 1,
             InSteps((co - ho) - (d - g), (2 * ho + po) - (2 * g + q), n),
             \/ 2 * h + p = 2 * g + q /\ c \in {d - 1, d + 1}
             \/ /\ 2 * h + p \in {2 * g + q - 1, 2 * g + q + 1}
                /\ c \in {d + q - 1, d + q}
      PROVE  \E m \in Tiles : HexDistance(o, m) <= n /\ t \in Neighbors(m)
  <2> DEFINE m == <<2 * g + q, d>>
  <2>1. m \in Tiles /\ Shift(m) = g /\ Parity(m) = q /\ m[1] = 2 * g + q /\ m[2] = d
    BY <1>3, <1>4
  <2> HIDE DEF m
  <2>2. HexDistance(o, m) <= n
    BY <1>1, <1>4, <2>1, DistanceInCoordinates DEF ho, po, co
  <2>3. t \in Neighbors(m)
    BY <1>1, <1>4, <2>1, NeighborsInCoordinates DEF h, p, c
  <2> QED
    BY <2>1, <2>2, <2>3
<1>5. CASE \E d \in {c - 1, c + 1} :
             /\ d \in 0 .. Cols - 1
             /\ InSteps((co - ho) - (d - h), (2 * ho + po) - (2 * h + p), n)
  <2>1. PICK d \in {c - 1, c + 1} :
               /\ d \in 0 .. Cols - 1
               /\ InSteps((co - ho) - (d - h), (2 * ho + po) - (2 * h + p), n)
    BY <1>5
  <2>2. c \in {d - 1, d + 1}
    BY <1>1, <2>1
  <2> QED
    BY <1>1, <1>4, <2>1, <2>2
\* The row below is 2(h + p) + (1 - p).
<1>6. CASE \E d \in {c + p - 1, c + p} :
             /\ d \in 0 .. Cols - 1
             /\ 2 * h + p + 1 \in 0 .. Rows - 1
             /\ InSteps((co - ho) - (d - (h + p)), (2 * ho + po) - (2 * h + p + 1), n)
  <2>1. PICK d \in {c + p - 1, c + p} :
               /\ d \in 0 .. Cols - 1
               /\ 2 * h + p + 1 \in 0 .. Rows - 1
               /\ InSteps((co - ho) - (d - (h + p)), (2 * ho + po) - (2 * h + p + 1), n)
    BY <1>6
  <2>2. /\ h + p \in Int /\ 1 - p \in {0, 1}
        /\ 2 * (h + p) + (1 - p) = 2 * h + p + 1
        /\ 2 * h + p \in {2 * h + p + 1 - 1, 2 * h + p + 1 + 1}
        /\ c \in {d + (1 - p) - 1, d + (1 - p)}
    BY <1>1, <2>1
  <2> DEFINE g == h + p
             q == 1 - p
  <2>3. /\ g \in Int /\ q \in {0, 1} /\ 2 * g + q = 2 * h + p + 1
        /\ 2 * h + p \in {2 * g + q - 1, 2 * g + q + 1}
        /\ c \in {d + q - 1, d + q}
    BY <1>1, <2>1
  <2>4. InSteps((co - ho) - (d - g), (2 * ho + po) - (2 * g + q), n)
    BY <2>1, <2>2
  <2> HIDE DEF g, q
  <2> QED
    BY <1>4, <2>1, <2>3, <2>4
\* The row above is 2(h + p - 1) + (1 - p).
<1>7. CASE \E d \in {c + p - 1, c + p} :
             /\ d \in 0 .. Cols - 1
             /\ 2 * h + p - 1 \in 0 .. Rows - 1
             /\ InSteps((co - ho) - (d - (h + p - 1)), (2 * ho + po) - (2 * h + p - 1), n)
  <2>1. PICK d \in {c + p - 1, c + p} :
               /\ d \in 0 .. Cols - 1
               /\ 2 * h + p - 1 \in 0 .. Rows - 1
               /\ InSteps((co - ho) - (d - (h + p - 1)), (2 * ho + po) - (2 * h + p - 1), n)
    BY <1>7
  <2>2. /\ h + p - 1 \in Int /\ 1 - p \in {0, 1}
        /\ 2 * (h + p - 1) + (1 - p) = 2 * h + p - 1
        /\ 2 * h + p \in {2 * h + p - 1 - 1, 2 * h + p - 1 + 1}
        /\ c \in {d + (1 - p) - 1, d + (1 - p)}
    BY <1>1, <2>1
  <2> DEFINE g == h + p - 1
             q == 1 - p
  <2>3. /\ g \in Int /\ q \in {0, 1} /\ 2 * g + q = 2 * h + p - 1
        /\ 2 * h + p \in {2 * g + q - 1, 2 * g + q + 1}
        /\ c \in {d + q - 1, d + q}
    BY <1>1, <2>1
  <2>4. InSteps((co - ho) - (d - g), (2 * ho + po) - (2 * g + q), n)
    BY <2>1, <2>2
  <2> HIDE DEF g, q
  <2> QED
    BY <1>4, <2>1, <2>3, <2>4
\* One of the six neighbours is nearer and on the map.
<1>8. \/ \E d \in {c - 1, c + 1} :
           /\ d \in 0 .. Cols - 1
           /\ InSteps((co - ho) - (d - h), (2 * ho + po) - (2 * h + p), n)
      \/ \E d \in {c + p - 1, c + p} :
           /\ d \in 0 .. Cols - 1
           /\ 2 * h + p + 1 \in 0 .. Rows - 1
           /\ InSteps((co - ho) - (d - (h + p)), (2 * ho + po) - (2 * h + p + 1), n)
      \/ \E d \in {c + p - 1, c + p} :
           /\ d \in 0 .. Cols - 1
           /\ 2 * h + p - 1 \in 0 .. Rows - 1
           /\ InSteps((co - ho) - (d - (h + p - 1)), (2 * ho + po) - (2 * h + p - 1), n)
  BY <1>1, <1>2 DEF InSteps, Magnitude
<1> QED
  BY <1>5, <1>6, <1>7, <1>8, Zenon

-----------------------------------------------------------------------------
(* The flood. *)

\* With the types of its variables the statement is inductive.
FloodInv == origin \in Tiles /\ steps \in Nat /\ DistanceCountsSteps

\* Another step of the flood adds exactly the tiles one step farther away.
LEMMA FloodGoesOn == FloodInv /\ [Flood]_floodVars => FloodInv'
<1> SUFFICES ASSUME FloodInv, Flood
             PROVE  FloodInv'
  BY DEF FloodInv, floodVars, DistanceCountsSteps
<1>1. /\ origin \in Tiles /\ origin' = origin
      /\ steps \in Nat /\ steps' = steps + 1
      /\ reached = {t \in Tiles : HexDistance(origin, t) <= steps}
      /\ reached' = reached \cup UNION {Neighbors(t) : t \in reached}
  BY DEF FloodInv, Flood, DistanceCountsSteps
<1>2. ASSUME NEW t \in reached'
      PROVE  t \in Tiles /\ HexDistance(origin, t) <= steps + 1
  <2>1. CASE t \in reached
    <3>1. HexDistance(origin, t) \in Int
      BY <1>1, <2>1, Coordinates DEF HexDistance, Magnitude
    <3> QED
      BY <1>1, <2>1, <3>1
  <2>2. CASE \E m \in reached : t \in Neighbors(m)
    BY <1>1, <2>2, StepsAreShort
  <2> QED
    BY <1>1, <1>2, <2>1, <2>2
<1>3. ASSUME NEW t \in Tiles, HexDistance(origin, t) <= steps + 1
      PROVE  t \in reached'
  <2>1. CASE HexDistance(origin, t) <= steps
    BY <1>1, <2>1
  <2>2. CASE ~(HexDistance(origin, t) <= steps)
    <3>1. PICK m \in Tiles : HexDistance(origin, m) <= steps /\ t \in Neighbors(m)
      BY <1>1, <1>3, <2>2, WayBack
    <3> QED
      BY <1>1, <3>1
  <2> QED
    BY <2>1, <2>2
<1>4. DistanceCountsSteps'
  BY <1>1, <1>2, <1>3 DEF DistanceCountsSteps
<1> QED
  BY <1>1, <1>4 DEF FloodInv

\* At distance zero there is only the tile itself.
LEMMA FloodBegins == FloodInit => FloodInv
<1> SUFFICES ASSUME FloodInit
             PROVE  FloodInv
  OBVIOUS
<1>1. origin \in Tiles /\ steps = 0 /\ reached = {origin}
  BY DEF FloodInit
<1>2. ASSUME NEW t \in Tiles
      PROVE  HexDistance(origin, t) <= 0 <=> t = origin
  <2>1. HexDistance(origin, t) <= 0
          <=> InSteps((origin[2] - Shift(origin)) - (t[2] - Shift(t)), origin[1] - t[1], 0)
    BY <1>1, DistanceInCoordinates
  <2>2. ASSUME t[1] = origin[1]
        PROVE  Shift(t) = Shift(origin)
    BY <2>2 DEF Shift
  <2>3. InSteps((origin[2] - Shift(origin)) - (t[2] - Shift(t)), origin[1] - t[1], 0)
          <=> t[1] = origin[1] /\ t[2] = origin[2]
    <3> DEFINE row == t[1]
               col == t[2]
               shift == Shift(t)
               row0 == origin[1]
               col0 == origin[2]
               shift0 == Shift(origin)
    <3>1. /\ row \in Int /\ col \in Int /\ shift \in Int
          /\ row0 \in Int /\ col0 \in Int /\ shift0 \in Int
      BY <1>1, Coordinates
    <3>2. row = row0 => shift = shift0
      BY <2>2
    <3> HIDE DEF row, col, shift, row0, col0, shift0
    <3>3. InSteps((col0 - shift0) - (col - shift), row0 - row, 0) <=> row = row0 /\ col = col0
      BY <3>1, <3>2 DEF InSteps, Magnitude
    <3> QED
      BY <3>3 DEF row, col, shift, row0, col0, shift0
  <2>4. t = <<t[1], t[2]>> /\ origin = <<origin[1], origin[2]>>
    BY <1>1, Coordinates
  <2>5. t[1] = origin[1] /\ t[2] = origin[2] <=> t = origin
    BY <2>4, Zenon
  <2> QED
    BY <2>1, <2>3, <2>5, Zenon
<1> QED
  BY <1>1, <1>2 DEF FloodInv, DistanceCountsSteps

LEMMA AlwaysFlooded == Spec => []FloodInv
<1>1. Init => FloodInv
  <2>1. <<0, 0>> \in Tiles
    BY GridAssumption DEF Tiles
  <2>2. Init => FloodInit
    BY <2>1 DEF Init, FloodInit, GridRests
  <2> QED
    BY <2>2, FloodBegins
<1>2. FloodInv /\ [Next]_<<part, floodVars, minimapVars, searchVars, pointingVars, mapVars>> => FloodInv'
  <2>1. [Next]_<<part, floodVars, minimapVars, searchVars, pointingVars, mapVars>> => [Flood]_floodVars
    BY DEF Next, FloodStep, MinimapStep, SearchStep, MouseStep, MapStep
  <2> QED
    BY <2>1, FloodGoesOn
<1> QED
  BY <1>1, <1>2, PTL DEF Spec

\* The distance that AttackAction, MoveAction, Pathfinding and FogOfWar
\* compute is the number of steps on the map, whatever its size: in
\* particular a shortest way never has to leave the rectangle.
THEOREM DistanceIsSteps == Spec => []DistanceCountsSteps
<1>1. FloodInv => DistanceCountsSteps
  BY DEF FloodInv
<1> QED
  BY <1>1, AlwaysFlooded, PTL

\* The box that FogOfWar::applyVision scans holds every tile in sight.
THEOREM BoxIsLargeEnough == Spec => []BoxMissesNothing
<1>1. ASSUME FloodInv
      PROVE  BoxMissesNothing
  <2>1. /\ origin \in Tiles /\ steps \in Nat
        /\ reached = {t \in Tiles : HexDistance(origin, t) <= steps}
    BY <1>1 DEF FloodInv, DistanceCountsSteps
  <2>2. ASSUME NEW t \in Tiles, HexDistance(origin, t) <= steps
        PROVE  t \in SightBox(origin, steps)
    <3>1. InSteps((origin[2] - Shift(origin)) - (t[2] - Shift(t)), origin[1] - t[1], steps)
      BY <2>1, <2>2, DistanceInCoordinates
    <3>2. /\ t[1] \in origin[1] - steps .. origin[1] + steps
          /\ t[2] \in origin[2] - steps .. origin[2] + steps
      BY <2>1, <3>1, Coordinates DEF InSteps, Magnitude
    <3> QED
      BY <3>2 DEF SightBox
  <2> QED
    BY <2>1, <2>2 DEF BoxMissesNothing, Sight, SightBox
<1> QED
  BY <1>1, AlwaysFlooded, PTL

-----------------------------------------------------------------------------
(* The minimap. *)


\* The invariant behind the others: the map has a tile.
Sized == rows \in Nat \ {0} /\ cols \in Nat \ {0}

LEMMA AlwaysSized == Spec => []Sized
<1>1. Init => Sized
  <2>1. Init => MinimapInit \/ MinimapRests
    BY Zenon DEF Init
  <2>2. MinimapInit => Sized
    BY MinimapAssumption DEF MinimapInit, Sized
  <2>3. MinimapRests => Sized
    BY DEF MinimapRests, Sized
  <2> QED
    BY <2>1, <2>2, <2>3
<1>2. Sized /\ [Next]_<<part, floodVars, minimapVars, searchVars, pointingVars, mapVars>> => Sized'
  <2> SUFFICES ASSUME Sized,
                      [Next]_<<part, floodVars, minimapVars, searchVars, pointingVars, mapVars>>
               PROVE  Sized'
    OBVIOUS
  <2>1. DrawAnother \/ UNCHANGED minimapVars
    BY DEF Next, FloodStep, MinimapStep, SearchStep, MouseStep, MapStep
  <2> QED
    BY <2>1, MinimapAssumption DEF DrawAnother, minimapVars, Sized
<1> QED
  BY <1>1, <1>2, PTL DEF Spec

\* Division rounds down.
LEMMA Division ==
  ASSUME NEW n \in Nat, NEW d \in Nat \ {0}
  PROVE  /\ n \div d \in Nat
         /\ d * (n \div d) <= n
         /\ d <= n => n \div d >= 1
  <1>1. n \div d \in Int /\ n = d * (n \div d) + (n % d) /\ n % d \in 0 .. d - 1
    BY Z3
  <1>. QED BY <1>1, Z3

\* A cell has at least one pixel, and as many cells as there are tiles fit,
\* if there is a pixel for each.
LEMMA CellFits ==
  ASSUME Sized
  PROVE  /\ CellSize \in Nat \ {0}
         /\ cols <= ContentW => cols * CellSize <= ContentW
         /\ rows <= ContentH => rows * CellSize <= ContentH
  <1>. DEFINE w == ContentW \div cols
              h == ContentH \div rows
  <1>1. w \in Nat /\ cols * w <= ContentW /\ (cols <= ContentW => w >= 1)
    BY Division, MinimapAssumption DEF Sized
  <1>2. h \in Nat /\ rows * h <= ContentH /\ (rows <= ContentH => h >= 1)
    BY Division, MinimapAssumption DEF Sized
  <1>3. CellSize \in Nat \ {0}
    BY <1>1, <1>2 DEF CellSize, Smaller, Greater
  <1>4. ASSUME cols <= ContentW PROVE cols * CellSize <= ContentW
    <2>1. CellSize <= w
      BY <1>1, <1>2, <1>4 DEF CellSize, Smaller, Greater
    <2>2. cols * CellSize <= cols * w
      BY <2>1, <1>1, <1>3 DEF Sized
    <2>. QED BY <2>2, <1>1, <1>3, MinimapAssumption DEF Sized
  <1>5. ASSUME rows <= ContentH PROVE rows * CellSize <= ContentH
    <2>1. CellSize <= h
      BY <1>1, <1>2, <1>5 DEF CellSize, Smaller, Greater
    <2>2. rows * CellSize <= rows * h
      BY <2>1, <1>2, <1>3 DEF Sized
    <2>. QED BY <2>2, <1>2, <1>3, MinimapAssumption DEF Sized
  <1>. QED BY <1>3, <1>4, <1>5

\* The panel has room for all cells of a map that is not larger in tiles than
\* the panel in pixels.
THEOREM EveryMapFits == Spec => []MapFits
  <1>1. Sized => MapFits
    <2>. SUFFICES ASSUME Sized, cols <= ContentW, rows <= ContentH
                  PROVE  /\ CellX(0) >= 0 /\ CellX(cols - 1) + CellSize <= ContentW
                         /\ CellY(0) >= 0 /\ CellY(rows - 1) + CellSize <= ContentH
      BY DEF MapFits
    <2>. DEFINE w == cols * CellSize
                h == rows * CellSize
    <2>1. /\ CellSize \in Nat \ {0} /\ w \in Nat /\ w <= ContentW
          /\ h \in Nat /\ h <= ContentH
      BY CellFits DEF Sized
    <2>2. /\ OffsetX \in Nat /\ OffsetX <= ContentW - w
          /\ OffsetY \in Nat /\ OffsetY <= ContentH - h
      <3>1. \A n \in Nat : Halved(n) \in Nat /\ Halved(n) <= n
        BY DEF Halved
      <3>2. ContentW - w \in Nat /\ ContentH - h \in Nat
        BY <2>1, MinimapAssumption
      <3>. QED BY <3>1, <3>2 DEF OffsetX, OffsetY
    <2>3. /\ 0 * CellSize = 0
          /\ (cols - 1) * CellSize + CellSize = w
          /\ (rows - 1) * CellSize + CellSize = h
      BY <2>1 DEF Sized
    <2>. HIDE DEF w, h
    <2>4. CellX(0) = OffsetX /\ CellY(0) = OffsetY
      BY <2>2, <2>3 DEF CellX, CellY
    <2>5. /\ CellX(cols - 1) + CellSize = OffsetX + w
          /\ CellY(rows - 1) + CellSize = OffsetY + h
      <3>1. (cols - 1) * CellSize \in Int /\ (rows - 1) * CellSize \in Int
        BY <2>1 DEF Sized
      <3>. QED BY <2>1, <2>2, <2>3, <3>1 DEF CellX, CellY
    <2>. QED BY <2>1, <2>2, <2>4, <2>5, MinimapAssumption
  <1>. QED BY <1>1, AlwaysSized, PTL

\* A point in columns, in pixels: for a column c of n, and the half o that odd
\* rows are shifted by.
LEMMA ColumnInItsCell ==
  ASSUME NEW n \in Nat \ {0}, NEW c \in 0 .. n - 1, NEW o \in {0, 1}, NEW s \in Nat \ {0}
  PROVE  /\ (c * s) * (2 * (n - 1) + 1) <= (2 * c + o) * (n * s)
         /\ (2 * c + o) * (n * s) <= (c * s + s) * (2 * (n - 1) + 1)
  <1>1. c * (2 * n - 1) <= (2 * c + o) * n
    <2>1. c * n \in Nat /\ o * n \in Nat
      OBVIOUS
    <2>2. c * (2 * n - 1) = 2 * (c * n) - c /\ (2 * c + o) * n = 2 * (c * n) + o * n
      OBVIOUS
    <2>. QED BY <2>1, <2>2
  <1>2. (2 * c + o) * n <= (c + 1) * (2 * n - 1)
    <2>1. c * n \in Nat /\ o * n \in Nat /\ o * n <= n
      OBVIOUS
    <2>2. /\ (2 * c + o) * n = 2 * (c * n) + o * n
          /\ (c + 1) * (2 * n - 1) = 2 * (c * n) - c + 2 * n - 1
      OBVIOUS
    <2>3. o * n <= 2 * n - 1 - c
      BY <2>1
    <2>. QED BY <2>1, <2>2, <2>3
  <1>3. \A a, b \in Nat : a <= b => a * s <= b * s
    OBVIOUS
  <1>4. /\ c * (2 * n - 1) \in Nat /\ (2 * c + o) * n \in Nat /\ (c + 1) * (2 * n - 1) \in Nat
    OBVIOUS
  <1>5. /\ (c * (2 * n - 1)) * s <= ((2 * c + o) * n) * s
        /\ ((2 * c + o) * n) * s <= ((c + 1) * (2 * n - 1)) * s
    BY <1>1, <1>2, <1>3, <1>4
  <1>6. /\ (c * s) * (2 * (n - 1) + 1) = (c * (2 * n - 1)) * s
        /\ (2 * c + o) * (n * s) = ((2 * c + o) * n) * s
        /\ (c * s + s) * (2 * (n - 1) + 1) = ((c + 1) * (2 * n - 1)) * s
    OBVIOUS
  <1>. QED BY <1>5, <1>6

\* The same for a row of n: distances between rows need no halves.
LEMMA RowInItsCell ==
  ASSUME NEW n \in Nat \ {0}, NEW r \in 0 .. n - 1, NEW s \in Nat \ {0}
  PROVE  /\ (r * s) * (n - 1) <= r * (n * s)
         /\ r * (n * s) <= (r * s + s) * (n - 1)
  <1>1. r * (n - 1) <= r * n /\ r * n <= (r + 1) * (n - 1)
    <2>1. r * n \in Nat
      OBVIOUS
    <2>2. r * (n - 1) = r * n - r /\ (r + 1) * (n - 1) = r * n - r + n - 1
      OBVIOUS
    <2>. QED BY <2>1, <2>2
  <1>2. \A a, b \in Nat : a <= b => a * s <= b * s
    OBVIOUS
  <1>3. r * (n - 1) \in Nat /\ r * n \in Nat /\ (r + 1) * (n - 1) \in Nat
    OBVIOUS
  <1>4. (r * (n - 1)) * s <= (r * n) * s /\ (r * n) * s <= ((r + 1) * (n - 1)) * s
    BY <1>1, <1>2, <1>3
  <1>5. /\ (r * s) * (n - 1) = (r * (n - 1)) * s
        /\ r * (n * s) = (r * n) * s
        /\ (r * s + s) * (n - 1) = ((r + 1) * (n - 1)) * s
    OBVIOUS
  <1>. QED BY <1>4, <1>5

\* Whatever tile of whatever map the camera looks at, its indicator is on the
\* tile's cell.
THEOREM LookFindsItsCell == Spec => []LookIsInItsCell
  <1>1. Sized => LookIsInItsCell
    <2>. SUFFICES ASSUME Sized, NEW row \in 0 .. rows - 1, NEW col \in 0 .. cols - 1
                  PROVE  /\ Within(WorldX(CenterX(row, col)), CellX(col), CellX(col) + CellSize)
                         /\ Within(WorldZ(CenterZ(row)), CellY(row), CellY(row) + CellSize)
      BY DEF LookIsInItsCell
    <2>. DEFINE s == CellSize
                ox == OffsetX
                oy == OffsetY
    <2>1. s \in Nat \ {0} /\ rows \in Nat \ {0} /\ cols \in Nat \ {0}
      BY CellFits DEF Sized
    <2>2. ox \in Int /\ oy \in Int
      BY <2>1, MinimapAssumption DEF OffsetX, OffsetY, Halved
    <2>3. Within(WorldX(CenterX(row, col)), CellX(col), CellX(col) + CellSize)
      <3>. DEFINE o == row % 2
                  d == 2 * (cols - 1) + 1
                  x == (2 * col + o) * (cols * s)
      <3>1. o \in {0, 1}
        OBVIOUS
      <3>2. /\ (col * s) * d <= x /\ x <= (col * s + s) * d
            /\ d \in Nat \ {0} /\ x \in Int /\ col * s \in Int
        BY <2>1, <3>1, ColumnInItsCell
      <3>3. WorldX(CenterX(row, col)) = [num |-> ox * d + x, den |-> d]
        BY <3>2 DEF WorldX, MaxWorldX, CenterX
      <3>4. CellX(col) = ox + col * s
        BY DEF CellX
      <3>. HIDE DEF s, ox, d, x
      <3>5. /\ (ox + col * s) * d = ox * d + (col * s) * d
            /\ (ox + col * s + s) * d = ox * d + (col * s + s) * d
        BY <2>1, <2>2, <3>2
      <3>6. /\ ox * d \in Int /\ (col * s) * d \in Int /\ (col * s + s) * d \in Int
        BY <2>1, <2>2, <3>2
      <3>7. (ox + col * s) * d <= ox * d + x /\ ox * d + x <= (ox + col * s + s) * d
        BY <3>2, <3>5, <3>6
      <3>. QED BY <3>3, <3>4, <3>7 DEF Within, s
    <2>4. Within(WorldZ(CenterZ(row)), CellY(row), CellY(row) + CellSize)
      <3>. DEFINE d == rows - 1
                  y == row * (rows * s)
      <3>1. CASE rows = 1
        <4>1. row = 0
          BY <3>1
        <4>2. WorldZ(CenterZ(row)) = [num |-> oy * 2 + s, den |-> 2]
          BY <2>1, <3>1 DEF WorldZ, MaxWorldZ
        <4>3. CellY(row) = oy
          BY <2>1, <2>2, <4>1 DEF CellY
        <4>. HIDE DEF s, oy
        <4>. QED BY <2>1, <2>2, <4>2, <4>3 DEF Within, s
      <3>2. CASE rows # 1
        <4>1. /\ (row * s) * d <= y /\ y <= (row * s + s) * d
              /\ d \in Nat \ {0} /\ y \in Int /\ row * s \in Int
          BY <2>1, <3>2, RowInItsCell
        <4>2. WorldZ(CenterZ(row)) = [num |-> oy * d + y, den |-> d]
          <5>1. MaxWorldZ = d /\ d > 0
            BY <2>1, <3>2 DEF MaxWorldZ
          <5>2. WorldZ(row) = [num |-> OffsetY * MaxWorldZ + row * (rows * CellSize), den |-> MaxWorldZ]
            BY <5>1, Zenon DEF WorldZ
          <5>. QED BY <5>1, <5>2, Zenon DEF CenterZ
        <4>3. CellY(row) = oy + row * s
          BY DEF CellY
        <4>. HIDE DEF s, oy, d, y
        <4>4. /\ (oy + row * s) * d = oy * d + (row * s) * d
              /\ (oy + row * s + s) * d = oy * d + (row * s + s) * d
          BY <2>1, <2>2, <4>1
        <4>5. oy * d \in Int /\ (row * s) * d \in Int /\ (row * s + s) * d \in Int
          BY <2>1, <2>2, <4>1
        <4>6. (oy + row * s) * d <= oy * d + y /\ oy * d + y <= (oy + row * s + s) * d
          BY <4>1, <4>4, <4>5
        <4>. QED BY <4>2, <4>3, <4>6 DEF Within, s
      <3>. QED BY <3>1, <3>2
    <2>. QED BY <2>3, <2>4
  <1>. QED BY <1>1, AlwaysSized, PTL

\* Both: what the minimap draws is consistent for every map and every panel.
THEOREM PicturesAlwaysAgree == Spec => []PicturesAgree
  <1>1. MapFits /\ LookIsInItsCell => PicturesAgree
    BY DEF PicturesAgree
  <1>. QED BY <1>1, EveryMapFits, LookFindsItsCell, PTL

-----------------------------------------------------------------------------
(* The mouse: numbers. *)

\* Every set of numbers that is not empty has a smallest element.
LEMMA Smallest ==
  ASSUME NEW T \in SUBSET Nat, T # {}
  PROVE  \E n \in T : \A m \in T : n <= m
<1> DEFINE R == {ss \in Nat \X Nat : ss[1] < ss[2]}
<1>1. IsWellFoundedOn(R, Nat)
  BY NatLessThanWellFounded DEF OpToRel
<1>2. \A m, n \in Nat : <<m, n>> \in R <=> m < n
  OBVIOUS
<1> HIDE DEF R
<1>3. PICK n \in T : \A m \in T : ~(<<m, n>> \in R)
  BY <1>1, WFMin
<1>4. \A m \in T : n \in Nat /\ m \in Nat /\ ~(m < n)
  BY <1>2, <1>3
<1>5. \A m \in T : n <= m
  BY <1>4
<1> QED
  BY <1>5

\* Some tiles have one that comes first, row by row.
LEMMA FirstOfRows ==
  ASSUME NEW S \in SUBSET (Nat \X Nat), S # {}
  PROVE  \E t \in S : \A o \in S : t[1] < o[1] \/ (t[1] = o[1] /\ t[2] <= o[2])
<1> DEFINE firsts == {t[1] : t \in S}
<1>1. firsts \in SUBSET Nat /\ firsts # {}
  OBVIOUS
<1>2. PICK r \in firsts : \A n \in firsts : r <= n
  <2> HIDE DEF firsts
  <2> QED
    BY <1>1, Smallest
<1> DEFINE seconds == {t[2] : t \in {u \in S : u[1] = r}}
<1>3. seconds \in SUBSET Nat /\ seconds # {}
  BY <1>2
<1>4. PICK c \in seconds : \A n \in seconds : c <= n
  <2> HIDE DEF seconds
  <2> QED
    BY <1>3, Smallest
<1>5. PICK t \in S : t[1] = r /\ t[2] = c
  BY <1>4
<1>6. ASSUME NEW o \in S
      PROVE  t[1] < o[1] \/ (t[1] = o[1] /\ t[2] <= o[2])
  <2>1. r <= o[1] /\ r \in Nat /\ o[1] \in Nat
    BY <1>1, <1>2
  <2>2. CASE o[1] = r
    BY <2>2, <1>4, <1>5
  <2> QED
    BY <2>1, <2>2, <1>5
<1> QED
  BY <1>6

\* Of two numbers, Min is the smaller one.
LEMMA SmallerOfTwo ==
  ASSUME NEW a \in Int, NEW b \in Int
  PROVE  Mouse!Min({a, b}) = IF a <= b THEN a ELSE b
<1> DEFINE m == IF a <= b THEN a ELSE b
<1>1. m \in {a, b} /\ \A y \in {a, b} : m <= y
  OBVIOUS
<1>2. \A x \in {a, b} : (\A y \in {a, b} : x <= y) => x = m
  OBVIOUS
<1> HIDE DEF m
<1>3. \E x \in {a, b} : \A y \in {a, b} : x <= y
  BY <1>1
<1>4. Mouse!Min({a, b}) \in {a, b} /\ \A y \in {a, b} : Mouse!Min({a, b}) <= y
  BY <1>3 DEF Mouse!Min
<1>5. Mouse!Min({a, b}) = m
  BY <1>2, <1>4
<1> QED
  BY <1>5 DEF m

\* A positive factor can be left out.
LEMMA Cancelling ==
  ASSUME NEW f \in Nat \ {0}, NEW a \in Int, NEW b \in Int, f * a <= f * b
  PROVE  a <= b
<1>1. CASE a > b
  <2>1. a - b \in Nat \ {0} /\ f * (a - b) = f * a - f * b
    BY <1>1
  <2>2. f * (a - b) > 0
    BY <2>1
  <2>3. f * a \in Int /\ f * b \in Int
    OBVIOUS
  <2> QED
    BY <2>1, <2>2, <2>3
<1> QED
  BY <1>1

\* Products of numbers that are not negative grow with them.
LEMMA Growing ==
  ASSUME NEW f \in Nat, NEW a \in Int, NEW b \in Int, a <= b
  PROVE  f * a <= f * b
<1>1. b - a \in Nat /\ f * (b - a) = f * b - f * a
  OBVIOUS
<1>2. f * (b - a) >= 0
  BY <1>1
<1>3. f * a \in Int /\ f * b \in Int
  OBVIOUS
<1> QED
  BY <1>1, <1>2, <1>3

-----------------------------------------------------------------------------
(* The mouse: hexagons.  A point lies x and z from the centre of a tile,   *)
(* the centre of another one m half columns and i rows.                    *)

Far(x, z) == 12 * x * x + 9 * z * z

\* The hexagon, with half the distance of two columns.
Inside(h, x, z) ==
  /\ x <= h /\ -x <= h
  /\ 2 * x + 3 * z <= 4 * h /\ 2 * x - 3 * z <= 4 * h
  /\ -2 * x + 3 * z <= 4 * h /\ -2 * x - 3 * z <= 4 * h

FarFromOther(h, x, z, m, i) == Far(x - h * m, z - 2 * h * i)

More(h, x, z, m, i) == h * (m * m + 3 * (i * i)) - (2 * (m * x) + 3 * (i * z))

\* How much farther it is to the other one.
LEMMA HowMuchFarther ==
  ASSUME NEW h \in Int, NEW x \in Int, NEW z \in Int, NEW m \in Int, NEW i \in Int
  PROVE  /\ FarFromOther(h, x, z, m, i) - Far(x, z) = 12 * h * More(h, x, z, m, i)
         /\ Far(x, z) \in Nat /\ FarFromOther(h, x, z, m, i) \in Int
         /\ More(h, x, z, m, i) \in Int
<1>1. ASSUME NEW a \in Int, NEW b \in Int
      PROVE  (a - b) * (a - b) = a * a - 2 * (a * b) + b * b
  OBVIOUS
<1>2. (x - h * m) * (x - h * m) = x * x - 2 * (x * (h * m)) + (h * m) * (h * m)
  BY <1>1, h * m \in Int
<1>3. (z - 2 * h * i) * (z - 2 * h * i)
        = z * z - 2 * (z * (2 * h * i)) + (2 * h * i) * (2 * h * i)
  BY <1>1, 2 * h * i \in Int
<1>4. /\ x * (h * m) = h * (m * x) /\ (h * m) * (h * m) = h * (h * (m * m))
      /\ z * (2 * h * i) = 2 * (h * (i * z)) /\ (2 * h * i) * (2 * h * i) = 4 * (h * (h * (i * i)))
  OBVIOUS
<1>5. 12 * h * (h * (m * m + 3 * (i * i)) - (2 * (m * x) + 3 * (i * z)))
        = 12 * (h * (h * (m * m))) + 36 * (h * (h * (i * i))) - 24 * (h * (m * x)) - 36 * (h * (i * z))
  OBVIOUS
<1>6. /\ x * x \in Int /\ z * z \in Int
      /\ h * (m * x) \in Int /\ h * (h * (m * m)) \in Int
      /\ h * (i * z) \in Int /\ h * (h * (i * i)) \in Int
  OBVIOUS
<1>7. /\ 12 * (x - h * m) * (x - h * m) = 12 * ((x - h * m) * (x - h * m))
      /\ 9 * (z - 2 * h * i) * (z - 2 * h * i) = 9 * ((z - 2 * h * i) * (z - 2 * h * i))
      /\ 12 * x * x = 12 * (x * x) /\ 9 * z * z = 9 * (z * z)
  OBVIOUS
<1>8. x * x >= 0 /\ z * z >= 0
  OBVIOUS
<1> QED
  BY <1>2, <1>3, <1>4, <1>5, <1>6, <1>7, <1>8 DEF Far, FarFromOther, More

\* A product is no larger than that of the magnitudes.
LEMMA ProductOfMagnitudes ==
  ASSUME NEW a \in Int, NEW b \in Int
  PROVE  /\ a * b <= Magnitude(a) * Magnitude(b)
         /\ Magnitude(a) \in Nat /\ Magnitude(b) \in Nat
         /\ a * a = Magnitude(a) * Magnitude(a)
<1>1. CASE a >= 0 /\ b >= 0
  BY <1>1 DEF Magnitude
<1>2. CASE a < 0 /\ b < 0
  BY <1>2 DEF Magnitude
<1>3. CASE a >= 0 /\ b < 0
  <2>1. a * (-b) >= 0 /\ a * b = -(a * (-b)) /\ a * b \in Int
    BY <1>3
  <2> QED
    BY <1>3, <2>1 DEF Magnitude
<1>4. CASE a < 0 /\ b >= 0
  <2>1. (-a) * b >= 0 /\ a * b = -((-a) * b) /\ a * b \in Int
    BY <1>4
  <2> QED
    BY <1>4, <2>1 DEF Magnitude
<1> QED
  BY <1>1, <1>2, <1>3, <1>4

\* No centre is nearer to a point of a hexagon than that of the hexagon.
LEMMA NearestInside ==
  ASSUME NEW h \in Nat \ {0}, NEW x \in Int, NEW z \in Int, Inside(h, x, z),
         NEW m \in Int, NEW i \in Int, (m + i) % 2 = 0
  PROVE  Far(x, z) <= FarFromOther(h, x, z, m, i)
<1> DEFINE a == Magnitude(m)
           b == Magnitude(i)
           X == Magnitude(x)
           Z == Magnitude(z)
<1>1. /\ a \in Nat /\ b \in Nat /\ X \in Nat /\ Z \in Nat
      /\ m * x <= a * X /\ i * z <= b * Z
      /\ m * m = a * a /\ i * i = b * b
  BY ProductOfMagnitudes
<1>2. X <= h /\ 2 * X + 3 * Z <= 4 * h
  BY DEF Inside, Magnitude
<1>3. (a + b) % 2 = 0
  BY DEF Magnitude
<1>4. m * x \in Int /\ i * z \in Int
  OBVIOUS
<1> HIDE DEF a, b, X, Z
<1>5. 3 * (b * Z) <= 4 * (h * b) - 2 * (b * X)
  <2>1. b * (3 * Z) <= b * (4 * h - 2 * X)
    BY <1>1, <1>2, Growing, 3 * Z \in Int, 4 * h - 2 * X \in Int, 3 * Z <= 4 * h - 2 * X
  <2>2. b * (3 * Z) = 3 * (b * Z) /\ b * (4 * h - 2 * X) = 4 * (h * b) - 2 * (b * X)
    BY <1>1
  <2> QED
    BY <2>1, <2>2
<1>6. 2 * (a * X) + 3 * (b * Z) <= h * (a * a + 3 * (b * b))
  <2>1. CASE a >= b
    <3>1. (a - b) * X <= (a - b) * h
      BY <1>1, <1>2, <2>1, Growing, a - b \in Nat
    <3>2. (a - b) * X = a * X - b * X /\ (a - b) * h = h * a - h * b
      BY <1>1
    <3>3. 2 * (a * X) + 3 * (b * Z) <= h * (2 * a + 2 * b)
      <4>1. /\ a * X \in Int /\ b * X \in Int /\ b * Z \in Int /\ h * a \in Int /\ h * b \in Int
            /\ h * (2 * a + 2 * b) = 2 * (h * a) + 2 * (h * b)
        BY <1>1
      <4> QED
        BY <1>5, <3>1, <3>2, <4>1
    <3>4. 2 * a + 2 * b <= a * a + 3 * (b * b)
      <4>1. a * a - 2 * a = (a - 1) * (a - 1) - 1 /\ (a - 1) * (a - 1) >= 0 /\ a * a \in Int
        BY <1>1
      <4>2. b = 0 \/ b * b >= b
        BY <1>1
      <4>3. CASE b = 0
        <5>1. a # 1
          BY <1>3, <4>3
        <5>2. a = 0 \/ a * a >= 2 * a
          BY <1>1, <5>1
        <5> QED
          BY <1>1, <4>3, <5>2
      <4>4. CASE b # 0
        <5>1. b * b >= b /\ b >= 1 /\ b * b \in Int
          BY <1>1, <4>2, <4>4
        <5> QED
          BY <1>1, <4>1, <5>1
      <4> QED
        BY <4>3, <4>4
    <3>5. h * (2 * a + 2 * b) <= h * (a * a + 3 * (b * b))
      BY <1>1, <3>4, Growing, 2 * a + 2 * b \in Int, a * a + 3 * (b * b) \in Int
    <3> QED
      <4>1. /\ a * X \in Int /\ b * Z \in Int /\ h * (2 * a + 2 * b) \in Int
            /\ h * (a * a + 3 * (b * b)) \in Int
        BY <1>1
      <4> QED
        BY <3>3, <3>5, <4>1
  <2>2. CASE a < b
    <3>1. a * X <= b * X
      <4>1. X * a <= X * b
        BY <1>1, <2>2, Growing
      <4> QED
        BY <1>1, <4>1
    <3>2. 2 * (a * X) + 3 * (b * Z) <= h * (4 * b)
      <4>1. /\ a * X \in Int /\ b * X \in Int /\ b * Z \in Int /\ h * b \in Int
            /\ h * (4 * b) = 4 * (h * b)
        BY <1>1
      <4> QED
        BY <1>5, <3>1, <4>1
    <3>3. 4 * b <= a * a + 3 * (b * b)
      <4>1. CASE b = 1
        <5>1. a = 0
          BY <1>1, <2>2, <4>1
        <5> QED
          BY <1>3, <4>1, <5>1
      <4>2. CASE b # 1
        <5>1. b >= 2 /\ b * b >= 2 * b /\ a * a >= 0 /\ b * b \in Int /\ a * a \in Int
          BY <1>1, <2>2, <4>2
        <5> QED
          BY <1>1, <5>1
      <4> QED
        BY <4>1, <4>2
    <3>4. h * (4 * b) <= h * (a * a + 3 * (b * b))
      BY <1>1, <3>3, Growing, 4 * b \in Int, a * a + 3 * (b * b) \in Int
    <3> QED
      <4>1. /\ a * X \in Int /\ b * Z \in Int /\ h * (4 * b) \in Int
            /\ h * (a * a + 3 * (b * b)) \in Int
        BY <1>1
      <4> QED
        BY <3>2, <3>4, <4>1
  <2> QED
    BY <1>1, <2>1, <2>2
<1>7. More(h, x, z, m, i) >= 0
  <2>1. /\ a * X \in Int /\ b * Z \in Int /\ h * (a * a + 3 * (b * b)) \in Int
    BY <1>1
  <2>2. More(h, x, z, m, i) = h * (a * a + 3 * (b * b)) - (2 * (m * x) + 3 * (i * z))
    BY <1>1 DEF More
  <2> QED
    BY <1>1, <1>4, <1>6, <2>1, <2>2
<1>8. /\ FarFromOther(h, x, z, m, i) - Far(x, z) = 12 * h * More(h, x, z, m, i)
      /\ Far(x, z) \in Nat /\ FarFromOther(h, x, z, m, i) \in Int
      /\ More(h, x, z, m, i) \in Int
  <2>1. h \in Int
    OBVIOUS
  <2> QED
    BY <2>1, HowMuchFarther, Zenon
<1>9. 12 * h * More(h, x, z, m, i) >= 0 /\ 12 * h * More(h, x, z, m, i) \in Int
  BY <1>7, <1>8
<1> QED
  BY <1>8, <1>9

\* A point to which none of the six centres around is nearer is inside.
LEMMA InsideIfNearest ==
  ASSUME NEW h \in Nat \ {0}, NEW x \in Int, NEW z \in Int,
         \A m \in {-2, -1, 1, 2}, i \in {-1, 0, 1} :
           (m + i) % 2 = 0 => Far(x, z) <= FarFromOther(h, x, z, m, i)
  PROVE  Inside(h, x, z)
<1>1. ASSUME NEW m \in {-2, -1, 1, 2}, NEW i \in {-1, 0, 1}, (m + i) % 2 = 0
      PROVE  2 * (m * x) + 3 * (i * z) <= h * (m * m + 3 * (i * i))
  <2> DEFINE n == 12 * h
             more == More(h, x, z, m, i)
  <2>1. m \in Int /\ i \in Int
    OBVIOUS
  <2>2. /\ FarFromOther(h, x, z, m, i) - Far(x, z) = n * more
        /\ Far(x, z) \in Nat /\ FarFromOther(h, x, z, m, i) \in Int /\ more \in Int
    <3>1. h \in Int
      OBVIOUS
    <3> QED
      BY <2>1, <3>1, HowMuchFarther, Zenon
  <2>3. Far(x, z) <= FarFromOther(h, x, z, m, i)
    BY <1>1
  <2>4. n \in Nat \ {0} /\ n * 0 = 0
    OBVIOUS
  <2>5. 0 <= more
    <3> HIDE DEF n, more
    <3>1. n * more \in Int
      BY <2>2, <2>4
    <3>2. n * 0 <= n * more
      BY <2>2, <2>3, <2>4, <3>1
    <3> QED
      BY <2>2, <2>4, <3>2, Cancelling
  <2>6. h * (m * m + 3 * (i * i)) \in Int /\ 2 * (m * x) + 3 * (i * z) \in Int
    BY <2>1
  <2> QED
    BY <2>5, <2>6 DEF More
<1>2. x <= h /\ -x <= h
  <2>1. 2 * (2 * x) + 3 * (0 * z) <= h * (2 * 2 + 3 * (0 * 0))
    BY <1>1
  <2>2. 2 * (-2 * x) + 3 * (0 * z) <= h * ((-2) * (-2) + 3 * (0 * 0))
    BY <1>1
  <2> QED
    BY <2>1, <2>2
<1>3. 2 * x + 3 * z <= 4 * h
  <2>1. 2 * (1 * x) + 3 * (1 * z) <= h * (1 * 1 + 3 * (1 * 1))
    BY <1>1
  <2> QED
    BY <2>1
<1>4. 2 * x - 3 * z <= 4 * h
  <2>1. 2 * (1 * x) + 3 * (-1 * z) <= h * (1 * 1 + 3 * ((-1) * (-1)))
    BY <1>1
  <2> QED
    BY <2>1
<1>5. -2 * x + 3 * z <= 4 * h
  <2>1. 2 * (-1 * x) + 3 * (1 * z) <= h * ((-1) * (-1) + 3 * (1 * 1))
    BY <1>1
  <2> QED
    BY <2>1
<1>6. -2 * x - 3 * z <= 4 * h
  <2>1. 2 * (-1 * x) + 3 * (-1 * z) <= h * ((-1) * (-1) + 3 * ((-1) * (-1)))
    BY <1>1
  <2> QED
    BY <2>1
<1> QED
  BY <1>2, <1>3, <1>4, <1>5, <1>6 DEF Inside

-----------------------------------------------------------------------------
(* The mouse: tiles. *)

Half == Parts \div 2

LEMMA HalfOfParts ==
  /\ Half \in Nat \ {0} /\ Parts = 2 * Half
  /\ {Rows, Cols, Parts, Reach, HoverDelay, MaxTime} \subseteq Nat \ {0}
  /\ FrameTimes \subseteq Nat \ {0} /\ HoverDelay < MaxTime
BY MouseAssumption DEF Mouse!PointingAssumption, Half

Points == Int \X Int

\* Half columns from the left edge.
Columns(t) == 2 * t[2] + (t[1] % 2)

LEMMA Centres ==
  ASSUME NEW t \in Points
  PROVE  /\ Mouse!tileCenter(t) = <<Half * Columns(t), 2 * Half * t[1]>>
         /\ t[1] \in Int /\ t[2] \in Int /\ Columns(t) \in Int
         /\ (Columns(t) + t[1]) % 2 = 0
         /\ Half * Columns(t) \in Int /\ 2 * Half * t[1] \in Int
         /\ Half * Columns(t) - 2 * Half * t[2] \in {0, Half}
<1>1. t[1] \in Int /\ t[2] \in Int /\ t[1] % 2 \in {0, 1} /\ (t[1] + (t[1] % 2)) % 2 = 0
  <2>1. t[1] \in Int /\ t[2] \in Int
    BY DEF Points
  <2>2. t[1] % 2 \in {0, 1} /\ (t[1] + (t[1] % 2)) % 2 = 0
    BY <2>1
  <2> QED
    BY <2>1, <2>2
<1>2. Columns(t) \in Int /\ (Columns(t) + t[1]) % 2 = 0
  BY <1>1 DEF Columns
<1>3. Half * Columns(t) = 2 * Half * t[2] + (IF t[1] % 2 # 0 THEN Half ELSE 0)
  <2> DEFINE odd == t[1] % 2
             c == t[2]
  <2>2. odd \in {0, 1} /\ c \in Int /\ Columns(t) = 2 * c + odd
    <3>1. Columns(t) = 2 * c + odd
      BY DEF Columns
    <3>2. odd \in {0, 1} /\ c \in Int
      BY <1>1
    <3> QED
      BY <3>1, <3>2
  <2> HIDE DEF odd, c
  <2>3. Half * Columns(t) = 2 * Half * c + (IF odd # 0 THEN Half ELSE 0)
    BY <2>2, HalfOfParts
  <2> QED
    BY <2>3 DEF odd, c
<1>4. Parts * t[2] = 2 * Half * t[2] /\ Parts * t[1] = 2 * Half * t[1] /\ Parts \div 2 = Half
  BY <1>1, HalfOfParts DEF Half
<1>5. Mouse!tileCenter(t) = <<Parts * t[2] + (IF t[1] % 2 # 0 THEN Parts \div 2 ELSE 0), Parts * t[1]>>
  BY DEF Mouse!tileCenter
<1>6. 2 * Half * t[2] \in Int /\ 2 * Half * t[1] \in Int /\ Half \in Int
  BY <1>1, HalfOfParts
<1> QED
  BY <1>1, <1>2, <1>3, <1>4, <1>5, <1>6

\* Where a point lies, seen from the centre of a tile.
East(p, t) == p[1] - Half * Columns(t)

South(p, t) == p[2] - 2 * Half * t[1]

LEMMA SeenFromTile ==
  ASSUME NEW p \in Points, NEW t \in Points
  PROVE  /\ East(p, t) \in Int /\ South(p, t) \in Int
         /\ Mouse!SquaredDistance(p, Mouse!tileCenter(t)) = Far(East(p, t), South(p, t))
         /\ Mouse!InHexagon(p, Mouse!tileCenter(t)) <=> Inside(Half, East(p, t), South(p, t))
<1>1. p[1] \in Int /\ p[2] \in Int
  BY DEF Points
<1>2. East(p, t) \in Int /\ South(p, t) \in Int
  BY <1>1, Centres DEF East, South
<1>3. /\ p[1] - Mouse!tileCenter(t)[1] = East(p, t)
      /\ p[2] - Mouse!tileCenter(t)[2] = South(p, t)
  BY Centres DEF East, South
<1>4. Mouse!InHexagon(p, Mouse!tileCenter(t)) <=> Inside(Half, East(p, t), South(p, t))
  <2> DEFINE x == East(p, t)
             z == South(p, t)
  <2>1. Mouse!InHexagon(p, Mouse!tileCenter(t))
          <=> /\ 2 * Mouse!Magnitude(x) <= Parts
              /\ 2 * Mouse!Magnitude(x) + 3 * Mouse!Magnitude(z) <= 2 * Parts
    BY <1>3 DEF Mouse!InHexagon
  <2>2. x \in Int /\ z \in Int
    BY <1>2
  <2> HIDE DEF x, z
  <2>3. (/\ 2 * Mouse!Magnitude(x) <= Parts
         /\ 2 * Mouse!Magnitude(x) + 3 * Mouse!Magnitude(z) <= 2 * Parts) <=> Inside(Half, x, z)
    BY <2>2, HalfOfParts DEF Mouse!Magnitude, Inside
  <2> QED
    BY <2>1, <2>3 DEF x, z
<1>5. Mouse!SquaredDistance(p, Mouse!tileCenter(t)) = Far(East(p, t), South(p, t))
  BY <1>3 DEF Mouse!SquaredDistance, Far
<1> QED
  BY <1>2, <1>4, <1>5

\* From one tile to another.
Aside(t, o) == Columns(o) - Columns(t)

Ahead(t, o) == o[1] - t[1]

LEMMA FromTileToTile ==
  ASSUME NEW p \in Points, NEW t \in Points, NEW o \in Points
  PROVE  /\ Aside(t, o) \in Int /\ Ahead(t, o) \in Int /\ (Aside(t, o) + Ahead(t, o)) % 2 = 0
         /\ East(p, o) = East(p, t) - Half * Aside(t, o)
         /\ South(p, o) = South(p, t) - 2 * Half * Ahead(t, o)
<1>1. p[1] \in Int /\ p[2] \in Int /\ Half \in Int
  BY HalfOfParts DEF Points
<1>2. /\ Columns(t) \in Int /\ t[1] \in Int /\ (Columns(t) + t[1]) % 2 = 0
      /\ Columns(o) \in Int /\ o[1] \in Int /\ (Columns(o) + o[1]) % 2 = 0
  BY Centres
<1>3. ((Columns(o) - Columns(t)) + (o[1] - t[1])) % 2 = 0
  <2>1. PICK k \in Int : Columns(t) + t[1] = 2 * k
    BY <1>2
  <2>2. PICK n \in Int : Columns(o) + o[1] = 2 * n
    BY <1>2
  <2>3. (Columns(o) - Columns(t)) + (o[1] - t[1]) = 2 * (n - k)
    BY <1>2, <2>1, <2>2
  <2> QED
    BY <2>3
<1>4. /\ Half * (Columns(o) - Columns(t)) = Half * Columns(o) - Half * Columns(t)
      /\ 2 * Half * (o[1] - t[1]) = 2 * Half * o[1] - 2 * Half * t[1]
      /\ Half * Columns(o) \in Int /\ Half * Columns(t) \in Int
      /\ 2 * Half * o[1] \in Int /\ 2 * Half * t[1] \in Int
  BY <1>1, <1>2
<1> QED
  BY <1>1, <1>2, <1>3, <1>4 DEF Aside, Ahead, East, South

\* No tile's centre is nearer to a point of a hexagon than that tile's.
LEMMA NearestTile ==
  ASSUME NEW p \in Points, NEW t \in Points, NEW o \in Points,
         Inside(Half, East(p, t), South(p, t))
  PROVE  Far(East(p, t), South(p, t)) <= Far(East(p, o), South(p, o))
<1>1. /\ Aside(t, o) \in Int /\ Ahead(t, o) \in Int /\ (Aside(t, o) + Ahead(t, o)) % 2 = 0
      /\ Far(East(p, o), South(p, o)) = FarFromOther(Half, East(p, t), South(p, t), Aside(t, o), Ahead(t, o))
  BY FromTileToTile DEF FarFromOther
<1>2. East(p, t) \in Int /\ South(p, t) \in Int
  BY SeenFromTile
<1>3. Half \in Nat \ {0}
  BY HalfOfParts
<1> QED
  BY <1>1, <1>2, <1>3, NearestInside

\* Only tiles on which the point lies are as near.
LEMMA AsNear ==
  ASSUME NEW p \in Points, NEW t \in Points, NEW o \in Points,
         Inside(Half, East(p, t), South(p, t)),
         Far(East(p, o), South(p, o)) <= Far(East(p, t), South(p, t))
  PROVE  Inside(Half, East(p, o), South(p, o))
<1> DEFINE x == East(p, o)
           z == South(p, o)
<1>1. x \in Int /\ z \in Int /\ East(p, t) \in Int /\ South(p, t) \in Int
  BY SeenFromTile
<1>2. Half \in Nat \ {0} /\ Half \in Int
  BY HalfOfParts
<1>3. ASSUME NEW m \in {-2, -1, 1, 2}, NEW i \in {-1, 0, 1}, (m + i) % 2 = 0
      PROVE  Far(x, z) <= FarFromOther(Half, x, z, m, i)
  <2> DEFINE a == Aside(t, o) + m
             b == Ahead(t, o) + i
  <2>1. /\ Aside(t, o) \in Int /\ Ahead(t, o) \in Int /\ (Aside(t, o) + Ahead(t, o)) % 2 = 0
        /\ x = East(p, t) - Half * Aside(t, o)
        /\ z = South(p, t) - 2 * Half * Ahead(t, o)
    BY FromTileToTile
  <2>2. a \in Int /\ b \in Int /\ (a + b) % 2 = 0
    <3>1. PICK k \in Int : Aside(t, o) + Ahead(t, o) = 2 * k
      BY <2>1
    <3>2. PICK n \in Int : m + i = 2 * n
      BY <1>3
    <3>3. a + b = 2 * (k + n)
      BY <2>1, <3>1, <3>2
    <3> QED
      BY <2>1, <3>3
  <2>3. Far(East(p, t), South(p, t)) <= FarFromOther(Half, East(p, t), South(p, t), a, b)
    <3> HIDE DEF a, b
    <3> QED
      BY <1>1, <1>2, <2>2, NearestInside
  <2>4. FarFromOther(Half, x, z, m, i) = FarFromOther(Half, East(p, t), South(p, t), a, b)
    <3>1. /\ x - Half * m = East(p, t) - Half * a
          /\ z - 2 * Half * i = South(p, t) - 2 * Half * b
      <4>1. /\ Half * a = Half * Aside(t, o) + Half * m
            /\ 2 * Half * b = 2 * Half * Ahead(t, o) + 2 * Half * i
            /\ Half * Aside(t, o) \in Int /\ Half * m \in Int
            /\ 2 * Half * Ahead(t, o) \in Int /\ 2 * Half * i \in Int
        BY <1>2, <2>1
      <4> HIDE DEF x, z, a, b
      <4> QED
        BY <1>1, <2>1, <4>1
    <3> HIDE DEF x, z, a, b
    <3> QED
      BY <3>1 DEF FarFromOther
  <2>5. /\ Far(x, z) \in Int /\ Far(East(p, t), South(p, t)) \in Int
        /\ FarFromOther(Half, x, z, m, i) \in Int
    <3>1. m \in Int /\ i \in Int
      OBVIOUS
    <3> HIDE DEF x, z
    <3> QED
      BY <1>1, <1>2, <3>1 DEF Far, FarFromOther
  <2> QED
    BY <2>3, <2>4, <2>5
<1> HIDE DEF x, z
<1>4. Inside(Half, x, z)
  BY <1>1, <1>2, <1>3, InsideIfNearest
<1> QED
  BY <1>4 DEF x, z

\* Rounding is off by half a part of the distance at most.
LEMMA Rounding ==
  ASSUME NEW c \in Int, NEW e \in Int, 2 * e <= 2 * Parts, -(2 * e) <= 2 * Parts
  PROVE  Mouse!Rounded(Parts * c + e) \in c - 1 .. c + 1
<1> DEFINE n == Parts * c + e
           q == Mouse!Rounded(n)
<1>1. Parts \in Nat \ {0} /\ n \in Int
  BY HalfOfParts
<1>2. q \in Int /\ Parts * (2 * q - 1) <= 2 * n /\ 2 * n <= Parts * (2 * q + 1)
  <2> HIDE DEF n
  <2> DEFINE d == 2 * Parts
  <2>1. d \in Nat \ {0}
    BY <1>1
  <2>2. ASSUME NEW k \in Nat
        PROVE  /\ (k \div d) \in Nat
               /\ d * (k \div d) <= k /\ k < d * (k \div d) + d
    <3> HIDE DEF d
    <3> QED
      BY <2>1, <2>2
  <2>3. CASE n >= 0
    <3> DEFINE k == 2 * n + Parts
               r == k \div d
    <3>1. k \in Nat /\ q = r
      BY <1>1, <2>3 DEF Mouse!Rounded
    <3>2. r \in Nat /\ d * r <= k /\ k < d * r + d
      <4> HIDE DEF k
      <4> QED
        BY <3>1, <2>2
    <3>3. /\ d * r = 2 * (Parts * r) /\ Parts * r \in Int
          /\ Parts * (2 * r - 1) = 2 * (Parts * r) - Parts
          /\ Parts * (2 * r + 1) = 2 * (Parts * r) + Parts
      <4> HIDE DEF r
      <4> QED
        BY <1>1, <3>2
    <3>4. r \in Int /\ Parts * (2 * r - 1) <= 2 * n /\ 2 * n <= Parts * (2 * r + 1)
      <4> DEFINE s == Parts * r
      <4>1. 2 * s <= 2 * n + Parts /\ 2 * n + Parts < 2 * s + 2 * Parts /\ s \in Int
        BY <3>2, <3>3
      <4> HIDE DEF r, d
      <4>2. 2 * s - Parts <= 2 * n /\ 2 * n <= 2 * s + Parts
        <5> HIDE DEF s
        <5> QED
          BY <1>1, <4>1
      <4> QED
        BY <3>2, <3>3, <4>2
    <3> HIDE DEF r, q
    <3> QED
      BY <3>1, <3>4
  <2>4. CASE n < 0
    <3> DEFINE k == Parts - 2 * n
               r == k \div d
    <3>1. k \in Nat /\ q = -r
      BY <1>1, <2>4 DEF Mouse!Rounded
    <3>2. r \in Nat /\ d * r <= k /\ k < d * r + d
      <4> HIDE DEF k
      <4> QED
        BY <3>1, <2>2
    <3>3. /\ d * r = 2 * (Parts * r) /\ Parts * r \in Int
          /\ Parts * (2 * (-r) - 1) = -(2 * (Parts * r)) - Parts
          /\ Parts * (2 * (-r) + 1) = -(2 * (Parts * r)) + Parts
      <4> HIDE DEF r
      <4> QED
        BY <1>1, <3>2
    <3>4. -r \in Int /\ Parts * (2 * (-r) - 1) <= 2 * n /\ 2 * n <= Parts * (2 * (-r) + 1)
      <4> DEFINE s == Parts * r
      <4>1. 2 * s <= Parts - 2 * n /\ Parts - 2 * n < 2 * s + 2 * Parts /\ s \in Int
        BY <3>2, <3>3
      <4> HIDE DEF r, d
      <4>2. -(2 * s) - Parts <= 2 * n /\ 2 * n <= -(2 * s) + Parts
        <5> HIDE DEF s
        <5> QED
          BY <1>1, <4>1
      <4> QED
        BY <3>2, <3>3, <4>2
    <3> HIDE DEF r, q
    <3> QED
      BY <3>1, <3>4
  <2> QED
    BY <1>1, <2>3, <2>4
<1> HIDE DEF q
<1>3. Parts * (2 * q - 1) <= Parts * (2 * c + 2) /\ Parts * (2 * c - 2) <= Parts * (2 * q + 1)
  <2>1. 2 * n = 2 * (Parts * c) + 2 * e /\ Parts * c \in Int
    BY <1>1
  <2>2. /\ Parts * (2 * c + 2) = 2 * (Parts * c) + 2 * Parts
        /\ Parts * (2 * c - 2) = 2 * (Parts * c) - 2 * Parts
    BY <1>1
  <2>3. Parts * (2 * q - 1) \in Int /\ Parts * (2 * q + 1) \in Int
    BY <1>1, <1>2
  <2> HIDE DEF n
  <2> QED
    BY <1>1, <1>2, <2>1, <2>2, <2>3
<1>4. 2 * q - 1 <= 2 * c + 2 /\ 2 * c - 2 <= 2 * q + 1
  <2>1. 2 * q - 1 \in Int /\ 2 * c + 2 \in Int /\ 2 * c - 2 \in Int /\ 2 * q + 1 \in Int
    BY <1>2
  <2> QED
    BY <1>1, <1>3, <2>1, Cancelling
<1>5. q \in c - 1 .. c + 1
  BY <1>2, <1>4
<1> QED
  BY <1>5 DEF q

\* The tiles on which a point lies are among those that are tried.
LEMMA TriedIfUnder ==
  ASSUME NEW p \in Points, NEW t \in Mouse!TilesUnder(p)
  PROVE  /\ t \in Mouse!Nearby(p) /\ t \in Points
         /\ Inside(Half, East(p, t), South(p, t))
<1>1. /\ t \in Mouse!Map /\ Mouse!InHexagon(p, Mouse!tileCenter(t))
  BY DEF Mouse!TilesUnder
<1>2. /\ t = <<t[1], t[2]>> /\ t[1] \in Int /\ t[2] \in Int /\ t \in Points
  BY <1>1, HalfOfParts DEF Mouse!Map, Points
<1>3. Inside(Half, East(p, t), South(p, t)) /\ East(p, t) \in Int /\ South(p, t) \in Int
  BY <1>1, <1>2, SeenFromTile
<1>4. p[1] \in Int /\ p[2] \in Int
  BY DEF Points
<1>5. Mouse!Rounded(p[2]) \in t[1] - 1 .. t[1] + 1
  <2> DEFINE e == South(p, t)
  <2>1. e \in Int /\ 2 * e <= 2 * Parts /\ -(2 * e) <= 2 * Parts
    <3> HIDE DEF e
    <3> QED
      BY <1>3, HalfOfParts DEF Inside, e
  <2>2. p[2] = Parts * t[1] + e
    <3>1. 2 * Half * t[1] = Parts * t[1] /\ Parts * t[1] \in Int
      BY <1>2, HalfOfParts
    <3> QED
      BY <1>4, <3>1 DEF South
  <2> HIDE DEF e
  <2> QED
    BY <1>2, <2>1, <2>2, Rounding
<1>6. Mouse!Rounded(p[1]) \in t[2] - 1 .. t[2] + 1
  <2> DEFINE shift == Half * Columns(t) - 2 * Half * t[2]
             e == East(p, t) + shift
  <2>1. shift \in {0, Half} /\ Half * Columns(t) \in Int
    BY <1>2, Centres
  <2>2. 2 * Half * t[2] = Parts * t[2] /\ Parts * t[2] \in Int
    BY <1>2, HalfOfParts
  <2>3. p[1] = Parts * t[2] + e
    BY <1>4, <2>1, <2>2 DEF East
  <2>4. e \in Int /\ 2 * e <= 2 * Parts /\ -(2 * e) <= 2 * Parts
    <3> HIDE DEF shift
    <3> QED
      BY <1>3, <2>1, HalfOfParts DEF Inside
  <2> HIDE DEF e
  <2> QED
    BY <1>2, <2>3, <2>4, Rounding
<1>7. t \in {<<Mouse!Rounded(p[2]) + i, Mouse!Rounded(p[1]) + j>> : i, j \in -1 .. 1}
  <2> DEFINE i == t[1] - Mouse!Rounded(p[2])
             j == t[2] - Mouse!Rounded(p[1])
  <2>1. i \in -1 .. 1 /\ j \in -1 .. 1
    BY <1>2, <1>5, <1>6
  <2>2. t = <<Mouse!Rounded(p[2]) + i, Mouse!Rounded(p[1]) + j>>
    BY <1>2, <1>5, <1>6
  <2> HIDE DEF i, j
  <2> QED
    BY <2>1, <2>2
<1> QED
  BY <1>1, <1>2, <1>3, <1>7 DEF Mouse!Nearby

-----------------------------------------------------------------------------
(* The mouse: frames. *)

\* If a tile is tried, one of those with the nearest centres is the first.
LEMMA BestIsNear ==
  ASSUME NEW p \in Points, NEW u \in Mouse!Nearby(p)
  PROVE  \E t \in Mouse!Nearby(p) :
           /\ \A o \in Mouse!Nearby(p) :
                Mouse!SquaredDistance(p, Mouse!tileCenter(t))
                  <= Mouse!SquaredDistance(p, Mouse!tileCenter(o))
           /\ t \in Mouse!Map
           /\ Mouse!worldToTile(p) =
                IF Mouse!SquaredDistance(p, Mouse!tileCenter(t)) > Mouse!SquaredRadius
                THEN Mouse!NoTile ELSE t
<1> DEFINE tried == Mouse!Nearby(p)
           D(t) == Mouse!SquaredDistance(p, Mouse!tileCenter(t))
           near == {t \in tried : \A o \in tried : D(t) <= D(o)}
           First(t) == \A o \in near : t[1] < o[1] \/ (t[1] = o[1] /\ t[2] <= o[2])
           best == CHOOSE t \in near : First(t)
<1>1. tried \subseteq Mouse!Map /\ Mouse!Map \subseteq Nat \X Nat /\ Mouse!Map \subseteq Points
  <2>1. Rows \in Nat /\ Cols \in Nat
    BY HalfOfParts
  <2> QED
    BY <2>1 DEF Mouse!Nearby, Mouse!Map, Points
<1>2. \A t \in tried : D(t) \in Nat
  <2> SUFFICES ASSUME NEW t \in tried
               PROVE  D(t) \in Nat
    OBVIOUS
  <2>1. t \in Points
    BY <1>1
  <2>2. /\ D(t) = Far(East(p, t), South(p, t))
        /\ East(p, t) \in Int /\ South(p, t) \in Int
    BY <2>1, SeenFromTile
  <2>3. Far(East(p, t), South(p, t)) \in Nat
    <3>1. \A x, z \in Int : Far(x, z) \in Nat
      <4>1. ASSUME NEW x \in Int, NEW z \in Int
            PROVE  Far(x, z) \in Nat
        <5>1. x * x \in Nat /\ z * z \in Nat /\ 12 * x * x = 12 * (x * x) /\ 9 * z * z = 9 * (z * z)
          OBVIOUS
        <5> QED
          BY <5>1 DEF Far
      <4> QED
        BY <4>1
    <3> QED
      BY <2>2, <3>1
  <2> QED
    BY <2>2, <2>3
<1>3. near # {}
  <2> DEFINE distances == {D(t) : t \in tried}
  <2>1. distances \in SUBSET Nat /\ distances # {}
    BY <1>2
  <2>2. PICK least \in distances : \A n \in distances : least <= n
    <3> HIDE DEF distances
    <3> QED
      BY <2>1, Smallest
  <2>3. PICK t \in tried : D(t) = least
    BY <2>2
  <2> HIDE DEF tried, D
  <2> QED
    BY <2>2, <2>3
<1>4. \E t \in near : First(t)
  <2>1. near \in SUBSET (Nat \X Nat)
    BY <1>1
  <2> HIDE DEF near
  <2> QED
    BY <1>3, <2>1, FirstOfRows
<1>5. best \in near
  <2> HIDE DEF near, First
  <2> QED
    BY <1>4
<1>6. Mouse!worldToTile(p) =
        IF near = {} \/ D(best) > Mouse!SquaredRadius THEN Mouse!NoTile ELSE best
  BY DEF Mouse!worldToTile
<1>7. best \in tried /\ \A o \in tried : D(best) <= D(o)
  <2> HIDE DEF best
  <2> QED
    BY <1>5
<1>8. Mouse!worldToTile(p) = IF D(best) > Mouse!SquaredRadius THEN Mouse!NoTile ELSE best
  <2> HIDE DEF best, near, D
  <2> QED
    BY <1>3, <1>6
<1> HIDE DEF best
<1> QED
  BY <1>1, <1>7, <1>8

\* The corners of a hexagon are as far from its centre as worldToTile allows,
\* and no point of it farther.
LEMMA WithinRadius ==
  ASSUME NEW x \in Int, NEW z \in Int, Inside(Half, x, z)
  PROVE  Far(x, z) <= Mouse!SquaredRadius /\ Mouse!SquaredRadius \in Int
<1> DEFINE h == Half
           a == Magnitude(x)
           b == Magnitude(z)
<1>1. /\ a \in Nat /\ b \in Nat /\ x * x = a * a /\ z * z = b * b
  BY ProductOfMagnitudes
<1>2. h \in Nat \ {0} /\ Parts = 2 * h
  BY HalfOfParts
<1>3. a <= h /\ 3 * b <= 4 * h - 2 * a
  BY <1>2 DEF Inside, Magnitude
<1>4. Far(x, z) = 12 * (a * a) + (3 * b) * (3 * b)
  <2>1. /\ 12 * x * x = 12 * (x * x) /\ 9 * z * z = 9 * (z * z)
        /\ (3 * b) * (3 * b) = 9 * (b * b)
    BY <1>1
  <2> QED
    BY <1>1, <2>1 DEF Far
<1>5. Mouse!SquaredRadius = 16 * (h * h)
  BY <1>2 DEF Mouse!SquaredRadius
<1> HIDE DEF a, b, h
<1>6. (3 * b) * (3 * b) <= (4 * h - 2 * a) * (4 * h - 2 * a)
  <2> DEFINE n == 3 * b
             m == 4 * h - 2 * a
  <2>1. n \in Nat /\ m \in Nat /\ n <= m
    BY <1>1, <1>2, <1>3
  <2> HIDE DEF n, m
  <2>2. n * n <= n * m /\ m * n <= m * m /\ n * m = m * n
    BY <2>1, Growing
  <2>3. n * n <= m * m
    <3>1. n * n \in Int /\ n * m \in Int /\ m * m \in Int
      BY <2>1
    <3> QED
      BY <2>2, <3>1
  <2> QED
    BY <2>3 DEF n, m
<1>7. (4 * h - 2 * a) * (4 * h - 2 * a) = 16 * (h * h) - 16 * (h * a) + 4 * (a * a)
  BY <1>1, <1>2
<1>8. a * a <= h * a
  <2>1. a * a <= a * h /\ a * h = h * a
    BY <1>1, <1>2, <1>3, Growing
  <2> QED
    BY <2>1
<1>9. /\ a * a \in Int /\ h * a \in Int /\ h * h \in Int /\ (3 * b) * (3 * b) \in Int
  BY <1>1, <1>2
<1> QED
  BY <1>4, <1>5, <1>6, <1>7, <1>8, <1>9

\* The tile that is picked is one on which the point lies, if there is one.
LEMMA PickedIsUnder ==
  ASSUME NEW p \in Points, Mouse!TilesUnder(p) # {}
  PROVE  Mouse!worldToTile(p) \in Mouse!TilesUnder(p)
<1>1. PICK t \in Mouse!TilesUnder(p) : TRUE
  OBVIOUS
<1>2. /\ t \in Mouse!Nearby(p) /\ t \in Points
      /\ Inside(Half, East(p, t), South(p, t))
  BY <1>1, TriedIfUnder
<1>3. PICK best \in Mouse!Nearby(p) :
        /\ \A o \in Mouse!Nearby(p) :
             Mouse!SquaredDistance(p, Mouse!tileCenter(best))
               <= Mouse!SquaredDistance(p, Mouse!tileCenter(o))
        /\ best \in Mouse!Map
        /\ Mouse!worldToTile(p) =
             IF Mouse!SquaredDistance(p, Mouse!tileCenter(best)) > Mouse!SquaredRadius
             THEN Mouse!NoTile ELSE best
  BY <1>2, BestIsNear
<1>4. best \in Points
  BY <1>3, HalfOfParts DEF Mouse!Map, Points
<1>5. /\ Mouse!SquaredDistance(p, Mouse!tileCenter(best)) = Far(East(p, best), South(p, best))
      /\ Mouse!SquaredDistance(p, Mouse!tileCenter(t)) = Far(East(p, t), South(p, t))
      /\ East(p, best) \in Int /\ South(p, best) \in Int
      /\ East(p, t) \in Int /\ South(p, t) \in Int
  BY <1>2, <1>4, SeenFromTile
<1>6. Far(East(p, best), South(p, best)) <= Far(East(p, t), South(p, t))
  BY <1>2, <1>3, <1>5
<1>7. Inside(Half, East(p, best), South(p, best))
  BY <1>2, <1>4, <1>6, AsNear
<1>8. /\ Far(East(p, best), South(p, best)) <= Mouse!SquaredRadius /\ Mouse!SquaredRadius \in Int
  BY <1>5, <1>7, WithinRadius
<1>9. Far(East(p, best), South(p, best)) \in Int
  BY <1>5 DEF Far
<1>10. Mouse!worldToTile(p) = best
  BY <1>3, <1>5, <1>8, <1>9
<1>11. Mouse!InHexagon(p, Mouse!tileCenter(best))
  BY <1>4, <1>7, SeenFromTile
<1> QED
  BY <1>3, <1>10, <1>11 DEF Mouse!TilesUnder

LEMMA TilesOrNone ==
  ASSUME NEW p \in Points \cup {Mouse!Sky}
  PROVE  Mouse!mouseToTile(p) \in Mouse!Map \cup {Mouse!NoTile}
<1>1. CASE p = Mouse!Sky
  BY <1>1 DEF Mouse!mouseToTile
<1>2. CASE p # Mouse!Sky /\ Mouse!Nearby(p) # {}
  <2>1. PICK u \in Mouse!Nearby(p) : TRUE
    BY <1>2
  <2>2. Mouse!worldToTile(p) \in Mouse!Map \cup {Mouse!NoTile}
    BY <1>2, <2>1, BestIsNear
  <2> QED
    BY <1>2, <2>2 DEF Mouse!mouseToTile
<1>3. CASE p # Mouse!Sky /\ Mouse!Nearby(p) = {}
  <2>1. Mouse!worldToTile(p) = Mouse!NoTile
    BY <1>3 DEF Mouse!worldToTile
  <2> QED
    BY <1>3, <2>1 DEF Mouse!mouseToTile
<1> QED
  BY <1>1, <1>2, <1>3

\* B stands for BOOLEAN.
LEMMA TooltipRecord ==
  ASSUME NEW B, NEW M, NEW T, NEW t \in M, NEW b \in B, NEW n \in T,
         NEW tip, tip = [tile |-> t, hovering |-> b, time |-> n]
  PROVE  /\ tip \in [tile : M, hovering : B, time : T]
         /\ tip.tile = t /\ tip.hovering = b /\ tip.time = n
OBVIOUS

\* What is known of a frame beyond types: the tooltip has the tile under the
\* mouse, and has waited for no longer than the mouse has been there.
Waits ==
  LET t == Mouse!mouseToTile(mouse)
  IN  /\ rest.tile = t
      /\ t = Mouse!NoTile => tooltip.hovering = FALSE /\ tooltip.time = 0
      /\ t # Mouse!NoTile => tooltip.tile = t /\ tooltip.time <= rest.time + rest.came

MouseInv == Mouse!TypeOK /\ Waits

LEMMA MouseIsSomewhere ==
  /\ Mouse!Ground \subseteq Points
  /\ mouse \in Mouse!Ground \cup {Mouse!Sky} => Mouse!Within(mouse) \subseteq Mouse!Ground \cup {Mouse!Sky}
<1>1. Mouse!Ground \subseteq Points
  <2>1. Margin \in Int /\ Parts * Cols \in Int /\ Parts * Rows \in Int
    BY MouseAssumption, HalfOfParts DEF Mouse!PointingAssumption
  <2> QED
    BY <2>1 DEF Mouse!Ground, Points
<1>2. Mouse!Within(mouse) \subseteq Mouse!Ground \cup {Mouse!Sky}
  BY DEF Mouse!Within
<1> QED
  BY <1>1, <1>2

LEMMA MouseBegins == Mouse!Init => MouseInv
<1> SUFFICES ASSUME Mouse!Init
             PROVE  MouseInv
  OBVIOUS
<1>1. /\ mouse = Mouse!Sky
      /\ tooltip = [tile |-> Mouse!NoTile, hovering |-> FALSE, time |-> 0]
      /\ rest = [tile |-> Mouse!NoTile, time |-> 0, came |-> 0]
  BY DEF Mouse!Init
<1>2. 0 \in 0 .. MaxTime
  BY HalfOfParts
<1>3. tooltip \in [tile : Mouse!Map \cup {Mouse!NoTile}, hovering : BOOLEAN, time : 0 .. MaxTime]
  BY <1>1, <1>2
<1>4. rest \in [tile : Mouse!Map \cup {Mouse!NoTile}, time : 0 .. MaxTime, came : FrameTimes \cup {0}]
  BY <1>1, <1>2
<1>5. Mouse!mouseToTile(mouse) = Mouse!NoTile
  BY <1>1 DEF Mouse!mouseToTile
<1>6. Waits
  BY <1>1, <1>5 DEF Waits
<1> QED
  BY <1>1, <1>3, <1>4, <1>6 DEF MouseInv, Mouse!TypeOK

LEMMA MouseGoesOn ==
  ASSUME MouseInv, Mouse!Next
  PROVE  MouseInv'
<1>1. PICK p \in Mouse!Within(mouse), dt \in FrameTimes : Mouse!Frame(p, dt)
  BY DEF Mouse!Next
<1> DEFINE t == Mouse!mouseToTile(p)
           M == Mouse!Map \cup {Mouse!NoTile}
           n == IF t = tooltip.tile THEN tooltip.time ELSE 0
           later == Mouse!Min({n + dt, MaxTime})
<1>2. /\ mouse \in Mouse!Ground \cup {Mouse!Sky}
      /\ tooltip \in [tile : M, hovering : BOOLEAN, time : 0 .. MaxTime]
      /\ rest \in [tile : M, time : 0 .. MaxTime, came : FrameTimes \cup {0}]
      /\ Waits
  BY DEF MouseInv, Mouse!TypeOK
<1>3. p \in Mouse!Ground \cup {Mouse!Sky} /\ p \in Points \cup {Mouse!Sky}
  BY <1>2, MouseIsSomewhere
<1>4. t \in M
  BY <1>3, TilesOrNone
<1>5. /\ mouse' = p
      /\ tooltip' = Mouse!Update(tooltip, t, dt)
      /\ rest' = IF t = Mouse!NoTile THEN [tile |-> Mouse!NoTile, time |-> 0, came |-> 0]
                 ELSE IF t = rest.tile THEN [rest EXCEPT !.time = Mouse!Min({@ + dt, MaxTime})]
                 ELSE [tile |-> t, time |-> 0, came |-> dt]
  BY <1>1 DEF Mouse!Frame
<1>6. /\ dt \in Nat \ {0} /\ MaxTime \in Nat /\ tooltip.time \in 0 .. MaxTime
      /\ rest.time \in 0 .. MaxTime /\ rest.came \in Nat /\ rest.came \in FrameTimes \cup {0}
      /\ n \in 0 .. MaxTime
  <2>1. dt \in Nat \ {0} /\ MaxTime \in Nat /\ FrameTimes \subseteq Nat
    BY HalfOfParts
  <2>2. /\ tooltip.time \in 0 .. MaxTime
        /\ rest.time \in 0 .. MaxTime /\ rest.came \in FrameTimes \cup {0}
    BY <1>2
  <2>3. 0 \in 0 .. MaxTime
    BY <2>1
  <2>4. n \in 0 .. MaxTime
    <3> HIDE DEF t
    <3> QED
      BY <2>2, <2>3
  <2>5. rest.came \in Nat
    <3> DEFINE came == rest.came
    <3>1. came \in FrameTimes \cup {0}
      BY <2>2
    <3> HIDE DEF came
    <3>2. came \in Nat
      BY <2>1, <3>1
    <3> QED
      BY <3>2 DEF came
  <2> HIDE DEF n
  <2> QED
    BY <2>1, <2>2, <2>4, <2>5, Zenon
<1>7. /\ later = (IF n + dt <= MaxTime THEN n + dt ELSE MaxTime) /\ later \in 0 .. MaxTime
  <2>1. n + dt \in Int /\ MaxTime \in Int
    BY <1>6
  <2>2. later = IF n + dt <= MaxTime THEN n + dt ELSE MaxTime
    <3> HIDE DEF n
    <3> QED
      BY <2>1, SmallerOfTwo
  <2> HIDE DEF n, later
  <2> QED
    BY <1>6, <2>2
<1>8. LET m == rest.time
      IN  /\ Mouse!Min({m + dt, MaxTime}) = (IF m + dt <= MaxTime THEN m + dt ELSE MaxTime)
          /\ Mouse!Min({m + dt, MaxTime}) \in 0 .. MaxTime
  <2> DEFINE m == rest.time
  <2>1. m \in 0 .. MaxTime
    BY <1>6
  <2> HIDE DEF m
  <2>2. m + dt \in Int /\ MaxTime \in Int
    BY <1>6, <2>1
  <2>3. Mouse!Min({m + dt, MaxTime}) = IF m + dt <= MaxTime THEN m + dt ELSE MaxTime
    BY <2>2, SmallerOfTwo
  <2>4. Mouse!Min({m + dt, MaxTime}) \in 0 .. MaxTime
    BY <1>6, <2>1, <2>3
  <2> QED
    BY <2>3, <2>4 DEF m
<1>9. /\ tooltip' \in [tile : M, hovering : BOOLEAN, time : 0 .. MaxTime]
      /\ t = Mouse!NoTile => tooltip'.hovering = FALSE /\ tooltip'.time = 0
      /\ t # Mouse!NoTile => tooltip'.tile = t /\ tooltip'.time = later
  <2>1. 0 \in 0 .. MaxTime
    BY <1>6
  <2> DEFINE T == 0 .. MaxTime
             B == BOOLEAN
  <2>2. FALSE \in B /\ TRUE \in B /\ 0 \in T /\ later \in T
    BY <1>7, <2>1
  <2>3. tooltip \in [tile : M, hovering : B, time : T]
    BY <1>2
  <2> HIDE DEF M, T, B
  <2> DEFINE new == tooltip'
  <2>4. /\ later = Mouse!Min({(IF t = tooltip.tile THEN tooltip.time ELSE 0) + dt, MaxTime})
        /\ new = Mouse!Update(tooltip, t, dt)
    BY <1>5
  <2> HIDE DEF later, new, t
  <2>5. /\ new \in [tile : M, hovering : B, time : T]
        /\ t = Mouse!NoTile => new.hovering = FALSE /\ new.time = 0
        /\ t # Mouse!NoTile => new.tile = t /\ new.time = later
    <3>1. CASE t = Mouse!NoTile
      <4>1. new = [tooltip EXCEPT !.hovering = FALSE, !.time = 0]
        BY <2>4, <3>1 DEF Mouse!Update
      <4> QED
        BY <2>2, <2>3, <3>1, <4>1
    <3>2. CASE t # Mouse!NoTile
      <4>1. new = [tile |-> t, hovering |-> TRUE, time |-> later]
        BY <2>4, <3>2 DEF Mouse!Update
      <4> DEFINE yes == TRUE
      <4>2. new = [tile |-> t, hovering |-> yes, time |-> later] /\ yes \in B
        BY <2>2, <4>1
      <4> HIDE DEF yes
      <4>3. /\ new \in [tile : M, hovering : B, time : T]
            /\ new.tile = t /\ new.time = later
        BY <1>4, <2>2, <4>2, TooltipRecord
      <4> QED
        BY <3>2, <4>3, Zenon
    <3> QED
      BY <3>1, <3>2
  <2> QED
    BY <2>5, Zenon DEF T, B, new
<1>10. /\ rest' \in [tile : M, time : 0 .. MaxTime, came : FrameTimes \cup {0}]
       /\ rest'.tile = t
       /\ t # Mouse!NoTile =>
            IF t = rest.tile
            THEN /\ rest'.time = (IF rest.time + dt <= MaxTime THEN rest.time + dt ELSE MaxTime)
                 /\ rest'.came = rest.came
            ELSE rest'.time = 0 /\ rest'.came = dt
  <2> HIDE DEF t, M
  <2>1. 0 \in 0 .. MaxTime /\ dt \in FrameTimes \cup {0}
    BY <1>6
  <2>2. CASE t = Mouse!NoTile
    BY <1>4, <1>5, <2>1, <2>2
  <2>3. CASE t # Mouse!NoTile /\ t = rest.tile
    BY <1>2, <1>5, <1>8, <2>3
  <2>4. CASE t # Mouse!NoTile /\ t # rest.tile
    BY <1>4, <1>5, <2>1, <2>4
  <2> QED
    BY <2>2, <2>3, <2>4
<1>11. Mouse!TypeOK'
  BY <1>3, <1>5, <1>9, <1>10 DEF Mouse!TypeOK
<1>12. Mouse!mouseToTile(mouse)' = t
  BY <1>5
<1>13. t # Mouse!NoTile => tooltip'.time <= rest'.time + rest'.came
  <2> SUFFICES ASSUME t # Mouse!NoTile
               PROVE  tooltip'.time <= rest'.time + rest'.came
    OBVIOUS
  <2>1. tooltip'.time = IF n + dt <= MaxTime THEN n + dt ELSE MaxTime
    BY <1>7, <1>9
  <2>2. CASE t = rest.tile
    <3>1. tooltip.tile = t /\ tooltip.time <= rest.time + rest.came /\ n = tooltip.time
      BY <1>2, <2>2 DEF Waits
    <3>2. /\ rest'.time = (IF rest.time + dt <= MaxTime THEN rest.time + dt ELSE MaxTime)
          /\ rest'.came = rest.came
      BY <1>10, <2>2
    <3> HIDE DEF n, t
    <3> QED
      BY <1>6, <2>1, <3>1, <3>2
  <2>3. CASE t # rest.tile
    <3>1. n = 0
      <4>1. CASE Mouse!mouseToTile(mouse) = Mouse!NoTile
        BY <1>2, <4>1 DEF Waits
      <4>2. CASE Mouse!mouseToTile(mouse) # Mouse!NoTile
        BY <1>2, <2>3, <4>2 DEF Waits
      <4> QED
        BY <4>1, <4>2
    <3>2. rest'.time = 0 /\ rest'.came = dt
      BY <1>10, <2>3
    <3> HIDE DEF n, t
    <3> QED
      BY <1>6, <2>1, <3>1, <3>2
  <2> QED
    BY <2>2, <2>3
<1>14. Waits'
  <2> HIDE DEF t
  <2> QED
    BY <1>9, <1>10, <1>12, <1>13 DEF Waits
<1> QED
  BY <1>11, <1>14 DEF MouseInv

LEMMA MouseInvSuffices ==
  ASSUME MouseInv
  PROVE  Mouse!PointingIsRight
<1>1. Mouse!TypeOK /\ Waits
  BY DEF MouseInv
<1>2. Mouse!HexagonIsPicked
  <2> SUFFICES ASSUME mouse # Mouse!Sky, Mouse!TilesUnder(mouse) # {}
               PROVE  Mouse!mouseToTile(mouse) \in Mouse!TilesUnder(mouse)
    BY DEF Mouse!HexagonIsPicked
  <2>1. mouse \in Points
    BY <1>1, MouseIsSomewhere DEF Mouse!TypeOK
  <2> QED
    BY <2>1, PickedIsUnder DEF Mouse!mouseToTile
<1>3. Mouse!TooltipWaits
  <2> SUFFICES ASSUME tooltip.hovering, tooltip.time >= HoverDelay
               PROVE  /\ tooltip.tile = Mouse!mouseToTile(mouse) /\ tooltip.tile = rest.tile
                      /\ rest.time + rest.came >= HoverDelay
    BY DEF Mouse!TooltipWaits, Mouse!Shown
  <2>1. Mouse!mouseToTile(mouse) # Mouse!NoTile
    BY <1>1 DEF Waits
  <2>2. tooltip.tile = Mouse!mouseToTile(mouse) /\ rest.tile = tooltip.tile
        /\ tooltip.time <= rest.time + rest.came
    BY <1>1, <2>1 DEF Waits
  <2>3. /\ tooltip.time \in 0 .. MaxTime /\ rest.time \in 0 .. MaxTime /\ rest.came \in FrameTimes \cup {0}
    BY <1>1 DEF Mouse!TypeOK
  <2>4. tooltip.time \in Int /\ rest.time \in Int /\ rest.came \in Int /\ HoverDelay \in Int
    <3>1. MaxTime \in Nat /\ FrameTimes \subseteq Int /\ 0 .. MaxTime \subseteq Int /\ HoverDelay \in Int
      BY HalfOfParts
    <3>2. rest.came \in Int
      BY <2>3, <3>1, 0 \in Int, Zenon
    <3> QED
      BY <2>3, <3>1, <3>2, Zenon
  <2> QED
    BY <2>2, <2>4
<1> QED
  BY <1>1, <1>2, <1>3 DEF Mouse!PointingIsRight

\* For a map of any size, points of any resolution and any ways of the mouse:
\* the tile that is picked is one whose hexagon the point lies on, and the
\* tooltip waits for its tile (worldToTile, Tooltip::update).
THEOREM PointingAlwaysRight == Spec => []PointingIsRight
<1> DEFINE Inv == part = "mouse" => MouseInv
<1>1. Init => Inv
  BY MouseBegins DEF Init
<1>2. Inv /\ [Next]_<<part, floodVars, minimapVars, searchVars, pointingVars, mapVars>> => Inv'
  <2> SUFFICES ASSUME Inv, [Next]_<<part, floodVars, minimapVars, searchVars, pointingVars, mapVars>>,
                      part' = "mouse"
               PROVE  MouseInv'
    OBVIOUS
  <2>1. CASE MouseStep
    BY <2>1, MouseGoesOn DEF MouseStep
  <2>2. CASE UNCHANGED <<part, pointingVars>>
    <3>1. MouseInv
      BY <2>2
    <3> QED
      BY <2>2, <3>1 DEF pointingVars, MouseInv, Waits, Mouse!TypeOK, Mouse!mouseToTile
  <2>3. CASE ~MouseStep
    <3>1. UNCHANGED <<part, pointingVars>>
      BY <2>3 DEF Next, FloodStep, MinimapStep, SearchStep, MapStep
    <3> QED
      BY <2>2, <3>1
  <2> QED
    BY <2>1, <2>3
<1>3. Inv => PointingIsRight
  BY MouseInvSuffices DEF PointingIsRight
<1> QED
  BY <1>1, <1>2, <1>3, PTL DEF Spec

\* A set of numbers that is closed under successor, from 0 up to N.
LEMMA UpTo ==
  ASSUME NEW N \in Nat, NEW T, 0 \in T,
         \A n \in 0 .. N - 1 : n \in T => n + 1 \in T
  PROVE  \A n \in 0 .. N : n \in T
<1> DEFINE Bad == {n \in Nat : n <= N /\ n \notin T}
<1>1. ASSUME Bad # {}
      PROVE  FALSE
  <2>1. PICK n \in Bad : \A m \in Bad : n <= m
    <3> HIDE DEF Bad
    <3>1. Bad \in SUBSET Nat
      BY DEF Bad
    <3> QED
      BY <1>1, <3>1, Smallest
  <2>2. n \in Nat /\ n <= N /\ n \notin T /\ n # 0
    BY <2>1
  <2>3. n - 1 \in Nat /\ n - 1 < n /\ n - 1 \in 0 .. N - 1 /\ (n - 1) + 1 = n
    BY <2>2
  <2>4. n - 1 \in T
    <3>1. n - 1 \notin Bad
      BY <2>1, <2>2, <2>3
    <3> QED
      BY <2>2, <2>3, <3>1
  <2> QED
    BY <2>2, <2>3, <2>4
<1> QED
  BY <1>1

-----------------------------------------------------------------------------
(* The searches.  The least cost of a tile is the least there is in the    *)
(* smallest set of ways that has the start and every way that goes on from *)
(* one of its own.                                                         *)

\* The module's own grid is this one.
LEMMA SameGrid ==
  /\ Searching!Tiles = Tiles
  /\ \A t : Searching!Neighbors(t) = Neighbors(t)
  /\ \A a, b : Searching!HexDistance(a, b) = HexDistance(a, b)
<1>1. Searching!Tiles = Tiles
  BY DEF Searching!Tiles, Tiles
<1>2. \A t : Searching!Neighbors(t) = Neighbors(t)
  BY <1>1 DEF Searching!Neighbors, Neighbors
<1>3. \A n : Searching!Magnitude(n) = Magnitude(n)
  BY DEF Searching!Magnitude, Magnitude
<1>4. \A t : Searching!CubeX(t) = CubeX(t)
  BY DEF Searching!CubeX, CubeX
<1>5. \A a, b : Searching!HexDistance(a, b) = HexDistance(a, b)
  BY <1>3, <1>4 DEF Searching!HexDistance, HexDistance
<1> QED
  BY <1>1, <1>2, <1>5

Priced == Tiles \X Nat

Closed(W) ==
  /\ <<search.start, 0>> \in W
  /\ \A way \in W : \A t \in Searching!Onward(way[1]) : <<t, way[2] + MoveCost[t]>> \in W

Ways == {way \in Priced : \A W \in SUBSET Priced : Closed(W) => way \in W}

IsLeast(t, c) == <<t, c>> \in Ways /\ \A d \in Nat : <<t, d>> \in Ways => c <= d

\* The model's parameters.
Searched == world \in Worlds /\ search \in Searches

LEMMA SearchRecord ==
  ASSUME Searched
  PROVE  /\ search.start \in Tiles /\ search.goal \in Tiles /\ search.budget \in Nat
         /\ search.kind \in {"path", "pathWithZoc", "range"}
BY SearchesAssumption, SameGrid DEF Searched, Searching!PathfindingAssumption, Searching!Kind

\* Terrain costs something where one may go.
LEMMA StepsCost ==
  ASSUME Searched, NEW from \in Tiles, NEW t \in Searching!Onward(from)
  PROVE  /\ t \in Tiles /\ t \in Neighbors(from)
         /\ MoveCost[t] \in Nat \ {0}
         /\ Searching!Passable(from, t) /\ ~Searching!StopsAt(from)
<1>1. t \in Neighbors(from) /\ Searching!Passable(from, t) /\ ~Searching!StopsAt(from)
  BY SameGrid DEF Searching!Onward
<1>2. t \in Tiles
  BY <1>1 DEF Neighbors
<1>3. MoveCost[t] \in Nat
  BY <1>2, SearchesAssumption, SameGrid DEF Searching!WorldAssumption
<1>4. MoveCost[t] # 0
  BY <1>1 DEF Searching!Passable, Searching!Blocked
<1> QED
  BY <1>1, <1>2, <1>3, <1>4

\* The ways are closed themselves.
LEMMA WaysAreClosed ==
  ASSUME Searched
  PROVE  Ways \in SUBSET Priced /\ Closed(Ways)
<1>1. Ways \in SUBSET Priced
  BY DEF Ways
<1>2. <<search.start, 0>> \in Ways
  BY SearchRecord DEF Ways, Priced, Closed
<1>3. ASSUME NEW way \in Ways, NEW t \in Searching!Onward(way[1])
      PROVE  <<t, way[2] + MoveCost[t]>> \in Ways
  <2>1. way[1] \in Tiles /\ way[2] \in Nat
    BY <1>1 DEF Priced
  <2>2. <<t, way[2] + MoveCost[t]>> \in Priced
    BY <2>1, StepsCost DEF Priced
  <2>3. ASSUME NEW W \in SUBSET Priced, Closed(W)
        PROVE  <<t, way[2] + MoveCost[t]>> \in W
    <3>1. way \in W
      BY <2>3 DEF Ways
    <3> QED
      BY <2>3, <3>1 DEF Closed
  <2> QED
    BY <2>2, <2>3 DEF Ways
<1> QED
  BY <1>1, <1>2, <1>3 DEF Closed

\* No way but the empty one has no last step.
LEMMA WaysComeFrom ==
  ASSUME Searched, NEW t \in Tiles, NEW c \in Nat, <<t, c>> \in Ways, <<t, c>> # <<search.start, 0>>
  PROVE  \E from \in Tiles, d \in Nat :
           /\ <<from, d>> \in Ways /\ t \in Searching!Onward(from) /\ c = d + MoveCost[t]
<1> SUFFICES ASSUME ~\E from \in Tiles, d \in Nat :
                       /\ <<from, d>> \in Ways /\ t \in Searching!Onward(from)
                       /\ c = d + MoveCost[t]
             PROVE  FALSE
  OBVIOUS
<1> DEFINE W == Ways \ {<<t, c>>}
<1>1. W \in SUBSET Priced
  BY DEF Ways
<1>2. <<search.start, 0>> \in W
  BY WaysAreClosed DEF Closed
<1>3. ASSUME NEW way \in W, NEW n \in Searching!Onward(way[1])
      PROVE  <<n, way[2] + MoveCost[n]>> \in W
  <2>1. way[1] \in Tiles /\ way[2] \in Nat /\ way = <<way[1], way[2]>> /\ way \in Ways
    BY <1>1 DEF Priced
  <2>2. <<n, way[2] + MoveCost[n]>> \in Ways
    BY <2>1, WaysAreClosed DEF Closed
  <2>3. <<n, way[2] + MoveCost[n]>> # <<t, c>>
    BY <2>1
  <2> QED
    BY <2>2, <2>3
<1>4. Closed(W)
  BY <1>2, <1>3 DEF Closed
<1> HIDE DEF W
<1>5. <<t, c>> \in W
  BY <1>1, <1>4 DEF Ways
<1> QED
  BY <1>5 DEF W

LEMMA LeastExists ==
  ASSUME Searched, NEW t, NEW c, <<t, c>> \in Ways
  PROVE  /\ t \in Tiles /\ c \in Nat
         /\ \E d \in Nat : IsLeast(t, d) /\ d <= c
<1>1. t \in Tiles /\ c \in Nat
  BY DEF Ways, Priced
<1> DEFINE T == {d \in Nat : <<t, d>> \in Ways}
<1>2. T \in SUBSET Nat /\ c \in T
  BY <1>1
<1>3. PICK d \in T : \A e \in T : d <= e
  <2> HIDE DEF T
  <2> QED
    BY <1>2, Smallest
<1>4. IsLeast(t, d) /\ d <= c /\ d \in Nat
  BY <1>2, <1>3 DEF IsLeast
<1> QED
  BY <1>1, <1>4

LEMMA LeastIsOne ==
  ASSUME Searched, NEW t, NEW c, NEW d, IsLeast(t, c), IsLeast(t, d)
  PROVE  c = d
<1>1. c \in Nat /\ d \in Nat
  BY DEF IsLeast, Ways, Priced
<1> QED
  BY <1>1 DEF IsLeast

LEMMA StartIsFree ==
  ASSUME Searched
  PROVE  IsLeast(search.start, 0)
BY WaysAreClosed DEF IsLeast, Closed

\* The last step of a cheapest way is one from a cheapest way.
LEMMA LeastComesFrom ==
  ASSUME Searched, NEW t, NEW c, IsLeast(t, c), t # search.start
  PROVE  \E from \in Tiles, d \in Nat :
           /\ IsLeast(from, d) /\ t \in Searching!Onward(from) /\ c = d + MoveCost[t] /\ d < c
<1>1. t \in Tiles /\ c \in Nat /\ <<t, c>> \in Ways
  BY LeastExists DEF IsLeast
<1>2. PICK from \in Tiles, d \in Nat :
        /\ <<from, d>> \in Ways /\ t \in Searching!Onward(from) /\ c = d + MoveCost[t]
  BY <1>1, WaysComeFrom
<1>3. PICK e \in Nat : IsLeast(from, e) /\ e <= d
  BY <1>2, LeastExists
<1>4. MoveCost[t] \in Nat \ {0}
  BY <1>2, StepsCost
<1>5. <<t, e + MoveCost[t]>> \in Ways
  <2> DEFINE way == <<from, e>>
  <2>1. way \in Ways /\ way[1] = from /\ way[2] = e
    BY <1>3 DEF IsLeast
  <2> HIDE DEF way
  <2> QED
    BY <1>2, <2>1, WaysAreClosed DEF Closed
<1>6. c <= e + MoveCost[t]
  BY <1>3, <1>4, <1>5 DEF IsLeast
<1>7. e = d
  BY <1>2, <1>3, <1>4, <1>6
<1> QED
  BY <1>2, <1>3, <1>4, <1>7

\* Neighbours are each another's, and one step apart.
LEMMA NeighborsAreMutual ==
  ASSUME NEW s \in Tiles, NEW t \in Neighbors(s)
  PROVE  t \in Tiles /\ s \in Neighbors(t) /\ t # s /\ HexDistance(s, t) = 1
<1> USE Coordinates
<1>1. t \in Tiles
  BY DEF Neighbors
<1>2. \/ t[1] = s[1] /\ t[2] \in {s[2] - 1, s[2] + 1}
      \/ /\ t[1] \in {s[1] - 1, s[1] + 1}
         /\ t[2] \in {s[2] + Parity(s) - 1, s[2] + Parity(s)}
  BY <1>1, NeighborsInCoordinates
<1>3. \/ s[1] = t[1] /\ s[2] \in {t[2] - 1, t[2] + 1}
      \/ /\ s[1] \in {t[1] - 1, t[1] + 1}
         /\ s[2] \in {t[2] + Parity(t) - 1, t[2] + Parity(t)}
  BY <1>1, <1>2
<1>4. s \in Neighbors(t)
  BY <1>1, <1>3, NeighborsInCoordinates
<1>5. t # s
  BY <1>1, <1>2
<1>6. HexDistance(s, t) <= 1
  <2>1. HexDistance(s, s) <= 0
    BY DistanceInCoordinates DEF InSteps, Magnitude
  <2> QED
    BY <2>1, StepsAreShort, 0 \in Nat, 0 + 1 = 1
<1>7. ~(HexDistance(s, t) <= 0)
  <2>1. CASE t[1] = s[1] /\ t[2] \in {s[2] - 1, s[2] + 1}
    <3>1. Shift(s) = Shift(t) /\ Shift(s) \in Int
      BY <2>1 DEF Shift
    <3>2. Magnitude((s[2] - Shift(s)) - (t[2] - Shift(t))) = 1
      BY <1>1, <2>1, <3>1 DEF Magnitude
    <3>3. ~InSteps((s[2] - Shift(s)) - (t[2] - Shift(t)), s[1] - t[1], 0)
      BY <3>2 DEF InSteps
    <3> QED
      BY <1>1, <3>3, DistanceInCoordinates, 0 \in Nat
  <2>2. CASE t[1] \in {s[1] - 1, s[1] + 1}
    <3>1. Magnitude(s[1] - t[1]) = 1
      BY <1>1, <2>2 DEF Magnitude
    <3>2. ~InSteps((s[2] - Shift(s)) - (t[2] - Shift(t)), s[1] - t[1], 0)
      BY <3>1 DEF InSteps
    <3> QED
      BY <1>1, <3>2, DistanceInCoordinates, 0 \in Nat
  <2> QED
    BY <1>2, <2>1, <2>2
<1>8. HexDistance(s, t) \in Int
  BY <1>1 DEF HexDistance, Magnitude
<1> QED
  BY <1>1, <1>4, <1>5, <1>6, <1>7, <1>8

LEMMA DistanceIsMutual ==
  ASSUME NEW a \in Tiles, NEW b \in Tiles
  PROVE  HexDistance(a, b) \in Nat /\ HexDistance(a, b) = HexDistance(b, a) /\ HexDistance(a, a) = 0
<1> DEFINE dx == CubeX(a) - CubeX(b)
           dz == a[1] - b[1]
<1>1. CubeX(a) \in Int /\ CubeX(b) \in Int /\ a[1] \in Int /\ b[1] \in Int
  BY Coordinates
<1>2. dx \in Int /\ dz \in Int /\ CubeX(b) - CubeX(a) = -dx /\ b[1] - a[1] = -dz
  BY <1>1
<1>3. \A n \in Int : Magnitude(n) \in Nat /\ Magnitude(-n) = Magnitude(n)
  BY DEF Magnitude
<1> HIDE DEF dx, dz
<1>4. dx + dz \in Int /\ (-dx) + (-dz) = -(dx + dz)
  BY <1>2
<1>5. \A m, n, k \in Nat : (m + n + k) \div 2 \in Nat
  OBVIOUS
<1>6. HexDistance(a, b) = (Magnitude(dx) + Magnitude(dx + dz) + Magnitude(dz)) \div 2
  BY DEF HexDistance, dx, dz
<1>7. HexDistance(b, a) = (Magnitude(-dx) + Magnitude((-dx) + (-dz)) + Magnitude(-dz)) \div 2
  BY <1>2 DEF HexDistance
<1>8. HexDistance(a, a) = 0
  BY <1>1 DEF HexDistance, Magnitude
<1> QED
  BY <1>2, <1>3, <1>4, <1>5, <1>6, <1>7, <1>8

Left(t) == Searching!Heuristic(t)

\* What is left to the goal falls by one a step at most.
LEMMA LeftIsConsistent ==
  ASSUME Searched, NEW from \in Tiles
  PROVE  /\ Left(from) \in Nat
         /\ Left(search.goal) = 0
         /\ \A t \in Neighbors(from) : t \in Tiles /\ Left(t) \in Nat /\ Left(from) <= 1 + Left(t)
<1>1. search.goal \in Tiles
  BY SearchRecord
<1>2. \A t : Left(t) = IF search.kind = "range" THEN 0 ELSE HexDistance(t, search.goal)
  BY SameGrid DEF Left, Searching!Heuristic
<1>3. Left(from) \in Nat /\ Left(search.goal) = 0
  BY <1>1, <1>2, DistanceIsMutual
<1>4. ASSUME NEW t \in Neighbors(from)
      PROVE  t \in Tiles /\ Left(t) \in Nat /\ Left(from) <= 1 + Left(t)
  <2>1. t \in Tiles /\ from \in Neighbors(t)
    BY NeighborsAreMutual
  <2> DEFINE n == HexDistance(search.goal, t)
  <2>2. n \in Nat /\ n <= n /\ n = HexDistance(t, search.goal)
    BY <1>1, <2>1, DistanceIsMutual
  <2>3. HexDistance(search.goal, from) <= n + 1
    <3> HIDE DEF n
    <3>1. HexDistance(search.goal, t) <= n
      BY <2>2 DEF n
    <3> QED
      BY <1>1, <2>1, <2>2, <3>1, StepsAreShort
  <2>4. HexDistance(from, search.goal) = HexDistance(search.goal, from) /\ HexDistance(from, search.goal) \in Nat
    BY <1>1, DistanceIsMutual
  <2> HIDE DEF n
  <2> QED
    BY <1>2, <2>1, <2>2, <2>3, <2>4
<1> QED
  BY <1>3, <1>4

LEMMA TilesCounted ==
  /\ IsFiniteSet(Tiles) /\ Cardinality(Tiles) = Rows * Cols
  /\ Rows * Cols \in Nat /\ Rows * Cols - 1 \in Nat
<1> DEFINE R == 0 .. Rows - 1
           C == 0 .. Cols - 1
<1>1. IsFiniteSet(R) /\ Cardinality(R) = Rows
  BY GridAssumption, FS_Interval
<1>2. IsFiniteSet(C) /\ Cardinality(C) = Cols
  BY GridAssumption, FS_Interval
<1>3. IsFiniteSet(R \X C) /\ Cardinality(R \X C) = Cardinality(R) * Cardinality(C)
  <2> HIDE DEF R, C
  <2> QED
    BY <1>1, <1>2, FS_Product
<1>4. Rows * Cols \in Nat
  BY GridAssumption
<1>5. Tiles # {}
  <2>1. <<0, 0>> \in Tiles
    BY GridAssumption DEF Tiles
  <2> QED
    BY <2>1
<1>6. Rows * Cols # 0
  BY <1>1, <1>2, <1>3, <1>5, FS_EmptySet DEF Tiles
<1> QED
  BY <1>1, <1>2, <1>3, <1>4, <1>6 DEF Tiles

\* LeastCosts goes on step by step.
LEMMA LeastCostsStages ==
  ASSUME Searched
  PROVE  \E after :
           /\ after = [n \in 0 .. Rows * Cols - 1 |->
                        IF n = 0 THEN {<<search.start, 0>>} ELSE Searching!Cheapest[Searching!Longer[after[n - 1]]]]
           /\ Searching!LeastCosts = after[Rows * Cols - 1]
<1> DEFINE first == {<<search.start, 0>>}
           Grow(x, n) == Searching!Cheapest[Searching!Longer[x]]
           Good(g, k) == g = [n \in 0 .. k |-> IF n = 0 THEN first ELSE Grow(g[n - 1], n)]
           T == {k \in Nat : \E g : Good(g, k)}
           last == Rows * Cols - 1
<1>1. last \in Nat
  BY TilesCounted
<1> HIDE DEF first, Grow, last
<1>2. 0 \in T
  <2> DEFINE g == [n \in 0 .. 0 |-> first]
  <2>1. Good(g, 0)
    OBVIOUS
  <2> QED
    BY <2>1
<1>3. ASSUME NEW k \in Nat, k \in T
      PROVE  k + 1 \in T
  <2>1. PICK g : Good(g, k)
    BY <1>3
  <2> DEFINE h == [n \in 0 .. k + 1 |-> IF n = k + 1 THEN Grow(g[k], k + 1) ELSE g[n]]
  <2>2. ASSUME NEW n \in 0 .. k + 1
        PROVE  h[n] = IF n = 0 THEN first ELSE Grow(h[n - 1], n)
    <3>1. CASE n = k + 1
      <4>1. h[n] = Grow(g[k], n) /\ h[n - 1] = g[k]
        BY <3>1
      <4> QED
        BY <3>1, <4>1
    <3>2. CASE n # k + 1
      <4>1. n \in 0 .. k /\ h[n] = g[n]
        BY <2>2, <3>2
      <4>2. g[n] = IF n = 0 THEN first ELSE Grow(g[n - 1], n)
        BY <2>1, <4>1
      <4>3. n # 0 => h[n - 1] = g[n - 1]
        BY <4>1
      <4> QED
        BY <4>1, <4>2, <4>3
    <3> QED
      BY <3>1, <3>2
  <2>3. Good(h, k + 1)
    BY <2>2
  <2> HIDE DEF Good, h
  <2>4. (\E u : Good(u, k + 1)) /\ k + 1 \in Nat
    BY <2>3
  <2> QED
    BY <2>4
<1>4. \E g : Good(g, last)
  <2>1. \A n \in 0 .. last - 1 : n \in T => n + 1 \in T
    BY <1>1, <1>3
  <2>2. 0 \in T
    BY <1>2
  <2> HIDE DEF T
  <2>3. \A n \in 0 .. last : n \in T
    BY <1>1, <2>1, <2>2, UpTo
  <2>4. last \in T
    BY <1>1, <2>3
  <2> QED
    BY <2>4 DEF T
<1> DEFINE after == CHOOSE g : Good(g, last)
<1>5. Good(after, last)
  BY <1>4
<1>6. Searching!LeastCosts = after[last]
  BY Zenon DEF Searching!LeastCosts, first, Grow, last
<1> QED
  BY <1>5, <1>6 DEF first, Grow, last

Grown(ways) == Searching!Cheapest[Searching!Longer[ways]]

LEMMA WaysGrow ==
  ASSUME Searched, NEW ways \in SUBSET Priced
  PROVE  \A t, c :
           <<t, c>> \in Grown(ways) <=>
             /\ \/ <<t, c>> \in ways
                \/ \E way \in ways : t \in Searching!Onward(way[1]) /\ c = way[2] + MoveCost[t]
             /\ \A d : \/ <<t, d>> \in ways
                       \/ \E way \in ways :
                            t \in Searching!Onward(way[1]) /\ d = way[2] + MoveCost[t]
                       => c <= d
<1> DEFINE L == ways \cup UNION {{<<t, way[2] + MoveCost[t]>> : t \in Searching!Onward(way[1])} :
                                   way \in ways}
           In(t, c) == \/ <<t, c>> \in ways
                       \/ \E way \in ways :
                            t \in Searching!Onward(way[1]) /\ c = way[2] + MoveCost[t]
<1>1. Searching!Longer[ways] = L
  BY SameGrid DEF Searching!Longer, Priced
<1>2. \A t, c : <<t, c>> \in L <=> In(t, c)
  OBVIOUS
<1>3. L \in SUBSET Priced
  <2> SUFFICES ASSUME NEW way \in ways, NEW t \in Searching!Onward(way[1])
               PROVE  <<t, way[2] + MoveCost[t]>> \in Priced
    OBVIOUS
  <2>1. way[1] \in Tiles /\ way[2] \in Nat
    BY DEF Priced
  <2> QED
    BY <2>1, StepsCost DEF Priced
<1> HIDE DEF L
<1>4. Grown(ways) = {way \in L : \A another \in L : another[1] = way[1] => way[2] <= another[2]}
  <2>1. L \in SUBSET (Searching!Tiles \X Nat)
    BY <1>3, SameGrid DEF Priced
  <2>2. Searching!Cheapest[L] = {way \in L : \A another \in L : another[1] = way[1] => way[2] <= another[2]}
    BY <2>1 DEF Searching!Cheapest
  <2> QED
    BY <1>1, <2>2 DEF Grown
<1>5. ASSUME NEW t, NEW c
      PROVE  <<t, c>> \in Grown(ways) <=> In(t, c) /\ \A d : In(t, d) => c <= d
  <2>1. <<t, c>> \in Grown(ways) <=>
          <<t, c>> \in L /\ \A another \in L : another[1] = t => c <= another[2]
    BY <1>4
  <2>2. \A another \in L : another = <<another[1], another[2]>>
    BY <1>3 DEF Priced
  <2>3. (\A another \in L : another[1] = t => c <= another[2]) <=> \A d : <<t, d>> \in L => c <= d
    BY <2>2
  <2> QED
    BY <1>2, <2>1, <2>3
<1> QED
  BY <1>5

\* A set of ways with one cost for each tile.
Stage(ways) ==
  /\ ways \subseteq Ways
  /\ \A t, c, d : <<t, c>> \in ways /\ <<t, d>> \in ways => c = d

\* The tiles that it has the least cost of.
Settled(ways) == {t \in Tiles : \E c \in Nat : IsLeast(t, c) /\ <<t, c>> \in ways}

Reachable == {t \in Tiles : \E c \in Nat : IsLeast(t, c)}

\* Every round settles one more tile, unless all are settled.
LEMMA StagesGrow ==
  ASSUME Searched, NEW ways, Stage(ways), search.start \in Settled(ways)
  PROVE  /\ Stage(Grown(ways))
         /\ Settled(ways) \subseteq Settled(Grown(ways))
         /\ Settled(ways) # Reachable => \E t \in Settled(Grown(ways)) : t \notin Settled(ways)
<1> DEFINE In(t, c) == \/ <<t, c>> \in ways
                       \/ \E way \in ways :
                            t \in Searching!Onward(way[1]) /\ c = way[2] + MoveCost[t]
<1>1. ways \in SUBSET Priced /\ \A way \in ways : way = <<way[1], way[2]>> /\ way \in Ways
  BY WaysAreClosed DEF Stage, Priced
<1>2. \A t, c : <<t, c>> \in Grown(ways) <=> In(t, c) /\ \A d : In(t, d) => c <= d
  BY <1>1, WaysGrow
<1>3. \A t, c : In(t, c) => <<t, c>> \in Ways
  BY <1>1, WaysAreClosed DEF Closed, Stage
<1>4. \A t, c : <<t, c>> \in Ways => t \in Tiles /\ c \in Nat
  BY DEF Ways, Priced
<1>5. \A t, c : In(t, c) /\ IsLeast(t, c) => <<t, c>> \in Grown(ways)
  BY <1>2, <1>3, <1>4 DEF IsLeast
<1> HIDE DEF In
<1>6. Stage(Grown(ways))
  <2>1. \A way \in Grown(ways) : way = <<way[1], way[2]>>
    <3>1. Grown(ways) \subseteq Searching!Longer[ways]
      <4> DEFINE L == Searching!Longer[ways]
      <4>1. L \in SUBSET (Searching!Tiles \X Nat)
        <5>1. L = ways \cup UNION {{<<t, way[2] + MoveCost[t]>> : t \in Searching!Onward(way[1])} :
                                     way \in ways}
          BY <1>1, SameGrid DEF Searching!Longer, Priced
        <5> HIDE DEF L
        <5> SUFFICES ASSUME NEW way \in ways, NEW t \in Searching!Onward(way[1])
                     PROVE  <<t, way[2] + MoveCost[t]>> \in Priced
          BY <1>1, <5>1, SameGrid DEF Priced
        <5>2. way[1] \in Tiles /\ way[2] \in Nat
          BY <1>1 DEF Priced
        <5> QED
          BY <5>2, StepsCost DEF Priced
      <4> HIDE DEF L
      <4>2. Searching!Cheapest[L] \subseteq L
        BY <4>1 DEF Searching!Cheapest
      <4> QED
        BY <4>2 DEF Grown, L
    <3>2. \A way \in Searching!Longer[ways] : way = <<way[1], way[2]>>
      BY <1>1, SameGrid DEF Searching!Longer, Priced
    <3> QED
      BY <3>1, <3>2
  <2>2. Grown(ways) \subseteq Ways
    BY <1>2, <1>3, <2>1
  <2>3. ASSUME NEW t, NEW c, NEW d, <<t, c>> \in Grown(ways), <<t, d>> \in Grown(ways)
        PROVE  c = d
    <3>1. c \in Nat /\ d \in Nat
      BY <1>4, <2>2, <2>3
    <3>2. c <= d /\ d <= c
      BY <1>2, <2>3
    <3> QED
      BY <3>1, <3>2
  <2> QED
    BY <2>2, <2>3 DEF Stage
<1>7. Settled(ways) \subseteq Settled(Grown(ways))
  BY <1>5 DEF Settled, In
<1>8. ASSUME Settled(ways) # Reachable
      PROVE  \E t \in Settled(Grown(ways)) : t \notin Settled(ways)
  <2> DEFINE T == {c \in Nat : \E t \in Tiles : IsLeast(t, c) /\ t \notin Settled(ways)}
  <2>1. T # {}
    <3>1. Settled(ways) \subseteq Reachable
      BY DEF Settled, Reachable
    <3>2. PICK t \in Reachable : t \notin Settled(ways)
      BY <1>8, <3>1
    <3> QED
      BY <3>2 DEF Reachable
  <2>2. PICK c \in T : \A d \in T : c <= d
    <3> HIDE DEF T
    <3>1. T \in SUBSET Nat
      BY DEF T
    <3> QED
      BY <2>1, <3>1, Smallest
  <2>3. PICK t \in Tiles : IsLeast(t, c) /\ t \notin Settled(ways)
    OBVIOUS
  <2>4. t # search.start
    BY <2>3
  <2>5. PICK from \in Tiles, d \in Nat :
          /\ IsLeast(from, d) /\ t \in Searching!Onward(from) /\ c = d + MoveCost[t] /\ d < c
    BY <2>3, <2>4, LeastComesFrom
  <2>6. d \notin T
    BY <2>2, <2>5
  <2>7. from \in Settled(ways)
    BY <2>5, <2>6
  <2>8. <<from, d>> \in ways
    BY <2>5, <2>7, LeastIsOne DEF Settled
  <2>9. In(t, c)
    BY <2>5, <2>8 DEF In
  <2> QED
    BY <1>5, <2>3, <2>9 DEF Settled
<1> QED
  BY <1>6, <1>7, <1>8

\* The reference is what it is meant to be.
LEMMA LeastCostsAreLeast ==
  ASSUME Searched
  PROVE  Searching!LeastCosts = {way \in Priced : IsLeast(way[1], way[2])}
<1> DEFINE last == Rows * Cols - 1
<1>1. PICK after :
        /\ after = [n \in 0 .. last |->
                     IF n = 0 THEN {<<search.start, 0>>}
                     ELSE Searching!Cheapest[Searching!Longer[after[n - 1]]]]
        /\ Searching!LeastCosts = after[last]
  BY LeastCostsStages
<1>2. last \in Nat
  BY TilesCounted
<1>3. after[0] = {<<search.start, 0>>}
  <2> HIDE DEF last
  <2> QED
    BY <1>1, <1>2
<1>4. \A n \in 0 .. last - 1 : after[n + 1] = Grown(after[n])
  <2> HIDE DEF last
  <2> SUFFICES ASSUME NEW n \in 0 .. last - 1
               PROVE  after[n + 1] = Grown(after[n])
    OBVIOUS
  <2>1. n + 1 \in 0 .. last /\ n + 1 # 0 /\ (n + 1) - 1 = n
    BY <1>2
  <2> QED
    BY <1>1, <2>1 DEF Grown
<1> HIDE DEF last
<1> DEFINE Many(n) == Settled(after[n]) = Reachable \/ Cardinality(Settled(after[n])) >= n + 1
           Fine(n) == Stage(after[n]) /\ search.start \in Settled(after[n]) /\ Many(n)
           Good == {n \in 0 .. last : Fine(n)}
<1>5. \A ways : Settled(ways) \subseteq Reachable /\ Settled(ways) \subseteq Tiles
  BY DEF Settled, Reachable
<1>6. \A ways : IsFiniteSet(Settled(ways)) /\ Cardinality(Settled(ways)) \in Nat
  BY <1>5, TilesCounted, FS_Subset, FS_CardinalityType
<1>7. Fine(0)
  <2>1. IsLeast(search.start, 0) /\ search.start \in Tiles
    BY StartIsFree, SearchRecord
  <2>2. search.start \in Settled(after[0])
    BY <1>3, <2>1 DEF Settled
  <2>3. Stage(after[0])
    BY <1>3, <2>1 DEF Stage, IsLeast
  <2>4. Cardinality(Settled(after[0])) >= 1
    <3>1. Cardinality(Settled(after[0])) # 0
      BY <1>6, <2>2, FS_EmptySet
    <3> QED
      BY <1>6, <3>1
  <2> QED
    BY <2>2, <2>3, <2>4
<1>8. ASSUME NEW n \in 0 .. last - 1, Fine(n)
      PROVE  Fine(n + 1)
  <2> DEFINE S == Settled(after[n])
             U == Settled(after[n + 1])
  <2>1. /\ Stage(after[n + 1]) /\ S \subseteq U
        /\ S # Reachable => \E t \in U : t \notin S
    BY <1>4, <1>8, StagesGrow
  <2>2. /\ IsFiniteSet(S) /\ Cardinality(S) \in Nat /\ S \subseteq Reachable
        /\ IsFiniteSet(U) /\ Cardinality(U) \in Nat /\ U \subseteq Reachable
    BY <1>5, <1>6
  <2>3. CASE S = Reachable
    BY <1>8, <2>1, <2>2, <2>3
  <2>4. CASE S # Reachable
    <3>1. Cardinality(S) >= n + 1
      BY <1>8, <2>4
    <3>2. PICK t \in U : t \notin S
      BY <2>1, <2>4
    <3> HIDE DEF S, U
    <3>3. IsFiniteSet(S \cup {t}) /\ Cardinality(S \cup {t}) = Cardinality(S) + 1
      BY <2>2, <3>2, FS_AddElement
    <3>4. Cardinality(S \cup {t}) <= Cardinality(U)
      BY <2>1, <2>2, <3>2, FS_Subset
    <3>5. Cardinality(U) >= (n + 1) + 1
      BY <2>2, <3>1, <3>3, <3>4
    <3> QED
      BY <1>8, <2>1, <3>5 DEF S, U
  <2> QED
    BY <2>3, <2>4
<1>9. Fine(last)
  <2>1. 0 \in Good
    BY <1>2, <1>7
  <2>2. \A n \in 0 .. last - 1 : n \in Good => n + 1 \in Good
    BY <1>2, <1>8
  <2>3. \A n \in 0 .. last : n \in Good
    <3> HIDE DEF Good
    <3> QED
      BY <1>2, <2>1, <2>2, UpTo
  <2>4. last \in Good
    BY <1>2, <2>3
  <2> QED
    BY <2>4
<1> DEFINE S == Settled(after[last])
<1>10. S = Reachable
  <2>1. CASE Cardinality(S) >= last + 1
    <3>1. IsFiniteSet(S) /\ Cardinality(S) \in Nat /\ S \subseteq Tiles /\ S \subseteq Reachable
      BY <1>5, <1>6
    <3> HIDE DEF S
    <3>2. last + 1 = Cardinality(Tiles) /\ IsFiniteSet(Tiles) /\ Cardinality(Tiles) \in Nat
      BY TilesCounted DEF last
    <3>3. S = Tiles
      <4>1. Cardinality(S) <= Cardinality(Tiles)
        BY <3>1, <3>2, FS_Subset
      <4>2. Cardinality(S) = Cardinality(Tiles)
        BY <1>2, <2>1, <3>1, <3>2, <4>1
      <4> QED
        BY <3>1, <3>2, <4>2, FS_Subset
    <3> QED
      BY <3>1, <3>3 DEF Reachable
  <2> QED
    BY <1>9, <2>1
<1>11. \A way \in after[last] : way \in Priced /\ IsLeast(way[1], way[2])
  <2> SUFFICES ASSUME NEW way \in after[last]
               PROVE  way \in Priced /\ IsLeast(way[1], way[2])
    OBVIOUS
  <2>1. Stage(after[last])
    BY <1>9
  <2>2. way \in Ways /\ way \in Priced /\ way = <<way[1], way[2]>> /\ way[1] \in Tiles
    BY <2>1 DEF Stage, Ways, Priced
  <2>3. PICK d \in Nat : IsLeast(way[1], d)
    BY <2>2, LeastExists
  <2>4. way[1] \in S
    BY <1>10, <2>2, <2>3 DEF Reachable
  <2>5. PICK e \in Nat : IsLeast(way[1], e) /\ <<way[1], e>> \in after[last]
    BY <2>4 DEF Settled
  <2>6. way[2] = e
    BY <2>1, <2>2, <2>5 DEF Stage
  <2> QED
    BY <2>2, <2>5, <2>6
<1>12. ASSUME NEW way \in Priced, IsLeast(way[1], way[2])
       PROVE  way \in after[last]
  <2>1. way = <<way[1], way[2]>> /\ way[1] \in Tiles /\ way[2] \in Nat
    BY DEF Priced
  <2>2. way[1] \in S
    BY <1>10, <1>12, <2>1 DEF Reachable
  <2>3. PICK e \in Nat : IsLeast(way[1], e) /\ <<way[1], e>> \in after[last]
    BY <2>2 DEF Settled
  <2>4. e = way[2]
    BY <1>12, <2>3, LeastIsOne
  <2> QED
    BY <2>1, <2>3, <2>4
<1> QED
  BY <1>1, <1>11, <1>12

\* So the costs of the ways to a tile are at most one cost, the least.
LEMMA CostsToIsLeast ==
  ASSUME Searched
  PROVE  \A t : Searching!CostsTo(t) = {c \in Nat : IsLeast(t, c)}
<1>1. \A way \in Priced : way = <<way[1], way[2]>>
  BY DEF Priced
<1>2. \A t, c : IsLeast(t, c) => <<t, c>> \in Priced /\ c \in Nat
  BY DEF IsLeast, Ways, Priced
<1>3. ASSUME NEW t, NEW c
      PROVE  <<t, c>> \in Searching!LeastCosts <=> IsLeast(t, c)
  <2> DEFINE way == <<t, c>>
  <2>1. way[1] = t /\ way[2] = c
    OBVIOUS
  <2>2. way \in Searching!LeastCosts <=> way \in Priced /\ IsLeast(way[1], way[2])
    <3> HIDE DEF way
    <3> QED
      BY LeastCostsAreLeast
  <2>3. way \in Searching!LeastCosts <=> way \in Priced /\ IsLeast(t, c)
    BY <2>1, <2>2
  <2> QED
    BY <1>2, <2>3
<1>4. \A way \in Searching!LeastCosts : way = <<way[1], way[2]>>
  BY <1>1, LeastCostsAreLeast
<1> QED
  BY <1>2, <1>3, <1>4 DEF Searching!CostsTo

-----------------------------------------------------------------------------
(* What a search knows while it runs. *)

\* What a search of the range may cost.
Afford(c) == search.kind = "range" => c <= search.budget

\* The node of a tile with its present cost.
Entry(t) == <<t, cost[t] + Left(t)>>

Kept ==
  /\ queue \in SUBSET Priced
  /\ DOMAIN cost \in SUBSET Tiles /\ cost \in [DOMAIN cost -> Nat]
  /\ search.start \in DOMAIN cost /\ cost[search.start] = 0
  /\ cameFrom \in [DOMAIN cost \ {search.start} -> DOMAIN cost]

\* Tiles are entered where a way goes on, for what is left of their cost.
CameOnward ==
  \A t \in DOMAIN cameFrom :
    /\ t \in Searching!Onward(cameFrom[t])
    /\ cost[cameFrom[t]] + MoveCost[t] <= cost[t]

QueueIsKnown ==
  \A node \in queue : node[1] \in DOMAIN cost /\ cost[node[1]] + Left(node[1]) <= node[2]

\* Whatever is not queued has been expanded.
Frontier ==
  \A t \in DOMAIN cost :
    \/ Entry(t) \in queue
    \/ \A n \in Searching!Onward(t) :
         Afford(cost[t] + MoveCost[n]) => n \in DOMAIN cost /\ cost[n] <= cost[t] + MoveCost[n]

GoalWaits ==
  (search.kind # "range" /\ ~done) =>
    /\ search.start # search.goal
    /\ search.goal \in DOMAIN cost => Entry(search.goal) \in queue

\* The range is found in the order of the costs, each of them at once.
RangeInOrder ==
  search.kind = "range" =>
    /\ \A node \in queue : node[2] = cost[node[1]]
    /\ \A t \in DOMAIN cameFrom :
         /\ cost[t] = cost[cameFrom[t]] + MoveCost[t]
         /\ cost[t] <= search.budget
         /\ \A node \in queue : cost[cameFrom[t]] <= node[2]

Known == \A t \in DOMAIN cost : <<t, cost[t]>> \in Ways

Answered ==
  Searching!PathIsCheapest /\ Searching!RangeIsExact /\ Searching!PlanIsWalkable

SearchInv ==
  /\ Searched /\ Kept /\ CameOnward /\ QueueIsKnown /\ Frontier /\ GoalWaits
  /\ RangeInOrder /\ Known /\ Answered

\* What is nearer than everything in the queue is known for good.
LEMMA Front ==
  ASSUME SearchInv, NEW t, NEW c, IsLeast(t, c), Afford(c),
         \A node \in queue : c + Left(t) < node[2]
  PROVE  t \in DOMAIN cost /\ cost[t] = c
<1> USE DEF SearchInv
<1> DEFINE Counter(u, d) ==
             /\ IsLeast(u, d) /\ Afford(d) /\ \A node \in queue : d + Left(u) < node[2]
             /\ ~(u \in DOMAIN cost /\ cost[u] = d)
           T == {d \in Nat : \E u \in Tiles : Counter(u, d)}
<1> SUFFICES ASSUME ~(t \in DOMAIN cost /\ cost[t] = c)
             PROVE  FALSE
  OBVIOUS
<1>1. t \in Tiles /\ c \in Nat
  BY LeastExists DEF IsLeast
<1>2. c \in T
  BY <1>1
<1>3. PICK d \in T : \A e \in T : d <= e
  <2>1. T \in SUBSET Nat
    OBVIOUS
  <2> HIDE DEF T
  <2> QED
    BY <1>2, <2>1, Smallest
<1>4. PICK u \in Tiles : Counter(u, d)
  OBVIOUS
<1>5. u # search.start
  BY <1>4, StartIsFree, LeastIsOne DEF Kept
<1>6. PICK from \in Tiles, e \in Nat :
        /\ IsLeast(from, e) /\ u \in Searching!Onward(from) /\ d = e + MoveCost[u] /\ e < d
  BY <1>4, <1>5, LeastComesFrom
<1>7. Left(from) \in Nat /\ Left(u) \in Nat /\ Left(from) <= 1 + Left(u) /\ MoveCost[u] \in Nat \ {0}
  BY <1>6, LeftIsConsistent, StepsCost
<1>8. \A node \in queue : node[2] \in Nat
  BY DEF Kept, Priced
<1>9. Afford(e)
  BY <1>4, <1>6, SearchRecord DEF Afford
<1>10. \A node \in queue : e + Left(from) < node[2]
  <2> SUFFICES ASSUME NEW node \in queue
               PROVE  e + Left(from) < node[2]
    OBVIOUS
  <2>1. d + Left(u) < node[2]
    BY <1>4
  <2> QED
    BY <1>6, <1>7, <1>8, <2>1
<1>11. from \in DOMAIN cost /\ cost[from] = e
  <2>1. ~Counter(from, e)
    <3>1. e \notin T
      BY <1>3, <1>6
    <3> QED
      BY <1>6, <3>1
  <2> QED
    BY <1>6, <1>9, <1>10, <2>1
<1>12. Entry(from) \notin queue
  <2>1. Entry(from)[2] = e + Left(from)
    BY <1>11 DEF Entry
  <2>2. ~(e + Left(from) < e + Left(from))
    BY <1>7
  <2> QED
    BY <1>10, <2>1, <2>2
<1>13. u \in DOMAIN cost /\ cost[u] <= d
  BY <1>4, <1>6, <1>11, <1>12 DEF Frontier
<1>14. d <= cost[u] /\ cost[u] \in Nat
  BY <1>4, <1>13 DEF IsLeast, Known, Kept
<1> QED
  BY <1>4, <1>13, <1>14

-----------------------------------------------------------------------------
(* A step that expands a node. *)

\* The ways depend on what is searched only.
LEMMA SearchStays ==
  ASSUME UNCHANGED <<world, search>>
  PROVE  /\ Searched' = Searched
         /\ \A t : Left(t)' = Left(t)
         /\ \A t : Searching!Onward(t)' = Searching!Onward(t)
         /\ \A from, t : Searching!Passable(from, t)' = Searching!Passable(from, t)
         /\ \A c : Afford(c)' = Afford(c)
         /\ \A t, c : (<<t, c>> \in Ways)' = (<<t, c>> \in Ways)
<1>1. Searched' = Searched
  BY DEF Searched
<1>2. \A t : Left(t)' = Left(t)
  BY DEF Left, Searching!Heuristic
<1>3. /\ \A t : Searching!Onward(t)' = Searching!Onward(t)
      /\ \A from, t : Searching!Passable(from, t)' = Searching!Passable(from, t)
  BY DEF Searching!Onward, Searching!Passable, Searching!StopsAt, Searching!IsInEnemyZoc,
         Searching!EnemiesNear, Searching!BlockedByZoc, Searching!Blocked, Searching!Neighbors,
         Searching!Tiles
<1>4. \A W : Closed(W)' <=> Closed(W)
  BY <1>3 DEF Closed
<1>5. \A t, c : (<<t, c>> \in Ways)' = (<<t, c>> \in Ways)
  BY <1>4 DEF Ways, Priced, Tiles
<1>6. \A c : Afford(c)' = Afford(c)
  BY DEF Afford
<1> QED
  BY <1>1, <1>2, <1>3, <1>5, <1>6

\* The tiles that a node of the queue leads to, each at a cost below any before.
LEMMA ExpandedAre ==
  ASSUME SearchInv, NEW node \in queue
  PROVE  /\ node[1] \in DOMAIN cost /\ node[1] \in Tiles /\ node = <<node[1], node[2]>>
         /\ node[2] \in Nat /\ cost[node[1]] \in Nat /\ cost[node[1]] <= node[2]
         /\ Searching!Expanded(node) =
              {n \in Searching!Onward(node[1]) :
                 /\ n \in DOMAIN cost => cost[node[1]] + MoveCost[n] < cost[n]
                 /\ Afford(cost[node[1]] + MoveCost[n])}
<1> USE DEF SearchInv
<1>1. node[1] \in DOMAIN cost /\ cost[node[1]] + Left(node[1]) <= node[2]
  BY DEF QueueIsKnown
<1>2. node = <<node[1], node[2]>> /\ node[1] \in Tiles /\ node[2] \in Nat /\ cost[node[1]] \in Nat
  BY <1>1 DEF Kept, Priced
<1>3. Left(node[1]) \in Nat
  BY <1>2, LeftIsConsistent
<1>4. ~Searching!Stale(node)
  BY <1>2 DEF Searching!Stale, RangeInOrder
<1>5. \A n : Searching!Improves(node[1], n) <=>
               /\ n \in DOMAIN cost => cost[node[1]] + MoveCost[n] < cost[n]
               /\ Afford(cost[node[1]] + MoveCost[n])
  BY DEF Searching!Improves, Afford
<1>6. Searching!Expanded(node) = {n \in Searching!Onward(node[1]) : Searching!Improves(node[1], n)}
  BY <1>4 DEF Searching!Expanded, Searching!Onward
<1> QED
  BY <1>1, <1>2, <1>3, <1>5, <1>6

LEMMA Expanding ==
  ASSUME SearchInv, ~done, NEW node \in queue, Searching!Top(node), Searching!ExpandTop(node)
  PROVE  SearchInv'
<1> DEFINE t == node[1]
           next == Searching!Expanded(node)
<1> USE DEF SearchInv
<1>1. /\ t \in DOMAIN cost /\ t \in Tiles /\ node = <<t, node[2]>>
      /\ node[2] \in Nat /\ cost[t] \in Nat /\ cost[t] <= node[2]
      /\ \A n : n \in next <=>
           /\ n \in Searching!Onward(t)
           /\ n \in DOMAIN cost => cost[t] + MoveCost[n] < cost[n]
           /\ Afford(cost[t] + MoveCost[n])
  BY ExpandedAre
<1>2. /\ DOMAIN cost' = DOMAIN cost \cup next
      /\ \A n \in next : cost'[n] = cost[t] + MoveCost[n]
      /\ \A n \in DOMAIN cost : n \notin next => cost'[n] = cost[n]
      /\ cost' = [n \in DOMAIN cost' |-> cost'[n]]
  BY DEF Searching!ExpandTop, Searching!Expand
<1>3. /\ DOMAIN cameFrom' = DOMAIN cameFrom \cup next
      /\ \A n \in next : cameFrom'[n] = t
      /\ \A n \in DOMAIN cameFrom : n \notin next => cameFrom'[n] = cameFrom[n]
      /\ cameFrom' = [n \in DOMAIN cameFrom' |-> cameFrom'[n]]
  BY DEF Searching!ExpandTop, Searching!Expand
<1>4. queue' = (queue \ {node}) \cup {<<n, cost'[n] + Left(n)>> : n \in next}
  BY <1>2 DEF Searching!ExpandTop, Searching!Expand, Left
<1>5. UNCHANGED <<world, search, done, answer>> /\ (search.kind # "range" => t # search.goal)
  BY DEF Searching!ExpandTop, Searching!Expand
<1> HIDE DEF next, t
<1>6. /\ search.start \in Tiles /\ search.goal \in Tiles /\ search.budget \in Nat
  BY SearchRecord
<1>7. \A n \in next : /\ n \in Tiles /\ MoveCost[n] \in Nat \ {0} /\ n # t
                      /\ Left(n) \in Nat /\ cost'[n] \in Nat /\ cost'[n] = cost[t] + MoveCost[n]
                      /\ n # search.start
  <2> SUFFICES ASSUME NEW n \in next
               PROVE  /\ n \in Tiles /\ MoveCost[n] \in Nat \ {0} /\ n # t
                      /\ Left(n) \in Nat /\ cost'[n] \in Nat /\ cost'[n] = cost[t] + MoveCost[n]
                      /\ n # search.start
    OBVIOUS
  <2>1. n \in Tiles /\ n \in Neighbors(t) /\ MoveCost[n] \in Nat \ {0}
    BY <1>1, StepsCost
  <2>2. n # t
    BY <1>1, <2>1, NeighborsAreMutual
  <2>3. Left(n) \in Nat
    BY <2>1, LeftIsConsistent
  <2>4. n # search.start
    <3>1. cost[search.start] = 0 /\ search.start \in DOMAIN cost
      BY DEF Kept
    <3>2. n \in DOMAIN cost => cost[t] + MoveCost[n] < cost[n]
      BY <1>1
    <3> QED
      BY <1>1, <2>1, <3>1, <3>2
  <2> QED
    BY <1>1, <1>2, <2>1, <2>2, <2>3, <2>4
<1>8. \A n \in DOMAIN cost : n \in Tiles /\ cost[n] \in Nat /\ n \in DOMAIN cost' /\ cost'[n] \in Nat
                             /\ cost'[n] <= cost[n]
  <2> SUFFICES ASSUME NEW n \in DOMAIN cost
               PROVE  n \in Tiles /\ cost[n] \in Nat /\ n \in DOMAIN cost' /\ cost'[n] \in Nat
                      /\ cost'[n] <= cost[n]
    OBVIOUS
  <2>1. n \in Tiles /\ cost[n] \in Nat
    BY DEF Kept
  <2>2. CASE n \in next
    BY <1>1, <1>2, <1>7, <2>1, <2>2
  <2>3. CASE n \notin next
    BY <1>2, <2>1, <2>3
  <2> QED
    BY <2>2, <2>3
<1>9. cost'[t] = cost[t] /\ cost'[search.start] = 0
  BY <1>1, <1>2, <1>7 DEF Kept
<1>10. /\ Searched'
       /\ \A n : Left(n)' = Left(n)
       /\ \A n : Searching!Onward(n)' = Searching!Onward(n)
       /\ \A c : Afford(c)' = Afford(c)
       /\ \A n, c : (<<n, c>> \in Ways)' = (<<n, c>> \in Ways)
  BY <1>5, SearchStays
<1>11. Kept'
  <2>1. queue' \in SUBSET Priced
    <3>1. \A n \in next : <<n, cost'[n] + Left(n)>> \in Priced
      BY <1>7 DEF Priced
    <3> QED
      BY <1>4, <3>1 DEF Kept
  <2>2. DOMAIN cost' \in SUBSET Tiles /\ cost' \in [DOMAIN cost' -> Nat]
    BY <1>2, <1>7, <1>8
  <2>3. cameFrom' \in [DOMAIN cost' \ {search.start} -> DOMAIN cost']
    <3>1. DOMAIN cameFrom' = DOMAIN cost' \ {search.start}
      BY <1>2, <1>3, <1>7 DEF Kept
    <3>2. \A n \in DOMAIN cameFrom' : cameFrom'[n] \in DOMAIN cost'
      BY <1>1, <1>2, <1>3 DEF Kept
    <3> QED
      BY <1>3, <3>1, <3>2
  <2>4. search.start \in DOMAIN cost'
    BY <1>2 DEF Kept
  <2> QED
    BY <1>5, <1>9, <2>1, <2>2, <2>3, <2>4 DEF Kept, Priced, Tiles
<1>12. CameOnward'
  <2> SUFFICES ASSUME NEW n \in DOMAIN cameFrom'
               PROVE  /\ n \in Searching!Onward(cameFrom'[n])
                      /\ cost'[cameFrom'[n]] + MoveCost[n] <= cost'[n]
    BY <1>10 DEF CameOnward
  <2>1. CASE n \in next
    BY <1>1, <1>3, <1>7, <1>9, <2>1
  <2>2. CASE n \notin next
    <3>1. n \in DOMAIN cameFrom /\ cameFrom'[n] = cameFrom[n]
      BY <1>3, <2>2
    <3>2. n \in DOMAIN cost /\ cameFrom[n] \in DOMAIN cost
      BY <3>1 DEF Kept
    <3>3. n \in Searching!Onward(cameFrom[n]) /\ cost[cameFrom[n]] + MoveCost[n] <= cost[n]
      BY <3>1 DEF CameOnward
    <3>4. cost'[n] = cost[n]
      BY <1>2, <2>2, <3>2
    <3>5. MoveCost[n] \in Nat
      BY <1>8, <3>2, <3>3, StepsCost
    <3>6. /\ cost'[cameFrom[n]] \in Nat /\ cost[cameFrom[n]] \in Nat /\ cost[n] \in Nat
          /\ cost'[cameFrom[n]] <= cost[cameFrom[n]]
      BY <1>8, <3>2
    <3> QED
      BY <3>1, <3>3, <3>4, <3>5, <3>6
  <2> QED
    BY <2>1, <2>2
<1>13. QueueIsKnown'
  <2> SUFFICES ASSUME NEW another \in queue'
               PROVE  another[1] \in DOMAIN cost' /\ cost'[another[1]] + Left(another[1]) <= another[2]
    BY <1>10 DEF QueueIsKnown
  <2>1. CASE another \in queue
    <3>1. /\ another[1] \in DOMAIN cost /\ cost[another[1]] + Left(another[1]) <= another[2]
          /\ another[2] \in Nat
      BY <2>1 DEF QueueIsKnown, Kept, Priced
    <3>2. Left(another[1]) \in Nat
      BY <1>8, <3>1, LeftIsConsistent
    <3> QED
      BY <1>8, <3>1, <3>2
  <2>2. CASE another \notin queue
    <3>1. PICK n \in next : another = <<n, cost'[n] + Left(n)>>
      BY <1>4, <2>2
    <3> QED
      BY <1>2, <1>7, <3>1
  <2> QED
    BY <2>1, <2>2
<1>14. \A n \in next : <<n, cost'[n] + Left(n)>> \in queue'
  BY <1>4
<1>15. \A n : n # t /\ Entry(n) \in queue => Entry(n) \in queue'
  BY <1>1, <1>4 DEF Entry
<1>16. Frontier'
  <2> SUFFICES ASSUME NEW n \in DOMAIN cost'
               PROVE  \/ <<n, cost'[n] + Left(n)>> \in queue'
                      \/ \A k \in Searching!Onward(n) :
                           Afford(cost'[n] + MoveCost[k]) => k \in DOMAIN cost' /\ cost'[k] <= cost'[n] + MoveCost[k]
    BY <1>5, <1>10 DEF Frontier, Entry, Afford
  <2>1. CASE n \in next
    BY <1>14, <2>1
  <2>2. CASE n = t
    <3> SUFFICES ASSUME NEW k \in Searching!Onward(t), Afford(cost[t] + MoveCost[k])
                 PROVE  k \in DOMAIN cost' /\ cost'[k] <= cost[t] + MoveCost[k]
      BY <1>9, <2>2
    <3>1. CASE k \in next
      BY <1>1, <1>2, <1>7, <3>1
    <3>2. CASE k \notin next
      <4>1. k \in DOMAIN cost /\ ~(cost[t] + MoveCost[k] < cost[k])
        BY <1>1, <3>2
      <4>2. MoveCost[k] \in Nat
        BY <1>1, StepsCost
      <4> QED
        BY <1>1, <1>8, <4>1, <4>2
    <3> QED
      BY <3>1, <3>2
  <2>3. CASE n \notin next /\ n # t
    <3>1. n \in DOMAIN cost /\ cost'[n] = cost[n]
      BY <1>2, <2>3
    <3>2. CASE Entry(n) \in queue
      BY <1>15, <2>3, <3>1, <3>2 DEF Entry
    <3>3. CASE Entry(n) \notin queue
      <4> SUFFICES ASSUME NEW k \in Searching!Onward(n), Afford(cost[n] + MoveCost[k])
                   PROVE  k \in DOMAIN cost' /\ cost'[k] <= cost[n] + MoveCost[k]
        BY <3>1
      <4>1. k \in DOMAIN cost /\ cost[k] <= cost[n] + MoveCost[k]
        BY <3>1, <3>3 DEF Frontier
      <4>2. MoveCost[k] \in Nat /\ cost[n] \in Nat
        BY <1>8, <3>1, StepsCost
      <4> QED
        BY <1>8, <4>1, <4>2
    <3> QED
      BY <3>2, <3>3
  <2> QED
    BY <2>1, <2>2, <2>3
<1>17. GoalWaits'
  <2> SUFFICES ASSUME search.kind # "range"
               PROVE  /\ search.start # search.goal
                      /\ search.goal \in DOMAIN cost' =>
                           <<search.goal, cost'[search.goal] + Left(search.goal)>> \in queue'
    <3>1. Left(search.goal)' = Left(search.goal)
      BY <1>5 DEF Left, Searching!Heuristic
    <3> QED
      BY <1>5, <3>1 DEF GoalWaits, Entry
  <2>1. search.start # search.goal /\ (search.goal \in DOMAIN cost => Entry(search.goal) \in queue)
    BY DEF GoalWaits
  <2>2. CASE search.goal \in next
    BY <1>14, <2>1, <2>2
  <2>3. CASE search.goal \notin next
    <3>1. search.goal # t
      BY <1>5
    <3> QED
      BY <1>2, <1>15, <2>1, <2>3, <3>1 DEF Entry
  <2> QED
    BY <2>2, <2>3
<1>18. RangeInOrder'
  <2> SUFFICES ASSUME search.kind = "range"
               PROVE  /\ \A another \in queue' : another[2] = cost'[another[1]]
                      /\ \A n \in DOMAIN cameFrom' :
                           /\ cost'[n] = cost'[cameFrom'[n]] + MoveCost[n]
                           /\ cost'[n] <= search.budget
                           /\ \A another \in queue' : cost'[cameFrom'[n]] <= another[2]
    BY <1>5 DEF RangeInOrder
  <2>1. node[2] = cost[t] /\ \A another \in queue : node[2] <= another[2] /\ another[2] = cost[another[1]]
    BY DEF RangeInOrder, Searching!Top, t
  <2>2. \A n \in DOMAIN cameFrom :
           /\ n \in DOMAIN cost /\ cameFrom[n] \in DOMAIN cost
           /\ cost[n] = cost[cameFrom[n]] + MoveCost[n]
           /\ cost[n] <= search.budget
           /\ cost[cameFrom[n]] <= cost[t]
    BY <2>1 DEF RangeInOrder, Kept
  <2>3. \A n \in next : n \notin DOMAIN cost
    <3> SUFFICES ASSUME NEW n \in next, n \in DOMAIN cost
                 PROVE  FALSE
      OBVIOUS
    <3>1. n \in DOMAIN cameFrom
      BY <1>7 DEF Kept
    <3>2. cost[n] = cost[cameFrom[n]] + MoveCost[n] /\ cost[cameFrom[n]] <= cost[t] /\ cost[cameFrom[n]] \in Nat
      BY <1>8, <2>2, <3>1
    <3>3. cost[t] + MoveCost[n] < cost[n]
      BY <1>1
    <3> QED
      BY <1>1, <1>7, <3>2, <3>3
  <2>4. \A n \in DOMAIN cost : cost'[n] = cost[n]
    BY <1>2, <2>3
  <2>5. \A n \in next : Left(n) = 0
    BY DEF Left, Searching!Heuristic
  <2>6. ASSUME NEW another \in queue'
        PROVE  /\ another[2] = cost'[another[1]] /\ another[2] \in Nat /\ cost[t] <= another[2]
    <3>1. CASE another \in queue
      <4>1. another[1] \in DOMAIN cost /\ another[2] \in Nat
        BY <3>1 DEF QueueIsKnown, Kept, Priced
      <4> QED
        BY <2>1, <2>4, <3>1, <4>1
    <3>2. CASE another \notin queue
      <4>1. PICK n \in next : another = <<n, cost'[n] + Left(n)>>
        BY <1>4, <3>2
      <4>2. another[1] = n /\ another[2] = cost'[n]
        BY <1>7, <2>5, <4>1
      <4> QED
        BY <1>1, <1>7, <4>2
    <3> QED
      BY <3>1, <3>2
  <2>7. ASSUME NEW n \in DOMAIN cameFrom'
        PROVE  /\ cost'[n] = cost'[cameFrom'[n]] + MoveCost[n]
               /\ cost'[n] <= search.budget
               /\ \A another \in queue' : cost'[cameFrom'[n]] <= another[2]
    <3>1. CASE n \in next
      <4>1. cameFrom'[n] = t /\ cost'[t] = cost[t] /\ cost'[n] = cost[t] + MoveCost[n]
        BY <1>3, <1>7, <1>9, <3>1
      <4>2. cost[t] + MoveCost[n] <= search.budget
        BY <1>1, <3>1 DEF Afford
      <4> QED
        BY <2>6, <4>1, <4>2
    <3>2. CASE n \notin next
      <4>1. n \in DOMAIN cameFrom /\ cameFrom'[n] = cameFrom[n]
        BY <1>3, <3>2
      <4>2. /\ n \in DOMAIN cost /\ cameFrom[n] \in DOMAIN cost
            /\ cost[n] = cost[cameFrom[n]] + MoveCost[n]
            /\ cost[n] <= search.budget
            /\ cost[cameFrom[n]] <= cost[t]
        BY <2>2, <4>1
      <4>3. cost'[n] = cost[n] /\ cost'[cameFrom[n]] = cost[cameFrom[n]] /\ cost[cameFrom[n]] \in Nat
        BY <1>8, <2>4, <4>2
      <4>4. \A another \in queue' : cost[cameFrom[n]] <= another[2]
        BY <1>1, <2>6, <4>2, <4>3
      <4> QED
        BY <4>1, <4>2, <4>3, <4>4
    <3> QED
      BY <3>1, <3>2
  <2> QED
    BY <2>6, <2>7
<1>19. Known'
  <2> SUFFICES ASSUME NEW n \in DOMAIN cost'
               PROVE  <<n, cost'[n]>> \in Ways
    <3>1. \A k \in DOMAIN cost' : (<<k, cost'[k]>> \in Ways') = (<<k, cost'[k]>> \in Ways)
      BY <1>10
    <3> QED
      BY <3>1 DEF Known
  <2>1. CASE n \in next
    <3> DEFINE way == <<t, cost[t]>>
    <3>1. way \in Ways /\ way[1] = t /\ way[2] = cost[t]
      BY <1>1 DEF Known
    <3> HIDE DEF way
    <3> QED
      BY <1>1, <1>7, <2>1, <3>1, WaysAreClosed DEF Closed
  <2>2. CASE n \notin next
    BY <1>2, <2>2 DEF Known
  <2> QED
    BY <2>1, <2>2
<1>20. Answered'
  BY <1>5 DEF Answered, Searching!PathIsCheapest, Searching!RangeIsExact, Searching!PlanIsWalkable
<1> QED
  BY <1>10, <1>11, <1>12, <1>13, <1>16, <1>17, <1>18, <1>19, <1>20

\* What there is to be found does not change meanwhile.
LEMMA ReferenceStays ==
  ASSUME UNCHANGED <<world, search>>
  PROVE  Searching!LeastCosts' = Searching!LeastCosts
<1>1. Searching!Longer' = Searching!Longer
  <2>1. \A t : Searching!Onward(t)' = Searching!Onward(t)
    BY SearchStays
  <2> QED
    BY <2>1 DEF Searching!Longer, Searching!Tiles
<1>2. Searching!Cheapest' = Searching!Cheapest
  BY DEF Searching!Cheapest, Searching!Tiles
<1> QED
  BY Zenon, <1>1, <1>2 DEF Searching!LeastCosts

LEMMA OutOfNodes ==
  ASSUME SearchInv, ~done, Searching!Exhausted
  PROVE  SearchInv'
<1> USE DEF SearchInv
<1>1. queue = {} /\ UNCHANGED <<world, search, queue, cost, cameFrom>> /\ done'
  BY DEF Searching!Exhausted
<1>2. answer' = IF search.kind = "range" THEN [t \in DOMAIN cost \ {search.start} |-> cost[t]] ELSE <<>>
  BY DEF Searching!Exhausted
<1>3. \A t, c : IsLeast(t, c) /\ Afford(c) => t \in DOMAIN cost /\ cost[t] = c
  BY <1>1, Front
<1>4. \A t \in DOMAIN cost : t \in Tiles /\ cost[t] \in Nat /\ <<t, cost[t]>> \in Ways
  BY DEF Known, Kept
<1>5. ASSUME search.kind # "range"
      PROVE  search.start # search.goal /\ Searching!CostsTo(search.goal) = {}
  <2>1. search.start # search.goal /\ search.goal \notin DOMAIN cost
    BY <1>1, <1>5 DEF GoalWaits
  <2>2. \A c \in Nat : ~IsLeast(search.goal, c)
    BY <1>3, <1>5, <2>1 DEF Afford
  <2> QED
    BY <2>1, <2>2, CostsToIsLeast
<1>6. Searching!PathIsCheapest'
  <2> SUFFICES ASSUME search.kind # "range"
               PROVE  Searching!PathIsCheapest'
    BY <1>1 DEF Searching!PathIsCheapest
  <2>1. answer' = <<>>
    BY <1>2
  <2>2. Searching!CostsTo(search.goal)' = Searching!CostsTo(search.goal)
    <3>1. Searching!LeastCosts' = Searching!LeastCosts
      BY <1>1, ReferenceStays
    <3> QED
      BY <1>1, <3>1 DEF Searching!CostsTo
  <2> QED
    BY <1>1, <1>5, <2>1, <2>2 DEF Searching!PathIsCheapest
<1>7. Searching!PlanIsWalkable'
  <2> SUFFICES ASSUME search.kind # "range"
               PROVE  Searching!PlanIsWalkable'
    BY <1>1 DEF Searching!PlanIsWalkable
  <2>1. answer' = <<>>
    BY <1>2
  <2>2. DOMAIN answer' = {}
    BY <2>1
  <2> QED
    BY <2>2 DEF Searching!PlanIsWalkable
<1>8. Searching!RangeIsExact'
  <2> SUFFICES ASSUME search.kind = "range"
               PROVE  {<<t, answer'[t]>> : t \in DOMAIN answer'}
                        = {way \in Searching!LeastCosts : way[1] # search.start /\ way[2] <= search.budget}
    <3>1. Searching!LeastCosts' = Searching!LeastCosts
      BY <1>1, ReferenceStays
    <3> QED
      BY <1>1, <3>1 DEF Searching!RangeIsExact
  <2> DEFINE L == {<<t, answer'[t]>> : t \in DOMAIN answer'}
             R == {way \in Searching!LeastCosts : way[1] # search.start /\ way[2] <= search.budget}
  <2>1. DOMAIN answer' = DOMAIN cost \ {search.start} /\ \A t \in DOMAIN answer' : answer'[t] = cost[t]
    BY <1>2
  <2>2. ASSUME NEW way \in R
        PROVE  way \in L
    <3>1. IsLeast(way[1], way[2]) /\ way = <<way[1], way[2]>>
      BY LeastCostsAreLeast DEF Priced
    <3>2. way[1] \in DOMAIN cost /\ cost[way[1]] = way[2]
      BY <1>3, <3>1 DEF Afford
    <3> QED
      BY <2>1, <3>1, <3>2
  <2>3. ASSUME NEW t \in DOMAIN answer'
        PROVE  <<t, answer'[t]>> \in R
    <3>1. t \in DOMAIN cost /\ t # search.start /\ answer'[t] = cost[t]
      BY <2>1
    <3>2. PICK d \in Nat : IsLeast(t, d) /\ d <= cost[t]
      BY <1>4, <3>1, LeastExists
    <3>3. cost[t] <= search.budget
      BY <3>1 DEF RangeInOrder, Kept
    <3>4. cost[t] = d
      <4>1. cost[t] \in Nat /\ search.budget \in Nat
        BY <1>4, <3>1, SearchRecord
      <4>2. d <= search.budget
        BY <3>2, <3>3, <4>1
      <4> QED
        BY <1>3, <3>2, <4>2 DEF Afford
    <3> DEFINE way == <<t, cost[t]>>
    <3>5. way \in Priced /\ way[1] = t /\ way[2] = cost[t]
      BY <1>4, <3>1 DEF Priced
    <3> HIDE DEF way
    <3>6. way \in R
      BY <3>1, <3>2, <3>3, <3>4, <3>5, LeastCostsAreLeast
    <3> QED
      BY <3>1, <3>6 DEF way
  <2> QED
    BY <2>2, <2>3
<1>9. Answered'
  BY <1>6, <1>7, <1>8 DEF Answered
<1>10. /\ Searched'
       /\ \A t : Left(t)' = Left(t)
       /\ \A t : Searching!Onward(t)' = Searching!Onward(t)
       /\ \A c : Afford(c)' = Afford(c)
       /\ \A t, c : (<<t, c>> \in Ways)' = (<<t, c>> \in Ways)
  BY <1>1, SearchStays
<1>11. Kept' /\ CameOnward' /\ QueueIsKnown' /\ Known'
  BY <1>1, <1>10 DEF Kept, CameOnward, QueueIsKnown, Known, Priced, Tiles
<1>12. Frontier' /\ GoalWaits' /\ RangeInOrder'
  BY <1>1, <1>10 DEF Frontier, Entry, GoalWaits, RangeInOrder, Afford
<1> QED
  BY <1>9, <1>10, <1>11, <1>12

\* PathCost adds up tile by tile.
LEMMA PathCostSums ==
  ASSUME NEW path, Len(path) \in Nat
  PROVE  \E after :
           /\ after = [n \in 0 .. Len(path) |->
                        IF n = 0 THEN 0 ELSE after[n - 1] + MoveCost[path[n]]]
           /\ Searching!PathCost(path) = after[Len(path)]
<1> DEFINE first == 0
           Grow(x, n) == x + MoveCost[path[n]]
           Good(g, k) == g = [n \in 0 .. k |-> IF n = 0 THEN first ELSE Grow(g[n - 1], n)]
           T == {k \in Nat : \E g : Good(g, k)}
           last == Len(path)
<1>1. last \in Nat
  OBVIOUS
<1> HIDE DEF first, Grow, last
<1>2. 0 \in T
  <2> DEFINE g == [n \in 0 .. 0 |-> first]
  <2>1. Good(g, 0)
    OBVIOUS
  <2> QED
    BY <2>1
<1>3. ASSUME NEW k \in Nat, k \in T
      PROVE  k + 1 \in T
  <2>1. PICK g : Good(g, k)
    BY <1>3
  <2> DEFINE h == [n \in 0 .. k + 1 |-> IF n = k + 1 THEN Grow(g[k], k + 1) ELSE g[n]]
  <2>2. ASSUME NEW n \in 0 .. k + 1
        PROVE  h[n] = IF n = 0 THEN first ELSE Grow(h[n - 1], n)
    <3>1. CASE n = k + 1
      <4>1. h[n] = Grow(g[k], n) /\ h[n - 1] = g[k]
        BY <3>1
      <4> QED
        BY <3>1, <4>1
    <3>2. CASE n # k + 1
      <4>1. n \in 0 .. k /\ h[n] = g[n]
        BY <2>2, <3>2
      <4>2. g[n] = IF n = 0 THEN first ELSE Grow(g[n - 1], n)
        BY <2>1, <4>1
      <4>3. n # 0 => h[n - 1] = g[n - 1]
        BY <4>1
      <4> QED
        BY <4>1, <4>2, <4>3
    <3> QED
      BY <3>1, <3>2
  <2>3. Good(h, k + 1)
    BY <2>2
  <2> HIDE DEF Good, h
  <2>4. (\E u : Good(u, k + 1)) /\ k + 1 \in Nat
    BY <2>3
  <2> QED
    BY <2>4
<1>4. \E g : Good(g, last)
  <2>1. \A n \in 0 .. last - 1 : n \in T => n + 1 \in T
    BY <1>1, <1>3
  <2>2. 0 \in T
    BY <1>2
  <2> HIDE DEF T
  <2>3. \A n \in 0 .. last : n \in T
    BY <1>1, <2>1, <2>2, UpTo
  <2>4. last \in T
    BY <1>1, <2>3
  <2> QED
    BY <2>4 DEF T
<1> DEFINE after == CHOOSE g : Good(g, last)
<1>5. Good(after, last)
  BY <1>4
<1>6. Searching!PathCost(path) = after[last]
  BY Zenon DEF Searching!PathCost, first, Grow, last
<1> QED
  BY <1>5, <1>6 DEF first, Grow, last

Back ==
  [t \in {search.start} \cup DOMAIN cameFrom |-> IF t = search.start THEN t ELSE cameFrom[t]]

\* ReconstructPath goes back step by step.
LEMMA PathGoesBack ==
 \E after :
           /\ after = [n \in 0 .. Rows * Cols |->
                        IF n = 0 THEN search.goal ELSE Back[after[n - 1]]]
           /\ \E length :
                /\ length = Searching!Min({n \in 0 .. Rows * Cols : after[n] = search.start})
                /\ Searching!ReconstructPath = [n \in 1 .. length |-> after[length - n]]
<1> DEFINE first == search.goal
           Grow(x, n) == Back[x]
           Good(g, k) == g = [n \in 0 .. k |-> IF n = 0 THEN first ELSE Grow(g[n - 1], n)]
           T == {k \in Nat : \E g : Good(g, k)}
           last == Rows * Cols
<1>1. last \in Nat
  BY TilesCounted
<1> HIDE DEF first, Grow, last
<1>2. 0 \in T
  <2> DEFINE g == [n \in 0 .. 0 |-> first]
  <2>1. Good(g, 0)
    OBVIOUS
  <2> QED
    BY <2>1
<1>3. ASSUME NEW k \in Nat, k \in T
      PROVE  k + 1 \in T
  <2>1. PICK g : Good(g, k)
    BY <1>3
  <2> DEFINE h == [n \in 0 .. k + 1 |-> IF n = k + 1 THEN Grow(g[k], k + 1) ELSE g[n]]
  <2>2. ASSUME NEW n \in 0 .. k + 1
        PROVE  h[n] = IF n = 0 THEN first ELSE Grow(h[n - 1], n)
    <3>1. CASE n = k + 1
      <4>1. h[n] = Grow(g[k], n) /\ h[n - 1] = g[k]
        BY <3>1
      <4> QED
        BY <3>1, <4>1
    <3>2. CASE n # k + 1
      <4>1. n \in 0 .. k /\ h[n] = g[n]
        BY <2>2, <3>2
      <4>2. g[n] = IF n = 0 THEN first ELSE Grow(g[n - 1], n)
        BY <2>1, <4>1
      <4>3. n # 0 => h[n - 1] = g[n - 1]
        BY <4>1
      <4> QED
        BY <4>1, <4>2, <4>3
    <3> QED
      BY <3>1, <3>2
  <2>3. Good(h, k + 1)
    BY <2>2
  <2> HIDE DEF Good, h
  <2>4. (\E u : Good(u, k + 1)) /\ k + 1 \in Nat
    BY <2>3
  <2> QED
    BY <2>4
<1>4. \E g : Good(g, last)
  <2>1. \A n \in 0 .. last - 1 : n \in T => n + 1 \in T
    BY <1>1, <1>3
  <2>2. 0 \in T
    BY <1>2
  <2> HIDE DEF T
  <2>3. \A n \in 0 .. last : n \in T
    BY <1>1, <2>1, <2>2, UpTo
  <2>4. last \in T
    BY <1>1, <2>3
  <2> QED
    BY <2>4 DEF T
<1> DEFINE after == CHOOSE g : Good(g, last)
<1>5. Good(after, last)
  BY <1>4
<1> DEFINE length == Searching!Min({n \in 0 .. last : after[n] = search.start})
<1>6. Searching!ReconstructPath = [n \in 1 .. length |-> after[length - n]]
  BY Zenon DEF Searching!ReconstructPath, first, Grow, last, Back
<1> DEFINE Is(i) == /\ i = Searching!Min({n \in 0 .. last : after[n] = search.start})
                    /\ Searching!ReconstructPath = [n \in 1 .. i |-> after[i - n]]
<1>7. \E i : Is(i)
  <2>1. Is(length)
    BY <1>6
  <2> HIDE DEF Is
  <2> QED
    BY <2>1
<1> QED
  BY <1>5, <1>7 DEF first, Grow, last

Before(path, i) == IF i = 1 THEN search.start ELSE path[i - 1]

\* A way from the start to the goal whose steps cost what is left for them.
IsWay(path, length) ==
  /\ length \in Nat \ {0} /\ path \in [1 .. length -> DOMAIN cost] /\ path[length] = search.goal
  /\ Len(path) = length /\ DOMAIN path = 1 .. length
  /\ \A i \in 1 .. length :
       /\ Before(path, i) \in DOMAIN cost
       /\ path[i] \in Searching!Onward(Before(path, i))
       /\ cost[Before(path, i)] + MoveCost[path[i]] <= cost[path[i]]

\* Going back from a tile, the cost falls every time; so no tile comes twice,
\* and within as many steps as there are tiles comes the start.
LEMMA StartIsReached ==
  ASSUME SearchInv, search.goal \in DOMAIN cost, search.goal # search.start
  PROVE  \E length : IsWay(Searching!ReconstructPath, length)
<1> USE DEF SearchInv
<1> DEFINE last == Rows * Cols
           start == search.start
           D == DOMAIN cost
<1>1. last \in Nat
  BY TilesCounted
<1>2. start \in D /\ D \in SUBSET Tiles /\ \A t \in D : cost[t] \in Nat
  BY DEF Kept
<1>3. DOMAIN cameFrom = D \ {start} /\ \A t \in D \ {start} : cameFrom[t] \in D
  BY DEF Kept
<1>4. Back \in [D -> D] /\ \A t \in D \ {start} : Back[t] = cameFrom[t]
  BY <1>2, <1>3 DEF Back
<1>5. ASSUME NEW t \in D, t # start
      PROVE  /\ Back[t] \in D /\ t \in Searching!Onward(Back[t])
             /\ cost[Back[t]] + MoveCost[t] <= cost[t]
             /\ cost[Back[t]] < cost[t]
  <2>1. Back[t] = cameFrom[t] /\ t \in DOMAIN cameFrom /\ Back[t] \in D
    BY <1>3, <1>4, <1>5
  <2>2. t \in Searching!Onward(Back[t]) /\ cost[Back[t]] + MoveCost[t] <= cost[t]
    BY <2>1 DEF CameOnward
  <2>3. MoveCost[t] \in Nat \ {0}
    BY <1>2, <2>1, <2>2, StepsCost
  <2> QED
    BY <1>2, <2>1, <2>2, <2>3
<1>6. PICK back :
        /\ back = [n \in 0 .. last |-> IF n = 0 THEN search.goal ELSE Back[back[n - 1]]]
        /\ \E length :
             /\ length = Searching!Min({n \in 0 .. last : back[n] = start})
             /\ Searching!ReconstructPath = [n \in 1 .. length |-> back[length - n]]
  BY PathGoesBack
<1> HIDE DEF last, D, start
<1>7. DOMAIN back = 0 .. last /\ back[0] = search.goal
  BY <1>1, <1>6
<1>8. \A n \in 0 .. last - 1 : back[n + 1] = Back[back[n]]
  <2> SUFFICES ASSUME NEW n \in 0 .. last - 1
               PROVE  back[n + 1] = Back[back[n]]
    OBVIOUS
  <2>1. n + 1 \in 0 .. last /\ n + 1 # 0 /\ (n + 1) - 1 = n
    BY <1>1
  <2> QED
    BY <1>6, <2>1
<1>9. \A n \in 0 .. last : back[n] \in D
  <2> DEFINE T == {n \in 0 .. last : back[n] \in D}
  <2>1. 0 \in T
    BY <1>1, <1>7 DEF D
  <2>2. \A n \in 0 .. last - 1 : n \in T => n + 1 \in T
    BY <1>1, <1>4, <1>8
  <2>3. \A n \in 0 .. last : n \in T
    <3> HIDE DEF T
    <3> QED
      BY <1>1, <2>1, <2>2, UpTo
  <2> QED
    BY <2>3
<1> DEFINE S == {n \in 0 .. last : back[n] = start}
<1>10. S # {}
  <2> SUFFICES ASSUME \A n \in 0 .. last : back[n] # start
               PROVE  FALSE
    OBVIOUS
  <2> DEFINE T == {n \in 0 .. last : \A k \in 0 .. last : k < n => cost[back[n]] < cost[back[k]]}
  <2>1. 0 \in T
    BY <1>1
  <2>2. ASSUME NEW n \in 0 .. last - 1, n \in T
        PROVE  n + 1 \in T
    <3>1. n \in 0 .. last /\ n + 1 \in 0 .. last
      BY <1>1
    <3>2. cost[back[n + 1]] < cost[back[n]]
      BY <1>5, <1>8, <1>9, <3>1
    <3>3. ASSUME NEW k \in 0 .. last, k < n + 1
          PROVE  cost[back[n + 1]] < cost[back[k]]
      <4>1. cost[back[n + 1]] \in Nat /\ cost[back[n]] \in Nat /\ cost[back[k]] \in Nat
        BY <1>2, <1>9, <3>1
      <4>2. k = n \/ k < n
        BY <1>1, <3>3
      <4>3. k < n => cost[back[n]] < cost[back[k]]
        BY <2>2
      <4> QED
        BY <3>2, <4>1, <4>2, <4>3
    <3> QED
      BY <3>1, <3>3
  <2>3. \A n \in 0 .. last : n \in T
    <3> HIDE DEF T
    <3> QED
      BY <1>1, <2>1, <2>2, UpTo
  <2>4. PICK x, y \in 0 .. last : x # y /\ back[x] = back[y]
    <3> DEFINE I == 0 .. last
    <3>1. IsFiniteSet(I) /\ Cardinality(I) = last + 1
      BY <1>1, FS_Interval
    <3>2. back \in [I -> Tiles]
      BY <1>2, <1>6, <1>7, <1>9
    <3>3. IsFiniteSet(Tiles) /\ Cardinality(Tiles) < Cardinality(I)
      BY <1>1, <3>1, TilesCounted DEF last
    <3> HIDE DEF I
    <3>4. \E x, y \in I : x # y /\ back[x] = back[y]
      BY <3>1, <3>2, <3>3, FS_PigeonHole
    <3> QED
      BY <3>4 DEF I
  <2>5. cost[back[x]] \in Nat /\ x \in Int /\ y \in Int
    BY <1>1, <1>2, <1>9
  <2>6. x < y \/ y < x
    BY <2>4, <2>5
  <2> QED
    BY <2>3, <2>4, <2>5, <2>6
<1>11. PICK length :
         /\ length = Searching!Min(S)
         /\ Searching!ReconstructPath = [n \in 1 .. length |-> back[length - n]]
  BY <1>6
<1>12. length \in S /\ \A n \in S : length <= n
  <2>1. S \in SUBSET Nat
    BY <1>1
  <2> HIDE DEF S
  <2>2. PICK n \in S : \A m \in S : n <= m
    BY <1>10, <2>1, Smallest
  <2> QED
    BY <1>11, <2>2 DEF Searching!Min
<1> DEFINE path == Searching!ReconstructPath
<1>13. /\ length \in Nat \ {0} /\ length <= last /\ back[length] = start
       /\ \A n \in 0 .. length - 1 : n \in 0 .. last /\ n \notin S
  <2>1. length \in 0 .. last /\ back[length] = start
    BY <1>12
  <2>2. length # 0
    BY <1>7, <2>1 DEF start
  <2>3. \A n \in 0 .. length - 1 : n \in 0 .. last /\ ~(length <= n)
    BY <1>1, <2>1
  <2> HIDE DEF S
  <2> QED
    BY <1>1, <1>12, <2>1, <2>2, <2>3
<1>14. \A i \in 1 .. length : path[i] = back[length - i] /\ length - i \in 0 .. length - 1
  <2>1. \A i \in 1 .. length : length - i \in 0 .. length - 1
    BY <1>13
  <2> QED
    BY <1>11, <2>1
<1>15. \A i \in 1 .. length : path[i] \in D /\ path[i] # start
  BY <1>9, <1>13, <1>14
<1>16. path \in [1 .. length -> D] /\ DOMAIN path = 1 .. length /\ Len(path) = length
  <2>1. path \in [1 .. length -> D] /\ DOMAIN path = 1 .. length
    BY <1>11, <1>15
  <2> HIDE DEF path
  <2>2. path \in Seq(D)
    BY <1>13, <2>1
  <2> QED
    BY <1>13, <2>1, <2>2
<1>17. path[length] = search.goal
  <2>1. length \in 1 .. length /\ length - length = 0
    BY <1>13
  <2> QED
    BY <1>7, <1>14, <2>1
<1>18. ASSUME NEW i \in 1 .. length
       PROVE  Before(path, i) = Back[path[i]]
  <2>1. /\ length - i \in 0 .. last - 1 /\ path[i] = back[length - i]
        /\ back[(length - i) + 1] = Back[path[i]]
    <3>1. length - i \in 0 .. last - 1
      BY <1>1, <1>13
    <3> QED
      BY <1>8, <1>14, <3>1
  <2>2. CASE i = 1
    <3>1. (length - i) + 1 = length
      BY <1>13, <2>2
    <3> QED
      BY <1>13, <2>1, <2>2, <3>1 DEF Before, start
  <2>3. CASE i # 1
    <3>1. i - 1 \in 1 .. length /\ length - (i - 1) = (length - i) + 1
      BY <1>13, <2>3
    <3>2. path[i - 1] = back[(length - i) + 1]
      BY <1>14, <3>1
    <3> QED
      BY <2>1, <2>3, <3>2 DEF Before
  <2> QED
    BY <2>2, <2>3
<1> HIDE DEF path
<1>19. \A i \in 1 .. length :
         /\ Before(path, i) \in D
         /\ path[i] \in Searching!Onward(Before(path, i))
         /\ cost[Before(path, i)] + MoveCost[path[i]] <= cost[path[i]]
  BY <1>5, <1>15, <1>18
<1>20. IsWay(path, length)
  BY <1>13, <1>16, <1>17, <1>19 DEF IsWay, D
<1> QED
  BY <1>20 DEF path

\* What a way costs, a way does cost; and no more than its end is given.
LEMMA WayCosts ==
  ASSUME SearchInv, NEW path, NEW length, IsWay(path, length)
  PROVE  /\ <<search.goal, Searching!PathCost(path)>> \in Ways
         /\ Searching!PathCost(path) <= cost[search.goal]
<1> USE DEF SearchInv
<1>1. /\ length \in Nat \ {0} /\ Len(path) = length /\ path[length] = search.goal
      /\ \A i \in 1 .. length :
           /\ path[i] \in DOMAIN cost /\ Before(path, i) \in DOMAIN cost
           /\ path[i] \in Searching!Onward(Before(path, i))
           /\ cost[Before(path, i)] + MoveCost[path[i]] <= cost[path[i]]
  BY DEF IsWay
<1>2. PICK sum :
        /\ sum = [n \in 0 .. length |-> IF n = 0 THEN 0 ELSE sum[n - 1] + MoveCost[path[n]]]
        /\ Searching!PathCost(path) = sum[length]
  BY <1>1, PathCostSums
<1>3. /\ sum[0] = 0
      /\ \A n \in 0 .. length - 1 : sum[n + 1] = sum[n] + MoveCost[path[n + 1]]
  <2>1. sum[0] = 0
    BY <1>1, <1>2
  <2>2. ASSUME NEW n \in 0 .. length - 1
        PROVE  sum[n + 1] = sum[n] + MoveCost[path[n + 1]]
    <3>1. n + 1 \in 0 .. length /\ n + 1 # 0 /\ (n + 1) - 1 = n
      BY <1>1
    <3> QED
      BY <1>2, <3>1
  <2> QED
    BY <2>1, <2>2
<1> DEFINE At(n) == Before(path, n + 1)
           T == {n \in 0 .. length : <<At(n), sum[n]>> \in Ways /\ sum[n] <= cost[At(n)]}
<1>4. 0 \in T
  <2>1. At(0) = search.start
    BY DEF Before
  <2>2. <<search.start, 0>> \in Ways /\ cost[search.start] = 0
    BY WaysAreClosed DEF Closed, Kept
  <2> QED
    BY <1>1, <1>3, <2>1, <2>2
<1>5. ASSUME NEW n \in 0 .. length - 1, n \in T
      PROVE  n + 1 \in T
  <2> DEFINE i == n + 1
  <2>1. i \in 1 .. length /\ i \in 0 .. length /\ i + 1 # 1 /\ (i + 1) - 1 = i
    BY <1>1
  <2>2. At(i) = path[i] /\ At(n) = Before(path, i)
    BY <2>1 DEF Before
  <2>3. /\ path[i] \in Searching!Onward(Before(path, i)) /\ Before(path, i) \in DOMAIN cost
        /\ cost[Before(path, i)] + MoveCost[path[i]] <= cost[path[i]]
        /\ path[i] \in DOMAIN cost
    BY <1>1, <2>1
  <2>4. <<At(n), sum[n]>> \in Ways /\ sum[n] <= cost[At(n)]
    BY <1>5
  <2>5. sum[i] = sum[n] + MoveCost[path[i]]
    BY <1>3
  <2> HIDE DEF At, i
  <2>6. cost[At(n)] \in Nat /\ cost[path[i]] \in Nat /\ At(n) \in Tiles
    BY <2>2, <2>3 DEF Kept
  <2>7. MoveCost[path[i]] \in Nat
    BY <2>2, <2>3, <2>6, StepsCost
  <2>8. sum[n] \in Nat
    BY <2>4 DEF Ways, Priced
  <2> DEFINE way == <<At(n), sum[n]>>
  <2>9. way \in Ways /\ way[1] = At(n) /\ way[2] = sum[n]
    BY <2>4
  <2>10. <<path[i], sum[n] + MoveCost[path[i]]>> \in Ways
    <3> HIDE DEF way
    <3> QED
      BY <2>2, <2>3, <2>9, WaysAreClosed DEF Closed
  <2>11. sum[i] <= cost[path[i]]
    BY <2>2, <2>3, <2>4, <2>5, <2>6, <2>7, <2>8
  <2>12. i \in T
    BY <2>1, <2>2, <2>5, <2>10, <2>11
  <2> QED
    BY <2>12 DEF i
<1>6. length \in T
  <2> HIDE DEF T
  <2>1. \A n \in 0 .. length : n \in T
    BY <1>1, <1>4, <1>5, UpTo
  <2>2. length \in 0 .. length
    BY <1>1
  <2> QED
    BY <2>1, <2>2
<1>7. At(length) = search.goal
  <2>1. length + 1 # 1 /\ (length + 1) - 1 = length
    BY <1>1
  <2> QED
    BY <1>1, <2>1 DEF Before
<1> QED
  BY <1>2, <1>6, <1>7

\* A step of a plan is one that MoveAction accepts: standing elsewhere, the unit
\* is no enemy of itself.
LEMMA PlanStep ==
  ASSUME Searched, search.kind = "pathWithZoc", NEW from \in Tiles,
         NEW t \in Searching!Onward(from), MoveCost[t] <= Searching!UnitAt(world, 1).moves
  PROVE  Searching!ValidMove(Searching!RestedUnitOn(from), 1, t)
<1> DEFINE walker == world.order[1]
           f == search.faction
           u == world.unit[walker]
           rested == Searching!RestedUnitOn(from)
<1>1. /\ Searching!Sound(world) /\ Searching!Living(world) /\ world.order # <<>>
      /\ u.faction = f /\ f \in Factions
  BY SearchesAssumption DEF Searched, Searching!PathfindingAssumption, Searching!UnitAt
<1>2. world = [order |-> world.order, unit |-> world.unit, registry |-> world.registry, town |-> world.town]
  BY <1>1 DEF Searching!Sound, Searching!Fields
<1>3. world.order \in Seq(Pointers) /\ 1 \in DOMAIN world.order
  <2>1. world.order \in Seq(Pointers)
    BY <1>1 DEF Searching!Sound, Searching!WorldShape
  <2> DEFINE o == world.order
  <2>2. o \in Seq(Pointers) /\ o # <<>>
    BY <1>1, <2>1
  <2> HIDE DEF o
  <2>3. 1 \in DOMAIN o
    BY <2>2
  <2> QED
    BY <2>1, <2>3 DEF o
<1>4. walker \in DOMAIN world.unit /\ u \in Searching!Units /\ world.unit \in [DOMAIN world.unit -> Searching!Units]
  BY <1>1, <1>3 DEF Searching!Sound, Searching!WorldShape, Searching!VectorExact, Searching!Range
<1>5. \A n \in Tiles : world.registry[n] \in SUBSET DOMAIN world.unit
  BY <1>1, SameGrid DEF Searching!Sound, Searching!RegistryExact
<1>6. /\ rested.order = world.order
      /\ rested.unit = [world.unit EXCEPT ![walker].tile = from]
      /\ rested.registry = [n \in Searching!Tiles |->
                              IF n = from THEN world.registry[n] \cup {walker}
                              ELSE world.registry[n] \ {walker}]
  BY <1>2 DEF Searching!RestedUnitOn
<1>7. /\ rested.order = world.order
      /\ rested.unit = [world.unit EXCEPT ![walker] = [u EXCEPT !.tile = from]]
      /\ rested.registry = [n \in Tiles |-> IF n = from THEN world.registry[n] \cup {walker}
                                            ELSE world.registry[n] \ {walker}]
  BY <1>6, SameGrid
<1> HIDE DEF rested
<1>8. rested.unit[walker] = [u EXCEPT !.tile = from]
  BY <1>4, <1>7
<1>9. /\ rested.unit[walker].tile = from /\ rested.unit[walker].health = u.health
      /\ rested.unit[walker].moves = u.moves /\ rested.unit[walker].faction = f
  BY <1>1, <1>4, <1>8 DEF Searching!Units
<1>10. \A x : Searching!EnemiesNear(rested, x, f) \subseteq Searching!EnemiesNear(world, x, f)
  <2> SUFFICES ASSUME NEW x, NEW g \in Factions, <<f, g>> \in AtWar,
                      NEW n \in Neighbors(x), NEW p \in rested.registry[n],
                      rested.unit[p].faction = g
               PROVE  \E k \in Neighbors(x) : \E q \in world.registry[k] : world.unit[q].faction = g
    BY SameGrid DEF Searching!EnemiesNear
  <2>1. f # g
    BY <1>1, SearchesAssumption DEF Searching!WorldAssumption
  <2>2. p # walker
    BY <1>9, <2>1
  <2>3. n \in Tiles
    BY DEF Neighbors
  <2>4. p \in world.registry[n]
    BY <1>7, <2>2, <2>3
  <2>5. p \in DOMAIN world.unit
    BY <1>5, <2>3, <2>4
  <2>6. rested.unit[p] = world.unit[p]
    BY <1>7, <2>2, <2>5
  <2> QED
    BY <2>4, <2>6
<1>11. /\ t \in Tiles /\ MoveCost[t] \in Nat \ {0} /\ HexDistance(from, t) = 1
       /\ Searching!Passable(from, t)
  BY StepsCost, NeighborsAreMutual
<1>12. ~Searching!BlockedByZoc(rested, from, t, f)
  <2>1. ~Searching!BlockedByZoc(world, from, t, f)
    BY <1>11 DEF Searching!Passable
  <2> QED
    BY <1>10, <2>1 DEF Searching!BlockedByZoc
<1>13. Searching!Alive(rested.unit[walker])
  BY <1>1, <1>4, <1>9 DEF Searching!Living, Searching!Alive
<1>14. u.moves \in Nat /\ MoveCost[t] <= u.moves
  BY <1>4 DEF Searching!Units, Searching!UnitAt
<1>15. u.moves > 0 /\ u.moves >= MoveCost[t] /\ MoveCost[t] # 0
  BY <1>11, <1>14
<1>16. Searching!HexDistance(from, t) = 1
  BY <1>11, SameGrid
<1>17. Searching!UnitAt(rested, 1) = rested.unit[walker] /\ 1 \in Searching!Indices(rested)
  BY <1>3, <1>7 DEF Searching!UnitAt, Searching!Indices
<1> QED
  BY <1>9, <1>11, <1>12, <1>13, <1>15, <1>16, <1>17 DEF Searching!ValidMove, rested

-----------------------------------------------------------------------------
(* A search that finds its goal, and one that begins. *)

LEMMA Finding ==
  ASSUME SearchInv, ~done, NEW node \in queue, Searching!Top(node), Searching!FoundGoal(node)
  PROVE  SearchInv'
<1> USE DEF SearchInv
<1> DEFINE goal == search.goal
           path == Searching!ReconstructPath
<1>1. /\ search.kind # "range" /\ node[1] = goal /\ done' /\ answer' = path
      /\ UNCHANGED <<world, search, queue, cost, cameFrom>>
  BY DEF Searching!FoundGoal
<1>2. goal \in DOMAIN cost /\ cost[goal] + Left(goal) <= node[2]
  BY <1>1 DEF QueueIsKnown
<1>3. goal \in Tiles /\ cost[goal] \in Nat /\ Left(goal) = 0 /\ node[2] \in Nat
  BY <1>2, SearchRecord, LeftIsConsistent DEF Kept, Priced
<1>4. goal # search.start /\ <<goal, cost[goal] + Left(goal)>> \in queue
  BY <1>1, <1>2 DEF GoalWaits, Entry
<1>5. \A another \in queue : cost[goal] <= another[2] /\ another[2] \in Nat
  BY <1>2, <1>3 DEF Searching!Top, Kept, Priced
<1>6. IsLeast(goal, cost[goal])
  <2>1. <<goal, cost[goal]>> \in Ways
    BY <1>2 DEF Known
  <2>2. PICK d \in Nat : IsLeast(goal, d) /\ d <= cost[goal]
    BY <2>1, LeastExists
  <2>3. d = cost[goal]
    <3> SUFFICES ASSUME d < cost[goal]
                 PROVE  FALSE
      BY <1>3, <2>2
    <3>1. \A another \in queue : d + Left(goal) < another[2]
      BY <1>3, <1>5
    <3>2. cost[goal] = d
      BY <1>1, <2>2, <3>1, Front DEF Afford
    <3> QED
      BY <3>2, <2>2
  <2> QED
    BY <2>2, <2>3
<1>7. PICK length : IsWay(path, length)
  BY <1>2, <1>4, StartIsReached
<1>8. <<goal, Searching!PathCost(path)>> \in Ways /\ Searching!PathCost(path) <= cost[goal]
  BY <1>7, WayCosts
<1> HIDE DEF path
<1>9. Searching!PathCost(path) = cost[goal]
  <2>1. Searching!PathCost(path) \in Nat
    BY <1>8 DEF Ways, Priced
  <2> QED
    BY <1>3, <1>6, <1>8, <2>1 DEF IsLeast
<1>10. Searching!CostsTo(goal) = {cost[goal]}
  BY <1>3, <1>6, CostsToIsLeast, LeastIsOne
<1>11. /\ DOMAIN path = 1 .. length /\ Len(path) = length /\ length \in Nat \ {0}
       /\ path[length] = goal /\ path # <<>>
       /\ \A i \in DOMAIN path :
            /\ Before(path, i) \in Tiles
            /\ path[i] \in Searching!Onward(Before(path, i))
            /\ Searching!Passable(Before(path, i), path[i])
  <2>1. /\ DOMAIN path = 1 .. length /\ Len(path) = length /\ length \in Nat \ {0}
        /\ path[length] = goal
    BY <1>7 DEF IsWay
  <2>2. path # <<>>
    BY <2>1
  <2>3. \A i \in DOMAIN path :
          /\ Before(path, i) \in Tiles
          /\ path[i] \in Searching!Onward(Before(path, i))
    BY <1>7, <2>1 DEF IsWay, Kept
  <2> QED
    BY <2>1, <2>2, <2>3, StepsCost
<1>12. /\ Searched'
       /\ \A t : Left(t)' = Left(t)
       /\ \A t : Searching!Onward(t)' = Searching!Onward(t)
       /\ \A from, t : Searching!Passable(from, t)' = Searching!Passable(from, t)
       /\ \A c : Afford(c)' = Afford(c)
       /\ \A t, c : (<<t, c>> \in Ways)' = (<<t, c>> \in Ways)
  BY <1>1, SearchStays
<1>13. Searching!PathIsCheapest'
  <2>1. Searching!LeastCosts' = Searching!LeastCosts
    BY <1>1, ReferenceStays
  <2>2. Searching!CostsTo(search.goal)' = {Searching!PathCost(path)}
    BY <1>1, <1>9, <1>10, <2>1 DEF Searching!CostsTo
  <2>3. Searching!PathCost(answer)' = Searching!PathCost(path)
    BY <1>1, Zenon DEF Searching!PathCost
  <2>4. answer'[Len(answer')] = search.goal /\ answer' # <<>>
    BY <1>1, <1>11
  <2>5. \A i \in DOMAIN path :
          Searching!Passable(IF i = 1 THEN search.start ELSE path[i - 1], path[i])
    BY <1>11 DEF Before
  <2>6. \A i \in DOMAIN answer' :
          Searching!Passable(IF i = 1 THEN search.start ELSE answer[i - 1], answer[i])'
    BY <1>1, <1>12, <2>5 DEF Searching!Passable, Searching!Blocked, Searching!BlockedByZoc,
       Searching!EnemiesNear
  <2> QED
    BY <1>1, <2>2, <2>3, <2>4, <2>6 DEF Searching!PathIsCheapest
<1>14. Searching!PlanIsWalkable'
  <2> SUFFICES ASSUME search.kind = "pathWithZoc"
               PROVE  \A i \in DOMAIN path :
                        MoveCost[path[i]] <= Searching!UnitAt(world, 1).moves =>
                          Searching!ValidMove(
                            Searching!RestedUnitOn(IF i = 1 THEN search.start ELSE path[i - 1]),
                            1, path[i])
    BY <1>1 DEF Searching!PlanIsWalkable, Searching!RestedUnitOn, Searching!UnitAt
  <2>1. \A i \in DOMAIN path :
          MoveCost[path[i]] <= Searching!UnitAt(world, 1).moves =>
            Searching!ValidMove(Searching!RestedUnitOn(Before(path, i)), 1, path[i])
    BY <1>11, PlanStep
  <2> QED
    BY <2>1 DEF Before
<1>15. Answered'
  BY <1>1, <1>13, <1>14 DEF Answered, Searching!RangeIsExact
<1>16. Kept' /\ CameOnward' /\ QueueIsKnown' /\ Known'
  BY <1>1, <1>12 DEF Kept, CameOnward, QueueIsKnown, Known, Priced, Tiles
<1>17. Frontier' /\ GoalWaits' /\ RangeInOrder'
  BY <1>1, <1>12 DEF Frontier, Entry, GoalWaits, RangeInOrder, Afford
<1> QED
  BY <1>12, <1>15, <1>16, <1>17

LEMMA SearchBegins ==
  ASSUME Searching!Init
  PROVE  SearchInv
<1> DEFINE start == search.start
<1>1. /\ Searched /\ queue = {<<start, Left(start)>>} /\ cost = [t \in {start} |-> 0]
      /\ cameFrom = [t \in {} |-> t] /\ answer = <<>>
      /\ done = (search.kind # "range" /\ (start = search.goal \/ Searching!Blocked(search.goal)))
  BY DEF Searching!Init, Searched, Left
<1>2. /\ start \in Tiles /\ Left(start) \in Nat /\ DOMAIN cost = {start} /\ cost[start] = 0
      /\ DOMAIN cameFrom = {}
  BY <1>1, SearchRecord, LeftIsConsistent
<1>3. <<start, 0>> \in Ways
  BY <1>1, WaysAreClosed DEF Closed
<1>4. Entry(start) \in queue
  BY <1>1, <1>2 DEF Entry
<1>5. search.kind = "range" => Left(start) = 0
  BY DEF Left, Searching!Heuristic
<1> HIDE DEF start
<1>6. Kept
  BY <1>1, <1>2 DEF Kept, Priced, start
<1>7. CameOnward /\ QueueIsKnown /\ Frontier /\ Known
  BY <1>1, <1>2, <1>3, <1>4 DEF CameOnward, QueueIsKnown, Frontier, Known
<1>8. GoalWaits /\ RangeInOrder
  <2>1. search.kind # "range" /\ ~done => start # search.goal
    BY <1>1, Zenon
  <2>2. GoalWaits
    BY <1>2, <2>1 DEF GoalWaits, start
  <2>3. RangeInOrder
    BY <1>1, <1>2, <1>5 DEF RangeInOrder
  <2> QED
    BY <2>2, <2>3
<1>9. Answered
  <2>1. ASSUME done, search.kind # "range", start # search.goal
        PROVE  Searching!CostsTo(search.goal) = {}
    <3>1. \A c \in Nat : ~IsLeast(search.goal, c)
      <4> SUFFICES ASSUME NEW c \in Nat, IsLeast(search.goal, c)
                   PROVE  FALSE
        OBVIOUS
      <4>1. PICK from \in Tiles, d \in Nat : search.goal \in Searching!Onward(from)
        BY <1>1, <2>1, LeastComesFrom DEF start
      <4>2. ~Searching!Blocked(search.goal)
        BY <1>1, <4>1, StepsCost DEF Searching!Passable
      <4> QED
        BY <1>1, <2>1, <4>2
    <3> QED
      BY <1>1, <3>1, CostsToIsLeast
  <2>2. Searching!PathIsCheapest
    BY <1>1, <2>1 DEF Searching!PathIsCheapest, start
  <2>3. DOMAIN answer = {}
    BY <1>1
  <2>4. Searching!PlanIsWalkable
    BY <2>3 DEF Searching!PlanIsWalkable
  <2>5. Searching!RangeIsExact
    BY <1>1 DEF Searching!RangeIsExact
  <2> QED
    BY <2>2, <2>4, <2>5 DEF Answered
<1> QED
  BY <1>1, <1>6, <1>7, <1>8, <1>9 DEF SearchInv

LEMMA SearchGoesOn ==
  ASSUME SearchInv, Searching!Next
  PROVE  SearchInv'
<1>1. ~done
  BY DEF Searching!Next
<1>2. CASE Searching!Exhausted
  BY <1>1, <1>2, OutOfNodes
<1>3. ASSUME NEW node \in queue, Searching!Top(node), Searching!FoundGoal(node)
      PROVE  SearchInv'
  BY <1>1, <1>3, Finding
<1>4. ASSUME NEW node \in queue, Searching!Top(node), Searching!ExpandTop(node)
      PROVE  SearchInv'
  BY <1>1, <1>4, Expanding
<1> QED
  BY <1>2, <1>3, <1>4 DEF Searching!Next

LEMMA SearchWaits ==
  ASSUME SearchInv, UNCHANGED searchVars
  PROVE  SearchInv'
<1> USE DEF SearchInv, searchVars
<1>1. /\ Searched'
      /\ \A t : Left(t)' = Left(t)
      /\ \A t : Searching!Onward(t)' = Searching!Onward(t)
      /\ \A from, t : Searching!Passable(from, t)' = Searching!Passable(from, t)
      /\ \A c : Afford(c)' = Afford(c)
      /\ \A t, c : (<<t, c>> \in Ways)' = (<<t, c>> \in Ways)
  BY SearchStays
<1>2. Kept' /\ CameOnward' /\ QueueIsKnown' /\ Known'
  BY <1>1 DEF Kept, CameOnward, QueueIsKnown, Known, Priced, Tiles
<1>3. Frontier' /\ GoalWaits' /\ RangeInOrder'
  BY <1>1 DEF Frontier, Entry, GoalWaits, RangeInOrder, Afford
<1>4. Searching!LeastCosts' = Searching!LeastCosts
  BY ReferenceStays
<1>5. Searching!PathIsCheapest'
  <2>1. Searching!CostsTo(search.goal)' = Searching!CostsTo(search.goal)
    BY <1>4 DEF Searching!CostsTo
  <2>2. Searching!PathCost(answer)' = Searching!PathCost(answer)
    BY Zenon DEF Searching!PathCost
  <2>3. (\A i \in DOMAIN answer :
           Searching!Passable(IF i = 1 THEN search.start ELSE answer[i - 1], answer[i]))'
        <=> (\A i \in DOMAIN answer :
               Searching!Passable(IF i = 1 THEN search.start ELSE answer[i - 1], answer[i]))
    BY <1>1 DEF Searching!Passable, Searching!Blocked, Searching!BlockedByZoc,
       Searching!EnemiesNear
  <2> QED
    BY <2>1, <2>2, <2>3 DEF Answered, Searching!PathIsCheapest
<1>6. Searching!RangeIsExact'
  BY <1>4 DEF Answered, Searching!RangeIsExact
<1>7. Searching!PlanIsWalkable'
  BY DEF Answered, Searching!PlanIsWalkable, Searching!RestedUnitOn, Searching!UnitAt
<1> QED
  BY <1>1, <1>2, <1>3, <1>5, <1>6, <1>7 DEF Answered

LEMMA SearchInvSuffices == SearchInv => Searching!SearchIsRight
<1> SUFFICES ASSUME SearchInv
             PROVE  Searching!SearchIsRight
  OBVIOUS
<1> USE DEF SearchInv
<1>1. Searching!TypeOK
  BY SearchRecord, SameGrid DEF Kept, Priced, Searching!TypeOK, Searching!Kind
<1>2. Searching!WaysLeadBack
  <2> SUFFICES ASSUME NEW t \in DOMAIN cameFrom
               PROVE  /\ cameFrom[t] \in DOMAIN cost
                      /\ t \in Searching!Neighbors(cameFrom[t])
                      /\ Searching!Passable(cameFrom[t], t)
                      /\ cost[cameFrom[t]] + MoveCost[t] <= cost[t]
    BY DEF Searching!WaysLeadBack
  <2>1. cameFrom[t] \in DOMAIN cost /\ cameFrom[t] \in Tiles
    BY DEF Kept
  <2>2. t \in Searching!Onward(cameFrom[t]) /\ cost[cameFrom[t]] + MoveCost[t] <= cost[t]
    BY DEF CameOnward
  <2> QED
    BY <2>1, <2>2, StepsCost, SameGrid
<1>3. Searching!NothingGoesStale
  <2> SUFFICES ASSUME NEW node \in queue
               PROVE  ~Searching!Stale(node)
    BY DEF Searching!NothingGoesStale
  <2>1. node[2] \in Nat
    BY DEF Kept, Priced
  <2> QED
    BY <2>1 DEF Searching!Stale, RangeInOrder
<1> QED
  BY <1>1, <1>2, <1>3 DEF Answered, Searching!SearchIsRight

\* Whatever the map, the worlds and the searches, findPath and findPathWithZoc
\* return a cheapest way if there is one, computeMovementRange exactly the tiles
\* in range, and MoveAction accepts the steps of a plan.
THEOREM SearchesAlwaysRight == Spec => []SearchesAreRight
<1> DEFINE Inv == part = "search" => SearchInv
<1>1. Init => Inv
  BY SearchBegins DEF Init
<1>2. Inv /\ [Next]_<<part, floodVars, minimapVars, searchVars, pointingVars, mapVars>> => Inv'
  <2> SUFFICES ASSUME Inv, [Next]_<<part, floodVars, minimapVars, searchVars, pointingVars, mapVars>>,
                      part' = "search"
               PROVE  SearchInv'
    OBVIOUS
  <2>1. CASE SearchStep
    BY <2>1, SearchGoesOn DEF SearchStep
  <2>2. CASE UNCHANGED <<part, searchVars>>
    BY <2>2, SearchWaits
  <2>3. CASE ~SearchStep
    <3>1. UNCHANGED <<part, searchVars>>
      BY <2>3 DEF Next, FloodStep, MinimapStep, MouseStep, MapStep
    <3> QED
      BY <2>2, <3>1
  <2> QED
    BY <2>1, <2>3
<1>3. Inv => SearchesAreRight
  BY SearchInvSuffices DEF SearchesAreRight
<1> QED
  BY <1>1, <1>2, <1>3, PTL DEF Spec

=============================================================================
