-------------------------- MODULE TerrainMapProofs -------------------------
(***************************************************************************)
(* Proofs about the map part of MCAlgorithms, for maps of any sizes, any   *)
(* noise, whatever the random device gives and any number of factions: the *)
(* generator's terrain, its smoothing and its spawns, the demo river, and  *)
(* what a save keeps.                                                      *)
(***************************************************************************)
EXTENDS GeometryProofs, Sequences

-----------------------------------------------------------------------------
(* Numbers. *)

\* The module's Cardinality is the one that the library's theorems are about.
LEMMA CountsAgree == \A S : Maps!Cardinality(S) = Cardinality(S)
BY DEF Maps!Cardinality, Cardinality

\* The least of a set of integers that are bounded from below,
LEMMA LeastOfBounded ==
  ASSUME NEW T \in SUBSET Int, T # {}, NEW b \in Int, \A x \in T : b <= x
  PROVE  Maps!Min(T) \in T /\ \A x \in T : Maps!Min(T) <= x
<1> DEFINE above == {x - b : x \in T}
<1>1. above \in SUBSET Nat /\ above # {}
  <2>1. \A x \in T : x - b \in Nat
    OBVIOUS
  <2> QED
    BY <2>1
<1>2. PICK n \in above : \A m \in above : n <= m
  <2> HIDE DEF above
  <2> QED
    BY <1>1, Smallest
<1>3. PICK x \in T : n = x - b
  BY <1>2
<1>4. \A y \in T : x <= y
  <2> SUFFICES ASSUME NEW y \in T
               PROVE  x <= y
    OBVIOUS
  <2>1. y - b \in above
    OBVIOUS
  <2>2. x - b <= y - b
    BY <1>2, <1>3, <2>1
  <2> QED
    BY <2>2
<1>5. \E z \in T : \A y \in T : z <= y
  BY <1>4
<1> QED
  BY <1>5 DEF Maps!Min

\* and the greatest of some that are bounded from above.
LEMMA GreatestOfBounded ==
  ASSUME NEW T \in SUBSET Int, T # {}, NEW b \in Int, \A x \in T : x <= b
  PROVE  Maps!Max(T) \in T /\ \A x \in T : Maps!Max(T) >= x
<1> DEFINE below == {b - x : x \in T}
<1>1. below \in SUBSET Nat /\ below # {}
  <2>1. \A x \in T : b - x \in Nat
    OBVIOUS
  <2>2. \E x \in T : b - x \in below
    OBVIOUS
  <2> QED
    BY <2>1, <2>2
<1>2. PICK n \in below : \A m \in below : n <= m
  <2> HIDE DEF below
  <2> QED
    BY <1>1, Smallest
<1>3. PICK x \in T : n = b - x
  BY <1>2
<1>4. \A y \in T : x >= y
  <2> SUFFICES ASSUME NEW y \in T
               PROVE  x >= y
    OBVIOUS
  <2>1. b - y \in below
    OBVIOUS
  <2>2. b - x <= b - y
    BY <1>2, <1>3, <2>1
  <2> QED
    BY <2>2
<1>5. \E z \in T : \A y \in T : z >= y
  BY <1>4
<1> QED
  BY <1>5 DEF Maps!Max

\* The distance that spawns are kept at: no difference of coordinates is
\* greater, and one of them is as great.
LEMMA ChebyshevIs ==
  ASSUME NEW s \in Points, NEW t \in Points
  PROVE  /\ Maps!Chebyshev(s, t) \in Nat
         /\ \A n \in Int : Maps!Chebyshev(s, t) <= n <=>
              s[1] - t[1] <= n /\ t[1] - s[1] <= n /\ s[2] - t[2] <= n /\ t[2] - s[2] <= n
<1> DEFINE diffs == {s[1] - t[1], t[1] - s[1], s[2] - t[2], t[2] - s[2]}
           b == (IF s[1] <= t[1] THEN t[1] - s[1] ELSE s[1] - t[1])
                + (IF s[2] <= t[2] THEN t[2] - s[2] ELSE s[2] - t[2])
           far == Maps!Chebyshev(s, t)
<1>1. s[1] \in Int /\ s[2] \in Int /\ t[1] \in Int /\ t[2] \in Int
  BY DEF Points
<1>2. diffs \in SUBSET Int /\ diffs # {}
  BY <1>1
<1>3. b \in Int /\ \A x \in diffs : x <= b
  BY <1>1
<1>4. far = Maps!Max(diffs)
  BY DEF Maps!Chebyshev
<1>5. far \in diffs /\ \A x \in diffs : far >= x
  <2> HIDE DEF diffs, b, far
  <2> QED
    BY <1>2, <1>3, <1>4, GreatestOfBounded
<1>6. far \in Nat /\ (\A x \in diffs : far >= x) /\ far \in diffs
  <2>1. far \in Int /\ far >= s[1] - t[1] /\ far >= t[1] - s[1]
    <3> HIDE DEF far
    <3> QED
      BY <1>1, <1>5
  <2> HIDE DEF far
  <2> QED
    BY <1>1, <1>5, <2>1
<1>7. ASSUME NEW n \in Int
      PROVE  far <= n <=> (\A x \in diffs : x <= n)
  <2> HIDE DEF far, diffs
  <2> QED
    BY <1>2, <1>6
<1>8. \A n \in Int : far <= n <=>
        s[1] - t[1] <= n /\ t[1] - s[1] <= n /\ s[2] - t[2] <= n /\ t[2] - s[2] <= n
  <2> HIDE DEF far
  <2> QED
    BY <1>7
<1> QED
  BY <1>6, <1>8, Zenon

LEMMA ChebyshevIsMetric ==
  ASSUME NEW s \in Points, NEW t \in Points
  PROVE  /\ Maps!Chebyshev(s, t) = Maps!Chebyshev(t, s)
         /\ Maps!Chebyshev(s, t) = 0 <=> s = t
         /\ \A u \in Points : Maps!Chebyshev(s, t) <= Maps!Chebyshev(s, u) + Maps!Chebyshev(u, t)
<1>1. \A x, y \in Points :
        /\ x[1] \in Int /\ x[2] \in Int
        /\ Maps!Chebyshev(x, y) \in Nat
        /\ \A n \in Int : Maps!Chebyshev(x, y) <= n <=>
             x[1] - y[1] <= n /\ y[1] - x[1] <= n /\ x[2] - y[2] <= n /\ y[2] - x[2] <= n
  BY ChebyshevIs DEF Points
<1>2. Maps!Chebyshev(s, t) <= Maps!Chebyshev(t, s) /\ Maps!Chebyshev(t, s) <= Maps!Chebyshev(s, t)
  BY <1>1
<1>3. Maps!Chebyshev(s, t) = Maps!Chebyshev(t, s)
  BY <1>1, <1>2
<1>4. Maps!Chebyshev(s, t) = 0 <=> s = t
  <2>1. Maps!Chebyshev(s, t) = 0 <=> Maps!Chebyshev(s, t) <= 0
    BY <1>1
  <2>2. Maps!Chebyshev(s, t) <= 0 <=> s[1] = t[1] /\ s[2] = t[2]
    BY <1>1
  <2>3. s = t <=> s[1] = t[1] /\ s[2] = t[2]
    BY DEF Points
  <2> QED
    BY <2>1, <2>2, <2>3
<1>5. ASSUME NEW u \in Points
      PROVE  Maps!Chebyshev(s, t) <= Maps!Chebyshev(s, u) + Maps!Chebyshev(u, t)
  <2> DEFINE a == Maps!Chebyshev(s, u)
             c == Maps!Chebyshev(u, t)
  <2>1. a \in Nat /\ c \in Nat /\ a <= a /\ c <= c
    BY <1>1
  <2>2. s[1] - u[1] <= a /\ u[1] - s[1] <= a /\ s[2] - u[2] <= a /\ u[2] - s[2] <= a
    BY <1>1, <2>1
  <2>3. u[1] - t[1] <= c /\ t[1] - u[1] <= c /\ u[2] - t[2] <= c /\ t[2] - u[2] <= c
    BY <1>1, <2>1
  <2> HIDE DEF a, c
  <2>4. s[1] - t[1] <= a + c /\ t[1] - s[1] <= a + c /\ s[2] - t[2] <= a + c /\ t[2] - s[2] <= a + c
    BY <1>1, <2>1, <2>2, <2>3
  <2>5. a + c \in Int
    BY <2>1
  <2> QED
    BY <1>1, <2>4, <2>5 DEF a, c
<1> QED
  BY <1>3, <1>4, <1>5

-----------------------------------------------------------------------------
(* Spawns: the greedy choice. *)

\* Of some candidates, one for which the measure is least, if it is bounded.
LEMMA OneOfTheLeast ==
  ASSUME NEW S \in SUBSET (Nat \X Nat), S # {}, NEW measure \in [S -> Int],
         NEW b \in Int, \A t \in S : b <= measure[t]
  PROVE  /\ Maps!FirstInRows(Maps!Least(S, measure)) \in S
         /\ \A u \in S : measure[Maps!FirstInRows(Maps!Least(S, measure))] <= measure[u]
<1> DEFINE values == {measure[t] : t \in S}
           least == Maps!Least(S, measure)
<1>1. values \in SUBSET Int /\ values # {} /\ \A x \in values : b <= x
  OBVIOUS
<1>2. Maps!Min(values) \in values /\ \A x \in values : Maps!Min(values) <= x
  <2> HIDE DEF values
  <2> QED
    BY <1>1, LeastOfBounded
<1>3. PICK t \in S : measure[t] = Maps!Min(values)
  BY <1>2
<1>4. t \in least
  BY <1>2, <1>3 DEF Maps!Least
<1>5. least \in SUBSET (Nat \X Nat) /\ least # {}
  BY <1>4 DEF Maps!Least
<1>6. \E x \in least : \A u \in least : x[1] < u[1] \/ (x[1] = u[1] /\ x[2] <= u[2])
  <2> HIDE DEF least
  <2> QED
    BY <1>5, FirstOfRows
<1>7. Maps!FirstInRows(least) \in least
  <2> HIDE DEF least
  <2> QED
    BY <1>6 DEF Maps!FirstInRows
<1> QED
  BY <1>7 DEF Maps!Least

\* A set of tiles that spawns are chosen from, on a map of any size.
Choice(C) == \E h, w \in Nat : C \subseteq (0 .. h) \X (0 .. w)

LEMMA ChoiceIsOfPoints == \A C : Choice(C) => C \subseteq Points
BY DEF Choice, Points

\* How far a tile is from the nearest of what was found.
LEMMA NearestOfFound ==
  ASSUME NEW n \in Nat \ {0}, NEW found \in [1 .. n -> Points], NEW t \in Points
  PROVE  LET near == Maps!Min({Maps!Chebyshev(t, found[k]) : k \in DOMAIN found})
         IN  /\ near \in Nat
             /\ \E i \in 1 .. n : near = Maps!Chebyshev(t, found[i])
             /\ \A h \in 1 .. n : near <= Maps!Chebyshev(t, found[h])
<1> DEFINE dists == {Maps!Chebyshev(t, found[k]) : k \in DOMAIN found}
<1>1. \A k \in 1 .. n : Maps!Chebyshev(t, found[k]) \in Nat
  BY ChebyshevIs
<1>2. Maps!Chebyshev(t, found[1]) \in dists
  OBVIOUS
<1>3. dists \in SUBSET Int /\ dists # {} /\ \A x \in dists : 0 <= x
  BY <1>1, <1>2
<1>4. Maps!Min(dists) \in dists /\ \A x \in dists : Maps!Min(dists) <= x
  <2> HIDE DEF dists
  <2>1. 0 \in Int
    OBVIOUS
  <2> QED
    BY <1>3, <2>1, LeastOfBounded
<1> QED
  BY <1>1, <1>4

\* The next spawn is one of the candidates, and none of them is farther from
\* the nearest of those found.
LEMMA NextIsFarthest ==
  ASSUME NEW C, Choice(C), C # {}, NEW n \in Nat \ {0}, NEW found \in [1 .. n -> C]
  PROVE  /\ Maps!NextSpawn(C, found) \in C
         /\ \A t \in C : \E i \in 1 .. n : \A h \in 1 .. n :
              Maps!Chebyshev(t, found[i]) <= Maps!Chebyshev(Maps!NextSpawn(C, found), found[h])
<1> DEFINE Near(t) == Maps!Min({Maps!Chebyshev(t, found[k]) : k \in DOMAIN found})
           measure == [t \in C |-> -Near(t)]
           next == Maps!NextSpawn(C, found)
<1>1. PICK h, w \in Nat : C \subseteq (0 .. h) \X (0 .. w)
  BY DEF Choice
<1>2. C \in SUBSET (Nat \X Nat) /\ C \subseteq Points
  BY <1>1 DEF Points
<1>3. ASSUME NEW t \in C
      PROVE  /\ Near(t) \in Nat
             /\ \E i \in 1 .. n : Near(t) = Maps!Chebyshev(t, found[i])
             /\ \A k \in 1 .. n : Near(t) <= Maps!Chebyshev(t, found[k])
  <2>1. found \in [1 .. n -> Points] /\ t \in Points
    BY <1>2
  <2> QED
    BY <2>1, NearestOfFound
<1>4. ASSUME NEW t \in C
      PROVE  -(h + w) <= -Near(t)
  <2>1. PICK i \in 1 .. n : Near(t) = Maps!Chebyshev(t, found[i])
    BY <1>3
  <2>2. found[i] \in C /\ t \in Points /\ found[i] \in Points
    BY <1>2
  <2> DEFINE o == found[i]
  <2>3. /\ t[1] \in 0 .. h /\ t[2] \in 0 .. w /\ o[1] \in 0 .. h /\ o[2] \in 0 .. w
    BY <1>1, <2>2
  <2> HIDE DEF o
  <2>4. t[1] - o[1] <= h + w /\ o[1] - t[1] <= h + w /\ t[2] - o[2] <= h + w /\ o[2] - t[2] <= h + w
    <3>1. \A a, c \in 0 .. h : a - c <= h + w
      OBVIOUS
    <3>2. \A a, c \in 0 .. w : a - c <= h + w
      OBVIOUS
    <3> QED
      BY <2>3, <3>1, <3>2
  <2>5. Maps!Chebyshev(t, found[i]) <= h + w
    BY <2>2, <2>4, ChebyshevIs DEF o
  <2>6. Near(t) <= h + w
    BY <2>1, <2>5, Zenon
  <2> HIDE DEF Near
  <2> QED
    BY <1>3, <2>6
<1>5. \A t \in C : Near(t) \in Nat /\ -(h + w) <= -Near(t)
  BY <1>3, <1>4
<1>6. measure \in [C -> Int] /\ -(h + w) \in Int /\ \A t \in C : -(h + w) <= measure[t]
  <2> HIDE DEF Near
  <2> QED
    BY <1>5
<1>7. next = Maps!FirstInRows(Maps!Least(C, measure))
  BY DEF Maps!NextSpawn
<1>8. next \in C /\ \A u \in C : measure[next] <= measure[u]
  <2> HIDE DEF measure, next
  <2> QED
    BY <1>2, <1>6, <1>7, OneOfTheLeast
<1>9. \A t \in C : Near(t) <= Near(next)
  <2> SUFFICES ASSUME NEW t \in C
               PROVE  Near(t) <= Near(next)
    OBVIOUS
  <2>1. measure[next] = -Near(next) /\ measure[t] = -Near(t) /\ measure[next] <= measure[t]
    BY <1>8
  <2>2. Near(next) \in Nat /\ Near(t) \in Nat
    BY <1>5, <1>8
  <2> HIDE DEF Near, measure, next
  <2> QED
    BY <2>1, <2>2
<1>10. ASSUME NEW t \in C
       PROVE  \E i \in 1 .. n : \A k \in 1 .. n :
                Maps!Chebyshev(t, found[i]) <= Maps!Chebyshev(next, found[k])
  <2>1. PICK i \in 1 .. n : Near(t) = Maps!Chebyshev(t, found[i])
    BY <1>3
  <2>2. \A k \in 1 .. n : Near(next) <= Maps!Chebyshev(next, found[k])
    BY <1>3, <1>8
  <2>3. Near(t) <= Near(next) /\ Near(t) \in Nat /\ Near(next) \in Nat
    BY <1>5, <1>8, <1>9
  <2>4. \A k \in 1 .. n : Maps!Chebyshev(next, found[k]) \in Nat
    <3>1. \A k \in 1 .. n : found[k] \in Points /\ next \in Points
      BY <1>2, <1>8
    <3> QED
      BY <3>1, ChebyshevIs
  <2> HIDE DEF Near, next
  <2>5. \A k \in 1 .. n : Maps!Chebyshev(t, found[i]) <= Maps!Chebyshev(next, found[k])
    BY <2>1, <2>2, <2>3, <2>4
  <2> QED
    BY <2>5
<1> QED
  BY <1>8, <1>10

\* The first spawn is a candidate as well.
LEMMA FirstIsCandidate ==
  ASSUME NEW C, Choice(C), C # {}, NEW middle \in Points
  PROVE  Maps!FirstInRows(Maps!Least(C,
           [t \in C |-> (t[1] - middle[1]) * (t[1] - middle[1])
                        + (t[2] - middle[2]) * (t[2] - middle[2])])) \in C
<1> DEFINE Square(t) == (t[1] - middle[1]) * (t[1] - middle[1]) + (t[2] - middle[2]) * (t[2] - middle[2])
           measure == [t \in C |-> Square(t)]
<1>1. C \in SUBSET (Nat \X Nat)
  BY DEF Choice
<1>2. ASSUME NEW a \in Int
      PROVE  a * a \in Nat
  BY <1>2
<1>3. ASSUME NEW t \in C
      PROVE  Square(t) \in Nat
  <2>1. t[1] - middle[1] \in Int /\ t[2] - middle[2] \in Int
    BY <1>1 DEF Points
  <2> DEFINE a == t[1] - middle[1]
             c == t[2] - middle[2]
  <2>2. a * a \in Nat /\ c * c \in Nat
    <3> HIDE DEF a, c
    <3> QED
      BY <1>2, <2>1 DEF a, c
  <2>3. \A x, y \in Nat : x + y \in Nat
    OBVIOUS
  <2> QED
    BY <2>2, <2>3, Zenon
<1>4. measure \in [C -> Int] /\ 0 \in Int /\ \A t \in C : 0 <= measure[t]
  <2> HIDE DEF Square
  <2> QED
    BY <1>3
<1>5. Maps!FirstInRows(Maps!Least(C, measure)) \in C
  <2> HIDE DEF measure
  <2> QED
    BY <1>1, <1>4, OneOfTheLeast
<1> QED
  BY <1>5

\* found is what the loop has, one by one.
LEMMA SpawnsRecursion ==
  ASSUME NEW C, NEW middle, NEW count \in Nat \ {0}
  PROVE  Maps!SpawnsUpTo(C, middle, count) =
           [n \in 1 .. count |->
              IF n = 1
              THEN <<Maps!FirstInRows(Maps!Least(C,
                       [t \in C |-> (t[1] - middle[1]) * (t[1] - middle[1])
                                    + (t[2] - middle[2]) * (t[2] - middle[2])]))>>
              ELSE Append(Maps!SpawnsUpTo(C, middle, count)[n - 1],
                          Maps!NextSpawn(C, Maps!SpawnsUpTo(C, middle, count)[n - 1]))]
<1> DEFINE first == Maps!FirstInRows(Maps!Least(C,
                      [t \in C |-> (t[1] - middle[1]) * (t[1] - middle[1])
                                   + (t[2] - middle[2]) * (t[2] - middle[2])]))
           Longer(s) == Append(s, Maps!NextSpawn(C, s))
           Good(g, k) == g = [n \in 1 .. k |-> IF n = 1 THEN <<first>> ELSE Longer(g[n - 1])]
           T == {k \in Nat : \E g : Good(g, k)}
<1> HIDE DEF first, Longer
<1>1. 0 \in T
  <2> DEFINE g == [n \in 1 .. 0 |-> first]
  <2>1. Good(g, 0)
    OBVIOUS
  <2> QED
    BY <2>1
<1>2. ASSUME NEW k \in Nat, k \in T
      PROVE  k + 1 \in T
  <2>1. PICK g : Good(g, k)
    BY <1>2
  <2> DEFINE h == [n \in 1 .. k + 1 |-> IF n = 1 THEN <<first>>
                                         ELSE IF n = k + 1 THEN Longer(g[k]) ELSE g[n]]
  <2>2. ASSUME NEW n \in 1 .. k + 1
        PROVE  h[n] = IF n = 1 THEN <<first>> ELSE Longer(h[n - 1])
    <3>1. CASE n = 1
      BY <3>1
    <3>2. CASE n # 1
      <4>1. n - 1 \in 1 .. k /\ n - 1 # k + 1 /\ k \in 1 .. k
        BY <3>2
      <4>2. \A i \in 1 .. k : g[i] = IF i = 1 THEN <<first>> ELSE Longer(g[i - 1])
        BY <2>1
      <4>3. h[n - 1] = g[n - 1]
        BY <4>1, <4>2
      <4>4. h[n] = Longer(g[n - 1])
        <5>1. CASE n = k + 1
          BY <3>2, <5>1
        <5>2. CASE n # k + 1
          <6>1. n \in 1 .. k
            BY <5>2
          <6> QED
            BY <3>2, <4>2, <5>2, <6>1
        <5> QED
          BY <5>1, <5>2
      <4> QED
        BY <3>2, <4>3, <4>4
    <3> QED
      BY <3>1, <3>2
  <2>3. Good(h, k + 1)
    BY <2>2
  <2> HIDE DEF Good, h
  <2>4. (\E f : Good(f, k + 1)) /\ k + 1 \in Nat
    BY <2>3
  <2> QED
    BY <2>4
<1>3. \E g : Good(g, count)
  <2>1. \A n \in 0 .. count - 1 : n \in T => n + 1 \in T
    BY <1>2
  <2> HIDE DEF T
  <2>2. count \in T
    BY <1>1, <2>1, UpTo
  <2> QED
    BY <2>2 DEF T
<1> DEFINE found == CHOOSE g : Good(g, count)
<1>4. Good(found, count)
  BY <1>3
<1>5. Maps!SpawnsUpTo(C, middle, count) = found
  BY DEF Maps!SpawnsUpTo, first, Longer
<1> HIDE DEF found
<1> QED
  BY <1>4, <1>5 DEF first, Longer

\* Each spawn after the first is one of the candidates that are farthest from
\* those before it.
Greedy(C, s, n) ==
  /\ s \in [1 .. n -> C]
  /\ \A j \in 2 .. n : \A t \in C : \E i \in 1 .. j - 1 : \A h \in 1 .. j - 1 :
       Maps!Chebyshev(t, s[i]) <= Maps!Chebyshev(s[j], s[h])

LEMMA GreedyGoesOn ==
  ASSUME NEW C, Choice(C), C # {}, NEW n \in Nat \ {0}, NEW s, Greedy(C, s, n)
  PROVE  Greedy(C, Append(s, Maps!NextSpawn(C, s)), n + 1)
<1> DEFINE next == Maps!NextSpawn(C, s)
           longer == Append(s, next)
<1>1. s \in [1 .. n -> C]
  BY DEF Greedy
<1>2. /\ next \in C
      /\ \A t \in C : \E i \in 1 .. n : \A h \in 1 .. n :
           Maps!Chebyshev(t, s[i]) <= Maps!Chebyshev(next, s[h])
  BY <1>1, NextIsFarthest
<1> HIDE DEF next
<1>3. /\ longer \in [1 .. n + 1 -> C]
      /\ \A i \in 1 .. n : longer[i] = s[i]
      /\ longer[n + 1] = next
  <2>1. s \in Seq(C) /\ Len(s) = n
    BY <1>1
  <2>2. longer \in Seq(C) /\ Len(longer) = n + 1
    BY <1>2, <2>1
  <2>3. longer[n + 1] = next /\ \A i \in 1 .. n : longer[i] = s[i]
    BY <2>1
  <2> HIDE DEF longer
  <2>4. longer \in [1 .. n + 1 -> C]
    BY <2>2
  <2> QED
    BY <2>3, <2>4
<1> HIDE DEF longer
<1>4. ASSUME NEW j \in 2 .. n + 1, NEW t \in C
      PROVE  \E i \in 1 .. j - 1 : \A h \in 1 .. j - 1 :
               Maps!Chebyshev(t, longer[i]) <= Maps!Chebyshev(longer[j], longer[h])
  <2>1. CASE j = n + 1
    <3>1. j - 1 = n
      BY <2>1
    <3> QED
      BY <1>2, <1>3, <2>1, <3>1
  <2>2. CASE j # n + 1
    <3>1. j \in 2 .. n /\ j \in 1 .. n /\ \A i \in 1 .. j - 1 : i \in 1 .. n
      BY <2>2
    <3>2. PICK i \in 1 .. j - 1 : \A h \in 1 .. j - 1 : Maps!Chebyshev(t, s[i]) <= Maps!Chebyshev(s[j], s[h])
      BY <3>1 DEF Greedy
    <3> QED
      BY <1>3, <3>1, <3>2
  <2> QED
    BY <2>1, <2>2
<1>5. Greedy(C, longer, n + 1)
  BY <1>3, <1>4 DEF Greedy
<1> QED
  BY <1>5 DEF longer, next

LEMMA SpawnsAreGreedy ==
  ASSUME NEW C, Choice(C), C # {}, NEW middle \in Points, NEW count \in Nat \ {0}
  PROVE  Greedy(C, Maps!SpawnsUpTo(C, middle, count)[count], count)
<1> DEFINE found == Maps!SpawnsUpTo(C, middle, count)
           T == {n \in Nat : n + 1 <= count => Greedy(C, found[n + 1], n + 1)}
           first == Maps!FirstInRows(Maps!Least(C,
                      [t \in C |-> (t[1] - middle[1]) * (t[1] - middle[1])
                                   + (t[2] - middle[2]) * (t[2] - middle[2])]))
<1>1. first \in C
  BY FirstIsCandidate
<1>2. found = [n \in 1 .. count |-> IF n = 1 THEN <<first>>
                                    ELSE Append(found[n - 1], Maps!NextSpawn(C, found[n - 1]))]
  BY SpawnsRecursion
<1> HIDE DEF found, first
<1>3. 0 \in T
  <2>1. found[1] = <<first>>
    BY <1>2
  <2>2. Greedy(C, <<first>>, 1)
    <3>1. <<first>> \in [1 .. 1 -> C]
      BY <1>1
    <3> QED
      BY <3>1 DEF Greedy
  <2> QED
    BY <2>1, <2>2
<1>4. ASSUME NEW n \in 0 .. count - 1, n \in T
      PROVE  n + 1 \in T
  <2>1. CASE n + 2 <= count
    <3> DEFINE k == n + 1
    <3>1. k \in Nat \ {0} /\ k + 1 \in 1 .. count /\ k + 1 # 1 /\ (k + 1) - 1 = k
      BY <2>1
    <3>2. found[k + 1] = Append(found[k], Maps!NextSpawn(C, found[k]))
      <4> HIDE DEF k
      <4> QED
        BY <1>2, <3>1
    <3>3. Greedy(C, found[k], k)
      BY <1>4, <2>1
    <3>4. Greedy(C, found[k + 1], k + 1)
      <4> HIDE DEF k
      <4> QED
        BY <3>1, <3>2, <3>3, GreedyGoesOn
    <3> QED
      BY <3>4
  <2>2. CASE ~(n + 2 <= count)
    <3>1. n + 1 \in Nat /\ ~((n + 1) + 1 <= count)
      BY <2>2
    <3> QED
      BY <3>1
  <2> QED
    BY <2>1, <2>2
<1>5. count - 1 \in T
  <2>1. 0 \in T /\ \A n \in 0 .. (count - 1) - 1 : n \in T => n + 1 \in T
    BY <1>3, <1>4
  <2>2. count - 1 \in Nat
    OBVIOUS
  <2> HIDE DEF T
  <2>3. count - 1 \in 0 .. count - 1
    BY <2>2
  <2> QED
    BY <2>1, <2>2, <2>3, UpTo
<1>6. (count - 1) + 1 = count
  OBVIOUS
<1> QED
  BY <1>5, <1>6 DEF found

\* If there are candidates enough, no two of the spawns are the same: where
\* one is taken twice, every candidate was taken before.
LEMMA GreedyIsInjective ==
  ASSUME NEW C, Choice(C), IsFiniteSet(C), NEW n \in Nat \ {0}, n <= Cardinality(C),
         NEW s, Greedy(C, s, n), NEW a \in 1 .. n, NEW b \in 1 .. n, a < b
  PROVE  s[a] # s[b]
<1> SUFFICES ASSUME s[a] = s[b]
             PROVE  FALSE
  OBVIOUS
<1>1. C \subseteq Points /\ \A i \in 1 .. n : s[i] \in C
  <2>1. s \in [1 .. n -> C]
    BY DEF Greedy
  <2> QED
    BY <2>1, ChoiceIsOfPoints
<1>2. b \in 2 .. n /\ a \in 1 .. b - 1 /\ b - 1 \in Nat /\ b - 1 < n
  OBVIOUS
<1>3. Maps!Chebyshev(s[b], s[a]) = 0
  BY <1>1, ChebyshevIsMetric
<1>4. ASSUME NEW t \in C
      PROVE  \E i \in 1 .. b - 1 : s[i] = t
  <2>1. PICK i \in 1 .. b - 1 : \A h \in 1 .. b - 1 : Maps!Chebyshev(t, s[i]) <= Maps!Chebyshev(s[b], s[h])
    BY <1>2 DEF Greedy
  <2>2. s[i] \in Points /\ t \in Points
    BY <1>1, <1>2
  <2>3. Maps!Chebyshev(t, s[i]) \in Nat /\ Maps!Chebyshev(t, s[i]) <= 0
    BY <1>2, <1>3, <2>1, <2>2, ChebyshevIs
  <2>4. Maps!Chebyshev(t, s[i]) = 0
    BY <2>3
  <2> QED
    BY <2>2, <2>4, ChebyshevIsMetric
<1> DEFINE f == [i \in 1 .. b - 1 |-> s[i]]
<1>5. f \in Surjection(1 .. b - 1, C)
  <2>1. f \in [1 .. b - 1 -> C]
    BY <1>1
  <2>2. \A t \in C : \E i \in 1 .. b - 1 : f[i] = t
    BY <1>4
  <2> HIDE DEF f
  <2> QED
    BY <2>1, <2>2 DEF Surjection
<1>6. ExistsSurjection(1 .. b - 1, C)
  BY <1>5 DEF ExistsSurjection
<1>7. Cardinality(C) <= b - 1
  BY <1>2, <1>6, FS_SurjCardinalityBound
<1>8. Cardinality(C) \in Nat
  BY FS_CardinalityType
<1> QED
  BY <1>7, <1>8

\* How far apart the nearest two of a set are, if it has two.
LEMMA SeparationIs ==
  ASSUME NEW S \in SUBSET Points, NEW x \in S, NEW y \in S, x # y
  PROVE  /\ Maps!Separation(S) \in Nat \ {0}
         /\ \E s, t \in S : s # t /\ Maps!Separation(S) = Maps!Chebyshev(s, t)
         /\ \A s, t \in S : s # t => Maps!Separation(S) <= Maps!Chebyshev(s, t)
<1> DEFINE dists == {Maps!Chebyshev(s, t) : s, t \in S} \ {0}
<1>1. \A s, t \in S : Maps!Chebyshev(s, t) \in Nat /\ (Maps!Chebyshev(s, t) = 0 <=> s = t)
  BY ChebyshevIs, ChebyshevIsMetric
<1>2. Maps!Chebyshev(x, y) \in dists
  BY <1>1
<1>3. dists \in SUBSET Int /\ dists # {} /\ (\A d \in dists : 0 <= d) /\ 0 \in Int
  BY <1>1, <1>2
<1>4. Maps!Min(dists) \in dists /\ \A d \in dists : Maps!Min(dists) <= d
  <2> HIDE DEF dists
  <2> QED
    BY <1>3, LeastOfBounded
<1>5. Maps!Separation(S) = Maps!Min(dists)
  BY DEF Maps!Separation
<1>6. \A s, t \in S : s # t => Maps!Chebyshev(s, t) \in dists
  BY <1>1
<1>7. \A d \in dists : d \in Nat \ {0} /\ \E s, t \in S : s # t /\ d = Maps!Chebyshev(s, t)
  BY <1>1
<1> HIDE DEF dists
<1> QED
  BY <1>4, <1>5, <1>6, <1>7

\* As far apart as the nearest two spawns are, every candidate is that near to
\* one of those that were found before the later of the two; so of any other
\* choice as large, two tiles are near the same spawn, and near each other.
LEMMA GreedyIsHalfAsGood ==
  ASSUME NEW C, Choice(C), IsFiniteSet(C), NEW n \in Nat, n > 1, n <= Cardinality(C),
         NEW s, Greedy(C, s, n), NEW best \in SUBSET C, Cardinality(best) = n
  PROVE  Maps!Separation(best) <= 2 * Maps!Separation({s[i] : i \in 1 .. n})
<1> DEFINE chosen == {s[i] : i \in 1 .. n}
           sep == Maps!Separation(chosen)
<1>1. C \subseteq Points /\ \A i \in 1 .. n : s[i] \in C
  <2>1. s \in [1 .. n -> C]
    BY DEF Greedy
  <2> QED
    BY <2>1, ChoiceIsOfPoints
<1>2. \A a, b \in 1 .. n : a < b => s[a] # s[b]
  BY GreedyIsInjective
<1>3. PICK a, b \in 1 .. n : a < b /\ sep = Maps!Chebyshev(s[b], s[a])
  <2>1. chosen \in SUBSET Points /\ s[1] \in chosen /\ s[2] \in chosen
    BY <1>1
  <2>2. s[1] # s[2]
    BY <1>2
  <2>3. PICK x, y \in chosen : x # y /\ sep = Maps!Chebyshev(x, y)
    <3> HIDE DEF chosen
    <3> QED
      BY <2>1, <2>2, SeparationIs
  <2>4. PICK i, j \in 1 .. n : x = s[i] /\ y = s[j]
    BY <2>3
  <2>5. i # j /\ (i < j \/ j < i)
    BY <2>3, <2>4
  <2>6. s[i] \in Points /\ s[j] \in Points
    BY <1>1
  <2>7. Maps!Chebyshev(s[i], s[j]) = Maps!Chebyshev(s[j], s[i])
    BY <2>6, ChebyshevIsMetric
  <2> HIDE DEF sep
  <2> QED
    BY <2>3, <2>4, <2>5, <2>7
<1> HIDE DEF sep
<1>4. b \in 2 .. n /\ a \in 1 .. b - 1 /\ b - 1 \in Nat /\ b - 1 < n
  BY <1>3
<1>5. ASSUME NEW t \in C
      PROVE  \E i \in 1 .. b - 1 : Maps!Chebyshev(t, s[i]) <= sep
  <2>1. PICK i \in 1 .. b - 1 : \A h \in 1 .. b - 1 : Maps!Chebyshev(t, s[i]) <= Maps!Chebyshev(s[b], s[h])
    BY <1>4 DEF Greedy
  <2> QED
    BY <1>3, <1>4, <2>1
<1> DEFINE near == [t \in best |-> CHOOSE i \in 1 .. b - 1 : Maps!Chebyshev(t, s[i]) <= sep]
<1>6. near \in [best -> 1 .. b - 1] /\ \A t \in best : Maps!Chebyshev(t, s[near[t]]) <= sep
  BY <1>5
<1> HIDE DEF near
<1>7. PICK t, u \in best : t # u /\ near[t] = near[u]
  <2>1. IsFiniteSet(best)
    BY FS_Subset
  <2>2. IsFiniteSet(1 .. b - 1) /\ Cardinality(1 .. b - 1) = b - 1
    <3>1. 1 \in Int /\ b - 1 \in Int
      BY <1>4
    <3> QED
      BY <1>4, <3>1, FS_Interval
  <2>3. Cardinality(1 .. b - 1) < Cardinality(best)
    BY <1>4, <2>2
  <2> QED
    BY <1>6, <2>1, <2>2, <2>3, FS_PigeonHole
<1> DEFINE hub == s[near[t]]
<1>8. t \in Points /\ u \in Points /\ hub \in Points
  BY <1>1, <1>4, <1>6
<1>9. Maps!Chebyshev(t, hub) <= sep /\ Maps!Chebyshev(u, hub) <= sep
  BY <1>6, <1>7
<1> HIDE DEF hub
<1>10. Maps!Chebyshev(t, u) <= Maps!Chebyshev(t, hub) + Maps!Chebyshev(hub, u)
  BY <1>8, ChebyshevIsMetric
<1>11. Maps!Chebyshev(hub, u) = Maps!Chebyshev(u, hub)
  BY <1>8, ChebyshevIsMetric
<1>12. /\ Maps!Chebyshev(t, u) \in Nat /\ Maps!Chebyshev(t, hub) \in Nat /\ Maps!Chebyshev(u, hub) \in Nat
       /\ sep \in Nat
  <2>1. s[a] \in Points /\ s[b] \in Points
    BY <1>1
  <2> QED
    BY <1>3, <1>8, <2>1, ChebyshevIs
<1>13. Maps!Separation(best) <= Maps!Chebyshev(t, u) /\ Maps!Separation(best) \in Nat
  <2>1. best \in SUBSET Points
    BY <1>1
  <2> QED
    BY <1>7, <2>1, SeparationIs
<1>14. Maps!Separation(best) <= 2 * sep
  BY <1>9, <1>10, <1>11, <1>12, <1>13
<1> QED
  BY <1>14 DEF sep

-----------------------------------------------------------------------------
(* Spawns on a map. *)

\* The tiles of a map are those of its size.
WellSized(m) ==
  /\ m.size \in (Nat \ {0}) \X (Nat \ {0})
  /\ DOMAIN m.tile = Maps!Grid(m.size)

LEMMA CandidatesAreFinite ==
  ASSUME NEW m, WellSized(m)
  PROVE  /\ Maps!Candidates(m) \subseteq Maps!Grid(m.size)
         /\ Choice(Maps!Candidates(m))
         /\ IsFiniteSet(Maps!Candidates(m))
<1> DEFINE h == m.size[1] - 1
           w == m.size[2] - 1
<1>1. h \in Nat /\ w \in Nat
  BY DEF WellSized
<1>2. Maps!Candidates(m) \subseteq Maps!Grid(m.size)
  BY DEF Maps!Candidates, WellSized
<1>3. Maps!Grid(m.size) = (0 .. h) \X (0 .. w)
  BY DEF Maps!Grid
<1> HIDE DEF h, w
<1>4. IsFiniteSet((0 .. h) \X (0 .. w))
  <2>1. 0 \in Int /\ h \in Int /\ w \in Int
    BY <1>1
  <2>2. IsFiniteSet(0 .. h) /\ IsFiniteSet(0 .. w)
    BY <2>1, FS_Interval
  <2> QED
    BY <2>2, FS_Product
<1>5. IsFiniteSet(Maps!Candidates(m))
  BY <1>2, <1>3, <1>4, FS_Subset
<1>6. Choice(Maps!Candidates(m))
  BY <1>1, <1>2, <1>3 DEF Choice
<1> QED
  BY <1>2, <1>5, <1>6

\* findSpawnPoints gives as many spawns as it is asked for, or none.
LEMMA SpawnPointsAreGreedy ==
  ASSUME NEW m, WellSized(m), NEW count \in Nat
  PROVE  LET s == Maps!FindSpawnPoints(m, count)
         IN  s = <<>> \/ (count # 0 /\ Greedy(Maps!Candidates(m), s, count))
<1> DEFINE C == Maps!Candidates(m)
           middle == <<m.size[1] \div 2, m.size[2] \div 2>>
<1>1. CASE C = {} \/ count <= 0
  BY <1>1 DEF Maps!FindSpawnPoints
<1>2. CASE ~(C = {} \/ count <= 0)
  <2>1. Choice(C) /\ C # {} /\ count \in Nat \ {0}
    BY <1>2, CandidatesAreFinite
  <2>2. middle \in Points
    <3>1. m.size[1] \in Nat /\ m.size[2] \in Nat
      BY DEF WellSized
    <3>2. m.size[1] \div 2 \in Int /\ m.size[2] \div 2 \in Int
      BY <3>1
    <3> QED
      BY <3>2 DEF Points
  <2>3. Maps!FindSpawnPoints(m, count) = Maps!SpawnsUpTo(C, middle, count)[count]
    BY <1>2 DEF Maps!FindSpawnPoints
  <2> HIDE DEF C, middle
  <2>4. Greedy(C, Maps!SpawnsUpTo(C, middle, count)[count], count)
    BY <2>1, <2>2, SpawnsAreGreedy
  <2> QED
    BY <2>1, <2>3, <2>4 DEF C
<1> QED
  BY <1>1, <1>2

\* Where they are found follows from the size and the terrain.
LEMMA SameSpawns ==
  ASSUME NEW m, NEW o, m.size = o.size, Maps!TerrainOf(m) = Maps!TerrainOf(o), NEW count
  PROVE  Maps!FindSpawnPoints(m, count) = Maps!FindSpawnPoints(o, count)
<1>1. DOMAIN m.tile = DOMAIN o.tile /\ \A t \in DOMAIN m.tile : m.tile[t].terrain = o.tile[t].terrain
  <2>1. DOMAIN Maps!TerrainOf(m) = DOMAIN m.tile /\ DOMAIN Maps!TerrainOf(o) = DOMAIN o.tile
    BY DEF Maps!TerrainOf
  <2>2. \A t \in DOMAIN m.tile : Maps!TerrainOf(m)[t] = m.tile[t].terrain
    BY DEF Maps!TerrainOf
  <2>3. \A t \in DOMAIN o.tile : Maps!TerrainOf(o)[t] = o.tile[t].terrain
    BY DEF Maps!TerrainOf
  <2> QED
    BY <2>1, <2>2, <2>3
<1>2. Maps!Candidates(m) = Maps!Candidates(o)
  BY <1>1 DEF Maps!Candidates
<1> QED
  BY <1>2 DEF Maps!FindSpawnPoints

\* What is said of the spawns of a map.
LEMMA SpawnPointsAreSound ==
  ASSUME NEW m, WellSized(m), NEW count \in Nat, NEW s, s = Maps!FindSpawnPoints(m, count)
  PROVE  /\ s \in Seq(Maps!Grid(m.size))
         /\ Maps!Range(s) \subseteq Maps!Candidates(m)
         /\ (Len(s) > 1 /\ Cardinality(Maps!Candidates(m)) >= Len(s)) =>
              /\ Maps!IsInjective(s)
              /\ \A best \in SUBSET Maps!Candidates(m) :
                   Cardinality(best) = Len(s) =>
                     Maps!Separation(best) <= 2 * Maps!Separation(Maps!Range(s))
<1> DEFINE C == Maps!Candidates(m)
<1>1. Choice(C) /\ IsFiniteSet(C) /\ C \subseteq Maps!Grid(m.size)
  BY CandidatesAreFinite
<1>2. s = <<>> \/ (count # 0 /\ Greedy(C, s, count))
  BY SpawnPointsAreGreedy
<1> HIDE DEF C
<1>3. CASE s = <<>>
  <2>1. Len(s) = 0 /\ s \in Seq(Maps!Grid(m.size)) /\ DOMAIN s = {}
    BY <1>3
  <2> QED
    BY <2>1 DEF Maps!Range
<1>4. CASE count # 0 /\ Greedy(C, s, count)
  <2>1. s \in [1 .. count -> C]
    BY <1>4 DEF Greedy
  <2>2. s \in Seq(C) /\ Len(s) = count
    BY <2>1
  <2>3. s \in Seq(Maps!Grid(m.size))
    BY <1>1, <2>2
  <2>4. Maps!Range(s) = {s[i] : i \in 1 .. count} /\ Maps!Range(s) \subseteq C
    BY <2>1 DEF Maps!Range
  <2>5. ASSUME count > 1, Cardinality(C) >= count
        PROVE  Maps!IsInjective(s)
    <3>1. Cardinality(C) \in Nat
      BY <1>1, FS_CardinalityType
    <3>2. count \in Nat \ {0} /\ count <= Cardinality(C)
      BY <2>5, <3>1
    <3>3. \A a, b \in 1 .. count : a < b => s[a] # s[b]
      BY <1>1, <1>4, <3>2, GreedyIsInjective
    <3>4. \A a, b \in 1 .. count : s[a] = s[b] => a = b
      <4>1. \A a, b \in 1 .. count : a < b \/ b < a \/ a = b
        OBVIOUS
      <4> QED
        BY <3>3, <4>1
    <3> QED
      BY <2>1, <3>4 DEF Maps!IsInjective
  <2>6. ASSUME count > 1, Cardinality(C) >= count, NEW best \in SUBSET C, Cardinality(best) = count
        PROVE  Maps!Separation(best) <= 2 * Maps!Separation(Maps!Range(s))
    <3>1. Cardinality(C) \in Nat
      BY <1>1, FS_CardinalityType
    <3>2. count <= Cardinality(C)
      BY <2>6, <3>1
    <3>3. Maps!Separation(best) <= 2 * Maps!Separation({s[i] : i \in 1 .. count})
      BY <1>1, <1>4, <2>6, <3>2, GreedyIsHalfAsGood
    <3> QED
      BY <2>4, <3>3
  <2> QED
    BY <2>2, <2>3, <2>4, <2>5, <2>6 DEF C
<1> QED
  BY <1>2, <1>3, <1>4

-----------------------------------------------------------------------------
(* Terrain: the smoothing. *)

\* The neighbours of a tile are a finite set, and the grid's only.
LEMMA AroundIsFinite ==
  ASSUME NEW h \in Nat \ {0}, NEW w \in Nat \ {0}, NEW f, DOMAIN f = Maps!Grid(<<h, w>>), NEW t
  PROVE  Maps!Around(f, t) \subseteq Maps!Grid(<<h, w>>) /\ IsFiniteSet(Maps!Around(f, t))
<1>1. Maps!Grid(<<h, w>>) = (0 .. h - 1) \X (0 .. w - 1)
  BY DEF Maps!Grid
<1>2. IsFiniteSet((0 .. h - 1) \X (0 .. w - 1))
  <2>1. 0 \in Int /\ h - 1 \in Int /\ w - 1 \in Int
    OBVIOUS
  <2>2. IsFiniteSet(0 .. h - 1) /\ IsFiniteSet(0 .. w - 1)
    BY <2>1, FS_Interval
  <2> QED
    BY <2>2, FS_Product
<1>3. Maps!Around(f, t) \subseteq Maps!Grid(<<h, w>>)
  BY DEF Maps!Around
<1> QED
  BY <1>1, <1>2, <1>3, FS_Subset

\* How often each kind of terrain is around a tile.
Counts(f, t) ==
  [k \in 1 .. 7 |-> Cardinality({n \in Maps!Around(f, t) : f[n] = Maps!TerrainOrder[k]})]

\* The first of those that are the most common.
Commonest(counts) ==
  Maps!TerrainOrder[Maps!Min({k \in 1 .. 7 : counts[k] = Maps!Max({counts[l] : l \in 1 .. 7})})]

LEMMA CommonestIsTaken ==
  ASSUME NEW f, NEW t
  PROVE  Maps!MostCommonNeighbour(f, t) = Commonest(Counts(f, t))
<1> DEFINE around == Maps!Around(f, t)
           Count(k) == Maps!Cardinality({n \in around : f[n] = Maps!TerrainOrder[k]})
           counts == Counts(f, t)
<1>1. DOMAIN Maps!TerrainOrder = 1 .. 7
  BY DEF Maps!TerrainOrder
<1>2. \A k \in 1 .. 7 : Count(k) = counts[k]
  BY CountsAgree DEF Counts
<1>3. Maps!MostCommonNeighbour(f, t)
      = Maps!TerrainOrder[Maps!Min({k \in DOMAIN Maps!TerrainOrder :
          Count(k) = Maps!Max({Count(l) : l \in DOMAIN Maps!TerrainOrder})})]
  BY DEF Maps!MostCommonNeighbour
<1> HIDE DEF Count, counts
<1>4. {Count(l) : l \in DOMAIN Maps!TerrainOrder} = {counts[l] : l \in 1 .. 7}
  BY <1>1, <1>2
<1>5. {k \in DOMAIN Maps!TerrainOrder : Count(k) = Maps!Max({Count(l) : l \in DOMAIN Maps!TerrainOrder})}
      = {k \in 1 .. 7 : counts[k] = Maps!Max({counts[l] : l \in 1 .. 7})}
  BY <1>1, <1>2, <1>4
<1> QED
  BY <1>3, <1>5 DEF Commonest, counts

LEMMA CommonestIsTerrain ==
  ASSUME NEW counts \in [1 .. 7 -> Nat]
  PROVE  Commonest(counts) \in Maps!TerrainTypes
<1> DEFINE values == {counts[l] : l \in 1 .. 7}
           bound == counts[1] + counts[2] + counts[3] + counts[4] + counts[5] + counts[6] + counts[7]
           most == {k \in 1 .. 7 : counts[k] = Maps!Max(values)}
<1>1. counts[1] \in Nat /\ counts[2] \in Nat /\ counts[3] \in Nat /\ counts[4] \in Nat
      /\ counts[5] \in Nat /\ counts[6] \in Nat /\ counts[7] \in Nat
  OBVIOUS
<1>2. bound \in Int
  BY <1>1
<1>3. ASSUME NEW l \in 1 .. 7
      PROVE  counts[l] <= bound
  <2>1. l = 1 \/ l = 2 \/ l = 3 \/ l = 4 \/ l = 5 \/ l = 6 \/ l = 7
    OBVIOUS
  <2> QED
    BY <1>1, <2>1
<1>4. values \in SUBSET Int /\ values # {} /\ \A x \in values : x <= bound
  <2>1. \A l \in 1 .. 7 : counts[l] \in Int /\ counts[l] <= bound
    BY <1>3
  <2> HIDE DEF bound
  <2>2. counts[1] \in values
    OBVIOUS
  <2> QED
    BY <2>1, <2>2
<1>5. Maps!Max(values) \in values
  <2> HIDE DEF values, bound
  <2> QED
    BY <1>2, <1>4, GreatestOfBounded
<1>6. most \in SUBSET Int /\ most # {} /\ (\A k \in most : 1 <= k) /\ 1 \in Int
  <2>1. PICK l \in 1 .. 7 : Maps!Max(values) = counts[l]
    BY <1>5
  <2>2. l \in most
    BY <2>1
  <2>3. \A k \in most : k \in Int /\ 1 <= k
    OBVIOUS
  <2> HIDE DEF most
  <2> QED
    BY <2>2, <2>3
<1>7. Maps!Min(most) \in most
  <2> HIDE DEF most
  <2> QED
    BY <1>6, LeastOfBounded
<1>8. Maps!Min(most) \in 1 .. 7
  BY <1>7
<1>9. \A k \in 1 .. 7 : Maps!TerrainOrder[k] \in Maps!TerrainTypes
  BY DEF Maps!TerrainOrder, Maps!TerrainTypes, Maps!TerrainProperties
<1> QED
  BY <1>8, <1>9 DEF Commonest

LEMMA SmoothPassIsTerrain ==
  ASSUME NEW h \in Nat \ {0}, NEW w \in Nat \ {0},
         NEW f \in [Maps!Grid(<<h, w>>) -> Maps!TerrainTypes]
  PROVE  Maps!SmoothPass(f) \in [Maps!Grid(<<h, w>>) -> Maps!TerrainTypes]
<1>1. ASSUME NEW t \in Maps!Grid(<<h, w>>)
      PROVE  Maps!MostCommonNeighbour(f, t) \in Maps!TerrainTypes
  <2>1. IsFiniteSet(Maps!Around(f, t))
    BY AroundIsFinite
  <2>2. ASSUME NEW k \in 1 .. 7
        PROVE  Cardinality({n \in Maps!Around(f, t) : f[n] = Maps!TerrainOrder[k]}) \in Nat
    <3>1. {n \in Maps!Around(f, t) : f[n] = Maps!TerrainOrder[k]} \in SUBSET Maps!Around(f, t)
      OBVIOUS
    <3> QED
      BY <2>1, <3>1, FS_Subset, FS_CardinalityType
  <2>3. Counts(f, t) \in [1 .. 7 -> Nat]
    BY <2>2 DEF Counts
  <2> QED
    BY <2>3, CommonestIsTaken, CommonestIsTerrain
<1> QED
  BY <1>1 DEF Maps!SmoothPass

LEMMA ClassesAreTerrain == \A noise : Maps!ClassifyTerrain(noise) \in Maps!TerrainTypes
BY DEF Maps!ClassifyTerrain, Maps!TerrainTypes, Maps!TerrainProperties

\* The tile on the other side of the map.
Opposite(t, w) == <<t[1], w - 1 - t[2]>>

LEMMA OppositeOfOpposite ==
  ASSUME NEW h \in Nat \ {0}, NEW w \in Nat \ {0}, NEW t \in Maps!Grid(<<h, w>>)
  PROVE  /\ Opposite(t, w) \in Maps!Grid(<<h, w>>)
         /\ Opposite(Opposite(t, w), w) = t
<1>1. t \in (0 .. h - 1) \X (0 .. w - 1)
  BY DEF Maps!Grid
<1>2. t = <<t[1], t[2]>> /\ t[1] \in 0 .. h - 1 /\ t[2] \in 0 .. w - 1
  BY <1>1
<1>3. w - 1 - t[2] \in 0 .. w - 1 /\ w - 1 - (w - 1 - t[2]) = t[2]
  BY <1>2
<1>4. Opposite(t, w) \in (0 .. h - 1) \X (0 .. w - 1)
  BY <1>2, <1>3 DEF Opposite
<1>5. Opposite(Opposite(t, w), w) = <<t[1], w - 1 - (w - 1 - t[2])>>
  BY DEF Opposite
<1> QED
  BY <1>2, <1>3, <1>4, <1>5 DEF Maps!Grid

\* What is around it are the opposites of what is around the tile.
LEMMA AroundOpposite ==
  ASSUME NEW h \in Nat \ {0}, NEW w \in Nat \ {0}, NEW f, DOMAIN f = Maps!Grid(<<h, w>>),
         NEW g, DOMAIN g = Maps!Grid(<<h, w>>),
         NEW t \in Maps!Grid(<<h, w>>), NEW n \in Maps!Around(f, t)
  PROVE  Opposite(n, w) \in Maps!Around(g, Opposite(t, w))
<1>1. n \in Maps!Grid(<<h, w>>) /\ n # t
      /\ n \in (t[1] - 1 .. t[1] + 1) \X (t[2] - 1 .. t[2] + 1)
  BY DEF Maps!Around
<1>2. Opposite(n, w) \in Maps!Grid(<<h, w>>) /\ Opposite(n, w) # Opposite(t, w)
  <2>1. Opposite(Opposite(n, w), w) = n /\ Opposite(Opposite(t, w), w) = t
    BY <1>1, OppositeOfOpposite
  <2> QED
    BY <1>1, <2>1, OppositeOfOpposite
<1>3. t[1] \in Int /\ t[2] \in Int /\ n[1] \in Int /\ n[2] \in Int
  BY <1>1 DEF Maps!Grid
<1>4. Opposite(n, w) \in (t[1] - 1 .. t[1] + 1) \X (w - 1 - t[2] - 1 .. w - 1 - t[2] + 1)
  <2>1. n[1] \in t[1] - 1 .. t[1] + 1 /\ n[2] \in t[2] - 1 .. t[2] + 1
    BY <1>1
  <2>2. w - 1 - n[2] \in w - 1 - t[2] - 1 .. w - 1 - t[2] + 1
    BY <1>3, <2>1
  <2> QED
    BY <2>1, <2>2 DEF Opposite
<1>5. Opposite(t, w)[1] = t[1] /\ Opposite(t, w)[2] = w - 1 - t[2]
  BY DEF Opposite
<1> QED
  BY <1>2, <1>4, <1>5 DEF Maps!Around

Mirrored(f, w) == [t \in DOMAIN f |-> f[Opposite(t, w)]]

\* What is of one terrain around a tile.
Alike(f, t, x) == {n \in Maps!Around(f, t) : f[n] = x}

\* As much of any terrain is around a tile in the mirror as around its
\* opposite.
LEMMA MirroredCount ==
  ASSUME NEW h \in Nat \ {0}, NEW w \in Nat \ {0}, NEW f, DOMAIN f = Maps!Grid(<<h, w>>),
         NEW t \in Maps!Grid(<<h, w>>), NEW x
  PROVE  Cardinality(Alike(Mirrored(f, w), t, x)) = Cardinality(Alike(f, Opposite(t, w), x))
<1> DEFINE g == Mirrored(f, w)
           o == Opposite(t, w)
           A == {n \in Maps!Around(g, t) : g[n] = x}
           B == {n \in Maps!Around(f, o) : f[n] = x}
           to == [n \in A |-> Opposite(n, w)]
<1>1. DOMAIN g = Maps!Grid(<<h, w>>) /\ \A n \in Maps!Grid(<<h, w>>) : g[n] = f[Opposite(n, w)]
  BY DEF Mirrored
<1> HIDE DEF g
<1>2. A \subseteq Maps!Around(g, t) /\ A \subseteq Maps!Grid(<<h, w>>) /\ IsFiniteSet(A)
  <2>1. Maps!Around(g, t) \subseteq Maps!Grid(<<h, w>>) /\ IsFiniteSet(Maps!Around(g, t))
    BY <1>1, AroundIsFinite
  <2> QED
    BY <2>1, FS_Subset
<1>3. B \subseteq Maps!Grid(<<h, w>>)
  BY AroundIsFinite
<1>4. o \in Maps!Grid(<<h, w>>) /\ Opposite(o, w) = t
  BY OppositeOfOpposite
<1>5. ASSUME NEW n \in A
      PROVE  Opposite(n, w) \in B
  <2>1. Opposite(n, w) \in Maps!Around(f, o)
    BY <1>1, <1>2, AroundOpposite
  <2>2. f[Opposite(n, w)] = x
    BY <1>1, <1>2
  <2> QED
    BY <2>1, <2>2
<1>6. ASSUME NEW n \in B
      PROVE  Opposite(n, w) \in A /\ Opposite(Opposite(n, w), w) = n
  <2> HIDE DEF o
  <2>1. Opposite(n, w) \in Maps!Around(g, Opposite(o, w))
    BY <1>1, <1>3, <1>4, AroundOpposite
  <2>2. n \in Maps!Grid(<<h, w>>) /\ f[n] = x
    BY <1>3
  <2>3. Opposite(n, w) \in Maps!Grid(<<h, w>>) /\ Opposite(Opposite(n, w), w) = n
    BY <2>2, OppositeOfOpposite
  <2>4. g[Opposite(n, w)] = x
    BY <1>1, <2>2, <2>3
  <2> QED
    BY <1>4, <2>1, <2>3, <2>4
<1>7. to \in Bijection(A, B)
  <2>1. to \in [A -> B]
    BY <1>5
  <2>2. \A m, n \in A : to[m] = to[n] => m = n
    <3>1. \A n \in A : Opposite(Opposite(n, w), w) = n
      BY <1>2, OppositeOfOpposite
    <3> HIDE DEF A
    <3> QED
      BY <3>1
  <2>3. \A n \in B : \E m \in A : to[m] = n
    <3> HIDE DEF A, B
    <3> QED
      BY <1>6
  <2> HIDE DEF A, B, to
  <2> QED
    BY <2>1, <2>2, <2>3 DEF Bijection, Injection, Surjection, IsInjective
<1>8. ExistsBijection(A, B)
  BY <1>7 DEF ExistsBijection
<1>9. Cardinality(B) = Cardinality(A)
  <2> HIDE DEF A, B, to
  <2> QED
    BY <1>2, <1>8, FS_Bijection
<1> QED
  BY <1>9 DEF g, Alike

\* So the smoothing of the mirror is the mirror of the smoothing.
LEMMA SmoothingMirrors ==
  ASSUME NEW h \in Nat \ {0}, NEW w \in Nat \ {0}, NEW f, f = [t \in Maps!Grid(<<h, w>>) |-> f[t]]
  PROVE  Maps!SmoothPass(Mirrored(f, w)) = Mirrored(Maps!SmoothPass(f), w)
<1> DEFINE g == Mirrored(f, w)
           grid == Maps!Grid(<<h, w>>)
<1>1. DOMAIN f = grid /\ DOMAIN g = grid
  BY DEF Mirrored
<1>2. DOMAIN Maps!SmoothPass(f) = grid /\ DOMAIN Maps!SmoothPass(g) = grid
  BY <1>1 DEF Maps!SmoothPass
<1>3. ASSUME NEW t \in grid
      PROVE  Maps!SmoothPass(g)[t] = Maps!SmoothPass(f)[Opposite(t, w)]
  <2> DEFINE o == Opposite(t, w)
  <2>1. o \in grid /\ Opposite(o, w) = t
    BY OppositeOfOpposite
  <2>2. g[t] = f[o]
    BY <1>1 DEF Mirrored
  <2>3. \A x : Cardinality(Alike(g, t, x)) = Cardinality(Alike(f, o, x))
    BY <1>1, MirroredCount
  <2>4. Maps!CountSameNeighbours(g, t) = Maps!CountSameNeighbours(f, o)
    <3>1. Maps!CountSameNeighbours(g, t) = Cardinality(Alike(g, t, g[t]))
      BY CountsAgree, Zenon DEF Alike, Maps!CountSameNeighbours
    <3>2. Maps!CountSameNeighbours(f, o) = Cardinality(Alike(f, o, f[o]))
      BY CountsAgree, Zenon DEF Alike, Maps!CountSameNeighbours
    <3> HIDE DEF g, o
    <3> QED
      BY <2>2, <2>3, <3>1, <3>2
  <2>5. Maps!MostCommonNeighbour(g, t) = Maps!MostCommonNeighbour(f, o)
    <3>1. Counts(g, t) = Counts(f, o)
      BY <2>3 DEF Counts, Alike
    <3>2. Maps!MostCommonNeighbour(g, t) = Commonest(Counts(g, t))
      BY CommonestIsTaken
    <3>3. Maps!MostCommonNeighbour(f, o) = Commonest(Counts(f, o))
      BY CommonestIsTaken
    <3> QED
      BY <3>1, <3>2, <3>3
  <2>6. Maps!Around(g, t) = {} <=> Maps!Around(f, o) = {}
    <3>1. ASSUME NEW n \in Maps!Around(g, t)
          PROVE  Maps!Around(f, o) # {}
      <4> HIDE DEF g
      <4> QED
        BY <1>1, AroundOpposite
    <3>2. ASSUME NEW n \in Maps!Around(f, o)
          PROVE  Maps!Around(g, t) # {}
      <4> HIDE DEF g, o
      <4> QED
        BY <1>1, <2>1, AroundOpposite
    <3> QED
      BY <3>1, <3>2
  <2> HIDE DEF g, o
  <2>7. Maps!SmoothPass(g)[t]
        = IF Maps!CountSameNeighbours(g, t) < Maps!SmoothingThreshold /\ Maps!Around(g, t) # {}
          THEN Maps!MostCommonNeighbour(g, t) ELSE g[t]
    BY <1>1 DEF Maps!SmoothPass
  <2>8. Maps!SmoothPass(f)[o]
        = IF Maps!CountSameNeighbours(f, o) < Maps!SmoothingThreshold /\ Maps!Around(f, o) # {}
          THEN Maps!MostCommonNeighbour(f, o) ELSE f[o]
    BY <1>1, <2>1 DEF Maps!SmoothPass
  <2>9. Maps!SmoothPass(g)[t] = Maps!SmoothPass(f)[o]
    BY <2>2, <2>4, <2>5, <2>6, <2>7, <2>8
  <2> QED
    BY <2>9 DEF o
<1>4. Maps!SmoothPass(g) = [t \in grid |-> Maps!SmoothPass(g)[t]]
  BY <1>1 DEF Maps!SmoothPass
<1>5. Mirrored(Maps!SmoothPass(f), w) = [t \in grid |-> Maps!SmoothPass(f)[Opposite(t, w)]]
  BY <1>2 DEF Mirrored
<1> QED
  BY <1>3, <1>4, <1>5

LEMMA MapSmoothsFairly ==
  ASSUME WellSized(map)
  PROVE  Maps!SmoothingIsFair
<1> DEFINE h == map.size[1]
           w == map.size[2]
           f == Maps!TerrainOf(map)
<1>1. h \in Nat \ {0} /\ w \in Nat \ {0} /\ map.size = <<h, w>>
  BY DEF WellSized
<1>2. DOMAIN f = Maps!Grid(<<h, w>>) /\ f = [t \in Maps!Grid(<<h, w>>) |-> f[t]]
  BY <1>1 DEF Maps!TerrainOf, WellSized
<1>3. DOMAIN Maps!SmoothPass(f) = DOMAIN f
  BY DEF Maps!SmoothPass
<1> HIDE DEF h, f
<1>4. Maps!SmoothPass(Mirrored(f, w)) = Mirrored(Maps!SmoothPass(f), w)
  <2> HIDE DEF w
  <2> QED
    BY <1>1, <1>2, SmoothingMirrors
<1>5. Mirrored(f, w) = [t \in DOMAIN f |-> f[<<t[1], map.size[2] - 1 - t[2]>>]]
  BY DEF Mirrored, Opposite
<1>6. Mirrored(Maps!SmoothPass(f), w)
      = [t \in DOMAIN Maps!SmoothPass(f) |-> Maps!SmoothPass(f)[<<t[1], map.size[2] - 1 - t[2]>>]]
  BY DEF Mirrored, Opposite
<1> QED
  BY <1>4, <1>5, <1>6 DEF Maps!SmoothingIsFair, f

-----------------------------------------------------------------------------
(* Rivers. *)

\* The tiles of the demo river.
RiverTiles == <<<<5, 10>>, <<6, 11>>, <<6, 12>>, <<7, 12>>, <<7, 13>>, <<8, 14>>>>

RiverHeights == <<3, 2, 2, 1, 1, 1>>

LEMMA RiverCourseIs ==
  /\ Len(Maps!RiverCourse) = 5
  /\ RiverTiles[1] = Maps!RiverStart
  /\ \A k \in 1 .. 5 :
       /\ Maps!RiverCourse[k] \in Maps!Directions
       /\ Maps!OppositeDirection(Maps!RiverCourse[k]) \in Maps!Directions
       /\ Maps!OppositeDirection(Maps!OppositeDirection(Maps!RiverCourse[k])) = Maps!RiverCourse[k]
       /\ Maps!Toward(RiverTiles[k], Maps!RiverCourse[k]) = RiverTiles[k + 1]
       /\ Maps!Toward(RiverTiles[k + 1], Maps!OppositeDirection(Maps!RiverCourse[k])) = RiverTiles[k]
       /\ Maps!RiverBed[k].elevation = RiverHeights[k + 1]
       /\ Maps!RiverBed[k].terrain \in Maps!TerrainTypes
       /\ RiverHeights[k + 1] \in 0 .. 3 /\ RiverHeights[k + 1] <= RiverHeights[k]
<1>1. Maps!OppositeDirection(1) = 4 /\ Maps!OppositeDirection(2) = 5
      /\ Maps!OppositeDirection(4) = 1 /\ Maps!OppositeDirection(5) = 2
  BY DEF Maps!OppositeDirection
<1>2. 5 % 2 = 1 /\ 6 % 2 = 0 /\ 7 % 2 = 1 /\ 8 % 2 = 0
  OBVIOUS
<1>3. /\ Maps!Toward(<<5, 10>>, 2) = <<6, 11>> /\ Maps!Toward(<<6, 11>>, 1) = <<6, 12>>
      /\ Maps!Toward(<<6, 12>>, 2) = <<7, 12>> /\ Maps!Toward(<<7, 12>>, 1) = <<7, 13>>
      /\ Maps!Toward(<<7, 13>>, 2) = <<8, 14>>
  BY <1>2 DEF Maps!Toward, Maps!EvenRowOffsets, Maps!OddRowOffsets
<1>4. /\ Maps!Toward(<<6, 11>>, 5) = <<5, 10>> /\ Maps!Toward(<<6, 12>>, 4) = <<6, 11>>
      /\ Maps!Toward(<<7, 12>>, 5) = <<6, 12>> /\ Maps!Toward(<<7, 13>>, 4) = <<7, 12>>
      /\ Maps!Toward(<<8, 14>>, 5) = <<7, 13>>
  BY <1>2 DEF Maps!Toward, Maps!EvenRowOffsets, Maps!OddRowOffsets
<1>5. Maps!RiverCourse = <<2, 1, 2, 1, 2>>
  BY DEF Maps!RiverCourse, Maps!SE, Maps!E
<1>6. Len(Maps!RiverCourse) = 5 /\ RiverTiles[1] = Maps!RiverStart
  BY <1>5 DEF RiverTiles, Maps!RiverStart
<1>7. ASSUME NEW k \in 1 .. 5
      PROVE  /\ Maps!RiverCourse[k] \in Maps!Directions
             /\ Maps!OppositeDirection(Maps!RiverCourse[k]) \in Maps!Directions
             /\ Maps!OppositeDirection(Maps!OppositeDirection(Maps!RiverCourse[k])) = Maps!RiverCourse[k]
             /\ Maps!Toward(RiverTiles[k], Maps!RiverCourse[k]) = RiverTiles[k + 1]
             /\ Maps!Toward(RiverTiles[k + 1], Maps!OppositeDirection(Maps!RiverCourse[k])) = RiverTiles[k]
  <2>1. k = 1 \/ k = 2 \/ k = 3 \/ k = 4 \/ k = 5
    OBVIOUS
  <2>2. CASE k = 1
    BY <1>1, <1>3, <1>4, <1>5, <2>2 DEF RiverTiles, Maps!Directions
  <2>3. CASE k = 2
    BY <1>1, <1>3, <1>4, <1>5, <2>3 DEF RiverTiles, Maps!Directions
  <2>4. CASE k = 3
    BY <1>1, <1>3, <1>4, <1>5, <2>4 DEF RiverTiles, Maps!Directions
  <2>5. CASE k = 4
    BY <1>1, <1>3, <1>4, <1>5, <2>5 DEF RiverTiles, Maps!Directions
  <2>6. CASE k = 5
    BY <1>1, <1>3, <1>4, <1>5, <2>6 DEF RiverTiles, Maps!Directions
  <2> QED
    BY <2>1, <2>2, <2>3, <2>4, <2>5, <2>6
<1>8. ASSUME NEW k \in 1 .. 5
      PROVE  /\ Maps!RiverBed[k].elevation = RiverHeights[k + 1]
             /\ Maps!RiverBed[k].terrain \in Maps!TerrainTypes
             /\ RiverHeights[k + 1] \in 0 .. 3 /\ RiverHeights[k + 1] <= RiverHeights[k]
  <2>1. k = 1 \/ k = 2 \/ k = 3 \/ k = 4 \/ k = 5
    OBVIOUS
  <2>2. "Plains" \in Maps!TerrainTypes
    BY DEF Maps!TerrainTypes, Maps!TerrainProperties
  <2> QED
    BY <2>1, <2>2 DEF Maps!RiverBed, RiverHeights
<1> QED
  BY <1>6, <1>7, <1>8

\* Which tiles are different.
LEMMA RiverTilesDiffer ==
  \A i, j \in 1 .. 6 : RiverTiles[i] = RiverTiles[j] => i = j
<1>1. SUFFICES ASSUME NEW i \in 1 .. 6, NEW j \in 1 .. 6, RiverTiles[i] = RiverTiles[j]
               PROVE  i = j
  OBVIOUS
<1>2. (i = 1 \/ i = 2 \/ i = 3 \/ i = 4 \/ i = 5 \/ i = 6) /\ (j = 1 \/ j = 2 \/ j = 3 \/ j = 4 \/ j = 5 \/ j = 6)
  OBVIOUS
<1> QED
  BY <1>1, <1>2 DEF RiverTiles

LEMMA RiverIsOnMap ==
  ASSUME NEW h \in Nat, NEW w \in Nat, h >= 15, w >= 15, NEW k \in 1 .. 6
  PROVE  RiverTiles[k] \in Maps!Grid(<<h, w>>)
<1>1. k = 1 \/ k = 2 \/ k = 3 \/ k = 4 \/ k = 5 \/ k = 6
  OBVIOUS
<1>2. Maps!Grid(<<h, w>>) = (0 .. h - 1) \X (0 .. w - 1)
  BY DEF Maps!Grid
<1>3. \A r \in 0 .. 14, c \in 0 .. 14 : r \in 0 .. h - 1 /\ c \in 0 .. w - 1
  OBVIOUS
<1>4. \A r \in 0 .. 14, c \in 0 .. 14 : <<r, c>> \in Maps!Grid(<<h, w>>)
  BY <1>2, <1>3
<1>5. RiverTiles[k] = <<RiverTiles[k][1], RiverTiles[k][2]>>
      /\ RiverTiles[k][1] \in 0 .. 14 /\ RiverTiles[k][2] \in 0 .. 14
  BY <1>1 DEF RiverTiles
<1> QED
  BY <1>4, <1>5, Zenon

\* river is what the loop has, segment by segment.
RiverStep(f, before, n) ==
  LET next == Maps!Toward(before.at, Maps!RiverCourse[n])
      joined == Maps!SetRiverSegment(before.tiles, before.at, Maps!RiverCourse[n])
  IN  IF next \notin DOMAIN f THEN before
      ELSE [at |-> next, tiles |-> Maps!Dig(joined, next, Maps!RiverBed[n])]

LEMMA RiverRecursion ==
  ASSUME NEW f
  PROVE  /\ Maps!River(f)[0] = [at |-> Maps!RiverStart,
                                tiles |-> Maps!Dig(f, Maps!RiverStart, Maps!RiverSource)]
         /\ \A n \in 0 .. 4 : Maps!River(f)[n + 1] = RiverStep(f, Maps!River(f)[n], n + 1)
<1> DEFINE start == [at |-> Maps!RiverStart, tiles |-> Maps!Dig(f, Maps!RiverStart, Maps!RiverSource)]
           Further(s, n) == RiverStep(f, s, n)
           Good(g, k) == g = [n \in 0 .. k |-> IF n = 0 THEN start ELSE Further(g[n - 1], n)]
           T == {k \in Nat : \E g : Good(g, k)}
<1> HIDE DEF start, Further
<1>1. 0 \in T
  <2> DEFINE g == [n \in 0 .. 0 |-> start]
  <2>1. Good(g, 0)
    OBVIOUS
  <2> QED
    BY <2>1
<1>2. ASSUME NEW k \in Nat, k \in T
      PROVE  k + 1 \in T
  <2>1. PICK g : Good(g, k)
    BY <1>2
  <2> DEFINE r == [n \in 0 .. k + 1 |-> IF n = k + 1 THEN Further(g[k], k + 1) ELSE g[n]]
  <2>2. ASSUME NEW n \in 0 .. k + 1
        PROVE  r[n] = IF n = 0 THEN start ELSE Further(r[n - 1], n)
    <3>1. CASE n = k + 1
      <4>1. r[n] = Further(g[k], n) /\ r[n - 1] = g[k]
        BY <3>1
      <4> QED
        BY <3>1, <4>1
    <3>2. CASE n # k + 1
      <4>1. n \in 0 .. k /\ r[n] = g[n]
        BY <2>2, <3>2
      <4>2. g[n] = IF n = 0 THEN start ELSE Further(g[n - 1], n)
        BY <2>1, <4>1
      <4>3. n # 0 => r[n - 1] = g[n - 1]
        BY <4>1
      <4> QED
        BY <4>1, <4>2, <4>3
    <3> QED
      BY <3>1, <3>2
  <2>3. Good(r, k + 1)
    BY <2>2
  <2> HIDE DEF Good, r
  <2>4. (\E g2 : Good(g2, k + 1)) /\ k + 1 \in Nat
    BY <2>3
  <2> QED
    BY <2>4
<1>3. \E g : Good(g, 5)
  <2>1. \A n \in 0 .. 5 - 1 : n \in T => n + 1 \in T
    BY <1>2
  <2> HIDE DEF T
  <2>2. 5 \in T
    BY <1>1, <2>1, UpTo
  <2> QED
    BY <2>2 DEF T
<1> DEFINE found == CHOOSE g : Good(g, 5)
<1>4. Good(found, 5)
  BY <1>3
<1>5. Maps!River(f) = found
  BY RiverCourseIs DEF Maps!River, start, Further, RiverStep
<1> HIDE DEF found
<1>6. /\ found[0] = start
      /\ \A n \in 0 .. 4 : found[n + 1] = Further(found[n], n + 1)
  <2>1. found[0] = start
    BY <1>4
  <2>2. ASSUME NEW n \in 0 .. 4
        PROVE  found[n + 1] = Further(found[n], n + 1)
    <3>1. n + 1 \in 0 .. 5 /\ n + 1 # 0 /\ (n + 1) - 1 = n
      OBVIOUS
    <3> QED
      BY <1>4, <3>1
  <2> QED
    BY <2>1, <2>2
<1> QED
  BY <1>5, <1>6 DEF start, Further

\* g is f but for a tile that was dug.
IsDug(D, f, t, bed, g) ==
  /\ g \in [D -> Maps!Tile]
  /\ \A u \in D : u # t => g[u] = f[u]
  /\ g[t].elevation = bed.elevation /\ g[t].waterLevel = 0
  /\ g[t].incoming = f[t].incoming /\ g[t].outgoing = f[t].outgoing

Dug(tile, terrain, elevation) ==
  [tile EXCEPT !.terrain = terrain, !.elevation = elevation, !.waterLevel = 0]

LEMMA DugIsTile ==
  ASSUME NEW tile \in Maps!Tile, NEW x \in Maps!TerrainTypes, NEW y \in 0 .. 3
  PROVE  /\ Dug(tile, x, y) \in Maps!Tile
         /\ Dug(tile, x, y).elevation = y /\ Dug(tile, x, y).waterLevel = 0
         /\ Dug(tile, x, y).incoming = tile.incoming /\ Dug(tile, x, y).outgoing = tile.outgoing
<1> DEFINE z == Dug(tile, x, y)
<1>1. z.elevation = y /\ z.waterLevel = 0 /\ z.incoming = tile.incoming /\ z.outgoing = tile.outgoing
  BY DEF Dug, Maps!Tile
<1>2. 0 \in 0 .. 1
  OBVIOUS
<1>3. z \in Maps!Tile
  BY <1>2 DEF Dug, Maps!Tile
<1> QED
  BY <1>1, <1>3

LEMMA DigIs ==
  ASSUME NEW D, NEW f \in [D -> Maps!Tile], NEW t \in D, NEW bed,
         bed.terrain \in Maps!TerrainTypes, bed.elevation \in 0 .. 3
  PROVE  IsDug(D, f, t, bed, Maps!Dig(f, t, bed))
<1> DEFINE g == Maps!Dig(f, t, bed)
           dug == Dug(f[t], bed.terrain, bed.elevation)
<1>1. f[t] \in Maps!Tile
  OBVIOUS
<1>2. /\ dug \in Maps!Tile /\ dug.elevation = bed.elevation /\ dug.waterLevel = 0
      /\ dug.incoming = f[t].incoming /\ dug.outgoing = f[t].outgoing
  BY <1>1, DugIsTile
<1>3. g = [f EXCEPT ![t] = dug]
  BY DEF Maps!Dig, Dug
<1> HIDE DEF dug, g
<1>4. g \in [D -> Maps!Tile] /\ g[t] = dug /\ \A u \in D : u # t => g[u] = f[u]
  BY <1>2, <1>3
<1>5. IsDug(D, f, t, bed, g)
  BY <1>2, <1>4 DEF IsDug
<1> QED
  BY <1>5 DEF g

LEMMA SegmentIs ==
  ASSUME NEW D, NEW f \in [D -> Maps!Tile], NEW src \in D, NEW d \in Maps!Directions,
         Maps!Toward(src, d) \in D, Maps!Toward(src, d) # src,
         Maps!OppositeDirection(d) \in Maps!Directions
  PROVE  LET g == Maps!SetRiverSegment(f, src, d)
             next == Maps!Toward(src, d)
         IN  /\ g \in [D -> Maps!Tile]
             /\ \A u \in D : u \notin {src, next} => g[u] = f[u]
             /\ g[src].elevation = f[src].elevation /\ g[src].waterLevel = f[src].waterLevel
             /\ g[src].incoming = f[src].incoming /\ g[src].outgoing = {d}
             /\ g[next].incoming = {Maps!OppositeDirection(d)} /\ g[next].outgoing = f[next].outgoing
<1> DEFINE next == Maps!Toward(src, d)
           opp == Maps!OppositeDirection(d)
           g == Maps!SetRiverSegment(f, src, d)
           left == [f[src] EXCEPT !.outgoing = {d}]
           entered == [f[next] EXCEPT !.incoming = {opp}]
<1>1. f[src] \in Maps!Tile /\ f[next] \in Maps!Tile /\ next \in D /\ next # src /\ opp \in Maps!Directions
  OBVIOUS
<1>2. g = [[f EXCEPT ![src] = left] EXCEPT ![next] = entered]
  BY DEF Maps!SetRiverSegment
<1> HIDE DEF next, opp
<1>3. /\ left \in Maps!Tile /\ left.elevation = f[src].elevation /\ left.waterLevel = f[src].waterLevel
      /\ left.incoming = f[src].incoming /\ left.outgoing = {d}
  BY <1>1 DEF Maps!Tile
<1>4. entered \in Maps!Tile /\ entered.incoming = {opp} /\ entered.outgoing = f[next].outgoing
  BY <1>1 DEF Maps!Tile
<1> HIDE DEF left, entered, g
<1>5. /\ g \in [D -> Maps!Tile] /\ g[src] = left /\ g[next] = entered
      /\ \A u \in D : u \notin {src, next} => g[u] = f[u]
  BY <1>1, <1>2, <1>3, <1>4
<1> QED
  BY <1>3, <1>4, <1>5 DEF g, next, opp

\* The river is as far as its n-th segment, and nowhere else is one.
Carved(D, f, n) ==
  /\ f \in [D -> Maps!Tile]
  /\ \A k \in 1 .. n + 1 :
       LET t == RiverTiles[k]
       IN  /\ t \in D
           /\ f[t].elevation = RiverHeights[k] /\ f[t].waterLevel = 0
           /\ f[t].incoming = IF k = 1 THEN {} ELSE {Maps!OppositeDirection(Maps!RiverCourse[k - 1])}
           /\ f[t].outgoing = IF k = n + 1 THEN {} ELSE {Maps!RiverCourse[k]}
  /\ \A u \in D : (\A k \in 1 .. n + 1 : u # RiverTiles[k]) => f[u].incoming = {} /\ f[u].outgoing = {}

LEMMA CarvesOn ==
  ASSUME NEW D, \A k \in 1 .. 6 : RiverTiles[k] \in D,
         NEW n \in 0 .. 4, NEW f, Carved(D, f, n)
  PROVE  Carved(D, Maps!Dig(Maps!SetRiverSegment(f, RiverTiles[n + 1], Maps!RiverCourse[n + 1]),
                            RiverTiles[n + 2], Maps!RiverBed[n + 1]), n + 1)
<1> DEFINE i == n + 1
           src == RiverTiles[i]
           next == RiverTiles[i + 1]
           d == Maps!RiverCourse[i]
           opp == Maps!OppositeDirection(d)
           bed == Maps!RiverBed[i]
           g == Maps!SetRiverSegment(f, src, d)
           r == Maps!Dig(g, next, bed)
<1>1. i \in 1 .. 5 /\ i \in 1 .. 6 /\ i + 1 \in 1 .. 6 /\ i # i + 1 /\ i + 1 = n + 2
  OBVIOUS
<1>2. /\ d \in Maps!Directions /\ opp \in Maps!Directions
      /\ Maps!Toward(src, d) = next
      /\ bed.elevation = RiverHeights[i + 1] /\ bed.elevation \in 0 .. 3 /\ bed.terrain \in Maps!TerrainTypes
  <2> HIDE DEF i
  <2> QED
    BY <1>1, RiverCourseIs
<1>3. src \in D /\ next \in D /\ src # next /\ f \in [D -> Maps!Tile]
  <2>1. src \in D /\ next \in D /\ src # next
    <3> HIDE DEF i
    <3> QED
      BY <1>1, RiverTilesDiffer
  <2> QED
    BY <2>1 DEF Carved
<1>4. /\ f[src].elevation = RiverHeights[i] /\ f[src].waterLevel = 0
      /\ f[src].incoming = IF i = 1 THEN {} ELSE {Maps!OppositeDirection(Maps!RiverCourse[i - 1])}
  <2>1. i \in 1 .. n + 1
    OBVIOUS
  <2> HIDE DEF i
  <2> QED
    BY <2>1 DEF Carved
<1>5. f[next].outgoing = {}
  <2>1. \A k \in 1 .. n + 1 : k \in 1 .. 6 /\ k # i + 1
    OBVIOUS
  <2>2. \A k \in 1 .. n + 1 : next # RiverTiles[k]
    <3> HIDE DEF i
    <3> QED
      BY <1>1, <2>1, RiverTilesDiffer
  <2> HIDE DEF i, next
  <2> QED
    BY <1>3, <2>2 DEF Carved
<1> HIDE DEF src, next, d, opp, bed
<1>6. /\ g \in [D -> Maps!Tile]
      /\ \A u \in D : u \notin {src, next} => g[u] = f[u]
      /\ g[src].elevation = f[src].elevation /\ g[src].waterLevel = f[src].waterLevel
      /\ g[src].incoming = f[src].incoming /\ g[src].outgoing = {d}
      /\ g[next].incoming = {opp} /\ g[next].outgoing = f[next].outgoing
  <2>1. Maps!Toward(src, d) \in D /\ Maps!Toward(src, d) # src /\ Maps!OppositeDirection(d) \in Maps!Directions
    BY <1>2, <1>3 DEF opp
  <2> QED
    BY <1>2, <1>3, <2>1, SegmentIs DEF opp
<1> HIDE DEF g
<1>7. /\ r \in [D -> Maps!Tile]
      /\ \A u \in D : u # next => r[u] = g[u]
      /\ r[next].elevation = bed.elevation /\ r[next].waterLevel = 0
      /\ r[next].incoming = g[next].incoming /\ r[next].outgoing = g[next].outgoing
  <2>1. IsDug(D, g, next, bed, r)
    BY <1>2, <1>3, <1>6, DigIs
  <2> HIDE DEF r
  <2> QED
    BY <2>1 DEF IsDug
<1> HIDE DEF r
<1>8. ASSUME NEW k \in 1 .. i + 1
      PROVE  LET t == RiverTiles[k]
             IN  /\ t \in D
                 /\ r[t].elevation = RiverHeights[k] /\ r[t].waterLevel = 0
                 /\ r[t].incoming = IF k = 1 THEN {} ELSE {Maps!OppositeDirection(Maps!RiverCourse[k - 1])}
                 /\ r[t].outgoing = IF k = i + 1 THEN {} ELSE {Maps!RiverCourse[k]}
  <2>1. CASE k = i + 1
    <3>1. k # 1 /\ k - 1 = i
      BY <1>1, <2>1
    <3> QED
      BY <1>2, <1>3, <1>5, <1>6, <1>7, <2>1, <3>1 DEF next, opp, d
  <2>2. CASE k = i
    <3>1. k # i + 1
      BY <1>1, <2>2
    <3> QED
      BY <1>3, <1>4, <1>6, <1>7, <2>2, <3>1 DEF src, d
  <2>3. CASE k # i + 1 /\ k # i
    <3>1. k \in 1 .. n + 1 /\ k # n + 1 /\ k \in 1 .. 6
      BY <2>3
    <3>2. RiverTiles[k] # src /\ RiverTiles[k] # next
      <4> HIDE DEF i
      <4> QED
        BY <1>1, <2>3, <3>1, RiverTilesDiffer DEF src, next
    <3>3. RiverTiles[k] \in D
      BY <3>1
    <3>4. r[RiverTiles[k]] = f[RiverTiles[k]]
      BY <1>6, <1>7, <3>2, <3>3
    <3>5. /\ f[RiverTiles[k]].elevation = RiverHeights[k] /\ f[RiverTiles[k]].waterLevel = 0
          /\ f[RiverTiles[k]].incoming = IF k = 1 THEN {} ELSE {Maps!OppositeDirection(Maps!RiverCourse[k - 1])}
          /\ f[RiverTiles[k]].outgoing = {Maps!RiverCourse[k]}
      BY <3>1 DEF Carved
    <3> QED
      BY <2>3, <3>3, <3>4, <3>5
  <2> QED
    BY <2>1, <2>2, <2>3
<1>9. ASSUME NEW u \in D, \A k \in 1 .. i + 1 : u # RiverTiles[k]
      PROVE  r[u].incoming = {} /\ r[u].outgoing = {}
  <2>1. i \in 1 .. i + 1 /\ i + 1 \in 1 .. i + 1 /\ \A k \in 1 .. n + 1 : k \in 1 .. i + 1
    OBVIOUS
  <2>2. u # src /\ u # next
    <3> HIDE DEF i
    <3> QED
      BY <1>9, <2>1 DEF src, next
  <2>3. \A k \in 1 .. n + 1 : u # RiverTiles[k]
    BY <1>9, <2>1
  <2>4. f[u].incoming = {} /\ f[u].outgoing = {}
    BY <2>3 DEF Carved
  <2> QED
    BY <1>6, <1>7, <2>2, <2>4
<1>10. Carved(D, r, i)
  <2> HIDE DEF i
  <2> QED
    BY <1>7, <1>8, <1>9 DEF Carved
<1> QED
  BY <1>10 DEF r, g, next, src, d, bed

\* The demo river is carved into a map that has none.
LEMMA RiverIsCarved ==
  ASSUME NEW h \in Nat, NEW w \in Nat, h >= 15, w >= 15,
         NEW f \in [Maps!Grid(<<h, w>>) -> Maps!Tile],
         \A t \in Maps!Grid(<<h, w>>) : f[t].incoming = {} /\ f[t].outgoing = {}
  PROVE  Carved(Maps!Grid(<<h, w>>), Maps!River(f)[5].tiles, 5)
<1> DEFINE D == Maps!Grid(<<h, w>>)
           river == Maps!River(f)
           T == {n \in Nat : n <= 5 => river[n].at = RiverTiles[n + 1] /\ Carved(D, river[n].tiles, n)}
<1>1. \A k \in 1 .. 6 : RiverTiles[k] \in D
  BY RiverIsOnMap
<1>2. /\ river[0] = [at |-> Maps!RiverStart, tiles |-> Maps!Dig(f, Maps!RiverStart, Maps!RiverSource)]
      /\ \A n \in 0 .. 4 : river[n + 1] = RiverStep(f, river[n], n + 1)
  BY RiverRecursion
<1> HIDE DEF river, D
<1>3. 0 \in T
  <2> DEFINE g == Maps!Dig(f, RiverTiles[1], Maps!RiverSource)
  <2>1. river[0].at = RiverTiles[1] /\ river[0].tiles = g
    BY <1>2, RiverCourseIs
  <2>2. /\ Maps!RiverSource.terrain \in Maps!TerrainTypes
        /\ Maps!RiverSource.elevation = RiverHeights[1] /\ Maps!RiverSource.elevation \in 0 .. 3
    BY DEF Maps!RiverSource, RiverHeights, Maps!TerrainTypes, Maps!TerrainProperties
  <2>3. RiverTiles[1] \in D /\ f \in [D -> Maps!Tile]
    BY <1>1 DEF D
  <2>4. IsDug(D, f, RiverTiles[1], Maps!RiverSource, g)
    BY <2>2, <2>3, DigIs
  <2> HIDE DEF g
  <2>5. \A t \in D : f[t].incoming = {} /\ f[t].outgoing = {}
    BY DEF D
  <2>6. ASSUME NEW k \in 1 .. 0 + 1
        PROVE  k = 1 /\ k = 0 + 1
    OBVIOUS
  <2>7. 1 \in 1 .. 0 + 1
    OBVIOUS
  <2>8. Carved(D, g, 0)
    BY <2>2, <2>3, <2>4, <2>5, <2>6, <2>7 DEF Carved, IsDug
  <2>9. river[0].at = RiverTiles[0 + 1] /\ Carved(D, river[0].tiles, 0)
    BY <2>1, <2>8
  <2> QED
    BY <2>9
<1>4. ASSUME NEW n \in 0 .. 4, n \in T
      PROVE  n + 1 \in T
  <2> DEFINE before == river[n]
             d == Maps!RiverCourse[n + 1]
             joined == Maps!SetRiverSegment(before.tiles, before.at, d)
  <2>1. before.at = RiverTiles[n + 1] /\ Carved(D, before.tiles, n)
    BY <1>4
  <2>2. Maps!Toward(before.at, d) = RiverTiles[n + 2] /\ RiverTiles[n + 2] \in D
    <3> DEFINE i == n + 1
    <3>1. i \in 1 .. 5 /\ i + 1 \in 1 .. 6 /\ i + 1 = n + 2
      OBVIOUS
    <3>2. Maps!Toward(RiverTiles[i], Maps!RiverCourse[i]) = RiverTiles[i + 1] /\ RiverTiles[i + 1] \in D
      <4> HIDE DEF i
      <4> QED
        BY <1>1, <3>1, RiverCourseIs
    <3> QED
      BY <2>1, <3>1, <3>2
  <2>3. DOMAIN f = D
    BY DEF D
  <2>4. river[n + 1] = [at |-> RiverTiles[n + 2],
                        tiles |-> Maps!Dig(joined, RiverTiles[n + 2], Maps!RiverBed[n + 1])]
    BY <1>2, <2>2, <2>3 DEF RiverStep
  <2>5. Carved(D, Maps!Dig(joined, RiverTiles[n + 2], Maps!RiverBed[n + 1]), n + 1)
    BY <1>1, <2>1, CarvesOn
  <2>6. river[n + 1].at = RiverTiles[n + 2] /\ Carved(D, river[n + 1].tiles, n + 1)
    BY <2>4, <2>5
  <2>7. n + 1 \in Nat /\ (n + 1) + 1 = n + 2
    OBVIOUS
  <2> QED
    BY <2>6, <2>7
<1>5. 5 \in T
  <2>1. \A n \in 0 .. 5 - 1 : n \in T => n + 1 \in T
    BY <1>4
  <2> HIDE DEF T
  <2> QED
    BY <1>3, <2>1, UpTo
<1> QED
  BY <1>5 DEF D, river

\* What is said of the rivers, of the tiles of any map.
Runs(f) ==
  \A t \in DOMAIN f :
    /\ \A d \in f[t].outgoing :
         /\ Maps!Toward(t, d) \in DOMAIN f
         /\ f[Maps!Toward(t, d)].incoming = {Maps!OppositeDirection(d)}
         /\ f[Maps!Toward(t, d)].elevation <= f[t].elevation
    /\ \A d \in f[t].incoming :
         /\ Maps!Toward(t, d) \in DOMAIN f
         /\ f[Maps!Toward(t, d)].outgoing = {Maps!OppositeDirection(d)}
    /\ f[t].incoming \cup f[t].outgoing # {} => ~Maps!IsUnderwater(f[t])

LEMMA CarvedRuns ==
  ASSUME NEW D, NEW f, Carved(D, f, 5)
  PROVE  Runs(f)
<1>1. f \in [D -> Maps!Tile] /\ DOMAIN f = D
  BY DEF Carved
<1>2. ASSUME NEW k \in 1 .. 6
      PROVE  LET t == RiverTiles[k]
             IN  /\ t \in D
                 /\ f[t].elevation = RiverHeights[k] /\ f[t].waterLevel = 0
                 /\ f[t].incoming = IF k = 1 THEN {} ELSE {Maps!OppositeDirection(Maps!RiverCourse[k - 1])}
                 /\ f[t].outgoing = IF k = 6 THEN {} ELSE {Maps!RiverCourse[k]}
  <2> DEFINE t == RiverTiles[k]
  <2>1. k \in 1 .. 5 + 1
    OBVIOUS
  <2>2. /\ t \in D
        /\ f[t].elevation = RiverHeights[k] /\ f[t].waterLevel = 0
        /\ f[t].incoming = IF k = 1 THEN {} ELSE {Maps!OppositeDirection(Maps!RiverCourse[k - 1])}
        /\ f[t].outgoing = IF k = 5 + 1 THEN {} ELSE {Maps!RiverCourse[k]}
    BY <2>1, Zenon DEF Carved
  <2>3. k = 5 + 1 <=> k = 6
    OBVIOUS
  <2> HIDE DEF t
  <2>4. f[t].outgoing = IF k = 6 THEN {} ELSE {Maps!RiverCourse[k]}
    BY <2>2, <2>3
  <2> QED
    BY <2>2, <2>4, Zenon DEF t
<1>3. ASSUME NEW t \in D
      PROVE  /\ \A d \in f[t].outgoing :
                  /\ Maps!Toward(t, d) \in DOMAIN f
                  /\ f[Maps!Toward(t, d)].incoming = {Maps!OppositeDirection(d)}
                  /\ f[Maps!Toward(t, d)].elevation <= f[t].elevation
             /\ \A d \in f[t].incoming :
                  /\ Maps!Toward(t, d) \in DOMAIN f
                  /\ f[Maps!Toward(t, d)].outgoing = {Maps!OppositeDirection(d)}
             /\ f[t].incoming \cup f[t].outgoing # {} => ~Maps!IsUnderwater(f[t])
  <2>1. CASE \A k \in 1 .. 6 : t # RiverTiles[k]
    <3>1. f[t].incoming = {} /\ f[t].outgoing = {}
      <4>1. 5 + 1 = 6
        OBVIOUS
      <4> QED
        BY <2>1, <4>1 DEF Carved
    <3> QED
      BY <3>1
  <2>2. CASE \E k \in 1 .. 6 : t = RiverTiles[k]
    <3>1. PICK k \in 1 .. 6 : t = RiverTiles[k]
      BY <2>2
    <3>2. ASSUME NEW d \in f[t].outgoing
          PROVE  /\ Maps!Toward(t, d) \in DOMAIN f
                 /\ f[Maps!Toward(t, d)].incoming = {Maps!OppositeDirection(d)}
                 /\ f[Maps!Toward(t, d)].elevation <= f[t].elevation
      <4> DEFINE next == RiverTiles[k + 1]
      <4>1. k # 6 /\ d = Maps!RiverCourse[k]
        BY <1>2, <3>1, <3>2
      <4>2. k \in 1 .. 5 /\ k + 1 \in 1 .. 6 /\ k + 1 # 1 /\ (k + 1) - 1 = k
        BY <4>1
      <4>3. Maps!Toward(t, d) = next /\ RiverHeights[k + 1] <= RiverHeights[k]
        BY <3>1, <4>1, <4>2, RiverCourseIs
      <4>4. next \in D /\ f[next].elevation = RiverHeights[k + 1]
            /\ f[next].incoming = {Maps!OppositeDirection(Maps!RiverCourse[k])}
        <5> DEFINE j == k + 1
        <5>1. j \in 1 .. 6 /\ j # 1 /\ j - 1 = k
          BY <4>2
        <5> HIDE DEF j
        <5>2. /\ RiverTiles[j] \in D /\ f[RiverTiles[j]].elevation = RiverHeights[j]
              /\ f[RiverTiles[j]].incoming = {Maps!OppositeDirection(Maps!RiverCourse[j - 1])}
          BY <1>2, <5>1
        <5> QED
          BY <5>1, <5>2 DEF j
      <4>5. f[t].elevation = RiverHeights[k]
        BY <1>2, <3>1
      <4> HIDE DEF next
      <4> QED
        BY <1>1, <4>1, <4>3, <4>4, <4>5
    <3>3. ASSUME NEW d \in f[t].incoming
          PROVE  /\ Maps!Toward(t, d) \in DOMAIN f
                 /\ f[Maps!Toward(t, d)].outgoing = {Maps!OppositeDirection(d)}
      <4>1. k # 1 /\ d = Maps!OppositeDirection(Maps!RiverCourse[k - 1])
        BY <1>2, <3>1, <3>3
      <4> DEFINE i == k - 1
      <4>2. i \in 1 .. 5 /\ i \in 1 .. 6 /\ i # 6 /\ i + 1 = k
        BY <4>1
      <4> HIDE DEF i
      <4>3. Maps!Toward(RiverTiles[i + 1], Maps!OppositeDirection(Maps!RiverCourse[i])) = RiverTiles[i]
            /\ Maps!OppositeDirection(Maps!OppositeDirection(Maps!RiverCourse[i])) = Maps!RiverCourse[i]
        BY <4>2, RiverCourseIs
      <4>4. RiverTiles[i] \in D /\ f[RiverTiles[i]].outgoing = {Maps!RiverCourse[i]}
        BY <1>2, <4>2
      <4>5. d = Maps!OppositeDirection(Maps!RiverCourse[i])
        BY <4>1 DEF i
      <4> QED
        BY <1>1, <3>1, <4>2, <4>3, <4>4, <4>5
    <3>4. ~Maps!IsUnderwater(f[t])
      <4>1. f[t].waterLevel = 0 /\ f[t].elevation = RiverHeights[k]
        BY <1>2, <3>1
      <4>2. RiverHeights[k] \in 0 .. 3
        <5>1. k = 1 \/ k = 2 \/ k = 3 \/ k = 4 \/ k = 5 \/ k = 6
          OBVIOUS
        <5> QED
          BY <5>1 DEF RiverHeights
      <4>3. ~(0 > RiverHeights[k])
        BY <4>2
      <4> QED
        BY <4>1, <4>3 DEF Maps!IsUnderwater
    <3> QED
      BY <3>2, <3>3, <3>4
  <2> QED
    BY <2>1, <2>2
<1> QED
  BY <1>1, <1>3 DEF Runs

-----------------------------------------------------------------------------
(* Maps. *)

\* A map of one of the sizes, whose rivers run down.
IsMap(m) ==
  \E size \in Sizes : \E f \in [Maps!Grid(size) -> Maps!Tile] :
    m = [size |-> size, tile |-> f] /\ Runs(f)

LEMMA SizesArePositive ==
  ASSUME NEW size \in Sizes
  PROVE  size = <<size[1], size[2]>> /\ size[1] \in Nat \ {0} /\ size[2] \in Nat \ {0}
BY MapsAssumption DEF Maps!TerrainMapAssumption

LEMMA MapsAreSized ==
  ASSUME NEW m, IsMap(m)
  PROVE  /\ WellSized(m) /\ m.size \in Sizes /\ m.tile \in [Maps!Grid(m.size) -> Maps!Tile]
         /\ DOMAIN m.tile = Maps!Grid(m.size)
         /\ m = [size |-> m.size, tile |-> m.tile] /\ Runs(m.tile)
<1>1. PICK size \in Sizes :
        \E f \in [Maps!Grid(size) -> Maps!Tile] : m = [size |-> size, tile |-> f] /\ Runs(f)
  BY DEF IsMap
<1>2. PICK f \in [Maps!Grid(size) -> Maps!Tile] : m = [size |-> size, tile |-> f] /\ Runs(f)
  BY <1>1
<1>3. m.size = size /\ m.tile = f /\ DOMAIN f = Maps!Grid(size)
  BY <1>2
<1>4. size \in (Nat \ {0}) \X (Nat \ {0})
  BY SizesArePositive
<1> QED
  BY <1>2, <1>3, <1>4 DEF WellSized

\* Which tiles are new.
LEMMA NewTiles ==
  ASSUME NEW terrain \in Maps!TerrainTypes
  PROVE  /\ Maps!GenerateTile(terrain) \in Maps!Tile
         /\ Maps!GenerateTile(terrain).incoming = {} /\ Maps!GenerateTile(terrain).outgoing = {}
<1>1. Maps!DefaultElevation[terrain] \in 0 .. 3
  BY DEF Maps!DefaultElevation, Maps!TerrainTypes, Maps!TerrainProperties
<1> DEFINE e == Maps!DefaultElevation[terrain]
           l == IF terrain = "Water" THEN 1 ELSE 0
<1>2. l \in 0 .. 1
  OBVIOUS
<1>3. Maps!GenerateTile(terrain)
      = [terrain |-> terrain, elevation |-> e, waterLevel |-> l, incoming |-> {}, outgoing |-> {}]
  BY DEF Maps!GenerateTile
<1> HIDE DEF e, l
<1>4. e \in 0 .. 3
  BY <1>1 DEF e
<1> QED
  BY <1>2, <1>3, <1>4 DEF Maps!Tile

LEMMA NewMapsAreMaps ==
  ASSUME NEW size \in Sizes, NEW roll \in Dice[size]
  PROVE  IsMap(Maps!NewMap(size, roll)) /\ Maps!NewMap(size, roll).size = size
<1> DEFINE f == [t \in Maps!Grid(size) |-> Maps!GenerateTile(roll[t])]
           g == Maps!AddDemoRivers(f, size)
<1>1. ASSUME NEW t \in Maps!Grid(size)
      PROVE  roll[t] \in Maps!TerrainTypes
  BY MapsAssumption DEF Maps!TerrainMapAssumption
<1>2. f \in [Maps!Grid(size) -> Maps!Tile]
      /\ \A t \in Maps!Grid(size) : f[t].incoming = {} /\ f[t].outgoing = {}
  BY <1>1, NewTiles
<1> HIDE DEF f
<1>3. g \in [Maps!Grid(size) -> Maps!Tile] /\ Runs(g)
  <2>1. CASE size[1] < 15 \/ size[2] < 15
    <3>1. g = f
      BY <2>1 DEF Maps!AddDemoRivers, Maps!RiverMinMapSize
    <3> QED
      BY <1>2, <3>1 DEF Runs
  <2>2. CASE ~(size[1] < 15 \/ size[2] < 15)
    <3> DEFINE h == size[1]
               w == size[2]
    <3>1. h \in Nat /\ w \in Nat /\ h >= 15 /\ w >= 15 /\ size = <<h, w>>
      BY <2>2, SizesArePositive
    <3>2. g = Maps!River(f)[5].tiles
      BY <2>2, RiverCourseIs DEF Maps!AddDemoRivers, Maps!RiverMinMapSize
    <3> HIDE DEF h, w, g
    <3>3. Carved(Maps!Grid(size), g, 5)
      BY <1>2, <3>1, <3>2, RiverIsCarved
    <3>4. Runs(g)
      BY <3>3, CarvedRuns
    <3> QED
      BY <3>3, <3>4 DEF Carved
  <2> QED
    BY <2>1, <2>2
<1>4. Maps!NewMap(size, roll) = [size |-> size, tile |-> g]
  BY DEF Maps!NewMap, f
<1> HIDE DEF g
<1> QED
  BY <1>3, <1>4 DEF IsMap

\* Other terrain changes nothing for the rivers.
LEMMA TerrainIsLaid ==
  ASSUME NEW m, IsMap(m), NEW terrain \in [Maps!Grid(m.size) -> Maps!TerrainTypes]
  PROVE  /\ IsMap(Maps!WithTerrain(m, terrain)) /\ Maps!WithTerrain(m, terrain).size = m.size
         /\ Maps!TerrainOf(Maps!WithTerrain(m, terrain)) = terrain
<1> DEFINE D == Maps!Grid(m.size)
           f == m.tile
           g == [t \in D |-> [f[t] EXCEPT !.terrain = terrain[t]]]
           o == Maps!WithTerrain(m, terrain)
<1>1. /\ m.size \in Sizes /\ f \in [D -> Maps!Tile] /\ DOMAIN f = D
      /\ m = [size |-> m.size, tile |-> f] /\ Runs(f)
  BY MapsAreSized
<1>2. o = [m EXCEPT !.tile = g]
  BY <1>1 DEF Maps!WithTerrain
<1> HIDE DEF g, f
<1>3. o = [size |-> m.size, tile |-> g]
  BY <1>1, <1>2
<1>4. ASSUME NEW t \in D
      PROVE  /\ g[t] \in Maps!Tile /\ g[t].terrain = terrain[t]
             /\ g[t].elevation = f[t].elevation /\ g[t].waterLevel = f[t].waterLevel
             /\ g[t].incoming = f[t].incoming /\ g[t].outgoing = f[t].outgoing
  <2>1. ASSUME NEW tile \in Maps!Tile, NEW x \in Maps!TerrainTypes
        PROVE  LET z == [tile EXCEPT !.terrain = x]
               IN  /\ z \in Maps!Tile /\ z.terrain = x
                   /\ z.elevation = tile.elevation /\ z.waterLevel = tile.waterLevel
                   /\ z.incoming = tile.incoming /\ z.outgoing = tile.outgoing
    BY DEF Maps!Tile
  <2>2. f[t] \in Maps!Tile /\ terrain[t] \in Maps!TerrainTypes
    BY <1>1
  <2>3. g[t] = [f[t] EXCEPT !.terrain = terrain[t]]
    BY DEF g
  <2> QED
    BY <2>1, <2>2, <2>3
<1>5. g \in [D -> Maps!Tile] /\ DOMAIN g = D
  <2>1. g = [t \in D |-> g[t]] /\ DOMAIN g = D
    BY DEF g
  <2> QED
    BY <1>4, <2>1
<1>6. Runs(g)
  <2>1. \A t \in D : Maps!IsUnderwater(g[t]) <=> Maps!IsUnderwater(f[t])
    BY <1>4 DEF Maps!IsUnderwater
  <2> HIDE DEF D
  <2> QED
    BY <1>1, <1>4, <1>5, <2>1 DEF Runs
<1>7. Maps!TerrainOf(o) = terrain
  <2>1. Maps!TerrainOf(o) = [t \in D |-> g[t].terrain]
    BY <1>3, <1>5 DEF Maps!TerrainOf
  <2> HIDE DEF D
  <2>2. terrain = [t \in D |-> terrain[t]]
    BY DEF D
  <2> QED
    BY <1>4, <2>1, <2>2
<1> HIDE DEF o, D
<1>8. IsMap(o)
  BY <1>1, <1>3, <1>5, <1>6 DEF IsMap, D
<1> QED
  BY <1>3, <1>7, <1>8 DEF o

LEMMA GeneratedMaps ==
  ASSUME NEW random, IsMap(random), NEW field, NEW m, Maps!IsGenerated(m, random, field)
  PROVE  /\ IsMap(m) /\ m.size = random.size
         /\ Maps!TerrainOf(m)
            = Maps!SmoothPass(Maps!SmoothPass([t \in Maps!Grid(random.size) |-> Maps!ClassifyTerrain(field[t])]))
<1> DEFINE size == random.size
           noisy == [t \in Maps!Grid(size) |-> Maps!ClassifyTerrain(field[t])]
<1>1. size \in Sizes /\ DOMAIN random.tile = Maps!Grid(size)
  BY MapsAreSized
<1>2. Maps!AssignTerrain(random, field) = noisy
  BY <1>1 DEF Maps!AssignTerrain
<1>3. m = Maps!WithTerrain(random, Maps!SmoothPass(Maps!SmoothPass(noisy)))
  BY <1>2 DEF Maps!IsGenerated
<1>4. noisy \in [Maps!Grid(size) -> Maps!TerrainTypes]
  BY ClassesAreTerrain
<1>5. size = <<size[1], size[2]>> /\ size[1] \in Nat \ {0} /\ size[2] \in Nat \ {0}
  BY <1>1, SizesArePositive
<1> DEFINE h == size[1]
           w == size[2]
<1> HIDE DEF noisy, h, w, size
<1>6. noisy \in [Maps!Grid(<<h, w>>) -> Maps!TerrainTypes] /\ h \in Nat \ {0} /\ w \in Nat \ {0}
  BY <1>4, <1>5 DEF h, w
<1>7. Maps!SmoothPass(noisy) \in [Maps!Grid(<<h, w>>) -> Maps!TerrainTypes]
  BY <1>6, SmoothPassIsTerrain
<1>8. Maps!SmoothPass(Maps!SmoothPass(noisy)) \in [Maps!Grid(<<h, w>>) -> Maps!TerrainTypes]
  BY <1>6, <1>7, SmoothPassIsTerrain
<1>9. Maps!SmoothPass(Maps!SmoothPass(noisy)) \in [Maps!Grid(random.size) -> Maps!TerrainTypes]
  BY <1>5, <1>8 DEF h, w, size
<1> QED
  BY <1>3, <1>9, TerrainIsLaid DEF noisy, size

LEMMA CodesAreRead ==
  ASSUME NEW x \in Maps!TerrainTypes
  PROVE  Maps!TerrainOfCode[Maps!TerrainCodes[x]] = x
BY DEF Maps!TerrainTypes, Maps!TerrainProperties, Maps!TerrainCodes, Maps!TerrainOfCode

LEMMA LoadedMaps ==
  ASSUME NEW m, IsMap(m), NEW roll \in Dice[m.size]
  PROVE  LET o == Maps!LoadMap(Maps!TerrainMessage(m), m.size, roll)
         IN  IsMap(o) /\ o.size = m.size /\ Maps!TerrainOf(o) = Maps!TerrainOf(m)
<1> DEFINE D == Maps!Grid(m.size)
           new == Maps!NewMap(m.size, roll)
           message == Maps!TerrainMessage(m)
           terrain == [t \in DOMAIN message |-> Maps!TerrainOfCode[message[t]]]
           o == Maps!LoadMap(message, m.size, roll)
<1>1. m.size \in Sizes /\ m.tile \in [D -> Maps!Tile] /\ DOMAIN m.tile = D
  BY MapsAreSized
<1>2. DOMAIN message = D /\ \A t \in D : message[t] = Maps!TerrainCodes[m.tile[t].terrain]
  BY <1>1 DEF Maps!TerrainMessage
<1>3. \A t \in D : m.tile[t].terrain \in Maps!TerrainTypes
  BY <1>1 DEF Maps!Tile
<1> HIDE DEF D, message
<1>4. terrain = [t \in D |-> m.tile[t].terrain] /\ terrain \in [D -> Maps!TerrainTypes]
  BY <1>2, <1>3, CodesAreRead
<1>5. IsMap(new) /\ new.size = m.size
  BY <1>1, NewMapsAreMaps
<1>6. o = Maps!WithTerrain(new, terrain)
  BY DEF Maps!LoadMap
<1>7. Maps!TerrainOf(m) = terrain
  BY <1>1, <1>4 DEF Maps!TerrainOf
<1> HIDE DEF terrain, new
<1>8. terrain \in [Maps!Grid(new.size) -> Maps!TerrainTypes]
  BY <1>4, <1>5 DEF D
<1>9. IsMap(o) /\ o.size = m.size /\ Maps!TerrainOf(o) = terrain
  BY <1>5, <1>6, <1>8, TerrainIsLaid
<1> QED
  BY <1>7, <1>9 DEF message

\* The two maps have the same terrain, and spawns that were found are those of
\* either of them.
MapState(m, o, h, s) ==
  /\ IsMap(m) /\ IsMap(o) /\ m.size = o.size /\ Maps!TerrainOf(m) = Maps!TerrainOf(o)
  /\ h \in {"same", "generated", "loaded"}
  /\ h = "generated" => \E n \in Nat : s = Maps!FindSpawnPoints(m, n)
  /\ h # "generated" => s = <<>>

MapInv == MapState(map, other, how, spawns)

LEMMA MapBegins == Maps!Init => MapInv
<1> SUFFICES ASSUME Maps!Init
             PROVE  MapInv
  OBVIOUS
<1>1. IsMap(map)
  BY NewMapsAreMaps DEF Maps!Init
<1> QED
  BY <1>1 DEF Maps!Init, MapInv, MapState

LEMMA MapGoesOn == MapInv /\ Maps!Next => MapInv'
<1> SUFFICES ASSUME MapInv, Maps!Next
             PROVE  MapInv'
  OBVIOUS
<1>0. IsMap(map) /\ map.size \in Sizes
  BY MapsAreSized DEF MapInv, MapState
<1>1. CASE Maps!GenerateWithSpawns
  <2>1. PICK field \in Noises[map.size], roll \in Dice[map.size], n \in FactionCounts[map.size] :
          /\ Maps!IsGenerated(map', map, field)
          /\ Maps!IsGenerated(other', Maps!NewMap(map.size, roll), field)
          /\ how' = "generated"
          /\ spawns' = Maps!FindSpawnPoints(other', n)
    BY <1>1 DEF Maps!GenerateWithSpawns
  <2>2. n \in Nat
    BY <1>0, MapsAssumption DEF Maps!TerrainMapAssumption
  <2>3. IsMap(Maps!NewMap(map.size, roll)) /\ Maps!NewMap(map.size, roll).size = map.size
    BY <1>0, NewMapsAreMaps
  <2> DEFINE terrain == Maps!SmoothPass(Maps!SmoothPass(
                          [t \in Maps!Grid(map.size) |-> Maps!ClassifyTerrain(field[t])]))
  <2>4. IsMap(map') /\ map'.size = map.size /\ Maps!TerrainOf(map') = terrain
    BY <1>0, <2>1, GeneratedMaps
  <2>5. IsMap(other') /\ other'.size = map.size /\ Maps!TerrainOf(other') = terrain
    BY <2>1, <2>3, GeneratedMaps
  <2> HIDE DEF terrain
  <2>6. spawns' = Maps!FindSpawnPoints(map', n)
    BY <2>1, <2>4, <2>5, SameSpawns
  <2> QED
    BY <2>1, <2>2, <2>4, <2>5, <2>6 DEF MapInv, MapState
<1>2. CASE Maps!SaveAndLoad
  <2>1. PICK roll \in Dice[map.size] :
          /\ map' = Maps!LoadMap(Maps!TerrainMessage(map), map.size, roll)
          /\ other' = map
          /\ how' = "loaded"
          /\ spawns' = <<>>
    BY <1>2 DEF Maps!SaveAndLoad
  <2>2. IsMap(map') /\ map'.size = map.size /\ Maps!TerrainOf(map') = Maps!TerrainOf(map)
    BY <1>0, <2>1, LoadedMaps
  <2> QED
    BY <1>0, <2>1, <2>2 DEF MapInv, MapState
<1> QED
  BY <1>1, <1>2 DEF Maps!Next

LEMMA MapInvSuffices ==
  ASSUME MapInv
  PROVE  Maps!MapIsRight
<1>1. /\ IsMap(map) /\ IsMap(other) /\ map.size = other.size /\ Maps!TerrainOf(map) = Maps!TerrainOf(other)
      /\ how \in {"same", "generated", "loaded"}
      /\ how = "generated" => \E n \in Nat : spawns = Maps!FindSpawnPoints(map, n)
      /\ how # "generated" => spawns = <<>>
  BY DEF MapInv, MapState
<1>2. /\ WellSized(map) /\ map.size \in Sizes /\ map.tile \in [Maps!Grid(map.size) -> Maps!Tile]
      /\ DOMAIN map.tile = Maps!Grid(map.size) /\ Runs(map.tile)
  BY <1>1, MapsAreSized
<1>3. /\ spawns \in Seq(Maps!Grid(map.size))
      /\ Maps!Range(spawns) \subseteq Maps!Candidates(map)
      /\ (Len(spawns) > 1 /\ Cardinality(Maps!Candidates(map)) >= Len(spawns)) =>
           /\ Maps!IsInjective(spawns)
           /\ \A best \in SUBSET Maps!Candidates(map) :
                Cardinality(best) = Len(spawns) =>
                  Maps!Separation(best) <= 2 * Maps!Separation(Maps!Range(spawns))
  <2>1. CASE how = "generated"
    <3>1. PICK n \in Nat : spawns = Maps!FindSpawnPoints(map, n)
      BY <1>1, <2>1
    <3> QED
      BY <1>2, <3>1, SpawnPointsAreSound
  <2>2. CASE how # "generated"
    <3>1. spawns = <<>>
      BY <1>1, <2>2
    <3>2. Len(spawns) = 0 /\ spawns \in Seq(Maps!Grid(map.size)) /\ DOMAIN spawns = {}
      BY <3>1
    <3>3. Maps!Range(spawns) = {}
      BY <3>2 DEF Maps!Range
    <3> QED
      BY <3>2, <3>3
  <2> QED
    BY <2>1, <2>2
<1>4. Maps!TypeOK
  <2>1. other.size \in Sizes /\ other.tile \in [Maps!Grid(other.size) -> Maps!Tile]
    BY <1>1, MapsAreSized
  <2> QED
    BY <1>1, <1>2, <1>3, <2>1 DEF Maps!TypeOK
<1>5. Maps!TerrainIsReproduced
  BY <1>1 DEF Maps!TerrainIsReproduced
<1>6. Maps!SpawnsOnLand
  <2> SUFFICES ASSUME NEW t \in Maps!Range(spawns)
               PROVE  /\ map.tile[t].terrain \notin {"Water", "Mountain"}
                      /\ Maps!Min({t[1], t[2], map.size[1] - 1 - t[1], map.size[2] - 1 - t[2]})
                         >= Maps!SpawnBorderMargin
    BY DEF Maps!SpawnsOnLand
  <2>1. /\ t \in DOMAIN map.tile
        /\ t[1] \in Maps!SpawnBorderMargin .. map.size[1] - Maps!SpawnBorderMargin - 1
        /\ t[2] \in Maps!SpawnBorderMargin .. map.size[2] - Maps!SpawnBorderMargin - 1
        /\ Maps!TerrainProperties[map.tile[t].terrain].movementCost # 0
    BY <1>3 DEF Maps!Candidates
  <2>2. map.tile[t].terrain \notin {"Water", "Mountain"}
    <3>1. \A x \in {"Water", "Mountain"} : Maps!TerrainProperties[x].movementCost = 0
      BY DEF Maps!TerrainProperties
    <3> QED
      BY <2>1, <3>1
  <2> DEFINE margins == {t[1], t[2], map.size[1] - 1 - t[1], map.size[2] - 1 - t[2]}
  <2>3. map.size[1] \in Nat /\ map.size[2] \in Nat
    BY <1>2 DEF WellSized
  <2>4. margins \in SUBSET Int /\ margins # {} /\ (\A x \in margins : 2 <= x) /\ 2 \in Int
    BY <2>1, <2>3 DEF Maps!SpawnBorderMargin
  <2>5. Maps!Min(margins) \in Int /\ 2 <= Maps!Min(margins)
    <3> HIDE DEF margins
    <3>1. Maps!Min(margins) \in margins
      BY <2>4, LeastOfBounded
    <3> QED
      BY <2>4, <3>1
  <2>6. Maps!Min(margins) >= Maps!SpawnBorderMargin
    <3> HIDE DEF margins
    <3> QED
      BY <2>5 DEF Maps!SpawnBorderMargin
  <2> QED
    BY <2>2, <2>6
<1>7. Maps!SpawnsSpread
  <2> DEFINE C == Maps!Candidates(map)
             n == Len(spawns)
  <2> SUFFICES ASSUME n > 1, Maps!Cardinality(C) >= n
               PROVE  /\ Maps!IsInjective(spawns)
                      /\ \A best \in Maps!kSubset(n, C) :
                           Maps!Separation(best) <= 2 * Maps!Separation(Maps!Range(spawns))
    BY DEF Maps!SpawnsSpread
  <2>1. Maps!Cardinality(C) = Cardinality(C)
    BY CountsAgree
  <2>2. ASSUME NEW best \in Maps!kSubset(n, C)
        PROVE  best \in SUBSET C /\ Cardinality(best) = n
    BY CountsAgree DEF Maps!kSubset
  <2> HIDE DEF C, n
  <2>3. n > 1 /\ Cardinality(C) >= n
    BY <2>1
  <2> QED
    BY <1>3, <2>2, <2>3 DEF C, n
<1>8. Maps!SmoothingIsFair
  BY <1>2, MapSmoothsFairly
<1>9. Maps!RiversRunDown
  BY <1>2 DEF Runs, Maps!RiversRunDown
<1> QED
  BY <1>4, <1>5, <1>6, <1>7, <1>8, <1>9 DEF Maps!MapIsRight

\* For maps of any sizes, any noise, any random terrain and any number of
\* factions: a seed and a save give the same terrain, smoothing is fair, spawns
\* are on land, off the border and at least half as far apart as they could
\* be, and the rivers run down (MapGenerator, Map, the map's message).
THEOREM MapsAlwaysRight == Spec => []MapsAreRight
<1> DEFINE Inv == part = "map" => MapInv
<1>1. Init => Inv
  BY MapBegins DEF Init
<1>2. Inv /\ [Next]_<<part, floodVars, minimapVars, searchVars, pointingVars, mapVars>> => Inv'
  <2> SUFFICES ASSUME Inv, [Next]_<<part, floodVars, minimapVars, searchVars, pointingVars, mapVars>>,
                      part' = "map"
               PROVE  MapInv'
    OBVIOUS
  <2>1. CASE MapStep
    BY <2>1, MapGoesOn DEF MapStep
  <2>2. CASE UNCHANGED <<part, mapVars>>
    <3>1. MapInv
      BY <2>2
    <3> QED
      BY <2>2, <3>1 DEF mapVars, MapInv
  <2>3. CASE ~MapStep
    <3>1. UNCHANGED <<part, mapVars>>
      BY <2>3 DEF Next, FloodStep, MinimapStep, SearchStep, MouseStep
    <3> QED
      BY <2>2, <3>1
  <2> QED
    BY <2>1, <2>3
<1>3. Inv => MapsAreRight
  BY MapInvSuffices DEF MapsAreRight
<1> QED
  BY <1>1, <1>2, <1>3, PTL DEF Spec

=============================================================================
