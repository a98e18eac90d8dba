--------------------------- MODULE EconomyProofs ---------------------------
(***************************************************************************)
(* Proofs about World and Economy, for any map, any armies, any number of  *)
(* cities, any queues and any buildings: what the end of a turn does to    *)
(* the towns, and that each operation of GameState keeps a sound world     *)
(* sound, where a world is sound when the vector that owns the units and   *)
(* the registry that finds them agree.                                     *)
(*                                                                         *)
(* ResolveCities and the sums of the yields are recursive functions.  That *)
(* they are defined everywhere, and what they preserve, is shown with sets *)
(* of numbers: a set that has 0 and every successor of its elements has    *)
(* every number.                                                           *)
(***************************************************************************)
EXTENDS Economy, FiniteSetTheorems, SequenceTheorems, WellFoundedInduction, TLAPS

\* A set of numbers that is closed under successor, from 0 up to N.
LEMMA UpTo ==
  ASSUME NEW N \in Nat, NEW T, 0 \in T,
         \A n \in 0 .. N - 1 : n \in T => n + 1 \in T
  PROVE  \A n \in 0 .. N : n \in T
<1> DEFINE R == {ss \in Nat \X Nat : ss[1] < ss[2]}
           Bad == {n \in Nat : n <= N /\ n \notin T}
<1>1. IsWellFoundedOn(R, Nat)
  BY NatLessThanWellFounded DEF OpToRel
<1>2. \A m, n \in Nat : <<m, n>> \in R <=> m < n
  OBVIOUS
<1> HIDE DEF R
<1>3. ASSUME Bad # {}
      PROVE  FALSE
  <2>1. PICK n \in Bad : \A m \in Bad : ~(<<m, n>> \in R)
    <3>1. Bad \subseteq Nat
      OBVIOUS
    <3> HIDE DEF Bad
    <3> QED
      BY <1>1, <1>3, <3>1, WFMin
  <2>2. n \in Nat /\ n <= N /\ n \notin T /\ n # 0
    BY <2>1
  <2>3. n - 1 \in Nat /\ n - 1 < n /\ n - 1 \in 0 .. N - 1 /\ (n - 1) + 1 = n
    BY <2>2
  <2>4. n - 1 \in T
    <3>1. <<n - 1, n>> \in R
      BY <1>2, <2>2, <2>3
    <3>2. n - 1 \notin Bad
      BY <2>1, <3>1
    <3> QED
      BY <2>2, <2>3, <3>2
  <2> QED
    BY <2>2, <2>3, <2>4
<1> QED
  BY <1>3

\* Every set of numbers that is not empty has a smallest element.
LEMMA Smallest ==
  ASSUME NEW T \in SUBSET Nat, T # {}
  PROVE  \E n \in T : \A m \in T : n <= m
<1> DEFINE R == {ss \in Nat \X Nat : ss[1] < ss[2]}
<1>1. IsWellFoundedOn(R, Nat)
  BY NatLessThanWellFounded DEF OpToRel
<1>2. \A m, n \in Nat : <<m, n>> \in R <=> m < n
  OBVIOUS
<1> HIDE DEF R
<1>3. PICK n \in T : \A m \in T : ~(<<m, n>> \in R)
  BY <1>1, WFMin
<1>4. \A m \in T : n \in Nat /\ m \in Nat /\ ~(m < n)
  BY <1>2, <1>3
<1>5. \A m \in T : n <= m
  BY <1>4
<1> QED
  BY <1>5

\* The least of some numbers is one of them.
LEMMA MinIsOne ==
  ASSUME NEW S \in SUBSET Nat, S # {}
  PROVE  Min(S) \in S
BY Smallest DEF Min

\* The cities are resolved one after the other, from the first to the last.
LEMMA ResolveCitiesRecursion ==
  ASSUME NEW town
  PROVE  \E after :
           /\ after = [n \in 0 .. NumCities |->
                        IF n = 0 THEN town ELSE ResolveCity(after[n - 1], n)]
           /\ ResolveCities(town) = after[NumCities]
<1> DEFINE Good(g, k) ==
      g = [n \in 0 .. k |-> IF n = 0 THEN town ELSE ResolveCity(g[n - 1], n)]
           T == {k \in Nat : \E g : Good(g, k)}
<1>1. NumCities \in Nat
  BY WorldAssumption
<1>2. 0 \in T
  <2> DEFINE g == [n \in 0 .. 0 |-> town]
  <2>1. Good(g, 0)
    OBVIOUS
  <2> QED
    BY <2>1
<1>3. ASSUME NEW k \in Nat, k \in T
      PROVE  k + 1 \in T
  <2>1. PICK g : Good(g, k)
    BY <1>3
  <2> DEFINE h == [n \in 0 .. k + 1 |-> IF n = k + 1 THEN ResolveCity(g[k], k + 1) ELSE g[n]]
  <2>2. ASSUME NEW n \in 0 .. k + 1
        PROVE  h[n] = IF n = 0 THEN town ELSE ResolveCity(h[n - 1], n)
    <3>1. CASE n = k + 1
      <4>1. h[n] = ResolveCity(g[k], n) /\ h[n - 1] = g[k]
        BY <3>1
      <4> QED
        BY <3>1, <4>1
    <3>2. CASE n # k + 1
      <4>1. n \in 0 .. k /\ h[n] = g[n]
        BY <2>2, <3>2
      <4>2. g[n] = IF n = 0 THEN town ELSE ResolveCity(g[n - 1], n)
        BY <2>1, <4>1
      <4>3. n # 0 => h[n - 1] = g[n - 1]
        BY <4>1
      <4> QED
        BY <4>1, <4>2, <4>3
    <3> QED
      BY <3>1, <3>2
  <2>3. Good(h, k + 1)
    BY <2>2
  <2> HIDE DEF Good, h
  <2>4. (\E f : Good(f, k + 1)) /\ k + 1 \in Nat
    BY <2>3
  <2> QED
    BY <2>4
<1>4. \E g : Good(g, NumCities)
  <2>1. \A n \in 0 .. NumCities - 1 : n \in T => n + 1 \in T
    BY <1>1, <1>3
  <2> HIDE DEF T
  <2>2. NumCities \in T
    BY <1>1, <1>2, <2>1, UpTo
  <2> QED
    BY <2>2 DEF T
<1> DEFINE after == CHOOSE g : Good(g, NumCities)
<1>5. Good(after, NumCities)
  BY <1>4
<1>6. ResolveCities(town) = after[NumCities]
  BY DEF ResolveCities
<1> QED
  BY <1>5, <1>6

-----------------------------------------------------------------------------
(* The sums of the yields. *)

\* What remains of a set when the element that a sum takes next is taken out.
Taken(s) == CHOOSE x \in s : TRUE

LEMMA TakenProperties ==
  ASSUME NEW s, IsFiniteSet(s), s # {}
  PROVE  /\ Taken(s) \in s
         /\ Cardinality(s) \in Nat
         /\ Cardinality(s \ {Taken(s)}) = Cardinality(s) - 1
<1>1. Taken(s) \in s
  BY DEF Taken
<1> QED
  BY <1>1, FS_CardinalityType, FS_RemoveElement

\* The recursion that a sum over a finite set runs through.
LEMMA SumRecursion ==
  ASSUME NEW f, NEW S, IsFiniteSet(S)
  PROVE  \E sum :
           /\ sum = [s \in SUBSET S |->
                      IF s = {} THEN 0 ELSE f[Taken(s)] + sum[s \ {Taken(s)}]]
           /\ SumFunctionOnSet(f, S) = sum[S]
<1> DEFINE Small(k) == {s \in SUBSET S : Cardinality(s) <= k}
           Good(g, k) ==
             g = [s \in Small(k) |->
                   IF s = {} THEN 0 ELSE f[Taken(s)] + g[s \ {Taken(s)}]]
           T == {k \in Nat : \E g : Good(g, k)}
           N == Cardinality(S)
<1>0. \A s \in SUBSET S : IsFiniteSet(s) /\ Cardinality(s) \in Nat /\ Cardinality(s) <= N
  BY FS_Subset, FS_CardinalityType
<1>1. N \in Nat
  BY FS_CardinalityType
<1>2. 0 \in T
  <2>1. Small(0) = {{}}
    BY <1>0, FS_EmptySet
  <2> DEFINE g == [s \in Small(0) |-> 0]
  <2>2. Good(g, 0)
    BY <2>1
  <2> QED
    BY <2>2
<1>3. ASSUME NEW k \in Nat, k \in T
      PROVE  k + 1 \in T
  <2>1. PICK g : Good(g, k)
    BY <1>3
  <2> DEFINE h == [s \in Small(k + 1) |->
                    IF Cardinality(s) = k + 1 THEN f[Taken(s)] + g[s \ {Taken(s)}] ELSE g[s]]
  <2>2. ASSUME NEW s \in Small(k + 1)
        PROVE  h[s] = IF s = {} THEN 0 ELSE f[Taken(s)] + h[s \ {Taken(s)}]
    <3>1. s \in SUBSET S /\ Cardinality(s) \in Nat /\ Cardinality(s) <= k + 1
      BY <1>0
    <3>2. CASE s = {}
      <4>1. Cardinality(s) = 0 /\ s \in Small(k)
        BY <3>1, <3>2, FS_EmptySet
      <4> QED
        BY <2>1, <3>2, <4>1
    <3>3. CASE s # {}
      <4> DEFINE rest == s \ {Taken(s)}
      <4>1. /\ rest \in SUBSET S
            /\ Cardinality(rest) = Cardinality(s) - 1
            /\ rest \in Small(k) /\ rest \in Small(k + 1)
            /\ Cardinality(rest) # k + 1
        BY <1>0, <3>1, <3>3, TakenProperties
      <4>2. h[rest] = g[rest]
        BY <4>1
      <4>3. CASE Cardinality(s) = k + 1
        BY <3>3, <4>2, <4>3
      <4>4. CASE Cardinality(s) # k + 1
        <5>1. s \in Small(k) /\ h[s] = g[s]
          BY <3>1, <4>4
        <5> QED
          BY <2>1, <3>3, <4>2, <5>1
      <4> QED
        BY <4>3, <4>4
    <3> QED
      BY <3>2, <3>3
  <2>3. Good(h, k + 1)
    BY <2>2
  <2> HIDE DEF Good, h
  <2>4. (\E u : Good(u, k + 1)) /\ k + 1 \in Nat
    BY <2>3
  <2> QED
    BY <2>4
<1>4. \E g : Good(g, N)
  <2>1. \A n \in 0 .. N - 1 : n \in T => n + 1 \in T
    BY <1>1, <1>3
  <2> HIDE DEF T
  <2>2. N \in T
    BY <1>1, <1>2, <2>1, UpTo
  <2> QED
    BY <2>2 DEF T
<1>5. Small(N) = SUBSET S
  BY <1>0
<1> DEFINE sum == CHOOSE g : g = [s \in SUBSET S |->
                    IF s = {} THEN 0 ELSE f[Taken(s)] + g[s \ {Taken(s)}]]
<1>6. sum = [s \in SUBSET S |-> IF s = {} THEN 0 ELSE f[Taken(s)] + sum[s \ {Taken(s)}]]
  BY <1>4, <1>5
<1>7. SumFunctionOnSet(f, S) = sum[S]
  BY DEF SumFunctionOnSet, FoldFunctionOnSet, MapThenFoldSet, Taken
<1> QED
  BY <1>6, <1>7

\* A sum of natural numbers is one.
LEMMA SumType ==
  ASSUME NEW f, NEW S, IsFiniteSet(S), \A x \in S : f[x] \in Nat
  PROVE  SumFunctionOnSet(f, S) \in Nat
<1>1. PICK sum :
        /\ sum = [s \in SUBSET S |->
                   IF s = {} THEN 0 ELSE f[Taken(s)] + sum[s \ {Taken(s)}]]
        /\ SumFunctionOnSet(f, S) = sum[S]
  BY SumRecursion
<1> DEFINE T == {k \in Nat : \A s \in SUBSET S : Cardinality(s) = k => sum[s] \in Nat}
<1>2. \A s \in SUBSET S : IsFiniteSet(s) /\ Cardinality(s) \in Nat
  BY FS_Subset, FS_CardinalityType
<1>3. 0 \in T
  BY <1>1, <1>2, FS_EmptySet
<1>4. ASSUME NEW k \in Nat, k \in T
      PROVE  k + 1 \in T
  <2>1. ASSUME NEW s \in SUBSET S, Cardinality(s) = k + 1
        PROVE  sum[s] \in Nat
    <3>1. s # {}
      <4>1. k + 1 # 0
        OBVIOUS
      <4> HIDE DEF T
      <4> QED
        BY <2>1, <4>1, FS_EmptySet
    <3>2. /\ Taken(s) \in S /\ s \ {Taken(s)} \in SUBSET S
          /\ Cardinality(s \ {Taken(s)}) = k
      BY <1>2, <2>1, <3>1, TakenProperties
    <3>3. sum[s \ {Taken(s)}] \in Nat /\ f[Taken(s)] \in Nat
      BY <1>4, <3>2
    <3>4. sum[s] = f[Taken(s)] + sum[s \ {Taken(s)}]
      BY <1>1, <3>1, Zenon
    <3> HIDE DEF T
    <3> QED
      BY <3>3, <3>4
  <2> QED
    BY <2>1
<1>5. Cardinality(S) \in T
  <2>1. Cardinality(S) \in Nat
    BY FS_CardinalityType
  <2>2. \A n \in 0 .. Cardinality(S) - 1 : n \in T => n + 1 \in T
    BY <1>4, <2>1
  <2> HIDE DEF T
  <2> QED
    BY <1>3, <2>1, <2>2, UpTo
<1> QED
  BY <1>1, <1>5

\* The positions of a sequence are finitely many.
LEMMA FiniteUpTo ==
  ASSUME NEW n \in Nat
  PROVE  IsFiniteSet(1 .. n)
<1>1. 1 \in Int /\ n \in Int
  OBVIOUS
<1> QED
  BY <1>1, FS_Interval, Zenon

\* What a city's buildings yield is a natural number.
LEMMA CityYieldType ==
  ASSUME NEW town, town.buildings \in Seq(Buildings), NEW c,
         NEW resource \in {"gold", "production", "food"}
  PROVE  CityYield(town, c, resource) \in Nat
<1> DEFINE here == {b \in DOMAIN town.buildings : town.buildings[b].tile \in CityTiles[c]}
           f == [b \in DOMAIN town.buildings |-> Yield[town.buildings[b].type][resource]]
<1>1. DOMAIN town.buildings = 1 .. Len(town.buildings) /\ Len(town.buildings) \in Nat
  BY LenProperties
<1>2. IsFiniteSet(here)
  <2>1. IsFiniteSet(1 .. Len(town.buildings))
    BY <1>1, FiniteUpTo
  <2> QED
    BY <1>1, <2>1, FS_Subset
<1>3. \A b \in here : f[b] \in Nat
  <2> SUFFICES ASSUME NEW b \in here
               PROVE  f[b] \in Nat
    OBVIOUS
  <2>1. town.buildings[b] \in Buildings
    BY <1>1, ElementOfSeq
  <2>2. Yield[town.buildings[b].type] \in [gold : Nat, production : Nat, food : Nat]
    BY <2>1, EconomyAssumption DEF Buildings
  <2> QED
    BY <2>2
<1> HIDE DEF here, f
<1>4. SumFunctionOnSet(f, here) \in Nat
  BY <1>2, <1>3, SumType
<1> QED
  BY <1>4 DEF CityYield, here, f

-----------------------------------------------------------------------------
(* One city's turn. *)

\* Products in the growth threshold, and in the experience for damage.
LEMMA ProductIsNat == \A m, n \in Nat : m * n \in Nat
OBVIOUS

\* The production a city has accumulated is not enough for the order in hand.
Fits(town, c) ==
  town.stock[c] > 0 =>
    town.queue[c] # <<>> /\ town.stock[c] < Head(town.queue[c]).cost

\* Of a city's queue nothing changes but that the first order may be done.
Works(before, after, c) ==
  \/ after.queue[c] = before.queue[c]
  \/ before.queue[c] # <<>> /\ after.queue[c] = Tail(before.queue[c])

\* What is not the business of production.
SameOrders(before, after) ==
  after.owner = before.owner /\ after.queue = before.queue /\ after.stock = before.stock

\* A building's yield in gold goes into a treasury.
LEMMA PayType ==
  ASSUME NEW town \in Towns, NEW f \in Factions, NEW amount \in Nat
  PROVE  LET paid == [town EXCEPT !.gold[Treasury(f)] = @ + amount]
         IN  paid \in Towns /\ SameOrders(town, paid) /\ paid.buildings = town.buildings
<1>1. Treasury(f) \in Factions \cup {Common}
  BY DEF Treasury
<1>2. town.gold \in [Factions \cup {Common} -> Nat]
  BY DEF Towns
<1>3. [town.gold EXCEPT ![Treasury(f)] = @ + amount] \in [Factions \cup {Common} -> Nat]
  BY <1>1, <1>2
<1> QED
  BY <1>3 DEF Towns, SameOrders

\* Production completes the first order, or adds to what it has already.
LEMMA ProductionType ==
  ASSUME NEW town \in Towns, NEW c \in Cities
  PROVE  LET worked == ApplyProduction(town, c)
         IN  /\ worked \in Towns
             /\ worked.owner = town.owner /\ worked.buildings = town.buildings
             /\ \A d \in Cities \ {c} : /\ worked.queue[d] = town.queue[d]
                                        /\ worked.stock[d] = town.stock[d]
             /\ Works(town, worked, c)
             /\ Fits(town, c) => Fits(worked, c)
<1> DEFINE worked == ApplyProduction(town, c)
<1>1. /\ town.queue \in [Cities -> Seq(Orders)] /\ town.stock \in [Cities -> Nat]
      /\ town.queue[c] \in Seq(Orders)
      /\ town.buildings \in Seq(Buildings)
  BY DEF Towns
<1>2. Output(town, c) \in Nat
  BY <1>1, CityYieldType, EconomyAssumption DEF Output
<1>3. CASE town.queue[c] = <<>>
  <2>1. worked = town
    BY <1>3 DEF ApplyProduction
  <2> QED
    BY <2>1 DEF Works
<1>4. CASE town.queue[c] # <<>> /\ Completes(town, c)
  <2> DEFINE q == [town.queue EXCEPT ![c] = Tail(town.queue[c])]
             s == [town.stock EXCEPT ![c] = 0]
  <2>1. /\ q \in [Cities -> Seq(Orders)] /\ q[c] = Tail(town.queue[c])
        /\ s \in [Cities -> Nat] /\ s[c] = 0
        /\ \A d \in Cities \ {c} : q[d] = town.queue[d] /\ s[d] = town.stock[d]
    BY <1>1, <1>4, HeadTailProperties
  <2>2. worked = [owner |-> town.owner, queue |-> q, stock |-> s,
                  population |-> town.population, food |-> town.food,
                  buildings |-> town.buildings, gold |-> town.gold]
    BY <1>4 DEF ApplyProduction, Towns
  <2> HIDE DEF q, s, worked
  <2>3. worked \in Towns
    BY <2>1, <2>2 DEF Towns
  <2> QED
    BY <1>4, <2>1, <2>2, <2>3 DEF Works, Fits, worked
<1>5. CASE town.queue[c] # <<>> /\ ~Completes(town, c)
  <2> DEFINE s == [town.stock EXCEPT ![c] = Output(town, c)]
  <2>1. /\ s \in [Cities -> Nat] /\ s[c] = Output(town, c)
        /\ \A d \in Cities \ {c} : s[d] = town.stock[d]
    BY <1>1, <1>2
  <2>2. worked = [owner |-> town.owner, queue |-> town.queue, stock |-> s,
                  population |-> town.population, food |-> town.food,
                  buildings |-> town.buildings, gold |-> town.gold]
    BY <1>5 DEF ApplyProduction, Towns
  <2>3. Head(town.queue[c]).cost \in Nat
    <3>1. Head(town.queue[c]) \in Orders
      BY <1>1, <1>5, HeadTailProperties
    <3> QED
      BY <3>1 DEF Orders
  <2>4. Output(town, c) < Head(town.queue[c]).cost
    BY <1>2, <1>5, <2>3 DEF Completes
  <2> HIDE DEF s, worked
  <2>5. worked \in Towns
    BY <2>1, <2>2 DEF Towns
  <2> QED
    BY <1>5, <2>1, <2>2, <2>4, <2>5 DEF Works, Fits, worked
<1> QED
  BY <1>3, <1>4, <1>5

\* A building joins the others.
LEMMA RaiseType ==
  ASSUME NEW town \in Towns, NEW c \in Cities, NEW order \in Orders,
         order.item \in BuildingTypes
  PROVE  Raise(town, c, order) \in Towns /\ SameOrders(town, Raise(town, c, order))
<1> DEFINE b == [type |-> order.item, tile |-> order.tile, faction |-> town.owner[c]]
<1>1. b \in Buildings
  BY DEF Buildings, Orders, Towns
<1>2. town.buildings \in Seq(Buildings)
  BY DEF Towns
<1>3. Append(town.buildings, b) \in Seq(Buildings)
  BY <1>1, <1>2, AppendProperties
<1>4. Raise(town, c, order) = [town EXCEPT !.buildings = Append(town.buildings, b)]
  BY DEF Raise
<1> HIDE DEF b
<1> QED
  BY <1>3, <1>4 DEF Towns, SameOrders

\* The inhabitants eat, or become more.
LEMMA FeedType ==
  ASSUME NEW town \in Towns, NEW c \in Cities, NEW food \in Nat
  PROVE  Feed(town, c, food) \in Towns /\ SameOrders(town, Feed(town, c, food))
<1> DEFINE stored == town.food[c] + food
           threshold == GrowthThreshold(town.population[c])
<1>1. /\ town.food \in [Cities -> Nat] /\ town.population \in [Cities -> Nat]
      /\ stored \in Nat
  BY DEF Towns
<1>2. threshold \in Nat
  <2>1. /\ BaseGrowth \in Nat /\ GrowthPerPopulation \in Nat
        /\ town.population[c] \in Nat
    BY <1>1, EconomyAssumption
  <2>2. GrowthPerPopulation * town.population[c] \in Nat
    BY <2>1, ProductIsNat
  <2> QED
    BY <2>1, <2>2 DEF GrowthThreshold
<1> HIDE DEF stored, threshold
<1>3. CASE stored >= threshold
  <2> DEFINE fd == [town.food EXCEPT ![c] = stored - threshold]
             pop == [town.population EXCEPT ![c] = town.population[c] + 1]
  <2>1. fd \in [Cities -> Nat] /\ pop \in [Cities -> Nat]
    BY <1>1, <1>2, <1>3
  <2>2. Feed(town, c, food) = [owner |-> town.owner, queue |-> town.queue, stock |-> town.stock,
                               population |-> pop, food |-> fd,
                               buildings |-> town.buildings, gold |-> town.gold]
    BY <1>3 DEF Feed, Towns, stored, threshold
  <2> HIDE DEF fd, pop
  <2> QED
    BY <2>1, <2>2 DEF Towns, SameOrders
<1>4. CASE ~(stored >= threshold)
  <2> DEFINE fd == [town.food EXCEPT ![c] = stored]
  <2>1. fd \in [Cities -> Nat]
    BY <1>1
  <2>2. Feed(town, c, food) = [town EXCEPT !.food = fd]
    BY <1>4 DEF Feed, stored, threshold
  <2> HIDE DEF fd
  <2> QED
    BY <2>1, <2>2 DEF Towns, SameOrders
<1> QED
  BY <1>3, <1>4

\* One city's turn, all told.
LEMMA ResolveCityType ==
  ASSUME NEW town \in Towns, NEW c \in Cities
  PROVE  LET after == ResolveCity(town, c)
         IN  /\ after \in Towns
             /\ after.owner = town.owner
             /\ \A d \in Cities \ {c} : /\ after.queue[d] = town.queue[d]
                                        /\ after.stock[d] = town.stock[d]
             /\ Works(town, after, c)
             /\ Fits(town, c) => Fits(after, c)
<1> DEFINE paid == [town EXCEPT !.gold[Treasury(town.owner[c])] = @ + CityYield(town, c, "gold")]
           worked == ApplyProduction(paid, c)
           done == Completes(town, c) /\ Head(town.queue[c]).item \in BuildingTypes
           built == IF done THEN Raise(worked, c, Head(town.queue[c])) ELSE worked
           food == CityYield(town, c, "food")
           after == Feed(built, c, food)
<1>1. /\ town.buildings \in Seq(Buildings) /\ town.owner[c] \in Factions
      /\ town.queue[c] \in Seq(Orders)
  BY DEF Towns
<1>2. CityYield(town, c, "gold") \in Nat /\ food \in Nat
  BY <1>1, CityYieldType
<1>3. paid \in Towns /\ SameOrders(town, paid)
  BY <1>1, <1>2, PayType
<1>4. ResolveCity(town, c) = after
  BY DEF ResolveCity
<1> HIDE DEF paid, food
<1>5. /\ worked \in Towns
      /\ worked.owner = paid.owner
      /\ \A d \in Cities \ {c} : worked.queue[d] = paid.queue[d] /\ worked.stock[d] = paid.stock[d]
      /\ Works(paid, worked, c)
      /\ Fits(paid, c) => Fits(worked, c)
  BY <1>3, ProductionType
<1> HIDE DEF worked
<1>6. built \in Towns /\ SameOrders(worked, built)
  <2>1. CASE done
    <3>1. Head(town.queue[c]) \in Orders
      BY <1>1, <2>1, HeadTailProperties DEF Completes
    <3>2. Raise(worked, c, Head(town.queue[c])) \in Towns
          /\ SameOrders(worked, Raise(worked, c, Head(town.queue[c])))
      BY <1>5, <2>1, <3>1, RaiseType
    <3> QED
      BY <2>1, <3>2
  <2>2. CASE ~done
    BY <1>5, <2>2 DEF SameOrders
  <2> QED
    BY <2>1, <2>2
<1> HIDE DEF built
<1>7. after \in Towns /\ SameOrders(built, after)
  BY <1>2, <1>6, FeedType
<1> HIDE DEF after
<1> QED
  BY <1>3, <1>4, <1>5, <1>6, <1>7 DEF SameOrders, Works, Fits

-----------------------------------------------------------------------------
(* All cities. *)

\* The end of the turn leaves every city to its owner and every queue as it
\* was but for a first order that is done, and nothing is hoarded.
LEMMA ResolveCitiesType ==
  ASSUME NEW town \in Towns
  PROVE  LET after == ResolveCities(town)
         IN  /\ after \in Towns
             /\ after.owner = town.owner
             /\ \A c \in Cities : Works(town, after, c) /\ (Fits(town, c) => Fits(after, c))
<1> DEFINE Resolved(t, n) ==
      /\ t \in Towns
      /\ t.owner = town.owner
      /\ \A c \in Cities : /\ Works(town, t, c)
                           /\ Fits(town, c) => Fits(t, c)
                           /\ c > n => t.queue[c] = town.queue[c]
<1>1. PICK after :
        /\ after = [n \in 0 .. NumCities |->
                     IF n = 0 THEN town ELSE ResolveCity(after[n - 1], n)]
        /\ ResolveCities(town) = after[NumCities]
  BY ResolveCitiesRecursion
<1>2. NumCities \in Nat
  BY WorldAssumption
<1> DEFINE T == {n \in 0 .. NumCities : Resolved(after[n], n)}
<1>3. 0 \in T
  <2>1. Resolved(town, 0)
    BY DEF Works
  <2>2. after[0] = town /\ 0 \in 0 .. NumCities
    BY <1>1, <1>2
  <2> HIDE DEF Resolved
  <2> QED
    BY <2>1, <2>2
<1>4. ASSUME NEW n \in 0 .. NumCities - 1, n \in T
      PROVE  n + 1 \in T
  <2> DEFINE t == after[n]
             u == after[n + 1]
  <2>1. /\ n + 1 \in Cities /\ n + 1 \in 0 .. NumCities
        /\ u = ResolveCity(t, n + 1)
    <3>1. /\ n + 1 \in Cities /\ n + 1 \in 0 .. NumCities
          /\ n + 1 # 0 /\ (n + 1) - 1 = n
      BY <1>2 DEF Cities
    <3> QED
      BY <1>1, <3>1
  <2>2. Resolved(t, n)
    BY <1>4
  <2> HIDE DEF t, u, T
  <2>3. /\ u \in Towns
        /\ u.owner = t.owner
        /\ \A d \in Cities \ {n + 1} : u.queue[d] = t.queue[d] /\ u.stock[d] = t.stock[d]
        /\ Works(t, u, n + 1)
        /\ Fits(t, n + 1) => Fits(u, n + 1)
    BY <2>1, <2>2, ResolveCityType
  <2>4. ASSUME NEW c \in Cities
        PROVE  /\ Works(town, u, c)
               /\ Fits(town, c) => Fits(u, c)
               /\ c > n + 1 => u.queue[c] = town.queue[c]
    <3>1. CASE c = n + 1
      <4>1. t.queue[c] = town.queue[c]
        BY <2>2, <3>1
      <4> QED
        BY <2>2, <2>3, <3>1, <4>1 DEF Works
    <3>2. CASE c # n + 1
      <4>1. u.queue[c] = t.queue[c] /\ u.stock[c] = t.stock[c]
        BY <2>3, <3>2
      <4>2. c > n + 1 => c > n
        BY DEF Cities
      <4> QED
        BY <2>2, <4>1, <4>2 DEF Works, Fits
    <3> QED
      BY <3>1, <3>2
  <2>5. Resolved(u, n + 1)
    BY <2>2, <2>3, <2>4
  <2> HIDE DEF Resolved
  <2> QED
    BY <2>1, <2>5 DEF T, u
<1>5. NumCities \in T
  <2> HIDE DEF T
  <2>1. NumCities \in 0 .. NumCities
    BY <1>2
  <2> QED
    BY <1>2, <1>3, <1>4, <2>1, UpTo
<1> QED
  BY <1>1, <1>5

-----------------------------------------------------------------------------
(* Queues that serve their city's owner. *)

Tended(town) ==
  \A c \in Cities :
    /\ Fits(town, c)
    /\ \A n \in DOMAIN town.queue[c] : town.queue[c][n].by = town.owner[c]

\* The end of the turn leaves only orders that were there before it.
LEMMA ResolveCitiesTended ==
  ASSUME NEW town \in Towns, Tended(town)
  PROVE  Tended(ResolveCities(town))
<1> DEFINE after == ResolveCities(town)
<1>1. /\ after \in Towns
      /\ after.owner = town.owner
      /\ \A c \in Cities : Works(town, after, c) /\ (Fits(town, c) => Fits(after, c))
  BY ResolveCitiesType
<1> HIDE DEF after
<1>2. ASSUME NEW c \in Cities
      PROVE  \A n \in DOMAIN after.queue[c] : after.queue[c][n].by = town.owner[c]
  <2>1. town.queue[c] \in Seq(Orders)
    BY DEF Towns
  <2>2. CASE after.queue[c] = town.queue[c]
    BY <2>2 DEF Tended
  <2>3. CASE town.queue[c] # <<>> /\ after.queue[c] = Tail(town.queue[c])
    <3> DEFINE q == town.queue[c]
    <3>1. ASSUME NEW n \in DOMAIN Tail(q)
          PROVE  Tail(q)[n] = q[n + 1] /\ n + 1 \in DOMAIN q
      BY <2>1, <2>3, HeadTailProperties, LenProperties
    <3> QED
      BY <2>3, <3>1 DEF Tended
  <2> QED
    BY <1>1, <2>2, <2>3 DEF Works
<1> QED
  BY <1>1, <1>2 DEF Tended, after

\* An order of the owner's goes to the end of the queue.
LEMMA EnqueueType ==
  ASSUME NEW town \in Towns, NEW c \in Cities, NEW order \in Orders
  PROVE  LET after == Enqueue(town, c, order)
             queue == after.queue[c]
         IN  /\ after \in Towns
             /\ after.owner = town.owner /\ after.stock = town.stock
             /\ after.buildings = town.buildings
             /\ \A d \in Cities \ {c} : after.queue[d] = town.queue[d]
             /\ queue # <<>>
             /\ town.queue[c] # <<>> => Head(queue) = Head(town.queue[c])
             /\ \A n \in DOMAIN queue : IF n \in DOMAIN town.queue[c]
                                        THEN queue[n] = town.queue[c][n] ELSE queue[n] = order
<1> DEFINE q == [town.queue EXCEPT ![c] = Append(town.queue[c], order)]
           after == Enqueue(town, c, order)
<1>1. /\ town.queue \in [Cities -> Seq(Orders)] /\ town.queue[c] \in Seq(Orders)
      /\ DOMAIN town.queue[c] = 1 .. Len(town.queue[c]) /\ Len(town.queue[c]) \in Nat
  BY LenProperties DEF Towns
<1>2. /\ q[c] \in Seq(Orders)
      /\ q[c] # <<>>
      /\ town.queue[c] # <<>> => Head(q[c]) = Head(town.queue[c])
      /\ \A n \in DOMAIN q[c] : IF n \in DOMAIN town.queue[c] THEN q[c][n] = town.queue[c][n]
                                                          ELSE q[c][n] = order
  <2> DEFINE s == town.queue[c]
             a == Append(s, order)
  <2>1. q[c] = a
    BY <1>1
  <2>2. /\ a \in Seq(Orders) /\ Len(a) = Len(s) + 1
        /\ \A n \in 1 .. Len(s) : a[n] = s[n]
        /\ a[Len(s) + 1] = order
    BY <1>1, AppendProperties
  <2>3. DOMAIN a = 1 .. Len(s) + 1 /\ a # <<>>
    <3> HIDE DEF a, s
    <3>1. DOMAIN a = 1 .. Len(s) + 1
      BY <2>2, LenProperties
    <3>2. Len(s) + 1 # 0
      BY <1>1 DEF s
    <3> QED
      BY <2>2, <3>1, <3>2, EmptySeq
  <2>4. s # <<>> => Head(a) = Head(s)
    BY <1>1, <2>2, <2>3, EmptySeq, Head(a) = a[1], Head(s) = s[1]
  <2>5. \A n \in DOMAIN a : IF n \in DOMAIN s THEN a[n] = s[n] ELSE a[n] = order
    BY <1>1, <2>2, <2>3
  <2> QED
    BY <2>1, <2>2, <2>3, <2>4, <2>5
<1>3. \A d \in Cities \ {c} : q[d] = town.queue[d]
  BY <1>1
<1>4. q \in [Cities -> Seq(Orders)]
  BY <1>1, <1>2
<1>5. after = [town EXCEPT !.queue = q]
  BY DEF Enqueue
<1> HIDE DEF q, after
<1>6. /\ after \in Towns
      /\ after.owner = town.owner /\ after.stock = town.stock
      /\ after.buildings = town.buildings /\ after.queue = q
  BY <1>4, <1>5 DEF Towns
<1> QED
  BY <1>2, <1>3, <1>6 DEF after

\* So a queue serves its city's owner if the order is the owner's.
LEMMA EnqueueTended ==
  ASSUME NEW town \in Towns, Tended(town), NEW c \in Cities,
         NEW order \in Orders, order.by = town.owner[c]
  PROVE  LET after == Enqueue(town, c, order)
         IN  after \in Towns /\ Tended(after) /\ after.owner = town.owner
<1> DEFINE after == Enqueue(town, c, order)
<1>1. /\ after \in Towns
      /\ after.owner = town.owner /\ after.stock = town.stock
      /\ \A d \in Cities \ {c} : after.queue[d] = town.queue[d]
      /\ after.queue[c] # <<>>
      /\ town.queue[c] # <<>> => Head(after.queue[c]) = Head(town.queue[c])
      /\ \A n \in DOMAIN after.queue[c] :
           IF n \in DOMAIN town.queue[c] THEN after.queue[c][n] = town.queue[c][n]
                                         ELSE after.queue[c][n] = order
  BY EnqueueType
<1> HIDE DEF after
<1>2. Tended(after)
  BY <1>1 DEF Tended, Fits
<1> QED
  BY <1>1, <1>2 DEF after

\* The first city of the vector on a tile where there is one.
LEMMA CityCenteredAtProperties ==
  ASSUME NEW t, CitiesCenteredAt(t) # {}
  PROVE  CityCenteredAt(t) \in Cities /\ Center[CityCenteredAt(t)] = t
<1>1. CitiesCenteredAt(t) \in SUBSET Nat
  BY WorldAssumption DEF CitiesCenteredAt, Cities
<1>2. \E c \in CitiesCenteredAt(t) : \A d \in CitiesCenteredAt(t) : c <= d
  BY <1>1, Smallest
<1>3. CityCenteredAt(t) \in CitiesCenteredAt(t)
  BY <1>2 DEF CityCenteredAt
<1> QED
  BY <1>3 DEF CitiesCenteredAt

\* The city c in the hands of f: what Capture makes of the towns.
HandedOver(town, c, f) ==
  [town EXCEPT !.owner[c] = f, !.queue[c] = <<>>, !.stock[c] = 0]

\* A city that changes hands starts with nothing in hand.
LEMMA HandoverType ==
  ASSUME NEW town \in Towns, NEW c \in Cities, NEW f \in Factions
  PROVE  LET after == HandedOver(town, c, f)
         IN  /\ after \in Towns /\ after.buildings = town.buildings
             /\ after.owner[c] = f /\ after.queue[c] = <<>> /\ after.stock[c] = 0
             /\ \A d \in Cities \ {c} : /\ after.owner[d] = town.owner[d]
                                        /\ after.queue[d] = town.queue[d]
                                        /\ after.stock[d] = town.stock[d]
<1> DEFINE o == [town.owner EXCEPT ![c] = f]
           q == [town.queue EXCEPT ![c] = <<>>]
           s == [town.stock EXCEPT ![c] = 0]
           after == [town EXCEPT !.owner[c] = f, !.queue[c] = <<>>, !.stock[c] = 0]
<1>0. HandedOver(town, c, f) = after
  BY DEF HandedOver
<1>1. /\ o \in [Cities -> Factions] /\ o[c] = f
      /\ q \in [Cities -> Seq(Orders)] /\ q[c] = <<>>
      /\ s \in [Cities -> Nat] /\ s[c] = 0
      /\ \A d \in Cities \ {c} : /\ o[d] = town.owner[d]
                                 /\ q[d] = town.queue[d]
                                 /\ s[d] = town.stock[d]
  BY EmptySeq DEF Towns
<1>2. after = [owner |-> o, queue |-> q, stock |-> s,
               population |-> town.population, food |-> town.food,
               buildings |-> town.buildings, gold |-> town.gold]
  <2> DEFINE t1 == [town EXCEPT !.owner[c] = f]
             t2 == [t1 EXCEPT !.queue[c] = <<>>]
             t3 == [t2 EXCEPT !.stock[c] = 0]
  <2>0. after = t3
    OBVIOUS
  <2>1. t1 = [town EXCEPT !.owner = o]
    OBVIOUS
  <2> HIDE DEF o, q, s, t1, after
  <2>2. t1 = [owner |-> o, queue |-> town.queue, stock |-> town.stock,
              population |-> town.population, food |-> town.food,
              buildings |-> town.buildings, gold |-> town.gold]
    BY <2>1 DEF Towns
  <2>3. t2 = [owner |-> o, queue |-> q, stock |-> town.stock,
              population |-> town.population, food |-> town.food,
              buildings |-> town.buildings, gold |-> town.gold]
    BY <2>2 DEF q
  <2> HIDE DEF t2
  <2>4. t3 = [owner |-> o, queue |-> q, stock |-> s,
              population |-> town.population, food |-> town.food,
              buildings |-> town.buildings, gold |-> town.gold]
    BY <2>3 DEF s
  <2> QED
    BY <2>0, <2>4
<1> HIDE DEF o, q, s, after
<1>3. after \in Towns
  BY <1>1, <1>2 DEF Towns
<1> QED
  BY <1>0, <1>1, <1>2, <1>3

\* And serves its new owner.
LEMMA HandoverTended ==
  ASSUME NEW town \in Towns, Tended(town), NEW c \in Cities, NEW f \in Factions
  PROVE  /\ HandedOver(town, c, f) \in Towns
         /\ Tended(HandedOver(town, c, f))
         /\ HandedOver(town, c, f).owner = [town.owner EXCEPT ![c] = f]
<1> DEFINE after == HandedOver(town, c, f)
<1>1. /\ after \in Towns
      /\ after.owner[c] = f /\ after.queue[c] = <<>>
      /\ after.stock[c] = 0
      /\ \A d \in Cities \ {c} : /\ after.owner[d] = town.owner[d]
                                 /\ after.queue[d] = town.queue[d]
                                 /\ after.stock[d] = town.stock[d]
  BY HandoverType
<1> HIDE DEF after
<1>2. after.owner = [town.owner EXCEPT ![c] = f]
  BY <1>1 DEF Towns
<1>3. Tended(after)
  <2> SUFFICES ASSUME NEW d \in Cities
               PROVE  /\ Fits(after, d)
                      /\ \A n \in DOMAIN after.queue[d] : after.queue[d][n].by = after.owner[d]
    BY DEF Tended
  <2>1. CASE d = c
    <3>1. \A n \in DOMAIN after.queue[d] : FALSE
      BY <1>1, <2>1
    <3> QED
      BY <1>1, <2>1, <3>1 DEF Fits
  <2>2. CASE d # c
    BY <1>1, <2>2 DEF Tended, Fits
  <2> QED
    BY <2>1, <2>2
<1> QED
  BY <1>1, <1>2, <1>3 DEF after

-----------------------------------------------------------------------------
(* Worlds that come from one another. *)

\* No unit that is still there has moved.
Unmoved(w, v) ==
  \A p \in DOMAIN w.unit \cap DOMAIN v.unit : v.unit[p].tile = w.unit[p].tile

\* Nobody has joined or changed sides.
Descends(w, v) ==
  /\ DOMAIN v.unit \subseteq DOMAIN w.unit
  /\ \A p \in DOMAIN v.unit : v.unit[p].faction = w.unit[p].faction

-----------------------------------------------------------------------------
(* The vector. *)

\* Removing an element from a vector without duplicates closes the gap: what
\* comes before keeps its index, what comes after moves up by one, and exactly
\* that element is gone.
LEMMA RemoveAtProperties ==
  ASSUME NEW S, NEW s \in Seq(S), IsInjective(s), NEW i \in DOMAIN s
  PROVE  /\ RemoveAt(s, i) \in Seq(S)
         /\ IsInjective(RemoveAt(s, i))
         /\ Range(RemoveAt(s, i)) = Range(s) \ {s[i]}
         /\ \A j \in DOMAIN s : j < i => /\ j \in DOMAIN RemoveAt(s, i)
                                         /\ RemoveAt(s, i)[j] = s[j]
         /\ \A j \in DOMAIN s : j > i => /\ j - 1 \in DOMAIN RemoveAt(s, i)
                                         /\ RemoveAt(s, i)[j - 1] = s[j]
<1> DEFINE n == Len(s)
           left == SubSeq(s, 1, i - 1)
           right == SubSeq(s, i + 1, n)
           r == RemoveAt(s, i)
<1>1. n \in Nat /\ DOMAIN s = 1 .. n /\ i \in 1 .. n /\ \A j \in 1 .. n : s[j] \in S
  BY LenProperties, ElementOfSeq
<1>2. /\ left \in Seq(S)
      /\ Len(left) = i - 1
      /\ \A j \in 1 .. i - 1 : left[j] = s[j]
  <2>1. \A j \in 1 .. i - 1 : s[j] \in S
    BY <1>1
  <2>2. /\ left \in Seq(S)
        /\ Len(left) = IF 1 <= i - 1 THEN i - 1 - 1 + 1 ELSE 0
        /\ \A j \in 1 .. i - 1 - 1 + 1 : left[j] = s[1 + j - 1]
    BY <1>1, <2>1, SubSeqProperties
  <2> QED
    BY <1>1, <2>2
<1>3. /\ right \in Seq(S)
      /\ Len(right) = n - i
      /\ \A j \in 1 .. n - i : right[j] = s[i + j]
  <2>1. \A j \in i + 1 .. n : s[j] \in S
    BY <1>1
  <2>2. /\ right \in Seq(S)
        /\ Len(right) = IF i + 1 <= n THEN n - (i + 1) + 1 ELSE 0
        /\ \A j \in 1 .. n - (i + 1) + 1 : right[j] = s[i + 1 + j - 1]
    BY <1>1, <2>1, SubSeqProperties
  <2> HIDE DEF right, n
  <2>3. /\ n - (i + 1) + 1 = n - i
        /\ i + 1 > n => n - i = 0
        /\ \A j \in 1 .. n - i : i + 1 + j - 1 = i + j
    BY <1>1
  <2> QED
    BY <1>1, <2>2, <2>3
<1>4. /\ r \in Seq(S)
      /\ DOMAIN r = 1 .. n - 1
      /\ \A j \in 1 .. n - 1 : r[j] = IF j < i THEN s[j] ELSE s[j + 1]
  <2> HIDE DEF left, right, n
  <2>1. r = left \o right
    BY DEF RemoveAt, left, right, n
  <2>2. /\ r \in Seq(S)
        /\ Len(r) = Len(left) + Len(right)
        /\ \A j \in 1 .. Len(left) + Len(right) :
             r[j] = IF j <= Len(left) THEN left[j] ELSE right[j - Len(left)]
    BY <1>2, <1>3, <2>1, ConcatProperties
  <2>3. Len(r) = n - 1 /\ DOMAIN r = 1 .. n - 1
    BY <1>1, <1>2, <1>3, <2>2, LenProperties
  <2>4. ASSUME NEW j \in 1 .. n - 1
        PROVE  r[j] = IF j < i THEN s[j] ELSE s[j + 1]
    <3>1. CASE j < i
      BY <1>1, <1>2, <1>3, <2>2, <3>1
    <3>2. CASE ~(j < i)
      <4>1. r[j] = right[j - (i - 1)] /\ j - (i - 1) \in 1 .. n - i
        BY <1>1, <1>2, <1>3, <2>2, <3>2
      <4>2. right[j - (i - 1)] = s[i + (j - (i - 1))]
        BY <1>3, <4>1
      <4>3. i + (j - (i - 1)) = j + 1
        BY <1>1
      <4> QED
        BY <3>2, <4>1, <4>2, <4>3
    <3> QED
      BY <3>1, <3>2
  <2> QED
    BY <2>2, <2>3, <2>4
<1> HIDE DEF r, n
<1> DEFINE old(j) == IF j < i THEN j ELSE j + 1
<1>o. \A j \in 1 .. n - 1 : old(j) \in 1 .. n /\ old(j) # i /\ r[j] = s[old(j)]
  BY <1>1, <1>4
<1>5. IsInjective(r)
  <2>1. ASSUME NEW j \in 1 .. n - 1, NEW k \in 1 .. n - 1, r[j] = r[k]
        PROVE  j = k
    <3>1. old(j) = old(k)
      BY <1>1, <1>o, <2>1 DEF IsInjective
    <3> QED
      BY <1>1, <3>1
  <2> QED
    BY <1>4, <2>1 DEF IsInjective
<1>6. Range(r) = Range(s) \ {s[i]}
  <2>1. ASSUME NEW j \in 1 .. n - 1
        PROVE  r[j] \in Range(s) \ {s[i]}
    <3>1. s[old(j)] # s[i]
      BY <1>1, <1>o DEF IsInjective
    <3> QED
      BY <1>1, <1>o, <3>1 DEF Range
  <2>2. ASSUME NEW j \in 1 .. n, j # i
        PROVE  \E k \in 1 .. n - 1 : r[k] = s[j]
    <3>1. CASE j < i
      BY <1>1, <1>4, <3>1
    <3>2. CASE j > i
      <4>1. j - 1 \in 1 .. n - 1 /\ old(j - 1) = j
        BY <1>1, <3>2
      <4> QED
        BY <1>o, <4>1
    <3> QED
      BY <1>1, <2>2, <3>1, <3>2
  <2>3. Range(r) \subseteq Range(s) \ {s[i]}
    BY <1>4, <2>1 DEF Range
  <2>4. ASSUME NEW x \in Range(s) \ {s[i]}
        PROVE  x \in Range(r)
    <3>1. PICK j \in 1 .. n : x = s[j]
      BY <1>1 DEF Range
    <3>2. PICK k \in 1 .. n - 1 : r[k] = s[j]
      BY <2>2, <2>4, <3>1
    <3> QED
      BY <1>4, <3>1, <3>2 DEF Range
  <2> QED
    BY <2>3, <2>4
<1>7. \A j \in DOMAIN s : j < i => j \in DOMAIN r /\ r[j] = s[j]
  BY <1>1, <1>4
<1>8. \A j \in DOMAIN s : j > i => j - 1 \in DOMAIN r /\ r[j - 1] = s[j]
  BY <1>1, <1>4
<1> QED
  BY <1>4, <1>5, <1>6, <1>7, <1>8 DEF r

-----------------------------------------------------------------------------
(* The operations of GameState and TileRegistry. *)

\* What stays when units change but not their places, as when they fight or
\* a turn begins.
LEMMA SamePlaces ==
  ASSUME NEW w, Sound(w),
         NEW u \in [DOMAIN w.unit -> Units],
         \A p \in DOMAIN w.unit : u[p].tile = w.unit[p].tile
  PROVE  /\ Sound([w EXCEPT !.unit = u])
         /\ [w EXCEPT !.unit = u].order = w.order
         /\ [w EXCEPT !.unit = u].unit = u
         /\ [w EXCEPT !.unit = u].registry = w.registry
         /\ [w EXCEPT !.unit = u].town = w.town
<1> DEFINE v == [w EXCEPT !.unit = u]
<1>1. /\ Fields(v) /\ v.order = w.order /\ v.unit = u
      /\ v.registry = w.registry /\ v.town = w.town
  BY DEF Sound, Fields
<1> HIDE DEF v
<1>2. DOMAIN u = DOMAIN w.unit
  OBVIOUS
<1>3. WorldShape(v)
  BY <1>1, <1>2 DEF Sound, WorldShape
<1>4. VectorExact(v)
  BY <1>1, <1>2 DEF Sound, VectorExact
<1>5. RegistryExact(v)
  BY <1>1, <1>2 DEF Sound, RegistryExact
<1> QED
  BY <1>1, <1>3, <1>4, <1>5 DEF Sound, v

\* The towns have no part in it.
LEMMA SameUnits ==
  ASSUME NEW w, Sound(w), NEW town
  PROVE  /\ Sound([w EXCEPT !.town = town])
         /\ [w EXCEPT !.town = town].unit = w.unit
         /\ [w EXCEPT !.town = town].town = town
<1> DEFINE v == [w EXCEPT !.town = town]
<1>1. /\ Fields(v) /\ v.order = w.order /\ v.unit = w.unit
      /\ v.registry = w.registry /\ v.town = town
  BY DEF Sound, Fields
<1> HIDE DEF v
<1>2. WorldShape(v) /\ VectorExact(v) /\ RegistryExact(v)
  BY <1>1 DEF Sound, WorldShape, VectorExact, RegistryExact
<1> QED
  BY <1>1, <1>2 DEF Sound, v

\* A unit that is moved is filed under its new tile, and nothing else about
\* the world changes.
LEMMA RelocateSound ==
  ASSUME NEW w, Sound(w), NEW p \in DOMAIN w.unit, NEW t \in Tiles
  PROVE  /\ Sound(Relocate(w, p, t))
         /\ Relocate(w, p, t).unit = [w.unit EXCEPT ![p].tile = t]
         /\ Relocate(w, p, t).order = w.order
         /\ Relocate(w, p, t).town = w.town
<1> DEFINE v == Relocate(w, p, t)
           old == w.unit[p].tile
<1>1. /\ Fields(v)
      /\ v.order = w.order /\ v.town = w.town
      /\ v.unit = [w.unit EXCEPT ![p].tile = t]
      /\ v.registry = [n \in Tiles |->
           IF n = t THEN w.registry[n] \cup {p}
           ELSE IF n = old THEN w.registry[n] \ {p} ELSE w.registry[n]]
  BY DEF Fields, Relocate
<1> HIDE DEF v
<1>2. /\ v.unit \in [DOMAIN w.unit -> Units]
      /\ v.unit[p].tile = t
      /\ \A q \in DOMAIN w.unit : q # p => v.unit[q] = w.unit[q]
  <2>1. w.unit \in [DOMAIN w.unit -> Units]
    BY DEF Sound, WorldShape
  <2>2. [w.unit[p] EXCEPT !.tile = t] \in Units /\ [w.unit[p] EXCEPT !.tile = t].tile = t
    BY <2>1 DEF Units
  <2>3. v.unit = [w.unit EXCEPT ![p] = [w.unit[p] EXCEPT !.tile = t]]
    BY <1>1
  <2> QED
    BY <2>1, <2>2, <2>3
<1>3. WorldShape(v)
  BY <1>1, <1>2 DEF Sound, WorldShape
<1>4. VectorExact(v)
  BY <1>1, <1>2 DEF Sound, VectorExact
<1>5. RegistryExact(v)
  <2> SUFFICES ASSUME NEW n \in Tiles
               PROVE  v.registry[n] = {q \in DOMAIN v.unit : v.unit[q].tile = n}
    BY DEF RegistryExact
  <2>1. w.registry[n] = {q \in DOMAIN w.unit : w.unit[q].tile = n}
    BY DEF Sound, RegistryExact
  <2> QED
    BY <1>1, <1>2, <2>1
<1> QED
  BY <1>1, <1>3, <1>4, <1>5 DEF Sound, v

\* A unit that is removed is gone from the vector, the map and the registry,
\* and the units before it in the vector keep their indices, those after it
\* move up by one.
LEMMA RemoveUnitSound ==
  ASSUME NEW w, Sound(w), NEW i \in Indices(w)
  PROVE  /\ Sound(RemoveUnit(w, i))
         /\ DOMAIN RemoveUnit(w, i).unit = DOMAIN w.unit \ {w.order[i]}
         /\ \A q \in DOMAIN w.unit \ {w.order[i]} : RemoveUnit(w, i).unit[q] = w.unit[q]
         /\ RemoveUnit(w, i).town = w.town
         /\ \A j \in Indices(w) : j < i => /\ j \in Indices(RemoveUnit(w, i))
                                           /\ RemoveUnit(w, i).order[j] = w.order[j]
         /\ \A j \in Indices(w) : j > i => /\ j - 1 \in Indices(RemoveUnit(w, i))
                                           /\ RemoveUnit(w, i).order[j - 1] = w.order[j]
<1> DEFINE v == RemoveUnit(w, i)
           p == w.order[i]
<1>1. /\ Fields(v)
      /\ v.order = RemoveAt(w.order, i) /\ v.town = w.town
      /\ v.unit = [q \in DOMAIN w.unit \ {p} |-> w.unit[q]]
      /\ v.registry = [w.registry EXCEPT ![w.unit[p].tile] = w.registry[w.unit[p].tile] \ {p}]
  BY DEF Fields, RemoveUnit, Restrict
<1> HIDE DEF v
<1>2. /\ v.order \in Seq(Pointers)
      /\ IsInjective(v.order)
      /\ Range(v.order) = Range(w.order) \ {p}
      /\ \A j \in Indices(w) : j < i => j \in Indices(v) /\ v.order[j] = w.order[j]
      /\ \A j \in Indices(w) : j > i => j - 1 \in Indices(v) /\ v.order[j - 1] = w.order[j]
  BY <1>1, RemoveAtProperties DEF Sound, WorldShape, VectorExact, Indices
<1>3. p \in DOMAIN w.unit /\ w.unit[p].tile \in Tiles
  BY DEF Sound, WorldShape, VectorExact, Indices, Range, Units
<1>4. DOMAIN v.unit = DOMAIN w.unit \ {p}
  BY <1>1
<1>5. WorldShape(v)
  <2>1. v.unit \in [DOMAIN v.unit -> Units]
    BY <1>1 DEF Sound, WorldShape
  <2>2. v.registry \in [Tiles -> SUBSET Pointers]
    BY <1>1, <1>3 DEF Sound, WorldShape
  <2> QED
    BY <1>2, <1>4, <2>1, <2>2 DEF Sound, WorldShape
<1>6. VectorExact(v)
  BY <1>2, <1>4 DEF Sound, VectorExact
<1>7. RegistryExact(v)
  <2> SUFFICES ASSUME NEW n \in Tiles
               PROVE  v.registry[n] = {q \in DOMAIN v.unit : v.unit[q].tile = n}
    BY DEF RegistryExact
  <2>1. w.registry[n] = {q \in DOMAIN w.unit : w.unit[q].tile = n}
    BY DEF Sound, RegistryExact
  <2>2. v.registry[n] = w.registry[n] \ {p}
    BY <1>1, <1>3, <2>1 DEF Sound, WorldShape
  <2> QED
    BY <1>1, <2>1, <2>2
<1> QED
  BY <1>1, <1>2, <1>4, <1>5, <1>6, <1>7 DEF Sound, v

\* A unit that is added is owned once and filed under its tile.
LEMMA AddUnitSound ==
  ASSUME NEW w, Sound(w), NEW p \in Pointers \ DOMAIN w.unit, NEW u \in Units
  PROVE  Sound(AddUnit(w, p, u))
<1> DEFINE v == AddUnit(w, p, u)
<1>1. /\ Fields(v)
      /\ v.order = Append(w.order, p)
      /\ v.unit = [q \in DOMAIN w.unit \cup {p} |-> IF q = p THEN u ELSE w.unit[q]]
      /\ v.registry = [w.registry EXCEPT ![u.tile] = w.registry[u.tile] \cup {p}]
  BY DEF Fields, AddUnit
<1> HIDE DEF v
<1>2. /\ v.order \in Seq(Pointers)
      /\ DOMAIN v.order = 1 .. Len(w.order) + 1
      /\ \A j \in DOMAIN w.order : v.order[j] = w.order[j]
      /\ v.order[Len(w.order) + 1] = p
      /\ Len(w.order) \in Nat
      /\ DOMAIN w.order = 1 .. Len(w.order)
  BY <1>1, LenProperties DEF Sound, WorldShape
<1>3. p \notin Range(w.order)
  BY DEF Sound, VectorExact
<1>4. u.tile \in Tiles
  BY DEF Units
<1>5. WorldShape(v)
  <2>1. v.unit \in [DOMAIN v.unit -> Units]
    BY <1>1 DEF Sound, WorldShape
  <2>2. v.registry \in [Tiles -> SUBSET Pointers]
    BY <1>1, <1>4 DEF Sound, WorldShape
  <2> QED
    BY <1>1, <1>2, <2>1, <2>2 DEF Sound, WorldShape
<1>6. VectorExact(v)
  <2>1. IsInjective(v.order)
    <3> DEFINE last == Len(w.order) + 1
    <3>1. DOMAIN v.order = DOMAIN w.order \cup {last}
      BY <1>2
    <3>2. \A j \in DOMAIN w.order : v.order[j] = w.order[j] /\ w.order[j] # p
      BY <1>2, <1>3 DEF Range
    <3>3. v.order[last] = p
      BY <1>2
    <3>4. \A j, k \in DOMAIN w.order : w.order[j] = w.order[k] => j = k
      BY DEF Sound, VectorExact, IsInjective
    <3> HIDE DEF last
    <3>5. \A j, k \in DOMAIN v.order : v.order[j] = v.order[k] => j = k
      BY <3>1, <3>2, <3>3, <3>4, Zenon
    <3> QED
      BY <3>5 DEF IsInjective
  <2>2. Range(v.order) = Range(w.order) \cup {p}
    <3>1. DOMAIN v.order = DOMAIN w.order \cup {Len(w.order) + 1}
      BY <1>2
    <3>2. ASSUME NEW q
          PROVE  q \in Range(v.order) <=> q \in Range(w.order) \cup {p}
      <4>1. q \in Range(v.order)
              <=> (\E j \in DOMAIN w.order : v.order[j] = q) \/ v.order[Len(w.order) + 1] = q
        BY <3>1 DEF Range
      <4>2. q \in Range(w.order) <=> \E j \in DOMAIN w.order : w.order[j] = q
        BY DEF Range
      <4> QED
        BY <1>2, <4>1, <4>2
    <3> QED
      BY <3>2
  <2> QED
    BY <1>1, <2>1, <2>2 DEF Sound, VectorExact
<1>7. RegistryExact(v)
  <2> SUFFICES ASSUME NEW n \in Tiles
               PROVE  v.registry[n] = {q \in DOMAIN v.unit : v.unit[q].tile = n}
    BY DEF RegistryExact
  <2>1. w.registry[n] = {q \in DOMAIN w.unit : w.unit[q].tile = n}
    BY DEF Sound, RegistryExact
  <2> QED
    BY <1>1, <1>4, <2>1 DEF Sound, WorldShape
<1> QED
  BY <1>1, <1>5, <1>6, <1>7 DEF Sound, v

-----------------------------------------------------------------------------
(* The numbers of a fight. *)

\* XpThresholds is finite, so that there are only so many levels.
LEMMA LevelType ==
  ASSUME NEW u \in Units
  PROVE  Level(u) \in Nat
<1>1. IsFiniteSet({x \in XpThresholds : u.xp >= x})
  BY CombatAssumption, FS_Subset
<1> QED
  BY <1>1, FS_CardinalityType DEF Level

\* A blow takes some of the health there is, and no more.
LEMMA BlowType ==
  ASSUME NEW a \in Units, NEW d \in Units, NEW bonus \in Int
  PROVE  Blow(a, d, bonus) \in 0 .. d.health
<1>1. /\ Template[a.kind] \in CombatStats /\ Template[d.kind] \in CombatStats
      /\ StatBonusPerLevel \in Nat
      /\ d.health \in Nat
  BY CombatAssumption DEF Units
<1>2. Level(a) * StatBonusPerLevel \in Nat /\ Level(d) * StatBonusPerLevel \in Nat
  BY <1>1, LevelType, ProductIsNat
<1>3. Attack(a) \in Int /\ Defense(d) \in Int
  BY <1>1, <1>2 DEF Attack, Defense, CombatStats
<1>4. ASSUME NEW x \in Int, NEW y \in Int
      PROVE  AtMost(AtLeast(x - (y + bonus) \div 2, 1), d.health) \in 0 .. d.health
  <2>1. (y + bonus) \div 2 \in Int
    OBVIOUS
  <2> QED
    BY <1>1, <2>1 DEF AtMost, AtLeast
<1> QED
  BY <1>3, <1>4 DEF Blow

\* No exchange of blows takes more health than there is on either side.
LEMMA ExchangeType ==
  ASSUME NEW a \in Units, NEW d \in Units, NEW distance, NEW m \in Int, NEW n \in Int
  PROVE  LET x == Exchange(a, d, distance, m, n)
         IN  /\ x.toDefender \in 0 .. d.health
             /\ x.toAttacker \in 0 .. a.health
<1>1. a.health \in Nat
  BY DEF Units
<1>2. Blow(a, d, m) \in 0 .. d.health /\ Blow(d, a, n) \in 0 .. a.health
  BY BlowType
<1> QED
  BY <1>1, <1>2 DEF Exchange

\* A unit that is hit stays a unit of its kind and faction on its tile.
LEMMA WoundedType ==
  ASSUME NEW u \in Units, NEW damage \in 0 .. u.health
  PROVE  /\ Wounded(u, damage) \in Units
         /\ Wounded(u, damage).tile = u.tile
         /\ Wounded(u, damage).faction = u.faction
<1>1. /\ u.health \in Nat
      /\ Template[u.kind] \in CombatStats
      /\ u.health <= Template[u.kind].health
  BY CombatAssumption DEF Units
<1>2. /\ AtLeast(u.health - damage, 0) \in Nat
      /\ AtLeast(u.health - damage, 0) <= Template[u.kind].health
  BY <1>1 DEF AtLeast, CombatStats
<1> QED
  BY <1>2 DEF Wounded, Units

-----------------------------------------------------------------------------
(* The actions of a turn. *)

\* A move that costs no more movement than the unit has keeps unit and
\* registry together.
LEMMA MoveSound ==
  ASSUME NEW w, Sound(w), Living(w),
         NEW i \in Indices(w), NEW t \in Tiles, UnitAt(w, i).moves >= MoveCost[t]
  PROVE  /\ Sound(Move(w, i, t))
         /\ Living(Move(w, i, t))
         /\ Descends(w, Move(w, i, t))
         /\ Move(w, i, t).order = w.order
         /\ Move(w, i, t).town = w.town
<1> DEFINE p == w.order[i]
           v == Relocate(w, p, t)
           u == [v.unit EXCEPT ![p].moves = @ - MoveCost[t]]
<1>1. p \in DOMAIN w.unit /\ w.unit \in [DOMAIN w.unit -> Units]
  BY DEF Sound, WorldShape, VectorExact, Indices, Range
<1>2. /\ Sound(v) /\ v.unit = [w.unit EXCEPT ![p].tile = t]
      /\ v.order = w.order /\ v.town = w.town
  BY <1>1, RelocateSound
<1>3. w.unit[p].moves >= MoveCost[t] /\ MoveCost[t] \in Nat
  BY WorldAssumption DEF UnitAt
<1> HIDE DEF v
<1>4. /\ u \in [DOMAIN v.unit -> Units]
      /\ \A q \in DOMAIN v.unit : u[q].tile = v.unit[q].tile
      /\ \A q \in DOMAIN v.unit : /\ u[q].health = w.unit[q].health
                                  /\ u[q].faction = w.unit[q].faction
  <2>1. v.unit \in [DOMAIN v.unit -> Units] /\ DOMAIN v.unit = DOMAIN w.unit
    BY <1>2 DEF Sound, WorldShape
  <2>2. /\ v.unit[p].moves = w.unit[p].moves
        /\ \A q \in DOMAIN w.unit : /\ v.unit[q].health = w.unit[q].health
                                    /\ v.unit[q].faction = w.unit[q].faction
    BY <1>1, <1>2 DEF Units
  <2>3. v.unit[p] \in Units /\ v.unit[p].moves >= MoveCost[t]
    BY <1>1, <1>3, <2>1, <2>2
  <2>4. Template[v.unit[p].kind] \in CombatStats
    BY <2>3, CombatAssumption DEF Units
  <2> DEFINE moved == [v.unit[p] EXCEPT !.moves = v.unit[p].moves - MoveCost[t]]
  <2>5. /\ moved \in Units
        /\ moved.tile = v.unit[p].tile
        /\ moved.health = v.unit[p].health
        /\ moved.faction = v.unit[p].faction
    BY <1>3, <2>3, <2>4 DEF Units, CombatStats
  <2>6. u = [v.unit EXCEPT ![p] = moved]
    OBVIOUS
  <2> HIDE DEF moved, u
  <2> QED
    BY <2>1, <2>2, <2>5, <2>6
<1>5. Move(w, i, t) = [v EXCEPT !.unit = u]
  BY Zenon DEF Move, Walk, v
<1> HIDE DEF u
<1>6. /\ Sound([v EXCEPT !.unit = u])
      /\ [v EXCEPT !.unit = u].unit = u
      /\ [v EXCEPT !.unit = u].order = v.order
      /\ [v EXCEPT !.unit = u].town = v.town
  <2>1. Sound(v)
    BY <1>2
  <2> HIDE DEF p
  <2> QED
    BY <1>4, <2>1, SamePlaces, Zenon
<1> QED
  BY <1>2, <1>4, <1>5, <1>6 DEF Living, Alive, Descends

\* A move changes the place of the unit that moves, and of no other.
LEMMA MovePlaces ==
  ASSUME NEW w, Sound(w), NEW i \in Indices(w), NEW t \in Tiles
  PROVE  /\ DOMAIN Move(w, i, t).unit = DOMAIN w.unit
         /\ Move(w, i, t).unit[w.order[i]].tile = t
         /\ \A p \in DOMAIN w.unit \ {w.order[i]} :
              Move(w, i, t).unit[p].tile = w.unit[p].tile
<1> DEFINE p == w.order[i]
           v == Relocate(w, p, t)
           moved == [v.unit[p] EXCEPT !.moves = @ - MoveCost[t]]
<1>1. p \in DOMAIN w.unit /\ w.unit \in [DOMAIN w.unit -> Units]
  BY DEF Sound, WorldShape, VectorExact, Indices, Range
<1>2. Sound(v) /\ v.unit = [w.unit EXCEPT ![p].tile = t]
  BY <1>1, RelocateSound
<1>3. Move(w, i, t) = [v EXCEPT !.unit = [v.unit EXCEPT ![p] = moved]]
  BY DEF Move, Walk
<1> HIDE DEF v
<1>4. v.unit \in [DOMAIN w.unit -> Units] /\ v.unit[p].tile = t
  <2>1. DOMAIN v.unit = DOMAIN w.unit /\ v.unit[p] = [w.unit[p] EXCEPT !.tile = t]
    BY <1>1, <1>2
  <2>2. v.unit \in [DOMAIN w.unit -> Units]
    BY <1>2, <2>1 DEF Sound, WorldShape
  <2>3. w.unit[p] \in Units
    BY <1>1
  <2>4. [w.unit[p] EXCEPT !.tile = t].tile = t
    BY <2>3 DEF Units
  <2> QED
    BY <2>1, <2>2, <2>4
<1>5. moved.tile = t
  BY <1>1, <1>4 DEF Units
<1> HIDE DEF moved
<1>6. Move(w, i, t).unit = [v.unit EXCEPT ![p] = moved]
  BY <1>2, <1>3 DEF Sound, Fields
<1> QED
  BY <1>1, <1>2, <1>4, <1>5, <1>6

\* What a fight does before the dead are taken away: only the two units in it
\* are touched, and they stay where they are.
LEMMA FightSound ==
  ASSUME NEW w, Sound(w), NEW i \in Indices(w), NEW j \in Indices(w)
  PROVE  /\ Sound(Fight(w, i, j))
         /\ Fight(w, i, j).order = w.order
         /\ DOMAIN Fight(w, i, j).unit = DOMAIN w.unit
         /\ Unmoved(w, Fight(w, i, j))
         /\ Descends(w, Fight(w, i, j))
         /\ Fight(w, i, j).town = w.town
         /\ \A p \in DOMAIN w.unit \ {w.order[i], w.order[j]} :
              Fight(w, i, j).unit[p] = w.unit[p]
<1> DEFINE a == UnitAt(w, i)
           d == UnitAt(w, j)
           x == ExchangeOf(w, i, j)
           aw == Wounded(a, x.toAttacker)
           dw == Wounded(d, x.toDefender)
           veteran == IF Alive(aw) THEN [aw EXCEPT !.xp = aw.xp + AttackerXp(x, ~Alive(dw))] ELSE aw
           survivor == IF Alive(dw) THEN [dw EXCEPT !.xp = dw.xp + DefenderXp(x, ~Alive(aw))] ELSE dw
           spent == [veteran EXCEPT !.moves = AtLeast(veteran.moves - AttackCost, 0)]
           u == [p \in DOMAIN w.unit |->
                  IF p = w.order[i] THEN spent ELSE IF p = w.order[j] THEN survivor ELSE w.unit[p]]
<1>1. /\ w.order[i] \in DOMAIN w.unit /\ w.order[j] \in DOMAIN w.unit
      /\ w.unit \in [DOMAIN w.unit -> Units]
  BY DEF Sound, WorldShape, VectorExact, Indices, Range
<1>2. a \in Units /\ d \in Units /\ a.tile \in Tiles /\ d.tile \in Tiles
  BY <1>1 DEF UnitAt, Units
<1>3. x.toAttacker \in 0 .. a.health /\ x.toDefender \in 0 .. d.health
  <2>1. TerrainBonus[a.tile] \in Int /\ TerrainBonus[d.tile] \in Int
    BY <1>2, WorldAssumption
  <2> QED
    BY <1>2, <2>1, ExchangeType DEF ExchangeOf
<1>4. /\ aw \in Units /\ aw.tile = a.tile /\ aw.faction = a.faction
      /\ dw \in Units /\ dw.tile = d.tile /\ dw.faction = d.faction
  BY <1>2, <1>3, WoundedType
<1>5. /\ AttackerXp(x, ~Alive(dw)) \in Nat
      /\ DefenderXp(x, ~Alive(aw)) \in Nat
  <2>1. x.toAttacker \in Nat /\ x.toDefender \in Nat
    BY <1>2, <1>3 DEF Units
  <2>2. x.toAttacker * XpPerDamage \in Nat /\ x.toDefender * XpPerDamage \in Nat
    BY <2>1, CombatAssumption, ProductIsNat
  <2> QED
    BY <2>2, CombatAssumption DEF AttackerXp, DefenderXp
<1> HIDE DEF aw, dw, x, a, d
<1>6. /\ veteran \in Units /\ veteran.tile = a.tile /\ veteran.faction = a.faction
      /\ survivor \in Units /\ survivor.tile = d.tile /\ survivor.faction = d.faction
  BY <1>4, <1>5 DEF Units
<1> HIDE DEF veteran, survivor
<1>7. spent \in Units /\ spent.tile = a.tile /\ spent.faction = a.faction
  <2>1. Template[veteran.kind] \in CombatStats
    BY <1>6, CombatAssumption DEF Units
  <2>2. /\ AtLeast(veteran.moves - AttackCost, 0) \in Nat
        /\ AtLeast(veteran.moves - AttackCost, 0) <= Template[veteran.kind].moves
    BY <1>6, <2>1 DEF AtLeast, AttackCost, Units, CombatStats
  <2> QED
    BY <1>6, <2>2 DEF Units
<1> HIDE DEF spent
<1>8. /\ u \in [DOMAIN w.unit -> Units]
      /\ \A p \in DOMAIN w.unit : u[p].tile = w.unit[p].tile /\ u[p].faction = w.unit[p].faction
  BY <1>1, <1>6, <1>7 DEF a, d, UnitAt
<1>9. Fight(w, i, j) = [w EXCEPT !.unit = u]
  BY DEF Fight, a, d, x, aw, dw, veteran, survivor, spent
<1>10. \A p \in DOMAIN w.unit \ {w.order[i], w.order[j]} : u[p] = w.unit[p]
  OBVIOUS
<1> HIDE DEF u
<1> QED
  BY <1>8, <1>9, <1>10, SamePlaces DEF Unmoved, Descends

\* Whoever has fallen is removed, wherever the two are in the vector: the
\* removal of the higher index does not disturb the lower.
LEMMA BurySound ==
  ASSUME NEW w, Sound(w), NEW i \in Indices(w), NEW j \in Indices(w), i # j,
         \A p \in DOMAIN w.unit \ {w.order[i], w.order[j]} : Alive(w.unit[p])
  PROVE  /\ Sound(Bury(w, i, j))
         /\ Living(Bury(w, i, j))
         /\ Unmoved(w, Bury(w, i, j))
         /\ Descends(w, Bury(w, i, j))
         /\ Bury(w, i, j).town = w.town
<1> DEFINE low == IF i < j THEN i ELSE j
           high == IF i < j THEN j ELSE i
           once == IF ~Alive(UnitAt(w, high)) THEN RemoveUnit(w, high) ELSE w
           v == Bury(w, i, j)
<1>1. /\ low \in Indices(w) /\ high \in Indices(w) /\ low < high
      /\ {w.order[low], w.order[high]} = {w.order[i], w.order[j]}
  <2>1. i \in Nat /\ j \in Nat
    BY LenProperties DEF Sound, WorldShape, Indices
  <2> QED
    BY <2>1
<1>2. v = IF ~Alive(UnitAt(w, low)) THEN RemoveUnit(once, low) ELSE once
  BY DEF Bury
<1>3. w.order[low] \in DOMAIN w.unit /\ w.order[high] \in DOMAIN w.unit
  BY <1>1 DEF Sound, VectorExact, Indices, Range
<1>4. w.order[low] # w.order[high]
  BY <1>1 DEF Sound, VectorExact, Indices, IsInjective
<1> HIDE DEF low, high, v
<1>5. /\ Sound(once) /\ once.town = w.town
      /\ low \in Indices(once) /\ once.order[low] = w.order[low]
      /\ DOMAIN once.unit \subseteq DOMAIN w.unit
      /\ \A p \in DOMAIN once.unit : once.unit[p] = w.unit[p]
      /\ \A p \in DOMAIN once.unit \ {w.order[low]} : Alive(once.unit[p])
  <2>1. CASE ~Alive(UnitAt(w, high))
    <3>1. once = RemoveUnit(w, high)
      BY <2>1
    <3> HIDE DEF once
    <3>2. /\ Sound(once) /\ once.town = w.town
          /\ DOMAIN once.unit = DOMAIN w.unit \ {w.order[high]}
          /\ \A q \in DOMAIN w.unit \ {w.order[high]} : once.unit[q] = w.unit[q]
          /\ low \in Indices(once) /\ once.order[low] = w.order[low]
      BY <1>1, <3>1, RemoveUnitSound
    <3> QED
      BY <1>1, <3>2
  <2>2. CASE Alive(UnitAt(w, high))
    BY <1>1, <2>2 DEF UnitAt
  <2> QED
    BY <2>1, <2>2
<1> HIDE DEF once
<1>6. /\ Sound(v) /\ v.town = w.town
      /\ DOMAIN v.unit \subseteq DOMAIN once.unit
      /\ \A p \in DOMAIN v.unit : v.unit[p] = once.unit[p] /\ Alive(v.unit[p])
  <2>1. CASE ~Alive(UnitAt(w, low))
    BY <1>2, <1>5, <2>1, RemoveUnitSound
  <2>2. CASE Alive(UnitAt(w, low))
    BY <1>1, <1>2, <1>5, <2>2 DEF UnitAt
  <2> QED
    BY <2>1, <2>2
<1> QED
  BY <1>5, <1>6 DEF Living, Unmoved, Descends, v

\* A unit that survives has moved up by one if the other was before it and
\* has fallen, and is otherwise where it was.
LEMMA BuryIndex ==
  ASSUME NEW w, Sound(w), NEW i \in Indices(w), NEW j \in Indices(w), i # j,
         Alive(UnitAt(w, i))
  PROVE  LET k == IF ~Alive(UnitAt(w, j)) /\ j < i THEN i - 1 ELSE i
         IN  k \in Indices(Bury(w, i, j)) /\ Bury(w, i, j).order[k] = w.order[i]
<1>1. i \in Nat /\ j \in Nat
  BY LenProperties DEF Sound, WorldShape, Indices
<1>2. Bury(w, i, j) = IF Alive(UnitAt(w, j)) THEN w ELSE RemoveUnit(w, j)
  <2>1. CASE i < j
    BY <2>1 DEF Bury
  <2>2. CASE j < i
    BY <1>1, <2>2 DEF Bury
  <2> QED
    BY <1>1, <2>1, <2>2
<1> QED
  BY <1>1, <1>2, RemoveUnitSound

\* An attack leaves the world sound and buries its dead, whoever falls.
LEMMA AttackSound ==
  ASSUME NEW w, Sound(w), Living(w),
         NEW i \in Indices(w), NEW j \in Indices(w), ValidAttack(w, i, j)
  PROVE  /\ Sound(AttackUnit(w, i, j))
         /\ Living(AttackUnit(w, i, j))
         /\ Unmoved(w, AttackUnit(w, i, j))
         /\ Descends(w, AttackUnit(w, i, j))
         /\ AttackUnit(w, i, j).town = w.town
<1> DEFINE f == Fight(w, i, j)
<1>1. i # j
  <2>1. UnitAt(w, i).faction \in Factions
    BY DEF UnitAt, Sound, WorldShape, VectorExact, Indices, Range, Units
  <2> QED
    BY <2>1, WorldAssumption DEF ValidAttack
<1>2. /\ Sound(f) /\ f.order = w.order /\ DOMAIN f.unit = DOMAIN w.unit
      /\ Unmoved(w, f) /\ Descends(w, f) /\ f.town = w.town
      /\ \A p \in DOMAIN f.unit \ {f.order[i], f.order[j]} : Alive(f.unit[p])
  BY FightSound DEF Living
<1> HIDE DEF f
<1>3. /\ Sound(Bury(f, i, j)) /\ Living(Bury(f, i, j))
      /\ Unmoved(f, Bury(f, i, j)) /\ Descends(f, Bury(f, i, j)) /\ Bury(f, i, j).town = f.town
  BY <1>1, <1>2, BurySound DEF Indices
<1>4. Unmoved(w, Bury(f, i, j)) /\ Descends(w, Bury(f, i, j))
  BY <1>2, <1>3 DEF Unmoved, Descends
<1> QED
  BY <1>2, <1>3, <1>4 DEF AttackUnit, f

\* Orders and captures change towns only.
LEMMA TownSound ==
  ASSUME NEW w, Sound(w), Living(w), NEW town
  PROVE  /\ Sound([w EXCEPT !.town = town])
         /\ Living([w EXCEPT !.town = town])
         /\ Unmoved(w, [w EXCEPT !.town = town])
         /\ Descends(w, [w EXCEPT !.town = town])
         /\ [w EXCEPT !.town = town].town = town
BY SameUnits DEF Living, Unmoved, Descends

\* Fresh movement moves or hurts nobody.
LEMMA ResetSound ==
  ASSUME NEW v, Sound(v), Living(v)
  PROVE  /\ Sound(ResetMovement(v))
         /\ Living(ResetMovement(v))
         /\ Unmoved(v, ResetMovement(v))
         /\ Descends(v, ResetMovement(v))
         /\ ResetMovement(v).town = v.town
<1> DEFINE u == [p \in DOMAIN v.unit |->
                  [v.unit[p] EXCEPT !.moves = Template[v.unit[p].kind].moves]]
<1>1. /\ u \in [DOMAIN v.unit -> Units]
      /\ \A p \in DOMAIN v.unit : /\ u[p].tile = v.unit[p].tile
                                  /\ u[p].health = v.unit[p].health
                                  /\ u[p].faction = v.unit[p].faction
  <2> SUFFICES ASSUME NEW p \in DOMAIN v.unit
               PROVE  /\ u[p] \in Units
                      /\ u[p].tile = v.unit[p].tile
                      /\ u[p].health = v.unit[p].health
                      /\ u[p].faction = v.unit[p].faction
    OBVIOUS
  <2>1. v.unit[p] \in Units
    BY DEF Sound, WorldShape
  <2>2. Template[v.unit[p].kind] \in CombatStats
    BY <2>1, CombatAssumption DEF Units
  <2> DEFINE rested == [v.unit[p] EXCEPT !.moves = Template[v.unit[p].kind].moves]
  <2>3. /\ rested \in Units
        /\ rested.tile = v.unit[p].tile
        /\ rested.health = v.unit[p].health
        /\ rested.faction = v.unit[p].faction
    BY <2>1, <2>2 DEF Units, CombatStats
  <2>4. u[p] = rested
    OBVIOUS
  <2> HIDE DEF rested, u
  <2> QED
    BY <2>3, <2>4
<1>2. ResetMovement(v) = [v EXCEPT !.unit = u]
  BY Zenon DEF ResetMovement
<1> HIDE DEF u
<1>3. Sound(ResetMovement(v)) /\ ResetMovement(v).unit = u /\ ResetMovement(v).town = v.town
  BY <1>1, <1>2, SamePlaces
<1> QED
  BY <1>1, <1>3 DEF Living, Alive, Unmoved, Descends

\* The end of a turn gives the units fresh movement, and moves or hurts nobody.
LEMMA ResolveTurnSound ==
  ASSUME NEW w, Sound(w), Living(w)
  PROVE  /\ Sound(ResolveTurn(w))
         /\ Living(ResolveTurn(w))
         /\ Unmoved(w, ResolveTurn(w))
         /\ Descends(w, ResolveTurn(w))
         /\ ResolveTurn(w).town = ResolveCities(w.town)
<1> DEFINE v == [w EXCEPT !.town = ResolveCities(w.town)]
<1>1. Sound(v) /\ v.unit = w.unit /\ v.town = ResolveCities(w.town)
  BY SameUnits
<1>2. ResolveTurn(w) = ResetMovement(v)
  BY DEF ResolveTurn
<1> HIDE DEF v
<1>3. Living(v)
  BY <1>1 DEF Living
<1>4. /\ Sound(ResetMovement(v)) /\ Living(ResetMovement(v))
      /\ Unmoved(v, ResetMovement(v)) /\ Descends(v, ResetMovement(v))
      /\ ResetMovement(v).town = v.town
  BY <1>1, <1>3, ResetSound
<1> QED
  BY <1>1, <1>2, <1>4 DEF Unmoved, Descends

-----------------------------------------------------------------------------
(* The end of a turn that brings units. *)

\* The production of one city leaves the queues their owners'.
LEMMA ResolveCityTended ==
  ASSUME NEW town \in Towns, Tended(town), NEW c \in Cities
  PROVE  /\ ResolveCity(town, c) \in Towns
         /\ ResolveCity(town, c).owner = town.owner
         /\ Tended(ResolveCity(town, c))
<1> DEFINE after == ResolveCity(town, c)
<1>1. /\ after \in Towns
      /\ after.owner = town.owner
      /\ \A d \in Cities \ {c} : /\ after.queue[d] = town.queue[d]
                                 /\ after.stock[d] = town.stock[d]
      /\ Works(town, after, c)
      /\ Fits(town, c) => Fits(after, c)
  BY ResolveCityType
<1> HIDE DEF after
<1>2. ASSUME NEW d \in Cities
      PROVE  /\ Fits(after, d)
             /\ \A n \in DOMAIN after.queue[d] : after.queue[d][n].by = after.owner[d]
  <2>1. CASE after.queue[d] = town.queue[d]
    BY <1>1, <2>1 DEF Tended, Fits
  <2>2. CASE d = c /\ town.queue[c] # <<>> /\ after.queue[c] = Tail(town.queue[c])
    <3> DEFINE q == town.queue[c]
    <3>1. q \in Seq(Orders)
      BY DEF Towns
    <3>2. ASSUME NEW n \in DOMAIN Tail(q)
          PROVE  Tail(q)[n] = q[n + 1] /\ n + 1 \in DOMAIN q
      BY <2>2, <3>1, HeadTailProperties, LenProperties
    <3> QED
      BY <1>1, <2>2, <3>2 DEF Tended
  <2> QED
    BY <1>1, <2>1, <2>2 DEF Works
<1> QED
  BY <1>1, <1>2 DEF Tended, after

\* A new unit stands beside the center of its city, or on it.
LEMMA SpawnTileIsOnTheMap ==
  ASSUME NEW w, NEW c \in Cities
  PROVE  SpawnTile(w, c) \in Tiles
<1> DEFINE free == FreeNeighbors(w, c)
<1>1. CASE free = {}
  BY <1>1, WorldAssumption DEF SpawnTile
<1>2. CASE free # {}
  <2>1. free \in SUBSET Nat
    BY DEF FreeNeighbors
  <2>2. Min(free) \in free
    BY <1>2, <2>1, MinIsOne
  <2>3. SpawnOrder(Center[c])[Min(free)] \in Tiles
    BY <2>2 DEF FreeNeighbors
  <2> QED
    BY <1>2, <2>3 DEF SpawnTile
<1> QED
  BY <1>1, <1>2

\* A unit that is spawned is alive and the city's owner's, and takes one of
\* the pointers nobody has.
LEMMA SpawnSound ==
  ASSUME NEW w, Sound(w), Living(w), w.town \in Towns, NEW c \in Cities,
         NEW order \in Orders, order.item \in Kinds, Pointers \ DOMAIN w.unit # {}
  PROVE  LET v == Spawn(w, c, order)
         IN  /\ Sound(v) /\ Living(v) /\ v.town = w.town
             /\ \E p \in Pointers \ DOMAIN w.unit :
                  /\ v.unit = [q \in DOMAIN w.unit \cup {p} |->
                                IF q = p THEN v.unit[p] ELSE w.unit[q]]
                  /\ v.unit[p].faction = w.town.owner[c]
<1> DEFINE p == FreshPointer(w)
           u == NewUnit(order.item, w.town.owner[c], SpawnTile(w, c))
           v == AddUnit(w, p, u)
<1>1. p \in Pointers \ DOMAIN w.unit
  BY DEF FreshPointer
<1>2. /\ u \in Units /\ Alive(u) /\ u.faction = w.town.owner[c]
  <2> DEFINE k == order.item
             f == w.town.owner[c]
             t == SpawnTile(w, c)
  <2>1. k \in Kinds /\ f \in Factions /\ t \in Tiles
    BY SpawnTileIsOnTheMap DEF Towns
  <2>2. Template[k] \in CombatStats
    BY <2>1, CombatAssumption
  <2> HIDE DEF k, f, t
  <2>3. NewUnit(k, f, t) \in Units /\ Alive(NewUnit(k, f, t)) /\ NewUnit(k, f, t).faction = f
    BY <2>1, <2>2 DEF NewUnit, Units, Alive, CombatStats
  <2> QED
    BY <2>3 DEF k, f, t
<1>3. Spawn(w, c, order) = v
  BY DEF Spawn
<1> HIDE DEF p, u
<1>4. Sound(v)
  BY <1>1, <1>2, AddUnitSound
<1>5. v.town = w.town /\ v.unit = [q \in DOMAIN w.unit \cup {p} |-> IF q = p THEN u ELSE w.unit[q]]
  BY DEF AddUnit
<1> HIDE DEF v
<1>6. v.unit[p] = u
  BY <1>5
<1>7. Living(v)
  BY <1>2, <1>5 DEF Living
<1>8. /\ v.unit = [q \in DOMAIN w.unit \cup {p} |-> IF q = p THEN v.unit[p] ELSE w.unit[q]]
      /\ v.unit[p].faction = w.town.owner[c]
  BY <1>2, <1>5, <1>6
<1> QED
  BY <1>1, <1>3, <1>4, <1>5, <1>7, <1>8

\* A pointer taken leaves one less.
LEMMA OnePointerLess ==
  ASSUME IsFiniteSet(Pointers), NEW D, NEW n \in Nat,
         Cardinality(Pointers \ D) >= n + 1
  PROVE  /\ Pointers \ D # {}
         /\ \A p \in Pointers \ D : Cardinality(Pointers \ (D \cup {p})) >= n
<1> DEFINE F == Pointers \ D
<1>1. IsFiniteSet(F)
  BY FS_Difference
<1>2. Cardinality(F) \in Nat
  BY <1>1, FS_CardinalityType
<1>3. F # {}
  BY <1>2, FS_EmptySet
<1>4. ASSUME NEW p \in F
      PROVE  Cardinality(Pointers \ (D \cup {p})) >= n
  <2>1. Cardinality(F \ {p}) = Cardinality(F) - 1
    BY <1>1, FS_RemoveElement
  <2>2. Pointers \ (D \cup {p}) = F \ {p}
    OBVIOUS
  <2>3. Cardinality(F) >= n + 1
    OBVIOUS
  <2> HIDE DEF F
  <2>4. Cardinality(F \ {p}) >= n
    BY <1>2, <2>1, <2>3
  <2> QED
    BY <2>2, <2>4
<1> QED
  BY <1>3, <1>4

\* Every unit of v is on the side of a unit or a city there was in w.
Heirs(w, v) ==
  \A p \in DOMAIN v.unit :
    \/ \E q \in DOMAIN w.unit : w.unit[q].faction = v.unit[p].faction
    \/ \E c \in Cities : w.town.owner[c] = v.unit[p].faction

\* What holds when the first n cities have had their turn; every other one
\* still has a pointer for a unit.
Spawning(w, v, n) ==
  /\ Sound(v) /\ Living(v)
  /\ v.town \in Towns /\ Tended(v.town) /\ v.town.owner = w.town.owner
  /\ Cardinality(Pointers \ DOMAIN v.unit) >= NumCities - n
  /\ Heirs(w, v)

LEMMA CitySpawns ==
  ASSUME IsFiniteSet(Pointers), NEW w, NEW v, NEW n \in Nat, n + 1 \in Cities,
         Spawning(w, v, n)
  PROVE  Spawning(w, ResolveCitySpawning(v, n + 1), n + 1)
<1> DEFINE c == n + 1
           town == ResolveCity(v.town, c)
           x == [v EXCEPT !.town = town]
           order == Head(v.town.queue[c])
           completes == Completes(v.town, c) /\ order.item \in Kinds
<1>1. town \in Towns /\ town.owner = w.town.owner /\ Tended(town)
  BY ResolveCityTended DEF Spawning
<1>2. Sound(x) /\ x.unit = v.unit /\ x.town = town
  BY SameUnits DEF Spawning
<1>3. ResolveCitySpawning(v, c) = IF completes THEN Spawn(x, c, order) ELSE x
  BY Zenon DEF ResolveCitySpawning
<1>4. v.town \in Towns /\ NumCities \in Nat /\ c \in 1 .. NumCities
  BY WorldAssumption DEF Spawning, Cities
<1>5. completes => order \in Orders /\ order.item \in Kinds
  BY <1>4, HeadTailProperties DEF Towns, Completes
<1> HIDE DEF town, x, order, completes
<1>6. Living(x) /\ Heirs(w, x)
  BY <1>2 DEF Spawning, Living, Heirs
<1>7. /\ Pointers \ DOMAIN x.unit # {}
      /\ \A p \in Pointers \ DOMAIN x.unit :
           Cardinality(Pointers \ (DOMAIN x.unit \cup {p})) >= NumCities - c
  <2> DEFINE D == DOMAIN x.unit
             m == NumCities - c
  <2>1. m \in Nat /\ NumCities - n = m + 1
    BY <1>4
  <2>2. Cardinality(Pointers \ D) >= m + 1
    BY <1>2, <2>1 DEF Spawning
  <2> HIDE DEF D, m
  <2>3. Pointers \ D # {} /\ \A p \in Pointers \ D : Cardinality(Pointers \ (D \cup {p})) >= m
    BY <2>1, <2>2, OnePointerLess
  <2> QED
    BY <2>3 DEF D, m
<1>8. CASE completes
  <2> DEFINE y == Spawn(x, c, order)
  <2>1. /\ Sound(y) /\ Living(y) /\ y.town = town
        /\ \E p \in Pointers \ DOMAIN x.unit :
             /\ y.unit = [q \in DOMAIN x.unit \cup {p} |->
                           IF q = p THEN y.unit[p] ELSE x.unit[q]]
             /\ y.unit[p].faction = town.owner[c]
    <3>1. /\ x.town \in Towns /\ c \in Cities /\ order \in Orders /\ order.item \in Kinds
          /\ Sound(x) /\ Living(x) /\ Pointers \ DOMAIN x.unit # {}
      BY <1>1, <1>2, <1>5, <1>6, <1>7, <1>8
    <3>2. /\ Sound(y) /\ Living(y) /\ y.town = x.town
          /\ \E p \in Pointers \ DOMAIN x.unit :
               /\ y.unit = [q \in DOMAIN x.unit \cup {p} |->
                             IF q = p THEN y.unit[p] ELSE x.unit[q]]
               /\ y.unit[p].faction = x.town.owner[c]
      <4> HIDE DEF c
      <4> QED
        BY <3>1, SpawnSound
    <3> HIDE DEF y
    <3> QED
      BY <1>2, <3>2
  <2> HIDE DEF y
  <2>2. PICK p \in Pointers \ DOMAIN x.unit :
          /\ y.unit = [q \in DOMAIN x.unit \cup {p} |->
                        IF q = p THEN y.unit[p] ELSE x.unit[q]]
          /\ y.unit[p].faction = town.owner[c]
    BY <2>1
  <2>3. Cardinality(Pointers \ DOMAIN y.unit) >= NumCities - c
    <3>1. DOMAIN y.unit = DOMAIN x.unit \cup {p}
      BY <2>2
    <3> QED
      BY <1>7, <3>1
  <2>4. Heirs(w, y)
    <3> SUFFICES ASSUME NEW q \in DOMAIN y.unit
                 PROVE  \/ \E r \in DOMAIN w.unit : w.unit[r].faction = y.unit[q].faction
                        \/ \E d \in Cities : w.town.owner[d] = y.unit[q].faction
      BY DEF Heirs
    <3>1. CASE q = p
      BY <1>1, <2>2, <3>1
    <3>2. CASE q # p
      <4>1. q \in DOMAIN x.unit /\ y.unit[q] = x.unit[q]
        BY <2>2, <3>2
      <4> QED
        BY <1>6, <4>1 DEF Heirs
    <3> QED
      BY <3>1, <3>2
  <2>5. Spawning(w, y, c)
    BY <1>1, <2>1, <2>3, <2>4 DEF Spawning
  <2> QED
    BY <1>3, <1>8, <2>5 DEF y
<1>9. CASE ~completes
  <2>1. Cardinality(Pointers \ DOMAIN x.unit) >= NumCities - c
    <3> DEFINE k == Cardinality(Pointers \ DOMAIN x.unit)
    <3>1. k \in Nat
      BY FS_Difference, FS_CardinalityType
    <3>2. k >= NumCities - n
      BY <1>2 DEF Spawning
    <3> HIDE DEF k
    <3> QED
      BY <1>4, <3>1, <3>2 DEF k
  <2>2. Spawning(w, x, c)
    BY <1>1, <1>2, <1>6, <2>1 DEF Spawning
  <2> QED
    BY <1>3, <1>9, <2>2
<1> QED
  BY <1>8, <1>9

\* The cities have their turn, and their new units, one after the other.
LEMMA ResolveTurnSpawningRecursion ==
  ASSUME NEW w
  PROVE  \E after :
           /\ after = [n \in 0 .. NumCities |->
                        IF n = 0 THEN w ELSE ResolveCitySpawning(after[n - 1], n)]
           /\ ResolveTurnSpawning(w) = ResetMovement(after[NumCities])
<1> DEFINE first == w
           Grow(x, n) == ResolveCitySpawning(x, n)
           Good(g, k) == g = [n \in 0 .. k |-> IF n = 0 THEN first ELSE Grow(g[n - 1], n)]
           T == {k \in Nat : \E g : Good(g, k)}
           last == NumCities
<1>1. last \in Nat
  BY WorldAssumption
<1> HIDE DEF first, Grow, last
<1>2. 0 \in T
  <2> DEFINE g == [n \in 0 .. 0 |-> first]
  <2>1. Good(g, 0)
    OBVIOUS
  <2> QED
    BY <2>1
<1>3. ASSUME NEW k \in Nat, k \in T
      PROVE  k + 1 \in T
  <2>1. PICK g : Good(g, k)
    BY <1>3
  <2> DEFINE h == [n \in 0 .. k + 1 |-> IF n = k + 1 THEN Grow(g[k], k + 1) ELSE g[n]]
  <2>2. ASSUME NEW n \in 0 .. k + 1
        PROVE  h[n] = IF n = 0 THEN first ELSE Grow(h[n - 1], n)
    <3>1. CASE n = k + 1
      <4>1. h[n] = Grow(g[k], n) /\ h[n - 1] = g[k]
        BY <3>1
      <4> QED
        BY <3>1, <4>1
    <3>2. CASE n # k + 1
      <4>1. n \in 0 .. k /\ h[n] = g[n]
        BY <2>2, <3>2
      <4>2. g[n] = IF n = 0 THEN first ELSE Grow(g[n - 1], n)
        BY <2>1, <4>1
      <4>3. n # 0 => h[n - 1] = g[n - 1]
        BY <4>1
      <4> QED
        BY <4>1, <4>2, <4>3
    <3> QED
      BY <3>1, <3>2
  <2>3. Good(h, k + 1)
    BY <2>2
  <2> HIDE DEF Good, h
  <2>4. (\E u : Good(u, k + 1)) /\ k + 1 \in Nat
    BY <2>3
  <2> QED
    BY <2>4
<1>4. \E g : Good(g, last)
  <2>1. \A n \in 0 .. last - 1 : n \in T => n + 1 \in T
    BY <1>1, <1>3
  <2>2. 0 \in T
    BY <1>2
  <2> HIDE DEF T
  <2>3. \A n \in 0 .. last : n \in T
    BY <1>1, <2>1, <2>2, UpTo
  <2>4. last \in T
    BY <1>1, <2>3
  <2> QED
    BY <2>4 DEF T
<1> DEFINE after == CHOOSE g : Good(g, last)
<1>5. Good(after, last)
  BY <1>4
<1>6. ResolveTurnSpawning(w) = ResetMovement(after[last])
  BY Zenon DEF ResolveTurnSpawning, first, Grow, last
<1> QED
  BY <1>5, <1>6 DEF first, Grow, last

\* A turn that ends with new units keeps a sound world sound and the queues
\* their owners', and brings nobody back who has neither unit nor city.
LEMMA ResolveTurnSpawningSound ==
  ASSUME IsFiniteSet(Pointers), NEW w, Sound(w), Living(w), w.town \in Towns, Tended(w.town),
         Cardinality(Pointers \ DOMAIN w.unit) >= NumCities
  PROVE  LET v == ResolveTurnSpawning(w)
         IN  /\ Sound(v) /\ Living(v)
             /\ v.town \in Towns /\ Tended(v.town) /\ v.town.owner = w.town.owner
             /\ Heirs(w, v)
<1>1. PICK after :
        /\ after = [n \in 0 .. NumCities |->
                     IF n = 0 THEN w ELSE ResolveCitySpawning(after[n - 1], n)]
        /\ ResolveTurnSpawning(w) = ResetMovement(after[NumCities])
  BY ResolveTurnSpawningRecursion
<1>2. NumCities \in Nat
  BY WorldAssumption
<1> DEFINE T == {n \in 0 .. NumCities : Spawning(w, after[n], n)}
<1>3. 0 \in T
  <2>1. Heirs(w, w) /\ NumCities - 0 = NumCities
    BY <1>2 DEF Heirs
  <2>2. Spawning(w, w, 0)
    BY <2>1 DEF Spawning
  <2>3. after[0] = w /\ 0 \in 0 .. NumCities
    BY <1>1, <1>2
  <2> QED
    BY <2>2, <2>3
<1>4. ASSUME NEW n \in 0 .. NumCities - 1, n \in T
      PROVE  n + 1 \in T
  <2>1. n \in Nat /\ n + 1 \in Cities /\ n + 1 \in 0 .. NumCities
    BY <1>2 DEF Cities
  <2>2. after[n + 1] = ResolveCitySpawning(after[n], n + 1)
    <3>1. n + 1 # 0 /\ (n + 1) - 1 = n
      BY <2>1
    <3> QED
      BY <1>1, <2>1, <3>1
  <2>3. Spawning(w, after[n + 1], n + 1)
    BY <1>4, <2>1, <2>2, CitySpawns
  <2> QED
    BY <2>1, <2>3
<1>5. NumCities \in T
  <2> HIDE DEF T
  <2>1. NumCities \in 0 .. NumCities
    BY <1>2
  <2>2. \A n \in 0 .. NumCities : n \in T
    BY <1>2, <1>3, <1>4, UpTo
  <2> QED
    BY <2>1, <2>2
<1> DEFINE x == after[NumCities]
           v == ResetMovement(x)
<1>6. Spawning(w, x, NumCities)
  BY <1>5
<1> HIDE DEF x
<1>7. /\ Sound(v) /\ Living(v) /\ v.town = x.town /\ Descends(x, v)
  BY <1>6, ResetSound DEF Spawning
<1>8. ResolveTurnSpawning(w) = v
  BY <1>1 DEF x
<1> HIDE DEF v
<1>9. Heirs(w, v)
  BY <1>6, <1>7 DEF Spawning, Heirs, Descends
<1> QED
  BY <1>6, <1>7, <1>8, <1>9 DEF Spawning

=============================================================================
