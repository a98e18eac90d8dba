-------------------------- MODULE LocalGameProofs --------------------------
(***************************************************************************)
(* Proofs about LocalGame, for any map, any armies, any factions and any   *)
(* input: however the user plays, builds, saves and loads, the game stays  *)
(* one that could have been set up that way.                               *)
(***************************************************************************)
EXTENDS LocalGame, EconomyProofs

-----------------------------------------------------------------------------
(* The fog. *)

\* A unit sees the tile it stands on.
LEMMA SeesItself ==
  ASSUME NEW t \in Tiles, NEW r \in Nat
  PROVE  t \in Sight(t, r)
<1>1. t[1] \in Int /\ t[2] \in Int
  BY DEF Tiles
<1>2. t[1] \in t[1] - r .. t[1] + r /\ t[2] \in t[2] - r .. t[2] + r
  BY <1>1
<1>3. CubeX(t) \in Int
  BY <1>1 DEF CubeX
<1>4. HexDistance(t, t) = 0
  BY <1>1, <1>3 DEF HexDistance, Magnitude
<1> QED
  BY <1>2, <1>4 DEF Sight, SightBox

\* What a faction sees, unit by unit and city by city.
LEMMA InSightMembers ==
  ASSUME NEW w, NEW f, NEW t
  PROVE  t \in InSight(w, f)
           <=> \/ \E p \in DOMAIN w.unit :
                    /\ w.unit[p].faction = f
                    /\ t \in Sight(w.unit[p].tile, SightRange[w.unit[p].kind])
               \/ \E c \in Cities :
                    /\ w.town.owner[c] = f
                    /\ \E n \in CityTiles[c] : t \in Sight(n, CitySight)
BY DEF InSight

\* A fog that is calculated shows what is in sight, and nothing else, to the
\* faction it is calculated for.
LEMMA RecalculateLifts ==
  ASSUME NEW w, Sound(w), NEW fog \in [Tiles -> Visibility], NEW f
  PROVE  /\ Recalculate(fog, w, f) \in [Tiles -> Visibility]
         /\ \A t \in Tiles : Recalculate(fog, w, f)[t] = "Visible" => t \in InSight(w, f)
         /\ \A p \in DOMAIN w.unit :
              w.unit[p].faction = f => Recalculate(fog, w, f)[w.unit[p].tile] = "Visible"
<1>1. \A t \in Tiles :
        Recalculate(fog, w, f)[t] = IF t \in InSight(w, f) THEN "Visible"
                                    ELSE IF fog[t] = "Visible" THEN "Explored" ELSE fog[t]
  BY DEF Recalculate
<1>2. Recalculate(fog, w, f) \in [Tiles -> Visibility]
  BY DEF Recalculate, Visibility
<1>3. ASSUME NEW p \in DOMAIN w.unit, w.unit[p].faction = f
      PROVE  w.unit[p].tile \in Tiles /\ w.unit[p].tile \in InSight(w, f)
  <2>1. w.unit[p].tile \in Tiles /\ w.unit[p].kind \in Kinds
    BY DEF Sound, WorldShape, Units
  <2>2. SightRange[w.unit[p].kind] \in Nat
    BY <2>1, FogAssumption
  <2>3. w.unit[p].tile \in Sight(w.unit[p].tile, SightRange[w.unit[p].kind])
    BY <2>1, <2>2, SeesItself
  <2> QED
    BY <1>3, <2>1, <2>3, InSightMembers
<1> QED
  BY <1>1, <1>2, <1>3

\* Whoever keeps its units and cities goes on seeing what it saw.
LEMMA SightKept ==
  ASSUME NEW w, NEW v, NEW f, v.unit = w.unit,
         \A c \in Cities : w.town.owner[c] = f => v.town.owner[c] = f
  PROVE  InSight(w, f) \subseteq InSight(v, f)
BY InSightMembers

-----------------------------------------------------------------------------
(* Games. *)

GameFields(g) ==
  g = [turn |-> g.turn, world |-> g.world, ids |-> g.ids,
       nextBuildingId |-> g.nextBuildingId, fog |-> g.fog, registered |-> g.registered]

\* Units have moved or fought, and the fog was calculated.
LEMMA NewWorld ==
  ASSUME NEW g, Proper(g), NEW w, Sound(w), Living(w), w.town = g.world.town
  PROVE  Proper([g EXCEPT !.world = w, !.fog = Recalculate(@, w, Player)])
<1> DEFINE h == [g EXCEPT !.world = w, !.fog = Recalculate(@, w, Player)]
<1>1. /\ GameFields(h)
      /\ h.turn = g.turn /\ h.world = w /\ h.ids = g.ids
      /\ h.nextBuildingId = g.nextBuildingId /\ h.registered = g.registered
      /\ h.fog = Recalculate(g.fog, w, Player)
  <2> DEFINE moved == [turn |-> g.turn, world |-> w, ids |-> g.ids,
                       nextBuildingId |-> g.nextBuildingId, fog |-> g.fog,
                       registered |-> g.registered]
  <2>1. [g EXCEPT !.world = w] = moved
    BY DEF Proper
  <2>2. h = [moved EXCEPT !.fog = Recalculate(@, w, Player)]
    BY <2>1
  <2> QED
    BY <2>2 DEF GameFields
<1> HIDE DEF h
<1>2. FogLifted(h)
  <2>1. g.fog \in [Tiles -> Visibility]
    BY DEF Proper, FogLifted
  <2> QED
    BY <1>1, <2>1, RecalculateLifts DEF FogLifted
<1>3. Numbered(h)
  BY <1>1 DEF Proper, Numbered
<1> QED
  BY <1>1, <1>2, <1>3 DEF Proper, GameFields, h

\* The towns have changed, and the fog was not calculated: the player has lost
\* no city.
LEMMA NewTown ==
  ASSUME NEW g, Proper(g),
         NEW town \in Towns, Priced(town),
         town.buildings = g.world.town.buildings,
         \A c \in Cities : g.world.town.owner[c] = Player => town.owner[c] = Player
  PROVE  Proper([g EXCEPT !.world.town = town])
<1> DEFINE w == [g.world EXCEPT !.town = town]
           h == [g EXCEPT !.world.town = town]
<1>1. /\ GameFields(h)
      /\ h.turn = g.turn /\ h.world = w /\ h.ids = g.ids
      /\ h.nextBuildingId = g.nextBuildingId /\ h.registered = g.registered
      /\ h.fog = g.fog
  BY DEF Proper, GameFields
<1>2. /\ Sound(w) /\ Living(w) /\ w.town = town /\ w.unit = g.world.unit
  <2>1. Sound(g.world) /\ Living(g.world)
    BY DEF Proper
  <2> QED
    BY <2>1, TownSound, SameUnits
<1> HIDE DEF h, w
<1>3. FogLifted(h)
  <2>1. InSight(g.world, Player) \subseteq InSight(w, Player)
    BY <1>2, SightKept
  <2> QED
    BY <1>1, <1>2, <2>1 DEF Proper, FogLifted
<1>4. Numbered(h)
  BY <1>1, <1>2 DEF Proper, Numbered
<1> QED
  BY <1>1, <1>2, <1>3, <1>4 DEF Proper, GameFields, h

-----------------------------------------------------------------------------
(* Saving and loading. *)

\* A unit comes back as it was: its kind has a code of its own, and its
\* numbers are within their limits.
LEMMA UnitComesBack ==
  ASSUME NEW u \in Units
  PROVE  UnitOf(UnitMessage(u)) = u
<1>1. /\ u = [kind |-> u.kind, faction |-> u.faction, tile |-> u.tile, health |-> u.health,
              moves |-> u.moves, xp |-> u.xp]
      /\ u.health \in Nat /\ u.moves \in Nat /\ u.xp \in Nat
      /\ u.health <= Template[u.kind].health /\ u.moves <= Template[u.kind].moves
      /\ u.kind \in Kinds
  BY DEF Units
<1>2. Template[u.kind] \in CombatStats
  BY <1>1, CombatAssumption
<1>3. TemplateKeyOfCode[UnitCodes[u.kind]] = u.kind
  <2>1. u.kind \in {"Warrior", "Archer", "Settler"}
    BY <1>1, SerializationAssumption DEF UnitCodes
  <2> QED
    BY <2>1 DEF UnitCodes, TemplateKeyOfCode
<1>4. /\ AtLeast(AtMost(u.health, Template[u.kind].health), 0) = u.health
      /\ AtLeast(AtMost(u.moves, Template[u.kind].moves), 0) = u.moves
      /\ AtLeast(u.xp, 0) = u.xp
  BY <1>1, <1>2 DEF AtLeast, AtMost, CombatStats
<1> DEFINE m == UnitMessage(u)
           new == NewUnit(u.kind, u.faction, u.tile)
<1>5. /\ m.type = UnitCodes[u.kind] /\ m.tile = u.tile /\ m.faction = u.faction
      /\ m.health = u.health /\ m.movementRemaining = u.moves /\ m.experience = u.xp
  BY DEF UnitMessage
<1> HIDE DEF m
<1>6. UnitOf(m) = [new EXCEPT !.health = u.health, !.moves = u.moves, !.xp = u.xp]
  BY <1>3, <1>4, <1>5 DEF UnitOf
<1>7. [new EXCEPT !.health = u.health, !.moves = u.moves, !.xp = u.xp]
        = [kind |-> u.kind, faction |-> u.faction, tile |-> u.tile, health |-> u.health,
           moves |-> u.moves, xp |-> u.xp]
  <2> DEFINE t == Template[u.kind]
             healed == [kind |-> u.kind, faction |-> u.faction, tile |-> u.tile,
                        health |-> u.health, moves |-> t.moves, xp |-> 0]
             moved == [healed EXCEPT !.moves = u.moves]
  <2>1. [new EXCEPT !.health = u.health] = healed
    BY DEF NewUnit
  <2>2. moved = [kind |-> u.kind, faction |-> u.faction, tile |-> u.tile,
                 health |-> u.health, moves |-> u.moves, xp |-> 0]
    OBVIOUS
  <2> HIDE DEF healed
  <2>3. [new EXCEPT !.health = u.health, !.moves = u.moves, !.xp = u.xp]
          = [moved EXCEPT !.xp = u.xp]
    BY <2>1
  <2> HIDE DEF moved
  <2>4. [moved EXCEPT !.xp = u.xp]
          = [kind |-> u.kind, faction |-> u.faction, tile |-> u.tile, health |-> u.health,
             moves |-> u.moves, xp |-> u.xp]
    BY <2>2
  <2> QED
    BY <2>3, <2>4
<1> QED
  BY <1>1, <1>6, <1>7 DEF m

\* The town with other treasuries.
LEMMA OtherGold ==
  ASSUME NEW town \in Towns, NEW x
  PROVE  [town EXCEPT !.gold = x]
           = [owner |-> town.owner, queue |-> town.queue, stock |-> town.stock,
              population |-> town.population, food |-> town.food,
              buildings |-> town.buildings, gold |-> x]
<1>1. town = [owner |-> town.owner, queue |-> town.queue, stock |-> town.stock,
              population |-> town.population, food |-> town.food,
              buildings |-> town.buildings, gold |-> town.gold]
  BY DEF Towns
<1> QED
  BY <1>1

\* So does a town, but that only the common treasury is kept.
LEMMA TownComesBack ==
  ASSUME NEW g, Proper(g)
  PROVE  TownOf(SerializeGameState(g))
           = [g.world.town EXCEPT !.gold = [f \in Factions \cup {Common} |->
                IF f = Common THEN g.world.town.gold[Common] ELSE 0]]
<1> DEFINE m == SerializeGameState(g)
           town == g.world.town
<1>1. /\ town \in Towns
      /\ town = [owner |-> town.owner, queue |-> town.queue, stock |-> town.stock,
                 population |-> town.population, food |-> town.food,
                 buildings |-> town.buildings, gold |-> town.gold]
      /\ town.owner \in [Cities -> Factions] /\ town.queue \in [Cities -> Seq(Orders)]
      /\ town.stock \in [Cities -> Nat] /\ town.population \in [Cities -> Nat]
      /\ town.food \in [Cities -> Nat] /\ town.buildings \in Seq(Buildings)
  BY DEF Proper, Towns
<1>2. /\ m.factionResources = town.gold[Common]
      /\ \A c \in Cities : /\ m.cities[c].owner = town.owner[c]
                           /\ m.cities[c].buildQueueItems = town.queue[c]
                           /\ m.cities[c].accumulatedProduction = town.stock[c]
                           /\ m.cities[c].population = town.population[c]
                           /\ m.cities[c].foodSurplus = town.food[c]
      /\ DOMAIN m.buildings = DOMAIN g.ids
      /\ \A n \in DOMAIN g.ids : m.buildings[n].building = town.buildings[n]
  BY DEF SerializeGameState, CityMessage
<1>3. DOMAIN g.ids = DOMAIN town.buildings
  BY <1>1, LenProperties DEF Proper, Numbered
<1> HIDE DEF m, town
<1>4. /\ [c \in Cities |-> m.cities[c].owner] = town.owner
      /\ [c \in Cities |-> m.cities[c].buildQueueItems] = town.queue
      /\ [c \in Cities |-> m.cities[c].accumulatedProduction] = town.stock
      /\ [c \in Cities |-> m.cities[c].foodSurplus] = town.food
  BY <1>1, <1>2
<1>5. [c \in Cities |-> 1 + (m.cities[c].population - 1)] = town.population
  BY <1>1, <1>2
<1>6. [n \in DOMAIN m.buildings |-> m.buildings[n].building] = town.buildings
  BY <1>1, <1>2, <1>3
<1>7. TownOf(m)
        = [owner |-> town.owner, queue |-> town.queue, stock |-> town.stock,
           population |-> town.population, food |-> town.food, buildings |-> town.buildings,
           gold |-> [f \in Factions \cup {Common} |->
                      IF f = Common THEN town.gold[Common] ELSE 0]]
  BY <1>2, <1>4, <1>5, <1>6, Zenon DEF TownOf
<1> DEFINE common == [f \in Factions \cup {Common} |-> IF f = Common THEN town.gold[Common] ELSE 0]
<1>8. TownOf(m) = [town EXCEPT !.gold = common]
  <2> HIDE DEF common
  <2>1. [town EXCEPT !.gold = common]
          = [owner |-> town.owner, queue |-> town.queue, stock |-> town.stock,
             population |-> town.population, food |-> town.food,
             buildings |-> town.buildings, gold |-> common]
    BY <1>1, OtherGold
  <2> QED
    BY <1>7, <2>1 DEF common
<1> QED
  BY <1>8 DEF m, town

\* deserializeGameState adds the units one after the other.
LEMMA WorldOfRecursion ==
  ASSUME NEW m, Len(m.units) \in Nat
  PROVE  LET empty == [order |-> <<>>, unit |-> [p \in {} |-> p],
                       registry |-> [t \in Tiles |-> {}], town |-> TownOf(m)]
         IN  \E after :
               /\ after = [n \in 0 .. Len(m.units) |->
                    IF n = 0 THEN empty
                    ELSE AddUnit(after[n - 1], FreshPointer(after[n - 1]), UnitOf(m.units[n]))]
               /\ WorldOf(m) = after[Len(m.units)]
<1> DEFINE last == Len(m.units)
           empty == [order |-> <<>>, unit |-> [p \in {} |-> p],
                     registry |-> [t \in Tiles |-> {}], town |-> TownOf(m)]
           Add(w, n) == AddUnit(w, FreshPointer(w), UnitOf(m.units[n]))
           Good(g, k) == g = [n \in 0 .. k |-> IF n = 0 THEN empty ELSE Add(g[n - 1], n)]
           T == {k \in Nat : \E g : Good(g, k)}
           after == CHOOSE g : Good(g, last)
<1>0. last \in Nat
  OBVIOUS
<1>1. WorldOf(m) = after[last]
  BY DEF WorldOf
<1> HIDE DEF empty, Add, last
<1>2. 0 \in T
  <2> DEFINE g == [n \in 0 .. 0 |-> empty]
  <2>1. Good(g, 0)
    OBVIOUS
  <2> QED
    BY <2>1
<1>3. ASSUME NEW k \in Nat, k \in T
      PROVE  k + 1 \in T
  <2>1. PICK g : Good(g, k)
    BY <1>3
  <2> DEFINE h == [n \in 0 .. k + 1 |-> IF n = k + 1 THEN Add(g[k], k + 1) ELSE g[n]]
  <2>2. ASSUME NEW n \in 0 .. k + 1
        PROVE  h[n] = IF n = 0 THEN empty ELSE Add(h[n - 1], n)
    <3>1. CASE n = k + 1
      <4>1. h[n] = Add(g[k], n) /\ h[n - 1] = g[k]
        BY <3>1
      <4> QED
        BY <3>1, <4>1
    <3>2. CASE n # k + 1
      <4>1. n \in 0 .. k /\ h[n] = g[n]
        BY <2>2, <3>2
      <4>2. g[n] = IF n = 0 THEN empty ELSE Add(g[n - 1], n)
        BY <2>1, <4>1
      <4>3. n # 0 => h[n - 1] = g[n - 1]
        BY <4>1
      <4> QED
        BY <4>1, <4>2, <4>3
    <3> QED
      BY <3>1, <3>2
  <2>3. Good(h, k + 1)
    BY <2>2
  <2> HIDE DEF Good, h
  <2>4. (\E f : Good(f, k + 1)) /\ k + 1 \in Nat
    BY <2>3
  <2> QED
    BY <2>4
<1>4. \E g : Good(g, last)
  <2>1. \A n \in 0 .. last - 1 : n \in T => n + 1 \in T
    BY <1>0, <1>3
  <2> HIDE DEF T, Good, after
  <2>a. 0 \in T
    BY <1>2
  <2>b. last \in Nat
    BY <1>0
  <2>3. \A n \in 0 .. last : n \in T
    BY <2>a, <2>b, <2>1, UpTo
  <2>2. last \in T
    BY <1>0, <2>3
  <2> QED
    BY <2>2 DEF T
<1>5. Good(after, last)
  BY <1>4
<1> QED
  BY <1>1, <1>5 DEF Add, empty, last

\* As many units as there are pointers in a vector without duplicates find
\* places.
LEMMA FreshPointerExists ==
  ASSUME NEW s \in Seq(Pointers), IsInjective(s), NEW w, Sound(w), Len(w.order) < Len(s)
  PROVE  FreshPointer(w) \in Pointers \ DOMAIN w.unit
<1> DEFINE n == Len(w.order)
           taken == DOMAIN w.unit
<1>1. /\ n \in Nat /\ DOMAIN w.order = 1 .. n /\ Range(w.order) = taken
      /\ Len(s) \in Nat /\ DOMAIN s = 1 .. Len(s) /\ \A i \in 1 .. Len(s) : s[i] \in Pointers
  BY LenProperties, ElementOfSeq DEF Sound, WorldShape, VectorExact
<1>2. ExistsSurjection(1 .. n, taken)
  <2>1. w.order \in [1 .. n -> taken]
    <3>1. w.order \in Seq(Pointers)
      BY DEF Sound, WorldShape
    <3>2. w.order = [i \in 1 .. n |-> w.order[i]]
      BY <3>1, <1>1
    <3> QED
      BY <1>1, <3>2 DEF Range
  <2>2. \A p \in taken : \E i \in 1 .. n : w.order[i] = p
    BY <1>1 DEF Range
  <2> QED
    BY <2>1, <2>2 DEF ExistsSurjection, Surjection
<1>3. IsFiniteSet(taken) /\ Cardinality(taken) <= n /\ Cardinality(taken) \in Nat
  BY <1>1, <1>2, FS_NatSurjection, FS_SurjCardinalityBound, FS_CardinalityType
<1>4. \E p \in Pointers : p \notin taken
  <2> SUFFICES ASSUME Pointers \subseteq taken
               PROVE  FALSE
    OBVIOUS
  <2>1. s \in [1 .. Len(s) -> taken]
    <3>1. s = [i \in 1 .. Len(s) |-> s[i]]
      BY <1>1
    <3> QED
      BY <1>1, <3>1
  <2>2. IsFiniteSet(1 .. Len(s)) /\ Cardinality(1 .. Len(s)) = Len(s)
    <3> DEFINE k == Len(s)
    <3>1. k \in Int /\ 1 \in Int /\ ~(1 > k) /\ k - 1 + 1 = k
      BY <1>1
    <3> HIDE DEF k
    <3>2. IsFiniteSet(1 .. k) /\ Cardinality(1 .. k) = IF 1 > k THEN 0 ELSE k - 1 + 1
      BY <3>1, FS_Interval
    <3> QED
      BY <3>1, <3>2 DEF k
  <2>3. \E x, y \in 1 .. Len(s) : x # y /\ s[x] = s[y]
    <3>1. Cardinality(taken) < Cardinality(1 .. Len(s))
      BY <1>1, <1>3, <2>2
    <3> HIDE DEF taken
    <3> QED
      BY <1>3, <2>1, <2>2, <3>1, FS_PigeonHole
  <2> QED
    BY <1>1, <2>3 DEF IsInjective
<1> QED
  BY <1>4 DEF FreshPointer

\* A game that is loaded has the units it was saved with, in their order, in a
\* sound world.
LEMMA WorldComesBack ==
  ASSUME NEW g, Proper(g)
  PROVE  LET w == WorldOf(SerializeGameState(g))
         IN  /\ Sound(w) /\ Living(w)
             /\ w.town = TownOf(SerializeGameState(g))
             /\ Indices(w) = Indices(g.world)
             /\ \A i \in Indices(w) : UnitAt(w, i) = UnitAt(g.world, i)
<1> DEFINE m == SerializeGameState(g)
           order == g.world.order
           last == Len(order)
           empty == [order |-> <<>>, unit |-> [p \in {} |-> p],
                     registry |-> [t \in Tiles |-> {}], town |-> TownOf(m)]
           Loaded(w, n) == /\ Sound(w) /\ w.town = TownOf(m) /\ Len(w.order) = n
                           /\ \A i \in 1 .. n : w.unit[w.order[i]] = UnitAt(g.world, i)
<1>1. /\ order \in Seq(Pointers) /\ IsInjective(order)
      /\ last \in Nat /\ DOMAIN order = 1 .. last
      /\ \A i \in 1 .. last : UnitAt(g.world, i) \in Units
  <2>1. Sound(g.world)
    BY DEF Proper
  <2>2. order \in Seq(Pointers) /\ IsInjective(order) /\ g.world.unit \in [DOMAIN g.world.unit -> Units]
    BY <2>1 DEF Sound, WorldShape, VectorExact
  <2>3. last \in Nat /\ DOMAIN order = 1 .. last
    BY <2>2, LenProperties
  <2>4. \A i \in 1 .. last : order[i] \in DOMAIN g.world.unit
    BY <2>1, <2>3 DEF Sound, VectorExact, Range
  <2> QED
    BY <2>2, <2>3, <2>4 DEF UnitAt
<1>2. /\ Len(m.units) = last
      /\ \A i \in 1 .. last : UnitOf(m.units[i]) = UnitAt(g.world, i)
  <2>1. m.units = [i \in 1 .. last |-> UnitMessage(UnitAt(g.world, i))]
    BY <1>1 DEF SerializeGameState, Indices
  <2> QED
    BY <1>1, <2>1, UnitComesBack
<1>3. Loaded(empty, 0)
  <2>1. /\ empty.order = <<>> /\ empty.unit = [p \in {} |-> p] /\ DOMAIN empty.unit = {}
        /\ empty.registry = [t \in Tiles |-> {}] /\ empty.town = TownOf(m)
        /\ Fields(empty)
    BY DEF Fields
  <2> HIDE DEF empty
  <2>2. Range(empty.order) = {} /\ IsInjective(empty.order) /\ Len(empty.order) = 0
    BY <2>1 DEF Range, IsInjective
  <2>3. WorldShape(empty)
    BY <2>1 DEF WorldShape
  <2>4. VectorExact(empty) /\ RegistryExact(empty)
    BY <2>1, <2>2 DEF VectorExact, RegistryExact
  <2> QED
    BY <2>1, <2>2, <2>3, <2>4 DEF Sound
<1>4. ASSUME NEW w, NEW n \in 0 .. last - 1, Loaded(w, n)
      PROVE  Loaded(AddUnit(w, FreshPointer(w), UnitOf(m.units[n + 1])), n + 1)
  <2> DEFINE p == FreshPointer(w)
             u == UnitOf(m.units[n + 1])
             v == AddUnit(w, p, u)
  <2>1. p \in Pointers \ DOMAIN w.unit
    BY <1>1, <1>4, FreshPointerExists
  <2>2. u \in Units /\ u = UnitAt(g.world, n + 1)
    BY <1>1, <1>2
  <2> HIDE DEF p, u
  <2>3. Sound(v)
    BY <1>4, <2>1, <2>2, AddUnitSound
  <2>4. /\ v.order = Append(w.order, p) /\ v.town = w.town
        /\ v.unit = [q \in DOMAIN w.unit \cup {p} |-> IF q = p THEN u ELSE w.unit[q]]
    BY DEF AddUnit
  <2> HIDE DEF v
  <2>5. /\ w.order \in Seq(Pointers) /\ DOMAIN w.order = 1 .. n
        /\ \A i \in 1 .. n : w.order[i] \in DOMAIN w.unit
    <3>1. w.order \in Seq(Pointers)
      BY <1>4 DEF Sound, WorldShape
    <3>2. DOMAIN w.order = 1 .. n
      BY <1>4, <3>1, LenProperties
    <3> QED
      BY <1>4, <3>1, <3>2 DEF Sound, VectorExact, Range
  <2>6. /\ Len(v.order) = n + 1
        /\ v.order[n + 1] = p
        /\ \A i \in 1 .. n : v.order[i] = w.order[i]
    BY <1>4, <2>1, <2>4, <2>5, AppendProperties
  <2>7. ASSUME NEW i \in 1 .. n + 1
        PROVE  v.unit[v.order[i]] = UnitAt(g.world, i)
    <3>1. CASE i = n + 1
      BY <2>2, <2>4, <2>6, <3>1
    <3>2. CASE i # n + 1
      <4>1. i \in 1 .. n
        BY <1>1, <3>2
      <4>2. v.order[i] = w.order[i] /\ w.order[i] \in DOMAIN w.unit /\ w.order[i] # p
        BY <2>1, <2>5, <2>6, <4>1
      <4> QED
        BY <1>4, <2>4, <4>1, <4>2
    <3> QED
      BY <3>1, <3>2
  <2>8. v.town = TownOf(m)
    BY <1>4, <2>4
  <2> QED
    BY <2>3, <2>6, <2>7, <2>8 DEF v, p, u
<1> HIDE DEF m, empty, Loaded, order, last
<1>5. PICK after :
        /\ after = [n \in 0 .. last |->
             IF n = 0 THEN empty
             ELSE AddUnit(after[n - 1], FreshPointer(after[n - 1]), UnitOf(m.units[n]))]
        /\ WorldOf(m) = after[last]
  <2>1. Len(m.units) \in Nat
    BY <1>1, <1>2
  <2> QED
    BY <1>2, <2>1, WorldOfRecursion DEF empty
<1> DEFINE T == {n \in 0 .. last : Loaded(after[n], n)}
<1>6. 0 \in T
  <2>1. after[0] = empty
    BY <1>1, <1>5
  <2> QED
    BY <1>1, <1>3, <2>1
<1>7. \A n \in 0 .. last - 1 : n \in T => n + 1 \in T
  <2> SUFFICES ASSUME NEW n \in 0 .. last - 1, n \in T
               PROVE  n + 1 \in T
    OBVIOUS
  <2>1. n + 1 \in 0 .. last /\ n + 1 # 0 /\ n + 1 - 1 = n
    BY <1>1
  <2>2. after[n + 1] = AddUnit(after[n], FreshPointer(after[n]), UnitOf(m.units[n + 1]))
    BY <1>5, <2>1
  <2>3. Loaded(after[n + 1], n + 1)
    BY <1>4, <2>2
  <2> QED
    BY <2>1, <2>3
<1>8. Loaded(after[last], last)
  <2> HIDE DEF T
  <2>1. last \in Nat
    BY <1>1
  <2>2. \A n \in 0 .. last : n \in T
    BY <1>6, <1>7, <2>1, UpTo
  <2>3. last \in T
    BY <2>1, <2>2
  <2> QED
    BY <2>3 DEF T
<1> DEFINE w == WorldOf(m)
<1>9. Loaded(w, last)
  BY <1>5, <1>8
<1> HIDE DEF w
<1>10. Sound(w) /\ w.town = TownOf(m) /\ Indices(w) = 1 .. last /\ Indices(g.world) = 1 .. last
  <2>1. Sound(w) /\ w.town = TownOf(m) /\ Len(w.order) = last
    BY <1>9 DEF Loaded
  <2>2. w.order \in Seq(Pointers)
    BY <2>1 DEF Sound, WorldShape
  <2> QED
    BY <1>1, <2>1, <2>2, LenProperties DEF Indices, order
<1>11. \A i \in 1 .. last : UnitAt(w, i) = UnitAt(g.world, i)
  BY <1>9 DEF Loaded, UnitAt
<1>12. Living(w)
  <2> SUFFICES ASSUME NEW p \in DOMAIN w.unit
               PROVE  Alive(w.unit[p])
    BY DEF Living
  <2>1. PICK i \in 1 .. last : w.order[i] = p
    BY <1>10 DEF Sound, VectorExact, Range, Indices
  <2>2. w.unit[p] = g.world.unit[g.world.order[i]]
    BY <1>11, <2>1 DEF UnitAt
  <2>3. g.world.order[i] \in DOMAIN g.world.unit
    BY <1>10 DEF Proper, Sound, VectorExact, Range, Indices
  <2> QED
    BY <2>2, <2>3 DEF Proper, Living
<1> QED
  BY <1>10, <1>11, <1>12 DEF w, m

\* The common treasury, and nothing in the others.
CommonOnly(town) ==
  [f \in Factions \cup {Common} |-> IF f = Common THEN town.gold[Common] ELSE 0]

\* What is loaded of what was saved.
LEMMA GameComesBack ==
  ASSUME NEW g, Proper(g)
  PROVE  LET loaded == DeserializeGameState(SerializeGameState(g))
         IN  /\ loaded = [turn |-> g.turn, world |-> loaded.world, ids |-> g.ids,
                          nextBuildingId |-> g.nextBuildingId, fog |-> Dark, registered |-> {}]
             /\ Sound(loaded.world) /\ Living(loaded.world)
             /\ Indices(loaded.world) = Indices(g.world)
             /\ \A i \in Indices(g.world) : UnitAt(loaded.world, i) = UnitAt(g.world, i)
             /\ loaded.world.town = [owner |-> g.world.town.owner, queue |-> g.world.town.queue,
                  stock |-> g.world.town.stock, population |-> g.world.town.population,
                  food |-> g.world.town.food, buildings |-> g.world.town.buildings,
                  gold |-> CommonOnly(g.world.town)]
<1> DEFINE m == SerializeGameState(g)
           loaded == DeserializeGameState(m)
           w == WorldOf(m)
<1>1. /\ m.turn = g.turn /\ m.nextBuildingId = g.nextBuildingId
      /\ DOMAIN m.buildings = DOMAIN g.ids
      /\ \A n \in DOMAIN g.ids : m.buildings[n].id = g.ids[n]
  BY DEF SerializeGameState
<1>2. g.ids = [n \in DOMAIN g.ids |-> g.ids[n]]
  <2>1. g.ids \in Seq(Nat)
    BY DEF Proper, Numbered
  <2> QED
    BY <2>1, LenProperties
<1>3. /\ Sound(w) /\ Living(w) /\ w.town = TownOf(m)
      /\ Indices(w) = Indices(g.world)
      /\ \A i \in Indices(w) : UnitAt(w, i) = UnitAt(g.world, i)
  BY WorldComesBack
<1>4. TownOf(m) = [g.world.town EXCEPT !.gold = CommonOnly(g.world.town)]
  BY TownComesBack DEF CommonOnly
<1> HIDE DEF m, w
<1>5. [n \in DOMAIN m.buildings |-> m.buildings[n].id] = g.ids
  BY <1>1, <1>2
<1>6. loaded = [turn |-> g.turn, world |-> w, ids |-> g.ids,
                nextBuildingId |-> g.nextBuildingId, fog |-> Dark, registered |-> {}]
  BY <1>1, <1>5 DEF DeserializeGameState, w
<1>7. TownOf(m) = [owner |-> g.world.town.owner, queue |-> g.world.town.queue,
                  stock |-> g.world.town.stock, population |-> g.world.town.population,
                  food |-> g.world.town.food, buildings |-> g.world.town.buildings,
                  gold |-> CommonOnly(g.world.town)]
  <2>1. g.world.town \in Towns
    BY DEF Proper
  <2> QED
    BY <1>4, <2>1, OtherGold
<1> HIDE DEF loaded
<1> QED
  BY <1>3, <1>6, <1>7 DEF m, loaded

\* A game that is loaded and has its fog calculated is a proper game again.
LEMMA LoadedIsProper ==
  ASSUME NEW g, Proper(g)
  PROVE  LET loaded == DeserializeGameState(SerializeGameState(g))
         IN  Proper([loaded EXCEPT !.fog = Recalculate(@, loaded.world, Player)])
<1> DEFINE loaded == DeserializeGameState(SerializeGameState(g))
           town == g.world.town
           w == loaded.world
           fog == Recalculate(Dark, w, Player)
           h == [loaded EXCEPT !.fog = Recalculate(@, w, Player)]
<1>1. /\ loaded = [turn |-> g.turn, world |-> w, ids |-> g.ids,
                   nextBuildingId |-> g.nextBuildingId, fog |-> Dark, registered |-> {}]
      /\ Sound(w) /\ Living(w)
      /\ w.town = [owner |-> town.owner, queue |-> town.queue, stock |-> town.stock,
                   population |-> town.population, food |-> town.food,
                   buildings |-> town.buildings, gold |-> CommonOnly(town)]
  BY GameComesBack
<1> HIDE DEF loaded, w
<1>2. h = [turn |-> g.turn, world |-> w, ids |-> g.ids,
           nextBuildingId |-> g.nextBuildingId, fog |-> fog, registered |-> {}]
  BY <1>1
<1> HIDE DEF h
<1>3. w.town \in Towns
  <2>1. CommonOnly(town) \in [Factions \cup {Common} -> Nat]
    BY DEF Proper, Towns, CommonOnly
  <2> HIDE DEF town
  <2>2. town \in Towns
    BY DEF Proper, town
  <2> QED
    BY <1>1, <2>1, <2>2 DEF Towns
<1>4. Priced(w.town)
  <2>1. /\ w.town.queue = town.queue /\ w.town.stock = town.stock
    BY <1>1
  <2> QED
    BY <2>1 DEF Proper, Priced
<1>5. FogLifted(h)
  <2>1. Dark \in [Tiles -> Visibility]
    BY DEF Dark, Visibility
  <2>2. h.world = w /\ h.fog = fog
    BY <1>2
  <2> QED
    BY <1>1, <2>1, <2>2, RecalculateLifts DEF FogLifted
<1>6. Numbered(h)
  <2>1. /\ h.ids = g.ids /\ h.nextBuildingId = g.nextBuildingId
        /\ h.world.town.buildings = town.buildings
    BY <1>1, <1>2
  <2> QED
    BY <2>1 DEF Proper, Numbered
<1>7. Proper(h)
  <2>1. h.turn = g.turn /\ h.world = w /\ h.registered = {}
    BY <1>2
  <2>2. GameFields(h)
    BY <1>2 DEF GameFields
  <2> QED
    BY <1>1, <1>3, <1>4, <1>5, <1>6, <2>1, <2>2 DEF Proper, GameFields
<1> QED
  BY <1>7 DEF h, loaded, w

-----------------------------------------------------------------------------
(* The invariant: what holds of the program between two frames.  Its        *)
(* conjuncts say that the game is one that could have been set up, that the *)
(* selection is true, and that the save on the disk is one of such a game.  *)

AppFields(a) ==
  a = [game |-> a.game, sel |-> a.sel, city |-> a.city, cinematic |-> a.cinematic,
       anim |-> a.anim, disk |-> a.disk, logged |-> a.logged, chosen |-> a.chosen]

Selected(a) ==
  IF a.sel = NoSelection THEN a.chosen = {}
  ELSE a.sel \in Indices(a.game.world) /\ a.chosen = {a.game.world.order[a.sel]}

Shows(anim) ==
  \A i \in DOMAIN anim : anim[i] \in [type : {"Move", "Attack", "Death"}, of : Pointers]

Saved(disk) == disk = <<>> \/ \E g : Proper(g) /\ disk = <<SerializeGameState(g)>>

Right(a) ==
  /\ AppFields(a)
  /\ Proper(a.game)
  /\ Selected(a)
  /\ a.city \in 0 .. NumCities
  /\ a.cinematic \in BOOLEAN
  /\ Shows(a.anim)
  /\ Saved(a.disk)
  /\ a.logged \in {"nothing", "attack", "capture"}

\* The program with another game, in which the selection is true.
LEMMA OtherGame ==
  ASSUME NEW a, Right(a), NEW g, Proper(g), g.world.order = a.game.world.order
  PROVE  Right([a EXCEPT !.game = g])
<1> DEFINE b == [a EXCEPT !.game = g]
<1>1. /\ AppFields(b)
      /\ b.game = g /\ b.sel = a.sel /\ b.city = a.city /\ b.cinematic = a.cinematic
      /\ b.anim = a.anim /\ b.disk = a.disk /\ b.logged = a.logged /\ b.chosen = a.chosen
  BY DEF Right, AppFields
<1> HIDE DEF b
<1>2. Selected(b)
  BY <1>1 DEF Right, Selected, Indices
<1> QED
  BY <1>1, <1>2 DEF Right, b

\* Nobody is dead in a proper game, so nobody is removed.
LEMMA NoneToRemove ==
  ASSUME NEW a, Proper(a.game)
  PROVE  RemoveDeadUnits(a) = a
<1> DEFINE last == Len(a.game.world.order)
           after == CHOOSE f : f = [n \in 0 .. last |->
                      IF n = 0 THEN a ELSE RemoveDead(f[n - 1], last - n + 1)]
           T == {n \in 0 .. last : after[n] = a}
<1>1. last \in Nat /\ DOMAIN a.game.world.order = 1 .. last
  BY LenProperties DEF Proper, Sound, WorldShape
<1>2. RemoveDeadUnits(a) = after[last]
  BY DEF RemoveDeadUnits
<1>3. ASSUME NEW i \in 1 .. last
      PROVE  RemoveDead(a, i) = a
  <2>1. a.game.world.order[i] \in DOMAIN a.game.world.unit
    BY <1>1 DEF Proper, Sound, VectorExact, Range
  <2> QED
    BY <2>1 DEF Proper, Living, RemoveDead, UnitAt
<1> HIDE DEF last
<1>4. after = [n \in 0 .. last |-> IF n = 0 THEN a ELSE RemoveDead(after[n - 1], last - n + 1)]
  <2> DEFINE f == [n \in 0 .. last |-> a]
  <2>1. ASSUME NEW n \in 0 .. last
        PROVE  a = IF n = 0 THEN a ELSE RemoveDead(f[n - 1], last - n + 1)
    <3>1. CASE n = 0
      BY <3>1
    <3>2. CASE n # 0
      <4>1. n - 1 \in 0 .. last /\ last - n + 1 \in 1 .. last
        BY <1>1, <3>2
      <4> QED
        BY <1>3, <4>1
    <3> QED
      BY <3>1, <3>2
  <2>2. f = [n \in 0 .. last |-> IF n = 0 THEN a ELSE RemoveDead(f[n - 1], last - n + 1)]
    BY <2>1
  <2> HIDE DEF f
  <2> QED
    BY <2>2
<1> HIDE DEF after
<1>5. 0 \in T
  <2>1. after[0] = a
    BY <1>1, <1>4
  <2> QED
    BY <1>1, <2>1
<1>6. \A n \in 0 .. last - 1 : n \in T => n + 1 \in T
  <2> SUFFICES ASSUME NEW n \in 0 .. last - 1, n \in T
               PROVE  n + 1 \in T
    OBVIOUS
  <2>1. n + 1 \in 0 .. last /\ n + 1 # 0 /\ n + 1 - 1 = n /\ last - (n + 1) + 1 \in 1 .. last
    BY <1>1
  <2>2. after[n + 1] = RemoveDead(after[n], last - (n + 1) + 1)
    BY <1>4, <2>1
  <2>3. after[n + 1] = a
    BY <1>3, <2>1, <2>2
  <2> QED
    BY <2>1, <2>3
<1> HIDE DEF T
<1>7. \A n \in 0 .. last : n \in T
  <2>1. last \in Nat
    BY <1>1
  <2> QED
    BY <1>5, <1>6, <2>1, UpTo
<1>8. last \in T
  BY <1>1, <1>7
<1> QED
  BY <1>2, <1>8 DEF T, after

-----------------------------------------------------------------------------
(* Clicks. *)

\* Selecting a unit there is, or none.
LEMMA SelectRight ==
  ASSUME NEW a, Right(a), NEW i \in {NoSelection} \cup Indices(a.game.world)
  PROVE  Right(Select(a, i))
<1> DEFINE b == Select(a, i)
<1>1. /\ AppFields(b)
      /\ b.game = a.game /\ b.sel = i /\ b.city = a.city /\ b.cinematic = a.cinematic
      /\ b.anim = a.anim /\ b.disk = a.disk /\ b.logged = a.logged
      /\ b.chosen = IF i = NoSelection THEN {} ELSE {a.game.world.order[i]}
  <2> DEFINE new == IF i = NoSelection THEN {} ELSE {a.game.world.order[i]}
  <2>1. b = [a EXCEPT !.sel = i, !.chosen = new]
    BY DEF Select
  <2> HIDE DEF new, b
  <2>2. b = [game |-> a.game, sel |-> i, city |-> a.city, cinematic |-> a.cinematic,
             anim |-> a.anim, disk |-> a.disk, logged |-> a.logged, chosen |-> new]
    BY <2>1 DEF Right, AppFields
  <2> QED
    BY <2>2 DEF AppFields, new
<1> HIDE DEF b
<1>2. Selected(b)
  BY <1>1 DEF Selected
<1> QED
  BY <1>1, <1>2 DEF Right, b

\* A unit that is found on a tile is one there is.
LEMMA FindUnitType ==
  ASSUME NEW w, Sound(w), NEW t
  PROVE  FindUnitAtTile(w, t) \in {NoSelection} \cup Indices(w)
<1> DEFINE here == {i \in Indices(w) : Alive(UnitAt(w, i)) /\ UnitAt(w, i).tile = t}
<1>1. here \subseteq Nat
  BY LenProperties DEF Sound, WorldShape, Indices
<1>2. CASE here = {}
  BY <1>2 DEF FindUnitAtTile
<1>3. CASE here # {}
  <2> HIDE DEF here
  <2>1. \E i \in here : \A j \in here : i <= j
    BY <1>1, <1>3, Smallest
  <2>2. (CHOOSE i \in here : \A j \in here : i <= j) \in here
    BY <2>1
  <2> QED
    BY <1>3, <2>2 DEF FindUnitAtTile, here
<1> QED
  BY <1>2, <1>3

\* An animation of a unit there is goes with the others.
LEMMA AnimateShows ==
  ASSUME NEW anim, Shows(anim), NEW i, NEW type \in {"Move", "Attack", "Death"},
         NEW p \in Pointers
  PROVE  Shows(Animate(anim, i, type, p))
BY DEF Shows, Animate

\* An attack: the selection is that of its unit afterwards as well, wherever
\* the fallen leave it, or of nobody.
LEMMA AttackRight ==
  ASSUME NEW a, Right(a), a.sel # NoSelection, NEW j, AttackPossible(a.game, a.sel, j)
  PROVE  Right(TryAttack(a, j))
<1> DEFINE w == a.game.world
           i == a.sel
           fought == Fight(w, i, j)
           dead == {k \in {i, j} : ~Alive(UnitAt(fought, k))}
           v == Bury(fought, i, j)
           sel == IF i \in dead THEN NoSelection ELSE IF j \in dead /\ j < i THEN i - 1 ELSE i
           chosen == IF sel = NoSelection THEN {} ELSE a.chosen
           g == [a.game EXCEPT !.world = v, !.fog = Recalculate(@, v, Player)]
           anim == FightAnimations(a, j, dead)
           b == TryAttack(a, j)
<1>1. ValidAttack(w, i, j)
  BY DEF AttackPossible, Peace!ValidAttack
<1>2. /\ Sound(w) /\ Living(w)
      /\ i \in Indices(w) /\ j \in Indices(w)
      /\ w.order[i] \in Pointers /\ w.order[j] \in Pointers
      /\ UnitAt(w, i) \in Units /\ UnitAt(w, j) \in Units
      /\ a.chosen = {w.order[i]}
  <2>1. Sound(w) /\ Living(w) /\ i \in Indices(w) /\ j \in Indices(w) /\ a.chosen = {w.order[i]}
    BY <1>1 DEF Right, Proper, Selected, ValidAttack
  <2> HIDE DEF w
  <2> QED
    BY <2>1 DEF Sound, WorldShape, VectorExact, Indices, Range, UnitAt
<1>3. i # j
  <2>1. UnitAt(w, i).faction \in Factions
    BY <1>2 DEF Units
  <2> QED
    BY <1>1, <2>1, WorldAssumption DEF ValidAttack
<1>4. Sound(v) /\ Living(v) /\ v.town = w.town
  <2> HIDE DEF w, i
  <2> QED
    BY <1>1, <1>2, AttackSound DEF AttackUnit
<1>5. Proper(g)
  <2> HIDE DEF v
  <2> QED
    BY <1>4, NewWorld DEF Right
<1>6. g.world = v
  <2> HIDE DEF v
  <2> QED
    BY DEF Right, Proper
<1>7. Shows(anim)
  BY <1>2, AnimateShows DEF FightAnimations, Right
<1>8. IF sel = NoSelection THEN chosen = {} ELSE sel \in Indices(v) /\ chosen = {v.order[sel]}
  <2>1. CASE i \in dead
    BY <2>1
  <2>2. CASE i \notin dead
    <3> DEFINE k == IF ~Alive(UnitAt(fought, j)) /\ j < i THEN i - 1 ELSE i
    <3>1. /\ Sound(fought) /\ fought.order = w.order
          /\ i \in Indices(fought) /\ j \in Indices(fought) /\ Alive(UnitAt(fought, i))
      <4> HIDE DEF w, i
      <4> QED
        BY <1>2, <2>2, FightSound DEF Indices, i
    <3>2. sel = k
      BY <2>2
    <3>3. k \in Indices(v) /\ v.order[k] = w.order[i]
      <4> HIDE DEF w, i, fought
      <4> QED
        BY <1>3, <3>1, BuryIndex
    <3>4. chosen = IF k = NoSelection THEN {} ELSE {w.order[i]}
      BY <1>2, <3>2
    <3> HIDE DEF sel, chosen, k, v
    <3> QED
      BY <3>2, <3>3, <3>4
  <2> QED
    BY <2>1, <2>2
<1>9. b = [game |-> g, sel |-> sel, city |-> a.city, cinematic |-> TRUE, anim |-> anim,
           disk |-> a.disk, logged |-> "attack", chosen |-> chosen]
  <2>1. b = [a EXCEPT !.game = g, !.cinematic = TRUE, !.anim = anim, !.logged = "attack",
                      !.sel = sel, !.chosen = chosen]
    BY Zenon DEF TryAttack
  <2> HIDE DEF b, g, anim, sel, chosen
  <2> QED
    BY <2>1 DEF Right, AppFields
<1> HIDE DEF b, g, anim, sel, chosen, v
<1>10. AppFields(b) /\ Selected(b)
  BY <1>6, <1>8, <1>9 DEF AppFields, Selected
<1> QED
  BY <1>5, <1>7, <1>9, <1>10 DEF Right, b

\* Units have moved and the fog was calculated, and then cities have changed
\* hands, none of them the player's.
LEMMA NewWorldAndTown ==
  ASSUME NEW g, Proper(g),
         NEW w, Sound(w), Living(w), w.town = g.world.town,
         NEW town \in Towns, Priced(town),
         town.buildings = g.world.town.buildings,
         \A c \in Cities : g.world.town.owner[c] = Player => town.owner[c] = Player
  PROVE  Proper([g EXCEPT !.world = [w EXCEPT !.town = town],
                          !.fog = Recalculate(@, w, Player)])
<1> DEFINE fog == Recalculate(g.fog, w, Player)
           h == [g EXCEPT !.world = w, !.fog = Recalculate(@, w, Player)]
           v == [w EXCEPT !.town = town]
<1>1. Proper(h)
  BY NewWorld
<1>2. h = [turn |-> g.turn, world |-> w, ids |-> g.ids, nextBuildingId |-> g.nextBuildingId,
           fog |-> fog, registered |-> g.registered]
  <2> HIDE DEF fog
  <2>1. h = [g EXCEPT !.world = w, !.fog = fog]
    BY DEF fog, Proper
  <2> HIDE DEF h
  <2> QED
    BY <2>1 DEF Proper
<1>3. [g EXCEPT !.world = v, !.fog = Recalculate(@, w, Player)]
        = [turn |-> g.turn, world |-> v, ids |-> g.ids, nextBuildingId |-> g.nextBuildingId,
           fog |-> fog, registered |-> g.registered]
  <2> DEFINE k == [g EXCEPT !.world = v, !.fog = Recalculate(@, w, Player)]
  <2> HIDE DEF fog, v
  <2>1. k = [g EXCEPT !.world = v, !.fog = fog]
    BY DEF fog, Proper
  <2> HIDE DEF k
  <2>2. k = [turn |-> g.turn, world |-> v, ids |-> g.ids, nextBuildingId |-> g.nextBuildingId,
             fog |-> fog, registered |-> g.registered]
    BY <2>1 DEF Proper
  <2> QED
    BY <2>2 DEF k
<1> HIDE DEF h, fog
<1>4. Proper([h EXCEPT !.world.town = town])
  <2>1. h.world = w
    BY <1>2
  <2> QED
    BY <1>1, <2>1, NewTown
<1>5. [h EXCEPT !.world.town = town]
        = [turn |-> g.turn, world |-> v, ids |-> g.ids, nextBuildingId |-> g.nextBuildingId,
           fog |-> fog, registered |-> g.registered]
  BY <1>2
<1> QED
  BY <1>3, <1>4, <1>5

\* A city that is captured begins without orders and production.
LEMMA HandoverPriced ==
  ASSUME NEW town \in Towns, Priced(town), NEW c \in Cities, NEW f \in Factions
  PROVE  /\ HandedOver(town, c, f) \in Towns
         /\ Priced(HandedOver(town, c, f))
         /\ HandedOver(town, c, f).buildings = town.buildings
         /\ HandedOver(town, c, f).owner[c] = f
         /\ \A d \in Cities \ {c} : HandedOver(town, c, f).owner[d] = town.owner[d]
<1> DEFINE after == HandedOver(town, c, f)
<1>1. /\ after \in Towns /\ after.buildings = town.buildings
      /\ after.owner[c] = f
      /\ \A d \in Cities \ {c} : after.owner[d] = town.owner[d]
  BY HandoverType
<1>2. /\ after.queue[c] = <<>> /\ after.stock[c] = 0
      /\ \A d \in Cities \ {c} : after.queue[d] = town.queue[d] /\ after.stock[d] = town.stock[d]
  BY HandoverType
<1> HIDE DEF after
<1>3. ASSUME NEW d \in Cities
      PROVE  /\ \A n \in DOMAIN after.queue[d] : /\ after.queue[d][n].item \in BuildingTypes
                                                 /\ after.queue[d][n].cost > 0
             /\ after.stock[d] < (IF after.queue[d] = <<>> THEN 1 ELSE Head(after.queue[d]).cost)
  <2>1. CASE d = c
    <3>1. DOMAIN after.queue[d] = {}
      BY <1>2, <2>1
    <3> QED
      BY <1>2, <2>1, <3>1
  <2>2. CASE d # c
    BY <1>2, <2>2 DEF Priced
  <2> QED
    BY <2>1, <2>2
<1> QED
  BY <1>1, <1>3 DEF Priced, after

\* A move, and the capture of a city that may follow on it.
LEMMA MoveRight ==
  ASSUME NEW a, Right(a), a.sel # NoSelection, NEW t \in Tiles,
         UnitAt(a.game.world, a.sel).faction = Player, MovePossible(a.game, a.sel, t)
  PROVE  Right(TryMoveUnit(a, t))
<1> DEFINE i == a.sel
           w == Move(a.game.world, i, t)
           captures == CapturePossible(a.game, w, i)
           v == IF captures THEN Capture(w, i) ELSE w
           fog == Recalculate(a.game.fog, w, Player)
           g == [a.game EXCEPT !.world = v, !.fog = Recalculate(@, w, Player)]
           anim == Animate(a.anim, i, "Move", w.order[i])
           logged == IF captures THEN "capture" ELSE a.logged
           b == TryMoveUnit(a, t)
<1>1. /\ Proper(a.game) /\ Sound(a.game.world) /\ Living(a.game.world)
      /\ i \in Indices(a.game.world) /\ a.chosen = {a.game.world.order[i]}
      /\ UnitAt(a.game.world, i).moves >= MoveCost[t]
  BY DEF Right, Proper, Selected, MovePossible, ValidMove, Peace!ValidMove,
         UnitAt, Peace!UnitAt
<1>2. /\ Sound(w) /\ Living(w) /\ w.town = a.game.world.town /\ w.order = a.game.world.order
      /\ Descends(a.game.world, w)
  BY <1>1, MoveSound
<1>3. w.order[i] \in Pointers /\ w.order[i] \in DOMAIN w.unit
  <2> HIDE DEF w, i
  <2> QED
    BY <1>1, <1>2 DEF Sound, WorldShape, VectorExact, Indices, Range
<1>4. UnitAt(w, i).faction = Player
  <2> HIDE DEF w, i
  <2> QED
    BY <1>2, <1>3 DEF Descends, UnitAt, i
<1>5. Proper(g) /\ g.world.order = w.order
  <2>1. CASE ~captures
    <3>1. g = [a.game EXCEPT !.world = w, !.fog = Recalculate(@, w, Player)]
      BY <2>1
    <3>2. g.world = w
      <4> HIDE DEF w, v
      <4> QED
        BY <2>1 DEF Right, Proper, v
    <3> HIDE DEF w, g
    <3> QED
      BY <1>1, <1>2, <3>1, <3>2, NewWorld
  <2>2. CASE captures
    <3> DEFINE c == CityCenteredAt(UnitAt(w, i).tile)
               town == HandedOver(w.town, c, Player)
    <3>1. ValidCapture(w, i)
      BY <2>2 DEF CapturePossible, Peace!ValidCapture
    <3>2. c \in Cities
      BY <3>1, CityCenteredAtProperties DEF ValidCapture
    <3>3. v = [w EXCEPT !.town = town]
      BY <1>4, <2>2 DEF Capture, HandedOver
    <3>4. Player \in Factions /\ w.town \in Towns /\ Priced(w.town)
      BY <1>1, <1>2, LocalGameAssumption DEF Proper
    <3> HIDE DEF c, w, i
    <3>5. /\ town \in Towns /\ Priced(town) /\ town.buildings = w.town.buildings
          /\ town.owner[c] = Player
          /\ \A d \in Cities \ {c} : town.owner[d] = w.town.owner[d]
      BY <3>2, <3>4, HandoverPriced
    <3>6. \A d \in Cities : w.town.owner[d] = Player => town.owner[d] = Player
      BY <3>5
    <3> HIDE DEF town, v
    <3>7. g = [a.game EXCEPT !.world = [w EXCEPT !.town = town], !.fog = Recalculate(@, w, Player)]
      BY <3>3
    <3>8. Proper(g)
      <4> HIDE DEF g
      <4> QED
        BY <1>1, <1>2, <3>5, <3>6, <3>7, NewWorldAndTown
    <3>9. g.world = v
      BY DEF Right, Proper
    <3>10. v.order = w.order
      BY <1>2, <3>3 DEF Sound, Fields
    <3> QED
      BY <3>8, <3>9, <3>10
  <2> QED
    BY <2>1, <2>2
<1>6. Shows(anim)
  BY <1>3, AnimateShows DEF Right
<1>7. b = [game |-> g, sel |-> i, city |-> a.city, cinematic |-> a.cinematic, anim |-> anim,
           disk |-> a.disk, logged |-> logged, chosen |-> a.chosen]
  <2>1. b = [a EXCEPT !.game = g, !.anim = anim, !.logged = logged]
    BY Zenon DEF TryMoveUnit
  <2> HIDE DEF b, g, anim, logged
  <2> QED
    BY <2>1 DEF Right, AppFields
<1>8. logged \in {"nothing", "attack", "capture"}
  BY DEF Right
<1> HIDE DEF b, g, anim, logged, w
<1>9. AppFields(b) /\ Selected(b)
  <2>1. AppFields(b) /\ b.game = g /\ b.sel = i /\ b.chosen = a.chosen
    BY <1>7 DEF AppFields
  <2>2. i \in Indices(g.world) /\ a.chosen = {g.world.order[i]}
    BY <1>1, <1>2, <1>5 DEF Indices
  <2> QED
    BY <2>1, <2>2 DEF Selected
<1> QED
  BY <1>5, <1>6, <1>7, <1>8, <1>9 DEF Right, b

\* A click on a tile with a unit selected, whatever there is on the tile.
LEMMA SelectedUnitClickRight ==
  ASSUME NEW a, Right(a), a.sel # NoSelection, NEW t \in Tiles,
         NEW clicked \in {NoSelection} \cup Indices(a.game.world)
  PROVE  Right(SelectedUnitClick(a, t, clicked).app)
<1> DEFINE w == a.game.world
           mine == UnitAt(w, a.sel).faction = Player
           other == clicked \notin {NoSelection, a.sel}
           attacks == mine /\ other /\ AttackPossible(a.game, a.sel, clicked)
           changes == mine /\ other /\ UnitAt(w, clicked).faction = Player
           moves == mine /\ clicked = NoSelection /\ MovePossible(a.game, a.sel, t)
<1>1. Right(Select(a, clicked)) /\ Right(Select(a, NoSelection))
  BY SelectRight
<1>2. attacks => Right(TryAttack(a, clicked))
  BY AttackRight
<1>3. moves => Right(TryMoveUnit(a, t))
  BY MoveRight
<1> HIDE DEF mine, other, attacks, changes, moves, w
<1>4. SelectedUnitClick(a, t, clicked)
        = CASE ~mine /\ clicked # NoSelection -> Handled(Select(a, clicked))
            [] ~mine /\ clicked = NoSelection -> NotHandled(Select(a, NoSelection))
            [] attacks -> Handled(TryAttack(a, clicked))
            [] changes -> Handled(Select(a, clicked))
            [] moves -> Handled(TryMoveUnit(a, t))
            [] mine /\ clicked = a.sel -> Handled(Select(a, NoSelection))
            [] OTHER -> NotHandled(a)
  BY Zenon DEF SelectedUnitClick, mine, other, attacks, changes, moves, w
<1> QED
  BY <1>1, <1>2, <1>3, <1>4 DEF Handled, NotHandled

LEMMA UnitClickRight ==
  ASSUME NEW a, Right(a), NEW t \in Tiles
  PROVE  Right(UnitClick(a, t).app)
<1> DEFINE clicked == FindUnitAtTile(a.game.world, t)
<1>1. clicked \in {NoSelection} \cup Indices(a.game.world)
  BY FindUnitType DEF Right, Proper
<1>2. Right(Select(a, clicked))
  BY <1>1, SelectRight
<1>3. a.sel # NoSelection => Right(SelectedUnitClick(a, t, clicked).app)
  BY <1>1, SelectedUnitClickRight
<1> HIDE DEF clicked
<1>4. UnitClick(a, t)
        = CASE a.sel # NoSelection -> SelectedUnitClick(a, t, clicked)
            [] a.sel = NoSelection /\ clicked # NoSelection -> Handled(Select(a, clicked))
            [] OTHER -> NotHandled(a)
  BY Zenon DEF UnitClick, clicked
<1> QED
  BY <1>2, <1>3, <1>4 DEF Handled, NotHandled

\* The city panel shows one of the cities, or none.
LEMMA OtherCity ==
  ASSUME NEW a, Right(a), NEW c \in 0 .. NumCities
  PROVE  Right([a EXCEPT !.city = c])
<1> DEFINE b == [a EXCEPT !.city = c]
<1>1. /\ AppFields(b)
      /\ b.game = a.game /\ b.sel = a.sel /\ b.city = c /\ b.cinematic = a.cinematic
      /\ b.anim = a.anim /\ b.disk = a.disk /\ b.logged = a.logged /\ b.chosen = a.chosen
  BY DEF Right, AppFields
<1> HIDE DEF b
<1> QED
  BY <1>1 DEF Right, Selected, b

LEMMA CityClickRight ==
  ASSUME NEW a, Right(a), NEW t
  PROVE  Right(CityClick(a, t))
<1> DEFINE here == {c \in Cities : t \in CityTiles[c]}
           c == IF here = {} THEN 0 ELSE CHOOSE c \in here : \A d \in here : c <= d
<1>1. c \in 0 .. NumCities
  <2>1. here \subseteq Nat /\ here \subseteq 0 .. NumCities /\ 0 \in 0 .. NumCities
    BY WorldAssumption DEF Cities
  <2>2. CASE here # {}
    <3> HIDE DEF here
    <3>1. \E d \in here : \A e \in here : d <= e
      BY <2>1, <2>2, Smallest
    <3>2. (CHOOSE d \in here : \A e \in here : d <= e) \in here
      BY <3>1
    <3> QED
      BY <2>1, <2>2, <3>2
  <2> QED
    BY <2>1, <2>2
<1>2. CityClick(a, t) = [a EXCEPT !.city = c]
  BY Zenon DEF CityClick
<1> HIDE DEF c
<1> QED
  BY <1>1, <1>2, OtherCity

LEMMA LeftClickRight ==
  ASSUME NEW a, Right(a), NEW t \in Tiles
  PROVE  Right(LeftClickOn(a, t))
BY UnitClickRight, CityClickRight DEF LeftClickOn

-----------------------------------------------------------------------------
(* Building. *)

\* With the orders of a city dropped or added.
LEMMA OtherTown ==
  ASSUME NEW a, Right(a), NEW town \in Towns, Priced(town),
         town.owner = a.game.world.town.owner, town.buildings = a.game.world.town.buildings
  PROVE  Right([a EXCEPT !.game.world.town = town])
<1> DEFINE g == [a.game EXCEPT !.world.town = town]
<1>1. Proper(g)
  BY NewTown DEF Right
<1>2. g.world.order = a.game.world.order
  BY DEF Right, Proper, Sound, Fields
<1>3. [a EXCEPT !.game.world.town = town] = [a EXCEPT !.game = g]
  OBVIOUS
<1> HIDE DEF g
<1> QED
  BY <1>1, <1>2, <1>3, OtherGame

\* Cancelling drops the first order and the production accumulated for it.
LEMMA CancelType ==
  ASSUME NEW town \in Towns, Priced(town), NEW c \in Cities, town.queue[c] # <<>>
  PROVE  LET after == CancelOrder(town, c)
         IN  /\ after \in Towns /\ Priced(after)
             /\ after.owner = town.owner /\ after.buildings = town.buildings
<1> DEFINE q == [town.queue EXCEPT ![c] = Tail(town.queue[c])]
           s == [town.stock EXCEPT ![c] = 0]
           after == CancelOrder(town, c)
<1>1. /\ town.queue \in [Cities -> Seq(Orders)] /\ town.stock \in [Cities -> Nat]
      /\ town.queue[c] \in Seq(Orders)
  BY DEF Towns
<1>2. /\ q \in [Cities -> Seq(Orders)] /\ q[c] = Tail(town.queue[c])
      /\ s \in [Cities -> Nat] /\ s[c] = 0
      /\ \A d \in Cities \ {c} : q[d] = town.queue[d] /\ s[d] = town.stock[d]
  BY <1>1, HeadTailProperties
<1>3. after = [owner |-> town.owner, queue |-> q, stock |-> s,
               population |-> town.population, food |-> town.food,
               buildings |-> town.buildings, gold |-> town.gold]
  <2> DEFINE t == [town EXCEPT !.queue[c] = Tail(@)]
  <2>1. after = [t EXCEPT !.stock[c] = 0]
    BY DEF CancelOrder
  <2>2. t = [town EXCEPT !.queue = q]
    BY DEF Towns
  <2> HIDE DEF q, s, t, after
  <2>3. t = [owner |-> town.owner, queue |-> q, stock |-> town.stock,
             population |-> town.population, food |-> town.food,
             buildings |-> town.buildings, gold |-> town.gold]
    BY <2>2 DEF Towns
  <2> QED
    BY <2>1, <2>3 DEF s
<1> HIDE DEF q, s, after
<1>4. after \in Towns
  BY <1>2, <1>3 DEF Towns
<1>5. \A n \in DOMAIN q[c] : /\ q[c][n].item \in BuildingTypes
                             /\ q[c][n].cost > 0
  <2> DEFINE old == town.queue[c]
             new == Tail(old)
  <2>1. /\ \A n \in DOMAIN old : old[n].item \in BuildingTypes /\ old[n].cost > 0
        /\ old \in Seq(Orders) /\ old # <<>>
    BY <1>1 DEF Priced
  <2> HIDE DEF old
  <2>2. \A n \in DOMAIN new : n + 1 \in DOMAIN old /\ new[n] = old[n + 1]
    <3>1. /\ new \in Seq(Orders) /\ Len(new) = Len(old) - 1
          /\ \A n \in 1 .. Len(new) : new[n] = old[n + 1]
      BY <2>1, HeadTailProperties
    <3>2. DOMAIN new = 1 .. Len(new) /\ DOMAIN old = 1 .. Len(old) /\ Len(old) \in Nat
      BY <2>1, <3>1, LenProperties
    <3> HIDE DEF new
    <3> QED
      BY <3>1, <3>2
  <2> QED
    BY <1>2, <2>1, <2>2 DEF old
<1>6. s[c] < (IF q[c] = <<>> THEN 1 ELSE Head(q[c]).cost)
  <2>1. CASE q[c] = <<>>
    BY <1>2, <2>1
  <2>2. CASE q[c] # <<>>
    <3>1. q[c] \in Seq(Orders)
      BY <1>2
    <3>2. 1 \in DOMAIN q[c] /\ Head(q[c]) = q[c][1]
      <4> DEFINE first == q[c]
      <4>1. first \in Seq(Orders) /\ first # <<>>
        BY <2>2, <3>1
      <4> HIDE DEF first
      <4>2. Len(first) \in Nat /\ Len(first) # 0 /\ DOMAIN first = 1 .. Len(first)
        BY <4>1, EmptySeq, LenProperties
      <4> QED
        BY <4>1, <4>2 DEF first
    <3> QED
      BY <1>2, <1>5, <2>2, <3>2
  <2> QED
    BY <2>1, <2>2
<1>7. Priced(after)
  <2>1. after.queue = q /\ after.stock = s
    BY <1>3
  <2> QED
    BY <1>2, <1>5, <1>6, <2>1 DEF Priced
<1> QED
  BY <1>3, <1>4, <1>7 DEF after

\* An order for a building joins the queue.
LEMMA EnqueuePriced ==
  ASSUME NEW town \in Towns, Priced(town), NEW c \in Cities,
         NEW order \in Orders, order.item \in BuildingTypes, order.cost > 0
  PROVE  Priced(Enqueue(town, c, order))
<1> DEFINE after == Enqueue(town, c, order)
<1>1. /\ after \in Towns /\ after.stock = town.stock
      /\ \A d \in Cities \ {c} : after.queue[d] = town.queue[d]
      /\ after.queue[c] # <<>>
      /\ town.queue[c] # <<>> => Head(after.queue[c]) = Head(town.queue[c])
      /\ \A n \in DOMAIN after.queue[c] :
           IF n \in DOMAIN town.queue[c] THEN after.queue[c][n] = town.queue[c][n]
                                         ELSE after.queue[c][n] = order
  BY EnqueueType
<1> HIDE DEF after
<1>2. \A n \in DOMAIN after.queue[c] : /\ after.queue[c][n].item \in BuildingTypes
                                       /\ after.queue[c][n].cost > 0
  BY <1>1 DEF Priced
<1>3. after.stock[c] < Head(after.queue[c]).cost
  <2>1. CASE town.queue[c] # <<>>
    BY <1>1, <2>1 DEF Priced
  <2>2. CASE town.queue[c] = <<>>
    <3>1. town.stock[c] = 0
      <4>1. town.stock[c] < 1 /\ town.stock[c] \in Nat
        BY <2>2 DEF Priced, Towns
      <4> QED
        BY <4>1
    <3>2. 1 \in DOMAIN after.queue[c] /\ Head(after.queue[c]) = after.queue[c][1]
      <4> DEFINE first == after.queue[c]
      <4>1. first \in Seq(Orders) /\ first # <<>>
        BY <1>1 DEF Towns
      <4> HIDE DEF first
      <4>2. Len(first) \in Nat /\ Len(first) # 0 /\ DOMAIN first = 1 .. Len(first)
        BY <4>1, EmptySeq, LenProperties
      <4> QED
        BY <4>1, <4>2 DEF first
    <3> QED
      BY <1>1, <1>2, <3>1, <3>2
  <2> QED
    BY <2>1, <2>2
<1>4. ASSUME NEW d \in Cities
      PROVE  /\ \A n \in DOMAIN after.queue[d] : /\ after.queue[d][n].item \in BuildingTypes
                                                 /\ after.queue[d][n].cost > 0
             /\ after.stock[d] < (IF after.queue[d] = <<>> THEN 1 ELSE Head(after.queue[d]).cost)
  <2>1. CASE d = c
    BY <1>1, <1>2, <1>3, <2>1
  <2>2. CASE d # c
    BY <1>1, <2>2 DEF Priced
  <2> QED
    BY <2>1, <2>2
<1> QED
  BY <1>4 DEF Priced, after

LEMMA BuildActionsRight ==
  ASSUME NEW a, Right(a), a.city # 0, NEW in, in.tile \in Tiles \cup {NoTile}
  PROVE  Right(BuildActions(a, in))
<1> DEFINE c == a.city
           town == a.game.world.town
           order == [item |-> Factory[in.key], cost |-> BuildCost[Factory[in.key]],
                     tile |-> in.tile, by |-> Player]
           cancels == in.key = "X" /\ town.queue[c] # <<>>
           orders == in.key \in DOMAIN Factory /\ in.tile # NoTile
<1>1. c \in Cities /\ town \in Towns /\ Priced(town)
  BY WorldAssumption DEF Right, Proper, Cities
<1>2. ASSUME cancels
      PROVE  Right([a EXCEPT !.game.world.town = CancelOrder(town, c)])
  <2> DEFINE after == CancelOrder(town, c)
  <2>1. /\ after \in Towns /\ Priced(after)
        /\ after.owner = town.owner /\ after.buildings = town.buildings
    BY <1>1, <1>2, CancelType
  <2> HIDE DEF after
  <2>2. Right([a EXCEPT !.game.world.town = after])
    BY <2>1, OtherTown
  <2> QED
    BY <2>2 DEF after
<1>3. ASSUME orders
      PROVE  Right([a EXCEPT !.game.world.town = Enqueue(town, c, order)])
  <2> DEFINE after == Enqueue(town, c, order)
  <2>1. order \in Orders /\ order.item \in BuildingTypes /\ order.cost > 0
    <3>1. Factory[in.key] \in BuildingTypes /\ BuildCost[Factory[in.key]] > 0
      BY <1>3, BeginningsAssumption
    <3>2. BuildCost[Factory[in.key]] \in Nat
      BY <3>1, EconomyAssumption
    <3> QED
      BY <1>3, <3>1, <3>2, LocalGameAssumption DEF Orders
  <2> HIDE DEF order
  <2>2. /\ after \in Towns /\ Priced(after)
        /\ after.owner = town.owner /\ after.buildings = town.buildings
    BY <1>1, <2>1, EnqueueType, EnqueuePriced
  <2> HIDE DEF after
  <2>3. Right([a EXCEPT !.game.world.town = after])
    BY <2>2, OtherTown
  <2> QED
    BY <2>3 DEF after, order
<1>4. BuildActions(a, in)
        = CASE cancels -> [a EXCEPT !.game.world.town = CancelOrder(town, c)]
            [] orders -> [a EXCEPT !.game.world.town = Enqueue(town, c, order)]
            [] OTHER -> a
  BY Zenon DEF BuildActions
<1> DEFINE cancelled == [a EXCEPT !.game.world.town = CancelOrder(town, c)]
           ordered == [a EXCEPT !.game.world.town = Enqueue(town, c, order)]
<1> HIDE DEF cancels, orders, cancelled, ordered
<1>5. BuildActions(a, in) = CASE cancels -> cancelled [] orders -> ordered [] OTHER -> a
  BY <1>4 DEF cancelled, ordered
<1> QED
  BY <1>2, <1>3, <1>5 DEF cancelled, ordered

-----------------------------------------------------------------------------
(* The end of the turn. *)

\* The living get fresh movement; they are where they were.
LEMMA RestedProper ==
  ASSUME NEW g, Proper(g)
  PROVE  LET rested == [g EXCEPT !.turn = @ + 1,
                                 !.world.unit = [p \in DOMAIN @ |-> Rested(@[p])]]
         IN  Proper(rested) /\ rested.world.order = g.world.order
<1> DEFINE w == g.world
           u == [p \in DOMAIN w.unit |-> Rested(w.unit[p])]
           v == [w EXCEPT !.unit = u]
           h == [g EXCEPT !.turn = @ + 1, !.world.unit = [p \in DOMAIN @ |-> Rested(@[p])]]
<1>1. Sound(w) /\ Living(w) /\ g.turn \in Nat \ {0}
  BY DEF Proper
<1>2. h = [turn |-> g.turn + 1, world |-> v, ids |-> g.ids,
           nextBuildingId |-> g.nextBuildingId, fog |-> g.fog, registered |-> g.registered]
  <2> DEFINE next == [g EXCEPT !.turn = @ + 1]
  <2>1. next = [turn |-> g.turn + 1, world |-> w, ids |-> g.ids,
                nextBuildingId |-> g.nextBuildingId, fog |-> g.fog, registered |-> g.registered]
    BY DEF Proper
  <2>2. h = [next EXCEPT !.world.unit = [p \in DOMAIN @ |-> Rested(@[p])]]
    OBVIOUS
  <2> HIDE DEF next, h, w
  <2>3. h = [next EXCEPT !.world = [w EXCEPT !.unit = u]]
    BY <2>1, <2>2
  <2> HIDE DEF v
  <2>4. h = [next EXCEPT !.world = v]
    BY <2>3 DEF v
  <2> QED
    BY <2>1, <2>4
<1>3. ASSUME NEW p \in DOMAIN w.unit
      PROVE  /\ u[p] \in Units /\ Alive(u[p])
             /\ u[p].tile = w.unit[p].tile /\ u[p].faction = w.unit[p].faction
             /\ u[p].kind = w.unit[p].kind
  <2> DEFINE x == w.unit[p]
  <2>1. x \in Units /\ Alive(x)
    BY <1>1 DEF Sound, WorldShape, Living
  <2>2. Template[x.kind].moves \in Nat
    BY <2>1, CombatAssumption DEF Units, CombatStats
  <2>3. u[p] = [x EXCEPT !.moves = Template[x.kind].moves]
    BY <2>1 DEF Rested
  <2> HIDE DEF x, u
  <2>4. /\ u[p] \in Units
        /\ u[p].tile = x.tile /\ u[p].faction = x.faction
        /\ u[p].kind = x.kind /\ u[p].health = x.health
    BY <2>1, <2>2, <2>3 DEF Units
  <2> QED
    BY <2>1, <2>4 DEF Alive, x
<1>4. u \in [DOMAIN w.unit -> Units] /\ DOMAIN u = DOMAIN w.unit
  BY <1>3
<1> HIDE DEF w, u, v, h
<1>5. /\ Sound(v) /\ v.unit = u /\ v.order = w.order /\ v.town = w.town
  BY <1>1, <1>3, <1>4, SamePlaces DEF v
<1>6. Living(v)
  BY <1>3, <1>4, <1>5 DEF Living
<1>7. FogLifted(h)
  <2>1. \A t : t \in InSight(w, Player) => t \in InSight(v, Player)
    BY <1>3, <1>4, <1>5, InSightMembers
  <2>2. h.world = v /\ h.fog = g.fog
    BY <1>2
  <2>3. FogLifted(g)
    BY DEF Proper
  <2> QED
    BY <1>3, <1>4, <1>5, <2>1, <2>2, <2>3 DEF FogLifted, w
<1>8. Numbered(h)
  BY <1>2, <1>5 DEF Proper, Numbered, w
<1>9. GameFields(h) /\ h.turn \in Nat \ {0} /\ h.world = v /\ h.registered = g.registered
  BY <1>1, <1>2 DEF GameFields
<1>10. Proper(h)
  BY <1>5, <1>6, <1>7, <1>8, <1>9 DEF Proper, GameFields, w
<1> QED
  BY <1>5, <1>9, <1>10 DEF h, w

\* A building that is completed has an id of its own.
LEMMA AddBuildingProper ==
  ASSUME NEW g, Proper(g), NEW order \in Orders, order.item \in BuildingTypes
  PROVE  /\ Proper(AddBuilding(g, order))
         /\ AddBuilding(g, order).world.order = g.world.order
<1> DEFINE b == [type |-> order.item, tile |-> order.tile, faction |-> Nobody]
           town == g.world.town
           all == Append(town.buildings, b)
           ids == Append(g.ids, g.nextBuildingId)
           raised == [town EXCEPT !.buildings = all]
           v == [g.world EXCEPT !.town = raised]
           h == AddBuilding(g, order)
<1>1. /\ town \in Towns /\ town.buildings \in Seq(Buildings) /\ b \in Buildings
  BY LocalGameAssumption DEF Proper, Towns, Orders, Buildings
<1>2. /\ all \in Seq(Buildings) /\ Len(all) = Len(town.buildings) + 1
  BY <1>1, AppendProperties
<1>3. /\ raised \in Towns /\ raised.owner = town.owner /\ raised.buildings = all
      /\ raised.queue = town.queue /\ raised.stock = town.stock
  <2> HIDE DEF all, town
  <2> QED
    BY <1>1, <1>2 DEF Towns
<1>4. h = [turn |-> g.turn, world |-> v, ids |-> ids,
           nextBuildingId |-> g.nextBuildingId + 1, fog |-> g.fog, registered |-> g.registered]
  <2> DEFINE k == [g EXCEPT !.world.town.buildings = all]
             j == [k EXCEPT !.ids = ids]
  <2>1. h = [g EXCEPT !.world.town.buildings = all, !.ids = ids,
                      !.nextBuildingId = g.nextBuildingId + 1]
    BY DEF AddBuilding, Proper
  <2>2. h = [j EXCEPT !.nextBuildingId = g.nextBuildingId + 1]
    BY <2>1
  <2>3. k = [g EXCEPT !.world = v]
    OBVIOUS
  <2> HIDE DEF k, all, ids, v, h
  <2>4. k = [turn |-> g.turn, world |-> v, ids |-> g.ids,
             nextBuildingId |-> g.nextBuildingId, fog |-> g.fog, registered |-> g.registered]
    BY <2>3 DEF Proper
  <2>5. j = [turn |-> g.turn, world |-> v, ids |-> ids,
             nextBuildingId |-> g.nextBuildingId, fog |-> g.fog, registered |-> g.registered]
    BY <2>4
  <2> HIDE DEF j
  <2> QED
    BY <2>2, <2>5
<1>5. Sound(v) /\ Living(v) /\ v.town = raised /\ v.unit = g.world.unit /\ v.order = g.world.order
  <2>1. Sound(g.world) /\ Living(g.world)
    BY DEF Proper
  <2>2. v.order = g.world.order
    BY <2>1 DEF Sound, Fields
  <2> HIDE DEF raised
  <2> QED
    BY <2>1, <2>2, TownSound, SameUnits
<1>6. /\ ids \in Seq(Nat) /\ IsInjective(ids) /\ Len(ids) = Len(all)
      /\ \A n \in DOMAIN ids : ids[n] < g.nextBuildingId + 1
  <2> DEFINE old == g.ids
             next == g.nextBuildingId
             last == Len(old)
  <2>1. /\ old \in Seq(Nat) /\ IsInjective(old) /\ Len(old) = Len(town.buildings)
        /\ next \in Nat
        /\ \A n \in DOMAIN old : old[n] < next
    BY DEF Proper, Numbered
  <2>2. ids = Append(old, next)
    OBVIOUS
  <2> HIDE DEF old, next, ids
  <2>3. /\ ids \in Seq(Nat) /\ Len(ids) = last + 1
        /\ \A n \in 1 .. last : ids[n] = old[n]
        /\ ids[last + 1] = next
    BY <2>1, <2>2, AppendProperties
  <2>4. /\ last \in Nat /\ DOMAIN old = 1 .. last
        /\ \A n \in 1 .. last : old[n] \in Nat
    BY <2>1, LenProperties, ElementOfSeq
  <2>5. DOMAIN ids = 1 .. last + 1
    BY <2>3, LenProperties
  <2> HIDE DEF last
  <2>6. \A n \in DOMAIN ids : n \in 1 .. last \/ n = last + 1
    BY <2>4, <2>5
  <2>7. \A n \in 1 .. last : ids[n] < next /\ ids[n] \in Nat
    BY <2>1, <2>3, <2>4
  <2>8. \A n \in DOMAIN ids : ids[n] < next + 1
    BY <2>1, <2>3, <2>6, <2>7
  <2>9. ASSUME NEW m \in DOMAIN ids, NEW n \in DOMAIN ids, ids[m] = ids[n]
        PROVE  m = n
    <3>1. \A k \in 1 .. last : ids[k] # next
      BY <2>1, <2>7
    <3>2. CASE m \in 1 .. last /\ n \in 1 .. last
      BY <2>1, <2>3, <2>4, <2>9, <3>2 DEF IsInjective
    <3>3. CASE m = last + 1 \/ n = last + 1
      BY <2>3, <2>6, <2>9, <3>1, <3>3
    <3> QED
      BY <2>6, <3>2, <3>3
  <2>10. IsInjective(ids)
    BY <2>9 DEF IsInjective
  <2>11. Len(ids) = Len(all)
    BY <1>2, <2>1, <2>3 DEF last
  <2> QED
    BY <2>3, <2>8, <2>10, <2>11 DEF next
<1> HIDE DEF h, v, ids, raised, all
<1>7. Numbered(h)
  <2>1. h.ids = ids /\ h.nextBuildingId = g.nextBuildingId + 1 /\ h.world.town.buildings = all
    BY <1>3, <1>4, <1>5
  <2>2. g.nextBuildingId \in Nat
    BY DEF Proper, Numbered
  <2> QED
    BY <1>6, <2>1, <2>2 DEF Numbered
<1>8. FogLifted(h)
  <2>1. InSight(g.world, Player) \subseteq InSight(v, Player)
    BY <1>3, <1>5, SightKept
  <2>2. h.world = v /\ h.fog = g.fog
    BY <1>4
  <2> QED
    BY <1>5, <2>1, <2>2 DEF Proper, FogLifted
<1>9. GameFields(h) /\ h.turn = g.turn /\ h.world = v /\ h.registered = g.registered
  BY <1>4 DEF GameFields
<1>10. Priced(raised)
  BY <1>3 DEF Proper, Priced
<1>11. Proper(h)
  BY <1>3, <1>5, <1>7, <1>8, <1>9, <1>10 DEF Proper, GameFields
<1> QED
  BY <1>5, <1>9, <1>11 DEF h

\* A city's part of the turn: what it produces is for the order in hand, and
\* an order that is paid for becomes a building.
LEMMA WorkQueueProper ==
  ASSUME NEW g, Proper(g), NEW c \in Cities
  PROVE  /\ Proper(WorkQueue(g, c))
         /\ WorkQueue(g, c).world.order = g.world.order
<1> DEFINE town == g.world.town
           stock == town.stock[c] + ProductionPerTurn
           first == Head(town.queue[c])
<1>1. town \in Towns /\ Priced(town)
  BY DEF Proper
<1>2. stock \in Nat
  BY <1>1, EconomyAssumption DEF Towns
<1>3. CASE town.queue[c] = <<>>
  BY <1>3 DEF WorkQueue
<1>4. CASE town.queue[c] # <<>>
  <2>1. first \in Orders /\ first.item \in BuildingTypes
    <3> DEFINE queue == town.queue[c]
    <3>1. queue \in Seq(Orders) /\ queue # <<>> /\ \A n \in DOMAIN queue : queue[n].item \in BuildingTypes
      BY <1>1, <1>4 DEF Towns, Priced
    <3> HIDE DEF queue
    <3>2. Len(queue) \in Nat /\ Len(queue) # 0 /\ DOMAIN queue = 1 .. Len(queue)
      BY <3>1, EmptySeq, LenProperties
    <3>3. 1 \in DOMAIN queue /\ Head(queue) = queue[1] /\ queue[1] \in Orders
      BY <3>1, <3>2, ElementOfSeq
    <3> QED
      BY <3>1, <3>3 DEF queue
  <2>2. CASE stock >= first.cost
    <3> DEFINE after == CancelOrder(town, c)
               h == [g EXCEPT !.world.town = after]
    <3>1. /\ after \in Towns /\ Priced(after)
          /\ after.owner = town.owner /\ after.buildings = town.buildings
      BY <1>1, <1>4, CancelType
    <3>2. WorkQueue(g, c) = AddBuilding(h, first)
      BY <1>4, <2>2 DEF WorkQueue
    <3> HIDE DEF after
    <3>3. Proper(h) /\ h.world.order = g.world.order
      <4>1. Proper(h)
        BY <3>1, NewTown
      <4>2. h.world.order = g.world.order
        BY DEF Proper, Sound, Fields
      <4> QED
        BY <4>1, <4>2
    <3> HIDE DEF h, first
    <3> QED
      BY <2>1, <3>2, <3>3, AddBuildingProper
  <2>3. CASE ~(stock >= first.cost)
    <3> DEFINE after == [town EXCEPT !.stock[c] = stock]
               h == [g EXCEPT !.world.town = after]
    <3>1. WorkQueue(g, c) = h
      BY <1>4, <2>3 DEF WorkQueue
    <3>2. first.cost \in Nat
      BY <2>1 DEF Orders
    <3> HIDE DEF stock, first
    <3>3. /\ after \in Towns
          /\ after.owner = town.owner /\ after.buildings = town.buildings
          /\ after.queue = town.queue
          /\ after.stock[c] = stock
          /\ \A d \in Cities \ {c} : after.stock[d] = town.stock[d]
      BY <1>1, <1>2 DEF Towns
    <3> HIDE DEF after
    <3>4. Priced(after)
      <4>1. stock < first.cost
        BY <1>2, <2>3, <3>2
      <4>2. ASSUME NEW d \in Cities
            PROVE  after.stock[d]
                     < (IF after.queue[d] = <<>> THEN 1 ELSE Head(after.queue[d]).cost)
        <5>1. CASE d = c
          BY <1>4, <3>3, <4>1, <5>1 DEF first
        <5>2. CASE d # c
          BY <1>1, <3>3, <5>2 DEF Priced
        <5> QED
          BY <5>1, <5>2
      <4> QED
        BY <1>1, <3>3, <4>2 DEF Priced
    <3>5. Proper(h)
      BY <3>3, <3>4, NewTown
    <3>6. h.world.order = g.world.order
      BY DEF Proper, Sound, Fields
    <3> QED
      BY <3>1, <3>5, <3>6
  <2> QED
    BY <2>2, <2>3
<1> QED
  BY <1>3, <1>4

\* The cities have their parts one after the other.
LEMMA WorkQueuesRecursion ==
  ASSUME NEW g
  PROVE  \E after :
           /\ after = [n \in 0 .. NumCities |-> IF n = 0 THEN g ELSE WorkQueue(after[n - 1], n)]
           /\ WorkQueues(g) = after[NumCities]
<1> DEFINE Good(f, k) == f = [n \in 0 .. k |-> IF n = 0 THEN g ELSE WorkQueue(f[n - 1], n)]
           T == {k \in Nat : \E f : Good(f, k)}
           after == CHOOSE f : Good(f, NumCities)
<1>1. NumCities \in Nat
  BY WorldAssumption
<1>2. 0 \in T
  <2> DEFINE f == [n \in 0 .. 0 |-> g]
  <2>1. Good(f, 0)
    OBVIOUS
  <2> QED
    BY <2>1
<1>3. ASSUME NEW k \in Nat, k \in T
      PROVE  k + 1 \in T
  <2>1. PICK f : Good(f, k)
    BY <1>3
  <2> DEFINE h == [n \in 0 .. k + 1 |-> IF n = k + 1 THEN WorkQueue(f[k], k + 1) ELSE f[n]]
  <2>2. ASSUME NEW n \in 0 .. k + 1
        PROVE  h[n] = IF n = 0 THEN g ELSE WorkQueue(h[n - 1], n)
    <3>1. CASE n = k + 1
      <4>1. h[n] = WorkQueue(f[k], n) /\ h[n - 1] = f[k]
        BY <3>1
      <4> QED
        BY <3>1, <4>1
    <3>2. CASE n # k + 1
      <4>1. n \in 0 .. k /\ h[n] = f[n]
        BY <2>2, <3>2
      <4>2. f[n] = IF n = 0 THEN g ELSE WorkQueue(f[n - 1], n)
        BY <2>1, <4>1
      <4>3. n # 0 => h[n - 1] = f[n - 1]
        BY <4>1
      <4> QED
        BY <4>1, <4>2, <4>3
    <3> QED
      BY <3>1, <3>2
  <2>3. Good(h, k + 1)
    BY <2>2
  <2> HIDE DEF Good, h
  <2>4. (\E fn : Good(fn, k + 1)) /\ k + 1 \in Nat
    BY <2>3
  <2> QED
    BY <2>4
<1>4. \E f : Good(f, NumCities)
  <2>1. \A n \in 0 .. NumCities - 1 : n \in T => n + 1 \in T
    BY <1>1, <1>3
  <2> HIDE DEF T, Good, after
  <2>2. \A n \in 0 .. NumCities : n \in T
    BY <1>1, <1>2, <2>1, UpTo
  <2>3. NumCities \in T
    BY <1>1, <2>2
  <2> QED
    BY <2>3 DEF T
<1>5. Good(after, NumCities)
  BY <1>4
<1>6. WorkQueues(g) = after[NumCities]
  BY DEF WorkQueues
<1> QED
  BY <1>5, <1>6

LEMMA WorkQueuesProper ==
  ASSUME NEW g, Proper(g)
  PROVE  Proper(WorkQueues(g)) /\ WorkQueues(g).world.order = g.world.order
<1>1. PICK after :
        /\ after = [n \in 0 .. NumCities |-> IF n = 0 THEN g ELSE WorkQueue(after[n - 1], n)]
        /\ WorkQueues(g) = after[NumCities]
  BY WorkQueuesRecursion
<1> DEFINE T == {n \in 0 .. NumCities : /\ Proper(after[n])
                                        /\ after[n].world.order = g.world.order}
<1>2. NumCities \in Nat
  BY WorldAssumption
<1>3. 0 \in T
  <2>1. after[0] = g /\ 0 \in 0 .. NumCities
    BY <1>1, <1>2
  <2> QED
    BY <2>1
<1>4. \A n \in 0 .. NumCities - 1 : n \in T => n + 1 \in T
  <2> SUFFICES ASSUME NEW n \in 0 .. NumCities - 1, n \in T
               PROVE  n + 1 \in T
    OBVIOUS
  <2>1. n + 1 \in 0 .. NumCities /\ n + 1 # 0 /\ n + 1 - 1 = n /\ n + 1 \in Cities
    BY <1>2 DEF Cities
  <2>2. after[n + 1] = WorkQueue(after[n], n + 1)
    BY <1>1, <2>1
  <2>3. Proper(after[n + 1]) /\ after[n + 1].world.order = g.world.order
    BY <2>1, <2>2, WorkQueueProper
  <2> QED
    BY <2>1, <2>3
<1> HIDE DEF T
<1>5. \A n \in 0 .. NumCities : n \in T
  BY <1>2, <1>3, <1>4, UpTo
<1>6. NumCities \in T
  BY <1>2, <1>5
<1> QED
  BY <1>1, <1>6 DEF T

\* The gold of all buildings.
LEMMA TotalYieldType ==
  ASSUME NEW town \in Towns
  PROVE  TotalYield(town) \in Nat
<1> DEFINE b == town.buildings
           f == [n \in DOMAIN b |-> Yield[b[n].type].gold]
<1>1. b \in Seq(Buildings)
  BY DEF Towns
<1>2. DOMAIN b = 1 .. Len(b) /\ Len(b) \in Nat /\ \A n \in 1 .. Len(b) : b[n] \in Buildings
  BY <1>1, LenProperties, ElementOfSeq
<1> HIDE DEF b
<1>3. IsFiniteSet(DOMAIN b)
  BY <1>2, FiniteUpTo
<1>4. \A n \in DOMAIN b : f[n] \in Nat
  <2> SUFFICES ASSUME NEW n \in DOMAIN b
               PROVE  f[n] \in Nat
    OBVIOUS
  <2>1. Yield[b[n].type] \in [gold : Nat, production : Nat, food : Nat]
    BY <1>2, EconomyAssumption DEF Buildings
  <2> QED
    BY <2>1
<1>5. DOMAIN f = DOMAIN b
  OBVIOUS
<1> HIDE DEF f
<1>6. SumFunctionOnSet(f, DOMAIN f) \in Nat
  BY <1>3, <1>4, <1>5, SumType
<1> QED
  BY <1>6 DEF TotalYield, SumFunction, f, b

\* The user's end of turn.
LEMMA ProcessTurnProper ==
  ASSUME NEW g, Proper(g)
  PROVE  /\ Proper(ProcessTurn(g))
         /\ ProcessTurn(g).world.order = g.world.order
<1> DEFINE rested == [g EXCEPT !.turn = @ + 1,
                               !.world.unit = [p \in DOMAIN @ |-> Rested(@[p])]]
           worked == WorkQueues(rested)
           w == worked.world
           town == w.town
           gained == TotalYield(town)
           gold == [f \in Factions \cup {Common} |->
                      IF f = Common \/ f \in worked.registered \cap {Player}
                      THEN town.gold[f] + gained ELSE town.gold[f]]
           paid == [town EXCEPT !.gold = gold]
           v == [w EXCEPT !.town = paid]
           h == ProcessTurn(g)
<1>1. Proper(rested) /\ rested.world.order = g.world.order
  BY RestedProper
<1>2. h = [worked EXCEPT !.world.town.gold = gold, !.fog = Recalculate(@, worked.world, Player)]
  BY Zenon DEF ProcessTurn
<1> HIDE DEF rested
<1>3. Proper(worked) /\ worked.world.order = g.world.order
  BY <1>1, WorkQueuesProper
<1> HIDE DEF worked
<1>4. town \in Towns /\ Priced(town) /\ Sound(w) /\ Living(w)
  BY <1>3 DEF Proper
<1>5. gained \in Nat
  BY <1>4, TotalYieldType
<1>6. gold \in [Factions \cup {Common} -> Nat]
  BY <1>4, <1>5 DEF Towns
<1> HIDE DEF gained, gold, h
<1>7. /\ paid \in Towns /\ paid.owner = town.owner /\ paid.buildings = town.buildings
      /\ paid.queue = town.queue /\ paid.stock = town.stock
  BY <1>4, <1>6 DEF Towns
<1>8. Priced(paid)
  BY <1>4, <1>7 DEF Priced
<1>9. h = [worked EXCEPT !.world = v, !.fog = Recalculate(@, w, Player)]
  BY <1>2
<1>10. v.order = w.order
  BY <1>4 DEF Sound, Fields
<1> HIDE DEF paid
<1>11. Proper(h)
  <2> HIDE DEF w
  <2>1. Proper([worked EXCEPT !.world = [w EXCEPT !.town = paid],
                              !.fog = Recalculate(@, w, Player)])
    BY <1>3, <1>4, <1>7, <1>8, NewWorldAndTown DEF w
  <2> QED
    BY <1>9, <2>1
<1>12. h.world = v
  <2> HIDE DEF v
  <2> QED
    BY <1>3, <1>9 DEF Proper
<1> QED
  BY <1>3, <1>10, <1>11, <1>12 DEF h

LEMMA EndTurnRight ==
  ASSUME NEW a, Right(a)
  PROVE  Right(EndTurn(a))
<1> DEFINE g == ProcessTurn(a.game)
<1>1. Proper(g) /\ g.world.order = a.game.world.order
  BY ProcessTurnProper DEF Right
<1>2. EndTurn(a) = [a EXCEPT !.game = g]
  BY DEF EndTurn
<1> HIDE DEF g
<1> QED
  BY <1>1, <1>2, OtherGame

-----------------------------------------------------------------------------
(* A frame. *)

LEMMA SaveRight ==
  ASSUME NEW a, Right(a)
  PROVE  Right(SaveTo(a))
<1> DEFINE b == SaveTo(a)
           disk == <<SerializeGameState(a.game)>>
<1>1. Saved(disk)
  BY DEF Right, Saved
<1>2. b = [a EXCEPT !.disk = disk]
  BY DEF SaveTo
<1> HIDE DEF b, disk
<1>3. /\ AppFields(b)
      /\ b.game = a.game /\ b.sel = a.sel /\ b.city = a.city /\ b.cinematic = a.cinematic
      /\ b.anim = a.anim /\ b.disk = disk /\ b.logged = a.logged /\ b.chosen = a.chosen
  BY <1>2 DEF Right, AppFields
<1> QED
  BY <1>1, <1>3 DEF Right, Selected, b

LEMMA LoadRight ==
  ASSUME NEW a, Right(a)
  PROVE  Right(LoadFrom(a))
<1>1. CASE a.disk = <<>>
  BY <1>1 DEF LoadFrom
<1>2. CASE a.disk # <<>>
  <2>1. PICK g : Proper(g) /\ a.disk = <<SerializeGameState(g)>>
    BY <1>2 DEF Right, Saved
  <2> DEFINE loaded == DeserializeGameState(a.disk[1])
             new == [loaded EXCEPT !.fog = Recalculate(@, loaded.world, Player)]
             b == LoadFrom(a)
  <2>2. a.disk[1] = SerializeGameState(g)
    BY <2>1
  <2>3. Proper(new)
    BY <2>1, <2>2, LoadedIsProper
  <2>4. b = [a EXCEPT !.game = new, !.sel = NoSelection, !.chosen = {}]
    BY <1>2, Zenon DEF LoadFrom
  <2> HIDE DEF b, new
  <2>5. b = [game |-> new, sel |-> NoSelection, city |-> a.city, cinematic |-> a.cinematic,
             anim |-> a.anim, disk |-> a.disk, logged |-> a.logged, chosen |-> {}]
    BY <2>4 DEF Right, AppFields
  <2>6. AppFields(b) /\ Selected(b)
    BY <2>5 DEF AppFields, Selected
  <2> QED
    BY <2>3, <2>5, <2>6 DEF Right, b
<1> QED
  BY <1>1, <1>2

\* Cinematics and animations go on or end.
LEMMA AdvanceRight ==
  ASSUME NEW a, Right(a), NEW in, NEW over, NEW done
  PROVE  Right(Advance(a, in, over, done))
<1> DEFINE skips == a.cinematic /\ in.key \in {"Escape", "Space"}
           cinematic == a.cinematic /\ ~skips /\ ~over
           anim == Restrict(a.anim, DOMAIN a.anim \ done)
           b == Advance(a, in, over, done)
<1>1. cinematic \in BOOLEAN
  OBVIOUS
<1>2. Shows(anim)
  BY DEF Right, Shows, Restrict
<1>3. b = [a EXCEPT !.cinematic = cinematic, !.anim = anim, !.logged = "nothing"]
  <2>1. b = [a EXCEPT !.cinematic = @ /\ ~skips /\ ~over,
                      !.anim = Restrict(@, DOMAIN @ \ done),
                      !.logged = "nothing"]
    BY Zenon DEF Advance
  <2> QED
    BY <2>1 DEF Right, AppFields
<1> HIDE DEF b, cinematic, anim
<1>4. b = [game |-> a.game, sel |-> a.sel, city |-> a.city, cinematic |-> cinematic,
           anim |-> anim, disk |-> a.disk, logged |-> "nothing", chosen |-> a.chosen]
  BY <1>3 DEF Right, AppFields
<1>5. AppFields(b) /\ Selected(b)
  BY <1>4 DEF Right, AppFields, Selected
<1> QED
  BY <1>1, <1>2, <1>4, <1>5 DEF Right, b

LEMMA HandleInputRight ==
  ASSUME NEW a, Right(a), NEW in, in.tile \in Tiles \cup {NoTile}
  PROVE  Right(HandleInput(a, in))
<1> DEFINE clicked == Clicked(RemoveDeadUnits(a), in)
           deselected == Deselected(clicked, in)
           built == Built(deselected, in)
           ended == Ended(built, in.key = "Space")
           kept == SavedOrLoaded(ended, in)
<1>1. Right(clicked)
  BY NoneToRemove, LeftClickRight DEF Clicked, Right
<1> HIDE DEF clicked
<1>2. Right(deselected)
  <2> DEFINE none == Select(clicked, NoSelection)
  <2>1. Right(none)
    BY <1>1, SelectRight
  <2> HIDE DEF none
  <2>2. Right([none EXCEPT !.city = 0])
    <3>1. 0 \in 0 .. NumCities
      BY WorldAssumption
    <3> QED
      BY <2>1, <3>1, OtherCity
  <2> QED
    BY <1>1, <2>2 DEF Deselected, none
<1> HIDE DEF deselected
<1>3. Right(built)
  BY <1>2, BuildActionsRight DEF Built
<1> HIDE DEF built
<1>4. Right(ended)
  BY <1>3, EndTurnRight DEF Ended
<1> HIDE DEF ended
<1>5. Right(kept)
  BY <1>4, SaveRight, LoadRight DEF SavedOrLoaded
<1>6. HandleInput(a, in) = Ended(kept, in.button)
  BY Zenon DEF HandleInput, kept, ended, built, deselected, clicked
<1> HIDE DEF kept
<1> QED
  BY <1>5, <1>6, EndTurnRight DEF Ended

LEMMA FrameRight ==
  ASSUME NEW a, Right(a), NEW in, in.tile \in Tiles \cup {NoTile}, NEW over, NEW done
  PROVE  Right(Frame(a, in, over, done))
<1> DEFINE now == Advance(a, in, over, done)
<1>1. Right(now)
  BY AdvanceRight
<1> HIDE DEF now
<1>2. Right(HandleInput(now, in))
  BY <1>1, HandleInputRight
<1>3. Frame(a, in, over, done) = IF now.cinematic THEN now ELSE HandleInput(now, in)
  BY Zenon DEF Frame, now
<1> QED
  BY <1>1, <1>2, <1>3

-----------------------------------------------------------------------------
(* The invariant is one. *)

AppInv == Right(app) /\ app.game.turn <= MaxTurn

LEMMA InitRight ==
  ASSUME Init
  PROVE  AppInv
<1>1. PICK start \in Beginnings : app =
        [game |-> start.game, sel |-> NoSelection, city |-> 0, cinematic |-> FALSE,
         anim |-> [i \in {} |-> 0],
         disk |-> [n \in DOMAIN start.saved |-> SerializeGameState(start.saved[n])],
         logged |-> "nothing", chosen |-> {}]
  BY DEF Init
<1> DEFINE disk == [n \in DOMAIN start.saved |-> SerializeGameState(start.saved[n])]
<1>2. /\ Proper(start.game) /\ start.game.turn <= MaxTurn
      /\ \/ start.saved = <<>>
         \/ start.saved = <<start.saved[1]>> /\ Proper(start.saved[1])
  BY BeginningsAssumption
<1>3. Saved(disk)
  <2>1. CASE start.saved = <<>>
    <3>1. disk = <<>>
      BY <2>1
    <3> QED
      BY <3>1 DEF Saved
  <2>2. CASE start.saved = <<start.saved[1]>> /\ Proper(start.saved[1])
    <3> DEFINE g == start.saved[1]
    <3>1. start.saved = <<g>>
      BY <2>2
    <3> HIDE DEF g
    <3>2. DOMAIN start.saved = 1 .. 1 /\ start.saved[1] = g
      BY <3>1
    <3>3. disk = <<SerializeGameState(g)>>
      BY <3>2
    <3> QED
      BY <2>2, <3>3 DEF Saved, g
  <2> QED
    BY <1>2, <2>1, <2>2
<1> HIDE DEF disk
<1>4. /\ AppFields(app) /\ Selected(app) /\ Shows(app.anim)
      /\ app.game = start.game /\ app.city = 0 /\ app.cinematic = FALSE
      /\ app.disk = disk /\ app.logged = "nothing"
  BY <1>1 DEF AppFields, Selected, Shows, disk
<1>5. 0 \in 0 .. NumCities
  BY WorldAssumption
<1> QED
  BY <1>2, <1>3, <1>4, <1>5 DEF AppInv, Right

LEMMA StepRight ==
  ASSUME AppInv, [Next]_app
  PROVE  AppInv'
<1>1. CASE UNCHANGED app
  BY <1>1 DEF AppInv
<1>2. CASE Next
  <2>1. PICK in \in {Quiet, RightClick} \cup LeftClicks \cup KeyPresses \cup EndTurnClicks :
          Step(in)
    BY <1>2 DEF Next
  <2>2. in.tile \in Tiles \cup {NoTile}
    <3>1. CASE in \in {Quiet, RightClick}
      BY <3>1 DEF Quiet, RightClick
    <3>2. CASE in \in LeftClicks
      BY <3>2 DEF Quiet, LeftClicks
    <3>3. CASE in \in EndTurnClicks
      BY <3>3 DEF Quiet, EndTurnClicks
    <3>4. CASE in \in KeyPresses
      <4>1. \A k, t : KeyPress(k, t).tile = t
        BY DEF KeyPress, Quiet
      <4> QED
        BY <3>4, <4>1, LocalGameAssumption DEF KeyPresses
    <3> QED
      BY <2>1, <3>1, <3>2, <3>3, <3>4
  <2>3. PICK over \in {FALSE, app.cinematic}, done \in SUBSET DOMAIN app.anim :
          app' = Frame(app, in, over, done) /\ Bounded(app')
    BY <2>1 DEF Step
  <2>4. Right(app')
    BY <2>2, <2>3, FrameRight DEF AppInv
  <2>5. app'.game.turn <= MaxTurn
    BY <2>3 DEF Bounded
  <2> QED
    BY <2>4, <2>5 DEF AppInv
<1> QED
  BY <1>1, <1>2

LEMMA AppInvariant == Spec => []AppInv
<1>1. Init => AppInv
  BY InitRight
<1>2. AppInv /\ [Next]_app => AppInv'
  BY StepRight
<1> QED
  BY <1>1, <1>2, PTL DEF Spec

-----------------------------------------------------------------------------
(* What follows from it. *)

\* What is saved of a proper game has the form of the message.
LEMMA MessageType ==
  ASSUME NEW g, Proper(g)
  PROVE  SerializeGameState(g) \in Messages
<1> DEFINE m == SerializeGameState(g)
           town == g.world.town
           CityMessages == [owner : Factions, population : Nat, foodSurplus : Nat,
                            accumulatedProduction : Nat, buildQueueItems : Seq(Orders)]
           BuildingMessages == [id : Nat, building : Buildings]
           UnitMessages == [type : DOMAIN TemplateKeyOfCode, tile : Tiles, health : Nat,
                            movementRemaining : Nat, faction : Factions, experience : Nat]
<1>1. m.cities \in Seq(CityMessages) /\ Len(m.cities) = NumCities
  <2>1. m.cities = [c \in 1 .. NumCities |-> CityMessage(town, c)]
    BY DEF SerializeGameState, Cities
  <2>2. \A c \in 1 .. NumCities : CityMessage(town, c) \in CityMessages
    BY DEF Proper, Towns, CityMessage, Cities
  <2> HIDE DEF m, CityMessages
  <2>3. NumCities \in Nat
    BY WorldAssumption
  <2>4. m.cities \in [1 .. NumCities -> CityMessages]
    BY <2>1, <2>2
  <2> QED
    BY <2>3, <2>4
<1>2. m.buildings \in Seq(BuildingMessages)
  <2>1. m.buildings = [n \in DOMAIN g.ids |-> [id |-> g.ids[n], building |-> town.buildings[n]]]
    BY DEF SerializeGameState
  <2>2. /\ g.ids \in Seq(Nat) /\ Len(g.ids) = Len(town.buildings)
        /\ town.buildings \in Seq(Buildings)
    BY DEF Proper, Numbered, Towns
  <2> HIDE DEF m, town
  <2>3. /\ Len(g.ids) \in Nat /\ DOMAIN g.ids = 1 .. Len(g.ids)
        /\ \A n \in 1 .. Len(g.ids) : g.ids[n] \in Nat /\ town.buildings[n] \in Buildings
    BY <2>2, LenProperties, ElementOfSeq
  <2>4. m.buildings \in [1 .. Len(g.ids) -> BuildingMessages]
    BY <2>1, <2>3
  <2> HIDE DEF BuildingMessages
  <2> QED
    BY <2>3, <2>4
<1>3. m.units \in Seq(UnitMessages)
  <2> DEFINE w == g.world
             last == Len(w.order)
  <2>1. m.units = [i \in Indices(w) |-> UnitMessage(UnitAt(w, i))]
    BY DEF SerializeGameState
  <2>2. Sound(w)
    BY DEF Proper
  <2> HIDE DEF m, w
  <2>3. last \in Nat /\ Indices(w) = 1 .. last
    BY <2>2, LenProperties DEF Sound, WorldShape, Indices
  <2>4. ASSUME NEW i \in 1 .. last
        PROVE  UnitMessage(UnitAt(w, i)) \in UnitMessages
    <3> DEFINE u == UnitAt(w, i)
    <3>1. u \in Units
      BY <2>2, <2>3 DEF Sound, WorldShape, VectorExact, Indices, Range, UnitAt
    <3> HIDE DEF u
    <3>2. UnitCodes[u.kind] \in DOMAIN TemplateKeyOfCode
      <4>1. u.kind \in {"Warrior", "Archer", "Settler"}
        BY <3>1, SerializationAssumption DEF Units, UnitCodes
      <4> QED
        BY <4>1 DEF UnitCodes, TemplateKeyOfCode
    <3> QED
      BY <3>1, <3>2 DEF Units, UnitMessage, u
  <2>5. m.units \in [1 .. last -> UnitMessages]
    BY <2>1, <2>3, <2>4
  <2> HIDE DEF UnitMessages, last
  <2> QED
    BY <2>3, <2>5
<1>4. /\ m = [turn |-> m.turn, nextBuildingId |-> m.nextBuildingId, cities |-> m.cities,
              buildings |-> m.buildings, units |-> m.units,
              factionResources |-> m.factionResources]
      /\ m.turn = g.turn /\ m.nextBuildingId = g.nextBuildingId
      /\ m.factionResources = town.gold[Common]
  BY DEF SerializeGameState
<1>5. m.turn \in Nat /\ m.nextBuildingId \in Nat /\ m.factionResources \in Nat
  BY <1>4 DEF Proper, Numbered, Towns
<1> HIDE DEF m, CityMessages, BuildingMessages, UnitMessages
<1> QED
  BY <1>1, <1>2, <1>3, <1>4, <1>5
     DEF Messages, CityMessages, BuildingMessages, UnitMessages, m

\* Playing, building, saving and loading keep the units, the buildings and the
\* orders as the books say (updateInGame in main.cpp).
THEOREM GameAlwaysSound == Spec => []GameIsSound
<1>1. ASSUME AppInv
      PROVE  GameIsSound
  <2> DEFINE g == app.game
  <2>1. Right(app) /\ Proper(g) /\ g.turn <= MaxTurn
    BY <1>1 DEF AppInv, Right
  <2>2. g.turn \in 1 .. MaxTurn
    BY <2>1, LocalGameAssumption DEF Proper
  <2>3. app.disk \in Seq(Messages) /\ Len(app.disk) <= 1
    <3>1. CASE app.disk = <<>>
      BY <3>1
    <3>2. CASE app.disk # <<>>
      <4>1. PICK h : Proper(h) /\ app.disk = <<SerializeGameState(h)>>
        BY <2>1, <3>2 DEF Right, Saved
      <4> DEFINE m == SerializeGameState(h)
      <4>2. m \in Messages /\ app.disk = <<m>>
        BY <4>1, MessageType
      <4> HIDE DEF m
      <4> QED
        BY <4>2
    <3> QED
      BY <3>1, <3>2
  <2>4. app.sel \in Nat /\ app.chosen \subseteq Pointers
    <3>1. CASE app.sel = NoSelection
      BY <2>1, <3>1 DEF Right, Selected, NoSelection
    <3>2. CASE app.sel # NoSelection
      <4> DEFINE order == g.world.order
      <4>1. app.sel \in DOMAIN order /\ app.chosen = {order[app.sel]}
        BY <2>1, <3>2 DEF Right, Selected, Indices
      <4>2. order \in Seq(Pointers)
        BY <2>1 DEF Proper, Sound, WorldShape
      <4> HIDE DEF order
      <4> QED
        BY <4>1, <4>2, LenProperties, ElementOfSeq
    <3> QED
      BY <3>1, <3>2
  <2>5. TypeOK
    BY <2>1, <2>2, <2>3, <2>4
       DEF TypeOK, Right, Proper, Sound, WorldShape, FogLifted, Shows
  <2>6. Consistent /\ BuildingIdsUnique
    BY <2>1 DEF Consistent, BuildingIdsUnique, Proper, Sound, Numbered
  <2>7. StockIsForTheOrder
    BY <2>1 DEF StockIsForTheOrder, Proper, Priced
  <2> QED
    BY <2>5, <2>6, <2>7 DEF GameIsSound
<1> QED
  BY <1>1, AppInvariant, PTL

\* What is commanded next is the unit the user selected, or none: no index is
\* left behind by a unit that is gone (selectedUnit in main.cpp).
THEOREM SelectionAlwaysFollows == Spec => []SelectionFollowsUnit
<1>1. AppInv => SelectionFollowsUnit
  BY DEF AppInv, Right, Selected, SelectionFollowsUnit
<1> QED
  BY <1>1, AppInvariant, PTL

\* The fog is true to what the player's units and cities see, and the two
\* pictures of the map agree (renderGameFrame in main.cpp).
THEOREM ShownIsSeen == Spec => []WhatIsShownIsSeen
<1>1. ASSUME AppInv
      PROVE  WhatIsShownIsSeen
  <2> DEFINE g == app.game
             w == g.world
  <2>1. FogLifted(g)
    BY <1>1 DEF AppInv, Right, Proper
  <2>2. NothingShownUnseen
    <3> SUFFICES ASSUME NEW t \in Tiles, g.fog[t] = "Visible"
                 PROVE  \/ \E p \in DOMAIN w.unit :
                             /\ w.unit[p].faction = Player
                             /\ HexDistance(w.unit[p].tile, t) <= SightRange[w.unit[p].kind]
                        \/ \E c \in Cities :
                             /\ w.town.owner[c] = Player
                             /\ \E n \in CityTiles[c] : HexDistance(n, t) <= CitySight
      BY DEF NothingShownUnseen
    <3>1. t \in InSight(w, Player)
      BY <2>1 DEF FogLifted
    <3> QED
      BY <3>1, InSightMembers DEF Sight
  <2>3. ViewsAgree
    BY <2>1 DEF FogLifted, ViewsAgree, InView, OnMinimap
  <2> QED
    BY <2>2, <2>3 DEF WhatIsShownIsSeen
<1> QED
  BY <1>1, AppInvariant, PTL

\* Whatever has been played, saving it and loading it would lose nothing that
\* the message has room for (serializeGameState and deserializeGameState).
THEOREM SavingAlwaysKeeps == Spec => []SaveKeepsTheGame
<1>1. ASSUME AppInv
      PROVE  SaveKeepsTheGame
  <2> DEFINE g == app.game
             town == g.world.town
             loaded == DeserializeGameState(SerializeGameState(g))
  <2>1. Proper(g)
    BY <1>1 DEF AppInv, Right
  <2>2. /\ loaded = [turn |-> g.turn, world |-> loaded.world, ids |-> g.ids,
                     nextBuildingId |-> g.nextBuildingId, fog |-> Dark, registered |-> {}]
        /\ Indices(loaded.world) = Indices(g.world)
        /\ \A i \in Indices(g.world) : UnitAt(loaded.world, i) = UnitAt(g.world, i)
        /\ loaded.world.town = [owner |-> town.owner, queue |-> town.queue,
             stock |-> town.stock, population |-> town.population, food |-> town.food,
             buildings |-> town.buildings, gold |-> CommonOnly(town)]
    BY <2>1, GameComesBack
  <2>3. town \in Towns
    BY <2>1 DEF Proper
  <2> HIDE DEF loaded
  <2>4. loaded.turn = g.turn /\ loaded.ids = g.ids /\ loaded.nextBuildingId = g.nextBuildingId
    BY <2>2
  <2>5. [loaded.world.town EXCEPT !.gold = 0] = [town EXCEPT !.gold = 0]
    <3>1. [town EXCEPT !.gold = 0]
            = [owner |-> town.owner, queue |-> town.queue, stock |-> town.stock,
               population |-> town.population, food |-> town.food,
               buildings |-> town.buildings, gold |-> 0]
      BY <2>3, OtherGold
    <3> QED
      BY <2>2, <3>1
  <2>6. loaded.world.town.gold[Common] = town.gold[Common]
    BY <2>2 DEF CommonOnly
  <2>7. [i \in Indices(loaded.world) |-> UnitAt(loaded.world, i)]
          = [i \in Indices(g.world) |-> UnitAt(g.world, i)]
    BY <2>2
  <2> QED
    BY <2>4, <2>5, <2>6, <2>7 DEF SaveKeepsTheGame, loaded
<1> QED
  BY <1>1, AppInvariant, PTL

=============================================================================
