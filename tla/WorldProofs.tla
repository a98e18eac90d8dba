---------------------------- MODULE WorldProofs ----------------------------
(***************************************************************************)
(* Proofs about ActionProcessor, NeutralAI and Prediction, for any map,    *)
(* armies and wars, from the lemmas of EconomyProofs about the operations  *)
(* of World.                                                               *)
(***************************************************************************)
EXTENDS MCPrediction, EconomyProofs

-----------------------------------------------------------------------------
(* The session. *)

\* The inductive invariant: the agreement of vector and registry depends on
\* the types of the fields, and the absence of the dead on the agreement.
WorldInv == Sound(world) /\ Living(world)

\* The world that addUnit sets up is sound.
LEMMA InitSound == Init => WorldInv
<1> SUFFICES ASSUME Init
             PROVE  WorldInv
  OBVIOUS
<1>1. /\ Fields(world)
      /\ world.order = InitialUnits /\ world.unit = InitialUnit
      /\ world.registry = [t \in Tiles |-> {p \in Range(InitialUnits) : InitialUnit[p].tile = t}]
  BY DEF Init, Fields
<1>2. DOMAIN InitialUnit = Range(InitialUnits) /\ Range(InitialUnits) \subseteq Pointers
  <2>1. \A j \in DOMAIN InitialUnits : InitialUnits[j] \in Pointers
    BY SessionAssumption, LenProperties, ElementOfSeq
  <2> QED
    BY <2>1, SessionAssumption DEF Range
<1>3. WorldShape(world)
  BY <1>1, <1>2, SessionAssumption DEF WorldShape
<1>4. VectorExact(world) /\ RegistryExact(world)
  BY <1>1, <1>2, SessionAssumption DEF VectorExact, RegistryExact
<1>5. Living(world)
  BY <1>1, <1>2, SessionAssumption DEF Living
<1> QED
  BY <1>1, <1>3, <1>4, <1>5 DEF WorldInv, Sound

\* Whatever a step does, vector and registry agree afterwards, nobody dead is
\* left, and units change places only by valid moves.
LEMMA StepSound ==
  ASSUME WorldInv, [PlayNext]_vars
  PROVE  /\ WorldInv'
         /\ \/ Unmoved(world, world')
            \/ \E i \in Indices(world), t \in Tiles :
                 ValidMove(world, i, t) /\ world' = Move(world, i, t)
<1> DEFINE Goal == /\ WorldInv'
                   /\ \/ Unmoved(world, world')
                      \/ \E i \in Indices(world), t \in Tiles :
                           ValidMove(world, i, t) /\ world' = Move(world, i, t)
<1>a. Sound(world) /\ Living(world)
  BY DEF WorldInv
<1>1. CASE ProcessMove
  BY <1>a, <1>1, MoveSound DEF ProcessMove, ValidMove, WorldInv
<1>2. CASE ProcessAttack
  BY <1>a, <1>2, AttackSound DEF ProcessAttack, WorldInv
<1>3. ASSUME NEW town, world' = [world EXCEPT !.town = town]
      PROVE  Goal
  BY <1>a, <1>3, TownSound DEF WorldInv
<1>4. CASE ProcessCapture
  BY <1>3, <1>4 DEF ProcessCapture, Capture
<1>5. ASSUME NEW p, ProcessProduceUnit(p)
      PROVE  Goal
  BY <1>3, <1>5 DEF ProcessProduceUnit
<1>6. ASSUME NEW p, ProcessBuild(p)
      PROVE  Goal
  BY <1>3, <1>6 DEF ProcessBuild
<1>7. CASE ProcessAction
  BY <1>1, <1>2, <1>4, <1>5, <1>6, <1>7 DEF ProcessAction
<1>8. CASE ApplyAction
  BY <1>1, <1>2, <1>4, <1>8 DEF ApplyAction
<1>9. CASE EndOfTurn
  BY <1>a, <1>9, ResolveTurnSound DEF EndOfTurn, WorldInv
<1>10. CASE Connectivity \/ UNCHANGED vars
  BY <1>a, <1>10 DEF Connectivity, vars, WorldInv, Unmoved
<1> QED
  BY <1>7, <1>8, <1>9, <1>10 DEF PlayNext

\* Nobody dies but in AttackAction, nobody comes, and nobody changes sides.
LEMMA StepDescends ==
  ASSUME WorldInv, [PlayNext]_vars
  PROVE  Descends(world, world')
<1>a. Sound(world) /\ Living(world)
  BY DEF WorldInv
<1>1. CASE ProcessMove
  BY <1>a, <1>1, MoveSound DEF ProcessMove, ValidMove
<1>2. CASE ProcessAttack
  BY <1>a, <1>2, AttackSound DEF ProcessAttack
<1>3. ASSUME NEW town, world' = [world EXCEPT !.town = town]
      PROVE  Descends(world, world')
  BY <1>a, <1>3, TownSound
<1>4. CASE ProcessCapture
  BY <1>3, <1>4 DEF ProcessCapture, Capture
<1>5. ASSUME NEW p, ProcessProduceUnit(p) \/ ProcessBuild(p)
      PROVE  Descends(world, world')
  BY <1>3, <1>5 DEF ProcessProduceUnit, ProcessBuild
<1>6. CASE EndOfTurn
  BY <1>a, <1>6, ResolveTurnSound DEF EndOfTurn
<1>7. CASE Connectivity \/ UNCHANGED vars
  BY <1>7 DEF Connectivity, vars, Descends
<1> QED
  BY <1>1, <1>2, <1>4, <1>5, <1>6, <1>7 DEF PlayNext, ProcessAction, ApplyAction

-----------------------------------------------------------------------------
(* The towns of the session. *)

TownInv ==
  /\ world.town \in Towns /\ Tended(world.town)
  /\ online \in SUBSET Players /\ turn \in Nat

\* CaptureAction, on city c.
Captured(c) ==
  \E i \in Indices(world) :
    /\ ValidCapture(world, i)
    /\ c = CityCenteredAt(UnitAt(world, i).tile)
    /\ world' = Capture(world, i)
    /\ world'.town.owner = [world.town.owner EXCEPT ![c] = UnitAt(world, i).faction]

LEMMA InitTowns == Init => TownInv
<1> SUFFICES ASSUME Init
             PROVE  TownInv
  OBVIOUS
<1>1. world.town = InitialTown /\ online = Players /\ turn = 1
  BY DEF Init
<1>2. InitialTown \in Towns
  BY SessionAssumption, EmptySeq DEF InitialTown, Towns
<1>3. Tended(InitialTown)
  BY DEF Tended, Fits, InitialTown
<1> QED
  BY <1>1, <1>2, <1>3 DEF TownInv

\* The towns stay well-formed and their queues their owners', and the owner
\* of a city changes only when it is captured.
LEMMA TownStep ==
  ASSUME WorldInv, TownInv, [PlayNext]_vars
  PROVE  /\ TownInv'
         /\ \/ world'.town.owner = world.town.owner
            \/ \E c \in Cities : Captured(c)
<1> DEFINE Owners == \/ world'.town.owner = world.town.owner
                     \/ \E c \in Cities : Captured(c)
           Town == world'.town \in Towns /\ Tended(world'.town)
<1>0. online' \in SUBSET Players /\ turn' \in Nat
  BY DEF TownInv, PlayNext, Connectivity, ProcessAction, ApplyAction, EndOfTurn, vars
<1> SUFFICES Town /\ Owners
  BY <1>0 DEF TownInv
<1>a. Sound(world) /\ Living(world)
  BY DEF WorldInv
<1>b. world.town \in Towns /\ Tended(world.town)
  BY DEF TownInv
<1>1. CASE ProcessMove
  <2>1. world'.town = world.town
    BY <1>a, <1>1, MoveSound DEF ProcessMove, ValidMove
  <2> QED
    BY <1>b, <2>1
<1>2. CASE ProcessAttack
  <2>1. world'.town = world.town
    BY <1>a, <1>2, AttackSound DEF ProcessAttack
  <2> QED
    BY <1>b, <2>1
<1>3. CASE ProcessCapture
  <2>1. PICK i \in Indices(world) : ValidCapture(world, i) /\ world' = Capture(world, i)
    BY <1>3 DEF ProcessCapture
  <2> DEFINE u == UnitAt(world, i)
             c == CityCenteredAt(u.tile)
             town == HandedOver(world.town, c, u.faction)
  <2>2. u.faction \in Factions
    BY <1>a DEF UnitAt, Sound, WorldShape, VectorExact, Indices, Range, Units
  <2>3. c \in Cities
    BY <2>1, CityCenteredAtProperties DEF ValidCapture
  <2>4. Capture(world, i) = [world EXCEPT !.town = town]
    BY DEF Capture, HandedOver
  <2> HIDE DEF u, c
  <2>5. town \in Towns /\ Tended(town) /\ town.owner = [world.town.owner EXCEPT ![c] = u.faction]
    BY <1>b, <2>2, <2>3, HandoverTended
  <2> HIDE DEF town
  <2>6. world'.town = town
    BY <1>a, <2>1, <2>4, SameUnits
  <2>7. Captured(c)
    BY <2>1, <2>5, <2>6 DEF Captured, u, c
  <2> QED
    BY <2>3, <2>5, <2>6, <2>7
<1>4. ASSUME NEW p \in Players, NEW c \in Cities, NEW order \in Orders,
             CityBelongsToPlayer(p, c), order.by = FactionOf[p],
             world' = [world EXCEPT !.town = Enqueue(world.town, c, order)]
      PROVE  Town /\ Owners
  <2> DEFINE town == Enqueue(world.town, c, order)
  <2>1. town \in Towns /\ Tended(town) /\ town.owner = world.town.owner
    BY <1>b, <1>4, EnqueueTended DEF CityBelongsToPlayer
  <2> HIDE DEF town
  <2>2. world'.town = town
    BY <1>a, <1>4, SameUnits DEF town
  <2> QED
    BY <2>1, <2>2
<1>5. ASSUME NEW p \in online, ProcessProduceUnit(p)
      PROVE  Town /\ Owners
  <2>1. PICK c \in Cities, k \in Kinds, cost \in Costs :
          /\ CityBelongsToPlayer(p, c)
          /\ world' = [world EXCEPT !.town = Enqueue(world.town, c,
               [item |-> k, cost |-> cost, tile |-> Center[c], by |-> FactionOf[p]])]
    BY <1>5 DEF ProcessProduceUnit
  <2> DEFINE order == [item |-> k, cost |-> cost, tile |-> Center[c], by |-> FactionOf[p]]
  <2>2. p \in Players
    BY DEF TownInv
  <2>3. order \in Orders /\ order.by = FactionOf[p]
    BY <2>2, WorldAssumption, SessionAssumption DEF Orders
  <2> QED
    BY <1>4, <2>1, <2>2, <2>3
<1>6. ASSUME NEW p \in online, ProcessBuild(p)
      PROVE  Town /\ Owners
  <2>1. PICK c \in Cities, b \in BuildingTypes, t \in BuildTiles :
          /\ CityBelongsToPlayer(p, c)
          /\ world' = [world EXCEPT !.town = Enqueue(world.town, c,
               [item |-> b, cost |-> BuildCost[b], tile |-> t, by |-> FactionOf[p]])]
    BY <1>6 DEF ProcessBuild
  <2> DEFINE order == [item |-> b, cost |-> BuildCost[b], tile |-> t, by |-> FactionOf[p]]
  <2>2. p \in Players
    BY DEF TownInv
  <2>3. order \in Orders /\ order.by = FactionOf[p]
    BY <2>2, EconomyAssumption, SessionAssumption DEF Orders
  <2> QED
    BY <1>4, <2>1, <2>2, <2>3
<1>7. CASE EndOfTurn
  <2>1. world'.town = ResolveCities(world.town)
    BY <1>a, <1>7, ResolveTurnSound DEF EndOfTurn
  <2> QED
    BY <1>b, <2>1, ResolveCitiesType, ResolveCitiesTended
<1>8. CASE Connectivity \/ UNCHANGED vars
  BY <1>b, <1>8 DEF Connectivity, vars
<1> QED
  BY <1>1, <1>2, <1>3, <1>5, <1>6, <1>7, <1>8 DEF PlayNext, ProcessAction, ApplyAction

-----------------------------------------------------------------------------
(* Off the map. *)

\* A unit has left the map, from a tile where no zone of control kept it.
HasLeft(w, v) ==
  \E i \in Indices(w), t \in BesideTheMap :
    /\ ~BlockedByZoc(w, UnitAt(w, i).tile, t, UnitAt(w, i).faction)
    /\ v.unit[w.order[i]].tile = t
    /\ \A q \in DOMAIN w.unit \ {w.order[i]} : v.unit[q].tile = w.unit[q].tile

\* Vector, registry and towns survive a unit's walking off the map: it is filed
\* nowhere on the map, where it no longer is.
LEMMA WalkOff ==
  ASSUME NEW w, Sound(w), Living(w), NEW i, NEW t \in BesideTheMap, MayStepOff(w, i, t),
         NEW cost \in 1 .. UnitAt(w, i).moves,
         ~BlockedByZoc(w, UnitAt(w, i).tile, t, UnitAt(w, i).faction)
  PROVE  /\ Fields(Walk(w, i, t, cost)) /\ VectorExact(Walk(w, i, t, cost))
         /\ RegistryExact(Walk(w, i, t, cost)) /\ Living(Walk(w, i, t, cost))
         /\ OneHasStrayed(Walk(w, i, t, cost))
         /\ Descends(w, Walk(w, i, t, cost)) /\ HasLeft(w, Walk(w, i, t, cost))
         /\ Walk(w, i, t, cost).order = w.order
         /\ Walk(w, i, t, cost).town = w.town
<1> DEFINE p == w.order[i]
           x == w.unit[p]
           gone == [x EXCEPT !.tile = t, !.moves = x.moves - cost]
           v == Walk(w, i, t, cost)
<1>1. /\ i \in Indices(w) /\ p \in DOMAIN w.unit /\ x \in Units
      /\ w.unit \in [DOMAIN w.unit -> Units]
      /\ Alive(x) /\ HexDistance(x.tile, t) = 1
      /\ t \notin Tiles /\ x.tile \in Tiles /\ cost \in 1 .. x.moves
  BY DEF MayStepOff, Sound, WorldShape, VectorExact, Indices, Range, UnitAt, Units, BesideTheMap
<1>2. /\ gone.kind = x.kind /\ gone.faction = x.faction /\ gone.tile = t
      /\ gone.health = x.health
      /\ [gone EXCEPT !.tile = x.tile] \in Units
  <2>1. x.moves \in Nat /\ x.moves - cost \in Nat /\ x.moves - cost <= x.moves
    BY <1>1 DEF Units
  <2>2. Template[x.kind] \in CombatStats
    BY <1>1, CombatAssumption DEF Units
  <2> DEFINE stayed == [x EXCEPT !.moves = x.moves - cost]
  <2>3. x = [kind |-> x.kind, faction |-> x.faction, tile |-> x.tile, health |-> x.health,
             moves |-> x.moves, xp |-> x.xp]
    BY <1>1 DEF Units
  <2>4. stayed \in Units
    BY <1>1, <2>1, <2>2 DEF Units, CombatStats
  <2> HIDE DEF x, p
  <2>5. gone = [kind |-> x.kind, faction |-> x.faction, tile |-> t, health |-> x.health,
                moves |-> x.moves - cost, xp |-> x.xp]
    <3> DEFINE left == [x EXCEPT !.tile = t]
    <3>1. left = [kind |-> x.kind, faction |-> x.faction, tile |-> t, health |-> x.health,
                  moves |-> x.moves, xp |-> x.xp]
      BY <2>3
    <3>2. gone = [left EXCEPT !.moves = x.moves - cost]
      OBVIOUS
    <3> HIDE DEF left, gone
    <3> QED
      BY <3>1, <3>2
  <2>6. stayed = [kind |-> x.kind, faction |-> x.faction, tile |-> x.tile, health |-> x.health,
                  moves |-> x.moves - cost, xp |-> x.xp]
    BY <2>3
  <2> HIDE DEF gone, stayed
  <2>7. [gone EXCEPT !.tile = x.tile] = stayed
    BY <2>5, <2>6
  <2> QED
    BY <2>4, <2>5, <2>7
<1>3. /\ Fields(v) /\ v.order = w.order /\ v.town = w.town
      /\ v.unit = [q \in DOMAIN w.unit |-> IF q = p THEN gone ELSE w.unit[q]]
      /\ v.registry = [n \in Tiles |->
           IF n = t THEN w.registry[n] \cup {p}
           ELSE IF n = x.tile THEN w.registry[n] \ {p} ELSE w.registry[n]]
  <2> DEFINE r == Relocate(w, p, t)
             left == [x EXCEPT !.tile = t]
  <2>1. /\ r.order = w.order /\ r.town = w.town
        /\ r.unit = [q \in DOMAIN w.unit |-> IF q = p THEN left ELSE w.unit[q]]
        /\ r.registry = [n \in Tiles |->
             IF n = t THEN w.registry[n] \cup {p}
             ELSE IF n = x.tile THEN w.registry[n] \ {p} ELSE w.registry[n]]
        /\ r = [order |-> r.order, unit |-> r.unit, registry |-> r.registry, town |-> r.town]
    BY DEF Relocate
  <2>2. v = [r EXCEPT !.unit = [r.unit EXCEPT ![p].moves = @ - cost]]
    BY DEF Walk
  <2>3. [left EXCEPT !.moves = @ - cost] = gone
    BY <1>1 DEF Units
  <2> HIDE DEF r, gone, left
  <2>4. [r.unit EXCEPT ![p].moves = @ - cost]
          = [q \in DOMAIN w.unit |-> IF q = p THEN gone ELSE w.unit[q]]
    BY <1>1, <2>1, <2>3
  <2> HIDE DEF v, p, x
  <2> QED
    BY <2>1, <2>2, <2>4 DEF Fields
<1> HIDE DEF v, gone
<1>4. /\ DOMAIN v.unit = DOMAIN w.unit /\ v.unit[p] = gone
      /\ \A q \in DOMAIN w.unit \ {p} : v.unit[q] = w.unit[q]
  BY <1>1, <1>3
<1>5. VectorExact(v)
  BY <1>3, <1>4 DEF Sound, VectorExact
<1>6. RegistryExact(v)
  <2> SUFFICES ASSUME NEW n \in Tiles
               PROVE  v.registry[n] = {q \in DOMAIN v.unit : v.unit[q].tile = n}
    BY DEF RegistryExact
  <2>1. w.registry[n] = {q \in DOMAIN w.unit : w.unit[q].tile = n}
    BY DEF Sound, RegistryExact
  <2>2. v.registry[n] = IF n = x.tile THEN w.registry[n] \ {p} ELSE w.registry[n]
    BY <1>1, <1>3
  <2> HIDE DEF p
  <2> QED
    BY <1>1, <1>2, <1>4, <2>1, <2>2
<1>7. Living(v) /\ Descends(w, v)
  BY <1>1, <1>2, <1>4 DEF Living, Descends, Alive
<1>8. HasLeft(w, v)
  BY <1>1, <1>2, <1>4 DEF HasLeft
<1>9. OneHasStrayed(v)
  <2> DEFINE back == [v EXCEPT !.unit = [@ EXCEPT ![p].tile = x.tile]]
  <2>1. /\ back.order = w.order /\ back.registry = v.registry
        /\ back.unit = [v.unit EXCEPT ![p] = [gone EXCEPT !.tile = x.tile]]
    <3>1. v = [order |-> v.order, unit |-> v.unit, registry |-> v.registry, town |-> v.town]
      BY <1>3 DEF Fields
    <3> QED
      BY <1>3, <1>4, <3>1
  <2>2. back.unit \in [DOMAIN w.unit -> Units]
    <3> DEFINE returned == [gone EXCEPT !.tile = x.tile]
    <3>1. returned \in Units /\ back.unit = [v.unit EXCEPT ![p] = returned]
      BY <1>2, <2>1
    <3> HIDE DEF back, returned, p
    <3> QED
      BY <1>1, <1>3, <3>1
  <2>3. v.registry \in [Tiles -> SUBSET Pointers]
    <3>1. p \in Pointers /\ w.registry \in [Tiles -> SUBSET Pointers]
      BY <1>1 DEF Sound, WorldShape
    <3> QED
      BY <1>3, <3>1
  <2> HIDE DEF back
  <2>4. WorldShape(back)
    <3>1. DOMAIN back.unit = DOMAIN w.unit
      BY <2>2
    <3> QED
      BY <2>1, <2>2, <2>3, <3>1 DEF Sound, WorldShape
  <2>5. v.unit[p].tile = t /\ p \in DOMAIN v.unit
    BY <1>1, <1>2, <1>4
  <2> QED
    BY <1>1, <2>4, <2>5 DEF OneHasStrayed, back
<1> QED
  BY <1>3, <1>5, <1>6, <1>7, <1>8, <1>9 DEF v

\* The inductive invariant of the session: until a unit leaves the map the
\* world is sound, and from then on it is but for the place of that unit.
SessionInv ==
  /\ process \in {"running", "ended", "strayed"}
  /\ TownInv
  /\ Fields(world) /\ VectorExact(world) /\ RegistryExact(world) /\ Living(world)
  /\ IF process = "strayed" THEN OneHasStrayed(world) ELSE WorldShape(world)

LEMMA SessionStarts == Init => SessionInv
<1> SUFFICES ASSUME Init
             PROVE  SessionInv
  OBVIOUS
<1>1. process = "running"
  BY DEF Init
<1> QED
  BY <1>1, InitSound, InitTowns DEF SessionInv, WorldInv, Sound

\* A session that runs has a sound world.
LEMMA RunsSound ==
  ASSUME SessionInv, process = "running"
  PROVE  WorldInv /\ TownInv
BY DEF SessionInv, WorldInv, Sound

\* A client's destination off the map ends the process, with the world as it
\* was, or it lets a unit walk off.
LEMMA OffTheMap ==
  ASSUME SessionInv, process = "running", MoveOffTheMap
  PROVE  /\ SessionInv'
         /\ \/ world' = world
            \/ Descends(world, world') /\ HasLeft(world, world')
               /\ world'.town = world.town /\ VectorExact(world')
<1>0. Sound(world) /\ Living(world) /\ TownInv
  BY RunsSound DEF WorldInv
<1>1. /\ UNCHANGED <<online, turn>> /\ process' \in {"ended", "strayed"}
  BY DEF MoveOffTheMap
<1>2. CASE process' = "ended" /\ UNCHANGED world
  BY <1>0, <1>1, <1>2 DEF SessionInv, TownInv, Sound
<1>3. ASSUME NEW i \in Indices(world), NEW t \in Beyond, MayStepOff(world, i, t),
             NEW cost \in 1 .. UnitAt(world, i).moves,
             ~BlockedByZoc(world, UnitAt(world, i).tile, t, UnitAt(world, i).faction),
             world' = Walk(world, i, t, cost), process' = "strayed"
      PROVE  /\ SessionInv'
             /\ Descends(world, world') /\ HasLeft(world, world')
             /\ world'.town = world.town /\ VectorExact(world')
  <2>1. t \in BesideTheMap
    BY SessionAssumption
  <2>2. /\ Fields(world') /\ VectorExact(world') /\ RegistryExact(world') /\ Living(world')
        /\ OneHasStrayed(world')
        /\ Descends(world, world') /\ HasLeft(world, world')
        /\ world'.town = world.town
    BY <1>0, <1>3, <2>1, WalkOff
  <2> QED
    BY <1>0, <1>1, <1>3, <2>2 DEF SessionInv, TownInv
<1> QED
  BY <1>2, <1>3 DEF MoveOffTheMap

\* A step of the session is one of play on a sound world, the last before a
\* unit leaves the map or the process ends, or none.
LEMMA SessionStep ==
  ASSUME SessionInv, [Next]_vars
  PROVE  /\ SessionInv'
         /\ \/ WorldInv /\ TownInv /\ [PlayNext]_vars
            \/ process = "running" /\ MoveOffTheMap
            \/ UNCHANGED vars
<1>1. CASE process = "running" /\ PlayNext /\ UNCHANGED process
  <2>1. WorldInv /\ TownInv
    BY <1>1, RunsSound
  <2>2. WorldInv' /\ TownInv'
    BY <1>1, <2>1, StepSound, TownStep
  <2> QED
    BY <1>1, <2>1, <2>2 DEF SessionInv, WorldInv, Sound
<1>2. CASE process = "running" /\ MoveOffTheMap
  BY <1>2, OffTheMap
<1>3. CASE UNCHANGED vars
  BY <1>3 DEF SessionInv, TownInv, vars
<1> QED
  BY <1>1, <1>2, <1>3 DEF Next

-----------------------------------------------------------------------------
(* The theorems. *)

\* The vector that owns the units and the registry that MoveAction,
\* AttackAction and ZoneOfControl find them by agree in every state, however
\* units are moved, wounded and removed by index; and AttackAction leaves no
\* unit without health on the map, so that code that does not ask whether a
\* unit is alive need not.
THEOREM WorldAlwaysSound == Spec => []WorldIsSound
<1>1. SessionInv => WorldIsSound
  BY DEF SessionInv, Living, Consistent, NobodyDead, WorldIsSound
<1>2. SessionInv /\ [Next]_vars => SessionInv'
  BY SessionStep
<1> QED
  BY <1>1, <1>2, SessionStarts, PTL DEF Spec

\* What ZoneOfControl reads in the registry is where the units really are.
LEMMA ZocIsAboutGuards ==
  ASSUME RegistryExact(world), NEW t, NEW f
  PROVE  EnemiesNear(world, t, f)
           = {g \in Factions : <<f, g>> \in AtWar /\ Guards(world, t, g) # {}}
<1>1. Neighbors(t) \subseteq Tiles
  BY DEF Neighbors
<1> SUFFICES ASSUME NEW g \in Factions
             PROVE  (\E n \in Neighbors(t) : \E p \in world.registry[n] : world.unit[p].faction = g)
                      <=> Guards(world, t, g) # {}
  BY DEF EnemiesNear
<1>2. \A n \in Neighbors(t) : world.registry[n] = {p \in DOMAIN world.unit : world.unit[p].tile = n}
  BY <1>1 DEF RegistryExact
<1> QED
  BY <1>2 DEF Guards

\* MoveAction's check of zones of control, made on the registry, is enough to
\* keep every unit from stepping between two tiles that one enemy guards.
THEOREM NobodyEverSlipsPast == Spec => NobodySlipsPast
<1> DEFINE Slips(p) ==
      /\ world.unit[p].tile # world'.unit[p].tile
      /\ \E g \in Factions : /\ <<world.unit[p].faction, g>> \in AtWar
                             /\ Guards(world, world.unit[p].tile, g) # {}
                             /\ Guards(world, world'.unit[p].tile, g) # {}
           NoSlip == \A p \in DOMAIN world.unit \cap DOMAIN world'.unit : ~Slips(p)
<1>1. ASSUME SessionInv, [Next]_vars
      PROVE  NoSlip
  <2>1. CASE Unmoved(world, world')
    BY <2>1 DEF Unmoved
  <2>2. ASSUME Sound(world), NEW i \in Indices(world), NEW t \in Tiles,
               ValidMove(world, i, t), world' = Move(world, i, t)
        PROVE  NoSlip
    <3> DEFINE mover == world.order[i]
               from == world.unit[mover].tile
               f == world.unit[mover].faction
    <3>1. /\ mover \in DOMAIN world.unit
          /\ from \in Tiles
      BY <2>2 DEF Sound, WorldShape, VectorExact, Indices, Range, Units
    <3>2. /\ DOMAIN world'.unit = DOMAIN world.unit
          /\ world'.unit[mover].tile = t
          /\ \A p \in DOMAIN world.unit \ {mover} : world'.unit[p].tile = world.unit[p].tile
      BY <2>2, <3>1, MovePlaces
    <3>3. EnemiesNear(world, t, f) \cap EnemiesNear(world, from, f) = {}
      BY <2>2 DEF ValidMove, BlockedByZoc, UnitAt
    <3>4. /\ EnemiesNear(world, t, f) = {g \in Factions : <<f, g>> \in AtWar /\ Guards(world, t, g) # {}}
          /\ EnemiesNear(world, from, f)
               = {g \in Factions : <<f, g>> \in AtWar /\ Guards(world, from, g) # {}}
      BY <2>2, ZocIsAboutGuards DEF Sound
    <3>5. ~Slips(mover)
      BY <3>2, <3>3, <3>4
    <3> QED
      BY <3>2, <3>5
  <2>3. ASSUME Sound(world), HasLeft(world, world')
        PROVE  NoSlip
    <3>1. PICK i \in Indices(world), t \in BesideTheMap :
            /\ ~BlockedByZoc(world, UnitAt(world, i).tile, t, UnitAt(world, i).faction)
            /\ world'.unit[world.order[i]].tile = t
            /\ \A q \in DOMAIN world.unit \ {world.order[i]} :
                 world'.unit[q].tile = world.unit[q].tile
      BY <2>3 DEF HasLeft
    <3> DEFINE mover == world.order[i]
               from == world.unit[mover].tile
               f == world.unit[mover].faction
    <3>2. EnemiesNear(world, t, f) \cap EnemiesNear(world, from, f) = {}
      BY <3>1 DEF BlockedByZoc, UnitAt
    <3>3. /\ EnemiesNear(world, t, f) = {g \in Factions : <<f, g>> \in AtWar /\ Guards(world, t, g) # {}}
          /\ EnemiesNear(world, from, f)
               = {g \in Factions : <<f, g>> \in AtWar /\ Guards(world, from, g) # {}}
      BY <2>3, ZocIsAboutGuards DEF Sound
    <3>4. ~Slips(mover)
      BY <3>1, <3>2, <3>3
    <3> QED
      BY <3>1, <3>4
  <2>4. CASE WorldInv /\ [PlayNext]_vars
    BY <2>1, <2>2, <2>4, StepSound DEF WorldInv
  <2>5. CASE process = "running" /\ MoveOffTheMap
    <3>1. Sound(world)
      BY <1>1, <2>5, RunsSound DEF WorldInv
    <3>2. world' = world \/ HasLeft(world, world')
      BY <1>1, <2>5, OffTheMap
    <3> QED
      BY <2>3, <3>1, <3>2
  <2>6. CASE UNCHANGED vars
    BY <2>6 DEF vars
  <2> QED
    BY <1>1, <2>4, <2>5, <2>6, SessionStep
<1>2. NoSlip <=>
        \A p \in DOMAIN world.unit \cap DOMAIN world'.unit :
          LET from == world.unit[p].tile
              to == world'.unit[p].tile
              f == world.unit[p].faction
          IN  from # to =>
                ~\E g \in Factions : /\ <<f, g>> \in AtWar
                                     /\ Guards(world, from, g) # {}
                                     /\ Guards(world, to, g) # {}
  OBVIOUS
<1>3. SessionInv /\ [Next]_vars => SessionInv'
  BY SessionStep
<1> QED
  BY <1>1, <1>2, <1>3, SessionStarts, PTL DEF Spec, NobodySlipsPast

\* Units, cities and connections stay well-formed whatever comes in, up to the
\* first unit that a build without assertions lets walk off the map: as the
\* session is left then, that unit is the only one that is not on it.
THEOREM TypeCorrect == Spec => []TypeOK
<1>1. SessionInv => TypeOK
  BY DEF SessionInv, TownInv, TypeOK
<1>2. SessionInv /\ [Next]_vars => SessionInv'
  BY SessionStep
<1> QED
  BY <1>1, <1>2, SessionStarts, PTL DEF Spec

\* What a city works on was ordered by the faction that holds it, across any
\* number of captures and ends of turns, and BuildQueue accumulates for the
\* order in hand only.
THEOREM ProductionServesTheOwner == Spec => []ProductionIsTheOwners
<1>1. SessionInv => ProductionIsTheOwners
  BY DEF SessionInv, TownInv, Tended, Fits, OrdersAreTheOwners, StockIsForTheOrder,
         ProductionIsTheOwners
<1>2. SessionInv /\ [Next]_vars => SessionInv'
  BY SessionStep
<1> QED
  BY <1>1, <1>2, SessionStarts, PTL DEF Spec

\* CaptureAction is the only way to a city, and it asks for a unit on the
\* center and no defender on the city's ground.
THEOREM OnlyCaptureTakesCities == Spec => CitiesFallUndefended
<1>1. ASSUME WorldInv, TownInv, [PlayNext]_vars,
             NEW c \in Cities, world'.town.owner[c] # world.town.owner[c]
      PROVE  /\ \E p \in DOMAIN world.unit :
                  /\ world.unit[p].tile = Center[c]
                  /\ world.unit[p].faction = world'.town.owner[c]
             /\ ~\E p \in DOMAIN world.unit :
                  /\ world.unit[p].tile \in CityTiles[c]
                  /\ world.unit[p].faction = world.town.owner[c]
  <2>1. PICK d \in Cities : Captured(d)
    BY <1>1, TownStep
  <2>2. PICK i \in Indices(world) :
          /\ ValidCapture(world, i)
          /\ d = CityCenteredAt(UnitAt(world, i).tile)
          /\ world'.town.owner = [world.town.owner EXCEPT ![d] = UnitAt(world, i).faction]
    BY <2>1 DEF Captured
  <2>3. world.town.owner \in [Cities -> Factions]
    BY <1>1 DEF TownInv, Towns
  <2>4. c = d /\ world'.town.owner[c] = UnitAt(world, i).faction
    BY <1>1, <2>2, <2>3
  <2>5. /\ world.order[i] \in DOMAIN world.unit
        /\ Center[d] = world.unit[world.order[i]].tile
    <3>1. world.order[i] \in DOMAIN world.unit
      BY <1>1 DEF WorldInv, Sound, VectorExact, Indices, Range
    <3> QED
      BY <2>2, <3>1, CityCenteredAtProperties DEF ValidCapture, UnitAt
  <2>6. ~\E p \in DOMAIN world.unit :
           /\ world.unit[p].tile \in CityTiles[c]
           /\ world.unit[p].faction = world.town.owner[c]
    <3>1. ~IsCityDefended(world, c)
      BY <2>2, <2>4 DEF ValidCapture
    <3>2. CityTiles[c] \subseteq Tiles
      BY WorldAssumption
    <3>3. \A t \in CityTiles[c] :
            world.registry[t] = {p \in DOMAIN world.unit : world.unit[p].tile = t}
      BY <1>1, <3>2 DEF WorldInv, Sound, RegistryExact
    <3> QED
      BY <1>1, <3>1, <3>3 DEF WorldInv, Living, IsCityDefended
  <2> QED
    BY <2>4, <2>5, <2>6 DEF UnitAt
<1>2. SessionInv /\ [Next]_vars => SessionInv'
  BY SessionStep
<1>3. SessionInv /\ [Next]_vars =>
        \A c \in Cities :
          world'.town.owner[c] # world.town.owner[c] =>
            /\ \E p \in DOMAIN world.unit :
                 /\ world.unit[p].tile = Center[c]
                 /\ world.unit[p].faction = world'.town.owner[c]
            /\ ~\E p \in DOMAIN world.unit :
                 /\ world.unit[p].tile \in CityTiles[c]
                 /\ world.unit[p].faction = world.town.owner[c]
  <2>1. SessionInv /\ process = "running" /\ MoveOffTheMap => world'.town = world.town
    BY OffTheMap
  <2>2. UNCHANGED vars => world'.town = world.town
    BY DEF vars
  <2> QED
    BY <1>1, <2>1, <2>2, SessionStep
<1> QED
  BY <1>2, <1>3, SessionStarts, PTL DEF Spec, CitiesFallUndefended

\* No unit is of a faction that is eliminated.
LEMMA NoneIsLeft ==
  ASSUME WorldInv, NEW f \in Factions, IsFactionEliminated(world, f)
  PROVE  \A p \in DOMAIN world.unit : world.unit[p].faction # f
<1> SUFFICES ASSUME NEW p \in DOMAIN world.unit
             PROVE  world.unit[p].faction # f
  OBVIOUS
<1>1. PICK i \in Indices(world) : world.order[i] = p
  BY DEF WorldInv, Sound, VectorExact, Indices, Range
<1> QED
  BY <1>1 DEF IsFactionEliminated, UnitAt, WorldInv, Living

\* A faction that has lost its last unit and its last city gains none.
LEMMA StaysEliminated ==
  ASSUME WorldInv, TownInv, [PlayNext]_vars,
         NEW f \in Factions, IsFactionEliminated(world, f)
  PROVE  IsFactionEliminated(world', f)
<1>1. Sound(world) /\ Living(world) /\ Sound(world') /\ Living(world')
  BY StepSound DEF WorldInv
<1>2. \A p \in DOMAIN world.unit : world.unit[p].faction # f
  BY NoneIsLeft
<1>3. \A p \in DOMAIN world'.unit : world'.unit[p].faction # f
  BY <1>2, StepDescends DEF Descends
<1>4. \A i \in Indices(world') : UnitAt(world', i).faction # f
  BY <1>1, <1>3 DEF Sound, VectorExact, Indices, Range, UnitAt
<1>5. \A c \in Cities : world'.town.owner[c] # f
  <2>1. CASE world'.town.owner = world.town.owner
    BY <2>1 DEF IsFactionEliminated
  <2>2. ASSUME NEW d \in Cities, Captured(d)
        PROVE  \A c \in Cities : world'.town.owner[c] # f
    <3>1. PICK i \in Indices(world) :
            world'.town.owner = [world.town.owner EXCEPT ![d] = UnitAt(world, i).faction]
      BY <2>2 DEF Captured
    <3>2. UnitAt(world, i).faction # f
      BY <1>1, <1>2 DEF Sound, VectorExact, Indices, Range, UnitAt
    <3>3. world.town.owner \in [Cities -> Factions]
      BY DEF TownInv, Towns
    <3> QED
      BY <3>1, <3>2, <3>3 DEF IsFactionEliminated
  <2> QED
    BY <2>1, <2>2, TownStep
<1> QED
  BY <1>4, <1>5 DEF IsFactionEliminated

\* Nor does it gain any when a unit walks off the map.
LEMMA StaysEliminatedOff ==
  ASSUME SessionInv, process = "running", MoveOffTheMap,
         NEW f \in Factions, IsFactionEliminated(world, f)
  PROVE  IsFactionEliminated(world', f)
<1>1. WorldInv
  BY RunsSound
<1>2. CASE world' = world
  BY <1>2
<1>3. CASE Descends(world, world') /\ world'.town = world.town /\ VectorExact(world')
  <2>1. \A p \in DOMAIN world'.unit : world'.unit[p].faction # f
    BY <1>1, <1>3, NoneIsLeft DEF Descends
  <2>2. \A i \in Indices(world') : UnitAt(world', i).faction # f
    BY <1>3, <2>1 DEF VectorExact, Indices, Range, UnitAt
  <2> QED
    BY <1>3, <2>2 DEF IsFactionEliminated
<1> QED
  BY <1>2, <1>3, OffTheMap

\* A faction that has lost its last unit and its last city never comes back.
THEOREM EliminatedForever == Spec => EliminationIsFinal
<1>1. SessionInv /\ [Next]_vars => SessionInv'
  BY SessionStep
<1>2. SessionInv /\ [Next]_vars =>
        \A f \in Factions : IsFactionEliminated(world, f) => IsFactionEliminated(world', f)
  <2>1. UNCHANGED vars => world' = world
    BY DEF vars
  <2> QED
    BY <2>1, SessionStep, StaysEliminated, StaysEliminatedOff
<1> QED
  BY <1>1, <1>2, SessionStarts, PTL DEF Spec, EliminationIsFinal

-----------------------------------------------------------------------------
(* Callers with a unit type registry, for whom orders become units. *)

\* Units that come at the end of a turn are filed and alive, and they come to
\* factions that have a city.
LEMMA TurnSpawns ==
  ASSUME WorldInv, TownInv, EndOfTurnSpawning
  PROVE  /\ WorldInv' /\ TownInv'
         /\ world'.town.owner = world.town.owner
         /\ Heirs(world, world')
<1>1. /\ Sound(world) /\ Living(world)
      /\ world.town \in Towns /\ Tended(world.town)
      /\ Cardinality(Pointers \ DOMAIN world.unit) >= NumCities
      /\ world' = ResolveTurnSpawning(world)
  BY DEF WorldInv, TownInv, EndOfTurnSpawning
<1>2. LET v == ResolveTurnSpawning(world)
      IN  /\ Sound(v) /\ Living(v)
          /\ v.town \in Towns /\ Tended(v.town) /\ v.town.owner = world.town.owner
          /\ Heirs(world, v)
  BY <1>1, MemoryAssumption, ResolveTurnSpawningSound
<1>3. online' \in SUBSET Players /\ turn' \in Nat
  BY DEF TownInv, EndOfTurnSpawning
<1> QED
  BY <1>1, <1>2, <1>3 DEF WorldInv, TownInv

LEMMA SpawningStep ==
  ASSUME SessionInv, [SpawningNext]_vars
  PROVE  /\ SessionInv'
         /\ \/ WorldInv /\ TownInv /\ EndOfTurnSpawning
            \/ [Next]_vars
<1>1. CASE process = "running" /\ EndOfTurnSpawning /\ UNCHANGED process
  <2>1. WorldInv /\ TownInv
    BY <1>1, RunsSound
  <2>2. WorldInv' /\ TownInv'
    BY <1>1, <2>1, TurnSpawns
  <2> QED
    BY <1>1, <2>1, <2>2 DEF SessionInv, WorldInv, Sound
<1>2. ASSUME [Next]_vars
      PROVE  SessionInv'
  BY <1>2, SessionStep
<1> QED
  BY <1>1, <1>2 DEF SpawningNext, Next, PlayNext

\* Also with a unit type registry, vector and registry agree, and nobody dead
\* is left: a new unit takes a pointer of its own and is filed where it
\* stands, be it beside others on the center of its city.
THEOREM SpawnedWorldAlwaysSound == SpawningSpec => []WorldIsSound
<1>1. SessionInv => WorldIsSound
  BY DEF SessionInv, Living, Consistent, NobodyDead, WorldIsSound
<1>2. SessionInv /\ [SpawningNext]_vars => SessionInv'
  BY SpawningStep
<1> QED
  BY <1>1, <1>2, SessionStarts, PTL DEF SpawningSpec

\* Also with a unit type registry, what a city works on was ordered by the
\* faction that holds it, and nothing is hoarded.
THEOREM SpawningServesTheOwner == SpawningSpec => []ProductionIsTheOwners
<1>1. SessionInv => ProductionIsTheOwners
  BY DEF SessionInv, TownInv, Tended, Fits, OrdersAreTheOwners, StockIsForTheOrder,
         ProductionIsTheOwners
<1>2. SessionInv /\ [SpawningNext]_vars => SessionInv'
  BY SpawningStep
<1> QED
  BY <1>1, <1>2, SessionStarts, PTL DEF SpawningSpec

\* No order that is completed brings back a faction that is eliminated: the
\* unit joins the faction that holds the city when it is completed.
THEOREM SpawnsOnlyForTheLiving == SpawningSpec => EliminationIsFinal
<1>1. ASSUME WorldInv, TownInv, EndOfTurnSpawning,
             NEW f \in Factions, IsFactionEliminated(world, f)
      PROVE  IsFactionEliminated(world', f)
  <2>1. /\ Sound(world')
        /\ world'.town.owner = world.town.owner
        /\ Heirs(world, world')
    BY <1>1, TurnSpawns DEF WorldInv
  <2>2. \A p \in DOMAIN world.unit : world.unit[p].faction # f
    BY <1>1, NoneIsLeft
  <2>3. \A c \in Cities : world.town.owner[c] # f
    BY <1>1 DEF IsFactionEliminated
  <2>4. \A p \in DOMAIN world'.unit : world'.unit[p].faction # f
    BY <2>1, <2>2, <2>3 DEF Heirs
  <2>5. \A i \in Indices(world') : UnitAt(world', i).faction # f
    BY <2>1, <2>4 DEF Sound, VectorExact, Indices, Range, UnitAt
  <2> QED
    BY <2>1, <2>3, <2>5 DEF IsFactionEliminated
<1>2. SessionInv /\ [SpawningNext]_vars => SessionInv'
  BY SpawningStep
<1>3. SessionInv /\ [SpawningNext]_vars =>
        \A f \in Factions : IsFactionEliminated(world, f) => IsFactionEliminated(world', f)
  <2>1. UNCHANGED vars => world' = world
    BY DEF vars
  <2> QED
    BY <1>1, <2>1, SpawningStep, SessionStep, StaysEliminated, StaysEliminatedOff
<1> QED
  BY <1>2, <1>3, SessionStarts, PTL DEF SpawningSpec, EliminationIsFinal

-----------------------------------------------------------------------------
(* The neutral factions. *)

\* NeutralAI's table of neighbours has those of ZoneOfControl.
LEMMA SameNeighbors ==
  ASSUME NEW t \in Tiles
  PROVE  Neighbors(t) = {NeighborOrder(t)[n] : n \in {m \in 1 .. 6 : NeighborOrder(t)[m] \in Tiles}}
<1> DEFINE odd == t[1] % 2
<1>1. /\ t[1] \in Int /\ t[2] \in Int /\ odd \in {0, 1}
      /\ \A n \in Tiles : n = <<n[1], n[2]>> /\ n[1] \in Int /\ n[2] \in Int
  BY GridAssumption DEF Tiles
<1>2. /\ NeighborOrder(t)[1] = <<t[1] - 1, t[2] + odd - 1>>
      /\ NeighborOrder(t)[2] = <<t[1] - 1, t[2] + odd>>
      /\ NeighborOrder(t)[3] = <<t[1], t[2] - 1>>
      /\ NeighborOrder(t)[4] = <<t[1], t[2] + 1>>
      /\ NeighborOrder(t)[5] = <<t[1] + 1, t[2] + odd - 1>>
      /\ NeighborOrder(t)[6] = <<t[1] + 1, t[2] + odd>>
  BY DEF NeighborOrder
<1>3. ASSUME NEW n \in Tiles
      PROVE  n \in Neighbors(t) <=> \E m \in 1 .. 6 : NeighborOrder(t)[m] = n
  <2>1. n \in Neighbors(t) <=>
          \/ n[1] = t[1] /\ n[2] \in {t[2] - 1, t[2] + 1}
          \/ /\ n[1] \in {t[1] - 1, t[1] + 1}
             /\ n[2] \in {t[2] + odd - 1, t[2] + odd}
    BY DEF Neighbors
  <2> HIDE DEF odd
  <2>2. \A a, b : <<a, b>> = n <=> n[1] = a /\ n[2] = b
    BY <1>1
  <2>3. (\E m \in 1 .. 6 : NeighborOrder(t)[m] = n) <=>
          \/ n[1] = t[1] - 1 /\ n[2] = t[2] + odd - 1
          \/ n[1] = t[1] - 1 /\ n[2] = t[2] + odd
          \/ n[1] = t[1] /\ n[2] = t[2] - 1
          \/ n[1] = t[1] /\ n[2] = t[2] + 1
          \/ n[1] = t[1] + 1 /\ n[2] = t[2] + odd - 1
          \/ n[1] = t[1] + 1 /\ n[2] = t[2] + odd
    <3>1. \A m \in 1 .. 6 : m = 1 \/ m = 2 \/ m = 3 \/ m = 4 \/ m = 5 \/ m = 6
      OBVIOUS
    <3>2. 1 \in 1 .. 6 /\ 2 \in 1 .. 6 /\ 3 \in 1 .. 6 /\ 4 \in 1 .. 6 /\ 5 \in 1 .. 6 /\ 6 \in 1 .. 6
      OBVIOUS
    <3> QED
      BY <1>2, <2>2, <3>1, <3>2
  <2> QED
    BY <2>1, <2>3
<1>4. Neighbors(t) \subseteq Tiles
  BY DEF Neighbors
<1> QED
  BY <1>3, <1>4

\* A row is twice something, and its parity.
LEMMA HalfRow ==
  ASSUME NEW r \in Int
  PROVE  /\ (r - (r % 2)) \div 2 \in Int /\ r % 2 \in {0, 1}
         /\ r = 2 * ((r - (r % 2)) \div 2) + (r % 2)
OBVIOUS

\* A neighbour is in reach of whoever reaches as far as one tile.
LEMMA NeighborsAreInReach ==
  ASSUME NEW t \in Tiles, NEW n \in Neighbors(t)
  PROVE  HexDistance(t, n) = 1
<1> DEFINE Half(r) == (r - (r % 2)) \div 2
<1>1. /\ t[1] \in Int /\ t[2] \in Int /\ n[1] \in Int /\ n[2] \in Int /\ n \in Tiles
  BY GridAssumption DEF Tiles, Neighbors
<1> DEFINE h == Half(t[1])
           p == t[1] % 2
           hn == Half(n[1])
           pn == n[1] % 2
<1>2. /\ h \in Int /\ p \in {0, 1} /\ t[1] = 2 * h + p
      /\ hn \in Int /\ pn \in {0, 1} /\ n[1] = 2 * hn + pn
  BY <1>1, HalfRow
<1>3. \/ n[1] = t[1] /\ n[2] \in {t[2] - 1, t[2] + 1}
      \/ n[1] \in {t[1] - 1, t[1] + 1} /\ n[2] \in {t[2] + p - 1, t[2] + p}
  BY DEF Neighbors
<1>4. CubeX(t) = t[2] - h /\ CubeX(n) = n[2] - hn
  BY DEF CubeX
<1> DEFINE dx == CubeX(t) - CubeX(n)
           dz == t[1] - n[1]
<1>5. /\ dx \in Int /\ dz \in Int
      /\ <<dx, dz>> \in {<<1, 0>>, <<-1, 0>>, <<0, 1>>, <<0, -1>>, <<1, -1>>, <<-1, 1>>}
  <2> HIDE DEF h, p, hn, pn
  <2> QED
    BY <1>1, <1>2, <1>3, <1>4
<1>6. Magnitude(dx) + Magnitude(dx + dz) + Magnitude(dz) = 2
  <2> HIDE DEF dx, dz
  <2> QED
    BY <1>5 DEF Magnitude
<1> QED
  BY <1>6 DEF HexDistance

\* The units are the ones they were, with fresh movement.
LEMMA EverybodyRests ==
  ASSUME NEW w, Sound(w)
  PROVE  /\ ResolveTurn(w).order = w.order
         /\ \A p \in DOMAIN w.unit :
              /\ ResolveTurn(w).unit[p].tile = w.unit[p].tile
              /\ ResolveTurn(w).unit[p].kind = w.unit[p].kind
              /\ ResolveTurn(w).unit[p].faction = w.unit[p].faction
              /\ ResolveTurn(w).unit[p].health = w.unit[p].health
              /\ ResolveTurn(w).unit[p].moves = Template[w.unit[p].kind].moves
<1> DEFINE v == [w EXCEPT !.town = ResolveCities(w.town)]
           u == [p \in DOMAIN v.unit |->
                  [v.unit[p] EXCEPT !.moves = Template[v.unit[p].kind].moves]]
<1>1. Sound(v) /\ v.unit = w.unit /\ v.order = w.order
  BY SameUnits DEF Sound, Fields
<1> HIDE DEF v
<1>2. ResolveTurn(w) = [v EXCEPT !.unit = u]
  BY Zenon DEF ResolveTurn, ResetMovement, v
<1>3. [v EXCEPT !.unit = u].unit = u /\ [v EXCEPT !.unit = u].order = v.order
  <2> HIDE DEF u
  <2> QED
    BY <1>1 DEF Sound, Fields
<1>4. ASSUME NEW p \in DOMAIN w.unit
      PROVE  /\ u[p].tile = w.unit[p].tile /\ u[p].kind = w.unit[p].kind
             /\ u[p].faction = w.unit[p].faction /\ u[p].health = w.unit[p].health
             /\ u[p].moves = Template[w.unit[p].kind].moves
  <2>1. w.unit[p] \in Units
    BY DEF Sound, WorldShape
  <2>2. u[p] = [w.unit[p] EXCEPT !.moves = Template[w.unit[p].kind].moves]
    BY <1>1
  <2> HIDE DEF u
  <2> QED
    BY <2>1, <2>2 DEF Units
<1> HIDE DEF u
<1> QED
  BY <1>1, <1>2, <1>3, <1>4

\* The intents, by the neutral unit that has them.
Intents ==
  [type : {"Hold", "Attack"}, unitIndex : Nat, faction : Factions, target : Tiles]

\* A unit intends to attack exactly when an enemy is beside it, and then
\* intends it where one is.
LEMMA IntentIs ==
  ASSUME NEW w, Sound(w), Living(w), NEW i \in Indices(w)
  PROVE  /\ Intent(w, i) \in Intents
         /\ Intent(w, i).unitIndex = i
         /\ Intent(w, i).type = "Attack"
              <=> EnemiesNear(w, UnitAt(w, i).tile, UnitAt(w, i).faction) # {}
         /\ Intent(w, i).type = "Attack" =>
              \E j \in Indices(w) :
                /\ UnitAt(w, j).tile = Intent(w, i).target
                /\ UnitAt(w, j).tile \in Neighbors(UnitAt(w, i).tile)
                /\ <<UnitAt(w, i).faction, UnitAt(w, j).faction>> \in AtWar
<1> DEFINE u == UnitAt(w, i)
           near == Beside(w, u.tile, u.faction)
<1>0. \A j \in Indices(w) : /\ j \in Nat /\ w.order[j] \in DOMAIN w.unit
                            /\ UnitAt(w, j) \in Units /\ Alive(UnitAt(w, j))
  BY DEF Sound, WorldShape, VectorExact, Indices, Range, Living, UnitAt
<1>1. u \in Units /\ i \in Nat /\ u.tile \in Tiles /\ u.faction \in Factions
  BY <1>0 DEF Units
<1> HIDE DEF u
<1>2. near \subseteq 1 .. 6 /\ near \in SUBSET Nat
  BY DEF Beside
<1>3. ASSUME NEW n \in near
      PROVE  /\ NeighborOrder(u.tile)[n] \in Neighbors(u.tile)
             /\ EnemiesOn(w, NeighborOrder(u.tile)[n], u.faction) # {}
             /\ EnemiesOn(w, NeighborOrder(u.tile)[n], u.faction) \in SUBSET Nat
  BY <1>0, <1>1, SameNeighbors DEF Beside, EnemiesOn
<1>4. near # {} <=> EnemiesNear(w, u.tile, u.faction) # {}
  <2>1. ASSUME NEW n \in near
        PROVE  EnemiesNear(w, u.tile, u.faction) # {}
    <3>1. PICK j \in EnemiesOn(w, NeighborOrder(u.tile)[n], u.faction) : TRUE
      BY <1>3
    <3>2. /\ j \in Indices(w) /\ UnitAt(w, j).tile = NeighborOrder(u.tile)[n]
          /\ <<u.faction, UnitAt(w, j).faction>> \in AtWar
      BY <3>1 DEF EnemiesOn
    <3>3. w.order[j] \in w.registry[UnitAt(w, j).tile]
      BY <1>0, <3>2 DEF Sound, RegistryExact, UnitAt, Units
    <3>4. UnitAt(w, j).faction \in Factions
      BY <1>0, <3>2 DEF Units
    <3> QED
      BY <1>3, <3>2, <3>3, <3>4 DEF EnemiesNear, UnitAt
  <2>2. ASSUME NEW g \in EnemiesNear(w, u.tile, u.faction)
        PROVE  near # {}
    <3>1. PICK n \in Neighbors(u.tile) :
            <<u.faction, g>> \in AtWar /\ \E p \in w.registry[n] : w.unit[p].faction = g
      BY <2>2 DEF EnemiesNear
    <3>2. PICK p \in w.registry[n] : w.unit[p].faction = g
      BY <3>1
    <3>3. n \in Tiles /\ p \in DOMAIN w.unit /\ w.unit[p].tile = n
      BY <3>2 DEF Neighbors, Sound, RegistryExact
    <3>4. PICK j \in Indices(w) : w.order[j] = p
      BY <3>3 DEF Sound, VectorExact, Indices, Range
    <3>5. j \in EnemiesOn(w, n, u.faction)
      BY <1>0, <3>1, <3>2, <3>3, <3>4 DEF EnemiesOn, UnitAt
    <3>6. PICK m \in 1 .. 6 : NeighborOrder(u.tile)[m] = n
      BY <1>1, <3>1, SameNeighbors
    <3> QED
      BY <3>3, <3>5, <3>6 DEF Beside
  <2> QED
    BY <2>1, <2>2
<1>5. CASE near = {}
  <2>1. Intent(w, i) = [type |-> "Hold", unitIndex |-> i, faction |-> u.faction, target |-> u.tile]
    BY <1>5 DEF Intent, u
  <2> QED
    BY <1>1, <1>4, <1>5, <2>1 DEF Intents, u
<1>6. CASE near # {}
  <2> DEFINE t == NeighborOrder(u.tile)[Min(near)]
             j == FindAdjacentEnemy(w, u.tile, u.faction)
  <2>1. Min(near) \in near
    BY <1>2, <1>6, MinIsOne
  <2>2. j \in EnemiesOn(w, t, u.faction) /\ t \in Neighbors(u.tile)
    BY <1>3, <2>1, MinIsOne DEF FindAdjacentEnemy
  <2>3. Intent(w, i) = [type |-> "Attack", unitIndex |-> i, faction |-> u.faction,
                        target |-> UnitAt(w, j).tile]
    BY <1>6 DEF Intent, u
  <2> HIDE DEF near, j, t
  <2>4. /\ j \in Indices(w) /\ UnitAt(w, j).tile = t
        /\ <<u.faction, UnitAt(w, j).faction>> \in AtWar
    BY <2>2 DEF EnemiesOn
  <2>5. t \in Tiles
    BY <2>2 DEF Neighbors
  <2> QED
    BY <1>1, <1>4, <1>6, <2>2, <2>3, <2>4, <2>5 DEF Intents, u
<1> QED
  BY <1>5, <1>6

\* What the loop over the units adds, and the loop over the factions.
Told(w, f, told, n) ==
  IF UnitAt(w, n).faction = f /\ Alive(UnitAt(w, n)) THEN Append(told, Intent(w, n)) ELSE told

ToldOf(w, told, n) ==
  IF IsPlayer[RegistryOrder[n]] THEN told
  ELSE told \o GenerateFactionActions(w, RegistryOrder[n])

\* The loop of generateFactionActions.
LEMMA FactionLoop ==
  ASSUME NEW w, NEW f, w.order \in Seq(Pointers)
  PROVE  \E after :
           /\ after = [n \in 0 .. Len(w.order) |->
                        IF n = 0 THEN <<>> ELSE Told(w, f, after[n - 1], n)]
           /\ GenerateFactionActions(w, f) = after[Len(w.order)]
<1> DEFINE first == <<>>
           Grow(x, n) == Told(w, f, x, n)
           Good(g, k) == g = [n \in 0 .. k |-> IF n = 0 THEN first ELSE Grow(g[n - 1], n)]
           T == {k \in Nat : \E g : Good(g, k)}
           last == Len(w.order)
<1>1. last \in Nat
  BY LenProperties
<1> HIDE DEF first, Grow, last
<1>2. 0 \in T
  <2> DEFINE g == [n \in 0 .. 0 |-> first]
  <2>1. Good(g, 0)
    OBVIOUS
  <2> QED
    BY <2>1
<1>3. ASSUME NEW k \in Nat, k \in T
      PROVE  k + 1 \in T
  <2>1. PICK g : Good(g, k)
    BY <1>3
  <2> DEFINE h == [n \in 0 .. k + 1 |-> IF n = k + 1 THEN Grow(g[k], k + 1) ELSE g[n]]
  <2>2. ASSUME NEW n \in 0 .. k + 1
        PROVE  h[n] = IF n = 0 THEN first ELSE Grow(h[n - 1], n)
    <3>1. CASE n = k + 1
      <4>1. h[n] = Grow(g[k], n) /\ h[n - 1] = g[k]
        BY <3>1
      <4> QED
        BY <3>1, <4>1
    <3>2. CASE n # k + 1
      <4>1. n \in 0 .. k /\ h[n] = g[n]
        BY <2>2, <3>2
      <4>2. g[n] = IF n = 0 THEN first ELSE Grow(g[n - 1], n)
        BY <2>1, <4>1
      <4>3. n # 0 => h[n - 1] = g[n - 1]
        BY <4>1
      <4> QED
        BY <4>1, <4>2, <4>3
    <3> QED
      BY <3>1, <3>2
  <2>3. Good(h, k + 1)
    BY <2>2
  <2> HIDE DEF Good, h
  <2>4. (\E u : Good(u, k + 1)) /\ k + 1 \in Nat
    BY <2>3
  <2> QED
    BY <2>4
<1>4. \E g : Good(g, last)
  <2>1. \A n \in 0 .. last - 1 : n \in T => n + 1 \in T
    BY <1>1, <1>3
  <2>2. 0 \in T
    BY <1>2
  <2> HIDE DEF T
  <2>3. \A n \in 0 .. last : n \in T
    BY <1>1, <2>1, <2>2, UpTo
  <2>4. last \in T
    BY <1>1, <2>3
  <2> QED
    BY <2>4 DEF T
<1> DEFINE after == CHOOSE g : Good(g, last)
<1>5. Good(after, last)
  BY <1>4
<1>6. GenerateFactionActions(w, f) = after[last]
  BY Zenon DEF GenerateFactionActions, Told, first, Grow, last
<1> QED
  BY <1>5, <1>6 DEF first, Grow, last

\* The loop of generateActions.
LEMMA RegistryLoop ==
  ASSUME NEW w
  PROVE  \E after :
           /\ after = [n \in 0 .. Len(RegistryOrder) |->
                        IF n = 0 THEN <<>> ELSE ToldOf(w, after[n - 1], n)]
           /\ GenerateActions(w) = after[Len(RegistryOrder)]
<1> DEFINE first == <<>>
           Grow(x, n) == ToldOf(w, x, n)
           Good(g, k) == g = [n \in 0 .. k |-> IF n = 0 THEN first ELSE Grow(g[n - 1], n)]
           T == {k \in Nat : \E g : Good(g, k)}
           last == Len(RegistryOrder)
<1>1. last \in Nat
  BY NeutralAssumption, LenProperties
<1> HIDE DEF first, Grow, last
<1>2. 0 \in T
  <2> DEFINE g == [n \in 0 .. 0 |-> first]
  <2>1. Good(g, 0)
    OBVIOUS
  <2> QED
    BY <2>1
<1>3. ASSUME NEW k \in Nat, k \in T
      PROVE  k + 1 \in T
  <2>1. PICK g : Good(g, k)
    BY <1>3
  <2> DEFINE h == [n \in 0 .. k + 1 |-> IF n = k + 1 THEN Grow(g[k], k + 1) ELSE g[n]]
  <2>2. ASSUME NEW n \in 0 .. k + 1
        PROVE  h[n] = IF n = 0 THEN first ELSE Grow(h[n - 1], n)
    <3>1. CASE n = k + 1
      <4>1. h[n] = Grow(g[k], n) /\ h[n - 1] = g[k]
        BY <3>1
      <4> QED
        BY <3>1, <4>1
    <3>2. CASE n # k + 1
      <4>1. n \in 0 .. k /\ h[n] = g[n]
        BY <2>2, <3>2
      <4>2. g[n] = IF n = 0 THEN first ELSE Grow(g[n - 1], n)
        BY <2>1, <4>1
      <4>3. n # 0 => h[n - 1] = g[n - 1]
        BY <4>1
      <4> QED
        BY <4>1, <4>2, <4>3
    <3> QED
      BY <3>1, <3>2
  <2>3. Good(h, k + 1)
    BY <2>2
  <2> HIDE DEF Good, h
  <2>4. (\E u : Good(u, k + 1)) /\ k + 1 \in Nat
    BY <2>3
  <2> QED
    BY <2>4
<1>4. \E g : Good(g, last)
  <2>1. \A n \in 0 .. last - 1 : n \in T => n + 1 \in T
    BY <1>1, <1>3
  <2>2. 0 \in T
    BY <1>2
  <2> HIDE DEF T
  <2>3. \A n \in 0 .. last : n \in T
    BY <1>1, <2>1, <2>2, UpTo
  <2>4. last \in T
    BY <1>1, <2>3
  <2> QED
    BY <2>4 DEF T
<1> DEFINE after == CHOOSE g : Good(g, last)
<1>5. Good(after, last)
  BY <1>4
<1>6. GenerateActions(w) = after[last]
  BY Zenon DEF GenerateActions, ToldOf, first, Grow, last
<1> QED
  BY <1>5, <1>6 DEF first, Grow, last

\* A sequence has the intents of some units, one each.
Lists(w, s, S) ==
  /\ s \in Seq(Intents)
  /\ \A n \in DOMAIN s : s[n].unitIndex \in S /\ s[n] = Intent(w, s[n].unitIndex)
  /\ \A i \in S : \E n \in DOMAIN s : s[n].unitIndex = i
  /\ \A m, n \in DOMAIN s : s[m].unitIndex = s[n].unitIndex => m = n

LEMMA ListsNothing ==
  ASSUME NEW w
  PROVE  Lists(w, <<>>, {})
<1>1. <<>> \in Seq(Intents) /\ DOMAIN <<>> = {}
  BY EmptySeq
<1> QED
  BY <1>1 DEF Lists

LEMMA ListsOneMore ==
  ASSUME NEW w, NEW s, NEW S, Lists(w, s, S),
         NEW i, i \notin S, Intent(w, i) \in Intents, Intent(w, i).unitIndex = i
  PROVE  Lists(w, Append(s, Intent(w, i)), S \cup {i})
<1> DEFINE r == Append(s, Intent(w, i))
<1>1. s \in Seq(Intents) /\ Len(s) \in Nat /\ DOMAIN s = 1 .. Len(s)
  BY LenProperties DEF Lists
<1>2. /\ r \in Seq(Intents) /\ DOMAIN r = 1 .. Len(s) + 1
      /\ r[Len(s) + 1] = Intent(w, i)
      /\ \A n \in DOMAIN s : r[n] = s[n]
  BY <1>1, AppendProperties
<1> HIDE DEF r
<1>3. \A n \in DOMAIN r : n \in DOMAIN s \/ n = Len(s) + 1
  BY <1>1, <1>2
<1>4. \A n \in DOMAIN s : n \in DOMAIN r
  BY <1>1, <1>2
<1>5. Len(s) + 1 \in DOMAIN r
  BY <1>1, <1>2
<1>6. \A n \in DOMAIN r : r[n].unitIndex \in S \cup {i} /\ r[n] = Intent(w, r[n].unitIndex)
  BY <1>2, <1>3 DEF Lists
<1>7. \A k \in S \cup {i} : \E n \in DOMAIN r : r[n].unitIndex = k
  BY <1>2, <1>4, <1>5 DEF Lists
<1>8. \A m, n \in DOMAIN r : r[m].unitIndex = r[n].unitIndex => m = n
  BY <1>2, <1>3 DEF Lists
<1> QED
  BY <1>2, <1>6, <1>7, <1>8 DEF Lists, r

LEMMA ListsOneAfterAnother ==
  ASSUME NEW w, NEW s, NEW S, Lists(w, s, S), NEW t, NEW U, Lists(w, t, U), S \cap U = {}
  PROVE  Lists(w, s \o t, S \cup U)
<1> DEFINE r == s \o t
<1>1. /\ s \in Seq(Intents) /\ Len(s) \in Nat /\ DOMAIN s = 1 .. Len(s)
      /\ t \in Seq(Intents) /\ Len(t) \in Nat /\ DOMAIN t = 1 .. Len(t)
  BY LenProperties DEF Lists
<1>2. /\ r \in Seq(Intents) /\ DOMAIN r = 1 .. Len(s) + Len(t)
      /\ \A n \in 1 .. Len(s) + Len(t) : r[n] = IF n <= Len(s) THEN s[n] ELSE t[n - Len(s)]
  <2>1. r \in Seq(Intents) /\ Len(r) = Len(s) + Len(t)
        /\ \A n \in 1 .. Len(s) + Len(t) : r[n] = IF n <= Len(s) THEN s[n] ELSE t[n - Len(s)]
    BY <1>1, ConcatProperties
  <2> HIDE DEF r
  <2> QED
    BY <2>1, LenProperties
<1> HIDE DEF r
<1>3. \A n \in DOMAIN r : \/ n \in DOMAIN s /\ r[n] = s[n]
                          \/ n - Len(s) \in DOMAIN t /\ r[n] = t[n - Len(s)]
  BY <1>1, <1>2
<1>4. \A n \in DOMAIN s : n \in DOMAIN r /\ r[n] = s[n]
  BY <1>1, <1>2
<1>5. \A n \in DOMAIN t : n + Len(s) \in DOMAIN r /\ r[n + Len(s)] = t[n]
  BY <1>1, <1>2
<1>6. \A n \in DOMAIN r : r[n].unitIndex \in S \cup U /\ r[n] = Intent(w, r[n].unitIndex)
  BY <1>3 DEF Lists
<1>7. \A k \in S \cup U : \E n \in DOMAIN r : r[n].unitIndex = k
  BY <1>4, <1>5 DEF Lists
<1>8. ASSUME NEW m \in DOMAIN r, NEW n \in DOMAIN r, r[m].unitIndex = r[n].unitIndex
      PROVE  m = n
  <2>0. m \in Nat /\ n \in Nat
    BY <1>1, <1>2
  <2>1. CASE /\ m \in DOMAIN s /\ r[m] = s[m]
             /\ n \in DOMAIN s /\ r[n] = s[n]
    BY <1>8, <2>1 DEF Lists
  <2>2. CASE /\ m - Len(s) \in DOMAIN t /\ r[m] = t[m - Len(s)]
             /\ n - Len(s) \in DOMAIN t /\ r[n] = t[n - Len(s)]
    <3>1. m - Len(s) = n - Len(s)
      BY <1>8, <2>2 DEF Lists
    <3> QED
      BY <1>1, <2>0, <3>1
  <2> QED
    BY <1>3, <1>8, <2>1, <2>2 DEF Lists
<1> QED
  BY <1>2, <1>6, <1>7, <1>8 DEF Lists, r

\* A neutral faction has one intent for each of its units,
LEMMA FactionLists ==
  ASSUME NEW w, Sound(w), Living(w), NEW f
  PROVE  Lists(w, GenerateFactionActions(w, f), {i \in Indices(w) : UnitAt(w, i).faction = f})
<1>1. w.order \in Seq(Pointers) /\ Len(w.order) \in Nat /\ Indices(w) = 1 .. Len(w.order)
  BY LenProperties DEF Sound, WorldShape, Indices
<1>2. PICK after : /\ after = [n \in 0 .. Len(w.order) |->
                                IF n = 0 THEN <<>> ELSE Told(w, f, after[n - 1], n)]
                   /\ GenerateFactionActions(w, f) = after[Len(w.order)]
  BY <1>1, FactionLoop
<1> DEFINE Own(n) == {i \in Indices(w) : i <= n /\ UnitAt(w, i).faction = f}
           T == {n \in 0 .. Len(w.order) : Lists(w, after[n], Own(n))}
<1>3. 0 \in T
  <2>1. after[0] = <<>> /\ Own(0) = {} /\ 0 \in 0 .. Len(w.order)
    BY <1>1, <1>2
  <2> HIDE DEF Own
  <2>2. Lists(w, after[0], Own(0))
    BY <2>1, ListsNothing
  <2> QED
    BY <2>1, <2>2
<1>4. ASSUME NEW n \in 0 .. Len(w.order) - 1, n \in T
      PROVE  n + 1 \in T
  <2>1. Lists(w, after[n], Own(n))
    BY <1>4
  <2>2. n + 1 \in 0 .. Len(w.order) /\ n + 1 \in Indices(w) /\ n + 1 # 0 /\ (n + 1) - 1 = n /\ n \in Nat
    BY <1>1
  <2>3. after[n + 1] = Told(w, f, after[n], n + 1)
    BY <1>2, <2>2
  <2>4. Alive(UnitAt(w, n + 1))
    BY <2>2 DEF Living, UnitAt, Sound, VectorExact, Indices, Range
  <2>5. CASE UnitAt(w, n + 1).faction = f
    <3>1. Own(n + 1) = Own(n) \cup {n + 1} /\ n + 1 \notin Own(n)
      BY <1>1, <2>2, <2>5
    <3>2. after[n + 1] = Append(after[n], Intent(w, n + 1))
      BY <2>3, <2>4, <2>5 DEF Told
    <3> HIDE DEF Own
    <3>3. Lists(w, after[n + 1], Own(n + 1))
      BY <2>1, <2>2, <3>1, <3>2, IntentIs, ListsOneMore
    <3> QED
      BY <2>2, <3>3
  <2>6. CASE UnitAt(w, n + 1).faction # f
    <3>1. Own(n + 1) = Own(n)
      BY <1>1, <2>2, <2>6
    <3>2. after[n + 1] = after[n]
      BY <2>3, <2>6 DEF Told
    <3> HIDE DEF Own
    <3> QED
      BY <2>1, <2>2, <3>1, <3>2
  <2> QED
    BY <2>5, <2>6
<1>5. Len(w.order) \in T
  <2> HIDE DEF T
  <2>1. \A n \in 0 .. Len(w.order) : n \in T
    BY <1>1, <1>3, <1>4, UpTo
  <2> QED
    BY <1>1, <2>1
<1>6. Own(Len(w.order)) = {i \in Indices(w) : UnitAt(w, i).faction = f}
  BY <1>1
<1> HIDE DEF Own
<1> QED
  BY <1>2, <1>5, <1>6

\* and all of them together those of all.
LEMMA NeutralsList ==
  ASSUME NEW w, Sound(w), Living(w)
  PROVE  Lists(w, GenerateActions(w),
           {i \in Indices(w) : UnitAt(w, i).faction \in Registered /\ ~IsPlayer[UnitAt(w, i).faction]})
<1> DEFINE last == Len(RegistryOrder)
<1>1. /\ last \in Nat /\ DOMAIN RegistryOrder = 1 .. last
      /\ \A m, n \in 1 .. last : RegistryOrder[m] = RegistryOrder[n] => m = n
      /\ \A f : f \in Registered <=> \E n \in 1 .. last : RegistryOrder[n] = f
  BY NeutralAssumption, LenProperties DEF IsInjective, Range
<1>2. PICK after : /\ after = [n \in 0 .. last |-> IF n = 0 THEN <<>> ELSE ToldOf(w, after[n - 1], n)]
                   /\ GenerateActions(w) = after[last]
  BY RegistryLoop
<1> HIDE DEF last
<1> DEFINE Of(f) == {i \in Indices(w) : UnitAt(w, i).faction = f}
           Before(n) == {i \in Indices(w) : /\ ~IsPlayer[UnitAt(w, i).faction]
                                            /\ \E m \in 1 .. n : RegistryOrder[m] = UnitAt(w, i).faction}
           T == {n \in 0 .. last : Lists(w, after[n], Before(n))}
<1>3. 0 \in T
  <2>1. after[0] = <<>> /\ Before(0) = {} /\ 0 \in 0 .. last
    BY <1>1, <1>2
  <2> HIDE DEF Before
  <2>2. Lists(w, after[0], Before(0))
    BY <2>1, ListsNothing
  <2> QED
    BY <2>1, <2>2
<1>4. ASSUME NEW n \in 0 .. last - 1, n \in T
      PROVE  n + 1 \in T
  <2> DEFINE f == RegistryOrder[n + 1]
  <2>1. Lists(w, after[n], Before(n))
    BY <1>4
  <2>2. n + 1 \in 0 .. last /\ n + 1 \in 1 .. last /\ n + 1 # 0 /\ (n + 1) - 1 = n /\ n \in Nat
    BY <1>1
  <2>3. after[n + 1] = ToldOf(w, after[n], n + 1)
    BY <1>2, <2>2
  <2>4. \A m \in 1 .. n + 1 : m \in 1 .. n \/ m = n + 1
    BY <2>2
  <2>5. \A m \in 1 .. n : m \in 1 .. n + 1 /\ m \in 1 .. last /\ m # n + 1
    BY <1>1, <2>2
  <2>6. n + 1 \in 1 .. n + 1
    BY <2>2
  <2>7. CASE IsPlayer[f]
    <3>1. Before(n + 1) = Before(n)
      BY <2>4, <2>5, <2>7
    <3>2. after[n + 1] = after[n]
      BY <2>3, <2>7 DEF ToldOf
    <3> HIDE DEF Before
    <3> QED
      BY <2>1, <2>2, <3>1, <3>2
  <2>8. CASE ~IsPlayer[f]
    <3>1. Before(n + 1) = Before(n) \cup Of(f)
      BY <2>4, <2>5, <2>6, <2>8
    <3>2. Before(n) \cap Of(f) = {}
      BY <1>1, <2>2, <2>5
    <3>3. after[n + 1] = after[n] \o GenerateFactionActions(w, f)
      BY <2>3, <2>8 DEF ToldOf
    <3>4. Lists(w, GenerateFactionActions(w, f), Of(f))
      BY FactionLists
    <3> HIDE DEF Before, Of
    <3>5. Lists(w, after[n + 1], Before(n + 1))
      BY <2>1, <3>1, <3>2, <3>3, <3>4, ListsOneAfterAnother
    <3> QED
      BY <2>2, <3>5
  <2> QED
    BY <2>7, <2>8
<1>5. last \in T
  <2> HIDE DEF T
  <2>1. \A n \in 0 .. last : n \in T
    BY <1>1, <1>3, <1>4, UpTo
  <2> QED
    BY <1>1, <2>1
<1>6. Before(last) = {i \in Indices(w) : UnitAt(w, i).faction \in Registered /\ ~IsPlayer[UnitAt(w, i).faction]}
  BY <1>1
<1> HIDE DEF Before
<1> QED
  BY <1>2, <1>5, <1>6

\* One of something, and none.
LEMMA CountsOne ==
  ASSUME NEW S, NEW n, \A m : m \in S <=> m = n
  PROVE  Cardinality(S) = 1
<1>1. S = {n}
  OBVIOUS
<1> QED
  BY <1>1, FS_Singleton

\* What NeutralsSee and IntentsCanBeCarriedOut say holds of every sound world,
\* the neutral factions' turn being resolved in it or not.
LEMMA NeutralsDoSee ==
  ASSUME NEW w, Sound(w), Living(w)
  PROVE  NeutralsSee(w)
<1> DEFINE actions == GenerateActions(w)
           Neutral(i) == UnitAt(w, i).faction \in Registered /\ ~IsPlayer[UnitAt(w, i).faction]
           own(i) == {n \in DOMAIN actions : actions[n].unitIndex = i}
<1>1. Lists(w, actions, {i \in Indices(w) : Neutral(i)})
  BY NeutralsList
<1> HIDE DEF actions
<1>2. ASSUME NEW i \in Indices(w)
      PROVE  /\ Cardinality(own(i)) = (IF Neutral(i) THEN 1 ELSE 0)
             /\ \A n \in own(i) :
                  actions[n].type = "Attack"
                    <=> EnemiesNear(w, UnitAt(w, i).tile, UnitAt(w, i).faction) # {}
  <2>1. ASSUME Neutral(i)
        PROVE  Cardinality(own(i)) = 1
    <3>1. PICK n \in DOMAIN actions : actions[n].unitIndex = i
      BY <1>1, <2>1 DEF Lists
    <3>2. \A m : m \in own(i) <=> m = n
      BY <1>1, <3>1 DEF Lists
    <3> HIDE DEF own
    <3> QED
      BY <3>2, CountsOne
  <2>2. ASSUME ~Neutral(i)
        PROVE  Cardinality(own(i)) = 0
    <3>1. own(i) = {}
      BY <1>1, <2>2 DEF Lists
    <3> HIDE DEF own
    <3> QED
      BY <3>1, FS_EmptySet
  <2>3. ASSUME NEW n \in own(i)
        PROVE  actions[n].type = "Attack"
                 <=> EnemiesNear(w, UnitAt(w, i).tile, UnitAt(w, i).faction) # {}
    <3>1. actions[n] = Intent(w, i)
      BY <1>1, <2>3 DEF Lists
    <3> QED
      BY <3>1, IntentIs
  <2>4. Cardinality(own(i)) = (IF Neutral(i) THEN 1 ELSE 0)
    <3> HIDE DEF own, Neutral
    <3> QED
      BY <2>1, <2>2
  <2> QED
    BY <2>3, <2>4
<1> QED
  BY <1>2 DEF NeutralsSee, actions

LEMMA IntentsAreValid ==
  ASSUME NEW w, Sound(w), Living(w)
  PROVE  IntentsCanBeCarriedOut(w)
<1> DEFINE v == [w EXCEPT !.town = ResolveCities(w.town)]
           there == ResolveTurn(w)
           actions == GenerateActions(v)
<1>1. Sound(v) /\ Living(v) /\ v.unit = w.unit /\ v.order = w.order
  BY SameUnits DEF Living, Sound, Fields
<1> HIDE DEF v
<1>2. Lists(v, actions,
        {i \in Indices(v) : UnitAt(v, i).faction \in Registered /\ ~IsPlayer[UnitAt(v, i).faction]})
  BY <1>1, NeutralsList
<1>3. /\ there.order = w.order
      /\ \A p \in DOMAIN w.unit :
           /\ there.unit[p].tile = w.unit[p].tile
           /\ there.unit[p].kind = w.unit[p].kind
           /\ there.unit[p].faction = w.unit[p].faction
           /\ there.unit[p].health = w.unit[p].health
           /\ there.unit[p].moves = Template[w.unit[p].kind].moves
  BY EverybodyRests
<1>4. \A j \in Indices(w) : w.order[j] \in DOMAIN w.unit /\ w.unit[w.order[j]] \in Units
  BY DEF Sound, WorldShape, VectorExact, Indices, Range
<1> HIDE DEF actions, there
<1>5. ASSUME NEW n \in DOMAIN actions, actions[n].type = "Attack"
      PROVE  (\E j \in Indices(there) :
                /\ UnitAt(there, j).tile = actions[n].target
                /\ ValidAttack(there, actions[n].unitIndex, j))
               <=> Template[UnitAt(there, actions[n].unitIndex).kind].range > 0
  <2> DEFINE i == actions[n].unitIndex
  <2>1. i \in Indices(v) /\ actions[n] = Intent(v, i)
    BY <1>2 DEF Lists
  <2> HIDE DEF i
  <2>2. PICK j \in Indices(v) :
          /\ UnitAt(v, j).tile = actions[n].target
          /\ UnitAt(v, j).tile \in Neighbors(UnitAt(v, i).tile)
          /\ <<UnitAt(v, i).faction, UnitAt(v, j).faction>> \in AtWar
    BY <1>1, <1>5, <2>1, IntentIs
  <2> DEFINE a == w.order[i]
             d == w.order[j]
  <2>3. /\ i \in Indices(w) /\ j \in Indices(w)
        /\ a \in DOMAIN w.unit /\ d \in DOMAIN w.unit
        /\ w.unit[a] \in Units /\ w.unit[d] \in Units
        /\ UnitAt(v, i) = w.unit[a] /\ UnitAt(v, j) = w.unit[d]
        /\ UnitAt(there, i) = there.unit[a] /\ UnitAt(there, j) = there.unit[d]
        /\ i \in Indices(there) /\ j \in Indices(there)
    BY <1>1, <1>3, <1>4, <2>1 DEF Indices, UnitAt
  <2> HIDE DEF a, d
  <2>4. Alive(there.unit[a]) /\ Alive(there.unit[d])
    BY <1>3, <2>3 DEF Living, Alive
  <2>5. HexDistance(there.unit[a].tile, there.unit[d].tile) = 1
    BY <1>3, <2>2, <2>3, NeighborsAreInReach DEF Units
  <2>6. /\ there.unit[a].moves >= AttackCost
        /\ Template[there.unit[a].kind].range \in Nat
    BY <1>3, <2>3, NeutralAssumption, CombatAssumption DEF Units, CombatStats
  <2>7. <<there.unit[a].faction, there.unit[d].faction>> \in AtWar
    BY <1>3, <2>2, <2>3
  <2>8. UnitAt(there, j).tile = actions[n].target
    BY <1>3, <2>2, <2>3
  <2>9. ASSUME Template[there.unit[a].kind].range > 0
        PROVE  ValidAttack(there, i, j)
    <3>1. HexDistance(there.unit[a].tile, there.unit[d].tile) <= Template[there.unit[a].kind].range
      BY <2>5, <2>6, <2>9
    <3> QED
      BY <2>3, <2>4, <2>6, <2>7, <3>1 DEF ValidAttack
  <2>10. ASSUME NEW k \in Indices(there), UnitAt(there, k).tile = actions[n].target,
                ValidAttack(there, i, k)
         PROVE  Template[there.unit[a].kind].range > 0
    <3>1. UnitAt(there, k).tile = there.unit[d].tile
      BY <2>3, <2>8, <2>10
    <3>2. 1 <= Template[there.unit[a].kind].range
      BY <2>3, <2>5, <2>10, <3>1 DEF ValidAttack
    <3> QED
      BY <2>6, <3>2
  <2>11. (\E k \in Indices(there) :
            UnitAt(there, k).tile = actions[n].target /\ ValidAttack(there, i, k))
           <=> Template[there.unit[a].kind].range > 0
    BY <2>3, <2>8, <2>9, <2>10
  <2> QED
    BY <2>3, <2>11 DEF i
<1>6. ResolveTurnWithActions(w).world = there /\ ResolveTurnWithActions(w).actions = actions
  BY DEF ResolveTurnWithActions, there, actions, v
<1> QED
  BY <1>5, <1>6 DEF IntentsCanBeCarriedOut

\* Resolved in any world that play on the map leads to, with any armies,
\* the neutral factions' turn has one intent for each of their living units,
\* to attack exactly when an enemy is beside it, and AttackAction accepts what
\* is intended if and only if the unit's kind has any attack range: the scans
\* of the vector and of the registry agree because vector and registry do.
THEOREM NeutralsAlwaysSee == Spec => []NeutralsSeeTheirEnemies
<1>1. SessionInv => NeutralsSeeTheirEnemies
  BY RunsSound, NeutralsDoSee, IntentsAreValid DEF WorldInv, NeutralsSeeTheirEnemies
<1>2. SessionInv /\ [Next]_vars => SessionInv'
  BY SessionStep
<1> QED
  BY <1>1, <1>2, SessionStarts, PTL DEF Spec

-----------------------------------------------------------------------------
(* Predictions: what each operation does to the client's world. *)

\* A world that a client can play in.
Playable(w) == Sound(w) /\ Living(w) /\ w.town \in Towns

AnyAction ==
  [type : {"move"}, unit : Nat, tile : Tiles]
    \cup [type : {"attack"}, unit : Nat, target : Nat]
    \cup [type : {"capture"}, unit : Nat]

Snapshots == [unit : Nat, tile : Tiles, health : Nat \ {0}, moves : Nat]

AnyPrediction == [id : Nat, action : AnyAction, snapshot : Snapshots]

\* The units of a sound world, by their indices.
LEMMA UnitsByIndex ==
  ASSUME NEW w, Sound(w), Living(w), NEW i \in Indices(w)
  PROVE  /\ i \in Nat
         /\ w.order[i] \in DOMAIN w.unit
         /\ w.unit[w.order[i]] \in Units
         /\ UnitAt(w, i) = w.unit[w.order[i]]
         /\ UnitAt(w, i).health \in Nat \ {0}
         /\ \A j \in Indices(w) : w.order[j] = w.order[i] => j = i
<1>1. /\ i \in Nat
      /\ w.order[i] \in DOMAIN w.unit
      /\ w.unit[w.order[i]] \in Units
      /\ UnitAt(w, i) = w.unit[w.order[i]]
      /\ \A j \in Indices(w) : w.order[j] = w.order[i] => j = i
  BY DEF Sound, WorldShape, VectorExact, Indices, Range, UnitAt, IsInjective
<1>2. UnitAt(w, i).health \in Nat \ {0}
  BY <1>1 DEF Living, Alive, Units
<1> QED
  BY <1>1, <1>2

\* A sound world is given by its vector, its units and its towns.
LEMMA SameWorld ==
  ASSUME NEW v, Sound(v), NEW w, Sound(w),
         v.order = w.order, v.town = w.town, DOMAIN v.unit = DOMAIN w.unit,
         \A i \in Indices(w) : v.unit[w.order[i]] = w.unit[w.order[i]]
  PROVE  v = w
<1>1. \A p \in DOMAIN w.unit : v.unit[p] = w.unit[p]
  BY DEF Sound, VectorExact, Indices, Range
<1>2. v.unit = w.unit
  BY <1>1 DEF Sound, WorldShape
<1>3. v.registry = w.registry
  <2>1. ASSUME NEW t \in Tiles
        PROVE  v.registry[t] = w.registry[t]
    <3>1. v.registry[t] = {p \in DOMAIN v.unit : v.unit[p].tile = t}
      BY DEF Sound, RegistryExact
    <3>2. w.registry[t] = {p \in DOMAIN w.unit : w.unit[p].tile = t}
      BY DEF Sound, RegistryExact
    <3> QED
      BY <1>2, <3>1, <3>2
  <2>2. v.registry \in [Tiles -> SUBSET Pointers] /\ w.registry \in [Tiles -> SUBSET Pointers]
    BY DEF Sound, WorldShape
  <2> QED
    BY <2>1, <2>2
<1> QED
  BY <1>2, <1>3 DEF Sound, Fields

\* A unit is a record of six fields.
LEMMA UnitRecord ==
  ASSUME NEW u \in Units
  PROVE  u = [kind |-> u.kind, faction |-> u.faction, tile |-> u.tile, health |-> u.health,
              moves |-> u.moves, xp |-> u.xp]
BY DEF Units

\* A unit after a step.
Walked(u, t) ==
  [kind |-> u.kind, faction |-> u.faction, tile |-> t, health |-> u.health,
   moves |-> u.moves - MoveCost[t], xp |-> u.xp]

LEMMA MoveIs ==
  ASSUME NEW w, Playable(w), NEW i \in Indices(w), NEW t \in Tiles, ValidMove(w, i, t)
  PROVE  /\ Playable(Move(w, i, t))
         /\ Move(w, i, t).order = w.order
         /\ Move(w, i, t).town = w.town
         /\ DOMAIN Move(w, i, t).unit = DOMAIN w.unit
         /\ Move(w, i, t).unit[w.order[i]] = Walked(w.unit[w.order[i]], t)
         /\ \A q \in DOMAIN w.unit \ {w.order[i]} : Move(w, i, t).unit[q] = w.unit[q]
<1> DEFINE p == w.order[i]
           v == Relocate(w, p, t)
           u == [w.unit[p] EXCEPT !.tile = t]
           moved == [v.unit[p] EXCEPT !.moves = @ - MoveCost[t]]
<1>0. Sound(w) /\ Living(w) /\ w.town \in Towns
  BY DEF Playable
<1>1. p \in DOMAIN w.unit /\ w.unit[p] \in Units
  BY <1>0, UnitsByIndex
<1>2. /\ Sound(Move(w, i, t)) /\ Living(Move(w, i, t))
      /\ Move(w, i, t).order = w.order /\ Move(w, i, t).town = w.town
  BY <1>0, MoveSound DEF ValidMove
<1>3. Sound(v) /\ v.unit = [w.unit EXCEPT ![p] = u]
  BY <1>0, <1>1, RelocateSound
<1>4. Move(w, i, t) = [v EXCEPT !.unit = [v.unit EXCEPT ![p] = moved]]
  BY DEF Move, Walk
<1> HIDE DEF p, v, u
<1>5. /\ DOMAIN v.unit = DOMAIN w.unit /\ v.unit[p] = u
      /\ \A q \in DOMAIN w.unit \ {p} : v.unit[q] = w.unit[q]
  BY <1>1, <1>3
<1>6. moved = Walked(w.unit[p], t)
  <2> DEFINE x == w.unit[p]
  <2>1. x = [kind |-> x.kind, faction |-> x.faction, tile |-> x.tile, health |-> x.health,
             moves |-> x.moves, xp |-> x.xp]
    BY <1>1, UnitRecord
  <2>2. u = [x EXCEPT !.tile = t]
    BY DEF u
  <2> HIDE DEF x
  <2>3. u = [kind |-> x.kind, faction |-> x.faction, tile |-> t, health |-> x.health,
             moves |-> x.moves, xp |-> x.xp]
    BY <2>1, <2>2
  <2>4. moved = [kind |-> x.kind, faction |-> x.faction, tile |-> t, health |-> x.health,
                 moves |-> x.moves - MoveCost[t], xp |-> x.xp]
    BY <1>5, <2>3
  <2> QED
    BY <2>4 DEF Walked, x
<1> HIDE DEF moved
<1>7. Move(w, i, t).unit = [v.unit EXCEPT ![p] = moved]
  BY <1>3, <1>4 DEF Sound, Fields
<1> QED
  BY <1>0, <1>1, <1>2, <1>5, <1>6, <1>7 DEF Playable, p

\* A unit as the setters leave it.
Reset(u, values) ==
  [kind |-> u.kind, faction |-> u.faction, tile |-> values.tile,
   health |-> AtMost(values.health, Template[u.kind].health),
   moves |-> AtMost(values.moves, Template[u.kind].moves), xp |-> u.xp]

\* The setters keep any unit alive and within its statistics, whatever unit
\* the values come from.
LEMMA SetUnitIs ==
  ASSUME NEW w, Playable(w), NEW i \in Indices(w), NEW values,
         values.tile \in Tiles, values.health \in Nat \ {0}, values.moves \in Nat
  PROVE  /\ Playable(SetUnit(w, i, values))
         /\ SetUnit(w, i, values).order = w.order
         /\ SetUnit(w, i, values).town = w.town
         /\ DOMAIN SetUnit(w, i, values).unit = DOMAIN w.unit
         /\ SetUnit(w, i, values).unit[w.order[i]] = Reset(w.unit[w.order[i]], values)
         /\ \A q \in DOMAIN w.unit \ {w.order[i]} : SetUnit(w, i, values).unit[q] = w.unit[q]
<1> DEFINE p == w.order[i]
           most == Template[w.unit[p].kind]
           set == [w.unit[p] EXCEPT !.health = AtMost(values.health, most.health),
                                    !.moves = AtMost(values.moves, most.moves)]
           u == [q \in DOMAIN w.unit |-> IF q = p THEN set ELSE w.unit[q]]
           v == [w EXCEPT !.unit = u]
<1>0. Sound(w) /\ Living(w) /\ w.town \in Towns
  BY DEF Playable
<1>1. p \in DOMAIN w.unit /\ w.unit[p] \in Units /\ w.unit \in [DOMAIN w.unit -> Units]
  BY <1>0, UnitsByIndex DEF Sound, WorldShape
<1>2. most \in CombatStats
  BY <1>1, CombatAssumption DEF Units
<1>3. SetUnit(w, i, values) = Relocate(v, p, values.tile)
  BY DEF SetUnit
<1> HIDE DEF p, most
<1>4. /\ set.kind = w.unit[p].kind /\ set.faction = w.unit[p].faction
      /\ set.tile = w.unit[p].tile /\ set.xp = w.unit[p].xp
      /\ set.health = AtMost(values.health, most.health)
      /\ set.moves = AtMost(values.moves, most.moves)
      /\ set = [kind |-> set.kind, faction |-> set.faction, tile |-> set.tile,
                health |-> set.health, moves |-> set.moves, xp |-> set.xp]
  <2> DEFINE x == w.unit[p]
             health == AtMost(values.health, most.health)
             moves == AtMost(values.moves, most.moves)
  <2>1. x = [kind |-> x.kind, faction |-> x.faction, tile |-> x.tile, health |-> x.health,
             moves |-> x.moves, xp |-> x.xp]
    BY <1>1, UnitRecord
  <2>2. set = [x EXCEPT !.health = health, !.moves = moves]
    OBVIOUS
  <2> HIDE DEF x, health, moves, set
  <2>3. set = [kind |-> x.kind, faction |-> x.faction, tile |-> x.tile, health |-> health,
               moves |-> moves, xp |-> x.xp]
    BY <2>1, <2>2
  <2> QED
    BY <2>3 DEF x, health, moves
<1> HIDE DEF set
<1>5. set \in Units /\ set.health > 0
  <2>1. /\ AtMost(values.health, most.health) \in Nat \ {0}
        /\ AtMost(values.health, most.health) <= most.health
        /\ AtMost(values.moves, most.moves) \in Nat
        /\ AtMost(values.moves, most.moves) <= most.moves
    BY <1>2 DEF AtMost, CombatStats
  <2> QED
    BY <1>1, <1>4, <2>1 DEF Units, most
<1>6. u \in [DOMAIN w.unit -> Units] /\ \A q \in DOMAIN w.unit : u[q].tile = w.unit[q].tile
  BY <1>1, <1>4, <1>5
<1> HIDE DEF u
<1>7. Sound(v) /\ v.order = w.order /\ v.unit = u /\ v.town = w.town
  BY <1>0, <1>6, SamePlaces
<1> HIDE DEF v
<1>8. DOMAIN v.unit = DOMAIN w.unit
  BY <1>6, <1>7
<1>9. /\ Sound(Relocate(v, p, values.tile))
      /\ Relocate(v, p, values.tile).unit = [v.unit EXCEPT ![p].tile = values.tile]
      /\ Relocate(v, p, values.tile).order = v.order
      /\ Relocate(v, p, values.tile).town = v.town
  BY <1>1, <1>7, <1>8, RelocateSound
<1>10. /\ v.unit[p] = set
       /\ \A q \in DOMAIN w.unit \ {p} : v.unit[q] = w.unit[q]
  BY <1>1, <1>7 DEF u
<1> DEFINE r == [set EXCEPT !.tile = values.tile]
<1>11. r = Reset(w.unit[p], values) /\ r.health > 0
  BY <1>4, <1>5 DEF Reset, most
<1>12. [v.unit EXCEPT ![p].tile = values.tile] = [v.unit EXCEPT ![p] = r]
  BY <1>10
<1> HIDE DEF r
<1>13. \A q \in DOMAIN w.unit : Alive([v.unit EXCEPT ![p] = r][q])
  BY <1>0, <1>1, <1>8, <1>10, <1>11 DEF Living, Alive
<1> QED
  BY <1>0, <1>1, <1>3, <1>7, <1>8, <1>9, <1>10, <1>11, <1>12, <1>13 DEF Playable, Living, p

\* Actions that are executed leave a playable world.
LEMMA ExecuteSound ==
  ASSUME NEW w, Playable(w), NEW a \in AnyAction, Executes(w, a)
  PROVE  Playable(Execute(w, a)) /\ a.unit \in Indices(w)
<1>0. Sound(w) /\ Living(w) /\ w.town \in Towns
  BY DEF Playable
<1>1. CASE a.type = "move"
  <2>1. ValidMove(w, a.unit, a.tile) /\ a.tile \in Tiles
    BY <1>1 DEF Executes, AnyAction
  <2>2. a.unit \in Indices(w)
    BY <2>1 DEF ValidMove
  <2>3. Playable(Move(w, a.unit, a.tile))
    BY <2>1, <2>2, MoveIs
  <2>4. Execute(w, a) = Move(w, a.unit, a.tile)
    BY <1>1 DEF Execute
  <2> QED
    BY <2>2, <2>3, <2>4
<1>2. CASE a.type = "attack"
  <2>1. ValidAttack(w, a.unit, a.target)
    BY <1>2 DEF Executes
  <2>2. a.unit \in Indices(w) /\ a.target \in Indices(w)
    BY <2>1 DEF ValidAttack
  <2>3. Playable(AttackUnit(w, a.unit, a.target))
    BY <1>0, <2>1, <2>2, AttackSound DEF Playable
  <2>4. Execute(w, a) = AttackUnit(w, a.unit, a.target)
    BY <1>2 DEF Execute
  <2> QED
    BY <2>2, <2>3, <2>4
<1>3. CASE a.type = "capture"
  <2>1. ValidCapture(w, a.unit)
    BY <1>3 DEF Executes
  <2>2. a.unit \in Indices(w)
    BY <2>1 DEF ValidCapture
  <2> DEFINE u == UnitAt(w, a.unit)
             c == CityCenteredAt(u.tile)
             town == HandedOver(w.town, c, u.faction)
  <2>3. u.faction \in Factions
    BY <1>0, <2>2, UnitsByIndex DEF Units
  <2>4. c \in Cities
    BY <2>1, CityCenteredAtProperties DEF ValidCapture
  <2>5. Capture(w, a.unit) = [w EXCEPT !.town = town]
    BY DEF Capture, HandedOver
  <2> HIDE DEF u, c
  <2>6. town \in Towns
    BY <1>0, <2>3, <2>4, HandoverType
  <2> HIDE DEF town
  <2>7. Playable(Capture(w, a.unit))
    BY <1>0, <2>5, <2>6, TownSound DEF Playable
  <2>8. Execute(w, a) = Capture(w, a.unit)
    BY <1>3 DEF Execute
  <2> QED
    BY <2>2, <2>7, <2>8
<1> QED
  BY <1>1, <1>2, <1>3 DEF AnyAction

-----------------------------------------------------------------------------
(* Predictions: the three loops, as functions that grow by one iteration. *)

\* The loop of rollback, newest prediction first.
LEMMA RollbackRecursion ==
  ASSUME NEW w, NEW s, Len(s) \in Nat
  PROVE  \E after :
           /\ after = [n \in 0 .. Len(s) |->
                        IF n = 0 THEN w ELSE RollbackPrediction(after[n - 1], s[Len(s) + 1 - n].snapshot)]
           /\ RollbackAll(w, s) = after[Len(s)]
<1> DEFINE first == w
           Grow(x, n) == RollbackPrediction(x, s[Len(s) + 1 - n].snapshot)
           Good(g, k) == g = [n \in 0 .. k |-> IF n = 0 THEN first ELSE Grow(g[n - 1], n)]
           T == {k \in Nat : \E g : Good(g, k)}
           last == Len(s)
<1>1. last \in Nat
  OBVIOUS
<1> HIDE DEF first, Grow, last
<1>2. 0 \in T
  <2> DEFINE g == [n \in 0 .. 0 |-> first]
  <2>1. Good(g, 0)
    OBVIOUS
  <2> QED
    BY <2>1
<1>3. ASSUME NEW k \in Nat, k \in T
      PROVE  k + 1 \in T
  <2>1. PICK g : Good(g, k)
    BY <1>3
  <2> DEFINE h == [n \in 0 .. k + 1 |-> IF n = k + 1 THEN Grow(g[k], k + 1) ELSE g[n]]
  <2>2. ASSUME NEW n \in 0 .. k + 1
        PROVE  h[n] = IF n = 0 THEN first ELSE Grow(h[n - 1], n)
    <3>1. CASE n = k + 1
      <4>1. h[n] = Grow(g[k], n) /\ h[n - 1] = g[k]
        BY <3>1
      <4> QED
        BY <3>1, <4>1
    <3>2. CASE n # k + 1
      <4>1. n \in 0 .. k /\ h[n] = g[n]
        BY <2>2, <3>2
      <4>2. g[n] = IF n = 0 THEN first ELSE Grow(g[n - 1], n)
        BY <2>1, <4>1
      <4>3. n # 0 => h[n - 1] = g[n - 1]
        BY <4>1
      <4> QED
        BY <4>1, <4>2, <4>3
    <3> QED
      BY <3>1, <3>2
  <2>3. Good(h, k + 1)
    BY <2>2
  <2> HIDE DEF Good, h
  <2>4. (\E u : Good(u, k + 1)) /\ k + 1 \in Nat
    BY <2>3
  <2> QED
    BY <2>4
<1>4. \E g : Good(g, last)
  <2>1. \A n \in 0 .. last - 1 : n \in T => n + 1 \in T
    BY <1>1, <1>3
  <2>2. 0 \in T
    BY <1>2
  <2> HIDE DEF T
  <2>3. \A n \in 0 .. last : n \in T
    BY <1>1, <2>1, <2>2, UpTo
  <2>4. last \in T
    BY <1>1, <2>3
  <2> QED
    BY <2>4 DEF T
<1> DEFINE after == CHOOSE g : Good(g, last)
<1>5. Good(after, last)
  BY <1>4
<1>6. RollbackAll(w, s) = after[last]
  BY Zenon DEF RollbackAll, first, Grow, last
<1> QED
  BY <1>5, <1>6 DEF first, Grow, last

\* The loop that applies predictions again.
LEMMA ReapplyRecursion ==
  ASSUME NEW w, NEW s, Len(s) \in Nat
  PROVE  \E after :
           /\ after = [n \in 0 .. Len(s) |->
                        IF n = 0 THEN [world |-> w, pending |-> <<>>] ELSE Follow(after[n - 1], s[n])]
           /\ Reapply(w, s) = after[Len(s)]
<1> DEFINE first == [world |-> w, pending |-> <<>>]
           Grow(x, n) == Follow(x, s[n])
           Good(g, k) == g = [n \in 0 .. k |-> IF n = 0 THEN first ELSE Grow(g[n - 1], n)]
           T == {k \in Nat : \E g : Good(g, k)}
           last == Len(s)
<1>1. last \in Nat
  OBVIOUS
<1> HIDE DEF first, Grow, last
<1>2. 0 \in T
  <2> DEFINE g == [n \in 0 .. 0 |-> first]
  <2>1. Good(g, 0)
    OBVIOUS
  <2> QED
    BY <2>1
<1>3. ASSUME NEW k \in Nat, k \in T
      PROVE  k + 1 \in T
  <2>1. PICK g : Good(g, k)
    BY <1>3
  <2> DEFINE h == [n \in 0 .. k + 1 |-> IF n = k + 1 THEN Grow(g[k], k + 1) ELSE g[n]]
  <2>2. ASSUME NEW n \in 0 .. k + 1
        PROVE  h[n] = IF n = 0 THEN first ELSE Grow(h[n - 1], n)
    <3>1. CASE n = k + 1
      <4>1. h[n] = Grow(g[k], n) /\ h[n - 1] = g[k]
        BY <3>1
      <4> QED
        BY <3>1, <4>1
    <3>2. CASE n # k + 1
      <4>1. n \in 0 .. k /\ h[n] = g[n]
        BY <2>2, <3>2
      <4>2. g[n] = IF n = 0 THEN first ELSE Grow(g[n - 1], n)
        BY <2>1, <4>1
      <4>3. n # 0 => h[n - 1] = g[n - 1]
        BY <4>1
      <4> QED
        BY <4>1, <4>2, <4>3
    <3> QED
      BY <3>1, <3>2
  <2>3. Good(h, k + 1)
    BY <2>2
  <2> HIDE DEF Good, h
  <2>4. (\E u : Good(u, k + 1)) /\ k + 1 \in Nat
    BY <2>3
  <2> QED
    BY <2>4
<1>4. \E g : Good(g, last)
  <2>1. \A n \in 0 .. last - 1 : n \in T => n + 1 \in T
    BY <1>1, <1>3
  <2>2. 0 \in T
    BY <1>2
  <2> HIDE DEF T
  <2>3. \A n \in 0 .. last : n \in T
    BY <1>1, <2>1, <2>2, UpTo
  <2>4. last \in T
    BY <1>1, <2>3
  <2> QED
    BY <2>4 DEF T
<1> DEFINE after == CHOOSE g : Good(g, last)
<1>5. Good(after, last)
  BY <1>4
<1>6. Reapply(w, s) = after[last]
  BY Zenon DEF Reapply, first, Grow, last
<1> QED
  BY <1>5, <1>6 DEF first, Grow, last

\* The loop that copies units index by index.
LEMMA SynchronizeRecursion ==
  ASSUME NEW w, NEW from, AtMost(Len(w.order), Len(from.order)) \in Nat
  PROVE  \E after :
           /\ after = [n \in 0 .. AtMost(Len(w.order), Len(from.order)) |->
                        IF n = 0 THEN w ELSE SetUnit(after[n - 1], n, UnitAt(from, n))]
           /\ Synchronize(w, from) = after[AtMost(Len(w.order), Len(from.order))]
<1> DEFINE first == w
           Grow(x, n) == SetUnit(x, n, UnitAt(from, n))
           Good(g, k) == g = [n \in 0 .. k |-> IF n = 0 THEN first ELSE Grow(g[n - 1], n)]
           T == {k \in Nat : \E g : Good(g, k)}
           last == AtMost(Len(w.order), Len(from.order))
<1>1. last \in Nat
  OBVIOUS
<1> HIDE DEF first, Grow, last
<1>2. 0 \in T
  <2> DEFINE g == [n \in 0 .. 0 |-> first]
  <2>1. Good(g, 0)
    OBVIOUS
  <2> QED
    BY <2>1
<1>3. ASSUME NEW k \in Nat, k \in T
      PROVE  k + 1 \in T
  <2>1. PICK g : Good(g, k)
    BY <1>3
  <2> DEFINE h == [n \in 0 .. k + 1 |-> IF n = k + 1 THEN Grow(g[k], k + 1) ELSE g[n]]
  <2>2. ASSUME NEW n \in 0 .. k + 1
        PROVE  h[n] = IF n = 0 THEN first ELSE Grow(h[n - 1], n)
    <3>1. CASE n = k + 1
      <4>1. h[n] = Grow(g[k], n) /\ h[n - 1] = g[k]
        BY <3>1
      <4> QED
        BY <3>1, <4>1
    <3>2. CASE n # k + 1
      <4>1. n \in 0 .. k /\ h[n] = g[n]
        BY <2>2, <3>2
      <4>2. g[n] = IF n = 0 THEN first ELSE Grow(g[n - 1], n)
        BY <2>1, <4>1
      <4>3. n # 0 => h[n - 1] = g[n - 1]
        BY <4>1
      <4> QED
        BY <4>1, <4>2, <4>3
    <3> QED
      BY <3>1, <3>2
  <2>3. Good(h, k + 1)
    BY <2>2
  <2> HIDE DEF Good, h
  <2>4. (\E u : Good(u, k + 1)) /\ k + 1 \in Nat
    BY <2>3
  <2> QED
    BY <2>4
<1>4. \E g : Good(g, last)
  <2>1. \A n \in 0 .. last - 1 : n \in T => n + 1 \in T
    BY <1>1, <1>3
  <2>2. 0 \in T
    BY <1>2
  <2> HIDE DEF T
  <2>3. \A n \in 0 .. last : n \in T
    BY <1>1, <2>1, <2>2, UpTo
  <2>4. last \in T
    BY <1>1, <2>3
  <2> QED
    BY <2>4 DEF T
<1> DEFINE after == CHOOSE g : Good(g, last)
<1>5. Good(after, last)
  BY <1>4
<1>6. Synchronize(w, from) = after[last]
  BY Zenon DEF Synchronize, first, Grow, last
<1> QED
  BY <1>5, <1>6 DEF first, Grow, last

-----------------------------------------------------------------------------
(* Predictions: the client's world stays sound, and its list in order. *)

\* Going back to a snapshot keeps a world playable, whichever unit its index
\* names by now.
LEMMA RollbackSound ==
  ASSUME NEW w, Playable(w), NEW x \in Snapshots
  PROVE  Playable(RollbackPrediction(w, x))
BY SetUnitIs DEF RollbackPrediction, Snapshots

LEMMA RollbackAllSound ==
  ASSUME NEW w, Playable(w), NEW s \in Seq(AnyPrediction)
  PROVE  Playable(RollbackAll(w, s))
<1>1. Len(s) \in Nat /\ \A n \in 1 .. Len(s) : s[n] \in AnyPrediction
  BY LenProperties, ElementOfSeq
<1>2. PICK after :
        /\ after = [n \in 0 .. Len(s) |->
                     IF n = 0 THEN w
                     ELSE RollbackPrediction(after[n - 1], s[Len(s) + 1 - n].snapshot)]
        /\ RollbackAll(w, s) = after[Len(s)]
  BY <1>1, RollbackRecursion
<1> DEFINE T == {n \in 0 .. Len(s) : Playable(after[n])}
<1>3. 0 \in T
  BY <1>1, <1>2
<1>4. ASSUME NEW n \in 0 .. Len(s) - 1, n \in T
      PROVE  n + 1 \in T
  <2>1. n + 1 \in 1 .. Len(s) /\ n + 1 # 0 /\ (n + 1) - 1 = n
    BY <1>1
  <2>2. after[n + 1] = RollbackPrediction(after[n], s[Len(s) + 1 - (n + 1)].snapshot)
    BY <1>2, <2>1
  <2>3. s[Len(s) + 1 - (n + 1)].snapshot \in Snapshots
    BY <1>1, <2>1 DEF AnyPrediction
  <2>4. Playable(after[n + 1])
    BY <1>4, <2>2, <2>3, RollbackSound
  <2> QED
    BY <2>1, <2>4
<1> HIDE DEF T
<1>5. \A n \in 0 .. Len(s) : n \in T
  BY <1>1, <1>3, <1>4, UpTo
<1> QED
  BY <1>1, <1>2, <1>5 DEF T

\* So does taking over the units of the server, index by index.
LEMMA SynchronizeSound ==
  ASSUME NEW w, Playable(w), NEW from, Sound(from), Living(from)
  PROVE  Playable(Synchronize(w, from))
<1> DEFINE common == AtMost(Len(w.order), Len(from.order))
<1>1. /\ Len(w.order) \in Nat /\ DOMAIN w.order = 1 .. Len(w.order)
      /\ Len(from.order) \in Nat /\ DOMAIN from.order = 1 .. Len(from.order)
  BY LenProperties DEF Playable, Sound, WorldShape
<1>2. /\ common \in Nat
      /\ \A n \in 1 .. common : n \in Indices(w) /\ n \in Indices(from)
  BY <1>1 DEF AtMost, Indices
<1>3. PICK after :
        /\ after = [n \in 0 .. common |->
                     IF n = 0 THEN w ELSE SetUnit(after[n - 1], n, UnitAt(from, n))]
        /\ Synchronize(w, from) = after[common]
  BY <1>2, SynchronizeRecursion
<1> HIDE DEF common
<1> DEFINE T == {n \in 0 .. common : Playable(after[n]) /\ after[n].order = w.order}
<1>4. 0 \in T
  BY <1>2, <1>3
<1>5. ASSUME NEW n \in 0 .. common - 1, n \in T
      PROVE  n + 1 \in T
  <2>1. n + 1 \in 1 .. common /\ n + 1 # 0 /\ (n + 1) - 1 = n
    BY <1>2
  <2>2. after[n + 1] = SetUnit(after[n], n + 1, UnitAt(from, n + 1))
    <3>1. n + 1 \in 0 .. common
      BY <1>2, <2>1
    <3>2. after[n + 1] = SetUnit(after[(n + 1) - 1], n + 1, UnitAt(from, n + 1))
      BY <1>3, <2>1, <3>1, Zenon
    <3> QED
      BY <2>1, <3>2
  <2>3. n + 1 \in Indices(after[n]) /\ n + 1 \in Indices(from)
    BY <1>2, <1>5, <2>1 DEF Indices
  <2> DEFINE u == UnitAt(from, n + 1)
  <2>4. u.tile \in Tiles /\ u.health \in Nat \ {0} /\ u.moves \in Nat
    BY <2>3, UnitsByIndex DEF Units
  <2> HIDE DEF u
  <2>5. Playable(SetUnit(after[n], n + 1, u)) /\ SetUnit(after[n], n + 1, u).order = w.order
    BY <1>5, <2>3, <2>4, SetUnitIs
  <2> QED
    BY <2>1, <2>2, <2>5 DEF u
<1> HIDE DEF T
<1>6. \A n \in 0 .. common : n \in T
  BY <1>2, <1>4, <1>5, UpTo
<1> QED
  BY <1>2, <1>3, <1>6 DEF T

\* Predictions whose ids increase.
InOrder(s) == \A m, n \in DOMAIN s : m < n => s[m].id < s[n].id

\* What is applied again is a part of what was asked for, in its order.
LEMMA ReapplySound ==
  ASSUME NEW w, Playable(w), NEW s \in Seq(AnyPrediction), InOrder(s)
  PROVE  /\ Playable(Reapply(w, s).world)
         /\ Reapply(w, s).pending \in Seq(AnyPrediction)
         /\ InOrder(Reapply(w, s).pending)
         /\ \A k \in DOMAIN Reapply(w, s).pending :
              \E m \in DOMAIN s : Reapply(w, s).pending[k] = s[m]
<1>1. /\ Len(s) \in Nat /\ DOMAIN s = 1 .. Len(s)
      /\ \A n \in 1 .. Len(s) : s[n] \in AnyPrediction
  BY LenProperties, ElementOfSeq
<1>2. PICK after :
        /\ after = [n \in 0 .. Len(s) |->
                     IF n = 0 THEN [world |-> w, pending |-> <<>>]
                     ELSE Follow(after[n - 1], s[n])]
        /\ Reapply(w, s) = after[Len(s)]
  BY <1>1, ReapplyRecursion
<1> DEFINE Part(g, n) ==
             /\ Playable(g.world)
             /\ g.pending \in Seq(AnyPrediction)
             /\ InOrder(g.pending)
             /\ \A k \in DOMAIN g.pending : \E m \in 1 .. n : g.pending[k] = s[m]
           T == {n \in 0 .. Len(s) : Part(after[n], n)}
<1>3. 0 \in T
  <2>1. after[0] = [world |-> w, pending |-> <<>>]
    BY <1>1, <1>2
  <2>2. after[0].world = w /\ after[0].pending = <<>> /\ <<>> \in Seq(AnyPrediction)
        /\ DOMAIN <<>> = {}
    BY <2>1
  <2>3. Part(after[0], 0)
    BY <2>2 DEF InOrder
  <2> QED
    BY <1>1, <2>3
<1>4. ASSUME NEW n \in 0 .. Len(s) - 1, n \in T
      PROVE  n + 1 \in T
  <2> DEFINE g == after[n]
             p == s[n + 1]
  <2>1. n \in Nat /\ n + 1 \in 1 .. Len(s) /\ n + 1 # 0 /\ (n + 1) - 1 = n
    BY <1>1
  <2>2. after[n + 1] = Follow(g, p)
    BY <1>2, <2>1
  <2>3. Part(g, n) /\ p \in AnyPrediction
    BY <1>1, <1>4, <2>1
  <2> HIDE DEF g, p
  <2>4. ASSUME Executes(g.world, p.action)
        PROVE  Part(Follow(g, p), n + 1)
    <3> DEFINE v == Execute(g.world, p.action)
               q == Append(g.pending, p)
    <3>1. Follow(g, p) = [world |-> v, pending |-> q]
      BY <2>4 DEF Follow
    <3>2. Playable(v)
      BY <2>3, <2>4, ExecuteSound DEF AnyPrediction
    <3>3. /\ q \in Seq(AnyPrediction)
          /\ Len(g.pending) \in Nat
          /\ DOMAIN g.pending = 1 .. Len(g.pending)
          /\ DOMAIN q = 1 .. Len(g.pending) + 1
          /\ q[Len(g.pending) + 1] = p
          /\ \A k \in DOMAIN g.pending : q[k] = g.pending[k]
      BY <2>3, AppendProperties, LenProperties
    <3> HIDE DEF v, q
    <3>4. ASSUME NEW k \in DOMAIN q
          PROVE  \E m \in 1 .. n + 1 : q[k] = s[m]
      <4>1. CASE k = Len(g.pending) + 1
        BY <2>1, <3>3, <4>1 DEF p
      <4>2. CASE k \in DOMAIN g.pending
        <5>1. PICK m \in 1 .. n : g.pending[k] = s[m]
          BY <2>3, <4>2
        <5> QED
          BY <2>1, <3>3, <4>2, <5>1
      <4> QED
        BY <3>3, <4>1, <4>2
    <3>5. InOrder(q)
      <4> SUFFICES ASSUME NEW a \in DOMAIN q, NEW b \in DOMAIN q, a < b
                   PROVE  q[a].id < q[b].id
        BY DEF InOrder
      <4>1. a \in DOMAIN g.pending /\ q[a] = g.pending[a]
        BY <3>3
      <4>2. CASE b \in DOMAIN g.pending
        BY <2>3, <3>3, <4>1, <4>2 DEF InOrder
      <4>3. CASE b = Len(g.pending) + 1
        <5>1. PICK m \in 1 .. n : g.pending[a] = s[m]
          BY <2>3, <4>1
        <5>2. m \in DOMAIN s /\ n + 1 \in DOMAIN s /\ m < n + 1
          BY <1>1, <2>1, <5>1
        <5>3. s[m].id < s[n + 1].id
          BY <5>2 DEF InOrder
        <5> QED
          BY <3>3, <4>1, <4>3, <5>1, <5>3 DEF p
      <4> QED
        BY <3>3, <4>2, <4>3
    <3> QED
      BY <3>1, <3>2, <3>3, <3>4, <3>5
  <2>5. ASSUME ~Executes(g.world, p.action)
        PROVE  Part(Follow(g, p), n + 1)
    <3>1. Follow(g, p) = g
      BY <2>5 DEF Follow
    <3>2. \A m \in 1 .. n : m \in 1 .. n + 1
      BY <2>1
    <3> QED
      BY <2>3, <3>1, <3>2
  <2> QED
    BY <2>1, <2>2, <2>4, <2>5
<1> HIDE DEF T
<1>5. \A n \in 0 .. Len(s) : n \in T
  BY <1>1, <1>3, <1>4, UpTo
<1>6. Len(s) \in T
  BY <1>1, <1>5
<1> QED
  BY <1>1, <1>2, <1>6 DEF T

-----------------------------------------------------------------------------
(* Predictions: moves of the client's own units, one each.  What the client  *)
(* shows is then the confirmed world with some of these moves laid over it,  *)
(* and one move has no bearing on the others: zones of control are those of  *)
(* enemies, and enemies do not move.                                         *)

\* A is a set of moves, pairs of a unit's index and a tile, that can all be
\* made in w by units of the client, one move per unit.
Plans(w, A) ==
  /\ \A x \in A : /\ x[1] \in Indices(w) /\ x[2] \in Tiles
                  /\ ValidMove(w, x[1], x[2])
                  /\ UnitAt(w, x[1]).faction = Mine
  /\ \A x, y \in A : x[1] = y[1] => x = y

Rests(A, i) == \A x \in A : x[1] # i

\* v is w after the moves of A.
Overlay(v, w, A) ==
  /\ v.order = w.order /\ v.town = w.town /\ DOMAIN v.unit = DOMAIN w.unit
  /\ \A x \in A : v.unit[w.order[x[1]]] = Walked(w.unit[w.order[x[1]]], x[2])
  /\ \A i \in Indices(w) : Rests(A, i) => v.unit[w.order[i]] = w.unit[w.order[i]]

LEMMA OverlayNothing ==
  ASSUME NEW w
  PROVE  Overlay(w, w, {})
BY DEF Overlay

LEMMA OverlayUnique ==
  ASSUME NEW w, Playable(w), NEW u, Playable(u), NEW v, Playable(v), NEW A,
         Overlay(u, w, A), Overlay(v, w, A)
  PROVE  u = v
<1>1. ASSUME NEW i \in Indices(v)
      PROVE  u.unit[v.order[i]] = v.unit[v.order[i]]
  <2>1. i \in Indices(w)
    BY DEF Overlay, Indices
  <2>2. CASE Rests(A, i)
    BY <2>1, <2>2 DEF Overlay
  <2>3. CASE ~Rests(A, i)
    <3>1. PICK x \in A : x[1] = i
      BY <2>3 DEF Rests
    <3> QED
      BY <3>1 DEF Overlay
  <2> QED
    BY <2>2, <2>3
<1> QED
  BY <1>1, SameWorld DEF Overlay, Playable

\* Under an overlay the enemies are where they were.
LEMMA SameEnemies ==
  ASSUME NEW w, Playable(w), NEW v, Playable(v), NEW A, Plans(w, A), Overlay(v, w, A),
         NEW t \in Tiles, Mine \in Factions
  PROVE  EnemiesNear(v, t, Mine) = EnemiesNear(w, t, Mine)
<1>0. Sound(w) /\ Living(w) /\ Sound(v) /\ Living(v)
  BY DEF Playable
<1>1. ASSUME NEW p \in DOMAIN w.unit
      PROVE  /\ v.unit[p].faction = w.unit[p].faction
             /\ w.unit[p].faction # Mine => v.unit[p].tile = w.unit[p].tile
  <2>1. PICK i \in Indices(w) : w.order[i] = p
    BY <1>0 DEF Sound, VectorExact, Indices, Range
  <2>2. CASE Rests(A, i)
    BY <2>1, <2>2 DEF Overlay
  <2>3. CASE ~Rests(A, i)
    <3>1. PICK x \in A : x[1] = i
      BY <2>3 DEF Rests
    <3>2. v.unit[p] = Walked(w.unit[p], x[2])
      BY <2>1, <3>1 DEF Overlay
    <3>3. w.unit[p].faction = Mine
      BY <2>1, <3>1 DEF Plans, UnitAt
    <3>4. v.unit[p].faction = w.unit[p].faction
      BY <3>2 DEF Walked
    <3> QED
      BY <3>3, <3>4
  <2> QED
    BY <2>2, <2>3
<1>2. \A n \in Neighbors(t) : n \in Tiles
  BY DEF Neighbors
<1>3. ASSUME NEW g \in Factions, <<Mine, g>> \in AtWar, NEW n \in Neighbors(t)
      PROVE  (\E p \in v.registry[n] : v.unit[p].faction = g)
               <=> (\E p \in w.registry[n] : w.unit[p].faction = g)
  <2>1. g # Mine
    BY <1>3, WorldAssumption
  <2>2. /\ v.registry[n] = {p \in DOMAIN v.unit : v.unit[p].tile = n}
        /\ w.registry[n] = {p \in DOMAIN w.unit : w.unit[p].tile = n}
    BY <1>0, <1>2 DEF Sound, RegistryExact
  <2>3. DOMAIN v.unit = DOMAIN w.unit
    BY DEF Overlay
  <2> QED
    BY <1>1, <2>1, <2>2, <2>3
<1> QED
  BY <1>3 DEF EnemiesNear

\* So a unit that has not moved can make the same moves as before.
LEMMA SameMoves ==
  ASSUME NEW w, Playable(w), NEW v, Playable(v), NEW A, Plans(w, A), Overlay(v, w, A),
         NEW i \in Indices(w), Rests(A, i), UnitAt(w, i).faction = Mine, NEW t \in Tiles
  PROVE  ValidMove(v, i, t) <=> ValidMove(w, i, t)
<1>1. UnitAt(v, i) = UnitAt(w, i) /\ i \in Indices(v)
  BY DEF Overlay, UnitAt, Indices
<1>2. UnitAt(w, i).tile \in Tiles /\ Mine \in Factions
  BY UnitsByIndex DEF Playable, Units
<1>3. /\ EnemiesNear(v, t, Mine) = EnemiesNear(w, t, Mine)
      /\ EnemiesNear(v, UnitAt(w, i).tile, Mine) = EnemiesNear(w, UnitAt(w, i).tile, Mine)
  BY <1>2, SameEnemies
<1>4. BlockedByZoc(v, UnitAt(w, i).tile, t, Mine) <=> BlockedByZoc(w, UnitAt(w, i).tile, t, Mine)
  BY <1>3 DEF BlockedByZoc
<1> QED
  BY <1>1, <1>4 DEF ValidMove

\* One more move.
LEMMA OverlayMore ==
  ASSUME NEW w, Playable(w), NEW v, Playable(v), NEW A, Plans(w, A), Overlay(v, w, A),
         NEW i \in Indices(w), Rests(A, i), NEW t \in Tiles, ValidMove(v, i, t)
  PROVE  Playable(Move(v, i, t)) /\ Overlay(Move(v, i, t), w, A \cup {<<i, t>>})
<1> DEFINE m == Move(v, i, t)
           B == A \cup {<<i, t>>}
           p == w.order[i]
<1>1. i \in Indices(v) /\ v.order = w.order /\ DOMAIN v.unit = DOMAIN w.unit /\ v.town = w.town
  BY DEF Overlay, Indices
<1>2. /\ Playable(m) /\ m.order = w.order /\ m.town = w.town /\ DOMAIN m.unit = DOMAIN w.unit
      /\ m.unit[p] = Walked(v.unit[p], t)
      /\ \A q \in DOMAIN w.unit \ {p} : m.unit[q] = v.unit[q]
  BY <1>1, MoveIs
<1>3. v.unit[p] = w.unit[p]
  BY DEF Overlay
<1>4. \A j \in Indices(w) : /\ w.order[j] \in DOMAIN w.unit
                            /\ j # i => w.order[j] # p
  BY UnitsByIndex DEF Playable
<1> HIDE DEF m
<1>5. ASSUME NEW x \in B
      PROVE  m.unit[w.order[x[1]]] = Walked(w.unit[w.order[x[1]]], x[2])
  <2>1. CASE x = <<i, t>>
    BY <1>2, <1>3, <2>1
  <2>2. CASE x \in A
    <3>1. x[1] # i /\ x[1] \in Indices(w)
      BY <2>2 DEF Rests, Plans
    <3>2. m.unit[w.order[x[1]]] = v.unit[w.order[x[1]]]
      BY <1>2, <1>4, <3>1
    <3> QED
      BY <2>2, <3>2 DEF Overlay
  <2> QED
    BY <2>1, <2>2
<1>6. ASSUME NEW j \in Indices(w), Rests(B, j)
      PROVE  m.unit[w.order[j]] = w.unit[w.order[j]]
  <2>1. Rests(A, j)
    BY <1>6 DEF Rests
  <2>2. <<i, t>> \in B /\ <<i, t>>[1] = i
    OBVIOUS
  <2>3. j # i
    BY <1>6, <2>2 DEF Rests
  <2> QED
    BY <1>2, <1>4, <2>1, <2>3 DEF Overlay
<1> QED
  BY <1>2, <1>5, <1>6 DEF Overlay, m

\* One move undone with the unit's record.
LEMMA OverlayLess ==
  ASSUME NEW w, Playable(w), NEW v, Playable(v), NEW A, Plans(w, A), Overlay(v, w, A),
         NEW x \in A, NEW values,
         values.tile = UnitAt(w, x[1]).tile,
         values.health = UnitAt(w, x[1]).health,
         values.moves = UnitAt(w, x[1]).moves
  PROVE  Playable(SetUnit(v, x[1], values)) /\ Overlay(SetUnit(v, x[1], values), w, A \ {x})
<1> DEFINE i == x[1]
           p == w.order[i]
           m == SetUnit(v, i, values)
           B == A \ {x}
<1>1. /\ i \in Indices(w) /\ i \in Indices(v) /\ v.order = w.order
      /\ DOMAIN v.unit = DOMAIN w.unit /\ v.town = w.town
  BY DEF Overlay, Indices, Plans
<1>2. /\ w.unit[p] \in Units /\ UnitAt(w, i) = w.unit[p] /\ UnitAt(w, i).health \in Nat \ {0}
      /\ \A j \in Indices(w) : /\ w.order[j] \in DOMAIN w.unit
                               /\ j # i => w.order[j] # p
  BY <1>1, UnitsByIndex DEF Playable
<1>3. values.tile \in Tiles /\ values.health \in Nat \ {0} /\ values.moves \in Nat
  BY <1>2 DEF Units
<1>4. /\ Playable(m) /\ m.order = w.order /\ m.town = w.town /\ DOMAIN m.unit = DOMAIN w.unit
      /\ m.unit[p] = Reset(v.unit[p], values)
      /\ \A q \in DOMAIN w.unit \ {p} : m.unit[q] = v.unit[q]
  BY <1>1, <1>3, SetUnitIs
<1>5. m.unit[p] = w.unit[p]
  <2> DEFINE u == w.unit[p]
  <2>1. v.unit[p] = Walked(u, x[2])
    BY DEF Overlay
  <2>2. v.unit[p].kind = u.kind /\ v.unit[p].faction = u.faction /\ v.unit[p].xp = u.xp
    BY <2>1 DEF Walked
  <2>3. Template[u.kind] \in CombatStats
    BY <1>2, CombatAssumption DEF Units
  <2>4. u.health \in Nat /\ u.moves \in Nat
        /\ u.health <= Template[u.kind].health /\ u.moves <= Template[u.kind].moves
    BY <1>2 DEF Units
  <2>5. /\ AtMost(values.health, Template[u.kind].health) = u.health
        /\ AtMost(values.moves, Template[u.kind].moves) = u.moves
        /\ values.tile = u.tile
    <3>1. values.tile = u.tile /\ values.health = u.health /\ values.moves = u.moves
      BY <1>2
    <3>2. Template[u.kind].health \in Nat /\ Template[u.kind].moves \in Nat
      BY <2>3 DEF CombatStats
    <3> HIDE DEF u
    <3> QED
      BY <2>4, <3>1, <3>2 DEF AtMost
  <2>6. u = [kind |-> u.kind, faction |-> u.faction, tile |-> u.tile, health |-> u.health,
             moves |-> u.moves, xp |-> u.xp]
    BY <1>2, UnitRecord
  <2> HIDE DEF u, m, p
  <2>7. Reset(v.unit[p], values) = u
    BY <2>2, <2>5, <2>6 DEF Reset
  <2> QED
    BY <1>4, <2>7 DEF u
<1> HIDE DEF m
<1>6. ASSUME NEW y \in B
      PROVE  m.unit[w.order[y[1]]] = Walked(w.unit[w.order[y[1]]], y[2])
  <2>1. y[1] # i /\ y[1] \in Indices(w)
    BY DEF Plans
  <2>2. m.unit[w.order[y[1]]] = v.unit[w.order[y[1]]]
    BY <1>2, <1>4, <2>1
  <2> QED
    BY <2>2 DEF Overlay
<1>7. ASSUME NEW j \in Indices(w), Rests(B, j)
      PROVE  m.unit[w.order[j]] = w.unit[w.order[j]]
  <2>1. CASE j = i
    BY <1>5, <2>1
  <2>2. CASE j # i
    <3>1. Rests(A, j)
      BY <1>7, <2>2 DEF Rests
    <3> QED
      BY <1>2, <1>4, <2>2, <3>1 DEF Overlay
  <2> QED
    BY <2>1, <2>2
<1> QED
  BY <1>4, <1>6, <1>7 DEF Overlay, m

SameUnitsIn(v, w, A) == \A x \in A : UnitAt(v, x[1]) = UnitAt(w, x[1])

\* One move confirmed: the others can still be made, and what is shown is
\* the new confirmed world and the others.
LEMMA OverlayConfirmed ==
  ASSUME NEW w, Playable(w), NEW v, Playable(v), NEW A, Plans(w, A), Overlay(v, w, A),
         NEW x \in A
  PROVE  /\ Playable(Move(w, x[1], x[2]))
         /\ Plans(Move(w, x[1], x[2]), A \ {x})
         /\ Overlay(v, Move(w, x[1], x[2]), A \ {x})
         /\ SameUnitsIn(Move(w, x[1], x[2]), w, A \ {x})
<1> DEFINE i == x[1]
           p == w.order[i]
           m == Move(w, i, x[2])
           B == A \ {x}
<1>1. /\ i \in Indices(w) /\ x[2] \in Tiles /\ ValidMove(w, i, x[2])
      /\ \A y \in A : y[1] \in Indices(w)
      /\ \A y \in B : y[1] # i
  BY DEF Plans
<1>2. \A j \in Indices(w) : /\ w.order[j] \in DOMAIN w.unit
                            /\ j # i => w.order[j] # p
  BY <1>1, UnitsByIndex DEF Playable
<1>3. /\ Playable(m) /\ m.order = w.order /\ m.town = w.town /\ DOMAIN m.unit = DOMAIN w.unit
      /\ m.unit[p] = Walked(w.unit[p], x[2])
      /\ \A q \in DOMAIN w.unit \ {p} : m.unit[q] = w.unit[q]
  BY <1>1, MoveIs
<1>4. ASSUME NEW y \in B
      PROVE  /\ m.unit[w.order[y[1]]] = w.unit[w.order[y[1]]]
             /\ UnitAt(m, y[1]) = UnitAt(w, y[1])
  BY <1>1, <1>2, <1>3 DEF UnitAt
<1>5. Plans(w, {x}) /\ Overlay(m, w, {x})
  <2>1. ASSUME NEW j \in Indices(w), Rests({x}, j)
        PROVE  m.unit[w.order[j]] = w.unit[w.order[j]]
    BY <1>2, <1>3, <2>1 DEF Rests
  <2> QED
    BY <1>1, <1>3, <2>1 DEF Overlay, Plans
<1> HIDE DEF m
<1>6. ASSUME NEW y \in B
      PROVE  /\ y[1] \in Indices(m) /\ y[2] \in Tiles
             /\ ValidMove(m, y[1], y[2])
             /\ UnitAt(m, y[1]).faction = Mine
  <2>1. /\ y[1] \in Indices(w) /\ y[2] \in Tiles /\ ValidMove(w, y[1], y[2])
        /\ UnitAt(w, y[1]).faction = Mine
    BY DEF Plans
  <2>2. Rests({x}, y[1])
    BY <1>1 DEF Rests
  <2>3. ValidMove(m, y[1], y[2])
    BY <1>3, <1>5, <2>1, <2>2, SameMoves
  <2> QED
    BY <1>3, <1>4, <2>1, <2>3 DEF Indices
<1>7. Plans(m, B)
  BY <1>6 DEF Plans
<1>8. Overlay(v, m, B)
  <2>1. ASSUME NEW y \in B
        PROVE  v.unit[m.order[y[1]]] = Walked(m.unit[m.order[y[1]]], y[2])
    BY <1>3, <1>4 DEF Overlay
  <2>2. ASSUME NEW j \in Indices(m), Rests(B, j)
        PROVE  v.unit[m.order[j]] = m.unit[m.order[j]]
    <3>1. j \in Indices(w)
      BY <1>3 DEF Indices
    <3>2. CASE j = i
      BY <1>3, <3>2 DEF Overlay
    <3>3. CASE j # i
      <4>1. Rests(A, j)
        BY <2>2, <3>3 DEF Rests
      <4>2. m.unit[w.order[j]] = w.unit[w.order[j]]
        BY <1>2, <1>3, <3>1, <3>3
      <4> QED
        BY <1>3, <3>1, <4>1, <4>2 DEF Overlay
    <3> QED
      BY <3>2, <3>3
  <2> QED
    BY <1>3, <2>1, <2>2 DEF Overlay
<1> QED
  BY <1>3, <1>4, <1>7, <1>8 DEF SameUnitsIn, m

-----------------------------------------------------------------------------
(* Predictions: such moves in a list. *)

\* The first n moves of a list.
Steps(s, n) == {<<s[k].action.unit, s[k].action.tile>> : k \in 1 .. n}

\* The predictions of s are moves that can be made in w on top of those of A,
\* of one unit each that rests in A, and remember how the units stand in w.
Tidy(w, s, A) ==
  /\ \A n \in DOMAIN s :
       /\ s[n].action.type = "move"
       /\ Rests(A, s[n].action.unit)
       /\ s[n].snapshot.unit = s[n].action.unit
       /\ s[n].snapshot.tile = UnitAt(w, s[n].action.unit).tile
       /\ s[n].snapshot.health = UnitAt(w, s[n].action.unit).health
       /\ s[n].snapshot.moves = UnitAt(w, s[n].action.unit).moves
  /\ \A m, n \in DOMAIN s : s[m].action.unit = s[n].action.unit => m = n
  /\ Plans(w, A \cup Steps(s, Len(s)))

LEMMA FewerPlans ==
  ASSUME NEW w, NEW B, Plans(w, B), NEW A \in SUBSET B
  PROVE  Plans(w, A)
BY DEF Plans

\* Applied again they are all valid, and none is dropped.
LEMMA ReapplyMoves ==
  ASSUME NEW w, Playable(w), NEW v, Playable(v), NEW A, Overlay(v, w, A),
         NEW s \in Seq(AnyPrediction), Tidy(w, s, A)
  PROVE  /\ Playable(Reapply(v, s).world)
         /\ Overlay(Reapply(v, s).world, w, A \cup Steps(s, Len(s)))
         /\ Reapply(v, s).pending = s
<1>1. /\ Len(s) \in Nat /\ DOMAIN s = 1 .. Len(s)
      /\ \A n \in 1 .. Len(s) : s[n] \in AnyPrediction
  BY LenProperties, ElementOfSeq
<1>2. PICK after :
        /\ after = [n \in 0 .. Len(s) |->
                     IF n = 0 THEN [world |-> v, pending |-> <<>>]
                     ELSE Follow(after[n - 1], s[n])]
        /\ Reapply(v, s) = after[Len(s)]
  BY <1>1, ReapplyRecursion
<1> DEFINE Done(g, n) ==
             /\ Playable(g.world)
             /\ Overlay(g.world, w, A \cup Steps(s, n))
             /\ g.pending \in Seq(AnyPrediction)
             /\ Len(g.pending) = n
             /\ \A k \in 1 .. n : g.pending[k] = s[k]
           T == {n \in 0 .. Len(s) : Done(after[n], n)}
<1>3. 0 \in T
  <2>1. after[0] = [world |-> v, pending |-> <<>>]
    BY <1>1, <1>2
  <2>2. after[0].world = v /\ after[0].pending = <<>>
        /\ <<>> \in Seq(AnyPrediction) /\ Len(<<>>) = 0
    BY <2>1
  <2>3. Steps(s, 0) = {}
    BY DEF Steps
  <2>4. A \cup Steps(s, 0) = A
    BY <2>3
  <2>5. Overlay(after[0].world, w, A \cup Steps(s, 0))
    BY <2>2, <2>4
  <2>6. Len(after[0].pending) = 0 /\ \A k \in 1 .. 0 : after[0].pending[k] = s[k]
    BY <2>2
  <2>7. Playable(after[0].world) /\ after[0].pending \in Seq(AnyPrediction)
    BY <2>2
  <2>8. Done(after[0], 0)
    BY <2>5, <2>6, <2>7
  <2> QED
    BY <1>1, <2>8
<1>4. ASSUME NEW n \in 0 .. Len(s) - 1, n \in T
      PROVE  n + 1 \in T
  <2> DEFINE g == after[n]
             p == s[n + 1]
             i == p.action.unit
             t == p.action.tile
             B == A \cup Steps(s, n)
  <2>1. n \in Nat /\ n + 1 \in 1 .. Len(s) /\ n + 1 # 0 /\ (n + 1) - 1 = n
    BY <1>1
  <2>2. after[n + 1] = Follow(g, p)
    BY <1>2, <2>1
  <2>3. Done(g, n) /\ p \in AnyPrediction
    BY <1>1, <1>4, <2>1
  <2>4. /\ p.action.type = "move" /\ Rests(A, i)
        /\ \A k \in 1 .. n : s[k].action.unit # i
    BY <1>1, <2>1 DEF Tidy
  <2>5. <<i, t>> \in Steps(s, Len(s)) /\ Steps(s, n) \subseteq Steps(s, Len(s))
    BY <1>1, <2>1 DEF Steps
  <2>6. /\ i \in Indices(w) /\ t \in Tiles /\ ValidMove(w, i, t)
        /\ UnitAt(w, i).faction = Mine
    <3>1. <<i, t>> \in A \cup Steps(s, Len(s))
      BY <2>5
    <3>2. <<i, t>>[1] = i /\ <<i, t>>[2] = t
      OBVIOUS
    <3> QED
      BY <3>1, <3>2 DEF Tidy, Plans
  <2>7. Plans(w, B)
    BY <2>5, FewerPlans DEF Tidy
  <2>8. Rests(B, i)
    BY <2>4 DEF Rests, Steps
  <2>9. B \cup {<<i, t>>} = A \cup Steps(s, n + 1)
    BY <2>1 DEF Steps
  <2> HIDE DEF g, p, i, t, B
  <2>10. ValidMove(g.world, i, t)
    BY <2>3, <2>6, <2>7, <2>8, SameMoves DEF B
  <2>11. Executes(g.world, p.action) /\ Execute(g.world, p.action) = Move(g.world, i, t)
    BY <2>4, <2>10 DEF Executes, Execute, i, t
  <2>12. Follow(g, p) = [world |-> Move(g.world, i, t), pending |-> Append(g.pending, p)]
    BY <2>11 DEF Follow
  <2>13. /\ Playable(Move(g.world, i, t))
         /\ Overlay(Move(g.world, i, t), w, A \cup Steps(s, n + 1))
    BY <2>3, <2>6, <2>7, <2>8, <2>9, <2>10, OverlayMore DEF B
  <2>14. /\ Append(g.pending, p) \in Seq(AnyPrediction)
         /\ Len(Append(g.pending, p)) = n + 1
         /\ \A k \in 1 .. n + 1 : Append(g.pending, p)[k] = s[k]
    BY <2>1, <2>3, AppendProperties DEF p
  <2>15. Done(Follow(g, p), n + 1)
    BY <2>12, <2>13, <2>14
  <2> QED
    BY <2>1, <2>2, <2>15
<1> HIDE DEF T
<1>5. \A n \in 0 .. Len(s) : n \in T
  BY <1>1, <1>3, <1>4, UpTo
<1>6. Len(s) \in T
  BY <1>1, <1>5
<1>7. Done(Reapply(v, s), Len(s))
  BY <1>2, <1>6 DEF T
<1> QED
  BY <1>7, SeqEqual

\* Rolled back they leave nothing behind.
LEMMA RollbackMoves ==
  ASSUME NEW w, Playable(w), NEW v, Playable(v), NEW A,
         NEW s \in Seq(AnyPrediction), Tidy(w, s, A),
         Overlay(v, w, A \cup Steps(s, Len(s)))
  PROVE  Overlay(RollbackAll(v, s), w, A)
<1>1. /\ Len(s) \in Nat /\ DOMAIN s = 1 .. Len(s)
      /\ \A n \in 1 .. Len(s) : s[n] \in AnyPrediction
  BY LenProperties, ElementOfSeq
<1>2. PICK after :
        /\ after = [n \in 0 .. Len(s) |->
                     IF n = 0 THEN v
                     ELSE RollbackPrediction(after[n - 1], s[Len(s) + 1 - n].snapshot)]
        /\ RollbackAll(v, s) = after[Len(s)]
  BY <1>1, RollbackRecursion
<1> DEFINE T == {n \in 0 .. Len(s) :
                   Playable(after[n]) /\ Overlay(after[n], w, A \cup Steps(s, Len(s) - n))}
<1>3. 0 \in T
  <2>1. after[0] = v /\ Len(s) - 0 = Len(s)
    BY <1>1, <1>2
  <2> QED
    BY <1>1, <2>1
<1>4. ASSUME NEW n \in 0 .. Len(s) - 1, n \in T
      PROVE  n + 1 \in T
  <2> DEFINE g == after[n]
             k == Len(s) - n
             i == s[k].action.unit
             x == <<i, s[k].action.tile>>
             B == A \cup Steps(s, k)
  <2>1. /\ n + 1 \in 1 .. Len(s) /\ n + 1 # 0 /\ (n + 1) - 1 = n
        /\ Len(s) + 1 - (n + 1) = k /\ Len(s) - (n + 1) = k - 1 /\ k \in 1 .. Len(s)
    <3> HIDE DEF T
    <3>1. Len(s) \in Nat /\ n \in Nat /\ n <= Len(s) - 1
      BY <1>1
    <3> QED
      BY <3>1
  <2>2. after[n + 1] = RollbackPrediction(g, s[k].snapshot)
    BY <1>2, <2>1
  <2>3. Playable(g) /\ Overlay(g, w, B)
    BY <1>4
  <2>4. /\ Rests(A, i)
        /\ \A m \in 1 .. k - 1 : s[m].action.unit # i
        /\ s[k].snapshot.unit = i
        /\ s[k].snapshot.tile = UnitAt(w, i).tile
        /\ s[k].snapshot.health = UnitAt(w, i).health
        /\ s[k].snapshot.moves = UnitAt(w, i).moves
    BY <1>1, <2>1 DEF Tidy
  <2>5. Steps(s, k) \subseteq Steps(s, Len(s)) /\ x \in B /\ x[1] = i
    BY <1>1, <2>1 DEF Steps
  <2>6. Plans(w, B)
    BY <2>5, FewerPlans DEF Tidy
  <2>7. B \ {x} = A \cup Steps(s, k - 1)
    <3>1. Steps(s, k) = Steps(s, k - 1) \cup {x}
      BY <2>1 DEF Steps
    <3>2. x \notin Steps(s, k - 1)
      BY <2>4 DEF Steps
    <3>3. x \notin A
      BY <2>4, <2>5 DEF Rests
    <3> QED
      BY <3>1, <3>2, <3>3
  <2>8. i \in Indices(g)
    BY <2>3, <2>5, <2>6 DEF Overlay, Plans, Indices
  <2> HIDE DEF g, k, i, x, B
  <2>9. after[n + 1] = SetUnit(g, x[1], s[k].snapshot)
    BY <2>2, <2>4, <2>5, <2>8 DEF RollbackPrediction
  <2>10. /\ Playable(SetUnit(g, x[1], s[k].snapshot))
         /\ Overlay(SetUnit(g, x[1], s[k].snapshot), w, B \ {x})
    BY <2>3, <2>4, <2>5, <2>6, OverlayLess
  <2>11. Overlay(after[n + 1], w, A \cup Steps(s, Len(s) - (n + 1)))
    BY <2>1, <2>7, <2>9, <2>10
  <2>12. Playable(after[n + 1]) /\ n + 1 \in 0 .. Len(s)
    BY <1>1, <2>1, <2>9, <2>10
  <2> QED
    BY <2>11, <2>12
<1> HIDE DEF T
<1>5. \A n \in 0 .. Len(s) : n \in T
  BY <1>1, <1>3, <1>4, UpTo
<1>6. Len(s) \in T /\ Len(s) - Len(s) = 0
  BY <1>1, <1>5
<1>7. Steps(s, 0) = {}
  BY DEF Steps
<1>8. A \cup Steps(s, 0) = A
  BY <1>7
<1> QED
  BY <1>2, <1>6, <1>8 DEF T

-----------------------------------------------------------------------------
(* Predictions: what is before and after one of a list. *)

Before(s, n) == SubSeq(s, 1, n - 1)

Since(s, n) == SubSeq(s, n, Len(s))

After(s, n) == Tail(Since(s, n))

LEMMA Around ==
  ASSUME NEW s \in Seq(AnyPrediction), NEW n \in DOMAIN s
  PROVE  /\ Len(s) \in Nat /\ DOMAIN s = 1 .. Len(s) /\ n \in 1 .. Len(s)
         /\ Before(s, n) \in Seq(AnyPrediction)
         /\ Len(Before(s, n)) = n - 1 /\ DOMAIN Before(s, n) = 1 .. n - 1
         /\ \A k \in 1 .. n - 1 : Before(s, n)[k] = s[k]
         /\ Since(s, n) \in Seq(AnyPrediction)
         /\ Len(Since(s, n)) = Len(s) - n + 1 /\ DOMAIN Since(s, n) = 1 .. Len(s) - n + 1
         /\ \A k \in 1 .. Len(s) - n + 1 : Since(s, n)[k] = s[n + k - 1]
         /\ After(s, n) \in Seq(AnyPrediction)
         /\ Len(After(s, n)) = Len(s) - n /\ DOMAIN After(s, n) = 1 .. Len(s) - n
         /\ \A k \in 1 .. Len(s) - n : After(s, n)[k] = s[n + k]
<1>1. /\ Len(s) \in Nat /\ DOMAIN s = 1 .. Len(s) /\ n \in 1 .. Len(s)
      /\ \A k \in 1 .. Len(s) : s[k] \in AnyPrediction
  BY LenProperties, ElementOfSeq
<1> DEFINE l == Before(s, n)
           f == Since(s, n)
           r == After(s, n)
<1>2. l \in Seq(AnyPrediction) /\ Len(l) = n - 1 /\ \A k \in 1 .. n - 1 : l[k] = s[k]
  <2>1. \A k \in 1 .. n - 1 : s[k] \in AnyPrediction
    BY <1>1
  <2>2. /\ l \in Seq(AnyPrediction)
        /\ Len(l) = IF 1 <= n - 1 THEN n - 1 - 1 + 1 ELSE 0
        /\ \A k \in 1 .. n - 1 - 1 + 1 : l[k] = s[1 + k - 1]
    BY <1>1, <2>1, SubSeqProperties DEF Before
  <2> HIDE DEF l
  <2>3. n - 1 - 1 + 1 = n - 1 /\ (~(1 <= n - 1) => n - 1 = 0)
        /\ \A k \in 1 .. n - 1 : 1 + k - 1 = k
    BY <1>1
  <2> QED
    BY <1>1, <2>2, <2>3
<1>3. /\ f \in Seq(AnyPrediction) /\ Len(f) = Len(s) - n + 1
      /\ \A k \in 1 .. Len(s) - n + 1 : f[k] = s[n + k - 1]
  <2>1. \A k \in n .. Len(s) : s[k] \in AnyPrediction
    BY <1>1
  <2> QED
    BY <1>1, <2>1, SubSeqProperties DEF Since
<1> HIDE DEF l, f
<1>4. f # <<>>
  BY <1>1, <1>3, EmptySeq
<1>5. /\ r \in Seq(AnyPrediction) /\ Len(r) = Len(f) - 1
      /\ \A k \in 1 .. Len(r) : r[k] = f[k + 1]
  BY <1>3, <1>4, HeadTailProperties DEF After, f
<1> HIDE DEF r
<1>6. Len(r) = Len(s) - n
  BY <1>1, <1>3, <1>5
<1>7. ASSUME NEW k \in 1 .. Len(s) - n
      PROVE  r[k] = s[n + k]
  <2>1. k + 1 \in 1 .. Len(s) - n + 1 /\ n + (k + 1) - 1 = n + k
    BY <1>1
  <2> QED
    BY <1>3, <1>5, <1>6, <2>1
<1>8. DOMAIN l = 1 .. n - 1 /\ DOMAIN f = 1 .. Len(s) - n + 1 /\ DOMAIN r = 1 .. Len(s) - n
  BY <1>2, <1>3, <1>5, <1>6, LenProperties
<1> QED
  BY <1>1, <1>2, <1>3, <1>5, <1>6, <1>7, <1>8 DEF l, f, r

\* One list behind another.
LEMMA Joined ==
  ASSUME NEW a \in Seq(AnyPrediction), NEW b \in Seq(AnyPrediction), InOrder(a), InOrder(b),
         \A m \in DOMAIN a, n \in DOMAIN b : a[m].id < b[n].id
  PROVE  /\ a \o b \in Seq(AnyPrediction)
         /\ InOrder(a \o b)
         /\ \A k \in DOMAIN (a \o b) : \/ \E m \in DOMAIN a : (a \o b)[k] = a[m]
                                       \/ \E n \in DOMAIN b : (a \o b)[k] = b[n]
<1> DEFINE c == a \o b
<1>1. /\ Len(a) \in Nat /\ DOMAIN a = 1 .. Len(a) /\ Len(b) \in Nat /\ DOMAIN b = 1 .. Len(b)
      /\ c \in Seq(AnyPrediction) /\ Len(c) = Len(a) + Len(b) /\ DOMAIN c = 1 .. Len(a) + Len(b)
      /\ \A k \in DOMAIN c : c[k] = IF k <= Len(a) THEN a[k] ELSE b[k - Len(a)]
  <2>1. /\ Len(a) \in Nat /\ DOMAIN a = 1 .. Len(a) /\ Len(b) \in Nat /\ DOMAIN b = 1 .. Len(b)
    BY LenProperties
  <2>2. /\ c \in Seq(AnyPrediction) /\ Len(c) = Len(a) + Len(b)
        /\ \A k \in 1 .. Len(a) + Len(b) : c[k] = IF k <= Len(a) THEN a[k] ELSE b[k - Len(a)]
    BY ConcatProperties
  <2>3. DOMAIN c = 1 .. Len(c)
    BY <2>2, LenProperties
  <2> QED
    BY <2>1, <2>2, <2>3
<1> HIDE DEF c
<1>2. ASSUME NEW k \in DOMAIN c
      PROVE  \/ k \in DOMAIN a /\ c[k] = a[k]
             \/ k - Len(a) \in DOMAIN b /\ c[k] = b[k - Len(a)] /\ k > Len(a)
  BY <1>1
<1>3. ASSUME NEW j \in DOMAIN c, NEW k \in DOMAIN c, j < k
      PROVE  c[j].id < c[k].id
  <2>1. CASE j \in DOMAIN a /\ k \in DOMAIN a
    BY <1>1, <1>3, <2>1 DEF InOrder
  <2>2. CASE j \in DOMAIN a /\ k \notin DOMAIN a
    BY <1>1, <1>2, <2>2
  <2>3. CASE j \notin DOMAIN a
    <3>1. /\ j - Len(a) \in DOMAIN b /\ c[j] = b[j - Len(a)]
          /\ k - Len(a) \in DOMAIN b /\ c[k] = b[k - Len(a)]
          /\ j - Len(a) < k - Len(a)
      BY <1>1, <1>2, <1>3, <2>3
    <3> QED
      BY <3>1 DEF InOrder
  <2> QED
    BY <2>1, <2>2, <2>3
<1> QED
  BY <1>1, <1>2, <1>3 DEF InOrder, c

\* The list without one of its predictions.
LEMMA Removed ==
  ASSUME NEW s \in Seq(AnyPrediction), InOrder(s), NEW n \in DOMAIN s
  PROVE  /\ RemoveAt(s, n) = Before(s, n) \o After(s, n)
         /\ InOrder(Before(s, n)) /\ InOrder(After(s, n))
         /\ RemoveAt(s, n) \in Seq(AnyPrediction)
         /\ InOrder(RemoveAt(s, n))
         /\ Len(RemoveAt(s, n)) = Len(s) - 1
         /\ DOMAIN RemoveAt(s, n) = 1 .. Len(s) - 1
         /\ \A k \in 1 .. Len(s) - 1 :
              RemoveAt(s, n)[k] = IF k < n THEN s[k] ELSE s[k + 1]
<1> DEFINE l == Before(s, n)
           a == After(s, n)
           r == RemoveAt(s, n)
<1>1. /\ Len(s) \in Nat /\ DOMAIN s = 1 .. Len(s) /\ n \in 1 .. Len(s)
      /\ l \in Seq(AnyPrediction) /\ Len(l) = n - 1 /\ DOMAIN l = 1 .. n - 1
      /\ \A k \in 1 .. n - 1 : l[k] = s[k]
      /\ a \in Seq(AnyPrediction) /\ Len(a) = Len(s) - n /\ DOMAIN a = 1 .. Len(s) - n
      /\ \A k \in 1 .. Len(s) - n : a[k] = s[n + k]
  BY Around
<1>2. r = l \o a
  <2>1. /\ \A k \in 1 .. Len(s) : s[k] \in AnyPrediction
        /\ n \in Int /\ Len(s) \in Int /\ n + 1 \in Int
    BY <1>1, ElementOfSeq
  <2>2. \A k \in n + 1 .. Len(s) : s[k] \in AnyPrediction
    BY <1>1, <2>1
  <2> DEFINE z == SubSeq(s, n + 1, Len(s))
  <2>3. /\ z \in Seq(AnyPrediction)
        /\ Len(z) = IF n + 1 <= Len(s) THEN Len(s) - (n + 1) + 1 ELSE 0
        /\ \A k \in 1 .. Len(s) - (n + 1) + 1 : z[k] = s[n + 1 + k - 1]
    BY <2>1, <2>2, SubSeqProperties
  <2>4. r = l \o z
    BY DEF RemoveAt, Before
  <2> HIDE DEF z, l, a
  <2>5. Len(z) = Len(a)
    BY <1>1, <2>3
  <2>6. ASSUME NEW k \in 1 .. Len(z)
        PROVE  z[k] = a[k]
    <3>1. k \in 1 .. Len(s) - n /\ k \in 1 .. Len(s) - (n + 1) + 1 /\ n + 1 + k - 1 = n + k
      BY <1>1, <2>5
    <3> QED
      BY <1>1, <2>3, <3>1
  <2>7. z = a
    BY <1>1, <2>3, <2>5, <2>6, SeqEqual
  <2> QED
    BY <2>4, <2>7
<1> HIDE DEF r, l, a
<1>3. InOrder(l) /\ InOrder(a) /\ \A j \in DOMAIN l, k \in DOMAIN a : l[j].id < a[k].id
  <2>1. ASSUME NEW j \in DOMAIN l
        PROVE  l[j] = s[j] /\ j \in DOMAIN s
    BY <1>1
  <2>2. ASSUME NEW k \in DOMAIN a
        PROVE  a[k] = s[n + k] /\ n + k \in DOMAIN s
    BY <1>1
  <2>3. InOrder(l)
    BY <2>1 DEF InOrder
  <2>4. InOrder(a)
    <3>1. \A j, k \in DOMAIN a : j < k => n + j < n + k
      BY <1>1
    <3> QED
      BY <2>2, <3>1 DEF InOrder
  <2>5. \A j \in DOMAIN l, k \in DOMAIN a : j < n + k
    BY <1>1
  <2> QED
    BY <2>1, <2>2, <2>3, <2>4, <2>5 DEF InOrder
<1>4. r \in Seq(AnyPrediction) /\ InOrder(r)
  BY <1>1, <1>2, <1>3, Joined
<1>5. /\ Len(r) = Len(l) + Len(a)
      /\ \A k \in 1 .. Len(l) + Len(a) : r[k] = IF k <= Len(l) THEN l[k] ELSE a[k - Len(l)]
  BY <1>1, <1>2, ConcatProperties
<1>6. Len(r) = Len(s) - 1 /\ DOMAIN r = 1 .. Len(s) - 1
  BY <1>1, <1>4, <1>5, LenProperties
<1>7. ASSUME NEW k \in 1 .. Len(s) - 1
      PROVE  r[k] = IF k < n THEN s[k] ELSE s[k + 1]
  <2>1. CASE k < n
    BY <1>1, <1>5, <2>1
  <2>2. CASE ~(k < n)
    <3>1. r[k] = a[k - (n - 1)] /\ k - (n - 1) \in 1 .. Len(s) - n /\ n + (k - (n - 1)) = k + 1
      BY <1>1, <1>5, <2>2
    <3> QED
      BY <1>1, <2>2, <3>1
  <2> QED
    BY <2>1, <2>2
<1> QED
  BY <1>2, <1>3, <1>4, <1>6, <1>7 DEF r, l, a

MoveOf(p) == <<p.action.unit, p.action.tile>>

\* One more prediction of such a move, with its snapshot.
LEMMA TidyMore ==
  ASSUME NEW w, Playable(w), NEW v, Playable(v), NEW s \in Seq(AnyPrediction),
         Tidy(w, s, {}), Overlay(v, w, Steps(s, Len(s))),
         NEW p \in AnyPrediction, p.action.type = "move", Executes(v, p.action),
         UnitAt(v, p.action.unit).faction = Mine,
         \A n \in DOMAIN s : s[n].action.unit # p.action.unit,
         p.snapshot = CaptureSnapshot(v, p.action)
  PROVE  /\ Tidy(w, Append(s, p), {})
         /\ Overlay(Execute(v, p.action), w, Steps(Append(s, p), Len(Append(s, p))))
<1> DEFINE i == p.action.unit
           t == p.action.tile
           z == Append(s, p)
           A == Steps(s, Len(s))
<1>1. /\ Len(s) \in Nat /\ DOMAIN s = 1 .. Len(s)
      /\ z \in Seq(AnyPrediction) /\ Len(z) = Len(s) + 1 /\ DOMAIN z = 1 .. Len(s) + 1
      /\ z[Len(s) + 1] = p
      /\ \A n \in 1 .. Len(s) : z[n] = s[n]
  <2>1. Len(s) \in Nat /\ DOMAIN s = 1 .. Len(s)
    BY LenProperties
  <2>2. /\ z \in Seq(AnyPrediction) /\ Len(z) = Len(s) + 1 /\ z[Len(s) + 1] = p
        /\ \A n \in 1 .. Len(s) : z[n] = s[n]
    BY AppendProperties
  <2>3. DOMAIN z = 1 .. Len(z)
    BY <2>2, LenProperties
  <2> QED
    BY <2>1, <2>2, <2>3
<1>2. ValidMove(v, i, t) /\ Execute(v, p.action) = Move(v, i, t) /\ t \in Tiles
  BY DEF Executes, Execute, AnyPrediction, AnyAction
<1>3. i \in Indices(w)
  BY <1>2 DEF ValidMove, Overlay, Indices
<1>4. Rests(A, i)
  BY <1>1 DEF Rests, Steps
<1>5. UnitAt(v, i) = UnitAt(w, i)
  BY <1>3, <1>4 DEF Overlay, UnitAt
<1>6. Plans(w, A)
  <2>1. {} \cup A = A
    OBVIOUS
  <2> QED
    BY <2>1 DEF Tidy
<1>7. ValidMove(w, i, t)
  BY <1>2, <1>3, <1>4, <1>5, <1>6, SameMoves
<1>8. Steps(z, Len(z)) = A \cup {<<i, t>>}
  BY <1>1 DEF Steps
<1>9. Overlay(Execute(v, p.action), w, Steps(z, Len(z)))
  BY <1>2, <1>3, <1>4, <1>6, <1>8, OverlayMore
<1>10. Plans(w, {} \cup Steps(z, Len(z)))
  <2>1. <<i, t>>[1] = i /\ <<i, t>>[2] = t
    OBVIOUS
  <2>2. ASSUME NEW x \in A \cup {<<i, t>>}
        PROVE  /\ x[1] \in Indices(w) /\ x[2] \in Tiles
               /\ ValidMove(w, x[1], x[2])
               /\ UnitAt(w, x[1]).faction = Mine
    BY <1>2, <1>3, <1>5, <1>6, <1>7, <2>1 DEF Plans
  <2>3. ASSUME NEW x \in A \cup {<<i, t>>}, NEW y \in A \cup {<<i, t>>}, x[1] = y[1]
        PROVE  x = y
    BY <1>4, <1>6, <2>1, <2>3 DEF Plans, Rests
  <2>4. Plans(w, A \cup {<<i, t>>})
    BY <2>2, <2>3 DEF Plans
  <2>5. {} \cup Steps(z, Len(z)) = A \cup {<<i, t>>}
    BY <1>8
  <2> QED
    BY <2>4, <2>5
<1> HIDE DEF z, A
<1>11. ASSUME NEW n \in DOMAIN z
       PROVE  /\ z[n].action.type = "move"
              /\ Rests({}, z[n].action.unit)
              /\ z[n].snapshot.unit = z[n].action.unit
              /\ z[n].snapshot.tile = UnitAt(w, z[n].action.unit).tile
              /\ z[n].snapshot.health = UnitAt(w, z[n].action.unit).health
              /\ z[n].snapshot.moves = UnitAt(w, z[n].action.unit).moves
  <2>1. CASE n \in DOMAIN s
    BY <1>1, <2>1 DEF Tidy
  <2>2. CASE n = Len(s) + 1
    BY <1>1, <1>5, <2>2 DEF CaptureSnapshot, Rests
  <2> QED
    BY <1>1, <2>1, <2>2
<1>12. ASSUME NEW m \in DOMAIN z, NEW n \in DOMAIN z, z[m].action.unit = z[n].action.unit
       PROVE  m = n
  <2>1. CASE m \in DOMAIN s /\ n \in DOMAIN s
    BY <1>1, <1>12, <2>1 DEF Tidy
  <2>2. CASE m = Len(s) + 1 /\ n \in DOMAIN s
    BY <1>1, <1>12, <2>2
  <2>3. CASE n = Len(s) + 1 /\ m \in DOMAIN s
    BY <1>1, <1>12, <2>3
  <2> QED
    BY <1>1, <2>1, <2>2, <2>3
<1> QED
  BY <1>9, <1>10, <1>11, <1>12 DEF Tidy, z

\* Such predictions around one of them.
LEMMA TidyAround ==
  ASSUME NEW w, NEW s \in Seq(AnyPrediction), InOrder(s), Tidy(w, s, {}), NEW n \in DOMAIN s
  PROVE  /\ MoveOf(s[n]) \in Steps(s, Len(s))
         /\ Steps(s, n - 1) \cup Steps(Since(s, n), Len(Since(s, n))) = Steps(s, Len(s))
         /\ Steps(s, n - 1) \cup Steps(After(s, n), Len(After(s, n)))
              = Steps(s, Len(s)) \ {MoveOf(s[n])}
         /\ Steps(RemoveAt(s, n), Len(RemoveAt(s, n))) = Steps(s, Len(s)) \ {MoveOf(s[n])}
         /\ Tidy(w, Since(s, n), Steps(s, n - 1))
         /\ Tidy(w, After(s, n), Steps(s, n - 1))
         /\ Tidy(w, RemoveAt(s, n), {})
<1> DEFINE f == Since(s, n)
           a == After(s, n)
           r == RemoveAt(s, n)
           x == MoveOf(s[n])
           A == Steps(s, n - 1)
           all == Steps(s, Len(s))
<1>1. /\ Len(s) \in Nat /\ DOMAIN s = 1 .. Len(s) /\ n \in 1 .. Len(s)
      /\ Len(f) = Len(s) - n + 1 /\ DOMAIN f = 1 .. Len(s) - n + 1
      /\ \A k \in 1 .. Len(s) - n + 1 : f[k] = s[n + k - 1]
      /\ Len(a) = Len(s) - n /\ DOMAIN a = 1 .. Len(s) - n
      /\ \A k \in 1 .. Len(s) - n : a[k] = s[n + k]
  BY Around
<1>2. /\ Len(r) = Len(s) - 1 /\ DOMAIN r = 1 .. Len(s) - 1
      /\ \A k \in 1 .. Len(s) - 1 : r[k] = IF k < n THEN s[k] ELSE s[k + 1]
  BY Removed
<1> HIDE DEF f, a, r
<1>3. all = {MoveOf(s[k]) : k \in 1 .. Len(s)} /\ A = {MoveOf(s[k]) : k \in 1 .. n - 1}
  BY DEF Steps, MoveOf
<1>4. \A j, k \in 1 .. Len(s) : s[j].action.unit = s[k].action.unit => j = k
  BY <1>1 DEF Tidy
<1>5. \A k \in 1 .. Len(s) : k # n => MoveOf(s[k]) # x
  BY <1>1, <1>4 DEF MoveOf
<1> HIDE DEF x, A, all
<1>6. Steps(f, Len(f)) = {MoveOf(s[k]) : k \in n .. Len(s)}
  <2>1. ASSUME NEW k \in 1 .. Len(f)
        PROVE  n + k - 1 \in n .. Len(s) /\ f[k] = s[n + k - 1]
    BY <1>1
  <2>2. ASSUME NEW k \in n .. Len(s)
        PROVE  k - n + 1 \in 1 .. Len(f) /\ f[k - n + 1] = s[k]
    <3>1. k - n + 1 \in 1 .. Len(s) - n + 1 /\ n + (k - n + 1) - 1 = k
      BY <1>1
    <3> QED
      BY <1>1, <3>1
  <2>3. Steps(f, Len(f)) = {MoveOf(f[k]) : k \in 1 .. Len(f)}
    BY DEF Steps, MoveOf
  <2> QED
    BY <2>1, <2>2, <2>3
<1>7. Steps(a, Len(a)) = {MoveOf(s[k]) : k \in n + 1 .. Len(s)}
  <2>1. ASSUME NEW k \in 1 .. Len(a)
        PROVE  n + k \in n + 1 .. Len(s) /\ a[k] = s[n + k]
    BY <1>1
  <2>2. ASSUME NEW k \in n + 1 .. Len(s)
        PROVE  k - n \in 1 .. Len(a) /\ a[k - n] = s[k]
    <3>1. k - n \in 1 .. Len(s) - n /\ n + (k - n) = k
      BY <1>1
    <3> QED
      BY <1>1, <3>1
  <2>3. Steps(a, Len(a)) = {MoveOf(a[k]) : k \in 1 .. Len(a)}
    BY DEF Steps, MoveOf
  <2> QED
    BY <2>1, <2>2, <2>3
<1> DEFINE old(k) == IF k < n THEN k ELSE k + 1
<1>8. \A k \in DOMAIN r : old(k) \in 1 .. Len(s) /\ old(k) # n /\ r[k] = s[old(k)]
  BY <1>1, <1>2
<1>9. Steps(r, Len(r)) = {MoveOf(s[k]) : k \in 1 .. Len(s) \ {n}}
  <2>1. ASSUME NEW k \in 1 .. Len(s) \ {n}
        PROVE  \E j \in 1 .. Len(r) : r[j] = s[k]
    <3>1. CASE k < n
      BY <1>1, <1>2, <3>1
    <3>2. CASE k > n
      <4>1. k - 1 \in 1 .. Len(r) /\ ~(k - 1 < n) /\ (k - 1) + 1 = k
        BY <1>1, <1>2, <3>2
      <4> QED
        BY <1>2, <4>1
    <3> QED
      BY <1>1, <3>1, <3>2
  <2>2. Steps(r, Len(r)) = {MoveOf(r[k]) : k \in 1 .. Len(r)}
    BY DEF Steps, MoveOf
  <2> QED
    BY <1>2, <1>8, <2>1, <2>2
<1>10. x \in all
  BY <1>1, <1>3 DEF x
<1>11. A \cup Steps(f, Len(f)) = all
  BY <1>1, <1>3, <1>6
<1>12. A \cup Steps(a, Len(a)) = all \ {x}
  <2>1. \A k \in 1 .. Len(s) : k # n <=> (k \in 1 .. n - 1 \/ k \in n + 1 .. Len(s))
    BY <1>1
  <2>2. \A k \in (1 .. n - 1) \cup (n + 1 .. Len(s)) : k \in 1 .. Len(s)
    BY <1>1
  <2> QED
    BY <1>3, <1>5, <1>7, <2>1, <2>2 DEF x
<1>13. Steps(r, Len(r)) = all \ {x}
  BY <1>3, <1>5, <1>9 DEF x
<1>14. Plans(w, all) /\ {} \cup Steps(r, Len(r)) = all \ {x}
  <2>1. {} \cup all = all
    OBVIOUS
  <2> QED
    BY <1>13, <2>1 DEF Tidy, all
<1>15. \A k \in n .. Len(s) : Rests(A, s[k].action.unit)
  <2>1. \A j \in 1 .. n - 1, k \in n .. Len(s) : j \in 1 .. Len(s) /\ k \in 1 .. Len(s) /\ j # k
    BY <1>1
  <2>2. \A j \in 1 .. n - 1, k \in n .. Len(s) : MoveOf(s[j])[1] # s[k].action.unit
    BY <1>4, <2>1 DEF MoveOf
  <2> QED
    BY <1>3, <2>2 DEF Rests
<1> DEFINE Faithful(p) ==
             /\ p.action.type = "move"
             /\ p.snapshot.unit = p.action.unit
             /\ p.snapshot.tile = UnitAt(w, p.action.unit).tile
             /\ p.snapshot.health = UnitAt(w, p.action.unit).health
             /\ p.snapshot.moves = UnitAt(w, p.action.unit).moves
<1>16. \A k \in 1 .. Len(s) : Faithful(s[k])
  BY <1>1 DEF Tidy
<1>17. Tidy(w, f, A)
  <2>1. \A k \in DOMAIN f : /\ n + k - 1 \in n .. Len(s) /\ n + k - 1 \in 1 .. Len(s)
                            /\ f[k] = s[n + k - 1]
    BY <1>1
  <2>2. \A j, k \in DOMAIN f : n + j - 1 = n + k - 1 => j = k
    BY <1>1
  <2>3. \A j, k \in DOMAIN f : f[j].action.unit = f[k].action.unit => j = k
    BY <1>4, <2>1, <2>2
  <2>4. \A k \in DOMAIN f : Faithful(f[k]) /\ Rests(A, f[k].action.unit)
    BY <1>15, <1>16, <2>1
  <2> QED
    BY <1>11, <1>14, <2>3, <2>4 DEF Tidy
<1>18. Tidy(w, a, A)
  <2>1. \A k \in DOMAIN a : /\ n + k \in n .. Len(s) /\ n + k \in 1 .. Len(s)
                            /\ a[k] = s[n + k]
    BY <1>1
  <2>2. \A j, k \in DOMAIN a : n + j = n + k => j = k
    BY <1>1
  <2>3. \A j, k \in DOMAIN a : a[j].action.unit = a[k].action.unit => j = k
    BY <1>4, <2>1, <2>2
  <2>4. \A k \in DOMAIN a : Faithful(a[k]) /\ Rests(A, a[k].action.unit)
    BY <1>15, <1>16, <2>1
  <2>5. Plans(w, A \cup Steps(a, Len(a)))
    BY <1>12, <1>14, FewerPlans
  <2> QED
    BY <2>3, <2>4, <2>5 DEF Tidy
<1>19. Tidy(w, r, {})
  <2>1. \A j, k \in DOMAIN r : old(j) = old(k) => j = k
    BY <1>1, <1>2
  <2> HIDE DEF old
  <2>2. \A j, k \in DOMAIN r : r[j].action.unit = r[k].action.unit => j = k
    BY <1>4, <1>8, <2>1
  <2>3. \A k \in DOMAIN r : Faithful(r[k]) /\ Rests({}, r[k].action.unit)
    BY <1>8, <1>16 DEF Rests
  <2>4. Plans(w, all \ {x})
    BY <1>14, FewerPlans
  <2> QED
    BY <1>14, <2>2, <2>3, <2>4 DEF Tidy
<1> QED
  BY <1>10, <1>11, <1>12, <1>13, <1>17, <1>18, <1>19 DEF f, a, r, x, A, all

-----------------------------------------------------------------------------
(* Predictions: the invariant. *)

\* What there is to show is stated by LocalIsConfirmedPlusPending with a loop
\* over the predictions; the invariant says it unit by unit, and with it that
\* each of the moves can still be made in the confirmed world alone.
MovesLaidOver ==
  /\ Tidy(base, pending, {})
  /\ Overlay(local, base, Steps(pending, Len(pending)))

ClientInv ==
  /\ Playable(local) /\ Playable(base)
  /\ localTurn \in Nat /\ nextId \in Nat
  /\ pending \in Seq(AnyPrediction)
  /\ InOrder(pending)
  /\ \A n \in DOMAIN pending : pending[n].id < nextId
  /\ careful => MovesLaidOver

ServerInv == WorldInv /\ turn \in Nat

\* Nothing is pending and the client has what is confirmed.
LEMMA NothingPending ==
  ASSUME NEW w
  PROVE  /\ <<>> \in Seq(AnyPrediction) /\ InOrder(<<>>) /\ DOMAIN <<>> = {}
         /\ Tidy(w, <<>>, {}) /\ Overlay(w, w, Steps(<<>>, Len(<<>>)))
<1>1. /\ <<>> \in Seq(AnyPrediction) /\ Len(<<>>) = 0 /\ DOMAIN <<>> = {}
  OBVIOUS
<1>2. Steps(<<>>, Len(<<>>)) = {}
  BY <1>1 DEF Steps
<1>3. Plans(w, {} \cup Steps(<<>>, Len(<<>>)))
  BY <1>2 DEF Plans
<1> QED
  BY <1>1, <1>2, <1>3, OverlayNothing DEF InOrder, Tidy

\* The invariant is what there is to show.
LEMMA ClientInvShows == ClientInv => PredictionsAreSound
<1> SUFFICES ASSUME ClientInv
             PROVE  PredictionsAreSound
  OBVIOUS
<1>1. DOMAIN pending = 1 .. Len(pending) /\ \A n \in DOMAIN pending : pending[n] \in AnyPrediction
  BY LenProperties, ElementOfSeq DEF ClientInv
<1>2. PredictionTypeOK
  BY <1>1 DEF ClientInv, Playable, Sound, PredictionTypeOK, AnyPrediction, Snapshots
<1>3. LocalSound
  BY DEF ClientInv, Playable, Sound, Living, LocalSound
<1>4. PendingInOrder
  BY DEF ClientInv, InOrder, PendingInOrder, Ids
<1>5. careful => LocalIsConfirmedPlusPending
  <2> SUFFICES ASSUME careful
               PROVE  local = Reapply(base, pending).world
    BY DEF LocalIsConfirmedPlusPending
  <2>1. /\ Playable(base) /\ Playable(local) /\ pending \in Seq(AnyPrediction)
        /\ Tidy(base, pending, {})
        /\ Overlay(local, base, Steps(pending, Len(pending)))
    BY DEF ClientInv, MovesLaidOver
  <2>2. /\ Playable(Reapply(base, pending).world)
        /\ Overlay(Reapply(base, pending).world, base, {} \cup Steps(pending, Len(pending)))
    BY <2>1, OverlayNothing, ReapplyMoves
  <2>3. {} \cup Steps(pending, Len(pending)) = Steps(pending, Len(pending))
    OBVIOUS
  <2> QED
    BY <2>1, <2>2, <2>3, OverlayUnique
<1> QED
  BY <1>2, <1>3, <1>4, <1>5 DEF PredictionsAreSound

\* The client starts with the server's game.
LEMMA PredictionStarts == PredictionInit => ServerInv /\ ClientInv
<1> SUFFICES ASSUME PredictionInit
             PROVE  ServerInv /\ ClientInv
  OBVIOUS
<1>1. Init /\ local = world /\ base = world /\ localTurn = turn /\ pending = <<>> /\ nextId = 1
  BY DEF PredictionInit, InitialId
<1>2. WorldInv /\ TownInv
  BY <1>1, InitSound, InitTowns
<1>3. turn \in Nat
  BY <1>1 DEF Init
<1>4. Playable(world)
  BY <1>2 DEF WorldInv, TownInv, Playable
<1> QED
  BY <1>1, <1>2, <1>3, <1>4, NothingPending DEF ServerInv, ClientInv, MovesLaidOver

LEMMA PredictKeeps ==
  ASSUME ClientInv, NEW a \in GameActions(local), PredictAction(a)
  PROVE  ClientInv'
<1> DEFINE p == [id |-> nextId, action |-> a, snapshot |-> CaptureSnapshot(local, a)]
<1>1. /\ Executes(local, a) /\ local' = Execute(local, a) /\ pending' = Append(pending, p)
      /\ nextId' = nextId + 1 /\ localTurn' = localTurn /\ base' = base
      /\ careful' = /\ careful
                    /\ a.type = "move"
                    /\ UnitAt(local, a.unit).faction = Mine
                    /\ \A n \in DOMAIN pending : pending[n].action.unit # a.unit
  BY DEF PredictAction
<1>2. /\ Playable(local) /\ Sound(local) /\ Living(local) /\ Playable(base)
      /\ nextId \in Nat /\ localTurn \in Nat
      /\ pending \in Seq(AnyPrediction) /\ InOrder(pending)
      /\ \A n \in DOMAIN pending : pending[n].id < nextId
  BY DEF ClientInv, Playable
<1>3. a \in AnyAction
  <2>1. \A i \in Indices(local) : i \in Nat
    BY <1>2, UnitsByIndex
  <2> QED
    BY <2>1 DEF GameActions, AnyAction
<1>4. Playable(local') /\ a.unit \in Indices(local)
  BY <1>1, <1>2, <1>3, ExecuteSound
<1>5. CaptureSnapshot(local, a) \in Snapshots
  <2> DEFINE u == UnitAt(local, a.unit)
  <2>1. /\ a.unit \in Nat /\ u.tile \in Tiles /\ u.health \in Nat \ {0} /\ u.moves \in Nat
    BY <1>2, <1>4, UnitsByIndex DEF Units
  <2>2. CaptureSnapshot(local, a)
          = [unit |-> a.unit, tile |-> u.tile, health |-> u.health, moves |-> u.moves]
    BY DEF CaptureSnapshot
  <2> HIDE DEF u
  <2> QED
    BY <2>1, <2>2 DEF Snapshots
<1>6. /\ p \in AnyPrediction /\ p.id = nextId /\ p.action = a
      /\ p.snapshot = CaptureSnapshot(local, p.action)
  BY <1>2, <1>3, <1>5 DEF AnyPrediction
<1> HIDE DEF p
<1>7. /\ Len(pending) \in Nat /\ DOMAIN pending = 1 .. Len(pending)
      /\ pending' \in Seq(AnyPrediction) /\ DOMAIN pending' = 1 .. Len(pending) + 1
      /\ pending'[Len(pending) + 1] = p
      /\ \A n \in 1 .. Len(pending) : pending'[n] = pending[n]
  <2>1. /\ pending' \in Seq(AnyPrediction) /\ Len(pending') = Len(pending) + 1
        /\ pending'[Len(pending) + 1] = p
        /\ \A n \in 1 .. Len(pending) : pending'[n] = pending[n]
    BY <1>1, <1>2, <1>6, AppendProperties
  <2>2. DOMAIN pending' = 1 .. Len(pending')
    BY <2>1, LenProperties
  <2> QED
    BY <1>2, <2>1, <2>2, LenProperties
<1>8. ASSUME NEW n \in DOMAIN pending
      PROVE  pending[n].id \in Nat /\ pending[n].id < nextId
  <2>1. pending[n] \in AnyPrediction
    BY <1>2, <1>7, ElementOfSeq
  <2> QED
    BY <1>2, <2>1 DEF AnyPrediction
<1>9. InOrder(pending')
  <2> SUFFICES ASSUME NEW m \in DOMAIN pending', NEW n \in DOMAIN pending', m < n
               PROVE  pending'[m].id < pending'[n].id
    BY DEF InOrder
  <2>1. m \in DOMAIN pending
    BY <1>7
  <2>2. CASE n \in DOMAIN pending
    BY <1>2, <1>7, <2>1, <2>2 DEF InOrder
  <2>3. CASE n = Len(pending) + 1
    BY <1>6, <1>7, <1>8, <2>1, <2>3
  <2> QED
    BY <1>7, <2>2, <2>3
<1>10. ASSUME NEW n \in DOMAIN pending'
       PROVE  pending'[n].id < nextId'
  <2>1. CASE n \in DOMAIN pending
    BY <1>1, <1>2, <1>7, <1>8, <2>1
  <2>2. CASE n = Len(pending) + 1
    BY <1>1, <1>2, <1>6, <1>7, <2>2
  <2> QED
    BY <1>7, <2>1, <2>2
<1>11. ASSUME careful'
       PROVE  MovesLaidOver'
  <2>1. /\ careful /\ a.type = "move" /\ UnitAt(local, a.unit).faction = Mine
        /\ \A n \in DOMAIN pending : pending[n].action.unit # a.unit
    BY <1>1, <1>11
  <2>2. Tidy(base, pending, {}) /\ Overlay(local, base, Steps(pending, Len(pending)))
    BY <2>1 DEF ClientInv, MovesLaidOver
  <2>3. /\ Tidy(base, Append(pending, p), {})
        /\ Overlay(Execute(local, p.action), base,
                   Steps(Append(pending, p), Len(Append(pending, p))))
    BY <1>1, <1>2, <1>6, <2>1, <2>2, TidyMore
  <2> QED
    BY <1>1, <1>6, <2>3 DEF MovesLaidOver
<1> QED
  BY <1>1, <1>2, <1>4, <1>7, <1>9, <1>10, <1>11 DEF ClientInv

LEMMA ConfirmKeeps ==
  ASSUME ClientInv, NEW n \in DOMAIN pending, ConfirmAction(n)
  PROVE  ClientInv'
<1>1. /\ pending' = RemoveAt(pending, n) /\ base' = Execute(base, pending[n].action)
      /\ local' = local /\ localTurn' = localTurn /\ nextId' = nextId /\ careful' = careful
  BY DEF ConfirmAction
<1>2. /\ Playable(local) /\ Playable(base) /\ nextId \in Nat /\ localTurn \in Nat
      /\ pending \in Seq(AnyPrediction) /\ InOrder(pending)
      /\ \A k \in DOMAIN pending : pending[k].id < nextId
  BY DEF ClientInv
<1>3. /\ Len(pending) \in Nat /\ DOMAIN pending = 1 .. Len(pending)
      /\ pending' \in Seq(AnyPrediction) /\ InOrder(pending')
      /\ DOMAIN pending' = 1 .. Len(pending) - 1
      /\ \A k \in 1 .. Len(pending) - 1 :
           pending'[k] = IF k < n THEN pending[k] ELSE pending[k + 1]
  BY <1>1, <1>2, Around, Removed
<1>4. \A k \in DOMAIN pending' : pending'[k].id < nextId'
  <2> SUFFICES ASSUME NEW k \in 1 .. Len(pending) - 1
               PROVE  pending'[k].id < nextId
    BY <1>1, <1>3
  <2>1. k \in DOMAIN pending /\ k + 1 \in DOMAIN pending
    BY <1>3
  <2>2. pending'[k] = pending[k] \/ pending'[k] = pending[k + 1]
    BY <1>3
  <2> QED
    BY <1>2, <2>1, <2>2
<1>5. pending[n].action \in AnyAction
  <2>1. pending[n] \in AnyPrediction
    BY <1>2, <1>3, ElementOfSeq
  <2> QED
    BY <2>1 DEF AnyPrediction
<1>6. Playable(base')
  <2>1. CASE Executes(base, pending[n].action)
    BY <1>1, <1>2, <1>5, <2>1, ExecuteSound
  <2>2. CASE ~Executes(base, pending[n].action)
    BY <1>1, <1>2, <2>2 DEF Execute
  <2> QED
    BY <2>1, <2>2
<1>7. ASSUME careful
      PROVE  MovesLaidOver'
  <2> DEFINE A == Steps(pending, Len(pending))
             x == MoveOf(pending[n])
  <2>1. Tidy(base, pending, {}) /\ Overlay(local, base, A)
    BY <1>7 DEF ClientInv, MovesLaidOver
  <2>2. /\ x \in A
        /\ Steps(pending', Len(pending')) = A \ {x}
        /\ Tidy(base, pending', {})
    BY <1>1, <1>2, <2>1, TidyAround
  <2>3. {} \cup A = A
    OBVIOUS
  <2>4. Plans(base, A)
    BY <2>1, <2>3 DEF Tidy
  <2> HIDE DEF A, x
  <2>5. /\ Plans(Move(base, x[1], x[2]), A \ {x})
        /\ Overlay(local, Move(base, x[1], x[2]), A \ {x})
        /\ SameUnitsIn(Move(base, x[1], x[2]), base, A \ {x})
    BY <1>2, <2>1, <2>2, <2>4, OverlayConfirmed
  <2>6. base' = Move(base, x[1], x[2])
    <3>1. ValidMove(base, x[1], x[2])
      BY <2>2, <2>4 DEF Plans
    <3>2. pending[n].action.type = "move"
      BY <2>1 DEF Tidy
    <3>3. x[1] = pending[n].action.unit /\ x[2] = pending[n].action.tile
      BY DEF MoveOf, x
    <3> QED
      BY <1>1, <3>1, <3>2, <3>3 DEF Execute, Executes
  <2>7. ASSUME NEW k \in DOMAIN pending'
        PROVE  UnitAt(base', pending'[k].action.unit) = UnitAt(base, pending'[k].action.unit)
    <3>1. DOMAIN pending' = 1 .. Len(pending')
      BY <1>3, LenProperties
    <3>2. <<pending'[k].action.unit, pending'[k].action.tile>> \in A \ {x}
      BY <2>2, <3>1 DEF Steps
    <3> QED
      BY <2>5, <2>6, <3>2 DEF SameUnitsIn
  <2>8. {} \cup (A \ {x}) = A \ {x}
    OBVIOUS
  <2>9. Plans(base', {} \cup Steps(pending', Len(pending')))
    BY <2>2, <2>5, <2>6, <2>8
  <2>10. Tidy(base', pending', {})
    BY <2>2, <2>7, <2>9 DEF Tidy
  <2>11. Overlay(local', base', Steps(pending', Len(pending')))
    BY <1>1, <2>2, <2>5, <2>6
  <2> QED
    BY <2>10, <2>11 DEF MovesLaidOver
<1> QED
  BY <1>1, <1>2, <1>3, <1>4, <1>6, <1>7 DEF ClientInv

LEMMA RejectKeeps ==
  ASSUME ClientInv, NEW n \in DOMAIN pending, RejectAction(n)
  PROVE  ClientInv'
<1> DEFINE l == Before(pending, n)
           f == Since(pending, n)
           a == After(pending, n)
           undone == RollbackAll(local, f)
           again == Reapply(undone, a)
<1>1. /\ local' = again.world /\ pending' = l \o again.pending
      /\ localTurn' = localTurn /\ nextId' = nextId /\ base' = base /\ careful' = careful
  BY DEF RejectAction, Before, Since, After
<1>2. /\ Playable(local) /\ Playable(base) /\ nextId \in Nat /\ localTurn \in Nat
      /\ pending \in Seq(AnyPrediction) /\ InOrder(pending)
      /\ \A k \in DOMAIN pending : pending[k].id < nextId
  BY DEF ClientInv
<1>3. /\ Len(pending) \in Nat /\ DOMAIN pending = 1 .. Len(pending) /\ n \in 1 .. Len(pending)
      /\ l \in Seq(AnyPrediction) /\ DOMAIN l = 1 .. n - 1 /\ Len(l) = n - 1
      /\ \A k \in 1 .. n - 1 : l[k] = pending[k]
      /\ f \in Seq(AnyPrediction)
      /\ a \in Seq(AnyPrediction) /\ DOMAIN a = 1 .. Len(pending) - n
      /\ \A k \in 1 .. Len(pending) - n : a[k] = pending[n + k]
  BY <1>2, Around
<1>4. InOrder(l) /\ InOrder(a) /\ RemoveAt(pending, n) = l \o a
  BY <1>2, Removed
<1> HIDE DEF l, f, a
<1>5. Playable(undone)
  BY <1>2, <1>3, RollbackAllSound
<1> HIDE DEF undone
<1>6. /\ Playable(again.world) /\ again.pending \in Seq(AnyPrediction) /\ InOrder(again.pending)
      /\ \A k \in DOMAIN again.pending : \E m \in DOMAIN a : again.pending[k] = a[m]
  <2>1. a \in Seq(AnyPrediction) /\ InOrder(a)
    BY <1>3, <1>4
  <2> QED
    BY <1>5, <2>1, ReapplySound
<1> HIDE DEF again
<1>7. ASSUME NEW k \in DOMAIN again.pending
      PROVE  \E m \in DOMAIN pending : m > n /\ again.pending[k] = pending[m]
  <2>1. PICK m \in DOMAIN a : again.pending[k] = a[m]
    BY <1>6
  <2>2. n + m \in DOMAIN pending /\ n + m > n /\ a[m] = pending[n + m]
    BY <1>3
  <2> QED
    BY <2>1, <2>2
<1>8. ASSUME NEW j \in DOMAIN l
      PROVE  j \in DOMAIN pending /\ j < n /\ l[j] = pending[j]
  BY <1>3
<1>9. \A j \in DOMAIN l, k \in DOMAIN again.pending : l[j].id < again.pending[k].id
  <2> TAKE j \in DOMAIN l, k \in DOMAIN again.pending
  <2>1. PICK m \in DOMAIN pending : m > n /\ again.pending[k] = pending[m]
    BY <1>7
  <2>2. j < m
    BY <1>3, <1>8, <2>1
  <2> QED
    BY <1>2, <1>8, <2>1, <2>2 DEF InOrder
<1>10. /\ pending' \in Seq(AnyPrediction) /\ InOrder(pending')
       /\ \A k \in DOMAIN pending' : \/ \E m \in DOMAIN l : pending'[k] = l[m]
                                     \/ \E m \in DOMAIN again.pending :
                                          pending'[k] = again.pending[m]
  <2> DEFINE q == again.pending
  <2>1. l \in Seq(AnyPrediction) /\ InOrder(l) /\ q \in Seq(AnyPrediction) /\ InOrder(q)
    BY <1>3, <1>4, <1>6
  <2>2. \A m \in DOMAIN l, k \in DOMAIN q : l[m].id < q[k].id
    BY <1>9
  <2>3. pending' = l \o q
    BY <1>1
  <2> HIDE DEF q
  <2>4. /\ l \o q \in Seq(AnyPrediction) /\ InOrder(l \o q)
        /\ \A k \in DOMAIN (l \o q) : \/ \E m \in DOMAIN l : (l \o q)[k] = l[m]
                                      \/ \E m \in DOMAIN q : (l \o q)[k] = q[m]
    BY <2>1, <2>2, Joined
  <2> QED
    BY <2>3, <2>4 DEF q
<1>11. \A k \in DOMAIN pending' : pending'[k].id < nextId'
  <2> TAKE k \in DOMAIN pending'
  <2>1. PICK m \in DOMAIN pending : pending'[k] = pending[m]
    BY <1>7, <1>8, <1>10
  <2> QED
    BY <1>1, <1>2, <2>1
<1>12. ASSUME careful
       PROVE  MovesLaidOver'
  <2> DEFINE A == Steps(pending, n - 1)
             all == Steps(pending, Len(pending))
  <2>1. Tidy(base, pending, {}) /\ Overlay(local, base, all)
    BY <1>12 DEF ClientInv, MovesLaidOver
  <2>2. /\ A \cup Steps(f, Len(f)) = all
        /\ A \cup Steps(a, Len(a)) = Steps(RemoveAt(pending, n), Len(RemoveAt(pending, n)))
        /\ Tidy(base, f, A) /\ Tidy(base, a, A)
        /\ Tidy(base, RemoveAt(pending, n), {})
    BY <1>2, <2>1, TidyAround DEF f, a
  <2> HIDE DEF A, all
  <2>3. Overlay(undone, base, A)
    BY <1>2, <1>3, <2>1, <2>2, RollbackMoves DEF undone
  <2>4. again.pending = a /\ Overlay(again.world, base, A \cup Steps(a, Len(a)))
    BY <1>2, <1>3, <1>5, <2>2, <2>3, ReapplyMoves DEF again
  <2>5. pending' = RemoveAt(pending, n)
    BY <1>1, <1>4, <2>4
  <2> QED
    BY <1>1, <2>2, <2>4, <2>5 DEF MovesLaidOver
<1> QED
  BY <1>1, <1>2, <1>6, <1>10, <1>11, <1>12 DEF ClientInv

LEMMA ReconcileKeeps ==
  ASSUME ClientInv, ServerInv, Reconcile
  PROVE  ClientInv'
<1> DEFINE synced == Synchronize(local, world)
           again == Reapply(synced, pending)
<1>1. /\ local' = again.world /\ localTurn' = turn /\ pending' = again.pending
      /\ base' = synced /\ careful' = (pending = <<>>) /\ nextId' = nextId
  BY DEF Reconcile
<1>2. /\ Playable(local) /\ nextId \in Nat /\ turn \in Nat /\ Sound(world) /\ Living(world)
      /\ pending \in Seq(AnyPrediction) /\ InOrder(pending)
      /\ \A k \in DOMAIN pending : pending[k].id < nextId
  BY DEF ClientInv, ServerInv, WorldInv
<1>3. Playable(synced)
  BY <1>2, SynchronizeSound
<1> HIDE DEF synced
<1>4. /\ Playable(again.world) /\ again.pending \in Seq(AnyPrediction) /\ InOrder(again.pending)
      /\ \A k \in DOMAIN again.pending : \E m \in DOMAIN pending : again.pending[k] = pending[m]
  BY <1>2, <1>3, ReapplySound
<1>5. ASSUME pending = <<>>
      PROVE  MovesLaidOver'
  <2>1. Tidy(synced, <<>>, {}) /\ <<>> \in Seq(AnyPrediction)
        /\ {} \cup Steps(<<>>, Len(<<>>)) = Steps(<<>>, Len(<<>>))
    BY NothingPending
  <2>2. /\ again.pending = <<>>
        /\ Overlay(again.world, synced, {} \cup Steps(<<>>, Len(<<>>)))
    BY <1>3, <1>5, <2>1, OverlayNothing, ReapplyMoves
  <2> QED
    BY <1>1, <2>1, <2>2 DEF MovesLaidOver
<1> HIDE DEF again
<1> QED
  BY <1>1, <1>2, <1>3, <1>4, <1>5 DEF ClientInv

\* The step of the server that the client does not see.
LEMMA ServerKeeps ==
  ASSUME ServerInv, ServerStep
  PROVE  ServerInv'
<1>1. WorldInv'
  BY StepSound DEF ServerInv, ServerStep, PlayNext
<1>2. turn' \in Nat
  BY DEF ServerInv, ServerStep, ProcessAction, EndOfTurn
<1> QED
  BY <1>1, <1>2 DEF ServerInv

\* Whatever the server answers to its predictions and whenever, a client's
\* copy of the game is sound, its predictions stay in the order in which they
\* were made, and as long as they are moves of its own units, one each, the
\* copy is the confirmed game with those moves made, on any map, with any
\* armies and any number of predictions.
THEOREM PredictionsAlwaysSound == PredictionSpec => []PredictionsAreSound
<1> DEFINE PNext == \/ ClientStep /\ UNCHANGED vars
                    \/ ServerStep /\ UNCHANGED client
<1>1. ServerInv /\ ClientInv /\ [PNext]_<<vars, client>> => ServerInv' /\ ClientInv'
  <2> SUFFICES ASSUME ServerInv, ClientInv, [PNext]_<<vars, client>>
               PROVE  ServerInv' /\ ClientInv'
    OBVIOUS
  <2>1. ASSUME UNCHANGED vars
        PROVE  ServerInv'
    BY <2>1 DEF ServerInv, WorldInv, vars
  <2>2. ASSUME UNCHANGED client
        PROVE  ClientInv'
    BY <2>2 DEF ClientInv, MovesLaidOver, client
  <2>3. ASSUME ClientStep
        PROVE  ClientInv'
    <3>1. CASE \E a \in GameActions(local) : PredictAction(a)
      BY <3>1, PredictKeeps
    <3>2. CASE Answer
      BY <3>2, ConfirmKeeps, RejectKeeps DEF Answer
    <3>3. CASE Reconcile
      BY <3>3, ReconcileKeeps
    <3>4. CASE ClearPredictions
      BY <3>4, NothingPending DEF ClearPredictions, ClientInv, MovesLaidOver
    <3> QED
      BY <2>3, <3>1, <3>2, <3>3, <3>4 DEF ClientStep
  <2>4. ASSUME ServerStep
        PROVE  ServerInv'
    BY <2>4, ServerKeeps
  <2> QED
    BY <2>1, <2>2, <2>3, <2>4
<1>2. ClientInv => PredictionsAreSound
  BY ClientInvShows
<1>3. PredictionInit => ServerInv /\ ClientInv
  BY PredictionStarts
<1> QED
  BY <1>1, <1>2, <1>3, PTL DEF PredictionSpec

=============================================================================
