---------------------------- MODULE Pathfinding ----------------------------
(***************************************************************************)
(* The searches of game/Pathfinding.cpp over a world that does not change  *)
(* meanwhile: findPath and findPathWithZoc (A-star) and                    *)
(* computeMovementRange (Dijkstra), one node of the queue a step.          *)
(*                                                                         *)
(* A priority queue leaves open which of several nodes of the same         *)
(* priority comes first, and so does the model.  No node is ever queued    *)
(* twice with one priority, since its cost falls each time; so the queue   *)
(* is a set.                                                               *)
(***************************************************************************)
EXTENDS World

CONSTANTS
  Worlds,          \* the worlds that are searched
  Searches         \* records: which search, start, goal, budget, faction

Kind == {"path", "pathWithZoc", "range"}

\* The first unit of a world is the one that wants to walk.
PathfindingAssumption ==
  /\ Searches \subseteq
       [kind : Kind, start : Tiles, goal : Tiles, budget : Nat, faction : Factions]
  /\ \A w \in Worlds :
       /\ Sound(w) /\ Living(w) /\ w.order # <<>>
       /\ \A s \in Searches : UnitAt(w, 1).faction = s.faction

VARIABLES
  world,
  search,
  queue,           \* openSet, or frontier: pairs of a tile and its priority
  cost,            \* gScore, or bestCost: on the tiles visited so far
  cameFrom,        \* for the paths
  done,            \* the search has returned
  answer           \* what: a path, or a function from tiles to costs

vars == <<world, search, queue, cost, cameFrom, done, answer>>

\* Units of any other faction block a tile, at war or not.
Blocked(t) ==
  \/ MoveCost[t] = 0
  \/ \E p \in world.registry[t] : world.unit[p].faction # search.faction

\* Mutant: the distance is counted twice, and no longer a lower bound.
OverEstimate(t) == IF search.kind = "range" THEN 0 ELSE 3 * HexDistance(t, search.goal)

\* What is left to the goal, at least.
Heuristic(t) == IF search.kind = "range" THEN 0 ELSE HexDistance(t, search.goal)

\* The start is never blocked, the goal is looked at first.
Init ==
  /\ world \in Worlds
  /\ search \in Searches
  /\ queue = {<<search.start, Heuristic(search.start)>>}
  /\ cost = [t \in {search.start} |-> 0]
  /\ cameFrom = [t \in {} |-> t]
  /\ done = (search.kind # "range" /\ (search.start = search.goal \/ Blocked(search.goal)))
  /\ answer = <<>>

\* Whether a tile is in an enemy's zone of control.
IsInEnemyZoc(t) == EnemiesNear(world, t, search.faction) # {}

\* A unit stops where it enters a zone of control.
StopsAt(t) == search.kind = "pathWithZoc" /\ t # search.start /\ IsInEnemyZoc(t)

Passable(from, to) ==
  /\ ~Blocked(to)
  /\ search.kind = "pathWithZoc" => ~BlockedByZoc(world, from, to, search.faction)

\* A first way to a tile, or a cheaper one than any before.
Improves(from, to) ==
  LET c == cost[from] + MoveCost[to]
  IN  /\ to \in DOMAIN cost => c < cost[to]
      /\ search.kind = "range" => c <= search.budget

\* An entry of a tile whose cost has fallen since.  The paths see none: they
\* compare a cost with itself.
Stale(node) == search.kind = "range" /\ node[2] > cost[node[1]]

\* The neighbours of a tile that are queued, for the first time or again.
Expanded(node) ==
  LET t == node[1]
  IN  IF Stale(node) \/ StopsAt(t) THEN {}
      ELSE {n \in Neighbors(t) : Passable(t, n) /\ Improves(t, n)}

\* A node with the least priority.
Top(node) == node \in queue /\ \A other \in queue : node[2] <= other[2]

\* Mutant: the node is looked at and stays in the queue.
ExpandWithoutPop(node) ==
  LET t == node[1]
      next == Expanded(node)
      newCost == [n \in DOMAIN cost \cup next |->
                    IF n \in next THEN cost[t] + MoveCost[n] ELSE cost[n]]
  IN  /\ cost' = newCost
      /\ cameFrom' = [n \in DOMAIN cameFrom \cup next |->
                        IF n \in next THEN t ELSE cameFrom[n]]
      /\ queue' = queue \cup {<<n, newCost[n] + Heuristic(n)>> : n \in next}
      /\ UNCHANGED <<world, search, done, answer>>

Expand(node) ==
  LET t == node[1]
      next == Expanded(node)
      newCost == [n \in DOMAIN cost \cup next |->
                    IF n \in next THEN cost[t] + MoveCost[n] ELSE cost[n]]
  IN  /\ cost' = newCost
      /\ cameFrom' = [n \in DOMAIN cameFrom \cup next |->
                        IF n \in next THEN t ELSE cameFrom[n]]
      /\ queue' = (queue \ {node}) \cup {<<n, newCost[n] + Heuristic(n)>> : n \in next}
      /\ UNCHANGED <<world, search, done, answer>>

\* From the goal back to the start, which is left out.
ReconstructPath ==
  LET from == [t \in {search.start} \cup DOMAIN cameFrom |->
                 IF t = search.start THEN t ELSE cameFrom[t]]
      back[n \in 0 .. Rows * Cols] == IF n = 0 THEN search.goal ELSE from[back[n - 1]]
      length == Min({n \in 0 .. Rows * Cols : back[n] = search.start})
  IN  [n \in 1 .. length |-> back[length - n]]

FoundGoal(node) ==
  /\ search.kind # "range"
  /\ node[1] = search.goal
  /\ done' = TRUE
  /\ answer' = ReconstructPath
  /\ UNCHANGED <<world, search, queue, cost, cameFrom>>

ExpandTop(node) ==
  /\ search.kind # "range" => node[1] # search.goal
  /\ Expand(node)

\* No path; or the tiles in range, the start left out.
Exhausted ==
  /\ queue = {}
  /\ done' = TRUE
  /\ answer' = IF search.kind = "range"
               THEN [t \in DOMAIN cost \ {search.start} |-> cost[t]] ELSE <<>>
  /\ UNCHANGED <<world, search, queue, cost, cameFrom>>

Next ==
  /\ ~done
  /\ \/ \E node \in queue :
          Top(node) /\ (FoundGoal(node) \/ ExpandTop(node))
     \/ Exhausted

Spec == Init /\ [][Next]_vars

\* The loop runs until it returns.
FairSpec == Spec /\ WF_vars(Next)

-----------------------------------------------------------------------------
(* The reference: the least cost of all ways there are to each tile.       *)

\* Where a way may go on.
Onward(from) == IF StopsAt(from) THEN {} ELSE {t \in Neighbors(from) : Passable(from, t)}

\* Pairs of a tile and what a way costs that leads there: those that are a step
\* longer at most, and of these the cheapest to each tile.
Longer ==
  [ways \in SUBSET (Tiles \X Nat) |->
     ways \cup UNION {{<<t, way[2] + MoveCost[t]>> : t \in Onward(way[1])} : way \in ways}]

Cheapest ==
  [ways \in SUBSET (Tiles \X Nat) |->
     {way \in ways : \A other \in ways : other[1] = way[1] => way[2] <= other[2]}]

\* Ways of up to n steps, for ever larger n.
LeastCosts ==
  LET after[n \in 0 .. Rows * Cols - 1] ==
        IF n = 0 THEN {<<search.start, 0>>} ELSE Cheapest[Longer[after[n - 1]]]
  IN  after[Rows * Cols - 1]

CostsTo(t) == {way[2] : way \in {w \in LeastCosts : w[1] = t}}

PathCost(path) ==
  LET sum[n \in 0 .. Len(path)] == IF n = 0 THEN 0 ELSE sum[n - 1] + MoveCost[path[n]]
  IN  sum[Len(path)]

-----------------------------------------------------------------------------
(* What is checked. *)

TypeOK ==
  /\ search.kind \in Kind
  /\ queue \subseteq Tiles \X Nat
  /\ DOMAIN cost \subseteq Tiles /\ search.start \in DOMAIN cost
  /\ \A t \in DOMAIN cost : cost[t] \in Nat
  /\ DOMAIN cameFrom = DOMAIN cost \ {search.start}

\* Every tile visited is reached from the one it came from at the cost it is
\* given or less, so that following cameFrom back ends at the start,
\* however the costs have been improved meanwhile.
WaysLeadBack ==
  \A t \in DOMAIN cameFrom :
    LET from == cameFrom[t]
    IN  /\ from \in DOMAIN cost
        /\ t \in Neighbors(from)
        /\ Passable(from, t)
        /\ cost[from] + MoveCost[t] <= cost[t]

\* The flood of computeMovementRange meets no outdated entry, though it looks
\* for them: what a step costs depends on where it leads alone, so the first
\* way that finds a tile is a cheapest one.
NothingGoesStale == \A node \in queue : ~Stale(node)

\* findPath and findPathWithZoc return a cheapest way from neighbour to
\* neighbour, and none only where there is none, whichever of the nodes of
\* equal priority are taken first.
PathIsCheapest ==
  (done /\ search.kind # "range") =>
     IF answer = <<>>
     THEN search.start = search.goal \/ CostsTo(search.goal) = {}
     ELSE /\ answer[Len(answer)] = search.goal
          /\ CostsTo(search.goal) = {PathCost(answer)}
          /\ \A i \in DOMAIN answer :
               Passable(IF i = 1 THEN search.start ELSE answer[i - 1], answer[i])

\* computeMovementRange returns exactly the tiles that the budget can pay
\* for, each with the least it costs.
RangeIsExact ==
  (done /\ search.kind = "range") =>
     {<<t, answer[t]>> : t \in DOMAIN answer}
       = {way \in LeastCosts : way[1] # search.start /\ way[2] <= search.budget}

\* The walking unit, the first of the world, rested and on another tile.
RestedUnitOn(t) ==
  LET walker == world.order[1]
  IN  [world EXCEPT !.unit = [@ EXCEPT ![walker].tile = t],
                    !.registry = [n \in Tiles |-> IF n = t THEN @[n] \cup {walker} ELSE @[n] \ {walker}]]

\* A plan made with zones of control can be carried out: MoveAction accepts
\* each of its steps from a unit that is rested before it, if it can move as
\* far in a turn as the tile costs.
PlanIsWalkable ==
  (done /\ search.kind = "pathWithZoc") =>
     \A i \in DOMAIN answer :
       MoveCost[answer[i]] <= UnitAt(world, 1).moves =>
         ValidMove(RestedUnitOn(IF i = 1 THEN search.start ELSE answer[i - 1]), 1, answer[i])

\* All of it: what a search of any kind answers, and what it knows until then.
SearchIsRight ==
  /\ TypeOK /\ WaysLeadBack /\ NothingGoesStale
  /\ PathIsCheapest /\ RangeIsExact /\ PlanIsWalkable

\* Every search comes to an end.
SearchEnds == <>done

=============================================================================
