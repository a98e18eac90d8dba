# My4X in TLA+

My4X is a turn-based 4X strategy game on a hexagonal map, in C++: a game
library (`src/game`), a network client (`src/network`), a server of stubs
(`src/server`), a rendering engine (`src/engine`) and a local application
(`src/app`).  This directory models what they do: who may act when, what turns,
connections, moves, fights and production do to the state, what a client
predicts, what is saved and loaded, what the user sees of it, and what must stay
true of all that.  TLC checks the models on small instances; TLAPS proves the
central results for every value of the constants.

## 1. Inventory

### The parts and how they interact

| part | state | operations | used by |
|---|---|---|---|
| `LobbyManager` | lobbies: slots, host, state; the sessions it started | createGame, joinGame, leaveGame, startGame, finishGame, getSession | the (future) server |
| `GameSession` | the `GameState`; per player a connection status and an end-of-turn mark | add/remove/connect/disconnectPlayer, endTurn, tryAdvanceTurn, applyAction | everything below |
| `TurnManager` | deadline, grace deadline, the players who were ready | startTurn, playerEndTurn, tryAdvance (polled) | its host; calls `GameSession` |
| `ReconnectionManager` | its own table of players, when each was lost, who was eliminated, the last snapshot | registerPlayer, unregisterPlayer, handleDisconnect, handleReconnect, checkTimeouts (polled) | its host; calls `GameSession` and removes units from its `GameState` |
| `ActionProcessor` | none | processAction: move, attack, capture, end of turn, unit production, building | its host, for a client; calls `GameSession` and the actions |
| `GameState`, `TileRegistry` | vector of units, cities, buildings, resources; what is filed under each tile (raw unit pointers) | addUnit, removeUnit, removeDeadUnits, addCity, addBuilding, restore... | the actions, `TurnResolver`, loading |
| `MoveAction`, `AttackAction`, `CaptureAction` | the indices and tiles they were made with | validate, execute | `ActionProcessor`, `GameSession`, the application |
| `Unit`, `Combat` | position, health, movement, experience | damage, experience; resolveCombat is pure | the actions |
| `TurnResolver`, `City`, `BuildQueue` | orders, accumulated production, population, food, gold | resolveTurn; enqueue, applyProduction, cancel, clear | `GameSession::tryAdvanceTurn` |
| `NeutralAI` | none | generateActions | `resolveTurn`, which hands the intents out |
| `ZoneOfControl`, `Pathfinding`, `FogOfWar` | the fog keeps a grid per faction | queries; recalculate | `MoveAction`, the application |
| `DiplomacyManager`, `FactionRegistry` | factions with their ids; a relation per pair | addFaction; setRelation, initializeDefaults, clear | `GameState` |
| `Map`, `MapGenerator` | tiles: terrain, elevation, water, rivers | construction, generate, spawnPoints | `GameState`, loading |
| `PredictionManager` | the client's unconfirmed actions with a snapshot of one unit each | predictAction, confirmAction, rejectAction, reconcile | a client |
| `NetworkClient` | connection state, a network thread, detached threads of submissions | connect, disconnect, submitAction, pollEvents | the (future) application |
| `Serialization`, `SaveLoad` | files | serialize, deserialize; saveGame, loadGame, latestSavePath | the application |
| `GamePersistence` | a SQLite connection, owned by an object that can be moved | saveGame, loadGame, listGames, deleteGame | the (future) server |
| `CombatLog` and its panel | a ring buffer; a scroll offset | append, clear; recentEvents, eventsForTurn, allEvents | the application |
| application (`main.cpp`) | screen, selection by unit index, hovered tile, its own processing of turns | the frame: cinematic, animations, input, saving, drawing | the user |
| engine: `UnitAnimator`, `CombatEffects`, `CameraCinematic`, `Transition`, `MenuSystem` | what is under way, and for how long | started by input, advanced by frames | the application |
| engine: `AnimationController`, `ParticleSystem`, `AudioManager`, `ModelManager` | entities; a pool; what is open at the device | play, update; emit; load, unload, moves | tests; models by the application |
| engine: `Minimap`, `HexGrid`, `Input`, `Tooltip` | none but the tooltip's time | from tiles to pixels, from the mouse to tiles | the application |

The classes of the game library lock nothing and start no threads.  They are
meant to be driven by a single host that serialises the calls, but the calls
come from many clients, whose order nobody controls, and from timers the host
polls.  The server that would be this host consists of stubs that answer
UNIMPLEMENTED, so the models take the interfaces at their word: a public method
is an atomic step, and a step may come whenever its caller could make it.  Only
`NetworkClient` has threads; it is modelled statement by statement.  The
application is one loop, one frame a step, with any input in any frame.

### What is hard here

 * *Interleavings of clients and timers.*  Finishing a turn, losing and
   regaining a connection, deadlines, the grace period and eliminations are
   decided by three classes with books of their own.
 * *Names that go stale.*  Units are named by an index into a vector from which
   units are removed (by the actions, the application's selection, predictions,
   animations, the neutrals' intents); the tile registry holds raw pointers to
   units that may be destroyed.
 * *Ownership that changes in the middle of things.*  A city may fall between an
   order and its completion; databases, sounds and models have owners that are
   moved, assigned and destroyed.
 * *Answers that come late or in another order*: confirmations, rejections and
   reconciliations of predictions.
 * *Threads* of the network client; *crashes* and full disks while saving.
 * *Formulas on an offset grid*, of which the code has several copies, and
   searches whose queue leaves the order of equals open.
 * *Frames of any length*: several times that end in one frame, in an order.

`PROJECT.json` lists the hazards one by one, each at its line and with the
properties that would catch it.

### What makes each part right

 * session and turns: a turn closes exactly when every connected player has
   finished or it is overdue; nobody finishes two turns with one click; no
   absent player can hold up the others; a deadline is that of its turn.
 * connections: the books agree; nobody is eliminated early, or forgotten;
   elimination is complete, and final.
 * world: the ways to find a unit agree; nobody dead acts or guards; zones of
   control and garrisons hold against every sequence of steps; fighting ends.
 * economy: a city works for its owner; nothing is made out of nothing.
 * client: what it shows is what was confirmed and what it predicts on top.
 * application: an order is carried out by the unit that was selected; the map
   shows what is seen; a game that is saved and loaded is the same game.
 * services: seats and sessions match; what was saved survives; whoever owns a
   connection or a device owns it alone; disconnecting ends.
 * algorithms: distance, sight, paths, picked tiles, minimap and maps are what an
   independent definition says.

## 2. The modules

| module | what it is | from |
|---|---|---|
| `GameSession` | the session as a record of sets; its methods as functions | `GameSession.{h,cpp}` |
| `TurnManager` | deadlines and grace period; extends `GameSession` | `TurnManager.{h,cpp}` |
| `ReconnectionManager` | connections, timeouts, elimination; extends `GameSession` | `ReconnectionManager.{h,cpp}` |
| `SimultaneousTurns` | *abstract*: what a game of simultaneous turns promises | - |
| `TurnServer` | composition of the four above (and of the end-of-turn action); history variables; properties | `ActionProcessor.cpp`, `LobbyManager.cpp` |
| `HexGrid` | neighbours, distance, sight | `Pathfinding.cpp`, `AttackAction.cpp`, `FogOfWar.cpp` |
| `World` | units, vector, registry, cities; statistics, levels and the exchange of blows; move, attack, capture; zones of control | `Unit.cpp`, `Combat.cpp`, `GameState.cpp`, `TileRegistry.cpp`, the three actions, `ZoneOfControl.cpp` |
| `Economy` | yields, build queues, growth, the passing of a turn | `TurnResolver.cpp`, `BuildQueue.cpp`, `City.cpp` |
| `ActionProcessor` | the world under the actions of clients and the end of the turn; properties | `ActionProcessor.cpp`, `GameSession.cpp` |
| `NeutralAI` | what neutral units intend at the end of a turn | `NeutralAI.cpp` |
| `Prediction` | a client's predictions over `World`, with the server playing on; extends `ActionProcessor` | `PredictionManager.cpp` |
| `GameRules` | the numbers of the game: units, buildings, terrain | `UnitTypeRegistry.cpp`, `Building.cpp`, `TerrainType.h` |
| `FogOfWar` | what a faction sees and has seen | `FogOfWar.cpp` |
| `Serialization` | a game as a message, and the game made of a message | `Serialization.cpp` |
| `LocalGame` | the application's frame: selection, orders, turns, saving and loading, what is drawn; extends the three above | `main.cpp` |
| `Pathfinding` | A-star with and without zones of control, movement range, node by node | `Pathfinding.cpp` |
| `TerrainMap` | random and generated maps, rivers, smoothing, spawns, what a load makes of them | `Map.cpp`, `MapGenerator.cpp`, `HexDirection.h` |
| `Minimap` | the two scalings of the minimap | `Minimap.cpp` |
| `Pointing` | from a point to a tile; the tooltip | `HexGrid.cpp`, `Input.cpp`, `Tooltip.cpp` |
| `LobbyManager` | lobbies and the sessions they start | `LobbyManager.cpp` |
| `NetworkClient` | its threads, statement by statement | `NetworkClient.cpp` |
| `SaveLoad` | save files under crashes, full disks and clocks set back | `SaveLoad.cpp` |
| `GamePersistence` | the database and the objects that own a connection | `GamePersistence.cpp` |
| `BoundedLog` | *abstract*: a log of the last N events | - |
| `CombatLog` | the ring buffer and the panel's window on it; implements `BoundedLog` | `CombatLog.cpp`, `CombatLogRenderer.cpp` |
| `Factions` | the registry and diplomacy | `FactionRegistry.cpp`, `DiplomacyManager.cpp` |
| `Screens` | menus, settings and the game, with the fades between them | `main.cpp`, `MenuSystem.cpp`, `Transition.cpp` |
| `Animation` | units' animations, effects, the camera's flight, the frame around them | `UnitAnimator.cpp`, `CombatEffects.cpp`, `CameraCinematic.cpp`, `main.cpp` |
| `AnimationController` | states of animated entities, with callbacks | `AnimationController.cpp` |
| `ParticleSystem`, `AudioManager`, `ModelManager` | the pool; sounds and music; models and the window | the files of these names |
| `TurnServerProofs`, `EconomyProofs`, `WorldProofs`, `GeometryProofs`, `TerrainMapProofs`, `LocalGameProofs`, `ServicesProofs`, `FrontendProofs` | the theorems, see section 4 | - |
| `MCActionProcessor`, `MCLocalGame`, `MCPrediction` | instances for TLC | - |
| `MCAlgorithms`, `MCServices`, `MCFrontend` | several components at once, see section 3 | - |

Operators that end in a word such as `...KeepingGrace` and are introduced by
the comment "Mutant:" are no part of the model: each is a way in which the
definition after it could have been wrong, and each property of a passing run
has one that breaks it (`mutants` in `PROJECT.json`).

### State and actions against the code

*Session.*  `players_`, an `unordered_map` of `PlayerInfo`, becomes three sets:
`players`, `connected`, `ended`.  The turn number is `GameState`'s.  Methods are
functions from sessions to sessions since `TurnManager::tryAdvance` and others
call several of them in one step.

*Time.*  `TurnManager` and `ReconnectionManager` are given the current time and
compare it with deadlines they have computed.  The models keep the time elapsed
since a deadline was armed, up to the value that decides the comparison;
`Tick` lets time pass.  So `currentTime >= deadline_` is
`turnClock >= TurnDuration`, and time needs no bound.  Callers are taken to pass
times that never go back, as both classes' documentation has it.  In the engine
time is an integer of the unit that all durations are multiples of.

*History.* `age`, `sinceEnd` and `offline` in `TurnServer` record what really
happened (the age of the session's turn, the time since its first end-of-turn, how
long each player has been away), independently of the managers' books. `base` and
`careful` in `Prediction`, `kept` and `begun` in `SaveLoad`, `recent`, `closed` and
`leaked` in `GamePersistence`, `chosen` in `LocalGame`, `hist` in `Animation` and
`deaths` in `AnimationController` are history variables, too.

*Hosts.*  `Spec` allows every public call at any time.  `HostSpec` is the use
the headers describe: `LobbyManager::startGame` has added the players, each is
registered once, turns end through `TurnManager`, connections go through
`ReconnectionManager`, a player who leaves is also unregistered.

*World.*  One record: `order` is the vector `units_`, `unit` maps the pointers
that are alive to units, `registry` maps tiles to pointers.  A destroyed unit's
pointer is outside the domain of `unit`, so that using one is an error TLC
reports.  A pointer may be used again by a later unit.  A unit's level is a
function of its experience.  Indices start at 1.  Terrain is a cost and a
defense bonus for each tile, relations are the constant `AtWar`.

*Towns.*  `town` holds what concerns cities: owner, queue, stock of production,
population, food, buildings, gold.  An order carries, as history, the faction of
the player who placed it (`by`).

*Actions.*  One operator validates (`ValidMove`) and one executes (`Move`), as
in the code; a refused action changes nothing and is left out.  Clients may send
any index, as in the code, and act with any unit, as in the code.  They may name a
destination beside the map, too, for which `MoveAction` calls `Map::tile`
(`MoveOffTheMap`; farther away it is not adjacent and refused).  A build with
assertions ends there (`process` is "ended").  One without reads beyond the vector of
tiles: the process ends, or the move is refused for what it reads, or the unit pays
some cost and walks off (`process` is "strayed").  The model ends with that step, as
every later look at the terrain under the unit is undefined again.

*Predictions.*  The client's world is a `World` of its own; an answer of the
server is applied in the order in which the model chooses answers to arrive.
In `PredictionSpec` a client predicts moves, attacks and captures while the server
plays on; in `FightingSpec` it predicts one attack at a time.

*The application.*  A step of `LocalGame` is a frame: an input out of a small
set (nothing, a click anywhere, a key with the mouse anywhere, the end-turn
button with or without a tile beneath it), handled by the same calls in the same
order as `updateInGame`, `handleInput` and `handleSaveLoad` make them.  Animations
and the cinematic may end in any frame here; how long they last is `Animation`'s.

*Searches.*  One step expands one node; the priority queue is a set of pairs of
a tile and its priority, of which any with the least priority may be next.

*Threads.*  `pc` in `NetworkClient` says which statement of `connect`,
`disconnect` or `submitAction` a caller is at; the network thread and the
detached threads of submissions have steps of their own.

*External.*  raylib (audio device, models, window, mouse), the file system,
SQLite and gRPC are modelled by what the code in `src` does with them: as sets of
what is open, uploaded or stored.

## 3. The runs

| run | module | bounds | time | what it shows |
|---|---|---|---|---|
| `Host` | `TurnServer` | 3 players (symmetric), duration 2, grace 1, timeout 2, 2 turns | 5 s | the books of the three classes agree, expiry and elimination are earned |
| `HostLive` | `TurnServer` | 2 players, 3 turns | 8 s | every turn that can close closes, no absence lasts |
| `Api` | `TurnServer` | 2 players, duration 1, grace 1, timeout 1, 2 turns | 40 s | calls in any order make up a game of simultaneous turns |
| `Skirmish` | `MCActionProcessor` | 2 x 3 tiles and a place beside each side, 3 units of 3 kinds, 1 city, 3 turns | 50 s | vector and registry, removals, zones of control, garrisons, the neutrals' targets |
| `Production` | `MCActionProcessor` | 1 x 3 tiles and two places beside them, 2 cities that share a tile, 2 to 4 units, queues of 1, 3 turns | 125 s | orders, completion, spawning, captures, elimination |
| `Predict` | `MCPrediction` | 2 x 3 tiles, 3 units, 3 predictions, 1 turn | 50 s | the client's world under answers in any order |
| `Battle` | `MCLocalGame` | 1 x 9 tiles, the real numbers, 4 pointers, 4 turns, a save in turn 2 | 150 s | the application: selection, sight, books, saving and loading |
| `Algorithms` | `MCAlgorithms` | 4 x 4 tiles and an enemy at 4 places; a minimap of 194 x 144; the mouse up to a tile off the 4 x 4 tiles, at points of 6 to a tile, frames of 1 or 2 and a delay of 3; maps of 7 x 8 to 15 x 15 and of one tile | 160 s | distance, sight, minimap, searches, picking, maps against references |
| `Services` | `MCServices` | 3 players and 2 games; 3 connects; 6 writes in 2 seconds; 2 objects and 2 connections on databases; a ring of 3; 3 factions | 65 s | lobby, client, saves, database, log, diplomacy |
| `Frontend` | `MCFrontend` | 2 fights in one view, one in two; frames of 200 and 2000 ms; a pool of 3; 2 to 3 managers | 160 s | screens, animations, pool, sounds, models |
| `Ownership`, `PredictFight` | as above | small | 2 s | where code and comments disagree, see section 6 |

*Several components in one run.*  The components that `MCAlgorithms`,
`MCServices` and `MCFrontend` instantiate share no variable.  In a behaviour of
such a module `part` says which of them acts, and the others rest in their
initial states.  A property of one component depends on its own variables only,
so that checking this sum of the components checks what a run of each would,
and what their product would.

*Why the bounds are enough.* Two players are needed for a turn to wait for somebody
and a third for somebody to be away meanwhile. A duration of 2 and a grace period of
1 make the two deadlines differ, so that either can come first. Two turns are enough
for something to outlive its turn; the liveness run has three so that a turn is
entered from an expired one. The skirmish has two units of one side, since zones of
control and exchanges of indices need them, a kind that strikes back, one that
strikes from afar and one that cannot strike, a hill that costs two points and water;
units leave the map over each of its sides. Its damage numbers are scaled down, a
blow taking a third to all of a unit's health and two fights making a level; the
battle of the application has the real ones. In `Production` units are frail, so that
cities change hands within a turn; an order costs one or two turns of work, and a
shared mine makes one of them cheaper. A prediction needs two more for one to be
before it and one after it. In `Services` there are a save during which the next
begins within the same second, a connection that is moved to an object that has one,
a ring that wraps while the panel looks further back than it fills, and players who
leave between two others. Maps have an inside, four edges and corners of both
parities.

*Bounds of the models.*  `MaxTurn`, `MaxQueue`, `MaxId`, `MaxGames`,
`MaxConnects`, `MaxWrites`, `LastSecond`, `MaxConnections`, `MaxHistory`,
`MaxScroll`, `MaxFactions`, `MaxAdditions` and their like bound counters that
the code does not bound; each is named in the guard that it bounds.  Runs whose
components stop at such bounds, when all is lost, or when the process has ended or a
unit has left the map, say `CHECK_DEADLOCK FALSE`.  `Beyond` are the places beside
the map that clients name; the theorems hold for all of them.

*Fairness.*  `FairHostSpec` assumes that time passes, that the host starts the
first turn, and that it keeps polling `tryAdvance` and `checkTimeouts`, which is
what both classes require of it (they own no clock).  No player is ever obliged
to do anything.  A search goes on because it is a loop.  The threads of the
network client and the caller that is inside a method are scheduled (weak
fairness for each); that anybody calls again is not assumed.  Screens, animations,
entities and particles go on because the application draws frames until its
window is closed; input is never obliged to come.

### The properties

 * `PlaysSimultaneousTurns`, `ClosesTurns`: refinement of `SimultaneousTurns`,
   without and with its liveness.  `TurnsAdvance`, `AbsenceEnds`: no turn and no
   absence lasts.
 * `PlayersAccountedFor`: the books of two or three classes agree.
   `ExpiryIsEarned`, `EliminatedOnlyAfterTimeout`: deadlines against the history.
 * `WorldIsSound`: vector, units and registry agree, so that no pointer dangles;
   the fallen leave with the exchange that felled them.  `NobodySlipsPast`: zones
   of control, by the positions of the units rather than by the registry.
   `NeutralsSeeTheirEnemies`: what the neutrals intend, against what is there and
   what `AttackAction` makes of it.
 * `CitiesFallUndefended`, `ProductionIsTheOwners`, `EliminationIsFinal`: what
   captures and production may never do.
 * `PredictionsAreSound`: the client's books, and the order of what is pending.
 * `GameIsSound`, `SelectionFollowsUnit`, `WhatIsShownIsSeen`, `SaveKeepsTheGame`:
   the application's books; the index against the unit the user chose; the fog
   against sight; a loaded game against the saved one.
 * `DistanceCountsSteps`, `BoxMissesNothing`, `PicturesAgree`, `SearchesAreRight`,
   `PointingIsRight`, `MapsAreRight`, `SearchEnds`: formulas and searches against
   a flood of the map, the cheapest of all ways, the outlines of the hexagons.
 * `LobbyIsSound`, `ClientIsSound`, `DisconnectReturns`, `SavesAreKept`,
   `DatabaseIsSound`, `LogTellsTheHistory`, `DiplomacyIsSound`: one or two for
   each service; `LogTellsTheHistory` includes the refinement of `BoundedLog`.
 * `ScreensAreSound`, `FightsAreShown`, `DeadStayDead`, `WhatBeginsEnds`,
   `PoolIsUsed`, `DevicesAreOwned`: what the user is shown, and who owns what is
   open.

## 4. What is proved

Every theorem is for all values of the constants that satisfy the named
assumptions of the modules (`WorldAssumption`, `LobbyAssumption` and so on),
which say of sizes that they are numbers, of tables that they have an entry for
each kind, of the initial units that they stand on their tiles.  TLC evaluates
the assumptions on every run.

**`TurnServerProofs`**, for any players, durations and number of turns:

 * `TypeCorrect`, `HostTypeCorrect`: `TypeOK` is inductive as it stands, for
   `Spec` and for the documented host.
 * `SimultaneousTurnsRefined`, `HostSimultaneousTurnsRefined`: every step of
   either maps to a step of `SimultaneousTurns` or to none.  `TypeOK` is all the
   invariant that is needed; the steps are taken one class at a time
   (`AdvanceRefines`, `ClockRefines`, `RemovalRefines`, `ConnectionRefines`,
   `FinishRefines`, `PollRefines`).
 * `HostInvariant`, under the assumption `OwnFactions` (no two players lead the
   same faction, which `startGame` sees to): the invariant `HostInv`.  The
   relations between the tables are inductive together, but `ExpiryIsEarned` is
   not: it needs `ClocksAgree`, that no clock of a manager has run longer than
   the history says, which in turn needs the tables to agree.
 * From it: `HostPlayersAccountedFor`, `HostExpiryIsEarned`,
   `HostEliminatedOnlyAfterTimeout`.

**`GeometryProofs`**, for maps and panels of any size; the theorems are about
`MCAlgorithms`' `Spec`, with one invariant for each of its parts:

 * `DistanceIsSteps`: the distance formula counts steps.  The flood's invariant
   says that the tiles reached are those within the distance; one direction is
   that a neighbour is at most one farther (`StepsAreShort`), the other that a
   tile at distance n + 1 has a neighbour at distance n *on the map* (`WayBack`),
   which takes the six neighbours, the parities of both rows and the map's edges
   into account.
 * `BoxIsLargeEnough`: the box scanned for vision misses nothing in sight.
 * `EveryMapFits`, `LookFindsItsCell`, `PicturesAlwaysAgree`: the minimap's cells
   fit its panel, and its two scalings agree about every tile.
 * `PointingAlwaysRight`: for points of any resolution and frames of any length.
   A point in a tile's hexagon is as near to no other centre, by multiplying out
   the squares for each of the three axes (`NearestInside`); conversely a point
   within a radius of the nearest centre is in that centre's hexagon
   (`InsideIfNearest`).  The tile that `worldToTile` rounds to is off by a row and
   a column at most, so that the tile under the point is among those it tries
   (`Rounding`, `TriedIfUnder`).  For the tooltip, `Waits` compares its clock with
   how long the mouse has been on its tile.
 * `SearchesAlwaysRight`: for any map, terrain costs, budget and wars, and for any
   worlds that are sound and without fallen units (`PathfindingAssumption`).  What
   is to be found is the least cost in `Ways`, the smallest set that has the start
   and is closed under going on; the reference `LeastCosts`, which TLC evaluates,
   is shown to be that, as each of its rounds settles one more tile
   (`StagesGrow`, `LeastCostsAreLeast`).  `SearchInv` says that costs found are
   costs of ways (`Known`), that what is not queued has been expanded (`Frontier`),
   that following `cameFrom` the cost falls by the step at least (`CameOnward`),
   and that the flood of the range goes in the order of its costs
   (`RangeInOrder`).  The heuristic falls by one a step at most
   (`LeftIsConsistent`) and no step is cheaper, so that whatever is nearer than
   the whole queue has its final cost (`Front`): the goal when it is taken out, and
   everything when the queue is empty.  Going back, no tile comes twice, so
   `ReconstructPath` comes to the start (`StartIsReached`); and `MoveAction`
   accepts the steps of a plan, for a unit standing elsewhere is no enemy of its
   own (`PlanStep`).

**`TerrainMapProofs`**, for maps of any sizes, any noise and any random device:

 * `MapsAlwaysRight`: `MapState` says that rivers run down, that both maps have
   the same terrain and that spawns are what `findSpawnPoints` gives for it.  The
   demo river is carved segment by segment (`Carved`, `CarvesOn`), and no later
   terrain touches it.  The tiles around a tile's mirror image are the mirror
   images of those around it (`AroundOpposite`), a bijection that keeps counts, so
   smoothing is symmetric.  The spawns are a farthest-point choice (`Greedy`):
   if two were the same, all candidates would have been taken before
   (`GreedyIsInjective`); and as near as the nearest two spawns are, every
   candidate is that near to one found before the later of the two, so that any
   other choice as large has two tiles at the same one (`GreedyIsHalfAsGood`, by
   the pigeonhole principle and the triangle inequality of `Chebyshev`).

**`EconomyProofs`** and **`WorldProofs`**, about `ActionProcessor`'s `Spec` and
`SpawningSpec` and, for predictions, `PredictionSpec`, for any map, armies, wars,
costs and queue lengths.  `ResolveCities` and the sums of yields are recursive
functions; that they are defined, and what they preserve, is shown by induction
with sets of numbers (`UpTo`, from the well-foundedness of the numbers).

 * `SessionInv` is the invariant of the session: until a unit leaves the map,
   `WorldInv` and `TownInv`; from then on, the same but for the place of that unit,
   which is beside the map and filed nowhere (`WalkOff`).  `SessionStep` reduces a
   step of the session to one of play on a sound world (`PlayNext`) or to
   `MoveOffTheMap`.
 * `WorldAlwaysSound`: from `WorldInv`, which is taken through the operations one
   at a time (`RelocateSound`, `RemoveUnitSound`, `FightSound`, `BurySound`, ...).
   Agreement of the books and absence of the dead need each other's premises: a
   fight is about two different living units because the vector is injective and
   wars are between different factions, and only then does `Bury` remove exactly
   the dead, the higher index first.
 * `NobodyEverSlipsPast`: `ZoneOfControl` reads the registry; because that is
   exact (`ZocIsAboutGuards`), its check speaks of where the units are, also for a
   destination beside the map.
 * `TypeCorrect`, `ProductionServesTheOwner`, `OnlyCaptureTakesCities`,
   `EliminatedForever`: from `WorldInv` together with `TownInv`.  `TypeCorrect`
   says that units are on the map up to the first that a build without assertions
   lets walk off it, and that this is then the only one.
   `EliminatedForever` also needs that nobody appears or changes sides
   (`StepDescends`).
 * `SpawnedWorldAlwaysSound`, `SpawningServesTheOwner`, `SpawnsOnlyForTheLiving`:
   the same for callers with a unit type registry, where units appear at the end
   of a turn.  `Spawning` says what holds when the first n cities have had their
   turn: the world is sound, every unit is of a faction that had a unit or a city
   (`Heirs`), and each of the remaining cities has a pointer left for its unit,
   which takes `MemoryAssumption`, that there are finitely many.
 * `NeutralsAlwaysSee`: what the loops of `NeutralAI` return has the intent of
   each neutral unit once (`NeutralsList`, by induction over the vector and over
   the registry of factions).  The six neighbours it computes are those that
   `ZoneOfControl` looks at (`SameNeighbors`), and since vector and registry agree
   they have the same enemies.  `AttackAction` accepts the attack of a unit whose
   range is not 0, because neighbours are in reach then and the end of the turn
   gives everybody their movement back (`EverybodyRests`), which `NeutralAssumption`
   has suffice for a blow; and it refuses that of a unit whose range is 0, a
   settler's, as nobody on the intended tile is at distance 0.
 * `PredictionsAlwaysSound`, about `PredictionSpec`, for any number of predictions,
   with the invariants `ServerInv` of the server's world and `ClientInv` of the
   client's.  Every setter keeps a world sound, whichever unit the index of a
   snapshot names by then (`SetUnitIs`), and what is applied again is a part of
   what was pending, in its order (`ReapplySound`).  That the client shows the
   confirmed game and the pending moves is not inductive, as it says nothing of
   the units one by one: `MovesLaidOver` does, and says that each pending move can
   be made in the confirmed world alone and that each snapshot is what that world
   has.  The steps follow from one fact, that one's own moves have no bearing on
   each other: zones of control are those of enemies, who do not move
   (`SameEnemies`, `SameMoves`).  So a move can be added (`OverlayMore`), taken back
   with its snapshot (`OverlayLess`, `RollbackMoves`), confirmed before the others
   (`OverlayConfirmed`) and made again (`ReapplyMoves`), and units determine the
   world (`OverlayUnique`).

**`LocalGameProofs`**, about the application, for any map, beginnings, towns,
bounds and moments of saving.  The invariant `AppInv` says of the whole
application that it is `Right`: its game is proper (the vector and the registry
agree, cities and queues are well-formed, building ids increase), the selected
index is that of the chosen unit, the fog is what the units and cities see, and
the saved game is proper.  An input is taken through the frame call by call.

 * `GameAlwaysSound`, `SelectionAlwaysFollows`, `ShownIsSeen`: the four properties
   of `Battle`, with the next.
 * `SavingAlwaysKeeps`: loading what would be saved at any moment gives back the
   game; by a lemma for each repeated field of the message.

**`ServicesProofs`**, for any players, slots, games, names, sizes, events and
numbers of connections; the network client has the one caller it has in the
program.  Each service has an inductive invariant of its own:

 * `ClientAlwaysSound`: `AtStatement` says, for each statement that the caller can
   be at, which of the stub, the queue and the thread are there (`Bare`,
   `Equipped` or in between).  `ClientIsSound` alone says only what must be there
   where it is used, and is not inductive.
 * `DiplomacyAlwaysSound`: every faction is enrolled under an id below the next
   one (`Enrolled`), relations are kept under ordered pairs (`Related`), and
   `initializeDefaults` has assigned what its loops have passed (`Assigned`), by
   induction over both loops.
 * `SavesAlwaysKept`: files have the dates of their names or of a write, and the
   file that was completed last is there, whole, unless a save began in a second of
   the same name (`FilesDated`, `KeptIsThere`).  The action property in it says what
   F9 gives: the whole of that game as long as no save was begun after it; after
   one that was cut off, a part of what that one was saving, or nothing new, even
   though the completed file is still there (`LatestIsBegun`, `LoadFindsIt`).
 * `DatabaseAlwaysSound`: `Ownership` numbers the connections in the order in
   which they are made, so that no number is used twice, and has one object for
   each that is open, except for those that a throwing `createSchema` left open,
   which have none; `Stores` keeps rows and history in step, no game having a
   later date than one that was saved after it (`SavedInOrder`,
   `DeletedInOrder`).
 * `LobbyAlwaysSound`: players have one slot each, sessions are `Joint` over those
   seated.  That `startGame` numbers the players bijectively is `FactionsNumbered`:
   ranks in a finite set of slots are different (`Ranks`), and an injection
   between sets of the same size is onto.  It includes the action property that
   sessions outlive the pointers given out.
 * `LogAlwaysTells`: `LogInv` says which event each slot holds, going back from
   `head` around the ring (`Back`, `Around`).  Every query is then the end of the
   history (`Tells`), and there is one such sequence (`TellsOne`).  It includes
   the refinement of `BoundedLog`, for which the end of what is kept and one event
   more must be the end of all (`LatestOfLatest`).

**`FrontendProofs`**, about the instances of `MCFrontend`, for any objects, keys,
levels, callbacks, durations and sizes:

 * `ScreensAlwaysSound`: a frame is taken through its calls in the order of
   `main`.  `ScreenInv` relates the fade to the screen and to whether the game is
   set up; that the light does not jump is a relation between two frames
   (`LightIsSteady`), proved along with it.
 * `DeadAlwaysStayDead`: whatever the callbacks of a state may play, the only way
   out of `Dying` is `Dead`, and of `Dead` none.
 * `DevicesAlwaysOwned`: sounds and music on one side and models on the other
   have an injection from owners to what is open (`AudioWorks`, `Uploads`), kept by
   moves onto others, onto oneself and by destruction in any order; for models,
   before, while and after the window is open, as `main` closes it first.
 * `PoolAlwaysUsed`: `ParticleInv` has every living particle fade with its age.
   That `findDeadSlot` misses none is that adding to the hint modulo the size
   goes once round the pool (`Round`); what `emit` does is shown round by round,
   by induction (`RoundsRecursion`, `OneMore`).
 * `FightsAlwaysShown`: `FightInv` measures how long a fight has been watched
   (`Watched`) and says that its effects and animations have gone on at least that
   long (`Together`), so that none goes on when the player may act; that in each
   phase the camera is where the phase has it (`CineIsSound`); and that the units
   at rest are drawn on their tiles (`AtRest`), unless a tile left the list.  That
   nothing jumps (`EyeFliesNow`, `UnitsWalkNow`) is a relation between two frames,
   from how steep the easing curves are at most (`PlacesAreNear`).

## 5. What is only model-checked, and what is not modelled

*Only model-checked.*  Liveness (`ClosesTurns`, `TurnsAdvance`, `AbsenceEnds`,
`DisconnectReturns`, `SearchEnds`, `WhatBeginsEnds`), which the provers do not
reach.  Every invariant and action property of the passing runs is a theorem.

*Not modelled.*  What happens in a session after a unit has left the map; the
server of `PredictionSpec` and the clients of `Prediction` and `LocalGame` name
destinations on the map only (the application takes them from `worldToTile`).
Callbacks that add or remove entities while `AnimationController::update` goes over
them, which nobody installs.  What `UnloadModel` does when the window has gone.  The
server (every method answers UNIMPLEMENTED) and the protocol
(message definitions; what the program puts into messages is in
`Serialization`).  Meshes, colours, panels and the free movement of the camera.
`TurnManager::mutableConfig`, `removeCity`, `removeBuilding`, which nobody calls.
Floating-point numbers are multiples of the smallest unit that a comparison
depends on.

## 6. Where code and comments disagree

The models follow the code.  Two disagreements are kept as runs with a property
that states the comment, and `findings` in `PROJECT.json` has the places:
`Ownership` (nothing checks that a unit is the player's) and `PredictFight` (a
rejected attack leaves the damage it did).  These were met while modelling, and
the model that has each is named:

 * `TurnServer`: A turn duration of zero is documented as no deadline
   (`TurnManager.h:12`); it expires at once.
 * `TurnServer`: `readyPlayerCount` is documented to count connected players
   (`TurnManager.h:74`); it counts all who finished.
 * `TurnServer`: `deadline()` is documented as that of the current turn
   (`TurnManager.h:65`); after an `EndTurnAction` that closes a turn it is that of
   the turn before.
 * `ReconnectionManager`: Tracked players are documented as not eliminated
   (`ReconnectionManager.h:102`); registering an eliminated player again makes it
   both.
 * `ActionProcessor`: `Map::tile` takes for granted that its tile is on the map
   (`Map.cpp:169`); `MoveAction` calls it for any destination at distance 1
   (`MoveAction.cpp:41`).
 * `NeutralAI`: Units with an enemy beside them are given the intent to attack
   (`NeutralAI.cpp:71`), settlers included, whose attack range of 0
   (`UnitTypeRegistry.cpp:33`) makes `AttackAction` refuse it.
 * `World`: Units that enter a zone of control must stop, says
   `ZoneOfControl.h:18`, and `findPathWithZoc` plans by it; `MoveAction` lets them
   walk on unless the next tile is guarded by the same enemy.
 * `Prediction`: A rejected prediction's successors are applied again with the
   snapshots taken while it was applied (`PredictionManager.cpp:56`, `:80`);
   rejecting one of them later restores a state that has the rejected one in it.
 * `Prediction`: `reconcile` is documented as a full replacement
   (`PredictionManager.h:74`); it copies units index by index as far as both
   vectors go.
 * `NetworkClient`: `disconnect` is documented to shut down cleanly
   (`NetworkClient.h:76`); threads of submissions keep a bare pointer to the stub
   that it destroys.
 * `NetworkClient`: With a second caller, `disconnect` during `connect` leaves a
   client that says it is connected and has no stub, and two callers of
   `disconnect` both tear down (`NetworkClient.cpp:44`).  The program has one
   caller, and so have run and theorem.
 * `CombatLog`: The panel's scroll offset is documented as entries to scroll back
   (`CombatLogRenderer.h:43`); it always shows the newest.
 * `TerrainMap`: `generate` is documented as deterministic for a seed
   (`MapGenerator.h:126`); elevation and water come from `std::random_device`.
 * `TerrainMap`: `MIN_SPAWN_DISTANCE` is documented as the least distance between
   spawns (`MapGenerator.h:67`); it is never used.
 * `TerrainMap`: Loaded maps are said to have elevation 0
   (`docs/superpowers/plans/2026-03-21-terrain-foundation.md:1181`); each load
   gives other random elevations.
 * `SaveLoad`: `saveGame` is documented to return false on failure
   (`SaveLoad.h:11`); the failure of the last flush is not reported.
 * `SaveLoad`: Loading is documented to throw for corrupt files (`SaveLoad.h:15`);
   a file cut off at the end of a field is loaded as a game without the rest.
 * `SaveLoad`: `latestSavePath` gives the most recent file (`SaveLoad.h:22`), which after a
   save that was cut off is the torn one: F9 refuses it or reads it in part, and
   never goes back to the complete one before it.
 * `GamePersistence`: The destructor closes the connection; if `createSchema` throws
   (`GamePersistence.cpp:88`) there is no object to destroy, and the connection
   stays open.
 * `GamePersistence`: `listGames` is documented to list the most recently updated
   first (`GamePersistence.h:52`); within a second the order is open.
 * `Serialization`: `saveGame` is said to serialize the full state
   (`GamePersistence.h:26`); factions and their relations are not in it, and after
   F9 everybody is at peace.
 * `Screens`: Escape is said to go back (`MenuSystem.cpp:144`); it is raylib's
   exit key and ends the loop first.
 * `Animation`: Input is said to be disabled during the cinematic
   (`main.cpp:1239`); the Space that skips it also ends the turn, in the same
   frame.
 * `Animation`: Death animations are for the killed (`main.cpp:850`); their
   indices are those of the vector before the dead were removed.
 * `Animation`: Places of units are said to follow the elevation
   (`UnitRenderer.h:16`); a unit sinks to height 0 while it is animated.
 * `LocalGame`: Visible tiles are documented as those in sight of a unit or city
   (`FogOfWar.h:21`); a city captured by moving in sees nothing until the next
   move, fight or turn.
 * `LocalGame`: The help says that mines are for hills (`main.cpp:641`); a
   building is queued for any tile.
 * `LocalGame`: `drawMap` is documented to darken what is not seen
   (`MapRenderer.h:14`); it ignores the fog.
 * `Pointing`: `worldToTile` is documented to return nothing outside the map
   (`HexGrid.h:27`); it accepts points up to a radius from a border tile's centre.
 * `ModelManager`: `loadModel` is documented to return false for a file that
   cannot be loaded (`ModelManager.h:44`); it returns true, with a cube in its
   place.
 * `ModelManager`: Models need an active window (`ModelManager.h:28`); `main`
   closes the window (`main.cpp:1318`) before its manager unloads them, and so may
   the model.
