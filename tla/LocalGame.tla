----------------------------- MODULE LocalGame -----------------------------
(***************************************************************************)
(* The program a user plays: app/src/main.cpp once the game screen is up   *)
(* (Screens has the way there).  Each step of this module is one frame,    *)
(* updateInGame, with what the user does in it: the cinematic and the      *)
(* animations go on, then the input is handled, saving and loading last    *)
(* but for the end-turn button.                                            *)
(*                                                                         *)
(* Unit indices, sel among them, are positions in the world's vector, from *)
(* 1; 0 is NO_SELECTION.  How long animations and cinematics take is left  *)
(* open: a frame may be of any length, and ends any of them (Animation has *)
(* the times).  Debug mode, which only draws without fog, and the          *)
(* scrolling of the log are left out.  That Escape ends the program before *)
(* a frame sees it is shown by Screens; here it is handled as written.     *)
(***************************************************************************)
EXTENDS Serialization

CONSTANTS
  Player,            \* PLAYER_FACTION_ID
  Nobody,            \* the faction of a building that is given none: 0
  Terrain,           \* per tile
  Beginnings,        \* what setupDemoState sets up, or a game later on; each
                     \* with the game an earlier session saved, if one did
  SaveTurns,         \* bound of the model: the turns in which the user saves,
  BuildTurns,        \* the turns in which the user builds,
  BuildTiles,        \* and the tiles where
  MaxTurn,           \* bound of the model: no turn after this one
  MaxQueue           \* bound of the model: the longest build queue

\* The keys that build something.
Factory == [F |-> "Farm", M |-> "Mine", K |-> "Market"]

ASSUME LocalGameAssumption ==
  /\ {Player, Nobody} \subseteq Factions
  /\ \A t \in Tiles : MoveCost[t] = TerrainProperties[Terrain[t]].movementCost
  /\ BuildTiles \subseteq Tiles
  /\ MaxTurn \in Nat

\* What is being built are buildings, which have their price.
Priced(town) ==
  /\ \A c \in Cities : \A n \in DOMAIN town.queue[c] :
       town.queue[c][n].item \in BuildingTypes /\ town.queue[c][n].cost > 0
  /\ \A c \in Cities :
       town.stock[c] < (IF town.queue[c] = <<>> THEN 1 ELSE Head(town.queue[c]).cost)

\* The ids that addBuilding gives.
Numbered(g) ==
  /\ g.ids \in Seq(Nat) /\ IsInjective(g.ids)
  /\ Len(g.ids) = Len(g.world.town.buildings)
  /\ g.nextBuildingId \in Nat
  /\ \A n \in DOMAIN g.ids : g.ids[n] < g.nextBuildingId

\* The fog is that of the player's units and cities.
FogLifted(g) ==
  /\ g.fog \in [Tiles -> Visibility]
  /\ \A t \in Tiles : g.fog[t] = "Visible" => t \in InSight(g.world, Player)
  /\ \A p \in DOMAIN g.world.unit :
       g.world.unit[p].faction = Player => g.fog[g.world.unit[p].tile] = "Visible"

\* A game made with addCity, addBuilding and addUnit, its fog calculated.
Proper(g) ==
  /\ g = [turn |-> g.turn, world |-> g.world, ids |-> g.ids,
          nextBuildingId |-> g.nextBuildingId, fog |-> g.fog, registered |-> g.registered]
  /\ g.turn \in Nat \ {0}
  /\ Sound(g.world) /\ Living(g.world)
  /\ g.world.town \in Towns /\ Priced(g.world.town)
  /\ Numbered(g)
  /\ FogLifted(g)
  /\ g.registered \subseteq Factions

ASSUME BeginningsAssumption ==
  /\ \A k \in DOMAIN Factory : Factory[k] \in BuildingTypes /\ BuildCost[Factory[k]] > 0
  /\ \A start \in Beginnings :
       /\ Proper(start.game) /\ start.game.turn <= MaxTurn
       /\ \/ start.saved = <<>>
          \/ start.saved = <<start.saved[1]>> /\ Proper(start.saved[1])

VARIABLE app

\* Without factions there are no relations, and everybody is at peace.
Peace == INSTANCE World WITH AtWar <- {}

NoSelection == 0

NoTile == <<-1, -1>>

Keys == {"none", "Escape", "Space", "X", "F5", "F9"} \cup DOMAIN Factory

\* What the user does in a frame: the tile under the mouse, its buttons,
\* whether the left one is on the end-turn button, and a key.
Quiet == [tile |-> NoTile, left |-> FALSE, right |-> FALSE, button |-> FALSE, key |-> "none"]

Init ==
  \E start \in Beginnings : app =
        [game |-> start.game,
         sel |-> NoSelection,          \* selectedUnit
         city |-> 0,                   \* selectedCity; 0 is none
         cinematic |-> FALSE,          \* a cinematic is active
         anim |-> [i \in {} |-> 0],    \* the animator's entries by unit index
         disk |->                      \* the latest save, if there is one
           [n \in DOMAIN start.saved |-> SerializeGameState(start.saved[n])],
         logged |-> "nothing",         \* what this frame appended to the log
         chosen |-> {}]                \* history: the unit the user selected

-----------------------------------------------------------------------------
(* Clicks on units. *)

\* The first living unit on the tile.
FindUnitAtTile(w, t) ==
  LET here == {i \in Indices(w) : Alive(UnitAt(w, i)) /\ UnitAt(w, i).tile = t}
  IN  IF here = {} THEN NoSelection ELSE CHOOSE i \in here : \A j \in here : i <= j

\* The unit at index i leaves the vector and the registry if it is dead, and
\* the selection moves with its unit, or is dropped with it.
RemoveDead(a, i) ==
  LET sel == IF a.sel = i THEN NoSelection ELSE IF a.sel > i THEN a.sel - 1 ELSE a.sel
  IN  IF Alive(UnitAt(a.game.world, i)) THEN a
      ELSE [a EXCEPT !.game.world = RemoveUnit(@, i),
                     !.sel = sel,
                     !.chosen = IF sel = NoSelection THEN {} ELSE @]

\* Backwards through the vector.
RemoveDeadUnits(a) ==
  LET last == Len(a.game.world.order)
      after[n \in 0 .. last] == IF n = 0 THEN a ELSE RemoveDead(after[n - 1], last - n + 1)
  IN  after[last]

Select(a, i) ==
  [a EXCEPT !.sel = i,
            !.chosen = IF i = NoSelection THEN {} ELSE {a.game.world.order[i]}]

AtPeace(g) == g.registered = {}

AttackPossible(g, i, j) ==
  IF AtPeace(g) THEN Peace!ValidAttack(g.world, i, j) ELSE ValidAttack(g.world, i, j)

MovePossible(g, i, t) ==
  IF AtPeace(g) THEN Peace!ValidMove(g.world, i, t) ELSE ValidMove(g.world, i, t)

CapturePossible(g, w, i) ==
  IF AtPeace(g) THEN Peace!ValidCapture(w, i) ELSE ValidCapture(w, i)

\* An animation of the unit at index i replaces the one it had; `of' is
\* history: the unit it is meant for.
Animate(anim, i, type, unit) ==
  [k \in DOMAIN anim \cup {i} |->
     IF k = i THEN [type |-> type, of |-> unit] ELSE anim[k]]

\* Lunge and deaths are started under the indices of before the fight.
FightAnimations(a, j, dead) ==
  LET w == a.game.world
      lunge == Animate(a.anim, a.sel, "Attack", w.order[a.sel])
      falls == IF j \in dead THEN Animate(lunge, j, "Death", w.order[j]) ELSE lunge
  IN  IF a.sel \in dead THEN Animate(falls, a.sel, "Death", w.order[a.sel]) ELSE falls

\* Mutant: the selection stays where it is.
AttackKeepingIndex(a, j) ==
  LET i == a.sel
      fought == Fight(a.game.world, i, j)
      dead == {k \in {i, j} : ~Alive(UnitAt(fought, k))}
      w == Bury(fought, i, j)
      sel == IF i \in dead THEN NoSelection ELSE i
  IN  [a EXCEPT !.game = [a.game EXCEPT !.world = w, !.fog = Recalculate(@, w, Player)],
                !.cinematic = TRUE,
                !.anim = FightAnimations(a, j, dead),
                !.logged = "attack",
                !.sel = sel,
                !.chosen = IF sel = NoSelection THEN {} ELSE a.chosen]

\* tryAttack, when the attack is possible: the fight, its show, the log, the
\* fog, and the selection, which follows its unit past a defender that fell.
TryAttack(a, j) ==
  LET i == a.sel
      fought == Fight(a.game.world, i, j)
      dead == {k \in {i, j} : ~Alive(UnitAt(fought, k))}
      w == Bury(fought, i, j)
      sel == IF i \in dead THEN NoSelection ELSE IF j \in dead /\ j < i THEN i - 1 ELSE i
  IN  [a EXCEPT !.game = [a.game EXCEPT !.world = w, !.fog = Recalculate(@, w, Player)],
                !.cinematic = TRUE,
                !.anim = FightAnimations(a, j, dead),
                !.logged = "attack",
                !.sel = sel,
                !.chosen = IF sel = NoSelection THEN {} ELSE a.chosen]

\* tryMoveUnit, when the move is possible.  The fog is that of before the
\* city on the tile, if there is one to be captured, changes hands.
TryMoveUnit(a, t) ==
  LET w == Move(a.game.world, a.sel, t)
      captures == CapturePossible(a.game, w, a.sel)
  IN  [a EXCEPT !.game =
                  [a.game EXCEPT !.world = IF captures THEN Capture(w, a.sel) ELSE w,
                                 !.fog = Recalculate(@, w, Player)],
                !.anim = Animate(a.anim, a.sel, "Move", w.order[a.sel]),
                !.logged = IF captures THEN "capture" ELSE a.logged]

Handled(a) == [app |-> a, handled |-> TRUE]

NotHandled(a) == [app |-> a, handled |-> FALSE]

\* handleSelectedUnitClick.  A unit of another faction can be looked at, but
\* not commanded.
SelectedUnitClick(a, t, clicked) ==
  LET w == a.game.world
      mine == UnitAt(w, a.sel).faction = Player
      other == clicked \notin {NoSelection, a.sel}
  IN  CASE ~mine /\ clicked # NoSelection -> Handled(Select(a, clicked))
        [] ~mine /\ clicked = NoSelection -> NotHandled(Select(a, NoSelection))
        [] mine /\ other /\ AttackPossible(a.game, a.sel, clicked) -> Handled(TryAttack(a, clicked))
        [] mine /\ other /\ UnitAt(w, clicked).faction = Player -> Handled(Select(a, clicked))
        [] mine /\ clicked = NoSelection /\ MovePossible(a.game, a.sel, t) ->
             Handled(TryMoveUnit(a, t))
        [] mine /\ clicked = a.sel -> Handled(Select(a, NoSelection))
        [] OTHER -> NotHandled(a)

\* handleUnitClick.  Units are found whether the fog hides them or not.
UnitClick(a, t) ==
  LET clicked == FindUnitAtTile(a.game.world, t)
  IN  CASE a.sel # NoSelection -> SelectedUnitClick(a, t, clicked)
        [] a.sel = NoSelection /\ clicked # NoSelection -> Handled(Select(a, clicked))
        [] OTHER -> NotHandled(a)

\* handleCityClick: the first city that has the tile, whoever owns it.
CityClick(a, t) ==
  LET here == {c \in Cities : t \in CityTiles[c]}
  IN  [a EXCEPT !.city = IF here = {} THEN 0 ELSE CHOOSE c \in here : \A d \in here : c <= d]

LeftClickOn(a, t) ==
  LET clicked == UnitClick(a, t)
  IN  IF clicked.handled THEN clicked.app ELSE CityClick(clicked.app, t)

-----------------------------------------------------------------------------
(* Keys. *)

\* BuildQueue::cancel.
CancelOrder(town, c) == [town EXCEPT !.queue[c] = Tail(@), !.stock[c] = 0]

\* handleBuildActions, with a city selected: any city, and any tile; what
\* may be built where is not asked.
BuildActions(a, in) ==
  LET c == a.city
      town == a.game.world.town
      order == [item |-> Factory[in.key], cost |-> BuildCost[Factory[in.key]],
                tile |-> in.tile, by |-> Player]
  IN  CASE in.key = "X" /\ town.queue[c] # <<>> ->
             [a EXCEPT !.game.world.town = CancelOrder(town, c)]
        [] in.key \in DOMAIN Factory /\ in.tile # NoTile ->
             [a EXCEPT !.game.world.town = Enqueue(town, c, order)]
        [] OTHER -> a

\* A building that is completed belongs to nobody.
AddBuilding(g, order) ==
  [g EXCEPT !.world.town.buildings =
              Append(@, [type |-> order.item, tile |-> order.tile, faction |-> Nobody]),
            !.ids = Append(@, g.nextBuildingId),
            !.nextBuildingId = @ + 1]

\* A city's part of the turn: base production only, and no other yields.
WorkQueue(g, c) ==
  LET town == g.world.town
      stock == town.stock[c] + ProductionPerTurn
  IN  IF town.queue[c] = <<>> THEN g
      ELSE IF stock >= Head(town.queue[c]).cost
      THEN AddBuilding([g EXCEPT !.world.town = CancelOrder(town, c)], Head(town.queue[c]))
      ELSE [g EXCEPT !.world.town.stock[c] = stock]

WorkQueues(g) ==
  LET after[n \in 0 .. NumCities] == IF n = 0 THEN g ELSE WorkQueue(after[n - 1], n)
  IN  after[NumCities]

\* The gold of all buildings there are, whoever built them.
TotalYield(town) ==
  SumFunction([n \in DOMAIN town.buildings |-> Yield[town.buildings[n].type].gold])

Rested(u) == IF Alive(u) THEN [u EXCEPT !.moves = Template[u.kind].moves] ELSE u

\* processTurn: the user's own end of turn, which is not TurnResolver's.
ProcessTurn(g) ==
  LET rested == [g EXCEPT !.turn = @ + 1,
                          !.world.unit = [p \in DOMAIN @ |-> Rested(@[p])]]
      worked == WorkQueues(rested)
      gained == TotalYield(worked.world.town)
      gold == [f \in Factions \cup {Common} |->
                 IF f = Common \/ f \in worked.registered \cap {Player}
                 THEN worked.world.town.gold[f] + gained ELSE worked.world.town.gold[f]]
  IN  [worked EXCEPT !.world.town.gold = gold,
                     !.fog = Recalculate(@, worked.world, Player)]

EndTurn(a) == [a EXCEPT !.game = ProcessTurn(@)]

\* F5.  That the file cannot be written is SaveLoad's.
SaveTo(a) == [a EXCEPT !.disk = <<SerializeGameState(a.game)>>]

\* Mutant: the fog is left as it comes.
LoadFromDark(a) ==
  IF a.disk = <<>> THEN a
  ELSE [a EXCEPT !.game = DeserializeGameState(a.disk[1]),
                 !.sel = NoSelection,
                 !.chosen = {}]

\* F9: the latest save replaces the game; what is selected in the city panel,
\* the animations and the log stay.
LoadFrom(a) ==
  LET loaded == DeserializeGameState(a.disk[1])
  IN  IF a.disk = <<>> THEN a
      ELSE [a EXCEPT !.game = [loaded EXCEPT !.fog = Recalculate(@, loaded.world, Player)],
                     !.sel = NoSelection,
                     !.chosen = {}]

-----------------------------------------------------------------------------
(* A frame. *)

\* Escape and Space end a cinematic; else this frame may be its last.  Of
\* the animations, those in `done' have come to their end.
Advance(a, in, over, done) ==
  LET skips == a.cinematic /\ in.key \in {"Escape", "Space"}
  IN  [a EXCEPT !.cinematic = @ /\ ~skips /\ ~over,
                !.anim = Restrict(@, DOMAIN @ \ done),
                !.logged = "nothing"]

Clicked(a, in) == IF in.left /\ in.tile # NoTile THEN LeftClickOn(a, in.tile) ELSE a

Deselected(a, in) ==
  IF in.right \/ in.key = "Escape" THEN [Select(a, NoSelection) EXCEPT !.city = 0] ELSE a

Built(a, in) == IF a.city # 0 THEN BuildActions(a, in) ELSE a

Ended(a, pressed) == IF pressed THEN EndTurn(a) ELSE a

\* handleSaveLoad.
SavedOrLoaded(a, in) ==
  CASE in.key = "F5" -> SaveTo(a)
    [] in.key = "F9" -> LoadFrom(a)
    [] OTHER -> a

\* handleInput, handleSaveLoad and the end-turn button.  The button does not
\* keep the click from the tile beneath it.
HandleInput(a, in) ==
  LET handled == Built(Deselected(Clicked(RemoveDeadUnits(a), in), in), in)
  IN  Ended(SavedOrLoaded(Ended(handled, in.key = "Space"), in), in.button)

Frame(a, in, over, done) ==
  LET now == Advance(a, in, over, done)
  IN  IF now.cinematic THEN now ELSE HandleInput(now, in)

\* The bounds of the model.
Bounded(a) ==
  /\ a.game.turn <= MaxTurn
  /\ \A c \in Cities : Len(a.game.world.town.queue[c]) <= MaxQueue

Step(in) ==
  \E over \in {FALSE, app.cinematic}, done \in SUBSET DOMAIN app.anim :
    /\ app' = Frame(app, in, over, done)
    /\ Bounded(app')

LeftClicks == {[Quiet EXCEPT !.left = TRUE, !.tile = t] : t \in Tiles}

RightClick == [Quiet EXCEPT !.right = TRUE]

\* A key, with the mouse on a tile.
KeyPress(k, t) == [Quiet EXCEPT !.key = k, !.tile = t]

\* The keys that build look where the mouse is.
KeyPresses ==
  {KeyPress(k, NoTile) : k \in Keys} \cup
  {KeyPress(k, t) : k \in DOMAIN Factory, t \in BuildTiles}

\* With a tile beneath the button, or none.
EndTurnClicks ==
  {[Quiet EXCEPT !.left = TRUE, !.button = TRUE, !.tile = t] : t \in Tiles \cup {NoTile}}

\* The bounds of the model on what the user does.
Offered(in) ==
  /\ in.key = "F5" => app.game.turn \in SaveTurns
  /\ in.key \in DOMAIN Factory => app.game.turn \in BuildTurns

Next ==
  \E in \in {Quiet, RightClick} \cup LeftClicks \cup KeyPresses \cup EndTurnClicks :
    Offered(in) /\ Step(in)

Spec == Init /\ [][Next]_app

-----------------------------------------------------------------------------
(* What a frame draws of the game (renderGameFrame). *)

\* Whether the fog lets the 3D view show a unit: the player's own always.
InView(g, u) == Alive(u) /\ (u.faction = Player \/ g.fog[u.tile] = "Visible")

\* Whether it lets the minimap show it.
OnMinimap(g, u) == Alive(u) /\ g.fog[u.tile] = "Visible"

-----------------------------------------------------------------------------
(* What is checked. *)

Messages ==
  {m \in [turn : Nat, nextBuildingId : Nat, cities : Seq([owner : Factions, population : Nat,
            foodSurplus : Nat, accumulatedProduction : Nat, buildQueueItems : Seq(Orders)]),
          buildings : Seq([id : Nat, building : Buildings]),
          units : Seq([type : DOMAIN TemplateKeyOfCode, tile : Tiles, health : Nat,
            movementRemaining : Nat, faction : Factions, experience : Nat]),
          factionResources : Nat] : Len(m.cities) = NumCities}

TypeOK ==
  /\ app.game.turn \in 1 .. MaxTurn
  /\ app.game.world.order \in Seq(Pointers)
  /\ app.game.world.unit \in [DOMAIN app.game.world.unit -> Units]
  /\ app.game.world.registry \in [Tiles -> SUBSET Pointers]
  /\ app.game.world.town \in Towns
  /\ app.game.fog \in [Tiles -> Visibility]
  /\ app.game.registered \subseteq Factions
  /\ app.sel \in Nat
  /\ app.city \in 0 .. NumCities
  /\ app.cinematic \in BOOLEAN
  /\ \A i \in DOMAIN app.anim :
       app.anim[i] \in [type : {"Move", "Attack", "Death"}, of : Pointers]
  /\ app.disk \in Seq(Messages) /\ Len(app.disk) <= 1
  /\ app.logged \in {"nothing", "attack", "capture"}
  /\ app.chosen \subseteq Pointers

\* The vector, the units and the registry agree, and stay so when a game is
\* loaded over another.
Consistent ==
  VectorExact(app.game.world) /\ RegistryExact(app.game.world)

\* The selected index is that of the unit the user clicked, or of none,
\* whatever has been removed from the vector: the order that is given next
\* is not carried out by another unit, and the index is one there is.
SelectionFollowsUnit ==
  IF app.sel = NoSelection THEN app.chosen = {}
  ELSE app.sel \in Indices(app.game.world) /\ app.chosen = {app.game.world.order[app.sel]}

\* The map shows nothing that nobody of the player's sees any more.
NothingShownUnseen ==
  \A t \in Tiles :
    app.game.fog[t] = "Visible" =>
      \/ \E p \in DOMAIN app.game.world.unit :
           LET u == app.game.world.unit[p]
           IN  u.faction = Player /\ HexDistance(u.tile, t) <= SightRange[u.kind]
      \/ \E c \in Cities :
           /\ app.game.world.town.owner[c] = Player
           /\ \E n \in CityTiles[c] : HexDistance(n, t) <= CitySight

\* The 3D view and the minimap show the same units.  Their rules differ, and
\* agree because the player's units are never on a tile that the fog hides:
\* whatever moves, removes or restores units has the fog calculated again.
ViewsAgree ==
  \A p \in DOMAIN app.game.world.unit :
    LET u == app.game.world.unit[p] IN InView(app.game, u) <=> OnMinimap(app.game, u)

\* The fog the player sees through is true to what the player's units and
\* cities see, in both pictures.
WhatIsShownIsSeen == NothingShownUnseen /\ ViewsAgree

\* Saving now and loading at once would give back the turn, the cities, the
\* buildings with their ids, and the units in their order.
SaveKeepsTheGame ==
  LET g == app.game
      loaded == DeserializeGameState(SerializeGameState(g))
  IN  /\ loaded.turn = g.turn
      /\ loaded.ids = g.ids /\ loaded.nextBuildingId = g.nextBuildingId
      /\ [loaded.world.town EXCEPT !.gold = 0] = [g.world.town EXCEPT !.gold = 0]
      /\ loaded.world.town.gold[Common] = g.world.town.gold[Common]
      /\ [i \in Indices(loaded.world) |-> UnitAt(loaded.world, i)]
           = [i \in Indices(g.world) |-> UnitAt(g.world, i)]

\* No two buildings have the same id, those built after a game was loaded
\* included.
BuildingIdsUnique ==
  /\ IsInjective(app.game.ids)
  /\ Len(app.game.ids) = Len(app.game.world.town.buildings)
  /\ \A n \in DOMAIN app.game.ids : app.game.ids[n] < app.game.nextBuildingId

\* The production a city has accumulated is for the order it is working on,
\* and not yet enough: a cancelled order's does not go to the next.
StockIsForTheOrder ==
  \A c \in Cities :
    LET queue == app.game.world.town.queue[c]
    IN  app.game.world.town.stock[c] < (IF queue = <<>> THEN 1 ELSE Head(queue).cost)

\* Playing, building, saving and loading in any order leave a game in which
\* units, buildings and orders are what their books say.
GameIsSound == TypeOK /\ Consistent /\ BuildingIdsUnique /\ StockIsForTheOrder

=============================================================================
