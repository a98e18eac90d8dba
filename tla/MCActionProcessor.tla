------------------------- MODULE MCActionProcessor -------------------------
(***************************************************************************)
(* ActionProcessor for TLC: one or two rows of three tiles, in the second  *)
(* row hills and water, two factions at war; a melee and a ranged kind of  *)
(* unit, and one that cannot attack.  The numbers are small ones that keep *)
(* the proportions of the code's: a blow takes a third to all of the       *)
(* health there is, and a fight or two make a level.  (Only the settler    *)
(* has fewer steps than the others and not more, to bound the runs.)  Blue *)
(* is a neutral faction whenever a turn is resolved, so that every world   *)
(* of the skirmish is one NeutralAI may find.                              *)
(***************************************************************************)
EXTENDS ActionProcessor, NeutralAI

CONSTANTS red, blue, warrior, archer, settler, u1, u2, u3, u4, farm, mine

MCTemplate ==
  [k \in Kinds |->
     CASE k = warrior -> [health |-> 3, attack |-> 3, defense |-> 2, moves |-> 2, range |-> 1]
       [] k = archer -> [health |-> 2, attack |-> 2, defense |-> 1, moves |-> 2, range |-> 2]
       [] k = settler -> [health |-> 2, attack |-> 0, defense |-> 1, moves |-> 1, range |-> 0]]

\* For production: one blow decides, one step or one blow a turn.
FrailTemplate ==
  [k \in Kinds |-> [health |-> 1, attack |-> 1, defense |-> 0, moves |-> 1, range |-> 1]]

MCXpThresholds == {4}

MCAtWar == {<<red, blue>>, <<blue, red>>}

MCMoveCost ==
  [t \in Tiles |->
     CASE t = <<1, 1>> -> 2 [] t = <<1, 2>> -> 0 [] OTHER -> 1]

MCTerrainBonus == [t \in Tiles |-> IF t = <<1, 1>> THEN 2 ELSE 0]

MCFactionOf == [p \in Players |-> p]

\* One city of two tiles; red's unit guards it from the tile beside the center,
\* and comes between blue's in the vector.
OneCenter == <<<<0, 0>>>>
OneCityTiles == <<{<<0, 0>>, <<0, 1>>}>>
OneOwner == <<red>>

ThreeUnits == <<u2, u1, u3>>
ThreeUnit ==
  [p \in {u1, u2, u3} |->
     CASE p = u1 -> NewUnit(archer, red, <<0, 1>>)
       [] p = u2 -> NewUnit(settler, blue, <<0, 2>>)
       [] p = u3 -> NewUnit(warrior, blue, <<1, 0>>)]

\* Two cities with a tile in common, and a unit each.
TwoCenters == <<<<0, 0>>, <<0, 2>>>>
TwoCityTiles == <<{<<0, 0>>, <<0, 1>>}, {<<0, 1>>, <<0, 2>>}>>
TwoOwners == <<red, blue>>

\* Where the clients build, and where they go off the map: on each side of it,
\* and for one row, across the end and below the middle.
SharedTile == {<<0, 1>>}
EverySide == {<<-1, 0>>, <<0, -1>>, <<0, 3>>, <<2, 2>>}
TwoSides == {<<0, 3>>, <<1, 1>>}

TwoUnits == <<u1, u2>>
TwoUnit ==
  [p \in {u1, u2} |->
     CASE p = u1 -> NewUnit(warrior, red, <<0, 0>>)
       [] p = u2 -> NewUnit(warrior, blue, <<0, 2>>)]

MCYield ==
  [b \in BuildingTypes |->
     IF b = farm THEN [gold |-> 0, production |-> 0, food |-> 2]
     ELSE [gold |-> 1, production |-> 1, food |-> 0]]

RedThenBlue == <<red, blue>>

OnlyRed == <<red>>

RedPlays == [f \in Factions |-> f = red]

MCBuildCost == [b \in BuildingTypes |-> IF b = farm THEN 2 ELSE 1]

-----------------------------------------------------------------------------
(* What is checked of several parts together. *)

\* Resolved in any world that play leads to on the map, the neutral factions'
\* turn has one intent for each of their living units, to attack exactly when
\* an enemy is beside it, and AttackAction accepts what is intended of those
\* that can attack at all.
NeutralsSeeTheirEnemies ==
  process = "running" => NeutralsSee(world) /\ IntentsCanBeCarriedOut(world)
=============================================================================
