------------------------------ MODULE FogOfWar ------------------------------
(***************************************************************************)
(* game::FogOfWar: per faction a grid of what it sees now, has seen, and   *)
(* has never seen.                                                         *)
(***************************************************************************)
EXTENDS Economy

CONSTANTS
  SightRange,        \* per kind of unit
  CitySight          \* CITY_SIGHT_RANGE

ASSUME FogAssumption == SightRange \in [Kinds -> Nat] /\ CitySight \in Nat

Visibility == {"Unexplored", "Explored", "Visible"}

\* The grid a faction gets when it is first asked about.
Dark == [t \in Tiles |-> "Unexplored"]

\* What the units and the cities of f see: a unit from its tile, a city from
\* every tile it occupies.  Units that have died see as well, until they are
\* removed.
InSight(w, f) ==
  UNION ({Sight(w.unit[p].tile, SightRange[w.unit[p].kind]) :
            p \in {q \in DOMAIN w.unit : w.unit[q].faction = f}}
         \cup {Sight(t, CitySight) : t \in UNION {CityTiles[c] :
                 c \in {d \in Cities : w.town.owner[d] = f}}})

Recalculate(fog, w, f) ==
  [t \in Tiles |->
     IF t \in InSight(w, f) THEN "Visible"
     ELSE IF fog[t] = "Visible" THEN "Explored" ELSE fog[t]]

=============================================================================
