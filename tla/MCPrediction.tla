---------------------------- MODULE MCPrediction ----------------------------
(***************************************************************************)
(* Prediction for TLC, on the maps and with the units of                   *)
(* MCActionProcessor.                                                      *)
(***************************************************************************)
EXTENDS MCActionProcessor, Prediction

\* Two of red's units and one of blue's in a row of three and one below.
SquadOfTwo ==
  [p \in {u1, u2, u3} |->
     CASE p = u1 -> NewUnit(warrior, red, <<0, 1>>)
       [] p = u2 -> NewUnit(archer, blue, <<1, 0>>)
       [] p = u3 -> NewUnit(warrior, red, <<0, 0>>)]

\* Kinds that differ in health, and have one step or one blow a turn.
PredictedTemplate ==
  [k \in Kinds |->
     [health |-> IF k = warrior THEN 2 ELSE 1, attack |-> 1, defense |-> 0, moves |-> 1,
      range |-> IF k = warrior THEN 1 ELSE 2]]
=============================================================================
