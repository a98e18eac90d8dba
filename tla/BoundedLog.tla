----------------------------- MODULE BoundedLog -----------------------------
(***************************************************************************)
(* What game::CombatLog promises: a log of the latest events, of which the *)
(* oldest is dropped when it is full.                                      *)
(***************************************************************************)
EXTENDS Naturals, Sequences

CONSTANTS
  Events,
  Capacity       \* how many events are kept

BoundedLogAssumption == Capacity \in Nat \ {0}

VARIABLE log      \* oldest first

\* The last n elements of s, or all of them.
Latest(s, n) == IF n >= Len(s) THEN s ELSE SubSeq(s, Len(s) - n + 1, Len(s))

Init == log = <<>>

Record(e) == log' = Latest(Append(log, e), Capacity)

Clear == log' = <<>>

Next == (\E e \in Events : Record(e)) \/ Clear

Spec == Init /\ [][Next]_log

=============================================================================
