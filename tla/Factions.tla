------------------------------ MODULE Factions ------------------------------
(***************************************************************************)
(* FactionRegistry and DiplomacyManager: who takes part in a game, and who *)
(* is at war with whom.                                                    *)
(***************************************************************************)
EXTENDS Integers, Sequences

CONSTANTS MaxFactions, MaxAdditions     \* bounds

FactionsAssumption == MaxFactions \in Nat /\ MaxAdditions \in Nat

VARIABLES
  factions,        \* the vector of the registry
  nextFactionId,
  relations,       \* on pairs of ids, the smaller one first
  settled          \* history: the defaults were the last thing that was set

vars == <<factions, nextFactionId, relations, settled>>

Types == {"Player", "NeutralHostile", "NeutralPassive"}

DiplomacyState == {"War", "Peace", "Alliance"}

FactionIds == 1 .. MaxAdditions

\* The order of the enumeration.
Underlying == [Player |-> 0, NeutralHostile |-> 1, NeutralPassive |-> 2]

Init ==
  /\ factions = <<>>
  /\ nextFactionId = 1
  /\ relations = [k \in {} |-> "Peace"]
  /\ settled = FALSE

MakeKey(a, b) == IF a < b THEN <<a, b>> ELSE <<b, a>>

\* Mutant: the types are compared as they come.
DefaultAsGiven(ta, tb) ==
  CASE ta = tb -> (IF ta = "Player" THEN "War" ELSE "Peace")
    [] ta = "Player" /\ tb = "NeutralHostile" -> "War"
    [] ta = "Player" /\ tb = "NeutralPassive" -> "Peace"
    [] ta = "NeutralHostile" /\ tb = "NeutralPassive" -> "War"
    [] OTHER -> "Peace"

DefaultRelation(typeA, typeB) ==
  LET swap == Underlying[typeA] > Underlying[typeB]
      ta == IF swap THEN typeB ELSE typeA
      tb == IF swap THEN typeA ELSE typeB
  IN  CASE ta = tb -> (IF ta = "Player" THEN "War" ELSE "Peace")
        [] ta = "Player" /\ tb = "NeutralHostile" -> "War"
        [] ta = "Player" /\ tb = "NeutralPassive" -> "Peace"
        [] ta = "NeutralHostile" /\ tb = "NeutralPassive" -> "War"
        [] OTHER -> "Peace"

GetRelation(a, b) ==
  IF a # b /\ MakeKey(a, b) \in DOMAIN relations THEN relations[MakeKey(a, b)] ELSE "Peace"

AreAtWar(a, b) == GetRelation(a, b) = "War"

\* The registry with one faction more, and the id after it.
AddedTo(registry, next, type) ==
  [registry |-> Append(registry, [id |-> next, type |-> type]), next |-> next + 1]

\* All pairs get what their types say, whatever was agreed before.
Defaults(registry, before) ==
  LET indices == {p \in (DOMAIN registry) \X (DOMAIN registry) : p[1] < p[2]}
      keyOf(p) == MakeKey(registry[p[1]].id, registry[p[2]].id)
      keys == {keyOf(p) : p \in indices}
  IN  [k \in (DOMAIN before) \cup keys |->
         IF k \notin keys THEN before[k]
         ELSE LET p == CHOOSE q \in indices : keyOf(q) = k
              IN  DefaultRelation(registry[p[1]].type, registry[p[2]].type)]

AddFaction(type) ==
  LET added == AddedTo(factions, nextFactionId, type)
  IN  /\ Len(factions) < MaxFactions /\ nextFactionId <= MaxAdditions
      /\ factions' = added.registry
      /\ nextFactionId' = added.next
      /\ settled' = FALSE
      /\ UNCHANGED relations

\* Nothing asks whether the ids are known.
SetRelation(a, b, state) ==
  /\ relations' = IF a = b THEN relations
                  ELSE [k \in (DOMAIN relations) \cup {MakeKey(a, b)} |->
                          IF k = MakeKey(a, b) THEN state ELSE relations[k]]
  /\ settled' = FALSE
  /\ UNCHANGED <<factions, nextFactionId>>

InitializeDefaults ==
  /\ relations' = Defaults(factions, relations)
  /\ settled' = TRUE
  /\ UNCHANGED <<factions, nextFactionId>>

Clear ==
  /\ relations' = [k \in {} |-> "Peace"]
  /\ settled' = FALSE
  /\ UNCHANGED <<factions, nextFactionId>>

\* Two factions, then the defaults for all.
SpawnNeutralFactions ==
  LET hostile == AddedTo(factions, nextFactionId, "NeutralHostile")
      passive == AddedTo(hostile.registry, hostile.next, "NeutralPassive")
  IN  /\ Len(factions) + 1 < MaxFactions /\ nextFactionId < MaxAdditions
      /\ factions' = passive.registry
      /\ nextFactionId' = passive.next
      /\ relations' = Defaults(passive.registry, relations)
      /\ settled' = TRUE

Next ==
  \/ \E type \in Types : AddFaction(type)
  \/ \E a, b \in FactionIds, state \in DiplomacyState : SetRelation(a, b, state)
  \/ InitializeDefaults
  \/ Clear
  \/ SpawnNeutralFactions

Spec == Init /\ [][Next]_vars

-----------------------------------------------------------------------------
(* What is checked. *)

TypeOK ==
  /\ factions \in Seq([id : Nat, type : Types])
  /\ nextFactionId \in Nat
  /\ DOMAIN relations \subseteq FactionIds \X FactionIds
  /\ \A k \in DOMAIN relations : relations[k] \in DiplomacyState /\ k[1] < k[2]

\* An id stands for one faction, whatever has been agreed or cleared, and the
\* next one for none yet.
IdsUnique ==
  \A i, j \in DOMAIN factions :
    factions[i].id < nextFactionId /\ (factions[i].id = factions[j].id => i = j)

\* What two factions are to each other does not depend on who is named first.
RelationsAreMutual ==
  \A a, b \in FactionIds : GetRelation(a, b) = GetRelation(b, a)

\* The pairs of types that the header lists as being at war.
Belligerent ==
  {{"Player"}, {"Player", "NeutralHostile"}, {"NeutralHostile", "NeutralPassive"}}

\* When the defaults have been set, everybody is at war with exactly those
\* the header says, in whatever order they were registered and whatever had
\* been agreed before.
DefaultsSettleRelations ==
  settled =>
    \A i, j \in DOMAIN factions :
      i # j =>
        (AreAtWar(factions[i].id, factions[j].id)
           <=> {factions[i].type, factions[j].type} \in Belligerent)

\* The registry and the relations agree.
DiplomacyIsSound == TypeOK /\ IdsUnique /\ RelationsAreMutual /\ DefaultsSettleRelations

=============================================================================
