--------------------------- MODULE ServicesProofs ---------------------------
(***************************************************************************)
(* What the services keep, whatever the sizes: one inductive invariant per *)
(* service, each with a lemma for every operation that can disturb it.     *)
(* While one service does something the others rest, so that a step keeps  *)
(* an invariant if it is one of its own service or changes none of its     *)
(* variables.                                                              *)
(***************************************************************************)
EXTENDS MCServices, FiniteSets, FiniteSetTheorems, SequenceTheorems, WellFoundedInduction, TLAPS

-----------------------------------------------------------------------------
(* Numbers. *)

\* A set of numbers that is closed under successor, from 0 up to N.
LEMMA UpTo ==
  ASSUME NEW N \in Nat, NEW T, 0 \in T,
         \A n \in 0 .. N - 1 : n \in T => n + 1 \in T
  PROVE  \A n \in 0 .. N : n \in T
<1> DEFINE R == {ss \in Nat \X Nat : ss[1] < ss[2]}
           Bad == {n \in Nat : n <= N /\ n \notin T}
<1>1. IsWellFoundedOn(R, Nat)
  BY NatLessThanWellFounded DEF OpToRel
<1>2. \A m, n \in Nat : <<m, n>> \in R <=> m < n
  OBVIOUS
<1> HIDE DEF R
<1>3. ASSUME Bad # {}
      PROVE  FALSE
  <2>1. PICK n \in Bad : \A m \in Bad : ~(<<m, n>> \in R)
    <3>1. Bad \subseteq Nat
      OBVIOUS
    <3> HIDE DEF Bad
    <3> QED
      BY <1>1, <1>3, <3>1, WFMin
  <2>2. n \in Nat /\ n <= N /\ n \notin T /\ n # 0
    BY <2>1
  <2>3. n - 1 \in Nat /\ n - 1 < n /\ n - 1 \in 0 .. N - 1 /\ (n - 1) + 1 = n
    BY <2>2
  <2>4. n - 1 \in T
    <3>1. <<n - 1, n>> \in R
      BY <1>2, <2>2, <2>3
    <3>2. n - 1 \notin Bad
      BY <2>1, <3>1
    <3> QED
      BY <2>2, <2>3, <3>2
  <2> QED
    BY <2>2, <2>3, <2>4
<1> QED
  BY <1>3

\* Every set of numbers that is not empty has a smallest element.
LEMMA Smallest ==
  ASSUME NEW T \in SUBSET Nat, T # {}
  PROVE  \E n \in T : \A m \in T : n <= m
<1> DEFINE R == {ss \in Nat \X Nat : ss[1] < ss[2]}
<1>1. IsWellFoundedOn(R, Nat)
  BY NatLessThanWellFounded DEF OpToRel
<1>2. \A m, n \in Nat : <<m, n>> \in R <=> m < n
  OBVIOUS
<1> HIDE DEF R
<1>3. PICK n \in T : \A m \in T : ~(<<m, n>> \in R)
  BY <1>1, WFMin
<1>4. \A m \in T : n \in Nat /\ m \in Nat /\ ~(m < n)
  BY <1>2, <1>3
<1>5. \A m \in T : n <= m
  BY <1>4
<1> QED
  BY <1>5

-----------------------------------------------------------------------------
(* The network client. *)

Bare == stub = 0 /\ queue = 0 /\ thread = "none"

Equipped == stub = made /\ queue = made /\ made # 0

\* What is there when the caller is at a statement.  Between two calls the
\* client is connected, with all it needs, or disconnected with nothing left.
AtStatement ==
  /\ pc[main] = "idle" => (state = "Disconnected" /\ Bare) \/ (state = "Connected" /\ Equipped)
  /\ pc[main] = "createStub" => state = "Connecting" /\ Bare /\ made # 0
  /\ pc[main] = "createQueue" =>
       state = "Connecting" /\ stub = made /\ made # 0 /\ queue = 0 /\ thread = "none"
  /\ pc[main] \in {"clearRequest", "launch"} =>
       state = "Connecting" /\ Equipped /\ thread = "none"
  /\ pc[main] = "setConnected" => state = "Connecting" /\ Equipped
  /\ pc[main] \in {"setDisconnecting", "spawn"} => state = "Connected" /\ Equipped
  /\ pc[main] \in {"requestShutdown", "shutQueue", "join"} => state = "Disconnecting" /\ Equipped
  /\ pc[main] = "releaseStub" => state = "Disconnecting" /\ Equipped /\ thread = "none"
  /\ pc[main] = "releaseQueue" =>
       state = "Disconnecting" /\ stub = 0 /\ queue = made /\ thread = "none"
  /\ pc[main] = "setDisconnected" => state = "Disconnecting" /\ Bare

ClientInv == Client!TypeOK /\ AtStatement

LEMMA ClientInvSuffices == ClientInv => ClientIsSound
<1> SUFFICES ASSUME ClientInv
             PROVE  ClientIsSound
  OBVIOUS
<1> USE DEF Client!Null, Client!Connecting, Client!TearingDown, Client!Connections
<1>1. pc[main] \in Client!Connecting \cup Client!TearingDown \cup {"idle", "setDisconnecting", "spawn"}
  BY DEF ClientInv, Client!TypeOK
<1>2. Client!ThreadHasItsQueue /\ Client!ConnectedHasStub /\ Client!ThreadsAreJoined
  BY <1>1 DEF ClientInv, AtStatement, Bare, Equipped, Client!TypeOK, Client!ThreadHasItsQueue,
              Client!ConnectedHasStub, Client!ThreadsAreJoined
<1> QED
  BY <1>2 DEF ClientIsSound, Client!ClientIsSound, ClientInv

LEMMA ClientBegins == Init => ClientInv
<1> SUFFICES ASSUME Init
             PROVE  ClientInv
  OBVIOUS
<1>1. /\ state = "Disconnected" /\ stub = 0 /\ queue = 0 /\ queueShut = FALSE /\ shutdown = FALSE
      /\ thread = "none" /\ pc = [c \in {main} |-> "idle"] /\ made = 0 /\ inFlight = {}
  BY DEF Init, Client!Init, Client!Null
<1>2. pc \in [{main} -> {"idle"}] /\ pc[main] = "idle" /\ MaxConnects \in Nat
  BY <1>1, ClientAssumption DEF Client!ClientAssumption
<1>3. Client!TypeOK
  <2>1. pc \in [{main} -> Client!Connecting \cup Client!TearingDown \cup {"idle", "setDisconnecting", "spawn"}]
    BY <1>2
  <2>2. made \in Client!Connections /\ inFlight \subseteq Client!Connections
    BY <1>1, <1>2 DEF Client!Connections
  <2> QED
    BY <1>1, <2>1, <2>2 DEF Client!TypeOK, Client!Null
<1> QED
  BY <1>1, <1>2, <1>3 DEF ClientInv, AtStatement, Bare

\* A caller's step goes from one statement to another and finds there what it
\* has left.
LEMMA CallerKeeps ==
  ASSUME ClientInv, Client!CallerStep(main)
  PROVE  ClientInv'
<1> USE DEF Client!Null, Client!Connections, Client!Connecting, Client!TearingDown,
            ClientInv, AtStatement, Bare, Equipped, Client!TypeOK
<1> DEFINE Statements == Client!Connecting \cup Client!TearingDown \cup {"idle", "setDisconnecting", "spawn"}
<1>1. MaxConnects \in Nat
  BY ClientAssumption DEF Client!ClientAssumption
<1>2. ASSUME NEW from, NEW to \in Statements, Client!Goto(main, from, to)
      PROVE  pc[main] = from /\ pc' \in [{main} -> Statements] /\ pc'[main] = to
  BY <1>2 DEF Client!Goto
<1>3. CASE Client!Connect(main)
  <2>1. pc[main] = "idle" /\ pc' \in [{main} -> Statements] /\ pc'[main] = "createStub"
    BY <1>2, <1>3 DEF Client!Connect
  <2> QED
    BY <1>1, <1>3, <2>1 DEF Client!Connect
<1>4. CASE Client!CreateStub(main)
  <2>1. pc[main] = "createStub" /\ pc' \in [{main} -> Statements] /\ pc'[main] = "createQueue"
    BY <1>2, <1>4 DEF Client!CreateStub
  <2> QED
    BY <1>4, <2>1 DEF Client!CreateStub
<1>5. CASE Client!CreateQueue(main)
  <2>1. pc[main] = "createQueue" /\ pc' \in [{main} -> Statements] /\ pc'[main] = "clearRequest"
    BY <1>2, <1>5 DEF Client!CreateQueue
  <2> QED
    BY <1>5, <2>1 DEF Client!CreateQueue
<1>6. CASE Client!ClearRequest(main)
  <2>1. pc[main] = "clearRequest" /\ pc' \in [{main} -> Statements] /\ pc'[main] = "launch"
    BY <1>2, <1>6 DEF Client!ClearRequest
  <2> QED
    BY <1>6, <2>1 DEF Client!ClearRequest
<1>7. CASE Client!Launch(main)
  <2>1. pc[main] = "launch" /\ pc' \in [{main} -> Statements] /\ pc'[main] = "setConnected"
    BY <1>2, <1>7 DEF Client!Launch
  <2> QED
    BY <1>7, <2>1 DEF Client!Launch
<1>8. CASE Client!SetConnected(main)
  <2>1. pc[main] = "setConnected" /\ pc' \in [{main} -> Statements] /\ pc'[main] = "idle"
    BY <1>2, <1>8 DEF Client!SetConnected
  <2> QED
    BY <1>8, <2>1 DEF Client!SetConnected
<1>9. CASE Client!Disconnect(main)
  <2>1. pc[main] = "idle" /\ pc' \in [{main} -> Statements] /\ pc'[main] = "setDisconnecting"
    BY <1>2, <1>9 DEF Client!Disconnect
  <2> QED
    BY <1>9, <2>1 DEF Client!Disconnect, Client!shared
<1>10. CASE Client!SetDisconnecting(main)
  <2>1. pc[main] = "setDisconnecting" /\ pc' \in [{main} -> Statements] /\ pc'[main] = "requestShutdown"
    BY <1>2, <1>10 DEF Client!SetDisconnecting
  <2> QED
    BY <1>10, <2>1 DEF Client!SetDisconnecting
<1>11. CASE Client!RequestShutdown(main)
  <2>1. pc[main] = "requestShutdown" /\ pc' \in [{main} -> Statements] /\ pc'[main] = "shutQueue"
    BY <1>2, <1>11 DEF Client!RequestShutdown
  <2> QED
    BY <1>11, <2>1 DEF Client!RequestShutdown
<1>12. CASE Client!ShutQueue(main)
  <2>1. pc[main] = "shutQueue" /\ pc' \in [{main} -> Statements] /\ pc'[main] = "join"
    BY <1>2, <1>12 DEF Client!ShutQueue
  <2>2. queueShut' \in BOOLEAN
    BY <1>12 DEF Client!ShutQueue
  <2> QED
    BY <1>12, <2>1, <2>2 DEF Client!ShutQueue
<1>13. CASE Client!Join(main)
  <2>1. pc[main] = "join" /\ pc' \in [{main} -> Statements] /\ pc'[main] = "releaseStub"
    BY <1>2, <1>13 DEF Client!Join
  <2> QED
    BY <1>13, <2>1 DEF Client!Join
<1>14. CASE Client!ReleaseStub(main)
  <2>1. pc[main] = "releaseStub" /\ pc' \in [{main} -> Statements] /\ pc'[main] = "releaseQueue"
    BY <1>2, <1>14 DEF Client!ReleaseStub
  <2> QED
    BY <1>14, <2>1 DEF Client!ReleaseStub
<1>15. CASE Client!ReleaseQueue(main)
  <2>1. pc[main] = "releaseQueue" /\ pc' \in [{main} -> Statements] /\ pc'[main] = "setDisconnected"
    BY <1>2, <1>15 DEF Client!ReleaseQueue
  <2> QED
    BY <1>15, <2>1 DEF Client!ReleaseQueue
<1>16. CASE Client!SetDisconnected(main)
  <2>1. pc[main] = "setDisconnected" /\ pc' \in [{main} -> Statements] /\ pc'[main] = "idle"
    BY <1>2, <1>16 DEF Client!SetDisconnected
  <2> QED
    BY <1>16, <2>1 DEF Client!SetDisconnected
<1>17. CASE Client!Submit(main)
  <2>1. pc[main] = "idle" /\ pc' \in [{main} -> Statements] /\ pc'[main] = "spawn"
    BY <1>2, <1>17 DEF Client!Submit
  <2> QED
    BY <1>17, <2>1 DEF Client!Submit, Client!shared
<1>18. CASE Client!Spawn(main)
  <2>1. pc[main] = "spawn" /\ pc' \in [{main} -> Statements] /\ pc'[main] = "idle"
    BY <1>2, <1>18 DEF Client!Spawn
  <2> QED
    BY <1>18, <2>1 DEF Client!Spawn, Client!shared
<1> QED
  BY <1>3, <1>4, <1>5, <1>6, <1>7, <1>8, <1>9, <1>10, <1>11, <1>12, <1>13, <1>14, <1>15, <1>16,
     <1>17, <1>18
  DEF Client!CallerStep, Client!ConnectStep, Client!DisconnectStep

\* The network thread runs only while the client is equipped, and changes
\* nothing but itself.
LEMMA ClientKeeps == ClientInv /\ [Next]_Vars => ClientInv'
<1> SUFFICES ASSUME ClientInv, [Next]_Vars
             PROVE  ClientInv'
  OBVIOUS
<1> USE DEF ClientInv, AtStatement, Bare, Equipped, Client!TypeOK
<1>1. CASE ClientStep
  <2>1. CASE Client!ThreadStep
    <3>1. /\ thread \in {"running", "waiting"} /\ thread' \in {"running", "waiting", "finished"}
          /\ UNCHANGED <<state, stub, queue, queueShut, shutdown, pc, made, inFlight>>
      BY <2>1 DEF Client!ThreadStep, Client!CheckRequest, Client!PollQueue
    <3> QED
      BY <3>1
  <2>2. CASE Client!SubmissionReturns
    <3>1. /\ UNCHANGED <<state, stub, queue, queueShut, shutdown, thread, pc, made>>
          /\ inFlight' \subseteq inFlight
      BY <2>2 DEF Client!SubmissionReturns, Client!shared
    <3> QED
      BY <3>1
  <2>3. CASE Client!CallerStep(main)
    BY <2>3, CallerKeeps
  <2> QED
    BY <1>1, <2>1, <2>2, <2>3 DEF ClientStep, Client!Next
<1>2. CASE UNCHANGED clientVars
  BY <1>2 DEF clientVars
<1> QED
  BY <1>1, <1>2 DEF Next, Vars, LobbyStep, SaveStep, DatabaseStep, LogStep, DiplomacyStep

\* connect, disconnect, submitAction and the network thread find what they
\* use, however often and in whatever order one thread calls them.
THEOREM ClientAlwaysSound == Spec => []ClientIsSound
<1>1. Spec => []ClientInv
  BY ClientBegins, ClientKeeps, PTL DEF Spec
<1> QED
  BY <1>1, ClientInvSuffices, PTL

-----------------------------------------------------------------------------
(* Diplomacy. *)

Registered == [id : Nat, type : Diplomacy!Types]

\* Ids are given in the order 1, 2, and so on, and none of them twice.
Enrolled(registry, next) ==
  /\ registry \in Seq(Registered)
  /\ next \in 1 .. MaxAdditions + 1
  /\ \A i \in DOMAIN registry : registry[i].id \in 1 .. next - 1
  /\ \A i, j \in DOMAIN registry : registry[i].id = registry[j].id => i = j

Related(known) ==
  \A k \in DOMAIN known :
    k \in Diplomacy!FactionIds \X Diplomacy!FactionIds /\ k[1] < k[2] /\ known[k] \in Diplomacy!DiplomacyState

\* All pairs of a registry have a relation, the one their types ask for.
Assigned(registry, known) ==
  \A i, j \in DOMAIN registry :
    i # j =>
      /\ Diplomacy!MakeKey(registry[i].id, registry[j].id) \in DOMAIN known
      /\ known[Diplomacy!MakeKey(registry[i].id, registry[j].id)] = "War"
           <=> {registry[i].type, registry[j].type} \in Diplomacy!Belligerent

DiplomacyInv ==
  /\ Enrolled(factions, nextFactionId)
  /\ Related(relations)
  /\ settled => Assigned(factions, relations)

\* The two types decide, in whatever order they come.
LEMMA DefaultRelationWar ==
  ASSUME NEW ta \in Diplomacy!Types, NEW tb \in Diplomacy!Types
  PROVE  /\ Diplomacy!DefaultRelation(ta, tb) \in Diplomacy!DiplomacyState
         /\ Diplomacy!DefaultRelation(ta, tb) = "War" <=> {ta, tb} \in Diplomacy!Belligerent
<1> DEFINE R(a, b) == Diplomacy!DefaultRelation(a, b)
<1>1. /\ Diplomacy!Underlying["Player"] = 0
      /\ Diplomacy!Underlying["NeutralHostile"] = 1
      /\ Diplomacy!Underlying["NeutralPassive"] = 2
  BY DEF Diplomacy!Underlying
<1>2. /\ R("Player", "Player") = "War" /\ R("NeutralHostile", "NeutralHostile") = "Peace"
      /\ R("NeutralPassive", "NeutralPassive") = "Peace"
      /\ R("Player", "NeutralHostile") = "War" /\ R("NeutralHostile", "Player") = "War"
      /\ R("Player", "NeutralPassive") = "Peace" /\ R("NeutralPassive", "Player") = "Peace"
      /\ R("NeutralHostile", "NeutralPassive") = "War"
      /\ R("NeutralPassive", "NeutralHostile") = "War"
  BY <1>1 DEF Diplomacy!DefaultRelation
<1> HIDE DEF R
<1>3. R(ta, tb) = "War" <=> {ta, tb} \in Diplomacy!Belligerent
  <2>1. CASE ta = "Player"
    BY <1>2, <2>1 DEF Diplomacy!Types, Diplomacy!Belligerent
  <2>2. CASE ta = "NeutralHostile"
    BY <1>2, <2>2 DEF Diplomacy!Types, Diplomacy!Belligerent
  <2>3. CASE ta = "NeutralPassive"
    BY <1>2, <2>3 DEF Diplomacy!Types, Diplomacy!Belligerent
  <2> QED
    BY <2>1, <2>2, <2>3 DEF Diplomacy!Types
<1>4. R(ta, tb) \in Diplomacy!DiplomacyState
  BY <1>2 DEF Diplomacy!Types, Diplomacy!DiplomacyState
<1> QED
  BY <1>3, <1>4 DEF R

LEMMA MakeKeyProperties ==
  ASSUME NEW a \in Nat, NEW b \in Nat, a # b
  PROVE  /\ Diplomacy!MakeKey(a, b) = Diplomacy!MakeKey(b, a)
         /\ Diplomacy!MakeKey(a, b) \in Nat \X Nat
         /\ Diplomacy!MakeKey(a, b)[1] < Diplomacy!MakeKey(a, b)[2]
         /\ Diplomacy!MakeKey(a, b) \in {a, b} \X {a, b}
BY DEF Diplomacy!MakeKey



\* The defaults for all pairs of a registry are what the types say; other
\* relations stay.
LEMMA DefaultsProperties ==
  ASSUME NEW registry \in Seq(Registered), NEW before,
         \A i, j \in DOMAIN registry : registry[i].id = registry[j].id => i = j
  PROVE  /\ \A k \in DOMAIN Diplomacy!Defaults(registry, before) :
              \/ k \in DOMAIN before /\ Diplomacy!Defaults(registry, before)[k] = before[k]
              \/ /\ Diplomacy!Defaults(registry, before)[k] \in Diplomacy!DiplomacyState
                 /\ \E i, j \in DOMAIN registry :
                      i # j /\ k = Diplomacy!MakeKey(registry[i].id, registry[j].id)
         /\ \A i, j \in DOMAIN registry :
              i # j =>
                /\ Diplomacy!MakeKey(registry[i].id, registry[j].id)
                     \in DOMAIN Diplomacy!Defaults(registry, before)
                /\ Diplomacy!Defaults(registry, before)
                     [Diplomacy!MakeKey(registry[i].id, registry[j].id)] = "War"
                     <=> {registry[i].type, registry[j].type} \in Diplomacy!Belligerent
<1> DEFINE D == Diplomacy!Defaults(registry, before)
           indices == {p \in (DOMAIN registry) \X (DOMAIN registry) : p[1] < p[2]}
           keyOf(p) == Diplomacy!MakeKey(registry[p[1]].id, registry[p[2]].id)
           keys == {keyOf(p) : p \in indices}
           chosen(k) == CHOOSE q \in indices : keyOf(q) = k
           relation(p) == Diplomacy!DefaultRelation(registry[p[1]].type, registry[p[2]].type)
<1>1. D = [k \in (DOMAIN before) \cup keys |->
             IF k \notin keys THEN before[k] ELSE relation(chosen(k))]
  BY DEF Diplomacy!Defaults
<1>2. DOMAIN registry \subseteq Nat /\ \A i \in DOMAIN registry : registry[i] \in Registered
  BY LenProperties
<1>3. ASSUME NEW i \in DOMAIN registry, NEW j \in DOMAIN registry, i # j
      PROVE  /\ registry[i].id \in Nat /\ registry[j].id \in Nat /\ registry[i].id # registry[j].id
             /\ registry[i].type \in Diplomacy!Types /\ registry[j].type \in Diplomacy!Types
  BY <1>2, <1>3 DEF Registered
<1>4. ASSUME NEW i \in DOMAIN registry, NEW j \in DOMAIN registry, i < j
      PROVE  /\ <<i, j>> \in indices
             /\ keyOf(<<i, j>>) = Diplomacy!MakeKey(registry[i].id, registry[j].id)
             /\ chosen(keyOf(<<i, j>>)) = <<i, j>>
             /\ relation(<<i, j>>) \in Diplomacy!DiplomacyState
             /\ relation(<<i, j>>) = "War"
                  <=> {registry[i].type, registry[j].type} \in Diplomacy!Belligerent
  <2>1. /\ <<i, j>> \in indices
        /\ keyOf(<<i, j>>) = Diplomacy!MakeKey(registry[i].id, registry[j].id)
        /\ relation(<<i, j>>) = Diplomacy!DefaultRelation(registry[i].type, registry[j].type)
    BY <1>4
  <2>2. ASSUME NEW q \in indices, keyOf(q) = keyOf(<<i, j>>)
        PROVE  q = <<i, j>>
    <3>1. PICK m \in DOMAIN registry, n \in DOMAIN registry : q = <<m, n>> /\ m < n
      BY <2>2
    <3>2. Diplomacy!MakeKey(registry[m].id, registry[n].id) = Diplomacy!MakeKey(registry[i].id, registry[j].id)
      BY <2>1, <2>2, <3>1
    <3>3. m # n /\ i # j /\ m \in Nat /\ n \in Nat /\ i \in Nat /\ j \in Nat
      BY <1>2, <1>4, <3>1
    <3>4. {registry[m].id, registry[n].id} = {registry[i].id, registry[j].id}
      <4>1. /\ registry[m].id \in Nat /\ registry[n].id \in Nat /\ registry[m].id # registry[n].id
            /\ registry[i].id \in Nat /\ registry[j].id \in Nat /\ registry[i].id # registry[j].id
        BY <1>3, <3>3
      <4> QED
        BY <3>2, <4>1 DEF Diplomacy!MakeKey
    <3>5. {m, n} = {i, j}
      BY <3>4
    <3>6. m \in {i, j} /\ n \in {i, j} /\ m < n /\ i < j
      BY <1>4, <3>1, <3>5
    <3>7. m = i /\ n = j
      BY <3>3, <3>6
    <3> QED
      BY <3>1, <3>7
  <2>3. chosen(keyOf(<<i, j>>)) = <<i, j>>
    <3> HIDE DEF indices, keyOf
    <3> QED
      BY <2>1, <2>2
  <2>4. i # j
    BY <1>2, <1>4
  <2> QED
    BY <1>3, <2>1, <2>3, <2>4, DefaultRelationWar
<1>5. \A k \in keys : \E i, j \in DOMAIN registry : i < j /\ k = keyOf(<<i, j>>)
  <2> SUFFICES ASSUME NEW k \in keys
               PROVE  \E i, j \in DOMAIN registry : i < j /\ k = keyOf(<<i, j>>)
    OBVIOUS
  <2>1. PICK q \in indices : k = keyOf(q)
    OBVIOUS
  <2>2. PICK m \in DOMAIN registry, n \in DOMAIN registry : q = <<m, n>> /\ m < n
    BY <2>1
  <2> QED
    BY <2>1, <2>2
<1>6. \A p \in indices : keyOf(p) \in keys
  OBVIOUS
<1> HIDE DEF D, indices, keyOf, keys, chosen, relation
<1>7. ASSUME NEW k \in DOMAIN D
      PROVE  \/ k \in DOMAIN before /\ D[k] = before[k]
             \/ /\ D[k] \in Diplomacy!DiplomacyState
                /\ \E i, j \in DOMAIN registry :
                     i # j /\ k = Diplomacy!MakeKey(registry[i].id, registry[j].id)
  <2>1. CASE k \notin keys
    BY <1>1, <1>7, <2>1
  <2>2. CASE k \in keys
    <3>1. PICK i \in DOMAIN registry, j \in DOMAIN registry : i < j /\ k = keyOf(<<i, j>>)
      BY <1>5, <2>2
    <3>2. i \in Nat /\ j \in Nat /\ i # j
      BY <1>2, <3>1
    <3>3. chosen(k) = <<i, j>>
      BY <1>4, <3>1
    <3>4. D[k] = relation(<<i, j>>)
      BY <1>1, <1>7, <2>2, <3>3
    <3> QED
      BY <1>4, <3>1, <3>2, <3>4
  <2> QED
    BY <2>1, <2>2
<1>8. ASSUME NEW i \in DOMAIN registry, NEW j \in DOMAIN registry, i < j
      PROVE  /\ Diplomacy!MakeKey(registry[i].id, registry[j].id) \in DOMAIN D
             /\ D[Diplomacy!MakeKey(registry[i].id, registry[j].id)] = "War"
                  <=> {registry[i].type, registry[j].type} \in Diplomacy!Belligerent
  <2>1. keyOf(<<i, j>>) \in keys
    BY <1>4, <1>6, <1>8
  <2>2. keyOf(<<i, j>>) \in DOMAIN D /\ D[keyOf(<<i, j>>)] = relation(<<i, j>>)
    BY <1>1, <1>4, <1>8, <2>1
  <2> QED
    BY <1>4, <1>8, <2>2
<1>9. ASSUME NEW i \in DOMAIN registry, NEW j \in DOMAIN registry, i # j
      PROVE  /\ Diplomacy!MakeKey(registry[i].id, registry[j].id) \in DOMAIN D
             /\ D[Diplomacy!MakeKey(registry[i].id, registry[j].id)] = "War"
                  <=> {registry[i].type, registry[j].type} \in Diplomacy!Belligerent
  <2>1. CASE i < j
    BY <1>8, <2>1
  <2>2. CASE j < i
    <3>1. registry[i].id \in Nat /\ registry[j].id \in Nat /\ registry[i].id # registry[j].id
      BY <1>3, <1>9
    <3>2. Diplomacy!MakeKey(registry[i].id, registry[j].id) = Diplomacy!MakeKey(registry[j].id, registry[i].id)
      BY <3>1, MakeKeyProperties
    <3>3. {registry[i].type, registry[j].type} = {registry[j].type, registry[i].type}
      OBVIOUS
    <3> QED
      BY <1>8, <2>2, <3>2, <3>3
  <2> QED
    BY <1>2, <1>9, <2>1, <2>2
<1>10. D = Diplomacy!Defaults(registry, before)
  BY DEF D
<1> QED
  BY <1>7, <1>9, <1>10

LEMMA DefaultsKeep ==
  ASSUME NEW registry, NEW next, NEW before, Enrolled(registry, next), Related(before)
  PROVE  /\ Related(Diplomacy!Defaults(registry, before))
         /\ Assigned(registry, Diplomacy!Defaults(registry, before))
<1> DEFINE D == Diplomacy!Defaults(registry, before)
<1>1. registry \in Seq(Registered) /\ MaxAdditions \in Nat
  BY FactionsAssumption DEF Enrolled, Diplomacy!FactionsAssumption
<1>2. /\ \A k \in DOMAIN D :
           \/ k \in DOMAIN before /\ D[k] = before[k]
           \/ /\ D[k] \in Diplomacy!DiplomacyState
              /\ \E i, j \in DOMAIN registry :
                   i # j /\ k = Diplomacy!MakeKey(registry[i].id, registry[j].id)
      /\ Assigned(registry, D)
  BY <1>1, DefaultsProperties DEF Enrolled, Assigned
<1> HIDE DEF D
<1>3. ASSUME NEW k \in DOMAIN D
      PROVE  k \in Diplomacy!FactionIds \X Diplomacy!FactionIds /\ k[1] < k[2] /\ D[k] \in Diplomacy!DiplomacyState
  <2>1. CASE k \in DOMAIN before /\ D[k] = before[k]
    BY <2>1 DEF Related
  <2>2. CASE /\ D[k] \in Diplomacy!DiplomacyState
             /\ \E i, j \in DOMAIN registry :
                  i # j /\ k = Diplomacy!MakeKey(registry[i].id, registry[j].id)
    <3>1. PICK i \in DOMAIN registry, j \in DOMAIN registry :
            i # j /\ k = Diplomacy!MakeKey(registry[i].id, registry[j].id)
      BY <2>2
    <3>2. /\ registry[i].id \in Diplomacy!FactionIds /\ registry[j].id \in Diplomacy!FactionIds
          /\ registry[i].id # registry[j].id
      BY <1>1, <3>1 DEF Enrolled, Diplomacy!FactionIds
    <3>3. registry[i].id \in Nat /\ registry[j].id \in Nat
      BY <1>1, <3>2 DEF Diplomacy!FactionIds
    <3> QED
      BY <2>2, <3>1, <3>2, <3>3 DEF Diplomacy!MakeKey
  <2> QED
    BY <1>2, <1>3, <2>1, <2>2
<1>4. Related(D)
  BY <1>3 DEF Related
<1> QED
  BY <1>2, <1>4 DEF D

LEMMA AddedEnrolled ==
  ASSUME NEW registry, NEW next, NEW type \in Diplomacy!Types,
         Enrolled(registry, next), next <= MaxAdditions
  PROVE  Enrolled(Diplomacy!AddedTo(registry, next, type).registry,
                  Diplomacy!AddedTo(registry, next, type).next)
<1> DEFINE new == [id |-> next, type |-> type]
           longer == Append(registry, new)
<1>1. /\ Diplomacy!AddedTo(registry, next, type).registry = longer
      /\ Diplomacy!AddedTo(registry, next, type).next = next + 1
  BY DEF Diplomacy!AddedTo
<1>2. registry \in Seq(Registered) /\ MaxAdditions \in Nat /\ next \in Nat /\ next > 0
  BY FactionsAssumption DEF Enrolled, Diplomacy!FactionsAssumption
<1>3. new \in Registered /\ new.id = next
  BY <1>2 DEF Registered
<1> HIDE DEF new
<1>4. /\ longer \in Seq(Registered) /\ DOMAIN longer = 1 .. Len(registry) + 1
      /\ longer[Len(registry) + 1] = new
      /\ \A i \in 1 .. Len(registry) : longer[i] = registry[i]
      /\ DOMAIN registry = 1 .. Len(registry) /\ Len(registry) \in Nat
  BY <1>2, <1>3, AppendProperties, LenProperties
<1> HIDE DEF longer
<1>5. ASSUME NEW i \in DOMAIN longer
      PROVE  \/ i = Len(registry) + 1 /\ longer[i].id = next
             \/ i \in DOMAIN registry /\ longer[i] = registry[i] /\ longer[i].id \in 1 .. next - 1
  BY <1>3, <1>4, <1>5 DEF Enrolled
<1>6. ASSUME NEW i \in DOMAIN longer, NEW j \in DOMAIN longer, longer[i].id = longer[j].id
      PROVE  i = j
  BY <1>2, <1>5, <1>6 DEF Enrolled
<1>7. \A i \in DOMAIN longer : longer[i].id \in 1 .. next
  BY <1>2, <1>5
<1>8. next + 1 \in 1 .. MaxAdditions + 1 /\ next + 1 - 1 = next
  BY <1>2
<1> QED
  BY <1>1, <1>4, <1>6, <1>7, <1>8 DEF Enrolled

LEMMA DiplomacyBegins == Init => DiplomacyInv
<1> SUFFICES ASSUME Init
             PROVE  DiplomacyInv
  OBVIOUS
<1>1. /\ factions = <<>> /\ nextFactionId = 1 /\ relations = [k \in {} |-> "Peace"]
      /\ settled = FALSE /\ MaxAdditions \in Nat
  BY FactionsAssumption DEF Init, Diplomacy!Init, Diplomacy!FactionsAssumption
<1>2. factions \in Seq(Registered) /\ DOMAIN factions = {}
  BY <1>1
<1> QED
  BY <1>1, <1>2 DEF DiplomacyInv, Enrolled, Related

LEMMA DiplomacyKeeps == DiplomacyInv /\ [Next]_Vars => DiplomacyInv'
<1> SUFFICES ASSUME DiplomacyInv, [Next]_Vars
             PROVE  DiplomacyInv'
  OBVIOUS
<1>1. MaxAdditions \in Nat /\ nextFactionId \in Nat
  BY FactionsAssumption DEF DiplomacyInv, Enrolled, Diplomacy!FactionsAssumption
<1>2. ASSUME NEW type \in Diplomacy!Types, Diplomacy!AddFaction(type)
      PROVE  DiplomacyInv'
  <2>1. /\ factions' = Diplomacy!AddedTo(factions, nextFactionId, type).registry
        /\ nextFactionId' = Diplomacy!AddedTo(factions, nextFactionId, type).next
        /\ nextFactionId <= MaxAdditions /\ settled' = FALSE /\ relations' = relations
    BY <1>2 DEF Diplomacy!AddFaction
  <2>2. Enrolled(factions', nextFactionId')
    BY <2>1, AddedEnrolled DEF DiplomacyInv
  <2> QED
    BY <2>1, <2>2 DEF DiplomacyInv
<1>3. ASSUME NEW a \in Diplomacy!FactionIds, NEW b \in Diplomacy!FactionIds, NEW s \in Diplomacy!DiplomacyState,
             Diplomacy!SetRelation(a, b, s)
      PROVE  DiplomacyInv'
  <2>1. settled' = FALSE /\ factions' = factions /\ nextFactionId' = nextFactionId
    BY <1>3 DEF Diplomacy!SetRelation
  <2>2. Related(relations')
    <3>1. CASE a = b
      BY <1>3, <3>1 DEF Diplomacy!SetRelation, DiplomacyInv
    <3>2. CASE a # b
      <4>1. Diplomacy!MakeKey(a, b) \in Diplomacy!FactionIds \X Diplomacy!FactionIds
        BY DEF Diplomacy!MakeKey
      <4>2. Diplomacy!MakeKey(a, b)[1] < Diplomacy!MakeKey(a, b)[2]
        BY <1>1, <3>2 DEF Diplomacy!MakeKey, Diplomacy!FactionIds
      <4>3. relations' = [k \in (DOMAIN relations) \cup {Diplomacy!MakeKey(a, b)} |->
                            IF k = Diplomacy!MakeKey(a, b) THEN s ELSE relations[k]]
        BY <1>3, <3>2 DEF Diplomacy!SetRelation
      <4> QED
        BY <4>1, <4>2, <4>3 DEF DiplomacyInv, Related
    <3> QED
      BY <3>1, <3>2
  <2> QED
    BY <2>1, <2>2 DEF DiplomacyInv
<1>4. CASE Diplomacy!InitializeDefaults
  <2>1. /\ relations' = Diplomacy!Defaults(factions, relations)
        /\ factions' = factions /\ nextFactionId' = nextFactionId
    BY <1>4 DEF Diplomacy!InitializeDefaults
  <2>2. Related(relations') /\ Assigned(factions', relations')
    BY <2>1, DefaultsKeep DEF DiplomacyInv
  <2> QED
    BY <2>1, <2>2 DEF DiplomacyInv
<1>5. CASE Diplomacy!Clear
  <2>1. /\ DOMAIN relations' = {} /\ settled' = FALSE
        /\ factions' = factions /\ nextFactionId' = nextFactionId
    BY <1>5 DEF Diplomacy!Clear
  <2> QED
    BY <2>1 DEF DiplomacyInv, Related
<1>6. CASE Diplomacy!SpawnNeutralFactions
  <2> DEFINE hostile == Diplomacy!AddedTo(factions, nextFactionId, "NeutralHostile")
             passive == Diplomacy!AddedTo(hostile.registry, hostile.next, "NeutralPassive")
  <2>1. /\ factions' = passive.registry /\ nextFactionId' = passive.next
        /\ relations' = Diplomacy!Defaults(passive.registry, relations)
        /\ nextFactionId < MaxAdditions
    BY <1>6 DEF Diplomacy!SpawnNeutralFactions
  <2>2. hostile.next = nextFactionId + 1
    BY DEF Diplomacy!AddedTo
  <2>3. Enrolled(hostile.registry, hostile.next)
    BY <1>1, <2>1, AddedEnrolled DEF DiplomacyInv, Diplomacy!Types
  <2>4. Enrolled(passive.registry, passive.next)
    <3> HIDE DEF hostile
    <3> QED
      BY <1>1, <2>1, <2>2, <2>3, AddedEnrolled DEF Diplomacy!Types
  <2> HIDE DEF hostile, passive
  <2>5. Related(relations') /\ Assigned(factions', relations')
    BY <2>1, <2>4, DefaultsKeep DEF DiplomacyInv
  <2> QED
    BY <2>1, <2>4, <2>5 DEF DiplomacyInv
<1>7. CASE UNCHANGED factionVars
  BY <1>7 DEF factionVars, DiplomacyInv
<1>8. CASE DiplomacyStep
  BY <1>2, <1>3, <1>4, <1>5, <1>6, <1>8 DEF DiplomacyStep, Diplomacy!Next
<1> QED
  BY <1>7, <1>8 DEF Next, Vars, LobbyStep, ClientStep, SaveStep, DatabaseStep, LogStep

LEMMA DiplomacyInvSuffices == DiplomacyInv => DiplomacyIsSound
<1> SUFFICES ASSUME DiplomacyInv
             PROVE  DiplomacyIsSound
  OBVIOUS
<1>1. MaxAdditions \in Nat /\ nextFactionId \in Nat /\ factions \in Seq(Registered)
  BY FactionsAssumption DEF DiplomacyInv, Enrolled, Diplomacy!FactionsAssumption
<1>2. Diplomacy!TypeOK
  BY <1>1 DEF Diplomacy!TypeOK, DiplomacyInv, Related, Registered
<1>3. Diplomacy!IdsUnique
  <2>1. \A i \in DOMAIN factions : factions[i].id < nextFactionId
    BY <1>1 DEF DiplomacyInv, Enrolled
  <2> QED
    BY <2>1 DEF Diplomacy!IdsUnique, DiplomacyInv, Enrolled
<1>4. Diplomacy!RelationsAreMutual
  <2> SUFFICES ASSUME NEW a \in Diplomacy!FactionIds, NEW b \in Diplomacy!FactionIds, a # b
               PROVE  Diplomacy!GetRelation(a, b) = Diplomacy!GetRelation(b, a)
    BY DEF Diplomacy!RelationsAreMutual
  <2>1. Diplomacy!MakeKey(a, b) = Diplomacy!MakeKey(b, a)
    BY <1>1, MakeKeyProperties DEF Diplomacy!FactionIds
  <2> QED
    BY <2>1 DEF Diplomacy!GetRelation
<1>5. Diplomacy!DefaultsSettleRelations
  <2> SUFFICES ASSUME settled, NEW i \in DOMAIN factions, NEW j \in DOMAIN factions, i # j
               PROVE  Diplomacy!AreAtWar(factions[i].id, factions[j].id)
                        <=> {factions[i].type, factions[j].type} \in Diplomacy!Belligerent
    BY DEF Diplomacy!DefaultsSettleRelations
  <2>1. factions[i].id # factions[j].id
    BY DEF DiplomacyInv, Enrolled
  <2>2. /\ Diplomacy!MakeKey(factions[i].id, factions[j].id) \in DOMAIN relations
        /\ relations[Diplomacy!MakeKey(factions[i].id, factions[j].id)] = "War"
             <=> {factions[i].type, factions[j].type} \in Diplomacy!Belligerent
    BY DEF DiplomacyInv, Assigned
  <2> QED
    BY <2>1, <2>2 DEF Diplomacy!AreAtWar, Diplomacy!GetRelation
<1> QED
  BY <1>2, <1>3, <1>4, <1>5 DEF DiplomacyIsSound, Diplomacy!DiplomacyIsSound

\* Ids are unique and relations mutual, and after initializeDefaults or the
\* spawning of the neutral factions everybody is at war with exactly those the
\* header says, whatever was registered, agreed or cleared before.
THEOREM DiplomacyAlwaysSound == Spec => []DiplomacyIsSound
<1>1. Spec => []DiplomacyInv
  BY DiplomacyBegins, DiplomacyKeeps, PTL DEF Spec
<1> QED
  BY <1>1, DiplomacyInvSuffices, PTL

-----------------------------------------------------------------------------
(* Save files. *)

\* Writes have times of their own.
FilesDated ==
  /\ \A n \in DOMAIN files : files[n].at \in 1 .. tick
  /\ \A m, n \in DOMAIN files : files[m].at = files[n].at => m = n

\* The latest file is that of the save begun last, and has all of it only if no
\* completed save came before.
LatestIsBegun ==
  /\ saving # <<>> => begun = <<loaded>>
  /\ DOMAIN files # {} => \E n \in DOMAIN files : files[n].at = tick
  /\ \A n \in DOMAIN files :
       files[n].at = tick =>
         /\ begun # <<>> /\ files[n].of = begun[1].of /\ files[n].chunks <= begun[1].chunks
         /\ Saves!CutOff => files[n].chunks < begun[1].chunks

\* The file of the last completed save is whole until a save of the same name
\* begins, and the latest until any save begins.
KeptIsThere ==
  \A k \in DOMAIN kept :
    LET save == kept[k]
    IN  /\ save.second \notin save.since =>
             /\ save.second \in DOMAIN files
             /\ files[save.second].of = save.game
             /\ files[save.second].chunks = Chunks
             /\ ~files[save.second].torn
        /\ save.since = {} => files[save.second].at = tick
        /\ saving # <<>> => saving[1].name \in save.since

SavingIsNamed == saving # <<>> => saving[1].name = saving[1].second

SavesInv == Saves!TypeOK /\ FilesDated /\ SavingIsNamed /\ KeptIsThere /\ LatestIsBegun

LEMMA SavesConstants ==
  /\ Chunks \in Nat /\ Chunks > 0 /\ LastSecond \in Nat /\ MaxWrites \in Nat
  /\ Demo \in Games
BY SaveLoadAssumption DEF Saves!SaveLoadAssumption

LEMMA SavesBegin == Init => SavesInv
<1> SUFFICES ASSUME Init
             PROVE  SavesInv
  OBVIOUS
<1>1. /\ DOMAIN files = {} /\ second = 0 /\ tick = 0 /\ saving = <<>> /\ kept = <<>> /\ begun = <<>>
      /\ loaded = [of |-> Demo, chunks |-> Chunks]
  BY DEF Init, Saves!Init, Saves!None, Saves!Whole
<1>2. Saves!TypeOK
  BY <1>1, SavesConstants DEF Saves!TypeOK
<1> QED
  BY <1>1, <1>2 DEF SavesInv, FilesDated, SavingIsNamed, KeptIsThere, LatestIsBegun

\* What a write leaves: one file changed, which is then the latest.
Written(name, n, torn) ==
  /\ FilesDated'
  /\ tick \in Nat /\ tick' = tick + 1 /\ tick' \in 0 .. MaxWrites
  /\ DOMAIN files' = DOMAIN files \cup {name} /\ DOMAIN files' \subseteq 0 .. LastSecond
  /\ \A m \in DOMAIN files' :
       files'[m] \in [of : Games, chunks : 0 .. Chunks, torn : BOOLEAN, at : 1 .. tick']
  /\ \A m \in DOMAIN files : m # name => files'[m] = files[m]
  /\ files'[name].of = loaded.of /\ files'[name].chunks = n
  /\ files'[name].torn = torn /\ files'[name].at = tick'

LEMMA WriteKeeps ==
  ASSUME SavesInv, NEW name \in 0 .. LastSecond, NEW n \in 0 .. Chunks, NEW torn \in BOOLEAN,
         Saves!Write(name, n, torn)
  PROVE  Written(name, n, torn)
<1> DEFINE new == [of |-> loaded.of, chunks |-> n, torn |-> torn, at |-> tick + 1]
<1>1. /\ tick < MaxWrites /\ tick' = tick + 1
      /\ files' = [m \in DOMAIN files \cup {name} |-> IF m # name THEN files[m] ELSE new]
  BY DEF Saves!Write
<1>2. /\ tick \in 0 .. MaxWrites /\ loaded.of \in Games /\ DOMAIN files \subseteq 0 .. LastSecond
      /\ \A m \in DOMAIN files :
           files[m] \in [of : Games, chunks : 0 .. Chunks, torn : BOOLEAN, at : 1 .. tick]
  BY DEF SavesInv, Saves!TypeOK
<1>3. /\ tick \in Nat /\ tick' \in 0 .. MaxWrites
      /\ new \in [of : Games, chunks : 0 .. Chunks, torn : BOOLEAN, at : 1 .. tick']
      /\ new.at = tick' /\ new.of = loaded.of /\ new.chunks = n /\ new.torn = torn
  BY <1>1, <1>2, SavesConstants
<1> HIDE DEF new
<1>4. /\ DOMAIN files' = DOMAIN files \cup {name} /\ files'[name] = new
      /\ \A m \in DOMAIN files : m # name => files'[m] = files[m]
  BY <1>1
<1>5. \A m \in DOMAIN files : m # name => files'[m].at \in 1 .. tick
  BY <1>2, <1>4
<1>6. \A m \in DOMAIN files' :
        files'[m] \in [of : Games, chunks : 0 .. Chunks, torn : BOOLEAN, at : 1 .. tick']
  <2> SUFFICES ASSUME NEW m \in DOMAIN files'
               PROVE  files'[m] \in [of : Games, chunks : 0 .. Chunks, torn : BOOLEAN, at : 1 .. tick']
    OBVIOUS
  <2>1. CASE m = name
    BY <1>3, <1>4, <2>1
  <2>2. CASE m # name
    BY <1>1, <1>2, <1>3, <1>4, <2>2
  <2> QED
    BY <2>1, <2>2
<1>7. FilesDated'
  <2>1. \A m \in DOMAIN files' : files'[m].at \in 1 .. tick'
    BY <1>6
  <2>2. ASSUME NEW m \in DOMAIN files', NEW k \in DOMAIN files', files'[m].at = files'[k].at
        PROVE  m = k
    BY <1>1, <1>3, <1>4, <1>5, <2>2 DEF SavesInv, FilesDated
  <2> QED
    BY <2>1, <2>2 DEF FilesDated
<1> QED
  BY <1>1, <1>2, <1>3, <1>4, <1>6, <1>7 DEF Written

\* Nothing but the game in memory changes while no save is under way, and a
\* save may end.
LEMMA SavesRest ==
  ASSUME SavesInv, UNCHANGED <<files, tick, kept, begun>>, second' \in 0 .. LastSecond,
         saving' = saving \/ saving' = <<>>, saving' # <<>> => loaded' = loaded,
         loaded' \in [of : Games, chunks : 1 .. Chunks]
  PROVE  SavesInv'
<1>1. Saves!TypeOK'
  <2>1. \A s : s = <<>> => Len(s) <= 1 /\ \A S : s \in Seq(S)
    OBVIOUS
  <2> QED
    BY <2>1 DEF SavesInv, Saves!TypeOK
<1>2. saving' # <<>> => saving' = saving
  OBVIOUS
<1>3. FilesDated' /\ SavingIsNamed' /\ KeptIsThere' /\ LatestIsBegun'
  BY <1>2 DEF SavesInv, FilesDated, SavingIsNamed, KeptIsThere, LatestIsBegun, Saves!CutOff
<1> QED
  BY <1>1, <1>3 DEF SavesInv

LEMMA SingleSeq ==
  ASSUME NEW S, NEW e \in S
  PROVE  /\ <<e>> \in Seq(S) /\ Len(<<e>>) = 1 /\ <<e>>[1] = e /\ DOMAIN <<e>> = {1}
         /\ <<e>> # <<>>
OBVIOUS

LEMMA AtMostOne ==
  ASSUME NEW S, NEW s \in Seq(S), Len(s) <= 1
  PROVE  /\ s = <<>> \/ (s = <<s[1]>> /\ s[1] \in S)
         /\ DOMAIN s \subseteq {1} /\ \A k \in DOMAIN s : k = 1 /\ s # <<>>
<1>1. Len(s) \in Nat /\ DOMAIN s = 1 .. Len(s)
  BY LenProperties
<1>2. CASE Len(s) = 0
  <2>1. s = <<>>
    BY <1>2, EmptySeq
  <2> QED
    BY <1>1, <1>2, <2>1
<1>3. CASE Len(s) = 1
  <2>1. s[1] \in S /\ DOMAIN s = {1}
    BY <1>1, <1>3, ElementOfSeq
  <2>2. s = <<s[1]>>
    BY <1>3, <2>1, SeqEqual, SingleSeq
  <2> QED
    BY <2>1, <2>2, SingleSeq
<1> QED
  BY <1>1, <1>2, <1>3

\* A write for the save under way, after which the save is over: with the
\* last save as it was, or with this one in its place if the file is whole.
LEMMA SaveEnds ==
  ASSUME SavesInv, saving # <<>>,
         NEW n \in 0 .. loaded.chunks, NEW torn \in BOOLEAN, Saves!Write(saving[1].name, n, torn),
         saving' = <<>>, UNCHANGED <<second, begun>>,
         loaded' \in [of : Games, chunks : 1 .. Chunks],
         \/ kept' = kept /\ n < loaded.chunks
         \/ kept' = <<>>
         \/ /\ kept' = <<[game |-> loaded.of, second |-> saving[1].second, since |-> {}]>>
            /\ n = Chunks /\ torn = FALSE
  PROVE  SavesInv'
<1> DEFINE name == saving[1].name
           Kept == [game : Games, second : 0 .. LastSecond, since : SUBSET (0 .. LastSecond)]
<1>1. /\ saving = <<saving[1]>> /\ saving[1] \in [name : DOMAIN files, second : 0 .. LastSecond]
      /\ DOMAIN files \subseteq 0 .. LastSecond
  <2>1. /\ saving \in Seq([name : DOMAIN files, second : 0 .. LastSecond]) /\ Len(saving) <= 1
        /\ DOMAIN files \subseteq 0 .. LastSecond
    BY DEF SavesInv, Saves!TypeOK
  <2> DEFINE S == [name : DOMAIN files, second : 0 .. LastSecond]
  <2>2. saving \in Seq(S) /\ Len(saving) <= 1 /\ saving # <<>>
    BY <2>1
  <2> HIDE DEF S
  <2>3. saving = <<saving[1]>> /\ saving[1] \in S
    BY <2>2, AtMostOne
  <2> QED
    BY <2>1, <2>3 DEF S
<1>2. name \in DOMAIN files /\ name \in 0 .. LastSecond /\ saving[1].second = name
  BY <1>1 DEF SavesInv, SavingIsNamed
<1>3. Written(name, n, torn)
  <2>1. Saves!Write(name, n, torn)
    OBVIOUS
  <2>2. n \in 0 .. Chunks
    BY SavesConstants DEF SavesInv, Saves!TypeOK
  <2> HIDE DEF name
  <2> QED
    BY <1>2, <2>1, <2>2, WriteKeeps
<1>4. /\ kept \in Seq(Kept) /\ Len(kept) <= 1 /\ loaded \in [of : Games, chunks : 1 .. Chunks]
  BY DEF SavesInv, Saves!TypeOK
<1> HIDE DEF name, Kept
<1>5. kept' \in Seq(Kept) /\ Len(kept') <= 1 /\ KeptIsThere'
  <2>1. CASE kept' = kept
    <3>1. \A k \in DOMAIN kept : name \in kept[k].since
      BY <1>2 DEF SavesInv, KeptIsThere, name
    <3>2. KeptIsThere'
      BY <1>3, <2>1, <3>1 DEF SavesInv, KeptIsThere, Written
    <3> QED
      BY <1>4, <2>1, <3>2
  <2>2. CASE kept' = <<>>
    BY <2>2 DEF KeptIsThere
  <2>3. CASE /\ kept' = <<[game |-> loaded.of, second |-> saving[1].second, since |-> {}]>>
             /\ n = Chunks /\ torn = FALSE
    <3> DEFINE save == [game |-> loaded.of, second |-> name, since |-> {}]
    <3>1. save \in Kept /\ kept' = <<save>>
      BY <1>2, <1>4, <2>3 DEF Kept
    <3>2. save.game = loaded.of /\ save.second = name /\ save.since = {}
      OBVIOUS
    <3> HIDE DEF save
    <3>3. kept' \in Seq(Kept) /\ Len(kept') <= 1 /\ DOMAIN kept' = {1} /\ kept'[1] = save
      BY <3>1, SingleSeq
    <3>4. KeptIsThere'
      BY <1>3, <2>3, <3>2, <3>3 DEF KeptIsThere, Written
    <3> QED
      BY <3>3, <3>4
  <2> QED
    BY <2>1, <2>2, <2>3
<1>6. LatestIsBegun'
  <2>1. /\ begun = <<loaded>> /\ loaded.chunks \in 1 .. Chunks /\ begun[1] = loaded
        /\ n \in Nat /\ n <= loaded.chunks
    BY <1>4, SavesConstants DEF SavesInv, LatestIsBegun
  <2>2. \A m \in DOMAIN files' : m # name => files'[m].at # tick'
    BY <1>3 DEF Written, FilesDated
  <2>3. Saves!CutOff' => n < loaded.chunks
    BY DEF Saves!CutOff
  <2> QED
    BY <1>3, <2>1, <2>2, <2>3 DEF LatestIsBegun, Written
<1>7. saving' \in Seq([name : DOMAIN files', second : 0 .. LastSecond]) /\ Len(saving') <= 1
  OBVIOUS
<1>8. second' \in 0 .. LastSecond
  BY DEF SavesInv, Saves!TypeOK
<1>9. Saves!TypeOK'
  BY <1>3, <1>5, <1>7, <1>8 DEF SavesInv, Saves!TypeOK, Kept, Written
<1> QED
  BY <1>3, <1>5, <1>6, <1>9 DEF SavesInv, SavingIsNamed, Written

\* saveGame begins: the file is emptied, and the last save is no longer the
\* latest file; this one is.
LEMMA OpenKeeps == SavesInv /\ Saves!Open => SavesInv'
<1> SUFFICES ASSUME SavesInv, Saves!Open
             PROVE  SavesInv'
  OBVIOUS
<1> DEFINE Kept == [game : Games, second : 0 .. LastSecond, since : SUBSET (0 .. LastSecond)]
<1>1. /\ second \in 0 .. LastSecond /\ loaded \in [of : Games, chunks : 1 .. Chunks]
      /\ kept \in Seq(Kept) /\ Len(kept) <= 1 /\ saving = <<>>
      /\ second' = second /\ loaded' = loaded
  BY DEF SavesInv, Saves!TypeOK, Saves!Open, Saves!None
<1>2. CASE UNCHANGED <<files, tick, saving, kept, begun>>
  BY <1>1, <1>2, SavesRest
<1>3. CASE /\ Saves!Write(second, 0, FALSE)
           /\ saving' = <<[name |-> second, second |-> second]>>
           /\ kept' = [k \in DOMAIN kept |-> [kept[k] EXCEPT !.since = @ \cup {second}]]
           /\ begun' = <<loaded>>
  <2> DEFINE current == [name |-> second, second |-> second]
  <2>1. Written(second, 0, FALSE)
    <3>1. 0 \in 0 .. Chunks
      BY SavesConstants
    <3> QED
      BY <1>1, <1>3, <3>1, WriteKeeps
  <2>2. current \in [name : DOMAIN files', second : 0 .. LastSecond]
    BY <1>1, <2>1 DEF Written
  <2>3. current.name = second /\ current.second = second
    OBVIOUS
  <2>4. saving' = <<current>>
    BY <1>3
  <2> HIDE DEF current
  <2>5. /\ saving' \in Seq([name : DOMAIN files', second : 0 .. LastSecond]) /\ Len(saving') <= 1
        /\ saving'[1] = current
    BY <2>2, <2>4, SingleSeq
  <2>6. /\ DOMAIN kept' = DOMAIN kept
        /\ \A k \in DOMAIN kept :
             /\ kept'[k] \in Kept
             /\ kept'[k].since = kept[k].since \cup {second}
             /\ kept'[k].second = kept[k].second /\ kept'[k].game = kept[k].game
    <3>1. \A k \in DOMAIN kept : kept[k] \in Kept
      <4> HIDE DEF Kept
      <4> QED
        BY <1>1, ElementOfSeq, LenProperties
    <3> QED
      BY <1>1, <1>3, <3>1
  <2> HIDE DEF Kept
  <2>7. kept' \in Seq(Kept) /\ Len(kept') <= 1
    <3>1. DOMAIN kept = 1 .. Len(kept) /\ Len(kept) \in Nat
      BY <1>1, LenProperties
    <3>2. kept' = [k \in 1 .. Len(kept) |-> kept'[k]] /\ \A k \in 1 .. Len(kept) : kept'[k] \in Kept
      BY <1>3, <2>6, <3>1
    <3>3. kept' \in Seq(Kept)
      BY <3>1, <3>2, IsASeq
    <3>4. DOMAIN kept' = 1 .. Len(kept') /\ Len(kept') \in Nat
      BY <3>3, LenProperties
    <3> QED
      BY <1>1, <2>6, <3>1, <3>3, <3>4
  <2>8. KeptIsThere'
    BY <2>1, <2>3, <2>5, <2>6 DEF SavesInv, KeptIsThere, Written
  <2>9. SavingIsNamed'
    BY <2>3, <2>5 DEF SavingIsNamed
  <2>10. /\ begun' \in Seq([of : Games, chunks : 1 .. Chunks]) /\ Len(begun') <= 1
         /\ begun' # <<>> /\ begun'[1] = loaded
    BY <1>1, <1>3, SingleSeq
  <2>11. Saves!TypeOK'
    BY <1>1, <2>1, <2>5, <2>7, <2>10 DEF Saves!TypeOK, Kept, Written
  <2>12. LatestIsBegun'
    <3>1. \A m \in DOMAIN files' : m # second => files'[m].at # tick'
      BY <2>1 DEF Written, FilesDated
    <3>2. 0 <= loaded.chunks /\ 0 < loaded.chunks
      BY <1>1, SavesConstants
    <3> QED
      BY <1>1, <1>3, <2>1, <2>10, <3>1, <3>2 DEF LatestIsBegun, Written
  <2> QED
    BY <2>1, <2>8, <2>9, <2>11, <2>12 DEF SavesInv, Written
<1> QED
  BY <1>2, <1>3 DEF Saves!Open, Saves!GenerateSavePath

\* There is a latest file if there are files at all.
LEMMA LatestIsThere ==
  ASSUME SavesInv, DOMAIN files # {}
  PROVE  /\ Saves!LatestSavePath(files) \in DOMAIN files
         /\ \A m \in DOMAIN files : files[Saves!LatestSavePath(files)].at >= files[m].at
<1> DEFINE T == {tick - files[n].at : n \in DOMAIN files}
<1>1. tick \in Nat /\ \A n \in DOMAIN files : files[n].at \in 1 .. tick
  BY DEF SavesInv, FilesDated, Saves!TypeOK
<1>2. T \in SUBSET Nat /\ T # {}
  BY <1>1
<1>3. PICK least \in T : \A d \in T : least <= d
  BY <1>2, Smallest
<1>4. PICK n \in DOMAIN files : least = tick - files[n].at
  OBVIOUS
<1>5. \A m \in DOMAIN files : tick - files[n].at <= tick - files[m].at
  BY <1>3, <1>4
<1>6. \A m \in DOMAIN files : files[n].at >= files[m].at
  BY <1>1, <1>5
<1> QED
  BY <1>6 DEF Saves!LatestSavePath

LEMMA SavesKeep == SavesInv /\ [Next]_Vars => SavesInv'
<1> SUFFICES ASSUME SavesInv, [Next]_Vars
             PROVE  SavesInv'
  OBVIOUS
<1>1. /\ second \in 0 .. LastSecond /\ loaded \in [of : Games, chunks : 1 .. Chunks]
      /\ Chunks \in Nat /\ Chunks > 0 /\ LastSecond \in Nat /\ Demo \in Games
      /\ loaded.chunks \in 1 .. Chunks
  BY SavesConstants DEF SavesInv, Saves!TypeOK
<1>2. \A game \in Games : Saves!Whole(game) \in [of : Games, chunks : 1 .. Chunks]
  BY <1>1 DEF Saves!Whole
<1>3. CASE Saves!Play
  BY <1>1, <1>2, <1>3, SavesRest DEF Saves!Play, Saves!None
<1>4. CASE Saves!Pass \/ Saves!SetBack
  <2>1. /\ UNCHANGED <<files, tick, saving, loaded, kept, begun>>
        /\ second' \in 0 .. LastSecond
    BY <1>1, <1>4 DEF Saves!Pass, Saves!SetBack
  <2> QED
    BY <1>1, <2>1, SavesRest
<1>5. CASE Saves!Open
  BY <1>5, OpenKeeps
<1>6. CASE Saves!WriteFails
  <2>1. PICK n \in 0 .. loaded.chunks - 1, torn \in BOOLEAN :
          /\ saving # <<>> /\ Saves!Write(saving[1].name, n, torn)
          /\ saving' = <<>> /\ UNCHANGED <<second, loaded, kept, begun>>
    BY <1>6 DEF Saves!WriteFails, Saves!Reaches, Saves!None
  <2>2. n \in 0 .. loaded.chunks /\ n < loaded.chunks
    BY <1>1
  <2> QED
    BY <1>1, <2>1, <2>2, SaveEnds
<1>7. CASE Saves!WriteAndClose
  <2>1. saving # <<>> /\ saving' = <<>> /\ UNCHANGED <<second, loaded, begun>>
    BY <1>7 DEF Saves!WriteAndClose, Saves!None
  <2>2. CASE /\ Saves!Reaches(loaded.chunks, FALSE)
             /\ kept' = IF loaded = Saves!Whole(loaded.of)
                        THEN <<[game |-> loaded.of, second |-> saving[1].second, since |-> {}]>>
                        ELSE <<>>
    <3>1. Saves!Write(saving[1].name, loaded.chunks, FALSE)
      BY <2>2 DEF Saves!Reaches
    <3>2. loaded = Saves!Whole(loaded.of) => loaded.chunks = Chunks
      BY DEF Saves!Whole
    <3>3. loaded.chunks \in 0 .. loaded.chunks
      BY <1>1
    <3>4. CASE loaded = Saves!Whole(loaded.of)
      BY <1>1, <2>1, <2>2, <3>1, <3>2, <3>3, <3>4, SaveEnds
    <3>5. CASE loaded # Saves!Whole(loaded.of)
      BY <1>1, <2>1, <2>2, <3>1, <3>3, <3>5, SaveEnds
    <3> QED
      BY <3>4, <3>5
  <2>3. CASE \E n \in 0 .. loaded.chunks - 1, torn \in BOOLEAN :
               Saves!Reaches(n, torn) /\ kept' = kept
    <3>1. PICK n \in 0 .. loaded.chunks - 1, torn \in BOOLEAN :
            Saves!Write(saving[1].name, n, torn) /\ kept' = kept
      BY <2>3 DEF Saves!Reaches
    <3>2. n \in 0 .. loaded.chunks /\ n < loaded.chunks
      BY <1>1
    <3> QED
      BY <1>1, <2>1, <3>1, <3>2, SaveEnds
  <2> QED
    BY <1>7, <2>2, <2>3 DEF Saves!WriteAndClose, Saves!None
<1>8. CASE Saves!Crash
  <2>1. /\ saving' = <<>> /\ loaded' = Saves!Whole(Demo) /\ UNCHANGED <<second, kept, begun>>
    BY <1>8 DEF Saves!Crash, Saves!None
  <2>2. CASE UNCHANGED <<files, tick>>
    BY <1>1, <1>2, <2>1, <2>2, SavesRest
  <2>3. CASE /\ saving # <<>>
             /\ \E n \in 0 .. loaded.chunks - 1, torn \in BOOLEAN : Saves!Reaches(n, torn)
    <3>1. PICK n \in 0 .. loaded.chunks - 1, torn \in BOOLEAN :
            Saves!Write(saving[1].name, n, torn)
      BY <2>3 DEF Saves!Reaches
    <3>2. n \in 0 .. loaded.chunks /\ n < loaded.chunks
      BY <1>1
    <3> QED
      BY <1>1, <1>2, <2>1, <2>3, <3>1, <3>2, SaveEnds
  <2> QED
    BY <1>8, <2>2, <2>3 DEF Saves!Crash, Saves!None
<1>9. CASE Saves!Load
  <2>1. UNCHANGED <<files, second, tick, saving, kept, begun>> /\ saving = <<>>
    BY <1>9 DEF Saves!Load, Saves!None
  <2>2. loaded' \in [of : Games, chunks : 1 .. Chunks]
    <3> DEFINE name == Saves!LatestSavePath(files)
               file == files[name]
    <3>1. loaded' = IF Saves!Readable(file) THEN [of |-> file.of, chunks |-> file.chunks] ELSE loaded
      BY <1>9 DEF Saves!Load
    <3>2. name \in DOMAIN files /\ file \in [of : Games, chunks : 0 .. Chunks, torn : BOOLEAN, at : 1 .. tick]
      <4>1. DOMAIN files # {}
        BY <1>9 DEF Saves!Load, SavesInv, Saves!TypeOK
      <4> QED
        BY <4>1, LatestIsThere DEF SavesInv, Saves!TypeOK
    <3> HIDE DEF name, file
    <3>3. Saves!Readable(file) => file.of \in Games /\ file.chunks \in 1 .. Chunks
      BY <1>1, <3>2 DEF Saves!Readable
    <3> QED
      BY <1>1, <3>1, <3>3
  <2> QED
    BY <1>1, <2>1, <2>2, SavesRest
<1>10. CASE UNCHANGED saveVars
  BY <1>1, <1>10, SavesRest DEF saveVars
<1>11. CASE SaveStep
  BY <1>3, <1>4, <1>5, <1>6, <1>7, <1>8, <1>9, <1>11 DEF SaveStep, Saves!Next
<1> QED
  BY <1>10, <1>11 DEF Next, Vars, LobbyStep, ClientStep, DatabaseStep, LogStep, DiplomacyStep

LEMMA LastSaveIsThere == SavesInv => Saves!TypeOK /\ Saves!LastSaveSurvives
<1> SUFFICES ASSUME SavesInv, NEW k \in DOMAIN kept, kept[k].second \notin kept[k].since
             PROVE  \E n \in DOMAIN files :
                      ~files[n].torn
                      /\ [of |-> files[n].of, chunks |-> files[n].chunks] = Saves!Whole(kept[k].game)
  BY DEF SavesInv, Saves!LastSaveSurvives
<1>1. /\ kept[k].second \in DOMAIN files
      /\ files[kept[k].second].of = kept[k].game
      /\ files[kept[k].second].chunks = Chunks
      /\ ~files[kept[k].second].torn
  BY DEF SavesInv, KeptIsThere
<1> QED
  BY <1>1 DEF Saves!Whole

\* F9 reads the file that was written last: that of the completed save if none
\* was begun since, else what there is of the one begun last.
LEMMA LoadFindsIt ==
  ASSUME SavesInv, Saves!Load
  PROVE  /\ \A k \in DOMAIN kept : kept[k].since = {} => loaded' = Saves!Whole(kept[k].game)
         /\ loaded' # loaded =>
              \E n \in 1 .. begun[1].chunks :
                /\ loaded' = [of |-> begun[1].of, chunks |-> n]
                /\ Saves!CutOff => n < begun[1].chunks
<1> DEFINE name == Saves!LatestSavePath(files)
<1>1. DOMAIN files # {}
  BY DEF Saves!Load, SavesInv, Saves!TypeOK
<1>2. name \in DOMAIN files /\ \A m \in DOMAIN files : files[name].at >= files[m].at
  BY <1>1, LatestIsThere
<1>3. loaded' = IF Saves!Readable(files[name])
                THEN [of |-> files[name].of, chunks |-> files[name].chunks] ELSE loaded
  BY DEF Saves!Load
<1> HIDE DEF name
<1>4. /\ tick \in Nat /\ files[name].at \in 1 .. tick /\ files[name].chunks \in 0 .. Chunks
      /\ \A m \in DOMAIN files : files[m].at = files[name].at => m = name
  BY <1>2 DEF SavesInv, FilesDated, Saves!TypeOK
<1>5. files[name].at = tick
  <2>1. PICK m \in DOMAIN files : files[m].at = tick
    BY <1>1 DEF SavesInv, LatestIsBegun
  <2> QED
    BY <1>2, <1>4, <2>1
<1>6. ASSUME NEW k \in DOMAIN kept, kept[k].since = {}
      PROVE  loaded' = Saves!Whole(kept[k].game)
  <2>1. /\ kept[k].second \in DOMAIN files
        /\ files[kept[k].second].of = kept[k].game
        /\ files[kept[k].second].chunks = Chunks
        /\ ~files[kept[k].second].torn
        /\ files[kept[k].second].at = tick
    BY <1>6 DEF SavesInv, KeptIsThere
  <2>2. name = kept[k].second
    BY <1>4, <1>5, <2>1
  <2> QED
    BY <1>3, <2>1, <2>2, SavesConstants DEF Saves!Readable, Saves!Whole
<1>7. ASSUME loaded' # loaded
      PROVE  \E n \in 1 .. begun[1].chunks :
               /\ loaded' = [of |-> begun[1].of, chunks |-> n]
               /\ Saves!CutOff => n < begun[1].chunks
  <2>1. /\ begun # <<>> /\ files[name].of = begun[1].of /\ files[name].chunks <= begun[1].chunks
        /\ Saves!CutOff => files[name].chunks < begun[1].chunks
    BY <1>2, <1>5 DEF SavesInv, LatestIsBegun
  <2>2. begun[1].chunks \in 1 .. Chunks
    <3>1. begun \in Seq([of : Games, chunks : 1 .. Chunks]) /\ Len(begun) <= 1
      BY DEF SavesInv, Saves!TypeOK
    <3>2. begun[1] \in [of : Games, chunks : 1 .. Chunks]
      BY <2>1, <3>1, AtMostOne
    <3> QED
      BY <3>2
  <2>3. Saves!Readable(files[name])
    BY <1>3, <1>7
  <2>4. files[name].chunks \in 1 .. begun[1].chunks
    BY <1>4, <2>1, <2>2, <2>3, SavesConstants DEF Saves!Readable
  <2>5. loaded' = [of |-> begun[1].of, chunks |-> files[name].chunks]
    BY <1>3, <2>1, <2>3
  <2> QED
    BY <2>1, <2>4, <2>5
<1> QED
  BY <1>6, <1>7

\* The file of a completed save outlives the crashes and the full disks of later
\* saves until one of the same name begins.  F9 reads the save begun last: the
\* completed one if none was begun since, else at most a part of the one that
\* was cut off.
THEOREM SavesAlwaysKept == Spec => SavesAreKept
<1>1. Spec => []SavesInv
  BY SavesBegin, SavesKeep, PTL DEF Spec
<1>2. SavesInv /\ [Next]_Vars
        => [Saves!Load =>
              /\ \A k \in DOMAIN kept : kept[k].since = {} => loaded' = Saves!Whole(kept[k].game)
              /\ loaded' # loaded =>
                   \E n \in 1 .. begun[1].chunks :
                     /\ loaded' = [of |-> begun[1].of, chunks |-> n]
                     /\ Saves!CutOff => n < begun[1].chunks]_(Saves!vars)
  BY LoadFindsIt
<1>3. Spec => [](Saves!TypeOK /\ Saves!LastSaveSurvives)
  BY <1>1, LastSaveIsThere, PTL
<1>4. Spec => Saves!LoadGivesTheLastBegun
  BY <1>1, <1>2, PTL DEF Spec, Saves!LoadGivesTheLastBegun
<1> QED
  BY <1>3, <1>4, PTL DEF SavesAreKept, Saves!SavesAreKept

-----------------------------------------------------------------------------
(* The database. *)

Numbers == Database!Connections

Used == DOMAIN open \cup {c \in Numbers : closed[c] > 0}

\* Connections are numbered in the order in which they are made; each that is
\* open and not leaked has one object, and none of the others has any.
Ownership ==
  /\ db \in [Objects -> {0} \cup Numbers]
  /\ DOMAIN open \subseteq Numbers /\ closed \in [Numbers -> {0, 1}]
  /\ \E m \in 0 .. MaxConnections : Used = 1 .. m
  /\ \A c \in DOMAIN open : closed[c] = 0
  /\ leaked \subseteq DOMAIN open
  /\ \A c \in DOMAIN open \ leaked : \E o \in Objects : db[o] = c
  /\ \A o \in Objects : db[o] # 0 => db[o] \in DOMAIN open \ leaked
  /\ \A o, p \in Objects : db[o] = db[p] /\ db[o] # 0 => o = p

\* A row tells what is in its blob, and was written by now.
RowTrue(row, time) ==
  /\ row \in Database!Rows
  /\ row.turn = row.blob.turn /\ row.playerCount = Database!CountPlayers(row.blob)
  /\ row.updatedAt <= time

\* The games of a database are those that were saved last, and no game has a
\* later date than one that was saved after it.
InOrder(rows, saves) ==
  /\ DOMAIN saves = DOMAIN rows
  /\ \A i \in DOMAIN rows : saves[i].state = rows[i].blob /\ saves[i].place \in Nat \ {0}
  /\ \A i, j \in DOMAIN rows : saves[i].place = saves[j].place => i = j
  /\ \A i, j \in DOMAIN rows :
       saves[i].place < saves[j].place => rows[i].updatedAt >= rows[j].updatedAt

Kept(rows, saves, time) ==
  /\ DOMAIN rows \subseteq Ids
  /\ \A i \in DOMAIN rows : RowTrue(rows[i], time)
  /\ InOrder(rows, saves)

Stores ==
  /\ \A c \in DOMAIN open : open[c] \in {0, c}
  /\ DOMAIN table = {0} \cup {open[c] : c \in DOMAIN open \ leaked}
  /\ DOMAIN recent = DOMAIN table
  /\ now \in 0 .. LastSecond
  /\ \A d \in DOMAIN table : Kept(table[d], recent[d], now)

DatabaseInv == Ownership /\ Stores /\ Database!ListedRecentFirst

LEMMA DatabaseConstants ==
  /\ LastSecond \in Nat /\ MaxConnections \in Nat
  /\ \A s \in States : s.turn \in Nat /\ IsFiniteSet(s.units) /\ IsFiniteSet(s.cities)
BY PersistenceAssumption DEF Database!PersistenceAssumption, Database!IsFiniteSet, IsFiniteSet

\* The instance's copies of what library modules define.
LEMMA DatabaseCopies ==
  ASSUME NEW S
  PROVE  Database!Cardinality(S) = Cardinality(S)
BY DEF Database!Cardinality, Cardinality

LEMMA RestrictProperties ==
  ASSUME NEW f, NEW S
  PROVE  /\ DOMAIN Database!Restrict(f, S) = S
         /\ \A x \in S : Database!Restrict(f, S)[x] = f[x]
BY DEF Database!Restrict

LEMMA WithProperties ==
  ASSUME NEW f, NEW d, NEW e
  PROVE  /\ DOMAIN Database!With(f, d, e) = DOMAIN f \cup {d}
         /\ Database!With(f, d, e)[d] = e
         /\ \A x \in DOMAIN f : x # d => Database!With(f, d, e)[x] = f[x]
BY DEF Database!With

LEMMA RowIsTrue ==
  ASSUME NEW s \in States, now \in 0 .. LastSecond
  PROVE  RowTrue(Database!Row(s), now) /\ Database!Row(s).blob = s /\ Database!Row(s).updatedAt = now
<1> DEFINE row == Database!Row(s)
<1>1. s.turn \in Nat /\ IsFiniteSet(s.units) /\ IsFiniteSet(s.cities) /\ LastSecond \in Nat
  BY DatabaseConstants
<1>2. Database!CountPlayers(s) \in Nat
  <2>1. IsFiniteSet(s.units \cup s.cities)
    BY <1>1, FS_Union
  <2>2. Cardinality(s.units \cup s.cities) \in Nat
    BY <2>1, FS_CardinalityType
  <2> QED
    BY <2>2, DatabaseCopies DEF Database!CountPlayers
<1>3. row = [turn |-> s.turn, playerCount |-> Database!CountPlayers(s), createdAt |-> now,
             updatedAt |-> now, blob |-> s]
  BY DEF Database!Row
<1> HIDE DEF row
<1>4. row \in Database!Rows
  BY <1>1, <1>2, <1>3 DEF Database!Rows
<1>5. /\ row.turn = s.turn /\ row.playerCount = Database!CountPlayers(s) /\ row.blob = s
      /\ row.updatedAt = now /\ now <= now
  BY <1>3
<1>6. RowTrue(row, now)
  BY <1>4, <1>5 DEF RowTrue
<1> QED
  BY <1>5, <1>6 DEF row

\* The game that is saved comes first and has the latest date; the order of
\* the others stays.
LEMMA SavedInOrder ==
  ASSUME NEW rows, NEW saves, NEW id \in Ids, NEW s \in States,
         now \in 0 .. LastSecond, Kept(rows, saves, now)
  PROVE  Kept(Database!Stored(rows, id, s), Database!Renewed(saves, id, s), now)
<1> DEFINE R == Database!Stored(rows, id, s)
           S == Database!Renewed(saves, id, s)
           row == Database!Row(s)
           beyond(i) == id \in DOMAIN saves /\ saves[id].place < saves[i].place
<1>1. /\ RowTrue(row, now) /\ row.blob = s /\ row.updatedAt = now
  BY RowIsTrue
<1>2. /\ DOMAIN R = DOMAIN rows \cup {id} /\ R[id] = row
      /\ \A i \in DOMAIN rows : i # id => R[i] = rows[i]
  BY WithProperties DEF Database!Stored
<1>3. /\ DOMAIN S = DOMAIN saves \cup {id} /\ S[id].state = s /\ S[id].place = 1
      /\ \A i \in DOMAIN saves : i # id =>
           /\ S[i].state = saves[i].state
           /\ S[i].place = IF beyond(i) THEN saves[i].place ELSE saves[i].place + 1
  BY DEF Database!Renewed
<1> HIDE DEF R, S, row
<1>4. /\ DOMAIN rows \subseteq Ids /\ DOMAIN saves = DOMAIN rows
      /\ \A i \in DOMAIN rows :
           /\ RowTrue(rows[i], now) /\ saves[i].place \in Nat /\ saves[i].place >= 1
           /\ rows[i].updatedAt \in Nat /\ rows[i].updatedAt <= now
           /\ saves[i].state = rows[i].blob
      /\ \A i, j \in DOMAIN rows : saves[i].place = saves[j].place => i = j
      /\ \A i, j \in DOMAIN rows :
           saves[i].place < saves[j].place => rows[i].updatedAt >= rows[j].updatedAt
  BY DatabaseConstants DEF Kept, InOrder, RowTrue, Database!Rows
<1>5. \A i \in DOMAIN rows : i # id => S[i].place \in Nat /\ S[i].place > 1
  BY <1>3, <1>4
<1>6. ASSUME NEW i \in DOMAIN rows, NEW j \in DOMAIN rows, i # id, j # id, S[i].place <= S[j].place
      PROVE  saves[i].place <= saves[j].place
  <2>1. CASE beyond(i) /\ beyond(j)
    BY <1>3, <1>4, <1>6, <2>1
  <2>2. CASE ~beyond(i) /\ ~beyond(j)
    BY <1>3, <1>4, <1>6, <2>2
  <2>3. CASE ~beyond(i) /\ beyond(j)
    BY <1>3, <1>4, <1>6, <2>3
  <2>4. CASE beyond(i) /\ ~beyond(j)
    <3>1. /\ id \in DOMAIN rows /\ saves[id].place < saves[i].place
          /\ saves[j].place < saves[id].place
      BY <1>4, <1>6, <2>4
    <3>2. S[i].place = saves[i].place /\ S[j].place = saves[j].place + 1
      BY <1>3, <1>4, <1>6, <2>4
    <3> QED
      BY <1>4, <1>6, <3>1, <3>2
  <2> QED
    BY <2>1, <2>2, <2>3, <2>4
<1>7. ASSUME NEW i \in DOMAIN R
      PROVE  /\ RowTrue(R[i], now) /\ S[i].state = R[i].blob /\ S[i].place \in Nat \ {0}
             /\ R[i].updatedAt \in Nat /\ R[i].updatedAt <= now
  <2>1. CASE i = id
    BY <1>1, <1>2, <1>3, <2>1, DatabaseConstants
  <2>2. CASE i # id
    BY <1>2, <1>3, <1>4, <1>5, <2>2
  <2> QED
    BY <2>1, <2>2
<1>8. ASSUME NEW i \in DOMAIN R, NEW j \in DOMAIN R, S[i].place = S[j].place
      PROVE  i = j
  <2>1. CASE i = id \/ j = id
    BY <1>2, <1>3, <1>5, <1>8, <2>1
  <2>2. CASE i # id /\ j # id
    <3>1. i \in DOMAIN rows /\ j \in DOMAIN rows
      BY <1>2, <2>2
    <3>2. saves[i].place <= saves[j].place /\ saves[j].place <= saves[i].place
      BY <1>5, <1>6, <1>8, <2>2, <3>1
    <3> QED
      BY <1>4, <3>1, <3>2
  <2> QED
    BY <2>1, <2>2
<1>9. ASSUME NEW i \in DOMAIN R, NEW j \in DOMAIN R, S[i].place < S[j].place
      PROVE  R[i].updatedAt >= R[j].updatedAt
  <2>1. CASE i = id
    BY <1>1, <1>2, <1>7, <2>1
  <2>2. CASE j = id
    <3>1. S[i].place \in Nat /\ S[i].place >= 1 /\ S[j].place = 1
      BY <1>3, <1>7, <2>2
    <3> QED
      BY <1>9, <3>1
  <2>3. CASE i # id /\ j # id
    <3>1. i \in DOMAIN rows /\ j \in DOMAIN rows
      BY <1>2, <2>3
    <3>2. saves[i].place <= saves[j].place /\ i # j
      BY <1>5, <1>6, <1>9, <2>3, <3>1
    <3>3. saves[i].place < saves[j].place
      BY <1>4, <3>1, <3>2
    <3> QED
      BY <1>2, <1>4, <2>3, <3>1, <3>3
  <2> QED
    BY <2>1, <2>2, <2>3
<1>10. DOMAIN S = DOMAIN R /\ DOMAIN R \subseteq Ids
  BY <1>2, <1>3, <1>4
<1>11. InOrder(R, S)
  BY <1>7, <1>8, <1>9, <1>10 DEF InOrder
<1>12. Kept(R, S, now)
  BY <1>7, <1>10, <1>11 DEF Kept
<1> QED
  BY <1>12 DEF R, S

LEMMA DeletedInOrder ==
  ASSUME NEW rows, NEW saves, NEW id \in Ids, now \in 0 .. LastSecond, Kept(rows, saves, now)
  PROVE  Kept(Database!Restrict(rows, DOMAIN rows \ {id}), Database!Without(saves, id), now)
<1> DEFINE R == Database!Restrict(rows, DOMAIN rows \ {id})
           S == Database!Without(saves, id)
           beyond(i) == id \in DOMAIN saves /\ saves[id].place < saves[i].place
<1>1. DOMAIN R = DOMAIN rows \ {id} /\ \A i \in DOMAIN R : R[i] = rows[i]
  BY RestrictProperties
<1>2. /\ DOMAIN S = DOMAIN saves \ {id}
      /\ \A i \in DOMAIN S :
           /\ S[i].state = saves[i].state
           /\ S[i].place = IF beyond(i) THEN saves[i].place - 1 ELSE saves[i].place
  BY DEF Database!Without
<1> HIDE DEF R, S
<1>3. /\ DOMAIN rows \subseteq Ids /\ DOMAIN saves = DOMAIN rows
      /\ \A i \in DOMAIN rows :
           /\ RowTrue(rows[i], now) /\ saves[i].place \in Nat /\ saves[i].place >= 1
           /\ saves[i].state = rows[i].blob
      /\ \A i, j \in DOMAIN rows : saves[i].place = saves[j].place => i = j
      /\ \A i, j \in DOMAIN rows :
           saves[i].place < saves[j].place => rows[i].updatedAt >= rows[j].updatedAt
  BY DEF Kept, InOrder
<1>4. \A i \in DOMAIN S : i \in DOMAIN rows /\ i # id /\ S[i].place \in Nat /\ S[i].place >= 1
  BY <1>2, <1>3
<1>5. ASSUME NEW i \in DOMAIN S, NEW j \in DOMAIN S, S[i].place <= S[j].place
      PROVE  saves[i].place <= saves[j].place
  <2>1. i \in DOMAIN rows /\ j \in DOMAIN rows /\ j # id /\ i # id
    BY <1>4
  <2>2. CASE beyond(i) /\ ~beyond(j)
    <3>1. /\ id \in DOMAIN rows /\ saves[id].place < saves[i].place
          /\ saves[j].place < saves[id].place
      BY <1>3, <2>1, <2>2
    <3>2. S[i].place = saves[i].place - 1 /\ S[j].place = saves[j].place
      BY <1>2, <2>2
    <3> QED
      BY <1>3, <1>5, <2>1, <3>1, <3>2
  <2>3. CASE ~(beyond(i) /\ ~beyond(j))
    BY <1>2, <1>3, <1>5, <2>1, <2>3
  <2> QED
    BY <2>2, <2>3
<1>6. ASSUME NEW i \in DOMAIN S, NEW j \in DOMAIN S, S[i].place = S[j].place
      PROVE  i = j
  <2>1. saves[i].place <= saves[j].place /\ saves[j].place <= saves[i].place
    BY <1>4, <1>5, <1>6
  <2> QED
    BY <1>3, <1>4, <2>1
<1>7. ASSUME NEW i \in DOMAIN S, NEW j \in DOMAIN S, S[i].place < S[j].place
      PROVE  R[i].updatedAt >= R[j].updatedAt
  <2>1. saves[i].place <= saves[j].place /\ i # j
    BY <1>4, <1>5, <1>7
  <2>2. saves[i].place < saves[j].place
    BY <1>3, <1>4, <2>1
  <2> QED
    BY <1>1, <1>2, <1>3, <1>4, <2>2
<1>8. DOMAIN S = DOMAIN R /\ DOMAIN R \subseteq Ids
  BY <1>1, <1>2, <1>3
<1>9. \A i \in DOMAIN R : RowTrue(R[i], now) /\ S[i].state = R[i].blob /\ S[i].place \in Nat \ {0}
  BY <1>1, <1>2, <1>3, <1>4, <1>8
<1>10. InOrder(R, S)
  BY <1>6, <1>7, <1>8, <1>9 DEF InOrder
<1>11. Kept(R, S, now)
  BY <1>8, <1>9, <1>10 DEF Kept
<1> QED
  BY <1>11 DEF R, S

\* sqlite3_close: a database in memory goes with its connection.
LEMMA CloseKeepsStores ==
  ASSUME Ownership, Stores, NEW c \in DOMAIN open \ leaked, Database!Close(c),
         UNCHANGED <<now, leaked>>
  PROVE  Stores'
<1>1. /\ DOMAIN open' = DOMAIN open \ {c} /\ \A k \in DOMAIN open' : open'[k] = open[k]
      /\ DOMAIN table' = {0} \cup (DOMAIN table \ {c})
      /\ \A d \in DOMAIN table' : table'[d] = table[d]
      /\ DOMAIN recent' = {0} \cup (DOMAIN recent \ {c})
      /\ \A d \in DOMAIN recent' : recent'[d] = recent[d]
  BY RestrictProperties DEF Database!Close, Database!File
<1>2. DOMAIN open \subseteq 1 .. MaxConnections /\ MaxConnections \in Nat
  BY DatabaseConstants DEF Ownership, Numbers, Database!Connections
<1>3. \A k \in DOMAIN open : open[k] \in {0, k} /\ k # 0
  BY <1>2 DEF Stores
<1>4. DOMAIN table = {0} \cup {open[k] : k \in DOMAIN open \ leaked} /\ DOMAIN recent = DOMAIN table
  BY DEF Stores
<1>5. DOMAIN table' = {0} \cup {open'[k] : k \in DOMAIN open' \ leaked'}
  <2>1. ASSUME NEW d \in DOMAIN table, d # c, d # 0
        PROVE  \E k \in DOMAIN open' \ leaked' : open'[k] = d
    BY <1>1, <1>3, <1>4, <2>1
  <2>2. ASSUME NEW k \in DOMAIN open' \ leaked'
        PROVE  open'[k] \in {0} \cup (DOMAIN table \ {c})
    BY <1>1, <1>3, <1>4, <2>2
  <2> QED
    BY <1>1, <2>1, <2>2
<1>6. \A k \in DOMAIN open' : open'[k] \in {0, k}
  BY <1>1, <1>3
<1>7. DOMAIN recent' = DOMAIN table' /\ DOMAIN table' \subseteq DOMAIN table
  BY <1>1, <1>4
<1>8. \A d \in DOMAIN table' : Kept(table'[d], recent'[d], now')
  BY <1>1, <1>7 DEF Stores
<1> QED
  BY <1>5, <1>6, <1>7, <1>8 DEF Stores

\* A connection that is closed stays used, and has no object any more.
LEMMA CloseKeepsOwnership ==
  ASSUME Ownership, NEW c \in DOMAIN open \ leaked, Database!Close(c), UNCHANGED leaked,
         db' \in [Objects -> {0} \cup Numbers],
         \A o \in Objects : db'[o] # 0 => db'[o] # c,
         \A o \in Objects : db'[o] # 0 => \E p \in Objects : db[p] = db'[o],
         \A k \in DOMAIN open \ leaked : k # c => \E o \in Objects : db'[o] = k,
         \A o, p \in Objects : db'[o] = db'[p] /\ db'[o] # 0 => o = p
  PROVE  Ownership'
<1>1. /\ DOMAIN open' = DOMAIN open \ {c}
      /\ closed' = [k \in Numbers |-> closed[k] + IF k = c THEN 1 ELSE 0]
  BY RestrictProperties DEF Database!Close, Numbers
<1>2. c \in Numbers /\ closed[c] = 0 /\ closed \in [Numbers -> {0, 1}]
  BY DEF Ownership
<1>3. closed' \in [Numbers -> {0, 1}] /\ closed'[c] = 1 /\ \A k \in Numbers : k # c => closed'[k] = closed[k]
  BY <1>1, <1>2
<1>4. Used' = Used
  <2>1. \A k \in Numbers : closed'[k] > 0 <=> k = c \/ closed[k] > 0
    BY <1>2, <1>3
  <2> QED
    BY <1>1, <1>2, <2>1 DEF Used
<1>5. /\ \A k \in DOMAIN open' : closed'[k] = 0
      /\ \A k \in DOMAIN open' \ leaked' : \E o \in Objects : db'[o] = k
      /\ leaked' \subseteq DOMAIN open'
  BY <1>1, <1>3 DEF Ownership
<1>6. \A o \in Objects : db'[o] # 0 => db'[o] \in DOMAIN open' \ leaked'
  BY <1>1 DEF Ownership
<1> QED
  BY <1>1, <1>3, <1>4, <1>5, <1>6 DEF Ownership, Numbers, Database!Connections

LEMMA DatabaseBegins == Init => DatabaseInv
<1> SUFFICES ASSUME Init
             PROVE  DatabaseInv
  OBVIOUS
<1>1. /\ db = [o \in Objects |-> 0] /\ DOMAIN open = {} /\ closed = [c \in Numbers |-> 0]
      /\ DOMAIN table = {0} /\ DOMAIN recent = {0} /\ now = 0 /\ listed = <<>>
      /\ DOMAIN table[0] = {} /\ DOMAIN recent[0] = {} /\ leaked = {}
  BY DEF Init, Database!Init, Database!Empty, Database!File, Numbers
<1>2. Used = 1 .. 0 /\ 0 \in 0 .. MaxConnections
  BY <1>1, DatabaseConstants DEF Used
<1>3. Ownership
  BY <1>1, <1>2 DEF Ownership
<1>4. Kept(table[0], recent[0], 0) /\ 0 \in 0 .. LastSecond
  BY <1>1, DatabaseConstants DEF Kept, InOrder
<1>5. Stores
  BY <1>1, <1>4 DEF Stores
<1> QED
  BY <1>1, <1>3, <1>5 DEF DatabaseInv, Database!ListedRecentFirst

\* The number of a new connection is new.
LEMMA NextNumber ==
  ASSUME Ownership
  PROVE  /\ Database!NextConnection \notin Used
         /\ Database!NextConnection \in Nat \ {0}
         /\ Used \cup {Database!NextConnection} = 1 .. Database!NextConnection
<1>1. PICK m \in 0 .. MaxConnections : Used = 1 .. m
  BY DEF Ownership
<1>2. m \in Int /\ 1 \in Int /\ m \in Nat
  BY <1>1, DatabaseConstants
<1>3. Cardinality(1 .. m) = m
  <2>1. Cardinality(1 .. m) = IF 1 > m THEN 0 ELSE m - 1 + 1
    BY <1>2, FS_Interval
  <2> QED
    BY <1>2, <2>1
<1>4. Database!NextConnection = m + 1
  BY <1>1, <1>3, DatabaseCopies DEF Database!NextConnection, Used, Numbers
<1> QED
  BY <1>1, <1>2, <1>4

LEMMA ConstructKeeps == DatabaseInv /\ Database!Construct => DatabaseInv'
<1> SUFFICES ASSUME DatabaseInv, Database!Construct
             PROVE  DatabaseInv'
  OBVIOUS
<1> DEFINE c == Database!NextConnection
<1>1. PICK o \in Objects, where \in {0, c} :
        /\ db[o] = 0 /\ c <= MaxConnections
        /\ db' = [db EXCEPT ![o] = c]
        /\ open' = Database!With(open, c, where)
        /\ table' = Database!Created(table, where)
        /\ recent' = Database!Created(recent, where)
        /\ UNCHANGED <<now, listed, closed, leaked>>
  BY DEF Database!Construct, Database!File
<1>2. Ownership /\ Stores
  BY DEF DatabaseInv
<1>3. /\ c \notin Used /\ c \in Nat \ {0} /\ Used \cup {c} = 1 .. c
  BY <1>2, NextNumber
<1> HIDE DEF c
<1>4. /\ DOMAIN open' = DOMAIN open \cup {c} /\ open'[c] = where
      /\ \A k \in DOMAIN open : k # c => open'[k] = open[k]
  BY <1>1 DEF Database!With
<1>5. c \in Numbers /\ c \notin DOMAIN open /\ closed[c] = 0 /\ c # 0
  BY <1>1, <1>2, <1>3, DatabaseConstants DEF Numbers, Database!Connections, Used, Ownership
<1>6. Ownership'
  <2>1. Used' = 1 .. c /\ c \in 0 .. MaxConnections
    <3>1. Used' = Used \cup {c}
      BY <1>1, <1>4 DEF Used, Numbers, Database!Connections
    <3> QED
      BY <1>1, <1>3, <3>1, DatabaseConstants
  <2>2. /\ db' \in [Objects -> {0} \cup Numbers] /\ db'[o] = c
        /\ \A p \in Objects : p # o => db'[p] = db[p]
    BY <1>1, <1>2, <1>5 DEF Ownership
  <2>3. DOMAIN open' \subseteq Numbers /\ \A k \in DOMAIN open' : closed'[k] = 0
    BY <1>1, <1>2, <1>4, <1>5 DEF Ownership
  <2>4. \A k \in DOMAIN open' \ leaked' : \E p \in Objects : db'[p] = k
    <3>1. \A k \in DOMAIN open \ leaked : k # 0 /\ \E p \in Objects : db[p] = k
      BY <1>2 DEF Ownership, Numbers, Database!Connections
    <3>2. \A k \in DOMAIN open \ leaked : \E p \in Objects : p # o /\ db'[p] = k
      BY <1>1, <2>2, <3>1
    <3> QED
      BY <1>1, <1>4, <2>2, <3>2
  <2>5. /\ \A p \in Objects : db'[p] # 0 => db'[p] \in DOMAIN open' \ leaked'
        /\ leaked' \subseteq DOMAIN open'
    BY <1>1, <1>2, <1>4, <1>5, <2>2 DEF Ownership
  <2>6. \A p, q \in Objects : db'[p] = db'[q] /\ db'[p] # 0 => p = q
    BY <1>2, <1>5, <2>2 DEF Ownership
  <2>7. closed' \in [Numbers -> {0, 1}] /\ Numbers' = Numbers
    BY <1>1, <1>2 DEF Ownership, Numbers, Database!Connections
  <2> QED
    BY <2>1, <2>2, <2>3, <2>4, <2>5, <2>6, <2>7 DEF Ownership
<1>7. Stores'
  <2>1. /\ DOMAIN table' = DOMAIN table \cup {where} /\ DOMAIN recent' = DOMAIN recent \cup {where}
        /\ \A d \in DOMAIN table : table'[d] = table[d]
        /\ \A d \in DOMAIN recent : recent'[d] = recent[d]
        /\ where \notin DOMAIN table => table'[where] = Database!Empty
        /\ where \notin DOMAIN recent => recent'[where] = Database!Empty
    <3>1. ASSUME NEW f, NEW g, g = Database!Created(f, where)
          PROVE  /\ DOMAIN g = DOMAIN f \cup {where}
                 /\ \A d \in DOMAIN f : g[d] = f[d]
                 /\ where \notin DOMAIN f => g[where] = Database!Empty
      <4>1. CASE where \in DOMAIN f
        BY <3>1, <4>1 DEF Database!Created
      <4>2. CASE where \notin DOMAIN f
        <5>1. g = Database!With(f, where, Database!Empty)
          BY <3>1, <4>2 DEF Database!Created
        <5> QED
          BY <4>2, <5>1 DEF Database!With
      <4> QED
        BY <4>1, <4>2
    <3> QED
      BY <1>1, <3>1
  <2>2. DOMAIN table' = {0} \cup {open'[k] : k \in DOMAIN open' \ leaked'}
    BY <1>1, <1>2, <1>4, <1>5, <2>1 DEF Stores, Ownership
  <2>3. DOMAIN recent' = DOMAIN table' /\ DOMAIN recent = DOMAIN table
    BY <1>2, <2>1 DEF Stores
  <2>4. \A k \in DOMAIN open' : open'[k] \in {0, k}
    BY <1>1, <1>2, <1>4, <1>5 DEF Stores
  <2>5. Kept(Database!Empty, Database!Empty, now)
    BY DEF Kept, InOrder, Database!Empty
  <2>6. ASSUME NEW d \in DOMAIN table'
        PROVE  Kept(table'[d], recent'[d], now')
    <3>1. CASE d \in DOMAIN table
      BY <1>1, <1>2, <2>1, <2>3, <3>1 DEF Stores
    <3>2. CASE d \notin DOMAIN table
      <4>1. d = where /\ table'[d] = Database!Empty /\ recent'[d] = Database!Empty /\ now' = now
        BY <1>1, <2>1, <2>3, <3>2
      <4> QED
        BY <2>5, <4>1
    <3> QED
      BY <3>1, <3>2
  <2>7. now' \in 0 .. LastSecond
    BY <1>1, <1>2 DEF Stores
  <2> QED
    BY <2>2, <2>3, <2>4, <2>6, <2>7 DEF Stores
<1>8. Database!ListedRecentFirst'
  BY <1>1 DEF DatabaseInv, Database!ListedRecentFirst
<1> QED
  BY <1>6, <1>7, <1>8 DEF DatabaseInv

\* A constructor that throws uses up a number, and the connection is closed at
\* once or leaked; no database changes.
LEMMA ConstructThrows ==
  DatabaseInv /\ (Database!OpenFails \/ Database!CreateSchemaFails) => DatabaseInv'
<1> SUFFICES ASSUME DatabaseInv, Database!OpenFails \/ Database!CreateSchemaFails
             PROVE  DatabaseInv'
  OBVIOUS
<1> DEFINE c == Database!NextConnection
<1>1. Ownership /\ Stores /\ c <= MaxConnections /\ UNCHANGED <<db, table, now, listed, recent>>
  BY DEF DatabaseInv, Database!OpenFails, Database!CreateSchemaFails
<1>2. /\ c \notin Used /\ c \in Nat \ {0} /\ Used \cup {c} = 1 .. c
  BY <1>1, NextNumber
<1> HIDE DEF c
<1>3. /\ c \in Numbers /\ c \notin DOMAIN open /\ closed[c] = 0 /\ c # 0 /\ c \in 0 .. MaxConnections
      /\ closed \in [Numbers -> {0, 1}] /\ Numbers' = Numbers
  BY <1>1, <1>2, DatabaseConstants DEF Numbers, Database!Connections, Used, Ownership
<1>4. CASE Database!OpenFails
  <2>1. closed' = [closed EXCEPT ![c] = 1] /\ UNCHANGED <<open, leaked>>
    BY <1>4 DEF Database!OpenFails, c
  <2>2. /\ closed' \in [Numbers -> {0, 1}] /\ closed'[c] = 1
        /\ \A k \in Numbers : k # c => closed'[k] = closed[k]
    BY <1>3, <2>1
  <2>3. Used' = 1 .. c
    <3>1. \A k \in Numbers : closed'[k] > 0 <=> k = c \/ closed[k] > 0
      BY <2>2
    <3>2. Used' = Used \cup {c}
      BY <1>3, <2>1, <3>1 DEF Used
    <3> QED
      BY <1>2, <3>2
  <2>4. Ownership'
    BY <1>1, <1>3, <2>1, <2>2, <2>3 DEF Ownership
  <2> QED
    BY <1>1, <2>1, <2>4 DEF DatabaseInv, Stores, Database!ListedRecentFirst
<1>5. CASE Database!CreateSchemaFails
  <2>1. PICK where \in {0, c} : open' = Database!With(open, c, where)
    BY <1>5 DEF Database!CreateSchemaFails, Database!File, c
  <2>2. leaked' = leaked \cup {c} /\ closed' = closed
    BY <1>5 DEF Database!CreateSchemaFails, c
  <2>3. /\ DOMAIN open' = DOMAIN open \cup {c} /\ open'[c] = where
        /\ \A k \in DOMAIN open : k # c => open'[k] = open[k]
    BY <2>1 DEF Database!With
  <2>4. Used' = 1 .. c
    <3>1. Used' = Used \cup {c}
      BY <1>3, <2>2, <2>3 DEF Used
    <3> QED
      BY <1>2, <3>1
  <2>5. leaked \subseteq DOMAIN open /\ DOMAIN open' \ leaked' = DOMAIN open \ leaked
    BY <1>1, <1>3, <2>2, <2>3 DEF Ownership
  <2>6. Ownership'
    BY <1>1, <1>3, <2>2, <2>3, <2>4, <2>5 DEF Ownership
  <2>7. Stores'
    <3>1. \A k \in DOMAIN open \ leaked : open'[k] = open[k]
      BY <1>3, <2>3
    <3>2. DOMAIN table' = {0} \cup {open'[k] : k \in DOMAIN open' \ leaked'}
      BY <1>1, <2>5, <3>1 DEF Stores
    <3>3. \A k \in DOMAIN open' : open'[k] \in {0, k}
      BY <1>1, <2>1, <2>3 DEF Stores
    <3> QED
      BY <1>1, <3>2, <3>3 DEF Stores
  <2> QED
    BY <1>1, <2>6, <2>7 DEF DatabaseInv, Database!ListedRecentFirst
<1> QED
  BY <1>4, <1>5

LEMMA DestroyKeeps == DatabaseInv /\ Database!Destroy => DatabaseInv'
<1> SUFFICES ASSUME DatabaseInv, NEW o \in Objects, db[o] # 0, Database!Close(db[o]),
                    db' = [db EXCEPT ![o] = 0], UNCHANGED <<now, listed, leaked>>
             PROVE  DatabaseInv'
  BY DEF Database!Destroy
<1>1. Ownership /\ Stores /\ Database!ListedRecentFirst
  BY DEF DatabaseInv
<1>2. db[o] \in DOMAIN open \ leaked
  BY <1>1 DEF Ownership
<1>3. Stores'
  BY <1>1, <1>2, CloseKeepsStores
<1>4. /\ db' \in [Objects -> {0} \cup Numbers] /\ db'[o] = 0
      /\ \A p \in Objects : p # o => db'[p] = db[p]
  BY <1>1 DEF Ownership
<1>5. /\ \A p \in Objects : db'[p] # 0 => db'[p] # db[o]
      /\ \A p \in Objects : db'[p] # 0 => \E q \in Objects : db[q] = db'[p]
      /\ \A k \in DOMAIN open \ leaked : k # db[o] => \E p \in Objects : db'[p] = k
      /\ \A p, q \in Objects : db'[p] = db'[q] /\ db'[p] # 0 => p = q
  BY <1>1, <1>4 DEF Ownership
<1>6. Ownership'
  BY <1>1, <1>2, <1>4, <1>5, CloseKeepsOwnership
<1>7. Database!ListedRecentFirst'
  BY <1>1 DEF Database!ListedRecentFirst
<1> QED
  BY <1>3, <1>6, <1>7 DEF DatabaseInv

\* A connection that is moved has the object it is moved to, and no other.
LEMMA MoveKeeps == DatabaseInv /\ Database!MoveTo => DatabaseInv'
<1> SUFFICES ASSUME DatabaseInv, NEW o \in Objects, NEW from \in Objects, o # from,
                    db' = Database!Moved(o, from), UNCHANGED <<now, listed, leaked>>,
                    IF db[o] = 0 THEN UNCHANGED <<open, table, recent, closed>>
                    ELSE Database!Close(db[o])
             PROVE  DatabaseInv'
  BY DEF Database!MoveTo
<1>1. Ownership /\ Stores /\ Database!ListedRecentFirst
  BY DEF DatabaseInv
<1>2. /\ db' \in [Objects -> {0} \cup Numbers] /\ db'[o] = db[from] /\ db'[from] = 0
      /\ \A p \in Objects : p \notin {o, from} => db'[p] = db[p]
  BY <1>1 DEF Ownership, Database!Moved
<1>3. /\ \A p \in Objects : db'[p] # 0 => \E q \in Objects : db[q] = db'[p]
      /\ \A k \in DOMAIN open \ leaked : k # db[o] => \E p \in Objects : db'[p] = k
      /\ \A p, q \in Objects : db'[p] = db'[q] /\ db'[p] # 0 => p = q
  <2>1. \A k \in DOMAIN open \ leaked : k # 0 /\ \E p \in Objects : db[p] = k
    BY <1>1 DEF Ownership, Numbers, Database!Connections
  <2>2. \A p, q \in Objects : db[p] = db[q] /\ db[p] # 0 => p = q
    BY <1>1 DEF Ownership
  <2>3. \A p \in Objects : db'[p] # 0 => \E q \in Objects : db[q] = db'[p]
    BY <1>2
  <2>4. \A k \in DOMAIN open \ leaked : k # db[o] => \E p \in Objects : db'[p] = k
    BY <1>2, <2>1
  <2>5. \A p, q \in Objects : db'[p] = db'[q] /\ db'[p] # 0 => p = q
    BY <1>2, <2>2
  <2> QED
    BY <2>3, <2>4, <2>5
<1>4. CASE db[o] = 0
  <2>1. UNCHANGED <<open, table, recent, closed>>
    BY <1>4
  <2>2. Stores'
    BY <1>1, <2>1 DEF Stores
  <2>3. Used' = Used /\ Numbers' = Numbers
    BY <2>1 DEF Used, Numbers, Database!Connections
  <2>4. \A c \in DOMAIN open : c # 0
    BY <1>1 DEF Ownership, Numbers, Database!Connections
  <2>5. \A p \in Objects : db'[p] # 0 => db'[p] \in DOMAIN open \ leaked
    BY <1>1, <1>3 DEF Ownership
  <2>6. \A c \in DOMAIN open \ leaked : \E p \in Objects : db'[p] = c
    BY <1>3, <1>4, <2>4
  <2>7. Ownership'
    BY <1>1, <1>2, <1>3, <2>1, <2>3, <2>5, <2>6 DEF Ownership
  <2> QED
    BY <1>1, <2>2, <2>7 DEF DatabaseInv, Database!ListedRecentFirst
<1>5. CASE db[o] # 0
  <2>1. Database!Close(db[o]) /\ db[o] \in DOMAIN open \ leaked
    BY <1>1, <1>5 DEF Ownership
  <2>2. Stores'
    BY <1>1, <2>1, CloseKeepsStores
  <2>3. \A p \in Objects : db'[p] # 0 => db'[p] # db[o]
    BY <1>1, <1>2, <1>5 DEF Ownership
  <2>4. Ownership'
    BY <1>1, <1>2, <1>3, <2>1, <2>3, CloseKeepsOwnership
  <2> QED
    BY <1>1, <2>2, <2>4 DEF DatabaseInv, Database!ListedRecentFirst
<1> QED
  BY <1>4, <1>5

\* An object that is open finds its database.
LEMMA WhereIsThere ==
  ASSUME DatabaseInv, NEW o \in Objects, db[o] # 0
  PROVE  Database!Where(o) \in DOMAIN table /\ Database!Where(o) \in DOMAIN recent
BY DEF DatabaseInv, Ownership, Stores, Database!Where

\* SaveGame and DeleteGame change the table of one database.
LEMMA TableKeeps ==
  ASSUME DatabaseInv, NEW d \in DOMAIN table, NEW rows, NEW saves, Kept(rows, saves, now),
         table' = [table EXCEPT ![d] = rows], recent' = [recent EXCEPT ![d] = saves],
         UNCHANGED <<db, open, now, listed, closed, leaked>>
  PROVE  DatabaseInv'
<1>1. Ownership /\ Stores /\ Database!ListedRecentFirst
  BY DEF DatabaseInv
<1>2. Ownership'
  <2>1. Used' = Used /\ Numbers' = Numbers
    BY DEF Used, Numbers, Database!Connections
  <2> QED
    BY <1>1, <2>1 DEF Ownership
<1>3. /\ DOMAIN table' = DOMAIN table /\ DOMAIN recent' = DOMAIN recent /\ DOMAIN recent = DOMAIN table
      /\ table'[d] = rows /\ recent'[d] = saves
      /\ \A k \in DOMAIN table : k # d => table'[k] = table[k] /\ recent'[k] = recent[k]
  BY <1>1 DEF Stores
<1>4. \A k \in DOMAIN table' : Kept(table'[k], recent'[k], now')
  BY <1>1, <1>3 DEF Stores
<1>5. Stores'
  BY <1>1, <1>3, <1>4 DEF Stores
<1> QED
  BY <1>1, <1>2, <1>5 DEF DatabaseInv, Database!ListedRecentFirst

\* The list follows the dates, and so the order in which games were saved.
LEMMA ListKeeps == DatabaseInv /\ Database!ListGames => DatabaseInv'
<1> SUFFICES ASSUME DatabaseInv, Database!ListGames
             PROVE  DatabaseInv'
  OBVIOUS
<1>1. PICK o \in Objects :
        /\ db[o] # 0
        /\ \E ids \in Database!Listings(table[Database!Where(o)]) :
             listed' = [k \in DOMAIN ids |->
                          [place |-> recent[Database!Where(o)][ids[k]].place,
                           at |-> table[Database!Where(o)][ids[k]].updatedAt]]
        /\ UNCHANGED <<db, open, table, now, recent, closed, leaked>>
  BY DEF Database!ListGames
<1> DEFINE rows == table[Database!Where(o)]
           saves == recent[Database!Where(o)]
           N == Database!Cardinality(DOMAIN rows)
<1>2. PICK ids \in Database!Listings(rows) :
        listed' = [k \in DOMAIN ids |-> [place |-> saves[ids[k]].place, at |-> rows[ids[k]].updatedAt]]
  BY <1>1
<1>3. Kept(rows, saves, now)
  BY <1>1, WhereIsThere DEF DatabaseInv, Stores
<1>4. /\ ids \in [1 .. N -> DOMAIN rows]
      /\ \A k, l \in DOMAIN ids : k < l => rows[ids[k]].updatedAt >= rows[ids[l]].updatedAt
  BY <1>2 DEF Database!Listings
<1> HIDE DEF rows, saves, N
<1>5. DOMAIN ids = 1 .. N /\ \A k \in DOMAIN ids : ids[k] \in DOMAIN rows
  BY <1>4
<1>6. /\ DOMAIN listed' = DOMAIN ids
      /\ \A k \in DOMAIN ids :
           listed'[k].place = saves[ids[k]].place /\ listed'[k].at = rows[ids[k]].updatedAt
  BY <1>2
<1>7. ASSUME NEW k \in DOMAIN ids, NEW l \in DOMAIN ids, k < l
      PROVE  listed'[k].place < listed'[l].place \/ listed'[k].at = listed'[l].at
  <2> DEFINE i == ids[k]
             j == ids[l]
  <2>1. i \in DOMAIN rows /\ j \in DOMAIN rows /\ rows[i].updatedAt >= rows[j].updatedAt
    BY <1>4, <1>5, <1>7
  <2>2. /\ rows[i].updatedAt \in Nat /\ rows[j].updatedAt \in Nat
        /\ saves[i].place \in Nat /\ saves[j].place \in Nat
        /\ saves[j].place < saves[i].place => rows[j].updatedAt >= rows[i].updatedAt
        /\ saves[i].place = saves[j].place => i = j
    BY <1>3, <2>1, DatabaseConstants DEF Kept, InOrder, RowTrue, Database!Rows
  <2>3. saves[i].place < saves[j].place \/ rows[i].updatedAt = rows[j].updatedAt
    BY <2>1, <2>2
  <2> QED
    BY <1>6, <1>7, <2>3
<1>8. Database!ListedRecentFirst'
  BY <1>6, <1>7 DEF Database!ListedRecentFirst
<1>9. Ownership' /\ Stores'
  <2>1. Used' = Used /\ Numbers' = Numbers
    BY <1>1 DEF Used, Numbers, Database!Connections
  <2> QED
    BY <1>1, <2>1 DEF DatabaseInv, Ownership, Stores
<1> QED
  BY <1>8, <1>9 DEF DatabaseInv

\* Of the databases the file stays, and no connection is used again.
LEMMA CrashKeeps == DatabaseInv /\ Database!Crash => DatabaseInv'
<1> SUFFICES ASSUME DatabaseInv, Database!Crash
             PROVE  DatabaseInv'
  OBVIOUS
<1>1. Ownership /\ Stores
  BY DEF DatabaseInv
<1>2. /\ db' = [o \in Objects |-> 0] /\ DOMAIN open' = {}
      /\ DOMAIN table' = {0} /\ table'[0] = table[0]
      /\ DOMAIN recent' = {0} /\ recent'[0] = recent[0]
      /\ closed' = [c \in Numbers |-> IF c \in DOMAIN open THEN 1 ELSE closed[c]]
      /\ listed' = <<>> /\ now' = now /\ leaked' = {}
  BY RestrictProperties DEF Database!Crash, Database!Empty, Database!File, Numbers
<1>3. Used' = Used
  <2>1. DOMAIN open \subseteq Numbers /\ Numbers' = Numbers
    BY <1>1 DEF Ownership, Numbers, Database!Connections
  <2>2. \A c \in Numbers : closed'[c] > 0 <=> c \in DOMAIN open \/ closed[c] > 0
    BY <1>2
  <2> QED
    BY <1>2, <2>1, <2>2 DEF Used
<1>4. Ownership'
  <2>1. closed' \in [Numbers -> {0, 1}] /\ Numbers' = Numbers
    BY <1>1, <1>2 DEF Ownership, Numbers, Database!Connections
  <2> QED
    BY <1>1, <1>2, <1>3, <2>1 DEF Ownership
<1>5. Stores'
  <2>1. Kept(table[0], recent[0], now) /\ now \in 0 .. LastSecond
    BY <1>1 DEF Stores
  <2> QED
    BY <1>2, <2>1 DEF Stores
<1>6. Database!ListedRecentFirst'
  BY <1>2 DEF Database!ListedRecentFirst
<1> QED
  BY <1>4, <1>5, <1>6 DEF DatabaseInv

LEMMA TickKeeps == DatabaseInv /\ Database!Tick => DatabaseInv'
<1> SUFFICES ASSUME DatabaseInv, Database!Tick
             PROVE  DatabaseInv'
  OBVIOUS
<1>1. /\ now < LastSecond /\ now' = now + 1 /\ UNCHANGED <<db, open, table, listed, recent, closed, leaked>>
      /\ now \in 0 .. LastSecond /\ LastSecond \in Nat
  BY DatabaseConstants DEF Database!Tick, DatabaseInv, Stores
<1>2. Ownership'
  <2>1. Used' = Used /\ Numbers' = Numbers
    BY <1>1 DEF Used, Numbers, Database!Connections
  <2> QED
    BY <1>1, <2>1 DEF DatabaseInv, Ownership
<1>3. ASSUME NEW rows, NEW saves, Kept(rows, saves, now)
      PROVE  Kept(rows, saves, now')
  <2>1. \A i \in DOMAIN rows : rows[i].updatedAt \in Nat /\ rows[i].updatedAt <= now'
    BY <1>1, <1>3 DEF Kept, RowTrue, Database!Rows
  <2> QED
    BY <1>3, <2>1 DEF Kept, RowTrue
<1>4. Stores'
  <2>1. now' \in 0 .. LastSecond
    BY <1>1
  <2> QED
    BY <1>1, <1>3, <2>1 DEF DatabaseInv, Stores
<1> QED
  BY <1>1, <1>2, <1>4 DEF DatabaseInv, Database!ListedRecentFirst

LEMMA DatabaseKeeps == DatabaseInv /\ [Next]_Vars => DatabaseInv'
<1> SUFFICES ASSUME DatabaseInv, [Next]_Vars
             PROVE  DatabaseInv'
  OBVIOUS
<1>1. now \in 0 .. LastSecond /\ \A d \in DOMAIN table : Kept(table[d], recent[d], now)
  BY DEF DatabaseInv, Stores
<1>2. CASE Database!SaveGame
  <2>1. PICK o \in Objects, id \in Ids, s \in States :
          LET d == Database!Where(o)
          IN  /\ db[o] # 0
              /\ table' = [table EXCEPT ![d] = Database!Stored(table[d], id, s)]
              /\ recent' = [recent EXCEPT ![d] = Database!Renewed(recent[d], id, s)]
              /\ UNCHANGED <<db, open, now, listed, closed, leaked>>
    BY <1>2 DEF Database!SaveGame
  <2> DEFINE d == Database!Where(o)
  <2>2. d \in DOMAIN table
    BY <2>1, WhereIsThere
  <2> HIDE DEF d
  <2>3. Kept(Database!Stored(table[d], id, s), Database!Renewed(recent[d], id, s), now)
    BY <1>1, <2>2, SavedInOrder
  <2>4. /\ table' = [table EXCEPT ![d] = Database!Stored(table[d], id, s)]
        /\ recent' = [recent EXCEPT ![d] = Database!Renewed(recent[d], id, s)]
        /\ UNCHANGED <<db, open, now, listed, closed, leaked>>
    BY <2>1 DEF d
  <2> QED
    BY <2>2, <2>3, <2>4, TableKeeps
<1>3. CASE Database!DeleteGame
  <2>1. PICK o \in Objects, id \in Ids :
          LET d == Database!Where(o)
          IN  /\ db[o] # 0
              /\ table' = [table EXCEPT ![d] =
                             Database!Restrict(table[d], DOMAIN table[d] \ {id})]
              /\ recent' = [recent EXCEPT ![d] = Database!Without(recent[d], id)]
              /\ UNCHANGED <<db, open, now, listed, closed, leaked>>
    BY <1>3 DEF Database!DeleteGame
  <2> DEFINE d == Database!Where(o)
  <2>2. d \in DOMAIN table
    BY <2>1, WhereIsThere
  <2> HIDE DEF d
  <2>3. Kept(Database!Restrict(table[d], DOMAIN table[d] \ {id}), Database!Without(recent[d], id), now)
    BY <1>1, <2>2, DeletedInOrder
  <2>4. /\ table' = [table EXCEPT ![d] = Database!Restrict(table[d], DOMAIN table[d] \ {id})]
        /\ recent' = [recent EXCEPT ![d] = Database!Without(recent[d], id)]
        /\ UNCHANGED <<db, open, now, listed, closed, leaked>>
    BY <2>1 DEF d
  <2> QED
    BY <2>2, <2>3, <2>4, TableKeeps
<1>4. CASE UNCHANGED databaseVars
  <2>1. UNCHANGED <<db, open, table, now, listed, recent, closed, leaked>>
    BY <1>4 DEF databaseVars
  <2>2. Used' = Used /\ Numbers' = Numbers
    BY <2>1 DEF Used, Numbers, Database!Connections
  <2> QED
    BY <2>1, <2>2 DEF DatabaseInv, Ownership, Stores, Database!ListedRecentFirst
<1>5. CASE DatabaseStep
  BY <1>2, <1>3, <1>5, ConstructKeeps, ConstructThrows, DestroyKeeps, MoveKeeps, ListKeeps, CrashKeeps, TickKeeps
  DEF DatabaseStep, Database!Next
<1> QED
  BY <1>4, <1>5 DEF Next, Vars, LobbyStep, ClientStep, SaveStep, LogStep, DiplomacyStep

\* The conjuncts of DatabaseIsSound, from the invariant.
LEMMA OwnersCounted == DatabaseInv => Database!ConnectionsAreOwned
<1> SUFFICES ASSUME DatabaseInv
             PROVE  Database!ConnectionsAreOwned
  OBVIOUS
<1>1. Ownership
  BY DEF DatabaseInv
<1>2. ASSUME NEW c \in leaked
      PROVE  Database!Cardinality({o \in Objects : db[o] = c}) = 0
  <2>1. c # 0 /\ \A o \in Objects : db[o] # c
    BY <1>1, <1>2 DEF Ownership, Numbers, Database!Connections
  <2>2. {o \in Objects : db[o] = c} = {}
    BY <2>1
  <2> QED
    BY <2>2, FS_EmptySet, DatabaseCopies
<1>3. ASSUME NEW c \in DOMAIN open \ leaked
      PROVE  Database!Cardinality({o \in Objects : db[o] = c}) = 1
  <2>1. PICK o \in Objects : db[o] = c
    BY <1>1, <1>3 DEF Ownership
  <2>2. c # 0 /\ \A p \in Objects : db[p] = c => p = o
    BY <1>1, <1>3, <2>1 DEF Ownership, Numbers, Database!Connections
  <2>3. {p \in Objects : db[p] = c} = {o}
    BY <2>1, <2>2
  <2> QED
    BY <2>3, FS_Singleton, DatabaseCopies
<1>4. leaked \subseteq DOMAIN open /\ \A o \in Objects : db[o] # 0 => db[o] \in DOMAIN open
  BY <1>1 DEF Ownership
<1>5. \A c \in Numbers : closed[c] <= 1
  BY <1>1 DEF Ownership
<1> QED
  BY <1>2, <1>3, <1>4, <1>5 DEF Database!ConnectionsAreOwned, Numbers

\* loadGame gives the blob of a row that the listing tells truly, and the
\* state that was saved last under the id.
LEMMA LoadTells ==
  ASSUME DatabaseInv, NEW o \in Objects, NEW i
  PROVE  /\ db[o] # 0 =>
              Database!Range(Database!LoadGame(o, i)) =
                {recent[Database!Where(o)][k].state : k \in DOMAIN recent[Database!Where(o)] \cap {i}}
         /\ \A s \in Database!Range(Database!LoadGame(o, i)) :
              LET row == table[Database!Where(o)][i]
              IN  RowTrue(row, now) /\ s = row.blob
<1> DEFINE rows == table[Database!Where(o)]
           saves == recent[Database!Where(o)]
           given == Database!LoadGame(o, i)
<1>1. Database!Range(<<>>) = {}
  BY DEF Database!Range
<1>2. ASSUME NEW e
      PROVE  Database!Range(<<e>>) = {e}
  BY DEF Database!Range
<1>3. given = IF db[o] = 0 \/ i \notin DOMAIN rows THEN <<>> ELSE <<rows[i].blob>>
  BY DEF Database!LoadGame
<1>4. ASSUME db[o] # 0
      PROVE  Kept(rows, saves, now)
  BY <1>4, WhereIsThere DEF DatabaseInv, Stores
<1> HIDE DEF rows, saves, given
<1>5. CASE db[o] = 0
  <2>1. Database!Range(given) = {}
    BY <1>1, <1>3, <1>5
  <2> QED
    BY <1>5, <2>1 DEF given
<1>6. CASE db[o] # 0 /\ i \notin DOMAIN rows
  <2>1. Database!Range(given) = {}
    BY <1>1, <1>3, <1>6
  <2>2. DOMAIN saves \cap {i} = {}
    BY <1>4, <1>6 DEF Kept, InOrder
  <2>3. {saves[k].state : k \in DOMAIN saves \cap {i}} = {}
    BY <2>2
  <2> QED
    BY <2>1, <2>3 DEF given, saves
<1>7. CASE db[o] # 0 /\ i \in DOMAIN rows
  <2>1. Database!Range(given) = {rows[i].blob}
    BY <1>2, <1>3, <1>7
  <2>2. DOMAIN saves \cap {i} = {i} /\ saves[i].state = rows[i].blob /\ RowTrue(rows[i], now)
    BY <1>4, <1>7 DEF Kept, InOrder
  <2>3. {saves[k].state : k \in DOMAIN saves \cap {i}} = {rows[i].blob}
    BY <2>2
  <2>4. \A s \in Database!Range(given) : RowTrue(rows[i], now) /\ s = rows[i].blob
    BY <2>1, <2>2
  <2> QED
    BY <2>1, <2>3, <2>4 DEF given, rows, saves
<1> QED
  BY <1>5, <1>6, <1>7

LEMMA DatabaseInvSuffices == DatabaseInv => DatabaseIsSound
<1> SUFFICES ASSUME DatabaseInv
             PROVE  DatabaseIsSound
  OBVIOUS
<1>1. Ownership /\ Stores /\ Database!ListedRecentFirst
  BY DEF DatabaseInv
<1>2. Database!TypeOK
  <2>1. \A d \in DOMAIN table : DOMAIN table[d] \subseteq Ids
                              /\ \A i \in DOMAIN table[d] : table[d][i] \in Database!Rows
    BY <1>1 DEF Stores, Kept, RowTrue
  <2>2. db \in [Objects -> {0} \cup Database!Connections] /\ DOMAIN open \subseteq Database!Connections
    BY <1>1 DEF Ownership, Numbers
  <2>3. /\ \A c \in DOMAIN open : open[c] \in {Database!File, c}
        /\ DOMAIN table = {Database!File} \cup {open[c] : c \in DOMAIN open \ leaked}
        /\ now \in 0 .. LastSecond
    BY <1>1 DEF Stores, Database!File
  <2> QED
    BY <2>1, <2>2, <2>3 DEF Database!TypeOK
<1>3. ASSUME NEW o \in Objects, NEW i \in Ids, NEW s \in Database!Range(Database!LoadGame(o, i))
      PROVE  LET row == table[Database!Where(o)][i]
                 owners == {f \in UNION {r.units \cup r.cities : r \in States} :
                                f \in s.units \/ f \in s.cities}
             IN  row.turn = s.turn /\ row.playerCount = Database!Cardinality(owners)
  <2> DEFINE row == table[Database!Where(o)][i]
             owners == {f \in UNION {r.units \cup r.cities : r \in States} :
                            f \in s.units \/ f \in s.cities}
  <2>1. RowTrue(row, now) /\ s = row.blob
    BY <1>3, LoadTells
  <2>2. s \in States
    BY <2>1 DEF RowTrue, Database!Rows
  <2>3. owners = s.units \cup s.cities
    BY <2>2
  <2> HIDE DEF row, owners
  <2>4. row.turn = s.turn /\ row.playerCount = Database!CountPlayers(s)
    BY <2>1 DEF RowTrue
  <2>5. row.turn = s.turn /\ row.playerCount = Database!Cardinality(owners)
    BY <2>3, <2>4 DEF Database!CountPlayers
  <2> QED
    BY <2>5 DEF row, owners
<1>4. Database!ListingTellsTheGame
  BY <1>3 DEF Database!ListingTellsTheGame
<1>5. Database!SavedIsLoaded
  BY LoadTells DEF Database!SavedIsLoaded
<1> QED
  BY <1>1, <1>2, <1>4, <1>5, OwnersCounted DEF DatabaseIsSound, Database!DatabaseIsSound

\* Whatever objects are constructed, moved and destroyed, whatever is saved,
\* deleted and listed through them, and whenever the process ends: every
\* connection has one owner, but for those whose constructor threw; rows tell of their games, listings are in the
\* order of saving, and what was saved last is loaded.
THEOREM DatabaseAlwaysSound == Spec => []DatabaseIsSound
<1>1. Init => DatabaseInv
  BY DatabaseBegins
<1>2. DatabaseInv /\ [Next]_Vars => DatabaseInv'
  BY DatabaseKeeps
<1>3. DatabaseInv => DatabaseIsSound
  BY DatabaseInvSuffices
<1> QED
  BY <1>1, <1>2, <1>3, PTL DEF Spec

-----------------------------------------------------------------------------
(* The lobby. *)

Lobbies ==
  [state : {"WaitingForPlayers", "InProgress", "Finished"}, host : Players, minPlayers : Int,
   slots : Seq(Lobby!Slots), session : Lobby!Session!Sessions,
   factions : UNION {[S -> Nat] : S \in SUBSET Players}]

\* The session of the players seated.
Joint(P) == [players |-> P, connected |-> P, ended |-> {}, turn |-> 1]

\* No player has two slots, the host has one, and a game that was started has
\* the session of those who sit in it.
GameRight(g) ==
  /\ g \in Lobbies
  /\ \A m, n \in Lobby!Occupied(g) : g.slots[m].player = g.slots[n].player => m = n
  /\ g.host \in Lobby!Seated(g)
  /\ g.state # "WaitingForPlayers" =>
       /\ g.session = Joint(Lobby!Seated(g))
       /\ g.factions \in Bijection(Lobby!Seated(g), 1 .. Cardinality(Lobby!Occupied(g)))

\* Only games that were started have handles.
LobbyInv ==
  /\ nextGameId \in Nat \ {0}
  /\ DOMAIN games \subseteq 1 .. nextGameId - 1
  /\ \A id \in DOMAIN games : GameRight(games[id])
  /\ \A id \in handles : id \in DOMAIN games /\ games[id].state # "WaitingForPlayers"

LEMMA LobbyConstants ==
  /\ NoPlayer \notin Players /\ MaxGames \in Nat
  /\ Settings \subseteq [maxPlayers : Nat \ {0}, minPlayers : Int]
BY LobbyAssumption DEF Lobby!LobbyAssumption

\* The instance's copies of what library modules define.
LEMMA LobbyCopies ==
  ASSUME NEW S, NEW T
  PROVE  Lobby!Cardinality(S) = Cardinality(S) /\ Lobby!Bijection(S, T) = Bijection(S, T)
<1>1. Lobby!Cardinality(S) = Cardinality(S)
  BY DEF Lobby!Cardinality, Cardinality
<1>2. Lobby!Injection(S, T) = Injection(S, T)
  BY DEF Lobby!Injection, Injection, Lobby!IsInjective, IsInjective
<1>3. Lobby!Surjection(S, T) = Surjection(S, T)
  BY DEF Lobby!Surjection, Surjection
<1> QED
  BY <1>1, <1>2, <1>3 DEF Lobby!Bijection, Bijection

\* The slots are numbered from 1, and finitely many.
LEMMA SlotsNumbered ==
  ASSUME NEW g, g \in Lobbies
  PROVE  /\ Len(g.slots) \in Nat /\ DOMAIN g.slots = 1 .. Len(g.slots)
         /\ \A n \in DOMAIN g.slots : g.slots[n] \in Lobby!Slots
         /\ Lobby!Occupied(g) \subseteq 1 .. Len(g.slots)
         /\ IsFiniteSet(Lobby!Occupied(g))
         /\ Lobby!Seated(g) \subseteq Players
<1>1. g.slots \in Seq(Lobby!Slots)
  BY DEF Lobbies
<1>2. /\ Len(g.slots) \in Nat /\ DOMAIN g.slots = 1 .. Len(g.slots)
      /\ \A n \in DOMAIN g.slots : g.slots[n] \in Lobby!Slots
  BY <1>1, LenProperties, ElementOfSeq
<1>3. Lobby!Occupied(g) \subseteq 1 .. Len(g.slots)
  BY <1>2 DEF Lobby!Occupied
<1>4. IsFiniteSet(1 .. Len(g.slots))
  <2>1. 1 \in Int /\ Len(g.slots) \in Int
    BY <1>2
  <2> QED
    BY <2>1, FS_Interval
<1>5. IsFiniteSet(Lobby!Occupied(g))
  BY <1>3, <1>4, FS_Subset
<1>6. Lobby!Seated(g) \subseteq Players
  BY <1>2 DEF Lobby!Seated, Lobby!Occupied, Lobby!Slots
<1> QED
  BY <1>2, <1>3, <1>5, <1>6

\* As many players as occupied slots.
LEMMA SeatsCounted ==
  ASSUME NEW g, g \in Lobbies,
         \A m, n \in Lobby!Occupied(g) : g.slots[m].player = g.slots[n].player => m = n
  PROVE  /\ IsFiniteSet(Lobby!Seated(g))
         /\ Cardinality(Lobby!Seated(g)) = Cardinality(Lobby!Occupied(g))
<1> DEFINE occupied == Lobby!Occupied(g)
           seated == Lobby!Seated(g)
           sits == [n \in occupied |-> g.slots[n].player]
<1>1. IsFiniteSet(occupied)
  BY SlotsNumbered
<1>2. seated = {g.slots[n].player : n \in occupied}
  BY DEF Lobby!Seated
<1> HIDE DEF occupied, seated
<1>3. sits \in [occupied -> seated]
  BY <1>2
<1>4. sits \in Injection(occupied, seated)
  BY <1>3 DEF Injection, IsInjective, occupied
<1>5. sits \in Surjection(occupied, seated)
  BY <1>2, <1>3 DEF Surjection
<1>6. ExistsBijection(occupied, seated)
  BY <1>4, <1>5 DEF ExistsBijection, Bijection
<1>7. IsFiniteSet(seated) /\ Cardinality(seated) = Cardinality(occupied)
  BY <1>1, <1>6, FS_Bijection
<1> QED
  BY <1>7 DEF occupied, seated

\* Every player seated has one slot, which SeatOf gives.
LEMMA SeatFound ==
  ASSUME NEW g, g \in Lobbies, NEW p \in Lobby!Seated(g),
         \A m, n \in Lobby!Occupied(g) : g.slots[m].player = g.slots[n].player => m = n
  PROVE  Lobby!SeatOf(g, p) \in Lobby!Occupied(g) /\ g.slots[Lobby!SeatOf(g, p)].player = p
<1>1. PICK n \in Lobby!Occupied(g) : g.slots[n].player = p
  BY DEF Lobby!Seated
<1>2. n \in Nat
  BY SlotsNumbered
<1>3. \A m \in Lobby!Occupied(g) : g.slots[m].player = p => n <= m
  BY <1>1, <1>2
<1>4. \E k \in Lobby!Occupied(g) :
        g.slots[k].player = p /\ \A m \in Lobby!Occupied(g) : g.slots[m].player = p => k <= m
  BY <1>1, <1>3
<1> QED
  BY <1>4 DEF Lobby!SeatOf

\* Numbering the occupied slots: how many there are up to each.
LEMMA Ranks ==
  ASSUME NEW S, S \subseteq Nat, IsFiniteSet(S), NEW n \in S
  PROVE  /\ Cardinality({k \in S : k <= n}) \in 1 .. Cardinality(S)
         /\ \A m \in S : m < n =>
              Cardinality({k \in S : k <= m}) # Cardinality({k \in S : k <= n})
<1> DEFINE upto(m) == {k \in S : k <= m}
<1>1. ASSUME NEW m \in S
      PROVE  upto(m) \in SUBSET S /\ IsFiniteSet(upto(m))
             /\ Cardinality(upto(m)) \in Nat /\ Cardinality(upto(m)) <= Cardinality(S)
  <2>1. upto(m) \in SUBSET S
    OBVIOUS
  <2>2. IsFiniteSet(upto(m)) /\ Cardinality(upto(m)) <= Cardinality(S)
    BY <2>1, FS_Subset
  <2> QED
    BY <2>1, <2>2, FS_CardinalityType
<1>2. Cardinality(S) \in Nat
  BY FS_CardinalityType
<1>3. Cardinality(upto(n)) # 0
  <2>1. n \in upto(n)
    OBVIOUS
  <2> QED
    BY <1>1, <2>1, FS_EmptySet
<1>4. ASSUME NEW m \in S, m < n
      PROVE  Cardinality(upto(m)) # Cardinality(upto(n))
  <2>1. upto(m) \in SUBSET upto(n) /\ n \in upto(n) /\ n \notin upto(m)
    <3>1. m \in Nat /\ n \in Nat /\ \A k \in S : k \in Nat
      OBVIOUS
    <3>2. \A k \in S : k <= m => k <= n
      BY <1>4, <3>1
    <3>3. n <= n /\ ~(n <= m)
      BY <1>4, <3>1
    <3> QED
      BY <3>2, <3>3
  <2>2. upto(m) # upto(n)
    BY <2>1
  <2> QED
    BY <1>1, <2>1, <2>2, FS_Subset
<1> QED
  BY <1>1, <1>2, <1>3, <1>4

\* startGame numbers the players from 1, each with a number of his own.
LEMMA FactionsNumbered ==
  ASSUME NEW g, g \in Lobbies,
         \A m, n \in Lobby!Occupied(g) : g.slots[m].player = g.slots[n].player => m = n
  PROVE  /\ Lobby!SessionFactions(g) \in Bijection(Lobby!Seated(g), 1 .. Cardinality(Lobby!Occupied(g)))
         /\ Lobby!SessionFactions(g) \in [Lobby!Seated(g) -> Nat]
<1> DEFINE occupied == Lobby!Occupied(g)
           seated == Lobby!Seated(g)
           total == Cardinality(occupied)
           rank(n) == Cardinality({m \in occupied : m <= n})
           f == Lobby!SessionFactions(g)
<1>1. f = [p \in seated |-> rank(Lobby!SeatOf(g, p))]
  BY LobbyCopies DEF Lobby!SessionFactions
<1>2. /\ occupied \subseteq Nat /\ IsFiniteSet(occupied)
      /\ IsFiniteSet(seated) /\ Cardinality(seated) = total /\ total \in Nat
  BY SlotsNumbered, SeatsCounted, FS_CardinalityType
<1>3. \A p \in seated : Lobby!SeatOf(g, p) \in occupied /\ g.slots[Lobby!SeatOf(g, p)].player = p
  BY SeatFound
<1>4. \A n \in occupied : rank(n) \in 1 .. total
  BY <1>2, Ranks
<1>5. \A m, n \in occupied : rank(m) = rank(n) => m = n
  <2>1. ASSUME NEW m \in occupied, NEW n \in occupied, m < n
        PROVE  rank(m) # rank(n)
    BY <1>2, <2>1, Ranks
  <2>2. \A m, n \in occupied : m < n \/ n < m \/ m = n
    BY <1>2
  <2> QED
    BY <2>1, <2>2
<1> HIDE DEF occupied, seated, total, rank, f
<1>6. f \in [seated -> 1 .. total]
  BY <1>1, <1>3, <1>4
<1>7. f \in Injection(seated, 1 .. total)
  <2>1. ASSUME NEW p \in seated, NEW q \in seated, f[p] = f[q]
        PROVE  p = q
    <3>1. rank(Lobby!SeatOf(g, p)) = rank(Lobby!SeatOf(g, q))
      BY <1>1, <2>1
    <3>2. Lobby!SeatOf(g, p) = Lobby!SeatOf(g, q)
      BY <1>3, <1>5, <3>1
    <3> QED
      BY <1>3, <3>2
  <2> QED
    BY <1>6, <2>1 DEF Injection, IsInjective
<1>8. IsFiniteSet(1 .. total) /\ Cardinality(1 .. total) = total
  <2>1. 1 \in Int /\ total \in Int /\ (1 > total => total = 0) /\ total - 1 + 1 = total
    BY <1>2
  <2> QED
    BY <2>1, FS_Interval
<1>9. f \in Surjection(seated, 1 .. total)
  BY <1>2, <1>7, <1>8, FS_Injection
<1>10. f \in [seated -> Nat]
  BY <1>2, <1>6
<1> QED
  BY <1>7, <1>9, <1>10 DEF Bijection, occupied, seated, total, f

LEMMA SessionRecursion ==
  ASSUME NEW g, Len(g.slots) \in Nat
  PROVE  \E after :
           /\ after = [n \in 0 .. Len(g.slots) |->
                         IF n = 0 THEN Lobby!Session!NewSession
                         ELSE IF n \in Lobby!Occupied(g)
                              THEN Lobby!Session!AddPlayer(after[n - 1], g.slots[n].player)
                              ELSE after[n - 1]]
           /\ Lobby!SessionOf(g) = after[Len(g.slots)]
<1> DEFINE L == Len(g.slots)
           Next1(s, n) == IF n \in Lobby!Occupied(g)
                          THEN Lobby!Session!AddPlayer(s, g.slots[n].player) ELSE s
           Good(f, k) == f = [n \in 0 .. k |->
                         IF n = 0 THEN Lobby!Session!NewSession
                         ELSE IF n \in Lobby!Occupied(g)
                              THEN Lobby!Session!AddPlayer(f[n - 1], g.slots[n].player)
                              ELSE f[n - 1]]
           T == {k \in Nat : \E f : Good(f, k)}
           after == CHOOSE f : Good(f, L)
<1>1. 0 \in T
  <2> DEFINE f == [n \in 0 .. 0 |-> Lobby!Session!NewSession]
  <2>1. Good(f, 0)
    OBVIOUS
  <2> QED
    BY <2>1
<1>2. ASSUME NEW k \in Nat, k \in T
      PROVE  k + 1 \in T
  <2>1. PICK f : Good(f, k)
    BY <1>2
  <2> DEFINE h == [n \in 0 .. k + 1 |-> IF n = k + 1 THEN Next1(f[k], k + 1) ELSE f[n]]
  <2>2. ASSUME NEW n \in 0 .. k + 1
        PROVE  h[n] = IF n = 0 THEN Lobby!Session!NewSession ELSE Next1(h[n - 1], n)
    <3>1. CASE n = k + 1
      <4>1. h[n] = Next1(f[k], n) /\ h[n - 1] = f[k]
        BY <3>1
      <4> QED
        BY <3>1, <4>1
    <3>2. CASE n # k + 1
      <4>1. n \in 0 .. k /\ h[n] = f[n]
        BY <2>2, <3>2
      <4>2. f[n] = IF n = 0 THEN Lobby!Session!NewSession ELSE Next1(f[n - 1], n)
        BY <2>1, <4>1
      <4>3. n # 0 => h[n - 1] = f[n - 1]
        BY <4>1
      <4> QED
        BY <4>1, <4>2, <4>3
    <3> QED
      BY <3>1, <3>2
  <2>3. Good(h, k + 1)
    BY <2>2
  <2> HIDE DEF Good, h, Next1
  <2>4. (\E fn : Good(fn, k + 1)) /\ k + 1 \in Nat
    BY <2>3
  <2> QED
    BY <2>4
<1>3. \E f : Good(f, L)
  <2>1. \A n \in 0 .. L - 1 : n \in T => n + 1 \in T
    BY <1>2
  <2>2. L \in Nat
    OBVIOUS
  <2> HIDE DEF T, Good, after, L
  <2>3. \A n \in 0 .. L : n \in T
    BY <1>1, <2>1, <2>2, UpTo
  <2>4. L \in T
    BY <2>2, <2>3
  <2> QED
    BY <2>4 DEF T
<1>4. Good(after, L)
  BY <1>3
<1>5. Lobby!SessionOf(g) = after[L]
  BY DEF Lobby!SessionOf
<1> QED
  BY <1>4, <1>5

\* The session gets the players of the occupied slots and nobody else.
LEMMA SessionSeats ==
  ASSUME NEW g, g \in Lobbies
  PROVE  Lobby!SessionOf(g) = Joint(Lobby!Seated(g))
<1> DEFINE L == Len(g.slots)
           occupied == Lobby!Occupied(g)
           upto(n) == {g.slots[m].player : m \in {k \in occupied : k <= n}}
<1>1. L \in Nat /\ occupied \subseteq 1 .. L
  BY SlotsNumbered
<1>2. PICK after :
        /\ after = [n \in 0 .. Len(g.slots) |->
                      IF n = 0 THEN Lobby!Session!NewSession
                      ELSE IF n \in Lobby!Occupied(g)
                           THEN Lobby!Session!AddPlayer(after[n - 1], g.slots[n].player)
                           ELSE after[n - 1]]
        /\ Lobby!SessionOf(g) = after[Len(g.slots)]
  BY <1>1, SessionRecursion
<1> DEFINE T == {n \in 0 .. L : after[n] = Joint(upto(n))}
<1>3. 0 \in T
  <2>1. after[0] = Lobby!Session!NewSession /\ 0 \in 0 .. L
    BY <1>1, <1>2
  <2>2. {k \in occupied : k <= 0} = {}
    BY <1>1
  <2>3. upto(0) = {}
    BY <2>2
  <2>4. Lobby!Session!NewSession = Joint({})
    BY DEF Lobby!Session!NewSession, Joint
  <2> QED
    BY <2>1, <2>3, <2>4
<1>4. ASSUME NEW n \in 0 .. L - 1, n \in T
      PROVE  n + 1 \in T
  <2>1. n + 1 \in 0 .. L /\ n + 1 # 0 /\ n + 1 - 1 = n /\ n \in Nat
    BY <1>1
  <2>2. after[n + 1] = IF n + 1 \in occupied
                       THEN Lobby!Session!AddPlayer(after[n], g.slots[n + 1].player) ELSE after[n]
    BY <1>2, <2>1
  <2>3. after[n] = Joint(upto(n))
    BY <1>4
  <2>4. {k \in occupied : k <= n + 1} =
          {k \in occupied : k <= n} \cup (IF n + 1 \in occupied THEN {n + 1} ELSE {})
    <3>1. \A k \in occupied : k <= n + 1 <=> k <= n \/ k = n + 1
      BY <1>1, <2>1
    <3> QED
      BY <3>1, <2>1
  <2>5. CASE n + 1 \in occupied
    <3> DEFINE p == g.slots[n + 1].player
    <3>1. upto(n + 1) = upto(n) \cup {p}
      BY <2>4, <2>5
    <3> HIDE DEF p, upto
    <3>2. Lobby!Session!AddPlayer(Joint(upto(n)), p) = Joint(upto(n) \cup {p})
      <4>1. p \in upto(n) => upto(n) \cup {p} = upto(n)
        OBVIOUS
      <4> QED
        BY <4>1 DEF Lobby!Session!AddPlayer, Joint
    <3>3. after[n + 1] = Lobby!Session!AddPlayer(after[n], p)
      BY <2>2, <2>5 DEF p
    <3>4. after[n + 1] = Joint(upto(n + 1))
      BY <2>3, <3>1, <3>2, <3>3
    <3> QED
      BY <2>1, <3>4
  <2>6. CASE n + 1 \notin occupied
    <3>1. upto(n + 1) = upto(n)
      BY <2>4, <2>6
    <3> HIDE DEF upto, occupied
    <3>2. after[n + 1] = Joint(upto(n + 1))
      BY <2>2, <2>3, <2>6, <3>1
    <3> QED
      BY <2>1, <3>2
  <2> QED
    BY <2>5, <2>6
<1>5. upto(L) = Lobby!Seated(g)
  <2>1. {k \in occupied : k <= L} = occupied
    BY <1>1
  <2> QED
    BY <2>1 DEF Lobby!Seated
<1>6. Lobby!SessionOf(g) = after[L]
  BY <1>2
<1> HIDE DEF T, L
<1>7. \A n \in 0 .. L : n \in T
  BY <1>1, <1>3, <1>4, UpTo
<1>8. L \in T
  BY <1>1, <1>7
<1> QED
  BY <1>5, <1>6, <1>8 DEF T

\* The session and the factions that startGame makes.
LEMMA StartedRight ==
  ASSUME NEW g, GameRight(g), NEW h,
         h = [g EXCEPT !.session = Lobby!SessionOf(g), !.factions = Lobby!SessionFactions(g),
                       !.state = "InProgress"]
  PROVE  GameRight(h)
<1> DEFINE s == Lobby!SessionOf(g)
           f == Lobby!SessionFactions(g)
           P == Lobby!Seated(g)
<1>1. g \in Lobbies /\ P \subseteq Players
  BY SlotsNumbered DEF GameRight
<1>2. s = Joint(P) /\ s \in Lobby!Session!Sessions
  <2>1. Joint(P) \in Lobby!Session!Sessions
    BY <1>1 DEF Joint, Lobby!Session!Sessions
  <2> QED
    BY <1>1, <2>1, SessionSeats
<1>3. f \in Bijection(P, 1 .. Cardinality(Lobby!Occupied(g))) /\ f \in [P -> Nat]
  BY <1>1, FactionsNumbered DEF GameRight
<1> HIDE DEF s, f, P
<1>4. h = [g EXCEPT !.session = s, !.factions = f, !.state = "InProgress"]
  BY DEF s, f
<1>5. /\ h \in Lobbies /\ h.slots = g.slots /\ h.host = g.host
      /\ h.session = s /\ h.factions = f
  <2> DEFINE Numberings == UNION {[S -> Nat] : S \in SUBSET Players}
  <2>1. f \in Numberings
    BY <1>1, <1>3
  <2> HIDE DEF Numberings
  <2>2. g \in [state : {"WaitingForPlayers", "InProgress", "Finished"}, host : Players,
               minPlayers : Int, slots : Seq(Lobby!Slots), session : Lobby!Session!Sessions,
               factions : Numberings]
    BY <1>1 DEF Lobbies, Numberings
  <2>3. /\ h \in [state : {"WaitingForPlayers", "InProgress", "Finished"}, host : Players,
                  minPlayers : Int, slots : Seq(Lobby!Slots), session : Lobby!Session!Sessions,
                  factions : Numberings]
        /\ h.slots = g.slots /\ h.host = g.host /\ h.session = s /\ h.factions = f
    BY <1>2, <1>4, <2>1, <2>2
  <2> QED
    BY <2>3 DEF Lobbies, Numberings
<1>6. Lobby!Occupied(h) = Lobby!Occupied(g) /\ Lobby!Seated(h) = Lobby!Seated(g)
  BY <1>5 DEF Lobby!Occupied, Lobby!Seated
<1> QED
  BY <1>2, <1>3, <1>5, <1>6 DEF GameRight, P

\* A player sits down, or one who is not the host gets up.
LEMMA SeatChanged ==
  ASSUME NEW g, GameRight(g), g.state = "WaitingForPlayers",
         NEW n \in DOMAIN g.slots, NEW e \in Lobby!Slots,
         \/ e.player = NoPlayer /\ g.slots[n].player # g.host
         \/ n \notin Lobby!Occupied(g) /\ e.player \notin Lobby!Seated(g),
         NEW h, h = [g EXCEPT !.slots[n] = e]
  PROVE  GameRight(h) /\ h.state = "WaitingForPlayers"
<1> DEFINE chairs == [g.slots EXCEPT ![n] = e]
<1>1. /\ g \in Lobbies /\ g.slots \in Seq(Lobby!Slots) /\ g.host \in Players /\ g.host # NoPlayer
  BY LobbyConstants DEF GameRight, Lobbies
<1>2. /\ chairs \in Seq(Lobby!Slots) /\ DOMAIN chairs = DOMAIN g.slots /\ chairs[n] = e
      /\ \A m \in DOMAIN g.slots : m # n => chairs[m] = g.slots[m]
  <2>1. n \in 1 .. Len(g.slots)
    BY <1>1, SlotsNumbered
  <2>2. chairs \in Seq(Lobby!Slots)
    BY <1>1, <2>1, ExceptSeq
  <2> QED
    BY <2>2
<1> HIDE DEF chairs
<1>3. h = [g EXCEPT !.slots = chairs]
  BY DEF chairs
<1>4. /\ h \in Lobbies /\ h.slots = chairs /\ h.host = g.host /\ h.state = "WaitingForPlayers"
  <2> DEFINE Numberings == UNION {[S -> Nat] : S \in SUBSET Players}
  <2> HIDE DEF Numberings
  <2>1. g \in [state : {"WaitingForPlayers", "InProgress", "Finished"}, host : Players,
               minPlayers : Int, slots : Seq(Lobby!Slots), session : Lobby!Session!Sessions,
               factions : Numberings]
    BY <1>1 DEF Lobbies, Numberings
  <2>2. /\ h \in [state : {"WaitingForPlayers", "InProgress", "Finished"}, host : Players,
                  minPlayers : Int, slots : Seq(Lobby!Slots), session : Lobby!Session!Sessions,
                  factions : Numberings]
        /\ h.slots = chairs /\ h.host = g.host /\ h.state = g.state
    BY <1>2, <1>3, <2>1
  <2> QED
    BY <2>2 DEF Lobbies, Numberings
<1>5. ASSUME NEW m \in Lobby!Occupied(h), m # n
      PROVE  m \in Lobby!Occupied(g) /\ h.slots[m] = g.slots[m]
  BY <1>2, <1>4, <1>5 DEF Lobby!Occupied
<1>6. \A m \in Lobby!Occupied(g) : m # n => m \in Lobby!Occupied(h)
  BY <1>2, <1>4 DEF Lobby!Occupied
<1>7. n \in Lobby!Occupied(h) =>
        /\ h.slots[n].player = e.player
        /\ \A m \in Lobby!Occupied(g) : g.slots[m].player # e.player
  BY <1>2, <1>4 DEF Lobby!Occupied, Lobby!Seated
<1>8. \A k, m \in Lobby!Occupied(h) : h.slots[k].player = h.slots[m].player => k = m
  <2> SUFFICES ASSUME NEW k \in Lobby!Occupied(h), NEW m \in Lobby!Occupied(h),
                      h.slots[k].player = h.slots[m].player, k # m
               PROVE  FALSE
    OBVIOUS
  <2>1. CASE k = n
    BY <1>5, <1>7, <2>1
  <2>2. CASE m = n
    BY <1>5, <1>7, <2>2
  <2>3. CASE k # n /\ m # n
    BY <1>5, <2>3 DEF GameRight
  <2> QED
    BY <2>1, <2>2, <2>3
<1>9. g.host \in Lobby!Seated(h)
  <2>1. PICK m \in Lobby!Occupied(g) : g.slots[m].player = g.host
    BY DEF GameRight, Lobby!Seated
  <2>2. m # n /\ m \in DOMAIN g.slots
    BY <1>1, <2>1 DEF Lobby!Occupied
  <2>3. m \in Lobby!Occupied(h) /\ h.slots[m].player = g.host
    BY <1>2, <1>4, <1>6, <2>1, <2>2
  <2> QED
    BY <2>3 DEF Lobby!Seated
<1> QED
  BY <1>4, <1>8, <1>9 DEF GameRight

LEMMA NewGameRight ==
  ASSUME NEW host \in Players, NEW s \in Settings
  PROVE  GameRight(Lobby!NewGame(host, s)) /\ Lobby!NewGame(host, s).state = "WaitingForPlayers"
<1> DEFINE first == [player |-> host, faction |-> 1]
           chairs == [n \in 1 .. s.maxPlayers |-> IF n = 1 THEN first ELSE Lobby!EmptySlot]
           g == Lobby!NewGame(host, s)
<1>1. s.maxPlayers \in Nat \ {0} /\ s.minPlayers \in Int /\ NoPlayer \notin Players
  BY LobbyConstants
<1>2. /\ chairs \in Seq(Lobby!Slots) /\ DOMAIN chairs = 1 .. s.maxPlayers /\ chairs[1] = first
      /\ \A n \in DOMAIN chairs : n # 1 => chairs[n].player = NoPlayer
  <2>1. first \in Lobby!Slots /\ Lobby!EmptySlot \in Lobby!Slots /\ Lobby!EmptySlot.player = NoPlayer
    BY DEF Lobby!Slots, Lobby!EmptySlot
  <2> HIDE DEF first
  <2>2. chairs \in [1 .. s.maxPlayers -> Lobby!Slots]
    BY <2>1
  <2>3. chairs \in Seq(Lobby!Slots)
    BY <1>1, <2>2 DEF Seq
  <2>4. 1 \in 1 .. s.maxPlayers
    BY <1>1
  <2> QED
    BY <2>1, <2>3, <2>4
<1>3. first.player = host
  OBVIOUS
<1> HIDE DEF chairs, first
<1>4. g = [state |-> "WaitingForPlayers", host |-> host, minPlayers |-> s.minPlayers,
           slots |-> chairs, session |-> Lobby!NoSession, factions |-> <<>>]
  BY DEF Lobby!NewGame, chairs, first
<1>5. Lobby!NoSession \in Lobby!Session!Sessions
  BY DEF Lobby!NoSession, Lobby!Session!NewSession, Lobby!Session!Sessions
<1>6. <<>> \in UNION {[S -> Nat] : S \in SUBSET Players}
  <2>1. <<>> \in [{} -> Nat]
    OBVIOUS
  <2> QED
    BY <2>1
<1>7. g \in Lobbies /\ g.slots = chairs /\ g.host = host /\ g.state = "WaitingForPlayers"
  <2> DEFINE Numberings == UNION {[S -> Nat] : S \in SUBSET Players}
  <2>1. <<>> \in Numberings
    BY <1>6
  <2> HIDE DEF Numberings, g
  <2>2. g \in [state : {"WaitingForPlayers", "InProgress", "Finished"}, host : Players,
               minPlayers : Int, slots : Seq(Lobby!Slots), session : Lobby!Session!Sessions,
               factions : Numberings]
    BY <1>1, <1>2, <1>4, <1>5, <2>1
  <2> QED
    BY <1>4, <2>2 DEF Lobbies, Numberings
<1> HIDE DEF g
<1>8. Lobby!Occupied(g) = {1}
  <2>1. host # NoPlayer /\ 1 \in DOMAIN chairs
    BY <1>1, <1>2
  <2> QED
    BY <1>2, <1>3, <1>7, <2>1 DEF Lobby!Occupied
<1>9. Lobby!Seated(g) = {host}
  BY <1>2, <1>3, <1>7, <1>8 DEF Lobby!Seated
<1> QED
  BY <1>7, <1>8, <1>9 DEF GameRight, g

\* What a step leaves to those who hold a session.
HandlesHold ==
  \A id \in handles :
    /\ id \in DOMAIN games'
    /\ games'[id].session = games[id].session
    /\ games'[id].slots = games[id].slots

\* The steps that change one game.
LEMMA OneGameChanged ==
  ASSUME LobbyInv, NEW id \in DOMAIN games, NEW h, GameRight(h),
         games' = [games EXCEPT ![id] = h],
         \/ games[id].state = "WaitingForPlayers"
         \/ h.state # "WaitingForPlayers" /\ h.session = games[id].session /\ h.slots = games[id].slots,
         nextGameId' = nextGameId,
         \/ handles' = handles
         \/ handles' = handles \cup {id} /\ h.state # "WaitingForPlayers"
  PROVE  LobbyInv' /\ HandlesHold
<1>1. /\ DOMAIN games' = DOMAIN games /\ games'[id] = h
      /\ \A other \in DOMAIN games : other # id => games'[other] = games[other]
  OBVIOUS
<1>2. id \in handles => games[id].state # "WaitingForPlayers"
  BY DEF LobbyInv
<1>3. \A other \in DOMAIN games' : GameRight(games'[other])
  BY <1>1 DEF LobbyInv
<1>4. ASSUME NEW other \in handles'
      PROVE  other \in DOMAIN games' /\ games'[other].state # "WaitingForPlayers"
  <2>1. CASE other = id
    BY <1>1, <1>2, <1>4, <2>1
  <2>2. CASE other # id
    BY <1>1, <1>4, <2>2 DEF LobbyInv
  <2> QED
    BY <2>1, <2>2
<1>5. HandlesHold
  BY <1>1, <1>2 DEF HandlesHold, LobbyInv
<1>6. nextGameId' \in Nat \ {0} /\ DOMAIN games' \subseteq 1 .. nextGameId' - 1
  BY <1>1 DEF LobbyInv
<1> QED
  BY <1>3, <1>4, <1>5, <1>6 DEF LobbyInv

LEMMA CreateKeeps ==
  ASSUME LobbyInv, NEW p \in Players, Lobby!CreateGame(p)
  PROVE  LobbyInv' /\ HandlesHold
<1>1. PICK s \in Settings :
        /\ games' = [id \in DOMAIN games \cup {nextGameId} |->
                       IF id = nextGameId THEN Lobby!NewGame(p, s) ELSE games[id]]
        /\ nextGameId' = nextGameId + 1 /\ handles' = handles
  BY DEF Lobby!CreateGame
<1>2. nextGameId \in Nat \ {0} /\ nextGameId \notin DOMAIN games
  BY DEF LobbyInv
<1> DEFINE g == Lobby!NewGame(p, s)
<1>3. GameRight(g) /\ g.state = "WaitingForPlayers"
  BY NewGameRight
<1> HIDE DEF g
<1>4. /\ DOMAIN games' = DOMAIN games \cup {nextGameId} /\ games'[nextGameId] = g
      /\ \A id \in DOMAIN games : games'[id] = games[id]
  BY <1>1, <1>2 DEF g
<1>5. nextGameId' \in Nat \ {0} /\ DOMAIN games' \subseteq 1 .. nextGameId' - 1
  BY <1>1, <1>2, <1>4 DEF LobbyInv
<1>6. \A id \in DOMAIN games' : GameRight(games'[id])
  BY <1>3, <1>4 DEF LobbyInv
<1>7. \A id \in handles' : id \in DOMAIN games' /\ games'[id].state # "WaitingForPlayers"
  BY <1>1, <1>4 DEF LobbyInv
<1>8. HandlesHold
  BY <1>1, <1>4 DEF HandlesHold, LobbyInv
<1> QED
  BY <1>5, <1>6, <1>7, <1>8 DEF LobbyInv

\* There is a first free slot, and it is the one that is taken.
LEMMA JoinKeeps ==
  ASSUME LobbyInv, NEW id \in DOMAIN games, NEW p \in Players, Lobby!JoinGame(id, p)
  PROVE  LobbyInv' /\ HandlesHold
<1> DEFINE g == games[id]
           free == DOMAIN g.slots \ Lobby!Occupied(g)
           first == CHOOSE n \in free : \A m \in free : n <= m
           e == [player |-> p, faction |-> Lobby!OccupiedSlotCount(g) + 1]
           h == [g EXCEPT !.slots[first] = e]
<1>1. /\ g.state = "WaitingForPlayers" /\ p \notin Lobby!Seated(g) /\ DOMAIN g.slots # Lobby!Occupied(g)
      /\ games' = [games EXCEPT ![id].slots[first] = e]
      /\ nextGameId' = nextGameId /\ handles' = handles
  BY DEF Lobby!JoinGame, Lobby!CanJoin
<1>2. GameRight(g) /\ g \in Lobbies
  BY DEF LobbyInv, GameRight
<1>3. first \in free
  <2>1. free \subseteq Nat
    BY <1>2, SlotsNumbered
  <2>2. free # {}
    BY <1>1 DEF Lobby!Occupied
  <2> HIDE DEF free
  <2>3. \E n \in free : \A m \in free : n <= m
    BY <2>1, <2>2, Smallest
  <2> QED
    BY <2>3
<1>4. e \in Lobby!Slots /\ e.player = p
  <2>1. Lobby!OccupiedSlotCount(g) \in Nat
    BY <1>2, SlotsNumbered, LobbyCopies, FS_CardinalityType DEF Lobby!OccupiedSlotCount
  <2> QED
    BY <2>1 DEF Lobby!Slots
<1>5. first \in DOMAIN g.slots /\ first \notin Lobby!Occupied(g)
  BY <1>3
<1> HIDE DEF first, e
<1>6. games' = [games EXCEPT ![id] = h]
  BY <1>1
<1>7. GameRight(h)
  BY <1>1, <1>2, <1>4, <1>5, SeatChanged
<1> HIDE DEF h
<1> QED
  BY <1>1, <1>6, <1>7, OneGameChanged

LEMMA LeaveKeeps ==
  ASSUME LobbyInv, NEW id \in DOMAIN games, NEW p \in Players, Lobby!LeaveGame(id, p)
  PROVE  LobbyInv' /\ HandlesHold
<1> DEFINE g == games[id]
<1>1. /\ g.state = "WaitingForPlayers" /\ (p = g.host \/ p \in Lobby!Seated(g))
      /\ games' = IF p = g.host
                  THEN [other \in DOMAIN games \ {id} |-> games[other]]
                  ELSE [games EXCEPT ![id].slots[Lobby!SeatOf(g, p)] = Lobby!EmptySlot]
      /\ nextGameId' = nextGameId /\ handles' = handles
  BY DEF Lobby!LeaveGame, Lobby!CanLeave
<1>2. GameRight(g) /\ g \in Lobbies
  BY DEF LobbyInv, GameRight
<1>3. CASE p = g.host
  <2>1. /\ DOMAIN games' = DOMAIN games \ {id}
        /\ \A other \in DOMAIN games \ {id} : games'[other] = games[other]
    BY <1>1, <1>3
  <2>2. id \notin handles
    BY <1>1 DEF LobbyInv
  <2>3. nextGameId' \in Nat \ {0} /\ DOMAIN games' \subseteq 1 .. nextGameId' - 1
    BY <1>1, <2>1 DEF LobbyInv
  <2>4. \A other \in DOMAIN games' : GameRight(games'[other])
    BY <2>1 DEF LobbyInv
  <2>5. \A other \in handles' : other \in DOMAIN games' /\ games'[other].state # "WaitingForPlayers"
    BY <1>1, <2>1, <2>2 DEF LobbyInv
  <2>6. HandlesHold
    BY <2>1, <2>2 DEF HandlesHold, LobbyInv
  <2> QED
    BY <2>3, <2>4, <2>5, <2>6 DEF LobbyInv
<1>4. CASE p # g.host
  <2> DEFINE n == Lobby!SeatOf(g, p)
             e == Lobby!EmptySlot
             h == [g EXCEPT !.slots[n] = e]
  <2>1. n \in Lobby!Occupied(g) /\ g.slots[n].player = p
    BY <1>1, <1>2, <1>4, SeatFound DEF GameRight
  <2>2. e \in Lobby!Slots /\ e.player = NoPlayer
    BY DEF Lobby!Slots, Lobby!EmptySlot
  <2>3. n \in DOMAIN g.slots /\ g.slots[n].player # g.host
    BY <1>4, <2>1 DEF Lobby!Occupied
  <2>4. games' = [games EXCEPT ![id].slots[n] = e]
    BY <1>1, <1>4
  <2> HIDE DEF n, e
  <2>5. games' = [games EXCEPT ![id] = h]
    BY <2>4
  <2>6. GameRight(h)
    BY <1>1, <1>2, <2>2, <2>3, SeatChanged
  <2> HIDE DEF h
  <2> QED
    BY <1>1, <2>5, <2>6, OneGameChanged
<1> QED
  BY <1>3, <1>4

LEMMA StartKeeps ==
  ASSUME LobbyInv, NEW id \in DOMAIN games, NEW p \in Players, Lobby!StartGame(id, p)
  PROVE  LobbyInv' /\ HandlesHold
<1> DEFINE g == games[id]
           s == Lobby!SessionOf(g)
           f == Lobby!SessionFactions(g)
           h == [g EXCEPT !.session = s, !.factions = f, !.state = "InProgress"]
<1>1. /\ g.state = "WaitingForPlayers"
      /\ games' = [games EXCEPT ![id].session = s, ![id].factions = f, ![id].state = "InProgress"]
      /\ nextGameId' = nextGameId /\ handles' = handles \cup {id}
  BY DEF Lobby!StartGame
<1>2. GameRight(g) /\ g \in Lobbies
  BY DEF LobbyInv, GameRight
<1>3. GameRight(h)
  BY <1>2, StartedRight
<1> HIDE DEF s, f
<1>4. h.state = "InProgress"
  BY <1>2 DEF Lobbies
<1>5. games' = [games EXCEPT ![id] = h]
  BY <1>1
<1> HIDE DEF h
<1> QED
  BY <1>1, <1>3, <1>4, <1>5, OneGameChanged

LEMMA FinishKeeps ==
  ASSUME LobbyInv, NEW id \in DOMAIN games, Lobby!FinishGame(id)
  PROVE  LobbyInv' /\ HandlesHold
<1> DEFINE g == games[id]
           h == [g EXCEPT !.state = "Finished"]
<1>1. /\ g.state = "InProgress" /\ games' = [games EXCEPT ![id].state = "Finished"]
      /\ nextGameId' = nextGameId /\ handles' = handles
  BY DEF Lobby!FinishGame
<1>2. GameRight(g) /\ g \in Lobbies
  BY DEF LobbyInv, GameRight
<1>3. /\ h \in Lobbies /\ h.state = "Finished" /\ h.slots = g.slots /\ h.host = g.host
      /\ h.session = g.session /\ h.factions = g.factions
  BY <1>2 DEF Lobbies
<1>4. games' = [games EXCEPT ![id] = h]
  BY <1>1
<1> HIDE DEF h
<1>5. Lobby!Occupied(h) = Lobby!Occupied(g) /\ Lobby!Seated(h) = Lobby!Seated(g)
  BY <1>3 DEF Lobby!Occupied, Lobby!Seated
<1>6. GameRight(h)
  BY <1>1, <1>2, <1>3, <1>5 DEF GameRight
<1> QED
  BY <1>1, <1>3, <1>4, <1>6, OneGameChanged

LEMMA LobbyBegins == Init => LobbyInv
<1> SUFFICES ASSUME Init
             PROVE  LobbyInv
  OBVIOUS
<1>1. games = <<>> /\ nextGameId = 1 /\ handles = {}
  BY DEF Init, Lobby!Init, Lobby!InitialGameId
<1>2. DOMAIN games = {}
  BY <1>1
<1> QED
  BY <1>1, <1>2 DEF LobbyInv

LEMMA LobbyKeeps == LobbyInv /\ [Next]_Vars => LobbyInv' /\ (HandlesHold \/ UNCHANGED Lobby!vars)
<1> SUFFICES ASSUME LobbyInv, [Next]_Vars
             PROVE  LobbyInv' /\ (HandlesHold \/ UNCHANGED Lobby!vars)
  OBVIOUS
<1>1. ASSUME NEW id \in DOMAIN games, Lobby!GetSession(id)
      PROVE  LobbyInv' /\ HandlesHold
  BY <1>1 DEF LobbyInv, HandlesHold, Lobby!GetSession
<1>2. CASE LobbyStep
  BY <1>1, <1>2, CreateKeeps, JoinKeeps, LeaveKeeps, StartKeeps, FinishKeeps DEF LobbyStep, Lobby!Next
<1>3. CASE UNCHANGED lobbyVars
  BY <1>3 DEF lobbyVars, LobbyInv, Lobby!vars
<1> QED
  BY <1>2, <1>3 DEF Next, Vars, ClientStep, SaveStep, DatabaseStep, LogStep, DiplomacyStep

LEMMA LobbyInvSuffices == LobbyInv => Lobby!TypeOK /\ Lobby!SeatedOnce /\ Lobby!SessionsMatchSeats
<1> SUFFICES ASSUME LobbyInv
             PROVE  Lobby!TypeOK /\ Lobby!SeatedOnce /\ Lobby!SessionsMatchSeats
  OBVIOUS
<1>1. ASSUME NEW id \in DOMAIN games
      PROVE  /\ games[id] \in Lobbies /\ GameRight(games[id])
             /\ DOMAIN games[id].factions \subseteq Players
  <2>1. games[id] \in Lobbies /\ GameRight(games[id])
    BY DEF LobbyInv, GameRight
  <2>2. games[id].factions \in UNION {[S -> Nat] : S \in SUBSET Players}
    BY <2>1 DEF Lobbies
  <2> QED
    BY <2>1, <2>2
<1>2. Lobby!TypeOK
  <2>1. \A id \in DOMAIN games :
          /\ games[id].state \in {"WaitingForPlayers", "InProgress", "Finished"}
          /\ games[id].host \in Players
          /\ games[id].slots \in Seq(Lobby!Slots)
          /\ games[id].session \in Lobby!Session!Sessions
    BY <1>1 DEF Lobbies
  <2>2. DOMAIN games \subseteq 1 .. nextGameId - 1 /\ handles \subseteq 1 .. nextGameId - 1
    BY DEF LobbyInv
  <2>3. nextGameId \in Nat
    BY DEF LobbyInv
  <2> QED
    BY <1>1, <2>1, <2>2, <2>3 DEF Lobby!TypeOK, Lobby!InitialGameId
<1>3. Lobby!SeatedOnce
  <2>1. ASSUME NEW id \in DOMAIN games
        PROVE  Lobby!Cardinality(Lobby!Seated(games[id])) = Lobby!OccupiedSlotCount(games[id])
    <3>1. Cardinality(Lobby!Seated(games[id])) = Cardinality(Lobby!Occupied(games[id]))
      BY <1>1, SeatsCounted DEF GameRight
    <3> QED
      BY <3>1, LobbyCopies DEF Lobby!OccupiedSlotCount
  <2> QED
    BY <1>1, <2>1 DEF Lobby!SeatedOnce, GameRight
<1>4. Lobby!SessionsMatchSeats
  BY <1>1, LobbyCopies DEF Lobby!SessionsMatchSeats, GameRight, Joint, Lobby!OccupiedSlotCount
<1> QED
  BY <1>2, <1>3, <1>4

\* However players join and leave, start and finish games: nobody sits in two
\* slots, the host stays, a session has the players who were seated when it
\* began, each with a number of his own, and it outlives the pointers to it.
THEOREM LobbyAlwaysSound == Spec => LobbyIsSound
<1>1. Init => LobbyInv
  BY LobbyBegins
<1>2. LobbyInv /\ [Next]_Vars => LobbyInv'
  BY LobbyKeeps
<1>3. LobbyInv => Lobby!TypeOK /\ Lobby!SeatedOnce /\ Lobby!SessionsMatchSeats
  BY LobbyInvSuffices
<1>4. LobbyInv /\ [Next]_Vars =>
        [\A id \in handles :
           /\ id \in DOMAIN games'
           /\ games'[id].session = games[id].session
           /\ games'[id].slots = games[id].slots]_(Lobby!vars)
  BY LobbyKeeps DEF HandlesHold
<1> QED
  BY <1>1, <1>2, <1>3, <1>4, PTL
  DEF Spec, LobbyIsSound, Lobby!LobbyIsSound, Lobby!SessionsOutliveHandles

-----------------------------------------------------------------------------
(* The combat log. *)

\* The slot that was written k events ago.
Back(h, k) == IF k <= h THEN h - k ELSE h + Capacity - k

\* s is what happened last, k events of h.
Tells(s, h, k) ==
  /\ s \in Seq(Events) /\ Len(s) = k /\ k <= Len(h)
  /\ \A i \in 1 .. k : s[i] = h[Len(h) - k + i]

\* The slots that count tell the last events, going back from head.
LogInv ==
  /\ Log!TypeOK
  /\ count = Log!Smaller(Len(history), Capacity)
  /\ \A k \in 1 .. count : buffer[Back(head, k)] = history[Len(history) + 1 - k]

LEMMA LogConstants ==
  Capacity \in Nat \ {0} /\ MaxDisplay \in Nat /\ MaxScroll \in Nat /\ MaxHistory \in Nat
BY CombatLogAssumption DEF Log!CombatLogAssumption

LEMMA Smallers ==
  ASSUME NEW m \in Nat, NEW n \in Nat
  PROVE  /\ Log!Smaller(m, n) \in Nat /\ Log!Smaller(m, n) <= m /\ Log!Smaller(m, n) <= n
         /\ Log!Smaller(m, n) = m \/ Log!Smaller(m, n) = n
BY DEF Log!Smaller

\* Going back around the ring.
LEMMA Around ==
  ASSUME NEW h \in 0 .. Capacity - 1
  PROVE  /\ \A k \in 1 .. Capacity :
              (h + Capacity - k) % Capacity = Back(h, k) /\ Back(h, k) \in 0 .. Capacity - 1
         /\ (h + 1) % Capacity \in 0 .. Capacity - 1
         /\ Back((h + 1) % Capacity, 1) = h
         /\ \A k \in 1 .. Capacity - 1 :
              Back((h + 1) % Capacity, k + 1) = Back(h, k) /\ Back(h, k) # h
<1>1. Capacity \in Nat \ {0}
  BY LogConstants
<1>2. ASSUME NEW x \in 0 .. Capacity - 1
      PROVE  x % Capacity = x /\ (x + Capacity) % Capacity = x
  BY <1>1
<1>3. ASSUME NEW k \in 1 .. Capacity
      PROVE  (h + Capacity - k) % Capacity = Back(h, k) /\ Back(h, k) \in 0 .. Capacity - 1
  <2>1. CASE k <= h
    <3>1. h - k \in 0 .. Capacity - 1 /\ h + Capacity - k = (h - k) + Capacity
      BY <1>1, <2>1
    <3> QED
      BY <1>2, <2>1, <3>1 DEF Back
  <2>2. CASE ~(k <= h)
    <3>1. h + Capacity - k \in 0 .. Capacity - 1
      BY <1>1, <2>2
    <3> QED
      BY <1>2, <2>2, <3>1 DEF Back
  <2> QED
    BY <2>1, <2>2
<1>4. (h + 1) % Capacity = IF h + 1 = Capacity THEN 0 ELSE h + 1
  <2>1. CASE h + 1 = Capacity
    <3>1. 0 \in 0 .. Capacity - 1 /\ h + 1 = 0 + Capacity
      BY <1>1, <2>1
    <3>2. (0 + Capacity) % Capacity = 0
      BY <1>2, <3>1
    <3> QED
      BY <2>1, <3>1, <3>2
  <2>2. CASE h + 1 # Capacity
    <3>1. h + 1 \in 0 .. Capacity - 1
      BY <1>1, <2>2
    <3> QED
      BY <1>2, <2>2, <3>1
  <2> QED
    BY <2>1, <2>2
<1> DEFINE g == (h + 1) % Capacity
<1>5. g = IF h + 1 = Capacity THEN 0 ELSE h + 1
  BY <1>4
<1> HIDE DEF g
<1>6. g \in 0 .. Capacity - 1 /\ Back(g, 1) = h
  BY <1>1, <1>5 DEF Back
<1>7. ASSUME NEW k \in 1 .. Capacity - 1
      PROVE  Back(g, k + 1) = Back(h, k) /\ Back(h, k) # h
  BY <1>1, <1>5 DEF Back
<1> QED
  BY <1>3, <1>6, <1>7 DEF g

\* There is one such sequence.
LEMMA TellsOne ==
  ASSUME NEW s, NEW t, NEW h, NEW k, Tells(s, h, k), Tells(t, h, k)
  PROVE  s = t
<1>1. \A i \in 1 .. Len(s) : s[i] = t[i]
  BY DEF Tells
<1> QED
  BY <1>1, SeqEqual DEF Tells

\* Latest gives the end of a sequence.
LEMMA LatestTells ==
  ASSUME NEW h \in Seq(Events), NEW n \in Nat
  PROVE  Tells(Log!Abstract!Latest(h, n), h, Log!Smaller(n, Len(h)))
<1> DEFINE s == Log!Abstract!Latest(h, n)
           k == Log!Smaller(n, Len(h))
<1>1. Len(h) \in Nat /\ \A i \in 1 .. Len(h) : h[i] \in Events
  BY LenProperties, ElementOfSeq
<1>2. CASE n >= Len(h)
  <2>1. s = h /\ k = Len(h)
    BY <1>1, <1>2 DEF Log!Abstract!Latest, Log!Smaller
  <2>2. \A i \in 1 .. k : Len(h) - k + i = i
    BY <1>1, <2>1
  <2> QED
    BY <1>1, <2>1, <2>2 DEF Tells
<1>3. CASE n < Len(h)
  <2> DEFINE m == Len(h) - n + 1
  <2>1. s = SubSeq(h, m, Len(h)) /\ k = n
    BY <1>1, <1>3 DEF Log!Abstract!Latest, Log!Smaller
  <2>2. m \in Int /\ Len(h) \in Int /\ \A i \in m .. Len(h) : i \in 1 .. Len(h)
    BY <1>1, <1>3
  <2>3. \A i \in m .. Len(h) : h[i] \in Events
    BY <1>1, <2>2
  <2>4. /\ (IF m <= Len(h) THEN Len(h) - m + 1 ELSE 0) = n
        /\ \A i \in 1 .. n : i \in 1 .. Len(h) - m + 1 /\ m + i - 1 = Len(h) - n + i
    BY <1>1, <1>3
  <2> HIDE DEF s, k, m
  <2>5. /\ SubSeq(h, m, Len(h)) \in Seq(Events)
        /\ Len(SubSeq(h, m, Len(h))) = IF m <= Len(h) THEN Len(h) - m + 1 ELSE 0
        /\ \A i \in 1 .. Len(h) - m + 1 : SubSeq(h, m, Len(h))[i] = h[m + i - 1]
    BY <2>2, <2>3, SubSeqProperties
  <2>6. s \in Seq(Events) /\ Len(s) = n /\ \A i \in 1 .. n : s[i] = h[Len(h) - n + i]
    BY <2>1, <2>4, <2>5
  <2> QED
    BY <1>1, <1>3, <2>1, <2>6 DEF Tells, s, k
<1> QED
  BY <1>1, <1>2, <1>3

\* The end of an end.
LEMMA TellsLess ==
  ASSUME NEW h \in Seq(Events), NEW s, NEW k \in Nat, Tells(s, h, k), NEW n \in Nat
  PROVE  Tells(Log!Abstract!Latest(s, n), h, Log!Smaller(n, k))
<1> DEFINE t == Log!Abstract!Latest(s, n)
           m == Log!Smaller(n, k)
<1>1. Len(h) \in Nat /\ s \in Seq(Events) /\ Len(s) = k /\ k <= Len(h)
  BY LenProperties DEF Tells
<1>2. Tells(t, s, m)
  BY <1>1, LatestTells
<1>3. m \in Nat /\ m <= k
  BY Smallers
<1> HIDE DEF t, m
<1>4. ASSUME NEW i \in 1 .. m
      PROVE  t[i] = h[Len(h) - m + i]
  <2>1. t[i] = s[k - m + i]
    BY <1>1, <1>2 DEF Tells
  <2>2. k - m + i \in 1 .. k /\ Len(h) - k + (k - m + i) = Len(h) - m + i
    BY <1>1, <1>3
  <2>3. s[k - m + i] = h[Len(h) - k + (k - m + i)]
    BY <2>2 DEF Tells
  <2> QED
    BY <2>1, <2>2, <2>3
<1>5. t \in Seq(Events) /\ Len(t) = m /\ m <= Len(h)
  BY <1>1, <1>2, <1>3 DEF Tells
<1> QED
  BY <1>4, <1>5 DEF Tells, t, m

LEMMA LogBegins == Init => LogInv
<1> SUFFICES ASSUME Init
             PROVE  LogInv
  OBVIOUS
<1>1. /\ buffer = [i \in 0 .. Capacity - 1 |-> Blank] /\ head = 0 /\ count = 0 /\ scroll = 0
      /\ history = <<>>
  BY DEF Init, Log!Init, Log!Slots
<1>2. Len(history) = 0 /\ history \in Seq(Events)
  BY <1>1, EmptySeq
<1>3. Log!TypeOK
  BY <1>1, <1>2, LogConstants DEF Log!TypeOK, Log!Slots
<1> QED
  BY <1>1, <1>2, <1>3, LogConstants DEF LogInv, Log!Smaller

\* The event goes where the oldest was, and all others are one further back.
LEMMA AppendKeeps ==
  ASSUME LogInv, NEW e \in Events, Log!AppendEvent(e)
  PROVE  LogInv'
<1> DEFINE L == Len(history)
<1>1. /\ buffer' = [buffer EXCEPT ![head] = e]
      /\ head' = (head + 1) % Capacity
      /\ count' = IF count < Capacity THEN count + 1 ELSE count
      /\ history' = Append(history, e) /\ scroll' = scroll
  BY DEF Log!AppendEvent
<1>2. /\ buffer \in [0 .. Capacity - 1 -> Events \cup {Blank}] /\ head \in 0 .. Capacity - 1
      /\ count \in 0 .. Capacity /\ scroll \in 0 .. MaxScroll /\ history \in Seq(Events)
      /\ count = Log!Smaller(L, Capacity) /\ Capacity \in Nat \ {0} /\ L \in Nat
  BY LogConstants, LenProperties DEF LogInv, Log!TypeOK, Log!Slots
<1>3. /\ history' \in Seq(Events) /\ Len(history') = L + 1 /\ history'[L + 1] = e
      /\ \A i \in 1 .. L : history'[i] = history[i]
  BY <1>1, <1>2, AppendProperties
<1>4. count' = Log!Smaller(Len(history'), Capacity) /\ count' \in 0 .. Capacity
      /\ (\A i \in 1 .. count' : i # 1 => i - 1 \in 1 .. count /\ i - 1 \in 1 .. Capacity - 1)
      /\ count <= L
  BY <1>1, <1>2, <1>3 DEF Log!Smaller
<1>5. /\ head' \in 0 .. Capacity - 1 /\ Back(head', 1) = head
      /\ \A i \in 1 .. Capacity - 1 : Back(head', i + 1) = Back(head, i) /\ Back(head, i) # head
      /\ \A i \in 1 .. Capacity : Back(head, i) \in 0 .. Capacity - 1
  BY <1>1, <1>2, Around
<1>6. Log!TypeOK'
  BY <1>1, <1>2, <1>3, <1>4, <1>5 DEF Log!TypeOK, Log!Slots
<1>7. ASSUME NEW k \in 1 .. count'
      PROVE  buffer'[Back(head', k)] = history'[Len(history') + 1 - k]
  <2>1. CASE k = 1
    <3>1. buffer'[head] = e /\ Len(history') + 1 - k = L + 1
      BY <1>1, <1>2, <1>3, <2>1
    <3> QED
      BY <1>3, <1>5, <2>1, <3>1
  <2>2. CASE k # 1
    <3> DEFINE j == k - 1
    <3>1. j \in 1 .. count /\ j \in 1 .. Capacity - 1 /\ k = j + 1
      BY <1>4, <2>2
    <3>a. j \in 1 .. Capacity
      BY <1>2, <3>1
    <3> HIDE DEF j
    <3>2. Back(head', k) = Back(head, j) /\ Back(head, j) # head /\ Back(head, j) \in 0 .. Capacity - 1
      BY <1>5, <3>1, <3>a
    <3>3. buffer'[Back(head, j)] = buffer[Back(head, j)]
      BY <1>1, <1>2, <3>2
    <3>4. buffer[Back(head, j)] = history[L + 1 - j]
      BY <3>1 DEF LogInv
    <3>5. L + 1 - j \in 1 .. L /\ Len(history') + 1 - k = L + 1 - j
      BY <1>2, <1>3, <1>4, <3>1
    <3> QED
      BY <1>3, <3>2, <3>3, <3>4, <3>5
  <2> QED
    BY <2>1, <2>2
<1> QED
  BY <1>4, <1>6, <1>7 DEF LogInv

LEMMA LogKeeps == LogInv /\ [Next]_Vars => LogInv'
<1> SUFFICES ASSUME LogInv, [Next]_Vars
             PROVE  LogInv'
  OBVIOUS
<1>1. CASE Log!Clear
  <2>1. head' = 0 /\ count' = 0 /\ history' = <<>> /\ buffer' = buffer /\ scroll' = scroll
    BY <1>1 DEF Log!Clear
  <2>2. Len(history') = 0 /\ history' \in Seq(Events)
    BY <2>1, EmptySeq
  <2> QED
    BY <2>1, <2>2, LogConstants DEF LogInv, Log!TypeOK, Log!Slots, Log!Smaller
<1>2. CASE Log!ScrollUp \/ Log!ScrollDown
  <2>1. /\ UNCHANGED <<buffer, head, count, history>>
        /\ scroll' \in 0 .. MaxScroll
    BY <1>2, LogConstants DEF Log!ScrollUp, Log!ScrollDown, LogInv, Log!TypeOK, Log!ring
  <2> QED
    BY <2>1 DEF LogInv, Log!TypeOK
<1>3. CASE LogStep
  BY <1>1, <1>2, <1>3, AppendKeeps DEF LogStep, Log!Next
<1>4. CASE UNCHANGED logVars
  BY <1>4 DEF logVars, LogInv, Log!TypeOK
<1> QED
  BY <1>3, <1>4 DEF Next, Vars, LobbyStep, ClientStep, SaveStep, DatabaseStep, DiplomacyStep

\* The sequences that the queries read out of the ring: k events from k back.
LEMMA RingTells ==
  ASSUME LogInv, NEW k \in 0 .. count,
         NEW s, s = [i \in 1 .. k |-> buffer[(head + Capacity - k + (i - 1)) % Capacity]]
  PROVE  Tells(s, history, k)
<1> DEFINE L == Len(history)
<1>1. /\ head \in 0 .. Capacity - 1 /\ count \in 0 .. Capacity /\ Capacity \in Nat \ {0}
      /\ history \in Seq(Events) /\ L \in Nat /\ count <= L
      /\ \A i \in 1 .. L : history[i] \in Events
  BY LogConstants, LenProperties, ElementOfSeq DEF LogInv, Log!TypeOK, Log!Slots, Log!Smaller
<1>2. ASSUME NEW i \in 1 .. k
      PROVE  s[i] = history[L - k + i] /\ history[L - k + i] \in Events
  <2> DEFINE j == k + 1 - i
  <2>1. /\ j \in 1 .. count /\ j \in 1 .. Capacity
        /\ head + Capacity - k + (i - 1) = head + Capacity - j
        /\ L + 1 - j = L - k + i /\ L - k + i \in 1 .. L
    BY <1>1
  <2>2. (head + Capacity - j) % Capacity = Back(head, j)
    BY <1>1, <2>1, Around
  <2>3. buffer[Back(head, j)] = history[L + 1 - j]
    BY <2>1 DEF LogInv
  <2>4. s[i] = buffer[(head + Capacity - k + (i - 1)) % Capacity]
    OBVIOUS
  <2> HIDE DEF j
  <2> QED
    BY <1>1, <2>1, <2>2, <2>3, <2>4
<1>3. s \in Seq(Events) /\ Len(s) = k
  <2>b. k \in Nat
    BY <1>1
  <2>1. \A i \in 1 .. k : s[i] \in Events
    BY <1>2
  <2>a. s = [i \in 1 .. k |-> s[i]]
    OBVIOUS
  <2>2. s \in [1 .. k -> Events]
    BY <2>1, <2>a
  <2> QED
    BY <2>b, <2>2 DEF Seq
<1>4. k <= L
  BY <1>1
<1>5. \A i \in 1 .. k : s[i] = history[L - k + i]
  BY <1>2
<1> QED
  BY <1>3, <1>4, <1>5 DEF Tells

LEMMA RecentTells ==
  ASSUME LogInv, NEW n \in Nat
  PROVE  /\ Tells(Log!RecentEvents(n), history, Log!Smaller(n, count))
         /\ Log!RecentEvents(n) = Log!Abstract!Latest(Log!Abstract!Latest(history, Capacity), n)
<1> DEFINE k == Log!Smaller(n, count)
           lasting == Log!Abstract!Latest(history, Capacity)
<1>1. /\ count \in Nat /\ Capacity \in Nat /\ history \in Seq(Events) /\ Len(history) \in Nat
      /\ count = Log!Smaller(Len(history), Capacity)
  BY LogConstants, LenProperties DEF LogInv, Log!TypeOK
<1>2. k \in 0 .. count
  BY <1>1 DEF Log!Smaller
<1> HIDE DEF k
<1>3. Log!RecentEvents(n) = [i \in 1 .. k |-> buffer[(head + Capacity - k + (i - 1)) % Capacity]]
  BY DEF Log!RecentEvents, k
<1>4. Tells(Log!RecentEvents(n), history, k)
  BY <1>2, <1>3, RingTells
<1>5. Log!Smaller(Capacity, Len(history)) = count
  BY <1>1 DEF Log!Smaller
<1>6. Tells(lasting, history, count)
  BY <1>1, <1>5, LatestTells
<1> HIDE DEF lasting
<1>7. Tells(Log!Abstract!Latest(lasting, n), history, k)
  BY <1>1, <1>6, TellsLess DEF k
<1>8. Log!RecentEvents(n) = Log!Abstract!Latest(lasting, n)
  BY <1>4, <1>7, TellsOne
<1> QED
  BY <1>4, <1>8 DEF k, lasting

LEMMA AllKept == LogInv => Log!AllEvents = Log!Abstract!Latest(history, Capacity)
<1> SUFFICES ASSUME LogInv
             PROVE  Log!AllEvents = Log!Abstract!Latest(history, Capacity)
  OBVIOUS
<1>1. /\ count \in Nat /\ Capacity \in Nat /\ history \in Seq(Events) /\ Len(history) \in Nat
      /\ count = Log!Smaller(Len(history), Capacity)
  BY LogConstants, LenProperties DEF LogInv, Log!TypeOK
<1>2. Log!Smaller(count, count) = count /\ Log!Smaller(Capacity, Len(history)) = count
  BY <1>1 DEF Log!Smaller
<1>3. Tells(Log!AllEvents, history, count)
  BY <1>1, <1>2, RecentTells DEF Log!AllEvents
<1>4. Tells(Log!Abstract!Latest(history, Capacity), history, count)
  BY <1>1, <1>2, LatestTells
<1> QED
  BY <1>3, <1>4, TellsOne

\* What is read from the start of the ring is what is kept.
LEMMA HeldIsKept ==
  ASSUME LogInv
  PROVE  LET start == (head + Capacity - count) % Capacity
         IN  [i \in 1 .. count |-> buffer[(start + (i - 1)) % Capacity]] =
               Log!Abstract!Latest(history, Capacity)
<1> DEFINE start == (head + Capacity - count) % Capacity
           held == [i \in 1 .. count |-> buffer[(start + (i - 1)) % Capacity]]
           there == [i \in 1 .. count |-> buffer[(head + Capacity - count + (i - 1)) % Capacity]]
<1>1. head \in 0 .. Capacity - 1 /\ count \in 0 .. Capacity /\ Capacity \in Nat \ {0}
  BY LogConstants DEF LogInv, Log!TypeOK, Log!Slots
<1>2. ASSUME NEW i \in 1 .. count
      PROVE  (start + (i - 1)) % Capacity = (head + Capacity - count + (i - 1)) % Capacity
  <2>0. ASSUME NEW x \in 0 .. Capacity - 1
        PROVE  x % Capacity = x /\ (x + Capacity) % Capacity = x
    BY <1>1
  <2>1. start = IF head + Capacity - count < Capacity THEN head + Capacity - count ELSE head - count
    <3>2. CASE head + Capacity - count < Capacity
      <4>1. head + Capacity - count \in 0 .. Capacity - 1
        BY <1>1, <3>2
      <4> QED
        BY <2>0, <3>2, <4>1
    <3>3. CASE ~(head + Capacity - count < Capacity)
      <4>1. head - count \in 0 .. Capacity - 1 /\ head + Capacity - count = (head - count) + Capacity
        BY <1>1, <3>3
      <4> QED
        BY <2>0, <3>3, <4>1
    <3> QED
      BY <3>2, <3>3

  <2>3. CASE head + Capacity - count < Capacity
    BY <2>1, <2>3
  <2>4. CASE ~(head + Capacity - count < Capacity)
    <3>1. /\ head - count + (i - 1) \in 0 .. Capacity - 1
          /\ head + Capacity - count + (i - 1) = (head - count + (i - 1)) + Capacity
      BY <1>1, <2>4
    <3>2. start + (i - 1) = head - count + (i - 1)
      BY <2>1, <2>4
    <3> HIDE DEF start
    <3> QED
      BY <2>0, <3>1, <3>2
  <2> QED
    BY <2>3, <2>4
<1> HIDE DEF start
<1>3. held = there
  BY <1>2
<1>4. Log!Smaller(count, count) = count
  BY DEF Log!Smaller
<1>5. Log!AllEvents = there
  BY <1>4 DEF Log!AllEvents, Log!RecentEvents
<1>6. there = Log!Abstract!Latest(history, Capacity)
  BY <1>5, AllKept
<1> QED
  BY <1>3, <1>6 DEF start

LEMMA LogInvSuffices == LogInv => Log!TypeOK /\ Log!QueriesTellTheHistory
<1> SUFFICES ASSUME LogInv
             PROVE  Log!QueriesTellTheHistory
  BY DEF LogInv
<1> DEFINE lasting == Log!Abstract!Latest(history, Capacity)
           shown == Log!Smaller(count, MaxDisplay)
<1>1. count \in Nat /\ MaxDisplay \in Nat
  BY LogConstants DEF LogInv, Log!TypeOK
<1>2. \A n \in Nat : Log!RecentEvents(n) = Log!Abstract!Latest(lasting, n)
  BY RecentTells
<1>3. \A t : Log!EventsForTurn(t) = Log!EventsOf(lasting, t)
  BY HeldIsKept DEF Log!EventsForTurn
<1>4. ASSUME Log!ClampedScroll = 0
      PROVE  Log!Panel = Log!Abstract!Latest(lasting, MaxDisplay)
  <2>1. /\ shown \in Nat /\ shown + 0 = shown
        /\ Log!Smaller(shown, count) = shown /\ Log!Smaller(MaxDisplay, count) = shown
    BY <1>1 DEF Log!Smaller
  <2>2. Tells(Log!RecentEvents(shown), history, shown)
    BY <2>1, RecentTells
  <2>3. Tells(Log!RecentEvents(MaxDisplay), history, shown)
    BY <1>1, <2>1, RecentTells
  <2> DEFINE fetched == Log!RecentEvents(shown)
  <2>4. Len(fetched) = shown /\ DOMAIN fetched = 1 .. shown /\ fetched \in [1 .. shown -> Events]
    BY <2>1, <2>2, LenProperties DEF Tells
  <2>5. Log!Panel = [i \in 1 .. shown |-> fetched[Len(fetched) - shown + i]]
    BY <1>4, <2>1 DEF Log!Panel
  <2> HIDE DEF fetched, shown
  <2>6. [i \in 1 .. shown |-> fetched[Len(fetched) - shown + i]] = fetched
    <3>1. \A i \in 1 .. shown : Len(fetched) - shown + i = i
      BY <2>1, <2>4
    <3> QED
      BY <2>4, <3>1
  <2>7. fetched = Log!RecentEvents(MaxDisplay)
    BY <2>2, <2>3, TellsOne DEF fetched
  <2> QED
    BY <1>1, <1>2, <2>5, <2>6, <2>7
<1>5. \A n \in 0 .. Capacity + 1 : n \in Nat
  BY LogConstants
<1> QED
  BY <1>2, <1>3, <1>4, <1>5 DEF Log!QueriesTellTheHistory

\* The end of what is kept and an event more is the end of all.
LEMMA LatestOfLatest ==
  ASSUME NEW h \in Seq(Events), NEW e \in Events
  PROVE  Log!Abstract!Latest(Append(Log!Abstract!Latest(h, Capacity), e), Capacity) =
           Log!Abstract!Latest(Append(h, e), Capacity)
<1> DEFINE s == Log!Abstract!Latest(h, Capacity)
           k == Log!Smaller(Capacity, Len(h))
           L == Len(h)
<1>1. Capacity \in Nat \ {0} /\ L \in Nat
  BY LogConstants, LenProperties
<1>2. Tells(s, h, k) /\ s \in Seq(Events)
  BY <1>1, LatestTells DEF Tells
<1>3. k \in Nat /\ k <= L
  BY <1>1 DEF Log!Smaller
<1>4. /\ Append(h, e) \in Seq(Events) /\ Len(Append(h, e)) = L + 1 /\ Append(h, e)[L + 1] = e
      /\ \A i \in 1 .. L : Append(h, e)[i] = h[i]
  BY AppendProperties
<1> HIDE DEF s, k
<1>5. /\ Append(s, e) \in Seq(Events) /\ Len(Append(s, e)) = k + 1 /\ Append(s, e)[k + 1] = e
      /\ \A i \in 1 .. k : Append(s, e)[i] = s[i]
  BY <1>2, AppendProperties DEF Tells
<1>6. Tells(Append(s, e), Append(h, e), k + 1)
  <2> DEFINE se == Append(s, e)
             he == Append(h, e)
  <2>1. /\ se \in Seq(Events) /\ Len(se) = k + 1 /\ se[k + 1] = e /\ \A i \in 1 .. k : se[i] = s[i]
        /\ he \in Seq(Events) /\ Len(he) = L + 1 /\ he[L + 1] = e /\ \A i \in 1 .. L : he[i] = h[i]
    BY <1>4, <1>5
  <2> HIDE DEF se, he
  <2>2. ASSUME NEW i \in 1 .. k + 1
        PROVE  se[i] = he[L + 1 - (k + 1) + i]
    <3>1. CASE i = k + 1
      <4>1. L + 1 - (k + 1) + i = L + 1
        BY <1>1, <1>3, <3>1
      <4> QED
        BY <2>1, <3>1, <4>1
    <3>2. CASE i # k + 1
      <4>1. i \in 1 .. k /\ L + 1 - (k + 1) + i = L - k + i /\ L - k + i \in 1 .. L
        BY <1>1, <1>3, <3>2
      <4>2. s[i] = h[L - k + i]
        BY <1>2, <4>1 DEF Tells
      <4> QED
        BY <2>1, <4>1, <4>2
    <3> QED
      BY <3>1, <3>2
  <2>3. k + 1 <= L + 1
    BY <1>1, <1>3
  <2> QED
    BY <2>1, <2>2, <2>3 DEF Tells, se, he
<1>7. Tells(Log!Abstract!Latest(Append(s, e), Capacity), Append(h, e), Log!Smaller(Capacity, k + 1))
  <2> DEFINE se == Append(s, e)
             he == Append(h, e)
             m == k + 1
  <2>1. he \in Seq(Events) /\ m \in Nat /\ Tells(se, he, m) /\ Capacity \in Nat
    BY <1>1, <1>3, <1>4, <1>6
  <2> HIDE DEF se, he, m
  <2>2. Tells(Log!Abstract!Latest(se, Capacity), he, Log!Smaller(Capacity, m))
    BY <2>1, TellsLess
  <2> QED
    BY <2>2 DEF se, he, m
<1>8. Tells(Log!Abstract!Latest(Append(h, e), Capacity), Append(h, e), Log!Smaller(Capacity, L + 1))
  BY <1>1, <1>4, LatestTells
<1>9. Log!Smaller(Capacity, k + 1) = Log!Smaller(Capacity, L + 1)
  BY <1>1 DEF k, Log!Smaller
<1> QED
  BY <1>7, <1>8, <1>9, TellsOne DEF s

\* The empty ring is the empty log, and what happens to the ring happens to
\* the log: it records, is cleared, or stays as it is.
LEMMA LogInitRefines == Init => Log!Abstract!Init
<1> SUFFICES ASSUME Init
             PROVE  Log!AllEvents = <<>>
  BY DEF Log!Abstract!Init
<1>1. LogInv /\ history = <<>>
  BY LogBegins DEF Init, Log!Init
<1>2. Log!Abstract!Latest(<<>>, Capacity) = <<>>
  <2>1. Len(<<>>) = 0 /\ Capacity >= 0
    BY LogConstants
  <2> QED
    BY <2>1 DEF Log!Abstract!Latest
<1> QED
  BY <1>1, <1>2, AllKept

LEMMA LogStepRefines ==
  LogInv /\ LogInv' /\ [Next]_Vars => [Log!Abstract!Next]_(Log!AllEvents)
<1> SUFFICES ASSUME LogInv, LogInv', [Next]_Vars
             PROVE  Log!Abstract!Next \/ Log!AllEvents' = Log!AllEvents
  OBVIOUS
<1>1. /\ Log!AllEvents = Log!Abstract!Latest(history, Capacity)
      /\ Log!AllEvents' = Log!Abstract!Latest(history', Capacity)
  <2>1. LogInv' => (Log!AllEvents = Log!Abstract!Latest(history, Capacity))'
    BY AllKept, PTL
  <2>2. (Log!AllEvents = Log!Abstract!Latest(history, Capacity))' =>
          Log!AllEvents' = Log!Abstract!Latest(history', Capacity)
    BY DEF Log!Abstract!Latest
  <2> QED
    BY <2>1, <2>2, AllKept
<1>2. history \in Seq(Events)
  BY DEF LogInv, Log!TypeOK
<1>3. ASSUME NEW e \in Events, Log!AppendEvent(e)
      PROVE  Log!Abstract!Next
  <2>1. history' = Append(history, e)
    BY <1>3 DEF Log!AppendEvent
  <2>2. Log!AllEvents' = Log!Abstract!Latest(Append(Log!AllEvents, e), Capacity)
    BY <1>1, <1>2, <2>1, LatestOfLatest
  <2> QED
    BY <2>2 DEF Log!Abstract!Next, Log!Abstract!Record
<1>4. CASE Log!Clear
  <2>1. history' = <<>> /\ Log!Abstract!Latest(<<>>, Capacity) = <<>>
    BY <1>4, LogConstants DEF Log!Clear, Log!Abstract!Latest
  <2> QED
    BY <1>1, <2>1 DEF Log!Abstract!Next, Log!Abstract!Clear
<1>5. CASE Log!ScrollUp \/ Log!ScrollDown \/ UNCHANGED logVars
  <2>1. history' = history
    BY <1>5 DEF Log!ScrollUp, Log!ScrollDown, logVars
  <2> QED
    BY <1>1, <2>1
<1>6. CASE LogStep
  BY <1>3, <1>4, <1>5, <1>6 DEF LogStep, Log!Next
<1> QED
  BY <1>5, <1>6 DEF Next, Vars, LobbyStep, ClientStep, SaveStep, DatabaseStep, DiplomacyStep

\* However often the ring wraps and is cleared, its queries tell the latest
\* events in their order, and it is the bounded log that CombatLog.h promises.
THEOREM LogAlwaysTells == Spec => LogTellsTheHistory
<1>1. Init => LogInv /\ Log!Abstract!Init
  BY LogBegins, LogInitRefines
<1>2. LogInv /\ [Next]_Vars => LogInv'
  BY LogKeeps
<1>3. LogInv => Log!TypeOK /\ Log!QueriesTellTheHistory
  BY LogInvSuffices
<1>4. LogInv /\ LogInv' /\ [Next]_Vars => [Log!Abstract!Next]_(Log!AllEvents)
  BY LogStepRefines
<1> QED
  BY <1>1, <1>2, <1>3, <1>4, PTL
  DEF Spec, LogTellsTheHistory, Log!LogTellsTheHistory, Log!KeepsTheLatest, Log!Abstract!Spec

=============================================================================
