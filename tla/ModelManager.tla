---------------------------- MODULE ModelManager ----------------------------
(***************************************************************************)
(* The models of units and buildings (ModelManager): objects that own what *)
(* raylib has uploaded for them, from a file or as a placeholder, and that *)
(* are moved and destroyed.  Uploading needs an open window, as the class  *)
(* asks of its users.  Nothing else does: objects come and go before the   *)
(* window is opened and after it is closed, as main's does, which has its  *)
(* models when the window is closed and unloads them afterwards.  What     *)
(* raylib holds for a model it holds until UnloadModel, the window closed  *)
(* or not; whether UnloadModel does well without a window, and what a load *)
(* that fails leaves behind, is raylib's matter and is not modelled.       *)
(***************************************************************************)
EXTENDS Integers, FiniteSetsExt, Functions

CONSTANTS
  Managers,          \* the objects, alive or not
  Keys,
  MaxOpen            \* bound of the model: what can be uploaded at a time

ModelAssumption == MaxOpen \in Nat

VARIABLES
  models,            \* models_, per object that is alive
  uploaded,          \* what raylib holds, by handle: from a "file" or a "fallback"
  window,            \* the window: "before" it is opened, "open" or "closed"
  freedTwice         \* history: something was unloaded that was not there

vars == <<models, uploaded, window, freedTwice>>

Nothing == [k \in {} |-> 0]

Init ==
  /\ models = [m \in {} |-> Nothing]
  /\ uploaded = Nothing
  /\ window = "before"
  /\ freedTwice = FALSE

Alive == DOMAIN models

FreeHandles == 1 .. MaxOpen \ DOMAIN uploaded

With(f, k, v) == [x \in DOMAIN f \cup {k} |-> IF x = k THEN v ELSE f[x]]

-----------------------------------------------------------------------------
(* The window, which main opens once and closes once. *)

OpenWindow ==
  window = "before" /\ window' = "open" /\ UNCHANGED <<models, uploaded, freedTwice>>

\* However many models there are; nothing is unloaded.
CloseWindow ==
  window = "open" /\ window' = "closed" /\ UNCHANGED <<models, uploaded, freedTwice>>

-----------------------------------------------------------------------------
(* The operations. *)

\* What is cached stays as it is.
Upload(m, k, origin) ==
  IF k \in DOMAIN models[m] THEN UNCHANGED <<models, uploaded>>
  ELSE /\ FreeHandles # {}
       /\ uploaded' = With(uploaded, Min(FreeHandles), origin)
       /\ models' = [models EXCEPT ![m] = With(@, k, Min(FreeHandles))]

\* generateFallback; true in all cases.
generateFallback(m, k) == Upload(m, k, "fallback") /\ UNCHANGED <<window, freedTwice>>

\* With a file that can be read, or without.
loadModel(m, k) ==
  \E readable \in BOOLEAN :
    /\ Upload(m, k, IF readable THEN "file" ELSE "fallback")
    /\ UNCHANGED <<window, freedTwice>>

\* What unloadAll leaves of what is uploaded.
Without(m) == Restrict(uploaded, DOMAIN uploaded \ Range(models[m]))

\* UnloadModel for each; that one is there is for the caller to see to.
UnloadModels(m) ==
  /\ uploaded' = Without(m)
  /\ freedTwice' = (freedTwice \/ ~ (Range(models[m]) \subseteq DOMAIN uploaded))

unloadAll(m) ==
  /\ UnloadModels(m)
  /\ models' = [models EXCEPT ![m] = Nothing]
  /\ UNCHANGED window

Create(m) == models' = With(models, m, Nothing) /\ UNCHANGED <<uploaded, window, freedTwice>>

\* The destructor.
Destroy(m) ==
  /\ UnloadModels(m)
  /\ models' = Restrict(models, Alive \ {m})
  /\ UNCHANGED window

MoveNew(m, other) ==
  /\ models' = With([models EXCEPT ![other] = Nothing], m, models[other])
  /\ UNCHANGED <<uploaded, window, freedTwice>>

\* The move assignment: not to itself, and the target unloads first.
MoveAssign(m, other) ==
  /\ m # other
  /\ UnloadModels(m)
  /\ models' = [models EXCEPT ![m] = models[other], ![other] = Nothing]
  /\ UNCHANGED window

LoadOne(m) == \E k \in Keys : loadModel(m, k) \/ generateFallback(m, k)

Next ==
  \/ OpenWindow \/ CloseWindow
  \/ window = "open" /\ \E m \in Alive : LoadOne(m)
  \/ \E m \in Alive : unloadAll(m) \/ Destroy(m)
  \/ \E m \in Managers \ Alive : Create(m)
  \/ \E other \in Alive, m \in Managers :
       IF m \in Alive THEN MoveAssign(m, other) ELSE MoveNew(m, other)

Spec == Init /\ [][Next]_vars

-----------------------------------------------------------------------------
(* What is checked. *)

TypeOK ==
  /\ Alive \subseteq Managers
  /\ \A m \in Alive : DOMAIN models[m] \subseteq Keys /\ Range(models[m]) \subseteq 1 .. MaxOpen
  /\ DOMAIN uploaded \subseteq 1 .. MaxOpen /\ Range(uploaded) \subseteq {"file", "fallback"}
  /\ window \in {"before", "open", "closed"} /\ freedTwice \in BOOLEAN

\* What raylib holds is owned by one living object under one key, and what an
\* object owns is held: nothing leaks and nothing dangles, after the window was
\* closed as before.
EachIsOwnedOnce ==
  /\ DOMAIN uploaded = UNION {Range(models[m]) : m \in Alive}
  /\ \A m, n \in Alive : m # n => Range(models[m]) \cap Range(models[n]) = {}
  /\ \A m \in Alive : IsInjective(models[m])

\* Nothing is unloaded twice.  (It may be unloaded after the window was closed.)
UnloadedOnce == ~freedTwice

\* What is uploaded is owned, and given back once.
ModelsAreOwned == TypeOK /\ EachIsOwnedOnce /\ UnloadedOnce

=============================================================================
