--------------------------- MODULE FrontendProofs ---------------------------
(***************************************************************************)
(* Proofs about the parts of MCFrontend, for any numbers of objects, keys, *)
(* entities and particles, any durations of frames and any callback.       *)
(***************************************************************************)
EXTENDS MCFrontend, Sequences, FiniteSets, FiniteSetTheorems, WellFoundedInduction, TLAPS

-----------------------------------------------------------------------------
(* Numbers. *)

\* Every set of numbers that is not empty has a smallest element.
LEMMA Smallest ==
  ASSUME NEW T \in SUBSET Nat, T # {}
  PROVE  \E n \in T : \A m \in T : n <= m
<1> DEFINE R == {ss \in Nat \X Nat : ss[1] < ss[2]}
<1>1. IsWellFoundedOn(R, Nat)
  BY NatLessThanWellFounded DEF OpToRel
<1>2. \A m, n \in Nat : <<m, n>> \in R <=> m < n
  OBVIOUS
<1> HIDE DEF R
<1>3. PICK n \in T : \A m \in T : ~(<<m, n>> \in R)
  BY <1>1, WFMin
<1>4. \A m \in T : n \in Nat /\ m \in Nat /\ ~(m < n)
  BY <1>2, <1>3
<1>5. \A m \in T : n <= m
  BY <1>4
<1> QED
  BY <1>5

\* A set of numbers that is closed under successor, from 0 up to N.
LEMMA UpTo ==
  ASSUME NEW N \in Nat, NEW T, 0 \in T,
         \A n \in 0 .. N - 1 : n \in T => n + 1 \in T
  PROVE  \A n \in 0 .. N : n \in T
<1> DEFINE R == {ss \in Nat \X Nat : ss[1] < ss[2]}
           Bad == {n \in Nat : n <= N /\ n \notin T}
<1>1. IsWellFoundedOn(R, Nat)
  BY NatLessThanWellFounded DEF OpToRel
<1>2. \A m, n \in Nat : <<m, n>> \in R <=> m < n
  OBVIOUS
<1> HIDE DEF R
<1>3. ASSUME Bad # {}
      PROVE  FALSE
  <2>1. PICK n \in Bad : \A m \in Bad : ~(<<m, n>> \in R)
    <3>1. Bad \subseteq Nat
      OBVIOUS
    <3> HIDE DEF Bad
    <3> QED
      BY <1>1, <1>3, <3>1, WFMin
  <2>2. n \in Nat /\ n <= N /\ n \notin T /\ n # 0
    BY <2>1
  <2>3. n - 1 \in Nat /\ n - 1 < n /\ n - 1 \in 0 .. N - 1 /\ (n - 1) + 1 = n
    BY <2>2
  <2>4. n - 1 \in T
    <3>1. <<n - 1, n>> \in R
      BY <1>2, <2>2, <2>3
    <3>2. n - 1 \notin Bad
      BY <2>1, <3>1
    <3> QED
      BY <2>2, <2>3, <3>2
  <2> QED
    BY <2>2, <2>3, <2>4
<1> QED
  BY <1>3

-----------------------------------------------------------------------------
(* Models. *)

\* The handle that is uploaded next is a free one.
LEMMA ModelHandle ==
  ASSUME Models!FreeHandles # {}
  PROVE  Models!Min(Models!FreeHandles) \in 1 .. MaxUploaded \ DOMAIN uploaded
<1>1. Models!FreeHandles \in SUBSET Nat
  BY ModelAssumption DEF Models!FreeHandles, Models!ModelAssumption
<1>2. \E x \in Models!FreeHandles : \A y \in Models!FreeHandles : x <= y
  BY <1>1, Smallest
<1>3. Models!Min(Models!FreeHandles) \in Models!FreeHandles
  BY <1>2 DEF Models!Min
<1> QED
  BY <1>3 DEF Models!FreeHandles

\* Objects and what is uploaded, with every owner known.
Uploads(objects, open) ==
  /\ DOMAIN objects \subseteq ModelManagers
  /\ \A m \in DOMAIN objects : DOMAIN objects[m] \subseteq Keys
  /\ DOMAIN open \subseteq 1 .. MaxUploaded
  /\ \A h \in DOMAIN open : open[h] \in {"file", "fallback"}
  /\ \A m \in DOMAIN objects : \A k \in DOMAIN objects[m] : objects[m][k] \in DOMAIN open
  /\ \A h \in DOMAIN open : \E m \in DOMAIN objects : \E k \in DOMAIN objects[m] : objects[m][k] = h
  /\ \A m, n \in DOMAIN objects : \A k \in DOMAIN objects[m], l \in DOMAIN objects[n] :
       objects[m][k] = objects[n][l] => m = n /\ k = l

ModelInv ==
  Uploads(models, uploaded) /\ window \in {"before", "open", "closed"} /\ freedTwice = FALSE

LEMMA ModelInvSuffices == ModelInv => Models!ModelsAreOwned
<1> SUFFICES ASSUME ModelInv
             PROVE  Models!ModelsAreOwned
  OBVIOUS
<1> USE DEF Models!Alive, Models!Range
<1>1. Models!TypeOK
  <2>1. \A m \in DOMAIN models :
          DOMAIN models[m] \subseteq Keys /\ {models[m][k] : k \in DOMAIN models[m]} \subseteq 1 .. MaxUploaded
    BY DEF ModelInv, Uploads
  <2>2. {uploaded[h] : h \in DOMAIN uploaded} \subseteq {"file", "fallback"}
    BY DEF ModelInv, Uploads
  <2>3. window \in {"before", "open", "closed"} /\ freedTwice \in BOOLEAN
    BY Zenon DEF ModelInv
  <2> QED
    BY <2>1, <2>2, <2>3 DEF Models!TypeOK, ModelInv, Uploads
<1>2. DOMAIN uploaded = UNION {Models!Range(models[m]) : m \in DOMAIN models}
  <2>1. \A h \in DOMAIN uploaded : \E m \in DOMAIN models : h \in Models!Range(models[m])
    BY DEF ModelInv, Uploads
  <2>2. \A m \in DOMAIN models : Models!Range(models[m]) \subseteq DOMAIN uploaded
    BY DEF ModelInv, Uploads
  <2> QED
    BY <2>1, <2>2
<1>3. \A m, n \in DOMAIN models : m # n => Models!Range(models[m]) \cap Models!Range(models[n]) = {}
  BY DEF ModelInv, Uploads
<1>4. \A m \in DOMAIN models : Models!IsInjective(models[m])
  BY DEF ModelInv, Uploads, Models!IsInjective
<1>5. Models!EachIsOwnedOnce
  BY <1>2, <1>3, <1>4 DEF Models!EachIsOwnedOnce
<1> QED
  BY <1>1, <1>5 DEF Models!ModelsAreOwned, Models!UnloadedOnce, ModelInv

LEMMA ModelsBegin == Init => ModelInv
BY DEF Init, Models!Init, Models!Nothing, ModelInv, Uploads

\* What an upload adds is one handle, for one key of one object.
LEMMA UploadKeeps ==
  ASSUME ModelInv, NEW m \in DOMAIN models, NEW k \in Keys, NEW origin \in {"file", "fallback"},
         Models!Upload(m, k, origin), UNCHANGED <<window, freedTwice>>
  PROVE  ModelInv'
<1>1. CASE k \in DOMAIN models[m]
  BY <1>1 DEF Models!Upload, ModelInv, Uploads
<1>2. CASE k \notin DOMAIN models[m]
  <2> DEFINE new == Models!Min(Models!FreeHandles)
  <2>1. /\ new \in 1 .. MaxUploaded /\ new \notin DOMAIN uploaded
    BY <1>2, ModelHandle DEF Models!Upload
  <2>2. /\ uploaded' = Models!With(uploaded, new, origin)
        /\ models' = [models EXCEPT ![m] = Models!With(models[m], k, new)]
    BY <1>2 DEF Models!Upload
  <2> HIDE DEF new
  <2>3. /\ DOMAIN uploaded' = DOMAIN uploaded \cup {new}
        /\ \A h \in DOMAIN uploaded : uploaded'[h] = uploaded[h]
        /\ uploaded'[new] = origin
    BY <2>1, <2>2 DEF Models!With
  <2>4. /\ DOMAIN models' = DOMAIN models
        /\ \A n \in DOMAIN models : n # m => models'[n] = models[n]
        /\ DOMAIN models'[m] = DOMAIN models[m] \cup {k}
        /\ \A l \in DOMAIN models[m] : models'[m][l] = models[m][l]
        /\ models'[m][k] = new
    BY <1>2, <2>2 DEF Models!With
  <2> QED
    BY <2>1, <2>3, <2>4 DEF ModelInv, Uploads
<1> QED
  BY <1>1, <1>2

\* What an object owns is there when it is unloaded, and goes.
LEMMA Unloading ==
  ASSUME ModelInv, NEW m \in DOMAIN models, Models!UnloadModels(m)
  PROVE  /\ DOMAIN uploaded' \subseteq DOMAIN uploaded
         /\ \A h \in DOMAIN uploaded : h \in DOMAIN uploaded' <=> \A k \in DOMAIN models[m] : models[m][k] # h
         /\ \A h \in DOMAIN uploaded' : uploaded'[h] = uploaded[h]
         /\ freedTwice' = FALSE
<1>1. Models!Range(models[m]) \subseteq DOMAIN uploaded
  BY DEF ModelInv, Uploads, Models!Range
<1>2. freedTwice' = FALSE
  BY <1>1 DEF ModelInv, Models!UnloadModels
<1>3. uploaded' = [h \in DOMAIN uploaded \ Models!Range(models[m]) |-> uploaded[h]]
  BY DEF Models!UnloadModels, Models!Without, Models!Restrict
<1> QED
  BY <1>2, <1>3 DEF Models!Range

LEMMA ModelUseKeeps ==
  ASSUME ModelInv, NEW m \in Models!Alive,
         Models!LoadOne(m) \/ Models!unloadAll(m) \/ Models!Destroy(m)
  PROVE  ModelInv'
<1>0. m \in DOMAIN models
  BY DEF Models!Alive
<1>1. ASSUME NEW k \in Keys, Models!loadModel(m, k) \/ Models!generateFallback(m, k)
      PROVE  ModelInv'
  <2>1. PICK origin \in {"file", "fallback"} :
          Models!Upload(m, k, origin) /\ UNCHANGED <<window, freedTwice>>
    BY <1>1 DEF Models!loadModel, Models!generateFallback
  <2> QED
    BY <1>0, <2>1, UploadKeeps
<1>2. ASSUME Models!unloadAll(m)
      PROVE  ModelInv'
  <2>1. Models!UnloadModels(m) /\ models' = [models EXCEPT ![m] = Models!Nothing] /\ window' = window
    BY <1>2 DEF Models!unloadAll
  <2>2. /\ DOMAIN models' = DOMAIN models
        /\ \A n \in DOMAIN models : n # m => models'[n] = models[n]
        /\ DOMAIN models'[m] = {}
    BY <1>0, <2>1 DEF Models!Nothing
  <2>3. /\ DOMAIN uploaded' \subseteq DOMAIN uploaded
        /\ \A h \in DOMAIN uploaded : h \in DOMAIN uploaded' <=> \A k \in DOMAIN models[m] : models[m][k] # h
        /\ \A h \in DOMAIN uploaded' : uploaded'[h] = uploaded[h]
        /\ freedTwice' = FALSE
    BY <1>0, <2>1, Unloading
  <2>4. /\ DOMAIN models' \subseteq ModelManagers
        /\ \A n \in DOMAIN models' : DOMAIN models'[n] \subseteq Keys
        /\ DOMAIN uploaded' \subseteq 1 .. MaxUploaded
        /\ \A h \in DOMAIN uploaded' : uploaded'[h] \in {"file", "fallback"}
    BY <1>0, <2>1, <2>2, <2>3 DEF ModelInv, Uploads
  <2>5. \A n \in DOMAIN models' : \A k \in DOMAIN models'[n] : models'[n][k] \in DOMAIN uploaded'
    BY <1>0, <2>1, <2>2, <2>3 DEF ModelInv, Uploads
  <2>6. ASSUME NEW h \in DOMAIN uploaded'
        PROVE  \E n \in DOMAIN models' : \E k \in DOMAIN models'[n] : models'[n][k] = h
    <3>1. PICK n \in DOMAIN models : \E k \in DOMAIN models[n] : models[n][k] = h
      BY <1>0, <2>1, <2>2, <2>3 DEF ModelInv, Uploads
    <3> QED
      BY <1>0, <2>1, <2>2, <2>3, <3>1
  <2>7. \A n, o \in DOMAIN models' : \A k \in DOMAIN models'[n], l \in DOMAIN models'[o] :
          models'[n][k] = models'[o][l] => n = o /\ k = l
    BY <1>0, <2>1, <2>2, <2>3 DEF ModelInv, Uploads
  <2> QED
    BY <1>0, <2>1, <2>2, <2>3, <2>4, <2>5, <2>6, <2>7 DEF ModelInv, Uploads
<1>3. ASSUME Models!Destroy(m)
      PROVE  ModelInv'
  <2>1. Models!UnloadModels(m) /\ models' = [n \in DOMAIN models \ {m} |-> models[n]] /\ window' = window
    BY <1>3 DEF Models!Destroy, Models!Restrict, Models!Alive
  <2>2. DOMAIN models' = DOMAIN models \ {m} /\ \A n \in DOMAIN models' : models'[n] = models[n]
    BY <2>1
  <2>3. /\ DOMAIN uploaded' \subseteq DOMAIN uploaded
        /\ \A h \in DOMAIN uploaded : h \in DOMAIN uploaded' <=> \A k \in DOMAIN models[m] : models[m][k] # h
        /\ \A h \in DOMAIN uploaded' : uploaded'[h] = uploaded[h]
        /\ freedTwice' = FALSE
    BY <1>0, <2>1, Unloading
  <2>4. /\ DOMAIN models' \subseteq ModelManagers
        /\ \A n \in DOMAIN models' : DOMAIN models'[n] \subseteq Keys
        /\ DOMAIN uploaded' \subseteq 1 .. MaxUploaded
        /\ \A h \in DOMAIN uploaded' : uploaded'[h] \in {"file", "fallback"}
    BY <1>0, <2>1, <2>2, <2>3 DEF ModelInv, Uploads
  <2>5. \A n \in DOMAIN models' : \A k \in DOMAIN models'[n] : models'[n][k] \in DOMAIN uploaded'
    BY <1>0, <2>1, <2>2, <2>3 DEF ModelInv, Uploads
  <2>6. ASSUME NEW h \in DOMAIN uploaded'
        PROVE  \E n \in DOMAIN models' : \E k \in DOMAIN models'[n] : models'[n][k] = h
    <3>1. PICK n \in DOMAIN models : \E k \in DOMAIN models[n] : models[n][k] = h
      BY <1>0, <2>1, <2>2, <2>3 DEF ModelInv, Uploads
    <3> QED
      BY <1>0, <2>1, <2>2, <2>3, <3>1
  <2>7. \A n, o \in DOMAIN models' : \A k \in DOMAIN models'[n], l \in DOMAIN models'[o] :
          models'[n][k] = models'[o][l] => n = o /\ k = l
    BY <1>0, <2>1, <2>2, <2>3 DEF ModelInv, Uploads
  <2> QED
    BY <1>0, <2>1, <2>2, <2>3, <2>4, <2>5, <2>6, <2>7 DEF ModelInv, Uploads
<1> QED
  BY <1>1, <1>2, <1>3 DEF Models!LoadOne

LEMMA ModelMoveKeeps ==
  ASSUME ModelInv, NEW other \in Models!Alive, NEW m \in ModelManagers,
         IF m \in Models!Alive THEN Models!MoveAssign(m, other) ELSE Models!MoveNew(m, other)
  PROVE  ModelInv'
<1> USE DEF Models!Alive
<1>1. CASE m \in Models!Alive
  <2>1. /\ m # other /\ Models!UnloadModels(m) /\ window' = window
        /\ models' = [models EXCEPT ![m] = models[other], ![other] = Models!Nothing]
    BY <1>1 DEF Models!MoveAssign
  <2>2. /\ DOMAIN models' = DOMAIN models
        /\ \A n \in DOMAIN models : n \notin {m, other} => models'[n] = models[n]
        /\ models'[m] = models[other] /\ DOMAIN models'[other] = {}
    BY <1>1, <2>1 DEF Models!Nothing
  <2>3. /\ DOMAIN uploaded' \subseteq DOMAIN uploaded
        /\ \A h \in DOMAIN uploaded : h \in DOMAIN uploaded' <=> \A k \in DOMAIN models[m] : models[m][k] # h
        /\ \A h \in DOMAIN uploaded' : uploaded'[h] = uploaded[h]
        /\ freedTwice' = FALSE
    BY <1>1, <2>1, Unloading
  <2>4. /\ DOMAIN models' \subseteq ModelManagers
        /\ \A n \in DOMAIN models' : DOMAIN models'[n] \subseteq Keys
        /\ DOMAIN uploaded' \subseteq 1 .. MaxUploaded
        /\ \A h \in DOMAIN uploaded' : uploaded'[h] \in {"file", "fallback"}
    BY <1>1, <2>1, <2>2, <2>3 DEF ModelInv, Uploads
  <2>5. \A n \in DOMAIN models' : \A k \in DOMAIN models'[n] : models'[n][k] \in DOMAIN uploaded'
    BY <1>1, <2>1, <2>2, <2>3 DEF ModelInv, Uploads
  <2>6. ASSUME NEW h \in DOMAIN uploaded'
        PROVE  \E n \in DOMAIN models' : \E k \in DOMAIN models'[n] : models'[n][k] = h
    <3>1. PICK n \in DOMAIN models : \E k \in DOMAIN models[n] : models[n][k] = h
      BY <1>1, <2>1, <2>2, <2>3 DEF ModelInv, Uploads
    <3>2. CASE n = other
      BY <1>1, <2>1, <2>2, <2>3, <3>1, <3>2
    <3>3. CASE n # other
      BY <1>1, <2>1, <2>2, <2>3, <3>1, <3>3
    <3> QED
      BY <3>2, <3>3
  <2>7. \A n, o \in DOMAIN models' : \A k \in DOMAIN models'[n], l \in DOMAIN models'[o] :
          models'[n][k] = models'[o][l] => n = o /\ k = l
    BY <1>1, <2>1, <2>2, <2>3 DEF ModelInv, Uploads
  <2> QED
    BY <1>1, <2>1, <2>2, <2>3, <2>4, <2>5, <2>6, <2>7 DEF ModelInv, Uploads
<1>2. CASE m \notin Models!Alive
  <2>1. /\ models' = Models!With([models EXCEPT ![other] = Models!Nothing], m, models[other])
        /\ uploaded' = uploaded /\ window' = window /\ freedTwice' = freedTwice
    BY <1>2 DEF Models!MoveNew
  <2>2. /\ DOMAIN models' = DOMAIN models \cup {m}
        /\ \A n \in DOMAIN models : n # other => models'[n] = models[n]
        /\ models'[m] = models[other] /\ DOMAIN models'[other] = {}
        /\ m # other /\ uploaded' = uploaded /\ window' = window /\ freedTwice' = freedTwice
    BY <1>2, <2>1 DEF Models!Nothing, Models!With
  <2>4. /\ DOMAIN models' \subseteq ModelManagers
        /\ \A n \in DOMAIN models' : DOMAIN models'[n] \subseteq Keys
        /\ DOMAIN uploaded' \subseteq 1 .. MaxUploaded
        /\ \A h \in DOMAIN uploaded' : uploaded'[h] \in {"file", "fallback"}
    BY <1>2, <2>2 DEF ModelInv, Uploads
  <2>5. \A n \in DOMAIN models' : \A k \in DOMAIN models'[n] : models'[n][k] \in DOMAIN uploaded'
    BY <1>2, <2>2 DEF ModelInv, Uploads
  <2>6. ASSUME NEW h \in DOMAIN uploaded'
        PROVE  \E n \in DOMAIN models' : \E k \in DOMAIN models'[n] : models'[n][k] = h
    <3>1. PICK n \in DOMAIN models : \E k \in DOMAIN models[n] : models[n][k] = h
      BY <1>2, <2>2 DEF ModelInv, Uploads
    <3>2. CASE n = other
      BY <1>2, <2>2, <3>1, <3>2
    <3>3. CASE n # other
      BY <1>2, <2>2, <3>1, <3>3
    <3> QED
      BY <3>2, <3>3
  <2>7. \A n, o \in DOMAIN models' : \A k \in DOMAIN models'[n], l \in DOMAIN models'[o] :
          models'[n][k] = models'[o][l] => n = o /\ k = l
    BY <1>2, <2>2 DEF ModelInv, Uploads
  <2> QED
    BY <1>2, <2>2, <2>4, <2>5, <2>6, <2>7 DEF ModelInv, Uploads
<1> QED
  BY <1>1, <1>2

LEMMA ModelsGoOn ==
  ASSUME ModelInv, Models!Next
  PROVE  ModelInv'
<1>1. ASSUME Models!OpenWindow
      PROVE  ModelInv'
  BY <1>1 DEF Models!OpenWindow, ModelInv, Uploads
<1>2. ASSUME Models!CloseWindow
      PROVE  ModelInv'
  BY <1>2 DEF Models!CloseWindow, ModelInv, Uploads
<1>3. ASSUME NEW m \in Models!Alive,
             Models!LoadOne(m) \/ Models!unloadAll(m) \/ Models!Destroy(m)
      PROVE  ModelInv'
  BY <1>3, ModelUseKeeps
<1>4. ASSUME NEW m \in ModelManagers \ Models!Alive, Models!Create(m)
      PROVE  ModelInv'
  <2>1. /\ DOMAIN models' = DOMAIN models \cup {m}
        /\ \A n \in DOMAIN models : models'[n] = models[n]
        /\ DOMAIN models'[m] = {}
        /\ UNCHANGED <<uploaded, window, freedTwice>>
    BY <1>4 DEF Models!Create, Models!With, Models!Nothing, Models!Alive
  <2> QED
    BY <2>1 DEF ModelInv, Uploads
<1>5. ASSUME NEW other \in Models!Alive, NEW m \in ModelManagers,
             IF m \in Models!Alive THEN Models!MoveAssign(m, other) ELSE Models!MoveNew(m, other)
      PROVE  ModelInv'
  BY <1>5, ModelMoveKeeps
<1> QED
  BY <1>1, <1>2, <1>3, <1>4, <1>5 DEF Models!Next

-----------------------------------------------------------------------------
(* Sounds and music. *)

LEMMA AudioConstants ==
  /\ Levels \subseteq Int /\ MaxVolume \in Nat /\ DefaultMusicVolume \in 0 .. MaxVolume
  /\ MaxOpen \in Nat
BY Zenon, AudioAssumption DEF Audio!AudioAssumption

\* The handle that is opened next is a free one.
LEMMA AudioHandle ==
  ASSUME Audio!FreeHandles # {}
  PROVE  Audio!Min(Audio!FreeHandles) \in 1 .. MaxOpen \ DOMAIN device
<1>1. Audio!FreeHandles \in SUBSET Nat
  BY AudioConstants DEF Audio!FreeHandles
<1>2. \E x \in Audio!FreeHandles : \A y \in Audio!FreeHandles : x <= y
  BY <1>1, Smallest
<1>3. Audio!Min(Audio!FreeHandles) \in Audio!FreeHandles
  BY <1>2 DEF Audio!Min
<1> QED
  BY <1>3 DEF Audio!FreeHandles

\* Tables from keys to handles.
Tables(K) == UNION {[X -> 1 .. MaxOpen] : X \in SUBSET K}

AudioObject ==
  [alive : BOOLEAN, sounds : Tables(SoundKeys), musicTracks : Tables(MusicKeys),
   currentMusicKey : MusicKeys \cup {""}, musicState : {"Stopped", "Playing", "Paused"},
   sfxVolume : 0 .. MaxVolume, musicVolume : 0 .. MaxVolume]

Status == {"stopped", "playing", "paused"}

Track == [kind : {"sound", "music"}, status : Status, volume : 0 .. MaxVolume]

\* What the device has of the object a is what a says of it.
Agrees(a, d) ==
  /\ a \in AudioObject
  /\ \A k \in DOMAIN a.sounds : a.sounds[k] \in DOMAIN d /\ d[a.sounds[k]].status = "stopped"
  /\ \A k \in DOMAIN a.musicTracks :
       /\ a.musicTracks[k] \in DOMAIN d
       /\ d[a.musicTracks[k]].status = "playing" <=> a.musicState = "Playing" /\ a.currentMusicKey = k
  /\ \A k, l \in DOMAIN a.sounds : a.sounds[k] = a.sounds[l] => k = l
  /\ \A k, l \in DOMAIN a.musicTracks : a.musicTracks[k] = a.musicTracks[l] => k = l
  /\ \A k \in DOMAIN a.sounds, l \in DOMAIN a.musicTracks : a.sounds[k] # a.musicTracks[l]
  /\ a.musicState # "Stopped" =>
       /\ a.currentMusicKey \in DOMAIN a.musicTracks
       /\ d[a.musicTracks[a.currentMusicKey]].volume = a.musicVolume

HeldBy(a, h) ==
  \/ \E k \in DOMAIN a.sounds : a.sounds[k] = h
  \/ \E k \in DOMAIN a.musicTracks : a.musicTracks[k] = h

\* Every handle that is open is held by one object.
AudioWorks(objects, d) ==
  /\ objects \in [AudioManagers -> AudioObject]
  /\ DOMAIN d \subseteq 1 .. MaxOpen /\ \A h \in DOMAIN d : d[h] \in Track
  /\ \A m \in AudioManagers : Agrees(objects[m], d)
  /\ \A m \in AudioManagers : objects[m].alive \/ objects[m] = Audio!NoObject
  /\ \A m, n \in AudioManagers, h \in DOMAIN d :
       HeldBy(objects[m], h) /\ HeldBy(objects[n], h) => m = n
  /\ \A h \in DOMAIN d : \E m \in AudioManagers : HeldBy(objects[m], h)

AudioInv == AudioWorks(manager, device)

LEMMA TablesAre ==
  ASSUME NEW K, NEW f \in Tables(K)
  PROVE  /\ DOMAIN f \subseteq K /\ f \in [DOMAIN f -> 1 .. MaxOpen]
         /\ \A k \in DOMAIN f : f[k] \in 1 .. MaxOpen
BY DEF Tables

LEMMA ObjectsAre ==
  ASSUME NEW a \in AudioObject
  PROVE  /\ DOMAIN a.sounds \subseteq SoundKeys /\ DOMAIN a.musicTracks \subseteq MusicKeys
         /\ a.sounds \in [DOMAIN a.sounds -> 1 .. MaxOpen]
         /\ a.musicTracks \in [DOMAIN a.musicTracks -> 1 .. MaxOpen]
<1>1. a.sounds \in Tables(SoundKeys) /\ a.musicTracks \in Tables(MusicKeys)
  BY DEF AudioObject
<1> QED
  BY <1>1, TablesAre

LEMMA HeldIsOwned ==
  ASSUME NEW a, NEW h
  PROVE  HeldBy(a, h) <=> h \in Audio!Owned(a)
BY DEF HeldBy, Audio!Owned, Audio!Range

\* A new object, and what is not one.
LEMMA FreshObjects ==
  ASSUME NEW d
  PROVE  /\ Agrees(Audio!NoObject, d) /\ Agrees(Audio!Fresh, d) /\ Audio!Fresh.alive
         /\ \A h : ~HeldBy(Audio!NoObject, h) /\ ~HeldBy(Audio!Fresh, h)
<1>1. Audio!Nothing \in Tables(SoundKeys) /\ Audio!Nothing \in Tables(MusicKeys)
  <2>1. Audio!Nothing \in [{} -> 1 .. MaxOpen]
    BY DEF Audio!Nothing
  <2> QED
    BY <2>1 DEF Tables
<1>2. DOMAIN Audio!Nothing = {}
  BY DEF Audio!Nothing
<1>3. Audio!NoObject \in AudioObject /\ Audio!Fresh \in AudioObject
  <2>1. MaxVolume \in 0 .. MaxVolume /\ DefaultMusicVolume \in 0 .. MaxVolume
    BY AudioConstants
  <2>2. Audio!NoObject \in AudioObject
    BY <1>1, <2>1 DEF Audio!NoObject, AudioObject
  <2> QED
    BY <2>2 DEF Audio!Fresh, AudioObject
<1> QED
  BY <1>2, <1>3 DEF Audio!NoObject, Audio!Fresh, Agrees, HeldBy

LEMMA AudioInvSuffices == AudioInv => Audio!SoundsAreOwned
<1> SUFFICES ASSUME AudioInv
             PROVE  Audio!SoundsAreOwned
  OBVIOUS
<1>1. ASSUME NEW m \in AudioManagers
      PROVE  /\ manager[m] \in AudioObject /\ Agrees(manager[m], device)
             /\ manager[m].alive \/ manager[m] = Audio!NoObject
  BY DEF AudioInv, AudioWorks
<1>2. Audio!TypeOK
  <2>1. \A m \in AudioManagers :
          DOMAIN manager[m].sounds \subseteq SoundKeys /\ DOMAIN manager[m].musicTracks \subseteq MusicKeys
    BY <1>1, ObjectsAre
  <2>2. \A m \in AudioManagers :
          /\ manager[m].musicState \in {"Stopped", "Playing", "Paused"}
          /\ manager[m].currentMusicKey \in MusicKeys \cup {""}
          /\ manager[m].sfxVolume \in 0 .. MaxVolume /\ manager[m].musicVolume \in 0 .. MaxVolume
    BY <1>1 DEF AudioObject
  <2>3. DOMAIN device \subseteq 1 .. MaxOpen /\ \A h \in DOMAIN device : device[h] \in Track
    BY DEF AudioInv, AudioWorks
  <2> QED
    BY <2>1, <2>2, <2>3 DEF Audio!TypeOK, Track, Status
<1>3. \A m \in AudioManagers, h \in DOMAIN device : HeldBy(manager[m], h) => manager[m].alive
  BY <1>1, FreshObjects
<1>4. Audio!EachIsOwnedOnce
  <2>1. \A h \in DOMAIN device : \E m \in Audio!Alive : h \in Audio!Owned(manager[m])
    BY <1>3, HeldIsOwned DEF AudioInv, AudioWorks, Audio!Alive
  <2>2. \A m \in AudioManagers : Audio!Owned(manager[m]) \subseteq DOMAIN device
    BY <1>1 DEF Agrees, Audio!Owned, Audio!Range
  <2>3. DOMAIN device = UNION {Audio!Owned(manager[m]) : m \in Audio!Alive}
    BY <2>1, <2>2 DEF Audio!Alive
  <2>4. \A m, n \in AudioManagers : m # n => Audio!Owned(manager[m]) \cap Audio!Owned(manager[n]) = {}
    BY <2>2, HeldIsOwned DEF AudioInv, AudioWorks
  <2>5. \A m \in AudioManagers :
          /\ Audio!IsInjective(manager[m].sounds) /\ Audio!IsInjective(manager[m].musicTracks)
          /\ Audio!Range(manager[m].sounds) \cap Audio!Range(manager[m].musicTracks) = {}
    BY <1>1 DEF Agrees, Audio!IsInjective, Audio!Range
  <2> QED
    BY <2>3, <2>4, <2>5 DEF Audio!EachIsOwnedOnce
<1>5. Audio!HeardIsCurrent
  <2>1. ASSUME NEW h \in DOMAIN device, device[h].status = "playing"
        PROVE  \E m \in Audio!Alive : /\ manager[m].musicState = "Playing"
                                      /\ Audio!HasCurrent(manager[m]) /\ Audio!CurrentTrack(manager[m]) = h
    <3>1. PICK m \in AudioManagers : HeldBy(manager[m], h)
      BY DEF AudioInv, AudioWorks
    <3> QED
      BY <1>1, <1>3, <2>1, <3>1 DEF HeldBy, Agrees, Audio!Alive, Audio!HasCurrent, Audio!CurrentTrack
  <2>2. ASSUME NEW h \in DOMAIN device, NEW m \in Audio!Alive, manager[m].musicState = "Playing",
               Audio!HasCurrent(manager[m]), Audio!CurrentTrack(manager[m]) = h
        PROVE  device[h].status = "playing"
    BY <1>1, <2>2 DEF Agrees, Audio!Alive, Audio!HasCurrent, Audio!CurrentTrack
  <2> QED
    BY <2>1, <2>2 DEF Audio!HeardIsCurrent
<1>6. Audio!CurrentIsLoaded /\ Audio!VolumeIsHeard
  BY <1>1 DEF Agrees, Audio!CurrentIsLoaded, Audio!VolumeIsHeard, Audio!Alive, Audio!HasCurrent,
              Audio!CurrentTrack
<1> QED
  BY <1>2, <1>4, <1>5, <1>6 DEF Audio!SoundsAreOwned

LEMMA AudioBegins == Init => AudioInv
<1> SUFFICES ASSUME Init
             PROVE  AudioInv
  OBVIOUS
<1>1. manager = [m \in AudioManagers |-> Audio!NoObject] /\ DOMAIN device = {}
  BY DEF Init, Audio!Init, Audio!Nothing
<1>2. Audio!NoObject \in AudioObject
  BY FreshObjects DEF Agrees
<1> QED
  BY <1>1, <1>2, FreshObjects DEF AudioInv, AudioWorks

\* An object does not mind what happens to handles it does not hold.
LEMMA OthersRest ==
  ASSUME NEW a, NEW d, NEW e, Agrees(a, d), \A h \in DOMAIN d : HeldBy(a, h) => h \in DOMAIN e /\ e[h] = d[h]
  PROVE  Agrees(a, e)
<1>1. \A k \in DOMAIN a.sounds : LET h == a.sounds[k] IN h \in DOMAIN e /\ e[h] = d[h]
  BY DEF Agrees, HeldBy
<1>2. \A k \in DOMAIN a.musicTracks : LET h == a.musicTracks[k] IN h \in DOMAIN e /\ e[h] = d[h]
  BY DEF Agrees, HeldBy
<1> QED
  BY <1>1, <1>2 DEF Agrees

\* An object changes, with the handles that it held or holds.
LEMMA OneChanges ==
  ASSUME NEW objects, NEW d, NEW e, NEW m \in AudioManagers, NEW a, AudioWorks(objects, d),
         Agrees(a, e), a.alive \/ a = Audio!NoObject,
         DOMAIN e \subseteq 1 .. MaxOpen, \A h \in DOMAIN e : e[h] \in Track,
         \A h \in DOMAIN d : ~HeldBy(objects[m], h) => h \in DOMAIN e /\ e[h] = d[h] /\ ~HeldBy(a, h),
         \A h \in DOMAIN e : HeldBy(a, h) \/ (h \in DOMAIN d /\ ~HeldBy(objects[m], h))
  PROVE  AudioWorks([objects EXCEPT ![m] = a], e)
<1> DEFINE now == [objects EXCEPT ![m] = a]
<1>1. /\ now[m] = a /\ \A n \in AudioManagers : n # m => now[n] = objects[n]
      /\ now \in [AudioManagers -> AudioObject]
  BY DEF AudioWorks, Agrees
<1> HIDE DEF now
<1>2. ASSUME NEW n \in AudioManagers, n # m
      PROVE  /\ Agrees(objects[n], d)
             /\ objects[n].alive \/ objects[n] = Audio!NoObject
             /\ \A h \in DOMAIN d : HeldBy(objects[n], h) => ~HeldBy(objects[m], h)
  BY <1>2 DEF AudioWorks
<1>3. ASSUME NEW n \in AudioManagers
      PROVE  Agrees(now[n], e)
  <2>1. CASE n = m
    BY <1>1, <2>1
  <2>2. CASE n # m
    <3>1. \A h \in DOMAIN d : HeldBy(objects[n], h) => h \in DOMAIN e /\ e[h] = d[h]
      BY <1>2, <2>2
    <3>2. Agrees(objects[n], e)
      BY <1>2, <2>2, <3>1, OthersRest
    <3> QED
      BY <1>1, <2>2, <3>2
  <2> QED
    BY <2>1, <2>2
<1>4. \A n \in AudioManagers : now[n].alive \/ now[n] = Audio!NoObject
  BY <1>1, <1>2
<1>5. ASSUME NEW n \in AudioManagers, NEW h \in DOMAIN e, n # m, HeldBy(now[n], h)
      PROVE  h \in DOMAIN d /\ ~HeldBy(a, h) /\ HeldBy(objects[n], h)
  <2>1. HeldBy(objects[n], h)
    BY <1>1, <1>5
  <2>2. h \in DOMAIN d
    BY <1>2, <1>5, <2>1 DEF Agrees, HeldBy
  <2> QED
    BY <1>2, <1>5, <2>1, <2>2
<1>6. \A n, o \in AudioManagers, h \in DOMAIN e : HeldBy(now[n], h) /\ HeldBy(now[o], h) => n = o
  BY <1>1, <1>5 DEF AudioWorks
<1>7. ASSUME NEW h \in DOMAIN e
      PROVE  \E n \in AudioManagers : HeldBy(now[n], h)
  <2>1. CASE HeldBy(a, h)
    BY <1>1, <2>1
  <2>2. CASE h \in DOMAIN d /\ ~HeldBy(objects[m], h)
    <3>1. PICK n \in AudioManagers : HeldBy(objects[n], h)
      BY <2>2 DEF AudioWorks
    <3> QED
      BY <1>1, <2>2, <3>1
  <2> QED
    BY <2>1, <2>2
<1> QED
  BY <1>1, <1>3, <1>4, <1>6, <1>7 DEF AudioWorks, now

\* What can be open at the device.
Tracks(d) == DOMAIN d \subseteq 1 .. MaxOpen /\ \A h \in DOMAIN d : d[h] \in Track

LEMMA TurnedIs ==
  ASSUME NEW d, Tracks(d), NEW h \in DOMAIN d, NEW s \in Status,
         NEW e, e = Audio!Turned(d, h, s)
  PROVE  /\ Tracks(e) /\ DOMAIN e = DOMAIN d
         /\ \A x \in DOMAIN d : x # h => e[x] = d[x]
         /\ \A x \in DOMAIN d : e[x].volume = d[x].volume
         /\ e[h].status = s
<1>1. DOMAIN e = DOMAIN d /\ \A x \in DOMAIN d : x # h => e[x] = d[x]
  BY DEF Audio!Turned
<1>2. e[h] = [d[h] EXCEPT !.status = s] /\ d[h] \in Track
  BY DEF Audio!Turned, Tracks
<1>3. e[h] \in Track /\ e[h].status = s /\ e[h].volume = d[h].volume
  BY <1>2 DEF Track
<1> QED
  BY <1>1, <1>3 DEF Tracks

LEMMA LoudIs ==
  ASSUME NEW d, Tracks(d), NEW h \in DOMAIN d, NEW v \in 0 .. MaxVolume, NEW e, e = Audio!Loud(d, h, v)
  PROVE  /\ Tracks(e) /\ DOMAIN e = DOMAIN d
         /\ \A x \in DOMAIN d : x # h => e[x] = d[x]
         /\ \A x \in DOMAIN d : e[x].status = d[x].status
         /\ e[h].volume = v
<1>1. DOMAIN e = DOMAIN d /\ \A x \in DOMAIN d : x # h => e[x] = d[x]
  BY DEF Audio!Loud
<1>2. e[h] = [d[h] EXCEPT !.volume = v] /\ d[h] \in Track
  BY DEF Audio!Loud, Tracks
<1>3. e[h] \in Track /\ e[h].status = d[h].status /\ e[h].volume = v
  BY <1>2 DEF Track
<1> QED
  BY <1>1, <1>3 DEF Tracks

\* After it has stopped its track, nothing of an object is heard.
LEMMA StoppedIs ==
  ASSUME NEW a, NEW d, Tracks(d), Agrees(a, d), NEW e, e = Audio!StoppedCurrent(a, d)
  PROVE  /\ Tracks(e) /\ DOMAIN e = DOMAIN d
         /\ \A h \in DOMAIN d : ~HeldBy(a, h) => e[h] = d[h]
         /\ \A k \in DOMAIN a.sounds : e[a.sounds[k]] = d[a.sounds[k]]
         /\ \A k \in DOMAIN a.musicTracks : e[a.musicTracks[k]].status # "playing"
<1>1. CASE Audio!HasCurrent(a)
  <2> DEFINE h == a.musicTracks[a.currentMusicKey]
             s == "stopped"
  <2>1. a.currentMusicKey \in DOMAIN a.musicTracks /\ e = Audio!Turned(d, h, s)
    BY <1>1 DEF Audio!StoppedCurrent, Audio!HasCurrent, Audio!CurrentTrack
  <2>0. s \in Status /\ s # "playing"
    BY DEF Status
  <2>2. h \in DOMAIN d /\ HeldBy(a, h)
    BY <2>1 DEF Agrees, HeldBy
  <2>3. \A k \in DOMAIN a.sounds : a.sounds[k] # h /\ a.sounds[k] \in DOMAIN d
    BY <2>1 DEF Agrees
  <2>4. \A k \in DOMAIN a.musicTracks :
          /\ a.musicTracks[k] \in DOMAIN d
          /\ a.musicTracks[k] # h => d[a.musicTracks[k]].status # "playing"
    BY <2>1 DEF Agrees
  <2> HIDE DEF h, s
  <2>5. /\ Tracks(e) /\ DOMAIN e = DOMAIN d
        /\ \A x \in DOMAIN d : x # h => e[x] = d[x]
        /\ e[h].status = s
    BY <2>0, <2>1, <2>2, TurnedIs
  <2> QED
    BY <2>0, <2>2, <2>3, <2>4, <2>5
<1>2. CASE ~Audio!HasCurrent(a)
  <2>1. e = d
    BY <1>2 DEF Audio!StoppedCurrent
  <2>2. \A k \in DOMAIN a.musicTracks : d[a.musicTracks[k]].status # "playing"
    BY <1>2 DEF Agrees, Audio!HasCurrent
  <2> QED
    BY <2>1, <2>2
<1> QED
  BY <1>1, <1>2

\* An object changes in what it says of the handles it has.
LEMMA InPlace ==
  ASSUME AudioInv, NEW m \in AudioManagers, NEW b, manager' = [manager EXCEPT ![m] = b],
         b.alive, b.sounds = manager[m].sounds, b.musicTracks = manager[m].musicTracks,
         Tracks(device'), DOMAIN device' = DOMAIN device,
         \A h \in DOMAIN device : ~HeldBy(manager[m], h) => device'[h] = device[h],
         Agrees(b, device')
  PROVE  AudioInv'
<1>1. \A h : HeldBy(b, h) <=> HeldBy(manager[m], h)
  BY DEF HeldBy
<1>2. DOMAIN device' \subseteq 1 .. MaxOpen /\ \A h \in DOMAIN device' : device'[h] \in Track
  BY DEF Tracks
<1>3. AudioWorks([manager EXCEPT ![m] = b], device')
  BY <1>1, <1>2, OneChanges DEF AudioInv
<1> QED
  BY <1>3 DEF AudioInv

\* An object that is used is sound, and so is the device.
LEMMA InUse ==
  ASSUME AudioInv, NEW m \in Audio!Alive
  PROVE  /\ m \in AudioManagers /\ manager[m] \in AudioObject /\ manager[m].alive
         /\ Agrees(manager[m], device) /\ Tracks(device)
BY DEF AudioInv, AudioWorks, Audio!Alive, Tracks

LEMMA PlaySoundKeeps ==
  ASSUME AudioInv, NEW m \in Audio!Alive, NEW k \in SoundKeys, Audio!playSound(m, k)
  PROVE  AudioInv'
<1> DEFINE a == manager[m]
           h == a.sounds[k]
           v == a.sfxVolume
<1>1. /\ m \in AudioManagers /\ a \in AudioObject /\ a.alive /\ Agrees(a, device) /\ Tracks(device)
  BY InUse
<1>2. k \in DOMAIN a.sounds /\ device' = Audio!Loud(device, h, v) /\ manager' = manager
  BY DEF Audio!playSound
<1>3. v \in 0 .. MaxVolume
  BY <1>1 DEF AudioObject
<1>4. h \in DOMAIN device /\ HeldBy(a, h) /\ \A l \in DOMAIN a.musicTracks : a.musicTracks[l] # h
  BY <1>1, <1>2 DEF Agrees, HeldBy
<1>5. manager' = [manager EXCEPT ![m] = a]
  BY <1>1, <1>2 DEF AudioInv, AudioWorks
<1> HIDE DEF h, v
<1>6. /\ Tracks(device') /\ DOMAIN device' = DOMAIN device
      /\ \A x \in DOMAIN device : x # h => device'[x] = device[x]
      /\ \A x \in DOMAIN device : device'[x].status = device[x].status
  BY <1>1, <1>2, <1>3, <1>4, LoudIs
<1>7. Agrees(a, device')
  BY <1>1, <1>4, <1>6 DEF Agrees
<1>8. \A x \in DOMAIN device : ~HeldBy(a, x) => device'[x] = device[x]
  BY <1>4, <1>6
<1> HIDE DEF a
<1> QED
  BY <1>1, <1>5, <1>6, <1>7, <1>8, InPlace DEF a

LEMMA PlayMusicKeeps ==
  ASSUME AudioInv, NEW m \in Audio!Alive, NEW k \in MusicKeys, Audio!playMusic(m, k)
  PROVE  AudioInv'
<1> DEFINE a == manager[m]
           h == a.musicTracks[k]
           v == a.musicVolume
           d == Audio!StoppedCurrent(a, device)
           e == Audio!Loud(d, h, v)
           s == "playing"
           b == [a EXCEPT !.currentMusicKey = k, !.musicState = "Playing"]
<1>1. /\ m \in AudioManagers /\ a \in AudioObject /\ a.alive /\ Agrees(a, device) /\ Tracks(device)
  BY InUse
<1>2. /\ k \in DOMAIN a.musicTracks /\ device' = Audio!Turned(e, h, s)
      /\ manager' = [manager EXCEPT ![m] = b]
  <2>1. manager \in [AudioManagers -> AudioObject]
    BY DEF AudioInv, AudioWorks
  <2> QED
    BY <1>1, <2>1 DEF Audio!playMusic
<1>3. v \in 0 .. MaxVolume
  BY <1>1 DEF AudioObject
<1>4. h \in DOMAIN device /\ HeldBy(a, h)
  BY <1>1, <1>2 DEF Agrees, HeldBy
<1>5. /\ b \in AudioObject /\ b.alive /\ b.sounds = a.sounds /\ b.musicTracks = a.musicTracks
      /\ b.currentMusicKey = k /\ b.musicState = "Playing" /\ b.musicVolume = v
  BY <1>1 DEF AudioObject
<1>0. s \in Status
  BY DEF Status
<1>6. /\ \A l \in DOMAIN a.sounds : a.sounds[l] \in DOMAIN device /\ a.sounds[l] # h
      /\ \A l \in DOMAIN a.musicTracks : a.musicTracks[l] \in DOMAIN device /\ (a.musicTracks[l] = h => l = k)
  BY <1>1, <1>2 DEF Agrees
<1> HIDE DEF h, v, d, e, s, b
<1>7. /\ Tracks(d) /\ DOMAIN d = DOMAIN device
      /\ \A x \in DOMAIN device : ~HeldBy(a, x) => d[x] = device[x]
      /\ \A l \in DOMAIN a.sounds : d[a.sounds[l]] = device[a.sounds[l]]
      /\ \A l \in DOMAIN a.musicTracks : d[a.musicTracks[l]].status # "playing"
  BY <1>1, StoppedIs DEF d
<1>8. /\ Tracks(e) /\ DOMAIN e = DOMAIN d
      /\ \A x \in DOMAIN d : x # h => e[x] = d[x]
      /\ e[h].volume = v
  BY <1>3, <1>4, <1>7, LoudIs DEF e
<1>9. /\ Tracks(device') /\ DOMAIN device' = DOMAIN e
      /\ \A x \in DOMAIN e : x # h => device'[x] = e[x]
      /\ device'[h].status = s /\ device'[h].volume = v
  <2>1. h \in DOMAIN e
    BY <1>4, <1>7, <1>8
  <2> QED
    BY <1>0, <1>2, <1>8, <2>1, TurnedIs
<1>10. DOMAIN device' = DOMAIN device /\ \A x \in DOMAIN device : x # h => device'[x] = d[x]
  BY <1>7, <1>8, <1>9
<1>11. \A l \in DOMAIN a.sounds : device'[a.sounds[l]] = device[a.sounds[l]]
  BY <1>6, <1>7, <1>10
<1>12. \A l \in DOMAIN a.musicTracks : device'[a.musicTracks[l]].status = "playing" <=> l = k
  BY <1>2, <1>6, <1>7, <1>9, <1>10 DEF h, s
<1>13. Agrees(b, device')
  BY <1>1, <1>2, <1>5, <1>6, <1>9, <1>10, <1>11, <1>12 DEF Agrees, h
<1>14. \A x \in DOMAIN device : ~HeldBy(a, x) => device'[x] = device[x]
  BY <1>4, <1>7, <1>10
<1> QED
  BY <1>1, <1>2, <1>5, <1>9, <1>10, <1>13, <1>14, InPlace

LEMMA ObjectsInTable == AudioInv => manager \in [AudioManagers -> AudioObject]
BY DEF AudioInv, AudioWorks

\* Pausing and resuming.
LEMMA TurnCurrentKeeps ==
  ASSUME AudioInv, NEW m \in Audio!Alive, manager[m].musicState # "Stopped",
         NEW s \in Status, NEW now \in {"Playing", "Paused"}, s = "playing" <=> now = "Playing",
         manager' = [manager EXCEPT ![m].musicState = now],
         device' = IF Audio!HasCurrent(manager[m])
                   THEN Audio!Turned(device, Audio!CurrentTrack(manager[m]), s) ELSE device
  PROVE  AudioInv'
<1> DEFINE a == manager[m]
           k == a.currentMusicKey
           h == a.musicTracks[k]
           b == [a EXCEPT !.musicState = now]
<1>1. /\ m \in AudioManagers /\ a \in AudioObject /\ a.alive /\ Agrees(a, device) /\ Tracks(device)
  BY InUse
<1>2. k \in DOMAIN a.musicTracks
  BY <1>1 DEF Agrees
<1>3. h \in DOMAIN device /\ HeldBy(a, h) /\ device[h].volume = a.musicVolume
  BY <1>1, <1>2 DEF Agrees, HeldBy
<1>4. device' = Audio!Turned(device, h, s)
  BY <1>2 DEF Audio!HasCurrent, Audio!CurrentTrack
<1>5. manager' = [manager EXCEPT ![m] = b]
  BY <1>1, ObjectsInTable
<1>6. /\ b \in AudioObject /\ b.alive /\ b.sounds = a.sounds /\ b.musicTracks = a.musicTracks
      /\ b.currentMusicKey = k /\ b.musicState = now /\ b.musicVolume = a.musicVolume
  BY <1>1 DEF AudioObject
<1>7. /\ \A l \in DOMAIN a.sounds : a.sounds[l] \in DOMAIN device /\ a.sounds[l] # h
      /\ \A l \in DOMAIN a.musicTracks : a.musicTracks[l] \in DOMAIN device /\ (a.musicTracks[l] = h => l = k)
  BY <1>1, <1>2 DEF Agrees
<1> HIDE DEF h, b
<1>8. /\ Tracks(device') /\ DOMAIN device' = DOMAIN device
      /\ \A x \in DOMAIN device : x # h => device'[x] = device[x]
      /\ \A x \in DOMAIN device : device'[x].volume = device[x].volume
      /\ device'[h].status = s
  BY <1>1, <1>3, <1>4, TurnedIs
<1>9. \A l \in DOMAIN a.musicTracks : l # k => device[a.musicTracks[l]].status # "playing"
  BY <1>1 DEF Agrees
<1>10. \A l \in DOMAIN a.musicTracks :
         device'[a.musicTracks[l]].status = "playing" <=> now = "Playing" /\ l = k
  BY <1>2, <1>7, <1>8, <1>9 DEF h
<1>11. \A l \in DOMAIN a.sounds : device'[a.sounds[l]] = device[a.sounds[l]]
  BY <1>7, <1>8
<1>12. device'[a.musicTracks[k]].volume = a.musicVolume
  BY <1>3, <1>8 DEF h
<1>13. Agrees(b, device')
  <2>1. \A l \in DOMAIN b.sounds : b.sounds[l] \in DOMAIN device' /\ device'[b.sounds[l]].status = "stopped"
    BY <1>1, <1>6, <1>7, <1>8, <1>11 DEF Agrees
  <2>2. \A l \in DOMAIN b.musicTracks :
          /\ b.musicTracks[l] \in DOMAIN device'
          /\ device'[b.musicTracks[l]].status = "playing" <=> b.musicState = "Playing" /\ b.currentMusicKey = l
    BY <1>6, <1>7, <1>8, <1>10
  <2>3. /\ \A l, n \in DOMAIN b.sounds : b.sounds[l] = b.sounds[n] => l = n
        /\ \A l, n \in DOMAIN b.musicTracks : b.musicTracks[l] = b.musicTracks[n] => l = n
        /\ \A l \in DOMAIN b.sounds, n \in DOMAIN b.musicTracks : b.sounds[l] # b.musicTracks[n]
    BY <1>1, <1>6 DEF Agrees
  <2>4. /\ b.currentMusicKey \in DOMAIN b.musicTracks
        /\ device'[b.musicTracks[b.currentMusicKey]].volume = b.musicVolume
    BY <1>2, <1>6, <1>12
  <2> QED
    BY <1>6, <2>1, <2>2, <2>3, <2>4 DEF Agrees
<1>14. \A x \in DOMAIN device : ~HeldBy(a, x) => device'[x] = device[x]
  BY <1>3, <1>8
<1> QED
  BY <1>1, <1>5, <1>6, <1>8, <1>13, <1>14, InPlace

LEMMA PauseAndResumeKeep ==
  ASSUME AudioInv, NEW m \in Audio!Alive, Audio!pauseMusic(m) \/ Audio!resumeMusic(m)
  PROVE  AudioInv'
<1> DEFINE paused == "paused"
           playing == "playing"
<1>1. paused \in Status /\ paused # "playing" /\ playing \in Status
  BY DEF Status
<1>2. CASE Audio!pauseMusic(m)
  <2>1. /\ manager[m].musicState # "Stopped"
        /\ manager' = [manager EXCEPT ![m].musicState = "Paused"]
        /\ device' = IF Audio!HasCurrent(manager[m])
                     THEN Audio!Turned(device, Audio!CurrentTrack(manager[m]), paused) ELSE device
    BY <1>2 DEF Audio!pauseMusic
  <2> HIDE DEF paused
  <2> QED
    BY <1>1, <2>1, TurnCurrentKeeps
<1>3. CASE Audio!resumeMusic(m)
  <2>1. /\ manager[m].musicState # "Stopped"
        /\ manager' = [manager EXCEPT ![m].musicState = "Playing"]
        /\ device' = IF Audio!HasCurrent(manager[m])
                     THEN Audio!Turned(device, Audio!CurrentTrack(manager[m]), playing) ELSE device
    BY <1>3 DEF Audio!resumeMusic
  <2>2. playing = "playing"
    OBVIOUS
  <2> HIDE DEF playing
  <2> QED
    BY <1>1, <2>1, <2>2, TurnCurrentKeeps
<1> QED
  BY <1>2, <1>3

LEMMA StopMusicKeeps ==
  ASSUME AudioInv, NEW m \in Audio!Alive, Audio!stopMusic(m)
  PROVE  AudioInv'
<1> DEFINE a == manager[m]
           b == [a EXCEPT !.currentMusicKey = "", !.musicState = "Stopped"]
<1>1. /\ m \in AudioManagers /\ a \in AudioObject /\ a.alive /\ Agrees(a, device) /\ Tracks(device)
  BY InUse
<1>2. device' = Audio!StoppedCurrent(a, device) /\ manager' = [manager EXCEPT ![m] = b]
  BY <1>1, ObjectsInTable DEF Audio!stopMusic
<1>3. /\ b \in AudioObject /\ b.alive /\ b.sounds = a.sounds /\ b.musicTracks = a.musicTracks
      /\ b.musicState = "Stopped"
  BY <1>1 DEF AudioObject
<1> HIDE DEF b
<1>4. /\ Tracks(device') /\ DOMAIN device' = DOMAIN device
      /\ \A x \in DOMAIN device : ~HeldBy(a, x) => device'[x] = device[x]
      /\ \A l \in DOMAIN a.sounds : device'[a.sounds[l]] = device[a.sounds[l]]
      /\ \A l \in DOMAIN a.musicTracks : device'[a.musicTracks[l]].status # "playing"
  BY <1>1, <1>2, StoppedIs
<1>5. Agrees(b, device')
  BY <1>1, <1>3, <1>4 DEF Agrees
<1> QED
  BY <1>1, <1>2, <1>3, <1>4, <1>5, InPlace

LEMMA ClampIs == \A v \in Levels : Audio!clampVolume(v) \in 0 .. MaxVolume
BY AudioConstants DEF Audio!clampVolume

LEMMA SetSfxVolumeKeeps ==
  ASSUME AudioInv, NEW m \in Audio!Alive, NEW v \in Levels, Audio!setSfxVolume(m, v)
  PROVE  AudioInv'
<1> DEFINE a == manager[m]
           b == [a EXCEPT !.sfxVolume = Audio!clampVolume(v)]
<1>1. /\ m \in AudioManagers /\ a \in AudioObject /\ a.alive /\ Agrees(a, device) /\ Tracks(device)
  BY InUse
<1>2. device' = device /\ manager' = [manager EXCEPT ![m] = b]
  BY <1>1, ObjectsInTable DEF Audio!setSfxVolume
<1>3. /\ b \in AudioObject /\ b.alive /\ b.sounds = a.sounds /\ b.musicTracks = a.musicTracks
      /\ b.musicState = a.musicState /\ b.currentMusicKey = a.currentMusicKey /\ b.musicVolume = a.musicVolume
  BY <1>1, ClampIs DEF AudioObject
<1> HIDE DEF b
<1>4. Agrees(b, device)
  BY <1>1, <1>3 DEF Agrees
<1> QED
  BY <1>1, <1>2, <1>3, <1>4, InPlace

LEMMA SetMusicVolumeKeeps ==
  ASSUME AudioInv, NEW m \in Audio!Alive, NEW v \in Levels, Audio!setMusicVolume(m, v)
  PROVE  AudioInv'
<1> DEFINE a == manager[m]
           w == Audio!clampVolume(v)
           b == [a EXCEPT !.musicVolume = w]
           k == a.currentMusicKey
           h == a.musicTracks[k]
<1>1. /\ m \in AudioManagers /\ a \in AudioObject /\ a.alive /\ Agrees(a, device) /\ Tracks(device)
  BY InUse
<1>2. w \in 0 .. MaxVolume
  BY ClampIs
<1>3. manager' = [manager EXCEPT ![m] = b]
  BY <1>1, ObjectsInTable DEF Audio!setMusicVolume
<1>4. device' = IF Audio!HasCurrent(a) THEN Audio!Loud(device, h, w) ELSE device
  BY DEF Audio!setMusicVolume, Audio!CurrentTrack
<1> HIDE DEF w
<1>5. /\ b \in AudioObject /\ b.alive /\ b.sounds = a.sounds /\ b.musicTracks = a.musicTracks
      /\ b.musicState = a.musicState /\ b.currentMusicKey = k /\ b.musicVolume = w
  BY <1>1, <1>2 DEF AudioObject
<1> HIDE DEF b
<1>6. CASE Audio!HasCurrent(a)
  <2>1. k \in DOMAIN a.musicTracks
    BY <1>6 DEF Audio!HasCurrent
  <2>2. h \in DOMAIN device /\ HeldBy(a, h)
    BY <1>1, <2>1 DEF Agrees, HeldBy
  <2>3. \A l \in DOMAIN a.sounds : a.sounds[l] \in DOMAIN device
    BY <1>1 DEF Agrees
  <2>4. \A l \in DOMAIN a.musicTracks : a.musicTracks[l] \in DOMAIN device
    BY <1>1 DEF Agrees
  <2> HIDE DEF h
  <2>5. /\ Tracks(device') /\ DOMAIN device' = DOMAIN device
        /\ \A x \in DOMAIN device : x # h => device'[x] = device[x]
        /\ \A x \in DOMAIN device : device'[x].status = device[x].status
        /\ device'[h].volume = w
    BY <1>1, <1>2, <1>4, <1>6, <2>2, LoudIs
  <2>6. Agrees(b, device')
    BY <1>1, <1>5, <2>1, <2>3, <2>4, <2>5 DEF Agrees, h
  <2>7. \A x \in DOMAIN device : ~HeldBy(a, x) => device'[x] = device[x]
    BY <2>2, <2>5
  <2> QED
    BY <1>1, <1>3, <1>5, <2>5, <2>6, <2>7, InPlace
<1>7. CASE ~Audio!HasCurrent(a)
  <2>1. device' = device
    BY <1>4, <1>7
  <2>2. a.musicState = "Stopped"
    BY <1>1, <1>7 DEF Agrees, Audio!HasCurrent
  <2>3. Agrees(b, device')
    BY <1>1, <1>5, <2>1, <2>2 DEF Agrees
  <2> QED
    BY <1>1, <1>3, <1>5, <2>1, <2>3, InPlace
<1> QED
  BY <1>6, <1>7

\* What is left of the device when an object has given back what it held.
LEMMA DeviceWithoutIs ==
  ASSUME NEW a, Tracks(device), Agrees(a, device), NEW e, e = Audio!DeviceWithout(a)
  PROVE  /\ DOMAIN e \subseteq 1 .. MaxOpen /\ \A h \in DOMAIN e : e[h] \in Track
         /\ \A h : h \in DOMAIN e <=> h \in DOMAIN device /\ ~HeldBy(a, h)
         /\ \A h \in DOMAIN e : e[h] = device[h]
<1> DEFINE d == Audio!StoppedCurrent(a, device)
<1>1. /\ Tracks(d) /\ DOMAIN d = DOMAIN device
      /\ \A h \in DOMAIN device : ~HeldBy(a, h) => d[h] = device[h]
  <2> HIDE DEF d
  <2> QED
    BY StoppedIs DEF d
<1>2. e = [h \in DOMAIN d \ Audio!Owned(a) |-> d[h]]
  BY DEF Audio!DeviceWithout, Audio!Closed, Audio!Restrict
<1> HIDE DEF d
<1>3. \A h : h \in DOMAIN e <=> h \in DOMAIN device /\ ~HeldBy(a, h)
  BY <1>1, <1>2, HeldIsOwned
<1>4. \A h \in DOMAIN e : e[h] = d[h]
  BY <1>2
<1> QED
  BY <1>1, <1>3, <1>4 DEF Tracks

\* An object gives back all it held and holds nothing any more.
LEMMA GivesBack ==
  ASSUME AudioInv, NEW m \in AudioManagers, NEW b, NEW e,
         e = Audio!DeviceWithout(manager[m]),
         \A d : Agrees(b, d), \A h : ~HeldBy(b, h), b.alive \/ b = Audio!NoObject
  PROVE  AudioWorks([manager EXCEPT ![m] = b], e)
<1>1. Agrees(manager[m], device) /\ Tracks(device)
  BY DEF AudioInv, AudioWorks, Tracks
<1>2. /\ DOMAIN e \subseteq 1 .. MaxOpen /\ \A h \in DOMAIN e : e[h] \in Track
      /\ \A h : h \in DOMAIN e <=> h \in DOMAIN device /\ ~HeldBy(manager[m], h)
      /\ \A h \in DOMAIN e : e[h] = device[h]
  BY <1>1, DeviceWithoutIs
<1> QED
  BY <1>2, OneChanges DEF AudioInv

\* An object without anything, as unloadAll leaves it, agrees with any device.
LEMMA UnloadedIs ==
  ASSUME NEW a \in AudioObject
  PROVE  /\ \A d : Agrees(Audio!Unloaded(a), d)
         /\ \A h : ~HeldBy(Audio!Unloaded(a), h)
         /\ Audio!Unloaded(a).alive = a.alive
<1> DEFINE b == Audio!Unloaded(a)
<1>1. Audio!Nothing \in Tables(SoundKeys) /\ Audio!Nothing \in Tables(MusicKeys) /\ DOMAIN Audio!Nothing = {}
  <2>1. Audio!Nothing \in [{} -> 1 .. MaxOpen] /\ DOMAIN Audio!Nothing = {}
    BY DEF Audio!Nothing
  <2> QED
    BY <2>1 DEF Tables
<1>2. /\ b \in AudioObject /\ b.sounds = Audio!Nothing /\ b.musicTracks = Audio!Nothing
      /\ b.musicState = "Stopped" /\ b.alive = a.alive
  BY <1>1 DEF Audio!Unloaded, AudioObject
<1> HIDE DEF b
<1>3. (\A d : Agrees(b, d)) /\ \A h : ~HeldBy(b, h)
  BY <1>1, <1>2 DEF Agrees, HeldBy
<1> QED
  BY <1>2, <1>3 DEF b

LEMMA UnloadAndDestroyKeep ==
  ASSUME AudioInv, NEW m \in Audio!Alive, Audio!unloadAll(m) \/ Audio!Destroy(m)
  PROVE  AudioInv'
<1>1. m \in AudioManagers /\ manager[m] \in AudioObject /\ manager[m].alive
  BY InUse
<1>2. CASE Audio!unloadAll(m)
  <2> DEFINE b == Audio!Unloaded(manager[m])
  <2>1. manager' = [manager EXCEPT ![m] = b] /\ device' = Audio!DeviceWithout(manager[m])
    BY <1>2, <1>1, ObjectsInTable DEF Audio!unloadAll
  <2>2. (\A d : Agrees(b, d)) /\ (\A h : ~HeldBy(b, h)) /\ b.alive
    BY <1>1, UnloadedIs
  <2> HIDE DEF b
  <2>3. AudioWorks([manager EXCEPT ![m] = b], device')
    BY <1>1, <2>1, <2>2, GivesBack
  <2> QED
    BY <2>1, <2>3 DEF AudioInv
<1>3. CASE Audio!Destroy(m)
  <2> DEFINE b == Audio!NoObject
  <2>1. manager' = [manager EXCEPT ![m] = b] /\ device' = Audio!DeviceWithout(manager[m])
    BY <1>3 DEF Audio!Destroy
  <2>2. (\A d : Agrees(b, d)) /\ \A h : ~HeldBy(b, h)
    BY FreshObjects
  <2>3. b = Audio!NoObject
    OBVIOUS
  <2> HIDE DEF b
  <2>4. AudioWorks([manager EXCEPT ![m] = b], device')
    BY <1>1, <2>1, <2>2, <2>3, GivesBack
  <2> QED
    BY <2>1, <2>4 DEF AudioInv
<1> QED
  BY <1>2, <1>3

LEMMA LoadSoundKeeps ==
  ASSUME AudioInv, NEW m \in Audio!Alive, NEW k \in SoundKeys, Audio!loadSound(m, k)
  PROVE  AudioInv'
<1> DEFINE a == manager[m]
           new == Audio!Min(Audio!FreeHandles)
           table == [x \in DOMAIN a.sounds \cup {k} |-> IF x = k THEN new ELSE a.sounds[x]]
           b == [a EXCEPT !.sounds = table]
           track == [kind |-> "sound", status |-> "stopped", volume |-> MaxVolume]
<1>1. /\ m \in AudioManagers /\ a \in AudioObject /\ a.alive /\ Agrees(a, device) /\ Tracks(device)
  BY InUse
<1>2. k \notin DOMAIN a.sounds /\ new \in 1 .. MaxOpen /\ new \notin DOMAIN device
  BY AudioHandle DEF Audio!loadSound
<1>3. device' = [h \in DOMAIN device \cup {new} |-> IF h \in DOMAIN device THEN device[h] ELSE track]
  BY DEF Audio!loadSound, Audio!Opened
<1>4. manager' = [manager EXCEPT ![m] = b]
  BY <1>1, ObjectsInTable DEF Audio!loadSound
<1>5. track \in Track /\ track.status = "stopped"
  BY AudioConstants DEF Track, Status
<1> HIDE DEF new, track
<1>6. table \in Tables(SoundKeys)
  <2>1. DOMAIN a.sounds \subseteq SoundKeys /\ \A l \in DOMAIN a.sounds : a.sounds[l] \in 1 .. MaxOpen
    BY <1>1, ObjectsAre
  <2>2. table \in [DOMAIN a.sounds \cup {k} -> 1 .. MaxOpen]
    BY <1>2, <2>1
  <2> HIDE DEF table
  <2> QED
    BY <2>1, <2>2 DEF Tables
<1>7. /\ DOMAIN table = DOMAIN a.sounds \cup {k} /\ table[k] = new
      /\ \A l \in DOMAIN a.sounds : table[l] = a.sounds[l]
  BY <1>2
<1> HIDE DEF table
<1>8. /\ b \in AudioObject /\ b.alive /\ b.sounds = table /\ b.musicTracks = a.musicTracks
      /\ b.musicState = a.musicState /\ b.currentMusicKey = a.currentMusicKey /\ b.musicVolume = a.musicVolume
  BY <1>1, <1>6 DEF AudioObject
<1> HIDE DEF b
<1>9. /\ DOMAIN device' = DOMAIN device \cup {new} /\ device'[new] = track
      /\ \A h \in DOMAIN device : device'[h] = device[h]
  BY <1>2, <1>3
<1>10. DOMAIN device' \subseteq 1 .. MaxOpen /\ \A h \in DOMAIN device' : device'[h] \in Track
  BY <1>1, <1>2, <1>5, <1>9 DEF Tracks
<1>11. /\ \A l \in DOMAIN a.sounds : a.sounds[l] \in DOMAIN device /\ a.sounds[l] # new
       /\ \A l \in DOMAIN a.musicTracks : a.musicTracks[l] \in DOMAIN device /\ a.musicTracks[l] # new
  BY <1>1, <1>2 DEF Agrees
<1>12. \A h : HeldBy(b, h) <=> HeldBy(a, h) \/ h = new
  BY <1>7, <1>8 DEF HeldBy
<1>13. Agrees(b, device')
  <2>1. \A l \in DOMAIN b.sounds : b.sounds[l] \in DOMAIN device' /\ device'[b.sounds[l]].status = "stopped"
    BY <1>1, <1>5, <1>7, <1>8, <1>9, <1>11 DEF Agrees
  <2>2. \A l \in DOMAIN b.musicTracks :
          /\ b.musicTracks[l] \in DOMAIN device'
          /\ device'[b.musicTracks[l]].status = "playing" <=> b.musicState = "Playing" /\ b.currentMusicKey = l
    BY <1>1, <1>8, <1>9, <1>11 DEF Agrees
  <2>3. \A l, n \in DOMAIN b.sounds : b.sounds[l] = b.sounds[n] => l = n
    BY <1>1, <1>7, <1>8, <1>11 DEF Agrees
  <2>4. \A l, n \in DOMAIN b.musicTracks : b.musicTracks[l] = b.musicTracks[n] => l = n
    BY <1>1, <1>7, <1>8, <1>11 DEF Agrees
  <2>5. \A l \in DOMAIN b.sounds, n \in DOMAIN b.musicTracks : b.sounds[l] # b.musicTracks[n]
    BY <1>1, <1>7, <1>8, <1>11 DEF Agrees
  <2>6. ASSUME b.musicState # "Stopped"
        PROVE  /\ b.currentMusicKey \in DOMAIN b.musicTracks
               /\ device'[b.musicTracks[b.currentMusicKey]].volume = b.musicVolume
    BY <1>1, <1>2, <1>7, <1>8, <1>9, <1>11, <2>6 DEF Agrees
  <2> QED
    BY <1>8, <2>1, <2>2, <2>3, <2>4, <2>5, <2>6 DEF Agrees
<1>14. \A h \in DOMAIN device : ~HeldBy(a, h) => h \in DOMAIN device' /\ device'[h] = device[h] /\ ~HeldBy(b, h)
  BY <1>2, <1>9, <1>12
<1>15. \A h \in DOMAIN device' : HeldBy(b, h) \/ (h \in DOMAIN device /\ ~HeldBy(a, h))
  BY <1>9, <1>12
<1>16. AudioWorks([manager EXCEPT ![m] = b], device')
  BY <1>1, <1>8, <1>10, <1>13, <1>14, <1>15, OneChanges DEF AudioInv
<1> QED
  BY <1>4, <1>16 DEF AudioInv

LEMMA LoadMusicKeeps ==
  ASSUME AudioInv, NEW m \in Audio!Alive, NEW k \in MusicKeys, Audio!loadMusic(m, k)
  PROVE  AudioInv'
<1> DEFINE a == manager[m]
           new == Audio!Min(Audio!FreeHandles)
           table == [x \in DOMAIN a.musicTracks \cup {k} |-> IF x = k THEN new ELSE a.musicTracks[x]]
           b == [a EXCEPT !.musicTracks = table]
           track == [kind |-> "music", status |-> "stopped", volume |-> MaxVolume]
<1>1. /\ m \in AudioManagers /\ a \in AudioObject /\ a.alive /\ Agrees(a, device) /\ Tracks(device)
  BY InUse
<1>2. k \notin DOMAIN a.musicTracks /\ new \in 1 .. MaxOpen /\ new \notin DOMAIN device
  BY AudioHandle DEF Audio!loadMusic
<1>3. device' = [h \in DOMAIN device \cup {new} |-> IF h \in DOMAIN device THEN device[h] ELSE track]
  BY DEF Audio!loadMusic, Audio!Opened
<1>4. manager' = [manager EXCEPT ![m] = b]
  BY <1>1, ObjectsInTable DEF Audio!loadMusic
<1>5. track \in Track /\ track.status = "stopped"
  BY AudioConstants DEF Track, Status
<1> HIDE DEF new, track
<1>6. table \in Tables(MusicKeys)
  <2>1. DOMAIN a.musicTracks \subseteq MusicKeys /\ \A l \in DOMAIN a.musicTracks : a.musicTracks[l] \in 1 .. MaxOpen
    BY <1>1, ObjectsAre
  <2>2. table \in [DOMAIN a.musicTracks \cup {k} -> 1 .. MaxOpen]
    BY <1>2, <2>1
  <2> HIDE DEF table
  <2> QED
    BY <2>1, <2>2 DEF Tables
<1>7. /\ DOMAIN table = DOMAIN a.musicTracks \cup {k} /\ table[k] = new
      /\ \A l \in DOMAIN a.musicTracks : table[l] = a.musicTracks[l]
  BY <1>2
<1> HIDE DEF table
<1>8. /\ b \in AudioObject /\ b.alive /\ b.musicTracks = table /\ b.sounds = a.sounds
      /\ b.musicState = a.musicState /\ b.currentMusicKey = a.currentMusicKey /\ b.musicVolume = a.musicVolume
  BY <1>1, <1>6 DEF AudioObject
<1> HIDE DEF b
<1>9. /\ DOMAIN device' = DOMAIN device \cup {new} /\ device'[new] = track
      /\ \A h \in DOMAIN device : device'[h] = device[h]
  BY <1>2, <1>3
<1>10. DOMAIN device' \subseteq 1 .. MaxOpen /\ \A h \in DOMAIN device' : device'[h] \in Track
  BY <1>1, <1>2, <1>5, <1>9 DEF Tracks
<1>11. /\ \A l \in DOMAIN a.sounds : a.sounds[l] \in DOMAIN device /\ a.sounds[l] # new
       /\ \A l \in DOMAIN a.musicTracks : a.musicTracks[l] \in DOMAIN device /\ a.musicTracks[l] # new
  BY <1>1, <1>2 DEF Agrees
<1>12. \A h : HeldBy(b, h) <=> HeldBy(a, h) \/ h = new
  BY <1>7, <1>8 DEF HeldBy
<1>13. Agrees(b, device')
  <2>1. \A l \in DOMAIN b.sounds : b.sounds[l] \in DOMAIN device' /\ device'[b.sounds[l]].status = "stopped"
    BY <1>1, <1>5, <1>7, <1>8, <1>9, <1>11 DEF Agrees
  <2>2. \A l \in DOMAIN b.musicTracks :
          /\ b.musicTracks[l] \in DOMAIN device'
          /\ device'[b.musicTracks[l]].status = "playing" <=> b.musicState = "Playing" /\ b.currentMusicKey = l
    <3>1. CASE a.musicState = "Stopped"
      BY <1>1, <1>5, <1>7, <1>8, <1>9, <1>11, <3>1 DEF Agrees
    <3>2. CASE a.musicState # "Stopped"
      <4>1. a.currentMusicKey # k
        BY <1>1, <1>2, <3>2 DEF Agrees
      <4> QED
        BY <1>1, <1>5, <1>7, <1>8, <1>9, <1>11, <4>1 DEF Agrees
    <3> QED
      BY <3>1, <3>2
  <2>3. \A l, n \in DOMAIN b.sounds : b.sounds[l] = b.sounds[n] => l = n
    BY <1>1, <1>7, <1>8, <1>11 DEF Agrees
  <2>4. \A l, n \in DOMAIN b.musicTracks : b.musicTracks[l] = b.musicTracks[n] => l = n
    BY <1>1, <1>7, <1>8, <1>11 DEF Agrees
  <2>5. \A l \in DOMAIN b.sounds, n \in DOMAIN b.musicTracks : b.sounds[l] # b.musicTracks[n]
    BY <1>1, <1>7, <1>8, <1>11 DEF Agrees
  <2>6. ASSUME b.musicState # "Stopped"
        PROVE  /\ b.currentMusicKey \in DOMAIN b.musicTracks
               /\ device'[b.musicTracks[b.currentMusicKey]].volume = b.musicVolume
    BY <1>1, <1>2, <1>7, <1>8, <1>9, <1>11, <2>6 DEF Agrees
  <2> QED
    BY <1>8, <2>1, <2>2, <2>3, <2>4, <2>5, <2>6 DEF Agrees
<1>14. \A h \in DOMAIN device : ~HeldBy(a, h) => h \in DOMAIN device' /\ device'[h] = device[h] /\ ~HeldBy(b, h)
  BY <1>2, <1>9, <1>12
<1>15. \A h \in DOMAIN device' : HeldBy(b, h) \/ (h \in DOMAIN device /\ ~HeldBy(a, h))
  BY <1>9, <1>12
<1>16. AudioWorks([manager EXCEPT ![m] = b], device')
  BY <1>1, <1>8, <1>10, <1>13, <1>14, <1>15, OneChanges DEF AudioInv
<1> QED
  BY <1>4, <1>16 DEF AudioInv

LEMMA AudioUseKeeps ==
  ASSUME AudioInv, NEW m \in Audio!Alive, Audio!Use(m)
  PROVE  AudioInv'
<1>1. ASSUME NEW k \in SoundKeys, Audio!loadSound(m, k) \/ Audio!playSound(m, k)
      PROVE  AudioInv'
  BY <1>1, LoadSoundKeeps, PlaySoundKeeps
<1>2. ASSUME NEW k \in MusicKeys, Audio!loadMusic(m, k) \/ Audio!playMusic(m, k)
      PROVE  AudioInv'
  BY <1>2, LoadMusicKeeps, PlayMusicKeeps
<1>3. ASSUME NEW v \in Levels, Audio!setSfxVolume(m, v) \/ Audio!setMusicVolume(m, v)
      PROVE  AudioInv'
  BY <1>3, SetSfxVolumeKeeps, SetMusicVolumeKeeps
<1> QED
  BY <1>1, <1>2, <1>3, StopMusicKeeps, PauseAndResumeKeep, UnloadAndDestroyKeep DEF Audio!Use

\* An object takes over all that another one held.
LEMMA TakesOver ==
  ASSUME NEW objects, NEW d, AudioWorks(objects, d), NEW m \in AudioManagers, NEW other \in AudioManagers,
         m # other, \A h : ~HeldBy(objects[m], h), objects[other].alive
  PROVE  AudioWorks([objects EXCEPT ![m] = objects[other], ![other] = Audio!Fresh], d)
<1> DEFINE now == [objects EXCEPT ![m] = objects[other], ![other] = Audio!Fresh]
           fresh == Audio!Fresh
<1>1. Agrees(fresh, d) /\ fresh.alive /\ fresh \in AudioObject /\ \A h : ~HeldBy(fresh, h)
  <2>1. Agrees(fresh, d) /\ fresh.alive /\ \A h : ~HeldBy(fresh, h)
    BY FreshObjects
  <2> HIDE DEF fresh
  <2> QED
    BY <2>1 DEF Agrees
<1>2. /\ now[m] = objects[other] /\ now[other] = fresh
      /\ \A n \in AudioManagers : n # m /\ n # other => now[n] = objects[n]
  BY DEF AudioWorks
<1>3. now \in [AudioManagers -> AudioObject]
  <2> HIDE DEF fresh
  <2> QED
    BY <1>1 DEF AudioWorks, fresh
<1> HIDE DEF now, fresh
<1>4. \A n \in AudioManagers : Agrees(now[n], d) /\ (now[n].alive \/ now[n] = Audio!NoObject)
  BY <1>1, <1>2 DEF AudioWorks
<1>5. \A n, o \in AudioManagers, h \in DOMAIN d : HeldBy(now[n], h) /\ HeldBy(now[o], h) => n = o
  BY <1>1, <1>2 DEF AudioWorks
<1>6. ASSUME NEW h \in DOMAIN d
      PROVE  \E n \in AudioManagers : HeldBy(now[n], h)
  <2>1. PICK n \in AudioManagers : HeldBy(objects[n], h)
    BY DEF AudioWorks
  <2>2. n # m
    BY <2>1
  <2>3. CASE n = other
    BY <1>2, <2>1, <2>3
  <2>4. CASE n # other
    BY <1>2, <2>1, <2>2, <2>4
  <2> QED
    BY <2>3, <2>4
<1>7. AudioWorks(now, d)
  BY <1>3, <1>4, <1>5, <1>6 DEF AudioWorks
<1> QED
  BY <1>7 DEF now

LEMMA AudioMoveKeeps ==
  ASSUME AudioInv, NEW other \in Audio!Alive, NEW m \in AudioManagers,
         IF m \in Audio!Alive THEN Audio!MoveAssign(m, other) ELSE Audio!MoveNew(m, other)
  PROVE  AudioInv'
<1>1. other \in AudioManagers /\ manager[other].alive
  BY DEF Audio!Alive
<1>2. CASE m \in Audio!Alive
  <2> DEFINE b == Audio!Fresh
             halfway == [manager EXCEPT ![m] = b]
  <2>1. /\ m # other /\ device' = Audio!DeviceWithout(manager[m])
        /\ manager' = [manager EXCEPT ![m] = manager[other], ![other] = Audio!Fresh]
    BY <1>2 DEF Audio!MoveAssign, Audio!MovedFrom
  <2>2. (\A d : Agrees(b, d)) /\ (\A h : ~HeldBy(b, h)) /\ b.alive
    BY FreshObjects
  <2>3. halfway[m] = b /\ halfway[other] = manager[other]
    BY <1>1, <2>1, ObjectsInTable
  <2>4. manager' = [halfway EXCEPT ![m] = halfway[other], ![other] = Audio!Fresh]
    BY <2>1, <2>3, ObjectsInTable
  <2> HIDE DEF b
  <2>5. AudioWorks(halfway, device')
    BY <2>1, <2>2, GivesBack
  <2> HIDE DEF halfway
  <2>6. AudioWorks([halfway EXCEPT ![m] = halfway[other], ![other] = Audio!Fresh], device')
    BY <1>1, <2>1, <2>2, <2>3, <2>5, TakesOver
  <2> QED
    BY <2>4, <2>6 DEF AudioInv
<1>3. CASE m \notin Audio!Alive
  <2>1. /\ device' = device
        /\ manager' = [manager EXCEPT ![m] = manager[other], ![other] = Audio!Fresh]
    BY <1>3 DEF Audio!MoveNew, Audio!MovedFrom
  <2>2. m # other /\ \A h : ~HeldBy(manager[m], h)
    BY <1>1, <1>3, FreshObjects DEF AudioInv, AudioWorks, Audio!Alive
  <2>3. AudioWorks([manager EXCEPT ![m] = manager[other], ![other] = Audio!Fresh], device)
    BY <1>1, <2>2, TakesOver DEF AudioInv
  <2> QED
    BY <2>1, <2>3 DEF AudioInv
<1> QED
  BY <1>2, <1>3

LEMMA AudioGoesOn ==
  ASSUME AudioInv, Audio!Next
  PROVE  AudioInv'
<1>1. ASSUME NEW m \in AudioManagers \ Audio!Alive, Audio!Create(m)
      PROVE  AudioInv'
  <2> DEFINE b == Audio!Fresh
  <2>1. manager' = [manager EXCEPT ![m] = b] /\ device' = device
    BY <1>1 DEF Audio!Create
  <2>2. Agrees(b, device) /\ b.alive /\ \A h : ~HeldBy(b, h) /\ ~HeldBy(manager[m], h)
    BY <1>1, FreshObjects DEF AudioInv, AudioWorks, Audio!Alive
  <2>3. DOMAIN device \subseteq 1 .. MaxOpen /\ \A h \in DOMAIN device : device[h] \in Track
    BY DEF AudioInv, AudioWorks
  <2> HIDE DEF b
  <2>4. AudioWorks([manager EXCEPT ![m] = b], device)
    BY <2>2, <2>3, OneChanges DEF AudioInv
  <2> QED
    BY <2>1, <2>4 DEF AudioInv
<1> QED
  BY <1>1, AudioUseKeeps, AudioMoveKeeps DEF Audio!Next

-----------------------------------------------------------------------------
(* Both, in the composition. *)

LEMMA DevicesKept ==
  ASSUME AudioInv, ModelInv,
         [Next]_<<part, app, fightVars, controllerVars, particleVars, audioVars, modelVars>>
  PROVE  AudioInv' /\ ModelInv'
<1>1. UNCHANGED audioVars => AudioInv'
  BY DEF audioVars, AudioInv, AudioWorks, Agrees, HeldBy
<1>2. UNCHANGED modelVars => ModelInv'
  BY DEF modelVars, ModelInv, Uploads
<1>3. AudioStep => AudioInv' /\ UNCHANGED modelVars
  BY AudioGoesOn DEF AudioStep
<1>4. ModelStep => ModelInv' /\ UNCHANGED audioVars
  BY ModelsGoOn DEF ModelStep
<1>5. MenuStep \/ FightStep \/ ControllerStep \/ ParticleStep => UNCHANGED audioVars /\ UNCHANGED modelVars
  BY DEF MenuStep, FightStep, ControllerStep, ParticleStep
<1> QED
  BY <1>1, <1>2, <1>3, <1>4, <1>5 DEF Next

\* Through all loading, playing, moving and destroying, what is open at the
\* audio device and what raylib holds for models has one living owner under
\* one key, what is heard is what its owner believes to play, as loud as was
\* asked for, and nothing is given back twice; of models also if the window is
\* closed while there are some (AudioManager, ModelManager).
THEOREM DevicesAlwaysOwned == Spec => []DevicesAreOwned
<1>1. Init => AudioInv /\ ModelInv
  BY AudioBegins, ModelsBegin
<1>2. AudioInv /\ ModelInv
      /\ [Next]_<<part, app, fightVars, controllerVars, particleVars, audioVars, modelVars>>
      => AudioInv' /\ ModelInv'
  BY DevicesKept
<1>3. AudioInv /\ ModelInv => DevicesAreOwned
  BY AudioInvSuffices, ModelInvSuffices DEF DevicesAreOwned
<1> QED
  BY <1>1, <1>2, <1>3, PTL DEF Spec

-----------------------------------------------------------------------------
(* The states of animated entities. *)

\* An entry of the controller between two of its operations.
EntryIsSound(x) ==
  /\ x \in [state : Controller!AnimationState, elapsed : Nat, duration : Nat]
  /\ x.duration = Controller!defaultDuration[x.state]
  /\ (x.state = "Dead" /\ x.elapsed = 0) \/ x.elapsed < x.duration

EntityInv ==
  /\ DOMAIN entities \subseteq EntityId /\ DOMAIN deaths = DOMAIN entities
  /\ \A e \in DOMAIN entities : EntryIsSound(entities[e])
  /\ \A e \in DOMAIN entities : deaths[e] = 0 \/ (deaths[e] = 1 /\ entities[e].state = "Dead")

\* Whoever is dying or dead in the one entry is so in the other.
StaysDown(x, y) ==
  /\ x.state = "Dead" => y.state = "Dead"
  /\ x.state = "Dying" => y.state \in {"Dying", "Dead"}

LEMMA EntityInvSuffices == EntityInv => Controller!TypeOK /\ Controller!DeathReportedOnce
BY DEF EntityInv, EntryIsSound, Controller!TypeOK, Controller!DeathReportedOnce

LEMMA EnteredIsSound ==
  ASSUME NEW s \in Controller!AnimationState
  PROVE  EntryIsSound(Controller!Entered(s)) /\ Controller!Entered(s).state = s
BY DEF EntryIsSound, Controller!Entered, Controller!AnimationState, Controller!defaultDuration

LEMMA PlayedIsSound ==
  ASSUME NEW x, EntryIsSound(x), NEW s \in Controller!AnimationState
  PROVE  EntryIsSound(Controller!Played(x, s)) /\ StaysDown(x, Controller!Played(x, s))
<1>1. CASE Controller!isValidTransition(x.state, s)
  <2>1. x.state = "Dead" \/ x.state = "Dying" => s = "Dead"
    BY <1>1 DEF Controller!isValidTransition
  <2>2. Controller!Played(x, s) = Controller!Entered(s)
    BY <1>1 DEF Controller!Played
  <2> QED
    BY <2>1, <2>2, EnteredIsSound DEF StaysDown
<1>2. CASE ~Controller!isValidTransition(x.state, s)
  BY <1>2 DEF Controller!Played, StaysDown
<1> QED
  BY <1>1, <1>2

\* What update makes of an entry.
Next1(x, dt) ==
  LET on == Controller!Advanced(x, dt)
  IN  IF Controller!Completes(on) THEN Controller!CalledBack(on.state, Controller!Completed(on)) ELSE on

LEMMA NextIsSound ==
  ASSUME NEW x, EntryIsSound(x), NEW dt \in StateFrames
  PROVE  /\ EntryIsSound(Next1(x, dt)) /\ StaysDown(x, Next1(x, dt))
         /\ Controller!Advanced(x, dt).state = x.state
         /\ x.state = "Dying" /\ Controller!Completes(Controller!Advanced(x, dt)) => Next1(x, dt).state = "Dead"
<1> DEFINE on == Controller!Advanced(x, dt)
           done == Controller!Completed(on)
           after == Controller!CalledBack(on.state, done)
<1>1. dt \in Nat /\ \A s \in Controller!AnimationState :
        Chained[s] = "nothing" \/ Chained[s] \in Controller!AnimationState
  BY ControllerAssumption DEF Controller!ControllerAssumption
<1>2. /\ on \in [state : Controller!AnimationState, elapsed : Nat, duration : Nat]
      /\ on.state = x.state /\ on.duration = x.duration
      /\ x.state = "Dead" => on = x
  BY <1>1 DEF EntryIsSound, Controller!Advanced
<1>3. on.duration = Controller!defaultDuration[on.state]
  BY <1>2 DEF EntryIsSound
<1> HIDE DEF on
<1>4. CASE ~Controller!Completes(on)
  <2>1. Next1(x, dt) = on
    BY <1>4 DEF Next1, on
  <2>2. on.state = "Dead" \/ on.elapsed < on.duration
    BY <1>2, <1>3, <1>4 DEF Controller!Completes, Controller!defaultDuration, Controller!AnimationState
  <2>3. EntryIsSound(on)
    BY <1>2, <1>3, <2>2 DEF EntryIsSound
  <2> QED
    BY <1>2, <1>4, <2>1, <2>3 DEF StaysDown, on
<1>5. CASE Controller!Completes(on)
  <2>1. on.state # "Dead" /\ on.state \in Controller!AnimationState
    BY <1>2, <1>3, <1>5 DEF Controller!Completes, Controller!defaultDuration
  <2>2. EntryIsSound(done) /\ (on.state = "Dying" => done.state = "Dead")
    <3>1. CASE on.state \in {"Attacking", "TakingDamage"}
      <4>1. done = Controller!Entered("Idle")
        BY <3>1 DEF Controller!Completed
      <4> QED
        BY <3>1, <4>1, EnteredIsSound DEF Controller!AnimationState
    <3>2. CASE on.state = "Dying"
      <4>1. done = Controller!Entered("Dead")
        BY <3>2 DEF Controller!Completed
      <4> QED
        BY <4>1, EnteredIsSound DEF Controller!AnimationState
    <3>3. CASE on.state \in {"Idle", "Walking"}
      <4>1. done = [on EXCEPT !.elapsed = on.elapsed % on.duration]
        BY <3>3 DEF Controller!Completed, Controller!Wrapped
      <4>2. on.duration \in {8, 10}
        BY <1>3, <3>3 DEF Controller!defaultDuration
      <4>3. on.elapsed % on.duration \in Nat /\ on.elapsed % on.duration < on.duration
        BY <1>2, <4>2
      <4> QED
        BY <1>2, <1>3, <3>3, <4>1, <4>3 DEF EntryIsSound
    <3> QED
      BY <2>1, <3>1, <3>2, <3>3 DEF Controller!AnimationState
  <2> HIDE DEF done
  <2>3. EntryIsSound(after) /\ StaysDown(done, after)
    BY <1>1, <2>1, <2>2, PlayedIsSound DEF Controller!CalledBack, StaysDown
  <2>4. Next1(x, dt) = after
    BY <1>5 DEF Next1, on, done
  <2> QED
    BY <1>2, <2>1, <2>2, <2>3, <2>4 DEF StaysDown, on
<1> QED
  BY <1>4, <1>5

\* No entity rises in a step.
NobodyRisesNow ==
  \A e \in DOMAIN entities \cap DOMAIN entities' : StaysDown(entities[e], entities'[e])

LEMMA EntitiesGoOn ==
  ASSUME EntityInv, Controller!Next
  PROVE  EntityInv' /\ NobodyRisesNow
<1>1. ASSUME NEW dt \in StateFrames, Controller!update(dt)
      PROVE  EntityInv' /\ NobodyRisesNow
  <2>1. /\ entities' = [e \in DOMAIN entities |-> Next1(entities[e], dt)]
        /\ deaths' = [e \in DOMAIN entities |->
                        deaths[e] + IF entities[e].state = "Dying"
                                       /\ Controller!Completes(Controller!Advanced(entities[e], dt))
                                    THEN 1 ELSE 0]
    BY <1>1 DEF Controller!update, Next1
  <2>2. ASSUME NEW e \in DOMAIN entities
        PROVE  /\ EntryIsSound(entities'[e]) /\ StaysDown(entities[e], entities'[e])
               /\ deaths'[e] = 0 \/ (deaths'[e] = 1 /\ entities'[e].state = "Dead")
    <3>1. EntryIsSound(entities[e]) /\ (deaths[e] = 0 \/ (deaths[e] = 1 /\ entities[e].state = "Dead"))
      BY DEF EntityInv
    <3>2. entities'[e] = Next1(entities[e], dt)
      BY <2>1
    <3>3. /\ EntryIsSound(entities'[e]) /\ StaysDown(entities[e], entities'[e])
          /\ entities[e].state = "Dying" /\ Controller!Completes(Controller!Advanced(entities[e], dt))
               => entities'[e].state = "Dead"
      BY <3>1, <3>2, NextIsSound
    <3>4. deaths'[e] = 0 \/ (deaths'[e] = 1 /\ entities'[e].state = "Dead")
      BY <2>1, <3>1, <3>3 DEF StaysDown
    <3> QED
      BY <3>3, <3>4
  <2> QED
    BY <2>1, <2>2 DEF EntityInv, NobodyRisesNow
<1>2. ASSUME NEW e \in EntityId, NEW s \in Controller!AnimationState, Controller!playAnimation(e, s)
      PROVE  EntityInv' /\ NobodyRisesNow
  <2>1. /\ DOMAIN entities' = DOMAIN entities \cup {e} /\ DOMAIN deaths' = DOMAIN entities'
        /\ \A x \in DOMAIN entities : x # e => entities'[x] = entities[x]
        /\ entities'[e] = IF e \in DOMAIN entities THEN Controller!Played(entities[e], s)
                          ELSE Controller!Entered(s)
        /\ \A x \in DOMAIN entities : deaths'[x] = deaths[x]
        /\ e \notin DOMAIN entities => deaths'[e] = 0
    BY <1>2 DEF Controller!playAnimation, EntityInv
  <2>2. EntryIsSound(entities'[e]) /\ (e \in DOMAIN entities => StaysDown(entities[e], entities'[e]))
    BY <2>1, EnteredIsSound, PlayedIsSound DEF EntityInv
  <2> QED
    BY <2>1, <2>2 DEF EntityInv, NobodyRisesNow, StaysDown
<1>3. ASSUME NEW e \in EntityId, Controller!removeEntity(e)
      PROVE  EntityInv' /\ NobodyRisesNow
  <2>1. /\ DOMAIN entities' = DOMAIN entities \ {e} /\ DOMAIN deaths' = DOMAIN entities'
        /\ \A x \in DOMAIN entities' : entities'[x] = entities[x] /\ deaths'[x] = deaths[x]
    BY <1>3 DEF Controller!removeEntity, Controller!Restrict, EntityInv
  <2> QED
    BY <2>1 DEF EntityInv, NobodyRisesNow, StaysDown
<1> QED
  BY <1>1, <1>2, <1>3 DEF Controller!Next, Controller!Update

\* Whatever is played on an entity and whatever the callback chains to what
\* completes, entities that die stay dead until they are removed, and each
\* death is reported once (AnimationController).
THEOREM DeadAlwaysStayDead == Spec => DeadStayDead
<1>1. Init => EntityInv
  BY DEF Init, Controller!Init, EntityInv
<1>2. EntityInv /\ UNCHANGED controllerVars => EntityInv' /\ NobodyRisesNow
  BY DEF EntityInv, controllerVars, NobodyRisesNow, StaysDown
<1>3. EntityInv /\ [Next]_<<part, app, fightVars, controllerVars, particleVars, audioVars, modelVars>>
      => EntityInv' /\ NobodyRisesNow
  <2>1. ControllerStep => Controller!Next
    BY DEF ControllerStep
  <2>2. MenuStep \/ FightStep \/ ParticleStep \/ AudioStep \/ ModelStep => UNCHANGED controllerVars
    BY DEF MenuStep, FightStep, ParticleStep, AudioStep, ModelStep
  <2> QED
    BY <1>2, <2>1, <2>2, EntitiesGoOn DEF Next
<1>4. NobodyRisesNow =>
        \A e \in DOMAIN entities \cap DOMAIN entities' :
          /\ entities[e].state = "Dead" => entities'[e].state = "Dead"
          /\ entities[e].state = "Dying" => entities'[e].state \in {"Dying", "Dead"}
  BY DEF NobodyRisesNow, StaysDown
<1>5. EntityInv => Controller!TypeOK /\ Controller!DeathReportedOnce
  BY EntityInvSuffices
<1> QED
  BY <1>1, <1>3, <1>4, <1>5, PTL
     DEF Spec, DeadStayDead, Controller!DeadStayDead, Controller!NobodyRises, Controller!vars

-----------------------------------------------------------------------------
(* The screens. *)

ScreenNames == {"MainMenu", "Settings", "InGame"}

Fade ==
  [direction : {"FadeIn", "FadeOut"}, progress : 0 .. FadeDuration, active : BOOLEAN, complete : BOOLEAN]

\* A fade goes on, or it is over.
FadeIsSound(f) ==
  /\ f \in Fade
  /\ f.active <=> ~f.complete
  /\ f.complete => f.progress = FadeDuration

AppStates ==
  [screen : ScreenNames, pending : ScreenNames, fade : Fade, gameInitialized : BOOLEAN,
   running : BOOLEAN, setUps : 0 .. 1, dt : MenuFrames \cup {0}, played : BOOLEAN]

\* AppState between two frames, and within one.
AppIsSound(a) ==
  /\ a \in AppStates /\ FadeIsSound(a.fade)
  /\ a.gameInitialized <=> a.setUps = 1
  /\ a.screen = "InGame" \/ a.played => a.setUps = 1

\* What is dark at the end of a frame is about to become light.
ScreenInv == AppIsSound(app) /\ ~Menus!Black(app.fade)

LEMMA ScreenConstants ==
  /\ FadeDuration \in Nat /\ FadeDuration > 0
  /\ \A dt \in MenuFrames : dt \in Nat
BY ScreensAssumption DEF Menus!ScreensAssumption

LEMMA ScreenInvSuffices == ScreenInv => Menus!TypeOK /\ Menus!PlayedWhenSetUp
<1> SUFFICES ASSUME ScreenInv
             PROVE  Menus!TypeOK /\ Menus!PlayedWhenSetUp
  OBVIOUS
<1>1. AppIsSound(app) /\ DOMAIN Menus!Buttons = ScreenNames
  BY DEF ScreenInv, Menus!Buttons, ScreenNames
<1>2. {app.fade.active, app.fade.complete, app.gameInitialized, app.running, app.played} \subseteq BOOLEAN
  BY <1>1, Zenon DEF AppIsSound, AppStates, Fade
<1>3. /\ app.fade.direction \in {"FadeIn", "FadeOut"} /\ app.fade.progress \in 0 .. FadeDuration
      /\ ~(app.fade.active /\ app.fade.complete)
      /\ app.setUps \in 0 .. 1 /\ app.dt \in MenuFrames \cup {0}
  BY <1>1 DEF AppIsSound, FadeIsSound, AppStates, Fade
<1>4. app.screen \in ScreenNames /\ app.pending \in ScreenNames
  BY <1>1 DEF AppIsSound, AppStates
<1>5. app.screen = "InGame" \/ app.played => app.setUps = 1 /\ app.gameInitialized
  BY <1>1 DEF AppIsSound
<1> QED
  BY <1>1, <1>2, <1>3, <1>4, <1>5 DEF Menus!TypeOK, Menus!PlayedWhenSetUp

LEMMA StartedIs ==
  ASSUME NEW f, FadeIsSound(f), NEW direction \in {"FadeIn", "FadeOut"}, NEW g, g = Menus!Started(f, direction)
  PROVE  FadeIsSound(g) /\ g.direction = direction /\ g.progress = 0 /\ g.active /\ ~g.complete
<1>1. f \in Fade /\ 0 \in 0 .. FadeDuration
  BY ScreenConstants DEF FadeIsSound
<1>2. g = [f EXCEPT !.direction = direction, !.progress = 0, !.active = TRUE, !.complete = FALSE]
  BY DEF Menus!Started
<1>3. g \in Fade
  BY <1>1, <1>2 DEF Fade
<1>4. g.direction = direction /\ g.progress = 0
  BY <1>1, <1>2 DEF Fade
<1>5. g.active = TRUE
  BY <1>1, <1>2 DEF Fade
<1>6. g.complete = FALSE
  BY <1>1, <1>2 DEF Fade
<1> QED
  BY <1>3, <1>4, <1>5, <1>6 DEF FadeIsSound

LEMMA UpdatedIs ==
  ASSUME NEW f, FadeIsSound(f), NEW dt \in Nat, NEW g, g = Menus!Updated(f, dt)
  PROVE  /\ FadeIsSound(g) /\ g.direction = f.direction
         /\ f.progress <= g.progress /\ g.progress <= f.progress + dt
<1>1. f \in Fade /\ f.progress \in 0 .. FadeDuration /\ FadeDuration \in 0 .. FadeDuration
  BY ScreenConstants DEF FadeIsSound, Fade
<1>2. CASE ~f.active
  BY <1>1, <1>2, ScreenConstants DEF Menus!Updated
<1>3. CASE f.active /\ f.progress + dt >= FadeDuration
  <2>1. g = [f EXCEPT !.progress = FadeDuration, !.active = FALSE, !.complete = TRUE]
    BY <1>3 DEF Menus!Updated
  <2>2. g \in Fade
    BY <1>1, <2>1 DEF Fade
  <2>3. g.direction = f.direction /\ g.progress = FadeDuration
    BY <1>1, <2>1 DEF Fade
  <2>4. g.active = FALSE
    BY <1>1, <2>1 DEF Fade
  <2>5. g.complete = TRUE
    BY <1>1, <2>1 DEF Fade
  <2> QED
    BY <1>1, <1>3, <2>2, <2>3, <2>4, <2>5, ScreenConstants DEF FadeIsSound
<1>4. CASE f.active /\ ~(f.progress + dt >= FadeDuration)
  <2>1. g = [f EXCEPT !.progress = f.progress + dt] /\ f.progress + dt \in 0 .. FadeDuration
    BY <1>1, <1>4, ScreenConstants DEF Menus!Updated
  <2>2. g \in Fade
    BY <1>1, <2>1 DEF Fade
  <2>3. g.direction = f.direction /\ g.progress = f.progress + dt
    BY <1>1, <2>1 DEF Fade
  <2>4. g.active = f.active
    BY <1>1, <2>1 DEF Fade
  <2>5. g.complete = f.complete
    BY <1>1, <2>1 DEF Fade
  <2> QED
    BY <1>1, <1>4, <2>2, <2>3, <2>4, <2>5 DEF FadeIsSound
<1> QED
  BY <1>2, <1>3, <1>4

LEMMA ScreensBegin == Init => ScreenInv
BY ScreenConstants DEF Init, Menus!Init, ScreenInv, AppIsSound, FadeIsSound, AppStates, Fade, ScreenNames,
                       Menus!Black

LEMMA HandleTransitionCompleteIs ==
  ASSUME NEW a, AppIsSound(a), NEW b, b = Menus!HandleTransitionComplete(a)
  PROVE  /\ AppIsSound(b) /\ b.dt = a.dt
         /\ b.fade.direction = "FadeIn" /\ b.fade.progress = 0 /\ b.fade.active /\ ~b.fade.complete
<1> DEFINE enters == a.pending = "InGame" /\ ~a.gameInitialized
           fade == Menus!Started(a.fade, "FadeIn")
<1>1. /\ a \in AppStates /\ FadeIsSound(a.fade)
      /\ a.gameInitialized <=> a.setUps = 1
      /\ a.played => a.setUps = 1
  BY DEF AppIsSound
<1>2. /\ FadeIsSound(fade) /\ fade.direction = "FadeIn" /\ fade.progress = 0 /\ fade.active /\ ~fade.complete
  BY <1>1, StartedIs
<1>3. fade \in Fade
  BY <1>2 DEF FadeIsSound
<1> DEFINE known == a.gameInitialized \/ enters
           setUps == a.setUps + IF enters THEN 1 ELSE 0
<1>0. /\ b.screen = a.pending /\ b.fade = fade /\ b.dt = a.dt /\ b.setUps = setUps
      /\ b = [a EXCEPT !.screen = a.pending, !.fade = fade, !.gameInitialized = known, !.setUps = setUps]
  BY <1>1 DEF Menus!HandleTransitionComplete, AppStates
<1> HIDE DEF fade, known, setUps
<1>4. CASE enters
  <2>0. known = TRUE /\ setUps = 1
    BY <1>1, <1>4 DEF known, setUps, AppStates
  <2>1. b = [a EXCEPT !.screen = a.pending, !.fade = fade, !.gameInitialized = TRUE, !.setUps = 1]
    BY <1>0, <2>0
  <2>one. 1 \in 0 .. 1
    OBVIOUS
  <2>2. b \in AppStates
    BY <1>1, <1>3, <2>1, <2>one DEF AppStates
  <2>3. b.fade = fade /\ b.setUps = 1 /\ b.dt = a.dt
    BY <1>1, <2>1 DEF AppStates
  <2>4. b.gameInitialized = TRUE
    BY <1>1, <2>1 DEF AppStates
  <2> QED
    BY <1>2, <2>2, <2>3, <2>4 DEF AppIsSound
<1>5. CASE ~enters
  <2>0. known = a.gameInitialized /\ setUps = a.setUps
    BY <1>1, <1>5 DEF known, setUps, AppStates
  <2>1. b = [a EXCEPT !.screen = a.pending, !.fade = fade]
    <3>1. b = [a EXCEPT !.screen = a.pending, !.fade = fade, !.gameInitialized = a.gameInitialized,
                        !.setUps = a.setUps]
      BY <1>0, <2>0
    <3> QED
      BY <1>1, <3>1 DEF AppStates
  <2>2. b \in AppStates
    BY <1>1, <1>3, <2>1 DEF AppStates
  <2>3. b.fade = fade /\ b.setUps = a.setUps /\ b.dt = a.dt /\ b.screen = a.pending
    BY <1>1, <2>1 DEF AppStates
  <2>4. b.gameInitialized = a.gameInitialized
    BY <1>1, <2>1 DEF AppStates
  <2>5. b.played = a.played
    BY <1>1, <2>1 DEF AppStates
  <2> QED
    BY <1>1, <1>2, <1>5, <2>2, <2>3, <2>4, <2>5 DEF AppIsSound
<1> QED
  BY <1>4, <1>5

LEMMA GoToIs ==
  ASSUME NEW a, AppIsSound(a), NEW screen \in ScreenNames, NEW b, b = Menus!GoTo(a, screen)
  PROVE  /\ AppIsSound(b) /\ b.dt = a.dt /\ b.screen = a.screen
         /\ b.fade.direction = "FadeOut" /\ b.fade.progress = 0 /\ ~b.fade.complete
<1> DEFINE fade == Menus!Started(a.fade, "FadeOut")
<1>1. /\ a \in AppStates /\ FadeIsSound(a.fade)
      /\ a.gameInitialized <=> a.setUps = 1
      /\ a.screen = "InGame" \/ a.played => a.setUps = 1
  BY DEF AppIsSound
<1>2. FadeIsSound(fade) /\ fade.direction = "FadeOut" /\ fade.progress = 0 /\ ~fade.complete
  BY <1>1, StartedIs
<1>3. fade \in Fade
  BY <1>2 DEF FadeIsSound
<1>4. b = [a EXCEPT !.pending = screen, !.fade = fade]
  BY <1>1 DEF Menus!GoTo, AppStates
<1> HIDE DEF fade
<1>5. b \in AppStates
  BY <1>1, <1>3, <1>4 DEF AppStates
<1>6. b.fade = fade /\ b.setUps = a.setUps /\ b.dt = a.dt /\ b.screen = a.screen
  BY <1>1, <1>4 DEF AppStates
<1>7. b.gameInitialized = a.gameInitialized
  BY <1>1, <1>4 DEF AppStates
<1>8. b.played = a.played
  BY <1>1, <1>4 DEF AppStates
<1> QED
  BY <1>1, <1>2, <1>5, <1>6, <1>7, <1>8 DEF AppIsSound

\* Input is of no use while it is dark, and may make what is light darker.
LEMMA UpdateScreenIs ==
  ASSUME NEW a, AppIsSound(a), ~Menus!Black(a.fade), NEW in, NEW b, b = Menus!UpdateScreen(a, in)
  PROVE  /\ AppIsSound(b) /\ ~Menus!Black(b.fade)
         /\ b.dt = a.dt /\ b.screen = a.screen /\ Menus!Alpha(b.fade) = Menus!Alpha(a.fade)
<1>1. /\ a \in AppStates /\ FadeIsSound(a.fade) /\ a.fade \in Fade
      /\ a.gameInitialized <=> a.setUps = 1
      /\ a.screen = "InGame" \/ a.played => a.setUps = 1
  BY DEF AppIsSound, FadeIsSound
<1>2. ~a.fade.active => a.fade.direction = "FadeIn" /\ a.fade.progress = FadeDuration
  BY <1>1, ScreenConstants DEF FadeIsSound, Fade, Menus!Black, Menus!Alpha
<1>3. ASSUME NEW screen \in ScreenNames, ~a.fade.active, b = Menus!GoTo(a, screen)
      PROVE  /\ AppIsSound(b) /\ ~Menus!Black(b.fade)
             /\ b.dt = a.dt /\ b.screen = a.screen /\ Menus!Alpha(b.fade) = Menus!Alpha(a.fade)
  <2>1. /\ AppIsSound(b) /\ b.dt = a.dt /\ b.screen = a.screen
        /\ b.fade.direction = "FadeOut" /\ b.fade.progress = 0 /\ ~b.fade.complete
    BY <1>3, GoToIs
  <2> QED
    BY <1>2, <1>3, <2>1, ScreenConstants DEF Menus!Black, Menus!Alpha
<1>4. ASSUME NEW k \in BOOLEAN, b = [a EXCEPT !.running = k]
      PROVE  AppIsSound(b) /\ b.fade = a.fade /\ b.dt = a.dt /\ b.screen = a.screen
  <2>1. b \in AppStates
    BY <1>1, <1>4 DEF AppStates
  <2>2. b.fade = a.fade /\ b.setUps = a.setUps /\ b.dt = a.dt /\ b.screen = a.screen
    BY <1>1, <1>4 DEF AppStates
  <2>3. b.gameInitialized = a.gameInitialized
    BY <1>1, <1>4 DEF AppStates
  <2>4. b.played = a.played
    BY <1>1, <1>4 DEF AppStates
  <2> QED
    BY <1>1, <2>1, <2>2, <2>3, <2>4 DEF AppIsSound
<1>5. CASE a.screen = "MainMenu"
  <2>1. b = Menus!UpdateMainMenu(a, in)
    BY <1>5 DEF Menus!UpdateScreen
  <2>2. \/ b = a \/ (~a.fade.active /\ b = Menus!GoTo(a, "InGame"))
        \/ (~a.fade.active /\ b = Menus!GoTo(a, "Settings"))
        \/ b = [a EXCEPT !.running = FALSE]
    BY <2>1, Zenon DEF Menus!UpdateMainMenu
  <2> QED
    BY <1>3, <1>4, <2>2 DEF ScreenNames
<1>6. CASE a.screen = "Settings"
  <2>1. b = Menus!UpdateSettings(a, in)
    BY <1>6 DEF Menus!UpdateScreen
  <2>2. b = a \/ (~a.fade.active /\ b = Menus!GoTo(a, "MainMenu"))
    BY <2>1 DEF Menus!UpdateSettings
  <2> QED
    BY <1>3, <2>2 DEF ScreenNames
<1>7. CASE a.screen = "InGame"
  <2>1. b = [a EXCEPT !.played = ~a.fade.active]
    BY <1>1, <1>7 DEF Menus!UpdateScreen, Menus!UpdateInGame, AppStates
  <2>2. b \in AppStates
    BY <1>1, <2>1 DEF AppStates
  <2>3. b.fade = a.fade /\ b.setUps = a.setUps /\ b.dt = a.dt /\ b.screen = a.screen
    BY <1>1, <2>1 DEF AppStates
  <2>4. b.gameInitialized = a.gameInitialized
    BY <1>1, <2>1 DEF AppStates
  <2> QED
    BY <1>1, <1>7, <2>2, <2>3, <2>4 DEF AppIsSound
<1> QED
  BY <1>1, <1>5, <1>6, <1>7 DEF AppStates, ScreenNames

\* The light changes no faster than time passes, and screens in the dark.
LightIsSteady(a, b) ==
  LET change == Menus!Alpha(b.fade) - Menus!Alpha(a.fade)
  IN  /\ change \in -b.dt .. b.dt
      /\ b.screen # a.screen => Menus!Alpha(b.fade) = FadeDuration

LEMMA LoopBodyIs ==
  ASSUME NEW a, AppIsSound(a), NEW dt \in MenuFrames, NEW in, NEW b, b = Menus!LoopBody(a, in, dt)
  PROVE  AppIsSound(b) /\ ~Menus!Black(b.fade) /\ LightIsSteady(a, b)
<1> DEFINE fade == Menus!Updated(a.fade, dt)
           faded == [a EXCEPT !.fade = fade, !.dt = dt, !.played = FALSE]
           next == IF Menus!Black(faded.fade) THEN Menus!HandleTransitionComplete(faded) ELSE faded
<1>1. /\ a \in AppStates /\ FadeIsSound(a.fade) /\ a.fade \in Fade
      /\ a.gameInitialized <=> a.setUps = 1
      /\ a.screen = "InGame" \/ a.played => a.setUps = 1
  BY DEF AppIsSound, FadeIsSound
<1>2. dt \in Nat /\ dt \in MenuFrames \cup {0}
  BY ScreenConstants
<1>3. /\ FadeIsSound(fade) /\ fade \in Fade /\ fade.direction = a.fade.direction
      /\ a.fade.progress <= fade.progress /\ fade.progress <= a.fade.progress + dt
  BY <1>1, <1>2, UpdatedIs DEF FadeIsSound
<1>4. b = Menus!UpdateScreen(next, in)
  BY <1>1 DEF Menus!LoopBody, AppStates
<1> HIDE DEF fade
<1>5. faded \in AppStates
  BY <1>1, <1>2, <1>3 DEF AppStates
<1>6. faded.fade = fade /\ faded.dt = dt /\ faded.screen = a.screen /\ faded.setUps = a.setUps
  BY <1>1 DEF AppStates
<1>7. faded.gameInitialized = a.gameInitialized
  BY <1>1 DEF AppStates
<1>8. faded.played = FALSE
  BY <1>1 DEF AppStates
<1> HIDE DEF faded
<1>9. AppIsSound(faded)
  BY <1>1, <1>3, <1>5, <1>6, <1>7, <1>8 DEF AppIsSound
<1>10. Menus!Alpha(fade) - Menus!Alpha(a.fade) \in -dt .. dt
  BY <1>1, <1>2, <1>3, ScreenConstants DEF Menus!Alpha, Fade
<1>11. /\ AppIsSound(next) /\ ~Menus!Black(next.fade) /\ next.dt = dt
       /\ Menus!Alpha(next.fade) = Menus!Alpha(fade)
       /\ next.screen # a.screen => Menus!Alpha(next.fade) = FadeDuration
  <2>1. CASE Menus!Black(faded.fade)
    <3>1. /\ AppIsSound(next) /\ next.dt = dt
          /\ next.fade.direction = "FadeIn" /\ next.fade.progress = 0 /\ ~next.fade.complete
      BY <1>6, <1>9, <2>1, HandleTransitionCompleteIs
    <3>2. Menus!Alpha(next.fade) = FadeDuration
      BY <3>1, ScreenConstants DEF Menus!Alpha
    <3>3. Menus!Alpha(fade) = FadeDuration
      BY <1>3, <1>6, <2>1, ScreenConstants DEF Menus!Black, Menus!Alpha, Fade
    <3> QED
      BY <3>1, <3>2, <3>3 DEF Menus!Black
  <2>2. CASE ~Menus!Black(faded.fade)
    BY <1>6, <1>9, <2>2
  <2> QED
    BY <2>1, <2>2
<1> HIDE DEF next
<1>12. /\ AppIsSound(b) /\ ~Menus!Black(b.fade)
       /\ b.dt = dt /\ b.screen = next.screen /\ Menus!Alpha(b.fade) = Menus!Alpha(next.fade)
  BY <1>4, <1>11, UpdateScreenIs
<1> QED
  BY <1>10, <1>11, <1>12 DEF LightIsSteady

LEMMA ScreensGoOn ==
  ASSUME ScreenInv, [Menus!Next]_app
  PROVE  ScreenInv' /\ (app' = app \/ LightIsSteady(app, app'))
<1>1. CASE app' = app
  BY <1>1 DEF ScreenInv
<1>2. CASE Menus!Next
  <2>1. PICK in \in Menus!Inputs, dt \in MenuFrames :
          app' = IF Menus!WindowShouldClose(in) THEN [app EXCEPT !.running = FALSE]
                 ELSE Menus!LoopBody(app, in, dt)
    BY <1>2 DEF Menus!Next, Menus!Frame
  <2>2. CASE Menus!WindowShouldClose(in)
    <3>1. app' = [app EXCEPT !.running = FALSE] /\ app \in AppStates
      BY <2>1, <2>2 DEF ScreenInv, AppIsSound
    <3>2. app' \in AppStates
      BY <3>1 DEF AppStates
    <3>3. /\ app'.fade = app.fade /\ app'.setUps = app.setUps /\ app'.dt = app.dt
          /\ app'.screen = app.screen
      BY <3>1 DEF AppStates
    <3>4. app'.gameInitialized = app.gameInitialized
      BY <3>1 DEF AppStates
    <3>5. app'.played = app.played
      BY <3>1 DEF AppStates
    <3>6. AppIsSound(app')
      BY <3>2, <3>3, <3>4, <3>5 DEF ScreenInv, AppIsSound
    <3>7. LightIsSteady(app, app')
      <4>1. app.dt \in Nat /\ app.fade \in Fade
        BY <3>1, ScreenConstants DEF AppStates
      <4> QED
        BY <3>3, <4>1, ScreenConstants DEF LightIsSteady, Menus!Alpha, Fade
    <3> QED
      BY <3>3, <3>6, <3>7 DEF ScreenInv
  <2>3. CASE ~Menus!WindowShouldClose(in)
    <3>1. app' = Menus!LoopBody(app, in, dt)
      BY <2>1, <2>3
    <3>2. AppIsSound(app') /\ ~Menus!Black(app'.fade) /\ LightIsSteady(app, app')
      BY <3>1, LoopBodyIs DEF ScreenInv
    <3> QED
      BY <3>2 DEF ScreenInv
  <2> QED
    BY <2>2, <2>3
<1> QED
  BY <1>1, <1>2

\* Whatever is pressed in whatever frame, screens are exchanged in the dark,
\* the light never jumps, and the game is set up once, before it is played
\* (main's loop, Transition, the menus).
THEOREM ScreensAlwaysSound == Spec => ScreensAreSound
<1>1. Init => ScreenInv
  BY ScreensBegin
<1>2. ScreenInv /\ [Next]_<<part, app, fightVars, controllerVars, particleVars, audioVars, modelVars>>
      => ScreenInv' /\ (app' = app \/ LightIsSteady(app, app'))
  <2>1. [Next]_<<part, app, fightVars, controllerVars, particleVars, audioVars, modelVars>> => [Menus!Next]_app
    BY DEF Next, MenuStep, FightStep, ControllerStep, ParticleStep, AudioStep, ModelStep
  <2> QED
    BY <2>1, ScreensGoOn
<1>3. ScreenInv => Menus!TypeOK /\ Menus!PlayedWhenSetUp
  BY ScreenInvSuffices
<1>4. app' = app \/ LightIsSteady(app, app')
      => [LET change == Menus!Alpha(app'.fade) - Menus!Alpha(app.fade)
          IN  /\ change \in -app'.dt .. app'.dt
              /\ app'.screen # app.screen => Menus!Alpha(app'.fade) = FadeDuration]_app
  BY DEF LightIsSteady
<1> QED
  BY <1>1, <1>2, <1>3, <1>4, PTL
     DEF Spec, ScreensAreSound, Menus!ScreensAreSound, Menus!LightChangesSlowly, Menus!vars

-----------------------------------------------------------------------------
(* Particles. *)

LEMMA ParticleConstants ==
  /\ MaxParticles \in Nat /\ MaxParticles > 0
  /\ ParticleFrames \subseteq Nat \ {0} /\ MaxBurst \in Nat
BY ParticleAssumption DEF Particles!ParticleAssumption

\* What is seen of a particle of one of the default types for as long as it lives.
LEMMA Fading ==
  ASSUME NEW type \in Particles!ParticleType, NEW age \in Nat,
         age < Particles!defaultProperties[type].lifetime
  PROVE  255 - Particles!defaultProperties[type].fadeRate * age \in 1 .. 255
<1>1. type \in {"CombatHit", "UnitSpawn", "BuildingComplete", "Capture", "LevelUp"}
  BY DEF Particles!ParticleType, Particles!defaultProperties
<1>2. CASE type = "CombatHit"
  <2>1. /\ Particles!defaultProperties[type].lifetime = 6
        /\ Particles!defaultProperties[type].fadeRate = 40
    BY <1>2 DEF Particles!defaultProperties
  <2> QED
    BY <2>1
<1>3. CASE type = "UnitSpawn"
  <2>1. /\ Particles!defaultProperties[type].lifetime = 8
        /\ Particles!defaultProperties[type].fadeRate = 30
    BY <1>3 DEF Particles!defaultProperties
  <2> QED
    BY <2>1
<1>4. CASE type = "BuildingComplete"
  <2>1. /\ Particles!defaultProperties[type].lifetime = 10
        /\ Particles!defaultProperties[type].fadeRate = 24
    BY <1>4 DEF Particles!defaultProperties
  <2> QED
    BY <2>1
<1>5. CASE type = "Capture"
  <2>1. /\ Particles!defaultProperties[type].lifetime = 9
        /\ Particles!defaultProperties[type].fadeRate = 27
    BY <1>5 DEF Particles!defaultProperties
  <2> QED
    BY <2>1
<1>6. CASE type = "LevelUp"
  <2>1. /\ Particles!defaultProperties[type].lifetime = 12
        /\ Particles!defaultProperties[type].fadeRate = 20
    BY <1>6 DEF Particles!defaultProperties
  <2> QED
    BY <2>1
<1> QED
  BY <1>1, <1>2, <1>3, <1>4, <1>5, <1>6

LEMMA Lifetimes ==
  ASSUME NEW type \in Particles!ParticleType
  PROVE  /\ Particles!defaultProperties[type].lifetime \in Nat \ {0}
         /\ Particles!defaultProperties[type].fadeRate \in Nat
<1>1. type \in {"CombatHit", "UnitSpawn", "BuildingComplete", "Capture", "LevelUp"}
  BY DEF Particles!ParticleType, Particles!defaultProperties
<1> QED
  BY <1>1 DEF Particles!defaultProperties

\* A particle that lives fades with its age; of one that is dead nothing is left.
Fades(p) ==
  IF p.alive
  THEN /\ p.age < Particles!defaultProperties[p.type].lifetime
       /\ p.alpha = 255 - Particles!defaultProperties[p.type].fadeRate * p.age
  ELSE p = Particles!DeadParticle

PoolState == [pool : [Particles!Slots -> Particles!Particle], hint : Particles!Slots]

AllFade(s) == s \in PoolState /\ \A x \in Particles!Slots : Fades(s.pool[x])

ParticleInv == AllFade([pool |-> pool, hint |-> searchHint])

\* Once round the pool is once for every slot.
LEMMA Round ==
  ASSUME NEW M \in Nat \ {0}, NEW h \in 0 .. M - 1
  PROVE  /\ \A i \in 0 .. M - 1 : (h + i) % M \in 0 .. M - 1
         /\ \A x \in 0 .. M - 1 : \E i \in 0 .. M - 1 : (h + i) % M = x
<1>1. \A i \in 0 .. M - 1 : (h + i) % M \in 0 .. M - 1
  OBVIOUS
<1>2. ASSUME NEW x \in 0 .. M - 1
      PROVE  \E i \in 0 .. M - 1 : (h + i) % M = x
  <2>1. x % M = x
    OBVIOUS
  <2>2. (x + M) % M = x
    OBVIOUS
  <2>3. CASE x >= h
    <3>1. x - h \in 0 .. M - 1 /\ h + (x - h) = x
      BY <2>3
    <3> QED
      BY <2>1, <3>1
  <2>4. CASE x < h
    <3>1. x - h + M \in 0 .. M - 1 /\ h + (x - h + M) = x + M
      BY <2>4
    <3> QED
      BY <2>2, <3>1
  <2> QED
    BY <2>3, <2>4
<1> QED
  BY <1>1, <1>2

LEMMA FreshFades ==
  ASSUME NEW type \in Particles!ParticleType
  PROVE  /\ Particles!Fresh(type) \in Particles!Particle /\ Fades(Particles!Fresh(type))
         /\ Particles!Fresh(type).alive
<1>1. Particles!defaultProperties[type].lifetime \in Nat \ {0} /\ Particles!defaultProperties[type].fadeRate \in Nat
  BY Lifetimes
<1> DEFINE r == Particles!defaultProperties[type].fadeRate
<1>2. 255 = 255 - r * 0 /\ 255 \in 0 .. 255
  BY <1>1
<1>3. /\ Particles!Fresh(type).alive = TRUE /\ Particles!Fresh(type).type = type
      /\ Particles!Fresh(type).age = 0 /\ Particles!Fresh(type).alpha = 255
  BY DEF Particles!Fresh
<1>4. Particles!Fresh(type) \in Particles!Particle
  BY <1>2 DEF Particles!Fresh, Particles!Particle
<1> QED
  BY <1>1, <1>2, <1>3, <1>4 DEF Fades

LEMMA DeadFades == Particles!DeadParticle \in Particles!Particle /\ Fades(Particles!DeadParticle)
<1>1. "CombatHit" \in Particles!ParticleType
  BY DEF Particles!ParticleType, Particles!defaultProperties
<1>2. Particles!DeadParticle \in Particles!Particle
  BY <1>1 DEF Particles!DeadParticle, Particles!Particle
<1>3. ~Particles!DeadParticle.alive
  BY DEF Particles!DeadParticle
<1> QED
  BY <1>2, <1>3 DEF Fades

\* A dead particle is found wherever the hint is, unless all live.
LEMMA DeadSlotIsFound ==
  ASSUME NEW p \in [Particles!Slots -> Particles!Particle], NEW hint \in Particles!Slots
  PROVE  \/ /\ Particles!findDeadSlot(p, hint) = MaxParticles
            /\ \A x \in Particles!Slots : p[x].alive
         \/ /\ Particles!findDeadSlot(p, hint) \in Particles!Slots
            /\ ~p[Particles!findDeadSlot(p, hint)].alive
<1> DEFINE ahead == {i \in Particles!Slots : ~p[(hint + i) % MaxParticles].alive}
<1>1. /\ \A i \in Particles!Slots : (hint + i) % MaxParticles \in Particles!Slots
      /\ \A x \in Particles!Slots : \E i \in Particles!Slots : (hint + i) % MaxParticles = x
  <2>1. MaxParticles \in Nat \ {0} /\ Particles!Slots = 0 .. MaxParticles - 1
    BY ParticleConstants DEF Particles!Slots
  <2>2. hint \in 0 .. MaxParticles - 1
    BY <2>1
  <2>3. /\ \A i \in 0 .. MaxParticles - 1 : (hint + i) % MaxParticles \in 0 .. MaxParticles - 1
        /\ \A x \in 0 .. MaxParticles - 1 : \E i \in 0 .. MaxParticles - 1 : (hint + i) % MaxParticles = x
    BY <2>1, <2>2, Round, Zenon
  <2> QED
    BY <2>1, <2>3, Zenon
<1>2. CASE ahead = {}
  <2>1. Particles!findDeadSlot(p, hint) = MaxParticles
    BY <1>2 DEF Particles!findDeadSlot
  <2>2. ASSUME NEW x \in Particles!Slots
        PROVE  p[x].alive
    <3>1. PICK i \in Particles!Slots : (hint + i) % MaxParticles = x
      BY <1>1
    <3> QED
      BY <1>2, <3>1
  <2> QED
    BY <2>1, <2>2
<1>3. CASE ahead # {}
  <2>1. ahead \in SUBSET Nat
    BY DEF Particles!Slots
  <2>2. \E n \in ahead : \A m \in ahead : n <= m
    BY <1>3, <2>1, Smallest
  <2>3. Particles!Min(ahead) \in ahead
    <3> HIDE DEF ahead
    <3> QED
      BY <2>2 DEF Particles!Min
  <2>4. Particles!findDeadSlot(p, hint) = (hint + Particles!Min(ahead)) % MaxParticles
    BY <1>3 DEF Particles!findDeadSlot
  <2> QED
    BY <1>1, <2>3, <2>4
<1> QED
  BY <1>2, <1>3

\* The slots of what lives.
Lives(p) == {x \in Particles!Slots : p[x].alive}

\* A round of emit's loop takes a dead particle's place, or finds none.
LEMMA OneRound ==
  ASSUME NEW s, AllFade(s), NEW type \in Particles!ParticleType
  PROVE  LET t == Particles!EmitOne(type)[s]
         IN  /\ AllFade(t)
             /\ \A x \in Lives(s.pool) : t.pool[x] = s.pool[x]
             /\ \/ t = s /\ Lives(s.pool) = Particles!Slots
                \/ \E slot \in Particles!Slots \ Lives(s.pool) :
                     Lives(t.pool) = Lives(s.pool) \cup {slot}
<1> DEFINE t == Particles!EmitOne(type)[s]
           slot == Particles!findDeadSlot(s.pool, s.hint)
<1>1. s \in PoolState /\ s.pool \in [Particles!Slots -> Particles!Particle] /\ s.hint \in Particles!Slots
  BY DEF AllFade, PoolState
<1>2. t = IF slot = MaxParticles THEN s
          ELSE [pool |-> [s.pool EXCEPT ![slot] = Particles!Fresh(type)], hint |-> (slot + 1) % MaxParticles]
  <2>1. s \in [pool : [Particles!Slots -> Particles!Particle], hint : Particles!Slots]
    BY <1>1 DEF PoolState
  <2> QED
    BY <2>1 DEF Particles!EmitOne
<1>3. \/ slot = MaxParticles /\ \A x \in Particles!Slots : s.pool[x].alive
      \/ slot \in Particles!Slots /\ ~s.pool[slot].alive
  BY <1>1, DeadSlotIsFound
<1> HIDE DEF t, slot
<1>4. CASE slot = MaxParticles /\ \A x \in Particles!Slots : s.pool[x].alive
  <2>1. t = s /\ Lives(s.pool) = Particles!Slots
    BY <1>2, <1>4 DEF Lives
  <2> QED
    BY <2>1 DEF t
<1>5. CASE slot \in Particles!Slots /\ ~s.pool[slot].alive
  <2>1. slot # MaxParticles /\ (slot + 1) % MaxParticles \in Particles!Slots
    BY <1>5, ParticleConstants DEF Particles!Slots
  <2>2. t = [pool |-> [s.pool EXCEPT ![slot] = Particles!Fresh(type)], hint |-> (slot + 1) % MaxParticles]
    BY <1>2, <2>1
  <2>3. t.pool = [s.pool EXCEPT ![slot] = Particles!Fresh(type)]
    BY <2>2
  <2>4. t \in PoolState
    BY <1>1, <2>1, <2>2, FreshFades DEF PoolState
  <2>5. \A x \in Particles!Slots : t.pool[x] = IF x = slot THEN Particles!Fresh(type) ELSE s.pool[x]
    BY <1>1, <2>3
  <2>6. \A x \in Particles!Slots : Fades(t.pool[x])
    BY <2>5, FreshFades DEF AllFade
  <2>7. Lives(t.pool) = Lives(s.pool) \cup {slot} /\ slot \notin Lives(s.pool)
    BY <1>5, <2>5, FreshFades DEF Lives
  <2>8. \A x \in Lives(s.pool) : t.pool[x] = s.pool[x]
    BY <2>5, <2>7 DEF Lives
  <2> QED
    BY <1>5, <2>4, <2>6, <2>7, <2>8 DEF AllFade, t
<1> QED
  BY <1>3, <1>4, <1>5

LEMMA SlotsAreMany ==
  /\ IsFiniteSet(Particles!Slots) /\ Cardinality(Particles!Slots) = MaxParticles
  /\ \A T \in SUBSET Particles!Slots :
       IsFiniteSet(T) /\ Cardinality(T) \in Nat /\ Cardinality(T) <= MaxParticles
       /\ (Cardinality(T) = MaxParticles => T = Particles!Slots)
<1>1. IsFiniteSet(Particles!Slots) /\ Cardinality(Particles!Slots) = MaxParticles
  BY ParticleConstants, FS_Interval DEF Particles!Slots
<1> QED
  BY <1>1, FS_Subset, FS_CardinalityType

\* emit goes round after round.
LEMMA RoundsRecursion ==
  ASSUME NEW type, NEW count \in Nat
  PROVE  Particles!Rounds(type, count) =
           [n \in 0 .. count |->
              IF n = 0 THEN [pool |-> pool, hint |-> searchHint]
              ELSE Particles!EmitOne(type)[Particles!Rounds(type, count)[n - 1]]]
<1> DEFINE start == [pool |-> pool, hint |-> searchHint]
           Good(g, k) ==
             g = [n \in 0 .. k |-> IF n = 0 THEN start ELSE Particles!EmitOne(type)[g[n - 1]]]
           T == {k \in Nat : \E g : Good(g, k)}
<1> HIDE DEF start
<1>2. 0 \in T
  <2> DEFINE g == [n \in 0 .. 0 |-> start]
  <2>1. Good(g, 0)
    OBVIOUS
  <2> QED
    BY <2>1
<1>3. ASSUME NEW k \in Nat, k \in T
      PROVE  k + 1 \in T
  <2>1. PICK g : Good(g, k)
    BY <1>3
  <2> DEFINE h == [n \in 0 .. k + 1 |-> IF n = k + 1 THEN Particles!EmitOne(type)[g[k]] ELSE g[n]]
  <2>2. ASSUME NEW n \in 0 .. k + 1
        PROVE  h[n] = IF n = 0 THEN start ELSE Particles!EmitOne(type)[h[n - 1]]
    <3>1. CASE n = k + 1
      <4>1. h[n] = Particles!EmitOne(type)[g[k]] /\ h[n - 1] = g[k]
        BY <3>1
      <4> QED
        BY <3>1, <4>1
    <3>2. CASE n # k + 1
      <4>1. n \in 0 .. k /\ h[n] = g[n]
        BY <2>2, <3>2
      <4>2. g[n] = IF n = 0 THEN start ELSE Particles!EmitOne(type)[g[n - 1]]
        BY <2>1, <4>1
      <4>3. n # 0 => h[n - 1] = g[n - 1]
        BY <4>1
      <4> QED
        BY <4>1, <4>2, <4>3
    <3> QED
      BY <3>1, <3>2
  <2>3. Good(h, k + 1)
    BY <2>2
  <2> HIDE DEF Good, h
  <2>4. (\E f : Good(f, k + 1)) /\ k + 1 \in Nat
    BY <2>3
  <2> QED
    BY <2>4
<1>4. \E g : Good(g, count)
  <2>1. \A n \in 0 .. count - 1 : n \in T => n + 1 \in T
    BY <1>3
  <2> HIDE DEF T
  <2>2. count \in T
    BY <1>2, <2>1, UpTo
  <2> QED
    BY <2>2 DEF T
<1> DEFINE after == CHOOSE g : Good(g, count)
<1>5. Good(after, count)
  BY <1>4
<1>6. Particles!Rounds(type, count) = after
  BY DEF Particles!Rounds, start
<1> HIDE DEF after
<1> QED
  BY <1>5, <1>6 DEF start

\* After n rounds what lived lives as before, and n more live or all.
Emits(s, n) ==
  /\ AllFade(s)
  /\ \A x \in Lives(pool) : s.pool[x] = pool[x]
  /\ Cardinality(Lives(s.pool)) =
       IF Cardinality(Lives(pool)) + n <= MaxParticles THEN Cardinality(Lives(pool)) + n
       ELSE MaxParticles

LEMMA OneMore ==
  ASSUME NEW s, NEW n \in Nat, Emits(s, n), NEW type \in Particles!ParticleType
  PROVE  Emits(Particles!EmitOne(type)[s], n + 1)
<1> DEFINE t == Particles!EmitOne(type)[s]
           C == Cardinality(Lives(pool))
<1>1. AllFade(s) /\ \A x \in Lives(pool) : s.pool[x] = pool[x]
  BY DEF Emits
<1>2. /\ AllFade(t) /\ \A x \in Lives(s.pool) : t.pool[x] = s.pool[x]
      /\ \/ t = s /\ Lives(s.pool) = Particles!Slots
         \/ \E slot \in Particles!Slots \ Lives(s.pool) : Lives(t.pool) = Lives(s.pool) \cup {slot}
  BY <1>1, OneRound
<1>3. Cardinality(Lives(s.pool)) = IF C + n <= MaxParticles THEN C + n ELSE MaxParticles
  BY DEF Emits
<1>4. Lives(pool) \in SUBSET Particles!Slots /\ Lives(s.pool) \in SUBSET Particles!Slots
  BY DEF Lives
<1>5. C \in Nat /\ C <= MaxParticles /\ MaxParticles \in Nat
  BY <1>4, SlotsAreMany, ParticleConstants
<1>6. \A x \in Lives(pool) : x \in Lives(s.pool)
  BY <1>1 DEF Lives
<1> HIDE DEF t, C
<1>7. \A x \in Lives(pool) : t.pool[x] = pool[x]
  BY <1>1, <1>2, <1>6
<1>8. Cardinality(Lives(t.pool)) = IF C + (n + 1) <= MaxParticles THEN C + (n + 1) ELSE MaxParticles
  <2>1. CASE t = s /\ Lives(s.pool) = Particles!Slots
    <3>1. Cardinality(Lives(t.pool)) = MaxParticles /\ Cardinality(Lives(s.pool)) = MaxParticles
      BY <2>1, SlotsAreMany
    <3> QED
      BY <1>3, <1>5, <3>1
  <2>2. CASE \E slot \in Particles!Slots \ Lives(s.pool) : Lives(t.pool) = Lives(s.pool) \cup {slot}
    <3>1. PICK slot \in Particles!Slots \ Lives(s.pool) : Lives(t.pool) = Lives(s.pool) \cup {slot}
      BY <2>2
    <3>2. IsFiniteSet(Lives(s.pool)) /\ slot \notin Lives(s.pool)
      BY <1>4, <3>1, SlotsAreMany
    <3>3. Cardinality(Lives(t.pool)) = Cardinality(Lives(s.pool)) + 1
      BY <3>1, <3>2, FS_AddElement
    <3>4. Lives(t.pool) \in SUBSET Particles!Slots
      BY DEF Lives
    <3>5. Cardinality(Lives(t.pool)) <= MaxParticles
      BY <3>4, SlotsAreMany
    <3> QED
      BY <1>3, <1>5, <3>3, <3>5
  <2> QED
    BY <1>2, <2>1, <2>2
<1> QED
  BY <1>2, <1>7, <1>8 DEF Emits, t, C

LEMMA EmittedEmits ==
  ASSUME ParticleInv, NEW type \in Particles!ParticleType, NEW count \in Nat
  PROVE  Emits(Particles!Emitted(type, count), count)
<1> DEFINE after == Particles!Rounds(type, count)
           T == {n \in 0 .. count : Emits(after[n], n)}
<1>1. after = [n \in 0 .. count |->
                IF n = 0 THEN [pool |-> pool, hint |-> searchHint]
                ELSE Particles!EmitOne(type)[after[n - 1]]]
  BY RoundsRecursion
<1> HIDE DEF after
<1>2. 0 \in T
  <2>1. after[0] = [pool |-> pool, hint |-> searchHint]
    BY <1>1
  <2>2. AllFade(after[0]) /\ after[0].pool = pool
    BY <2>1 DEF ParticleInv
  <2>3. Lives(pool) \in SUBSET Particles!Slots
    BY DEF Lives
  <2>4. Cardinality(Lives(pool)) \in Nat /\ Cardinality(Lives(pool)) <= MaxParticles
    BY <2>3, SlotsAreMany
  <2>5. Emits(after[0], 0)
    BY <2>2, <2>4 DEF Emits
  <2> QED
    BY <2>5
<1>3. ASSUME NEW n \in 0 .. count - 1, n \in T
      PROVE  n + 1 \in T
  <2>1. n + 1 \in 0 .. count /\ n + 1 # 0 /\ (n + 1) - 1 = n /\ n \in Nat
    OBVIOUS
  <2>2. after[n + 1] = Particles!EmitOne(type)[after[n]]
    BY <1>1, <2>1
  <2>3. Emits(after[n + 1], n + 1)
    BY <1>3, <2>1, <2>2, OneMore
  <2> QED
    BY <2>1, <2>3
<1>4. count \in T
  <2> HIDE DEF T
  <2> QED
    BY <1>2, <1>3, UpTo
<1> QED
  BY <1>4 DEF Particles!Emitted, after

LEMMA AgedFades ==
  ASSUME NEW p \in Particles!Particle, Fades(p), NEW dt \in ParticleFrames
  PROVE  Particles!Aged(p, dt) \in Particles!Particle /\ Fades(Particles!Aged(p, dt))
<1> DEFINE age == p.age + dt
           life == Particles!defaultProperties[p.type].lifetime
           seen == 255 - Particles!defaultProperties[p.type].fadeRate * age
<1>1. age \in Nat /\ life \in Nat /\ p.type \in Particles!ParticleType
  <2>1. p.type \in Particles!ParticleType /\ p.age \in Nat /\ dt \in Nat
    BY ParticleConstants DEF Particles!Particle
  <2> QED
    BY <2>1, Lifetimes
<1>2. CASE ~p.alive \/ age >= life
  <2>1. Particles!Aged(p, dt) = Particles!DeadParticle
    BY <1>2 DEF Particles!Aged
  <2> QED
    BY <2>1, DeadFades
<1>3. CASE ~(~p.alive \/ age >= life)
  <2>1. Particles!Aged(p, dt) = [p EXCEPT !.age = age, !.alpha = Particles!Max({seen, 0})]
    BY <1>3 DEF Particles!Aged
  <2>2. age < life
    BY <1>1, <1>3
  <2>3. seen \in 1 .. 255
    BY <1>1, <2>2, Fading
  <2> HIDE DEF age, seen
  <2>4. Particles!Max({seen, 0}) = seen
    <3>1. seen \in {seen, 0} /\ \A y \in {seen, 0} : seen >= y
      BY <2>3
    <3>2. \A x \in {seen, 0} : (\A y \in {seen, 0} : x >= y) => x = seen
      BY <2>3
    <3> QED
      BY <3>1, <3>2 DEF Particles!Max
  <2>5. Particles!Aged(p, dt) = [p EXCEPT !.age = age, !.alpha = seen]
    BY <2>1, <2>4
  <2>6. Particles!Aged(p, dt) \in Particles!Particle
    <3>1. age \in Nat /\ seen \in 0 .. 255
      BY <1>1, <2>3 DEF age
    <3>2. ASSUME NEW B, NEW q \in [alive : B, type : Particles!ParticleType, age : Nat, alpha : 0 .. 255]
          PROVE  [q EXCEPT !.age = age, !.alpha = seen]
                 \in [alive : B, type : Particles!ParticleType, age : Nat, alpha : 0 .. 255]
      BY <3>1
    <3>3. [p EXCEPT !.age = age, !.alpha = seen] \in Particles!Particle
      BY <3>2, Zenon DEF Particles!Particle
    <3> QED
      BY <2>5, <3>3, Zenon
  <2>7. /\ Particles!Aged(p, dt).age = age /\ Particles!Aged(p, dt).alpha = seen
        /\ Particles!Aged(p, dt).type = p.type
    BY <2>5 DEF Particles!Particle
  <2>8. Particles!Aged(p, dt).alive = p.alive
    BY <2>5 DEF Particles!Particle
  <2> QED
    BY <1>3, <2>2, <2>6, <2>7, <2>8 DEF Fades, seen
<1> QED
  BY <1>2, <1>3

LEMMA PoolBegins == Particles!Init => ParticleInv
<1> SUFFICES ASSUME Particles!Init
             PROVE  ParticleInv
  OBVIOUS
<1>1. pool = [s \in Particles!Slots |-> Particles!DeadParticle] /\ searchHint \in Particles!Slots
  BY ParticleConstants DEF Particles!Init, Particles!Slots
<1> QED
  BY <1>1, DeadFades DEF ParticleInv, AllFade, PoolState

LEMMA PoolGoesOn ==
  ASSUME ParticleInv, [Particles!Next]_particleVars
  PROVE  ParticleInv'
<1>1. /\ pool \in [Particles!Slots -> Particles!Particle] /\ searchHint \in Particles!Slots
      /\ \A x \in Particles!Slots : Fades(pool[x])
  BY DEF ParticleInv, AllFade, PoolState
<1>2. CASE UNCHANGED particleVars
  BY <1>1, <1>2 DEF particleVars, ParticleInv, AllFade, PoolState
<1>3. CASE Particles!Update
  <2>1. PICK dt \in ParticleFrames :
          pool' = [s \in Particles!Slots |-> Particles!Aged(pool[s], dt)] /\ searchHint' = searchHint
    BY <1>3 DEF Particles!Update, Particles!update
  <2>2. \A x \in Particles!Slots : Particles!Aged(pool[x], dt) \in Particles!Particle /\ Fades(Particles!Aged(pool[x], dt))
    BY <1>1, AgedFades
  <2>3. pool' \in [Particles!Slots -> Particles!Particle] /\ \A x \in Particles!Slots : Fades(pool'[x])
    BY <2>1, <2>2
  <2> QED
    BY <1>1, <2>1, <2>3 DEF ParticleInv, AllFade, PoolState
<1>4. ASSUME NEW type \in Particles!ParticleType, NEW count \in 0 .. MaxBurst, Particles!emit(type, count)
      PROVE  ParticleInv'
  <2> DEFINE t == Particles!Emitted(type, count)
  <2>1. count \in Nat
    BY ParticleConstants
  <2>2. AllFade(t)
    BY <2>1, EmittedEmits DEF Emits
  <2>3. pool' = t.pool /\ searchHint' = t.hint
    BY <1>4 DEF Particles!emit
  <2> HIDE DEF t
  <2>4. [pool |-> t.pool, hint |-> t.hint] = t
    BY <2>2 DEF AllFade, PoolState
  <2> QED
    BY <2>2, <2>3, <2>4 DEF ParticleInv
<1> QED
  BY <1>2, <1>3, <1>4 DEF Particles!Next

LEMMA ParticleInvSuffices == ParticleInv => PoolIsUsed
<1> SUFFICES ASSUME ParticleInv
             PROVE  PoolIsUsed
  OBVIOUS
<1>1. /\ pool \in [Particles!Slots -> Particles!Particle] /\ searchHint \in Particles!Slots
      /\ \A x \in Particles!Slots : Fades(pool[x])
  BY DEF ParticleInv, AllFade, PoolState
<1>2. ASSUME NEW s \in Particles!Slots
      PROVE  /\ pool[s].alive \in BOOLEAN /\ pool[s].type \in Particles!ParticleType
             /\ pool[s].age \in 0 .. Particles!defaultProperties[pool[s].type].lifetime - 1
             /\ pool[s].alpha \in 0 .. 255
             /\ pool[s].alive => pool[s].alpha > 0
  <2>1. pool[s] \in Particles!Particle /\ Fades(pool[s])
    BY <1>1
  <2>2. pool[s].alive \in BOOLEAN
    BY <2>1, Zenon DEF Particles!Particle
  <2>3. pool[s].type \in Particles!ParticleType /\ pool[s].age \in Nat /\ pool[s].alpha \in 0 .. 255
    BY <2>1 DEF Particles!Particle
  <2>4. Particles!defaultProperties[pool[s].type].lifetime \in Nat \ {0}
    BY <2>3, Lifetimes
  <2>5. CASE pool[s].alive
    <3>1. /\ pool[s].age < Particles!defaultProperties[pool[s].type].lifetime
          /\ pool[s].alpha = 255 - Particles!defaultProperties[pool[s].type].fadeRate * pool[s].age
      BY <2>1, <2>5 DEF Fades
    <3>2. pool[s].alpha \in 1 .. 255
      BY <2>3, <3>1, Fading
    <3>3. pool[s].age \in 0 .. Particles!defaultProperties[pool[s].type].lifetime - 1
      BY <2>3, <2>4, <3>1
    <3>4. pool[s].alpha > 0
      BY <3>2
    <3> QED
      BY <2>2, <2>3, <3>3, <3>4, Zenon
  <2>6. CASE ~pool[s].alive
    <3>1. pool[s].age = 0
      BY <2>1, <2>6 DEF Fades, Particles!DeadParticle
    <3> QED
      BY <2>2, <2>3, <2>4, <2>6, <3>1
  <2> QED
    BY <2>5, <2>6
<1>3. Particles!TypeOK
  BY <1>1, <1>2 DEF Particles!TypeOK
<1>4. Particles!LivingAreSeen
  BY <1>2 DEF Particles!LivingAreSeen, Particles!Living
<1>5. ASSUME NEW type \in Particles!ParticleType, NEW count \in 0 .. MaxBurst
      PROVE  LET after == Particles!Emitted(type, count).pool
                 lives == {s \in Particles!Slots : after[s].alive}
             IN  /\ \A s \in Particles!Living : after[s] = pool[s]
                 /\ Particles!Cardinality(lives) = Particles!Min({Particles!Cardinality(Particles!Living) + count, MaxParticles})
  <2> DEFINE t == Particles!Emitted(type, count)
             C == Cardinality(Lives(pool))
  <2>1. count \in Nat
    BY ParticleConstants
  <2>2. Emits(t, count)
    BY <2>1, EmittedEmits
  <2>3. Particles!Living = Lives(pool) /\ {s \in Particles!Slots : t.pool[s].alive} = Lives(t.pool)
    BY DEF Particles!Living, Lives
  <2> HIDE DEF t
  <2>4. \A S : Particles!Cardinality(S) = Cardinality(S)
    BY DEF Particles!Cardinality, Cardinality
  <2>5. C \in Nat /\ MaxParticles \in Nat
    <3>1. Lives(pool) \in SUBSET Particles!Slots
      BY DEF Lives
    <3> QED
      BY <3>1, SlotsAreMany, ParticleConstants
  <2>6. Particles!Min({C + count, MaxParticles}) = IF C + count <= MaxParticles THEN C + count ELSE MaxParticles
    <3> HIDE DEF C
    <3> DEFINE m == IF C + count <= MaxParticles THEN C + count ELSE MaxParticles
    <3>1. m \in {C + count, MaxParticles} /\ \A y \in {C + count, MaxParticles} : m <= y
      BY <2>1, <2>5
    <3>2. \A x \in {C + count, MaxParticles} : (\A y \in {C + count, MaxParticles} : x <= y) => x = m
      BY <2>1, <2>5
    <3> HIDE DEF m
    <3>3. Particles!Min({C + count, MaxParticles}) = m
      BY <3>1, <3>2 DEF Particles!Min
    <3> QED
      BY <3>3 DEF m
  <2>7. \A s \in Lives(pool) : t.pool[s] = pool[s]
    BY <2>2 DEF Emits
  <2>8. Cardinality(Lives(t.pool)) = IF C + count <= MaxParticles THEN C + count ELSE MaxParticles
    BY <2>2 DEF Emits
  <2>9. Cardinality(Lives(t.pool)) = Particles!Min({C + count, MaxParticles})
    BY <2>6, <2>8
  <2> QED
    BY <2>3, <2>4, <2>7, <2>9 DEF t
<1>6. Particles!EmitUsesThePool
  BY <1>5 DEF Particles!EmitUsesThePool
<1> QED
  BY <1>3, <1>4, <1>6 DEF PoolIsUsed, Particles!PoolIsUsed

\* Wherever the hint is and however large the pool, emit gives what is emitted
\* the places of dead particles as long as there are any, and what lives is seen
\* (emit, findDeadSlot, update).
THEOREM PoolAlwaysUsed == Spec => []PoolIsUsed
<1>1. Init => ParticleInv
  BY PoolBegins DEF Init
<1>2. ParticleInv /\ [Next]_<<part, app, fightVars, controllerVars, particleVars, audioVars, modelVars>> => ParticleInv'
  <2>1. [Next]_<<part, app, fightVars, controllerVars, particleVars, audioVars, modelVars>>
        => [Particles!Next]_particleVars
    BY DEF Next, MenuStep, FightStep, ControllerStep, ParticleStep, AudioStep, ModelStep
  <2> QED
    BY <2>1, PoolGoesOn
<1> QED
  BY <1>1, <1>2, ParticleInvSuffices, PTL DEF Spec

-----------------------------------------------------------------------------
(* Fights: numbers. *)

LEMMA FightConstants ==
  Line \subseteq Nat /\ Height \in [Line -> Nat] /\ FightFrames \subseteq Nat \ {0} /\ FirstView \in Views
BY AnimationAssumption DEF Fights!AnimationAssumption

LEMMA LineNumbers == \A n \in Line : n \in Nat /\ n \in Int
BY FightConstants

\* A movement of 8, 10 or 12 units of time begins where it begins, ends where
\* it ends and goes that way at no more than a certain speed.
LEMMA EasedOver8 ==
  /\ Fights!SmoothStep(0, 8) = 0 /\ Fights!SmoothStep(8, 8) = 100
  /\ \A a \in 0 .. 8 : Fights!SmoothStep(a, 8) \in 0 .. 100
  /\ \A a, b \in 0 .. 8 :
       a <= b => Fights!SmoothStep(b, 8) - Fights!SmoothStep(a, 8) \in 0 .. 20 * (b - a)
<1>1. /\ Fights!SmoothStep(0, 8) = 0 /\ Fights!SmoothStep(1, 8) = 4 /\ Fights!SmoothStep(2, 8) = 15
      /\ Fights!SmoothStep(3, 8) = 31 /\ Fights!SmoothStep(4, 8) = 50 /\ Fights!SmoothStep(5, 8) = 68
      /\ Fights!SmoothStep(6, 8) = 84 /\ Fights!SmoothStep(7, 8) = 95 /\ Fights!SmoothStep(8, 8) = 100
  BY DEF Fights!SmoothStep
<1>2. \A a \in 0 .. 8 : a \in {0, 1, 2, 3, 4, 5, 6, 7, 8}
  OBVIOUS
<1> QED
  BY <1>1, <1>2

LEMMA EasedOver10 ==
  /\ Fights!SmoothStep(0, 10) = 0 /\ Fights!SmoothStep(10, 10) = 100
  /\ \A a \in 0 .. 10 : Fights!SmoothStep(a, 10) \in 0 .. 100
  /\ \A a, b \in 0 .. 10 :
       a <= b => Fights!SmoothStep(b, 10) - Fights!SmoothStep(a, 10) \in 0 .. 15 * (b - a)
<1>1. /\ Fights!SmoothStep(0, 10) = 0 /\ Fights!SmoothStep(1, 10) = 2 /\ Fights!SmoothStep(2, 10) = 10
      /\ Fights!SmoothStep(3, 10) = 21 /\ Fights!SmoothStep(4, 10) = 35 /\ Fights!SmoothStep(5, 10) = 50
      /\ Fights!SmoothStep(6, 10) = 64 /\ Fights!SmoothStep(7, 10) = 78 /\ Fights!SmoothStep(8, 10) = 89
      /\ Fights!SmoothStep(9, 10) = 97 /\ Fights!SmoothStep(10, 10) = 100
  BY DEF Fights!SmoothStep
<1>2. \A a \in 0 .. 10 : a \in {0, 1, 2, 3, 4, 5, 6, 7, 8, 9, 10}
  OBVIOUS
<1> QED
  BY <1>1, <1>2

LEMMA EasedOver12 ==
  /\ Fights!SmoothStep(0, 12) = 0 /\ Fights!SmoothStep(12, 12) = 100
  /\ \A a \in 0 .. 12 : Fights!SmoothStep(a, 12) \in 0 .. 100
  /\ \A a, b \in 0 .. 12 :
       a <= b => Fights!SmoothStep(b, 12) - Fights!SmoothStep(a, 12) \in 0 .. 15 * (b - a)
<1>1. /\ Fights!SmoothStep(0, 12) = 0 /\ Fights!SmoothStep(1, 12) = 1 /\ Fights!SmoothStep(2, 12) = 7
      /\ Fights!SmoothStep(3, 12) = 15 /\ Fights!SmoothStep(4, 12) = 25 /\ Fights!SmoothStep(5, 12) = 37
      /\ Fights!SmoothStep(6, 12) = 50 /\ Fights!SmoothStep(7, 12) = 62 /\ Fights!SmoothStep(8, 12) = 74
      /\ Fights!SmoothStep(9, 12) = 84 /\ Fights!SmoothStep(10, 12) = 92 /\ Fights!SmoothStep(11, 12) = 98
      /\ Fights!SmoothStep(12, 12) = 100
  BY DEF Fights!SmoothStep
<1>2. \A a \in 0 .. 12 : a \in {0, 1, 2, 3, 4, 5, 6, 7, 8, 9, 10, 11, 12}
  OBVIOUS
<1> QED
  BY <1>1, <1>2

\* A lunge goes out and back.
LEMMA Lunging ==
  /\ Fights!LungeFraction(0) = 0 /\ Fights!LungeFraction(7) = 0
  /\ \A side \in {-1, 0, 1}, a, b \in 0 .. 7 :
       a <= b =>
         (side * 20 * Fights!LungeFraction(b)) \div 100 - (side * 20 * Fights!LungeFraction(a)) \div 100
         \in -(20 * (b - a)) .. 20 * (b - a)
<1>1. /\ Fights!LungeFraction(0) = 0 /\ Fights!LungeFraction(1) = 40 /\ Fights!LungeFraction(2) = 81
      /\ Fights!LungeFraction(3) = 87 /\ Fights!LungeFraction(4) = 65 /\ Fights!LungeFraction(5) = 43
      /\ Fights!LungeFraction(6) = 21 /\ Fights!LungeFraction(7) = 0
  BY DEF Fights!LungeFraction, Fights!AnimDuration
<1>2. \A a \in 0 .. 7 : a \in {0, 1, 2, 3, 4, 5, 6, 7}
  OBVIOUS
<1> DEFINE out(side, a) == (side * 20 * Fights!LungeFraction(a)) \div 100
<1>3. /\ out(1, 0) = 0 /\ out(1, 1) = 8 /\ out(1, 2) = 16 /\ out(1, 3) = 17
      /\ out(1, 4) = 13 /\ out(1, 5) = 8 /\ out(1, 6) = 4 /\ out(1, 7) = 0
  BY <1>1
<1>4. /\ out(-1, 0) = 0 /\ out(-1, 1) = -8 /\ out(-1, 2) = -17 /\ out(-1, 3) = -18
      /\ out(-1, 4) = -13 /\ out(-1, 5) = -9 /\ out(-1, 6) = -5 /\ out(-1, 7) = 0
  BY <1>1
<1>5. \A a \in 0 .. 7 : out(0, a) = 0
  BY <1>1, <1>2
<1> HIDE DEF out
<1>6. \A a, b \in 0 .. 7 : a <= b => out(1, b) - out(1, a) \in -(20 * (b - a)) .. 20 * (b - a)
  BY <1>2, <1>3
<1>7. \A a, b \in 0 .. 7 : a <= b => out(-1, b) - out(-1, a) \in -(20 * (b - a)) .. 20 * (b - a)
  BY <1>2, <1>4
<1>8. \A a, b \in 0 .. 7 : a <= b => out(0, b) - out(0, a) \in -(20 * (b - a)) .. 20 * (b - a)
  BY <1>5
<1>9. \A side \in {-1, 0, 1}, a, b \in 0 .. 7 :
        a <= b => out(side, b) - out(side, a) \in -(20 * (b - a)) .. 20 * (b - a)
  BY <1>6, <1>7, <1>8
<1> QED
  BY <1>1, <1>9 DEF out

-----------------------------------------------------------------------------
(* Fights: the camera. *)

\* Views of the player's, and those on the way from there to a fight.
Home == [of : Views, away : {0}]

OnTheWay == [of : Views, away : 0 .. 100]

Phases == {"Idle", "PanToTarget", "Hold", "ReturnToOrigin"}

CineStates == [phase : Phases, elapsed : Nat, origin : Home, current : OnTheWay]

Duration(phase) == Fights!PhaseDuration[phase]

\* How far away a phase has the camera.
Away(phase, e) ==
  IF phase = "PanToTarget" THEN Fights!SmoothStep(e, 12)
  ELSE IF phase = "Hold" THEN 100 ELSE 100 - Fights!SmoothStep(e, 10)

\* The cinematic is on its way from and to the player's view v.
CineIsSound(c, v) ==
  /\ c \in CineStates /\ v \in Home
  /\ c.phase # "Idle" =>
       /\ c.elapsed < Duration(c.phase) /\ c.origin = v
       /\ c.current.of = v.of /\ c.current.away = Away(c.phase, c.elapsed)

\* How long a fight has been watched.
Watched(c) ==
  IF c.phase = "PanToTarget" THEN c.elapsed
  ELSE IF c.phase = "Hold" THEN 12 + c.elapsed
  ELSE IF c.phase = "ReturnToOrigin" THEN 28 + c.elapsed ELSE 38

\* From one view to another within some time.
Flies(a, b, dt) ==
  /\ a.of = b.of
  /\ b.away - a.away \in -(15 * dt) .. 15 * dt

SeenOf(c, v) == IF c.phase = "Idle" THEN v ELSE c.current

LEMMA Durations ==
  /\ Duration("PanToTarget") = 12 /\ Duration("Hold") = 16 /\ Duration("ReturnToOrigin") = 10
BY DEF Duration, Fights!PhaseDuration

\* A cinematic that goes on is sound, flies, and has been watched no longer
\* than the time allows; at its end the camera is where it was.
LEMMA CinematicGoesOn ==
  ASSUME NEW c, NEW v, CineIsSound(c, v), c.phase # "Idle", NEW dt \in FightFrames
  PROVE  LET d == Fights!UpdateCinematic(c, dt)
         IN  /\ CineIsSound(d, v)
             /\ d.phase = "Idle" => d.current = v
             /\ Flies(c.current, d.current, dt)
             /\ Watched(d) <= Watched(c) + dt
<1> DEFINE e == c.elapsed + dt
           on == [c EXCEPT !.elapsed = c.elapsed + dt]
           there == [on EXCEPT !.current = Fights!CurrentAt(on)]
           d == Fights!UpdateCinematic(c, dt)
           spent == IF e <= Duration(c.phase) THEN e ELSE Duration(c.phase)
           seen == [v EXCEPT !.away = Away(c.phase, spent)]
<1>1. dt \in Nat \ {0}
  BY FightConstants
<1>2. /\ c \in CineStates /\ v \in Home /\ c.elapsed < Duration(c.phase) /\ c.origin = v
      /\ c.current.of = v.of /\ c.current.away = Away(c.phase, c.elapsed)
  BY DEF CineIsSound
<1>3. c.phase \in {"PanToTarget", "Hold", "ReturnToOrigin"} /\ c.elapsed \in Nat /\ c.current \in OnTheWay
  BY <1>2 DEF CineStates, Phases
<1>4. Duration(c.phase) \in Nat /\ e \in Nat
  BY <1>1, <1>3, Durations
<1>5. /\ on.phase = c.phase /\ on.elapsed = e /\ on.origin = v
      /\ on \in CineStates
  BY <1>1, <1>2 DEF CineStates
<1>6. Fights!CurrentAt(on) = seen
  <2>1. Fights!Least(on.elapsed, Fights!PhaseDuration[on.phase]) = spent
    BY <1>5 DEF Fights!Least, Duration
  <2>2. CASE c.phase = "PanToTarget"
    <3>1. Fights!CurrentAt(on) = [on.origin EXCEPT !.away = Fights!SmoothStep(spent, Fights!PhaseDuration.PanToTarget)]
      BY <1>5, <2>1, <2>2 DEF Fights!CurrentAt
    <3>2. Fights!PhaseDuration.PanToTarget = 12
      BY DEF Fights!PhaseDuration
    <3> QED
      BY <1>5, <2>2, <3>1, <3>2 DEF Away
  <2>3. CASE c.phase = "Hold"
    <3>1. Fights!CurrentAt(on) = [on.origin EXCEPT !.away = 100]
      BY <1>5, <2>1, <2>3 DEF Fights!CurrentAt
    <3> QED
      BY <1>5, <2>3, <3>1 DEF Away
  <2>4. CASE c.phase = "ReturnToOrigin"
    <3>1. Fights!CurrentAt(on) =
            [on.origin EXCEPT !.away = 100 - Fights!SmoothStep(spent, Fights!PhaseDuration.ReturnToOrigin)]
      BY <1>5, <2>1, <2>4 DEF Fights!CurrentAt
    <3>2. Fights!PhaseDuration.ReturnToOrigin = 10
      BY DEF Fights!PhaseDuration
    <3> QED
      BY <1>5, <2>4, <3>1, <3>2 DEF Away
  <2> QED
    BY <1>3, <2>2, <2>3, <2>4
<1> HIDE DEF spent, seen
<1>7. spent \in 0 .. Duration(c.phase) /\ c.elapsed <= spent /\ spent <= c.elapsed + dt
      /\ (e < Duration(c.phase) => spent = e) /\ (e >= Duration(c.phase) => spent = Duration(c.phase))
  BY <1>1, <1>2, <1>3, <1>4 DEF spent
<1>8. Away(c.phase, spent) \in 0 .. 100
      /\ Away(c.phase, spent) - Away(c.phase, c.elapsed) \in -(15 * dt) .. 15 * dt
  <2>1. CASE c.phase = "PanToTarget"
    <3>1. spent \in 0 .. 12 /\ c.elapsed \in 0 .. 12
      BY <1>2, <1>3, <1>7, <2>1, Durations
    <3>2. /\ Fights!SmoothStep(spent, 12) - Fights!SmoothStep(c.elapsed, 12) \in 0 .. 15 * (spent - c.elapsed)
          /\ Fights!SmoothStep(spent, 12) \in 0 .. 100 /\ Fights!SmoothStep(c.elapsed, 12) \in 0 .. 100
      BY <1>7, <3>1, EasedOver12
    <3>3. Away(c.phase, spent) = Fights!SmoothStep(spent, 12) /\ Away(c.phase, c.elapsed) = Fights!SmoothStep(c.elapsed, 12)
      BY <2>1 DEF Away
    <3>4. 15 * (spent - c.elapsed) <= 15 * dt
      BY <1>1, <1>7, <3>1
    <3> QED
      BY <1>1, <3>1, <3>2, <3>3, <3>4
  <2>2. CASE c.phase = "Hold"
    BY <1>1, <2>2 DEF Away
  <2>3. CASE c.phase = "ReturnToOrigin"
    <3>1. spent \in 0 .. 10 /\ c.elapsed \in 0 .. 10
      BY <1>2, <1>3, <1>7, <2>3, Durations
    <3>2. /\ Fights!SmoothStep(spent, 10) - Fights!SmoothStep(c.elapsed, 10) \in 0 .. 15 * (spent - c.elapsed)
          /\ Fights!SmoothStep(spent, 10) \in 0 .. 100 /\ Fights!SmoothStep(c.elapsed, 10) \in 0 .. 100
      BY <1>7, <3>1, EasedOver10
    <3> DEFINE a == Fights!SmoothStep(c.elapsed, 10)
               b == Fights!SmoothStep(spent, 10)
    <3>3. Away(c.phase, spent) = 100 - b /\ Away(c.phase, c.elapsed) = 100 - a
      BY <2>3 DEF Away
    <3>4. 15 * (spent - c.elapsed) <= 15 * dt /\ 15 * (spent - c.elapsed) \in Nat
      BY <1>1, <1>7, <3>1
    <3> HIDE DEF a, b
    <3>5. /\ b - a \in 0 .. 15 * (spent - c.elapsed)
          /\ a \in 0 .. 100 /\ b \in 0 .. 100
      BY <3>2 DEF a, b
    <3>6. b - a \in 0 .. 15 * dt
      BY <1>1, <3>4, <3>5
    <3>7. (100 - b) - (100 - a) = -(b - a) /\ 100 - b \in 0 .. 100
      BY <3>5
    <3>8. (100 - b) - (100 - a) \in -(15 * dt) .. 15 * dt
      BY <1>1, <3>5, <3>6, <3>7
    <3> QED
      BY <3>3, <3>7, <3>8
  <2> QED
    BY <1>3, <2>1, <2>2, <2>3
<1>9. seen \in OnTheWay /\ seen.of = v.of /\ seen.away = Away(c.phase, spent)
  BY <1>2, <1>8 DEF seen, Home, OnTheWay
<1>10. /\ there \in CineStates /\ there.current = seen /\ there.phase = c.phase
       /\ there.elapsed = e /\ there.origin = v
  BY <1>5, <1>6, <1>9 DEF CineStates
<1>11. d = IF e >= Duration(c.phase) THEN Fights!EnterPhase(there, Fights!NextPhase[c.phase]) ELSE there
  BY <1>5 DEF Fights!UpdateCinematic, Duration
<1>12. Flies(c.current, seen, dt)
  BY <1>2, <1>8, <1>9 DEF Flies
<1> HIDE DEF there, d, on, e
<1>13. CASE e < Duration(c.phase)
  <2>1. d = there /\ spent = e
    BY <1>4, <1>7, <1>11, <1>13
  <2>2. CineIsSound(d, v)
    BY <1>2, <1>9, <1>10, <1>13, <2>1 DEF CineIsSound
  <2>3. d.phase # "Idle" /\ d.current = seen
    BY <1>3, <1>10, <2>1
  <2>4. Watched(d) <= Watched(c) + dt
    BY <1>1, <1>3, <1>10, <2>1 DEF Watched, e
  <2> QED
    BY <1>12, <2>2, <2>3, <2>4 DEF d
<1>14. CASE e >= Duration(c.phase)
  <2> DEFINE next == Fights!NextPhase[c.phase]
  <2>1. next = IF c.phase = "PanToTarget" THEN "Hold"
               ELSE IF c.phase = "Hold" THEN "ReturnToOrigin" ELSE "Idle"
    BY <1>3 DEF Fights!NextPhase
  <2> HIDE DEF next
  <2>2. d = [there EXCEPT !.phase = next, !.elapsed = 0] /\ spent = Duration(c.phase)
    BY <1>4, <1>7, <1>11, <1>14 DEF Fights!EnterPhase, next
  <2>3. next \in Phases
    BY <2>1 DEF Phases
  <2>4. /\ d \in CineStates /\ d.phase = next /\ d.elapsed = 0 /\ d.origin = v /\ d.current = seen
    BY <1>10, <2>2, <2>3 DEF CineStates
  <2>5. next # "Idle" => 0 < Duration(next) /\ seen.away = Away(next, 0)
    BY <1>3, <1>9, <2>1, <2>2, Durations, EasedOver12, EasedOver10 DEF Away
  <2>6. next = "Idle" => seen = v
    <3>1. ASSUME next = "Idle"
          PROVE  seen.away = 0
      BY <1>3, <1>9, <2>1, <2>2, <3>1, Durations, EasedOver10 DEF Away
    <3> QED
      BY <1>2, <1>9, <3>1 DEF OnTheWay, Home
  <2>7. CineIsSound(d, v)
    BY <1>2, <1>9, <2>4, <2>5 DEF CineIsSound
  <2>8. Watched(d) <= Watched(c) + dt
    BY <1>1, <1>3, <1>14, <2>1, <2>4, Durations DEF Watched, e
  <2> QED
    BY <1>12, <2>4, <2>6, <2>7, <2>8 DEF d
<1> QED
  BY <1>4, <1>13, <1>14

\* A frame of the camera: the player's, the cinematic's, or the end of it.
LEMMA CameraMoves ==
  ASSUME NEW space \in BOOLEAN, NEW dt \in FightFrames, NEW look \in Views,
         CineIsSound(cine, view), Fights!Active(cine) => view = Fights!Snapshot(look, 0)
  PROVE  LET after == Fights!CameraFrame(space, dt, look)
             seen == SeenOf(after.cine, after.view)
         IN  /\ CineIsSound(after.cine, after.view)
             /\ Fights!Active(cine) => after.view = view
             /\ \/ space /\ Fights!Active(cine)
                \/ Watched(after.cine) <= Watched(cine) + dt
             /\ \/ space /\ Fights!Active(cine)
                \/ Flies(SeenOf(cine, view), seen, dt)
                \/ ~Fights!Active(cine) /\ SeenOf(cine, view).away = 0 /\ seen.away = 0
<1> DEFINE after == Fights!CameraFrame(space, dt, look)
<1>1. cine \in CineStates /\ view \in Home /\ dt \in Nat \ {0}
  BY FightConstants DEF CineIsSound
<1>2. CASE ~Fights!Active(cine)
  <2>1. cine.phase = "Idle"
    BY <1>2 DEF Fights!Active
  <2>2. after = [cine |-> cine, view |-> Fights!Snapshot(look, 0)]
    BY <1>2 DEF Fights!CameraFrame
  <2>3. Fights!Snapshot(look, 0) \in Home /\ Fights!Snapshot(look, 0).away = 0 /\ view.away = 0
    BY <1>1 DEF Fights!Snapshot, Home
  <2> HIDE DEF after
  <2>4. after.cine = cine /\ after.view = Fights!Snapshot(look, 0)
    BY <2>2
  <2>5. CineIsSound(after.cine, after.view)
    BY <1>1, <2>1, <2>3, <2>4 DEF CineIsSound
  <2>6. Watched(after.cine) <= Watched(cine) + dt
    BY <1>1, <2>1, <2>4 DEF Watched
  <2>7. SeenOf(cine, view).away = 0 /\ SeenOf(after.cine, after.view).away = 0
    BY <2>1, <2>3, <2>4 DEF SeenOf
  <2> QED
    BY <1>2, <2>5, <2>6, <2>7 DEF after
<1>3. CASE Fights!Active(cine) /\ space
  <2> DEFINE c == Fights!SkipCinematic(cine)
  <2>1. cine.phase # "Idle" /\ cine.origin = view
    BY <1>3 DEF Fights!Active, CineIsSound
  <2>2. c = [cine EXCEPT !.phase = "Idle", !.elapsed = 0, !.current = view]
    BY <2>1 DEF Fights!SkipCinematic
  <2>3. view \in OnTheWay
    BY <1>1 DEF Home, OnTheWay
  <2> HIDE DEF c
  <2>4. c \in CineStates /\ c.phase = "Idle" /\ c.current = view
    BY <1>1, <2>2, <2>3 DEF CineStates, Phases
  <2>5. after = [cine |-> c, view |-> c.current]
    BY <1>3, <2>4 DEF Fights!CameraFrame, Fights!Active, c
  <2> HIDE DEF after
  <2>6. after.cine = c /\ after.view = view
    BY <2>4, <2>5
  <2>7. CineIsSound(after.cine, after.view)
    BY <1>1, <2>4, <2>6 DEF CineIsSound
  <2> QED
    BY <1>3, <2>6, <2>7 DEF after
<1>4. CASE Fights!Active(cine) /\ ~space
  <2> DEFINE c == Fights!UpdateCinematic(cine, dt)
  <2>1. cine.phase # "Idle"
    BY <1>4 DEF Fights!Active
  <2>2. /\ CineIsSound(c, view)
        /\ c.phase = "Idle" => c.current = view
        /\ Flies(cine.current, c.current, dt) /\ Watched(c) <= Watched(cine) + dt
    BY <2>1, CinematicGoesOn
  <2>3. after = [cine |-> c, view |-> IF Fights!Active(c) THEN view ELSE c.current]
    BY <1>4 DEF Fights!CameraFrame
  <2> HIDE DEF after, c
  <2>4. after.cine = c /\ after.view = view
    BY <2>2, <2>3 DEF Fights!Active
  <2>5. Flies(SeenOf(cine, view), SeenOf(after.cine, after.view), dt)
    BY <2>1, <2>2, <2>4 DEF SeenOf
  <2> QED
    BY <1>4, <2>2, <2>4, <2>5 DEF after
<1> QED
  BY <1>2, <1>3, <1>4

-----------------------------------------------------------------------------
(* Fights: effects and animations. *)

EffectTime(kind) == Fights!EffectDuration[kind]

EffectStates == [kind : {"Number", "Flash", "Death"}, at : Line, left : Int]

\* Effects have begun and are not over.
EffectsAreSound(efs) ==
  \A f \in efs : f \in EffectStates /\ f.left \in 1 .. EffectTime(f.kind)

LEMMA EffectTimes ==
  EffectTime("Number") = 30 /\ EffectTime("Flash") = 6 /\ EffectTime("Death") = 12
BY DEF EffectTime, Fights!EffectDuration

LEMMA EffectsGoOn ==
  ASSUME NEW efs, EffectsAreSound(efs), NEW dt \in FightFrames
  PROVE  /\ EffectsAreSound(Fights!UpdateEffects(efs, dt))
         /\ \A f \in Fights!UpdateEffects(efs, dt) :
              \E g \in efs : f.kind = g.kind /\ f.left = g.left - dt
<1> SUFFICES ASSUME NEW f \in Fights!UpdateEffects(efs, dt)
             PROVE  /\ f \in EffectStates /\ f.left \in 1 .. EffectTime(f.kind)
                    /\ \E g \in efs : f.kind = g.kind /\ f.left = g.left - dt
  BY DEF EffectsAreSound
<1>1. PICK g \in efs : f = [g EXCEPT !.left = g.left - dt]
  BY DEF Fights!UpdateEffects
<1>2. f.left > 0
  BY DEF Fights!UpdateEffects
<1>3. g \in EffectStates /\ g.left \in 1 .. EffectTime(g.kind) /\ dt \in Nat
  BY FightConstants DEF EffectsAreSound
<1>4. f \in EffectStates /\ f.kind = g.kind /\ f.left = g.left - dt
  BY <1>1, <1>3 DEF EffectStates
<1>5. EffectTime(g.kind) \in Nat
  BY <1>3, EffectTimes DEF EffectStates
<1> QED
  BY <1>2, <1>3, <1>4, <1>5

AnimTime(type) == Fights!AnimDuration[type]

AnimStates == [type : {"Move", "Attack", "Death"}, elapsed : Nat, from : Line, to : Line]

\* An animation has begun and is not over; a unit moves to the next tile.
AnimIsSound(x) ==
  /\ x \in AnimStates
  /\ x.elapsed < AnimTime(x.type)
  /\ x.type = "Move" => x.to - x.from \in {-1, 1}

AnimsAreSound(es) == \A i \in DOMAIN es : AnimIsSound(es[i])

\* Where the unit is when its animation is over.
EndsAt(x) == IF x.type = "Move" THEN x.to ELSE x.from

LEMMA AnimTimes ==
  AnimTime("Move") = 8 /\ AnimTime("Attack") = 7 /\ AnimTime("Death") = 10
BY DEF AnimTime, Fights!AnimDuration

LEMMA AnimsGoOn ==
  ASSUME NEW es, AnimsAreSound(es), NEW dt \in FightFrames
  PROVE  LET on == Fights!RemoveFinished(Fights!UpdateAnims(es, dt))
         IN  /\ AnimsAreSound(on)
             /\ DOMAIN on = {i \in DOMAIN es : es[i].elapsed + dt < AnimTime(es[i].type)}
             /\ \A i \in DOMAIN on : on[i] = [es[i] EXCEPT !.elapsed = es[i].elapsed + dt]
<1> DEFINE up == Fights!UpdateAnims(es, dt)
           on == Fights!RemoveFinished(up)
<1>1. dt \in Nat
  BY FightConstants
<1>2. ASSUME NEW i \in DOMAIN es
      PROVE  /\ es[i] \in AnimStates /\ AnimTime(es[i].type) \in Nat
             /\ up[i] = [es[i] EXCEPT !.elapsed =
                           IF es[i].elapsed + dt <= AnimTime(es[i].type) THEN es[i].elapsed + dt
                           ELSE AnimTime(es[i].type)]
             /\ Fights!Finished(up[i]) <=> ~(es[i].elapsed + dt < AnimTime(es[i].type))
  <2>1. es[i] \in AnimStates
    BY DEF AnimsAreSound, AnimIsSound
  <2>2. AnimTime(es[i].type) \in Nat /\ es[i].elapsed \in Nat
    BY <2>1, AnimTimes DEF AnimStates
  <2> DEFINE e == IF es[i].elapsed + dt <= AnimTime(es[i].type) THEN es[i].elapsed + dt
                  ELSE AnimTime(es[i].type)
  <2>3. up[i] = [es[i] EXCEPT !.elapsed = e]
    BY DEF Fights!UpdateAnims, Fights!Least, AnimTime
  <2>4. e >= AnimTime(es[i].type) <=> ~(es[i].elapsed + dt < AnimTime(es[i].type))
    BY <1>1, <2>2
  <2> HIDE DEF e, up
  <2>5. up[i].elapsed = e /\ up[i].type = es[i].type
    BY <2>1, <2>3 DEF AnimStates
  <2>6. Fights!Finished(up[i]) <=> ~(es[i].elapsed + dt < AnimTime(es[i].type))
    BY <2>4, <2>5 DEF Fights!Finished, AnimTime
  <2> QED
    BY <2>1, <2>2, <2>3, <2>6 DEF e
<1>3. DOMAIN up = DOMAIN es
  BY DEF Fights!UpdateAnims
<1> HIDE DEF up
<1>4. /\ DOMAIN on = {i \in DOMAIN es : ~Fights!Finished(up[i])}
      /\ \A i \in DOMAIN on : on[i] = up[i]
  BY <1>3 DEF Fights!RemoveFinished
<1>5. DOMAIN on = {i \in DOMAIN es : es[i].elapsed + dt < AnimTime(es[i].type)}
  BY <1>2, <1>4
<1> HIDE DEF on
<1>6. \A i \in DOMAIN on : on[i] = [es[i] EXCEPT !.elapsed = es[i].elapsed + dt]
  <2> SUFFICES ASSUME NEW i \in DOMAIN on
               PROVE  on[i] = [es[i] EXCEPT !.elapsed = es[i].elapsed + dt]
    OBVIOUS
  <2>1. i \in DOMAIN es /\ es[i].elapsed + dt < AnimTime(es[i].type) /\ on[i] = up[i]
    BY <1>4, <1>5
  <2>2. es[i].elapsed + dt <= AnimTime(es[i].type)
    <3>1. es[i].elapsed \in Nat /\ AnimTime(es[i].type) \in Nat
      BY <1>2, <2>1 DEF AnimStates
    <3> QED
      BY <1>1, <2>1, <3>1
  <2> QED
    BY <1>2, <2>1, <2>2
<1>7. ASSUME NEW i \in DOMAIN on
      PROVE  AnimIsSound(on[i])
  <2>1. i \in DOMAIN es /\ es[i].elapsed + dt < AnimTime(es[i].type) /\ AnimIsSound(es[i])
    BY <1>5 DEF AnimsAreSound
  <2>2. es[i] \in AnimStates /\ on[i] = [es[i] EXCEPT !.elapsed = es[i].elapsed + dt]
    BY <1>2, <1>6, <2>1
  <2>3. on[i] \in AnimStates /\ on[i].type = es[i].type /\ on[i].elapsed = es[i].elapsed + dt
        /\ on[i].from = es[i].from /\ on[i].to = es[i].to
    BY <1>1, <2>2 DEF AnimStates
  <2> QED
    BY <2>1, <2>3 DEF AnimIsSound
<1> QED
  BY <1>5, <1>6, <1>7 DEF AnimsAreSound, on, up

\* A new animation begins, whatever the unit had before.
LEMMA AnimBegins ==
  ASSUME NEW es, AnimsAreSound(es), NEW i, NEW type \in {"Move", "Attack", "Death"},
         NEW from \in Line, NEW to \in Line, type = "Move" => to - from \in {-1, 1}
  PROVE  AnimsAreSound(Fights!StartAnim(es, i, type, from, to))
<1> DEFINE begun == Fights!StartAnim(es, i, type, from, to)
           new == [type |-> type, elapsed |-> 0, from |-> from, to |-> to]
<1>1. DOMAIN begun = DOMAIN es \cup {i} /\ \A k \in DOMAIN begun : begun[k] = IF k = i THEN new ELSE es[k]
  BY DEF Fights!StartAnim
<1>2. AnimIsSound(new)
  <2>1. new \in AnimStates /\ new.elapsed = 0 /\ new.type = type /\ new.to = to /\ new.from = from
    BY DEF AnimStates
  <2>2. 0 < AnimTime(type)
    BY AnimTimes
  <2> HIDE DEF new
  <2> QED
    BY <2>1, <2>2 DEF AnimIsSound
<1> HIDE DEF begun, new
<1>3. AnimsAreSound(begun)
  BY <1>1, <1>2 DEF AnimsAreSound
<1> QED
  BY <1>3 DEF begun

\* Where a unit is drawn along its line when so much of its animation is over.
Place(x, e) ==
  IF x.type = "Move" THEN 100 * x.from + (x.to - x.from) * Fights!SmoothStep(e, 8)
  ELSE IF x.type = "Attack"
       THEN 100 * x.from
            + ((IF x.to > x.from THEN 1 ELSE IF x.to < x.from THEN -1 ELSE 0)
               * 20 * Fights!LungeFraction(e)) \div 100
       ELSE 100 * x.from

LEMMA VisualPlace ==
  ASSUME NEW x \in AnimStates
  PROVE  Fights!Visual(x).x = Place(x, x.elapsed)
<1>1. x.type \in {"Move", "Attack", "Death"}
  BY DEF AnimStates
<1>2. CASE x.type = "Move"
  <2>1. Fights!Visual(x).x = 100 * x.from + (x.to - x.from) * Fights!SmoothStep(x.elapsed, Fights!AnimDuration[x.type])
    BY <1>2 DEF Fights!Visual
  <2> QED
    BY <1>2, <2>1, AnimTimes DEF Place, AnimTime
<1>3. CASE x.type = "Attack"
  BY <1>3 DEF Fights!Visual, Place
<1>4. CASE x.type = "Death"
  BY <1>4 DEF Fights!Visual, Place
<1> QED
  BY <1>1, <1>2, <1>3, <1>4

LEMMA PlacesAreNear ==
  ASSUME NEW x \in AnimStates, x.type = "Move" => x.to - x.from \in {-1, 1},
         NEW a \in 0 .. AnimTime(x.type), NEW b \in 0 .. AnimTime(x.type), a <= b
  PROVE  /\ Place(x, a) \in Int /\ Place(x, b) \in Int
         /\ Place(x, b) - Place(x, a) \in -(20 * (b - a)) .. 20 * (b - a)
         /\ Place(x, 0) = 100 * x.from
         /\ Place(x, AnimTime(x.type)) = 100 * EndsAt(x)
<1>1. x.type \in {"Move", "Attack", "Death"} /\ x.from \in Int /\ x.to \in Int
  <2>1. x.type \in {"Move", "Attack", "Death"} /\ x.from \in Line /\ x.to \in Line
    BY DEF AnimStates
  <2> QED
    BY <2>1, LineNumbers
<1>2. CASE x.type = "Move"
  <2> DEFINE p == Fights!SmoothStep(a, 8)
             q == Fights!SmoothStep(b, 8)
  <2>1. a \in 0 .. 8 /\ b \in 0 .. 8 /\ AnimTime(x.type) = 8
    BY <1>2, AnimTimes
  <2>2. p \in 0 .. 100 /\ q \in 0 .. 100 /\ q - p \in 0 .. 20 * (b - a)
    BY <2>1, EasedOver8
  <2>3. Place(x, a) = 100 * x.from + (x.to - x.from) * p /\ Place(x, b) = 100 * x.from + (x.to - x.from) * q
    BY <1>2 DEF Place
  <2>4. Place(x, 0) = 100 * x.from + (x.to - x.from) * 0 /\ Place(x, 8) = 100 * x.from + (x.to - x.from) * 100
    BY <1>2, EasedOver8 DEF Place
  <2> HIDE DEF p, q
  <2>5. CASE x.to - x.from = 1
    <3>1. /\ Place(x, a) = 100 * x.from + p /\ Place(x, b) = 100 * x.from + q
          /\ Place(x, 0) = 100 * x.from /\ Place(x, 8) = 100 * x.to
      BY <1>1, <2>2, <2>3, <2>4, <2>5
    <3>2. EndsAt(x) = x.to /\ Place(x, AnimTime(x.type)) = 100 * x.to
      BY <1>2, <2>1, <3>1 DEF EndsAt
    <3>3. a \in Nat /\ b \in Nat /\ 20 * (b - a) \in Nat
      BY <2>1
    <3>4. q - p \in -(20 * (b - a)) .. 20 * (b - a) /\ p - q \in -(20 * (b - a)) .. 20 * (b - a)
      BY <2>2, <3>3
    <3>5. Place(x, a) \in Int /\ Place(x, b) \in Int
      BY <1>1, <2>2, <3>1
    <3>6. Place(x, b) - Place(x, a) \in {q - p, p - q}
      BY <1>1, <2>2, <3>1
    <3> QED
      BY <3>1, <3>2, <3>4, <3>5, <3>6
  <2>6. CASE x.to - x.from = -1
    <3>1. /\ Place(x, a) = 100 * x.from - p /\ Place(x, b) = 100 * x.from - q
          /\ Place(x, 0) = 100 * x.from /\ Place(x, 8) = 100 * x.to
      BY <1>1, <2>2, <2>3, <2>4, <2>6
    <3>2. EndsAt(x) = x.to /\ Place(x, AnimTime(x.type)) = 100 * x.to
      BY <1>2, <2>1, <3>1 DEF EndsAt
    <3>3. a \in Nat /\ b \in Nat /\ 20 * (b - a) \in Nat
      BY <2>1
    <3>4. q - p \in -(20 * (b - a)) .. 20 * (b - a) /\ p - q \in -(20 * (b - a)) .. 20 * (b - a)
      BY <2>2, <3>3
    <3>5. Place(x, a) \in Int /\ Place(x, b) \in Int
      BY <1>1, <2>2, <3>1
    <3>6. Place(x, b) - Place(x, a) \in {q - p, p - q}
      BY <1>1, <2>2, <3>1
    <3> QED
      BY <3>1, <3>2, <3>4, <3>5, <3>6
  <2> QED
    BY <1>2, <2>5, <2>6
<1>3. CASE x.type = "Attack"
  <2> DEFINE side == IF x.to > x.from THEN 1 ELSE IF x.to < x.from THEN -1 ELSE 0
             out(e) == (side * 20 * Fights!LungeFraction(e)) \div 100
  <2>1. a \in 0 .. 7 /\ b \in 0 .. 7 /\ AnimTime(x.type) = 7 /\ side \in {-1, 0, 1}
    BY <1>3, AnimTimes
  <2>2. \A e : Place(x, e) = 100 * x.from + out(e)
    BY <1>3 DEF Place
  <2> HIDE DEF side
  <2>3. out(b) - out(a) \in -(20 * (b - a)) .. 20 * (b - a)
    BY <2>1, Lunging, Zenon
  <2>4. Fights!LungeFraction(0) = 0 /\ Fights!LungeFraction(7) = 0 /\ side \in Int
    <3>1. Fights!LungeFraction(0) = 0 /\ Fights!LungeFraction(7) = 0
      BY Lunging, Zenon
    <3> QED
      BY <2>1, <3>1
  <2>5. out(0) = 0 /\ out(7) = 0
    BY <2>4
  <2>6. \A e \in 0 .. 7 : out(e) \in Int
    <3>1. \A e \in 0 .. 7 : Fights!LungeFraction(e) \in Int
      BY DEF Fights!LungeFraction, Fights!AnimDuration
    <3> QED
      BY <2>4, <3>1
  <2> HIDE DEF out
  <2> QED
    BY <1>1, <1>3, <2>1, <2>2, <2>3, <2>5, <2>6 DEF EndsAt
<1>4. CASE x.type = "Death"
  BY <1>1, <1>4, AnimTimes DEF Place, EndsAt
<1> QED
  BY <1>1, <1>2, <1>3, <1>4

\* Every animation is that of the unit at its index, and ends where it stands.
AtRest(es, ts) == \A i \in DOMAIN es : i \in DOMAIN ts /\ ts[i] = EndsAt(es[i])

\* Where the unit at index i is drawn along its line.
At(es, ts, i) == IF i \in DOMAIN es THEN Place(es[i], es[i].elapsed) ELSE 100 * ts[i]

LEMMA AnimsWalk ==
  ASSUME NEW es, AnimsAreSound(es), NEW ts \in Seq(Line), AtRest(es, ts), NEW dt \in FightFrames
  PROVE  LET on == Fights!RemoveFinished(Fights!UpdateAnims(es, dt))
         IN  /\ AtRest(on, ts)
             /\ \A i \in DOMAIN ts : At(on, ts, i) - At(es, ts, i) \in -(20 * dt) .. 20 * dt
<1> DEFINE on == Fights!RemoveFinished(Fights!UpdateAnims(es, dt))
<1>1. /\ DOMAIN on = {i \in DOMAIN es : es[i].elapsed + dt < AnimTime(es[i].type)}
      /\ \A i \in DOMAIN on : on[i] = [es[i] EXCEPT !.elapsed = es[i].elapsed + dt]
  BY AnimsGoOn
<1> HIDE DEF on
<1>2. dt \in Nat
  BY FightConstants
<1>3. ASSUME NEW i \in DOMAIN es
      PROVE  /\ es[i] \in AnimStates /\ (es[i].type = "Move" => es[i].to - es[i].from \in {-1, 1})
             /\ es[i].elapsed \in 0 .. AnimTime(es[i].type) /\ AnimTime(es[i].type) \in 0 .. AnimTime(es[i].type)
             /\ i \in DOMAIN ts /\ ts[i] = EndsAt(es[i])
  <2>1. AnimIsSound(es[i])
    BY DEF AnimsAreSound
  <2>2. es[i] \in AnimStates /\ es[i].elapsed < AnimTime(es[i].type)
    BY <2>1 DEF AnimIsSound
  <2>3. es[i].elapsed \in Nat /\ AnimTime(es[i].type) \in Nat
    BY <2>2, AnimTimes DEF AnimStates
  <2> QED
    BY <2>1, <2>2, <2>3 DEF AnimIsSound, AtRest
<1>4. ASSUME NEW i \in DOMAIN on
      PROVE  /\ i \in DOMAIN es /\ on[i].elapsed = es[i].elapsed + dt
             /\ EndsAt(on[i]) = EndsAt(es[i]) /\ \A e : Place(on[i], e) = Place(es[i], e)
  <2>1. i \in DOMAIN es /\ es[i] \in AnimStates /\ on[i] = [es[i] EXCEPT !.elapsed = es[i].elapsed + dt]
    BY <1>1, <1>3
  <2>2. /\ on[i].elapsed = es[i].elapsed + dt /\ on[i].type = es[i].type
        /\ on[i].from = es[i].from /\ on[i].to = es[i].to
    BY <2>1 DEF AnimStates
  <2> QED
    BY <2>1, <2>2 DEF EndsAt, Place
<1>5. AtRest(on, ts)
  BY <1>3, <1>4 DEF AtRest
<1>6. ASSUME NEW i \in DOMAIN ts
      PROVE  At(on, ts, i) - At(es, ts, i) \in -(20 * dt) .. 20 * dt
  <2>1. CASE i \in DOMAIN on
    <3> DEFINE e == es[i].elapsed
               f == es[i].elapsed + dt
    <3>1. i \in DOMAIN es /\ f < AnimTime(es[i].type)
      BY <1>1, <2>1
    <3>2. At(on, ts, i) = Place(es[i], f) /\ At(es, ts, i) = Place(es[i], e)
      BY <1>4, <2>1, <3>1 DEF At
    <3>3. e \in 0 .. AnimTime(es[i].type) /\ f \in 0 .. AnimTime(es[i].type) /\ e <= f /\ f - e = dt
      BY <1>2, <1>3, <3>1
    <3>4. Place(es[i], f) - Place(es[i], e) \in -(20 * (f - e)) .. 20 * (f - e)
      <4> HIDE DEF e, f
      <4> QED
        BY <1>3, <3>1, <3>3, PlacesAreNear
    <3> HIDE DEF e, f
    <3> QED
      BY <3>2, <3>3, <3>4
  <2>2. CASE i \notin DOMAIN on /\ i \in DOMAIN es
    <3> DEFINE e == es[i].elapsed
               f == AnimTime(es[i].type)
    <3>1. e + dt >= f /\ e \in 0 .. f /\ f \in 0 .. f /\ e <= f
      BY <1>1, <1>2, <1>3, <2>2
    <3>2. At(on, ts, i) = 100 * EndsAt(es[i]) /\ At(es, ts, i) = Place(es[i], e)
      BY <1>3, <2>2 DEF At
    <3>3. /\ Place(es[i], f) - Place(es[i], e) \in -(20 * (f - e)) .. 20 * (f - e)
          /\ Place(es[i], f) = 100 * EndsAt(es[i])
      <4> HIDE DEF e
      <4> QED
        BY <1>3, <2>2, <3>1, PlacesAreNear
    <3>4. 20 * (f - e) <= 20 * dt /\ 20 * (f - e) \in Nat
      BY <1>2, <3>1
    <3> HIDE DEF e, f
    <3>5. Place(es[i], f) - Place(es[i], e) \in -(20 * dt) .. 20 * dt
      BY <1>2, <3>3, <3>4
    <3> QED
      BY <3>2, <3>3, <3>5
  <2>3. CASE i \notin DOMAIN on /\ i \notin DOMAIN es
    <3>1. At(on, ts, i) = 100 * ts[i] /\ At(es, ts, i) = 100 * ts[i]
      BY <2>3 DEF At
    <3>2. ts[i] \in Line
      OBVIOUS
    <3>3. ts[i] \in Int
      BY <3>2, LineNumbers
    <3> QED
      BY <1>2, <3>1, <3>3
  <2> QED
    BY <1>4, <2>1, <2>2, <2>3
<1> QED
  BY <1>5, <1>6 DEF on

-----------------------------------------------------------------------------
(* Fights: a frame. *)

\* Effects and animations have gone on for as long as the fight was watched.
Together(es, efs, c) ==
  /\ \A i \in DOMAIN es : es[i].type # "Move" => es[i].elapsed >= Watched(c)
  /\ \A f \in efs : f.left <= EffectTime(f.kind) - Watched(c)

HistoryHasFields ==
  hist = [chosen |-> hist.chosen, skipped |-> hist.skipped, shifted |-> hist.shifted,
          dt |-> hist.dt, jumped |-> hist.jumped, fights |-> hist.fights]

TilesAreFew(ts) == ts \in Seq(Line) /\ Len(ts) <= 2

FightInv ==
  /\ TilesAreFew(tiles)
  /\ AnimsAreSound(entries)
  /\ EffectsAreSound(effects)
  /\ CineIsSound(cine, view)
  /\ HistoryHasFields
  /\ view = hist.chosen
  /\ hist.skipped \/ Together(entries, effects, cine)
  /\ hist.shifted \/ AtRest(entries, tiles)

LEMMA FightsBegin == Fights!Init => FightInv
<1> SUFFICES ASSUME Fights!Init
             PROVE  FightInv
  OBVIOUS
<1>1. TilesAreFew(tiles)
  <2>1. tiles \in [1 .. 2 -> Line]
    BY DEF Fights!Init
  <2>2. tiles = <<tiles[1], tiles[2]>> /\ tiles[1] \in Line /\ tiles[2] \in Line
    BY <2>1
  <2> DEFINE one == tiles[1]
             two == tiles[2]
  <2> HIDE DEF one, two
  <2>3. <<one, two>> \in Seq(Line) /\ Len(<<one, two>>) = 2
    BY <2>2 DEF one, two
  <2> QED
    BY <2>2, <2>3 DEF TilesAreFew, one, two
<1>2. DOMAIN entries = {} /\ effects = {}
  BY DEF Fights!Init
<1>3. view \in Home
  BY DEF Fights!Init, Fights!Snapshot, Home
<1>4. CineIsSound(cine, view)
  <2>1. cine = [phase |-> "Idle", elapsed |-> 0, origin |-> view, current |-> view]
    BY DEF Fights!Init
  <2>2. view \in OnTheWay
    BY <1>3 DEF Home, OnTheWay
  <2>3. cine \in CineStates /\ cine.phase = "Idle"
    BY <1>3, <2>1, <2>2 DEF CineStates, Phases
  <2> QED
    BY <1>3, <2>3 DEF CineIsSound
<1>5. HistoryHasFields /\ view = hist.chosen
  <2>1. hist = [chosen |-> view, skipped |-> FALSE, shifted |-> FALSE, dt |-> 1, jumped |-> FALSE, fights |-> 0]
    BY DEF Fights!Init
  <2> QED
    BY <2>1 DEF HistoryHasFields
<1>6. Together(entries, effects, cine) /\ AtRest(entries, tiles)
  BY <1>2 DEF Together, AtRest
<1>7. AnimsAreSound(entries) /\ EffectsAreSound(effects)
  BY <1>2 DEF AnimsAreSound, EffectsAreSound
<1> QED
  BY <1>1, <1>4, <1>5, <1>6, <1>7 DEF FightInv

\* What goes on by itself in a frame, and what the camera does in it.
LEMMA FrameBegins ==
  ASSUME FightInv, NEW space \in BOOLEAN, NEW dt \in FightFrames, NEW look \in Views,
         IF Fights!Active(cine) THEN view = Fights!Snapshot(look, 0) ELSE ~space
  PROVE  LET after == Fights!CameraFrame(space, dt, look)
             on == Fights!Running(dt)
         IN  /\ CineIsSound(after.cine, after.view)
             /\ Fights!Active(cine) => after.view = view
             /\ AnimsAreSound(on.entries) /\ EffectsAreSound(on.effects)
             /\ \/ hist.skipped \/ (space /\ Fights!Active(cine))
                \/ Together(on.entries, on.effects, after.cine)
             /\ \/ hist.shifted
                \/ AtRest(on.entries, tiles)
             /\ \/ hist.shifted
                \/ \A i \in DOMAIN tiles :
                     At(on.entries, tiles, i) - At(entries, tiles, i) \in -(20 * dt) .. 20 * dt
             /\ \/ space /\ Fights!Active(cine)
                \/ Flies(SeenOf(cine, view), SeenOf(after.cine, after.view), dt)
                \/ ~Fights!Active(cine) /\ SeenOf(cine, view).away = 0
                   /\ SeenOf(after.cine, after.view).away = 0
<1> DEFINE after == Fights!CameraFrame(space, dt, look)
           on == Fights!Running(dt)
           ons == Fights!RemoveFinished(Fights!UpdateAnims(entries, dt))
           efs == Fights!UpdateEffects(effects, dt)
<1>1. on.entries = ons /\ on.effects = efs
  BY DEF Fights!Running
<1>2. CineIsSound(cine, view) /\ AnimsAreSound(entries) /\ EffectsAreSound(effects) /\ tiles \in Seq(Line)
  BY DEF FightInv, TilesAreFew
<1>3. dt \in Nat
  BY FightConstants
<1>4. /\ CineIsSound(after.cine, after.view)
      /\ Fights!Active(cine) => after.view = view
      /\ \/ space /\ Fights!Active(cine)
         \/ Watched(after.cine) <= Watched(cine) + dt
      /\ \/ space /\ Fights!Active(cine)
         \/ Flies(SeenOf(cine, view), SeenOf(after.cine, after.view), dt)
         \/ ~Fights!Active(cine) /\ SeenOf(cine, view).away = 0
            /\ SeenOf(after.cine, after.view).away = 0
  BY <1>2, CameraMoves
<1>5. /\ AnimsAreSound(ons)
      /\ DOMAIN ons = {i \in DOMAIN entries : entries[i].elapsed + dt < AnimTime(entries[i].type)}
      /\ \A i \in DOMAIN ons : ons[i] = [entries[i] EXCEPT !.elapsed = entries[i].elapsed + dt]
  BY <1>2, AnimsGoOn
<1>6. /\ EffectsAreSound(efs)
      /\ \A f \in efs : \E g \in effects : f.kind = g.kind /\ f.left = g.left - dt
  BY <1>2, EffectsGoOn
<1>7. hist.shifted \/ AtRest(entries, tiles)
  BY DEF FightInv
<1>8. \/ hist.shifted
      \/ /\ AtRest(ons, tiles)
         /\ \A i \in DOMAIN tiles : At(ons, tiles, i) - At(entries, tiles, i) \in -(20 * dt) .. 20 * dt
  BY <1>2, <1>7, AnimsWalk
<1> HIDE DEF after, on, ons, efs
<1>9. ASSUME Together(entries, effects, cine), Watched(after.cine) <= Watched(cine) + dt
      PROVE  Together(ons, efs, after.cine)
  <2> DEFINE w == Watched(cine)
             u == Watched(after.cine)
  <2>1. w \in Int /\ u \in Int
    BY <1>2, <1>4 DEF Watched, CineIsSound, CineStates
  <2>2. ASSUME NEW i \in DOMAIN ons, ons[i].type # "Move"
        PROVE  ons[i].elapsed >= u
    <3>1. i \in DOMAIN entries /\ ons[i] = [entries[i] EXCEPT !.elapsed = entries[i].elapsed + dt]
      BY <1>5
    <3>2. entries[i] \in AnimStates
      BY <1>2, <3>1 DEF AnimsAreSound, AnimIsSound
    <3>3. ons[i].elapsed = entries[i].elapsed + dt /\ ons[i].type = entries[i].type /\ entries[i].elapsed \in Nat
      BY <3>1, <3>2 DEF AnimStates
    <3>4. entries[i].elapsed >= w
      BY <1>9, <2>2, <3>1, <3>3 DEF Together
    <3> HIDE DEF w, u
    <3>5. u <= w + dt
      BY <1>9 DEF w, u
    <3> QED
      BY <1>3, <2>1, <3>3, <3>4, <3>5
  <2>3. ASSUME NEW f \in efs
        PROVE  f.left <= EffectTime(f.kind) - u
    <3>1. PICK g \in effects : f.kind = g.kind /\ f.left = g.left - dt
      BY <1>6
    <3>2. g \in EffectStates
      BY <1>2 DEF EffectsAreSound
    <3>3. g.left \in Int /\ EffectTime(g.kind) \in Int
      BY <3>2, EffectTimes DEF EffectStates
    <3>4. g.left <= EffectTime(g.kind) - w
      BY <1>9 DEF Together
    <3> HIDE DEF w, u
    <3>5. u <= w + dt
      BY <1>9 DEF w, u
    <3> QED
      BY <1>3, <2>1, <3>1, <3>3, <3>4, <3>5
  <2> QED
    BY <2>2, <2>3 DEF Together
<1>10. hist.skipped \/ (space /\ Fights!Active(cine)) \/ Together(ons, efs, after.cine)
  BY <1>4, <1>9 DEF FightInv
<1> QED
  BY <1>1, <1>4, <1>5, <1>6, <1>8, <1>10 DEF after, on

\* The history after a frame without a fight.
LEMMA FrameIsRecorded ==
  ASSUME NEW space \in BOOLEAN, NEW dt, NEW after, NEW on, HistoryHasFields,
         Fights!Record(space, dt, after, on)
  PROVE  /\ HistoryHasFields'
         /\ hist'.chosen = IF Fights!Active(cine) THEN hist.chosen ELSE after.view
         /\ hist'.skipped = (hist.skipped \/ (space /\ Fights!Active(cine)))
         /\ hist'.shifted = (hist.shifted /\ DOMAIN on.entries # {})
         /\ hist'.dt = dt
         /\ hist'.jumped = (space /\ Fights!Active(cine))
<1> DEFINE chosen == IF Fights!Active(cine) THEN hist.chosen ELSE after.view
           skipped == hist.skipped \/ (space /\ Fights!Active(cine))
           shifted == hist.shifted /\ DOMAIN on.entries # {}
           jumped == space /\ Fights!Active(cine)
<1>1. hist' = [hist EXCEPT !.chosen = chosen, !.skipped = skipped, !.shifted = shifted,
                           !.dt = dt, !.jumped = jumped]
  BY DEF Fights!Record
<1> HIDE DEF chosen, skipped, shifted, jumped
<1>2. hist = [chosen |-> hist.chosen, skipped |-> hist.skipped, shifted |-> hist.shifted,
              dt |-> hist.dt, jumped |-> hist.jumped, fights |-> hist.fights]
  BY DEF HistoryHasFields
<1>3. hist' = [chosen |-> chosen, skipped |-> skipped, shifted |-> shifted,
               dt |-> dt, jumped |-> jumped, fights |-> hist.fights]
  BY <1>1, <1>2
<1>4. HistoryHasFields' /\ hist'.chosen = chosen /\ hist'.skipped = skipped /\ hist'.shifted = shifted
      /\ hist'.dt = dt /\ hist'.jumped = jumped
  BY <1>3 DEF HistoryHasFields
<1> QED
  BY <1>4 DEF chosen, skipped, shifted, jumped

\* What EyeFlies and UnitsWalk say of a frame.
EyeFliesNow ==
  \/ hist'.jumped
  \/ Fights!Seen'.away # Fights!Seen.away /\ Fights!Seen'.of = Fights!Seen.of
     /\ Fights!Abs(Fights!Seen'.away - Fights!Seen.away) <= 15 * hist'.dt + 1
  \/ Fights!Seen'.away = Fights!Seen.away /\ (Fights!Active(cine) => Fights!Seen'.of = Fights!Seen.of)

UnitsWalkNow ==
  hist.shifted \/ hist'.shifted \/
  \A i \in DOMAIN tiles' :
    \/ i \in DOMAIN Fights!Running(hist'.dt).entries /\ entries'[i].elapsed = 0
    \/ Fights!Abs(Fights!Drawn(i)'.x - Fights!Drawn(i).x) <= 20 * hist'.dt + 1

LEMMA EyeIsSteady ==
  ASSUME NEW c, NEW v, NEW dt \in FightFrames,
         CineIsSound(cine, view), CineIsSound(c, v),
         SeenOf(cine', view') = SeenOf(c, v), hist'.dt = dt,
         \/ hist'.jumped
         \/ Flies(SeenOf(cine, view), SeenOf(c, v), dt)
         \/ ~Fights!Active(cine) /\ SeenOf(cine, view).away = 0 /\ SeenOf(c, v).away = 0
  PROVE  EyeFliesNow
<1> DEFINE a == SeenOf(cine, view)
           b == SeenOf(c, v)
<1>1. Fights!Seen = a /\ Fights!Seen' = b
  BY DEF Fights!Seen, SeenOf, Fights!Active
<1>2. a.away \in Int /\ b.away \in Int
  BY DEF SeenOf, CineIsSound, CineStates, OnTheWay, Home
<1>3. dt \in Nat
  BY FightConstants
<1> HIDE DEF a, b
<1>4. ASSUME Flies(a, b, dt)
      PROVE  EyeFliesNow
  <2>1. a.of = b.of /\ b.away - a.away \in -(15 * dt) .. 15 * dt
    BY <1>4 DEF Flies
  <2>2. Fights!Abs(b.away - a.away) <= 15 * dt + 1
    BY <1>2, <1>3, <2>1 DEF Fights!Abs
  <2> QED
    BY <1>1, <2>1, <2>2 DEF EyeFliesNow
<1>5. ASSUME ~Fights!Active(cine), a.away = 0, b.away = 0
      PROVE  EyeFliesNow
  BY <1>1, <1>5 DEF EyeFliesNow
<1> QED
  BY <1>4, <1>5 DEF EyeFliesNow, a, b

LEMMA DrawnIsAt ==
  ASSUME NEW i, AnimsAreSound(entries)
  PROVE  Fights!Drawn(i).x = At(entries, tiles, i)
<1>1. CASE i \in DOMAIN entries
  <2>1. entries[i] \in AnimStates
    BY <1>1 DEF AnimsAreSound, AnimIsSound
  <2> QED
    BY <1>1, <2>1, VisualPlace DEF Fights!Drawn, At
<1>2. CASE i \notin DOMAIN entries
  BY <1>2 DEF Fights!Drawn, At
<1> QED
  BY <1>1, <1>2

LEMMA DrawnWillBeAt ==
  ASSUME NEW i, AnimsAreSound(entries')
  PROVE  Fights!Drawn(i)'.x = At(entries', tiles', i)
<1>1. CASE i \in DOMAIN entries'
  <2>1. entries'[i] \in AnimStates
    BY <1>1 DEF AnimsAreSound, AnimIsSound
  <2> QED
    BY <1>1, <2>1, VisualPlace DEF Fights!Drawn, At
<1>2. CASE i \notin DOMAIN entries'
  BY <1>2 DEF Fights!Drawn, At
<1> QED
  BY <1>1, <1>2

\* Sums of what is drawn are of whole numbers.
LEMMA AtIsWhole ==
  ASSUME NEW es, AnimsAreSound(es), NEW ts \in Seq(Line), NEW i \in DOMAIN ts
  PROVE  At(es, ts, i) \in Int
<1>1. CASE i \in DOMAIN es
  <2>1. AnimIsSound(es[i])
    BY <1>1 DEF AnimsAreSound
  <2>2. es[i] \in AnimStates /\ es[i].elapsed < AnimTime(es[i].type)
    BY <2>1 DEF AnimIsSound
  <2>3. es[i].elapsed \in Nat /\ AnimTime(es[i].type) \in Nat
    BY <2>2, AnimTimes DEF AnimStates
  <2>4. es[i].elapsed \in 0 .. AnimTime(es[i].type) /\ es[i].elapsed <= es[i].elapsed
    BY <2>2, <2>3
  <2>5. Place(es[i], es[i].elapsed) \in Int
    BY <2>1, <2>2, <2>4, PlacesAreNear DEF AnimIsSound
  <2> QED
    BY <1>1, <2>5 DEF At
<1>2. CASE i \notin DOMAIN es
  <2>1. ts[i] \in Line
    OBVIOUS
  <2> QED
    BY <1>2, <2>1, LineNumbers DEF At
<1> QED
  BY <1>1, <1>2

LEMMA UnitsAreSteady ==
  ASSUME NEW dt \in FightFrames, NEW on, on = Fights!Running(dt), hist'.dt = dt,
         FightInv, TilesAreFew(tiles'), AnimsAreSound(entries'), DOMAIN tiles' = DOMAIN tiles,
         AnimsAreSound(on.entries),
         \A i \in DOMAIN tiles : At(on.entries, tiles, i) - At(entries, tiles, i) \in -(20 * dt) .. 20 * dt,
         \A i \in DOMAIN tiles :
           \/ i \in DOMAIN on.entries /\ entries'[i].elapsed = 0
           \/ At(entries', tiles', i) = At(on.entries, tiles, i)
  PROVE  UnitsWalkNow
<1>1. dt \in Nat
  BY FightConstants
<1>2. AnimsAreSound(entries) /\ tiles \in Seq(Line) /\ tiles' \in Seq(Line)
  BY DEF FightInv, TilesAreFew
<1> SUFFICES ASSUME NEW i \in DOMAIN tiles',
                    ~(i \in DOMAIN on.entries /\ entries'[i].elapsed = 0)
             PROVE  Fights!Abs(Fights!Drawn(i)'.x - Fights!Drawn(i).x) <= 20 * dt + 1
  BY DEF UnitsWalkNow
<1>3. i \in DOMAIN tiles /\ At(entries', tiles', i) = At(on.entries, tiles, i)
  OBVIOUS
<1>4. Fights!Drawn(i).x = At(entries, tiles, i) /\ Fights!Drawn(i)'.x = At(on.entries, tiles, i)
  BY <1>2, <1>3, DrawnIsAt, DrawnWillBeAt
<1>5. At(entries, tiles, i) \in Int /\ At(on.entries, tiles, i) \in Int
  BY <1>2, <1>3, AtIsWhole
<1>6. At(on.entries, tiles, i) - At(entries, tiles, i) \in -(20 * dt) .. 20 * dt
  BY <1>3
<1> QED
  BY <1>1, <1>4, <1>5, <1>6 DEF Fights!Abs

\* What holds at the end of a frame, and of it.
FightIsSteady == FightInv' /\ EyeFliesNow /\ UnitsWalkNow

\* A frame without a fight: nothing begins, or a unit is moved.
LEMMA WatchGoesOn ==
  ASSUME FightInv, NEW space \in BOOLEAN, NEW dt \in FightFrames, NEW look \in Views,
         IF Fights!Active(cine) THEN view = Fights!Snapshot(look, 0) ELSE ~space,
         NEW after, after = Fights!CameraFrame(space, dt, look), NEW on, on = Fights!Running(dt),
         Fights!Watch(space, dt, after, on)
  PROVE  FightIsSteady
<1>1. /\ CineIsSound(after.cine, after.view)
      /\ Fights!Active(cine) => after.view = view
      /\ AnimsAreSound(on.entries) /\ EffectsAreSound(on.effects)
      /\ hist.skipped \/ (space /\ Fights!Active(cine)) \/ Together(on.entries, on.effects, after.cine)
      /\ hist.shifted \/ AtRest(on.entries, tiles)
      /\ hist.shifted \/ \A i \in DOMAIN tiles :
                           At(on.entries, tiles, i) - At(entries, tiles, i) \in -(20 * dt) .. 20 * dt
      /\ \/ space /\ Fights!Active(cine)
         \/ Flies(SeenOf(cine, view), SeenOf(after.cine, after.view), dt)
         \/ ~Fights!Active(cine) /\ SeenOf(cine, view).away = 0 /\ SeenOf(after.cine, after.view).away = 0
  BY FrameBegins
<1>2. /\ HistoryHasFields'
      /\ hist'.chosen = IF Fights!Active(cine) THEN hist.chosen ELSE after.view
      /\ hist'.skipped = (hist.skipped \/ (space /\ Fights!Active(cine)))
      /\ hist'.shifted = (hist.shifted /\ DOMAIN on.entries # {})
      /\ hist'.dt = dt /\ hist'.jumped = (space /\ Fights!Active(cine))
  BY FrameIsRecorded DEF FightInv, Fights!Watch
<1>3. /\ cine' = after.cine /\ view' = after.view /\ effects' = on.effects
      /\ entries' = on.entries /\ tiles' = tiles
  BY DEF Fights!Watch
<1>4. TilesAreFew(tiles) /\ view = hist.chosen /\ CineIsSound(cine, view)
  BY DEF FightInv
<1>5. view' = hist'.chosen
  BY <1>1, <1>2, <1>3, <1>4
<1>6. hist'.skipped \/ Together(entries', effects', cine')
  BY <1>1, <1>2, <1>3
<1>7. hist'.shifted \/ AtRest(entries', tiles')
  BY <1>1, <1>2, <1>3 DEF AtRest
<1>8. FightInv'
  BY <1>1, <1>2, <1>3, <1>4, <1>5, <1>6, <1>7 DEF FightInv
<1>9. EyeFliesNow
  <2>1. SeenOf(cine', view') = SeenOf(after.cine, after.view)
    BY <1>3
  <2>2. \/ hist'.jumped
        \/ Flies(SeenOf(cine, view), SeenOf(after.cine, after.view), dt)
        \/ ~Fights!Active(cine) /\ SeenOf(cine, view).away = 0 /\ SeenOf(after.cine, after.view).away = 0
    BY <1>1, <1>2
  <2> QED
    BY <1>1, <1>2, <1>4, <2>1, <2>2, EyeIsSteady
<1>10. UnitsWalkNow
  <2>1. CASE hist.shifted
    BY <2>1 DEF UnitsWalkNow
  <2>2. CASE ~hist.shifted
    <3>1. \A i \in DOMAIN tiles : At(entries', tiles', i) = At(on.entries, tiles, i)
      BY <1>3
    <3> QED
      BY <1>1, <1>2, <1>3, <1>4, <2>2, <3>1, UnitsAreSteady
  <2> QED
    BY <2>1, <2>2
<1> QED
  BY <1>8, <1>9, <1>10 DEF FightIsSteady

LEMMA MoveGoesOn ==
  ASSUME FightInv, NEW space \in BOOLEAN, NEW dt \in FightFrames, NEW look \in Views,
         IF Fights!Active(cine) THEN view = Fights!Snapshot(look, 0) ELSE ~space,
         NEW after, after = Fights!CameraFrame(space, dt, look), NEW on, on = Fights!Running(dt),
         Fights!MoveUnit(space, dt, after, on)
  PROVE  FightIsSteady
<1>1. /\ CineIsSound(after.cine, after.view)
      /\ Fights!Active(cine) => after.view = view
      /\ AnimsAreSound(on.entries) /\ EffectsAreSound(on.effects)
      /\ hist.skipped \/ (space /\ Fights!Active(cine)) \/ Together(on.entries, on.effects, after.cine)
      /\ hist.shifted \/ AtRest(on.entries, tiles)
      /\ hist.shifted \/ \A i \in DOMAIN tiles :
                           At(on.entries, tiles, i) - At(entries, tiles, i) \in -(20 * dt) .. 20 * dt
      /\ \/ space /\ Fights!Active(cine)
         \/ Flies(SeenOf(cine, view), SeenOf(after.cine, after.view), dt)
         \/ ~Fights!Active(cine) /\ SeenOf(cine, view).away = 0 /\ SeenOf(after.cine, after.view).away = 0
  BY FrameBegins
<1>2. PICK k \in DOMAIN tiles, t \in Line :
        /\ tiles[k] - t \in {-1, 1}
        /\ cine' = after.cine /\ view' = after.view /\ effects' = on.effects
        /\ entries' = Fights!StartAnim(on.entries, k, "Move", tiles[k], t)
        /\ tiles' = [tiles EXCEPT ![k] = t]
        /\ Fights!Record(space, dt, after, on)
  BY DEF Fights!MoveUnit, Fights!StartMove
<1>3. /\ HistoryHasFields'
      /\ hist'.chosen = IF Fights!Active(cine) THEN hist.chosen ELSE after.view
      /\ hist'.skipped = (hist.skipped \/ (space /\ Fights!Active(cine)))
      /\ hist'.shifted = (hist.shifted /\ DOMAIN on.entries # {})
      /\ hist'.dt = dt /\ hist'.jumped = (space /\ Fights!Active(cine))
  BY <1>2, FrameIsRecorded DEF FightInv
<1>4. TilesAreFew(tiles) /\ view = hist.chosen /\ CineIsSound(cine, view)
  BY DEF FightInv
<1>5. /\ TilesAreFew(tiles') /\ DOMAIN tiles' = DOMAIN tiles /\ tiles[k] \in Line
      /\ \A i \in DOMAIN tiles : tiles'[i] = IF i = k THEN t ELSE tiles[i]
  BY <1>2, <1>4 DEF TilesAreFew
<1>6. t - tiles[k] \in {-1, 1}
  BY <1>2, <1>5, LineNumbers
<1>7. /\ AnimsAreSound(entries') /\ DOMAIN entries' = DOMAIN on.entries \cup {k}
      /\ entries'[k] = [type |-> "Move", elapsed |-> 0, from |-> tiles[k], to |-> t]
      /\ \A i \in DOMAIN on.entries : i # k => entries'[i] = on.entries[i]
  <2> DEFINE es == on.entries
             type == "Move"
             from == tiles[k]
             begun == Fights!StartAnim(es, k, type, from, t)
  <2>1. /\ type \in {"Move", "Attack", "Death"} /\ from \in Line /\ t \in Line
        /\ AnimsAreSound(es) /\ t - from \in {-1, 1}
    BY <1>1, <1>5, <1>6
  <2>2. entries' = begun
    BY <1>2
  <2> HIDE DEF es, type, from
  <2>3. AnimsAreSound(begun)
    BY <2>1, AnimBegins
  <2>4. /\ DOMAIN begun = DOMAIN es \cup {k}
        /\ begun[k] = [type |-> type, elapsed |-> 0, from |-> from, to |-> t]
        /\ \A i \in DOMAIN es : i # k => begun[i] = es[i]
    BY DEF Fights!StartAnim
  <2> HIDE DEF begun
  <2> QED
    BY <2>2, <2>3, <2>4 DEF es, type, from
<1>8. /\ entries'[k].type = "Move" /\ entries'[k].elapsed = 0 /\ entries'[k].from = tiles[k]
      /\ entries'[k].to = t
  BY <1>7
<1>9. view' = hist'.chosen
  BY <1>1, <1>2, <1>3, <1>4
<1>10. hist'.skipped \/ Together(entries', effects', cine')
  <2> SUFFICES ASSUME Together(on.entries, on.effects, after.cine)
               PROVE  Together(entries', effects', cine')
    BY <1>1, <1>3
  <2>1. \A f \in effects' : f.left <= EffectTime(f.kind) - Watched(cine')
    BY <1>2 DEF Together
  <2>2. ASSUME NEW i \in DOMAIN entries', entries'[i].type # "Move"
        PROVE  entries'[i].elapsed >= Watched(cine')
    <3>1. i # k /\ i \in DOMAIN on.entries /\ entries'[i] = on.entries[i]
      BY <1>7, <1>8, <2>2
    <3> QED
      BY <1>2, <2>2, <3>1 DEF Together
  <2> QED
    BY <2>1, <2>2 DEF Together
<1>11. ASSUME AtRest(on.entries, tiles)
       PROVE  AtRest(entries', tiles')
  BY <1>2, <1>5, <1>7, <1>8, <1>11 DEF AtRest, EndsAt
<1>12. hist'.shifted \/ AtRest(entries', tiles')
  <2>1. DOMAIN on.entries = {} => AtRest(on.entries, tiles)
    BY DEF AtRest
  <2> QED
    BY <1>1, <1>3, <1>11, <2>1
<1>13. FightInv'
  BY <1>1, <1>2, <1>3, <1>5, <1>7, <1>9, <1>10, <1>12 DEF FightInv
<1>14. EyeFliesNow
  <2>1. SeenOf(cine', view') = SeenOf(after.cine, after.view)
    BY <1>2
  <2>2. \/ hist'.jumped
        \/ Flies(SeenOf(cine, view), SeenOf(after.cine, after.view), dt)
        \/ ~Fights!Active(cine) /\ SeenOf(cine, view).away = 0 /\ SeenOf(after.cine, after.view).away = 0
    BY <1>1, <1>3
  <2> QED
    BY <1>1, <1>3, <1>4, <2>1, <2>2, EyeIsSteady
<1>15. UnitsWalkNow
  <2>1. CASE hist.shifted
    BY <2>1 DEF UnitsWalkNow
  <2>2. CASE ~hist.shifted
    <3>1. ASSUME NEW i \in DOMAIN tiles
          PROVE  \/ i \in DOMAIN on.entries /\ entries'[i].elapsed = 0
                 \/ At(entries', tiles', i) = At(on.entries, tiles, i)
      <4>1. CASE i # k
        BY <1>5, <1>7, <4>1 DEF At
      <4>2. CASE i = k /\ k \in DOMAIN on.entries
        BY <1>8, <4>2
      <4>3. CASE i = k /\ k \notin DOMAIN on.entries
        <5>1. At(on.entries, tiles, i) = 100 * tiles[k]
          BY <4>3 DEF At
        <5>2. At(entries', tiles', i) = Place(entries'[k], 0)
          BY <1>7, <1>8, <4>3 DEF At
        <5>3. Place(entries'[k], 0) = 100 * tiles[k]
          <6>1. entries'[k] \in AnimStates
            BY <1>7 DEF AnimsAreSound, AnimIsSound
          <6>2. 0 \in 0 .. AnimTime(entries'[k].type) /\ 0 <= 0
            BY <1>8, AnimTimes
          <6> QED
            BY <1>6, <1>8, <6>1, <6>2, PlacesAreNear
        <5> QED
          BY <5>1, <5>2, <5>3
      <4> QED
        BY <4>1, <4>2, <4>3
    <3> QED
      BY <1>1, <1>3, <1>5, <1>7, <2>2, <3>1, UnitsAreSteady
  <2> QED
    BY <2>1, <2>2
<1> QED
  BY <1>13, <1>14, <1>15 DEF FightIsSteady

LEMMA SpawnedAreSound ==
  ASSUME TilesAreFew(tiles), NEW i \in DOMAIN tiles, NEW j \in DOMAIN tiles, NEW counter, NEW dead
  PROVE  EffectsAreSound(Fights!SpawnEffects(i, j, counter, dead))
<1> SUFFICES ASSUME NEW f \in Fights!SpawnEffects(i, j, counter, dead)
             PROVE  f \in EffectStates /\ f.left \in 1 .. EffectTime(f.kind)
  BY DEF EffectsAreSound
<1>1. tiles[i] \in Line /\ tiles[j] \in Line
  BY DEF TilesAreFew
<1>2. \E kind \in {"Number", "Flash", "Death"}, at \in {tiles[i], tiles[j]} :
        f = [kind |-> kind, at |-> at, left |-> EffectTime(kind)]
  BY DEF Fights!SpawnEffects, EffectTime
<1>3. PICK kind \in {"Number", "Flash", "Death"}, at \in Line :
        f = [kind |-> kind, at |-> at, left |-> EffectTime(kind)]
  BY <1>1, <1>2
<1>4. EffectTime(kind) \in Nat \ {0}
  BY EffectTimes
<1>5. f \in EffectStates /\ f.left = EffectTime(kind) /\ f.kind = kind
  BY <1>3, <1>4 DEF EffectStates
<1> QED
  BY <1>4, <1>5

LEMMA FightAnimsBegin ==
  ASSUME TilesAreFew(tiles), NEW i \in DOMAIN tiles, NEW j \in DOMAIN tiles, NEW dead,
         NEW es, AnimsAreSound(es)
  PROVE  /\ AnimsAreSound(Fights!FightAnims(es, i, j, dead))
         /\ dead = {} => Fights!FightAnims(es, i, j, dead) = Fights!StartAnim(es, i, "Attack", tiles[i], tiles[j])
<1> DEFINE lunge == Fights!StartAnim(es, i, "Attack", tiles[i], tiles[j])
           falls == IF j \in dead THEN Fights!StartAnim(lunge, j, "Death", tiles[j], tiles[j]) ELSE lunge
           all == IF i \in dead THEN Fights!StartAnim(falls, i, "Death", tiles[i], tiles[i]) ELSE falls
<1>1. Fights!FightAnims(es, i, j, dead) = all
  BY DEF Fights!FightAnims
<1>2. tiles[i] \in Line /\ tiles[j] \in Line
  BY DEF TilesAreFew
<1>3. AnimsAreSound(lunge)
  BY <1>2, AnimBegins
<1> HIDE DEF lunge
<1>4. AnimsAreSound(falls)
  BY <1>2, <1>3, AnimBegins
<1> HIDE DEF falls
<1>5. AnimsAreSound(all)
  BY <1>2, <1>4, AnimBegins
<1> QED
  BY <1>1, <1>5 DEF lunge, falls

\* The fight between the units at i and j that kills the dead.
IsFought(i, j, counter, dead, space, dt, after, on) ==
  /\ ~Fights!Active(after.cine) /\ i # j
  /\ i \in dead => counter /\ j \notin dead
  /\ hist.fights < MaxFights
  /\ effects' = on.effects \cup Fights!SpawnEffects(i, j, counter, dead)
  /\ cine' = Fights!TriggerCombat(after.view) /\ view' = after.view
  /\ entries' = Fights!FightAnims(on.entries, i, j, dead)
  /\ \/ dead = {} /\ tiles' = tiles
     \/ \E k \in dead : tiles' = Fights!RemoveAt(tiles, k)
  /\ hist' = [hist EXCEPT !.chosen = after.view, !.skipped = FALSE,
                          !.shifted = dead # {} \/ (@ /\ DOMAIN on.entries # {}),
                          !.dt = dt, !.jumped = space /\ Fights!Active(cine), !.fights = @ + 1]

\* A fight begins where the camera has come back.
LEMMA AttackGoesOn ==
  ASSUME FightInv, NEW space \in BOOLEAN, NEW dt \in FightFrames, NEW look \in Views,
         IF Fights!Active(cine) THEN view = Fights!Snapshot(look, 0) ELSE ~space,
         NEW after, after = Fights!CameraFrame(space, dt, look), NEW on, on = Fights!Running(dt),
         Fights!Attack(space, dt, after, on)
  PROVE  FightIsSteady
<1>1. /\ CineIsSound(after.cine, after.view)
      /\ Fights!Active(cine) => after.view = view
      /\ AnimsAreSound(on.entries) /\ EffectsAreSound(on.effects)
      /\ hist.shifted \/ AtRest(on.entries, tiles)
      /\ hist.shifted \/ \A i \in DOMAIN tiles :
                           At(on.entries, tiles, i) - At(entries, tiles, i) \in -(20 * dt) .. 20 * dt
      /\ \/ space /\ Fights!Active(cine)
         \/ Flies(SeenOf(cine, view), SeenOf(after.cine, after.view), dt)
         \/ ~Fights!Active(cine) /\ SeenOf(cine, view).away = 0 /\ SeenOf(after.cine, after.view).away = 0
  BY FrameBegins
<1>1a. \E i, j \in DOMAIN tiles, counter \in BOOLEAN :
         \E dead \in SUBSET {i, j} : IsFought(i, j, counter, dead, space, dt, after, on)
  BY Zenon DEF Fights!Attack, IsFought
<1>1b. PICK i \in DOMAIN tiles, j \in DOMAIN tiles, counter \in BOOLEAN :
         \E dead \in SUBSET {i, j} : IsFought(i, j, counter, dead, space, dt, after, on)
  BY <1>1a, Zenon
<1>1c. PICK dead \in SUBSET {i, j} : IsFought(i, j, counter, dead, space, dt, after, on)
  BY <1>1b
<1>2. /\ ~Fights!Active(after.cine)
      /\ effects' = on.effects \cup Fights!SpawnEffects(i, j, counter, dead)
      /\ cine' = Fights!TriggerCombat(after.view) /\ view' = after.view
      /\ entries' = Fights!FightAnims(on.entries, i, j, dead)
      /\ \/ dead = {} /\ tiles' = tiles
         \/ \E k \in dead : tiles' = Fights!RemoveAt(tiles, k)
      /\ hist' = [hist EXCEPT !.chosen = after.view, !.skipped = FALSE,
                              !.shifted = dead # {} \/ (hist.shifted /\ DOMAIN on.entries # {}),
                              !.dt = dt, !.jumped = space /\ Fights!Active(cine), !.fights = hist.fights + 1]
  BY <1>1c DEF IsFought
<1> DEFINE shifted == dead # {} \/ (hist.shifted /\ DOMAIN on.entries # {})
           jumped == space /\ Fights!Active(cine)
<1>3. /\ HistoryHasFields' /\ hist'.chosen = after.view
      /\ hist'.shifted = shifted /\ hist'.dt = dt /\ hist'.jumped = jumped
  <2> HIDE DEF shifted, jumped
  <2>1. hist = [chosen |-> hist.chosen, skipped |-> hist.skipped, shifted |-> hist.shifted,
                dt |-> hist.dt, jumped |-> hist.jumped, fights |-> hist.fights]
    BY DEF FightInv, HistoryHasFields
  <2>2. hist' = [chosen |-> after.view, skipped |-> FALSE, shifted |-> shifted,
                 dt |-> dt, jumped |-> jumped, fights |-> hist.fights + 1]
    BY <1>2, <2>1 DEF shifted, jumped
  <2> QED
    BY <2>2 DEF HistoryHasFields
<1>4. TilesAreFew(tiles) /\ CineIsSound(cine, view)
  BY DEF FightInv
<1>5. TilesAreFew(tiles')
  <2>1. CASE tiles' = tiles
    BY <1>4, <2>1
  <2>2. ASSUME NEW k \in {i, j}, tiles' = Fights!RemoveAt(tiles, k)
        PROVE  TilesAreFew(tiles')
    <3>1. k \in 1 .. Len(tiles) /\ tiles \in Seq(Line) /\ Len(tiles) <= 2 /\ Len(tiles) \in Nat
      BY <1>4 DEF TilesAreFew
    <3> DEFINE head == SubSeq(tiles, 1, k - 1)
               tail == SubSeq(tiles, k + 1, Len(tiles))
    <3>2. tiles' = head \o tail
      BY <2>2 DEF Fights!RemoveAt
    <3>3. head \in Seq(Line) /\ Len(head) = k - 1
      BY <3>1
    <3>4. tail \in Seq(Line) /\ Len(tail) = Len(tiles) - k
      BY <3>1
    <3> HIDE DEF head, tail
    <3>5. head \o tail \in Seq(Line) /\ Len(head \o tail) = Len(head) + Len(tail)
      BY <3>3, <3>4
    <3> QED
      BY <3>1, <3>2, <3>3, <3>4, <3>5 DEF TilesAreFew
  <2> QED
    BY <1>2, <2>1, <2>2
<1>6. EffectsAreSound(effects')
  <2>1. EffectsAreSound(Fights!SpawnEffects(i, j, counter, dead))
    BY <1>4, SpawnedAreSound
  <2> QED
    BY <1>1, <1>2, <2>1 DEF EffectsAreSound
<1>7. /\ AnimsAreSound(entries')
      /\ dead = {} => entries' = Fights!StartAnim(on.entries, i, "Attack", tiles[i], tiles[j])
  BY <1>1, <1>2, <1>4, FightAnimsBegin
<1>8. CineIsSound(cine', view') /\ cine'.phase = "PanToTarget" /\ cine'.elapsed = 0 /\ cine'.current = view'
  <2> DEFINE c == Fights!TriggerCombat(after.view)
  <2>1. after.view \in Home
    BY <1>1 DEF CineIsSound
  <2>2. after.view \in OnTheWay /\ after.view.away = 0
    BY <2>1 DEF Home, OnTheWay
  <2>3. c = [phase |-> "PanToTarget", elapsed |-> 0, origin |-> after.view, current |-> after.view]
    BY DEF Fights!TriggerCombat
  <2> HIDE DEF c
  <2>4. /\ c \in CineStates /\ c.phase = "PanToTarget" /\ c.elapsed = 0
        /\ c.origin = after.view /\ c.current = after.view
    BY <2>1, <2>2, <2>3 DEF CineStates, Phases
  <2>5. 0 < Duration("PanToTarget") /\ Away("PanToTarget", 0) = 0
    BY Durations, EasedOver12 DEF Away
  <2>6. CineIsSound(c, after.view)
    BY <2>1, <2>2, <2>4, <2>5 DEF CineIsSound
  <2> QED
    BY <1>2, <2>4, <2>6 DEF c
<1>9. Together(entries', effects', cine')
  <2>1. Watched(cine') = 0
    BY <1>8 DEF Watched
  <2>2. ASSUME NEW k \in DOMAIN entries'
        PROVE  entries'[k].elapsed >= 0
    BY <1>7, <2>2 DEF AnimsAreSound, AnimIsSound, AnimStates
  <2>3. ASSUME NEW f \in effects'
        PROVE  f.left <= EffectTime(f.kind) - 0
    <3>1. f \in EffectStates /\ f.left \in 1 .. EffectTime(f.kind)
      BY <1>6 DEF EffectsAreSound
    <3>2. EffectTime(f.kind) \in Nat
      BY <3>1, EffectTimes DEF EffectStates
    <3> QED
      BY <3>1, <3>2
  <2> QED
    BY <2>1, <2>2, <2>3 DEF Together
<1>10. ASSUME dead = {}
       PROVE  /\ tiles' = tiles
              /\ DOMAIN entries' = DOMAIN on.entries \cup {i}
              /\ entries'[i] = [type |-> "Attack", elapsed |-> 0, from |-> tiles[i], to |-> tiles[j]]
              /\ \A k \in DOMAIN on.entries : k # i => entries'[k] = on.entries[k]
  <2> DEFINE es == on.entries
             type == "Attack"
             from == tiles[i]
             to == tiles[j]
             begun == Fights!StartAnim(es, i, type, from, to)
  <2>2. entries' = begun
    BY <1>7, <1>10
  <2> HIDE DEF es, type, from, to
  <2>3. /\ DOMAIN begun = DOMAIN es \cup {i}
        /\ begun[i] = [type |-> type, elapsed |-> 0, from |-> from, to |-> to]
        /\ \A k \in DOMAIN es : k # i => begun[k] = es[k]
    BY DEF Fights!StartAnim
  <2> HIDE DEF begun
  <2>4. tiles' = tiles
    BY <1>2, <1>10
  <2> QED
    BY <2>2, <2>3, <2>4 DEF es, type, from, to
<1>11. ASSUME dead = {}, AtRest(on.entries, tiles)
       PROVE  AtRest(entries', tiles')
  <2>1. EndsAt(entries'[i]) = tiles[i]
    BY <1>10, <1>11 DEF EndsAt
  <2> QED
    BY <1>10, <1>11, <2>1 DEF AtRest
<1>12. hist'.shifted \/ AtRest(entries', tiles')
  <2>1. DOMAIN on.entries = {} => AtRest(on.entries, tiles)
    BY DEF AtRest
  <2> QED
    BY <1>1, <1>3, <1>11, <2>1
<1>13. FightInv'
  BY <1>2, <1>3, <1>5, <1>6, <1>7, <1>8, <1>9, <1>12 DEF FightInv
<1>14. EyeFliesNow
  <2>1. SeenOf(cine', view') = SeenOf(after.cine, after.view)
    BY <1>2, <1>8 DEF SeenOf, Fights!Active
  <2>2. \/ hist'.jumped
        \/ Flies(SeenOf(cine, view), SeenOf(after.cine, after.view), dt)
        \/ ~Fights!Active(cine) /\ SeenOf(cine, view).away = 0 /\ SeenOf(after.cine, after.view).away = 0
    BY <1>1, <1>3
  <2> QED
    BY <1>1, <1>3, <1>4, <2>1, <2>2, EyeIsSteady
<1>15. UnitsWalkNow
  <2>1. CASE hist.shifted \/ hist'.shifted
    BY <2>1 DEF UnitsWalkNow
  <2>2. CASE ~hist.shifted /\ ~hist'.shifted
    <3>1. dead = {}
      BY <1>3, <2>2
    <3>2. /\ tiles' = tiles
          /\ DOMAIN entries' = DOMAIN on.entries \cup {i}
          /\ entries'[i] = [type |-> "Attack", elapsed |-> 0, from |-> tiles[i], to |-> tiles[j]]
          /\ \A k \in DOMAIN on.entries : k # i => entries'[k] = on.entries[k]
      BY <1>10, <3>1
    <3>3. entries'[i].type = "Attack" /\ entries'[i].elapsed = 0 /\ entries'[i].from = tiles[i]
      BY <3>2
    <3>4. ASSUME NEW n \in DOMAIN tiles
          PROVE  \/ n \in DOMAIN on.entries /\ entries'[n].elapsed = 0
                 \/ At(entries', tiles', n) = At(on.entries, tiles, n)
      <4>1. CASE n # i
        BY <3>2, <4>1 DEF At
      <4>2. CASE n = i /\ i \in DOMAIN on.entries
        BY <3>3, <4>2
      <4>3. CASE n = i /\ i \notin DOMAIN on.entries
        <5>1. At(on.entries, tiles, n) = 100 * tiles[i]
          BY <4>3 DEF At
        <5>2. At(entries', tiles', n) = Place(entries'[i], 0)
          BY <3>2, <3>3, <4>3 DEF At
        <5>3. Place(entries'[i], 0) = 100 * tiles[i]
          <6>1. entries'[i] \in AnimStates
            BY <1>7, <3>2 DEF AnimsAreSound, AnimIsSound
          <6>2. 0 \in 0 .. AnimTime(entries'[i].type) /\ 0 <= 0
            BY <3>3, AnimTimes
          <6> QED
            BY <3>3, <6>1, <6>2, PlacesAreNear
        <5> QED
          BY <5>1, <5>2, <5>3
      <4> QED
        BY <4>1, <4>2, <4>3
    <3> QED
      BY <1>1, <1>3, <1>5, <1>7, <2>2, <3>2, <3>4, UnitsAreSteady
  <2> QED
    BY <2>1, <2>2
<1> QED
  BY <1>13, <1>14, <1>15 DEF FightIsSteady

LEMMA FightsGoOn ==
  ASSUME FightInv, Fights!Next
  PROVE  FightIsSteady
<1>1. PICK space \in BOOLEAN, dt \in FightFrames, look \in Views :
        /\ IF Fights!Active(cine) THEN view = Fights!Snapshot(look, 0) ELSE ~space
        /\ \E after \in {Fights!CameraFrame(space, dt, look)}, on \in {Fights!Running(dt)} :
             \/ Fights!Watch(space, dt, after, on)
             \/ Fights!MoveUnit(space, dt, after, on)
             \/ Fights!Attack(space, dt, after, on)
  BY Zenon DEF Fights!Next, Fights!Frame
<1>2. PICK after, on :
        /\ after = Fights!CameraFrame(space, dt, look) /\ on = Fights!Running(dt)
        /\ \/ Fights!Watch(space, dt, after, on)
           \/ Fights!MoveUnit(space, dt, after, on)
           \/ Fights!Attack(space, dt, after, on)
  BY <1>1, Zenon
<1>3. CASE Fights!Watch(space, dt, after, on)
  BY <1>1, <1>2, <1>3, WatchGoesOn
<1>4. CASE Fights!MoveUnit(space, dt, after, on)
  BY <1>1, <1>2, <1>4, MoveGoesOn
<1>5. CASE Fights!Attack(space, dt, after, on)
  BY <1>1, <1>2, <1>5, AttackGoesOn
<1> QED
  BY <1>2, <1>3, <1>4, <1>5

LEMMA FightInvSuffices ==
  ASSUME FightInv
  PROVE  Fights!TypeOK /\ Fights!OpacityIsDefined /\ Fights!FightIsOver /\ Fights!CameraComesBack
<1>1. /\ TilesAreFew(tiles) /\ AnimsAreSound(entries) /\ EffectsAreSound(effects)
      /\ CineIsSound(cine, view) /\ view = hist.chosen
      /\ hist.skipped \/ Together(entries, effects, cine)
  BY DEF FightInv
<1>2. ASSUME NEW i \in DOMAIN entries
      PROVE  /\ entries[i].type \in DOMAIN Fights!AnimDuration
             /\ entries[i].elapsed \in 0 .. Fights!AnimDuration[entries[i].type] - 1
             /\ entries[i].elapsed < 10
             /\ {entries[i].from, entries[i].to} \subseteq Line
  <2>1. entries[i] \in AnimStates /\ entries[i].elapsed < AnimTime(entries[i].type)
    BY <1>1 DEF AnimsAreSound, AnimIsSound
  <2>2. /\ entries[i].type \in {"Move", "Attack", "Death"} /\ entries[i].elapsed \in Nat
        /\ entries[i].from \in Line /\ entries[i].to \in Line
    BY <2>1 DEF AnimStates
  <2>3. AnimTime(entries[i].type) \in Nat /\ AnimTime(entries[i].type) <= 10
    BY <2>2, AnimTimes
  <2>4. DOMAIN Fights!AnimDuration = {"Move", "Attack", "Death"}
    BY DEF Fights!AnimDuration
  <2>5. entries[i].elapsed \in 0 .. AnimTime(entries[i].type) - 1 /\ entries[i].elapsed < 10
    BY <2>1, <2>2, <2>3
  <2> QED
    BY <2>2, <2>4, <2>5 DEF AnimTime
<1>3. ASSUME NEW f \in effects
      PROVE  /\ f.kind \in DOMAIN Fights!EffectDuration /\ f.at \in Line
             /\ f.left \in 1 .. Fights!EffectDuration[f.kind]
             /\ EffectTime(f.kind) <= 30
  <2>1. f \in EffectStates /\ f.left \in 1 .. EffectTime(f.kind)
    BY <1>1 DEF EffectsAreSound
  <2>2. f.kind \in {"Number", "Flash", "Death"} /\ f.at \in Line
    BY <2>1 DEF EffectStates
  <2>3. DOMAIN Fights!EffectDuration = {"Number", "Flash", "Death"}
    BY DEF Fights!EffectDuration
  <2> QED
    BY <2>1, <2>2, <2>3, EffectTimes DEF EffectTime
<1>4. ASSUME Fights!Active(cine)
      PROVE  cine.elapsed \in 0 .. Fights!PhaseDuration[cine.phase] /\ cine.current.away \in 0 .. 100
  <2>1. cine \in CineStates /\ cine.phase # "Idle" /\ cine.elapsed < Duration(cine.phase)
    BY <1>1, <1>4 DEF CineIsSound, Fights!Active
  <2>2. /\ cine.phase \in {"PanToTarget", "Hold", "ReturnToOrigin"} /\ cine.elapsed \in Nat
        /\ cine.current \in OnTheWay
    BY <2>1 DEF CineStates, Phases
  <2>3. Duration(cine.phase) \in Nat
    BY <2>2, Durations
  <2>4. cine.elapsed \in 0 .. Duration(cine.phase)
    BY <2>1, <2>2, <2>3
  <2> QED
    BY <2>2, <2>4 DEF Duration, OnTheWay
<1>5. view \in {Fights!Snapshot(v, 0) : v \in Views}
  <2>1. view \in Home
    BY <1>1 DEF CineIsSound
  <2>2. view.of \in Views /\ view = [of |-> view.of, away |-> 0]
    BY <2>1 DEF Home
  <2> QED
    BY <2>2 DEF Fights!Snapshot
<1>6. Fights!TypeOK
  BY <1>1, <1>2, <1>3, <1>4, <1>5 DEF Fights!TypeOK, TilesAreFew
<1>7. Fights!OpacityIsDefined
  BY <1>3 DEF Fights!OpacityIsDefined
<1>8. Fights!FightIsOver
  <2> SUFFICES ASSUME ~Fights!Active(cine), ~hist.skipped
               PROVE  effects = {} /\ \A i \in DOMAIN entries : entries[i].type = "Move"
    BY DEF Fights!FightIsOver
  <2>1. Watched(cine) = 38 /\ Together(entries, effects, cine)
    BY <1>1 DEF Fights!Active, Watched
  <2>2. ASSUME NEW i \in DOMAIN entries, entries[i].type # "Move"
        PROVE  FALSE
    <3>1. entries[i].elapsed >= 38
      BY <2>1, <2>2 DEF Together
    <3>2. entries[i].elapsed < 10 /\ entries[i].elapsed \in Nat
      <4>1. entries[i] \in AnimStates
        BY <1>1 DEF AnimsAreSound, AnimIsSound
      <4> QED
        BY <1>2, <4>1 DEF AnimStates
    <3> QED
      BY <3>1, <3>2
  <2>3. ASSUME NEW f \in effects
        PROVE  FALSE
    <3>1. f.left <= EffectTime(f.kind) - 38
      BY <2>1 DEF Together
    <3>2. f.left > 0 /\ f.left \in Int /\ EffectTime(f.kind) \in Int
      <4>1. f \in EffectStates /\ f.left \in 1 .. EffectTime(f.kind)
        BY <1>1 DEF EffectsAreSound
      <4> QED
        BY <4>1, EffectTimes DEF EffectStates
    <3> QED
      BY <1>3, <3>1, <3>2
  <2> QED
    BY <2>2, <2>3
<1>9. Fights!CameraComesBack
  BY <1>1 DEF Fights!CameraComesBack
<1> QED
  BY <1>6, <1>7, <1>8, <1>9

\* For any line of tiles, views and durations of frames: when the player may
\* act again after a fight, nothing of it goes on; the camera flies, and comes
\* back to where the player left it; and units are not seen to jump
\* (updateInGame, CameraCinematic, UnitAnimator, CombatEffectManager).
THEOREM FightsAlwaysShown == Spec => FightsAreShown
<1>1. Init => FightInv
  BY FightsBegin DEF Init
<1>2. FightInv /\ [Next]_<<part, app, fightVars, controllerVars, particleVars, audioVars, modelVars>>
      => /\ FightInv'
         /\ fightVars' = fightVars \/ (EyeFliesNow /\ UnitsWalkNow)
  <2> SUFFICES ASSUME FightInv,
                      [Next]_<<part, app, fightVars, controllerVars, particleVars, audioVars, modelVars>>
               PROVE  /\ FightInv'
                      /\ fightVars' = fightVars \/ (EyeFliesNow /\ UnitsWalkNow)
    OBVIOUS
  <2>1. [Fights!Next]_fightVars
    BY DEF Next, MenuStep, FightStep, ControllerStep, ParticleStep, AudioStep, ModelStep
  <2>2. CASE fightVars' = fightVars
    BY <2>2 DEF fightVars, FightInv, TilesAreFew, AnimsAreSound, EffectsAreSound, CineIsSound,
                HistoryHasFields, Together, AtRest
  <2>3. CASE Fights!Next
    BY <2>3, FightsGoOn DEF FightIsSteady
  <2> QED
    BY <2>1, <2>2, <2>3
<1>3. FightInv => Fights!TypeOK /\ Fights!OpacityIsDefined /\ Fights!FightIsOver /\ Fights!CameraComesBack
  BY FightInvSuffices
<1>4. fightVars' = fightVars \/ (EyeFliesNow /\ UnitsWalkNow)
      => /\ [\/ hist'.jumped
             \/ Fights!Seen'.away # Fights!Seen.away /\ Fights!Seen'.of = Fights!Seen.of
                /\ Fights!Abs(Fights!Seen'.away - Fights!Seen.away) <= 15 * hist'.dt + 1
             \/ /\ Fights!Seen'.away = Fights!Seen.away
                /\ Fights!Active(cine) => Fights!Seen'.of = Fights!Seen.of]_<<tiles, entries, effects, cine, view, hist>>
         /\ [hist.shifted \/ hist'.shifted \/
             \A i \in DOMAIN tiles' :
               \/ i \in DOMAIN Fights!Running(hist'.dt).entries /\ entries'[i].elapsed = 0
               \/ Fights!Abs(Fights!Drawn(i)'.x - Fights!Drawn(i).x) <= 20 * hist'.dt + 1
            ]_<<tiles, entries, effects, cine, view, hist>>
  BY DEF fightVars, EyeFliesNow, UnitsWalkNow
<1> QED
  BY <1>1, <1>2, <1>3, <1>4, PTL
     DEF Spec, FightsAreShown, Fights!FightsAreShown, Fights!EyeFlies, Fights!UnitsWalk, Fights!vars

=============================================================================
