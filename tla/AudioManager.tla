----------------------------- MODULE AudioManager -----------------------------
(***************************************************************************)
(* Sounds and music (AudioManager): objects that own sounds and streams of *)
(* the audio device, that are moved and destroyed, and of which each plays *)
(* one track.  Of the device (raylib) it is modelled what is open there,   *)
(* whether it is heard, and how loud.                                      *)
(***************************************************************************)
EXTENDS Integers, FiniteSetsExt, Functions

CONSTANTS
  Managers,          \* the objects, alive or not
  SoundKeys, MusicKeys,
  Levels,            \* the volumes that are asked for
  MaxVolume,         \* MAX_VOLUME; MIN_VOLUME is 0
  DefaultMusicVolume,\* DEFAULT_MUSIC_VOLUME; that of sounds is the greatest
  MaxOpen            \* bound of the model: what can be open at the device

AudioAssumption ==
  /\ Levels \subseteq Int /\ MaxVolume \in Nat /\ DefaultMusicVolume \in 0 .. MaxVolume /\ MaxOpen \in Nat
  /\ "" \notin MusicKeys

VARIABLES
  manager,           \* per object
  device             \* what is open at the device, by handle

vars == <<manager, device>>

Nothing == [k \in {} |-> 0]

NoObject == [alive |-> FALSE, sounds |-> Nothing, musicTracks |-> Nothing, currentMusicKey |-> "",
             musicState |-> "Stopped", sfxVolume |-> MaxVolume, musicVolume |-> DefaultMusicVolume]

Fresh == [NoObject EXCEPT !.alive = TRUE]

Init == manager = [m \in Managers |-> NoObject] /\ device = Nothing

clampVolume(v) == IF v < 0 THEN 0 ELSE IF v > MaxVolume THEN MaxVolume ELSE v

-----------------------------------------------------------------------------
(* The device. *)

FreeHandles == 1 .. MaxOpen \ DOMAIN device

Opened(d, kind) ==
  [h \in DOMAIN d \cup {Min(FreeHandles)} |->
     IF h \in DOMAIN d THEN d[h] ELSE [kind |-> kind, status |-> "stopped", volume |-> MaxVolume]]

Turned(d, h, status) == [d EXCEPT ![h].status = status]

Loud(d, h, volume) == [d EXCEPT ![h].volume = volume]

Closed(d, handles) == Restrict(d, DOMAIN d \ handles)

-----------------------------------------------------------------------------
(* The operations. *)

Alive == {m \in Managers : manager[m].alive}

\* Whether there is a track that is not stopped, and its handle.
HasCurrent(a) == a.musicState # "Stopped" /\ a.currentMusicKey \in DOMAIN a.musicTracks

CurrentTrack(a) == a.musicTracks[a.currentMusicKey]

\* A file that is missing or broken leaves everything as it is.
loadSound(m, k) ==
  /\ k \notin DOMAIN manager[m].sounds /\ FreeHandles # {}
  /\ device' = Opened(device, "sound")
  /\ manager' = [manager EXCEPT ![m].sounds =
                   [x \in DOMAIN @ \cup {k} |-> IF x = k THEN Min(FreeHandles) ELSE @[x]]]

playSound(m, k) ==
  /\ k \in DOMAIN manager[m].sounds
  /\ device' = Loud(device, manager[m].sounds[k], manager[m].sfxVolume)
  /\ UNCHANGED manager

loadMusic(m, k) ==
  /\ k \notin DOMAIN manager[m].musicTracks /\ FreeHandles # {}
  /\ device' = Opened(device, "music")
  /\ manager' = [manager EXCEPT ![m].musicTracks =
                   [x \in DOMAIN @ \cup {k} |-> IF x = k THEN Min(FreeHandles) ELSE @[x]]]

\* The current track, if there is one, is silenced.
StoppedCurrent(a, d) == IF HasCurrent(a) THEN Turned(d, CurrentTrack(a), "stopped") ELSE d

playMusic(m, k) ==
  LET a == manager[m]
      h == a.musicTracks[k]
  IN  /\ k \in DOMAIN a.musicTracks
      /\ device' = Turned(Loud(StoppedCurrent(a, device), h, a.musicVolume), h, "playing")
      /\ manager' = [manager EXCEPT ![m].currentMusicKey = k, ![m].musicState = "Playing"]

stopMusic(m) ==
  /\ manager[m].musicState # "Stopped"
  /\ device' = StoppedCurrent(manager[m], device)
  /\ manager' = [manager EXCEPT ![m].currentMusicKey = "", ![m].musicState = "Stopped"]

pauseMusic(m) ==
  /\ manager[m].musicState = "Playing"
  /\ device' = IF HasCurrent(manager[m]) THEN Turned(device, CurrentTrack(manager[m]), "paused") ELSE device
  /\ manager' = [manager EXCEPT ![m].musicState = "Paused"]

resumeMusic(m) ==
  /\ manager[m].musicState = "Paused"
  /\ device' = IF HasCurrent(manager[m]) THEN Turned(device, CurrentTrack(manager[m]), "playing") ELSE device
  /\ manager' = [manager EXCEPT ![m].musicState = "Playing"]

setSfxVolume(m, v) ==
  /\ manager' = [manager EXCEPT ![m].sfxVolume = clampVolume(v)]
  /\ UNCHANGED device

\* Applied at once to the track that plays or pauses.
setMusicVolume(m, v) ==
  LET a == manager[m]
  IN  /\ manager' = [manager EXCEPT ![m].musicVolume = clampVolume(v)]
      /\ device' = IF HasCurrent(a) THEN Loud(device, CurrentTrack(a), clampVolume(v)) ELSE device

Owned(a) == Range(a.sounds) \cup Range(a.musicTracks)

\* What unloadAll leaves of the device and of the object.
Unloaded(a) == [a EXCEPT !.sounds = Nothing, !.musicTracks = Nothing,
                         !.currentMusicKey = "", !.musicState = "Stopped"]

DeviceWithout(a) == Closed(StoppedCurrent(a, device), Owned(a))

unloadAll(m) ==
  /\ manager' = [manager EXCEPT ![m] = Unloaded(@)]
  /\ device' = DeviceWithout(manager[m])

Create(m) == manager' = [manager EXCEPT ![m] = Fresh] /\ UNCHANGED device

Destroy(m) ==
  /\ manager' = [manager EXCEPT ![m] = NoObject]
  /\ device' = DeviceWithout(manager[m])

\* What is left of an object that was moved from.
MovedFrom(a) == Fresh

\* The move constructor.
MoveNew(m, other) ==
  /\ manager' = [manager EXCEPT ![m] = manager[other], ![other] = MovedFrom(manager[other])]
  /\ UNCHANGED device

\* Mutant: what the target owned is forgotten.
MoveAssignOver(m, other) ==
  /\ m # other
  /\ manager' = [manager EXCEPT ![m] = manager[other], ![other] = MovedFrom(manager[other])]
  /\ UNCHANGED device

\* The move assignment: not to itself, and the target unloads first.
MoveAssign(m, other) ==
  /\ m # other
  /\ manager' = [manager EXCEPT ![m] = manager[other], ![other] = MovedFrom(manager[other])]
  /\ device' = DeviceWithout(manager[m])

Use(m) ==
  \/ \E k \in SoundKeys : loadSound(m, k) \/ playSound(m, k)
  \/ \E k \in MusicKeys : loadMusic(m, k) \/ playMusic(m, k)
  \/ stopMusic(m) \/ pauseMusic(m) \/ resumeMusic(m)
  \/ \E v \in Levels : setSfxVolume(m, v) \/ setMusicVolume(m, v)
  \/ unloadAll(m) \/ Destroy(m)

Next ==
  \/ \E m \in Alive : Use(m)
  \/ \E m \in Managers \ Alive : Create(m)
  \/ \E other \in Alive, m \in Managers : IF m \in Alive THEN MoveAssign(m, other) ELSE MoveNew(m, other)

Spec == Init /\ [][Next]_vars

-----------------------------------------------------------------------------
(* What is checked. *)

TypeOK ==
  /\ DOMAIN device \subseteq 1 .. MaxOpen
  /\ \A h \in DOMAIN device : /\ device[h].kind \in {"sound", "music"}
                              /\ device[h].status \in {"stopped", "playing", "paused"}
                              /\ device[h].volume \in 0 .. MaxVolume
  /\ \A m \in Managers :
       /\ DOMAIN manager[m].sounds \subseteq SoundKeys
       /\ DOMAIN manager[m].musicTracks \subseteq MusicKeys
       /\ manager[m].musicState \in {"Stopped", "Playing", "Paused"}
       /\ manager[m].currentMusicKey \in MusicKeys \cup {""}
       /\ manager[m].sfxVolume \in 0 .. MaxVolume /\ manager[m].musicVolume \in 0 .. MaxVolume

\* What is open at the device is owned by one object that is alive, and under
\* one key; and no object holds what is closed: nothing leaks, and nothing is
\* closed twice, through all moves.
EachIsOwnedOnce ==
  /\ DOMAIN device = UNION {Owned(manager[m]) : m \in Alive}
  /\ \A m, n \in Managers : m # n => Owned(manager[m]) \cap Owned(manager[n]) = {}
  /\ \A m \in Managers :
       /\ IsInjective(manager[m].sounds) /\ IsInjective(manager[m].musicTracks)
       /\ Range(manager[m].sounds) \cap Range(manager[m].musicTracks) = {}

\* What is heard is what an object takes itself to play, and so what its
\* update keeps fed; nothing else plays.
HeardIsCurrent ==
  \A h \in DOMAIN device :
    device[h].status = "playing" <=>
      \E m \in Alive : /\ manager[m].musicState = "Playing"
                       /\ HasCurrent(manager[m]) /\ CurrentTrack(manager[m]) = h

\* An object that plays or pauses has the track for it.
CurrentIsLoaded == \A m \in Managers : manager[m].musicState # "Stopped" => HasCurrent(manager[m])

\* The current track is as loud as was asked for last, also when it goes on
\* after a pause in which the volume was changed.
VolumeIsHeard ==
  \A m \in Alive : HasCurrent(manager[m]) =>
    device[CurrentTrack(manager[m])].volume = manager[m].musicVolume

\* The device plays what the objects own and believe, as loud as they say.
SoundsAreOwned ==
  TypeOK /\ EachIsOwnedOnce /\ HeardIsCurrent /\ CurrentIsLoaded /\ VolumeIsHeard

=============================================================================
