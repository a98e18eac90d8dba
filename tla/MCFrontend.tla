----------------------------- MODULE MCFrontend -----------------------------
(***************************************************************************)
(* The parts of the program and its engine that share no state with each   *)
(* other, each on an instance of its own: the screens, the animations and  *)
(* the camera, the states of animated entities, particles, sounds and      *)
(* models.  In a behaviour one of them does something and the others rest  *)
(* in their initial states; so what is checked is what a run of each would *)
(* check.                                                                  *)
(***************************************************************************)
EXTENDS Integers

CONSTANTS
  FadeDuration, MenuFrames,                        \* Screens
  Line, Height, Views, FirstView, MaxFights, MaxFlights, FightFrames,  \* Animation
  EntityId, Chained, StateFrames,                  \* AnimationController
  MaxParticles, MaxBurst, ParticleFrames,          \* ParticleSystem
  AudioManagers, SoundKeys, MusicKeys, Levels, MaxVolume, DefaultMusicVolume, MaxOpen,  \* AudioManager
  ModelManagers, Keys, MaxUploaded                      \* ModelManager

VARIABLES
  part,                                            \* which of them
  app,                                             \* Screens
  tiles, entries, effects, cine, view, hist,       \* Animation
  entities, deaths,                                \* AnimationController
  pool, searchHint,                                \* ParticleSystem
  manager, device,                                 \* AudioManager
  models, uploaded, window, freedTwice             \* ModelManager

fightVars == <<tiles, entries, effects, cine, view, hist>>

controllerVars == <<entities, deaths>>

particleVars == <<pool, searchHint>>

audioVars == <<manager, device>>

modelVars == <<models, uploaded, window, freedTwice>>

-----------------------------------------------------------------------------
(* The instances, with the constants of the same names. *)

Menus == INSTANCE Screens WITH FrameTimes <- MenuFrames

Fights == INSTANCE Animation WITH FrameTimes <- FightFrames

Controller == INSTANCE AnimationController WITH FrameTimes <- StateFrames, entries <- entities

Particles == INSTANCE ParticleSystem WITH FrameTimes <- ParticleFrames

Audio == INSTANCE AudioManager WITH Managers <- AudioManagers

Models == INSTANCE ModelManager WITH Managers <- ModelManagers, MaxOpen <- MaxUploaded

ASSUME ScreensAssumption == Menus!ScreensAssumption

ASSUME AnimationAssumption ==
  Fights!AnimationAssumption /\ FirstView \in Views /\ MaxFlights \in Nat

ASSUME ControllerAssumption == Controller!ControllerAssumption

ASSUME ParticleAssumption == Particles!ParticleAssumption

ASSUME AudioAssumption == Audio!AudioAssumption

ASSUME ModelAssumption == Models!ModelAssumption

-----------------------------------------------------------------------------
(* What the constants are for TLC. *)

\* The middle one of three tiles is on a hill.
Hill == [t \in 0 .. 2 |-> IF t = 1 THEN 2 ELSE 0]

\* After an attack the callback has the entity walk, and it has the dead
\* stand up, in vain.
Callback ==
  [s \in {"Idle", "Walking", "Attacking", "TakingDamage", "Dying", "Dead"} |->
     CASE s = "Attacking" -> "Walking" [] s = "Dying" -> "Idle" [] OTHER -> "nothing"]

\* A volume below the least and one above the greatest.
TwoLevels == {-1, 3}

-----------------------------------------------------------------------------

Init ==
  /\ part \in {"menus", "fights", "flights", "controller", "particles", "audio", "models"}
  /\ Menus!Init /\ Fights!Init /\ Controller!Init /\ Particles!Init /\ Audio!Init /\ Models!Init
  /\ part # "flights" => view.of = FirstView
  /\ part \notin {"fights", "flights"} => tiles = <<0, 1>>

MenuStep ==
  /\ part = "menus" /\ Menus!Next
  /\ UNCHANGED <<part, fightVars, controllerVars, particleVars, audioVars, modelVars>>

\* Several fights are fought with one view of the player's, fewer with all.
FightStep ==
  /\ part \in {"fights", "flights"} /\ Fights!Next
  /\ part = "fights" => view'.of = FirstView
  /\ part = "flights" => hist'.fights <= MaxFlights
  /\ UNCHANGED <<part, app, controllerVars, particleVars, audioVars, modelVars>>

ControllerStep ==
  /\ part = "controller" /\ Controller!Next
  /\ UNCHANGED <<part, app, fightVars, particleVars, audioVars, modelVars>>

ParticleStep ==
  /\ part = "particles" /\ Particles!Next
  /\ UNCHANGED <<part, app, fightVars, controllerVars, audioVars, modelVars>>

AudioStep ==
  /\ part = "audio" /\ Audio!Next
  /\ UNCHANGED <<part, app, fightVars, controllerVars, particleVars, modelVars>>

ModelStep ==
  /\ part = "models" /\ Models!Next
  /\ UNCHANGED <<part, app, fightVars, controllerVars, particleVars, audioVars>>

Next == MenuStep \/ FightStep \/ ControllerStep \/ ParticleStep \/ AudioStep \/ ModelStep

Spec ==
  Init /\ [][Next]_<<part, app, fightVars, controllerVars, particleVars, audioVars, modelVars>>

\* Frame follows frame, in each of them.
FramesGoOn ==
  /\ WF_app(MenuStep)
  /\ WF_fightVars(FightStep)
  /\ WF_controllerVars(ControllerStep /\ Controller!Update)
  /\ WF_particleVars(ParticleStep /\ Particles!Update)

FairSpec == Spec /\ FramesGoOn

-----------------------------------------------------------------------------

\* Screens change in the dark, the light does not flicker, and no game is
\* played that was not set up.
ScreensAreSound == Menus!ScreensAreSound

\* Effects, lunges, deaths and the camera's flight of a fight end together,
\* the camera returns to where the player left it, and nothing jumps.
FightsAreShown == Fights!FightsAreShown

\* Entities that die stay dead, whatever callbacks play, and die once.
DeadStayDead == Controller!DeadStayDead

\* emit fills the pool wherever its hint is, and takes no living particle.
PoolIsUsed == Particles!PoolIsUsed

\* Sounds, music and models have one owner however managers are moved, models
\* also after the window was closed, and what is heard is what is believed to
\* play.
DevicesAreOwned == Audio!SoundsAreOwned /\ Models!ModelsAreOwned

\* What begins ends: the fade to a new game, the camera's flight, dying, and
\* the life of particles in a full pool.
WhatBeginsEnds ==
  /\ (part = "menus") => Menus!NewGameStarts
  /\ (part \in {"fights", "flights"}) => Fights!CinematicEnds
  /\ (part = "controller") => Controller!DyingDies
  /\ (part = "particles") => Particles!FullPoolEmpties

=============================================================================
