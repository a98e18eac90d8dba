SPECIFICATION FairSpec
CONSTANTS
  FadeDuration = 7
  MenuFrames = {1, 3, 9}
  Line = {0, 1, 2}
  Height <- Hill
  Views = {v1, v2}
  FirstView = v1
  MaxFights = 2
  MaxFlights = 1
  FightFrames = {4, 40}
  EntityId = {e1, e2}
  Chained <- Callback
  StateFrames = {2, 3, 21}
  MaxParticles = 3
  MaxBurst = 4
  ParticleFrames = {3, 7}
  AudioManagers = {m1, m2}
  SoundKeys = {"hit"}
  MusicKeys = {"menu", "combat"}
  Levels <- TwoLevels
  MaxVolume = 2
  DefaultMusicVolume = 1
  MaxOpen = 2
  ModelManagers = {m1, m2, m3}
  Keys = {"warrior", "farm"}
  MaxUploaded = 4
CHECK_DEADLOCK FALSE
INVARIANTS
  PoolIsUsed
  DevicesAreOwned
PROPERTIES
  ScreensAreSound
  FightsAreShown
  DeadStayDead
  WhatBeginsEnds
