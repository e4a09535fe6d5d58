SPECIFICATION FairSpec
CONSTANTS
  None = None
  Players = {alice, bob}
  Teams = {0, 1, 2}
  MaxHealth = 2
  RespawnTicks = 2
  CooldownTicks = 1
  DMKillLimit = 3
  TeamKillLimit = 3
  MaxShots = 5
INVARIANTS
  TypeOK
  AliveOrComingBack
  KillsAreDeaths
  ScoresAreKills
  WinIsPrompt
PROPERTIES
  ResultIsFinal
  LoopEnds
  DeadTankReturns
CHECK_DEADLOCK FALSE
