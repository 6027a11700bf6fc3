SPECIFICATION LiveSpec
CONSTANTS
  Scripts <- ShootScripts
  QueueLen = 2
  MaxExec = 1
  MaxFaults = 1
  Wanted <- JpgDng
  Setups <- BothUses
  JpgMax = 2
  Shots = 2
INVARIANTS
  ShotsWhole
  NoFalseAlarm
  ScriptOver
  OkIsClean
PROPERTIES
  CommandEnds
CHECK_DEADLOCK FALSE
