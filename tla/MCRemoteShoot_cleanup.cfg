SPECIFICATION Spec
CONSTANTS
  Scripts <- OnlyRsShoot
  QueueLen = 2
  MaxExec = 1
  MaxFaults = 0
  Wanted <- Jpg
  Setups <- OnlyPlain
  JpgMax = 2
  Shots = 2
INVARIANTS
  CleanupUninits
CHECK_DEADLOCK FALSE
