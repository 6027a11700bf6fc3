SPECIFICATION Spec
CONSTANTS
  NewProtos <- BothProtos
  Scripts <- AllScripts
  CallOpts <- SomeOpts
  QueueLen = 2
  MaxExec = 2
  MaxFaults = 1
INVARIANTS
  NothingLost
  ReturnsComplete
  StrictIsLatest
PROPERTIES
  RefinesRemoteCall
CHECK_DEADLOCK FALSE
