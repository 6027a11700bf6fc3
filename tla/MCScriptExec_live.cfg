SPECIFICATION LiveSpec
CONSTANTS
  NewProtos <- OnlyNew
  Scripts <- FewScripts
  CallOpts <- FlushOpts
  QueueLen = 2
  MaxExec = 2
  MaxFaults = 1
INVARIANTS
  HearsOwn
PROPERTIES
  CallsEnd
CHECK_DEADLOCK FALSE
