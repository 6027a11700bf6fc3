SPECIFICATION LiveSpec
CONSTANTS
  PacketLen = 4
  Ops <- WideOps
  MaxTrans = 2
INVARIANTS
  BufferInBounds
  NeverRefused
  ReadsExact
  OwnResult
  InStep
  IndInv
  WholeDataPhase
PROPERTIES
  RefinesRpc
  Returns
CHECK_DEADLOCK FALSE
