SPECIFICATION Spec
CONSTANTS
  BufLen = 4
  TcpOps <- FewOps
  MaxTrans = 4
  MaxConn = 2
INVARIANTS
  OwnData
  TcpInStep
  ClosedDown
PROPERTIES
  RefinesRpc
CHECK_DEADLOCK FALSE
