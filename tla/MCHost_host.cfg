SPECIFICATION Spec
CONSTANTS
  Lbufs = {l1, l2}
  Blocks <- FewBlocks
  Sizes = {0, 1, 5}
  MaxCalls = 3
  Byte = 4
  UWord = 64
  StackMax = 8
  Contents <- FewContents
  Args <- FewArgs
  Vals <- FewVals
  MaxWrites = 1
SYMMETRY Symmetric
INVARIANTS
  LbufContract
  
  LiveTrue
  PackTrue
  CallsContract
CHECK_DEADLOCK FALSE
