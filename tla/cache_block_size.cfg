SPECIFICATION Spec
CONSTANTS
  BlockSize = 2
  DefaultBlockSize = 1
  BlockMapCover = 4
  MaxSize = 6
  MaxRequest = 5
  MaxWrites = 2
  MaxFlushes = 1
  Overwrites = FALSE
  NulNames = FALSE
  DataFails = FALSE
  BlockMapFails = FALSE
  FlushFails = FALSE
INVARIANT ClosedIsStored
CHECK_DEADLOCK FALSE
