SPECIFICATION Spec
CONSTANTS
  BlockSize = 2
  DefaultBlockSize = 2
  BlockMapCover = 4
  MaxSize = 6
  MaxRequest = 5
  MaxWrites = 2
  MaxFlushes = 1
  Overwrites = TRUE
  NulNames = FALSE
  DataFails = FALSE
  BlockMapFails = FALSE
  FlushFails = FALSE
INVARIANT ReadCorrect
CHECK_DEADLOCK FALSE
