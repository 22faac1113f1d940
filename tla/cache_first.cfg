SPECIFICATION Spec
CONSTANTS
  BlockSize = 2
  DefaultBlockSize = 3
  BlockMapCover = 4
  MaxSize = 6
  MaxRequest = 5
  MaxWrites = 3
  MaxFlushes = 1
  Overwrites = FALSE
  NulNames = FALSE
  DataFails = TRUE
  BlockMapFails = FALSE
  FlushFails = FALSE
INVARIANTS TypeOK ReadCorrect ClosedIsStored FirstFlushIsPrefix CleanIsStored
CHECK_DEADLOCK FALSE
