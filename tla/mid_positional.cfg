SPECIFICATION Spec
CONSTANTS
  Threads = {t1}
  BlockSize = 2
  DefaultBlockSize = 2
  MaxBlocks = 2
  MaxFiles = 1
  MaxFlushes = 2
INVARIANT BlockMapPositional
CHECK_DEADLOCK FALSE
