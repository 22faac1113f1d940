SPECIFICATION Spec
CONSTANTS
  Threads = {t1, t2}
  BlockSize = 3
  DefaultBlockSize = 2
  MaxBlocks = 2
  MaxFiles = 1
  MaxFlushes = 3
SYMMETRY ThreadSymmetry
INVARIANTS
  TypeOK
  RecordGraphSound
  IndexSound
  SizeCovered
  FirstBlockMapPositional
  FrameSound
  UndisturbedSound
PROPERTY ReplacesCallersVersion
CHECK_DEADLOCK FALSE
