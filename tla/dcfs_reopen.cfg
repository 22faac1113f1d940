SPECIFICATION Spec
CONSTANTS
  a = a
  b = b
  Threads = {t1, t2}
  Names = {a, b}
  NoName = NoName
  FdTableMax = 13
  Modes <- OnlyReopening
INVARIANT ReleasedAtZero
CHECK_DEADLOCK FALSE
