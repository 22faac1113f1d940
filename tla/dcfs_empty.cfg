SPECIFICATION AnsweringSpec
CONSTANTS
  a = a
  b = b
  Threads = {t1, t2}
  Names = {a, b}
  NoName = NoName
  FdTableMax = 13
  Modes <- OnlyGuarded
PROPERTY BackendAnswers
CHECK_DEADLOCK FALSE
