SPECIFICATION FairSpec
CONSTANTS
  a = a
  b = b
  Threads = {t1, t2}
  Names = {a, b}
  NoName = NoName
  FdTableMax = 13
  Modes <- AnyUsage
INVARIANTS
  TypeOK OneInode ReferencesCounted OpenFilesResolve FaultFree ViewsLatest
  WritesKept
PROPERTIES
  LookupExact ServiceRefined HandlersReturn
CHECK_DEADLOCK FALSE
