SPECIFICATION Spec
CONSTANTS
  t1 = t1
  t2 = t2
  s1 = s1
  s2 = s2
  h1 = h1
  h2 = h2
  Threads <- TwoThreads
  Servers <- TwoServers
  Hashes <- TwoHashes
  NoPayload <- OnlyMeta
  WriteThreshold = 1
  Lossy = TRUE
INVARIANTS TypeOK PutDurable NoLostWakeup ProtocolSound
PROPERTY ServiceRefined
CHECK_DEADLOCK FALSE
