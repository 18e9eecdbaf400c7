\* The source server reads the pool and the files while updaters lap it.
SPECIFICATION SourceSpec
CONSTANTS
  Lens = {1, 2}
  PoolSize = 3
  StartSeqno = 2
  BadSeqnos = {4}
  MaxSeqno = 6
  NullLen = 1
  Races = {}
INVARIANTS
  TypeOK
  ReadAddrIsSeqno
  
PROPERTIES
  SendsStream
CHECK_DEADLOCK FALSE
