SPECIFICATION FairSpec
CONSTANTS
  p1 = p1
  p2 = p2
  a = a
  b = b
  c = c
  NoNode = NoNode
  NoProc = NoProc
  Procs = {p1, p2}
  Nodes = {a, b, c}
  Path <- Paths
  HashOf <- Hashes
  NEIGHBORS = 2
  Sizes = {4, 5, 7}
  MaxBlk = 3
  MaxLke = 1
INVARIANTS
  TypeOK
  UsedmapExact
  EveryNodeFound
PROPERTIES
  RetriesEnd
