\* Four transactions of one or two records through a pool of three; two faults.
SPECIFICATION FairSpec
CONSTANTS
  NumTrans = 4
  Lens = {1, 2}
  PoolSize = 3
  MaxPipe = 1
  FaultSets <- FaultPairs
  Races = {}
INVARIANTS
  TypeOK
  ReadsNextRecord
  PipeContinuesPool
PROPERTIES
  EventuallyApplied
