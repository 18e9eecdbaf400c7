\* The receiver server is killed while the update process waits for its answer to
\* an online rollback.
SPECIFICATION FairSpec
CONSTANTS
  NumTrans = 2
  Lens = {1, 2}
  PoolSize = 3
  MaxPipe = 1
  FaultSets <- RollbackAndKill
  Races = {}
PROPERTIES
  RestartIsAnswered
CHECK_DEADLOCK FALSE
