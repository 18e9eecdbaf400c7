SPECIFICATION FairSpec
CONSTANTS
  p1 = p1
  p2 = p2
  p3 = p3
  blkA = blkA
  blkB = blkB
  blkC = blkC
  Pids = {p1, p2, p3}
  NoPid = NoPid
  Garbage = Garbage
  Regions = {1, 2}
  Blocks = {blkA, blkB, blkC}
  Reg <- MCReg
  Programs <- MCPrograms
  CDB_STAGNATE = 2
  MaxErrors = 2
INVARIANTS
  TypeOK
  ValidationHolds
  Serializable
  FinalRetryCodes
  EarlyTnSettled
PROPERTIES
  EventuallyEnds
