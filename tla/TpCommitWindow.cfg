\* A transaction reads between the stores of curr_tn and of wc_blocked in
\* secshr_finish_CMT08_to_CMT14.
SPECIFICATION Spec
CONSTANTS
  p1 = p1
  p2 = p2
  p3 = p3
  blkA = blkA
  blkB = blkB
  blkC = blkC
  Pids = {p1, p2, p3}
  NoPid = NoPid
  Garbage = Garbage
  Regions = {1, 2}
  Blocks = {blkA, blkB, blkC}
  Reg <- MCReg
  Programs <- WindowPrograms
  CDB_STAGNATE = 2
  MaxErrors = 1
INVARIANTS
  Serializable
