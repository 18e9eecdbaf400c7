\* Processes that commit several times; killed anywhere except inside the
\* reservation macro.
SPECIFICATION Spec
CONSTANTS
  u1 = u1
  u2 = u2
  src = src
  none = none
  Source = src
  NoPid = none
  Updaters = {u1, u2}
  ArraySize = 3
  Lens = {1, 2}
  PoolSize = 3
  MaxSeqno = 4
  MaxCommits = 3
  MaxKills = 1
  WhenWritten = {"in_crit", "after_crit"}
  Errors = {"reserved", "frozen"}
  KillPoints <- KillsOutsideReservation
SYMMETRY Symmetry
INVARIANTS
  TypeOK
  LogContiguous
  NothingLeftReserved
  RingIsEndOfLog
  PublishedIsCommitted
  PublishedIsWritten
PROPERTIES
  WriteAddrGrows
  ImplementsCommitLog
