\* A process that commits for the second time is killed inside the reservation
\* macro.
SPECIFICATION Spec
CONSTANTS
  u1 = u1
  u2 = u2
  src = src
  none = none
  Source = src
  NoPid = none
  Updaters = {u1, u2}
  ArraySize = 4
  Lens = {1}
  PoolSize = 3
  MaxSeqno = 3
  MaxCommits = 3
  MaxKills = 1
  WhenWritten = {"in_crit", "after_crit"}
  Errors = {}
  KillPoints <- InReservation
INVARIANTS
  NothingLeftReserved
