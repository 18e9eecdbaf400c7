\* Processes that commit once each; two of them may be killed, anywhere
\* except, on an MM database, between the write of the records and CMT07.
SPECIFICATION FairSpec
CONSTANTS
  u1 = u1
  u2 = u2
  src = src
  none = none
  Source = src
  NoPid = none
  Updaters = {u1, u2}
  ArraySize = 2
  Lens = {2}
  PoolSize = 3
  MaxSeqno = 3
  MaxCommits = 1
  MaxKills = 2
  WhenWritten = {"before_seqno", "after_crit"}
  Errors = {}
  KillPoints <- AllKillPoints
INVARIANTS
  NothingLeftReserved
  RingIsEndOfLog
  PublishedIsCommitted
  PublishedIsWritten
PROPERTIES
  EventuallyPublished
