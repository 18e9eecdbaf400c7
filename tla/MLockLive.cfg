SPECIFICATION FairSpec
CONSTANTS
  p1 = p1
  p2 = p2
  p3 = p3
  none = none
  disabled = disabled
  a = a
  a1 = a1
  c = c
  null = null
  changed = changed
  Pids = {p1, p2, p3}
  NoPid = none
  Disabled = disabled
  Nodes = {a, a1}
  NoNode = null
  Changed = changed
  Prefix <- OneTree
  MaxBlk = 4
  MaxPrc = 3
  Requests <- Nested
  Waits = {"forever"}
  Interrupts = TRUE
  Reordered = FALSE
  MaxLevel = 1
  MaxCommands = 1
  MaxKills = 1
  MaxExits = 1
INVARIANTS
  HeldIsOwned
  BlockedIsCurrent
PROPERTIES
  EventuallyObtained
