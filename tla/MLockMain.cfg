SPECIFICATION Spec
CONSTANTS
  p1 = p1
  p2 = p2
  p3 = p3
  none = none
  disabled = disabled
  a = a
  a1 = a1
  c = c
  null = null
  changed = changed
  Pids = {p1, p2}
  NoPid = none
  Disabled = disabled
  Nodes = {a, a1, c}
  NoNode = null
  Changed = changed
  Prefix <- TwoTrees
  MaxBlk = 2
  MaxPrc = 1
  Requests <- Lists
  Waits = {"timed"}
  Interrupts = FALSE
  Reordered = TRUE
  MaxLevel = 2
  MaxCommands = 2
  MaxKills = 1
  MaxExits = 1
SYMMETRY Symmetry
INVARIANTS
  TypeOK
  TreeOK
  LockExclusion
  AllOrNothing
  QueuedIsWaiting
