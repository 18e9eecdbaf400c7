SPECIFICATION FairSpec
CONSTANTS
  p1 = p1
  p2 = p2
  p3 = p3
  none = none
  disabled = disabled
  a = a
  a1 = a1
  c = c
  null = null
  changed = changed
  Pids = {p1, p2, p3}
  NoPid = none
  Disabled = disabled
  Nodes = {a, c}
  NoNode = null
  Changed = changed
  Prefix <- TwoNames
  MaxBlk = 1
  MaxPrc = 2
  Requests <- Unrelated
  Waits = {"forever"}
  Interrupts = FALSE
  Reordered = FALSE
  MaxLevel = 1
  MaxCommands = 1
  MaxKills = 1
  MaxExits = 0
PROPERTIES
  EventuallyObtained
