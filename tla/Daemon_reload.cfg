\* The file is replaced, moved away and moved back.
SPECIFICATION SafeSpec
CONSTANTS
  Inodes = {1, 2, 3}
  Wds = {1, 2, 3}
  Contents = {"a", "b"}
  Valid = {"a", "b"}
  Shipped = "a"
  Editing = {"put", "away", "back"}
  MaxEdits = 3
  MaxPids = 3
  MaxFaults = 0
INVARIANT AutomaticallyReloaded
CHECK_DEADLOCK FALSE
