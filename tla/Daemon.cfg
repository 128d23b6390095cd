\* Every kind of edit, a refused file, a crash or a failed fork.
SPECIFICATION Spec
CONSTANTS
  Inodes = {1, 2, 3}
  Wds = {1, 2, 3}
  Contents = {"a", "bad"}
  Valid = {"a"}
  Shipped = "a"
  Editing = {"write", "put", "delete", "away", "back"}
  MaxEdits = 3
  MaxPids = 4
  MaxFaults = 1
INVARIANT TypeOK
INVARIANT OneApp
INVARIANT ChangesLoaded
PROPERTY LastChangeServed
CHECK_DEADLOCK FALSE
