SPECIFICATION Spec
CONSTANTS
  Proc = {p1, p2}
  Name = {"a", "b"}
  NINODES = 3
  NINODE = 3
  NBLOCK = 3
  MAXFILE = 1
  Disks <- StartDisks
  Calls <- AllCalls
  MAXCALLS = 4
  MAXCRASHES = 1
  NULL = NULL
SYMMETRY ProcSymmetry
INVARIANTS DiskConsistent RefsExact LocksOrdered
CHECK_DEADLOCK FALSE
