SPECIFICATION Spec
CONSTANTS
  Proc = {p1, p2, p3}
  Block = {1, 2, 3, 4}
  Data = {0, 1}
  NBUF = 3
  NUM = 7
  IDXMOD = 7
  START = 5
  Calls <- Requests
  MAXCALLS = 4
  MAXPINS = 1
  NULL = NULL
SYMMETRY ProcSymmetry
INVARIANTS CacheCoherent DmaSafe NoLostWakeup
CHECK_DEADLOCK FALSE
