SPECIFICATION FairSpec
CONSTANTS
  Proc = {p1, p2}
  Boot = boot
  Block = {b1, b2}
  Value = {v1, v2}
  Torn = torn
  NULL = null
  MAXOPBLOCKS = 1
  LOGSIZE = 3
  NLOG = 3
  MAXWRITES = 1
  MAXCRASHES = 2
INVARIANTS CommitProtected Reserved
PROPERTIES AtomicSpec SleepersWoken CommitEnds
CHECK_DEADLOCK FALSE
