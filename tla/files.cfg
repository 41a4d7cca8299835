SPECIFICATION Spec
CONSTANTS
  p1 = p1
  p2 = p2
  p3 = p3
  pg = pg
  Proc = {p1, p2, p3}
  Root = p1
  NFILE = 3
  NOFILE = 2
  Pipe = {pg}
  PIPESIZE = 2
  UINT = 4
  MAXCHUNK = 2
  MAXFILESIZE = 5
  Sizes = {3}
  MAXCALLS = 6
  NULL = NULL
SYMMETRY Others
CONSTRAINT NothingLost
INVARIANTS LifetimesExact PipeInOrder NoLostWakeup SharedWritesKept
CHECK_DEADLOCK FALSE
