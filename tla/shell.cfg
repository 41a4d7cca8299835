SPECIFICATION FairSpec
CONSTANTS
  Lines <- SmallLines
  MAXARGS = 3
  NOFILE = 8
  NPROC = 5
INVARIANTS ParseExact ForegroundFirst
PROPERTY PromptReturns
CHECK_DEADLOCK FALSE
