SPECIFICATION Spec
CONSTANTS
  NPROC = 2
  NPAGES = 10
  NPTE = 2
  PGSIZE = 2
  WORD = 16
  Increments <- SmallIncrements
  Programs <- SmallPrograms
  MAXSZ = 10
  MAXCALLS = 5
INVARIANT OutOfMemorySurvived
CHECK_DEADLOCK FALSE
