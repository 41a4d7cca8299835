SPECIFICATION Spec
CONSTANTS
  NPROC = 2
  NPAGES = 28
  NPTE = 2
  PGSIZE = 2
  WORD = 16
  Increments <- SmallIncrements
  Programs <- SmallPrograms
  MAXSZ = 10
  MAXCALLS = 5
INVARIANTS PagesOwned CopyExact
CHECK_DEADLOCK FALSE
