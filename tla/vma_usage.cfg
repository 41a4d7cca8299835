SPECIFICATION CarefulSpec
CONSTANTS
  NPROC = 2
  NFILE = 1
  Fd = {0}
  Inode = {i1}
  VMAS_STORED = 2
  MAX_VMAS = 2
  PGSIZE = 4
  PTPAGES = 4
  START_ADDRESS = 16
  TOP_ADDRESS = 25
  WORD = 64
  Lengths = {4, 8}
  Addrs = {16, 20}
  TouchAddrs = {16, 20}
  Modes <- ReadWrite
  Prots = {"PROT_READ_WRITE"}
  Flags = {"MAP_PRIVATE", "MAP_SHARED"}
  MAXFILE = 12
  FileSizes = {1, 6}
  NULL = NULL
INVARIANTS NoOtherPanic MappingFaithful LeavesOwned ListsComplete
PROPERTIES ExitTerminates 
CHECK_DEADLOCK FALSE
