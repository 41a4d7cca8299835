SPECIFICATION Spec
CONSTANTS
  NPROC = 3
  NFILE = 1
  Fd = {0}
  Inode = {i1}
  VMAS_STORED = 3
  MAX_VMAS = 3
  PGSIZE = 2
  PTPAGES = 2
  START_ADDRESS = 4
  TOP_ADDRESS = 11
  WORD = 64
  Lengths = {2, 3}
  Addrs = {4, 6}
  TouchAddrs = {4, 5, 6}
  Modes <- ReadWrite
  Prots = {"PROT_READ_WRITE"}
  Flags = {"MAP_SHARED"}
  MAXFILE = 12
  FileSizes = {1}
  NULL = NULL
INVARIANTS TypeOK SlotsExclusive VmasDisjoint ListWithinCount
CONSTRAINT AtMostTwo
CHECK_DEADLOCK FALSE
