SPECIFICATION FairSpec
CONSTANTS
  NPROC = 3
  NCPU = 2
  MAXSLEEP = 1
  Calls <- Programs
  Victims = {2}
  TrapsAt = {"user", "user_wait", "scan", "fork_run"}
  NULL = NULL
INVARIANTS StacksExclusive NoLostWakeup InterruptsRestored
PROPERTIES RunnableRuns InitReaps
