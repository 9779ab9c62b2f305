CONSTANTS
  NPROC = 3
  Cpus = {c1, c2}
  KillPids = {2}
  MaxLive = 3
  OutOfMemory = TRUE
SPECIFICATION FairSpec
INVARIANTS OneCpuEach ParentCanWait WaitMissesNothing PidsDistinct
PROPERTIES RunnableRuns KilledDies
