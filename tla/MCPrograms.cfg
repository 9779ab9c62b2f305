CONSTANTS
  HeaderSize = 2
  NALLOC = 3
  MAXBRK = 10
  Requests = {1, 3, 5}
  BufSize = 3
  Patterns <- MCPatterns
  Arguments <- MCArguments
  FSSIZE = 20
  NMETA = 3
  BSIZE = 2
  NDIRECT = 1
  NINDIRECT = 2
  Disks <- MCDisks
SPECIFICATION Spec
INVARIANTS HeapTiled GrepExact 
CHECK_DEADLOCK FALSE
