CONSTANTS
  Procs = {p1, p2}
  Inums = {i1, i2}
  Files = {f1, f2}
  NBLOCKS = 4
  BSIZE = 2
  NDIRECT = 1
  NINDIRECT = 2
  MAXOPBLOCKS = 6
  Word = {7}
  Reads = {3}
  Lens = {5}
  None = None
SPECIFICATION Spec
VIEW UsedView
SYMMETRY Symmetry
INVARIANTS BlocksExact FitsLog
 
CHECK_DEADLOCK FALSE
