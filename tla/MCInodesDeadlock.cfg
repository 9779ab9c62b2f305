CONSTANTS
  Procs = {p1, p2}
  NINODES = 3
  Names = {"f", "d"}
  NFILE = 1
  None = None
  MaxLinks = 2
  Calls <- TreeCalls
SPECIFICATION Spec
SYMMETRY ProcSymmetry
INVARIANT NoLockCycle
CHECK_DEADLOCK FALSE
