SPECIFICATION Spec
CONSTANTS
  Cpus = {c1, c2}
  Threads = {t1, t2}
  ptable = "ptable"
  Locks <- MCLocks
  Calls <- MCCalls
  Irqs <- MCIrqs
  Timer <- tick
  MaxNest = 3
SYMMETRY MCSym
INVARIANTS
  MutualExclusion
  
  IntrRestored
  
