CONSTANTS
  Procs = {p1, p2}
  Blocks = {k1, k2, k3, k4}
  Bufs = {c1, c2, c3}
  Data = {0, 1}
  None = None
  MaxLogged = 1
SPECIFICATION Spec
SYMMETRY Symmetry
INVARIANTS ReadsLatest  SleepersServed
