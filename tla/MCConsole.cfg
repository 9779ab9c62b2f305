CONSTANTS
  Procs = {p1, p2}
  INPUT_BUF = 3
  UINT = 6
  ROWS = 4
  COLS = 2
  Keys = {29, 157, 32}
  Serial = {"CR", "KILL", "BS"}
  Counts = {2}
  Outputs <- MCOutputs
SPECIFICATION Spec
INVARIANTS NeverWedged EditedIsShown ModifiersMatch
PROPERTY Lines
VIEW ConsoleView
SYMMETRY MCSym
