CONSTANTS
  NPROC = 7
  NOFILE = 6
  MAXARGS = 3
  Lines <- MCLines
  Programs <- MCPrograms
  Files <- MCFiles
  CallsFail = TRUE
SPECIFICATION Spec
INVARIANTS RightEnds ForegroundDone
PROPERTY LineEnds
CHECK_DEADLOCK FALSE
