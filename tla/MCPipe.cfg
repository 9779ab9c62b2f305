CONSTANTS
  Readers = {r1}
  Writers = {w1, w2}
  Byte = {0, 1}
  PIPESIZE = 2
  UINT = 4
  Messages <- SomeMessages
  Counts = {2}
  Kill = TRUE
SPECIFICATION FairSpec
INVARIANTS SleepersAwaited FreedUnused
PROPERTIES Fifo CloseReleases
CHECK_DEADLOCK FALSE
