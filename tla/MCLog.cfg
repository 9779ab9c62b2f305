CONSTANTS
  Procs = {p1, p2}
  Blocks = {b1, b2, b3}
  Data = {0, 1}
  Zero = 0
  NoBuf = NoBuf
  NoBlock = NoBlock
  MAXOPBLOCKS = 2
  LOGSIZE = 4
  OpBlocks = 1
SPECIFICATION FairSpec
INVARIANT NeverTooBig
PROPERTIES Atomic SleepersWake
