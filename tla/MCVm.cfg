CONSTANTS
  NPROC = 3
  NFRAME = 22
  FewFrames = 12
  NPDE = 3
  NPTE = 2
  N_SHARED_PAGES = 3
  ImagePages = 1
  Calls = {"sbrk", "mmap", "munmap", "touch", "fork", "exec", "exit", "shm"}
  Deltas = {1, 2}
  MinSz = 1
  MaxSz = 3
  MapPages = {3}
  MapLens = {2}
  NullWord = 0
  Disciplined = TRUE
SPECIFICATION Spec
INVARIANTS OneOwner RefsExact  
CHECK_DEADLOCK FALSE
VIEW FrameView
