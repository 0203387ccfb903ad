SPECIFICATION LogSpec
CONSTANTS
  p1 = p1
  p2 = p2
  p3 = p3
  Pids = {p1, p2, p3}
  NoPid = NoPid
  Overlap = FALSE
  Goroutines = {g1, g2}
  Inodes = {i1, i2, i3, i4, i5}
  None = None
  MaxLines = 3
  KeepLines = 2
  MaxWritten = 6
  Scenarios <- MCScenarios
INVARIANTS
  RunningOwnsLock
  NewestAreKept
