SPECIFICATION Spec
CONSTANTS
  Windows = 6
  WindowSize = 2
  FreeWindows = 3
  Fragments <- MCSingles
  MaxAhead = 20
  MaxDelay = 3
  MaxBacklog = 0
INVARIANTS
  AckedIsKept
