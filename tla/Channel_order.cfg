SPECIFICATION Spec
CONSTANTS
  Windows = 6
  WindowSize = 2
  FreeWindows = 3
  Fragments <- MCLong
  MaxAhead = 5
  MaxDelay = 6
  MaxBacklog = 2
INVARIANTS
  TypeOK
  WindowsCountInFlight
  AckedIsKept
  SenderStaysClose
PROPERTIES
  InOrder
