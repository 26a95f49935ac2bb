SPECIFICATION Spec
CONSTANTS
  ReliableWindows = 6
  ReliableWindowSize = 2
  FreeReliableWindows = 3
  UnsequencedWindows = 4
  UnsequencedWindowSize = 2
  FreeUnsequencedWindows = 2
  LastUnreliable = 3
  Fragments = 2
  Scenarios <- MCThree
  MaxDelay = 4
INVARIANTS
  FragmentKept
CHECK_DEADLOCK FALSE
