SPECIFICATION FairSpec
CONSTANTS
  Windows = 6
  WindowSize = 2
  FreeWindows = 3
  Fragments <- MCMixed
  MaxAhead = 4
  MaxDelay = 3
  MaxBacklog = 0
PROPERTIES
  EventuallyDelivered
  EventuallyAcknowledged
