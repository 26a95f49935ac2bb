SPECIFICATION Spec
CONSTANTS
  a = a
  b = b
  Hosts = {a, b}
  NoHost = NoHost
  PeerCount <- MCOneSlot
  FirstSeed <- MCSeeds
  Calls <- MCPolling
  MaxConnects = 1
  MaxAccepts = 1
  MaxControl = 1
  MaxReliable = 0
  MaxUnreliable = 1
  MaxAcks = 1
  MaxDatagrams = 50
  ServiceModes = {TRUE, FALSE}
  Preemptive = TRUE
INVARIANTS
  DispatchQueueExact
  EventsPending
  ProgramInformed
