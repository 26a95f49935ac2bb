SPECIFICATION Spec
CONSTANTS
  a = a
  b = b
  Hosts = {a, b}
  NoHost = NoHost
  PeerCount <- MCOneSlot
  FirstSeed <- MCSeeds
  Calls <- MCMutual
  MaxConnects = 1
  MaxAccepts = 1
  MaxControl = 1
  MaxReliable = 0
  MaxUnreliable = 0
  MaxAcks = 1
  MaxDatagrams = 50
  ServiceModes = {TRUE}
  Preemptive = FALSE
INVARIANTS
  RequestTimesOut
