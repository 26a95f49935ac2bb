SPECIFICATION FairSpec
CONSTANTS
  a = a
  b = b
  Hosts = {a, b}
  NoHost = NoHost
  PeerCount <- MCOneSlot
  FirstSeed <- MCSeeds
  Calls <- MCPatient
  MaxConnects = 1
  MaxAccepts = 1
  MaxControl = 2
  MaxReliable = 0
  MaxUnreliable = 0
  MaxAcks = 1
  MaxDatagrams = 6
  ServiceModes = {TRUE}
  Preemptive = FALSE
PROPERTIES
  CloseConcludes
  ZombieReaped
