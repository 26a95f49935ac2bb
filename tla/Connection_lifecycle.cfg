SPECIFICATION Spec
CONSTANTS
  a = a
  b = b
  Hosts = {a, b}
  NoHost = NoHost
  PeerCount <- MCOneSlot
  FirstSeed <- MCSeeds
  Calls <- MCAll
  MaxConnects = 2
  MaxAccepts = 2
  MaxControl = 1
  MaxReliable = 0
  MaxUnreliable = 0
  MaxAcks = 1
  MaxDatagrams = 50
  ServiceModes = {TRUE, FALSE}
  Preemptive = FALSE
INVARIANTS
  TypeOK
  ConnectedPeersExact
  HandshakeComplete
PROPERTIES
  SessionFence
  PeerKeepsMeaning
