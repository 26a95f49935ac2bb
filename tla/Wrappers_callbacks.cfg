SPECIFICATION FairSpec
CONSTANTS
  h = h
  Hosts = {h}
  NoHost = NoHost
  Apis <- MCApis
  MaxPeers = 2
  CallbackCalls <- MCCareful
  MaxSessions = 3
  MaxPackets = 1
  MaxDepth = 4
INVARIANTS
  TypeOK
  PeersStay
  PointerExact
  ListsPeers
PROPERTIES
  CallbacksFit
  EventuallyTold
