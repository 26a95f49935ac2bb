SPECIFICATION Spec
CONSTANTS
  a = a
  b = b
  Hosts = {a, b}
  NoHost = NoHost
  PeerCount <- MCTwoSlots
  FirstSeed <- MCSeeds
  Calls <- MCOneWay
  MaxConnects = 1
  MaxAccepts = 2
  MaxControl = 1
  MaxReliable = 2
  MaxUnreliable = 0
  MaxAcks = 1
  MaxDatagrams = 7
  ServiceModes = {TRUE}
  Preemptive = FALSE
INVARIANTS
  TimerArmed
  RequestTimesOut
  LaterDeliversFirst
  OneSlotPerConnection
