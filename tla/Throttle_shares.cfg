SPECIFICATION Spec
CONSTANTS
  p1 = p1
  p2 = p2
  Peers <- MCPeers
  Scale = 8
  Second = 2
  Modulus = 512
  HostLimits <- MCHostLimits
  PeerLimits <- MCPeerLimits
  Amounts <- MCAmounts
  Elapsed <- MCElapsed
  Rates <- MCRates
  MaxChanges = 3
SYMMETRY MCSymmetry
INVARIANTS
  TypeOK
  LimitedExact
  ThrottleWithinLimit
  ToldFits
PROPERTIES
  AllowedFits
