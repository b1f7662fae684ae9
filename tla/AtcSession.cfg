SPECIFICATION Spec
CONSTANTS
  MaxPairs = 3
  Budget = 3
  MaxInbox = 3
INVARIANTS
  TypeOK
  InProtocol
  NoTunnelLeft
  TransportIsRetried
PROPERTIES
  MovesOnce
  RequestEnds
CHECK_DEADLOCK FALSE
