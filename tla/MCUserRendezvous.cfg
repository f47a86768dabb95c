CONSTANTS
  h1 = h1  h2 = h2  h3 = h3
  u1 = u1  u2 = u2
  None = None
  HostPackets <- ThreePackets
  UserReads <- TwoReads
  MaxSessions = 2
SPECIFICATION FairSpec
INVARIANTS UserCountIsLength ReadInOrder UserRendezvousRule NothingForNobody NoStaleRead UserConservation
PROPERTIES UserIsLossyFifo UserNotStranded
CHECK_DEADLOCK FALSE
