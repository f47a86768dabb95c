CONSTANTS
  event = event  acl = acl
  e1 = e1  e2 = e2  a1 = a1  a2 = a2
  re = re  ra1 = ra1  ra2 = ra2
  None = None
  Channels <- BothChannels
  Packets <- BothPackets
  Reads <- BothReads
  PacketChannel <- BothOf
  ReadChannel <- BothReadOf
SPECIFICATION Spec
SYMMETRY Symmetry
INVARIANTS TypeOK CountIsLength Rendezvous Conservation InOrderWithOneRead
PROPERTIES IsLossyFifo
CHECK_DEADLOCK TRUE
