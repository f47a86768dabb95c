CONSTANTS
  event = event  e1 = e1  e2 = e2  r1 = r1  r2 = r2
  c1 = c1  c2 = c2  h1 = h1  u1 = u1  w1 = w1
  None = None
  Channels <- OneChannel
  ChannelOrder <- OneOrder
  Packets <- TwoPackets
  PacketChannel <- TwoPacketsOf
  Reads <- OneRead
  ReadChannel <- OneReadOf
  HostPackets <- ReplyOnly
  ReplyOf <- OneRadioReply
  UserReads <- OneUserRead
  Controls <- OneControl
  MaxRadios = 1
  MaxOpens = 1
SPECIFICATION Spec
INVARIANTS QueuedMeansStarted

CHECK_DEADLOCK FALSE
