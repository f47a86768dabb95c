CONSTANTS
  reply = reply  p1 = p1  p2 = p2
  NoPacket = NoPacket
  Scripts <- MCScripts
  Offers <- MCOffers
  ControlPackets = {reply}
  DeviceBuffer = 6
  NetBuffer = 7
  Accumulator = 9
SPECIFICATION FairSpec
INVARIANTS FramesAreTheStream NothingVanishes
PROPERTIES BurstsGetThrough
CHECK_DEADLOCK FALSE
