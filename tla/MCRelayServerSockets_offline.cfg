SPECIFICATION FairSpec
CONSTANTS
  b1 = b1  b2 = b2  p1 = p1  p2 = p2  d1 = d1  d2 = d2
  BridgePeers = {b1, b2}  DevicePeers = {p1}  Devices = {d1}  NoPeer = NoPeer
  Dev <- SoleDevice
  Frames <- FlowFrames  SrcOf <- FlowSrc  KindOf <- FlowKind  DestOf <- AllToOne  BytesOf <- UnitBytes
  QueueFramesCap = 1  QueueBytesCap = 2  MaxEvents = 3
PROPERTIES DeviceGoneEnds BridgeDropSeen
CHECK_DEADLOCK FALSE
