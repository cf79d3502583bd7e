SPECIFICATION Spec
CONSTANTS
  b1 = b1  b2 = b2  p1 = p1  p2 = p2  d1 = d1  d2 = d2
  BridgePeers = {b1, b2}  DevicePeers = {p1, p2}  Devices = {d1}  NoPeer = NoPeer
  Dev <- OneDevice
  Frames <- SwapFrames  SrcOf <- SwapSrc  KindOf <- SwapKind  DestOf <- AllToOne  BytesOf <- UnitBytes
  QueueFramesCap = 3  QueueBytesCap = 1  MaxEvents = 3
INVARIANTS TypeOK OpenIsRegistered QueueBytesSettled QueueBytesBounded
PROPERTIES NoGap
CHECK_DEADLOCK FALSE
