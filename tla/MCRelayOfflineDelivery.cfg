SPECIFICATION FairDeliverySpec
CONSTANTS
  d1 = d1  s1 = s1  k1 = k1  k2 = k2
  Devices = {d1}  Slots = {}  Peers = {1, 2}  Envelopes <- Frames
  SizeOf <- UnitSize
  MaxBytes = 2  TTL = 1  FetchLimit = 2
  MaxTime = 0  MaxCursor = 3  MaxEvents = 2
  Prekeys = {k1}  LowWatermark = 1  MaxCount = 2
  OfflineCapacity = 1  OutboxMaxFrames = 2
  MaxPublished = 3  MaxBoots = 2  MaxPolls = 1
INVARIANTS NoDuplicate SentInOrder
PROPERTY OutboxDrains
CHECK_DEADLOCK FALSE
