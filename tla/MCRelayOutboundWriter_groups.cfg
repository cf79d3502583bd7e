SPECIFICATION Spec
CONSTANTS
  c1 = c1  c2 = c2  d1 = d1  d2 = d2  j1 = j1  j2 = j2  j3 = j3
  Conns = {c1}  Devices = {d1}  Jobs = {j1, j2, j3}
  NoJob = NoJob  NoDevice = NoDevice
  DeviceOf <- SoleDevice
  ConnOf <- GroupConn  ClassOf <- GroupClass  BytesOf <- GroupBytes  ChunksOf <- GroupChunks
  QueueFramesCap = 1  QueueBytesCap = 4  BulkFramesCap = 2  BulkBytesCap = 3
  ControlBurstCap = 1  MaxDrift = 0
INVARIANTS TypeOK FramesBounded ActiveGroupLive NoLostWakeup
  NothingAfterExit CancelledNeverWritten HoleClosesConnection
PROPERTIES ChunksInOrder
