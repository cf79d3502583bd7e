SPECIFICATION Spec
CONSTANTS
  c1 = c1  c2 = c2  d1 = d1  d2 = d2  j1 = j1  j2 = j2  j3 = j3
  Conns = {c1, c2}  Devices = {d1, d2}  Jobs = {j1, j2, j3}
  NoJob = NoJob  NoDevice = NoDevice
  DeviceOf <- TwoDevices
  ConnOf <- TurnConn  ClassOf <- TurnClass  BytesOf <- TurnBytes  ChunksOf <- TurnChunks
  QueueFramesCap = 2  QueueBytesCap = 3  BulkFramesCap = 2  BulkBytesCap = 3
  ControlBurstCap = 1  MaxDrift = 0
PROPERTIES DeviceFifo
