SPECIFICATION SchedFairSpec
CONSTANTS
  m1 = m1  m2 = m2  m3 = m3  m4 = m4  m5 = m5  ka = ka  fifo = fifo
  Msgs = {m1, m2, m3, m4, m5}  Keys = {ka, fifo}  NoMsg = NoMsg  FifoKey = fifo
  KeyOf <- MixKey  ClassOf <- MixClass  IsHistory <- MixHistory  BytesOf <- MixBytes
  QueueFramesCap = 3  QueueBytesCap = 4
INVARIANTS QueueCounted WakeupKept
PROPERTIES OnlyHistoryDropped EachSessionServed CloseEndsExecutor
CHECK_DEADLOCK FALSE
