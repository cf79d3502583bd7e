SPECIFICATION Spec
CONSTANTS
  m1 = m1  m2 = m2  m3 = m3  m4 = m4  ka = ka  fifo = fifo  x1 = x1  x2 = x2
  Msgs = {m1, m2, m3, m4}  Keys = {ka, fifo}  NoMsg = NoMsg  FifoKey = fifo  Corrs = {x1, x2}  NoCorr = NoCorr
  KeyOf <- ReadKey  ClassOf <- ReadClass  IsHistory <- ReadHistory  BytesOf <- ReadBytes  CorrsOf <- ReadCorrs
  QueueFramesCap = 2  QueueBytesCap = 2
  MaxActive = 1  MaxRetired = 1  MaxGen = 2  MaxRequests = 2  MaxUses = 2
SYMMETRY Alike
INVARIANTS SessionHandleLive RequestEntriesLive CorrelationRemembered
PROPERTIES SupersededNeverBegins
CHECK_DEADLOCK FALSE
