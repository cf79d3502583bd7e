SPECIFICATION StoreSpec
CONSTANTS
  d1 = d1  s1 = s1  small = small  large = large
  Devices = {d1}  Slots = {s1}  Peers = {1, 2}  Envelopes = {small, large}
  SizeOf <- TwoSizes
  MaxBytes = 3  TTL = 2  FetchLimit = 1
  MaxTime = 2  MaxCursor = 3  MaxEvents = 3
INVARIANTS RevokedEmpty CapacityKept AckedWasApplied
PROPERTY ImplementsQueue
CHECK_DEADLOCK FALSE
