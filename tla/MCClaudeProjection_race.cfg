SPECIFICATION Spec
CONSTANTS
  MaxRevisions = 3
  MaxPulls = 1
  MaxRows = 2
  MaxProcs = 1
  MaxBoots = 1
INVARIANT RelayedShown
CHECK_DEADLOCK FALSE
