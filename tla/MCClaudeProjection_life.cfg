SPECIFICATION FairSpec
CONSTANTS
  MaxRevisions = 3
  MaxPulls = 1
  MaxRows = 3
  MaxProcs = 2
  MaxBoots = 1
PROPERTIES CheckpointSettles HydrateEnds
CHECK_DEADLOCK FALSE
