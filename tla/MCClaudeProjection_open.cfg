SPECIFICATION ReopenedSpec
CONSTANTS
  MaxRevisions = 3
  MaxPulls = 2
  MaxRows = 3
  MaxProcs = 2
  MaxBoots = 3
INVARIANT SavedKept
PROPERTIES CommitCovers CommitPinned
CHECK_DEADLOCK FALSE
