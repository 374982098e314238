SPECIFICATION Spec
CONSTANTS
  SegmentEntries = 2
  CompactSlack = 1
  MaxBatch = 2
  MaxIndex = 4
  MaxAppends = 3
  MaxCuts = 1
  MaxSnapshots = 2
  MaxSaves = 2
  Voted = {}
  MaxFull = 1
  MaxCrashes = 1
  MaxResetSegments = 2
INVARIANT Reconnects
CHECK_DEADLOCK FALSE
