SPECIFICATION SpecScenes
CONSTANTS
  SegmentEntries = 2
  CompactSlack = 1
  MaxBatch = 2
  MaxIndex = 4
  MaxAppends = 3
  MaxCuts = 1
  MaxSnapshots = 4
  MaxSaves = 5
  Voted = {3, 4}
  MaxFull = 2
  MaxCrashes = 2
  MaxResetSegments = 1
INVARIANT MemoryIsDisk
INVARIANT Reconnects
INVARIANT HardStateKept
INVARIANT SnapshotKept
PROPERTY ImplementsDurableLog
CHECK_DEADLOCK FALSE
