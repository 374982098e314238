SPECIFICATION Spec
CONSTANTS
  n1 = n1
  n2 = n2
  n3 = n3
  None = None
  Server = {n1, n2}
  InitialVoters = {n1, n2}
  Candidates <- OneOrTwo
  Readers = {n1, n2}
  PreVote = FALSE
  SnapshotInterval = 100
  MaxEntriesPerAppend = 2
  Changes <- NoChanges
  Links <- Full
  MaxElections = 1
  MaxBeats = 0
  MaxChecks = 0
  MaxWrites = 1
  MaxReads = 0
  MaxReconfigs = 0
  MaxTransfers = 1
  MaxCrashes = 1
  MaxFull = 0
  MaxBatch = 2
SYMMETRY Symmetry
INVARIANTS
  MatchedIsDurable
  DriverAlive
  ElectionSafety
PROPERTIES
  CommitMonotone
