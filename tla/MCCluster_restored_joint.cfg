SPECIFICATION Spec
CONSTANTS
  n1 = n1
  n2 = n2
  n3 = n3
  None = None
  Server = {n1, n2, n3}
  InitialVoters = {n1, n2, n3}
  Candidates <- OneOrTwo
  Readers = {n1, n2, n3}
  PreVote = FALSE
  SnapshotInterval = 100
  MaxEntriesPerAppend = 2
  Changes <- ToOne
  Links <- Full
  MaxElections = 3
  MaxBeats = 0
  MaxChecks = 0
  MaxWrites = 0
  MaxReads = 0
  MaxReconfigs = 1
  MaxTransfers = 0
  MaxCrashes = 1
  MaxFull = 0
  MaxBatch = 1
INVARIANTS
  ElectionSafety
