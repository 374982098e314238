SPECIFICATION SpecElections
CONSTANTS
  n1 = n1
  n2 = n2
  n3 = n3
  None = None
  Server = {n1, n2, n3}
  InitialVoters = {n1, n2, n3}
  Candidates <- TwiceOrThrice
  Readers = {n1, n2, n3}
  PreVote = TRUE
  SnapshotInterval = 100
  MaxEntriesPerAppend = 2
  Changes <- NoChanges
  Links <- HubThree
  MaxElections = 6
  MaxBeats = 0
  MaxChecks = 0
  MaxWrites = 0
  MaxReads = 0
  MaxReconfigs = 0
  MaxTransfers = 0
  MaxCrashes = 1
  MaxFull = 1
  MaxBatch = 1
SYMMETRY SwapTwo
INVARIANTS
  VotesAreKept
  ElectionSafety
  CampaignsAreGranted
  DriverAlive
PROPERTIES
  ImplementsVoting
