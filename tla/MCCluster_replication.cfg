SPECIFICATION SpecReplication
CONSTANTS
  n1 = n1
  n2 = n2
  n3 = n3
  None = None
  Server = {n1, n2, n3}
  InitialVoters = {n1, n2, n3}
  Candidates <- Succession
  Readers = {n1}
  PreVote = FALSE
  SnapshotInterval = 1
  MaxEntriesPerAppend = 1
  Changes <- ToOneAndLearner
  Links <- HubThree
  MaxElections = 6
  MaxBeats = 1
  MaxChecks = 1
  MaxWrites = 0
  MaxReads = 1
  MaxReconfigs = 1
  MaxTransfers = 0
  MaxCrashes = 1
  MaxFull = 0
  MaxBatch = 1
INVARIANTS
  TypeOK
  LogMatching
  LeaderCompleteness
  StateMachineSafety
  KvMatchesApplied
  PersistedIsOnDisk
  Durability
  ReadsAreCurrent
