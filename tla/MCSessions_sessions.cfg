SPECIFICATION Spec
CONSTANTS
  s1 = s1
  s2 = s2
  c1 = c1
  c2 = c2
  Server = {s1, s2}
  Client = {c1}
  Others = {c2}
  Configured = {s1}
  First = s1
  Script <- Calls
  InFlight <- Delayed
  Ended = 1
  None = None
  KeepVersions = 2
  MaxAttempts = 2
  MaxLog = 4
  MaxEvents = 2
INVARIANT ExactlyOnce
INVARIANT AnswersAreTrue
INVARIANT LiveCallNotRefused
PROPERTY CallsReturn
CHECK_DEADLOCK FALSE
