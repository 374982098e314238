SPECIFICATION Spec
CONSTANTS
  Client = {1, 2}
  Workload <- GivenUp
  MaxEvents = 3
  MaxTime = 3
  AHEAD = 2
  max_states = 12
INVARIANT ViolationsAreReal
CHECK_DEADLOCK FALSE
