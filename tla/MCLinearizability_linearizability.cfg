SPECIFICATION Spec
CONSTANTS
  Client = {1, 2}
  Workload <- Mixed
  MaxEvents = 4
  MaxTime = 4
  AHEAD = 2
  max_states = 12
INVARIANT NoFalseAlarm
INVARIANT ViolationsAreFound
CHECK_DEADLOCK FALSE
