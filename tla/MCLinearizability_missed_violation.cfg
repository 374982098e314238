SPECIFICATION Spec
CONSTANTS
  Client = {1, 2}
  Workload <- Overlooked
  MaxEvents = 3
  MaxTime = 4
  AHEAD = 2
  max_states = 12
INVARIANT AcceptedIsLinearizable
CHECK_DEADLOCK FALSE
