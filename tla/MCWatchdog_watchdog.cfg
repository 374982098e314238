SPECIFICATION Spec
CONSTANTS
  Node = {1, 2, 3}
  Views <- SmallViews
  elect_within = 1
  commit_within = 1
  converge_within = 1
  MaxViews = 4
INVARIANTS AlarmsNeedCalm StallsAreReported
CHECK_DEADLOCK FALSE
