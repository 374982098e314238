CONSTANTS
  s1 = s1
  s2 = s2
  Node = {s1, s2}
  Delays = {1}
  Spells = {1, 2}
  BatchLimit = 1
  MinAlive = 1
  Duration = 2
  Recovery = 1
  MaxSends = 1
  MaxFaults = 2
SPECIFICATION Spec
INVARIANTS NoLostWakeup OneIncarnation FaultsEnd RecoveryIsCalm
PROPERTY RunReturns
CHECK_DEADLOCK FALSE
