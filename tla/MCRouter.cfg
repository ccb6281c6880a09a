CONSTANTS
  n1 = n1
  n2 = n2
  k1 = k1
  k2 = k2
  r1 = r1
  NoRequest = NoRequest
  Nodes = {n1, n2}
  Keys = {k1, k2}
  Requests = {r1, r2, r3}
  NodeList <- MCNodeList
  Score <- MCScore
  MaxConcurrent <- TwoSlots
  LoadNum = 1
  LoadDen = 1
  AffinityFloor = 1
  PlacementSize = 0
  FailureThreshold = 1
  OpenDuration = 1
  MaxOpenDuration = 1
  HalfOpenMax = 1
  Second = 1
  KeyOf <- MCKeyOf
  Group <- MCGroup
  Role <- MCRole
  Target <- MCTarget
  MaxQueue = 1
  AffinityWait = FALSE
  BreakerEnabled = TRUE
  HealthEnabled = FALSE
  MaxAttempts = 2
SPECIFICATION Spec
INVARIANTS
  TypeOK
  SlotAccounting
  QueueAccounting
  ProbesHeld
  NoLostWakeup
  WakeupComing
  RetryElsewhere
