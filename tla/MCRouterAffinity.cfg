CONSTANTS
  n1 = n1
  n2 = n2
  k1 = k1
  k2 = k2
  r1 = r1
  NoRequest = NoRequest
  Nodes = {n1, n2}
  Keys = {k1}
  Requests = {r1, r2, r3}
  NodeList <- MCNodeList
  Score <- MCScore
  MaxConcurrent <- OneSlot
  LoadNum = 1
  LoadDen = 1
  AffinityFloor = 2
  PlacementSize = 1
  FailureThreshold = 1
  OpenDuration = 1
  MaxOpenDuration = 1
  HalfOpenMax = 1
  Second = 1
  KeyOf <- SameKey
  Group <- MCGroup
  Role <- MCRole
  Target <- MCTarget
  MaxQueue = 2
  AffinityWait = TRUE
  BreakerEnabled = FALSE
  HealthEnabled = TRUE
  MaxAttempts = 1
SPECIFICATION FairSpec
INVARIANTS
  NoLostWakeup
PROPERTIES
  EveryCallReturns
