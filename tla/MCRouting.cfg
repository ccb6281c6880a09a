CONSTANTS
  n1 = n1
  n2 = n2
  n3 = n3
  k1 = k1
  k2 = k2
  k3 = k3
  k4 = k4
  Nodes = {n1, n2, n3}
  Keys = {k1, k2, k3, k4}
  Score <- MCScore
  MaxConcurrent <- MCLimits
  LoadNum = 11
  LoadDen = 10
  AffinityFloor = 2
  PlacementSize = 3
SPECIFICATION Spec
SYMMETRY KeySymmetry
INVARIANTS
  CountersAgree
  SpreadEvenly
  WorkConserving
  OnlyLostKeysMove
  ExceedsOnlyWhenForced
  AffinityAtLowLoad
PROPERTIES
  Sticky
  ForgetsOldest
