CONSTANTS
  Nodes = {n1, n2}
  UnhealthyThreshold = 2
  HealthyThreshold = 2
  MaxRounds = 4
SPECIFICATION Spec
INVARIANTS
  StreakDecides
