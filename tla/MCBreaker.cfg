CONSTANTS
  Callers = {c1, c2, c3}
  FailureThreshold = 2
  OpenDuration = 0
  MaxOpenDuration = 3
  HalfOpenMax = 2
  Second = 1
  MaxGen = 8
SPECIFICATION FairSpec
INVARIANTS
  TypeOK
  ProbeAccounting
  BackoffLaw
PROPERTIES
  AbstractSpec
  NeverWedged
