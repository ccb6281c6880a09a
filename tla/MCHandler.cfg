CONSTANTS
  MaxAttempts = 3
  MaxChunks = 2
  RetryBackoff = 5
  Default = 1
  Second = 8
  Width = 16
SPECIFICATION FairSpec
INVARIANTS
  TypeOK
  LeaseSettledOnce
  FinishedOnce
  VerdictIsFair
  Answered
PROPERTIES
  ClientSpec
  Terminates
