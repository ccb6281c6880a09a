CONSTANTS
  MaxAttempts = 3
  MaxChunks = 2
  RetryBackoff <- Negative
  Default = 1
  Second = 8
  Width = 16
SPECIFICATION Spec
INVARIANTS
  ValidatedNeverPanics
