SPECIFICATION Spec
CONSTANTS
  MaxAttempts = 1
  BaseDelay = 2
  MaximumDelay = 5
  FailureCeiling = 3
  RetryAfters <- MCRetryAfters
  Faults <- MCFaults
  Drifts <- MCDrifts
INVARIANTS
  MutationIsJustified
PROPERTIES
  PublicationJustified
  ExhaustedStaysExhausted
  KeepsPromise
