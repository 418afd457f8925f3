SPECIFICATION FairSpec
CONSTANTS
  MaxAttempts = 1
  BaseDelay = 2
  MaximumDelay = 5
  FailureCeiling = 2
  RetryAfters <- MCRetryAfters
  Faults = {"Timeout"}
  Drifts = {}
PROPERTIES
  CapacityConverges
