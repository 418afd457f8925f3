SPECIFICATION FairSpec
CONSTANTS
  Probes <- MCProbes
  IdleProbe = "user-activity"
  Commands <- MCIntentCommands
  IdleTimes = {400}
  Thresholds = {300}
  Workloads <- MCQuietWorkload
  Configured = TRUE
INVARIANTS DecisionIsCurrent AcceptedSurvives
PROPERTIES IntentReached KeepsView
