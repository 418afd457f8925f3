SPECIFICATION Spec
CONSTANTS
  Probes <- MCProbes
  IdleProbe = "user-activity"
  Commands <- MCProbeCommands
  IdleTimes = {0, 400}
  Thresholds = {300}
  Workloads <- MCWorkloads
  Configured = TRUE
PROPERTIES OpensOnFreshEvidence WorseEvidenceNeverOpens
