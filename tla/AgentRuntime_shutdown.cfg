SPECIFICATION FairSpec
CONSTANTS
  Authorities = {TRUE}
  Requests = {"SetModeIdle", "ExitAfterDrain"}
  Clients = {"cli"}
  MaxQueued = 2
PROPERTY ShutdownCompletes
CHECK_DEADLOCK FALSE
