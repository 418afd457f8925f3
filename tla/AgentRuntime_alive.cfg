SPECIFICATION Spec
CONSTANTS
  Authorities = {TRUE}
  Requests = {"SetModeIdle", "ExitAfterDrain"}
  Clients = {"cli"}
  MaxQueued = 2
INVARIANT AliveUntilDrained
CHECK_DEADLOCK FALSE
