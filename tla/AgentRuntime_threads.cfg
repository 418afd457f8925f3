SPECIFICATION FairSpec
CONSTANTS
  Authorities = {TRUE, FALSE}
  Requests = {"GetSnapshot", "SetModeWork", "SetModeIdle", "ExitAfterDrain"}
  Clients = {"cli", "mute"}
  MaxQueued = 2
INVARIANT NobodyWaitsInVain
PROPERTIES ExitNeedsDrained CommandsAreAnswered TrayCatchesUp DrainEndsInExit
CHECK_DEADLOCK FALSE
