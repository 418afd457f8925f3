------------------------------ MODULE MCAgentCore ------------------------------
\* Small instances of AgentCore.
EXTENDS AgentCore

MCProbes == {"user-activity", "process-list"}
MCWorkloads == [{"process-list"} -> {"Inactive", "Active", "Unknown"}]
MCQuietWorkload == [{"process-list"} -> {"Inactive"}]

Command(kind, value) == [kind |-> kind, value |-> value]

\* Intent that opens and closes admission, by two settings that do not know of each other.
MCIntentCommands ==
  {Command("SetMode", "Work"), Command("SetZen", "on"), Command("SetZen", "off")}

\* Intent that changes what Auto Lite looks at.
MCProbeCommands ==
  {Command("DisableProbe", "process-list"), Command("EnableProbe", "process-list")}
=================================================================================
