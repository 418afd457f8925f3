------------------------------- MODULE AgentCore -------------------------------
(***************************************************************************)
(* AgentCore of src/src/agent.rs with its configuration file, the observer *)
(* of agent_runtime.rs and a reconciler that keeps the admission promise:  *)
(* Observe -> Decide -> Reconcile, typed commands, crashes and restarts.   *)
(*                                                                         *)
(* A call on the core runs to its end before the next one starts (the core *)
(* is behind a mutex), but a crash may hit between any two of its steps:   *)
(*   saving   the command is accepted for processing                       *)
(*   saved    the configuration file has been replaced                     *)
(*   updated  memory and the decision follow the file                      *)
(* and the cycle that ends the call observes, decides and reconciles.      *)
(***************************************************************************)
EXTENDS AdmissionPolicy, Capacity, Integers

CONSTANTS
  Commands,       \* typed commands that frontends send
  IdleTimes,      \* seconds since the last input
  Thresholds,     \* idle thresholds a user may configure
  Workloads,      \* what the other probes may show
  Configured      \* a runtime binding gives this Agent selector authority

\* The threshold RuntimeObserver hands to UserActivityProbe.
ObserverThreshold == 300

CommandShapes ==
  [kind: {"SetMode"}, value: UserModes] \cup
  [kind: {"SetZen"}, value: {"on", "off"}] \cup
  [kind: {"EnableProbe", "DisableProbe"}, value: Probes] \cup
  [kind: {"SetThreshold"}, value: Thresholds] \cup
  [kind: {"SetPresentation"}, value: {"light", "dark"}]

ASSUME CoreAssumption ==
  /\ IdleProbe \in Probes /\ Configured \in BOOLEAN
  /\ IdleTimes \subseteq Nat /\ Thresholds \subseteq Nat /\ ObserverThreshold \in Thresholds
  /\ Workloads \subseteq [Probes \ {IdleProbe} -> ProbeStates]
  /\ Commands \subseteq CommandShapes

VARIABLES
  idle,         \* the workstation: seconds since the last input
  workload,     \* the workstation: what the other probes would show
  host,         \* the workstation: session, memory and input can be read
  due,          \* a second has passed since the last poll
  listener,     \* the runner: its Listener process runs
  job,          \* the runner: a Worker runs a managed job
  label,        \* GitHub: the exact runner carries the reserved label
  disk,         \* config.json; no file reads as the default configuration
  calm,         \* commands, failures and changes of the surroundings are over
  up,           \* the process is running with a constructed core
  call,         \* progress of the command being handled
  request,      \* that command
  reply,        \* what the last command was answered
  config, observation, decision, control,  \* AgentCore's fields
  sample,       \* WindowsHostSource.previous_times: "none", this tick's, older
  durable       \* configurations the file may hold, given the answers so far

world == <<idle, workload, host, listener, job>>
memory == <<config, observation, decision, control>>
coreVars == <<world, due, label, disk, calm, up, call, request, reply,
          memory, sample, durable>>

-----------------------------------------------------------------------------
DefaultConfig ==
  [mode |-> "Auto", zen |-> FALSE, enabled |-> [p \in Probes |-> TRUE],
   threshold |-> 300, look |-> "light"]

Configs ==
  [mode: UserModes, zen: BOOLEAN, enabled: [Probes -> BOOLEAN],
   threshold: Thresholds, look: {"light", "dark"}]

Observations ==
  [safety: SafetyStates, shows: [Probes -> ProbeStates],
   phase: {"Stopped", "Listening", "Busy", "Unknown"}, verified: BOOLEAN]

Controls == [desired: {"Full", "Drained"}, claim: Claims]

NoCommand == [kind |-> "none", value |-> "none"]

TypeOK ==
  /\ idle \in IdleTimes /\ workload \in Workloads /\ host \in BOOLEAN
  /\ due \in BOOLEAN /\ listener \in BOOLEAN /\ job \in BOOLEAN /\ label \in BOOLEAN
  /\ disk \in Configs
  /\ calm \in BOOLEAN /\ up \in BOOLEAN
  /\ call \in {"none", "saving", "saved", "updated"}
  /\ request \in Commands \cup {NoCommand}
  /\ reply \in {"none", "accepted", "failed"}
  /\ config \in Configs /\ observation \in Observations
  /\ decision \in Decisions /\ control \in Controls
  /\ sample \in {"none", "same-tick", "older"}
  /\ durable \subseteq Configs

-----------------------------------------------------------------------------
\* Observation.

Unobserved ==
  [safety |-> "Unknown", shows |-> [p \in Probes |-> "Suspended"],
   phase |-> "Unknown", verified |-> FALSE]

\* The input probe compares with the threshold it was constructed with.
ShowsWith(threshold) ==
  [p \in Probes |->
     IF p # IdleProbe THEN workload[p]
     ELSE IF idle >= threshold THEN "Inactive" ELSE "Active"]
Shows == ShowsWith(ObserverThreshold)

\* CPU load is the difference of two samples of system times; two samples of
\* one clock tick, like a first one, yield none and leave the host degraded.
HostHealthy == host /\ sample = "older"

\* The process evidence of the exact binding is verified only while the bound
\* Listener can be found.
Observed ==
  [safety |-> IF HostHealthy THEN "Clear" ELSE "Unknown",
   shows |-> Shows,
   phase |-> CASE ~Configured -> "Unknown"
               [] Configured /\ ~listener -> "Stopped"
               [] Configured /\ listener -> IF job THEN "Busy" ELSE "Listening",
   verified |-> Configured /\ listener]

-----------------------------------------------------------------------------
\* Decision.

Decide(c, o) ==
  DecideAdmission([mode |-> c.mode, zen |-> c.zen, safety |-> o.safety,
                   enabled |-> c.enabled, shows |-> o.shows])

-----------------------------------------------------------------------------
\* Reconciliation, as Capacity allows it to the admission controller.

\* Defective variant: the selector is changed on local evidence that is not consistent.
ReconcileUnverified(d, o) ==
  \E r \in Outcomes(d, label, listener, job, Configured, calm) :
    label' = r.label /\ control' = [desired |-> d, claim |-> r.claim]

Reconcile(d, o) ==
  \E r \in Outcomes(d, label, listener, job, Configured /\ o.verified, calm) :
    label' = r.label /\ control' = [desired |-> d, claim |-> r.claim]

-----------------------------------------------------------------------------
NoControl == [desired |-> "Drained", claim |-> "none"]

Init ==
  /\ idle \in IdleTimes /\ workload \in Workloads /\ host \in BOOLEAN
  /\ due = FALSE /\ listener \in BOOLEAN /\ job = FALSE /\ label = FALSE
  /\ disk = DefaultConfig /\ calm = FALSE
  /\ up = FALSE /\ call = "none" /\ request = NoCommand /\ reply = "none"
  /\ config = DefaultConfig /\ observation = Unobserved
  /\ decision = Decide(DefaultConfig, Unobserved) /\ control = NoControl
  /\ sample = "none"
  /\ durable = {DefaultConfig}

-----------------------------------------------------------------------------
\* The Agent.

\* What the fields hold while no process does.
Forget ==
  /\ config' = DefaultConfig /\ observation' = Unobserved
  /\ decision' = Decide(DefaultConfig, Unobserved) /\ control' = NoControl
  /\ sample' = "none" /\ due' = FALSE

\* AgentCore::new: everything but the intent is reconstructed.
Start ==
  /\ ~up
  /\ up' = TRUE
  /\ config' = disk
  /\ observation' = Unobserved
  /\ decision' = Decide(config', Unobserved)
  /\ control' = [desired |-> DesiredAdmission(decision'), claim |-> "none"]
  /\ sample' = "none" /\ due' = TRUE
  /\ call' = "none" /\ request' = NoCommand /\ reply' = "none"
  /\ UNCHANGED <<world, label, disk, calm, durable>>

\* Defective variant: the cycle reconciles with the decision it found.
CycleStale ==
  /\ observation' = Observed
  /\ decision' = Decide(config, Observed)
  /\ Reconcile(DesiredAdmission(decision), Observed)
  /\ sample' = "same-tick"

\* Defective variant: only a changed decision is reconciled.
CycleOnChange ==
  /\ observation' = Observed
  /\ decision' = Decide(config, Observed)
  /\ IF decision' = decision THEN UNCHANGED <<label, control>>
     ELSE Reconcile(DesiredAdmission(decision'), Observed)
  /\ sample' = "same-tick"

\* observe_decide_reconcile: all three results are installed together.
Cycle ==
  /\ observation' = Observed
  /\ decision' = Decide(config, Observed)
  /\ Reconcile(DesiredAdmission(decision'), Observed)
  /\ sample' = "same-tick"

\* The observer gives up after it has sampled the host; nothing is installed.
CycleFails ==
  /\ ~calm
  /\ sample' = "same-tick"
  /\ UNCHANGED <<observation, decision, control, label>>

\* The poll of the tray loop; the first one belongs to run_agent, which gives
\* up when it fails.
FirstCycleDone == sample # "none"

Poll ==
  /\ up /\ call = "none" /\ due
  /\ \/ Cycle /\ due' = FALSE /\ UNCHANGED <<up, config>>
     \/ FirstCycleDone /\ CycleFails /\ due' = FALSE /\ UNCHANGED <<up, config>>
     \/ ~FirstCycleDone /\ ~calm /\ up' = FALSE /\ Forget /\ UNCHANGED label
  /\ UNCHANGED <<world, disk, calm, call, request, reply, durable>>

Apply(c, cmd) ==
  CASE cmd.kind = "SetMode" -> [c EXCEPT !.mode = cmd.value]
    [] cmd.kind = "SetZen" -> [c EXCEPT !.zen = (cmd.value = "on")]
    [] cmd.kind = "EnableProbe" -> [c EXCEPT !.enabled[cmd.value] = TRUE]
    [] cmd.kind = "DisableProbe" -> [c EXCEPT !.enabled[cmd.value] = FALSE]
    [] cmd.kind = "SetThreshold" -> [c EXCEPT !.threshold = cmd.value]
    [] cmd.kind = "SetPresentation" -> [c EXCEPT !.look = cmd.value]

Receive(cmd) ==
  /\ up /\ FirstCycleDone /\ call = "none" /\ ~calm
  /\ call' = "saving" /\ request' = cmd /\ reply' = "none"
  /\ durable' = durable \cup {Apply(config, cmd)}
  /\ UNCHANGED <<world, due, label, disk, calm, up, memory, sample>>

Answer(r) ==
  /\ call' = "none" /\ request' = NoCommand /\ reply' = r

\* The file could not be written or the directory guard failed before it was
\* replaced.
SaveFails ==
  /\ call = "saving" /\ ~calm
  /\ Answer("failed")
  /\ UNCHANGED <<world, due, label, disk, calm, up, memory, sample, durable>>

\* Defective variant: the command changes memory only.
SaveForgotten ==
  /\ call = "saving"
  /\ call' = "saved"
  /\ UNCHANGED <<world, due, label, disk, calm, up, request, reply, memory,
                 sample, durable>>

SaveReplaces ==
  /\ call = "saving"
  /\ disk' = Apply(config, request)
  /\ call' = "saved"
  /\ UNCHANGED <<world, due, label, calm, up, request, reply, memory,
                 sample, durable>>

\* The last directory check fails: the file is new, memory stays old.
SaveUnverified ==
  /\ call = "saved" /\ ~calm
  /\ Answer("failed")
  /\ UNCHANGED <<world, due, label, disk, calm, up, memory, sample, durable>>

\* Defective variant: the new intent waits for the cycle to be decided upon.
UpdateUndecided ==
  /\ call = "saved"
  /\ call' = "updated"
  /\ config' = Apply(config, request)
  /\ UNCHANGED <<world, due, label, disk, calm, up, request, reply, decision,
                 observation, control, sample, durable>>

UpdateConfig ==
  /\ call = "saved"
  /\ call' = "updated"
  /\ config' = Apply(config, request)
  /\ decision' = Decide(config', observation)
  /\ UNCHANGED <<world, due, label, disk, calm, up, request, reply,
                 observation, control, sample, durable>>

\* accept_after_reconcile: only a completed cycle is acknowledged.
AcceptAfterReconcile ==
  /\ call = "updated"
  /\ \/ Cycle /\ Answer("accepted") /\ durable' = {config}
     \/ CycleFails /\ Answer("failed") /\ durable' = durable
  /\ UNCHANGED <<world, due, disk, calm, up, config>>

Crash ==
  /\ up /\ ~calm
  /\ up' = FALSE /\ call' = "none" /\ request' = NoCommand /\ reply' = "none"
  /\ Forget
  /\ UNCHANGED <<world, label, disk, calm, durable>>

CoreStep ==
  \/ Start \/ Poll
  \/ SaveFails \/ SaveReplaces \/ SaveUnverified \/ UpdateConfig \/ AcceptAfterReconcile

-----------------------------------------------------------------------------
\* The clock, the workstation, the runner and GitHub.

Tick ==
  /\ ~due \/ sample = "same-tick"
  /\ \/ due' = TRUE \/ due' = due
  /\ sample' = IF sample = "same-tick" THEN "older" ELSE sample
  /\ <<due, sample>>' # <<due, sample>>
  /\ UNCHANGED <<world, label, disk, calm, up, call, request, reply, memory,
                 durable>>

ChangeSurroundings ==
  /\ ~calm
  /\ \/ idle' \in IdleTimes /\ UNCHANGED <<workload, host, listener>>
     \/ workload' \in Workloads /\ UNCHANGED <<idle, host, listener>>
     \/ host' = ~host /\ UNCHANGED <<idle, workload, listener>>
     \/ listener' = ~listener /\ UNCHANGED <<idle, workload, host>>
  /\ job' = (job /\ listener')
  /\ UNCHANGED <<due, label, disk, calm, up, call, request, reply, memory,
                 sample, durable>>

\* GitHub gives a job to a Listener it sees with the label on, and may deliver
\* one it had already assigned.
JobStarts ==
  /\ listener /\ ~job /\ (label \/ ~calm)
  /\ job' = TRUE
  /\ UNCHANGED <<idle, workload, host, listener, due, label, disk, calm, up,
                 call, request, reply, memory, sample, durable>>

JobEnds ==
  /\ job
  /\ job' = FALSE
  /\ UNCHANGED <<idle, workload, host, listener, due, label, disk, calm, up,
                 call, request, reply, memory, sample, durable>>

Quieten ==
  /\ ~calm /\ host
  /\ calm' = TRUE
  /\ UNCHANGED <<world, due, label, disk, up, call, request, reply, memory,
                 sample, durable>>

CoreNext ==
  \/ CoreStep \/ (\E cmd \in Commands : Receive(cmd)) \/ Crash
  \/ Tick \/ ChangeSurroundings \/ JobStarts \/ JobEnds \/ Quieten

Spec == Init /\ [][CoreNext]_coreVars

\* The loop comes round, time passes, and a Worker finishes its job.
FairSpec ==
  Spec /\ WF_coreVars(CoreStep) /\ WF_coreVars(Tick /\ due') /\ WF_coreVars(Tick /\ sample' = "older")
       /\ WF_coreVars(JobEnds)

-----------------------------------------------------------------------------
\* Properties.

\* While the process runs, the decision it acts on is the policy's answer to
\* the intent in memory and the last installed observation: no failing save,
\* failing observer, half-done command or restart leaves an answer to an older
\* intent behind.
DecisionIsCurrent == up => decision = Decide(config, observation)

\* An acknowledged command survives: until another command is attempted the
\* file holds exactly the configuration that was acknowledged, through crashes
\* and restarts; a command that failed has taken effect completely or not.
AcceptedSurvives == disk \in durable

\* The Agent puts the label on only in a cycle whose own observation, under the
\* intent of that moment, permits new work; never on an older decision.
OpensOnFreshEvidence ==
  [][(~label /\ label') =>
        /\ up /\ Decide(config, Observed).allow
        /\ Observed.safety = "Clear" /\ Observed.verified]_coreVars

Rank(s) ==
  CASE s = "Inactive" -> 0 [] s = "Unavailable" -> 1 [] OTHER -> 2

AtLeastAsBad(o1, o2) ==
  /\ o2.safety = "Clear" => o1.safety = "Clear"
  /\ \A p \in Probes : Rank(o1.shows[p]) <= Rank(o2.shows[p])

\* Evidence that only gets worse never turns a refusal into a permission: a
\* probe that becomes unreadable must not count as one that shows nothing.
WorseEvidenceNeverOpens ==
  [][(up /\ up' /\ config' = config /\ AtLeastAsBad(observation, observation')
        /\ ~decision.allow) => ~decision'.allow]_coreVars

\* What is seen of the core from outside: whatever the evidence, no cycle asks for
\* capacity that the user's intent rules out, and intent, label and claim change
\* only as CoreView lets them, through saves, crashes and restarts.
Closed(c) == c.zen \/ c.mode \in {"Work", "Gaming", "Maintenance"}
SeenIntent == IF Closed(config) THEN "Closed" ELSE "Open"

View == INSTANCE CoreView WITH
  configured <- Configured, claim <- control.claim, intent <- SeenIntent

KeepsView == View!ViewSpec

\* With the Listener running and the surroundings quiet the Agent reaches and
\* keeps the capacity that the user's intent and the evidence call for, whatever
\* it was doing, whichever commands failed and however often it was restarted.
IntentReached ==
  (calm /\ Configured /\ listener) ~>
    [](LET d == Decide(config, [observation EXCEPT !.safety = "Clear", !.shows = Shows])
       IN control.claim = IF d.allow THEN "FULL" ELSE "DRAINED")
=================================================================================
