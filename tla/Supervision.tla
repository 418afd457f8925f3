------------------------------ MODULE Supervision ------------------------------
(***************************************************************************)
(* What the supervisor does with a request and an observation of the       *)
(* runner's processes (SupervisorCore in src/src/supervisor.rs), action by *)
(* action, each of which the backend may fail; and what recovery decides   *)
(* of the same observation about a Listener it finds                       *)
(* (decide_existing_listener_adoption in src/src/host.rs).                 *)
(***************************************************************************)
EXTENDS SequencesExt

VARIABLES
  request,     \* what was asked for, "none" before
  observed,    \* the observation it is reconciled against
  runnerHome,  \* what recovery knows of the owner of the runner home
  pending,     \* the actions of the plan that are still to be applied
  applied,     \* the actions the backend has applied
  outcome      \* what the caller was told, "none" until then

supervisionVars == <<request, observed, runnerHome, pending, applied, outcome>>

Requests == {"EnsureStarted", "EnsureDrained", "EnsureStopped", "Restart", "Reconnect", "Adopt"}

Actions ==
  {"Start", "RequestDrain", "Stop", "StopAfterDrain", "RestartConnection", "AdoptExistingListener"}

Ownership == {"Verified", "NotOwned", "Unknown"}

\* SupervisorObservation
Observations ==
  [phase: {"Stopped", "Starting", "Listening", "Busy", "DrainPending", "Stopping", "Unknown"},
   listener: {"Absent", "Owned", "Foreign", "Unknown"},
   worker: {"Absent", "Owned", "Foreign", "Unknown"},
   identity: {"Verified", "Mismatch", "Unknown"},
   workRoot: Ownership]

SupervisionTypeOK ==
  /\ request \in Requests \cup {"none"} /\ observed \in Observations /\ runnerHome \in Ownership
  /\ pending \in BoundedSeq(Actions, 3) /\ applied \in BoundedSeq(Actions, 3)
  /\ outcome \in {"none", "Applied", "Noop", "Refused", "Backend"}

SupervisionInit ==
  /\ request = "none" /\ observed \in Observations /\ runnerHome \in Ownership
  /\ pending = <<>> /\ applied = <<>> /\ outcome = "none"

-----------------------------------------------------------------------------
\* plan

Processes(o) == {o.listener, o.worker}

\* control_refusal
ControlRefused(o) ==
  \/ Processes(o) \cap {"Foreign", "Unknown"} # {}
  \/ o.identity # "Verified" \/ o.workRoot # "Verified"

\* is_stopped, is_drain_ready: what is so already needs no evidence.
Satisfied(r, o) ==
  \/ r = "EnsureStopped" /\ o.phase = "Stopped" /\ Processes(o) = {"Absent"}
  \/ r = "EnsureDrained" /\ o.phase \in {"Stopped", "Listening"}

\* plan_verified, by request and phase; a phase that is not there is refused.
Plans ==
  [EnsureStarted |-> [Stopped |-> <<"Start">>, Starting |-> <<>>, Listening |-> <<>>, Busy |-> <<>>],
   EnsureDrained |-> [Stopped |-> <<>>, Listening |-> <<>>, Busy |-> <<"RequestDrain">>],
   EnsureStopped |-> [Stopped |-> <<>>, Listening |-> <<"Stop">>,
                      Busy |-> <<"RequestDrain", "StopAfterDrain">>],
   Restart       |-> [Stopped |-> <<"Start">>, Listening |-> <<"Stop", "Start">>,
                      Busy |-> <<"RequestDrain", "StopAfterDrain", "Start">>],
   Reconnect     |-> [Stopped |-> <<"Start">>, Listening |-> <<"RestartConnection">>,
                      Busy |-> <<"RestartConnection">>]]

Refused(r, o) ==
  \/ ControlRefused(o)
  \/ IF r = "Adopt" THEN o.listener = "Absent" ELSE o.phase \notin DOMAIN Plans[r]

Planned(r, o) == IF r = "Adopt" THEN <<"AdoptExistingListener">> ELSE Plans[r][o.phase]

Answer(result) == outcome' = result /\ UNCHANGED <<pending, applied>>

\* SupervisorCore::reconcile, up to the first action.
Request ==
  /\ request = "none"
  /\ request' \in Requests
  /\ IF Satisfied(request', observed) THEN Answer("Noop")
     ELSE IF Refused(request', observed) THEN Answer("Refused")
     ELSE IF Planned(request', observed) = <<>> THEN Answer("Noop")
     ELSE /\ pending' = Planned(request', observed)
          /\ UNCHANGED <<applied, outcome>>
  /\ UNCHANGED <<observed, runnerHome>>

Apply ==
  /\ pending # <<>>
  /\ applied' = Append(applied, Head(pending))
  /\ pending' = Tail(pending)
  /\ outcome' = IF Len(pending) = 1 THEN "Applied" ELSE "none"
  /\ UNCHANGED <<request, observed, runnerHome>>

\* Defective variant: the error is noted and the plan goes on.
AfterFailureGoOn == Tail(pending)

AfterFailure == <<>>

BackendFails ==
  /\ pending # <<>>
  /\ pending' = AfterFailure
  /\ outcome' = "Backend"
  /\ UNCHANGED <<request, observed, runnerHome, applied>>

Supervise == Request \/ Apply \/ BackendFails

-----------------------------------------------------------------------------
\* Defective variant: the owner of the work root is the owner of the runner home.
RecoveryAdoptsByHome(o, h) ==
  /\ o.listener # "Absent" /\ Processes(o) \cap {"Foreign", "Unknown"} = {}
  /\ o.identity = "Verified" /\ h = "Verified"
  /\ o.phase \in {"Listening", "Busy", "DrainPending"}

\* decide_existing_listener_adoption
RecoveryAdopts(o, h) ==
  /\ o.listener # "Absent" /\ Processes(o) \cap {"Foreign", "Unknown"} = {}
  /\ o.identity = "Verified" /\ h = "Verified" /\ o.workRoot = "Verified"
  /\ o.phase \in {"Listening", "Busy", "DrainPending"}

-----------------------------------------------------------------------------
\* Properties.

\* No process is started, stopped or adopted unless every process that was observed is
\* ours and identity and work root were verified; whatever was asked for, and even when
\* the backend fails half-way.
ControlNeedsEvidence ==
  applied # <<>> =>
    /\ Processes(observed) \subseteq {"Absent", "Owned"}
    /\ observed.identity = "Verified" /\ observed.workRoot = "Verified"

\* What ends the runner's processes or its connection, or begins them anew.
Interrupts == {"Stop", "StopAfterDrain", "Start", "RestartConnection"}

\* By its phase or by its processes the runner has a job.
HasJob == observed.phase = "Busy" \/ observed.worker = "Owned"

\* An observation that contradicts itself, which derive_phase in runner_observer.rs never
\* makes: the plan follows its phase.
PhaseDeniesWorker == observed.worker = "Owned" /\ observed.phase \in {"Listening", "Stopped"}

\* A runner that has a job is drained before it is interrupted: an interrupting action is
\* applied only after the drain was, also when an action of the plan failed. Two cases are
\* not promised: a Reconnect restarts the connection of a busy runner without a drain, and
\* a phase that denies the Worker has the plan of that phase.
BusyIsDrainedFirst ==
  HasJob =>
    \A i \in DOMAIN applied : applied[i] \in Interrupts =>
      \/ Contains(SubSeq(applied, 1, i), "RequestDrain")
      \/ request = "Reconnect" /\ applied[i] = "RestartConnection"
      \/ PhaseDeniesWorker

\* A Listener that recovery offers for adoption is one the supervisor does not refuse.
OfferedIsAdopted ==
  (request = "Adopt" /\ outcome = "Refused") => ~RecoveryAdopts(observed, runnerHome)
================================================================================
