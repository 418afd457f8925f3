------------------------------- MODULE Admission -------------------------------
(***************************************************************************)
(* The admission controller of the Agent (src/src/admission.rs) at work    *)
(* against GitHub: AdmissionController::reconcile and the REST backend it  *)
(* calls, cut at every HTTP exchange so that jobs, other administrators,   *)
(* late replies, crashes and the policy interleave with it.                *)
(*                                                                         *)
(* One reconcile cycle is                                                  *)
(*   Begin      policy and local evidence are sampled                      *)
(*   observe    first reading of the exact runner                          *)
(*   confirm    the reading advertise_/withdraw_capacity takes before it   *)
(*              mutates                                                    *)
(*   mutate     POST or DELETE of the reserved label                       *)
(*   readback   the reading that alone may confirm the mutation            *)
(* and ends by publishing an AdmissionControlSnapshot.                     *)
(***************************************************************************)
EXTENDS Integers

CONSTANTS
  MaxAttempts,       \* RetryPolicy.max_attempts
  BaseDelay,         \* RetryPolicy.base_delay_seconds
  MaximumDelay,      \* RetryPolicy.maximum_delay_seconds
  RetryAfters,       \* delays a rate-limiting server may ask for
  FailureCeiling,    \* u8::MAX, where the failure counter saturates
  Faults,            \* transport, HTTP and credential failures that occur
  Drifts             \* ways the enrolled runner may stop matching its binding

TransportFaults ==
  {"CredentialUnavailable", "CredentialResolutionFailed", "CredentialMalformed",
   "AuthenticationFailed", "RateLimited", "ApiUnavailable", "Timeout",
   "MalformedResponse", "RunnerNotFound"}

DriftErrors ==
  {"RunnerNotFound", "RunnerIdentityDrift", "ReservedLabelOwnershipDrift",
   "SelectorCollision"}

Transient == {"RateLimited", "ApiUnavailable", "Timeout"}
Refusals == DriftErrors \cup {"BindingInvalid"}

BackendErrors ==
  TransportFaults \cup DriftErrors \cup
    {"SelectorObservationUnknown", "MutationReadbackUnconfirmed"}

ASSUME RetryAssumption ==
  /\ MaxAttempts \in 1..64
  /\ FailureCeiling \in Nat /\ MaxAttempts < FailureCeiling
  /\ BaseDelay \in Nat /\ MaximumDelay \in Nat
  /\ RetryAfters \subseteq Nat
  /\ \A n \in 1..MaxAttempts : BaseDelay * 2^(n - 1) \in Nat

ASSUME FaultAssumption ==
  /\ Faults \subseteq TransportFaults
  /\ Drifts \subseteq DriftErrors

VARIABLES
  label,      \* GitHub: the exact runner carries the reserved label
  job,        \* GitHub and runner: progress of a managed job
  online,     \* GitHub: the Listener is connected
  drift,      \* GitHub: "none" or how the scope departs from the binding
  late,       \* mutations the Agent gave up on that GitHub may still apply
  owned,      \* the binding carries a matching ownership record
  wish,       \* the state the policy asks for now
  calm,       \* the environment has stopped failing and interfering
  pc,         \* position in the reconcile cycle
  cycle,      \* arguments and first observation of the running cycle
  start,      \* history: the selector when the running cycle began, "Unknown" once
              \* anybody else has acted since
  failures,   \* consecutive_transient_failures
  snapshot    \* the published AdmissionControlSnapshot

github == <<label, job, online, drift, late>>
agent == <<pc, cycle, failures, snapshot>>
vars == <<github, owned, wish, calm, agent, start>>

-----------------------------------------------------------------------------
\* Types.

JobStates == {"none", "routed", "assigned", "running", "ending"}
DesiredStates == {"Full", "Drained"}
SelectorStates == {"Present", "Absent", "Unknown"}
EvidenceStates == {"Verified", "Unknown", "Drift"}
Lifecycles ==
  {"Advertising", "Listening", "Busy", "Withdrawing", "WithdrawalBlocked",
   "DrainPending", "Drained", "Unknown", "Refused", "NotConfigured"}
Reasons ==
  BackendErrors \cup
    {"none", "admission-not-configured", "admission-local-evidence-inconsistent",
     "admission-runner-unavailable", "admission-selector-presence-unconfirmed",
     "admission-selector-absence-unconfirmed",
     "admission-in-flight-worker-completing"}
Mutations == {"add", "remove"}

Snapshots ==
  [desired: DesiredStates, lifecycle: Lifecycles, selector: SelectorStates,
   identity: EvidenceStates, ownership: EvidenceStates, worker: BOOLEAN,
   reason: Reasons, attempt: 0..MaxAttempts, delay: 0..MaximumDelay]

Cycles ==
  [desired: DesiredStates, busy: BOOLEAN, consistent: BOOLEAN,
   selector: SelectorStates, seenBusy: BOOLEAN]

TypeOK ==
  /\ label \in BOOLEAN /\ job \in JobStates /\ online \in BOOLEAN
  /\ drift \in Drifts \cup {"none"}
  /\ late \subseteq Mutations
  /\ owned \in BOOLEAN /\ wish \in DesiredStates /\ calm \in BOOLEAN
  /\ pc \in {"idle", "observe", "confirm", "mutate", "readback"}
  /\ cycle \in Cycles /\ start \in SelectorStates
  /\ failures \in 0..FailureCeiling
  /\ snapshot \in Snapshots

-----------------------------------------------------------------------------
\* What a reading of the runner scope yields.

Running == job = "running"
RunnerBusy == job \in {"assigned", "running", "ending"}
Selector == IF label THEN "Present" ELSE "Absent"

\* classify_exact_runner: the error an otherwise successful reading turns into.
ReadingError ==
  CASE drift # "none" -> drift
    [] drift = "none" /\ label /\ ~owned -> "ReservedLabelOwnershipDrift"
    [] OTHER -> "none"

ReadSucceeds == ReadingError = "none"

ReadErrors ==
  (IF ReadSucceeds THEN {} ELSE {ReadingError}) \cup
  (IF calm THEN {} ELSE Faults \cup {"SelectorObservationUnknown"})

MutateErrors == IF calm THEN {} ELSE Faults

\* A reply lost on the way back says nothing of what the server did.
LostReplies == {"ApiUnavailable", "Timeout", "MalformedResponse"}

-----------------------------------------------------------------------------
\* The snapshots reconcile builds.

NoCycle ==
  [desired |-> "Drained", busy |-> FALSE, consistent |-> FALSE,
   selector |-> "Unknown", seenBusy |-> FALSE]

NotConfigured ==
  [desired |-> "Drained", lifecycle |-> "NotConfigured", selector |-> "Unknown",
   identity |-> "Unknown", ownership |-> "Unknown", worker |-> FALSE,
   reason |-> "admission-not-configured", attempt |-> 0, delay |-> 0]

SettledLifecycle(desired, worker) ==
  CASE desired = "Full" /\ label /\ ~online -> "Unknown"
    [] desired = "Full" /\ label /\ online -> IF worker THEN "Busy" ELSE "Listening"
    [] desired = "Full" /\ ~label -> "Advertising"
    [] desired = "Drained" /\ ~label -> IF worker THEN "DrainPending" ELSE "Drained"
    [] desired = "Drained" /\ label -> "Withdrawing"

SettledReason(lifecycle) ==
  CASE lifecycle = "Unknown" -> "admission-runner-unavailable"
    [] lifecycle = "Advertising" -> "admission-selector-presence-unconfirmed"
    [] lifecycle = "DrainPending" -> "admission-in-flight-worker-completing"
    [] lifecycle = "Withdrawing" -> "admission-selector-absence-unconfirmed"
    [] OTHER -> "none"

\* Defective variant: the worker evidence of the previous snapshot is kept.
SettledSnapshotSticky ==
  LET worker == cycle.busy \/ RunnerBusy \/ snapshot.worker
      lifecycle == SettledLifecycle(cycle.desired, worker)
  IN [desired |-> cycle.desired, lifecycle |-> lifecycle, selector |-> Selector,
      identity |-> "Verified", ownership |-> "Verified", worker |-> worker,
      reason |-> SettledReason(lifecycle), attempt |-> 0, delay |-> 0]

\* Defective variant: the worker evidence of the start of the cycle is used.
SettledSnapshotStale ==
  LET worker == cycle.busy \/ cycle.seenBusy
      lifecycle == SettledLifecycle(cycle.desired, worker)
  IN [desired |-> cycle.desired, lifecycle |-> lifecycle, selector |-> Selector,
      identity |-> "Verified", ownership |-> "Verified", worker |-> worker,
      reason |-> SettledReason(lifecycle), attempt |-> 0, delay |-> 0]

SettledSnapshot ==
  LET worker == cycle.busy \/ RunnerBusy
      lifecycle == SettledLifecycle(cycle.desired, worker)
  IN [desired |-> cycle.desired, lifecycle |-> lifecycle, selector |-> Selector,
      identity |-> "Verified", ownership |-> "Verified", worker |-> worker,
      reason |-> SettledReason(lifecycle), attempt |-> 0, delay |-> 0]

InconsistentSnapshot ==
  [desired |-> cycle.desired, lifecycle |-> "Unknown", selector |-> Selector,
   identity |-> "Unknown", ownership |-> "Verified",
   worker |-> cycle.busy \/ RunnerBusy,
   reason |-> "admission-local-evidence-inconsistent", attempt |-> 0, delay |-> 0]

\* Defective variant: the counter starts over instead of saturating.
FailuresAfterWrapping(e) ==
  IF e \in Transient
  THEN IF failures < FailureCeiling THEN failures + 1 ELSE 1
  ELSE 0

FailuresAfter(e) ==
  IF e \in Transient
  THEN IF failures < FailureCeiling THEN failures + 1 ELSE FailureCeiling
  ELSE 0

Retries(e) == e \in Transient /\ FailuresAfter(e) <= MaxAttempts

Capped(seconds) == IF seconds < MaximumDelay THEN seconds ELSE MaximumDelay

RetryDelays(e) ==
  IF Retries(e)
  THEN IF e = "RateLimited"
       THEN {Capped(s) : s \in RetryAfters}
       ELSE {Capped(BaseDelay * 2^(FailuresAfter(e) - 1))}
  ELSE {0}

FailedSnapshot(e, delay) ==
  [desired |-> cycle.desired,
   lifecycle |-> CASE e \in Refusals -> "Refused"
                   [] e \notin Refusals /\ cycle.desired = "Drained" -> "WithdrawalBlocked"
                   [] OTHER -> "Unknown",
   selector |-> "Unknown",
   identity |-> IF e \in {"RunnerIdentityDrift", "RunnerNotFound"}
                THEN "Drift" ELSE "Unknown",
   ownership |-> IF e \in {"ReservedLabelOwnershipDrift", "SelectorCollision"}
                 THEN "Drift" ELSE "Unknown",
   worker |-> cycle.busy,
   reason |-> e,
   attempt |-> IF Retries(e) THEN FailuresAfter(e) ELSE 0,
   delay |-> delay]

\* failed_after_observation: the reading from before the mutation is kept.
FailedAfterSnapshot(e, delay, selector, seenBusy) ==
  LET base == [FailedSnapshot(e, delay) EXCEPT
                 !.selector = selector,
                 !.worker = cycle.busy \/ seenBusy]
  IN IF e \in Refusals THEN base
     ELSE [base EXCEPT !.identity = "Verified", !.ownership = "Verified"]

AchievedFull(s) ==
  /\ s.desired = "Full" /\ s.selector = "Present"
  /\ s.identity = "Verified" /\ s.ownership = "Verified"
  /\ s.lifecycle \in {"Listening", "Busy"}

AchievedDrained(s) ==
  /\ s.desired = "Drained" /\ s.lifecycle = "Drained" /\ s.selector = "Absent"
  /\ ~s.worker
  /\ s.identity = "Verified" /\ s.ownership = "Verified"

-----------------------------------------------------------------------------
Init ==
  /\ label \in BOOLEAN /\ job = "none" /\ online \in BOOLEAN
  /\ drift \in Drifts \cup {"none"}
  /\ late = {}
  /\ owned \in BOOLEAN /\ wish = "Drained" /\ calm = FALSE
  /\ pc = "idle" /\ cycle = NoCycle /\ failures = 0 /\ start = "Unknown"
  /\ snapshot = NotConfigured

-----------------------------------------------------------------------------
\* The Agent.

Publish(s, f) ==
  /\ snapshot' = s
  /\ failures' = f
  /\ pc' = "idle"
  /\ cycle' = NoCycle /\ start' = "Unknown"

Fail(e) ==
  \E delay \in RetryDelays(e) : Publish(FailedSnapshot(e, delay), FailuresAfter(e))

FailAfter(e, selector, seenBusy) ==
  \E delay \in RetryDelays(e) :
    Publish(FailedAfterSnapshot(e, delay, selector, seenBusy), FailuresAfter(e))

Wanted == IF cycle.desired = "Full" THEN "Present" ELSE "Absent"

\* The Agent loop reconciles with the decision and the local evidence of this
\* moment; nothing in it consults the retry directive of the last snapshot.
Begin ==
  /\ pc = "idle"
  /\ pc' = "observe"
  /\ \E consistent \in IF calm THEN {TRUE} ELSE BOOLEAN :
       cycle' = [NoCycle EXCEPT !.desired = wish, !.busy = Running,
                                !.consistent = consistent]
  /\ start' = Selector
  /\ UNCHANGED <<github, owned, wish, calm, failures, snapshot>>

ObserveFails ==
  /\ pc = "observe"
  /\ \E e \in ReadErrors : Fail(e)
  /\ UNCHANGED <<github, owned, wish, calm>>

ObserveInconsistent ==
  /\ pc = "observe" /\ ReadSucceeds
  /\ ~cycle.consistent
  /\ Publish(InconsistentSnapshot, 0)
  /\ UNCHANGED <<github, owned, wish, calm>>

ObserveSettled ==
  /\ pc = "observe" /\ ReadSucceeds
  /\ cycle.consistent
  /\ Selector = Wanted
  /\ Publish(SettledSnapshot, 0)
  /\ UNCHANGED <<github, owned, wish, calm>>

\* require_owned_binding refuses before any further request is sent.
ObserveUnowned ==
  /\ pc = "observe" /\ ReadSucceeds
  /\ cycle.consistent
  /\ Selector # Wanted
  /\ ~owned
  /\ FailAfter("ReservedLabelOwnershipDrift", Selector, RunnerBusy)
  /\ UNCHANGED <<github, owned, wish, calm>>

\* Defective variant: advertise and withdraw start without an ownership check.
ObserveProceedsUnowned ==
  /\ pc = "observe" /\ ReadSucceeds
  /\ cycle.consistent
  /\ Selector # Wanted
  /\ pc' = "confirm"
  /\ cycle' = [cycle EXCEPT !.selector = Selector, !.seenBusy = RunnerBusy]
  /\ UNCHANGED <<github, owned, wish, calm, failures, snapshot, start>>

ObserveProceeds ==
  /\ pc = "observe" /\ ReadSucceeds
  /\ cycle.consistent
  /\ Selector # Wanted
  /\ owned
  /\ pc' = "confirm"
  /\ cycle' = [cycle EXCEPT !.selector = Selector, !.seenBusy = RunnerBusy]
  /\ UNCHANGED <<github, owned, wish, calm, failures, snapshot, start>>

ConfirmFails ==
  /\ pc = "confirm"
  /\ \E e \in ReadErrors : FailAfter(e, cycle.selector, cycle.seenBusy)
  /\ UNCHANGED <<github, owned, wish, calm>>

ConfirmSettled ==
  /\ pc = "confirm" /\ ReadSucceeds
  /\ Selector = Wanted
  /\ Publish(SettledSnapshot, 0)
  /\ UNCHANGED <<github, owned, wish, calm>>

ConfirmProceeds ==
  /\ pc = "confirm" /\ ReadSucceeds
  /\ Selector # Wanted
  /\ pc' = "mutate"
  /\ UNCHANGED <<github, owned, wish, calm, cycle, failures, snapshot, start>>

Mutation == IF cycle.desired = "Full" THEN "add" ELSE "remove"

\* The request never took effect: it was not sent or the server refused it.
MutateRejected ==
  /\ pc = "mutate"
  /\ \E e \in MutateErrors : FailAfter(e, cycle.selector, cycle.seenBusy)
  /\ UNCHANGED <<github, owned, wish, calm>>

\* GitHub answers 404 to the DELETE of a label that is no longer there.
MutateTooLate ==
  /\ pc = "mutate"
  /\ Mutation = "remove" /\ ~label
  /\ FailAfter("RunnerNotFound", cycle.selector, cycle.seenBusy)
  /\ UNCHANGED <<github, owned, wish, calm>>

\* The reply is lost: the server has applied the request or still may.
MutateLost ==
  /\ pc = "mutate"
  /\ \E e \in MutateErrors \cap LostReplies :
       FailAfter(e, cycle.selector, cycle.seenBusy)
  /\ \/ label' = (Mutation = "add") /\ late' = late
     \/ late' = late \cup {Mutation} /\ label' = label
  /\ UNCHANGED <<job, online, drift, owned, wish, calm>>

\* The server acknowledges; the change is visible now or only later.
MutateAcknowledged ==
  /\ pc = "mutate"
  /\ Mutation = "add" \/ label
  /\ pc' = "readback"
  /\ \/ label' = (Mutation = "add") /\ late' = late
     \/ ~calm /\ late' = late \cup {Mutation} /\ label' = label
  /\ UNCHANGED <<job, online, drift, owned, wish, calm, cycle, failures, snapshot, start>>

ReadbackFails ==
  /\ pc = "readback"
  /\ \E e \in ReadErrors : FailAfter(e, cycle.selector, cycle.seenBusy)
  /\ UNCHANGED <<github, owned, wish, calm>>

ReadbackUnconfirmed ==
  /\ pc = "readback" /\ ReadSucceeds
  /\ Selector # Wanted
  /\ FailAfter("MutationReadbackUnconfirmed", cycle.selector, cycle.seenBusy)
  /\ UNCHANGED <<github, owned, wish, calm>>

\* Defective variant: the acknowledgement is taken for the readback.
ReadbackTrustsAck ==
  /\ pc = "readback"
  /\ Publish([SettledSnapshot EXCEPT
               !.selector = Wanted,
               !.lifecycle = IF Wanted = "Present" THEN "Listening" ELSE "Drained"], 0)
  /\ UNCHANGED <<github, owned, wish, calm>>

ReadbackConfirms ==
  /\ pc = "readback" /\ ReadSucceeds
  /\ Selector = Wanted
  /\ Publish(SettledSnapshot, 0)
  /\ UNCHANGED <<github, owned, wish, calm>>

\* The process dies and is started again; GitHub keeps what it has.
Restart ==
  /\ ~calm
  /\ pc' = "idle" /\ cycle' = NoCycle /\ failures' = 0 /\ start' = "Unknown"
  /\ snapshot' = NotConfigured
  /\ UNCHANGED <<github, owned, wish, calm>>

AgentStep ==
  \/ Begin
  \/ ObserveFails \/ ObserveInconsistent \/ ObserveSettled
  \/ ObserveUnowned \/ ObserveProceeds
  \/ ConfirmFails \/ ConfirmSettled \/ ConfirmProceeds
  \/ MutateRejected \/ MutateTooLate \/ MutateLost \/ MutateAcknowledged
  \/ ReadbackFails \/ ReadbackUnconfirmed \/ ReadbackConfirms

-----------------------------------------------------------------------------
\* GitHub, the runner, the user and other administrators.

Decide ==
  /\ ~calm
  /\ wish' \in DesiredStates
  /\ UNCHANGED <<github, owned, calm, agent, start>>

Disturb == start' = "Unknown"

RouteJob ==
  /\ job = "none" /\ label /\ online
  /\ job' = "routed"
  /\ UNCHANGED <<label, online, drift, late, owned, wish, calm, agent>>
  /\ Disturb

AdvanceJob ==
  /\ job # "none"
  /\ job' = CASE job = "routed" -> "assigned"
              [] job = "assigned" -> "running"
              [] job = "running" -> "ending"
              [] job = "ending" -> "none"
  /\ UNCHANGED <<label, online, drift, late, owned, wish, calm, agent>>
  /\ Disturb

\* A mutation the Agent has already given up on takes effect after all.
LandLate ==
  \E m \in late :
    /\ late' = late \ {m}
    /\ label' = (m = "add")
    /\ UNCHANGED <<job, online, drift, owned, wish, calm, agent>>
    /\ Disturb

\* Somebody else edits the labels, the registration or the Listener.
Interfere ==
  /\ ~calm
  /\ \/ label' = ~label /\ UNCHANGED <<online, drift>>
     \/ online' = ~online /\ UNCHANGED <<label, drift>>
     \/ drift' \in Drifts \cup {"none"} /\ UNCHANGED <<label, online>>
  /\ UNCHANGED <<job, late, owned, wish, calm, agent>>
  /\ Disturb

Quieten ==
  /\ drift = "none" /\ online
  /\ calm' = TRUE
  /\ UNCHANGED <<github, owned, wish, agent>>
  /\ Disturb

Next ==
  \/ AgentStep \/ Restart
  \/ Decide \/ RouteJob \/ AdvanceJob \/ LandLate \/ Interfere \/ Quieten

Spec == Init /\ [][Next]_vars

\* The Agent loop always comes round again and each request is answered or
\* times out; an accepted job ends.
FairSpec == Spec /\ WF_vars(AgentStep) /\ WF_vars(AdvanceJob)

-----------------------------------------------------------------------------
\* Properties.

\* A mutation is only ever under way for a binding that owns the selector, on
\* consistent local evidence, and after a reading that found the selector in
\* the opposite state (ADR 0004, P8 and P9): every path through reconcile,
\* advertise_capacity and withdraw_capacity has to establish all three before
\* the POST or DELETE, whatever happened in between.
MutationIsJustified ==
  pc \in {"confirm", "mutate", "readback"} =>
    /\ owned /\ cycle.consistent
    /\ cycle.selector = IF cycle.desired = "Full" THEN "Absent" ELSE "Present"

\* Each publication that counts as achieved is true of GitHub and the runner
\* at the last reading of its cycle (P2, P3, P4, P12), including one that
\* repeats an earlier claim: jobs, edits and late mutations that arrived since
\* the cycle began are all seen (a late assignment ends a DRAINED claim).
PublicationJustified ==
  [][(pc # "idle" /\ pc' = "idle") =>
       /\ AchievedFull(snapshot') => label /\ online /\ drift = "none" /\ owned
       /\ AchievedDrained(snapshot') => ~label /\ ~RunnerBusy /\ drift = "none"]_vars

\* Once the retries of a failing streak are used up, no later failure of the
\* same streak schedules another one, however long the outage lasts: the
\* counter of consecutive failures must not come round to small values again.
ExhaustedStaysExhausted ==
  [][(snapshot.reason \in Transient /\ snapshot.attempt = 0
        /\ snapshot'.reason \in Transient) => snapshot'.attempt = 0]_vars

Claim(s) ==
  IF AchievedFull(s) THEN "FULL" ELSE IF AchievedDrained(s) THEN "DRAINED" ELSE "none"

\* The controller implements the admission promise: the claims it publishes, where it
\* moves the label, and what a cycle comes to that nobody comes in between of.
Promise == INSTANCE AdmissionPromise
             WITH sound <- drift = "none", claim <- Claim(snapshot),
                  want <- IF pc = "idle" THEN "none" ELSE cycle.desired,
                  trusted <- cycle.consistent
KeepsPromise == Promise!PromiseSpec

\* Once failures and interference have stopped, an owned runner reaches and
\* keeps the capacity the policy asks for, whatever the controller was in the
\* middle of and whatever lost mutations are still to land.
CapacityConverges ==
  (calm /\ owned) ~> [](Claim(snapshot) = IF wish = "Full" THEN "FULL" ELSE "DRAINED")

=============================================================================
