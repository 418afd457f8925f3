---------------------------- MODULE AgentCoreProofs ----------------------------
(***************************************************************************)
(* Proofs about AgentCore for all sets of probes, commands, idle times and *)
(* thresholds: its types, the decision that is always current, the         *)
(* durability of what was acknowledged, and the monotonicity of the policy.*)
(***************************************************************************)
EXTENDS AgentCore, TLAPS

-----------------------------------------------------------------------------
\* The policy.

\* Whatever the evidence, the policy answers with a decision.
LEMMA DecisionType ==
  ASSUME NEW e \in Evidence
  PROVE  DecideAdmission(e) \in Decisions
  BY DEF Evidence, UserModes, SafetyStates, DecideAdmission, DecideAuto, Allowed, Denied,
         Decisions, NodeStates

\* The decision of a configuration and an observation is one of the policy's.
LEMMA DecideType ==
  ASSUME NEW c \in Configs, NEW o \in Observations
  PROVE  Decide(c, o) \in Decisions
<1> DEFINE e == [mode |-> c.mode, zen |-> c.zen, safety |-> o.safety,
                 enabled |-> c.enabled, shows |-> o.shows]
<1>1. e \in Evidence
  BY DEF Configs, Observations, Evidence
<1>2. DecideAdmission(e) \in Decisions
  BY <1>1, DecisionType
<1> QED
  BY <1>2 DEF Decide

\* Only permission asks for full capacity.
LEMMA DesiredType ==
  ASSUME NEW d \in Decisions
  PROVE  DesiredAdmission(d) \in {"Full", "Drained"}
  BY DEF DesiredAdmission

-----------------------------------------------------------------------------
\* Commands and observations.

LEMMA DefaultType == DefaultConfig \in Configs
  BY CoreAssumption DEF DefaultConfig, Configs, UserModes, ObserverThreshold

LEMMA UnobservedType == Unobserved \in Observations
  BY DEF Unobserved, Observations, SafetyStates, ProbeStates

\* What a command makes of a configuration is a configuration.
LEMMA ApplyType ==
  ASSUME NEW c \in Configs, NEW cmd \in Commands
  PROVE  Apply(c, cmd) \in Configs
<1>1. cmd \in CommandShapes
  BY CoreAssumption
<1>2. CASE cmd \in [kind: {"SetMode"}, value: UserModes]
  BY <1>2 DEF Apply, Configs
<1>3. CASE cmd \in [kind: {"SetZen"}, value: {"on", "off"}]
  BY <1>3 DEF Apply, Configs
<1>4. CASE cmd \in [kind: {"EnableProbe", "DisableProbe"}, value: Probes]
  BY <1>4 DEF Apply, Configs
<1>5. CASE cmd \in [kind: {"SetThreshold"}, value: Thresholds]
  BY <1>5 DEF Apply, Configs
<1>6. CASE cmd \in [kind: {"SetPresentation"}, value: {"light", "dark"}]
  BY <1>6 DEF Apply, Configs
<1> QED
  BY <1>1, <1>2, <1>3, <1>4, <1>5, <1>6 DEF CommandShapes

\* An observation is one, whatever the workstation and the runner are like.
LEMMA ObservedType ==
  ASSUME TypeOK
  PROVE  Observed \in Observations
<1>1. Shows \in [Probes -> ProbeStates]
  <2>1. workload \in [Probes \ {IdleProbe} -> ProbeStates]
    BY CoreAssumption DEF TypeOK
  <2> QED
    BY <2>1 DEF Shows, ShowsWith, ProbeStates
<1>2. (IF HostHealthy THEN "Clear" ELSE "Unknown") \in SafetyStates
  BY DEF SafetyStates
<1>3. (CASE ~Configured -> "Unknown"
         [] Configured /\ ~listener -> "Stopped"
         [] Configured /\ listener -> IF job THEN "Busy" ELSE "Listening")
      \in {"Stopped", "Listening", "Busy", "Unknown"}
  BY CoreAssumption DEF TypeOK
<1>4. (Configured /\ listener) \in BOOLEAN
  OBVIOUS
<1> QED
  BY <1>1, <1>2, <1>3, <1>4 DEF Observed, Observations

\* Each outcome of a cycle is a truth value on GitHub and a claim.
LEMMA OutcomesType ==
  ASSUME NEW want \in {"Full", "Drained"}, NEW l \in BOOLEAN, NEW online, NEW busy,
         NEW trusted, NEW quiet, NEW r \in Outcomes(want, l, online, busy, trusted, quiet)
  PROVE  r.label \in BOOLEAN /\ r.claim \in Claims
<1> DEFINE s == Settled(want, online, busy)
<1>1. s.label \in BOOLEAN /\ s.claim \in Claims
  BY DEF Settled, Outcome, Claims
<1>2. CASE r = s
  BY <1>1, <1>2
<1>3. CASE \E k \in {l, s.label} : r = Outcome(k, "none")
  BY <1>1, <1>3 DEF Outcome, Claims
<1> QED
  BY <1>2, <1>3 DEF Outcomes

\* A cycle leaves a truth value on GitHub and a well-formed admission snapshot.
LEMMA ReconcileType ==
  ASSUME TypeOK, NEW d \in {"Full", "Drained"}, NEW o \in Observations, Reconcile(d, o)
  PROVE  label' \in BOOLEAN /\ control' \in Controls
<1>1. PICK r \in Outcomes(d, label, listener, job, Configured /\ o.verified, calm) :
        label' = r.label /\ control' = [desired |-> d, claim |-> r.claim]
  BY DEF Reconcile
<1>2. r.label \in BOOLEAN /\ r.claim \in Claims
  BY <1>1, OutcomesType DEF TypeOK
<1> QED
  BY <1>1, <1>2 DEF Controls

\* A complete cycle leaves well-formed results behind.
LEMMA CycleType ==
  ASSUME TypeOK, Cycle
  PROVE  /\ observation' \in Observations /\ decision' \in Decisions
         /\ control' \in Controls /\ label' \in BOOLEAN
         /\ sample' \in {"none", "same-tick", "older"}
<1>1. observation' \in Observations
  BY ObservedType DEF Cycle
<1>2. decision' \in Decisions
  <2>1. config \in Configs
    BY DEF TypeOK
  <2> QED
    BY <2>1, ObservedType, DecideType DEF Cycle
<1>3. DesiredAdmission(decision') \in {"Full", "Drained"}
  BY <1>2, DesiredType
<1>4. label' \in BOOLEAN /\ control' \in Controls
  BY <1>3, ObservedType, ReconcileType DEF Cycle
<1> QED
  BY <1>1, <1>2, <1>4 DEF Cycle

-----------------------------------------------------------------------------
\* The inductive invariant.  A command in progress is one that can be applied,
\* and the file holds what its progress says: before the replacement what it
\* held, after it what the command makes of the memory, and after the update
\* what the memory holds.  Without the last three parts the file could be
\* acknowledged while holding something else.

InProgress == call # "none" => up /\ request \in Commands
Recorded ==
  /\ disk \in durable
  /\ call = "saving" => Apply(config, request) \in durable
  /\ call = "saved" => disk = Apply(config, request)
  /\ call = "updated" => disk = config

IInv == TypeOK /\ InProgress /\ DecisionIsCurrent /\ Recorded

LEMMA InitInv == Init => IInv
<1> SUFFICES ASSUME Init PROVE IInv
  OBVIOUS
<1>1. Decide(DefaultConfig, Unobserved) \in Decisions
  BY DefaultType, UnobservedType, DecideType
<1>2. TypeOK
  BY <1>1, DefaultType, UnobservedType
     DEF Init, TypeOK, Controls, NoControl, Claims
<1> QED
  BY <1>2 DEF Init, IInv, InProgress, DecisionIsCurrent, Recorded

\* What a process that is gone leaves behind is well formed.
LEMMA ForgetType ==
  ASSUME Forget
  PROVE  /\ config' \in Configs /\ observation' \in Observations
         /\ decision' \in Decisions /\ control' \in Controls
         /\ sample' = "none" /\ due' = FALSE
  BY DefaultType, UnobservedType, DecideType DEF Forget, Controls, NoControl, Claims

LEMMA StartInv == IInv /\ Start => IInv'
<1> SUFFICES ASSUME IInv, Start PROVE IInv'
  OBVIOUS
<1>1. decision' \in Decisions
  BY UnobservedType, DecideType DEF IInv, TypeOK, Start
<1>2. control' \in Controls
  BY <1>1, DesiredType DEF Start, Controls, Claims
<1>3. TypeOK'
  BY <1>1, <1>2, UnobservedType DEF IInv, TypeOK, Start, world
<1> QED
  BY <1>3 DEF IInv, Start, InProgress, DecisionIsCurrent, Recorded

LEMMA PollInv == IInv /\ Poll => IInv'
<1> SUFFICES ASSUME IInv, Poll PROVE IInv'
  OBVIOUS
<1> USE DEF IInv
<1>1. CASE Cycle /\ due' = FALSE /\ UNCHANGED <<up, config>>
  <2>1. TypeOK'
    BY <1>1, CycleType DEF TypeOK, Poll, world
  <2>2. DecisionIsCurrent'
    BY <1>1 DEF Cycle, DecisionIsCurrent
  <2> QED
    BY <1>1, <2>1, <2>2 DEF Poll, InProgress, Recorded
<1>2. CASE CycleFails /\ due' = FALSE /\ UNCHANGED <<up, config>>
  <2>1. TypeOK'
    BY <1>2 DEF TypeOK, Poll, CycleFails, world
  <2>2. DecisionIsCurrent'
    BY <1>2 DEF CycleFails, DecisionIsCurrent
  <2> QED
    BY <1>2, <2>1, <2>2 DEF Poll, InProgress, Recorded
<1>3. CASE up' = FALSE /\ Forget /\ UNCHANGED label
  <2>1. TypeOK'
    BY <1>3, ForgetType DEF TypeOK, Poll, world
  <2> QED
    BY <1>3, <2>1 DEF Poll, InProgress, DecisionIsCurrent, Recorded
<1> QED
  BY <1>1, <1>2, <1>3 DEF Poll

LEMMA ReceiveInv ==
  ASSUME NEW cmd \in Commands
  PROVE  IInv /\ Receive(cmd) => IInv'
<1> SUFFICES ASSUME IInv, Receive(cmd) PROVE IInv'
  OBVIOUS
<1>1. Apply(config, cmd) \in Configs
  BY ApplyType DEF IInv, TypeOK
<1>2. TypeOK'
  BY <1>1 DEF IInv, TypeOK, Receive, world, memory
<1> QED
  BY <1>2 DEF IInv, Receive, InProgress, DecisionIsCurrent, Recorded, memory

\* A save that fails before the replacement has done nothing, and one that
\* fails after it leaves a file that may stay.
LEMMA SaveFailsInv == IInv /\ (SaveFails \/ SaveUnverified) => IInv'
<1> SUFFICES ASSUME IInv, SaveFails \/ SaveUnverified PROVE IInv'
  OBVIOUS
<1>1. TypeOK'
  BY DEF IInv, TypeOK, SaveFails, SaveUnverified, Answer, world, memory
<1> QED
  BY <1>1 DEF IInv, SaveFails, SaveUnverified, Answer, InProgress,
              DecisionIsCurrent, Recorded, memory

LEMMA SaveReplacesInv == IInv /\ SaveReplaces => IInv'
<1> SUFFICES ASSUME IInv, SaveReplaces PROVE IInv'
  OBVIOUS
<1>1. Apply(config, request) \in Configs
  BY ApplyType DEF IInv, TypeOK, InProgress, SaveReplaces
<1>2. TypeOK'
  BY <1>1 DEF IInv, TypeOK, SaveReplaces, world, memory
<1> QED
  BY <1>2 DEF IInv, SaveReplaces, InProgress, DecisionIsCurrent, Recorded, memory

LEMMA UpdateConfigInv == IInv /\ UpdateConfig => IInv'
<1> SUFFICES ASSUME IInv, UpdateConfig PROVE IInv'
  OBVIOUS
<1>1. config' \in Configs
  BY ApplyType DEF IInv, TypeOK, InProgress, UpdateConfig
<1>2. decision' \in Decisions
  BY <1>1, DecideType DEF IInv, TypeOK, UpdateConfig
<1>3. TypeOK'
  BY <1>1, <1>2 DEF IInv, TypeOK, UpdateConfig, world
<1> QED
  BY <1>3 DEF IInv, UpdateConfig, InProgress, DecisionIsCurrent, Recorded

LEMMA AcceptInv == IInv /\ AcceptAfterReconcile => IInv'
<1> SUFFICES ASSUME IInv, AcceptAfterReconcile PROVE IInv'
  OBVIOUS
<1> USE DEF IInv
<1>1. CASE Cycle /\ Answer("accepted") /\ durable' = {config}
  <2>1. TypeOK'
    BY <1>1, CycleType DEF TypeOK, AcceptAfterReconcile, Answer, world
  <2>2. DecisionIsCurrent'
    BY <1>1 DEF AcceptAfterReconcile, Cycle, DecisionIsCurrent
  <2> QED
    BY <1>1, <2>1, <2>2 DEF AcceptAfterReconcile, Answer, InProgress, Recorded
<1>2. CASE CycleFails /\ Answer("failed") /\ durable' = durable
  <2>1. TypeOK'
    BY <1>2 DEF TypeOK, AcceptAfterReconcile, CycleFails, Answer, world
  <2>2. DecisionIsCurrent'
    BY <1>2 DEF AcceptAfterReconcile, CycleFails, DecisionIsCurrent
  <2> QED
    BY <1>2, <2>1, <2>2 DEF AcceptAfterReconcile, Answer, InProgress, Recorded
<1> QED
  BY <1>1, <1>2 DEF AcceptAfterReconcile

LEMMA CrashInv == IInv /\ Crash => IInv'
<1> SUFFICES ASSUME IInv, Crash PROVE IInv'
  OBVIOUS
<1>1. TypeOK'
  BY ForgetType DEF IInv, TypeOK, Crash, world
<1> QED
  BY <1>1 DEF IInv, Crash, InProgress, DecisionIsCurrent, Recorded

\* What leaves the core's fields and its file alone keeps the invariant.
LEMMA Untouched ==
  ASSUME IInv, TypeOK', UNCHANGED <<disk, up, call, request, memory, durable>>
  PROVE  IInv'
<1>1. /\ disk' = disk /\ up' = up /\ call' = call /\ request' = request
      /\ config' = config /\ observation' = observation /\ decision' = decision
      /\ durable' = durable
  BY DEF memory
<1>2. InProgress'
  BY <1>1 DEF IInv, InProgress
<1>3. DecisionIsCurrent'
  BY <1>1 DEF IInv, DecisionIsCurrent
<1>4. Recorded'
  BY <1>1 DEF IInv, Recorded
<1> QED
  BY <1>2, <1>3, <1>4 DEF IInv

\* Nothing outside the Agent touches its fields or its file.
LEMMA SurroundingsInv ==
  IInv /\ (Tick \/ ChangeSurroundings \/ JobStarts \/ JobEnds \/ Quieten) => IInv'
<1> SUFFICES ASSUME IInv, Tick \/ ChangeSurroundings \/ JobStarts \/ JobEnds \/ Quieten
             PROVE  IInv'
  OBVIOUS
<1>0. TypeOK
  BY DEF IInv
<1>1. CASE Tick
  <2>1. TypeOK'
    <3>1. due' \in BOOLEAN
      BY <1>0, <1>1 DEF TypeOK, Tick
    <3>2. sample' \in {"none", "same-tick", "older"}
      BY <1>0, <1>1 DEF TypeOK, Tick
    <3>3. UNCHANGED <<world, label, disk, calm, up, call, request, reply, memory, durable>>
      BY <1>1 DEF Tick
    <3> QED
      BY <1>0, <3>1, <3>2, <3>3 DEF TypeOK, world, memory
  <2> QED
    BY <1>1, <2>1, Untouched DEF Tick
<1>2. CASE ChangeSurroundings
  <2>1. TypeOK'
    <3>1. idle' \in IdleTimes /\ workload' \in Workloads
      BY <1>0, <1>2 DEF TypeOK, ChangeSurroundings
    <3>2. host' \in BOOLEAN /\ listener' \in BOOLEAN
      BY <1>0, <1>2 DEF TypeOK, ChangeSurroundings
    <3>3. job' \in BOOLEAN
      BY <1>2 DEF ChangeSurroundings
    <3>4. UNCHANGED <<due, label, disk, calm, up, call, request, reply, memory, sample,
                      durable>>
      BY <1>2 DEF ChangeSurroundings
    <3> QED
      BY <1>0, <3>1, <3>2, <3>3, <3>4 DEF TypeOK, memory
  <2> QED
    BY <1>2, <2>1, Untouched DEF ChangeSurroundings
<1>3. CASE JobStarts \/ JobEnds
  <2>1. TypeOK'
    <3>1. job' \in BOOLEAN
      BY <1>3 DEF JobStarts, JobEnds
    <3>2. UNCHANGED <<idle, workload, host, listener, due, label, disk, calm, up, call,
                      request, reply, memory, sample, durable>>
      BY <1>3 DEF JobStarts, JobEnds
    <3> QED
      BY <1>0, <3>1, <3>2 DEF TypeOK, memory
  <2> QED
    BY <1>3, <2>1, Untouched DEF JobStarts, JobEnds
<1>4. CASE Quieten
  <2>1. TypeOK'
    BY <1>0, <1>4 DEF TypeOK, Quieten, memory, world
  <2> QED
    BY <1>4, <2>1, Untouched DEF Quieten
<1> QED
  BY <1>1, <1>2, <1>3, <1>4

LEMMA StutterInv == IInv /\ UNCHANGED coreVars => IInv'
  BY DEF IInv, coreVars, world, memory, TypeOK, InProgress, DecisionIsCurrent, Recorded

LEMMA NextInv == IInv /\ [CoreNext]_coreVars => IInv'
  BY StartInv, PollInv, ReceiveInv, SaveFailsInv, SaveReplacesInv, UpdateConfigInv,
     AcceptInv, CrashInv, SurroundingsInv, StutterInv
  DEF CoreNext, CoreStep

\* Every reachable state of the core satisfies the strengthened invariant.
THEOREM InductiveInvariant == Spec => []IInv
<1>1. Init => IInv
  BY InitInv
<1>2. IInv /\ [CoreNext]_coreVars => IInv'
  BY NextInv
<1> QED
  BY <1>1, <1>2, PTL DEF Spec

\* The fields of the core, the file and the surroundings keep their types.
THEOREM TypeCorrect == Spec => []TypeOK
<1>1. IInv => TypeOK
  BY DEF IInv
<1> QED
  BY <1>1, InductiveInvariant, PTL

\* The decision in memory answers the intent and the observation in memory.
THEOREM DecisionAlwaysCurrent == Spec => []DecisionIsCurrent
<1>1. IInv => DecisionIsCurrent
  BY DEF IInv
<1> QED
  BY <1>1, InductiveInvariant, PTL

\* Acknowledged configurations survive failures, crashes and restarts.
THEOREM AcknowledgedSurvives == Spec => []AcceptedSurvives
<1>1. IInv => AcceptedSurvives
  BY DEF IInv, Recorded, AcceptedSurvives
<1> QED
  BY <1>1, InductiveInvariant, PTL

-----------------------------------------------------------------------------
\* Action properties.

\* The policy is monotone in its evidence.
LEMMA PolicyMonotone ==
  ASSUME NEW c \in Configs, NEW o1 \in Observations, NEW o2 \in Observations,
         AtLeastAsBad(o1, o2), Decide(c, o2).allow
  PROVE  Decide(c, o1).allow
<1> DEFINE Ev(o) == [mode |-> c.mode, zen |-> c.zen, safety |-> o.safety,
                     enabled |-> c.enabled, shows |-> o.shows]
<1>1. o2.safety = "Clear" /\ ~c.zen /\ c.mode \in {"Idle", "ForceCi", "Auto"}
  BY DEF Decide, DecideAdmission, Denied, DecideAuto, Configs, Observations,
         UserModes, SafetyStates
<1>2. o1.safety = "Clear"
  BY <1>1 DEF AtLeastAsBad
<1>3. CASE c.mode \in {"Idle", "ForceCi"}
  BY <1>1, <1>2, <1>3 DEF Decide, DecideAdmission, Allowed
<1>4. CASE c.mode = "Auto"
  <2>1. AutoPermits(Ev(o2))
    BY <1>1, <1>4 DEF Decide, DecideAdmission, DecideAuto, Denied
  <2>2. \A p \in Probes : o1.shows[p] \in ProbeStates /\ o2.shows[p] \in ProbeStates
    BY DEF Observations
  <2>3. \A p \in Probes : Rank(o1.shows[p]) <= Rank(o2.shows[p])
    BY DEF AtLeastAsBad
  <2>4. \A p \in Probes : o2.shows[p] \in {"Inactive", "Unavailable"}
                            => o1.shows[p] \in {"Inactive", "Unavailable"}
    BY <2>2, <2>3 DEF Rank, ProbeStates
  <2>5. \A p \in Probes : o2.shows[p] = "Inactive" => o1.shows[p] = "Inactive"
    BY <2>2, <2>3 DEF Rank, ProbeStates
  <2>6. AutoPermits(Ev(o1))
    BY <2>1, <2>4, <2>5, CoreAssumption DEF AutoPermits, Enabled
  <2> QED
    BY <1>1, <1>2, <1>4, <2>6 DEF Decide, DecideAdmission, DecideAuto, Allowed
<1> QED
  BY <1>1, <1>3, <1>4

\* No chain of steps turns worse evidence into a permission: the decisions
\* before and after are both the monotone policy's.
THEOREM PermissionIsMonotone == Spec => WorseEvidenceNeverOpens
<1>1. IInv /\ IInv' /\ [CoreNext]_coreVars
      => [(up /\ up' /\ config' = config /\ AtLeastAsBad(observation, observation')
             /\ ~decision.allow) => ~decision'.allow]_coreVars
  <2> SUFFICES ASSUME IInv, IInv', up, up', config' = config,
                      AtLeastAsBad(observation, observation'), decision'.allow
               PROVE  decision.allow
    OBVIOUS
  <2>1. decision = Decide(config, observation)
    BY DEF IInv, DecisionIsCurrent
  <2>2. decision' = Decide(config, observation')
    BY DEF IInv, DecisionIsCurrent
  <2>3. config \in Configs /\ observation \in Observations /\ observation' \in Observations
    BY DEF IInv, TypeOK
  <2> QED
    BY <2>1, <2>2, <2>3, PolicyMonotone
<1> QED
  BY <1>1, InductiveInvariant, PTL DEF Spec, WorseEvidenceNeverOpens

\* A cycle that puts the label on has decided to, on what it has just seen.
LEMMA CycleOpens ==
  ASSUME IInv, Cycle, ~label, label'
  PROVE  Decide(config, Observed).allow /\ Observed.safety = "Clear" /\ Observed.verified
<1> DEFINE want == DesiredAdmission(decision')
           s == Settled(want, listener, job)
<1>1. PICK r \in Outcomes(want, label, listener, job, Configured /\ Observed.verified, calm) :
        label' = r.label
  BY DEF Cycle, Reconcile
<1>2. \A l : Outcome(l, "none").label = l
  BY DEF Outcome
<1>0. r # Outcome(label, "none")
  <2> SUFFICES ASSUME r = Outcome(label, "none") PROVE FALSE
    OBVIOUS
  <2>1. r.label = label
    BY <1>2
  <2> QED
    BY <1>1, <2>1
<1>3. Observed.verified /\ r \in {s} \cup {Outcome(l, "none") : l \in {label, s.label}}
  BY <1>1, <1>0 DEF Outcomes
<1>4. s.label
  <2>1. CASE r = s
    BY <1>1, <2>1
  <2>2. CASE \E l \in {label, s.label} : r = Outcome(l, "none")
    <3>1. PICK l \in {label, s.label} : r = Outcome(l, "none")
      BY <2>2
    <3>2. l = s.label
      BY <1>0, <3>1
    <3>3. r.label = s.label
      BY <1>2, <3>1, <3>2
    <3> QED
      BY <1>1, <3>3, Zenon
  <2> QED
    BY <1>3, <2>1, <2>2
<1>5. want = "Full"
  BY <1>4 DEF Settled, Outcome
<1>6. decision'.allow
  BY <1>5 DEF DesiredAdmission
<1>7. Decide(config, Observed).allow
  BY <1>6 DEF Cycle
<1>8. Observed.safety = "Clear"
  BY <1>7 DEF Decide, DecideAdmission, Denied
<1> QED
  BY <1>3, <1>7, <1>8

\* The label is put on only by a cycle of a running Agent whose own fresh
\* observation permits new work.
THEOREM OpensOnlyOnFreshEvidence == Spec => OpensOnFreshEvidence
<1>1. IInv /\ [CoreNext]_coreVars
      => [(~label /\ label') =>
            /\ up /\ Decide(config, Observed).allow
            /\ Observed.safety = "Clear" /\ Observed.verified]_coreVars
  <2> SUFFICES ASSUME IInv, CoreNext, ~label, label'
               PROVE  /\ up /\ Decide(config, Observed).allow
                      /\ Observed.safety = "Clear" /\ Observed.verified
    BY DEF coreVars
  <2>1. CASE Poll
    <3>1. up /\ Cycle
      BY <2>1 DEF Poll, CycleFails
    <3> QED
      BY <3>1, CycleOpens
  <2>2. CASE AcceptAfterReconcile
    <3>1. Cycle /\ call = "updated"
      BY <2>2 DEF AcceptAfterReconcile, CycleFails
    <3>2. up
      BY <3>1 DEF IInv, InProgress
    <3> QED
      BY <3>1, <3>2, CycleOpens
  <2>3. ~(Start \/ SaveFails \/ SaveReplaces \/ SaveUnverified \/ UpdateConfig)
    BY DEF Start, SaveFails, SaveReplaces, SaveUnverified, UpdateConfig
  <2>4. ~((\E cmd \in Commands : Receive(cmd)) \/ Crash)
    BY DEF Receive, Crash
  <2>5. ~(Tick \/ ChangeSurroundings \/ JobStarts \/ JobEnds \/ Quieten)
    BY DEF Tick, ChangeSurroundings, JobStarts, JobEnds, Quieten
  <2> QED
    BY <2>1, <2>2, <2>3, <2>4, <2>5 DEF CoreNext, CoreStep
<1> QED
  BY <1>1, InductiveInvariant, PTL DEF Spec, OpensOnFreshEvidence

-----------------------------------------------------------------------------
\* The core as seen from outside.

\* The user's refusal stands whatever the evidence shows.
LEMMA ClosedDenies ==
  ASSUME NEW c \in Configs, NEW o \in Observations, Closed(c)
  PROVE  DesiredAdmission(Decide(c, o)) = "Drained"
<1>1. o.safety # "Clear" \/ (o.safety = "Clear" /\ c.zen)
        \/ (o.safety = "Clear" /\ ~c.zen /\ c.mode \in {"Work", "Gaming", "Maintenance"})
  BY DEF Closed
<1>2. CASE o.safety # "Clear"
  BY <1>2 DEF Decide, DecideAdmission, Denied, DesiredAdmission
<1>3. CASE o.safety = "Clear" /\ c.zen
  BY <1>3 DEF Decide, DecideAdmission, Denied, DesiredAdmission
<1>4. CASE o.safety = "Clear" /\ ~c.zen /\ c.mode \in {"Work", "Gaming", "Maintenance"}
  BY <1>4 DEF Decide, DecideAdmission, Denied, DesiredAdmission
<1> QED
  BY <1>1, <1>2, <1>3, <1>4

LEMMA IntentSeen == SeenIntent \in View!Intents /\ SeenIntent' \in View!Intents
  BY DEF SeenIntent, View!Intents

\* The cycle of the core asks only for what the intent permits, and leaves what
\* the view's cycle may leave.
LEMMA CycleSeen ==
  ASSUME TypeOK, Cycle
  PROVE  View!Cycle(SeenIntent)
<1> DEFINE want == DesiredAdmission(decision')
<1>1. PICK r \in Outcomes(want, label, listener, job, Configured /\ Observed.verified, calm) :
        label' = r.label /\ control' = [desired |-> want, claim |-> r.claim]
  BY DEF Cycle, Reconcile
<1>2. config \in Configs /\ Observed \in Observations /\ decision' = Decide(config, Observed)
  BY ObservedType DEF TypeOK, Cycle
<1>3. want \in View!Permitted(SeenIntent)
  <2>1. CASE Closed(config)
    <3>1. want = "Drained"
      BY <1>2, <2>1, ClosedDenies
    <3> QED
      BY <2>1, <3>1 DEF SeenIntent, View!Permitted
  <2>2. CASE ~Closed(config)
    <3>1. want \in {"Full", "Drained"}
      BY <1>2, DecideType, DesiredType
    <3> QED
      BY <2>2, <3>1 DEF SeenIntent, View!Permitted
  <2> QED
    BY <2>1, <2>2
<1>4. (Configured /\ Observed.verified) = (Configured /\ listener)
  <2>1. Observed.verified = (Configured /\ listener)
    BY DEF Observed
  <2> QED
    BY <2>1
<1>5. r \in View!Outcomes(want, label, listener, job, Configured /\ listener, calm)
  BY <1>1, <1>4 DEF Outcomes, View!Outcomes, Settled, View!Settled, Outcome, View!Outcome
<1>6. label' = r.label /\ control'.claim = r.claim
  BY <1>1
<1> QED
  BY <1>3, <1>5, <1>6 DEF View!Cycle

\* A cycle that leaves the intent alone is a poll to whoever sees the core from
\* outside, also when it ends a command.
LEMMA PollSeen ==
  ASSUME TypeOK, Cycle, UNCHANGED <<config, world, calm>>
  PROVE  View!PollCore
<1>1. View!Cycle(SeenIntent)
  BY CycleSeen
<1>2. SeenIntent' = SeenIntent
  BY DEF SeenIntent
<1> QED
  BY <1>1, <1>2 DEF View!PollCore, View!runner, world

\* What the core's view does not show.
LEMMA HiddenStep ==
  ASSUME UNCHANGED <<label, control, config, listener, job, calm>>
  PROVE  UNCHANGED View!viewVars
<1>1. SeenIntent' = SeenIntent /\ control'.claim = control.claim
  BY DEF SeenIntent
<1> QED
  BY <1>1 DEF View!viewVars, View!runner, View!core

\* A process that ends or begins.
LEMMA RestartSeen ==
  ASSUME UNCHANGED <<label, listener, job, calm>>, control'.claim = "none"
  PROVE  View!RestartCore
  BY IntentSeen DEF View!RestartCore, View!runner

\* Only a Listener's Worker runs a job.
Hosted == job => listener

LEMMA HostedStep == Hosted /\ [CoreNext]_coreVars => Hosted'
<1> SUFFICES ASSUME Hosted, [CoreNext]_coreVars PROVE Hosted'
  OBVIOUS
<1>1. CASE UNCHANGED world \/ UNCHANGED coreVars
  BY <1>1 DEF Hosted, world, coreVars
<1>2. CASE ChangeSurroundings \/ JobStarts \/ JobEnds
  BY <1>2 DEF Hosted, ChangeSurroundings, JobStarts, JobEnds
<1>3. CoreStep \/ (\E cmd \in Commands : Receive(cmd)) \/ Crash \/ Tick \/ Quieten
        => UNCHANGED world
  BY DEF CoreStep, Start, Poll, SaveFails, SaveReplaces, SaveUnverified, UpdateConfig,
         AcceptAfterReconcile, Receive, Crash, Tick, Quieten
<1> QED
  BY <1>1, <1>2, <1>3 DEF CoreNext

\* Every step of the core is a step of its view, or hidden.
LEMMA StepSeen ==
  ASSUME IInv, Hosted, [CoreNext]_coreVars
  PROVE  [View!ViewNext]_View!viewVars
<1> USE DEF IInv
<1>1. CASE Start \/ Crash
  <2>1. control'.claim = "none"
    BY <1>1 DEF Start, Crash, Forget, NoControl
  <2>2. View!RestartCore
    BY <1>1, <2>1, RestartSeen DEF Start, Crash, world
  <2> QED
    BY <2>2 DEF View!ViewNext
<1>2. CASE Poll
  <2>1. CASE Cycle /\ due' = FALSE /\ UNCHANGED <<up, config>>
    <3>1. View!PollCore
      BY <1>2, <2>1, PollSeen DEF Poll
    <3> QED
      BY <3>1 DEF View!ViewNext
  <2>2. CASE CycleFails /\ due' = FALSE /\ UNCHANGED <<up, config>>
    BY <1>2, <2>2, HiddenStep DEF Poll, CycleFails, world
  <2>3. CASE up' = FALSE /\ Forget /\ UNCHANGED label
    <3>1. View!RestartCore
      BY <1>2, <2>3, RestartSeen DEF Poll, Forget, NoControl, world
    <3> QED
      BY <3>1 DEF View!ViewNext
  <2> QED
    BY <1>2, <2>1, <2>2, <2>3 DEF Poll
<1>3. CASE (\E cmd \in Commands : Receive(cmd)) \/ SaveFails \/ SaveReplaces \/ SaveUnverified \/ Tick
  BY <1>3, HiddenStep
     DEF Receive, SaveFails, SaveReplaces, SaveUnverified, Tick, memory, world
<1>4. CASE UpdateConfig
  <2>1. View!HandleCommand
    BY <1>4, IntentSeen DEF UpdateConfig, world, View!HandleCommand, View!runner
  <2> QED
    BY <2>1 DEF View!ViewNext
<1>5. CASE AcceptAfterReconcile
  <2>1. CASE Cycle
    <3>1. View!PollCore
      BY <1>5, <2>1, PollSeen DEF AcceptAfterReconcile
    <3> QED
      BY <3>1 DEF View!ViewNext
  <2>2. CASE CycleFails
    BY <1>5, <2>2, HiddenStep DEF AcceptAfterReconcile, CycleFails, world
  <2> QED
    BY <1>5, <2>1, <2>2 DEF AcceptAfterReconcile
<1>6. CASE ChangeSurroundings
  <2>1. UNCHANGED <<label, control, config, calm>> /\ job' = (job /\ listener')
        /\ ~calm
    BY <1>6 DEF ChangeSurroundings, memory
  <2>2. SeenIntent' = SeenIntent
    BY <2>1 DEF SeenIntent
  <2>3. CASE listener' = ~listener
    <3>1. View!ChangeListener
      BY <2>1, <2>2, <2>3 DEF View!ChangeListener, View!core
    <3> QED
      BY <3>1 DEF View!ViewNext
  <2>4. CASE listener' = listener
    <3>1. job' = job
      BY <2>1, <2>4 DEF Hosted, TypeOK
    <3> QED
      BY <2>1, <2>4, <3>1, HiddenStep
  <2> QED
    BY <1>6, <2>3, <2>4 DEF ChangeSurroundings
<1>7. CASE JobStarts \/ JobEnds
  <2>1. SeenIntent' = SeenIntent
    BY <1>7 DEF JobStarts, JobEnds, memory, SeenIntent
  <2>2. View!StartJob \/ View!EndJob
    BY <1>7, <2>1 DEF JobStarts, JobEnds, memory, View!StartJob, View!EndJob, View!core
  <2> QED
    BY <2>2 DEF View!ViewNext
<1>8. CASE Quieten
  <2>1. SeenIntent' = SeenIntent
    BY <1>8 DEF Quieten, memory, SeenIntent
  <2>2. View!CalmDown
    BY <1>8, <2>1 DEF Quieten, memory, world, View!CalmDown, View!core
  <2> QED
    BY <2>2 DEF View!ViewNext
<1>9. CASE UNCHANGED coreVars
  BY <1>9, HiddenStep DEF coreVars, memory, world
<1> QED
  BY <1>1, <1>2, <1>3, <1>4, <1>5, <1>6, <1>7, <1>8, <1>9 DEF CoreNext, CoreStep

\* The core, with its file, its failures and its restarts, implements what its
\* callers are told of it.
THEOREM ImplementsView == Spec => KeepsView
<1>1. Init => View!ViewInit /\ Hosted
  <2> SUFFICES ASSUME Init PROVE View!ViewInit /\ Hosted
    OBVIOUS
  <2>1. label \in BOOLEAN /\ listener \in BOOLEAN /\ job = FALSE /\ calm \in BOOLEAN
    BY DEF Init
  <2>2. control.claim = "none"
    BY DEF Init, NoControl
  <2>3. Configured \in BOOLEAN
    BY CoreAssumption
  <2> QED
    BY <2>1, <2>2, <2>3, IntentSeen DEF Hosted, View!ViewInit
<1>2. IInv /\ Hosted /\ [CoreNext]_coreVars => [View!ViewNext]_View!viewVars
  BY StepSeen
<1> QED
  BY <1>1, <1>2, HostedStep, InductiveInvariant, PTL DEF Spec, KeepsView, View!ViewSpec
=================================================================================
