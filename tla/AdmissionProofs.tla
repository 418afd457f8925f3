---------------------------- MODULE AdmissionProofs ----------------------------
(***************************************************************************)
(* Safety of Admission for every retry policy, every set of faults and     *)
(* every kind of drift.                                                    *)
(***************************************************************************)
EXTENDS Admission, TLAPS

\* The delay of a retry never exceeds the cap of the policy.
LEMMA RetryDelayBounded ==
  ASSUME TypeOK, NEW e \in BackendErrors
  PROVE  RetryDelays(e) \subseteq 0..MaximumDelay
<1>1. \A s \in Nat : Capped(s) \in 0..MaximumDelay
  BY RetryAssumption DEF Capped
<1>2. CASE ~Retries(e)
  BY <1>2, RetryAssumption DEF RetryDelays
<1>3. CASE Retries(e) /\ e = "RateLimited"
  BY <1>1, <1>3, RetryAssumption DEF RetryDelays
<1>4. CASE Retries(e) /\ e # "RateLimited"
  <2>1. FailuresAfter(e) \in 1..MaxAttempts
    BY <1>4, RetryAssumption DEF Retries, FailuresAfter, TypeOK
  <2>2. BaseDelay * 2^(FailuresAfter(e) - 1) \in Nat
    BY <2>1, RetryAssumption
  <2>3. QED BY <1>1, <1>4, <2>2 DEF RetryDelays
<1>5. QED BY <1>2, <1>3, <1>4

\* Every error a reading can end in is a backend error.
LEMMA ReadErrorsTyped ==
  ASSUME TypeOK
  PROVE  ReadErrors \subseteq BackendErrors
BY FaultAssumption DEF ReadErrors, ReadSucceeds, ReadingError, TypeOK,
     BackendErrors, TransportFaults, DriftErrors

\* The failure counter stays within its width.
LEMMA FailuresTyped ==
  ASSUME TypeOK, NEW e
  PROVE  FailuresAfter(e) \in 0..FailureCeiling
BY RetryAssumption DEF FailuresAfter, TypeOK

\* The snapshot of a failed reading is well-formed.
LEMMA FailedSnapshotTyped ==
  ASSUME TypeOK, NEW e \in BackendErrors, NEW delay \in RetryDelays(e)
  PROVE  FailedSnapshot(e, delay) \in Snapshots
<1>1. delay \in 0..MaximumDelay
  BY RetryDelayBounded
<1>2. (IF Retries(e) THEN FailuresAfter(e) ELSE 0) \in 0..MaxAttempts
  BY FailuresTyped, RetryAssumption DEF Retries
<1>3. e \in Reasons
  BY DEF Reasons
<1>4. cycle.desired \in DesiredStates /\ cycle.busy \in BOOLEAN
  BY DEF TypeOK, Cycles
<1>5. QED BY <1>1, <1>2, <1>3, <1>4
       DEF FailedSnapshot, Snapshots, Lifecycles, SelectorStates, EvidenceStates

\* A failed cycle publishes a well-formed snapshot and returns to idle.
LEMMA FailTyped ==
  ASSUME TypeOK, NEW e \in BackendErrors, Fail(e)
  PROVE  /\ snapshot' \in Snapshots /\ failures' \in 0..FailureCeiling
         /\ pc' = "idle" /\ cycle' = NoCycle /\ start' = "Unknown"
BY FailedSnapshotTyped, FailuresTyped DEF Fail, Publish

\* So does a cycle that fails after its first reading.
LEMMA FailAfterTyped ==
  ASSUME TypeOK, NEW e \in BackendErrors, NEW sel \in SelectorStates,
         NEW busy \in BOOLEAN, FailAfter(e, sel, busy)
  PROVE  /\ snapshot' \in Snapshots /\ failures' \in 0..FailureCeiling
         /\ pc' = "idle" /\ cycle' = NoCycle /\ start' = "Unknown"
<1>1. PICK delay \in RetryDelays(e) :
        Publish(FailedAfterSnapshot(e, delay, sel, busy), FailuresAfter(e))
  BY DEF FailAfter
<1> DEFINE worker == cycle.busy \/ busy
           base == [FailedSnapshot(e, delay) EXCEPT !.selector = sel, !.worker = worker]
<1>2. worker \in BOOLEAN
  BY DEF TypeOK, Cycles
<1>3. base \in Snapshots
  BY <1>2, FailedSnapshotTyped DEF Snapshots
<1>4. [base EXCEPT !.identity = "Verified", !.ownership = "Verified"] \in Snapshots
  <2> HIDE DEF base
  <2> QED BY <1>3 DEF Snapshots, EvidenceStates
<1>5. FailedAfterSnapshot(e, delay, sel, busy) \in Snapshots
  BY <1>3, <1>4 DEF FailedAfterSnapshot
<1>6. QED BY <1>1, <1>5, FailuresTyped DEF Publish

\* Both snapshots of a successful reading are well-formed.
LEMMA ReadingSnapshotsTyped ==
  ASSUME TypeOK
  PROVE  SettledSnapshot \in Snapshots /\ InconsistentSnapshot \in Snapshots
<1>1. cycle.desired \in DesiredStates /\ cycle.busy \in BOOLEAN
  BY DEF TypeOK, Cycles
<1>2. Selector \in SelectorStates /\ RunnerBusy \in BOOLEAN
  BY DEF Selector, RunnerBusy, SelectorStates
<1>3. 0 \in 0..MaxAttempts /\ 0 \in 0..MaximumDelay
  BY RetryAssumption
<1>4. SettledSnapshot \in Snapshots
  <2>1. SettledLifecycle(cycle.desired, cycle.busy \/ RunnerBusy) \in Lifecycles
    BY <1>1 DEF SettledLifecycle, Lifecycles, TypeOK, DesiredStates
  <2>2. SettledReason(SettledLifecycle(cycle.desired, cycle.busy \/ RunnerBusy)) \in Reasons
    BY <2>1 DEF SettledReason, Reasons
  <2>3. QED BY <1>1, <1>2, <1>3, <2>1, <2>2 DEF SettledSnapshot, Snapshots, EvidenceStates
<1>5. InconsistentSnapshot \in Snapshots
  BY <1>1, <1>2, <1>3 DEF InconsistentSnapshot, Snapshots, EvidenceStates, Lifecycles, Reasons
<1>6. QED BY <1>4, <1>5

\* Sampling and finishing a cycle keep its record well-formed.
LEMMA NoCycleTyped == NoCycle \in Cycles
BY DEF NoCycle, Cycles, DesiredStates, SelectorStates

-----------------------------------------------------------------------------
(***************************************************************************)
(* The inductive invariant: types, what a mutation under way rests on, and *)
(* how the published snapshot is tied to the failure counter.  The last    *)
(* part is what ExhaustedStaysExhausted needs: an exhausted snapshot means *)
(* that the counter has passed MaxAttempts and, saturating, stays there.   *)
(***************************************************************************)
StreakMatches ==
  snapshot.reason \in Transient =>
    /\ failures >= 1
    /\ snapshot.attempt = 0 => failures > MaxAttempts

IInv == TypeOK /\ MutationIsJustified /\ StreakMatches

LEMMA InitIInv == Init => IInv
<1> SUFFICES ASSUME Init PROVE IInv
  OBVIOUS
<1>1. NotConfigured \in Snapshots
  BY RetryAssumption DEF NotConfigured, Snapshots, DesiredStates, Lifecycles,
       SelectorStates, EvidenceStates, Reasons
<1>2. TypeOK
  <2>1. job \in JobStates /\ late \subseteq Mutations /\ wish \in DesiredStates
    BY DEF Init, JobStates, DesiredStates
  <2>2. failures \in 0..FailureCeiling
    BY RetryAssumption DEF Init
  <2>3. calm \in BOOLEAN
    BY DEF Init
  <2>4. QED BY <1>1, <2>1, <2>2, <2>3, NoCycleTyped DEF Init, TypeOK, SelectorStates
<1>3. MutationIsJustified /\ StreakMatches
  BY DEF Init, MutationIsJustified, StreakMatches, NotConfigured, Transient
<1>4. QED BY <1>2, <1>3 DEF IInv

\* The four ways a cycle can end.
LEMMA EndOfCycle ==
  ASSUME TypeOK
  PROVE  /\ \A e \in BackendErrors : Fail(e) =>
              /\ snapshot' \in Snapshots /\ failures' \in 0..FailureCeiling
              /\ pc' = "idle" /\ cycle' = NoCycle /\ start' = "Unknown"
         /\ \A e \in BackendErrors : \A sel \in SelectorStates : \A busy \in BOOLEAN :
              FailAfter(e, sel, busy) =>
                /\ snapshot' \in Snapshots /\ failures' \in 0..FailureCeiling
                /\ pc' = "idle" /\ cycle' = NoCycle /\ start' = "Unknown"
         /\ Publish(SettledSnapshot, 0) \/ Publish(InconsistentSnapshot, 0) =>
              /\ snapshot' \in Snapshots /\ failures' \in 0..FailureCeiling
              /\ pc' = "idle" /\ cycle' = NoCycle /\ start' = "Unknown"
<1>1. 0 \in 0..FailureCeiling
  BY RetryAssumption
<1>2. QED BY <1>1, FailTyped, FailAfterTyped, ReadingSnapshotsTyped DEF Publish

\* The streak relation after each way a cycle can end.
LEMMA EndOfCycleStreak ==
  ASSUME TypeOK
  PROVE  /\ \A e \in BackendErrors : Fail(e) => StreakMatches'
         /\ \A e \in BackendErrors : \A sel \in SelectorStates : \A busy \in BOOLEAN :
              FailAfter(e, sel, busy) => StreakMatches'
         /\ Publish(SettledSnapshot, 0) \/ Publish(InconsistentSnapshot, 0) =>
              StreakMatches'
<1>1. \A e \in Transient : /\ FailuresAfter(e) \in 1..FailureCeiling
                           /\ ~Retries(e) => FailuresAfter(e) > MaxAttempts
  BY RetryAssumption DEF FailuresAfter, Retries, TypeOK
<1>2. ASSUME NEW e \in BackendErrors, NEW s, Publish(s, FailuresAfter(e)),
             s.reason = e, s.attempt = IF Retries(e) THEN FailuresAfter(e) ELSE 0
      PROVE  StreakMatches'
  BY <1>1, <1>2, RetryAssumption DEF StreakMatches, Publish
<1>3. \A e \in BackendErrors : Fail(e) => StreakMatches'
  BY <1>2 DEF Fail, FailedSnapshot
<1>4. ASSUME NEW e \in BackendErrors, NEW sel \in SelectorStates, NEW busy \in BOOLEAN,
             FailAfter(e, sel, busy)
      PROVE  StreakMatches'
  <2>1. PICK delay \in RetryDelays(e) :
          Publish(FailedAfterSnapshot(e, delay, sel, busy), FailuresAfter(e))
    BY <1>4 DEF FailAfter
  <2> DEFINE s == FailedAfterSnapshot(e, delay, sel, busy)
  <2>2. s.reason = e /\ s.attempt = IF Retries(e) THEN FailuresAfter(e) ELSE 0
    BY DEF FailedAfterSnapshot, FailedSnapshot
  <2>3. QED BY <1>2, <2>1, <2>2
<1>5. Publish(SettledSnapshot, 0) \/ Publish(InconsistentSnapshot, 0) => StreakMatches'
  <2>1. SettledSnapshot.reason \notin Transient
    BY DEF SettledSnapshot, SettledReason, Transient
  <2>2. InconsistentSnapshot.reason \notin Transient
    BY DEF InconsistentSnapshot, Transient
  <2>3. QED BY <2>1, <2>2 DEF StreakMatches, Publish
<1>6. QED BY <1>3, <1>4, <1>5

\* Every way a reading or a mutation can fail is a backend error.
LEMMA ErrorsTyped ==
  ASSUME TypeOK
  PROVE  /\ ReadErrors \subseteq BackendErrors /\ MutateErrors \subseteq BackendErrors
         /\ {"ReservedLabelOwnershipDrift", "RunnerNotFound",
             "MutationReadbackUnconfirmed"} \subseteq BackendErrors
         /\ Selector \in SelectorStates /\ RunnerBusy \in BOOLEAN
         /\ cycle.selector \in SelectorStates /\ cycle.seenBusy \in BOOLEAN
<1>1. MutateErrors \subseteq BackendErrors
  BY FaultAssumption DEF MutateErrors, BackendErrors
<1>2. {"ReservedLabelOwnershipDrift", "RunnerNotFound",
       "MutationReadbackUnconfirmed"} \subseteq BackendErrors
  BY DEF BackendErrors, TransportFaults, DriftErrors
<1>3. Selector \in SelectorStates /\ RunnerBusy \in BOOLEAN
  BY DEF Selector, RunnerBusy, SelectorStates
<1>4. QED BY <1>1, <1>2, <1>3, ReadErrorsTyped DEF TypeOK, Cycles

\* The actions that end a cycle without touching GitHub.
Ending ==
  \/ ObserveFails \/ ObserveInconsistent \/ ObserveSettled \/ ObserveUnowned
  \/ ConfirmFails \/ ConfirmSettled
  \/ MutateRejected \/ MutateTooLate
  \/ ReadbackFails \/ ReadbackUnconfirmed \/ ReadbackConfirms

\* What ending a cycle does to the variables of the Agent, mutations included.
LEMMA EndingPublishes ==
  ASSUME TypeOK, Ending \/ MutateLost
  PROVE  /\ snapshot' \in Snapshots /\ failures' \in 0..FailureCeiling
         /\ pc' = "idle" /\ cycle' = NoCycle /\ start' = "Unknown" /\ StreakMatches'
<1>1. CASE ObserveFails
  BY <1>1, EndOfCycle, EndOfCycleStreak, ErrorsTyped DEF ObserveFails
<1>2. CASE ObserveInconsistent
  BY <1>2, EndOfCycle, EndOfCycleStreak DEF ObserveInconsistent
<1>3. CASE ObserveSettled \/ ConfirmSettled \/ ReadbackConfirms
  BY <1>3, EndOfCycle, EndOfCycleStreak
     DEF ObserveSettled, ConfirmSettled, ReadbackConfirms
<1>4. CASE ObserveUnowned
  BY <1>4, EndOfCycle, EndOfCycleStreak, ErrorsTyped DEF ObserveUnowned
<1>5. CASE ConfirmFails \/ ReadbackFails
  BY <1>5, EndOfCycle, EndOfCycleStreak, ErrorsTyped DEF ConfirmFails, ReadbackFails
<1>6. CASE MutateRejected \/ MutateTooLate
  BY <1>6, EndOfCycle, EndOfCycleStreak, ErrorsTyped DEF MutateRejected, MutateTooLate
<1>7. CASE ReadbackUnconfirmed
  BY <1>7, EndOfCycle, EndOfCycleStreak, ErrorsTyped DEF ReadbackUnconfirmed
<1>8. CASE MutateLost
  BY <1>8, EndOfCycle, EndOfCycleStreak, ErrorsTyped DEF MutateLost
<1>9. QED BY <1>1, <1>2, <1>3, <1>4, <1>5, <1>6, <1>7, <1>8 DEF Ending

\* Those actions, all but the lost mutation, leave the rest alone.
LEMMA EndingFrame ==
  ASSUME Ending
  PROVE  UNCHANGED <<github, owned, wish, calm>>
BY DEF Ending, ObserveFails, ObserveInconsistent, ObserveSettled, ObserveUnowned,
     ConfirmFails, ConfirmSettled, MutateRejected, MutateTooLate,
     ReadbackFails, ReadbackUnconfirmed, ReadbackConfirms

LEMMA StepIInv == IInv /\ [Next]_vars => IInv'
<1> SUFFICES ASSUME IInv, [Next]_vars PROVE IInv'
  OBVIOUS
<1> USE DEF IInv
<1>1. CASE Begin
  <2>1. cycle' \in Cycles
    BY <1>1, NoCycleTyped DEF Begin, Cycles, TypeOK, Running
  <2>2. QED BY <1>1, <2>1, ErrorsTyped
         DEF Begin, TypeOK, MutationIsJustified, StreakMatches, github
<1>2. CASE Ending
  <2>1. TypeOK'
    BY <1>2, EndingPublishes, EndingFrame, NoCycleTyped DEF TypeOK, github, SelectorStates
  <2>2. MutationIsJustified'
    BY <1>2, EndingPublishes DEF MutationIsJustified
  <2>3. QED BY <1>2, <2>1, <2>2, EndingPublishes
<1>3. CASE MutateLost
  <2>1. label' \in BOOLEAN /\ late' \subseteq Mutations
    BY <1>3 DEF MutateLost, TypeOK, Mutation, Mutations
  <2>2. TypeOK'
    BY <1>3, <2>1, EndingPublishes, NoCycleTyped DEF TypeOK, MutateLost, SelectorStates
  <2>3. MutationIsJustified'
    BY <1>3, EndingPublishes DEF MutationIsJustified
  <2>4. QED BY <1>3, <2>2, <2>3, EndingPublishes
<1>4. CASE ObserveProceeds
  <2>1. cycle' \in Cycles
    BY <1>4, ErrorsTyped DEF ObserveProceeds, Cycles, TypeOK
  <2>2. MutationIsJustified'
    <3>1. cycle.desired \in DesiredStates
      BY DEF TypeOK, Cycles
    <3>2. Selector = IF cycle.desired = "Full" THEN "Absent" ELSE "Present"
      BY <1>4, <3>1 DEF ObserveProceeds, Wanted, Selector, DesiredStates
    <3>3. /\ cycle'.selector = Selector /\ cycle'.desired = cycle.desired
          /\ cycle'.consistent = cycle.consistent
      BY <1>4 DEF ObserveProceeds, TypeOK, Cycles
    <3>4. QED BY <1>4, <3>2, <3>3 DEF ObserveProceeds, MutationIsJustified
  <2>3. QED BY <1>4, <2>1, <2>2 DEF ObserveProceeds, TypeOK, StreakMatches, github
<1>5. CASE ConfirmProceeds
  BY <1>5 DEF ConfirmProceeds, TypeOK, MutationIsJustified, StreakMatches, github
<1>6. CASE MutateAcknowledged
  <2>1. label' \in BOOLEAN /\ late' \subseteq Mutations
    BY <1>6 DEF MutateAcknowledged, TypeOK, Mutation, Mutations
  <2>2. QED BY <1>6, <2>1
         DEF MutateAcknowledged, TypeOK, MutationIsJustified, StreakMatches
<1>7. CASE Restart
  BY <1>7, NoCycleTyped, RetryAssumption
     DEF Restart, TypeOK, MutationIsJustified, StreakMatches, github, NotConfigured,
         Transient, Snapshots, DesiredStates, Lifecycles, SelectorStates,
         EvidenceStates, Reasons
<1>8. CASE Decide
  BY <1>8 DEF Decide, TypeOK, MutationIsJustified, StreakMatches, github, agent
<1>9. CASE RouteJob
  BY <1>9 DEF RouteJob, Disturb, SelectorStates, TypeOK, MutationIsJustified, StreakMatches, agent, JobStates
<1>10. CASE AdvanceJob
  BY <1>10 DEF AdvanceJob, Disturb, SelectorStates, TypeOK, MutationIsJustified, StreakMatches, agent, JobStates
<1>11. CASE LandLate
  BY <1>11 DEF LandLate, Disturb, SelectorStates, TypeOK, MutationIsJustified, StreakMatches, agent
<1>12. CASE Interfere
  BY <1>12 DEF Interfere, Disturb, SelectorStates, TypeOK, MutationIsJustified, StreakMatches, agent
<1>13. CASE Quieten
  BY <1>13 DEF Quieten, Disturb, SelectorStates, TypeOK, MutationIsJustified, StreakMatches, agent, github
<1>14. CASE UNCHANGED vars
  BY <1>14 DEF vars, github, agent, TypeOK, MutationIsJustified, StreakMatches
<1>15. QED
  BY <1>1, <1>2, <1>3, <1>4, <1>5, <1>6, <1>7, <1>8, <1>9, <1>10, <1>11, <1>12,
     <1>13, <1>14 DEF Next, AgentStep, Ending

THEOREM InductiveInvariant == Spec => []IInv
BY InitIInv, StepIInv, PTL DEF Spec

\* Every variable keeps its type: in particular the failure counter stays
\* within its width and a retry is never delayed beyond the cap.
THEOREM TypeCorrect == Spec => []TypeOK
BY InductiveInvariant, PTL DEF IInv

\* A POST or DELETE is only ever under way on ownership, consistent local
\* evidence and a reading of the opposite selector state.
THEOREM MutationsJustified == Spec => []MutationIsJustified
BY InductiveInvariant, PTL DEF IInv

-----------------------------------------------------------------------------
\* A snapshot built for a failure or for inconsistent evidence claims nothing.
LEMMA FailuresClaimNothing ==
  ASSUME NEW e \in BackendErrors, NEW delay, NEW sel, NEW busy
  PROVE  /\ Claim(FailedSnapshot(e, delay)) = "none"
         /\ Claim(FailedAfterSnapshot(e, delay, sel, busy)) = "none"
         /\ Claim(InconsistentSnapshot) = "none"
<1>1. FailedSnapshot(e, delay).lifecycle \in {"Refused", "WithdrawalBlocked", "Unknown"}
  BY DEF FailedSnapshot
<1>2. FailedAfterSnapshot(e, delay, sel, busy).lifecycle = FailedSnapshot(e, delay).lifecycle
  BY DEF FailedAfterSnapshot, FailedSnapshot
<1>3. InconsistentSnapshot.lifecycle = "Unknown"
  BY DEF InconsistentSnapshot
<1>4. QED BY <1>1, <1>2, <1>3 DEF Claim, AchievedFull, AchievedDrained

\* What a successful reading lets the controller claim.
LEMMA ReadingClaims ==
  ASSUME TypeOK
  PROVE  /\ Claim(SettledSnapshot) = "FULL" => label /\ online
         /\ Claim(SettledSnapshot) = "DRAINED" => ~label /\ ~RunnerBusy
<1>1. cycle.desired \in DesiredStates
  BY DEF TypeOK, Cycles
<1>2. AchievedFull(SettledSnapshot) => label /\ online
  BY <1>1 DEF AchievedFull, SettledSnapshot, SettledLifecycle, Selector,
       DesiredStates, TypeOK
<1>3. AchievedDrained(SettledSnapshot) => ~label /\ ~RunnerBusy
  BY <1>1 DEF AchievedDrained, SettledSnapshot, Selector, TypeOK
<1>4. QED BY <1>2, <1>3 DEF Claim

\* The actions that publish a reading.
Settling == ObserveSettled \/ ConfirmSettled \/ ReadbackConfirms

\* Every other way to end a cycle leaves no claim.
LEMMA OtherEndingsClaimNothing ==
  ASSUME TypeOK, Ending \/ MutateLost, ~Settling
  PROVE  Claim(snapshot') = "none"
<1>1. \A e \in BackendErrors : Fail(e) => Claim(snapshot') = "none"
  BY FailuresClaimNothing DEF Fail, Publish
<1>2. \A e \in BackendErrors : \A sel \in SelectorStates : \A busy \in BOOLEAN :
        FailAfter(e, sel, busy) => Claim(snapshot') = "none"
  BY FailuresClaimNothing DEF FailAfter, Publish
<1>3. CASE ObserveFails
  BY <1>3, <1>1, ErrorsTyped DEF ObserveFails
<1>4. CASE ObserveInconsistent
  <2>1. "Timeout" \in BackendErrors
    BY DEF BackendErrors, TransportFaults
  <2>2. QED BY <1>4, <2>1, FailuresClaimNothing DEF ObserveInconsistent, Publish
<1>5. CASE ObserveUnowned
  BY <1>5, <1>2, ErrorsTyped DEF ObserveUnowned
<1>6. CASE ConfirmFails \/ ReadbackFails
  BY <1>6, <1>2, ErrorsTyped DEF ConfirmFails, ReadbackFails
<1>7. CASE MutateRejected \/ MutateTooLate
  BY <1>7, <1>2, ErrorsTyped DEF MutateRejected, MutateTooLate
<1>8. CASE ReadbackUnconfirmed
  BY <1>8, <1>2, ErrorsTyped DEF ReadbackUnconfirmed
<1>9. CASE MutateLost
  BY <1>9, <1>2, ErrorsTyped DEF MutateLost
<1>10. QED
  BY <1>3, <1>4, <1>5, <1>6, <1>7, <1>8, <1>9 DEF Ending, Settling

\* What a cycle publishes is true of the world in the publishing step.
LEMMA SettlingJustified ==
  ASSUME TypeOK, Settling
  PROVE  /\ drift = "none" /\ (label => owned)
         /\ Claim(snapshot') = "FULL" => label /\ online
         /\ Claim(snapshot') = "DRAINED" => ~label /\ ~RunnerBusy
<1>1. ReadSucceeds /\ Publish(SettledSnapshot, 0)
  BY DEF Settling, ObserveSettled, ConfirmSettled, ReadbackConfirms
<1>2. drift = "none" /\ (label => owned)
  <2>1. "none" \notin Drifts
    BY FaultAssumption DEF DriftErrors
  <2>2. QED BY <1>1, <2>1 DEF ReadSucceeds, ReadingError, TypeOK
<1>3. snapshot' = SettledSnapshot
  BY <1>1 DEF Publish
<1>4. QED BY <1>2, <1>3, ReadingClaims

\* The steps that are not the end of a cycle and keep the snapshot.
LEMMA OtherStepsKeepSnapshot ==
  ASSUME [Next]_vars
  PROVE  Ending \/ MutateLost \/ Restart \/ snapshot' = snapshot
BY DEF Next, AgentStep, Ending, Begin, ObserveProceeds, ConfirmProceeds,
     MutateAcknowledged, Decide, RouteJob, AdvanceJob, LandLate, Interfere,
     Quieten, vars, agent

\* Every snapshot that counts as achieved holds of GitHub and the runner at the
\* last reading of its cycle, under any interleaving, fault or lost mutation.
THEOREM PublicationsJustified == Spec => PublicationJustified
<1>1. ASSUME TypeOK, [Next]_vars, pc # "idle", pc' = "idle"
      PROVE  /\ AchievedFull(snapshot') => label /\ online /\ drift = "none" /\ owned
             /\ AchievedDrained(snapshot') => ~label /\ ~RunnerBusy /\ drift = "none"
  <2>1. CASE Settling
    BY <2>1, <1>1, SettlingJustified DEF Claim, AchievedFull, AchievedDrained
  <2>2. CASE (Ending \/ MutateLost) /\ ~Settling
    BY <2>2, <1>1, OtherEndingsClaimNothing DEF Claim
  <2>3. CASE Restart
    BY <2>3 DEF Restart, NotConfigured, AchievedFull, AchievedDrained
  <2>4. QED
    BY <1>1, <2>1, <2>2, <2>3
       DEF Next, AgentStep, Ending, Settling, Begin, ObserveProceeds, ConfirmProceeds,
           MutateAcknowledged, Decide, RouteJob, AdvanceJob, LandLate, Interfere,
           Quieten, vars, agent
<1>2. QED BY <1>1, TypeCorrect, PTL DEF PublicationJustified, Spec

\* No failure of an exhausted streak schedules another retry.
THEOREM ExhaustionIsFinal == Spec => ExhaustedStaysExhausted
<1>1. ASSUME IInv, [Next]_vars, snapshot.reason \in Transient, snapshot.attempt = 0,
             snapshot'.reason \in Transient
      PROVE  snapshot'.attempt = 0
  <2>1. failures > MaxAttempts
    BY <1>1 DEF IInv, StreakMatches
  <2>2. \A e : ~Retries(e)
    BY <2>1, <1>1, RetryAssumption DEF Retries, FailuresAfter, IInv, TypeOK
  <2>3. \A e, delay, sel, busy :
          /\ FailedSnapshot(e, delay).attempt = 0
          /\ FailedAfterSnapshot(e, delay, sel, busy).attempt = 0
    BY <2>2 DEF FailedSnapshot, FailedAfterSnapshot
  <2>4. SettledSnapshot.attempt = 0 /\ InconsistentSnapshot.attempt = 0
    BY DEF SettledSnapshot, InconsistentSnapshot
  <2>5. \A e : Fail(e) => snapshot'.attempt = 0
    BY <2>3 DEF Fail, Publish
  <2>6. \A e, sel, busy : FailAfter(e, sel, busy) => snapshot'.attempt = 0
    BY <2>3 DEF FailAfter, Publish
  <2>7. CASE Ending \/ MutateLost
    BY <2>4, <2>5, <2>6, <2>7
       DEF Ending, ObserveFails, ObserveInconsistent, ObserveSettled, ObserveUnowned,
           ConfirmFails, ConfirmSettled, MutateRejected, MutateTooLate, MutateLost,
           ReadbackFails, ReadbackUnconfirmed, ReadbackConfirms, Publish
  <2>8. CASE Restart
    BY <2>8 DEF Restart, NotConfigured
  <2>9. CASE snapshot' = snapshot
    BY <2>9, <1>1
  <2>10. QED BY <1>1, <2>7, <2>8, <2>9, OtherStepsKeepSnapshot
<1>2. QED BY <1>1, InductiveInvariant, PTL DEF ExhaustedStaysExhausted, Spec

-----------------------------------------------------------------------------
(***************************************************************************)
(* The promise about cycles that nobody comes in between of needs to know  *)
(* what has stayed as it was since the cycle began (`start'), and that     *)
(* nothing fails once the surroundings are calm.                           *)
(***************************************************************************)
Undisturbed ==
  start # "Unknown" =>
    /\ cycle.busy = Running
    /\ pc # "readback" => Selector = start
    /\ pc = "readback" => Selector \in {start, Wanted}
    /\ pc \in {"confirm", "mutate"} => cycle.selector = start
    /\ calm => cycle.consistent /\ (pc = "readback" => Selector = Wanted)

BetweenCycles == pc = "idle" => cycle = NoCycle /\ start = "Unknown"

CalmIsSound == calm => drift = "none" /\ online

CycleInv == Undisturbed /\ BetweenCycles /\ CalmIsSound

LEMMA InitCycleInv == Init => CycleInv
BY DEF Init, CycleInv, Undisturbed, BetweenCycles, CalmIsSound

\* A cycle that goes on remembers what it was given.
LEMMA ProceedsKeeps ==
  ASSUME TypeOK, ObserveProceeds
  PROVE  /\ cycle'.desired = cycle.desired /\ cycle'.busy = cycle.busy
         /\ cycle'.consistent = cycle.consistent /\ cycle'.selector = Selector
BY DEF ObserveProceeds, TypeOK, Cycles

LEMMA StepCycleInv == IInv /\ CycleInv /\ [Next]_vars => CycleInv'
<1> SUFFICES ASSUME IInv, CycleInv, [Next]_vars PROVE CycleInv'
  OBVIOUS
<1> USE DEF CycleInv
<1>t. TypeOK
  BY DEF IInv
<1>1. CASE Begin
  <2>1. /\ cycle'.busy = Running /\ (calm => cycle'.consistent)
        /\ pc' = "observe" /\ start' = Selector /\ UNCHANGED <<github, calm>>
    BY <1>1 DEF Begin, NoCycle
  <2>2. Undisturbed' /\ BetweenCycles'
    BY <2>1 DEF Undisturbed, BetweenCycles, Running, Selector, github
  <2>3. CalmIsSound'
    BY <2>1 DEF CalmIsSound, github
  <2>4. QED BY <2>2, <2>3
<1>2. CASE Ending \/ MutateLost
  <2>1. pc' = "idle" /\ cycle' = NoCycle /\ start' = "Unknown"
    BY <1>2, <1>t, EndingPublishes
  <2>2. UNCHANGED <<calm, drift, online>>
    BY <1>2, EndingFrame DEF MutateLost, github
  <2>3. QED BY <2>1, <2>2 DEF Undisturbed, BetweenCycles, CalmIsSound
<1>3. CASE ObserveProceeds
  <2>1. /\ cycle'.desired = cycle.desired /\ cycle'.busy = cycle.busy
        /\ cycle'.consistent = cycle.consistent /\ cycle'.selector = Selector
    BY <1>3, <1>t, ProceedsKeeps
  <2>2. pc = "observe" /\ pc' = "confirm" /\ start' = start /\ UNCHANGED <<github, calm>>
    BY <1>3 DEF ObserveProceeds
  <2>3. QED
    BY <2>1, <2>2 DEF Undisturbed, BetweenCycles, CalmIsSound, Running, Selector, github
<1>4. CASE ConfirmProceeds
  BY <1>4 DEF ConfirmProceeds, Undisturbed, BetweenCycles, CalmIsSound, Running, Selector,
              github
<1>5. CASE MutateAcknowledged
  <2>1. /\ pc = "mutate" /\ pc' = "readback"
        /\ UNCHANGED <<job, online, drift, calm, cycle, start>>
        /\ \/ label' = (Mutation = "add")
           \/ ~calm /\ label' = label
    BY <1>5 DEF MutateAcknowledged
  <2>2. (label' = (Mutation = "add")) => Selector' = Wanted'
    BY <2>1 DEF Selector, Wanted, Mutation
  <2>3. label' = label => Selector' = Selector
    BY DEF Selector
  <2>4. Undisturbed'
    BY <2>1, <2>2, <2>3 DEF Undisturbed, Running
  <2>5. QED BY <2>1, <2>4 DEF BetweenCycles, CalmIsSound
<1>6. CASE Restart
  BY <1>6 DEF Restart, Undisturbed, BetweenCycles, CalmIsSound, github
<1>7. CASE Decide
  BY <1>7 DEF Decide, Undisturbed, BetweenCycles, CalmIsSound, Running, Selector, Wanted,
              github, agent
<1>8. CASE RouteJob \/ AdvanceJob \/ LandLate
  BY <1>8 DEF RouteJob, AdvanceJob, LandLate, Disturb, Undisturbed, BetweenCycles,
              CalmIsSound, agent
<1>9. CASE Interfere \/ Quieten
  BY <1>9 DEF Interfere, Quieten, Disturb, Undisturbed, BetweenCycles, CalmIsSound, agent,
              github
<1>10. CASE UNCHANGED vars
  BY <1>10 DEF vars, Undisturbed, BetweenCycles, CalmIsSound, Running, Selector, Wanted,
               github, agent
<1>11. QED
  BY <1>1, <1>2, <1>3, <1>4, <1>5, <1>6, <1>7, <1>8, <1>9, <1>10
     DEF Next, AgentStep, Ending

THEOREM CyclesInvariant == Spec => [](IInv /\ CycleInv)
BY InitIInv, StepIInv, InitCycleInv, StepCycleInv, PTL DEF Spec

-----------------------------------------------------------------------------
\* What a reading that found the wanted selector lets the controller claim, and that it
\* is all a cycle can settle for.
LEMMA SettlingSettles ==
  ASSUME IInv, CycleInv, Settling, start # "Unknown", owned
  PROVE  /\ cycle.consistent
         /\ label = (cycle.desired = "Full")
         /\ Claim(snapshot') = IF cycle.desired = "Full" THEN IF online THEN "FULL" ELSE "none"
                               ELSE IF RunnerBusy THEN "none" ELSE "DRAINED"
<1> USE DEF IInv
<1>1. snapshot' = SettledSnapshot /\ Selector = Wanted
  BY DEF Settling, ObserveSettled, ConfirmSettled, ReadbackConfirms, Publish
<1>2. cycle.desired \in DesiredStates /\ cycle.busy \in BOOLEAN /\ label \in BOOLEAN
      /\ online \in BOOLEAN
  BY DEF TypeOK, Cycles
<1>3. cycle.consistent
  BY DEF Settling, ObserveSettled, ConfirmSettled, ReadbackConfirms, MutationIsJustified
<1>4. label = (cycle.desired = "Full")
  BY <1>1, <1>2 DEF Selector, Wanted
<1>5. (cycle.busy \/ RunnerBusy) <=> RunnerBusy
  BY DEF CycleInv, Undisturbed, Running, RunnerBusy
<1>6. CASE cycle.desired = "Full"
  <2>1. SettledSnapshot.lifecycle = IF online THEN IF cycle.busy \/ RunnerBusy THEN "Busy"
                                                   ELSE "Listening"
                                    ELSE "Unknown"
    BY <1>2, <1>4, <1>6 DEF SettledSnapshot, SettledLifecycle
  <2>2. AchievedFull(SettledSnapshot) <=> online
    BY <1>2, <1>4, <1>6, <2>1 DEF SettledSnapshot, AchievedFull, Selector
  <2>3. ~AchievedDrained(SettledSnapshot)
    BY <1>6 DEF SettledSnapshot, AchievedDrained
  <2>4. QED BY <1>1, <1>3, <1>4, <1>6, <2>2, <2>3 DEF Claim
<1>7. CASE cycle.desired = "Drained"
  <2>1. SettledSnapshot.lifecycle = IF cycle.busy \/ RunnerBusy THEN "DrainPending"
                                    ELSE "Drained"
    BY <1>2, <1>4, <1>7 DEF SettledSnapshot, SettledLifecycle
  <2>2. AchievedDrained(SettledSnapshot) <=> ~RunnerBusy
    BY <1>2, <1>4, <1>5, <1>7, <2>1 DEF SettledSnapshot, AchievedDrained, Selector
  <2>3. ~AchievedFull(SettledSnapshot)
    BY <1>7 DEF SettledSnapshot, AchievedFull
  <2>4. QED BY <1>1, <1>3, <1>4, <1>7, <2>2, <2>3 DEF Claim
<1>8. QED BY <1>2, <1>6, <1>7 DEF DesiredStates

\* A cycle that nobody comes in between of fails only while requests may fail, and leaves
\* the label where it was or was to be.
LEMMA FailingLeaves ==
  ASSUME IInv, CycleInv, Ending \/ MutateLost, ~Settling, start # "Unknown", owned
  PROVE  /\ cycle.consistent => ~calm /\ label' \in {start = "Present", cycle.desired = "Full"}
         /\ ~cycle.consistent => label' = (start = "Present")
<1> USE DEF IInv
<1>1. cycle.desired \in DesiredStates /\ label \in BOOLEAN
  BY DEF TypeOK, Cycles
<1>2. calm => ReadErrors = {} /\ MutateErrors = {}
  <2>1. calm => ReadSucceeds
    BY <1>1 DEF CycleInv, CalmIsSound, ReadSucceeds, ReadingError
  <2>2. QED BY <2>1 DEF ReadErrors, MutateErrors
<1>3. Selector = start => label = (start = "Present")
  BY <1>1 DEF Selector
<1>4. Selector = Wanted => label = (cycle.desired = "Full")
  BY <1>1 DEF Selector, Wanted, DesiredStates
<1>5. CASE ObserveFails \/ ObserveInconsistent \/ ObserveUnowned
  <2>1. label' = (start = "Present")
    BY <1>3, <1>5, EndingFrame
       DEF Ending, ObserveFails, ObserveInconsistent, ObserveUnowned, CycleInv, Undisturbed,
           github
  <2>2. cycle.consistent => ~calm
    BY <1>2, <1>5 DEF ObserveFails, ObserveInconsistent, ObserveUnowned
  <2>3. QED BY <2>1, <2>2
<1>6. CASE ConfirmFails \/ MutateRejected
  <2>1. label' = (start = "Present")
    BY <1>3, <1>6, EndingFrame
       DEF Ending, ConfirmFails, MutateRejected, CycleInv, Undisturbed, github
  <2>2. ~calm
    BY <1>2, <1>6 DEF ConfirmFails, MutateRejected
  <2>3. QED BY <2>1, <2>2
<1>7. ~MutateTooLate
  <2>1. SUFFICES ASSUME MutateTooLate PROVE FALSE
    OBVIOUS
  <2>2. cycle.selector = start /\ Selector = start
    BY <2>1 DEF MutateTooLate, CycleInv, Undisturbed
  <2>3. cycle.selector = "Present"
    BY <2>1 DEF MutateTooLate, Mutation, MutationIsJustified
  <2>4. QED BY <2>1, <2>2, <2>3 DEF MutateTooLate, Selector
<1>8. CASE MutateLost
  <2>1. cycle.consistent /\ ~calm
    BY <1>2, <1>8 DEF MutateLost, MutationIsJustified
  <2>2. label = (start = "Present")
    BY <1>3, <1>8 DEF MutateLost, CycleInv, Undisturbed
  <2>3. label' = (cycle.desired = "Full") \/ label' = label
    BY <1>8 DEF MutateLost, Mutation
  <2>4. QED BY <2>1, <2>2, <2>3
<1>9. CASE ReadbackFails \/ ReadbackUnconfirmed
  <2>1. pc = "readback" /\ label' = label
    BY <1>9, EndingFrame DEF Ending, ReadbackFails, ReadbackUnconfirmed, github
  <2>2. label' \in {start = "Present", cycle.desired = "Full"}
    BY <1>3, <1>4, <2>1 DEF CycleInv, Undisturbed
  <2>3. cycle.consistent
    BY <2>1 DEF MutationIsJustified
  <2>4. ~calm
    BY <1>2, <1>9, <2>1 DEF ReadbackFails, ReadbackUnconfirmed, CycleInv, Undisturbed
  <2>5. QED BY <2>2, <2>3, <2>4
<1>10. QED BY <1>5, <1>6, <1>7, <1>8, <1>9 DEF Ending, Settling

-----------------------------------------------------------------------------
\* Initial states map to initial states of the promise.
LEMMA PromiseInitially == Init => Promise!PromiseInit
<1>1. Claim(NotConfigured) = "none"
  BY DEF Claim, AchievedFull, AchievedDrained, NotConfigured
<1>2. NoCycle.consistent = FALSE
  BY DEF NoCycle
<1>3. QED
  BY <1>1, <1>2 DEF Init, Promise!PromiseInit, Promise!JobStates, Promise!NoWant

\* The end of a cycle, whether or not it was left undisturbed.
LEMMA PromiseEnds ==
  ASSUME IInv, CycleInv, Ending \/ MutateLost
  PROVE  Promise!End
<1> USE DEF IInv
<1>1. /\ pc # "idle" /\ cycle.desired \in DesiredStates /\ cycle.consistent \in BOOLEAN
      /\ label \in BOOLEAN
  BY DEF TypeOK, Cycles, Ending, ObserveFails, ObserveInconsistent, ObserveSettled,
         ObserveUnowned, ConfirmFails, ConfirmSettled, MutateRejected, MutateTooLate,
         MutateLost, ReadbackFails, ReadbackUnconfirmed, ReadbackConfirms
<1>2. /\ pc' = "idle" /\ cycle'.consistent = FALSE /\ start' = "Unknown"
      /\ UNCHANGED <<job, online, drift, owned, calm>>
  BY EndingPublishes, EndingFrame DEF MutateLost, NoCycle, github
<1> DEFINE want == IF pc = "idle" THEN "none" ELSE cycle.desired
<1>3. want = cycle.desired /\ want # "none"
  BY <1>1 DEF DesiredStates
<1>4. Promise!Busy <=> RunnerBusy
  BY DEF Promise!Busy, RunnerBusy
<1>5. CASE Settling
  <2>1. UNCHANGED <<label, late>>
    BY <1>5, EndingFrame DEF Settling, Ending, github
  <2>2. Claim(snapshot') \in {"none", "FULL", "DRAINED"}
    BY DEF Claim
  <2>3. Claim(snapshot') # "none" => Promise!Justified(Claim(snapshot'))
    <3>1. snapshot' = SettledSnapshot
      BY <1>5 DEF Settling, ObserveSettled, ConfirmSettled, ReadbackConfirms, Publish
    <3>2. /\ Claim(snapshot') = "FULL" => cycle.desired = "Full"
          /\ Claim(snapshot') = "DRAINED" => cycle.desired = "Drained"
      BY <3>1 DEF Claim, AchievedFull, AchievedDrained, SettledSnapshot
    <3>3. QED
      BY <1>3, <1>4, <1>5, <3>2, SettlingJustified DEF Promise!Justified
  <2>4. (owned /\ start # "Unknown") =>
          Promise!Outcome(label', Claim(snapshot')) \in
            Promise!Outcomes(want, start = "Present", online, Promise!Busy, cycle.consistent, calm)
    <3>1. SUFFICES ASSUME owned, start # "Unknown"
                   PROVE  Promise!Outcome(label', Claim(snapshot')) \in
            Promise!Outcomes(want, start = "Present", online, Promise!Busy, cycle.consistent, calm)
      OBVIOUS
    <3>2. /\ cycle.consistent
          /\ label = (cycle.desired = "Full")
          /\ Claim(snapshot') = IF cycle.desired = "Full" THEN IF online THEN "FULL" ELSE "none"
                                ELSE IF RunnerBusy THEN "none" ELSE "DRAINED"
      BY <1>5, <3>1, SettlingSettles
    <3>3. Promise!Outcome(label', Claim(snapshot')) =
            Promise!Settled(want, online, Promise!Busy)
      BY <1>3, <1>4, <2>1, <3>2 DEF Promise!Settled, Promise!Outcome
    <3>4. QED BY <3>2, <3>3 DEF Promise!Outcomes
  <2>5. QED
    BY <1>2, <1>3, <2>1, <2>2, <2>3, <2>4 DEF Promise!End, Promise!NoWant, Promise!surroundings
<1>6. CASE ~Settling
  <2>1. Claim(snapshot') = "none"
    BY <1>6, OtherEndingsClaimNothing
  <2>2. Promise!Moves \/ UNCHANGED <<label, late>>
    <3>1. CASE Ending
      BY <3>1, EndingFrame DEF github
    <3>2. CASE MutateLost
      <4>1. owned /\ cycle.consistent /\ ~calm
        BY <3>2 DEF MutateLost, MutationIsJustified, MutateErrors
      <4>2. QED
        BY <1>1, <1>3, <3>2, <4>1 DEF MutateLost, Mutation, Promise!Moves, DesiredStates
    <3>3. QED BY <3>1, <3>2
  <2>3. (owned /\ start # "Unknown") =>
          Promise!Outcome(label', "none") \in
            Promise!Outcomes(want, start = "Present", online, Promise!Busy, cycle.consistent, calm)
    <3>1. SUFFICES ASSUME owned, start # "Unknown"
                   PROVE  Promise!Outcome(label', "none") \in
            Promise!Outcomes(want, start = "Present", online, Promise!Busy, cycle.consistent, calm)
      OBVIOUS
    <3>2. /\ cycle.consistent => ~calm /\ label' \in {start = "Present", cycle.desired = "Full"}
          /\ ~cycle.consistent => label' = (start = "Present")
      BY <1>6, <3>1, FailingLeaves
    <3>3. Promise!Settled(want, online, Promise!Busy).label = (want = "Full")
      BY <1>1, <1>3 DEF Promise!Settled, Promise!Outcome
    <3>4. QED BY <1>1, <1>3, <3>2, <3>3 DEF Promise!Outcomes
  <2>4. QED
    BY <1>2, <1>3, <2>1, <2>2, <2>3 DEF Promise!End, Promise!NoWant, Promise!surroundings
<1>7. QED BY <1>5, <1>6

\* Every step of the controller and its surroundings maps to a step of the
\* promise or leaves it alone.
LEMMA PromiseStep ==
  IInv /\ CycleInv /\ [Next]_vars => [Promise!PromiseNext]_(Promise!promiseVars)
<1> SUFFICES ASSUME IInv, CycleInv, [Next]_vars
             PROVE  [Promise!PromiseNext]_(Promise!promiseVars)
  OBVIOUS
<1> USE DEF Promise!PromiseNext, Promise!promiseVars, Promise!surroundings, Promise!cycleVars
<1>t. TypeOK
  BY DEF IInv
<1>d. cycle.desired \in DesiredStates
  BY <1>t DEF TypeOK, Cycles
<1>1. CASE Begin
  <2>1. /\ pc = "idle" /\ pc' = "observe" /\ start' = Selector
        /\ cycle'.desired = wish /\ cycle'.consistent \in IF calm THEN {TRUE} ELSE BOOLEAN
        /\ UNCHANGED <<github, owned, calm, snapshot>>
    BY <1>1 DEF Begin, NoCycle
  <2>2. wish \in {"Full", "Drained"}
    BY <1>t DEF TypeOK, DesiredStates
  <2>3. Promise!Begin
    BY <2>1, <2>2 DEF Promise!Begin, Selector, github
  <2>4. QED BY <2>3
<1>2. CASE Ending \/ MutateLost
  BY <1>2, PromiseEnds
<1>3. CASE ObserveProceeds
  <2>1. cycle'.desired = cycle.desired /\ cycle'.consistent = cycle.consistent
    BY <1>3, <1>t, ProceedsKeeps
  <2>2. QED BY <1>3, <2>1 DEF ObserveProceeds, github
<1>4. CASE ConfirmProceeds
  BY <1>4 DEF ConfirmProceeds, github
<1>5. CASE Decide
  BY <1>5 DEF Decide, github, agent
<1>6. CASE MutateAcknowledged
  <2>1. owned /\ cycle.consistent
    BY <1>6 DEF IInv, MutateAcknowledged, MutationIsJustified
  <2>2. Promise!Moves
    BY <1>6, <1>d, <2>1
       DEF MutateAcknowledged, Mutation, Promise!Moves, DesiredStates
  <2>3. Promise!Mutate
    BY <1>6, <1>d, <2>2 DEF MutateAcknowledged, Promise!Mutate, DesiredStates
  <2>4. QED BY <2>3
<1>7. CASE Restart
  <2>1. Claim(snapshot') = "none"
    BY <1>7 DEF Restart, Claim, AchievedFull, AchievedDrained, NotConfigured
  <2>2. QED
    BY <1>7, <2>1 DEF Restart, Promise!Restart, Promise!NoWant, NoCycle, github
<1>8. CASE RouteJob
  BY <1>8 DEF RouteJob, Disturb, Promise!RouteJob, Promise!Disturb, agent
<1>9. CASE AdvanceJob
  BY <1>9 DEF AdvanceJob, Disturb, Promise!AdvanceJob, Promise!Disturb, agent
<1>10. CASE LandLate
  BY <1>10 DEF LandLate, Disturb, Promise!LandLate, Promise!Disturb, agent
<1>11. CASE Interfere
  <2>1. label' \in BOOLEAN /\ online' \in BOOLEAN /\ (drift = "none")' \in BOOLEAN
    BY <1>11, <1>t DEF Interfere, TypeOK
  <2>2. QED
    BY <1>11, <2>1 DEF Interfere, Disturb, Promise!Interfere, Promise!Disturb, agent
<1>12. CASE Quieten
  BY <1>12 DEF Quieten, Disturb, Promise!Quieten, Promise!Disturb, agent, github
<1>13. CASE UNCHANGED vars
  BY <1>13 DEF vars, github, agent
<1>14. QED
  BY <1>1, <1>2, <1>3, <1>4, <1>5, <1>6, <1>7, <1>8, <1>9, <1>10, <1>11, <1>12, <1>13
     DEF Next, AgentStep, Ending

\* The controller implements the admission promise: no interleaving of jobs, edits,
\* faults, lost mutations and restarts makes it claim what the evidence of that very step
\* does not support or move the label where the cycle was not asked to, and a cycle that
\* nobody comes in between of ends in an outcome its callers rely on (module Capacity).
THEOREM ImplementsPromise == Spec => KeepsPromise
BY PromiseInitially, PromiseStep, CyclesInvariant, PTL
   DEF Spec, KeepsPromise, Promise!PromiseSpec
================================================================================
