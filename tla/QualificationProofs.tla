------------------------- MODULE QualificationProofs -------------------------
(***************************************************************************)
(* Proofs about the qualification transaction and its admission.  Three    *)
(* invariants: what a checkpoint of this code's own making is like, of the *)
(* running controller and on disk; what a transaction in a phase has been  *)
(* through; and that every reading that speaks for the binding was so when *)
(* it was made.                                                            *)
(***************************************************************************)
EXTENDS Qualification, TLAPS

\* What every checkpoint that apply can bring about satisfies: is_valid but for the
\* mark of an attempt in RestorePending, and how a transaction may be complete.
WellFormed(c) ==
  /\ c \in Checkpoints
  /\ c.phase \in Terminal \cup {"RestorePending", "Restoring"} => c.qualification # "none"
  /\ c.phase \notin Terminal \cup {"RestorePending", "Restoring"}
       => c.qualification = "none" /\ ~c.attempted
  /\ c.phase = "Complete" => c.restore = "Pass"
  /\ c.phase = "RecoveryRequired" => c.restore = "Fail"
  /\ c.phase \notin Terminal => c.restore = "none"
  /\ c.phase \in {"Prepared", "OwnerAuthorized"} => ~c.mutated
  /\ c.phase \in {"Withdrawing", "SelectorAbsent", "DrainPending", "NoNewAdmissionWitnessed",
                  "Drained", "ReAdvertising", "ReAdvertised"} => c.mutated
  /\ c.phase = "Restoring" => c.attempted
  /\ c.phase = "Complete" /\ ~c.attempted => c.qualification = "Blocked" /\ ~c.mutated

Live == model # NoTransaction

Durable == saved # NoTransaction

TransactionInv ==
  /\ Live => WellFormed(model)
  /\ Durable => WellFormed(saved)
  /\ Live /\ saved.qualification # "none" => model.qualification = saved.qualification
  /\ Live \/ Durable => attested
  /\ attested => receipt = "ReadyForOwnerGate"

Events ==
  Advance \/ Interfere \/ BeginAutomaticRestore \/ RestorePassed \/ RestoreFailed

\* An event that apply accepts leads from a well-formed checkpoint to another, and
\* keeps a verdict that is there.
LEMMA EventKeepsForm ==
  ASSUME Live => WellFormed(model), Events
  PROVE  /\ Live /\ WellFormed(model')
         /\ model.qualification # "none" => model'.qualification = model.qualification
         /\ UNCHANGED <<attested, saved>>
<1>1. Live
  BY DEF Live, NoTransaction, In, Phases, Sequence, Terminal, Events, Advance, Interfere,
         PreOwnerGateBlocked, OwnerGateAccepted, AdmissionControlEstablished, AdvertisedCapacityQualified,
         PrimaryTrustedJobStarted, PrimaryTrustedJobPassed, PrimaryTrustedJobFailed, WithdrawalRequested,
         SelectorAbsenceObserved, NoNewAdmissionWitnessed, NoNewAdmissionWitnessFailed, ActiveWorkerCompleted,
         AchievedDrainedObserved, ReadvertiseRequested, SelectorPresenceObserved, ReconnectWitnessPassed,
         LiveConditionLost, ControllerLost, OwnershipBecameAmbiguous, BeginAutomaticRestore,
         RestorePassed, RestoreFailed
<1>2. model \in Checkpoints /\ WellFormed(model)
  BY <1>1 DEF WellFormed
<1> HIDE DEF Live
<1> USE DEF WellFormed, Checkpoints, Phases, Sequence, Terminal, In, Become,
            To, Mutating, Verdict, RequestRestore, CompleteWithoutTransaction, RestoreFails
<1>3. CASE PreOwnerGateBlocked
  BY <1>1, <1>2, <1>3 DEF PreOwnerGateBlocked
<1>4. CASE OwnerGateAccepted
  BY <1>1, <1>2, <1>4 DEF OwnerGateAccepted
<1>5. CASE AdmissionControlEstablished
  BY <1>1, <1>2, <1>5 DEF AdmissionControlEstablished
<1>6. CASE AdvertisedCapacityQualified
  BY <1>1, <1>2, <1>6 DEF AdvertisedCapacityQualified
<1>7. CASE PrimaryTrustedJobStarted
  BY <1>1, <1>2, <1>7 DEF PrimaryTrustedJobStarted
<1>8. CASE PrimaryTrustedJobPassed
  BY <1>1, <1>2, <1>8 DEF PrimaryTrustedJobPassed
<1>9. CASE PrimaryTrustedJobFailed
  BY <1>1, <1>2, <1>9 DEF PrimaryTrustedJobFailed
<1>10. CASE WithdrawalRequested
  BY <1>1, <1>2, <1>10 DEF WithdrawalRequested
<1>11. CASE SelectorAbsenceObserved
  BY <1>1, <1>2, <1>11 DEF SelectorAbsenceObserved
<1>12. CASE NoNewAdmissionWitnessed
  <2>1. \/ model' = [model EXCEPT !.phase = "DrainPending"]
        \/ model' = [model EXCEPT !.phase = "NoNewAdmissionWitnessed"]
    BY <1>2, <1>12 DEF NoNewAdmissionWitnessed
  <2>2. model.phase = "SelectorAbsent" /\ UNCHANGED <<attested, saved>>
    BY <1>12 DEF NoNewAdmissionWitnessed
  <2>3. QED
    BY <1>1, <1>2, <2>1, <2>2
<1>13. CASE NoNewAdmissionWitnessFailed
  BY <1>1, <1>2, <1>13 DEF NoNewAdmissionWitnessFailed
<1>14. CASE ActiveWorkerCompleted
  BY <1>1, <1>2, <1>14 DEF ActiveWorkerCompleted
<1>15. CASE AchievedDrainedObserved
  BY <1>1, <1>2, <1>15 DEF AchievedDrainedObserved
<1>16. CASE ReadvertiseRequested
  BY <1>1, <1>2, <1>16 DEF ReadvertiseRequested
<1>17. CASE SelectorPresenceObserved
  BY <1>1, <1>2, <1>17 DEF SelectorPresenceObserved
<1>18. CASE ReconnectWitnessPassed
  BY <1>1, <1>2, <1>18 DEF ReconnectWitnessPassed
<1>19. CASE LiveConditionLost
  BY <1>1, <1>2, <1>19 DEF LiveConditionLost
<1>20. CASE ControllerLost
  BY <1>1, <1>2, <1>20 DEF ControllerLost
<1>21. CASE OwnershipBecameAmbiguous
  <2>1. CASE In({"Prepared"}) /\ CompleteWithoutTransaction("Blocked")
    BY <1>1, <1>2, <2>1
  <2>2. CASE /\ In(Phases \ (Terminal \cup {"Prepared"}))
             /\ Become([model EXCEPT !.phase = "RecoveryRequired", !.restore = "Fail",
                                     !.qualification = Verdict("Blocked")])
    <3>1. model' = [phase |-> "RecoveryRequired", qualification |-> Verdict("Blocked"),
                    restore |-> "Fail", mutated |-> model.mutated, attempted |-> model.attempted]
      BY <1>2, <2>2
    <3>2. UNCHANGED <<attested, saved>>
      BY <2>2
    <3>3. QED
      BY <1>1, <1>2, <3>1, <3>2
  <2>3. QED
    BY <1>21, <2>1, <2>2 DEF OwnershipBecameAmbiguous
<1>22. CASE BeginAutomaticRestore
  BY <1>1, <1>2, <1>22 DEF BeginAutomaticRestore
<1>23. CASE RestorePassed
  BY <1>1, <1>2, <1>23 DEF RestorePassed
<1>24. CASE RestoreFailed
  BY <1>1, <1>2, <1>24 DEF RestoreFailed
<1>25. QED
  BY <1>3, <1>4, <1>5, <1>6, <1>7, <1>8, <1>9, <1>10, <1>11,
     <1>12, <1>13, <1>14, <1>15, <1>16, <1>17, <1>18, <1>19, <1>20, <1>21,
     <1>22, <1>23, <1>24
  DEF Events, Advance, Interfere

\* The readings do not touch the transaction, and end when it exists.
LEMMA CollectingKeeps ==
  ASSUME TransactionInv,
         Drift \/ ReadGithub \/ ReadLocal \/ ReadWorkflow \/ ReadAccess \/ Collect \/ Claim \/ Attest
  PROVE  TransactionInv' /\ ~Live /\ ~Durable /\ UNCHANGED <<model, saved>>
<1>1. ~attested /\ UNCHANGED <<model, saved>>
  BY DEF Drift, ReadGithub, ReadLocal, ReadWorkflow, ReadAccess, Read, Collect, Claim, Attest,
         Collecting, transaction
<1>2. ~Live /\ ~Durable
  BY <1>1 DEF TransactionInv
<1>3. attested' => receipt' = "ReadyForOwnerGate"
  BY <1>1 DEF Drift, ReadGithub, ReadLocal, ReadWorkflow, ReadAccess, Read, Collect, Claim, Attest
<1>4. QED
  BY <1>1, <1>2, <1>3 DEF TransactionInv, Live, Durable

LEMMA TransactionKeeps ==
  ASSUME TransactionInv, TransactionNext, UNCHANGED collection
  PROVE  /\ TransactionInv'
         /\ saved.qualification # "none" => saved'.qualification = saved.qualification
<1>1. receipt' = receipt
  BY DEF collection
<1>2. CASE Events
  <2>1. /\ Live /\ WellFormed(model')
        /\ model.qualification # "none" => model'.qualification = model.qualification
        /\ UNCHANGED <<attested, saved>>
    BY <1>2, EventKeepsForm DEF TransactionInv
  <2>2. saved.qualification # "none" => model'.qualification = saved.qualification
    BY <2>1 DEF TransactionInv
  <2>3. QED
    BY <1>1, <2>1, <2>2 DEF TransactionInv, Live, Durable
<1>3. CASE Prepare
  <2>1. /\ model' = [phase |-> "Prepared", qualification |-> "none", restore |-> "none",
                     mutated |-> FALSE, attempted |-> FALSE]
        /\ attested /\ saved = NoTransaction /\ UNCHANGED <<attested, saved>>
    BY <1>3 DEF Prepare, Become, NoTransaction
  <2>2. WellFormed(model')
    BY <2>1 DEF WellFormed, Checkpoints, Phases, Sequence, Terminal
  <2>3. receipt = "ReadyForOwnerGate"
    BY <2>1 DEF TransactionInv
  <2>4. QED
    BY <1>1, <2>1, <2>2, <2>3 DEF TransactionInv, Live, Durable, NoTransaction
<1>4. CASE Save
  BY <1>1, <1>4 DEF Save, TransactionInv, Live, Durable
<1>5. CASE Lose
  BY <1>1, <1>5 DEF Lose, TransactionInv, Live, Durable
<1>6. CASE Resume
  <2>1. saved # NoTransaction
    BY <1>6 DEF Resume, IsValid, NoTransaction, Phases, Sequence, Terminal
  <2>2. QED
    BY <1>1, <1>6, <2>1 DEF Resume, TransactionInv, Live, Durable
<1>7. QED
  BY <1>2, <1>3, <1>4, <1>5, <1>6 DEF TransactionNext, Events

LEMMA InvStep ==
  ASSUME TransactionInv, [Next]_vars
  PROVE  TransactionInv' /\ (saved.qualification # "none" => saved'.qualification = saved.qualification)
<1>1. CASE UNCHANGED vars
  BY <1>1 DEF vars, transaction, collection, TransactionInv, Live, Durable
<1>2. CASE TransactionNext /\ UNCHANGED collection
  BY <1>2, TransactionKeeps
<1>3. CASE Drift \/ ReadGithub \/ ReadLocal \/ ReadWorkflow \/ ReadAccess \/ Collect \/ Claim \/ Attest
  BY <1>3, CollectingKeeps
<1>4. QED
  BY <1>1, <1>2, <1>3 DEF Next

LEMMA InvInit == Init => TransactionInv
BY DEF Init, TransactionInit, TransactionInv, Live, Durable, NoTransaction

LEMMA InvAlways == Spec => []TransactionInv
<1>1. TransactionInv /\ [Next]_vars => TransactionInv'
  BY InvStep
<1>2. QED
  BY InvInit, <1>1, PTL DEF Spec

-----------------------------------------------------------------------------
\* No transaction exists, running or saved, without the attestation.
THEOREM PreparedOnAttestationHolds == Spec => []PreparedOnAttestation
<1>1. TransactionInv => PreparedOnAttestation
  BY DEF TransactionInv, PreparedOnAttestation, Live, Durable
<1>2. QED
  BY <1>1, InvAlways, PTL

\* Complete means restored, unless the Owner gate was never passed.
THEOREM RestoredOrHandedOverHolds == Spec => []RestoredOrHandedOver
<1>1. TransactionInv => RestoredOrHandedOver
  BY DEF TransactionInv, RestoredOrHandedOver, Live, Durable, WellFormed, NoTransaction
<1>2. QED
  BY <1>1, InvAlways, PTL

\* Of the checkpoints of its own making a controller refuses only a restore that was
\* begun and set back.
THEOREM CheckpointsResumeHolds == Spec => []CheckpointsResume
<1>1. ASSUME NEW c, WellFormed(c), ~(c.phase = "RestorePending" /\ c.attempted)
      PROVE  IsValid(c)
  BY <1>1 DEF WellFormed, IsValid, Checkpoints, Terminal
<1>2. TransactionInv => CheckpointsResume
  BY <1>1 DEF TransactionInv, CheckpointsResume, Durable
<1>3. QED
  BY <1>2, InvAlways, PTL

\* A verdict that was written down stays.
THEOREM VerdictIsFinalHolds == Spec => VerdictIsFinal
<1>1. TransactionInv /\ [Next]_vars
        => [saved.qualification # "none" => saved'.qualification = saved.qualification]_saved
  BY InvStep
<1>2. QED
  BY <1>1, InvAlways, PTL DEF Spec, VerdictIsFinal

-----------------------------------------------------------------------------
\* What a transaction in a phase has been through.
Behind(p) ==
  CASE p = "AdmissionControlEstablished" -> {"AdmissionControlEstablished"}
    [] p = "Advertised" -> {"AdmissionControlEstablished", "Advertised"}
    [] p = "PrimaryJobRunning" ->
         {"AdmissionControlEstablished", "Advertised", "PrimaryJobRunning"}
    [] p = "PrimaryJobCompleted" ->
         {"AdmissionControlEstablished", "Advertised", "PrimaryJobRunning", "PrimaryJobCompleted"}
    [] p = "Withdrawing" ->
         Sequence \ {"SelectorAbsent", "NoNewAdmissionWitnessed", "Drained", "ReAdvertising", "ReAdvertised"}
    [] p \in {"SelectorAbsent", "DrainPending"} ->
         Sequence \ {"NoNewAdmissionWitnessed", "Drained", "ReAdvertising", "ReAdvertised"}
    [] p = "NoNewAdmissionWitnessed" -> Sequence \ {"Drained", "ReAdvertising", "ReAdvertised"}
    [] p = "Drained" -> Sequence \ {"ReAdvertising", "ReAdvertised"}
    [] p = "ReAdvertising" -> Sequence \ {"ReAdvertised"}
    [] p = "ReAdvertised" -> Sequence
    [] OTHER -> {}

Trailed(c) ==
  Behind(c.phase) \subseteq reached /\ (c.qualification = "Pass" => Sequence \subseteq reached)

\* From the witness on no job is running that was assigned during the withdrawal.
Quiet == {"NoNewAdmissionWitnessed", "Drained", "ReAdvertising", "ReAdvertised"}

\* A running controller is never behind the checkpoint it wrote.
SequenceInv ==
  /\ Trailed(model) /\ Trailed(saved)
  /\ model.phase \in Quiet => ~racing
  /\ saved.phase \in Quiet
       => ~racing /\ (Live => model.phase \in Quiet \cup Terminal \cup {"RestorePending", "Restoring"})

\* An event that goes on with the sequence, or leaves it for good.
LEMMA EventKeepsTrail ==
  ASSUME TransactionInv, SequenceInv, Events
  PROVE  SequenceInv'
<1>1. Live /\ WellFormed(model) /\ UNCHANGED <<attested, saved>> /\ Live'
  <2>1. Live /\ WellFormed(model') /\ UNCHANGED <<attested, saved>>
    BY EventKeepsForm DEF TransactionInv
  <2>2. model' # NoTransaction
    BY <2>1 DEF WellFormed, Checkpoints, NoTransaction, Phases, Sequence, Terminal
  <2>3. QED
    BY <2>1, <2>2 DEF TransactionInv, Live
<1>2. model \in Checkpoints
  BY <1>1 DEF WellFormed
<1> HIDE DEF Live
<1> USE DEF Checkpoints, Phases, Sequence, Terminal, In, Become, To, Mutating, Verdict,
            RequestRestore, CompleteWithoutTransaction, RestoreFails
<1>0. ASSUME RequestRestore("Blocked")
      PROVE  SequenceInv'
  <2>1. /\ model' = [model EXCEPT !.phase = "RestorePending",
                                  !.qualification = Verdict("Blocked")]
        /\ reached \subseteq reached' /\ racing' = racing
    BY <1>0
  <2>2. model'.phase = "RestorePending" /\ (model'.qualification = "Pass" => model.qualification = "Pass")
    BY <1>2, <2>1
  <2>3. Behind("RestorePending") = {}
    BY DEF Behind
  <2>4. QED
    BY <1>1, <2>1, <2>2, <2>3 DEF SequenceInv, Trailed, Quiet
<1>3. CASE PreOwnerGateBlocked
  BY <1>1, <1>2, <1>3 DEF PreOwnerGateBlocked, SequenceInv, Trailed, Behind, Quiet
<1>4. CASE OwnerGateAccepted
  BY <1>1, <1>2, <1>4 DEF OwnerGateAccepted, SequenceInv, Trailed, Behind, Quiet
<1>5. CASE AdmissionControlEstablished
  BY <1>1, <1>2, <1>5 DEF AdmissionControlEstablished, SequenceInv, Trailed, Behind, Quiet
<1>6. CASE AdvertisedCapacityQualified
  BY <1>1, <1>2, <1>6 DEF AdvertisedCapacityQualified, SequenceInv, Trailed, Behind, Quiet
<1>7. CASE PrimaryTrustedJobStarted
  BY <1>1, <1>2, <1>7 DEF PrimaryTrustedJobStarted, SequenceInv, Trailed, Behind, Quiet
<1>8. CASE PrimaryTrustedJobPassed
  BY <1>1, <1>2, <1>8 DEF PrimaryTrustedJobPassed, SequenceInv, Trailed, Behind, Quiet
<1>9. CASE PrimaryTrustedJobFailed
  BY <1>1, <1>2, <1>9 DEF PrimaryTrustedJobFailed, SequenceInv, Trailed, Behind, Quiet
<1>10. CASE WithdrawalRequested
  BY <1>1, <1>2, <1>10 DEF WithdrawalRequested, SequenceInv, Trailed, Behind, Quiet
<1>11. CASE SelectorAbsenceObserved
  BY <1>1, <1>2, <1>11 DEF SelectorAbsenceObserved, SequenceInv, Trailed, Behind, Quiet
<1>12. CASE NoNewAdmissionWitnessed
  BY <1>1, <1>2, <1>12 DEF NoNewAdmissionWitnessed, SequenceInv, Trailed, Behind, Quiet
<1>13. CASE NoNewAdmissionWitnessFailed
  BY <1>1, <1>2, <1>13 DEF NoNewAdmissionWitnessFailed, SequenceInv, Trailed, Behind, Quiet
<1>14. CASE ActiveWorkerCompleted
  BY <1>1, <1>2, <1>14 DEF ActiveWorkerCompleted, SequenceInv, Trailed, Behind, Quiet
<1>15. CASE AchievedDrainedObserved
  BY <1>1, <1>2, <1>15 DEF AchievedDrainedObserved, SequenceInv, Trailed, Behind, Quiet
<1>16. CASE ReadvertiseRequested
  BY <1>1, <1>2, <1>16 DEF ReadvertiseRequested, SequenceInv, Trailed, Behind, Quiet
<1>17. CASE SelectorPresenceObserved
  BY <1>1, <1>2, <1>17 DEF SelectorPresenceObserved, SequenceInv, Trailed, Behind, Quiet
<1>18. CASE ReconnectWitnessPassed
  BY <1>1, <1>2, <1>18 DEF ReconnectWitnessPassed, SequenceInv, Trailed, Behind, Quiet
<1>19. CASE LiveConditionLost
  BY <1>0, <1>19 DEF LiveConditionLost
<1>20. CASE ControllerLost
  <2>1. CASE In({"Restoring"}) /\ RestoreFails
    BY <1>1, <1>2, <2>1 DEF SequenceInv, Trailed, Behind, Quiet
  <2>2. QED
    BY <1>0, <1>20, <2>1 DEF ControllerLost
<1>21. CASE OwnershipBecameAmbiguous
  <2>1. /\ model'.phase \in Terminal
        /\ model'.qualification = "Pass" => model.qualification = "Pass"
        /\ reached \subseteq reached' /\ racing' = racing
    BY <1>2, <1>21 DEF OwnershipBecameAmbiguous
  <2>2. \A p \in Terminal : Behind(p) = {}
    BY DEF Behind
  <2>3. QED
    BY <1>1, <2>1, <2>2 DEF SequenceInv, Trailed, Quiet
<1>22. CASE BeginAutomaticRestore
  BY <1>1, <1>2, <1>22 DEF BeginAutomaticRestore, SequenceInv, Trailed, Behind, Quiet
<1>23. CASE RestorePassed
  BY <1>1, <1>2, <1>23 DEF RestorePassed, SequenceInv, Trailed, Behind, Quiet
<1>24. CASE RestoreFailed
  BY <1>1, <1>2, <1>24 DEF RestoreFailed, SequenceInv, Trailed, Behind, Quiet
<1>25. QED
  BY <1>3, <1>4, <1>5, <1>6, <1>7, <1>8, <1>9, <1>10, <1>11,
     <1>12, <1>13, <1>14, <1>15, <1>16, <1>17, <1>18, <1>19, <1>20, <1>21,
     <1>22, <1>23, <1>24
  DEF Events, Advance, Interfere

LEMMA SequenceStep ==
  ASSUME TransactionInv, SequenceInv, [Next]_vars
  PROVE  SequenceInv'
<1>1. CASE UNCHANGED transaction
  BY <1>1 DEF transaction, SequenceInv, Trailed, Live
<1>2. CASE Events
  BY <1>2, EventKeepsTrail
<1>3. CASE Prepare
  <2>1. /\ model'.phase = "Prepared" /\ model'.qualification = "none"
        /\ saved.phase = "none" /\ saved.qualification = "none" /\ saved' = saved
    BY <1>3 DEF Prepare, Become, NoTransaction
  <2>2. Behind("Prepared") = {} /\ Behind("none") = {}
    BY DEF Behind
  <2>3. QED
    BY <2>1, <2>2 DEF SequenceInv, Trailed, Quiet
<1>4. CASE Save
  BY <1>4 DEF Save, SequenceInv, Trailed, Live, Quiet
<1>5. CASE Lose
  <2>1. /\ model'.phase = "none" /\ model'.qualification = "none" /\ ~Live'
        /\ UNCHANGED <<saved, reached, racing>>
    BY <1>5 DEF Lose, NoTransaction, Live
  <2>2. Behind("none") = {}
    BY DEF Behind
  <2>3. QED
    BY <2>1, <2>2 DEF SequenceInv, Trailed, Quiet
<1>6. CASE Resume
  BY <1>6 DEF Resume, SequenceInv, Trailed, Quiet
<1>7. CASE Drift \/ ReadGithub \/ ReadLocal \/ ReadWorkflow \/ ReadAccess \/ Collect \/ Claim \/ Attest
  <2>1. UNCHANGED transaction
    BY <1>7 DEF Drift, ReadGithub, ReadLocal, ReadWorkflow, ReadAccess, Read, Collect, Claim, Attest,
               Collecting
  <2>2. QED
    BY <1>1, <2>1
<1>8. QED
  BY <1>1, <1>2, <1>3, <1>4, <1>5, <1>6, <1>7 DEF Next, vars, TransactionNext, Events

LEMMA SequenceInit == Init => SequenceInv
<1>1. Behind("none") = {}
  BY DEF Behind
<1>2. QED
  BY <1>1 DEF Init, TransactionInit, SequenceInv, Trailed, NoTransaction, Quiet

\* A qualification passes only after the whole sequence, whichever controllers carried it,
\* and goes on from the drain only when the racing job is over.
THEOREM PassNeedsTheSequenceHolds == Spec => []PassNeedsTheSequence
<1>1. TransactionInv /\ SequenceInv /\ [Next]_vars => SequenceInv'
  BY SequenceStep
<1>2. SequenceInv => PassNeedsTheSequence
  BY DEF SequenceInv, Trailed, Quiet, PassNeedsTheSequence
<1>3. Spec => []SequenceInv
  BY <1>1, SequenceInit, InvAlways, PTL DEF Spec
<1>4. QED
  BY <1>2, <1>3, PTL

-----------------------------------------------------------------------------
\* The collection of evidence.

Surroundings ==
  [selector: {"Present", "Absent"}, online: {"yes", "no"}, sole: {"yes", "no"},
   registered: {"yes", "no"}, credential: {"yes", "no"}, file: Sources \cup {"absent"},
   blob: {"yes", "no"}, variable: {"yes", "no"}, access: {"yes", "no"},
   paths: {"plain", "linked", "denied"}, owned: {"yes", "no", "unknown"}]

Held == {f \in Facts : Holds(f, world)}

\* Every reading that speaks for the binding was so when it was made.
ReadingsInv ==
  /\ readings.github.label = "Pass" => {"admission", "ownership"} \subseteq binding
  /\ readings.github.identity = "Pass" => {"credential", "registered", "sole"} \subseteq held
  /\ readings.github.selector = "Present" => "selector" \in held
  /\ readings.github.online = "yes" => "online" \in held
  /\ readings.local \in EvidenceStates
  /\ readings.local = "Pass" => {"paths", "owned"} \subseteq held
  /\ readings.workflow.exact => {"blob", "file"} \subseteq held
  /\ readings.workflow.variable = "Pass" => "variable" \in held
  /\ readings.access.access = "Pass" => "access" \in held

CollectionInv ==
  /\ world \in Surroundings /\ drifts \in Nat /\ held \subseteq Facts
  /\ ~attested => Held \subseteq held /\ (drifts = 0 => held = Held)
  /\ ReadingsInv
  /\ ReadyWasTrue

LEMMA FactsAre ==
  Facts = {"selector", "online", "sole", "registered", "credential", "file", "blob",
           "variable", "access", "paths", "owned"}
BY DEF Facts, Faults

\* What holds of the surroundings, fact by fact.
LEMMA HeldIs ==
  ASSUME world \in Surroundings
  PROVE  /\ world.selector = "Present" => "selector" \in Held
         /\ world.online = "yes" => "online" \in Held
         /\ world.sole = "yes" => "sole" \in Held
         /\ world.registered = "yes" => "registered" \in Held
         /\ world.credential = "yes" => "credential" \in Held
         /\ "file" \in Held <=> SourceContractReady(world.file)
         /\ world.blob = "yes" => "blob" \in Held
         /\ world.variable = "yes" => "variable" \in Held
         /\ world.access = "yes" => "access" \in Held
         /\ world.paths = "plain" => "paths" \in Held
         /\ world.owned = "yes" => "owned" \in Held
<1>1. /\ Sound["selector"] = "Present" /\ Sound["file"] = "frozen" /\ Sound["paths"] = "plain"
      /\ \A f \in Facts \ {"selector", "file", "paths"} : Sound[f] = "yes"
  BY FactsAre DEF Sound
<1>2. \A f \in Facts : f \in Held <=> (world[f] = Sound[f] \/ (f = "file" /\ world[f] = "frozen, CRLF"))
  BY DEF Held, Holds
<1>3. SourceContractReady(world.file) <=> world.file \in {"frozen", "frozen, CRLF"}
  <2>1. SourceContractReady(world.file)
          <=> (world.file \in {"frozen", "frozen, CRLF"} /\ world.file # "altered")
    BY Zenon DEF SourceContractReady, Assessment
  <2>2. QED
    BY <2>1
<1>4. "file" \in Held <=> world.file \in {"frozen", "frozen, CRLF"}
  BY <1>1, <1>2, FactsAre
<1>5. QED
  BY <1>1, <1>2, <1>3, <1>4, FactsAre

\* A change of one fact leads to surroundings again.
LEMMA Changed ==
  ASSUME NEW w \in Surroundings, NEW f \in Facts, NEW x \in Faults[f] \cup {Sound[f]}
  PROVE  [w EXCEPT ![f] = x] \in Surroundings
<1>1. /\ Sound["selector"] = "Present" /\ Sound["file"] = "frozen" /\ Sound["paths"] = "plain"
      /\ \A g \in Facts \ {"selector", "file", "paths"} : Sound[g] = "yes"
  BY FactsAre DEF Sound
<1>2. CASE f = "selector"
  <2>1. x \in {"Present", "Absent"}
    BY <1>1, <1>2, FactsAre DEF Faults
  <2>2. QED
    BY <1>2, <2>1 DEF Surroundings
<1>3. CASE f = "online"
  <2>1. x \in {"yes", "no"}
    BY <1>1, <1>3, FactsAre DEF Faults
  <2>2. QED
    BY <1>3, <2>1 DEF Surroundings
<1>4. CASE f = "sole"
  <2>1. x \in {"yes", "no"}
    BY <1>1, <1>4, FactsAre DEF Faults
  <2>2. QED
    BY <1>4, <2>1 DEF Surroundings
<1>5. CASE f = "registered"
  <2>1. x \in {"yes", "no"}
    BY <1>1, <1>5, FactsAre DEF Faults
  <2>2. QED
    BY <1>5, <2>1 DEF Surroundings
<1>6. CASE f = "credential"
  <2>1. x \in {"yes", "no"}
    BY <1>1, <1>6, FactsAre DEF Faults
  <2>2. QED
    BY <1>6, <2>1 DEF Surroundings
<1>7. CASE f = "file"
  <2>1. x \in Sources \cup {"absent"}
    BY <1>1, <1>7, FactsAre DEF Faults, Sources
  <2>2. QED
    BY <1>7, <2>1 DEF Surroundings
<1>8. CASE f = "blob"
  <2>1. x \in {"yes", "no"}
    BY <1>1, <1>8, FactsAre DEF Faults
  <2>2. QED
    BY <1>8, <2>1 DEF Surroundings
<1>9. CASE f = "variable"
  <2>1. x \in {"yes", "no"}
    BY <1>1, <1>9, FactsAre DEF Faults
  <2>2. QED
    BY <1>9, <2>1 DEF Surroundings
<1>10. CASE f = "access"
  <2>1. x \in {"yes", "no"}
    BY <1>1, <1>10, FactsAre DEF Faults
  <2>2. QED
    BY <1>10, <2>1 DEF Surroundings
<1>11. CASE f = "paths"
  <2>1. x \in {"plain", "linked", "denied"}
    BY <1>1, <1>11, FactsAre DEF Faults
  <2>2. QED
    BY <1>11, <2>1 DEF Surroundings
<1>12. CASE f = "owned"
  <2>1. x \in {"yes", "no", "unknown"}
    BY <1>1, <1>12, FactsAre DEF Faults
  <2>2. QED
    BY <1>12, <2>1 DEF Surroundings
<1>13. QED
  BY <1>2, <1>3, <1>4, <1>5, <1>6, <1>7, <1>8, <1>9, <1>10, <1>11, <1>12, FactsAre

LEMMA SoundIs == Sound \in Surroundings
<1>1. Sound = [selector |-> "Present", online |-> "yes", sole |-> "yes", registered |-> "yes",
               credential |-> "yes", file |-> "frozen", blob |-> "yes", variable |-> "yes",
               access |-> "yes", paths |-> "plain", owned |-> "yes"]
  BY FactsAre DEF Sound
<1>2. QED
  BY <1>1 DEF Surroundings, Sources

LEMMA CollectionStarts == Init => CollectionInv
<1> SUFFICES ASSUME Init PROVE CollectionInv
  OBVIOUS
<1>1. world \in Surroundings
  <2>1. ASSUME NEW f \in Facts, NEW x \in Faults[f], world = [Sound EXCEPT ![f] = x]
        PROVE  world \in Surroundings
    BY SoundIs, <2>1, Changed
  <2>2. QED
    BY SoundIs, <2>1 DEF Init, Worlds
<1>2. ReadingsInv
  BY DEF Init, ReadingsInv, NoReadings, Unread, NoWorkflow, NoAccess, EvidenceStates
<1>3. QED
  BY <1>1, <1>2 DEF Init, CollectionInv, Held, ReadyWasTrue

\* Whatever was held stays held.
LEMMA ReadingsStay ==
  ASSUME ReadingsInv, held \subseteq held', UNCHANGED <<binding, readings>>
  PROVE  ReadingsInv'
BY DEF ReadingsInv

LEMMA DriftKeeps == ASSUME CollectionInv, Drift PROVE CollectionInv'
<1>1. PICK f \in Facts : \E x \in Faults[f] \cup {Sound[f]} : world' = [world EXCEPT ![f] = x]
  BY DEF Drift
<1>2. PICK x \in Faults[f] \cup {Sound[f]} : world' = [world EXCEPT ![f] = x]
  BY <1>1
<1>3. /\ drifts' = drifts + 1 /\ held' = held \cup Held'
      /\ UNCHANGED <<attested, binding, readings, receipt>>
  BY DEF Drift, Collecting, Held
<1>4. world' \in Surroundings
  BY <1>2, Changed DEF CollectionInv
<1>5. ReadingsInv'
  BY <1>3, ReadingsStay DEF CollectionInv
<1>6. held' \subseteq Facts
  BY <1>3 DEF CollectionInv, Held
<1>7. QED
  BY <1>3, <1>4, <1>5, <1>6 DEF CollectionInv, ReadyWasTrue, BindingValid

LEMMA ReadKeeps ==
  ASSUME CollectionInv, ReadGithub \/ ReadLocal \/ ReadWorkflow \/ ReadAccess
  PROVE  CollectionInv'
<1>1. /\ ~attested /\ receipt' = "none"
      /\ UNCHANGED <<attested, binding, world, drifts, held>>
  BY DEF ReadGithub, ReadLocal, ReadWorkflow, ReadAccess, Read, Collecting
<1>2. world \in Surroundings /\ Held \subseteq held
  BY <1>1 DEF CollectionInv
<1>3. CASE ReadGithub
  <2>1. PICK f : readings' = [readings EXCEPT !.github = GithubReading(f)]
    BY <1>3 DEF ReadGithub, Read
  <2> DEFINE g == GithubReading(f)
  <2>2. /\ g.label = "Pass" => {"admission", "ownership"} \subseteq binding
        /\ g.identity = "Pass" => {"credential", "registered", "sole"} \subseteq held
        /\ g.selector = "Present" => "selector" \in held
        /\ g.online = "yes" => "online" \in held
    BY <1>2, HeldIs DEF GithubReading, Labelled, Authorised, Unread, Surroundings
  <2> HIDE DEF g
  <2>3. readings'.github = g \/ readings'.github = readings.github
    BY <2>1 DEF g
  <2>4. /\ readings'.local = readings.local /\ readings'.workflow = readings.workflow
        /\ readings'.access = readings.access
    BY <2>1
  <2>5. QED
    BY <1>1, <2>2, <2>3, <2>4 DEF CollectionInv, ReadingsInv, ReadyWasTrue, Held
<1>4. CASE ReadLocal
  <2>1. readings' = [readings EXCEPT !.local = LocalReading]
    BY <1>4 DEF ReadLocal, Read
  <2>2. /\ LocalReading \in EvidenceStates
        /\ LocalReading = "Pass" => {"paths", "owned"} \subseteq held
    BY <1>2, HeldIs DEF LocalReading, CombineStates, PathKindState, EvidenceStates, Surroundings
  <2>3. readings'.local = LocalReading \/ readings'.local = readings.local
    BY <2>1
  <2>4. /\ readings'.github = readings.github /\ readings'.workflow = readings.workflow
        /\ readings'.access = readings.access
    BY <2>1
  <2>5. QED
    BY <1>1, <2>2, <2>3, <2>4 DEF CollectionInv, ReadingsInv, ReadyWasTrue, Held
<1>5. CASE ReadWorkflow
  <2>1. PICK f : readings' = [readings EXCEPT !.workflow = WorkflowReading(f)]
    BY <1>5 DEF ReadWorkflow, Read
  <2> DEFINE w == WorkflowReading(f)
  <2>2. /\ w.exact => world.blob = "yes" /\ SourceContractReady(world.file)
        /\ w.variable = "Pass" => world.variable = "yes"
    <3>1. CASE w = NoWorkflow \/ w = [NoWorkflow EXCEPT !.presence = "Absent"]
      BY <3>1 DEF NoWorkflow
    <3>2. CASE w = [presence |-> "Present",
                    exact |-> world.blob = "yes" /\ SourceContractReady(world.file),
                    variable |-> IF world.variable = "yes" THEN "Pass" ELSE "Fail"]
      <4> DEFINE e == world.blob = "yes" /\ SourceContractReady(world.file)
                 v == IF world.variable = "yes" THEN "Pass" ELSE "Fail"
      <4>1. e \in BOOLEAN
        OBVIOUS
      <4>2. w = [presence |-> "Present", exact |-> e, variable |-> v]
        BY <3>2
      <4> HIDE DEF e, v, w
      <4>3. w.exact = e /\ w.variable = v
        BY <4>1, <4>2
      <4>4. QED
        BY <4>3 DEF e, v
    <3>3. QED
      BY <3>1, <3>2 DEF WorkflowReading
  <2>3. w.exact => {"blob", "file"} \subseteq held
    BY <1>2, <2>2, HeldIs
  <2>4. w.variable = "Pass" => "variable" \in held
    BY <1>2, <2>2, HeldIs
  <2> HIDE DEF w
  <2>5. readings'.workflow = w \/ readings'.workflow = readings.workflow
    BY <2>1 DEF w
  <2>6. /\ readings'.github = readings.github /\ readings'.local = readings.local
        /\ readings'.access = readings.access
    BY <2>1
  <2>7. QED
    BY <1>1, <2>3, <2>4, <2>5, <2>6 DEF CollectionInv, ReadingsInv, ReadyWasTrue, Held
<1>6. CASE ReadAccess
  <2>1. PICK f, b : readings' = [readings EXCEPT !.access = AccessReading(f, b)]
    BY <1>6 DEF ReadAccess, Read
  <2> DEFINE a == AccessReading(f, b)
  <2>2. a.access = "Pass" => "access" \in held
    BY <1>2, HeldIs DEF AccessReading, NoAccess
  <2> HIDE DEF a
  <2>3. readings'.access = a \/ readings'.access = readings.access
    BY <2>1 DEF a
  <2>4. /\ readings'.github = readings.github /\ readings'.local = readings.local
        /\ readings'.workflow = readings.workflow
    BY <2>1
  <2>5. QED
    BY <1>1, <2>2, <2>3, <2>4 DEF CollectionInv, ReadingsInv, ReadyWasTrue, Held
<1>7. QED
  BY <1>3, <1>4, <1>5, <1>6

\* What is not blocked was read, piece by piece, and passed.
LEMMA NotBlockedWasTrue ==
  ASSUME CollectionInv, NEW live, NEW collector, Disposition(live, collector) # "Blocked"
  PROVE  BindingValid /\ held = Facts
<1>1. Evidence = {"Pass"}
  BY DEF Disposition
<1>2. /\ VerifyRouting = "Pass"
      /\ CombineStates({readings.github.identity, readings.local}) = "Pass"
  BY <1>1 DEF Evidence
<1>3. /\ VerifyTrustedWorkflow(readings.workflow) = "Pass"
      /\ VerifyRepositoryRunnerAccess(readings.access) = "Pass"
      /\ readings.github.identity = "Pass" /\ readings.github.label = "Pass"
      /\ readings.github.selector = "Present" /\ readings.github.online = "yes"
  BY <1>2 DEF VerifyRouting
<1>4. readings.local = "Pass"
  BY <1>2 DEF CombineStates, CollectionInv, ReadingsInv, EvidenceStates
<1>5. readings.workflow.exact /\ readings.workflow.variable = "Pass"
  BY <1>3 DEF VerifyTrustedWorkflow
<1>6. BindingValid /\ readings.access.access = "Pass"
  BY <1>3 DEF VerifyRepositoryRunnerAccess
<1>7. QED
  BY <1>3, <1>4, <1>5, <1>6, FactsAre DEF CollectionInv, ReadingsInv

LEMMA VerdictKeeps == ASSUME CollectionInv, Collect \/ Claim \/ Attest PROVE CollectionInv'
<1>1. CASE Collect \/ Claim
  <2>1. UNCHANGED <<attested, world, drifts, held, readings, binding>>
    BY <1>1 DEF Collect, Claim, Collecting
  <2>2. receipt' # "Blocked" => BindingValid /\ held = Facts
    BY <1>1, NotBlockedWasTrue DEF Collect, Claim
  <2>3. ReadyWasTrue'
    BY <2>1, <2>2 DEF ReadyWasTrue, BindingValid
  <2>4. QED
    BY <2>1, <2>3, ReadingsStay DEF CollectionInv, Held
<1>2. CASE Attest
  <2>1. /\ attested' /\ world' = Sound /\ drifts' = 0 /\ readings' = NoReadings
        /\ UNCHANGED <<held, binding>>
    BY <1>2 DEF Attest, Collecting
  <2>2. BindingValid /\ held = Facts
    BY <1>2, NotBlockedWasTrue DEF Attest
  <2>3. ReadyWasTrue'
    BY <2>1, <2>2 DEF ReadyWasTrue, BindingValid
  <2>4. ReadingsInv'
    BY <2>1 DEF ReadingsInv, NoReadings, Unread, NoWorkflow, NoAccess, EvidenceStates
  <2>5. QED
    BY <2>1, <2>3, <2>4, SoundIs DEF CollectionInv
<1>3. QED
  BY <1>1, <1>2

LEMMA CollectionStep ==
  ASSUME CollectionInv, [Next]_vars
  PROVE  CollectionInv'
<1>1. CASE UNCHANGED <<attested, collection>>
  BY <1>1 DEF collection, CollectionInv, ReadingsInv, ReadyWasTrue, BindingValid, Held
<1>2. CASE TransactionNext /\ UNCHANGED collection
  <2>1. UNCHANGED attested
    BY <1>2 DEF TransactionNext, Prepare, Save, Lose, Resume,
           Become, To, Mutating, RequestRestore, CompleteWithoutTransaction, RestoreFails,
           Advance, Interfere, PreOwnerGateBlocked, OwnerGateAccepted, AdmissionControlEstablished,
           AdvertisedCapacityQualified, PrimaryTrustedJobStarted, PrimaryTrustedJobPassed,
           PrimaryTrustedJobFailed, WithdrawalRequested, SelectorAbsenceObserved,
           NoNewAdmissionWitnessed, NoNewAdmissionWitnessFailed, ActiveWorkerCompleted,
           AchievedDrainedObserved, ReadvertiseRequested, SelectorPresenceObserved,
           ReconnectWitnessPassed, LiveConditionLost, ControllerLost, OwnershipBecameAmbiguous,
           BeginAutomaticRestore, RestorePassed, RestoreFailed
  <2>2. QED
    BY <1>1, <1>2, <2>1
<1>3. QED
  BY <1>1, <1>2, DriftKeeps, ReadKeeps, VerdictKeeps DEF Next, vars

LEMMA CollectionAlways == Spec => []CollectionInv
<1>1. CollectionInv /\ [Next]_vars => CollectionInv'
  BY CollectionStep
<1>2. QED
  BY CollectionStarts, <1>1, PTL DEF Spec

\* A collection that is complete, synthetic or live, was true, piece by piece.
THEOREM ReadyWasTrueHolds == Spec => []ReadyWasTrue
<1>1. CollectionInv => ReadyWasTrue
  BY DEF CollectionInv
<1>2. QED
  BY <1>1, CollectionAlways, PTL

\* What a collection finds ready the offline check of the artifacts does not refuse.
THEOREM OfflineAndLiveAgreeHolds == Spec => []OfflineAndLiveAgree
<1>1. ASSUME TransactionInv, CollectionInv, receipt = "PassSynthetic", drifts = 0
      PROVE  BindingValid /\ SourceContractReady(world.file)
  <2>1. ~attested
    BY <1>1 DEF TransactionInv
  <2>2. BindingValid /\ Held = Facts
    BY <1>1, <2>1 DEF CollectionInv, ReadyWasTrue
  <2>3. "file" \in Held
    BY <2>2, FactsAre
  <2>4. QED
    BY <1>1, <2>2, <2>3, HeldIs DEF CollectionInv
<1>2. TransactionInv /\ CollectionInv => OfflineAndLiveAgree
  BY <1>1 DEF OfflineAndLiveAgree, ArtifactsReady
<1>3. QED
  BY <1>2, InvAlways, CollectionAlways, PTL
-----------------------------------------------------------------------------
\* Types, of the transaction and of what its admission is judged by.

\* An event records the phase it leads to, and nothing else but the racing job.
LEMMA EventRecordsPhase ==
  ASSUME Events
  PROVE  /\ reached' = reached \cup {model'.phase}
         /\ racing' = racing \/ racing' \in BOOLEAN
         /\ UNCHANGED <<attested, saved>>
<1>1. \A c : Become(c) => /\ reached' = reached \cup {model'.phase}
                          /\ UNCHANGED <<attested, saved>>
  BY DEF Become
<1> HIDE DEF Become
<1>2. ASSUME NEW p, To(p) \/ Mutating(p)
      PROVE  /\ reached' = reached \cup {model'.phase} /\ racing' = racing
             /\ UNCHANGED <<attested, saved>>
  BY <1>1, <1>2 DEF To, Mutating
<1>3. ASSUME NEW q, RequestRestore(q) \/ CompleteWithoutTransaction(q) \/ RestoreFails
      PROVE  /\ reached' = reached \cup {model'.phase} /\ racing' = racing
             /\ UNCHANGED <<attested, saved>>
  BY <1>1, <1>3 DEF RequestRestore, CompleteWithoutTransaction, RestoreFails
<1> HIDE DEF To, Mutating, RequestRestore, CompleteWithoutTransaction, RestoreFails
<1>4. CASE Advance
  BY <1>1, <1>2, <1>3, <1>4
     DEF Advance, PreOwnerGateBlocked, OwnerGateAccepted, AdmissionControlEstablished,
         AdvertisedCapacityQualified, PrimaryTrustedJobStarted, PrimaryTrustedJobPassed,
         PrimaryTrustedJobFailed, WithdrawalRequested, SelectorAbsenceObserved,
         NoNewAdmissionWitnessed, NoNewAdmissionWitnessFailed, ActiveWorkerCompleted,
         AchievedDrainedObserved, ReadvertiseRequested, SelectorPresenceObserved,
         ReconnectWitnessPassed
<1>5. CASE Interfere
  BY <1>1, <1>2, <1>3, <1>5 DEF Interfere, LiveConditionLost, ControllerLost, OwnershipBecameAmbiguous
<1>6. CASE BeginAutomaticRestore \/ RestorePassed \/ RestoreFailed
  BY <1>1, <1>2, <1>3, <1>6 DEF BeginAutomaticRestore, RestorePassed, RestoreFailed
<1>7. QED
  BY <1>4, <1>5, <1>6 DEF Events

QualificationTyped ==
  /\ attested \in BOOLEAN /\ racing \in BOOLEAN /\ reached \subseteq Phases
  /\ binding \subseteq BindingParts \cup {"filled"}
  /\ drifts \in 0..MaxDrift
  /\ receipt \in {"none", "Blocked", "PassSynthetic", "ReadyForOwnerGate"}

LEMMA QualificationTypesStart == Init => QualificationTyped
<1>1. \A b \in Bindings : b \subseteq BindingParts \cup {"filled"}
  BY DEF Bindings
<1>2. 0 \in 0..MaxDrift
  BY MaxDriftAssumption
<1>3. QED
  BY <1>1, <1>2 DEF Init, TransactionInit, QualificationTyped

LEMMA QualificationTypesKept ==
  ASSUME QualificationTyped, TransactionInv, [Next]_vars PROVE QualificationTyped'
<1>1. CASE Events /\ UNCHANGED collection
  <2>1. model'.phase \in Phases
    BY <1>1, EventKeepsForm DEF TransactionInv, WellFormed, Checkpoints
  <2>2. QED
    BY <1>1, <2>1, EventRecordsPhase DEF QualificationTyped, collection
<1>2. CASE (Prepare \/ Save \/ Lose \/ Resume) /\ UNCHANGED collection
  BY <1>2 DEF Prepare, Become, Save, Lose, Resume, NoTransaction, Phases, QualificationTyped, collection
<1>3. CASE Drift
  BY <1>3, MaxDriftAssumption
     DEF MaxDriftAssumption, Drift, Collecting, transaction, QualificationTyped
<1>4. CASE ReadGithub \/ ReadLocal \/ ReadWorkflow \/ ReadAccess
  BY <1>4 DEF ReadGithub, ReadLocal, ReadWorkflow, ReadAccess, Read, Collecting, transaction,
              QualificationTyped
<1>5. CASE Collect \/ Claim \/ Attest
  <2>1. \A live, collector \in BOOLEAN :
          Disposition(live, collector) \in {"Blocked", "PassSynthetic", "ReadyForOwnerGate"}
    BY DEF Disposition
  <2>2. CASE Collect \/ Claim
    <3>1. receipt' \in {"Blocked", "PassSynthetic", "ReadyForOwnerGate"}
      BY <2>1, <2>2 DEF Collect, Claim
    <3>2. QED
      BY <2>2, <3>1 DEF Collect, Claim, Collecting, transaction, QualificationTyped
  <2>3. CASE Attest
    <3>1. 0 \in 0..MaxDrift
      BY MaxDriftAssumption
    <3>2. QED
      BY <2>3, <3>1 DEF Attest, Collecting, transaction, QualificationTyped
  <2>4. QED
    BY <1>5, <2>2, <2>3
<1>6. CASE UNCHANGED vars
  BY <1>6 DEF vars, transaction, collection, QualificationTyped
<1>7. QED
  BY <1>1, <1>2, <1>3, <1>4, <1>5, <1>6 DEF Next, TransactionNext, Events

\* Checkpoint, attestation, binding, surroundings and receipt keep their types through
\* every event, crash, resumption and collection (H1TransactionModel in qualification.rs,
\* the collection of h1_live.rs), for any number of changes meanwhile.
THEOREM QualificationTypeCorrect == Spec => []TypeOK
<1>1. ASSUME QualificationTyped, TransactionInv, CollectionInv PROVE TypeOK
  <2>1. TransactionTypeOK
    BY <1>1 DEF QualificationTyped, TransactionInv, Live, Durable, WellFormed, TransactionTypeOK
  <2>2. \A f \in Facts : world[f] \in Faults[f] \cup {Sound[f]}
    <3>1. world \in Surroundings
      BY <1>1 DEF CollectionInv
    <3>2. /\ Sound["selector"] = "Present" /\ Sound["file"] = "frozen" /\ Sound["paths"] = "plain"
          /\ \A f \in Facts \ {"selector", "file", "paths"} : Sound[f] = "yes"
      BY FactsAre DEF Sound
    <3>3. ASSUME NEW f \in {"online", "sole", "registered", "credential", "blob", "variable", "access"}
          PROVE  world[f] \in {"yes", "no"} /\ Faults[f] = {"no"} /\ Sound[f] = "yes"
      BY <3>1, <3>2, FactsAre DEF Surroundings, Faults
    <3>4. world["selector"] \in Faults["selector"] \cup {Sound["selector"]}
      BY <3>1, <3>2 DEF Surroundings, Faults
    <3>5. world["file"] \in Faults["file"] \cup {Sound["file"]}
      BY <3>1, <3>2 DEF Surroundings, Faults, Sources
    <3>6. world["paths"] \in Faults["paths"] \cup {Sound["paths"]}
      BY <3>1, <3>2 DEF Surroundings, Faults
    <3>7. world["owned"] \in Faults["owned"] \cup {Sound["owned"]}
      BY <3>1, <3>2, FactsAre DEF Surroundings, Faults
    <3>8. QED
      BY <3>3, <3>4, <3>5, <3>6, <3>7, FactsAre
  <2>3. QED
    BY <1>1, <2>1, <2>2 DEF QualificationTyped, CollectionInv, TypeOK
<1>2. QualificationTyped /\ TransactionInv /\ [Next]_vars => QualificationTyped'
  BY QualificationTypesKept
<1>3. QED
  BY <1>1, <1>2, QualificationTypesStart, InvAlways, CollectionAlways, PTL DEF Spec
================================================================================
