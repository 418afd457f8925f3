----------------------------- MODULE H1Transaction -----------------------------
(***************************************************************************)
(* The transaction of src/src/qualification.rs that qualifies the capacity *)
(* controls on a real runner: its phases, the events that advance it, the  *)
(* verdict, the one automatic restore, and its resumption from a saved     *)
(* checkpoint after the controller process was lost.  The controller calls *)
(* apply with any event at any time; what apply refuses changes nothing.   *)
(***************************************************************************)
VARIABLES
  attested,    \* a live readiness attestation exists
  model,       \* H1TransactionModel of the running controller, or NoTransaction
  saved,       \* the checkpoint on disk, or NoTransaction
  reached,     \* every phase that any controller brought this transaction to
  racing       \* a job assigned during the withdrawal is still running

transaction == <<model, saved, reached, racing>>

Sequence ==
  {"AdmissionControlEstablished", "Advertised", "PrimaryJobRunning", "PrimaryJobCompleted",
   "Withdrawing", "SelectorAbsent", "NoNewAdmissionWitnessed", "Drained", "ReAdvertising",
   "ReAdvertised"}

Terminal == {"Complete", "RecoveryRequired"}

Phases ==
  Sequence \cup Terminal
  \cup {"Prepared", "OwnerAuthorized", "DrainPending", "RestorePending", "Restoring"}

Checkpoints ==
  [phase: Phases, qualification: {"none", "Pass", "Fail", "Blocked"},
   restore: {"none", "Pass", "Fail"}, mutated: BOOLEAN, attempted: BOOLEAN]

NoTransaction ==
  [phase |-> "none", qualification |-> "none", restore |-> "none",
   mutated |-> FALSE, attempted |-> FALSE]

TransactionTypeOK ==
  /\ attested \in BOOLEAN
  /\ model \in Checkpoints \cup {NoTransaction}
  /\ saved \in Checkpoints \cup {NoTransaction}
  /\ reached \subseteq Phases
  /\ racing \in BOOLEAN

\* H1TransactionCheckpoint::is_valid
IsValid(c) ==
  /\ c.phase \in Phases
  /\ IF c.phase \in Terminal \cup {"RestorePending", "Restoring"}
     THEN c.qualification # "none"
     ELSE c.qualification = "none" /\ ~c.attempted
  /\ c.restore = CASE c.phase = "Complete"         -> "Pass"
                   [] c.phase = "RecoveryRequired" -> "Fail"
                   [] OTHER                        -> "none"
  /\ c.phase \in {"Prepared", "OwnerAuthorized"} => ~c.mutated
  /\ c.phase \in {"Withdrawing", "SelectorAbsent", "DrainPending", "NoNewAdmissionWitnessed",
                  "Drained", "ReAdvertising", "ReAdvertised"} => c.mutated
  /\ c.phase = "RestorePending" => ~c.attempted
  /\ c.phase = "Restoring" => c.attempted

-----------------------------------------------------------------------------
TransactionInit ==
  /\ attested = FALSE
  /\ model = NoTransaction /\ saved = NoTransaction /\ reached = {} /\ racing = FALSE

In(phases) == model.phase \in phases

Become(checkpoint) ==
  /\ model' = checkpoint
  /\ reached' = reached \cup {checkpoint.phase}
  /\ UNCHANGED <<attested, saved>>

To(phase) == Become([model EXCEPT !.phase = phase]) /\ UNCHANGED racing

Mutating(phase) == Become([model EXCEPT !.phase = phase, !.mutated = TRUE]) /\ UNCHANGED racing

\* get_or_insert
Verdict(qualification) ==
  IF model.qualification = "none" THEN qualification ELSE model.qualification

RequestRestore(qualification) ==
  /\ Become([model EXCEPT !.phase = "RestorePending", !.qualification = Verdict(qualification)])
  /\ UNCHANGED racing

CompleteWithoutTransaction(qualification) ==
  /\ Become([model EXCEPT !.phase = "Complete", !.qualification = qualification, !.restore = "Pass"])
  /\ UNCHANGED racing

RestoreFails ==
  Become([model EXCEPT !.phase = "RecoveryRequired", !.restore = "Fail"]) /\ UNCHANGED racing

-----------------------------------------------------------------------------
Prepare ==
  /\ attested /\ model = NoTransaction /\ saved = NoTransaction
  /\ Become([NoTransaction EXCEPT !.phase = "Prepared"])
  /\ UNCHANGED racing

PreOwnerGateBlocked == In({"Prepared"}) /\ CompleteWithoutTransaction("Blocked")

OwnerGateAccepted == In({"Prepared"}) /\ To("OwnerAuthorized")

AdmissionControlEstablished ==
  /\ In({"OwnerAuthorized"})
  /\ To("AdmissionControlEstablished") \/ Mutating("AdmissionControlEstablished")

AdvertisedCapacityQualified == In({"AdmissionControlEstablished"}) /\ To("Advertised")

PrimaryTrustedJobStarted == In({"Advertised"}) /\ To("PrimaryJobRunning")

PrimaryTrustedJobPassed == In({"PrimaryJobRunning"}) /\ To("PrimaryJobCompleted")

PrimaryTrustedJobFailed == In({"PrimaryJobRunning"}) /\ RequestRestore("Fail")

WithdrawalRequested == In({"PrimaryJobCompleted"}) /\ Mutating("Withdrawing")

SelectorAbsenceObserved == In({"Withdrawing"}) /\ To("SelectorAbsent")

\* Defective variant: the racing job is not waited for.
NoNewAdmissionWitnessedAnyway ==
  /\ In({"SelectorAbsent"})
  /\ Become([model EXCEPT !.phase = "NoNewAdmissionWitnessed"])
  /\ racing' \in BOOLEAN

\* With a job that was assigned while the selector went away, or without one.
NoNewAdmissionWitnessed ==
  /\ In({"SelectorAbsent"})
  /\ racing' \in BOOLEAN
  /\ Become([model EXCEPT !.phase = IF racing' THEN "DrainPending" ELSE "NoNewAdmissionWitnessed"])

NoNewAdmissionWitnessFailed ==
  In({"SelectorAbsent", "DrainPending"}) /\ RequestRestore("Fail")

ActiveWorkerCompleted ==
  /\ In({"DrainPending"})
  /\ racing' = FALSE
  /\ Become([model EXCEPT !.phase = "NoNewAdmissionWitnessed"])

AchievedDrainedObserved == In({"NoNewAdmissionWitnessed"}) /\ To("Drained")

ReadvertiseRequested == In({"Drained"}) /\ Mutating("ReAdvertising")

SelectorPresenceObserved == In({"ReAdvertising"}) /\ To("ReAdvertised")

\* Defective variant: all is well, and the baseline is left as it is.
ReconnectWitnessCompletes == In({"ReAdvertised"}) /\ CompleteWithoutTransaction("Pass")

ReconnectWitnessPassed == In({"ReAdvertised"}) /\ RequestRestore("Pass")

\* RoutingUnavailable, ActiveJobTimedOut, SelectorObservationUnknown, AgentLost.
LiveConditionLost ==
  In(Phases \ (Terminal \cup {"Prepared"})) /\ RequestRestore("Blocked")

ControllerLost ==
  \/ In({"Restoring"}) /\ RestoreFails
  \/ In(Phases \ (Terminal \cup {"Prepared", "Restoring"})) /\ RequestRestore("Blocked")

\* Defective variant: the attempt is not marked.
BeginAutomaticRestoreUnmarked == In({"RestorePending"}) /\ To("Restoring")

BeginAutomaticRestore ==
  /\ In({"RestorePending"})
  /\ Become([model EXCEPT !.phase = "Restoring", !.attempted = TRUE])
  /\ UNCHANGED racing

RestorePassed ==
  /\ In({"Restoring"})
  /\ Become([model EXCEPT !.phase = "Complete", !.restore = "Pass"])
  /\ UNCHANGED racing

\* RestoreFailed, RestoreInterrupted.
RestoreFailed == In({"Restoring"}) /\ RestoreFails

OwnershipBecameAmbiguous ==
  \/ In({"Prepared"}) /\ CompleteWithoutTransaction("Blocked")
  \/ /\ In(Phases \ (Terminal \cup {"Prepared"}))
     /\ Become([model EXCEPT !.phase = "RecoveryRequired", !.restore = "Fail",
                             !.qualification = Verdict("Blocked")])
     /\ UNCHANGED racing

-----------------------------------------------------------------------------
\* The controller writes checkpoint() down ...
Save ==
  /\ model # NoTransaction /\ saved # model
  /\ saved' = model
  /\ UNCHANGED <<attested, model, reached, racing>>

\* ... may be killed before or after it does ...
Lose ==
  /\ model # NoTransaction
  /\ model' = NoTransaction
  /\ UNCHANGED <<attested, saved, reached, racing>>

\* ... and resumes it when the private envelope is verified.
Resume ==
  /\ model = NoTransaction /\ IsValid(saved)
  /\ model' = saved
  /\ UNCHANGED <<attested, saved, reached, racing>>

Advance ==
  \/ PreOwnerGateBlocked \/ OwnerGateAccepted \/ AdmissionControlEstablished
  \/ AdvertisedCapacityQualified \/ PrimaryTrustedJobStarted \/ PrimaryTrustedJobPassed
  \/ PrimaryTrustedJobFailed \/ WithdrawalRequested \/ SelectorAbsenceObserved
  \/ NoNewAdmissionWitnessed \/ NoNewAdmissionWitnessFailed \/ ActiveWorkerCompleted
  \/ AchievedDrainedObserved \/ ReadvertiseRequested \/ SelectorPresenceObserved
  \/ ReconnectWitnessPassed

Interfere == LiveConditionLost \/ ControllerLost \/ OwnershipBecameAmbiguous

TransactionNext ==
  \/ Prepare \/ Advance \/ Interfere
  \/ BeginAutomaticRestore \/ RestorePassed \/ RestoreFailed
  \/ Save \/ Lose \/ Resume

-----------------------------------------------------------------------------
\* Properties.

\* docs/qualification/h1-readiness-contract.md lines 180-198: a qualification passes
\* only after the whole sequence, whichever controllers carried it and however
\* often it was resumed (lines 201-203: and the racing job was let finish).
PassNeedsTheSequence ==
  \A c \in {model, saved} :
    /\ c.qualification = "Pass" => Sequence \subseteq reached
    /\ c.phase \in {"Drained", "ReAdvertising", "ReAdvertised"} => ~racing

\* docs/qualification/h1-readiness-contract.md lines 234-237: past the Owner gate a
\* transaction is complete only with a restore that was attempted and passed, and
\* whatever was mutated is either restored or handed to the Owner.
RestoredOrHandedOver ==
  \A c \in {model, saved} :
    /\ c.phase = "Complete" => c.restore = "Pass" /\ (c.mutated => c.attempted)
    /\ c.phase = "Complete" /\ ~c.attempted => c.qualification = "Blocked" /\ ~c.mutated
    /\ c.phase = "RecoveryRequired" => c.restore = "Fail"

\* The only checkpoint of this code's own making that a later controller refuses is
\* that of a restore which was begun, set back by a lost condition, and not begun again.
CheckpointsResume ==
  (saved # NoTransaction /\ ~IsValid(saved)) => saved.phase = "RestorePending" /\ saved.attempted

\* A verdict that was written down is never replaced by another.
VerdictIsFinal ==
  [][saved.qualification # "none" => saved'.qualification = saved.qualification]_saved
================================================================================
