-------------------------------- MODULE Update --------------------------------
(***************************************************************************)
(* The update transaction of src/src/update.rs: stage a verified payload,  *)
(* activate it at an idle safe point or defer, roll back when it is not    *)
(* healthy, reconcile what was interrupted.  The journal and the receipt   *)
(* are two files, each replaced atomically, beside an installation that    *)
(* has its own ledger.                                                     *)
(***************************************************************************)
EXTENDS Deployed

VARIABLES
  journal,     \* state/update-transaction.json
  receipt,     \* state/update-receipt.json: its outcome; "old" when it is of an earlier
               \* transaction, "none" when there is none
  meddled      \* the active version was changed beside the transaction

updateVars == <<journal, receipt, meddled>>

Terminal == {"Committed", "RolledBack", "RecoveredRollback"}
UpdatePhases == {"Intent", "ReadyToActivate", "DeferredForActiveJob", "Switched"} \cup Terminal

Transaction(phase, from, to, digest) ==
  [phase |-> phase, previous |-> from, requested |-> to, digest |-> digest]

NoTransaction == Transaction("none", "none", "none", "none")

Outcomes ==
  Terminal \cup {"DeferredForActiveJob", "RecoveredStaged"}

\* The outcome a receipt states for the phase that was just written.
Outcome(phase) == IF phase = "ReadyToActivate" THEN "RecoveredStaged" ELSE phase

\* The version a terminal journal stands for.
Expected == IF journal.phase = "Committed" THEN journal.requested ELSE journal.previous

Records(phase) == journal' = [journal EXCEPT !.phase = phase] /\ UNCHANGED <<receipt, meddled>>

UpdateTypeOK ==
  /\ journal \in [phase: UpdatePhases, previous: Versions, requested: Versions, digest: Digests]
                 \cup {NoTransaction}
  /\ receipt \in Outcomes \cup {"none", "old"}
  /\ meddled \in BOOLEAN

UpdateInit == journal = NoTransaction /\ receipt = "none" /\ meddled = FALSE

-----------------------------------------------------------------------------
\* stage

\* The intent is recorded before the slot is written.
Stage ==
  /\ pc = "idle" /\ Open
  /\ journal.phase \in Terminal \cup {"none"}
  /\ \E v \in Versions, digest \in Digests :
       /\ active \notin {"none", v} /\ slots[v] \in {"none", digest}
       /\ journal' = Transaction("Intent", active, v, digest)
  /\ receipt' = IF receipt = "none" THEN "none" ELSE "old"
  /\ meddled' = FALSE
  /\ Go("stage-install")
  /\ UNCHANGED installation

\* install_with_payload_sha256 hashes the payload again.
StageInstall(now) ==
  /\ pc = "stage-install"
  /\ IF now = journal.digest
     THEN Installs(journal.requested, now) /\ Go("stage-ready")
     ELSE Go("stage-mismatch") /\ UNCHANGED installation
  /\ UNCHANGED updateVars

StageReady ==
  /\ pc = "stage-ready"
  /\ Records("ReadyToActivate")
  /\ Give("done")
  /\ UNCHANGED installation

StageMismatch ==
  /\ pc = "stage-mismatch" /\ Open
  /\ IF active = journal.previous
     THEN Records("RecoveredRollback") /\ Go("receipt")
     ELSE Give("drift") /\ UNCHANGED updateVars
  /\ UNCHANGED installation

-----------------------------------------------------------------------------
\* activate; an observation of the safe point that is Unknown refuses.

ActivateDefers ==
  /\ pc = "idle" /\ root = "there"
  /\ journal.phase \in {"ReadyToActivate", "DeferredForActiveJob"}
  /\ Records("DeferredForActiveJob")
  /\ Go("receipt")
  /\ UNCHANGED installation

ActivateResumes ==
  /\ pc = "idle" /\ root = "there" /\ journal.phase = "DeferredForActiveJob"
  /\ Records("ReadyToActivate")
  /\ Go("activate-select")
  /\ UNCHANGED installation

ActivateSelects ==
  /\ \/ pc = "idle" /\ journal.phase = "ReadyToActivate"
     \/ pc = "activate-select"
  /\ Selects(journal.requested)
  /\ Go("activate-switched")
  /\ UNCHANGED updateVars

\* The health that was observed is an argument of the call.
ActivateSwitched ==
  /\ pc = "activate-switched"
  /\ Records("Switched")
  /\ Go("activate-commit") \/ Go("activate-back")
  /\ UNCHANGED installation

\* Defective variant: the receipt is written before the journal.
ActivateCommitsReceiptFirst ==
  /\ pc = "activate-commit"
  /\ receipt' = "Committed" /\ UNCHANGED <<journal, meddled>>
  /\ Go("receipt")
  /\ UNCHANGED installation

ActivateCommits ==
  /\ pc = "activate-commit"
  /\ Records("Committed")
  /\ Go("receipt")
  /\ UNCHANGED installation

\* Defective variant: the rollback is recorded before it is done.
ActivateBackRecordedFirst ==
  /\ pc = "activate-back"
  /\ Records("RolledBack")
  /\ Go("receipt")
  /\ UNCHANGED installation

ActivateBack ==
  /\ pc = "activate-back"
  /\ Selects(journal.previous)
  /\ Go("activate-rolled")
  /\ UNCHANGED updateVars

ActivateRolled ==
  /\ pc = "activate-rolled"
  /\ Records("RolledBack")
  /\ Go("receipt")
  /\ UNCHANGED installation

-----------------------------------------------------------------------------
\* write_receipt, and ensure_terminal_receipt of a terminal journal.
WriteReceipt ==
  /\ \/ pc = "receipt"
     \/ pc = "idle" /\ Open /\ journal.phase \in Terminal /\ active = Expected
  /\ receipt' = Outcome(journal.phase)
  /\ Give("done")
  /\ UNCHANGED <<installation, journal, meddled>>

\* reconcile

\* Defective variant: a switched journal cannot be told from somebody else's change.
ReconcileRefusesSwitched ==
  /\ pc = "idle" /\ Open /\ journal # NoTransaction
  /\ IF journal.phase \in Terminal THEN active # Expected
     ELSE active # journal.previous
  /\ Give("drift")
  /\ UNCHANGED <<installation, updateVars>>

ReconcileRefuses ==
  /\ pc = "idle" /\ Open /\ journal # NoTransaction
  /\ IF journal.phase \in Terminal THEN active # Expected
     ELSE active \notin {journal.previous, journal.requested}
  /\ Give("drift")
  /\ UNCHANGED <<installation, updateVars>>

StagedWhole ==
  /\ journal.phase = "Intent" /\ active = journal.previous
  /\ slots[journal.requested] = journal.digest

ReconcileStaged ==
  /\ pc = "idle" /\ Open /\ StagedWhole
  /\ Records("ReadyToActivate")
  /\ Go("receipt")
  /\ UNCHANGED installation

ReconcileSelects ==
  /\ pc = "idle" /\ Open /\ journal.phase \in UpdatePhases \ Terminal
  /\ active = journal.requested
  /\ Selects(journal.previous)
  /\ Go("reconcile-back")
  /\ UNCHANGED updateVars

ReconcileBack ==
  /\ \/ pc = "reconcile-back"
     \/ /\ pc = "idle" /\ Open /\ journal.phase \in UpdatePhases \ Terminal
        /\ active = journal.previous /\ ~StagedWhole
  /\ Records("RecoveredRollback")
  /\ Go("receipt")
  /\ UNCHANGED installation

\* clear_terminal_journal
ClearJournal ==
  /\ pc = "idle" /\ root = "there" /\ journal.phase \in Terminal
  /\ journal' = NoTransaction /\ UNCHANGED <<receipt, meddled>>
  /\ Go("clear-receipt")
  /\ UNCHANGED installation

ClearReceipt ==
  /\ pc = "clear-receipt"
  /\ receipt' = "none"
  /\ Give("done")
  /\ UNCHANGED <<installation, journal, meddled>>

\* Another user of the library selects a version.
SelectBeside ==
  /\ pc = "idle"
  /\ \E v \in Versions : Selects(v)
  /\ meddled' = (journal # NoTransaction)
  /\ UNCHANGED <<control, journal, receipt>>

UpdateNext ==
  \/ Stage \/ (\E now \in Digests : StageInstall(now)) \/ StageReady \/ StageMismatch
  \/ ActivateDefers \/ ActivateResumes \/ ActivateSelects \/ ActivateSwitched
  \/ ActivateCommits \/ ActivateBack \/ ActivateRolled
  \/ WriteReceipt
  \/ ReconcileRefuses \/ ReconcileStaged \/ ReconcileSelects \/ ReconcileBack
  \/ ClearJournal \/ ClearReceipt \/ SelectBeside

-----------------------------------------------------------------------------
\* Properties.

\* Whatever was interrupted, the journal tells the truth about the installation unless
\* somebody changed the active version beside it: a finished update, and one that has
\* not begun to switch, name the version that is active, and an update that may still
\* be, or was, activated is installed with the very payload that was asked for.
JournalIsTrue ==
  (Open /\ ~meddled) =>
    /\ journal.phase \in Terminal => active = Expected
    /\ journal.phase = "Intent" => active = journal.previous
    /\ journal.phase \in {"ReadyToActivate", "DeferredForActiveJob", "Switched"} =>
         active \in {journal.previous, journal.requested}
    /\ journal.phase \in {"ReadyToActivate", "DeferredForActiveJob", "Switched", "Committed"} =>
         slots[journal.requested] = journal.digest

\* A receipt that says how the transaction ended is never ahead of the journal, so an
\* update that is acknowledged is not rolled back by a later recovery, nor the reverse.
ReceiptFollowsJournal ==
  (receipt \in Terminal /\ journal # NoTransaction) => journal.phase = receipt

\* So both records of an update, wherever it is cut short: the journal is true of the
\* installation (update.rs writes it after each switch) and the receipt of the journal.
RecordsAreTrue == JournalIsTrue /\ ReceiptFollowsJournal

\* An update that was interrupted, at whatever step and however often, can be
\* reconciled: only a change by somebody else is answered as drift.
DriftIsForeign == answer = "drift" => meddled
================================================================================
