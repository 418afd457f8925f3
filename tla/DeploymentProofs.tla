--------------------------- MODULE DeploymentProofs ---------------------------
(***************************************************************************)
(* Theorems about module Deployment, for all versions and payloads.        *)
(***************************************************************************)
EXTENDS Deployment, TLAPS

-----------------------------------------------------------------------------
\* The inductive invariant.

Transactions ==
  [phase: UpdatePhases, previous: Versions, requested: Versions, digest: Digests]

\* Where there is no root, there is no transaction, version or receipt.
RootInv ==
  /\ root # "there" =>
       journal = NoTransaction /\ receipt = "none" /\ slots = Fresh /\ active = "none"
  /\ root = "empty" => detached = "none"
  /\ journal # NoTransaction => active # "none"

\* JournalIsTrue, also while the root is being removed.
Truthful ==
  ~meddled =>
    /\ journal.phase \in Terminal => active = Expected
    /\ journal.phase = "Intent" => active = journal.previous
    /\ journal.phase \in {"ReadyToActivate", "DeferredForActiveJob", "Switched"} =>
         active \in {journal.previous, journal.requested}
    /\ journal.phase \in {"ReadyToActivate", "DeferredForActiveJob", "Switched", "Committed"} =>
         slots[journal.requested] = journal.digest

\* What the calls of an update have come to.
UpdatePosition ==
  /\ pc \in {"stage-install", "stage-ready", "stage-mismatch"} => journal.phase = "Intent"
  /\ pc = "stage-install" => slots[journal.requested] \in {"none", journal.digest}
  /\ pc = "stage-ready" => slots[journal.requested] = journal.digest
  /\ pc \in {"activate-select", "activate-switched"} => journal.phase = "ReadyToActivate"
  /\ pc = "activate-switched" => active = journal.requested
  /\ pc \in {"activate-commit", "activate-back", "activate-rolled"} => journal.phase = "Switched"
  /\ pc \in {"activate-commit", "activate-back"} => active = journal.requested
  /\ pc \in {"activate-rolled", "reconcile-back"} => active = journal.previous
  /\ pc = "reconcile-back" => journal.phase \in UpdatePhases \ Terminal
  /\ pc = "receipt" =>
       journal.phase \in Terminal \cup {"DeferredForActiveJob", "ReadyToActivate"}
  /\ pc = "clear-receipt" => root = "there" /\ journal = NoTransaction

UpdateInv == RootInv /\ Truthful /\ UpdatePosition /\ ReceiptFollowsJournal

AllHome == \A p \in Pieces : place[p] = "home"

\* How far a removal has come.
RemovalInv ==
  /\ plan # "none" => root = "there" /\ detached = "none"
  /\ root = "there" /\ plan \in {"torn", "Intent"} => AllHome
  /\ root = "there" /\ plan = "none" => AllHome \/ done
  /\ plan = "Quarantined" => \A p \in Owned : place[p] # "home"
  /\ plan = "Cleaned" => \A p \in Owned : place[p] = "gone"
  /\ done => /\ root = "there" /\ plan \in {"Cleaned", "none"}
             /\ place["ledger"] = "gone" /\ detached = "none"
  /\ autostart = "ours" => /\ root = "there" /\ active # "none"
                           /\ plan \in {"none", "torn", "Intent"} /\ ~done

RemovalPosition ==
  /\ pc = "plan" => plan = "torn"
  /\ pc \in {"autostart", "autostart-removed"} => plan = "Intent"
  /\ pc = "autostart-removed" => autostart # "ours"
  /\ pc = "quarantine" => plan = "AutostartRemoved"
  /\ pc = "clean" => plan = "Quarantined"
  /\ pc \in {"receipt-removal", "end-plan"} => plan = "Cleaned"
  /\ pc \in {"tidy", "detach"} => plan = "none"
  /\ pc \in {"end-plan", "tidy", "detach"} => done
  /\ pc = "detach" => journal = NoTransaction /\ receipt = "none"
  /\ pc \in {"sweep", "sweeping"} => root = "none"
  /\ pc = "sweep" => detached \in {"whole", "foreign"}
  /\ pc = "sweeping" => detached = "partial"
  /\ pc = "enable" => root = "there" /\ plan = "none" /\ ~done /\ active # "none"
  /\ pc = "install" => accepted # Nothing

\* What was answered last is still so.
AnswerInv ==
  /\ answer = "drift" => meddled /\ ~done /\ journal # NoTransaction
  /\ RefusalHasACause

DInv == TypeOK /\ UpdateInv /\ RemovalInv /\ RemovalPosition /\ AnswerInv

-----------------------------------------------------------------------------
LEMMA UpdateSteps == ASSUME DInv, UpdateNext, UNCHANGED <<plan, uninstallVars, packageVars>> PROVE
  DInv'
<1>1. ASSUME Stage PROVE DInv'
  <2>1. PICK v \in Versions, digest \in Digests :
          /\ active \notin {"none", v} /\ slots[v] \in {"none", digest}
          /\ journal' = [phase |-> "Intent", previous |-> active, requested |-> v, digest |-> digest]
    BY <1>1 DEF Stage, Transaction
  <2>2. active \in Versions /\ journal' \in Transactions /\ journal' # NoTransaction
    BY <2>1 DEF DInv, TypeOK, Transactions, UpdatePhases, NoTransaction, Transaction
  <2>3. TypeOK'
    <3>1. UpdateTypeOK'
      BY <1>1, <2>2 DEF Stage, DInv, TypeOK, UpdateTypeOK, Transactions
    <3>2. UninstallTypeOK'
      BY DEF DInv, TypeOK, UninstallTypeOK, uninstallVars
    <3> QED
      BY <1>1, <3>1, <3>2 DEF Stage, DInv, TypeOK, Positions, Go, installation, packageVars
  <2>4. UpdateInv'
    BY <1>1, <2>1, <2>2 DEF Stage, DInv, TypeOK, UpdateTypeOK, UpdateInv, RootInv, Truthful,
       UpdatePosition, ReceiptFollowsJournal, Terminal, Open, Go, installation, uninstallVars
  <2>5. (RemovalInv /\ RemovalPosition)'
    BY <1>1 DEF Stage, DInv, RemovalInv, RemovalPosition, AllHome, Owned, Go, installation,
       uninstallVars, packageVars
  <2>6. AnswerInv'
    BY <1>1 DEF Stage, AnswerInv, RefusalHasACause, Go
  <2> QED BY <2>3, <2>4, <2>5, <2>6 DEF DInv
<1>2. ASSUME \E now \in Digests : StageInstall(now) PROVE DInv'
  <2>1. TypeOK'
    BY <1>2 DEF StageInstall, Installs, Go, DInv, TypeOK, UpdateTypeOK, UninstallTypeOK,
       Positions, NoTransaction, Transaction, installation, updateVars, uninstallVars, packageVars
  <2>2. UpdateInv'
    BY <1>2 DEF StageInstall, Installs, Go, DInv, TypeOK, UpdateTypeOK, UpdateInv, RootInv,
       Truthful, UpdatePosition, ReceiptFollowsJournal, Expected, NoTransaction, Transaction,
       installation, updateVars
  <2>3. (RemovalInv /\ RemovalPosition)'
    BY <1>2 DEF StageInstall, Open, Installs, Go, DInv, RemovalInv, RemovalPosition, AllHome,
       Owned, installation, uninstallVars
  <2>4. AnswerInv'
    BY <1>2 DEF StageInstall, Go, AnswerInv, RefusalHasACause
  <2> QED BY <2>1, <2>2, <2>3, <2>4 DEF DInv
<1>3. ASSUME StageReady PROVE DInv'
  <2>1. TypeOK'
    BY <1>3 DEF StageReady, Give, Records, DInv, TypeOK, UpdateTypeOK, UninstallTypeOK, Positions,
       UpdateInv, UpdatePosition, NoTransaction, Transaction, UpdatePhases, installation,
       uninstallVars, packageVars
  <2>2. UpdateInv'
    BY <1>3 DEF StageReady, Give, Records, DInv, UpdateInv, RootInv, Truthful, UpdatePosition,
       ReceiptFollowsJournal, Terminal, NoTransaction, Transaction, installation
  <2>3. (RemovalInv /\ RemovalPosition)'
    BY <1>3 DEF StageReady, Give, DInv, RemovalInv, RemovalPosition, AllHome, Owned, installation,
       uninstallVars
  <2>4. AnswerInv'
    BY <1>3 DEF StageReady, Give, AnswerInv, RefusalHasACause
  <2> QED BY <2>1, <2>2, <2>3, <2>4 DEF DInv
<1>4. ASSUME StageMismatch PROVE DInv'
  <2>1. TypeOK'
    BY <1>4 DEF StageMismatch, Go, Give, Records, DInv, TypeOK, UpdateTypeOK, UninstallTypeOK,
       Positions, UpdateInv, UpdatePosition, Terminal, NoTransaction, Transaction, UpdatePhases,
       installation, updateVars, uninstallVars, packageVars
  <2>2. UpdateInv'
    BY <1>4 DEF StageMismatch, Go, Give, Records, DInv, TypeOK, UpdateTypeOK, UpdateInv, RootInv,
       Truthful, UpdatePosition, ReceiptFollowsJournal, Expected, Terminal, NoTransaction,
       Transaction, installation, updateVars
  <2>3. (RemovalInv /\ RemovalPosition)'
    BY <1>4 DEF StageMismatch, Open, Go, Give, DInv, RemovalInv, RemovalPosition, AllHome,
       installation, uninstallVars
  <2>4. AnswerInv'
    BY <1>4 DEF StageMismatch, Open, Go, Give, DInv, UpdateInv, Truthful, UpdatePosition,
       RemovalInv, AnswerInv, RefusalHasACause, NoTransaction, Transaction, updateVars,
       uninstallVars
  <2> QED BY <2>1, <2>2, <2>3, <2>4 DEF DInv
<1>5. ASSUME ActivateDefers PROVE DInv'
  <2>1. TypeOK'
    BY <1>5 DEF ActivateDefers, Go, Records, DInv, TypeOK, UpdateTypeOK, UninstallTypeOK,
       Positions, NoTransaction, Transaction, UpdatePhases, installation, uninstallVars,
       packageVars
  <2>2. UpdateInv'
    BY <1>5 DEF ActivateDefers, Go, Records, DInv, UpdateInv, RootInv, Truthful, UpdatePosition,
       ReceiptFollowsJournal, Terminal, NoTransaction, Transaction, installation
  <2>3. (RemovalInv /\ RemovalPosition)'
    BY <1>5 DEF ActivateDefers, Go, DInv, RemovalInv, RemovalPosition, AllHome, Owned,
       installation, uninstallVars
  <2>4. AnswerInv'
    BY <1>5 DEF ActivateDefers, Go, AnswerInv, RefusalHasACause
  <2> QED BY <2>1, <2>2, <2>3, <2>4 DEF DInv
<1>6. ASSUME ActivateResumes PROVE DInv'
  <2>1. TypeOK'
    BY <1>6 DEF ActivateResumes, Go, Records, DInv, TypeOK, UpdateTypeOK, UninstallTypeOK,
       Positions, NoTransaction, Transaction, UpdatePhases, installation, uninstallVars,
       packageVars
  <2>2. UpdateInv'
    BY <1>6 DEF ActivateResumes, Go, Records, DInv, UpdateInv, RootInv, Truthful, UpdatePosition,
       ReceiptFollowsJournal, Terminal, NoTransaction, Transaction, installation
  <2>3. (RemovalInv /\ RemovalPosition)'
    BY <1>6 DEF ActivateResumes, Go, DInv, RemovalInv, RemovalPosition, AllHome, Owned,
       installation, uninstallVars
  <2>4. AnswerInv'
    BY <1>6 DEF ActivateResumes, Go, AnswerInv, RefusalHasACause
  <2> QED BY <2>1, <2>2, <2>3, <2>4 DEF DInv
<1>7. ASSUME ActivateSelects PROVE DInv'
  <2>1. TypeOK'
    BY <1>7 DEF ActivateSelects, Selects, Go, DInv, TypeOK, UpdateTypeOK, UninstallTypeOK,
       Positions, NoTransaction, Transaction, updateVars, uninstallVars, packageVars
  <2>2. UpdateInv'
    BY DeployedAssumption, <1>7 DEF ActivateSelects, Open, Selects, Go, DInv, TypeOK,
       UpdateTypeOK, UpdateInv, RootInv, Truthful, UpdatePosition, ReceiptFollowsJournal,
       Terminal, updateVars
  <2>3. (RemovalInv /\ RemovalPosition)'
    BY DeployedAssumption, <1>7 DEF ActivateSelects, Open, Selects, Go, DInv, TypeOK,
       UpdateTypeOK, UpdateInv, UpdatePosition, RemovalInv, RemovalPosition, AllHome,
       NoTransaction, Transaction, uninstallVars
  <2>4. AnswerInv'
    BY <1>7 DEF ActivateSelects, Go, AnswerInv, RefusalHasACause
  <2> QED BY <2>1, <2>2, <2>3, <2>4 DEF DInv
<1>8. ASSUME ActivateSwitched PROVE DInv'
  <2>1. TypeOK'
    BY <1>8 DEF ActivateSwitched, Go, Records, DInv, TypeOK, UpdateTypeOK, UninstallTypeOK,
       Positions, UpdateInv, UpdatePosition, NoTransaction, Transaction, UpdatePhases,
       installation, uninstallVars, packageVars
  <2>2. UpdateInv'
    BY <1>8 DEF ActivateSwitched, Go, Records, DInv, UpdateInv, RootInv, Truthful, UpdatePosition,
       ReceiptFollowsJournal, Terminal, NoTransaction, Transaction, installation
  <2>3. (RemovalInv /\ RemovalPosition)'
    BY <1>8 DEF ActivateSwitched, Go, DInv, RemovalInv, RemovalPosition, AllHome, Owned,
       installation, uninstallVars
  <2>4. AnswerInv'
    BY <1>8 DEF ActivateSwitched, Go, AnswerInv, RefusalHasACause
  <2> QED BY <2>1, <2>2, <2>3, <2>4 DEF DInv
<1>9. ASSUME ActivateCommits PROVE DInv'
  <2>1. TypeOK'
    BY <1>9 DEF ActivateCommits, Go, Records, DInv, TypeOK, UpdateTypeOK, UninstallTypeOK,
       Positions, UpdateInv, UpdatePosition, Terminal, NoTransaction, Transaction, UpdatePhases,
       installation, uninstallVars, packageVars
  <2>2. UpdateInv'
    BY <1>9 DEF ActivateCommits, Go, Records, DInv, UpdateInv, RootInv, Truthful, UpdatePosition,
       ReceiptFollowsJournal, Expected, Terminal, NoTransaction, Transaction, installation
  <2>3. (RemovalInv /\ RemovalPosition)'
    BY <1>9 DEF ActivateCommits, Go, DInv, RemovalInv, RemovalPosition, AllHome, Owned,
       installation, uninstallVars
  <2>4. AnswerInv'
    BY <1>9 DEF ActivateCommits, Go, AnswerInv, RefusalHasACause
  <2> QED BY <2>1, <2>2, <2>3, <2>4 DEF DInv
<1>10. ASSUME ActivateBack PROVE DInv'
  <2>1. TypeOK'
    BY <1>10 DEF ActivateBack, Selects, Go, DInv, TypeOK, UpdateTypeOK, UninstallTypeOK,
       Positions, NoTransaction, Transaction, updateVars, uninstallVars, packageVars
  <2>2. UpdateInv'
    BY DeployedAssumption, <1>10 DEF ActivateBack, Open, Selects, Go, DInv, TypeOK, UpdateTypeOK,
       UpdateInv, RootInv, Truthful, UpdatePosition, ReceiptFollowsJournal, Expected, updateVars
  <2>3. (RemovalInv /\ RemovalPosition)'
    BY DeployedAssumption, <1>10 DEF ActivateBack, Open, Selects, Go, DInv, TypeOK, UpdateTypeOK,
       UpdateInv, UpdatePosition, RemovalInv, RemovalPosition, AllHome, NoTransaction,
       Transaction, uninstallVars
  <2>4. AnswerInv'
    BY <1>10 DEF ActivateBack, Go, AnswerInv, RefusalHasACause
  <2> QED BY <2>1, <2>2, <2>3, <2>4 DEF DInv
<1>11. ASSUME ActivateRolled PROVE DInv'
  <2>1. TypeOK'
    BY <1>11 DEF ActivateRolled, Go, Records, DInv, TypeOK, UpdateTypeOK, UninstallTypeOK,
       Positions, UpdateInv, UpdatePosition, Terminal, NoTransaction, Transaction, UpdatePhases,
       installation, uninstallVars, packageVars
  <2>2. UpdateInv'
    BY <1>11 DEF ActivateRolled, Go, Records, DInv, UpdateInv, RootInv, Truthful, UpdatePosition,
       ReceiptFollowsJournal, Expected, Terminal, NoTransaction, Transaction, installation
  <2>3. (RemovalInv /\ RemovalPosition)'
    BY <1>11 DEF ActivateRolled, Go, DInv, RemovalInv, RemovalPosition, AllHome, Owned,
       installation, uninstallVars
  <2>4. AnswerInv'
    BY <1>11 DEF ActivateRolled, Go, AnswerInv, RefusalHasACause
  <2> QED BY <2>1, <2>2, <2>3, <2>4 DEF DInv
<1>12. ASSUME WriteReceipt PROVE DInv'
  <2>1. TypeOK'
    BY <1>12 DEF WriteReceipt, Give, Outcome, DInv, TypeOK, UpdateTypeOK, UninstallTypeOK,
       Positions, UpdateInv, UpdatePosition, Outcomes, installation, uninstallVars, packageVars
  <2>2. UpdateInv'
    BY <1>12 DEF WriteReceipt, Give, Outcome, DInv, UpdateInv, RootInv, Truthful, UpdatePosition,
       ReceiptFollowsJournal, Expected, Terminal, NoTransaction, Transaction, installation
  <2>3. (RemovalInv /\ RemovalPosition)'
    BY <1>12 DEF WriteReceipt, Give, DInv, RemovalInv, RemovalPosition, AllHome, Owned,
       installation, uninstallVars
  <2>4. AnswerInv'
    BY <1>12 DEF WriteReceipt, Give, AnswerInv, RefusalHasACause
  <2> QED BY <2>1, <2>2, <2>3, <2>4 DEF DInv
<1>13. ASSUME ReconcileRefuses PROVE DInv'
  <2>1. TypeOK'
    BY <1>13 DEF ReconcileRefuses, Give, DInv, TypeOK, UpdateTypeOK, UninstallTypeOK,
       installation, updateVars, uninstallVars, packageVars
  <2>2. UpdateInv'
    BY <1>13 DEF ReconcileRefuses, Give, DInv, UpdateInv, RootInv, Truthful, UpdatePosition,
       ReceiptFollowsJournal, installation, updateVars
  <2>3. (RemovalInv /\ RemovalPosition)'
    BY <1>13 DEF ReconcileRefuses, Open, Give, DInv, RemovalInv, RemovalPosition, AllHome,
       installation, uninstallVars
  <2>4. AnswerInv'
    BY <1>13 DEF ReconcileRefuses, Open, Give, DInv, TypeOK, UpdateTypeOK, UpdateInv, Truthful,
       RemovalInv, AnswerInv, RefusalHasACause, UpdatePhases, updateVars, uninstallVars
  <2> QED BY <2>1, <2>2, <2>3, <2>4 DEF DInv
<1>14. ASSUME ReconcileStaged PROVE DInv'
  <2>1. TypeOK'
    BY <1>14 DEF ReconcileStaged, Go, Records, StagedWhole, DInv, TypeOK, UpdateTypeOK,
       UninstallTypeOK, Positions, NoTransaction, Transaction, UpdatePhases, installation,
       uninstallVars, packageVars
  <2>2. UpdateInv'
    BY <1>14 DEF ReconcileStaged, Go, Records, StagedWhole, DInv, UpdateInv, RootInv, Truthful,
       UpdatePosition, ReceiptFollowsJournal, Terminal, NoTransaction, Transaction, installation
  <2>3. (RemovalInv /\ RemovalPosition)'
    BY <1>14 DEF ReconcileStaged, Open, Go, DInv, RemovalInv, RemovalPosition, AllHome,
       installation, uninstallVars
  <2>4. AnswerInv'
    BY <1>14 DEF ReconcileStaged, Go, AnswerInv, RefusalHasACause
  <2> QED BY <2>1, <2>2, <2>3, <2>4 DEF DInv
<1>15. ASSUME ReconcileSelects PROVE DInv'
  <2>1. TypeOK'
    BY <1>15 DEF ReconcileSelects, Selects, Go, DInv, TypeOK, UpdateTypeOK, UninstallTypeOK,
       Positions, NoTransaction, Transaction, updateVars, uninstallVars, packageVars
  <2>2. UpdateInv'
    BY DeployedAssumption, <1>15 DEF ReconcileSelects, Open, Selects, Go, DInv, TypeOK,
       UpdateTypeOK, UpdateInv, RootInv, Truthful, UpdatePosition, ReceiptFollowsJournal,
       updateVars
  <2>3. (RemovalInv /\ RemovalPosition)'
    BY DeployedAssumption, <1>15 DEF ReconcileSelects, Open, Selects, Go, DInv, TypeOK,
       UpdateTypeOK, RemovalInv, RemovalPosition, AllHome, NoTransaction, Transaction,
       uninstallVars
  <2>4. AnswerInv'
    BY <1>15 DEF ReconcileSelects, Go, AnswerInv, RefusalHasACause
  <2> QED BY <2>1, <2>2, <2>3, <2>4 DEF DInv
<1>16. ASSUME ReconcileBack PROVE DInv'
  <2>1. TypeOK'
    BY <1>16 DEF ReconcileBack, Go, UpdatePhases, Records, DInv, TypeOK, UpdateTypeOK,
       UninstallTypeOK, Positions, UpdateInv, UpdatePosition, Terminal, NoTransaction,
       Transaction, installation, uninstallVars, packageVars
  <2>2. UpdateInv'
    BY <1>16 DEF ReconcileBack, Go, UpdatePhases, Records, DInv, UpdateInv, RootInv, Truthful,
       UpdatePosition, ReceiptFollowsJournal, Expected, Terminal, NoTransaction, Transaction,
       installation
  <2>3. (RemovalInv /\ RemovalPosition)'
    BY <1>16 DEF ReconcileBack, Go, DInv, RemovalInv, RemovalPosition, AllHome, Owned,
       installation, uninstallVars
  <2>4. AnswerInv'
    BY <1>16 DEF ReconcileBack, Go, AnswerInv, RefusalHasACause
  <2> QED BY <2>1, <2>2, <2>3, <2>4 DEF DInv
<1>17. ASSUME ClearJournal PROVE DInv'
  <2>1. TypeOK'
    BY <1>17 DEF ClearJournal, Go, DInv, TypeOK, UpdateTypeOK, UninstallTypeOK, Positions,
       installation, uninstallVars, packageVars
  <2>2. UpdateInv'
    BY <1>17 DEF ClearJournal, Go, Transaction, NoTransaction, UpdateInv, RootInv, Truthful,
       UpdatePosition, ReceiptFollowsJournal, Terminal, installation
  <2>3. (RemovalInv /\ RemovalPosition)'
    BY <1>17 DEF ClearJournal, Go, DInv, RemovalInv, RemovalPosition, AllHome, Owned,
       installation, uninstallVars
  <2>4. AnswerInv'
    BY <1>17 DEF ClearJournal, Go, AnswerInv, RefusalHasACause
  <2> QED BY <2>1, <2>2, <2>3, <2>4 DEF DInv
<1>18. ASSUME ClearReceipt PROVE DInv'
  <2>1. TypeOK'
    BY <1>18 DEF ClearReceipt, Give, DInv, TypeOK, UpdateTypeOK, UninstallTypeOK, Positions,
       installation, uninstallVars, packageVars
  <2>2. UpdateInv'
    BY <1>18 DEF ClearReceipt, Give, DInv, UpdateInv, RootInv, Truthful, UpdatePosition,
       ReceiptFollowsJournal, Expected, installation
  <2>3. (RemovalInv /\ RemovalPosition)'
    BY <1>18 DEF ClearReceipt, Give, DInv, RemovalInv, RemovalPosition, AllHome, Owned,
       installation, uninstallVars
  <2>4. AnswerInv'
    BY <1>18 DEF ClearReceipt, Give, AnswerInv, RefusalHasACause
  <2> QED BY <2>1, <2>2, <2>3, <2>4 DEF DInv
<1>19. ASSUME SelectBeside PROVE DInv'
  <2>1. PICK v \in Versions : Selects(v)
    BY <1>19 DEF SelectBeside
  <2>2. active' = v /\ Open /\ UNCHANGED <<root, slots, bound, place>>
    BY <2>1 DEF Selects
  <2>3. TypeOK'
    BY <1>19, <2>2 DEF SelectBeside, DInv, TypeOK, UpdateTypeOK, UninstallTypeOK, control,
       uninstallVars, packageVars
  <2>4. meddled' \/ journal = NoTransaction
    BY <1>19 DEF SelectBeside
  <2>5. journal' = journal /\ receipt' = receipt /\ pc' = "idle" /\ v # "none" /\ Truthful'
    BY <1>19, <2>4, DeployedAssumption DEF SelectBeside, control, Truthful, Terminal, NoTransaction,
       Transaction
  <2>6. UpdateInv'
    BY <2>2, <2>5 DEF DInv, UpdateInv, RootInv, UpdatePosition, ReceiptFollowsJournal, Open,
       uninstallVars
  <2>7. (RemovalInv /\ RemovalPosition)'
    BY <1>19, <2>2, <2>5 DEF DInv, RemovalInv, RemovalPosition, AllHome, Open, uninstallVars
  <2>8. AnswerInv'
    BY <1>19, <2>2, <2>5 DEF SelectBeside, DInv, AnswerInv, RefusalHasACause, control, uninstallVars
  <2> QED BY <2>3, <2>6, <2>7, <2>8 DEF DInv
<1> QED BY <1>1, <1>2, <1>3, <1>4, <1>5, <1>6, <1>7, <1>8, <1>9, <1>10, <1>11, <1>12, <1>13,
      <1>14, <1>15, <1>16, <1>17, <1>18, <1>19 DEF UpdateNext, UninstallNext, AutostartNext

-----------------------------------------------------------------------------
LEMMA RemovalSteps == ASSUME DInv, UninstallNext \/ AutostartNext, UNCHANGED packageVars PROVE
  DInv'
<1>1. ASSUME NothingLeft PROVE DInv'
  <2>1. TypeOK'
    BY <1>1 DEF NothingLeft, Give, DInv, TypeOK, UpdateTypeOK, UninstallTypeOK, updateVars,
       uninstallVars, packageVars
  <2>2. UpdateInv'
    BY <1>1 DEF NothingLeft, Give, DInv, UpdateInv, RootInv, Truthful, UpdatePosition,
       ReceiptFollowsJournal, Expected, updateVars
  <2>3. (RemovalInv /\ RemovalPosition)'
    BY <1>1 DEF NothingLeft, Give, DInv, RemovalInv, RemovalPosition, uninstallVars
  <2>4. AnswerInv'
    BY <1>1 DEF NothingLeft, Give, AnswerInv, RefusalHasACause
  <2> QED BY <2>1, <2>2, <2>3, <2>4 DEF DInv
<1>2. ASSUME ResumeDetached PROVE DInv'
  <2>1. TypeOK'
    BY <1>2 DEF ResumeDetached, Go, DInv, TypeOK, UpdateTypeOK, UninstallTypeOK, Positions,
       installation, updateVars, uninstallVars, packageVars
  <2>2. UpdateInv'
    BY <1>2 DEF ResumeDetached, Go, DInv, UpdateInv, RootInv, Truthful, UpdatePosition,
       ReceiptFollowsJournal, Expected, installation, updateVars
  <2>3. (RemovalInv /\ RemovalPosition)'
    BY <1>2 DEF ResumeDetached, Go, DInv, RemovalInv, RemovalPosition, installation, uninstallVars
  <2>4. AnswerInv'
    BY <1>2 DEF ResumeDetached, Go, AnswerInv, RefusalHasACause
  <2> QED BY <2>1, <2>2, <2>3, <2>4 DEF DInv
<1>3. ASSUME RefuseDetached PROVE DInv'
  <2>1. TypeOK'
    BY <1>3 DEF RefuseDetached, Give, DInv, TypeOK, UpdateTypeOK, UninstallTypeOK, installation,
       updateVars, uninstallVars, packageVars
  <2>2. UpdateInv'
    BY <1>3 DEF RefuseDetached, Give, DInv, UpdateInv, RootInv, Truthful, UpdatePosition,
       ReceiptFollowsJournal, Expected, installation, updateVars
  <2>3. (RemovalInv /\ RemovalPosition)'
    BY <1>3 DEF RefuseDetached, Give, DInv, RemovalInv, RemovalPosition, AllHome, installation,
       uninstallVars
  <2>4. AnswerInv'
    BY <1>3 DEF RefuseDetached, Give, DInv, TypeOK, UninstallTypeOK, UpdateInv, RootInv,
       AnswerInv, RefusalHasACause, installation, uninstallVars
  <2> QED BY <2>1, <2>2, <2>3, <2>4 DEF DInv
<1>4. ASSUME AlreadyRemoved PROVE DInv'
  <2>1. TypeOK'
    BY <1>4 DEF AlreadyRemoved, Give, DInv, TypeOK, UpdateTypeOK, UninstallTypeOK, installation,
       updateVars, uninstallVars, packageVars
  <2>2. UpdateInv'
    BY <1>4 DEF AlreadyRemoved, Give, DInv, UpdateInv, RootInv, Truthful, UpdatePosition,
       ReceiptFollowsJournal, Expected, installation, updateVars
  <2>3. (RemovalInv /\ RemovalPosition)'
    BY <1>4 DEF AlreadyRemoved, Give, DInv, RemovalInv, RemovalPosition, installation,
       uninstallVars
  <2>4. AnswerInv'
    BY <1>4 DEF AlreadyRemoved, Give, AnswerInv, RefusalHasACause
  <2> QED BY <2>1, <2>2, <2>3, <2>4 DEF DInv
<1>5. ASSUME UninstallRefuses PROVE DInv'
  <2>1. TypeOK'
    BY <1>5 DEF UninstallRefuses, Give, DInv, TypeOK, UpdateTypeOK, UninstallTypeOK, installation,
       updateVars, uninstallVars, packageVars
  <2>2. UpdateInv'
    BY <1>5 DEF UninstallRefuses, Give, DInv, UpdateInv, RootInv, Truthful, UpdatePosition,
       ReceiptFollowsJournal, Expected, installation, updateVars
  <2>3. (RemovalInv /\ RemovalPosition)'
    BY <1>5 DEF UninstallRefuses, Give, DInv, RemovalInv, RemovalPosition, AllHome, installation,
       uninstallVars
  <2>4. AnswerInv'
    BY <1>5 DEF UninstallRefuses, Give, DInv, RemovalInv, AllHome, AnswerInv, RefusalHasACause,
       Pieces
  <2> QED BY <2>1, <2>2, <2>3, <2>4 DEF DInv
<1>6. ASSUME CreatePlan PROVE DInv'
  <2>1. TypeOK'
    BY <1>6 DEF CreatePlan, Go, Plans, DInv, TypeOK, UpdateTypeOK, UninstallTypeOK, Positions,
       updateVars, uninstallVars, packageVars
  <2>2. UpdateInv'
    BY <1>6 DEF CreatePlan, Open, Go, Plans, DInv, UpdateInv, RootInv, Truthful, UpdatePosition,
       ReceiptFollowsJournal, Expected, updateVars
  <2>3. (RemovalInv /\ RemovalPosition)'
    BY <1>6 DEF CreatePlan, Open, Go, Plans, DInv, RemovalInv, RemovalPosition, AllHome,
       uninstallVars
  <2>4. AnswerInv'
    BY <1>6 DEF CreatePlan, Go, AnswerInv, RefusalHasACause
  <2> QED BY <2>1, <2>2, <2>3, <2>4 DEF DInv
<1>7. ASSUME WritePlan PROVE DInv'
  <2>1. TypeOK'
    BY <1>7 DEF WritePlan, Go, Plans, DInv, TypeOK, UpdateTypeOK, UninstallTypeOK, Positions,
       UninstallPhases, updateVars, uninstallVars, packageVars
  <2>2. UpdateInv'
    BY <1>7 DEF WritePlan, Go, Plans, DInv, UpdateInv, RootInv, Truthful, UpdatePosition,
       ReceiptFollowsJournal, Expected, updateVars, uninstallVars
  <2>3. (RemovalInv /\ RemovalPosition)'
    BY <1>7 DEF WritePlan, Go, Plans, DInv, RemovalInv, RemovalPosition, AllHome, uninstallVars
  <2>4. AnswerInv'
    BY <1>7 DEF WritePlan, Go, AnswerInv, RefusalHasACause
  <2> QED BY <2>1, <2>2, <2>3, <2>4 DEF DInv
<1>8. ASSUME ResumePlan PROVE DInv'
  <2>1. TypeOK'
    BY <1>8 DEF ResumePlan, Go, UninstallPhases, ResumePosition, DInv, TypeOK, UpdateTypeOK,
       UninstallTypeOK, Positions, installation, updateVars, uninstallVars, packageVars
  <2>2. UpdateInv'
    BY <1>8 DEF ResumePlan, Go, UninstallPhases, ResumePosition, DInv, UpdateInv, RootInv,
       Truthful, UpdatePosition, ReceiptFollowsJournal, Expected, installation, updateVars
  <2>3. (RemovalInv /\ RemovalPosition)'
    BY <1>8 DEF ResumePlan, Go, UninstallPhases, ResumePosition, DInv, RemovalInv,
       RemovalPosition, AllHome, Owned, installation, uninstallVars
  <2>4. AnswerInv'
    BY <1>8 DEF ResumePlan, Go, AnswerInv, RefusalHasACause
  <2> QED BY <2>1, <2>2, <2>3, <2>4 DEF DInv
<1>9. ASSUME RemoveAutostart PROVE DInv'
  <2>1. TypeOK'
    BY <1>9 DEF RemoveAutostart, Go, RemovesExact, DInv, TypeOK, UpdateTypeOK, UninstallTypeOK,
       Positions, installation, updateVars, packageVars
  <2>2. UpdateInv'
    BY <1>9 DEF RemoveAutostart, Go, DInv, UpdateInv, RootInv, Truthful, UpdatePosition,
       ReceiptFollowsJournal, Expected, installation, updateVars
  <2>3. (RemovalInv /\ RemovalPosition)'
    BY <1>9 DEF RemoveAutostart, Go, RemovesExact, DInv, RemovalInv, RemovalPosition, AllHome,
       installation
  <2>4. AnswerInv'
    BY <1>9 DEF RemoveAutostart, Go, AnswerInv, RefusalHasACause
  <2> QED BY <2>1, <2>2, <2>3, <2>4 DEF DInv
<1>10. ASSUME AutostartDrift PROVE DInv'
  <2>1. TypeOK'
    BY <1>10 DEF AutostartDrift, Give, DInv, TypeOK, UpdateTypeOK, UninstallTypeOK, Positions,
       installation, updateVars, uninstallVars, packageVars
  <2>2. UpdateInv'
    BY <1>10 DEF AutostartDrift, Give, DInv, UpdateInv, RootInv, Truthful, UpdatePosition,
       ReceiptFollowsJournal, Expected, installation, updateVars, uninstallVars
  <2>3. (RemovalInv /\ RemovalPosition)'
    BY <1>10 DEF AutostartDrift, Give, DInv, RemovalInv, RemovalPosition, AllHome, installation,
       uninstallVars
  <2>4. AnswerInv'
    BY <1>10 DEF AutostartDrift, Give, AnswerInv, RefusalHasACause
  <2> QED BY <2>1, <2>2, <2>3, <2>4 DEF DInv
<1>11. ASSUME MarkAutostartRemoved PROVE DInv'
  <2>1. TypeOK'
    BY <1>11 DEF MarkAutostartRemoved, Go, Plans, DInv, TypeOK, UpdateTypeOK, UninstallTypeOK,
       Positions, UninstallPhases, updateVars, uninstallVars, packageVars
  <2>2. UpdateInv'
    BY <1>11 DEF MarkAutostartRemoved, Go, Plans, DInv, UpdateInv, RootInv, Truthful,
       UpdatePosition, ReceiptFollowsJournal, Expected, updateVars, uninstallVars
  <2>3. (RemovalInv /\ RemovalPosition)'
    BY <1>11 DEF MarkAutostartRemoved, Go, Plans, DInv, RemovalInv, RemovalPosition, uninstallVars
  <2>4. AnswerInv'
    BY <1>11 DEF MarkAutostartRemoved, Go, AnswerInv, RefusalHasACause
  <2> QED BY <2>1, <2>2, <2>3, <2>4 DEF DInv
<1>12. ASSUME Quarantine PROVE DInv'
  <2> DEFINE p == NextPiece("home")
  <2>1. /\ place' = [place EXCEPT ![p] = "aside"]
        /\ pc = "quarantine" /\ pc' = "quarantine" /\ answer' = "none"
        /\ UNCHANGED <<root, slots, active, bound, plan, uninstallVars, updateVars, packageVars>>
    BY <1>12 DEF Quarantine, Moves, Go
  <2> HIDE DEF p
  <2>2. place' \in [Pieces -> {"home", "aside", "gone"}]
        /\ \A q \in Pieces : place'[q] \in {place[q], "aside"}
    BY <2>1 DEF DInv, TypeOK
  <2>3. TypeOK'
    BY <2>1, <2>2 DEF DInv, TypeOK, Positions, UpdateTypeOK, UninstallTypeOK, updateVars,
       uninstallVars, packageVars
  <2>4. UpdateInv'
    BY <2>1 DEF DInv, UpdateInv, RootInv, Truthful, UpdatePosition, ReceiptFollowsJournal, Expected,
       updateVars, uninstallVars
  <2>5. (RemovalInv /\ RemovalPosition)'
    BY <2>1, <2>2 DEF DInv, RemovalInv, RemovalPosition, Owned, Pieces, updateVars, uninstallVars,
       packageVars
  <2>6. AnswerInv'
    BY <2>1 DEF AnswerInv, RefusalHasACause
  <2> QED BY <2>3, <2>4, <2>5, <2>6 DEF DInv
<1>13. ASSUME MarkQuarantined PROVE DInv'
  <2>1. TypeOK'
    BY <1>13 DEF MarkQuarantined, Go, Plans, DInv, TypeOK, UpdateTypeOK, UninstallTypeOK,
       Positions, UninstallPhases, updateVars, uninstallVars, packageVars
  <2>2. UpdateInv'
    BY <1>13 DEF MarkQuarantined, Go, Plans, DInv, UpdateInv, RootInv, Truthful, UpdatePosition,
       ReceiptFollowsJournal, Expected, updateVars, uninstallVars
  <2>3. (RemovalInv /\ RemovalPosition)'
    BY <1>13 DEF MarkQuarantined, Go, Owned, Plans, DInv, RemovalInv, RemovalPosition,
       uninstallVars
  <2>4. AnswerInv'
    BY <1>13 DEF MarkQuarantined, Go, AnswerInv, RefusalHasACause
  <2> QED BY <2>1, <2>2, <2>3, <2>4 DEF DInv
<1>14. ASSUME Clean PROVE DInv'
  <2> DEFINE p == NextPiece("aside")
  <2>1. /\ place' = [place EXCEPT ![p] = "gone"]
        /\ pc = "clean" /\ pc' = "clean" /\ answer' = "none"
        /\ UNCHANGED <<root, slots, active, bound, plan, uninstallVars, updateVars, packageVars>>
    BY <1>14 DEF Clean, Moves, Go
  <2> HIDE DEF p
  <2>2. place' \in [Pieces -> {"home", "aside", "gone"}]
        /\ \A q \in Pieces : place'[q] \in {place[q], "gone"}
    BY <2>1 DEF DInv, TypeOK
  <2>3. TypeOK'
    BY <2>1, <2>2 DEF DInv, TypeOK, Positions, UpdateTypeOK, UninstallTypeOK, updateVars,
       uninstallVars, packageVars
  <2>4. UpdateInv'
    BY <2>1 DEF DInv, UpdateInv, RootInv, Truthful, UpdatePosition, ReceiptFollowsJournal, Expected,
       updateVars, uninstallVars
  <2>5. (RemovalInv /\ RemovalPosition)'
    BY <2>1, <2>2 DEF DInv, RemovalInv, RemovalPosition, Owned, Pieces, updateVars, uninstallVars,
       packageVars
  <2>6. AnswerInv'
    BY <2>1 DEF AnswerInv, RefusalHasACause
  <2> QED BY <2>3, <2>4, <2>5, <2>6 DEF DInv
<1>15. ASSUME MarkCleaned PROVE DInv'
  <2>1. TypeOK'
    BY <1>15 DEF MarkCleaned, Go, Plans, DInv, TypeOK, UpdateTypeOK, UninstallTypeOK, Positions,
       UninstallPhases, updateVars, uninstallVars, packageVars
  <2>2. UpdateInv'
    BY <1>15 DEF MarkCleaned, Go, Plans, DInv, UpdateInv, RootInv, Truthful, UpdatePosition,
       ReceiptFollowsJournal, Expected, updateVars, uninstallVars
  <2>3. (RemovalInv /\ RemovalPosition)'
    BY <1>15 DEF MarkCleaned, Go, Owned, Plans, DInv, TypeOK, RemovalInv, RemovalPosition,
       uninstallVars
  <2>4. AnswerInv'
    BY <1>15 DEF MarkCleaned, Go, AnswerInv, RefusalHasACause
  <2> QED BY <2>1, <2>2, <2>3, <2>4 DEF DInv
<1>16. ASSUME WriteRemovalReceipt PROVE DInv'
  <2>1. TypeOK'
    BY <1>16 DEF WriteRemovalReceipt, Go, DInv, TypeOK, UpdateTypeOK, UninstallTypeOK, Positions,
       installation, updateVars, packageVars
  <2>2. UpdateInv'
    BY <1>16 DEF WriteRemovalReceipt, Go, DInv, UpdateInv, RootInv, Truthful, UpdatePosition,
       ReceiptFollowsJournal, Expected, installation, updateVars
  <2>3. (RemovalInv /\ RemovalPosition)'
    BY <1>16 DEF WriteRemovalReceipt, Go, DInv, RemovalInv, RemovalPosition, Pieces, Owned,
       installation
  <2>4. AnswerInv'
    BY <1>16 DEF WriteRemovalReceipt, Go, AnswerInv, RefusalHasACause
  <2> QED BY <2>1, <2>2, <2>3, <2>4 DEF DInv
<1>17. ASSUME EndPlan PROVE DInv'
  <2>1. TypeOK'
    BY <1>17 DEF EndPlan, Go, Plans, DInv, TypeOK, UpdateTypeOK, UninstallTypeOK, Positions,
       updateVars, uninstallVars, packageVars
  <2>2. UpdateInv'
    BY <1>17 DEF EndPlan, Go, Plans, DInv, UpdateInv, RootInv, Truthful, UpdatePosition,
       ReceiptFollowsJournal, Expected, updateVars, uninstallVars
  <2>3. (RemovalInv /\ RemovalPosition)'
    BY <1>17 DEF EndPlan, Go, Plans, DInv, RemovalInv, RemovalPosition, uninstallVars
  <2>4. AnswerInv'
    BY <1>17 DEF EndPlan, Go, AnswerInv, RefusalHasACause
  <2> QED BY <2>1, <2>2, <2>3, <2>4 DEF DInv
<1>18. ASSUME KeepRoot PROVE DInv'
  <2>1. TypeOK'
    BY <1>18 DEF KeepRoot, Give, DInv, TypeOK, UpdateTypeOK, UninstallTypeOK, Positions,
       installation, updateVars, uninstallVars, packageVars
  <2>2. UpdateInv'
    BY <1>18 DEF KeepRoot, Give, DInv, UpdateInv, RootInv, Truthful, UpdatePosition,
       ReceiptFollowsJournal, Expected, installation, updateVars, uninstallVars
  <2>3. (RemovalInv /\ RemovalPosition)'
    BY <1>18 DEF KeepRoot, Give, DInv, RemovalInv, RemovalPosition, installation, uninstallVars
  <2>4. AnswerInv'
    BY <1>18 DEF KeepRoot, Give, AnswerInv, RefusalHasACause
  <2> QED BY <2>1, <2>2, <2>3, <2>4 DEF DInv
<1>19. ASSUME FindOnlyReceipt PROVE DInv'
  <2>1. TypeOK'
    BY <1>19 DEF FindOnlyReceipt, Go, DInv, TypeOK, UpdateTypeOK, UninstallTypeOK, Positions,
       installation, updateVars, uninstallVars, packageVars
  <2>2. UpdateInv'
    BY <1>19 DEF FindOnlyReceipt, Go, DInv, UpdateInv, RootInv, Truthful, UpdatePosition,
       ReceiptFollowsJournal, Expected, installation, updateVars, uninstallVars
  <2>3. (RemovalInv /\ RemovalPosition)'
    BY <1>19 DEF FindOnlyReceipt, Go, OnlyReceipt, DInv, RemovalInv, RemovalPosition,
       installation, updateVars, uninstallVars
  <2>4. AnswerInv'
    BY <1>19 DEF FindOnlyReceipt, Go, AnswerInv, RefusalHasACause
  <2> QED BY <2>1, <2>2, <2>3, <2>4 DEF DInv
<1>20. ASSUME Detach PROVE DInv'
  <2>1. /\ pc = "detach" /\ pc' = "sweep" /\ answer' = "none"
        /\ root' = "none" /\ slots' = Fresh /\ active' = "none" /\ bound' = FALSE
        /\ place' = [q \in Pieces |-> "gone"] /\ detached' \in {"whole", "foreign"}
        /\ done' = FALSE /\ extras' = FALSE
        /\ UNCHANGED <<plan, autostart, updateVars, packageVars>>
    BY <1>20 DEF Detach, Go
  <2>2. TypeOK'
    <3>1. slots' \in [Versions -> Digests \cup {"none"}]
      BY <2>1 DEF Fresh
    <3>2. place' \in [Pieces -> {"home", "aside", "gone"}]
      BY <2>1
    <3> QED
      BY <2>1, <3>1, <3>2 DEF DInv, TypeOK, Positions, UpdateTypeOK, UninstallTypeOK, updateVars,
         packageVars
  <2>3. UpdateInv'
    BY <2>1 DEF DInv, RemovalPosition, UpdateInv, RootInv, Truthful, UpdatePosition,
       ReceiptFollowsJournal, Terminal, NoTransaction, Transaction, updateVars, Fresh
  <2>4. (RemovalInv /\ RemovalPosition)'
    BY <2>1 DEF DInv, RemovalInv, RemovalPosition
  <2>5. AnswerInv'
    BY <2>1 DEF AnswerInv, RefusalHasACause
  <2> QED BY <2>2, <2>3, <2>4, <2>5 DEF DInv
<1>21. ASSUME Sweep PROVE DInv'
  <2>1. TypeOK'
    BY <1>21 DEF Sweep, Go, Give, DInv, TypeOK, UpdateTypeOK, UninstallTypeOK, Positions,
       installation, updateVars, packageVars
  <2>2. UpdateInv'
    BY <1>21 DEF Sweep, Go, Give, DInv, UpdateInv, RootInv, Truthful, UpdatePosition,
       ReceiptFollowsJournal, Expected, installation, updateVars
  <2>3. (RemovalInv /\ RemovalPosition)'
    BY <1>21 DEF Sweep, Go, Give, DInv, RemovalInv, RemovalPosition, installation
  <2>4. AnswerInv'
    BY <1>21 DEF Sweep, Go, Give, DInv, RemovalPosition, AnswerInv, RefusalHasACause
  <2> QED BY <2>1, <2>2, <2>3, <2>4 DEF DInv
<1>22. ASSUME Swept PROVE DInv'
  <2>1. TypeOK'
    BY <1>22 DEF Swept, Give, DInv, TypeOK, UpdateTypeOK, UninstallTypeOK, Positions,
       installation, updateVars, packageVars
  <2>2. UpdateInv'
    BY <1>22 DEF Swept, Give, DInv, UpdateInv, RootInv, Truthful, UpdatePosition,
       ReceiptFollowsJournal, Expected, installation, updateVars
  <2>3. (RemovalInv /\ RemovalPosition)'
    BY <1>22 DEF Swept, Give, DInv, RemovalInv, RemovalPosition, installation
  <2>4. AnswerInv'
    BY <1>22 DEF Swept, Give, AnswerInv, RefusalHasACause
  <2> QED BY <2>1, <2>2, <2>3, <2>4 DEF DInv
<1>23. ASSUME EnableFinds PROVE DInv'
  <2>1. TypeOK'
    BY <1>23 DEF EnableFinds, Go, DInv, TypeOK, UpdateTypeOK, UninstallTypeOK, Positions,
       installation, updateVars, uninstallVars, packageVars
  <2>2. UpdateInv'
    BY <1>23 DEF EnableFinds, Go, DInv, UpdateInv, RootInv, Truthful, UpdatePosition,
       ReceiptFollowsJournal, Expected, installation, updateVars
  <2>3. (RemovalInv /\ RemovalPosition)'
    BY <1>23 DEF EnableFinds, Open, Go, DInv, RemovalInv, RemovalPosition, AllHome, installation,
       uninstallVars
  <2>4. AnswerInv'
    BY <1>23 DEF EnableFinds, Go, AnswerInv, RefusalHasACause
  <2> QED BY <2>1, <2>2, <2>3, <2>4 DEF DInv
<1>24. ASSUME EnableRenames PROVE DInv'
  <2>1. TypeOK'
    BY <1>24 DEF EnableRenames, Give, DInv, TypeOK, UpdateTypeOK, UninstallTypeOK, Positions,
       installation, updateVars, packageVars
  <2>2. UpdateInv'
    BY <1>24 DEF EnableRenames, Give, DInv, UpdateInv, RootInv, Truthful, UpdatePosition,
       ReceiptFollowsJournal, Expected, installation, updateVars
  <2>3. (RemovalInv /\ RemovalPosition)'
    BY <1>24 DEF EnableRenames, Give, DInv, RemovalInv, RemovalPosition, AllHome, installation
  <2>4. AnswerInv'
    BY <1>24 DEF EnableRenames, Give, AnswerInv, RefusalHasACause
  <2> QED BY <2>1, <2>2, <2>3, <2>4 DEF DInv
<1>25. ASSUME Disable PROVE DInv'
  <2>1. TypeOK'
    BY <1>25 DEF Disable, Give, RemovesExact, DInv, TypeOK, UpdateTypeOK, UninstallTypeOK,
       installation, updateVars, packageVars
  <2>2. UpdateInv'
    BY <1>25 DEF Disable, Give, DInv, UpdateInv, RootInv, Truthful, UpdatePosition,
       ReceiptFollowsJournal, Expected, installation, updateVars
  <2>3. (RemovalInv /\ RemovalPosition)'
    BY <1>25 DEF Disable, Give, RemovesExact, DInv, RemovalInv, RemovalPosition, AllHome, Owned,
       installation
  <2>4. AnswerInv'
    BY <1>25 DEF Disable, Give, AnswerInv, RefusalHasACause
  <2> QED BY <2>1, <2>2, <2>3, <2>4 DEF DInv
<1> QED BY <1>1, <1>2, <1>3, <1>4, <1>5, <1>6, <1>7, <1>8, <1>9, <1>10, <1>11, <1>12, <1>13,
      <1>14, <1>15, <1>16, <1>17, <1>18, <1>19, <1>20, <1>21, <1>22, <1>23, <1>24, <1>25 DEF
      UpdateNext, UninstallNext, AutostartNext

-----------------------------------------------------------------------------
LEMMA OtherSteps == ASSUME DInv, Extract \/ HelperInstall \/ HelperBind \/ CutShort \/
  ReplaceStaging \/ WriteExtras \/ EmptyRoot \/ ForeignAutostart PROVE DInv'
<1>1. ASSUME Extract PROVE DInv'
  <2>1. TypeOK'
    BY <1>1 DEF Extract, Go, Archives, DInv, TypeOK, UpdateTypeOK, UninstallTypeOK, Positions,
       installation, updateVars, uninstallVars, untouched
  <2>2. UpdateInv'
    BY <1>1 DEF Extract, Go, DInv, UpdateInv, RootInv, Truthful, UpdatePosition,
       ReceiptFollowsJournal, Expected, installation, updateVars, uninstallVars, untouched
  <2>3. (RemovalInv /\ RemovalPosition)'
    BY DeployedAssumption, <1>1 DEF Extract, Go, DInv, RemovalInv, RemovalPosition, AllHome,
       Owned, Nothing, installation, uninstallVars, untouched
  <2>4. AnswerInv'
    BY <1>1 DEF Extract, Go, AnswerInv, RefusalHasACause
  <2> QED BY <2>1, <2>2, <2>3, <2>4 DEF DInv
<1>2. ASSUME HelperInstall PROVE DInv'
  <2>1. TypeOK'
    BY <1>2 DEF HelperInstall, Installs, Give, InstallsAccepted, DInv, TypeOK, UpdateTypeOK,
       UninstallTypeOK, Positions, RemovalPosition, updateVars, uninstallVars
  <2>2. UpdateInv'
    BY DeployedAssumption, <1>2 DEF HelperInstall, Installs, Give, InstallsAccepted, DInv, TypeOK,
       UpdateTypeOK, UpdateInv, RootInv, Truthful, UpdatePosition, ReceiptFollowsJournal,
       Expected, Terminal, NoTransaction, Transaction, updateVars
  <2>3. (RemovalInv /\ RemovalPosition)'
    BY <1>2 DEF HelperInstall, Open, Installs, Give, InstallsAccepted, DInv, RemovalInv,
       RemovalPosition, AllHome, uninstallVars
  <2>4. AnswerInv'
    BY <1>2 DEF HelperInstall, Give, AnswerInv, RefusalHasACause
  <2> QED BY <2>1, <2>2, <2>3, <2>4 DEF DInv
<1>3. ASSUME HelperBind PROVE DInv'
  <2>1. TypeOK'
    BY <1>3 DEF HelperBind, Give, DInv, TypeOK, UpdateTypeOK, UninstallTypeOK, updateVars,
       uninstallVars, packageVars
  <2>2. UpdateInv'
    BY <1>3 DEF HelperBind, Give, DInv, UpdateInv, RootInv, Truthful, UpdatePosition,
       ReceiptFollowsJournal, Expected, updateVars, uninstallVars
  <2>3. (RemovalInv /\ RemovalPosition)'
    BY <1>3 DEF HelperBind, Open, Give, DInv, RemovalInv, RemovalPosition, AllHome, uninstallVars
  <2>4. AnswerInv'
    BY <1>3 DEF HelperBind, Give, AnswerInv, RefusalHasACause
  <2> QED BY <2>1, <2>2, <2>3, <2>4 DEF DInv
<1>4. ASSUME CutShort PROVE DInv'
  <2>1. TypeOK'
    BY <1>4 DEF CutShort, DInv, TypeOK, UpdateTypeOK, UninstallTypeOK, Positions, installation,
       updateVars, uninstallVars, untouched
  <2>2. UpdateInv'
    BY <1>4 DEF CutShort, DInv, UpdateInv, RootInv, Truthful, UpdatePosition,
       ReceiptFollowsJournal, Expected, installation, updateVars, uninstallVars, untouched
  <2>3. (RemovalInv /\ RemovalPosition)'
    BY <1>4 DEF CutShort, DInv, RemovalInv, RemovalPosition, AllHome, Owned, installation,
       uninstallVars, untouched
  <2>4. AnswerInv'
    BY <1>4 DEF CutShort, AnswerInv, RefusalHasACause
  <2> QED BY <2>1, <2>2, <2>3, <2>4 DEF DInv
<1>5. ASSUME ReplaceStaging PROVE DInv'
  <2>1. TypeOK'
    BY <1>5 DEF ReplaceStaging, DInv, TypeOK, UpdateTypeOK, UninstallTypeOK, installation,
       control, updateVars, uninstallVars, untouched
  <2>2. UpdateInv'
    BY <1>5 DEF ReplaceStaging, DInv, UpdateInv, RootInv, Truthful, UpdatePosition,
       ReceiptFollowsJournal, Expected, installation, control, updateVars, uninstallVars,
       untouched
  <2>3. (RemovalInv /\ RemovalPosition)'
    BY <1>5 DEF ReplaceStaging, DInv, RemovalInv, RemovalPosition, AllHome, Owned, installation,
       control, updateVars, uninstallVars, untouched
  <2>4. AnswerInv'
    BY <1>5 DEF ReplaceStaging, DInv, AnswerInv, RefusalHasACause, installation, control,
       updateVars, uninstallVars, untouched
  <2> QED BY <2>1, <2>2, <2>3, <2>4 DEF DInv
<1>6. ASSUME WriteExtras PROVE DInv'
  <2>1. TypeOK'
    BY <1>6 DEF WriteExtras, DInv, TypeOK, UpdateTypeOK, UninstallTypeOK, installation, control,
       updateVars, packageVars
  <2>2. UpdateInv'
    BY <1>6 DEF WriteExtras, DInv, UpdateInv, RootInv, Truthful, UpdatePosition,
       ReceiptFollowsJournal, Expected, installation, control, updateVars
  <2>3. (RemovalInv /\ RemovalPosition)'
    BY <1>6 DEF WriteExtras, DInv, RemovalInv, RemovalPosition, AllHome, Owned, installation,
       control, updateVars, packageVars
  <2>4. AnswerInv'
    BY <1>6 DEF WriteExtras, DInv, AnswerInv, RefusalHasACause, installation, control, updateVars
  <2> QED BY <2>1, <2>2, <2>3, <2>4 DEF DInv
<1>7. ASSUME EmptyRoot PROVE DInv'
  <2>1. TypeOK'
    BY DeployedAssumption, <1>7 DEF EmptyRoot, Fresh, Transaction, NoTransaction, DInv, TypeOK,
       UpdateTypeOK, UninstallTypeOK, Positions, UpdateInv, RootInv, Truthful, UpdatePosition,
       ReceiptFollowsJournal, Expected, Terminal, RemovalInv, RemovalPosition, AllHome, AnswerInv,
       RefusalHasACause, UpdatePhases, UninstallPhases, Pieces, Owned, Outcomes, Outcome, Nothing,
       Open, installation, control, updateVars, uninstallVars, packageVars
  <2>2. UpdateInv'
    BY <1>7 DEF EmptyRoot, Transaction, NoTransaction, DInv, UpdateInv, RootInv, Truthful,
       UpdatePosition, ReceiptFollowsJournal, Terminal, RemovalInv, control
  <2>3. (RemovalInv /\ RemovalPosition)'
    BY <1>7 DEF EmptyRoot, DInv, RemovalInv, RemovalPosition, control
  <2>4. AnswerInv'
    BY <1>7 DEF EmptyRoot, DInv, RemovalInv, AnswerInv, RefusalHasACause, control
  <2> QED BY <2>1, <2>2, <2>3, <2>4 DEF DInv
<1>8. ASSUME ForeignAutostart PROVE DInv'
  <2>1. TypeOK'
    BY <1>8 DEF ForeignAutostart, DInv, TypeOK, UpdateTypeOK, UninstallTypeOK, installation,
       control, updateVars, packageVars
  <2>2. UpdateInv'
    BY <1>8 DEF ForeignAutostart, DInv, UpdateInv, RootInv, Truthful, UpdatePosition,
       ReceiptFollowsJournal, Expected, installation, control, updateVars
  <2>3. (RemovalInv /\ RemovalPosition)'
    BY <1>8 DEF ForeignAutostart, DInv, RemovalInv, RemovalPosition, AllHome, Owned, installation,
       control
  <2>4. AnswerInv'
    BY <1>8 DEF ForeignAutostart, DInv, AnswerInv, RefusalHasACause, installation, control,
       updateVars
  <2> QED BY <2>1, <2>2, <2>3, <2>4 DEF DInv
<1> QED BY <1>1, <1>2, <1>3, <1>4, <1>5, <1>6, <1>7, <1>8 DEF UpdateNext, UninstallNext,
      AutostartNext

-----------------------------------------------------------------------------
LEMMA InitHolds == Init => DInv
<1> SUFFICES ASSUME Init PROVE DInv
  OBVIOUS
<1>1. TypeOK
  BY DEF Init, UpdateInit, UninstallInit, TypeOK, UpdateTypeOK, UninstallTypeOK, Positions, Fresh
<1>2. UpdateInv /\ AnswerInv
  BY DEF Init, UpdateInit, UninstallInit, UpdateInv, RootInv, Truthful, UpdatePosition,
     ReceiptFollowsJournal, AnswerInv, RefusalHasACause, NoTransaction, Transaction, Terminal
<1>3. RemovalInv /\ RemovalPosition
  BY DEF Init, UninstallInit, RemovalInv, RemovalPosition
<1> QED BY <1>1, <1>2, <1>3 DEF DInv

LEMMA StutterHolds == ASSUME DInv, UNCHANGED vars PROVE DInv'
<1>1. TypeOK'
  BY DEF DInv, TypeOK, UpdateTypeOK, UninstallTypeOK, vars, installation, control, updateVars,
     uninstallVars, packageVars
<1>2. UpdateInv'
  BY DEF DInv, UpdateInv, RootInv, Truthful, UpdatePosition, ReceiptFollowsJournal, Expected,
     vars, installation, control, updateVars, uninstallVars
<1>3. (RemovalInv /\ RemovalPosition)'
  BY DEF DInv, RemovalInv, RemovalPosition, AllHome, Owned, vars, installation, control,
     updateVars, uninstallVars, packageVars
<1>4. AnswerInv'
  BY DEF DInv, AnswerInv, RefusalHasACause, vars, installation, control, updateVars, uninstallVars
<1> QED BY <1>1, <1>2, <1>3, <1>4 DEF DInv

LEMMA InvariantHolds == Spec => []DInv
<1>1. ASSUME DInv, [Next]_vars PROVE DInv'
  BY <1>1, UpdateSteps, RemovalSteps, OtherSteps, StutterHolds DEF Next
<1> QED BY InitHolds, <1>1, PTL DEF Spec

-----------------------------------------------------------------------------
\* Every state of a deployment is well-formed.
THEOREM DeploymentTypeCorrect == Spec => []TypeOK
<1>1. DInv => TypeOK
  BY DEF DInv
<1> QED BY <1>1, InvariantHolds, PTL

\* However an update is interrupted, its journal tells the truth about the installation
\* (stage, activate and reconcile of update.rs).
THEOREM JournalIsTrueHolds == Spec => []JournalIsTrue
<1>1. DInv => JournalIsTrue
  BY DEF DInv, UpdateInv, Truthful, JournalIsTrue
<1> QED BY <1>1, InvariantHolds, PTL

\* A receipt is never ahead of the journal (write_receipt, ensure_terminal_receipt).
THEOREM ReceiptFollowsJournalHolds == Spec => []ReceiptFollowsJournal
<1>1. DInv => ReceiptFollowsJournal
  BY DEF DInv, UpdateInv
<1> QED BY <1>1, InvariantHolds, PTL

\* Wherever an update is cut short both of its records are true, the journal of the
\* installation and the receipt of the journal (activate, reconcile, write_receipt).
THEOREM RecordsAreTrueHolds == Spec => []RecordsAreTrue
<1>1. JournalIsTrue /\ ReceiptFollowsJournal => RecordsAreTrue
  BY DEF RecordsAreTrue
<1> QED BY <1>1, JournalIsTrueHolds, ReceiptFollowsJournalHolds, PTL

\* Only a change by somebody else is answered as drift (reconcile, stage).
THEOREM DriftIsForeignHolds == Spec => []DriftIsForeign
<1>1. DInv => DriftIsForeign
  BY DEF DInv, AnswerInv, DriftIsForeign
<1> QED BY <1>1, InvariantHolds, PTL

\* An autostart entry of ours finds the stable Agent of a selected version in its place
\* (enable_autostart, resume_uninstall).
THEOREM AutostartLaunchesHolds == Spec => []AutostartLaunches
<1>1. DInv => AutostartLaunches
  BY DEF DInv, RemovalInv, AllHome, Pieces, AutostartLaunches
<1> QED BY <1>1, InvariantHolds, PTL

\* A removal is refused only for the causes that are named (uninstall,
\* cleanup_detached_uninstall).
THEOREM RefusalHasACauseHolds == Spec => []RefusalHasACause
<1>1. DInv => RefusalHasACause
  BY DEF DInv, AnswerInv
<1> QED BY <1>1, InvariantHolds, PTL

\* Drift and refusals, of updates and removals on one root, have the causes that are named
\* and no other (reconcile of update.rs, uninstall of installation.rs).
THEOREM AnswersHaveACauseHolds == Spec => []AnswersHaveACause
<1>1. DriftIsForeign /\ RefusalHasACause => AnswersHaveACause
  BY DEF AnswersHaveACause
<1> QED BY <1>1, DriftIsForeignHolds, RefusalHasACauseHolds, PTL

-----------------------------------------------------------------------------
Kept ==
  /\ (root = "there" /\ root' = "none") =>
       /\ journal = NoTransaction /\ receipt = "none"
       /\ extras => detached' = "foreign"
  /\ detached = "foreign" => detached' = "foreign"
  /\ (autostart = "foreign" /\ autostart' # "foreign") => pc' = pc \/ pc = "enable"

LEMMA KeptByUpdates ==
  ASSUME DInv, UpdateNext, UNCHANGED <<plan, uninstallVars, packageVars>> PROVE Kept
<1>1. detached' = detached /\ autostart' = autostart
  BY DEF uninstallVars
<1>2. ~(root = "there" /\ root' = "none")
  BY DEF UpdateNext, Stage, StageInstall, StageReady, StageMismatch, ActivateDefers,
     ActivateResumes, ActivateSelects, ActivateSwitched, ActivateCommits, ActivateBack,
     ActivateRolled, WriteReceipt, ReconcileRefuses, ReconcileStaged, ReconcileSelects,
     ReconcileBack, ClearJournal, ClearReceipt, SelectBeside, Selects, Installs, Open, installation
<1> QED BY <1>1, <1>2 DEF Kept

LEMMA KeptByRemovals == ASSUME DInv, UninstallNext \/ AutostartNext PROVE Kept
<1>1. CASE Detach
  BY <1>1 DEF Detach, Kept, DInv, RemovalPosition, RemovalInv, Go
<1>2. CASE Sweep \/ Swept
  BY <1>2 DEF Sweep, Swept, Kept, DInv, RemovalPosition, installation, Give
<1>3. CASE NothingLeft \/ ResumeDetached \/ RefuseDetached \/ AlreadyRemoved \/ UninstallRefuses
  BY <1>3 DEF NothingLeft, ResumeDetached, RefuseDetached, AlreadyRemoved, UninstallRefuses, Kept,
     installation, uninstallVars
<1>4. CASE CreatePlan \/ WritePlan \/ ResumePlan \/ MarkAutostartRemoved \/ Quarantine
           \/ MarkQuarantined \/ Clean \/ MarkCleaned \/ EndPlan
  BY <1>4 DEF CreatePlan, WritePlan, ResumePlan, MarkAutostartRemoved, Quarantine, MarkQuarantined,
     Clean, MarkCleaned, EndPlan, Plans, Moves, Kept, installation, uninstallVars
<1>5. CASE RemoveAutostart \/ AutostartDrift \/ AutostartNext
  BY <1>5 DEF RemoveAutostart, AutostartDrift, AutostartNext, EnableFinds, EnableRenames, Disable,
     RemovesExact, Kept, installation, uninstallVars
<1>6. CASE WriteRemovalReceipt \/ KeepRoot \/ FindOnlyReceipt
  BY <1>6 DEF WriteRemovalReceipt, KeepRoot, FindOnlyReceipt, Kept, installation, uninstallVars
<1> QED BY <1>1, <1>2, <1>3, <1>4, <1>5, <1>6 DEF UninstallNext

LEMMA KeptByOthers ==
  ASSUME Extract \/ HelperInstall \/ HelperBind \/ CutShort \/ ReplaceStaging \/ WriteExtras
         \/ EmptyRoot \/ ForeignAutostart
  PROVE  Kept
BY DEF Extract, HelperInstall, InstallsAccepted, Installs, HelperBind, CutShort, ReplaceStaging,
   WriteExtras, EmptyRoot, ForeignAutostart, Kept, untouched, control, installation, uninstallVars

\* What belongs to somebody else survives a removal (resume_uninstall, remove_exact,
\* cleanup_detached_uninstall).
THEOREM ForeignIsKeptHolds == Spec => ForeignIsKept
<1>1. ASSUME DInv, [Next]_vars PROVE [Kept]_<<root, detached, autostart, pc>>
  BY <1>1, KeptByUpdates, KeptByRemovals, KeptByOthers
     DEF Next, vars, installation, control, uninstallVars
<1>2. DInv /\ [Next]_vars =>
        [/\ (root = "there" /\ root' = "none") =>
              /\ journal = NoTransaction /\ receipt = "none"
              /\ extras => detached' = "foreign"
         /\ detached = "foreign" => detached' = "foreign"
         /\ (autostart = "foreign" /\ autostart' # "foreign") => pc' = pc \/ pc = "enable"]_<<
           root, detached, autostart, pc>>
  BY <1>1 DEF Kept
<1> QED BY <1>2, InvariantHolds, PTL DEF Spec, ForeignIsKept

-----------------------------------------------------------------------------
Filled ==
  \A v \in Versions : (slots'[v] # slots[v] /\ slots'[v] # "none") =>
    /\ slots[v] = "none"
    /\ slots'[v] = IF pc = "install" THEN accepted.digest ELSE journal.digest

LEMMA FilledByUpdates == ASSUME DInv, UpdateNext PROVE Filled
<1>1. CASE \E now \in Digests : StageInstall(now)
  <2>1. CASE UNCHANGED slots
    BY <2>1 DEF Filled
  <2>2. CASE slots' = [slots EXCEPT ![journal.requested] = journal.digest]
    <3>1. pc = "stage-install" /\ slots[journal.requested] \in {"none", journal.digest}
      BY <1>1 DEF StageInstall, DInv, UpdateInv, UpdatePosition
    <3> QED BY <2>2, <3>1 DEF Filled, DInv, TypeOK
  <2> QED BY <1>1, <2>1, <2>2 DEF StageInstall, Installs, installation
<1>2. CASE ~(\E now \in Digests : StageInstall(now))
  <2>1. UNCHANGED slots
    BY <1>2 DEF UpdateNext, Stage, StageReady, StageMismatch, ActivateDefers, ActivateResumes,
       ActivateSelects, ActivateSwitched, ActivateCommits, ActivateBack, ActivateRolled,
       WriteReceipt, ReconcileRefuses, ReconcileStaged, ReconcileSelects, ReconcileBack,
       ClearJournal, ClearReceipt, SelectBeside, Selects, installation
  <2> QED BY <2>1 DEF Filled
<1> QED BY <1>1, <1>2

LEMMA FilledByRemovals == ASSUME UninstallNext \/ AutostartNext PROVE Filled
<1>1. UNCHANGED slots \/ slots' = Fresh
  BY DEF UninstallNext, AutostartNext, NothingLeft, ResumeDetached, RefuseDetached, AlreadyRemoved,
     UninstallRefuses, CreatePlan, WritePlan, ResumePlan, RemoveAutostart, AutostartDrift,
     MarkAutostartRemoved, Quarantine, MarkQuarantined, Clean, MarkCleaned, WriteRemovalReceipt,
     EndPlan, KeepRoot, FindOnlyReceipt, Detach, Sweep, Swept, EnableFinds, EnableRenames, Disable,
     Plans, Moves, installation
<1> QED BY <1>1 DEF Filled, Fresh

LEMMA FilledByOthers ==
  ASSUME DInv, Extract \/ HelperInstall \/ HelperBind \/ CutShort \/ ReplaceStaging \/ WriteExtras
               \/ EmptyRoot \/ ForeignAutostart
  PROVE  Filled
<1>1. CASE HelperInstall
  BY <1>1 DEF HelperInstall, InstallsAccepted, Installs, Filled, DInv, TypeOK
<1>2. CASE ~HelperInstall
  <2>1. UNCHANGED slots \/ slots' = Fresh
    BY <1>2 DEF Extract, HelperBind, CutShort, ReplaceStaging, WriteExtras, EmptyRoot,
       ForeignAutostart, untouched, installation
  <2> QED BY <2>1 DEF Filled, Fresh
<1> QED BY <1>1, <1>2

\* Whatever the payload directory holds by now, a slot is filled once and with what was
\* accepted (install_expected, install_with_manifest).
THEOREM OnlyAcceptedPayloadsHolds == Spec => OnlyAcceptedPayloads
<1>1. ASSUME DInv, [Next]_vars PROVE [Filled]_vars
  BY <1>1, FilledByUpdates, FilledByRemovals, FilledByOthers DEF Next
<1>2. DInv /\ [Next]_vars =>
        [\A v \in Versions : (slots'[v] # slots[v] /\ slots'[v] # "none") =>
           /\ slots[v] = "none"
           /\ slots'[v] = IF pc = "install" THEN accepted.digest ELSE journal.digest]_vars
  BY <1>1 DEF Filled
<1> QED BY <1>2, InvariantHolds, PTL DEF Spec, OnlyAcceptedPayloads

-----------------------------------------------------------------------------
\* The promise of the installation, kept by all who use it.

\* What is selected is installed, something is selected as soon as anything is
\* installed, and a root that is gone has taken its binding along.
OfferInv ==
  /\ active # "none" => slots[active] # "none"
  /\ active = "none" => slots = Fresh
  /\ root # "there" => ~bound

\* What a step may do to what is on offer.
Filling ==
  \E v \in Versions, d \in Digests :
    slots[v] \in {"none", d} /\ Installs(v, d) /\ UNCHANGED plan
Choosing == \E v \in Versions : Selects(v) /\ UNCHANGED plan
Binds ==
  Open /\ ~bound /\ bound' = TRUE /\ UNCHANGED <<root, slots, active, place, plan>>
Withdraws ==
  Open /\ plan' = "torn" /\ UNCHANGED <<root, slots, active, bound, place>>
Vanishes ==
  ~Open /\ root' # "there" /\ slots' = Fresh /\ active' = "none" /\ bound' = FALSE
Leaves ==
  /\ UNCHANGED <<slots, active, bound>> /\ (Open' <=> Open)
  /\ root' = root \/ (root # "there" /\ root' # "there")

Touch == Filling \/ Choosing \/ Binds \/ Withdraws \/ Vanishes \/ Leaves

LEMMA TouchedByUpdates == ASSUME DInv, UpdateNext, UNCHANGED plan PROVE Touch
<1>1. CASE \E now \in Digests : StageInstall(now)
  <2>1. pc = "stage-install" /\ journal.phase = "Intent"
        /\ slots[journal.requested] \in {"none", journal.digest}
    BY <1>1 DEF StageInstall, DInv, UpdateInv, UpdatePosition
  <2>2. journal.requested \in Versions /\ journal.digest \in Digests
    BY <2>1 DEF DInv, TypeOK, UpdateTypeOK, NoTransaction, Transaction
  <2>3. CASE Installs(journal.requested, journal.digest)
    BY <2>1, <2>2, <2>3 DEF Touch, Filling
  <2>4. CASE UNCHANGED installation
    BY <2>4 DEF Touch, Leaves, Open, installation
  <2> QED BY <1>1, <2>3, <2>4 DEF StageInstall
<1>2. CASE ActivateSelects \/ ReconcileSelects \/ SelectBeside
  <2>1. \E v \in Versions : Selects(v)
    <3>1. CASE SelectBeside
      BY <3>1 DEF SelectBeside
    <3>2. CASE ActivateSelects
      <4>1. journal.phase = "ReadyToActivate"
        BY <3>2 DEF ActivateSelects, DInv, UpdateInv, UpdatePosition
      <4>2. journal.requested \in Versions
        BY <4>1 DEF DInv, TypeOK, UpdateTypeOK, NoTransaction, Transaction
      <4> QED BY <3>2, <4>2 DEF ActivateSelects
    <3>3. CASE ReconcileSelects
      <4>1. journal.phase \in UpdatePhases
        BY <3>3 DEF ReconcileSelects
      <4>2. journal.previous \in Versions
        BY <4>1 DEF DInv, TypeOK, UpdateTypeOK, NoTransaction, Transaction, UpdatePhases, Terminal
      <4> QED BY <3>3, <4>2 DEF ReconcileSelects
    <3> QED BY <1>2, <3>1, <3>2, <3>3
  <2> QED BY <2>1 DEF Touch, Choosing
<1>3. CASE ActivateBack
  <2>1. journal.phase = "Switched"
    BY <1>3 DEF ActivateBack, DInv, UpdateInv, UpdatePosition
  <2>2. journal.previous \in Versions
    BY <2>1 DEF DInv, TypeOK, UpdateTypeOK, NoTransaction, Transaction
  <2> QED BY <1>3, <2>2 DEF ActivateBack, Touch, Choosing
<1>4. CASE Stage \/ StageReady \/ StageMismatch \/ ActivateDefers \/ ActivateResumes
           \/ ActivateSwitched \/ ActivateCommits \/ ActivateRolled \/ WriteReceipt
           \/ ReconcileRefuses \/ ReconcileStaged \/ ReconcileBack \/ ClearJournal \/ ClearReceipt
  <2>1. UNCHANGED installation
    BY <1>4 DEF Stage, StageReady, StageMismatch, ActivateDefers, ActivateResumes,
       ActivateSwitched, ActivateCommits, ActivateRolled, WriteReceipt, ReconcileRefuses,
       ReconcileStaged, ReconcileBack, ClearJournal, ClearReceipt
  <2> QED BY <2>1 DEF Touch, Leaves, Open, installation
<1> QED BY <1>1, <1>2, <1>3, <1>4 DEF UpdateNext

LEMMA TouchedByRemovals == ASSUME DInv, UninstallNext \/ AutostartNext PROVE Touch
<1>1. CASE Detach
  <2>1. ~Open
    BY <1>1 DEF Detach, DInv, RemovalPosition, RemovalInv, Open
  <2> QED BY <1>1, <2>1 DEF Detach, Touch, Vanishes
<1>2. CASE CreatePlan
  BY <1>2 DEF CreatePlan, Plans, Touch, Withdraws
<1>3. CASE WritePlan \/ MarkAutostartRemoved \/ MarkQuarantined \/ MarkCleaned
  <2>1. plan # "none" /\ plan' # "none"
    BY <1>3 DEF WritePlan, MarkAutostartRemoved, MarkQuarantined, MarkCleaned, Plans, DInv,
       RemovalPosition
  <2> QED
    BY <1>3, <2>1 DEF WritePlan, MarkAutostartRemoved, MarkQuarantined, MarkCleaned, Plans, Touch,
       Leaves, Open
<1>4. CASE EndPlan
  <2>1. plan = "Cleaned" /\ place["ledger"] = "gone"
    BY <1>4 DEF EndPlan, DInv, RemovalPosition, RemovalInv
  <2> QED BY <1>4, <2>1 DEF EndPlan, Plans, Touch, Leaves, Open
<1>5. CASE Quarantine \/ Clean
  <2>1. plan # "none"
    BY <1>5 DEF Quarantine, Clean, DInv, RemovalPosition
  <2> QED BY <1>5, <2>1 DEF Quarantine, Clean, Moves, Touch, Leaves, Open
<1>6. CASE NothingLeft
  BY <1>6 DEF NothingLeft, Touch, Leaves, Open
<1>7. CASE ResumeDetached \/ RefuseDetached \/ AlreadyRemoved \/ UninstallRefuses \/ ResumePlan
           \/ RemoveAutostart \/ AutostartDrift \/ WriteRemovalReceipt \/ KeepRoot
           \/ FindOnlyReceipt \/ Sweep \/ Swept \/ AutostartNext
  <2>1. UNCHANGED installation /\ UNCHANGED plan
    BY <1>7 DEF ResumeDetached, RefuseDetached, AlreadyRemoved, UninstallRefuses, ResumePlan,
       RemoveAutostart, AutostartDrift, WriteRemovalReceipt, KeepRoot, FindOnlyReceipt, Sweep,
       Swept, AutostartNext, EnableFinds, EnableRenames, Disable
  <2> QED BY <2>1 DEF Touch, Leaves, Open, installation
<1> QED BY <1>1, <1>2, <1>3, <1>4, <1>5, <1>6, <1>7 DEF UninstallNext

LEMMA TouchedByOthers ==
  ASSUME DInv, Extract \/ HelperInstall \/ HelperBind \/ CutShort \/ ReplaceStaging \/ WriteExtras
               \/ EmptyRoot \/ ForeignAutostart
  PROVE  Touch
<1>1. CASE HelperInstall
  <2>1. accepted # Nothing
    BY <1>1 DEF HelperInstall, DInv, RemovalPosition
  <2>2. accepted.version \in Versions /\ accepted.digest \in Digests
    BY <2>1 DEF DInv, TypeOK
  <2> QED BY <1>1, <2>2 DEF HelperInstall, InstallsAccepted, Touch, Filling
<1>2. CASE HelperBind
  BY <1>2 DEF HelperBind, Touch, Binds
<1>3. CASE EmptyRoot
  <2>1. ~Open
    BY <1>3 DEF EmptyRoot, DInv, RemovalInv, Open
  <2> QED BY <1>3, <2>1 DEF EmptyRoot, Touch, Vanishes
<1>4. CASE Extract \/ CutShort \/ ReplaceStaging \/ WriteExtras \/ ForeignAutostart
  <2>1. UNCHANGED installation /\ UNCHANGED plan
    BY <1>4 DEF Extract, CutShort, ReplaceStaging, WriteExtras, ForeignAutostart, untouched
  <2> QED BY <2>1 DEF Touch, Leaves, Open, installation
<1> QED BY <1>1, <1>2, <1>3, <1>4

LEMMA Touched == ASSUME DInv, [Next]_vars PROVE Touch
<1>1. CASE UNCHANGED vars
  BY <1>1 DEF vars, installation, Touch, Leaves, Open
<1> QED
  BY <1>1, TouchedByUpdates, TouchedByRemovals, TouchedByOthers DEF Next

LEMMA OfferInit == Init => OfferInv
  BY DEF Init, OfferInv

LEMMA OfferStep == ASSUME DInv, OfferInv, [Next]_vars PROVE OfferInv'
<1>0. Touch
  BY Touched
<1>1. CASE Filling
  <2>1. PICK v \in Versions, d \in Digests : Installs(v, d)
    BY <1>1 DEF Filling
  <2>2. slots' = [slots EXCEPT ![v] = d] /\ d # "none" /\ v # "none"
    BY <2>1, DeployedAssumption DEF Installs
  <2>3. slots \in [Versions -> Digests \cup {"none"}] /\ active \in Versions \cup {"none"}
    BY DEF DInv, TypeOK
  <2>4. active' \in Versions /\ slots'[active'] # "none"
    BY <2>1, <2>2, <2>3 DEF Installs, OfferInv
  <2>5. active' # "none" /\ root' = "there"
    BY <2>1, <2>4, DeployedAssumption DEF Installs
  <2> QED BY <2>4, <2>5 DEF OfferInv
<1>2. CASE Choosing
  BY <1>2, DeployedAssumption DEF Choosing, Selects, Open, OfferInv
<1>3. CASE Binds \/ Withdraws \/ Vanishes \/ Leaves
  BY <1>3 DEF Binds, Withdraws, Vanishes, Leaves, Open, OfferInv
<1> QED BY <1>0, <1>1, <1>2, <1>3 DEF Touch

\* An install is one, or changes nothing.
LEMMA FillingOffered == ASSUME DInv, OfferInv, Filling PROVE [Offers!Effect]_(Offers!offer)
<1>1. PICK v \in Versions, d \in Digests :
        slots[v] \in {"none", d} /\ Installs(v, d) /\ UNCHANGED plan
  BY DEF Filling
<1> DEFINE held == {w \in Versions : slots[w] # "none"}
<1>2. slots \in [Versions -> Digests \cup {"none"}] /\ active \in Versions \cup {"none"}
  BY DEF DInv, TypeOK
<1>3. d # "none" /\ v # "none"
  BY DeployedAssumption
<1>4. plan = "none" /\ (root = "none" \/ Open)
  BY <1>1 DEF Installs, Open, DInv, RemovalInv
<1>5. Open'
  BY <1>1, <1>4 DEF Installs, Open, Pieces
<1>6. {w \in Versions : slots'[w] # "none"} = held \cup {v}
  BY <1>1, <1>2, <1>3 DEF Installs
<1>7. bound' = bound /\ active' = IF active = "none" THEN v ELSE active
  BY <1>1 DEF Installs
<1>8. CASE root = "none"
  <2>1. ~Open /\ held = {} /\ active = "none" /\ ~bound
    BY <1>8 DEF Open, OfferInv, DInv, UpdateInv, RootInv, Fresh
  <2>2. Offers!Installing(v)
    BY <1>5, <1>6, <1>7, <2>1 DEF Offers!Installing
  <2> QED BY <2>2 DEF Offers!Effect
<1>9. CASE Open /\ slots[v] = "none"
  <2>1. v \notin held
    BY <1>9
  <2>2. Offers!Installing(v)
    BY <1>5, <1>6, <1>7, <1>9, <2>1 DEF Offers!Installing
  <2> QED BY <2>2 DEF Offers!Effect
<1>10. CASE Open /\ slots[v] = d
  <2>1. active # "none" /\ held \cup {v} = held
    BY <1>2, <1>3, <1>10 DEF OfferInv, Fresh
  <2> QED BY <1>5, <1>6, <1>7, <1>10, <2>1 DEF Offers!offer
<1> QED BY <1>1, <1>4, <1>8, <1>9, <1>10

LEMMA OfferedStep ==
  ASSUME DInv, OfferInv, [Next]_vars
  PROVE  [Offers!Effect \/ Withdrawn]_(Offers!offer)
<1>0. Touch
  BY Touched
<1>1. CASE Filling
  BY <1>1, FillingOffered
<1>2. CASE Choosing
  <2>1. PICK v \in Versions : Selects(v) /\ UNCHANGED plan
    BY <1>2 DEF Choosing
  <2>2. Open /\ Open' /\ slots[v] # "none" /\ active' = v /\ UNCHANGED <<slots, bound>>
    BY <2>1 DEF Selects, Open
  <2>3. Offers!Selecting(v)
    BY <2>2 DEF Offers!Selecting
  <2> QED BY <2>3 DEF Offers!Effect
<1>3. CASE Binds
  <2>1. Open /\ Open' /\ ~bound /\ bound' /\ UNCHANGED <<slots, active>>
    BY <1>3 DEF Binds, Open
  <2>2. Offers!Binding("bound")
    BY <2>1 DEF Offers!Binding
  <2> QED BY <2>2 DEF Offers!Effect
<1>4. CASE Withdraws
  <2>1. plan = "none" /\ plan' = "torn" /\ ~Open'
    BY <1>4 DEF Withdraws, Open
  <2> QED BY <2>1 DEF Withdrawn, Offers!offer
<1>5. CASE Vanishes
  <2>1. ~Open /\ ~Open'
    BY <1>5 DEF Vanishes, Open
  <2> QED BY <2>1 DEF Offers!offer
<1>6. CASE Leaves
  BY <1>6 DEF Leaves, Offers!offer
<1> QED BY <1>0, <1>1, <1>2, <1>3, <1>4, <1>5, <1>6 DEF Touch

\* Updates, removals and the helper, cut short anywhere and in any order, change what the
\* installation offers only as the installation promises (Update, Uninstall, Deployment on
\* InstallationPromise, which Installation implements).
THEOREM OfferChangesWholeHolds == Spec => OfferChangesWhole
<1>1. Init => OfferInv
  BY OfferInit
<1>2. DInv /\ OfferInv /\ [Next]_vars => OfferInv'
  BY OfferStep
<1>3. DInv /\ OfferInv /\ [Next]_vars => [Offers!Effect \/ Withdrawn]_(Offers!offer)
  BY OfferedStep
<1> QED BY <1>1, <1>2, <1>3, InvariantHolds, PTL DEF Spec, OfferChangesWhole

\* The version that is launched is installed, and the first one installed is selected.
THEOREM ActiveIsInstalled ==
  Spec => [](/\ active # "none" => slots[active] # "none"
             /\ active = "none" => slots = Fresh)
<1>1. Init => OfferInv
  BY OfferInit
<1>2. DInv /\ OfferInv /\ [Next]_vars => OfferInv'
  BY OfferStep
<1>3. OfferInv => /\ active # "none" => slots[active] # "none"
                  /\ active = "none" => slots = Fresh
  BY DEF OfferInv
<1> QED BY <1>1, <1>2, <1>3, InvariantHolds, PTL DEF Spec
================================================================================
