------------------------------- MODULE Uninstall -------------------------------
(***************************************************************************)
(* The removal of an installation (uninstall in src/src/installation.rs)   *)
(* and the autostart entry of the current user.  Owned content is set      *)
(* aside piece by piece, then deleted, then the root is detached under     *)
(* another name and deleted, unless it holds anything else.                *)
(***************************************************************************)
EXTENDS Update, Naturals, Sequences

VARIABLES
  done,        \* state/uninstall-receipt.json exists
  detached,    \* the detached root: "none", "whole", "partial" (its deletion was cut
               \* short), or "foreign" (it holds more than the receipt)
  autostart,   \* the entry in the Startup directory: "none", "ours" or "foreign"
  extras       \* the root holds files no ledger knows: settings, logs, evidence of the Agent

uninstallVars == <<done, detached, autostart, extras>>

UninstallPhases == {"Intent", "AutostartRemoved", "Quarantined", "Cleaned"}

\* quarantine_uninstall_content takes them in this order.
Order == <<"versions", "bin", "current", "binding", "ledger">>

\* What the ledger recorded in the transaction owns.
Owned == Pieces \ ((IF active = "none" THEN {"current"} ELSE {})
                   \cup (IF bound THEN {} ELSE {"binding"}))

NextPiece(where) ==
  CHOOSE p \in Owned :
    /\ place[p] = where
    /\ \E i \in DOMAIN Order : Order[i] = p
         /\ \A j \in 1 .. i - 1 : Order[j] \notin Owned \/ place[Order[j]] # where

UninstallTypeOK ==
  /\ plan \in UninstallPhases \cup {"none", "torn"}
  /\ done \in BOOLEAN /\ extras \in BOOLEAN
  /\ detached \in {"none", "whole", "partial", "foreign"}
  /\ autostart \in {"none", "ours", "foreign"}

UninstallInit ==
  /\ plan = "none" /\ done = FALSE /\ detached = "none"
  /\ autostart = "none" /\ extras = FALSE

Plans(phase) ==
  plan' = phase /\ UNCHANGED <<root, slots, active, bound, place, uninstallVars, updateVars>>

-----------------------------------------------------------------------------
\* uninstall: what it finds.

\* The root is gone, or somebody emptied it.
NothingLeft ==
  /\ pc = "idle" /\ root \in {"none", "empty"} /\ detached = "none"
  /\ root' = "none"
  /\ Give("removed")
  /\ UNCHANGED <<slots, active, bound, place, plan, uninstallVars, updateVars>>

\* cleanup_detached_uninstall goes on with what it recognises.
ResumeDetached ==
  /\ pc = "idle" /\ root = "none" /\ detached = "whole"
  /\ Go("sweep")
  /\ UNCHANGED <<installation, plan, uninstallVars, updateVars>>

RefuseDetached ==
  /\ pc = "idle" /\ detached # "none" /\ (root = "none" => detached # "whole")
  /\ Give("refused")
  /\ UNCHANGED <<installation, plan, uninstallVars, updateVars>>

AlreadyRemoved ==
  /\ pc = "idle" /\ root = "there" /\ detached = "none" /\ plan = "none" /\ done
  /\ Give("preserved")
  /\ UNCHANGED <<installation, plan, uninstallVars, updateVars>>

\* The journal does not parse, or there is neither a journal, a receipt nor a ledger.
UninstallRefuses ==
  /\ pc = "idle" /\ root = "there" /\ detached = "none"
  /\ plan = "torn" \/ (plan = "none" /\ ~done /\ place["ledger"] # "home")
  /\ Give("refused")
  /\ UNCHANGED <<installation, plan, uninstallVars, updateVars>>

\* durable_create_new opens the journal under its final name, then writes it.
CreatePlan ==
  /\ pc = "idle" /\ Open /\ detached = "none" /\ ~done
  /\ Plans("torn")
  /\ Go("plan")

WritePlan ==
  /\ pc = "plan"
  /\ Plans("Intent")
  /\ Go("autostart")

\* Defective variant: an interrupted removal goes on with the content.
ResumePositionContent(phase) ==
  CASE phase \in {"Intent", "AutostartRemoved"} -> "quarantine"
    [] phase = "Quarantined" -> "clean"
    [] phase = "Cleaned" -> "receipt-removal"

ResumePosition(phase) ==
  CASE phase = "Intent" -> "autostart"
    [] phase = "AutostartRemoved" -> "quarantine"
    [] phase = "Quarantined" -> "clean"
    [] phase = "Cleaned" -> "receipt-removal"

ResumePlan ==
  /\ pc = "idle" /\ root = "there" /\ detached = "none" /\ plan \in UninstallPhases
  /\ Go(ResumePosition(plan))
  /\ UNCHANGED <<installation, plan, uninstallVars, updateVars>>

-----------------------------------------------------------------------------
\* resume_uninstall

\* remove_exact: deletes by the handle whose bytes it has compared.
RemovesExact ==
  autostart # "foreign" /\ autostart' = "none"

RemoveAutostart ==
  /\ pc = "autostart"
  /\ RemovesExact
  /\ Go("autostart-removed")
  /\ UNCHANGED <<installation, plan, done, detached, extras, updateVars>>

\* The transaction stays, and with it every other operation is refused.
AutostartDrift ==
  /\ pc = "autostart" /\ autostart = "foreign"
  /\ Give("autostart-drift")
  /\ UNCHANGED <<installation, plan, uninstallVars, updateVars>>

MarkAutostartRemoved ==
  /\ pc = "autostart-removed"
  /\ Plans("AutostartRemoved")
  /\ Go("quarantine")

Moves(p, where) ==
  /\ place' = [place EXCEPT ![p] = where]
  /\ UNCHANGED <<root, slots, active, bound, plan, uninstallVars, updateVars>>

Quarantine ==
  /\ pc = "quarantine" /\ \E p \in Owned : place[p] = "home"
  /\ Moves(NextPiece("home"), "aside")
  /\ Go("quarantine")

MarkQuarantined ==
  /\ pc = "quarantine" /\ \A p \in Owned : place[p] # "home"
  /\ Plans("Quarantined")
  /\ Go("clean")

\* cleanup_uninstall_quarantine; a directory whose deletion was cut short is deleted again.
Clean ==
  /\ pc = "clean" /\ \E p \in Owned : place[p] = "aside"
  /\ Moves(NextPiece("aside"), "gone")
  /\ Go("clean")

MarkCleaned ==
  /\ pc = "clean" /\ \A p \in Owned : place[p] # "aside"
  /\ Plans("Cleaned")
  /\ Go("receipt-removal")

\* Defective variant: the journal goes without a receipt in its place.
RemovalReceiptSkipped ==
  /\ pc = "receipt-removal"
  /\ Go("end-plan")
  /\ UNCHANGED <<installation, plan, uninstallVars, updateVars>>

WriteRemovalReceipt ==
  /\ pc = "receipt-removal"
  /\ done' = TRUE
  /\ Go("end-plan")
  /\ UNCHANGED <<installation, plan, detached, autostart, extras, updateVars>>

EndPlan ==
  /\ pc = "end-plan"
  /\ Plans("none")
  /\ Go("tidy")

\* Defective variant: files of the updates do not count.
OnlyReceiptCareless == ~extras

\* only_receipt and only_state: nothing but the state directory with the receipt.
OnlyReceipt == ~extras /\ journal = NoTransaction /\ receipt = "none"

KeepRoot ==
  /\ pc = "tidy" /\ ~OnlyReceipt
  /\ Give("preserved")
  /\ UNCHANGED <<installation, plan, uninstallVars, updateVars>>

FindOnlyReceipt ==
  /\ pc = "tidy" /\ OnlyReceipt
  /\ Go("detach")
  /\ UNCHANGED <<installation, plan, uninstallVars, updateVars>>

\* The root is renamed with what it holds by now.
Detach ==
  /\ pc = "detach"
  /\ root' = "none" /\ slots' = Fresh /\ active' = "none" /\ bound' = FALSE
  /\ place' = [p \in Pieces |-> "gone"]
  /\ detached' = IF extras THEN "foreign" ELSE "whole"
  /\ done' = FALSE /\ extras' = FALSE
  /\ Go("sweep")
  /\ UNCHANGED <<plan, autostart, updateVars>>

\* remove_dir_all takes the files before the directories.
Sweep ==
  /\ pc = "sweep"
  /\ IF detached = "whole"
     THEN detached' = "partial" /\ Go("sweeping")
     ELSE Give("refused") /\ UNCHANGED detached
  /\ UNCHANGED <<installation, plan, done, autostart, extras, updateVars>>

Swept ==
  /\ pc = "sweeping"
  /\ detached' = "none"
  /\ Give("removed")
  /\ UNCHANGED <<installation, plan, done, autostart, extras, updateVars>>

UninstallNext ==
  \/ NothingLeft \/ ResumeDetached \/ RefuseDetached \/ AlreadyRemoved \/ UninstallRefuses
  \/ CreatePlan \/ WritePlan \/ ResumePlan
  \/ RemoveAutostart \/ AutostartDrift \/ MarkAutostartRemoved
  \/ Quarantine \/ MarkQuarantined \/ Clean \/ MarkCleaned
  \/ WriteRemovalReceipt \/ EndPlan \/ KeepRoot \/ FindOnlyReceipt \/ Detach \/ Sweep \/ Swept

-----------------------------------------------------------------------------
\* enable_autostart and disable_autostart

EnableFinds ==
  /\ pc = "idle" /\ Open /\ active # "none" /\ autostart = "none"
  /\ Go("enable")
  /\ UNCHANGED <<installation, plan, uninstallVars, updateVars>>

\* install_exact: on Windows the rename replaces what has appeared in the meantime.
EnableRenames ==
  /\ pc = "enable"
  /\ autostart' = "ours"
  /\ Give("done")
  /\ UNCHANGED <<installation, plan, done, detached, extras, updateVars>>

Disable ==
  /\ pc = "idle" /\ RemovesExact
  /\ Give("done")
  /\ UNCHANGED <<installation, plan, done, detached, extras, updateVars>>

AutostartNext == EnableFinds \/ EnableRenames \/ Disable

-----------------------------------------------------------------------------
\* Properties.

\* The user's session never starts an Agent that is not there: as long as the entry is
\* ours the stable Agent of a selected version is in its place, through every
\* interruption of a removal and every attempt to enable the entry meanwhile.
AutostartLaunches ==
  autostart = "ours" => root = "there" /\ active # "none" /\ place["bin"] = "home"

\* What belongs to somebody else survives a removal: the root goes only with nothing
\* but our receipt in it or with its content kept aside, detached content is deleted
\* only when it was examined, and no call but the race in EnableRenames makes an entry
\* that is not ours disappear (its owner may, which leaves pc alone).
ForeignIsKept ==
  [][/\ (root = "there" /\ root' = "none") =>
          /\ journal = NoTransaction /\ receipt = "none"
          /\ extras => detached' = "foreign"
     /\ detached = "foreign" => detached' = "foreign"
     /\ (autostart = "foreign" /\ autostart' # "foreign") => pc' = pc \/ pc = "enable"]_<<
       root, detached, autostart, pc>>

\* A removal can be resumed after any interruption but four: it is refused only for a
\* journal that was created and not written, a detached root whose deletion was cut short
\* or which holds something else, and a root that was installed again beside a detached one.
RefusalHasACause ==
  answer = "refused" =>
    \/ plan = "torn"
    \/ detached \in {"partial", "foreign"}
    \/ detached = "whole" /\ root = "there"

\* Neither kind of recovery gives up on what it, or the other, left behind: drift is
\* answered only after somebody else's change, a refusal only for those leftovers.
AnswersHaveACause == DriftIsForeign /\ RefusalHasACause
================================================================================
