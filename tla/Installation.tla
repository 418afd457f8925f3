------------------------------ MODULE Installation ------------------------------
(***************************************************************************)
(* The versioned installation of src/src/installation.rs: immutable slots, *)
(* an ownership ledger, the activation (current.json and the stable Agent  *)
(* entry in bin/), the runtime binding, and the journal with which an      *)
(* interrupted operation is reconciled by the next call.  A step is one    *)
(* durable change of the file system; the process may be killed between    *)
(* any two, any file operation may fail, and once somebody else may edit   *)
(* the root between calls.                                                 *)
(***************************************************************************)
EXTENDS FiniteSets

CONSTANTS
  Versions,    \* payloads that are offered, each under its own version
  Bindings     \* runtime bindings that are offered

ASSUME InstallationAssumption ==
  /\ "none" \notin Versions /\ "none" \notin Bindings /\ "torn" \notin Bindings

VARIABLES
  root,        \* the root directory with its ledger exists
  ledger,      \* .runnermesh-installation.json
  journal,     \* state/installation-transaction.json
  staged,      \* the journal's staging directory: "none", "partial" or "whole"
  slots,       \* versions/: complete slots
  current,     \* current.json
  stable,      \* bin/runnermesh-agent.exe: the version whose Agent it holds
  litter,      \* a temporary file of an interrupted replacement is left in bin/
  anchor,      \* config/runtime-binding.json
  edited,      \* somebody else changed a file under the root
  pc,          \* position in the call
  stage,       \* the call is "opening", "working", or "repairing" its own failure
  call,        \* the operation and its subject
  answer       \* of the last call

slotVars == <<staged, slots>>
activation == <<current, stable, litter>>
disk == <<root, ledger, journal, slotVars, activation, anchor, edited>>
control == <<pc, stage, call, answer>>
vars == <<disk, control>>

State(a, v, b) == [active |-> a, versions |-> v, binding |-> b]

Empty == State("none", {}, "none")

\* The contract of a ledger: an active version if and only if there are any.
States ==
  {s \in [active: Versions \cup {"none"}, versions: SUBSET Versions,
          binding: Bindings \cup {"none"}] :
     IF s.versions = {} THEN s.active = "none" ELSE s.active \in s.versions}

Phases == {"Intent", "SlotReady", "SlotCommitted", "MetadataCommitted"}

Journal(p, v, before, after) == [phase |-> p, slot |-> v, previous |-> before, desired |-> after]

NoJournal == Journal("none", "none", Empty, Empty)
TornJournal == Journal("torn", "none", Empty, Empty)

Journals == [phase: Phases, slot: Versions \cup {"none"}, previous: States, desired: States]

Request(kind, subject) == [kind |-> kind, subject |-> subject]

Idle == Request("none", "none")

Requests ==
  {Request("install", v) : v \in Versions} \cup {Request("select", v) : v \in Versions}
  \cup {Request("bind", b) : b \in Bindings} \cup {Request("state", "none")}

Positions ==
  {"idle", "open", "recover", "undo", "rename", "commit", "ledger", "current", "stable",
   "metadata", "finish", "verify", "work", "journal", "journalling", "stage", "copying",
   "ready", "anchor", "anchoring", "bind", "bound"}

TypeOK ==
  /\ root \in BOOLEAN /\ ledger \in States
  /\ journal \in Journals \cup {NoJournal, TornJournal}
  /\ staged \in {"none", "partial", "whole"} /\ slots \in SUBSET Versions
  /\ current \in Versions \cup {"none"} /\ stable \in Versions \cup {"none"}
  /\ litter \in BOOLEAN /\ anchor \in Bindings \cup {"none", "torn"} /\ edited \in BOOLEAN
  /\ pc \in Positions /\ stage \in {"opening", "working", "repairing"}
  /\ call \in Requests \cup {Idle}
  /\ answer \in {"none", "done", "refused", "missing", "drift", "failed"}

-----------------------------------------------------------------------------
\* verify_state: the files bear out a state.
Verified(s) ==
  /\ slots = s.versions
  /\ current = s.active /\ stable = s.active /\ ~litter
  /\ anchor = s.binding

\* Defective variant: only the new activation is known.
ArtifactsKnownNew == {current, stable} \subseteq {journal.desired.active}

\* ensure_activation_artifacts_known
ArtifactsKnown ==
  /\ current \in {journal.previous.active, journal.desired.active}
  /\ stable \in {journal.previous.active, journal.desired.active}

Go(position) == pc' = position /\ UNCHANGED <<stage, call, answer>>

Give(reply) == pc' = "idle" /\ call' = Idle /\ answer' = reply /\ UNCHANGED stage

\* What a failed file operation, or a file that is not as it should be, leads to:
\* an operation with a journal tries to reconcile at once, and answers its error.
Broken(reply) ==
  IF stage = "working" THEN pc' = "recover" /\ stage' = "repairing" /\ UNCHANGED <<call, answer>>
  ELSE Give(reply)

\* The journal is gone.
Reconciled ==
  CASE stage = "opening"   -> Go("verify")
    [] stage = "working"   -> Give("done")
    [] stage = "repairing" -> Give("failed")

-----------------------------------------------------------------------------
Init ==
  /\ root = FALSE /\ ledger = Empty /\ journal = NoJournal
  /\ staged = "none" /\ slots = {} /\ current = "none" /\ stable = "none" /\ litter = FALSE
  /\ anchor = "none" /\ edited = FALSE
  /\ pc = "idle" /\ stage = "opening" /\ call = Idle /\ answer = "none"

Begin ==
  /\ pc = "idle"
  /\ call' \in Requests
  /\ pc' = "open" /\ stage' = "opening" /\ answer' = "none"
  /\ UNCHANGED disk

-----------------------------------------------------------------------------
\* open_or_initialize, open_existing and recover_pending_transaction.

\* The root is prepared aside and renamed into place.
Initialize ==
  /\ pc = "open" /\ ~root /\ call.kind = "install"
  /\ root' = TRUE
  /\ Go("verify")
  /\ UNCHANGED <<ledger, journal, slotVars, activation, anchor, edited>>

OpenNothing ==
  /\ pc = "open" /\ ~root /\ call.kind # "install"
  /\ Give("missing")
  /\ UNCHANGED disk

OpenDamaged ==
  /\ pc = "open" /\ root /\ journal.phase = "torn"
  /\ Give("drift")
  /\ UNCHANGED disk

OpenSettled ==
  /\ pc = "open" /\ root /\ journal.phase = "none"
  /\ Go("verify")
  /\ UNCHANGED disk

OpenPending ==
  /\ pc = "open" /\ root /\ journal.phase \in Phases
  /\ Go("recover")
  /\ UNCHANGED disk

Recovering == pc = "recover" /\ ledger \in {journal.previous, journal.desired}

\* The slot is in place, or only the activation was to change.
RecoverOnward ==
  /\ Recovering
  /\ journal.slot \in slots => staged = "none"
  /\ journal.slot = "none" \/ journal.slot \in slots
  /\ slots = journal.desired.versions
  /\ Go("ledger")
  /\ UNCHANGED disk

\* Defective variant: a change of the activation is undone like an installation.
RecoverUndoAny ==
  /\ Recovering /\ ledger = journal.previous
  /\ journal.phase = "Intent" /\ journal.slot \notin slots
  /\ staged' = "none"
  /\ Go("undo")
  /\ UNCHANGED <<root, ledger, journal, slots, activation, anchor, edited>>

\* The payload was not completely staged: the operation never happened.
RecoverUndo ==
  /\ Recovering /\ ledger = journal.previous
  /\ journal.phase = "Intent" /\ journal.slot # "none" /\ journal.slot \notin slots
  /\ staged' = "none"
  /\ Go("undo")
  /\ UNCHANGED <<root, ledger, journal, slots, activation, anchor, edited>>

Undo ==
  /\ pc = "undo" /\ Verified(journal.previous)
  /\ journal' = NoJournal
  /\ Reconciled
  /\ UNCHANGED <<root, ledger, slotVars, activation, anchor, edited>>

RecoverRename ==
  /\ Recovering
  /\ journal.phase = "SlotReady" /\ journal.slot \notin slots /\ journal.slot # "none"
  /\ staged = "whole"
  /\ Go("rename")
  /\ UNCHANGED disk

RecoverRefuses ==
  /\ pc = "recover"
  /\ \/ ledger \notin {journal.previous, journal.desired}
     \/ journal.slot \in slots /\ staged # "none"
     \/ (journal.slot = "none" \/ journal.slot \in slots) /\ slots # journal.desired.versions
     \/ /\ journal.slot # "none" /\ journal.slot \notin slots
        /\ IF journal.phase = "Intent" THEN ledger # journal.previous
           ELSE journal.phase # "SlotReady" \/ staged # "whole"
  /\ Give("drift")
  /\ UNCHANGED disk

RenameSlot ==
  /\ pc = "rename"
  /\ slots' = slots \cup {journal.slot} /\ staged' = "none"
  /\ Go("commit")
  /\ UNCHANGED <<root, ledger, journal, activation, anchor, edited>>

\* Recovery then looks at every slot, as it does when the slot was in place before; the
\* installation itself goes on.
CommitSlot ==
  /\ pc = "commit"
  /\ journal' = [journal EXCEPT !.phase = "SlotCommitted"]
  /\ IF stage = "working" \/ slots = journal.desired.versions THEN Go("ledger") ELSE Give("drift")
  /\ UNCHANGED <<root, ledger, slotVars, activation, anchor, edited>>

-----------------------------------------------------------------------------
\* finish_transaction: ledger, current.json, stable entry, journal.

WriteLedger ==
  /\ pc = "ledger" /\ ArtifactsKnown
  /\ ledger' = journal.desired
  /\ Go("current")
  /\ UNCHANGED <<root, journal, slotVars, activation, anchor, edited>>

\* Defective variant: the transaction ends before the stable entry is replaced.
WriteCurrentCommits ==
  /\ pc = "current" /\ journal.desired.active \in slots
  /\ current' = journal.desired.active /\ journal' = NoJournal
  /\ Reconciled
  /\ UNCHANGED <<root, ledger, slotVars, stable, litter, anchor, edited>>

WriteCurrent ==
  /\ pc = "current" /\ journal.desired.active \in slots
  /\ current' = journal.desired.active
  /\ Go("stable")
  /\ UNCHANGED <<root, ledger, journal, slotVars, stable, litter, anchor, edited>>

WriteStable ==
  /\ pc = "stable"
  /\ stable' = journal.desired.active
  /\ Go("metadata")
  /\ UNCHANGED <<root, ledger, journal, slotVars, current, litter, anchor, edited>>

CommitMetadata ==
  /\ pc = "metadata"
  /\ journal' = [journal EXCEPT !.phase = "MetadataCommitted"]
  /\ Go("finish")
  /\ UNCHANGED <<root, ledger, slotVars, activation, anchor, edited>>

Finish ==
  /\ pc = "finish" /\ Verified(journal.desired)
  /\ journal' = NoJournal
  /\ Reconciled
  /\ UNCHANGED <<root, ledger, slotVars, activation, anchor, edited>>

FinishRefuses ==
  /\ \/ pc = "ledger" /\ ~ArtifactsKnown
     \/ pc = "current" /\ journal.desired.active \notin slots
     \/ pc = "finish" /\ ~Verified(journal.desired)
     \/ pc = "undo" /\ ~Verified(journal.previous)
  /\ Broken("drift")
  /\ UNCHANGED disk

-----------------------------------------------------------------------------
\* The operations proper, on a state that was read and verified.

Verify ==
  /\ pc = "verify" /\ Verified(ledger)
  /\ pc' = "work" /\ stage' = "working"
  /\ UNCHANGED <<disk, call, answer>>

VerifyRefuses ==
  /\ pc \in {"verify", "bound"} /\ ~Verified(ledger)
  /\ Give("drift")
  /\ UNCHANGED disk

AlreadyDone ==
  \/ call.kind = "install" /\ call.subject \in ledger.versions
  \/ call.kind = "select" /\ call.subject = ledger.active
  \/ call.kind = "bind" /\ call.subject = ledger.binding
  \/ call.kind = "state"

Refusable ==
  \/ call.kind = "select" /\ call.subject \notin ledger.versions
  \/ call.kind = "bind" /\ ledger.binding \notin {"none", call.subject}

Acknowledge ==
  /\ pc = "work" /\ AlreadyDone
  /\ Give("done")
  /\ UNCHANGED disk

Refuse ==
  /\ pc = "work" /\ Refusable
  /\ Give("refused")
  /\ UNCHANGED disk

Proceed ==
  /\ pc = "work" /\ ~AlreadyDone /\ ~Refusable
  /\ Go(IF call.kind = "bind" THEN "anchor" ELSE "journal")
  /\ UNCHANGED disk

Desired ==
  IF call.kind = "select" THEN [ledger EXCEPT !.active = call.subject]
  ELSE State(IF ledger.active = "none" THEN call.subject ELSE ledger.active,
             ledger.versions \cup {call.subject}, ledger.binding)

\* durable_create_new opens the journal under its final name ...
CreateJournal ==
  /\ pc = "journal"
  /\ journal' = TornJournal
  /\ Go("journalling")
  /\ UNCHANGED <<root, ledger, slotVars, activation, anchor, edited>>

\* ... and then writes it.
WriteJournal ==
  /\ pc = "journalling"
  /\ journal' = Journal("Intent", IF call.kind = "install" THEN call.subject ELSE "none",
                        ledger, Desired)
  /\ Go(IF call.kind = "install" THEN "stage" ELSE "ledger")
  /\ UNCHANGED <<root, ledger, slotVars, activation, anchor, edited>>

CreateStaging ==
  /\ pc = "stage"
  /\ staged' = "partial"
  /\ Go("copying")
  /\ UNCHANGED <<root, ledger, journal, slots, activation, anchor, edited>>

CopyPayload ==
  /\ pc = "copying"
  /\ staged' = "whole"
  /\ Go("ready")
  /\ UNCHANGED <<root, ledger, journal, slots, activation, anchor, edited>>

MarkReady ==
  /\ pc = "ready"
  /\ journal' = [journal EXCEPT !.phase = "SlotReady"]
  /\ Go("rename")
  /\ UNCHANGED <<root, ledger, slotVars, activation, anchor, edited>>

\* configure_runtime_binding has no journal: file first, then the ledger.
CreateAnchor ==
  /\ pc = "anchor"
  /\ anchor' = "torn"
  /\ Go("anchoring")
  /\ UNCHANGED <<root, ledger, journal, slotVars, activation, edited>>

WriteAnchor ==
  /\ pc = "anchoring"
  /\ anchor' = call.subject
  /\ Go("bind")
  /\ UNCHANGED <<root, ledger, journal, slotVars, activation, edited>>

WriteBinding ==
  /\ pc = "bind"
  /\ ledger' = [ledger EXCEPT !.binding = call.subject]
  /\ Go("bound")
  /\ UNCHANGED <<root, journal, slotVars, activation, anchor, edited>>

Bound ==
  /\ pc = "bound" /\ Verified(ledger)
  /\ Give("done")
  /\ UNCHANGED disk

-----------------------------------------------------------------------------
\* A file operation fails; creating the journal and the binding have no way back.
Fails ==
  /\ \/ /\ pc \in {"open", "recover", "verify", "journal", "journalling",
                   "anchor", "anchoring", "bind", "bound"}
        /\ Give("failed")
     \/ /\ pc \in {"stage", "copying", "ready", "rename", "commit", "ledger", "current",
                   "stable", "metadata", "finish", "undo"}
        /\ Broken("failed")
  /\ UNCHANGED disk

\* The process is killed; in the middle of the replacement of the stable entry
\* its temporary file stays in bin/.
Crash ==
  /\ pc # "idle"
  /\ pc' = "idle" /\ call' = Idle
  /\ litter' \in IF pc = "stable" THEN {litter, TRUE} ELSE {litter}
  /\ UNCHANGED <<root, ledger, journal, slotVars, current, stable, anchor, edited, stage, answer>>

\* Another program or the user changes one file while no call is under way.
Edit ==
  /\ pc = "idle" /\ root /\ ~edited
  /\ edited' = TRUE
  /\ \/ ledger' \in States /\ UNCHANGED <<slotVars, activation, anchor>>
     \/ slots' \in SUBSET Versions /\ UNCHANGED <<ledger, staged, activation, anchor>>
     \/ staged' \in {"none", "partial"} /\ UNCHANGED <<ledger, slots, activation, anchor>>
     \/ /\ current' \in Versions \cup {"none"} /\ stable' \in Versions \cup {"none"}
        /\ UNCHANGED <<ledger, slotVars, litter, anchor>>
  /\ UNCHANGED <<root, journal, control>>

Next ==
  \/ Begin
  \/ Initialize \/ OpenNothing \/ OpenDamaged \/ OpenSettled \/ OpenPending
  \/ RecoverOnward \/ RecoverUndo \/ Undo \/ RecoverRename \/ RecoverRefuses
  \/ RenameSlot \/ CommitSlot
  \/ WriteLedger \/ WriteCurrent \/ WriteStable \/ CommitMetadata \/ Finish \/ FinishRefuses
  \/ Verify \/ VerifyRefuses \/ Acknowledge \/ Refuse \/ Proceed
  \/ CreateJournal \/ WriteJournal \/ CreateStaging \/ CopyPayload \/ MarkReady
  \/ CreateAnchor \/ WriteAnchor \/ WriteBinding \/ Bound
  \/ Fails \/ Crash \/ Edit

Spec == Init /\ [][Next]_vars

-----------------------------------------------------------------------------
\* Properties.

\* What the next call will find once it has reconciled: a payload that was staged
\* whole, and any change of the activation, goes on; everything else never was.
Settled ==
  IF journal.phase \in Phases /\ (journal.slot = "none" \/ journal.phase # "Intent")
  THEN journal.desired ELSE ledger

Promise == INSTANCE InstallationPromise
  WITH installed <- Settled.versions, active <- Settled.active, binding <- Settled.binding,
       request <- call, reply <- answer, meddled <- edited

\* Every operation takes effect as a whole or not at all, whatever is interrupted
\* and whatever fails, and what was answered "done" is not lost.
OperationsAreAtomic == Promise!PromiseSpec

\* The entry that the autostart item launches is, once it exists, always the Agent
\* of a complete slot, also in the middle of an activation and after a crash; and
\* unless a journal says that an activation is being reconciled, ledger,
\* current.json and entry name the same version.
EntryIsInstalled ==
  ~edited =>
    /\ stable \in slots \cup {"none"}
    /\ journal.phase \notin Phases => current = ledger.active /\ stable = ledger.active

\* A root that nobody else touched is refused only for what a killed process can
\* leave and no call cleans up: a journal that was created and not written, a
\* temporary file in bin/, a binding file that the ledger does not know of.
DriftHasACause ==
  (answer = "drift" /\ ~edited) =>
    journal.phase = "torn" \/ litter \/ anchor # ledger.binding
=================================================================================
