--------------------------- MODULE InstallationProofs ---------------------------
(***************************************************************************)
(* Proofs about Installation: types and the ledger's contract, the forms a *)
(* disk can have between any two steps, what the stable entry launches,    *)
(* what may make a call refuse, and that operations are atomic.            *)
(***************************************************************************)
EXTENDS Installation, TLAPS

-----------------------------------------------------------------------------
\* The inductive invariant.

\* Where a call is, and what it is about.
CallShape ==
  /\ pc = "idle" <=> call = Idle
  /\ pc # "idle" => answer = "none"
  /\ ~root => pc \in {"idle", "open"} /\ journal.phase = "none"
  /\ pc \in {"open", "verify"} => stage = "opening"
  /\ pc \in {"recover", "undo"} => stage # "working"
  /\ pc \in {"work", "journal", "journalling", "stage", "copying", "ready",
             "anchor", "anchoring", "bind", "bound"} => stage = "working"
  /\ pc \in {"journal", "journalling"} =>
       call.kind \in {"install", "select"} /\ ~AlreadyDone /\ ~Refusable
  /\ pc \in {"anchor", "anchoring", "bind"} => call.kind = "bind" /\ ledger.binding = "none"
  /\ pc = "bound" => call.kind = "bind" /\ ledger.binding = call.subject
  /\ pc \in {"stage", "copying", "ready", "rename", "commit"} => journal.slot \in Versions

\* No transaction is pending: the activation is that of the ledger.
Quiet ==
  /\ slots = ledger.versions /\ staged = "none"
  /\ current = ledger.active /\ stable = ledger.active /\ ~litter

\* What a journal records of the operation.
Planned ==
  /\ journal.previous.binding = anchor /\ journal.desired.binding = anchor
  /\ journal.desired.versions # {}
  /\ IF journal.slot = "none"
     THEN journal.desired.versions = journal.previous.versions
     ELSE /\ journal.slot \notin journal.previous.versions
          /\ journal.desired.versions = journal.previous.versions \cup {journal.slot}
          /\ journal.desired.active =
               IF journal.previous.active = "none" THEN journal.slot ELSE journal.previous.active

\* The slot is not in place yet: nothing but the staging directory has changed.
Unmoved ==
  /\ journal.slot # "none" /\ journal.phase \in {"Intent", "SlotReady"}
  /\ journal.phase = "SlotReady" => staged = "whole"
  /\ ledger = journal.previous
  /\ slots = ledger.versions /\ current = ledger.active /\ stable = ledger.active /\ ~litter

\* The slot is in place, or none was needed: every file is the old or the new one.
Moved ==
  /\ journal.slot = "none" \/ journal.phase # "Intent"
  /\ staged = "none" /\ slots = journal.desired.versions
  /\ ledger \in {journal.previous, journal.desired}
  /\ ArtifactsKnown

DiskShape ==
  /\ journal.phase \in {"none", "torn"} => Quiet
  /\ journal.phase \in Phases => Planned /\ (Unmoved \/ Moved)

\* What the call has done so far.
Progress ==
  /\ pc \in {"verify", "work", "journal", "anchor", "anchoring", "bind", "bound"} =>
       journal.phase = "none"
  /\ pc = "journalling" => journal.phase = "torn"
  /\ pc \in {"recover", "undo", "rename", "commit", "ledger", "current", "stable", "metadata",
             "finish", "stage", "copying", "ready"} => journal.phase \in Phases
  /\ pc \in {"work", "journal", "journalling", "anchor"} => anchor = ledger.binding
  /\ pc \in {"bind", "bound"} => anchor = call.subject
  /\ pc \in {"stage", "copying", "ready", "undo"} => Unmoved /\ journal.phase = "Intent"
  /\ pc \in {"stage", "undo"} => staged = "none"
  /\ pc = "ready" => staged = "whole"
  /\ pc = "rename" => Unmoved /\ journal.phase = "SlotReady"
  /\ pc \in {"commit", "ledger", "current", "stable", "metadata", "finish"} => Moved
  /\ pc \in {"current", "stable", "metadata", "finish"} => ledger = journal.desired
  /\ pc \in {"stable", "metadata", "finish"} => current = journal.desired.active
  /\ pc \in {"metadata", "finish"} => stable = journal.desired.active

\* The journal a working call has written is about its own operation.
Own ==
  (/\ stage = "working"
   /\ pc \in {"stage", "copying", "ready", "rename", "commit", "ledger", "current", "stable",
              "metadata", "finish"})
    => \/ call.kind = "install" /\ journal.slot = call.subject
       \/ call.kind = "select" /\ journal.slot = "none" /\ journal.desired.active = call.subject

Known == ~edited => DiskShape /\ Progress /\ Own /\ DriftHasACause

IInv == TypeOK /\ CallShape /\ Known

\* Whether or not there is a journal, its fields have their types.
LEMMA JournalFields ==
  ASSUME TypeOK
  PROVE  /\ journal.slot \in Versions \cup {"none"}
         /\ journal.previous \in States /\ journal.desired \in States
         /\ journal.desired.active \in Versions \cup {"none"}
         /\ \A p \in Phases : [journal EXCEPT !.phase = p] \in Journals
<1>1. Empty \in States
  BY DEF Empty, State, States
<1>2. journal \in [phase: Phases \cup {"none", "torn"}, slot: Versions \cup {"none"},
                  previous: States, desired: States]
  BY <1>1 DEF TypeOK, Journals, NoJournal, TornJournal, Journal
<1>3. journal.desired \in States
  BY <1>2
<1>4. journal.desired.active \in Versions \cup {"none"}
  BY <1>3 DEF States
<1> QED
  BY <1>2, <1>3, <1>4 DEF Journals

\* The state an operation asks for honours the ledger's contract.
LEMMA WriteJournalDesired ==
  ASSUME IInv, pc = "journalling"
  PROVE  Desired \in States /\ call.subject \in Versions
<1> USE DEF IInv
<1>1. ledger \in States /\ call \in Requests \cup {Idle}
  BY DEF TypeOK
<1>2. call.kind \in {"install", "select"} /\ ~AlreadyDone /\ ~Refusable
  BY DEF CallShape
<1>3. call.subject \in Versions
  BY <1>1, <1>2 DEF Requests, Request, Idle
<1>4. CASE call.kind = "install"
  BY <1>1, <1>3, <1>4 DEF Desired, State, States
<1>5. CASE call.kind = "select"
  <2>1. call.subject \in ledger.versions
    BY <1>2, <1>5 DEF Refusable
  <2> QED
    BY <1>1, <1>3, <1>5, <2>1 DEF Desired, States
<1> QED
  BY <1>2, <1>4, <1>5

-----------------------------------------------------------------------------
\* One lemma per action: it preserves the types, the position and the forms.

LEMMA BeginInv == IInv /\ Begin => IInv'
<1> SUFFICES ASSUME IInv, Begin PROVE IInv'
  OBVIOUS
<1> USE InstallationAssumption DEF IInv
<1>1. TypeOK'
  BY DEF Begin, disk, slotVars, activation, TypeOK, Positions
<1>2. CallShape'
  BY DEF Begin, disk, CallShape, Requests, Request, Idle
<1>3. Known'
  BY DEF Begin, disk, slotVars, activation, Known, DiskShape, Progress, Own, Quiet, Planned,
         Unmoved, Moved, ArtifactsKnown, DriftHasACause
<1> QED
  BY <1>1, <1>2, <1>3

LEMMA OpenNothingInv == IInv /\ OpenNothing => IInv'
<1> SUFFICES ASSUME IInv, OpenNothing PROVE IInv'
  OBVIOUS
<1> USE InstallationAssumption DEF IInv
<1>1. TypeOK'
  BY DEF OpenNothing, disk, slotVars, activation, Give, TypeOK, Positions
<1>2. CallShape'
  BY DEF OpenNothing, disk, Give, CallShape
<1>3. Known'
  BY DEF OpenNothing, disk, slotVars, activation, Give, Known, DiskShape, Progress, Own, Quiet,
         Planned, Unmoved, Moved, ArtifactsKnown, DriftHasACause
<1> QED
  BY <1>1, <1>2, <1>3

LEMMA OpenDamagedInv == IInv /\ OpenDamaged => IInv'
<1> SUFFICES ASSUME IInv, OpenDamaged PROVE IInv'
  OBVIOUS
<1> USE InstallationAssumption DEF IInv
<1>1. TypeOK'
  BY DEF OpenDamaged, disk, slotVars, activation, Give, TypeOK, Positions
<1>2. CallShape'
  BY DEF OpenDamaged, disk, Give, CallShape
<1>3. Known'
  BY DEF OpenDamaged, disk, slotVars, activation, Give, Known, DiskShape, Progress, Own, Quiet,
         Planned, Unmoved, Moved, ArtifactsKnown, DriftHasACause
<1> QED
  BY <1>1, <1>2, <1>3

LEMMA OpenSettledInv == IInv /\ OpenSettled => IInv'
<1> SUFFICES ASSUME IInv, OpenSettled PROVE IInv'
  OBVIOUS
<1> USE InstallationAssumption DEF IInv
<1>1. TypeOK'
  BY DEF OpenSettled, disk, slotVars, activation, Go, TypeOK, Positions
<1>2. CallShape'
  BY DEF OpenSettled, disk, Go, CallShape
<1>3. Known'
  BY DEF OpenSettled, disk, slotVars, activation, Go, Known, DiskShape, Progress, Own, Quiet,
         Planned, Unmoved, Moved, ArtifactsKnown, DriftHasACause
<1> QED
  BY <1>1, <1>2, <1>3

LEMMA OpenPendingInv == IInv /\ OpenPending => IInv'
<1> SUFFICES ASSUME IInv, OpenPending PROVE IInv'
  OBVIOUS
<1> USE InstallationAssumption DEF IInv
<1>1. TypeOK'
  BY DEF OpenPending, disk, slotVars, activation, Go, TypeOK, Positions
<1>2. CallShape'
  BY DEF OpenPending, disk, Go, CallShape
<1>3. Known'
  BY DEF OpenPending, disk, slotVars, activation, Go, Known, DiskShape, Progress, Own, Quiet,
         Planned, Unmoved, Moved, ArtifactsKnown, DriftHasACause
<1> QED
  BY <1>1, <1>2, <1>3

LEMMA RecoverOnwardInv == IInv /\ RecoverOnward => IInv'
<1> SUFFICES ASSUME IInv, RecoverOnward PROVE IInv'
  OBVIOUS
<1> USE InstallationAssumption DEF IInv
<1>1. TypeOK'
  BY DEF RecoverOnward, disk, slotVars, activation, Go, TypeOK, Positions
<1>2. CallShape'
  BY DEF RecoverOnward, disk, Go, Recovering, CallShape
<1>3. Known'
  BY DEF RecoverOnward, disk, slotVars, activation, Go, Recovering, CallShape, Known, DiskShape,
         Progress, Own, Quiet, Planned, Unmoved, Moved, ArtifactsKnown, DriftHasACause
<1> QED
  BY <1>1, <1>2, <1>3

LEMMA RecoverRenameInv == IInv /\ RecoverRename => IInv'
<1> SUFFICES ASSUME IInv, RecoverRename PROVE IInv'
  OBVIOUS
<1> USE InstallationAssumption DEF IInv
<1>1. TypeOK'
  BY DEF RecoverRename, disk, slotVars, activation, Go, TypeOK, Positions
<1>2. CallShape'
  <2>1. journal.slot \in Versions
    BY JournalFields DEF RecoverRename, Recovering
  <2> QED
    BY <2>1 DEF RecoverRename, disk, slotVars, activation, Go, Recovering, CallShape, Idle
<1>3. Known'
  BY DEF RecoverRename, disk, slotVars, activation, Go, Recovering, CallShape, Known, DiskShape,
         Progress, Own, Planned, Unmoved, Moved, DriftHasACause
<1> QED
  BY <1>1, <1>2, <1>3

LEMMA RecoverRefusesInv == IInv /\ RecoverRefuses => IInv'
<1> SUFFICES ASSUME IInv, RecoverRefuses PROVE IInv'
  OBVIOUS
<1> USE InstallationAssumption DEF IInv
<1>1. TypeOK'
  BY DEF RecoverRefuses, disk, slotVars, activation, Give, TypeOK, Positions
<1>2. CallShape'
  BY DEF RecoverRefuses, disk, Give, CallShape
<1>3. Known'
  BY DEF RecoverRefuses, disk, Known, DiskShape, Progress, Planned, Unmoved, Moved
<1> QED
  BY <1>1, <1>2, <1>3

LEMMA FinishRefusesInv == IInv /\ FinishRefuses => IInv'
<1> SUFFICES ASSUME IInv, FinishRefuses PROVE IInv'
  OBVIOUS
<1> USE InstallationAssumption DEF IInv
<1>1. TypeOK'
  BY DEF FinishRefuses, disk, slotVars, activation, Give, Broken, TypeOK, Positions
<1>2. CallShape'
  BY DEF FinishRefuses, disk, Give, Broken, CallShape
<1>3. Known'
  <2> SUFFICES ASSUME ~edited' PROVE Known'
    BY DEF Known
  <2>1. ~edited /\ DiskShape /\ Progress /\ Own /\ UNCHANGED disk
    BY DEF FinishRefuses, disk, Known
  <2>2. journal.phase \in Phases /\ Planned /\ DiskShape'
    BY <2>1 DEF FinishRefuses, Progress, DiskShape, disk, slotVars, activation,
                Quiet, Planned, Unmoved, Moved, ArtifactsKnown
  <2>3. pc = "finish" /\ litter
    <3>1. pc # "ledger" \/ ArtifactsKnown
      BY <2>1 DEF Progress, Moved
    <3>2. CASE pc = "current"
      <4>1. journal.desired \in States /\ journal.desired.versions # {}
        BY <2>2, JournalFields DEF Planned
      <4>2. journal.desired.active \in journal.desired.versions
        BY <4>1 DEF States
      <4> QED
        BY <2>1, <3>2, <4>2 DEF FinishRefuses, Progress, Moved
    <3>3. CASE pc = "undo"
      BY <2>1, <2>2, <3>3 DEF FinishRefuses, Progress, Unmoved, Planned, Verified
    <3>4. CASE pc = "finish"
      BY <2>1, <2>2, <3>4 DEF FinishRefuses, Progress, Moved, Planned, Verified
    <3> QED
      BY <3>1, <3>2, <3>3, <3>4 DEF FinishRefuses
  <2>4. Progress' /\ Own' /\ DriftHasACause'
    BY <2>1, <2>2, <2>3 DEF FinishRefuses, Broken, Give, disk, activation,
                            Progress, Own, DriftHasACause, Idle, Request
  <2> QED
    BY <2>2, <2>4 DEF Known
<1> QED
  BY <1>1, <1>2, <1>3

LEMMA VerifyInv == IInv /\ Verify => IInv'
<1> SUFFICES ASSUME IInv, Verify PROVE IInv'
  OBVIOUS
<1> USE InstallationAssumption DEF IInv
<1>1. TypeOK'
  BY DEF Verify, disk, slotVars, activation, TypeOK, Positions
<1>2. CallShape'
  BY DEF Verify, disk, CallShape
<1>3. Known'
  BY DEF Verify, disk, slotVars, activation, Verified, Known, DiskShape, Progress, Own, Quiet,
         Planned, Unmoved, Moved, ArtifactsKnown, DriftHasACause
<1> QED
  BY <1>1, <1>2, <1>3

LEMMA VerifyRefusesInv == IInv /\ VerifyRefuses => IInv'
<1> SUFFICES ASSUME IInv, VerifyRefuses PROVE IInv'
  OBVIOUS
<1> USE InstallationAssumption DEF IInv
<1>1. TypeOK'
  BY DEF VerifyRefuses, disk, slotVars, activation, Give, TypeOK, Positions
<1>2. CallShape'
  BY DEF VerifyRefuses, disk, Give, CallShape
<1>3. Known'
  BY DEF VerifyRefuses, disk, slotVars, activation, Give, Verified, Known, DiskShape, Progress,
         Own, Quiet, Planned, Unmoved, Moved, DriftHasACause
<1> QED
  BY <1>1, <1>2, <1>3

LEMMA AcknowledgeInv == IInv /\ Acknowledge => IInv'
<1> SUFFICES ASSUME IInv, Acknowledge PROVE IInv'
  OBVIOUS
<1> USE InstallationAssumption DEF IInv
<1>1. TypeOK'
  BY DEF Acknowledge, disk, slotVars, activation, Give, TypeOK, Positions
<1>2. CallShape'
  BY DEF Acknowledge, disk, Give, CallShape
<1>3. Known'
  BY DEF Acknowledge, disk, slotVars, activation, Give, Known, DiskShape, Progress, Own, Quiet,
         Planned, Unmoved, Moved, ArtifactsKnown, DriftHasACause
<1> QED
  BY <1>1, <1>2, <1>3

LEMMA RefuseInv == IInv /\ Refuse => IInv'
<1> SUFFICES ASSUME IInv, Refuse PROVE IInv'
  OBVIOUS
<1> USE InstallationAssumption DEF IInv
<1>1. TypeOK'
  BY DEF Refuse, disk, slotVars, activation, Give, TypeOK, Positions
<1>2. CallShape'
  BY DEF Refuse, disk, Give, CallShape
<1>3. Known'
  BY DEF Refuse, disk, slotVars, activation, Give, Known, DiskShape, Progress, Own, Quiet,
         Planned, Unmoved, Moved, ArtifactsKnown, DriftHasACause
<1> QED
  BY <1>1, <1>2, <1>3

LEMMA ProceedInv == IInv /\ Proceed => IInv'
<1> SUFFICES ASSUME IInv, Proceed PROVE IInv'
  OBVIOUS
<1> USE InstallationAssumption DEF IInv
<1>1. TypeOK'
  BY DEF Proceed, disk, slotVars, activation, Go, TypeOK, Positions
<1>2. CallShape'
  BY DEF Proceed, disk, Go, TypeOK, CallShape, Requests, Request, AlreadyDone, Refusable
<1>3. Known'
  BY DEF Proceed, disk, slotVars, activation, Go, Known, DiskShape, Progress, Own, Quiet, Planned,
         Unmoved, Moved, ArtifactsKnown, DriftHasACause
<1> QED
  BY <1>1, <1>2, <1>3

LEMMA BoundInv == IInv /\ Bound => IInv'
<1> SUFFICES ASSUME IInv, Bound PROVE IInv'
  OBVIOUS
<1> USE InstallationAssumption DEF IInv
<1>1. TypeOK'
  BY DEF Bound, disk, slotVars, activation, Give, TypeOK, Positions
<1>2. CallShape'
  BY DEF Bound, disk, Give, CallShape
<1>3. Known'
  BY DEF Bound, disk, slotVars, activation, Give, Known, DiskShape, Progress, Own, Quiet, Planned,
         Unmoved, Moved, ArtifactsKnown, DriftHasACause
<1> QED
  BY <1>1, <1>2, <1>3

LEMMA FailsInv == IInv /\ Fails => IInv'
<1> SUFFICES ASSUME IInv, Fails PROVE IInv'
  OBVIOUS
<1> USE InstallationAssumption DEF IInv
<1>1. TypeOK'
  BY DEF Fails, disk, slotVars, activation, Give, Broken, TypeOK, Positions
<1>2. CallShape'
  BY DEF Fails, disk, Give, Broken, CallShape
<1>3. Known'
  BY DEF Fails, disk, slotVars, activation, Give, Broken, Known, DiskShape, Progress, Own, Quiet,
         Planned, Unmoved, Moved, ArtifactsKnown, DriftHasACause
<1> QED
  BY <1>1, <1>2, <1>3

LEMMA InitializeInv == IInv /\ Initialize => IInv'
<1> SUFFICES ASSUME IInv, Initialize PROVE IInv'
  OBVIOUS
<1> USE InstallationAssumption DEF IInv
<1>1. TypeOK'
  BY DEF Initialize, slotVars, activation, Go, TypeOK, Positions
<1>2. CallShape'
  BY DEF Initialize, Go, CallShape
<1>3. Known'
  BY DEF Initialize, slotVars, activation, Go, CallShape, Known, DiskShape, Progress, Own, Quiet,
         Planned, Unmoved, Moved, ArtifactsKnown, DriftHasACause
<1> QED
  BY <1>1, <1>2, <1>3

LEMMA RecoverUndoInv == IInv /\ RecoverUndo => IInv'
<1> SUFFICES ASSUME IInv, RecoverUndo PROVE IInv'
  OBVIOUS
<1> USE InstallationAssumption DEF IInv
<1>1. TypeOK'
  BY DEF RecoverUndo, activation, Go, TypeOK, Positions
<1>2. CallShape'
  BY DEF RecoverUndo, Go, Recovering, CallShape
<1>3. Known'
  BY DEF RecoverUndo, activation, Go, Recovering, Known, DiskShape, Progress, Own, Planned,
         Unmoved, Moved, DriftHasACause
<1> QED
  BY <1>1, <1>2, <1>3

LEMMA UndoInv == IInv /\ Undo => IInv'
<1> SUFFICES ASSUME IInv, Undo PROVE IInv'
  OBVIOUS
<1> USE InstallationAssumption DEF IInv
<1>1. TypeOK'
  BY DEF Undo, slotVars, activation, Go, Give, Reconciled, TypeOK, CallShape, Positions
<1>2. CallShape'
  BY DEF Undo, Go, Give, Reconciled, TypeOK, CallShape
<1>3. Known'
  BY DEF Undo, slotVars, activation, Go, Give, Reconciled, TypeOK, Known, DiskShape, Progress,
         Own, Quiet, Unmoved, DriftHasACause, Phases, Journal, NoJournal
<1> QED
  BY <1>1, <1>2, <1>3

LEMMA RenameSlotInv == IInv /\ RenameSlot => IInv'
<1> SUFFICES ASSUME IInv, RenameSlot PROVE IInv'
  OBVIOUS
<1> USE InstallationAssumption DEF IInv
<1>1. TypeOK'
  BY DEF RenameSlot, activation, Go, TypeOK, CallShape, Positions
<1>2. CallShape'
  BY DEF RenameSlot, Go, CallShape
<1>3. Known'
  BY DEF RenameSlot, activation, Go, Known, DiskShape, Progress, Own, Planned, Unmoved, Moved,
         ArtifactsKnown, DriftHasACause
<1> QED
  BY <1>1, <1>2, <1>3

LEMMA CommitSlotInv == IInv /\ CommitSlot => IInv'
<1> SUFFICES ASSUME IInv, CommitSlot PROVE IInv'
  OBVIOUS
<1> USE InstallationAssumption DEF IInv
<1>1. TypeOK'
  BY DEF CommitSlot, slotVars, activation, Go, Give, TypeOK, CallShape, Positions, Phases,
         Journals, Journal, NoJournal, TornJournal
<1>2. CallShape'
  BY DEF CommitSlot, Go, Give, CallShape
<1>3. Known'
  <2>1. ~edited => slots = journal.desired.versions
    BY DEF CommitSlot, Known, Progress, Moved
  <2> QED
    BY <2>1 DEF CommitSlot, slotVars, activation, Go, Known, DiskShape, Progress, Own, Planned,
                Moved, ArtifactsKnown, DriftHasACause, Phases
<1> QED
  BY <1>1, <1>2, <1>3

LEMMA WriteLedgerInv == IInv /\ WriteLedger => IInv'
<1> SUFFICES ASSUME IInv, WriteLedger PROVE IInv'
  OBVIOUS
<1> USE InstallationAssumption DEF IInv
<1>1. TypeOK'
  <2>1. ledger' \in States
    BY JournalFields DEF WriteLedger
  <2> QED
    BY <2>1 DEF WriteLedger, TypeOK, Positions, Go, slotVars, activation
<1>2. CallShape'
  BY DEF WriteLedger, Go, CallShape
<1>3. Known'
  BY DEF WriteLedger, slotVars, activation, Go, Known, DiskShape, Progress, Own, Planned, Moved,
         ArtifactsKnown, DriftHasACause, Phases
<1> QED
  BY <1>1, <1>2, <1>3

LEMMA WriteCurrentInv == IInv /\ WriteCurrent => IInv'
<1> SUFFICES ASSUME IInv, WriteCurrent PROVE IInv'
  OBVIOUS
<1> USE InstallationAssumption DEF IInv
<1>1. TypeOK'
  BY DEF WriteCurrent, slotVars, Go, TypeOK, Positions
<1>2. CallShape'
  BY DEF WriteCurrent, Go, CallShape
<1>3. Known'
  BY DEF WriteCurrent, slotVars, Go, Known, DiskShape, Progress, Own, Quiet, Planned, Moved,
         ArtifactsKnown, DriftHasACause
<1> QED
  BY <1>1, <1>2, <1>3

LEMMA WriteStableInv == IInv /\ WriteStable => IInv'
<1> SUFFICES ASSUME IInv, WriteStable PROVE IInv'
  OBVIOUS
<1> USE InstallationAssumption DEF IInv
<1>1. TypeOK'
  <2>1. stable' \in Versions \cup {"none"}
    BY JournalFields DEF WriteStable
  <2> QED
    BY <2>1 DEF WriteStable, TypeOK, Positions, Go, slotVars
<1>2. CallShape'
  BY DEF WriteStable, Go, CallShape
<1>3. Known'
  BY DEF WriteStable, slotVars, Go, Known, DiskShape, Progress, Own, Quiet, Planned, Moved,
         ArtifactsKnown, DriftHasACause
<1> QED
  BY <1>1, <1>2, <1>3

LEMMA CommitMetadataInv == IInv /\ CommitMetadata => IInv'
<1> SUFFICES ASSUME IInv, CommitMetadata PROVE IInv'
  OBVIOUS
<1> USE InstallationAssumption DEF IInv
<1>1. TypeOK'
  <2>1. journal' \in Journals
    BY JournalFields DEF CommitMetadata, Phases
  <2> QED
    BY <2>1 DEF CommitMetadata, TypeOK, Positions, Go, slotVars, activation
<1>2. CallShape'
  BY DEF CommitMetadata, Go, CallShape
<1>3. Known'
  BY DEF CommitMetadata, slotVars, activation, Go, Known, DiskShape, Progress, Own, Planned,
         Moved, ArtifactsKnown, DriftHasACause, Phases
<1> QED
  BY <1>1, <1>2, <1>3

LEMMA FinishInv == IInv /\ Finish => IInv'
<1> SUFFICES ASSUME IInv, Finish PROVE IInv'
  OBVIOUS
<1> USE InstallationAssumption DEF IInv
<1>1. TypeOK'
  BY DEF Finish, slotVars, activation, Go, Give, Reconciled, TypeOK, CallShape, Positions
<1>2. CallShape'
  BY DEF Finish, Go, Give, Reconciled, TypeOK, CallShape
<1>3. Known'
  BY DEF Finish, slotVars, activation, Go, Give, Reconciled, Verified, TypeOK, Known, DiskShape,
         Progress, Own, Quiet, Moved, DriftHasACause, Phases, Journal, NoJournal
<1> QED
  BY <1>1, <1>2, <1>3

LEMMA CreateJournalInv == IInv /\ CreateJournal => IInv'
<1> SUFFICES ASSUME IInv, CreateJournal PROVE IInv'
  OBVIOUS
<1> USE InstallationAssumption DEF IInv
<1>1. TypeOK'
  BY DEF CreateJournal, slotVars, activation, Go, TypeOK, Positions
<1>2. CallShape'
  BY DEF CreateJournal, Go, CallShape, AlreadyDone, Refusable
<1>3. Known'
  BY DEF CreateJournal, slotVars, activation, Go, Known, DiskShape, Progress, Own, Quiet,
         DriftHasACause, Phases, Journal, TornJournal
<1> QED
  BY <1>1, <1>2, <1>3

LEMMA WriteJournalInv == IInv /\ WriteJournal => IInv'
<1> SUFFICES ASSUME IInv, WriteJournal PROVE IInv'
  OBVIOUS
<1> USE InstallationAssumption DEF IInv
<1>1. TypeOK'
  <2>1. Desired \in States /\ call.subject \in Versions
    BY WriteJournalDesired DEF WriteJournal
  <2>2. journal' \in Journals
    BY <2>1 DEF WriteJournal, Journal, Journals, Phases, TypeOK
  <2> QED
    BY <2>2 DEF WriteJournal, TypeOK, Positions, Go, slotVars, activation
<1>2. CallShape'
  BY DEF WriteJournal, Go, TypeOK, CallShape, Requests, Request, Journal
<1>3. Known'
  <2> SUFFICES ASSUME ~edited' PROVE Known'
    BY DEF Known
  <2>1. /\ ~edited /\ Quiet /\ anchor = ledger.binding /\ pc = "journalling"
        /\ UNCHANGED <<root, ledger, slotVars, activation, anchor, edited, stage, call, answer>>
    BY DEF WriteJournal, Known, Progress, DiskShape, Go
  <2>2. /\ journal'.phase = "Intent" /\ journal'.previous = ledger /\ journal'.desired = Desired
        /\ journal'.slot = IF call.kind = "install" THEN call.subject ELSE "none"
    BY DEF WriteJournal, Journal
  <2>3. /\ call.kind \in {"install", "select"} /\ ~AlreadyDone /\ ~Refusable
        /\ call.subject \in Versions
    BY <2>1, WriteJournalDesired DEF CallShape
  <2>4. CASE call.kind = "install"
    <3>1. /\ Desired.versions = ledger.versions \cup {call.subject}
          /\ Desired.binding = ledger.binding
          /\ Desired.active = IF ledger.active = "none" THEN call.subject ELSE ledger.active
      BY <2>4 DEF Desired, State
    <3>2. call.subject \notin ledger.versions
      BY <2>3, <2>4 DEF AlreadyDone
    <3>3. Planned'
      <4>1. /\ journal'.slot = call.subject /\ journal'.slot # "none" /\ anchor' = anchor
            /\ call.subject \in Desired.versions
        BY <2>1, <2>2, <2>3, <2>4, <3>1
      <4> QED
        BY <2>1, <2>2, <4>1, <3>1, <3>2 DEF Planned
    <3>4. Unmoved' /\ staged' = "none"
      BY <2>1, <2>2, <2>3, <2>4 DEF Unmoved, Quiet, slotVars, activation
    <3>5. pc' = "stage"
      BY <2>4 DEF WriteJournal, Go
    <3> QED
      BY <2>1, <2>2, <2>4, <3>3, <3>4, <3>5
         DEF Known, DiskShape, Progress, Own, DriftHasACause, CallShape, Phases
  <2>5. CASE call.kind = "select"
    <3>1. ledger \in States /\ call.subject \in ledger.versions
      BY <2>3, <2>5 DEF Refusable, TypeOK
    <3>2. /\ Desired.versions = ledger.versions /\ Desired.binding = ledger.binding
          /\ Desired.active = call.subject
      BY <2>5, <3>1 DEF Desired, States
    <3>3. Planned'
      <4>1. journal'.slot = "none" /\ anchor' = anchor /\ Desired.versions # {}
        BY <2>1, <2>2, <2>5, <3>1, <3>2
      <4> QED
        BY <2>1, <2>2, <4>1, <3>2 DEF Planned
    <3>4. Moved'
      BY <2>1, <2>2, <2>5, <3>2 DEF Moved, ArtifactsKnown, Quiet, slotVars, activation
    <3>5. pc' = "ledger"
      BY <2>5 DEF WriteJournal, Go
    <3> QED
      BY <2>1, <2>2, <2>5, <3>2, <3>3, <3>4, <3>5
         DEF Known, DiskShape, Progress, Own, DriftHasACause, CallShape, Phases
  <2> QED
    BY <2>3, <2>4, <2>5
<1> QED
  BY <1>1, <1>2, <1>3

LEMMA CreateStagingInv == IInv /\ CreateStaging => IInv'
<1> SUFFICES ASSUME IInv, CreateStaging PROVE IInv'
  OBVIOUS
<1> USE InstallationAssumption DEF IInv
<1>1. TypeOK'
  BY DEF CreateStaging, activation, Go, TypeOK, Positions
<1>2. CallShape'
  BY DEF CreateStaging, Go, CallShape
<1>3. Known'
  BY DEF CreateStaging, activation, Go, Known, DiskShape, Progress, Own, Planned, Unmoved,
         DriftHasACause
<1> QED
  BY <1>1, <1>2, <1>3

LEMMA CopyPayloadInv == IInv /\ CopyPayload => IInv'
<1> SUFFICES ASSUME IInv, CopyPayload PROVE IInv'
  OBVIOUS
<1> USE InstallationAssumption DEF IInv
<1>1. TypeOK'
  BY DEF CopyPayload, activation, Go, TypeOK, Positions
<1>2. CallShape'
  BY DEF CopyPayload, Go, CallShape
<1>3. Known'
  BY DEF CopyPayload, activation, Go, Known, DiskShape, Progress, Own, Planned, Unmoved,
         DriftHasACause
<1> QED
  BY <1>1, <1>2, <1>3

LEMMA MarkReadyInv == IInv /\ MarkReady => IInv'
<1> SUFFICES ASSUME IInv, MarkReady PROVE IInv'
  OBVIOUS
<1> USE InstallationAssumption DEF IInv
<1>1. TypeOK'
  BY DEF MarkReady, slotVars, activation, Go, TypeOK, CallShape, Positions, Phases, Journals,
         Journal, NoJournal, TornJournal
<1>2. CallShape'
  BY DEF MarkReady, Go, CallShape
<1>3. Known'
  BY DEF MarkReady, slotVars, activation, Go, Known, DiskShape, Progress, Own, Planned, Unmoved,
         DriftHasACause, Phases
<1> QED
  BY <1>1, <1>2, <1>3

LEMMA CreateAnchorInv == IInv /\ CreateAnchor => IInv'
<1> SUFFICES ASSUME IInv, CreateAnchor PROVE IInv'
  OBVIOUS
<1> USE InstallationAssumption DEF IInv
<1>1. TypeOK'
  BY DEF CreateAnchor, slotVars, activation, Go, TypeOK, Positions
<1>2. CallShape'
  BY DEF CreateAnchor, Go, CallShape
<1>3. Known'
  BY DEF CreateAnchor, slotVars, activation, Go, Known, DiskShape, Progress, Own, Quiet,
         DriftHasACause, Phases
<1> QED
  BY <1>1, <1>2, <1>3

LEMMA WriteAnchorInv == IInv /\ WriteAnchor => IInv'
<1> SUFFICES ASSUME IInv, WriteAnchor PROVE IInv'
  OBVIOUS
<1> USE InstallationAssumption DEF IInv
<1>1. TypeOK'
  BY DEF WriteAnchor, slotVars, activation, Go, TypeOK, CallShape, Positions, Requests, Request
<1>2. CallShape'
  BY DEF WriteAnchor, Go, CallShape
<1>3. Known'
  BY DEF WriteAnchor, slotVars, activation, Go, CallShape, Known, DiskShape, Progress, Own, Quiet,
         DriftHasACause, Phases
<1> QED
  BY <1>1, <1>2, <1>3

LEMMA WriteBindingInv == IInv /\ WriteBinding => IInv'
<1> SUFFICES ASSUME IInv, WriteBinding PROVE IInv'
  OBVIOUS
<1> USE InstallationAssumption DEF IInv
<1>1. TypeOK'
  <2>1. call.subject \in Bindings
    BY DEF WriteBinding, CallShape, TypeOK, Requests, Request, Idle
  <2>2. ledger' \in States
    BY <2>1 DEF WriteBinding, TypeOK, States
  <2> QED
    BY <2>2 DEF WriteBinding, TypeOK, Positions, Go, slotVars, activation
<1>2. CallShape'
  BY DEF WriteBinding, Go, CallShape
<1>3. Known'
  BY DEF WriteBinding, slotVars, activation, Go, TypeOK, CallShape, Known, DiskShape, Progress,
         Own, Quiet, Planned, Unmoved, Moved, DriftHasACause, Requests, Request
<1> QED
  BY <1>1, <1>2, <1>3

LEMMA CrashInv == IInv /\ Crash => IInv'
<1> SUFFICES ASSUME IInv, Crash PROVE IInv'
  OBVIOUS
<1> USE InstallationAssumption DEF IInv
<1>1. TypeOK'
  <2>1. litter' \in BOOLEAN
    BY DEF Crash, TypeOK
  <2> QED
    BY <2>1 DEF Crash, TypeOK, Positions, slotVars
<1>2. CallShape'
  BY DEF Crash, CallShape
<1>3. Known'
  BY DEF Crash, slotVars, Known, DiskShape, Progress, Own, Quiet, Planned, Unmoved, Moved,
         ArtifactsKnown, DriftHasACause, Phases
<1> QED
  BY <1>1, <1>2, <1>3

LEMMA EditInv == IInv /\ Edit => IInv'
<1> SUFFICES ASSUME IInv, Edit PROVE IInv'
  OBVIOUS
<1> USE InstallationAssumption DEF IInv
<1>1. TypeOK'
  BY DEF Edit, control, slotVars, activation, TypeOK
<1>2. CallShape'
  BY DEF Edit, control, CallShape
<1>3. Known'
  BY DEF Edit, Known
<1> QED
  BY <1>1, <1>2, <1>3

LEMMA StutterInv == IInv /\ UNCHANGED vars => IInv'
<1> SUFFICES ASSUME IInv, UNCHANGED vars PROVE IInv'
  OBVIOUS
<1> USE DEF IInv, vars, disk, control, slotVars, activation
<1>1. TypeOK'
  BY DEF TypeOK
<1>2. CallShape'
  BY DEF CallShape, AlreadyDone, Refusable
<1>3. Known'
  BY DEF Known, DiskShape, Progress, Own, Quiet, Planned, Unmoved, Moved, ArtifactsKnown,
         DriftHasACause
<1> QED
  BY <1>1, <1>2, <1>3

LEMMA InitInv == Init => IInv
<1> SUFFICES ASSUME Init PROVE IInv
  OBVIOUS
<1> USE InstallationAssumption DEF Init, NoJournal, Journal, Empty, State
<1>1. TypeOK
  BY DEF TypeOK, States, Positions
<1>2. CallShape
  BY DEF CallShape
<1>3. Known
  BY DEF Known, DiskShape, Progress, Own, Quiet, DriftHasACause, Phases
<1> QED
  BY <1>1, <1>2, <1>3 DEF IInv

LEMMA NextInv == IInv /\ [Next]_vars => IInv'
    BY StutterInv, BeginInv, OpenNothingInv, OpenDamagedInv, OpenSettledInv, OpenPendingInv,
     RecoverOnwardInv, RecoverRenameInv, RecoverRefusesInv, FinishRefusesInv, VerifyInv,
     VerifyRefusesInv, AcknowledgeInv, RefuseInv, ProceedInv, BoundInv, FailsInv, InitializeInv,
     RecoverUndoInv, UndoInv, RenameSlotInv, CommitSlotInv, WriteLedgerInv, WriteCurrentInv,
     WriteStableInv, CommitMetadataInv, FinishInv, CreateJournalInv, WriteJournalInv,
     CreateStagingInv, CopyPayloadInv, MarkReadyInv, CreateAnchorInv, WriteAnchorInv,
     WriteBindingInv, CrashInv, EditInv DEF Next

\* Every reachable state satisfies the inductive invariant.
THEOREM InductiveInvariant == Spec => []IInv
<1>1. Init => IInv
  BY InitInv
<1>2. IInv /\ [Next]_vars => IInv'
  BY NextInv
<1> QED
  BY <1>1, <1>2, PTL DEF Spec

\* The ledger that any sequence of calls, failures and kills leaves is one the
\* contract of validate_installation_state_contract accepts, and so are the two
\* states a journal carries.
THEOREM TypeCorrect == Spec => []TypeOK
<1>1. IInv => TypeOK
  BY DEF IInv
<1> QED
  BY <1>1, InductiveInvariant, PTL

\* The stable Agent entry is never left without a complete slot behind it.
THEOREM EntryAlwaysInstalled == Spec => []EntryIsInstalled
<1>1. IInv => EntryIsInstalled
  <2> SUFFICES ASSUME IInv, ~edited PROVE /\ stable \in slots \cup {"none"}
                                          /\ journal.phase \notin Phases =>
                                               current = ledger.active /\ stable = ledger.active
    BY DEF EntryIsInstalled
  <2>1. DiskShape /\ TypeOK
    BY DEF IInv, Known
  <2>2. CASE journal.phase \notin Phases
    <3>1. Quiet
      BY <2>1, <2>2 DEF TypeOK, Journals, NoJournal, TornJournal, Journal, DiskShape
    <3> QED
      BY <2>1, <2>2, <3>1 DEF Quiet, TypeOK, States
  <2>3. CASE journal.phase \in Phases
    <3>1. Planned /\ (Unmoved \/ Moved)
      BY <2>1, <2>3 DEF DiskShape
    <3>2. /\ journal.previous \in States /\ journal.desired \in States /\ ledger \in States
      BY <2>1, JournalFields DEF TypeOK
    <3>3. CASE Unmoved
      BY <2>3, <3>2, <3>3 DEF Unmoved, States
    <3>4. CASE Moved
      <4>1. journal.previous.versions \subseteq slots /\ slots = journal.desired.versions
        BY <3>1, <3>4 DEF Planned, Moved
      <4>2. stable \in {journal.previous.active, journal.desired.active}
        BY <3>4 DEF Moved, ArtifactsKnown
      <4> QED
        BY <2>3, <3>2, <4>1, <4>2 DEF States
    <3> QED
      BY <3>1, <3>3, <3>4, <2>3
  <2> QED
    BY <2>2, <2>3
<1> QED
  BY <1>1, InductiveInvariant, PTL

\* Whoever kills the process and whatever fails, a call on a root that nobody
\* edited answers "drift" only for one of the three leftovers named there.
THEOREM DriftAlwaysCaused == Spec => []DriftHasACause
<1>1. IInv => DriftHasACause
  BY DEF IInv, Known, DriftHasACause
<1> QED
  BY <1>1, InductiveInvariant, PTL

-----------------------------------------------------------------------------
\* The journal, step by step, implements the promise.

\* A journal that is going on stands for its new state; one that was not staged,
\* or was not written, and no journal at all, for the ledger.
LEMMA SettledForms ==
  /\ journal.phase \in {"none", "torn"} => Settled = ledger
  /\ (journal.phase = "Intent" /\ journal.slot # "none") => Settled = ledger
  /\ (journal.phase \in Phases /\ (journal.slot = "none" \/ journal.phase # "Intent"))
       => Settled = journal.desired
BY DEF Settled, Phases

\* A step that changes neither the settled state nor the call is none of the promise's.
LEMMA NoEffect ==
  ASSUME UNCHANGED <<Settled, edited, call, answer>>
  PROVE  UNCHANGED Promise!promise
BY DEF Promise!promise

\* An answer is one the promise allows.
LEMMA Answers ==
  ASSUME NEW reply, Give(reply), call # Idle, UNCHANGED <<Settled, edited>>,
         \/ reply = "done" /\ Promise!Present(call)
         \/ reply = "refused" /\ Promise!Improper(call)
         \/ reply \in {"missing", "drift", "failed"}
  PROVE  Promise!PromiseNext
BY DEF Give, Idle, Request, Promise!PromiseNext, Promise!Answer, Promise!Idle, Promise!Request

\* The steps that leave ledger and journal alone and answer at most a failure.
LEMMA PassiveSteps ==
  ASSUME IInv, ~edited',
         \/ Initialize \/ OpenNothing \/ OpenDamaged \/ OpenSettled \/ OpenPending
         \/ RecoverOnward \/ RecoverUndo \/ RecoverRename \/ RecoverRefuses \/ RenameSlot
         \/ WriteCurrent \/ WriteStable \/ FinishRefuses \/ Verify \/ VerifyRefuses \/ Proceed
         \/ CreateStaging \/ CopyPayload \/ CreateAnchor \/ WriteAnchor \/ Fails
  PROVE  [Promise!PromiseNext]_(Promise!promise)
<1>1. UNCHANGED <<ledger, journal, edited>>
  BY DEF Initialize, OpenNothing, OpenDamaged, OpenSettled, OpenPending, RecoverOnward,
         RecoverUndo, RecoverRename, RecoverRefuses, RenameSlot, WriteCurrent, WriteStable,
         FinishRefuses, Verify, VerifyRefuses, Proceed, CreateStaging, CopyPayload,
         CreateAnchor, WriteAnchor, Fails, disk
<1>2. UNCHANGED Settled
  BY <1>1 DEF Settled
<1>3. \/ UNCHANGED <<call, answer>>
      \/ call # Idle /\ \E reply \in {"missing", "drift", "failed"} : Give(reply)
  BY DEF Initialize, OpenNothing, OpenDamaged, OpenSettled, OpenPending, RecoverOnward,
         RecoverUndo, RecoverRename, RecoverRefuses, RenameSlot, WriteCurrent, WriteStable,
         FinishRefuses, Verify, VerifyRefuses, Proceed, CreateStaging, CopyPayload,
         CreateAnchor, WriteAnchor, Fails, Go, Broken, Recovering, IInv, CallShape
<1>4. CASE UNCHANGED <<call, answer>>
  BY <1>1, <1>2, <1>4, NoEffect
<1>5. CASE call # Idle /\ \E reply \in {"missing", "drift", "failed"} : Give(reply)
  BY <1>1, <1>2, <1>5, Answers
<1> QED
  BY <1>3, <1>4, <1>5

\* The steps of the journal that change what it stands for, or not.
LEMMA JournalSteps ==
  ASSUME IInv, ~edited',
         CreateJournal \/ WriteJournal \/ MarkReady \/ CommitSlot \/ WriteLedger \/ CommitMetadata
  PROVE  [Promise!PromiseNext]_(Promise!promise)
<1>1. UNCHANGED <<edited, call, answer>> /\ ~edited
  <2>1. CommitSlot /\ ~edited => slots = journal.desired.versions
    BY DEF CommitSlot, IInv, Known, Progress, Moved
  <2> QED
    BY <2>1 DEF CreateJournal, WriteJournal, MarkReady, CommitSlot, WriteLedger, CommitMetadata, Go
<1>2. TypeOK /\ CallShape /\ DiskShape /\ Progress /\ Own
  BY <1>1 DEF IInv, Known
<1>3. CASE CreateJournal
  <2>1. journal.phase = "none" /\ journal'.phase = "torn" /\ UNCHANGED ledger
    BY <1>2, <1>3 DEF CreateJournal, Progress, TornJournal, Journal
  <2>2. Settled = ledger /\ Settled' = ledger'
    BY <2>1 DEF Settled, Phases
  <2> QED
    BY <1>1, <2>1, <2>2, NoEffect
<1>4. CASE WriteJournal
  <2>1. /\ journal.phase = "torn" /\ UNCHANGED ledger /\ pc = "journalling"
        /\ journal'.phase = "Intent" /\ journal'.desired = Desired
        /\ journal'.slot = IF call.kind = "install" THEN call.subject ELSE "none"
    BY <1>2, <1>4 DEF WriteJournal, Progress, Journal
  <2>2. /\ call.kind \in {"install", "select"} /\ ~Refusable /\ call.subject \in Versions
    BY <1>2, <2>1, WriteJournalDesired DEF CallShape
  <2>3. Settled = ledger
    BY <2>1, SettledForms
  <2>4. CASE call.kind = "install"
    <3>1. journal'.slot # "none"
      BY <2>1, <2>2, <2>4, InstallationAssumption
    <3>2. Settled' = ledger'
      BY <2>1, <3>1 DEF Settled
    <3> QED
      BY <1>1, <2>1, <2>3, <3>2, NoEffect
  <2>5. CASE call.kind = "select"
    <3>1. Settled' = Desired /\ Desired = [ledger EXCEPT !.active = call.subject]
      BY <2>1, <2>5 DEF Settled, Phases, Desired
    <3>2. call.subject \in ledger.versions /\ ledger \in States
      BY <1>2, <2>2, <2>5 DEF Refusable, TypeOK
    <3>3. Promise!Select
      BY <1>1, <2>3, <2>5, <3>1, <3>2 DEF Promise!Select, Promise!Selecting, States
    <3> QED
      BY <1>1, <3>3 DEF Promise!PromiseNext
  <2> QED
    BY <2>2, <2>4, <2>5
<1>5. CASE MarkReady
  <2>1. /\ pc = "ready" /\ Unmoved /\ journal.phase = "Intent" /\ Planned /\ UNCHANGED ledger
    BY <1>2, <1>5 DEF MarkReady, Progress, DiskShape, Phases
  <2>2. /\ journal'.phase = "SlotReady" /\ UNCHANGED <<journal.desired, journal.slot>>
    BY <1>2, <1>5 DEF MarkReady, TypeOK, Journals, NoJournal, TornJournal, Journal
  <2>3. call.kind = "install" /\ journal.slot = call.subject
    BY <1>2, <2>1 DEF CallShape, Own, Unmoved
  <2>4. Settled = ledger /\ ledger = journal.previous
    BY <2>1, SettledForms DEF Unmoved
  <2>5. Settled' = journal.desired
    BY <2>2 DEF Settled, Phases
  <2>6. /\ journal.desired.versions = ledger.versions \cup {call.subject}
        /\ call.subject \notin ledger.versions
        /\ journal.desired.active = IF ledger.active = "none" THEN call.subject ELSE ledger.active
        /\ journal.desired.binding = ledger.binding
    BY <2>1, <2>3, <2>4 DEF Planned, Unmoved
  <2>7. Promise!Install
    BY <1>1, <2>3, <2>4, <2>5, <2>6 DEF Promise!Install, Promise!Installing
  <2> QED
    BY <1>1, <2>7 DEF Promise!PromiseNext
<1>6. CASE CommitSlot \/ WriteLedger \/ CommitMetadata
  <2>1. Moved /\ journal.phase \in Phases
    BY <1>2, <1>6 DEF CommitSlot, WriteLedger, CommitMetadata, Progress
  <2>2. /\ journal'.phase = journal.phase \/ journal'.phase \in Phases \ {"Intent"}
        /\ UNCHANGED <<journal.desired, journal.slot>>
    BY <1>2, <1>6 DEF CommitSlot, WriteLedger, CommitMetadata, TypeOK, Journals, NoJournal,
                      TornJournal, Journal, Phases
  <2>3. Settled = journal.desired
    BY <2>1, SettledForms DEF Moved
  <2>4. Settled' = journal.desired
    BY <2>1, <2>2 DEF Settled, Moved
  <2> QED
    BY <1>1, <2>3, <2>4, NoEffect
<1> QED
  BY <1>3, <1>4, <1>5, <1>6

\* The journal is removed: nothing changes that was not settled, and a call whose
\* own journal it is has what it asked for.
LEMMA LastSteps ==
  ASSUME IInv, ~edited', Undo \/ Finish
  PROVE  [Promise!PromiseNext]_(Promise!promise)
<1>1. UNCHANGED <<edited, ledger>> /\ ~edited /\ journal'.phase = "none" /\ Reconciled
  BY DEF Undo, Finish, NoJournal, Journal
<1>2. TypeOK /\ CallShape /\ DiskShape /\ Progress /\ Own
  BY <1>1 DEF IInv, Known
<1>3. journal.phase \in Phases /\ Planned /\ call # Idle
  BY <1>2 DEF Undo, Finish, Progress, DiskShape, CallShape
<1>4. Settled' = ledger'
  BY <1>1 DEF Settled, Phases
<1>5. Settled = ledger
  <2>1. CASE Undo
    BY <1>2, <2>1, SettledForms DEF Undo, Progress, Unmoved
  <2>2. CASE Finish
    BY <1>2, <1>3, <2>2, SettledForms DEF Finish, Progress, Moved
  <2> QED
    BY <2>1, <2>2
<1>6. CASE stage = "working"
  <2>1. pc = "finish" /\ ledger = journal.desired
    BY <1>2, <1>6 DEF Undo, Finish, CallShape, Progress
  <2>2. \/ call.kind = "install" /\ journal.slot = call.subject
        \/ call.kind = "select" /\ journal.desired.active = call.subject
    BY <1>2, <1>6, <2>1 DEF Own
  <2>3. Promise!Present(call)
    <3>1. CASE call.kind = "install" /\ journal.slot = call.subject
      <4>1. call.subject # "none"
        BY <1>2, <3>1, InstallationAssumption DEF TypeOK, Requests, Request, Idle
      <4>2. call.subject \in journal.desired.versions
        BY <1>3, <3>1, <4>1 DEF Planned
      <4> QED
        BY <1>5, <2>1, <3>1, <4>2 DEF Promise!Present
    <3>2. CASE call.kind = "select" /\ journal.desired.active = call.subject
      BY <1>5, <2>1, <3>2 DEF Promise!Present
    <3> QED
      BY <2>2, <3>1, <3>2
  <2> QED
    BY <1>1, <1>3, <1>4, <1>5, <1>6, <2>3, Answers DEF Reconciled
<1>7. CASE stage = "opening"
  BY <1>1, <1>4, <1>5, <1>7, NoEffect DEF Reconciled, Go
<1>8. CASE stage = "repairing"
  BY <1>1, <1>3, <1>4, <1>5, <1>8, Answers DEF Reconciled
<1> QED
  BY <1>2, <1>6, <1>7, <1>8 DEF TypeOK

\* The steps of the call itself.
LEMMA CallSteps ==
  ASSUME IInv, ~edited', Begin \/ Acknowledge \/ Refuse \/ WriteBinding \/ Bound \/ Crash
  PROVE  [Promise!PromiseNext]_(Promise!promise)
<1>1. UNCHANGED <<edited, journal>> /\ ~edited
  <2>1. Crash => UNCHANGED <<edited, journal>>
    BY DEF Crash
  <2>2. WriteBinding => UNCHANGED <<edited, journal>>
    BY DEF WriteBinding
  <2>3. UNCHANGED disk => UNCHANGED <<edited, journal>>
    BY DEF disk
  <2>4. UNCHANGED <<edited, journal>>
    BY <2>1, <2>2, <2>3 DEF Begin, Acknowledge, Refuse, Bound
  <2> QED
    BY <2>4
<1>2. TypeOK /\ CallShape /\ DiskShape /\ Progress
  BY <1>1 DEF IInv, Known
<1>3. CASE Begin
  <2>1. UNCHANGED Settled
    BY <1>1, <1>3 DEF Begin, disk, Settled
  <2>2. call = Idle
    BY <1>2, <1>3 DEF Begin, CallShape
  <2>3. Promise!Ask
    BY <1>3, <2>1, <2>2 DEF Begin, Promise!Ask, Promise!Idle, Promise!Request, Idle, Request,
                            Promise!Requests, Requests
  <2> QED
    BY <1>1, <2>3 DEF Promise!PromiseNext
<1>4. CASE Crash
  <2>1. UNCHANGED Settled /\ call # Idle
    BY <1>1, <1>2, <1>4 DEF Crash, Settled, CallShape
  <2>2. Promise!Interrupt
    BY <1>4, <2>1 DEF Crash, Promise!Interrupt, Promise!Idle, Promise!Request, Idle, Request
  <2> QED
    BY <1>1, <2>2 DEF Promise!PromiseNext
<1>5. CASE WriteBinding
  <2>1. /\ journal.phase = "none" /\ call.kind = "bind" /\ ledger.binding = "none"
        /\ ledger \in States
    BY <1>2, <1>5 DEF WriteBinding, Progress, CallShape, TypeOK
  <2>2. Settled = ledger /\ Settled' = [ledger EXCEPT !.binding = call.subject]
    BY <1>1, <1>5, <2>1 DEF WriteBinding, Settled, Phases
  <2>3. Promise!Bind
    BY <1>5, <2>1, <2>2 DEF WriteBinding, Go, Promise!Bind, Promise!Binding, States
  <2> QED
    BY <1>1, <2>3 DEF Promise!PromiseNext
<1>6. CASE Acknowledge \/ Refuse \/ Bound
  <2>1. journal.phase = "none" /\ call # Idle /\ UNCHANGED ledger
    BY <1>2, <1>6 DEF Acknowledge, Refuse, Bound, Progress, CallShape, disk
  <2>2. Settled = ledger /\ UNCHANGED Settled
    BY <1>1, <2>1 DEF Settled, Phases
  <2>3. CASE Acknowledge
    <3>1. Promise!Present(call)
      BY <2>2, <2>3 DEF Acknowledge, AlreadyDone, Promise!Present
    <3> QED
      BY <1>1, <2>1, <2>2, <2>3, <3>1, Answers DEF Acknowledge
  <2>4. CASE Refuse
    <3>1. Promise!Improper(call)
      BY <2>2, <2>4 DEF Refuse, Refusable, Promise!Improper
    <3> QED
      BY <1>1, <2>1, <2>2, <2>4, <3>1, Answers DEF Refuse
  <2>5. CASE Bound
    <3>1. Promise!Present(call)
      BY <1>2, <2>2, <2>5 DEF Bound, CallShape, Promise!Present
    <3> QED
      BY <1>1, <2>1, <2>2, <2>5, <3>1, Answers DEF Bound
  <2> QED
    BY <1>6, <2>3, <2>4, <2>5
<1> QED
  BY <1>3, <1>4, <1>5, <1>6

\* Whatever is killed and whatever fails between the files of an operation, it
\* takes effect as a whole or not at all, for any versions and bindings.
THEOREM ImplementsPromise == Spec => OperationsAreAtomic
<1>1. Init => Promise!PromiseInit
  BY DEF Init, Promise!PromiseInit, Settled, NoJournal, Journal, Empty, State, Phases,
         Idle, Request, Promise!Idle, Promise!Request
<1>2. IInv /\ [Next]_vars => [Promise!PromiseNext]_(Promise!promise)
  <2> SUFFICES ASSUME IInv, [Next]_vars
               PROVE  [Promise!PromiseNext]_(Promise!promise)
    OBVIOUS
  <2>1. CASE edited'
    BY <2>1 DEF Promise!PromiseNext
  <2>2. CASE UNCHANGED vars
    <3>1. UNCHANGED <<ledger, journal, edited, call, answer>>
      BY <2>2 DEF vars, disk, control
    <3>2. UNCHANGED Settled
      BY <3>1 DEF Settled
    <3> QED
      BY <3>1, <3>2, NoEffect
  <2>3. CASE ~edited' /\ Next
    <3>1. ~Edit
      BY <2>3 DEF Edit
    <3> QED
      BY <2>3, <3>1, PassiveSteps, JournalSteps, LastSteps, CallSteps DEF Next
  <2> QED
    BY <2>1, <2>2, <2>3
<1> QED
  BY <1>1, <1>2, InductiveInvariant, PTL DEF Spec, OperationsAreAtomic, Promise!PromiseSpec
=================================================================================
