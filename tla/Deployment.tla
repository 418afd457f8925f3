------------------------------ MODULE Deployment ------------------------------
(***************************************************************************)
(* The deployment of RunnerMesh on one account: the operator helper of     *)
(* src/src/bin/runnermesh-package.rs with the archives of                  *)
(* src/src/package.rs, together with updates and removal.                  *)
(***************************************************************************)
EXTENDS Uninstall

VARIABLES
  staging,     \* the extracted payload directory: "none" or the digest of its content
  accepted     \* the version and digest under way in the helper's install

packageVars == <<staging, accepted>>
vars == <<installation, plan, control, updateVars, uninstallVars, packageVars>>

Nothing == [version |-> "none", digest |-> "none"]

Positions ==
  {"idle", "stage-install", "stage-ready", "stage-mismatch", "receipt", "activate-select",
   "activate-switched", "activate-commit", "activate-back", "activate-rolled",
   "reconcile-back", "clear-receipt", "plan", "autostart", "autostart-removed",
   "quarantine", "clean", "receipt-removal", "end-plan", "tidy", "detach", "sweep",
   "sweeping", "enable", "install"}

TypeOK ==
  /\ root \in {"none", "there", "empty"} /\ bound \in BOOLEAN
  /\ slots \in [Versions -> Digests \cup {"none"}] /\ active \in Versions \cup {"none"}
  /\ place \in [Pieces -> {"home", "aside", "gone"}]
  /\ pc \in Positions
  /\ answer \in {"none", "done", "drift", "removed", "preserved", "refused", "autostart-drift"}
  /\ UpdateTypeOK /\ UninstallTypeOK
  /\ staging \in Digests \cup {"none"}
  /\ accepted \in [version: Versions, digest: Digests] \cup {Nothing}

Init ==
  /\ root = "none" /\ slots = Fresh /\ active = "none" /\ bound = FALSE
  /\ place = [p \in Pieces |-> "gone"]
  /\ pc = "idle" /\ answer = "none"
  /\ UpdateInit /\ UninstallInit
  /\ staging = "none" /\ accepted = Nothing

untouched == <<installation, plan, updateVars, uninstallVars>>

-----------------------------------------------------------------------------
\* An archive as it is read: the payload it holds, what its manifest says of it and what
\* its checksum file says; any of them may have been changed since it was created.  Its
\* hash and provenance are compared with what the operator accepted, whatever that is.
Archives == [payload: Digests, manifest: Digests, sums: Digests]

\* verify_contents: the manifest bears the hash of every member of the payload.
ManifestBears(archive) == archive.manifest = archive.payload

\* verify_checksum_file: so do the checksums, which cover the manifest too.
SumsBear(archive) == archive.sums = archive.payload

\* read_verified_archive: all from the same bytes, read once.
Verified(archive) == ManifestBears(archive) /\ SumsBear(archive)

\* extract_runtime_expected writes aside and renames; the directory must be new.
Extract ==
  /\ pc = "idle" /\ staging = "none"
  /\ \E v \in Versions, archive \in Archives :
       /\ Verified(archive)
       /\ staging' = archive.payload
       /\ accepted' = [version |-> v, digest |-> archive.manifest]
  /\ Go("install")
  /\ UNCHANGED untouched

\* Defective variant: the extracted directory is installed as it is found.
InstallsFound(v, expected) == Installs(v, staging)

\* install_with_manifest hashes the directory against the verified manifest.
InstallsAccepted(v, expected) == staging = expected /\ Installs(v, expected)

HelperInstall ==
  /\ pc = "install"
  /\ slots[accepted.version] \in {"none", accepted.digest}
  /\ InstallsAccepted(accepted.version, accepted.digest)
  /\ Give("done") /\ accepted' = Nothing
  /\ UNCHANGED <<plan, updateVars, uninstallVars, staging>>

HelperBind ==
  /\ pc = "idle" /\ Open /\ ~bound
  /\ bound' = TRUE
  /\ Give("done")
  /\ UNCHANGED <<root, slots, active, place, plan, updateVars, uninstallVars, packageVars>>

-----------------------------------------------------------------------------
\* A call is refused, fails or is killed; what it has changed stays.
CutShort ==
  /\ pc # "idle"
  /\ pc' = "idle" /\ answer' = "none" /\ accepted' = Nothing
  /\ UNCHANGED <<untouched, staging>>

\* Others on the same account.

\* Somebody changes, or removes, the extracted directory.
ReplaceStaging ==
  /\ staging # "none"
  /\ staging' \in Digests \cup {"none"}
  /\ UNCHANGED <<untouched, control, accepted>>

\* The Agent writes its settings and evidence; users add files, or empty the root.
WriteExtras ==
  /\ root = "there" /\ ~extras
  /\ extras' = TRUE
  /\ UNCHANGED <<installation, plan, done, detached, autostart, control, updateVars, packageVars>>

EmptyRoot ==
  /\ pc = "idle" /\ root = "there" /\ done /\ plan = "none"
  /\ root' = "empty" /\ done' = FALSE /\ extras' = FALSE
  /\ slots' = Fresh /\ active' = "none" /\ bound' = FALSE
  /\ journal' = NoTransaction /\ receipt' = "none" /\ meddled' = FALSE
  /\ UNCHANGED <<place, plan, detached, autostart, control, packageVars>>

\* Another program uses the name of the autostart entry.
ForeignAutostart ==
  /\ autostart' \in IF autostart = "none" THEN {"foreign"}
                    ELSE IF autostart = "foreign" THEN {"none"} ELSE {}
  /\ pc \in {"idle", "enable", "autostart", "autostart-removed"}
  /\ UNCHANGED <<installation, plan, done, detached, extras, control, updateVars, packageVars>>

Next ==
  \/ (UpdateNext /\ UNCHANGED <<plan, uninstallVars, packageVars>>)
  \/ ((UninstallNext \/ AutostartNext) /\ UNCHANGED packageVars)
  \/ Extract \/ HelperInstall \/ HelperBind
  \/ CutShort \/ ReplaceStaging \/ WriteExtras \/ EmptyRoot \/ ForeignAutostart

Spec == Init /\ [][Next]_vars

-----------------------------------------------------------------------------
\* What is installed was accepted: a slot is only ever filled, and only with the payload
\* that the update was staged for or the helper was told to accept, although the payload
\* directory may be changed after it was verified.
OnlyAcceptedPayloads ==
  [][\A v \in Versions : (slots'[v] # slots[v] /\ slots'[v] # "none") =>
       /\ slots[v] = "none"
       /\ slots'[v] = IF pc = "install" THEN accepted.digest ELSE journal.digest]_vars

\* What Installation promises its callers, they keep up together: between calls cut
\* short anywhere, the versions, the selection and the binding that are on offer change
\* by one whole install, select or bind at a time, a version is selected only if it is
\* installed, and all of them are withdrawn together by the first step of a removal.
Offers == INSTANCE InstallationPromise WITH
  Bindings <- {"bound"},
  installed <- IF Open THEN {v \in Versions : slots[v] # "none"} ELSE {},
  active <- IF Open THEN active ELSE "none",
  binding <- IF Open /\ bound THEN "bound" ELSE "none",
  request <- pc, reply <- answer

Withdrawn ==
  plan = "none" /\ plan' = "torn" /\ Offers!offer' = <<{}, "none", "none">>

OfferChangesWhole == [][Offers!Effect \/ Withdrawn]_(Offers!offer)
================================================================================
