---------------------------- MODULE RunnerProcesses ----------------------------
(***************************************************************************)
(* How the Agent observes the runner it is bound to on its own host        *)
(* (src/src/runner_observer.rs and src/src/process_snapshot.rs): the files *)
(* of the runner home, the process table, each process, the metadata and   *)
(* the owners are read one after the other while Listener and Worker run.  *)
(* Assumed of Windows: a process of the current user that runs can be      *)
(* opened, and its path read; that of another account may not.             *)
(***************************************************************************)

VARIABLES
  proc,        \* who runs each image of the runner: "absent", "ours" or "theirs"
  home,        \* the runner home: its files, metadata, owner, and whether the directory
               \* at its path is another one than the one that was guarded
  user,        \* whether the execution identity of the binding is the current user
  at,          \* position of the reading
  listed,      \* the images in the process table that are still to be opened
  image,       \* what was read of each image: its user, "unreadable" or "unseen"
  found,       \* the metadata as read, whether it was there in the beginning, and the
               \* identity the processes prove
  local,       \* the observation, Unobserved before
  witnessed    \* facts that held at some moment of the reading

localVars == <<proc, home, user, at, listed, image, found, local, witnessed>>

Images == {"Listener", "Worker"}

MetadataStates == {"Verified", "MismatchIdentity", "MismatchWorkRoot", "Unknown"}

Homes ==
  [whole: BOOLEAN, metadata: MetadataStates, owner: {"Verified", "NotOwned", "Unknown"},
   replaced: BOOLEAN]

Unobserved == [phase |-> "none", identity |-> "none", workRoot |-> "none"]

\* A Worker of ours may be missing, one of ours may run, the metadata may name us.
Now(p, h) ==
  {w \in {"idle", "running", "named"} :
     CASE w = "idle"    -> p["Worker"] # "ours"
       [] w = "running" -> \E i \in Images : p[i] = "ours"
       [] w = "named"   -> h.metadata = "Verified" /\ ~h.replaced}

LocalTypeOK ==
  /\ proc \in [Images -> {"absent", "ours", "theirs"}]
  /\ home \in Homes /\ user \in {"yes", "no", "unknown"}
  /\ at \in {"start", "guards", "table", "open", "identify", "metadata", "verify", "done"}
  /\ listed \subseteq Images
  /\ image \in [Images -> {"unseen", "ours", "theirs", "unreadable"}]
  /\ found \in [present: BOOLEAN, metadata: MetadataStates,
               identity: {"Verified", "Mismatch", "Unknown"}]
  /\ local = Unobserved \/
     local \in [phase: {"Busy", "Listening", "Stopped", "Unknown"},
                identity: {"Verified", "Mismatch", "Unknown"},
                workRoot: {"Verified", "NotOwned", "Unknown"}]

LocalInit ==
  /\ proc \in [Images -> {"absent", "ours", "theirs"}]
  /\ home \in [whole: BOOLEAN, metadata: MetadataStates,
               owner: {"Verified", "NotOwned", "Unknown"}, replaced: {FALSE}]
  /\ user \in {"yes", "no", "unknown"}
  /\ at = "start" /\ listed = {} /\ image = [i \in Images |-> "unseen"]
  /\ found = [present |-> FALSE, metadata |-> "Unknown", identity |-> "Unknown"]
  /\ local = Unobserved /\ witnessed = Now(proc, home)

-----------------------------------------------------------------------------
\* Meanwhile, on the host.

Turns(p, h) ==
  /\ proc' = p /\ home' = h
  /\ witnessed' = witnessed \cup Now(p, h)
  /\ UNCHANGED <<user, at, listed, image, found, local>>

\* A process starts, or ends.
ProcessChanges ==
  \E i \in Images, who \in {"absent", "ours", "theirs"} :
    /\ (who = "absent") # (proc[i] = "absent")
    /\ Turns([proc EXCEPT ![i] = who], home)

\* The runner is configured again.
Reconfigured ==
  \E m \in MetadataStates \ {home.metadata} : Turns(proc, [home EXCEPT !.metadata = m])

\* The directory is moved away and another one, which may look the same, takes its place;
\* before it is guarded, that one is as good as a configuration of its own.
Replaced ==
  /\ at \notin {"start", "guards"} /\ ~home.replaced
  /\ Turns(proc, [home EXCEPT !.replaced = TRUE])

Damaged == home.whole /\ Turns(proc, [home EXCEPT !.whole = FALSE])

-----------------------------------------------------------------------------
\* derive_phase
DerivePhase(listener, worker, metadata) ==
  IF worker THEN "Busy"
  ELSE IF listener THEN "Listening"
  ELSE IF metadata THEN "Stopped"
  ELSE "Unknown"

Seen(i) == home.whole /\ image[i] # "unseen"

\* current_user_matches_identity_reference: the reference may be another account's, and
\* the account of the Agent may not be found out.
CurrentUser == user

\* Defective variant: a process table without the runner proves as much as one with it.
ProcessIdentityVacuous ==
  IF user = "no" \/ \E i \in Images : image[i] = "theirs" THEN "Mismatch"
  ELSE IF user = "unknown" \/ \E i \in Images : image[i] = "unreadable" THEN "Unknown"
  ELSE "Verified"

\* exact_runner_process_observation
ProcessIdentity ==
  IF CurrentUser = "no" THEN "Mismatch"
  ELSE IF CurrentUser = "unknown" \/ ~home.whole THEN "Unknown"
  ELSE IF \E i \in Images : image[i] = "theirs" THEN "Mismatch"
  ELSE IF \A i \in Images : image[i] = "unseen" THEN "Unknown"
  ELSE IF \E i \in Images : image[i] = "unreadable" THEN "Unknown"
  ELSE "Verified"

Observation(identity, workRoot) ==
  [phase |-> DerivePhase(image["Listener"] # "unseen", image["Worker"] # "unseen", found.present),
   identity |-> identity, workRoot |-> workRoot]

Identity ==
  IF found.metadata = "MismatchIdentity" THEN "Mismatch"
  ELSE IF found.identity = "Verified" /\ found.metadata # "Verified" THEN "Unknown"
  ELSE found.identity

\* current_user_owns_runner_paths: of the home and the work root together; an owner that
\* cannot be read is unknown, unless the other one is somebody else.
PathsOwner == home.owner

WorkRoot ==
  CASE found.metadata = "MismatchWorkRoot" -> "NotOwned"
    [] found.metadata = "Verified" -> PathsOwner
    [] OTHER -> "Unknown"

-----------------------------------------------------------------------------
\* WindowsRunnerSource::collect

Steps(position) == at' = position /\ UNCHANGED <<proc, home, user, witnessed>>

\* Metadata that says nothing may be a file that is not there.
MayBeThere == IF home.metadata = "Unknown" THEN BOOLEAN ELSE {TRUE}

LookForMetadata ==
  /\ at = "start"
  /\ Steps("guards")
  /\ \E there \in MayBeThere : found' = [found EXCEPT !.present = there]
  /\ UNCHANGED <<listed, image, local>>

\* exact_binding_path_guards: without the files there is nothing to look at.
Guard ==
  /\ at = "guards"
  /\ \E there \in MayBeThere :
       IF home.whole /\ there THEN Steps("table") /\ UNCHANGED local
       ELSE /\ Steps("done")
            /\ local' = Observation("Unknown", "Unknown")
  /\ UNCHANGED <<listed, image, found>>

\* executable_images: a table that cannot be read is taken as an empty one.
ReadTable ==
  /\ at = "table"
  /\ Steps("open")
  /\ listed' \in {{i \in Images : proc[i] # "absent"}, {}}
  /\ UNCHANGED <<image, found, local>>

\* process_handle_user_matches_current: what has ended cannot be opened, what is not ours
\* need not; one handle gives the path and the user.
Opened(i) ==
  CASE proc[i] = "absent" -> {"unseen"}
    [] proc[i] = "ours"   -> {"ours", "unreadable"}
    [] OTHER              -> {"theirs", "unreadable", "unseen"}

Open(i) ==
  /\ at = "open" /\ i \in listed
  /\ listed' = listed \ {i}
  /\ \E who \in Opened(i) : image' = [image EXCEPT ![i] = who]
  /\ Steps("open")
  /\ UNCHANGED <<found, local>>

\* Paths are compared after canonicalisation, which needs the files.
Compare ==
  /\ at = "open" /\ listed = {}
  /\ image' = [i \in Images |-> IF Seen(i) THEN image[i] ELSE "unseen"]
  /\ Steps("identify")
  /\ UNCHANGED <<listed, found, local>>

\* The identity the processes prove needs the files once more.
Identify ==
  /\ at = "identify"
  /\ found' = [found EXCEPT !.identity = ProcessIdentity]
  /\ Steps("metadata")
  /\ UNCHANGED <<listed, image, local>>

\* observe_bound_metadata; what stands in a replaced directory is anybody's.
ReadMetadata ==
  /\ at = "metadata"
  /\ \E m \in IF home.replaced THEN MetadataStates ELSE {home.metadata} :
       found' = [found EXCEPT !.metadata = m]
  /\ Steps("verify")
  /\ UNCHANGED <<listed, image, local>>

\* Defective variant: the guards are held, and not looked at again.
GuardsHoldAnyway == TRUE

\* The directories at the guarded paths are those that were guarded.
GuardsHold == ~home.replaced

Conclude ==
  /\ at = "verify"
  /\ local' = IF GuardsHold THEN Observation(Identity, WorkRoot)
              ELSE Observation("Unknown", "Unknown")
  /\ Steps("done")
  /\ UNCHANGED <<listed, image, found>>

HostChanges == ProcessChanges \/ Reconfigured \/ Replaced \/ Damaged

ReadLocal ==
  \/ LookForMetadata \/ Guard \/ ReadTable \/ (\E i \in Images : Open(i)) \/ Compare
  \/ Identify \/ ReadMetadata \/ Conclude

\* LocalAdmissionEvidence::from_runner_phase
Consistent ==
  local.identity = "Verified" /\ local.workRoot = "Verified" /\ local.phase # "Unknown"

ActiveBoundWorker == local.phase = "Busy"

-----------------------------------------------------------------------------
\* Properties.

\* Local evidence that lets the Agent touch the admission label was so: an image of this
\* very runner was run by the current user, and the metadata in the guarded directory
\* named it, each at some moment of the reading.
ConsistentWasOurs == Consistent => {"running", "named"} \subseteq witnessed

\* The Agent is never told that the runner is idle while a Worker of the current user
\* ran from the beginning of the reading to its end, whatever failed in between.
IdleWasIdle == (Consistent /\ ~ActiveBoundWorker) => "idle" \in witnessed
================================================================================
