----------------------------- MODULE Qualification -----------------------------
(***************************************************************************)
(* The evidence that admits a qualification transaction (src/src/h1_live.rs*)
(* with the verdicts of qualification.rs and h1_artifact.rs): four readings*)
(* are taken one after the other while GitHub, the repository and the host *)
(* go on changing, are combined into eleven checks, and only an attestation*)
(* of a complete live collection lets a transaction be prepared.           *)
(***************************************************************************)
EXTENDS H1Transaction, Naturals

CONSTANT MaxDrift    \* how often the surroundings change while readings are taken

ASSUME MaxDriftAssumption == MaxDrift \in Nat

VARIABLES
  binding,     \* the parts of the H1LiveBinding that are in order
  world,       \* what GitHub, the repository and the host are like
  drifts,      \* how often they changed
  held,        \* the facts that held at some time of the collection
  readings,    \* the observations, "none" until they are made
  receipt      \* disposition of the last collection

collection == <<binding, world, drifts, held, readings, receipt>>
vars == <<transaction, attested, collection>>

\* H1LiveBinding::is_valid, by what it looks at.  It accepts every valid token, that of a
\* placeholder too: "filled" is a text with none left anywhere in it.
BindingParts ==
  {"admission", "ownership", "label", "local", "workflow", "runner", "scope", "restore"}

BindingValid == BindingParts \subseteq binding

Bindings ==
  {BindingParts \cup {"filled"}, BindingParts}
  \cup {(BindingParts \cup {"filled"}) \ {p} : p \in BindingParts}

Sources == {"frozen", "frozen, CRLF", "identity kept", "altered"}

\* The facts of the surroundings, with the values under which they do not hold.
Faults ==
  [selector |-> {"Absent"}, online |-> {"no"}, sole |-> {"no"}, registered |-> {"no"},
   credential |-> {"no"}, file |-> (Sources \ {"frozen"}) \cup {"absent"},
   blob |-> {"no"}, variable |-> {"no"}, access |-> {"no"}, paths |-> {"linked", "denied"},
   owned |-> {"no", "unknown"}]

Facts == DOMAIN Faults

Sound ==
  [f \in Facts |-> CASE f = "selector" -> "Present" [] f = "file" -> "frozen"
                     [] f = "paths" -> "plain" [] OTHER -> "yes"]

Worlds == {Sound} \cup UNION {{[Sound EXCEPT ![f] = x] : x \in Faults[f]} : f \in Facts}

\* Line ends do not matter for the frozen template.
Holds(f, w) == w[f] = Sound[f] \/ (f = "file" /\ w[f] = "frozen, CRLF")

EvidenceStates == {"Pass", "Fail", "Unknown"}

\* Defective variant: an unknown state does not count.
CombineStatesKnown(states) == IF "Fail" \in states THEN "Fail" ELSE "Pass"

\* combine_states
CombineStates(states) ==
  IF "Fail" \in states THEN "Fail" ELSE IF "Unknown" \in states THEN "Unknown" ELSE "Pass"

-----------------------------------------------------------------------------
\* observe_github_admission_readiness

Unread ==
  [authority |-> "Unknown", identity |-> "Unknown", label |-> "Unknown", unique |-> "Unknown",
   selector |-> "Unknown", online |-> "Unknown"]

Labelled ==
  [Unread EXCEPT !.label = IF {"admission", "ownership"} \subseteq binding THEN "Pass" ELSE "Fail"]

Authorised == [Labelled EXCEPT !.authority = "Pass"]

\* The backend's errors by what the arm makes of them; the transport can fail as well.
GithubReading(failure) ==
  IF failure \in {"Timeout", "ApiUnavailable", "RateLimited"} THEN Labelled
  ELSE IF failure \in {"MalformedResponse", "SelectorObservationUnknown"} THEN Authorised
  ELSE IF Labelled.label = "Fail" THEN [Authorised EXCEPT !.label = "Fail"]
  ELSE IF world.credential = "no" THEN [Labelled EXCEPT !.authority = "Fail"]
  ELSE IF world.registered = "no" THEN [Authorised EXCEPT !.identity = "Fail"]
  ELSE IF world.sole = "no" THEN [Authorised EXCEPT !.unique = "Fail"]
  ELSE [Authorised EXCEPT !.identity = "Pass", !.unique = "Pass",
                          !.selector = world.selector, !.online = world.online]

\* FilesystemExactLocalBindingSource::observe with path_kind_state: a link or a missing
\* ancestor fails, an unreadable one is unknown.
PathKindState ==
  CASE world.paths = "plain" -> "Pass" [] world.paths = "linked" -> "Fail" [] OTHER -> "Unknown"

LocalReading ==
  IF "local" \notin binding THEN "Fail"
  ELSE CombineStates({PathKindState,
         CASE world.owned = "yes" -> "Pass" [] world.owned = "no" -> "Fail" [] OTHER -> "Unknown"})

\* assess_h1_workflow_source: of the seven checks only the asserted runtime identity
\* can be met by anything but the frozen template.
Assessment(source) ==
  [frozenTemplate |-> source \in {"frozen", "frozen, CRLF"},
   runtimeIdentity |-> source # "altered"]

SourceContractReady(source) ==
  Assessment(source).frozenTemplate /\ Assessment(source).runtimeIdentity

NoWorkflow == [presence |-> "Unknown", exact |-> FALSE, variable |-> "Unknown"]

\* GithubWorkflowClient::observe; the caller looks up the repository's variable itself,
\* and takes a failed exchange as an unknown observation.
WorkflowReading(failure) ==
  IF failure # "none" \/ "workflow" \notin binding \/ world.credential = "no" THEN NoWorkflow
  ELSE IF world.file = "absent" THEN [NoWorkflow EXCEPT !.presence = "Absent"]
  ELSE [presence |-> "Present",
        exact |-> world.blob = "yes" /\ SourceContractReady(world.file),
        variable |-> IF world.variable = "yes" THEN "Pass" ELSE "Fail"]

NoAccess == [bound |-> "none", access |-> "Unknown"]

\* GithubRepositoryAccessClient::observe, for this binding or, by mistake, for another.
AccessReading(failure, bound) ==
  IF failure # "none" \/ ~BindingValid \/ world.credential = "no" THEN NoAccess
  ELSE [bound |-> bound, access |-> IF world.access = "yes" THEN "Pass" ELSE "Fail"]

-----------------------------------------------------------------------------
VerifyTrustedWorkflow(w) ==
  IF "workflow" \notin binding THEN "Fail"
  ELSE IF w.presence = "Unknown" THEN "Unknown"
  ELSE IF w.presence = "Absent" \/ ~w.exact THEN "Fail"
  ELSE w.variable

VerifyRepositoryRunnerAccess(a) ==
  IF ~BindingValid THEN "Fail"
  ELSE IF a.bound = "this" THEN a.access
  ELSE IF a.bound = "none" THEN "Unknown"
  ELSE "Fail"

\* verify_h1_routing and RouteState::evidence
VerifyRouting ==
  LET g == readings.github
      verdicts == {VerifyTrustedWorkflow(readings.workflow),
                   VerifyRepositoryRunnerAccess(readings.access),
                   g.authority, g.identity, g.label, g.unique}
  IN  CASE "Fail" \in verdicts \/ g.selector = "Absent" \/ g.online = "no" -> "Fail"
        [] verdicts = {"Pass"} /\ g.selector = "Present" /\ g.online = "yes" -> "Pass"
        [] OTHER -> "Unknown"

\* The checks that are not read from the surroundings are the caller's word, and given.
Evidence ==
  {readings.github.authority, CombineStates({readings.github.identity, readings.local}),
   readings.github.label, readings.github.unique, VerifyTrustedWorkflow(readings.workflow),
   VerifyRouting}

\* verify_h1_readiness_internal: with a live provenance the attestation is one more check.
Disposition(live, collector) ==
  IF Evidence # {"Pass"} \/ (live /\ ~collector) THEN "Blocked"
  ELSE IF live THEN "ReadyForOwnerGate" ELSE "PassSynthetic"

\* Defective variant: byte for byte.
ArtifactsReadyExact == BindingValid /\ "filled" \in binding /\ world.file = "frozen"

\* assess_h1_artifacts: the same binding and a workflow source, offline.
ArtifactsReady == BindingValid /\ "filled" \in binding /\ SourceContractReady(world.file)

-----------------------------------------------------------------------------
NoReadings == [github |-> Unread, local |-> "Unknown", workflow |-> NoWorkflow, access |-> NoAccess]

Failures == {"none", "Timeout", "MalformedResponse"}

Init ==
  /\ TransactionInit
  /\ binding \in Bindings /\ world \in Worlds /\ drifts = 0
  /\ held = {f \in Facts : Holds(f, world)}
  /\ readings = NoReadings /\ receipt = "none"

Collecting == ~attested /\ UNCHANGED <<transaction, binding>>

\* The surroundings change in one respect, to the worse or back.
Drift ==
  /\ Collecting /\ drifts < MaxDrift
  /\ \E f \in Facts : \E x \in Faults[f] \cup {Sound[f]} :
        x # world[f] /\ world' = [world EXCEPT ![f] = x]
  /\ drifts' = drifts + 1
  /\ held' = held \cup {f \in Facts : Holds(f, world')}
  /\ UNCHANGED <<attested, readings, receipt>>

Read(reading) ==
  /\ Collecting
  /\ readings' = reading /\ receipt' = "none"
  /\ UNCHANGED <<attested, world, drifts, held>>

ReadGithub ==
  \E f \in Failures :
    readings.github = Unread /\ Read([readings EXCEPT !.github = GithubReading(f)])

ReadLocal == readings.local = "Unknown" /\ Read([readings EXCEPT !.local = LocalReading])

ReadWorkflow ==
  \E f \in Failures :
    readings.workflow = NoWorkflow /\ Read([readings EXCEPT !.workflow = WorkflowReading(f)])

ReadAccess ==
  \E f \in Failures, b \in {"this", "other"} :
    readings.access = NoAccess /\ Read([readings EXCEPT !.access = AccessReading(f, b)])

\* collect_h1_live_readiness: injected observations are synthetic whatever they say.
Collect ==
  /\ Collecting
  /\ receipt' = Disposition(FALSE, FALSE)
  /\ UNCHANGED <<attested, world, drifts, held, readings>>

\* verify_h1_readiness with a provenance the caller wrote itself.
Claim ==
  /\ Collecting
  /\ receipt' = Disposition(TRUE, FALSE)
  /\ UNCHANGED <<attested, world, drifts, held, readings>>

\* attest_collected_live_readiness; what it was collected from is of no further use,
\* and the surroundings are followed no longer.
Attest ==
  /\ Collecting
  /\ Disposition(TRUE, TRUE) = "ReadyForOwnerGate"
  /\ attested' = TRUE /\ receipt' = "ReadyForOwnerGate"
  /\ world' = Sound /\ drifts' = 0 /\ readings' = NoReadings
  /\ UNCHANGED held

Next ==
  \/ Drift \/ ReadGithub \/ ReadLocal \/ ReadWorkflow \/ ReadAccess
  \/ Collect \/ Claim \/ Attest
  \/ TransactionNext /\ UNCHANGED collection

Spec == Init /\ [][Next]_vars

-----------------------------------------------------------------------------
\* Properties.

TypeOK ==
  /\ TransactionTypeOK
  /\ binding \subseteq BindingParts \cup {"filled"}
  /\ \A f \in Facts : world[f] \in Faults[f] \cup {Sound[f]}
  /\ drifts \in 0..MaxDrift /\ held \subseteq Facts
  /\ receipt \in {"none", "Blocked", "PassSynthetic", "ReadyForOwnerGate"}

\* A collection is complete only if everything it stands for was so at some time
\* while it was taken: unread, failed, foreign or stale-bound readings never add up.
ReadyWasTrue ==
  receipt \in {"PassSynthetic", "ReadyForOwnerGate"} => BindingValid /\ held = Facts

\* No transaction exists without the attestation of a live collection: a synthetic
\* collection and a receipt whose provenance was merely claimed never prepare one.
PreparedOnAttestation ==
  model # NoTransaction \/ saved # NoTransaction => receipt = "ReadyForOwnerGate" /\ attested

\* A binding that the offline check of the artifacts refuses, but for a placeholder in its
\* text, which it alone looks for, is never found ready by a collection.
OfflineAndLiveAgree ==
  receipt = "PassSynthetic" /\ drifts = 0 /\ "filled" \in binding
    => ArtifactsReady
================================================================================
