# A TLA+ verification project for RunnerMesh

RunnerMesh runs next to an official GitHub Actions self-hosted runner on a
Windows workstation and decides, second by second, whether the runner may be
given new jobs. It never stops or steers the runner itself: it puts one
reserved label (`runnermesh-admit`) on the exact runner registration at GitHub
or takes it off, and tells the user what it has achieved. This directory models
that behaviour in TLA+, model-checks it with TLC on small instances, and proves
the central properties with TLAPS for all values of the constants.

Paths below are relative to the repository; `admission.rs` is
`src/admission.rs` there (`src/src/admission.rs` in `PROJECT.json`, which gives
the lines of every definition).

## 1. The system

| Part | State it keeps | Operations | Hard behaviour |
|---|---|---|---|
| Admission controller and REST backend (`admission.rs`) | consecutive failures; the last `AdmissionControlSnapshot` is kept by the core | `reconcile`: observe, confirm, POST/DELETE, read back, publish; one observation is several pages | jobs and other administrators act between requests and between pages; replies are lost; requests land late; faults of every class |
| Policy (`policy.rs`) | none | `decide_admission` | precedence; unreadable evidence |
| Agent core and store (`agent.rs`) | configuration in memory and in `config.json`, observation, decision, admission snapshot | `new`, `observe_decide_reconcile`, commands | crash between file and memory; a save that fails after the replacement; a cycle that fails after the save |
| Runtime (`agent_runtime.rs`) | core mutex, exit flags, snapshot channel, positions of two threads | tray loop, pipe loop, `ExitAfterDrain` | two threads, one of which is a client of the other; shutdown |
| IPC (`ipc.rs`) | one pipe instance | `serve_once`, `IpcClient::call` | silent clients; dial timeout; lost and torn frames |
| Tray, CLI (`tray.rs`, `cli.rs`, `main.rs`) | last snapshot shown | menu action -> command | actions computed from an old snapshot |
| Presentation (`windows_tray_theme.rs`) | the hint of a menu item: window, timer, generation | menu selection, timer, deferred messages | a message of an earlier item arrives late; placement at the edges of the screen |
| Observers (`host.rs`, `probe.rs`, `runner_observer.rs`, `process_snapshot.rs`) | previous CPU sample | one reading each | readings are not atomic; two samples in one clock tick |
| Supervisor (`supervisor.rs`, `windows_supervisor.rs`, `host.rs` 214-370) | none, reconstructs | plan and apply: start, drain, stop, restart, adopt | an action fails half-way; ambiguous processes |
| Installation (`installation.rs`, `runtime_binding.rs`) | ledger, journal, activation record, versions, binding; uninstall journal and receipt; the autostart entry | install, select, bind, enable and disable autostart, uninstall, recover | crash between any two durable writes; foreign content |
| Update (`update.rs`) | update journal, receipt | stage, activate, roll back, reconcile | crash on either side of the switch; active work |
| Qualification (`qualification.rs`, `h1_live.rs`, `h1_artifact.rs`) | transaction record, checkpoint | collect evidence, apply, restore, resume | evidence read while it changes; a single automatic restore, resumed after a crash |
| Operator helper (`runnermesh-package.rs`, `package.rs`) | the extracted payload | verify, extract, install, bind, stop after drain | the payload changes after it was verified |
| Transport, credentials (`github_transport.rs`, `windows_github.rs`, `credential.rs`) | none | one exchange | their failures are inputs of the callers |

How they interact: the tray loop polls the core once a second; the core calls
the observers, the policy and the reconciler; the reconciler calls GitHub. A
click in the tray, like the command line, becomes a request on the Agent's own
named pipe, served by the pipe loop, which takes the same core mutex. Exit is a
flag both loops read. The helper, updates and uninstall work on the installation
from processes of their own, one call after the other. Everything but
`config.json` (and the installation's records) is reconstructed at start.

What has to be right:

* *admission*: no mutation without ownership, fresh consistent evidence and need;
  no claim the last reading does not bear out; convergence after any outage;
* *evidence*: what a reading of several requests or system calls concludes was so at
  some moment of it; no process is touched on less, and a runner with a job is drained
  before it is stopped or started again;
* *policy and core*: the decision always answers the current intent and
  observation; worse evidence never opens; acknowledged intent survives;
* *runtime and front ends*: nobody waits for what cannot come; exit only when drained;
  a click never acts on a snapshot older than the last answer;
* *installation, update, removal*: each crash leaves a state from which the same call
  completes; nothing is reported that did not happen; what is foreign stays;
* *qualification*: no transaction without true evidence, no pass without the whole
  sequence, no end without the baseline restored or the Owner called.

## 2. The modules

```
Capacity                         what one cycle may come to: the contract between
   |                             the controller and its callers
   +- AdmissionPromise           what admission promises, cycle by cycle (abstract)
   |     ^ refined by
   |  Admission     <- MCAdmission     controller + backend + GitHub, cut at each exchange
   |     ^ AdmissionProofs
   +- CoreView                   the core as the runtime sees it (abstract)
   |     ^ refined by
   |  AgentCore     <- MCAgentCore     AdmissionPolicy + config file, observers, crashes
   |     ^ AgentCoreProofs
   +- CoreView, extended by
      AgentRuntime               tray loop, pipe loop, clients, exit
         ^ AgentRuntimeProofs

RunnerScope, RunnerProcesses, Supervision
   ^ put side by side in
Evidence                         what the Agent reads, piece by piece, and what follows
   ^ EvidenceProofs

InstallationPromise              operations are atomic (abstract)
   ^ refined by                        ^ its effects are all that is seen of
Installation  <- MCInstallation     Deployed -> Update -> Uninstall -> Deployment
   ^ InstallationProofs                        ^ MCDeployment, DeploymentProofs

H1Transaction -> Qualification   the evidence and the transaction it admits
   ^ QualificationProofs

MenuHint -> Frontends            hints; tray, command line and helper on one pipe
Placement                        where a hint is shown
   ^ put side by side in
Surface
   ^ SurfaceProofs
```

**Capacity.** `Outcomes`: the label and the claim a cycle may leave behind, given what
it was asked for, the label it found, whether the Listener is online, a job is there, the
local evidence is consistent, and whether anything may fail. Controller, core and
runtime all use this one operator, so that what one promises is what the next relies on.

**AdmissionPromise.** The world (`label`, `late`, `job`, `online`, `sound`, `owned`,
`calm`), a `claim`, and the cycle that runs: the capacity it is to reach (`want`), whether
its local evidence is consistent (`trusted`) and the selector it began with (`start`,
"Unknown" as soon as anybody else acts). While a cycle runs only the selector moves, and
only to where the cycle was asked to move it; it ends in a claim only if that step sees
the evidence for it; and a cycle nobody came in between of ends in one of the
`Outcomes`. Everybody else may act at any time.

**Admission.** One `reconcile` cycle is `pc`: `idle -> observe -> confirm ->
mutate -> readback -> idle`; each arrow is one HTTP exchange. `cycle` holds the
arguments of `reconcile` and the first reading, `snapshot` and `failures` are the
published snapshot and the controller's counter. Readings fail with any error of
`Faults` or succeed and are classified (`ReadingError`); mutations are rejected,
acknowledged, or lost with the effect now or `late`. `SettledSnapshot`,
`FailedSnapshot` and `FailedAfterSnapshot` are the three ways the code builds a
snapshot, field by field. `start` is history: the selector a cycle began with, until
anybody else acts. The environment routes jobs to a labelled, online
runner, edits labels and registrations (`Interfere`), applies late mutations, and
may go quiet for good (`calm`), after which faults no longer occur.
`AdmissionControlSnapshot` is published as a whole, so a cycle's publication is
one step with its last reading: everything after the last response of a cycle is
computation on values already held.

**AdmissionPolicy.** The decision table over an evidence record. The code's five
tests of Auto Lite are one conjunction: they differ only in the reason code.

**AgentCore.** A command goes `saving -> saved -> updated`, the points between
which a crash leaves something different behind, and ends in the same `Cycle` as
the poll. The mutex of the runtime makes calls atomic with respect to one
another, so only crashes and changes of the workstation, the runner and GitHub
come between. `Reconcile` is one cycle of the controller by its `Outcomes`; of a
cycle that others come in between of Admission alone tells. `sample` is the age of the previous CPU sample, because two samples
in one clock tick yield none; `durable` is history: the configurations the file
may hold given what was answered so far.

**CoreView.** The core without its configuration, evidence, decision and file: of the
intent only whether it rules capacity out (Zen, Work, Gaming, Maintenance: "Closed"), the
label and the claim. A closed intent lets a cycle ask for nothing but "Drained"; evidence
can only take capacity away, so an open one lets it ask for either. A restart takes the
claim along.

**AgentRuntime.** CoreView with the threads around it: the core's actions are taken from
there, the runtime says which thread takes them and when. Its first state is that after
the cycle which `run_agent` completes before it starts the loops. Two threads by position (`tray`, `pipe`), the core mutex
(`lock`), the two exit flags, the snapshot channel and the process. `Poll` is a
critical section; a command is `LockForCommand` and one of `Report`, `SetMode`,
`ExitConfigured`, `ExitUnconfigured`, `CommandFails`. The tray thread is a client
of the pipe thread between `Click` and the reply.

**InstallationPromise.** What is `installed`, which version is `active`, which
`binding` is established, one `request` and its `reply`. An operation takes effect
in one step while it is asked for; "done" may be answered only when its effect is
there, "refused" only when it asks for what it may not have; it may fail or be
interrupted at any time. The effects on what is on `offer` (installed versions, the
selected one, the binding) have definitions of their own, which Deployment is held to.

**Installation.** The disk is one variable per file or directory: `ledger`,
`journal`, `staged` (the staging directory), `slots`, `current`, `stable` (the
Agent that autostart launches), `litter` (a temporary file in `bin/`), `anchor` (the
binding's file). `pc` is the position in a call and every step between two positions
is one durable change, so a kill may come between any two. `stage` says whether
the steps of recovery and of `finish_transaction`, which three callers share, run
while a call opens, for its own work, or to repair its own failure: what a failure
leads to differs (`Broken`, `Reconciled`). Contents are compared by digest in the
code, so a version stands for its slot, its Agent and its manifest, and a version is
offered with one content only: the refusal of the same version with other bytes
(`VersionConflict`) needs a second one and is left out. A replaced file changes at
once (`atomic_write` writes aside and renames); a created one does not
(`durable_create_new`), hence `TornJournal` and the torn anchor. The replacement's
temporary file matters in `bin/` only, the one directory whose exact content
`verify_state` checks. `Edit` is one change by somebody else, after which nothing is
promised but the types; the code's refusals of such roots are modelled all the same.

**RunnerScope.** One observation of the scope: `reading` holds the page that is next,
what was seen, and the first collection while a second is taken; `ReadPage` is one
request, of the runners in the order of their ids. Meanwhile runners register, leave,
and change labels and faces. `Classify` is `classify_exact_runner` on what was seen.
`asOf` and `steady` are history: the runners there were when the first collection
ended, and those that carried the label throughout. It is assumed that GitHub lists
runners by id and never gives an id twice; a holder that gives the label up and takes
it back between two pages escapes the code, and the property says so.

**RunnerProcesses.** One observation of the bound runner on its own host, by `at`:
metadata file, guards, process table, each image, what the images prove of the
identity, metadata, owners, guards again.
Meanwhile processes start and end, the runner is configured again, its directory is
damaged or another one put in its place. `witnessed` is history: what was so at some
moment of the reading.

**Supervision.** `SupervisorCore::reconcile` for every request and every observation:
the plan, its actions one at a time, each of which may fail; and, beside it, the
decision recovery takes on the same observation. `BusyIsDrainedFirst` is about every
action that ends or renews processes or connection (`Interrupts`), for every observation
that shows a job, by its phase or by its Worker, and names what the code does not give:
`RestartConnection` for a `Reconnect`, and a phase that denies the Worker. The
observations range over more than the observer can make, as the supervisor's interface
does.

**Evidence.** The three share no state; each behaviour is about one of them (`turn`).

**Deployed, Update, Uninstall, Deployment.** `Deployed` is the installation as its other
users see it, with `install` and `select_active` as whole steps, which is what
Installation implements; a call that fails may or may not have taken effect. `Update`
adds `journal` and `receipt`, `Uninstall` the uninstall journal `plan`, the place of each
owned piece, the receipt `done`, the `detached` root and the autostart entry,
`Deployment` the operator helper with the extracted payload, kills (`CutShort`) and what
others do on the same account: select a version beside an update, put files into the
root, use the autostart name, empty the root, change the extracted payload. `pc` is the
position in a call and every step between two positions is one durable change.
`OfferChangesWhole` relates the whole to InstallationPromise: what is on offer while no
removal is under way changes by one `Effect` of it at a time, or is withdrawn as a whole
by the first step of a removal.

**H1Transaction, Qualification.** `H1Transaction` has an action per event of
`H1TransactionModel::apply`, the checkpoint that is saved, lost and resumed, and
`IsValid`; `Qualification` adds the collection of evidence: four readings, one after the
other, of surroundings that change in between, the verdicts combined from them, the
receipt and the attestation without which no transaction is prepared.

**MenuHint, Frontends, Placement, Surface.** `MenuHint` is the hint of a menu item: the
item under the cursor, the timer, the messages on their way and the generation that
tells old ones from new ones. `Frontends` adds the tray with its channel of snapshots and its
polls, a second program (command line or helper) with its request and answer on the
pipe, lost answers and torn frames, and which command a click stands for. `Placement`
is the choice of a place for a hint as operators over coordinates. Either is one turn
of `Surface`.

Definitions whose comment starts with "Defective variant" are not part of the
model. They are plausible mistakes in the operator that follows them; for every
checked property one of them, put in place of the operator, violates it.

## 3. The runs

| Run | Properties | Distinct states | Bounds |
|---|---|---|---|
| `Admission_safety` | `MutationIsJustified` `PublicationJustified` `ExhaustedStaysExhausted` `KeepsPromise` | 1,097,440 | a transient fault with a delay, a permanent one with lost replies, a collision drift, 1 retry, counter ceiling 3 |
| `Admission_converges` | `CapacityConverges` | 437,400 | one transient fault with lost replies, no drift |
| `AgentCore_intent` | `DecisionIsCurrent` `AcceptedSurvives` `IntentReached` `KeepsView` | 200,826 | the commands Work, Zen on and Zen off; two probes that stay quiet |
| `AgentCore_evidence` | `OpensOnFreshEvidence` `WorseEvidenceNeverOpens` | 635,472 | Auto mode; both probes change, one is switched on and off |
| `AgentRuntime_threads` | `NobodyWaitsInVain` `ExitNeedsDrained` `CommandsAreAnswered` `TrayCatchesUp` `DrainEndsInExit` | 103,176 | with and without a binding, all four requests, silent clients, channel of 2 |
| `AgentRuntime_shutdown`, `_alive` (violations) | `ShutdownCompletes`, `AliveUntilDrained` | | one client |
| `Evidence_readings` | `ReadingIsASnapshot` `PermanentHolderIsSeen` `ConsistentWasOurs` `IdleWasIdle` `BusyIsDrainedFirst` `OfferedIsAdopted` | 1,675,307 | 4 runner ids, pages of 1, at most 3 pages, 3 changes per reading; every observation, request and failure of the supervisor |
| `Installation_crashes` | `EntryIsInstalled` `DriftHasACause` `OperationsAreAtomic` | 145,926 | two versions, two bindings, any number of calls, kills and failures, one edit |
| `Deployment_lifecycle` | `RecordsAreTrue` `AutostartLaunches` `AnswersHaveACause` `ForeignIsKept` `OnlyAcceptedPayloads` `OfferChangesWhole` | 1,232,710 | two versions, two payloads (interchangeable), any number of calls, kills and changes by others |
| `Qualification_h1` | `ReadyWasTrue` `OfflineAndLiveAgree` `PassNeedsTheSequence` `RestoredOrHandedOver` `CheckpointsResume` | 220,952 | one change of the surroundings while evidence is collected; any sequence of events, crashes and resumptions |
| `Surface_frontends` | `HintIsCurrent` `ClicksDoNotGoBack` `PrintedWasRun` `HintIsPlacedWell` | 3,528,409 | 3 commands, 3 moves of the cursor; a screen of 6 by 5, sizes up to 2, gaps 0 and 1 |

`RecordsAreTrue` is `JournalIsTrue` (an update's journal) and `ReceiptFollowsJournal`;
`AnswersHaveACause` is `DriftIsForeign` (a reconciliation) and `RefusalHasACause` (a
removal). *Type invariants* are not among the runs' properties: every module's is a
theorem (section 4).

*Why the bounds are enough.* The controller's behaviour depends on errors only through
`is_transient`, `is_refusal`, the retry delay and the two drift groups, so one
representative of each suffices; `MaxAttempts` and the ceiling need only be small and
different, so that streaks below, at and beyond both occur. One runner and one job slot
are the real system: a binding names one runner and a runner runs one job. In AgentCore
two probes are the smallest set in which the input probe and another disagree; the idle
times are one below and one above the threshold. The intents of `AgentCore_intent` are
those that want opposite capacities and one that overrides the other and can be taken
back; commands that only change the threshold or the presentation are in the model and
in its theorems, and in no run. `MaxQueued` bounds the snapshots in the channel, in the
code an unbounded `mpsc::channel`: a client or a click is held back while the channel
could not take its snapshot, and 2 lets one wait while another is produced, the case in
which an older one is shown after a newer one. In RunnerScope pages of one runner make
every boundary between two runners a page boundary, four ids let a runner come while
another goes, and three pages let a reading be given up; three changes are enough for a
runner to leave before it is read, another to take its place in the list, and the label
to move between them (the theorems have no such bounds). In Installation and Deployment
two versions are the smallest set in which one is active while the other is installed,
selected or undone; a third would only be another bystander. In Installation a second
edit shows nothing the first does not, since all promises end with it. In Qualification
a collection is false when one fact changes between its reading and the verdict, and the
initial states already have every single fact false; two facts that make up for one
another do not exist, since every check is a conjunction. In Surface three commands are
one of each front end, three moves lead to an item, away and back. Screens only matter
by whether a hint fits beside, above, below or not at all, which all occur with the
sizes given; the theorem has no such bound. Nothing else is bounded.

*Deadlock* is checked except in the AgentRuntime runs, where the process exits, in
`Qualification_h1`, where a transaction ends, in `Evidence_readings`, where a reading
does, and in `Surface_frontends`, where commands and moves are used up.

*Fairness.* `Admission`: weak fairness of the Agent's steps (the loop comes round
every second, every request is answered or times out, `github_transport.rs:13`)
and of job progress (jobs end). `AgentCore`: weak fairness of the Agent's steps,
of the clock, and of jobs ending. Nothing is assumed of crashes, users, other
administrators or the Listener; liveness is claimed only after `calm`, and the
Listener must run where that matters. `AgentRuntime`: weak fairness of each
thread, the clock and jobs, and strong fairness of the two lock acquisitions: a
Windows mutex (SRW lock) does not starve a waiter for ever while the holder
releases it every second and sleeps. A silent client need not ever leave, a
click need not ever come. The other modules state safety only: their calls are made by
a person or a script, and nothing in the code makes anyone call again.

### What the violation runs show

Each states what a comment says and finds it violated by what the code does;
`PROJECT.json` quotes the line.

1. `AgentRuntime_shutdown`: after an exit decided by the poll the pipe thread is
   still waiting for a client, and the main thread waits for the pipe thread.
2. `AgentRuntime_alive`: a click that cannot reach the busy pipe in two seconds
   ends the tray loop and the Agent, drained or not.

## 4. The proofs

All theorems hold for every value of the constants that satisfies the named
assumptions (`RetryAssumption`, `FaultAssumption`, `CoreAssumption`,
`RuntimeAssumption`, `InstallationAssumption`, `DeployedAssumption`,
`ScopeAssumption`, `BoundAssumption`, `MaxDriftAssumption`, and those of `Frontends` and `Placement`),
which TLC evaluates in the runs.

**AdmissionProofs.** `IInv` is `TypeOK`, `MutationIsJustified`, and facts about the
snapshot that is on display: without them the action properties are not inductive,
because they compare the published snapshot with the failure counter.
`PublicationsJustified` needs that a publication is computed from the reading of
its own step; `ExhaustionIsFinal` that an attempt number of zero means the counter
is beyond `MaxAttempts` while the streak lasts. `ImplementsPromise` maps
`sound` to "no drift", `claim` to the achieved state of the snapshot and `want` to the
capacity in `cycle`. That a claim is justified follows from the step that publishes it;
that an undisturbed cycle ends in one of the `Outcomes` does not, because it depends on
every exchange since the cycle began. `CycleInv` carries that along: as long as `start`
is known the job that was observed is the one there is, the selector is the one the
cycle began with until the mutation and that or the wanted one after it, a cycle that
confirmed has read it right, and in calm surroundings the readback can only find the
wanted one (`Undisturbed`); between two cycles nothing is remembered (`BetweenCycles`);
calm surroundings are sound ones (`CalmIsSound`). `SettlingSettles` and `FailingLeaves`
then compare the two kinds of end, a reading that found the wanted selector and a cycle
that failed, with `Outcomes`; `PromiseStep` takes the rest action by action.

**AgentCoreProofs.** `IInv` adds to `TypeOK` and `DecisionIsCurrent` what the file
holds at each point of a command (`Recorded`): before the replacement what it held,
after it what the command makes of the memory, after the update what the memory
holds. Only so is the acknowledgement, which comes last, known to be about what is
on disk. `PolicyMonotone` is a lemma about the policy alone;
`PermissionIsMonotone` applies it to the decisions before and after a step, both
current by the invariant. `OpensOnlyOnFreshEvidence` follows the two ways a cycle
runs. `ImplementsView` maps the configuration to what is seen of it. It rests on
`ClosedDenies` (the policy denies under a closed intent whatever the evidence), on
`Hosted` (there is a job only where the Listener runs, without which a change of the
surroundings could look like the end of a job), and on `CycleSeen`; saving, observing and
all that touches memory without label and claim is hidden (`HiddenStep`).

**AgentRuntimeProofs.** `IInv` adds to `TypeOK` and `NobodyWaitsInVain` that the
channel has room for what is under way (`Room`: the bound is on clients and clicks,
not on `Finish`, so `TypeOK` alone is not inductive) and that an Agent without a
binding has no claim to start from (`Unclaimed`). `NoVainWait` is then immediate;
`ExitOnlyWhenDrained` rests on `CycleDrained`, what a cycle that claims DRAINED has
found, in the two steps that may raise the flag; `AuthorityRespected` on
`CycleUnconfigured`. `CoreUsedAsOffered` says that every step of the threads is a step of
CoreView or leaves it alone. With `ImplementsView` and, below it, `ImplementsPromise`
the three levels fit together: what the runtime assumes of the core the core implements,
with what it assumes of an undisturbed cycle, which the controller implements.

**InstallationProofs.** `EntryIsInstalled` and `DriftHasACause` are far from
inductive: they speak of what a call will find, which depends on every step before.
`IInv` adds the two forms a root with a journal can have (`DiskShape`): `Unmoved`,
nothing but the staging directory has changed, and `Moved`, the slot is in place and
each of ledger, current.json and entry is the old or the new one; what the journal
records (`Planned`); how far the call has come (`Progress`, which is what recovery
rediscovers); that a call's own journal is about its own operation (`Own`); and where
a call can be (`CallShape`). All but types and `CallShape` are claimed only until
somebody edits the root (`Known`). `EntryAlwaysInstalled` and `DriftAlwaysCaused`
follow from the forms alone. `ImplementsPromise` maps what is installed to what the
next call will settle on (`Settled`): the moment an installation takes effect is the
`SlotReady` mark, a selection the writing of its journal, a binding its ledger entry;
every other step maps to an answer, a question, an interruption or a stutter.

**DeploymentProofs.** `DInv` adds to `TypeOK` what an update and a removal have come to.
`RecordsAreTrueHolds` and `AnswersHaveACauseHolds` read the four parts off it.
`JournalIsTrue` is not inductive: that a switched update is the active version, that a
rollback is recorded only after it was done, that a slot holds the staged payload, all
depend on the position of the call (`UpdatePosition`), and a kill leaves the position
behind but not the files, so `Truthful` has to hold at every position. `RemovalInv`
relates the journal of a removal to the pieces that are still at home, aside or gone,
and to the autostart entry, which must have gone before the first piece moves;
`RemovalPosition` says which phase each position of a removal belongs to. Three lemmas
take the actions of updates, removals and others one by one, each conjunct of the
invariant in a step of its own. `ForeignIsKept` and `OnlyAcceptedPayloads` are action
properties that follow from the invariant and the few actions that touch the root, the
entry or the slots. `OfferChangesWholeHolds` needs `OfferInv` beside it: the active version
has a slot, a root without an active version has none filled, and no binding outlives
the root. `Touch` sorts all the actions by what they do to the offer (fill a slot,
choose a version, bind, withdraw, remove, leave it alone), and each kind is compared with
the promise once. `ActiveIsInstalled` is the part of `OfferInv` a reader wants to know.

**EvidenceProofs.** `ReadInv` says of a reading of processes that whatever was read up
to now was so (`witnessed`), and why the Worker was not seen if it was not: it was
idle at some moment, or nothing at all was seen. `ScopeInv` is about the pages: an entry
of a runner that has carried the label ever since shows it, and (`SecondInv`) what the
second collection has in common with the first was registered between the two, because
no id is given twice, while the first counted as many runners as there were then. So a
second collection equal to the first names exactly the runners of that moment
(`Counted`), for any number of runners, pages and changes; where the pages are cut does
not matter. `BusyInv` lists, for a phase that does not deny the Worker, what
may have been applied and what may be pending, and `Reconnecting` that only a Reconnect
plans to restart the connection. `EvidenceTypeCorrect` has an invariant of its own, about the lengths of
collections and plans: a collection stops at `MaxPages`, a plan has at most three
actions, of which each is either pending or applied.

**QualificationProofs.** `TransactionInv` says what a checkpoint of this code's own making
is like (`WellFormed`), in memory and on disk, and that the two agree on a verdict that
was written down; one step per event. `SequenceInv` adds what a transaction in a phase
has been through and that a running controller is never behind its checkpoint, from which
`PassNeedsTheSequence` follows. `CollectionInv` says that every reading that speaks for
the binding was so when it was made (`ReadingsInv`); `NotBlockedWasTrue` takes the
verdict apart into those readings. `QualificationTypeCorrect` takes the events
together by what they add to the history (`EventRecordsPhase`).

**SurfaceProofs.** `SurfaceInv` is about whichever is looked at: `FrontInv` relates the
tray's snapshot to those in its channel and to the command under way, the hint to the
item under the cursor through the messages that are still current, and the answer of
the second program to the command that was run; `PlacementInv` says that what was placed
is the choice of the operators, about which `PlacedFacts` is a lemma of arithmetic.

Every safety property of the runs is a theorem, the refinements included. Only
model-checked is liveness under fairness (`CapacityConverges`, `IntentReached`, `CommandsAreAnswered`, `TrayCatchesUp`,
`DrainEndsInExit`), which is out of the prover's reach.

## 5. What is not modelled

* *GitHub transport and credentials*: one HTTP exchange or one look-up per call, with no
  state of its own; its outcomes are the fault sets of the callers.
* *Development tooling, quality gates, the admission linearization test*: not part of
  the product, or without state.
* *Creation of archives*, which is a function of release files; drawing, colours, fonts,
  theme and DPI changes (`windows_preferences.rs`); access control of the pipe; formats.
* `AgentRuntime` leaves out failures of rendering and of evidence files (which end
  the tray loop like a failed dial) and development controls.
* `AgentCore` leaves out a configuration file that cannot be read at start: the
  process then does not come up at all. Clients' reads change nothing.
* `Installation` and `Uninstall` leave out the checks of paths, reparse points and guards
  (each is a refusal the models already allow), and the staging directory beside the root
  in which a new root is prepared (a kill leaves it there, and nothing looks at it again).
  In `Deployment` a torn archive at its final name, which blocks its creation but
  nothing else, is left out.
* `RunnerProcesses` assumes that a process of the current user can be opened, with its
  path read or not, and leaves out a directory that is swapped away and back during one
  reading. A Worker of another account that cannot be opened goes unseen.
* `Surface` has one program besides the tray at a time, lets the Agent end at any time
  (`AgentRuntime` says when it does), and takes `PostMessage` to succeed.

### Observations

Met on the way; no run is about them, mostly because nothing in the repository promises
otherwise.

*Admission and evidence.* Retry directives are published and never obeyed, polling goes
on every second however many failures there were; after an authentication failure the
next cycle tries again without a limit. With the Listener stopped the identity cannot be
verified and the controller only observes, so accepting Work leaves the label on GitHub
until it runs again; for the same reason the OFFLINE achieved state cannot be reached
with an exact binding, and DRAINED is never published, so that exit after drain waits
for the Listener although `docs/v0.1-release-operations.md` lines 126-128 only names the
selector and the Worker. An unowned binding whose label is absent publishes ownership as
verified; a DELETE of an absent label reads as a missing runner for one cycle. A process
table that cannot be read counts as an empty one: phase Stopped, identity Unknown. The
supervisor answers `EnsureStopped` with Noop only when Listener and Worker are both
absent, `EnsureDrained` on the phase alone, before it looks at ownership; its `Adopt`
looks at neither the runner home nor the phase, which recovery does. `Reconnect` restarts
the connection of a busy runner without a drain (`supervisor.rs:195-196`), and nothing
says what becomes of its job. An owned Worker observed in the phase Listening or Stopped
does not count, the plan follows the phase: `EnsureStopped` stops such a runner at once
(`supervisor.rs:171`). `derive_phase` (`runner_observer.rs`) makes no such observation,
and outside of tests nothing in the repository gives the supervisor one.

*Core and runtime.* Every command observes again: within one clock tick of the poll
there is no CPU reading (`host.rs:123`), hard safety is Unknown and even a change of
theme withdraws capacity until the next poll (`agent.rs:367`), although
`docs/v0.1-design-freeze.md` line 269 keeps presentation out of admission. The
configured idle threshold is stored and shown, the input probe keeps the 300 seconds it
was constructed with (`agent_runtime.rs:916`). `after_drain` is never cleared by a later
intent, so switching back to Idle and later to Work exits; a pipe thread that already
waits for a client when the flag goes up serves one more command, which may put the
label back on (`agent_runtime.rs:265`). A command can be saved and then fail: the client
hears of a failure and nothing is sent to the tray. A click computes its toggle from the
snapshot it finds when it is processed, so a click on a menu that showed Zen off may
switch it off again when a poll brought somebody else's change first; a snapshot drained
from the channel can be older than the one polled in the same round, until the next
poll. `request_stop_after_drain` checks the provenance in one call and asks for the exit
in the next, so a foreign Agent that takes over the pipe in between is told to stop;
what is reported is right.

*Installation and removal.* A process killed after `durable_create_new` has created a
journal (`installation.rs:2241`) and before it has written it leaves a file that does
not parse, which every later call refuses although `docs/v0.1-release-operations.md`
lines 134-136 promises reconciliation; the same holds of a temporary file in `bin/` and
of a binding file without its ledger entry (`DriftHasACause` says that there is no
fourth), and of the uninstall journal (`AnswersHaveACause`). A kill after the uninstall
journal is gone (`installation.rs:625`), or a later removal of the extra files, leaves a
root that answers `foreign_content_preserved` for ever and refuses to be installed
again; a kill inside `remove_dir_all` leaves a detached root that is refused for ever,
and so does a new installation beside a detached root. The Agent's settings and the
update journal in the state directory keep the root from being removed. A foreign
autostart entry stops a removal half-way: its journal stays, and every other call
answers that an uninstall is in progress. On Windows the rename of `install_exact`
replaces an entry that appeared after the check, although `installation.rs:1333` says
"Creation is create-new only". `activate` records DeferredForActiveJob
(`update.rs:259-267`) also when the requested version is already active after a kill.

*Qualification.* A condition that is lost while restoring goes back to RestorePending
with the attempt marked, a checkpoint `is_valid` (`qualification.rs:573-577`) refuses,
so that the transaction cannot be resumed if the process is then lost, although
`docs/qualification/h1-readiness-contract.md` line 120 wants the durable state to resume
an exact restore or to refuse it into Owner recovery. `CheckpointsResume` says that
there is no other such checkpoint.

## 6. What could follow

The plan of this project is done: admission, core, runtime, installation, update and
removal, evidence, qualification and front ends are modelled, checked and proved. What
remains is smaller: the core with cycles that others come in between of, of which only
Admission and its promise speak; the failures of rendering and evidence files in `AgentRuntime`; a
torn archive; the content conflict of one version offered with other bytes in
`Installation`; what `train.py` keeps between its steps, should it become part of the
product.

## 7. Running it

```
tlc -workers 2 -config AgentCore_intent.cfg MCAgentCore
tlapm AgentCoreProofs.tla
```
`PROJECT.json` names the module of every run: the runs of Admission, AgentCore,
Installation and Deployment use the MC module, the others the module itself.
