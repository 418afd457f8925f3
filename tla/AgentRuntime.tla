------------------------------ MODULE AgentRuntime ------------------------------
(***************************************************************************)
(* The two threads of a running Agent, run_agent of src/src/               *)
(* agent_runtime.rs: the tray loop that polls the core and turns clicks    *)
(* into requests on the Agent's own pipe, and the pipe loop of             *)
(* spawn_pipe_loop and IpcServer::serve_once that serves one client at a   *)
(* time.  They share the core's mutex, two exit flags and a channel of     *)
(* snapshots.  The core and the runner are those of CoreView.              *)
(***************************************************************************)
EXTENDS CoreView, Integers, Sequences

CONSTANTS
  Authorities,    \* whether a runtime binding may give the Agent selector authority
  Requests,       \* what clients ask for
  Clients,        \* kinds of pipe clients: "cli", and "mute" ones that send nothing
  MaxQueued       \* bound: snapshots that may wait in the channel

ASSUME RuntimeAssumption ==
  /\ Authorities \subseteq BOOLEAN
  /\ Requests \subseteq {"GetSnapshot", "SetModeWork", "SetModeIdle", "ExitAfterDrain"}
  /\ Clients \subseteq {"cli", "mute"}
  /\ MaxQueued \in Nat \ {0}

VARIABLES
  lock,        \* who holds the core mutex
  tray,        \* position in run_native_tray_loop
  due,         \* a second has passed since the last poll
  shown,       \* the claim the tray renders
  pipe,        \* position in the pipe loop
  client,      \* whom serve_once is connected to
  command,     \* what that client asks for
  channel,     \* snapshots sent to the tray
  requested,   \* RuntimeExitState.requested
  afterDrain,  \* RuntimeExitState.after_drain
  process      \* "running", "joining" the pipe thread, or "exited"

remote == <<label, runner>>
trayVars == <<tray, due, shown>>
pipeVars == <<pipe, client, command>>
exit == <<requested, afterDrain, process>>
threads == <<lock, trayVars, pipeVars, channel, exit>>
vars == <<remote, core, threads>>

TypeOK ==
  /\ label \in BOOLEAN /\ job \in BOOLEAN /\ listener \in BOOLEAN /\ calm \in BOOLEAN
  /\ configured \in Authorities /\ intent \in Intents /\ claim \in Claims
  /\ lock \in {"free", "tray", "pipe"}
  /\ tray \in {"top", "locking", "polling", "draining", "clicking", "dialling",
               "awaiting", "ended"}
  /\ due \in BOOLEAN /\ shown \in Claims
  /\ pipe \in {"checking", "listening", "reading", "locking", "handling", "ended"}
  /\ client \in {"none", "tray"} \cup Clients
  /\ command \in Requests \cup {"none"}
  /\ channel \in Seq(Claims) /\ Len(channel) <= MaxQueued
  /\ requested \in BOOLEAN /\ afterDrain \in BOOLEAN
  /\ process \in {"running", "joining", "exited"}

-----------------------------------------------------------------------------
Drained == claim' = "DRAINED"

-----------------------------------------------------------------------------
\* run_agent has completed a first cycle before it starts the loops.
Init ==
  /\ listener \in BOOLEAN /\ job \in {FALSE, listener} /\ calm = FALSE
  /\ configured \in Authorities /\ intent \in Intents
  /\ \E want \in Permitted(intent), before \in BOOLEAN :
       \E r \in Outcomes(want, before, listener, job, configured /\ listener, calm) :
         label = r.label /\ claim = r.claim
  /\ lock = "free"
  /\ tray = "top" /\ due = FALSE /\ shown = claim
  /\ pipe = "checking" /\ client = "none" /\ command = "none"
  /\ channel = <<>>
  /\ requested = FALSE /\ afterDrain = FALSE /\ process = "running"

-----------------------------------------------------------------------------
\* The tray loop.

LeaveLoop ==
  /\ tray = "top" /\ requested
  /\ tray' = "ended"
  /\ UNCHANGED <<remote, core, lock, due, shown, pipeVars, channel, exit>>

GoPolling ==
  /\ tray = "top" /\ ~requested /\ due
  /\ tray' = "locking"
  /\ UNCHANGED <<remote, core, lock, due, shown, pipeVars, channel, exit>>

SkipPolling ==
  /\ tray = "top" /\ ~requested /\ ~due
  /\ tray' = "draining"
  /\ UNCHANGED <<remote, core, lock, due, shown, pipeVars, channel, exit>>

LockForPoll ==
  /\ tray = "locking" /\ lock = "free"
  /\ lock' = "tray" /\ tray' = "polling"
  /\ UNCHANGED <<remote, core, due, shown, pipeVars, channel, exit>>

\* Defective variant: the exit test looks at the snapshot shown before.
PollStale ==
  /\ tray = "polling"
  /\ PollCore
  /\ shown' = claim'
  /\ requested' = (requested \/ (afterDrain /\ shown = "DRAINED"))
  /\ due' = FALSE /\ lock' = "free" /\ tray' = "draining"
  /\ UNCHANGED <<pipeVars, channel, afterDrain, process>>

\* Defective variant: the guard of the core outlives the poll.
PollHolding ==
  /\ tray = "polling"
  /\ PollCore
  /\ shown' = claim'
  /\ requested' = (requested \/ (afterDrain /\ Drained))
  /\ due' = FALSE /\ lock' = lock /\ tray' = "draining"
  /\ UNCHANGED <<pipeVars, channel, afterDrain, process>>

\* Defective variant: only commands have their outcome shown.
PollUnshown ==
  /\ tray = "polling"
  /\ PollCore
  /\ requested' = (requested \/ (afterDrain /\ Drained))
  /\ due' = FALSE /\ lock' = "free" /\ tray' = "draining"
  /\ UNCHANGED <<shown, pipeVars, channel, afterDrain, process>>

\* Defective variant: only the command itself may find the runner drained.
PollForgetsExit ==
  /\ tray = "polling"
  /\ PollCore
  /\ shown' = claim'
  /\ due' = FALSE /\ lock' = "free" /\ tray' = "draining"
  /\ UNCHANGED <<pipeVars, channel, exit>>

\* The cycle, the rendering and the exit test all happen under the lock.
Poll ==
  /\ tray = "polling"
  /\ PollCore
  /\ shown' = claim'
  /\ requested' = (requested \/ (afterDrain /\ Drained))
  /\ due' = FALSE /\ lock' = "free" /\ tray' = "draining"
  /\ UNCHANGED <<pipeVars, channel, afterDrain, process>>

PollFails ==
  /\ tray = "polling" /\ ~calm
  /\ due' = FALSE /\ lock' = "free" /\ tray' = "draining"
  /\ UNCHANGED <<remote, core, shown, pipeVars, channel, exit>>

TakeSnapshot ==
  /\ tray = "draining" /\ channel # <<>>
  /\ shown' = Head(channel) /\ channel' = Tail(channel)
  /\ UNCHANGED <<remote, core, lock, tray, due, pipeVars, exit>>

SnapshotsTaken ==
  /\ tray = "draining" /\ channel = <<>>
  /\ tray' = "clicking"
  /\ UNCHANGED <<remote, core, lock, due, shown, pipeVars, channel, exit>>

NoClick ==
  /\ tray = "clicking"
  /\ tray' = "top"
  /\ UNCHANGED <<remote, core, lock, due, shown, pipeVars, channel, exit>>

\* The user picks a menu entry; the tray thread starts to dial its own pipe.
Click ==
  /\ tray = "clicking" /\ ~calm /\ Len(channel) + 1 < MaxQueued
  /\ tray' = "dialling"
  /\ UNCHANGED <<remote, core, lock, due, shown, pipeVars, channel, exit>>

TrayConnects ==
  /\ tray = "dialling" /\ pipe = "listening"
  /\ tray' = "awaiting" /\ pipe' = "reading" /\ client' = "tray"
  /\ command' \in Requests
  /\ UNCHANGED <<remote, core, lock, due, shown, channel, exit>>

\* connect_pipe gives up after two seconds in which the only pipe instance was
\* taken: by a request waiting for GitHub (30 s) or by a client that is silent.
\* The error leaves run_native_tray_loop.
DialTimesOut ==
  /\ tray = "dialling"
  /\ pipe \in {"handling", "ended"} \/ (pipe = "reading" /\ client = "mute")
  /\ tray' = "ended"
  /\ UNCHANGED <<remote, core, lock, due, shown, pipeVars, channel, exit>>

\* run_agent after the tray loop, however it ended.
StartJoining ==
  /\ tray = "ended" /\ process = "running"
  /\ requested' = TRUE /\ process' = "joining"
  /\ UNCHANGED <<remote, core, lock, trayVars, pipeVars, channel, afterDrain>>

Joined ==
  /\ process = "joining" /\ pipe = "ended"
  /\ process' = "exited"
  /\ UNCHANGED <<remote, core, lock, trayVars, pipeVars, channel, requested, afterDrain>>

TrayStep ==
  \/ LeaveLoop \/ GoPolling \/ SkipPolling \/ LockForPoll \/ Poll \/ PollFails
  \/ TakeSnapshot \/ SnapshotsTaken \/ NoClick \/ TrayConnects \/ DialTimesOut
  \/ StartJoining \/ Joined

-----------------------------------------------------------------------------
\* The pipe loop.

EndPipe ==
  /\ pipe = "checking" /\ requested
  /\ pipe' = "ended"
  /\ UNCHANGED <<remote, core, lock, trayVars, client, command, channel, exit>>

Listen ==
  /\ pipe = "checking" /\ ~requested
  /\ pipe' = "listening"
  /\ UNCHANGED <<remote, core, lock, trayVars, client, command, channel, exit>>

ReadFrame ==
  /\ pipe = "reading" /\ client \in {"tray", "cli"}
  /\ pipe' = "locking"
  /\ UNCHANGED <<remote, core, lock, trayVars, client, command, channel, exit>>

LockForCommand ==
  /\ pipe = "locking" /\ lock = "free"
  /\ lock' = "pipe" /\ pipe' = "handling"
  /\ UNCHANGED <<remote, core, trayVars, client, command, channel, exit>>

\* The receiver is gone once the tray loop has returned.
Sent(snapshots) == IF tray = "ended" THEN channel ELSE channel \o snapshots

\* The reply ends the connection; the tray, if it was the client, goes on with
\* its next click.
Finish(snapshots) ==
  /\ channel' = Sent(snapshots)
  /\ lock' = "free" /\ pipe' = "checking" /\ client' = "none" /\ command' = "none"
  /\ tray' = IF client = "tray" THEN "clicking" ELSE tray
  /\ shown' = IF client = "tray" /\ snapshots # <<>> THEN Head(snapshots) ELSE shown

Handling(c) == pipe = "handling" /\ command = c

Report ==
  /\ Handling("GetSnapshot")
  /\ Finish(<<claim>>)
  /\ UNCHANGED <<remote, core, due, exit>>

SetMode ==
  /\ \/ Handling("SetModeWork") /\ intent' = "Closed"
     \/ Handling("SetModeIdle") /\ intent' = "Open"
  /\ Cycle(intent')
  /\ Finish(<<claim'>>)
  /\ UNCHANGED <<runner, due, exit>>

\* Without selector authority only the Agent is to go.
ExitUnconfigured ==
  /\ Handling("ExitAfterDrain") /\ ~configured
  /\ requested' = TRUE
  /\ Finish(<<claim>>)
  /\ UNCHANGED <<remote, core, due, afterDrain, process>>

ExitConfigured ==
  /\ Handling("ExitAfterDrain") /\ configured
  /\ intent' = "Closed"
  /\ Cycle(intent')
  /\ afterDrain' = TRUE
  /\ requested' = (requested \/ Drained)
  /\ Finish(<<claim'>>)
  /\ UNCHANGED <<runner, due, process>>

\* handle_command fails: in the configuration file, or after it, in the cycle.
CommandFails ==
  /\ pipe = "handling" /\ command # "GetSnapshot" /\ ~calm
  /\ command = "ExitAfterDrain" => configured
  /\ \/ intent' = intent
     \/ intent' = IF command = "SetModeIdle" THEN "Open" ELSE "Closed"
  /\ claim' = claim
  /\ Finish(<<>>)
  /\ UNCHANGED <<remote, due, exit>>

PipeStep ==
  \/ EndPipe \/ Listen \/ ReadFrame \/ LockForCommand
  \/ Report \/ SetMode \/ ExitUnconfigured \/ ExitConfigured \/ CommandFails

-----------------------------------------------------------------------------
\* Clients of the pipe, time, the runner.

ClientConnects ==
  /\ pipe = "listening" /\ ~calm
  /\ tray = "ended" \/ Len(channel) + 1 < MaxQueued
  /\ \/ "cli" \in Clients /\ client' = "cli" /\ command' \in Requests
     \/ "mute" \in Clients /\ client' = "mute" /\ command' = "none"
  /\ pipe' = "reading"
  /\ UNCHANGED <<remote, core, lock, trayVars, channel, exit>>

\* A broken frame, a version mismatch or a closed pipe ends the connection.
ClientLeaves ==
  /\ pipe = "reading" /\ client = "mute"
  /\ pipe' = "checking" /\ client' = "none"
  /\ UNCHANGED <<remote, core, lock, trayVars, command, channel, exit>>

SecondPasses ==
  /\ ~due
  /\ due' = TRUE
  /\ UNCHANGED <<remote, core, lock, tray, shown, pipeVars, channel, exit>>

JobStarts == StartJob /\ UNCHANGED threads
JobEnds == EndJob /\ UNCHANGED threads
ListenerChanges == ChangeListener /\ UNCHANGED threads
Quieten == CalmDown /\ UNCHANGED threads

Next ==
  \/ TrayStep \/ Click \/ PipeStep
  \/ ClientConnects \/ ClientLeaves
  \/ SecondPasses \/ JobStarts \/ JobEnds \/ ListenerChanges \/ Quieten

Spec == Init /\ [][Next]_vars

\* Each thread runs when it can, the mutex is handed over, time passes, jobs end.
FairSpec ==
  /\ Spec
  /\ WF_vars(TrayStep) /\ WF_vars(PipeStep)
  /\ SF_vars(LockForPoll) /\ SF_vars(LockForCommand)
  /\ WF_vars(SecondPasses) /\ WF_vars(JobEnds)

-----------------------------------------------------------------------------
\* Properties.

\* With selector authority the exit flag is raised, from either thread, only in
\* a step whose own readback claims DRAINED: the selector is absent and no
\* Worker is active at that very moment.  A snapshot taken earlier is not enough,
\* because the other thread may have advertised again since.
ExitNeedsDrained ==
  [][(configured /\ ~requested /\ requested' /\ tray # "ended")
       => claim' = "DRAINED" /\ ~label' /\ ~job']_vars

\* Nobody waits for what cannot come: a tray thread that awaits a reply is the
\* client of a pipe thread that is at work for it, the core is locked only by a
\* thread that is inside a call on it, and the tray awaits nothing while it
\* holds the core.
NobodyWaitsInVain ==
  /\ tray = "awaiting" <=> client = "tray"
  /\ client # "none" <=> pipe \in {"reading", "locking", "handling"}
  /\ lock = "tray" <=> tray = "polling"
  /\ lock = "pipe" <=> pipe = "handling"

\* Without selector authority the Agent claims nothing and leaves the label to
\* whoever manages it.
NoAuthorityNoMutation == [][~configured => label' = label /\ claim' = "none"]_vars

\* Every command that reaches the pipe is answered: the tray thread that waits
\* for its own pipe, the pipe thread that waits for the core and the poll that
\* holds it never wait for one another.
CommandsAreAnswered == (client \in {"cli", "tray"}) ~> (client = "none")

\* In quiet surroundings the tray comes to show what the core claims and stays
\* with it, although snapshots of the pipe thread may reach it after newer ones
\* of its own poll.
TrayCatchesUp == calm ~> [](shown = claim \/ tray = "ended" \/ requested)

\* An exit that was asked for happens once the runner can be drained: with the
\* Listener observable and no later intent to offer capacity, the flag is raised.
DrainEndsInExit ==
  (afterDrain /\ calm /\ listener /\ intent = "Closed") ~> (requested \/ intent = "Open")

\* agent_runtime.rs lines 235-236: "Exit is requested through the same typed
\* local IPC route. The pipe loop returns after that request".
ShutdownCompletes == requested ~> process = "exited"

\* agent_runtime.rs lines 284-287: a configured runtime "remains alive until
\* independent readback proves the selector absent".
AliveUntilDrained == (configured /\ afterDrain /\ tray = "ended") => claim = "DRAINED"
=================================================================================
