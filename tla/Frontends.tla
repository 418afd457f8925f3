-------------------------------- MODULE Frontends --------------------------------
(***************************************************************************)
(* The frontends of the Agent: the tray on the thread of its menu          *)
(* (run_native_tray_loop in src/src/agent_runtime.rs, src/src/tray.rs) and *)
(* the command line (src/src/cli.rs), which reach the Agent by one framed  *)
(* exchange over a pipe each (src/src/ipc.rs); every snapshot that answers *)
(* a command also goes to the tray through a channel.  The tray computes   *)
(* what a click asks for from the snapshot it has when it comes to it.     *)
(* The helper that stops the Agent of its own build makes two exchanges    *)
(* (request_stop_after_drain in src/src/bin/runnermesh-package.rs).  What  *)
(* the Agent does with the commands is the subject of AgentCore.  Bound:   *)
(* one program at a time, command line or helper, besides the tray.        *)
(***************************************************************************)
EXTENDS MenuHint, Naturals

CONSTANTS
  MaxCommands,   \* bound: settings that are changed
  MaxMoves       \* bound: what the user does in the menu

ASSUME FrontendsAssumption == MaxCommands \in Nat /\ MaxMoves \in Nat

VARIABLES
  settings,    \* what the Agent has stored, and how often it was changed
  channel,     \* the snapshots on their way to the tray
  current,     \* the snapshot of the tray
  served,      \* the snapshot that its last click was answered with
  stage,       \* what the tray does: "pump", "poll", "drain", "clicks", "gone"
  clicks,      \* the items that were clicked
  moves,       \* what the user did in the menu so far
  cli,         \* the exchange of the command line
  helper       \* the two exchanges of the helper, and the build of the Agent since the first

frontendVars == <<settings, channel, current, served, stage, clicks, moves, cli, helper>>

Builds == {"ours", "other"}

Snapshots == [zen: BOOLEAN, hints: BOOLEAN, version: 0..MaxCommands]

\* What reaches the pipe: a request, one of another version, one of another user, a part of
\* one.
Frames == {"request", "other version", "other user", "torn"}

NoExchange == [frame |-> "none", ran |-> FALSE, outcome |-> "none"]

NoHelper == [step |-> "none", agent |-> "none"]

FrontendsTypeOK ==
  /\ {settings, current, served} \subseteq Snapshots /\ channel \in Seq(Snapshots)
  /\ stage \in {"pump", "poll", "drain", "clicks", "gone"}
  /\ clicks \in Seq({"zen", "hints", "status"}) /\ moves \in 0..MaxMoves
  /\ cli \in [frame: Frames \cup {"none"}, ran: BOOLEAN,
              outcome: {"none", "success", "failure", "printed", "error"}]
  /\ helper \in [step: {"none", "verified", "accepted", "refused"}, agent: Builds \cup {"none"}]

FrontendsInit ==
  /\ settings = [zen |-> FALSE, hints |-> enabled, version |-> 0]
  /\ channel = <<>> /\ current = settings /\ served = settings
  /\ stage = "pump" /\ clicks = <<>> /\ moves = 0 /\ cli = NoExchange
  /\ helper = NoHelper

-----------------------------------------------------------------------------
\* The Agent runs a command: it may fail before the settings are stored, or after.

Changed(field, value) ==
  [settings EXCEPT ![field] = value, !.version = @ + 1]

Succeeds(changed) == settings' = changed /\ channel' = Append(channel, changed)

Fails(changed) == settings' \in {settings, changed} /\ UNCHANGED channel

-----------------------------------------------------------------------------
\* runnermesh zen on|off: connect, write the frame, read the answer.

CliWrites ==
  /\ cli = NoExchange /\ helper = NoHelper
  /\ \E frame \in Frames : cli' = [NoExchange EXCEPT !.frame = frame]
  /\ UNCHANGED <<hintVars, settings, channel, current, served, stage, clicks, moves, helper>>

\* client_matches_current_user: by the process at the other end of the pipe.
OfOurUser(frame) == frame # "other user"

\* read_frame: up to the newline, bounded in length; a part is not answered at all.
Whole(frame) == frame # "torn"

\* validate: the client speaks this version of the protocol.
Runs(frame) == OfOurUser(frame) /\ Whole(frame) /\ frame # "other version"

CliServed ==
  /\ cli.frame # "none" /\ cli.outcome = "none" /\ stage # "gone"
  /\ \/ /\ Runs(cli.frame) /\ settings.version < MaxCommands
        /\ \E on \in BOOLEAN :
             \/ Succeeds(Changed("zen", on)) /\ cli' = [cli EXCEPT !.ran = TRUE, !.outcome = "success"]
             \/ Fails(Changed("zen", on)) /\ cli' = [cli EXCEPT !.ran = TRUE, !.outcome = "failure"]
     \/ /\ Whole(cli.frame) /\ ~Runs(cli.frame)
        /\ cli' = [cli EXCEPT !.outcome = "failure"]
        /\ UNCHANGED <<settings, channel>>
  /\ UNCHANGED <<hintVars, current, served, stage, clicks, moves, helper>>

\* Defective variant: an answer that does not come is taken as a good one.
ReportedAnyway == IF cli.outcome = "failure" THEN "error" ELSE "printed"

\* request_snapshot, of an answer that may be lost or late, or of none.
Reported == IF cli.outcome = "success" THEN "printed" ELSE "error"

CliReads ==
  /\ cli.frame # "none" /\ cli.outcome \notin {"printed", "error"}
  /\ \E result \in {Reported, "error"} : cli' = [cli EXCEPT !.outcome = result]
  /\ UNCHANGED <<hintVars, settings, channel, current, served, stage, clicks, moves, helper>>

CliEnds ==
  /\ cli.outcome \in {"printed", "error"}
  /\ cli' = NoExchange
  /\ UNCHANGED <<hintVars, settings, channel, current, served, stage, clicks, moves, helper>>

-----------------------------------------------------------------------------
\* The tray: messages, among them the menu as long as it is open ...

Moves(step) ==
  /\ stage = "pump" /\ moves < MaxMoves
  /\ moves' = moves + 1
  /\ step
  /\ UNCHANGED <<settings, channel, current, served, stage, cli, helper>>

UserMoves ==
  \/ Moves(OpenMenu /\ UNCHANGED clicks)
  \/ Moves(Select /\ UNCHANGED clicks)
  \/ Moves(CloseSubmenu /\ UNCHANGED clicks)
  \/ Moves(CloseMenu /\ UNCHANGED clicks)
  \/ \E i \in {"zen", "hints", "status"} : Moves(CloseMenu /\ clicks' = Append(clicks, i))

Pumps ==
  /\ stage = "pump"
  /\ HostMessage \/ TimerIsDue
  /\ UNCHANGED frontendVars

GoesOn ==
  /\ stage = "pump" /\ ~popup /\ queue = <<>>
  /\ stage' = "poll"
  /\ UNCHANGED <<hintVars, settings, channel, current, served, clicks, moves, cli, helper>>

Shows(snapshot) == current' = snapshot /\ Rebuilt(snapshot.hints)

\* ... once a second an observation, which may fail, or the menu again for another DPI or
\* theme, ...
Polls ==
  /\ stage = "poll"
  /\ stage' = "drain"
  /\ \/ Shows(settings)
     \/ Shows(current)
     \/ UNCHANGED <<current, hintVars>>
  /\ UNCHANGED <<settings, channel, served, clicks, moves, cli, helper>>

\* ... the snapshots in the channel, ...
\* Defective variant: one snapshot is taken from the channel on each round.
AfterOne(rest) == "clicks"

AfterDrained(rest) == IF rest = <<>> THEN "clicks" ELSE "drain"

Drains ==
  /\ stage = "drain" /\ channel # <<>>
  /\ channel' = Tail(channel)
  /\ Shows(Head(channel))
  /\ stage' = AfterDrained(Tail(channel))
  /\ UNCHANGED <<settings, served, clicks, moves, cli, helper>>

NothingToDrain ==
  /\ stage = "drain" /\ channel = <<>>
  /\ stage' = "clicks"
  /\ UNCHANGED <<hintVars, settings, channel, current, served, clicks, moves, cli, helper>>

\* ... and the clicks: command_for and activate.
Asked(click) ==
  IF click = "status" THEN settings ELSE Changed(click, ~current[click])

Click ==
  /\ stage = "clicks" /\ clicks # <<>>
  /\ clicks' = Tail(clicks)
  /\ LET asked == Asked(Head(clicks)) IN
     /\ asked.version <= MaxCommands
     /\ \/ Succeeds(asked) /\ served' = asked /\ Shows(asked) /\ UNCHANGED stage
        \/ Fails(asked) /\ UNCHANGED <<current, served, stage, hintVars>>
  /\ UNCHANGED <<moves, cli, helper>>

\* The call gets no answer, whether the Agent ran the command or not: the loop ends.
ClickUnanswered ==
  /\ stage = "clicks" /\ clicks # <<>>
  /\ LET asked == Asked(Head(clicks)) IN
     /\ asked.version <= MaxCommands
     /\ Succeeds(asked) \/ Fails(asked)
  /\ stage' = "gone" /\ clicks' = <<>> /\ HintDisposed
  /\ UNCHANGED <<current, served, moves, cli, helper>>

NoMoreClicks ==
  /\ stage = "clicks" /\ clicks = <<>>
  /\ stage' = "pump"
  /\ UNCHANGED <<hintVars, settings, channel, current, served, clicks, moves, cli, helper>>

\* The Agent exits, or is killed; another one is started by and by.
AgentEnds ==
  /\ stage # "gone"
  /\ stage' = "gone" /\ clicks' = <<>> /\ HintDisposed
  /\ UNCHANGED <<settings, channel, current, served, moves, cli, helper>>

\* InstanceGuard: an Agent that finds another one of its account ends at once.
NoOtherInstance == stage = "gone"

AgentStarts ==
  /\ NoOtherInstance
  /\ stage' = "pump"
  /\ \E build \in Builds :
       helper' = IF helper.step = "verified" THEN [helper EXCEPT !.agent = build] ELSE helper
  /\ channel' = <<>> /\ current' = settings /\ served' = settings
  /\ enabled' = settings.hints /\ queue' = <<[kind |-> "init", current |-> TRUE]>>
  /\ UNCHANGED <<popup, selected, pending, timer, registered, shown,
                 settings, clicks, moves, cli>>

-----------------------------------------------------------------------------
\* request_stop_after_drain: is the Agent of this build?
HelperAsks ==
  /\ helper = NoHelper /\ cli = NoExchange
  /\ \/ stage # "gone" /\ helper' = [step |-> "verified", agent |-> "ours"]
     \/ helper' = [NoHelper EXCEPT !.step = "refused"]
  /\ UNCHANGED <<hintVars, settings, channel, current, served, stage, clicks, moves, cli>>

\* snapshot_matches
Accepted == IF helper.agent = "ours" THEN "accepted" ELSE "refused"

\* Then it shall stop; an Agent that runs takes the command, whoever it is by then.
HelperStops ==
  /\ helper.step = "verified"
  /\ \/ stage # "gone" /\ helper' = [helper EXCEPT !.step = Accepted]
     \/ helper' = [helper EXCEPT !.step = "refused"]
  /\ UNCHANGED <<hintVars, settings, channel, current, served, stage, clicks, moves, cli>>

HelperEnds ==
  /\ helper.step \in {"accepted", "refused"}
  /\ helper' = NoHelper
  /\ UNCHANGED <<hintVars, settings, channel, current, served, stage, clicks, moves, cli>>

FrontendsNext ==
  \/ CliWrites \/ CliServed \/ CliReads \/ CliEnds
  \/ UserMoves \/ Pumps \/ GoesOn \/ Polls \/ Drains \/ NothingToDrain
  \/ Click \/ ClickUnanswered \/ NoMoreClicks \/ AgentEnds \/ AgentStarts
  \/ HelperAsks \/ HelperStops \/ HelperEnds

-----------------------------------------------------------------------------
\* Properties.

\* When the tray comes to the clicks, what it computes them from is not older than the
\* answer to the click before, however observations, the snapshots in the channel and the
\* answers of other clients came in between: a toggle is not undone by a late snapshot.
ClicksDoNotGoBack == stage = "clicks" => current.version >= served.version

\* The command line prints a snapshot only if its command was run, and it was a whole one:
\* a lost answer, a torn frame or a foreign version never looks like success.
PrintedWasRun == cli.outcome = "printed" => cli.ran /\ cli.frame = "request"

\* "stop-after-drain-accepted" is only said of an Agent of the helper's build, even if the
\* Agent was replaced between the two exchanges.
AcceptedWasOurs == helper.step = "accepted" => helper.agent = "ours"
================================================================================
