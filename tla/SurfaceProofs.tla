----------------------------- MODULE SurfaceProofs -----------------------------
(***************************************************************************)
(* Proofs about the frontends and the hints of the menu (module Surface),  *)
(* for any number of commands, moves and messages, and for any screen.     *)
(***************************************************************************)
EXTENDS Surface, TLAPS

Messages == [kind: {"init", "selection", "dismiss"}, current: BOOLEAN]

\* The last message is one that takes the hint off the screen, and counts.
Hiding ==
  /\ queue # <<>>
  /\ queue[Len(queue)].current /\ queue[Len(queue)].kind # "init"

\* A hint on the screen that explains something else is about to be hidden, and what is
\* still to be shown is always what is under the cursor.
HintInv ==
  /\ shown # "none" => Hiding \/ (popup /\ shown = selected /\ enabled)
  /\ pending # "none" => popup /\ pending = selected /\ enabled
  /\ stage = "gone" => shown = "none" /\ pending = "none"

\* What the Agent answered well it has run, and it was a whole request.
CliInv == cli.outcome \in {"success", "printed"} => cli.ran /\ cli.frame = "request"

HelperInv == helper.step = "accepted" => helper.agent = "ours"

\* The last snapshot in the channel is not older than the answer to the last click; nor is
\* that of the tray when there is none in the channel, or it is at the clicks.
ClicksInv ==
  /\ served.version <= settings.version
  /\ channel # <<>> => channel[Len(channel)].version >= served.version
  /\ channel = <<>> \/ stage = "clicks" => current.version >= served.version

FrontInv == HintTypeOK /\ FrontendsTypeOK /\ HintInv /\ CliInv /\ HelperInv /\ ClicksInv

-----------------------------------------------------------------------------
\* The queue.

LEMMA PostedFacts ==
  ASSUME HintTypeOK, NEW k \in {"selection", "dismiss"}
  PROVE  /\ Posted(k) \in Seq(Messages) /\ Posted(k) # <<>>
         /\ Posted(k)[Len(Posted(k))] = [kind |-> k, current |-> TRUE]
<1> DEFINE stale == [i \in DOMAIN queue |-> [queue[i] EXCEPT !.current = FALSE]]
           m == [kind |-> k, current |-> TRUE]
<1>1. queue \in Seq(Messages)
  BY DEF HintTypeOK, Messages
<1>2. stale \in Seq(Messages)
  <2>1. \A i \in DOMAIN queue : queue[i] \in Messages
    BY <1>1
  <2>2. \A i \in DOMAIN queue : [queue[i] EXCEPT !.current = FALSE] \in Messages
    BY <2>1 DEF Messages
  <2>3. DOMAIN queue = 1..Len(queue) /\ Len(queue) \in Nat
    BY <1>1
  <2> QED BY <2>2, <2>3
<1>3. m \in Messages
  BY DEF Messages
<1>4. Posted(k) = Append(stale, m)
  BY DEF Posted
<1> HIDE DEF stale, m
<1>5. Append(stale, m) \in Seq(Messages) /\ Len(Append(stale, m)) = Len(stale) + 1
      /\ Append(stale, m)[Len(stale) + 1] = m /\ Len(stale) \in Nat
  BY <1>2, <1>3
<1>6. Append(stale, m) # <<>>
  BY <1>5
<1> QED BY <1>4, <1>5, <1>6 DEF m

\* What is left when the first message was taken ends as before, unless nothing is left.
LEMMA TailFacts ==
  ASSUME NEW S, NEW s \in Seq(S), s # <<>>
  PROVE  /\ Tail(s) \in Seq(S)
         /\ Tail(s) # <<>> => Tail(s)[Len(Tail(s))] = s[Len(s)]
         /\ Tail(s) = <<>> => s[Len(s)] = Head(s)
  OBVIOUS

-----------------------------------------------------------------------------
\* Each step on the hint.

LEMMA OpenMenuStep ==
  ASSUME HintTypeOK, HintInv, OpenMenu, UNCHANGED stage
  PROVE  HintTypeOK' /\ HintInv'
  BY DEF HintTypeOK, HintInv, Hiding, OpenMenu, Explained, MenuItems

LEMMA SelectStep ==
  ASSUME HintTypeOK, HintInv, Select, stage # "gone", UNCHANGED stage
  PROVE  HintTypeOK' /\ HintInv'
<1>1. /\ queue' \in Seq(Messages) /\ queue' # <<>>
      /\ queue'[Len(queue')] = [kind |-> "selection", current |-> TRUE]
  BY PostedFacts DEF Select
<1>2. Hiding'
  BY <1>1 DEF Hiding
<1>3. pending' \in Explained \cup {"none"}
      /\ (pending' # "none" => pending' = selected' /\ enabled)
  BY DEF Select, HintOf, MenuItems, Explained
<1>4. HintTypeOK'
  BY <1>1, <1>3 DEF HintTypeOK, Select, Messages, MenuItems
<1>5. HintInv'
  BY <1>2, <1>3 DEF HintInv, Select
<1> QED BY <1>4, <1>5

LEMMA DismissedStep ==
  ASSUME HintTypeOK, HintInv, Dismissed, UNCHANGED <<shown, timer, registered>>, stage' # "gone",
         popup' \in BOOLEAN, enabled' \in BOOLEAN, selected' \in MenuItems \cup {"none"}
  PROVE  HintTypeOK' /\ HintInv'
<1>1. /\ queue' \in Seq(Messages) /\ queue' # <<>>
      /\ queue'[Len(queue')] = [kind |-> "dismiss", current |-> TRUE]
  BY PostedFacts DEF Dismissed
<1>2. Hiding'
  BY <1>1 DEF Hiding
<1>3. pending' = "none"
  BY DEF Dismissed, PendingDropped
<1>4. HintTypeOK'
  BY <1>1, <1>3 DEF HintTypeOK, Messages
<1>5. HintInv'
  BY <1>2, <1>3 DEF HintInv
<1> QED BY <1>4, <1>5

LEMMA CloseMenuStep ==
  ASSUME HintTypeOK, HintInv, CloseMenu, stage # "gone", UNCHANGED stage
  PROVE  HintTypeOK' /\ HintInv'
  BY DismissedStep DEF CloseMenu, HintTypeOK

LEMMA CloseSubmenuStep ==
  ASSUME HintTypeOK, HintInv, CloseSubmenu, stage # "gone", UNCHANGED stage
  PROVE  HintTypeOK' /\ HintInv'
  BY DismissedStep DEF CloseSubmenu, HintTypeOK

\* A message is taken from the queue that does not hide the hint.
LEMMA PassedOver ==
  ASSUME HintTypeOK, HintInv, queue # <<>>, queue' = Tail(queue),
         ~(Head(queue).current /\ Head(queue).kind # "init"),
         UNCHANGED <<popup, selected, enabled, pending, timer, shown, stage>>,
         registered' \in BOOLEAN
  PROVE  HintTypeOK' /\ HintInv'
<1>1. queue \in Seq(Messages)
  BY DEF HintTypeOK, Messages
<1>2. /\ queue' \in Seq(Messages)
      /\ queue' # <<>> => queue'[Len(queue')] = queue[Len(queue)]
      /\ queue' = <<>> => queue[Len(queue)] = Head(queue)
  BY <1>1, TailFacts
<1>3. Hiding => Hiding'
  BY <1>2 DEF Hiding
<1>4. HintTypeOK'
  BY <1>2 DEF HintTypeOK, Messages
<1>5. HintInv'
  BY <1>3 DEF HintInv
<1> QED BY <1>4, <1>5

\* A message is taken that hides it.
LEMMA Hidden ==
  ASSUME HintTypeOK, HintInv, queue # <<>>, queue' = Tail(queue), shown' = "none",
         timer' \in [running: BOOLEAN, underWay: BOOLEAN],
         UNCHANGED <<popup, selected, enabled, pending, registered, stage>>
  PROVE  HintTypeOK' /\ HintInv'
<1>1. queue' \in Seq(Messages)
  BY TailFacts DEF HintTypeOK, Messages
<1> QED BY <1>1 DEF HintTypeOK, HintInv, Messages, Explained

LEMMA HostMessageStep ==
  ASSUME HintTypeOK, HintInv, HostMessage, stage # "gone", UNCHANGED stage
  PROVE  HintTypeOK' /\ HintInv'
<1>1. CASE InitTooltip
  BY <1>1, PassedOver DEF InitTooltip, Registered
<1>2. CASE OldMessage
  BY <1>2, PassedOver DEF OldMessage, HintTypeOK
<1>3. CASE SelectionChanged
  <2>1. PICK starts \in BOOLEAN : timer' = [timer EXCEPT !.running = starts]
    BY <1>3 DEF SelectionChanged
  <2>2. timer' \in [running: BOOLEAN, underWay: BOOLEAN]
    BY <2>1 DEF HintTypeOK
  <2> QED BY <1>3, <2>2, Hidden DEF SelectionChanged
<1>4. CASE Dismiss
  <2>1. timer' \in [running: BOOLEAN, underWay: BOOLEAN]
    BY <1>4 DEF Dismiss, Deactivated, HintTypeOK
  <2> QED BY <1>4, <2>1, Hidden DEF Dismiss, Deactivated
<1>5. CASE ShowPending
  BY <1>5 DEF ShowPending, Showing, NoTimer, HintTypeOK, HintInv, Hiding, Explained
<1> QED BY <1>1, <1>2, <1>3, <1>4, <1>5 DEF HostMessage

LEMMA TimerIsDueStep ==
  ASSUME HintTypeOK, HintInv, TimerIsDue, UNCHANGED stage
  PROVE  HintTypeOK' /\ HintInv'
  BY DEF TimerIsDue, HintTypeOK, HintInv, Hiding

LEMMA HintDisposedStep ==
  ASSUME HintTypeOK, HintDisposed
  PROVE  HintTypeOK' /\ HintInv'
<1>1. queue' \in Seq(Messages)
  BY DEF HintDisposed
<1>2. timer' \in [running: BOOLEAN, underWay: BOOLEAN]
  BY DEF HintDisposed, NoTimer
<1>3. HintTypeOK'
  BY <1>1, <1>2 DEF HintDisposed, HintTypeOK, Messages
<1>4. HintInv'
  BY DEF HintDisposed, HintInv
<1> QED BY <1>3, <1>4

LEMMA RebuiltStep ==
  ASSUME HintTypeOK, HintInv, NEW hints \in BOOLEAN, Rebuilt(hints), stage' # "gone"
  PROVE  HintTypeOK' /\ HintInv'
  BY DismissedStep DEF Rebuilt, HintTypeOK

LEMMA HintUnchanged ==
  ASSUME HintTypeOK, HintInv, UNCHANGED hintVars, stage # "gone" => stage' # "gone"
  PROVE  HintTypeOK' /\ HintInv'
  BY DEF hintVars, HintTypeOK, HintInv, Hiding

-----------------------------------------------------------------------------
\* The frontends.

\* What is appended to the channel is the last that is in it.
LEMMA AppendFacts ==
  ASSUME NEW S, NEW s \in Seq(S), NEW x \in S
  PROVE  /\ Append(s, x) \in Seq(S) /\ Append(s, x) # <<>>
         /\ Append(s, x)[Len(Append(s, x))] = x
  OBVIOUS

LEMMA ChangedFacts ==
  ASSUME FrontendsTypeOK, NEW field \in {"zen", "hints"}, NEW value \in BOOLEAN
  PROVE  /\ Changed(field, value).version = settings.version + 1
         /\ Changed(field, value).version <= MaxCommands => Changed(field, value) \in Snapshots
<1>1. settings \in [zen: BOOLEAN, hints: BOOLEAN, version: 0..MaxCommands]
  BY DEF FrontendsTypeOK, Snapshots
<1>2. [settings EXCEPT ![field] = value, !.version = settings.version + 1].version
        = settings.version + 1
  BY <1>1
<1>3. ASSUME settings.version + 1 <= MaxCommands
      PROVE  [settings EXCEPT ![field] = value, !.version = settings.version + 1]
               \in [zen: BOOLEAN, hints: BOOLEAN, version: 0..MaxCommands]
  <2>1. settings.version + 1 \in 0..MaxCommands
    BY <1>1, <1>3, FrontendsAssumption
  <2>2. CASE field = "zen"
    BY <1>1, <2>1, <2>2
  <2>3. CASE field = "hints"
    BY <1>1, <2>1, <2>3
  <2> QED BY <2>2, <2>3
<1> QED BY <1>2, <1>3 DEF Changed, Snapshots

\* A command that changes the settings, or stores what they were, and what it sends.
LEMMA CommandRun ==
  ASSUME FrontendsTypeOK, ClicksInv, NEW changed \in Snapshots,
         changed.version >= settings.version, Succeeds(changed) \/ Fails(changed)
  PROVE  /\ settings' \in Snapshots /\ channel' \in Seq(Snapshots)
         /\ settings'.version >= settings.version
         /\ Succeeds(changed) =>
              channel' # <<>> /\ channel'[Len(channel')] = changed /\ settings' = changed
         /\ Fails(changed) => channel' = channel
<1>1. settings \in Snapshots /\ channel \in Seq(Snapshots) /\ settings.version \in Nat
  BY DEF FrontendsTypeOK, Snapshots
<1>2. CASE Succeeds(changed)
  <2>1. settings' = changed /\ channel' = Append(channel, changed)
    BY <1>2 DEF Succeeds
  <2>2. ~Fails(changed) \/ channel' = channel
    BY DEF Fails
  <2> QED BY <1>1, <2>1, <2>2, AppendFacts
<1>3. CASE Fails(changed)
  <2>1. settings' \in {settings, changed} /\ channel' = channel
    BY <1>3 DEF Fails
  <2>2. channel' # Append(channel, changed)
    BY <1>1, <2>1
  <2> QED BY <1>1, <2>1, <2>2 DEF Succeeds
<1> QED BY <1>2, <1>3

LEMMA AskedFacts ==
  ASSUME FrontendsTypeOK, NEW click \in {"zen", "hints", "status"},
         Asked(click).version <= MaxCommands
  PROVE  Asked(click) \in Snapshots /\ Asked(click).version >= settings.version
<1>1. settings \in Snapshots /\ settings.version \in Nat /\ current \in Snapshots
  BY DEF FrontendsTypeOK, Snapshots
<1>2. CASE click = "status"
  BY <1>1, <1>2 DEF Asked
<1>3. CASE click # "status"
  <2>1. click \in {"zen", "hints"} /\ Asked(click) = Changed(click, ~current[click])
    BY <1>3 DEF Asked
  <2>2. (~current[click]) \in BOOLEAN
    OBVIOUS
  <2>3. /\ Changed(click, ~current[click]).version = settings.version + 1
        /\ Changed(click, ~current[click]).version <= MaxCommands
             => Changed(click, ~current[click]) \in Snapshots
    BY <2>1, <2>2, ChangedFacts
  <2> QED BY <1>1, <2>1, <2>3
<1> QED BY <1>2, <1>3

-----------------------------------------------------------------------------
\* The steps of the command line and the helper leave the tray alone.

LEMMA CliStep ==
  ASSUME FrontInv, CliWrites \/ CliServed \/ CliReads \/ CliEnds
  PROVE  FrontInv'
<1> USE DEF FrontInv
<1>0. UNCHANGED <<hintVars, current, served, stage, clicks, moves, helper>>
  BY DEF CliWrites, CliServed, CliReads, CliEnds
<1>1. HintTypeOK' /\ HintInv' /\ HelperInv'
  BY <1>0, HintUnchanged DEF HelperInv
<1>2. cli \in [frame: Frames \cup {"none"}, ran: BOOLEAN,
                outcome: {"none", "success", "failure", "printed", "error"}]
  BY DEF FrontendsTypeOK
<1>3. CASE CliWrites
  <2>1. PICK frame \in Frames : cli' = [NoExchange EXCEPT !.frame = frame]
    BY <1>3 DEF CliWrites
  <2>2. UNCHANGED <<settings, channel>>
    BY <1>3 DEF CliWrites
  <2>3. FrontendsTypeOK' /\ CliInv'
    BY <1>0, <2>1, <2>2 DEF FrontendsTypeOK, CliInv, NoExchange
  <2>4. ClicksInv'
    BY <1>0, <2>2 DEF ClicksInv
  <2> QED BY <1>1, <2>3, <2>4
<1>4. CASE CliServed
  <2>1. CASE ~Runs(cli.frame) /\ cli' = [cli EXCEPT !.outcome = "failure"]
             /\ UNCHANGED <<settings, channel>>
    <3>1. FrontendsTypeOK' /\ CliInv'
      BY <1>0, <1>2, <2>1 DEF FrontendsTypeOK, CliInv
    <3>2. ClicksInv'
      BY <1>0, <2>1 DEF ClicksInv
    <3> QED BY <1>1, <3>1, <3>2
  <2>2. ASSUME Runs(cli.frame), cli.frame # "none",
               settings.version < MaxCommands, NEW on \in BOOLEAN,
               \/ /\ Succeeds(Changed("zen", on))
                  /\ cli' = [cli EXCEPT !.ran = TRUE, !.outcome = "success"]
               \/ /\ Fails(Changed("zen", on))
                  /\ cli' = [cli EXCEPT !.ran = TRUE, !.outcome = "failure"]
        PROVE  FrontInv'
    <3>1. settings.version \in 0..MaxCommands
      BY DEF FrontendsTypeOK, Snapshots
    <3>2. /\ Changed("zen", on) \in Snapshots
          /\ Changed("zen", on).version = settings.version + 1
      BY <2>2, <3>1, ChangedFacts, FrontendsAssumption
    <3>3. /\ settings' \in Snapshots /\ channel' \in Seq(Snapshots)
          /\ settings'.version >= settings.version
          /\ Succeeds(Changed("zen", on)) =>
               channel' # <<>> /\ channel'[Len(channel')] = Changed("zen", on)
          /\ Fails(Changed("zen", on)) => channel' = channel
      BY <2>2, <3>1, <3>2, CommandRun
    <3>4. FrontendsTypeOK' /\ CliInv'
      <4>1. cli.frame = "request"
        BY <1>2, <2>2 DEF Runs, OfOurUser, Whole, Frames
      <4>2. cli' = [cli EXCEPT !.ran = TRUE, !.outcome = "success"]
            \/ cli' = [cli EXCEPT !.ran = TRUE, !.outcome = "failure"]
        BY <2>2
      <4> QED BY <1>0, <1>2, <4>1, <4>2, <3>3 DEF FrontendsTypeOK, CliInv
    <3>5. served.version \in Nat /\ settings'.version \in Nat
      BY <3>3 DEF FrontendsTypeOK, Snapshots
    <3>6. ClicksInv'
      BY <1>0, <2>2, <3>1, <3>2, <3>3, <3>5 DEF ClicksInv
    <3> QED BY <1>1, <3>4, <3>6
  <2> QED BY <1>4, <2>1, <2>2 DEF CliServed
<1>5. CASE CliReads
  <2>1. PICK result \in {Reported, "error"} : cli' = [cli EXCEPT !.outcome = result]
    BY <1>5 DEF CliReads
  <2>2. UNCHANGED <<settings, channel>>
    BY <1>5 DEF CliReads
  <2>3. FrontendsTypeOK' /\ CliInv'
    BY <1>0, <1>2, <2>1, <2>2 DEF FrontendsTypeOK, CliInv, Reported
  <2>4. ClicksInv'
    BY <1>0, <2>2 DEF ClicksInv
  <2> QED BY <1>1, <2>3, <2>4
<1>6. CASE CliEnds
  <2>1. FrontendsTypeOK' /\ CliInv'
    BY <1>0, <1>6 DEF CliEnds, FrontendsTypeOK, CliInv, NoExchange
  <2>2. ClicksInv'
    BY <1>0, <1>6 DEF CliEnds, ClicksInv
  <2> QED BY <1>1, <2>1, <2>2
<1> QED BY <1>3, <1>4, <1>5, <1>6

LEMMA HelperStep ==
  ASSUME FrontInv, HelperAsks \/ HelperStops \/ HelperEnds
  PROVE  FrontInv'
<1> USE DEF FrontInv
<1>1. UNCHANGED <<hintVars, settings, channel, current, served, stage, clicks, moves, cli>>
  BY DEF HelperAsks, HelperStops, HelperEnds
<1>2. HintTypeOK' /\ HintInv' /\ CliInv' /\ ClicksInv'
  BY <1>1, HintUnchanged DEF CliInv, ClicksInv
<1>3. helper \in [step: {"none", "verified", "accepted", "refused"}, agent: Builds \cup {"none"}]
  BY DEF FrontendsTypeOK
<1>4. /\ helper' \in [step: {"none", "verified", "accepted", "refused"},
                       agent: Builds \cup {"none"}]
      /\ HelperInv'
  BY <1>3 DEF HelperAsks, HelperStops, HelperEnds, Accepted, NoHelper, Builds, HelperInv
<1>5. FrontendsTypeOK'
  BY <1>1, <1>4 DEF FrontendsTypeOK
<1> QED BY <1>2, <1>4, <1>5

-----------------------------------------------------------------------------
\* The steps of the tray.

LEMMA MenuStep ==
  ASSUME FrontInv, UserMoves \/ Pumps \/ GoesOn \/ NoMoreClicks
  PROVE  FrontInv'
<1> USE DEF FrontInv
<1>1. CASE UserMoves
  <2>1. /\ stage = "pump" /\ moves < MaxMoves /\ moves' = moves + 1
        /\ UNCHANGED <<settings, channel, current, served, stage, cli, helper>>
    BY <1>1 DEF UserMoves, Moves
  <2>2. \/ (OpenMenu \/ Select \/ CloseSubmenu \/ CloseMenu) /\ UNCHANGED clicks
        \/ CloseMenu /\ \E i \in {"zen", "hints", "status"} : clicks' = Append(clicks, i)
    BY <1>1 DEF UserMoves, Moves
  <2>3. HintTypeOK' /\ HintInv'
    BY <2>1, <2>2, OpenMenuStep, SelectStep, CloseSubmenuStep, CloseMenuStep
  <2>4. moves' \in 0..MaxMoves
    BY <2>1, FrontendsAssumption DEF FrontendsTypeOK
  <2>5. clicks' \in Seq({"zen", "hints", "status"})
    <3>1. clicks \in Seq({"zen", "hints", "status"})
      BY DEF FrontendsTypeOK
    <3>2. CASE UNCHANGED clicks
      BY <3>1, <3>2
    <3>3. ASSUME NEW i \in {"zen", "hints", "status"}, clicks' = Append(clicks, i)
          PROVE  clicks' \in Seq({"zen", "hints", "status"})
      BY <3>1, <3>3, AppendFacts
    <3> QED BY <2>2, <3>2, <3>3
  <2> QED BY <2>1, <2>3, <2>4, <2>5 DEF FrontendsTypeOK, CliInv, HelperInv, ClicksInv
<1>2. CASE Pumps
  <2>1. HintTypeOK' /\ HintInv'
    BY <1>2, HostMessageStep, TimerIsDueStep DEF Pumps, frontendVars
  <2> QED BY <1>2, <2>1 DEF Pumps, frontendVars, FrontendsTypeOK, CliInv, HelperInv, ClicksInv
<1>3. CASE GoesOn
  <2>1. HintTypeOK' /\ HintInv'
    BY <1>3, HintUnchanged DEF GoesOn
  <2> QED BY <1>3, <2>1 DEF GoesOn, FrontendsTypeOK, CliInv, HelperInv, ClicksInv
<1>4. CASE NoMoreClicks
  <2>1. HintTypeOK' /\ HintInv'
    BY <1>4, HintUnchanged DEF NoMoreClicks
  <2> QED BY <1>4, <2>1 DEF NoMoreClicks, FrontendsTypeOK, CliInv, HelperInv, ClicksInv
<1> QED BY <1>1, <1>2, <1>3, <1>4

LEMMA RefreshStep ==
  ASSUME FrontInv, Polls \/ Drains \/ NothingToDrain
  PROVE  FrontInv'
<1> USE DEF FrontInv
<1>0. settings \in Snapshots /\ current \in Snapshots /\ channel \in Seq(Snapshots)
      /\ settings.version \in Nat /\ served.version \in Nat /\ current.version \in Nat
  BY DEF FrontendsTypeOK, Snapshots
<1>1. CASE Polls
  <2>1. /\ stage = "poll" /\ stage' = "drain"
        /\ UNCHANGED <<settings, channel, served, clicks, moves, cli, helper>>
    BY <1>1 DEF Polls
  <2>2. \/ current' \in {settings, current} /\ Rebuilt(current'.hints)
        \/ UNCHANGED <<current, hintVars>>
    BY <1>1 DEF Polls, Shows
  <2>3. HintTypeOK' /\ HintInv'
    <3>1. CASE UNCHANGED <<current, hintVars>>
      BY <2>1, <3>1, HintUnchanged
    <3>2. CASE current' \in {settings, current} /\ Rebuilt(current'.hints)
      <4>1. current'.hints \in BOOLEAN
        BY <1>0, <3>2 DEF Snapshots
      <4> QED BY <2>1, <3>2, <4>1, RebuiltStep
    <3> QED BY <2>2, <3>1, <3>2
  <2> QED BY <1>0, <2>1, <2>2, <2>3 DEF FrontendsTypeOK, CliInv, HelperInv, ClicksInv
<1>2. CASE Drains
  <2>1. /\ stage = "drain" /\ channel # <<>> /\ channel' = Tail(channel)
        /\ current' = Head(channel) /\ Rebuilt(Head(channel).hints)
        /\ stage' = AfterDrained(Tail(channel))
        /\ UNCHANGED <<settings, served, clicks, moves, cli, helper>>
    BY <1>2 DEF Drains, Shows
  <2>2. /\ channel' \in Seq(Snapshots) /\ Head(channel) \in Snapshots
        /\ channel' # <<>> => channel'[Len(channel')] = channel[Len(channel)]
        /\ channel' = <<>> => channel[Len(channel)] = Head(channel)
    BY <1>0, <2>1, TailFacts
  <2>3. stage' = (IF channel' = <<>> THEN "clicks" ELSE "drain")
    BY <2>1 DEF AfterDrained
  <2>4. HintTypeOK' /\ HintInv'
    <3>1. Head(channel).hints \in BOOLEAN /\ stage' # "gone"
      BY <2>2, <2>3 DEF Snapshots
    <3> QED BY <2>1, <3>1, RebuiltStep
  <2>5. FrontendsTypeOK' /\ CliInv' /\ HelperInv'
    BY <2>1, <2>2, <2>3 DEF FrontendsTypeOK, CliInv, HelperInv
  <2>6. ClicksInv'
    BY <2>1, <2>2, <2>3 DEF ClicksInv
  <2> QED BY <2>4, <2>5, <2>6
<1>3. CASE NothingToDrain
  <2>1. HintTypeOK' /\ HintInv'
    BY <1>3, HintUnchanged DEF NothingToDrain
  <2> QED BY <1>3, <2>1 DEF NothingToDrain, FrontendsTypeOK, CliInv, HelperInv, ClicksInv
<1> QED BY <1>1, <1>2, <1>3

LEMMA ClickStep ==
  ASSUME FrontInv, Click \/ ClickUnanswered
  PROVE  FrontInv'
<1> USE DEF FrontInv
<1> DEFINE asked == Asked(Head(clicks))
<1>1. /\ stage = "clicks" /\ clicks # <<>> /\ asked.version <= MaxCommands
      /\ Succeeds(asked) \/ Fails(asked)
      /\ UNCHANGED <<moves, cli, helper>>
  BY DEF Click, ClickUnanswered
<1>2. Head(clicks) \in {"zen", "hints", "status"} /\ Tail(clicks) \in Seq({"zen", "hints", "status"})
  BY <1>1 DEF FrontendsTypeOK
<1>3. asked \in Snapshots /\ asked.version >= settings.version
  BY <1>1, <1>2, AskedFacts
<1>4. /\ settings.version \in Nat /\ served.version \in Nat /\ current.version \in Nat
      /\ asked.version \in Nat /\ asked.hints \in BOOLEAN
  BY <1>3 DEF FrontendsTypeOK, Snapshots
<1> HIDE DEF asked
<1>5. /\ settings' \in Snapshots /\ channel' \in Seq(Snapshots)
      /\ settings'.version >= settings.version
      /\ Succeeds(asked) =>
           channel' # <<>> /\ channel'[Len(channel')] = asked /\ settings' = asked
      /\ Fails(asked) => channel' = channel
  BY <1>1, <1>3, CommandRun
<1>6. settings'.version \in Nat
  BY <1>5 DEF Snapshots
<1>7. CASE Click
  <2>1. CASE Succeeds(asked) /\ served' = asked /\ Shows(asked) /\ UNCHANGED stage
    <3>1. HintTypeOK' /\ HintInv'
      BY <1>1, <1>4, <2>1, RebuiltStep DEF Shows
    <3>2. FrontendsTypeOK' /\ CliInv' /\ HelperInv'
      BY <1>1, <1>2, <1>3, <1>5, <1>7, <2>1 DEF Click, Shows, FrontendsTypeOK, CliInv, HelperInv
    <3>3. ClicksInv'
      BY <1>4, <1>5, <1>6, <2>1 DEF ClicksInv, Shows
    <3> QED BY <3>1, <3>2, <3>3
  <2>2. CASE Fails(asked) /\ UNCHANGED <<current, served, stage, hintVars>>
    <3>1. HintTypeOK' /\ HintInv'
      BY <2>2, HintUnchanged
    <3>2. FrontendsTypeOK' /\ CliInv' /\ HelperInv'
      BY <1>1, <1>2, <1>5, <1>7, <2>2 DEF Click, FrontendsTypeOK, CliInv, HelperInv
    <3>3. ClicksInv'
      BY <1>4, <1>5, <1>6, <2>2 DEF ClicksInv
    <3> QED BY <3>1, <3>2, <3>3
  <2> QED BY <1>7, <2>1, <2>2 DEF Click, asked
<1>8. CASE ClickUnanswered
  <2>1. stage' = "gone" /\ clicks' = <<>> /\ HintDisposed /\ UNCHANGED <<current, served>>
    BY <1>8 DEF ClickUnanswered
  <2>2. HintTypeOK' /\ HintInv'
    BY <2>1, HintDisposedStep
  <2>3. FrontendsTypeOK' /\ CliInv' /\ HelperInv'
    BY <1>1, <1>5, <2>1 DEF FrontendsTypeOK, CliInv, HelperInv
  <2>4. ClicksInv'
    BY <1>1, <1>3, <1>4, <1>5, <1>6, <2>1 DEF ClicksInv
  <2> QED BY <2>2, <2>3, <2>4
<1> QED BY <1>7, <1>8

LEMMA AgentStep ==
  ASSUME FrontInv, AgentEnds \/ AgentStarts
  PROVE  FrontInv'
<1> USE DEF FrontInv
<1>1. CASE AgentEnds
  <2>1. HintTypeOK' /\ HintInv'
    BY <1>1, HintDisposedStep DEF AgentEnds
  <2>2. FrontendsTypeOK' /\ CliInv' /\ HelperInv' /\ ClicksInv'
    BY <1>1 DEF AgentEnds, FrontendsTypeOK, CliInv, HelperInv, ClicksInv
  <2> QED BY <2>1, <2>2
<1>2. CASE AgentStarts
  <2>1. settings \in Snapshots /\ settings.hints \in BOOLEAN /\ settings.version \in Nat
    BY DEF FrontendsTypeOK, Snapshots
  <2>2. queue' \in Seq(Messages)
    BY <1>2 DEF AgentStarts, Messages
  <2>3. HintTypeOK'
    BY <1>2, <2>1, <2>2 DEF AgentStarts, HintTypeOK, Messages
  <2>4. HintInv'
    BY <1>2 DEF AgentStarts, NoOtherInstance, HintInv
  <2>5. helper' \in [step: {"none", "verified", "accepted", "refused"},
                     agent: Builds \cup {"none"}] /\ HelperInv'
    BY <1>2 DEF AgentStarts, FrontendsTypeOK, HelperInv
  <2>6. channel' \in Seq(Snapshots)
    BY <1>2 DEF AgentStarts
  <2>7. FrontendsTypeOK' /\ CliInv'
    BY <1>2, <2>1, <2>5, <2>6 DEF AgentStarts, FrontendsTypeOK, CliInv
  <2>8. ClicksInv'
    BY <1>2, <2>1 DEF AgentStarts, ClicksInv
  <2> QED BY <2>3, <2>4, <2>5, <2>7, <2>8
<1> QED BY <1>1, <1>2

-----------------------------------------------------------------------------
\* The placing of a hint.

Integral(r) == {r.left, r.top, r.right, r.bottom} \subseteq Int

\* The hint is placed as Place does it, or not yet.
PlacementInv ==
  /\ DOMAIN item = DOMAIN WorkArea /\ DOMAIN placed = DOMAIN WorkArea
  /\ \E x, y \in Int, w, h \in Nat \ {0} : item = RectAt(x, y, w, h)
  /\ size \in [width: 1..MaxSize, height: 1..MaxSize] /\ gap \in Gaps
  /\ placed = NotPlaced \/
     placed = RectAt(Clamped(Candidates[Best].left, Width, size.width),
                     Clamped(Candidates[Best].top, Height, size.height),
                     size.width, size.height)

LEMMA MinOfTwo ==
  ASSUME NEW a \in Int, NEW b \in Int
  PROVE  Min({a, b}) = IF a <= b THEN a ELSE b
<1> DEFINE m == IF a <= b THEN a ELSE b
<1>1. m \in {a, b} /\ \A y \in {a, b} : m <= y
  OBVIOUS
<1>2. \A x \in {a, b} : (\A y \in {a, b} : x <= y) => x = m
  OBVIOUS
<1> QED BY <1>1, <1>2 DEF Min

LEMMA MaxOfTwo ==
  ASSUME NEW a \in Int, NEW b \in Int
  PROVE  Max({a, b}) = IF a >= b THEN a ELSE b
<1> DEFINE m == IF a >= b THEN a ELSE b
<1>1. m \in {a, b} /\ \A y \in {a, b} : m >= y
  OBVIOUS
<1>2. \A x \in {a, b} : (\A y \in {a, b} : x >= y) => x = m
  OBVIOUS
<1> QED BY <1>1, <1>2 DEF Max

\* Clamping moves a length that fits into the range, and leaves alone what is inside.
LEMMA ClampedFacts ==
  ASSUME NEW value \in Int, NEW upper \in Nat, NEW length \in Nat, length <= upper
  PROVE  /\ Clamped(value, upper, length) \in Int
         /\ 0 <= Clamped(value, upper, length) /\ Clamped(value, upper, length) + length <= upper
         /\ 0 <= value /\ value + length <= upper => Clamped(value, upper, length) = value
<1> DEFINE m == Min({value, upper - length})
<1>1. Max({upper - length, 0}) = upper - length
  BY MaxOfTwo
<1>2. m \in Int /\ m = IF value <= upper - length THEN value ELSE upper - length
  BY MinOfTwo
<1>3. Clamped(value, upper, length) = Max({0, m})
  BY <1>1 DEF Clamped
<1> HIDE DEF m
<1>4. Max({0, m}) = IF 0 >= m THEN 0 ELSE m
  BY <1>2, MaxOfTwo
<1> QED BY <1>2, <1>3, <1>4

LEMMA PlacementNumbers ==
  ASSUME PlacementInv
  PROVE  /\ item.left \in Int /\ item.right \in Int /\ item.top \in Int /\ item.bottom \in Int
         /\ item.left < item.right /\ item.top < item.bottom
         /\ gap \in Nat /\ size.width \in Nat \ {0} /\ size.height \in Nat \ {0}
<1>1. PICK x \in Int, y \in Int, w \in Nat \ {0}, h \in Nat \ {0} : item = RectAt(x, y, w, h)
  BY DEF PlacementInv
<1>2. item.left = x /\ item.top = y /\ item.right = x + w /\ item.bottom = y + h
  BY <1>1 DEF RectAt
<1>3. gap \in Nat /\ MaxSize \in Nat
  BY PlacementAssumption DEF PlacementInv
<1>4. size.width \in 1..MaxSize /\ size.height \in 1..MaxSize
  BY DEF PlacementInv
<1> QED BY <1>2, <1>3, <1>4

\* On every side the hint has its size, and does not cover the item.
LEMMA CandidateFacts ==
  ASSUME PlacementInv, NEW d \in 1..4
  PROVE  /\ Candidates[d] = RectAt(Candidates[d].left, Candidates[d].top, size.width, size.height)
         /\ Candidates[d].left \in Int /\ Candidates[d].top \in Int
         /\ ~Covers(Candidates[d], item)
<1>1. d = 1 \/ d = 2 \/ d = 3 \/ d = 4
  OBVIOUS
<1>2. /\ Candidates[1] = RectAt(item.right + gap, item.top, size.width, size.height)
      /\ Candidates[2] = RectAt(item.left - (size.width + gap), item.top, size.width, size.height)
      /\ Candidates[3] = RectAt(item.left, item.bottom + gap, size.width, size.height)
      /\ Candidates[4] = RectAt(item.left, item.top - (size.height + gap), size.width, size.height)
  BY DEF Candidates
<1> QED BY <1>1, <1>2, PlacementNumbers DEF RectAt, Covers

LEMMA MinOfFour ==
  ASSUME NEW f \in [1..4 -> Int], NEW S \in SUBSET (1..4), S # {}
  PROVE  \E d \in S : f[d] = Min({f[e] : e \in S})
<1>1. \E d \in S : \A e \in S : f[d] <= f[e]
  <2> DEFINE Least(T) == \E d \in T : \A e \in T : f[d] <= f[e]
             T(k) == {e \in S : e <= k}
  <2>1. \A e \in S : e \in Int /\ 1 <= e /\ e <= 4 /\ f[e] \in Int
    OBVIOUS
  <2>2. T(1) = {} \/ Least(T(1))
    <3>1. ASSUME NEW d \in T(1)
          PROVE  Least(T(1))
      <4>1. \A e \in T(1) : e = d
        BY <2>1, <3>1
      <4> QED BY <2>1, <3>1, <4>1
    <3> QED BY <3>1
  <2>3. ASSUME NEW k \in 1..3, T(k) = {} \/ Least(T(k))
        PROVE  T(k + 1) = {} \/ Least(T(k + 1))
    <3>0. \A e \in S : e <= k + 1 <=> e <= k \/ e = k + 1
      BY <2>1
    <3>1. CASE k + 1 \notin S
      <4>1. T(k + 1) = T(k)
        BY <3>0, <3>1
      <4> QED BY <2>3, <4>1
    <3>2. CASE k + 1 \in S
      <4>1. T(k + 1) = T(k) \cup {k + 1}
        BY <3>0, <3>2
      <4>2. CASE T(k) = {}
        BY <2>1, <3>2, <4>1, <4>2
      <4>3. ASSUME NEW d \in T(k), \A e \in T(k) : f[d] <= f[e]
            PROVE  Least(T(k + 1))
        <5>1. CASE f[d] <= f[k + 1]
          BY <4>1, <4>3, <5>1
        <5>2. CASE f[k + 1] < f[d]
          BY <2>1, <3>2, <4>1, <4>3, <5>2
        <5> QED BY <2>1, <3>2, <4>3, <5>1, <5>2
      <4> QED BY <2>3, <4>2, <4>3
    <3> QED BY <3>1, <3>2
  <2>4. T(4) = {} \/ Least(T(4))
    <3>1. T(2) = {} \/ Least(T(2))
      BY <2>2, <2>3
    <3>2. T(3) = {} \/ Least(T(3))
      BY <3>1, <2>3
    <3> QED BY <3>2, <2>3
  <2>5. T(4) = S
    BY <2>1
  <2> QED BY <2>4, <2>5
<1>2. \E x \in {f[e] : e \in S} : \A y \in {f[e] : e \in S} : x <= y
  BY <1>1
<1>3. Min({f[e] : e \in S}) \in {f[e] : e \in S}
  BY <1>2 DEF Min
<1> QED BY <1>3

\* The overflow of a candidate is a number, whatever it is.
LEMMA OverflowIsInt ==
  ASSUME PlacementInv, NEW d \in 1..4
  PROVE  Overflow(Candidates[d]) \in Int
<1> DEFINE r == Candidates[d]
<1>1. /\ r.left \in Int /\ r.top \in Int /\ r.right \in Int /\ r.bottom \in Int
      /\ Width \in Int /\ Height \in Int
  BY CandidateFacts, PlacementNumbers, PlacementAssumption DEF RectAt
<1> HIDE DEF r
<1>2. /\ Min({r.right, Width}) \in Int /\ Max({r.left, 0}) \in Int
      /\ Min({r.bottom, Height}) \in Int /\ Max({r.top, 0}) \in Int
  BY <1>1, MinOfTwo, MaxOfTwo
<1> DEFINE w == Min({r.right, Width}) - Max({r.left, 0})
           h == Min({r.bottom, Height}) - Max({r.top, 0})
           wide == Max({w, 0})
           high == Max({h, 0})
<1>3. wide \in Int /\ high \in Int
  <2>1. w \in Int /\ h \in Int
    BY <1>2
  <2> HIDE DEF w, h
  <2> QED BY <2>1, MaxOfTwo
<1>4. Overflow(r) = (r.right - r.left) * (r.bottom - r.top) - wide * high
  BY DEF Overflow
<1> HIDE DEF wide, high
<1>5. (r.right - r.left) * (r.bottom - r.top) \in Int /\ wide * high \in Int
  BY <1>1, <1>3
<1> QED BY <1>4, <1>5 DEF r

\* The side that is chosen; one on which the hint is on the screen if there is one.
LEMMA BestFacts ==
  ASSUME PlacementInv
  PROVE  /\ Best \in 1..4
         /\ (\E d \in 1..4 : Inside(Candidates[d])) => Inside(Candidates[Best])
<1> DEFINE inside == Preferring(LAMBDA d : Inside(Candidates[d]), 1..4)
           beside == Preferring(LAMBDA d : ~Covers(Candidates[d], item), inside)
           least == Min({Overflow(Candidates[d]) : d \in beside})
           f == [d \in 1..4 |-> Overflow(Candidates[d])]
           chosen == {d \in beside : Overflow(Candidates[d]) = least}
<1>1. /\ inside \in SUBSET (1..4) /\ inside # {}
      /\ (\E d \in 1..4 : Inside(Candidates[d])) => \A d \in inside : Inside(Candidates[d])
  BY DEF Preferring
<1>2. beside \subseteq inside /\ beside # {}
  BY <1>1 DEF Preferring
<1> HIDE DEF inside, beside
<1>3. f \in [1..4 -> Int] /\ beside \in SUBSET (1..4)
  BY <1>1, <1>2, OverflowIsInt
<1>4. {f[e] : e \in beside} = {Overflow(Candidates[d]) : d \in beside}
  BY <1>3
<1>5. chosen # {} /\ chosen \in SUBSET (1..4) /\ chosen \subseteq inside
  BY <1>2, <1>3, <1>4, MinOfFour
<1>6. Best = Min(chosen)
  BY DEF Best, inside, beside
<1> HIDE DEF chosen
<1>7. Min(chosen) \in chosen
  <2> DEFINE g == [d \in 1..4 |-> d]
  <2>1. g \in [1..4 -> Int] /\ \A e \in chosen : g[e] = e
    BY <1>5
  <2>2. {g[e] : e \in chosen} = chosen
    BY <2>1
  <2> HIDE DEF g
  <2>3. \E d \in chosen : g[d] = Min({g[e] : e \in chosen})
    BY <1>5, <2>1, MinOfFour
  <2> QED BY <2>1, <2>2, <2>3
<1> QED BY <1>1, <1>5, <1>6, <1>7

LEMMA PlacedFacts ==
  ASSUME PlacementInv
  PROVE  HintIsOnScreen /\ HintIsBeside
<1> DEFINE c == Candidates[Best]
           x == Clamped(c.left, Width, size.width)
           y == Clamped(c.top, Height, size.height)
<1>1. /\ c = RectAt(c.left, c.top, size.width, size.height)
      /\ c.left \in Int /\ c.top \in Int /\ ~Covers(c, item)
  BY BestFacts, CandidateFacts
<1>2. size.width \in Nat /\ size.height \in Nat /\ Width \in Nat /\ Height \in Nat
  BY PlacementNumbers, PlacementAssumption
<1>3. placed # NotPlaced => placed = RectAt(x, y, size.width, size.height)
  BY DEF PlacementInv
<1>4. (\E d \in 1..4 : Inside(Candidates[d])) => Inside(c)
  BY BestFacts
<1> HIDE DEF c
<1>5. ASSUME size.width <= Width, size.height <= Height
      PROVE  /\ x \in Int /\ y \in Int /\ 0 <= x /\ 0 <= y
             /\ x + size.width <= Width /\ y + size.height <= Height
             /\ Inside(c) => x = c.left /\ y = c.top
  <2>1. /\ x \in Int /\ 0 <= x /\ x + size.width <= Width
        /\ 0 <= c.left /\ c.left + size.width <= Width => x = c.left
    BY <1>1, <1>2, <1>5, ClampedFacts
  <2>2. /\ y \in Int /\ 0 <= y /\ y + size.height <= Height
        /\ 0 <= c.top /\ c.top + size.height <= Height => y = c.top
    BY <1>1, <1>2, <1>5, ClampedFacts
  <2>3. /\ c.right = c.left + size.width
        /\ c.bottom = c.top + size.height
    BY <1>1 DEF RectAt
  <2> HIDE DEF x, y
  <2> QED BY <2>1, <2>2, <2>3 DEF Inside
<1> HIDE DEF x, y
<1>6. HintIsOnScreen
  <2> SUFFICES ASSUME placed # NotPlaced, size.width <= Width, size.height <= Height
               PROVE  Inside(placed)
    BY DEF HintIsOnScreen
  <2>1. /\ placed.left = x /\ placed.top = y /\ placed.right = x + size.width
        /\ placed.bottom = y + size.height
    BY <1>3 DEF RectAt
  <2> QED BY <1>5, <2>1 DEF Inside
<1>7. HintIsBeside
  <2> SUFFICES ASSUME placed # NotPlaced, \E d \in 1..4 : Inside(Candidates[d])
               PROVE  ~Covers(placed, item)
    BY DEF HintIsBeside
  <2>1. Inside(c)
    BY <1>4
  <2>2. c.right = c.left + size.width /\ c.bottom = c.top + size.height
    BY <1>1 DEF RectAt
  <2>3. size.width <= Width /\ size.height <= Height
    BY <1>1, <1>2, <2>1, <2>2 DEF Inside
  <2>4. placed = c
    BY <1>1, <1>3, <1>5, <2>1, <2>3
  <2> QED BY <1>1, <2>4
<1> QED BY <1>6, <1>7

-----------------------------------------------------------------------------
\* The whole.

SurfaceInv == turn \in {"frontends", "placement"} /\ FrontInv /\ PlacementInv

LEMMA InitHolds == ASSUME Init PROVE SurfaceInv
<1>1. HintInit /\ FrontendsInit /\ turn \in {"frontends", "placement"}
  BY DEF Init
<1>2. queue \in Seq(Messages)
  BY <1>1 DEF HintInit, Messages
<1>3. HintTypeOK /\ HintInv
  BY <1>1, <1>2 DEF HintInit, HintTypeOK, HintInv, NoTimer, Messages, FrontendsInit
<1>4. /\ settings \in Snapshots /\ settings.version = 0
      /\ channel \in Seq(Snapshots) /\ clicks \in Seq({"zen", "hints", "status"})
  BY <1>1, <1>3, FrontendsAssumption DEF FrontendsInit, Snapshots, HintTypeOK
<1>5. FrontendsTypeOK
  BY <1>1, <1>4, FrontendsAssumption DEF FrontendsInit, FrontendsTypeOK, NoExchange, NoHelper
<1>6. CliInv /\ HelperInv /\ ClicksInv
  BY <1>1, <1>4 DEF FrontendsInit, CliInv, HelperInv, ClicksInv, NoExchange, NoHelper
<1>7. PlacementInv
  <2>1. CASE turn = "frontends"
    <3>1. /\ item = RectAt(0, 0, 1, 1) /\ placed = NotPlaced
          /\ gap \in Gaps /\ size \in [width: 1..MaxSize, height: 1..MaxSize]
      BY <2>1, PlacementAssumption DEF Init, NoItem
    <3>2. \E x, y \in Int, w, h \in Nat \ {0} : item = RectAt(x, y, w, h)
      BY <3>1
    <3> QED BY <3>1, <3>2 DEF PlacementInv, RectAt, WorkArea, NotPlaced
  <2>2. CASE turn = "placement"
    <3>1. PlacementInit
      BY <2>2 DEF Init
    <3>2. Max({Width, Height}) \in Int
      BY MaxOfTwo, PlacementAssumption
    <3>3. Coordinates \subseteq Int
      BY <3>2, PlacementAssumption DEF Coordinates
    <3>4. PICK x \in Int, y \in Int, w \in 1..MaxSize, h \in 1..MaxSize : item = RectAt(x, y, w, h)
      BY <3>1, <3>3 DEF PlacementInit
    <3>5. \E i, j \in Int, w2, h2 \in Nat \ {0} : item = RectAt(i, j, w2, h2)
      <4>1. w \in Nat \ {0} /\ h \in Nat \ {0}
        BY <3>4
      <4> QED BY <3>4, <4>1
    <3>6. DOMAIN item = DOMAIN WorkArea /\ DOMAIN NotPlaced = DOMAIN WorkArea
      BY <3>4 DEF RectAt, WorkArea, NotPlaced
    <3>7. \E x1, y1 \in Int, w1, h1 \in Nat \ {0} : item = RectAt(x1, y1, w1, h1)
      BY <3>5
    <3>8. /\ size \in [width: 1..MaxSize, height: 1..MaxSize] /\ gap \in Gaps
          /\ placed = NotPlaced
      BY <3>1 DEF PlacementInit
    <3> QED BY <3>6, <3>7, <3>8 DEF PlacementInv
  <2> QED BY <1>1, <2>1, <2>2
<1> QED BY <1>1, <1>3, <1>5, <1>6, <1>7 DEF SurfaceInv, FrontInv

LEMMA Unmoved ==
  ASSUME UNCHANGED <<item, size, gap>>
  PROVE  Candidates' = Candidates /\ Best' = Best
<1>1. Candidates' = Candidates
  BY DEF Candidates
<1>2. Best' = Best
  BY <1>1 DEF Best, Preferring, Overflow, Inside, Covers
<1> QED BY <1>1, <1>2

LEMMA StepHolds == ASSUME SurfaceInv, [Next]_vars PROVE SurfaceInv'
<1>1. CASE turn = "frontends" /\ FrontendsNext /\ UNCHANGED <<turn, placementVars>>
  <2>1. FrontInv'
    BY <1>1, CliStep, HelperStep, MenuStep, RefreshStep, ClickStep, AgentStep
       DEF SurfaceInv, FrontendsNext
  <2>2. PlacementInv'
    BY <1>1, Unmoved DEF SurfaceInv, PlacementInv, placementVars
  <2> QED BY <1>1, <2>1, <2>2 DEF SurfaceInv
<1>2. CASE turn = "placement" /\ Place /\ UNCHANGED <<turn, hintVars, frontendVars>>
  <2>1. FrontInv'
    BY <1>2, HintUnchanged
       DEF SurfaceInv, FrontInv, frontendVars, FrontendsTypeOK, CliInv, HelperInv, ClicksInv
  <2>2. PlacementInv'
    <3>1. UNCHANGED <<item, size, gap>>
      BY <1>2 DEF Place
    <3>2. Best' = Best /\ Candidates' = Candidates
      BY <3>1, Unmoved
    <3>4. placed' = RectAt(Clamped(Candidates[Best].left, Width, size.width),
                           Clamped(Candidates[Best].top, Height, size.height),
                           size.width, size.height)
      BY <1>2 DEF Place
    <3>5. DOMAIN placed' = DOMAIN WorkArea
      BY <3>4 DEF RectAt, WorkArea
    <3> QED BY <3>1, <3>2, <3>4, <3>5 DEF SurfaceInv, PlacementInv
  <2> QED BY <1>2, <2>1, <2>2 DEF SurfaceInv
<1>3. CASE UNCHANGED vars
  <2>1. FrontInv'
    BY <1>3, HintUnchanged
       DEF vars, SurfaceInv, FrontInv, frontendVars, FrontendsTypeOK, CliInv, HelperInv, ClicksInv
  <2>2. PlacementInv'
    BY <1>3, Unmoved DEF vars, SurfaceInv, PlacementInv, placementVars
  <2> QED BY <1>3, <2>1, <2>2 DEF SurfaceInv, vars
<1> QED BY <1>1, <1>2, <1>3 DEF Next

LEMMA InvariantHolds == Spec => []SurfaceInv
  BY InitHolds, StepHolds, PTL DEF Spec

-----------------------------------------------------------------------------
\* The state has its type (agent_runtime.rs, windows_tray_theme.rs, cli.rs).
THEOREM SurfaceTypeCorrect == Spec => []TypeOK
<1>1. SurfaceInv => TypeOK
  BY DEF SurfaceInv, FrontInv, TypeOK, PlacementInv, PlacementTypeOK
<1> QED BY <1>1, InvariantHolds, PTL

\* A hint that stays on the screen explains the item under the cursor of an open menu,
\* however late the messages and the timer of windows_tray_theme.rs come.
THEOREM HintIsCurrentHolds == Spec => []HintIsCurrent
<1>1. SurfaceInv => HintIsCurrent
  BY DEF SurfaceInv, FrontInv, HintInv, Hiding, HintIsCurrent
<1> QED BY <1>1, InvariantHolds, PTL

\* A click is computed from a snapshot not older than the answer to the click before it
\* (the drain of the channel in run_native_tray_loop).
THEOREM ClicksDoNotGoBackHolds == Spec => []ClicksDoNotGoBack
<1>1. SurfaceInv => ClicksDoNotGoBack
  BY DEF SurfaceInv, FrontInv, ClicksInv, ClicksDoNotGoBack
<1> QED BY <1>1, InvariantHolds, PTL

\* runnermesh prints a snapshot only of a command that was run (ipc.rs, cli.rs).
THEOREM PrintedWasRunHolds == Spec => []PrintedWasRun
<1>1. SurfaceInv => PrintedWasRun
  BY DEF SurfaceInv, FrontInv, CliInv, PrintedWasRun
<1> QED BY <1>1, InvariantHolds, PTL

\* The helper says that its own build will stop only of an Agent of that build
\* (request_stop_after_drain).
THEOREM AcceptedWasOursHolds == Spec => []AcceptedWasOurs
<1>1. SurfaceInv => AcceptedWasOurs
  BY DEF SurfaceInv, FrontInv, HelperInv, AcceptedWasOurs
<1> QED BY <1>1, InvariantHolds, PTL

\* For every screen, item, size and gap: a hint that fits is shown on the screen, and beside
\* its item if it can be (choose_tooltip_placement, clamp_to_work_area).
THEOREM HintPlacementHolds == Spec => []HintIsPlacedWell
<1>1. SurfaceInv => HintIsPlacedWell
  BY PlacedFacts DEF SurfaceInv, HintIsPlacedWell
<1> QED BY <1>1, InvariantHolds, PTL
================================================================================
