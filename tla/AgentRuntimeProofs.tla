--------------------------- MODULE AgentRuntimeProofs ---------------------------
(***************************************************************************)
(* Proofs about AgentRuntime: types and the room in the channel, the       *)
(* absence of waits that cannot end, the evidence for an exit, and the     *)
(* restraint of a runtime without selector authority.                      *)
(***************************************************************************)
EXTENDS AgentRuntime, SequenceTheorems, TLAPS

-----------------------------------------------------------------------------
\* The cycle.

\* Each outcome of a cycle is a truth value on GitHub and a claim, and DRAINED is
\* claimed only with the label off and no Worker.
LEMMA OutcomesSound ==
  ASSUME NEW want \in {"Full", "Drained"}, NEW l \in BOOLEAN, NEW online, NEW busy,
         NEW trusted, NEW quiet, NEW r \in Outcomes(want, l, online, busy, trusted, quiet)
  PROVE  /\ r.label \in BOOLEAN /\ r.claim \in Claims
         /\ r.claim = "DRAINED" => ~r.label /\ ~busy
         /\ ~trusted => r.label = l /\ r.claim = "none"
<1> DEFINE s == Settled(want, online, busy)
<1>1. s.label \in BOOLEAN /\ s.claim \in Claims
  BY DEF Settled, Outcome, Claims
<1>2. s.claim = "DRAINED" => ~s.label /\ ~busy
  BY DEF Settled, Outcome
<1>3. CASE r = s /\ trusted
  BY <1>1, <1>2, <1>3
<1>4. CASE \E k \in {l, s.label} : r = Outcome(k, "none") /\ trusted
  BY <1>1, <1>4 DEF Outcome, Claims
<1>5. CASE ~trusted
  BY <1>5 DEF Outcomes, Outcome, Claims
<1> QED
  BY <1>3, <1>4, <1>5 DEF Outcomes

LEMMA CycleType ==
  ASSUME TypeOK, NEW i \in Intents, Cycle(i)
  PROVE  label' \in BOOLEAN /\ claim' \in Claims
<1>1. PICK want \in Permitted(i) :
        \E r \in Outcomes(want, label, listener, job, configured /\ listener, calm) :
          label' = r.label /\ claim' = r.claim
  BY DEF Cycle
<1>2. want \in {"Full", "Drained"}
  BY <1>1 DEF Permitted
<1> QED
  BY <1>1, <1>2, OutcomesSound DEF TypeOK

\* Only a cycle that finds the label off and no Worker claims DRAINED.
LEMMA CycleDrained ==
  ASSUME TypeOK, NEW i, Cycle(i), claim' = "DRAINED"
  PROVE  ~label' /\ ~job
<1>1. PICK want \in Permitted(i) :
        \E r \in Outcomes(want, label, listener, job, configured /\ listener, calm) :
          label' = r.label /\ claim' = r.claim
  BY DEF Cycle
<1>2. want \in {"Full", "Drained"}
  BY <1>1 DEF Permitted
<1> QED
  BY <1>1, <1>2, OutcomesSound DEF TypeOK

\* Without authority a cycle does nothing.
LEMMA CycleUnconfigured ==
  ASSUME ~configured, NEW i, Cycle(i)
  PROVE  label' = label /\ claim' = "none"
  BY DEF Cycle, Outcomes, Outcome

-----------------------------------------------------------------------------
\* The inductive invariant.  The channel has room for the snapshot of the request
\* under way and for that of a click that is still dialling; without authority
\* there never was a claim.

Pending == (IF client # "none" THEN 1 ELSE 0) + (IF tray = "dialling" THEN 1 ELSE 0)
Room == tray = "ended" \/ Len(channel) + Pending <= MaxQueued
Unclaimed == ~configured => claim = "none"

IInv == TypeOK /\ NobodyWaitsInVain /\ Room /\ Unclaimed

LEMMA InitInv == Init => IInv
<1> SUFFICES ASSUME Init PROVE IInv
  OBVIOUS
<1>0. label \in BOOLEAN /\ claim \in Claims /\ (~configured => claim = "none")
  <2>1. PICK want \in Permitted(intent), before \in BOOLEAN :
          \E r \in Outcomes(want, before, listener, job, configured /\ listener, calm) :
            label = r.label /\ claim = r.claim
    BY DEF Init
  <2>2. want \in {"Full", "Drained"}
    BY <2>1 DEF Permitted
  <2>3. PICK r \in Outcomes(want, before, listener, job, configured /\ listener, calm) :
          label = r.label /\ claim = r.claim
    BY <2>1
  <2> DEFINE trusted == configured /\ listener
  <2>4. /\ r.label \in BOOLEAN /\ r.claim \in Claims
        /\ ~trusted => r.claim = "none"
    <3>1. r \in Outcomes(want, before, listener, job, trusted, calm)
      BY <2>3
    <3> HIDE DEF trusted
    <3> QED
      BY <2>1, <2>2, <3>1, OutcomesSound
  <2>5. label \in BOOLEAN /\ claim \in Claims
    BY <2>3, <2>4, Zenon
  <2>6. ~configured => claim = "none"
    BY <2>3, <2>4
  <2> QED
    BY <2>5, <2>6
<1>1. channel \in Seq(Claims) /\ Len(channel) = 0
  BY DEF Init
<1>2. channel \in Seq(Claims) /\ Len(channel) <= MaxQueued
  BY <1>1, RuntimeAssumption
<1>3. /\ job \in BOOLEAN /\ listener \in BOOLEAN /\ calm \in BOOLEAN
      /\ due \in BOOLEAN /\ requested \in BOOLEAN /\ afterDrain \in BOOLEAN
  BY DEF Init
<1>4. TypeOK
  BY <1>0, <1>2, <1>3 DEF Init, TypeOK
<1>5. NobodyWaitsInVain
  BY DEF Init, NobodyWaitsInVain
<1>6. Room
  BY <1>1, RuntimeAssumption DEF Init, Room, Pending
<1> QED
  BY <1>0, <1>4, <1>5, <1>6 DEF IInv, Unclaimed

\* Steps of the tray loop that leave the core and the channel alone.
LEMMA TrayControlInv == IInv /\ (LeaveLoop \/ GoPolling \/ SkipPolling \/ LockForPoll \/ SnapshotsTaken \/ NoClick \/ Click \/ TrayConnects \/ DialTimesOut \/ StartJoining \/ Joined) => IInv'
<1> SUFFICES ASSUME IInv, LeaveLoop \/ GoPolling \/ SkipPolling \/ LockForPoll \/ SnapshotsTaken \/ NoClick \/ Click \/ TrayConnects \/ DialTimesOut \/ StartJoining \/ Joined PROVE IInv'
  OBVIOUS
<1> USE RuntimeAssumption DEF IInv
<1>1. CASE LeaveLoop
  <2>1. TypeOK'
    BY <1>1 DEF LeaveLoop, TypeOK, remote, runner, core, trayVars, pipeVars, exit
  <2>2. NobodyWaitsInVain'
    BY <1>1 DEF LeaveLoop, TypeOK, NobodyWaitsInVain, remote, runner, core, trayVars, pipeVars, exit
  <2>3. Room' /\ Unclaimed'
    BY <1>1 DEF LeaveLoop, TypeOK, NobodyWaitsInVain, Room, Pending, Unclaimed, remote, runner, core, trayVars, pipeVars, exit
  <2> QED
    BY <2>1, <2>2, <2>3
<1>2. CASE GoPolling
  <2>1. TypeOK'
    BY <1>2 DEF GoPolling, TypeOK, remote, runner, core, trayVars, pipeVars, exit
  <2>2. NobodyWaitsInVain'
    BY <1>2 DEF GoPolling, TypeOK, NobodyWaitsInVain, remote, runner, core, trayVars, pipeVars, exit
  <2>3. Room' /\ Unclaimed'
    BY <1>2 DEF GoPolling, TypeOK, NobodyWaitsInVain, Room, Pending, Unclaimed, remote, runner, core, trayVars, pipeVars, exit
  <2> QED
    BY <2>1, <2>2, <2>3
<1>3. CASE SkipPolling
  <2>1. TypeOK'
    BY <1>3 DEF SkipPolling, TypeOK, remote, runner, core, trayVars, pipeVars, exit
  <2>2. NobodyWaitsInVain'
    BY <1>3 DEF SkipPolling, TypeOK, NobodyWaitsInVain, remote, runner, core, trayVars, pipeVars, exit
  <2>3. Room' /\ Unclaimed'
    BY <1>3 DEF SkipPolling, TypeOK, NobodyWaitsInVain, Room, Pending, Unclaimed, remote, runner, core, trayVars, pipeVars, exit
  <2> QED
    BY <2>1, <2>2, <2>3
<1>4. CASE LockForPoll
  <2>1. TypeOK'
    BY <1>4 DEF LockForPoll, TypeOK, remote, runner, core, trayVars, pipeVars, exit
  <2>2. NobodyWaitsInVain'
    BY <1>4 DEF LockForPoll, TypeOK, NobodyWaitsInVain, remote, runner, core, trayVars, pipeVars, exit
  <2>3. Room' /\ Unclaimed'
    BY <1>4 DEF LockForPoll, TypeOK, NobodyWaitsInVain, Room, Pending, Unclaimed, remote, runner, core, trayVars, pipeVars, exit
  <2> QED
    BY <2>1, <2>2, <2>3
<1>5. CASE SnapshotsTaken
  <2>1. TypeOK'
    BY <1>5 DEF SnapshotsTaken, TypeOK, remote, runner, core, trayVars, pipeVars, exit
  <2>2. NobodyWaitsInVain'
    BY <1>5 DEF SnapshotsTaken, TypeOK, NobodyWaitsInVain, remote, runner, core, trayVars, pipeVars, exit
  <2>3. Room' /\ Unclaimed'
    BY <1>5 DEF SnapshotsTaken, TypeOK, NobodyWaitsInVain, Room, Pending, Unclaimed, remote, runner, core, trayVars, pipeVars, exit
  <2> QED
    BY <2>1, <2>2, <2>3
<1>6. CASE NoClick
  <2>1. TypeOK'
    BY <1>6 DEF NoClick, TypeOK, remote, runner, core, trayVars, pipeVars, exit
  <2>2. NobodyWaitsInVain'
    BY <1>6 DEF NoClick, TypeOK, NobodyWaitsInVain, remote, runner, core, trayVars, pipeVars, exit
  <2>3. Room' /\ Unclaimed'
    BY <1>6 DEF NoClick, TypeOK, NobodyWaitsInVain, Room, Pending, Unclaimed, remote, runner, core, trayVars, pipeVars, exit
  <2> QED
    BY <2>1, <2>2, <2>3
<1>7. CASE Click
  <2>1. TypeOK'
    BY <1>7 DEF Click, TypeOK, remote, runner, core, trayVars, pipeVars, exit
  <2>2. NobodyWaitsInVain'
    BY <1>7 DEF Click, TypeOK, NobodyWaitsInVain, remote, runner, core, trayVars, pipeVars, exit
  <2>3. Room' /\ Unclaimed'
    BY <1>7 DEF Click, TypeOK, NobodyWaitsInVain, Room, Pending, Unclaimed, remote, runner, core, trayVars, pipeVars, exit
  <2> QED
    BY <2>1, <2>2, <2>3
<1>8. CASE TrayConnects
  <2>1. TypeOK'
    BY <1>8 DEF TrayConnects, TypeOK, remote, runner, core, trayVars, pipeVars, exit
  <2>2. NobodyWaitsInVain'
    BY <1>8 DEF TrayConnects, TypeOK, NobodyWaitsInVain, remote, runner, core, trayVars, pipeVars, exit
  <2>3. Room' /\ Unclaimed'
    BY <1>8 DEF TrayConnects, TypeOK, NobodyWaitsInVain, Room, Pending, Unclaimed, remote, runner, core, trayVars, pipeVars, exit
  <2> QED
    BY <2>1, <2>2, <2>3
<1>9. CASE DialTimesOut
  <2>1. TypeOK'
    BY <1>9 DEF DialTimesOut, TypeOK, remote, runner, core, trayVars, pipeVars, exit
  <2>2. NobodyWaitsInVain'
    BY <1>9 DEF DialTimesOut, TypeOK, NobodyWaitsInVain, remote, runner, core, trayVars, pipeVars, exit
  <2>3. Room' /\ Unclaimed'
    BY <1>9 DEF DialTimesOut, TypeOK, NobodyWaitsInVain, Room, Pending, Unclaimed, remote, runner, core, trayVars, pipeVars, exit
  <2> QED
    BY <2>1, <2>2, <2>3
<1>10. CASE StartJoining
  <2>1. TypeOK'
    BY <1>10 DEF StartJoining, TypeOK, remote, runner, core, trayVars, pipeVars, exit
  <2>2. NobodyWaitsInVain'
    BY <1>10 DEF StartJoining, TypeOK, NobodyWaitsInVain, remote, runner, core, trayVars, pipeVars, exit
  <2>3. Room' /\ Unclaimed'
    BY <1>10 DEF StartJoining, TypeOK, NobodyWaitsInVain, Room, Pending, Unclaimed, remote, runner, core, trayVars, pipeVars, exit
  <2> QED
    BY <2>1, <2>2, <2>3
<1>11. CASE Joined
  <2>1. TypeOK'
    BY <1>11 DEF Joined, TypeOK, remote, runner, core, trayVars, pipeVars, exit
  <2>2. NobodyWaitsInVain'
    BY <1>11 DEF Joined, TypeOK, NobodyWaitsInVain, remote, runner, core, trayVars, pipeVars, exit
  <2>3. Room' /\ Unclaimed'
    BY <1>11 DEF Joined, TypeOK, NobodyWaitsInVain, Room, Pending, Unclaimed, remote, runner, core, trayVars, pipeVars, exit
  <2> QED
    BY <2>1, <2>2, <2>3
<1> QED
  BY <1>1, <1>2, <1>3, <1>4, <1>5, <1>6, <1>7, <1>8, <1>9, <1>10, <1>11

\* Steps of the pipe loop that leave the core and the channel alone.
LEMMA PipeControlInv == IInv /\ (EndPipe \/ Listen \/ ReadFrame \/ LockForCommand) => IInv'
<1> SUFFICES ASSUME IInv, EndPipe \/ Listen \/ ReadFrame \/ LockForCommand PROVE IInv'
  OBVIOUS
<1> USE RuntimeAssumption DEF IInv
<1>1. CASE EndPipe
  <2>1. TypeOK'
    BY <1>1 DEF EndPipe, TypeOK, remote, runner, core, trayVars, pipeVars, exit
  <2>2. NobodyWaitsInVain'
    BY <1>1 DEF EndPipe, TypeOK, NobodyWaitsInVain, remote, runner, core, trayVars, pipeVars, exit
  <2>3. Room' /\ Unclaimed'
    BY <1>1 DEF EndPipe, TypeOK, NobodyWaitsInVain, Room, Pending, Unclaimed, remote, runner, core, trayVars, pipeVars, exit
  <2> QED
    BY <2>1, <2>2, <2>3
<1>2. CASE Listen
  <2>1. TypeOK'
    BY <1>2 DEF Listen, TypeOK, remote, runner, core, trayVars, pipeVars, exit
  <2>2. NobodyWaitsInVain'
    BY <1>2 DEF Listen, TypeOK, NobodyWaitsInVain, remote, runner, core, trayVars, pipeVars, exit
  <2>3. Room' /\ Unclaimed'
    BY <1>2 DEF Listen, TypeOK, NobodyWaitsInVain, Room, Pending, Unclaimed, remote, runner, core, trayVars, pipeVars, exit
  <2> QED
    BY <2>1, <2>2, <2>3
<1>3. CASE ReadFrame
  <2>1. TypeOK'
    BY <1>3 DEF ReadFrame, TypeOK, remote, runner, core, trayVars, pipeVars, exit
  <2>2. NobodyWaitsInVain'
    BY <1>3 DEF ReadFrame, TypeOK, NobodyWaitsInVain, remote, runner, core, trayVars, pipeVars, exit
  <2>3. Room' /\ Unclaimed'
    BY <1>3 DEF ReadFrame, TypeOK, NobodyWaitsInVain, Room, Pending, Unclaimed, remote, runner, core, trayVars, pipeVars, exit
  <2> QED
    BY <2>1, <2>2, <2>3
<1>4. CASE LockForCommand
  <2>1. TypeOK'
    BY <1>4 DEF LockForCommand, TypeOK, remote, runner, core, trayVars, pipeVars, exit
  <2>2. NobodyWaitsInVain'
    BY <1>4 DEF LockForCommand, TypeOK, NobodyWaitsInVain, remote, runner, core, trayVars, pipeVars, exit
  <2>3. Room' /\ Unclaimed'
    BY <1>4 DEF LockForCommand, TypeOK, NobodyWaitsInVain, Room, Pending, Unclaimed, remote, runner, core, trayVars, pipeVars, exit
  <2> QED
    BY <2>1, <2>2, <2>3
<1> QED
  BY <1>1, <1>2, <1>3, <1>4

\* Clients, time and the runner.
LEMMA SurroundingsInv == IInv /\ (ClientConnects \/ ClientLeaves \/ SecondPasses \/ JobStarts \/ JobEnds \/ ListenerChanges \/ Quieten) => IInv'
<1> SUFFICES ASSUME IInv, ClientConnects \/ ClientLeaves \/ SecondPasses \/ JobStarts \/ JobEnds \/ ListenerChanges \/ Quieten PROVE IInv'
  OBVIOUS
<1> USE RuntimeAssumption DEF IInv
<1>1. CASE ClientConnects
  <2>1. TypeOK'
    BY <1>1 DEF ClientConnects, TypeOK, remote, runner, core, trayVars, pipeVars, exit
  <2>2. NobodyWaitsInVain'
    BY <1>1 DEF ClientConnects, TypeOK, NobodyWaitsInVain, remote, runner, core, trayVars, pipeVars, exit
  <2>3. Room' /\ Unclaimed'
    BY <1>1 DEF ClientConnects, TypeOK, NobodyWaitsInVain, Room, Pending, Unclaimed, remote, runner, core, trayVars, pipeVars, exit
  <2> QED
    BY <2>1, <2>2, <2>3
<1>2. CASE ClientLeaves
  <2>1. TypeOK'
    BY <1>2 DEF ClientLeaves, TypeOK, remote, runner, core, trayVars, pipeVars, exit
  <2>2. NobodyWaitsInVain'
    BY <1>2 DEF ClientLeaves, TypeOK, NobodyWaitsInVain, remote, runner, core, trayVars, pipeVars, exit
  <2>3. Room' /\ Unclaimed'
    BY <1>2 DEF ClientLeaves, TypeOK, NobodyWaitsInVain, Room, Pending, Unclaimed, remote, runner, core, trayVars, pipeVars, exit
  <2> QED
    BY <2>1, <2>2, <2>3
<1>3. CASE SecondPasses
  <2>1. TypeOK'
    BY <1>3 DEF SecondPasses, TypeOK, remote, runner, core, trayVars, pipeVars, exit
  <2>2. NobodyWaitsInVain'
    BY <1>3 DEF SecondPasses, TypeOK, NobodyWaitsInVain, remote, runner, core, trayVars, pipeVars, exit
  <2>3. Room' /\ Unclaimed'
    BY <1>3 DEF SecondPasses, TypeOK, NobodyWaitsInVain, Room, Pending, Unclaimed, remote, runner, core, trayVars, pipeVars, exit
  <2> QED
    BY <2>1, <2>2, <2>3
<1>4. CASE JobStarts
  <2>1. TypeOK'
    BY <1>4 DEF JobStarts, StartJob, threads, TypeOK, remote, runner, core, trayVars, pipeVars, exit
  <2>2. NobodyWaitsInVain'
    BY <1>4 DEF JobStarts, StartJob, threads, TypeOK, NobodyWaitsInVain, remote, runner, core, trayVars, pipeVars, exit
  <2>3. Room' /\ Unclaimed'
    BY <1>4 DEF JobStarts, StartJob, threads, TypeOK, NobodyWaitsInVain, Room, Pending, Unclaimed, remote, runner, core, trayVars, pipeVars, exit
  <2> QED
    BY <2>1, <2>2, <2>3
<1>5. CASE JobEnds
  <2>1. TypeOK'
    <3>1. job' \in BOOLEAN /\ UNCHANGED <<label, listener, calm, configured, core, threads>>
      BY <1>5 DEF JobEnds, EndJob
    <3> QED
      BY <3>1 DEF TypeOK, threads, remote, runner, core, trayVars, pipeVars, exit
  <2>2. NobodyWaitsInVain'
    BY <1>5 DEF JobEnds, EndJob, threads, TypeOK, NobodyWaitsInVain, remote, runner, core, trayVars, pipeVars, exit
  <2>3. Room' /\ Unclaimed'
    BY <1>5 DEF JobEnds, EndJob, threads, TypeOK, NobodyWaitsInVain, Room, Pending, Unclaimed, remote, runner, core, trayVars, pipeVars, exit
  <2> QED
    BY <2>1, <2>2, <2>3
<1>6. CASE ListenerChanges
  <2>1. TypeOK'
    <3>1. /\ job' \in BOOLEAN /\ listener' \in BOOLEAN
          /\ UNCHANGED <<label, calm, configured, core, threads>>
      BY <1>6 DEF ListenerChanges, ChangeListener
    <3> QED
      BY <3>1 DEF TypeOK, threads, remote, runner, core, trayVars, pipeVars, exit
  <2>2. NobodyWaitsInVain'
    BY <1>6 DEF ListenerChanges, ChangeListener, threads, TypeOK, NobodyWaitsInVain, remote, runner, core, trayVars, pipeVars, exit
  <2>3. Room' /\ Unclaimed'
    BY <1>6 DEF ListenerChanges, ChangeListener, threads, TypeOK, NobodyWaitsInVain, Room, Pending, Unclaimed, remote, runner, core, trayVars, pipeVars, exit
  <2> QED
    BY <2>1, <2>2, <2>3
<1>7. CASE Quieten
  <2>1. TypeOK'
    BY <1>7 DEF Quieten, CalmDown, threads, TypeOK, remote, runner, core, trayVars, pipeVars, exit
  <2>2. NobodyWaitsInVain'
    BY <1>7 DEF Quieten, CalmDown, threads, TypeOK, NobodyWaitsInVain, remote, runner, core, trayVars, pipeVars, exit
  <2>3. Room' /\ Unclaimed'
    BY <1>7 DEF Quieten, CalmDown, threads, TypeOK, NobodyWaitsInVain, Room, Pending, Unclaimed, remote, runner, core, trayVars, pipeVars, exit
  <2> QED
    BY <2>1, <2>2, <2>3
<1> QED
  BY <1>1, <1>2, <1>3, <1>4, <1>5, <1>6, <1>7

-----------------------------------------------------------------------------
\* Steps that use the core.

CoreTyped ==
  /\ label \in BOOLEAN /\ job \in BOOLEAN /\ listener \in BOOLEAN /\ calm \in BOOLEAN
  /\ configured \in Authorities /\ intent \in Intents /\ claim \in Claims
  /\ due \in BOOLEAN /\ requested \in BOOLEAN /\ afterDrain \in BOOLEAN
  /\ process \in {"running", "joining", "exited"}

\* A reply that sends one snapshot takes the room that its request had reserved.
LEMMA FinishQueue ==
  ASSUME IInv, pipe = "handling", NEW s, s = <<>> \/ \E c \in Claims : s = <<c>>, Finish(s)
  PROVE  /\ channel' \in Seq(Claims) /\ Len(channel') <= MaxQueued
         /\ Room' /\ shown' \in Claims
<1> USE RuntimeAssumption DEF IInv
<1>1. channel \in Seq(Claims) /\ Len(channel) \in Nat /\ Len(channel) <= MaxQueued
  BY LenProperties DEF TypeOK
<1>2. client # "none"
  BY DEF NobodyWaitsInVain
<1>3. s \in Seq(Claims) /\ Len(s) \in Nat /\ Len(s) <= 1 /\ (s # <<>> => Head(s) \in Claims)
  <2>1. CASE s = <<>>
    BY <2>1
  <2>2. ASSUME NEW c \in Claims, s = <<c>>
        PROVE  s \in Seq(Claims) /\ Len(s) = 1 /\ Head(s) \in Claims
    BY <2>2
  <2> QED
    BY <2>1, <2>2
<1>4. tray' = "dialling" => tray = "dialling"
  BY DEF Finish
<1>5. tray = "ended" <=> tray' = "ended"
  BY DEF Finish, NobodyWaitsInVain
<1>6. CASE tray = "ended"
  BY <1>1, <1>3, <1>5, <1>6 DEF Finish, Sent, Room, TypeOK
<1>7. CASE tray # "ended"
  <2>1. channel' = channel \o s
    BY <1>7 DEF Finish, Sent
  <2>2. channel' \in Seq(Claims) /\ Len(channel') = Len(channel) + Len(s)
    BY <1>1, <1>3, <2>1
  <2>3. Len(channel') <= MaxQueued /\ Room'
    BY <1>1, <1>2, <1>3, <1>4, <1>7, <2>2 DEF Finish, Room, Pending
  <2> QED
    BY <1>3, <2>2, <2>3 DEF Finish, TypeOK
<1> QED
  BY <1>6, <1>7

LEMMA FinishInv ==
  ASSUME IInv, pipe = "handling", NEW s, s = <<>> \/ \E c \in Claims : s = <<c>>, Finish(s),
         CoreTyped'
  PROVE  TypeOK' /\ NobodyWaitsInVain' /\ Room'
<1> USE DEF IInv
<1>1. NobodyWaitsInVain'
  BY DEF Finish, NobodyWaitsInVain
<1>2. /\ lock' \in {"free", "tray", "pipe"}
      /\ tray' \in {"top", "locking", "polling", "draining", "clicking", "dialling",
                    "awaiting", "ended"}
      /\ pipe' \in {"checking", "listening", "reading", "locking", "handling", "ended"}
      /\ client' \in {"none", "tray"} \cup Clients
      /\ command' \in Requests \cup {"none"}
  BY DEF Finish, TypeOK
<1> QED
  BY <1>1, <1>2, FinishQueue DEF TypeOK, CoreTyped

LEMMA PollInv == IInv /\ (Poll \/ PollFails \/ TakeSnapshot) => IInv'
<1> SUFFICES ASSUME IInv, Poll \/ PollFails \/ TakeSnapshot PROVE IInv'
  OBVIOUS
<1> USE RuntimeAssumption DEF IInv
<1>1. CASE Poll
  <2>1. label' \in BOOLEAN /\ claim' \in Claims
    BY <1>1, CycleType DEF Poll, PollCore, TypeOK
  <2>2. (requested \/ (afterDrain /\ Drained)) \in BOOLEAN
    BY DEF TypeOK
  <2>3. requested' \in BOOLEAN /\ due' \in BOOLEAN
    BY <1>1, <2>2 DEF Poll
  <2>4. TypeOK'
    BY <1>1, <2>1, <2>3 DEF Poll, PollCore, runner, TypeOK, pipeVars
  <2>5. NobodyWaitsInVain' /\ Room'
    BY <1>1 DEF Poll, PollCore, TypeOK, NobodyWaitsInVain, Room, Pending, pipeVars
  <2>6. Unclaimed'
    BY <1>1, CycleUnconfigured DEF Poll, PollCore, runner, Unclaimed
  <2> QED
    BY <2>4, <2>5, <2>6
<1>2. CASE PollFails
  <2>1. due' \in BOOLEAN
    BY <1>2 DEF PollFails
  <2>2. TypeOK'
    BY <1>2, <2>1 DEF PollFails, TypeOK, remote, runner, core, pipeVars, exit
  <2>3. NobodyWaitsInVain' /\ Room' /\ Unclaimed'
    BY <1>2 DEF PollFails, TypeOK, NobodyWaitsInVain, Room, Pending, Unclaimed, remote, runner, core, pipeVars, exit
  <2> QED
    BY <2>2, <2>3
<1>3. CASE TakeSnapshot
  <2>1. channel \in Seq(Claims) /\ channel # <<>>
    BY <1>3 DEF TakeSnapshot, TypeOK
  <2>2. Head(channel) \in Claims /\ Tail(channel) \in Seq(Claims)
        /\ Len(Tail(channel)) = Len(channel) - 1 /\ Len(channel) \in Nat
    BY <2>1, HeadTailProperties, LenProperties
  <2>3. shown' \in Claims /\ channel' \in Seq(Claims) /\ Len(channel') = Len(channel) - 1
    BY <1>3, <2>2 DEF TakeSnapshot
  <2>4. TypeOK'
    BY <1>3, <2>2, <2>3 DEF TakeSnapshot, TypeOK, remote, runner, core, pipeVars, exit
  <2>5. NobodyWaitsInVain' /\ Unclaimed'
    BY <1>3 DEF TakeSnapshot, NobodyWaitsInVain, Unclaimed, remote, runner, core, pipeVars, exit
  <2>6. Room'
    BY <1>3, <2>2, <2>3 DEF TakeSnapshot, Room, Pending, TypeOK, pipeVars
  <2> QED
    BY <2>4, <2>5, <2>6
<1> QED
  BY <1>1, <1>2, <1>3

LEMMA CommandInv ==
  IInv /\ (Report \/ SetMode \/ ExitUnconfigured \/ ExitConfigured \/ CommandFails) => IInv'
<1> SUFFICES ASSUME IInv,
                    Report \/ SetMode \/ ExitUnconfigured \/ ExitConfigured \/ CommandFails
             PROVE  IInv'
  OBVIOUS
<1> USE DEF IInv
<1>1. CASE Report
  <2>1. CoreTyped' /\ Unclaimed'
    BY <1>1 DEF Report, CoreTyped, TypeOK, Unclaimed, remote, runner, core, exit
  <2>2. claim \in Claims /\ pipe = "handling" /\ Finish(<<claim>>)
    BY <1>1 DEF Report, Handling, TypeOK
  <2> QED
    BY <2>1, <2>2, FinishInv
<1>2. CASE SetMode
  <2>1. intent' \in Intents /\ Cycle(intent') /\ pipe = "handling"
    BY <1>2 DEF SetMode, Handling, Intents
  <2>2. label' \in BOOLEAN /\ claim' \in Claims
    BY <2>1, CycleType
  <2>3. CoreTyped'
    BY <1>2, <2>1, <2>2 DEF SetMode, CoreTyped, TypeOK, runner, exit
  <2>4. Unclaimed'
    BY <1>2, <2>1, CycleUnconfigured DEF SetMode, Unclaimed, runner
  <2>5. Finish(<<claim'>>)
    BY <1>2 DEF SetMode
  <2> QED
    BY <2>1, <2>2, <2>3, <2>4, <2>5, FinishInv
<1>3. CASE ExitUnconfigured
  <2>1. requested' \in BOOLEAN
    BY <1>3 DEF ExitUnconfigured
  <2>2. CoreTyped' /\ Unclaimed'
    BY <1>3, <2>1 DEF ExitUnconfigured, CoreTyped, TypeOK, Unclaimed, remote, runner, core
  <2>3. claim \in Claims /\ pipe = "handling" /\ Finish(<<claim>>)
    BY <1>3 DEF ExitUnconfigured, Handling, TypeOK
  <2> QED
    BY <2>2, <2>3, FinishInv
<1>4. CASE ExitConfigured
  <2>1. intent' \in Intents /\ Cycle(intent') /\ pipe = "handling"
    BY <1>4 DEF ExitConfigured, Handling, Intents
  <2>2. label' \in BOOLEAN /\ claim' \in Claims
    BY <2>1, CycleType
  <2>3. (requested \/ Drained) \in BOOLEAN
    BY DEF TypeOK
  <2>4. requested' \in BOOLEAN /\ afterDrain' \in BOOLEAN
    BY <1>4, <2>3 DEF ExitConfigured
  <2>5. CoreTyped'
    BY <1>4, <2>1, <2>2, <2>4 DEF ExitConfigured, CoreTyped, TypeOK, runner
  <2>6. Unclaimed'
    BY <1>4 DEF ExitConfigured, Unclaimed, runner
  <2>7. Finish(<<claim'>>)
    BY <1>4 DEF ExitConfigured
  <2> QED
    BY <2>1, <2>2, <2>5, <2>6, <2>7, FinishInv
<1>5. CASE CommandFails
  <2>1. intent' \in Intents /\ pipe = "handling" /\ Finish(<<>>)
    BY <1>5 DEF CommandFails, TypeOK, Intents
  <2>2. CoreTyped' /\ Unclaimed'
    BY <1>5, <2>1 DEF CommandFails, CoreTyped, TypeOK, Unclaimed, remote, runner, exit
  <2> QED
    BY <2>1, <2>2, FinishInv
<1> QED
  BY <1>1, <1>2, <1>3, <1>4, <1>5

LEMMA StutterInv == IInv /\ UNCHANGED vars => IInv'
  BY DEF IInv, vars, remote, runner, core, trayVars, pipeVars, exit,
         threads, TypeOK, NobodyWaitsInVain, Room, Pending, Unclaimed

LEMMA NextInv == IInv /\ [Next]_vars => IInv'
  BY TrayControlInv, PipeControlInv, SurroundingsInv, PollInv, CommandInv, StutterInv
     DEF Next, TrayStep, PipeStep

-----------------------------------------------------------------------------
\* Theorems.

\* The two threads preserve the inductive invariant.
THEOREM InductiveInvariant == Spec => []IInv
  BY InitInv, NextInv, PTL DEF Spec

\* Every variable keeps its type, and the channel never outgrows its bound.
THEOREM TypeCorrect == Spec => []TypeOK
<1>1. IInv => TypeOK
  BY DEF IInv
<1> QED
  BY <1>1, InductiveInvariant, PTL

\* The tray thread awaits only a pipe thread that works for it, and the core is
\* held only by a thread inside a call on it: the threads cannot deadlock.
THEOREM NoVainWait == Spec => []NobodyWaitsInVain
<1>1. IInv => NobodyWaitsInVain
  BY DEF IInv
<1> QED
  BY <1>1, InductiveInvariant, PTL

\* A step that raises the exit flag of a configured Agent reads DRAINED itself.
LEMMA ExitStep ==
  ASSUME IInv, Next, configured, ~requested, requested', tray # "ended"
  PROVE  claim' = "DRAINED" /\ ~label' /\ ~job'
<1>1. CASE Poll
  <2>1. claim' = "DRAINED" /\ Cycle(intent) /\ job' = job
    BY <1>1 DEF Poll, PollCore, runner, Drained
  <2> QED
    BY <2>1, CycleDrained DEF IInv
<1>2. CASE ExitConfigured
  <2>1. claim' = "DRAINED" /\ Cycle(intent') /\ job' = job
    BY <1>2 DEF ExitConfigured, runner, Drained
  <2> QED
    BY <2>1, CycleDrained DEF IInv
<1>3. CASE StartJoining \/ ExitUnconfigured
  BY <1>3 DEF StartJoining, ExitUnconfigured
<1>4. CASE LeaveLoop \/ GoPolling \/ SkipPolling \/ LockForPoll \/ PollFails \/ TakeSnapshot
           \/ SnapshotsTaken \/ NoClick \/ Click \/ TrayConnects \/ DialTimesOut \/ Joined
  BY <1>4 DEF LeaveLoop, GoPolling, SkipPolling, LockForPoll, PollFails, TakeSnapshot,
              SnapshotsTaken, NoClick, Click, TrayConnects, DialTimesOut, Joined, exit
<1>5. CASE EndPipe \/ Listen \/ ReadFrame \/ LockForCommand \/ Report \/ SetMode \/ CommandFails
  BY <1>5 DEF EndPipe, Listen, ReadFrame, LockForCommand, Report, SetMode, CommandFails, exit
<1>6. CASE ClientConnects \/ ClientLeaves \/ SecondPasses \/ JobStarts \/ JobEnds
           \/ ListenerChanges \/ Quieten
  BY <1>6 DEF ClientConnects, ClientLeaves, SecondPasses, JobStarts, JobEnds,
              ListenerChanges, Quieten, threads, exit
<1> QED
  BY <1>1, <1>2, <1>3, <1>4, <1>5, <1>6 DEF Next, TrayStep, PipeStep

\* With selector authority the flag is raised only in a step whose own readback
\* finds the selector absent and no Worker active.
THEOREM ExitOnlyWhenDrained == Spec => ExitNeedsDrained
<1>1. IInv /\ [Next]_vars =>
        [(configured /\ ~requested /\ requested' /\ tray # "ended")
           => claim' = "DRAINED" /\ ~label' /\ ~job']_vars
  BY ExitStep
<1> QED
  BY <1>1, InductiveInvariant, PTL DEF Spec, ExitNeedsDrained

\* Steps without selector authority leave the label and claim nothing.
LEMMA UnconfiguredStep ==
  ASSUME IInv, Next, ~configured
  PROVE  label' = label /\ claim' = "none"
<1>1. claim = "none"
  BY DEF IInv, Unclaimed
<1>2. CASE Poll
  BY <1>2, CycleUnconfigured DEF Poll, PollCore
<1>3. CASE SetMode
  BY <1>3, CycleUnconfigured DEF SetMode
<1>4. CASE LeaveLoop \/ GoPolling \/ SkipPolling \/ LockForPoll \/ PollFails \/ TakeSnapshot
           \/ SnapshotsTaken \/ NoClick \/ Click \/ TrayConnects \/ DialTimesOut
           \/ StartJoining \/ Joined
  BY <1>1, <1>4 DEF LeaveLoop, GoPolling, SkipPolling, LockForPoll, PollFails, TakeSnapshot,
              SnapshotsTaken, NoClick, Click, TrayConnects, DialTimesOut, StartJoining,
              Joined, remote, runner, core
<1>5. CASE EndPipe \/ Listen \/ ReadFrame \/ LockForCommand \/ Report \/ ExitUnconfigured
           \/ ExitConfigured \/ CommandFails
  BY <1>1, <1>5 DEF EndPipe, Listen, ReadFrame, LockForCommand, Report, ExitUnconfigured,
              ExitConfigured, CommandFails, remote, runner, core
<1>6. CASE ClientConnects \/ ClientLeaves \/ SecondPasses \/ JobStarts \/ JobEnds
           \/ ListenerChanges \/ Quieten
  BY <1>1, <1>6 DEF ClientConnects, ClientLeaves, SecondPasses, JobStarts, JobEnds,
              ListenerChanges, Quieten, StartJob, EndJob, ChangeListener, CalmDown, threads, remote, runner, core
<1> QED
  BY <1>2, <1>3, <1>4, <1>5, <1>6 DEF Next, TrayStep, PipeStep

\* Without selector authority the Agent claims nothing and leaves the label alone.
THEOREM AuthorityRespected == Spec => NoAuthorityNoMutation
<1>1. IInv /\ [Next]_vars => [~configured => label' = label /\ claim' = "none"]_vars
  BY UnconfiguredStep
<1> QED
  BY <1>1, InductiveInvariant, PTL DEF Spec, NoAuthorityNoMutation

\* Whatever the threads do, in whichever order they get the mutex, they touch the
\* label, the intent and the claim only through a step that the core offers.
THEOREM CoreUsedAsOffered == Spec => [][ViewNext]_viewVars
<1>1. [Next]_vars => [ViewNext]_viewVars
  <2> SUFFICES ASSUME [Next]_vars PROVE [ViewNext]_viewVars
    OBVIOUS
  <2>1. CASE Poll
    BY <2>1 DEF Poll, ViewNext
  <2>2. CASE SetMode \/ ExitConfigured
    BY <2>2 DEF SetMode, ExitConfigured, HandleCommand, Intents, ViewNext
  <2>3. CASE CommandFails
    <3>1. intent' = intent \/ intent' \in Intents
      BY <2>3 DEF CommandFails, Intents
    <3>2. UNCHANGED <<remote, claim>>
      BY <2>3 DEF CommandFails
    <3> QED
      BY <3>1, <3>2 DEF HandleCommand, remote, runner, core, viewVars, ViewNext
  <2>4. CASE JobStarts \/ JobEnds \/ ListenerChanges \/ Quieten
    BY <2>4 DEF JobStarts, JobEnds, ListenerChanges, Quieten, ViewNext
  <2>5. CASE LeaveLoop \/ GoPolling \/ SkipPolling \/ LockForPoll \/ PollFails \/ TakeSnapshot
             \/ SnapshotsTaken \/ NoClick \/ Click \/ TrayConnects \/ DialTimesOut
             \/ StartJoining \/ Joined
    BY <2>5 DEF LeaveLoop, GoPolling, SkipPolling, LockForPoll, PollFails, TakeSnapshot,
                SnapshotsTaken, NoClick, Click, TrayConnects, DialTimesOut, StartJoining,
                Joined, remote, viewVars
  <2>6. CASE EndPipe \/ Listen \/ ReadFrame \/ LockForCommand \/ Report \/ ExitUnconfigured
             \/ ClientConnects \/ ClientLeaves \/ SecondPasses \/ UNCHANGED vars
    BY <2>6 DEF EndPipe, Listen, ReadFrame, LockForCommand, Report, ExitUnconfigured,
                ClientConnects, ClientLeaves, SecondPasses, vars, remote, viewVars
  <2> QED
    BY <2>1, <2>2, <2>3, <2>4, <2>5, <2>6 DEF Next, TrayStep, PipeStep
<1> QED
  BY <1>1, PTL DEF Spec
=================================================================================
