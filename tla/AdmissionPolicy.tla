---------------------------- MODULE AdmissionPolicy ----------------------------
(***************************************************************************)
(* decide_admission and decide_auto_lite of src/src/policy.rs: hard safety *)
(* over Zen over an explicit mode over the Auto Lite probes.               *)
(*                                                                         *)
(* An evidence record holds all the policy consumes: the user's mode and   *)
(* Zen, hard safety, and per probe whether it is enabled and what it shows.*)
(***************************************************************************)
CONSTANTS
  Probes,        \* identifiers of the registered probes
  IdleProbe      \* "user-activity": the one whose inactivity shows idleness

UserModes == {"Auto", "Work", "Gaming", "Idle", "Maintenance", "ForceCi"}
SafetyStates == {"Clear", "Unsafe", "Unknown"}
ProbeStates == {"Active", "Inactive", "Unknown", "Unavailable", "Suspended"}
NodeStates == {"Full", "Drained", "Offline"}

Evidence ==
  [mode: UserModes, zen: BOOLEAN, safety: SafetyStates,
   enabled: [Probes -> BOOLEAN], shows: [Probes -> ProbeStates]]

Decisions == [allow: BOOLEAN, target: NodeStates, drain: BOOLEAN]

-----------------------------------------------------------------------------
Allowed == [allow |-> TRUE, target |-> "Full", drain |-> FALSE]
Denied(target) == [allow |-> FALSE, target |-> target, drain |-> TRUE]

Enabled(e) == {p \in Probes : e.enabled[p]}

\* Defective variant: only an active probe denies, an unreadable one does not.
AutoPermitsUnreadable(e) ==
  /\ \A p \in Enabled(e) : e.shows[p] # "Active"
  /\ IdleProbe \in Enabled(e) /\ e.shows[IdleProbe] = "Inactive"

\* An active or an unreadable probe denies; every enabled probe is inactive or
\* does not apply here; and the input probe itself shows the user away.
AutoPermits(e) ==
  /\ \A p \in Enabled(e) : e.shows[p] \in {"Inactive", "Unavailable"}
  /\ IdleProbe \in Enabled(e) /\ e.shows[IdleProbe] = "Inactive"

DecideAuto(e) == IF AutoPermits(e) THEN Allowed ELSE Denied("Drained")

DecideAdmission(e) ==
  CASE e.safety # "Clear" -> Denied("Drained")
    [] e.safety = "Clear" /\ e.zen -> Denied("Offline")
    [] e.safety = "Clear" /\ ~e.zen /\ e.mode = "Maintenance" -> Denied("Offline")
    [] e.safety = "Clear" /\ ~e.zen /\ e.mode \in {"Work", "Gaming"} -> Denied("Drained")
    [] e.safety = "Clear" /\ ~e.zen /\ e.mode \in {"Idle", "ForceCi"} -> Allowed
    [] e.safety = "Clear" /\ ~e.zen /\ e.mode = "Auto" -> DecideAuto(e)

\* The capacity the admission controller is asked to reach.
DesiredAdmission(d) == IF d.allow /\ ~d.drain THEN "Full" ELSE "Drained"
=================================================================================
