---------------------------- MODULE AdmissionPromise ----------------------------
(***************************************************************************)
(* What RunnerMesh promises about admission, independently of how the      *)
(* controller obtains it (ADR 0004, "Safety properties").                  *)
(*                                                                         *)
(*   label   the reserved selector is on the exact runner at GitHub        *)
(*   job     how far GitHub and the runner are with a managed job          *)
(*   online  GitHub sees the Listener                                      *)
(*   sound   the runner scope matches the enrolled binding                 *)
(*   late    mutations given up on that GitHub may still apply             *)
(*   owned   the binding carries a matching ownership record               *)
(*   calm    nobody interferes and no request fails any more               *)
(*   claim   the achieved state the Agent publishes                        *)
(*   want    the capacity the running cycle is to reach, "none" between    *)
(*           cycles                                                        *)
(*   trusted the local evidence the running cycle was given is consistent  *)
(*   start   the selector when the running cycle began, "Unknown" once     *)
(*           anybody else has acted since                                  *)
(*                                                                         *)
(* Between its beginning and its end a cycle may only move the selector,   *)
(* and only to where it was asked to.  It never ends in a claim that this  *)
(* very step does not see the evidence for; and a cycle that nobody comes  *)
(* in between of ends in one of the outcomes of module Capacity.           *)
(***************************************************************************)
EXTENDS Capacity

VARIABLES label, job, online, sound, late, owned, calm, claim, want, trusted, start

surroundings == <<job, online, sound, owned, calm>>
cycleVars == <<want, trusted, start>>
promiseVars == <<label, late, surroundings, claim, cycleVars>>

JobStates == {"none", "routed", "assigned", "running", "ending"}

\* GitHub reports the runner busy from the assignment on; a job that is only
\* routed is not yet visible to any observer.
Busy == job \in {"assigned", "running", "ending"}

NoWant == want = "none" /\ trusted = FALSE /\ start = "Unknown"

PromiseInit ==
  /\ label \in BOOLEAN
  /\ job \in JobStates
  /\ online \in BOOLEAN
  /\ sound \in BOOLEAN
  /\ late = {}
  /\ owned \in BOOLEAN
  /\ calm = FALSE
  /\ claim = "none"
  /\ NoWant

-----------------------------------------------------------------------------
\* The Agent.

Begin ==
  /\ want = "none"
  /\ want' \in {"Full", "Drained"}
  /\ trusted' \in IF calm THEN {TRUE} ELSE BOOLEAN
  /\ start' = IF label THEN "Present" ELSE "Absent"
  /\ UNCHANGED <<label, late, surroundings, claim>>

\* The selector is moved by GitHub at once, or late.
Moves ==
  /\ owned /\ trusted
  /\ \/ label' = (want = "Full") /\ late' = late
     \/ ~calm /\ late' = late \cup {IF want = "Full" THEN "add" ELSE "remove"} /\ label' = label

Mutate ==
  /\ want # "none"
  /\ Moves
  /\ UNCHANGED <<surroundings, claim, cycleVars>>

\* What must be true of the world in the very step that ends in a claim.
Justified(c) ==
  /\ sound
  /\ c = "FULL" => label /\ online /\ owned /\ want = "Full"
  /\ c = "DRAINED" => ~label /\ ~Busy /\ want = "Drained"

\* The label may still move with the end of a cycle (the reply was lost), but
\* never together with a claim.
End ==
  /\ want # "none"
  /\ NoWant'
  /\ \/ claim' \in {"FULL", "DRAINED"} /\ Justified(claim') /\ UNCHANGED <<label, late>>
     \/ claim' = "none" /\ (Moves \/ UNCHANGED <<label, late>>)
  /\ (owned /\ start # "Unknown") =>
        Outcome(label', claim') \in
          Outcomes(want, start = "Present", online, Busy, trusted, calm)
  /\ UNCHANGED surroundings

Restart ==
  /\ ~calm
  /\ claim' = "none" /\ NoWant'
  /\ UNCHANGED <<label, late, surroundings>>

-----------------------------------------------------------------------------
\* Everybody else; a cycle that is running is no longer undisturbed.

Disturb == start' = "Unknown" /\ UNCHANGED <<claim, want, trusted>>

\* Only an online runner that carries the selector is given a managed job.
RouteJob ==
  /\ job = "none" /\ label /\ online
  /\ job' = "routed"
  /\ Disturb /\ UNCHANGED <<label, late, online, sound, owned, calm>>

AdvanceJob ==
  /\ job # "none"
  /\ job' = CASE job = "routed" -> "assigned"
              [] job = "assigned" -> "running"
              [] job = "running" -> "ending"
              [] job = "ending" -> "none"
  /\ Disturb /\ UNCHANGED <<label, late, online, sound, owned, calm>>

LandLate ==
  \E m \in late :
    /\ late' = late \ {m} /\ label' = (m = "add")
    /\ Disturb /\ UNCHANGED surroundings

Interfere ==
  /\ ~calm
  /\ label' \in BOOLEAN /\ online' \in BOOLEAN /\ sound' \in BOOLEAN
  /\ Disturb /\ UNCHANGED <<job, late, owned, calm>>

Quieten ==
  /\ sound /\ online
  /\ calm' = TRUE
  /\ Disturb /\ UNCHANGED <<label, late, job, online, sound, owned>>

PromiseNext ==
  \/ Begin \/ Mutate \/ End \/ Restart
  \/ RouteJob \/ AdvanceJob \/ LandLate \/ Interfere \/ Quieten

PromiseSpec == PromiseInit /\ [][PromiseNext]_promiseVars
=================================================================================
