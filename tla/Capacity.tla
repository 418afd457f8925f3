-------------------------------- MODULE Capacity --------------------------------
(***************************************************************************)
(* What one reconcile cycle may come to, if nobody else acts while it runs:*)
(* the contract between the admission controller, which keeps it (modules  *)
(* AdmissionPromise and Admission), and those who call the controller      *)
(* (modules AgentCore and AgentRuntime).                                   *)
(*                                                                         *)
(*   want     the capacity the policy asks for: "Full" or "Drained"        *)
(*   label    the exact runner carries the reserved label before the cycle *)
(*   online   GitHub sees the Listener                                     *)
(*   busy     GitHub or the host sees a managed job                        *)
(*   trusted  local evidence of the exact runner is consistent             *)
(*   calm     no request fails                                             *)
(***************************************************************************)

Claims == {"none", "FULL", "DRAINED"}

Outcome(label, claim) == [label |-> label, claim |-> claim]

Settled(want, online, busy) ==
  IF want = "Full" THEN Outcome(TRUE, IF online THEN "FULL" ELSE "none")
  ELSE Outcome(FALSE, IF busy THEN "none" ELSE "DRAINED")

\* Inconsistent local evidence only observes; a failing cycle claims nothing,
\* whether or not its mutation took effect.
Outcomes(want, label, online, busy, trusted, calm) ==
  IF ~trusted THEN {Outcome(label, "none")}
  ELSE {Settled(want, online, busy)} \cup
       (IF calm THEN {}
        ELSE {Outcome(l, "none") : l \in {label, Settled(want, online, busy).label}})
=================================================================================
