------------------------------- MODULE Deployed -------------------------------
(***************************************************************************)
(* What lies on the disk between the calls on an installation, for those   *)
(* who build on it: updates (Update), removal (Uninstall) and the operator *)
(* helper (Deployment).  install and select are taken from module          *)
(* InstallationPromise, which module Installation implements: they take    *)
(* effect as a whole, and a failed call may or may not have taken effect.  *)
(* Calls come one after the other; a call is a sequence of durable changes *)
(* and can fail, or be killed, between any two.                            *)
(***************************************************************************)
CONSTANTS
  Versions,    \* the versions that are offered
  Digests      \* what a payload directory may hold

ASSUME DeployedAssumption == "none" \notin Versions /\ "none" \notin Digests

VARIABLES
  root,        \* the root: "none", "there", or "empty" when somebody emptied it
  slots,       \* the payload in the slot of each version, or "none"
  active,      \* the selected version, or "none"
  bound,       \* a runtime binding is established
  place,       \* of each owned piece of the root: "home", "aside" or "gone"
  plan,        \* uninstall-transaction.json: its phase, "torn", or "none"
  pc,          \* position in the call, "idle" between calls
  answer       \* to the last call, "none" while a call is under way or cut short

installation == <<root, slots, active, bound, place>>
control == <<pc, answer>>

Pieces == {"versions", "bin", "current", "binding", "ledger"}

Fresh == [v \in Versions |-> "none"]

\* state: the root is there, is not being removed, and its files bear out the ledger.
Open == root = "there" /\ plan = "none" /\ place["ledger"] = "home"

\* install_expected: an absent root is prepared, and the first version is selected.
Installs(v, digest) ==
  /\ root = "none" \/ Open
  /\ root' = "there"
  /\ slots' = [slots EXCEPT ![v] = digest]
  /\ active' = IF active = "none" THEN v ELSE active
  /\ place' = [p \in Pieces |-> "home"]
  /\ UNCHANGED bound

\* Defective variant: the slot is not looked for.
SelectsUnchecked(v) ==
  /\ Open
  /\ active' = v
  /\ UNCHANGED <<root, slots, bound, place>>

\* select_active
Selects(v) ==
  /\ Open /\ slots[v] # "none"
  /\ active' = v
  /\ UNCHANGED <<root, slots, bound, place>>

Go(position) == pc' = position /\ answer' = "none"

Give(reply) == pc' = "idle" /\ answer' = reply
================================================================================
