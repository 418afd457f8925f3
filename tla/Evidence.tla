-------------------------------- MODULE Evidence --------------------------------
(***************************************************************************)
(* The evidence the Agent acts on: the processes of its runner, the        *)
(* runners of its scope on GitHub, and what a supervisor makes of them.    *)
(* The three share no state; each behaviour is one reading of one of them, *)
(* beside at most MaxChanges changes of what is read.                      *)
(***************************************************************************)
EXTENDS RunnerScope, RunnerProcesses, Supervision

CONSTANT MaxChanges   \* bound: changes during one reading

ASSUME BoundAssumption == MaxChanges \in Nat

VARIABLES
  turn,        \* what is looked at
  changes      \* the changes there have been

vars == <<scopeVars, localVars, supervisionVars, turn, changes>>

TypeOK ==
  /\ ScopeTypeOK /\ LocalTypeOK /\ SupervisionTypeOK
  /\ turn \in {"processes", "scope", "supervisor"} /\ changes \in 0..MaxChanges

-----------------------------------------------------------------------------
\* What is not looked at stays as it is.

ScopeRests == born = 1 /\ holders = {} /\ owned = TRUE /\ ScopeInit

LocalRests ==
  /\ proc = [i \in Images |-> "absent"] /\ user = "yes"
  /\ home = [whole |-> TRUE, metadata |-> "Verified", owner |-> "Verified", replaced |-> FALSE]
  /\ LocalInit

SupervisionRests ==
  /\ observed = [phase |-> "Stopped", listener |-> "Absent", worker |-> "Absent",
                 identity |-> "Verified", workRoot |-> "Verified"]
  /\ runnerHome = "Verified"
  /\ SupervisionInit

Init ==
  /\ changes = 0
  /\ \/ turn = "processes" /\ LocalInit /\ ScopeRests /\ SupervisionRests
     \/ turn = "scope" /\ ScopeInit /\ LocalRests /\ SupervisionRests
     \/ turn = "supervisor" /\ SupervisionInit /\ LocalRests /\ ScopeRests

Change == changes < MaxChanges /\ changes' = changes + 1

ObserveProcesses ==
  /\ turn = "processes"
  /\ \/ at # "done" /\ Change /\ HostChanges
     \/ ReadLocal /\ UNCHANGED changes
  /\ UNCHANGED <<turn, scopeVars, supervisionVars>>

ObserveScope ==
  /\ turn = "scope"
  /\ \/ verdict = "none" /\ Change /\ GithubChanges
     \/ (ReadPage \/ RequestFails) /\ UNCHANGED changes
  /\ UNCHANGED <<turn, localVars, supervisionVars>>

ActOnEvidence ==
  /\ turn = "supervisor"
  /\ Supervise
  /\ UNCHANGED <<turn, changes, localVars, scopeVars>>

Next == ObserveProcesses \/ ObserveScope \/ ActOnEvidence

Spec == Init /\ [][Next]_vars
================================================================================
