-------------------------------- MODULE CoreView --------------------------------
(***************************************************************************)
(* AgentCore of src/src/agent.rs as run_agent's two threads, the admission *)
(* controller and the runner see it: which capacity the user's intent lets *)
(* a cycle ask for, what the cycle leaves on GitHub, and what the snapshot *)
(* claims afterwards.  Configuration, observation, decision and file are   *)
(* hidden.  AgentRuntime is built from these actions; AgentCore implements *)
(* them.                                                                   *)
(***************************************************************************)
EXTENDS Capacity

VARIABLES
  label,       \* GitHub: the exact runner carries the reserved label
  job,         \* the runner: a Worker runs a managed job
  listener,    \* the runner: its Listener runs, so its identity can be verified
  calm,        \* commands, failures and changes of the surroundings are over
  configured,  \* the Agent was started with a runtime binding
  intent,      \* "Closed": Zen or a mode that offers no capacity; else "Open"
  claim        \* the achieved state of the core's admission snapshot

runner == <<job, listener, calm, configured>>
core == <<intent, claim>>
viewVars == <<label, runner, core>>

Intents == {"Open", "Closed"}

\* Evidence, which the view does not show, can only take capacity away.
Permitted(i) == IF i = "Closed" THEN {"Drained"} ELSE {"Full", "Drained"}

Cycle(i) ==
  \E want \in Permitted(i) :
    \E r \in Outcomes(want, label, listener, job, configured /\ listener, calm) :
      label' = r.label /\ claim' = r.claim

ViewInit ==
  /\ label \in BOOLEAN /\ listener \in BOOLEAN /\ job \in {FALSE, listener}
  /\ calm \in BOOLEAN /\ configured \in BOOLEAN
  /\ intent \in Intents /\ claim = "none"

-----------------------------------------------------------------------------
\* The core.

PollCore ==
  /\ Cycle(intent)
  /\ UNCHANGED <<runner, intent>>

\* The new intent is in force before the cycle that ends the command; a command
\* that fails may have replaced it without a cycle.
HandleCommand ==
  /\ intent' \in Intents
  /\ Cycle(intent') \/ UNCHANGED <<label, claim>>
  /\ UNCHANGED runner

\* A process that ends takes its claim along, and the next one starts with none.
RestartCore ==
  /\ intent' \in Intents /\ claim' = "none"
  /\ UNCHANGED <<label, runner>>

-----------------------------------------------------------------------------
\* The runner.

\* A job starts on a labelled runner, or one that was assigned earlier arrives.
StartJob ==
  /\ listener /\ ~job /\ (label \/ ~calm)
  /\ job' = TRUE
  /\ UNCHANGED <<label, listener, calm, configured, core>>

EndJob ==
  /\ job
  /\ job' = FALSE
  /\ UNCHANGED <<label, listener, calm, configured, core>>

\* A Worker ends with its Listener.
ChangeListener ==
  /\ ~calm
  /\ listener' = ~listener /\ job' = (job /\ listener')
  /\ UNCHANGED <<label, calm, configured, core>>

CalmDown ==
  /\ ~calm
  /\ calm' = TRUE
  /\ UNCHANGED <<label, job, listener, configured, core>>

ViewNext ==
  \/ PollCore \/ HandleCommand \/ RestartCore
  \/ StartJob \/ EndJob \/ ChangeListener \/ CalmDown

ViewSpec == ViewInit /\ [][ViewNext]_viewVars
=================================================================================
