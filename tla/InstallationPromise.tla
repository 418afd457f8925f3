------------------------- MODULE InstallationPromise -------------------------
(***************************************************************************)
(* What the installation of src/src/installation.rs promises its callers:  *)
(* each operation takes effect as a whole and while it is asked for, or    *)
(* not at all, and an operation that was answered "done" has taken effect. *)
(* How many files and how many crashes lie between is not visible here.    *)
(***************************************************************************)
CONSTANTS Versions, Bindings

VARIABLES
  installed,   \* the versions that can be selected
  active,      \* the version that is launched, "none" before the first
  binding,     \* the runtime binding that is established, or "none"
  request,     \* the operation under way
  reply,       \* the answer to the last operation, "none" while it is under way
  meddled      \* somebody else has edited the files, and the promise is void

promise == <<installed, active, binding, request, reply, meddled>>

Request(kind, subject) == [kind |-> kind, subject |-> subject]

Idle == Request("none", "none")

Requests ==
  {Request("install", v) : v \in Versions} \cup {Request("select", v) : v \in Versions}
  \cup {Request("bind", b) : b \in Bindings} \cup {Request("state", "none")}

\* The effect of an operation is there.
Present(r) ==
  CASE r.kind = "install" -> r.subject \in installed
    [] r.kind = "select"  -> active = r.subject
    [] r.kind = "bind"    -> binding = r.subject
    [] OTHER              -> TRUE

\* The operation asks for what it may not have.
Improper(r) ==
  CASE r.kind = "select" -> r.subject \notin installed
    [] r.kind = "bind"   -> binding \notin {"none", r.subject}
    [] OTHER             -> FALSE

\* The effects: each operation as a whole.
Installing(v) ==
  /\ v \notin installed
  /\ installed' = installed \cup {v}
  /\ active' = IF active = "none" THEN v ELSE active
  /\ UNCHANGED binding

Selecting(v) ==
  /\ v \in installed
  /\ active' = v
  /\ UNCHANGED <<installed, binding>>

Binding(b) ==
  /\ binding = "none"
  /\ binding' = b
  /\ UNCHANGED <<installed, active>>

offer == <<installed, active, binding>>

Effect ==
  \/ (\E v \in Versions : Installing(v) \/ Selecting(v))
  \/ (\E b \in Bindings : Binding(b))

PromiseInit ==
  /\ installed = {} /\ active = "none" /\ binding = "none"
  /\ request = Idle /\ reply = "none" /\ meddled = FALSE

Ask ==
  /\ request = Idle
  /\ request' \in Requests /\ reply' = "none"
  /\ UNCHANGED <<installed, active, binding>>

Install ==
  /\ request.kind = "install" /\ Installing(request.subject)
  /\ UNCHANGED <<request, reply>>

Select ==
  /\ request.kind = "select" /\ Selecting(request.subject)
  /\ UNCHANGED <<request, reply>>

Bind ==
  /\ request.kind = "bind" /\ Binding(request.subject)
  /\ UNCHANGED <<request, reply>>

\* A refusal and a success say what is the case; a failure says nothing.
Answer ==
  /\ request # Idle
  /\ request' = Idle
  /\ \/ reply' = "done" /\ Present(request)
     \/ reply' = "refused" /\ Improper(request)
     \/ reply' \in {"missing", "drift", "failed"}
  /\ UNCHANGED <<installed, active, binding>>

Interrupt ==
  /\ request # Idle
  /\ request' = Idle
  /\ UNCHANGED <<installed, active, binding, reply>>

PromiseNext ==
  \/ meddled'
  \/ UNCHANGED meddled /\ (Ask \/ Install \/ Select \/ Bind \/ Answer \/ Interrupt)

PromiseSpec == PromiseInit /\ [][PromiseNext]_promise
=============================================================================
