------------------------------ MODULE RunnerScope ------------------------------
(***************************************************************************)
(* How the admission backend reads the runners of its scope from GitHub    *)
(* (observe_exact_runner in src/src/admission.rs): page by page, while     *)
(* runners come and go and labels move, a second time when there is more   *)
(* than one page, and then classifies the one runner it is bound to.       *)
(* GitHub lists runners by their id and never uses an id twice.            *)
(***************************************************************************)
EXTENDS Naturals, FiniteSets

CONSTANTS
  MaxId,       \* runners that are ever registered
  Bound,       \* the id of the runner the Agent is bound to
  PageSize,    \* runners on a page: 100
  MaxPages     \* pages before the reading is given up: 100

ASSUME ScopeAssumption ==
  MaxId \in Nat /\ Bound \in 1..MaxId /\ PageSize \in Nat \ {0} /\ MaxPages \in Nat \ {0}

VARIABLES
  registered,  \* the ids of the runners there are
  born,        \* the last id that was given
  holders,     \* the runners that carry the reserved label
  face,        \* what the bound runner's entry looks like
  owned,       \* the binding proves that the label is ours
  reading,     \* the reading under way
  verdict,     \* what the reading was classified as, "none" before
  asOf,        \* the runners there were when the first collection ended
  steady       \* the runners that have carried the label since the reading began

github == <<registered, born, holders, face>>
scopeVars == <<github, owned, reading, verdict, asOf, steady>>

Faces == {"online", "offline", "no such status", "renamed", "two labels", "not custom"}

Entry(i) ==
  [id |-> i, label |-> i \in holders, face |-> IF i = Bound THEN face ELSE "online"]

NoReading == [first |-> {}, seen |-> {}, again |-> FALSE, page |-> 1, total |-> 0]

ScopeTypeOK ==
  /\ born \in 0..MaxId /\ registered \subseteq 1..born /\ holders \subseteq registered
  /\ face \in Faces /\ owned \in BOOLEAN
  /\ reading.page \in 1..MaxPages + 1 /\ reading.total \in 0..MaxId /\ reading.again \in BOOLEAN
  /\ {e.id : e \in reading.first \cup reading.seen} \subseteq 1..MaxId
  /\ verdict \in {"none", "Unknown", "Collision", "NotFound", "IdentityDrift",
                  "OwnershipDrift", "Malformed", "Present", "Absent"}
  /\ asOf \subseteq 1..MaxId /\ steady \subseteq holders

ScopeInit ==
  /\ born \in 1..MaxId /\ registered = 1..born /\ holders \in SUBSET registered
  /\ face = "online" /\ owned \in BOOLEAN
  /\ reading = NoReading /\ verdict = "none" /\ asOf = {} /\ steady = holders

-----------------------------------------------------------------------------
\* Meanwhile, on GitHub.

Registry(there, carrying) ==
  /\ registered' = there /\ holders' = carrying
  /\ steady' = steady \cap carrying
  /\ UNCHANGED <<owned, reading, verdict, asOf>>

Register ==
  /\ born < MaxId
  /\ born' = born + 1
  /\ Registry(registered \cup {born + 1}, holders)
  /\ UNCHANGED face

Unregister ==
  /\ \E i \in registered : Registry(registered \ {i}, holders \ {i})
  /\ UNCHANGED <<born, face>>

MoveLabel ==
  /\ \E i \in registered :
       Registry(registered, IF i \in holders THEN holders \ {i} ELSE holders \cup {i})
  /\ UNCHANGED <<born, face>>

ChangeFace ==
  /\ face' \in Faces \ {face}
  /\ Registry(registered, holders)
  /\ UNCHANGED born

-----------------------------------------------------------------------------
\* classify_exact_runner, of a set of entries.

Others(entries) == {e \in entries : e.id # Bound}

\* Defective variant: once the bound runner has the label, the others are not looked at.
CollidesWhenAbsent(entries) ==
  /\ \E e \in Others(entries) : e.label
  /\ ~ \E e \in entries : e.id = Bound /\ e.label

Collides(entries) == \E e \in Others(entries) : e.label

Exact(entries) == CHOOSE e \in entries : e.id = Bound

Classify(entries) ==
  IF Collides(entries) THEN "Collision"
  ELSE IF entries = Others(entries) THEN "NotFound"
  ELSE IF Exact(entries).face = "renamed" THEN "IdentityDrift"
  ELSE IF /\ Exact(entries).label
          /\ ~owned \/ Exact(entries).face \in {"two labels", "not custom"} THEN "OwnershipDrift"
  ELSE IF Exact(entries).face = "no such status" THEN "Malformed"
  ELSE IF Exact(entries).label THEN "Present" ELSE "Absent"

-----------------------------------------------------------------------------
\* collect_runner_scope_snapshot: one request at a time.

Rank(i) == Cardinality({j \in registered : j <= i})

PageOf(n) == {i \in registered : (n - 1) * PageSize < Rank(i) /\ Rank(i) <= n * PageSize}

HasNextPage(n) == Cardinality(registered) > n * PageSize

GiveUp == verdict' = "Unknown" /\ UNCHANGED <<reading, asOf>>

\* The rest of the list, or a duplicate in it, or a total that is not the same.
Adds(entries) ==
  /\ reading.page > 1 => reading.total = Cardinality(registered)
  /\ {e.id : e \in entries} \cap {e.id : e \in reading.seen} = {}

\* Defective variant: the second collection is not compared with the first.
ConfirmedAnyway(first, seen, page) == TRUE

\* The second collection has to have several pages as well.
Confirmed(first, seen, page) == page > 1 /\ seen = first

Finish(seen) ==
  /\ asOf' = IF reading.again THEN asOf ELSE registered
  /\ IF reading.again \/ reading.page = 1
     THEN /\ verdict' = IF ~reading.again \/ Confirmed(reading.first, seen, reading.page)
                        THEN Classify(seen) ELSE "Unknown"
          /\ reading' = [NoReading EXCEPT !.first = seen]
     ELSE /\ reading' = [NoReading EXCEPT !.first = seen, !.again = TRUE]
          /\ UNCHANGED verdict

\* The answer to one request is consistent in itself.
ReadPage ==
  /\ verdict = "none"
  /\ LET entries == {Entry(i) : i \in PageOf(reading.page)}
         seen    == reading.seen \cup entries
     IN  IF reading.page > MaxPages \/ ~Adds(entries) THEN GiveUp
         ELSE IF HasNextPage(reading.page)
         THEN /\ reading' = [reading EXCEPT !.seen = seen, !.page = @ + 1,
                                            !.total = Cardinality(registered)]
              /\ UNCHANGED <<verdict, asOf>>
         ELSE IF Cardinality(seen) # Cardinality(registered) THEN GiveUp
         ELSE Finish(seen)
  /\ UNCHANGED <<github, owned, steady>>

\* The request fails, or its answer does not parse.
RequestFails ==
  /\ verdict = "none"
  /\ GiveUp
  /\ UNCHANGED <<github, owned, steady>>

GithubChanges == Register \/ Unregister \/ MoveLabel \/ ChangeFace

-----------------------------------------------------------------------------
\* Properties.

Accepted == verdict \notin {"none", "Unknown"}

\* A reading that is classified names exactly the runners that were registered at one
\* moment, however many pages it took and whatever came and went between them.
ReadingIsASnapshot == Accepted => {e.id : e \in reading.first} = asOf

\* A runner that carries the reserved label from the first request to the last cannot
\* escape: the bound runner's capacity is never judged beside another holder.  (One
\* that gives the label up and takes it back between the pages can.)
PermanentHolderIsSeen == verdict \in {"Present", "Absent"} => steady \subseteq {Bound}
================================================================================
