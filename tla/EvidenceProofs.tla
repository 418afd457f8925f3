---------------------------- MODULE EvidenceProofs ----------------------------
(***************************************************************************)
(* Theorems about module Evidence: the reading of the runner's processes,  *)
(* the reading of the scope for any number of runners and pages and any    *)
(* number of changes between them, and the supervisor.                     *)
(***************************************************************************)
EXTENDS Evidence, SequenceTheorems, FiniteSetTheorems, TLAPS

-----------------------------------------------------------------------------
\* The reading of the processes.

Opening == {"open", "identify", "metadata", "verify"}

\* Until it concludes, what was read of an image and of the metadata was so.
ReadInv ==
  /\ at \in {"start", "guards", "table"} =>
       /\ listed = {} /\ image = [i \in Images |-> "unseen"]
  /\ at \in {"identify", "metadata", "verify"} => listed = {}
  /\ at \in {"start", "guards", "table", "open", "identify", "metadata"} => found.metadata = "Unknown"
  /\ at \in {"start", "guards", "table", "open", "identify"} => found.identity = "Unknown"
  /\ found.identity = "Verified" => \E i \in Images : image[i] = "ours"
  /\ at # "done" => local = Unobserved
  /\ (\E i \in Images : image[i] = "ours") => "running" \in witnessed
  /\ (found.metadata = "Verified" /\ ~home.replaced) => "named" \in witnessed
  /\ (at \in Opening /\ image["Worker"] = "unseen" /\ "Worker" \notin listed) =>
       "idle" \in witnessed \/ (listed = {} /\ \A i \in Images : image[i] = "unseen")

LocalInv ==
  /\ LocalTypeOK
  /\ Now(proc, home) \subseteq witnessed
  /\ ReadInv
  /\ ConsistentWasOurs /\ IdleWasIdle

LEMMA LocalStarts == ASSUME LocalInit PROVE LocalInv
<1>1. LocalTypeOK
  BY DEF LocalInit, LocalTypeOK, Homes, MetadataStates
<1>2. ReadInv
  BY DEF LocalInit, ReadInv, Opening, Unobserved
<1> QED
  BY <1>1, <1>2 DEF LocalInit, LocalInv, ConsistentWasOurs, IdleWasIdle, Consistent, Unobserved

\* What happens on the host only adds to what has been so.
LEMMA HostKeeps == ASSUME LocalInv, HostChanges PROVE LocalInv'
<1>1. PICK p, h : /\ Turns(p, h) /\ p \in [Images -> {"absent", "ours", "theirs"}] /\ h \in Homes
                  /\ home.replaced => h.replaced
  <2>1. CASE ProcessChanges
    <3>1. PICK i \in Images, who \in {"absent", "ours", "theirs"} :
            Turns([proc EXCEPT ![i] = who], home)
      BY <2>1 DEF ProcessChanges
    <3> QED BY <3>1 DEF LocalInv, LocalTypeOK
  <2>2. CASE Reconfigured
    <3>1. PICK m \in MetadataStates : Turns(proc, [home EXCEPT !.metadata = m])
      BY <2>2 DEF Reconfigured
    <3> QED BY <3>1 DEF LocalInv, LocalTypeOK, Homes
  <2>3. CASE Replaced
    <3> DEFINE h == [home EXCEPT !.replaced = TRUE]
    <3>1. Turns(proc, h)
      BY <2>3 DEF Replaced
    <3>2. proc \in [Images -> {"absent", "ours", "theirs"}] /\ home \in Homes
      BY DEF LocalInv, LocalTypeOK
    <3>3. h \in Homes /\ (home.replaced => h.replaced)
      BY <3>2 DEF Homes
    <3> HIDE DEF h
    <3> QED BY <3>1, <3>2, <3>3
  <2>4. CASE Damaged
    <3> DEFINE h == [home EXCEPT !.whole = FALSE]
    <3>1. Turns(proc, h)
      BY <2>4 DEF Damaged
    <3>2. proc \in [Images -> {"absent", "ours", "theirs"}] /\ home \in Homes
      BY DEF LocalInv, LocalTypeOK
    <3>3. h \in Homes /\ (home.replaced => h.replaced)
      BY <3>2 DEF Homes
    <3> HIDE DEF h
    <3> QED BY <3>1, <3>2, <3>3
  <2> QED BY <2>1, <2>2, <2>3, <2>4 DEF HostChanges
<1>2. /\ proc' = p /\ home' = h /\ witnessed' = witnessed \cup Now(p, h)
      /\ UNCHANGED <<user, at, listed, image, found, local>>
  BY <1>1 DEF Turns
<1>3. LocalTypeOK'
  BY <1>1, <1>2 DEF LocalInv, LocalTypeOK
<1>4. ReadInv'
  BY <1>1, <1>2 DEF LocalInv, ReadInv
<1>5. (ConsistentWasOurs /\ IdleWasIdle)'
  BY <1>2 DEF LocalInv, ConsistentWasOurs, IdleWasIdle, Consistent, ActiveBoundWorker
<1> QED BY <1>2, <1>3, <1>4, <1>5 DEF LocalInv

\* Before the conclusion there is nothing to be wrong about.
LEMMA UnobservedIsSafe == ASSUME local' = Unobserved PROVE (ConsistentWasOurs /\ IdleWasIdle)'
BY DEF ConsistentWasOurs, IdleWasIdle, Consistent, Unobserved

LEMMA ReadingKeeps == ASSUME LocalInv, ReadLocal PROVE LocalInv'
<1>1. ASSUME LookForMetadata PROVE LocalInv'
  <2>1. LocalTypeOK' /\ ReadInv'
    BY <1>1 DEF LookForMetadata, Steps, MayBeThere, LocalInv, LocalTypeOK, ReadInv, Opening
  <2>2. local' = Unobserved
    BY <1>1 DEF LookForMetadata, LocalInv, ReadInv
  <2> QED BY <1>1, <2>1, <2>2, UnobservedIsSafe DEF LookForMetadata, Steps, LocalInv
<1>2. ASSUME Guard PROVE LocalInv'
  <2>1. UNCHANGED <<proc, home, user, witnessed, listed, image, found>> /\ at' \in {"table", "done"}
    BY <1>2 DEF Guard, Steps
  <2>2. CASE at' = "table" /\ local' = local
    <3>1. LocalTypeOK' /\ ReadInv' /\ local' = Unobserved
      BY <1>2, <2>1, <2>2 DEF Guard, LocalInv, LocalTypeOK, ReadInv, Opening
    <3> QED BY <2>1, <3>1, UnobservedIsSafe DEF LocalInv
  <2>3. CASE at' = "done" /\ local' = Observation("Unknown", "Unknown")
    <3>1. LocalTypeOK' /\ ReadInv'
      BY <1>2, <2>1, <2>3
         DEF Guard, LocalInv, LocalTypeOK, ReadInv, Opening, Observation, DerivePhase
    <3>2. (ConsistentWasOurs /\ IdleWasIdle)'
      BY <2>3 DEF ConsistentWasOurs, IdleWasIdle, Consistent, Observation
    <3> QED BY <2>1, <3>1, <3>2 DEF LocalInv
  <2> QED BY <1>2, <2>2, <2>3 DEF Guard, Steps
<1>3. ASSUME ReadTable PROVE LocalInv'
  <2>1. LocalTypeOK' /\ local' = Unobserved
    BY <1>3 DEF ReadTable, Steps, LocalInv, LocalTypeOK, ReadInv
  <2>2. ReadInv'
    <3>1. proc["Worker"] # "ours" => "idle" \in witnessed
      BY DEF LocalInv, Now
    <3> QED BY <1>3, <3>1 DEF ReadTable, Steps, LocalInv, ReadInv, Opening, Images
  <2> QED BY <1>3, <2>1, <2>2, UnobservedIsSafe DEF ReadTable, Steps, LocalInv
<1>4. ASSUME NEW i \in Images, Open(i) PROVE LocalInv'
  <2>1. PICK who \in {"unseen", "ours", "theirs", "unreadable"} :
          /\ image' = [image EXCEPT ![i] = who]
          /\ who = "ours" => proc[i] = "ours"
          /\ who = "unseen" => proc[i] # "ours"
    BY <1>4 DEF Open, Opened, LocalInv, LocalTypeOK
  <2>2. LocalTypeOK' /\ local' = Unobserved
    BY <1>4, <2>1 DEF Open, Steps, LocalInv, LocalTypeOK, ReadInv
  <2>3. ReadInv'
    <3>1. (proc["Worker"] # "ours" => "idle" \in witnessed)
          /\ (proc[i] = "ours" => "running" \in witnessed)
      BY DEF LocalInv, Now
    <3> QED BY <1>4, <2>1, <2>2, <3>1 DEF Open, Steps, LocalInv, LocalTypeOK, ReadInv, Opening, Images
  <2> QED BY <1>4, <2>2, <2>3, UnobservedIsSafe DEF Open, Steps, LocalInv
<1>5. ASSUME Compare PROVE LocalInv'
  <2>1. image' = image \/ \A i \in Images : image'[i] = "unseen"
    BY <1>5 DEF Compare, Seen, LocalInv, LocalTypeOK
  <2>2. LocalTypeOK' /\ local' = Unobserved
    BY <1>5 DEF Compare, Steps, LocalInv, LocalTypeOK, ReadInv
  <2>3. ReadInv'
    BY <1>5, <2>1, <2>2 DEF Compare, Steps, LocalInv, ReadInv, Opening, Images
  <2> QED BY <1>5, <2>2, <2>3, UnobservedIsSafe DEF Compare, Steps, LocalInv
<1>6. ASSUME Identify PROVE LocalInv'
  <2> DEFINE identity == ProcessIdentity
  <2>1. /\ identity \in {"Verified", "Mismatch", "Unknown"}
        /\ identity = "Verified" => \E i \in Images : image[i] = "ours"
    BY DEF ProcessIdentity, LocalInv, LocalTypeOK
  <2>2. /\ at = "identify" /\ at' = "metadata" /\ found' = [found EXCEPT !.identity = identity]
        /\ UNCHANGED <<proc, home, user, witnessed, listed, image, local>>
    BY <1>6 DEF Identify, Steps
  <2> HIDE DEF identity
  <2>3. LocalTypeOK' /\ local' = Unobserved
    BY <2>1, <2>2 DEF LocalInv, LocalTypeOK, ReadInv
  <2>4. ReadInv'
    BY <2>1, <2>2, <2>3 DEF LocalInv, LocalTypeOK, ReadInv, Opening
  <2> QED BY <2>2, <2>3, <2>4, UnobservedIsSafe DEF LocalInv
<1>7. ASSUME ReadMetadata PROVE LocalInv'
  <2>1. LocalTypeOK' /\ local' = Unobserved
    BY <1>7 DEF ReadMetadata, Steps, LocalInv, LocalTypeOK, ReadInv, Homes
  <2>2. ReadInv'
    <3>1. (home.metadata = "Verified" /\ ~home.replaced) => "named" \in witnessed
      BY DEF LocalInv, Now
    <3> QED BY <1>7, <2>1, <3>1 DEF ReadMetadata, Steps, LocalInv, LocalTypeOK, Homes, ReadInv, Opening
  <2> QED BY <1>7, <2>1, <2>2, UnobservedIsSafe DEF ReadMetadata, Steps, LocalInv
<1>8. ASSUME Conclude PROVE LocalInv'
  <2>1. at = "verify" /\ at' = "done"
        /\ UNCHANGED <<proc, home, user, witnessed, listed, image, found>>
    BY <1>8 DEF Conclude, Steps
  <2>2. ReadInv'
    BY <2>1 DEF LocalInv, ReadInv, Opening
  <2>3. CASE GuardsHold /\ local' = Observation(Identity, WorkRoot)
    <3>1. LocalTypeOK'
      BY <2>1, <2>3 DEF LocalInv, LocalTypeOK, Observation, DerivePhase, Identity,
         WorkRoot, PathsOwner, Homes, MetadataStates
    <3>2. ASSUME Consistent'
          PROVE  /\ found.metadata = "Verified"
                 /\ \E i \in Images : image[i] = "ours"
      BY <2>3, <3>2 DEF Consistent, Observation, Identity, WorkRoot, LocalInv, LocalTypeOK,
         ReadInv
    <3>3. ConsistentWasOurs'
      BY <2>1, <2>3, <3>2 DEF ConsistentWasOurs, GuardsHold, LocalInv, ReadInv
    <3>4. ASSUME image["Worker"] # "unseen" PROVE ActiveBoundWorker'
      <4>1. Observation(Identity, WorkRoot).phase = "Busy"
        BY <3>4 DEF Observation, DerivePhase
      <4> QED BY <2>3, <4>1 DEF ActiveBoundWorker
    <3>5. IdleWasIdle'
      BY <2>1, <3>2, <3>4 DEF IdleWasIdle, LocalInv, ReadInv, Opening
    <3> QED BY <2>1, <2>2, <3>1, <3>3, <3>5 DEF LocalInv
  <2>4. CASE local' = Observation("Unknown", "Unknown")
    <3>1. LocalTypeOK'
      BY <2>1, <2>4 DEF LocalInv, LocalTypeOK, Observation, DerivePhase
    <3>2. (ConsistentWasOurs /\ IdleWasIdle)'
      BY <2>4 DEF ConsistentWasOurs, IdleWasIdle, Consistent, Observation
    <3> QED BY <2>1, <2>2, <3>1, <3>2 DEF LocalInv
  <2> QED BY <1>8, <2>3, <2>4 DEF Conclude
<1> QED BY <1>1, <1>2, <1>3, <1>4, <1>5, <1>6, <1>7, <1>8 DEF ReadLocal

-----------------------------------------------------------------------------
\* The reading of the scope.

Ids(entries) == {e.id : e \in entries}

\* One entry of an id, and an id that was given.
Distinct(entries) ==
  \A e, f \in entries : e.id = f.id => e = f

\* An entry of a runner that has carried the label ever since shows it.
Labels(entries) == \A e \in entries : e.id \in 1..born /\ (e.id \in steady => e.label)

\* What the second collection has in common with the first was there between the two,
\* and the first counted as many as there were.
SecondInv ==
  /\ asOf \subseteq 1..born /\ steady \subseteq asOf
  /\ Ids(reading.first) \subseteq 1..born /\ Cardinality(Ids(reading.first)) = Cardinality(asOf)
  /\ \A i \in Ids(reading.first) : i \in registered \cup Ids(reading.seen) => i \in asOf

ScopeInv ==
  /\ born \in Nat /\ registered \subseteq 1..born /\ holders \subseteq registered
  /\ steady \subseteq holders
  /\ reading.page \in Nat \ {0} /\ reading.again \in BOOLEAN
  /\ reading.page = 1 => reading.seen = {}
  /\ Labels(reading.seen) /\ Distinct(reading.seen) /\ Labels(reading.first)
  /\ (verdict = "none" /\ reading.again) => SecondInv
  /\ ReadingIsASnapshot
  /\ PermanentHolderIsSeen

\* An id stands for its entry.
LEMMA IdsCount ==
  ASSUME NEW S, Distinct(S), NEW n \in Nat, Ids(S) \subseteq 1..n
  PROVE  Cardinality(Ids(S)) = Cardinality(S)
<1> DEFINE f == [e \in S |-> e.id]
<1>1. f \in [S -> Ids(S)] /\ IsInjective(f)
  BY DEF Ids, Distinct, IsInjective
<1>2. f \in Injection(S, Ids(S)) /\ f \in Surjection(S, Ids(S))
  BY <1>1 DEF Injection, Surjection, Ids
<1>3. IsFiniteSet(Ids(S))
  BY FS_Interval, FS_Subset, 1 \in Int, n \in Int
<1> HIDE DEF f
<1>4. QED
  BY <1>2, <1>3, FS_Injection

LEMMA Counted ==
  ASSUME NEW S, NEW T, NEW n \in Nat, T \subseteq 1..n, S \subseteq T, Cardinality(S) = Cardinality(T)
  PROVE  S = T
<1>1. IsFiniteSet(T)
  BY FS_Interval, FS_Subset, 1 \in Int, n \in Int
<1>2. QED
  BY <1>1, FS_Subset

LEMMA ScopeStarts == ASSUME ScopeInit PROVE ScopeInv
BY ScopeAssumption DEF ScopeAssumption, ScopeInit, ScopeInv, NoReading, Labels, Distinct, ReadingIsASnapshot,
   PermanentHolderIsSeen, Accepted

\* Whatever the registry becomes, as long as no id is given twice.
LEMMA RegistryKeeps ==
  ASSUME ScopeInv, NEW there, NEW carrying, Registry(there, carrying), carrying \subseteq there,
         born' \in Nat, born <= born', there \subseteq 1..born', there \cap 1..born \subseteq registered
  PROVE  ScopeInv'
<1>1. /\ registered' = there /\ holders' = carrying /\ steady' = steady \cap carrying
      /\ UNCHANGED <<owned, reading, verdict, asOf>>
  BY DEF Registry
<1>2. 1..born \subseteq 1..born'
  BY DEF ScopeInv
<1>3. Labels(reading.seen)' /\ Distinct(reading.seen)' /\ Labels(reading.first)'
  BY <1>1, <1>2 DEF ScopeInv, Labels, Distinct
<1>4. SecondInv => SecondInv'
  BY <1>1, <1>2 DEF SecondInv, Ids
<1>5. ReadingIsASnapshot' /\ PermanentHolderIsSeen'
  BY <1>1 DEF ScopeInv, ReadingIsASnapshot, PermanentHolderIsSeen, Accepted
<1>6. QED
  BY <1>1, <1>3, <1>4, <1>5 DEF ScopeInv

LEMMA GithubChangesKeep == ASSUME ScopeInv, GithubChanges PROVE ScopeInv'
<1>1. born \in Nat /\ registered \subseteq 1..born /\ holders \subseteq registered
  BY DEF ScopeInv
<1>2. CASE Register
  <2>1. born' = born + 1 /\ Registry(registered \cup {born + 1}, holders)
    BY <1>2 DEF Register
  <2>2. /\ registered \cup {born + 1} \subseteq 1..born'
        /\ (registered \cup {born + 1}) \cap 1..born \subseteq registered
    BY <1>1, <2>1
  <2>3. holders \subseteq registered \cup {born + 1} /\ born' \in Nat /\ born <= born'
    BY <1>1, <2>1
  <2>4. QED
    BY <2>1, <2>2, <2>3, RegistryKeeps
<1>3. ASSUME NEW there \in SUBSET registered, NEW carrying \in SUBSET there,
             Registry(there, carrying), born' = born
      PROVE  ScopeInv'
  <2>1. /\ born' \in Nat /\ born <= born' /\ carrying \subseteq there
        /\ there \subseteq 1..born' /\ there \cap 1..born \subseteq registered
    BY <1>1, <1>3
  <2>2. QED
    BY <1>3, <2>1, RegistryKeeps
<1>4. CASE Unregister
  <2>1. born' = born
    BY <1>4 DEF Unregister
  <2>2. PICK i \in registered : Registry(registered \ {i}, holders \ {i})
    BY <1>4 DEF Unregister
  <2>3. registered \ {i} \in SUBSET registered /\ holders \ {i} \in SUBSET (registered \ {i})
    BY <1>1
  <2>4. QED
    BY <1>3, <2>1, <2>2, <2>3
<1>5. CASE MoveLabel
  <2>1. born' = born
    BY <1>5 DEF MoveLabel
  <2>2. PICK i \in registered :
          Registry(registered, IF i \in holders THEN holders \ {i} ELSE holders \cup {i})
    BY <1>5 DEF MoveLabel
  <2>3. PICK carrying \in SUBSET registered : Registry(registered, carrying)
    BY <1>1, <2>2
  <2>4. QED
    BY <1>3, <2>1, <2>3
<1>6. CASE ChangeFace
  <2>1. born' = born /\ Registry(registered, holders)
    BY <1>6 DEF ChangeFace
  <2>2. QED
    BY <1>1, <1>3, <2>1
<1>7. QED
  BY <1>2, <1>4, <1>5, <1>6 DEF GithubChanges

\* One request: given up, another page, or the last page of a collection.
LEMMA PageKeeps == ASSUME ScopeInv, ReadPage PROVE ScopeInv'
<1> DEFINE entries == {Entry(i) : i \in PageOf(reading.page)}
           seen    == reading.seen \cup entries
<1>1. verdict = "none" /\ UNCHANGED <<github, owned, steady>>
  BY DEF ReadPage
<1>2. UNCHANGED <<registered, born, holders, face>>
  BY <1>1 DEF github
<1>3. Ids(entries) \subseteq registered
  BY DEF Ids, Entry, PageOf
<1>4. Labels(entries) /\ Distinct(entries)
  <2>1. ASSUME NEW e \in entries
        PROVE  e.id \in registered /\ (e.id \in holders => e.label) /\ e = Entry(e.id)
    <3>1. PICK i \in registered : e = Entry(i)
      BY DEF PageOf
    <3>2. e.id = i
      BY <3>1 DEF Entry
    <3>3. i \in holders => e.label
      BY <3>1, Zenon DEF Entry
    <3>4. QED
      BY <3>1, <3>2, <3>3
  <2>2. QED
    BY <2>1 DEF Labels, Distinct, ScopeInv
<1>5. CASE GiveUp
  BY <1>1, <1>2, <1>5 DEF GiveUp, ScopeInv, Labels, Distinct, ReadingIsASnapshot, PermanentHolderIsSeen, Accepted
<1>6. ASSUME Adds(entries)
      PROVE  /\ Labels(seen) /\ Distinct(seen)
             /\ Ids(seen) \subseteq 1..born
             /\ reading.again => \A i \in Ids(reading.first) : i \in Ids(seen) => i \in asOf
  <2>1. Labels(seen) /\ Distinct(seen)
    BY <1>4, <1>6 DEF ScopeInv, Labels, Distinct, Adds
  <2>2. Ids(seen) = Ids(reading.seen) \cup Ids(entries)
    BY DEF Ids
  <2>3. QED
    BY <1>1, <1>3, <2>1, <2>2 DEF ScopeInv, SecondInv, Labels, Ids
<1>7. CASE /\ Adds(entries)
           /\ reading' = [reading EXCEPT !.seen = seen, !.page = @ + 1,
                                         !.total = Cardinality(registered)]
           /\ UNCHANGED <<verdict, asOf>>
  <2>1. /\ reading'.seen = seen /\ reading'.page = reading.page + 1
        /\ reading'.first = reading.first /\ reading'.again = reading.again
    BY <1>7 DEF ScopeInv
  <2>2. QED
    BY <1>1, <1>2, <1>6, <1>7, <2>1
       DEF ScopeInv, Labels, Distinct, SecondInv, ReadingIsASnapshot, PermanentHolderIsSeen, Accepted
<1>8. CASE /\ Adds(entries)
           /\ Cardinality(seen) = Cardinality(registered)
           /\ Finish(seen)
  <2>0. Cardinality(Ids(seen)) = Cardinality(registered)
    BY <1>6, <1>8, IdsCount DEF ScopeInv
  <2>1. /\ reading'.first = seen /\ reading'.seen = {} /\ reading'.page = 1
        /\ reading'.again \in BOOLEAN
    BY <1>8 DEF Finish, NoReading
  <2>2. Labels(reading.first)' /\ Labels(reading.seen)' /\ Distinct(reading.seen)'
    BY <1>1, <1>2, <1>6, <1>8, <2>1 DEF Labels, Distinct
  <2>3. Classify(seen) \in {"Present", "Absent"}
          => \A e \in seen : e.id # Bound => ~e.label
    BY DEF Classify, Collides, Others
  <2>4. CASE verdict' = "Unknown"
    BY <1>1, <1>2, <2>1, <2>2, <2>4 DEF ScopeInv, ReadingIsASnapshot, PermanentHolderIsSeen, Accepted
  <2>5. ASSUME verdict' = Classify(seen), Ids(seen) = asOf', steady \subseteq asOf'
        PROVE  ScopeInv'
    <3>1. PermanentHolderIsSeen'
      BY <1>1, <1>6, <1>8, <2>3, <2>5 DEF PermanentHolderIsSeen, Labels, Ids
    <3>2. ReadingIsASnapshot'
      BY <2>1, <2>5 DEF ReadingIsASnapshot, Ids
    <3>3. verdict' # "none"
      BY <2>5 DEF Classify
    <3>4. QED
      BY <1>1, <1>2, <2>1, <2>2, <3>1, <3>2, <3>3 DEF ScopeInv
  <2>6. CASE reading.again
    <3>1. asOf' = asOf /\ (verdict' = "Unknown" \/ (seen = reading.first /\ verdict' = Classify(seen)))
      BY <1>8, <2>6 DEF Finish, Confirmed
    <3>2. CASE seen = reading.first /\ verdict' = Classify(seen)
      <4>1. Ids(seen) \subseteq asOf
        BY <1>6, <1>8, <2>6, <3>2
      <4>2. Ids(seen) = asOf
        BY <1>1, <2>6, <3>2, <4>1, Counted DEF ScopeInv, SecondInv
      <4>3. QED
        BY <1>1, <2>5, <2>6, <3>1, <3>2, <4>2 DEF ScopeInv, SecondInv
    <3>3. QED
      BY <2>4, <3>1, <3>2
  <2>7. CASE ~reading.again /\ reading.page = 1
    <3>1. asOf' = registered /\ verdict' = Classify(seen)
      BY <1>8, <2>7 DEF Finish
    <3>2. Ids(seen) \subseteq registered
      BY <1>3, <2>7 DEF ScopeInv, Ids
    <3>3. Ids(seen) = registered
      BY <2>0, <3>2, Counted DEF ScopeInv
    <3>4. QED
      BY <2>5, <3>1, <3>3 DEF ScopeInv
  <2>8. CASE ~reading.again /\ reading.page # 1
    <3>1. asOf' = registered /\ verdict' = verdict
      BY <1>8, <2>8 DEF Finish
    <3>2. SecondInv'
      BY <1>1, <1>2, <1>6, <1>8, <2>0, <2>1, <3>1 DEF ScopeInv, SecondInv, Ids
    <3>3. QED
      BY <1>1, <1>2, <2>1, <2>2, <3>1, <3>2
         DEF ScopeInv, ReadingIsASnapshot, PermanentHolderIsSeen, Accepted
  <2>9. QED
    BY <2>6, <2>7, <2>8 DEF ScopeInv
<1>9. QED
  BY <1>5, <1>7, <1>8 DEF ReadPage

LEMMA RequestFailureKeeps == ASSUME ScopeInv, RequestFails PROVE ScopeInv'
BY DEF RequestFails, GiveUp, github, ScopeInv, Labels, Distinct, ReadingIsASnapshot,
       PermanentHolderIsSeen, Accepted

LEMMA ScopeStutters == ASSUME ScopeInv, UNCHANGED scopeVars PROVE ScopeInv'
BY DEF scopeVars, github, ScopeInv, SecondInv, Ids, Labels, Distinct, ReadingIsASnapshot,
       PermanentHolderIsSeen, Accepted

-----------------------------------------------------------------------------
\* The supervisor.

\* The plans for a runner in a phase that does not deny the Worker, and what may have
\* been applied of them.
BusyPlans ==
  {<<"RequestDrain">>, <<"RequestDrain", "StopAfterDrain">>,
   <<"RequestDrain", "StopAfterDrain", "Start">>, <<"RestartConnection">>,
   <<"AdoptExistingListener">>}

BusyInv ==
  \/ pending = <<>> /\ applied \in BusyPlans \cup {<<>>}
  \/ pending \in BusyPlans /\ applied = <<>>
  \/ /\ pending \in {<<"StopAfterDrain">>, <<"StopAfterDrain", "Start">>}
     /\ applied = <<"RequestDrain">>
  \/ pending = <<"Start">> /\ applied = <<"RequestDrain", "StopAfterDrain">>

Reconnecting ==
  (pending = <<"RestartConnection">> \/ applied = <<"RestartConnection">>) => request = "Reconnect"

\* A phase that denies the Worker.
Idle == {"Listening", "Stopped"}

SupervisionInv ==
  /\ request \in Requests \cup {"none"} /\ observed \in Observations
  /\ request = "none" => outcome = "none"
  /\ (request = "none" \/ outcome \in {"Noop", "Refused"}) => pending = <<>> /\ applied = <<>>
  /\ outcome = "Refused" => Refused(request, observed)
  /\ (pending # <<>> \/ applied # <<>>) => ~ControlRefused(observed)
  /\ observed.phase \notin Idle => BusyInv /\ Reconnecting

LEMMA SupervisionStarts == ASSUME SupervisionInit PROVE SupervisionInv
BY DEF SupervisionInit, SupervisionInv, BusyInv, Reconnecting

LEMMA RequestKeeps == ASSUME SupervisionInv, Request PROVE SupervisionInv'
<1>1. /\ request = "none" /\ request' \in Requests /\ pending = <<>> /\ applied = <<>>
      /\ outcome = "none" /\ UNCHANGED <<observed, runnerHome>>
  BY DEF Request, SupervisionInv
<1>2. ASSUME UNCHANGED <<pending, applied>>, outcome' \in {"Noop", "Refused"},
             outcome' = "Refused" => Refused(request', observed)
      PROVE  SupervisionInv'
  <2>1. BusyInv' /\ Reconnecting'
    BY <1>1, <1>2 DEF BusyInv, Reconnecting
  <2>2. outcome' = "Refused" => Refused(request', observed')
    BY <1>1, <1>2
  <2> QED BY <1>1, <1>2, <2>1, <2>2 DEF SupervisionInv, Requests
<1>5. CASE /\ ~Satisfied(request', observed) /\ ~Refused(request', observed)
           /\ pending' = Planned(request', observed) /\ UNCHANGED <<applied, outcome>>
  <2>1. ~ControlRefused(observed)
    BY <1>5 DEF Refused
  <2>2. ASSUME observed.phase \notin Idle
        PROVE  /\ Planned(request', observed) \in BusyPlans \cup {<<>>}
               /\ Planned(request', observed) = <<"RestartConnection">> => request' = "Reconnect"
    <3>1. CASE request' = "Adopt"
      BY <3>1 DEF Planned, BusyPlans
    <3>2. CASE request' # "Adopt"
      <4>1. observed.phase \in DOMAIN Plans[request'] \ Idle
        BY <1>5, <2>2, <3>2 DEF Refused
      <4>2. \A p \in DOMAIN Plans[request'] \ Idle :
              /\ Plans[request'][p] \in BusyPlans \cup {<<>>}
              /\ Plans[request'][p] = <<"RestartConnection">> => request' = "Reconnect"
        <5>1. CASE request' = "EnsureStarted"
          BY <5>1 DEF Plans, Idle
        <5>2. CASE request' = "EnsureDrained"
          BY <5>2 DEF Plans, Idle, BusyPlans
        <5>3. CASE request' = "EnsureStopped"
          BY <5>3 DEF Plans, Idle, BusyPlans
        <5>4. CASE request' = "Restart"
          BY <5>4 DEF Plans, Idle, BusyPlans
        <5>5. CASE request' = "Reconnect"
          BY <5>5 DEF Plans, Idle, BusyPlans
        <5> QED BY <1>1, <3>2, <5>1, <5>2, <5>3, <5>4, <5>5 DEF Requests
      <4> QED BY <3>2, <4>1, <4>2 DEF Planned
    <3> QED BY <3>1, <3>2
  <2>3. observed'.phase \notin Idle => BusyInv' /\ Reconnecting'
    BY <1>1, <1>5, <2>2 DEF BusyInv, Reconnecting
  <2>4. ~ControlRefused(observed')
    BY <1>1, <2>1
  <2> QED BY <1>1, <1>5, <2>3, <2>4 DEF SupervisionInv, Requests
<1> QED BY <1>2, <1>5 DEF Request, Answer

LEMMA SecondAfterOne == ASSUME NEW x, NEW y PROVE Append(<<x>>, y) = <<x, y>>
<1> DEFINE S == {x, y}  s == Append(<<x>>, y)  t == <<x, y>>
<1>1. s \in Seq(S) /\ Len(s) = 2 /\ s[1] = x /\ s[2] = y
  OBVIOUS
<1>2. t \in Seq(S) /\ Len(t) = 2 /\ t[1] = x /\ t[2] = y
  OBVIOUS
<1> HIDE DEF S, s, t
<1>3. Len(s) = Len(t) /\ \A i \in 1 .. Len(s) : s[i] = t[i]
  BY <1>1, <1>2
<1>4. s = t
  BY <1>1, <1>2, <1>3, SeqEqual
<1> QED BY <1>4 DEF s, t

LEMMA ThirdAfterTwo == ASSUME NEW x, NEW y, NEW z PROVE Append(<<x, y>>, z) = <<x, y, z>>
<1> DEFINE S == {x, y, z}  s == Append(<<x, y>>, z)  t == <<x, y, z>>
<1>1. s \in Seq(S) /\ Len(s) = 3 /\ s[1] = x /\ s[2] = y /\ s[3] = z
  OBVIOUS
<1>2. t \in Seq(S) /\ Len(t) = 3 /\ t[1] = x /\ t[2] = y /\ t[3] = z
  OBVIOUS
<1> HIDE DEF S, s, t
<1>3. Len(s) = Len(t) /\ \A i \in 1 .. Len(s) : s[i] = t[i]
  BY <1>1, <1>2
<1>4. s = t
  BY <1>1, <1>2, <1>3, SeqEqual
<1> QED BY <1>4 DEF s, t

LEMMA ApplyKeeps == ASSUME SupervisionInv, Apply PROVE SupervisionInv'
<1>1. /\ pending # <<>> /\ request # "none" /\ outcome \notin {"Noop", "Refused"}
      /\ applied' = Append(applied, Head(pending)) /\ pending' = Tail(pending)
      /\ outcome' \in {"Applied", "none"} /\ UNCHANGED <<request, observed>>
  BY DEF Apply, SupervisionInv
<1>2. ~ControlRefused(observed')
  BY <1>1 DEF SupervisionInv
<1>3. observed'.phase \notin Idle => BusyInv' /\ Reconnecting'
  <2> SUFFICES ASSUME BusyInv, Reconnecting PROVE BusyInv' /\ Reconnecting'
    BY <1>1 DEF SupervisionInv
  <2>1. CASE pending = <<"RequestDrain">> /\ applied = <<>>
    BY <1>1, <2>1 DEF BusyInv, BusyPlans, Reconnecting
  <2>2. CASE pending = <<"RequestDrain", "StopAfterDrain">> /\ applied = <<>>
    BY <1>1, <2>2 DEF BusyInv, BusyPlans, Reconnecting
  <2>3. CASE pending = <<"RequestDrain", "StopAfterDrain", "Start">> /\ applied = <<>>
    BY <1>1, <2>3 DEF BusyInv, BusyPlans, Reconnecting
  <2>4. CASE pending = <<"RestartConnection">> /\ applied = <<>>
    <3>1. pending' = <<>> /\ applied' = <<"RestartConnection">> /\ request' = "Reconnect"
      BY <1>1, <2>4 DEF Reconnecting
    <3> QED BY <3>1 DEF BusyInv, BusyPlans, Reconnecting
  <2>5. CASE pending = <<"StopAfterDrain">> /\ applied = <<"RequestDrain">>
    <3>1. pending' = <<>> /\ applied' = <<"RequestDrain", "StopAfterDrain">>
      BY <1>1, <2>5, SecondAfterOne
    <3> QED BY <3>1 DEF BusyInv, BusyPlans, Reconnecting
  <2>6. CASE pending = <<"StopAfterDrain", "Start">> /\ applied = <<"RequestDrain">>
    <3>1. pending' = <<"Start">> /\ applied' = <<"RequestDrain", "StopAfterDrain">>
      BY <1>1, <2>6, SecondAfterOne
    <3> QED BY <3>1 DEF BusyInv, BusyPlans, Reconnecting
  <2>7. CASE pending = <<"Start">> /\ applied = <<"RequestDrain", "StopAfterDrain">>
    <3>1. pending' = <<>> /\ applied' = <<"RequestDrain", "StopAfterDrain", "Start">>
      BY <1>1, <2>7, ThirdAfterTwo
    <3> QED BY <3>1 DEF BusyInv, BusyPlans, Reconnecting
  <2>8. CASE pending = <<"AdoptExistingListener">> /\ applied = <<>>
    <3>1. pending' = <<>> /\ applied' = <<"AdoptExistingListener">>
      BY <1>1, <2>8
    <3> QED BY <3>1 DEF BusyInv, BusyPlans, Reconnecting
  <2> QED BY <1>1, <2>1, <2>2, <2>3, <2>4, <2>5, <2>6, <2>7, <2>8 DEF BusyInv, BusyPlans, Reconnecting
<1> QED BY <1>1, <1>2, <1>3 DEF SupervisionInv

LEMMA FailureKeeps == ASSUME SupervisionInv, BackendFails PROVE SupervisionInv'
<1>1. /\ pending # <<>> /\ pending' = <<>> /\ outcome' = "Backend" /\ request # "none"
      /\ UNCHANGED <<request, observed, applied>>
  BY DEF BackendFails, AfterFailure, SupervisionInv
<1>2. ~ControlRefused(observed')
  BY <1>1 DEF SupervisionInv
<1>3. observed'.phase \notin Idle => BusyInv' /\ Reconnecting'
  BY <1>1 DEF SupervisionInv, BusyInv, BusyPlans, Reconnecting
<1> QED BY <1>1, <1>2, <1>3 DEF SupervisionInv

-----------------------------------------------------------------------------
EvidenceInv == LocalInv /\ ScopeInv /\ SupervisionInv

LEMMA InitHolds == Init => EvidenceInv
BY LocalStarts, ScopeStarts, SupervisionStarts
   DEF Init, LocalRests, ScopeRests, SupervisionRests, EvidenceInv

LEMMA LocalStutters == ASSUME LocalInv, UNCHANGED localVars PROVE LocalInv'
<1>1. /\ UNCHANGED <<proc, home, user, at, listed, image, found, local, witnessed>>
  BY DEF localVars
<1>2. LocalTypeOK' /\ ReadInv'
  BY <1>1 DEF LocalInv, LocalTypeOK, ReadInv
<1>3. (ConsistentWasOurs /\ IdleWasIdle)'
  BY <1>1 DEF LocalInv, ConsistentWasOurs, IdleWasIdle, Consistent, ActiveBoundWorker
<1> QED BY <1>1, <1>2, <1>3 DEF LocalInv

LEMMA SupervisionStutters == ASSUME SupervisionInv, UNCHANGED supervisionVars PROVE SupervisionInv'
BY DEF SupervisionInv, supervisionVars, BusyInv, Reconnecting

LEMMA InvariantHolds == Spec => []EvidenceInv
<1>1. ASSUME EvidenceInv, [Next]_vars PROVE EvidenceInv'
  <2>1. LocalInv'
    BY <1>1, HostKeeps, ReadingKeeps, LocalStutters
       DEF EvidenceInv, Next, ObserveProcesses, ObserveScope, ActOnEvidence, vars
  <2>2. SupervisionInv'
    BY <1>1, RequestKeeps, ApplyKeeps, FailureKeeps, SupervisionStutters
       DEF EvidenceInv, Next, ObserveProcesses, ObserveScope, ActOnEvidence, Supervise, vars
  <2>3. ScopeInv'
    BY <1>1, GithubChangesKeep, PageKeeps, RequestFailureKeeps, ScopeStutters
       DEF EvidenceInv, Next, ObserveProcesses, ObserveScope, ActOnEvidence, vars
  <2> QED BY <2>1, <2>2, <2>3 DEF EvidenceInv
<1> QED BY InitHolds, <1>1, PTL DEF Spec

\* Local evidence that lets the Agent touch the label was true of its own runner at some
\* moment of the reading (WindowsRunnerSource::collect in runner_observer.rs).
THEOREM ConsistentWasOursHolds == Spec => []ConsistentWasOurs
<1>1. EvidenceInv => ConsistentWasOurs
  BY DEF EvidenceInv, LocalInv
<1> QED BY <1>1, InvariantHolds, PTL

\* A Worker that runs throughout a reading is never taken for an idle runner
\* (exact_runner_process_observation, derive_phase).
THEOREM IdleWasIdleHolds == Spec => []IdleWasIdle
<1>1. EvidenceInv => IdleWasIdle
  BY DEF EvidenceInv, LocalInv
<1> QED BY <1>1, InvariantHolds, PTL

\* Whatever is asked for and however the backend fails, nothing is done to a process on
\* evidence that is not verified (control_refusal in supervisor.rs).
THEOREM ControlNeedsEvidenceHolds == Spec => []ControlNeedsEvidence
<1>1. ASSUME EvidenceInv PROVE ControlNeedsEvidence
  BY <1>1 DEF EvidenceInv, SupervisionInv, ControlNeedsEvidence, ControlRefused, Processes,
     Observations
<1> QED BY <1>1, InvariantHolds, PTL

\* A runner that has a job, by its phase or by its processes, is drained before anything
\* ends or renews its processes or its connection, except that a Reconnect restarts the
\* connection of a busy one, and that a phase that denies the Worker has the plan of that
\* phase (plan_verified, reconcile in supervisor.rs).
THEOREM BusyIsDrainedFirstHolds == Spec => []BusyIsDrainedFirst
<1>1. ASSUME NEW s \in BusyPlans \cup {<<>>}, NEW i \in DOMAIN s, s[i] \in Interrupts,
             s # <<"RestartConnection">>
      PROVE  Contains(SubSeq(s, 1, i), "RequestDrain")
  <2>1. s \in Seq(Actions)
    <3>1. CASE s = <<"RequestDrain", "StopAfterDrain", "Start">>
      BY <3>1 DEF Actions
    <3>2. CASE s = <<"RequestDrain", "StopAfterDrain">>
      BY <3>2 DEF Actions
    <3>3. CASE s = <<"RequestDrain">>
      BY <3>3 DEF Actions
    <3>4. CASE s = <<"AdoptExistingListener">>
      BY <3>4 DEF Actions
    <3>5. CASE s = <<>>
      BY <3>5
    <3> QED BY <1>1, <3>1, <3>2, <3>3, <3>4, <3>5 DEF BusyPlans
  <2>2. s[1] = "RequestDrain"
    <3>1. s # <<>> /\ s # <<"AdoptExistingListener">>
      BY <1>1 DEF Interrupts
    <3> QED BY <1>1, <3>1 DEF BusyPlans
  <2>3. i \in 1 .. Len(s) /\ Len(SubSeq(s, 1, i)) = i /\ SubSeq(s, 1, i)[1] = s[1]
    BY <1>1, <2>1
  <2> QED BY <2>1, <2>2, <2>3 DEF Contains
<1>2. ASSUME EvidenceInv, HasJob, ~PhaseDeniesWorker,
             NEW i \in DOMAIN applied, applied[i] \in Interrupts
      PROVE  \/ Contains(SubSeq(applied, 1, i), "RequestDrain")
             \/ request = "Reconnect" /\ applied[i] = "RestartConnection"
  <2>1. observed.phase \notin Idle
    BY <1>2 DEF HasJob, PhaseDeniesWorker, Idle
  <2>2. BusyInv /\ Reconnecting
    BY <1>2, <2>1 DEF EvidenceInv, SupervisionInv
  <2>3. applied \in BusyPlans \cup {<<>>}
    BY <2>2 DEF BusyInv, BusyPlans
  <2>4. CASE applied = <<"RestartConnection">>
    BY <1>2, <2>2, <2>4 DEF Reconnecting
  <2>5. CASE applied # <<"RestartConnection">>
    BY <1>1, <1>2, <2>3, <2>5
  <2> QED BY <2>4, <2>5
<1>3. EvidenceInv => BusyIsDrainedFirst
  BY <1>2 DEF BusyIsDrainedFirst
<1> QED BY <1>3, InvariantHolds, PTL

\* What recovery offers for adoption the supervisor adopts
\* (decide_existing_listener_adoption in host.rs).
THEOREM OfferedIsAdoptedHolds == Spec => []OfferedIsAdopted
<1>1. EvidenceInv => OfferedIsAdopted
  BY DEF EvidenceInv, SupervisionInv, OfferedIsAdopted, Refused, ControlRefused, RecoveryAdopts
<1> QED BY <1>1, InvariantHolds, PTL

\* A classified reading names the runners of one moment, however many pages it took and
\* whatever came and went between them (collect_runner_scope_snapshot in admission.rs).
THEOREM ReadingIsASnapshotHolds == Spec => []ReadingIsASnapshot
<1>1. EvidenceInv => ReadingIsASnapshot
  BY DEF EvidenceInv, ScopeInv
<1> QED BY <1>1, InvariantHolds, PTL

\* Another runner that carries the label all the time is never overlooked
\* (classify_exact_runner in admission.rs).
THEOREM PermanentHolderIsSeenHolds == Spec => []PermanentHolderIsSeen
<1>1. EvidenceInv => PermanentHolderIsSeen
  BY DEF EvidenceInv, ScopeInv
<1> QED BY <1>1, InvariantHolds, PTL
-----------------------------------------------------------------------------
\* Types: a reading never gets beyond the page after the last, counts no more runners
\* than there can be, and names none that was never registered; a plan never has more
\* than three actions, those that were applied included.

Entries == [id: 1..MaxId, label: BOOLEAN, face: Faces]

Readings ==
  [first: SUBSET Entries, seen: SUBSET Entries, again: BOOLEAN, page: 1..MaxPages + 1,
   total: 0..MaxId]

Verdicts ==
  {"none", "Unknown", "Collision", "NotFound", "IdentityDrift", "OwnershipDrift", "Malformed",
   "Present", "Absent"}

ScopeTyped ==
  /\ born \in 0..MaxId /\ registered \subseteq 1..born /\ holders \subseteq registered
  /\ face \in Faces /\ owned \in BOOLEAN
  /\ reading \in Readings
  /\ verdict \in Verdicts
  /\ asOf \subseteq 1..MaxId /\ steady \subseteq holders

LEMMA ScopeTypes == ASSUME ScopeTyped PROVE ScopeTypeOK
<1>1. {e.id : e \in reading.first \cup reading.seen} \subseteq 1..MaxId
  BY DEF ScopeTyped, Readings, Entries
<1> QED BY <1>1 DEF ScopeTyped, ScopeTypeOK, Readings, Verdicts

LEMMA ScopeTypesStart == ASSUME ScopeInit PROVE ScopeTyped
<1>1. NoReading \in Readings
  BY ScopeAssumption DEF ScopeAssumption, NoReading, Readings
<1> QED BY <1>1, ScopeAssumption DEF ScopeAssumption, ScopeInit, ScopeTyped, Faces, Verdicts

LEMMA RegistryTypes ==
  ASSUME ScopeTyped, NEW there, NEW carrying, Registry(there, carrying), carrying \subseteq there,
         born' \in 0..MaxId, there \subseteq 1..born', face' \in Faces
  PROVE  ScopeTyped'
BY DEF Registry, ScopeTyped

LEMMA GithubChangesType == ASSUME ScopeTyped, GithubChanges PROVE ScopeTyped'
<1>1. /\ MaxId \in Nat /\ born \in 0..MaxId /\ registered \subseteq 1..born
      /\ holders \subseteq registered /\ face \in Faces
  BY ScopeAssumption DEF ScopeAssumption, ScopeTyped
<1>2. CASE Register
  <2> DEFINE there == registered \cup {born + 1}
  <2>1. Registry(there, holders) /\ born' = born + 1 /\ born' \in 0..MaxId /\ face' \in Faces
    BY <1>1, <1>2 DEF Register
  <2>2. there \subseteq 1..born' /\ holders \subseteq there
    BY <1>1, <2>1
  <2> HIDE DEF there
  <2> QED BY <2>1, <2>2, RegistryTypes
<1>3. CASE Unregister
  <2>1. PICK i \in registered : Registry(registered \ {i}, holders \ {i})
    BY <1>3 DEF Unregister
  <2> DEFINE there == registered \ {i}
             carrying == holders \ {i}
  <2>2. born' \in 0..MaxId /\ face' \in Faces /\ there \subseteq 1..born' /\ carrying \subseteq there
    BY <1>1, <1>3 DEF Unregister
  <2>3. Registry(there, carrying)
    BY <2>1
  <2> HIDE DEF there, carrying
  <2> QED BY <2>2, <2>3, RegistryTypes
<1>4. CASE MoveLabel
  <2>1. PICK i \in registered :
          Registry(registered, IF i \in holders THEN holders \ {i} ELSE holders \cup {i})
    BY <1>4 DEF MoveLabel
  <2> DEFINE carrying == IF i \in holders THEN holders \ {i} ELSE holders \cup {i}
  <2>2. /\ born' \in 0..MaxId /\ face' \in Faces /\ registered \subseteq 1..born'
        /\ carrying \subseteq registered
    BY <1>1, <1>4 DEF MoveLabel
  <2>3. Registry(registered, carrying)
    BY <2>1
  <2> HIDE DEF carrying
  <2> QED BY <2>2, <2>3, RegistryTypes
<1>5. CASE ChangeFace
  BY <1>1, <1>5, RegistryTypes DEF ChangeFace
<1> QED BY <1>2, <1>3, <1>4, <1>5 DEF GithubChanges

LEMMA RegisteredCount ==
  ASSUME ScopeTyped PROVE Cardinality(registered) \in 0..MaxId
<1>1. IsFiniteSet(1..MaxId) /\ Cardinality(1..MaxId) = MaxId
  BY FS_Interval, ScopeAssumption DEF ScopeAssumption
<1>2. registered \subseteq 1..MaxId
  BY ScopeAssumption DEF ScopeAssumption, ScopeTyped
<1>3. IsFiniteSet(registered) /\ Cardinality(registered) <= MaxId
  BY <1>1, <1>2, FS_Subset
<1> QED BY <1>3, FS_CardinalityType, ScopeAssumption DEF ScopeAssumption

LEMMA PageTypes == ASSUME ScopeTyped, ReadPage PROVE ScopeTyped'
<1> DEFINE entries == {Entry(i) : i \in PageOf(reading.page)}
           seen    == reading.seen \cup entries
<1>1. reading \in Readings /\ MaxPages \in Nat /\ UNCHANGED <<github, owned, steady>>
  BY ScopeAssumption DEF ScopeAssumption, ScopeTyped, ReadPage
<1>2. ASSUME reading' \in Readings, verdict' \in Verdicts, asOf' \subseteq 1..MaxId
      PROVE  ScopeTyped'
  BY <1>1, <1>2 DEF ScopeTyped, github
<1>3. asOf \subseteq 1..MaxId /\ registered \subseteq 1..MaxId /\ verdict \in Verdicts
  BY ScopeAssumption DEF ScopeAssumption, ScopeTyped
<1>4. seen \in SUBSET Entries
  <2>1. ASSUME NEW i \in registered PROVE Entry(i) \in Entries
    <3>1. (i \in holders) \in BOOLEAN
      OBVIOUS
    <3>2. (IF i = Bound THEN face ELSE "online") \in Faces
      BY DEF ScopeTyped, Faces
    <3> QED BY <1>3, <3>1, <3>2 DEF Entry, Entries
  <2> QED BY <1>1, <2>1 DEF Readings, PageOf
<1> HIDE DEF seen
<1>5. CASE GiveUp
  BY <1>1, <1>2, <1>3, <1>5 DEF GiveUp, Verdicts
<1>6. CASE /\ ~ reading.page > MaxPages
           /\ reading' = [reading EXCEPT !.seen = seen, !.page = @ + 1,
                                         !.total = Cardinality(registered)]
           /\ UNCHANGED <<verdict, asOf>>
  <2> DEFINE n == Cardinality(registered)
  <2>1. n \in 0..MaxId
    BY RegisteredCount
  <2>2. reading.page + 1 \in 1..MaxPages + 1
    BY <1>1, <1>6 DEF Readings
  <2>3. reading' = [reading EXCEPT !.seen = seen, !.page = @ + 1, !.total = n]
    BY <1>6
  <2> HIDE DEF n
  <2>4. reading' \in Readings
    BY <1>1, <1>4, <2>1, <2>2, <2>3 DEF Readings
  <2> QED BY <1>2, <1>3, <1>6, <2>4
<1>7. CASE Finish(seen)
  <2>1. NoReading \in Readings
    BY ScopeAssumption DEF ScopeAssumption, NoReading, Readings
  <2>2. reading' \in Readings
    BY <1>4, <1>7, <2>1 DEF Finish, Readings
  <2>3. Classify(seen) \in Verdicts
    BY DEF Classify, Verdicts
  <2> QED BY <1>2, <1>3, <1>7, <2>2, <2>3 DEF Finish, Verdicts
<1> QED BY <1>5, <1>6, <1>7 DEF ReadPage, seen

LEMMA ScopeTypesKept == ASSUME ScopeTyped, ObserveScope \/ UNCHANGED scopeVars PROVE ScopeTyped'
<1>1. CASE RequestFails
  BY <1>1 DEF RequestFails, GiveUp, github, ScopeTyped, Verdicts
<1>2. CASE UNCHANGED scopeVars
  BY <1>2 DEF scopeVars, github, ScopeTyped
<1> QED BY <1>1, <1>2, GithubChangesType, PageTypes DEF ObserveScope

SupervisionTyped ==
  /\ request \in Requests \cup {"none"} /\ observed \in Observations /\ runnerHome \in Ownership
  /\ pending \in Seq(Actions) /\ applied \in Seq(Actions) /\ Len(pending) + Len(applied) <= 3
  /\ outcome \in {"none", "Applied", "Noop", "Refused", "Backend"}

LEMMA ShortSequences ==
  ASSUME NEW s \in Seq(Actions), Len(s) <= 3 PROVE s \in BoundedSeq(Actions, 3)
<1>1. Len(s) \in Nat
  OBVIOUS
<1>2. \A n \in Nat : n <= 3 => n \in 0..3
  OBVIOUS
<1>3. Len(s) \in 0..3
  BY <1>1, <1>2
<1>4. s \in [1..Len(s) -> Actions]
  BY LenProperties
<1> QED BY <1>3, <1>4 DEF BoundedSeq, SeqOf

LEMMA SupervisionTypes == ASSUME SupervisionTyped PROVE SupervisionTypeOK
<1>1. Len(pending) <= 3 /\ Len(applied) <= 3
  BY DEF SupervisionTyped
<1> QED BY <1>1, ShortSequences DEF SupervisionTyped, SupervisionTypeOK

LEMMA PlansTyped ==
  ASSUME NEW r \in Requests, NEW o \in Observations, ~Refused(r, o)
  PROVE  Planned(r, o) \in Seq(Actions) /\ Len(Planned(r, o)) <= 3
<1> DEFINE Short(s) == s \in Seq(Actions) /\ Len(s) <= 3
<1>1. /\ Short(<<>>) /\ Short(<<"Start">>) /\ Short(<<"RequestDrain">>) /\ Short(<<"Stop">>)
      /\ Short(<<"RestartConnection">>) /\ Short(<<"AdoptExistingListener">>)
  BY DEF Actions
<1>2. /\ Short(<<"RequestDrain", "StopAfterDrain">>) /\ Short(<<"Stop", "Start">>)
      /\ Short(<<"RequestDrain", "StopAfterDrain", "Start">>)
  BY DEF Actions
<1> HIDE DEF Short
<1>3. CASE r = "Adopt"
  BY <1>1, <1>3 DEF Planned, Short
<1>4. CASE r # "Adopt"
  <2>1. Planned(r, o) = Plans[r][o.phase] /\ o.phase \in DOMAIN Plans[r]
    BY <1>4 DEF Planned, Refused
  <2>2. \A p \in DOMAIN Plans[r] : Short(Plans[r][p])
    <3>1. CASE r = "EnsureStarted"
      BY <1>1, <3>1 DEF Plans
    <3>2. CASE r = "EnsureDrained"
      BY <1>1, <3>2 DEF Plans
    <3>3. CASE r = "EnsureStopped"
      BY <1>1, <1>2, <3>3 DEF Plans
    <3>4. CASE r = "Restart"
      BY <1>1, <1>2, <3>4 DEF Plans
    <3>5. CASE r = "Reconnect"
      BY <1>1, <3>5 DEF Plans
    <3> QED BY <1>4, <3>1, <3>2, <3>3, <3>4, <3>5 DEF Requests
  <2> QED BY <2>1, <2>2 DEF Short
<1> QED BY <1>3, <1>4

LEMMA SupervisionTypesKept ==
  ASSUME SupervisionTyped, SupervisionInv, Supervise \/ UNCHANGED supervisionVars
  PROVE  SupervisionTyped'
<1>1. CASE Request
  <2>1. /\ request = "none" /\ request' \in Requests /\ pending = <<>> /\ applied = <<>>
        /\ outcome = "none" /\ UNCHANGED <<observed, runnerHome>>
    BY <1>1 DEF Request, SupervisionInv
  <2>2. CASE outcome' \in {"Noop", "Refused"} /\ UNCHANGED <<pending, applied>>
    BY <2>1, <2>2 DEF SupervisionTyped
  <2>3. CASE /\ ~Refused(request', observed) /\ pending' = Planned(request', observed)
             /\ UNCHANGED <<applied, outcome>>
    <3>1. pending' \in Seq(Actions) /\ Len(pending') <= 3 /\ Len(applied') = 0
      BY <2>1, <2>3, PlansTyped DEF SupervisionTyped
    <3> QED BY <2>1, <2>3, <3>1 DEF SupervisionTyped
  <2> QED BY <1>1, <2>2, <2>3 DEF Request, Answer
<1>2. CASE Apply
  <2>1. /\ pending \in Seq(Actions) /\ pending # <<>> /\ applied \in Seq(Actions)
        /\ applied' = Append(applied, Head(pending)) /\ pending' = Tail(pending)
        /\ outcome' \in {"Applied", "none"} /\ UNCHANGED <<request, observed, runnerHome>>
    BY <1>2 DEF Apply, SupervisionTyped
  <2>2. /\ pending' \in Seq(Actions) /\ Len(pending') = Len(pending) - 1
        /\ applied' \in Seq(Actions) /\ Len(applied') = Len(applied) + 1
    BY <2>1
  <2> QED BY <2>1, <2>2 DEF SupervisionTyped
<1>3. CASE BackendFails
  <2>1. pending' = <<>> /\ pending' \in Seq(Actions) /\ Len(pending') = 0
    BY <1>3 DEF BackendFails, AfterFailure
  <2> QED BY <1>3, <2>1 DEF BackendFails, SupervisionTyped
<1>4. CASE UNCHANGED supervisionVars
  BY <1>4 DEF supervisionVars, SupervisionTyped
<1> QED BY <1>1, <1>2, <1>3, <1>4 DEF Supervise

\* Readings, observations, plans and turns keep their types for any number of runners,
\* pages and changes: a collection stops at MaxPages (collect_runner_scope_snapshot in
\* admission.rs) and no plan of the supervisor is longer than three actions.
THEOREM EvidenceTypeCorrect == Spec => []TypeOK
<1> DEFINE Typed == /\ ScopeTyped /\ SupervisionTyped
                    /\ turn \in {"processes", "scope", "supervisor"} /\ changes \in 0..MaxChanges
<1>1. Init => Typed
  <2> SUFFICES ASSUME Init PROVE Typed
    OBVIOUS
  <2>1. ScopeTyped
    BY ScopeTypesStart DEF Init, ScopeRests
  <2>2. SupervisionInit
    BY DEF Init, SupervisionRests
  <2>3. SupervisionTyped
    BY <2>2 DEF SupervisionInit, SupervisionTyped
  <2> QED BY <2>1, <2>3, BoundAssumption DEF Init, BoundAssumption
<1>2. ASSUME Typed, EvidenceInv, [Next]_vars PROVE Typed'
  <2>1. ScopeTyped'
    BY <1>2, ScopeTypesKept DEF Next, ObserveProcesses, ObserveScope, ActOnEvidence, vars
  <2>2. SupervisionTyped'
    BY <1>2, SupervisionTypesKept
       DEF EvidenceInv, Next, ObserveProcesses, ObserveScope, ActOnEvidence, vars
  <2>3. turn' = turn /\ changes' \in 0..MaxChanges
    BY <1>2, BoundAssumption
       DEF BoundAssumption, Next, ObserveProcesses, ObserveScope, ActOnEvidence, Change, vars
  <2> QED BY <1>2, <2>1, <2>2, <2>3
<1>3. Typed /\ EvidenceInv => TypeOK
  BY ScopeTypes, SupervisionTypes DEF EvidenceInv, LocalInv, TypeOK
<1> QED BY <1>1, <1>2, <1>3, InvariantHolds, PTL DEF Spec
================================================================================
