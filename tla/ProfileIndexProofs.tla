------------------------- MODULE ProfileIndexProofs -------------------------
(***************************************************************************)
(* Proofs about ProfileIndex, for any number of texts, workers, mutations, *)
(* rows, retries and faults: a profile has at most one active row, and the *)
(* completed rebuild of the latest change leaves the index as the profile. *)
(***************************************************************************)
EXTENDS ProfileIndex, TLAPS

Rebuilding == {"rebuild", "write", "deactivate"}
Holding    == {"write", "deactivate"}
Embedding  == {"skip", "call"}

(* A worker has what its place needs. *)
Shapes ==
  \A w \in Workers :
    /\ at[w] \in Rebuilding => event[w] \in Events /\ event[w] <= events
    /\ at[w] \in Holding   => text[w] \in Texts
    /\ at[w] \in Embedding => item[w] \in Items /\ text[w] \in Texts

Stored ==
  /\ \A i \in Items : active[i] => itemText[i] \in Texts
  /\ scan # NothingScanned => scan.item \in Items /\ scan.text \in Texts

(* Jobs are enqueued in order, and a job that is worked on is PROCESSING and *)
(* in the hands of one worker.                                               *)
JobsInHand ==
  /\ \A k \in Events : k > events => rebuild[k] = "ABSENT"
  /\ \A w \in Workers : at[w] \in Rebuilding => rebuild[event[w]] = "PROCESSING"
  /\ \A v, w \in Workers :
       at[v] \in Rebuilding /\ at[w] \in Rebuilding /\ event[v] = event[w] => v = w

Locked == \A w \in Workers : at[w] \in Holding <=> profileLock = w

(* The status a rebuild has loaded is no longer that of the person. *)
Outdated(w) ==
  \/ at[w] = "write" /\ person = "DELETED"
  \/ at[w] = "deactivate" /\ person = "ACTIVE"

(* Under the lock the rows and the text stay as they were loaded.  Only the    *)
(* status can change, and then a newer rebuild is pending behind the lock.     *)
Views ==
  \A w \in Workers :
    at[w] \in Holding =>
      /\ seen[w] = {i \in Items : active[i]}
      /\ text[w] = profileText
      /\ Outdated(w) => event[w] # events /\ rebuild[events] # "COMPLETED"

Inv ==
  /\ TypeOK
  /\ Shapes
  /\ Stored
  /\ JobsInHand
  /\ Locked
  /\ Views
  /\ OneActiveItem
  /\ LatestRebuildDecides

-----------------------------------------------------------------------------

(* The initial state satisfies the invariant. *)
LEMMA InitInv == Init => Inv
<1> SUFFICES ASSUME Init PROVE Inv
  OBVIOUS
<1> USE IndexAssumption DEF IndexAssumption, Init, Events, Items, NothingScanned
<1>1. TypeOK
  BY DEF TypeOK, JobStatuses, NoEvent, NoItem
<1>2. Shapes /\ Stored /\ JobsInHand /\ Locked /\ Views
  BY DEF Shapes, Stored, JobsInHand, Locked, Views, Rebuilding, Holding, Embedding
<1>3. OneActiveItem /\ LatestRebuildDecides
  BY DEF OneActiveItem, LatestRebuildDecides
<1> QED
  BY <1>1, <1>2, <1>3 DEF Inv

-----------------------------------------------------------------------------
(* Types *)

(* The worker's share of the type invariant. *)
WorkerTypes ==
  /\ at       \in [Workers -> {"idle", "rebuild", "write", "deactivate", "skip", "call"}]
  /\ event    \in [Workers -> Events \cup {NoEvent}]
  /\ seen     \in [Workers -> SUBSET Items]
  /\ seenNull \in [Workers -> BOOLEAN]
  /\ item     \in [Workers -> Items \cup {NoItem}]
  /\ text     \in [Workers -> Texts \cup {NoText}]

(* A worker that becomes idle keeps the types. *)
LEMMA IdleTypes ==
  ASSUME WorkerTypes, NEW w \in Workers, WorkerIdle(w)
  PROVE  WorkerTypes'
  BY DEF WorkerTypes, WorkerIdle

(* The embedding job of a row takes a status. *)
LEMMA SetEmbedJobTypes ==
  ASSUME embedJob \in [Items -> [Texts -> JobStatuses]],
         NEW i \in Items, NEW t \in Texts, NEW st \in JobStatuses, SetEmbedJob(i, t, st)
  PROVE  embedJob' \in [Items -> [Texts -> JobStatuses]]
  BY DEF SetEmbedJob

(* Ensuring an embedding job keeps the type of the jobs. *)
LEMMA EnsureTypes ==
  ASSUME embedJob \in [Items -> [Texts -> JobStatuses]],
         NEW i \in Items, NEW t \in Texts, Ensure(i, t)
  PROVE  embedJob' \in [Items -> [Texts -> JobStatuses]]
<1>1. "PENDING" \in JobStatuses
  BY DEF JobStatuses
<1> QED
  BY <1>1, SetEmbedJobTypes DEF Ensure

(* Counting a failure keeps the type of the counters. *)
LEMMA FailureTypes ==
  ASSUME failures \in [Items -> [Texts -> Nat]], NEW i \in Items, NEW t \in Texts,
         failures' = [failures EXCEPT ![i][t] = @ + 1]
  PROVE  failures' \in [Items -> [Texts -> Nat]]
  OBVIOUS

(* A rebuild job takes a status. *)
LEMMA RebuildTypes ==
  ASSUME rebuild \in [Events -> JobStatuses], NEW k, NEW st \in JobStatuses,
         rebuild' = [rebuild EXCEPT ![k] = st]
  PROVE  rebuild' \in [Events -> JobStatuses]
  OBVIOUS

(* Every step keeps the types. *)
LEMMA TypeStep ==
  ASSUME Inv, [Next]_vars
  PROVE  TypeOK'
<1> USE DEF personVars, itemVars, embedVars, workerVars
<1>1. TypeOK /\ WorkerTypes /\ Shapes /\ Stored
  BY DEF Inv, TypeOK, WorkerTypes
<1>2. /\ "PENDING" \in JobStatuses /\ "PROCESSING" \in JobStatuses
      /\ "COMPLETED" \in JobStatuses /\ "FAILED" \in JobStatuses
  BY DEF JobStatuses
<1>3. CASE Mutation
  <2>1. ASSUME Mutated PROVE events' \in Events /\ rebuild' \in [Events -> JobStatuses]
    BY <1>1, <1>2, <2>1, IndexAssumption DEF Mutated, TypeOK, Events, IndexAssumption
  <2> QED
    BY <1>1, <1>3, <2>1 DEF Mutation, BeginEdit, CommitEdit, EndEdit, ChangeStatus, TypeOK
<1>4. CASE Scanner
  <2>1. CASE EnsureScanned
    <3>1. scan.item \in Items /\ scan.text \in Texts
      BY <1>1, <2>1 DEF EnsureScanned, Stored
    <3>2. embedJob' \in [Items -> [Texts -> JobStatuses]]
      BY <1>1, <2>1, <3>1, EnsureTypes DEF EnsureScanned, TypeOK
    <3> QED
      BY <1>1, <2>1, <3>2 DEF EnsureScanned, TypeOK, NothingScanned
  <2>2. ASSUME NEW i \in Items, ScanItem(i) PROVE TypeOK'
    BY <1>1, <2>2 DEF ScanItem, TypeOK
  <2> QED
    BY <1>4, <2>1, <2>2 DEF Scanner
<1>5. ASSUME NEW w \in Workers, RebuildStep(w) PROVE TypeOK'
  <2>1. ASSUME NEW k \in Events, TakeRebuild(w, k) PROVE TypeOK'
    BY <1>1, <1>2, <2>1 DEF TakeRebuild, TypeOK
  <2>2. CASE LoadRebuild(w)
    BY <1>1, <2>2 DEF LoadRebuild, Load, TypeOK
  <2>3. ASSUME CompleteRebuild(w)
        PROVE  /\ WorkerTypes' /\ rebuild' \in [Events -> JobStatuses]
               /\ profileLock' \in Workers \cup {NoWorker}
    BY <1>1, <1>2, <2>3, IdleTypes, RebuildTypes DEF CompleteRebuild, TypeOK
  <2>4. CASE Deactivate(w)
    BY <1>1, <2>3, <2>4 DEF Deactivate, TypeOK, WorkerTypes
  <2>5. CASE InsertItem(w)
    <3>1. text[w] \in Texts
      BY <1>1, <2>5 DEF InsertItem, Shapes, Holding
    <3>2. PICK i \in Items : /\ itemText' = [itemText EXCEPT ![i] = text[w]]
                             /\ active' = [active EXCEPT ![i] = TRUE]
                             /\ Ensure(i, text[w])
      BY <2>5 DEF InsertItem
    <3>3. embedJob' \in [Items -> [Texts -> JobStatuses]]
      BY <1>1, <3>1, <3>2, EnsureTypes DEF TypeOK
    <3> QED
      BY <1>1, <2>3, <2>5, <3>1, <3>2, <3>3 DEF InsertItem, TypeOK, WorkerTypes
  <2>6. CASE UpdateItem(w)
    <3>1. text[w] \in Texts
      BY <1>1, <2>6 DEF UpdateItem, Shapes, Holding
    <3>2. PICK i \in Items :
            /\ itemText' = [itemText EXCEPT ![i] = text[w]]
            /\ active' = [j \in Items |-> active[j] /\ (j = i \/ j \notin seen[w])]
            /\ vector' = [vector EXCEPT ![i] = NoText] \/ vector' = vector
            /\ Ensure(i, text[w]) \/ UNCHANGED embedJob
      BY <2>6 DEF UpdateItem
    <3>3. embedJob' \in [Items -> [Texts -> JobStatuses]]
      BY <1>1, <3>1, <3>2, EnsureTypes DEF TypeOK
    <3>4. /\ itemText' \in [Items -> Texts \cup {NoText}]
          /\ vector' \in [Items -> Texts \cup {NoText}]
      BY <1>1, <3>1, <3>2 DEF TypeOK
    <3>5. active' \in [Items -> BOOLEAN]
      BY <1>1, <3>2 DEF TypeOK
    <3> QED
      BY <1>1, <2>3, <2>6, <3>3, <3>4, <3>5 DEF UpdateItem, TypeOK, WorkerTypes
  <2>7. ASSUME FailRebuild(w)
        PROVE  /\ WorkerTypes' /\ rebuild' \in [Events -> JobStatuses]
               /\ profileLock' \in Workers \cup {NoWorker}
    BY <1>1, <1>2, <2>7, IdleTypes, RebuildTypes DEF FailRebuild, TypeOK
  <2>8. CASE AbortRebuild(w)
    BY <1>1, <2>7, <2>8 DEF AbortRebuild, TypeOK, WorkerTypes
  <2>9. CASE AbortEdit(w)
    BY <1>1, <2>9 DEF AbortEdit, TypeOK
  <2>10. CASE RebuildRaises(w)
    <3>1. faults' \in 0..MaxFaults
      BY <1>1, <2>10, IndexAssumption DEF RebuildRaises, Fault, TypeOK, IndexAssumption
    <3> QED
      BY <1>1, <2>7, <2>10, <3>1 DEF RebuildRaises, TypeOK, WorkerTypes
  <2> QED
    BY <1>5, <2>1, <2>2, <2>4, <2>5, <2>6, <2>8, <2>9, <2>10 DEF RebuildStep
<1>6. ASSUME NEW w \in Workers, EmbedStep(w) PROVE TypeOK'
  <2>1. ASSUME NEW i \in Items, NEW t \in Texts, TakeEmbed(w, i, t) PROVE TypeOK'
    <3>1. embedJob' \in [Items -> [Texts -> JobStatuses]]
      BY <1>1, <1>2, <2>1, SetEmbedJobTypes DEF TakeEmbed, TypeOK
    <3> QED
      BY <1>1, <2>1, <3>1 DEF TakeEmbed, TypeOK
  <2>2. at[w] \in Embedding => item[w] \in Items /\ text[w] \in Texts
    BY <1>1 DEF Shapes
  <2>3. CASE SkipEmbed(w)
    <3>1. embedJob' \in [Items -> [Texts -> JobStatuses]] /\ WorkerTypes'
      BY <1>1, <1>2, <2>2, <2>3, SetEmbedJobTypes, IdleTypes DEF SkipEmbed, TypeOK, Embedding
    <3> QED
      BY <1>1, <2>3, <3>1 DEF SkipEmbed, TypeOK, WorkerTypes
  <2>4. CASE ApplyEmbed(w)
    <3>1. embedJob' \in [Items -> [Texts -> JobStatuses]] /\ WorkerTypes'
      BY <1>1, <1>2, <2>2, <2>4, SetEmbedJobTypes, IdleTypes DEF ApplyEmbed, TypeOK, Embedding
    <3>2. vector' \in [Items -> Texts \cup {NoText}]
      BY <1>1, <2>2, <2>4 DEF ApplyEmbed, TypeOK, Embedding
    <3> QED
      BY <1>1, <2>4, <3>1, <3>2 DEF ApplyEmbed, TypeOK, WorkerTypes
  <2>5. CASE EmbedRaises(w)
    <3>1. embedJob' \in [Items -> [Texts -> JobStatuses]] /\ WorkerTypes'
      BY <1>1, <1>2, <2>2, <2>5, SetEmbedJobTypes, IdleTypes DEF EmbedRaises, TypeOK, Embedding
    <3>2. failures' \in [Items -> [Texts -> Nat]]
      BY <1>1, <2>2, <2>5, FailureTypes DEF EmbedRaises, TypeOK, Embedding
    <3> QED
      BY <1>1, <2>5, <3>1, <3>2 DEF EmbedRaises, TypeOK, WorkerTypes
  <2> QED
    BY <1>6, <2>1, <2>3, <2>4, <2>5 DEF EmbedStep
<1>7. ASSUME NEW w \in Workers, WorkerCrash(w) PROVE TypeOK'
  <2>1. /\ WorkerTypes' /\ profileLock' \in Workers \cup {NoWorker}
        /\ faults' \in 0..MaxFaults
    BY <1>1, <1>7, IdleTypes, IndexAssumption
    DEF WorkerCrash, Fault, TypeOK, IndexAssumption
  <2>2. rebuild' \in [Events -> JobStatuses]
    BY <1>1, <1>2, <1>7, RebuildTypes DEF WorkerCrash, TypeOK
  <2>3. /\ embedJob' \in [Items -> [Texts -> JobStatuses]]
        /\ failures' \in [Items -> [Texts -> Nat]]
    BY <1>1, <1>2, <1>7, SetEmbedJobTypes, FailureTypes
    DEF WorkerCrash, TypeOK, Shapes, Embedding
  <2> QED
    BY <1>1, <1>7, <2>1, <2>2, <2>3 DEF WorkerCrash, TypeOK, WorkerTypes
<1>8. CASE UNCHANGED vars
  BY <1>1, <1>8 DEF vars, TypeOK
<1> QED
  BY <1>3, <1>4, <1>5, <1>6, <1>7, <1>8 DEF Next

-----------------------------------------------------------------------------
(* Places, jobs and locks *)

(* What a worker that becomes idle leaves behind. *)
LEMMA IdleWorker ==
  ASSUME WorkerTypes, NEW w \in Workers, WorkerIdle(w)
  PROVE  /\ at'[w] = "idle"
         /\ \A v \in Workers \ {w} : /\ at'[v] = at[v] /\ event'[v] = event[v]
                                     /\ item'[v] = item[v] /\ text'[v] = text[v]
                                     /\ seen'[v] = seen[v]
  BY DEF WorkerTypes, WorkerIdle

(* The end of a rebuild touches no job of another worker. *)
LEMMA RebuildEnds ==
  ASSUME Inv, NEW w \in Workers, NEW st \in JobStatuses, at[w] \in Rebuilding,
         rebuild' = [rebuild EXCEPT ![event[w]] = st], WorkerIdle(w),
         UNCHANGED events
  PROVE  Shapes' /\ JobsInHand'
<1>1. WorkerTypes /\ Shapes /\ JobsInHand /\ rebuild \in [Events -> JobStatuses]
  BY DEF Inv, TypeOK, WorkerTypes
<1>2. events' = events
  OBVIOUS
<1>3. event[w] \in Events /\ event[w] <= events
  BY <1>1 DEF Shapes
<1>4. Shapes'
  BY <1>1, <1>2, IdleWorker DEF Shapes, Rebuilding, Holding, Embedding
<1>5. \A k \in Events : k > events' => rebuild'[k] = "ABSENT"
  BY <1>1, <1>2, <1>3 DEF JobsInHand, Events, Inv, TypeOK
<1>6. \A v \in Workers : at'[v] \in Rebuilding =>
         v # w /\ event'[v] # event[w] /\ rebuild'[event'[v]] = "PROCESSING"
  <2> SUFFICES ASSUME NEW v \in Workers, at'[v] \in Rebuilding
               PROVE  v # w /\ event'[v] # event[w] /\ rebuild'[event'[v]] = "PROCESSING"
    OBVIOUS
  <2>1. v # w
    BY <1>1, IdleWorker DEF Rebuilding
  <2>2. at'[v] = at[v] /\ event'[v] = event[v]
    BY <1>1, <2>1, IdleWorker
  <2>3. event[v] # event[w] /\ rebuild[event[v]] = "PROCESSING" /\ event[v] \in Events
    BY <1>1, <2>1, <2>2 DEF JobsInHand, Shapes
  <2> QED
    BY <1>1, <2>1, <2>2, <2>3
<1>7. JobsInHand'
  BY <1>1, <1>5, <1>6, IdleWorker DEF JobsInHand
<1> QED
  BY <1>4, <1>7

(* Every step keeps the shapes of the workers and the order of the jobs. *)
LEMMA JobStep ==
  ASSUME Inv, [Next]_vars
  PROVE  Shapes' /\ JobsInHand'
<1> USE DEF personVars, itemVars, embedVars, workerVars
<1>1. /\ TypeOK /\ WorkerTypes /\ Shapes /\ Stored /\ JobsInHand
      /\ rebuild \in [Events -> JobStatuses] /\ events \in Events
  BY DEF Inv, TypeOK, WorkerTypes
<1>2. "COMPLETED" \in JobStatuses /\ "FAILED" \in JobStatuses /\ "PENDING" \in JobStatuses
  BY DEF JobStatuses
<1>3. CASE Mutation
  <2>1. ASSUME Mutated, UNCHANGED workerVars PROVE Shapes' /\ JobsInHand'
    <3>1. /\ events' = events + 1 /\ events + 1 \in Events
          /\ \A k \in Events : k # events + 1 => rebuild'[k] = rebuild[k]
      BY <1>1, <2>1, IndexAssumption DEF Mutated, Events, IndexAssumption
    <3>2. Shapes'
      BY <1>1, <2>1, <3>1 DEF Shapes, Events
    <3>3. \A k \in Events : k > events' => rebuild'[k] = "ABSENT"
      BY <1>1, <3>1 DEF JobsInHand, Events
    <3>4. \A w \in Workers : at[w] \in Rebuilding => rebuild'[event[w]] = "PROCESSING"
      BY <1>1, <3>1 DEF JobsInHand, Shapes, Events
    <3> QED
      BY <1>1, <2>1, <3>2, <3>3, <3>4 DEF JobsInHand
  <2>2. ASSUME UNCHANGED <<events, rebuild, workerVars>> PROVE Shapes' /\ JobsInHand'
    BY <1>1, <2>2 DEF Shapes, JobsInHand
  <2> QED
    BY <1>3, <2>1, <2>2 DEF Mutation, BeginEdit, CommitEdit, EndEdit, ChangeStatus
<1>4. CASE Scanner
  BY <1>1, <1>4 DEF Scanner, EnsureScanned, ScanItem, Shapes, JobsInHand
<1>5. ASSUME NEW w \in Workers, RebuildStep(w) PROVE Shapes' /\ JobsInHand'
  <2>1. ASSUME NEW k \in Events, TakeRebuild(w, k) PROVE Shapes' /\ JobsInHand'
    <3>1. k <= events
      BY <1>1, <2>1 DEF TakeRebuild, JobsInHand, Events
    <3>2. \A v \in Workers : at[v] \in Rebuilding => event[v] # k
      BY <1>1, <2>1 DEF TakeRebuild, JobsInHand
    <3>3. Shapes'
      BY <1>1, <2>1, <3>1 DEF TakeRebuild, Shapes, WorkerTypes, Rebuilding, Holding, Embedding
    <3>4. \A q \in Events : q > events' => rebuild'[q] = "ABSENT"
      BY <1>1, <2>1, <3>1 DEF TakeRebuild, JobsInHand, Events
    <3>5. \A v \in Workers : at'[v] \in Rebuilding => rebuild'[event'[v]] = "PROCESSING"
      BY <1>1, <2>1, <3>2 DEF TakeRebuild, JobsInHand, Shapes, WorkerTypes
    <3>6. \A u, v \in Workers : at'[u] \in Rebuilding /\ at'[v] \in Rebuilding
             /\ event'[u] = event'[v] => u = v
      BY <1>1, <2>1, <3>2 DEF TakeRebuild, JobsInHand, WorkerTypes
    <3> QED
      BY <3>3, <3>4, <3>5, <3>6 DEF JobsInHand
  <2>2. CASE LoadRebuild(w)
    <3>1. profileText \in Texts
      BY <1>1 DEF TypeOK
    <3> QED
      BY <1>1, <2>2, <3>1
      DEF LoadRebuild, Load, Shapes, JobsInHand, WorkerTypes, Rebuilding, Holding, Embedding
  <2>3. ASSUME at[w] \in Rebuilding, CompleteRebuild(w), UNCHANGED events
        PROVE  Shapes' /\ JobsInHand'
    BY <1>2, <2>3, RebuildEnds DEF CompleteRebuild
  <2>4. ASSUME at[w] \in Rebuilding, FailRebuild(w), UNCHANGED events
        PROVE  Shapes' /\ JobsInHand'
    BY <1>2, <2>4, RebuildEnds DEF FailRebuild
  <2>5. CASE Deactivate(w) \/ InsertItem(w) \/ UpdateItem(w)
    BY <2>3, <2>5 DEF Deactivate, InsertItem, UpdateItem, Rebuilding
  <2>6. CASE AbortRebuild(w) \/ RebuildRaises(w)
    BY <2>4, <2>6 DEF AbortRebuild, Deadlock, RebuildRaises, Rebuilding
  <2>7. CASE AbortEdit(w)
    BY <1>1, <2>7 DEF AbortEdit, Shapes, JobsInHand
  <2> QED
    BY <1>5, <2>1, <2>2, <2>5, <2>6, <2>7 DEF RebuildStep
<1>6. ASSUME NEW w \in Workers, WorkerIdle(w), at[w] \in Embedding,
             UNCHANGED <<events, rebuild>>
      PROVE  Shapes' /\ JobsInHand'
  <2>1. Shapes'
    BY <1>1, <1>6, IdleWorker DEF Shapes, Rebuilding, Holding, Embedding
  <2>2. \A v \in Workers : at'[v] \in Rebuilding => at[v] \in Rebuilding /\ event'[v] = event[v]
    BY <1>1, <1>6, IdleWorker DEF Rebuilding
  <2> QED
    BY <1>1, <1>6, <2>1, <2>2 DEF JobsInHand
<1>7. ASSUME NEW w \in Workers, EmbedStep(w) PROVE Shapes' /\ JobsInHand'
  <2>1. ASSUME NEW i \in Items, NEW t \in Texts, TakeEmbed(w, i, t)
        PROVE  Shapes' /\ JobsInHand'
    BY <1>1, <2>1 DEF TakeEmbed, Shapes, JobsInHand, WorkerTypes, Rebuilding, Holding, Embedding
  <2> QED
    BY <1>6, <1>7, <2>1 DEF EmbedStep, SkipEmbed, ApplyEmbed, EmbedRaises, Embedding
<1>8. ASSUME NEW w \in Workers, WorkerCrash(w) PROVE Shapes' /\ JobsInHand'
  <2>1. CASE at[w] \in Rebuilding
    BY <1>2, <1>8, <2>1, RebuildEnds DEF WorkerCrash, Rebuilding
  <2>2. CASE at[w] \in Embedding
    BY <1>6, <1>8, <2>2 DEF WorkerCrash, Embedding
  <2> QED
    BY <1>8, <2>1, <2>2 DEF WorkerCrash, Rebuilding, Embedding
<1>9. CASE UNCHANGED vars
  BY <1>1, <1>9 DEF vars, Shapes, JobsInHand
<1> QED
  BY <1>3, <1>4, <1>5, <1>7, <1>8, <1>9 DEF Next

-----------------------------------------------------------------------------
(* Rows, locks and views *)

(* Rows keep a text, and the scanner keeps a row and its text. *)
LEMMA StoredStep ==
  ASSUME Inv, [Next]_vars
  PROVE  Stored'
<1> USE DEF personVars, itemVars, embedVars, workerVars
<1>1. TypeOK /\ Shapes /\ Stored
  BY DEF Inv
<1>2. ASSUME UNCHANGED <<itemText, active, scan>> PROVE Stored'
  BY <1>1, <1>2 DEF Stored
<1>3. CASE Mutation
  BY <1>2, <1>3 DEF Mutation, BeginEdit, CommitEdit, EndEdit, ChangeStatus
<1>4. CASE Scanner
  BY <1>1, <1>4 DEF Scanner, EnsureScanned, ScanItem, Stored, NothingScanned
<1>5. ASSUME NEW w \in Workers, RebuildStep(w) PROVE Stored'
  <2>1. CASE Deactivate(w)
    BY <1>1, <2>1 DEF Deactivate, Stored, TypeOK
  <2>2. CASE InsertItem(w) \/ UpdateItem(w)
    <3>1. text[w] \in Texts
      BY <1>1, <2>2 DEF InsertItem, UpdateItem, Shapes, Holding
    <3>2. \A i \in Items : active'[i] => itemText'[i] \in Texts
      <4>1. CASE InsertItem(w)
        BY <1>1, <3>1, <4>1 DEF InsertItem, Stored, TypeOK
      <4>2. CASE UpdateItem(w)
        BY <1>1, <3>1, <4>2 DEF UpdateItem, Stored, TypeOK
      <4> QED
        BY <2>2, <4>1, <4>2
    <3> QED
      BY <1>1, <2>2, <3>2 DEF InsertItem, UpdateItem, Stored
  <2> QED
    BY <1>2, <1>5, <2>1, <2>2
    DEF RebuildStep, TakeRebuild, LoadRebuild, AbortRebuild, AbortEdit, RebuildRaises
<1>6. ASSUME NEW w \in Workers, EmbedStep(w) \/ WorkerCrash(w) PROVE Stored'
  BY <1>2, <1>6 DEF EmbedStep, TakeEmbed, SkipEmbed, ApplyEmbed, EmbedRaises, WorkerCrash
<1>7. CASE UNCHANGED vars
  BY <1>2, <1>7 DEF vars
<1> QED
  BY <1>3, <1>4, <1>5, <1>6, <1>7 DEF Next

(* What the locks and rows say, given what each worker has loaded. *)
Consistent == Locked /\ Views /\ OneActiveItem /\ LatestRebuildDecides

(* A worker without the profile lock that becomes idle disturbs no view. *)
LEMMA QuietEnd ==
  ASSUME Inv, NEW w \in Workers, at[w] \notin Holding, WorkerIdle(w),
         UNCHANGED <<person, profileText, events, profileLock, itemText, active>>,
         rebuild'[events] = "COMPLETED" => rebuild[events] = "COMPLETED"
  PROVE  Consistent'
<1>1. WorkerTypes /\ Locked /\ Views /\ OneActiveItem /\ LatestRebuildDecides
  BY DEF Inv, TypeOK, WorkerTypes
<1>2. Locked'
  BY <1>1, IdleWorker DEF Locked, Holding
<1>3. Views'
  BY <1>1, IdleWorker DEF Views, Holding, Outdated
<1>4. OneActiveItem' /\ LatestRebuildDecides'
  BY <1>1 DEF OneActiveItem, LatestRebuildDecides, Matches
<1> QED
  BY <1>2, <1>3, <1>4 DEF Consistent

(* A rebuild that gives the lock back leaves nobody holding it. *)
LEMMA LockReturned ==
  ASSUME Inv, NEW w \in Workers, at[w] \in Holding, WorkerIdle(w), profileLock' = NoWorker
  PROVE  Locked' /\ Views'
<1>1. WorkerTypes /\ Locked
  BY DEF Inv, TypeOK, WorkerTypes
<1>2. \A v \in Workers : at'[v] \notin Holding
  BY <1>1, IdleWorker DEF Locked, Holding
<1> QED
  BY <1>2, IndexAssumption DEF Locked, Views, IndexAssumption

(* A rebuild that writes what it loaded leaves the index right, and if it does *)
(* not know the person's status it is not the rebuild of the latest change.    *)
LEMMA RebuildWrites ==
  ASSUME Inv, NEW w \in Workers,
         Deactivate(w) \/ InsertItem(w) \/ UpdateItem(w)
  PROVE  Consistent'
<1> USE DEF personVars, itemVars
<1>1. /\ TypeOK /\ Shapes /\ Stored /\ JobsInHand /\ Locked /\ Views
      /\ OneActiveItem /\ LatestRebuildDecides
  BY DEF Inv
<1>2. /\ at[w] \in Holding /\ CompleteRebuild(w)
      /\ person' = person /\ profileText' = profileText /\ events' = events
  BY DEF Deactivate, InsertItem, UpdateItem, Holding
<1>3. Locked' /\ Views'
  BY <1>2, LockReturned DEF CompleteRebuild
<1>4. /\ seen[w] = {i \in Items : active[i]} /\ text[w] = profileText
      /\ Outdated(w) => event[w] # events /\ rebuild[events] # "COMPLETED"
  BY <1>1, <1>2 DEF Views
<1>5. Outdated(w) => rebuild'[events'] # "COMPLETED"
  BY <1>1, <1>2, <1>4 DEF CompleteRebuild, TypeOK
<1>6. CASE Deactivate(w)
  <2>1. \A i \in Items : ~active'[i]
    BY <1>4, <1>6 DEF Deactivate
  <2>2. person = "ACTIVE" => Outdated(w)
    BY <1>6 DEF Deactivate, Outdated
  <2>3. LatestRebuildDecides'
    BY <1>1, <1>2, <1>5, <2>1, <2>2 DEF LatestRebuildDecides, Matches, TypeOK
  <2> QED
    BY <1>3, <2>1, <2>3 DEF Consistent, OneActiveItem
<1>7. ASSUME NEW i \in Items, active'[i], itemText'[i] = text[w],
             \A j \in Items : active'[j] => j = i, at[w] = "write"
      PROVE  Consistent'
  <2>1. person = "DELETED" => Outdated(w)
    BY <1>7 DEF Outdated
  <2>2. LatestRebuildDecides'
    BY <1>1, <1>2, <1>4, <1>5, <1>7, <2>1 DEF LatestRebuildDecides, Matches, TypeOK
  <2> QED
    BY <1>3, <1>7, <2>2 DEF Consistent, OneActiveItem
<1>8. CASE InsertItem(w)
  <2>1. PICK i \in Items : /\ itemText' = [itemText EXCEPT ![i] = text[w]]
                           /\ active' = [active EXCEPT ![i] = TRUE]
    BY <1>8 DEF InsertItem
  <2>2. \A j \in Items : ~active[j]
    BY <1>4, <1>8 DEF InsertItem
  <2>3. active'[i] /\ itemText'[i] = text[w]
    BY <1>1, <2>1 DEF TypeOK
  <2>4. \A j \in Items : active'[j] => j = i
    BY <1>1, <2>1, <2>2 DEF TypeOK
  <2> QED
    BY <1>7, <1>8, <2>3, <2>4 DEF InsertItem
<1>9. CASE UpdateItem(w)
  <2>1. PICK i \in Items :
          /\ Oldest(seen[w], i)
          /\ itemText' = [itemText EXCEPT ![i] = text[w]]
          /\ active' = [j \in Items |-> active[j] /\ (j = i \/ j \notin seen[w])]
    BY <1>9 DEF UpdateItem
  <2>2. active'[i] /\ itemText'[i] = text[w]
    BY <1>1, <1>4, <2>1 DEF Oldest, TypeOK
  <2>3. \A j \in Items : active'[j] => j = i
    BY <1>4, <2>1
  <2> QED
    BY <1>7, <1>9, <2>2, <2>3 DEF UpdateItem
<1> QED
  BY <1>6, <1>8, <1>9

(* Every step keeps locks, views and rows consistent. *)
LEMMA ConsistentStep ==
  ASSUME Inv, [Next]_vars
  PROVE  Consistent'
<1> USE DEF personVars, itemVars, embedVars, workerVars
<1>1. /\ TypeOK /\ WorkerTypes /\ Shapes /\ JobsInHand /\ Locked /\ Views
      /\ OneActiveItem /\ LatestRebuildDecides
  BY DEF Inv, TypeOK, WorkerTypes
<1>2. ASSUME UNCHANGED <<person, profileText, events, rebuild, profileLock, itemText, active,
                         workerVars>>
      PROVE  Consistent'
  BY <1>1, <1>2
  DEF Consistent, Locked, Views, Outdated, OneActiveItem, LatestRebuildDecides, Matches
<1>3. CASE Mutation
  <2>1. ASSUME Mutated
        PROVE  events' = events + 1 /\ events' \in Events /\ rebuild'[events'] = "PENDING"
    BY <1>1, <2>1, IndexAssumption DEF Mutated, TypeOK, Events, IndexAssumption
  <2>2. CASE CommitEdit
    <3>1. \A w \in Workers : at[w] \notin Holding
      BY <1>1, <2>2, IndexAssumption DEF CommitEdit, Locked, IndexAssumption
    <3> QED
      BY <1>1, <2>1, <2>2, <3>1
      DEF CommitEdit, Consistent, Locked, Views, OneActiveItem, LatestRebuildDecides
  <2>3. CASE ChangeStatus
    <3>1. Locked' /\ OneActiveItem' /\ LatestRebuildDecides'
      BY <1>1, <2>1, <2>3 DEF ChangeStatus, Locked, OneActiveItem, LatestRebuildDecides
    <3>2. \A w \in Workers : at[w] \in Holding => event[w] # events'
      BY <1>1, <2>1, <2>3 DEF ChangeStatus, Shapes, Rebuilding, Holding, Events, TypeOK
    <3>3. Views'
      BY <1>1, <2>1, <2>3, <3>2 DEF ChangeStatus, Views
    <3> QED
      BY <3>1, <3>3 DEF Consistent
  <2> QED
    BY <1>2, <1>3, <2>2, <2>3 DEF Mutation, BeginEdit, EndEdit
<1>4. CASE Scanner
  BY <1>2, <1>4 DEF Scanner, EnsureScanned, ScanItem
<1>5. ASSUME NEW w \in Workers, RebuildStep(w) PROVE Consistent'
  <2>1. ASSUME NEW k \in Events, TakeRebuild(w, k) PROVE Consistent'
    <3>1. rebuild'[events] = "COMPLETED" => rebuild[events] = "COMPLETED"
      BY <1>1, <2>1 DEF TakeRebuild, TypeOK
    <3>2. Locked'
      BY <1>1, <2>1 DEF TakeRebuild, Locked, WorkerTypes, Holding
    <3>3. Views'
      BY <1>1, <2>1, <3>1 DEF TakeRebuild, Views, WorkerTypes, Holding, Outdated
    <3> QED
      BY <1>1, <2>1, <3>1, <3>2, <3>3
      DEF TakeRebuild, Consistent, OneActiveItem, LatestRebuildDecides, Matches
  <2>2. CASE LoadRebuild(w)
    <3>1. \A v \in Workers : at[v] \notin Holding
      BY <1>1, <2>2, IndexAssumption DEF LoadRebuild, Locked, IndexAssumption
    <3>2. Locked'
      BY <1>1, <2>2, <3>1 DEF LoadRebuild, Load, Locked, WorkerTypes, Holding
    <3>3. \A v \in Workers : at'[v] \in Holding =>
            v = w /\ seen'[v] = {i \in Items : active[i]} /\ text'[v] = profileText
      BY <1>1, <2>2, <3>1 DEF LoadRebuild, Load, WorkerTypes, Holding
    <3>4. ~Outdated(w)'
      BY <1>1, <2>2 DEF LoadRebuild, Load, Outdated, WorkerTypes, TypeOK
    <3>5. Views'
      BY <2>2, <3>3, <3>4 DEF LoadRebuild, Views
    <3> QED
      BY <1>1, <2>2, <3>2, <3>5
      DEF LoadRebuild, Consistent, OneActiveItem, LatestRebuildDecides, Matches
  <2>3. CASE Deactivate(w) \/ InsertItem(w) \/ UpdateItem(w)
    BY <2>3, RebuildWrites
  <2>4. ASSUME FailRebuild(w), at[w] \in Rebuilding,
               UNCHANGED <<person, profileText, events, itemText, active>>
        PROVE  Consistent'
    <3>1. rebuild'[events] = "COMPLETED" => rebuild[events] = "COMPLETED"
      BY <1>1, <2>4 DEF FailRebuild, TypeOK
    <3>2. CASE at[w] \in Holding
      BY <1>1, <2>4, <3>1, <3>2, LockReturned
      DEF FailRebuild, Consistent, Locked, OneActiveItem, LatestRebuildDecides, Matches
    <3>3. CASE at[w] \notin Holding
      BY <1>1, <2>4, <3>1, <3>3, QuietEnd DEF FailRebuild, Locked
    <3> QED
      BY <3>2, <3>3
  <2>5. CASE AbortRebuild(w) \/ RebuildRaises(w)
    BY <2>4, <2>5 DEF AbortRebuild, Deadlock, RebuildRaises, Rebuilding
  <2>6. CASE AbortEdit(w)
    BY <1>2, <2>6 DEF AbortEdit
  <2> QED
    BY <1>5, <2>1, <2>2, <2>3, <2>5, <2>6 DEF RebuildStep
<1>6. ASSUME NEW w \in Workers, EmbedStep(w) PROVE Consistent'
  <2>1. ASSUME NEW i \in Items, NEW t \in Texts, TakeEmbed(w, i, t) PROVE Consistent'
    <3>1. Locked'
      BY <1>1, <2>1 DEF TakeEmbed, Locked, WorkerTypes, Holding
    <3>2. Views'
      BY <1>1, <2>1 DEF TakeEmbed, Views, WorkerTypes, Holding, Outdated
    <3> QED
      BY <1>1, <2>1, <3>1, <3>2
      DEF TakeEmbed, Consistent, OneActiveItem, LatestRebuildDecides, Matches
  <2>2. CASE SkipEmbed(w) \/ ApplyEmbed(w) \/ EmbedRaises(w)
    BY <2>2, QuietEnd DEF SkipEmbed, ApplyEmbed, EmbedRaises, Holding
  <2> QED
    BY <1>6, <2>1, <2>2 DEF EmbedStep
<1>7. ASSUME NEW w \in Workers, WorkerCrash(w) PROVE Consistent'
  <2>1. rebuild'[events] = "COMPLETED" => rebuild[events] = "COMPLETED"
    BY <1>1, <1>7 DEF WorkerCrash, TypeOK
  <2>2. CASE at[w] \in Holding
    BY <1>1, <1>7, <2>1, <2>2, LockReturned
    DEF WorkerCrash, Consistent, Locked, OneActiveItem, LatestRebuildDecides, Matches
  <2>3. CASE at[w] \notin Holding
    BY <1>1, <1>7, <2>1, <2>3, QuietEnd DEF WorkerCrash, Locked
  <2> QED
    BY <2>2, <2>3
<1>8. CASE UNCHANGED vars
  BY <1>2, <1>8 DEF vars
<1> QED
  BY <1>3, <1>4, <1>5, <1>6, <1>7, <1>8 DEF Next

-----------------------------------------------------------------------------
(* Theorems *)

(* The inductive invariant holds in every reachable state. *)
LEMMA Invariance == SafetySpec => []Inv
<1>1. Inv /\ [Next]_vars => Inv'
  BY TypeStep, JobStep, StoredStep, ConsistentStep DEF Inv, Consistent
<1> QED
  BY InitInv, <1>1, PTL DEF SafetySpec

(* Every variable keeps its type. *)
THEOREM TypeCorrect == SafetySpec => []TypeOK
<1>1. Inv => TypeOK
  BY DEF Inv
<1> QED
  BY Invariance, <1>1, PTL

(* Rebuilds that run at once never leave two active rows for a profile. *)
THEOREM OneRowPerProfile == SafetySpec => []OneActiveItem
<1>1. Inv => OneActiveItem
  BY DEF Inv
<1> QED
  BY Invariance, <1>1, PTL

(* Once the rebuild of the latest change is completed the index shows the      *)
(* profile, and nothing of a deleted person, however late earlier ones finish. *)
THEOREM LatestChangeIsIndexed == SafetySpec => []LatestRebuildDecides
<1>1. Inv => LatestRebuildDecides
  BY DEF Inv
<1> QED
  BY Invariance, <1>1, PTL

=============================================================================
