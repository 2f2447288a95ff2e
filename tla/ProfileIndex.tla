---------------------------- MODULE ProfileIndex ----------------------------
(***************************************************************************)
(* From a confirmed profile to what search sees of it: the PROFILE rows of *)
(* search_index_item of one person, the REBUILD_PERSON jobs that write     *)
(* them after every change of the profile or of the person's status, and   *)
(* the embedding jobs that add a vector to each.  PROJECT rows go the same *)
(* way under keys of their own.  Embedding is enabled, with one model and  *)
(* one version.                                                            *)
(*                                                                         *)
(* How job rows travel through the dispatcher and Redis is the subject of  *)
(* SearchIndexQueue; a job here is taken, and then completed, failed or    *)
(* put back.  A rebuild is split where it reads rows and where it writes   *)
(* and commits them, because the write is made from the rows the session   *)
(* loaded; an embedding is split around the call of the provider.          *)
(***************************************************************************)
EXTENDS Naturals

CONSTANTS
  Texts,      \* search texts the profile can have (the content hash names one)
  NoText,     \* no row, or NULL
  Workers,    \* Celery index workers
  NoWorker,   \* an unlocked profile
  MaxEvents,  \* bound: mutations of the person, its creation included
  MaxItems,   \* bound: PROFILE rows; row i is the i-th by created_at
  MaxRetries, \* embedding_max_retries
  MaxFaults   \* bound: crashes and unexpected exceptions of workers

Events  == 1..MaxEvents
Items   == 1..MaxItems
NoEvent == 0
NoItem  == 0

ASSUME IndexAssumption ==
  /\ Texts # {} /\ NoText \notin Texts
  /\ NoWorker \notin Workers
  /\ MaxEvents \in Nat \ {0} /\ MaxItems \in Nat \ {0}
  /\ MaxRetries \in Nat /\ MaxFaults \in Nat

JobStatuses == {"ABSENT", "PENDING", "PROCESSING", "COMPLETED", "FAILED"}

VARIABLES
  person,       \* "ACTIVE" or "DELETED"
  profileText,  \* the text of the live confirmed profile
  editing,      \* a mutation that holds Person and waits for PersonProfile
  events,       \* committed mutations; each enqueued one rebuild job
  rebuild,      \* status of the rebuild job of each mutation
  profileLock,  \* the worker that holds the PersonProfile row
  itemText, active, vector,  \* search_index_item: text, is_active, text embedded
  embedJob,     \* status of the embedding job of each row and content hash
  failures,     \* its retry_count
  at,           \* where a worker is
  event,        \* the rebuild job of a worker
  seen,         \* the active rows the worker's session loaded
  seenNull,     \* the embedding of the oldest of them was NULL then
  item, text,   \* the row a worker embeds; the text it builds or embeds
  scan,         \* the row and text the scanner has read
  faults

personVars == <<person, profileText, editing, events>>
itemVars   == <<itemText, active, vector>>
embedVars  == <<embedJob, failures>>
workerVars == <<at, event, seen, seenNull, item, text>>
vars == <<personVars, rebuild, profileLock, itemVars, embedVars, workerVars, scan, faults>>

NothingScanned == [item |-> NoItem, text |-> NoText]

Init ==
  /\ person = "ACTIVE" /\ profileText \in Texts /\ editing = "none"
  /\ events = 1
  /\ rebuild     = [k \in Events |-> IF k = 1 THEN "PENDING" ELSE "ABSENT"]
  /\ profileLock = NoWorker
  /\ itemText    = [i \in Items |-> NoText]
  /\ active      = [i \in Items |-> FALSE]
  /\ vector      = [i \in Items |-> NoText]
  /\ embedJob    = [i \in Items |-> [t \in Texts |-> "ABSENT"]]
  /\ failures    = [i \in Items |-> [t \in Texts |-> 0]]
  /\ at          = [w \in Workers |-> "idle"]
  /\ event       = [w \in Workers |-> NoEvent]
  /\ seen        = [w \in Workers |-> {}]
  /\ seenNull    = [w \in Workers |-> TRUE]
  /\ item        = [w \in Workers |-> NoItem]
  /\ text        = [w \in Workers |-> NoText]
  /\ scan = NothingScanned
  /\ faults = 0

TypeOK ==
  /\ person \in {"ACTIVE", "DELETED"}
  /\ profileText \in Texts
  /\ editing \in {"none", "valid", "invalid"}
  /\ events \in Events
  /\ rebuild     \in [Events -> JobStatuses]
  /\ profileLock \in Workers \cup {NoWorker}
  /\ itemText    \in [Items -> Texts \cup {NoText}]
  /\ active      \in [Items -> BOOLEAN]
  /\ vector      \in [Items -> Texts \cup {NoText}]
  /\ embedJob    \in [Items -> [Texts -> JobStatuses]]
  /\ failures    \in [Items -> [Texts -> Nat]]
  /\ at          \in [Workers -> {"idle", "rebuild", "write", "deactivate", "skip", "call"}]
  /\ event       \in [Workers -> Events \cup {NoEvent}]
  /\ seen        \in [Workers -> SUBSET Items]
  /\ seenNull    \in [Workers -> BOOLEAN]
  /\ item        \in [Workers -> Items \cup {NoItem}]
  /\ text        \in [Workers -> Texts \cup {NoText}]
  /\ scan        \in [item : Items \cup {NoItem}, text : Texts \cup {NoText}]
  /\ faults      \in 0..MaxFaults

-----------------------------------------------------------------------------
(* Helpers *)

WorkerIdle(w) ==
  /\ at'       = [at EXCEPT ![w] = "idle"]
  /\ event'    = [event EXCEPT ![w] = NoEvent]
  /\ seen'     = [seen EXCEPT ![w] = {}]
  /\ seenNull' = [seenNull EXCEPT ![w] = TRUE]
  /\ item'     = [item EXCEPT ![w] = NoItem]
  /\ text'     = [text EXCEPT ![w] = NoText]

Fault == faults < MaxFaults /\ faults' = faults + 1

\* A committed mutation enqueues a rebuild of its own in the same transaction.
Mutated ==
  /\ events < MaxEvents
  /\ events'  = events + 1
  /\ rebuild' = [rebuild EXCEPT ![events + 1] = "PENDING"]

Oldest(S, i) == i \in S /\ \A j \in S : i <= j
Fresh(i)     == itemText[i] = NoText /\ \A j \in Items : j < i => itemText[j] # NoText

SetEmbedJob(i, t, st) == embedJob' = [embedJob EXCEPT ![i][t] = st]

\* ensure_embedding_job that takes a completed job for an embedded row.
EnsureUnfinished(i, t) ==
  \/ /\ \/ embedJob[i][t] = "ABSENT"
        \/ embedJob[i][t] = "FAILED" /\ failures[i][t] < MaxRetries
     /\ SetEmbedJob(i, t, "PENDING")
  \/ embedJob[i][t] # "ABSENT" /\ UNCHANGED embedJob

\* ensure_embedding_job for a row that has no vector in the session.  A job in
\* backoff or out of retries is left alone.
Ensure(i, t) ==
  \/ /\ \/ embedJob[i][t] \in {"ABSENT", "COMPLETED"}
        \/ embedJob[i][t] = "FAILED" /\ failures[i][t] < MaxRetries
     /\ SetEmbedJob(i, t, "PENDING")
  \/ embedJob[i][t] \in {"PENDING", "PROCESSING", "FAILED"} /\ UNCHANGED embedJob

\* Inserting a job takes a KEY SHARE lock on the Person row its person_id names.
InsertsJob(i, t)  == embedJob[i][t] = "ABSENT"
PersonKeyShare    == editing = "none"

-----------------------------------------------------------------------------
(* Mutations *)

\* _lock_profile: Person FOR UPDATE, then PersonProfile FOR UPDATE.  The request
\* will turn out valid, or not (an old expected version, an unknown code).
BeginEdit ==
  /\ editing = "none"
  /\ editing' \in {"valid", "invalid"}
  /\ UNCHANGED <<person, profileText, events, rebuild, profileLock, itemVars, embedVars,
                 workerVars, scan, faults>>

\* update_profile and every other mutation of the confirmed profile.
CommitEdit ==
  /\ editing = "valid" /\ profileLock = NoWorker
  /\ editing' = "none"
  /\ profileText' \in Texts
  /\ Mutated
  /\ UNCHANGED <<person, profileLock, itemVars, embedVars, workerVars, scan, faults>>

\* A rejected request, a valid one beyond the bound, or one the database gave up.
EndEdit ==
  /\ \/ editing = "invalid" /\ profileLock = NoWorker
     \/ editing = "valid" /\ profileLock = NoWorker /\ events = MaxEvents
  /\ editing' = "none"
  /\ UNCHANGED <<person, profileText, events, rebuild, profileLock, itemVars, embedVars,
                 workerVars, scan, faults>>

\* update_status under the key of the profile version, which has its job already.
ChangeStatusSameKey ==
  /\ editing = "none"
  /\ person' \in {"ACTIVE", "DELETED"}
  /\ UNCHANGED <<profileText, editing, events, rebuild, profileLock, itemVars, embedVars,
                 workerVars, scan, faults>>

\* update_status locks the Person row only, and its job has a key of its own.
ChangeStatus ==
  /\ editing = "none"
  /\ person' \in {"ACTIVE", "DELETED"}
  /\ Mutated
  /\ UNCHANGED <<profileText, editing, profileLock, itemVars, embedVars, workerVars, scan,
                 faults>>

-----------------------------------------------------------------------------
(* Rebuild *)

TakeRebuild(w, k) ==
  /\ at[w] = "idle" /\ rebuild[k] = "PENDING"
  /\ rebuild' = [rebuild EXCEPT ![k] = "PROCESSING"]
  /\ at'    = [at EXCEPT ![w] = "rebuild"]
  /\ event' = [event EXCEPT ![w] = k]
  /\ UNCHANGED <<personVars, profileLock, itemVars, embedVars, seen, seenNull, item, text,
                 scan, faults>>

\* What the session loads: the person's status, the snapshot, the active rows.
Load(w) ==
  /\ at'       = [at EXCEPT ![w] = IF person = "DELETED" THEN "deactivate" ELSE "write"]
  /\ text'     = [text EXCEPT ![w] = profileText]
  /\ seen'     = [seen EXCEPT ![w] = {i \in Items : active[i]}]
  /\ seenNull' = [seenNull EXCEPT ![w] =
                    \A i \in Items : Oldest({j \in Items : active[j]}, i) => vector[i] = NoText]
  /\ UNCHANGED <<event, item>>

\* A rebuild that reads without the lock of the profile row.
LoadRebuildUnlocked(w) ==
  /\ at[w] = "rebuild"
  /\ profileLock' = w
  /\ Load(w)
  /\ UNCHANGED <<personVars, rebuild, itemVars, embedVars, scan, faults>>

\* lock_person_profile_for_update comes first, every read after it.
LoadRebuild(w) ==
  /\ at[w] = "rebuild" /\ profileLock = NoWorker
  /\ profileLock' = w
  /\ Load(w)
  /\ UNCHANGED <<personVars, rebuild, itemVars, embedVars, scan, faults>>

\* mark_job_completed and COMMIT: the locks are gone.
CompleteRebuild(w) ==
  /\ rebuild' = [rebuild EXCEPT ![event[w]] = "COMPLETED"]
  /\ profileLock' = NoWorker
  /\ WorkerIdle(w)

\* A person found deleted: every active row goes.
Deactivate(w) ==
  /\ at[w] = "deactivate"
  /\ active' = [i \in Items |-> active[i] /\ i \notin seen[w]]
  /\ CompleteRebuild(w)
  /\ UNCHANGED <<personVars, itemText, vector, embedVars, scan, faults>>

\* upsert_search_document without a row: a new one, without vector.
InsertItem(w) ==
  /\ at[w] = "write" /\ seen[w] = {} /\ PersonKeyShare
  /\ \E i \in Items :
       /\ Fresh(i)
       /\ itemText' = [itemText EXCEPT ![i] = text[w]]
       /\ active'   = [active EXCEPT ![i] = TRUE]
       /\ Ensure(i, text[w])
  /\ CompleteRebuild(w)
  /\ UNCHANGED <<personVars, vector, failures, scan, faults>>

\* upsert_search_document that leaves a row with a vector as it is.
UpdateItemWithoutVector(w) ==
  /\ at[w] = "write"
  /\ \E i \in Items :
       /\ Oldest(seen[w], i)
       /\ itemText' = IF seenNull[w] THEN [itemText EXCEPT ![i] = text[w]] ELSE itemText
       /\ IF seenNull[w]
          THEN (InsertsJob(i, text[w]) => PersonKeyShare) /\ Ensure(i, text[w])
          ELSE UNCHANGED embedJob
  /\ CompleteRebuild(w)
  /\ UNCHANGED <<personVars, active, vector, failures, scan, faults>>

\* upsert_search_document of the oldest active row.  Only changed attributes are
\* written: the embedding is set to NULL when the text changed, unless it was
\* NULL already in the session.
UpdateItem(w) ==
  LET changed(i) == itemText[i] # text[w] IN
  /\ at[w] = "write"
  /\ \E i \in Items :
       /\ Oldest(seen[w], i)
       /\ itemText' = [itemText EXCEPT ![i] = text[w]]
       /\ active'   = [j \in Items |-> active[j] /\ (j = i \/ j \notin seen[w])]
       /\ vector'   = IF changed(i) /\ ~seenNull[w]
                      THEN [vector EXCEPT ![i] = NoText] ELSE vector
       /\ IF changed(i) \/ seenNull[w]
          THEN (InsertsJob(i, text[w]) => PersonKeyShare) /\ Ensure(i, text[w])
          ELSE UNCHANGED embedJob
  /\ CompleteRebuild(w)
  /\ UNCHANGED <<personVars, failures, scan, faults>>

\* The rebuild wants Person, which a mutation holds that wants PersonProfile.
Deadlock(w) ==
  /\ at[w] = "write" /\ editing # "none"
  /\ \/ seen[w] = {}
     \/ \E i \in Items : /\ Oldest(seen[w], i) /\ InsertsJob(i, text[w])
                         /\ itemText[i] # text[w] \/ seenNull[w]

\* Rollback and FAILED.
FailRebuild(w) ==
  /\ rebuild' = [rebuild EXCEPT ![event[w]] = "FAILED"]
  /\ profileLock' = IF profileLock = w THEN NoWorker ELSE profileLock
  /\ WorkerIdle(w)

\* PostgreSQL ends a deadlock by aborting one of the two transactions.
AbortRebuild(w) ==
  /\ Deadlock(w)
  /\ FailRebuild(w)
  /\ UNCHANGED <<personVars, itemVars, embedVars, scan, faults>>

AbortEdit(w) ==
  /\ Deadlock(w)
  /\ editing' = "none"
  /\ UNCHANGED <<person, profileText, events, rebuild, profileLock, itemVars, embedVars,
                 workerVars, scan, faults>>

\* Any other exception of a rebuild.
RebuildRaises(w) ==
  /\ at[w] \in {"rebuild", "write", "deactivate"} /\ Fault
  /\ FailRebuild(w)
  /\ UNCHANGED <<personVars, itemVars, embedVars, scan>>

-----------------------------------------------------------------------------
(* Embedding *)

\* The job is taken and its row read: an inactive row, another text or a vector
\* that is there already leave nothing to do.
TakeEmbed(w, i, t) ==
  /\ at[w] = "idle" /\ embedJob[i][t] = "PENDING"
  /\ SetEmbedJob(i, t, "PROCESSING")
  /\ at'   = [at EXCEPT ![w] = IF active[i] /\ itemText[i] = t /\ vector[i] = NoText
                               THEN "call" ELSE "skip"]
  /\ item' = [item EXCEPT ![w] = i]
  /\ text' = [text EXCEPT ![w] = t]
  /\ UNCHANGED <<personVars, rebuild, profileLock, itemVars, failures, event, seen, seenNull,
                 scan, faults>>

SkipEmbed(w) ==
  /\ at[w] = "skip"
  /\ SetEmbedJob(item[w], text[w], "COMPLETED")
  /\ WorkerIdle(w)
  /\ UNCHANGED <<personVars, rebuild, profileLock, itemVars, failures, scan, faults>>

\* The provider answered: the row is locked and read again, and the vector is
\* thrown away if the row is another by now.
ApplyEmbed(w) ==
  /\ at[w] = "call"
  /\ vector' = IF active[item[w]] /\ itemText[item[w]] = text[w]
               THEN [vector EXCEPT ![item[w]] = text[w]] ELSE vector
  /\ SetEmbedJob(item[w], text[w], "COMPLETED")
  /\ WorkerIdle(w)
  /\ UNCHANGED <<personVars, rebuild, profileLock, itemText, active, failures, scan, faults>>

\* The provider raised.
EmbedRaises(w) ==
  /\ at[w] = "call"
  /\ SetEmbedJob(item[w], text[w], "FAILED")
  /\ failures' = [failures EXCEPT ![item[w]][text[w]] = @ + 1]
  /\ WorkerIdle(w)
  /\ UNCHANGED <<personVars, rebuild, profileLock, itemVars, scan, faults>>

\* enqueue_missing_embeddings, every minute
ScanItem(i) ==
  /\ scan = NothingScanned
  /\ active[i] /\ vector[i] = NoText
  /\ scan' = [item |-> i, text |-> itemText[i]]
  /\ UNCHANGED <<personVars, rebuild, profileLock, itemVars, embedVars, workerVars, faults>>

EnsureScanned ==
  /\ scan # NothingScanned
  /\ InsertsJob(scan.item, scan.text) => PersonKeyShare
  /\ Ensure(scan.item, scan.text)
  /\ scan' = NothingScanned
  /\ UNCHANGED <<personVars, rebuild, profileLock, itemVars, failures, workerVars, faults>>

-----------------------------------------------------------------------------
(* Crashes *)

\* The transaction is rolled back; stale recovery later returns the job to
\* PENDING and counts a retry.
WorkerCrash(w) ==
  /\ at[w] # "idle" /\ Fault
  /\ \/ /\ at[w] \in {"rebuild", "write", "deactivate"}
        /\ rebuild' = [rebuild EXCEPT ![event[w]] = "PENDING"]
        /\ UNCHANGED embedVars
     \/ /\ at[w] \in {"skip", "call"}
        /\ SetEmbedJob(item[w], text[w], "PENDING")
        /\ failures' = [failures EXCEPT ![item[w]][text[w]] = @ + 1]
        /\ UNCHANGED rebuild
  /\ profileLock' = IF profileLock = w THEN NoWorker ELSE profileLock
  /\ WorkerIdle(w)
  /\ UNCHANGED <<personVars, itemVars, scan>>

-----------------------------------------------------------------------------
(* Specification *)

Mutation == BeginEdit \/ CommitEdit \/ EndEdit \/ ChangeStatus

RebuildStep(w) ==
  \/ \E k \in Events : TakeRebuild(w, k)
  \/ LoadRebuild(w) \/ Deactivate(w) \/ InsertItem(w) \/ UpdateItem(w)
  \/ AbortRebuild(w) \/ AbortEdit(w) \/ RebuildRaises(w)

EmbedStep(w) ==
  \/ \E i \in Items, t \in Texts : TakeEmbed(w, i, t)
  \/ SkipEmbed(w) \/ ApplyEmbed(w) \/ EmbedRaises(w)

Scanner == EnsureScanned \/ \E i \in Items : ScanItem(i)

Next ==
  \/ Mutation \/ Scanner
  \/ \E w \in Workers : RebuildStep(w) \/ EmbedStep(w) \/ WorkerCrash(w)

SafetySpec == Init /\ [][Next]_vars

\* The dispatcher publishes and workers take every job, row locks are granted, a
\* deadlock is resolved, the scanner runs every minute, the backoff of a failed
\* embedding passes, and the second statement of a mutation follows.  Strong
\* fairness says that mutations do not keep the Person row from a rebuild for
\* ever, and that the scanner does not come too early every time.
Fairness ==
  /\ WF_vars(CommitEdit \/ EndEdit)
  /\ WF_vars(EnsureScanned) /\ SF_vars(EnsureScanned /\ embedJob' # embedJob)
  /\ WF_vars(\E i \in Items : ScanItem(i))
  /\ \A k \in Events : WF_vars(\E w \in Workers : TakeRebuild(w, k))
  /\ \A i \in Items, t \in Texts : WF_vars(\E w \in Workers : TakeEmbed(w, i, t))
  /\ \A w \in Workers :
       /\ WF_vars(LoadRebuild(w)) /\ WF_vars(Deactivate(w))
       /\ SF_vars(InsertItem(w) \/ UpdateItem(w)) /\ WF_vars(AbortRebuild(w) \/ AbortEdit(w))
       /\ WF_vars(SkipEmbed(w) \/ ApplyEmbed(w) \/ EmbedRaises(w))

Spec == SafetySpec /\ Fairness

-----------------------------------------------------------------------------
(* Properties *)

\* What search sees of the person is what the profile says.
Matches ==
  IF person = "DELETED"
  THEN \A i \in Items : ~active[i]
  ELSE \E i \in Items : active[i] /\ itemText[i] = profileText

\* A profile has at most one active row, whatever rebuilds run at once: the
\* search for the row and its insertion are not one statement, and only the
\* lock of the profile keeps two rebuilds from both inserting.
OneActiveItem ==
  \A i, j \in Items : active[i] /\ active[j] => i = j

\* Once the rebuild of the latest change is completed the index is right, in
\* whatever order the rebuilds of earlier changes run, finish or are repeated:
\* an old text is never put back, a deleted person does not reappear.
LatestRebuildDecides ==
  rebuild[events] = "COMPLETED" => Matches

\* The vector of a row was computed from the text the row has: a changed text
\* clears it, and a vector that was under way meanwhile is discarded.
EmbeddingMatchesText ==
  \A i \in Items : active[i] /\ vector[i] # NoText => vector[i] = itemText[i]

\* After the last change the index ends up right, unless the rebuild of that
\* change has failed.
IndexCatchesUp ==
  <>[](Matches \/ rebuild[events] = "FAILED")

\* Every row that search sees gets a vector in the end, even when its job was
\* completed without one, unless the retries of the job of its text are used up.
ItemsGetEmbedded ==
  <>[](\A i \in Items : active[i] /\ vector[i] = NoText
         => embedJob[i][itemText[i]] = "FAILED" /\ failures[i][itemText[i]] >= MaxRetries)

=============================================================================
