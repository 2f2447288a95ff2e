------------------------- MODULE DocumentLifecycle -------------------------
(***************************************************************************)
(* The versions of one document group, from upload to search.              *)
(*                                                                         *)
(*   documents/service.py      adds a version, deletes and restores one    *)
(*   document_processing/      a Celery worker extracts the pages of a     *)
(*                             version and makes its preview object        *)
(*   search/document_chunk_sync.py   asks for, and executes, the job that  *)
(*                             makes the group's effective version - the   *)
(*                             highest READY one - the searchable one      *)
(*                                                                         *)
(* Every transaction is split where it waits for a row lock, so that two   *)
(* of them can wait for each other: PostgreSQL then cancels one of them.   *)
(* What a transaction has written is visible to the others only after its  *)
(* commit; until then its rows are locked.  How a job gets executed is the *)
(* contract of SearchIndexQueue (JobContract): an open job is carried out  *)
(* in one transaction, or fails.  Copying the uploaded file and the upload *)
(* session are UploadSessions.                                             *)
(***************************************************************************)
EXTENDS Naturals, FiniteSets, FiniteSetsExt

CONSTANTS
  MaxVersions, \* bound: versions of the group, two at least (Init has two)
  Inline,      \* versions whose original is its own preview (pdf, images)
  Texts,       \* texts an extraction can find, besides none at all
  MaxCalls,    \* bound: API calls that are running at a time
  Workers,     \* Celery workers
  Free,        \* the holder of a lock nobody holds
  MaxOps,      \* bound: calls, requested re-runs and changes of the person
  MaxFaults    \* bound: crashes, failures, lost messages

NoText == 0
NoDoc  == 0
Docs   == 1..MaxVersions
Users  == 1..MaxCalls      \* places for calls; a call takes the first that is free
Keys   == 1..(MaxOps + MaxFaults + 2)  \* preview keys of one version (uuid4)

ASSUME DocumentAssumption ==
  /\ MaxVersions \in Nat \ {0, 1} /\ MaxCalls \in Nat /\ MaxOps \in Nat /\ MaxFaults \in Nat
  /\ Inline \subseteq Docs
  /\ Texts \subseteq Nat \ {NoText} /\ 1 \in Texts
  /\ Users \cap Workers = {} /\ Free \notin Users \cup Workers

VARIABLES
  docs,      \* committed document rows, by version number
  docLock,   \* who holds the row lock of a version
  groupLock, \* who holds the row lock of the document group
  tx,        \* the open transaction of each call
  worker,    \* what each worker is doing
  queue,     \* process_document messages in Redis
  objects,   \* preview objects in storage
  jobs,      \* SYNC_DOCUMENT_CHUNKS rows of search_index_job
  chunks,    \* the text the chunk rows of each version were made from
  active,    \* versions with active DOCUMENT_CHUNK items
  alive,     \* the person is not deleted
  ops, faults,
  cut        \* versions that were deleted before they were processed

vars == <<docs, docLock, groupLock, tx, worker, queue, objects, jobs, chunks,
          active, alive, ops, faults, cut>>

Absent     == [status |-> "ABSENT", deleted |-> FALSE, latest |-> FALSE,
               text |-> NoText, preview |-> 0]
Uploaded   == [Absent EXCEPT !.status = "UPLOADED", !.latest = TRUE]
IdleTx     == [op |-> "none", at |-> "idle", doc |-> NoDoc, rest |-> {},
               cleared |-> {}, picked |-> NoDoc]
IdleWorker == [at |-> "idle", doc |-> NoDoc, previous |-> 0, new |-> 0,
               text |-> NoText]

Existing == {d \in Docs : docs[d].status # "ABSENT"}
Holds(a) == {d \in Docs : docLock[d] = a}

TypeOK ==
  /\ docs \in [Docs -> [status : {"ABSENT", "UPLOADED", "PROCESSING", "READY", "FAILED"},
                        deleted : BOOLEAN, latest : BOOLEAN,
                        text : Texts \cup {NoText}, preview : Keys \cup {0}]]
  /\ tx \in [Users -> [op : {"none", "delete", "restore", "version"},
                       at : {"idle", "clear", "promote", "sync"},
                       doc : Docs \cup {NoDoc}, rest : SUBSET Docs,
                       cleared : SUBSET Docs, picked : Docs \cup {NoDoc}]]
  /\ worker \in [Workers -> [at : {"idle", "relock", "extract", "ready", "fail"},
                             doc : Docs \cup {NoDoc}, previous : Keys \cup {0},
                             new : Keys \cup {0}, text : Texts \cup {NoText}]]
  /\ docLock \in [Docs -> Users \cup Workers \cup {Free}]
  /\ groupLock \in Users \cup {Free}
  /\ queue \in [Docs -> Nat]
  /\ objects \subseteq Docs \X Keys
  /\ jobs \subseteq [doc : Docs \cup {NoDoc}, text : Texts \cup {NoText}, alive : BOOLEAN,
                     current : BOOLEAN, status : {"OPEN", "COMPLETED", "FAILED"}]
  /\ chunks \in [Docs -> Texts \cup {NoText}]
  /\ active \subseteq Docs /\ cut \subseteq Docs
  /\ alive \in BOOLEAN /\ ops \in 0..MaxOps /\ faults \in 0..MaxFaults
  /\ \A a \in Users : Holds(a) # {} \/ groupLock = a => tx[a].at # "idle"
  /\ \A w \in Workers : Holds(w) = IF worker[w].at \in {"extract", "ready"}
                                   THEN {worker[w].doc} ELSE {}

\* the first version was just uploaded; or it is processed and searchable, and the
\* second was uploaded; or it is deleted, and there is none
Init ==
  \E n \in {1, 2}, gone \in BOOLEAN :
    LET first == [status |-> "READY", deleted |-> gone, latest |-> FALSE, text |-> 1,
                  preview |-> 1]
        other(d) == IF d = n /\ ~gone THEN Uploaded ELSE Absent
    IN  /\ gone => n = 2
        /\ docs = [d \in Docs |-> IF d < n THEN first ELSE other(d)]
        /\ queue = [d \in Docs |-> IF d = n /\ ~gone THEN 1 ELSE 0]
        /\ chunks = [d \in Docs |-> IF d < n THEN 1 ELSE NoText]
        /\ active = IF gone THEN {} ELSE 1..(n - 1)
        /\ objects = {<<d, 1>> : d \in 1..(n - 1)}
        /\ docLock = [d \in Docs |-> Free] /\ groupLock = Free
        /\ tx = [u \in Users |-> IdleTx] /\ worker = [w \in Workers |-> IdleWorker]
        /\ jobs = {} /\ cut = {} /\ alive = TRUE /\ ops = 0 /\ faults = 0

Op    == ops < MaxOps /\ ops' = ops + 1
Fault == faults < MaxFaults /\ faults' = faults + 1

(***************************************************************************)
(* Synchronisation jobs.  The idempotency key of a job is a hash of the    *)
(* effective version, its updated_at and its pages, and whether the person *)
(* is searchable.  "current" says that the version has still the           *)
(* updated_at of the key; a finished job that is not current can never be  *)
(* found again and is left out.                                            *)
(***************************************************************************)
Effective(rows) ==
  LET ready == {d \in Docs : rows[d].status = "READY" /\ ~rows[d].deleted}
  IN  IF ready = {} THEN NoDoc ELSE Max(ready)

SyncKey(rows, living) ==
  LET e == Effective(rows)
  IN  [doc |-> e, text |-> IF e = NoDoc THEN NoText ELSE rows[e].text,
       alive |-> living, current |-> TRUE]

Job(key, st) == [doc |-> key.doc, text |-> key.text, alive |-> key.alive,
                 current |-> key.current, status |-> st]

Find(js, key) == {j \in js : \E st \in {"OPEN", "COMPLETED", "FAILED"} : j = Job(key, st)}

\* an open job with the key of an earlier state: what it does is the same as for
\* any other, only no call finds it
Outdated == [doc |-> NoDoc, text |-> NoText, alive |-> FALSE, current |-> FALSE,
             status |-> "OPEN"]

\* the versions in D get a new updated_at
Touched(js, D) ==
  LET stale == {j \in js : j.current /\ j.doc \in D \ {NoDoc}}
  IN  (js \ stale) \cup (IF \E j \in stale : j.status = "OPEN" THEN {Outdated} ELSE {})

ItemsMatch(e, living) ==
  IF living /\ e # NoDoc /\ chunks[e] # NoText THEN active = {e} ELSE active = {}

Requeued(js, key) == (js \ Find(js, key)) \cup {Job(key, "OPEN")}

\* a COMPLETED job is believed without a look at the items
EnsureUnfinished(js, rows, living) ==
  LET key == SyncKey(rows, living)
  IN  IF {Job(key, "OPEN"), Job(key, "COMPLETED")} \cap js # {} THEN js
      ELSE Requeued(js, key)

EnsureSyncJob(js, rows, living) ==
  LET key == SyncKey(rows, living)
      kept == Job(key, "OPEN") \in js
              \/ (Job(key, "COMPLETED") \in js /\ ItemsMatch(key.doc, living))
  IN  IF kept THEN js ELSE Requeued(js, key)

(***************************************************************************)
(* Calls: delete, restore and a new version of the group.                  *)
(***************************************************************************)
FirstFree(u) == tx[u].at = "idle" /\ \A v \in 1..(u - 1) : tx[v].at # "idle"

Release(a) == /\ docLock' = [d \in Docs |-> IF docLock[d] = a THEN Free ELSE docLock[d]]
              /\ groupLock' = IF groupLock = a THEN Free ELSE groupLock

\* the call ends with an error; its transaction is rolled back
Rollback(u) ==
  /\ tx' = [tx EXCEPT ![u] = IdleTx]
  /\ Release(u)
  /\ UNCHANGED <<docs, worker, queue, objects, jobs, chunks, active, alive, cut>>

\* soft_delete and restore begin with get_document(..., for_update=True); a call
\* that finds the document deleted, or not deleted, changes nothing
LockDocument(u, op, d) ==
  /\ FirstFree(u) /\ Op
  /\ d \in Existing /\ docLock[d] = Free
  /\ docs[d].deleted = (op = "restore")
  /\ docLock' = [docLock EXCEPT ![d] = u]
  /\ tx' = [tx EXCEPT ![u] = [IdleTx EXCEPT !.op = op, !.at = "clear", !.doc = d,
                                            !.cleared = {d}, !.rest = Existing \ {d}]]
  /\ UNCHANGED <<docs, groupLock, worker, queue, objects, jobs, chunks, active,
                 alive, faults, cut>>

\* a new version begins with the locks of the person, who must not be deleted, and
\* of the group (get_person, get_group with for_update=True); then clear_latest
LockGroup(u) ==
  /\ FirstFree(u) /\ Op
  /\ Cardinality(Existing) < MaxVersions
  /\ alive /\ groupLock = Free
  /\ groupLock' = u
  /\ tx' = [tx EXCEPT ![u] = [IdleTx EXCEPT !.op = "version", !.at = "clear",
              !.rest = {d \in Existing : docs[d].latest /\ ~docs[d].deleted}]]
  /\ UNCHANGED <<docs, docLock, worker, queue, objects, jobs, chunks, active, alive,
                 faults, cut>>

\* the UPDATE that clears is_latest reaches a row; once the lock is free the
\* row is tested again
ClearRow(u, d) ==
  /\ tx[u].at = "clear" /\ d \in tx[u].rest /\ docLock[d] = Free
  /\ LET hit == tx[u].op # "version" \/ (docs[d].latest /\ ~docs[d].deleted)
     IN  /\ docLock' = IF hit THEN [docLock EXCEPT ![d] = u] ELSE docLock
         /\ tx' = [tx EXCEPT ![u].rest = @ \ {d},
                             ![u].cleared = IF hit THEN @ \cup {d} ELSE @]
  /\ UNCHANGED <<docs, groupLock, worker, queue, objects, jobs, chunks, active, alive,
                 ops, faults, cut>>

DeletedFor(u, d) == IF d = tx[u].doc THEN tx[u].op = "delete" ELSE docs[d].deleted
ActiveFor(u)     == {d \in Existing : ~DeletedFor(u, d)}
Cleared(u)       == tx[u].at = "clear" /\ tx[u].rest = {}

\* uq_document_group_latest: another committed row is the latest
Clash(u, d) == \E o \in ActiveFor(u) \ {d} : docs[o].latest /\ o \notin tx[u].cleared
\* ... or a transaction has written one, and its outcome is awaited
Undecided(u) == {v \in Users \ {u} : tx[v].at = "sync" /\ tx[v].picked # NoDoc}

\* a restored version becomes the latest, whatever its number
RestoredFirst(u) ==
  IF tx[u].op = "restore" THEN tx[u].doc
  ELSE IF ActiveFor(u) = {} THEN NoDoc ELSE Max(ActiveFor(u))

\* the version that becomes the latest: the highest that is not deleted
HighestActive(u) == IF ActiveFor(u) = {} THEN NoDoc ELSE Max(ActiveFor(u))

\* promote_latest_among_active selects that version and locks it
SelectLatest(u) ==
  /\ Cleared(u) /\ tx[u].op # "version"
  /\ LET p == HighestActive(u)
     IN  /\ p # NoDoc => docLock[p] \in {Free, u}
         /\ docLock' = [d \in Docs |-> IF d = p THEN u ELSE docLock[d]]
         /\ tx' = [tx EXCEPT ![u].picked = p,
                             ![u].at = IF p = NoDoc THEN "sync" ELSE "promote"]
  /\ UNCHANGED <<docs, groupLock, worker, queue, objects, jobs, chunks, active, alive,
                 ops, faults, cut>>

\* ... and writes is_latest
Promote(u) ==
  /\ tx[u].at = "promote" /\ Undecided(u) = {} /\ ~Clash(u, tx[u].picked)
  /\ tx' = [tx EXCEPT ![u].at = "sync"]
  /\ UNCHANGED <<docs, docLock, groupLock, worker, queue, objects, jobs, chunks, active,
                 alive, ops, faults, cut>>

Written(u) ==
  [d \in Docs |->
     [docs[d] EXCEPT !.deleted = DeletedFor(u, d),
                     !.latest = d = tx[u].picked \/ (@ /\ d \notin tx[u].cleared)]]

\* ensure_sync_job takes the lock of the group; then the call commits
Commit(u) ==
  /\ tx[u].at = "sync" /\ groupLock = Free
  /\ docs' = Written(u)
  /\ jobs' = EnsureSyncJob(Touched(jobs, {tx[u].doc, tx[u].picked}), Written(u), alive)
  /\ cut' = IF tx[u].op = "delete" /\ docs[tx[u].doc].status \in {"UPLOADED", "PROCESSING"}
            THEN cut \cup {tx[u].doc} ELSE cut
  /\ tx' = [tx EXCEPT ![u] = IdleTx]
  /\ Release(u)
  /\ UNCHANGED <<worker, queue, objects, chunks, active, alive, ops, faults>>

\* _promote_temp_file inserts the next version (they are numbered without gaps),
\* resolve commits and sends the message, which can be lost
AddVersion(u, sent) ==
  \E new \in Docs :
    /\ Existing = 1..(new - 1)
    /\ Cleared(u) /\ tx[u].op = "version"
    /\ Undecided(u) = {} /\ ~Clash(u, tx[u].picked)
    /\ docs' = [d \in Docs |-> IF d = new THEN Uploaded
                               ELSE [docs[d] EXCEPT !.latest = @ /\ d \notin tx[u].cleared]]
    /\ jobs' = Touched(jobs, tx[u].cleared)
    /\ queue' = [queue EXCEPT ![new] = sent]
    /\ IF sent = 0 THEN Fault ELSE faults' = faults
    /\ tx' = [tx EXCEPT ![u] = IdleTx]
    /\ Release(u)
    /\ UNCHANGED <<worker, objects, chunks, active, alive, ops, cut>>

\* the unique index refuses the row
IntegrityError(u) ==
  /\ tx[u].at = "promote" \/ (Cleared(u) /\ tx[u].op = "version")
  /\ Undecided(u) = {} /\ Clash(u, tx[u].picked)
  /\ Rollback(u) /\ UNCHANGED <<ops, faults>>

(***************************************************************************)
(* Waiting.  A worker waits for the group only while it holds the row of   *)
(* its document, and only calls hold the group: a cycle has at most one    *)
(* worker and two calls.                                                   *)
(***************************************************************************)
Blockers(a) ==
  IF a \in Workers THEN IF worker[a].at = "ready" THEN {groupLock} \ {Free} ELSE {}
  ELSE CASE tx[a].at = "sync" -> {groupLock} \ {Free}
         [] tx[a].at = "clear" /\ tx[a].rest # {} ->
              LET holders == {docLock[d] : d \in tx[a].rest}
              IN  IF Free \in holders THEN {} ELSE holders
         [] Cleared(a) /\ tx[a].op # "version" ->
              IF HighestActive(a) = NoDoc THEN {} ELSE {docLock[HighestActive(a)]} \ {Free, a}
         [] tx[a].at = "promote" \/ (Cleared(a) /\ tx[a].op = "version") -> Undecided(a)
         [] OTHER -> {}

Deadlocked(a) ==
  \E b \in Blockers(a) : \/ a \in Blockers(b)
                         \/ \E c \in Blockers(b) : a \in Blockers(c)

CancelCall(u) == Deadlocked(u) /\ Rollback(u) /\ UNCHANGED <<ops, faults>>

(***************************************************************************)
(* DocumentProcessingService.process_document.                             *)
(***************************************************************************)
OnlyWorker == UNCHANGED <<groupLock, tx, alive, ops, cut, chunks, active>>

\* try_claim_processing, committed at once
Claim(w, d) ==
  /\ worker[w].at = "idle" /\ queue[d] > 0 /\ docLock[d] = Free
  /\ queue' = [queue EXCEPT ![d] = @ - 1]
  /\ IF docs[d].deleted \/ docs[d].status = "PROCESSING"
     THEN UNCHANGED <<docs, worker, jobs>>
     ELSE /\ docs' = [docs EXCEPT ![d].status = "PROCESSING"]
          /\ jobs' = Touched(jobs, {d})
          /\ worker' = [worker EXCEPT ![w] = [IdleWorker EXCEPT !.at = "relock", !.doc = d]]
  /\ UNCHANGED <<docLock, objects, faults>> /\ OnlyWorker

\* get_document_for_update; a version that was deleted since the claim stays
\* PROCESSING
Relock(w) ==
  LET d == worker[w].doc
  IN  /\ worker[w].at = "relock" /\ docLock[d] = Free
      /\ IF docs[d].deleted
         THEN worker' = [worker EXCEPT ![w] = IdleWorker] /\ docLock' = docLock
         ELSE /\ docLock' = [docLock EXCEPT ![d] = w]
              /\ worker' = [worker EXCEPT ![w].at = "extract",
                                          ![w].previous = docs[d].preview]
      /\ UNCHANGED <<docs, queue, objects, jobs, faults>> /\ OnlyWorker

UsedKeys(d) == {k \in Keys : <<d, k>> \in objects} \cup {docs[d].preview}
                 \cup {worker[v].previous : v \in {v \in Workers : worker[v].doc = d}}
NewKey(d)   == CHOOSE k \in Keys : k \notin UsedKeys(d)

\* _build_extraction; a converted preview is stored under a key of its own (there
\* are more keys than conversions)
Extract(w, found, converted) ==
  LET d == worker[w].doc
      key == IF converted THEN NewKey(d) ELSE 0
  IN  /\ worker[w].at = "extract"
      /\ converted => d \notin Inline /\ Keys \ UsedKeys(d) # {}
      /\ objects' = IF converted THEN objects \cup {<<d, key>>} ELSE objects
      /\ worker' = [worker EXCEPT ![w].at = "ready", ![w].new = key, ![w].text = found]
      /\ UNCHANGED <<docs, docLock, queue, jobs, faults>> /\ OnlyWorker

FinalPreview(w) ==
  IF worker[w].new # 0 THEN worker[w].new
  ELSE IF worker[w].doc \in Inline THEN 0
  ELSE worker[w].previous

\* replace_pages, mark_ready, ensure_sync_job and the commit; then the preview that
\* was replaced, which nothing refers to any more, is deleted, at best
MarkReady(w) ==
  LET d == worker[w].doc
      rows == [docs EXCEPT ![d].status = "READY", ![d].text = worker[w].text,
                           ![d].preview = FinalPreview(w)]
      replaced == IF worker[w].new = 0 THEN {} ELSE {<<d, worker[w].previous>>}
  IN  /\ worker[w].at = "ready" /\ groupLock = Free
      /\ docs' = rows
      /\ jobs' = EnsureSyncJob(Touched(jobs, {d}), rows, alive)
      /\ docLock' = [docLock EXCEPT ![d] = Free]
      /\ objects' \in {objects \ replaced, objects}
      /\ worker' = [worker EXCEPT ![w] = IdleWorker]
      /\ UNCHANGED <<queue, faults>> /\ OnlyWorker

\* the exception handler without its rollback
RaisesWithoutRollback(w) ==
  /\ objects' = objects \ {<<worker[w].doc, worker[w].new>>}
  /\ worker' = [worker EXCEPT ![w].at = "fail"]
  /\ UNCHANGED <<docs, docLock, queue, jobs>> /\ OnlyWorker

\* ... or deleting the preview the row still names, as if its key were reused
RaisesDeletingPrevious(w) ==
  /\ objects' = objects \ {<<worker[w].doc, worker[w].previous>>}
  /\ docLock' = [docLock EXCEPT ![worker[w].doc] = Free]
  /\ worker' = [worker EXCEPT ![w].at = "fail"]
  /\ UNCHANGED <<docs, queue, jobs>> /\ OnlyWorker

\* an exception: the transaction is rolled back and the new preview deleted
ProcessingRaises(w) ==
  /\ objects' = objects \ {<<worker[w].doc, worker[w].new>>}
  /\ docLock' = [docLock EXCEPT ![worker[w].doc] = Free]
  /\ worker' = [worker EXCEPT ![w].at = "fail"]
  /\ UNCHANGED <<docs, queue, jobs>> /\ OnlyWorker

ExtractionFails(w) == worker[w].at = "extract" /\ ProcessingRaises(w) /\ faults' = faults

CancelProcessing(w) ==
  worker[w].at = "ready" /\ Deadlocked(w) /\ ProcessingRaises(w) /\ faults' = faults

DatabaseFails(w) == worker[w].at = "ready" /\ Fault /\ ProcessingRaises(w)

\* the exception is passed on without a mark
FailUnmarked(w) ==
  /\ worker[w].at = "fail" /\ docLock[worker[w].doc] = Free
  /\ worker' = [worker EXCEPT ![w] = IdleWorker]
  /\ UNCHANGED <<docs, docLock, queue, objects, jobs, faults>> /\ OnlyWorker

\* the document is locked once more and marked FAILED, unless it is deleted
MarkFailed(w) ==
  LET d == worker[w].doc
  IN  /\ worker[w].at = "fail" /\ docLock[d] = Free
      /\ IF docs[d].deleted
         THEN UNCHANGED <<docs, jobs>>
         ELSE docs' = [docs EXCEPT ![d].status = "FAILED"] /\ jobs' = Touched(jobs, {d})
      /\ worker' = [worker EXCEPT ![w] = IdleWorker]
      /\ UNCHANGED <<docLock, queue, objects, faults>> /\ OnlyWorker

Crash(w) ==
  /\ worker[w].at # "idle" /\ Fault
  /\ docLock' = [d \in Docs |-> IF docLock[d] = w THEN Free ELSE docLock[d]]
  /\ worker' = [worker EXCEPT ![w] = IdleWorker]
  /\ UNCHANGED <<docs, queue, objects, jobs>> /\ OnlyWorker

\* a re-run is asked for, or a message is delivered twice
Rerun(d) ==
  /\ d \in Existing /\ Op
  /\ queue' = [queue EXCEPT ![d] = @ + 1]
  /\ UNCHANGED <<docs, docLock, groupLock, tx, worker, objects, jobs, chunks, active,
                 alive, faults, cut>>

(***************************************************************************)
(* The searchable copy.                                                    *)
(***************************************************************************)
OnlySearch == UNCHANGED <<docs, docLock, groupLock, tx, worker, queue, objects, ops, cut>>

Closed(j, st) == (jobs \ {j}) \cup IF j.current THEN {[j EXCEPT !.status = st]} ELSE {}

\* sync_document_group, under the locks of the person and the group
Sync(j) ==
  LET e == Effective(docs)
  IN  /\ j \in jobs /\ j.status = "OPEN" /\ groupLock = Free
      /\ IF ~alive \/ e = NoDoc
         THEN active' = {} /\ chunks' = chunks
         ELSE /\ active' = IF docs[e].text = NoText THEN {} ELSE {e}
              /\ chunks' = [chunks EXCEPT ![e] = docs[e].text]
      /\ jobs' = Closed(j, "COMPLETED")
      /\ UNCHANGED <<alive, faults>> /\ OnlySearch

SyncFails(j) ==
  /\ j \in jobs /\ j.status = "OPEN" /\ Fault
  /\ jobs' = Closed(j, "FAILED")
  /\ UNCHANGED <<active, chunks, alive>> /\ OnlySearch

\* list_groups_needing_chunk_sync: a group without effective version and without
\* items is left alone
NeedsSync ==
  /\ alive
  /\ Effective(docs) # NoDoc \/ \E d \in Docs : chunks[d] # NoText
  /\ EnsureSyncJob(jobs, docs, alive) # jobs

\* enqueue_missing_document_chunk_syncs, called by Beat once a minute
Scan ==
  /\ NeedsSync /\ groupLock = Free
  /\ jobs' = EnsureSyncJob(jobs, docs, alive)
  /\ UNCHANGED <<active, chunks, alive, faults>> /\ OnlySearch

\* PeopleService.update_status: the person is deleted or active again
UpdateStatus ==
  /\ groupLock = Free /\ Op
  /\ alive' = ~alive
  /\ jobs' = EnsureSyncJob(jobs, docs, alive')
  /\ UNCHANGED <<docs, docLock, groupLock, tx, worker, queue, objects, chunks, active,
                 faults, cut>>

\* AnalysisService._persist_vlm_transcriptions: a page without text gets one
PersistTranscription(d, found) ==
  LET rows == [docs EXCEPT ![d].text = found]
  IN  /\ docs[d].status = "READY" /\ docs[d].text = NoText
      /\ groupLock = Free /\ Op
      /\ docs' = rows
      /\ jobs' = EnsureSyncJob(jobs, rows, alive)
      /\ UNCHANGED <<docLock, groupLock, tx, worker, queue, objects, chunks, active,
                     alive, faults, cut>>

Call(u) ==
  \/ \E d \in Docs : ClearRow(u, d)
  \/ SelectLatest(u) \/ Promote(u) \/ Commit(u) \/ AddVersion(u, 1) \/ IntegrityError(u) \/ CancelCall(u)

Process(w) ==
  \/ \E d \in Docs : Claim(w, d)
  \/ Relock(w)
  \/ \E found \in Texts \cup {NoText}, converted \in BOOLEAN : Extract(w, found, converted)
  \/ ExtractionFails(w) \/ MarkReady(w) \/ CancelProcessing(w) \/ MarkFailed(w)

Request ==
  \/ \E u \in Users, op \in {"delete", "restore"}, d \in Docs : LockDocument(u, op, d)
  \/ \E u \in Users : LockGroup(u)
  \/ \E d \in Docs : Rerun(d)
  \/ UpdateStatus
  \/ \E d \in Docs, found \in Texts : PersistTranscription(d, found)

Disturb ==
  \/ \E u \in Users : AddVersion(u, 0)
  \/ \E w \in Workers : DatabaseFails(w) \/ Crash(w)
  \/ \E j \in jobs : SyncFails(j)

\* what goes on by itself: transactions, received messages, executed jobs, Beat
Work ==
  \/ \E u \in Users : Call(u)
  \/ \E w \in Workers : Process(w)
  \/ \E j \in jobs : Sync(j)
  \/ Scan

AtRest ==
  /\ \A u \in Users : tx[u].at = "idle"
  /\ \A w \in Workers : worker[w].at = "idle"
  /\ \A d \in Docs : queue[d] = 0
  /\ \A j \in jobs : j.status # "OPEN"
  /\ ~NeedsSync

\* what is not at rest goes on: TLC reports a deadlock otherwise
Next == Work \/ Request \/ Disturb \/ (AtRest /\ UNCHANGED vars)

Spec == Init /\ [][Next]_vars

(***************************************************************************)
(* Properties.                                                             *)
(***************************************************************************)
\* Whatever deletions, restorations and uploads interleave, the version shown as
\* the latest is the highest one that is not deleted, and there is one as long as
\* a version is left.
LatestIsHighest ==
  LET shown == {d \in Existing : ~docs[d].deleted}
  IN  \A d \in Existing : docs[d].latest <=> shown # {} /\ d = Max(shown)

\* The preview a row names is in storage: a failed, cancelled or crashed
\* extraction never takes away the preview of an earlier one.
PreviewsExist ==
  \A d \in Docs : docs[d].preview # 0 => <<d, docs[d].preview>> \in objects

\* The effective version, and nothing else, is searchable with its present text.
Indexed ==
  LET e == IF alive THEN Effective(docs) ELSE NoDoc
  IN  IF e = NoDoc THEN active = {}
      ELSE chunks[e] = docs[e].text /\ active = IF docs[e].text = NoText THEN {} ELSE {e}

\* A job can be executed while another version is effective or the person is
\* deleted: its key is then COMPLETED although its version never got chunks, and
\* a version without chunks matches a group without items.  It is never indexed.
NeverChunked ==
  LET e == Effective(docs)
  IN  /\ e # NoDoc /\ chunks[e] = NoText /\ active = {}
      /\ Job(SyncKey(docs, alive), "COMPLETED") \in jobs

\* When everything that was asked for is done, search shows the effective version:
\* every change asks for a job, or the scanner finds it, and a version that is
\* deleted or fails disappears.  Two exceptions: NeverChunked, and a failed job of a
\* deleted person, whose groups the scanner does not look at.
SearchCatchesUp == AtRest => Indexed \/ NeverChunked \/ (~alive /\ faults > 0)

\* When everything that was asked for is done, and nothing crashed or got lost, every
\* version is READY or FAILED, also when PostgreSQL cancelled the transaction of its
\* worker.  A version that was deleted before that may stay as it is, even when it is
\* restored.
DocumentsSettle ==
  AtRest /\ faults = 0 =>
    \A d \in Existing : docs[d].status \in {"READY", "FAILED"} \/ d \in cut
=============================================================================
