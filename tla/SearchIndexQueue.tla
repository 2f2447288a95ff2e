-------------------------- MODULE SearchIndexQueue --------------------------
(***************************************************************************)
(* The life of the rows of search_index_job: the Beat dispatcher reserves  *)
(* PENDING rows and publishes one Celery message for each, a worker takes  *)
(* a message, locks the row, does the work and finishes the row in the     *)
(* same transaction, a second Beat task returns stuck rows to PENDING, and *)
(* ensure_* callers open finished rows again.                              *)
(*                                                                         *)
(* One action is one database transaction, or the part of one between two  *)
(* points where another transaction can be seen or can make it wait.  A    *)
(* row lock is held from the SELECT ... FOR UPDATE or the UPDATE that      *)
(* takes it to the COMMIT or ROLLBACK.  Redis only carries messages: they  *)
(* can be lost, repeated and overtaken.                                    *)
(***************************************************************************)
EXTENDS Naturals, FiniteSets

CONSTANTS
  MaxJobs,        \* rows that can be created; row j is the j-th by created_at
  EmbedJobs,      \* UPSERT rows of operation EMBED_SEARCH_INDEX_ITEM
  SyncJobs,       \* UPSERT rows of operation SYNC_DOCUMENT_CHUNKS
  Workers,        \* Celery index worker processes
  Dispatchers,    \* overlapping ticks of the Beat dispatcher task
  Ensurers,       \* transactions that call ensure_embedding_job / ensure_sync_job
  Free,           \* no transaction
  ReserveLimit,   \* rows one dispatcher tick may reserve
  MaxRetries,     \* embedding_max_retries
  MaxFaults,      \* bound: crashes, lost or repeated messages, early timeouts
  MaxRequeues     \* bound: times finished rows are opened again

Jobs  == 1..MaxJobs
NoJob == 0

\* Rows that are opened again; the others are REBUILD_PERSON rows, whose key
\* names one profile version.
Requeueable == EmbedJobs \cup SyncJobs

ASSUME QueueAssumption ==
  /\ MaxJobs \in Nat /\ MaxFaults \in Nat /\ MaxRequeues \in Nat
  /\ ReserveLimit \in Nat \ {0} /\ MaxRetries \in Nat
  /\ Requeueable \subseteq Jobs /\ EmbedJobs \cap SyncJobs = {}
  /\ Workers \cap Ensurers = {}
  /\ Free \notin Workers \cup Ensurers

Terminal == {"COMPLETED", "FAILED", "CANCELLED"}
Statuses == {"ABSENT", "PENDING", "PROCESSING"} \cup Terminal

VARIABLES
  status,      \* search_index_job.status ("ABSENT": not inserted yet)
  retryCount,  \* search_index_job.retry_count
  stale,       \* started_at is set and older than the row's stuck timeout
  rowLock,     \* the transaction that holds the row's lock
  broker,      \* messages in Redis, per row
  todo,        \* rows a dispatcher has reserved and not yet published
  releasing,   \* the row whose publish failed and that it must release
  pc,          \* where a worker is in process_job
  wjob,        \* the row a worker is processing
  seenRetry,   \* retry_count as the worker's ORM session loaded it
  epc, ejob,   \* where an ensurer is, and the row it reopens
  effects,     \* committed work transactions, per row
  faults, requeues

dbVars     == <<status, retryCount, stale>>
workerVars == <<pc, wjob, seenRetry>>
dispVars   == <<todo, releasing>>
ensureVars == <<epc, ejob, requeues>>
vars == <<status, retryCount, stale, rowLock, broker, todo, releasing,
          pc, wjob, seenRetry, epc, ejob, effects, faults, requeues>>

Init ==
  /\ status     = [j \in Jobs |-> "ABSENT"]
  /\ retryCount = [j \in Jobs |-> 0]
  /\ stale      = [j \in Jobs |-> FALSE]
  /\ rowLock    = [j \in Jobs |-> Free]
  /\ broker     = [j \in Jobs |-> 0]
  /\ todo       = [d \in Dispatchers |-> {}]
  /\ releasing  = [d \in Dispatchers |-> NoJob]
  /\ pc         = [w \in Workers |-> "idle"]
  /\ wjob       = [w \in Workers |-> NoJob]
  /\ seenRetry  = [w \in Workers |-> 0]
  /\ epc        = [e \in Ensurers |-> "idle"]
  /\ ejob       = [e \in Ensurers |-> NoJob]
  /\ effects    = [j \in Jobs |-> 0]
  /\ faults     = 0
  /\ requeues   = 0

-----------------------------------------------------------------------------
(* Helpers *)

TypeOK ==
  /\ status     \in [Jobs -> Statuses]
  /\ retryCount \in [Jobs -> Nat]
  /\ stale      \in [Jobs -> BOOLEAN]
  /\ rowLock    \in [Jobs -> Workers \cup Ensurers \cup {Free}]
  /\ broker     \in [Jobs -> Nat]
  /\ todo       \in [Dispatchers -> SUBSET Jobs]
  /\ releasing  \in [Dispatchers -> Jobs \cup {NoJob}]
  /\ pc         \in [Workers -> {"idle", "claim", "reread", "lock", "work", "mark"}]
  /\ wjob       \in [Workers -> Jobs \cup {NoJob}]
  /\ seenRetry  \in [Workers -> Nat]
  /\ epc        \in [Ensurers -> {"idle", "found", "written"}]
  /\ ejob       \in [Ensurers -> Jobs \cup {NoJob}]
  /\ effects    \in [Jobs -> Nat]
  /\ faults     \in 0..MaxFaults
  /\ requeues   \in 0..MaxRequeues

Unlocked(j) == rowLock[j] = Free

\* A fault the environment may inject, within the bound.
Fault == faults < MaxFaults /\ faults' = faults + 1

\* Some message, dispatcher or worker still carries row j.
Carried(j) ==
  \/ broker[j] > 0
  \/ \E d \in Dispatchers : j \in todo[d] \/ releasing[d] = j
  \/ \E w \in Workers : wjob[w] = j

WorkerIdle(w) ==
  /\ pc'        = [pc EXCEPT ![w] = "idle"]
  /\ wjob'      = [wjob EXCEPT ![w] = NoJob]
  /\ seenRetry' = [seenRetry EXCEPT ![w] = 0]

ToPending(j) ==
  /\ status' = [status EXCEPT ![j] = "PENDING"]
  /\ stale'  = [stale EXCEPT ![j] = FALSE]

-----------------------------------------------------------------------------
(* Enqueueing *)

\* A profile change inserts one row per idempotency key; a second call with
\* the same key finds the row and changes nothing.
Enqueue(j) ==
  /\ status[j] = "ABSENT"
  /\ \A k \in Jobs : k < j => status[k] # "ABSENT"
  /\ status' = [status EXCEPT ![j] = "PENDING"]
  /\ UNCHANGED <<retryCount, stale, rowLock, broker, dispVars, workerVars,
                 ensureVars, effects, faults>>

-----------------------------------------------------------------------------
(* Dispatcher *)

PendingUnlocked == {j \in Jobs : status[j] = "PENDING" /\ Unlocked(j)}

\* The oldest PENDING rows nobody has locked, at most ReserveLimit of them,
\* become PROCESSING and are committed before anything is published.
Reserve(d) ==
  /\ todo[d] = {} /\ releasing[d] = NoJob
  /\ \E S \in SUBSET PendingUnlocked :
       /\ S # {} /\ Cardinality(S) <= ReserveLimit
       /\ S = PendingUnlocked \/ Cardinality(S) = ReserveLimit
       /\ \A j \in S, k \in PendingUnlocked \ S : j < k
       /\ status' = [j \in Jobs |-> IF j \in S THEN "PROCESSING" ELSE status[j]]
       /\ stale'  = [j \in Jobs |-> IF j \in S THEN FALSE ELSE stale[j]]
       /\ todo'   = [todo EXCEPT ![d] = S]
  /\ UNCHANGED <<retryCount, rowLock, broker, releasing, workerVars, ensureVars,
                 effects, faults>>

\* The next row of the dispatcher's loop, in reservation order.
NextToPublish(d, j) ==
  /\ releasing[d] = NoJob
  /\ j \in todo[d] /\ \A k \in todo[d] : j <= k

Publish(d, j) ==
  /\ NextToPublish(d, j)
  /\ todo'   = [todo EXCEPT ![d] = @ \ {j}]
  /\ broker' = [broker EXCEPT ![j] = @ + 1]
  /\ UNCHANGED <<dbVars, rowLock, releasing, workerVars, ensureVars, effects, faults>>

\* delay() raises: the message did not reach Redis, or it did and the
\* acknowledgement was lost.
PublishFails(d, j) ==
  /\ NextToPublish(d, j)
  /\ Fault
  /\ todo'      = [todo EXCEPT ![d] = @ \ {j}]
  /\ releasing' = [releasing EXCEPT ![d] = j]
  /\ \/ UNCHANGED broker
     \/ broker' = [broker EXCEPT ![j] = @ + 1]
  /\ UNCHANGED <<dbVars, rowLock, workerVars, ensureVars, effects>>

\* The conditional UPDATE waits for the row lock and touches only PROCESSING.
Release(d) ==
  /\ releasing[d] # NoJob
  /\ Unlocked(releasing[d])
  /\ IF status[releasing[d]] = "PROCESSING"
     THEN ToPending(releasing[d])
     ELSE UNCHANGED <<status, stale>>
  /\ releasing' = [releasing EXCEPT ![d] = NoJob]
  /\ UNCHANGED <<retryCount, rowLock, broker, todo, workerVars, ensureVars,
                 effects, faults>>

DispatcherCrash(d) ==
  /\ todo[d] # {} \/ releasing[d] # NoJob
  /\ Fault
  /\ todo'      = [todo EXCEPT ![d] = {}]
  /\ releasing' = [releasing EXCEPT ![d] = NoJob]
  /\ UNCHANGED <<dbVars, rowLock, broker, workerVars, ensureVars, effects>>

-----------------------------------------------------------------------------
(* Broker *)

LoseMessage(j) ==
  /\ broker[j] > 0
  /\ Fault
  /\ broker' = [broker EXCEPT ![j] = @ - 1]
  /\ UNCHANGED <<dbVars, rowLock, dispVars, workerVars, ensureVars, effects>>

RepeatMessage(j) ==
  /\ broker[j] > 0
  /\ Fault
  /\ broker' = [broker EXCEPT ![j] = @ + 1]
  /\ UNCHANGED <<dbVars, rowLock, dispVars, workerVars, ensureVars, effects>>

-----------------------------------------------------------------------------
(* Worker: process_job *)

\* Take a message (acknowledged early) and read the row.
Receive(w, j) ==
  /\ pc[w] = "idle" /\ broker[j] > 0
  /\ broker' = [broker EXCEPT ![j] = @ - 1]
  /\ IF status[j] \in Terminal
     THEN UNCHANGED workerVars
     ELSE /\ pc'   = [pc EXCEPT ![w] = IF status[j] = "PENDING" THEN "claim" ELSE "lock"]
          /\ wjob' = [wjob EXCEPT ![w] = j]
          /\ seenRetry' = [seenRetry EXCEPT ![w] = retryCount[j]]
  /\ UNCHANGED <<dbVars, rowLock, dispVars, ensureVars, effects, faults>>

\* claim_pending_job: a conditional UPDATE, committed on its own.
Claim(w) ==
  LET j == wjob[w] IN
  /\ pc[w] = "claim" /\ Unlocked(j)
  /\ IF status[j] = "PENDING"
     THEN /\ status' = [status EXCEPT ![j] = "PROCESSING"]
          /\ stale'  = [stale EXCEPT ![j] = FALSE]
          /\ pc'     = [pc EXCEPT ![w] = "lock"]
     ELSE /\ pc' = [pc EXCEPT ![w] = "reread"]
          /\ UNCHANGED <<status, stale>>
  /\ UNCHANGED <<retryCount, rowLock, broker, dispVars, wjob, seenRetry, ensureVars,
                 effects, faults>>

\* After a lost claim the session is rolled back and the row read again.
Reread(w) ==
  LET j == wjob[w] IN
  /\ pc[w] = "reread"
  /\ IF status[j] = "PROCESSING"
     THEN /\ pc' = [pc EXCEPT ![w] = "lock"]
          /\ seenRetry' = [seenRetry EXCEPT ![w] = retryCount[j]]
          /\ UNCHANGED wjob
     ELSE WorkerIdle(w)
  /\ UNCHANGED <<dbVars, rowLock, broker, dispVars, ensureVars, effects, faults>>

\* lock_processing_job without its SKIP LOCKED condition.
LockIgnoringHolder(w) ==
  LET j == wjob[w] IN
  /\ pc[w] = "lock"
  /\ IF status[j] = "PROCESSING"
     THEN /\ rowLock' = [rowLock EXCEPT ![j] = w]
          /\ pc' = [pc EXCEPT ![w] = "work"]
          /\ UNCHANGED <<wjob, seenRetry>>
     ELSE WorkerIdle(w) /\ UNCHANGED rowLock
  /\ UNCHANGED <<dbVars, broker, dispVars, ensureVars, effects, faults>>

\* lock_processing_job: FOR UPDATE SKIP LOCKED on a PROCESSING row.  A row that
\* is locked, or no longer PROCESSING, is left to whoever owns it.
Lock(w) ==
  LET j == wjob[w] IN
  /\ pc[w] = "lock"
  /\ IF status[j] = "PROCESSING" /\ Unlocked(j)
     THEN /\ rowLock' = [rowLock EXCEPT ![j] = w]
          /\ pc' = [pc EXCEPT ![w] = "work"]
          /\ UNCHANGED <<wjob, seenRetry>>
     ELSE WorkerIdle(w) /\ UNCHANGED rowLock
  /\ UNCHANGED <<dbVars, broker, dispVars, ensureVars, effects, faults>>

\* End of the work transaction: the row gets status st and its lock is freed.
FinishRow(w, st) ==
  /\ pc[w] = "work"
  /\ status'  = [status EXCEPT ![wjob[w]] = st]
  /\ rowLock' = [rowLock EXCEPT ![wjob[w]] = Free]
  /\ WorkerIdle(w)
  /\ UNCHANGED <<stale, broker, dispVars, ensureVars, faults>>

\* The work and COMPLETED are one commit.
Complete(w) ==
  /\ FinishRow(w, "COMPLETED")
  /\ effects' = [effects EXCEPT ![wjob[w]] = @ + 1]
  /\ UNCHANGED retryCount

\* An unsupported action or malformed payload: FAILED with the retry count
\* computed from the row as the session first loaded it.
Reject(w) ==
  /\ FinishRow(w, "FAILED")
  /\ retryCount' = [retryCount EXCEPT ![wjob[w]] = seenRetry[w] + 1]
  /\ UNCHANGED effects

\* An embedding row met while embedding is switched off.
CancelDisabled(w) ==
  /\ wjob[w] \in EmbedJobs
  /\ FinishRow(w, "CANCELLED")
  /\ UNCHANGED <<retryCount, effects>>

\* The work raises and its session is not rolled back before another session
\* records the failure.
RaiseWithoutRollback(w) ==
  /\ pc[w] = "work"
  /\ pc' = [pc EXCEPT ![w] = "mark"]
  /\ UNCHANGED <<dbVars, rowLock, broker, dispVars, wjob, seenRetry, ensureVars,
                 effects, faults>>

\* The work raises: its transaction is rolled back, which frees the row, and
\* the failure is recorded later by another session.
Raise(w) ==
  /\ pc[w] = "work"
  /\ rowLock' = [rowLock EXCEPT ![wjob[w]] = Free]
  /\ pc' = [pc EXCEPT ![w] = "mark"]
  /\ UNCHANGED <<dbVars, broker, dispVars, wjob, seenRetry, ensureVars, effects, faults>>

\* mark_job_failed_if_processing without its status condition.
MarkFailedAnyStatus(w) ==
  LET j == wjob[w] IN
  /\ pc[w] = "mark" /\ Unlocked(j)
  /\ status' = [status EXCEPT ![j] = "FAILED"]
  /\ retryCount' = [retryCount EXCEPT ![j] = @ + 1]
  /\ WorkerIdle(w)
  /\ UNCHANGED <<stale, rowLock, broker, dispVars, ensureVars, effects, faults>>

\* The conditional UPDATE: FAILED only while still PROCESSING.
MarkFailed(w) ==
  LET j == wjob[w] IN
  /\ pc[w] = "mark" /\ Unlocked(j)
  /\ IF status[j] = "PROCESSING"
     THEN /\ status' = [status EXCEPT ![j] = "FAILED"]
          /\ retryCount' = [retryCount EXCEPT ![j] = @ + 1]
     ELSE UNCHANGED <<status, retryCount>>
  /\ WorkerIdle(w)
  /\ UNCHANGED <<stale, rowLock, broker, dispVars, ensureVars, effects, faults>>

\* A killed worker: its session ends, so its row lock goes and nothing it did
\* in the open transaction remains.
WorkerCrash(w) ==
  /\ pc[w] # "idle"
  /\ Fault
  /\ rowLock' = [j \in Jobs |-> IF rowLock[j] = w THEN Free ELSE rowLock[j]]
  /\ WorkerIdle(w)
  /\ UNCHANGED <<dbVars, broker, dispVars, ensureVars, effects>>

-----------------------------------------------------------------------------
(* Stale recovery *)

\* The stuck timeout of a PROCESSING row passes although something still
\* carries it (a slow worker, a long queue): a fault of timing.
EarlyTimeout(j) ==
  /\ status[j] = "PROCESSING" /\ ~stale[j] /\ Carried(j)
  /\ Fault
  /\ stale' = [stale EXCEPT ![j] = TRUE]
  /\ UNCHANGED <<status, retryCount, rowLock, broker, dispVars, workerVars,
                 ensureVars, effects>>

\* The stuck timeout of a row that nothing carries any more.
Timeout(j) ==
  /\ status[j] = "PROCESSING" /\ ~stale[j] /\ ~Carried(j)
  /\ stale' = [stale EXCEPT ![j] = TRUE]
  /\ UNCHANGED <<status, retryCount, rowLock, broker, dispVars, workerVars,
                 ensureVars, effects, faults>>

\* Every stale PROCESSING row, the ones a worker is working on included.
StaleHeldToo == {j \in Jobs : status[j] = "PROCESSING" /\ stale[j]}

\* Recovery that forgets the embedding rows with their longer timeout.
StaleRebuildsOnly ==
  {j \in Jobs : status[j] = "PROCESSING" /\ stale[j] /\ Unlocked(j) /\ j \notin EmbedJobs}

\* The rows the Beat task can take: SKIP LOCKED leaves a working row alone.
StaleUnlocked == {j \in Jobs : status[j] = "PROCESSING" /\ stale[j] /\ Unlocked(j)}

\* One transaction returns them all to PENDING and counts a retry.
RecoverStale ==
  /\ StaleUnlocked # {}
  /\ status' = [j \in Jobs |-> IF j \in StaleUnlocked THEN "PENDING" ELSE status[j]]
  /\ stale'  = [j \in Jobs |-> stale[j] /\ j \notin StaleUnlocked]
  /\ retryCount' = [j \in Jobs |-> IF j \in StaleUnlocked THEN retryCount[j] + 1
                                                          ELSE retryCount[j]]
  /\ UNCHANGED <<rowLock, broker, dispVars, workerVars, ensureVars, effects, faults>>

-----------------------------------------------------------------------------
(* Reopening a finished row: ensure_embedding_job, ensure_sync_job *)

\* ensure_* finds a row of any finished status, REBUILD_PERSON rows included.
FindAnyRow(e, j) ==
  /\ epc[e] = "idle" /\ requeues < MaxRequeues
  /\ status[j] \in Terminal
  /\ epc'  = [epc EXCEPT ![e] = "found"]
  /\ ejob' = [ejob EXCEPT ![e] = j]
  /\ requeues' = requeues + 1
  /\ UNCHANGED <<dbVars, rowLock, broker, dispVars, workerVars, effects, faults>>

\* The plain SELECT by idempotency key sees a finished row.  A failed embedding
\* is left alone once its retries are spent; a sync row is looked up under the
\* lock of its document group, so by one caller at a time.
FindFinished(e, j) ==
  /\ epc[e] = "idle" /\ requeues < MaxRequeues
  /\ j \in Requeueable /\ status[j] \in Terminal
  /\ j \in EmbedJobs /\ status[j] = "FAILED" => retryCount[j] < MaxRetries
  /\ j \in SyncJobs => \A f \in Ensurers : ejob[f] # j
  /\ epc'  = [epc EXCEPT ![e] = "found"]
  /\ ejob' = [ejob EXCEPT ![e] = j]
  /\ requeues' = requeues + 1
  /\ UNCHANGED <<dbVars, rowLock, broker, dispVars, workerVars, effects, faults>>

\* The UPDATE by primary key waits for the row lock and does not look at the
\* status again; it is not visible before the caller commits.
ReopenWrite(e) ==
  /\ epc[e] = "found" /\ Unlocked(ejob[e])
  /\ epc' = [epc EXCEPT ![e] = "written"]
  /\ rowLock' = [rowLock EXCEPT ![ejob[e]] = e]
  /\ UNCHANGED <<dbVars, broker, dispVars, workerVars, ejob, requeues, effects, faults>>

ReopenCommit(e) ==
  /\ epc[e] = "written"
  /\ ToPending(ejob[e])
  /\ rowLock' = [rowLock EXCEPT ![ejob[e]] = Free]
  /\ epc'  = [epc EXCEPT ![e] = "idle"]
  /\ ejob' = [ejob EXCEPT ![e] = NoJob]
  /\ UNCHANGED <<retryCount, broker, dispVars, workerVars, requeues, effects, faults>>

\* The caller's transaction is rolled back.
ReopenAbort(e) ==
  /\ epc[e] # "idle"
  /\ Fault
  /\ rowLock' = [j \in Jobs |-> IF rowLock[j] = e THEN Free ELSE rowLock[j]]
  /\ epc'  = [epc EXCEPT ![e] = "idle"]
  /\ ejob' = [ejob EXCEPT ![e] = NoJob]
  /\ UNCHANGED <<dbVars, broker, dispVars, workerVars, requeues, effects>>

-----------------------------------------------------------------------------
(* Specification *)

DispatcherStep(d) ==
  \/ Reserve(d) \/ Release(d) \/ DispatcherCrash(d)
  \/ \E j \in Jobs : Publish(d, j) \/ PublishFails(d, j)

WorkerStep(w) ==
  \/ \E j \in Jobs : Receive(w, j)
  \/ Claim(w) \/ Reread(w) \/ Lock(w)
  \/ Complete(w) \/ Reject(w) \/ CancelDisabled(w) \/ Raise(w) \/ MarkFailed(w)
  \/ WorkerCrash(w)

EnsurerStep(e) ==
  \/ \E j \in Jobs : FindFinished(e, j)
  \/ ReopenWrite(e) \/ ReopenCommit(e) \/ ReopenAbort(e)

RowStep(j) ==
  Enqueue(j) \/ LoseMessage(j) \/ RepeatMessage(j) \/ EarlyTimeout(j) \/ Timeout(j)

Next ==
  \/ \E j \in Jobs : RowStep(j)
  \/ \E d \in Dispatchers : DispatcherStep(d)
  \/ \E w \in Workers : WorkerStep(w)
  \/ \E e \in Ensurers : EnsurerStep(e)
  \/ RecoverStale

SafetySpec == Init /\ [][Next]_vars

\* Beat keeps ticking, publishing loops and workers run on, and PostgreSQL
\* serves lock waiters in turn, so a statement that waits for a row lock that
\* is freed again and again is served.
Fairness ==
  /\ \A d \in Dispatchers :
       /\ WF_vars(Reserve(d))
       /\ WF_vars(\E j \in Jobs : Publish(d, j))
       /\ SF_vars(Release(d))
  /\ \A w \in Workers :
       /\ WF_vars(\E j \in Jobs : Receive(w, j))
       /\ SF_vars(Claim(w)) /\ WF_vars(Reread(w)) /\ WF_vars(Lock(w))
       /\ WF_vars(Complete(w) \/ Reject(w) \/ CancelDisabled(w) \/ Raise(w))
       /\ SF_vars(MarkFailed(w))
  /\ \A e \in Ensurers : SF_vars(ReopenWrite(e)) /\ WF_vars(ReopenCommit(e))
  /\ \A j \in Jobs : WF_vars(Timeout(j))
  /\ WF_vars(RecoverStale)

Spec == SafetySpec /\ Fairness

-----------------------------------------------------------------------------
(* Properties *)

\* Two workers are never inside the work transaction of the same row, whatever
\* the broker repeats and whenever the row is recovered (SKIP LOCKED in
\* lock_processing_job is the only thing that keeps them apart).
OneWorkerPerJob ==
  \A w1, w2 \in Workers :
    pc[w1] = "work" /\ pc[w2] = "work" /\ wjob[w1] = wjob[w2] => w1 = w2

\* While a worker is inside the work transaction nobody moves its row: stale
\* recovery, a late release, an old attempt's failure mark and a reopening all
\* wait or skip, so the final UPDATE always starts from PROCESSING.
WorkedRowIsProcessing ==
  \A w \in Workers : pc[w] = "work" => status[wjob[w]] = "PROCESSING"

\* A REBUILD_PERSON row commits its work at most once, and it is COMPLETED
\* exactly when it did: repeated messages, crashes and recovered attempts never
\* run the work of a finished row again, and never hide that it ran.
RebuildCommitsOnce ==
  \A j \in Jobs \ Requeueable :
    effects[j] = IF status[j] = "COMPLETED" THEN 1 ELSE 0

\* What a row's submitter can observe.
OutcomeOf(st) ==
  CASE st = "ABSENT"    -> "none"
    [] st = "COMPLETED" -> "succeeded"
    [] st = "FAILED"    -> "failed"
    [] st = "CANCELLED" -> "cancelled"
    [] OTHER            -> "open"

Contract == INSTANCE JobContract WITH
  outcome <- [j \in Jobs |-> OutcomeOf(status[j])]

\* The queue with all its steps is the abstract job: a row finishes once per
\* opening, its work is committed with the step that finishes it, and only
\* UPSERT rows are ever opened again.
ImplementsContract == Contract!SafetySpec

\* The promise with its liveness: no row is forgotten.  Whatever is lost,
\* repeated or killed (finitely often), a row that is PENDING or PROCESSING is
\* finished at last: what Beat reserves and nobody carries times out, is
\* recovered, reserved and published again.
FulfilsContract == Contract!Spec

\* No row stays locked: a held row lock is freed at last.
LocksAreFreed == \A j \in Jobs : rowLock[j] # Free ~> rowLock[j] = Free

=============================================================================
