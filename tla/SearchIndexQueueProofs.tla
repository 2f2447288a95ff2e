----------------------- MODULE SearchIndexQueueProofs -----------------------
(***************************************************************************)
(* Proofs about SearchIndexQueue, for any number of rows, workers,         *)
(* dispatchers and ensurers and any number of faults: the row lock keeps   *)
(* workers apart, a rebuild commits its work once, and the queue           *)
(* implements JobContract.                                                 *)
(***************************************************************************)
EXTENDS SearchIndexQueue, TLAPS

(* A busy worker has a row. *)
BusyWorkersHaveRows == \A w \in Workers : pc[w] # "idle" => wjob[w] \in Jobs

(* Inside the work transaction the worker holds its row's lock, and the row
   has stayed PROCESSING since the lock was taken. *)
WorkersHoldTheirRows ==
  \A w \in Workers :
    pc[w] = "work" => rowLock[wjob[w]] = w /\ status[wjob[w]] = "PROCESSING"

(* An ensurer reopens UPSERT rows only, and holds the row it has written. *)
EnsurersHoldTheirRows ==
  \A e \in Ensurers :
    /\ epc[e] # "idle" => ejob[e] \in Requeueable
    /\ epc[e] = "written" => rowLock[ejob[e]] = e

Inv ==
  /\ TypeOK
  /\ BusyWorkersHaveRows
  /\ WorkersHoldTheirRows
  /\ EnsurersHoldTheirRows
  /\ RebuildCommitsOnce

-----------------------------------------------------------------------------

(* Every reachable state starts from one that satisfies the invariant. *)
LEMMA InitInv == Init => Inv
  BY QueueAssumption
  DEF QueueAssumption, Init, Inv, TypeOK, BusyWorkersHaveRows, WorkersHoldTheirRows, EnsurersHoldTheirRows,
      RebuildCommitsOnce, Jobs, NoJob, Statuses, Terminal

(* Creating a row, and the two timeouts and two broker faults of a row. *)
LEMMA RowStepInv ==
  ASSUME Inv, NEW j \in Jobs, RowStep(j)
  PROVE  Inv'
<1> USE QueueAssumption DEF QueueAssumption, Inv, TypeOK, BusyWorkersHaveRows, WorkersHoldTheirRows,
        EnsurersHoldTheirRows, RebuildCommitsOnce, Statuses, Terminal,
        dbVars, workerVars, dispVars, ensureVars, Fault, Requeueable
<1>1. CASE Enqueue(j)
  BY <1>1 DEF Enqueue
<1>2. CASE LoseMessage(j)
  BY <1>2 DEF LoseMessage
<1>3. CASE RepeatMessage(j)
  BY <1>3 DEF RepeatMessage
<1>4. CASE EarlyTimeout(j)
  BY <1>4 DEF EarlyTimeout
<1>5. CASE Timeout(j)
  BY <1>5 DEF Timeout
<1> QED
  BY <1>1, <1>2, <1>3, <1>4, <1>5 DEF RowStep

(* The dispatcher moves rows nobody has locked, and only to PROCESSING or
   from PROCESSING to PENDING. *)
LEMMA DispatcherStepInv ==
  ASSUME Inv, NEW d \in Dispatchers, DispatcherStep(d)
  PROVE  Inv'
<1> USE QueueAssumption DEF QueueAssumption, Inv, TypeOK, BusyWorkersHaveRows, WorkersHoldTheirRows,
        EnsurersHoldTheirRows, RebuildCommitsOnce, Statuses, Terminal,
        dbVars, workerVars, dispVars, ensureVars, Fault, Requeueable
<1>1. CASE Reserve(d)
  <2>1. PICK S \in SUBSET PendingUnlocked :
          /\ status' = [j \in Jobs |-> IF j \in S THEN "PROCESSING" ELSE status[j]]
          /\ stale'  = [j \in Jobs |-> IF j \in S THEN FALSE ELSE stale[j]]
          /\ todo'   = [todo EXCEPT ![d] = S]
    BY <1>1 DEF Reserve
  <2>2. /\ S \subseteq Jobs
        /\ \A j \in S : status[j] = "PENDING"
    BY DEF PendingUnlocked
  <2>3. TypeOK'
    <3>1. /\ status' \in [Jobs -> Statuses]
          /\ stale' \in [Jobs -> BOOLEAN]
      BY <2>1
    <3>2. todo' \in [Dispatchers -> SUBSET Jobs]
      BY <2>1, <2>2
    <3> QED
      BY <1>1, <3>1, <3>2 DEF Reserve
  <2>4. BusyWorkersHaveRows' /\ EnsurersHoldTheirRows'
    BY <1>1 DEF Reserve
  <2>5. WorkersHoldTheirRows'
    <3> SUFFICES ASSUME NEW w \in Workers, pc[w] = "work"
                 PROVE  rowLock[wjob[w]] = w /\ status'[wjob[w]] = "PROCESSING"
      BY <1>1 DEF Reserve
    <3>1. wjob[w] \in Jobs /\ rowLock[wjob[w]] = w /\ status[wjob[w]] = "PROCESSING"
      OBVIOUS
    <3> QED
      BY <3>1, <2>1
  <2>6. RebuildCommitsOnce'
    BY <1>1, <2>1, <2>2 DEF Reserve
  <2> QED
    BY <2>3, <2>4, <2>5, <2>6
<1>2. CASE Release(d)
  <2>1. PICK j \in Jobs : j = releasing[d] /\ Unlocked(j)
    BY <1>2 DEF Release
  <2>2. /\ UNCHANGED <<retryCount, rowLock, broker, todo, workerVars, ensureVars, effects, faults>>
        /\ releasing' = [releasing EXCEPT ![d] = NoJob]
        /\ \/ UNCHANGED <<status, stale>>
           \/ /\ status[j] = "PROCESSING"
              /\ status' = [status EXCEPT ![j] = "PENDING"]
              /\ stale'  = [stale EXCEPT ![j] = FALSE]
    BY <1>2, <2>1 DEF Release, ToPending
  <2>3. TypeOK'
    <3>1. /\ status' \in [Jobs -> Statuses]
          /\ stale' \in [Jobs -> BOOLEAN]
      <4>1. CASE UNCHANGED <<status, stale>>
        BY <4>1
      <4>2. CASE /\ status' = [status EXCEPT ![j] = "PENDING"]
                 /\ stale'  = [stale EXCEPT ![j] = FALSE]
        BY <4>2
      <4> QED
        BY <2>2, <4>1, <4>2
    <3>2. releasing' \in [Dispatchers -> Jobs \cup {NoJob}]
      <4>1. /\ releasing \in [Dispatchers -> Jobs \cup {NoJob}]
            /\ releasing' = [releasing EXCEPT ![d] = NoJob]
        BY <2>2
      <4> HIDE DEF Inv, TypeOK
      <4> QED
        BY <4>1
    <3> QED
      BY <2>2, <3>1, <3>2
  <2>4. BusyWorkersHaveRows' /\ EnsurersHoldTheirRows'
    BY <2>2
  <2>5. WorkersHoldTheirRows'
    <3> SUFFICES ASSUME NEW w \in Workers, pc[w] = "work"
                 PROVE  rowLock[wjob[w]] = w /\ status'[wjob[w]] = "PROCESSING"
      BY <2>2
    <3>1. wjob[w] \in Jobs /\ rowLock[wjob[w]] = w /\ status[wjob[w]] = "PROCESSING"
      OBVIOUS
    <3>2. wjob[w] # j
      <4> HIDE DEF Inv, TypeOK
      <4> QED
        BY <3>1, <2>1 DEF Unlocked
    <3> QED
      BY <3>1, <3>2, <2>2
  <2>6. RebuildCommitsOnce'
    BY <2>1, <2>2
  <2> QED
    BY <2>3, <2>4, <2>5, <2>6
<1>3. CASE DispatcherCrash(d)
  BY <1>3 DEF DispatcherCrash, NoJob
<1>4. ASSUME NEW j \in Jobs, Publish(d, j)
      PROVE  Inv'
  BY <1>4 DEF Publish, NextToPublish
<1>5. ASSUME NEW j \in Jobs, PublishFails(d, j)
      PROVE  Inv'
  BY <1>5 DEF PublishFails, NextToPublish
<1> QED
  BY <1>1, <1>2, <1>3, <1>4, <1>5 DEF DispatcherStep

(* A worker moves its own row only, and only while it holds the row's lock or,
   for a claim and a failure mark, while nobody does. *)
LEMMA WorkerStepInv ==
  ASSUME Inv, NEW w \in Workers, WorkerStep(w)
  PROVE  Inv'
<1> USE QueueAssumption DEF QueueAssumption, Inv, TypeOK, BusyWorkersHaveRows,
        WorkersHoldTheirRows, EnsurersHoldTheirRows, RebuildCommitsOnce, Statuses, Terminal,
        dbVars, workerVars, dispVars, ensureVars, Fault, Requeueable, WorkerIdle, Unlocked
<1>1. ASSUME NEW j \in Jobs, Receive(w, j)
      PROVE  Inv'
  BY <1>1 DEF Receive
<1>2. CASE Claim(w)
  <2> DEFINE j == wjob[w]
  <2>1. CASE status[j] = "PENDING"
    <3>1. /\ j \in Jobs /\ rowLock[j] = Free /\ pc[w] = "claim"
          /\ status' = [status EXCEPT ![j] = "PROCESSING"]
          /\ stale'  = [stale EXCEPT ![j] = FALSE]
          /\ pc'     = [pc EXCEPT ![w] = "lock"]
          /\ UNCHANGED <<retryCount, rowLock, broker, todo, releasing, wjob, seenRetry,
                         epc, ejob, requeues, effects, faults>>
      BY <1>2, <2>1 DEF Claim
    <3> HIDE DEF j
    <3>2. TypeOK'
      BY <3>1
    <3>3. BusyWorkersHaveRows' /\ EnsurersHoldTheirRows'
      BY <3>1
    <3>4. RebuildCommitsOnce'
      <4>1. \A k \in Jobs : (status'[k] = "COMPLETED") <=> (status[k] = "COMPLETED")
        BY <2>1, <3>1
      <4> QED
        BY <3>1, <4>1
    <3>5. WorkersHoldTheirRows'
      <4> SUFFICES ASSUME NEW v \in Workers, pc'[v] = "work"
                   PROVE  rowLock[wjob[v]] = v /\ status'[wjob[v]] = "PROCESSING"
        BY <3>1
      <4>1. pc[v] = "work"
        BY <3>1
      <4>2. wjob[v] \in Jobs /\ rowLock[wjob[v]] = v /\ status[wjob[v]] = "PROCESSING"
        BY <4>1
      <4> QED
        BY <2>1, <3>1, <4>2
    <3> QED
      BY <3>2, <3>3, <3>4, <3>5
  <2>2. CASE status[j] # "PENDING"
    BY <1>2, <2>2 DEF Claim
  <2> QED
    BY <2>1, <2>2
<1>3. CASE Reread(w)
  BY <1>3 DEF Reread
<1>4. CASE Lock(w)
  BY <1>4 DEF Lock
<1>5. CASE Complete(w)
  BY <1>5 DEF Complete, FinishRow
<1>6. CASE Reject(w)
  BY <1>6 DEF Reject, FinishRow
<1>7. CASE CancelDisabled(w)
  BY <1>7 DEF CancelDisabled, FinishRow
<1>8. CASE Raise(w)
  BY <1>8 DEF Raise
<1>9. CASE MarkFailed(w)
  BY <1>9 DEF MarkFailed
<1>10. CASE WorkerCrash(w)
  BY <1>10 DEF WorkerCrash
<1> QED
  BY <1>1, <1>2, <1>3, <1>4, <1>5, <1>6, <1>7, <1>8, <1>9, <1>10 DEF WorkerStep

(* An ensurer writes an UPSERT row only while it holds the row's lock. *)
LEMMA EnsurerStepInv ==
  ASSUME Inv, NEW e \in Ensurers, EnsurerStep(e)
  PROVE  Inv'
<1> USE QueueAssumption DEF QueueAssumption, Inv, TypeOK, BusyWorkersHaveRows,
        WorkersHoldTheirRows, EnsurersHoldTheirRows, RebuildCommitsOnce, Statuses, Terminal,
        dbVars, workerVars, dispVars, ensureVars, Fault, Requeueable, Unlocked
<1>1. ASSUME NEW j \in Jobs, FindFinished(e, j)
      PROVE  Inv'
  BY <1>1 DEF FindFinished
<1>2. CASE ReopenWrite(e)
  BY <1>2 DEF ReopenWrite
<1>3. CASE ReopenCommit(e)
  BY <1>3 DEF ReopenCommit, ToPending
<1>4. CASE ReopenAbort(e)
  BY <1>4 DEF ReopenAbort
<1> QED
  BY <1>1, <1>2, <1>3, <1>4 DEF EnsurerStep

(* Recovery skips the rows that are locked, so no working row is moved. *)
LEMMA RecoverStaleInv ==
  ASSUME Inv, RecoverStale
  PROVE  Inv'
<1> USE QueueAssumption DEF QueueAssumption, Inv, TypeOK, BusyWorkersHaveRows,
        WorkersHoldTheirRows, EnsurersHoldTheirRows, RebuildCommitsOnce, Statuses, Terminal,
        dbVars, workerVars, dispVars, ensureVars, Requeueable
<1>1. \A j \in StaleUnlocked : j \in Jobs /\ status[j] = "PROCESSING" /\ rowLock[j] = Free
  BY DEF StaleUnlocked, Unlocked
<1>2. TypeOK'
  BY <1>1 DEF RecoverStale
<1>3. BusyWorkersHaveRows' /\ EnsurersHoldTheirRows'
  BY DEF RecoverStale
<1>4. WorkersHoldTheirRows'
  <2> SUFFICES ASSUME NEW w \in Workers, pc[w] = "work"
               PROVE  rowLock[wjob[w]] = w /\ status'[wjob[w]] = "PROCESSING"
    BY DEF RecoverStale
  <2>1. wjob[w] \in Jobs /\ rowLock[wjob[w]] = w /\ status[wjob[w]] = "PROCESSING"
    OBVIOUS
  <2>2. wjob[w] \notin StaleUnlocked
    <3>1. w # Free
      OBVIOUS
    <3> QED
      BY <1>1, <2>1, <3>1
  <2> QED
    BY <2>1, <2>2 DEF RecoverStale
<1>5. RebuildCommitsOnce'
  BY <1>1 DEF RecoverStale
<1> QED
  BY <1>2, <1>3, <1>4, <1>5

(* The invariant is inductive. *)
LEMMA NextInv == Inv /\ [Next]_vars => Inv'
<1> SUFFICES ASSUME Inv, [Next]_vars
             PROVE  Inv'
  OBVIOUS
<1>1. CASE Next
  BY <1>1, RowStepInv, DispatcherStepInv, WorkerStepInv, EnsurerStepInv, RecoverStaleInv
  DEF Next
<1>2. CASE UNCHANGED vars
  BY <1>2 DEF vars, Inv, TypeOK, BusyWorkersHaveRows, WorkersHoldTheirRows,
     EnsurersHoldTheirRows, RebuildCommitsOnce, Unlocked
<1> QED
  BY <1>1, <1>2

(* The invariant holds in every reachable state. *)
THEOREM Invariance == SafetySpec => []Inv
  BY InitInv, NextInv, PTL DEF SafetySpec

(* Every variable keeps its type. *)
THEOREM TypeCorrect == SafetySpec => []TypeOK
<1>1. Inv => TypeOK
  BY DEF Inv
<1> QED
  BY <1>1, Invariance, PTL

(* A row is worked on by one worker at a time: two of them would both have to
   hold the one row lock. *)
THEOREM RowsAreWorkedOnByTheirHolder == SafetySpec => []OneWorkerPerJob
<1>1. Inv => OneWorkerPerJob
  BY DEF Inv, WorkersHoldTheirRows, OneWorkerPerJob
<1> QED
  BY <1>1, Invariance, PTL

(* Stale recovery, a late release or a reopening never moves a row that a
   worker is working on: each of them would need its lock. *)
THEOREM WorkedRowsStay == SafetySpec => []WorkedRowIsProcessing
<1>1. Inv => WorkedRowIsProcessing
  BY DEF Inv, WorkersHoldTheirRows, WorkedRowIsProcessing
<1> QED
  BY <1>1, Invariance, PTL

(* A profile version is rebuilt by at most one committed transaction, which is
   the one that completed its row. *)
THEOREM RebuildsCommitOnce == SafetySpec => []RebuildCommitsOnce
<1>1. Inv => RebuildCommitsOnce
  BY DEF Inv
<1> QED
  BY <1>1, Invariance, PTL

-----------------------------------------------------------------------------
(* The queue implements JobContract *)

(* A step that moves rows only between PENDING and PROCESSING, and commits no
   work, is invisible to the submitters. *)
LEMMA OpenRowsLookAlike ==
  ASSUME TypeOK, UNCHANGED effects, status' \in [Jobs -> Statuses],
         \A j \in Jobs : status'[j] = status[j]
                         \/ (status[j] \in {"PENDING", "PROCESSING"}
                              /\ status'[j] \in {"PENDING", "PROCESSING"})
  PROVE  UNCHANGED Contract!vars
<1>1. \A j \in Jobs : OutcomeOf(status[j])' = OutcomeOf(status[j])
  BY DEF OutcomeOf
<1> QED
  BY <1>1 DEF Contract!vars

(* Creating a row submits the job. *)
LEMMA RowStepSimulates ==
  ASSUME Inv, NEW j \in Jobs, RowStep(j)
  PROVE  Contract!Next \/ UNCHANGED Contract!vars
<1>1. CASE Enqueue(j)
  <2>1. Contract!Submit(j)
    BY <1>1 DEF Enqueue, Inv, TypeOK, OutcomeOf, Contract!Submit
  <2> QED
    BY <2>1 DEF Contract!Next
<1>2. CASE UNCHANGED <<status, effects>>
  BY <1>2 DEF Contract!vars
<1> QED
  BY <1>1, <1>2 DEF RowStep, LoseMessage, RepeatMessage, EarlyTimeout, Timeout, dbVars

(* Nothing a dispatcher does is visible. *)
LEMMA DispatcherStepSimulates ==
  ASSUME Inv, NEW d \in Dispatchers, DispatcherStep(d)
  PROVE  UNCHANGED Contract!vars
<1>1. CASE UNCHANGED <<status, effects>>
  BY <1>1 DEF Contract!vars
<1>2. CASE Reserve(d)
  <2>1. \A j \in PendingUnlocked : j \in Jobs /\ status[j] = "PENDING"
    BY DEF PendingUnlocked
  <2> QED
    BY <1>2, <2>1, OpenRowsLookAlike DEF Reserve, Inv, TypeOK, Statuses
<1>3. CASE Release(d)
  BY <1>3, OpenRowsLookAlike DEF Release, ToPending, Inv, TypeOK, Statuses
<1> QED
  BY <1>1, <1>2, <1>3 DEF DispatcherStep, DispatcherCrash, Publish, PublishFails, dbVars

(* A worker finishes the job, once, with the outcome it records. *)
LEMMA WorkerStepSimulates ==
  ASSUME Inv, NEW w \in Workers, WorkerStep(w)
  PROVE  Contract!Next \/ UNCHANGED Contract!vars
<1> USE DEF Inv, TypeOK
<1>1. CASE UNCHANGED <<status, effects>>
  BY <1>1 DEF Contract!vars
<1>2. CASE Claim(w)
  BY <1>2, OpenRowsLookAlike DEF Claim, Statuses, BusyWorkersHaveRows
<1>3. pc[w] = "work" => wjob[w] \in Jobs /\ status[wjob[w]] = "PROCESSING"
  BY DEF BusyWorkersHaveRows, WorkersHoldTheirRows
<1>4. CASE Complete(w)
  <2>1. Contract!Succeed(wjob[w])
    BY <1>3, <1>4 DEF Complete, FinishRow, OutcomeOf, Contract!Succeed
  <2> QED
    BY <1>3, <1>4, <2>1 DEF Complete, FinishRow, Contract!Next, Contract!Finish
<1>5. CASE Reject(w)
  <2>1. Contract!Fail(wjob[w])
    BY <1>3, <1>5 DEF Reject, FinishRow, OutcomeOf, Contract!Fail
  <2> QED
    BY <1>3, <1>5, <2>1 DEF Reject, FinishRow, Contract!Next, Contract!Finish
<1>6. CASE CancelDisabled(w)
  <2>1. Contract!Cancel(wjob[w])
    BY <1>3, <1>6 DEF CancelDisabled, FinishRow, OutcomeOf, Contract!Cancel, Requeueable
  <2> QED
    BY <1>3, <1>6, <2>1 DEF CancelDisabled, FinishRow, Contract!Next, Contract!Finish
<1>7. CASE MarkFailed(w)
  <2>1. CASE status[wjob[w]] = "PROCESSING"
    <3>1. wjob[w] \in Jobs
      BY <1>7 DEF MarkFailed, BusyWorkersHaveRows
    <3>2. status' = [status EXCEPT ![wjob[w]] = "FAILED"] /\ UNCHANGED effects
      BY <1>7, <2>1 DEF MarkFailed
    <3>3. Contract!Fail(wjob[w])
      BY <2>1, <3>1, <3>2 DEF OutcomeOf, Contract!Fail
    <3> QED
      BY <3>1, <3>3 DEF Contract!Next, Contract!Finish
  <2>2. CASE status[wjob[w]] # "PROCESSING"
    BY <1>1, <1>7, <2>2 DEF MarkFailed
  <2> QED
    BY <2>1, <2>2
<1> QED
  BY <1>1, <1>2, <1>4, <1>5, <1>6, <1>7
  DEF WorkerStep, Receive, Reread, Lock, Raise, WorkerCrash, dbVars

(* An ensurer opens a finished UPSERT row again, or changes nothing. *)
LEMMA EnsurerStepSimulates ==
  ASSUME Inv, NEW e \in Ensurers, EnsurerStep(e)
  PROVE  Contract!Next \/ UNCHANGED Contract!vars
<1> USE DEF Inv, TypeOK
<1>1. CASE UNCHANGED <<status, effects>>
  BY <1>1 DEF Contract!vars
<1>2. CASE ReopenCommit(e)
  <2>1. PICK j \in Jobs : j = ejob[e] /\ j \in Requeueable
    BY <1>2, QueueAssumption DEF ReopenCommit, EnsurersHoldTheirRows, QueueAssumption
  <2>2. CASE status[j] \in Terminal
    <3>1. /\ OutcomeOf(status[j]) \in {"succeeded", "failed", "cancelled"}
          /\ status' = [status EXCEPT ![j] = "PENDING"] /\ UNCHANGED effects
      BY <1>2, <2>1, <2>2 DEF ReopenCommit, ToPending, OutcomeOf, Terminal
    <3>2. [k \in Jobs |-> OutcomeOf(status[k])]'
            = [[k \in Jobs |-> OutcomeOf(status[k])] EXCEPT ![j] = "open"]
      BY <2>1, <3>1 DEF OutcomeOf
    <3>3. Contract!Resubmit(j)
      BY <2>1, <3>1, <3>2 DEF Contract!Resubmit, Contract!Finished
    <3> QED
      BY <3>3 DEF Contract!Next
  <2>3. CASE status[j] = "ABSENT"
    <3>1. Contract!Submit(j)
      BY <1>2, <2>1, <2>3 DEF ReopenCommit, ToPending, OutcomeOf, Contract!Submit
    <3> QED
      BY <3>1 DEF Contract!Next
  <2>4. CASE status[j] \in {"PENDING", "PROCESSING"}
    BY <1>2, <2>1, <2>4, OpenRowsLookAlike DEF ReopenCommit, ToPending, Statuses
  <2> QED
    BY <2>2, <2>3, <2>4 DEF Statuses
<1> QED
  BY <1>1, <1>2 DEF EnsurerStep, FindFinished, ReopenWrite, ReopenAbort, dbVars

(* The rows that recovery moves are open before and after. *)
LEMMA RecoverStaleSimulates ==
  ASSUME Inv, RecoverStale
  PROVE  UNCHANGED Contract!vars
<1>1. \A j \in StaleUnlocked : j \in Jobs /\ status[j] = "PROCESSING"
  BY DEF StaleUnlocked
<1> QED
  BY <1>1, OpenRowsLookAlike DEF RecoverStale, Inv, TypeOK, Statuses

(* The queue with its dispatcher, broker, workers, recovery and reopening is
   the abstract job: every step finishes, submits or reopens one job, or is
   invisible to its submitter. *)
THEOREM Implementation == SafetySpec => ImplementsContract
<1>1. Init => Contract!Init
  BY DEF Init, Contract!Init, OutcomeOf
<1>2. Inv /\ [Next]_vars => [Contract!Next]_(Contract!vars)
  <2> SUFFICES ASSUME Inv, [Next]_vars
               PROVE  Contract!Next \/ UNCHANGED Contract!vars
    OBVIOUS
  <2>1. CASE Next
    BY <2>1, RowStepSimulates, DispatcherStepSimulates, WorkerStepSimulates,
       EnsurerStepSimulates, RecoverStaleSimulates
    DEF Next
  <2>2. CASE UNCHANGED vars
    BY <2>2 DEF vars, Contract!vars
  <2> QED
    BY <2>1, <2>2
<1> QED
  BY <1>1, <1>2, Invariance, PTL DEF SafetySpec, ImplementsContract, Contract!SafetySpec

=============================================================================
