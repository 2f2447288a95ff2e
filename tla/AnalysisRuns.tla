---------------------------- MODULE AnalysisRuns ----------------------------
(***************************************************************************)
(* The life of the analysis_run rows of one person: manual and automatic   *)
(* creation, the deferred runs that wait for a running one and are         *)
(* promoted by scheduled tasks, execution by the analysis workers, review, *)
(* confirmation against the profile's version, retry, cancellation, and    *)
(* the deletion and restoration of the person.  Runs of different persons  *)
(* share nothing, so one person is enough.                                 *)
(*                                                                         *)
(* A transaction that decides only on what it reads under its row locks is *)
(* one action.  A session that loaded a run before it locked it keeps the  *)
(* loaded attributes (no populate_existing, expire_on_commit=False): such  *)
(* a reader is two actions, and the second decides on the old status.      *)
(***************************************************************************)
EXTENDS Naturals

CONSTANTS
  MaxRuns,          \* runs that can be created; run r is the r-th by created_at
  Callers,          \* API requests and Celery tasks that create, promote, retry, confirm
  Workers,          \* Celery analysis workers
  MaxAttempts,      \* AUTO_ANALYSIS_DEFER_MAX_ATTEMPTS
  MaxVersion,       \* bound: last profile version
  MaxRetries,       \* bound: retry requests
  MaxBrokerErrors,  \* bound: a publish raises while less went wrong so far
  MaxFaults         \* bound: the same for crashes, lost and repeated messages

Runs  == 1..MaxRuns
NoRun == 0

ASSUME RunsAssumption ==
  /\ MaxRuns \in Nat /\ MaxAttempts \in Nat \ {0} /\ MaxVersion \in Nat \ {0}
  /\ MaxRetries \in Nat /\ MaxBrokerErrors \in Nat /\ MaxFaults \in Nat

Executable == {"QUEUED", "PROCESSING"}
Active     == {"DEFERRED"} \cup Executable
Statuses   == {"ABSENT", "REVIEWING", "FAILED", "CONFIRMED", "CANCELLED"} \cup Active

VARIABLES
  person,          \* "ACTIVE" or "DELETED"
  profileVersion,  \* person_profile.profile_version
  status,          \* analysis_run.status ("ABSENT": not inserted yet)
  base,            \* analysis_run.base_profile_version
  revisions,       \* profile_revision.source_analysis_run_id, by revision_no: the
                   \* run a version was confirmed from, NoRun for any other change
  execMsgs,        \* run_profile_analysis messages in Redis, per run
  deferMsgs,       \* scheduled promotion messages, per run and attempt
  at,              \* where a caller is
  on,              \* the run a caller is about
  attempt,         \* the attempt a promoting caller carries
  sawVersion,      \* the version a confirming caller committed
  busy,            \* the run a worker executes
  retries, brokerErrors, faults

msgVars    == <<execMsgs, deferMsgs>>
callerVars == <<at, on, attempt, sawVersion>>
bounds     == <<retries, brokerErrors, faults>>
profile    == <<profileVersion, revisions>>
vars == <<person, profile, status, base, msgVars, callerVars, busy, bounds>>

Init ==
  /\ person = "ACTIVE" /\ profileVersion = 1
  /\ status     = [r \in Runs |-> "ABSENT"]
  /\ base       = [r \in Runs |-> 0]
  /\ revisions  = [v \in 1..MaxVersion |-> NoRun]
  /\ execMsgs   = [r \in Runs |-> 0]
  /\ deferMsgs  = [r \in Runs |-> [a \in 1..MaxAttempts |-> 0]]
  /\ at         = [c \in Callers |-> "idle"]
  /\ on         = [c \in Callers |-> NoRun]
  /\ attempt    = [c \in Callers |-> 1]
  /\ sawVersion = [c \in Callers |-> 0]
  /\ busy       = [w \in Workers |-> NoRun]
  /\ retries = 0 /\ brokerErrors = 0 /\ faults = 0

CallerStates == {"idle", "enqueue", "enqueueFailed", "schedule", "scheduleFailed",
                 "reschedule", "rescheduleFailed", "retry", "promote", "sweep"}

TypeOK ==
  /\ person \in {"ACTIVE", "DELETED"}
  /\ profileVersion \in 1..MaxVersion
  /\ status     \in [Runs -> Statuses]
  /\ base       \in [Runs -> 0..MaxVersion]
  /\ revisions  \in [1..MaxVersion -> Runs \cup {NoRun}]
  /\ execMsgs   \in [Runs -> Nat]
  /\ deferMsgs  \in [Runs -> [1..MaxAttempts -> Nat]]
  /\ at         \in [Callers -> CallerStates]
  /\ on         \in [Callers -> Runs \cup {NoRun}]
  /\ attempt    \in [Callers -> 1..MaxAttempts]
  /\ sawVersion \in [Callers -> 0..MaxVersion]
  /\ busy       \in [Workers -> Runs \cup {NoRun}]
  /\ retries \in 0..MaxRetries /\ brokerErrors \in 0..MaxBrokerErrors
  /\ faults \in 0..MaxFaults

-----------------------------------------------------------------------------
(* Helpers *)

SetStatus(r, st) == status' = [status EXCEPT ![r] = st]

\* A caller moves on: its place, run, attempt and version.
Go(c, place, r, a, v) ==
  /\ at'         = [at EXCEPT ![c] = place]
  /\ on'         = [on EXCEPT ![c] = r]
  /\ attempt'    = [attempt EXCEPT ![c] = a]
  /\ sawVersion' = [sawVersion EXCEPT ![c] = v]

Done(c) == Go(c, "idle", NoRun, 1, 0)

\* get_active_run_for_person returns the oldest executable run, if any;
\* get_manual_create_blocking_run is asked only whether there is one.
OldestExecutable(q) ==
  status[q] \in Executable /\ \A r \in Runs : status[r] \in Executable => q <= r
SomeExecutable == \E r \in Runs : OldestExecutable(r)
SomeActive     == \E r \in Runs : status[r] \in Active

IsNext(r) == status[r] = "ABSENT" /\ \A q \in Runs : q < r => status[q] # "ABSENT"

\* create_run, under the person and profile locks.
Create(r, st) ==
  /\ IsNext(r)
  /\ SetStatus(r, st)
  /\ base' = [base EXCEPT ![r] = profileVersion]

BrokerError == brokerErrors + faults < MaxBrokerErrors /\ brokerErrors' = brokerErrors + 1
Fault       == brokerErrors + faults < MaxFaults /\ faults' = faults + 1

-----------------------------------------------------------------------------
(* Creation *)

\* create_analysis.  The documents are taken to be READY.
CreateManual(c, r) ==
  /\ at[c] = "idle" /\ person = "ACTIVE" /\ ~SomeActive
  /\ Create(r, "QUEUED")
  /\ Go(c, "enqueue", r, 1, 0)
  /\ UNCHANGED <<person, profile, msgVars, busy, bounds>>

\* create_analysis_for_ready_documents, for a batch no run covers yet: behind
\* an executing run it waits as DEFERRED.
CreateAuto(c, r) ==
  /\ at[c] = "idle" /\ person = "ACTIVE"
  /\ IF SomeExecutable
     THEN Create(r, "DEFERRED") /\ Go(c, "schedule", r, 1, 0)
     ELSE Create(r, "QUEUED") /\ Go(c, "enqueue", r, 1, 0)
  /\ UNCHANGED <<person, profile, msgVars, busy, bounds>>

-----------------------------------------------------------------------------
(* Publishing, after the commit *)

Publish(c) ==
  /\ \/ /\ at[c] = "enqueue"
        /\ execMsgs' = [execMsgs EXCEPT ![on[c]] = @ + 1]
        /\ UNCHANGED deferMsgs
     \/ /\ at[c] \in {"schedule", "reschedule"}
        /\ deferMsgs' = [deferMsgs EXCEPT ![on[c]][attempt[c]] = @ + 1]
        /\ UNCHANGED execMsgs
  /\ Done(c)
  /\ UNCHANGED <<person, profile, status, base, busy, bounds>>

\* The publish raises: the message was not sent, or it was and the answer of
\* the broker was lost.
PublishFails(c) ==
  /\ BrokerError
  /\ \/ /\ at[c] = "enqueue"
        /\ Go(c, "enqueueFailed", on[c], 1, 0)
        /\ \/ UNCHANGED msgVars
           \/ /\ execMsgs' = [execMsgs EXCEPT ![on[c]] = @ + 1]
              /\ UNCHANGED deferMsgs
     \/ /\ at[c] \in {"schedule", "reschedule"}
        /\ Go(c, IF at[c] = "schedule" THEN "scheduleFailed" ELSE "rescheduleFailed",
              on[c], 1, 0)
        /\ \/ UNCHANGED msgVars
           \/ /\ deferMsgs' = [deferMsgs EXCEPT ![on[c]][attempt[c]] = @ + 1]
              /\ UNCHANGED execMsgs
  /\ UNCHANGED <<person, profile, status, base, busy, retries, faults>>

\* The session still holds the run it committed, so its re-check of the
\* status (QUEUED or DEFERRED) always succeeds and the run becomes FAILED,
\* whatever the row says by now.
FailUnpublished(c) ==
  /\ at[c] \in {"enqueueFailed", "scheduleFailed"}
  /\ SetStatus(on[c], "FAILED")
  /\ Done(c)
  /\ UNCHANGED <<person, profile, base, msgVars, busy, bounds>>

\* promote_deferred_analysis calls expire_all first, so its re-check is real.
FailUnscheduled(c) ==
  /\ at[c] = "rescheduleFailed"
  /\ IF status[on[c]] = "DEFERRED" THEN SetStatus(on[c], "FAILED") ELSE UNCHANGED status
  /\ Done(c)
  /\ UNCHANGED <<person, profile, base, msgVars, busy, bounds>>

-----------------------------------------------------------------------------
(* Promotion of a deferred run *)

\* The scheduled task reads the run without a lock.
PromotePeek(c, r, a) ==
  /\ at[c] = "idle" /\ deferMsgs[r][a] > 0
  /\ deferMsgs' = [deferMsgs EXCEPT ![r][a] = @ - 1]
  /\ IF status[r] = "DEFERRED" THEN Go(c, "promote", r, a, 0) ELSE UNCHANGED callerVars
  /\ UNCHANGED <<person, profile, status, base, execMsgs, busy, bounds>>

\* Promotion that is not scheduled again when it is blocked.
PromoteOnce(c) ==
  LET r == on[c]
      blocked == \E q \in Runs \ {r} : OldestExecutable(q)
  IN
  /\ at[c] = "promote"
  /\ \/ /\ person = "DELETED" \/ blocked
        /\ Done(c) /\ UNCHANGED status
     \/ /\ person = "ACTIVE" /\ ~blocked
        /\ SetStatus(r, "QUEUED")
        /\ Go(c, "enqueue", r, 1, 0)
  /\ UNCHANGED <<person, profile, base, msgVars, busy, bounds>>

\* Under the person lock: queue the run, or wait for another executing run and
\* give up after the last attempt.  The re-read of the run returns the status
\* it had at the peek.
Promote(c) ==
  LET r == on[c]
      blocked == \E q \in Runs \ {r} : OldestExecutable(q)
  IN
  /\ at[c] = "promote"
  /\ \/ /\ person = "DELETED"
        /\ Done(c) /\ UNCHANGED status
     \/ /\ person = "ACTIVE" /\ ~blocked
        /\ SetStatus(r, "QUEUED")
        /\ Go(c, "enqueue", r, 1, 0)
     \/ /\ person = "ACTIVE" /\ blocked /\ attempt[c] = MaxAttempts
        /\ SetStatus(r, "FAILED")
        /\ Done(c)
     \/ /\ person = "ACTIVE" /\ blocked /\ attempt[c] < MaxAttempts
        /\ Go(c, "reschedule", r, attempt[c] + 1, 0)
        /\ UNCHANGED status
  /\ UNCHANGED <<person, profile, base, msgVars, busy, bounds>>

-----------------------------------------------------------------------------
(* Execution: run_analysis *)

\* The conditional UPDATE claims a QUEUED run; any other is left alone.
Claim(w, r) ==
  /\ busy[w] = NoRun /\ execMsgs[r] > 0
  /\ execMsgs' = [execMsgs EXCEPT ![r] = @ - 1]
  /\ IF status[r] = "QUEUED"
     THEN SetStatus(r, "PROCESSING") /\ busy' = [busy EXCEPT ![w] = r]
     ELSE UNCHANGED <<status, busy>>
  /\ UNCHANGED <<person, profile, base, deferMsgs, callerVars, bounds>>

\* _persist_reviewing without its look at the status.
PersistAnyStatus(w) ==
  /\ busy[w] # NoRun
  /\ SetStatus(busy[w], "REVIEWING")
  /\ busy' = [busy EXCEPT ![w] = NoRun]
  /\ UNCHANGED <<person, profile, base, msgVars, callerVars, bounds>>

\* _persist_reviewing
Persist(w) ==
  /\ busy[w] # NoRun
  /\ IF status[busy[w]] = "PROCESSING"
     THEN SetStatus(busy[w], "REVIEWING")
     ELSE UNCHANGED status
  /\ busy' = [busy EXCEPT ![w] = NoRun]
  /\ UNCHANGED <<person, profile, base, msgVars, callerVars, bounds>>

\* _fail_run, after any exception of the execution.  A run whose base revision
\* is missing would be failed by its worker without a look at the status; every
\* version has its revision row, which nothing deletes, so this does not happen.
FailRun(w) ==
  /\ busy[w] # NoRun
  /\ IF status[busy[w]] \notin {"CONFIRMED", "CANCELLED", "REVIEWING"}
     THEN SetStatus(busy[w], "FAILED")
     ELSE UNCHANGED status
  /\ busy' = [busy EXCEPT ![w] = NoRun]
  /\ UNCHANGED <<person, profile, base, msgVars, callerVars, bounds>>

-----------------------------------------------------------------------------
(* Review, confirmation, retry, cancellation *)

\* The next version of the profile, with the revision row that records it.
NextVersion(r) ==
  /\ profileVersion < MaxVersion
  /\ profileVersion' = profileVersion + 1
  /\ revisions' = [revisions EXCEPT ![profileVersion + 1] = r]

\* confirm_analysis without the comparison of versions.
ConfirmAnyVersion(c, r) ==
  /\ at[c] = "idle"
  /\ status[r] = "REVIEWING" /\ person = "ACTIVE"
  /\ SetStatus(r, "CONFIRMED")
  /\ NextVersion(r)
  /\ Go(c, "sweep", r, 1, profileVersion + 1)
  /\ UNCHANGED <<person, base, msgVars, busy, bounds>>

\* confirm_analysis of a fully reviewed run, with the version the reviewer saw.
Confirm(c, r) ==
  /\ at[c] = "idle"
  /\ status[r] = "REVIEWING" /\ person = "ACTIVE"
  /\ base[r] = profileVersion
  /\ SetStatus(r, "CONFIRMED")
  /\ NextVersion(r)
  /\ Go(c, "sweep", r, 1, profileVersion + 1)
  /\ UNCHANGED <<person, base, msgVars, busy, bounds>>

\* A repeated confirm looks up the revision the first one wrote and answers with
\* its number; the transaction that follows a confirm follows it too.
ConfirmAgain(c, r) ==
  /\ at[c] = "idle" /\ status[r] = "CONFIRMED"
  /\ \E v \in 1..profileVersion : revisions[v] = r /\ Go(c, "sweep", r, 1, v)
  /\ UNCHANGED <<person, profile, status, base, msgVars, busy, bounds>>

\* The transaction that follows a confirm cancels the reviews it made stale;
\* its failure is logged and forgotten.
Sweep(c) ==
  /\ at[c] = "sweep"
  /\ \/ status' = [r \in Runs |->
                     IF status[r] = "REVIEWING" /\ r # on[c] /\ base[r] < sawVersion[c]
                     THEN "CANCELLED" ELSE status[r]]
     \/ UNCHANGED status
  /\ Done(c)
  /\ UNCHANGED <<person, profile, base, msgVars, busy, bounds>>

\* retry_analysis reads the run without a lock.
RetryPeek(c, r) ==
  /\ at[c] = "idle" /\ retries < MaxRetries
  /\ status[r] = "FAILED"
  /\ retries' = retries + 1
  /\ Go(c, "retry", r, 1, 0)
  /\ UNCHANGED <<person, profile, status, base, msgVars, busy, brokerErrors, faults>>

\* retry_analysis that trusts the status and does not look for a blocking run.
RetryUnblocked(c) ==
  /\ at[c] = "retry"
  /\ IF person = "ACTIVE"
     THEN SetStatus(on[c], "QUEUED") /\ Go(c, "enqueue", on[c], 1, 0)
     ELSE Done(c) /\ UNCHANGED status
  /\ UNCHANGED <<person, profile, base, msgVars, busy, bounds>>

\* Under the person lock.  The re-read of the run returns the FAILED it had at
\* the peek; the search for a blocking run sees the rows as they are.
Retry(c) ==
  /\ at[c] = "retry"
  /\ IF person = "ACTIVE" /\ ~SomeActive
     THEN SetStatus(on[c], "QUEUED") /\ Go(c, "enqueue", on[c], 1, 0)
     ELSE Done(c) /\ UNCHANGED status
  /\ UNCHANGED <<person, profile, base, msgVars, busy, bounds>>

\* cancel_analysis
Cancel(r) ==
  /\ status[r] \in {"REVIEWING", "FAILED"}
  /\ SetStatus(r, "CANCELLED")
  /\ UNCHANGED <<person, profile, base, msgVars, callerVars, busy, bounds>>

-----------------------------------------------------------------------------
(* The person *)

\* Any profile mutation that is not a confirm; it does not look at the status
\* of the person.
EditProfile ==
  /\ NextVersion(NoRun)
  /\ UNCHANGED <<person, status, base, msgVars, callerVars, busy, bounds>>

\* A deletion that overlooks the waiting runs.
DeletePersonKeepsDeferred ==
  /\ person = "ACTIVE"
  /\ person' = "DELETED"
  /\ status' = [r \in Runs |-> IF status[r] \in Executable THEN "CANCELLED" ELSE status[r]]
  /\ UNCHANGED <<profile, base, msgVars, callerVars, busy, bounds>>

\* update_status(DELETED) cancels every active run in the same transaction.
DeletePerson ==
  /\ person = "ACTIVE"
  /\ person' = "DELETED"
  /\ status' = [r \in Runs |-> IF status[r] \in Active THEN "CANCELLED" ELSE status[r]]
  /\ UNCHANGED <<profile, base, msgVars, callerVars, busy, bounds>>

RestorePerson ==
  /\ person = "DELETED"
  /\ person' = "ACTIVE"
  /\ UNCHANGED <<profile, status, base, msgVars, callerVars, busy, bounds>>

-----------------------------------------------------------------------------
(* Faults *)

CallerCrash(c) ==
  /\ at[c] # "idle" /\ Fault
  /\ Done(c)
  /\ UNCHANGED <<person, profile, status, base, msgVars, busy, retries, brokerErrors>>

WorkerCrash(w) ==
  /\ busy[w] # NoRun /\ Fault
  /\ busy' = [busy EXCEPT ![w] = NoRun]
  /\ UNCHANGED <<person, profile, status, base, msgVars, callerVars, retries, brokerErrors>>

\* A message is lost, or delivered once more.
DisturbExec(r) ==
  /\ execMsgs[r] > 0 /\ Fault
  /\ \E n \in {execMsgs[r] - 1, execMsgs[r] + 1} : execMsgs' = [execMsgs EXCEPT ![r] = n]
  /\ UNCHANGED <<person, profile, status, base, deferMsgs, callerVars, busy,
                 retries, brokerErrors>>

DisturbDefer(r, a) ==
  /\ deferMsgs[r][a] > 0 /\ Fault
  /\ \E n \in {deferMsgs[r][a] - 1, deferMsgs[r][a] + 1} :
       deferMsgs' = [deferMsgs EXCEPT ![r][a] = n]
  /\ UNCHANGED <<person, profile, status, base, execMsgs, callerVars, busy,
                 retries, brokerErrors>>

-----------------------------------------------------------------------------
(* Specification *)

CallerStep(c) ==
  \/ \E r \in Runs : \/ CreateManual(c, r) \/ CreateAuto(c, r) \/ RetryPeek(c, r)
                     \/ Confirm(c, r) \/ ConfirmAgain(c, r)
  \/ \E r \in Runs, a \in 1..MaxAttempts : PromotePeek(c, r, a)
  \/ Publish(c) \/ PublishFails(c) \/ FailUnpublished(c) \/ FailUnscheduled(c)
  \/ Promote(c) \/ Retry(c) \/ Sweep(c) \/ CallerCrash(c)

WorkerStep(w) ==
  (\E r \in Runs : Claim(w, r)) \/ Persist(w) \/ FailRun(w) \/ WorkerCrash(w)

RunStep(r) ==
  Cancel(r) \/ DisturbExec(r) \/ \E a \in 1..MaxAttempts : DisturbDefer(r, a)

PersonStep == EditProfile \/ DeletePerson \/ RestorePerson

Next ==
  \/ \E c \in Callers : CallerStep(c)
  \/ \E w \in Workers : WorkerStep(w)
  \/ \E r \in Runs : RunStep(r)
  \/ PersonStep

SafetySpec == Init /\ [][Next]_vars

\* A request that was started finishes, a scheduled message is delivered, and
\* workers take and finish runs; every lock is held for one short transaction.
Fairness ==
  /\ \A c \in Callers :
       /\ WF_vars(Publish(c) \/ PublishFails(c))
       /\ WF_vars(FailUnpublished(c) \/ FailUnscheduled(c))
       /\ WF_vars(Promote(c)) /\ WF_vars(Retry(c)) /\ WF_vars(Sweep(c))
  /\ \A r \in Runs, a \in 1..MaxAttempts : SF_vars(\E c \in Callers : PromotePeek(c, r, a))
  /\ \A r \in Runs : SF_vars(\E w \in Workers : Claim(w, r))
  /\ \A w \in Workers : WF_vars(Persist(w) \/ FailRun(w))

Spec == SafetySpec /\ Fairness

-----------------------------------------------------------------------------
(* Properties *)

\* A person never has two runs queued or executing, although creations,
\* retries and promotions of many sessions race and the re-reads of the run
\* are old: the person lock and the search for blocking rows are enough.
OneExecutableRun ==
  \A r, q \in Runs : status[r] \in Executable /\ status[q] \in Executable => r = q

\* Deleting a person leaves nothing to run, and nothing that was decided
\* before the deletion (a retry, a promotion, a failed publish) brings a run
\* of the deleted person back.
DeletedPersonIsQuiet ==
  person = "DELETED" => \A r \in Runs : status[r] \notin Active

\* A confirm never overwrites what another confirm or an edit has put into the
\* profile since the analysis: the version it wrote follows directly the one its
\* run was compared with, so the versions in between are none.  The revision a
\* repeated confirm answers with is there, and as a run that is confirmed and
\* then queued again writes no second one, it is the only one of the run.
NoLostConfirm ==
  /\ \A v \in 1..profileVersion :
       revisions[v] # NoRun => v = base[revisions[v]] + 1
  /\ \A r \in Runs : status[r] = "CONFIRMED" =>
       \E v \in 1..profileVersion : revisions[v] = r

\* Work on a cancelled run is thrown away: however long its execution, its
\* messages or a promotion outlive the cancellation, it is not started, gets no
\* reviewable result and is not confirmed, unless it is queued anew.
CancelledRunsYieldNothing ==
  [][\A r \in Runs : status[r] = "CANCELLED"
                       => status'[r] \notin {"PROCESSING", "REVIEWING", "CONFIRMED"}]_vars

\* Only a failed analysis is retried, as the API says: a reviewed, confirmed or
\* cancelled run never goes back to the queue.
OnlyFailedRunsAreRetried ==
  [][\A r \in Runs : status[r] \in {"REVIEWING", "CONFIRMED", "CANCELLED"}
                       => status'[r] # "QUEUED"]_vars

\* As long as nothing crashes and no message is lost, a waiting, queued or executing
\* run comes to an end, even when publishing fails: a deferred run is promoted
\* or given up after its last attempt.
ActiveRunsSettle ==
  \A r \in Runs : status[r] \in Active ~> status[r] \notin Active \/ faults > 0

=============================================================================
