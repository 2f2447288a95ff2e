------------------------- MODULE AnalysisRunsProofs -------------------------
(***************************************************************************)
(* Proofs about AnalysisRuns, for any number of runs, callers, workers,    *)
(* attempts, versions and faults: one executable run at a time, none for a *)
(* deleted person, confirms that follow directly the version they were     *)
(* compared with, and no result for a cancelled run.                       *)
(***************************************************************************)
EXTENDS AnalysisRuns, TLAPS

(* A caller that is not idle is about some run. *)
CallersHaveRuns == \A c \in Callers : at[c] # "idle" => on[c] \in Runs

(* The versions to come have no revision, and a run that a revision names has *)
(* been created: its base is settled.                                         *)
RevisionsAreOld ==
  \A v \in 1..MaxVersion : revisions[v] # NoRun =>
    v <= profileVersion /\ status[revisions[v]] # "ABSENT"

Inv ==
  /\ TypeOK
  /\ CallersHaveRuns
  /\ OneExecutableRun
  /\ DeletedPersonIsQuiet
  /\ NoLostConfirm
  /\ RevisionsAreOld

-----------------------------------------------------------------------------

(* The initial state satisfies the invariant. *)
LEMMA InitInv == Init => Inv
<1> SUFFICES ASSUME Init PROVE Inv
  OBVIOUS
<1> USE RunsAssumption DEF RunsAssumption, Init
<1>1. TypeOK
  BY DEF TypeOK, Statuses, Active, Executable, CallerStates, profile, msgVars, callerVars,
     bounds
<1>2. /\ CallersHaveRuns /\ OneExecutableRun /\ DeletedPersonIsQuiet
      /\ NoLostConfirm /\ RevisionsAreOld
  BY DEF CallersHaveRuns, OneExecutableRun, DeletedPersonIsQuiet, NoLostConfirm,
     RevisionsAreOld, Active, Executable
<1> QED
  BY <1>1, <1>2 DEF Inv

(* The callers' share of the type invariant, and the rest of it. *)
CallerTypes ==
  /\ at         \in [Callers -> CallerStates]
  /\ on         \in [Callers -> Runs \cup {NoRun}]
  /\ attempt    \in [Callers -> 1..MaxAttempts]
  /\ sawVersion \in [Callers -> 0..MaxVersion]
  /\ CallersHaveRuns

OtherTypes ==
  /\ person \in {"ACTIVE", "DELETED"}
  /\ profileVersion \in 1..MaxVersion
  /\ status    \in [Runs -> Statuses]
  /\ base      \in [Runs -> 0..MaxVersion]
  /\ revisions \in [1..MaxVersion -> Runs \cup {NoRun}]
  /\ execMsgs  \in [Runs -> Nat]
  /\ deferMsgs \in [Runs -> [1..MaxAttempts -> Nat]]
  /\ busy      \in [Workers -> Runs \cup {NoRun}]
  /\ retries \in 0..MaxRetries /\ brokerErrors \in 0..MaxBrokerErrors
  /\ faults \in 0..MaxFaults

(* The types of the callers and those of everything else. *)
LEMMA TypesSplit == TypeOK /\ CallersHaveRuns <=> CallerTypes /\ OtherTypes
  BY DEF TypeOK, CallerTypes, OtherTypes

(* A caller that moves to a place with a run keeps the callers' types. *)
LEMMA GoTypes ==
  ASSUME CallerTypes, NEW c \in Callers, NEW place \in CallerStates, NEW r \in Runs,
         NEW a \in 1..MaxAttempts, NEW v \in 0..MaxVersion, Go(c, place, r, a, v)
  PROVE  CallerTypes'
  BY DEF CallerTypes, CallersHaveRuns, Go

(* So does one that finishes. *)
LEMMA DoneTypes ==
  ASSUME CallerTypes, NEW c \in Callers, Done(c)
  PROVE  CallerTypes'
<1>1. 1 \in 1..MaxAttempts /\ 0 \in 0..MaxVersion /\ "idle" \in CallerStates
  BY RunsAssumption DEF RunsAssumption, CallerStates
<1> QED
  BY <1>1 DEF CallerTypes, CallersHaveRuns, Done, Go

(* And one that stays where it is. *)
LEMMA StayTypes ==
  ASSUME CallerTypes, UNCHANGED callerVars
  PROVE  CallerTypes'
  BY DEF CallerTypes, CallersHaveRuns, callerVars

(* A run takes a status. *)
LEMMA SetStatusTypes ==
  ASSUME status \in [Runs -> Statuses], NEW r \in Runs, NEW st \in Statuses, SetStatus(r, st)
  PROVE  status' \in [Runs -> Statuses]
  BY DEF SetStatus

(* Steps of a caller keep the types of the callers. *)
LEMMA CallerStepCallerTypes ==
  ASSUME Inv, NEW c \in Callers, CallerStep(c)
  PROVE  CallerTypes'
<1>1. CallerTypes /\ OtherTypes
  BY TypesSplit DEF Inv
<1>2. 1 \in 1..MaxAttempts /\ 0 \in 0..MaxVersion
  BY RunsAssumption DEF RunsAssumption
<1>3. at[c] # "idle" => on[c] \in Runs
  BY DEF Inv, CallersHaveRuns
<1>4. {"enqueue", "enqueueFailed", "schedule", "scheduleFailed", "reschedule",
       "rescheduleFailed", "retry", "promote", "sweep"} \subseteq CallerStates
  BY DEF CallerStates
<1>5. ASSUME NEW r \in Runs, CreateManual(c, r)
      PROVE  CallerTypes'
  BY <1>1, <1>2, <1>4, <1>5, GoTypes DEF CreateManual
<1>6. ASSUME NEW r \in Runs, CreateAuto(c, r)
      PROVE  CallerTypes'
  BY <1>1, <1>2, <1>4, <1>6, GoTypes DEF CreateAuto
<1>7. ASSUME NEW r \in Runs, Confirm(c, r)
      PROVE  CallerTypes'
  <2>1. profileVersion + 1 \in 0..MaxVersion
    BY <1>1, <1>7, RunsAssumption DEF Confirm, NextVersion, OtherTypes, RunsAssumption
  <2> QED
    BY <1>1, <1>2, <1>4, <1>7, <2>1, GoTypes DEF Confirm
<1>8. ASSUME NEW r \in Runs, ConfirmAgain(c, r)
      PROVE  CallerTypes'
  <2>1. PICK v \in 1..profileVersion : Go(c, "sweep", r, 1, v)
    BY <1>8 DEF ConfirmAgain
  <2>2. v \in 0..MaxVersion
    BY <1>1, RunsAssumption DEF OtherTypes, RunsAssumption
  <2> QED
    BY <1>1, <1>2, <1>4, <2>1, <2>2, GoTypes
<1>9. ASSUME NEW r \in Runs, RetryPeek(c, r)
      PROVE  CallerTypes'
  BY <1>1, <1>2, <1>4, <1>9, GoTypes DEF RetryPeek
<1>10. ASSUME NEW r \in Runs, NEW a \in 1..MaxAttempts, PromotePeek(c, r, a)
       PROVE  CallerTypes'
  BY <1>1, <1>2, <1>4, <1>10, GoTypes, StayTypes DEF PromotePeek
<1>11. CASE Publish(c) \/ FailUnpublished(c) \/ FailUnscheduled(c) \/ Sweep(c) \/ CallerCrash(c)
  BY <1>1, <1>11, DoneTypes DEF Publish, FailUnpublished, FailUnscheduled, Sweep, CallerCrash
<1>12. CASE PublishFails(c)
  <2>1. on[c] \in Runs
    BY <1>3, <1>12 DEF PublishFails
  <2> QED
    BY <1>1, <1>2, <1>4, <1>12, <2>1, GoTypes DEF PublishFails
<1>13. CASE Promote(c)
  <2>1. on[c] \in Runs
    BY <1>3, <1>13 DEF Promote
  <2>2. attempt[c] < MaxAttempts => attempt[c] + 1 \in 1..MaxAttempts
    BY <1>1, RunsAssumption DEF CallerTypes, RunsAssumption
  <2> QED
    BY <1>1, <1>2, <1>4, <1>13, <2>1, <2>2, GoTypes, DoneTypes DEF Promote
<1>14. CASE Retry(c)
  <2>1. on[c] \in Runs
    BY <1>3, <1>14 DEF Retry
  <2> QED
    BY <1>1, <1>2, <1>4, <1>14, <2>1, GoTypes, DoneTypes DEF Retry
<1> QED
  BY <1>5, <1>6, <1>7, <1>8, <1>9, <1>10, <1>11, <1>12, <1>13, <1>14 DEF CallerStep

-----------------------------------------------------------------------------

(* One message count changes. *)
LEMMA ExecTypes ==
  ASSUME execMsgs \in [Runs -> Nat], NEW r \in Runs, NEW n \in Nat,
         execMsgs' = [execMsgs EXCEPT ![r] = n]
  PROVE  execMsgs' \in [Runs -> Nat]
  OBVIOUS

(* One count of scheduled messages changes. *)
LEMMA DeferTypes ==
  ASSUME deferMsgs \in [Runs -> [1..MaxAttempts -> Nat]],
         NEW r \in Runs, NEW a \in 1..MaxAttempts, NEW n \in Nat,
         deferMsgs' = [deferMsgs EXCEPT ![r][a] = n]
  PROVE  deferMsgs' \in [Runs -> [1..MaxAttempts -> Nat]]
<1>1. deferMsgs[r] \in [1..MaxAttempts -> Nat]
  OBVIOUS
<1>2. [deferMsgs[r] EXCEPT ![a] = n] \in [1..MaxAttempts -> Nat]
  BY <1>1
<1>3. deferMsgs' = [deferMsgs EXCEPT ![r] = [deferMsgs[r] EXCEPT ![a] = n]]
  OBVIOUS
<1> QED
  BY <1>2, <1>3

(* Steps of a caller keep the types of everything else. *)
LEMMA CallerStepOtherTypes ==
  ASSUME Inv, NEW c \in Callers, CallerStep(c)
  PROVE  OtherTypes'
<1>1. CallerTypes /\ OtherTypes
  BY TypesSplit DEF Inv
<1>2. at[c] # "idle" => on[c] \in Runs /\ attempt[c] \in 1..MaxAttempts
  BY <1>1 DEF CallerTypes, CallersHaveRuns
<1>3. {"QUEUED", "DEFERRED", "FAILED", "CONFIRMED", "CANCELLED"} \subseteq Statuses
  BY DEF Statuses, Active, Executable
<1>4. profileVersion \in 0..MaxVersion
  BY <1>1, RunsAssumption DEF OtherTypes, RunsAssumption
<1> USE DEF profile, msgVars, callerVars, bounds
<1>5. ASSUME NEW r \in Runs, CreateManual(c, r) \/ CreateAuto(c, r)
      PROVE  OtherTypes'
  <2>1. status' \in [Runs -> Statuses]
    BY <1>1, <1>3, <1>5, SetStatusTypes DEF OtherTypes, CreateManual, CreateAuto, Create
  <2>2. base' \in [Runs -> 0..MaxVersion]
    BY <1>1, <1>4, <1>5 DEF OtherTypes, CreateManual, CreateAuto, Create
  <2> QED
    BY <1>1, <1>5, <2>1, <2>2 DEF OtherTypes, CreateManual, CreateAuto
<1>6. ASSUME NEW r \in Runs, Confirm(c, r)
      PROVE  OtherTypes'
  <2>1. status' \in [Runs -> Statuses]
    BY <1>1, <1>3, <1>6, SetStatusTypes DEF OtherTypes, Confirm
  <2>2. /\ profileVersion' \in 1..MaxVersion
        /\ revisions' \in [1..MaxVersion -> Runs \cup {NoRun}]
    BY <1>1, <1>6, RunsAssumption DEF OtherTypes, Confirm, NextVersion, RunsAssumption
  <2> QED
    BY <1>1, <1>6, <2>1, <2>2 DEF OtherTypes, Confirm
<1>7. ASSUME NEW r \in Runs, ConfirmAgain(c, r)
      PROVE  OtherTypes'
  BY <1>1, <1>7 DEF OtherTypes, ConfirmAgain
<1>8. ASSUME NEW r \in Runs, RetryPeek(c, r)
      PROVE  OtherTypes'
  BY <1>1, <1>8, RunsAssumption DEF OtherTypes, RetryPeek, RunsAssumption
<1>9. ASSUME NEW r \in Runs, NEW a \in 1..MaxAttempts, PromotePeek(c, r, a)
      PROVE  OtherTypes'
  <2>1. deferMsgs' \in [Runs -> [1..MaxAttempts -> Nat]]
    <3>1. deferMsgs[r][a] \in Nat /\ deferMsgs[r][a] > 0
      BY <1>1, <1>9 DEF OtherTypes, PromotePeek
    <3>2. deferMsgs[r][a] - 1 \in Nat
      BY <3>1
    <3> QED
      BY <1>1, <1>9, <3>2, DeferTypes DEF OtherTypes, PromotePeek
  <2> QED
    BY <1>1, <1>9, <2>1 DEF OtherTypes, PromotePeek
<1>10. CASE Publish(c)
  <2>1. /\ on[c] \in Runs /\ execMsgs[on[c]] + 1 \in Nat
        /\ attempt[c] \in 1..MaxAttempts /\ deferMsgs[on[c]][attempt[c]] + 1 \in Nat
    <3>1. on[c] \in Runs /\ attempt[c] \in 1..MaxAttempts
      BY <1>2, <1>10 DEF Publish
    <3>2. execMsgs[on[c]] \in Nat /\ deferMsgs[on[c]] \in [1..MaxAttempts -> Nat]
      BY <1>1, <3>1 DEF OtherTypes
    <3>3. deferMsgs[on[c]][attempt[c]] \in Nat
      BY <3>1, <3>2
    <3> QED
      BY <3>1, <3>2, <3>3
  <2>3. /\ execMsgs' \in [Runs -> Nat]
        /\ deferMsgs' \in [Runs -> [1..MaxAttempts -> Nat]]
    BY <1>1, <1>10, <2>1, ExecTypes, DeferTypes DEF OtherTypes, Publish
  <2> QED
    BY <1>1, <1>10, <2>3 DEF OtherTypes, Publish
<1>11. CASE PublishFails(c)
  <2>1. /\ on[c] \in Runs /\ execMsgs[on[c]] + 1 \in Nat
        /\ attempt[c] \in 1..MaxAttempts /\ deferMsgs[on[c]][attempt[c]] + 1 \in Nat
    <3>1. on[c] \in Runs /\ attempt[c] \in 1..MaxAttempts
      BY <1>2, <1>11 DEF PublishFails
    <3>2. execMsgs[on[c]] \in Nat /\ deferMsgs[on[c]] \in [1..MaxAttempts -> Nat]
      BY <1>1, <3>1 DEF OtherTypes
    <3>3. deferMsgs[on[c]][attempt[c]] \in Nat
      BY <3>1, <3>2
    <3> QED
      BY <3>1, <3>2, <3>3
  <2>3. /\ execMsgs' \in [Runs -> Nat]
        /\ deferMsgs' \in [Runs -> [1..MaxAttempts -> Nat]]
    BY <1>1, <1>11, <2>1, ExecTypes, DeferTypes DEF OtherTypes, PublishFails
  <2>2. brokerErrors' \in 0..MaxBrokerErrors
    BY <1>1, <1>11, RunsAssumption DEF OtherTypes, PublishFails, BrokerError, RunsAssumption
  <2> QED
    BY <1>1, <1>11, <2>2, <2>3 DEF OtherTypes, PublishFails
<1>12. CASE FailUnpublished(c) \/ FailUnscheduled(c)
  <2>1. status' \in [Runs -> Statuses]
    BY <1>1, <1>2, <1>3, <1>12, SetStatusTypes DEF OtherTypes, FailUnpublished, FailUnscheduled
  <2> QED
    BY <1>1, <1>12, <2>1 DEF OtherTypes, FailUnpublished, FailUnscheduled
<1>13. CASE Promote(c)
  <2>1. status' \in [Runs -> Statuses]
    BY <1>1, <1>2, <1>3, <1>13, SetStatusTypes DEF OtherTypes, Promote
  <2> QED
    BY <1>1, <1>13, <2>1 DEF OtherTypes, Promote
<1>14. CASE Retry(c)
  <2>1. status' \in [Runs -> Statuses]
    BY <1>1, <1>2, <1>3, <1>14, SetStatusTypes DEF OtherTypes, Retry
  <2> QED
    BY <1>1, <1>14, <2>1 DEF OtherTypes, Retry
<1>15. CASE Sweep(c)
  <2>1. status' \in [Runs -> Statuses]
    BY <1>1, <1>3, <1>15 DEF OtherTypes, Sweep
  <2> QED
    BY <1>1, <1>15, <2>1 DEF OtherTypes, Sweep
<1>16. CASE CallerCrash(c)
  BY <1>1, <1>16, RunsAssumption DEF OtherTypes, CallerCrash, Fault, RunsAssumption
<1> QED
  BY <1>5, <1>6, <1>7, <1>8, <1>9, <1>10, <1>11, <1>12, <1>13, <1>14, <1>15, <1>16
  DEF CallerStep

(* Steps of the workers, of runs and of the person keep all types. *)
LEMMA WorkerStepTypes ==
  ASSUME Inv, NEW w \in Workers, WorkerStep(w)
  PROVE  CallerTypes' /\ OtherTypes'
<1>1. CallerTypes /\ OtherTypes
  BY TypesSplit DEF Inv
<1>2. busy[w] # NoRun => busy[w] \in Runs
  BY <1>1 DEF OtherTypes
<1>3. {"PROCESSING", "REVIEWING", "FAILED"} \subseteq Statuses
  BY DEF Statuses, Active, Executable
<1>4. CallerTypes'
  BY <1>1, StayTypes DEF WorkerStep, Claim, Persist, FailRun, WorkerCrash
<1> USE DEF profile, msgVars, callerVars, bounds
<1>5. ASSUME NEW r \in Runs, Claim(w, r)
      PROVE  OtherTypes'
  <2>1. status' \in [Runs -> Statuses]
    BY <1>1, <1>3, <1>5, SetStatusTypes DEF OtherTypes, Claim
  <2>2. execMsgs' \in [Runs -> Nat] /\ busy' \in [Workers -> Runs \cup {NoRun}]
    <3>1. execMsgs[r] \in Nat /\ execMsgs[r] > 0
      BY <1>1, <1>5 DEF OtherTypes, Claim
    <3>2. execMsgs[r] - 1 \in Nat
      BY <3>1
    <3>3. execMsgs' \in [Runs -> Nat]
      BY <1>1, <1>5, <3>2, ExecTypes DEF OtherTypes, Claim
    <3>4. busy' \in [Workers -> Runs \cup {NoRun}]
      BY <1>1, <1>5 DEF OtherTypes, Claim
    <3> QED
      BY <3>3, <3>4
  <2> QED
    BY <1>1, <1>5, <2>1, <2>2 DEF OtherTypes, Claim
<1>6. CASE Persist(w) \/ FailRun(w)
  <2>1. status' \in [Runs -> Statuses]
    BY <1>1, <1>2, <1>3, <1>6, SetStatusTypes DEF OtherTypes, Persist, FailRun
  <2>2. busy' \in [Workers -> Runs \cup {NoRun}]
    BY <1>1, <1>6 DEF OtherTypes, Persist, FailRun
  <2> QED
    BY <1>1, <1>4, <1>6, <2>1, <2>2 DEF OtherTypes, Persist, FailRun
<1>7. CASE WorkerCrash(w)
  <2>1. busy' \in [Workers -> Runs \cup {NoRun}]
    BY <1>1, <1>7 DEF OtherTypes, WorkerCrash
  <2>2. faults' \in 0..MaxFaults
    BY <1>1, <1>7, RunsAssumption DEF OtherTypes, WorkerCrash, Fault, RunsAssumption
  <2> QED
    BY <1>1, <1>4, <1>7, <2>1, <2>2 DEF OtherTypes, WorkerCrash
<1> QED
  BY <1>4, <1>5, <1>6, <1>7 DEF WorkerStep

(* Cancellations and faults of the broker keep all types. *)
LEMMA RunStepTypes ==
  ASSUME Inv, NEW r \in Runs, RunStep(r)
  PROVE  CallerTypes' /\ OtherTypes'
<1>1. CallerTypes /\ OtherTypes
  BY TypesSplit DEF Inv
<1>2. CallerTypes'
  BY <1>1, StayTypes DEF RunStep, Cancel, DisturbExec, DisturbDefer
<1> USE DEF profile, msgVars, callerVars, bounds
<1>3. CASE Cancel(r)
  <2>1. status' \in [Runs -> Statuses]
    BY <1>1, <1>3, SetStatusTypes DEF OtherTypes, Cancel, Statuses
  <2> QED
    BY <1>1, <1>2, <1>3, <2>1 DEF OtherTypes, Cancel
<1>4. CASE DisturbExec(r)
  <2>1. execMsgs' \in [Runs -> Nat]
    BY <1>1, <1>4 DEF OtherTypes, DisturbExec
  <2>2. faults' \in 0..MaxFaults
    BY <1>1, <1>4, RunsAssumption DEF OtherTypes, DisturbExec, Fault, RunsAssumption
  <2> QED
    BY <1>1, <1>2, <1>4, <2>1, <2>2 DEF OtherTypes, DisturbExec
<1>5. ASSUME NEW a \in 1..MaxAttempts, DisturbDefer(r, a)
      PROVE  OtherTypes'
  <2>1. deferMsgs' \in [Runs -> [1..MaxAttempts -> Nat]]
    <3>1. deferMsgs[r][a] \in Nat /\ deferMsgs[r][a] > 0
      BY <1>1, <1>5 DEF OtherTypes, DisturbDefer
    <3>2. {deferMsgs[r][a] - 1, deferMsgs[r][a] + 1} \subseteq Nat
      BY <3>1
    <3> QED
      BY <1>1, <1>5, <3>2, DeferTypes DEF OtherTypes, DisturbDefer
  <2>2. faults' \in 0..MaxFaults
    BY <1>1, <1>5, RunsAssumption DEF OtherTypes, DisturbDefer, Fault, RunsAssumption
  <2> QED
    BY <1>1, <1>5, <2>1, <2>2 DEF OtherTypes, DisturbDefer
<1> QED
  BY <1>2, <1>3, <1>4, <1>5 DEF RunStep

(* So do the steps of the person. *)
LEMMA PersonStepTypes ==
  ASSUME Inv, PersonStep
  PROVE  CallerTypes' /\ OtherTypes'
<1>1. CallerTypes /\ OtherTypes
  BY TypesSplit DEF Inv
<1>2. CallerTypes'
  BY <1>1, StayTypes DEF PersonStep, EditProfile, DeletePerson, RestorePerson
<1> USE DEF profile, msgVars, callerVars, bounds
<1>3. CASE EditProfile
  <2>1. /\ profileVersion' \in 1..MaxVersion
        /\ revisions' \in [1..MaxVersion -> Runs \cup {NoRun}]
    BY <1>1, <1>3, RunsAssumption DEF OtherTypes, EditProfile, NextVersion, RunsAssumption
  <2> QED
    BY <1>1, <1>2, <1>3, <2>1 DEF OtherTypes, EditProfile
<1>4. CASE DeletePerson
  <2>1. status' \in [Runs -> Statuses]
    BY <1>1, <1>4 DEF OtherTypes, DeletePerson, Statuses
  <2> QED
    BY <1>1, <1>2, <1>4, <2>1 DEF OtherTypes, DeletePerson
<1>5. CASE RestorePerson
  BY <1>1, <1>2, <1>5 DEF OtherTypes, RestorePerson
<1> QED
  BY <1>2, <1>3, <1>4, <1>5 DEF PersonStep

-----------------------------------------------------------------------------

(* The three safety properties as one formula over person, the profile,    *)
(* status and base; the lemmas say which changes of a run keep it.         *)
Safety ==
  /\ OneExecutableRun
  /\ DeletedPersonIsQuiet
  /\ NoLostConfirm
  /\ RevisionsAreOld

(* Nothing changes. *)
LEMMA SameIsSafe ==
  ASSUME Safety, UNCHANGED <<person, profile, status, base>>
  PROVE  Safety'
  BY DEF Safety, OneExecutableRun, DeletedPersonIsQuiet, NoLostConfirm, RevisionsAreOld,
     profile

(* The types of a version and of the revisions. *)
RevisionTypes ==
  /\ profileVersion \in 1..MaxVersion
  /\ revisions \in [1..MaxVersion -> Runs \cup {NoRun}]
  /\ status \in [Runs -> Statuses]

(* The revisions stay right when runs change their status, none is confirmed *)
(* and none vanishes.                                                        *)
LEMMA StatusIsSafe ==
  ASSUME Safety, RevisionTypes, UNCHANGED <<profile, base>>,
         \A q \in Runs : status'[q] = "CONFIRMED" => status[q] = "CONFIRMED",
         \A q \in Runs : status'[q] = "ABSENT" => status[q] = "ABSENT"
  PROVE  NoLostConfirm' /\ RevisionsAreOld'
<1>1. NoLostConfirm'
  BY DEF Safety, NoLostConfirm, profile
<1>2. RevisionsAreOld'
  BY DEF Safety, RevisionsAreOld, RevisionTypes, profile
<1> QED
  BY <1>1, <1>2

(* The next version is written from a run that was compared with the current *)
(* one, or by hand.                                                          *)
LEMMA NextVersionIsSafe ==
  ASSUME Safety, RevisionTypes, base \in [Runs -> 0..MaxVersion],
         NEW r \in Runs \cup {NoRun}, NextVersion(r), UNCHANGED base,
         r # NoRun => base[r] = profileVersion /\ status'[r] # "ABSENT",
         \A q \in Runs : status'[q] = "CONFIRMED" => status[q] = "CONFIRMED" \/ q = r,
         \A q \in Runs : status'[q] = "ABSENT" => status[q] = "ABSENT"
  PROVE  NoLostConfirm' /\ RevisionsAreOld'
<1> DEFINE n == profileVersion + 1
<1>1. /\ profileVersion \in Nat /\ MaxVersion \in Nat /\ n \in 1..MaxVersion
      /\ profileVersion' = n /\ NoRun \notin Runs
  BY RunsAssumption DEF RevisionTypes, NextVersion, RunsAssumption, Runs, NoRun
<1>2. /\ revisions'[n] = r
      /\ \A v \in 1..MaxVersion : v # n => revisions'[v] = revisions[v]
  BY <1>1 DEF RevisionTypes, NextVersion
<1>3. ASSUME NEW v \in 1..n, revisions'[v] # NoRun
      PROVE  v = base[revisions'[v]] + 1
  <2>1. CASE v = n
    BY <1>2, <1>3, <2>1
  <2>2. CASE v # n
    <3>1. v \in 1..profileVersion /\ v \in 1..MaxVersion
      BY <1>1, <2>2
    <3> QED
      BY <1>2, <1>3, <2>2, <3>1 DEF Safety, NoLostConfirm
  <2> QED
    BY <2>1, <2>2
<1>4. ASSUME NEW q \in Runs, status'[q] = "CONFIRMED"
      PROVE  \E v \in 1..n : revisions'[v] = q
  <2>1. CASE q = r
    <3>1. n \in 1..n
      BY <1>1
    <3> QED
      BY <1>2, <2>1, <3>1
  <2>2. CASE q # r
    <3>1. PICK v \in 1..profileVersion : revisions[v] = q
      BY <1>4, <2>2 DEF Safety, NoLostConfirm
    <3>2. v \in 1..n /\ v \in 1..MaxVersion /\ v # n
      BY <1>1
    <3> QED
      BY <1>2, <3>1, <3>2
  <2> QED
    BY <2>1, <2>2
<1>5. NoLostConfirm'
  BY <1>1, <1>3, <1>4 DEF NoLostConfirm
<1>6. ASSUME NEW v \in 1..MaxVersion, revisions'[v] # NoRun
      PROVE  v <= n /\ status'[revisions'[v]] # "ABSENT"
  <2>1. CASE v = n
    BY <1>1, <1>2, <1>6, <2>1
  <2>2. CASE v # n
    <3>1. revisions[v] \in Runs /\ v <= profileVersion /\ status[revisions[v]] # "ABSENT"
      BY <1>2, <1>6, <2>2 DEF Safety, RevisionsAreOld, RevisionTypes
    <3> QED
      BY <1>1, <1>2, <2>2, <3>1
  <2> QED
    BY <2>1, <2>2
<1>7. RevisionsAreOld'
  BY <1>1, <1>6 DEF RevisionsAreOld
<1> QED
  BY <1>5, <1>7

(* A run leaves the queue without being confirmed. *)
LEMMA EndedIsSafe ==
  ASSUME Safety, RevisionTypes, NEW r \in Runs,
         NEW st \in {"REVIEWING", "FAILED", "CANCELLED"}, SetStatus(r, st),
         UNCHANGED <<person, profile, base>>
  PROVE  Safety'
<1>1. OneExecutableRun'
  BY DEF RevisionTypes, Safety, OneExecutableRun, SetStatus, Executable
<1>2. DeletedPersonIsQuiet'
  BY DEF RevisionTypes, Safety, DeletedPersonIsQuiet, SetStatus, Executable, Active
<1>3. NoLostConfirm' /\ RevisionsAreOld'
  BY StatusIsSafe DEF RevisionTypes, SetStatus
<1> QED
  BY <1>1, <1>2, <1>3 DEF Safety

(* Any set of runs is cancelled. *)
LEMMA CancelledIsSafe ==
  ASSUME Safety, RevisionTypes, NEW R \in SUBSET Runs, \A r \in R : status[r] # "ABSENT",
         status' = [r \in Runs |-> IF r \in R THEN "CANCELLED" ELSE status[r]],
         UNCHANGED <<person, profile, base>>
  PROVE  Safety'
<1>1. OneExecutableRun'
  BY DEF Safety, OneExecutableRun, Executable
<1>2. DeletedPersonIsQuiet'
  BY DEF Safety, DeletedPersonIsQuiet, Executable, Active
<1>3. NoLostConfirm' /\ RevisionsAreOld'
  <2>1. \A r \in R : status[r] # "ABSENT"
    OBVIOUS
  <2> QED
    BY <2>1, StatusIsSafe DEF RevisionTypes
<1> QED
  BY <1>1, <1>2, <1>3 DEF Safety

(* As at most one run is executable, the oldest one is the only one: when *)
(* no run of a set is the oldest, none of the set is executable.          *)
LEMMA NoneIsOldest ==
  ASSUME OneExecutableRun, NEW R \in SUBSET Runs, ~\E q \in R : OldestExecutable(q)
  PROVE  \A q \in R : status[q] \notin Executable
<1> SUFFICES ASSUME NEW q \in R, status[q] \in Executable PROVE FALSE
  OBVIOUS
<1>1. q \in Runs /\ q <= q
  BY RunsAssumption DEF Runs, RunsAssumption
<1>2. \A r \in Runs : status[r] \in Executable => r = q
  BY <1>1 DEF OneExecutableRun
<1>3. OldestExecutable(q)
  BY <1>1, <1>2 DEF OldestExecutable
<1> QED
  BY <1>3

(* A run of an active person is queued while no other one executes. *)
LEMMA QueuedIsSafe ==
  ASSUME Safety, RevisionTypes, person = "ACTIVE", NEW r \in Runs,
         \A q \in Runs \ {r} : status[q] \notin Executable,
         SetStatus(r, "QUEUED"), UNCHANGED <<person, profile, base>>
  PROVE  Safety'
<1>1. OneExecutableRun'
  BY DEF RevisionTypes, Safety, OneExecutableRun, SetStatus, Executable
<1>2. DeletedPersonIsQuiet'
  BY DEF DeletedPersonIsQuiet
<1>3. NoLostConfirm' /\ RevisionsAreOld'
  BY StatusIsSafe DEF RevisionTypes, SetStatus
<1> QED
  BY <1>1, <1>2, <1>3 DEF Safety

(* A run is created: deferred, or queued while none executes. *)
LEMMA CreatedIsSafe ==
  ASSUME Safety, RevisionTypes, base \in [Runs -> 0..MaxVersion],
         person = "ACTIVE", NEW r \in Runs,
         NEW st \in {"QUEUED", "DEFERRED"},
         st = "QUEUED" => \A q \in Runs : status[q] \notin Executable,
         Create(r, st), UNCHANGED <<person, profile>>
  PROVE  Safety'
<1>1. OneExecutableRun'
  BY DEF RevisionTypes, Safety, OneExecutableRun, Create, SetStatus, Executable
<1>2. DeletedPersonIsQuiet'
  BY DEF DeletedPersonIsQuiet
<1>3. NoLostConfirm' /\ RevisionsAreOld'
  <2>1. status[r] = "ABSENT" /\ revisions' = revisions /\ profileVersion' = profileVersion
    BY DEF Create, IsNext, profile
  <2>2. \A q \in Runs : q # r => base'[q] = base[q] /\ status'[q] = status[q]
    BY DEF Create, SetStatus, RevisionTypes
  <2>3. status'[r] # "ABSENT" /\ status'[r] # "CONFIRMED"
    BY DEF Create, SetStatus, RevisionTypes
  <2>4. \A v \in 1..MaxVersion : revisions[v] # NoRun =>
          revisions[v] \in Runs /\ revisions[v] # r /\ v <= profileVersion
    BY <2>1 DEF Safety, RevisionsAreOld, RevisionTypes
  <2>5. 1..profileVersion \subseteq 1..MaxVersion
    BY RunsAssumption DEF RevisionTypes, RunsAssumption
  <2>6. NoLostConfirm'
    BY <2>1, <2>2, <2>3, <2>4, <2>5 DEF Safety, NoLostConfirm
  <2>7. RevisionsAreOld'
    BY <2>1, <2>2, <2>4 DEF Safety, RevisionsAreOld
  <2> QED
    BY <2>6, <2>7
<1> QED
  BY <1>1, <1>2, <1>3 DEF Safety

(* A worker claims the queued run. *)
LEMMA ClaimedIsSafe ==
  ASSUME Safety, RevisionTypes, NEW r \in Runs, status[r] = "QUEUED",
         SetStatus(r, "PROCESSING"), UNCHANGED <<person, profile, base>>
  PROVE  Safety'
<1>1. OneExecutableRun'
  BY DEF RevisionTypes, Safety, OneExecutableRun, SetStatus, Executable
<1>2. DeletedPersonIsQuiet'
  BY DEF RevisionTypes, Safety, DeletedPersonIsQuiet, SetStatus, Executable, Active
<1>3. NoLostConfirm' /\ RevisionsAreOld'
  BY StatusIsSafe DEF RevisionTypes, SetStatus
<1> QED
  BY <1>1, <1>2, <1>3 DEF Safety

(* A review of the current profile version of an active person is confirmed. *)
LEMMA ConfirmedIsSafe ==
  ASSUME Safety, RevisionTypes, base \in [Runs -> 0..MaxVersion], person = "ACTIVE",
         NEW r \in Runs, base[r] = profileVersion,
         SetStatus(r, "CONFIRMED"), NextVersion(r), UNCHANGED <<person, base>>
  PROVE  Safety'
<1>1. OneExecutableRun'
  BY DEF RevisionTypes, Safety, OneExecutableRun, SetStatus, Executable
<1>2. DeletedPersonIsQuiet'
  BY DEF DeletedPersonIsQuiet
<1>3. NoLostConfirm' /\ RevisionsAreOld'
  <2>1. \A q \in Runs : status'[q] = IF q = r THEN "CONFIRMED" ELSE status[q]
    BY DEF RevisionTypes, SetStatus
  <2> QED
    BY <2>1, NextVersionIsSafe
<1> QED
  BY <1>1, <1>2, <1>3 DEF Safety

-----------------------------------------------------------------------------

(* Steps of a caller are safe. *)
LEMMA CallerStepSafe ==
  ASSUME Inv, NEW c \in Callers, CallerStep(c)
  PROVE  Safety'
<1>1. /\ Safety /\ RevisionTypes
      /\ status \in [Runs -> Statuses] /\ base \in [Runs -> 0..MaxVersion]
      /\ person \in {"ACTIVE", "DELETED"}
  BY DEF Inv, Safety, TypeOK, RevisionTypes
<1>2. at[c] # "idle" => on[c] \in Runs
  BY DEF Inv, CallersHaveRuns
<1>3. ASSUME NEW r \in Runs, CreateManual(c, r) \/ CreateAuto(c, r)
      PROVE  Safety'
  <2>1. ~SomeActive => \A q \in Runs : status[q] \notin Executable
    BY DEF SomeActive, Active
  <2>2. ~SomeExecutable => \A q \in Runs : status[q] \notin Executable
    BY <1>1, NoneIsOldest DEF Safety, SomeExecutable
  <2> QED
    BY <1>1, <1>3, <2>1, <2>2, CreatedIsSafe DEF CreateManual, CreateAuto
<1>4. ASSUME NEW r \in Runs, Confirm(c, r)
      PROVE  Safety'
  BY <1>1, <1>4, ConfirmedIsSafe DEF Confirm
<1>5. ASSUME NEW r \in Runs, ConfirmAgain(c, r) \/ RetryPeek(c, r)
      PROVE  Safety'
  BY <1>1, <1>5, SameIsSafe DEF ConfirmAgain, RetryPeek
<1>6. ASSUME NEW r \in Runs, NEW a \in 1..MaxAttempts, PromotePeek(c, r, a)
      PROVE  Safety'
  BY <1>1, <1>6, SameIsSafe DEF PromotePeek
<1>7. CASE Publish(c) \/ PublishFails(c) \/ CallerCrash(c)
  BY <1>1, <1>7, SameIsSafe DEF Publish, PublishFails, CallerCrash
<1>8. CASE FailUnpublished(c) \/ FailUnscheduled(c)
  BY <1>1, <1>2, <1>8, SameIsSafe, EndedIsSafe DEF FailUnpublished, FailUnscheduled
<1>9. CASE Promote(c)
  <2>1. on[c] \in Runs
    BY <1>2, <1>9 DEF Promote
  <2>2. CASE status' = status
    BY <1>1, <1>9, <2>2, SameIsSafe DEF Promote
  <2>3. CASE SetStatus(on[c], "FAILED")
    BY <1>1, <1>9, <2>1, <2>3, EndedIsSafe DEF Promote
  <2>4. CASE /\ person = "ACTIVE" /\ SetStatus(on[c], "QUEUED")
             /\ \A q \in Runs \ {on[c]} : status[q] \notin Executable
    BY <1>1, <1>9, <2>1, <2>4, QueuedIsSafe DEF Promote
  <2>5. (~\E q \in Runs \ {on[c]} : OldestExecutable(q))
          => \A q \in Runs \ {on[c]} : status[q] \notin Executable
    BY <1>1, NoneIsOldest DEF Safety
  <2> QED
    BY <1>9, <2>2, <2>3, <2>4, <2>5 DEF Promote
<1>10. CASE Retry(c)
  <2>1. on[c] \in Runs
    BY <1>2, <1>10 DEF Retry
  <2>2. CASE person = "ACTIVE" /\ ~SomeActive
    <3>1. \A q \in Runs \ {on[c]} : status[q] \notin Executable
      BY <2>2 DEF SomeActive, Active
    <3> QED
      BY <1>1, <1>10, <2>1, <2>2, <3>1, QueuedIsSafe DEF Retry
  <2>3. CASE ~(person = "ACTIVE" /\ ~SomeActive)
    BY <1>1, <1>10, <2>3, SameIsSafe DEF Retry
  <2> QED
    BY <2>2, <2>3
<1>11. CASE Sweep(c)
  <2>1. CASE status' = status
    BY <1>1, <1>11, <2>1, SameIsSafe DEF Sweep
  <2>2. CASE status' # status
    <3> DEFINE stale == {r \in Runs : status[r] = "REVIEWING" /\ r # on[c]
                                       /\ base[r] < sawVersion[c]}
    <3>1. status' = [r \in Runs |-> IF r \in stale THEN "CANCELLED" ELSE status[r]]
      BY <1>11, <2>2 DEF Sweep
    <3>2. /\ stale \in SUBSET Runs /\ UNCHANGED <<person, profile, base>>
          /\ \A r \in stale : status[r] # "ABSENT"
      BY <1>11 DEF Sweep
    <3> HIDE DEF stale
    <3> QED
      BY <1>1, <3>1, <3>2, CancelledIsSafe
  <2> QED
    BY <2>1, <2>2
<1> QED
  BY <1>3, <1>4, <1>5, <1>6, <1>7, <1>8, <1>9, <1>10, <1>11 DEF CallerStep

(* So are the steps of the workers, of runs and of the person. *)
LEMMA OtherStepsSafe ==
  ASSUME Inv,
         \/ \E w \in Workers : WorkerStep(w)
         \/ \E r \in Runs : RunStep(r)
         \/ PersonStep
  PROVE  Safety'
<1>1. /\ Safety /\ RevisionTypes /\ status \in [Runs -> Statuses]
      /\ busy \in [Workers -> Runs \cup {NoRun}]
      /\ base \in [Runs -> 0..MaxVersion]
  BY DEF Inv, Safety, TypeOK, RevisionTypes
<1>2. ASSUME NEW w \in Workers, NEW r \in Runs, Claim(w, r)
      PROVE  Safety'
  BY <1>1, <1>2, ClaimedIsSafe, SameIsSafe DEF Claim
<1>3. ASSUME NEW w \in Workers, Persist(w) \/ FailRun(w)
      PROVE  Safety'
  <2>1. busy[w] \in Runs
    BY <1>1, <1>3 DEF Persist, FailRun
  <2> QED
    BY <1>1, <1>3, <2>1, EndedIsSafe, SameIsSafe DEF Persist, FailRun
<1>4. ASSUME NEW w \in Workers, WorkerCrash(w)
      PROVE  Safety'
  BY <1>1, <1>4, SameIsSafe DEF WorkerCrash
<1>5. ASSUME NEW r \in Runs, Cancel(r)
      PROVE  Safety'
  BY <1>1, <1>5, EndedIsSafe DEF Cancel
<1>6. ASSUME NEW r \in Runs, DisturbExec(r) \/ \E a \in 1..MaxAttempts : DisturbDefer(r, a)
      PROVE  Safety'
  BY <1>1, <1>6, SameIsSafe DEF DisturbExec, DisturbDefer
<1>7. CASE EditProfile
  <2>1. (OneExecutableRun /\ DeletedPersonIsQuiet)'
    BY <1>1, <1>7 DEF EditProfile, Safety, OneExecutableRun, DeletedPersonIsQuiet
  <2>2. (NoLostConfirm /\ RevisionsAreOld)'
    BY <1>1, <1>7, NextVersionIsSafe DEF EditProfile
  <2> QED
    BY <2>1, <2>2 DEF Safety
<1>8. CASE DeletePerson
  <2> DEFINE live == {r \in Runs : status[r] \in Active}
  <2>1. status' = [r \in Runs |-> IF r \in live THEN "CANCELLED" ELSE status[r]]
    BY <1>8 DEF DeletePerson
  <2>2. \A r \in Runs : status'[r] \notin Active
    BY <1>1, <2>1 DEF Active, Executable
  <2>3. OneExecutableRun' /\ DeletedPersonIsQuiet'
    BY <2>2 DEF OneExecutableRun, DeletedPersonIsQuiet, Active
  <2>4. (NoLostConfirm /\ RevisionsAreOld)'
    <3>1. UNCHANGED <<profile, base>> /\ \A r \in Runs : status'[r] \in {status[r], "CANCELLED"}
      BY <1>8, <2>1 DEF DeletePerson
    <3> QED
      BY <1>1, <3>1, StatusIsSafe
  <2> QED
    BY <2>3, <2>4 DEF Safety
<1>9. CASE RestorePerson
  <2>1. (OneExecutableRun /\ DeletedPersonIsQuiet)'
    BY <1>1, <1>9 DEF RestorePerson, Safety, OneExecutableRun, DeletedPersonIsQuiet
  <2>2. (NoLostConfirm /\ RevisionsAreOld)'
    BY <1>1, <1>9, StatusIsSafe DEF RestorePerson
  <2> QED
    BY <2>1, <2>2 DEF Safety
<1> QED
  BY <1>2, <1>3, <1>4, <1>5, <1>6, <1>7, <1>8, <1>9 DEF WorkerStep, RunStep, PersonStep

(* The invariant is inductive. *)
LEMMA NextInv == Inv /\ [Next]_vars => Inv'
<1> SUFFICES ASSUME Inv, [Next]_vars PROVE Inv'
  OBVIOUS
<1>1. CASE Next
  <2>1. CallerTypes' /\ OtherTypes'
    BY <1>1, CallerStepCallerTypes, CallerStepOtherTypes, WorkerStepTypes, RunStepTypes,
       PersonStepTypes DEF Next
  <2>2. Safety'
    BY <1>1, CallerStepSafe, OtherStepsSafe DEF Next
  <2>3. TypeOK' /\ CallersHaveRuns'
    BY <2>1 DEF TypeOK, CallerTypes, OtherTypes
  <2> QED
    BY <2>2, <2>3 DEF Inv, Safety
<1>2. CASE UNCHANGED vars
  <2> USE <1>2 DEF Inv, vars, profile, msgVars, callerVars, bounds
  <2>1. TypeOK' /\ CallersHaveRuns'
    BY DEF TypeOK, CallersHaveRuns
  <2>2. /\ OneExecutableRun' /\ DeletedPersonIsQuiet'
        /\ NoLostConfirm' /\ RevisionsAreOld'
    BY DEF OneExecutableRun, DeletedPersonIsQuiet, NoLostConfirm, RevisionsAreOld
  <2> QED
    BY <2>1, <2>2
<1> QED
  BY <1>1, <1>2

(* The invariant holds in every reachable state, whatever is lost, repeated *)
(* or crashes, and however old the status is that a session decides on.     *)
THEOREM Invariance == SafetySpec => []Inv
  BY InitInv, NextInv, PTL DEF SafetySpec

(* Every variable keeps its type. *)
THEOREM TypeCorrect == SafetySpec => []TypeOK
<1>1. Inv => TypeOK
  BY DEF Inv
<1> QED
  BY Invariance, <1>1, PTL

(* The person lock and the search for executing runs keep two runs of a    *)
(* person from being queued or executed at a time.                         *)
THEOREM OneRunAtATime == SafetySpec => []OneExecutableRun
<1>1. Inv => OneExecutableRun
  BY DEF Inv
<1> QED
  BY Invariance, <1>1, PTL

(* A deleted person has no run that waits, is queued or executes. *)
THEOREM DeletionIsFinal == SafetySpec => []DeletedPersonIsQuiet
<1>1. Inv => DeletedPersonIsQuiet
  BY DEF Inv
<1> QED
  BY Invariance, <1>1, PTL

(* No confirm overwrites what the profile got since the analysis was compared *)
(* with it, by another confirm or by hand, and each confirmed run has exactly *)
(* the revision it wrote, even if it is queued again afterwards.              *)
THEOREM ConfirmsAreNotLost == SafetySpec => []NoLostConfirm
<1>1. Inv => NoLostConfirm
  BY DEF Inv
<1> QED
  BY Invariance, <1>1, PTL

(* One step gives a cancelled run no result. *)
LEMMA CancelledStep ==
  ASSUME Inv, [Next]_vars, NEW r \in Runs, status[r] = "CANCELLED"
  PROVE  status'[r] \notin {"PROCESSING", "REVIEWING", "CONFIRMED"}
<1>1. status \in [Runs -> Statuses]
  BY DEF Inv, TypeOK
<1>2. ASSUME NEW c \in Callers, CallerStep(c)
      PROVE  status'[r] \notin {"PROCESSING", "REVIEWING", "CONFIRMED"}
  BY <1>1, <1>2
  DEF CallerStep, CreateManual, CreateAuto, Create, Confirm, ConfirmAgain, RetryPeek,
      PromotePeek, Publish, PublishFails, FailUnpublished, FailUnscheduled, Promote,
      Retry, Sweep, CallerCrash, SetStatus
<1>3. ASSUME NEW w \in Workers, WorkerStep(w)
      PROVE  status'[r] \notin {"PROCESSING", "REVIEWING", "CONFIRMED"}
  BY <1>1, <1>3 DEF WorkerStep, Claim, Persist, FailRun, WorkerCrash, SetStatus
<1>4. ASSUME NEW q \in Runs, RunStep(q)
      PROVE  status'[r] \notin {"PROCESSING", "REVIEWING", "CONFIRMED"}
  BY <1>1, <1>4 DEF RunStep, Cancel, DisturbExec, DisturbDefer, SetStatus
<1>5. CASE PersonStep
  BY <1>1, <1>5 DEF PersonStep, EditProfile, DeletePerson, RestorePerson
<1>6. CASE UNCHANGED vars
  BY <1>6 DEF vars
<1> QED
  BY <1>2, <1>3, <1>4, <1>5, <1>6 DEF Next

(* A cancelled run is never started, persisted or confirmed. *)
THEOREM CancellationHolds == SafetySpec => CancelledRunsYieldNothing
<1>1. Inv /\ [Next]_vars =>
        [\A r \in Runs : status[r] = "CANCELLED"
            => status'[r] \notin {"PROCESSING", "REVIEWING", "CONFIRMED"}]_vars
  BY CancelledStep
<1> QED
  BY Invariance, <1>1, PTL DEF SafetySpec, CancelledRunsYieldNothing

=============================================================================
