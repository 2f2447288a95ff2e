---------------------------- MODULE JobContract ----------------------------
(***************************************************************************)
(* What a search-index job promises to the code that enqueues it, with no  *)
(* queue, worker, lock or message in sight.  A job is submitted, stays     *)
(* open, and is then finished exactly once: its work transaction commits   *)
(* (Succeed), it is refused (Fail) or it is called off (Cancel).  Only a   *)
(* job of Requeueable (the embedding and chunk-sync jobs, whose            *)
(* idempotency key names a content fingerprint) is ever opened again.      *)
(***************************************************************************)
EXTENDS Naturals

CONSTANTS Jobs,          \* the jobs
          Requeueable    \* those that may be opened again once finished

VARIABLES outcome,       \* what the submitter can observe of each job
          effects        \* how many times the work of each job was committed

vars == <<outcome, effects>>

Finished == {"succeeded", "failed", "cancelled"}

Init ==
  /\ outcome = [j \in Jobs |-> "none"]
  /\ effects = [j \in Jobs |-> 0]

Submit(j) ==
  /\ outcome[j] = "none"
  /\ outcome' = [outcome EXCEPT ![j] = "open"]
  /\ UNCHANGED effects

Succeed(j) ==
  /\ outcome[j] = "open"
  /\ outcome' = [outcome EXCEPT ![j] = "succeeded"]
  /\ effects' = [effects EXCEPT ![j] = @ + 1]

Fail(j) ==
  /\ outcome[j] = "open"
  /\ outcome' = [outcome EXCEPT ![j] = "failed"]
  /\ UNCHANGED effects

Cancel(j) ==
  /\ j \in Requeueable
  /\ outcome[j] = "open"
  /\ outcome' = [outcome EXCEPT ![j] = "cancelled"]
  /\ UNCHANGED effects

Resubmit(j) ==
  /\ j \in Requeueable
  /\ outcome[j] \in Finished
  /\ outcome' = [outcome EXCEPT ![j] = "open"]
  /\ UNCHANGED effects

Finish(j) == Succeed(j) \/ Fail(j) \/ Cancel(j)

Next == \E j \in Jobs : Submit(j) \/ Finish(j) \/ Resubmit(j)

SafetySpec == Init /\ [][Next]_vars

\* A submitted job is not forgotten.
Spec == SafetySpec /\ \A j \in Jobs : WF_vars(Finish(j))

=============================================================================
