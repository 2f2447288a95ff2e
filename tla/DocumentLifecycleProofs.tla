------------------------ MODULE DocumentLifecycleProofs ------------------------
(***************************************************************************)
(* What holds of a document group for any number of versions, calls and    *)
(* workers, whatever fails, crashes or is cancelled by the database:       *)
(*   - the preview a document row names is in storage;                     *)
(*   - once all is quiet no version waits for a worker that never comes;   *)
(*   - once all is quiet search shows the effective version;               *)
(*   - the highest version that is not deleted is the latest.              *)
(* The inductive invariants are Inv, and Settling, Searchable and Flags    *)
(* that each rest on Inv.                                                  *)
(***************************************************************************)
EXTENDS DocumentLifecycle, WellFoundedInduction, TLAPS

Statuses == {"ABSENT", "UPLOADED", "PROCESSING", "READY", "FAILED"}
Rows     == [status : Statuses, deleted : BOOLEAN, latest : BOOLEAN,
             text : Texts \cup {NoText}, preview : Keys \cup {0}]
Working  == [at : {"idle", "relock", "extract", "ready", "fail"},
             doc : Docs \cup {NoDoc}, previous : Keys \cup {0},
             new : Keys \cup {0}, text : Texts \cup {NoText}]

\* A worker that extracts holds the row, so that the preview it has read is the one
\* the row names, and the object it has made is another.
AtWork(w) ==
  LET d == worker[w].doc
  IN  worker[w].at \in {"extract", "ready"} =>
        /\ d \in Docs
        /\ docLock[d] = w
        /\ worker[w].previous = docs[d].preview

HasNew(w) ==
  LET d == worker[w].doc
  IN  worker[w].at = "ready" /\ worker[w].new # 0 =>
        <<d, worker[w].new>> \in objects /\ worker[w].new # docs[d].preview

Claimed(w) ==
  /\ worker[w].at # "idle" => worker[w].doc \in Docs /\ docs[worker[w].doc].status # "ABSENT"
  /\ worker[w].at \in {"relock", "extract"} => worker[w].new = 0

Typed ==
  /\ docs \in [Docs -> Rows]
  /\ worker \in [Workers -> Working]
  /\ docLock \in [Docs -> Users \cup Workers \cup {Free}]

Inv ==
  /\ Typed
  /\ \A w \in Workers : AtWork(w) /\ HasNew(w) /\ Claimed(w)
  /\ \A d \in Docs : docs[d].status = "ABSENT" => docs[d].preview = 0
  /\ PreviewsExist

LEMMA Start == Init => Inv
<1> SUFFICES ASSUME Init PROVE Inv
  OBVIOUS
<1> DEFINE first(gone) == [status |-> "READY", deleted |-> gone, latest |-> FALSE,
                           text |-> 1, preview |-> 1]
           other(n, gone, d) == IF d = n /\ ~gone THEN Uploaded ELSE Absent
<1>1. PICK n \in {1, 2}, gone \in BOOLEAN :
        /\ docs = [d \in Docs |-> IF d < n THEN first(gone) ELSE other(n, gone, d)]
        /\ objects = {<<d, 1>> : d \in 1..(n - 1)}
        /\ docLock = [d \in Docs |-> Free] /\ worker = [w \in Workers |-> IdleWorker]
  BY DEF Init
<1>2. 1 \in Keys /\ 1 \in Texts
  BY DocumentAssumption DEF Keys
<1>3. first(gone) \in Rows /\ Uploaded \in Rows /\ Absent \in Rows
  BY <1>2 DEF Rows, Statuses, Uploaded, Absent
<1>4. IdleWorker \in Working
  BY DEF IdleWorker, Working
<1>5. Typed
  BY <1>1, <1>3, <1>4 DEF Typed
<1>6. \A w \in Workers : worker[w].at = "idle"
  BY <1>1 DEF IdleWorker
<1>7. Uploaded.preview = 0 /\ Absent.preview = 0 /\ first(gone).preview = 1
        /\ first(gone).status # "ABSENT"
  BY DEF Uploaded, Absent
<1>8. \A d \in Docs : docs[d].status = "ABSENT" => docs[d].preview = 0
  BY <1>1, <1>7
<1>9. PreviewsExist
  <2> SUFFICES ASSUME NEW d \in Docs, docs[d].preview # 0 PROVE <<d, docs[d].preview>> \in objects
    BY DEF PreviewsExist
  <2>1. d < n /\ docs[d].preview = 1
    BY <1>1, <1>7
  <2>2. d \in 1..(n - 1)
    BY <2>1, DocumentAssumption DEF Docs
  <2> QED BY <1>1, <2>1, <2>2
<1> QED BY <1>5, <1>6, <1>8, <1>9 DEF Inv, AtWork, HasNew, Claimed

-----------------------------------------------------------------------------
(* Steps that no worker takes. *)

Released(u) == [d \in Docs |-> IF docLock[d] = u THEN Free ELSE docLock[d]]

\* No preview, object or extracting worker is touched, and no version vanishes.
Calm ==
  /\ worker' = worker /\ objects' = objects
  /\ docs' \in [Docs -> Rows]
  /\ \A d \in Docs : docs'[d].preview = docs[d].preview
  /\ \A d \in Docs : docs[d].status = "ABSENT" <=> docs'[d].status = "ABSENT"

\* The calls take rows that are free, and give back their own.
KeepsRows ==
  /\ docLock' \in [Docs -> Users \cup Workers \cup {Free}]
  /\ \A d \in Docs : docLock[d] \in Workers => docLock'[d] = docLock[d]

LEMMA CalmStep ==
  ASSUME Inv, Calm, KeepsRows
  PROVE  Inv'
<1>1. Typed'
  BY DEF Inv, Typed, Calm, KeepsRows
<1>2. ASSUME NEW w \in Workers PROVE (AtWork(w) /\ HasNew(w) /\ Claimed(w))'
  <2>1. AtWork(w) /\ HasNew(w) /\ Claimed(w)
    BY DEF Inv
  <2> USE DEF Calm
  <2>2. AtWork(w)'
    BY <2>1 DEF AtWork, KeepsRows
  <2>3. HasNew(w)'
    BY <2>1 DEF HasNew, Claimed
  <2>4. Claimed(w)'
    BY <2>1 DEF Claimed
  <2> QED BY <2>2, <2>3, <2>4
<1>3. \A d \in Docs : docs'[d].status = "ABSENT" => docs'[d].preview = 0
  BY DEF Inv, Calm
<1>4. PreviewsExist'
  BY DEF Inv, Calm, PreviewsExist
<1> QED BY <1>1, <1>2, <1>3, <1>4 DEF Inv

LEMMA SameRowsAreCalm ==
  ASSUME Inv, docs' = docs, worker' = worker, objects' = objects
  PROVE  Calm
BY DEF Calm, Inv, Typed

LEMMA SameLocksAreKept ==
  ASSUME Inv, docLock' = docLock
  PROVE  KeepsRows
BY DEF KeepsRows, Inv, Typed

LEMMA TakingAFreeRow ==
  ASSUME Inv, NEW u \in Users, NEW d \in Docs, docLock[d] \in {Free, u},
         docLock' = [docLock EXCEPT ![d] = u]
  PROVE  KeepsRows
<1>1. docLock \in [Docs -> Users \cup Workers \cup {Free}]
  BY DEF Inv, Typed
<1>2. Free \notin Workers /\ u \notin Workers
  BY DocumentAssumption
<1> QED BY <1>1, <1>2 DEF KeepsRows

LEMMA ReleasingOwnRows ==
  ASSUME Inv, NEW u \in Users, Release(u)
  PROVE  KeepsRows
<1>1. docLock \in [Docs -> Users \cup Workers \cup {Free}]
  BY DEF Inv, Typed
<1>2. u \notin Workers
  BY DocumentAssumption
<1>3. docLock' = Released(u)
  BY DEF Release, Released
<1> QED BY <1>1, <1>2, <1>3 DEF KeepsRows, Released

LEMMA RollbackStep ==
  ASSUME Inv, NEW u \in Users, Rollback(u)
  PROVE  Inv'
<1>1. docs' = docs /\ worker' = worker /\ objects' = objects /\ Release(u)
  BY DEF Rollback
<1> QED BY <1>1, SameRowsAreCalm, ReleasingOwnRows, CalmStep

\* Writing the flags of a row keeps its preview.
LEMMA FlagsStep ==
  ASSUME Inv, NEW deleted \in [Docs -> BOOLEAN], NEW latest \in [Docs -> BOOLEAN],
         docs' = [d \in Docs |-> [docs[d] EXCEPT !.deleted = deleted[d], !.latest = latest[d]]],
         worker' = worker, objects' = objects
  PROVE  Calm
<1>1. \A d \in Docs : docs[d] \in Rows
  BY DEF Inv, Typed
<1>2. \A d \in Docs : /\ docs'[d] \in Rows /\ docs'[d].preview = docs[d].preview
                      /\ docs'[d].status = docs[d].status
  BY <1>1 DEF Rows
<1> QED BY <1>2 DEF Calm

-----------------------------------------------------------------------------
(* The calls. *)

\* The new row names no preview, and no worker is at it: it was absent.
LEMMA AddVersionStep ==
  ASSUME Inv, NEW u \in Users, NEW sent, AddVersion(u, sent)
  PROVE  Inv'
<1>1. PICK new \in Docs :
        /\ Existing = 1..(new - 1)
        /\ docs' = [d \in Docs |-> IF d = new THEN Uploaded
                                  ELSE [docs[d] EXCEPT !.latest = @ /\ d \notin tx[u].cleared]]
        /\ Release(u) /\ worker' = worker /\ objects' = objects
  BY DEF AddVersion
<1>2. docs[new].status = "ABSENT"
  <2>1. new \notin Existing
    BY <1>1 DEF Docs
  <2> QED BY <2>1 DEF Existing
<1>3. \A d \in Docs : docs[d] \in Rows
  BY DEF Inv, Typed
<1>4. Uploaded \in Rows /\ Uploaded.preview = 0 /\ Uploaded.status = "UPLOADED"
  BY DEF Uploaded, Absent, Rows, Statuses
<1>5. docs[new].preview = 0
  BY <1>2 DEF Inv
<1>6. ASSUME NEW d \in Docs
      PROVE  /\ docs'[d] \in Rows /\ docs'[d].preview = docs[d].preview
             /\ d # new => docs'[d].status = docs[d].status
  <2>1. CASE d = new
    BY <1>1, <1>4, <1>5, <2>1
  <2>2. CASE d # new
    BY <1>1, <1>3, <2>2 DEF Rows
  <2> QED BY <2>1, <2>2
<1>7. docs' \in [Docs -> Rows]
  BY <1>1, <1>6
<1>8. Typed' /\ KeepsRows
  BY <1>1, <1>7, ReleasingOwnRows DEF Inv, Typed, KeepsRows
<1>9. ASSUME NEW w \in Workers PROVE (AtWork(w) /\ HasNew(w) /\ Claimed(w))'
  <2>1. AtWork(w) /\ HasNew(w) /\ Claimed(w)
    BY DEF Inv
  <2>2. AtWork(w)'
    BY <1>1, <1>2, <1>6, <1>8, <2>1 DEF AtWork, KeepsRows
  <2>3. HasNew(w)'
    BY <1>1, <1>6, <2>1 DEF HasNew, Claimed
  <2>4. Claimed(w)'
    BY <1>1, <1>2, <1>6, <2>1 DEF Claimed
  <2> QED BY <2>2, <2>3, <2>4
<1>10. \A d \in Docs : docs'[d].status = "ABSENT" => docs'[d].preview = 0
  BY <1>5, <1>6 DEF Inv
<1>11. PreviewsExist'
  <2>1. PreviewsExist
    BY DEF Inv
  <2>2. objects' = objects /\ \A d \in Docs : docs'[d].preview = docs[d].preview
    BY <1>1, <1>6
  <2> QED BY <2>1, <2>2 DEF PreviewsExist
<1> QED BY <1>8, <1>9, <1>10, <1>11 DEF Inv

\* Deleting and restoring write flags only.
LEMMA CommitIsCalm ==
  ASSUME Inv, NEW u \in Users, Commit(u)
  PROVE  Calm
<1>1. docs' = Written(u) /\ worker' = worker /\ objects' = objects
  BY DEF Commit
<1> DEFINE deleted == [d \in Docs |-> DeletedFor(u, d)]
           latest  == [d \in Docs |-> d = tx[u].picked
                                      \/ (docs[d].latest /\ d \notin tx[u].cleared)]
<1>2. \A d \in Docs : docs[d] \in Rows
  BY DEF Inv, Typed
<1>3. \A d \in Docs : docs[d].deleted \in BOOLEAN /\ docs[d].latest \in BOOLEAN
  BY <1>2 DEF Rows
<1>4. deleted \in [Docs -> BOOLEAN] /\ latest \in [Docs -> BOOLEAN]
  BY <1>3 DEF DeletedFor
<1>5. Written(u) = [d \in Docs |-> [docs[d] EXCEPT !.deleted = deleted[d],
                                                   !.latest = latest[d]]]
  BY <1>2 DEF Written, Rows
<1> HIDE DEF deleted, latest
<1> QED BY <1>1, <1>4, <1>5, FlagsStep

LEMMA CallStep ==
  ASSUME Inv, NEW u \in Users, Call(u)
  PROVE  Inv'
<1>1. ASSUME NEW d \in Docs, ClearRow(u, d) PROVE Inv'
  <2>1. docs' = docs /\ worker' = worker /\ objects' = objects /\ docLock[d] = Free
    BY <1>1 DEF ClearRow
  <2>2. docLock' = [docLock EXCEPT ![d] = u] \/ docLock' = docLock
    BY <1>1 DEF ClearRow
  <2>3. KeepsRows
    BY <2>1, <2>2, TakingAFreeRow, SameLocksAreKept
  <2> QED BY <2>1, <2>3, SameRowsAreCalm, CalmStep
<1>2. ASSUME SelectLatest(u) PROVE Inv'
  <2> DEFINE p == HighestActive(u)
  <2>1. /\ docs' = docs /\ worker' = worker /\ objects' = objects
        /\ p # NoDoc => docLock[p] \in {Free, u}
        /\ docLock' = [d \in Docs |-> IF d = p THEN u ELSE docLock[d]]
    BY <1>2 DEF SelectLatest
  <2> HIDE DEF p
  <2>2. docLock \in [Docs -> Users \cup Workers \cup {Free}]
    BY DEF Inv, Typed
  <2>3. NoDoc \notin Docs
    BY DEF NoDoc, Docs
  <2>4. Free \notin Workers /\ u \notin Workers
    BY DocumentAssumption
  <2>5. KeepsRows
    BY <2>1, <2>2, <2>3, <2>4 DEF KeepsRows
  <2> QED BY <2>1, <2>5, SameRowsAreCalm, CalmStep
<1>3. ASSUME Promote(u) PROVE Inv'
  <2>1. docs' = docs /\ worker' = worker /\ objects' = objects /\ docLock' = docLock
    BY <1>3 DEF Promote
  <2> QED BY <2>1, SameRowsAreCalm, SameLocksAreKept, CalmStep
<1>4. ASSUME Commit(u) PROVE Inv'
  <2>1. Release(u) /\ Calm
    BY <1>4, CommitIsCalm DEF Commit
  <2> QED BY <2>1, ReleasingOwnRows, CalmStep
<1>5. ASSUME AddVersion(u, 1) PROVE Inv'
  BY <1>5, AddVersionStep
<1>6. ASSUME IntegrityError(u) PROVE Inv'
  BY <1>6, RollbackStep DEF IntegrityError
<1>7. ASSUME CancelCall(u) PROVE Inv'
  BY <1>7, RollbackStep DEF CancelCall
<1> QED BY <1>1, <1>2, <1>3, <1>4, <1>5, <1>6, <1>7 DEF Call

-----------------------------------------------------------------------------
(* The workers.  What a worker does to the row, the lock and the objects of *)
(* its document cannot touch another worker that extracts: it has another   *)
(* document.                                                                *)

LEMMA OthersElsewhere ==
  ASSUME Inv, NEW w \in Workers, worker[w].at \in {"extract", "ready"},
         NEW v \in Workers, v # w, worker[v].at \in {"extract", "ready"}
  PROVE  worker[v].doc # worker[w].doc
BY DEF Inv, AtWork

\* A step of worker w that leaves the rows' previews alone.
LEMMA WorkerStep ==
  ASSUME Inv, NEW w \in Workers, NEW next \in Working,
         worker' = [worker EXCEPT ![w] = next],
         docs' \in [Docs -> Rows],
         \A d \in Docs : docs'[d].preview = docs[d].preview,
         \A d \in Docs : docs'[d].status = "ABSENT" => docs[d].status = "ABSENT",
         docLock' \in [Docs -> Users \cup Workers \cup {Free}],
         \A d \in Docs : docLock[d] \in Workers \ {w} => docLock'[d] = docLock[d],
         \A d \in Docs, k \in Keys : <<d, k>> \in objects =>
            \/ <<d, k>> \in objects'
            \/ worker[w].at = "ready" /\ d = worker[w].doc /\ k = worker[w].new,
         (AtWork(w) /\ HasNew(w) /\ Claimed(w))'
  PROVE  Inv'
<1>1. Typed'
  BY DEF Inv, Typed
<1>2. \A d \in Docs : docs[d] \in Rows
  BY DEF Inv, Typed
<1>3. \A v \in Workers : worker[v] \in Working
  BY DEF Inv, Typed
<1>4. w \in DOMAIN worker
  BY DEF Inv, Typed
<1>5. ASSUME NEW v \in Workers, v # w PROVE (AtWork(v) /\ HasNew(v) /\ Claimed(v))'
  <2>1. AtWork(v) /\ HasNew(v) /\ Claimed(v)
    BY DEF Inv
  <2>2. worker'[v] = worker[v]
    BY <1>4, <1>5
  <2>3. AtWork(v)'
    BY <1>5, <2>1, <2>2 DEF AtWork
  <2>4. HasNew(v)'
    <3> SUFFICES ASSUME worker[v].at = "ready", worker[v].new # 0
                 PROVE  /\ <<worker[v].doc, worker[v].new>> \in objects'
                        /\ worker[v].new # docs'[worker[v].doc].preview
      BY <2>2 DEF HasNew
    <3>1. worker[v].doc \in Docs /\ worker[v].new \in Keys
      BY <1>3, <2>1 DEF Claimed, Working
    <3>2. /\ <<worker[v].doc, worker[v].new>> \in objects
          /\ worker[v].new # docs[worker[v].doc].preview
      BY <2>1 DEF HasNew
    <3>3. worker[w].at = "ready" => worker[v].doc # worker[w].doc
      BY <1>5, OthersElsewhere
    <3> QED BY <3>1, <3>2, <3>3
  <2>5. Claimed(v)'
    BY <2>1, <2>2 DEF Claimed
  <2> QED BY <2>3, <2>4, <2>5
<1>6. \A d \in Docs : docs'[d].status = "ABSENT" => docs'[d].preview = 0
  BY DEF Inv
<1>7. PreviewsExist'
  <2> SUFFICES ASSUME NEW d \in Docs, docs'[d].preview # 0
               PROVE  <<d, docs'[d].preview>> \in objects'
    BY DEF PreviewsExist
  <2>1. docs[d].preview \in Keys /\ <<d, docs[d].preview>> \in objects
    BY <1>2 DEF Inv, PreviewsExist, Rows
  <2>2. ~(worker[w].at = "ready" /\ d = worker[w].doc /\ docs[d].preview = worker[w].new)
    BY <2>1 DEF Inv, HasNew, Keys
  <2> QED BY <2>1, <2>2
<1> QED BY <1>1, <1>5, <1>6, <1>7 DEF Inv

\* A step of a worker whose document keeps its row: only its status can change.
LEMMA StatusStep ==
  ASSUME Inv, NEW d \in Docs, NEW st \in Statuses \ {"ABSENT"},
         docs' = docs \/ docs' = [docs EXCEPT ![d].status = st]
  PROVE  /\ docs' \in [Docs -> Rows]
         /\ \A e \in Docs : docs'[e].preview = docs[e].preview
         /\ \A e \in Docs : docs'[e].status = "ABSENT" => docs[e].status = "ABSENT"
         /\ docs' # docs => docs'[d].status # "ABSENT"
<1>1. docs \in [Docs -> Rows]
  BY DEF Inv, Typed
<1>2. CASE docs' = docs
  BY <1>1, <1>2
<1>3. CASE docs' = [docs EXCEPT ![d].status = st]
  BY <1>1, <1>3 DEF Rows
<1> QED BY <1>2, <1>3

\* The step of an exception, a crash or a failed lock: the row lock is given back
\* and the new object may be gone.
LEMMA GivesUp ==
  ASSUME Inv, NEW w \in Workers, docs' = docs,
         NEW next \in Working, next.at \in {"idle", "fail"},
         next.at = "fail" => next.doc \in Docs /\ docs[next.doc].status # "ABSENT",
         worker' = [worker EXCEPT ![w] = next],
         docLock' \in [Docs -> Users \cup Workers \cup {Free}],
         \A d \in Docs : docLock[d] \in Workers \ {w} => docLock'[d] = docLock[d],
         \A d \in Docs, k \in Keys : <<d, k>> \in objects =>
            \/ <<d, k>> \in objects'
            \/ worker[w].at = "ready" /\ d = worker[w].doc /\ k = worker[w].new
  PROVE  Inv'
<1>1. docs' \in [Docs -> Rows]
  BY DEF Inv, Typed
<1>2. worker'[w] = next
  BY DEF Inv, Typed
<1>3. (AtWork(w) /\ HasNew(w) /\ Claimed(w))'
  BY <1>2 DEF AtWork, HasNew, Claimed
<1> QED BY <1>1, <1>3, WorkerStep

LEMMA RaisesStep ==
  ASSUME Inv, NEW w \in Workers, worker[w].at \in {"extract", "ready"}, ProcessingRaises(w)
  PROVE  Inv'
<1> DEFINE next == [worker[w] EXCEPT !.at = "fail"]
           d    == worker[w].doc
<1>1. worker[w] \in Working /\ d \in Docs /\ docLock[d] = w
  BY DEF Inv, Typed, AtWork
<1>2. next \in Working /\ next.at = "fail" /\ next.doc = d /\ docs[d].status # "ABSENT"
  BY <1>1 DEF Working, Inv, Claimed
<1>3. worker' = [worker EXCEPT ![w] = next] /\ docs' = docs
  BY DEF ProcessingRaises
<1>4. docLock' = [docLock EXCEPT ![d] = Free] /\ objects' = objects \ {<<d, worker[w].new>>}
  BY DEF ProcessingRaises
<1>5. docLock \in [Docs -> Users \cup Workers \cup {Free}]
  BY DEF Inv, Typed
<1>6. /\ docLock' \in [Docs -> Users \cup Workers \cup {Free}]
      /\ \A e \in Docs : docLock[e] \in Workers \ {w} => docLock'[e] = docLock[e]
  BY <1>1, <1>4, <1>5
<1>7. worker[w].at = "extract" => worker[w].new \notin Keys
  BY DEF Inv, Claimed, Keys
<1>8. \A e \in Docs, k \in Keys : <<e, k>> \in objects =>
        \/ <<e, k>> \in objects'
        \/ worker[w].at = "ready" /\ e = d /\ k = worker[w].new
  BY <1>4, <1>7
<1> HIDE DEF next
<1> QED BY <1>1, <1>2, <1>3, <1>6, <1>8, GivesUp

\* A crash gives every lock of the worker back.
LEMMA CrashStep ==
  ASSUME Inv, NEW w \in Workers, Crash(w)
  PROVE  Inv'
<1>1. /\ worker' = [worker EXCEPT ![w] = IdleWorker] /\ docs' = docs /\ objects' = objects
      /\ docLock' = [d \in Docs |-> IF docLock[d] = w THEN Free ELSE docLock[d]]
  BY DEF Crash
<1>2. IdleWorker \in Working /\ IdleWorker.at = "idle"
  BY DEF IdleWorker, Working
<1>3. docLock \in [Docs -> Users \cup Workers \cup {Free}]
  BY DEF Inv, Typed
<1>4. /\ docLock' \in [Docs -> Users \cup Workers \cup {Free}]
      /\ \A d \in Docs : docLock[d] \in Workers \ {w} => docLock'[d] = docLock[d]
  BY <1>1, <1>3
<1> HIDE DEF IdleWorker
<1> QED BY <1>1, <1>2, <1>4, GivesUp

LEMMA ClaimStep ==
  ASSUME Inv, NEW w \in Workers, NEW d \in Docs, Claim(w, d)
  PROVE  Inv'
<1>1. objects' = objects /\ docLock' = docLock
  BY DEF Claim
<1>2. CASE docs' = docs /\ worker' = worker
  BY <1>1, <1>2, SameRowsAreCalm, SameLocksAreKept, CalmStep
<1>3. CASE /\ docs' = [docs EXCEPT ![d].status = "PROCESSING"]
           /\ worker' = [worker EXCEPT ![w] = [IdleWorker EXCEPT !.at = "relock", !.doc = d]]
  <2> DEFINE next == [IdleWorker EXCEPT !.at = "relock", !.doc = d]
  <2>1. next \in Working /\ next.at = "relock" /\ next.doc = d /\ next.new = 0
    BY DEF IdleWorker, Working
  <2>2. "PROCESSING" \in Statuses \ {"ABSENT"}
    BY DEF Statuses
  <2>3. worker' = [worker EXCEPT ![w] = next]
    BY <1>3
  <2> HIDE DEF next
  <2>4. worker'[w] = next
    BY <2>3 DEF Inv, Typed
  <2>5. docs'[d].status # "ABSENT"
    BY <1>3 DEF Inv, Typed, Rows
  <2>6. docLock' \in [Docs -> Users \cup Workers \cup {Free}]
    BY <1>1 DEF Inv, Typed
  <2>7. /\ docs' \in [Docs -> Rows]
        /\ \A e \in Docs : docs'[e].preview = docs[e].preview
        /\ \A e \in Docs : docs'[e].status = "ABSENT" => docs[e].status = "ABSENT"
    BY <1>3, <2>2, StatusStep
  <2>8. (AtWork(w) /\ HasNew(w) /\ Claimed(w))'
    BY <2>1, <2>4, <2>5 DEF AtWork, HasNew, Claimed
  <2> QED BY <1>1, <2>1, <2>3, <2>6, <2>7, <2>8, WorkerStep
<1> QED BY <1>2, <1>3 DEF Claim

LEMMA RelockStep ==
  ASSUME Inv, NEW w \in Workers, Relock(w)
  PROVE  Inv'
<1> DEFINE d    == worker[w].doc
           next == [worker[w] EXCEPT !.at = "extract", !.previous = docs[d].preview]
<1>1. /\ worker[w].at = "relock" /\ docLock[d] = Free /\ docs' = docs /\ objects' = objects
      /\ \/ worker' = [worker EXCEPT ![w] = IdleWorker] /\ docLock' = docLock
         \/ /\ docLock' = [docLock EXCEPT ![d] = w]
            /\ worker' = [worker EXCEPT ![w].at = "extract", ![w].previous = docs[d].preview]
  BY DEF Relock
<1>2. worker[w] \in Working /\ d \in Docs /\ worker[w].new = 0
  BY <1>1 DEF Inv, Typed, Claimed
<1>3. docLock \in [Docs -> Users \cup Workers \cup {Free}]
  BY DEF Inv, Typed
<1>4. CASE worker' = [worker EXCEPT ![w] = IdleWorker] /\ docLock' = docLock
  <2>1. IdleWorker \in Working /\ IdleWorker.at = "idle"
    BY DEF IdleWorker, Working
  <2> HIDE DEF IdleWorker
  <2> QED BY <1>1, <1>3, <1>4, <2>1, GivesUp
<1>5. CASE /\ docLock' = [docLock EXCEPT ![d] = w]
           /\ worker' = [worker EXCEPT ![w].at = "extract", ![w].previous = docs[d].preview]
  <2>1. docs \in [Docs -> Rows] /\ docs[d] \in Rows
    BY <1>2 DEF Inv, Typed
  <2>2. /\ next \in Working /\ next.at = "extract" /\ next.doc = d /\ next.new = 0
        /\ next.previous = docs[d].preview
    BY <1>2, <2>1 DEF Working, Rows
  <2>3. worker' = [worker EXCEPT ![w] = next]
    BY <1>5 DEF Inv, Typed
  <2> HIDE DEF next
  <2>4. worker'[w] = next
    BY <2>3 DEF Inv, Typed
  <2>5. /\ docLock' \in [Docs -> Users \cup Workers \cup {Free}]
        /\ docLock'[d] = w
        /\ \A e \in Docs : docLock[e] \in Workers \ {w} => docLock'[e] = docLock[e]
    <3>1. Free \notin Workers
      BY DocumentAssumption
    <3> QED BY <1>1, <1>2, <1>3, <1>5, <3>1
  <2>6. docs[d].status # "ABSENT"
    BY <1>1 DEF Inv, Claimed
  <2>7. (AtWork(w) /\ HasNew(w) /\ Claimed(w))'
    BY <1>1, <1>2, <2>2, <2>4, <2>5, <2>6 DEF AtWork, HasNew, Claimed
  <2> QED BY <1>1, <2>1, <2>2, <2>3, <2>5, <2>7, WorkerStep
<1> QED BY <1>1, <1>4, <1>5

\* A converted preview gets a key that names no object, nor the preview of the row.
LEMMA ExtractStep ==
  ASSUME Inv, NEW w \in Workers, NEW found \in Texts \cup {NoText},
         NEW converted \in BOOLEAN, Extract(w, found, converted)
  PROVE  Inv'
<1> DEFINE d    == worker[w].doc
           key  == IF converted THEN NewKey(d) ELSE 0
           next == [worker[w] EXCEPT !.at = "ready", !.new = key, !.text = found]
<1>1. /\ worker[w].at = "extract"
      /\ converted => Keys \ UsedKeys(d) # {}
      /\ objects' = IF converted THEN objects \cup {<<d, key>>} ELSE objects
      /\ worker' = [worker EXCEPT ![w].at = "ready", ![w].new = key, ![w].text = found]
      /\ docs' = docs /\ docLock' = docLock
  BY DEF Extract
<1>2. /\ worker[w] \in Working /\ AtWork(w) /\ Claimed(w)
  BY DEF Inv, Typed
<1>3. converted => key \in Keys /\ key # docs[d].preview
  <2> SUFFICES ASSUME converted PROVE key \in Keys /\ key # docs[d].preview
    OBVIOUS
  <2>1. \E k \in Keys : k \notin UsedKeys(d)
    BY <1>1
  <2>2. NewKey(d) \in Keys /\ NewKey(d) \notin UsedKeys(d)
    BY <2>1 DEF NewKey
  <2>3. docs[d].preview \in UsedKeys(d)
    BY DEF UsedKeys
  <2> QED BY <2>2, <2>3
<1>4. converted => <<d, key>> \in objects'
  BY <1>1
<1>5. key # 0 => converted
  OBVIOUS
<1>6. key \in Keys \cup {0}
  BY <1>3
<1> HIDE DEF key
<1>7. /\ next \in Working /\ next.at = "ready" /\ next.doc = d /\ next.new = key
      /\ next.previous = worker[w].previous
  BY <1>2, <1>6 DEF Working
<1>8. worker' = [worker EXCEPT ![w] = next]
  BY <1>1 DEF Inv, Typed
<1> HIDE DEF next
<1>9. worker'[w] = next
  BY <1>8 DEF Inv, Typed
<1>10. docs' \in [Docs -> Rows] /\ docLock' \in [Docs -> Users \cup Workers \cup {Free}]
  BY <1>1 DEF Inv, Typed
<1>11. AtWork(w)' /\ Claimed(w)'
  BY <1>1, <1>2, <1>7, <1>9 DEF AtWork, Claimed
<1>12. HasNew(w)'
  BY <1>1, <1>3, <1>4, <1>5, <1>7, <1>9 DEF HasNew
<1>13. \A e \in Docs, k \in Keys : <<e, k>> \in objects => <<e, k>> \in objects'
  BY <1>1
<1> QED BY <1>1, <1>7, <1>8, <1>10, <1>11, <1>12, <1>13, WorkerStep

LEMMA MarkFailedStep ==
  ASSUME Inv, NEW w \in Workers, MarkFailed(w)
  PROVE  Inv'
<1> DEFINE d == worker[w].doc
<1>1. /\ worker[w].at = "fail" /\ worker' = [worker EXCEPT ![w] = IdleWorker]
      /\ objects' = objects /\ docLock' = docLock
      /\ docs' = docs \/ docs' = [docs EXCEPT ![d].status = "FAILED"]
  BY DEF MarkFailed
<1>2. IdleWorker \in Working /\ IdleWorker.at = "idle"
  BY DEF IdleWorker, Working
<1>3. d \in Docs
  BY <1>1 DEF Inv, Claimed
<1>4. "FAILED" \in Statuses \ {"ABSENT"}
  BY DEF Statuses
<1> HIDE DEF IdleWorker
<1>5. worker'[w] = IdleWorker
  BY <1>1 DEF Inv, Typed
<1>6. (AtWork(w) /\ HasNew(w) /\ Claimed(w))'
  BY <1>2, <1>5 DEF AtWork, HasNew, Claimed
<1>7. /\ docs' \in [Docs -> Rows]
      /\ \A e \in Docs : docs'[e].preview = docs[e].preview
      /\ \A e \in Docs : docs'[e].status = "ABSENT" => docs[e].status = "ABSENT"
  BY <1>1, <1>3, <1>4, StatusStep
<1>8. docLock' \in [Docs -> Users \cup Workers \cup {Free}]
  BY <1>1 DEF Inv, Typed
<1> QED BY <1>1, <1>2, <1>6, <1>7, <1>8, WorkerStep

\* Only the object that the row has just stopped naming can go.
LEMMA MarkReadyStep ==
  ASSUME Inv, NEW w \in Workers, MarkReady(w)
  PROVE  Inv'
<1> DEFINE d == worker[w].doc
           p == FinalPreview(w)
           replaced == IF worker[w].new = 0 THEN {} ELSE {<<d, worker[w].previous>>}
<1>1. /\ worker[w].at = "ready"
      /\ docs' = [docs EXCEPT ![d].status = "READY", ![d].text = worker[w].text,
                              ![d].preview = p]
      /\ docLock' = [docLock EXCEPT ![d] = Free]
      /\ objects' \in {objects \ replaced, objects}
      /\ worker' = [worker EXCEPT ![w] = IdleWorker]
  BY DEF MarkReady
<1>2. /\ worker[w] \in Working /\ AtWork(w) /\ HasNew(w) /\ Claimed(w)
      /\ docs \in [Docs -> Rows]
      /\ docLock \in [Docs -> Users \cup Workers \cup {Free}]
  BY DEF Inv, Typed
<1>3. d \in Docs /\ worker[w].previous = docs[d].preview /\ docs[d] \in Rows
  BY <1>1, <1>2 DEF AtWork
<1>4. p \in Keys \cup {0}
  BY <1>2 DEF FinalPreview, Working
<1>5. p # 0 => <<d, p>> \in objects'
  <2>1. CASE worker[w].new # 0
    <3>0. p = worker[w].new
      BY <2>1 DEF FinalPreview
    <3>1. <<d, p>> \in objects /\ p # docs[d].preview
      BY <1>1, <1>2, <2>1, <3>0 DEF HasNew
    <3>2. replaced = {<<d, docs[d].preview>>}
      BY <1>3, <2>1
    <3> QED BY <1>1, <3>1, <3>2
  <2>2. CASE worker[w].new = 0
    <3>1. objects' = objects
      BY <1>1, <2>2
    <3>2. p = 0 \/ p = docs[d].preview
      BY <1>3, <2>2 DEF FinalPreview
    <3>3. PreviewsExist
      BY DEF Inv
    <3> QED BY <1>3, <3>1, <3>2, <3>3 DEF PreviewsExist
  <2> QED BY <2>1, <2>2
<1>6. \A e \in Docs, k \in Keys : e # d /\ <<e, k>> \in objects => <<e, k>> \in objects'
  BY <1>1
<1> HIDE DEF p, replaced
<1>7. /\ docs'[d] \in Rows /\ docs'[d].preview = p /\ docs'[d].status = "READY"
      /\ \A e \in Docs : e # d => docs'[e] = docs[e]
  BY <1>1, <1>2, <1>3, <1>4 DEF Rows, Statuses, Working
<1>8. docs' \in [Docs -> Rows]
  BY <1>1, <1>2, <1>7
<1>9. IdleWorker \in Working /\ IdleWorker.at = "idle"
  BY DEF IdleWorker, Working
<1> HIDE DEF IdleWorker
<1>10. Typed'
  BY <1>1, <1>2, <1>8, <1>9 DEF Inv, Typed
<1>11. ASSUME NEW v \in Workers PROVE (AtWork(v) /\ HasNew(v) /\ Claimed(v))'
  <2>1. worker[v] \in Working /\ AtWork(v) /\ HasNew(v) /\ Claimed(v)
    BY DEF Inv, Typed
  <2>2. CASE v = w
    <3>1. worker'[v] = IdleWorker
      BY <1>1, <2>2 DEF Inv, Typed
    <3> QED BY <1>9, <3>1 DEF AtWork, HasNew, Claimed
  <2>3. CASE v # w
    <3>1. worker'[v] = worker[v]
      BY <1>1, <2>3 DEF Inv, Typed
    <3>2. worker[v].at \in {"extract", "ready"} => worker[v].doc # d
      BY <1>1, <2>3, OthersElsewhere
    <3>3. AtWork(v)'
      BY <1>1, <1>2, <1>7, <2>1, <3>1, <3>2 DEF AtWork
    <3>4. HasNew(v)'
      BY <1>6, <1>7, <2>1, <3>1, <3>2 DEF HasNew, Claimed, Working
    <3>5. Claimed(v)'
      BY <1>7, <2>1, <3>1 DEF Claimed
    <3> QED BY <3>3, <3>4, <3>5
  <2> QED BY <2>2, <2>3
<1>12. \A e \in Docs : docs'[e].status = "ABSENT" => docs'[e].preview = 0
  BY <1>7 DEF Inv
<1>13. PreviewsExist'
  <2> SUFFICES ASSUME NEW e \in Docs, docs'[e].preview # 0
               PROVE  <<e, docs'[e].preview>> \in objects'
    BY DEF PreviewsExist
  <2>1. CASE e = d
    BY <1>5, <1>7, <2>1
  <2>2. CASE e # d
    <3>1. docs[e].preview \in Keys /\ <<e, docs[e].preview>> \in objects
      BY <1>2, <1>7, <2>2 DEF Inv, PreviewsExist, Rows
    <3> QED BY <1>6, <1>7, <2>2, <3>1
  <2> QED BY <2>1, <2>2
<1> QED BY <1>10, <1>11, <1>12, <1>13 DEF Inv

LEMMA ProcessStep ==
  ASSUME Inv, NEW w \in Workers, Process(w)
  PROVE  Inv'
<1>1. CASE \E d \in Docs : Claim(w, d)
  BY <1>1, ClaimStep
<1>2. CASE Relock(w)
  BY <1>2, RelockStep
<1>3. CASE \E found \in Texts \cup {NoText}, converted \in BOOLEAN : Extract(w, found, converted)
  BY <1>3, ExtractStep
<1>4. CASE ExtractionFails(w)
  BY <1>4, RaisesStep DEF ExtractionFails
<1>5. CASE MarkReady(w)
  BY <1>5, MarkReadyStep
<1>6. CASE CancelProcessing(w)
  BY <1>6, RaisesStep DEF CancelProcessing
<1>7. CASE MarkFailed(w)
  BY <1>7, MarkFailedStep
<1> QED BY <1>1, <1>2, <1>3, <1>4, <1>5, <1>6, <1>7 DEF Process

-----------------------------------------------------------------------------
(* The rest. *)

LEMMA RequestStep ==
  ASSUME Inv, Request
  PROVE  Inv'
<1>1. ASSUME NEW u \in Users, NEW op \in {"delete", "restore"}, NEW d \in Docs,
             LockDocument(u, op, d)
      PROVE  Inv'
  <2>1. /\ docs' = docs /\ worker' = worker /\ objects' = objects
        /\ docLock[d] = Free /\ docLock' = [docLock EXCEPT ![d] = u]
    BY <1>1 DEF LockDocument
  <2> QED BY <2>1, TakingAFreeRow, SameRowsAreCalm, CalmStep
<1>2. ASSUME NEW u \in Users, LockGroup(u) PROVE Inv'
  <2>1. docs' = docs /\ worker' = worker /\ objects' = objects /\ docLock' = docLock
    BY <1>2 DEF LockGroup
  <2> QED BY <2>1, SameRowsAreCalm, SameLocksAreKept, CalmStep
<1>3. ASSUME NEW d \in Docs, Rerun(d) PROVE Inv'
  <2>1. docs' = docs /\ worker' = worker /\ objects' = objects /\ docLock' = docLock
    BY <1>3 DEF Rerun
  <2> QED BY <2>1, SameRowsAreCalm, SameLocksAreKept, CalmStep
<1>4. ASSUME UpdateStatus PROVE Inv'
  <2>1. docs' = docs /\ worker' = worker /\ objects' = objects /\ docLock' = docLock
    BY <1>4 DEF UpdateStatus
  <2> QED BY <2>1, SameRowsAreCalm, SameLocksAreKept, CalmStep
<1>5. ASSUME NEW d \in Docs, NEW found \in Texts, PersistTranscription(d, found) PROVE Inv'
  <2>1. /\ docs' = [docs EXCEPT ![d].text = found]
        /\ worker' = worker /\ objects' = objects /\ docLock' = docLock
    BY <1>5 DEF PersistTranscription
  <2>2. docs \in [Docs -> Rows]
    BY DEF Inv, Typed
  <2>3. /\ docs' \in [Docs -> Rows]
        /\ \A e \in Docs : docs'[e].preview = docs[e].preview /\ docs'[e].status = docs[e].status
    BY <2>1, <2>2 DEF Rows
  <2>4. Calm
    BY <2>1, <2>3 DEF Calm
  <2> QED BY <2>1, <2>4, SameLocksAreKept, CalmStep
<1> QED BY <1>1, <1>2, <1>3, <1>4, <1>5 DEF Request

LEMMA SearchStep ==
  ASSUME Inv, OnlySearch
  PROVE  Inv'
<1>1. docs' = docs /\ worker' = worker /\ objects' = objects /\ docLock' = docLock
  BY DEF OnlySearch
<1> QED BY <1>1, SameRowsAreCalm, SameLocksAreKept, CalmStep

LEMMA DisturbStep ==
  ASSUME Inv, Disturb
  PROVE  Inv'
<1>1. CASE \E u \in Users : AddVersion(u, 0)
  BY <1>1, AddVersionStep
<1>2. CASE \E w \in Workers : DatabaseFails(w) \/ Crash(w)
  <2>1. PICK w \in Workers : DatabaseFails(w) \/ Crash(w)
    BY <1>2
  <2>2. CASE DatabaseFails(w)
    BY <2>2, RaisesStep DEF DatabaseFails
  <2>3. CASE Crash(w)
    BY <2>3, CrashStep
  <2> QED BY <2>1, <2>2, <2>3
<1>3. CASE \E j \in jobs : SyncFails(j)
  BY <1>3, SearchStep DEF SyncFails
<1> QED BY <1>1, <1>2, <1>3 DEF Disturb

LEMMA WorkStep ==
  ASSUME Inv, Work
  PROVE  Inv'
<1>1. CASE \E u \in Users : Call(u)
  BY <1>1, CallStep
<1>2. CASE \E w \in Workers : Process(w)
  BY <1>2, ProcessStep
<1>3. CASE \E j \in jobs : Sync(j)
  BY <1>3, SearchStep DEF Sync
<1>4. CASE Scan
  BY <1>4, SearchStep DEF Scan
<1> QED BY <1>1, <1>2, <1>3, <1>4 DEF Work

LEMMA Step == Inv /\ [Next]_vars => Inv'
<1> SUFFICES ASSUME Inv, [Next]_vars PROVE Inv'
  OBVIOUS
<1>1. CASE UNCHANGED vars
  <2>1. docs' = docs /\ worker' = worker /\ objects' = objects /\ docLock' = docLock
    BY <1>1 DEF vars
  <2> QED BY <2>1, SameRowsAreCalm, SameLocksAreKept, CalmStep
<1>2. CASE Next
  BY <1>1, <1>2, WorkStep, RequestStep, DisturbStep DEF Next
<1> QED BY <1>1, <1>2

\* The preview a row names is in storage, always: an extraction that fails, crashes
\* or is cancelled removes its own object only, and one that succeeds the object
\* its row has stopped naming (DocumentProcessingService.process_document).
THEOREM PreviewsAreKept == Spec => []PreviewsExist
<1>1. Inv => PreviewsExist
  BY DEF Inv
<1> QED BY <1>1, Start, Step, PTL DEF Spec

-----------------------------------------------------------------------------
(* Nothing waits for ever.  As long as nothing fails, a version that waits  *)
(* has a message, and a worker is at one that is processed; one that was    *)
(* deleted meanwhile has been cut.                                          *)

Gone(d)   == docs[d].status \in {"UPLOADED", "PROCESSING"} /\ docs[d].deleted => d \in cut
Asked(d)  == faults = 0 /\ d \notin cut /\ docs[d].status = "UPLOADED" => queue[d] > 0
Worked(d) ==
  faults = 0 /\ d \notin cut /\ docs[d].status = "PROCESSING" =>
    \E w \in Workers : worker[w].at # "idle" /\ worker[w].doc = d

Settles(d) == Gone(d) /\ Asked(d) /\ Worked(d)

Settling ==
  /\ queue \in [Docs -> Nat] /\ faults \in Nat
  /\ \A d \in Docs : Settles(d)

LEMMA SettlingStart == Init => Settling
<1> SUFFICES ASSUME Init PROVE Settling
  OBVIOUS
<1> DEFINE first(gone) == [status |-> "READY", deleted |-> gone, latest |-> FALSE,
                           text |-> 1, preview |-> 1]
           other(n, gone, d) == IF d = n /\ ~gone THEN Uploaded ELSE Absent
<1>1. PICK n \in {1, 2}, gone \in BOOLEAN :
        /\ docs = [d \in Docs |-> IF d < n THEN first(gone) ELSE other(n, gone, d)]
        /\ queue = [d \in Docs |-> IF d = n /\ ~gone THEN 1 ELSE 0]
        /\ faults = 0
  BY DEF Init
<1>2. /\ first(gone).status = "READY"
      /\ Uploaded.status = "UPLOADED" /\ Uploaded.deleted = FALSE
      /\ Absent.status = "ABSENT"
  BY DEF Uploaded, Absent
<1>3. ASSUME NEW d \in Docs PROVE Settles(d)
  <2>1. CASE docs[d] = Uploaded /\ queue[d] = 1
    BY <1>2, <2>1 DEF Settles, Gone, Asked, Worked
  <2>2. CASE docs[d].status \in {"READY", "ABSENT"}
    BY <2>2 DEF Settles, Gone, Asked, Worked
  <2>3. (docs[d] = Uploaded /\ queue[d] = 1) \/ docs[d].status \in {"READY", "ABSENT"}
    BY <1>1, <1>2
  <2> QED BY <2>1, <2>2, <2>3
<1>4. queue \in [Docs -> Nat]
  BY <1>1
<1> QED BY <1>1, <1>3, <1>4 DEF Settling

\* What keeps a version settled: its row, its message and its worker stay.
LEMMA StaysSettled ==
  ASSUME Settling, NEW d \in Docs,
         docs'[d].status = docs[d].status, docs'[d].deleted = docs[d].deleted,
         cut \subseteq cut', faults' = 0 => faults = 0, queue' \in [Docs -> Nat],
         docs[d].status = "UPLOADED" /\ d \notin cut => queue'[d] >= queue[d],
         \A w \in Workers : worker[w].at # "idle" /\ worker[w].doc = d /\ d \notin cut =>
           worker'[w].at # "idle" /\ worker'[w].doc = d
  PROVE  Settles(d)'
<1>1. Gone(d) /\ Asked(d) /\ Worked(d) /\ queue[d] \in Nat
  BY DEF Settling, Settles
<1>2. Gone(d)'
  BY <1>1 DEF Gone
<1>3. Asked(d)'
  <2> SUFFICES ASSUME faults' = 0, d \notin cut', docs'[d].status = "UPLOADED"
               PROVE  queue'[d] > 0
    BY DEF Asked
  <2>1. queue[d] > 0 /\ queue'[d] >= queue[d] /\ queue'[d] \in Nat
    BY <1>1 DEF Asked
  <2> QED BY <1>1, <2>1
<1>4. Worked(d)'
  BY <1>1 DEF Worked
<1> QED BY <1>2, <1>3, <1>4 DEF Settles

\* A step that leaves the rows, the messages and the workers as they are.
LEMMA StillSettling ==
  ASSUME Settling, worker' = worker, cut \subseteq cut', queue' = queue,
         faults' \in Nat, faults' = 0 => faults = 0,
         \A d \in Docs : docs'[d].status = docs[d].status /\ docs'[d].deleted = docs[d].deleted
  PROVE  Settling'
<1>1. queue' \in [Docs -> Nat] /\ \A d \in Docs : queue'[d] >= queue[d]
  BY DEF Settling
<1>2. ASSUME NEW d \in Docs PROVE Settles(d)'
  BY <1>1, StaysSettled
<1> QED BY <1>1, <1>2 DEF Settling

\* After a failure nothing is promised but that a deleted version was cut.
LEMMA FaultSettles ==
  ASSUME Settling, Fault, NEW d \in Docs, Gone(d)'
  PROVE  Settles(d)' /\ faults' \in Nat
<1>1. faults' = faults + 1 /\ faults \in Nat
  BY DEF Fault, Settling
<1>2. faults' \in Nat /\ faults' # 0
  BY <1>1
<1> QED BY <1>2 DEF Settles, Asked, Worked

LEMMA AddVersionSettles ==
  ASSUME Inv, Settling, NEW u \in Users, NEW sent \in {0, 1}, AddVersion(u, sent)
  PROVE  Settling'
<1>1. PICK new \in Docs :
        /\ docs' = [d \in Docs |-> IF d = new THEN Uploaded
                                  ELSE [docs[d] EXCEPT !.latest = @ /\ d \notin tx[u].cleared]]
        /\ queue' = [queue EXCEPT ![new] = sent]
        /\ IF sent = 0 THEN Fault ELSE faults' = faults
        /\ worker' = worker /\ cut' = cut
  BY DEF AddVersion
<1>2. queue \in [Docs -> Nat] /\ faults \in Nat /\ \A d \in Docs : docs[d] \in Rows
  BY DEF Inv, Typed, Settling
<1>3. queue' \in [Docs -> Nat] /\ faults' \in Nat /\ (faults' = 0 => faults = 0 /\ sent = 1)
  BY <1>1, <1>2 DEF Fault
<1>4. ASSUME NEW d \in Docs PROVE Settles(d)'
  <2>1. CASE d = new
    <3>1. docs'[d].status = "UPLOADED" /\ docs'[d].deleted = FALSE /\ queue'[d] = sent
      BY <1>1, <1>2, <2>1 DEF Uploaded, Absent
    <3> QED BY <1>3, <3>1 DEF Settles, Gone, Asked, Worked
  <2>2. CASE d # new
    <3>1. docs'[d].status = docs[d].status /\ docs'[d].deleted = docs[d].deleted
      BY <1>1, <1>2, <2>2 DEF Rows
    <3>2. queue'[d] = queue[d] /\ queue[d] \in Nat
      BY <1>1, <1>2, <2>2
    <3> QED BY <1>1, <1>3, <3>1, <3>2, StaysSettled
  <2> QED BY <2>1, <2>2
<1> QED BY <1>3, <1>4 DEF Settling

\* A call that deletes a version that waits cuts it.
LEMMA CommitSettles ==
  ASSUME Inv, Settling, NEW u \in Users, Commit(u)
  PROVE  Settling'
<1>1. /\ docs' = Written(u) /\ worker' = worker /\ queue' = queue /\ faults' = faults
      /\ cut' = IF tx[u].op = "delete" /\ docs[tx[u].doc].status \in {"UPLOADED", "PROCESSING"}
                THEN cut \cup {tx[u].doc} ELSE cut
  BY DEF Commit
<1>2. queue \in [Docs -> Nat] /\ faults \in Nat /\ \A d \in Docs : docs[d] \in Rows
  BY DEF Inv, Typed, Settling
<1>3. ASSUME NEW d \in Docs
      PROVE docs'[d].status = docs[d].status /\ docs'[d].deleted = DeletedFor(u, d)
  BY <1>1, <1>2 DEF Written, Rows
<1>4. cut \subseteq cut'
  BY <1>1
<1>5. ASSUME NEW d \in Docs PROVE Settles(d)'
  <2>1. CASE d # tx[u].doc
    <3>1. docs'[d].deleted = docs[d].deleted
      BY <1>3, <2>1 DEF DeletedFor
    <3> QED BY <1>1, <1>2, <1>3, <1>4, <3>1, StaysSettled
  <2>2. CASE d = tx[u].doc
    <3>1. Gone(d) /\ Asked(d) /\ Worked(d)
      BY DEF Settling, Settles
    <3>2. docs'[d].deleted = (tx[u].op = "delete")
      BY <1>3, <2>2 DEF DeletedFor
    <3>3. Gone(d)'
      BY <1>1, <1>3, <2>2, <3>2 DEF Gone
    <3>4. Asked(d)'
      BY <1>1, <1>3, <1>4, <3>1 DEF Asked
    <3>5. Worked(d)'
      BY <1>1, <1>3, <1>4, <3>1 DEF Worked
    <3> QED BY <3>3, <3>4, <3>5 DEF Settles
  <2> QED BY <2>1, <2>2
<1> QED BY <1>1, <1>2, <1>5 DEF Settling

LEMMA CallSettles ==
  ASSUME Inv, Settling, NEW u \in Users, Call(u)
  PROVE  Settling'
<1>0. faults \in Nat
  BY DEF Settling
<1>1. CASE \/ \E d \in Docs : ClearRow(u, d)
           \/ SelectLatest(u) \/ Promote(u) \/ IntegrityError(u) \/ CancelCall(u)
  <2>1. docs' = docs /\ worker' = worker /\ cut' = cut /\ queue' = queue /\ faults' = faults
    BY <1>1 DEF ClearRow, SelectLatest, Promote, IntegrityError, CancelCall, Rollback
  <2> QED BY <1>0, <2>1, StillSettling
<1>2. CASE Commit(u)
  BY <1>2, CommitSettles
<1>3. CASE AddVersion(u, 1)
  BY <1>3, AddVersionSettles
<1> QED BY <1>1, <1>2, <1>3 DEF Call

\* A worker moves one version on; the others keep their rows, messages and workers.
LEMMA WorkerSettles ==
  ASSUME Inv, Settling, NEW w \in Workers, NEW d \in Docs, NEW next,
         worker' = worker \/ worker' = [worker EXCEPT ![w] = next],
         worker[w].at = "idle" \/ worker[w].doc = d,
         \A e \in Docs \ {d} : docs'[e] = docs[e] /\ queue'[e] = queue[e],
         queue' \in [Docs -> Nat], cut' = cut, faults' \in Nat, faults' = 0 => faults = 0,
         Settles(d)'
  PROVE  Settling'
<1>1. ASSUME NEW e \in Docs, e # d PROVE Settles(e)'
  <2>1. queue[e] \in Nat /\ worker \in [Workers -> Working]
    BY DEF Inv, Typed, Settling
  <2>2. docs'[e] = docs[e] /\ queue'[e] >= queue[e]
    BY <1>1, <2>1
  <2>3. ASSUME NEW v \in Workers, worker[v].at # "idle", worker[v].doc = e
        PROVE  worker'[v].at # "idle" /\ worker'[v].doc = e
    <3>1. v # w
      BY <1>1, <2>3
    <3>2. worker'[v] = worker[v]
      BY <2>1, <3>1
    <3> QED BY <2>3, <3>2
  <2> QED BY <2>2, <2>3, StaysSettled
<1>2. \A e \in Docs : Settles(e)'
  BY <1>1
<1> QED BY <1>2 DEF Settling

LEMMA ClaimSettles ==
  ASSUME Inv, Settling, NEW w \in Workers, NEW d \in Docs, Claim(w, d)
  PROVE  Settling'
<1> DEFINE next == [IdleWorker EXCEPT !.at = "relock", !.doc = d]
<1>1. /\ worker[w].at = "idle" /\ queue[d] > 0 /\ queue' = [queue EXCEPT ![d] = @ - 1]
      /\ cut' = cut /\ faults' = faults
  BY DEF Claim, OnlyWorker
<1>2. docs \in [Docs -> Rows] /\ worker \in [Workers -> Working]
      /\ queue \in [Docs -> Nat] /\ faults \in Nat /\ Settles(d)
  BY DEF Inv, Typed, Settling
<1>3. queue[d] - 1 \in Nat
  BY <1>1, <1>2
<1>4. queue' \in [Docs -> Nat] /\ \A e \in Docs \ {d} : queue'[e] = queue[e]
  BY <1>1, <1>2, <1>3
<1>5. next.at = "relock" /\ next.doc = d
  BY DEF IdleWorker
<1> HIDE DEF next
<1>6. CASE /\ docs[d].deleted \/ docs[d].status = "PROCESSING"
           /\ docs' = docs /\ worker' = worker
  <2>1. Settles(d)'
    BY <1>1, <1>2, <1>6 DEF Settles, Gone, Asked, Worked
  <2> QED BY <1>1, <1>2, <1>4, <1>6, <2>1, WorkerSettles
<1>7. CASE /\ ~(docs[d].deleted \/ docs[d].status = "PROCESSING")
           /\ docs' = [docs EXCEPT ![d].status = "PROCESSING"]
           /\ worker' = [worker EXCEPT ![w] = next]
  <2>1. docs'[d].status = "PROCESSING" /\ docs'[d].deleted = FALSE
    BY <1>2, <1>7 DEF Rows
  <2>2. worker'[w].at # "idle" /\ worker'[w].doc = d
    BY <1>2, <1>5, <1>7
  <2>3. Settles(d)'
    BY <2>1, <2>2 DEF Settles, Gone, Asked, Worked
  <2>4. \A e \in Docs \ {d} : docs'[e] = docs[e]
    BY <1>2, <1>7
  <2> QED BY <1>1, <1>2, <1>4, <1>7, <2>3, <2>4, WorkerSettles
<1> QED BY <1>6, <1>7 DEF Claim, next

\* The steps of a worker that has claimed a version.
LEMMA ProcessSettles ==
  ASSUME Inv, Settling, NEW w \in Workers, NEW d, d = worker[w].doc, Process(w)
  PROVE  Settling'
<1>0. /\ docs \in [Docs -> Rows] /\ worker \in [Workers -> Working]
      /\ queue \in [Docs -> Nat] /\ faults \in Nat
      /\ worker[w].at # "idle" => d \in Docs
  BY DEF Inv, Typed, Settling, Claimed
<1>1. CASE \E e \in Docs : Claim(w, e)
  BY <1>1, ClaimSettles
<1>2. CASE Relock(w)
  <2>1. /\ worker[w].at = "relock" /\ docs' = docs /\ queue' = queue /\ faults' = faults
        /\ cut' = cut /\ d \in Docs
    BY <1>0, <1>2 DEF Relock, OnlyWorker
  <2>2. Settles(d)
    BY <2>1 DEF Settling
  <2>3. CASE docs[d].deleted /\ worker' = [worker EXCEPT ![w] = IdleWorker]
    <3>1. Settles(d)'
      BY <2>1, <2>2, <2>3 DEF Settles, Gone, Asked, Worked
    <3> QED BY <1>0, <2>1, <2>3, <3>1, WorkerSettles
  <2>4. CASE worker' = [worker EXCEPT ![w].at = "extract", ![w].previous = docs[d].preview]
    <3> DEFINE next == [worker[w] EXCEPT !.at = "extract", !.previous = docs[d].preview]
    <3>1. worker' = [worker EXCEPT ![w] = next] /\ next.at = "extract" /\ next.doc = d
      BY <1>0, <2>4 DEF Working
    <3> HIDE DEF next
    <3>2. worker'[w] = next
      BY <1>0, <3>1
    <3>3. Settles(d)'
      BY <2>1, <2>2, <3>1, <3>2 DEF Settles, Gone, Asked, Worked
    <3> QED BY <1>0, <2>1, <3>1, <3>3, WorkerSettles
  <2> QED BY <1>2, <2>3, <2>4 DEF Relock
<1>3. CASE \E found \in Texts \cup {NoText}, converted \in BOOLEAN : Extract(w, found, converted)
  <2>1. PICK found, converted : Extract(w, found, converted)
    BY <1>3
  <2> DEFINE key == IF converted THEN NewKey(d) ELSE 0
             next == [worker[w] EXCEPT !.at = "ready", !.new = key, !.text = found]
  <2>2. /\ worker[w].at = "extract" /\ docs' = docs /\ queue' = queue /\ faults' = faults
        /\ cut' = cut /\ d \in Docs
        /\ worker' = [worker EXCEPT ![w].at = "ready", ![w].new = key, ![w].text = found]
    BY <1>0, <2>1 DEF Extract, OnlyWorker
  <2> HIDE DEF key
  <2>3. worker' = [worker EXCEPT ![w] = next] /\ next.at = "ready" /\ next.doc = d
    BY <1>0, <2>2 DEF Working
  <2> HIDE DEF next
  <2>4. worker'[w] = next /\ Settles(d)
    BY <1>0, <2>2, <2>3 DEF Settling
  <2>5. Settles(d)'
    BY <2>2, <2>3, <2>4 DEF Settles, Gone, Asked, Worked
  <2> QED BY <1>0, <2>2, <2>3, <2>5, WorkerSettles
<1>4. CASE ExtractionFails(w) \/ CancelProcessing(w)
  <2>1. ProcessingRaises(w) /\ faults' = faults /\ worker[w].at # "idle"
    BY <1>4 DEF ExtractionFails, CancelProcessing
  <2> DEFINE next == [worker[w] EXCEPT !.at = "fail"]
  <2>2. /\ docs' = docs /\ queue' = queue /\ cut' = cut /\ d \in Docs
        /\ worker' = [worker EXCEPT ![w] = next]
    BY <1>0, <2>1 DEF ProcessingRaises, OnlyWorker
  <2>3. next.at = "fail" /\ next.doc = d
    BY <1>0 DEF Working
  <2> HIDE DEF next
  <2>4. worker'[w] = next /\ Settles(d)
    BY <1>0, <2>2 DEF Settling
  <2>5. Settles(d)'
    BY <2>1, <2>2, <2>3, <2>4 DEF Settles, Gone, Asked, Worked
  <2> QED BY <1>0, <2>1, <2>2, <2>5, WorkerSettles
<1>5. CASE MarkReady(w)
  <2>1. /\ worker[w].at # "idle" /\ queue' = queue /\ faults' = faults /\ cut' = cut
        /\ docs' = [docs EXCEPT ![d].status = "READY", ![d].text = worker[w].text,
                                ![d].preview = FinalPreview(w)]
        /\ worker' = [worker EXCEPT ![w] = IdleWorker]
    BY <1>5 DEF MarkReady, OnlyWorker
  <2>2. docs'[d].status = "READY" /\ \A e \in Docs \ {d} : docs'[e] = docs[e]
    BY <1>0, <2>1 DEF Rows
  <2>3. Settles(d)'
    BY <2>2 DEF Settles, Gone, Asked, Worked
  <2> QED BY <1>0, <2>1, <2>2, <2>3, WorkerSettles
<1>6. CASE MarkFailed(w)
  <2>1. /\ worker[w].at = "fail" /\ queue' = queue /\ faults' = faults /\ cut' = cut
        /\ worker' = [worker EXCEPT ![w] = IdleWorker] /\ d \in Docs
    BY <1>0, <1>6 DEF MarkFailed, OnlyWorker
  <2>2. CASE docs[d].deleted /\ docs' = docs
    <3>1. Settles(d)
      BY <2>1 DEF Settling
    <3>2. Settles(d)'
      BY <2>1, <2>2, <3>1 DEF Settles, Gone, Asked, Worked
    <3> QED BY <1>0, <2>1, <2>2, <3>2, WorkerSettles
  <2>3. CASE docs' = [docs EXCEPT ![d].status = "FAILED"]
    <3>1. docs'[d].status = "FAILED" /\ \A e \in Docs \ {d} : docs'[e] = docs[e]
      BY <1>0, <2>1, <2>3 DEF Rows
    <3>2. Settles(d)'
      BY <3>1 DEF Settles, Gone, Asked, Worked
    <3> QED BY <1>0, <2>1, <3>1, <3>2, WorkerSettles
  <2> QED BY <1>6, <2>2, <2>3 DEF MarkFailed
<1> QED BY <1>1, <1>2, <1>3, <1>4, <1>5, <1>6 DEF Process

LEMMA RequestSettles ==
  ASSUME Inv, Settling, Request
  PROVE  Settling'
<1>0. docs \in [Docs -> Rows] /\ queue \in [Docs -> Nat] /\ faults \in Nat
  BY DEF Inv, Typed, Settling
<1>1. CASE \/ \E u \in Users, op \in {"delete", "restore"}, d \in Docs : LockDocument(u, op, d)
           \/ \E u \in Users : LockGroup(u)
           \/ UpdateStatus
  <2>1. docs' = docs /\ worker' = worker /\ cut' = cut /\ queue' = queue /\ faults' = faults
    BY <1>1 DEF LockDocument, LockGroup, UpdateStatus
  <2> QED BY <1>0, <2>1, StillSettling
<1>2. ASSUME NEW d \in Docs, Rerun(d) PROVE Settling'
  <2>1. /\ docs' = docs /\ worker' = worker /\ cut' = cut /\ faults' = faults
        /\ queue' = [queue EXCEPT ![d] = @ + 1]
    BY <1>2 DEF Rerun
  <2>2. queue' \in [Docs -> Nat] /\ \A e \in Docs : queue'[e] >= queue[e]
    BY <1>0, <2>1
  <2>3. \A e \in Docs : Settles(e)'
    BY <2>1, <2>2, StaysSettled
  <2> QED BY <1>0, <2>1, <2>2, <2>3 DEF Settling
<1>3. ASSUME NEW d \in Docs, NEW found \in Texts, PersistTranscription(d, found) PROVE Settling'
  <2>1. /\ docs' = [docs EXCEPT ![d].text = found]
        /\ worker' = worker /\ cut' = cut /\ queue' = queue /\ faults' = faults
    BY <1>3 DEF PersistTranscription
  <2>2. \A e \in Docs : docs'[e].status = docs[e].status /\ docs'[e].deleted = docs[e].deleted
    BY <1>0, <2>1 DEF Rows
  <2> QED BY <1>0, <2>1, <2>2, StillSettling
<1> QED BY <1>1, <1>2, <1>3 DEF Request

LEMMA DisturbSettles ==
  ASSUME Inv, Settling, Disturb
  PROVE  Settling'
<1>1. CASE \E u \in Users : AddVersion(u, 0)
  BY <1>1, AddVersionSettles
<1>2. CASE \/ \E w \in Workers : DatabaseFails(w) \/ Crash(w)
           \/ \E j \in jobs : SyncFails(j)
  <2>1. docs' = docs /\ cut' = cut /\ queue' = queue /\ Fault
    BY <1>2 DEF DatabaseFails, Crash, SyncFails, ProcessingRaises, OnlyWorker, OnlySearch
  <2>2. faults' \in Nat /\ queue' \in [Docs -> Nat]
    BY <2>1 DEF Fault, Settling
  <2>3. ASSUME NEW d \in Docs PROVE Settles(d)'
    <3>1. Gone(d)'
      BY <2>1 DEF Settling, Settles, Gone
    <3> QED BY <2>1, <3>1, FaultSettles
  <2> QED BY <2>2, <2>3 DEF Settling
<1> QED BY <1>1, <1>2 DEF Disturb

LEMMA SettlingStep == Inv /\ Settling /\ [Next]_vars => Settling'
<1> SUFFICES ASSUME Inv, Settling, [Next]_vars PROVE Settling'
  OBVIOUS
<1>0. faults \in Nat
  BY DEF Settling
<1>1. CASE \E u \in Users : Call(u)
  BY <1>1, CallSettles
<1>2. CASE \E w \in Workers : Process(w)
  BY <1>2, ProcessSettles
<1>3. CASE (\E j \in jobs : Sync(j)) \/ Scan
  <2>1. docs' = docs /\ worker' = worker /\ cut' = cut /\ queue' = queue /\ faults' = faults
    BY <1>3 DEF Sync, Scan, OnlySearch
  <2> QED BY <1>0, <2>1, StillSettling
<1>4. CASE UNCHANGED vars
  <2>1. docs' = docs /\ worker' = worker /\ cut' = cut /\ queue' = queue /\ faults' = faults
    BY <1>4 DEF vars
  <2> QED BY <1>0, <2>1, StillSettling
<1> QED BY <1>1, <1>2, <1>3, <1>4, RequestSettles, DisturbSettles DEF Next, Work

\* When everything that was asked for is done, and nothing failed, no version is left
\* waiting: a cancelled or refused extraction marks its version FAILED, and only a
\* version that was deleted before its turn may stay as it is.
THEOREM DocumentsDoSettle == Spec => []DocumentsSettle
<1>1. ASSUME Inv, Settling, AtRest, faults = 0, NEW d \in Existing
      PROVE  docs[d].status \in {"READY", "FAILED"} \/ d \in cut
  <2>1. d \in Docs /\ docs[d].status \in Statuses \ {"ABSENT"}
    BY <1>1 DEF Existing, Inv, Typed, Rows, Statuses
  <2>2. Asked(d) /\ Worked(d)
    BY <1>1, <2>1 DEF Settling, Settles
  <2>3. queue[d] = 0 /\ \A w \in Workers : worker[w].at = "idle"
    BY <1>1, <2>1 DEF AtRest
  <2>4. docs[d].status = "UPLOADED" => d \in cut
    BY <1>1, <2>2, <2>3 DEF Asked
  <2>5. docs[d].status = "PROCESSING" => d \in cut
    BY <1>1, <2>2, <2>3 DEF Worked
  <2> QED BY <2>1, <2>4, <2>5 DEF Statuses
<1>2. Inv /\ Settling => DocumentsSettle
  BY <1>1 DEF DocumentsSettle
<1> QED BY <1>2, Start, Step, SettlingStart, SettlingStep, PTL DEF Spec

-----------------------------------------------------------------------------
(* The highest version of a set.                                           *)

\* Every non-empty set of natural numbers has a least element: < is well-founded.
LEMMA Least ==
  ASSUME NEW S \in SUBSET Nat, S # {}
  PROVE  \E m \in S : \A n \in S : m <= n
<1>1. PICK m \in S : \A n \in S : ~ (<<n, m>> \in OpToRel(<, Nat))
  BY WFMin, NatLessThanWellFounded
<1>2. \A n \in S : ~ (n < m)
  BY <1>1 DEF OpToRel
<1> QED BY <1>2

\* Max is in its set and above the others, if the set is bounded: the least bound is
\* in the set, or the number before it were a bound too.
LEMMA MaxIsHighest ==
  ASSUME NEW S \in SUBSET Docs, S # {}
  PROVE  Max(S) \in S /\ \A d \in S : d <= Max(S)
<1> DEFINE Bounds == {b \in Nat : \A d \in S : d <= b}
<1>0. MaxVersions \in Nat /\ Docs \subseteq Nat \ {0} /\ \A d \in S : d <= MaxVersions
  BY DocumentAssumption DEF Docs
<1>1. PICK m \in Bounds : \A b \in Bounds : m <= b
  <2>1. MaxVersions \in Bounds /\ Bounds \in SUBSET Nat
    BY <1>0
  <2> QED BY <2>1, Least
<1>2. m \in S
  <2> SUFFICES ASSUME m \notin S PROVE FALSE
    OBVIOUS
  <2>1. PICK d \in S : TRUE
    OBVIOUS
  <2>2. m > 0
    BY <1>0, <1>1, <2>1
  <2>3. m - 1 \in Nat /\ \A e \in S : e <= m - 1
    BY <1>0, <1>1, <2>2
  <2> QED BY <1>1, <2>3
<1>3. \A d \in S : d <= m
  BY <1>1
<1> QED BY <1>2, <1>3 DEF Max

LEMMA MaxIsUnique ==
  ASSUME NEW S \in SUBSET Docs, NEW m \in S, \A d \in S : d <= m
  PROVE  Max(S) = m
<1>1. Max(S) \in S /\ \A d \in S : d <= Max(S)
  BY MaxIsHighest
<1>2. Max(S) <= m /\ m <= Max(S)
  BY <1>1
<1>3. \A d \in S : d \in Nat
  BY DocumentAssumption DEF Docs
<1> QED BY <1>1, <1>2, <1>3

LEMMA EffectiveIsAVersion ==
  ASSUME NEW rows
  PROVE  Effective(rows) \in Docs \cup {NoDoc}
<1> DEFINE ready == {d \in Docs : rows[d].status = "READY" /\ ~rows[d].deleted}
<1>1. CASE ready = {}
  BY <1>1 DEF Effective
<1>2. CASE ready # {}
  <2>1. ready \in SUBSET Docs /\ Effective(rows) = Max(ready)
    BY <1>2 DEF Effective
  <2> HIDE DEF ready
  <2> QED BY <1>2, <2>1, MaxIsHighest
<1> QED BY <1>1, <1>2

-----------------------------------------------------------------------------
(* Search follows the versions.  A finished job that is still current has   *)
(* the present text of its version, or none; if the version is searchable,  *)
(* it is with that text.  While the person is deleted and something is      *)
(* searchable, a job is open that takes it away.                            *)

Jobs == [doc : Docs \cup {NoDoc}, text : Texts \cup {NoText}, alive : BOOLEAN,
         current : BOOLEAN, status : {"OPEN", "COMPLETED", "FAILED"}]

HasOpen(js) == \E j \in js : j.status = "OPEN"

\* the text of the row, or that of the page before it was transcribed
TextOf(j, rows)  == j.current /\ j.doc # NoDoc => j.text \in {NoText, rows[j.doc].text}
Believed(j, rows) ==
  j.current /\ j.status = "COMPLETED" /\ j.doc \in active /\ j.text = rows[j.doc].text =>
    chunks[j.doc] = j.text

JobsFit(js, rows) ==
  /\ js \subseteq Jobs
  /\ \A j \in js : TextOf(j, rows) /\ Believed(j, rows)

Searchable ==
  /\ chunks \in [Docs -> Texts \cup {NoText}] /\ active \subseteq Docs
  /\ alive \in BOOLEAN /\ faults \in Nat
  /\ \A d \in Docs : docs[d].status = "ABSENT" => docs[d].text = NoText
  /\ \A d \in active : chunks[d] # NoText
  /\ JobsFit(jobs, docs)
  /\ ~alive /\ active # {} /\ faults = 0 => HasOpen(jobs)

LEMMA SearchableStart == Init => Searchable
<1> SUFFICES ASSUME Init PROVE Searchable
  OBVIOUS
<1>1. PICK n \in {1, 2}, gone \in BOOLEAN :
        /\ gone => n = 2
        /\ chunks = [d \in Docs |-> IF d < n THEN 1 ELSE NoText]
        /\ active = IF gone THEN {} ELSE 1..(n - 1)
        /\ jobs = {} /\ alive = TRUE /\ faults = 0
        /\ docs = [d \in Docs |->
                     IF d < n THEN [status |-> "READY", deleted |-> gone, latest |-> FALSE,
                                    text |-> 1, preview |-> 1]
                     ELSE IF d = n /\ ~gone THEN Uploaded ELSE Absent]
  BY DEF Init
<1>2. 1 \in Texts /\ 1 \in Docs
  BY DocumentAssumption DEF Docs
<1>3. active \subseteq {1} /\ \A d \in active : d < n
  BY <1>1
<1>4. \A d \in Docs : docs[d].status = "ABSENT" => docs[d].text = NoText
  BY <1>1 DEF Absent, Uploaded
<1>5. chunks \in [Docs -> Texts \cup {NoText}] /\ \A d \in active : chunks[d] # NoText
  BY <1>1, <1>2, <1>3 DEF NoText
<1>6. active \subseteq Docs
  BY <1>2, <1>3
<1> QED BY <1>1, <1>4, <1>5, <1>6 DEF Searchable, JobsFit

\* The jobs that are asked for fit the rows they are asked for.
LEMMA EnsuredJobsFit ==
  ASSUME NEW js, NEW rows, NEW living \in BOOLEAN, JobsFit(js, rows),
         \A d \in Docs : rows[d].text \in Texts \cup {NoText}
  PROVE  /\ JobsFit(EnsureSyncJob(js, rows, living), rows)
         /\ HasOpen(js) => HasOpen(EnsureSyncJob(js, rows, living))
         /\ ~living /\ active # {} => HasOpen(EnsureSyncJob(js, rows, living))
<1> DEFINE key == SyncKey(rows, living)
           kept == Job(key, "OPEN") \in js
                   \/ (Job(key, "COMPLETED") \in js /\ ItemsMatch(key.doc, living))
<1>1. EnsureSyncJob(js, rows, living) = IF kept THEN js ELSE Requeued(js, key)
  BY DEF EnsureSyncJob
<1>2. /\ key.doc \in Docs \cup {NoDoc} /\ key.text \in Texts \cup {NoText}
      /\ key.alive = living /\ key.current = TRUE
      /\ key.doc # NoDoc => key.text = rows[key.doc].text
  BY EffectiveIsAVersion DEF SyncKey
<1> HIDE DEF key
<1>3. /\ Job(key, "OPEN") \in Jobs /\ Job(key, "OPEN").status = "OPEN"
      /\ TextOf(Job(key, "OPEN"), rows) /\ Believed(Job(key, "OPEN"), rows)
  BY <1>2 DEF Job, Jobs, TextOf, Believed
<1>4. CASE kept
  <2>1. EnsureSyncJob(js, rows, living) = js
    BY <1>1, <1>4
  <2>2. ~living /\ active # {} => HasOpen(js)
    BY <1>3, <1>4 DEF ItemsMatch, HasOpen
  <2> QED BY <2>1, <2>2
<1>5. CASE ~kept
  <2>1. EnsureSyncJob(js, rows, living) = Requeued(js, key)
    BY <1>1, <1>5
  <2>2. HasOpen(Requeued(js, key))
    BY <1>3 DEF Requeued, HasOpen
  <2>3. \A j \in Requeued(js, key) : j \in js \/ j = Job(key, "OPEN")
    BY DEF Requeued
  <2>4. JobsFit(Requeued(js, key), rows)
    BY <1>3, <2>3 DEF JobsFit
  <2> QED BY <2>1, <2>2, <2>4
<1> QED BY <1>4, <1>5

\* Jobs of touched versions are not current any more: the texts of those may change.
LEMMA TouchedJobsFit ==
  ASSUME NEW rows, NEW D, JobsFit(jobs, docs), active \subseteq Docs,
         \A d \in Docs \ D : rows[d].text = docs[d].text
  PROVE  /\ JobsFit(Touched(jobs, D), rows)
         /\ HasOpen(jobs) => HasOpen(Touched(jobs, D))
<1> DEFINE stale == {j \in jobs : j.current /\ j.doc \in D \ {NoDoc}}
<1>1. Touched(jobs, D) = (jobs \ stale) \cup (IF \E j \in stale : j.status = "OPEN"
                                              THEN {Outdated} ELSE {})
  BY DEF Touched
<1>2. /\ Outdated \in Jobs /\ Outdated.status = "OPEN"
      /\ TextOf(Outdated, rows) /\ Believed(Outdated, rows)
  BY DEF Outdated, Jobs, TextOf, Believed
<1>3. ASSUME NEW j \in jobs \ stale PROVE j \in Jobs /\ TextOf(j, rows) /\ Believed(j, rows)
  <2>1. j \in Jobs /\ TextOf(j, docs) /\ Believed(j, docs)
    BY DEF JobsFit
  <2>2. j.current /\ j.doc # NoDoc => rows[j.doc].text = docs[j.doc].text
    BY <2>1 DEF Jobs
  <2>3. j.doc \in active => j.doc # NoDoc
    BY DEF Docs, NoDoc
  <2>4. TextOf(j, rows)
    BY <2>1, <2>2 DEF TextOf
  <2>5. Believed(j, rows)
    BY <2>1, <2>2, <2>3 DEF Believed
  <2> QED BY <2>1, <2>4, <2>5
<1>4. JobsFit(Touched(jobs, D), rows)
  BY <1>1, <1>2, <1>3 DEF JobsFit
<1>5. HasOpen(jobs) => HasOpen(Touched(jobs, D))
  BY <1>1, <1>2 DEF HasOpen
<1> QED BY <1>4, <1>5

\* A step that leaves the searchable copy alone, and whose jobs fit its rows.
LEMMA StillSearchable ==
  ASSUME Searchable, active' = active, chunks' = chunks,
         alive' \in BOOLEAN, faults' \in Nat, faults' = 0 => faults = 0,
         \A d \in Docs : docs'[d].status = "ABSENT" => docs'[d].text = NoText,
         JobsFit(jobs', docs'),
         ~alive' /\ active # {} /\ (alive \/ HasOpen(jobs)) => HasOpen(jobs')
  PROVE  Searchable'
<1>1. JobsFit(jobs, docs)' <=> JobsFit(jobs', docs')
  BY DEF JobsFit, TextOf, Believed
<1>2. HasOpen(jobs)' <=> HasOpen(jobs')
  BY DEF HasOpen
<1> QED BY <1>1, <1>2 DEF Searchable

\* A step that leaves the rows, the jobs and the searchable copy alone.
LEMMA SearchUntouched ==
  ASSUME Inv, Searchable, docs' = docs, jobs' = jobs, active' = active, chunks' = chunks,
         alive' = alive, faults' \in Nat, faults' = 0 => faults = 0
  PROVE  Searchable'
<1>1. /\ JobsFit(jobs', docs') /\ alive' \in BOOLEAN
      /\ \A d \in Docs : docs'[d].status = "ABSENT" => docs'[d].text = NoText
  BY DEF Searchable
<1> QED BY <1>1, StillSearchable DEF Searchable

\* A step that changes the rows of the versions in D, and touches them.
LEMMA TouchingStep ==
  ASSUME Inv, Searchable, NEW D, docs' \in [Docs -> Rows],
         \A d \in Docs \ D : docs'[d].text = docs[d].text,
         \A d \in Docs : docs'[d].status = "ABSENT" => docs'[d].text = NoText,
         \/ jobs' = Touched(jobs, D)
         \/ jobs' = EnsureSyncJob(Touched(jobs, D), docs', alive),
         active' = active, chunks' = chunks, alive' = alive,
         faults' \in Nat, faults' = 0 => faults = 0
  PROVE  Searchable'
<1>1. active \subseteq Docs /\ JobsFit(jobs, docs) /\ alive \in BOOLEAN
  BY DEF Searchable
<1> DEFINE touched == Touched(jobs, D)
<1>2. JobsFit(touched, docs') /\ (HasOpen(jobs) => HasOpen(touched))
  BY <1>1, TouchedJobsFit
<1>3. \A d \in Docs : docs'[d].text \in Texts \cup {NoText}
  BY DEF Rows
<1> HIDE DEF touched
<1>4. /\ JobsFit(EnsureSyncJob(touched, docs', alive), docs')
      /\ HasOpen(touched) => HasOpen(EnsureSyncJob(touched, docs', alive))
  BY <1>1, <1>2, <1>3, EnsuredJobsFit
<1>5. JobsFit(jobs', docs') /\ (HasOpen(jobs) => HasOpen(jobs'))
  BY <1>2, <1>4 DEF touched
<1> QED BY <1>1, <1>5, StillSearchable

LEMMA CallSearchable ==
  ASSUME Inv, Searchable, NEW u \in Users, Call(u) \/ AddVersion(u, 0)
  PROVE  Searchable'
<1>0. /\ faults \in Nat /\ docs \in [Docs -> Rows]
      /\ \A d \in Docs : docs[d].status = "ABSENT" => docs[d].text = NoText
  BY DEF Inv, Typed, Searchable
<1>1. CASE \/ \E d \in Docs : ClearRow(u, d)
           \/ SelectLatest(u) \/ Promote(u) \/ IntegrityError(u) \/ CancelCall(u)
  <2>1. /\ docs' = docs /\ jobs' = jobs /\ active' = active /\ chunks' = chunks
        /\ alive' = alive /\ faults' = faults
    BY <1>1 DEF ClearRow, SelectLatest, Promote, IntegrityError, CancelCall, Rollback
  <2> QED BY <1>0, <2>1, SearchUntouched
<1>2. CASE Commit(u)
  <2> DEFINE D == {tx[u].doc, tx[u].picked}
  <2>1. /\ docs' = Written(u) /\ jobs' = EnsureSyncJob(Touched(jobs, D), Written(u), alive)
        /\ active' = active /\ chunks' = chunks /\ alive' = alive /\ faults' = faults
    BY <1>2 DEF Commit
  <2>2. \A d \in Docs : docs'[d].text = docs[d].text /\ docs'[d].status = docs[d].status
    BY <1>0, <2>1 DEF Written, Rows
  <2>3. docs' \in [Docs -> Rows]
    BY <1>2, CommitIsCalm DEF Calm
  <2> HIDE DEF D
  <2> QED BY <1>0, <2>1, <2>2, <2>3, TouchingStep
<1>3. ASSUME NEW sent \in {0, 1}, AddVersion(u, sent) PROVE Searchable'
  <2>1. PICK new \in Docs :
          /\ Existing = 1..(new - 1)
          /\ docs' = [d \in Docs |-> IF d = new THEN Uploaded
                                    ELSE [docs[d] EXCEPT !.latest = @ /\ d \notin tx[u].cleared]]
          /\ jobs' = Touched(jobs, tx[u].cleared)
          /\ IF sent = 0 THEN Fault ELSE faults' = faults
          /\ active' = active /\ chunks' = chunks /\ alive' = alive
    BY <1>3 DEF AddVersion
  <2>2. faults' \in Nat /\ (faults' = 0 => faults = 0)
    BY <1>0, <2>1 DEF Fault
  <2>3. Uploaded \in Rows /\ Uploaded.text = NoText /\ Uploaded.status = "UPLOADED"
    BY DEF Uploaded, Absent, Rows, Statuses
  <2>4. docs[new].status = "ABSENT"
    <3>1. new \notin Existing
      BY <2>1, DocumentAssumption DEF Docs
    <3> QED BY <3>1 DEF Existing
  <2>5. ASSUME NEW d \in Docs
        PROVE  /\ docs'[d] \in Rows /\ docs'[d].text = docs[d].text
               /\ docs'[d].status = "ABSENT" => docs'[d].text = NoText
    <3>1. CASE d = new
      BY <1>0, <2>1, <2>3, <2>4, <3>1
    <3>2. CASE d # new
      BY <1>0, <2>1, <3>2 DEF Rows
    <3> QED BY <3>1, <3>2
  <2>6. docs' \in [Docs -> Rows]
    BY <2>1, <2>5
  <2> QED BY <2>1, <2>2, <2>5, <2>6, TouchingStep
<1> QED BY <1>1, <1>2, <1>3 DEF Call

LEMMA ProcessSearchable ==
  ASSUME Inv, Searchable, NEW w \in Workers, Process(w)
  PROVE  Searchable'
<1>0. /\ faults \in Nat /\ docs \in [Docs -> Rows] /\ worker \in [Workers -> Working]
      /\ \A d \in Docs : docs[d].status = "ABSENT" => docs[d].text = NoText
      /\ worker[w].at # "idle" => worker[w].doc \in Docs
  BY DEF Inv, Typed, Searchable, Claimed
<1>1. ASSUME NEW d \in Docs, NEW st \in {"PROCESSING", "FAILED"},
             \/ docs' = docs /\ jobs' = jobs
             \/ docs' = [docs EXCEPT ![d].status = st] /\ jobs' = Touched(jobs, {d}),
             OnlyWorker, faults' = faults
      PROVE  Searchable'
  <2>1. active' = active /\ chunks' = chunks /\ alive' = alive
    BY <1>1 DEF OnlyWorker
  <2>2. CASE docs' = docs /\ jobs' = jobs
    BY <1>0, <1>1, <2>1, <2>2, SearchUntouched
  <2>3. CASE docs' = [docs EXCEPT ![d].status = st] /\ jobs' = Touched(jobs, {d})
    <3>1. /\ docs' \in [Docs -> Rows] /\ \A e \in Docs : docs'[e].text = docs[e].text
          /\ \A e \in Docs : docs'[e].status = "ABSENT" => docs'[e].text = NoText
      BY <1>0, <2>3 DEF Rows, Statuses
    <3> QED BY <1>0, <1>1, <2>1, <2>3, <3>1, TouchingStep
  <2> QED BY <1>1, <2>2, <2>3
<1>2. CASE \E d \in Docs : Claim(w, d)
  <2>1. PICK d \in Docs : Claim(w, d)
    BY <1>2
  <2>2. /\ OnlyWorker /\ faults' = faults
        /\ \/ docs' = docs /\ jobs' = jobs
           \/ docs' = [docs EXCEPT ![d].status = "PROCESSING"] /\ jobs' = Touched(jobs, {d})
    BY <2>1 DEF Claim
  <2> QED BY <1>1, <2>2
<1>3. CASE \/ Relock(w) \/ ExtractionFails(w) \/ CancelProcessing(w)
           \/ \E found \in Texts \cup {NoText}, converted \in BOOLEAN : Extract(w, found, converted)
  <2>1. docs' = docs /\ jobs' = jobs /\ OnlyWorker /\ faults' = faults
    BY <1>3 DEF Relock, ExtractionFails, CancelProcessing, ProcessingRaises, Extract
  <2>2. active' = active /\ chunks' = chunks /\ alive' = alive
    BY <2>1 DEF OnlyWorker
  <2> QED BY <1>0, <2>1, <2>2, SearchUntouched
<1>4. CASE MarkReady(w)
  <2> DEFINE d == worker[w].doc
             p == FinalPreview(w)
  <2>1. /\ worker[w].at = "ready" /\ faults' = faults /\ OnlyWorker
        /\ docs' = [docs EXCEPT ![d].status = "READY", ![d].text = worker[w].text,
                                ![d].preview = p]
        /\ jobs' = EnsureSyncJob(Touched(jobs, {d}), docs', alive)
    BY <1>4 DEF MarkReady
  <2>2. p \in Keys \cup {0} /\ worker[w].text \in Texts \cup {NoText} /\ d \in Docs
    <3>1. docs[d] \in Rows /\ d \in Docs /\ worker[w] \in Working
      BY <1>0, <2>1
    <3> QED BY <3>1 DEF FinalPreview, Working
  <2> HIDE DEF p
  <2>3. active' = active /\ chunks' = chunks /\ alive' = alive
    BY <2>1 DEF OnlyWorker
  <2>4. docs' \in [Docs -> Rows]
    BY <1>0, <2>1, <2>2 DEF Rows, Statuses
  <2>5. /\ docs'[d].status = "READY" /\ \A e \in Docs \ {d} : docs'[e] = docs[e]
    BY <1>0, <2>1, <2>2 DEF Rows
  <2>6. /\ \A e \in Docs \ {d} : docs'[e].text = docs[e].text
        /\ \A e \in Docs : docs'[e].status = "ABSENT" => docs'[e].text = NoText
    BY <1>0, <2>5
  <2> HIDE DEF d
  <2> QED BY <1>0, <2>1, <2>3, <2>4, <2>6, TouchingStep
<1>5. CASE MarkFailed(w)
  <2>1. /\ worker[w].doc \in Docs /\ OnlyWorker /\ faults' = faults
        /\ \/ docs' = docs /\ jobs' = jobs
           \/ /\ docs' = [docs EXCEPT ![worker[w].doc].status = "FAILED"]
              /\ jobs' = Touched(jobs, {worker[w].doc})
    BY <1>0, <1>5 DEF MarkFailed
  <2> QED BY <1>1, <2>1
<1> QED BY <1>2, <1>3, <1>4, <1>5 DEF Process

LEMMA RequestSearchable ==
  ASSUME Inv, Searchable, Request
  PROVE  Searchable'
<1>0. /\ faults \in Nat /\ docs \in [Docs -> Rows] /\ alive \in BOOLEAN /\ JobsFit(jobs, docs)
      /\ \A d \in Docs : docs[d].status = "ABSENT" => docs[d].text = NoText
      /\ \A d \in Docs : docs[d].text \in Texts \cup {NoText}
  BY DEF Inv, Typed, Searchable, Rows
<1>1. CASE \/ \E u \in Users, op \in {"delete", "restore"}, d \in Docs : LockDocument(u, op, d)
           \/ \E u \in Users : LockGroup(u)
           \/ \E d \in Docs : Rerun(d)
  <2>1. /\ docs' = docs /\ jobs' = jobs /\ active' = active /\ chunks' = chunks
        /\ alive' = alive /\ faults' = faults
    BY <1>1 DEF LockDocument, LockGroup, Rerun
  <2> QED BY <1>0, <2>1, SearchUntouched
<1>2. CASE UpdateStatus
  <2>1. /\ docs' = docs /\ alive' = ~alive /\ jobs' = EnsureSyncJob(jobs, docs, alive')
        /\ active' = active /\ chunks' = chunks /\ faults' = faults
    BY <1>2 DEF UpdateStatus
  <2> DEFINE living == alive'
  <2>2. living \in BOOLEAN
    BY <1>0, <2>1
  <2> HIDE DEF living
  <2>3. /\ JobsFit(EnsureSyncJob(jobs, docs, living), docs)
        /\ ~living /\ active # {} => HasOpen(EnsureSyncJob(jobs, docs, living))
    BY <1>0, <2>2, EnsuredJobsFit
  <2> USE DEF living
  <2> QED BY <1>0, <2>1, <2>2, <2>3, StillSearchable
<1>3. ASSUME NEW d \in Docs, NEW found \in Texts, PersistTranscription(d, found)
      PROVE  Searchable'
  <2>1. /\ docs' = [docs EXCEPT ![d].text = found] /\ jobs' = EnsureSyncJob(jobs, docs', alive)
        /\ docs[d].status = "READY" /\ docs[d].text = NoText
        /\ active' = active /\ chunks' = chunks /\ alive' = alive /\ faults' = faults
    BY <1>3 DEF PersistTranscription
  <2>2. /\ found # NoText
        /\ docs'[d].text = found /\ docs'[d].status = "READY"
        /\ \A e \in Docs \ {d} : docs'[e] = docs[e]
    BY <1>0, <2>1, DocumentAssumption DEF Rows
  <2>3. ASSUME NEW j \in jobs PROVE j \in Jobs /\ TextOf(j, docs') /\ Believed(j, docs')
    <3>1. j \in Jobs /\ TextOf(j, docs) /\ Believed(j, docs) /\ active \subseteq Docs
      BY <1>0 DEF JobsFit, Searchable
    <3>2. j.doc \in Docs \/ j.doc = NoDoc
      BY <3>1 DEF Jobs
    <3>3. TextOf(j, docs')
      BY <2>1, <2>2, <3>1, <3>2 DEF TextOf
    <3>4. NoDoc \notin active
      BY <3>1 DEF Docs, NoDoc
    <3>5. Believed(j, docs')
      BY <2>1, <2>2, <3>1, <3>2, <3>4 DEF TextOf, Believed
    <3> QED BY <3>1, <3>3, <3>5
  <2>4. JobsFit(jobs, docs')
    BY <2>3 DEF JobsFit
  <2>5. \A e \in Docs : /\ docs'[e].text \in Texts \cup {NoText}
                        /\ docs'[e].status = "ABSENT" => docs'[e].text = NoText
    BY <1>0, <2>2
  <2> DEFINE rows == docs'
  <2>6. JobsFit(jobs, rows) /\ \A e \in Docs : rows[e].text \in Texts \cup {NoText}
    BY <2>4, <2>5
  <2> HIDE DEF rows
  <2>7. /\ JobsFit(EnsureSyncJob(jobs, rows, alive), rows)
        /\ HasOpen(jobs) => HasOpen(EnsureSyncJob(jobs, rows, alive))
    BY <1>0, <2>6, EnsuredJobsFit
  <2> USE DEF rows
  <2> QED BY <1>0, <2>1, <2>5, <2>7, StillSearchable
<1> QED BY <1>1, <1>2, <1>3 DEF Request

LEMMA ScanSearchable ==
  ASSUME Inv, Searchable, Scan
  PROVE  Searchable'
<1>1. /\ faults \in Nat /\ docs \in [Docs -> Rows] /\ alive \in BOOLEAN /\ JobsFit(jobs, docs)
      /\ \A d \in Docs : docs[d].status = "ABSENT" => docs[d].text = NoText
      /\ \A d \in Docs : docs[d].text \in Texts \cup {NoText}
  BY DEF Inv, Typed, Searchable, Rows
<1>2. /\ docs' = docs /\ jobs' = EnsureSyncJob(jobs, docs, alive)
      /\ active' = active /\ chunks' = chunks /\ alive' = alive /\ faults' = faults
  BY DEF Scan, OnlySearch
<1>3. /\ JobsFit(EnsureSyncJob(jobs, docs, alive), docs)
      /\ HasOpen(jobs) => HasOpen(EnsureSyncJob(jobs, docs, alive))
  BY <1>1, EnsuredJobsFit
<1> QED BY <1>1, <1>2, <1>3, StillSearchable

\* A finished job leaves the searchable copy with the present text, whatever version
\* its key names.
LEMMA SyncSearchable ==
  ASSUME Inv, Searchable, NEW j \in jobs, Sync(j)
  PROVE  Searchable'
<1> DEFINE e == Effective(docs)
<1>1. /\ IF ~alive \/ e = NoDoc
         THEN active' = {} /\ chunks' = chunks
         ELSE /\ active' = IF docs[e].text = NoText THEN {} ELSE {e}
              /\ chunks' = [chunks EXCEPT ![e] = docs[e].text]
      /\ jobs' = Closed(j, "COMPLETED")
      /\ alive' = alive /\ faults' = faults /\ docs' = docs
  BY DEF Sync, OnlySearch
<1>2. e \in Docs \cup {NoDoc}
  BY EffectiveIsAVersion
<1> HIDE DEF e
<1>3. /\ faults \in Nat /\ docs \in [Docs -> Rows] /\ alive \in BOOLEAN
      /\ chunks \in [Docs -> Texts \cup {NoText}] /\ jobs \subseteq Jobs
      /\ \A d \in Docs : docs[d].status = "ABSENT" => docs[d].text = NoText
      /\ \A i \in jobs : i \in Jobs /\ TextOf(i, docs)
  BY DEF Inv, Typed, Searchable, JobsFit
<1>4. /\ chunks' \in [Docs -> Texts \cup {NoText}] /\ active' \subseteq Docs
      /\ \A d \in active' : chunks'[d] = docs[d].text /\ docs[d].text # NoText
  <2>1. CASE ~alive \/ e = NoDoc
    BY <1>1, <1>3, <2>1
  <2>2. CASE ~(~alive \/ e = NoDoc)
    <3>1. e \in Docs /\ docs[e].text \in Texts \cup {NoText}
      BY <1>2, <1>3, <2>2 DEF Rows
    <3> QED BY <1>1, <1>3, <2>2, <3>1
  <2> QED BY <2>1, <2>2
<1>5. ~alive => active' = {}
  BY <1>1
<1>6. ASSUME NEW i \in jobs'
      PROVE  /\ i \in Jobs
             /\ i.current /\ i.doc # NoDoc => i.text \in {NoText, docs[i.doc].text}
             /\ i.current /\ i.status = "COMPLETED" /\ i.doc \in active'
                /\ i.text = docs[i.doc].text => chunks'[i.doc] = i.text
  <2>1. CASE i \in jobs
    BY <1>3, <1>4, <2>1 DEF TextOf
  <2>2. CASE i = [j EXCEPT !.status = "COMPLETED"]
    <3>1. /\ i \in Jobs /\ i.current = j.current /\ i.doc = j.doc /\ i.text = j.text
      BY <1>3, <2>2 DEF Jobs
    <3> QED BY <1>3, <1>4, <3>1 DEF TextOf
  <2> QED BY <1>1, <2>1, <2>2 DEF Closed
<1>7. JobsFit(jobs, docs)'
  BY <1>1, <1>6 DEF JobsFit, TextOf, Believed
<1>8. \A d \in active' : chunks'[d] # NoText
  BY <1>4
<1> QED BY <1>1, <1>3, <1>4, <1>5, <1>7, <1>8 DEF Searchable

LEMMA DisturbSearchable ==
  ASSUME Inv, Searchable, Disturb
  PROVE  Searchable'
<1>0. faults \in Nat /\ docs \in [Docs -> Rows] /\ jobs \subseteq Jobs /\ JobsFit(jobs, docs)
  BY DEF Inv, Typed, Searchable, JobsFit
<1>1. CASE \E u \in Users : AddVersion(u, 0)
  BY <1>1, CallSearchable
<1>2. CASE \E w \in Workers : DatabaseFails(w) \/ Crash(w)
  <2>1. docs' = docs /\ jobs' = jobs /\ OnlyWorker /\ Fault
    BY <1>2 DEF DatabaseFails, Crash, ProcessingRaises
  <2>2. /\ active' = active /\ chunks' = chunks /\ alive' = alive
        /\ faults' \in Nat /\ (faults' = 0 => faults = 0)
    BY <1>0, <2>1 DEF OnlyWorker, Fault
  <2> QED BY <2>1, <2>2, SearchUntouched
<1>3. CASE \E j \in jobs : SyncFails(j)
  <2>1. PICK j \in jobs : SyncFails(j)
    BY <1>3
  <2>2. /\ jobs' = Closed(j, "FAILED") /\ faults' = faults + 1 /\ docs' = docs
        /\ active' = active /\ chunks' = chunks /\ alive' = alive
    BY <2>1 DEF SyncFails, OnlySearch, Fault
  <2>3. ASSUME NEW i \in jobs' PROVE i \in Jobs /\ TextOf(i, docs) /\ Believed(i, docs)
    <3>1. CASE i \in jobs
      BY <1>0, <3>1 DEF JobsFit
    <3>2. CASE i = [j EXCEPT !.status = "FAILED"]
      <4>1. /\ i \in Jobs /\ i.current = j.current /\ i.doc = j.doc /\ i.text = j.text
            /\ i.status = "FAILED" /\ TextOf(j, docs)
        BY <1>0, <3>2 DEF Jobs, JobsFit
      <4> QED BY <4>1 DEF TextOf, Believed
    <3> QED BY <2>2, <3>1, <3>2 DEF Closed
  <2>4. JobsFit(jobs', docs)
    BY <2>3 DEF JobsFit
  <2>5. JobsFit(jobs, docs)'
    BY <2>2, <2>4 DEF JobsFit, TextOf, Believed
  <2>6. faults' \in Nat /\ faults' # 0
    BY <1>0, <2>2
  <2> QED BY <2>2, <2>5, <2>6 DEF Searchable
<1> QED BY <1>1, <1>2, <1>3 DEF Disturb

LEMMA SearchableStep == Inv /\ Searchable /\ [Next]_vars => Searchable'
<1> SUFFICES ASSUME Inv, Searchable, [Next]_vars PROVE Searchable'
  OBVIOUS
<1>1. CASE \E u \in Users : Call(u)
  BY <1>1, CallSearchable
<1>2. CASE \E w \in Workers : Process(w)
  BY <1>2, ProcessSearchable
<1>3. CASE \E j \in jobs : Sync(j)
  BY <1>3, SyncSearchable
<1>4. CASE UNCHANGED vars
  <2>1. /\ docs' = docs /\ jobs' = jobs /\ active' = active /\ chunks' = chunks
        /\ alive' = alive /\ faults' = faults /\ faults \in Nat
    BY <1>4 DEF vars, Searchable
  <2> QED BY <2>1, SearchUntouched
<1> QED BY <1>1, <1>2, <1>3, <1>4, ScanSearchable, RequestSearchable, DisturbSearchable
        DEF Next, Work

\* When everything that was asked for is done, search shows the effective version with
\* its present text and no other: every change asks for a job, or the scanner finds
\* it.  A version that never got chunks, and the failed job of a deleted person, are
\* the exceptions.
THEOREM SearchDoesCatchUp == Spec => []SearchCatchesUp
<1>1. ASSUME Inv, Searchable, AtRest
      PROVE  Indexed \/ NeverChunked \/ (~alive /\ faults > 0)
  <2> DEFINE e   == Effective(docs)
             key == SyncKey(docs, alive)
  <2>1. /\ ~HasOpen(jobs) /\ ~NeedsSync
    BY <1>1 DEF AtRest, HasOpen
  <2>2. CASE ~alive
    <3>1. faults \in Nat /\ (faults = 0 => active = {})
      BY <1>1, <2>1, <2>2 DEF Searchable
    <3>2. faults = 0 => Indexed
      BY <2>2, <3>1 DEF Indexed
    <3> QED BY <2>2, <3>1, <3>2
  <2>3. CASE alive
    <3>1. e \in Docs \cup {NoDoc}
      BY EffectiveIsAVersion
    <3>2. /\ key.doc = e /\ key.current = TRUE
          /\ key.text = IF e = NoDoc THEN NoText ELSE docs[e].text
      BY DEF SyncKey
    <3>3. CASE e = NoDoc /\ \A d \in Docs : chunks[d] = NoText
      <4>1. active = {}
        BY <1>1, <3>3 DEF Searchable
      <4> QED BY <3>3, <4>1 DEF Indexed
    <3>4. CASE EnsureSyncJob(jobs, docs, alive) = jobs
      <4>1. Job(key, "COMPLETED") \in jobs /\ ItemsMatch(e, alive)
        <5> HIDE DEF key
        <5>1. Job(key, "OPEN").status = "OPEN" /\ Job(key, "OPEN") \in Requeued(jobs, key)
          BY DEF Job, Requeued
        <5>2. Job(key, "OPEN") \notin jobs
          BY <2>1, <5>1 DEF HasOpen
        <5>3. Requeued(jobs, key) # jobs
          BY <5>1, <5>2
        <5>4. Job(key, "COMPLETED") \in jobs /\ ItemsMatch(key.doc, alive)
          BY <3>4, <5>2, <5>3 DEF EnsureSyncJob, key
        <5> QED BY <3>2, <5>4
      <4>2. CASE e = NoDoc
        <5>1. active = {}
          BY <4>1, <4>2 DEF ItemsMatch
        <5> QED BY <4>2, <5>1 DEF Indexed
      <4>3. CASE e # NoDoc /\ chunks[e] = NoText
        <5>1. active = {}
          BY <4>1, <4>3 DEF ItemsMatch
        <5> QED BY <4>1, <4>3, <5>1 DEF NeverChunked
      <4>4. CASE e # NoDoc /\ chunks[e] # NoText
        <5>1. active = {e}
          BY <2>3, <4>1, <4>4 DEF ItemsMatch
        <5> DEFINE j == Job(key, "COMPLETED")
        <5>2. j.doc = e /\ j.text = docs[e].text /\ j.current = TRUE /\ j.status = "COMPLETED"
          BY <3>2, <4>4 DEF Job
        <5>3. Believed(j, docs)
          BY <1>1, <4>1 DEF Searchable, JobsFit
        <5> HIDE DEF j
        <5>4. chunks[e] = docs[e].text
          BY <5>1, <5>2, <5>3 DEF Believed
        <5> QED BY <2>3, <4>4, <5>1, <5>4 DEF Indexed
      <4> QED BY <4>2, <4>3, <4>4
    <3> QED BY <2>1, <2>3, <3>1, <3>3, <3>4 DEF NeedsSync
  <2> QED BY <2>2, <2>3
<1>2. Inv /\ Searchable => SearchCatchesUp
  BY <1>1 DEF SearchCatchesUp
<1> QED BY <1>2, Start, Step, SearchableStart, SearchableStep, PTL DEF Spec

-----------------------------------------------------------------------------
(* One version is the latest.  A call that deletes or restores locks every  *)
(* row of the group: while it is past that, no other one is, and what it    *)
(* has picked stays the highest, or its index refuses it.  A call that adds *)
(* a version holds the group, so that no other one commits meanwhile.       *)

Calls == [op : {"none", "delete", "restore", "version"},
          at : {"idle", "clear", "promote", "sync"},
          doc : Docs \cup {NoDoc}, rest : SUBSET Docs,
          cleared : SUBSET Docs, picked : Docs \cup {NoDoc}]

Shown == {d \in Existing : ~docs[d].deleted}

OwnRows(u) ==
  tx[u].at # "idle" =>
    /\ tx[u].cleared \cup tx[u].rest \subseteq Existing
    /\ \A d \in tx[u].cleared : docLock[d] = u

Whole(u) ==
  tx[u].at # "idle" /\ tx[u].op # "version" =>
    /\ tx[u].doc \in tx[u].cleared
    /\ docs[tx[u].doc].deleted = (tx[u].op = "restore")
    /\ 1 \in tx[u].cleared \cup tx[u].rest
    /\ tx[u].at \in {"promote", "sync"} => tx[u].rest = {}

Grouped(u) ==
  tx[u].at # "idle" /\ tx[u].op = "version" =>
    /\ tx[u].at = "clear" /\ groupLock = u /\ tx[u].doc = NoDoc /\ tx[u].picked = NoDoc
    /\ \A d \in Shown : docs[d].latest => d \in tx[u].cleared \cup tx[u].rest

Picked(u) ==
  /\ tx[u].at = "promote" =>
       tx[u].picked \in ActiveFor(u) /\ (tx[u].picked = HighestActive(u) \/ Clash(u, tx[u].picked))
  /\ tx[u].at = "sync" => tx[u].picked = HighestActive(u) /\ ~Clash(u, tx[u].picked)

InOrder(u) == OwnRows(u) /\ Whole(u) /\ Grouped(u) /\ Picked(u)

Flags ==
  /\ tx \in [Users -> Calls]
  /\ 1 \in Existing /\ \A d \in Docs : queue[d] > 0 => d \in Existing
  /\ \A u \in Users : InOrder(u)
  /\ LatestIsHighest

LEMMA FlagsStart == Init => Flags
<1> SUFFICES ASSUME Init PROVE Flags
  OBVIOUS
<1> DEFINE first(gone) == [status |-> "READY", deleted |-> gone, latest |-> FALSE,
                           text |-> 1, preview |-> 1]
           other(n, gone, d) == IF d = n /\ ~gone THEN Uploaded ELSE Absent
<1>1. PICK n \in {1, 2}, gone \in BOOLEAN :
        /\ gone => n = 2
        /\ docs = [d \in Docs |-> IF d < n THEN first(gone) ELSE other(n, gone, d)]
        /\ queue = [d \in Docs |-> IF d = n /\ ~gone THEN 1 ELSE 0]
        /\ tx = [u \in Users |-> IdleTx]
  BY DEF Init
<1>2. /\ Uploaded.status = "UPLOADED" /\ Uploaded.deleted = FALSE /\ Uploaded.latest = TRUE
      /\ Absent.status = "ABSENT"
      /\ first(gone).status = "READY" /\ first(gone).deleted = gone
      /\ first(gone).latest = FALSE
  BY DEF Uploaded, Absent
<1>3. 1 \in Docs /\ 2 \in Docs /\ Docs \subseteq Nat
  BY DocumentAssumption DEF Docs
<1>4. IdleTx \in Calls /\ IdleTx.at = "idle"
  BY DEF IdleTx, Calls
<1> HIDE DEF first
<1>5. ASSUME NEW d \in Docs
      PROVE  /\ d < n => docs[d] = first(gone) /\ queue[d] = 0
             /\ d = n /\ ~gone => docs[d] = Uploaded
             /\ d = n /\ gone => docs[d] = Absent /\ queue[d] = 0
             /\ d > n => docs[d] = Absent /\ queue[d] = 0
  BY <1>1, <1>3
<1>6. ASSUME NEW d \in Docs
      PROVE  /\ docs[d].status # "ABSENT" <=> d < n \/ (d = n /\ ~gone)
             /\ docs[d].status # "ABSENT" => docs[d].deleted = gone
             /\ docs[d].status # "ABSENT" => (docs[d].latest <=> d = n)
  <2>1. CASE d < n
    BY <1>2, <1>3, <1>5, <2>1
  <2>2. CASE d = n /\ ~gone
    BY <1>2, <1>5, <2>2
  <2>3. CASE (d = n /\ gone) \/ d > n
    BY <1>2, <1>3, <1>5, <2>3
  <2> QED BY <1>3, <2>1, <2>2, <2>3
<1>7. /\ Existing = {d \in Docs : d < n \/ (d = n /\ ~gone)}
      /\ Shown = IF gone THEN {} ELSE {d \in Docs : d <= n}
  <2>1. Existing = {d \in Docs : d < n \/ (d = n /\ ~gone)}
    BY <1>6 DEF Existing
  <2>2. Shown = {d \in Existing : ~gone}
    BY <1>6 DEF Shown, Existing
  <2>3. gone => Shown = {}
    BY <2>2
  <2>4. ~gone => Shown = Existing
    BY <2>2
  <2>5. ~gone => Existing = {d \in Docs : d <= n}
    <3>1. \A d \in Docs : d <= n <=> d < n \/ d = n
      BY <1>3
    <3> QED BY <2>1, <3>1
  <2> QED BY <2>1, <2>3, <2>4, <2>5
<1>8. 1 \in Existing /\ \A d \in Docs : queue[d] > 0 => d \in Existing
  BY <1>1, <1>3, <1>5, <1>7
<1>9. ~gone => Max(Shown) = n
  <2>1. ~gone => n \in Shown /\ Shown \in SUBSET Docs /\ \A d \in Shown : d <= n
    BY <1>3, <1>7
  <2> QED BY <2>1, MaxIsUnique
<1>10. \A d \in Existing : docs[d].latest <=> Shown # {} /\ d = Max(Shown)
  <2> SUFFICES ASSUME NEW d \in Docs, docs[d].status # "ABSENT"
               PROVE  docs[d].latest <=> Shown # {} /\ d = Max(Shown)
    BY DEF Existing
  <2>1. CASE gone
    <3>1. d < n /\ Shown = {}
      BY <1>6, <1>7, <2>1
    <3> QED BY <1>3, <1>6, <3>1
  <2>2. CASE ~gone
    <3>1. Shown # {}
      BY <1>3, <1>7, <2>2
    <3> QED BY <1>6, <1>9, <2>2, <3>1
  <2> QED BY <2>1, <2>2
<1>11. \A u \in Users : InOrder(u)
  BY <1>1, <1>4 DEF InOrder, OwnRows, Whole, Grouped, Picked
<1>12. tx \in [Users -> Calls]
  BY <1>1, <1>4
<1> QED BY <1>8, <1>10, <1>11, <1>12 DEF Flags, LatestIsHighest, Shown

\* Only a version that is shown is the latest; if one is shown, one is the latest.
LEMMA LatestIsShown ==
  ASSUME LatestIsHighest
  PROVE  /\ \A d \in Existing : docs[d].latest => d \in Shown
         /\ Shown # {} => Max(Shown) \in Shown /\ docs[Max(Shown)].latest
<1>1. \A d \in Existing : docs[d].latest <=> Shown # {} /\ d = Max(Shown)
  BY DEF LatestIsHighest, Shown
<1>2. Shown \in SUBSET Docs /\ Shown \subseteq Existing
  BY DEF Shown, Existing
<1>3. Shown # {} => Max(Shown) \in Shown
  BY <1>2, MaxIsHighest
<1> QED BY <1>1, <1>2, <1>3

LEMMA HighestIsActive ==
  ASSUME NEW u \in Users
  PROVE  /\ ActiveFor(u) # {} => /\ HighestActive(u) = Max(ActiveFor(u))
                                 /\ HighestActive(u) \in ActiveFor(u)
         /\ HighestActive(u) = NoDoc <=> ActiveFor(u) = {}
<1>1. ActiveFor(u) \in SUBSET Docs
  BY DEF ActiveFor, Existing
<1>2. NoDoc \notin Docs
  BY DEF NoDoc, Docs
<1>3. ActiveFor(u) # {} => Max(ActiveFor(u)) \in ActiveFor(u)
  BY <1>1, MaxIsHighest
<1> QED BY <1>1, <1>2, <1>3 DEF HighestActive

\* A step that writes neither flags nor rows into being.
SameFlags ==
  /\ Existing' = Existing
  /\ \A d \in Docs : docs'[d].deleted = docs[d].deleted /\ docs'[d].latest = docs[d].latest

LEMMA SameFlagsSameLatest ==
  ASSUME Flags, SameFlags
  PROVE  LatestIsHighest'
<1>1. Shown' = Shown /\ Existing \subseteq Docs
  BY DEF SameFlags, Shown, Existing
<1>2. \A d \in Existing : docs[d].latest <=> Shown # {} /\ d = Max(Shown)
  BY DEF Flags, LatestIsHighest, Shown
<1>3. \A d \in Existing' : docs'[d].latest <=> Shown' # {} /\ d = Max(Shown')
  BY <1>1, <1>2 DEF SameFlags
<1> QED BY <1>3 DEF LatestIsHighest, Shown

LEMMA SameActive ==
  ASSUME SameFlags, NEW u \in Users, tx'[u].doc = tx[u].doc, tx'[u].op = tx[u].op
  PROVE  ActiveFor(u)' = ActiveFor(u) /\ HighestActive(u)' = HighestActive(u)
<1>1. \A d \in Docs : DeletedFor(u, d)' <=> DeletedFor(u, d)
  BY DEF SameFlags, DeletedFor
<1>2. Existing \subseteq Docs
  BY DEF Existing
<1>3. ActiveFor(u)' = ActiveFor(u)
  BY <1>1, <1>2 DEF SameFlags, ActiveFor
<1> QED BY <1>3 DEF HighestActive

\* A call that does nothing keeps its order, if it keeps its locks.
LEMMA StaysInOrder ==
  ASSUME Flags, SameFlags, NEW u \in Users, tx'[u] = tx[u],
         \A d \in Docs : docLock[d] = u => docLock'[d] = u,
         groupLock = u => groupLock' = u
  PROVE  InOrder(u)'
<1>1. OwnRows(u) /\ Whole(u) /\ Grouped(u) /\ Picked(u) /\ Existing \subseteq Docs
  BY DEF Flags, InOrder, Existing
<1>2. OwnRows(u)'
  BY <1>1 DEF OwnRows, SameFlags
<1>3. Whole(u)'
  <2>1. tx[u].at # "idle" /\ tx[u].op # "version" => tx[u].doc \in Docs
    BY <1>1 DEF OwnRows, Whole
  <2> QED BY <1>1, <2>1 DEF Whole, SameFlags
<1>4. Grouped(u)'
  <2>1. Shown' = Shown /\ Shown \subseteq Docs
    BY DEF SameFlags, Shown, Existing
  <2> QED BY <1>1, <2>1 DEF Grouped, SameFlags
<1>5. Picked(u)'
  <2>1. ActiveFor(u)' = ActiveFor(u) /\ HighestActive(u)' = HighestActive(u)
    BY SameActive
  <2>2. Clash(u, tx[u].picked)' <=> Clash(u, tx[u].picked)
    <3>1. ActiveFor(u) \subseteq Docs
      BY DEF ActiveFor, Existing
    <3> QED BY <2>1, <3>1 DEF SameFlags, Clash
  <2> QED BY <1>1, <2>1, <2>2 DEF Picked
<1> QED BY <1>2, <1>3, <1>4, <1>5 DEF InOrder

\* A step no call takes.
LEMMA StillFlags ==
  ASSUME Flags, SameFlags, tx' = tx, groupLock' = groupLock,
         \A u \in Users, d \in Docs : docLock[d] = u => docLock'[d] = u,
         \A d \in Docs : queue'[d] > 0 => queue[d] > 0 \/ d \in Existing
  PROVE  Flags'
<1>1. \A u \in Users : InOrder(u)'
  BY StaysInOrder
<1>2. LatestIsHighest'
  BY SameFlagsSameLatest
<1>3. 1 \in Existing' /\ \A d \in Docs : queue'[d] > 0 => d \in Existing'
  BY DEF Flags, SameFlags
<1>4. tx' \in [Users -> Calls]
  BY DEF Flags
<1> QED BY <1>1, <1>2, <1>3, <1>4 DEF Flags

\* A step of one call that writes no flags.
LEMMA OneCallFlags ==
  ASSUME Flags, SameFlags, NEW u \in Users, NEW next \in Calls,
         tx' = [tx EXCEPT ![u] = next], queue' = queue,
         \A v \in Users \ {u}, d \in Docs : docLock[d] = v => docLock'[d] = v,
         \A v \in Users \ {u} : groupLock = v => groupLock' = v,
         InOrder(u)'
  PROVE  Flags'
<1>1. tx \in [Users -> Calls]
  BY DEF Flags
<1>2. ASSUME NEW v \in Users, v # u PROVE InOrder(v)'
  <2>1. tx'[v] = tx[v]
    BY <1>1, <1>2
  <2>2. /\ \A d \in Docs : docLock[d] = v => docLock'[d] = v
        /\ groupLock = v => groupLock' = v
    BY <1>2
  <2> QED BY <2>1, <2>2, StaysInOrder
<1>3. \A v \in Users : InOrder(v)'
  BY <1>2
<1>4. LatestIsHighest'
  BY SameFlagsSameLatest
<1>5. 1 \in Existing' /\ \A d \in Docs : queue'[d] > 0 => d \in Existing'
  BY DEF Flags, SameFlags
<1>6. tx' \in [Users -> Calls]
  BY <1>1
<1> QED BY <1>3, <1>4, <1>5, <1>6 DEF Flags

-----------------------------------------------------------------------------
(* The steps of the calls.                                                 *)

LEMMA LockDocumentFlags ==
  ASSUME Inv, Flags, NEW u \in Users, NEW op \in {"delete", "restore"}, NEW d \in Docs,
         LockDocument(u, op, d)
  PROVE  Flags'
<1> DEFINE next == [IdleTx EXCEPT !.op = op, !.at = "clear", !.doc = d,
                                  !.cleared = {d}, !.rest = Existing \ {d}]
<1>1. /\ d \in Existing /\ docLock[d] = Free /\ docs[d].deleted = (op = "restore")
      /\ docLock' = [docLock EXCEPT ![d] = u] /\ tx' = [tx EXCEPT ![u] = next]
      /\ docs' = docs /\ groupLock' = groupLock /\ queue' = queue
  BY DEF LockDocument
<1>2. /\ next \in Calls /\ next.op = op /\ next.at = "clear" /\ next.doc = d
      /\ next.cleared = {d} /\ next.rest = Existing \ {d}
  BY DEF IdleTx, Calls, Existing
<1> HIDE DEF next
<1>3. SameFlags /\ Existing' = Existing
  BY <1>1 DEF SameFlags, Existing
<1>4. tx'[u] = next
  BY <1>1 DEF Flags
<1>5. docLock'[d] = u /\ \A e \in Docs \ {d} : docLock'[e] = docLock[e]
  BY <1>1 DEF Inv, Typed
<1>6. InOrder(u)'
  <2>1. OwnRows(u)'
    BY <1>1, <1>2, <1>3, <1>4, <1>5 DEF OwnRows
  <2>2. Whole(u)'
    BY <1>1, <1>2, <1>4 DEF Whole, Flags
  <2>3. Grouped(u)' /\ Picked(u)'
    BY <1>2, <1>4 DEF Grouped, Picked
  <2> QED BY <2>1, <2>2, <2>3 DEF InOrder
<1>7. \A v \in Users \ {u}, e \in Docs : docLock[e] = v => docLock'[e] = v
  BY <1>1, <1>5, DocumentAssumption
<1> QED BY <1>1, <1>2, <1>3, <1>6, <1>7, OneCallFlags

LEMMA LockGroupFlags ==
  ASSUME Inv, Flags, NEW u \in Users, LockGroup(u)
  PROVE  Flags'
<1> DEFINE rest == {d \in Existing : docs[d].latest /\ ~docs[d].deleted}
           next == [IdleTx EXCEPT !.op = "version", !.at = "clear", !.rest = rest]
<1>1. /\ groupLock = Free /\ groupLock' = u /\ tx' = [tx EXCEPT ![u] = next]
      /\ docs' = docs /\ docLock' = docLock /\ queue' = queue
  BY DEF LockGroup
<1>2. /\ next \in Calls /\ next.op = "version" /\ next.at = "clear" /\ next.doc = NoDoc
      /\ next.picked = NoDoc /\ next.cleared = {} /\ next.rest = rest
  BY DEF IdleTx, Calls, Existing
<1>3. \A d \in Shown : docs[d].latest => d \in rest
  BY DEF Shown
<1>4. rest \subseteq Existing
  OBVIOUS
<1> HIDE DEF next, rest
<1>5. SameFlags /\ Existing' = Existing /\ Shown' = Shown
  BY <1>1 DEF SameFlags, Existing, Shown
<1>6. tx'[u] = next
  BY <1>1 DEF Flags
<1>7. InOrder(u)'
  <2>1. OwnRows(u)' /\ Whole(u)' /\ Picked(u)'
    BY <1>2, <1>4, <1>5, <1>6 DEF OwnRows, Whole, Picked
  <2>2. Grouped(u)'
    BY <1>1, <1>2, <1>3, <1>5, <1>6 DEF Grouped
  <2> QED BY <2>1, <2>2 DEF InOrder
<1>8. \A v \in Users \ {u} : groupLock = v => groupLock' = v
  BY <1>1, DocumentAssumption
<1> QED BY <1>1, <1>2, <1>5, <1>7, <1>8, OneCallFlags

LEMMA ClearRowFlags ==
  ASSUME Inv, Flags, NEW u \in Users, NEW d \in Docs, ClearRow(u, d)
  PROVE  Flags'
<1> DEFINE hit  == tx[u].op # "version" \/ (docs[d].latest /\ ~docs[d].deleted)
           rest == tx[u].rest \ {d}
           cleared == IF hit THEN tx[u].cleared \cup {d} ELSE tx[u].cleared
           next == [tx[u] EXCEPT !.rest = rest, !.cleared = cleared]
<1>1. tx \in [Users -> Calls] /\ tx[u] \in Calls
      /\ OwnRows(u) /\ Whole(u) /\ Grouped(u)
  BY DEF Flags, InOrder
<1>2. /\ tx[u].at = "clear" /\ d \in tx[u].rest /\ docLock[d] = Free
      /\ docLock' = IF hit THEN [docLock EXCEPT ![d] = u] ELSE docLock
      /\ docs' = docs /\ groupLock' = groupLock /\ queue' = queue
      /\ tx' = [tx EXCEPT ![u] = next]
  BY <1>1 DEF ClearRow, Calls
<1>3. /\ next \in Calls /\ next.op = tx[u].op /\ next.at = "clear" /\ next.doc = tx[u].doc
      /\ next.picked = tx[u].picked /\ next.cleared = cleared /\ next.rest = rest
  BY <1>1, <1>2 DEF Calls
<1>4. docLock \in [Docs -> Users \cup Workers \cup {Free}]
  BY DEF Inv, Typed
<1>5. /\ cleared \cup rest \subseteq tx[u].cleared \cup tx[u].rest
      /\ tx[u].cleared \subseteq cleared
      /\ hit => cleared \cup rest = tx[u].cleared \cup tx[u].rest
      /\ \A e \in cleared : e \in tx[u].cleared \/ (e = d /\ hit)
      /\ \A e \in tx[u].cleared \cup tx[u].rest : e \in cleared \cup rest \/ (e = d /\ ~hit)
  BY <1>2
<1> HIDE DEF next, rest, cleared
<1>6. SameFlags /\ Existing' = Existing /\ Shown' = Shown
  BY <1>2 DEF SameFlags, Existing, Shown
<1>7. tx'[u] = next
  BY <1>1, <1>2
<1>8. /\ \A e \in Docs : docLock[e] # Free => docLock'[e] = docLock[e]
      /\ hit => docLock'[d] = u
  <2>1. CASE hit
    BY <1>2, <1>4, <2>1
  <2>2. CASE ~hit
    BY <1>2, <2>2
  <2> QED BY <2>1, <2>2
<1>9. Free \notin Users
  BY DocumentAssumption
<1>10. OwnRows(u)'
  <2>1. \A e \in cleared : docLock'[e] = u
    <3> SUFFICES ASSUME NEW e \in cleared PROVE docLock'[e] = u
      OBVIOUS
    <3>1. CASE e \in tx[u].cleared
      BY <1>1, <1>2, <1>8, <1>9, <3>1 DEF OwnRows, Calls
    <3>2. CASE e = d /\ hit
      BY <1>8, <3>2
    <3> QED BY <1>5, <3>1, <3>2
  <2> QED BY <1>1, <1>2, <1>3, <1>5, <1>6, <1>7, <2>1 DEF OwnRows
<1>11. Whole(u)'
  BY <1>1, <1>2, <1>3, <1>5, <1>7 DEF Whole
<1>12. Grouped(u)'
  BY <1>1, <1>2, <1>3, <1>5, <1>6, <1>7 DEF Grouped, Shown
<1>13. Picked(u)'
  BY <1>3, <1>7 DEF Picked
<1>14. InOrder(u)'
  BY <1>10, <1>11, <1>12, <1>13 DEF InOrder
<1>15. \A v \in Users \ {u}, e \in Docs : docLock[e] = v => docLock'[e] = v
  BY <1>8, <1>9
<1> QED BY <1>2, <1>3, <1>6, <1>14, <1>15, OneCallFlags

\* The version that is selected is the highest that will not be deleted.
LEMMA SelectLatestFlags ==
  ASSUME Inv, Flags, NEW u \in Users, SelectLatest(u)
  PROVE  Flags'
<1> DEFINE p    == HighestActive(u)
           at   == IF p = NoDoc THEN "sync" ELSE "promote"
           next == [tx[u] EXCEPT !.picked = p, !.at = at]
<1>1. tx \in [Users -> Calls] /\ tx[u] \in Calls /\ OwnRows(u) /\ Whole(u)
  BY DEF Flags, InOrder
<1>2. /\ tx[u].at = "clear" /\ tx[u].rest = {} /\ tx[u].op # "version"
      /\ p # NoDoc => docLock[p] \in {Free, u}
      /\ docLock' = [d \in Docs |-> IF d = p THEN u ELSE docLock[d]]
      /\ docs' = docs /\ groupLock' = groupLock /\ queue' = queue
      /\ tx' = [tx EXCEPT ![u] = next]
  BY <1>1 DEF SelectLatest, Cleared, Calls
<1>3. /\ p = NoDoc <=> ActiveFor(u) = {}
      /\ p # NoDoc => p \in ActiveFor(u)
      /\ p \in Docs \cup {NoDoc} /\ NoDoc \notin Docs
  <2>1. ActiveFor(u) \subseteq Docs /\ NoDoc \notin Docs
    BY DEF ActiveFor, Existing, NoDoc, Docs
  <2> QED BY <2>1, HighestIsActive
<1>4. p = HighestActive(u)
  OBVIOUS
<1> HIDE DEF p
<1>5. /\ next \in Calls /\ next.op = tx[u].op /\ next.at = at /\ next.doc = tx[u].doc
      /\ next.picked = p /\ next.cleared = tx[u].cleared /\ next.rest = {}
  BY <1>1, <1>2, <1>3 DEF Calls
<1> HIDE DEF next
<1>6. SameFlags /\ Existing' = Existing
  BY <1>2 DEF SameFlags, Existing
<1>7. tx'[u] = next
  BY <1>1, <1>2
<1>8. ActiveFor(u)' = ActiveFor(u) /\ HighestActive(u)' = HighestActive(u)
  BY <1>5, <1>6, <1>7, SameActive
<1>9. /\ \A e \in Docs : docLock[e] = u => docLock'[e] = u
      /\ \A v \in Users \ {u}, e \in Docs : docLock[e] = v => docLock'[e] = v
  BY <1>2, <1>3, DocumentAssumption
<1>10. OwnRows(u)'
  BY <1>1, <1>2, <1>5, <1>6, <1>7, <1>9 DEF OwnRows, Existing
<1>11. Whole(u)' /\ Grouped(u)'
  BY <1>1, <1>2, <1>5, <1>7 DEF Whole, Grouped
<1>12. Picked(u)'
  <2>1. at = "sync" => ~Clash(u, p)'
    BY <1>3, <1>8 DEF Clash
  <2> QED BY <1>3, <1>4, <1>5, <1>7, <1>8, <2>1 DEF Picked, Clash
<1>13. InOrder(u)'
  BY <1>10, <1>11, <1>12 DEF InOrder
<1> QED BY <1>2, <1>5, <1>6, <1>9, <1>13, OneCallFlags

\* The index has accepted it: no other version is the latest.
LEMMA PromoteFlags ==
  ASSUME Inv, Flags, NEW u \in Users, Promote(u)
  PROVE  Flags'
<1> DEFINE next == [tx[u] EXCEPT !.at = "sync"]
<1>1. /\ tx \in [Users -> Calls] /\ tx[u] \in Calls
      /\ OwnRows(u) /\ Whole(u) /\ Grouped(u) /\ Picked(u)
  BY DEF Flags, InOrder
<1>2. /\ tx[u].at = "promote" /\ ~Clash(u, tx[u].picked) /\ tx' = [tx EXCEPT ![u] = next]
      /\ docs' = docs /\ docLock' = docLock /\ groupLock' = groupLock /\ queue' = queue
  BY DEF Promote
<1>3. /\ next \in Calls /\ next.op = tx[u].op /\ next.at = "sync" /\ next.doc = tx[u].doc
      /\ next.picked = tx[u].picked /\ next.cleared = tx[u].cleared /\ next.rest = tx[u].rest
  BY <1>1 DEF Calls
<1> HIDE DEF next
<1>4. SameFlags /\ Existing' = Existing
  BY <1>2 DEF SameFlags, Existing
<1>5. tx'[u] = next
  BY <1>1, <1>2
<1>6. ActiveFor(u)' = ActiveFor(u) /\ HighestActive(u)' = HighestActive(u)
  BY <1>3, <1>4, <1>5, SameActive
<1>7. OwnRows(u)' /\ Whole(u)' /\ Grouped(u)'
  BY <1>1, <1>2, <1>3, <1>4, <1>5 DEF OwnRows, Whole, Grouped
<1>8. Picked(u)'
  BY <1>1, <1>2, <1>3, <1>5, <1>6 DEF Picked, Clash
<1>9. InOrder(u)'
  BY <1>7, <1>8 DEF InOrder
<1> QED BY <1>2, <1>3, <1>4, <1>9, OneCallFlags

LEMMA ReleaseKeepsOthers ==
  ASSUME Inv, NEW u \in Users, Release(u)
  PROVE  /\ \A v \in Users \ {u}, d \in Docs : docLock[d] = v => docLock'[d] = v
         /\ \A v \in Users \ {u} : groupLock = v => groupLock' = v
BY DEF Release

LEMMA RollbackFlags ==
  ASSUME Inv, Flags, NEW u \in Users, Rollback(u)
  PROVE  Flags'
<1>1. /\ docs' = docs /\ queue' = queue /\ tx' = [tx EXCEPT ![u] = IdleTx] /\ Release(u)
  BY DEF Rollback
<1>2. IdleTx \in Calls /\ IdleTx.at = "idle"
  BY DEF IdleTx, Calls
<1>3. SameFlags
  BY <1>1 DEF SameFlags, Existing
<1> HIDE DEF IdleTx
<1>4. tx'[u] = IdleTx
  BY <1>1 DEF Flags
<1>5. InOrder(u)'
  BY <1>2, <1>4 DEF InOrder, OwnRows, Whole, Grouped, Picked
<1> QED BY <1>1, <1>2, <1>3, <1>5, ReleaseKeepsOthers, OneCallFlags

\* A call that is past its locks is the only one: every such call has locked the
\* first version.
LEMMA OnlyOneWhole ==
  ASSUME Flags, NEW u \in Users, tx[u].at \in {"promote", "sync"},
         NEW v \in Users, v # u, tx[v].at \in {"promote", "sync"}
  PROVE  FALSE
<1>1. OwnRows(u) /\ Whole(u) /\ Grouped(u) /\ OwnRows(v) /\ Whole(v) /\ Grouped(v)
  BY DEF Flags, InOrder
<1>2. 1 \in tx[u].cleared /\ 1 \in tx[v].cleared
  BY <1>1 DEF Whole, Grouped
<1> QED BY <1>1, <1>2 DEF OwnRows

\* What a commit writes: the picked version becomes the latest, and no other is.
LEMMA CommitFlags ==
  ASSUME Inv, Flags, NEW u \in Users, Commit(u)
  PROVE  Flags'
<1>1. /\ tx \in [Users -> Calls] /\ tx[u] \in Calls /\ LatestIsHighest /\ 1 \in Existing
      /\ OwnRows(u) /\ Whole(u) /\ Grouped(u) /\ Picked(u)
  BY DEF Flags, InOrder
<1>2. /\ tx[u].at = "sync" /\ groupLock = Free /\ docs' = Written(u)
      /\ tx' = [tx EXCEPT ![u] = IdleTx] /\ Release(u) /\ queue' = queue
  BY DEF Commit
<1>3. docs \in [Docs -> Rows] /\ Existing \subseteq Docs /\ NoDoc \notin Docs
  BY DEF Inv, Typed, Existing, NoDoc, Docs
<1>4. ASSUME NEW d \in Docs
      PROVE  /\ docs'[d].status = docs[d].status /\ docs'[d].deleted = DeletedFor(u, d)
             /\ docs'[d].latest <=> d = tx[u].picked \/ (docs[d].latest /\ d \notin tx[u].cleared)
  BY <1>2, <1>3 DEF Written, Rows
<1>5. Existing' = Existing
  BY <1>3, <1>4 DEF Existing
<1>6. Shown' = ActiveFor(u)
  BY <1>3, <1>4, <1>5 DEF Shown, ActiveFor
<1>7. ASSUME NEW v \in Users, v # u PROVE InOrder(v)'
  <2>1. tx'[v] = tx[v] /\ tx[v] \in Calls
    BY <1>1, <1>2, <1>7
  <2>2. OwnRows(v) /\ Whole(v) /\ Grouped(v)
    BY DEF Flags, InOrder
  <2>3. tx[v].at \in {"idle", "clear"}
    BY <1>2, <1>7, <2>1, OnlyOneWhole DEF Calls
  <2>4. tx[v].at = "idle" \/ tx[v].op # "version"
    BY <1>2, <2>2, DocumentAssumption DEF Grouped
  <2>5. \A d \in Docs : docLock[d] = v => docLock'[d] = v
    BY <1>2, <1>7, ReleaseKeepsOthers
  <2>6. OwnRows(v)'
    BY <1>3, <1>5, <2>1, <2>2, <2>5 DEF OwnRows
  <2>7. Whole(v)'
    <3> SUFFICES ASSUME tx[v].at # "idle", tx[v].op # "version"
                 PROVE  docs'[tx[v].doc].deleted = docs[tx[v].doc].deleted
      BY <2>1, <2>2 DEF Whole
    <3>1. docLock[tx[v].doc] = v /\ tx[v].doc \in Docs
      BY <1>3, <2>2 DEF Whole, OwnRows
    <3>2. docLock[tx[u].doc] = u
      BY <1>1, <1>2 DEF Whole, OwnRows, Grouped
    <3>3. tx[v].doc # tx[u].doc
      BY <1>7, <3>1, <3>2
    <3> QED BY <1>4, <3>1, <3>3 DEF DeletedFor
  <2>8. Grouped(v)' /\ Picked(v)'
    BY <2>1, <2>3, <2>4 DEF Grouped, Picked
  <2> QED BY <2>6, <2>7, <2>8 DEF InOrder
<1>8. InOrder(u)'
  <2>1. tx'[u].at = "idle"
    BY <1>1, <1>2 DEF IdleTx
  <2> QED BY <2>1 DEF InOrder, OwnRows, Whole, Grouped, Picked
<1>9. LatestIsHighest'
  <2>1. ASSUME NEW d \in Existing, d # tx[u].picked PROVE ~docs'[d].latest
    <3>1. CASE d \in ActiveFor(u)
      BY <1>1, <1>2, <1>3, <1>4, <2>1, <3>1 DEF Picked, Clash
    <3>2. CASE d \notin ActiveFor(u)
      <4>1. d \in Docs /\ DeletedFor(u, d)
        BY <1>3, <3>2 DEF ActiveFor
      <4>2. CASE d = tx[u].doc
        BY <1>1, <1>2, <1>4, <2>1, <4>1, <4>2 DEF Whole, Grouped
      <4>3. CASE d # tx[u].doc
        <5>1. docs[d].deleted
          BY <4>1, <4>3 DEF DeletedFor
        <5>2. ~docs[d].latest
          BY <1>1, <5>1, LatestIsShown DEF Shown
        <5> QED BY <1>4, <2>1, <4>1, <5>2
      <4> QED BY <4>2, <4>3
    <3> QED BY <3>1, <3>2
  <2>2. tx[u].picked = HighestActive(u)
    BY <1>1, <1>2 DEF Picked
  <2>3. CASE ActiveFor(u) = {}
    <3>1. tx[u].picked = NoDoc
      BY <2>2, <2>3, HighestIsActive
    <3>2. \A d \in Existing' : ~docs'[d].latest
      BY <1>3, <1>5, <2>1, <3>1
    <3>3. \A d \in Existing' : docs'[d].latest <=> Shown' # {} /\ d = Max(Shown')
      BY <1>6, <2>3, <3>2
    <3> QED BY <3>3 DEF LatestIsHighest, Shown
  <2>4. CASE ActiveFor(u) # {}
    <3>1. tx[u].picked = Max(Shown') /\ tx[u].picked \in Docs
      BY <1>3, <1>6, <2>2, <2>4, HighestIsActive DEF ActiveFor
    <3>2. docs'[tx[u].picked].latest
      BY <1>4, <3>1
    <3>3. \A d \in Existing' : docs'[d].latest <=> Shown' # {} /\ d = Max(Shown')
      BY <1>5, <1>6, <2>1, <2>4, <3>1, <3>2
    <3> QED BY <3>3 DEF LatestIsHighest, Shown
  <2> QED BY <2>3, <2>4
<1>10. tx' \in [Users -> Calls]
  BY <1>1, <1>2 DEF IdleTx, Calls
<1>11. 1 \in Existing' /\ \A d \in Docs : queue'[d] > 0 => d \in Existing'
  BY <1>2, <1>5 DEF Flags
<1>12. \A v \in Users : InOrder(v)'
  BY <1>7, <1>8
<1> QED BY <1>9, <1>10, <1>11, <1>12 DEF Flags

\* While a version is added no call can be about to commit: it would have the row of
\* the version that has just been cleared, or its own latest awaited.
LEMMA NoneCommits ==
  ASSUME Flags, NEW u \in Users, Cleared(u), tx[u].op = "version", Undecided(u) = {},
         NEW v \in Users, v # u, tx[v].at = "sync"
  PROVE  FALSE
<1>1. /\ OwnRows(u) /\ Grouped(u) /\ OwnRows(v) /\ Whole(v) /\ Grouped(v) /\ Picked(v)
      /\ LatestIsHighest /\ Existing \subseteq Docs /\ NoDoc \notin Docs
  BY DEF Flags, InOrder, Existing, NoDoc, Docs
<1>2. tx[v].picked = NoDoc
  BY DEF Undecided
<1>3. ActiveFor(v) = {}
  BY <1>1, <1>2, HighestIsActive DEF Picked
<1>4. /\ tx[v].op # "version" /\ tx[v].doc \in Existing /\ docLock[tx[v].doc] = v
      /\ docs[tx[v].doc].deleted = (tx[v].op = "restore")
  BY <1>1 DEF Grouped, Whole, OwnRows
<1>5. DeletedFor(v, tx[v].doc) /\ \A d \in Existing : DeletedFor(v, d)
  BY <1>3, <1>4 DEF ActiveFor
<1>6. tx[v].op = "delete"
  BY <1>5 DEF DeletedFor
<1>7. tx[v].doc \in Shown
  BY <1>4, <1>6 DEF Shown
<1>8. \A d \in Shown : d = tx[v].doc
  BY <1>5 DEF Shown, DeletedFor
<1>9. docs[tx[v].doc].latest
  BY <1>1, <1>7, <1>8, LatestIsShown
<1>10. tx[v].doc \in tx[u].cleared
  BY <1>1, <1>7, <1>9 DEF Grouped, Cleared
<1> QED BY <1>1, <1>4, <1>10 DEF OwnRows, Cleared

LEMMA AddVersionFlags ==
  ASSUME Inv, Flags, NEW u \in Users, NEW sent \in {0, 1}, AddVersion(u, sent)
  PROVE  Flags'
<1>1. PICK new \in Docs :
        /\ Existing = 1..(new - 1)
        /\ Cleared(u) /\ tx[u].op = "version" /\ Undecided(u) = {} /\ ~Clash(u, tx[u].picked)
        /\ docs' = [d \in Docs |-> IF d = new THEN Uploaded
                                  ELSE [docs[d] EXCEPT !.latest = @ /\ d \notin tx[u].cleared]]
        /\ queue' = [queue EXCEPT ![new] = sent]
        /\ tx' = [tx EXCEPT ![u] = IdleTx] /\ Release(u)
  BY DEF AddVersion
<1>2. /\ tx \in [Users -> Calls] /\ tx[u] \in Calls /\ LatestIsHighest
      /\ OwnRows(u) /\ Grouped(u) /\ 1 \in Existing /\ \A d \in Docs : queue[d] > 0 => d \in Existing
  BY DEF Flags, InOrder
<1>3. /\ docs \in [Docs -> Rows] /\ Existing \subseteq Docs /\ NoDoc \notin Docs
      /\ Docs \subseteq Nat
  BY DocumentAssumption DEF Inv, Typed, Existing, NoDoc, Docs
<1>4. new \notin Existing /\ \A d \in Existing : d < new
  BY <1>1, <1>3
<1>5. /\ docs'[new].status = "UPLOADED" /\ docs'[new].deleted = FALSE /\ docs'[new].latest = TRUE
  BY <1>1 DEF Uploaded, Absent
<1>6. ASSUME NEW d \in Docs, d # new
      PROVE  /\ docs'[d].status = docs[d].status /\ docs'[d].deleted = docs[d].deleted
             /\ docs'[d].latest <=> docs[d].latest /\ d \notin tx[u].cleared
  BY <1>1, <1>3, <1>6 DEF Rows
<1>7. Existing' = Existing \cup {new}
  BY <1>3, <1>4, <1>5, <1>6 DEF Existing
<1>8. tx[u].at = "clear" /\ tx[u].rest = {} /\ groupLock = u /\ tx[u].doc = NoDoc
      /\ tx[u].picked = NoDoc
  BY <1>1, <1>2 DEF Cleared, Grouped
<1>9. ASSUME NEW v \in Users, v # u PROVE InOrder(v)'
  <2>1. tx'[v] = tx[v] /\ tx[v] \in Calls
    BY <1>1, <1>2, <1>9
  <2>2. OwnRows(v) /\ Whole(v) /\ Grouped(v) /\ Picked(v)
    BY DEF Flags, InOrder
  <2>3. tx[v].at \in {"idle", "clear", "promote"}
    BY <1>1, <1>9, <2>1, NoneCommits DEF Calls
  <2>4. tx[v].at = "idle" \/ tx[v].op # "version"
    BY <1>8, <1>9, <2>2 DEF Grouped
  <2>5. \A d \in Docs : docLock[d] = v => docLock'[d] = v
    BY <1>1, <1>9, ReleaseKeepsOthers
  <2>6. OwnRows(v)'
    BY <1>3, <1>7, <2>1, <2>2, <2>5 DEF OwnRows
  <2>7. tx[v].at # "idle" /\ tx[v].op # "version" => tx[v].doc \in Docs \ {new}
    BY <1>3, <1>4, <2>2 DEF Whole, OwnRows
  <2>8. Whole(v)'
    BY <1>6, <2>1, <2>2, <2>7 DEF Whole
  <2>9. Grouped(v)'
    BY <2>1, <2>4 DEF Grouped
  <2>10. Picked(v)'
    <3> SUFFICES ASSUME tx[v].at = "promote"
                 PROVE  tx[v].picked \in ActiveFor(v)' /\ Clash(v, tx[v].picked)'
      BY <2>1, <2>3 DEF Picked
    <3>1. /\ tx[v].picked \in Existing \ {new} /\ ~DeletedFor(v, tx[v].picked)
      BY <1>4, <2>2 DEF Picked, ActiveFor
    <3>2. \A d \in Docs \ {new} : DeletedFor(v, d)' <=> DeletedFor(v, d)
      BY <1>6, <2>1 DEF DeletedFor
    <3>3. tx[v].picked \in ActiveFor(v)'
      BY <1>3, <1>7, <3>1, <3>2 DEF ActiveFor
    <3>4. new \in ActiveFor(v)'
      BY <1>5, <1>7, <2>1, <2>4, <2>7 DEF ActiveFor, DeletedFor
    <3>5. new \notin tx'[v].cleared
      BY <1>4, <2>1, <2>2 DEF OwnRows
    <3>6. Clash(v, tx[v].picked)'
      BY <1>5, <2>1, <3>1, <3>4, <3>5 DEF Clash
    <3> QED BY <3>3, <3>6
  <2> QED BY <2>6, <2>8, <2>9, <2>10 DEF InOrder
<1>10. InOrder(u)'
  <2>1. tx'[u].at = "idle"
    BY <1>1, <1>2 DEF IdleTx
  <2> QED BY <2>1 DEF InOrder, OwnRows, Whole, Grouped, Picked
<1>11. LatestIsHighest'
  <2>1. ASSUME NEW d \in Existing PROVE ~docs'[d].latest
    <3>1. docs[d].latest => d \in Shown
      BY <1>2, LatestIsShown
    <3>2. docs[d].latest => d \in tx[u].cleared
      BY <1>1, <1>2, <1>8, <3>1 DEF Grouped
    <3> QED BY <1>3, <1>4, <1>6, <3>2
  <2>2. Shown' \in SUBSET Docs /\ new \in Shown' /\ \A d \in Shown' : d <= new
    <3>1. new \in Shown'
      BY <1>5, <1>7 DEF Shown
    <3>2. \A d \in Existing' : d <= new
      BY <1>3, <1>4, <1>7
    <3> QED BY <1>3, <1>7, <3>1, <3>2 DEF Shown
  <2>3. Max(Shown') = new
    BY <2>2, MaxIsUnique
  <2>4. \A d \in Existing' : docs'[d].latest <=> Shown' # {} /\ d = Max(Shown')
    BY <1>4, <1>5, <1>7, <2>1, <2>2, <2>3
  <2> QED BY <2>4 DEF LatestIsHighest, Shown
<1>12. tx' \in [Users -> Calls]
  BY <1>1, <1>2 DEF IdleTx, Calls
<1>13. 1 \in Existing' /\ \A d \in Docs : queue'[d] > 0 => d \in Existing'
  <2>1. ASSUME NEW d \in Docs, d # new PROVE queue'[d] = queue[d]
    BY <1>1, <2>1
  <2> QED BY <1>2, <1>7, <2>1
<1>14. \A v \in Users : InOrder(v)'
  BY <1>9, <1>10
<1> QED BY <1>11, <1>12, <1>13, <1>14 DEF Flags

-----------------------------------------------------------------------------
(* The workers and the rest write no flags and take no rows from calls.    *)

LEMMA StatusKeepsFlags ==
  ASSUME docs \in [Docs -> Rows], NEW d \in Existing, NEW st \in Statuses \ {"ABSENT"},
         NEW text, NEW preview,
         \/ docs' = docs
         \/ docs' = [docs EXCEPT ![d].status = st]
         \/ docs' = [docs EXCEPT ![d].text = text]
         \/ docs' = [docs EXCEPT ![d].status = st, ![d].text = text, ![d].preview = preview]
  PROVE  SameFlags
<1>1. d \in Docs /\ docs[d].status # "ABSENT"
  BY DEF Existing
<1>2. ASSUME NEW e \in Docs
      PROVE  /\ docs'[e].status = "ABSENT" <=> docs[e].status = "ABSENT"
             /\ docs'[e].deleted = docs[e].deleted /\ docs'[e].latest = docs[e].latest
  <2>1. CASE e # d
    BY <1>1, <2>1
  <2>2. CASE e = d
    BY <1>1, <2>2 DEF Rows
  <2> QED BY <2>1, <2>2
<1> QED BY <1>2 DEF SameFlags, Existing

LEMMA ProcessFlags ==
  ASSUME Inv, Flags, NEW w \in Workers, NEW d, d = worker[w].doc,
         Process(w) \/ DatabaseFails(w) \/ Crash(w)
  PROVE  Flags'
<1>0. /\ docs \in [Docs -> Rows] /\ worker \in [Workers -> Working]
      /\ docLock \in [Docs -> Users \cup Workers \cup {Free}]
      /\ worker[w].at # "idle" => d \in Existing
      /\ worker[w].at \in {"extract", "ready"} => docLock[d] = w
      /\ Free \notin Users /\ w \notin Users
      /\ "FAILED" \in Statuses \ {"ABSENT"} /\ "PROCESSING" \in Statuses \ {"ABSENT"}
      /\ "READY" \in Statuses \ {"ABSENT"}
  BY DocumentAssumption DEF Inv, Typed, Claimed, AtWork, Existing, Statuses
<1>1. CASE \E e \in Docs : Claim(w, e)
  <2>1. PICK e \in Docs : Claim(w, e)
    BY <1>1
  <2>2. /\ docs' = docs \/ docs' = [docs EXCEPT ![e].status = "PROCESSING"]
        /\ queue[e] > 0 /\ queue' = [queue EXCEPT ![e] = @ - 1]
        /\ docLock' = docLock /\ groupLock' = groupLock /\ tx' = tx
    BY <2>1 DEF Claim, OnlyWorker
  <2>3. e \in Existing
    BY <2>2 DEF Flags
  <2>4. SameFlags
    BY <1>0, <2>2, <2>3, StatusKeepsFlags
  <2>5. \A f \in Docs : queue'[f] > 0 => queue[f] > 0 \/ f \in Existing
    <3> SUFFICES ASSUME NEW f \in Docs, f # e PROVE queue'[f] = queue[f]
      BY <2>3
    <3> QED BY <2>2
  <2> QED BY <2>2, <2>4, <2>5, StillFlags
<1>2. CASE Relock(w)
  <2>1. /\ docs' = docs /\ queue' = queue /\ groupLock' = groupLock /\ tx' = tx
        /\ docLock[d] = Free /\ docLock' \in {docLock, [docLock EXCEPT ![d] = w]}
    BY <1>2 DEF Relock, OnlyWorker
  <2>2. SameFlags
    BY <2>1 DEF SameFlags, Existing
  <2>3. \A u \in Users, e \in Docs : docLock[e] = u => docLock'[e] = u
    BY <1>0, <2>1
  <2> QED BY <2>1, <2>2, <2>3, StillFlags
<1>3. CASE \E found \in Texts \cup {NoText}, converted \in BOOLEAN : Extract(w, found, converted)
  <2>1. /\ docs' = docs /\ queue' = queue /\ groupLock' = groupLock /\ tx' = tx
        /\ docLock' = docLock
    BY <1>3 DEF Extract, OnlyWorker
  <2>2. SameFlags
    BY <2>1 DEF SameFlags, Existing
  <2> QED BY <2>1, <2>2, StillFlags
<1>4. CASE ExtractionFails(w) \/ CancelProcessing(w) \/ DatabaseFails(w)
  <2>1. worker[w].at \in {"extract", "ready"} /\ ProcessingRaises(w)
    BY <1>4 DEF ExtractionFails, CancelProcessing, DatabaseFails
  <2>2. /\ docs' = docs /\ queue' = queue /\ groupLock' = groupLock /\ tx' = tx
        /\ docLock' = [docLock EXCEPT ![d] = Free]
    BY <2>1 DEF ProcessingRaises, OnlyWorker
  <2>3. SameFlags
    BY <2>2 DEF SameFlags, Existing
  <2>4. \A u \in Users, e \in Docs : docLock[e] = u => docLock'[e] = u
    BY <1>0, <2>1, <2>2
  <2> QED BY <2>2, <2>3, <2>4, StillFlags
<1>5. CASE MarkReady(w)
  <2>1. /\ worker[w].at = "ready" /\ queue' = queue /\ groupLock' = groupLock /\ tx' = tx
        /\ docs' = [docs EXCEPT ![d].status = "READY", ![d].text = worker[w].text,
                                ![d].preview = FinalPreview(w)]
        /\ docLock' = [docLock EXCEPT ![d] = Free]
    BY <1>5 DEF MarkReady, OnlyWorker
  <2>2. d \in Existing
    BY <1>0, <2>1
  <2>3. SameFlags
    BY <1>0, <2>1, <2>2, StatusKeepsFlags
  <2>4. \A u \in Users, e \in Docs : docLock[e] = u => docLock'[e] = u
    BY <1>0, <2>1
  <2> QED BY <2>1, <2>3, <2>4, StillFlags
<1>6. CASE MarkFailed(w)
  <2>1. /\ worker[w].at = "fail" /\ queue' = queue /\ groupLock' = groupLock /\ tx' = tx
        /\ docs' = docs \/ docs' = [docs EXCEPT ![d].status = "FAILED"]
        /\ docLock' = docLock
    BY <1>6 DEF MarkFailed, OnlyWorker
  <2>2. d \in Existing
    BY <1>0, <2>1
  <2>3. SameFlags
    BY <1>0, <2>1, <2>2, StatusKeepsFlags
  <2> QED BY <2>1, <2>3, StillFlags
<1>7. CASE Crash(w)
  <2>1. /\ docs' = docs /\ queue' = queue /\ groupLock' = groupLock /\ tx' = tx
        /\ docLock' = [e \in Docs |-> IF docLock[e] = w THEN Free ELSE docLock[e]]
    BY <1>7 DEF Crash, OnlyWorker
  <2>2. SameFlags
    BY <2>1 DEF SameFlags, Existing
  <2>3. \A u \in Users, e \in Docs : docLock[e] = u => docLock'[e] = u
    BY <1>0, <2>1
  <2> QED BY <2>1, <2>2, <2>3, StillFlags
<1> QED BY <1>1, <1>2, <1>3, <1>4, <1>5, <1>6, <1>7 DEF Process

LEMMA CallFlags ==
  ASSUME Inv, Flags, NEW u \in Users, Call(u) \/ AddVersion(u, 0)
  PROVE  Flags'
<1>1. CASE \E d \in Docs : ClearRow(u, d)
  BY <1>1, ClearRowFlags
<1>2. CASE SelectLatest(u)
  BY <1>2, SelectLatestFlags
<1>3. CASE Promote(u)
  BY <1>3, PromoteFlags
<1>4. CASE Commit(u)
  BY <1>4, CommitFlags
<1>5. CASE AddVersion(u, 0) \/ AddVersion(u, 1)
  BY <1>5, AddVersionFlags
<1>6. CASE IntegrityError(u) \/ CancelCall(u)
  BY <1>6, RollbackFlags DEF IntegrityError, CancelCall
<1> QED BY <1>1, <1>2, <1>3, <1>4, <1>5, <1>6 DEF Call

LEMMA RequestFlags ==
  ASSUME Inv, Flags, Request
  PROVE  Flags'
<1>1. CASE \E u \in Users, op \in {"delete", "restore"}, d \in Docs : LockDocument(u, op, d)
  BY <1>1, LockDocumentFlags
<1>2. CASE \E u \in Users : LockGroup(u)
  BY <1>2, LockGroupFlags
<1>3. ASSUME NEW d \in Docs, Rerun(d) PROVE Flags'
  <2>1. /\ docs' = docs /\ groupLock' = groupLock /\ tx' = tx /\ docLock' = docLock
        /\ d \in Existing /\ queue' = [queue EXCEPT ![d] = @ + 1]
    BY <1>3 DEF Rerun
  <2>2. SameFlags
    BY <2>1 DEF SameFlags, Existing
  <2>3. \A f \in Docs : queue'[f] > 0 => queue[f] > 0 \/ f \in Existing
    <3> SUFFICES ASSUME NEW f \in Docs, f # d PROVE queue'[f] = queue[f]
      BY <2>1
    <3> QED BY <2>1
  <2> QED BY <2>1, <2>2, <2>3, StillFlags
<1>4. CASE UpdateStatus
  <2>1. /\ docs' = docs /\ groupLock' = groupLock /\ tx' = tx /\ docLock' = docLock
        /\ queue' = queue
    BY <1>4 DEF UpdateStatus
  <2>2. SameFlags
    BY <2>1 DEF SameFlags, Existing
  <2> QED BY <2>1, <2>2, StillFlags
<1>5. ASSUME NEW d \in Docs, NEW found \in Texts, PersistTranscription(d, found) PROVE Flags'
  <2>1. /\ docs' = [docs EXCEPT ![d].text = found] /\ docs[d].status = "READY"
        /\ groupLock' = groupLock /\ tx' = tx /\ docLock' = docLock /\ queue' = queue
    BY <1>5 DEF PersistTranscription
  <2>2. d \in Existing /\ docs \in [Docs -> Rows] /\ "READY" \in Statuses \ {"ABSENT"}
    BY <2>1 DEF Existing, Inv, Typed, Statuses
  <2>3. SameFlags
    BY <2>1, <2>2, StatusKeepsFlags
  <2> QED BY <2>1, <2>3, StillFlags
<1> QED BY <1>1, <1>2, <1>3, <1>4, <1>5 DEF Request

LEMMA SearchFlags ==
  ASSUME Flags, OnlySearch
  PROVE  Flags'
<1>1. /\ docs' = docs /\ groupLock' = groupLock /\ tx' = tx /\ docLock' = docLock
      /\ queue' = queue
  BY DEF OnlySearch
<1>2. SameFlags
  BY <1>1 DEF SameFlags, Existing
<1> QED BY <1>1, <1>2, StillFlags

LEMMA OrderStep == Inv /\ Flags /\ [Next]_vars => Flags'
<1> SUFFICES ASSUME Inv, Flags, [Next]_vars PROVE Flags'
  OBVIOUS
<1>1. CASE \E u \in Users : Call(u) \/ AddVersion(u, 0)
  BY <1>1, CallFlags
<1>2. CASE \E w \in Workers : Process(w) \/ DatabaseFails(w) \/ Crash(w)
  BY <1>2, ProcessFlags
<1>3. CASE (\E j \in jobs : Sync(j) \/ SyncFails(j)) \/ Scan
  BY <1>3, SearchFlags DEF Sync, SyncFails, Scan
<1>4. CASE UNCHANGED vars
  <2>1. /\ docs' = docs /\ groupLock' = groupLock /\ tx' = tx /\ docLock' = docLock
        /\ queue' = queue
    BY <1>4 DEF vars
  <2>2. SameFlags
    BY <2>1 DEF SameFlags, Existing
  <2> QED BY <2>1, <2>2, StillFlags
<1> QED BY <1>1, <1>2, <1>3, <1>4, RequestFlags DEF Next, Work, Disturb

\* The version shown as the latest is the highest that is not deleted, and there is
\* one as long as a version is left, however deletions, restorations and uploads of
\* the same group interleave and whichever of them the database cancels or refuses
\* (promote_latest_among_active, clear_latest, uq_document_group_latest).
THEOREM LatestStaysHighest == Spec => []LatestIsHighest
<1>1. Flags => LatestIsHighest
  BY DEF Flags
<1> QED BY <1>1, Start, Step, FlagsStart, OrderStep, PTL DEF Spec
=============================================================================
