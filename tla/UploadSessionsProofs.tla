------------------------ MODULE UploadSessionsProofs ------------------------
(***************************************************************************)
(* Proofs about UploadSessions, for any numbers of files, documents, calls *)
(* and workers: no committed row loses its object, a file is promoted at   *)
(* most once, the identity of an identified session is that of its files,  *)
(* an identification in progress is in somebody's hands, and a closed      *)
(* session stays as it is.                                                 *)
(***************************************************************************)
EXTENDS UploadSessions, TLAPS

(* The holder of the row lock is the call that is inside its transaction, and *)
(* only a call that cleans up has objects to delete.                          *)
Holder ==
  /\ \A r \in Requests : requests[r].at = "open" <=> tx.owner = r
  /\ tx.owner = None => tx = NoTx
  /\ tx.owner # None => tx.call # "none" /\ session.status \in Open
  /\ \A r \in Requests : requests[r].at # "cleanup" => requests[r].keys = {}

(* What an open transaction of either kind has done so far. *)
Workspace ==
  /\ tx.call = "upload" =>
       /\ tx.docs = NoDocs /\ tx.done = {}
       /\ \A f \in tx.items \cup Files(tx.rows) :
            temp[f] = None /\ \A d \in Docs(documents) : documents[d] # f
  /\ tx.call # "upload" =>
       /\ tx.rows = NoRows
       /\ tx.items \cup tx.done \subseteq Files(temp)
       /\ tx.items \cap tx.done = {}
  /\ \A d \in Docs(tx.docs) : documents[d] = None /\ tx.docs[d] \in tx.done
  /\ \A d, e \in Docs(tx.docs) : tx.docs[d] = tx.docs[e] => d = e

(* Ids that are in use were allocated, those of documents that were made      *)
(* cannot be allocated again.                                                 *)
Allocated ==
  /\ Files(temp) \cup Docs(documents) \cup Created \cup tx.items \subseteq used
  /\ \A d \in Docs(documents) : documents[d] \in used
  /\ \A r \in Requests : requests[r].keys \subseteq used

(* What a row names, or will name once the open transaction commits, is in S3 *)
(* and on nobody's list of objects to delete.                                 *)
Kept == Files(temp) \cup Docs(documents) \cup Created

Backed ==
  "lost reply" \notin incidents =>
    /\ Kept \subseteq objects
    /\ \A r \in Requests : requests[r].keys \cap (Kept \cup tx.items) = {}

(* Messages are sent once and every reply of a commit arrives. *)
Clean == {"publish", "lost reply"} \cap incidents = {}

(* At most one call, message or worker carries an identification. *)
OneCarrier ==
  /\ \A q, r \in Requests : Carrying(q) /\ Carrying(r) => q = r
  /\ \A v, w \in Workers : Busy(v) /\ Busy(w) => v = w
  /\ messages <= 1
  /\ (\E r \in Requests : Carrying(r)) => messages = 0 /\ ~\E w \in Workers : Busy(w)
  /\ messages > 0 => ~\E w \in Workers : Busy(w)

NoCarrier ==
  /\ \A r \in Requests : ~Carrying(r)
  /\ \A w \in Workers : ~Busy(w)
  /\ messages = 0

(* Between identifications nobody carries one; during one, what its carrier   *)
(* remembers is still true.                                                   *)
Identified ==
  Clean =>
    /\ session.status \in Open => NoCarrier
    /\ session.status = "UPLOADING" => session.identity = None
    /\ session.status = "IDENTIFIED" => session.identity = temp
    /\ session.status = "IDENTIFYING" =>
         /\ OneCarrier
         /\ session.identity \in {None, temp}
         /\ \A r \in Requests : Carrying(r) =>
              requests[r].prev = IF session.identity = None THEN "UPLOADING"
                                                            ELSE "IDENTIFIED"
         /\ \A w \in Workers : Busy(w) =>
              workers[w].files = temp /\ workers[w].prior = session.identity

Inv ==
  /\ TypeOK
  /\ Holder
  /\ Workspace
  /\ Allocated
  /\ Backed
  /\ PromotedOnce
  /\ Identified
  /\ IdentifyingIsCarried

-----------------------------------------------------------------------------

(* The initial state satisfies the invariant. *)
LEMMA InitInv == Init => Inv
<1> SUFFICES ASSUME Init PROVE Inv
  OBVIOUS
<1> USE UploadAssumption DEF UploadAssumption, Init, NoTx, NoRows, NoDocs, Idle,
        IdleWorker, Files, Docs, Created
<1>1. TypeOK
  BY DEF TypeOK, TempRows, DocRows, Identity, Transaction, Request, Worker, Open
<1>2. Holder /\ Workspace /\ Allocated /\ Backed
  BY DEF Holder, Workspace, Allocated, Backed, Kept
<1>3. PromotedOnce /\ Identified /\ IdentifyingIsCarried
  BY DEF PromotedOnce, Identified, NoCarrier, Carrying, Busy, IdentifyingIsCarried, Open
<1> QED
  BY <1>1, <1>2, <1>3 DEF Inv

-----------------------------------------------------------------------------
(* Types *)

(* The constants of the module have their types. *)
LEMMA ConstantTypes ==
  /\ NoRows \in TempRows /\ NoDocs \in DocRows
  /\ NoTx \in Transaction /\ Idle \in Request /\ IdleWorker \in Worker
  BY DEF NoRows, NoDocs, NoTx, Idle, IdleWorker, TempRows, DocRows, Identity,
         Transaction, Request, Worker, Open

(* A call that ends its transaction keeps the types. *)
LEMMA RaiseTypes ==
  ASSUME TypeOK, NEW r \in Requests, NEW keys \in SUBSET Keys,
         NEW error \in {"none", "MultipleResultsFound"}, Raise(r, keys, error)
  PROVE  tx' \in Transaction /\ requests' \in [Requests -> Request]
  BY ConstantTypes DEF Raise, TypeOK, Idle, Request

(* The rows a commit leaves behind, and the objects it is about, are typed. *)
LEMMA VisibleTypes ==
  ASSUME TypeOK
  PROVE  /\ Visible \in TempRows /\ VisibleDocuments \in DocRows
         /\ Created \in SUBSET Keys
         /\ Invalidated \in [status : Open \cup Terminal \cup {"IDENTIFYING"},
                             identity : Identity]
  BY DEF TypeOK, Visible, VisibleDocuments, Created, Files, Docs, Keys, TempRows,
         DocRows, Transaction, Invalidated, Identity, Open

(* An outage is of a known kind. *)
LEMMA HappenedTypes ==
  ASSUME TypeOK, NEW kind \in {"crash", "lost message", "lost reply", "publish"},
         Happened(kind)
  PROVE  incidents' \subseteq {"crash", "lost message", "lost reply", "publish"}
  BY DEF TypeOK, Happened

(* A message sent within the bound, and one taken, leave a possible number. *)
LEMMA OneMore ==
  ASSUME messages \in 0..MaxMessages, messages < MaxMessages
  PROVE  messages + 1 \in 0..MaxMessages
  BY UploadAssumption DEF UploadAssumption

LEMMA OneLess ==
  ASSUME messages \in 0..MaxMessages, messages > 0
  PROVE  messages - 1 \in 0..MaxMessages
  BY UploadAssumption DEF UploadAssumption

(* Every step keeps the types. *)
LEMMA TypeStep ==
  ASSUME TypeOK, [Next]_vars
  PROVE  TypeOK'
<1>1. ASSUME NEW r \in Requests, Upload(r) PROVE TypeOK'
  <2>1. ASSUME NEW fs \in SUBSET TempIds, BeginUpload(r, fs) PROVE TypeOK'
    BY <2>1, ConstantTypes
    DEF BeginUpload, TypeOK, NoTx, Idle, Transaction, Request, Keys
  <2>2. ASSUME NEW f \in TempIds, NEW row \in TempRow, Ingest(r, f, row) PROVE TypeOK'
    BY <2>2 DEF Ingest, TypeOK, Transaction, TempRows, Keys
  <2>3. ASSUME NEW f \in TempIds, NEW content \in Contents,
               NEW stored \in SUBSET {f}, NEW known \in SUBSET {f},
               IngestFails(r, f, content, stored, known)
        PROVE  TypeOK'
    <3>1. Created \in SUBSET Keys /\ Created \cup known \in SUBSET Keys
      BY VisibleTypes DEF Keys
    <3>2. tx' \in Transaction /\ requests' \in [Requests -> Request]
      BY <2>3, <3>1, RaiseTypes DEF IngestFails
    <3> QED
      BY <2>3, <3>2 DEF IngestFails, Raise, TypeOK, Keys
  <2>4. CASE CommitUpload(r)
    BY <2>4, VisibleTypes, ConstantTypes DEF CommitUpload, UploadCommitted, TypeOK
  <2> QED
    BY <1>1, <2>1, <2>2, <2>3, <2>4 DEF Upload
<1>2. ASSUME NEW r \in Requests, Resolve(r) PROVE TypeOK'
  <2>1. ASSUME NEW mode \in {"CREATE_NEW", "LINK_EXISTING"}, NEW fs \in SUBSET TempIds,
               BeginResolve(r, mode, fs)
        PROVE  TypeOK'
    BY <2>1, ConstantTypes DEF BeginResolve, TypeOK, NoTx, Idle, Transaction, Request
  <2>2. ASSUME NEW f \in TempIds, Reuse(r, f) PROVE TypeOK'
    BY <2>2 DEF Reuse, TypeOK, Transaction
  <2>3. ASSUME NEW f \in TempIds, NEW d \in DocIds, Promote(r, f, d) PROVE TypeOK'
    BY <2>3 DEF Promote, TypeOK, Transaction, DocRows, Keys
  <2>4. ASSUME NEW f \in TempIds, NEW d \in DocIds, NEW stored \in SUBSET {d},
               NEW known \in SUBSET {d}, PromoteFails(r, f, d, stored, known)
        PROVE  TypeOK'
    <3>1. Created \cup known \in SUBSET Keys
      BY VisibleTypes DEF Keys
    <3>2. tx' \in Transaction /\ requests' \in [Requests -> Request]
      BY <2>4, <3>1, RaiseTypes DEF PromoteFails
    <3> QED
      BY <2>4, <3>2 DEF PromoteFails, Raise, TypeOK, Keys
  <2>5. CASE CommitResolve(r)
    <3>1. tx.done \in SUBSET Keys /\ Docs(tx.docs) \in SUBSET DocIds
      BY DEF TypeOK, Transaction, Keys, Docs
    <3>2. requests' \in [Requests -> Request]
      BY <2>5, <3>1 DEF CommitResolve, TypeOK, Request, Idle, Open
    <3>3. session' \in [status : Open \cup Terminal \cup {"IDENTIFYING"},
                        identity : Identity]
      BY <2>5 DEF CommitResolve, ResolveCommitted, TypeOK, Terminal
    <3> QED
      BY <2>5, <3>2, <3>3, VisibleTypes, ConstantTypes
      DEF CommitResolve, ResolveCommitted, TypeOK
  <2> QED
    BY <1>2, <2>1, <2>2, <2>3, <2>4, <2>5 DEF Resolve
<1>3. ASSUME NEW r \in Requests, FinishCall(r) PROVE TypeOK'
  <2>1. CASE CommitFails(r)
    <3>1. tx' \in Transaction /\ requests' \in [Requests -> Request]
      BY <2>1, VisibleTypes, RaiseTypes DEF CommitFails
    <3> QED
      BY <2>1, <3>1 DEF CommitFails, Raise, TypeOK
  <2>2. CASE LoseCommitReply(r)
    <3>1. requests' \in [Requests -> Request]
      BY <2>2, VisibleTypes DEF LoseCommitReply, TypeOK, Request, Idle, Open
    <3>2. session' \in [status : Open \cup Terminal \cup {"IDENTIFYING"},
                        identity : Identity]
      BY <2>2, VisibleTypes
      DEF LoseCommitReply, UploadCommitted, ResolveCommitted, TypeOK, Terminal
    <3> QED
      BY <2>2, <3>1, <3>2, VisibleTypes, ConstantTypes, HappenedTypes
      DEF LoseCommitReply, UploadCommitted, ResolveCommitted, TypeOK
  <2>3. ASSUME NEW k \in Keys, NEW deleted \in SUBSET Keys, Cleanup(r, k, deleted)
        PROVE  TypeOK'
    BY <2>3 DEF Cleanup, TypeOK, Request
  <2>4. CASE CleanedUp(r)
    BY <2>4, ConstantTypes DEF CleanedUp, TypeOK, Request
  <2>5. ASSUME NEW sent \in SUBSET DocIds, Publish(r, sent) PROVE TypeOK'
    BY <2>5, ConstantTypes DEF Publish, TypeOK
  <2> QED
    BY <1>3, <2>1, <2>2, <2>3, <2>4, <2>5 DEF FinishCall
<1>4. ASSUME NEW r \in Requests, Change(r) PROVE TypeOK'
  <2>1. ASSUME NEW f \in TempIds, NEW type \in Types, PatchFile(r, f, type) PROVE TypeOK'
    BY <2>1, VisibleTypes DEF PatchFile, TypeOK, TempRows, TempRow
  <2>2. ASSUME NEW f \in TempIds, DeleteFile(r, f) PROVE TypeOK'
    BY <2>2, VisibleTypes DEF DeleteFile, TypeOK, TempRows, Keys, Request, Idle, Open
  <2>3. CASE Cancel(r)
    BY <2>3, ConstantTypes
    DEF Cancel, TypeOK, Keys, Request, Idle, Open, Terminal, Files
  <2> QED
    BY <1>4, <2>1, <2>2, <2>3 DEF Change
<1>5. ASSUME NEW r \in Requests, Identify(r) PROVE TypeOK'
  <2>1. CASE StartIdentify(r)
    <3>1. requests' \in [Requests -> Request]
      <4>1. [Idle EXCEPT !.at = "enqueue", !.prev = session.status] \in Request
        BY <2>1, ConstantTypes DEF StartIdentify, Request
      <4> QED
        BY <2>1, <4>1 DEF StartIdentify, TypeOK
    <3>2. session' \in [status : Open \cup Terminal \cup {"IDENTIFYING"},
                        identity : Identity]
      BY <2>1 DEF StartIdentify, TypeOK
    <3>3. incidents' \subseteq {"crash", "lost message", "lost reply", "publish"}
      BY <2>1, HappenedTypes DEF StartIdentify, TypeOK
    <3> QED
      BY <2>1, <3>1, <3>2, <3>3 DEF StartIdentify, TypeOK
  <2>2. CASE Enqueue(r)
    <3>1. messages' \in 0..MaxMessages
      BY <2>2, OneMore DEF Enqueue, TypeOK
    <3> QED
      BY <2>2, <3>1, ConstantTypes DEF Enqueue, TypeOK
  <2>3. CASE EnqueueFails(r)
    <3>1. messages' \in 0..MaxMessages
      BY <2>3, OneMore DEF EnqueueFails, TypeOK
    <3>2. requests' \in [Requests -> Request]
      BY <2>3 DEF EnqueueFails, TypeOK, Request
    <3>3. incidents' \subseteq {"crash", "lost message", "lost reply", "publish"}
      BY <2>3, HappenedTypes DEF EnqueueFails, TypeOK
    <3> QED
      BY <2>3, <3>1, <3>2, <3>3 DEF EnqueueFails, TypeOK
  <2>4. CASE Restore(r)
    BY <2>4, ConstantTypes DEF Restore, TypeOK, Request
  <2> QED
    BY <1>5, <2>1, <2>2, <2>3, <2>4 DEF Identify
<1>6. ASSUME NEW r \in Requests, CrashRequest(r) PROVE TypeOK'
  BY <1>6, ConstantTypes, HappenedTypes DEF CrashRequest, TypeOK
<1>7. ASSUME NEW w \in Workers, Work(w) PROVE TypeOK'
  <2>1. CASE Claim(w)
    <3>1. messages' \in 0..MaxMessages
      BY <2>1, OneLess DEF Claim, TypeOK
    <3>2. workers' \in [Workers -> Worker]
      BY <2>1 DEF Claim, TypeOK, Worker
    <3> QED
      BY <2>1, <3>1, <3>2 DEF Claim, TypeOK
  <2>2. CASE Persist(w)
    <3>1. workers' \in [Workers -> Worker]
      <4>1. [workers[w] EXCEPT !.at = "failing"] \in Worker
        BY DEF TypeOK, Worker
      <4> QED
        BY <2>2, <4>1, ConstantTypes DEF Persist, TypeOK
    <3>2. session' \in [status : Open \cup Terminal \cup {"IDENTIFYING"},
                        identity : Identity]
      BY <2>2 DEF Persist, TypeOK, Worker, Identity, Open
    <3>3. incidents' \subseteq {"crash", "lost message", "lost reply", "publish"}
      BY <2>2, HappenedTypes DEF Persist, TypeOK
    <3> QED
      BY <2>2, <3>1, <3>2, <3>3 DEF Persist, TypeOK
  <2>3. CASE FailRestore(w)
    BY <2>3, ConstantTypes DEF FailRestore, TypeOK, Worker, Open
  <2>4. CASE CrashWorker(w)
    BY <2>4, ConstantTypes, HappenedTypes DEF CrashWorker, TypeOK
  <2> QED
    BY <1>7, <2>1, <2>2, <2>3, <2>4 DEF Work
<1>8. CASE LoseMessage
  <2>1. messages' \in 0..MaxMessages
    BY <1>8, OneLess DEF LoseMessage, TypeOK
  <2> QED
    BY <1>8, <2>1, HappenedTypes DEF LoseMessage, TypeOK
<1>9. CASE UNCHANGED vars
  BY <1>9 DEF TypeOK, vars
<1> QED
  BY <1>1, <1>2, <1>3, <1>4, <1>5, <1>6, <1>7, <1>8, <1>9 DEF Next

-----------------------------------------------------------------------------
(* The row lock *)

(* The step is a call's own. *)
OnlyCall(r) == \A q \in Requests : q # r => requests'[q] = requests[q]

(* A call begins its transaction. *)
LEMMA HolderBegins ==
  ASSUME Holder, NEW r \in Requests, None \notin Requests, OnlyCall(r), tx.owner = None,
         tx'.owner = r, tx'.call # "none", session'.status \in Open,
         requests'[r].at = "open", requests'[r].keys = {}
  PROVE  Holder'
  BY DEF Holder, OnlyCall

(* A call ends its transaction. *)
LEMMA HolderEnds ==
  ASSUME Holder, NEW r \in Requests, None \notin Requests, OnlyCall(r), tx.owner = r,
         tx' = NoTx, requests'[r].at # "open",
         requests'[r].at # "cleanup" => requests'[r].keys = {}
  PROVE  Holder'
  BY DEF Holder, OnlyCall, NoTx

(* A call takes a step inside its transaction. *)
LEMMA HolderTx ==
  ASSUME Holder, tx'.owner = tx.owner, tx'.call = tx.call, tx.owner # None,
         UNCHANGED <<requests, session>>
  PROVE  Holder'
  BY DEF Holder

(* A call takes a step outside its transaction. *)
LEMMA HolderOut ==
  ASSUME Holder, NEW r \in Requests, OnlyCall(r), UNCHANGED tx,
         requests[r].at # "open", requests'[r].at # "open",
         requests'[r].at # "cleanup" => requests'[r].keys = {},
         tx.owner # None => session'.status \in Open
  PROVE  Holder'
  BY DEF Holder, OnlyCall

(* The row lock has one holder at a time. *)
LEMMA HolderStep ==
  ASSUME TypeOK, Holder, [Next]_vars
  PROVE  Holder'
<1>0. /\ requests \in [Requests -> Request]
      /\ None \notin Requests /\ tx.owner \in Requests \cup {None}
  BY UploadAssumption DEF UploadAssumption, TypeOK, Transaction
<1>h. /\ tx.owner # None => session.status \in Open
      /\ \A q \in Requests : requests[q].at # "cleanup" => requests[q].keys = {}
  BY DEF Holder
<1>1. ASSUME NEW r \in Requests, Upload(r) PROVE Holder'
  <2>1. ASSUME NEW fs \in SUBSET TempIds, BeginUpload(r, fs) PROVE Holder'
    BY <2>1, <1>0, HolderBegins DEF BeginUpload, CanCall, OnlyCall, NoTx, Idle, Open
  <2>2. ASSUME NEW f \in TempIds, NEW row \in TempRow, Ingest(r, f, row) PROVE Holder'
    BY <2>2, <1>0, HolderTx DEF Ingest, Transaction, TypeOK
  <2>3. ASSUME NEW f \in TempIds, NEW content \in Contents,
               NEW stored \in SUBSET {f}, NEW known \in SUBSET {f},
               IngestFails(r, f, content, stored, known)
        PROVE  Holder'
    <3>1. Raise(r, Created, "MultipleResultsFound") \/ Raise(r, Created \cup known, "none")
      BY <2>3 DEF IngestFails
    <3>2. tx.owner = r /\ UNCHANGED <<temp, session>>
      BY <2>3, <3>1 DEF IngestFails, Raise
    <3>3. ASSUME NEW keys, NEW error, Raise(r, keys, error) PROVE Holder'
      BY <1>0, <3>2, <3>3, HolderEnds DEF Raise, OnlyCall, Idle
    <3> QED
      BY <3>1, <3>3
  <2>4. CASE CommitUpload(r)
    BY <2>4, <1>0, HolderEnds DEF CommitUpload, UploadCommitted, OnlyCall, Idle
  <2> QED
    BY <1>1, <2>1, <2>2, <2>3, <2>4 DEF Upload
<1>2. ASSUME NEW r \in Requests, Resolve(r) PROVE Holder'
  <2>1. ASSUME NEW mode \in {"CREATE_NEW", "LINK_EXISTING"}, NEW fs \in SUBSET TempIds,
               BeginResolve(r, mode, fs)
        PROVE  Holder'
    BY <2>1, <1>0, HolderBegins DEF BeginResolve, CanCall, OnlyCall, NoTx, Idle, Open
  <2>2. ASSUME NEW f \in TempIds, Reuse(r, f) PROVE Holder'
    BY <2>2, <1>0, HolderTx DEF Reuse, Transaction, TypeOK
  <2>3. ASSUME NEW f \in TempIds, NEW d \in DocIds, Promote(r, f, d) PROVE Holder'
    BY <2>3, <1>0, HolderTx DEF Promote, Transaction, TypeOK
  <2>4. ASSUME NEW f \in TempIds, NEW d \in DocIds, NEW stored \in SUBSET {d},
               NEW known \in SUBSET {d},
               PromoteFails(r, f, d, stored, known)
        PROVE  Holder'
    BY <2>4, <1>0, HolderEnds DEF PromoteFails, Raise, OnlyCall, Idle
  <2>5. CASE CommitResolve(r)
    BY <2>5, <1>0, HolderEnds DEF CommitResolve, ResolveCommitted, OnlyCall, Idle
  <2> QED
    BY <1>2, <2>1, <2>2, <2>3, <2>4, <2>5 DEF Resolve
<1>3. ASSUME NEW r \in Requests, FinishCall(r) PROVE Holder'
  <2>1. CASE CommitFails(r)
    BY <2>1, <1>0, HolderEnds DEF CommitFails, Raise, OnlyCall, Idle
  <2>2. CASE LoseCommitReply(r)
    BY <2>2, <1>0, HolderEnds
    DEF LoseCommitReply, UploadCommitted, ResolveCommitted, OnlyCall, Idle
  <2>3. ASSUME NEW k \in Keys, NEW deleted \in SUBSET Keys,
               Cleanup(r, k, deleted)
        PROVE  Holder'
    BY <2>3, <1>0, <1>h, HolderOut DEF Cleanup, OnlyCall, Idle, Request
  <2>4. CASE CleanedUp(r)
    BY <2>4, <1>0, <1>h, HolderOut DEF CleanedUp, OnlyCall, Idle, Request
  <2>5. ASSUME NEW sent \in SUBSET DocIds, Publish(r, sent) PROVE Holder'
    BY <2>5, <1>0, <1>h, HolderOut DEF Publish, OnlyCall, Idle
  <2> QED
    BY <1>3, <2>1, <2>2, <2>3, <2>4, <2>5 DEF FinishCall
<1>4. ASSUME NEW r \in Requests, Change(r) PROVE Holder'
  <2>1. ASSUME NEW f \in TempIds, NEW type \in Types,
               PatchFile(r, f, type)
        PROVE  Holder'
    BY <2>1, <1>0, <1>h, HolderOut DEF PatchFile, CanCall, OnlyCall, Idle
  <2>2. ASSUME NEW f \in TempIds, DeleteFile(r, f) PROVE Holder'
    BY <2>2, <1>0, <1>h, HolderOut DEF DeleteFile, CanCall, OnlyCall, Idle
  <2>3. CASE Cancel(r)
    BY <2>3, <1>0, <1>h, HolderOut DEF Cancel, CanCall, OnlyCall, Idle
  <2> QED
    BY <1>4, <2>1, <2>2, <2>3 DEF Change
<1>5. ASSUME NEW r \in Requests, Identify(r) PROVE Holder'
  <2>1. CASE StartIdentify(r)
    <3>1. requests[r].at = "idle" /\ tx.owner = None /\ UNCHANGED tx
      BY <2>1 DEF StartIdentify, CanCall
    <3>2. CASE requests' = [requests EXCEPT ![r] =
                 [Idle EXCEPT !.at = "enqueue", !.prev = session.status]]
      BY <1>0, <1>h, <3>1, <3>2, HolderOut DEF OnlyCall, Idle
    <3>3. CASE UNCHANGED requests
      BY <1>0, <1>h, <3>1, <3>3, HolderOut DEF OnlyCall
    <3> QED
      BY <2>1, <3>2, <3>3 DEF StartIdentify
  <2>2. CASE Enqueue(r)
    BY <2>2, <1>0, <1>h, HolderOut DEF Enqueue, OnlyCall, Idle
  <2>3. CASE EnqueueFails(r)
    <3>1. /\ requests' = [requests EXCEPT ![r].at = "restore"]
          /\ requests[r].at = "enqueue" /\ UNCHANGED <<session, tx>>
      BY <2>3 DEF EnqueueFails
    <3>2. requests'[r] = [requests[r] EXCEPT !.at = "restore"]
      BY <1>0, <3>1
    <3>3. requests'[r].at = "restore" /\ requests'[r].keys = {}
      BY <1>0, <1>h, <3>1, <3>2 DEF Request
    <3>4. OnlyCall(r)
      BY <1>0, <3>1 DEF OnlyCall
    <3>5. tx.owner # None => session'.status \in Open
      BY <1>h, <3>1
    <3> QED
      BY <3>1, <3>3, <3>4, <3>5, HolderOut
  <2>4. CASE Restore(r)
    BY <2>4, <1>0, <1>h, HolderOut DEF Restore, OnlyCall, Idle
  <2> QED
    BY <1>5, <2>1, <2>2, <2>3, <2>4 DEF Identify
<1>6. ASSUME NEW r \in Requests, CrashRequest(r) PROVE Holder'
  <2>1. CASE tx.owner = r
    BY <1>6, <1>0, <2>1, HolderEnds DEF CrashRequest, OnlyCall, Idle
  <2>2. CASE tx.owner # r
    BY <1>6, <1>0, <1>h, <2>2, HolderOut DEF CrashRequest, OnlyCall, Idle, Holder
  <2> QED
    BY <2>1, <2>2
<1>7. ASSUME NEW w \in Workers, Work(w) PROVE Holder'
  <2>1. CASE Claim(w)
    BY <2>1, <1>0 DEF Claim, Holder
  <2>2. CASE Persist(w)
    BY <2>2, <1>0 DEF Persist, Holder
  <2>3. CASE FailRestore(w)
    BY <2>3, <1>0 DEF FailRestore, Holder
  <2>4. CASE CrashWorker(w)
    BY <2>4, <1>0 DEF CrashWorker, Holder
  <2> QED
    BY <1>7, <2>1, <2>2, <2>3, <2>4 DEF Work
<1>8. CASE LoseMessage
  BY <1>8, <1>0 DEF LoseMessage, Holder
<1>9. CASE UNCHANGED vars
  BY <1>9 DEF vars, Holder
<1> QED
  BY <1>1, <1>2, <1>3, <1>4, <1>5, <1>6, <1>7, <1>8, <1>9 DEF Next

-----------------------------------------------------------------------------
(* Rows *)

Rows == Workspace /\ Allocated /\ PromotedOnce

RowTypes ==
  /\ temp \in TempRows /\ documents \in DocRows
  /\ tx \in Transaction
  /\ requests \in [Requests -> Request]
  /\ TempIds \cap DocIds = {}
  /\ None \notin Requests \cup TempIds \cup TempRow

(* A call takes a step outside its transaction. *)
LEMMA RowsOut ==
  ASSUME Rows, UNCHANGED <<tx, temp, documents, used>>,
         \A q \in Requests : requests'[q].keys \subseteq used
  PROVE  Rows'
  BY DEF Rows, Workspace, Allocated, PromotedOnce, Created, Files, Docs

(* With no transaction open, rows are changed or deleted. *)
LEMMA RowsFewer ==
  ASSUME RowTypes, Rows, tx = NoTx, UNCHANGED <<tx, documents, used>>,
         \A f \in TempIds : temp'[f] # None => temp[f] # None,
         \A q \in Requests : requests'[q].keys \subseteq used
  PROVE  Rows'
<1>1. Workspace'
  BY DEF Workspace, NoTx, NoRows, NoDocs, Files, Docs
<1>2. Allocated'
  BY DEF Rows, Allocated, NoTx, NoRows, NoDocs, Created, Files, Docs
<1>3. PromotedOnce'
  BY DEF Rows, PromotedOnce, Docs, RowTypes, DocRows
<1> QED
  BY <1>1, <1>2, <1>3 DEF Rows

(* A transaction is rolled back. *)
LEMMA RowsBack ==
  ASSUME Rows, tx' = NoTx, UNCHANGED <<temp, documents>>, used \subseteq used',
         \A q \in Requests : requests'[q].keys \subseteq used'
  PROVE  Rows'
<1>1. Workspace'
  BY DEF Workspace, NoTx, NoRows, NoDocs, Files, Docs
<1>2. Allocated' /\ PromotedOnce'
  BY DEF Rows, Allocated, PromotedOnce, NoTx, NoRows, NoDocs, Created, Files, Docs
<1> QED
  BY <1>1, <1>2 DEF Rows

(* An upload commits. *)
LEMMA RowsUploaded ==
  ASSUME RowTypes, Rows, UploadCommitted,
         \A q \in Requests : requests'[q].keys \subseteq used
  PROVE  Rows'
<1>1. Workspace'
  BY DEF UploadCommitted, Workspace, NoTx, NoRows, NoDocs, Files, Docs
<1>2. \A f \in TempIds : temp'[f] # None => temp[f] # None \/ f \in Files(tx.rows)
  BY DEF UploadCommitted, Visible, Files
<1>3. Allocated'
  BY <1>2 DEF UploadCommitted, Rows, Allocated, NoTx, NoRows, NoDocs, Created, Files, Docs
<1>4. PromotedOnce'
  BY <1>2 DEF UploadCommitted, Rows, Workspace, PromotedOnce, Docs, RowTypes, DocRows, Files
<1> QED
  BY <1>1, <1>3, <1>4 DEF Rows

(* A resolution commits. *)
LEMMA RowsResolved ==
  ASSUME RowTypes, Rows, ResolveCommitted,
         \A q \in Requests : requests'[q].keys \subseteq used
  PROVE  Rows'
<1>1. Workspace'
  BY DEF ResolveCommitted, Workspace, NoTx, NoRows, NoDocs, Files, Docs
<1>2. \A f \in TempIds : temp'[f] = IF f \in tx.done THEN None ELSE temp[f]
  BY DEF ResolveCommitted, Visible, Rows, Workspace, NoRows
<1>3. /\ \A d \in DocIds :
           documents'[d] = IF d \in Docs(tx.docs) THEN tx.docs[d] ELSE documents[d]
      /\ Docs(documents') = Docs(documents) \cup Docs(tx.docs)
  BY DEF ResolveCommitted, VisibleDocuments, Docs
<1>4. /\ tx.done \subseteq Files(temp) /\ tx.done \subseteq TempIds
      /\ \A d \in Docs(tx.docs) : tx.docs[d] \in tx.done /\ documents[d] = None
      /\ \A d, e \in Docs(tx.docs) : tx.docs[d] = tx.docs[e] => d = e
  BY DEF ResolveCommitted, Rows, Workspace, RowTypes, Transaction
<1>5. Allocated'
  <2>1. Created' = {} /\ tx'.items = {}
    BY DEF ResolveCommitted, Created, NoTx, NoRows, NoDocs, Files, Docs
  <2>2. Files(temp') \subseteq Files(temp)
    BY <1>2 DEF Files
  <2>3. \A d \in Docs(documents') : documents'[d] \in used
    BY <1>3, <1>4 DEF Rows, Allocated, Docs
  <2>4. Docs(tx.docs) \subseteq used
    BY DEF Rows, Allocated, Created
  <2>5. used' = used
    BY DEF ResolveCommitted
  <2> QED
    BY <1>3, <2>1, <2>2, <2>3, <2>4, <2>5 DEF Rows, Allocated
<1>6. PromotedOnce'
  <2>1. \A d \in Docs(documents) : documents[d] \in TempIds /\ temp[documents[d]] = None
    BY DEF Rows, PromotedOnce, RowTypes, DocRows, Docs
  <2>2. \A d \in Docs(documents) : documents[d] \notin tx.done
    BY <1>4, <2>1 DEF Files
  <2>3. ASSUME NEW d \in Docs(documents') PROVE temp'[documents'[d]] = None
    <3>1. CASE d \in Docs(tx.docs)
      <4>1. documents'[d] = tx.docs[d] /\ tx.docs[d] \in tx.done
        BY <1>3, <1>4, <3>1 DEF Docs
      <4> QED
        BY <1>2, <1>4, <4>1
    <3>2. CASE d \notin Docs(tx.docs)
      <4>1. d \in Docs(documents) /\ documents'[d] = documents[d]
        BY <1>3, <3>2 DEF Docs
      <4> QED
        BY <1>2, <2>1, <4>1
    <3> QED
      BY <3>1, <3>2
  <2>4. \A d, e \in Docs(documents') : documents'[d] = documents'[e] => d = e
    BY <1>3, <1>4, <2>2 DEF Rows, PromotedOnce, Docs
  <2> QED
    BY <2>3, <2>4 DEF PromotedOnce
<1> QED
  BY <1>1, <1>5, <1>6 DEF Rows

(* A transaction is begun: nothing is written yet. *)
LEMMA RowsBegun ==
  ASSUME RowTypes, Rows, NEW r \in Requests, NEW fs \in SUBSET TempIds,
         BeginUpload(r, fs) \/ \E mode \in {"CREATE_NEW", "LINK_EXISTING"} : BeginResolve(r, mode, fs)
  PROVE  Rows'
<1>1. /\ tx'.rows = NoRows /\ tx'.docs = NoDocs /\ tx'.done = {} /\ tx'.items = fs
      /\ UNCHANGED <<temp, documents>> /\ used \subseteq used'
      /\ \A q \in Requests : requests'[q].keys \subseteq requests[q].keys
  <2>1. ASSUME requests' = [requests EXCEPT ![r] = [Idle EXCEPT !.at = "open"]]
        PROVE  \A q \in Requests : requests'[q].keys \subseteq requests[q].keys
    BY <2>1 DEF Idle, RowTypes
  <2>2. CASE BeginUpload(r, fs)
    BY <2>1, <2>2 DEF BeginUpload, NoTx
  <2>3. CASE \E mode \in {"CREATE_NEW", "LINK_EXISTING"} : BeginResolve(r, mode, fs)
    BY <2>1, <2>3 DEF BeginResolve, NoTx
  <2> QED
    BY <2>2, <2>3
<1>2. fs \subseteq used'
  <2>1. CASE BeginUpload(r, fs)
    BY <2>1 DEF BeginUpload
  <2>2. CASE \E mode \in {"CREATE_NEW", "LINK_EXISTING"} : BeginResolve(r, mode, fs)
    BY <2>2 DEF BeginResolve, Rows, Allocated
  <2> QED
    BY <2>1, <2>2
<1>3. Allocated' /\ PromotedOnce'
  BY <1>1, <1>2 DEF Rows, Allocated, PromotedOnce, Created, Files, Docs, NoRows, NoDocs
<1>4. CASE BeginUpload(r, fs)
  <2>1. tx'.call = "upload" /\ fs \cap used = {}
    BY <1>4 DEF BeginUpload, NoTx
  <2> QED
    BY <1>1, <1>3, <2>1
    DEF Rows, Allocated, Workspace, Files, Docs, NoRows, NoDocs, RowTypes, TempRows, DocRows
<1>5. CASE \E mode \in {"CREATE_NEW", "LINK_EXISTING"} : BeginResolve(r, mode, fs)
  <2>1. tx'.call # "upload" /\ fs \subseteq Files(temp)
    BY <1>5 DEF BeginResolve, NoTx
  <2> QED
    BY <1>1, <1>3, <2>1 DEF Rows, Workspace, Files, Docs, NoDocs
<1> QED
  BY <1>4, <1>5

(* A file is ingested. *)
LEMMA RowsIngested ==
  ASSUME RowTypes, Rows, NEW r \in Requests, NEW f \in TempIds, NEW row \in TempRow,
         Ingest(r, f, row)
  PROVE  Rows'
<1>1. /\ tx'.call = "upload" /\ tx'.docs = tx.docs /\ tx'.done = tx.done
      /\ tx'.items = tx.items \ {f} /\ tx'.rows = [tx.rows EXCEPT ![f] = row]
      /\ f \in tx.items /\ tx.call = "upload"
      /\ UNCHANGED <<temp, documents, used, requests>>
  BY DEF Ingest, RowTypes, Transaction
<1>2. Files(tx'.rows) \subseteq Files(tx.rows) \cup {f}
  BY <1>1 DEF Files, RowTypes, Transaction, TempRows
<1>3. Workspace'
  BY <1>1, <1>2 DEF Rows, Workspace, Files, Docs
<1>4. Allocated' /\ PromotedOnce'
  BY <1>1, <1>2 DEF Rows, Allocated, PromotedOnce, Created, Files, Docs
<1> QED
  BY <1>3, <1>4 DEF Rows

(* A file is reused. *)
LEMMA RowsReused ==
  ASSUME RowTypes, Rows, NEW r \in Requests, NEW f \in TempIds, Reuse(r, f)
  PROVE  Rows'
<1>1. /\ tx'.call = tx.call /\ tx'.docs = tx.docs /\ tx'.rows = tx.rows
      /\ tx'.items = tx.items \ {f} /\ tx'.done = tx.done \cup {f}
      /\ f \in tx.items /\ tx.call = "LINK_EXISTING"
      /\ UNCHANGED <<temp, documents, used, requests>>
  BY DEF Reuse, RowTypes, Transaction
<1>2. Workspace'
  BY <1>1 DEF Rows, Workspace, Files, Docs
<1>3. Allocated' /\ PromotedOnce'
  BY <1>1 DEF Rows, Allocated, PromotedOnce, Created, Files, Docs
<1> QED
  BY <1>2, <1>3 DEF Rows

(* A file is promoted. *)
LEMMA RowsPromoted ==
  ASSUME RowTypes, Rows, NEW r \in Requests, NEW f \in TempIds, NEW d \in DocIds,
         Promote(r, f, d)
  PROVE  Rows'
<1>1. /\ tx'.call = tx.call /\ tx'.docs = [tx.docs EXCEPT ![d] = f] /\ tx'.rows = tx.rows
      /\ tx'.items = tx.items \ {f} /\ tx'.done = tx.done \cup {f}
      /\ f \in tx.items /\ tx.call # "upload" /\ d \notin used /\ used' = used \cup {d}
      /\ UNCHANGED <<temp, documents, requests>>
  BY DEF Promote, RowTypes, Transaction
<1>2. /\ \A e \in DocIds : tx'.docs[e] = IF e = d THEN f ELSE tx.docs[e]
      /\ Docs(tx'.docs) = Docs(tx.docs) \cup {d}
  BY <1>1 DEF Docs, RowTypes, Transaction, DocRows
<1>3. documents[d] = None /\ d \notin Docs(tx.docs)
  BY <1>1 DEF Rows, Allocated, Created, Docs
<1>4. \A e \in Docs(tx.docs) : e \in DocIds /\ tx.docs[e] # f
  BY <1>1 DEF Rows, Workspace, Docs
<1>5. Workspace'
  BY <1>1, <1>2, <1>3, <1>4 DEF Rows, Workspace, Files
<1>6. Allocated' /\ PromotedOnce'
  BY <1>1, <1>2 DEF Rows, Allocated, PromotedOnce, Created, Files
<1> QED
  BY <1>5, <1>6 DEF Rows

(* Every step keeps rows, ids and documents consistent. *)
LEMMA RowsStep ==
  ASSUME TypeOK, Holder, Rows, [Next]_vars
  PROVE  Rows'
<1>0. /\ RowTypes
      /\ tx.owner = None => tx = NoTx
      /\ \A q \in Requests : requests[q].keys \subseteq used
  BY UploadAssumption
  DEF UploadAssumption, RowTypes, TypeOK, Holder, Rows, Allocated
<1>1. ASSUME NEW r \in Requests, Upload(r) PROVE Rows'
  <2>1. ASSUME NEW fs \in SUBSET TempIds, BeginUpload(r, fs) PROVE Rows'
    BY <2>1, <1>0, RowsBegun
  <2>2. ASSUME NEW f \in TempIds, NEW row \in TempRow, Ingest(r, f, row) PROVE Rows'
    BY <2>2, <1>0, RowsIngested
  <2>3. ASSUME NEW f \in TempIds, NEW content \in Contents,
               NEW stored \in SUBSET {f}, NEW known \in SUBSET {f},
               IngestFails(r, f, content, stored, known)
        PROVE  Rows'
    <3>1. Raise(r, Created, "MultipleResultsFound") \/ Raise(r, Created \cup known, "none")
      BY <2>3 DEF IngestFails
    <3>2. Created \cup known \subseteq used /\ used' = used
      BY <2>3 DEF IngestFails, Rows, Allocated
    <3>3. ASSUME NEW keys \in SUBSET used, NEW error, Raise(r, keys, error) PROVE Rows'
      BY <1>0, <3>2, <3>3, RowsBack DEF Raise, Idle, RowTypes
    <3> QED
      BY <3>1, <3>2, <3>3
  <2>4. CASE CommitUpload(r)
    BY <2>4, <1>0, RowsUploaded DEF CommitUpload, Idle, RowTypes
  <2> QED
    BY <1>1, <2>1, <2>2, <2>3, <2>4 DEF Upload
<1>2. ASSUME NEW r \in Requests, Resolve(r) PROVE Rows'
  <2>1. ASSUME NEW mode \in {"CREATE_NEW", "LINK_EXISTING"}, NEW fs \in SUBSET TempIds,
               BeginResolve(r, mode, fs)
        PROVE  Rows'
    BY <2>1, <1>0, RowsBegun
  <2>2. ASSUME NEW f \in TempIds, Reuse(r, f) PROVE Rows'
    BY <2>2, <1>0, RowsReused
  <2>3. ASSUME NEW f \in TempIds, NEW d \in DocIds, Promote(r, f, d) PROVE Rows'
    BY <2>3, <1>0, RowsPromoted
  <2>4. ASSUME NEW f \in TempIds, NEW d \in DocIds, NEW stored \in SUBSET {d},
               NEW known \in SUBSET {d},
               PromoteFails(r, f, d, stored, known)
        PROVE  Rows'
    <3>1. Created \cup known \subseteq used' /\ used \subseteq used'
      BY <2>4 DEF PromoteFails, Rows, Allocated
    <3> QED
      BY <2>4, <1>0, <3>1, RowsBack DEF PromoteFails, Raise, Idle, RowTypes
  <2>5. CASE CommitResolve(r)
    <3>1. tx.done \subseteq used
      BY <2>5 DEF CommitResolve, ResolveCommitted, Rows, Workspace, Allocated
    <3>2. \A q \in Requests : requests'[q].keys \subseteq used
      BY <2>5, <1>0, <3>1 DEF CommitResolve, Idle, RowTypes
    <3> QED
      BY <2>5, <1>0, <3>2, RowsResolved DEF CommitResolve
  <2> QED
    BY <1>2, <2>1, <2>2, <2>3, <2>4, <2>5 DEF Resolve
<1>3. ASSUME NEW r \in Requests, FinishCall(r) PROVE Rows'
  <2>1. CASE CommitFails(r)
    <3>1. Created \subseteq used /\ used' = used
      BY <2>1 DEF CommitFails, Rows, Allocated
    <3> QED
      BY <2>1, <1>0, <3>1, RowsBack DEF CommitFails, Raise, Idle, RowTypes
  <2>2. CASE LoseCommitReply(r)
    <3>1. \A q \in Requests : requests'[q].keys \subseteq used
      BY <2>2, <1>0 DEF LoseCommitReply, Idle, RowTypes, Rows, Allocated
    <3> QED
      BY <2>2, <1>0, <3>1, RowsUploaded, RowsResolved DEF LoseCommitReply
  <2>3. ASSUME NEW k \in Keys, NEW deleted \in SUBSET Keys,
               Cleanup(r, k, deleted)
        PROVE  Rows'
    BY <2>3, <1>0, RowsOut DEF Cleanup, Idle, RowTypes, Request
  <2>4. CASE CleanedUp(r)
    BY <2>4, <1>0, RowsOut DEF CleanedUp, Idle, RowTypes, Request
  <2>5. ASSUME NEW sent \in SUBSET DocIds, Publish(r, sent) PROVE Rows'
    BY <2>5, <1>0, RowsOut DEF Publish, Idle, RowTypes, Request
  <2> QED
    BY <1>3, <2>1, <2>2, <2>3, <2>4, <2>5 DEF FinishCall
<1>4. ASSUME NEW r \in Requests, Change(r) PROVE Rows'
  <2>1. ASSUME NEW f \in TempIds, NEW type \in Types,
               PatchFile(r, f, type)
        PROVE  Rows'
    BY <2>1, <1>0, RowsFewer
    DEF PatchFile, CanCall, RowTypes, TempRows, Idle, NoRows, Files
  <2>2. ASSUME NEW f \in TempIds, DeleteFile(r, f) PROVE Rows'
    <3>1. \A q \in Requests : requests'[q].keys \subseteq used
      BY <2>2, <1>0 DEF DeleteFile, Idle, RowTypes, Rows, Allocated, Files
    <3>2. tx = NoTx /\ UNCHANGED <<tx, documents, used>>
      BY <2>2, <1>0 DEF DeleteFile, CanCall
    <3>3. \A g \in TempIds : temp'[g] # None => temp[g] # None
      BY <2>2, <1>0 DEF DeleteFile, RowTypes, TempRows
    <3> QED
      BY <1>0, <3>1, <3>2, <3>3, RowsFewer
  <2>3. CASE Cancel(r)
    <3>1. \A q \in Requests : requests'[q].keys \subseteq used
      BY <2>3, <1>0 DEF Cancel, Idle, RowTypes, Rows, Allocated
    <3>2. tx = NoTx /\ UNCHANGED <<tx, documents, used>>
      BY <2>3, <1>0 DEF Cancel, CanCall
    <3>3. \A g \in TempIds : temp'[g] # None => temp[g] # None
      BY <2>3 DEF Cancel, NoRows
    <3> QED
      BY <1>0, <3>1, <3>2, <3>3, RowsFewer
  <2> QED
    BY <1>4, <2>1, <2>2, <2>3 DEF Change
<1>5. ASSUME NEW r \in Requests, Identify(r) PROVE Rows'
  <2>1. CASE StartIdentify(r)
    <3>1. CASE requests' = [requests EXCEPT ![r] =
                 [Idle EXCEPT !.at = "enqueue", !.prev = session.status]]
      <4>1. \A q \in Requests : requests'[q].keys \subseteq used
        BY <1>0, <3>1 DEF Idle, RowTypes
      <4> QED
        BY <2>1, <1>0, <4>1, RowsOut DEF StartIdentify
    <3>2. CASE UNCHANGED requests
      BY <2>1, <1>0, <3>2, RowsOut DEF StartIdentify
    <3> QED
      BY <2>1, <3>1, <3>2 DEF StartIdentify
  <2>2. CASE Enqueue(r)
    BY <2>2, <1>0, RowsOut DEF Enqueue, Idle, RowTypes, Request
  <2>3. CASE EnqueueFails(r)
    <3>1. requests' = [requests EXCEPT ![r].at = "restore"]
      BY <2>3 DEF EnqueueFails
    <3>2. \A q \in Requests : requests'[q].keys \subseteq used
      BY <1>0, <3>1 DEF RowTypes, Request
    <3> QED
      BY <2>3, <1>0, <3>2, RowsOut DEF EnqueueFails
  <2>4. CASE Restore(r)
    BY <2>4, <1>0, RowsOut DEF Restore, Idle, RowTypes, Request
  <2> QED
    BY <1>5, <2>1, <2>2, <2>3, <2>4 DEF Identify
<1>6. ASSUME NEW r \in Requests, CrashRequest(r) PROVE Rows'
  <2>1. \A q \in Requests : requests'[q].keys \subseteq used
    BY <1>6, <1>0 DEF CrashRequest, Idle, RowTypes
  <2> QED
    BY <1>6, <2>1, RowsOut, RowsBack DEF CrashRequest
<1>7. ASSUME NEW w \in Workers, Work(w) PROVE Rows'
  <2>1. CASE Claim(w)
    BY <2>1, <1>0, RowsOut DEF Claim
  <2>2. CASE Persist(w)
    BY <2>2, <1>0, RowsOut DEF Persist
  <2>3. CASE FailRestore(w)
    BY <2>3, <1>0, RowsOut DEF FailRestore
  <2>4. CASE CrashWorker(w)
    BY <2>4, <1>0, RowsOut DEF CrashWorker
  <2> QED
    BY <1>7, <2>1, <2>2, <2>3, <2>4 DEF Work
<1>8. CASE LoseMessage
  BY <1>8, <1>0, RowsOut DEF LoseMessage
<1>9. CASE UNCHANGED vars
  BY <1>9, <1>0, RowsOut DEF vars, Rows, Allocated
<1> QED
  BY <1>1, <1>2, <1>3, <1>4, <1>5, <1>6, <1>7, <1>8, <1>9 DEF Next

-----------------------------------------------------------------------------
(* Objects *)

(* The rows named are fewer, and the new keys on lists are of none of them. *)
LEMMA BackedFewer ==
  ASSUME Backed, incidents \subseteq incidents', objects \subseteq objects',
         Kept' \subseteq Kept, Kept' \cup tx'.items \subseteq Kept \cup tx.items,
         NEW keys, keys \cap (Kept' \cup tx'.items) = {},
         \A q \in Requests : requests'[q].keys \subseteq requests[q].keys \cup keys
  PROVE  Backed'
  BY DEF Backed

(* A transaction begins with no rows of its own. *)
LEMMA KeptAtBegin ==
  ASSUME tx = NoTx, tx'.rows = NoRows, tx'.docs = NoDocs, UNCHANGED <<temp, documents>>
  PROVE  Kept' = Kept
  BY DEF Kept, Created, NoTx, Files, Docs

(* A transaction that is rolled back names nothing, and its objects are of no *)
(* committed row.                                                             *)
LEMMA RolledBack ==
  ASSUME RowTypes, Rows, tx' = NoTx, UNCHANGED <<temp, documents>>
  PROVE  /\ Kept' = Files(temp) \cup Docs(documents) /\ tx'.items = {}
         /\ Kept' \subseteq Kept
         /\ Created \cap Kept' = {}
<1>1. Kept' = Files(temp) \cup Docs(documents) /\ tx'.items = {}
  BY DEF Kept, Created, NoTx, NoRows, NoDocs, Files, Docs
<1>2. Files(tx.rows) \cap Files(temp) = {}
  BY DEF Rows, Workspace, Files, NoRows
<1>3. Docs(tx.docs) \cap Docs(documents) = {}
  BY DEF Rows, Workspace, Docs
<1>4. Files(temp) \cup Files(tx.rows) \subseteq TempIds /\ Docs(documents) \cup Docs(tx.docs) \subseteq DocIds
  BY DEF Files, Docs
<1> QED
  BY <1>1, <1>2, <1>3, <1>4 DEF RowTypes, Created, Kept

(* A rollback whose compensation deletes only what it created. *)
LEMMA BackedBack ==
  ASSUME RowTypes, Rows, Backed, tx' = NoTx, UNCHANGED <<temp, documents, incidents>>,
         objects \subseteq objects', NEW known, known \cap (Files(temp) \cup Docs(documents)) = {},
         \A q \in Requests : requests'[q].keys \subseteq requests[q].keys \cup (Created \cup known)
  PROVE  Backed'
  BY RolledBack, BackedFewer

(* With no transaction open, rows are changed or deleted, and nothing else is *)
(* put on a list than the objects of rows that go.                            *)
LEMMA BackedLess ==
  ASSUME Backed, tx = NoTx, UNCHANGED <<tx, documents, incidents, objects>>,
         \A f \in TempIds : temp'[f] # None => temp[f] # None,
         NEW keys, keys \cap Files(temp') = {}, keys \cap DocIds = {},
         \A q \in Requests : requests'[q].keys \subseteq requests[q].keys \cup keys
  PROVE  Backed'
<1>1. Kept = Files(temp) \cup Docs(documents) /\ tx'.items = {}
  BY DEF Kept, Created, NoTx, NoRows, NoDocs, Files, Docs
<1>2. Kept' = Files(temp') \cup Docs(documents)
  BY DEF Kept, Created, NoTx, NoRows, NoDocs, Files, Docs
<1>3. Files(temp') \subseteq Files(temp) /\ Docs(documents) \subseteq DocIds
  BY DEF Files, Docs
<1> QED
  BY <1>1, <1>2, <1>3, BackedFewer

(* A call takes a step outside its transaction. *)
LEMMA BackedOut ==
  ASSUME Backed, UNCHANGED <<tx, temp, documents, objects>>, incidents \subseteq incidents',
         \A q \in Requests : requests'[q].keys \subseteq requests[q].keys
  PROVE  Backed'
  BY DEF Backed, Kept, Created, Files, Docs

(* No step takes the object of a row away. *)
LEMMA BackedStep ==
  ASSUME TypeOK, Holder, Rows, Backed, [Next]_vars
  PROVE  Backed'
<1>0. /\ RowTypes /\ Rows
      /\ tx.owner = None => tx = NoTx
      /\ \A q \in Requests : requests[q].keys \subseteq used
  BY UploadAssumption
  DEF UploadAssumption, RowTypes, TypeOK, Holder, Rows, Allocated
<1>1. ASSUME NEW r \in Requests, Upload(r) PROVE Backed'
  <2>1. ASSUME NEW fs \in SUBSET TempIds, BeginUpload(r, fs) PROVE Backed'
    <3>1. Kept' = Kept /\ tx'.items = fs
      BY <2>1, <1>0, KeptAtBegin DEF BeginUpload, CanCall, NoTx
    <3>2. \A q \in Requests : requests'[q].keys \subseteq requests[q].keys
      BY <2>1, <1>0 DEF BeginUpload, Idle, RowTypes
    <3>3. fs \cap used = {} /\ UNCHANGED <<objects, incidents>>
      BY <2>1 DEF BeginUpload
    <3> QED
      BY <1>0, <3>1, <3>2, <3>3 DEF Backed
  <2>2. ASSUME NEW f \in TempIds, NEW row \in TempRow, Ingest(r, f, row) PROVE Backed'
    <3>1. /\ f \in tx.items /\ tx'.items = tx.items \ {f} /\ tx'.docs = tx.docs
          /\ tx'.rows = [tx.rows EXCEPT ![f] = row] /\ objects' = objects \cup {f}
          /\ UNCHANGED <<temp, documents, requests, incidents>>
      BY <2>2, <1>0 DEF Ingest, RowTypes, Transaction
    <3>2. Files(tx'.rows) \subseteq Files(tx.rows) \cup {f}
      BY <1>0, <3>1 DEF Files, RowTypes, Transaction, TempRows
    <3>3. Kept' \subseteq Kept \cup {f}
      BY <3>1, <3>2 DEF Kept, Created, Docs, Files
    <3> QED
      BY <3>1, <3>3 DEF Backed
  <2>3. ASSUME NEW f \in TempIds, NEW content \in Contents,
               NEW stored \in SUBSET {f}, NEW known \in SUBSET {f},
               IngestFails(r, f, content, stored, known)
        PROVE  Backed'
    <3>1. Raise(r, Created, "MultipleResultsFound") \/ Raise(r, Created \cup known, "none")
      BY <2>3 DEF IngestFails
    <3>2. /\ known \cap (Files(temp) \cup Docs(documents)) = {} /\ objects \subseteq objects'
          /\ UNCHANGED incidents
      BY <2>3, <1>0 DEF IngestFails, Rows, Workspace, Files, Docs, RowTypes
    <3>3. tx' = NoTx /\ UNCHANGED <<temp, documents>>
      BY <3>1 DEF Raise
    <3>4. \A q \in Requests :
            requests'[q].keys \subseteq requests[q].keys \cup (Created \cup known)
      BY <1>0, <3>1 DEF Raise, Idle, RowTypes
    <3> QED
      BY <1>0, <3>2, <3>3, <3>4, BackedBack
  <2>4. CASE CommitUpload(r)
    <3>1. Kept' \subseteq Kept /\ tx'.items = {}
      BY <2>4 DEF CommitUpload, UploadCommitted, Kept, Created, Visible, NoTx, NoRows, NoDocs,
               Files, Docs
    <3>2. \A q \in Requests : requests'[q].keys \subseteq requests[q].keys
      BY <2>4, <1>0 DEF CommitUpload, Idle, RowTypes
    <3>3. UNCHANGED <<objects, incidents>>
      BY <2>4 DEF CommitUpload, UploadCommitted
    <3> QED
      BY <3>1, <3>2, <3>3 DEF Backed
  <2> QED
    BY <1>1, <2>1, <2>2, <2>3, <2>4 DEF Upload
<1>2. ASSUME NEW r \in Requests, Resolve(r) PROVE Backed'
  <2>1. ASSUME NEW mode \in {"CREATE_NEW", "LINK_EXISTING"}, NEW fs \in SUBSET TempIds,
               BeginResolve(r, mode, fs)
        PROVE  Backed'
    <3>1. Kept' = Kept /\ tx'.items = fs
      BY <2>1, <1>0, KeptAtBegin DEF BeginResolve, CanCall, NoTx
    <3>2. \A q \in Requests : requests'[q].keys \subseteq requests[q].keys
      BY <2>1, <1>0 DEF BeginResolve, Idle, RowTypes
    <3>3. fs \subseteq Kept /\ UNCHANGED <<objects, incidents>>
      BY <2>1 DEF BeginResolve, Kept
    <3> QED
      BY <3>1, <3>2, <3>3 DEF Backed
  <2>2. ASSUME NEW f \in TempIds, Reuse(r, f) PROVE Backed'
    <3>1. /\ tx'.items \subseteq tx.items /\ tx'.docs = tx.docs /\ tx'.rows = tx.rows
          /\ UNCHANGED <<temp, documents, requests, incidents, objects>>
      BY <2>2, <1>0 DEF Reuse, RowTypes, Transaction
    <3>2. Kept' = Kept
      BY <3>1 DEF Kept, Created, Files, Docs
    <3> QED
      BY <3>1, <3>2 DEF Backed
  <2>3. ASSUME NEW f \in TempIds, NEW d \in DocIds, Promote(r, f, d) PROVE Backed'
    <3>1. /\ tx'.items \subseteq tx.items /\ tx'.rows = tx.rows
          /\ tx'.docs = [tx.docs EXCEPT ![d] = f] /\ objects' = objects \cup {d}
          /\ d \notin used /\ UNCHANGED <<temp, documents, requests, incidents>>
      BY <2>3, <1>0 DEF Promote, RowTypes, Transaction
    <3>2. Docs(tx'.docs) \subseteq Docs(tx.docs) \cup {d}
      BY <1>0, <3>1 DEF Docs, RowTypes, Transaction, DocRows
    <3>3. Kept' \subseteq Kept \cup {d}
      BY <3>1, <3>2 DEF Kept, Created, Docs, Files
    <3> QED
      BY <1>0, <3>1, <3>3 DEF Backed
  <2>4. ASSUME NEW f \in TempIds, NEW d \in DocIds, NEW stored \in SUBSET {d},
               NEW known \in SUBSET {d},
               PromoteFails(r, f, d, stored, known)
        PROVE  Backed'
    <3>1. /\ known \cap (Files(temp) \cup Docs(documents)) = {} /\ objects \subseteq objects'
          /\ UNCHANGED incidents
      BY <2>4, <1>0 DEF PromoteFails, Rows, Allocated, Files, Docs, RowTypes
    <3>2. tx' = NoTx /\ UNCHANGED <<temp, documents>>
      BY <2>4 DEF PromoteFails, Raise
    <3>3. \A q \in Requests :
            requests'[q].keys \subseteq requests[q].keys \cup (Created \cup known)
      BY <2>4, <1>0 DEF PromoteFails, Raise, Idle, RowTypes
    <3> QED
      BY <1>0, <3>1, <3>2, <3>3, BackedBack
  <2>5. CASE CommitResolve(r)
    <3>1. \A f \in TempIds : temp'[f] = IF f \in tx.done THEN None ELSE temp[f]
      BY <2>5 DEF CommitResolve, ResolveCommitted, Visible, Rows, Workspace, NoRows
    <3>2. Docs(documents') = Docs(documents) \cup Docs(tx.docs)
      BY <2>5 DEF CommitResolve, ResolveCommitted, VisibleDocuments, Docs
    <3>3. Kept' = Files(temp') \cup Docs(documents') /\ tx'.items = {}
      BY <2>5 DEF CommitResolve, ResolveCommitted, Kept, Created, NoTx, NoRows, NoDocs,
               Files, Docs
    <3>4. Files(temp') \subseteq Files(temp) /\ tx.done \cap Files(temp') = {}
      BY <3>1 DEF Files
    <3>5. Kept' \subseteq Kept
      BY <3>2, <3>3, <3>4 DEF Kept, Created
    <3>6. tx.done \cap (Kept' \cup tx'.items) = {}
      BY <1>0, <3>3, <3>4 DEF RowTypes, Transaction, Docs
    <3>7. \A q \in Requests : requests'[q].keys \subseteq requests[q].keys \cup tx.done
      BY <2>5, <1>0 DEF CommitResolve, Idle, RowTypes
    <3>8. UNCHANGED <<objects, incidents>>
      BY <2>5 DEF CommitResolve, ResolveCommitted
    <3> QED
      BY <3>3, <3>5, <3>6, <3>7, <3>8, BackedFewer
  <2> QED
    BY <1>2, <2>1, <2>2, <2>3, <2>4, <2>5 DEF Resolve
<1>3. ASSUME NEW r \in Requests, FinishCall(r) PROVE Backed'
  <2>1. CASE CommitFails(r)
    <3>1. tx' = NoTx /\ UNCHANGED <<temp, documents, incidents, objects>>
      BY <2>1 DEF CommitFails, Raise
    <3>2. \A q \in Requests : requests'[q].keys \subseteq requests[q].keys \cup Created
      BY <2>1, <1>0 DEF CommitFails, Raise, Idle, RowTypes
    <3> QED
      BY <1>0, <3>1, <3>2, RolledBack, BackedFewer
  <2>2. CASE LoseCommitReply(r)
    BY <2>2 DEF LoseCommitReply, Happened, Backed
  <2>3. ASSUME NEW k \in Keys, NEW deleted \in SUBSET Keys,
               Cleanup(r, k, deleted)
        PROVE  Backed'
    <3>1. /\ k \in requests[r].keys /\ deleted \subseteq {k} /\ objects' = objects \ deleted
          /\ UNCHANGED <<temp, documents, tx, incidents>>
          /\ requests' = [requests EXCEPT ![r].keys = requests[r].keys \ {k}]
      BY <2>3 DEF Cleanup
    <3>2. \A q \in Requests : requests'[q].keys \subseteq requests[q].keys
      BY <1>0, <3>1 DEF RowTypes, Request
    <3>3. Kept' = Kept
      BY <3>1 DEF Kept, Created, Files, Docs
    <3> QED
      BY <3>1, <3>2, <3>3 DEF Backed
  <2>4. CASE CleanedUp(r)
    BY <2>4, <1>0, BackedOut DEF CleanedUp, Idle, RowTypes, Request
  <2>5. ASSUME NEW sent \in SUBSET DocIds, Publish(r, sent) PROVE Backed'
    BY <2>5, <1>0, BackedOut DEF Publish, Idle, RowTypes, Request
  <2> QED
    BY <1>3, <2>1, <2>2, <2>3, <2>4, <2>5 DEF FinishCall
<1>4. ASSUME NEW r \in Requests, Change(r) PROVE Backed'
  <2>1. ASSUME NEW f \in TempIds, NEW type \in Types,
               PatchFile(r, f, type)
        PROVE  Backed'
    BY <2>1, <1>0, BackedLess DEF PatchFile, CanCall, RowTypes, TempRows
  <2>2. ASSUME NEW f \in TempIds, DeleteFile(r, f) PROVE Backed'
    <3>1. \A q \in Requests : requests'[q].keys \subseteq requests[q].keys \cup {f}
      BY <2>2, <1>0 DEF DeleteFile, Idle, RowTypes
    <3>2. \A g \in TempIds : temp'[g] # None => temp[g] # None
      BY <2>2, <1>0 DEF DeleteFile, RowTypes, TempRows
    <3>3. {f} \cap Files(temp') = {} /\ {f} \cap DocIds = {}
      BY <2>2, <1>0 DEF DeleteFile, RowTypes, TempRows, Files
    <3>4. tx = NoTx /\ UNCHANGED <<tx, documents, incidents, objects>>
      BY <2>2, <1>0 DEF DeleteFile, CanCall
    <3> QED
      BY <3>1, <3>2, <3>3, <3>4, BackedLess
  <2>3. CASE Cancel(r)
    <3>1. \A q \in Requests : requests'[q].keys \subseteq requests[q].keys \cup Files(temp)
      BY <2>3, <1>0 DEF Cancel, Idle, RowTypes
    <3>2. \A g \in TempIds : temp'[g] = None
      BY <2>3 DEF Cancel, NoRows
    <3>3. Files(temp) \cap Files(temp') = {} /\ Files(temp) \cap DocIds = {}
      BY <1>0, <3>2 DEF RowTypes, Files
    <3>4. tx = NoTx /\ UNCHANGED <<tx, documents, incidents, objects>>
      BY <2>3, <1>0 DEF Cancel, CanCall
    <3> QED
      BY <3>1, <3>2, <3>3, <3>4, BackedLess
  <2> QED
    BY <1>4, <2>1, <2>2, <2>3 DEF Change
<1>5. ASSUME NEW r \in Requests, Identify(r) PROVE Backed'
  <2>1. CASE StartIdentify(r)
    <3>1. UNCHANGED <<tx, temp, documents, objects>> /\ incidents \subseteq incidents'
      BY <2>1 DEF StartIdentify, Happened
    <3>2. \A q \in Requests : requests'[q].keys \subseteq requests[q].keys
      <4>1. CASE requests' = [requests EXCEPT ![r] =
                   [Idle EXCEPT !.at = "enqueue", !.prev = session.status]]
        BY <1>0, <4>1 DEF Idle, RowTypes
      <4> QED
        BY <2>1, <4>1 DEF StartIdentify
    <3> QED
      BY <3>1, <3>2, BackedOut
  <2>2. CASE Enqueue(r)
    BY <2>2, <1>0, BackedOut DEF Enqueue, Idle, RowTypes, Request
  <2>3. CASE EnqueueFails(r)
    <3>1. UNCHANGED <<tx, temp, documents, objects>> /\ incidents \subseteq incidents'
      BY <2>3 DEF EnqueueFails, Happened
    <3>2. requests' = [requests EXCEPT ![r].at = "restore"]
      BY <2>3 DEF EnqueueFails
    <3>3. \A q \in Requests : requests'[q].keys \subseteq requests[q].keys
      BY <1>0, <3>2 DEF RowTypes, Request
    <3> QED
      BY <3>1, <3>3, BackedOut
  <2>4. CASE Restore(r)
    BY <2>4, <1>0, BackedOut DEF Restore, Idle, RowTypes, Request
  <2> QED
    BY <1>5, <2>1, <2>2, <2>3, <2>4 DEF Identify
<1>6. ASSUME NEW r \in Requests, CrashRequest(r) PROVE Backed'
  <2>1. \A q \in Requests : requests'[q].keys \subseteq requests[q].keys
    BY <1>6, <1>0 DEF CrashRequest, Idle, RowTypes
  <2>2. UNCHANGED <<temp, documents, objects>> /\ incidents \subseteq incidents'
    BY <1>6 DEF CrashRequest, Happened
  <2>3. CASE UNCHANGED tx
    BY <2>1, <2>2, <2>3, BackedOut
  <2>4. CASE tx' = NoTx
    BY <1>0, <2>1, <2>2, <2>4, RolledBack DEF Backed
  <2> QED
    BY <1>6, <2>3, <2>4 DEF CrashRequest
<1>7. ASSUME NEW w \in Workers, Work(w) PROVE Backed'
  <2>1. CASE Claim(w)
    BY <2>1, <1>0, BackedOut DEF Claim
  <2>2. CASE Persist(w)
    BY <2>2, <1>0, BackedOut DEF Persist, Happened, Idle, RowTypes
  <2>3. CASE FailRestore(w)
    BY <2>3, <1>0, BackedOut DEF FailRestore
  <2>4. CASE CrashWorker(w)
    BY <2>4, <1>0, BackedOut DEF CrashWorker, Happened, Idle, RowTypes
  <2> QED
    BY <1>7, <2>1, <2>2, <2>3, <2>4 DEF Work
<1>8. CASE LoseMessage
  BY <1>8, <1>0, BackedOut DEF LoseMessage, Happened, Idle, RowTypes
<1>9. CASE UNCHANGED vars
  BY <1>9, <1>0, BackedOut DEF vars
<1> QED
  BY <1>1, <1>2, <1>3, <1>4, <1>5, <1>6, <1>7, <1>8, <1>9 DEF Next

-----------------------------------------------------------------------------
(* Identification *)

CarrierTypes ==
  /\ requests \in [Requests -> Request]
  /\ workers \in [Workers -> Worker]
  /\ messages \in Nat
  /\ None \notin TempRows /\ temp \in TempRows
  /\ session \in [status : Open \cup Terminal \cup {"IDENTIFYING"}, identity : Identity]

(* Carriers go, or take a step that has nothing to do with what they carry. *)
LEMMA FewerCarriers ==
  ASSUME CarrierTypes, Identified, UNCHANGED <<session, temp>>, incidents \subseteq incidents',
         messages' \in Nat, messages' <= messages,
         \A r \in Requests : Carrying(r)' => Carrying(r) /\ requests'[r].prev = requests[r].prev,
         \A w \in Workers : Busy(w)' => Busy(w) /\ workers'[w] = workers[w]
  PROVE  Identified'
<1> SUFFICES ASSUME Clean' PROVE Identified'
  BY DEF Identified
<1>1. Clean
  BY DEF Clean
<1>2. NoCarrier => NoCarrier'
  BY DEF NoCarrier, CarrierTypes
<1>3. OneCarrier => OneCarrier'
  BY DEF OneCarrier, CarrierTypes
<1> QED
  BY <1>1, <1>2, <1>3 DEF Identified

(* Nothing that carries changes, or a message is lost. *)
LEMMA SameCarriers ==
  ASSUME CarrierTypes, Identified, UNCHANGED <<session, temp, requests, workers>>,
         incidents \subseteq incidents',
         messages' \in Nat, messages' <= messages
  PROVE  Identified'
<1>1. \A r \in Requests : Carrying(r)' => Carrying(r) /\ requests'[r].prev = requests[r].prev
  BY DEF Carrying
<1>2. \A w \in Workers : Busy(w)' => Busy(w) /\ workers'[w] = workers[w]
  BY DEF Busy
<1> QED
  BY <1>1, <1>2, FewerCarriers

(* A call that carries nothing takes a step. *)
LEMMA QuietCall ==
  ASSUME CarrierTypes, Identified, NEW r \in Requests, OnlyCall(r),
         UNCHANGED <<session, temp, messages, workers, incidents>>, ~Carrying(r)'
  PROVE  Identified'
<1>1. \A q \in Requests : Carrying(q)' => Carrying(q) /\ requests'[q].prev = requests[q].prev
  BY DEF OnlyCall, Carrying
<1>2. \A w \in Workers : Busy(w)' => Busy(w) /\ workers'[w] = workers[w]
  BY DEF Busy
<1>3. messages' \in Nat /\ messages' <= messages /\ incidents \subseteq incidents'
  BY DEF CarrierTypes
<1> QED
  BY <1>1, <1>2, <1>3, FewerCarriers

(* The files of an open session change, and its identity goes. *)
LEMMA FilesChange ==
  ASSUME CarrierTypes, Identified, NEW r \in Requests, OnlyCall(r), session.status \in Open,
         session' = Invalidated, UNCHANGED <<messages, workers, incidents>>, ~Carrying(r)'
  PROVE  Identified'
<1> SUFFICES ASSUME Clean' PROVE Identified'
  BY DEF Identified
<1>1. Clean /\ NoCarrier
  BY DEF Clean, Identified
<1>2. NoCarrier'
  BY <1>1 DEF NoCarrier, OnlyCall, Carrying, Busy
<1>3. session'.status = "UPLOADING" /\ session'.identity = None
  BY <1>1 DEF Identified, Invalidated, Open
<1> QED
  BY <1>2, <1>3 DEF Identified

(* The session is closed. *)
LEMMA SessionCloses ==
  ASSUME session'.status \in Terminal
  PROVE  Identified'
  BY DEF Identified, Terminal, Open

(* A message or a reply of a commit is in doubt. *)
LEMMA InDoubt ==
  ASSUME NEW kind \in {"publish", "lost reply"}, Happened(kind)
  PROVE  Identified'
  BY DEF Identified, Clean, Happened

(* When the worker that carries the identification ends, nobody carries one. *)
LEMMA LastWorker ==
  ASSUME CarrierTypes, Identified, Clean, session.status = "IDENTIFYING",
         NEW w \in Workers, Busy(w), UNCHANGED <<messages, requests>>,
         workers' = [workers EXCEPT ![w] = IdleWorker]
  PROVE  NoCarrier'
<1>1. /\ \A v \in Workers : Busy(v) => v = w
      /\ \A r \in Requests : ~Carrying(r)
      /\ messages = 0
  BY DEF Identified, OneCarrier, CarrierTypes
<1> QED
  BY <1>1 DEF NoCarrier, Carrying, Busy, IdleWorker, CarrierTypes

(* No step makes a clean identity one of other files. *)
LEMMA IdentifiedStep ==
  ASSUME TypeOK, Holder, Identified, [Next]_vars
  PROVE  Identified'
<1>0. Identified /\ Holder
  OBVIOUS
<1>t. CarrierTypes /\ None \notin Requests /\ messages' \in Nat
  <2>0. TypeOK'
    BY TypeStep
  <2>1. messages \in 0..MaxMessages /\ messages' \in 0..MaxMessages
    BY <2>0 DEF TypeOK
  <2>2. messages \in Nat /\ messages' \in Nat
    BY <2>1, UploadAssumption DEF UploadAssumption
  <2> QED
    BY <2>2, UploadAssumption DEF UploadAssumption, CarrierTypes, TypeOK
<1>m. UNCHANGED messages => messages' <= messages
  <2> SUFFICES ASSUME UNCHANGED messages PROVE messages' <= messages
    OBVIOUS
  <2>1. messages' = messages /\ messages \in Nat
    BY <1>t DEF CarrierTypes
  <2> QED
    BY <2>1
<1>s. UNCHANGED <<session, temp, requests, workers, messages, incidents>> => Identified'
  <2> SUFFICES ASSUME UNCHANGED <<session, temp, requests, workers, messages, incidents>>
               PROVE  Identified'
    OBVIOUS
  <2>1. incidents \subseteq incidents' /\ messages' <= messages
    BY <1>m
  <2> QED
    BY <1>0, <1>t, <2>1, SameCarriers
<1>1. ASSUME NEW r \in Requests, Upload(r) PROVE Identified'
  <2>1. ASSUME NEW fs \in SUBSET TempIds, BeginUpload(r, fs) PROVE Identified'
    <3>1. OnlyCall(r) /\ ~Carrying(r)'
      BY <2>1, <1>t DEF BeginUpload, OnlyCall, Carrying, CarrierTypes, Idle
    <3> QED
      BY <2>1, <1>0, <1>t, <3>1, QuietCall DEF BeginUpload
  <2>2. ASSUME NEW f \in TempIds, NEW row \in TempRow,
               Ingest(r, f, row)
        PROVE  Identified'
    <3>1. UNCHANGED <<session, temp, requests, workers, messages, incidents>>
      BY <2>2 DEF Ingest
    <3> QED
      BY <1>s, <3>1
  <2>3. ASSUME NEW f \in TempIds, NEW content \in Contents,
               NEW stored \in SUBSET {f}, NEW known \in SUBSET {f},
               IngestFails(r, f, content, stored, known)
        PROVE  Identified'
    <3>1. /\ OnlyCall(r) /\ ~Carrying(r)'
          /\ UNCHANGED <<session, temp>>
      <4>1. ASSUME NEW keys, NEW error, Raise(r, keys, error)
            PROVE  OnlyCall(r) /\ ~Carrying(r)' /\ UNCHANGED <<session, temp>>
        BY <1>t, <4>1 DEF Raise, OnlyCall, Carrying, CarrierTypes, Idle
      <4> QED
        BY <2>3, <4>1 DEF IngestFails
    <3> QED
      BY <2>3, <1>0, <1>t, <3>1, QuietCall DEF IngestFails
  <2>4. CASE CommitUpload(r)
    <3>1. session.status \in Open
      BY <2>4, <1>0, <1>t DEF CommitUpload, Holder
    <3>2. OnlyCall(r) /\ ~Carrying(r)'
      BY <2>4, <1>t DEF CommitUpload, OnlyCall, Carrying, CarrierTypes, Idle
    <3> QED
      BY <2>4, <1>0, <1>t, <3>1, <3>2, FilesChange DEF CommitUpload, UploadCommitted
  <2> QED
    BY <1>1, <2>1, <2>2, <2>3, <2>4 DEF Upload
<1>2. ASSUME NEW r \in Requests, Resolve(r) PROVE Identified'
  <2>1. ASSUME NEW mode \in {"CREATE_NEW", "LINK_EXISTING"}, NEW fs \in SUBSET TempIds,
               BeginResolve(r, mode, fs)
        PROVE  Identified'
    <3>1. OnlyCall(r) /\ ~Carrying(r)'
      BY <2>1, <1>t DEF BeginResolve, OnlyCall, Carrying, CarrierTypes, Idle
    <3> QED
      BY <2>1, <1>0, <1>t, <3>1, QuietCall DEF BeginResolve
  <2>2. ASSUME NEW f \in TempIds, Reuse(r, f) PROVE Identified'
    <3>1. UNCHANGED <<session, temp, requests, workers, messages, incidents>>
      BY <2>2 DEF Reuse
    <3> QED
      BY <1>s, <3>1
  <2>3. ASSUME NEW f \in TempIds, NEW d \in DocIds, Promote(r, f, d) PROVE Identified'
    <3>1. UNCHANGED <<session, temp, requests, workers, messages, incidents>>
      BY <2>3 DEF Promote
    <3> QED
      BY <1>s, <3>1
  <2>4. ASSUME NEW f \in TempIds, NEW d \in DocIds, NEW stored \in SUBSET {d},
               NEW known \in SUBSET {d},
               PromoteFails(r, f, d, stored, known)
        PROVE  Identified'
    <3>1. OnlyCall(r) /\ ~Carrying(r)'
      BY <2>4, <1>t DEF PromoteFails, Raise, OnlyCall, Carrying, CarrierTypes, Idle
    <3> QED
      BY <2>4, <1>0, <1>t, <3>1, QuietCall DEF PromoteFails, Raise
  <2>5. CASE CommitResolve(r)
    BY <2>5, <1>t, SessionCloses DEF CommitResolve, ResolveCommitted, Terminal, CarrierTypes
  <2> QED
    BY <1>2, <2>1, <2>2, <2>3, <2>4, <2>5 DEF Resolve
<1>3. ASSUME NEW r \in Requests, FinishCall(r) PROVE Identified'
  <2>1. CASE CommitFails(r)
    <3>1. OnlyCall(r) /\ ~Carrying(r)'
      BY <2>1, <1>t DEF CommitFails, Raise, OnlyCall, Carrying, CarrierTypes, Idle
    <3> QED
      BY <2>1, <1>0, <1>t, <3>1, QuietCall DEF CommitFails, Raise
  <2>2. CASE LoseCommitReply(r)
    BY <2>2, InDoubt DEF LoseCommitReply
  <2>3. ASSUME NEW k \in Keys, NEW deleted \in SUBSET Keys,
               Cleanup(r, k, deleted)
        PROVE  Identified'
    <3>1. ~Carrying(r)'
      BY <2>3, <1>t DEF Cleanup, Carrying, CarrierTypes, Request
    <3> QED
      BY <2>3, <1>0, <1>t, <3>1, QuietCall DEF Cleanup, OnlyCall, CarrierTypes
  <2>4. CASE CleanedUp(r)
    <3>1. ~Carrying(r)'
      BY <2>4, <1>t DEF CleanedUp, Carrying, CarrierTypes, Request, Idle
    <3> QED
      BY <2>4, <1>0, <1>t, <3>1, QuietCall DEF CleanedUp, OnlyCall, CarrierTypes
  <2>5. ASSUME NEW sent \in SUBSET DocIds, Publish(r, sent) PROVE Identified'
    <3>1. OnlyCall(r) /\ ~Carrying(r)'
      BY <2>5, <1>t DEF Publish, OnlyCall, Carrying, CarrierTypes, Idle
    <3> QED
      BY <2>5, <1>0, <1>t, <3>1, QuietCall DEF Publish
  <2> QED
    BY <1>3, <2>1, <2>2, <2>3, <2>4, <2>5 DEF FinishCall
<1>4. ASSUME NEW r \in Requests, Change(r) PROVE Identified'
  <2>1. ASSUME NEW f \in TempIds, NEW type \in Types,
               PatchFile(r, f, type)
        PROVE  Identified'
    <3>1. OnlyCall(r) /\ ~Carrying(r)'
      BY <2>1, <1>t DEF PatchFile, CanCall, OnlyCall, Carrying, CarrierTypes
    <3> QED
      BY <2>1, <1>0, <1>t, <3>1, FilesChange DEF PatchFile
  <2>2. ASSUME NEW f \in TempIds, DeleteFile(r, f) PROVE Identified'
    <3>1. OnlyCall(r) /\ ~Carrying(r)'
      BY <2>2, <1>t DEF DeleteFile, OnlyCall, Carrying, CarrierTypes, Idle
    <3> QED
      BY <2>2, <1>0, <1>t, <3>1, FilesChange DEF DeleteFile
  <2>3. CASE Cancel(r)
    BY <2>3, <1>t, SessionCloses DEF Cancel, Terminal, CarrierTypes
  <2> QED
    BY <1>4, <2>1, <2>2, <2>3 DEF Change
<1>5. ASSUME NEW r \in Requests, Identify(r) PROVE Identified'
  <2>1. CASE StartIdentify(r)
    <3>1. CASE Happened("lost reply")
      BY <3>1, InDoubt
    <3>2. CASE /\ requests' = [requests EXCEPT ![r] =
                      [Idle EXCEPT !.at = "enqueue", !.prev = session.status]]
               /\ UNCHANGED incidents
      <4> SUFFICES ASSUME Clean' PROVE Identified'
        BY DEF Identified
      <4>1. Clean /\ session.status \in Open
        BY <2>1, <3>2 DEF StartIdentify, Clean
      <4>2. NoCarrier
        BY <1>0, <4>1 DEF Identified
      <4>3. /\ session'.status = "IDENTIFYING" /\ session'.identity = session.identity
            /\ UNCHANGED <<temp, messages, workers>>
        BY <2>1, <1>t DEF StartIdentify, CarrierTypes
      <4>4. /\ \A q \in Requests : Carrying(q)' => q = r
            /\ requests'[r].prev = session.status
        BY <1>t, <3>2, <4>2 DEF NoCarrier, Carrying, Idle, CarrierTypes
      <4>5. OneCarrier'
        BY <1>t, <4>2, <4>3, <4>4 DEF OneCarrier, NoCarrier, Busy, CarrierTypes
      <4>6. /\ session.identity \in {None, temp}
            /\ session.status = IF session.identity = None THEN "UPLOADING" ELSE "IDENTIFIED"
        BY <1>0, <1>t, <4>1 DEF Identified, Open, CarrierTypes
      <4> QED
        BY <4>2, <4>3, <4>4, <4>5, <4>6 DEF Identified, NoCarrier, Busy, Open
    <3> QED
      BY <2>1, <3>1, <3>2 DEF StartIdentify
  <2>2. CASE Enqueue(r)
    <4> SUFFICES ASSUME Clean' PROVE Identified'
      BY DEF Identified
    <4>1. /\ Clean /\ Carrying(r) /\ messages' = messages + 1
          /\ UNCHANGED <<session, temp, workers>>
      BY <2>2 DEF Enqueue, Clean, Carrying
    <4>2. session.status \notin Open
      BY <1>0, <4>1 DEF Identified, NoCarrier
    <4>3. CASE session.status = "IDENTIFYING"
      <5>1. OneCarrier /\ messages = 0 /\ \A w \in Workers : ~Busy(w)
        BY <1>0, <4>1, <4>3 DEF Identified, OneCarrier
      <5>2. \A q \in Requests : ~Carrying(q)'
        BY <2>2, <1>t, <4>1, <5>1 DEF Enqueue, OneCarrier, Carrying, Idle, CarrierTypes
      <5>3. OneCarrier'
        BY <4>1, <5>1, <5>2 DEF OneCarrier, Busy
      <5> QED
        BY <1>0, <4>1, <4>3, <5>1, <5>2, <5>3 DEF Identified, Busy, Open
    <4> QED
      BY <1>t, <4>1, <4>2, <4>3 DEF Identified, Open
  <2>3. CASE EnqueueFails(r)
    <3>1. CASE Happened("publish")
      BY <3>1, InDoubt
    <3>2. CASE UNCHANGED <<messages, incidents>>
      <4>1. \A q \in Requests :
              Carrying(q)' => Carrying(q) /\ requests'[q].prev = requests[q].prev
        BY <2>3, <1>t DEF EnqueueFails, Carrying, CarrierTypes, Request
      <4> QED
        BY <2>3, <1>0, <1>t, <3>2, <4>1, FewerCarriers DEF EnqueueFails, CarrierTypes, Busy
    <3> QED
      BY <2>3, <3>1, <3>2 DEF EnqueueFails
  <2>4. CASE Restore(r)
    <3> SUFFICES ASSUME Clean' PROVE Identified'
      BY DEF Identified
    <3>1. Clean /\ Carrying(r) /\ UNCHANGED <<temp, messages, workers>>
      BY <2>4 DEF Restore, Clean, Carrying
    <3>2. session.status \notin Open
      BY <1>0, <3>1 DEF Identified, NoCarrier
    <3>3. CASE session.status = "IDENTIFYING"
      <4>1. /\ session'.status = requests[r].prev /\ session'.identity = session.identity
            /\ requests'[r] = Idle /\ OnlyCall(r)
        BY <2>4, <1>t, <3>3 DEF Restore, CarrierTypes, OnlyCall
      <4>2. /\ OneCarrier /\ session.identity \in {None, temp}
            /\ requests[r].prev = IF session.identity = None THEN "UPLOADING" ELSE "IDENTIFIED"
        BY <1>0, <3>1, <3>3 DEF Identified
      <4>3. NoCarrier'
        BY <1>t, <3>1, <4>1, <4>2
        DEF OneCarrier, NoCarrier, OnlyCall, Carrying, Busy, Idle, CarrierTypes
      <4> QED
        BY <3>1, <4>1, <4>2, <4>3 DEF Identified, Open
    <3>4. CASE session.status # "IDENTIFYING"
      BY <2>4, <1>t, <3>2, <3>4 DEF Restore, Identified, Open
    <3> QED
      BY <3>3, <3>4
  <2> QED
    BY <1>5, <2>1, <2>2, <2>3, <2>4 DEF Identify
<1>6. ASSUME NEW r \in Requests, CrashRequest(r) PROVE Identified'
  <2>1. \A q \in Requests : Carrying(q)' => Carrying(q) /\ requests'[q].prev = requests[q].prev
    BY <1>6, <1>t DEF CrashRequest, Carrying, CarrierTypes, Idle
  <2> QED
    BY <1>6, <1>0, <1>t, <2>1, FewerCarriers DEF CrashRequest, CarrierTypes, Happened, Busy
<1>7. ASSUME NEW w \in Workers, Work(w) PROVE Identified'
  <2>1. CASE Claim(w)
    <3> SUFFICES ASSUME Clean' PROVE Identified'
      BY DEF Identified
    <3>1. /\ Clean /\ messages > 0 /\ messages' = messages - 1 /\ ~Busy(w)
          /\ UNCHANGED <<session, temp, requests>>
      BY <2>1 DEF Claim, Clean, Busy
    <3>2. CASE session.status = "IDENTIFYING"
      <4>1. workers' = [workers EXCEPT ![w] = [at |-> "working", files |-> temp,
                                               prior |-> session.identity]]
        BY <2>1, <3>2 DEF Claim
      <4>2. OneCarrier /\ messages = 1 /\ \A v \in Workers : ~Busy(v)
        BY <1>0, <1>t, <3>1, <3>2 DEF Identified, OneCarrier, CarrierTypes
      <4>3. \A q \in Requests : ~Carrying(q) /\ ~Carrying(q)'
        BY <1>0, <3>1, <3>2, <4>2 DEF OneCarrier, Carrying
      <4>4. /\ \A v \in Workers : Busy(v)' => v = w
            /\ workers'[w].files = temp /\ workers'[w].prior = session.identity
        BY <1>t, <4>1, <4>2 DEF Busy, CarrierTypes
      <4>5. OneCarrier'
        BY <3>1, <4>2, <4>3, <4>4 DEF OneCarrier
      <4> QED
        BY <1>0, <3>1, <3>2, <4>3, <4>4, <4>5 DEF Identified, Open
    <3>3. CASE session.status # "IDENTIFYING"
      <4>1. UNCHANGED workers
        BY <2>1, <3>3 DEF Claim
      <4>2. ~NoCarrier
        BY <1>t, <3>1 DEF NoCarrier, CarrierTypes
      <4> QED
        BY <1>0, <3>1, <3>3, <4>1, <4>2 DEF Identified
    <3> QED
      BY <3>2, <3>3
  <2>2. CASE Persist(w)
    <3>1. CASE Happened("lost reply")
      BY <3>1, InDoubt
    <3>2. CASE workers' = [workers EXCEPT ![w] = IdleWorker] /\ UNCHANGED incidents
      <4> SUFFICES ASSUME Clean' PROVE Identified'
        BY DEF Identified
      <4>1. Clean /\ Busy(w) /\ UNCHANGED <<temp, messages, requests>>
        BY <2>2, <3>2 DEF Persist, Clean, Busy
      <4>2. CASE session.status = "IDENTIFYING"
        <5>1. session'.status = "IDENTIFIED" /\ session'.identity = workers[w].files
          BY <2>2, <4>2 DEF Persist
        <5>2. workers[w].files = temp
          BY <1>0, <4>1, <4>2 DEF Identified
        <5>3. NoCarrier'
          BY <1>0, <1>t, <3>2, <4>1, <4>2, LastWorker
        <5> QED
          BY <4>1, <5>1, <5>2, <5>3 DEF Identified
      <4>3. CASE session.status # "IDENTIFYING"
        BY <2>2, <1>0, <4>1, <4>3 DEF Persist, Identified, NoCarrier
      <4> QED
        BY <4>2, <4>3
    <3> QED
      BY <2>2, <3>1, <3>2 DEF Persist
  <2>3. CASE FailRestore(w)
    <3> SUFFICES ASSUME Clean' PROVE Identified'
      BY DEF Identified
    <3>1. /\ Clean /\ Busy(w) /\ UNCHANGED <<temp, messages, requests>>
          /\ workers' = [workers EXCEPT ![w] = IdleWorker]
      BY <2>3 DEF FailRestore, Clean, Busy
    <3>2. CASE session.status = "IDENTIFYING"
      <4>1. workers[w].prior = session.identity /\ session.identity \in {None, temp}
        BY <1>0, <3>1, <3>2 DEF Identified
      <4>2. NoCarrier'
        BY <1>0, <1>t, <3>1, <3>2, LastWorker
      <4>3. CASE session.identity = None
        <5>1. session'.status = "UPLOADING" /\ session'.identity = None
          BY <2>3, <1>t, <3>2, <4>1, <4>3 DEF FailRestore, CarrierTypes
        <5> QED
          BY <4>2, <5>1 DEF Identified
      <4>4. CASE session.identity # None
        <5>1. session'.status = "IDENTIFIED" /\ session'.identity = temp
          BY <2>3, <3>2, <4>1, <4>4 DEF FailRestore
        <5> QED
          BY <3>1, <4>2, <5>1 DEF Identified
      <4> QED
        BY <4>3, <4>4
    <3>3. CASE session.status # "IDENTIFYING"
      BY <2>3, <1>0, <3>1, <3>3 DEF FailRestore, Identified, NoCarrier
    <3> QED
      BY <3>2, <3>3
  <2>4. CASE CrashWorker(w)
    <3>1. \A v \in Workers : Busy(v)' => Busy(v) /\ workers'[v] = workers[v]
      BY <2>4, <1>t DEF CrashWorker, Busy, CarrierTypes, IdleWorker
    <3> QED
      BY <2>4, <1>0, <1>t, <3>1, FewerCarriers DEF CrashWorker, CarrierTypes, Happened, Carrying
  <2> QED
    BY <1>7, <2>1, <2>2, <2>3, <2>4 DEF Work
<1>8. CASE LoseMessage
  <2>1. messages \in Nat /\ messages' = messages - 1
    BY <1>8, <1>t DEF LoseMessage, CarrierTypes
  <2>2. messages' <= messages
    BY <2>1
  <2>3. incidents \subseteq incidents'
    BY <1>8 DEF LoseMessage, Happened
  <2> QED
    BY <1>8, <1>0, <1>t, <2>2, <2>3, SameCarriers DEF LoseMessage
<1>9. CASE UNCHANGED vars
  <2>1. UNCHANGED <<session, temp, requests, workers, messages, incidents>>
    BY <1>9 DEF vars
  <2> QED
    BY <1>s, <2>1
<1> QED
  BY <1>1, <1>2, <1>3, <1>4, <1>5, <1>6, <1>7, <1>8, <1>9 DEF Next

-----------------------------------------------------------------------------
(* Identifications in progress *)

(* An outage that takes a carrier away is an exception of the property. *)
LEMMA TakenAway ==
  ASSUME NEW kind \in {"crash", "lost message", "lost reply"}, Happened(kind)
  PROVE  IdentifyingIsCarried'
  BY DEF IdentifyingIsCarried, Happened

(* A call that carries nothing takes a step that starts no identification. *)
LEMMA CarriersStay ==
  ASSUME IdentifyingIsCarried, NEW r \in Requests, OnlyCall(r), ~Carrying(r),
         UNCHANGED <<messages, workers>>, incidents' = incidents,
         session'.status = "IDENTIFYING" => session.status = "IDENTIFYING"
  PROVE  IdentifyingIsCarried'
<1> SUFFICES ASSUME session.status = "IDENTIFYING", incidents \subseteq {"publish"}
             PROVE  \/ \E q \in Requests : Carrying(q)'
                    \/ messages' > 0
                    \/ \E w \in Workers : Busy(w)'
  BY DEF IdentifyingIsCarried
<1>1. \A q \in Requests : Carrying(q) => Carrying(q)'
  BY DEF OnlyCall, Carrying
<1>2. \A w \in Workers : Busy(w) => Busy(w)'
  BY DEF Busy
<1> QED
  BY <1>1, <1>2 DEF IdentifyingIsCarried

(* No step takes an identification in progress out of all hands. *)
LEMMA CarriedStep ==
  ASSUME TypeOK, Holder, IdentifyingIsCarried, [Next]_vars
  PROVE  IdentifyingIsCarried'
<1>0. IdentifyingIsCarried /\ Holder
  OBVIOUS
<1>t. CarrierTypes /\ None \notin Requests
  <2>1. messages \in 0..MaxMessages
    BY DEF TypeOK
  <2>2. messages \in Nat
    BY <2>1, UploadAssumption DEF UploadAssumption
  <2> QED
    BY <2>2, UploadAssumption DEF UploadAssumption, CarrierTypes, TypeOK
<1>s. UNCHANGED <<session, requests, workers, messages, incidents>> => IdentifyingIsCarried'
  BY <1>0 DEF IdentifyingIsCarried, Carrying, Busy
<1>1. ASSUME NEW r \in Requests, Upload(r) PROVE IdentifyingIsCarried'
  <2>1. ASSUME NEW fs \in SUBSET TempIds,
               BeginUpload(r, fs)
        PROVE  IdentifyingIsCarried'
    <3>1. OnlyCall(r) /\ ~Carrying(r)
      BY <2>1, <1>0, <1>t DEF BeginUpload, CanCall, OnlyCall, Carrying, CarrierTypes
    <3>2. session'.status = "IDENTIFYING" => session.status = "IDENTIFYING"
      BY <2>1 DEF BeginUpload, CanCall, Invalidated
    <3> QED
      BY <2>1, <1>0, <3>1, <3>2, CarriersStay DEF BeginUpload, CanCall
  <2>2. ASSUME NEW f \in TempIds, NEW row \in TempRow,
               Ingest(r, f, row)
        PROVE  IdentifyingIsCarried'
    <3>1. UNCHANGED <<session, requests, workers, messages, incidents>>
      BY <2>2 DEF Ingest
    <3> QED
      BY <1>s, <3>1
  <2>3. ASSUME NEW f \in TempIds, NEW content \in Contents,
               NEW stored \in SUBSET {f}, NEW known \in SUBSET {f},
               IngestFails(r, f, content, stored, known)
        PROVE  IdentifyingIsCarried'
    <3>1. OnlyCall(r) /\ UNCHANGED session
      <4>1. ASSUME NEW keys, NEW error, Raise(r, keys, error)
            PROVE  OnlyCall(r) /\ UNCHANGED session
        BY <1>t, <4>1 DEF Raise, OnlyCall, CarrierTypes
      <4> QED
        BY <2>3, <4>1 DEF IngestFails
    <3>2. ~Carrying(r)
      BY <2>3, <1>0 DEF IngestFails, Carrying, Holder
    <3> QED
      BY <2>3, <1>0, <3>1, <3>2, CarriersStay DEF IngestFails
  <2>4. CASE CommitUpload(r)
    <3>1. OnlyCall(r) /\ ~Carrying(r)
      BY <2>4, <1>0, <1>t DEF CommitUpload, UploadCommitted, OnlyCall, Carrying, CarrierTypes, Holder
    <3>2. session'.status = "IDENTIFYING" => session.status = "IDENTIFYING"
      BY <2>4 DEF CommitUpload, UploadCommitted, Invalidated
    <3> QED
      BY <2>4, <1>0, <3>1, <3>2, CarriersStay DEF CommitUpload, UploadCommitted
  <2> QED
    BY <1>1, <2>1, <2>2, <2>3, <2>4 DEF Upload
<1>2. ASSUME NEW r \in Requests, Resolve(r) PROVE IdentifyingIsCarried'
  <2>1. ASSUME NEW mode \in {"CREATE_NEW", "LINK_EXISTING"}, NEW fs \in SUBSET TempIds,
               BeginResolve(r, mode, fs)
        PROVE  IdentifyingIsCarried'
    <3>1. OnlyCall(r) /\ ~Carrying(r)
      BY <2>1, <1>0, <1>t DEF BeginResolve, CanCall, OnlyCall, Carrying, CarrierTypes
    <3>2. session'.status = "IDENTIFYING" => session.status = "IDENTIFYING"
      BY <2>1 DEF BeginResolve, CanCall, Invalidated
    <3> QED
      BY <2>1, <1>0, <3>1, <3>2, CarriersStay DEF BeginResolve, CanCall
  <2>2. ASSUME NEW f \in TempIds, Reuse(r, f) PROVE IdentifyingIsCarried'
    <3>1. UNCHANGED <<session, requests, workers, messages, incidents>>
      BY <2>2 DEF Reuse
    <3> QED
      BY <1>s, <3>1
  <2>3. ASSUME NEW f \in TempIds, NEW d \in DocIds,
               Promote(r, f, d)
        PROVE  IdentifyingIsCarried'
    <3>1. UNCHANGED <<session, requests, workers, messages, incidents>>
      BY <2>3 DEF Promote
    <3> QED
      BY <1>s, <3>1
  <2>4. ASSUME NEW f \in TempIds, NEW d \in DocIds, NEW stored \in SUBSET {d},
               NEW known \in SUBSET {d},
               PromoteFails(r, f, d, stored, known)
        PROVE  IdentifyingIsCarried'
    <3>1. OnlyCall(r) /\ ~Carrying(r)
      BY <2>4, <1>0, <1>t DEF PromoteFails, Raise, OnlyCall, Carrying, CarrierTypes, Holder
    <3>2. session'.status = "IDENTIFYING" => session.status = "IDENTIFYING"
      BY <2>4 DEF PromoteFails, Raise, Invalidated
    <3> QED
      BY <2>4, <1>0, <3>1, <3>2, CarriersStay DEF PromoteFails, Raise
  <2>5. CASE CommitResolve(r)
    <3>1. OnlyCall(r) /\ ~Carrying(r)
      BY <2>5, <1>0, <1>t DEF CommitResolve, ResolveCommitted, OnlyCall, Carrying, CarrierTypes, Holder
    <3>2. session'.status = "IDENTIFYING" => session.status = "IDENTIFYING"
      BY <2>5 DEF CommitResolve, ResolveCommitted, Invalidated
    <3> QED
      BY <2>5, <1>0, <3>1, <3>2, CarriersStay DEF CommitResolve, ResolveCommitted
  <2> QED
    BY <1>2, <2>1, <2>2, <2>3, <2>4, <2>5 DEF Resolve
<1>3. ASSUME NEW r \in Requests, FinishCall(r) PROVE IdentifyingIsCarried'
  <2>1. CASE CommitFails(r)
    <3>1. OnlyCall(r) /\ ~Carrying(r)
      BY <2>1, <1>0, <1>t DEF CommitFails, Raise, OnlyCall, Carrying, CarrierTypes, Holder
    <3>2. session'.status = "IDENTIFYING" => session.status = "IDENTIFYING"
      BY <2>1 DEF CommitFails, Raise, Invalidated
    <3> QED
      BY <2>1, <1>0, <3>1, <3>2, CarriersStay DEF CommitFails, Raise
  <2>2. CASE LoseCommitReply(r)
    BY <2>2, TakenAway DEF LoseCommitReply
  <2>3. ASSUME NEW k \in Keys, NEW deleted \in SUBSET Keys,
               Cleanup(r, k, deleted)
        PROVE  IdentifyingIsCarried'
    <3>1. OnlyCall(r) /\ ~Carrying(r)
      BY <2>3, <1>0, <1>t DEF Cleanup, OnlyCall, Carrying, CarrierTypes
    <3>2. session'.status = "IDENTIFYING" => session.status = "IDENTIFYING"
      BY <2>3 DEF Cleanup, Invalidated
    <3> QED
      BY <2>3, <1>0, <3>1, <3>2, CarriersStay DEF Cleanup
  <2>4. CASE CleanedUp(r)
    <3>1. OnlyCall(r) /\ ~Carrying(r)
      BY <2>4, <1>0, <1>t DEF CleanedUp, OnlyCall, Carrying, CarrierTypes
    <3>2. session'.status = "IDENTIFYING" => session.status = "IDENTIFYING"
      BY <2>4 DEF CleanedUp, Invalidated
    <3> QED
      BY <2>4, <1>0, <3>1, <3>2, CarriersStay DEF CleanedUp
  <2>5. ASSUME NEW sent \in SUBSET DocIds,
               Publish(r, sent)
        PROVE  IdentifyingIsCarried'
    <3>1. OnlyCall(r) /\ ~Carrying(r)
      BY <2>5, <1>0, <1>t DEF Publish, OnlyCall, Carrying, CarrierTypes
    <3>2. session'.status = "IDENTIFYING" => session.status = "IDENTIFYING"
      BY <2>5 DEF Publish, Invalidated
    <3> QED
      BY <2>5, <1>0, <3>1, <3>2, CarriersStay DEF Publish
  <2> QED
    BY <1>3, <2>1, <2>2, <2>3, <2>4, <2>5 DEF FinishCall
<1>4. ASSUME NEW r \in Requests, Change(r) PROVE IdentifyingIsCarried'
  <2>1. ASSUME NEW f \in TempIds, NEW type \in Types,
               PatchFile(r, f, type)
        PROVE  IdentifyingIsCarried'
    <3>1. OnlyCall(r) /\ ~Carrying(r)
      BY <2>1, <1>0, <1>t DEF PatchFile, CanCall, OnlyCall, Carrying, CarrierTypes
    <3>2. session'.status = "IDENTIFYING" => session.status = "IDENTIFYING"
      BY <2>1 DEF PatchFile, CanCall, Invalidated
    <3> QED
      BY <2>1, <1>0, <3>1, <3>2, CarriersStay DEF PatchFile, CanCall
  <2>2. ASSUME NEW f \in TempIds, DeleteFile(r, f) PROVE IdentifyingIsCarried'
    <3>1. OnlyCall(r) /\ ~Carrying(r)
      BY <2>2, <1>0, <1>t DEF DeleteFile, CanCall, OnlyCall, Carrying, CarrierTypes
    <3>2. session'.status = "IDENTIFYING" => session.status = "IDENTIFYING"
      BY <2>2 DEF DeleteFile, CanCall, Invalidated
    <3> QED
      BY <2>2, <1>0, <3>1, <3>2, CarriersStay DEF DeleteFile, CanCall
  <2>3. CASE Cancel(r)
    <3>1. OnlyCall(r) /\ ~Carrying(r)
      BY <2>3, <1>0, <1>t DEF Cancel, CanCall, OnlyCall, Carrying, CarrierTypes
    <3>2. session'.status = "IDENTIFYING" => session.status = "IDENTIFYING"
      BY <2>3 DEF Cancel, CanCall, Invalidated
    <3> QED
      BY <2>3, <1>0, <3>1, <3>2, CarriersStay DEF Cancel, CanCall
  <2> QED
    BY <1>4, <2>1, <2>2, <2>3 DEF Change
<1>5. ASSUME NEW r \in Requests, Identify(r) PROVE IdentifyingIsCarried'
  <2>1. CASE StartIdentify(r)
    <3>1. CASE Happened("lost reply")
      BY <3>1, TakenAway
    <3>2. CASE requests' = [requests EXCEPT ![r] =
                 [Idle EXCEPT !.at = "enqueue", !.prev = session.status]]
      <4>1. Carrying(r)'
        BY <1>t, <3>2 DEF Carrying, CarrierTypes, Idle
      <4> QED
        BY <4>1 DEF IdentifyingIsCarried
    <3> QED
      BY <2>1, <3>1, <3>2 DEF StartIdentify
  <2>2. CASE Enqueue(r)
    <3>1. messages \in Nat /\ messages' = messages + 1
      BY <2>2, <1>t DEF Enqueue, CarrierTypes
    <3>2. messages' > 0
      BY <3>1
    <3> QED
      BY <3>2 DEF IdentifyingIsCarried
  <2>3. CASE EnqueueFails(r)
    <3>1. Carrying(r)'
      BY <2>3, <1>t DEF EnqueueFails, Carrying, CarrierTypes
    <3> QED
      BY <3>1 DEF IdentifyingIsCarried
  <2>4. CASE Restore(r)
    <3>1. requests[r].prev \in Open
      BY <1>t DEF CarrierTypes, Request
    <3>2. session'.status # "IDENTIFYING"
      BY <2>4, <1>t, <3>1 DEF Restore, Open, CarrierTypes
    <3> QED
      BY <3>2 DEF IdentifyingIsCarried
  <2> QED
    BY <1>5, <2>1, <2>2, <2>3, <2>4 DEF Identify
<1>6. ASSUME NEW r \in Requests, CrashRequest(r) PROVE IdentifyingIsCarried'
  BY <1>6, TakenAway DEF CrashRequest
<1>7. ASSUME NEW w \in Workers, Work(w) PROVE IdentifyingIsCarried'
  <2>1. CASE Claim(w)
    <3>1. CASE session.status = "IDENTIFYING"
      <4>1. Busy(w)'
        BY <2>1, <1>t, <3>1 DEF Claim, Busy, CarrierTypes
      <4> QED
        BY <4>1 DEF IdentifyingIsCarried
    <3>2. CASE session.status # "IDENTIFYING"
      BY <2>1, <3>2 DEF Claim, IdentifyingIsCarried
    <3> QED
      BY <3>1, <3>2
  <2>2. CASE Persist(w)
    <3>1. session'.status # "IDENTIFYING"
      BY <2>2 DEF Persist
    <3> QED
      BY <3>1 DEF IdentifyingIsCarried
  <2>3. CASE FailRestore(w)
    <3>1. session'.status # "IDENTIFYING"
      BY <2>3, <1>t DEF FailRestore, CarrierTypes
    <3> QED
      BY <3>1 DEF IdentifyingIsCarried
  <2>4. CASE CrashWorker(w)
    BY <2>4, TakenAway DEF CrashWorker
  <2> QED
    BY <1>7, <2>1, <2>2, <2>3, <2>4 DEF Work
<1>8. CASE LoseMessage
  BY <1>8, TakenAway DEF LoseMessage
<1>9. CASE UNCHANGED vars
  BY <1>9, <1>s DEF vars
<1> QED
  BY <1>1, <1>2, <1>3, <1>4, <1>5, <1>6, <1>7, <1>8, <1>9 DEF Next

-----------------------------------------------------------------------------
(* Closed sessions *)

(* No step changes a closed session, its files or its documents. *)
LEMMA ClosedStep ==
  ASSUME Holder, session.status \in Terminal, [Next]_vars
  PROVE  UNCHANGED <<session, temp, documents>>
<1>0. tx.owner = None /\ session.status \notin Open /\ None \notin Requests
  BY UploadAssumption DEF Holder, Open, Terminal, UploadAssumption
<1>n. session.status # "IDENTIFYING" /\ session.status \in Terminal
  BY DEF Terminal
<1>1. ASSUME NEW r \in Requests, Upload(r) PROVE UNCHANGED <<session, temp, documents>>
  <2>1. ASSUME NEW fs \in SUBSET TempIds,
               BeginUpload(r, fs)
        PROVE  UNCHANGED <<session, temp, documents>>
    BY <2>1, <1>0 DEF BeginUpload
  <2>2. ASSUME NEW f \in TempIds, NEW row \in TempRow,
               Ingest(r, f, row)
        PROVE  UNCHANGED <<session, temp, documents>>
    BY <2>2, <1>0 DEF Ingest
  <2>3. ASSUME NEW f \in TempIds, NEW content \in Contents,
               NEW stored \in SUBSET {f}, NEW known \in SUBSET {f},
               IngestFails(r, f, content, stored, known)
        PROVE  UNCHANGED <<session, temp, documents>>
    BY <2>3, <1>0 DEF IngestFails
  <2>4. CASE CommitUpload(r)
    BY <2>4, <1>0 DEF CommitUpload
  <2> QED
    BY <1>1, <2>1, <2>2, <2>3, <2>4 DEF Upload
<1>2. ASSUME NEW r \in Requests, Resolve(r) PROVE UNCHANGED <<session, temp, documents>>
  <2>1. ASSUME NEW mode \in {"CREATE_NEW", "LINK_EXISTING"}, NEW fs \in SUBSET TempIds,
               BeginResolve(r, mode, fs)
        PROVE  UNCHANGED <<session, temp, documents>>
    BY <2>1, <1>0 DEF BeginResolve
  <2>2. ASSUME NEW f \in TempIds,
               Reuse(r, f)
        PROVE  UNCHANGED <<session, temp, documents>>
    BY <2>2, <1>0 DEF Reuse
  <2>3. ASSUME NEW f \in TempIds, NEW d \in DocIds,
               Promote(r, f, d)
        PROVE  UNCHANGED <<session, temp, documents>>
    BY <2>3, <1>0 DEF Promote
  <2>4. ASSUME NEW f \in TempIds, NEW d \in DocIds, NEW stored \in SUBSET {d},
               NEW known \in SUBSET {d},
               PromoteFails(r, f, d, stored, known)
        PROVE  UNCHANGED <<session, temp, documents>>
    BY <2>4, <1>0 DEF PromoteFails, Raise
  <2>5. CASE CommitResolve(r)
    BY <2>5, <1>0 DEF CommitResolve
  <2> QED
    BY <1>2, <2>1, <2>2, <2>3, <2>4, <2>5 DEF Resolve
<1>3. ASSUME NEW r \in Requests, FinishCall(r) PROVE UNCHANGED <<session, temp, documents>>
  <2>1. CASE CommitFails(r)
    BY <2>1, <1>0 DEF CommitFails, Raise
  <2>2. CASE LoseCommitReply(r)
    BY <2>2, <1>0 DEF LoseCommitReply
  <2>3. ASSUME NEW k \in Keys, NEW deleted \in SUBSET Keys,
               Cleanup(r, k, deleted)
        PROVE  UNCHANGED <<session, temp, documents>>
    BY <2>3, <1>0 DEF Cleanup
  <2>4. CASE CleanedUp(r)
    BY <2>4, <1>0 DEF CleanedUp
  <2>5. ASSUME NEW sent \in SUBSET DocIds,
               Publish(r, sent)
        PROVE  UNCHANGED <<session, temp, documents>>
    BY <2>5, <1>0 DEF Publish
  <2> QED
    BY <1>3, <2>1, <2>2, <2>3, <2>4, <2>5 DEF FinishCall
<1>4. ASSUME NEW r \in Requests, Change(r) PROVE UNCHANGED <<session, temp, documents>>
  <2>1. ASSUME NEW f \in TempIds, NEW type \in Types,
               PatchFile(r, f, type)
        PROVE  UNCHANGED <<session, temp, documents>>
    BY <2>1, <1>0 DEF PatchFile
  <2>2. ASSUME NEW f \in TempIds,
               DeleteFile(r, f)
        PROVE  UNCHANGED <<session, temp, documents>>
    BY <2>2, <1>0 DEF DeleteFile
  <2>3. CASE Cancel(r)
    BY <2>3 DEF Cancel
  <2> QED
    BY <1>4, <2>1, <2>2, <2>3 DEF Change
<1>5. ASSUME NEW r \in Requests, Identify(r) PROVE UNCHANGED <<session, temp, documents>>
  <2>1. CASE StartIdentify(r)
    BY <2>1, <1>0 DEF StartIdentify
  <2>2. CASE Enqueue(r)
    BY <2>2, <1>0 DEF Enqueue
  <2>3. CASE EnqueueFails(r)
    BY <2>3, <1>0 DEF EnqueueFails
  <2>4. CASE Restore(r)
    BY <2>4, <1>n DEF Restore
  <2> QED
    BY <1>5, <2>1, <2>2, <2>3, <2>4 DEF Identify
<1>6. ASSUME NEW r \in Requests, CrashRequest(r) PROVE UNCHANGED <<session, temp, documents>>
  BY <1>6, <1>0 DEF CrashRequest
<1>7. ASSUME NEW w \in Workers, Work(w) PROVE UNCHANGED <<session, temp, documents>>
  <2>1. CASE Claim(w)
    BY <2>1, <1>0 DEF Claim
  <2>2. CASE Persist(w)
    BY <2>2, <1>n DEF Persist
  <2>3. CASE FailRestore(w)
    BY <2>3, <1>n DEF FailRestore
  <2>4. CASE CrashWorker(w)
    BY <2>4, <1>0 DEF CrashWorker
  <2> QED
    BY <1>7, <2>1, <2>2, <2>3, <2>4 DEF Work
<1>8. CASE LoseMessage
  BY <1>8, <1>0 DEF LoseMessage
<1>9. CASE UNCHANGED vars
  BY <1>9, <1>0 DEF vars
<1> QED
  BY <1>1, <1>2, <1>3, <1>4, <1>5, <1>6, <1>7, <1>8, <1>9 DEF Next

-----------------------------------------------------------------------------
(* Theorems *)

(* The conjunction of the parts is inductive. *)
LEMMA InvStep ==
  ASSUME Inv, [Next]_vars
  PROVE  Inv'
<1>1. TypeOK'
  BY TypeStep DEF Inv
<1>2. Holder'
  BY HolderStep DEF Inv
<1>3. Workspace' /\ Allocated' /\ PromotedOnce'
  BY RowsStep DEF Inv, Rows
<1>4. Backed'
  BY BackedStep DEF Inv, Rows
<1>5. Identified' /\ IdentifyingIsCarried'
  BY IdentifiedStep, CarriedStep DEF Inv
<1> QED
  BY <1>1, <1>2, <1>3, <1>4, <1>5 DEF Inv

LEMMA Invariance == SafetySpec => []Inv
  BY InitInv, InvStep, PTL DEF SafetySpec

(* Every variable keeps its type: the session, its rows, its objects and what *)
(* calls and workers remember, whatever raises, crashes or is lost.           *)
THEOREM TypeCorrect == SafetySpec => []TypeOK
<1>1. Inv => TypeOK
  BY DEF Inv
<1> QED
  BY <1>1, Invariance, PTL

(* upload_files, resolve and delete_temp_file: no committed row loses its     *)
(* object, unless a call compensates for a commit whose reply was lost.       *)
THEOREM NoRowDangles == SafetySpec => []NoDanglingRows
<1>1. Inv => NoDanglingRows
  BY DEF Inv, Backed, Kept, NoDanglingRows
<1> QED
  BY <1>1, Invariance, PTL

(* resolve: a temporary file becomes at most one document and its row goes.   *)
THEOREM PromotedAtMostOnce == SafetySpec => []PromotedOnce
<1>1. Inv => PromotedOnce
  BY DEF Inv
<1> QED
  BY <1>1, Invariance, PTL

(* identify: an identified session shows what was read from its files, while  *)
(* no message and no reply of a commit was in doubt.                          *)
THEOREM IdentityStaysCurrent == SafetySpec => []IdentityIsCurrent
<1>1. Inv => IdentityIsCurrent
  BY DEF Inv, Identified, Clean, IdentityIsCurrent
<1> QED
  BY <1>1, Invariance, PTL

(* identify: somebody carries every identification in progress, while nothing *)
(* crashed and nothing was lost.                                              *)
THEOREM IdentificationIsCarried == SafetySpec => []IdentifyingIsCarried
<1>1. Inv => IdentifyingIsCarried
  BY DEF Inv
<1> QED
  BY <1>1, Invariance, PTL

(* A cancelled or resolved session stays as it is, with its files and its     *)
(* documents, whatever calls, workers and compensations are still under way.  *)
THEOREM ClosedStaysClosed == SafetySpec => ClosedIsFinal
<1>1. Inv /\ [Next]_vars =>
        [session.status \in Terminal => UNCHANGED <<session, temp, documents>>]_vars
  BY ClosedStep DEF Inv
<1> QED
  BY <1>1, Invariance, PTL DEF SafetySpec, ClosedIsFinal
=============================================================================
