--------------------------- MODULE UploadSessions ---------------------------
(***************************************************************************)
(* One upload session: its row, the rows of its temporary files, the       *)
(* documents it is resolved into, and the objects behind them in S3, which *)
(* no database transaction covers.  API calls change the session under its *)
(* row lock (SELECT ... FOR UPDATE); the identification of the person runs *)
(* in Celery workers that hold no lock while they work.                    *)
(*                                                                         *)
(* The two calls that write objects inside their transaction (upload_files *)
(* and resolve) are split into their steps; a call that only writes rows   *)
(* is one step, its best-effort deletions of objects after the commit are  *)
(* steps of their own.  Groups, versions and the person the documents go   *)
(* to are not part of this module.                                         *)
(***************************************************************************)
EXTENDS Naturals, FiniteSets

CONSTANTS
  TempIds,     \* ids of temporary files, each allocated at most once (uuid4)
  DocIds,      \* ids of documents, each allocated at most once (uuid4)
  Contents,    \* file contents, one per SHA-256
  Reusable,    \* contents a READY document of the chosen person has already
  Types,       \* document type codes
  Requests,    \* API calls that can be running at a time
  Workers,     \* Celery workers
  None,        \* no row, no identity, no holder of the row lock
  MaxFiles,    \* upload_max_files_per_session
  MaxMessages, \* bound: identification messages waiting in Redis
  MaxOutages   \* bound: kinds of outages in one behaviour

Keys     == TempIds \cup DocIds
TempRow  == [content : Contents, type : Types]
TempRows == [TempIds -> TempRow \cup {None}]
DocRows  == [DocIds -> TempIds \cup {None}]
Identity == TempRows \cup {None}

ASSUME UploadAssumption ==
  /\ TempIds \cap DocIds = {}
  /\ Reusable \subseteq Contents
  /\ None \notin Requests \cup TempIds \cup TempRow
  /\ None \notin TempRows
  /\ MaxFiles \in Nat /\ MaxMessages \in Nat /\ MaxOutages \in Nat

VARIABLES
  session,    \* status and identity; an identity is the files it was read from
  temp,       \* committed upload_temp_file rows of the session
  documents,  \* committed document rows: the temporary file each was made from
  objects,    \* keys of the objects in S3
  used,       \* ids that have been allocated
  tx,         \* the open transaction that holds the session's row lock
  requests,   \* API calls: what each does outside its transaction
  messages,   \* identify_upload_session messages in Redis
  workers,    \* identification workers
  processing, \* documents a process_document message was sent for
  incidents   \* kinds of outages that have happened

vars == <<session, temp, documents, objects, used, tx, requests, messages,
          workers, processing, incidents>>

Open       == {"UPLOADING", "IDENTIFIED"}
Terminal   == {"CANCELLED", "RESOLVED"}
NoRows     == [f \in TempIds |-> None]
NoDocs     == [d \in DocIds |-> None]
NoTx       == [owner |-> None, call |-> "none", items |-> {}, rows |-> NoRows,
               docs |-> NoDocs, done |-> {}]
Idle       == [at |-> "idle", keys |-> {}, docs |-> {}, prev |-> "UPLOADING",
               error |-> "none"]
IdleWorker == [at |-> "idle", files |-> NoRows, prior |-> None]

Transaction == [owner : Requests \cup {None},
                call : {"none", "upload", "CREATE_NEW", "LINK_EXISTING"},
                items : SUBSET TempIds, rows : TempRows, docs : DocRows,
                done : SUBSET TempIds]
Request     == [at : {"idle", "open", "cleanup", "publish", "enqueue", "restore"},
                keys : SUBSET Keys, docs : SUBSET DocIds, prev : Open,
                error : {"none", "MultipleResultsFound"}]
Worker      == [at : {"idle", "working", "failing"}, files : TempRows,
                prior : Identity]

TypeOK ==
  /\ session \in [status : Open \cup Terminal \cup {"IDENTIFYING"},
                  identity : Identity]
  /\ temp \in TempRows /\ documents \in DocRows
  /\ objects \subseteq Keys /\ used \subseteq Keys
  /\ tx \in Transaction
  /\ requests \in [Requests -> Request]
  /\ messages \in 0..MaxMessages
  /\ workers \in [Workers -> Worker]
  /\ processing \subseteq DocIds
  /\ incidents \subseteq {"crash", "lost message", "lost reply", "publish"}

Init ==
  /\ session = [status |-> "UPLOADING", identity |-> None]
  /\ temp = NoRows /\ documents = NoDocs
  /\ objects = {} /\ used = {}
  /\ tx = NoTx
  /\ requests = [r \in Requests |-> Idle]
  /\ messages = 0
  /\ workers = [w \in Workers |-> IdleWorker]
  /\ processing = {} /\ incidents = {}

-----------------------------------------------------------------------------
(* Helpers *)

Files(rows) == {f \in TempIds : rows[f] # None}
Docs(rows)  == {d \in DocIds : rows[d] # None}

\* The row lock of the session is free, and r is not in a call.
CanCall(r) == requests[r].at = "idle" /\ tx.owner = None

\* _invalidate_identity_if_needed
Invalidated == IF session.status = "IDENTIFIED"
               THEN [status |-> "UPLOADING", identity |-> None]
               ELSE session

\* The rows a statement of the open transaction sees: committed and flushed.
Visible == [f \in TempIds |-> IF f \in tx.done THEN None
                              ELSE IF tx.rows[f] # None THEN tx.rows[f]
                              ELSE temp[f]]

VisibleDocuments == [d \in DocIds |-> IF tx.docs[d] # None THEN tx.docs[d]
                                      ELSE documents[d]]

\* Keys of the objects the open transaction has created: created_keys of
\* upload_files, created_permanent_keys of resolve.
Created == Files(tx.rows) \cup Docs(tx.docs)

Happened(kind) ==
  /\ incidents' = incidents \cup {kind}
  /\ Cardinality(incidents') <= MaxOutages

\* The transaction raises: rollback, then the objects of keys are deleted.
Raise(r, keys, error) ==
  /\ tx' = NoTx
  /\ requests' = [requests EXCEPT ![r] =
       [Idle EXCEPT !.at = "cleanup", !.keys = keys, !.error = error]]
  /\ UNCHANGED <<session, temp, documents>>

-----------------------------------------------------------------------------
(* upload_files *)

BeginUpload(r, fs) ==
  /\ CanCall(r)
  /\ session.status \in Open
  /\ fs # {} /\ fs \cap used = {}
  /\ Cardinality(Files(temp)) + Cardinality(fs) <= MaxFiles
  /\ tx' = [NoTx EXCEPT !.owner = r, !.call = "upload", !.items = fs]
  /\ requests' = [requests EXCEPT ![r] = [Idle EXCEPT !.at = "open"]]
  /\ used' = used \cup fs
  /\ UNCHANGED <<session, temp, documents, objects, messages, workers,
                 processing, incidents>>

SameContent(content) ==
  {f \in TempIds : Visible[f] # None /\ Visible[f].content = content}

\* _ingest_one_file: find_sha256_in_session returns at most one row, then the
\* object is put and its row flushed, DUPLICATE or VALID.
Ingest(r, f, row) ==
  /\ tx.owner = r /\ tx.call = "upload" /\ f \in tx.items
  /\ Cardinality(SameContent(row.content)) <= 1
  /\ objects' = objects \cup {f}
  /\ tx' = [tx EXCEPT !.items = @ \ {f}, !.rows[f] = row]
  /\ UNCHANGED <<session, temp, documents, used, requests, messages, workers,
                 processing, incidents>>

\* The file is refused, or put_fileobj raises (the object may have been stored
\* all the same), or the row cannot be written: only then the compensation
\* knows of the object.  Before that, scalar_one_or_none() raises when two rows
\* of the session have the content already.
IngestFails(r, f, content, stored, known) ==
  /\ tx.owner = r /\ tx.call = "upload" /\ f \in tx.items
  /\ known \subseteq stored
  /\ objects' = objects \cup stored
  /\ IF Cardinality(SameContent(content)) > 1
     THEN stored = {} /\ Raise(r, Created, "MultipleResultsFound")
     ELSE stored \subseteq {f} /\ Raise(r, Created \cup known, "none")
  /\ UNCHANGED <<used, messages, workers, processing, incidents>>

UploadCommitted ==
  /\ tx.call = "upload" /\ tx.items = {}
  /\ temp' = Visible
  /\ session' = Invalidated
  /\ tx' = NoTx
  /\ UNCHANGED <<documents, objects, used, messages, workers, processing>>

CommitUpload(r) ==
  /\ tx.owner = r
  /\ UploadCommitted
  /\ requests' = [requests EXCEPT ![r] = Idle]
  /\ UNCHANGED incidents

-----------------------------------------------------------------------------
(* resolve *)

\* _resolve_link_existing takes an open session, _resolve_create_new an
\* identified one; _assert_unique_sha_in_resolution refuses two files with
\* one content.
BeginResolve(r, mode, fs) ==
  /\ CanCall(r)
  /\ session.status \in (IF mode = "CREATE_NEW" THEN {"IDENTIFIED"} ELSE Open)
  /\ fs # {} /\ fs \subseteq Files(temp)
  /\ \A f, g \in fs : temp[f].content = temp[g].content => f = g
  /\ tx' = [NoTx EXCEPT !.owner = r, !.call = mode, !.items = fs]
  /\ requests' = [requests EXCEPT ![r] = [Idle EXCEPT !.at = "open"]]
  /\ UNCHANGED <<session, temp, documents, objects, used, messages, workers,
                 processing, incidents>>

\* _try_reuse_temp_file: only the row goes.  Whether the READY document also
\* has the item's type or group is left open.
Reuse(r, f) ==
  /\ tx.owner = r /\ tx.call = "LINK_EXISTING" /\ f \in tx.items
  /\ temp[f].content \in Reusable
  /\ tx' = [tx EXCEPT !.items = @ \ {f}, !.done = @ \cup {f}]
  /\ UNCHANGED <<session, temp, documents, objects, used, requests, messages,
                 workers, processing, incidents>>

\* A promotion that moves the object.
PromoteByMove(r, f, d) ==
  /\ tx.owner = r /\ tx.call \in {"CREATE_NEW", "LINK_EXISTING"}
  /\ f \in tx.items /\ f \in objects
  /\ d \notin used
  /\ objects' = (objects \ {f}) \cup {d}
  /\ used' = used \cup {d}
  /\ tx' = [tx EXCEPT !.items = @ \ {f}, !.done = @ \cup {f}, !.docs[d] = f]
  /\ UNCHANGED <<session, temp, documents, requests, messages, workers,
                 processing, incidents>>

\* A promotion that forgets the row.
PromoteKeepsRow(r, f, d) ==
  /\ tx.owner = r /\ tx.call \in {"CREATE_NEW", "LINK_EXISTING"}
  /\ f \in tx.items /\ f \in objects
  /\ d \notin used
  /\ objects' = objects \cup {d}
  /\ used' = used \cup {d}
  /\ tx' = [tx EXCEPT !.items = @ \ {f}, !.docs[d] = f]
  /\ UNCHANGED <<session, temp, documents, requests, messages, workers,
                 processing, incidents>>

\* _promote_temp_file: copy the object, then write the document and delete
\* the row.
Promote(r, f, d) ==
  /\ tx.owner = r /\ tx.call \in {"CREATE_NEW", "LINK_EXISTING"}
  /\ f \in tx.items /\ f \in objects
  /\ d \notin used
  /\ objects' = objects \cup {d}
  /\ used' = used \cup {d}
  /\ tx' = [tx EXCEPT !.items = @ \ {f}, !.done = @ \cup {f}, !.docs[d] = f]
  /\ UNCHANGED <<session, temp, documents, requests, messages, workers,
                 processing, incidents>>

\* The copy raises (having copied or not), or the rows cannot be written.
PromoteFails(r, f, d, stored, known) ==
  /\ tx.owner = r /\ tx.call \in {"CREATE_NEW", "LINK_EXISTING"}
  /\ f \in tx.items
  /\ d \notin used
  /\ stored \subseteq {d} \cap (IF f \in objects THEN {d} ELSE {})
  /\ known \subseteq stored
  /\ objects' = objects \cup stored
  /\ used' = used \cup {d}
  /\ Raise(r, Created \cup known, "none")
  /\ UNCHANGED <<messages, workers, processing, incidents>>

ResolveCommitted ==
  /\ tx.call \in {"CREATE_NEW", "LINK_EXISTING"} /\ tx.items = {}
  /\ temp' = Visible
  /\ documents' = VisibleDocuments
  /\ session' = [session EXCEPT !.status = "RESOLVED"]
  /\ tx' = NoTx
  /\ UNCHANGED <<objects, used, messages, workers, processing>>

\* After the commit the temporary objects are deleted, then the new documents
\* are sent to processing.
CommitResolve(r) ==
  /\ tx.owner = r
  /\ ResolveCommitted
  /\ requests' = [requests EXCEPT ![r] =
       [Idle EXCEPT !.at = "cleanup", !.keys = tx.done, !.docs = Docs(tx.docs)]]
  /\ UNCHANGED incidents

\* The commit takes place but its reply is lost, so the call compensates for a
\* transaction that was not rolled back.
LoseCommitReply(r) ==
  /\ tx.owner = r
  /\ UploadCommitted \/ ResolveCommitted
  /\ requests' = [requests EXCEPT ![r] =
       [Idle EXCEPT !.at = "cleanup", !.keys = Created]]
  /\ Happened("lost reply")

\* The audit row or the commit raises, and the transaction is rolled back.
CommitFails(r) ==
  /\ tx.owner = r /\ tx.items = {}
  /\ Raise(r, Created, "none")
  /\ UNCHANGED <<objects, used, messages, workers, processing, incidents>>

\* Best-effort deletion of one object, after a commit or a rollback.
Cleanup(r, k, deleted) ==
  /\ requests[r].at = "cleanup" /\ k \in requests[r].keys
  /\ deleted \subseteq {k}
  /\ objects' = objects \ deleted
  /\ requests' = [requests EXCEPT ![r].keys = @ \ {k}]
  /\ UNCHANGED <<session, temp, documents, used, tx, messages, workers,
                 processing, incidents>>

CleanedUp(r) ==
  /\ requests[r].at = "cleanup" /\ requests[r].keys = {}
  /\ requests' = [requests EXCEPT ![r] =
       IF requests[r].docs = {} THEN Idle ELSE [@ EXCEPT !.at = "publish"]]
  /\ UNCHANGED <<session, temp, documents, objects, used, tx, messages,
                 workers, processing, incidents>>

\* _enqueue_processing: a message that cannot be sent is only logged.
Publish(r, sent) ==
  /\ requests[r].at = "publish" /\ sent \subseteq requests[r].docs
  /\ processing' = processing \cup sent
  /\ requests' = [requests EXCEPT ![r] = Idle]
  /\ UNCHANGED <<session, temp, documents, objects, used, tx, messages,
                 workers, incidents>>

-----------------------------------------------------------------------------
(* patch_temp_file, delete_temp_file, cancel_session *)

PatchFile(r, f, type) ==
  /\ CanCall(r)
  /\ session.status \in Open
  /\ temp[f] # None
  /\ temp' = [temp EXCEPT ![f].type = type]
  /\ session' = Invalidated
  /\ UNCHANGED <<documents, objects, used, tx, requests, messages, workers,
                 processing, incidents>>

\* A deletion that leaves the identity of an identified session.
DeleteFileKeepsIdentity(r, f) ==
  /\ CanCall(r)
  /\ session.status \in Open
  /\ temp[f] # None
  /\ temp' = [temp EXCEPT ![f] = None]
  /\ requests' = [requests EXCEPT ![r] =
       [Idle EXCEPT !.at = "cleanup", !.keys = {f}]]
  /\ UNCHANGED <<session, documents, objects, used, tx, messages, workers, processing,
                 incidents>>

DeleteFile(r, f) ==
  /\ CanCall(r)
  /\ session.status \in Open
  /\ temp[f] # None
  /\ temp' = [temp EXCEPT ![f] = None]
  /\ session' = Invalidated
  /\ requests' = [requests EXCEPT ![r] =
       [Idle EXCEPT !.at = "cleanup", !.keys = {f}]]
  /\ UNCHANGED <<documents, objects, used, tx, messages, workers, processing,
                 incidents>>

Cancel(r) ==
  /\ CanCall(r)
  /\ session.status \notin Terminal
  /\ temp' = NoRows
  /\ session' = [session EXCEPT !.status = "CANCELLED"]
  /\ requests' = [requests EXCEPT ![r] =
       [Idle EXCEPT !.at = "cleanup", !.keys = Files(temp)]]
  /\ UNCHANGED <<documents, objects, used, tx, messages, workers, processing,
                 incidents>>

-----------------------------------------------------------------------------
(* identify and its worker *)

\* The commit, and what follows when its reply is lost: the call raises
\* before it has sent the message.
StartIdentify(r) ==
  /\ CanCall(r)
  /\ session.status \in Open
  /\ Files(temp) # {}
  /\ session' = [session EXCEPT !.status = "IDENTIFYING"]
  /\ \/ /\ requests' = [requests EXCEPT ![r] =
             [Idle EXCEPT !.at = "enqueue", !.prev = session.status]]
        /\ UNCHANGED incidents
     \/ Happened("lost reply") /\ UNCHANGED requests
  /\ UNCHANGED <<temp, documents, objects, used, tx, messages, workers,
                 processing>>

\* enqueue_upload_identify
Enqueue(r) ==
  /\ requests[r].at = "enqueue" /\ messages < MaxMessages
  /\ messages' = messages + 1
  /\ requests' = [requests EXCEPT ![r] = Idle]
  /\ UNCHANGED <<session, temp, documents, objects, used, tx, workers,
                 processing, incidents>>

\* It raises: nothing was sent, or Redis took the message and its reply was
\* lost.
EnqueueFails(r) ==
  /\ requests[r].at = "enqueue"
  /\ requests' = [requests EXCEPT ![r].at = "restore"]
  /\ \/ UNCHANGED <<messages, incidents>>
     \/ /\ messages < MaxMessages
        /\ messages' = messages + 1
        /\ Happened("publish")
  /\ UNCHANGED <<session, temp, documents, objects, used, tx, workers,
                 processing>>

\* A failed enqueue that changes nothing.
RestoreNothing(r) ==
  /\ requests[r].at = "restore" /\ tx.owner = None
  /\ session' = session
  /\ requests' = [requests EXCEPT ![r] = Idle]
  /\ UNCHANGED <<temp, documents, objects, used, tx, messages, workers,
                 processing, incidents>>

\* The status is put back only while it is still IDENTIFYING.
Restore(r) ==
  /\ requests[r].at = "restore" /\ tx.owner = None
  /\ session' = IF session.status = "IDENTIFYING"
                THEN [session EXCEPT !.status = requests[r].prev]
                ELSE session
  /\ requests' = [requests EXCEPT ![r] = Idle]
  /\ UNCHANGED <<temp, documents, objects, used, tx, messages, workers,
                 processing, incidents>>

\* _claim_and_snapshot: the message is acknowledged as it is received; the
\* work starts if the session is IDENTIFYING.
Claim(w) ==
  /\ messages > 0 /\ workers[w].at = "idle" /\ tx.owner = None
  /\ messages' = messages - 1
  /\ workers' = IF session.status = "IDENTIFYING"
                THEN [workers EXCEPT ![w] = [at |-> "working", files |-> temp,
                                             prior |-> session.identity]]
                ELSE workers
  /\ UNCHANGED <<session, temp, documents, objects, used, tx, requests,
                 processing, incidents>>

\* A result that is written whatever became of the session.
PersistAnyStatus(w) ==
  /\ workers[w].at = "working" /\ tx.owner = None
  /\ session' = [status |-> "IDENTIFIED", identity |-> workers[w].files]
  /\ \/ workers' = [workers EXCEPT ![w] = IdleWorker] /\ UNCHANGED incidents
     \/ /\ session.status = "IDENTIFYING"
        /\ workers' = [workers EXCEPT ![w].at = "failing"]
        /\ Happened("lost reply")
  /\ UNCHANGED <<temp, documents, objects, used, tx, requests, messages,
                 processing>>

\* _persist_success; when the reply of its commit is lost, _fail_restore
\* follows.
Persist(w) ==
  /\ workers[w].at = "working" /\ tx.owner = None
  /\ session' = IF session.status = "IDENTIFYING"
                THEN [status |-> "IDENTIFIED", identity |-> workers[w].files]
                ELSE session
  /\ \/ workers' = [workers EXCEPT ![w] = IdleWorker] /\ UNCHANGED incidents
     \/ /\ session.status = "IDENTIFYING"
        /\ workers' = [workers EXCEPT ![w].at = "failing"]
        /\ Happened("lost reply")
  /\ UNCHANGED <<temp, documents, objects, used, tx, requests, messages,
                 processing>>

\* _fail_restore after a failed extraction, VLM or LLM call, or a failed
\* commit.
FailRestore(w) ==
  /\ workers[w].at \in {"working", "failing"} /\ tx.owner = None
  /\ session' =
       IF session.status # "IDENTIFYING" THEN session
       ELSE IF workers[w].prior # None
            THEN [status |-> "IDENTIFIED", identity |-> workers[w].prior]
            ELSE [session EXCEPT !.status = "UPLOADING"]
  /\ workers' = [workers EXCEPT ![w] = IdleWorker]
  /\ UNCHANGED <<temp, documents, objects, used, tx, requests, messages,
                 processing, incidents>>

-----------------------------------------------------------------------------
(* Outages *)

\* The API process dies, or a call is ended by an exception nothing handles:
\* PostgreSQL rolls its transaction back, objects stay as they are.
CrashRequest(r) ==
  /\ requests[r].at # "idle"
  /\ requests' = [requests EXCEPT ![r] = Idle]
  /\ tx' = IF tx.owner = r THEN NoTx ELSE tx
  /\ Happened("crash")
  /\ UNCHANGED <<session, temp, documents, objects, used, messages, workers,
                 processing>>

\* Its message is acknowledged, and no other worker takes it.
CrashWorker(w) ==
  /\ workers[w].at # "idle"
  /\ workers' = [workers EXCEPT ![w] = IdleWorker]
  /\ Happened("crash")
  /\ UNCHANGED <<session, temp, documents, objects, used, tx, requests,
                 messages, processing>>

LoseMessage ==
  /\ messages > 0
  /\ messages' = messages - 1
  /\ Happened("lost message")
  /\ UNCHANGED <<session, temp, documents, objects, used, tx, requests,
                 workers, processing>>

Upload(r) ==
  \/ \E fs \in SUBSET TempIds : BeginUpload(r, fs)
  \/ \E f \in TempIds :
       \/ \E row \in TempRow : Ingest(r, f, row)
       \/ \E content \in Contents, stored, known \in SUBSET {f} :
            IngestFails(r, f, content, stored, known)
  \/ CommitUpload(r)

Resolve(r) ==
  \/ \E mode \in {"CREATE_NEW", "LINK_EXISTING"}, fs \in SUBSET TempIds :
       BeginResolve(r, mode, fs)
  \/ \E f \in TempIds :
       \/ Reuse(r, f)
       \/ \E d \in DocIds :
            \/ Promote(r, f, d)
            \/ \E stored, known \in SUBSET {d} :
                 PromoteFails(r, f, d, stored, known)
  \/ CommitResolve(r)

FinishCall(r) ==
  \/ CommitFails(r) \/ LoseCommitReply(r)
  \/ \E k \in Keys, deleted \in SUBSET Keys : Cleanup(r, k, deleted)
  \/ CleanedUp(r)
  \/ \E sent \in SUBSET DocIds : Publish(r, sent)

Change(r) ==
  \/ \E f \in TempIds, type \in Types : PatchFile(r, f, type)
  \/ \E f \in TempIds : DeleteFile(r, f)
  \/ Cancel(r)

Identify(r) ==
  StartIdentify(r) \/ Enqueue(r) \/ EnqueueFails(r) \/ Restore(r)

Work(w) == Claim(w) \/ Persist(w) \/ FailRestore(w) \/ CrashWorker(w)

Next ==
  \/ \E r \in Requests :
       Upload(r) \/ Resolve(r) \/ FinishCall(r) \/ Change(r) \/ Identify(r)
       \/ CrashRequest(r)
  \/ \E w \in Workers : Work(w)
  \/ LoseMessage

SafetySpec == Init /\ [][Next]_vars

-----------------------------------------------------------------------------
(* Properties *)

\* "prefer orphan temp objects over dangling DB references" (delete_temp_file):
\* whatever raises or crashes between a commit and the objects it is about,
\* every committed row has its object; only a commit whose reply was lost,
\* and that was then compensated, may break this.
NoDanglingRows ==
  "lost reply" \notin incidents => Files(temp) \cup Docs(documents) \subseteq objects

\* A temporary file becomes at most one document, whatever resolve calls were
\* rolled back, repeated or run at the same time, and its row goes with it.
PromotedOnce ==
  /\ \A d, e \in Docs(documents) : documents[d] = documents[e] => d = e
  /\ \A d \in Docs(documents) : temp[documents[d]] = None

\* _invalidate_identity_if_needed: what an IDENTIFIED session shows was read
\* from the files it has now, unless a message was sent by a call that was
\* told it was not, or the reply of a commit was lost.
IdentityIsCurrent ==
  /\ session.status = "IDENTIFIED"
  /\ {"publish", "lost reply"} \cap incidents = {}
  => session.identity = temp

Carrying(r) == requests[r].at \in {"enqueue", "restore"}
Busy(w)     == workers[w].at # "idle"

\* "Restore prior status so the session is not stuck IDENTIFYING": somebody
\* will end the identification of a session, a call that is about to send
\* its message or to give up, a message or a worker, as long as no crash and
\* no loss has taken them away.
IdentifyingIsCarried ==
  session.status = "IDENTIFYING" /\ incidents \subseteq {"publish"}
  => \/ \E r \in Requests : Carrying(r)
     \/ messages > 0
     \/ \E w \in Workers : Busy(w)

\* Late workers, restores and compensations find the session closed: its
\* status, its identity, its files and its documents stay as they are.
ClosedIsFinal ==
  [][session.status \in Terminal => UNCHANGED <<session, temp, documents>>]_vars
=============================================================================
