# Talent Scope: TLA+ models, model checking and proofs

Talent Scope keeps a searchable base of people. Documents are uploaded, an LLM reads
them, a human reviews what it found and confirms it into a versioned profile, and
confirmed profiles are indexed for text and vector search. The backend
(`src/backend/app`) is a FastAPI application and three kinds of Celery workers over
PostgreSQL, with Redis as message broker only and S3-compatible storage for files.

This directory models the backend from the upload of a file to the page of a search
result: the processes whose correctness depends on the order in which they act, and the
algorithms between them that decide what a person is said to have done. TLC checks the
models on small instances; TLAPS proves safety properties of nearly all of them for every
value of the constants. Paths below are relative to `src/backend/app` unless they start
with `src/`.

- [1. The system](#1-the-system)
- [2. What all models share](#2-what-all-models-share)
- [3. The modules](#3-the-modules)
- [4. Runs and bounds](#4-runs-and-bounds)
- [5. Fairness](#5-fairness)
- [6. Proofs](#6-proofs)
- [7. Where the code and its documents disagree](#7-where-the-code-and-its-documents-disagree)
- [8. What is not modelled](#8-what-is-not-modelled)
- [9. Plan](#9-plan)

## 1. The system

### Processes and stores

| Process | Runs | Holds |
| --- | --- | --- |
| API | one database session per request | row locks until its commit; nothing afterwards |
| document worker | `process_document` | a document row lock during conversion |
| analysis worker | `run_profile_analysis`, `identify_upload_session`, promotion of deferred runs | no lock while the LLM works |
| index worker | `process_search_index_job`, the two dispatch and recovery tasks, two scanners | row locks during the work |
| Beat | sends the dispatch task every 15 s, recovery and scanners every 60 s (`tasks/celery_app.py`) | nothing |

All business state is in PostgreSQL, at READ COMMITTED. Redis carries messages that name a
row; Celery acknowledges them as they are received and never retries (`max_retries=0`).

### Components

| Component | State | Operations | Interacts with | What is hard | What makes it correct |
| --- | --- | --- | --- | --- | --- |
| Upload sessions and identification (`modules/documents/service.py`, `modules/upload_identification`) | `upload_session`, `upload_temp_file`, objects in S3 | upload, patch, delete, cancel, identify, resolve | identification worker, S3, document processing | objects outside the transaction, a worker without a lock | no row without object; identity of the current files |
| Document versions (`modules/documents`) | `document`, `document_group` | new version, delete, restore | chunk sync, processing | several row locks in several orders, a unique index | one latest version, the highest |
| Document processing (`modules/document_processing`) | processing status, pages, preview | claim, convert, parse, store | S3, converters | crash after the claim, replaced previews | no preview lost; no document stuck |
| Document chunk synchronisation (`modules/search/document_chunk_sync.py`) | chunks of the effective version | ensure job, replace chunks, scan | queue, versions, person status | keys that are found COMPLETED, jobs executed in another state | search shows the effective version |
| Analysis runs (`modules/analysis/service.py`, `confirm.py`) | `analysis_run`: status, base version | create, defer, promote, publish, execute, fail, retry, cancel, confirm | person and profile version; analysis worker | rows read before a lock and used after it, ambiguous publishes | one executable run; no lost confirm; deletion final |
| Extraction (`service.py`, `source_builder.py`, `token_budget.py`) | one execution: phase, step, budgets, pieces of the source | build the source, count, ask, split, shrink, second pass | LLM and VLM routes | every answer can fail, be cut off or be empty; the window changes | the whole source is read; the budget is enough; it ends |
| Candidate (`compact_v8.py`, `normalize.py`, `kosa_project_recall.py`) | the parts of a candidate | normalise, check quotations, repair roles, merge, recall, lend evidence | extraction | hundreds of rules, each undoing what another did | claims are quoted; the merge is order-independent and loses nothing |
| Review and confirmation (`diff_engine.py`, `candidate_quality_guards.py`, `guard_refresh.py`, `confirm.py`) | diffs and decisions, evidence links | propose, decide, bulk decide, refresh, recover, confirm | profile, career, projects | three date parsers, a refresh under decisions, partial application | only what was reviewed changes; decisions survive; no proposal twice |
| People, career, projects (`modules/people`, `career`, `projects`) | profile and its version | versioned edits, status | index queue, analysis | optimistic version checks | each edit bumps the version once |
| Search index job queue (`modules/search/service.py`, `repository.py`, `tasks/index_tasks.py`) | `search_index_job`: status, retry count, started_at | enqueue, reserve and publish, claim, lock, finish, fail, recover stale rows, reopen | every mutation of a person enqueues; workers do the work | lost and repeated messages, crashes, recovery against slow workers, callers that reopen rows | one worker per row; work committed once; no row forgotten |
| Profile index and embeddings (`modules/search`) | `search_index_item`, embedding jobs | rebuild, deactivate, embed, scan | reads the profile under its lock; embedding provider | rebuilds out of order, slow provider, two lock orders | index equals the live profile; vector belongs to the text |
| Search queries and ranking (`query_service.py`, `query_repository.py`, `ranking.py`, `project_ranking.py`, `result_enrichment.py`) | none; several statements per request | filter, retrieve, merge, score, page, explain, suggest | everything above, as it changes | statements see different states; two lists that belong together by position | filters are hard; pages tile the result; what is said to match does |
| Evidence, dashboard | links; none | reads | | | plain queries |
| Auth sessions, users, codes | Redis sessions; user rows; code tree | login, logout, administration | | last administrator, cycles | an administrator remains; the tree is one |
| AI providers, storage clients, parsers | none | calls | external services | | stateless |
| Frontend | view state | | API | | presentation only |

`PROJECT.json` lists the components with their sources and status, and the hazards of this
code at the line where each bites.

## 2. What all models share

*Transactions.* One action is one transaction when everything it decides on is read under
row locks it keeps to its commit. A transaction is split at each point where somebody else
can be seen or can be made to wait: before a lock that may be held, around a call of an
external service, and between a read and the write that relies on it.

*Old reads.* `SessionLocal` is built with `expire_on_commit=False` and `autoflush=False`
(`db/session.py`), and SQLAlchemy does not refresh an object that the session holds unless
the query says `populate_existing`. Where the code re-reads such an object under a lock, the
model keeps the values of the first read. Where it does ask for `populate_existing` (upload
sessions, `documents/repository.py:50`) the model reads again.

*Messages* name a row and are counted, not ordered. A publish can fail with nothing sent, or
fail after Redis has taken the message; both look the same to the caller.

*Crashes.* A process that dies loses its local state and its row locks; PostgreSQL rolls
the open transaction back; S3 objects and messages stay.

*Texts and scores.* A text is a value that the code recognises as a whole: a name, a
period, a phrase that evidences a code. A page is a sequence of lines of such words, a
quotation the set of its words. How a regular expression finds them is given by constants;
what the code does with what it found is modelled. Scores are natural numbers, fractions of
a fixed `One` rounded down.

*Bounds.* Every bound that exists only to keep TLC finite is marked `bound:` where its
constant is declared.

## 3. The modules

| Module | Models | Stands on |
| --- | --- | --- |
| `JobContract` | what a job row promises to the code that enqueues it | |
| `SearchIndexQueue` | the job queue | implements `JobContract` |
| `ProfileIndex` | profile rows and vectors, with the jobs that write them | takes from the queue that a job is worked on by one worker at a time |
| `UploadSessions` | one upload session, its files, documents and objects | |
| `DocumentLifecycle` | the versions of one group: calls, processing, chunk synchronisation | takes from the queue that an open job is executed or fails |
| `AnalysisRuns` | the runs of one person | |
| `ChunkPlanning` | how a source text is cut into prompts | |
| `Extraction` | one execution of a run against an unreliable model service | `ChunkPlanning` |
| `SourceText`, `ProjectSpans` | pages, quotations; which part of a page is about a project | |
| `CoreEvidence`, `ProjectEvidence` | what an answer says, checked against the source | `SourceText`, `ProjectSpans`, `PartialDates` |
| `ChunkMerge` | the merge of the parts, KOSA recall, the second pass | `CoreEvidence`, `ProjectEvidence` |
| `CandidateBuild` | answers become a candidate | `ChunkMerge` |
| `PartialDates` | the three parsers of a partial date | |
| `DiffEngine` | what an analysis proposes | `PartialDates` |
| `QualityGuards` | what is done to a candidate before and during a review | `PartialDates` |
| `ConfirmApply` | a confirmation between its locks and its commit | `DiffEngine` |
| `Review` | one run, its reviewers and the profile | `ConfirmApply`, `QualityGuards` |
| `SearchConditions`, `SearchRanking`, `SearchEvidence` | who meets a request, how people are ranked, how a result is explained | |
| `PeopleSearch` | a user who searches and turns pages while the data changes | the three above |
| `MC...` | the instances TLC checks | the module of that name |
| `...Proofs` | the theorems about a module | the module, `TLAPS` |

A definition whose name has the form of an operation and a plausible bug
(`LockIgnoringHolder`, `PromoteByMove`, `FailUnmarked`, ...), right before the operation it
varies, is that operation with the bug. No specification uses them; they are there to show
that a property can be broken.

### JobContract and SearchIndexQueue

The contract knows each job's outcome and how often its work was committed. A job is
submitted, open, and finished once; only embedding and chunk-sync jobs, whose idempotency key
names a content fingerprint, may be opened again.

| Model | Code |
| --- | --- |
| `status`, `retryCount`, `stale` | columns of `search_index_job`; `stale` is "started_at older than the stuck timeout" |
| `rowLock` | the holder of `SELECT ... FOR UPDATE` or of an uncommitted UPDATE |
| `broker` | `process_search_index_job` messages per row |
| `todo`, `releasing` | the local list of a dispatcher tick (`dispatch_pending_search_index_jobs`) |
| `pc`, `wjob`, `seenRetry` | a worker in `process_job`; the retry count its session loaded |
| `epc`, `ejob` | a transaction that calls `ensure_embedding_job` or `ensure_sync_job` |
| `Reserve`, `Publish`, `PublishFails`, `Release` | reservation with SKIP LOCKED, one message per row, release after a failed publish |
| `Receive`, `Claim`, `Reread`, `Lock` | receipt, claim of a PENDING row, re-read, `lock_processing_job` (SKIP LOCKED) |
| `Complete`, `Reject`, `CancelDisabled`, `Raise`, `MarkFailed` | the ends of the work; a failure is recorded by a second session |
| `Timeout`, `EarlyTimeout`, `RecoverStale` | the row's stuck timeout, also one that passes while a carrier exists; `recover_stale_processing_jobs` |
| `FindFinished`, `ReopenWrite`, `ReopenCommit`, `ReopenAbort` | `ensure_*`: a read without a lock, an UPDATE by primary key, the end of the transaction |

The recovery task looks at most at a few hundred rows per tick; the model has no limit, as
rows are taken by age and no row is passed over for ever.

### ProfileIndex

One person: the text of the confirmed profile, one `REBUILD_PERSON` job per mutation, the
PROFILE rows of the index, and one embedding job per row and content hash. The text stands
for the search document that `document_builder.py` makes of the profile. A rebuild locks
PersonProfile and loads the active rows (`LoadRebuild`), then writes from what it loaded
(`InsertItem`, `UpdateItem`, `Deactivate`); an embedding is split around the provider
(`TakeEmbed`, then `SkipEmbed`, `ApplyEmbed` or `EmbedRaises`). `seenNull` keeps whether the
loaded row had no vector: assigning NULL to a column that was NULL writes nothing.
`BeginEdit`, `CommitEdit` and `EndEdit` are a profile mutation, which takes Person and then
PersonProfile; a rebuild takes PersonProfile and then, through a foreign key, Person;
`AbortRebuild` and `AbortEdit` are PostgreSQL's two ways out. `EndEdit` is a mutation that
finds its expected version taken or is refused by a later validation. `ScanItem` and
`EnsureScanned` are the scanner for missing vectors. The unique index on object and version
is left out: every insertion happens under the profile lock after a search for the row, so
it is never met.

### UploadSessions

| Model | Code |
| --- | --- |
| `session` | status and identity of `upload_session`; an identity is the set of file rows it was read from |
| `temp`, `documents` | committed rows of `upload_temp_file` and of the documents made from them |
| `objects` | keys in S3; a key is the id of the row it belongs to |
| `tx` | the open transaction that holds the session row: its items, the rows and documents it has flushed, the rows it will delete |
| `requests` | what a call does outside its transaction: deletes objects, sends messages, restores the status |
| `workers` | the snapshot an identification works on, and the identity it would put back |
| `BeginUpload`, `Ingest`, `IngestFails`, `CommitUpload` | `upload_files`: per file a search for duplicates, an object, a row |
| `BeginResolve`, `Reuse`, `Promote`, `PromoteFails`, `CommitResolve` | `resolve` in both modes: per file a reuse, or a copy of the object, a document and the deletion of the row |
| `CommitFails`, `LoseCommitReply`, `Cleanup`, `CleanedUp`, `Publish` | rollback and compensation, a commit whose reply is lost, best-effort deletions, `_enqueue_processing` |
| `PatchFile`, `DeleteFile`, `Cancel` | the calls that only write rows |
| `StartIdentify`, `Enqueue`, `EnqueueFails`, `Restore` | `identify` |
| `Claim`, `Persist`, `FailRestore` | `IdentificationService.run` |
| `CrashRequest`, `CrashWorker`, `LoseMessage` | the end of a process or an unhandled exception; Redis |

Ids are fresh (`uuid4`), which `used` records. Whether a READY document also has the type or
group a reuse needs is left open. `incidents` records which kinds of outages have happened,
so that a property can say which of them it excepts. The person a resolution creates is not
part of the module; the versions it adds are those of `DocumentLifecycle`. The status EXPIRED
is never assigned by any code and does not appear.

### DocumentLifecycle

One document group with its rows, the row locks of the versions and of the group, the calls
that delete, restore or add a version, the processing workers, and the searchable copy.

| Model | Code |
| --- | --- |
| `docs` | committed `document` rows: processing status, deleted, is_latest, the text of the pages, the preview key |
| `docLock`, `groupLock` | holders of row locks; `tx` is what an open call has yet to lock or has written |
| `LockDocument`, `ClearRow`, `SelectLatest`, `Promote`, `Commit` | `soft_delete` and `restore`: the row, the UPDATE that clears is_latest row by row, `promote_latest_among_active`, the sync job |
| `LockGroup`, `ClearRow`, `AddVersion`, `IntegrityError` | a resolution that adds a version; `uq_document_group_latest` refuses a second latest row |
| `CancelCall`, `CancelProcessing` | PostgreSQL cancels a transaction that waits in a cycle (`Blockers`) |
| `Claim`, `Relock`, `Extract`, `MarkReady`, `ProcessingRaises`, `MarkFailed` | `process_document`: claim, second lock, pages and preview object, READY, compensation, FAILED in a new transaction |
| `jobs`, `EnsureSyncJob`, `Sync`, `SyncFails`, `Scan` | the jobs by idempotency key, `sync_document_group`, the scanner |
| `UpdateStatus`, `PersistTranscription` | deletion of the person; a page that the VLM read during an analysis |

A job is named by its key. A key that no present state can produce is left out when its job
is finished, and becomes `Outdated` while it is open, since it is still executed. Preview keys
are fresh per version. `Init` starts with one fresh version, a READY and a fresh one, or a
deleted one, so that the interesting races need few steps. That an open job is executed, in
one transaction under the locks of person and group, or fails, is `JobContract`. A commit
whose reply is lost is in `UploadSessions`, not here.

### AnalysisRuns

One person, its profile version and its runs. A caller is an API request or a Celery task.
`CreateManual` and `CreateAuto` decide under the person lock and find blocking runs there;
an automatic creation that is blocked inserts a DEFERRED run and schedules its promotion.
`PromotePeek`/`Promote` and `RetryPeek`/`Retry` read the run, wait for the person lock and
decide on the status they read first (see section 2). `Publish` and `PublishFails` send the
execution or promotion message after the commit; `FailUnpublished` and `FailUnscheduled`
record a failed one. `Claim`, `Persist` and `FailRun` are the worker, which holds no lock
between them. `Confirm` compares the run's base version with the profile under the locks and
bumps it; `Sweep` is the separate transaction that cancels the other reviews afterwards.
`DeletePerson` cancels what is active; `EditProfile` stands for every other mutation that
bumps the version.

### ChunkPlanning and Extraction

A block of prompt text is the set of source units in it, a unit a piece of 128 characters of
a page. `ChunkPlanning` has the planner and its packing (`plan_core_chunks`,
`plan_project_chunks`), the splits of a block by document, page and half page, and the
estimate of tokens. `Extraction` is one execution between the claim and the stored result.

| Model | Code |
| --- | --- |
| `BuildDocument`, `LoseDocument` | `source_builder.py`: pages, VLM transcription within the page budget, a document that fails and is left out |
| `StartExtraction`, `AskPlain` | the extraction mode of the run; a single prompt |
| `CountRoot`, `AskWhole` | token count and first prompt of a staged phase, its retry with the one recovery call |
| `EnterSplit`, `MeasureLeaf`, `AskLeaf`, `AskLeafAgain`, `Shrink`, `AcceptLeaf` | the adaptive split: a work list of chunks with depth limit and call cap |
| `SecondPassWanted`, `AskSecond` | the second reading of the projects |
| `Drift` | the route changes, and with it the context window, at any moment |

An answer is an error, cut off, or has 0, 1 or "2 and more" items. `calls`, `recovery` and
`splits` are the three budgets, as the code has them.

### Candidates: SourceText to CandidateBuild

What the compact protocol (prompt version 25) makes of the answers. `SourceText` has pages
and quotations: when a quotation is found on its page, what is on a line of its own, which
phrases evidence a code. `ProjectSpans` finds the rows a project owns on a page and gives
none when more than one part could be meant. `CoreEvidence` and `ProjectEvidence` normalise
an answer: they canonicalise codes, drop or repair roles by what the quotations say, and
filter quotations. `ChunkMerge` merges parts: rows of work by key with both ends where the
chunks disagree, projects by anchors, a KOSA certificate's rows with the profile's project
that sums them up. `CandidateBuild` puts them in the order of `_extract_staged_compact`:
`ReadCore` and `ReadProjects` take an answer each, `MergeCore` and `MergeProjectParts` merge
the parts and recall table rows, `ReadAgain` is the second pass, and `LendEvidence` gives the
evidence of projects to jobs and expertise.

The pure part of this component is large (6,600 lines); the answers and the sources of the
instance are chosen so that each rule fires, and all combinations of them are explored.

### Review: PartialDates to Review

| Model | Code |
| --- | --- |
| `PartialDates` | `parse_date_parts` of the diff engine, the matcher's reading, `_parse_required_date` of the confirmation |
| `BuildDiffs` | `diff_engine.build_diffs`: NEW, SAME, UPDATE, CONFLICT, REVIEW per item or field, matches by identity and period |
| `Guarded` | `apply_candidate_quality_guards`: fields that leaked, duplicates that the source rows prove, end conflicts |
| `Refusal`, `ApplyAll`, `ConfirmResult` | the checks of a confirmation and its application, diff by diff, with the relations that are not flushed yet |
| `Analyse`, `CancelReview` | a run is claimed, extracted and guarded (or not), and its diffs stored; a review is given up |
| `ReviewOne`, `BulkReview`, `GuardRefresh`, `RecoverRoots`, `Confirm` | the decisions, one and many; refresh and recovery, which keep what is decided; the confirmation |
| `CreateByHand` ... `ReplaceExpertise`, `DeactivateCode` | edits by hand and an administrator who retires a code |

All operations take their locks in the order run, document entities, person, profile and
check the profile version, so each is one action of `Review`.

### Search: SearchConditions to PeopleSearch

`SearchConditions` has the request, the hard filters (SQL of `query_repository.py`), the
preferred conditions and the suggestions for an empty result. `SearchRanking` has the keyword
and vector channels with their candidate limits, reciprocal rank fusion and policy `rank-v2`.
`SearchEvidence` has the list of conditions, the list of evidence specifications, and the
links. A text is found in a stored text by SQL (`Ilike`) or by Python (`Substring`), two constant
relations: the hard filters use the first, the rows for evidence and the share of keywords in a
project's score the second. `PeopleSearch` executes the statements of `search_people` one after the other
(`CheckCodes`, `ListEligible`, `ReadKeyword`, `Embed`, `ReadVector`, `LoadPeople`,
`ReadPreferred`, `RankPeople`, `ReadMatches`, `Respond`) and then `NextPage`, while others
commit between any two of them (`PersonDeleted`, `ProfileEdited`, `ProjectDeleted`,
`DocumentDeleted`, `Reindexed`). `everMet` keeps who met the conditions at any of these times.

## 4. Runs and bounds

All passing runs explore their state space completely.

| Run | Instance | States | Shows |
| --- | --- | --- | --- |
| `index_queue` | 2 rows (rebuild, embedding), 2 workers, 2 dispatchers, 1 fault, 1 transaction that reopens the embedding row up to 2 times | 57,026 | `OneWorkerPerJob`, `WorkedRowIsProcessing`, `RebuildCommitsOnce`; the queue implements `JobContract`, and finishes every row (`FulfilsContract`, `LocksAreFreed`) |
| `profile_index` | 2 texts, 2 workers, 3 mutations, 2 rows, 1 retry, 1 fault | 155,946 | `OneActiveItem`, `LatestRebuildDecides`, `IndexCatchesUp`, `ItemsGetEmbedded` |
| `profile_index_vector` | the same | | `EmbeddingMatchesText` is violated |
| `uploads` | 2 files, 2 documents, 2 contents, 2 calls, 1 worker, 1 message, 1 kind of outage | 2,120,813 | `NoDanglingRows`, `PromotedOnce`, `IdentityIsCurrent`, `IdentifyingIsCarried`, `ClosedIsFinal` |
| `documents` | 3 versions, one of them its own preview, 2 calls, 1 worker, 2 requests, 1 fault | 533,062 | `LatestIsHighest`, `PreviewsExist`, `SearchCatchesUp`, `DocumentsSettle`, no deadlock |
| `analysis` | 2 runs, 2 callers, 1 worker, 2 attempts, 3 versions, 1 broker error, 1 fault | 160,423 | `OneExecutableRun`, `DeletedPersonIsQuiet`, `NoLostConfirm`, `CancelledRunsYieldNothing`, `ActiveRunsSettle` |
| `analysis_retry` | 1 run, 2 callers | | `OnlyFailedRunsAreRetried` is violated |
| `extraction` | 10 sources in 3 modes, windows of 4, 8 and 16 units, split depth 2, the code's call caps scaled down | 208,691 | `WholeSourceRead`, `NeverOutOfCalls`, `ExtractionSettles` |
| `candidates` | 2 sources (with and without a KOSA table), 3 CORE and 6 PROJECTS answers, 1 or 2 chunks | 4,685 | `ClaimsAreQuoted`, `MergeIgnoresOrder`, `NothingIsLost` |
| `review` | 7 candidates, one profile, each decision and correction, selections of up to 2, 1 run, 1 edit by others | 228,736 | `OnlyReviewedChanges`, `DecisionsSurvive`, `PreviewedDatesConfirm`, `LinksPointAtRows`, `NothingNewTwice`, `GuardsSettle` |
| `search` | 4 people, 6 projects, 8 index rows, 12 requests with up to 2 pages, 2 changes | 280,106 | `FiltersAreHard`, `PagesTileTheResult`, `MatchesAreJustified`, `RelatedWorkNeverHurts` |
| `search_relaxations` | 3 requests nobody meets | | `SuggestionsRelax` is violated |

Why the bounds are enough. The hazards of the concurrent modules are races of two: two holders
of one message, a worker and the recovery, an old read and one concurrent change, a worker and
one call. Two workers, callers or rows give each of them (but for two transactions that reopen
one row at a time, which is left to the proofs: with two of them and two reopenings the run takes
too long), and a fault lets one outage meet the
recovery (in `uploads` an outage of one kind may happen any number of times). Three mutations
let a text change and come back; three versions let a deletion uncover a version between two
others. A deadlock of `documents` has at most one worker and two calls. Where the proofs hold
(section 6) the safety properties do not depend on the bounds at all.

The sequential modules are explored over all combinations of chosen data. For `extraction` the
sources have every mode, a page that must be cut twice, several documents, scanned pages, a
table and a dense page, and each answer can be anything at any time; the caps are small enough
to be reached. In `candidates` each rule (quotation repaired, role cleared or repaired, row
paired, summed up, recalled, end in conflict, evidence lent) is met by some combination of
answers. In `review` each kind of diff (NEW, SAME, UPDATE, CONFLICT, REVIEW, with and without
code) and each guard is met by a candidate. In `search` the channels look at three people at
least and at four at most, so that candidates are cut, and each condition is asked for; one of
the texts asked for finds two projects by a wildcard only, another is found in Python only.

`CHECK_DEADLOCK FALSE` is set where the systems really stop: all rows finished, all bounds used
up. `documents` checks deadlock: there a state without steps that is not at rest would be a
transaction nobody can end, and the properties that say "at rest" rely on it. Symmetry is used
in `uploads` only, which has no liveness.

Faults are bounded in number, never in place: any worker, dispatcher or call may crash at any
of its points. In the liveness properties the bound says that crashes are finite.

## 5. Fairness

- *Queue.* Beat sends the dispatch and recovery tasks for ever, so `Reserve` and
  `RecoverStale` are weakly fair; a tick publishes what it reserved. A worker that has
  received a message goes on (weak fairness), and where it waits for a row lock that others
  keep taking and giving back, PostgreSQL's lock queue lets it through (strong fairness of
  `Claim`, `MarkFailed`, `Release`, `ReopenWrite`). A stuck timeout passes (`Timeout`).
- *Analysis.* Every request that was started finishes its steps; messages are delivered
  (strong fairness of `Claim` and `PromotePeek`, since a worker or caller may be busy at
  times). There is no recovery in the code for a crashed worker or a lost message: a run then
  stays PROCESSING, QUEUED or DEFERRED. `ActiveRunsSettle` therefore excepts the runs of a
  history with a crash or a loss, but not those with publishes that fail.
- *Extraction.* Weak fairness of the worker's own steps (`Step`); each call of a model service
  returns or times out. The drift of the window is not fair, and may happen at any time.
- *Profile index.* Jobs are taken because the queue delivers them (`FulfilsContract`); weak
  fairness of each step of a worker, of the scanner and of the second statement of a mutation.
  Strong fairness for the write of a rebuild says that mutations do not keep the Person row
  from it for ever, and for the scanner that it does not come too early every time.
- *Documents.* No fairness: `SearchCatchesUp` and `DocumentsSettle` are invariants of the
  states at rest, in which no transaction is open, no message waits, no job is open and the
  scanner finds nothing. TLC's deadlock check shows that something can go on in every other
  state; requests and faults are bounded.
- *Uploads.* No liveness is claimed: a session left IDENTIFYING by a crash has no way back but
  `cancel_session`. `IdentifyingIsCarried` says, as an invariant, that nothing but a crash or
  a loss leads there.
- *Candidates, review, search* end with their steps or wait for a person; no liveness.

## 6. Proofs

Each theorem holds for every value of the constants allowed by the named assumptions of its
module and of those it extends (`QueueAssumption`, `RunsAssumption`, `IndexAssumption`,
`UploadAssumption`, `DocumentAssumption`, `PlanningAssumption`, `ExtractionAssumption`,
`NullAssumption`, `ReviewAssumption`, `CatalogueAssumption`, `RankingAssumption`,
`SearchAssumption`, `SourceTextAssumption`, `ProjectSpansAssumption`, `CandidateAssumption`,
`CatalogAssumption`, `TextsAssumption`). They say that bounds are naturals, that special values differ from
ordinary ones, and that what the constants range over has the type of the rows it stands for:
for the candidate, that sources are lists of lines and that answers have the fields of their
schema, with nothing said of the values in them; for the review, that the profile at the start, the
candidates and what is typed by hand are rows of the known entities with their fields, and that a
date in figures has one to three parts; and that the dictionaries are well formed (a
phrase has words, the catalog gives the codes of a dictionary their type, the order of the codes
has every code). Nothing is assumed of what an operator computes. TLC evaluates the assumptions
in the runs.

| Module | Theorems | The invariant and why it is needed |
| --- | --- | --- |
| `SearchIndexQueueProofs` | `TypeCorrect`, `RowsAreWorkedOnByTheirHolder`, `WorkedRowsStay`, `RebuildsCommitOnce`, `Implementation` | A worker inside the work transaction holds the row's lock, and the row is PROCESSING; an ensurer that has written a row holds it, and only ensures UPSERT rows. Two workers on one row would both be the holder of one lock. Each step then is a step of `JobContract` or leaves it as it is. |
| `AnalysisRunsProofs` | `TypeCorrect`, `OneRunAtATime`, `DeletionIsFinal`, `ConfirmsAreNotLost`, `CancellationHolds` | The properties are nearly inductive by themselves: a retry or promotion decides on an old status, but looks for blocking runs and at the person under the lock. What has to be added is that a caller that is under way is about some run, and that no revision is from the future of the profile (`RevisionsAreOld`), so that the next one overwrites none. `CancellationHolds` is an action property of the same invariant. |
| `ProfileIndexProofs` | `TypeCorrect`, `OneRowPerProfile`, `LatestChangeIsIndexed` | While a worker holds the profile lock, the rows it has seen are the active rows and its text is the profile's (`Views`); if the person's status has changed since, a newer rebuild is pending behind the lock. A job that is worked on is PROCESSING and in one hand (`JobsInHand`). |
| `UploadSessionsProofs` | `TypeCorrect`, `NoRowDangles`, `PromotedAtMostOnce`, `IdentityStaysCurrent`, `IdentificationIsCarried`, `ClosedStaysClosed` | See below. |
| `DocumentLifecycleProofs` | `PreviewsAreKept`, `DocumentsDoSettle`, `SearchDoesCatchUp`, `LatestStaysHighest` | See below. |
| `ExtractionProofs` | `CallsSuffice`, `NothingIsSkipped`, `EveryClaimIsQuoted`, `NothingGetsLost`, `OrderIsIgnored` | `Budget`: the calls made and the recovery call left are together at most one in CORE and two in PROJECTS, one more once the phase has gone over to a split. `Reading`: what has been read, the chunk at hand and the work list are together the whole prompt. `CandidateInv`: see below. |
| `ReviewProofs` | `DecisionsAreKept`, `LinksNeverDangle`, `PreviewIsHonest`, `ConfirmationChangesWhatWasReviewed`, `AcceptedIsNotProposedAgain` | See below; `ReviewInvariant` is the invariant. |
| `PeopleSearchProofs` | `TypeCorrect`, `OnlyEligibleFound`, `PagesShowEverybodyOnce`, `MatchesHaveRows`, `MoreWorkNeverHurts` | See below; `SearchInvariant`, `PagesInvariant` and `ExplainInvariant` are the invariants. |

*Uploads.* `Holder`: the call inside its transaction is the one that holds the row lock, the
session is open meanwhile, and only a call that cleans up has objects to delete. `Workspace`
and `Allocated`: what an open transaction has flushed is apart from what is committed, and no
id is used twice. `Backed`: what a committed row or the open transaction names is in S3 and on
nobody's list of objects to delete; without the second half a late clean-up could take an
object that a row still needs. `Identified`: in an open session nobody carries an
identification; while the session is IDENTIFYING at most one call, message or worker does, and
the files, the identity and the status it remembers are those of the session. An ambiguous
publish makes two carriers, which is how section 7 breaks it. `ClosedStaysClosed` follows from
`Holder` and the status checks under the lock.

*Documents.* Three invariants on top of the one of `PreviewsAreKept` (a worker that extracts
holds the row, so the preview it has read is the one the row names and the object it has made is
another). `Settling`: unless a fault happened or the version was cut off, an UPLOADED version has
a message and a PROCESSING one a worker; a version that was deleted before it was processed is cut
off. `Searchable`: a finished job of the current text was finished for the text the version has
(`JobsFit`), so that its chunks are those of that text, and a deleted person who can still be found
has an open job. `Flags` is about the calls, each of which breaks `LatestIsHighest` for a while: a
call that deletes or restores holds the rows it has cleared, and when it picks it has none
left to clear (`Whole`), so that its pick is the highest or the unique index on the latest version
refuses it (`Picked`); a call that adds a version holds the group instead (`Grouped`).

*Extraction.* `NothingIsSkipped` rests on `PackCovers`, `RecallCovers` and the lemmas on the
splits: every plan and every split of a finite block of source units covers it. The planners are
recursive functions over lists of any length. The library's induction theorems cannot be used,
but a least-counterexample argument can (`Least`, from well-foundedness of the naturals, and
`UpTo`): it gives that a recursive function exists (`RecursionExists`), that flattening keeps
what the lists hold (`FlattenHolds`), and each invariant of a loop.

*Candidates.* `CandidateInv` has one part for each thing that is built. `PartsRead`: every
answer that was read has the shape of a part, and its rows are the cleaned ones, so each guarded
code of a project has a quotation that stands on its page and says the code (`PartClaim`).
`CoreTold`: the jobs of the merged profile are quoted. `ProjectsTold`: each project of the
candidate is quoted but for `ExemptRels` (relations that some part quotes without a page, which
is the exception the property states), and each project of a part stands behind one of the
candidate (`Preserves`: its solid quotations, its relations and their quotations). `Preserves` is
transitive, so it is shown for one step of each loop of the merge, the recall of table rows, the
second pass and the lending of evidence, and carried through the loops by a least counterexample.
`CoreKeeps` says the same of codes and of the ends of an employment, both of which are named
where two parts disagree.

`OrderIsIgnored` compares two evaluations of the merge. `Permuted` rows have a bijection between
their places that keeps the rows (`Matching`, `Turned`); the order of chunks and the order in them
permute the flattened list (`FlattenPermuted`, `ReversePermuted`). The merge pairs, claims and groups
*places*, and a set of places follows the bijection (`Follow`): so do the identity groups, the pairs of
complementary rows, the claims of an owner and the segments of a chain (`IdentityPermuted`,
`PairsMatch`, `SegmentsFollow`, `OwnersMatch`). A group is summed up to the same row in either
order, because relations and references are united as sets and written in the order of the codes.
`MergePermuted` puts the stages together. That a row may match several others does not matter:
no stage takes the first of several, it joins only where the choice is unique.

*Review.* `Shaped`: profile and candidate keep their form. `Diffs`: the diffs are well formed, and
fresh while the profile still has the version they were made for: the row they are about is there
and has the value the diff shows, and what the diff says of a whole item is what the diff engine
knew of it (`Known`: a new job is not there, a career row the diff is about is like the item, no row
is like a new one). A diff of a whole item has the value of the candidate's item that it names
(`From`). That follows for new diffs from what the diff engine may propose
(`BuildDiffsProposed`) and from the guards keeping a candidate whole (`GuardedIsCandidate`).
`Links`: every evidence link points at a row that exists. `PreviewIsHonest` compares two readings of
one date: a value the preview can read the application can read too, but for the end of a project that
goes on (`DateExcuse`, `NeverPreviewedTogether`). Then it follows each date to the row: whatever
the order, each field of a row has its value from one of the sources (`DateSources`) that the
decisions so far have given it (`Sourced`), so a row whose dates contradict each other has them from
two sources or from one that the preview does not look at (`OrderExcuse`, `OrderIsExcused`). That
the rows there before pass the checks by themselves (`RowsChecked`) is kept by each diff applied.
A confirmation applies diffs one by one to
rows that the ones before have changed, in an order the code leaves open: `Moves` says what one
application may change, `Sound` what the rest still needs, and `ApplyAllSound` composes them for
any order. `AcceptedIsNotProposedAgain` needs from it what an accepted item has left behind
(`Done`: the code is there, a row was created with the item's values). The row written has another
form than the item, since the confirm step stores first and last days where the item has months or
years; `BoundedCompatible` shows that such a day is compatible with the date it was read from, so
that the row is like the item (`AcceptedIsSimilar`, `StillSimilar` for a row that existed), and
`BuildDiffsProposed`, applied to the new profile, says that only items nothing is like are NEW.

*Search.* `SearchInv`: everybody who was read during a page is in `everMet`; changes only add to
it. `PagesInv`: while no channel was cut and nothing changed, what has been read is what a
listing of everybody is made of (`ReadsAll`), the listing does not depend on the page
(`SameListing`), and page n is its n-th part (`PagesShow`). `ExplainInv`: the codes are known,
who is listed is eligible, and the conditions were computed from the same rows that evidence is
sought in. `ListsPaired` carries `MatchesHaveRows`: the list of conditions and the list of
evidence specifications have equal lengths and agree place by place (`Paired`), part by part; which
texts ILIKE and Python find are two relations of which nothing is assumed, and a row the database
finds (`HasRows`) is sought wherever the second finds it too (`RowsSought`); for
jobs this needs that a known code is among those below it, whatever the tree of codes
(`BelowItself`). `InOrder` is a list by rank: `Precedes` is a strict total order, so each member
has a rank of its own (`RanksDiffer`, `RankExists`), and every score is shown to be an integer,
since keys that cannot be compared have no order.

*Scores.* `RatiosInv`: the share of preferred conditions that is read, ranked and shown is a
fraction of `One`, like the part of the channels (`RrfFraction`); so everything but the projects is
a mean of fractions whose weights sum up to at most 75 (`RetrievalHolds`). A first related project
makes the part for recency active; it has a relevance of at least 0.066666 and a recency of at
least 0.55, and `RoomForProjects` shows that the mean does not fall. A further one can only raise
the best match, the number and the months. Recency falls at most from the 0.60 of undated projects
to 0.55, and a second or third project raises the relevance by more than that costs; from
the fourth on the number no longer counts, which is the exception the property states (`Raised`,
`ScoreGrows`, `MoreWork`). The bounds of the sums are carried through the rounded quotients by
`QuotientAtLeast` and `QuotientAtMost`.

The type invariants of the queue, the analysis runs, the profile index, the upload sessions and
the search are proved and therefore no properties of the runs; `Shaped` and the rows of
`DocumentLifecycleProofs` are those of `Review` and `DocumentLifecycle`.

Only model-checked: the liveness properties `FulfilsContract`, `LocksAreFreed`,
`ActiveRunsSettle`, `IndexCatchesUp`, `ItemsGetEmbedded`, `ExtractionSettles` (fairness and
ENABLED are out of the prover's reach here); and the action property `GuardsSettle`, which is not
true for all constants. The guards consult tables of names and phrases that are constants here, and
the rows a first pass has merged or moved decide what a second one takes for a customer or for
proved by a source row; the run shows that nothing moves on with the names and phrases it has.
Every invariant of a passing run and every other action property is stated by a theorem.

## 7. Where the code and its documents disagree

Each is a run that TLC finds violated; `PROJECT.json` has the full story and the quotations.

1. `analysis_retry` (`modules/analysis/service.py:3599`). A retry re-reads the run under a
   lock without refreshing it, and queues a run that was cancelled while it waited.
2. `profile_index_vector` (`modules/search/repository.py:348`). A rebuild that loaded a row
   without vector changes its text under a vector that arrived in between; the vector of the
   old text stays, and nothing looks for it.
3. `search_relaxations` (`modules/search/query_service.py:145`). A search that finds nobody
   suggests to drop one of several alternatives, which finds fewer people, not more.

### Exceptions that the properties state

- `NoDanglingRows`: a commit whose reply is lost lets the compensation delete objects of
  committed rows. `IdentifyingIsCarried`: crashes or losses leave a session IDENTIFYING.
- `SearchCatchesUp`: a sync job that is executed while another version is effective leaves its
  key COMPLETED; when its version is effective again and has no chunks, the scanner takes a
  group without items for complete (`document_chunk_sync.py:154-162`, `692-711`). And a failed
  job of a deleted person is not repeated, since the scanner looks at active persons only.
- `DocumentsSettle`: a version that was deleted before it was processed, and restored later,
  stays UPLOADED or PROCESSING; nothing sends its message again.
- `PreviewedDatesConfirm`: the docstring of the preview says "Preview exactly the same date rules
  used at final Confirm" (`analysis/service.py:3962`). Three things pass it that the confirmation
  refuses: the end of a project that goes on ("present", which a new project or an update applies
  through `_parse_required_date`, `confirm.py:1631-1633`); a date, or an order of dates, that was
  typed as the correction of a merge, which the preview does not read; and a start and an end
  that reach one existing row from two places, two decisions or a decision and the row itself.
  Everything else that is refused for a date was previewed.
- `MatchesAreJustified`: the filter looks for a certificate or a keyword with ILIKE, where `%` and
  `_` in the text asked for are wildcards (`query_repository.py:284-319`), the explanation with
  `in` after casefold (`result_enrichment.py:651-687`). A row that only the filter finds is no
  target of evidence, and a person found by such rows alone is shown with a MATCH and no evidence.
- `NothingNewTwice`: dates that the guards wrote with dots are not parsed by the diff engine,
  which proposes the row as NEW again; and a career row that two decisions were about may have
  got values from the second that the item of the first is not like any more.
- `GuardsSettle`: the enrichment of a school stops at the first source row that adds anything
  (`candidate_quality_guards.py:1586-1587`), so a second refresh can add more from the next
  row. The test of the refresh says "Idempotent second apply — no further change"
  (`tests/test_analysis_guard_refresh.py:569`) for its candidate; for others it is not so.
- `ClaimsAreQuoted`: a quotation without a page passes the quote filter, and the union of
  references drops it on a merge (`compact_v8.py:5597`).
- `RelatedWorkNeverHurts`: three related projects without dates get the benefit of the doubt
  that a fourth, old one takes away (`project_ranking.py`).

### Noticed while modelling, outside the properties

- Search index: a rebuild and a mutation take Person and PersonProfile in opposite orders; if
  the rebuild is the deadlock victim and the mutation is then refused, the FAILED rebuild is
  never repeated and a confirmed change is missing (`search/service.py:206`).
- Uploads: the third copy of a content makes the search for "the" duplicate raise, and the
  request is rolled back (`documents/repository.py:104`). After an ambiguous publish, a worker
  of an earlier identification stores the identity of files that have changed since
  (`upload_identification/service.py:201`).
- Documents: an upload takes the group and then the rows, deletion, restoration and processing
  a row and then the group (`documents/service.py:902-918` and `1070-1089`,
  `document_processing/service.py:151`): they deadlock, and PostgreSQL ends one of them.
- Extraction: a structural split does not cut a source of one page, so that the same prompt is
  sent once more, contrary to the comment at `analysis/service.py:2771-2772`; the VLM page
  budget can be overrun by a document and a document that fails is left out without a trace in
  the result (`source_builder.py:447-480`); packing that fills the last CORE slot leaves no call
  for the parts of a chunk that must shrink, and the execution fails.
- Candidates: two of the role repairs can leave two relations of one code in a project; the
  span a project owns is found by the names of the same answer's projects only; identical
  projects of a single answer are not merged.
- Review: accepting a SAME project makes a second project; the same relation code twice in one
  project violates its unique index and rolls the confirmation back; evidence links of an
  overwritten value stay; an employment that ends "present" is proposed against a null end each
  time; a MERGED decision cannot be withdrawn.
- Search: after the channels are merged, people are checked for being active but not for the
  conditions again, as the docs ask (`FiltersAreHard` holds since the channels filter); the
  average of the reciprocal ranks lets somebody found by one channel pass somebody found by
  both; once candidates are cut, the next page ranks another number of them and can repeat or
  skip people; the evidence of a project deleted meanwhile is still shown; dropping the
  keyword while a semantic query remains narrows the search; suggestions are made without the
  count query `src/docs/15_backend_api.md:1098` mentions.
- Administration: the check that an administrator remains and the check that a code's new
  parent is not its descendant read without a lock (`users/service.py:199-211`,
  `codes/service.py`, `_creates_cycle`): two concurrent requests can pass both.

## 8. What is not modelled

- *Parsers, converters, OCR and the readers of formats*: bytes to pages, sequential, without
  shared state. `DocumentLifecycle` sees the text they find or their exception.
- *Regular expressions and dictionaries of phrases*: what they recognise is given as constants
  of `CandidateBuild`, `QualityGuards` and `DiffEngine`.
- *Extraction*: the banding of wide tables, the overhead of headers, and the drift of token
  counts other than by the window; a plan is counted with one window.
- *Candidates*: degrees and dates of education rows (the major stands for them), issuers of
  certificates (the name stands for both, as both are in their key), raw values of
  project relations, responsibilities and summaries, the confidence of anything but jobs, days
  of project dates, the answer schemas before version 25, and diagnostic counters.
- *Review*: the strict pruning of sections by the v25 policy
  (`candidate_quality_guards.py:2043-2281`), certifications dated "-", and decided values of
  decisions that do not use them.
- *Search*: the approximate vector index (off in production settings), labels and display caps,
  and the interpretation of free text by an LLM. Exact, full-text and trigram similarity are one
  number; the statements that enrich a result are one step.
- *Documents*: replies of a commit that are lost (see `UploadSessions`), several workers of the
  chunk synchronisation at a time (the group's row lock admits one).
- *Profile index*: embedding models and versions (one is assumed, enabled); PROJECT rows (they
  go the way of PROFILE rows under keys of their own); audit rows; the limit of rows per tick.
- *Auth sessions, users*: Redis sessions with a TTL and single-row updates; the two unlocked
  checks are listed above and among the hazards.
- *Dashboard, evidence lists, providers, storage clients, prompts, frontend, migrations and
  scripts*: reads, stateless clients, presentation, static definitions.

## 9. Plan

Done, in this order: `JobContract`, `SearchIndexQueue`, `AnalysisRuns`, `ProfileIndex`,
`UploadSessions`; `Review` with its four parts, `DocumentLifecycle`, `Extraction`, the candidate
modules, the search modules; each with its runs, and proofs in eight modules.

What would come next:

1. Which assumption on the tables of names and phrases makes `GuardsSettle` a theorem; a merge
   of employments would have to keep what proves its rows.
2. A composition of `ProfileIndex` and of the chunk synchronisation with `JobContract` in place
   of the sentences that stand for it.
3. The administration of users and codes against the two unlocked checks.
4. The strict pruning of the v25 policy in `QualityGuards`.

## Running

    tlc -workers 2 -config MCUploadSessions.cfg MCUploadSessions
    tlapm UploadSessionsProofs.tla
