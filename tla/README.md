# Context Vault: TLA+ models and proofs

Models of the document-RAG platform's control plane, the TLC runs that check
them on small instances, and theorems about them checked by TLAPS.
`B/` below is `src/document-rag-platform/services/backend/src/`.

## The system

| Component | State it keeps | Operations | Hard behaviour | Correct when |
|---|---|---|---|---|
| Source acceptance and outbox dispatcher (`B/application/ingestion_orchestrator.py`) | `documents`, `document_versions`, `ingestion_jobs`, `outbox_events`, staging objects | `accept_source`, `dispatch_one`, `dispatch_pending` | crash or expired claim around the publish, duplicates, overlapping requests with one key | no accepted job is lost, duplicates are harmless, one job per idempotency key |
| Ingestion worker (`B/workers/ingestion_tasks.py`) | attempts, receipts, events, chunks, artifacts, version, active pointer | `_claim_job`, `_advance_stage`, the seven stages, promotion, activation, exception handler, Celery autoretry | lease expiry under a live worker, kill, transient failure, redelivery, retry budget | one completion, no half-written index activated, ended jobs frozen, every job ends |
| Delivery (`B/workers/celery_app.py`, Redis) | messages, retry counts | late acknowledgement, requeue on worker loss, beat tasks | redelivery against a lease that is still live | a job that has not ended is carried by somebody |
| Lease reconciler (`B/application/ingestion_maintenance.py`) | attempts, job | `reconcile_stale_leases` | reads without a lock, commits later | an ended job is not taken back, a running job has a lease |
| Cancellation (`B/api/v1/ingestion_jobs.py`) | job, attempt, version, document | `cancel_ingestion_job` | reads without a lock, commits later; a running job must notice | a cancelled job is not claimed again, a cancelled running job stops |
| Status table and activation (`B/domain/ingestion_state.py`, `B/domain/version_activation.py`) | job status, active version | `transition_job`, `activate_document_version` | compare-and-swap with a snapshot taken minutes earlier | only a ready version is active, the latest activation wins once |
| Storage maintenance (same file as the reconciler, `B/infrastructure/storage`) | storage objects, registry rows, citations | `sweep_orphan_staging`, `run_storage_gc` | no common transaction of storage and database, citations appearing during collection | nothing served or cited is deleted, abandoned objects go |
| Document, project, repository, session API (`B/api/v1`, `B/infrastructure/repositories`) | documents, retention | `delete_document`, scans, refreshes, listings | deletion against a running activation, a source edited while it is scanned | a version mirrors its source |
| Work graph (`B/application/work_graph.py`, `B/domain/work_graph.py`) | work items, claims with fencing tokens, attempts, approvals, receipts | create, mark ready, prepare, claim, heartbeat, grant approval, apply, verify, close, reconcile, rollback | effects outside the database, lost fence, uncertain effect, rollback | an effect is applied under its fence and approval, closing needs evidence |
| Knowledge registry (`B/application/context_vault_registry.py`) and ledger (`B/context_vault/knowledge.py`) | manifests, revisions, heads, conflicts, routes, bound contexts | propose, review, approve, resolve, revoke, expire, bind | approval on a stale copy, unlocked review, three people | one head, three people behind it, a bound context stays |
| Context compiler and handoff (`B/context_vault`) | contexts, projections, handoffs, intents | compile, project, hand off, prepare an effect | supersession, revisions and budget together; a claim taken over | the context is what was called for; intents come in the order of claims |
| Retrieval and answers (`B/application/retrieval_service.py`, `answer_service.py`, `B/infrastructure/retrieval`) | messages, citations, retrieval runs | dense, lexical and identifier search, fusion, rerank, context, no-answer decision, generation, repair, persistence | every statement has its own snapshot; malformed replies | one version per document in a prompt; every claim cited |
| Parsers and chunkers (`B/infrastructure/parsers`, `chunkers`) | none | content transformations | budgets, overlap, fences, quoting | no line lost, right locators, budgets kept |
| Rate limiter, authentication, validation (`B/infrastructure/rate_limiter.py`, `security`) | request windows | `allow` | window boundary, two implementations | at most `limit` hits in a window |
| Backup and restore (`scripts/backup_scheduler.py`, `backup_restore.py`) | lock, slots, receipts, backup directories, drill targets | scheduled run, tool, restore drill | killed scheduler with a tool that goes on, live changes while copying | a claimed slot is a backup; a drill's verdict is true |
| Private benchmark (`scripts/run_local_production_benchmark.py`, `local_*`, `capture_local_provider_boundary.py`) | ledger of model requests, sealed capture, golden labels | two phases of cases, capture, seal, score | replies that miss the time limit, exhausted budgets | a report rests on what ran |
| Evaluation gate (`scripts/run_eval.py`) | preflight, approval, candidate, receipt | preflight, approval check, run, comparison, receipt check | inputs edited between two reads | a candidate is the approved run; a receipt binds one run |
| Release gates (`scripts/verifier_core.py`, `a11_release_gate.py`) | evidence files, receipts | verifiers, aggregate, image subject, image evidence, candidate | checkout, tag and files changing between looks | what passes is one commit and one image |
| Observability, web interface, remaining scripts | metrics; view state | - | - | - |

How the ingestion parts interact: `accept_source` commits document, version,
job and outbox event together, then tries to publish; the beat task publishes
what is left. A message makes a worker run `run_ingestion_job`, which claims the
job with a conditional UPDATE, renews its lease at every stage, writes the chunk
rows of the version and, in one transaction, activates the version and completes
the job. A failure is written by the exception handler in a transaction of its
own, and Celery retries the transient ones. The reconciler (beat) and the
cancellation endpoint (API) write the same rows as the workers and share no lock
with them: conflicts are caught by unique keys and triggers at commit, or not at
all.

Acceptance, worker, deletion, sweeper and collector also share the object
storage, which takes part in no transaction: between a put or a deletion and the
commit that records it, anybody may run and the process may die. An answer reads
the active versions and writes citations, which the collector counts. The
knowledge registry shares the database with the work graph (it reads claims when
a context is bound). The remaining components share no state that their
correctness depends on.

## Modules

| Module | What it is |
|---|---|
| `JobLifecycle` | the abstract life of a job, its version and the document's active version pointer, as readers of the database see it |
| `IngestionJob` | the control plane around one job: dispatchers, broker, worker processes, leases, reconciler, cancellation, the version it builds and a competing activation; implements `JobLifecycle` |
| `SourceVault` | what readers and followers of citations are promised: a version is served only when whole, and stays whole while it is served or cited |
| `SourceStorage` | the bytes of several versions and documents: acceptance, promotion, indexing, activation, deletion, answers, sweeper and collector over storage and database; implements `SourceVault` |
| `EffectLedger` | the abstract work item: one external effect, intended before it is made, made and undone at most once, completed only if it was made |
| `WorkGraph` | one work item with its claims, attempts, approvals and receipts, the clients and the reconciler that work on it, and the file an apply creates; implements `EffectLedger` |
| `KnowledgeHead` | the abstract head of a knowledge item: moved by compare-and-swap, nothing returns |
| `KnowledgeRegistry` | the database registry for one project and one item; implements `KnowledgeHead` |
| `KnowledgeLedger` | the in-memory ledger and its threads |
| `ContextCompiler` | contexts, projections, handoffs and effect intents while claims and checkout move |
| `AnswerTurn` | one chat request from its searches to its stored answer, while documents change |
| `RepositoryScan` | scans and refreshes of directories, repositories and archives, while the source is edited |
| `Chunking` | from an uploaded file to its chunks |
| `Listing` | sorted lists, selections from lists and sums, for the compiler, answers and chunks |
| `RateLimiter` | both stores of the rate limiter beside the definition of a sliding window |
| `BackupDrill` | scheduler, tool and drills, while the system they copy goes on |
| `BenchmarkRun` | runner, providers and collector of a private benchmark |
| `EvalGate` | the gate around that runner |
| `ReleaseGate` | the verifiers and the release gates |
| `MCIngestionJob`, `MCSourceStorage`, `MCPlatform` | instances for TLC |
| `IngestionJobProofs`, `SourceStorageProofs`, `WorkGraphProofs` | theorems and proofs about the module of that name |
| `ContextVaultProofs` | about `KnowledgeRegistry`, `KnowledgeLedger` and `ContextCompiler` |
| `OperationsProofs` | about `RateLimiter` and `BackupDrill` |
| `DocumentProofs` | about `RepositoryScan`, `AnswerTurn` and `Chunking` |
| `EvaluationProofs` | about `ReleaseGate`, `EvalGate` and `BenchmarkRun` |
| `ListingProofs` | lemmas about sorted lists, selections, sums and loops that the others cite |

`IngestionJob` and `SourceStorage` describe the same rows from two sides. The
first has one job with all its delivery, leases and attempts, and reduces storage
to nothing; the second has several jobs and the storage, and reduces a job to the
steps that touch bytes, rows of versions or the active pointer: `StartJob`,
`GiveBack` and `WorkerStops` stand for any of the claims, retries and crashes of
the first, and a job is worked on by one worker at a time.

### `IngestionJob`: state and code

| Variables | Code |
|---|---|
| `status`, `stage`, `attempt`, `lease`, `cancelAsked` | the `ingestion_jobs` row: `lease` is `none`, `live` or `expired` for `lease_owner` with `lease_expires_at`; `cancelAsked` is `cancel_requested_at` |
| `attStatus`, `receiptAt` | `ingestion_attempts` by `attempt_no` (`overdue` is running with its expiry in the past); the stage of the attempt's `retrying` receipt |
| `version`, `active`, `docStatus`, `chunks`, `newDone` | status of the version, `documents.active_version_id` (`old`, `this`, `new`), `documents.status`, the attempt whose rows are in `chunks`, whether the competing job is done |
| `outbox`, `claimStale`, `dpc` | the `outbox_events` row and each dispatcher's place in `_dispatch_loaded` |
| `queue` | ready messages by the Celery retries they have used |
| `pc`, `att`, `at`, `expected`, `retries`, `seen` | a worker process inside `run_ingestion_job`: place, attempt, stage, its `expected_active_version_id`, retries of its message, what its exception handler has read |
| `cpc`, `cSeen`; `rec` | the cancellation endpoint, and the reconciler, between read and commit |
| `workerCrashes` ... `cancels` | how many mishaps have happened, against the bounds |

Each action is one database transaction, the part of one up to what it reads or up to its
commit, or one broker call.

| Actions | Code |
|---|---|
| `ClaimOutbox`, `Publish`, `PublishRaises`, `RecordDispatch`, `ReapStaleDispatch`, `DispatchClaimTimesOut`, `DispatcherCrash` | `OutboxDispatcher` |
| `ClaimJob`, `ClaimRefused`, `DiscardDelivery` | start of `run_ingestion_job`, `_claim_job`, Celery's retry of a refused claim |
| `Begin`, `ShowProcessing` | the snapshot of the active version; the commit of `processing` |
| `Advance`, `StartStage`, `StageDone`, `SourceRejected` | `_advance_stage` up to its checks, and its commit; the bodies of the plain stages |
| `ClearChunks`, `InsertChunks`, `SmokeCheck` | the two transactions of indexing and the smoke retrieval |
| `SwapActive`, `Activate` | the last transaction: `activate_document_version` with the checks that follow it, and the commit |
| `ReadFailed`, `HandleException`, `HandlerRaises` | the exception handler: its reads after the rollback, its commit, and when it cannot go on or commit |
| `TransientFault`, `OutageOnDelivery`, `OutageInTask`, `WorkerCrash` | failures inside the `try` block; database failures outside it; a killed process |
| `ExpireAttempt`, `ExpireJobLease`, `ReadStaleLeases`, `CommitStaleLeases` | time passing; `reconcile_stale_leases` |
| `ReadForCancel`, `RecordCancelRequest`, `CancelWaitingJob`, `CancelFails` | `cancel_ingestion_job` |
| `NewVersionActivates` | another job of the document reaching its last transaction |

### `IngestionJob`: abstractions

- A transaction takes effect at its commit. The claim is one conditional UPDATE
  and the outbox claim holds a row lock, so each is one action. Every other
  transaction that reads rows without a lock and depends on what it read is two:
  the cancellation, the reconciler, the commit of `processing`, the start of a
  stage, the activation and the exception handler. The commit writes only the
  columns that differ from what was read, as SQLAlchemy does, and the checks that
  the database makes at that moment (unique keys, the trigger on terminal rows,
  `ck_ingestion_jobs_lease_owner`) are guards of the commit. The rows one
  transaction reads are read at one moment, and the embedding stage, which loads
  the job some time before it ends, reads it when it ends.
- Between its compare-and-swap and its commit an activation holds the locks of the
  version and of the document (`RowsLocked`): a transaction that writes either
  waits. The handler and the cancellation write the document before the version,
  the activation the version first; the deadlock PostgreSQL resolves by aborting
  one of them is a transient fault or an outage, which can happen at those places.
- A status that was read as it should be is not written, so the trigger that
  guards ended jobs (it fires on an UPDATE of the status) does not see the commit.
  This is how a late worker may fail a job that it read waiting and that another
  worker has claimed since: the failed job keeps that worker's lease, and that
  worker goes on to change its stage.
- The activation commits the status `completed` that it decided on while the job
  was running, also when the reconciler has made it `retrying` in between. The
  transition table has no such step; the row does, and `JobLifecycle` allows it.
- Time is abstract: anything that may be late may be arbitrarily late. With
  `Slow = FALSE`, a lease or an outbox claim only expires when its holder is
  gone, which is how the deployed timeouts are meant to be set.
- The four stages between validating and indexing are alike (`PlainStages`).
- Chunk rows are reduced to the attempt that wrote them; artifacts, source
  files, events and metrics are left out. Of receipts only the one that can make
  a commit fail is kept.
- The inbox receipt is left out: it is completed in the same commit as the job,
  so whoever finds it completed has found the job completed before.
- The Redis visibility timeout is not modelled; duplicates come from the outbox.
  A soft time limit is a transient fault, a hard one a crash.
- One cancellation request is under way at a time. Of the competing job only its
  activation is modelled, once.

### `WorkGraph`: state and code

| Variables | Code |
|---|---|
| `status`, `issued`, `activeToken`, `activeAttempt` | the `work_items` row: `issued` is `next_fencing_token` |
| `prepared` | the clients whose `PreparedWork` carries the current revision; whatever writes a new revision empties it |
| `approved` | whether the approvals in `required_approvals` are granted and unexpired |
| `attempt`, `intent`, `rollbackStarted` | `work_attempts`: status, `effect_idempotency_key`, the rows with `rollback_started_at` |
| `claim`, `lease` | `work_claims`: status, ticks left until `expires_at` |
| `receipts` | `work_receipts`: kind, attempt and exit status (0, 70 outcome unknown, 75 fence lost) |
| `artifact` | the attempt whose file is at the target path |
| `applying`, `undoing` | where an apply or a rollback call stands between its two transactions |

| Actions | Code (`B/application/work_graph.py`) |
|---|---|
| `MarkReady`, `Prepare`, `GrantApproval`, `ApprovalLapses` | `mark_ready`, `prepare`, `grant_approval`, time passing |
| `Claim`, `ReplayClaim`, `Heartbeat`, `ClockTick` | `claim` (with the expired claim it closes on the way), its replay, `heartbeat`, time passing |
| `AdmitApply`, `BlockDrift` | the first transaction of `apply` and its `DriftDetected` branch |
| `Dispatch`, `DispatchRaises` | `ScopedMutationDispatcher.dispatch` |
| `RecordApplied`, `RecordLostFence`, `RecordUncertain`, `ApplyDies` | the second transaction of `apply`, `_record_lost_fence`, `_record_uncertain_effect`, a killed call |
| `Verify`, `Close`, `ReconcileLease` | `verify`, `close`, `reconcile_stale_leases` |
| `IntendRollback`, `Unlink`, `RecordRollback`, `RollbackDies` | `rollback` and `ScopedMutationDispatcher.rollback` |

`Transition` is `_transition` together with the trigger on `work_items`: the move
is in the table, and the event written for it names the attempt that is active in
the new row. The second half is what keeps `mark_ready` from reopening a blocked
item, which the table alone would allow.

### `WorkGraph`: abstractions

- Every operation locks the item, so one action is one transaction. `apply` and
  `rollback` are two of them with a file operation in between. Heartbeats lock
  only the claim, which is all they read and write.
- `claim` makes an attempt, a claim and a token together; one number stands for
  all three.
- The reconciler locks a claim before its item, the others the item first. When
  two meet, PostgreSQL aborts one: an operation that did not run, or a call that
  dies after its first transaction. Lock waits are not modelled.
- Time is counted in ticks of the lease; within the bound a lease may be granted
  or extended for any length, also shortened by a heartbeat. Approvals lapse at
  any time.
- The file is reduced to the attempt that created it; its content, path admission,
  hashes and request digests are not modelled, and nobody else writes the path.
- Replays of finished calls by their idempotency key give the item a revision
  when no prepared work is left, and change nothing here. The replay of a claim
  does outdate prepared work and is an action.
- `FAILED` and `CANCELLED` are in the table and no operation goes there.

### `SourceStorage`: state and code

| Variables | Code |
|---|---|
| `ver`, `docOf`, `no`, `keyAt` | `document_versions`: status (with the job that decides it), document, `version_no`, and which object `storage_key` names |
| `active`, `deleted` | `documents.active_version_id`, `documents.deleted_at` |
| `objects`, `aged` | what the bucket holds; the staging objects older than the sweeper's grace |
| `row`, `retain` | `storage_objects`: status, and whether `retention_until` is unset, ahead or past |
| `chunks`, `cited` | versions with chunk rows; versions in `message_citations` |
| `req`, `wpc`, `expected`, `reading`, `sweep`, `gc` | where each request, worker, answer, the sweeper and the collector stand, and what they have read |

| Actions | Code |
|---|---|
| `ReadForAcceptance`, `FlushRows`, `FlushCollides`, `CommitQuarantined`, `PutStaging`, `CommitAccepted`, `RequestDies` | `accept_source`, with the unique keys it may run into at the flush |
| `StartJob`, `PutOriginal`, `CommitOriginal`, `RemoveStaging`, `ReuseOriginal`, `PutNormalized`, `CommitIndex`, `ActivateVersion`, `GiveBack`, `WorkerStops`, `JobEnds` | `run_ingestion_job`: promotion, normalized text, index, activation |
| `DeleteDocument`, `RetentionPasses`, `GracePasses`, `Retrieve`, `AnswerEnds` | `delete_document`, time passing, an answer that cites |
| `ReadRegistry`, `ListStaging`, `SweepObject`, `CommitSweep`, `SweepDies` | `sweep_orphan_staging` |
| `ReadCandidates`, `ChooseObject`, `DeleteChosen`, `DeleteRaises`, `CommitCollection`, `CollectorDies` | `run_storage_gc` |

Time is abstract except for two assumptions that the configured durations stand
for. Retention is counted in days: it does not run out while an answer that
retrieved the version, or a job that builds it, is under way (both have time
limits of minutes). Grace is an hour: no request stands between its put and its
commit that long. Without the first, the collector could take a version while an
answer is about to cite it; the code has no other protection there.

What the model shows besides its properties: a job that lost its compare-and-swap
starts again with a new snapshot, so an older version may replace a newer one; a
document deleted while a job is pending is activated nevertheless, and the
objects written after the deletion never get a retention; the final objects of a
failed version have none either; a crash between the commit of the promotion and
the deletion of the staged bytes leaves those for good; a collection that fails
halfway leaves chunks of versions whose objects are gone in part; a request for
the file of a deleted document is answered with the old job.

### The other modules

| Module | State | Steps and abstractions |
|---|---|---|
| `KnowledgeRegistry` | `manifest`, `rev`, `head`, `open` (conflicts), `approval` (what each session has read), `route`, `claim` of each attempt, `binding` (a call under way), `bound` contexts | Each operation is one transaction and one step but for two. `approve_knowledge` reads its revision before it locks the item, and the lock does not refresh that copy. `bind_compiled_context` locks attempt, item and claim and checks claim and route (`LockForBinding`), reads manifest and quoted revisions without a lock (`CheckSources`) and commits (`StoreBinding`); approvals, new manifests and the expiry of the claim come in between, its release does not. A revision is its content. |
| `KnowledgeLedger` | `note`, `dispute`, `copy` (reviews under way), `swap` (an approval between its two writes) | One step per locked operation. `review` reads, and writes its whole copy later without the lock: a late write may take an approved, superseded or revoked revision back to `REVIEWED`. |
| `ContextCompiler` | `holder` (claim and checkout), `contexts`, `projected`, `handoffs`, `intents` | Compilation is the operator `ManifestOf`; the catalogue of items is a constant, the request is chosen. Hashes are the values they stand for. |
| `AnswerTurn` | `served`, `removed`, `turn` | One step per SQL statement (READ COMMITTED); relevance, scores and replies are choices, ranks, budgets, labels and visibility are kept. Orders are stated by rank, selections by positions. |
| `RepositoryScan` | `tree`, `scan`, `sources`, `versions` | Every file is read in a step of its own, once to be hashed and once to be bundled. Globs are the sets they match. |
| `Chunking` | `type`, `stage`, `text`, `units`, `chunks` | A file is written line by line, each line of a kind; parser and chunker are operators over these, each loop of the code a recursive function that gives the state after each round. Token counts are taken to add up. A separator of a table may have empty cells (`loose`); a header begins with a bar, a separator does not, so that no separator is a header; a blank line is an empty one. |
| `RateLimiter` | `hits`, `zset`, `lifetime`, `charged`, `verdict` | Both stores get the same requests; the reply of Redis may be lost; its key expires. A store is the set of its hits, numbered so that two of one tick stay two; the clock never goes back. |
| `BackupDrill` | live rows and objects, `lockHolder`, `sched`, `tool`, `receipt`, `dir`, `drill`, targets | Scheduler, tool and drill are processes that may die; the dump comes before the listing of objects. |
| `BenchmarkRun` | `bench`, `ledger`, `client`, `up`, `down`, `keeper` (collector), `ran` | Runner and collector exchange frames; a reply may miss the limit and still arrive. |
| `EvalGate` | `file`, `doc`, `gate`, `child`, `finished`, `issued` | The gate is a row of reads; files, checkout and time change between any two. A content is a number, and an edit makes a new one: a change that is undone is not modelled. |
| `ReleaseGate` | `checkout`, `tag`, `paper`, `job`, `signed`, `candidates`, `releases` | Each tool is a row of looks. A checkout that leaves and comes back unnoticed is marked (`away`, `quiet`). |

Small simplifications that no property depends on: `SourceStorage` lets a job whose
smoke retrieval failed be tried again (the code fails it for good) and joins the read-back
of a stored checksum with the commit that follows; `BackupDrill` lists the objects in one
step, where `list_objects` goes page by page; `BenchmarkRun` counts an embedding call after
its capture and not before (a failure in that phase ends the run).

What they show of the code besides their properties:

- Knowledge: content that conflicts with the head can be neither approved nor
  proposed again; an approved context is not invalidated when the head moves on;
  two first proposals are told apart only by the unique key of the item; a context
  may be bound although what it quotes stopped being the head before the commit.
- Answers: a label repeated in one claim gives two citation rows with one key,
  and the request fails; claim text is compared with the answer only when a reply
  is canonicalised; chunks after the budget break are neither selected nor
  recorded; chunks that vanished still count as evidence for the no-answer
  decision; a failed request leaves its conversation and an open run.
- Context: an active item that is itself not eligible still supersedes; an item
  that must be loaded loses to a newer optional revision, which may then be
  dropped for the budget.
- Scans: a refresh that finds an older content again is answered with the old
  job and changes nothing, where `docs/runbooks/reindex.md` expects a reindex; the
  refresh of an archive always fails; a walk that a limit cuts short looks complete; two first scans of
  one source may make two documents.
- Chunks: plain code loses its blank lines, so a chunk may end above its last
  line (`code_chunker.py:87-186`); an oversized PL/SQL symbol may be cut inside a
  comment or a string (against `plsql_chunker.py:8`); an overlap may put a chunk
  above its budget. The router takes a separator with empty cells (`---||---`) for one,
  the table chunker does not: it is then a row of one chunk and not repeated, where the
  chunker's docstring says that header and separator are. The properties leave out exactly
  these. An empty fence is a chunk of its two marks, and a symbol's text counts
  twice against the output limit.
- Backups: a run whose backup takes more than five minutes fails its first check
  of freshness though the tool may take thirty; a killed tool leaves a reserved
  slot.
- Benchmark: after a capture that missed the limit the next request has the same
  number and takes the stale acknowledgement for its own; the collector notices
  and there is no report.
- Gates: the inputs of a preflight are not looked at again; the known risks are
  read before HEAD, and the migration verifier never asks whether the checkout is
  clean.

## What is checked

A stopped system is a legal state in every run (an ended job or item, or one
nobody carries on with; a bound that is used up), hence `CHECK_DEADLOCK FALSE`.

| Run | Instance | Properties |
|---|---|---|
| `Zombies` | 2 workers that may outlast their leases, 1 dispatcher that may be killed once (so two messages), 1 outage, no retries, 2 attempts | `TypeOK`, `LeaseWhileRunning`, `VersionFollowsJob`, `OneCompletion`, `EndedJobIsFrozen` |
| `Recovery` | 1 worker process; two of a kill, a transient fault and a cancellation, one Celery retry, 2 attempts, late worker and reconciler | `ActiveVersionIndexed`, `LifecycleRefined` |
| `Live` | all seven stages, 3 retries, 2 workers that keep their leases, 2 dispatchers of which one is killed, no other fault, fairness | `OneWorkerAtATime`, `JobHasCarrier`, `DocumentStatusSettles`, `EveryJobEnds` |
| `SourceStorage` | 3 sources of which one is quarantined, 1 document, 2 clients, 3 requests, 1 mishap of any process, one object under legal hold, fairness | `ServedVersionIntact`, `CitedVersionIntact`, `VersionsNumbered`, `ChunksOutliveObjects`, `RegisteredBytesKept`, `VaultRefined`, `AbandonedStagingSwept` |
| `Fencing` | 2 clients, 2 idempotency keys, approvals required, 4 claims, leases of at most 2 ticks | `OneHolder`, `OneEffect`, `RowsAgree`, `SuccessBacked`, `SuccessUnderLease`, `EffectRecorded` |
| `Platform` | the eleven other modules, each on an instance of its own | see below |

Two attempts are enough for one to be late while the other is current; a third
would repeat the roles. `Zombies` and `Recovery` leave out the plain stages, which only
repeat the start of a stage: validating, indexing and activating remain. `Zombies` has
2.8 million states, `Recovery` 2.5 million, with the constraint `TwoMishaps`: of a
kill, a fault and a cancellation any two happen in one behaviour, so that each meets
each. Two workers are needed for a late one and its successor.
Two messages are all that one killed dispatcher makes. `Recovery` has one worker
process because the chunk rows of two workers do interfere (see `IndexRewritten`).
In `Fencing` four claims let a claim expire before its effect twice, be taken back
once by the reconciler, and a last holder go on; two clients and two keys are a
holder and its rival; two ticks let a heartbeat lengthen and shorten a lease.

In `SourceStorage` two sources of one document are a version and the one that
replaces it, and two overlapping requests; the third only adds the version that
is numbered and never stored, and comes first (`QuarantinedFirst`). One document
is enough: documents meet nowhere but in the collector, which treats versions
one by one. One mishap at every possible point covers each crash on its own.
`OneMaintenance` keeps the sweeper apart from the collector and from answers: the
sweeper touches staging objects and their rows, which neither of the others reads.

- `LeaseWhileRunning`: the worker, the late worker, the reconciler and the
  cancellation all write status and lease; they never leave a running job
  without a lease, which no claim condition or monitor would show as stuck, nor a
  waiting, completed or cancelled one with a lease. A failed job may have one.
- `VersionFollowsJob`: job, version and active pointer agree at every commit.
- `OneCompletion`, `EndedJobIsFrozen`: duplicates and late workers complete a
  job once and change neither its outcome nor its attempt afterwards (nor stage
  and lease, unless it failed). What protects them is not the lease (a
  late worker never looks at it) but the compare-and-swap and the locks of the
  activation, the trigger on terminal rows and the NULL expiry the attempt refuses.
- `ActiveVersionIndexed`: a version is activated with the chunk rows of the attempt
  that completes, never with those of a killed or failed one, and keeps them while
  it is active. (The reconciler may later mark that very attempt stale, if it had
  read it overdue: the property is about the step, not about the attempt's row.)
- `LifecycleRefined`: all of it implements `JobLifecycle`.
- `OneWorkerAtATime`, `JobHasCarrier`, `DocumentStatusSettles`, `EveryJobEnds`:
  without crashes of workers, what the leases and the outbox are there for.
- `ServedVersionIntact`, `CitedVersionIntact`: what is served has its original,
  its normalized text and its chunks, and what is cited keeps them, although
  promotion, sweep and collection delete objects by what they read earlier.
- `ChunksOutliveObjects`: a collection that dies or fails halfway never leaves a
  version without chunks whose objects are still there.
- `RegisteredBytesKept`: of the staged bytes of a waiting job, the sweeper takes
  only those whose row it has not seen; that this can happen is `StagedBytesLost`.
- `VersionsNumbered`: overlapping and dying requests leave no gap in the numbers.
- `VaultRefined`: all of it implements `SourceVault`.
- `AbandonedStagingSwept`: staged bytes that nobody will use go in the end.
- `OneHolder`, `OneEffect`: of all claims one can act, and of all attempts one
  ever starts the effect, through expiry, reclaiming, blocking and new keys.
- `RowsAgree`: the reconciler, a late apply and the holder all write item and
  attempt; they never contradict each other.
- `SuccessBacked`, `SuccessUnderLease`: success is written only by the holder of a
  live lease, and claimed only with the receipts and the file behind it. The
  file may be missing only after a rollback was intended: see `RollbackClose`.
- `EffectRecorded`: all of it implements `EffectLedger`.

### The run `Platform`

Its modules share no state. `MCPlatform` puts them beside each other: the first
state chooses a `subject`, only that component then moves, and the others keep
their initial states. TLC explores the disjoint sum of the eleven state graphs,
so that each is checked exactly as in a run of its own, with its own bounds. An
invariant of another component is evaluated at that component's initial state
and says nothing there.

| Subject | Instance | Property |
|---|---|---|
| `backup` | 2 scheduled runs, 2 drills, 3 keys, 2 databases and one bucket as targets, 2 slots, 1 live change, 1 kill | `ClaimedSlotStands`: a slot reported as done has a complete backup of that slot, and nobody writes in it; `DrillVerdictTrue`: a drill that passed restored exactly one backup, and one that failed and could clean up met a backup taken while the system moved |
| `limiter` | limit 2, window 2, 5 ticks | `WindowExact`: both stores answer as the definition does |
| `knowledge` | 3 revisions, 3 people, 2 approval sessions, 2 manifests, 2 teams, 1 attempt | `ApprovalsSound`, `HeadRefined`, `ContextStaysBound` |
| `ledger` | 3 revisions of 2 contents, 3 people of whom one is a policy, 2 threads in review | `OneAuthority`: readers see one head, reviewed by another than its proposer and undisputed |
| `answer` | 2 documents, 3 versions, 5 chunks, every kind of reply, 2 changes of documents | `OneVersionPerDocument`, `ClaimsCited` |
| `context` | 7 items of 6 logical things, every subset of them as a request, 2 policies, 3 budgets | `ContextAsPromised`, `IntentsInClaimOrder` |
| `benchmark` | 2 cases of 2 calls, 2 late replies, call and time limits | `ReportBacked` |
| `evaluation` | 3 invocations, 1 edit or 1 day, 1 review | `GateBindsOneRun` |
| `scan` | 4 files, one below a directory, ignore rules, limits of 2 files and 3 bytes, 2 scans, 1 edit | `ScanMirrorsSource` |
| `release` | 2 commits, 2 images, 3 verifiers, 4 tools, 2 moves of the checkout | `ReleaseBacked` |
| `chunks` | all files of up to 4 (Markdown), 5 (PL/SQL) and 6 lines, budgets of 3 and 4 tokens | `ChunksTrue` |

Its constraints cut interleavings that add nothing, each named in the module.
`DrillsLast`: drills read backups that are over; that a backup may go on when a
drill starts is excluded by the manifest the drill looks for. `KnowledgeFirst`:
routes and contexts do not influence approvals, so they move when those have.
`OneLateReview`: one of the two threads reviews only the first revision.
`ContextsFirst`: any request is compiled as the first one, but projections and
handoffs, which look only at the result, follow one of them. `EditOrExpire`:
edits of inputs and the passing of days are looked at apart. `FirstScanFirst`:
the second scan is of the kind of the first. `OneRelease`: either the
image gates or the verifiers run, in the order of a release.

The limits are small on purpose: two hits, two files, three tokens put every
comparison on its edge, and the next unit over it.

### What the code does otherwise

Six runs show that the code does not do what its documentation says:

| Run | What TLC finds |
|---|---|
| `LostAfterCrash` | a worker is killed; the message comes back at once, is refused three times because the dead worker's lease is live (120 s against 70 s of backoff at most), and is acknowledged. The reconciler sets the job to `retrying` and nothing publishes it again |
| `RetriesExhausted` | after the last Celery retry the job stays `retrying` for good |
| `CancelIgnored` | the handler that should write `cancelled` calls `_emit_event`, which raises `JobCancelled` again before the commit |
| `IndexRewritten` | a late worker's deletion of the chunk rows commits after another worker has activated the version |
| `StagedBytesLost` | an acceptance dies after its put; when the object is old the sweeper has read the registry, the retried request puts the same key and commits its row, and the sweeper deletes the bytes the waiting job needs |
| `RollbackClose` | a rollback's intent leaves the item at `VERIFYING`, and `verify` and `close` do not look at `rollback_started_at`: the item is `COMPLETED` and the file is unlinked (1 client, 1 claim) |

### Fairness

In `IngestionJob`: weak fairness of every dispatcher's and every worker's own
steps (a process that is not killed goes on), of the delivery of messages, of the
beat tasks (stale dispatch claims, stale leases: the beat schedule runs them every
10 and 60 seconds) and of time. None for faults, crashes, cancellations or the
competing activation.

In `SourceStorage`: weak fairness of the steps of a request under way, of the
sweeper (a beat task) with each object it has listed, and of the grace passing.
None for workers, deletion, answers, the collector, crashes or new requests.

`WorkGraph` has no fairness and no liveness property: its clients are command
lines that need not come back, nothing schedules its reconciler, and nothing
leads out of `BLOCKED`, so the code promises no progress. The modules of
`Platform` model requests and tools that somebody starts, and state safety only.

## What is proved

### Ingestion

`IngestionJobProofs`, for every number of workers, dispatchers, stages, retries,
attempts and mishaps (the assumption `BoundsAssumption` only says that the
constants are natural numbers and `Slow` a Boolean):

| Theorem | Statement |
|---|---|
| `TypeCorrect` | `Spec => []TypeOK` |
| `RunningIsLeased` | `Spec => []LeaseWhileRunning` |
| `RowsAgree` | `Spec => []VersionFollowsJob` |
| `SingleCompletion` | `Spec => []OneCompletion` |
| `EndedStaysEnded` | `Spec => EndedJobIsFrozen` |
| `Refinement` | `Spec => LifecycleRefined` |

The argument. A first group of lemmas (`JobWriters`, ...) says which actions
write which variables, so that each later proof looks only at those. The types
are inductive with two additions (`AttemptsBounded`, `PositionsOK`). The safety
invariants need `IInv`:

- `QueuedUnclaimed`: nobody works on a job that was never claimed; so no handler
  and no reconciler moves a queued job.
- `TakenJobStarted`: the reconciler takes back only a job it saw running, which
  has therefore left `queued`.
- `WaitingJobSeen`: as long as the attempt number is what a cancellation of a
  waiting job saw, the job does not run; with the unique attempt number this
  makes the unlocked read safe.
- `StopsWhenAsked`: a worker stands at `JobCancelled` only after a request, and
  then its handler cannot commit; so the handler never writes `cancelled`.
- `HandlersRead`: a handler that has read the job saw it running with a lease,
  waiting without one, or failed for good; so what its commit leaves unwritten is
  already what it should be, but for the lease of a job that it fails.
- `ActivationsHold`: while an activation is between its compare-and-swap and its
  commit the job is open, and there is no second one; so what it completes is
  running or was taken back.
- `SnapshotsOK`, `NewVersionOnce`, `LateActivationFails`: before completion
  nobody can have taken this version for the active one; so after it every
  compare-and-swap left over fails.
- `CompletedWithJob`: a completed attempt belongs to a completed job, which
  yields `OneCompletion`.

`LifecycleStep` shows that under `IInv` each step is a step of `JobLifecycle`;
`VersionFollowsJob` follows from the abstract steps alone.

Four of the invariants are not true of every deployment, and the theorems say of
which they are:

| Theorem | Statement |
|---|---|
| `OneWorker` | `Calm` implies `Spec => []OneWorkerAtATime` |
| `DocumentSettles` | `Calm` implies `Spec => []DocumentStatusSettles` |
| `CarrierKept` | `Faultless` implies `Spec => []JobHasCarrier` |
| `IndexOfActiveVersion` | `Spec /\ []OneWorkerAtATime => ActiveVersionIndexed` |
| `SerialWorkerIndexes`, `CalmIndexes` | the same with one worker process, or with `Calm`, instead of that hypothesis |

`Calm`: leases outlast the work (`~Slow`), no worker is killed, the database is
never out of reach and nobody cancels. Transient faults, killed dispatchers and
the duplicates they leave remain. None of it can be spared: a reconciler that
commits late, a killed, cancelled or cut off task leaves the lease of a running
job behind, or a task behind its lease, and a second worker may enter.
`Faultless` is `Calm` without transient faults and with a retry to spare: two
duplicates whose tasks both fail can use up the retries of the only message that
would have come back (one failure, that of the competing activation, is allowed).
`SerialWorkerIndexes` on the other hand allows every mishap there is.

- `CalmInv`: nothing of a cancellation or an expiry is under way
  (`Undisturbed`), a process in a task works on the latest attempt, which runs
  and holds the lease (`WorkersCurrent`, `AttemptsHeld`, `RunningIsHeld`), so
  there is one, and its handler read the job running (`RunningJobRead`); receipts and `processing` belong to tasks that will write again
  (`ReceiptsEnded`, `ProcessingIsRunning`).
- `CarrierInv`: a queued job that was published has a message with no retry used
  (`QueuedIsPublished`); before the competing job activates its version no
  attempt fails (`FirstDelivery`), and the one that then loses has its retries
  left (`LoserCanRetry`); nobody else writes chunk rows, so indexing does not
  fail (`ClearedStaysClear`); a retrying job has a message (`RetryIsQueued`).
- `IndexInv`: from its insert to its activation a worker's chunk rows are there
  (`RowsAreOwn`), attempts are numbered by the job (`AttemptsNumbered`), and when
  the job has completed no worker is left that could rewrite the rows
  (`CompletedIsLeft`).

### Work graph

`WorkGraphProofs`, for any clients, keys, lease length and number of claims, with
and without approvals (`ParametersAssumption` also keeps the NULL key apart from
the keys):

| Theorem | Statement |
|---|---|
| `TypeCorrect` | `Spec => []TypeOK` |
| `SingleHolder` | `Spec => []OneHolder` |
| `EffectAtMostOnce` | `Spec => []OneEffect` |
| `ItemAndAttemptsAgree` | `Spec => []RowsAgree` |
| `CompletionIsEarned` | `Spec => []SuccessBacked` |
| `FencedReceipts` | `Spec => SuccessUnderLease` |
| `Refinement` | `Spec => EffectRecorded` |

The argument. `IInv` has three parts besides the types. `ClaimInv` is about who
holds the item: an active claim is the newest and the item is where a holder can
be (`OneHolder`); an attempt in progress has such a claim (`ProgressIsClaimed`),
an item that was ever claimed names an attempt (`HolderNamed`), and the two rows
agree (`RowsAgree`). `EffectInv` is about the
effect: whoever has an intent is the active attempt, which is why there is only
one (`IntentIsActive`: once there is an intent, the item cannot become ready, so
nobody can claim it); an item past `CLAIMED` has one (`LateHasIntent`); calls
under way, receipts and rollbacks come in their order (`CallsInTime`,
`AppliedIsLate`, `UndoInOrder`). With both, the file of an item at `VERIFYING` is
missing only if its rollback was intended (`SuccessBacked`). Each is preserved
action by action, and under `IInv` each step is a step of `EffectLedger` or
leaves it alone.

### Source storage

`SourceStorageProofs`, for any sources, documents, clients, legal holds and bounds
(`ParametersAssumption` only keeps the two NULLs apart and the bounds natural):

| Theorem | Statement |
|---|---|
| `StorageTypes` | `Spec => []StorageTypeOK` |
| `ServedStaysIntact` | `Spec => []ServedVersionIntact` |
| `CitedStaysIntact` | `Spec => []CitedVersionIntact` |
| `ChunksStayWithObjects` | `Spec => []ChunksOutliveObjects` |
| `RegisteredStays` | `Spec => RegisteredBytesKept` |
| `StorageRefinesVault` | `Spec => VaultRefined` |
| `VersionsAreNumbered` | `Spec => []VersionsNumbered` |

The argument. `StorageInv` ties the steps of each process to what the others may
have done since it read:

- `RequestsSound`: a request whose rows are flushed is alone with its key, and no
  version has it.
- `ActiveSound`: the active version of a document is ready and its own.
- `WorkSound`: a worker works on a pending version, and what it has put and
  committed so far is still there unless the document was deleted under it.
- `RowsSound`: final objects have a row before their version is served, and the
  rows are deleted before the chunks are.
- `RetentionSound`: a retention is given only to objects of versions that are
  retired (superseded, or of a deleted document), which is never undone; and no
  answer is reading a version whose retention is over.
- `CollectionSound`: what the collector has read, chosen and deleted belongs to
  retired versions that nobody reads, and nothing chosen is cited. This is where
  the assumption on retention enters, and where the gap between counting the
  citations and deleting is bridged.
- `ReadersSound`: what is served, read or cited is whole.

`VersionsNumbered` has an invariant of its own, `NumbersSound`: a request's number
follows one that is taken, and from the flush on it
is the next one and nobody else's; a commit then adds one element to the
interval, by facts about cardinality from the library. The refinement maps each step to one of `SourceVault` or to a
stutter: a deletion of an object reclaims its version or does nothing to readers.

### Knowledge registry

`ContextVaultProofs`, for any revisions, people, teams, sessions, attempts,
contexts and adapters:

| Theorem | Statement |
|---|---|
| `RegistryTypes` | `KnowledgeSpec => []KnowledgeTypeOK` |
| `ApprovalsAreSound` | `KnowledgeSpec => []ApprovalsSound` |
| `RegistryRefinesHead` | `KnowledgeSpec => HeadRefined` |
| `BoundContextStays` | `KnowledgeSpec => ContextStaysBound` |

`KnowledgeInv` says what a stale copy can still be (`CopiesSound`: a revision that
a session has read as reviewed has the same reviewer, and at worst has been
approved or superseded since), what the judges of a row are (`RowsSound`), and
that what an approved row replaced is retired (`HeadSound`), so that the
compare-and-swap under the lock refuses whatever a stale copy could repeat. With
that the triggers of the schema never have anything to refuse. `BindingsSound` says
what a binding may have lost between its check and its commit: its claim is still one
that has not ended, because its row is locked, and what it quotes was the head when it
was read and is the head or superseded now, because a revision leaves the head in no
other way.

### Context vault

`ContextVaultProofs`, for any revisions, contents, people and threads of the
ledger, and for any catalogue, actors, commits and projection limits of the compiler:

| Theorem | Statement |
|---|---|
| `AuthorityIsOne` | `BookSpec => []OneAuthority` |
| `IntentsOrdered` | `ContextSpec => []IntentsInClaimOrder` |
| `ContextsPromised` | `ContextSpec => []ContextAsPromised` |

An approval in the ledger writes its two revisions one after the other, and a
review writes back a copy read long ago. `LedgerInv` says that a late write
carries a reviewer other than the proposer and the predecessor its revision still
has (`CopiesTrue`, `JudgedByAnother`), that no head is disputed
(`HeadsUndisputed`: a dispute opens with a proposal and lasts), and that there is
one head or the two in exchange (`HeadsFew`). `IntentsInv` bounds the token and
the revision of every intent by those of the present claim (`Past`), so that the
next one comes after all.

`ContextsInv` says that every stored context is what the compiler makes of its request
(`CompiledOK`), so the theorem is about the compiler. `SelectedAsPromised` follows it:
what is eligible is due (`EligibleIsDue`), of each logical thing one revision wins
(`NewerTotal`, `WinnersDistinguished`), and `SelectedFits` is the loop over the
optional items. Its invariant is that what has been taken costs no more than the
budget leaves, and what was passed over did not fit beside what was there then; as
more is only added, it does not fit beside the result either.
`CatalogAssumption` only says that items and requests are well formed: costs and
budgets are numbers, and what is critical must be loaded, as the item's constructor
demands.

### Rate limiter, backups and drills

`OperationsProofs`, for every limit, window, number of ticks, scheduled run,
drill, slot, change and kill:

| Theorem | Statement |
|---|---|
| `WindowIsExact` | `LimiterSpec => []WindowExact` |
| `ClaimsStand` | `BackupSpec => []ClaimedSlotStands` |
| `VerdictsTrue` | `BackupSpec => []DrillVerdictTrue` |

- `LimiterInv`: hits are numbered apart (`HitsNumbered`), each store holds every
  hit that can still count (`StoresHold`) and the key of the second store outlives
  its newest hit (`KeyOutlives`). Pruning then takes only what no later request
  counts, and both cardinalities are that of the definition.
- `BackupsInv`: the tool's place, lock and directory agree (`ToolOK`), a slot that
  is done has its backup and its receipt (`SlotOK`), and there is one tool at
  work per directory (`OneToolAtWork`), also after its scheduler was killed.
- `DrillsInv`: what each drill has read, restored and compared (`DrillOK`), and
  that two drills have different targets (`TargetsApart`). `PassedBackupKept`
  says that a backup whose manifest was read does not change any more. TLC
  starts drills after the backups (`DrillsLast`); the theorem starts them at any
  time.

### Scans and answers

`DocumentProofs` proves of scans `ScansMirror`, `ScanSpec => []ScanMirrorsSource`, for
any files, directories, ignore rules, limits, racing and replayed requests, edits and
kills. The assumption on the constants is that the orders of the walk and of the
archive list each path once.

`ScanInv` says of each request what it was asked for (`AskedOK`), what its copy or
walk can have found (`CopyOK`, `FoundOK`), what its bundle holds and from when
(`BundleOK`, `OriginOK`), and of versions and sources that they are what a scan
has committed (`VersionOK`, `SourceOK`). `SparedIsNotIgnored` relates the last
matching rule (`LastOfInterval`: a finite interval has a last element with a
property; shown by a minimal counterexample) to what the ignore rules spare.

Of answers it proves `EvidenceOfOneVersion`, `AnswerSpec => []OneVersionPerDocument`,
and `EveryClaimCited`, `AnswerSpec => []ClaimsCited`, for any documents, versions,
chunks, rankings, budgets, replies and changes of documents. The assumption
(`AnswerAssumption`) is that the first version served is one of its document's, that
a list of chunks names each once, that replies are made of labels, and that the unit
in which scores are counted (`RrfScale`) makes each share of a score a whole number.

Each search of a turn is a statement of its own, so two of them may find chunks of
two versions of one document. `AnswerInv` says why they do not both become
evidence: what was found was served when it was found, and a version once replaced is
not activated again (`FoundWereServed`); of two rival chunks at most one is resolved,
and while one is, the other's version is not served (`ResolvedAgree`); items and the
neighbours to look for are of versions of resolved chunks (`EvidenceBacked`). The
lemmas about lists say that listing a finite set in a strict total order by rank
lists each element once (`InOrderLists`: ranks differ, hence every rank is taken),
and what picking from a list, dropping repetitions and labelling keep
(`PickedEntries`, `OnceKeepsEntries`, `ClaimedLabels`).

### Chunks

`DocumentProofs` also proves `ChunksAreTrue`, `ChunkSpec => []ChunksTrue`, for any
claims, kinds of lines, costs of lines, budgets and lengths of files
(`ChunkingAssumption`: costs and budgets are natural numbers). `ChunkInv` says that a
file that is parsed has some text and that `units` and `chunks` are what parser and
chunkers return for it. The rest is about what they return, for every text; each
of their loops has a lemma that carries its invariant from round to round:

- Parsers: `NextBlockReads` and `MarkdownUnitsRead` (the units read do not overlap, every line of
  text read is in one, and each table begins with header and separator),
  `PlainDocument`, `CodeUnitsAre`; `PathsAre` (the stack of headings).
- Segments and document chunks: `SegmentsAre`, `AddUnitKeeps` and `DocGroups` (the
  groups cover the units, stay in one section and exceed the budget only with a unit
  that follows its overlap).
- Greedy pieces: `AddBlockKeeps` and `GreedyPieces` (every block is in a piece;
  a piece is blocks on top of the base, and a single one where it exceeds the budget), used for tables
  (`TablePieces`), fences (`FencePieces`), generic code (`GenericChunksAre`) and
  PL/SQL symbols (`SymbolChunksAre`).
- Parents: `AddChildKeeps` and `ChildBucketsAre` (buckets are neighbours of one
  section within the budget, and each child is in one).
- PL/SQL: `CutsBeginRight` relates a cut of the stripped text to the declarations of
  the original, outside strings.

`DocumentTrue`, `GenericTrue` and `PlSqlTrue` combine these for the three ways through
the chunkers.

### Loops and lists

`ListingProofs` has what the proofs about the compiler, answers and chunks share. The
induction theorems of the library take an operator, which the provers cannot
instantiate. `Upwards` states induction over an interval with a set instead: a set that
has `a`, and with each number below `b` the next one, has all of `a .. b`. `LoopRuns`
applies it to a recursive function on an interval whose rounds keep within a set of
states; a loop invariant is such a set. `SumRuns`, `SumsWithin`, `SumAdds` and `SumSame` are the sums
of costs obtained in this way, `AscendingLists`, `PickedEntries`, `FlatRange` the lists.

### Gates and the benchmark

`EvaluationProofs`, for any files, tools, moves, invocations, packs and limits:

| Theorem | Statement |
|---|---|
| `ReleasesBacked` | `ReleaseSpec => []ReleaseBacked` |
| `GateBinds` | `EvalSpec => []GateBindsOneRun` |
| `ReportsBacked` | `BenchmarkSpec => []ReportBacked` |

- `ReleaseInv` (`PaperOK`, `ReceiptsOK`, and `JobsOK` of each tool): what a tool has
  seen at each look, given the moves of the checkout since it began. A tool that
  ends where it began, on a clean checkout, has seen one commit. `SubjectPast`
  numbers the image subjects, so that one that was replaced never comes back as
  the same. The assumption is that the components are finitely many and that
  files and looks have different names.
- `EvalInv` (`DocsOK`, `IssuedOK`, `RunOK`, `ReceiptOK`): contents are numbered
  upwards, so a digest that is the same before and after the launch pins what
  the runner has loaded in between; receipts are numbered too, and neither
  candidate nor evidence changes while a receipt is checked.
- `BenchInv`: what ran was asked for, in that order, and what was asked for has
  run but for as many as are on their way (`RanOK`); the runner has counted no
  more replies than were recorded (`AcksOK`); the collector numbers its records
  and puts the seal last (`RecordedOK`, `KeeperOK`); the runner's ledger is what
  ran, as long as no reply was lost (`LedgerOK`). At a report the counts of captures,
  requests, ledger entries and runs are equal, hence the i-th thing that ran is
  request i.

Each of these invariants was checked by TLC on the instance of `Platform` before
it was proved.

### Only model-checked

Every invariant of the passing runs has a theorem, and so has every action property and
refinement. Liveness (`EveryJobEnds`, `AbandonedStagingSwept`) is out of the
prover's reach and is checked on the instances of `Live` and `SourceStorage` only. The
six runs of the section on what the code does otherwise are counterexamples, for
which one instance is enough.

## Not modelled, and the plan

- Observability, the web interface, authentication, file validation, redaction:
  no state that a property could be about, or one check per request.
- PDF, Word, image and OCR parsers: wrappers of libraries.
- Embeddings, their cache, the chat client: single calls to services, which
  appear as calls that succeed or fail.
- The skill registry and the records of several projects in one registry; the
  rendering and the remaining commands of the command line.
- Migration, licence, type and citation checks, service-level rehearsals, status
  generation: single passes over files.
- Revocation and expiry of knowledge exist only in the in-memory ledger; the
  service over the database has no operation for them.

Next: `IngestionJob` and `SourceStorage` with a common refinement of the job.
