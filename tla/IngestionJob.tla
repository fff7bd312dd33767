---------------------------- MODULE IngestionJob ----------------------------
(***************************************************************************)
(* The ingestion control plane around one job: the outbox dispatcher that  *)
(* turns the committed intent into Celery messages, the broker, the worker *)
(* processes that run run_ingestion_job, lease expiry, the lease           *)
(* reconciler, the cancellation endpoint, and the document version the job *)
(* builds and activates.                                                   *)
(*                                                                         *)
(* Where a transaction takes its locks before it reads, it is one action.  *)
(* Where it reads rows and commits what follows from them later, what it   *)
(* reads and its commit are two actions; the commit writes the columns     *)
(* that differ from what was read.  A call to the broker is one action.    *)
(* Time is abstract: a lease or an outbox claim that is live may expire at *)
(* any later moment, and a due time ("retry after 30 s") may be any later  *)
(* moment.                                                                 *)
(*                                                                         *)
(*   status, stage, attempt, lease, cancelAsked                            *)
(*       the ingestion_jobs row.  lease abstracts lease_owner and          *)
(*       lease_expires_at, which are NULL together                         *)
(*   attStatus, receiptAt                                                    *)
(*       the ingestion_attempts rows by attempt_no ("overdue" is running   *)
(*       with lease_expires_at in the past), and the stage of the          *)
(*       attempt's 'retrying' receipt, 0 if none                           *)
(*   version, active, docStatus, chunks, newDone                           *)
(*       the version and its document.  chunks is the attempt whose chunk  *)
(*       rows the version has, 0 for none                                  *)
(*   outbox, claimStale, dpc                                               *)
(*       the outbox_events row and where each dispatcher is                *)
(*   queue                                                                 *)
(*       ready messages by the number of Celery retries they used          *)
(*   pc, att, at, expected, retries, seen                                  *)
(*       a worker process: where it is, its attempt, the stage it is in or *)
(*       about to enter, its snapshot of active_version_id, its message,   *)
(*       and what its exception handler read                               *)
(*   cpc, cSeen, rec                                                       *)
(*       a cancellation request, and the lease reconciler, between what    *)
(*       they read and their commit                                        *)
(*   workerCrashes, dispatcherCrashes, faults, outages, cancels            *)
(*       counts that keep the environment within the bounds below          *)
(***************************************************************************)
EXTENDS Integers

CONSTANTS
    Workers,               \* Celery worker processes
    Dispatchers,           \* processes that dispatch the outbox (API, beat task)
    PlainStages,           \* stages between validating and indexing: 4 in STAGES
    MaxRetries,            \* settings.INGESTION_MAX_RETRIES
    Slow,                  \* TRUE: a live worker or dispatcher may outlast its lease
    MaxAttempts,           \* bound: attempts a worker can claim
    MaxWorkerCrashes,      \* bound: worker processes killed
    MaxDispatcherCrashes,  \* bound: dispatchers killed
    MaxFaults,             \* bound: transient failures of storage, gateway, broker
    MaxOutages,            \* bound: database failures outside the try block
    MaxCancels             \* bound: cancellation requests

ASSUME BoundsAssumption ==
    /\ PlainStages \in Nat
    /\ MaxRetries \in Nat
    /\ Slow \in BOOLEAN
    /\ MaxAttempts \in Nat
    /\ MaxWorkerCrashes \in Nat
    /\ MaxDispatcherCrashes \in Nat
    /\ MaxFaults \in Nat
    /\ MaxOutages \in Nat
    /\ MaxCancels \in Nat

VARIABLES
    status, stage, attempt, lease, cancelAsked,
    attStatus, receiptAt,
    version, active, docStatus, chunks, newDone,
    outbox, claimStale, dpc,
    queue,
    pc, att, at, expected, retries, seen,
    cpc, cSeen, rec,
    workerCrashes, dispatcherCrashes, faults, outages, cancels

jobVars == <<status, stage, attempt, lease, cancelAsked>>
attemptVars == <<attStatus, receiptAt>>
docVars == <<version, active, docStatus, chunks, newDone>>
outboxVars == <<outbox, claimStale, dpc>>
workerVars == <<pc, att, at, expected, retries, seen>>
cancelVars == <<cpc, cSeen>>
readVars == <<cancelVars, rec>>
budgets == <<workerCrashes, dispatcherCrashes, faults, outages, cancels>>
vars == <<jobVars, attemptVars, docVars, outboxVars, queue, workerVars,
          readVars, budgets>>

\* The cancellation endpoint writes an attempt row of its own: one more than
\* the attempts workers claim.
Attempts == 1 .. MaxAttempts + 1

(***************************************************************************)
(* STAGES of ingestion_tasks.py by position: validating; storing, parsing, *)
(* chunking and embedding, alike here; indexing; activating.               *)
(***************************************************************************)
Validating == 1
Indexing == PlainStages + 2
Activating == PlainStages + 3
Stages == Validating .. Activating

Open == {"queued", "running", "retrying"}
Terminal == {"completed", "failed", "cancelled"}

\* transition_job: the same status again is accepted and changes nothing.
TransitionAllowed(from, to) ==
    \/ from = to
    \/ from = "queued" /\ to \in {"running", "cancelled", "failed"}
    \/ from = "running" /\ to \in {"retrying", "completed", "failed", "cancelled"}
    \/ from = "retrying" /\ to \in {"running", "cancelled", "failed"}

\* The exceptions a stage ends with, as the exception handler tells them
\* apart: JobCancelled, any other IngestionJobError, everything else.
Exceptions == {"JobCancelled", "IngestionJobError", "Exception"}

\* Where a worker is inside run_ingestion_job.  It is about to commit the document's
\* status at "show", a stage at "start" or its lease alone at "renew", and the
\* activation at "commit".  A worker that raised stands at the exception handler
\* with the kind of its exception.
Working == {"advance", "start", "renew", "work", "clear", "insert", "smoke", "activate",
            "commit"}
WorkerPCs == {"idle", "begin", "show"} \cup Working \cup Exceptions

\* Nothing is written to documents.status.
Unwritten == "unwritten"

\* An exception handler that has not read the rows yet has seen nothing, and neither
\* has a cancellation request that is not under way.
Unread == [status |-> "queued", stage |-> 0, leased |-> FALSE, shown |-> Unwritten]
Nothing == [status |-> "queued", attempt |-> 0, shown |-> Unwritten]

\* Nor has a reconciler between two runs.
NothingStale == [attempts |-> {}, stage |-> 0]

\* The rows accept_source commits for a new document or for a new version of
\* an indexed one.
Init ==
    /\ status = "queued" /\ stage = Validating /\ attempt = 0 /\ lease = "none"
    /\ cancelAsked = FALSE
    /\ attStatus = [a \in Attempts |-> "none"]
    /\ receiptAt = [a \in Attempts |-> 0]
    /\ version = "pending" /\ active \in {"none", "old"}
    /\ docStatus = IF active = "none" THEN "uploaded" ELSE "indexed"
    /\ chunks = 0 /\ newDone = FALSE
    /\ outbox = "pending" /\ claimStale = FALSE
    /\ dpc = [d \in Dispatchers |-> "idle"]
    /\ queue = [r \in 0 .. MaxRetries |-> 0]
    /\ pc = [w \in Workers |-> "idle"] /\ att = [w \in Workers |-> 0]
    /\ at = [w \in Workers |-> Validating] /\ expected = [w \in Workers |-> "none"]
    /\ retries = [w \in Workers |-> 0] /\ seen = [w \in Workers |-> Unread]
    /\ cpc = "idle" /\ cSeen = Nothing /\ rec = NothingStale
    /\ workerCrashes = 0 /\ dispatcherCrashes = 0 /\ faults = 0 /\ outages = 0
    /\ cancels = 0

-----------------------------------------------------------------------------
(***************************************************************************)
(* Outbox dispatcher                                                       *)
(***************************************************************************)

\* dispatch_pending gives up on a dispatch claim older than the claim timeout.
ReapStaleDispatch ==
    /\ outbox = "dispatching" /\ claimStale
    /\ outbox' = "failed" /\ claimStale' = FALSE
    /\ UNCHANGED <<dpc, jobVars, attemptVars, docVars, queue, workerVars,
                   readVars, budgets>>

\* dispatch_one, under the row lock: a published event and a fresh claim of
\* another dispatcher are left alone; the claim commits before publishing.
ClaimOutbox(d) ==
    /\ dpc[d] = "idle"
    /\ outbox \in {"pending", "failed"} \/ (outbox = "dispatching" /\ claimStale)
    /\ outbox' = "dispatching" /\ claimStale' = FALSE
    /\ dpc' = [dpc EXCEPT ![d] = "claimed"]
    /\ UNCHANGED <<jobVars, attemptVars, docVars, queue, workerVars, readVars,
                   budgets>>

Enqueue(r) == queue' = [queue EXCEPT ![r] = @ + 1]

Publish(d) ==
    /\ dpc[d] = "claimed"
    /\ Enqueue(0)
    /\ dpc' = [dpc EXCEPT ![d] = "accepted"]
    /\ UNCHANGED <<outbox, claimStale, jobVars, attemptVars, docVars, workerVars,
                   readVars, budgets>>

\* publish raises: the broker may have taken the message all the same.
PublishRaises(d) ==
    /\ dpc[d] = "claimed" /\ faults < MaxFaults
    /\ faults' = faults + 1
    /\ Enqueue(0) \/ UNCHANGED queue
    /\ dpc' = [dpc EXCEPT ![d] = "refused"]
    /\ UNCHANGED <<outbox, claimStale, jobVars, attemptVars, docVars, workerVars,
                   readVars, workerCrashes, dispatcherCrashes, outages, cancels>>

\* The outcome is written without looking at the event again.
RecordDispatch(d) ==
    /\ dpc[d] \in {"accepted", "refused"}
    /\ outbox' = IF dpc[d] = "accepted" THEN "published" ELSE "failed"
    /\ claimStale' = FALSE
    /\ dpc' = [dpc EXCEPT ![d] = "idle"]
    /\ UNCHANGED <<jobVars, attemptVars, docVars, queue, workerVars, readVars,
                   budgets>>

DispatcherCrash(d) ==
    /\ dpc[d] # "idle" /\ dispatcherCrashes < MaxDispatcherCrashes
    /\ dispatcherCrashes' = dispatcherCrashes + 1
    /\ dpc' = [dpc EXCEPT ![d] = "idle"]
    /\ UNCHANGED <<outbox, claimStale, jobVars, attemptVars, docVars, queue,
                   workerVars, readVars, workerCrashes, faults, outages, cancels>>

\* INGESTION_OUTBOX_CLAIM_TIMEOUT_SECONDS pass after a dispatch claim.
DispatchClaimTimesOut ==
    /\ outbox = "dispatching" /\ ~claimStale
    /\ Slow \/ \A d \in Dispatchers : dpc[d] = "idle"
    /\ claimStale' = TRUE
    /\ UNCHANGED <<outbox, dpc, jobVars, attemptVars, docVars, queue, workerVars,
                   readVars, budgets>>

-----------------------------------------------------------------------------
(***************************************************************************)
(* Delivery: a message is acknowledged when its task ends (acks_late) and  *)
(* goes back to the queue when the worker process is lost.                 *)
(***************************************************************************)

Dequeue(r) == queue' = [queue EXCEPT ![r] = @ - 1]

\* Mutant: the task is not retried.
NeverRedelivered(r) == {}

\* Celery's autoretry: another message with one more retry used, unless
\* max_retries are, and the message just handled is acknowledged.
Redelivered(r) == IF r < MaxRetries THEN {r + 1} ELSE {}

\* Mutants: the UPDATE looks at the lease alone, at the status alone, or leaves
\* jobs that wait for a retry.
ClaimsUnleased == lease # "live"
ClaimsOpen == status \in Open
ClaimsQueued == status = "queued" \/ (status = "running" /\ lease # "live")

\* The condition of _claim_job's UPDATE.
CanClaim == status \in {"queued", "retrying"} \/ (status = "running" /\ lease # "live")

\* _claim_job: one UPDATE takes the job and its lease and numbers the attempt.
ClaimJob(w, r) ==
    /\ pc[w] = "idle" /\ queue[r] > 0
    /\ CanClaim /\ attempt < MaxAttempts
    /\ Dequeue(r)
    /\ status' = "running" /\ attempt' = attempt + 1 /\ lease' = "live"
    /\ attStatus' = [attStatus EXCEPT ![attempt + 1] = "running"]
    /\ pc' = [pc EXCEPT ![w] = "begin"]
    /\ att' = [att EXCEPT ![w] = attempt + 1]
    /\ retries' = [retries EXCEPT ![w] = r]
    /\ UNCHANGED <<stage, cancelAsked, receiptAt, docVars, outboxVars, at, expected, seen,
                   readVars, budgets>>

\* RetryableIngestionError before any effect: the lease is held, or the job failed or
\* was cancelled after the task first read it.
ClaimRefused(w, r) ==
    /\ pc[w] = "idle" /\ queue[r] > 0
    /\ status # "completed" /\ ~CanClaim
    /\ queue' = [q \in 0 .. MaxRetries |->
                    IF q = r THEN queue[q] - 1
                    ELSE IF q \in Redelivered(r) THEN queue[q] + 1 ELSE queue[q]]
    /\ UNCHANGED <<jobVars, attemptVars, docVars, outboxVars, workerVars, readVars,
                   budgets>>

\* Mutant: a message is acknowledged twice.
DiscardTwice(w, r) ==
    /\ pc[w] = "idle" /\ status \in Terminal
    /\ Dequeue(r)
    /\ UNCHANGED <<jobVars, attemptVars, docVars, outboxVars, workerVars, readVars,
                   budgets>>

\* A completed job is skipped, a failed or cancelled one raises a permanent
\* error: the message is acknowledged without an effect either way.
DiscardDelivery(w, r) ==
    /\ pc[w] = "idle" /\ queue[r] > 0 /\ status \in Terminal
    /\ Dequeue(r)
    /\ UNCHANGED <<jobVars, attemptVars, docVars, outboxVars, workerVars, readVars,
                   budgets>>

-----------------------------------------------------------------------------
(***************************************************************************)
(* run_ingestion_job after the claim                                       *)
(***************************************************************************)

\* The task ends and its message is acknowledged; the process keeps nothing.
EndTask(w) ==
    /\ pc' = [pc EXCEPT ![w] = "idle"]
    /\ att' = [att EXCEPT ![w] = 0]
    /\ at' = [at EXCEPT ![w] = Validating]
    /\ expected' = [expected EXCEPT ![w] = "none"]
    /\ retries' = [retries EXCEPT ![w] = 0]
    /\ seen' = [seen EXCEPT ![w] = Unread]

Raise(w, e) == pc' = [pc EXCEPT ![w] = e]

\* A worker between the compare-and-swap and the commit of its activation holds the
\* locks on the rows of the version and of the document.
RowsLocked == \E w \in Workers : pc[w] = "commit"

\* Snapshot of the active version.  The document is to be shown as processing; a row
\* that says so already is not written.
Begin(w) ==
    /\ pc[w] = "begin"
    /\ expected' = [expected EXCEPT ![w] = active]
    /\ pc' = [pc EXCEPT ![w] = IF docStatus = "processing" THEN "advance" ELSE "show"]
    /\ UNCHANGED <<jobVars, attemptVars, docVars, outboxVars, queue, att, at, retries, seen,
                   readVars, budgets>>

ShowProcessing(w) ==
    /\ pc[w] = "show" /\ ~RowsLocked
    /\ docStatus' = "processing"
    /\ pc' = [pc EXCEPT ![w] = "advance"]
    /\ UNCHANGED <<jobVars, attemptVars, version, active, chunks, newDone, outboxVars,
                   queue, att, at, expected, retries, seen, readVars, budgets>>

\* What follows the commit of each stage's start.
AfterStart(s) ==
    CASE s = Validating -> "advance"
      [] s = Indexing -> "clear"
      [] s = Activating -> "activate"
      [] OTHER -> "work"

\* _validate_stage_transition: the successor of the row's stage, or a rewind.
StageFollows(s) == s = Validating \/ s = stage + 1

\* Mutant: the lease is extended whether the job has an owner or not.
AlwaysRenewable == TRUE

\* Only a job with a lease owner has its lease extended.
Renewable == lease # "none"

\* _advance_stage looks neither at the job's status nor at who holds the lease.  A
\* cancellation is noticed in _emit_event.  A job without a lease would give the
\* attempt a NULL lease_expires_at, which the column refuses.  The stage is
\* written unless it is the one read.
Advance(w) ==
    /\ pc[w] = "advance"
    /\ pc' = [pc EXCEPT ![w] =
                  CASE ~StageFollows(at[w]) -> "IngestionJobError"
                    [] StageFollows(at[w]) /\ cancelAsked -> "JobCancelled"
                    [] StageFollows(at[w]) /\ ~cancelAsked /\ ~Renewable -> "Exception"
                    [] OTHER -> IF stage = at[w] THEN "renew" ELSE "start"]
    /\ UNCHANGED <<jobVars, attemptVars, docVars, outboxVars, queue, att, at, expected,
                   retries, seen, readVars, budgets>>

\* Its commit.  When the lease was cleared since, the job would have a lease that
\* expires and no owner (ck_ingestion_jobs_lease_owner).
StartStage(w) ==
    /\ pc[w] \in {"start", "renew"}
    /\ IF Renewable
       THEN /\ stage' = IF pc[w] = "start" THEN at[w] ELSE stage
            /\ lease' = "live"
            /\ attStatus' = [attStatus EXCEPT ![att[w]] = IF @ = "overdue" THEN "running" ELSE @]
            /\ pc' = [pc EXCEPT ![w] = AfterStart(at[w])]
            /\ at' = [at EXCEPT ![w] = IF @ = Validating THEN @ + 1 ELSE @]
       ELSE /\ Raise(w, "Exception")
            /\ UNCHANGED <<stage, lease, attStatus, at>>
    /\ UNCHANGED <<status, attempt, cancelAsked, receiptAt, docVars, outboxVars,
                   queue, att, expected, retries, seen, readVars, budgets>>

\* storing, parsing, chunking or embedding ends well.
StageDone(w) ==
    /\ pc[w] = "work"
    /\ pc' = [pc EXCEPT ![w] = "advance"]
    /\ at' = [at EXCEPT ![w] = @ + 1]
    /\ UNCHANGED <<jobVars, attemptVars, docVars, outboxVars, queue, att, expected,
                   retries, seen, readVars, budgets>>

\* The source cannot be ingested: checksum, empty text, policy, zero chunks,
\* wrong embeddings.
SourceRejected(w) ==
    /\ pc[w] = "work"
    /\ Raise(w, "IngestionJobError")
    /\ UNCHANGED <<jobVars, attemptVars, docVars, outboxVars, queue, att, at, expected,
                   retries, seen, readVars, budgets>>

\* Storage, the embedding gateway or the database fails for a moment, or the
\* soft time limit is reached.
TransientFault(w) ==
    /\ pc[w] \in Working /\ faults < MaxFaults
    /\ faults' = faults + 1
    /\ Raise(w, "Exception")
    /\ UNCHANGED <<jobVars, attemptVars, docVars, outboxVars, queue, att, at, expected,
                   retries, seen, readVars, workerCrashes, dispatcherCrashes, outages,
                   cancels>>

\* Mutant: the rows of an earlier attempt are kept.
ClearNothing(w) ==
    /\ pc[w] = "clear"
    /\ pc' = [pc EXCEPT ![w] = IF chunks = 0 THEN "insert" ELSE "smoke"]
    /\ UNCHANGED <<jobVars, attemptVars, docVars, outboxVars, queue, att, at, expected,
                   retries, seen, readVars, budgets>>

\* indexing, first transaction: the chunk rows of the version go, whoever
\* wrote them (_clear_existing_chunks_for_version).
ClearChunks(w) ==
    /\ pc[w] = "clear"
    /\ chunks' = 0
    /\ pc' = [pc EXCEPT ![w] = "insert"]
    /\ UNCHANGED <<jobVars, attemptVars, version, active, docStatus, newDone, outboxVars,
                   queue, att, at, expected, retries, seen, readVars, budgets>>

\* indexing, second transaction: rows of another attempt make the insert
\* violate uq_chunks_version_sequence.
InsertChunks(w) ==
    /\ pc[w] = "insert"
    /\ IF chunks = 0
       THEN chunks' = att[w] /\ pc' = [pc EXCEPT ![w] = "smoke"]
       ELSE chunks' = chunks /\ Raise(w, "Exception")
    /\ UNCHANGED <<jobVars, attemptVars, version, active, docStatus, newDone, outboxVars,
                   queue, att, at, expected, retries, seen, readVars, budgets>>

\* The smoke retrieval looks for any row of the version.
SmokeCheck(w) ==
    /\ pc[w] = "smoke"
    /\ IF chunks # 0
       THEN pc' = [pc EXCEPT ![w] = "advance"] /\ at' = [at EXCEPT ![w] = @ + 1]
       ELSE Raise(w, "IngestionJobError") /\ UNCHANGED at
    /\ UNCHANGED <<jobVars, attemptVars, docVars, outboxVars, queue, att, expected,
                   retries, seen, readVars, budgets>>

\* The compare of activate_document_version's compare-and-swap.
StillExpected(w) == active = expected[w]

\* activating: the version and then the document are updated, and stay locked, in
\* activate_document_version, which compares the active version with the snapshot.
\* Then the job is read, and the event sees a cancellation.  Whatever raises undoes
\* all of it.
SwapActive(w) ==
    /\ pc[w] = "activate" /\ ~RowsLocked
    /\ pc' = [pc EXCEPT ![w] =
                  IF ~StillExpected(w) \/ ~TransitionAllowed(status, "completed") THEN "Exception"
                  ELSE IF cancelAsked THEN "JobCancelled" ELSE "commit"]
    /\ UNCHANGED <<jobVars, attemptVars, docVars, outboxVars, queue, att, at, expected,
                   retries, seen, readVars, budgets>>

\* Its commit completes the job that was read running, also when the reconciler has
\* taken it back since or another worker has claimed it.  Nothing that ends the job
\* commits while the rows are locked.
Activate(w) ==
    /\ pc[w] = "commit"
    /\ version' = "ready" /\ active' = "this" /\ docStatus' = "indexed"
    /\ status' = "completed" /\ lease' = "none"
    /\ attStatus' = [attStatus EXCEPT ![att[w]] = "completed"]
    /\ EndTask(w)
    /\ UNCHANGED <<stage, attempt, cancelAsked, receiptAt, chunks, newDone, outboxVars,
                   queue, readVars, budgets>>

\* The job status the exception handler asks for, and the attempt's.
HandlerStatus(e) == CASE e = "JobCancelled" -> "cancelled"
                      [] e = "IngestionJobError" -> "failed"
                      [] e = "Exception" -> "retrying"
HandlerAttempt(e) == IF e = "JobCancelled" THEN "cancelled" ELSE "failed"

\* A row that says so already is not written.
Written(shown) == IF shown = docStatus THEN Unwritten ELSE shown
Show(shown) == docStatus' = IF shown = Unwritten THEN docStatus ELSE shown

\* Mutant: the document is only touched when it has no active version.
ShownUnchanged == IF active = "none" THEN "error" ELSE docStatus

\* documents.status after a failed attempt.
ShownAfterFailure == IF active = "none" THEN "error" ELSE "indexed"

\* The job it reads has a status the transition table does not lead on from, or the
\* event raises JobCancelled once more.
CannotHandle(w) == ~TransitionAllowed(status, HandlerStatus(pc[w])) \/ cancelAsked

\* except Exception: after the rollback the handler reads the job, the attempt, the
\* version and the document without a lock.
ReadFailed(w) ==
    /\ pc[w] \in Exceptions /\ seen[w] = Unread /\ ~CannotHandle(w)
    /\ seen' = [seen EXCEPT ![w] = [status |-> status, stage |-> stage,
                                   leased |-> lease # "none",
                                   shown |-> Written(ShownAfterFailure)]]
    /\ UNCHANGED <<jobVars, attemptVars, docVars, outboxVars, queue, pc, att, at, expected,
                   retries, readVars, budgets>>

\* Mutant: terminal rows have no trigger.
HandlerStepConflicts(w) == pc[w] = "Exception" /\ receiptAt[att[w]] = seen[w].stage

\* Its commit fails when it writes a status and the job has ended with another one
\* (trg_cv3_guard_terminal_ingestion_job), or the receipt of this step exists.
HandlerConflicts(w) ==
    \/ status \in Terminal /\ HandlerStatus(pc[w]) \notin {status, seen[w].status}
    \/ pc[w] = "Exception" /\ receiptAt[att[w]] = seen[w].stage

\* The outcome of a failed attempt becomes durable, and a transient failure is handed
\* to Celery's autoretry.  A status and a lease that were read as they should be are
\* not written: a lease that another worker took since is left to a failed job.
HandleException(w) ==
    /\ pc[w] \in Exceptions /\ seen[w] # Unread /\ ~HandlerConflicts(w) /\ ~RowsLocked
    /\ status' = IF HandlerStatus(pc[w]) = seen[w].status THEN status ELSE HandlerStatus(pc[w])
    /\ lease' = IF seen[w].leased THEN "none" ELSE lease
    /\ attStatus' = [attStatus EXCEPT ![att[w]] = HandlerAttempt(pc[w])]
    /\ Show(seen[w].shown)
    /\ IF pc[w] = "Exception"
       THEN /\ queue' = [q \in 0 .. MaxRetries |->
                            IF q \in Redelivered(retries[w]) THEN queue[q] + 1 ELSE queue[q]]
            /\ receiptAt' = [receiptAt EXCEPT ![att[w]] = seen[w].stage]
            /\ UNCHANGED version
       ELSE /\ version' = "failed"
            /\ UNCHANGED <<queue, receiptAt>>
    /\ EndTask(w)
    /\ UNCHANGED <<stage, attempt, cancelAsked, active, chunks, newDone,
                   outboxVars, readVars, budgets>>

\* Nothing of the outcome is written and Celery sees an exception it does not
\* retry.
HandlerRaises(w) ==
    /\ pc[w] \in Exceptions
    /\ IF seen[w] = Unread THEN CannotHandle(w) ELSE HandlerConflicts(w)
    /\ EndTask(w)
    /\ UNCHANGED <<jobVars, attemptVars, docVars, outboxVars, queue, readVars, budgets>>

\* The database fails where no except clause turns the failure into a
\* RetryableIngestionError: in the claim, before the try block, in the handler.
\* Celery does not retry the task and acknowledges its message.
OutageOnDelivery(w, r) ==
    /\ pc[w] = "idle" /\ queue[r] > 0 /\ outages < MaxOutages
    /\ outages' = outages + 1
    /\ Dequeue(r)
    /\ UNCHANGED <<jobVars, attemptVars, docVars, outboxVars, workerVars, readVars,
                   workerCrashes, dispatcherCrashes, faults, cancels>>

OutageInTask(w) ==
    /\ pc[w] \in {"begin", "show"} \cup Exceptions /\ outages < MaxOutages
    /\ outages' = outages + 1
    /\ EndTask(w)
    /\ UNCHANGED <<jobVars, attemptVars, docVars, outboxVars, queue, readVars,
                   workerCrashes, dispatcherCrashes, faults, cancels>>

\* kill -9, OOM, restart: the broker requeues the message.
WorkerCrash(w) ==
    /\ pc[w] # "idle" /\ workerCrashes < MaxWorkerCrashes
    /\ workerCrashes' = workerCrashes + 1
    /\ EndTask(w)
    /\ Enqueue(retries[w])
    /\ UNCHANGED <<jobVars, attemptVars, docVars, outboxVars, readVars,
                   dispatcherCrashes, faults, outages, cancels>>

-----------------------------------------------------------------------------
(***************************************************************************)
(* Leases.  Each renewal gives the job and the renewing attempt the same   *)
(* expiry, so no other attempt's lease outlives the job's.                 *)
(***************************************************************************)

ExpireAttempt(a) ==
    /\ attStatus[a] = "running"
    /\ Slow \/ \A w \in Workers : att[w] # a
    /\ attStatus' = [attStatus EXCEPT ![a] = "overdue"]
    /\ UNCHANGED <<jobVars, receiptAt, docVars, outboxVars, queue, workerVars, readVars,
                   budgets>>

ExpireJobLease ==
    /\ lease = "live"
    /\ \A a \in Attempts : attStatus[a] # "running"
    /\ Slow \/ \A w \in Workers : pc[w] = "idle"
    /\ lease' = "expired"
    /\ UNCHANGED <<status, stage, attempt, cancelAsked, attemptVars, docVars, outboxVars,
                   queue, workerVars, readVars, budgets>>

Overdue == {a \in Attempts : attStatus[a] = "overdue"}

\* reconcile_stale_leases reads the overdue attempts and then the job, without a
\* lock.  It takes back a job it sees running, whether the overdue attempt is
\* the job's current one or not.
ReadStaleLeases ==
    /\ rec = NothingStale /\ Overdue # {}
    /\ rec' = [attempts |-> Overdue, stage |-> IF status = "running" THEN stage ELSE 0]
    /\ UNCHANGED <<jobVars, attemptVars, docVars, outboxVars, queue, workerVars,
                   cancelVars, budgets>>

\* Mutant: terminal rows have no trigger.
ConflictsOnReceipt(a) == receiptAt[a] = rec.stage

\* The commit fails when the job it takes back has become terminal
\* (trg_cv3_guard_terminal_ingestion_job), or when the attempt's own worker has
\* written the receipt in the meantime (uq_ingestion_receipt_step).
TakeBackConflicts(a) == status \in Terminal \/ receiptAt[a] = rec.stage

StaleAttempts ==
    attStatus' = [a \in Attempts |-> IF a \in rec.attempts THEN "stale" ELSE attStatus[a]]

\* Every attempt read becomes stale, whatever it is by now; the first of them
\* takes the job back and has a 'retrying' receipt written.
CommitStaleLeases ==
    /\ rec # NothingStale
    /\ rec' = NothingStale
    /\ \/ /\ rec.stage = 0
          /\ StaleAttempts
          /\ UNCHANGED <<status, lease, receiptAt>>
       \/ \E a \in rec.attempts :
             /\ rec.stage # 0
             /\ IF TakeBackConflicts(a)
                THEN UNCHANGED <<status, lease, attStatus, receiptAt>>
                ELSE /\ status' = "retrying" /\ lease' = "none"
                     /\ receiptAt' = [receiptAt EXCEPT ![a] = rec.stage]
                     /\ StaleAttempts
    /\ UNCHANGED <<stage, attempt, cancelAsked, docVars, outboxVars, queue, workerVars,
                   cancelVars, budgets>>

-----------------------------------------------------------------------------
(***************************************************************************)
(* POST /ingestion-jobs/{id}/cancel: no row lock between read and commit.  *)
(***************************************************************************)

ReadForCancel ==
    /\ cpc = "idle" /\ cancels < MaxCancels
    /\ status \in Open
    /\ status = "running" => ~cancelAsked
    /\ cancels' = cancels + 1
    /\ cpc' = "read"
    /\ cSeen' = [status |-> status, attempt |-> attempt,
                 shown |-> IF active = "none" THEN Written("error") ELSE Unwritten]
    /\ UNCHANGED <<jobVars, attemptVars, docVars, outboxVars, queue, workerVars,
                   rec, workerCrashes, dispatcherCrashes, faults, outages>>

\* The job was seen running: only the request is recorded.
RecordCancelRequest ==
    /\ cpc = "read" /\ cSeen.status = "running"
    /\ cancelAsked' = TRUE
    /\ cpc' = "idle" /\ cSeen' = Nothing
    /\ UNCHANGED <<status, stage, attempt, lease, attemptVars, docVars, outboxVars, queue,
                   workerVars, rec, budgets>>

\* Mutant: attempt rows have no unique number.
ConflictsWhenTerminal == status \in Terminal

\* The command's attempt row would repeat a number taken since
\* (uq_ingestion_attempt_job_no), or the job has become terminal
\* (trg_cv3_guard_terminal_ingestion_job).
CancelConflicts == attempt # cSeen.attempt \/ status \in Terminal

CancelWaitingJob ==
    /\ cpc = "read" /\ cSeen.status # "running" /\ ~CancelConflicts /\ ~RowsLocked
    /\ status' = "cancelled" /\ attempt' = cSeen.attempt + 1 /\ cancelAsked' = TRUE
    /\ attStatus' = [attStatus EXCEPT ![cSeen.attempt + 1] = "cancelled"]
    /\ version' = "failed" /\ Show(cSeen.shown)
    /\ cpc' = "idle" /\ cSeen' = Nothing
    /\ UNCHANGED <<stage, lease, receiptAt, active, chunks, newDone, outboxVars, queue,
                   workerVars, rec, budgets>>

CancelFails ==
    /\ cpc = "read" /\ cSeen.status # "running" /\ CancelConflicts
    /\ cpc' = "idle" /\ cSeen' = Nothing
    /\ UNCHANGED <<jobVars, attemptVars, docVars, outboxVars, queue, workerVars, rec, budgets>>

-----------------------------------------------------------------------------
\* Another job of the same document activates its version: the same last
\* transaction, seen from this job.
NewVersionActivates ==
    /\ ~newDone /\ ~RowsLocked
    /\ newDone' = TRUE
    /\ active' = "new" /\ docStatus' = "indexed"
    /\ version' = IF active = "this" THEN "superseded" ELSE version
    /\ UNCHANGED <<chunks, jobVars, attemptVars, outboxVars, queue, workerVars,
                   readVars, budgets>>

DispatcherStep(d) == ClaimOutbox(d) \/ Publish(d) \/ PublishRaises(d) \/ RecordDispatch(d)

TakeDelivery(w) == \E r \in 0 .. MaxRetries :
    ClaimJob(w, r) \/ ClaimRefused(w, r) \/ DiscardDelivery(w, r)

\* What a worker does by itself once it holds a message.
WorkerStep(w) ==
    \/ Begin(w) \/ ShowProcessing(w) \/ Advance(w) \/ StartStage(w) \/ StageDone(w)
    \/ ClearChunks(w) \/ InsertChunks(w) \/ SmokeCheck(w) \/ SwapActive(w) \/ Activate(w)
    \/ ReadFailed(w) \/ HandleException(w) \/ HandlerRaises(w)

Mishap ==
    \/ \E w \in Workers :
          \/ SourceRejected(w) \/ TransientFault(w) \/ WorkerCrash(w) \/ OutageInTask(w)
          \/ \E r \in 0 .. MaxRetries : OutageOnDelivery(w, r)
    \/ \E d \in Dispatchers : DispatcherCrash(d)

Cancellation == ReadForCancel \/ RecordCancelRequest \/ CancelWaitingJob \/ CancelFails

Next ==
    \/ \E d \in Dispatchers : DispatcherStep(d)
    \/ ReapStaleDispatch \/ DispatchClaimTimesOut
    \/ \E w \in Workers : TakeDelivery(w) \/ WorkerStep(w)
    \/ Mishap
    \/ (\E a \in Attempts : ExpireAttempt(a)) \/ ExpireJobLease
    \/ ReadStaleLeases \/ CommitStaleLeases
    \/ Cancellation
    \/ NewVersionActivates

Spec == Init /\ [][Next]_vars

\* Processes that are not killed go on, the beat tasks are due again and
\* again, time passes.  Nothing makes a fault, a crash or a cancellation
\* happen, and a worker may prefer any message it is offered.
Fairness ==
    /\ \A d \in Dispatchers : WF_vars(DispatcherStep(d))
    /\ WF_vars(ReapStaleDispatch) /\ WF_vars(DispatchClaimTimesOut)
    /\ \A w \in Workers : WF_vars(WorkerStep(w))
    /\ WF_vars(\E w \in Workers : TakeDelivery(w))
    /\ WF_vars(\E a \in Attempts : ExpireAttempt(a)) /\ WF_vars(ExpireJobLease)
    /\ WF_vars(ReadStaleLeases) /\ WF_vars(CommitStaleLeases)

FairSpec == Spec /\ Fairness

-----------------------------------------------------------------------------
(***************************************************************************)
(* Correctness                                                             *)
(***************************************************************************)

JobTypes ==
    /\ status \in Open \cup Terminal /\ stage \in Stages /\ attempt \in 0 .. MaxAttempts + 1
    /\ lease \in {"none", "live", "expired"}
AttemptTypes ==
    /\ attStatus \in [Attempts -> {"none", "running", "overdue", "completed", "failed",
                                   "cancelled", "stale"}]
    /\ receiptAt \in [Attempts -> {0} \cup Stages]
DocTypes ==
    /\ version \in {"pending", "ready", "failed", "superseded"}
    /\ active \in {"none", "old", "this", "new"}
    /\ docStatus \in {"uploaded", "processing", "indexed", "error"}
    /\ chunks \in 0 .. MaxAttempts
DeliveryTypes ==
    /\ outbox \in {"pending", "dispatching", "failed", "published"}
    /\ dpc \in [Dispatchers -> {"idle", "claimed", "accepted", "refused"}]
    /\ queue \in [0 .. MaxRetries -> Nat]
WorkerTypes ==
    /\ pc \in [Workers -> WorkerPCs] /\ att \in [Workers -> 0 .. MaxAttempts]
    /\ at \in [Workers -> Stages]
    /\ expected \in [Workers -> {"none", "old", "this", "new"}]
    /\ retries \in [Workers -> 0 .. MaxRetries]
    /\ seen \in [Workers -> [status : Open \cup Terminal, stage : {0} \cup Stages,
                             leased : BOOLEAN, shown : {"error", "indexed", Unwritten}]]
FlagTypes == cancelAsked \in BOOLEAN /\ newDone \in BOOLEAN /\ claimStale \in BOOLEAN
ReadTypes ==
    /\ cpc \in {"idle", "read"}
    /\ cSeen \in [status : Open, attempt : 0 .. MaxAttempts, shown : {"error", Unwritten}]
    /\ rec \in [attempts : SUBSET Attempts, stage : {0} \cup Stages]
BudgetTypes ==
    /\ workerCrashes \in Nat /\ dispatcherCrashes \in Nat /\ faults \in Nat
    /\ outages \in Nat /\ cancels \in Nat

\* Every variable stays within its column's or its process's values; the
\* broker never holds a negative number of messages.
TypeOK ==
    /\ JobTypes /\ AttemptTypes /\ DocTypes /\ DeliveryTypes /\ WorkerTypes
    /\ FlagTypes /\ ReadTypes /\ BudgetTypes

\* A running job carries a lease, whichever of a live worker, a worker that lost
\* its lease, the reconciler and the cancellation endpoint wrote it last; a job that
\* waits, was completed or was cancelled carries none.  (A failed one may: a late
\* worker fails the job it read waiting, after another worker has claimed it.)
LeaseWhileRunning ==
    /\ status = "running" => lease # "none"
    /\ lease # "none" => status \in {"running", "failed"}

\* Job, version and active pointer agree at every commit: a version is ready
\* exactly while it is the active one, a completed job's version is ready or
\* has been replaced, and the version of a failed or cancelled job is failed
\* and was never made active.
VersionFollowsJob ==
    /\ version = "pending" <=> status \in Open
    /\ version = "failed" <=> status \in {"failed", "cancelled"}
    /\ version = "ready" <=> active = "this"

\* However often the message is delivered and however many workers run the
\* job at once, one attempt at most completes, and the job completed with it.
OneCompletion ==
    \A a, b \in Attempts :
        attStatus[a] = "completed" /\ attStatus[b] = "completed" =>
            a = b /\ status = "completed"

\* A worker left over from an earlier delivery, the reconciler and a cancellation
\* change neither the outcome nor the attempt of a job that has ended, nor the stage
\* or the lease of one that was completed or cancelled.
EndedJobIsFrozen ==
    [][/\ status \in Terminal => UNCHANGED <<status, attempt>>
       /\ status \in {"completed", "cancelled"} => UNCHANGED <<stage, lease>>]_vars

\* The control plane implements the life of a job that readers rely on.
JL == INSTANCE JobLifecycle
LifecycleRefined == JL!JLSpec

\* While workers keep their leases, no two of them are in a task of the job,
\* whatever duplicates of its message the broker holds.
OneWorkerAtATime ==
    \A v, w \in Workers : pc[v] # "idle" /\ pc[w] # "idle" => v = w

\* Every job that has not ended is still carried by somebody: an outbox event
\* to dispatch, a message, or a worker.
JobHasCarrier ==
    status \in Open =>
        \/ outbox # "published"
        \/ \E r \in 0 .. MaxRetries : queue[r] > 0
        \/ \E w \in Workers : pc[w] # "idle"

\* A version is activated with the chunk rows of the very attempt that completes, and
\* has these rows while it is active: no earlier attempt, killed, failed or late, left
\* its rows there.
ActiveVersionIndexed ==
    [][/\ active # "this" /\ active' = "this" => chunks # 0 /\ attStatus'[chunks] = "completed"
       /\ active = "this" => chunks' = chunks]_vars

\* Once the job has ended and no worker is on it, the document does not stay
\* shown as being processed.
DocumentStatusSettles ==
    status \in Terminal /\ (\A w \in Workers : pc[w] = "idle") =>
        docStatus # "processing"

\* A completed job is a no-op on redelivery or retry: nobody embeds or writes
\* the chunk rows of its version again.
CompletedIndexUntouched == [][status = "completed" => chunks' = chunks]_vars

\* Every accepted job ends.
EveryJobEnds == <>(status \in Terminal)

\* A job that was asked to stop while it ran ends.
CancelRequestEndsJob == cancelAsked ~> (status \in Terminal)
=============================================================================
