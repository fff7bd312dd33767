------------------------- MODULE IngestionJobProofs -------------------------
(***************************************************************************)
(* Proofs about IngestionJob for any number of workers, dispatchers,       *)
(* stages, retries and attempts, and any number of crashes, faults and     *)
(* cancellations: the bounds of a run are constants here.                  *)
(***************************************************************************)
EXTENDS IngestionJob, TLAPS

-----------------------------------------------------------------------------
(***************************************************************************)
(* Who writes what: the actions that change each group of variables.       *)
(***************************************************************************)

\* The only steps that write the ingestion_jobs row.
LEMMA JobWriters ==
    ASSUME [Next]_vars
    PROVE \/ UNCHANGED jobVars
          \/ \E w \in Workers : \/ \E r \in 0 .. MaxRetries : ClaimJob(w, r)
                                \/ StartStage(w) \/ Activate(w) \/ HandleException(w)
          \/ ExpireJobLease \/ CommitStaleLeases
          \/ RecordCancelRequest \/ CancelWaitingJob
BY DEF Next, vars, DispatcherStep, TakeDelivery, WorkerStep, Mishap, Cancellation,
       ClaimOutbox, Publish, PublishRaises, RecordDispatch, DispatcherCrash,
       ReapStaleDispatch, DispatchClaimTimesOut, ClaimRefused, DiscardDelivery, Begin,
       ShowProcessing, Advance, StageDone, ClearChunks, InsertChunks, SmokeCheck,
       SwapActive, ReadFailed, HandlerRaises, SourceRejected, TransientFault, WorkerCrash,
       OutageInTask, OutageOnDelivery, ExpireAttempt, ReadStaleLeases, ReadForCancel,
       CancelFails, NewVersionActivates

\* The only steps that write an attempt row or the receipt of a reconciled one.
LEMMA AttemptWriters ==
    ASSUME [Next]_vars
    PROVE \/ UNCHANGED attemptVars
          \/ \E w \in Workers : \/ \E r \in 0 .. MaxRetries : ClaimJob(w, r)
                                \/ StartStage(w) \/ Activate(w) \/ HandleException(w)
          \/ (\E a \in Attempts : ExpireAttempt(a)) \/ CommitStaleLeases
          \/ CancelWaitingJob
BY DEF Next, vars, DispatcherStep, TakeDelivery, WorkerStep, Mishap, Cancellation,
       ClaimOutbox, Publish, PublishRaises, RecordDispatch, DispatcherCrash,
       ReapStaleDispatch, DispatchClaimTimesOut, ClaimRefused, DiscardDelivery, Begin,
       ShowProcessing, Advance, StageDone, ClearChunks, InsertChunks, SmokeCheck,
       SwapActive, ReadFailed, HandlerRaises, SourceRejected, TransientFault, WorkerCrash,
       OutageInTask, OutageOnDelivery, ExpireJobLease, ReadStaleLeases, ReadForCancel,
       RecordCancelRequest, CancelFails, NewVersionActivates

\* The only steps that write the version, its document or its chunk rows.
LEMMA DocWriters ==
    ASSUME [Next]_vars
    PROVE \/ UNCHANGED docVars
          \/ \E w \in Workers : \/ ShowProcessing(w) \/ ClearChunks(w) \/ InsertChunks(w)
                                \/ Activate(w) \/ HandleException(w)
          \/ CancelWaitingJob \/ NewVersionActivates
BY DEF Next, vars, DispatcherStep, TakeDelivery, WorkerStep, Mishap, Cancellation,
       ClaimOutbox, Publish, PublishRaises, RecordDispatch, DispatcherCrash,
       ReapStaleDispatch, DispatchClaimTimesOut, ClaimJob, ClaimRefused, DiscardDelivery,
       Begin, Advance, StartStage, StageDone, SmokeCheck, SwapActive, ReadFailed,
       HandlerRaises, SourceRejected, TransientFault, WorkerCrash, OutageInTask,
       OutageOnDelivery, ExpireAttempt, ExpireJobLease, ReadStaleLeases, CommitStaleLeases,
       ReadForCancel, RecordCancelRequest, CancelFails

\* The only steps that touch the outbox event, the dispatchers or the messages.
LEMMA DeliveryWriters ==
    ASSUME [Next]_vars
    PROVE \/ UNCHANGED <<outboxVars, queue>>
          \/ \E d \in Dispatchers : DispatcherStep(d) \/ DispatcherCrash(d)
          \/ ReapStaleDispatch \/ DispatchClaimTimesOut
          \/ \E w \in Workers : \/ TakeDelivery(w) \/ HandleException(w) \/ WorkerCrash(w)
                                \/ \E r \in 0 .. MaxRetries : OutageOnDelivery(w, r)
BY DEF Next, vars, WorkerStep, Mishap, Cancellation, Begin, ShowProcessing, Advance,
       StartStage, StageDone, ClearChunks, InsertChunks, SmokeCheck, SwapActive, Activate,
       ReadFailed, HandlerRaises, SourceRejected, TransientFault, OutageInTask,
       ExpireAttempt, ExpireJobLease, ReadStaleLeases, CommitStaleLeases, ReadForCancel,
       RecordCancelRequest, CancelWaitingJob, CancelFails, NewVersionActivates

\* The only steps that move a worker process.
LEMMA WorkerWriters ==
    ASSUME [Next]_vars
    PROVE \/ UNCHANGED workerVars
          \/ \E w \in Workers : \/ \E r \in 0 .. MaxRetries : ClaimJob(w, r)
                                \/ WorkerStep(w) \/ SourceRejected(w) \/ TransientFault(w)
                                \/ WorkerCrash(w) \/ OutageInTask(w)
BY DEF Next, vars, DispatcherStep, TakeDelivery, Mishap, Cancellation, ClaimOutbox,
       Publish, PublishRaises, RecordDispatch, DispatcherCrash, ReapStaleDispatch,
       DispatchClaimTimesOut, ClaimRefused, DiscardDelivery, OutageOnDelivery,
       ExpireAttempt, ExpireJobLease, ReadStaleLeases, CommitStaleLeases, ReadForCancel,
       RecordCancelRequest, CancelWaitingJob, CancelFails, NewVersionActivates

\* Only the cancellation endpoint moves a cancellation request.
LEMMA CancelWriters ==
    ASSUME [Next]_vars
    PROVE UNCHANGED cancelVars \/ Cancellation
BY DEF Next, vars, readVars, DispatcherStep, TakeDelivery, WorkerStep, Mishap, ClaimOutbox,
       Publish, PublishRaises, RecordDispatch, DispatcherCrash, ReapStaleDispatch,
       DispatchClaimTimesOut, ClaimJob, ClaimRefused, DiscardDelivery, Begin, ShowProcessing,
       Advance, StartStage, StageDone, ClearChunks, InsertChunks, SmokeCheck, SwapActive,
       Activate, ReadFailed, HandleException, HandlerRaises, SourceRejected, TransientFault,
       WorkerCrash, OutageInTask, OutageOnDelivery, ExpireAttempt, ExpireJobLease,
       ReadStaleLeases, CommitStaleLeases, NewVersionActivates

\* Only the reconciler changes what it has read.
LEMMA ReconcilerWriters ==
    ASSUME [Next]_vars
    PROVE UNCHANGED rec \/ ReadStaleLeases \/ CommitStaleLeases
BY DEF Next, vars, readVars, DispatcherStep, TakeDelivery, WorkerStep, Mishap, ClaimOutbox,
       Publish, PublishRaises, RecordDispatch, DispatcherCrash, ReapStaleDispatch,
       DispatchClaimTimesOut, ClaimJob, ClaimRefused, DiscardDelivery, Begin, ShowProcessing,
       Advance, StartStage, StageDone, ClearChunks, InsertChunks, SmokeCheck, SwapActive,
       Activate, ReadFailed, HandleException, HandlerRaises, SourceRejected, TransientFault,
       WorkerCrash, OutageInTask, OutageOnDelivery, ExpireAttempt, ExpireJobLease,
       Cancellation, ReadForCancel, RecordCancelRequest, CancelWaitingJob, CancelFails,
       NewVersionActivates

-----------------------------------------------------------------------------
(***************************************************************************)
(* Types                                                                   *)
(***************************************************************************)

\* Only the cancellation command numbers an attempt beyond the bound, and it
\* ends the job.
AttemptsBounded == status \in Open => attempt <= MaxAttempts

\* Where a worker is tells the stage it is in.
PositionsOK ==
    \A w \in Workers :
        /\ pc[w] \in {"idle", "begin", "show"} => at[w] = Validating
        /\ pc[w] = "work" => at[w] \in Validating + 1 .. Indexing - 1
        /\ pc[w] \in {"clear", "insert", "smoke"} => at[w] = Indexing

TypeInv == TypeOK /\ AttemptsBounded /\ PositionsOK

\* The initial rows have the types of their columns.
LEMMA InitTypes == Init => TypeInv
<1> SUFFICES ASSUME Init PROVE TypeInv
    OBVIOUS
<1> USE BoundsAssumption DEF Init
<1>1. JobTypes /\ AttemptsBounded
    BY DEF JobTypes, AttemptsBounded, Stages, Validating, Activating, Open, Terminal
<1>2. AttemptTypes BY DEF AttemptTypes
<1>3. DocTypes BY DEF DocTypes
<1>4. DeliveryTypes BY DEF DeliveryTypes
<1>5. WorkerTypes
    BY DEF WorkerTypes, WorkerPCs, Stages, Validating, Activating, Unread, Open
<1>6. ReadTypes BY DEF ReadTypes, Nothing, NothingStale, Open, Stages
<1>7. BudgetTypes BY DEF BudgetTypes
<1>8. PositionsOK BY DEF PositionsOK
<1>9. FlagTypes BY Zenon DEF FlagTypes
<1> QED
    BY <1>1, <1>2, <1>3, <1>4, <1>5, <1>6, <1>7, <1>8, <1>9 DEF TypeInv, TypeOK

\* The job row and its attempt number.
LEMMA JobTypesStep ==
    ASSUME TypeInv, [Next]_vars
    PROVE JobTypes' /\ AttemptsBounded'
<1> USE BoundsAssumption
        DEF TypeInv, TypeOK, JobTypes, AttemptsBounded, WorkerTypes, ReadTypes, Open,
            Terminal
<1>1. CASE UNCHANGED jobVars BY <1>1 DEF jobVars
<1>2. ASSUME NEW w \in Workers, NEW r \in 0 .. MaxRetries, ClaimJob(w, r)
      PROVE JobTypes' /\ AttemptsBounded'
    BY <1>2 DEF ClaimJob
<1>3. ASSUME NEW w \in Workers, StartStage(w)
      PROVE JobTypes' /\ AttemptsBounded'
    BY <1>3 DEF StartStage
<1>4. ASSUME NEW w \in Workers, Activate(w)
      PROVE JobTypes' /\ AttemptsBounded'
    BY <1>4 DEF Activate
<1>5. ASSUME NEW w \in Workers, HandleException(w)
      PROVE JobTypes' /\ AttemptsBounded'
  <2>1. HandlerStatus(pc[w]) \in {"cancelled", "failed", "retrying"}
      BY <1>5 DEF HandleException, HandlerStatus, Exceptions
  <2>2. status' \in {status, HandlerStatus(pc[w])} /\ UNCHANGED <<stage, attempt>>
        /\ lease' \in {"none", lease}
      BY <1>5 DEF HandleException
  <2>3. status' = "retrying" => status \in {"queued", "running", "retrying"}
      BY <1>5, <2>1 DEF HandleException, HandlerConflicts
  <2> QED BY <2>1, <2>2, <2>3
<1>6. CASE ExpireJobLease BY <1>6 DEF ExpireJobLease
<1>7. CASE CommitStaleLeases BY <1>7 DEF CommitStaleLeases, TakeBackConflicts
<1>8. CASE RecordCancelRequest BY <1>8 DEF RecordCancelRequest
<1>9. CASE CancelWaitingJob BY <1>9 DEF CancelWaitingJob
<1> QED BY <1>1, <1>2, <1>3, <1>4, <1>5, <1>6, <1>7, <1>8, <1>9, JobWriters

\* The attempt rows.
LEMMA AttemptTypesStep ==
    ASSUME TypeInv, [Next]_vars
    PROVE AttemptTypes'
<1> USE DEF TypeInv, TypeOK, AttemptTypes
<1>1. CASE UNCHANGED attemptVars BY <1>1 DEF attemptVars
<1>2. ASSUME NEW w \in Workers, NEW r \in 0 .. MaxRetries, ClaimJob(w, r)
      PROVE AttemptTypes'
    BY <1>2 DEF ClaimJob
<1>3. ASSUME NEW w \in Workers, StartStage(w) PROVE AttemptTypes'
    BY <1>3 DEF StartStage
<1>4. ASSUME NEW w \in Workers, Activate(w) PROVE AttemptTypes'
    BY <1>4 DEF Activate
<1>5. ASSUME NEW w \in Workers, HandleException(w) PROVE AttemptTypes'
    BY <1>5 DEF HandleException, HandlerAttempt, WorkerTypes
<1>6. ASSUME NEW a \in Attempts, ExpireAttempt(a) PROVE AttemptTypes'
    BY <1>6 DEF ExpireAttempt
<1>7. CASE CommitStaleLeases
    BY <1>7 DEF CommitStaleLeases, StaleAttempts, ReadTypes
<1>8. CASE CancelWaitingJob BY <1>8 DEF CancelWaitingJob
<1> QED BY <1>1, <1>2, <1>3, <1>4, <1>5, <1>6, <1>7, <1>8, AttemptWriters

\* The version, the document and the chunk rows.
LEMMA DocTypesStep ==
    ASSUME TypeInv, [Next]_vars
    PROVE DocTypes'
<1> USE BoundsAssumption DEF TypeInv, TypeOK, DocTypes
<1>1. CASE UNCHANGED docVars BY <1>1 DEF docVars
<1>2. ASSUME NEW w \in Workers, ShowProcessing(w) PROVE DocTypes'
    BY <1>2 DEF ShowProcessing
<1>3. ASSUME NEW w \in Workers, ClearChunks(w) PROVE DocTypes'
    BY <1>3 DEF ClearChunks
<1>4. ASSUME NEW w \in Workers, InsertChunks(w) PROVE DocTypes'
    BY <1>4 DEF InsertChunks, WorkerTypes
<1>5. ASSUME NEW w \in Workers, Activate(w) PROVE DocTypes'
    BY <1>5 DEF Activate
<1>6. ASSUME NEW w \in Workers, HandleException(w) PROVE DocTypes'
    BY <1>6 DEF HandleException, Show, WorkerTypes
<1>7. CASE CancelWaitingJob BY <1>7 DEF CancelWaitingJob, Show, ReadTypes
<1>8. CASE NewVersionActivates BY <1>8 DEF NewVersionActivates
<1> QED BY <1>1, <1>2, <1>3, <1>4, <1>5, <1>6, <1>7, <1>8, DocWriters

\* The outbox event, the dispatchers and the broker.
LEMMA DeliveryTypesStep ==
    ASSUME TypeInv, [Next]_vars
    PROVE DeliveryTypes'
<1> USE BoundsAssumption DEF TypeInv, TypeOK, DeliveryTypes
<1>1. CASE UNCHANGED <<outboxVars, queue>> BY <1>1 DEF outboxVars
<1>2. ASSUME NEW d \in Dispatchers, DispatcherStep(d) \/ DispatcherCrash(d)
      PROVE DeliveryTypes'
  <2>1. CASE ClaimOutbox(d) BY <2>1 DEF ClaimOutbox
  <2>2. CASE Publish(d) BY <2>2 DEF Publish, Enqueue
  <2>3. CASE PublishRaises(d) BY <2>3 DEF PublishRaises, Enqueue
  <2>4. CASE RecordDispatch(d) BY <2>4 DEF RecordDispatch
  <2>5. CASE DispatcherCrash(d) BY <2>5 DEF DispatcherCrash
  <2> QED BY <1>2, <2>1, <2>2, <2>3, <2>4, <2>5 DEF DispatcherStep
<1>3. CASE ReapStaleDispatch BY <1>3 DEF ReapStaleDispatch
<1>4. CASE DispatchClaimTimesOut BY <1>4 DEF DispatchClaimTimesOut
<1>5. ASSUME NEW w \in Workers, NEW r \in 0 .. MaxRetries,
             ClaimJob(w, r) \/ ClaimRefused(w, r) \/ DiscardDelivery(w, r)
                \/ OutageOnDelivery(w, r)
      PROVE DeliveryTypes'
  <2>1. queue[r] > 0 /\ UNCHANGED outboxVars
      BY <1>5 DEF ClaimJob, ClaimRefused, DiscardDelivery, OutageOnDelivery
  <2>2. CASE Dequeue(r) BY <2>1, <2>2 DEF Dequeue, outboxVars
  <2>3. CASE ClaimRefused(w, r) BY <2>1, <2>3 DEF ClaimRefused, Redelivered, outboxVars
  <2> QED BY <1>5, <2>2, <2>3 DEF ClaimJob, DiscardDelivery, OutageOnDelivery
<1>6. ASSUME NEW w \in Workers, HandleException(w) PROVE DeliveryTypes'
  <2>1. UNCHANGED outboxVars BY <1>6 DEF HandleException
  <2>2. CASE pc[w] = "Exception"
    <3>1. queue' = [q \in 0 .. MaxRetries |->
                       IF q \in Redelivered(retries[w]) THEN queue[q] + 1 ELSE queue[q]]
        BY <1>6, <2>2 DEF HandleException
    <3>2. queue' \in [0 .. MaxRetries -> Nat] BY <3>1
    <3> QED BY <2>1, <3>2 DEF outboxVars
  <2>3. CASE pc[w] # "Exception" BY <1>6, <2>1, <2>3 DEF HandleException, outboxVars
  <2> QED BY <2>2, <2>3
<1>7. ASSUME NEW w \in Workers, WorkerCrash(w) PROVE DeliveryTypes'
  <2>1. UNCHANGED outboxVars BY <1>7 DEF WorkerCrash
  <2>2. queue' \in [0 .. MaxRetries -> Nat] BY <1>7 DEF WorkerCrash, Enqueue, WorkerTypes
  <2> QED BY <2>1, <2>2 DEF outboxVars
<1> QED
    BY <1>1, <1>2, <1>3, <1>4, <1>5, <1>6, <1>7, DeliveryWriters DEF TakeDelivery

\* A stage that is neither the first nor one of the last two lies between them.
LEMMA MiddleStages ==
    ASSUME NEW s \in Stages, s \notin {Validating, Indexing, Activating}
    PROVE s \in Validating + 1 .. Indexing - 1
BY BoundsAssumption DEF Stages, Validating, Indexing, Activating

\* The worker processes.
LEMMA WorkerTypesStep ==
    ASSUME TypeInv, [Next]_vars
    PROVE WorkerTypes' /\ PositionsOK'
<1> USE BoundsAssumption
        DEF TypeInv, TypeOK, WorkerTypes, PositionsOK, WorkerPCs, Working, Exceptions, Stages,
            Validating, Indexing, Activating
<1>1. CASE UNCHANGED workerVars BY <1>1 DEF workerVars
<1>2. ASSUME NEW w \in Workers, NEW r \in 0 .. MaxRetries, ClaimJob(w, r)
      PROVE WorkerTypes' /\ PositionsOK'
  <2>1. attempt + 1 \in 0 .. MaxAttempts BY <1>2 DEF ClaimJob, JobTypes
  <2> QED BY <1>2, <2>1 DEF ClaimJob
<1>3. ASSUME NEW w \in Workers, EndTask(w)
      PROVE WorkerTypes' /\ PositionsOK'
    BY <1>3 DEF EndTask, Unread, Open
<1>4. ASSUME NEW w \in Workers,
             NEW p \in WorkerPCs \ {"idle", "begin", "show", "work", "clear", "insert", "smoke"},
             pc' = [pc EXCEPT ![w] = p], UNCHANGED <<att, at, expected, retries, seen>>
      PROVE WorkerTypes' /\ PositionsOK'
    BY <1>4
<1>5. ASSUME NEW w \in Workers, WorkerStep(w)
      PROVE WorkerTypes' /\ PositionsOK'
  <2>1. CASE Begin(w) BY <2>1 DEF Begin, DocTypes
  <2>2. CASE ShowProcessing(w) BY <1>4, <2>2 DEF ShowProcessing
  <2>3. CASE Advance(w)
    <3>1. \E p \in {"IngestionJobError", "JobCancelled", "Exception", "renew", "start"} :
              pc' = [pc EXCEPT ![w] = p]
        BY <2>3 DEF Advance
    <3> QED BY <1>4, <2>3, <3>1 DEF Advance
  <2>4. CASE StartStage(w)
    <3>1. CASE ~Renewable BY <1>4, <2>4, <3>1 DEF StartStage, Raise
    <3>2. CASE Renewable
      <4>1. /\ UNCHANGED <<att, expected, retries, seen>>
            /\ pc' = [pc EXCEPT ![w] = AfterStart(at[w])]
            /\ at' = [at EXCEPT ![w] = IF @ = Validating THEN @ + 1 ELSE @]
          BY <2>4, <3>2 DEF StartStage
      <4>2. AfterStart(at[w]) \in Working BY DEF AfterStart
      <4>3. ASSUME AfterStart(at[w]) = "work" PROVE at[w] \in Validating + 1 .. Indexing - 1
        <5>1. at[w] \notin {Validating, Indexing, Activating} BY <4>3 DEF AfterStart
        <5>2. at[w] \in Stages OBVIOUS
        <5> QED BY <5>1, <5>2, MiddleStages
      <4>4. AfterStart(at[w]) \in {"clear", "insert", "smoke"} => at[w] = Indexing
          BY DEF AfterStart
      <4>5. at[w] = Validating => AfterStart(at[w]) = "advance" BY DEF AfterStart
      <4> QED BY <4>1, <4>2, <4>3, <4>4, <4>5
    <3> QED BY <3>1, <3>2
  <2>5. CASE StageDone(w) BY <2>5 DEF StageDone
  <2>6. CASE ClearChunks(w) BY <2>6 DEF ClearChunks
  <2>7. CASE InsertChunks(w) BY <2>7 DEF InsertChunks, Raise
  <2>8. CASE SmokeCheck(w) BY <2>8 DEF SmokeCheck, Raise
  <2>9. CASE SwapActive(w)
    <3>1. \E p \in {"JobCancelled", "Exception", "commit"} : pc' = [pc EXCEPT ![w] = p]
        BY <2>9 DEF SwapActive
    <3> QED BY <1>4, <2>9, <3>1 DEF SwapActive
  <2>10. CASE ReadFailed(w)
      BY <2>10 DEF ReadFailed, JobTypes, Written, ShownAfterFailure, Open, Terminal
  <2>11. CASE Activate(w) \/ HandleException(w) \/ HandlerRaises(w)
      BY <1>3, <2>11 DEF Activate, HandleException, HandlerRaises
  <2> QED
      BY <1>5, <2>1, <2>2, <2>3, <2>4, <2>5, <2>6, <2>7, <2>8, <2>9, <2>10, <2>11
         DEF WorkerStep
<1>6. ASSUME NEW w \in Workers, SourceRejected(w) \/ TransientFault(w)
      PROVE WorkerTypes' /\ PositionsOK'
    BY <1>4, <1>6 DEF SourceRejected, TransientFault, Raise
<1>7. ASSUME NEW w \in Workers, WorkerCrash(w) \/ OutageInTask(w)
      PROVE WorkerTypes' /\ PositionsOK'
    BY <1>3, <1>7 DEF WorkerCrash, OutageInTask
<1> QED BY <1>1, <1>2, <1>5, <1>6, <1>7, WorkerWriters

\* A step of one worker process leaves the others where they are.
LEMMA OthersStay ==
    ASSUME WorkerTypes, NEW w \in Workers, NEW v \in Workers, v # w,
           (\E r \in 0 .. MaxRetries : ClaimJob(w, r))
              \/ WorkerStep(w) \/ SourceRejected(w) \/ TransientFault(w)
              \/ WorkerCrash(w) \/ OutageInTask(w)
    PROVE /\ pc'[v] = pc[v] /\ att'[v] = att[v] /\ at'[v] = at[v]
          /\ expected'[v] = expected[v] /\ seen'[v] = seen[v]
<1> USE DEF WorkerTypes
<1>1. CASE \E r \in 0 .. MaxRetries : ClaimJob(w, r) BY <1>1 DEF ClaimJob
<1>2. CASE EndTask(w) BY <1>2 DEF EndTask
<1>3. CASE SourceRejected(w) \/ TransientFault(w) BY <1>3 DEF SourceRejected, TransientFault, Raise
<1>4. CASE Begin(w) \/ ShowProcessing(w) \/ Advance(w) \/ SwapActive(w) \/ ReadFailed(w)
    BY <1>4 DEF Begin, ShowProcessing, Advance, SwapActive, ReadFailed
<1>5. CASE StartStage(w) BY <1>5 DEF StartStage, Raise
<1>6. CASE StageDone(w) \/ ClearChunks(w) \/ InsertChunks(w) \/ SmokeCheck(w)
    BY <1>6 DEF StageDone, ClearChunks, InsertChunks, SmokeCheck, Raise
<1> QED
    BY <1>1, <1>2, <1>3, <1>4, <1>5, <1>6
       DEF WorkerStep, Activate, HandleException, HandlerRaises, WorkerCrash, OutageInTask

\* The cancellation request and the counts of mishaps.
LEMMA OtherTypesStep ==
    ASSUME TypeInv, [Next]_vars
    PROVE ReadTypes' /\ FlagTypes' /\ BudgetTypes'
<1> USE DEF TypeInv, TypeOK
<1>1. ReadTypes'
  <2> USE BoundsAssumption DEF ReadTypes
  <2>1. rec' \in [attempts : SUBSET Attempts, stage : {0} \cup Stages]
      BY ReconcilerWriters
         DEF ReadStaleLeases, CommitStaleLeases, NothingStale, Overdue, JobTypes
  <2>2. CASE UNCHANGED cancelVars BY <2>1, <2>2 DEF cancelVars
  <2>3. CASE ReadForCancel
      BY <2>1, <2>3 DEF ReadForCancel, JobTypes, AttemptsBounded, Written
  <2>4. CASE RecordCancelRequest \/ CancelWaitingJob \/ CancelFails
      BY <2>1, <2>4 DEF RecordCancelRequest, CancelWaitingJob, CancelFails, Nothing, Open
  <2> QED BY <2>2, <2>3, <2>4, CancelWriters DEF Cancellation
<1>2. FlagTypes'
  <2>1. cancelAsked' \in BOOLEAN
      BY JobWriters DEF FlagTypes, jobVars, ClaimJob, StartStage, Activate, HandleException,
                        ExpireJobLease, CommitStaleLeases, RecordCancelRequest,
                        CancelWaitingJob
  <2>2. newDone' \in BOOLEAN
      BY DocWriters DEF FlagTypes, docVars, ShowProcessing, ClearChunks, InsertChunks,
                        Activate, HandleException, CancelWaitingJob, NewVersionActivates
  <2>3. claimStale' \in BOOLEAN
      BY DeliveryWriters
         DEF FlagTypes, outboxVars, DispatcherStep, ClaimOutbox, Publish, PublishRaises,
             RecordDispatch, DispatcherCrash, ReapStaleDispatch, DispatchClaimTimesOut,
             TakeDelivery, ClaimJob, ClaimRefused, DiscardDelivery, HandleException,
             WorkerCrash, OutageOnDelivery
  <2> QED BY <2>1, <2>2, <2>3 DEF FlagTypes
<1>3. BudgetTypes'
    BY DEF BudgetTypes, Next, vars, budgets, DispatcherStep, TakeDelivery, WorkerStep, Mishap,
           Cancellation, ClaimOutbox, Publish, PublishRaises, RecordDispatch,
           DispatcherCrash, ReapStaleDispatch, DispatchClaimTimesOut, ClaimJob,
           ClaimRefused, DiscardDelivery, Begin, ShowProcessing, Advance, StartStage,
           StageDone, ClearChunks, InsertChunks, SmokeCheck, SwapActive, Activate,
           ReadFailed, HandleException, HandlerRaises, SourceRejected, TransientFault,
           WorkerCrash, OutageInTask, OutageOnDelivery, ExpireAttempt, ExpireJobLease,
           ReadStaleLeases, CommitStaleLeases, ReadForCancel, RecordCancelRequest,
           CancelWaitingJob, CancelFails, NewVersionActivates
<1> QED BY <1>1, <1>2, <1>3

\* Every step preserves the types, all groups together.
LEMMA TypesStep ==
    ASSUME TypeInv, [Next]_vars
    PROVE TypeInv'
BY JobTypesStep, AttemptTypesStep, DocTypesStep, DeliveryTypesStep, WorkerTypesStep,
   OtherTypesStep DEF TypeInv, TypeOK

\* Every reachable state has the types of TypeOK.
THEOREM TypeCorrect == Spec => []TypeOK
<1>1. Spec => []TypeInv BY InitTypes, TypesStep, PTL DEF Spec
<1>2. TypeInv => TypeOK BY DEF TypeInv
<1> QED BY <1>1, <1>2, PTL

-----------------------------------------------------------------------------
(***************************************************************************)
(* The inductive invariant                                                 *)
(***************************************************************************)

\* Nobody holds a job that was never claimed.
QueuedUnclaimed == status = "queued" => \A w \in Workers : pc[w] = "idle"

\* A cancellation request that saw a waiting job finds it not running as long
\* as no attempt was claimed in between.
WaitingJobSeen ==
    cpc = "read" =>
        /\ cSeen.attempt <= attempt
        /\ cSeen.status # "running" /\ cSeen.attempt = attempt => status # "running"

\* The reconciler only takes back a job that it has seen running.
TakenJobStarted == rec.stage # 0 => status # "queued"

\* A worker stops for a cancellation only when one was asked for.
StopsWhenAsked == \A w \in Workers : pc[w] = "JobCancelled" => cancelAsked

\* What a worker can have taken for the active version.
SnapshotsOK ==
    \A w \in Workers :
        /\ status # "completed" => expected[w] # "this"
        /\ ~newDone => expected[w] # "new"

\* Only one activation of another job is in the model.
NewVersionOnce == ~newDone => active # "new"

\* The compare-and-swap of a worker left over from before the completion fails.
LateActivationFails ==
    \A w \in Workers : status = "completed" /\ pc[w] = "activate" => expected[w] # active

CompletedWithJob ==
    \A a \in Attempts : attStatus[a] = "completed" => status = "completed"

\* What an exception handler has read: a job in a worker's hands, which had a lease
\* exactly if it was running, or one that has failed for good.
HandlersRead ==
    \A w \in Workers :
        seen[w] # Unread =>
            /\ pc[w] \in {"IngestionJobError", "Exception"}
            /\ \/ seen[w].status = "running" /\ seen[w].leased
               \/ seen[w].status = "retrying" /\ ~seen[w].leased
               \/ /\ seen[w].status = "failed" /\ status = "failed"
                  /\ pc[w] = "IngestionJobError"

\* The locks of an activation keep out whatever ends the job, other activations too.
ActivationsHold ==
    \A w \in Workers :
        pc[w] = "commit" =>
            /\ status \in {"running", "retrying"}
            /\ \A v \in Workers : pc[v] = "commit" => v = w

IInv ==
    /\ TypeInv
    /\ LeaseWhileRunning
    /\ VersionFollowsJob
    /\ QueuedUnclaimed
    /\ WaitingJobSeen
    /\ TakenJobStarted
    /\ StopsWhenAsked
    /\ SnapshotsOK
    /\ NewVersionOnce
    /\ LateActivationFails
    /\ CompletedWithJob
    /\ OneCompletion
    /\ HandlersRead
    /\ ActivationsHold

\* The rows accept_source commits satisfy the inductive invariant.
LEMMA InitInv == Init => IInv
<1> SUFFICES ASSUME Init PROVE IInv
    OBVIOUS
<1> USE DEF Init
<1>1. TypeInv BY InitTypes
<1>2. LeaseWhileRunning BY DEF LeaseWhileRunning
<1>3. VersionFollowsJob BY DEF VersionFollowsJob, Open
<1>4. QueuedUnclaimed /\ LateActivationFails BY DEF QueuedUnclaimed, LateActivationFails
<1>5. WaitingJobSeen /\ TakenJobStarted
    BY DEF WaitingJobSeen, TakenJobStarted, NothingStale
<1>6. StopsWhenAsked BY DEF StopsWhenAsked
<1>7. SnapshotsOK /\ NewVersionOnce BY DEF SnapshotsOK, NewVersionOnce
<1>8. CompletedWithJob /\ OneCompletion BY DEF CompletedWithJob, OneCompletion
<1>9. HandlersRead /\ ActivationsHold BY DEF HandlersRead, ActivationsHold
<1> QED BY <1>1, <1>2, <1>3, <1>4, <1>5, <1>6, <1>7, <1>8, <1>9 DEF IInv

\* A last transaction that commits completes a job that is open, and that the
\* reconciler may have taken back since it was read running.
LEMMA ActivationOutcome ==
    ASSUME IInv, NEW w \in Workers, Activate(w)
    PROVE /\ status \in {"running", "retrying"}
          /\ \A v \in Workers : pc[v] = "commit" => v = w
BY DEF Activate, IInv, ActivationsHold

\* The outcome of the handler: it never takes a job away from a cancellation, and
\* the commit of a worker that read the job waiting for a retry leaves the lease
\* alone that another worker may have taken since.
LEMMA HandlerOutcome ==
    ASSUME IInv, NEW w \in Workers, HandleException(w)
    PROVE /\ pc[w] \in {"IngestionJobError", "Exception"}
          /\ \/ /\ status' = "retrying" /\ status \in {"running", "retrying"}
                /\ lease' = "none" /\ UNCHANGED version
             \/ /\ status' = "failed" /\ status \in {"running", "retrying", "failed"}
                /\ version' = "failed" /\ lease' \in {lease, "none"}
             \/ UNCHANGED <<status, version, lease>>
          /\ UNCHANGED <<active, attempt, stage, newDone, cancelVars>>
          /\ EndTask(w)
          /\ \A v \in Workers : pc[v] # "commit"
<1>1. /\ EndTask(w) /\ \A v \in Workers : pc[v] # "commit"
      /\ UNCHANGED <<active, attempt, stage, newDone, cancelVars>>
    BY DEF HandleException, RowsLocked, readVars
<1>2. /\ seen[w] # Unread /\ ~HandlerConflicts(w)
      /\ status' = IF HandlerStatus(pc[w]) = seen[w].status THEN status
                   ELSE HandlerStatus(pc[w])
      /\ lease' = IF seen[w].leased THEN "none" ELSE lease
      /\ IF pc[w] = "Exception" THEN UNCHANGED version ELSE version' = "failed"
    BY DEF HandleException
<1>3. /\ pc[w] \in {"IngestionJobError", "Exception"}
      /\ \/ seen[w].status = "running" /\ seen[w].leased
         \/ seen[w].status = "retrying" /\ ~seen[w].leased
         \/ seen[w].status = "failed" /\ status = "failed" /\ pc[w] = "IngestionJobError"
    BY <1>2 DEF IInv, HandlersRead
<1>4. status \in {"running", "retrying", "completed", "failed", "cancelled"}
    BY <1>3 DEF IInv, QueuedUnclaimed, TypeInv, TypeOK, JobTypes, Open, Terminal
<1>5. CASE pc[w] = "Exception"
    BY <1>1, <1>2, <1>3, <1>4, <1>5 DEF HandlerStatus, HandlerConflicts, Terminal
<1>6. CASE pc[w] = "IngestionJobError"
    BY <1>1, <1>2, <1>3, <1>4, <1>6 DEF HandlerStatus, HandlerConflicts, Terminal
<1> QED BY <1>3, <1>5, <1>6

\* The cancellation command only closes a job that waits, and no activation is
\* about to commit.
LEMMA CancelsWaiting ==
    ASSUME IInv, CancelWaitingJob
    PROVE status \in {"queued", "retrying"} /\ \A v \in Workers : pc[v] # "commit"
BY DEF CancelWaitingJob, CancelConflicts, RowsLocked, IInv, WaitingJobSeen, TypeInv, TypeOK,
       JobTypes, Open, Terminal

\* The job row through every step: how its status moves, and the lease with it.
LEMMA LeaseStep ==
    ASSUME IInv, [Next]_vars
    PROVE LeaseWhileRunning'
<1> USE DEF IInv, LeaseWhileRunning
<1>1. CASE UNCHANGED jobVars BY <1>1 DEF jobVars
<1>2. ASSUME NEW w \in Workers, NEW r \in 0 .. MaxRetries, ClaimJob(w, r)
      PROVE LeaseWhileRunning'
    BY <1>2 DEF ClaimJob
<1>3. ASSUME NEW w \in Workers, StartStage(w) PROVE LeaseWhileRunning'
    BY <1>3 DEF StartStage, Renewable
<1>4. ASSUME NEW w \in Workers, Activate(w) PROVE LeaseWhileRunning'
    BY <1>4 DEF Activate
<1>5. ASSUME NEW w \in Workers, HandleException(w) PROVE LeaseWhileRunning'
    BY <1>5, HandlerOutcome
<1>6. CASE ExpireJobLease BY <1>6 DEF ExpireJobLease
<1>7. CASE CommitStaleLeases BY <1>7 DEF CommitStaleLeases
<1>8. CASE RecordCancelRequest BY <1>8 DEF RecordCancelRequest
<1>9. CASE CancelWaitingJob BY <1>9, CancelsWaiting DEF CancelWaitingJob
<1> QED BY <1>1, <1>2, <1>3, <1>4, <1>5, <1>6, <1>7, <1>8, <1>9, JobWriters

\* How job, version and active version pointer move together.
LEMMA LifecycleStep ==
    ASSUME IInv, [Next]_vars
    PROVE [JL!JLNext]_<<status, version, active>>
<1> USE DEF JL!JLNext
<1>1. ASSUME NEW w \in Workers, NEW r \in 0 .. MaxRetries, ClaimJob(w, r)
      PROVE JL!Take
    BY <1>1 DEF ClaimJob, CanClaim, docVars, JL!Take, JL!Open
<1>2. ASSUME NEW w \in Workers, Activate(w)
      PROVE JL!Complete
    BY <1>2, ActivationOutcome DEF Activate, JL!Complete
<1>3. ASSUME NEW w \in Workers, HandleException(w)
      PROVE JL!Yield \/ JL!Fail \/ UNCHANGED <<status, version, active>>
    BY <1>3, HandlerOutcome
       DEF JL!Yield, JL!Fail, IInv, VersionFollowsJob
<1>4. CASE CommitStaleLeases
    BY <1>4 DEF CommitStaleLeases, TakeBackConflicts, docVars, IInv, TypeInv, TypeOK, JobTypes,
                Open, Terminal, TakenJobStarted, JL!Yield
<1>5. CASE CancelWaitingJob
    BY <1>5, CancelsWaiting DEF CancelWaitingJob, JL!Cancel
<1>6. CASE NewVersionActivates
    BY <1>6 DEF NewVersionActivates, jobVars, IInv, NewVersionOnce, TypeInv, TypeOK, DocTypes,
                JL!Supersede
<1>7. UNCHANGED status
         \/ (\E w \in Workers : \/ \E r \in 0 .. MaxRetries : ClaimJob(w, r)
                                \/ Activate(w) \/ HandleException(w))
         \/ CommitStaleLeases \/ CancelWaitingJob
    BY JobWriters DEF jobVars, StartStage, ExpireJobLease, RecordCancelRequest
<1>8. UNCHANGED <<version, active>>
         \/ (\E w \in Workers : Activate(w) \/ HandleException(w))
         \/ CancelWaitingJob \/ NewVersionActivates
    BY DocWriters DEF docVars, ShowProcessing, ClearChunks, InsertChunks
<1> QED BY <1>1, <1>2, <1>3, <1>4, <1>5, <1>6, <1>7, <1>8

\* In every step the job's status, version and pointer take a step of the
\* abstract life, which keeps them in agreement.
LEMMA VersionStep ==
    ASSUME IInv, [Next]_vars
    PROVE VersionFollowsJob'
<1> USE DEF VersionFollowsJob
<1>1. VersionFollowsJob /\ status \in Open \cup Terminal
         /\ version \in {"pending", "ready", "failed", "superseded"}
    BY DEF IInv, TypeInv, TypeOK, JobTypes, DocTypes
<1>2. CASE UNCHANGED <<status, version, active>> BY <1>1, <1>2
<1>3. CASE JL!Take BY <1>1, <1>3 DEF JL!Take, JL!Open, Open
<1>4. CASE JL!Yield BY <1>1, <1>4 DEF JL!Yield, Open
<1>5. CASE JL!Complete BY <1>1, <1>5 DEF JL!Complete, Open
<1>6. CASE JL!Fail BY <1>1, <1>6 DEF JL!Fail, Open
<1>7. CASE JL!Cancel BY <1>1, <1>7 DEF JL!Cancel, Open
<1>8. CASE JL!Supersede BY <1>1, <1>8 DEF JL!Supersede, Open, Terminal
<1> QED BY <1>2, <1>3, <1>4, <1>5, <1>6, <1>7, <1>8, LifecycleStep DEF JL!JLNext

\* The claim, the cancellation, the reconciler and the workers' stops.
LEMMA ClaimStep ==
    ASSUME IInv, [Next]_vars
    PROVE QueuedUnclaimed' /\ WaitingJobSeen' /\ TakenJobStarted' /\ StopsWhenAsked'
<1>1. QueuedUnclaimed'
  <2> USE DEF QueuedUnclaimed
  <2>1. status' = "queued" => status = "queued" /\ UNCHANGED status
      BY LifecycleStep
         DEF JL!JLNext, JL!Take, JL!Yield, JL!Complete, JL!Fail, JL!Cancel, JL!Supersede
  <2>2. SUFFICES ASSUME status = "queued", status' = "queued" PROVE UNCHANGED pc
      BY <2>1 DEF IInv
  <2>3. \A w \in Workers : pc[w] = "idle" BY <2>2 DEF IInv
  <2> QED
      BY <2>2, <2>3, WorkerWriters
         DEF workerVars, ClaimJob, WorkerStep, Begin, ShowProcessing, Advance, StartStage,
             StageDone, ClearChunks, InsertChunks, SmokeCheck, SwapActive, Activate,
             ReadFailed, HandleException, HandlerRaises, SourceRejected, TransientFault,
             WorkerCrash, OutageInTask, Working, Exceptions
<1>2. WaitingJobSeen'
  <2> USE DEF WaitingJobSeen
  <2>1. attempt \in Nat /\ WaitingJobSeen
      BY BoundsAssumption DEF IInv, TypeInv, TypeOK, JobTypes
  <2>2. /\ attempt <= attempt'
        /\ status' = "running" => status = "running" \/ attempt' = attempt + 1
    <3>1. CASE UNCHANGED jobVars BY <2>1, <3>1 DEF jobVars
    <3>2. ASSUME NEW w \in Workers, NEW r \in 0 .. MaxRetries, ClaimJob(w, r)
          PROVE attempt' = attempt + 1
        BY <3>2 DEF ClaimJob
    <3>3. ASSUME NEW w \in Workers, StartStage(w)
          PROVE UNCHANGED <<attempt, status>>
        BY <3>3 DEF StartStage
    <3>4. ASSUME NEW w \in Workers, Activate(w)
          PROVE UNCHANGED attempt /\ status' = "completed"
        BY <3>4 DEF Activate
    <3>5. ASSUME NEW w \in Workers, HandleException(w)
          PROVE UNCHANGED attempt /\ (status' # "running" \/ UNCHANGED status)
        BY <3>5, HandlerOutcome
    <3>6. CASE ExpireJobLease BY <2>1, <3>6 DEF ExpireJobLease
    <3>7. CASE CommitStaleLeases BY <2>1, <3>7 DEF CommitStaleLeases
    <3>8. CASE RecordCancelRequest BY <2>1, <3>8 DEF RecordCancelRequest
    <3>9. CASE CancelWaitingJob
        BY <2>1, <3>9 DEF CancelWaitingJob, CancelConflicts
    <3> QED
        BY <2>1, <3>1, <3>2, <3>3, <3>4, <3>5, <3>6, <3>7, <3>8, <3>9, JobWriters
  <2>3. cSeen.attempt \in Nat /\ attempt' \in Nat
      BY JobTypesStep, BoundsAssumption DEF IInv, TypeInv, TypeOK, ReadTypes, JobTypes
  <2>4. CASE UNCHANGED cancelVars BY <2>1, <2>2, <2>3, <2>4 DEF cancelVars
  <2>5. CASE ReadForCancel BY <2>1, <2>5 DEF ReadForCancel, jobVars
  <2>6. CASE RecordCancelRequest \/ CancelWaitingJob \/ CancelFails
      BY <2>6 DEF RecordCancelRequest, CancelWaitingJob, CancelFails
  <2> QED BY <2>4, <2>5, <2>6, CancelWriters DEF Cancellation
<1>3. StopsWhenAsked'
  <2> USE DEF StopsWhenAsked
  <2>1. cancelAsked => cancelAsked'
      BY JobWriters DEF jobVars, ClaimJob, StartStage, Activate, HandleException,
                        ExpireJobLease, CommitStaleLeases, RecordCancelRequest,
                        CancelWaitingJob
  <2>2. ASSUME NEW w \in Workers, pc'[w] = "JobCancelled", pc[w] # "JobCancelled"
        PROVE cancelAsked
    <3>1. pc \in [Workers -> WorkerPCs] BY DEF IInv, TypeInv, TypeOK, WorkerTypes
    <3>2. Advance(w) \/ SwapActive(w)
        BY <2>2, <3>1, WorkerWriters
           DEF workerVars, ClaimJob, WorkerStep, Begin, ShowProcessing, Advance, StartStage,
               StageDone, ClearChunks, InsertChunks, SmokeCheck, SwapActive, Activate,
               ReadFailed, HandleException, HandlerRaises, SourceRejected, TransientFault,
               WorkerCrash, OutageInTask, EndTask, Raise, AfterStart
    <3>3. CASE Advance(w)
        BY <2>2, <3>1, <3>3, Zenon DEF Advance
    <3>4. CASE SwapActive(w) BY <2>2, <3>1, <3>4 DEF SwapActive
    <3> QED BY <3>2, <3>3, <3>4
  <2> QED BY <2>1, <2>2 DEF IInv
<1>4. TakenJobStarted'
  <2>1. status' = "queued" => status = "queued"
      BY LifecycleStep
         DEF JL!JLNext, JL!Take, JL!Yield, JL!Complete, JL!Fail, JL!Cancel, JL!Supersede
  <2>2. CASE UNCHANGED rec BY <2>1, <2>2 DEF IInv, TakenJobStarted
  <2>3. CASE ReadStaleLeases BY <2>3 DEF ReadStaleLeases, TakenJobStarted, jobVars
  <2>4. CASE CommitStaleLeases
      BY <2>4 DEF CommitStaleLeases, NothingStale, TakenJobStarted
  <2> QED BY <2>2, <2>3, <2>4, ReconcilerWriters
<1> QED BY <1>1, <1>2, <1>3, <1>4

\* The snapshots, the compare-and-swap and the completions.
LEMMA CompletionStep ==
    ASSUME IInv, [Next]_vars
    PROVE /\ SnapshotsOK' /\ NewVersionOnce' /\ LateActivationFails'
          /\ CompletedWithJob' /\ OneCompletion'
<1> DEFINE Completes(w) ==
        /\ status # "completed" /\ status' = "completed"
        /\ attStatus' = [attStatus EXCEPT ![att[w]] = "completed"]
<1>1. status = "completed" => status' = "completed"
    BY LifecycleStep
       DEF JL!JLNext, JL!Take, JL!Yield, JL!Complete, JL!Fail, JL!Cancel, JL!Supersede, JL!Open
<1>2. status # "completed" => active # "this"
    BY DEF IInv, VersionFollowsJob, TypeInv, TypeOK, JobTypes, Open, Terminal
<1>3. \/ UNCHANGED <<active, newDone>>
      \/ active' = "this" /\ status' = "completed" /\ status # "completed" /\ UNCHANGED newDone
      \/ active' = "new" /\ ~newDone /\ newDone'
  <2>1. ASSUME NEW w \in Workers, Activate(w)
        PROVE active' = "this" /\ status' = "completed" /\ status # "completed"
                 /\ UNCHANGED newDone
      BY <2>1, ActivationOutcome DEF Activate
  <2> QED
      BY <2>1, DocWriters DEF docVars, ShowProcessing, ClearChunks, InsertChunks,
                              HandleException, CancelWaitingJob, NewVersionActivates
<1>4. ASSUME NEW w \in Workers
      PROVE expected'[w] \in {expected[w], "none", active}
  <2>1. expected \in [Workers -> {"none", "old", "this", "new"}]
      BY DEF IInv, TypeInv, TypeOK, WorkerTypes
  <2> QED
      BY <2>1, WorkerWriters
         DEF workerVars, ClaimJob, WorkerStep, Begin, ShowProcessing, Advance, StartStage,
             StageDone, ClearChunks, InsertChunks, SmokeCheck, SwapActive, Activate,
             ReadFailed, HandleException, HandlerRaises, SourceRejected, TransientFault,
             WorkerCrash, OutageInTask, EndTask
<1>5. SnapshotsOK' /\ NewVersionOnce'
    BY <1>1, <1>2, <1>3, <1>4 DEF IInv, SnapshotsOK, NewVersionOnce
<1>6. ASSUME NEW w \in Workers, status' = "completed", pc'[w] = "activate"
      PROVE expected'[w] # active'
  <2>1. pc \in [Workers -> WorkerPCs] /\ expected \in [Workers -> {"none", "old", "this", "new"}]
      BY DEF IInv, TypeInv, TypeOK, WorkerTypes
  <2>2. (pc[w] = "activate" /\ expected'[w] = expected[w]) \/ StartStage(w)
    <3>1. ~Advance(w) /\ ~SwapActive(w)
        BY <1>6, <2>1 DEF Advance, SwapActive
    <3>2. WorkerTypes BY DEF IInv, TypeInv, TypeOK
    <3>3. ASSUME (\E r \in 0 .. MaxRetries : ClaimJob(w, r)) \/ WorkerStep(w)
                    \/ SourceRejected(w) \/ TransientFault(w)
                    \/ WorkerCrash(w) \/ OutageInTask(w)
          PROVE StartStage(w)
        BY <1>6, <2>1, <3>1, <3>3
           DEF ClaimJob, WorkerStep, Begin, ShowProcessing, StageDone, ClearChunks,
               InsertChunks, SmokeCheck, Activate, ReadFailed, HandleException,
               HandlerRaises, SourceRejected, TransientFault, WorkerCrash, OutageInTask,
               EndTask, Raise, Exceptions
    <3>4. CASE UNCHANGED workerVars BY <1>6, <3>4 DEF workerVars
    <3> QED BY <1>6, <3>2, <3>3, <3>4, OthersStay, WorkerWriters
  <2>3. pc[w] = "activate" /\ expected'[w] = expected[w]
    <3>1. CASE StartStage(w)
      <4>1. lease = "none" BY <1>6, <3>1 DEF StartStage, IInv, LeaseWhileRunning
      <4> QED BY <1>6, <2>1, <3>1, <4>1 DEF StartStage, Renewable, Raise
    <3> QED BY <2>2, <3>1
  <2>4. CASE status = "completed"
      BY <1>3, <2>3, <2>4 DEF IInv, LateActivationFails, SnapshotsOK
  <2>5. CASE status # "completed"
    <3>1. JL!Complete
        BY <1>6, <2>5, LifecycleStep
           DEF JL!JLNext, JL!Take, JL!Yield, JL!Fail, JL!Cancel, JL!Supersede
    <3> QED BY <2>3, <2>5, <3>1 DEF JL!Complete, IInv, SnapshotsOK
  <2> QED BY <2>4, <2>5
<1>7. LateActivationFails' BY <1>6 DEF LateActivationFails
<1>8. \/ \E w \in Workers : Completes(w)
      \/ \A a \in Attempts : attStatus'[a] = "completed" => attStatus[a] = "completed"
  <2>1. attStatus \in [Attempts -> {"none", "running", "overdue", "completed", "failed",
                                    "cancelled", "stale"}]
      BY DEF IInv, TypeInv, TypeOK, AttemptTypes
  <2>2. ASSUME NEW w \in Workers, Activate(w)
        PROVE Completes(w)
      BY <2>2, ActivationOutcome DEF Activate
  <2>3. ASSUME NEW w \in Workers, NEW r \in 0 .. MaxRetries, ClaimJob(w, r)
        PROVE \A a \in Attempts : attStatus'[a] = "completed" => attStatus[a] = "completed"
      BY <2>1, <2>3 DEF ClaimJob
  <2>4. ASSUME NEW w \in Workers, StartStage(w) \/ HandleException(w)
        PROVE \A a \in Attempts : attStatus'[a] = "completed" => attStatus[a] = "completed"
      BY <2>1, <2>4 DEF StartStage, HandleException, HandlerAttempt
  <2> QED
      BY <2>1, <2>2, <2>3, <2>4, AttemptWriters
         DEF attemptVars, ExpireAttempt, CommitStaleLeases, StaleAttempts, CancelWaitingJob
<1>9. CompletedWithJob' /\ OneCompletion'
  <2>1. attStatus \in [Attempts -> {"none", "running", "overdue", "completed", "failed",
                                    "cancelled", "stale"}]
      BY DEF IInv, TypeInv, TypeOK, AttemptTypes
  <2>2. CASE \E w \in Workers : Completes(w)
    <3>1. PICK w \in Workers : Completes(w) BY <2>2
    <3>2. \A a \in Attempts : attStatus[a] # "completed"
        BY <3>1 DEF IInv, CompletedWithJob
    <3> QED BY <2>1, <3>1, <3>2 DEF CompletedWithJob, OneCompletion
  <2>3. CASE \A a \in Attempts : attStatus'[a] = "completed" => attStatus[a] = "completed"
      BY <1>1, <2>3 DEF IInv, CompletedWithJob, OneCompletion
  <2> QED BY <1>8, <2>2, <2>3
<1> QED BY <1>5, <1>7, <1>9

\* What the handlers read: a failed job stays failed.
LEMMA HandlersStep ==
    ASSUME IInv, [Next]_vars
    PROVE HandlersRead'
<1> SUFFICES ASSUME NEW w \in Workers, seen'[w] # Unread
             PROVE /\ pc'[w] \in {"IngestionJobError", "Exception"}
                   /\ \/ seen'[w].status = "running" /\ seen'[w].leased
                      \/ seen'[w].status = "retrying" /\ ~seen'[w].leased
                      \/ /\ seen'[w].status = "failed" /\ status' = "failed"
                         /\ pc'[w] = "IngestionJobError"
    BY DEF HandlersRead
<1>1. pc \in [Workers -> WorkerPCs]
      /\ seen \in [Workers -> [status : Open \cup Terminal, stage : {0} \cup Stages,
                               leased : BOOLEAN, shown : {"error", "indexed", Unwritten}]]
    BY DEF IInv, TypeInv, TypeOK, WorkerTypes
<1>2. status = "failed" => status' = "failed"
    BY LifecycleStep
       DEF JL!JLNext, JL!Take, JL!Yield, JL!Complete, JL!Fail, JL!Cancel, JL!Supersede,
           JL!Open
<1>3. CASE pc'[w] = pc[w] /\ seen'[w] = seen[w] BY <1>2, <1>3 DEF IInv, HandlersRead
<1>4. CASE ReadFailed(w)
  <2>1. /\ seen'[w] = [status |-> status, stage |-> stage, leased |-> lease # "none",
                      shown |-> Written(ShownAfterFailure)]
        /\ pc'[w] = pc[w] /\ UNCHANGED status /\ pc[w] # "JobCancelled"
      BY <1>1, <1>4 DEF ReadFailed, CannotHandle, jobVars, IInv, StopsWhenAsked
  <2>2. /\ pc[w] \in {"IngestionJobError", "Exception"}
        /\ seen'[w].status = status /\ (seen'[w].leased <=> lease # "none")
    <3>1. pc[w] \in {"IngestionJobError", "Exception"}
        BY <1>4, <2>1 DEF ReadFailed, Exceptions
    <3>2. seen'[w].status = status BY <2>1
    <3>3. seen'[w].leased <=> lease # "none"
      <4> DEFINE Row(b) == [status |-> status, stage |-> stage, leased |-> b,
                            shown |-> Written(ShownAfterFailure)]
      <4>1. \A b : Row(b).leased = b OBVIOUS
      <4>2. seen'[w] = Row(lease # "none") BY <2>1
      <4> HIDE DEF Row
      <4>3. Row(lease # "none").leased = (lease # "none") BY <4>1, Zenon
      <4> QED BY <4>2, <4>3, Zenon
    <3> QED BY <3>1, <3>2, <3>3
  <2>3. CASE pc[w] = "Exception"
    <3>1. status \in {"running", "retrying"}
        BY <1>4, <2>3 DEF ReadFailed, CannotHandle, HandlerStatus, TransitionAllowed
    <3> QED BY <2>1, <2>2, <3>1, Zenon DEF IInv, LeaseWhileRunning
  <2>4. CASE pc[w] = "IngestionJobError"
    <3>1. status \in {"running", "retrying", "failed"}
        BY <1>4, <2>4 DEF ReadFailed, CannotHandle, HandlerStatus, TransitionAllowed, IInv,
                          QueuedUnclaimed
    <3> QED BY <2>1, <2>2, <2>4, <3>1, Zenon DEF IInv, LeaseWhileRunning
  <2> QED BY <2>2, <2>3, <2>4
<1>5. (pc'[w] = pc[w] /\ seen'[w] = seen[w]) \/ ReadFailed(w)
  <2>1. seen[w] # Unread => pc[w] \in {"IngestionJobError", "Exception"}
      BY DEF IInv, HandlersRead
  <2>2. ASSUME NEW v \in Workers, v # w,
               (\E r \in 0 .. MaxRetries : ClaimJob(v, r))
                  \/ WorkerStep(v) \/ SourceRejected(v) \/ TransientFault(v)
                  \/ WorkerCrash(v) \/ OutageInTask(v)
        PROVE pc'[w] = pc[w] /\ seen'[w] = seen[w]
      BY <2>2, OthersStay DEF IInv, TypeInv, TypeOK
  <2>3. CASE Activate(w) \/ HandleException(w) \/ HandlerRaises(w) \/ WorkerCrash(w)
                \/ OutageInTask(w)
      BY <1>1, <2>3
         DEF Activate, HandleException, HandlerRaises, WorkerCrash, OutageInTask, EndTask
  <2>4. CASE (\E r \in 0 .. MaxRetries : ClaimJob(w, r))
                \/ Begin(w) \/ ShowProcessing(w) \/ Advance(w) \/ StartStage(w) \/ StageDone(w)
                \/ ClearChunks(w) \/ InsertChunks(w) \/ SmokeCheck(w) \/ SwapActive(w)
                \/ SourceRejected(w) \/ TransientFault(w)
    <3>1. UNCHANGED seen
        BY <2>4 DEF ClaimJob, Begin, ShowProcessing, Advance, StartStage, StageDone,
                    ClearChunks, InsertChunks, SmokeCheck, SwapActive, SourceRejected,
                    TransientFault
    <3>2. pc[w] \notin {"IngestionJobError", "Exception"}
        BY <2>4 DEF ClaimJob, Begin, ShowProcessing, Advance, StartStage, StageDone,
                    ClearChunks, InsertChunks, SmokeCheck, SwapActive, SourceRejected,
                    TransientFault, Working
    <3> QED BY <2>1, <3>1, <3>2
  <2>5. CASE UNCHANGED workerVars BY <2>5 DEF workerVars
  <2> QED BY <2>2, <2>3, <2>4, <2>5, WorkerWriters DEF WorkerStep
<1> QED BY <1>3, <1>4, <1>5

\* The locks of an activation.
LEMMA ActivationStep ==
    ASSUME IInv, [Next]_vars
    PROVE ActivationsHold'
<1> SUFFICES ASSUME NEW w \in Workers, pc'[w] = "commit"
             PROVE /\ status' \in {"running", "retrying"}
                   /\ \A v \in Workers : pc'[v] = "commit" => v = w
    BY DEF ActivationsHold
<1>1. pc \in [Workers -> WorkerPCs] /\ status \in Open \cup Terminal
    BY DEF IInv, TypeInv, TypeOK, WorkerTypes, JobTypes
<1>2. ASSUME NEW v \in Workers, pc'[v] = "commit"
      PROVE pc[v] = "commit" \/ SwapActive(v)
  <2>1. CASE UNCHANGED workerVars BY <1>2, <2>1 DEF workerVars
  <2>2. ASSUME NEW u \in Workers, u # v,
               (\E r \in 0 .. MaxRetries : ClaimJob(u, r))
                  \/ WorkerStep(u) \/ SourceRejected(u) \/ TransientFault(u)
                  \/ WorkerCrash(u) \/ OutageInTask(u)
        PROVE pc[v] = "commit"
      BY <1>2, <2>2, OthersStay DEF IInv, TypeInv, TypeOK
  <2>3. ~Advance(v) BY <1>1, <1>2 DEF Advance
  <2>4. ~StartStage(v) BY <1>1, <1>2 DEF StartStage, AfterStart, Raise
  <2>5. ASSUME (\E r \in 0 .. MaxRetries : ClaimJob(v, r)) \/ WorkerStep(v)
                  \/ SourceRejected(v) \/ TransientFault(v)
                  \/ WorkerCrash(v) \/ OutageInTask(v)
        PROVE pc[v] = "commit" \/ SwapActive(v)
      BY <1>1, <1>2, <2>3, <2>4, <2>5
         DEF ClaimJob, WorkerStep, Begin, ShowProcessing, StageDone, ClearChunks,
             InsertChunks, SmokeCheck, Activate, ReadFailed, HandleException,
             HandlerRaises, SourceRejected, TransientFault, WorkerCrash, OutageInTask,
             EndTask, Raise
  <2> QED BY <2>1, <2>2, <2>5, WorkerWriters
<1>3. CASE SwapActive(w)
  <2>1. /\ UNCHANGED status /\ \A v \in Workers : pc[v] # "commit"
        /\ StillExpected(w) /\ TransitionAllowed(status, "completed") /\ pc[w] = "activate"
        /\ \A v \in Workers : v # w => pc'[v] = pc[v]
      BY <1>1, <1>3 DEF SwapActive, RowsLocked, jobVars
  <2>2. status = "running"
      BY <1>1, <2>1 DEF StillExpected, TransitionAllowed, IInv, LateActivationFails, Open,
                        Terminal
  <2> QED BY <2>1, <2>2
<1>4. CASE pc[w] = "commit"
  <2>1. status \in {"running", "retrying"} /\ \A v \in Workers : pc[v] = "commit" => v = w
      BY <1>4 DEF IInv, ActivationsHold
  <2>2. \A v \in Workers : pc'[v] = "commit" => v = w
      BY <1>2, <1>4, <2>1 DEF SwapActive, RowsLocked
  <2>3. status' \in {"running", "retrying"}
    <3>1. ASSUME NEW v \in Workers, Activate(v) PROVE FALSE
        BY <1>1, <1>4, <2>1, <3>1 DEF Activate, EndTask
    <3>2. ASSUME NEW v \in Workers PROVE ~HandleException(v)
        BY <1>4 DEF HandleException, RowsLocked
    <3>3. ~CancelWaitingJob BY <1>4 DEF CancelWaitingJob, RowsLocked
    <3> QED
        BY <2>1, <3>1, <3>2, <3>3, JobWriters
           DEF jobVars, ClaimJob, StartStage, ExpireJobLease, CommitStaleLeases,
               RecordCancelRequest
  <2> QED BY <2>2, <2>3
<1> QED BY <1>2, <1>3, <1>4

\* Every step preserves the inductive invariant.
LEMMA InvStep ==
    ASSUME IInv, [Next]_vars
    PROVE IInv'
BY TypesStep, LeaseStep, VersionStep, ClaimStep, CompletionStep, HandlersStep,
   ActivationStep DEF IInv

\* The inductive invariant holds in every reachable state.
LEMMA Invariance == Spec => []IInv
BY InitInv, InvStep, PTL DEF Spec

-----------------------------------------------------------------------------
(***************************************************************************)
(* Theorems                                                                *)
(***************************************************************************)

\* A running job carries a lease, and only a running or a failed one does.
THEOREM RunningIsLeased == Spec => []LeaseWhileRunning
<1>1. IInv => LeaseWhileRunning BY DEF IInv
<1> QED BY <1>1, Invariance, PTL

\* Job, version and active version pointer agree at every commit.
THEOREM RowsAgree == Spec => []VersionFollowsJob
<1>1. IInv => VersionFollowsJob BY DEF IInv
<1> QED BY <1>1, Invariance, PTL

\* At most one attempt ever completes, and the job completed with it.
THEOREM SingleCompletion == Spec => []OneCompletion
<1>1. IInv => OneCompletion BY DEF IInv
<1> QED BY <1>1, Invariance, PTL

\* Nothing that a leftover worker, the reconciler or a late cancellation does
\* changes the outcome or the attempt of a job that has ended, nor the stage or the
\* lease of one that was completed or cancelled.
THEOREM EndedStaysEnded == Spec => EndedJobIsFrozen
<1> DEFINE Kept == UNCHANGED <<status, attempt>>
                      /\ (status \in {"completed", "cancelled"} => UNCHANGED <<stage, lease>>)
<1>1. ASSUME IInv, [Next]_vars, status \in Terminal
      PROVE Kept
  <2>1. /\ status \notin {"queued", "running", "retrying"}
        /\ status \in {"completed", "cancelled"} => lease = "none"
      BY <1>1 DEF Terminal, IInv, LeaseWhileRunning, TypeInv, TypeOK, JobTypes
  <2>2. CASE UNCHANGED jobVars BY <2>2 DEF jobVars
  <2>3. ASSUME NEW w \in Workers, NEW r \in 0 .. MaxRetries, ClaimJob(w, r) PROVE FALSE
      BY <2>1, <2>3 DEF ClaimJob, CanClaim
  <2>4. ASSUME NEW w \in Workers, StartStage(w) PROVE Kept
      BY <2>1, <2>4 DEF StartStage, Renewable
  <2>5. ASSUME NEW w \in Workers, Activate(w) PROVE FALSE
      BY <1>1, <2>1, <2>5, ActivationOutcome
  <2>6. ASSUME NEW w \in Workers, HandleException(w) PROVE Kept
      BY <1>1, <2>1, <2>6, HandlerOutcome
  <2>7. CASE ExpireJobLease BY <2>1, <2>7 DEF ExpireJobLease
  <2>8. CASE CommitStaleLeases BY <1>1, <2>1, <2>8 DEF CommitStaleLeases, TakeBackConflicts
  <2>9. CASE RecordCancelRequest BY <2>9 DEF RecordCancelRequest
  <2>10. CASE CancelWaitingJob BY <1>1, <2>1, <2>10, CancelsWaiting
  <2> QED
      BY <1>1, <2>2, <2>3, <2>4, <2>5, <2>6, <2>7, <2>8, <2>9, <2>10, JobWriters
<1>2. IInv /\ [Next]_vars =>
         [/\ status \in Terminal => UNCHANGED <<status, attempt>>
          /\ status \in {"completed", "cancelled"} => UNCHANGED <<stage, lease>>]_vars
    BY <1>1 DEF Terminal
<1> QED BY <1>2, Invariance, PTL DEF Spec, EndedJobIsFrozen

\* The control plane implements the life of a job that readers rely on.
THEOREM Refinement == Spec => LifecycleRefined
<1>1. Init => JL!JLInit BY DEF Init, JL!JLInit
<1>2. IInv /\ [Next]_vars => [JL!JLNext]_(JL!jlVars)
    BY LifecycleStep DEF JL!jlVars
<1> QED BY <1>1, <1>2, Invariance, PTL DEF Spec, LifecycleRefined, JL!JLSpec

-----------------------------------------------------------------------------
(***************************************************************************)
(* One worker at a time: what a calm deployment guarantees                 *)
(***************************************************************************)

\* What a calm deployment leaves out: no worker is killed, no live worker or
\* dispatcher outlasts its lease, the database answers, nobody cancels.
\* Transient faults and killed dispatchers remain, in any number.
Calm == ~Slow /\ MaxWorkerCrashes = 0 /\ MaxOutages = 0 /\ MaxCancels = 0

\* Nothing of a cancellation or of an expired lease is under way.
Undisturbed ==
    /\ ~cancelAsked /\ cpc = "idle" /\ rec = NothingStale
    /\ lease # "expired" /\ \A a \in Attempts : attStatus[a] # "overdue"

\* A process in a task of the job works on the job's latest attempt.
WorkersCurrent ==
    \A w \in Workers : IF pc[w] = "idle" THEN att[w] = 0
                       ELSE att[w] = attempt /\ attempt # 0

\* An attempt row says running only while a process works on the attempt.
AttemptsHeld == \A a \in Attempts : attStatus[a] = "running" => \E w \in Workers : att[w] = a

\* No lease is left behind: the job row says running while a process is in a task,
\* and carries a lease only then.
RunningIsHeld ==
    /\ status = "running" <=> \E w \in Workers : pc[w] # "idle"
    /\ lease # "none" => status = "running"

\* Attempts not claimed yet, and the one under way, have no receipt.
ReceiptsEnded ==
    /\ \A a \in Attempts : a > attempt => receiptAt[a] = 0
    /\ \A w \in Workers : pc[w] # "idle" => receiptAt[att[w]] = 0

\* The document is shown as processing by a running job alone.
ProcessingIsRunning == docStatus = "processing" => status = "running"

\* A handler has seen its own running job, and documents.status is not left alone
\* unless it needs no correction.
RunningJobRead ==
    \A w \in Workers :
        seen[w] # Unread =>
            /\ seen[w].status = "running" /\ seen[w].leased /\ seen[w].stage # 0
            /\ seen[w].shown = Unwritten => docStatus # "processing"

CalmInv ==
    /\ Undisturbed
    /\ WorkersCurrent
    /\ AttemptsHeld
    /\ RunningIsHeld
    /\ OneWorkerAtATime
    /\ ReceiptsEnded
    /\ ProcessingIsRunning
    /\ RunningJobRead

\* The rows accept_source commits satisfy it.
LEMMA InitCalm == Init => CalmInv
<1> SUFFICES ASSUME Init PROVE CalmInv
    OBVIOUS
<1> USE DEF Init
<1>1. Undisturbed /\ AttemptsHeld BY Zenon DEF Undisturbed, AttemptsHeld
<1>2. WorkersCurrent /\ RunningIsHeld /\ OneWorkerAtATime
    BY DEF WorkersCurrent, RunningIsHeld, OneWorkerAtATime
<1>3. ReceiptsEnded BY DEF ReceiptsEnded
<1>4. ProcessingIsRunning BY DEF ProcessingIsRunning
<1>5. RunningJobRead BY DEF RunningJobRead
<1> QED BY <1>1, <1>2, <1>3, <1>4, <1>5 DEF CalmInv

\* In a calm deployment no handler fails: its job is running and asked to stop
\* by nobody, and its attempt has no receipt.
LEMMA HandlerCommits ==
    ASSUME IInv, CalmInv, NEW w \in Workers, pc[w] \in Exceptions
    PROVE /\ status = "running" /\ ~CannotHandle(w)
          /\ seen[w] # Unread => ~HandlerConflicts(w)
          /\ pc[w] \in {"IngestionJobError", "Exception"}
          /\ \A v \in Workers : pc[v] # "idle" => v = w
<1>1. pc[w] # "idle" BY DEF Exceptions
<1>2. status = "running" /\ ~cancelAsked /\ receiptAt[att[w]] = 0
    BY <1>1 DEF CalmInv, RunningIsHeld, Undisturbed, ReceiptsEnded
<1>3. pc[w] \in {"IngestionJobError", "Exception"}
    BY <1>2 DEF IInv, StopsWhenAsked, Exceptions
<1>4. HandlerStatus(pc[w]) \in {"failed", "retrying"} BY <1>3 DEF HandlerStatus
<1>5. ~CannotHandle(w) BY <1>2, <1>4 DEF CannotHandle, TransitionAllowed
<1>6. seen[w] # Unread => seen[w].stage # 0 BY DEF CalmInv, RunningJobRead
<1>7. seen[w] # Unread => ~HandlerConflicts(w)
    BY <1>2, <1>6 DEF HandlerConflicts, Terminal
<1> QED BY <1>1, <1>2, <1>3, <1>5, <1>7 DEF CalmInv, OneWorkerAtATime

\* In a calm deployment leases do not expire, nothing is reconciled, nobody is
\* killed, and no task ends without its outcome.
LEMMA CalmSteps ==
    ASSUME Calm, IInv, CalmInv, [Next]_vars
    PROVE \/ UNCHANGED <<jobVars, attemptVars, docVars, workerVars, readVars>>
          \/ NewVersionActivates
          \/ \E w \in Workers :
                \/ \E r \in 0 .. MaxRetries : ClaimJob(w, r)
                \/ Begin(w) \/ ShowProcessing(w) \/ Advance(w) \/ StartStage(w)
                \/ StageDone(w) \/ ClearChunks(w) \/ InsertChunks(w) \/ SmokeCheck(w)
                \/ SwapActive(w) \/ Activate(w) \/ ReadFailed(w) \/ HandleException(w)
                \/ SourceRejected(w) \/ TransientFault(w)
<1>1. workerCrashes \in Nat /\ outages \in Nat /\ cancels \in Nat
    BY DEF IInv, TypeInv, TypeOK, BudgetTypes
<1>2. ASSUME NEW w \in Workers
      PROVE /\ ~WorkerCrash(w) /\ ~OutageInTask(w)
            /\ \A r \in 0 .. MaxRetries : ~OutageOnDelivery(w, r)
    BY <1>1 DEF Calm, WorkerCrash, OutageInTask, OutageOnDelivery
<1>3. ASSUME NEW w \in Workers PROVE ~HandlerRaises(w)
    BY HandlerCommits DEF HandlerRaises
<1>4. ASSUME NEW a \in Attempts PROVE ~ExpireAttempt(a)
    BY DEF ExpireAttempt, Calm, CalmInv, AttemptsHeld
<1>5. ~ExpireJobLease
    BY DEF ExpireJobLease, Calm, CalmInv, RunningIsHeld, IInv, LeaseWhileRunning
<1>6. ~ReadStaleLeases /\ ~CommitStaleLeases
    BY DEF ReadStaleLeases, CommitStaleLeases, Overdue, CalmInv, Undisturbed
<1>7. ~Cancellation
    BY <1>1 DEF Cancellation, ReadForCancel, RecordCancelRequest, CancelWaitingJob,
                CancelFails, Calm, CalmInv, Undisturbed
<1>8. ASSUME (\E d \in Dispatchers : DispatcherStep(d) \/ DispatcherCrash(d))
                \/ ReapStaleDispatch \/ DispatchClaimTimesOut
                \/ \E w \in Workers, r \in 0 .. MaxRetries :
                      ClaimRefused(w, r) \/ DiscardDelivery(w, r)
      PROVE UNCHANGED <<jobVars, attemptVars, docVars, workerVars, readVars>>
    BY <1>8
       DEF DispatcherStep, ClaimOutbox, Publish, PublishRaises, RecordDispatch,
           DispatcherCrash, ReapStaleDispatch, DispatchClaimTimesOut, ClaimRefused,
           DiscardDelivery
<1>9. CASE UNCHANGED vars BY <1>9 DEF vars
<1>10. CASE Mishap BY <1>2, <1>8, <1>10 DEF Mishap
<1>11. ASSUME NEW w \in Workers, TakeDelivery(w) \/ WorkerStep(w)
       PROVE \/ UNCHANGED <<jobVars, attemptVars, docVars, workerVars, readVars>>
             \/ \E r \in 0 .. MaxRetries : ClaimJob(w, r)
             \/ Begin(w) \/ ShowProcessing(w) \/ Advance(w) \/ StartStage(w)
             \/ StageDone(w) \/ ClearChunks(w) \/ InsertChunks(w) \/ SmokeCheck(w)
             \/ SwapActive(w) \/ Activate(w) \/ ReadFailed(w) \/ HandleException(w)
    BY <1>3, <1>8, <1>11 DEF TakeDelivery, WorkerStep
<1> QED BY <1>4, <1>5, <1>6, <1>7, <1>8, <1>9, <1>10, <1>11 DEF Next

\* A worker that goes on with its task, or raises, disturbs nothing.
LEMMA WorkerGoesOn ==
    ASSUME IInv, CalmInv, NEW w \in Workers, pc[w] # "idle",
           NEW p \in WorkerPCs \ {"idle"}, pc' = [pc EXCEPT ![w] = p],
           UNCHANGED <<status, attempt, cancelAsked, attemptVars, att, readVars>>,
           lease' # "expired",
           UNCHANGED docStatus \/ (docStatus' = "processing" /\ pc[w] \notin Exceptions),
           UNCHANGED seen
    PROVE CalmInv'
<1> USE DEF CalmInv, attemptVars, readVars, cancelVars
<1>1. /\ pc \in [Workers -> WorkerPCs] /\ pc'[w] # "idle"
      /\ \A v \in Workers : pc'[v] = "idle" <=> pc[v] = "idle"
    BY DEF IInv, TypeInv, TypeOK, WorkerTypes
<1>2. Undisturbed' BY DEF Undisturbed
<1>3. WorkersCurrent' /\ AttemptsHeld' BY <1>1 DEF WorkersCurrent, AttemptsHeld
<1>4. RunningIsHeld' /\ OneWorkerAtATime' BY <1>1 DEF RunningIsHeld, OneWorkerAtATime
<1>5. ReceiptsEnded' BY <1>1 DEF ReceiptsEnded
<1>6. ProcessingIsRunning' BY DEF ProcessingIsRunning, RunningIsHeld
<1>7. RunningJobRead'
  <2> SUFFICES ASSUME NEW v \in Workers, seen[v] # Unread
               PROVE /\ seen[v].status = "running" /\ seen[v].leased /\ seen[v].stage # 0
                     /\ seen[v].shown = Unwritten => docStatus' # "processing"
      BY DEF RunningJobRead
  <2>1. pc[v] \in {"IngestionJobError", "Exception"} BY DEF IInv, HandlersRead
  <2>2. v = w BY <2>1 DEF OneWorkerAtATime
  <2> QED BY <2>1, <2>2 DEF RunningJobRead, Exceptions
<1> QED BY <1>2, <1>3, <1>4, <1>5, <1>6, <1>7

\* The end of the one task there is, with its outcome, leaves no process on the
\* job and its attempt closed.
LEMMA TaskEnds ==
    ASSUME IInv, CalmInv, NEW w \in Workers, pc[w] # "idle", EndTask(w),
           status' # "running", lease' = "none", docStatus' # "processing",
           NEW s \in {"completed", "failed"}, attStatus' = [attStatus EXCEPT ![att[w]] = s],
           \A a \in Attempts : a # att[w] => receiptAt'[a] = receiptAt[a],
           UNCHANGED <<attempt, cancelAsked, readVars>>
    PROVE CalmInv'
<1> USE DEF CalmInv, readVars, cancelVars
<1>1. /\ \A v \in Workers : pc'[v] = "idle" /\ att'[v] = 0
      /\ attStatus'[att[w]] = s
      /\ \A v \in Workers : v # w => att[v] = 0
  <2>1. \A v \in Workers : v # w => pc[v] = "idle" /\ att[v] = 0
      BY DEF OneWorkerAtATime, WorkersCurrent
  <2>2. pc \in [Workers -> WorkerPCs] /\ att \in [Workers -> 0 .. MaxAttempts]
        /\ attStatus \in [Attempts -> {"none", "running", "overdue", "completed", "failed",
                                       "cancelled", "stale"}]
      BY DEF IInv, TypeInv, TypeOK, WorkerTypes, AttemptTypes
  <2>3. att[w] \in Attempts
      BY <2>2, BoundsAssumption DEF WorkersCurrent, Attempts
  <2> QED BY <2>1, <2>2, <2>3 DEF EndTask
<1>2. Undisturbed' BY DEF Undisturbed
<1>3. WorkersCurrent' /\ RunningIsHeld' /\ OneWorkerAtATime'
    BY <1>1 DEF WorkersCurrent, RunningIsHeld, OneWorkerAtATime
<1>4. AttemptsHeld'
  <2> SUFFICES ASSUME NEW a \in Attempts, attStatus'[a] = "running" PROVE FALSE
      BY DEF AttemptsHeld
  <2>1. attStatus[a] = "running" /\ a # att[w] BY <1>1
  <2>2. 0 \notin Attempts BY DEF Attempts
  <2> QED BY <1>1, <2>1, <2>2 DEF AttemptsHeld
<1>5. ReceiptsEnded'
  <2>1. att[w] = attempt BY DEF WorkersCurrent
  <2>2. attempt \in Nat BY BoundsAssumption DEF IInv, TypeInv, TypeOK, JobTypes
  <2> QED BY <1>1, <2>1, <2>2 DEF ReceiptsEnded, Attempts
<1>6. ProcessingIsRunning' BY DEF ProcessingIsRunning
<1>7. RunningJobRead'
  <2>1. \A v \in Workers : v # w => seen[v] = Unread
      BY DEF IInv, HandlersRead, OneWorkerAtATime
  <2>2. seen \in [Workers -> [status : Open \cup Terminal, stage : {0} \cup Stages,
                             leased : BOOLEAN, shown : {"error", "indexed", Unwritten}]]
      BY DEF IInv, TypeInv, TypeOK, WorkerTypes
  <2>3. \A v \in Workers : seen'[v] = Unread BY <2>1, <2>2 DEF EndTask
  <2> QED BY <2>3 DEF RunningJobRead
<1> QED BY <1>2, <1>3, <1>4, <1>5, <1>6, <1>7

\* The claim starts a new attempt, and no process is on an earlier one.
LEMMA ClaimIsAlone ==
    ASSUME IInv, CalmInv, NEW w \in Workers, NEW r \in 0 .. MaxRetries, ClaimJob(w, r)
    PROVE CalmInv' /\ status \in {"queued", "retrying"} /\ \A v \in Workers : pc[v] = "idle"
<1> USE DEF CalmInv
<1>1. status \in {"queued", "retrying"}
    BY DEF ClaimJob, CanClaim, IInv, LeaseWhileRunning, Undisturbed, TypeInv, TypeOK, JobTypes
<1>2. \A v \in Workers : pc[v] = "idle" /\ att[v] = 0
    BY <1>1 DEF RunningIsHeld, WorkersCurrent
<1>3. /\ pc \in [Workers -> WorkerPCs] /\ att \in [Workers -> 0 .. MaxAttempts]
      /\ attStatus \in [Attempts -> {"none", "running", "overdue", "completed", "failed",
                                     "cancelled", "stale"}]
      /\ attempt \in Nat /\ attempt' = attempt + 1 /\ attempt + 1 \in Attempts
    BY BoundsAssumption
       DEF ClaimJob, IInv, TypeInv, TypeOK, WorkerTypes, AttemptTypes, JobTypes, Attempts
<1>4. /\ pc'[w] = "begin" /\ att'[w] = attempt + 1
      /\ \A v \in Workers : v # w => pc'[v] = "idle" /\ att'[v] = 0
    BY <1>2, <1>3 DEF ClaimJob
<1>5. Undisturbed' BY <1>3 DEF ClaimJob, Undisturbed, readVars, cancelVars
<1>6. WorkersCurrent' /\ OneWorkerAtATime'
    BY <1>3, <1>4 DEF WorkersCurrent, OneWorkerAtATime
<1>7. RunningIsHeld' BY <1>4 DEF RunningIsHeld, ClaimJob
<1>8. AttemptsHeld'
  <2> SUFFICES ASSUME NEW a \in Attempts, attStatus'[a] = "running", a # attempt + 1
               PROVE FALSE
      BY <1>4 DEF AttemptsHeld
  <2>1. attStatus[a] = "running" BY <1>3 DEF ClaimJob
  <2> QED BY <1>2, <2>1 DEF AttemptsHeld, Attempts
<1>9. ReceiptsEnded'
  <2>1. UNCHANGED receiptAt /\ receiptAt[attempt + 1] = 0
      BY <1>3 DEF ClaimJob, ReceiptsEnded
  <2>2. \A a \in Attempts : a > attempt + 1 => receiptAt[a] = 0
      BY <1>3 DEF ReceiptsEnded, Attempts
  <2> QED BY <1>3, <1>4, <2>1, <2>2 DEF ReceiptsEnded
<1>10. ProcessingIsRunning' BY DEF ClaimJob, ProcessingIsRunning
<1>11. RunningJobRead'
  <2>1. \A v \in Workers : seen[v] = Unread BY <1>2 DEF IInv, HandlersRead
  <2>2. UNCHANGED seen BY DEF ClaimJob
  <2> QED BY <2>1, <2>2 DEF RunningJobRead
<1> QED BY <1>1, <1>2, <1>5, <1>6, <1>7, <1>8, <1>9, <1>10, <1>11

\* Every step of a calm deployment keeps the job with one worker.
LEMMA CalmStep ==
    ASSUME Calm, IInv, CalmInv, [Next]_vars
    PROVE CalmInv'
<1> USE DEF attemptVars, docVars, jobVars, readVars, cancelVars
<1>1. CASE UNCHANGED <<jobVars, attemptVars, docVars, workerVars, readVars>>
    BY <1>1 DEF workerVars, CalmInv, Undisturbed, WorkersCurrent, AttemptsHeld, RunningIsHeld,
                OneWorkerAtATime, ReceiptsEnded, ProcessingIsRunning, RunningJobRead
<1>2. CASE NewVersionActivates
    BY <1>2 DEF NewVersionActivates, workerVars, CalmInv, Undisturbed, WorkersCurrent,
                AttemptsHeld, RunningIsHeld, OneWorkerAtATime, ReceiptsEnded,
                ProcessingIsRunning, RunningJobRead
<1>3. ASSUME NEW w \in Workers, NEW r \in 0 .. MaxRetries, ClaimJob(w, r) PROVE CalmInv'
    BY <1>3, ClaimIsAlone
<1>4. lease # "expired" BY DEF CalmInv, Undisturbed
<1>5. ASSUME NEW w \in Workers, Begin(w) PROVE CalmInv'
    BY <1>4, <1>5, WorkerGoesOn DEF Begin, WorkerPCs, Working
<1>6. ASSUME NEW w \in Workers, ShowProcessing(w) PROVE CalmInv'
    BY <1>4, <1>6, WorkerGoesOn DEF ShowProcessing, WorkerPCs, Working, Exceptions
<1>7. ASSUME NEW w \in Workers, Advance(w) PROVE CalmInv'
  <2>1. \E p \in WorkerPCs \ {"idle"} : pc' = [pc EXCEPT ![w] = p]
      BY <1>7 DEF Advance, WorkerPCs, Working, Exceptions
  <2> QED BY <1>4, <1>7, <2>1, WorkerGoesOn DEF Advance
<1>8. ASSUME NEW w \in Workers, StartStage(w) PROVE CalmInv'
  <2>1. pc[w] # "idle" /\ lease' # "expired" BY <1>4, <1>8 DEF StartStage
  <2>2. UNCHANGED attStatus
    <3>1. att[w] \in Attempts /\ attStatus[att[w]] # "overdue"
        BY <2>1, BoundsAssumption
           DEF CalmInv, WorkersCurrent, Undisturbed, Attempts, IInv, TypeInv, TypeOK, WorkerTypes
    <3> QED BY <1>8, <3>1 DEF StartStage, IInv, TypeInv, TypeOK, AttemptTypes
  <2>3. \E p \in WorkerPCs \ {"idle"} : pc' = [pc EXCEPT ![w] = p]
      BY <1>8 DEF StartStage, Raise, AfterStart, WorkerPCs, Working, Exceptions
  <2>4. UNCHANGED <<status, attempt, cancelAsked, receiptAt, att, readVars, docStatus, seen>>
      BY <1>8 DEF StartStage
  <2> QED BY <2>1, <2>2, <2>3, <2>4, WorkerGoesOn
<1>9. ASSUME NEW w \in Workers, StageDone(w) PROVE CalmInv'
    BY <1>4, <1>9, WorkerGoesOn DEF StageDone, WorkerPCs, Working
<1>10. ASSUME NEW w \in Workers, ClearChunks(w) PROVE CalmInv'
    BY <1>4, <1>10, WorkerGoesOn DEF ClearChunks, WorkerPCs, Working
<1>11. ASSUME NEW w \in Workers, InsertChunks(w) PROVE CalmInv'
    BY <1>4, <1>11, WorkerGoesOn DEF InsertChunks, Raise, WorkerPCs, Working, Exceptions
<1>12. ASSUME NEW w \in Workers, SmokeCheck(w) PROVE CalmInv'
    BY <1>4, <1>12, WorkerGoesOn DEF SmokeCheck, Raise, WorkerPCs, Working, Exceptions
<1>13. ASSUME NEW w \in Workers, SwapActive(w) PROVE CalmInv'
  <2>1. \E p \in WorkerPCs \ {"idle"} : pc' = [pc EXCEPT ![w] = p]
      BY <1>13 DEF SwapActive, WorkerPCs, Working, Exceptions
  <2> QED BY <1>4, <1>13, <2>1, WorkerGoesOn DEF SwapActive
<1>14. ASSUME NEW w \in Workers, Activate(w) PROVE CalmInv'
  <2>1. /\ pc[w] # "idle" /\ EndTask(w) /\ status' = "completed" /\ lease' = "none"
        /\ docStatus' = "indexed" /\ attStatus' = [attStatus EXCEPT ![att[w]] = "completed"]
        /\ UNCHANGED <<attempt, cancelAsked, receiptAt, readVars>>
      BY <1>14 DEF Activate
  <2> QED BY <2>1, TaskEnds
<1>15. ASSUME NEW w \in Workers, ReadFailed(w) PROVE CalmInv'
  <2>1. /\ pc[w] \in {"IngestionJobError", "Exception"} /\ status = "running"
        /\ \A v \in Workers : pc[v] # "idle" => v = w
      BY <1>15, HandlerCommits DEF ReadFailed
  <2>2. UNCHANGED <<jobVars, attemptVars, docVars, pc, att, readVars>>
      BY <1>15 DEF ReadFailed
  <2>3. RunningJobRead'
    <3>1. ASSUME NEW v \in Workers, v # w PROVE seen'[v] = Unread
        BY <1>15, <2>1, <3>1 DEF ReadFailed, IInv, HandlersRead, TypeInv, TypeOK, WorkerTypes
    <3>2. /\ seen'[w].status = "running" /\ seen'[w].leased
      <4>1. lease # "none" BY <2>1 DEF IInv, LeaseWhileRunning
      <4>2. seen'[w] = [status |-> "running", stage |-> stage, leased |-> TRUE,
                        shown |-> Written(ShownAfterFailure)]
          BY <1>15, <2>1, <4>1 DEF ReadFailed, IInv, TypeInv, TypeOK, WorkerTypes
      <4> QED BY <4>2
    <3>3. seen'[w].stage = stage /\ seen'[w].shown = Written(ShownAfterFailure)
        BY <1>15 DEF ReadFailed, IInv, TypeInv, TypeOK, WorkerTypes
    <3>4. stage # 0
        BY BoundsAssumption
           DEF IInv, TypeInv, TypeOK, JobTypes, Stages, Validating, Activating
    <3>5. seen'[w].shown = Unwritten => docStatus # "processing"
        BY <3>3 DEF Written, ShownAfterFailure, Unwritten
    <3> QED BY <2>2, <3>1, <3>2, <3>3, <3>4, <3>5 DEF RunningJobRead
  <2> QED
      BY <2>2, <2>3 DEF CalmInv, Undisturbed, WorkersCurrent, AttemptsHeld, RunningIsHeld,
                        OneWorkerAtATime, ReceiptsEnded, ProcessingIsRunning
<1>16. ASSUME NEW w \in Workers, SourceRejected(w) PROVE CalmInv'
    BY <1>4, <1>16, WorkerGoesOn DEF SourceRejected, Raise, WorkerPCs, Exceptions
<1>17. ASSUME NEW w \in Workers, TransientFault(w) PROVE CalmInv'
    BY <1>4, <1>17, WorkerGoesOn DEF TransientFault, Raise, WorkerPCs, Exceptions, Working
<1>18. ASSUME NEW w \in Workers, HandleException(w) PROVE CalmInv'
  <2>1. /\ pc[w] \in {"IngestionJobError", "Exception"} /\ pc[w] # "idle"
        /\ seen[w] # Unread
      BY <1>18, HandlerCommits DEF HandleException, Exceptions
  <2>2. /\ seen[w].status = "running" /\ seen[w].leased
        /\ seen[w].shown = Unwritten => docStatus # "processing"
        /\ seen[w].shown \in {"error", "indexed", Unwritten}
      BY <2>1 DEF CalmInv, RunningJobRead, IInv, TypeInv, TypeOK, WorkerTypes
  <2>3. HandlerStatus(pc[w]) \in {"failed", "retrying"} /\ HandlerAttempt(pc[w]) = "failed"
      BY <2>1 DEF HandlerStatus, HandlerAttempt
  <2>4. /\ EndTask(w) /\ lease' = "none" /\ status' # "running" /\ docStatus' # "processing"
        /\ attStatus' = [attStatus EXCEPT ![att[w]] = "failed"]
        /\ UNCHANGED <<attempt, cancelAsked, readVars>>
      BY <1>18, <2>2, <2>3 DEF HandleException, Show, Unwritten
  <2>5. \A a \in Attempts : a # att[w] => receiptAt'[a] = receiptAt[a]
      BY <1>18 DEF HandleException, IInv, TypeInv, TypeOK, AttemptTypes
  <2> QED BY <2>1, <2>4, <2>5, TaskEnds
<1> QED
    BY <1>1, <1>2, <1>3, <1>5, <1>6, <1>7, <1>8, <1>9, <1>10, <1>11, <1>12, <1>13, <1>14,
       <1>15, <1>16, <1>17, <1>18, CalmSteps

\* In a calm deployment its invariant holds in every reachable state.
LEMMA CalmInvariance == ASSUME Calm PROVE Spec => []CalmInv
BY InitCalm, CalmStep, Invariance, PTL DEF Spec

\* While workers keep their leases, are not killed and are not told to stop, no
\* two of them are in a task of the job at once, whatever transient faults occur
\* and however many duplicates of its message killed dispatchers leave.
THEOREM OneWorker == ASSUME Calm PROVE Spec => []OneWorkerAtATime
<1>1. CalmInv => OneWorkerAtATime BY DEF CalmInv
<1> QED BY <1>1, CalmInvariance, PTL

\* In such a deployment the document of an ended job is not left shown as
\* processing: every task writes its outcome.
THEOREM DocumentSettles == ASSUME Calm PROVE Spec => []DocumentStatusSettles
<1>1. CalmInv => DocumentStatusSettles
    BY DEF CalmInv, ProcessingIsRunning, DocumentStatusSettles, Terminal
<1> QED BY <1>1, CalmInvariance, PTL

-----------------------------------------------------------------------------
(***************************************************************************)
(* The carrier of an open job: the message of a published event is never   *)
(* the last one lost                                                       *)
(***************************************************************************)

\* A calm deployment without transient faults: an attempt only fails for good
\* reason, or because another job of its document activated first.  Celery is
\* allowed to retry at all.
Faultless == Calm /\ MaxFaults = 0 /\ MaxRetries >= 1

\* Until a worker takes the job its messages have used no retry, and there is
\* one when a dispatcher has had its publication accepted.
QueuedIsPublished ==
    status = "queued" =>
        /\ \A r \in 1 .. MaxRetries : queue[r] = 0
        /\ outbox = "published" \/ (\E d \in Dispatchers : dpc[d] = "accepted") =>
               queue[0] > 0

\* Before another job activates its version no attempt is handed to a retry.
FirstDelivery ==
    ~newDone =>
        /\ status # "retrying"
        /\ \A w \in Workers :
              /\ retries[w] = 0 /\ pc[w] # "Exception"
              /\ pc[w] \notin {"idle", "begin"} => expected[w] = active

\* An attempt that loses to another job has all its retries left.
LoserCanRetry ==
    \A w \in Workers :
        /\ pc[w] \notin {"idle", "begin"} /\ retries[w] # 0 => expected[w] = active
        /\ pc[w] = "Exception" => retries[w] = 0

\* Nobody writes chunk rows between the two transactions of indexing.
ClearedStaysClear == \A w \in Workers : pc[w] = "insert" => chunks = 0

\* A job that waits for its retry has a message.
RetryIsQueued == status = "retrying" => \E r \in 0 .. MaxRetries : queue[r] > 0

CarrierInv ==
    /\ QueuedIsPublished
    /\ FirstDelivery
    /\ LoserCanRetry
    /\ ClearedStaysClear
    /\ RetryIsQueued

\* The rows accept_source commits satisfy it.
LEMMA InitCarrier == Init => CarrierInv
<1> SUFFICES ASSUME Init PROVE CarrierInv
    OBVIOUS
<1> USE DEF Init
<1>1. QueuedIsPublished BY DEF QueuedIsPublished
<1>2. FirstDelivery /\ LoserCanRetry BY DEF FirstDelivery, LoserCanRetry
<1>3. ClearedStaysClear /\ RetryIsQueued BY DEF ClearedStaysClear, RetryIsQueued
<1> QED BY <1>1, <1>2, <1>3 DEF CarrierInv

\* The worker of a running job is alone and can renew its lease, and its job
\* may complete.
LEMMA LoneWorker ==
    ASSUME Calm, IInv, CalmInv, NEW w \in Workers, pc[w] # "idle"
    PROVE /\ status = "running" /\ Renewable /\ ~cancelAsked
          /\ TransitionAllowed(status, "completed")
          /\ \A v \in Workers : v # w => pc[v] = "idle"
BY DEF CalmInv, RunningIsHeld, OneWorkerAtATime, Undisturbed, IInv, LeaseWhileRunning,
       Renewable, TransitionAllowed

\* The dispatchers, and the deliveries that no worker takes, keep the messages
\* of a job that waits.
LEMMA CarrierElsewhere ==
    ASSUME Faultless, IInv, CalmInv, CarrierInv, [Next]_vars,
           UNCHANGED <<jobVars, docVars, workerVars>>
    PROVE CarrierInv'
<1> USE DEF CarrierInv, jobVars, docVars, workerVars
<1>1. /\ FirstDelivery' /\ LoserCanRetry' /\ ClearedStaysClear'
    BY DEF FirstDelivery, LoserCanRetry, ClearedStaysClear
<1>2. queue \in [0 .. MaxRetries -> Nat]
      /\ dpc \in [Dispatchers -> {"idle", "claimed", "accepted", "refused"}]
      /\ MaxRetries \in Nat
    BY BoundsAssumption DEF IInv, TypeInv, TypeOK, DeliveryTypes
<1>3. CASE status \notin {"queued", "retrying"}
    BY <1>3 DEF QueuedIsPublished, RetryIsQueued, FirstDelivery, LoserCanRetry,
                ClearedStaysClear
<1>4. CASE status \in {"queued", "retrying"}
  <2>1. \A w \in Workers : pc[w] = "idle" /\ pc'[w] = "idle"
      BY <1>4 DEF CalmInv, RunningIsHeld
  <2>2. ASSUME NEW w \in Workers
        PROVE /\ ~HandleException(w) /\ ~WorkerCrash(w)
              /\ \A r \in 0 .. MaxRetries :
                    /\ ~ClaimJob(w, r) /\ ~ClaimRefused(w, r)
                    /\ ~DiscardDelivery(w, r) /\ ~OutageOnDelivery(w, r)
    BY <1>4, <2>1
       DEF Faultless, Calm, ClaimJob, ClaimRefused, CanClaim, DiscardDelivery, Terminal,
           OutageOnDelivery, HandleException, Exceptions, WorkerCrash, IInv, TypeInv,
           TypeOK, BudgetTypes
  <2>3. \/ UNCHANGED <<outboxVars, queue>>
        \/ \E d \in Dispatchers : DispatcherStep(d) \/ DispatcherCrash(d)
        \/ ReapStaleDispatch \/ DispatchClaimTimesOut
      BY <2>2, DeliveryWriters DEF TakeDelivery
  <2>4. ASSUME NEW d \in Dispatchers, DispatcherStep(d) \/ DispatcherCrash(d)
        PROVE QueuedIsPublished' /\ RetryIsQueued'
    <3> USE DEF QueuedIsPublished, RetryIsQueued
    <3>1. CASE ClaimOutbox(d) BY <1>2, <3>1 DEF ClaimOutbox
    <3>2. CASE Publish(d) BY <1>2, <3>2 DEF Publish, Enqueue
    <3>3. CASE PublishRaises(d)
        BY <3>3 DEF PublishRaises, Faultless, IInv, TypeInv, TypeOK, BudgetTypes
    <3>4. CASE RecordDispatch(d) BY <1>2, <3>4 DEF RecordDispatch
    <3>5. CASE DispatcherCrash(d) BY <1>2, <3>5 DEF DispatcherCrash
    <3> QED BY <2>4, <3>1, <3>2, <3>3, <3>4, <3>5 DEF DispatcherStep
  <2> QED
      BY <1>1, <2>3, <2>4 DEF ReapStaleDispatch, DispatchClaimTimesOut, outboxVars,
                              QueuedIsPublished, RetryIsQueued
<1> QED BY <1>3, <1>4

\* A worker that goes on with its task, or raises for good reason.
LEMMA CarrierGoesOn ==
    ASSUME Faultless, IInv, CalmInv, CarrierInv, NEW w \in Workers, pc[w] # "idle",
           NEW p \in WorkerPCs \ {"idle", "Exception"}, pc' = [pc EXCEPT ![w] = p],
           pc[w] = "begin" => expected'[w] = active,
           pc[w] # "begin" => UNCHANGED expected,
           p = "insert" => chunks' = 0,
           UNCHANGED <<status, active, newDone, retries>>
    PROVE CarrierInv'
<1> USE DEF CarrierInv
<1>1. /\ pc \in [Workers -> WorkerPCs]
      /\ \A v \in Workers : v # w => pc[v] = "idle" /\ pc'[v] = "idle"
      /\ pc'[w] = p /\ status = "running"
    BY LoneWorker DEF Faultless, IInv, TypeInv, TypeOK, WorkerTypes
<1>2. FirstDelivery' BY <1>1 DEF FirstDelivery
<1>3. LoserCanRetry' BY <1>1 DEF LoserCanRetry
<1>4. ClearedStaysClear' BY <1>1 DEF ClearedStaysClear
<1>5. QueuedIsPublished' /\ RetryIsQueued' BY <1>1 DEF QueuedIsPublished, RetryIsQueued
<1> QED BY <1>2, <1>3, <1>4, <1>5

\* Every step leaves an open job with a carrier.
LEMMA CarrierStep ==
    ASSUME Faultless, IInv, CalmInv, CarrierInv, [Next]_vars
    PROVE CarrierInv'
<1> USE DEF attemptVars, docVars, jobVars
<1>1. CASE UNCHANGED <<jobVars, attemptVars, docVars, workerVars, readVars>>
    BY <1>1, CarrierElsewhere
<1>2. CASE NewVersionActivates
  <2>1. UNCHANGED <<status, queue, outboxVars, workerVars, chunks>> /\ ~newDone /\ newDone'
      BY <1>2 DEF NewVersionActivates
  <2> QED
      BY <2>1 DEF CarrierInv, outboxVars, workerVars, QueuedIsPublished, FirstDelivery,
                  LoserCanRetry, ClearedStaysClear, RetryIsQueued
<1>3. ASSUME NEW w \in Workers, NEW r \in 0 .. MaxRetries, ClaimJob(w, r) PROVE CarrierInv'
  <2>1. status \in {"queued", "retrying"} /\ \A v \in Workers : pc[v] = "idle"
      BY <1>3, ClaimIsAlone
  <2>2. status' = "running" /\ queue[r] > 0 /\ pc' = [pc EXCEPT ![w] = "begin"]
        /\ retries' = [retries EXCEPT ![w] = r]
        /\ UNCHANGED <<newDone, active, expected, chunks>>
      BY <1>3 DEF ClaimJob
  <2>3. ~newDone => r = 0
      BY <2>1, <2>2, BoundsAssumption DEF CarrierInv, FirstDelivery, QueuedIsPublished
  <2>4. pc \in [Workers -> WorkerPCs] /\ retries \in [Workers -> 0 .. MaxRetries]
      BY DEF IInv, TypeInv, TypeOK, WorkerTypes
  <2>5. \A v \in Workers : pc'[v] \in {"idle", "begin"} BY <2>1, <2>2, <2>4
  <2>6. FirstDelivery' BY <2>2, <2>3, <2>4, <2>5 DEF CarrierInv, FirstDelivery
  <2>7. LoserCanRetry' /\ ClearedStaysClear' BY <2>5 DEF LoserCanRetry, ClearedStaysClear
  <2>8. QueuedIsPublished' /\ RetryIsQueued' BY <2>2 DEF QueuedIsPublished, RetryIsQueued
  <2> QED BY <2>6, <2>7, <2>8 DEF CarrierInv
<1>4. ASSUME NEW w \in Workers, Begin(w) PROVE CarrierInv'
  <2>1. expected'[w] = active
      BY <1>4 DEF Begin, IInv, TypeInv, TypeOK, WorkerTypes
  <2>2. \E p \in {"advance", "show"} : pc' = [pc EXCEPT ![w] = p] BY <1>4 DEF Begin
  <2>3. pc[w] = "begin" /\ UNCHANGED <<status, active, newDone, retries, chunks>>
      BY <1>4 DEF Begin
  <2> QED BY <2>1, <2>2, <2>3, CarrierGoesOn DEF WorkerPCs, Working
<1>5. ASSUME NEW w \in Workers, ShowProcessing(w) PROVE CarrierInv'
    BY <1>5, CarrierGoesOn DEF ShowProcessing, WorkerPCs, Working
<1>6. ASSUME NEW w \in Workers, Advance(w) \/ StartStage(w) PROVE CarrierInv'
  <2>1. Renewable /\ ~cancelAsked /\ pc[w] # "idle" /\ pc[w] # "begin"
      BY <1>6, LoneWorker DEF Advance, StartStage, Faultless
  <2>2. \E p \in WorkerPCs \ {"idle", "Exception", "insert"} : pc' = [pc EXCEPT ![w] = p]
    <3>1. CASE Advance(w) BY <2>1, <3>1 DEF Advance, WorkerPCs, Working, Exceptions
    <3>2. CASE StartStage(w)
        BY <2>1, <3>2 DEF StartStage, AfterStart, WorkerPCs, Working, Exceptions
    <3> QED BY <1>6, <3>1, <3>2
  <2>3. UNCHANGED <<status, active, newDone, expected, retries>>
      BY <1>6 DEF Advance, StartStage
  <2> QED BY <2>1, <2>2, <2>3, CarrierGoesOn
<1>7. ASSUME NEW w \in Workers, StageDone(w) PROVE CarrierInv'
    BY <1>7, CarrierGoesOn DEF StageDone, WorkerPCs, Working
<1>8. ASSUME NEW w \in Workers, ClearChunks(w) PROVE CarrierInv'
    BY <1>8, CarrierGoesOn DEF ClearChunks, WorkerPCs, Working
<1>9. ASSUME NEW w \in Workers, InsertChunks(w) PROVE CarrierInv'
  <2>1. chunks = 0 BY <1>9 DEF InsertChunks, CarrierInv, ClearedStaysClear
  <2> QED BY <1>9, <2>1, CarrierGoesOn DEF InsertChunks, WorkerPCs, Working
<1>10. ASSUME NEW w \in Workers, SmokeCheck(w) \/ SourceRejected(w) PROVE CarrierInv'
    BY <1>10, CarrierGoesOn
       DEF SmokeCheck, SourceRejected, Raise, WorkerPCs, Working, Exceptions
<1>11. ASSUME NEW w \in Workers PROVE ~TransientFault(w)
    BY DEF TransientFault, Faultless, IInv, TypeInv, TypeOK, BudgetTypes
<1>12. ASSUME NEW w \in Workers, EndTask(w), pc[w] # "idle",
              status' \notin {"queued", "running", "retrying"}, UNCHANGED newDone
       PROVE CarrierInv'
  <2>1. \A v \in Workers : pc'[v] = "idle" /\ (v # w => retries'[v] = retries[v])
        /\ retries'[w] = 0
      BY <1>12, LoneWorker DEF EndTask, Faultless, IInv, TypeInv, TypeOK, WorkerTypes
  <2> QED
      BY <1>12, <2>1 DEF CarrierInv, QueuedIsPublished, FirstDelivery, LoserCanRetry,
                         ClearedStaysClear, RetryIsQueued
<1>13. ASSUME NEW w \in Workers, SwapActive(w) PROVE CarrierInv'
  <2>1. /\ pc[w] = "activate" /\ pc[w] # "idle" /\ ~cancelAsked /\ status = "running"
        /\ TransitionAllowed(status, "completed")
      BY <1>13, LoneWorker DEF SwapActive, Faultless
  <2>2. UNCHANGED <<status, active, newDone, expected, retries, chunks>>
      BY <1>13 DEF SwapActive
  <2>3. CASE StillExpected(w)
    <3>1. pc' = [pc EXCEPT ![w] = "commit"] BY <1>13, <2>1, <2>3 DEF SwapActive
    <3> QED BY <2>1, <2>2, <3>1, CarrierGoesOn DEF WorkerPCs, Working
  <2>4. CASE ~StillExpected(w)
    <3>1. pc' = [pc EXCEPT ![w] = "Exception"] BY <1>13, <2>4 DEF SwapActive
    <3>2. newDone /\ retries[w] = 0
        BY <2>1, <2>4 DEF StillExpected, CarrierInv, FirstDelivery, LoserCanRetry
    <3>3. pc \in [Workers -> WorkerPCs] BY DEF IInv, TypeInv, TypeOK, WorkerTypes
    <3> QED
        BY <2>1, <2>2, <3>1, <3>2, <3>3
           DEF CarrierInv, QueuedIsPublished, FirstDelivery, LoserCanRetry,
               ClearedStaysClear, RetryIsQueued
  <2> QED BY <2>3, <2>4
<1>14. ASSUME NEW w \in Workers, Activate(w) PROVE CarrierInv'
    BY <1>12, <1>14 DEF Activate
<1>15. ASSUME NEW w \in Workers, ReadFailed(w) PROVE CarrierInv'
    BY <1>15 DEF ReadFailed, CarrierInv, outboxVars, QueuedIsPublished, FirstDelivery,
                 LoserCanRetry, ClearedStaysClear, RetryIsQueued
<1>16. ASSUME NEW w \in Workers, HandleException(w) PROVE CarrierInv'
  <2>1. /\ pc[w] # "idle" /\ EndTask(w) /\ UNCHANGED newDone
        /\ pc[w] \in {"IngestionJobError", "Exception"}
        /\ status' = HandlerStatus(pc[w])
    <3>1. pc[w] \in {"IngestionJobError", "Exception"} /\ seen[w].status = "running"
        BY <1>16, HandlerCommits DEF HandleException, CalmInv, RunningJobRead
    <3>2. HandlerStatus(pc[w]) # "running" BY <3>1 DEF HandlerStatus
    <3> QED BY <1>16, <3>1, <3>2 DEF HandleException
  <2>2. CASE pc[w] = "Exception"
    <3>1. status' = "retrying" /\ newDone
        BY <2>1, <2>2 DEF HandlerStatus, CarrierInv, FirstDelivery
    <3>2. 1 \in 0 .. MaxRetries /\ 1 \in Redelivered(retries[w])
        BY <2>2, BoundsAssumption DEF Faultless, Redelivered, CarrierInv, LoserCanRetry
    <3>3. queue'[1] > 0
        BY <1>16, <2>2, <3>2 DEF HandleException, IInv, TypeInv, TypeOK, DeliveryTypes
    <3>4. \A v \in Workers : pc'[v] = "idle"
        BY <2>1, LoneWorker DEF EndTask, Faultless, IInv, TypeInv, TypeOK, WorkerTypes
    <3> QED
        BY <2>1, <3>1, <3>2, <3>3, <3>4
           DEF CarrierInv, QueuedIsPublished, FirstDelivery, LoserCanRetry,
               ClearedStaysClear, RetryIsQueued
  <2>3. CASE pc[w] # "Exception"
    <3>1. status' = "failed" BY <2>1, <2>3 DEF HandlerStatus
    <3> QED BY <1>12, <2>1, <3>1
  <2> QED BY <2>2, <2>3
<1> QED
    BY <1>1, <1>2, <1>3, <1>4, <1>5, <1>6, <1>7, <1>8, <1>9, <1>10, <1>11, <1>13, <1>14,
       <1>15, <1>16, CalmSteps DEF Faultless

\* Every job that has not ended is carried by an outbox event to dispatch, a
\* message or a worker, however many duplicates killed dispatchers leave, as long
\* as no fault uses up the retries of its messages.
THEOREM CarrierKept == ASSUME Faultless PROVE Spec => []JobHasCarrier
<1>1. CalmInv /\ CarrierInv => JobHasCarrier
    BY BoundsAssumption
       DEF CalmInv, RunningIsHeld, CarrierInv, QueuedIsPublished, RetryIsQueued, JobHasCarrier,
           Open
<1>2. Calm BY DEF Faultless
<1>3. Spec => []CarrierInv
    BY <1>2, InitCarrier, CarrierStep, CalmInvariance, Invariance, PTL DEF Spec
<1> QED BY <1>1, <1>2, <1>3, CalmInvariance, PTL

-----------------------------------------------------------------------------
(***************************************************************************)
(* The index of the active version, as long as one worker at a time is on  *)
(* the job: killed, failed, late and cancelled as often as it may be       *)
(***************************************************************************)

\* From the insert of a worker's rows to the activation, its rows are there.
RowsAreOwn ==
    \A w \in Workers :
        /\ pc[w] \in {"smoke", "activate", "commit"} => chunks = att[w]
        /\ pc[w] \in {"advance", "start", "renew"} /\ at[w] = Activating => chunks = att[w]

\* Attempts are numbered from 1.
AttemptsNumbered == \A w \in Workers : pc[w] # "idle" => att[w] # 0

\* No worker is left over when the job has completed.
CompletedIsLeft == status = "completed" => \A w \in Workers : pc[w] = "idle"

IndexInv ==
    /\ RowsAreOwn
    /\ AttemptsNumbered
    /\ CompletedIsLeft

\* The rows accept_source commits satisfy it.
LEMMA InitIndex == Init => IndexInv
BY DEF Init, IndexInv, RowsAreOwn, AttemptsNumbered, CompletedIsLeft

\* The one worker that is on the job goes on, or another claims the job when none is.
LEMMA LoneStep ==
    ASSUME IInv, OneWorkerAtATime, OneWorkerAtATime', [Next]_vars,
           NEW w \in Workers, pc'[w] # "idle"
    PROVE \/ pc'[w] = "begin" /\ att'[w] = attempt + 1
          \/ pc[w] # "idle" /\ UNCHANGED <<workerVars, chunks>>
          \/ /\ pc[w] # "idle" /\ att'[w] = att[w]
             /\ WorkerStep(w) \/ SourceRejected(w) \/ TransientFault(w)
<1> DEFINE Moves(v) == WorkerStep(v) \/ SourceRejected(v) \/ TransientFault(v)
                          \/ WorkerCrash(v) \/ OutageInTask(v)
<1>1. WorkerTypes BY DEF IInv, TypeInv, TypeOK
<1>2. ASSUME NEW v \in Workers, Moves(v) PROVE pc[v] # "idle"
    BY <1>2 DEF WorkerStep, Begin, ShowProcessing, Advance, StartStage, StageDone, ClearChunks,
                InsertChunks, SmokeCheck, SwapActive, Activate, ReadFailed, HandleException,
                HandlerRaises, SourceRejected, TransientFault, WorkerCrash, OutageInTask,
                Working, Exceptions
<1>3. ASSUME NEW v \in Workers, NEW r \in 0 .. MaxRetries, ClaimJob(v, r)
      PROVE pc'[w] = "begin" /\ att'[w] = attempt + 1
  <2>1. pc'[v] = "begin" /\ att'[v] = attempt + 1 BY <1>1, <1>3 DEF ClaimJob, WorkerTypes
  <2>2. v = w BY <2>1 DEF OneWorkerAtATime
  <2> QED BY <2>1, <2>2
<1>4. ASSUME NEW v \in Workers, Moves(v)
      PROVE /\ pc[w] # "idle" /\ att'[w] = att[w]
            /\ WorkerStep(w) \/ SourceRejected(w) \/ TransientFault(w)
  <2>1. v = w
    <3>1. v # w => pc'[w] = pc[w] BY <1>1, <1>4, OthersStay
    <3> QED BY <1>2, <1>4, <3>1 DEF OneWorkerAtATime
  <2>2. ~EndTask(w) BY <1>1 DEF EndTask, WorkerTypes
  <2>3. ~WorkerCrash(w) /\ ~OutageInTask(w) BY <2>2 DEF WorkerCrash, OutageInTask
  <2>4. UNCHANGED att
      BY <1>4, <2>1, <2>2, <2>3
         DEF WorkerStep, Begin, ShowProcessing, Advance, StartStage, StageDone, ClearChunks,
             InsertChunks, SmokeCheck, SwapActive, Activate, ReadFailed, HandleException,
             HandlerRaises, SourceRejected, TransientFault
  <2> QED BY <1>2, <1>4, <2>1, <2>3, <2>4
<1>5. CASE UNCHANGED workerVars
  <2>1. pc[w] # "idle" /\ \A v \in Workers : pc[v] # "idle" => v = w
      BY <1>5 DEF workerVars, OneWorkerAtATime
  <2>2. ASSUME NEW v \in Workers, ClearChunks(v) \/ InsertChunks(v) PROVE FALSE
      BY <1>1, <1>5, <2>2 DEF workerVars, ClearChunks, InsertChunks, Raise, WorkerTypes
  <2>3. UNCHANGED chunks
      BY <2>2, DocWriters DEF docVars, ShowProcessing, Activate, HandleException,
                              CancelWaitingJob, NewVersionActivates
  <2> QED BY <1>5, <2>1, <2>3
<1> QED BY <1>3, <1>4, <1>5, WorkerWriters

\* While the version is active the job has completed and nobody is on it.
LEMMA IndexStep ==
    ASSUME IInv, IInv', OneWorkerAtATime, OneWorkerAtATime', IndexInv, [Next]_vars
    PROVE IndexInv'
<1> USE DEF IndexInv
<1>1. WorkerTypes /\ attempt \in Nat /\ pc \in [Workers -> WorkerPCs]
      /\ at \in [Workers -> Stages]
    BY BoundsAssumption DEF IInv, TypeInv, TypeOK, JobTypes, WorkerTypes
<1>2. AttemptsNumbered'
  <2> SUFFICES ASSUME NEW w \in Workers, pc'[w] # "idle" PROVE att'[w] # 0
      BY DEF AttemptsNumbered
  <2> QED BY <1>1, LoneStep DEF AttemptsNumbered, workerVars
<1>3. CompletedIsLeft'
  <2>1. CASE status = "completed"
    <3>1. \A w \in Workers : pc[w] = "idle" BY <2>1 DEF CompletedIsLeft
    <3>2. UNCHANGED pc
        BY <2>1, <3>1, WorkerWriters
           DEF workerVars, ClaimJob, CanClaim, WorkerStep, Begin, ShowProcessing, Advance,
               StartStage, StageDone, ClearChunks, InsertChunks, SmokeCheck, SwapActive,
               Activate, ReadFailed, HandleException, HandlerRaises, SourceRejected,
               TransientFault, WorkerCrash, OutageInTask, Working, Exceptions
    <3> QED BY <3>1, <3>2 DEF CompletedIsLeft
  <2>2. ASSUME NEW w \in Workers, Activate(w)
        PROVE \A v \in Workers : pc'[v] = "idle"
      BY <1>1, <2>2 DEF Activate, EndTask, OneWorkerAtATime
  <2>3. ASSUME status # "completed", status' = "completed"
        PROVE \E w \in Workers : Activate(w)
    <3>1. ASSUME NEW w \in Workers, HandleException(w) PROVE FALSE
        BY <2>3, <3>1, HandlerOutcome
    <3> QED
        BY <2>3, <3>1, JobWriters
           DEF jobVars, ClaimJob, StartStage, ExpireJobLease, CommitStaleLeases,
               RecordCancelRequest, CancelWaitingJob
  <2> QED BY <2>1, <2>2, <2>3 DEF CompletedIsLeft
<1>4. RowsAreOwn'
  <2> SUFFICES ASSUME NEW w \in Workers,
                      \/ pc'[w] \in {"smoke", "activate", "commit"}
                      \/ pc'[w] \in {"advance", "start", "renew"} /\ at'[w] = Activating
               PROVE chunks' = att'[w]
      BY DEF RowsAreOwn
  <2> USE DEF RowsAreOwn
  <2>1. CASE pc[w] # "idle" /\ UNCHANGED <<workerVars, chunks>>
      BY <2>1 DEF workerVars
  <2>2. CASE Begin(w) \/ ShowProcessing(w)
    <3>1. at'[w] = Validating /\ pc'[w] \in {"show", "advance"}
        BY <1>1, <2>2 DEF Begin, ShowProcessing, IInv, TypeInv, PositionsOK
    <3> QED BY <3>1, BoundsAssumption DEF Validating, Activating
  <2>3. CASE Advance(w)
    <3>1. UNCHANGED <<at, att, chunks>> /\ pc[w] = "advance" BY <2>3 DEF Advance, docVars
    <3>2. pc'[w] \in {"IngestionJobError", "JobCancelled", "Exception", "renew", "start"}
        BY <1>1, <2>3 DEF Advance
    <3> QED BY <3>1, <3>2
  <2>4. CASE StartStage(w)
    <3>1. /\ pc'[w] = AfterStart(at[w]) /\ pc[w] \in {"start", "renew"}
          /\ at' = [at EXCEPT ![w] = IF @ = Validating THEN @ + 1 ELSE @]
          /\ UNCHANGED <<att, chunks>>
        BY <1>1, <2>4 DEF StartStage, docVars, Raise
    <3>2. at[w] = Activating
        BY <1>1, <3>1, BoundsAssumption
           DEF AfterStart, Validating, Indexing, Activating, Stages
    <3> QED BY <3>1, <3>2
  <2>5. CASE StageDone(w)
    <3>1. at[w] + 1 # Activating /\ pc'[w] = "advance" /\ at'[w] = at[w] + 1
        BY <1>1, <2>5, BoundsAssumption
           DEF StageDone, IInv, TypeInv, PositionsOK, Validating, Indexing, Activating, Stages
    <3> QED BY <3>1
  <2>6. CASE ClearChunks(w) BY <1>1, <2>6 DEF ClearChunks
  <2>7. CASE InsertChunks(w) BY <1>1, <2>7 DEF InsertChunks, Raise
  <2>8. CASE SmokeCheck(w) BY <1>1, <2>8 DEF SmokeCheck, Raise, docVars
  <2>9. CASE SwapActive(w) BY <1>1, <2>9 DEF SwapActive, docVars
  <2>10. CASE Activate(w) \/ HandleException(w) \/ HandlerRaises(w)
      BY <1>1, <2>10 DEF Activate, HandleException, HandlerRaises, EndTask
  <2>11. CASE ReadFailed(w) BY <2>11 DEF ReadFailed, Exceptions
  <2>12. CASE SourceRejected(w) \/ TransientFault(w)
      BY <1>1, <2>12 DEF SourceRejected, TransientFault, Raise
  <2> QED
      BY <2>1, <2>2, <2>3, <2>4, <2>5, <2>6, <2>7, <2>8, <2>9, <2>10, <2>11, <2>12,
         LoneStep DEF WorkerStep
<1> QED BY <1>2, <1>3, <1>4

\* What a step of one worker at a time does to the active version's rows.
LEMMA ActivationIndexes ==
    ASSUME IInv, OneWorkerAtATime, IndexInv, [Next]_vars
    PROVE /\ active # "this" /\ active' = "this" => chunks # 0 /\ attStatus'[chunks] = "completed"
          /\ active = "this" => chunks' = chunks
<1> USE DEF IndexInv
<1>1. ASSUME active # "this", active' = "this"
      PROVE chunks # 0 /\ attStatus'[chunks] = "completed"
  <2>1. \E w \in Workers : Activate(w)
      BY <1>1, DocWriters DEF docVars, ShowProcessing, ClearChunks, InsertChunks,
                              HandleException, CancelWaitingJob, NewVersionActivates
  <2>2. PICK w \in Workers : Activate(w) BY <2>1
  <2>3. /\ att[w] \in 0 .. MaxAttempts /\ attStatus \in [Attempts -> {"none", "running",
               "overdue", "completed", "failed", "cancelled", "stale"}]
      BY DEF IInv, TypeInv, TypeOK, WorkerTypes, AttemptTypes
  <2>4. chunks = att[w] /\ att[w] # 0
      BY <2>2 DEF Activate, RowsAreOwn, AttemptsNumbered
  <2>5. att[w] \in Attempts BY <2>3, <2>4, BoundsAssumption DEF Attempts
  <2> QED BY <2>2, <2>3, <2>4, <2>5 DEF Activate
<1>2. ASSUME active = "this" PROVE chunks' = chunks
  <2>1. status = "completed"
      BY <1>2 DEF IInv, VersionFollowsJob, TypeInv, TypeOK, JobTypes, Open, Terminal
  <2>2. \A w \in Workers : pc[w] = "idle" BY <2>1 DEF CompletedIsLeft
  <2> QED
      BY <2>2, DocWriters
         DEF docVars, ShowProcessing, ClearChunks, InsertChunks, Activate, HandleException,
             CancelWaitingJob, NewVersionActivates
<1> QED BY <1>1, <1>2

\* As long as no two workers are on the job at once, a version is activated with the
\* chunk rows of the attempt that completes and keeps them while it is active,
\* whatever kills, faults, cancellations, late renewals and reconciler runs the job
\* goes through.
THEOREM IndexOfActiveVersion == Spec /\ []OneWorkerAtATime => ActiveVersionIndexed
<1>1. IInv /\ OneWorkerAtATime /\ IndexInv /\ [Next]_vars =>
         [/\ active # "this" /\ active' = "this" =>
                chunks # 0 /\ attStatus'[chunks] = "completed"
          /\ active = "this" => chunks' = chunks]_vars
    BY ActivationIndexes
<1>2. Spec /\ []OneWorkerAtATime => []IndexInv
    BY InitIndex, IndexStep, Invariance, PTL DEF Spec
<1> QED BY <1>1, <1>2, Invariance, PTL DEF Spec, ActiveVersionIndexed

\* So it does where one worker process runs the tasks of the job,
THEOREM SerialWorkerIndexes ==
    ASSUME \A v, w \in Workers : v = w PROVE Spec => ActiveVersionIndexed
<1>1. IInv => OneWorkerAtATime BY DEF OneWorkerAtATime
<1> QED BY <1>1, Invariance, IndexOfActiveVersion, PTL

\* and in a calm deployment of any number of workers.
THEOREM CalmIndexes == ASSUME Calm PROVE Spec => ActiveVersionIndexed
BY OneWorker, IndexOfActiveVersion, PTL

=============================================================================
