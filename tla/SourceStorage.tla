---------------------------- MODULE SourceStorage ----------------------------
(***************************************************************************)
(* The bytes of the sources from acceptance to collection: the requests    *)
(* that stage them, the workers that promote and index them, deletion,     *)
(* answers that cite them, the staging sweeper and the retention           *)
(* collector.  Object storage and database share no transaction: every     *)
(* action is one database transaction or one storage call, and a process   *)
(* may die between any two.                                                *)
(*                                                                         *)
(* A source is named by the idempotency key of its acceptance, under which *)
(* at most one version and one job can be committed.                       *)
(***************************************************************************)
EXTENDS Naturals, FiniteSets

CONSTANTS Sources,       \* idempotency keys, and the versions made under them
          Quarantined,   \* sources the content policy refuses to store
          Documents, Clients,
          Held,          \* objects under legal hold
          NoDocument, NoVersion,
          MaxRequests,   \* bound: acceptance requests
          MaxMishaps     \* bound: deaths and failures, of all processes

Kinds == {"staging", "original", "normalized"}
Objects == Sources \X Kinds
Final(v) == {<<v, "original">>, <<v, "normalized">>}
Staging(v) == <<v, "staging">>

ASSUME ParametersAssumption ==
    /\ Quarantined \subseteq Sources
    /\ Held \subseteq Objects
    /\ NoDocument \notin Documents
    /\ NoVersion \notin Sources
    /\ MaxRequests \in Nat
    /\ MaxMishaps \in Nat

VARIABLES
    ver,       \* document_versions.status, with the job that decides it
    docOf,     \* document_versions.document_id
    no,        \* document_versions.version_no
    keyAt,     \* what document_versions.storage_key names
    active,    \* documents.active_version_id
    deleted,   \* documents with deleted_at
    objects,   \* what the object storage holds
    aged,      \* staging objects older than the sweeper's grace period
    row,       \* storage_objects.status
    retain,    \* storage_objects.retention_until: "none", "later", "past"
    chunks,    \* versions that have chunk rows
    cited,     \* versions named by message_citations
    req,       \* acceptance requests
    wpc,       \* where the worker of the version's job stands
    expected,  \* its expected_active_version_id
    reading,   \* the version an answer under way has retrieved
    sweep,     \* sweep_orphan_staging
    gc,        \* run_storage_gc
    requests, mishaps

dbVars == <<ver, docOf, no, keyAt, active, deleted>>
registry == <<row, retain>>
indexVars == <<chunks, cited>>
store == <<objects, aged>>
workers == <<wpc, expected>>
vars == <<dbVars, store, registry, indexVars, req, workers, reading, sweep, gc,
          requests, mishaps>>

VersionStates == {"none", "pending", "ready", "superseded", "failed"}
RowStates == {"none", "staged", "referenced", "deleted"}
WorkerPlaces == {"idle", "start", "put", "promoted", "stored", "rendered",
                 "indexed"}

Idle == [pc |-> "idle", src |-> NoVersion, doc |-> NoDocument, no |-> 0]
NoSweep == [pc |-> "idle", known |-> {}, staged |-> {}, left |-> {}, swept |-> {}]
NoCollection == [pc |-> "idle", left |-> {}, versions |-> {}, chosen |-> {},
                 gone |-> {}]

Accepted == {v \in Sources : ver[v] # "none"}
VersionsOf(d) == {v \in Accepted : docOf[v] = d}

Init ==
    /\ ver = [v \in Sources |-> "none"]
    /\ docOf = [v \in Sources |-> NoDocument]
    /\ no = [v \in Sources |-> 0]
    /\ keyAt = [v \in Sources |-> "none"]
    /\ active = [d \in Documents |-> NoVersion]
    /\ deleted = {}
    /\ objects = {}
    /\ aged = {}
    /\ row = [o \in Objects |-> "none"]
    /\ retain = [o \in Objects |-> "none"]
    /\ chunks = {}
    /\ cited = {}
    /\ req = [c \in Clients |-> Idle]
    /\ wpc = [v \in Sources |-> "idle"]
    /\ expected = [v \in Sources |-> NoVersion]
    /\ reading = NoVersion
    /\ sweep = NoSweep
    /\ gc = NoCollection
    /\ requests = 0
    /\ mishaps = 0

Mishap ==
    /\ mishaps < MaxMishaps
    /\ mishaps' = mishaps + 1

-----------------------------------------------------------------------------
(* Acceptance: accept_source.                                              *)

\* The replay check, the document and the version number are read without a
\* lock.  A request that finds the key answers with the old job and changes
\* nothing.  The document is new, or the live one a repeated scan found.
ReadForAcceptance(c, v, d) ==
    /\ requests < MaxRequests
    /\ req[c].pc = "idle"
    /\ ver[v] = "none"
    /\ d \notin deleted
    /\ VersionsOf(d) = {} => \A other \in Clients : req[other].doc # d
    /\ \E n \in 1..(Cardinality(Sources) + 1) :
         /\ \A w \in VersionsOf(d) : no[w] < n
         /\ n > 1 => \E w \in VersionsOf(d) : no[w] = n - 1
         /\ req' = [req EXCEPT ![c] = [pc |-> "read", src |-> v, doc |-> d, no |-> n]]
    /\ requests' = requests + 1
    /\ UNCHANGED <<dbVars, store, registry, indexVars, workers, reading, sweep, gc,
                   mishaps>>

\* Mutant: no unique key on (document_id, version_no).
CollideOnKeyOnly(r, src, doc, n) == r.src = src

\* The unique keys on the idempotency key and on the document's version number.
Collide(r, src, doc, n) == r.src = src \/ (r.doc = doc /\ r.no = n)
CommittedCollision(r) ==
    \E w \in Accepted : Collide(r, w, docOf[w], no[w])

\* The rows are flushed first: an uncommitted rival with the same unique key
\* makes this request wait for its end.
FlushRows(c) ==
    LET r == req[c] IN
    /\ r.pc = "read"
    /\ ~CommittedCollision(r)
    /\ \A other \in Clients \ {c} :
         req[other].pc \in {"flushed", "put"} =>
             ~Collide(r, req[other].src, req[other].doc, req[other].no)
    /\ req' = [req EXCEPT ![c].pc = "flushed"]
    /\ UNCHANGED <<dbVars, store, registry, indexVars, workers, reading, sweep, gc,
                   requests, mishaps>>

\* The rival has committed: the flush raises before anything is stored.
FlushCollides(c) ==
    /\ req[c].pc = "read"
    /\ CommittedCollision(req[c])
    /\ req' = [req EXCEPT ![c] = Idle]
    /\ UNCHANGED <<dbVars, store, registry, indexVars, workers, reading, sweep, gc,
                   requests, mishaps>>

\* A quarantined source is recorded as failed and never reaches the storage.
CommitQuarantined(c) ==
    LET v == req[c].src IN
    /\ req[c].pc = "flushed"
    /\ v \in Quarantined
    /\ ver' = [ver EXCEPT ![v] = "failed"]
    /\ docOf' = [docOf EXCEPT ![v] = req[c].doc]
    /\ no' = [no EXCEPT ![v] = req[c].no]
    /\ req' = [req EXCEPT ![c] = Idle]
    /\ UNCHANGED <<keyAt, active, deleted, store, registry, indexVars, workers, reading,
                   sweep, gc, requests, mishaps>>

\* The staging key depends only on the idempotency key and the content: a
\* repeated request writes the same object again, as a new one.
PutStaging(c) ==
    LET v == req[c].src IN
    /\ req[c].pc = "flushed"
    /\ v \notin Quarantined
    /\ objects' = objects \union {Staging(v)}
    /\ aged' = aged \ {v}
    /\ req' = [req EXCEPT ![c].pc = "put"]
    /\ UNCHANGED <<dbVars, registry, indexVars, workers, reading, sweep, gc, requests,
                   mishaps>>

\* The checksum is read back from the object; then one commit for version,
\* job, artifact, registry row and outbox event.
CommitAccepted(c) ==
    LET v == req[c].src IN
    /\ req[c].pc = "put"
    /\ Staging(v) \in objects
    /\ ver' = [ver EXCEPT ![v] = "pending"]
    /\ docOf' = [docOf EXCEPT ![v] = req[c].doc]
    /\ no' = [no EXCEPT ![v] = req[c].no]
    /\ keyAt' = [keyAt EXCEPT ![v] = "staging"]
    /\ row' = [row EXCEPT ![Staging(v)] = "staged"]
    /\ req' = [req EXCEPT ![c] = Idle]
    /\ UNCHANGED <<active, deleted, store, retain, indexVars, workers, reading, sweep,
                   gc, requests, mishaps>>

\* The process dies or the storage raises: the rows are rolled back, an object
\* already put stays.
RequestDies(c) ==
    /\ req[c].pc \in {"flushed", "put"}
    /\ Mishap
    /\ req' = [req EXCEPT ![c] = Idle]
    /\ UNCHANGED <<dbVars, store, registry, indexVars, workers, reading, sweep, gc,
                   requests>>

-----------------------------------------------------------------------------
(* The worker: run_ingestion_job, from its snapshot to its activation.     *)

\* Only a job that has not ended is worked on; the snapshot of the active
\* version is taken here.
StartJob(v) ==
    /\ ver[v] = "pending"
    /\ wpc[v] = "idle"
    /\ wpc' = [wpc EXCEPT ![v] = "start"]
    /\ expected' = [expected EXCEPT ![v] = active[docOf[v]]]
    /\ UNCHANGED <<dbVars, store, registry, indexVars, req, reading, sweep, gc,
                   requests, mishaps>>

WorkerStep(v, from, to) ==
    /\ wpc[v] = from
    /\ wpc' = [wpc EXCEPT ![v] = to]
    /\ UNCHANGED <<expected, req, reading, sweep, gc, requests, mishaps>>

Rest(v) ==
    /\ wpc' = [wpc EXCEPT ![v] = "idle"]
    /\ expected' = [expected EXCEPT ![v] = NoVersion]

\* The final object is written and read back before any row names it.
PutOriginal(v) ==
    /\ WorkerStep(v, "start", "put")
    /\ keyAt[v] = "staging"
    /\ Staging(v) \in objects
    /\ objects' = objects \union {<<v, "original">>}
    /\ UNCHANGED <<dbVars, aged, registry, indexVars>>

\* Version, artifact and both registry rows change in one commit.
CommitOriginal(v) ==
    /\ WorkerStep(v, "put", "promoted")
    /\ keyAt' = [keyAt EXCEPT ![v] = "original"]
    /\ row' = [row EXCEPT
         ![Staging(v)] = IF @ = "none" THEN @ ELSE "deleted",
         ![<<v, "original">>] = IF @ = "none" THEN "referenced" ELSE @]
    /\ UNCHANGED <<ver, docOf, no, active, deleted, store, retain, indexVars>>

\* Mutant: what is deleted is version.storage_key after it has been changed.
RemoveStorageKey(v) ==
    /\ WorkerStep(v, "promoted", "stored")
    /\ objects' = objects \ {<<v, keyAt[v]>>}
    /\ aged' = aged \ {v}
    /\ UNCHANGED <<dbVars, registry, indexVars>>

RemoveStaging(v) ==
    /\ WorkerStep(v, "promoted", "stored")
    /\ objects' = objects \ {Staging(v)}
    /\ aged' = aged \ {v}
    /\ UNCHANGED <<dbVars, registry, indexVars>>

\* A retry after the promotion reads the final object instead.
ReuseOriginal(v) ==
    /\ WorkerStep(v, "start", "stored")
    /\ keyAt[v] = "original"
    /\ <<v, "original">> \in objects
    /\ UNCHANGED <<dbVars, store, registry, indexVars>>

PutNormalized(v) ==
    /\ WorkerStep(v, "stored", "rendered")
    /\ objects' = objects \union {<<v, "normalized">>}
    /\ UNCHANGED <<dbVars, aged, registry, indexVars>>

\* A registry row that exists, even a deleted one, is left as it is.  The
\* chunk rows follow in transactions of their own, which nothing here tells
\* from this one.
CommitIndex(v) ==
    /\ WorkerStep(v, "rendered", "indexed")
    /\ row' = [row EXCEPT ![<<v, "normalized">>] = IF @ = "none" THEN "referenced" ELSE @]
    /\ chunks' = chunks \union {v}
    /\ UNCHANGED <<dbVars, store, retain, cited>>

\* The compare-and-swap, the status of both versions and the retention of the
\* one that is replaced are one commit.  The document's deletion is not
\* looked at.
ActivateVersion(v) ==
    LET d == docOf[v]
        old == expected[v] IN
    /\ wpc[v] = "indexed"
    /\ active[d] = old
    /\ v \in chunks
    /\ active' = [active EXCEPT ![d] = v]
    /\ ver' = [w \in Sources |-> IF w = v THEN "ready"
                                 ELSE IF w = old THEN "superseded" ELSE ver[w]]
    /\ retain' = [o \in Objects |->
         IF o[1] = old /\ row[o] = "referenced" /\ retain[o] = "none"
         THEN "later" ELSE retain[o]]
    /\ Rest(v)
    /\ UNCHANGED <<docOf, no, keyAt, deleted, store, row, indexVars, req, reading,
                   sweep, gc, requests, mishaps>>

\* A lost compare-and-swap, a failed smoke retrieval or a missing object is a
\* retryable failure: the job starts again.
GiveBack(v) ==
    /\ \/ wpc[v] = "indexed" /\ (active[docOf[v]] # expected[v] \/ v \notin chunks)
       \/ wpc[v] = "start" /\ <<v, keyAt[v]>> \notin objects
    /\ Rest(v)
    /\ UNCHANGED <<dbVars, store, registry, indexVars, req, reading, sweep,
                   gc, requests, mishaps>>

\* The worker is killed or meets an outage; the transaction is rolled back.
WorkerStops(v) ==
    /\ wpc[v] # "idle"
    /\ Mishap
    /\ Rest(v)
    /\ UNCHANGED <<dbVars, store, registry, indexVars, req, reading, sweep,
                   gc, requests>>

\* A permanent error of the job, or the cancellation of a waiting one.
JobEnds(v) ==
    /\ ver[v] = "pending"
    /\ Mishap
    /\ ver' = [ver EXCEPT ![v] = "failed"]
    /\ Rest(v)
    /\ UNCHANGED <<docOf, no, keyAt, active, deleted, store, registry, indexVars, req,
                   reading, sweep, gc, requests>>

-----------------------------------------------------------------------------
(* Deletion, time and answers.                                             *)

\* delete_document: the retention is written to the objects that are
\* referenced now; a second deletion changes nothing.
DeleteDocument(d) ==
    /\ VersionsOf(d) # {}
    /\ d \notin deleted
    /\ deleted' = deleted \union {d}
    /\ retain' = [o \in Objects |->
         IF o[1] \in VersionsOf(d) /\ row[o] = "referenced" THEN "later" ELSE retain[o]]
    /\ UNCHANGED <<ver, docOf, no, keyAt, active, store, row, indexVars, req, workers,
                   reading, sweep, gc, requests, mishaps>>

\* The objects of a version that have a retention got it in one commit, and it
\* ends for all of them at once.  It is counted in days: no answer and no run
\* of a job, which has a time limit, is under way for that long.
RetentionPasses(v) ==
    /\ \E o \in Final(v) : retain[o] = "later"
    /\ reading # v
    /\ wpc[v] = "idle"
    /\ retain' = [o \in Objects |->
         IF o[1] = v /\ retain[o] = "later" THEN "past" ELSE retain[o]]
    /\ UNCHANGED <<dbVars, store, row, indexVars, req, workers, reading, sweep, gc,
                   requests, mishaps>>

\* Grace is an hour: no request is between its put and its commit for that long.
GracePasses(v) ==
    /\ Staging(v) \in objects
    /\ v \notin aged
    /\ \A c \in Clients : ~(req[c].pc = "put" /\ req[c].src = v)
    /\ aged' = aged \union {v}
    /\ UNCHANGED <<dbVars, objects, registry, indexVars, req, workers, reading, sweep,
                   gc, requests, mishaps>>

\* Mutant: the search does not look at documents.deleted_at.
RetrieveDeletedToo(v) ==
    /\ reading = NoVersion
    /\ \E d \in Documents : active[d] = v
    /\ v \in chunks
    /\ reading' = v
    /\ UNCHANGED <<dbVars, store, registry, indexVars, req, workers, sweep, gc, requests,
                   mishaps>>

\* Retrieval sees the chunks of active versions of documents not deleted.
Retrieve(v) ==
    /\ reading = NoVersion
    /\ \E d \in Documents \ deleted : active[d] = v
    /\ v \in chunks
    /\ reading' = v
    /\ UNCHANGED <<dbVars, store, registry, indexVars, req, workers, sweep, gc, requests,
                   mishaps>>

\* The citation names its chunk by foreign key: without the row it is refused.
AnswerEnds ==
    /\ reading # NoVersion
    /\ cited' \in {cited, cited \union ({reading} \intersect chunks)}
    /\ reading' = NoVersion
    /\ UNCHANGED <<dbVars, store, registry, chunks, req, workers, sweep, gc, requests,
                   mishaps>>

-----------------------------------------------------------------------------
(* The sweeper: sweep_orphan_staging.                                      *)

\* All registry rows are read first.  A sweep that starts when nothing is old
\* enough finds nothing: it does not last as long as the grace period.
ReadRegistry ==
    /\ sweep.pc = "idle"
    /\ aged # {}
    /\ sweep' = [NoSweep EXCEPT
         !.pc = "read",
         !.known = {v \in Sources : row[Staging(v)] # "none"},
         !.staged = {v \in Sources : row[Staging(v)] = "staged"}]
    /\ UNCHANGED <<dbVars, store, registry, indexVars, req, workers, reading, gc,
                   requests, mishaps>>

\* The storage is listed later ...
ListStaging ==
    /\ sweep.pc = "read"
    /\ sweep' = [sweep EXCEPT !.pc = "sweeping", !.left = aged]
    /\ UNCHANGED <<dbVars, store, registry, indexVars, req, workers, reading, gc,
                   requests, mishaps>>

\* Mutant: any staged object past its grace is taken for abandoned.
AbandonedIfOld(v) == v \notin sweep.known \/ v \in sweep.staged

\* Mutant: objects with a registry row are left alone.
AbandonedIfUnknown(v) == v \notin sweep.known

\* ... and each old object is judged by those rows and by the version's status
\* as it is now.
Abandoned(v) ==
    \/ v \notin sweep.known
    \/ v \in sweep.staged /\ ver[v] = "failed"

SweepObject(v) ==
    /\ sweep.pc = "sweeping"
    /\ v \in sweep.left
    /\ IF Abandoned(v)
       THEN /\ objects' = objects \ {Staging(v)}
            /\ aged' = aged \ {v}
            /\ sweep' = [sweep EXCEPT !.left = @ \ {v},
                                      !.swept = @ \union ({v} \intersect sweep.known)]
       ELSE /\ sweep' = [sweep EXCEPT !.left = @ \ {v}]
            /\ UNCHANGED store
    /\ UNCHANGED <<dbVars, registry, indexVars, req, workers, reading, gc, requests,
                   mishaps>>

CommitSweep ==
    /\ sweep.pc = "sweeping"
    /\ sweep.left = {}
    /\ row' = [o \in Objects |->
         IF o \in {Staging(v) : v \in sweep.swept} THEN "deleted" ELSE row[o]]
    /\ sweep' = NoSweep
    /\ UNCHANGED <<dbVars, store, retain, indexVars, req, workers, reading, gc, requests,
                   mishaps>>

SweepDies ==
    /\ sweep.pc # "idle"
    /\ Mishap
    /\ sweep' = NoSweep
    /\ UNCHANGED <<dbVars, store, registry, indexVars, req, workers, reading, gc, requests>>

-----------------------------------------------------------------------------
(* The collector: run_storage_gc.                                          *)

ReadCandidates ==
    LET due == {o \in Objects \ Held : row[o] = "referenced" /\ retain[o] = "past"} IN
    /\ gc.pc = "idle"
    /\ due # {}
    /\ gc' = [NoCollection EXCEPT !.pc = "collecting", !.left = due,
                                  !.versions = {o[1] : o \in due}]
    /\ UNCHANGED <<dbVars, store, registry, indexVars, req, workers, reading, sweep,
                   requests, mishaps>>

\* Mutant: citations do not count.
CollectableIfCited(v) ==
    \/ docOf[v] \in deleted
    \/ ver[v] = "superseded" /\ active[docOf[v]] # v

\* Nobody cites the version, and it was replaced or its document is deleted.
Collectable(v) ==
    /\ v \notin cited
    /\ \/ docOf[v] \in deleted
       \/ ver[v] = "superseded" /\ active[docOf[v]] # v

\* The decision and the deletion it leads to are two steps.
ChooseObject(o) ==
    /\ gc.pc = "collecting"
    /\ gc.chosen = {}
    /\ o \in gc.left
    /\ gc' = [gc EXCEPT !.left = @ \ {o},
                        !.chosen = IF Collectable(o[1]) THEN {o} ELSE {}]
    /\ UNCHANGED <<dbVars, store, registry, indexVars, req, workers, reading, sweep,
                   requests, mishaps>>

DeleteChosen ==
    /\ gc.chosen # {}
    /\ objects' = objects \ gc.chosen
    /\ gc' = [gc EXCEPT !.chosen = {}, !.gone = @ \union gc.chosen]
    /\ UNCHANGED <<dbVars, aged, registry, indexVars, req, workers, reading, sweep,
                   requests, mishaps>>

RowsGone == [o \in Objects |-> IF o \in gc.gone THEN "deleted" ELSE row[o]]

\* The storage raises: what was deleted so far is committed, and the versions
\* are not cleaned up.
DeleteRaises ==
    /\ gc.chosen # {}
    /\ Mishap
    /\ row' = RowsGone
    /\ gc' = NoCollection
    /\ UNCHANGED <<dbVars, store, retain, indexVars, req, workers, reading, sweep, requests>>

\* Mutant: the versions of the run lose their chunks with their first object.
CommitCollectionEagerly ==
    /\ gc.pc = "collecting"
    /\ gc.left = {}
    /\ gc.chosen = {}
    /\ row' = RowsGone
    /\ chunks' = chunks \ (gc.versions \ cited)
    /\ gc' = NoCollection
    /\ UNCHANGED <<dbVars, store, retain, cited, req, workers, reading, sweep, requests,
                   mishaps>>

\* Versions of this run that have no referenced object and no citation left
\* lose their chunks.
CommitCollection ==
    /\ gc.pc = "collecting"
    /\ gc.left = {}
    /\ gc.chosen = {}
    /\ row' = RowsGone
    /\ chunks' = chunks \ {v \in gc.versions :
                             /\ v \notin cited
                             /\ \A o \in Final(v) : RowsGone[o] # "referenced"}
    /\ gc' = NoCollection
    /\ UNCHANGED <<dbVars, store, retain, cited, req, workers, reading, sweep, requests,
                   mishaps>>

CollectorDies ==
    /\ gc.pc # "idle"
    /\ Mishap
    /\ gc' = NoCollection
    /\ UNCHANGED <<dbVars, store, registry, indexVars, req, workers, reading, sweep, requests>>
-----------------------------------------------------------------------------
Acceptance(c) ==
    \/ \E v \in Sources, d \in Documents : ReadForAcceptance(c, v, d)
    \/ FlushRows(c) \/ FlushCollides(c) \/ CommitQuarantined(c)
    \/ PutStaging(c) \/ CommitAccepted(c) \/ RequestDies(c)

Work(v) ==
    \/ StartJob(v) \/ PutOriginal(v) \/ CommitOriginal(v) \/ RemoveStaging(v)
    \/ ReuseOriginal(v) \/ PutNormalized(v) \/ CommitIndex(v)
    \/ ActivateVersion(v) \/ GiveBack(v)
    \/ WorkerStops(v) \/ JobEnds(v)

Sweeping ==
    \/ ReadRegistry \/ ListStaging \/ CommitSweep \/ SweepDies
    \/ \E v \in Sources : SweepObject(v)

Collecting ==
    \/ ReadCandidates \/ DeleteChosen \/ DeleteRaises \/ CommitCollection
    \/ CollectorDies
    \/ \E o \in Objects : ChooseObject(o)

Next ==
    \/ \E c \in Clients : Acceptance(c)
    \/ \E v \in Sources : Work(v) \/ GracePasses(v) \/ Retrieve(v) \/ RetentionPasses(v)
    \/ \E d \in Documents : DeleteDocument(d)
    \/ AnswerEnds \/ Sweeping \/ Collecting

\* A request under way ends, and beat runs the sweeper over and over.
Fairness ==
    /\ \A c \in Clients :
         WF_vars(FlushRows(c) \/ FlushCollides(c) \/ CommitQuarantined(c)
                 \/ PutStaging(c) \/ CommitAccepted(c))
    /\ \A v \in Sources \ Quarantined : WF_vars(GracePasses(v)) /\ WF_vars(SweepObject(v))
    /\ WF_vars(ReadRegistry) /\ WF_vars(ListStaging) /\ WF_vars(CommitSweep)

Spec == Init /\ [][Next]_vars /\ Fairness
-----------------------------------------------------------------------------
(* Properties.                                                             *)

Whole(v) == Final(v) \subseteq objects /\ v \in chunks

\* Types of all variables.
StorageTypeOK ==
    /\ ver \in [Sources -> VersionStates]
    /\ docOf \in [Sources -> Documents \union {NoDocument}]
    /\ no \in [Sources -> Nat]
    /\ keyAt \in [Sources -> {"none", "staging", "original"}]
    /\ active \in [Documents -> Sources \union {NoVersion}]
    /\ deleted \subseteq Documents
    /\ objects \subseteq Objects
    /\ aged \subseteq Sources
    /\ row \in [Objects -> RowStates]
    /\ retain \in [Objects -> {"none", "later", "past"}]
    /\ chunks \subseteq Sources
    /\ cited \subseteq Sources
    /\ req \in [Clients -> [pc : {"idle", "read", "flushed", "put"},
                            src : Sources \union {NoVersion},
                            doc : Documents \union {NoDocument}, no : Nat]]
    /\ wpc \in [Sources -> WorkerPlaces]
    /\ expected \in [Sources -> Sources \union {NoVersion}]
    /\ reading \in Sources \union {NoVersion}
    /\ sweep \in [pc : {"idle", "read", "sweeping"}, known : SUBSET Sources,
                  staged : SUBSET Sources, left : SUBSET Sources,
                  swept : SUBSET Sources]
    /\ gc \in [pc : {"idle", "collecting"}, left : SUBSET Objects,
               versions : SUBSET Sources, chosen : SUBSET Objects,
               gone : SUBSET Objects]
    /\ requests \in 0..MaxRequests
    /\ mishaps \in 0..MaxMishaps

\* The active version of a document that is not deleted has its original, its
\* normalized text and its chunks, whatever collector, sweeper, promotion and
\* rival activation do between their steps.
ServedVersionIntact ==
    \A d \in Documents \ deleted : active[d] # NoVersion => Whole(active[d])

\* What an answer cites is never collected, also when the citation is written
\* while the collector runs.
CitedVersionIntact == \A v \in cited : Whole(v)

\* The sweeper never removes the staged bytes of a job that has not ended if
\* it has seen their registry row: it cannot be misled about a registered
\* object by a job that ends, starts again or promotes meanwhile.
RegisteredBytesKept ==
    [][\A v \in Sources :
         (/\ ver[v] = "pending" /\ keyAt[v] = "staging"
          /\ Staging(v) \in objects \ objects')
           => sweep.pc = "sweeping" /\ v \notin sweep.known]_vars

\* The committed versions of a document are numbered from one without a gap or
\* a repetition, whatever requests for it overlapped or died.
VersionsNumbered ==
    \A d \in Documents :
      /\ {no[v] : v \in VersionsOf(d)} = 1..Cardinality(VersionsOf(d))

\* Chunk rows of a version that was served are removed only after all its
\* objects: a run that fails halfway leaves them with the objects it spared.
ChunksOutliveObjects ==
    \A v \in Sources :
      ver[v] \in {"ready", "superseded"} /\ v \notin chunks =>
        \A o \in Final(v) : row[o] = "deleted"

\* Readers see only the steps of SourceVault.
Vault == INSTANCE SourceVault WITH
    Versions <- Sources,
    whole <- {v \in Sources : Whole(v)},
    current <- active,
    served <- {v \in Sources : ver[v] \in {"ready", "superseded"}},
    withdrawn <- deleted
VaultRefined == Vault!VaultSpec

\* Once no maintenance is under way, every object with a live registry row
\* exists ("Missing count stays zero", runbook object-gc-quarantine).  The
\* sweeper's stale rows break it: see the run StagedBytesLost.
MissingStaysZero ==
    sweep.pc = "idle" /\ gc.pc = "idle" =>
      \A o \in Objects : row[o] \in {"staged", "referenced"} => o \in objects

\* A staging object that no request, no job and no promotion will ever use is
\* removed in the end: the leftover of a request that died before its commit
\* and that of a job that ended before its promotion.
AbandonedStaging(v) ==
    /\ Staging(v) \in objects
    /\ \/ ver[v] = "none" /\ \A c \in Clients : req[c].src # v
       \/ ver[v] = "failed" /\ row[Staging(v)] = "staged"
AbandonedStagingSwept ==
    \A v \in Sources \ Quarantined : AbandonedStaging(v) ~> ~AbandonedStaging(v)
=============================================================================
