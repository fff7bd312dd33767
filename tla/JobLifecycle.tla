---------------------------- MODULE JobLifecycle ----------------------------
(***************************************************************************)
(* What the ingestion control plane promises of one job to everybody who   *)
(* reads the database: the life of the job row, of the document version it *)
(* builds and of the document's active version pointer.  Deliveries,       *)
(* leases, attempts, stages and workers do not appear: IngestionJob shows  *)
(* that all of them together only ever take these steps.                   *)
(*                                                                         *)
(*   status   ingestion_jobs.status                                        *)
(*   version  document_versions.status of the version the job builds       *)
(*   active   documents.active_version_id: "this" is the job's version,    *)
(*            "old" the version active before it was accepted, "new" one   *)
(*            that another job of the same document activates              *)
(***************************************************************************)

VARIABLES status, version, active

jlVars == <<status, version, active>>

Open == {"queued", "running", "retrying"}
Terminal == {"completed", "failed", "cancelled"}

JLInit ==
    /\ status = "queued"
    /\ version = "pending"
    /\ active \in {"none", "old"}

\* A worker takes the job, possibly over from a worker that lost its lease.
Take ==
    /\ status \in Open
    /\ status' = "running"
    /\ UNCHANGED <<version, active>>

\* The job goes back to wait for another attempt.
Yield ==
    /\ status \in {"running", "retrying"}
    /\ status' = "retrying"
    /\ UNCHANGED <<version, active>>

\* Completion, readiness and activation are one step.  The job may have gone back to
\* wait since the worker that completes it looked at it.
Complete ==
    /\ status \in {"running", "retrying"}
    /\ status' = "completed"
    /\ version' = "ready"
    /\ active' = "this"

\* A failed candidate leaves the active version alone.
Fail ==
    /\ status \in {"running", "retrying"}
    /\ status' = "failed"
    /\ version' = "failed"
    /\ UNCHANGED active

\* A job is cancelled only while no worker holds it.
Cancel ==
    /\ status \in {"queued", "retrying"}
    /\ status' = "cancelled"
    /\ version' = "failed"
    /\ UNCHANGED active

\* Another job of the document activates its version.
Supersede ==
    /\ active \in {"none", "old", "this"}
    /\ active' = "new"
    /\ version' = IF active = "this" THEN "superseded" ELSE version
    /\ UNCHANGED status

JLNext == Take \/ Yield \/ Complete \/ Fail \/ Cancel \/ Supersede

JLSpec == JLInit /\ [][JLNext]_jlVars
=============================================================================
