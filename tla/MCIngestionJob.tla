--------------------------- MODULE MCIngestionJob ---------------------------
(***************************************************************************)
(* Small instances of IngestionJob.  Worker processes are interchangeable. *)
(***************************************************************************)
EXTENDS IngestionJob, TLC

WorkerSymmetry == Permutations(Workers)

\* Of a kill, a transient fault and a cancellation any two happen in one behaviour.
TwoMishaps == workerCrashes + faults + cancels < 3
=============================================================================
