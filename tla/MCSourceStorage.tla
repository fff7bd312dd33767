--------------------------- MODULE MCSourceStorage ---------------------------
(***************************************************************************)
(* Instance of SourceStorage for TLC.                                      *)
(***************************************************************************)
EXTENDS SourceStorage, TLC

CONSTANTS v1, v2, v3

\* Of one version the original is held and the normalized text is not.
OneHeldOriginal == {<<v1, "original">>}

\* Bound: while the sweeper runs, the collector does not and no answer is under
\* way.  They work on disjoint objects and rows.
OneMaintenance == sweep.pc # "idle" => gc.pc = "idle" /\ reading = NoVersion

\* Bound: the first request is the one for the quarantined source, so that the
\* two others can overlap on a document that exists.
QuarantinedFirst ==
    (\E c \in Clients : req[c].src \in {v1, v2}) => ver[v3] # "none"
=============================================================================
