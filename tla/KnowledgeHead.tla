---------------------------- MODULE KnowledgeHead ----------------------------
(***************************************************************************)
(* What an item of approved knowledge promises its readers: one head at a  *)
(* time, moved by compare-and-swap.  A draft names the head it was written *)
(* against; it becomes the head only while that is still the head, and     *)
(* what it replaces is retired for good.                                   *)
(***************************************************************************)
CONSTANTS Revisions, NoRevision

VARIABLES authority, retired, base

headVars == <<authority, retired, base>>
Undrafted == "undrafted"

HeadInit ==
    /\ authority = NoRevision
    /\ retired = {}
    /\ base = [r \in Revisions |-> Undrafted]

Draft(r) ==
    /\ base[r] = Undrafted
    /\ base'[r] \in {NoRevision, authority}
    /\ base' = [base EXCEPT ![r] = base'[r]]
    /\ UNCHANGED <<authority, retired>>

Promote(r) ==
    /\ authority' = r
    /\ base[r] = authority
    /\ r \notin retired \cup {authority}
    /\ retired' = retired \cup ({authority} \ {NoRevision})
    /\ UNCHANGED base

HeadNext == \E r \in Revisions : Draft(r) \/ Promote(r)

HeadSpec == HeadInit /\ [][HeadNext]_headVars
=============================================================================
