------------------------- MODULE ContextVaultProofs -------------------------
(***************************************************************************)
(* Proofs about the three parts of context_vault that several agents       *)
(* share: KnowledgeRegistry, for any people, teams, revisions and          *)
(* sessions, and any number of manifests; KnowledgeLedger, for any         *)
(* revisions, contents, people, approval policies and threads in review;   *)
(* and ContextCompiler, for any catalog, requests, adapters and claim      *)
(* times.                                                                  *)
(***************************************************************************)
EXTENDS KnowledgeRegistry, KnowledgeLedger, ContextCompiler, ListingProofs

-----------------------------------------------------------------------------
(***************************************************************************)
(* The registry                                                            *)
(***************************************************************************)

\* The bare approval outcome of a row.
Judged == {"APPROVED", "SUPERSEDED"}

-----------------------------------------------------------------------------
(***************************************************************************)
(* The inductive invariant                                                 *)
(***************************************************************************)

\* Who judged a row agrees with its status, and no row replaces itself.
RowsSound ==
    \A r \in Revisions :
        /\ rev[r].status \in {"none", "PROPOSED"} => rev[r].approver = NoPerson
        /\ rev[r].status \in {"REVIEWED"} \cup Judged =>
              rev[r].reviewer \in People /\ rev[r].reviewer # rev[r].proposer
        /\ rev[r].status \in Judged =>
              rev[r].approver \notin {rev[r].proposer, rev[r].reviewer} /\ r \notin open
        /\ rev[r].supersedes # r

\* The head is the one APPROVED row; once there was a head there is one; what
\* a judged row replaced is retired.
HeadSound ==
    /\ ActiveHead(rev, head)
    /\ \A r \in Revisions : rev[r].status \in Judged =>
          /\ head # NoRevision
          /\ rev[r].supersedes # NoRevision => rev[rev[r].supersedes].status = "SUPERSEDED"

\* A copy read as REVIEWED may be out of date, but only by an approval.
CopiesSound ==
    \A s \in Sessions : approval[s].status = "REVIEWED" =>
        /\ approval[s].rev \in Revisions
        /\ rev[approval[s].rev].status \in {"REVIEWED"} \cup Judged
        /\ rev[approval[s].rev].reviewer = approval[s].reviewer

KnowledgeInv ==
    /\ KnowledgeTypeOK /\ IsFiniteSet(Proposed)
    /\ RowsSound /\ HeadSound /\ CopiesSound
    /\ TriggersNeverRaise

-----------------------------------------------------------------------------
(***************************************************************************)
(* No trigger refuses what the service writes                              *)
(***************************************************************************)

\* A row left alone passes the lifecycle trigger.
LEMMA SameRow == ASSUME NEW row PROVE LifecycleAllows(row, row)
BY DEF LifecycleAllows

\* The row a proposal inserts.
ProposalRow(p, b) == [NoRevisionRow EXCEPT !.status = "PROPOSED",
                         !.version = Cardinality(Proposed) + 1,
                         !.supersedes = b, !.proposer = p]

\* A proposal is committed.
LEMMA ProposalCommits ==
    ASSUME KnowledgeInv, NEW r \in Revisions, NEW p \in Proposers,
           NEW b \in Revisions \cup {NoRevision}, ProposeKnowledge(r, p, b)
    PROVE /\ rev' = [rev EXCEPT ![r] = ProposalRow(p, b)]
          /\ UNCHANGED <<head, triggered>>
          /\ open' = open \/ open' = open \cup {r}
<1> DEFINE new == ProposalRow(p, b)
           rows == [rev EXCEPT ![r] = new]
<1>1. DOMAIN rev = Revisions /\ rev[r].status = "none"
    BY DEF ProposeKnowledge, KnowledgeInv, KnowledgeTypeOK
<1>2. new.status = "PROPOSED" BY DEF NoRevisionRow, ProposalRow
<1>3. \A q \in Revisions : rows[q] = (IF q = r THEN new ELSE rev[q]) BY <1>1
<1> HIDE DEF new
<1>4. \A q \in Revisions : LifecycleAllows(rev[q], rows[q])
    <2> TAKE q \in Revisions
    <2>1. CASE q = r
        <3>1. rev[q].status = "none" /\ rows[q].status = "PROPOSED" BY <1>1, <1>2, <1>3, <2>1
        <3> QED BY <3>1 DEF LifecycleAllows
    <2>2. CASE q # r BY <1>3, <2>2, SameRow
    <2> QED BY <2>1, <2>2
<1>5. ActiveHead(rows, head)
    <2>1. head \in Revisions \cup {NoRevision} /\ ActiveHead(rev, head)
        BY DEF KnowledgeInv, KnowledgeTypeOK, HeadSound
    <2>2. \A q \in Revisions : rows[q].status = "APPROVED" <=> rev[q].status = "APPROVED"
        BY <1>1, <1>2, <1>3
    <2> QED BY <2>1, <2>2 DEF ActiveHead
<1>6. Commit(rows, head, IF head \notin {NoRevision, b} THEN open \cup {r} ELSE open)
    BY DEF ProposeKnowledge, new, ProposalRow
<1> HIDE DEF rows
<1>7. /\ rev' = rows /\ UNCHANGED <<head, triggered>>
      /\ open' = IF head \notin {NoRevision, b} THEN open \cup {r} ELSE open
    BY <1>4, <1>5, <1>6 DEF Commit
<1> QED BY <1>7 DEF rows, new

\* A review is committed.
LEMMA ReviewCommits ==
    ASSUME KnowledgeInv, NEW r \in Revisions, NEW p \in People, ReviewKnowledge(r, p)
    PROVE /\ rev' = [rev EXCEPT ![r].status = "REVIEWED", ![r].reviewer = p]
          /\ UNCHANGED <<head, open, triggered>>
<1> DEFINE rows == [rev EXCEPT ![r].status = "REVIEWED", ![r].reviewer = p]
<1>1. /\ rev \in [Revisions -> RevisionRows]
      /\ rev[r].status = "PROPOSED" /\ rev[r].approver = NoPerson
    BY DEF ReviewKnowledge, KnowledgeInv, KnowledgeTypeOK, RowsSound
<1>2. /\ rows[r].status = "REVIEWED" /\ rows[r].reviewer = p /\ rows[r].approver = NoPerson
      /\ rows[r].version = rev[r].version
      /\ rows[r].supersedes = rev[r].supersedes /\ rows[r].proposer = rev[r].proposer
      /\ \A q \in Revisions \ {r} : rows[q] = rev[q]
    BY <1>1
<1> HIDE DEF rows
<1>3. \A q \in Revisions : LifecycleAllows(rev[q], rows[q])
    <2> TAKE q \in Revisions
    <2>1. CASE q = r BY <1>1, <1>2, <2>1, KnowledgeAssumption DEF LifecycleAllows
    <2>2. CASE q # r BY <1>2, <2>2, SameRow
    <2> QED BY <2>1, <2>2
<1>4. ActiveHead(rows, head)
    <2>1. head \in Revisions \cup {NoRevision} /\ ActiveHead(rev, head)
        BY DEF KnowledgeInv, KnowledgeTypeOK, HeadSound
    <2>2. \A q \in Revisions : rows[q].status = "APPROVED" <=> rev[q].status = "APPROVED"
        BY <1>1, <1>2
    <2> QED BY <2>1, <2>2 DEF ActiveHead
<1>5. Commit(rows, head, open) BY DEF ReviewKnowledge, rows
<1>6. rev' = rows /\ UNCHANGED <<head, open, triggered>> BY <1>3, <1>4, <1>5 DEF Commit
<1> QED BY <1>6 DEF rows

\* What the approver may approve has not been judged since it was read.
LEMMA StillReviewed ==
    ASSUME KnowledgeInv, NEW s \in Sessions, NEW p \in People,
           approval[s] # NoApproval, MayApprove(s, p)
    PROVE LET r == approval[s].rev IN
          /\ r \in Revisions /\ rev[r].status = "REVIEWED"
          /\ rev[r].reviewer = approval[s].reviewer
          /\ Predecessor(r) # r /\ Predecessor(r) = head
          /\ head # NoRevision => rev[head].status = "APPROVED"
<1> DEFINE r == approval[s].rev
<1>1. /\ r \in Revisions /\ rev[r].status \in {"REVIEWED"} \cup Judged
      /\ rev[r].reviewer = approval[s].reviewer
    BY DEF MayApprove, KnowledgeInv, CopiesSound
<1>2. Predecessor(r) # r BY <1>1 DEF KnowledgeInv, RowsSound, Predecessor
<1>3. Predecessor(r) = head BY DEF MayApprove, WrittenAgainstHead
<1>4. Predecessor(r) # NoRevision => rev[Predecessor(r)].status = "APPROVED"
    BY DEF MayApprove, WrittenAgainstHead
<1>5. rev[r].status # "APPROVED"
    BY <1>1, <1>2, <1>3 DEF KnowledgeInv, HeadSound, ActiveHead
<1>6. rev[r].status # "SUPERSEDED"
    BY <1>1, <1>3, <1>4 DEF KnowledgeInv, HeadSound, Predecessor, Judged
<1> QED BY <1>1, <1>2, <1>3, <1>4, <1>5, <1>6 DEF Judged

\* An approval that passes the service's own checks is committed.
LEMMA ApprovalCommits ==
    ASSUME KnowledgeInv, NEW s \in Sessions, NEW p \in People, Approve(s, p)
    PROVE LET r == approval[s].rev IN
          /\ head' = r /\ UNCHANGED <<open, triggered>>
          /\ \A q \in Revisions :
               rev'[q] = [rev[q] EXCEPT
                   !.status = IF q = r THEN "APPROVED" ELSE IF q = head THEN "SUPERSEDED"
                             ELSE rev[q].status,
                   !.approver = IF q = r THEN p ELSE rev[q].approver]
          /\ rev' = [q \in Revisions |-> rev'[q]]
<1> DEFINE r == approval[s].rev
           approved == [rev EXCEPT ![r].status = "APPROVED", ![r].approver = p]
           rows == IF head = NoRevision THEN approved
                   ELSE [approved EXCEPT ![head].status = "SUPERSEDED"]
<1>1. /\ r \in Revisions /\ rev[r].status = "REVIEWED" /\ r # head /\ Predecessor(r) = head
      /\ head # NoRevision => rev[head].status = "APPROVED"
    BY StillReviewed DEF Approve
<1>2. /\ rev \in [Revisions -> RevisionRows]
      /\ head \in Revisions \cup {NoRevision} /\ ActiveHead(rev, head)
    BY DEF KnowledgeInv, KnowledgeTypeOK, HeadSound
<1>3. \A q \in Revisions :
         rows[q] = [rev[q] EXCEPT
                   !.status = IF q = r THEN "APPROVED" ELSE IF q = head THEN "SUPERSEDED"
                             ELSE rev[q].status,
                   !.approver = IF q = r THEN p ELSE rev[q].approver]
    <2> TAKE q \in Revisions
    <2>1. CASE head = NoRevision BY <1>1, <1>2, <2>1, KnowledgeAssumption DEF RevisionRows
    <2>2. CASE head # NoRevision BY <1>1, <1>2, <2>2 DEF RevisionRows
    <2> QED BY <2>1, <2>2
<1>4. rows = [q \in Revisions |-> rows[q]] BY <1>2
<1>5. Commit(rows, r, open) BY <1>1 DEF Approve
<1> HIDE DEF rows
<1>6. \A q \in Revisions :
        /\ rows[q].status = IF q = r THEN "APPROVED" ELSE IF q = head THEN "SUPERSEDED" ELSE rev[q].status
        /\ rows[q].approver = IF q = r THEN p ELSE rev[q].approver
        /\ rows[q].version = rev[q].version /\ rows[q].supersedes = rev[q].supersedes
        /\ rows[q].proposer = rev[q].proposer /\ rows[q].reviewer = rev[q].reviewer
    <2> TAKE q \in Revisions
    <2> DEFINE new == IF q = r THEN "APPROVED" ELSE IF q = head THEN "SUPERSEDED" ELSE rev[q].status
               by == IF q = r THEN p ELSE rev[q].approver
    <2>1. rows[q] = [rev[q] EXCEPT !.status = new, !.approver = by] BY <1>3
    <2>2. rev[q] \in RevisionRows
        BY <1>2
    <2> HIDE DEF new, by
    <2>3. /\ rows[q].status = new /\ rows[q].approver = by
          /\ rows[q].version = rev[q].version /\ rows[q].supersedes = rev[q].supersedes
          /\ rows[q].proposer = rev[q].proposer /\ rows[q].reviewer = rev[q].reviewer
        BY <2>1, <2>2
    <2> QED BY <2>3 DEF new, by
<1>7. \A q \in Revisions : LifecycleAllows(rev[q], rows[q])
    <2> TAKE q \in Revisions
    <2>1. CASE q = r BY <1>1, <1>6, <2>1, KnowledgeAssumption DEF LifecycleAllows
    <2>2. CASE q # r /\ q = head
        BY <1>1, <1>6, <2>2, KnowledgeAssumption DEF LifecycleAllows
    <2>3. CASE q # r /\ q # head BY <1>6, <2>3 DEF LifecycleAllows
    <2> QED BY <2>1, <2>2, <2>3
<1>8. ActiveHead(rows, r) BY <1>1, <1>2, <1>6 DEF ActiveHead
<1>9. rev' = rows /\ head' = r /\ UNCHANGED <<open, triggered>>
    BY <1>5, <1>7, <1>8 DEF Commit
<1> QED BY <1>3, <1>4, <1>9

-----------------------------------------------------------------------------
(***************************************************************************)
(* The invariant is inductive                                              *)
(***************************************************************************)

LEMMA InitSound == KnowledgeInit => KnowledgeInv
<1> SUFFICES ASSUME KnowledgeInit PROVE KnowledgeInv OBVIOUS
<1>1. rev = [r \in Revisions |-> NoRevisionRow] /\ head = NoRevision
    BY DEF KnowledgeInit
<1>2. NoRevisionRow \in RevisionRows /\ NoRevisionRow.status = "none"
      /\ NoRevisionRow.supersedes = NoRevision /\ NoRevisionRow.approver = NoPerson
    BY DEF NoRevisionRow, RevisionRows, KnowledgeStatuses
<1>3. \A r \in Revisions : rev[r].status = "none" /\ rev[r].approver = NoPerson
                            /\ rev[r].supersedes = NoRevision
    BY <1>1, <1>2
<1>4. KnowledgeTypeOK
    <2>1. rev \in [Revisions -> RevisionRows] BY <1>1, <1>2
    <2>2. manifest \in [version : 0..MaxManifests, approvers : SUBSET People]
        BY KnowledgeAssumption DEF KnowledgeInit
    <2>3. approval \in [Sessions -> [rev : Revisions \cup {NoRevision},
                                    status : KnowledgeStatuses,
                                    reviewer : People \cup {NoPerson}]]
        BY DEF KnowledgeInit, NoApproval, KnowledgeStatuses
    <2>4. bound \in [Attempts -> [context : Contexts \cup {NoContext}, adapters : SUBSET Adapters]]
        BY DEF KnowledgeInit
    <2>5. binding \in [Attempts -> [step : {"idle", "locked", "checked"},
                                   context : Contexts \cup {NoContext},
                                   adapters : SUBSET Adapters]]
        BY DEF KnowledgeInit, NoBinding
    <2>6. claim \in [Attempts -> {"none", "active", "overdue", "ended"}]
        BY DEF KnowledgeInit
    <2> QED BY <2>1, <2>2, <2>3, <2>4, <2>5, <2>6 DEF KnowledgeInit, KnowledgeTypeOK
<1>5. IsFiniteSet(Proposed)
    <2>1. Proposed = {} BY <1>3 DEF Proposed
    <2> QED BY <2>1, FS_EmptySet
<1>6. RowsSound BY <1>3, KnowledgeAssumption DEF RowsSound, Judged
<1>7. HeadSound BY <1>1, <1>3 DEF HeadSound, ActiveHead, Judged
<1>8. CopiesSound BY DEF KnowledgeInit, CopiesSound, NoApproval
<1>9. TriggersNeverRaise BY DEF KnowledgeInit, TriggersNeverRaise
<1> QED BY <1>4, <1>5, <1>6, <1>7, <1>8, <1>9 DEF KnowledgeInv

\* What a proposal does to the rows.
LEMMA ProposedRows ==
    ASSUME KnowledgeInv, NEW r \in Revisions, NEW p \in Proposers,
           NEW b \in Revisions \cup {NoRevision}, ProposeKnowledge(r, p, b)
    PROVE /\ rev' \in [Revisions -> RevisionRows]
          /\ rev[r].status = "none" /\ rev'[r].status = "PROPOSED"
          /\ rev'[r].supersedes = b /\ rev'[r].approver = NoPerson /\ b # r
          /\ \A q \in Revisions \ {r} : rev'[q] = rev[q]
<1> DEFINE new == ProposalRow(p, b)
<1>1. rev' = [rev EXCEPT ![r] = new] BY ProposalCommits
<1>2. Cardinality(Proposed) + 1 \in Nat BY FS_CardinalityType DEF KnowledgeInv
<1>3. /\ new \in RevisionRows /\ new.status = "PROPOSED"
      /\ new.supersedes = b /\ new.approver = NoPerson
    BY <1>2, KnowledgeAssumption
    DEF NoRevisionRow, ProposalRow, RevisionRows, KnowledgeStatuses
<1> HIDE DEF new
<1>4. rev \in [Revisions -> RevisionRows] BY DEF KnowledgeInv, KnowledgeTypeOK
<1>5. rev[r].status = "none" /\ b # r BY KnowledgeAssumption DEF ProposeKnowledge
<1> QED BY <1>1, <1>3, <1>4, <1>5

\* What a review does to the rows.
LEMMA ReviewedRows ==
    ASSUME KnowledgeInv, NEW r \in Revisions, NEW p \in People, ReviewKnowledge(r, p)
    PROVE /\ rev' \in [Revisions -> RevisionRows]
          /\ rev[r].status = "PROPOSED" /\ rev'[r].status = "REVIEWED"
          /\ rev'[r].supersedes = rev[r].supersedes /\ rev'[r].approver = rev[r].approver
          /\ rev'[r].proposer = rev[r].proposer /\ rev'[r].reviewer = p
          /\ p # rev[r].proposer
          /\ \A q \in Revisions \ {r} : rev'[q] = rev[q]
<1>1. rev' = [rev EXCEPT ![r].status = "REVIEWED", ![r].reviewer = p] BY ReviewCommits
<1>2. rev \in [Revisions -> RevisionRows] BY DEF KnowledgeInv, KnowledgeTypeOK
<1>3. rev[r] \in RevisionRows BY <1>2
<1> DEFINE new == [rev[r] EXCEPT !.status = "REVIEWED", !.reviewer = p]
<1>4. rev' = [rev EXCEPT ![r] = new] BY <1>1, <1>2, <1>3 DEF RevisionRows
<1>5. /\ new \in RevisionRows /\ new.status = "REVIEWED" /\ new.reviewer = p
      /\ new.supersedes = rev[r].supersedes /\ new.approver = rev[r].approver
      /\ new.proposer = rev[r].proposer
    BY <1>3 DEF RevisionRows, KnowledgeStatuses
<1> HIDE DEF new
<1>6. rev[r].status = "PROPOSED" /\ p # rev[r].proposer BY DEF ReviewKnowledge
<1> QED BY <1>2, <1>4, <1>5, <1>6

\* What an approval does to the rows.
LEMMA ApprovedRows ==
    ASSUME KnowledgeInv, NEW s \in Sessions, NEW p \in People, Approve(s, p)
    PROVE LET r == approval[s].rev IN
          /\ rev' \in [Revisions -> RevisionRows]
          /\ head' = r /\ r \in Revisions /\ rev[r].status = "REVIEWED" /\ r # head
          /\ rev[r].supersedes = head
          /\ head # NoRevision => rev[head].status = "APPROVED"
          /\ p \notin {rev[r].proposer, rev[r].reviewer} /\ r \notin open
          /\ \A q \in Revisions :
               /\ rev'[q].status = IF q = r THEN "APPROVED"
                                   ELSE IF q = head THEN "SUPERSEDED" ELSE rev[q].status
               /\ rev'[q].approver = IF q = r THEN p ELSE rev[q].approver
               /\ rev'[q].supersedes = rev[q].supersedes
               /\ rev'[q].proposer = rev[q].proposer /\ rev'[q].reviewer = rev[q].reviewer
<1> DEFINE r == approval[s].rev
           new(q) == IF q = r THEN "APPROVED" ELSE IF q = head THEN "SUPERSEDED" ELSE rev[q].status
           by(q) == IF q = r THEN p ELSE rev[q].approver
<1>1. /\ r \in Revisions /\ rev[r].status = "REVIEWED" /\ Predecessor(r) = head
      /\ Predecessor(r) # r /\ rev[r].reviewer = approval[s].reviewer
      /\ head # NoRevision => rev[head].status = "APPROVED"
    BY StillReviewed DEF Approve
<1>2. p \notin {rev[r].proposer, rev[r].reviewer} /\ r \notin open
    BY <1>1 DEF Approve, MayApprove, Independent
<1>3. rev \in [Revisions -> RevisionRows] BY DEF KnowledgeInv, KnowledgeTypeOK
<1>4. head' = r /\ rev' = [q \in Revisions |-> rev'[q]] BY ApprovalCommits
<1>5. \A q \in Revisions : rev'[q] = [rev[q] EXCEPT !.status = new(q), !.approver = by(q)]
    BY ApprovalCommits
<1>6. \A q \in Revisions :
         /\ rev'[q] \in RevisionRows
         /\ rev'[q].status = new(q) /\ rev'[q].approver = by(q)
         /\ rev'[q].supersedes = rev[q].supersedes
         /\ rev'[q].proposer = rev[q].proposer /\ rev'[q].reviewer = rev[q].reviewer
    <2> TAKE q \in Revisions
    <2>1. rev[q] \in RevisionRows BY <1>3
    <2>2. new(q) \in KnowledgeStatuses /\ by(q) \in People \cup {NoPerson}
        BY <2>1 DEF RevisionRows, KnowledgeStatuses
    <2>3. rev'[q] = [rev[q] EXCEPT !.status = new(q), !.approver = by(q)] BY <1>5
    <2> HIDE DEF new, by
    <2> QED BY <2>1, <2>2, <2>3 DEF RevisionRows
<1>7. rev' \in [Revisions -> RevisionRows] BY <1>4, <1>6
<1> QED BY <1>1, <1>2, <1>4, <1>6, <1>7 DEF Predecessor

\* A proposal keeps the invariant.
LEMMA ProposalKeeps ==
    ASSUME KnowledgeInv, NEW r \in Revisions, NEW p \in Proposers,
           NEW b \in Revisions \cup {NoRevision}, ProposeKnowledge(r, p, b)
    PROVE KnowledgeInv'
<1>1. /\ rev' \in [Revisions -> RevisionRows]
      /\ rev[r].status = "none" /\ rev'[r].status = "PROPOSED"
      /\ rev'[r].supersedes = b /\ rev'[r].approver = NoPerson /\ b # r
      /\ \A q \in Revisions \ {r} : rev'[q] = rev[q]
    BY ProposedRows
<1>2. UNCHANGED <<head, triggered>> /\ (open' = open \/ open' = open \cup {r})
    BY ProposalCommits
<1>3. UNCHANGED <<manifest, approval, route, workVars>> BY DEF ProposeKnowledge
<1>4. KnowledgeTypeOK' BY <1>1, <1>2, <1>3 DEF KnowledgeInv, KnowledgeTypeOK, workVars
<1>5. IsFiniteSet(Proposed')
    <2>1. Proposed' = Proposed \cup {r} BY <1>1 DEF Proposed
    <2> QED BY <2>1, FS_AddElement DEF KnowledgeInv
<1>6. RowsSound'
    <2> SUFFICES ASSUME NEW q \in Revisions
        PROVE /\ rev'[q].status \in {"none", "PROPOSED"} => rev'[q].approver = NoPerson
              /\ rev'[q].status \in {"REVIEWED"} \cup Judged =>
                    rev'[q].reviewer \in People /\ rev'[q].reviewer # rev'[q].proposer
              /\ rev'[q].status \in Judged =>
                    rev'[q].approver \notin {rev'[q].proposer, rev'[q].reviewer} /\ q \notin open'
              /\ rev'[q].supersedes # q
        BY DEF RowsSound
    <2>1. CASE q = r BY <1>1, <2>1 DEF Judged
    <2>2. CASE q # r BY <1>1, <1>2, <2>2 DEF KnowledgeInv, RowsSound
    <2> QED BY <2>1, <2>2
<1>7. HeadSound'
    <2>1. ActiveHead(rev, head) /\ head \in Revisions \cup {NoRevision}
        BY DEF KnowledgeInv, HeadSound, KnowledgeTypeOK
    <2>2. ActiveHead(rev', head') BY <1>1, <1>2, <2>1 DEF ActiveHead
    <2>3. ASSUME NEW q \in Revisions, rev'[q].status \in Judged
          PROVE /\ head' # NoRevision
                /\ rev'[q].supersedes # NoRevision => rev'[rev'[q].supersedes].status = "SUPERSEDED"
        <3>1. q # r /\ rev'[q] = rev[q] BY <1>1, <2>3 DEF Judged
        <3>2. rev[q].supersedes \in Revisions \cup {NoRevision}
            BY DEF KnowledgeInv, KnowledgeTypeOK, RevisionRows
        <3> QED BY <1>1, <1>2, <2>3, <3>1, <3>2 DEF KnowledgeInv, HeadSound
    <2> QED BY <2>2, <2>3 DEF HeadSound, ActiveHead
<1>8. CopiesSound'
    <2> SUFFICES ASSUME NEW s \in Sessions, approval[s].status = "REVIEWED"
        PROVE /\ approval[s].rev \in Revisions
              /\ rev'[approval[s].rev].status \in {"REVIEWED"} \cup Judged
              /\ rev'[approval[s].rev].reviewer = approval[s].reviewer
        BY <1>3 DEF CopiesSound
    <2>1. approval[s].rev # r BY <1>1 DEF KnowledgeInv, CopiesSound, Judged
    <2> QED BY <1>1, <2>1 DEF KnowledgeInv, CopiesSound
<1>9. TriggersNeverRaise' BY <1>2 DEF KnowledgeInv, TriggersNeverRaise
<1> QED BY <1>4, <1>5, <1>6, <1>7, <1>8, <1>9 DEF KnowledgeInv

\* A review keeps the invariant.
LEMMA ReviewKeeps ==
    ASSUME KnowledgeInv, NEW r \in Revisions, NEW p \in People, ReviewKnowledge(r, p)
    PROVE KnowledgeInv'
<1>1. /\ rev' \in [Revisions -> RevisionRows]
      /\ rev[r].status = "PROPOSED" /\ rev'[r].status = "REVIEWED"
      /\ rev'[r].supersedes = rev[r].supersedes /\ rev'[r].approver = rev[r].approver
      /\ rev'[r].proposer = rev[r].proposer /\ rev'[r].reviewer = p
      /\ p # rev[r].proposer
      /\ \A q \in Revisions \ {r} : rev'[q] = rev[q]
    BY ReviewedRows
<1>2. UNCHANGED <<head, open, triggered>> BY ReviewCommits
<1>3. UNCHANGED <<manifest, approval, route, workVars>> BY DEF ReviewKnowledge
<1>4. KnowledgeTypeOK' BY <1>1, <1>2, <1>3 DEF KnowledgeInv, KnowledgeTypeOK, workVars
<1>5. IsFiniteSet(Proposed')
    <2>1. Proposed' = Proposed BY <1>1 DEF Proposed
    <2> QED BY <2>1 DEF KnowledgeInv
<1>6. RowsSound'
    <2> SUFFICES ASSUME NEW q \in Revisions
        PROVE /\ rev'[q].status \in {"none", "PROPOSED"} => rev'[q].approver = NoPerson
              /\ rev'[q].status \in {"REVIEWED"} \cup Judged =>
                    rev'[q].reviewer \in People /\ rev'[q].reviewer # rev'[q].proposer
              /\ rev'[q].status \in Judged =>
                    rev'[q].approver \notin {rev'[q].proposer, rev'[q].reviewer} /\ q \notin open'
              /\ rev'[q].supersedes # q
        BY DEF RowsSound
    <2>1. CASE q = r BY <1>1, <2>1 DEF KnowledgeInv, RowsSound, Judged
    <2>2. CASE q # r BY <1>1, <1>2, <2>2 DEF KnowledgeInv, RowsSound
    <2> QED BY <2>1, <2>2
<1>7. HeadSound'
    <2>1. ActiveHead(rev, head) /\ head \in Revisions \cup {NoRevision}
        BY DEF KnowledgeInv, HeadSound, KnowledgeTypeOK
    <2>2. ActiveHead(rev', head') BY <1>1, <1>2, <2>1 DEF ActiveHead
    <2>3. ASSUME NEW q \in Revisions, rev'[q].status \in Judged
          PROVE /\ head' # NoRevision
                /\ rev'[q].supersedes # NoRevision => rev'[rev'[q].supersedes].status = "SUPERSEDED"
        <3>1. q # r /\ rev'[q] = rev[q] BY <1>1, <2>3 DEF Judged
        <3>2. rev[q].supersedes \in Revisions \cup {NoRevision}
            BY DEF KnowledgeInv, KnowledgeTypeOK, RevisionRows
        <3> QED BY <1>1, <1>2, <2>3, <3>1, <3>2 DEF KnowledgeInv, HeadSound
    <2> QED BY <2>2, <2>3 DEF HeadSound, ActiveHead
<1>8. CopiesSound'
    <2> SUFFICES ASSUME NEW s \in Sessions, approval[s].status = "REVIEWED"
        PROVE /\ approval[s].rev \in Revisions
              /\ rev'[approval[s].rev].status \in {"REVIEWED"} \cup Judged
              /\ rev'[approval[s].rev].reviewer = approval[s].reviewer
        BY <1>3 DEF CopiesSound
    <2>1. approval[s].rev # r BY <1>1 DEF KnowledgeInv, CopiesSound, Judged
    <2> QED BY <1>1, <2>1 DEF KnowledgeInv, CopiesSound
<1>9. TriggersNeverRaise' BY <1>2 DEF KnowledgeInv, TriggersNeverRaise
<1> QED BY <1>4, <1>5, <1>6, <1>7, <1>8, <1>9 DEF KnowledgeInv

\* An approval keeps the invariant.
LEMMA ApprovalKeeps ==
    ASSUME KnowledgeInv, NEW s \in Sessions, NEW p \in People, Approve(s, p)
    PROVE KnowledgeInv'
<1> DEFINE r == approval[s].rev
<1>1. /\ rev' \in [Revisions -> RevisionRows]
      /\ head' = r /\ r \in Revisions /\ rev[r].status = "REVIEWED" /\ r # head
      /\ rev[r].supersedes = head
      /\ head # NoRevision => rev[head].status = "APPROVED"
      /\ p \notin {rev[r].proposer, rev[r].reviewer} /\ r \notin open
    BY ApprovedRows
<1>2. \A q \in Revisions :
         /\ rev'[q].status = IF q = r THEN "APPROVED"
                             ELSE IF q = head THEN "SUPERSEDED" ELSE rev[q].status
         /\ rev'[q].approver = IF q = r THEN p ELSE rev[q].approver
         /\ rev'[q].supersedes = rev[q].supersedes
         /\ rev'[q].proposer = rev[q].proposer /\ rev'[q].reviewer = rev[q].reviewer
    BY ApprovedRows
<1>3. UNCHANGED <<open, triggered>> BY ApprovalCommits
<1>4. /\ UNCHANGED <<manifest, route, workVars>>
      /\ approval' = [approval EXCEPT ![s] = NoApproval]
    BY DEF Approve
<1>5. head \in Revisions \cup {NoRevision} /\ ActiveHead(rev, head)
    BY DEF KnowledgeInv, KnowledgeTypeOK, HeadSound
<1> HIDE DEF r
<1>6. approval' \in [Sessions -> [rev : Revisions \cup {NoRevision},
                                 status : KnowledgeStatuses,
                                 reviewer : People \cup {NoPerson}]]
    BY <1>4 DEF KnowledgeInv, KnowledgeTypeOK, NoApproval, KnowledgeStatuses
<1>7. KnowledgeTypeOK' BY <1>1, <1>3, <1>4, <1>6 DEF KnowledgeInv, KnowledgeTypeOK, workVars
<1>8. IsFiniteSet(Proposed')
    <2>1. Proposed' = Proposed BY <1>1, <1>2, <1>5, KnowledgeAssumption DEF Proposed
    <2> QED BY <2>1 DEF KnowledgeInv
<1>9. RowsSound'
    <2> SUFFICES ASSUME NEW q \in Revisions
        PROVE /\ rev'[q].status \in {"none", "PROPOSED"} => rev'[q].approver = NoPerson
              /\ rev'[q].status \in {"REVIEWED"} \cup Judged =>
                    rev'[q].reviewer \in People /\ rev'[q].reviewer # rev'[q].proposer
              /\ rev'[q].status \in Judged =>
                    rev'[q].approver \notin {rev'[q].proposer, rev'[q].reviewer} /\ q \notin open'
              /\ rev'[q].supersedes # q
        BY DEF RowsSound
    <2>1. CASE q = r BY <1>1, <1>2, <1>3, <2>1 DEF KnowledgeInv, RowsSound, Judged
    <2>2. CASE q # r /\ q = head
        BY <1>1, <1>2, <1>3, <2>2, KnowledgeAssumption DEF KnowledgeInv, RowsSound, Judged
    <2>3. CASE q # r /\ q # head
        BY <1>2, <1>3, <2>3 DEF KnowledgeInv, RowsSound
    <2> QED BY <2>1, <2>2, <2>3
<1>10. HeadSound'
    <2>1. ActiveHead(rev', head') BY <1>1, <1>2, <1>5 DEF ActiveHead
    <2>2. ASSUME NEW q \in Revisions, rev'[q].status \in Judged
          PROVE /\ head' # NoRevision
                /\ rev'[q].supersedes # NoRevision => rev'[rev'[q].supersedes].status = "SUPERSEDED"
        <3> DEFINE old == rev[q].supersedes
        <3>1. old \in Revisions \cup {NoRevision} /\ rev'[q].supersedes = old
            BY <1>2 DEF KnowledgeInv, KnowledgeTypeOK, RevisionRows
        <3>2. head' # NoRevision BY <1>1, KnowledgeAssumption
        <3>3. CASE q = r
            <4>1. old = head BY <1>1, <3>3
            <4>2. head # NoRevision => head \in Revisions /\ rev'[head].status = "SUPERSEDED"
                BY <1>1, <1>2, <1>5
            <4> QED BY <3>1, <3>2, <4>1, <4>2
        <3>4. CASE q # r
            <4>1. rev[q].status \in Judged BY <1>1, <1>2, <1>5, <2>2, <3>4, KnowledgeAssumption DEF Judged
            <4>2. old # NoRevision => rev[old].status = "SUPERSEDED"
                BY <4>1 DEF KnowledgeInv, HeadSound
            <4>3. old # NoRevision => old # r /\ rev'[old].status = "SUPERSEDED"
                BY <1>1, <1>2, <3>1, <4>2
            <4> QED BY <3>1, <3>2, <4>3
        <3> QED BY <3>3, <3>4
    <2> QED BY <2>1, <2>2 DEF HeadSound, ActiveHead
<1>11. CopiesSound'
    <2> SUFFICES ASSUME NEW t \in Sessions, approval'[t].status = "REVIEWED"
        PROVE /\ approval'[t].rev \in Revisions
              /\ rev'[approval'[t].rev].status \in {"REVIEWED"} \cup Judged
              /\ rev'[approval'[t].rev].reviewer = approval'[t].reviewer
        BY DEF CopiesSound
    <2>1. t # s /\ approval'[t] = approval[t]
        BY <1>4 DEF KnowledgeInv, KnowledgeTypeOK, NoApproval
    <2>2. /\ approval[t].rev \in Revisions
          /\ rev[approval[t].rev].status \in {"REVIEWED"} \cup Judged
          /\ rev[approval[t].rev].reviewer = approval[t].reviewer
        BY <2>1 DEF KnowledgeInv, CopiesSound
    <2>3. rev'[approval[t].rev].status \in {"REVIEWED"} \cup Judged BY <1>2, <2>2 DEF Judged
    <2> QED BY <1>2, <2>1, <2>2, <2>3
<1>12. TriggersNeverRaise' BY <1>3 DEF KnowledgeInv, TriggersNeverRaise
<1> QED BY <1>7, <1>8, <1>9, <1>10, <1>11, <1>12 DEF KnowledgeInv

\* A session that reads a revision keeps the invariant.
LEMMA BeginApprovalKeeps ==
    ASSUME KnowledgeInv, NEW s \in Sessions, NEW r \in Revisions, BeginApproval(s, r)
    PROVE KnowledgeInv'
<1> DEFINE read == [rev |-> r, status |-> rev[r].status, reviewer |-> rev[r].reviewer]
<1>1. /\ approval' = [approval EXCEPT ![s] = read]
      /\ UNCHANGED <<manifest, rev, head, open, triggered, route, workVars>>
    BY DEF BeginApproval
<1>2. read \in [rev : Revisions \cup {NoRevision}, status : KnowledgeStatuses,
                reviewer : People \cup {NoPerson}]
    BY DEF KnowledgeInv, KnowledgeTypeOK, RevisionRows
<1>3. read.rev = r /\ read.status = rev[r].status /\ read.reviewer = rev[r].reviewer OBVIOUS
<1> HIDE DEF read
<1>4. KnowledgeTypeOK' BY <1>1, <1>2 DEF KnowledgeInv, KnowledgeTypeOK, workVars
<1>5. IsFiniteSet(Proposed') BY <1>1 DEF KnowledgeInv, Proposed
<1>6. RowsSound' BY <1>1 DEF KnowledgeInv, RowsSound
<1>7. HeadSound' BY <1>1 DEF KnowledgeInv, HeadSound, ActiveHead
<1>8. CopiesSound'
    <2> SUFFICES ASSUME NEW t \in Sessions, approval'[t].status = "REVIEWED"
        PROVE /\ approval'[t].rev \in Revisions
              /\ rev[approval'[t].rev].status \in {"REVIEWED"} \cup Judged
              /\ rev[approval'[t].rev].reviewer = approval'[t].reviewer
        BY <1>1 DEF CopiesSound
    <2>1. CASE t = s
        <3>1. approval'[t] = read BY <1>1, <2>1 DEF KnowledgeInv, KnowledgeTypeOK
        <3> QED BY <1>3, <3>1
    <2>2. CASE t # s
        <3>1. approval'[t] = approval[t] BY <1>1, <2>2 DEF KnowledgeInv, KnowledgeTypeOK
        <3> QED BY <3>1 DEF KnowledgeInv, CopiesSound
    <2> QED BY <2>1, <2>2
<1>9. TriggersNeverRaise' BY <1>1 DEF KnowledgeInv, TriggersNeverRaise
<1> QED BY <1>4, <1>5, <1>6, <1>7, <1>8, <1>9 DEF KnowledgeInv

\* A refused approval forgets its copy.
LEMMA RefusalKeeps ==
    ASSUME KnowledgeInv, NEW s \in Sessions, NEW p \in People, RefuseApproval(s, p)
    PROVE KnowledgeInv'
<1>1. /\ approval' = [approval EXCEPT ![s] = NoApproval]
      /\ UNCHANGED <<manifest, rev, head, open, triggered, route, workVars>>
    BY DEF RefuseApproval
<1>2. approval' \in [Sessions -> [rev : Revisions \cup {NoRevision},
                                 status : KnowledgeStatuses,
                                 reviewer : People \cup {NoPerson}]]
    BY <1>1 DEF KnowledgeInv, KnowledgeTypeOK, NoApproval, KnowledgeStatuses
<1>3. KnowledgeTypeOK' BY <1>1, <1>2 DEF KnowledgeInv, KnowledgeTypeOK, workVars
<1>4. IsFiniteSet(Proposed') BY <1>1 DEF KnowledgeInv, Proposed
<1>5. RowsSound' BY <1>1 DEF KnowledgeInv, RowsSound
<1>6. HeadSound' BY <1>1 DEF KnowledgeInv, HeadSound, ActiveHead
<1>7. CopiesSound'
    <2> SUFFICES ASSUME NEW t \in Sessions, approval'[t].status = "REVIEWED"
        PROVE approval'[t] = approval[t]
        BY <1>1 DEF CopiesSound, KnowledgeInv
    <2> QED BY <1>1 DEF KnowledgeInv, KnowledgeTypeOK, NoApproval
<1>8. TriggersNeverRaise' BY <1>1 DEF KnowledgeInv, TriggersNeverRaise
<1> QED BY <1>3, <1>4, <1>5, <1>6, <1>7, <1>8 DEF KnowledgeInv

\* Nothing else touches the rows, the head or a session's copy.
LEMMA RestKeeps ==
    ASSUME KnowledgeInv, KnowledgeTypeOK',
           UNCHANGED <<rev, head, open, approval, triggered>>
    PROVE KnowledgeInv'
<1>1. IsFiniteSet(Proposed') BY DEF KnowledgeInv, Proposed
<1>2. RowsSound' BY DEF KnowledgeInv, RowsSound
<1>3. HeadSound' BY DEF KnowledgeInv, HeadSound, ActiveHead
<1>4. CopiesSound' BY DEF KnowledgeInv, CopiesSound
<1>5. TriggersNeverRaise' BY DEF KnowledgeInv, TriggersNeverRaise
<1> QED BY <1>1, <1>2, <1>3, <1>4, <1>5 DEF KnowledgeInv

\* What the work graph and the binding of a context do.
WorkStep ==
    \/ \E a \in Attempts : ClaimWork(a) \/ ClaimExpires(a) \/ ClaimEnds(a)
    \/ \E a \in Attempts, c \in Contexts, adapters \in (SUBSET Adapters) \ {{}} :
          LockForBinding(a, c, adapters)
    \/ \E a \in Attempts : CheckSources(a) \/ StoreBinding(a) \/ BindingRefused(a)

\* It changes nothing but claims, bindings and bound contexts, and these keep
\* their types.
LEMMA WorkTypes ==
    ASSUME KnowledgeInv, WorkStep
    PROVE /\ UNCHANGED <<manifest, rev, head, open, approval, triggered, route>>
          /\ KnowledgeTypeOK'
<1> DEFINE Bindings == [step : {"idle", "locked", "checked"},
                        context : Contexts \cup {NoContext}, adapters : SUBSET Adapters]
           Bound == [context : Contexts \cup {NoContext}, adapters : SUBSET Adapters]
<1>1. /\ KnowledgeTypeOK /\ binding \in [Attempts -> Bindings]
      /\ bound \in [Attempts -> Bound]
      /\ claim \in [Attempts -> {"none", "active", "overdue", "ended"}]
    BY DEF KnowledgeInv, KnowledgeTypeOK
<1>2. UNCHANGED <<manifest, rev, head, open, approval, triggered, route>>
    BY DEF WorkStep, ClaimWork, ClaimExpires, ClaimEnds, LockForBinding, CheckSources,
           StoreBinding, BindingRefused
<1>3. claim' \in [Attempts -> {"none", "active", "overdue", "ended"}]
    BY <1>1 DEF WorkStep, ClaimWork, ClaimExpires, ClaimEnds, LockForBinding, CheckSources,
                StoreBinding, BindingRefused
<1>4. NoBinding \in Bindings BY DEF NoBinding
<1>5. binding' \in [Attempts -> Bindings]
    <2>1. CASE \E a \in Attempts : ClaimWork(a) \/ ClaimExpires(a) \/ ClaimEnds(a)
        BY <1>1, <2>1 DEF ClaimWork, ClaimExpires, ClaimEnds
    <2>2. ASSUME NEW a \in Attempts, NEW c \in Contexts, NEW adapters \in SUBSET Adapters,
                 LockForBinding(a, c, adapters)
          PROVE binding' \in [Attempts -> Bindings]
        BY <1>1, <2>2 DEF LockForBinding
    <2>3. ASSUME NEW a \in Attempts, CheckSources(a)
          PROVE binding' \in [Attempts -> Bindings]
        BY <1>1, <2>3 DEF CheckSources
    <2>4. ASSUME NEW a \in Attempts, StoreBinding(a) \/ BindingRefused(a)
          PROVE binding' \in [Attempts -> Bindings]
        BY <1>1, <1>4, <2>4 DEF StoreBinding, BindingRefused
    <2> QED BY <2>1, <2>2, <2>3, <2>4 DEF WorkStep
<1>6. bound' \in [Attempts -> Bound]
    <2>1. CASE \E a \in Attempts : StoreBinding(a)
        BY <1>1, <2>1 DEF StoreBinding
    <2>2. CASE UNCHANGED bound BY <1>1, <2>2
    <2> QED BY <2>1, <2>2
            DEF WorkStep, ClaimWork, ClaimExpires, ClaimEnds, LockForBinding, CheckSources,
                BindingRefused
<1> QED BY <1>1, <1>2, <1>3, <1>5, <1>6 DEF KnowledgeTypeOK

\* The registration of manifests and routes, the work graph and the binding.
LEMMA ClaimsKeep ==
    ASSUME KnowledgeInv,
           \/ \E approvers \in Teams : RegisterProject(approvers)
           \/ \E health \in {"healthy", "unhealthy"} : RegisterRoute(health)
           \/ WorkStep
    PROVE KnowledgeInv'
<1>1. KnowledgeTypeOK BY DEF KnowledgeInv
<1>2. CASE \E approvers \in Teams : RegisterProject(approvers)
    <2>1. KnowledgeTypeOK'
        BY <1>1, <1>2, KnowledgeAssumption DEF KnowledgeTypeOK, RegisterProject, workVars
    <2> QED BY <1>2, <2>1, RestKeeps DEF RegisterProject
<1>3. CASE \E health \in {"healthy", "unhealthy"} : RegisterRoute(health)
    <2>1. KnowledgeTypeOK' BY <1>1, <1>3 DEF KnowledgeTypeOK, RegisterRoute, workVars
    <2> QED BY <1>3, <2>1, RestKeeps DEF RegisterRoute
<1>4. CASE WorkStep BY <1>4, WorkTypes, RestKeeps
<1> QED BY <1>2, <1>3, <1>4

\* The invariant of the registry, for any constants.
THEOREM KnowledgeInvariant == KnowledgeSpec => []KnowledgeInv
<1>1. KnowledgeInit => KnowledgeInv BY InitSound
<1>2. KnowledgeInv /\ [KnowledgeNext]_knowledgeVars => KnowledgeInv'
    <2> SUFFICES ASSUME KnowledgeInv, [KnowledgeNext]_knowledgeVars PROVE KnowledgeInv'
        OBVIOUS
    <2>1. CASE UNCHANGED knowledgeVars
        <3>1. KnowledgeTypeOK' BY <2>1 DEF knowledgeVars, workVars, KnowledgeInv, KnowledgeTypeOK
        <3> QED BY <2>1, <3>1, RestKeeps DEF knowledgeVars
    <2>2. CASE \E r \in Revisions, p \in Proposers, b \in Revisions \cup {NoRevision} :
                  ProposeKnowledge(r, p, b)
        BY <2>2, ProposalKeeps
    <2>3. CASE \E r \in Revisions, p \in People : ReviewKnowledge(r, p)
        BY <2>3, ReviewKeeps
    <2>4. CASE \E s \in Sessions, r \in Revisions : BeginApproval(s, r)
        BY <2>4, BeginApprovalKeeps
    <2>5. CASE \E s \in Sessions, p \in People : Approve(s, p) \/ RefuseApproval(s, p)
        BY <2>5, ApprovalKeeps, RefusalKeeps
    <2> QED BY <2>1, <2>2, <2>3, <2>4, <2>5, ClaimsKeep DEF KnowledgeNext, WorkStep
<1> QED BY <1>1, <1>2, PTL DEF KnowledgeSpec

-----------------------------------------------------------------------------
(***************************************************************************)
(* What follows                                                            *)
(***************************************************************************)

\* The types of the registry's tables.
THEOREM RegistryTypes == KnowledgeSpec => []KnowledgeTypeOK
<1>1. KnowledgeInv => KnowledgeTypeOK BY DEF KnowledgeInv
<1> QED BY <1>1, KnowledgeInvariant, PTL

\* Three different values make a set of three.
LEMMA Three ==
    ASSUME NEW a, NEW b, NEW c, a # b, a # c, b # c
    PROVE Cardinality({a, b, c}) = 3
<1>1. IsFiniteSet({}) /\ Cardinality({}) = 0 BY FS_EmptySet
<1>2. IsFiniteSet({a}) /\ Cardinality({a}) = 1
    <2>1. {a} = {} \cup {a} OBVIOUS
    <2> QED BY <1>1, <2>1, FS_AddElement
<1>3. IsFiniteSet({a, b}) /\ Cardinality({a, b}) = 2
    <2>1. {a, b} = {a} \cup {b} OBVIOUS
    <2> QED BY <1>2, <2>1, FS_AddElement
<1>4. {a, b, c} = {a, b} \cup {c} OBVIOUS
<1> QED BY <1>3, <1>4, FS_AddElement

\* approve_knowledge decides on a stale copy; what it writes is sound all the
\* same, and no trigger of the schema ever has to refuse it.
THEOREM ApprovalsAreSound == KnowledgeSpec => []ApprovalsSound
<1>1. KnowledgeInv => ApprovalsSound
    <2> SUFFICES ASSUME KnowledgeInv PROVE ApprovalsSound OBVIOUS
    <2>1. ASSUME NEW r \in Revisions, rev[r].status \in {"APPROVED", "SUPERSEDED"}
          PROVE /\ Cardinality({rev[r].proposer, rev[r].reviewer, rev[r].approver}) = 3
                /\ r \notin open
        <3>1. /\ rev[r].reviewer # rev[r].proposer
              /\ rev[r].approver \notin {rev[r].proposer, rev[r].reviewer} /\ r \notin open
            BY <2>1 DEF KnowledgeInv, RowsSound, Judged
        <3>2. Cardinality({rev[r].proposer, rev[r].reviewer, rev[r].approver}) = 3
            BY <3>1, Three
        <3> QED BY <3>1, <3>2
    <2> QED BY <2>1 DEF KnowledgeInv, ApprovalsSound, ThreePeople
<1> QED BY <1>1, KnowledgeInvariant, PTL

\* However proposals, reviews and stale approvals interleave, the head moves
\* by compare-and-swap from the revision a proposal was written against.
THEOREM RegistryRefinesHead == KnowledgeSpec => HeadRefined
<1> DEFINE gone == {q \in Revisions : rev[q].status = "SUPERSEDED"}
           from == [q \in Revisions |-> IF rev[q].status = "none" THEN "undrafted"
                                        ELSE rev[q].supersedes]
<1>1. KnowledgeInit => HeadRow!HeadInit
    <2> SUFFICES ASSUME KnowledgeInit PROVE HeadRow!HeadInit OBVIOUS
    <2>1. head = NoRevision /\ \A q \in Revisions : rev[q].status = "none"
        BY DEF KnowledgeInit, NoRevisionRow
    <2>2. gone = {} BY <2>1
    <2>3. from = [q \in Revisions |-> "undrafted"] BY <2>1
    <2> QED BY <2>1, <2>2, <2>3 DEF HeadRow!HeadInit, HeadRow!Undrafted
<1>2. KnowledgeInv /\ [KnowledgeNext]_knowledgeVars => [HeadRow!HeadNext]_(HeadRow!headVars)
    <2> SUFFICES ASSUME KnowledgeInv, [KnowledgeNext]_knowledgeVars
        PROVE HeadRow!HeadNext \/ UNCHANGED HeadRow!headVars
        OBVIOUS
    <2>1. ASSUME UNCHANGED <<rev, head>> PROVE UNCHANGED HeadRow!headVars
        BY <2>1 DEF HeadRow!headVars
    <2>2. ASSUME NEW r \in Revisions, NEW p \in Proposers,
                 NEW b \in Revisions \cup {NoRevision}, ProposeKnowledge(r, p, b)
          PROVE HeadRow!Draft(r)
        <3>1. /\ rev[r].status = "none" /\ rev'[r].status = "PROPOSED"
              /\ rev'[r].supersedes = b
              /\ \A q \in Revisions \ {r} : rev'[q] = rev[q]
            BY <2>2, ProposedRows
        <3>2. head' = head BY <2>2, ProposalCommits
        <3>3. b \in {NoRevision, head} BY <2>2 DEF ProposeKnowledge
        <3>4. from[r] = "undrafted" /\ from'[r] = b BY <3>1
        <3>5. from' = [from EXCEPT ![r] = from'[r]] BY <3>1
        <3>6. gone' = gone BY <3>1
        <3> QED BY <3>2, <3>3, <3>4, <3>5, <3>6 DEF HeadRow!Draft, HeadRow!Undrafted
    <2>3. ASSUME NEW s \in Sessions, NEW p \in People, Approve(s, p)
          PROVE \E r \in Revisions : HeadRow!Promote(r)
        <3> DEFINE r == approval[s].rev
        <3>1. /\ head' = r /\ r \in Revisions /\ rev[r].status = "REVIEWED" /\ r # head
              /\ rev[r].supersedes = head
              /\ head # NoRevision => rev[head].status = "APPROVED"
              /\ \A q \in Revisions :
                    /\ rev'[q].status = IF q = r THEN "APPROVED"
                                        ELSE IF q = head THEN "SUPERSEDED" ELSE rev[q].status
                    /\ rev'[q].supersedes = rev[q].supersedes
            BY <2>3, ApprovedRows
        <3>2. head \in Revisions \cup {NoRevision} /\ NoRevision \notin Revisions
            BY KnowledgeAssumption DEF KnowledgeInv, KnowledgeTypeOK
        <3> HIDE DEF r
        <3>3. from[r] = head BY <3>1
        <3>4. from' = from BY <3>1, <3>2
        <3>5. gone' = gone \cup ({head} \ {NoRevision}) BY <3>1, <3>2
        <3>6. r \notin gone \cup {head} BY <3>1
        <3> QED BY <3>1, <3>3, <3>4, <3>5, <3>6 DEF HeadRow!Promote
    <2>4. ASSUME NEW r \in Revisions, NEW p \in People, ReviewKnowledge(r, p)
          PROVE UNCHANGED HeadRow!headVars
        <3>1. /\ rev[r].status = "PROPOSED" /\ rev'[r].status = "REVIEWED"
              /\ rev'[r].supersedes = rev[r].supersedes
              /\ \A q \in Revisions \ {r} : rev'[q] = rev[q]
            BY <2>4, ReviewedRows
        <3>2. head' = head BY <2>4, ReviewCommits
        <3>3. from' = from /\ gone' = gone BY <3>1
        <3> QED BY <3>2, <3>3 DEF HeadRow!headVars
    <2>5. CASE UNCHANGED knowledgeVars BY <2>1, <2>5 DEF knowledgeVars
    <2>6. CASE \E approvers \in Teams : RegisterProject(approvers)
        BY <2>1, <2>6 DEF RegisterProject
    <2>7. CASE \E r \in Revisions, p \in Proposers, b \in Revisions \cup {NoRevision} :
                  ProposeKnowledge(r, p, b)
        BY <2>2, <2>7 DEF HeadRow!HeadNext
    <2>8. CASE \E r \in Revisions, p \in People : ReviewKnowledge(r, p)
        BY <2>4, <2>8
    <2>9. CASE \E s \in Sessions, r \in Revisions : BeginApproval(s, r)
        BY <2>1, <2>9 DEF BeginApproval
    <2>10. CASE \E s \in Sessions, p \in People : Approve(s, p)
        BY <2>3, <2>10 DEF HeadRow!HeadNext
    <2>11. CASE \E s \in Sessions, p \in People : RefuseApproval(s, p)
        BY <2>1, <2>11 DEF RefuseApproval
    <2>12. CASE \E health \in {"healthy", "unhealthy"} : RegisterRoute(health)
        BY <2>1, <2>12 DEF RegisterRoute
    <2>13. CASE WorkStep BY <2>1, <2>13, WorkTypes
    <2> QED BY <2>5, <2>6, <2>7, <2>8, <2>9, <2>10, <2>11, <2>12, <2>13
            DEF KnowledgeNext, WorkStep
<1> QED BY <1>1, <1>2, KnowledgeInvariant, PTL DEF KnowledgeSpec, HeadRefined, HeadRow!HeadSpec

\* What is or was the head stays so.
LEMMA WasHeadStays ==
    ASSUME KnowledgeInv, [KnowledgeNext]_knowledgeVars, NEW q \in Revisions, WasHead(q)
    PROVE WasHead(q)'
<1>1. CASE UNCHANGED <<rev, head>> BY <1>1 DEF WasHead
<1>2. ASSUME NEW r \in Revisions, NEW p \in Proposers, NEW b \in Revisions \cup {NoRevision},
             ProposeKnowledge(r, p, b)
      PROVE WasHead(q)'
    <2>1. head' = head BY <1>2, ProposalCommits
    <2>2. rev[r].status = "none" /\ \A x \in Revisions \ {r} : rev'[x] = rev[x]
        BY <1>2, ProposedRows
    <2> QED BY <2>1, <2>2 DEF WasHead
<1>3. ASSUME NEW r \in Revisions, NEW p \in People, ReviewKnowledge(r, p)
      PROVE WasHead(q)'
    <2>1. head' = head BY <1>3, ReviewCommits
    <2>2. rev[r].status = "PROPOSED" /\ \A x \in Revisions \ {r} : rev'[x] = rev[x]
        BY <1>3, ReviewedRows
    <2> QED BY <2>1, <2>2 DEF WasHead
<1>4. ASSUME NEW s \in Sessions, NEW p \in People, Approve(s, p)
      PROVE WasHead(q)'
    <2>1. /\ rev[approval[s].rev].status = "REVIEWED" /\ approval[s].rev # head
          /\ rev'[q].status = IF q = approval[s].rev THEN "APPROVED"
                              ELSE IF q = head THEN "SUPERSEDED" ELSE rev[q].status
        BY <1>4, ApprovedRows
    <2> QED BY <2>1 DEF WasHead
<1>5. CASE \E s \in Sessions, r \in Revisions : BeginApproval(s, r)
    BY <1>1, <1>5 DEF BeginApproval
<1>6. CASE \E s \in Sessions, p \in People : RefuseApproval(s, p)
    BY <1>1, <1>6 DEF RefuseApproval
<1>7. CASE \E approvers \in Teams : RegisterProject(approvers)
    BY <1>1, <1>7 DEF RegisterProject
<1>8. CASE \E health \in {"healthy", "unhealthy"} : RegisterRoute(health)
    BY <1>1, <1>8 DEF RegisterRoute
<1>9. CASE WorkStep BY <1>1, <1>9, WorkTypes
<1>10. CASE UNCHANGED knowledgeVars BY <1>1, <1>10 DEF knowledgeVars
<1> QED BY <1>2, <1>3, <1>4, <1>5, <1>6, <1>7, <1>8, <1>9, <1>10 DEF KnowledgeNext, WorkStep

\* A binding that has its locks keeps the claim from ending; what it checked,
\* and what is bound, only ever quotes heads.
BindingsSound ==
    \A a \in Attempts :
        /\ Locked(a) => claim[a] \in {"active", "overdue"} /\ binding[a].context \in Contexts
        /\ binding[a].step = "checked" => \A r \in binding[a].context : WasHead(r)
        /\ bound[a].context # NoContext => \A r \in bound[a].context : WasHead(r)

\* An attempt's rows are written by nobody but the binding that locked them.
LEMMA BindingsKeep ==
    ASSUME KnowledgeInv, BindingsSound, [KnowledgeNext]_knowledgeVars
    PROVE BindingsSound'
<1>1. /\ binding \in [Attempts -> [step : {"idle", "locked", "checked"},
                                   context : Contexts \cup {NoContext},
                                   adapters : SUBSET Adapters]]
      /\ bound \in [Attempts -> [context : Contexts \cup {NoContext}, adapters : SUBSET Adapters]]
      /\ claim \in [Attempts -> {"none", "active", "overdue", "ended"}]
    BY DEF KnowledgeInv, KnowledgeTypeOK
<1>2. \A q \in Revisions : WasHead(q) => WasHead(q)' BY WasHeadStays
<1>3. /\ \A c \in Contexts : c \subseteq Revisions
      /\ NoContext \notin Contexts
    BY KnowledgeAssumption
<1>4. CASE UNCHANGED workVars
    BY <1>1, <1>2, <1>3, <1>4 DEF workVars, BindingsSound, Locked
<1>5. ASSUME NEW a \in Attempts, ClaimWork(a) \/ ClaimExpires(a) \/ ClaimEnds(a)
      PROVE BindingsSound'
    <2>1. /\ binding' = binding /\ bound' = bound
          /\ \A b \in Attempts : Locked(b) => claim'[b] \in {"active", "overdue"}
        BY <1>1, <1>5 DEF ClaimWork, ClaimExpires, ClaimEnds, BindingsSound
    <2> QED BY <1>1, <1>2, <1>3, <2>1 DEF BindingsSound, Locked
<1>6. ASSUME NEW a \in Attempts, NEW c \in Contexts, NEW adapters \in SUBSET Adapters,
             LockForBinding(a, c, adapters)
      PROVE BindingsSound'
    <2>1. /\ claim' = claim /\ bound' = bound /\ claim[a] = "active"
          /\ binding'[a].step = "locked" /\ binding'[a].context = c
          /\ \A b \in Attempts \ {a} : binding'[b] = binding[b]
        BY <1>1, <1>6 DEF LockForBinding
    <2> QED BY <1>1, <1>2, <1>3, <2>1 DEF BindingsSound, Locked
<1>7. ASSUME NEW a \in Attempts, CheckSources(a)
      PROVE BindingsSound'
    <2>1. /\ claim' = claim /\ bound' = bound /\ binding[a].step = "locked"
          /\ binding'[a].context = binding[a].context
          /\ \A b \in Attempts \ {a} : binding'[b] = binding[b]
        BY <1>1, <1>7 DEF CheckSources
    <2>2. head' = head /\ \A r \in binding[a].context : r = head
        BY <1>7 DEF CheckSources, Authoritative
    <2> QED BY <1>1, <1>2, <1>3, <2>1, <2>2 DEF BindingsSound, Locked, WasHead
<1>8. ASSUME NEW a \in Attempts, StoreBinding(a)
      PROVE BindingsSound'
    <2>1. /\ claim' = claim /\ binding[a].step = "checked"
          /\ binding'[a].step = "idle" /\ bound'[a].context = binding[a].context
          /\ \A b \in Attempts \ {a} : binding'[b] = binding[b] /\ bound'[b] = bound[b]
        BY <1>1, <1>8 DEF StoreBinding, NoBinding
    <2> QED BY <1>1, <1>2, <1>3, <2>1 DEF BindingsSound, Locked
<1>9. ASSUME NEW a \in Attempts, BindingRefused(a)
      PROVE BindingsSound'
    <2>1. /\ claim' = claim /\ bound' = bound /\ binding'[a].step = "idle"
          /\ \A b \in Attempts \ {a} : binding'[b] = binding[b]
        BY <1>1, <1>9 DEF BindingRefused, NoBinding
    <2> QED BY <1>1, <1>2, <1>3, <2>1 DEF BindingsSound, Locked
<1>10. UNCHANGED workVars \/ WorkStep
    BY DEF KnowledgeNext, WorkStep, knowledgeVars, RegisterProject, ProposeKnowledge,
           ReviewKnowledge, BeginApproval, Approve, RefuseApproval, RegisterRoute
<1> QED BY <1>4, <1>5, <1>6, <1>7, <1>8, <1>9, <1>10 DEF WorkStep

\* A context once bound to an attempt stays, whatever is approved later; it was
\* bound before the claim ended; and although the head may move between the
\* check and the commit, it quotes only what is or was the approved head.
THEOREM BoundContextStays == KnowledgeSpec => ContextStaysBound
<1> DEFINE Stays ==
        \A a \in Attempts :
            /\ bound[a].context # NoContext =>
                 /\ bound'[a].context = bound[a].context
                 /\ bound[a].adapters \subseteq bound'[a].adapters
            /\ bound'[a] # bound[a] => claim[a] \in {"active", "overdue"}
            /\ bound'[a].context # NoContext => \A r \in bound'[a].context : WasHead(r)'
<1>1. KnowledgeInit => BindingsSound
    BY KnowledgeAssumption DEF KnowledgeInit, BindingsSound, NoBinding, Locked
<1>2. KnowledgeInv /\ BindingsSound /\ [KnowledgeNext]_knowledgeVars => BindingsSound'
    BY BindingsKeep
<1>3. KnowledgeInv /\ BindingsSound /\ BindingsSound' /\ [KnowledgeNext]_knowledgeVars => Stays
    <2> SUFFICES ASSUME KnowledgeInv, BindingsSound, BindingsSound',
                        [KnowledgeNext]_knowledgeVars, NEW a \in Attempts
        PROVE /\ bound[a].context # NoContext =>
                   /\ bound'[a].context = bound[a].context
                   /\ bound[a].adapters \subseteq bound'[a].adapters
              /\ bound'[a] # bound[a] => claim[a] \in {"active", "overdue"}
              /\ bound'[a].context # NoContext => \A r \in bound'[a].context : WasHead(r)'
        OBVIOUS
    <2>1. bound'[a].context # NoContext => \A r \in bound'[a].context : WasHead(r)'
        BY DEF BindingsSound
    <2>2. CASE bound' = bound BY <2>1, <2>2
    <2>3. ASSUME NEW b \in Attempts, StoreBinding(b)
          PROVE /\ bound[a].context # NoContext =>
                     /\ bound'[a].context = bound[a].context
                     /\ bound[a].adapters \subseteq bound'[a].adapters
                /\ bound'[a] # bound[a] => claim[a] \in {"active", "overdue"}
        <3>1. bound \in [Attempts -> [context : Contexts \cup {NoContext},
                                      adapters : SUBSET Adapters]]
            BY DEF KnowledgeInv, KnowledgeTypeOK
        <3>2. CASE a # b BY <2>3, <3>1, <3>2 DEF StoreBinding
        <3>3. CASE a = b
            <4>1. claim[a] \in {"active", "overdue"}
                BY <2>3, <3>3 DEF StoreBinding, BindingsSound, Locked
            <4>2. /\ bound[a].context \in {NoContext, binding[a].context}
                  /\ bound'[a] = [context |-> binding[a].context,
                                  adapters |-> bound[a].adapters \cup binding[a].adapters]
                BY <2>3, <3>1, <3>3 DEF StoreBinding, BindsSame
            <4> QED BY <4>1, <4>2
        <3> QED BY <3>2, <3>3
    <2>4. bound' = bound \/ \E b \in Attempts : StoreBinding(b)
        BY DEF KnowledgeNext, knowledgeVars, workVars, RegisterProject, ProposeKnowledge,
               ReviewKnowledge, BeginApproval, Approve, RefuseApproval, RegisterRoute,
               ClaimWork, ClaimExpires, ClaimEnds, LockForBinding, CheckSources,
               BindingRefused
    <2> QED BY <2>1, <2>2, <2>3, <2>4
<1> QED BY <1>1, <1>2, <1>3, KnowledgeInvariant, PTL DEF KnowledgeSpec, ContextStaysBound

-----------------------------------------------------------------------------
(***************************************************************************)
(* The ledger: the inductive invariant                                     *)
(***************************************************************************)

NoteStatuses == {"none", "PROPOSED", "REVIEWED", "APPROVED", "SUPERSEDED",
                 "REVOKED", "EXPIRED"}
Anybody == Authors \cup Judges \cup Owners \cup {NobodyYet}
Entries == [status : NoteStatuses, after : Notes \cup {NoNote}, owner : Anybody,
            proposer : Anybody, reviewer : Anybody, approver : Anybody]

LedgerTypeOK ==
    /\ note \in [Notes -> Entries]
    /\ dispute \in [Notes \X Notes -> {"none", "open", "resolved"}]
    /\ copy \in [Readers -> [of : Notes \cup {NoNote}, entry : Entries]]
    /\ swap \in Notes \cup {NoNote}

\* A revision that was ever reviewed was so by another than its proposer.
JudgedByAnother ==
    \A n \in Notes : note[n].status \notin {"none", "PROPOSED"} =>
        note[n].reviewer # note[n].proposer

\* What a late review writes back has the predecessor its revision still has.
CopiesTrue ==
    \A t \in Readers : copy[t] # NoCopy =>
        /\ copy[t].of \in Notes
        /\ note[copy[t].of].status # "none"
        /\ copy[t].entry.status = "REVIEWED"
        /\ copy[t].entry.reviewer # copy[t].entry.proposer
        /\ copy[t].entry.after = note[copy[t].of].after

\* No head is disputed: a dispute opens with a proposal and lasts.
HeadsUndisputed == \A n \in Heads : ~ Disputed(n)

\* One head, or the two that an approval is exchanging.
HeadsFew ==
    /\ Free => \A h, k \in Heads : h = k
    /\ ~ Free =>
          /\ Heads \subseteq {swap, note[swap].after}
          /\ note[swap].after \in Notes
          /\ note[note[swap].after].status \notin {"none", "PROPOSED"}

LedgerInv ==
    /\ LedgerTypeOK /\ JudgedByAnother /\ CopiesTrue /\ HeadsUndisputed /\ HeadsFew

-----------------------------------------------------------------------------
(***************************************************************************)
(* Every step keeps the invariant                                          *)
(***************************************************************************)

\* Nothing is proposed, reviewed or disputed at first.
LEMMA BookInitSound == ASSUME BookInit PROVE LedgerInv
<1>1. Unproposed \in Entries /\ Unproposed.status = "none"
    BY DEF Unproposed, Entries, NoteStatuses, Anybody
<1>2. LedgerTypeOK BY <1>1 DEF BookInit, LedgerTypeOK, NoCopy
<1>3. JudgedByAnother /\ CopiesTrue BY <1>1 DEF BookInit, JudgedByAnother, CopiesTrue
<1>4. Heads = {} BY <1>1 DEF BookInit, Heads
<1> QED BY <1>2, <1>3, <1>4 DEF LedgerInv, HeadsUndisputed, HeadsFew, BookInit, Free

\* A proposal makes no head; it opens disputes of its own only.
LEMMA ProposeKeeps ==
    ASSUME LedgerInv, NEW n \in Notes, NEW author \in Authors, NEW owner \in Owners,
           NEW after \in Notes \cup {NoNote}, ProposeNote(n, author, owner, after)
    PROVE  LedgerInv'
<1> DEFINE new == [Unproposed EXCEPT !.status = "PROPOSED", !.after = after,
                                     !.owner = owner, !.proposer = author]
<1>1. new \in Entries /\ new.status = "PROPOSED"
    BY DEF Unproposed, Entries, NoteStatuses, Anybody
<1>2. /\ note \in [Notes -> Entries] /\ note' = [note EXCEPT ![n] = new]
      /\ note[n].status = "none" /\ UNCHANGED <<copy, swap>> /\ Free
    BY DEF ProposeNote, LedgerInv, LedgerTypeOK
<1>3. \A m \in Notes : note'[m] = IF m = n THEN new ELSE note[m] BY <1>2
<1>4. Heads' = Heads BY <1>1, <1>2, <1>3 DEF Heads
<1>5. dispute' \in [Notes \X Notes -> {"none", "open", "resolved"}]
    BY DEF ProposeNote, LedgerInv, LedgerTypeOK
<1>6. LedgerTypeOK' BY <1>1, <1>2, <1>5 DEF LedgerInv, LedgerTypeOK
<1>7. JudgedByAnother' BY <1>1, <1>3 DEF LedgerInv, JudgedByAnother
<1>8. CopiesTrue' BY <1>1, <1>2, <1>3 DEF LedgerInv, CopiesTrue
<1>9. \A m \in Notes \ {n} : Disputed(m)' => Disputed(m)
    BY DEF ProposeNote, Disputed
<1>10. n \notin Heads BY <1>2 DEF Heads
<1>11. HeadsUndisputed' BY <1>4, <1>9, <1>10 DEF LedgerInv, HeadsUndisputed, Heads
<1>12. HeadsFew' BY <1>2, <1>4 DEF LedgerInv, HeadsFew, Free
<1> QED BY <1>6, <1>7, <1>8, <1>11, <1>12 DEF LedgerInv

\* What a reviewer takes away is a review by another than the proposer.
LEMMA ReadKeeps ==
    ASSUME LedgerInv, NEW t \in Readers, NEW n \in Notes, NEW judge \in Judges,
           ReadNote(t, n, judge)
    PROVE  LedgerInv'
<1> DEFINE entry == [note[n] EXCEPT !.status = "REVIEWED", !.reviewer = judge]
<1>1. /\ note \in [Notes -> Entries] /\ note[n] \in Entries
      /\ copy \in [Readers -> [of : Notes \cup {NoNote}, entry : Entries]]
    BY DEF LedgerInv, LedgerTypeOK
<1>2. /\ entry \in Entries /\ entry.status = "REVIEWED" /\ entry.reviewer = judge
      /\ entry.proposer = note[n].proposer /\ entry.after = note[n].after
    BY <1>1 DEF Entries, NoteStatuses, Anybody
<1>3. copy' = [copy EXCEPT ![t] = [of |-> n, entry |-> entry]] /\ UNCHANGED <<note, dispute, swap>>
    BY DEF ReadNote
<1>4. LedgerTypeOK' BY <1>1, <1>2, <1>3 DEF LedgerInv, LedgerTypeOK
<1>5. CopiesTrue'
    BY <1>1, <1>2, <1>3 DEF LedgerInv, CopiesTrue, ReadNote
<1>6. JudgedByAnother' /\ HeadsUndisputed' /\ HeadsFew'
    BY <1>3 DEF LedgerInv, JudgedByAnother, HeadsUndisputed, HeadsFew, Heads, Disputed, Free
<1> QED BY <1>4, <1>5, <1>6 DEF LedgerInv

\* A late review may take a head away, but makes none.
LEMMA WriteKeeps ==
    ASSUME LedgerInv, NEW t \in Readers, WriteReview(t)
    PROVE  LedgerInv'
<1> DEFINE n == copy[t].of
           entry == copy[t].entry
<1>1. /\ note \in [Notes -> Entries] /\ n \in Notes /\ entry \in Entries
      /\ entry.status = "REVIEWED" /\ entry.reviewer # entry.proposer
      /\ entry.after = note[n].after
      /\ copy \in [Readers -> [of : Notes \cup {NoNote}, entry : Entries]]
    BY DEF WriteReview, LedgerInv, LedgerTypeOK, CopiesTrue
<1>2. /\ note' = [note EXCEPT ![n] = entry] /\ copy' = [copy EXCEPT ![t] = NoCopy]
      /\ UNCHANGED <<dispute, swap>>
    BY DEF WriteReview
<1>3. \A m \in Notes : note'[m] = IF m = n THEN entry ELSE note[m] BY <1>1, <1>2
<1>4. \A m \in Notes : note'[m].after = note[m].after BY <1>1, <1>3
<1>5. Heads' \subseteq Heads BY <1>1, <1>3 DEF Heads
<1>6. NoCopy \in [of : Notes \cup {NoNote}, entry : Entries]
    BY DEF NoCopy, Unproposed, Entries, NoteStatuses, Anybody
<1>7. LedgerTypeOK' BY <1>1, <1>2, <1>6 DEF LedgerInv, LedgerTypeOK
<1>8. JudgedByAnother' BY <1>1, <1>3 DEF LedgerInv, JudgedByAnother
<1>9. CopiesTrue'
    <2> SUFFICES ASSUME NEW u \in Readers, copy'[u] # NoCopy
                 PROVE  /\ copy'[u].of \in Notes
                        /\ note'[copy'[u].of].status # "none"
                        /\ copy'[u].entry.status = "REVIEWED"
                        /\ copy'[u].entry.reviewer # copy'[u].entry.proposer
                        /\ copy'[u].entry.after = note'[copy'[u].of].after
        BY DEF CopiesTrue
    <2>1. u # t /\ copy'[u] = copy[u] BY <1>1, <1>2
    <2> QED BY <2>1, <1>1, <1>3, <1>4 DEF LedgerInv, CopiesTrue
<1>10. HeadsUndisputed' BY <1>2, <1>5 DEF LedgerInv, HeadsUndisputed, Disputed
<1>11. HeadsFew'
    <2>1. CASE Free BY <2>1, <1>2, <1>5 DEF LedgerInv, HeadsFew, Free
    <2>2. CASE ~ Free
        <3>1. swap \in Notes BY <2>2 DEF Free, LedgerInv, LedgerTypeOK
        <3> QED BY <2>2, <3>1, <1>1, <1>2, <1>3, <1>4, <1>5 DEF LedgerInv, HeadsFew, Free
    <2> QED BY <2>1, <2>2
<1> QED BY <1>7, <1>8, <1>9, <1>10, <1>11 DEF LedgerInv

\* An approval sees that its predecessor is the only head, under the lock.
LEMMA ApproveKeeps ==
    ASSUME LedgerInv, NEW n \in Notes, NEW judge \in Judges, NEW policy \in Policies,
           ApproveNote(n, judge, policy)
    PROVE  LedgerInv'
<1> DEFINE new == [note[n] EXCEPT !.status = "APPROVED", !.approver = judge]
<1>1. note \in [Notes -> Entries] /\ note[n] \in Entries BY DEF LedgerInv, LedgerTypeOK
<1>2. /\ note' = [note EXCEPT ![n] = new] /\ UNCHANGED <<dispute, copy>> /\ Free
      /\ swap' = IF note[n].after = NoNote THEN NoNote ELSE n
      /\ note[n].status = "REVIEWED" /\ ~ Disputed(n) /\ Heads = {note[n].after} \ {NoNote}
    BY <1>1 DEF ApproveNote, HeadAgrees, Entries
<1>3. /\ new \in Entries /\ new.status = "APPROVED" /\ new.after = note[n].after
      /\ new.reviewer = note[n].reviewer /\ new.proposer = note[n].proposer
    BY <1>1 DEF Entries, NoteStatuses, Anybody
<1>4. \A m \in Notes : note'[m] = IF m = n THEN new ELSE note[m] BY <1>1, <1>2
<1>5. Heads' = Heads \cup {n} BY <1>3, <1>4 DEF Heads
<1>6. LedgerTypeOK' BY <1>1, <1>2, <1>3 DEF LedgerInv, LedgerTypeOK
<1>7. JudgedByAnother' BY <1>2, <1>3, <1>4 DEF LedgerInv, JudgedByAnother
<1>8. CopiesTrue' BY <1>2, <1>3, <1>4 DEF LedgerInv, CopiesTrue
<1>9. HeadsUndisputed' BY <1>2, <1>5 DEF LedgerInv, HeadsUndisputed, Disputed
<1>10. HeadsFew'
    <2>1. CASE note[n].after = NoNote
        BY <2>1, <1>2, <1>5 DEF HeadsFew, Free
    <2>2. CASE note[n].after # NoNote
        <3>1. note[n].after \in Notes BY <2>2, <1>1 DEF Entries
        <3>2. swap' = n /\ n # NoNote BY <2>2, <1>2, LedgerAssumption
        <3>3. note[note[n].after].status = "APPROVED" BY <2>2, <1>2 DEF Heads
        <3> QED BY <2>2, <3>1, <3>2, <3>3, <1>2, <1>3, <1>4, <1>5 DEF HeadsFew, Free
    <2> QED BY <2>1, <2>2
<1> QED BY <1>6, <1>7, <1>8, <1>9, <1>10 DEF LedgerInv

\* The second write of an approval leaves one head.
LEMMA RetireKeeps == ASSUME LedgerInv, RetirePredecessor PROVE LedgerInv'
<1>1. note \in [Notes -> Entries] /\ swap \in Notes
    BY DEF LedgerInv, LedgerTypeOK, RetirePredecessor
<1>2. PICK before \in Notes :
          /\ before = note[swap].after
          /\ note' = [note EXCEPT ![before].status = "SUPERSEDED"]
    BY DEF RetirePredecessor
<1>3. UNCHANGED <<dispute, copy>> /\ swap' = NoNote /\ ~ Free BY DEF RetirePredecessor, Free
<1> DEFINE old == [note[before] EXCEPT !.status = "SUPERSEDED"]
<1>4. /\ old \in Entries /\ old.status = "SUPERSEDED" /\ old.after = note[before].after
      /\ old.reviewer = note[before].reviewer /\ old.proposer = note[before].proposer
    BY <1>1 DEF Entries, NoteStatuses
<1>5. \A m \in Notes : note'[m] = IF m = before THEN old ELSE note[m] BY <1>1, <1>2
<1>6. Heads' = Heads \ {before} BY <1>4, <1>5 DEF Heads
<1>7. LedgerTypeOK' BY <1>1, <1>2, <1>3, <1>4 DEF LedgerInv, LedgerTypeOK
<1>8. note[before].status \notin {"none", "PROPOSED"} /\ Heads \subseteq {swap, before}
    BY <1>2, <1>3 DEF LedgerInv, HeadsFew
<1>9. JudgedByAnother' BY <1>4, <1>5, <1>8 DEF LedgerInv, JudgedByAnother
<1>10. CopiesTrue' BY <1>3, <1>4, <1>5 DEF LedgerInv, CopiesTrue
<1>11. HeadsUndisputed' BY <1>3, <1>6 DEF LedgerInv, HeadsUndisputed, Disputed
<1>12. HeadsFew' BY <1>3, <1>6, <1>8 DEF HeadsFew, Free
<1> QED BY <1>7, <1>9, <1>10, <1>11, <1>12 DEF LedgerInv

\* A decision on a conflict closes a dispute and opens none.
LEMMA ResolveKeeps ==
    ASSUME LedgerInv, NEW leader \in Notes, NEW proposed \in Notes, NEW resolution \in Notes,
           NEW judge \in Judges, NEW policy \in Policies,
           ResolveConflict(leader, proposed, resolution, judge, policy)
    PROVE  LedgerInv'
<1>1. /\ dispute' = [dispute EXCEPT ![<<leader, proposed>>] = "resolved"]
      /\ UNCHANGED <<note, copy, swap>>
    BY DEF ResolveConflict
<1>2. dispute \in [Notes \X Notes -> {"none", "open", "resolved"}]
    BY DEF LedgerInv, LedgerTypeOK
<1>3. LedgerTypeOK' BY <1>1, <1>2 DEF LedgerInv, LedgerTypeOK
<1>4. \A n \in Notes : Disputed(n)' => Disputed(n) BY <1>1, <1>2 DEF Disputed
<1>5. HeadsUndisputed' BY <1>1, <1>4 DEF LedgerInv, HeadsUndisputed, Heads
<1>6. JudgedByAnother' /\ CopiesTrue' /\ HeadsFew'
    BY <1>1 DEF LedgerInv, JudgedByAnother, CopiesTrue, HeadsFew, Heads, Free
<1> QED BY <1>3, <1>5, <1>6 DEF LedgerInv

\* A revocation or expiry takes the only leader away.
LEMMA EndKeeps ==
    ASSUME LedgerInv, NEW n \in Notes, NEW judge \in Judges, NEW policy \in Policies,
           NEW status \in {"REVOKED", "EXPIRED"}, EndNote(n, judge, policy, status)
    PROVE  LedgerInv'
<1> DEFINE new == [note[n] EXCEPT !.status = status]
<1>1. /\ note \in [Notes -> Entries] /\ note[n] \in Entries /\ note[n].status = "APPROVED"
      /\ note' = [note EXCEPT ![n] = new] /\ UNCHANGED <<dispute, copy, swap>> /\ Free
    BY DEF LedgerInv, LedgerTypeOK, EndNote
<1>2. /\ new \in Entries /\ new.status = status /\ new.after = note[n].after
      /\ new.reviewer = note[n].reviewer /\ new.proposer = note[n].proposer
    BY <1>1 DEF Entries, NoteStatuses
<1>3. \A m \in Notes : note'[m] = IF m = n THEN new ELSE note[m] BY <1>1
<1>4. Heads' \subseteq Heads BY <1>2, <1>3 DEF Heads
<1>5. LedgerTypeOK' BY <1>1, <1>2 DEF LedgerInv, LedgerTypeOK
<1>6. JudgedByAnother' BY <1>1, <1>2, <1>3 DEF LedgerInv, JudgedByAnother
<1>7. CopiesTrue' BY <1>1, <1>2, <1>3 DEF LedgerInv, CopiesTrue
<1>8. HeadsUndisputed' BY <1>1, <1>4 DEF LedgerInv, HeadsUndisputed, Disputed
<1>9. HeadsFew' BY <1>1, <1>4 DEF LedgerInv, HeadsFew, Free
<1> QED BY <1>5, <1>6, <1>7, <1>8, <1>9 DEF LedgerInv

\* Every step keeps the invariant.
LEMMA LedgerStep == ASSUME LedgerInv, [BookNext]_ledgerBookVars PROVE LedgerInv'
<1>1. CASE BookNext
    BY <1>1, ProposeKeeps, ReadKeeps, WriteKeeps, ApproveKeeps, RetireKeeps, ResolveKeeps, EndKeeps
       DEF BookNext
<1>2. CASE UNCHANGED ledgerBookVars
    BY <1>2 DEF ledgerBookVars, LedgerInv, LedgerTypeOK, JudgedByAnother, CopiesTrue,
                HeadsUndisputed, HeadsFew, Heads, Disputed, Free
<1> QED BY <1>1, <1>2

\* Readers of the approved knowledge see one authoritative revision, or the two
\* that an approval is exchanging, each reviewed by another than its proposer and
\* none in an open conflict: for any number of threads in review, whatever the
\* policies permit, and although a review may write back long after it has read.
THEOREM AuthorityIsOne == BookSpec => []OneAuthority
<1>1. LedgerInv => OneAuthority
  <2> SUFFICES ASSUME LedgerInv PROVE OneAuthority
      OBVIOUS
  <2>1. ASSUME Free PROVE Cardinality(Heads) <= 1
    <3>1. CASE Heads = {} BY <3>1, FS_EmptySet
    <3>2. CASE Heads # {}
      <4>1. PICK h : h \in Heads BY <3>2
      <4>2. \A k \in Heads : k = h BY <2>1, <4>1 DEF LedgerInv, HeadsFew
      <4>3. Heads = {h} BY <4>1, <4>2
      <4> QED BY <4>3, FS_Singleton
    <3> QED BY <3>1, <3>2
  <2>2. \A n \in Heads : ~ Disputed(n) /\ note[n].reviewer # note[n].proposer
      BY DEF LedgerInv, HeadsUndisputed, JudgedByAnother, Heads
  <2> QED BY <2>1, <2>2 DEF LedgerInv, HeadsFew, OneAuthority
<1> QED BY <1>1, BookInitSound, LedgerStep, PTL DEF BookSpec

-----------------------------------------------------------------------------
(***************************************************************************)
(* The effect intents of ContextCompiler                                   *)
(***************************************************************************)

HolderOK ==
    /\ holder = [token |-> holder.token, revision |-> holder.revision, until |-> holder.until]
    /\ holder.token \in Nat /\ holder.revision \in Nat

\* What was prepared under a claim and at a revision not past the present ones.
Past(intent) ==
    /\ intent.authority.token \in Nat /\ intent.authority.token <= holder.token
    /\ intent.authority.revision \in Nat /\ intent.authority.revision <= holder.revision

IntentsInv ==
    /\ HolderOK
    /\ \E S : intents \in Seq(S)
    /\ \A i \in 1 .. Len(intents) : Past(intents[i])
    /\ IntentsInClaimOrder

\* Nothing is prepared at first.
LEMMA InitIntents == ContextInit => IntentsInv
<1> SUFFICES ASSUME ContextInit PROVE IntentsInv
    OBVIOUS
<1>1. holder = [token |-> 1, revision |-> 1, until |-> ClaimTime] /\ intents = <<>>
    BY DEF ContextInit
<1>2. intents \in Seq({}) /\ Len(intents) = 0 BY <1>1
<1> QED BY <1>1, <1>2 DEF IntentsInv, IntentsInClaimOrder, HolderOK

\* The claim and the revision move on and never back.
LEMMA HolderStep ==
    ASSUME IntentsInv, [ContextNext]_contextVars
    PROVE /\ HolderOK'
          /\ holder.token <= holder'.token /\ holder.revision <= holder'.revision
<1>1. CASE UNCHANGED holder BY <1>1 DEF IntentsInv, HolderOK
<1>2. CASE ClaimMoves
  <2>1. holder' = [token |-> holder.token + 1, revision |-> holder.revision,
                   until |-> clock + ClaimTime]
      BY <1>2 DEF ClaimMoves, IntentsInv, HolderOK
  <2> QED BY <2>1 DEF IntentsInv, HolderOK
<1>3. CASE RevisionMoves BY <1>3 DEF RevisionMoves, IntentsInv, HolderOK
<1> QED
    BY <1>1, <1>2, <1>3
       DEF ContextNext, contextVars, Compile, RefuseCompile, Project, WriteHandoff,
           VerifyHandoff, PrepareEffect, HourPasses

\* A sequence keeps its elements when one is appended.
LEMMA Appended ==
    ASSUME NEW S, NEW q \in Seq(S), NEW x
    PROVE /\ Append(q, x) \in Seq(S \cup {x}) /\ Len(Append(q, x)) = Len(q) + 1
          /\ Len(q) \in Nat
          /\ Append(q, x)[Len(q) + 1] = x
          /\ \A i \in 1 .. Len(q) : Append(q, x)[i] = q[i]
<1>1. q \in Seq(S \cup {x}) OBVIOUS
<1> QED BY <1>1

\* An intent is only prepared with the authority of the claim in force.
LEMMA IntentsStep ==
    ASSUME IntentsInv, [ContextNext]_contextVars
    PROVE IntentsInv'
<1>1. CASE UNCHANGED intents
  <2>1. (\A i \in 1 .. Len(intents) : Past(intents[i]))'
      BY <1>1, HolderStep DEF IntentsInv, HolderOK, Past
  <2>2. IntentsInClaimOrder' BY <1>1 DEF IntentsInv, IntentsInClaimOrder
  <2> QED BY <1>1, <2>1, <2>2, HolderStep DEF IntentsInv
<1>2. ASSUME NEW p \in projected, NEW h \in handoffs, PrepareEffect(p, h)
      PROVE IntentsInv'
  <2> DEFINE new == [adapter |-> p.adapter, manifest |-> p.manifest, by |-> h.authority,
                     authority |-> p.authority]
             last == Len(intents) + 1
  <2>1. intents' = Append(intents, new) /\ UNCHANGED holder
        /\ new.authority = [token |-> holder.token, revision |-> holder.revision]
      BY <1>2 DEF PrepareEffect, Stands, Authority
  <2>2. PICK S : intents \in Seq(S) BY DEF IntentsInv
  <2> HIDE DEF new
  <2>3. /\ intents' \in Seq(S \cup {new}) /\ Len(intents') = last /\ Len(intents) \in Nat
        /\ intents'[last] = new /\ \A i \in 1 .. Len(intents) : intents'[i] = intents[i]
      BY <2>1, <2>2, Appended
  <2>4. \A i \in 1 .. last : i = last \/ i \in 1 .. Len(intents) BY <2>3
  <2>5. (\A i \in 1 .. Len(intents) : Past(intents[i]))'
    <3> SUFFICES ASSUME NEW i \in 1 .. last
                 PROVE LET made == intents'[i].authority IN
                       /\ made.token \in Nat /\ made.token <= holder.token
                       /\ made.revision \in Nat /\ made.revision <= holder.revision
        BY <2>1, <2>3 DEF Past
    <3>1. CASE i = last BY <2>1, <2>3, <3>1 DEF IntentsInv, HolderOK
    <3>2. CASE i \in 1 .. Len(intents) BY <2>3, <3>2 DEF IntentsInv, Past
    <3> QED BY <2>4, <3>1, <3>2
  <2>6. IntentsInClaimOrder'
    <3> SUFFICES ASSUME NEW i \in 1 .. last, NEW j \in 1 .. last, i < j
                 PROVE /\ intents'[i].authority.token <= intents'[j].authority.token
                       /\ intents'[i].authority.revision <= intents'[j].authority.revision
        BY <2>3 DEF IntentsInClaimOrder
    <3>1. i \in 1 .. Len(intents) BY <2>3
    <3>2. CASE j = last BY <2>1, <2>3, <3>1, <3>2 DEF IntentsInv, Past
    <3>3. CASE j # last BY <2>3, <3>1, <3>3 DEF IntentsInv, IntentsInClaimOrder
    <3> QED BY <3>2, <3>3
  <2> QED BY <2>3, <2>5, <2>6, HolderStep DEF IntentsInv
<1> QED
    BY <1>1, <1>2 DEF ContextNext, contextVars, Compile, RefuseCompile, Project, WriteHandoff,
                      VerifyHandoff, HourPasses, ClaimMoves, RevisionMoves

\* The effect intents of one work item come in the order of its claims and of the
\* revisions they expect, whatever is compiled, projected and handed over, and
\* whatever the agents whose claims were taken over still hold.
THEOREM IntentsOrdered == ContextSpec => []IntentsInClaimOrder
<1>1. IntentsInv => IntentsInClaimOrder BY DEF IntentsInv
<1> QED BY <1>1, InitIntents, IntentsStep, PTL DEF ContextSpec
-----------------------------------------------------------------------------
(***************************************************************************)
(* What ContextCompiler selects                                            *)
(***************************************************************************)

\* A total cost is a number, and one more item adds its cost.
LEMMA CostAdds ==
    ASSUME NEW S
    PROVE /\ TotalCost(S) \in Nat
          /\ \A s \in Sources \ S : TotalCost(S \cup {s}) = TotalCost(S) + Catalog[s].cost
<1> DEFINE N == Len(Catalog)
           cost == [s \in Sources |-> Catalog[s].cost]
<1>1. N \in Nat /\ Sources = 1 .. N /\ \A n \in 1 .. N : Catalog[n].cost \in Nat
    BY CatalogAssumption DEF Sources
<1>2. cost \in [1 .. N -> Nat] BY <1>1
<1>3. \A R : TotalCost(R) = SumOver(cost, R) BY DEF TotalCost
<1> HIDE DEF N
<1>4. \A s \in 1 .. N : cost[s] = Catalog[s].cost BY <1>1
<1>5. N \in Nat BY <1>1
<1> HIDE DEF cost
<1>6. /\ SumOver(cost, S) \in Nat
      /\ \A s \in (1 .. N) \ S : SumOver(cost, S \cup {s}) = SumOver(cost, S) + cost[s]
    BY <1>2, <1>5, SumAdds
<1> QED BY <1>1, <1>3, <1>4, <1>6

\* Sources are finitely many.
LEMMA SourcesFinite == \A S \in SUBSET Sources : IsFiniteSet(S)
<1>1. IsFiniteSet(1 .. Len(Catalog)) BY CatalogAssumption, FS_Interval
<1> QED BY <1>1, CatalogAssumption, FS_Subset DEF Sources

\* Winners are of different things, and none is one that is never loaded.
Distinguished(winners) ==
    /\ winners \subseteq Sources
    /\ \A s \in winners : Catalog[s].tier # "NEVER_AUTO_LOAD"
    /\ \A s, t \in winners : Catalog[s].logical = Catalog[t].logical => s = t

\* The optional winners are offered in a strict total order.
LEMMA OffersOrdered ==
    ASSUME NEW winners, Distinguished(winners)
    PROVE LET optional == winners \ Mandatory(winners) IN
          Orders({p \in optional \X optional : Offered(p[1], p[2])}, optional)
<1> DEFINE optional == winners \ Mandatory(winners)
           before == {p \in optional \X optional : Offered(p[1], p[2])}
           tier(s) == Catalog[s].tier
           score(s) == Catalog[s].score
           logical(s) == Catalog[s].logical
<1>1. \A s, t \in optional : <<s, t>> \in before <=> Offered(s, t) OBVIOUS
<1>2. \A s \in optional : /\ tier(s) \in {"SHOULD_LOAD_IF_RELEVANT", "RETRIEVE_ON_DEMAND"}
                          /\ score(s) \in Nat /\ logical(s) \in Nat
    BY CatalogAssumption DEF Distinguished, Mandatory, Tiers
<1>3. \A s, t \in optional : logical(s) = logical(t) => s = t BY DEF Distinguished
<1>4. \A s, t \in optional :
         Offered(s, t) <=> \/ tier(s) = "SHOULD_LOAD_IF_RELEVANT" /\ tier(t) # tier(s)
                           \/ tier(s) = tier(t) /\ score(s) > score(t)
                           \/ tier(s) = tier(t) /\ score(s) = score(t) /\ logical(s) < logical(t)
    BY DEF Offered
<1> HIDE DEF optional, before, tier, score, logical
<1>5. \A s \in optional : ~ Offered(s, s) BY <1>2, <1>4
<1>6. \A s, t, u \in optional : Offered(s, t) /\ Offered(t, u) => Offered(s, u) BY <1>2, <1>4
<1>7. \A s, t \in optional : s = t \/ Offered(s, t) \/ Offered(t, s) BY <1>2, <1>3, <1>4
<1>8. Orders(before, optional) BY <1>1, <1>5, <1>6, <1>7 DEF Orders
<1> QED BY <1>8 DEF optional, before

\* The selection holds what is mandatory and fits; what it leaves out would not have fitted.
LEMMA SelectedFits ==
    ASSUME NEW winners, Distinguished(winners), NEW available \in Int,
           TotalCost(Mandatory(winners)) <= available
    PROVE LET chosen == Selected(winners, available) IN
          /\ Mandatory(winners) \subseteq chosen /\ chosen \subseteq winners
          /\ TotalCost(chosen) <= available
          /\ \A s \in winners \ chosen : Catalog[s].cost > available - TotalCost(chosen)
<1> DEFINE mandatory == Mandatory(winners)
           optional == winners \ mandatory
           before == {p \in optional \X optional : Offered(p[1], p[2])}
           offers == InOrder(optional, before)
           N == Cardinality(optional)
           start == [items |-> mandatory, left |-> available - TotalCost(mandatory)]
           taken[n \in 0 .. N] == IF n = 0 THEN start ELSE Fill(taken[n - 1], offers[n])
<1>1. winners \subseteq Sources /\ mandatory \subseteq winners
    BY DEF Distinguished, Mandatory
<1>2. \A s \in winners : Catalog[s].cost \in Nat BY <1>1, CatalogAssumption
<1>3. /\ N \in Nat /\ offers \in [1 .. N -> optional]
      /\ \A s \in optional : \E n \in 1 .. N : offers[n] = s
      /\ \A i, j \in 1 .. N : i < j => offers[i] # offers[j]
  <2>1. IsFiniteSet(optional) BY <1>1, SourcesFinite
  <2>2. Orders(before, optional) BY OffersOrdered
  <2> HIDE DEF before, optional
  <2>3. /\ N \in Nat /\ offers \in [1 .. N -> optional]
        /\ \A s \in optional : \E n \in 1 .. N : offers[n] = s
        /\ Ascends(offers, before)
      BY <2>1, <2>2, InOrderLists
  <2> HIDE DEF offers, N
  <2> QED BY <2>3 DEF Ascends
<1>4. Selected(winners, available) = taken[N].items BY DEF Selected
<1> DEFINE X == [items : SUBSET winners, left : Int]
           step == [p \in X \X (1 .. N) |-> Fill(p[1], offers[p[2]])]
<1>5. start \in X BY <1>1, CostAdds
<1> HIDE DEF N, offers, start
<1>6. ASSUME NEW x \in X, NEW n \in 1 .. N PROVE Fill(x, offers[n]) \in X
  <2>1. offers[n] \in winners BY <1>3
  <2> QED BY <1>2, <2>1 DEF Fill
<1>7. step \in [X \X (1 .. N) -> X] BY <1>6
<1>8. PICK f \in [0 .. N -> X] : /\ f[0] = start
                                 /\ \A n \in 1 .. N : f[n] = step[<<f[n - 1], n>>]
  <2> HIDE DEF step, X
  <2>1. N \in Nat BY <1>3
  <2>2. \E f : Run(f, N, X, start, step) BY <2>1, <1>5, <1>7, LoopRuns
  <2> QED BY <2>2 DEF Run
<1>9. \A n \in 1 .. N : f[n] = Fill(f[n - 1], offers[n])
  <2> SUFFICES ASSUME NEW n \in 1 .. N PROVE f[n] = Fill(f[n - 1], offers[n])
      OBVIOUS
  <2>1. n - 1 \in 0 .. N /\ f[n - 1] \in X BY <1>3
  <2> HIDE DEF X
  <2> QED BY <1>8, <2>1
<1>10. f = [n \in 0 .. N |-> IF n = 0 THEN start ELSE Fill(f[n - 1], offers[n])]
  <2> HIDE DEF X
  <2> QED BY <1>3, <1>8, <1>9
<1>11. taken = [n \in 0 .. N |-> IF n = 0 THEN start ELSE Fill(taken[n - 1], offers[n])]
    BY <1>10
<1> HIDE DEF taken, X, step
<1>12. taken[0] = start /\ \A n \in 1 .. N : taken[n] = Fill(taken[n - 1], offers[n])
    BY <1>3, <1>11
<1> DEFINE Offer(k, x) == offers[k] \in x.items \/ Catalog[offers[k]].cost > x.left
           Good(n) == /\ taken[n] \in X /\ mandatory \subseteq taken[n].items
                      /\ taken[n].left = available - TotalCost(taken[n].items)
                      /\ taken[n].left >= 0
                      /\ \A s \in taken[n].items : s \in mandatory \/ \E k \in 1 .. n : offers[k] = s
                      /\ \A k \in 1 .. n : Offer(k, taken[n])
           T == {n \in 0 .. N : Good(n)}
<1>13. 0 \in T
  <2>1. TotalCost(mandatory) \in Nat BY CostAdds
  <2>2. start.items = mandatory /\ start.left = available - TotalCost(mandatory) BY DEF start
  <2>3. 0 \in 0 .. N BY <1>3
  <2> QED BY <1>5, <1>12, <2>1, <2>2, <2>3
<1>14. ASSUME NEW n \in 1 .. N, n - 1 \in T PROVE n \in T
  <2> DEFINE x == taken[n - 1]
             y == taken[n]
             s == offers[n]
  <2>1. y = Fill(x, s) BY <1>12
  <2>2. Good(n - 1) BY <1>14
  <2>3. /\ x \in X /\ mandatory \subseteq x.items
        /\ x.left = available - TotalCost(x.items) /\ x.left >= 0
        /\ \A t \in x.items : t \in mandatory \/ \E k \in 1 .. n - 1 : offers[k] = t
        /\ \A k \in 1 .. n - 1 : Offer(k, x)
      BY <2>2
  <2>4. s \in optional /\ Catalog[s].cost \in Nat /\ s \in Sources /\ s \notin mandatory
      BY <1>1, <1>2, <1>3
  <2>5. s \notin x.items
    <3>1. \A k \in 1 .. n - 1 : offers[k] # s BY <1>3
    <3> QED BY <2>3, <2>4, <3>1
  <2>6. x.items \subseteq winners /\ x.left \in Int /\ TotalCost(x.items) \in Nat
      BY <2>3, CostAdds DEF X
  <2>7. y \in X BY <1>6, <2>1, <2>3
  <2>8. CASE Catalog[s].cost <= x.left
    <3>1. y = [items |-> x.items \cup {s}, left |-> x.left - Catalog[s].cost]
        BY <2>1, <2>8 DEF Fill
    <3>2. y.items = x.items \cup {s} /\ y.left = x.left - Catalog[s].cost BY <3>1
    <3>3. TotalCost(y.items) = TotalCost(x.items) + Catalog[s].cost
        BY <2>4, <2>5, <3>2, CostAdds
    <3> HIDE DEF x, y
    <3>4. y.left = available - TotalCost(y.items) /\ y.left >= 0
        BY <2>3, <2>4, <2>6, <2>8, <3>2, <3>3
    <3>5. \A k \in 1 .. n - 1 : Offer(k, y)
      <4> SUFFICES ASSUME NEW k \in 1 .. n - 1 PROVE Offer(k, y)
          OBVIOUS
      <4>1. k \in 1 .. N /\ offers[k] \in winners BY <1>3
      <4> QED BY <1>2, <2>3, <2>4, <2>6, <3>2, <4>1
    <3>6. \A k \in 1 .. n : Offer(k, y)
      <4>1. \A k \in 1 .. n : k = n \/ k \in 1 .. n - 1 OBVIOUS
      <4>2. s \in y.items BY <3>2
      <4> QED BY <3>5, <4>1, <4>2
    <3>7. \A t \in y.items : t \in mandatory \/ \E k \in 1 .. n : offers[k] = t
      <4>1. n \in 1 .. n OBVIOUS
      <4> QED BY <2>3, <3>2, <4>1
    <3>8. mandatory \subseteq y.items BY <2>3, <3>2
    <3>9. Good(n) BY <2>7, <3>4, <3>6, <3>7, <3>8 DEF y
    <3> HIDE DEF Good
    <3> QED BY <3>9
  <2>9. CASE ~ (Catalog[s].cost <= x.left)
    <3>1. y = x BY <2>1, <2>9 DEF Fill
    <3>2. Catalog[s].cost > x.left BY <2>4, <2>6, <2>9
    <3> HIDE DEF x, y
    <3>3. \A k \in 1 .. n : k = n \/ k \in 1 .. n - 1 OBVIOUS
    <3>4. \A k \in 1 .. n : Offer(k, y) BY <2>3, <3>1, <3>2, <3>3
    <3>5. Good(n) BY <2>3, <3>1, <3>4 DEF y
    <3> HIDE DEF Good
    <3> QED BY <3>5
  <2> QED BY <2>8, <2>9
<1>15. N \in T
  <2> HIDE DEF T
  <2>1. N \in Nat /\ N \in 0 .. N BY <1>3
  <2> QED BY <2>1, <1>13, <1>14, Upwards
<1> DEFINE chosen == taken[N].items
<1>16. /\ taken[N] \in X /\ mandatory \subseteq chosen
       /\ taken[N].left = available - TotalCost(chosen) /\ taken[N].left >= 0
       /\ \A k \in 1 .. N : Offer(k, taken[N])
    BY <1>15
<1>17. chosen \subseteq winners /\ taken[N].left \in Int /\ TotalCost(chosen) \in Nat
    BY <1>16, CostAdds DEF X
<1>18. ASSUME NEW s \in winners \ chosen PROVE Catalog[s].cost > available - TotalCost(chosen)
  <2>1. s \in optional BY <1>16, <1>18
  <2>2. PICK k \in 1 .. N : offers[k] = s BY <1>3, <2>1
  <2> QED BY <1>16, <1>18, <2>2
<1>19. TotalCost(chosen) <= available BY <1>16, <1>17
<1> QED BY <1>4, <1>16, <1>17, <1>18, <1>19

\* A request within the catalog.
RequestOK(req) ==
    /\ req.items \subseteq Sources /\ req.policy.remote \in BOOLEAN
    /\ {req.budget.window, req.budget.output, req.budget.margin} \subseteq Nat

\* What is eligible is what the request calls for.
LEMMA EligibleIsDue ==
    ASSUME NEW req, RequestOK(req), NEW s \in req.items
    PROVE s \in Eligible(req) <=> Due(s, req)
<1>1. /\ s \in Sources /\ Catalog[s].tier \in Tiers /\ Catalog[s].state \in ItemStates
      /\ Catalog[s].score \in Nat
    BY CatalogAssumption DEF RequestOK
<1>2. s \in SupersededIn(req)
        <=> \E t \in req.items : Catalog[t].state = "ACTIVE" /\ s \in Catalog[t].supersedes
    BY DEF SupersededIn
<1>3. s \in Eligible(req) <=> ExclusionReason(s, req) = "none" BY DEF Eligible
<1> QED BY <1>1, <1>2, <1>3 DEF ExclusionReason, Due, Tiers, ItemStates

\* Of two revisions of one thing one is newer.
LEMMA NewerTotal ==
    ASSUME NEW s \in Sources, NEW t \in Sources
    PROVE /\ s = t \/ Newer(s, t) \/ Newer(t, s)
          /\ ~ Newer(s, s)
<1>1. /\ s \in Nat /\ t \in Nat
      /\ Catalog[s].version \in Nat /\ Catalog[t].version \in Nat
      /\ Catalog[s].digest \in Nat /\ Catalog[t].digest \in Nat
    BY CatalogAssumption DEF Sources
<1> QED BY <1>1 DEF Newer

\* The winners are eligible and of different things.
LEMMA WinnersDistinguished ==
    ASSUME NEW req, RequestOK(req)
    PROVE Winners(req) \subseteq Eligible(req) /\ Distinguished(Winners(req))
<1>1. Winners(req) \subseteq Eligible(req) BY DEF Winners, Newest
<1>2. Eligible(req) \subseteq Sources BY DEF Eligible, RequestOK
<1>3. ASSUME NEW s \in Winners(req) PROVE Catalog[s].tier # "NEVER_AUTO_LOAD"
  <2>1. ExclusionReason(s, req) = "none" BY <1>1 DEF Eligible
  <2> QED BY <2>1 DEF ExclusionReason
<1>4. ASSUME NEW s \in Winners(req), NEW t \in Winners(req),
             Catalog[s].logical = Catalog[t].logical
      PROVE s = t
  <2>1. ~ Newer(s, t) /\ ~ Newer(t, s) BY <1>1, <1>4 DEF Winners, Newest
  <2>2. s \in Sources /\ t \in Sources BY <1>1, <1>2
  <2> QED BY <2>1, <2>2, NewerTotal
<1> QED BY <1>1, <1>2, <1>3, <1>4 DEF Distinguished

\* The context lists what was selected.
LEMMA ContextLists ==
    ASSUME NEW S, Distinguished(S)
    PROVE Range(InOrder(S, {p \in S \X S : ContextOrder(p[1], p[2])})) = S
<1> DEFINE before == {p \in S \X S : ContextOrder(p[1], p[2])}
           N == Cardinality(S)
           list == InOrder(S, before)
           logical(s) == Catalog[s].logical
<1>1. \A s, t \in S : <<s, t>> \in before <=> ContextOrder(s, t) OBVIOUS
<1>2. ASSUME NEW s \in S PROVE RoleRank(s) \in Int /\ logical(s) \in Nat
  <2>1. s \in Sources BY DEF Distinguished
  <2>2. Catalog[s].role \in Range(Roles) /\ logical(s) \in Nat BY <2>1, CatalogAssumption
  <2>3. \E i \in DOMAIN Roles : Roles[i] = Catalog[s].role BY <2>2 DEF Range
  <2>4. RoleRank(s) \in DOMAIN Roles BY <2>3 DEF RoleRank, Place
  <2>5. DOMAIN Roles \subseteq Int BY DEF Roles
  <2> QED BY <2>2, <2>4, <2>5
<1>3. \A s, t \in S : logical(s) = logical(t) => s = t BY DEF Distinguished
<1>4. \A s, t \in S : ContextOrder(s, t) <=> \/ RoleRank(s) < RoleRank(t)
                                             \/ RoleRank(s) = RoleRank(t) /\ logical(s) < logical(t)
    BY DEF ContextOrder
<1>5. IsFiniteSet(S) BY SourcesFinite DEF Distinguished
<1> HIDE DEF before, logical
<1>6. \A s \in S : ~ ContextOrder(s, s) BY <1>2, <1>4
<1>7. \A s, t, u \in S : ContextOrder(s, t) /\ ContextOrder(t, u) => ContextOrder(s, u)
    BY <1>2, <1>4
<1>8. \A s, t \in S : s = t \/ ContextOrder(s, t) \/ ContextOrder(t, s) BY <1>2, <1>3, <1>4
<1>9. Orders(before, S) BY <1>1, <1>6, <1>7, <1>8 DEF Orders
<1>10. /\ N \in Nat /\ list \in [1 .. N -> S]
       /\ \A s \in S : \E n \in 1 .. N : list[n] = s
    BY <1>5, <1>9, InOrderLists
<1> HIDE DEF list, N
<1>11. Range(list) = S BY <1>10 DEF Range
<1> QED BY <1>11 DEF list, before

\* What a compiled context promises of a request.
Promised(req, held) ==
    LET left == Available(req.budget) - TotalCost(held) IN
    /\ left >= 0
    /\ \A s \in held : s \in req.items /\ Due(s, req)
    /\ \A s, t \in held : Catalog[s].logical = Catalog[t].logical => s = t
    /\ \A s \in req.items : Critical(s) => s \in held
    /\ \A s \in req.items \ held :
         Due(s, req) =>
           \/ Catalog[s].tier # "MUST_LOAD" /\ Catalog[s].cost > left
           \/ \E t \in req.items : /\ Due(t, req) /\ Newer(t, s)
                                   /\ Catalog[t].logical = Catalog[s].logical

\* A request that is not refused is answered as promised.
LEMMA SelectedAsPromised ==
    ASSUME NEW req, RequestOK(req), ~ Refused(req)
    PROVE LET selected == Selected(Winners(req), Available(req.budget)) IN
          Promised(req, selected) /\ Distinguished(selected)
<1> DEFINE winners == Winners(req)
           available == Available(req.budget)
           selected == Selected(winners, available)
<1>1. available \in Int BY DEF RequestOK, Available
<1>2. /\ ~ CriticalRefused(req) /\ ~ PolicyRefused(req)
      /\ TotalCost(Mandatory(winners)) <= available
  <2>1. ~ (TotalCost(Mandatory(winners)) > available) BY DEF Refused
  <2> HIDE DEF winners, available
  <2>2. TotalCost(Mandatory(winners)) \in Nat BY CostAdds
  <2> QED BY <1>1, <2>1, <2>2 DEF Refused
<1>3. winners \subseteq Eligible(req) /\ Distinguished(winners) BY WinnersDistinguished
<1>4. /\ Mandatory(winners) \subseteq selected /\ selected \subseteq winners
      /\ TotalCost(selected) <= available
      /\ \A s \in winners \ selected : Catalog[s].cost > available - TotalCost(selected)
  <2> HIDE DEF winners, available
  <2> QED BY <1>1, <1>2, <1>3, SelectedFits
<1>5. TotalCost(selected) \in Nat BY CostAdds
<1> HIDE DEF selected
<1>6. Distinguished(selected) BY <1>3, <1>4 DEF Distinguished
<1>7. \A s \in selected : s \in req.items /\ Due(s, req)
  <2>1. Eligible(req) \subseteq req.items BY DEF Eligible
  <2> QED BY <1>3, <1>4, <2>1, EligibleIsDue
<1>8. ASSUME NEW s \in req.items, Critical(s) PROVE s \in selected
  <2>1. /\ Catalog[s].state = "ACTIVE" /\ s \notin SupersededIn(req)
        /\ \A t \in req.items \ {s} : Catalog[t].logical # Catalog[s].logical
      BY <1>2, <1>8 DEF CriticalRefused
  <2>2. s \in Sources /\ Catalog[s].tier = "MUST_LOAD"
      BY <1>8, CatalogAssumption DEF RequestOK
  <2>3. ExclusionReason(s, req) \notin {"provider_classification_policy", "local_only"}
      BY <1>2, <2>2 DEF PolicyRefused
  <2>4. ExclusionReason(s, req) = "none" BY <2>1, <2>2, <2>3 DEF ExclusionReason
  <2>5. s \in Eligible(req) /\ Eligible(req) \subseteq req.items BY <2>4 DEF Eligible
  <2>6. ~ Newer(s, s) BY <2>2, NewerTotal
  <2>7. s \in winners BY <2>1, <2>5, <2>6 DEF Winners, Newest
  <2> QED BY <1>4, <2>2, <2>7 DEF Mandatory
<1>9. ASSUME NEW s \in req.items \ selected, Due(s, req)
      PROVE \/ Catalog[s].tier # "MUST_LOAD" /\ Catalog[s].cost > available - TotalCost(selected)
            \/ \E t \in req.items : /\ Due(t, req) /\ Newer(t, s)
                                    /\ Catalog[t].logical = Catalog[s].logical
  <2>1. s \in Eligible(req) BY <1>9, EligibleIsDue
  <2>2. CASE s \in winners
    <3>1. Catalog[s].cost > available - TotalCost(selected) BY <1>4, <2>2
    <3>2. Catalog[s].tier # "MUST_LOAD" BY <1>4, <2>2 DEF Mandatory
    <3> QED BY <3>1, <3>2
  <2>3. CASE s \notin winners
    <3>1. PICK t \in Eligible(req) : Catalog[t].logical = Catalog[s].logical /\ Newer(t, s)
        BY <2>1, <2>3 DEF Winners, Newest
    <3>2. t \in req.items BY DEF Eligible
    <3>3. Due(t, req) BY <3>2, EligibleIsDue
    <3> QED BY <3>1, <3>2, <3>3
  <2> QED BY <2>2, <2>3
<1>10. available - TotalCost(selected) >= 0 BY <1>1, <1>4, <1>5
<1>11. Promised(req, selected)
  <2> HIDE DEF winners
  <2> QED BY <1>6, <1>7, <1>8, <1>9, <1>10 DEF Promised, Distinguished
<1> QED BY <1>6, <1>11 DEF selected

-----------------------------------------------------------------------------
(***************************************************************************)
(* The compiled contexts                                                   *)
(***************************************************************************)

\* What was compiled was a proper request, and its manifest is what is made of it.
CompiledOK(c) ==
    /\ RequestOK(c.request) /\ ~ Refused(c.request)
    /\ \E attempt : c.manifest = ManifestOf(attempt, c.request)

ContextsInv ==
    /\ refused \in Nat
    /\ \E S : contexts \in Seq(S)
    /\ \A n \in 1 .. Len(contexts) : CompiledOK(contexts[n])

\* Nothing is compiled at first.
LEMMA InitContexts == ContextInit => ContextsInv
<1> SUFFICES ASSUME ContextInit PROVE ContextsInv
    OBVIOUS
<1>1. contexts = <<>> /\ refused = 0 BY DEF ContextInit
<1>2. contexts \in Seq({}) /\ Len(contexts) = 0 BY <1>1
<1> QED BY <1>1, <1>2 DEF ContextsInv

\* A compilation adds what was asked for; nothing else touches the contexts.
LEMMA ContextsStep ==
    ASSUME ContextsInv, [ContextNext]_contextVars
    PROVE ContextsInv'
<1>1. CASE UNCHANGED <<contexts, refused>> BY <1>1 DEF ContextsInv
<1>2. ASSUME refused + Len(contexts) < Len(Asked),
             NEW ask \in Asked[refused + Len(contexts) + 1], NEW req \in Requests(ask),
             Compile(req) \/ RefuseCompile(req)
      PROVE ContextsInv'
  <2>1. PICK S : contexts \in Seq(S) BY DEF ContextsInv
  <2>2. Len(contexts) \in Nat /\ refused \in Nat BY <2>1 DEF ContextsInv
  <2>3. RequestOK(req)
    <3> DEFINE n == refused + Len(contexts) + 1
    <3>1. n \in DOMAIN Asked BY <1>2, <2>2, CatalogAssumption
    <3>2. /\ ask.items \subseteq Sources /\ ask.policy.remote \in BOOLEAN
          /\ {ask.budget.window, ask.budget.output, ask.budget.margin} \subseteq Nat
      <4> HIDE DEF n
      <4>1. ask \in Asked[n] BY <1>2 DEF n
      <4> QED BY <3>1, <4>1, CatalogAssumption
    <3>3. req.items = ask.items /\ req.policy = ask.policy /\ req.budget = ask.budget
        BY <1>2 DEF Requests
    <3> QED BY <3>2, <3>3 DEF RequestOK
  <2>4. CASE Compile(req)
    <3> DEFINE new == [request |-> req, manifest |-> ManifestOf(holder.token, req)]
    <3>1. /\ ~ Refused(req) /\ contexts' = Append(contexts, new) /\ refused' = refused
        BY <2>4 DEF Compile
    <3>2. CompiledOK(new) BY <2>3, <3>1 DEF CompiledOK
    <3> HIDE DEF new
    <3>3. /\ contexts' \in Seq(S \cup {new}) /\ Len(contexts') = Len(contexts) + 1
          /\ contexts'[Len(contexts) + 1] = new
          /\ \A n \in 1 .. Len(contexts) : contexts'[n] = contexts[n]
        BY <2>1, <3>1, Appended
    <3>4. ASSUME NEW n \in 1 .. Len(contexts') PROVE CompiledOK(contexts'[n])
      <4>1. n = Len(contexts) + 1 \/ n \in 1 .. Len(contexts) BY <2>2, <3>3
      <4> QED BY <3>2, <3>3, <4>1 DEF ContextsInv
    <3>5. (\A n \in 1 .. Len(contexts) : CompiledOK(contexts[n]))'
      <4>1. ASSUME NEW n \in 1 .. Len(contexts') PROVE CompiledOK(contexts[n])'
        <5>1. CompiledOK(contexts'[n]) BY <3>4
        <5> QED BY <5>1 DEF CompiledOK
      <4> QED BY <4>1
    <3> QED BY <2>2, <3>1, <3>3, <3>5 DEF ContextsInv
  <2>5. CASE RefuseCompile(req) BY <2>2, <2>5 DEF RefuseCompile, ContextsInv
  <2> QED BY <1>2, <2>4, <2>5
<1> QED
    BY <1>1, <1>2 DEF ContextNext, contextVars, Project, WriteHandoff, VerifyHandoff,
                      PrepareEffect, HourPasses, ClaimMoves, RevisionMoves

\* Every compiled context holds only what its request calls for, within the budget and one
\* revision of each thing; it holds every policy and active work item, and nothing that is
\* called for is missing but what does not fit or is older: for any catalog, requests,
\* policies, budgets and scores.
THEOREM ContextsPromised == ContextSpec => []ContextAsPromised
<1>1. ContextsInv => ContextAsPromised
  <2> SUFFICES ASSUME ContextsInv, NEW n \in 1 .. Len(contexts)
               PROVE Promised(contexts[n].request, Range(contexts[n].manifest.items))
      BY DEF ContextAsPromised, Promised
  <2> DEFINE req == contexts[n].request
             selected == Selected(Winners(req), Available(req.budget))
  <2>1. RequestOK(req) /\ ~ Refused(req) BY DEF ContextsInv, CompiledOK
  <2>2. PICK attempt : contexts[n].manifest = ManifestOf(attempt, req)
      BY DEF ContextsInv, CompiledOK
  <2>3. Promised(req, selected) /\ Distinguished(selected) BY <2>1, SelectedAsPromised
  <2>4. contexts[n].manifest.items
          = InOrder(selected, {p \in selected \X selected : ContextOrder(p[1], p[2])})
      BY <2>2 DEF ManifestOf
  <2> HIDE DEF req, selected
  <2>5. Range(contexts[n].manifest.items) = selected BY <2>3, <2>4, ContextLists
  <2> QED BY <2>3, <2>5 DEF req
<1> QED BY <1>1, InitContexts, ContextsStep, PTL DEF ContextSpec
=============================================================================
