--------------------------- MODULE KnowledgeLedger ---------------------------
(***************************************************************************)
(* The in-memory ledger of context_vault/knowledge.py, for one item and the*)
(* threads that share it.  Every operation but review holds the lock: it is*)
(* one step here, but for the approval, whose two writes a reader without  *)
(* the lock may come between.  A review reads a revision and later writes  *)
(* its whole copy back.  A review whose write an operation under the lock  *)
(* overwrites is one that has not written yet.                             *)
(***************************************************************************)
EXTENDS Naturals, FiniteSets

CONSTANTS
    Notes, NoNote,  \* revisions of the item
    Says,           \* their contents
    Authors,        \* who proposes, models included
    Judges,         \* humans and policies
    Owners,
    PolicyActors,   \* the policies among them
    NobodyYet,
    Policies,       \* what an approval policy may say: [permits, independent]
    Readers         \* threads in review

ASSUME LedgerAssumption ==
    /\ NoNote \notin Notes
    /\ PolicyActors \subseteq Judges
    /\ NobodyYet \notin Authors \cup Judges \cup Owners

VARIABLES
    note,     \* _revisions: status, predecessor, owner and judges of each
    dispute,  \* _conflicts: pairs (existing, proposed), open or resolved
    copy,     \* per thread in review: the revision read, and the reviewer
    swap      \* the revision approved while its predecessor is not yet retired

ledgerBookVars == <<note, dispute, copy, swap>>

Unproposed == [status |-> "none", after |-> NoNote, owner |-> NobodyYet,
               proposer |-> NobodyYet, reviewer |-> NobodyYet, approver |-> NobodyYet]
NoCopy == [of |-> NoNote, entry |-> Unproposed]

BookInit ==
    /\ note = [n \in Notes |-> Unproposed]
    /\ dispute = [pair \in Notes \X Notes |-> "none"]
    /\ copy = [t \in Readers |-> NoCopy]
    /\ swap = NoNote
-----------------------------------------------------------------------------
Free == swap = NoNote  \* nobody holds the lock

Heads == {n \in Notes : note[n].status = "APPROVED"}

\* What the proposal leaves aside and contradicts.
Contradicted(n, after) == {h \in Heads \ {after} : Says[h] # Says[n]}

ProposeNote(n, author, owner, after) ==
    /\ Free
    /\ note[n].status = "none"
    /\ after # NoNote => note[after].status = "APPROVED"
    /\ note' = [note EXCEPT ![n] = [Unproposed EXCEPT !.status = "PROPOSED",
                    !.after = after, !.owner = owner, !.proposer = author]]
    /\ dispute' = [pair \in Notes \X Notes |->
                     IF pair[2] = n /\ pair[1] \in Contradicted(n, after) THEN "open"
                     ELSE dispute[pair]]
    /\ UNCHANGED <<copy, swap>>

\* review, without the lock.
ReadNote(t, n, judge) ==
    /\ copy[t] = NoCopy
    /\ note[n].status = "PROPOSED"
    /\ judge # note[n].proposer
    /\ copy' = [copy EXCEPT ![t] = [of |-> n,
           entry |-> [note[n] EXCEPT !.status = "REVIEWED", !.reviewer = judge]]]
    /\ UNCHANGED <<note, dispute, swap>>

WriteReview(t) ==
    /\ copy[t] # NoCopy
    /\ note' = [note EXCEPT ![copy[t].of] = copy[t].entry]
    /\ copy' = [copy EXCEPT ![t] = NoCopy]
    /\ UNCHANGED <<dispute, swap>>

Disputed(n) == \E h \in Notes : dispute[<<h, n>>] = "open"

\* Mutant: a proposal that names no predecessor is not compared with the heads.
NamedHead(n) == note[n].after # NoNote => Heads = {note[n].after}

\* The predecessor is the only head; there is none without a predecessor.
HeadAgrees(n) == Heads = {note[n].after} \ {NoNote}

ApproveNote(n, judge, policy) ==
    /\ Free
    /\ note[n].status = "REVIEWED"
    /\ judge \in policy.permits
    /\ policy.independent => judge \notin {note[n].proposer, note[n].reviewer}
    /\ ~ Disputed(n)
    /\ HeadAgrees(n)
    /\ note' = [note EXCEPT ![n].status = "APPROVED", ![n].approver = judge]
    /\ swap' = IF note[n].after = NoNote THEN NoNote ELSE n
    /\ UNCHANGED <<dispute, copy>>

\* The second write; nothing else of a retired row is looked at again.
RetirePredecessor ==
    /\ swap # NoNote
    /\ \E before \in Notes :
         /\ before = note[swap].after
         /\ note' = [note EXCEPT ![before].status = "SUPERSEDED"]
    /\ swap' = NoNote
    /\ UNCHANGED <<dispute, copy>>

\* A policy, the owner, the reviewer or the approver, if permitted.
HasAuthority(n, judge, policy) ==
    /\ judge \in policy.permits
    /\ judge \in PolicyActors \cup {note[n].owner, note[n].reviewer, note[n].approver}

ResolveConflict(head, proposed, resolution, judge, policy) ==
    /\ Free
    /\ dispute[<<head, proposed>>] = "open"
    /\ note[head].status = "APPROVED"
    /\ HasAuthority(head, judge, policy)
    /\ note[resolution].status \in {"PROPOSED", "REVIEWED"}
    /\ note[resolution].after = head
    /\ dispute' = [dispute EXCEPT ![<<head, proposed>>] = "resolved"]
    /\ UNCHANGED <<note, copy, swap>>

\* revoke and expire.
EndNote(n, judge, policy, status) ==
    /\ Free
    /\ note[n].status = "APPROVED"
    /\ HasAuthority(n, judge, policy)
    /\ note' = [note EXCEPT ![n].status = status]
    /\ UNCHANGED <<dispute, copy, swap>>

BookNext ==
    \/ \E n \in Notes, author \in Authors, owner \in Owners, after \in Notes \cup {NoNote} :
          ProposeNote(n, author, owner, after)
    \/ \E t \in Readers, n \in Notes, judge \in Judges : ReadNote(t, n, judge)
    \/ \E t \in Readers : WriteReview(t)
    \/ \E n \in Notes, judge \in Judges, policy \in Policies : ApproveNote(n, judge, policy)
    \/ RetirePredecessor
    \/ \E head, proposed, resolution \in Notes, judge \in Judges, policy \in Policies :
          ResolveConflict(head, proposed, resolution, judge, policy)
    \/ \E n \in Notes, judge \in Judges, policy \in Policies, status \in {"REVOKED", "EXPIRED"} :
          EndNote(n, judge, policy, status)

BookSpec == BookInit /\ [][BookNext]_ledgerBookVars
-----------------------------------------------------------------------------
\* What approved_projection shows its readers: at most one revision, but for
\* the two that an approval is exchanging; each one reviewed by another than
\* its proposer, and none contradicting a head it did not replace in a
\* conflict that is still open, although a late review may take any of them
\* back and the lock covers only the other operations.
OneAuthority ==
    /\ IF Free THEN Cardinality(Heads) <= 1
       ELSE Heads \subseteq {swap, note[swap].after}
    /\ \A n \in Heads : ~ Disputed(n) /\ note[n].reviewer # note[n].proposer
=============================================================================
