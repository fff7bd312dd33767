-------------------------- MODULE KnowledgeRegistry --------------------------
(***************************************************************************)
(* application/context_vault_registry.py for one project and one knowledge *)
(* item: the manifest whose approvers decide, the revisions of the item    *)
(* from proposal to approval, the provider and model route, and the        *)
(* compiled contexts bound to work attempts.  Every operation is one       *)
(* transaction of its own session, and one step but for two.               *)
(* approve_knowledge reads its revision before it locks the item, and the  *)
(* later SELECT FOR UPDATE does not refresh that copy: BeginApproval and   *)
(* Approve are two steps.  bind_compiled_context locks the attempt, its    *)
(* work item and its claim, but none of the rows it checks the context     *)
(* against: LockForBinding, CheckSources and StoreBinding are three.       *)
(*                                                                         *)
(* A revision is its content: (item, content_hash) is unique.              *)
(***************************************************************************)
EXTENDS Naturals, FiniteSets

CONSTANTS
    Revisions, NoRevision,
    People,
    Proposers,      \* the people who propose
    Teams,          \* approver sets a manifest may name
    Sessions,       \* of approve_knowledge
    Attempts,
    Contexts,       \* compiled contexts, each the set of revisions it quotes
    Adapters,
    NoPerson, NoContext,
    MaxManifests    \* bound: changes of the manifest

ASSUME KnowledgeAssumption ==
    /\ NoRevision \notin Revisions
    /\ NoPerson \notin People
    /\ Proposers \subseteq People
    /\ Teams \subseteq SUBSET People
    /\ Contexts \subseteq SUBSET Revisions
    /\ NoContext \notin Contexts
    /\ "undrafted" \notin Revisions \cup {NoRevision}
    /\ MaxManifests \in Nat

VARIABLES
    manifest,    \* the ACTIVE project manifest: its version and its approvers
    rev,         \* knowledge_revisions
    head,        \* knowledge_items.active_revision_id
    open,        \* right-hand sides of OPEN knowledge_conflicts
    approval,    \* per session: the revision to approve, as first read
    triggered,   \* a lifecycle or active-head trigger has refused a commit
    route,       \* provider and model row: bound and healthy, or not
    claim,       \* per attempt, its work claim; "overdue" is active with
                 \* expires_at in the past
    binding,     \* per attempt, the bind_compiled_context that holds its locks
    bound        \* context_manifests and compiled_contexts per attempt

workVars == <<claim, binding, bound>>
knowledgeVars == <<manifest, rev, head, open, approval, triggered, route, workVars>>

KnowledgeStatuses == {"none", "PROPOSED", "REVIEWED", "APPROVED", "SUPERSEDED"}
RevisionRows == [status : KnowledgeStatuses, version : Nat,
                 supersedes : Revisions \cup {NoRevision},
                 proposer : People \cup {NoPerson},
                 reviewer : People \cup {NoPerson},
                 approver : People \cup {NoPerson}]
Proposed == {r \in Revisions : rev[r].status # "none"}
NoRevisionRow == [status |-> "none", version |-> 0, supersedes |-> NoRevision,
                  proposer |-> NoPerson, reviewer |-> NoPerson, approver |-> NoPerson]
NoBinding == [step |-> "idle", context |-> NoContext, adapters |-> {}]
NoApproval == [rev |-> NoRevision, status |-> "none", reviewer |-> NoPerson]

KnowledgeInit ==
    /\ manifest = [version |-> 0, approvers |-> {}]
    /\ rev = [r \in Revisions |-> NoRevisionRow]
    /\ head = NoRevision
    /\ open = {}
    /\ approval = [s \in Sessions |-> NoApproval]
    /\ triggered = FALSE
    /\ route = "absent"
    /\ claim = [a \in Attempts |-> "none"]
    /\ binding = [a \in Attempts |-> NoBinding]
    /\ bound = [a \in Attempts |-> [context |-> NoContext, adapters |-> {}]]
-----------------------------------------------------------------------------
\* trg_knowledge_revisions_lifecycle: what a revision is never changes, a row
\* starts PROPOSED, and who judged it changes only with its status.
LifecycleAllows(old, new) ==
    LET sameAudit == old.reviewer = new.reviewer /\ old.approver = new.approver
        step(before, after) == old.status = before /\ new.status = after IN
    \/ step("none", "PROPOSED")
    \/ /\ old.version = new.version
       /\ old.supersedes = new.supersedes
       /\ old.proposer = new.proposer
       /\ \/ old.status = new.status /\ sameAudit
          \/ /\ step("PROPOSED", "REVIEWED")
             /\ new.reviewer # NoPerson
             /\ new.approver = NoPerson
          \/ /\ step("REVIEWED", "APPROVED")
             /\ new.reviewer = old.reviewer
             /\ new.approver # NoPerson
          \/ step("APPROVED", "SUPERSEDED") /\ sameAudit

\* The deferred trigger: the head of the item is its one APPROVED revision.
ActiveHead(rows, h) ==
    /\ h # NoRevision => rows[h].status = "APPROVED"
    /\ \A r \in Revisions : rows[r].status = "APPROVED" => h = r

\* A transaction writes rows, the head and conflicts, or a trigger raises and
\* all of it is undone.
Commit(rows, h, conflicts) ==
    IF (\A r \in Revisions : LifecycleAllows(rev[r], rows[r])) /\ ActiveHead(rows, h)
    THEN /\ rev' = rows
         /\ head' = h
         /\ open' = conflicts
         /\ UNCHANGED triggered
    ELSE /\ triggered' = TRUE
         /\ UNCHANGED <<rev, head, open>>

\* register_project: the same manifest is a replay; another one supersedes.
RegisterProject(approvers) ==
    /\ manifest.version < MaxManifests
    /\ manifest.version = 0 \/ approvers # manifest.approvers
    /\ manifest' = [version |-> manifest.version + 1, approvers |-> approvers]
    /\ UNCHANGED <<rev, head, open, approval, triggered, route, workVars>>

\* A predecessor must be the approved head; a proposal that leaves the head
\* aside while there is one is in conflict with it.
ProposeKnowledge(r, p, predecessor) ==
    /\ rev[r].status = "none"
    /\ predecessor # NoRevision =>
         head = predecessor /\ rev[predecessor].status = "APPROVED"
    /\ Commit([rev EXCEPT ![r] = [NoRevisionRow EXCEPT !.status = "PROPOSED",
                                     !.version = Cardinality(Proposed) + 1,
                                     !.supersedes = predecessor, !.proposer = p]],
              head,
              IF head \notin {NoRevision, predecessor} THEN open \cup {r} ELSE open)
    /\ UNCHANGED <<manifest, approval, route, workVars>>

ReviewKnowledge(r, p) ==
    /\ rev[r].status = "PROPOSED"
    /\ p \in manifest.approvers
    /\ p # rev[r].proposer
    /\ Commit([rev EXCEPT ![r].status = "REVIEWED", ![r].reviewer = p], head, open)
    /\ UNCHANGED <<manifest, approval, route, workVars>>

BeginApproval(s, r) ==
    /\ approval[s] = NoApproval
    /\ rev[r].status # "none"
    /\ approval' = [approval EXCEPT ![s] =
           [rev |-> r, status |-> rev[r].status, reviewer |-> rev[r].reviewer]]
    /\ UNCHANGED <<manifest, rev, head, open, triggered, route, workVars>>

\* Mutant: an approval replaces whatever is the head.
HeadNow(r) == head

\* An approval replaces the revision its proposal named.
Predecessor(r) == rev[r].supersedes

\* Mutant: a proposal that names no predecessor is not compared with the head.
WrittenAgainstPredecessor(r) ==
    LET before == Predecessor(r) IN
    before # NoRevision => rev[before].status = "APPROVED" /\ head = before

\* The head the proposal was written against is still the head.
WrittenAgainstHead(r) ==
    LET before == Predecessor(r) IN
    IF before = NoRevision THEN head = NoRevision
    ELSE rev[before].status = "APPROVED" /\ head = before

\* The policy asks for an approver who neither proposed nor reviewed.
Independent(s, p) ==
    /\ p \in manifest.approvers
    /\ p \notin {rev[approval[s].rev].proposer, approval[s].reviewer}

\* What the code checks after it has locked the item, the status on its copy.
MayApprove(s, p) ==
    LET r == approval[s].rev IN
    /\ approval[s].status = "REVIEWED"
    /\ Independent(s, p)
    /\ r \notin open
    /\ WrittenAgainstHead(r)

\* The predecessor becomes SUPERSEDED, then the revision the head.
Approve(s, p) ==
    LET r == approval[s].rev
        before == Predecessor(r)
        approved == [rev EXCEPT ![r].status = "APPROVED", ![r].approver = p] IN
    /\ approval[s] # NoApproval
    /\ MayApprove(s, p)
    /\ Commit(IF before = NoRevision THEN approved
              ELSE [approved EXCEPT ![before].status = "SUPERSEDED"], r, open)
    /\ approval' = [approval EXCEPT ![s] = NoApproval]
    /\ UNCHANGED <<manifest, route, workVars>>

RefuseApproval(s, p) ==
    /\ approval[s] # NoApproval
    /\ ~ MayApprove(s, p)
    /\ approval' = [approval EXCEPT ![s] = NoApproval]
    /\ UNCHANGED <<manifest, rev, head, open, triggered, route, workVars>>
-----------------------------------------------------------------------------
\* register_provider and register_model: another configuration under a bound
\* name is refused, so only the health changes.
RegisterRoute(health) ==
    /\ route # health
    /\ route' = health
    /\ UNCHANGED <<manifest, rev, head, open, approval, triggered, workVars>>

\* The work graph.  Every claim makes an attempt of its own.
ClaimWork(a) ==
    /\ claim[a] = "none"
    /\ claim' = [claim EXCEPT ![a] = "active"]
    /\ UNCHANGED <<manifest, rev, head, open, approval, triggered, route, binding, bound>>

ClaimExpires(a) ==
    /\ claim[a] = "active"
    /\ claim' = [claim EXCEPT ![a] = "overdue"]
    /\ UNCHANGED <<manifest, rev, head, open, approval, triggered, route, binding, bound>>

\* The attempt, its work item and its claim are locked.
Locked(a) == binding[a].step # "idle"

\* The claim is released, superseded or reconciled, each under the lock of its
\* row or of the item's.
ClaimEnds(a) ==
    /\ claim[a] \in {"active", "overdue"} /\ ~ Locked(a)
    /\ claim' = [claim EXCEPT ![a] = "ended"]
    /\ UNCHANGED <<manifest, rev, head, open, approval, triggered, route, binding, bound>>

\* Every quoted revision is the approved head.
Authoritative(c) ==
    \A r \in c : head = r /\ rev[r].status = "APPROVED"

\* Mutant: the context of the attempt is not compared.
BindsAny(a, c) == TRUE

\* The attempt carries no context yet, or this very one.
BindsSame(a, c) ==
    bound[a].context \in {NoContext, c}

\* The locks, the claim and its expiry, and the route.
LockForBinding(a, c, adapters) ==
    /\ ~ Locked(a)
    /\ claim[a] = "active"
    /\ route = "healthy"
    /\ binding' = [binding EXCEPT ![a] =
           [step |-> "locked", context |-> c, adapters |-> adapters]]
    /\ UNCHANGED <<manifest, rev, head, open, approval, triggered, route, claim, bound>>

\* The manifest and the quoted revisions, without a lock.  A revision is read
\* before its item: one that is then the head is still approved.
CheckSources(a) ==
    /\ binding[a].step = "locked"
    /\ manifest.version > 0
    /\ Authoritative(binding[a].context)
    /\ binding' = [binding EXCEPT ![a].step = "checked"]
    /\ UNCHANGED <<manifest, rev, head, open, approval, triggered, route, claim, bound>>

\* The commit.
StoreBinding(a) ==
    LET c == binding[a].context IN
    /\ binding[a].step = "checked"
    /\ BindsSame(a, c)
    /\ bound' = [bound EXCEPT ![a] =
           [context |-> c, adapters |-> @.adapters \cup binding[a].adapters]]
    /\ binding' = [binding EXCEPT ![a] = NoBinding]
    /\ UNCHANGED <<manifest, rev, head, open, approval, triggered, route, claim>>

\* A check fails, one of those above or one of what the context says of its
\* budget, its provider or its adapters.
BindingRefused(a) ==
    /\ Locked(a)
    /\ binding' = [binding EXCEPT ![a] = NoBinding]
    /\ UNCHANGED <<manifest, rev, head, open, approval, triggered, route, claim, bound>>

KnowledgeNext ==
    \/ \E approvers \in Teams : RegisterProject(approvers)
    \/ \E r \in Revisions, p \in Proposers, b \in Revisions \cup {NoRevision} :
          ProposeKnowledge(r, p, b)
    \/ \E r \in Revisions, p \in People : ReviewKnowledge(r, p)
    \/ \E s \in Sessions, r \in Revisions : BeginApproval(s, r)
    \/ \E s \in Sessions, p \in People : Approve(s, p) \/ RefuseApproval(s, p)
    \/ \E health \in {"healthy", "unhealthy"} : RegisterRoute(health)
    \/ \E a \in Attempts : ClaimWork(a) \/ ClaimExpires(a) \/ ClaimEnds(a)
    \/ \E a \in Attempts, c \in Contexts, adapters \in (SUBSET Adapters) \ {{}} :
          LockForBinding(a, c, adapters)
    \/ \E a \in Attempts : CheckSources(a) \/ StoreBinding(a) \/ BindingRefused(a)

KnowledgeSpec == KnowledgeInit /\ [][KnowledgeNext]_knowledgeVars
-----------------------------------------------------------------------------
\* Types of all variables.
KnowledgeTypeOK ==
    /\ manifest \in [version : 0..MaxManifests, approvers : SUBSET People]
    /\ rev \in [Revisions -> RevisionRows]
    /\ head \in Revisions \cup {NoRevision}
    /\ open \subseteq Revisions
    /\ approval \in [Sessions -> [rev : Revisions \cup {NoRevision},
                                status : KnowledgeStatuses,
                                reviewer : People \cup {NoPerson}]]
    /\ triggered \in BOOLEAN
    /\ route \in {"absent", "healthy", "unhealthy"}
    /\ claim \in [Attempts -> {"none", "active", "overdue", "ended"}]
    /\ binding \in [Attempts -> [step : {"idle", "locked", "checked"},
                                 context : Contexts \cup {NoContext},
                                 adapters : SUBSET Adapters]]
    /\ bound \in [Attempts -> [context : Contexts \cup {NoContext}, adapters : SUBSET Adapters]]

\* The triggers of the schema never refuse a commit of the service.
TriggersNeverRaise == ~ triggered

\* Whatever is or was the head went through three different people, two of
\* them approvers, and was not in conflict with the head it replaced.
ThreePeople ==
    \A r \in Revisions : rev[r].status \in {"APPROVED", "SUPERSEDED"} =>
        /\ Cardinality({rev[r].proposer, rev[r].reviewer, rev[r].approver}) = 3
        /\ r \notin open

\* approve_knowledge decides on a copy that may be stale, and yet what it
\* writes is sound, and it relies on no trigger of the schema to be so.
ApprovalsSound == TriggersNeverRaise /\ ThreePeople

\* However proposals, reviews and approvals interleave, the head moves by
\* compare-and-swap: no approved revision is lost, none returns.
HeadRow == INSTANCE KnowledgeHead WITH
    authority <- head,
    retired <- {r \in Revisions : rev[r].status = "SUPERSEDED"},
    base <- [r \in Revisions |-> IF rev[r].status = "none" THEN "undrafted"
                                 ELSE rev[r].supersedes]
HeadRefined == HeadRow!HeadSpec

\* A revision that is the head or was once.
WasHead(r) == r = head \/ rev[r].status = "SUPERSEDED"

\* A context bound to an attempt is never replaced, whatever is approved,
\* recompiled or bound again later; it was bound while the attempt's claim had
\* not ended; and although the head is read without a lock and may move before
\* the commit, what the context quotes never was anything but an approved head.
ContextStaysBound == [][
    \A a \in Attempts :
        /\ bound[a].context # NoContext =>
             /\ bound'[a].context = bound[a].context
             /\ bound[a].adapters \subseteq bound'[a].adapters
        /\ bound'[a] # bound[a] => claim[a] \in {"active", "overdue"}
        /\ bound'[a].context # NoContext => \A r \in bound'[a].context : WasHead(r)'
    ]_knowledgeVars
=============================================================================
