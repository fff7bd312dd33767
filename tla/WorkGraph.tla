------------------------------ MODULE WorkGraph ------------------------------
(***************************************************************************)
(* One work item of the Context Vault work graph, the clients that prepare,*)
(* claim, apply, verify, close and roll it back, the reconciler of stale   *)
(* leases, and the file an apply creates under the effect root.            *)
(*                                                                         *)
(* A replay of apply, verify, close or rollback by its idempotency key     *)
(* gives the item a new revision when no prepared work is left to go       *)
(* stale: it changes nothing here.                                         *)
(*                                                                         *)
(* Every operation locks the work_items row, so one action is one database *)
(* transaction; apply and rollback are two of them with a file operation   *)
(* in between, during which nothing is locked.  The reconciler locks claim *)
(* before item and the other operations item before claim: PostgreSQL      *)
(* aborts one of two that meet, which is an operation that did not run, or *)
(* a call that dies (ApplyDies, RollbackDies).                             *)
(*                                                                         *)
(* claim() makes an attempt, a claim and a fencing token together, so the  *)
(* three have one number here, 0 (None) for a NULL reference.              *)
(*                                                                         *)
(*   status, issued, activeToken, activeAttempt                            *)
(*       the work_items row; issued is next_fencing_token                  *)
(*   prepared     clients whose prepared work has the item's current       *)
(*                revision: every transition and observation empties it    *)
(*   approved     all required approvals are granted and unexpired         *)
(*   attempt, intent, rollbackStarted                                      *)
(*       work_attempts: status, effect_idempotency_key, and the rows whose *)
(*       rollback_started_at is set                                        *)
(*   claim, lease    work_claims: status, time left until expires_at       *)
(*   receipts     work_receipts                                            *)
(*   artifact     the attempt whose file is at the target path             *)
(*   applying, undoing     where the attempt's apply and rollback calls    *)
(*                stand between their transactions                         *)
(***************************************************************************)
EXTENDS Integers

CONSTANTS
    Clients,         \* CLI processes that prepare and claim
    Keys,            \* idempotency keys of apply
    NoKey,           \* NULL effect_idempotency_key
    NeedsApproval,   \* required_approvals is not empty
    MaxAttempts,     \* bound: claims granted
    LeaseTerm        \* bound: longest lease, in ticks

ASSUME ParametersAssumption ==
    /\ NoKey \notin Keys
    /\ NeedsApproval \in BOOLEAN
    /\ MaxAttempts \in Nat
    /\ LeaseTerm \in Nat \ {0}

VARIABLES
    status, issued, activeToken, activeAttempt,
    prepared, approved,
    attempt, intent, rollbackStarted,
    claim, lease,
    receipts,
    artifact, applying, undoing

itemVars == <<status, prepared>>
authorityVars == <<issued, activeToken, activeAttempt>>
attemptVars == <<attempt, intent, rollbackStarted>>
claimVars == <<claim, lease>>
callVars == <<artifact, applying, undoing>>
vars == <<itemVars, authorityVars, approved, attemptVars, claimVars, receipts,
          callVars>>

None == 0
Attempts == 1 .. MaxAttempts

Statuses == {"DRAFT", "READY", "CLAIMED", "RUNNING", "BLOCKED", "VERIFYING",
             "COMPLETED", "FAILED", "CANCELLED", "RECOVERY_REQUIRED"}

AttemptStatuses == {"none", "CLAIMED", "RUNNING", "VERIFYING", "COMPLETED",
                    "RECOVERY_REQUIRED"}

AllowedTransitions ==
    [DRAFT     |-> {"READY", "CANCELLED"},
     READY     |-> {"CLAIMED", "CANCELLED"},
     CLAIMED   |-> {"RUNNING", "CANCELLED", "RECOVERY_REQUIRED"},
     RUNNING   |-> {"BLOCKED", "VERIFYING", "FAILED", "CANCELLED",
                    "RECOVERY_REQUIRED"},
     BLOCKED   |-> {"READY", "FAILED", "CANCELLED", "RECOVERY_REQUIRED"},
     VERIFYING |-> {"COMPLETED", "FAILED", "RECOVERY_REQUIRED"}]

\* exit_status: 0 success, 70 outcome unknown, 75 fence lost.
Receipts == [kind : {"apply", "verify", "close", "rollback"},
             attempt : Attempts, exit : {0, 70, 75}]

Receipt(kind, a, exit) == [kind |-> kind, attempt |-> a, exit |-> exit]

Succeeded(kind, a) == Receipt(kind, a, 0) \in receipts

ItemTypes ==
    /\ status \in Statuses
    /\ issued \in 0 .. MaxAttempts
    /\ activeToken \in 0 .. issued
    /\ activeAttempt \in 0 .. issued
    /\ prepared \subseteq Clients

FlagTypes == approved \in BOOLEAN

AttemptTypes ==
    /\ attempt \in [Attempts -> AttemptStatuses]
    /\ intent \in [Attempts -> Keys \cup {NoKey}]
    /\ rollbackStarted \subseteq Attempts
    /\ claim \in [Attempts -> {"none", "active", "released", "reconciled"}]
    /\ lease \in [Attempts -> 0 .. LeaseTerm]
    /\ receipts \subseteq Receipts

CallTypes ==
    /\ artifact \in Attempts \cup {None}
    /\ applying \in [Attempts -> {"no", "dispatching", "wrote", "failed"}]
    /\ undoing \in [Attempts -> {"no", "intended", "unlinked"}]

TypeOK == ItemTypes /\ FlagTypes /\ AttemptTypes /\ CallTypes

\* create_work_item has committed.
Init ==
    /\ status = "DRAFT"
    /\ issued = 0
    /\ activeToken = None
    /\ activeAttempt = None
    /\ prepared = {}
    /\ approved = FALSE
    /\ attempt = [a \in Attempts |-> "none"]
    /\ intent = [a \in Attempts |-> NoKey]
    /\ rollbackStarted = {}
    /\ claim = [a \in Attempts |-> "none"]
    /\ lease = [a \in Attempts |-> 0]
    /\ receipts = {}
    /\ artifact = None
    /\ applying = [a \in Attempts |-> "no"]
    /\ undoing = [a \in Attempts |-> "no"]

-----------------------------------------------------------------------------
(* What the operations share.                                              *)

\* Mutant: the trigger does not compare the event's attempt.
TransitionUnbound(new, of, active) ==
    /\ status \in DOMAIN AllowedTransitions
    /\ new \in AllowedTransitions[status]
    /\ status' = new
    /\ prepared' = {}

\* _transition and the trigger behind it: the move is in the table, and the
\* event written for it names the attempt that is active in the new row.
\* of is the event's attempt_id, active the row's new active_attempt_id.
Transition(new, of, active) ==
    /\ status \in DOMAIN AllowedTransitions
    /\ new \in AllowedTransitions[status]
    /\ of = active
    /\ status' = new
    /\ prepared' = {}

\* _append_observation: a new revision and nothing else.
Observe ==
    /\ prepared' = {}
    /\ UNCHANGED status

HasLease(a) == claim[a] = "active" /\ lease[a] > 0

\* _assert_current_claim.
CurrentClaim(a) ==
    /\ HasLease(a)
    /\ activeAttempt = a
    /\ activeToken = a

\* _assert_approvals.
Approved == NeedsApproval => approved

\* No apply receipt and no effect intent of this item has the key.
FreshKey(k) == \A a \in Attempts : intent[a] # k

\* Mutant: the claim ends and the attempt is forgotten.
EndClaimOnly(a, attemptStatus, claimStatus) ==
    /\ claim' = [claim EXCEPT ![a] = claimStatus]
    /\ UNCHANGED <<attempt, lease, intent, rollbackStarted>>

\* The attempt is over and its claim with it.
EndAttempt(a, attemptStatus, claimStatus) ==
    /\ attempt' = [attempt EXCEPT ![a] = attemptStatus]
    /\ claim' = [claim EXCEPT ![a] = claimStatus]
    /\ UNCHANGED <<lease, intent, rollbackStarted>>

-----------------------------------------------------------------------------
(* Preparing and claiming.                                                 *)

\* The event of mark_ready names no attempt.
MarkReady ==
    /\ Transition("READY", None, activeAttempt)
    /\ UNCHANGED <<authorityVars, approved, attemptVars, claimVars, receipts,
                   callVars>>

\* Read-only: the client now holds a token for the current revision.
Prepare(c) ==
    /\ status \in {"READY", "CLAIMED"}
    /\ prepared' = prepared \cup {c}
    /\ UNCHANGED <<status, authorityVars, approved, attemptVars, claimVars,
                   receipts, callVars>>

GrantApproval ==
    /\ NeedsApproval
    /\ approved' = TRUE
    /\ UNCHANGED <<itemVars, authorityVars, attemptVars, claimVars, receipts,
                   callVars>>

\* expires_at of an approval passes.
ApprovalLapses ==
    /\ approved
    /\ approved' = FALSE
    /\ UNCHANGED <<itemVars, authorityVars, attemptVars, claimVars, receipts,
                   callVars>>

IssueToken(new) ==
    /\ issued' = new
    /\ activeToken' = new
    /\ activeAttempt' = new

\* Mutant: a claim does not look for another.
NoActiveClaims == {}

\* The claims that claim() finds active under its lock: one at most.
ActiveClaims == {a \in Attempts : claim[a] = "active"}

\* A claim that expired before any effect is closed on the way.
Claim(c, d) ==
    LET new == issued + 1
    IN  /\ issued < MaxAttempts
        /\ c \in prepared
        /\ \A a \in ActiveClaims : lease[a] = 0
        /\ status \in {"READY", "CLAIMED"}
        /\ IssueToken(new)
        /\ attempt' = [a \in Attempts |->
                IF a = new THEN "CLAIMED"
                ELSE IF a \in ActiveClaims THEN "RECOVERY_REQUIRED"
                ELSE attempt[a]]
        /\ claim' = [a \in Attempts |->
                IF a = new THEN "active"
                ELSE IF a \in ActiveClaims THEN "reconciled" ELSE claim[a]]
        /\ lease' = [lease EXCEPT ![new] = d]
        /\ IF status = "READY" THEN Transition("CLAIMED", new, new) ELSE Observe
        /\ UNCHANGED <<approved, intent, rollbackStarted, receipts, callVars>>

\* claim() with the key of an attempt that still holds the item.
ReplayClaim(a) ==
    /\ CurrentClaim(a)
    /\ Observe
    /\ UNCHANGED <<authorityVars, approved, attemptVars, claimVars, receipts,
                   callVars>>

\* expires_at is set anew, possibly to an earlier time.
Heartbeat(a, d) ==
    /\ HasLease(a)
    /\ lease' = [lease EXCEPT ![a] = d]
    /\ UNCHANGED <<itemVars, authorityVars, approved, attemptVars, claim,
                   receipts, callVars>>

ClockTick ==
    /\ \E a \in Attempts : HasLease(a)
    /\ lease' = [a \in Attempts |-> IF lease[a] = 0 THEN 0 ELSE lease[a] - 1]
    /\ UNCHANGED <<itemVars, authorityVars, approved, attemptVars, claim,
                   receipts, callVars>>

-----------------------------------------------------------------------------
(* Apply: intent, effect, receipt.                                         *)

\* assert_apply_admitted as far as the revision, which the caller observes.
Admissible(a) ==
    /\ applying[a] = "no"
    /\ status = "CLAIMED"
    /\ HasLease(a)
    /\ activeToken = a

\* The first transaction: RUNNING and the intent are durable before the file
\* is touched.  The trigger asks for the live claim of the active attempt.
AdmitApply(a, k) ==
    /\ Admissible(a)
    /\ FreshKey(k)
    /\ Approved
    /\ artifact = None
    /\ CurrentClaim(a)
    /\ Transition("RUNNING", a, activeAttempt)
    /\ attempt' = [attempt EXCEPT ![a] = "RUNNING"]
    /\ intent' = [intent EXCEPT ![a] = k]
    /\ applying' = [applying EXCEPT ![a] = "dispatching"]
    /\ UNCHANGED <<authorityVars, approved, rollbackStarted, claimVars,
                   receipts, artifact, undoing>>

\* The caller observed another revision than the one it prepared.
BlockDrift(a, k) ==
    /\ Admissible(a)
    /\ FreshKey(k)
    /\ EndAttempt(a, "RECOVERY_REQUIRED", "reconciled")
    /\ Transition("RECOVERY_REQUIRED", a, activeAttempt)
    /\ UNCHANGED <<authorityVars, approved, receipts, callVars>>

\* The file is created with O_EXCL.
Dispatch(a) ==
    /\ applying[a] = "dispatching"
    /\ artifact = None
    /\ artifact' = a
    /\ applying' = [applying EXCEPT ![a] = "wrote"]
    /\ UNCHANGED <<itemVars, authorityVars, approved, attemptVars, claimVars,
                   receipts, undoing>>

\* Mutant: an exception of the dispatcher is swallowed.
DispatchSwallows(a) ==
    /\ applying[a] = "dispatching"
    /\ applying' = [applying EXCEPT ![a] = "wrote"]
    /\ UNCHANGED <<itemVars, authorityVars, approved, attemptVars, claimVars,
                   receipts, artifact, undoing>>

\* The dispatcher raises, before the file exists or after (write, fsync).
DispatchRaises(a) ==
    /\ applying[a] = "dispatching"
    /\ \/ UNCHANGED artifact
       \/ artifact = None /\ artifact' = a
    /\ applying' = [applying EXCEPT ![a] = "failed"]
    /\ UNCHANGED <<itemVars, authorityVars, approved, attemptVars, claimVars,
                   receipts, undoing>>

\* Mutant: only claim and token are looked at again, not the expiry.
FencedAtAnyTime(a) == claim[a] = "active" /\ activeToken = a

\* The test apply makes when it is back from the dispatcher.
StillFenced(a) == HasLease(a) /\ activeToken = a

RecordApplied(a) ==
    /\ applying[a] = "wrote"
    /\ StillFenced(a)
    /\ receipts' = receipts \cup {Receipt("apply", a, 0)}
    /\ attempt' = [attempt EXCEPT ![a] = "VERIFYING"]
    /\ Transition("VERIFYING", a, activeAttempt)
    /\ applying' = [applying EXCEPT ![a] = "no"]
    /\ UNCHANGED <<authorityVars, approved, intent, rollbackStarted, claimVars,
                   artifact, undoing>>

\* _record_lost_fence: a receipt, and the item only if it is still RUNNING.
RecordLostFence(a) ==
    /\ applying[a] = "wrote"
    /\ ~StillFenced(a)
    /\ receipts' = receipts \cup {Receipt("apply", a, 75)}
    /\ EndAttempt(a, "RECOVERY_REQUIRED",
                  IF claim[a] = "active" THEN "reconciled" ELSE claim[a])
    /\ IF status = "RUNNING"
       THEN Transition("RECOVERY_REQUIRED", a, activeAttempt)
       ELSE UNCHANGED itemVars
    /\ applying' = [applying EXCEPT ![a] = "no"]
    /\ UNCHANGED <<authorityVars, approved, artifact, undoing>>

\* _record_uncertain_effect: whatever the claim says by now.
RecordUncertain(a) ==
    /\ applying[a] = "failed"
    /\ receipts' = receipts \cup {Receipt("apply", a, 70)}
    /\ EndAttempt(a, "RECOVERY_REQUIRED", "reconciled")
    /\ Transition("RECOVERY_REQUIRED", a, activeAttempt)
    /\ applying' = [applying EXCEPT ![a] = "no"]
    /\ UNCHANGED <<authorityVars, approved, artifact, undoing>>

\* The process is killed or its second transaction fails.
ApplyDies(a) ==
    /\ applying[a] # "no"
    /\ applying' = [applying EXCEPT ![a] = "no"]
    /\ UNCHANGED <<itemVars, authorityVars, approved, attemptVars, claimVars,
                   receipts, artifact, undoing>>

-----------------------------------------------------------------------------
(* Verify, close, reconcile.                                               *)

\* Neither this nor Close looks at rollback_started_at.
Verify(a) ==
    /\ Succeeded("apply", a)
    /\ status = "VERIFYING"
    /\ CurrentClaim(a)
    /\ Approved
    /\ receipts' = receipts \cup {Receipt("verify", a, 0)}
    /\ UNCHANGED <<itemVars, authorityVars, approved, attemptVars, claimVars,
                   callVars>>

\* The trigger asks for the same chain of receipts.
Close(a) ==
    /\ status = "VERIFYING"
    /\ Succeeded("verify", a)
    /\ Succeeded("apply", a)
    /\ CurrentClaim(a)
    /\ Approved
    /\ receipts' = receipts \cup {Receipt("close", a, 0)}
    /\ EndAttempt(a, "COMPLETED", "released")
    /\ activeToken' = None
    /\ Transition("COMPLETED", a, activeAttempt)
    /\ UNCHANGED <<issued, activeAttempt, approved, callVars>>

\* What a stale lease means for the item depends on how far it got.
ReconcileLease(a) ==
    /\ claim[a] = "active"
    /\ lease[a] = 0
    /\ EndAttempt(a, "RECOVERY_REQUIRED", "reconciled")
    /\ activeToken' = IF activeToken = a THEN None ELSE activeToken
    /\ \/ /\ status = "RUNNING"
          /\ Transition("BLOCKED", a, activeAttempt)
       \/ /\ status = "VERIFYING"
          /\ Transition("RECOVERY_REQUIRED", a, activeAttempt)
       \/ /\ status \notin {"RUNNING", "VERIFYING"}
          /\ Observe
    /\ UNCHANGED <<issued, activeAttempt, approved, receipts, callVars>>

-----------------------------------------------------------------------------
(* Rollback: intent, unlink, receipt.                                      *)

\* Mutant: the intent is not committed before the file is removed.
UnlinkWithoutIntent(a) ==
    /\ Succeeded("apply", a)
    /\ status = "VERIFYING"
    /\ CurrentClaim(a)
    /\ Approved
    /\ undoing[a] = "no"
    /\ undoing' = [undoing EXCEPT ![a] = "intended"]
    /\ UNCHANGED <<itemVars, authorityVars, approved, attemptVars, claimVars,
                   receipts, artifact, applying>>

IntendRollback(a) ==
    /\ Succeeded("apply", a)
    /\ a \notin rollbackStarted
    /\ status = "VERIFYING"
    /\ CurrentClaim(a)
    /\ Approved
    /\ rollbackStarted' = rollbackStarted \cup {a}
    /\ Observe
    /\ undoing' = [undoing EXCEPT ![a] = "intended"]
    /\ UNCHANGED <<authorityVars, approved, attempt, intent, claimVars,
                   receipts, artifact, applying>>

\* The file has the hash of the attempt's receipt.
Unlink(a) ==
    /\ undoing[a] = "intended"
    /\ artifact = a
    /\ artifact' = None
    /\ undoing' = [undoing EXCEPT ![a] = "unlinked"]
    /\ UNCHANGED <<itemVars, authorityVars, approved, attemptVars, claimVars,
                   receipts, applying>>

RecordRollback(a) ==
    /\ undoing[a] = "unlinked"
    /\ CurrentClaim(a)
    /\ receipts' = receipts \cup {Receipt("rollback", a, 0)}
    /\ EndAttempt(a, "RECOVERY_REQUIRED", "released")
    /\ activeToken' = None
    /\ Transition("RECOVERY_REQUIRED", a, activeAttempt)
    /\ undoing' = [undoing EXCEPT ![a] = "no"]
    /\ UNCHANGED <<issued, activeAttempt, approved, artifact, applying>>

\* LeaseExpired after the unlink, an error of it, or the process is killed:
\* no receipt in any case.
RollbackDies(a) ==
    /\ undoing[a] # "no"
    /\ undoing' = [undoing EXCEPT ![a] = "no"]
    /\ UNCHANGED <<itemVars, authorityVars, approved, attemptVars, claimVars,
                   receipts, artifact, applying>>

-----------------------------------------------------------------------------
Terms == 1 .. LeaseTerm

Next ==
    \/ MarkReady \/ GrantApproval \/ ApprovalLapses \/ ClockTick
    \/ \E c \in Clients : Prepare(c)
    \/ \E c \in Clients, d \in Terms : Claim(c, d)
    \/ \E a \in Attempts :
        \/ ReplayClaim(a)
        \/ \E d \in Terms : Heartbeat(a, d)
        \/ \E k \in Keys : AdmitApply(a, k) \/ BlockDrift(a, k)
        \/ Dispatch(a) \/ DispatchRaises(a)
        \/ RecordApplied(a) \/ RecordLostFence(a) \/ RecordUncertain(a)
        \/ ApplyDies(a)
        \/ Verify(a) \/ Close(a) \/ ReconcileLease(a)
        \/ IntendRollback(a) \/ Unlink(a) \/ RecordRollback(a)
        \/ RollbackDies(a)

Spec == Init /\ [][Next]_vars

-----------------------------------------------------------------------------
(* Properties.                                                             *)

\* A claim that can still do something is the item's newest, and the item is
\* in a state in which it means something: no two clients hold the item, and
\* no token outlives its claim unnoticed.
OneHolder ==
    \A a \in Attempts : claim[a] = "active" =>
        /\ activeAttempt = a
        /\ activeToken = a
        /\ status \in {"CLAIMED", "RUNNING", "VERIFYING"}

\* However often the item is claimed, reclaimed, blocked or retried with other
\* keys, one attempt at most ever starts the effect.
OneEffect ==
    \A a, b \in Attempts : intent[a] # NoKey /\ intent[b] # NoKey => a = b

\* The item and its attempts tell the same story: an attempt that is not over
\* is the active one and the item stands where it stands; a blocked item has
\* no attempt in progress.
RowsAgree ==
    /\ \A a \in Attempts :
        attempt[a] \in {"CLAIMED", "RUNNING", "VERIFYING", "COMPLETED"} =>
            activeAttempt = a /\ status = attempt[a]
    /\ status \in {"RUNNING", "VERIFYING", "COMPLETED"} =>
        \E a \in Attempts : activeAttempt = a /\ attempt[a] = status

\* An item that claims success has the receipts for it, all of the attempt
\* that is active, and the file is there unless its rollback was intended:
\* a killed or failed effect is never taken for a successful one.
SuccessBacked ==
    /\ status \in {"VERIFYING", "COMPLETED"} =>
        \E a \in Attempts :
            /\ activeAttempt = a
            /\ Succeeded("apply", a)
            /\ artifact = a \/ a \in rollbackStarted
    /\ status = "COMPLETED" =>
        \E a \in Attempts :
            /\ activeAttempt = a
            /\ Succeeded("verify", a)
            /\ Succeeded("close", a)
            /\ ~Succeeded("rollback", a)

\* A receipt of success is written only by the holder of a live lease and of
\* the current token, at the moment it is written; late calls leave receipts
\* of failure at most.
SuccessUnderLease ==
    [][\A r \in receipts' \ receipts : r.exit = 0 => CurrentClaim(r.attempt)]_vars

\* The item and the file under the effect root are a ledger of one effect.
Ledger == INSTANCE EffectLedger WITH
    effect <- IF artifact # None THEN "done"
              ELSE IF rollbackStarted # {} THEN "undone"
              ELSE IF \E a \in Attempts : intent[a] # NoKey THEN "intended"
              ELSE "none",
    outcome <- IF status = "COMPLETED" THEN "completed"
               ELSE IF status = "RECOVERY_REQUIRED" THEN "recovery"
               ELSE IF status = "BLOCKED" THEN "blocked"
               ELSE "open"

EffectRecorded == Ledger!LedgerSpec

\* ADR-013: completion is never inferred from an uncertain effect.  A completed
\* item has the artifact it was completed for.
CompletedEffectStands ==
    \A a \in Attempts :
        status = "COMPLETED" /\ activeAttempt = a => artifact = a
=============================================================================
