--------------------------- MODULE WorkGraphProofs ---------------------------
(***************************************************************************)
(* Proofs about WorkGraph for any clients and keys, any number of claims   *)
(* and any length of a lease.                                              *)
(***************************************************************************)
EXTENDS WorkGraph, TLAPS

-----------------------------------------------------------------------------
(***************************************************************************)
(* What the operations share                                               *)
(***************************************************************************)

\* What a transition that goes through says of the status it left.
LEMMA Moves ==
    ASSUME NEW new, NEW of, NEW active, Transition(new, of, active)
    PROVE /\ status' = new /\ of = active /\ prepared' = {}
          /\ new = "READY" => status \in {"DRAFT", "BLOCKED"}
          /\ new = "CLAIMED" => status = "READY"
          /\ new = "RUNNING" => status = "CLAIMED"
          /\ new = "BLOCKED" => status = "RUNNING"
          /\ new = "VERIFYING" => status = "RUNNING"
          /\ new = "COMPLETED" => status = "VERIFYING"
          /\ new = "RECOVERY_REQUIRED" =>
                status \in {"CLAIMED", "RUNNING", "BLOCKED", "VERIFYING"}
          /\ new \in Statuses
BY DEF Transition, AllowedTransitions, Statuses

\* The only steps that change the item's row, an attempt or the authority.
LEMMA LifeWriters ==
    ASSUME [Next]_vars
    PROVE \/ UNCHANGED <<status, authorityVars, attempt, intent, claim>>
          \/ MarkReady
          \/ \E c \in Clients, d \in Terms : Claim(c, d)
          \/ \E a \in Attempts :
                \/ \E k \in Keys : AdmitApply(a, k) \/ BlockDrift(a, k)
                \/ RecordApplied(a) \/ RecordLostFence(a) \/ RecordUncertain(a)
                \/ Close(a) \/ ReconcileLease(a) \/ RecordRollback(a)
BY DEF Next, vars, itemVars, authorityVars, attemptVars, claimVars, callVars, Observe,
       GrantApproval, ApprovalLapses, ClockTick, Prepare, ReplayClaim, Heartbeat,
       Dispatch, DispatchRaises, ApplyDies, Verify, IntendRollback, Unlink, RollbackDies

\* The only steps that move a call, touch the file or write a receipt.
LEMMA CallWriters ==
    ASSUME [Next]_vars
    PROVE \/ UNCHANGED <<rollbackStarted, receipts, callVars>>
          \/ \E a \in Attempts :
                \/ \E k \in Keys : AdmitApply(a, k)
                \/ Dispatch(a) \/ DispatchRaises(a)
                \/ RecordApplied(a) \/ RecordLostFence(a) \/ RecordUncertain(a)
                \/ ApplyDies(a)
                \/ Verify(a) \/ Close(a)
                \/ IntendRollback(a) \/ Unlink(a) \/ RecordRollback(a)
                \/ RollbackDies(a)
BY DEF Next, vars, attemptVars, callVars, MarkReady, GrantApproval, ApprovalLapses,
       ClockTick, Prepare, Claim, ReplayClaim, Heartbeat, BlockDrift, EndAttempt,
       ReconcileLease

-----------------------------------------------------------------------------
(***************************************************************************)
(* Types                                                                   *)
(***************************************************************************)

\* The item as create_work_item leaves it has the types of its columns.
LEMMA InitTypes == Init => TypeOK
<1> SUFFICES ASSUME Init PROVE TypeOK
    OBVIOUS
<1> USE ParametersAssumption DEF Init
<1>1. ItemTypes BY DEF ItemTypes, Statuses, None
<1>2. FlagTypes BY Zenon DEF FlagTypes
<1>3. AttemptTypes BY DEF AttemptTypes, AttemptStatuses
<1>4. CallTypes BY DEF CallTypes, None
<1> QED BY <1>1, <1>2, <1>3, <1>4 DEF TypeOK

\* A write of the item's row keeps the types of its columns.
LEMMA ItemTypesStep == ASSUME TypeOK, [Next]_vars PROVE ItemTypes'
<1> USE ParametersAssumption DEF TypeOK
<1>1. status' \in Statuses
    <2>1. CASE UNCHANGED <<status, authorityVars, attempt, intent, claim>>
        BY <2>1 DEF ItemTypes
    <2>2. CASE MarkReady BY <2>2, Moves DEF MarkReady
    <2>3. ASSUME NEW c \in Clients, NEW d \in Terms, Claim(c, d)
          PROVE status' \in Statuses
        BY <2>3, Moves DEF Claim, Observe, ItemTypes
    <2>4. ASSUME NEW a \in Attempts,
                 \/ \E k \in Keys : AdmitApply(a, k) \/ BlockDrift(a, k)
                 \/ RecordApplied(a) \/ RecordLostFence(a) \/ RecordUncertain(a)
                 \/ Close(a) \/ ReconcileLease(a) \/ RecordRollback(a)
          PROVE status' \in Statuses
        BY <2>4, Moves DEF AdmitApply, BlockDrift, RecordApplied, RecordLostFence,
           RecordUncertain, Close, ReconcileLease, RecordRollback, Observe, itemVars,
           ItemTypes
    <2> QED BY <2>1, <2>2, <2>3, <2>4, LifeWriters
<1>2. issued' \in 0 .. MaxAttempts /\ activeToken' \in 0 .. issued'
      /\ activeAttempt' \in 0 .. issued'
    BY LifeWriters DEF MarkReady, Claim, IssueToken, AdmitApply, BlockDrift,
       RecordApplied, RecordLostFence, RecordUncertain, Close, ReconcileLease,
       RecordRollback, authorityVars, ItemTypes, None
<1>3. prepared' \subseteq Clients
    <2>1. prepared' \subseteq prepared \/ \E c \in Clients : prepared' = prepared \cup {c}
        BY Moves DEF Next, vars, itemVars, MarkReady, GrantApproval, ApprovalLapses,
           ClockTick, Prepare, Claim, ReplayClaim, Heartbeat, AdmitApply, BlockDrift,
           Dispatch, DispatchRaises, RecordApplied, RecordLostFence, RecordUncertain,
           ApplyDies, Verify, Close, ReconcileLease, IntendRollback, Unlink,
           RecordRollback, RollbackDies, Observe
    <2> QED BY <2>1 DEF ItemTypes
<1> QED BY <1>1, <1>2, <1>3 DEF ItemTypes

\* Approvals are granted or not.
LEMMA FlagTypesStep == ASSUME TypeOK, [Next]_vars PROVE FlagTypes'
<1>1. UNCHANGED approved \/ approved' = TRUE \/ approved' = FALSE
    BY DEF Next, vars, MarkReady, GrantApproval, ApprovalLapses,
       ClockTick, Prepare, Claim, ReplayClaim, Heartbeat, AdmitApply, BlockDrift,
       Dispatch, DispatchRaises, RecordApplied, RecordLostFence, RecordUncertain,
       ApplyDies, Verify, Close, ReconcileLease, IntendRollback, Unlink,
       RecordRollback, RollbackDies
<1> QED BY <1>1, Zenon DEF TypeOK, FlagTypes

\* A write of an attempt, a claim or a receipt keeps their types.
LEMMA AttemptTypesStep == ASSUME TypeOK, [Next]_vars PROVE AttemptTypes'
<1> USE ParametersAssumption DEF TypeOK, AttemptTypes
<1>1. /\ attempt' \in [Attempts -> AttemptStatuses]
      /\ intent' \in [Attempts -> Keys \cup {NoKey}]
      /\ claim' \in [Attempts -> {"none", "active", "released", "reconciled"}]
    BY LifeWriters DEF MarkReady, Claim, AdmitApply, BlockDrift, RecordApplied,
       RecordLostFence, RecordUncertain, Close, ReconcileLease, RecordRollback,
       EndAttempt, attemptVars, claimVars, AttemptStatuses
<1>2. rollbackStarted' \subseteq Attempts
    BY CallWriters DEF AdmitApply, Dispatch, DispatchRaises, RecordApplied,
       RecordLostFence, RecordUncertain, ApplyDies, Verify, Close, IntendRollback,
       Unlink, RecordRollback, RollbackDies, EndAttempt, attemptVars
<1>3. lease' \in [Attempts -> 0 .. LeaseTerm]
    <2>1. CASE UNCHANGED lease BY <2>1
    <2>2. CASE ClockTick BY <2>2 DEF ClockTick
    <2>3. ASSUME NEW c \in Clients, NEW d \in Terms, Claim(c, d)
          PROVE lease' \in [Attempts -> 0 .. LeaseTerm]
        <3>1. lease' = [lease EXCEPT ![issued + 1] = d] BY <2>3 DEF Claim
        <3>2. d \in 0 .. LeaseTerm BY DEF Terms
        <3> QED BY <3>1, <3>2
    <2>4. ASSUME NEW a \in Attempts, NEW d \in Terms, Heartbeat(a, d)
          PROVE lease' \in [Attempts -> 0 .. LeaseTerm]
        <3>1. lease' = [lease EXCEPT ![a] = d] BY <2>4 DEF Heartbeat
        <3>2. d \in 0 .. LeaseTerm BY DEF Terms
        <3> QED BY <3>1, <3>2
    <2> QED BY <2>1, <2>2, <2>3, <2>4 DEF Next, vars, claimVars, MarkReady,
           GrantApproval, ApprovalLapses, Prepare, ReplayClaim, AdmitApply, BlockDrift,
           Dispatch, DispatchRaises, RecordApplied, RecordLostFence, RecordUncertain,
           ApplyDies, Verify, Close, ReconcileLease, IntendRollback, Unlink,
           RecordRollback, RollbackDies, EndAttempt
<1>4. receipts' \subseteq Receipts
    BY CallWriters DEF Receipts, Receipt, AdmitApply, Dispatch, DispatchRaises,
       RecordApplied, RecordLostFence, RecordUncertain, ApplyDies, Verify, Close,
       IntendRollback, Unlink, RecordRollback, RollbackDies
<1> QED BY <1>1, <1>2, <1>3, <1>4

\* A step of an apply or rollback call keeps the calls in their places.
LEMMA CallTypesStep == ASSUME TypeOK, [Next]_vars PROVE CallTypes'
<1> USE ParametersAssumption DEF TypeOK, CallTypes
<1>1. /\ applying' \in [Attempts -> {"no", "dispatching", "wrote", "failed"}]
      /\ undoing' \in [Attempts -> {"no", "intended", "unlinked"}]
    BY CallWriters DEF AdmitApply, Dispatch, DispatchRaises,
       RecordApplied, RecordLostFence, RecordUncertain, ApplyDies, Verify, Close,
       IntendRollback, Unlink, RecordRollback, RollbackDies, callVars
<1>2. artifact' \in Attempts \cup {None}
    BY CallWriters DEF AdmitApply, Dispatch, DispatchRaises,
       RecordApplied, RecordLostFence, RecordUncertain, ApplyDies, Verify, Close,
       IntendRollback, Unlink, RecordRollback, RollbackDies, callVars
<1> QED BY <1>1, <1>2

\* Every variable has its type in every reachable state: in particular an
\* item's token and attempt are among those it has issued.
THEOREM TypeCorrect == Spec => []TypeOK
<1>1. TypeOK /\ [Next]_vars => TypeOK'
    BY ItemTypesStep, FlagTypesStep, AttemptTypesStep, CallTypesStep DEF TypeOK
<1> QED BY InitTypes, <1>1, PTL DEF Spec

-----------------------------------------------------------------------------
(***************************************************************************)
(* The inductive invariant                                                 *)
(***************************************************************************)

\* Once an item has been claimed it names an attempt, whatever becomes of it;
\* so the event of mark_ready, which names none, is refused for good.
HolderNamed == status \notin {"DRAFT", "READY"} => activeAttempt # None

\* An attempt in progress has its claim.
ProgressIsClaimed ==
    \A a \in Attempts :
        attempt[a] \in {"CLAIMED", "RUNNING", "VERIFYING"} => claim[a] = "active"

\* An effect that was ever intended is the active attempt's, and the item
\* cannot be claimed any more.
IntentIsActive ==
    \A a \in Attempts : intent[a] # NoKey =>
        activeAttempt = a /\ status \notin {"DRAFT", "READY", "CLAIMED"}

\* A running or later item has an intent.
LateHasIntent ==
    status \in {"RUNNING", "BLOCKED", "VERIFYING", "COMPLETED"} =>
        \E a \in Attempts : intent[a] # NoKey

\* While an apply call is out, only the reconciler can move the item.
CallsInTime ==
    \A a \in Attempts : applying[a] # "no" =>
        /\ intent[a] # NoKey
        /\ status \in {"RUNNING", "BLOCKED"}
        /\ applying[a] = "wrote" => artifact = a

\* A receipt of a successful apply closes that window.
AppliedIsLate ==
    \A a \in Attempts : Succeeded("apply", a) =>
        /\ intent[a] # NoKey
        /\ status \in {"VERIFYING", "COMPLETED", "RECOVERY_REQUIRED"}

\* Receipt, rollback intent, unlink, receipt of the rollback: in this order.
UndoInOrder ==
    \A a \in Attempts :
        /\ a \in rollbackStarted => Succeeded("apply", a)
        /\ undoing[a] # "no" => a \in rollbackStarted
        /\ Succeeded("rollback", a) => status = "RECOVERY_REQUIRED"

ClaimInv == OneHolder /\ HolderNamed /\ ProgressIsClaimed /\ RowsAgree
EffectInv == IntentIsActive /\ LateHasIntent /\ CallsInTime /\ AppliedIsLate
             /\ UndoInOrder
IInv == TypeOK /\ ClaimInv /\ EffectInv /\ SuccessBacked

\* A draft nobody has claimed satisfies all of it.
LEMMA InitInv == Init => IInv
<1> SUFFICES ASSUME Init PROVE IInv
    OBVIOUS
<1>1. TypeOK BY InitTypes
<1>2. ClaimInv
    BY DEF Init, ClaimInv, OneHolder, HolderNamed, ProgressIsClaimed, RowsAgree
<1>3. EffectInv
    BY DEF Init, EffectInv, IntentIsActive, LateHasIntent, CallsInTime, AppliedIsLate,
       UndoInOrder, Succeeded
<1>4. SuccessBacked BY DEF Init, SuccessBacked
<1> QED BY <1>1, <1>2, <1>3, <1>4 DEF IInv

-----------------------------------------------------------------------------
(***************************************************************************)
(* Claims                                                                  *)
(***************************************************************************)

\* Every operation that makes, ends or moves an attempt leaves at most the
\* active one in progress, with its claim.
LEMMA ClaimInvStep == ASSUME IInv, [Next]_vars PROVE ClaimInv'
<1> USE DEF ClaimInv
<1>0. TypeOK /\ ClaimInv /\ EffectInv BY DEF IInv
<1>t. /\ status \in Statuses /\ activeAttempt \in 0 .. issued /\ issued \in Nat
      /\ DOMAIN attempt = Attempts /\ DOMAIN claim = Attempts
      /\ \A a \in Attempts : a \in Nat \ {0} /\ applying[a] \in {"no", "dispatching", "wrote", "failed"}
    BY <1>0, ParametersAssumption DEF TypeOK, ItemTypes, AttemptTypes, CallTypes, Attempts
<1> USE DEF OneHolder, HolderNamed, ProgressIsClaimed, RowsAgree, None
<1>1. CASE UNCHANGED <<status, authorityVars, attempt, intent, claim>>
    BY <1>0, <1>1 DEF authorityVars
<1>2. CASE MarkReady
    BY <1>0, <1>t, <1>2, Moves DEF MarkReady, authorityVars, attemptVars, claimVars
<1>3. ASSUME NEW c \in Clients, NEW d \in Terms, Claim(c, d) PROVE ClaimInv'
    BY <1>0, <1>t, <1>3, Moves DEF Claim, IssueToken, ActiveClaims, Observe
<1>4. ASSUME NEW a \in Attempts, NEW k \in Keys, AdmitApply(a, k) PROVE ClaimInv'
    BY <1>0, <1>t, <1>4, Moves
    DEF AdmitApply, CurrentClaim, HasLease, authorityVars, claimVars
<1>5. ASSUME NEW a \in Attempts, NEW k \in Keys, BlockDrift(a, k) PROVE ClaimInv'
    BY <1>0, <1>t, <1>5, Moves DEF BlockDrift, Admissible, HasLease, EndAttempt, authorityVars
<1>6. ASSUME NEW a \in Attempts, RecordApplied(a) PROVE ClaimInv'
    BY <1>0, <1>t, <1>6, Moves
    DEF RecordApplied, StillFenced, HasLease, authorityVars, claimVars
<1>7. ASSUME NEW a \in Attempts, RecordLostFence(a) PROVE ClaimInv'
    BY <1>0, <1>t, <1>7, Moves
    DEF RecordLostFence, EndAttempt, authorityVars, itemVars, EffectInv, CallsInTime,
        IntentIsActive
<1>8. ASSUME NEW a \in Attempts, RecordUncertain(a) PROVE ClaimInv'
    BY <1>0, <1>t, <1>8, Moves
    DEF RecordUncertain, EndAttempt, authorityVars, EffectInv, CallsInTime, IntentIsActive
<1>9. ASSUME NEW a \in Attempts, Close(a) PROVE ClaimInv'
    BY <1>0, <1>t, <1>9, Moves DEF Close, CurrentClaim, HasLease, EndAttempt
<1>10. ASSUME NEW a \in Attempts, ReconcileLease(a) PROVE ClaimInv'
    BY <1>0, <1>t, <1>10, Moves DEF ReconcileLease, EndAttempt, Observe
<1>11. ASSUME NEW a \in Attempts, RecordRollback(a) PROVE ClaimInv'
    BY <1>0, <1>t, <1>11, Moves DEF RecordRollback, CurrentClaim, HasLease, EndAttempt
<1> QED BY <1>1, <1>2, <1>3, <1>4, <1>5, <1>6, <1>7, <1>8, <1>9, <1>10, <1>11, LifeWriters

-----------------------------------------------------------------------------
(***************************************************************************)
(* Effects                                                                 *)
(***************************************************************************)

\* Under the invariant nothing but the first admission adds an intent, and
\* nothing brings the item back to where it can be claimed.
LEMMA IntentStep == ASSUME IInv, [Next]_vars PROVE IntentIsActive' /\ LateHasIntent'
<1> DEFINE Goal == IntentIsActive' /\ LateHasIntent'
<1>0. TypeOK /\ ClaimInv /\ EffectInv BY DEF IInv
<1>t. /\ status \in Statuses /\ activeAttempt \in 0 .. issued /\ issued \in Nat
      /\ DOMAIN intent = Attempts /\ NoKey \notin Keys
      /\ \A a \in Attempts : a \in Nat \ {0}
    BY <1>0, ParametersAssumption DEF TypeOK, ItemTypes, AttemptTypes, Attempts
<1> USE DEF IntentIsActive, LateHasIntent, EffectInv
<1>1. CASE UNCHANGED <<status, authorityVars, attempt, intent, claim>>
    BY <1>0, <1>1 DEF authorityVars
<1>2. CASE MarkReady
    BY <1>0, <1>t, <1>2, Moves DEF MarkReady, authorityVars, attemptVars, None
<1>3. ASSUME NEW c \in Clients, NEW d \in Terms, Claim(c, d) PROVE Goal
    BY <1>0, <1>t, <1>3, Moves DEF Claim, IssueToken, Observe
<1>4. ASSUME NEW a \in Attempts, NEW k \in Keys, AdmitApply(a, k) PROVE Goal
    BY <1>0, <1>t, <1>4, Moves DEF AdmitApply, CurrentClaim, Admissible, authorityVars
<1>5. ASSUME NEW a \in Attempts, NEW k \in Keys, BlockDrift(a, k) PROVE Goal
    BY <1>0, <1>t, <1>5, Moves DEF BlockDrift, Admissible, EndAttempt, authorityVars
<1>6. ASSUME NEW a \in Attempts, RecordApplied(a) PROVE Goal
    BY <1>0, <1>t, <1>6, Moves DEF RecordApplied, authorityVars
<1>7. ASSUME NEW a \in Attempts, RecordLostFence(a) PROVE Goal
    BY <1>0, <1>t, <1>7, Moves
    DEF RecordLostFence, EndAttempt, authorityVars, itemVars
<1>8. ASSUME NEW a \in Attempts, RecordUncertain(a) PROVE Goal
    BY <1>0, <1>t, <1>8, Moves DEF RecordUncertain, EndAttempt, authorityVars, CallsInTime
<1>9. ASSUME NEW a \in Attempts, Close(a) PROVE Goal
    BY <1>0, <1>t, <1>9, Moves DEF Close, EndAttempt
<1>10. ASSUME NEW a \in Attempts, ReconcileLease(a) PROVE Goal
    BY <1>0, <1>t, <1>10, Moves DEF ReconcileLease, EndAttempt, Observe
<1>11. ASSUME NEW a \in Attempts, RecordRollback(a) PROVE Goal
    <2>1. status = "VERIFYING" BY <1>0, <1>11, Moves
           DEF RecordRollback, CurrentClaim, HasLease, UndoInOrder, AppliedIsLate,
               ClaimInv, OneHolder
    <2> QED BY <1>0, <1>t, <1>11, <2>1, Moves DEF RecordRollback, EndAttempt
<1> QED BY <1>1, <1>2, <1>3, <1>4, <1>5, <1>6, <1>7, <1>8, <1>9, <1>10, <1>11, LifeWriters

\* There is one intent.
LEMMA OneIntent == IInv => OneEffect
BY DEF IInv, EffectInv, IntentIsActive, OneEffect

\* How the status can have moved while an effect is under way or recorded.
LEMMA StatusMoves ==
    ASSUME IInv, [Next]_vars
    PROVE \/ status' = status
          \/ /\ status \in {"DRAFT", "READY", "CLAIMED"}
             /\ status' \in {"READY", "CLAIMED", "RUNNING", "RECOVERY_REQUIRED"}
          \/ status = "RUNNING" /\ status' = "BLOCKED"
          \/ \E a \in Attempts : RecordApplied(a) \/ RecordLostFence(a) \/ RecordUncertain(a)
          \/ status = "VERIFYING" /\ status' \in {"COMPLETED", "RECOVERY_REQUIRED"}
<1>0. TypeOK /\ ClaimInv /\ EffectInv BY DEF IInv
<1>1. MarkReady => status = "DRAFT" /\ status' = "READY"
    BY <1>0, Moves DEF MarkReady, ClaimInv, HolderNamed
<1>2. ASSUME NEW c \in Clients, NEW d \in Terms, Claim(c, d)
      PROVE status \in {"READY", "CLAIMED"} /\ status' = "CLAIMED"
    BY <1>2, Moves DEF Claim, Observe
<1>3. ASSUME NEW a \in Attempts, NEW k \in Keys, AdmitApply(a, k) \/ BlockDrift(a, k)
      PROVE status = "CLAIMED" /\ status' \in {"RUNNING", "RECOVERY_REQUIRED"}
    BY <1>3, Moves DEF AdmitApply, BlockDrift, Admissible
<1>4. ASSUME NEW a \in Attempts, Close(a)
      PROVE status = "VERIFYING" /\ status' = "COMPLETED"
    BY <1>4, Moves DEF Close
<1>5. ASSUME NEW a \in Attempts, ReconcileLease(a)
      PROVE \/ status' = status
            \/ status = "RUNNING" /\ status' = "BLOCKED"
            \/ status = "VERIFYING" /\ status' = "RECOVERY_REQUIRED"
    BY <1>5, Moves DEF ReconcileLease, Observe
<1>6. ASSUME NEW a \in Attempts, RecordRollback(a)
      PROVE status = "VERIFYING" /\ status' = "RECOVERY_REQUIRED"
    BY <1>0, <1>6, Moves
    DEF RecordRollback, EffectInv, UndoInOrder, AppliedIsLate, CurrentClaim, HasLease,
        ClaimInv, OneHolder
<1> QED BY <1>1, <1>2, <1>3, <1>4, <1>5, <1>6, LifeWriters

\* Intents are not withdrawn.
LEMMA IntentsStay ==
    ASSUME IInv, [Next]_vars, NEW a \in Attempts, intent[a] # NoKey
    PROVE intent'[a] # NoKey
<1>1. DOMAIN intent = Attempts /\ NoKey \notin Keys
    BY ParametersAssumption DEF IInv, TypeOK, AttemptTypes
<1> QED BY <1>1, LifeWriters DEF MarkReady, Claim, AdmitApply, BlockDrift, RecordApplied,
       RecordLostFence, RecordUncertain, Close, ReconcileLease, RecordRollback,
       EndAttempt, attemptVars

\* An apply call that is out belongs to an item that only the reconciler has
\* moved since.
LEMMA CallsStep == ASSUME IInv, [Next]_vars PROVE CallsInTime'
<1> SUFFICES ASSUME NEW a \in Attempts, applying'[a] # "no"
             PROVE /\ intent'[a] # NoKey
                   /\ status' \in {"RUNNING", "BLOCKED"}
                   /\ applying'[a] = "wrote" => artifact' = a
    BY DEF CallsInTime
<1>0. TypeOK /\ ClaimInv /\ EffectInv BY DEF IInv
<1>t. /\ DOMAIN applying = Attempts /\ DOMAIN intent = Attempts /\ NoKey \notin Keys
      /\ a # None /\ DOMAIN undoing = Attempts
    BY <1>0, ParametersAssumption DEF TypeOK, AttemptTypes, CallTypes, Attempts, None
<1>1. ASSUME NEW b \in Attempts, NEW k \in Keys, AdmitApply(b, k)
      PROVE intent'[a] # NoKey /\ status' = "RUNNING" /\ applying'[a] # "wrote"
    BY <1>0, <1>t, <1>1, Moves DEF AdmitApply, Admissible, EffectInv, CallsInTime
<1>2. CASE applying[a] # "no" /\ applying'[a] # "no"
    <2>1. intent[a] # NoKey /\ status \in {"RUNNING", "BLOCKED"}
        BY <1>0, <1>2 DEF EffectInv, CallsInTime
    <2>2. ~\E b \in Attempts : RecordApplied(b) \/ RecordLostFence(b) \/ RecordUncertain(b)
        BY <1>0, <1>t, <1>2, <2>1
        DEF RecordApplied, RecordLostFence, RecordUncertain, EffectInv, CallsInTime,
            IntentIsActive
    <2>3. status' \in {"RUNNING", "BLOCKED"} BY <2>1, <2>2, StatusMoves
    <2>4. applying'[a] = "wrote" => artifact' = a
        BY <1>0, <1>t, <1>2, <2>1, <2>2, CallWriters
        DEF AdmitApply, Dispatch, DispatchRaises, ApplyDies, Verify, Close,
            IntendRollback, Unlink, RecordRollback, RollbackDies, callVars,
            EffectInv, CallsInTime, UndoInOrder, AppliedIsLate
    <2> QED BY <2>1, <2>3, <2>4, IntentsStay
<1>3. \/ applying[a] # "no"
      \/ \E b \in Attempts, k \in Keys : AdmitApply(b, k)
    BY <1>t, CallWriters DEF Dispatch, DispatchRaises, RecordApplied, RecordLostFence,
       RecordUncertain, ApplyDies, Verify, Close, IntendRollback, Unlink, RecordRollback,
       RollbackDies, callVars
<1> QED BY <1>1, <1>2, <1>3

\* Receipts are only added, and each by its operation.
LEMMA ReceiptsGrow ==
    ASSUME [Next]_vars
    PROVE /\ receipts \subseteq receipts'
          /\ \A r \in receipts' \ receipts :
                \/ r.exit # 0
                \/ r = Receipt("apply", r.attempt, 0) /\ RecordApplied(r.attempt)
                \/ r = Receipt("verify", r.attempt, 0) /\ Verify(r.attempt)
                \/ r = Receipt("close", r.attempt, 0) /\ Close(r.attempt)
                \/ r = Receipt("rollback", r.attempt, 0) /\ RecordRollback(r.attempt)
<1>1. receipts \subseteq receipts'
    BY CallWriters DEF AdmitApply, Dispatch, DispatchRaises,
       RecordApplied, RecordLostFence, RecordUncertain, ApplyDies, Verify, Close,
       IntendRollback, Unlink, RecordRollback, RollbackDies
<1>2. ASSUME NEW r \in receipts' \ receipts
      PROVE \E a \in Attempts :
                \/ r = Receipt("apply", a, 75) \/ r = Receipt("apply", a, 70)
                \/ r = Receipt("apply", a, 0) /\ RecordApplied(a)
                \/ r = Receipt("verify", a, 0) /\ Verify(a)
                \/ r = Receipt("close", a, 0) /\ Close(a)
                \/ r = Receipt("rollback", a, 0) /\ RecordRollback(a)
    <2>1. CASE UNCHANGED receipts BY <1>2, <2>1
    <2>2. ASSUME NEW a \in Attempts, RecordApplied(a)
          PROVE r = Receipt("apply", a, 0)
        BY <1>2, <2>2 DEF RecordApplied
    <2>3. ASSUME NEW a \in Attempts, RecordLostFence(a)
          PROVE r = Receipt("apply", a, 75)
        BY <1>2, <2>3 DEF RecordLostFence
    <2>4. ASSUME NEW a \in Attempts, RecordUncertain(a)
          PROVE r = Receipt("apply", a, 70)
        BY <1>2, <2>4 DEF RecordUncertain
    <2>5. ASSUME NEW a \in Attempts, Verify(a) PROVE r = Receipt("verify", a, 0)
        BY <1>2, <2>5 DEF Verify
    <2>6. ASSUME NEW a \in Attempts, Close(a) PROVE r = Receipt("close", a, 0)
        BY <1>2, <2>6 DEF Close
    <2>7. ASSUME NEW a \in Attempts, RecordRollback(a)
          PROVE r = Receipt("rollback", a, 0)
        BY <1>2, <2>7 DEF RecordRollback
    <2>8. \/ UNCHANGED receipts
          \/ \E a \in Attempts : \/ RecordApplied(a) \/ RecordLostFence(a)
                                 \/ RecordUncertain(a) \/ Verify(a) \/ Close(a)
                                 \/ RecordRollback(a)
        BY CallWriters DEF AdmitApply, Dispatch, DispatchRaises, ApplyDies,
           IntendRollback, Unlink, RollbackDies
    <2> QED BY <2>1, <2>2, <2>3, <2>4, <2>5, <2>6, <2>7, <2>8
<1>3. \A kind, a, exit : /\ Receipt(kind, a, exit).attempt = a
                         /\ Receipt(kind, a, exit).exit = exit
                         /\ Receipt(kind, a, exit).kind = kind
    BY DEF Receipt
<1> QED BY <1>1, <1>2, <1>3

\* While a call is out nothing has succeeded: so a result is never recorded
\* on top of a success.
LEMMA NoLateResult ==
    ASSUME IInv, status \in {"VERIFYING", "COMPLETED", "RECOVERY_REQUIRED"},
           NEW a \in Attempts
    PROVE /\ applying[a] = "no"
          /\ ~RecordApplied(a) /\ ~RecordLostFence(a) /\ ~RecordUncertain(a)
          /\ ~Dispatch(a) /\ ~DispatchRaises(a)
BY DEF IInv, EffectInv, CallsInTime, RecordApplied, RecordLostFence, RecordUncertain,
       Dispatch, DispatchRaises

\* A success is recorded from RUNNING alone and leaves the item in a state
\* only Close, the reconciler and the rollback move.
LEMMA AppliedStep == ASSUME IInv, [Next]_vars PROVE AppliedIsLate'
<1> SUFFICES ASSUME NEW a \in Attempts, Succeeded("apply", a)'
             PROVE /\ intent'[a] # NoKey
                   /\ status' \in {"VERIFYING", "COMPLETED", "RECOVERY_REQUIRED"}
    BY DEF AppliedIsLate
<1>1. CASE Succeeded("apply", a)
    <2>1. intent[a] # NoKey /\ status \in {"VERIFYING", "COMPLETED", "RECOVERY_REQUIRED"}
        BY <1>1 DEF IInv, EffectInv, AppliedIsLate
    <2>2. status' \in {"VERIFYING", "COMPLETED", "RECOVERY_REQUIRED"}
        BY <2>1, StatusMoves, NoLateResult
    <2> QED BY <2>1, <2>2, IntentsStay
<1>2. CASE ~Succeeded("apply", a)
    <2>1. RecordApplied(a)
        BY <1>2, ReceiptsGrow DEF Succeeded, Receipt
    <2>2. intent[a] # NoKey BY <2>1 DEF RecordApplied, IInv, EffectInv, CallsInTime
    <2>3. status' = "VERIFYING" BY <2>1, Moves DEF RecordApplied
    <2> QED BY <2>2, <2>3, IntentsStay
<1> QED BY <1>1, <1>2

\* A rollback is intended after the apply it undoes, and its receipt ends the
\* item.
LEMMA UndoStep == ASSUME IInv, [Next]_vars PROVE UndoInOrder'
<1> SUFFICES ASSUME NEW a \in Attempts
             PROVE /\ a \in rollbackStarted' => Succeeded("apply", a)'
                   /\ undoing'[a] # "no" => a \in rollbackStarted'
                   /\ Succeeded("rollback", a)' => status' = "RECOVERY_REQUIRED"
    BY DEF UndoInOrder
<1>0. EffectInv /\ DOMAIN undoing = Attempts BY DEF IInv, TypeOK, CallTypes
<1> USE DEF EffectInv, UndoInOrder
<1>1. /\ rollbackStarted \subseteq rollbackStarted'
      /\ a \in rollbackStarted' => a \in rollbackStarted \/ IntendRollback(a)
      /\ undoing'[a] # "no" => undoing[a] # "no" \/ IntendRollback(a)
    BY <1>0, CallWriters DEF AdmitApply, Dispatch, DispatchRaises,
       RecordApplied, RecordLostFence, RecordUncertain, ApplyDies, Verify, Close,
       IntendRollback, Unlink, RecordRollback, RollbackDies, EndAttempt, attemptVars,
       callVars
<1>2. a \in rollbackStarted' => Succeeded("apply", a)'
    BY <1>0, <1>1, ReceiptsGrow DEF IntendRollback, Succeeded
<1>3. undoing'[a] # "no" => a \in rollbackStarted'
    BY <1>0, <1>1 DEF IntendRollback
<1>4. ASSUME Succeeded("rollback", a)' PROVE status' = "RECOVERY_REQUIRED"
    <2>1. CASE Succeeded("rollback", a)
        <3>1. status = "RECOVERY_REQUIRED" BY <1>0, <2>1
        <3> QED BY <3>1, StatusMoves, NoLateResult
    <2>2. CASE ~Succeeded("rollback", a)
        <3>1. RecordRollback(a) BY <1>4, <2>2, ReceiptsGrow DEF Succeeded, Receipt
        <3> QED BY <3>1, Moves DEF RecordRollback
    <2> QED BY <2>1, <2>2
<1> QED BY <1>2, <1>3, <1>4

\* What an item that claims success rests on does not go away, except by a
\* rollback that was intended first.
LEMMA SuccessStep == ASSUME IInv, [Next]_vars PROVE SuccessBacked'
<1>0. IInv BY DEF IInv
<1>u. UndoInOrder' BY UndoStep
<1>g. \A k \in {"apply", "verify", "close"}, a \in Attempts :
        Succeeded(k, a) => Succeeded(k, a)'
    BY ReceiptsGrow DEF Succeeded
<1>r. rollbackStarted \subseteq rollbackStarted'
    BY CallWriters DEF AdmitApply, Dispatch, DispatchRaises,
       RecordApplied, RecordLostFence, RecordUncertain, ApplyDies, Verify, Close,
       IntendRollback, Unlink, RecordRollback, RollbackDies, EndAttempt, attemptVars
<1> DEFINE Backed(a) == activeAttempt = a /\ Succeeded("apply", a)
                        /\ (artifact = a \/ a \in rollbackStarted)
<1>1. ASSUME NEW a \in Attempts, Backed(a), status \in {"VERIFYING", "COMPLETED"}
      PROVE Backed(a)'
    <2>1. activeAttempt' = activeAttempt
        BY <1>1, LifeWriters DEF MarkReady, Claim, AdmitApply, BlockDrift, RecordApplied,
           RecordLostFence, RecordUncertain, Close, ReconcileLease, RecordRollback,
           authorityVars
    <2>2. artifact' = artifact \/ a \in rollbackStarted
        BY <1>0, <1>1, CallWriters, NoLateResult
        DEF AdmitApply, Admissible, ApplyDies, Verify, Close, IntendRollback, Unlink,
            RecordRollback, RollbackDies, callVars, IInv, EffectInv, UndoInOrder
    <2> QED BY <1>1, <1>g, <1>r, <2>1, <2>2
<1>2. ASSUME status' \in {"VERIFYING", "COMPLETED"},
             ~\E b \in Attempts : RecordApplied(b)
      PROVE status \in {"VERIFYING", "COMPLETED"}
    BY <1>0, <1>2, StatusMoves, Moves DEF RecordLostFence, RecordUncertain, IInv,
       EffectInv, CallsInTime, itemVars
<1>3. ASSUME NEW b \in Attempts, RecordApplied(b)
      PROVE status' = "VERIFYING" /\ Backed(b)'
    BY <1>0, <1>3, Moves DEF RecordApplied, Succeeded, authorityVars, IInv, EffectInv,
       CallsInTime
<1>4. ASSUME status' = "COMPLETED"
      PROVE \E a \in Attempts : /\ activeAttempt' = a
                                /\ Succeeded("verify", a)' /\ Succeeded("close", a)'
                                /\ ~Succeeded("rollback", a)'
    <2>1. ASSUME NEW a \in Attempts PROVE ~Succeeded("rollback", a)'
        BY <1>4, <1>u DEF UndoInOrder
    <2>2. CASE status = "COMPLETED"
        <3>1. PICK a \in Attempts : /\ activeAttempt = a /\ Succeeded("verify", a)
                                    /\ Succeeded("close", a)
            BY <1>0, <2>2 DEF IInv, SuccessBacked
        <3>2. activeAttempt' = activeAttempt
            BY <2>2, LifeWriters DEF MarkReady, Claim, AdmitApply, BlockDrift,
               RecordApplied, RecordLostFence, RecordUncertain, Close, ReconcileLease,
               RecordRollback, authorityVars
        <3> QED BY <1>g, <2>1, <3>1, <3>2
    <2>3. CASE status # "COMPLETED"
        <3>1. PICK a \in Attempts : Close(a)
            BY <1>4, <2>3, LifeWriters, Moves DEF MarkReady, Claim, AdmitApply,
               BlockDrift, RecordApplied, RecordLostFence, RecordUncertain,
               ReconcileLease, RecordRollback, Observe, itemVars
        <3>2. /\ activeAttempt' = a /\ Succeeded("verify", a)
              /\ Succeeded("close", a)'
            BY <3>1 DEF Close, CurrentClaim, Succeeded
        <3> QED BY <1>g, <2>1, <3>2
    <2> QED BY <2>2, <2>3
<1>5. ASSUME status' \in {"VERIFYING", "COMPLETED"}
      PROVE \E a \in Attempts : Backed(a)'
    <2>1. CASE \E b \in Attempts : RecordApplied(b) BY <1>3, <2>1
    <2>2. CASE ~\E b \in Attempts : RecordApplied(b)
        <3>1. status \in {"VERIFYING", "COMPLETED"} BY <1>2, <1>5, <2>2
        <3>2. PICK a \in Attempts : Backed(a) BY <1>0, <3>1 DEF IInv, SuccessBacked
        <3> QED BY <1>1, <3>1, <3>2
    <2> QED BY <2>1, <2>2
<1> QED BY <1>4, <1>5 DEF SuccessBacked

-----------------------------------------------------------------------------
(***************************************************************************)
(* The theorems                                                            *)
(***************************************************************************)

\* The invariant holds in every reachable state.
THEOREM Invariance == Spec => []IInv
<1>1. IInv /\ [Next]_vars => IInv'
    <2> SUFFICES ASSUME IInv, [Next]_vars PROVE IInv'
        OBVIOUS
    <2>1. TypeOK'
        BY ItemTypesStep, FlagTypesStep, AttemptTypesStep, CallTypesStep DEF IInv, TypeOK
    <2>2. ClaimInv' BY ClaimInvStep
    <2>3. EffectInv' BY IntentStep, CallsStep, AppliedStep, UndoStep DEF EffectInv
    <2>4. SuccessBacked' BY SuccessStep
    <2> QED BY <2>1, <2>2, <2>3, <2>4 DEF IInv
<1> QED BY InitInv, <1>1, PTL DEF Spec

\* Two claims never hold the item at once, and an active claim is the one the
\* item names.
THEOREM SingleHolder == Spec => []OneHolder
<1>1. IInv => OneHolder BY DEF IInv, ClaimInv
<1> QED BY Invariance, <1>1, PTL

\* The external effect is started by one attempt at most, whatever is claimed,
\* killed, reconciled and retried.
THEOREM EffectAtMostOnce == Spec => []OneEffect
<1> QED BY Invariance, OneIntent, PTL

\* The item and its attempts agree at every commit.
THEOREM ItemAndAttemptsAgree == Spec => []RowsAgree
<1>1. IInv => RowsAgree BY DEF IInv, ClaimInv
<1> QED BY Invariance, <1>1, PTL

\* An item that is being verified or is completed has the receipts that say so
\* and had its file.
THEOREM CompletionIsEarned == Spec => []SuccessBacked
<1>1. IInv => SuccessBacked BY DEF IInv
<1> QED BY Invariance, <1>1, PTL

\* Nobody who lost the lease or the token records a success.
THEOREM FencedReceipts == Spec => SuccessUnderLease
<1>1. ASSUME [Next]_vars
      PROVE \A r \in receipts' \ receipts : r.exit = 0 => CurrentClaim(r.attempt)
    <2> SUFFICES ASSUME NEW r \in receipts' \ receipts, r.exit = 0
                 PROVE CurrentClaim(r.attempt)
        OBVIOUS
    <2>1. RecordApplied(r.attempt) => CurrentClaim(r.attempt)
        BY Moves DEF RecordApplied, StillFenced, CurrentClaim
    <2>2. Verify(r.attempt) \/ Close(r.attempt) \/ RecordRollback(r.attempt)
            => CurrentClaim(r.attempt)
        BY DEF Verify, Close, RecordRollback
    <2>3. \/ RecordApplied(r.attempt) \/ Verify(r.attempt) \/ Close(r.attempt)
          \/ RecordRollback(r.attempt)
        BY <1>1, ReceiptsGrow
    <2> QED BY <2>1, <2>2, <2>3
<1> QED BY <1>1, PTL DEF Spec, SuccessUnderLease

-----------------------------------------------------------------------------
(***************************************************************************)
(* Refinement                                                              *)
(***************************************************************************)

Effect == IF artifact # None THEN "done"
          ELSE IF rollbackStarted # {} THEN "undone"
          ELSE IF \E a \in Attempts : intent[a] # NoKey THEN "intended"
          ELSE "none"

Outcome == IF status = "COMPLETED" THEN "completed"
           ELSE IF status = "RECOVERY_REQUIRED" THEN "recovery"
           ELSE IF status = "BLOCKED" THEN "blocked"
           ELSE "open"

\* What the item says of its effect: nothing before an intent, nothing undone
\* before a success, and no item in a successful state without it.
LEMMA EffectFacts ==
    ASSUME IInv
    PROVE /\ status \in {"DRAFT", "READY", "CLAIMED"} =>
                rollbackStarted = {} /\ ~\E a \in Attempts : intent[a] # NoKey
          /\ status \in {"RUNNING", "BLOCKED"} =>
                rollbackStarted = {} /\ \E a \in Attempts : intent[a] # NoKey
          /\ status \in {"VERIFYING", "COMPLETED"} =>
                artifact # None \/ rollbackStarted # {}
<1>1. rollbackStarted \subseteq Attempts /\ \A a \in Attempts : a # None
    BY DEF IInv, TypeOK, AttemptTypes, Attempts, None
<1> QED BY <1>1 DEF IInv, EffectInv, SuccessBacked, IntentIsActive, LateHasIntent,
           AppliedIsLate, UndoInOrder

\* A step of the work graph that leaves the effect alone moves the outcome as
\* the ledger allows.
LEMMA OutcomeMoves ==
    ASSUME IInv, [Next]_vars
    PROVE \/ Outcome' = Outcome
          \/ Outcome = "open" /\ Outcome' = "blocked" /\ status = "RUNNING"
          \/ Outcome = "open" /\ Outcome' = "completed" /\ status = "VERIFYING"
          \/ Outcome \in {"open", "blocked"} /\ Outcome' = "recovery"
<1>1. ASSUME NEW a \in Attempts,
             RecordApplied(a) \/ RecordLostFence(a) \/ RecordUncertain(a)
      PROVE status \in {"RUNNING", "BLOCKED"}
            /\ (status' = status \/ status' = "RECOVERY_REQUIRED"
                \/ (status = "RUNNING" /\ status' = "VERIFYING"))
    BY <1>1, Moves DEF RecordApplied, RecordLostFence, RecordUncertain, itemVars, IInv,
       EffectInv, CallsInTime
<1>2. \/ status' = status
      \/ /\ status \in {"DRAFT", "READY", "CLAIMED"}
         /\ status' \in {"READY", "CLAIMED", "RUNNING", "RECOVERY_REQUIRED"}
      \/ status = "RUNNING" /\ status' = "BLOCKED"
      \/ status \in {"RUNNING", "BLOCKED"} /\ status' = "RECOVERY_REQUIRED"
      \/ status = "RUNNING" /\ status' = "VERIFYING"
      \/ status = "VERIFYING" /\ status' \in {"COMPLETED", "RECOVERY_REQUIRED"}
    BY <1>1, StatusMoves
<1> QED BY <1>2 DEF Outcome

\* Only these steps change what the ledger calls the effect.
LEMMA EffectMoves ==
    ASSUME IInv, [Next]_vars
    PROVE \/ Effect' = Effect
          \/ /\ Effect = "none" /\ Effect' = "intended"
             /\ status = "CLAIMED" /\ status' = "RUNNING"
          \/ Effect = "intended" /\ Effect' = "done" /\ status' = status
          \/ Effect = "done" /\ Effect' = "undone" /\ status' = status
<1>t. /\ DOMAIN intent = Attempts /\ NoKey \notin Keys
      /\ \A a \in Attempts : a # None
    BY ParametersAssumption DEF IInv, TypeOK, AttemptTypes, Attempts, None
<1>1. ASSUME NEW a \in Attempts, NEW k \in Keys, AdmitApply(a, k)
      PROVE Effect = "none" /\ Effect' = "intended"
            /\ status = "CLAIMED" /\ status' = "RUNNING"
    <2>1. status = "CLAIMED" /\ artifact = None BY <1>1 DEF AdmitApply, Admissible
    <2>2. rollbackStarted = {} /\ ~\E b \in Attempts : intent[b] # NoKey
        BY <2>1, EffectFacts
    <2>3. /\ status' = "RUNNING" /\ artifact' = artifact
          /\ rollbackStarted' = rollbackStarted /\ intent'[a] # NoKey
        BY <1>t, <1>1, Moves DEF AdmitApply
    <2> QED BY <2>1, <2>2, <2>3 DEF Effect
<1>2. ASSUME NEW a \in Attempts, Dispatch(a) \/ DispatchRaises(a)
      PROVE \/ Effect' = Effect
            \/ Effect = "intended" /\ Effect' = "done" /\ status' = status
    <2>1. /\ UNCHANGED <<status, intent, rollbackStarted>>
          /\ UNCHANGED artifact \/ (artifact = None /\ artifact' = a)
          /\ applying[a] # "no"
        BY <1>2 DEF Dispatch, DispatchRaises, itemVars, attemptVars
    <2>2. rollbackStarted = {} /\ \E b \in Attempts : intent[b] # NoKey
        BY <2>1, EffectFacts DEF IInv, EffectInv, CallsInTime
    <2> QED BY <1>t, <2>1, <2>2 DEF Effect
<1>3. ASSUME NEW a \in Attempts, Unlink(a)
      PROVE Effect = "done" /\ Effect' = "undone" /\ status' = status
    <2>1. /\ UNCHANGED <<status, intent, rollbackStarted>>
          /\ artifact = a /\ artifact' = None /\ undoing[a] # "no"
        BY <1>3 DEF Unlink, itemVars, attemptVars
    <2>2. rollbackStarted # {}
        BY <2>1 DEF IInv, EffectInv, UndoInOrder
    <2> QED BY <1>t, <2>1, <2>2 DEF Effect
<1>4. ASSUME NEW a \in Attempts, IntendRollback(a) PROVE Effect' = Effect
    <2>1. /\ UNCHANGED <<artifact, intent>>
          /\ rollbackStarted' = rollbackStarted \cup {a}
          /\ a \notin rollbackStarted /\ status = "VERIFYING" /\ activeAttempt = a
        BY <1>4 DEF IntendRollback, CurrentClaim
    <2>2. artifact = a BY <2>1 DEF IInv, SuccessBacked
    <2> QED BY <1>t, <2>1, <2>2 DEF Effect
<1>5. \/ UNCHANGED <<artifact, intent, rollbackStarted>>
      \/ \E a \in Attempts : \/ \E k \in Keys : AdmitApply(a, k)
                             \/ Dispatch(a) \/ DispatchRaises(a) \/ Unlink(a)
                             \/ IntendRollback(a)
    <2>1. \/ UNCHANGED intent
          \/ \E a \in Attempts, k \in Keys : AdmitApply(a, k)
        BY LifeWriters DEF MarkReady, Claim, BlockDrift, RecordApplied, RecordLostFence,
           RecordUncertain, Close, ReconcileLease, RecordRollback, EndAttempt, attemptVars
    <2>2. \/ UNCHANGED <<artifact, rollbackStarted>>
          \/ \E a \in Attempts : \/ \E k \in Keys : AdmitApply(a, k)
                                 \/ Dispatch(a) \/ DispatchRaises(a) \/ Unlink(a)
                                 \/ IntendRollback(a)
        BY CallWriters DEF RecordApplied, RecordLostFence, RecordUncertain, ApplyDies,
           Verify, Close, RecordRollback, RollbackDies, EndAttempt, attemptVars, callVars
    <2> QED BY <2>1, <2>2
<1>6. UNCHANGED <<artifact, intent, rollbackStarted>> => Effect' = Effect
    BY DEF Effect
<1> QED BY <1>1, <1>2, <1>3, <1>4, <1>5, <1>6

\* A draft is an empty ledger.
LEMMA LedgerStarts == Init => Ledger!LedgerInit
BY DEF Init, Ledger!LedgerInit

\* Every step of the work graph is a step of the ledger or changes nothing in
\* it.
LEMMA LedgerStep ==
    ASSUME IInv, [Next]_vars
    PROVE [Ledger!LedgerNext]_(Ledger!ledgerVars)
<1> DEFINE Goal ==
        \/ UNCHANGED <<Effect, Outcome>>
        \/ /\ Outcome = "open" /\ Effect = "none" /\ Effect' = "intended"
           /\ UNCHANGED Outcome
        \/ Effect = "intended" /\ Effect' = "done" /\ UNCHANGED Outcome
        \/ Effect = "done" /\ Effect' = "undone" /\ UNCHANGED Outcome
        \/ /\ Outcome = "open" /\ Effect \in {"done", "undone"}
           /\ Outcome' = "completed" /\ UNCHANGED Effect
        \/ /\ Outcome = "open" /\ Effect \in {"intended", "done"}
           /\ Outcome' = "blocked" /\ UNCHANGED Effect
        \/ /\ Outcome \in {"open", "blocked"} /\ Outcome' = "recovery"
           /\ UNCHANGED Effect
<1>1. status = "VERIFYING" => Effect \in {"done", "undone"}
    BY EffectFacts DEF Effect
<1>2. status = "RUNNING" => Effect \in {"intended", "done"}
    BY EffectFacts DEF Effect
<1>3. status' = status => UNCHANGED Outcome BY DEF Outcome
<1>4. status = "CLAIMED" /\ status' = "RUNNING" => Outcome = "open" /\ UNCHANGED Outcome
    BY DEF Outcome
<1>5. Goal BY <1>1, <1>2, <1>3, <1>4, EffectMoves, OutcomeMoves
<1> QED BY <1>5 DEF Effect, Outcome, Ledger!LedgerNext, Ledger!ledgerVars, Ledger!Intend,
           Ledger!Take, Ledger!Undo, Ledger!Finish, Ledger!Block, Ledger!GiveUp

\* The work graph keeps the ledger: one effect, intended first, undone at most
\* once, and completion only after it was made.
THEOREM Refinement == Spec => EffectRecorded
<1>1. IInv /\ [Next]_vars => [Ledger!LedgerNext]_(Ledger!ledgerVars)
    BY LedgerStep
<1> QED BY Invariance, LedgerStarts, <1>1, PTL
        DEF Spec, EffectRecorded, Ledger!LedgerSpec
=============================================================================
