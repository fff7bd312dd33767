---------------------------- MODULE EffectLedger ----------------------------
(***************************************************************************)
(* What the work graph promises of one work item to whoever looks at the   *)
(* effect root and at the item's row: one external effect, never before    *)
(* it was intended, never a second time, undone at most once; and an item  *)
(* that is completed only if the effect is known to have been made.        *)
(* Claims, leases, tokens, calls and receipts do not appear.               *)
(*                                                                         *)
(*   effect   "none", "intended" (it may or may not be made later), "done",*)
(*            "undone"                                                     *)
(*   outcome  "open", "blocked" (a dead executor left it to be inspected), *)
(*            "completed" or "recovery"                                    *)
(***************************************************************************)

VARIABLES effect, outcome

ledgerVars == <<effect, outcome>>

EffectStates == {"none", "intended", "done", "undone"}
Outcomes == {"open", "blocked", "completed", "recovery"}

LedgerInit ==
    /\ effect = "none"
    /\ outcome = "open"

Intend ==
    /\ outcome = "open"
    /\ effect = "none"
    /\ effect' = "intended"
    /\ UNCHANGED outcome

\* The executor may be slow: the item may have been given up by then.
Take ==
    /\ effect = "intended"
    /\ effect' = "done"
    /\ UNCHANGED outcome

\* So may the rollback: nothing ties it to the outcome once it is intended.
Undo ==
    /\ effect = "done"
    /\ effect' = "undone"
    /\ UNCHANGED outcome

Finish ==
    /\ outcome = "open"
    /\ effect \in {"done", "undone"}
    /\ outcome' = "completed"
    /\ UNCHANGED effect

Block ==
    /\ outcome = "open"
    /\ effect \in {"intended", "done"}
    /\ outcome' = "blocked"
    /\ UNCHANGED effect

GiveUp ==
    /\ outcome \in {"open", "blocked"}
    /\ outcome' = "recovery"
    /\ UNCHANGED effect

LedgerNext == Intend \/ Take \/ Undo \/ Finish \/ Block \/ GiveUp

LedgerSpec == LedgerInit /\ [][LedgerNext]_ledgerVars
=============================================================================
