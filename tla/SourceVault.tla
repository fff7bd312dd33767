----------------------------- MODULE SourceVault -----------------------------
(***************************************************************************)
(* What the storage of sources promises to whoever reads a document or     *)
(* follows a citation: a version is served only when it is whole, and      *)
(* while it is served, or cited, it stays whole.  Staging, promotion,      *)
(* registry rows, retention, sweeps and collections do not appear.         *)
(*                                                                         *)
(*   whole      versions whose original, normalized text and chunks exist  *)
(*   current    the version a document serves, NoVersion before the first  *)
(*   served    versions that are ready or have been                       *)
(*   cited      versions an answer cites                                   *)
(*   withdrawn  deleted documents                                          *)
(***************************************************************************)
CONSTANTS Versions, Documents, NoVersion

VARIABLES whole, current, served, cited, withdrawn

vaultVars == <<whole, current, served, cited, withdrawn>>

VaultInit ==
    /\ whole = {}
    /\ current = [d \in Documents |-> NoVersion]
    /\ served = {}
    /\ cited = {}
    /\ withdrawn = {}

\* A version is built before it is served, never rebuilt afterwards.
Build(v) ==
    /\ v \notin served
    /\ whole' = whole \union {v}
    /\ UNCHANGED <<current, served, cited, withdrawn>>

\* An update of a document that is already deleted is served to nobody.
Serve(d, v) ==
    /\ v \notin served
    /\ v \in whole \/ d \in withdrawn
    /\ current' = [current EXCEPT ![d] = v]
    /\ served' = served \union {v}
    /\ UNCHANGED <<whole, cited, withdrawn>>

Cite(v) ==
    /\ v \in whole
    /\ cited' = cited \union {v}
    /\ UNCHANGED <<whole, current, served, withdrawn>>

Withdraw(d) ==
    /\ withdrawn' = withdrawn \union {d}
    /\ UNCHANGED <<whole, current, served, cited>>

Reclaim(lost) ==
    /\ lost \intersect cited = {}
    /\ \A d \in Documents : current[d] \in lost => d \in withdrawn
    /\ whole' = whole \ lost
    /\ UNCHANGED <<current, served, cited, withdrawn>>

VaultNext ==
    \/ \E v \in Versions : Build(v) \/ Cite(v)
    \/ \E lost \in SUBSET Versions : Reclaim(lost)
    \/ \E d \in Documents : Withdraw(d) \/ \E v \in Versions : Serve(d, v)

VaultSpec == VaultInit /\ [][VaultNext]_vaultVars
=============================================================================
