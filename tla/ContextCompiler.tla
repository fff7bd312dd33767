--------------------------- MODULE ContextCompiler ---------------------------
(***************************************************************************)
(* The context one agent gets for one attempt: ContextCompiler.compile     *)
(* (context_vault/context_compiler.py), called by the context command      *)
(* (context_vault/cli.py), its projection for the CLI adapters, the        *)
(* handoff that attests it (context_vault/handoff.py) and the effect       *)
(* intent prepared from both (context_vault/adapters.py), while the claim  *)
(* on the work item and the repository revision move on.                   *)
(*                                                                         *)
(* An item's source id is its index in Catalog, whose order is the order   *)
(* of the source ids; logical ids are numbers in their order.  A manifest  *)
(* hash is the manifest itself.  Projections and verified handoffs are     *)
(* frozen values, so the checks that refuse an altered one are left out.   *)
(***************************************************************************)
EXTENDS Listing, SequencesExt

CONSTANTS
  Catalog,          \* the items a request may name
  CliAdapters,      \* the adapters that are registered and available
  ClaimTime,        \* the time a claim is held without a heartbeat
  Asked,            \* bound: what the first, second ... request may be: [items, policy, budget]
  MaxTokens, MaxRevisions, MaxHours, MaxHandoffs, MaxIntents   \* bounds

Sources == DOMAIN Catalog
Tiers == {"MUST_LOAD", "SHOULD_LOAD_IF_RELEVANT", "RETRIEVE_ON_DEMAND", "NEVER_AUTO_LOAD"}
Roles == <<"SECURITY_POLICY", "ACTIVE_WORK", "PROJECT", "KNOWLEDGE", "RECEIPT", "RETRIEVAL">>
ItemStates == {"ACTIVE", "SUPERSEDED", "STALE"}

\* ContextItem.__post_init__: the items that can be made at all.
Critical(s) == Catalog[s].role \in {"SECURITY_POLICY", "ACTIVE_WORK"}

ASSUME CatalogAssumption ==
  /\ DOMAIN Catalog = 1 .. Len(Catalog) /\ DOMAIN Asked = 1 .. Len(Asked)
  /\ {Len(Catalog), Len(Asked)} \subseteq Nat
  /\ \A s \in Sources :
       LET i == Catalog[s] IN
       /\ {i.logical, i.version, i.cost} \subseteq Nat \ {0} /\ {i.score, i.digest} \subseteq Nat
       /\ i.tier \in Tiers /\ i.state \in ItemStates /\ i.role \in Range(Roles)
       /\ i.local \in BOOLEAN /\ i.supersedes \subseteq Sources
       /\ Critical(s) => i.tier = "MUST_LOAD"
  /\ \A n \in DOMAIN Asked : \A ask \in Asked[n] :
       /\ ask.items \subseteq Sources
       /\ ask.policy.remote \in BOOLEAN /\ ask.policy.allowed # {}
       /\ ask.budget.window \in Nat \ {0} /\ {ask.budget.output, ask.budget.margin} \subseteq Nat

\* holder: the claim, its attempt and the revision of the checkout.  clock: the time.
\* contexts: what was compiled, in order.  projected, handoffs, intents: what was made
\* from them.  refused: how many requests were refused.
VARIABLES holder, clock, contexts, projected, handoffs, intents, refused
contextVars == <<holder, clock, contexts, projected, handoffs, intents, refused>>

ContextInit ==
  /\ holder = [token |-> 1, revision |-> 1, until |-> ClaimTime]
  /\ clock = 0 /\ contexts = <<>> /\ intents = <<>> /\ refused = 0
  /\ projected = {} /\ handoffs = {}

----------------------------------------------------------------------------
(* Compilation.  A request names items, a policy, a budget, and which of   *)
(* the items are relevant or were retrieved.                               *)

OfTier(tier) == {s \in Sources : Catalog[s].tier = tier}
Requests(ask) ==
  [items : {ask.items}, policy : {ask.policy}, budget : {ask.budget},
   relevant : SUBSET (ask.items \cap OfTier("SHOULD_LOAD_IF_RELEVANT")),
   retrieved : SUBSET (ask.items \cap OfTier("RETRIEVE_ON_DEMAND"))]

\* Any active item supersedes, whether or not it is eligible itself.
SupersededIn(req) == UNION {Catalog[s].supersedes : s \in {t \in req.items : Catalog[t].state = "ACTIVE"}}

\* _eligible_items: the requests refused before any item is judged.
CriticalRefused(req) ==
  \E s \in req.items :
    /\ Critical(s)
    /\ \/ Catalog[s].state # "ACTIVE" \/ s \in SupersededIn(req)
       \/ \E t \in req.items \ {s} : Catalog[t].logical = Catalog[s].logical

\* _exclusion_reason: the first that applies.
ExclusionReason(s, req) ==
  LET i == Catalog[s] IN
  IF i.tier = "NEVER_AUTO_LOAD" THEN "never_auto_load"
  ELSE IF i.state = "SUPERSEDED" \/ s \in SupersededIn(req) THEN "superseded"
  ELSE IF i.state = "STALE" THEN "stale"
  ELSE IF i.classification \notin req.policy.allowed THEN "provider_classification_policy"
  ELSE IF req.policy.remote /\ i.local THEN "local_only"
  ELSE IF i.tier = "SHOULD_LOAD_IF_RELEVANT" /\ s \notin req.relevant /\ i.score = 0 THEN "not_relevant"
  ELSE IF i.tier = "RETRIEVE_ON_DEMAND" /\ s \notin req.retrieved THEN "not_retrieved"
  ELSE "none"

Eligible(req) == {s \in req.items : ExclusionReason(s, req) = "none"}
PolicyRefused(req) ==
  \E s \in req.items : /\ Catalog[s].tier = "MUST_LOAD"
                       /\ ExclusionReason(s, req) \in {"provider_classification_policy", "local_only"}

\* One revision of a logical id stays: the highest (version, content hash, source id).
Newer(s, t) ==
  LET a == Catalog[s]  b == Catalog[t] IN
  \/ a.version > b.version
  \/ a.version = b.version /\ a.digest > b.digest
  \/ a.version = b.version /\ a.digest = b.digest /\ s > t
Newest(S, rivals) ==
  {s \in S : ~\E t \in rivals : Catalog[t].logical = Catalog[s].logical /\ Newer(t, s)}
WinnersOfAll(req) == Newest(Eligible(req), req.items)
Winners(req) == LET eligible == Eligible(req) IN Newest(eligible, eligible)

Mandatory(winners) == {s \in winners : Catalog[s].tier = "MUST_LOAD"}
TotalCost(S) == SumOver([s \in Sources |-> Catalog[s].cost], S)
Available(w) == w.window - w.output - w.margin

\* The optional items in the order they are offered the rest of the budget.
Offered(s, t) ==
  LET a == Catalog[s]  b == Catalog[t] IN
  \/ a.tier = "SHOULD_LOAD_IF_RELEVANT" /\ b.tier # a.tier
  \/ a.tier = b.tier /\ a.score > b.score
  \/ a.tier = b.tier /\ a.score = b.score /\ a.logical < b.logical
Fill(taken, s) ==
  IF Catalog[s].cost <= taken.left
  THEN [items |-> taken.items \cup {s}, left |-> taken.left - Catalog[s].cost] ELSE taken
Selected(winners, available) ==
  LET mandatory == Mandatory(winners)
      optional == winners \ mandatory
      offers == InOrder(optional, {p \in optional \X optional : Offered(p[1], p[2])})
      taken[n \in 0 .. Cardinality(optional)] ==
        IF n = 0 THEN [items |-> mandatory, left |-> available - TotalCost(mandatory)]
        ELSE Fill(taken[n - 1], offers[n])
  IN taken[Cardinality(optional)].items

\* _context_order, over one item per logical id.
RoleRank(s) == Place(Roles, Catalog[s].role)
ContextOrder(s, t) ==
  \/ RoleRank(s) < RoleRank(t)
  \/ RoleRank(s) = RoleRank(t) /\ Catalog[s].logical < Catalog[t].logical

\* The payload that is hashed: of what was left out it tells only how often each reason applied.
ReasonsIn(req) ==
  [r \in {ExclusionReason(s, req) : s \in req.items} \ {"none"} |->
     Cardinality({s \in req.items : ExclusionReason(s, req) = r})]
ManifestOf(attempt, req) ==
  LET winners == Winners(req)
      selected == Selected(winners, Available(req.budget))
  IN [attempt |-> attempt, policy |-> req.policy, budget |-> req.budget,
      items |-> InOrder(selected, {p \in selected \X selected : ContextOrder(p[1], p[2])}),
      reasons |-> ReasonsIn(req), older |-> Cardinality(Eligible(req) \ winners),
      unfit |-> Cardinality(winners \ selected)]

Refused(req) ==
  \/ Available(req.budget) <= 0 \/ CriticalRefused(req) \/ PolicyRefused(req)
  \/ TotalCost(Mandatory(Winners(req))) > Available(req.budget)

RefuseCompile(req) ==
  /\ Refused(req)
  /\ refused' = refused + 1
  /\ UNCHANGED <<holder, clock, contexts, projected, handoffs, intents>>

\* The attempt is the one of the claim in force; every claim has its own attempt.
Compile(req) ==
  /\ ~Refused(req)
  /\ contexts' = Append(contexts, [request |-> req, manifest |-> ManifestOf(holder.token, req)])
  /\ UNCHANGED <<holder, clock, projected, handoffs, intents, refused>>

----------------------------------------------------------------------------
(* Projection, handoff, effect intent.                                     *)

\* The authority of a claim: work item, attempt and claim are those of its fencing token.
Authority == [token |-> holder.token, revision |-> holder.revision]

\* _context_compile with a binding: the attempt of the authority is the compiled one, and
\* every adapter is given the same core.
Project(n, adapters) ==
  LET m == contexts[n].manifest IN
  /\ m.attempt = Authority.token
  /\ adapters # {} /\ adapters \subseteq CliAdapters
  /\ projected' = projected \cup {[adapter |-> a, manifest |-> m, authority |-> Authority] : a \in adapters}
  /\ projected' # projected
  /\ UNCHANGED <<holder, clock, contexts, handoffs, intents, refused>>

\* A HandoffRecord of the holder, and its verification against the claim of a later moment.
WriteHandoff(n) ==
  /\ clock < holder.until
  /\ Cardinality({h \in handoffs : ~h.verified}) < MaxHandoffs
  /\ handoffs' = handoffs \cup {[verified |-> FALSE, authority |-> Authority,
                                 manifest |-> contexts[n].manifest,
                                 created |-> clock, expires |-> holder.until]}
  /\ handoffs' # handoffs
  /\ UNCHANGED <<holder, clock, contexts, projected, intents, refused>>

VerifyHandoff(h, n) ==
  /\ h \in handoffs /\ ~h.verified
  /\ h.authority = Authority /\ h.manifest = contexts[n].manifest
  /\ h.created <= clock /\ clock < h.expires
  /\ handoffs' = handoffs \cup {[h EXCEPT !.verified = TRUE]}
  /\ handoffs' # handoffs
  /\ UNCHANGED <<holder, clock, contexts, projected, intents, refused>>

\* prepare_effect: the projection's authority is the current one, and the verified handoff
\* is bound to it and to the projected manifest.
StandsByHandoff(p, h) ==
  h.verified /\ h.authority = p.authority /\ h.manifest = p.manifest
Stands(p, h) ==
  /\ h.verified
  /\ p.authority = Authority
  /\ h.authority = p.authority /\ h.manifest = p.manifest
PrepareEffect(p, h) ==
  /\ Len(intents) < MaxIntents
  /\ p \in projected /\ h \in handoffs /\ Stands(p, h)
  /\ intents' = Append(intents, [adapter |-> p.adapter, manifest |-> p.manifest, by |-> h.authority,
                                 authority |-> p.authority])
  /\ UNCHANGED <<holder, clock, contexts, projected, handoffs, refused>>

----------------------------------------------------------------------------
(* The work graph (WorkGraph) and the checkout, as far as they show here.  *)

HourPasses ==
  /\ clock < MaxHours
  /\ clock' = clock + 1
  /\ UNCHANGED <<holder, contexts, projected, handoffs, intents, refused>>

ClaimMoves ==
  /\ clock >= holder.until /\ holder.token < MaxTokens
  /\ holder' = [holder EXCEPT !.token = @ + 1, !.until = clock + ClaimTime]
  /\ UNCHANGED <<clock, contexts, projected, handoffs, intents, refused>>

RevisionMoves ==
  /\ holder.revision < MaxRevisions
  /\ holder' = [holder EXCEPT !.revision = @ + 1]
  /\ UNCHANGED <<clock, contexts, projected, handoffs, intents, refused>>

ContextNext ==
  \/ /\ refused + Len(contexts) < Len(Asked)
     /\ \E ask \in Asked[refused + Len(contexts) + 1] : \E req \in Requests(ask) :
          Compile(req) \/ RefuseCompile(req)
  \/ \E n \in 1 .. Len(contexts) : \E adapters \in SUBSET CliAdapters : Project(n, adapters)
  \/ \E n \in 1 .. Len(contexts) : WriteHandoff(n)
  \/ \E h \in handoffs, n \in 1 .. Len(contexts) : VerifyHandoff(h, n)
  \/ \E p \in projected, h \in handoffs : PrepareEffect(p, h)
  \/ HourPasses
  \/ ClaimMoves
  \/ RevisionMoves

ContextSpec == ContextInit /\ [][ContextNext]_contextVars

----------------------------------------------------------------------------
(* Properties.                                                             *)

\* What a request calls for: its items that are current, may be told to the provider, and are
\* always loaded, relevant or retrieved.
Due(s, req) ==
  LET i == Catalog[s] IN
  /\ i.state = "ACTIVE"
  /\ ~\E t \in req.items : Catalog[t].state = "ACTIVE" /\ s \in Catalog[t].supersedes
  /\ i.classification \in req.policy.allowed /\ ~(req.policy.remote /\ i.local)
  /\ \/ i.tier = "MUST_LOAD"
     \/ i.tier = "SHOULD_LOAD_IF_RELEVANT" /\ (s \in req.relevant \/ i.score > 0)
     \/ i.tier = "RETRIEVE_ON_DEMAND" /\ s \in req.retrieved

\* A compiled context holds only what its request calls for, within the budget and never two
\* revisions of one thing; it holds every policy and active work item it was asked to hold.
\* Of what is called for, only two kinds are missing: an optional item that does not fit
\* beside what was chosen, and a revision that lost to a newer one that is called for too.
\* So small items never push out a policy, and nothing is dropped that would have fitted.
ContextAsPromised ==
  \A n \in 1 .. Len(contexts) :
    LET req == contexts[n].request
        held == Range(contexts[n].manifest.items)
        left == Available(req.budget) - TotalCost(held)
    IN /\ left >= 0
       /\ \A s \in held : s \in req.items /\ Due(s, req)
       /\ \A s, t \in held : Catalog[s].logical = Catalog[t].logical => s = t
       /\ \A s \in req.items : Critical(s) => s \in held
       /\ \A s \in req.items \ held :
            Due(s, req) =>
              \/ Catalog[s].tier # "MUST_LOAD" /\ Catalog[s].cost > left
              \/ \E t \in req.items : /\ Due(t, req) /\ Newer(t, s)
                                      /\ Catalog[t].logical = Catalog[s].logical

\* The effect intents of one work item come in the order of its claims and of the revisions
\* they expect: an agent whose claim was taken over, or whose checkout has moved on, prepares
\* nothing more from the projection and the handoff it still holds.
IntentsInClaimOrder ==
  \A i \in 1 .. Len(intents), j \in 1 .. Len(intents) :
    i < j => /\ intents[i].authority.token <= intents[j].authority.token
             /\ intents[i].authority.revision <= intents[j].authority.revision

============================================================================
