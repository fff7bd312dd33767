----------------------------- MODULE AnswerTurn -----------------------------
(***************************************************************************)
(* One chat request: POST /chat/query (api/v1/chat.py), the retrieval      *)
(* pipeline (application/retrieval_service.py with infrastructure/         *)
(* retrieval and infrastructure/rerankers) and the grounded answer         *)
(* (application/answer_service.py, domain/answer.py), over a project whose *)
(* documents get new versions and are deleted meanwhile.                   *)
(*                                                                         *)
(* The session runs READ COMMITTED and one statement per step, so every    *)
(* search, every resolver call and every neighbour lookup sees the         *)
(* documents of its own moment.  A chunk is the pair <<version, sequence   *)
(* number>>; it never changes, and a version is activated at most once     *)
(* (IngestionJob).  Relevance, the wording of the reply and the scores of  *)
(* the no-answer policy are choices; ranks, budgets, labels and visibility *)
(* are kept.                                                               *)
(***************************************************************************)
EXTENDS Listing, SequencesExt

CONSTANTS
  Docs, DocOf,         \* the documents, and the document of each version
  FirstServed,         \* the version each document starts with
  NoText,              \* no text
  ChunkIds,            \* every chunk once, in the order of the chunk ids
  Text, Header,        \* the content of a chunk; its table header or signature
  Cost,                \* the tokens of a text
  Exportable,          \* the versions whose policy permits remote generation
  Scopes,              \* the document selections a request may carry
  SearchK,             \* VECTOR_, LEXICAL_ and IDENTIFIER_CANDIDATE_K
  RrfK, RrfScale,      \* RRF_K; a common multiple of RrfK + 1 .. RrfK + ranks
  FusionK,             \* FUSION_CANDIDATE_K
  RerankK, RerankMax, RerankTokens,       \* RERANK_TOP_K, _MAX_CANDIDATES, _MAX_TOKENS
  ContextChunks, ContextTokens, Adjacent, \* CONTEXT_MAX_CHUNKS, _MAX_TOKENS, _ADJACENT_WINDOW
  PromptTokens,        \* what the prompt leaves for evidence
  Repairs,             \* ANSWER_SCHEMA_REPAIR_ATTEMPTS
  Replies,             \* the envelopes a model may send
  MaxDocChanges        \* bound: activations and deletions during the request

Chunks == Range(ChunkIds)
Versions == DOMAIN DocOf

ASSUME AnswerAssumption ==
  /\ DocOf \in [Versions -> Docs] /\ FirstServed \in [Docs -> Versions]
  /\ \A d \in Docs : DocOf[FirstServed[d]] = d
  /\ ChunkIds \in Seq(Versions \X Nat) /\ IsInjective(ChunkIds)
  /\ Text \in [Chunks -> DOMAIN Cost] /\ Header \in [Chunks -> DOMAIN Cost \cup {NoText}]
  /\ {RrfK, ContextChunks} \subseteq Nat \ {0}
  /\ {Repairs, RrfScale, FusionK, RerankK, Adjacent} \subseteq Nat
  /\ SearchK \in [{"dense", "lexical", "identifier"} -> Nat]
  /\ \A r \in 1 .. Max({SearchK[n] : n \in DOMAIN SearchK}) : RrfScale % (RrfK + r) = 0
  /\ \A reply \in Replies :
       /\ DOMAIN reply = {"answerable", "reason", "claims", "used"}
       /\ reply.answerable \in BOOLEAN /\ reply.used \in Seq(Nat)
       /\ reply.claims \in Seq([labels : Seq(Nat), inAnswer : BOOLEAN, quoted : BOOLEAN])

(* served: documents.active_version_id.  removed: documents with deleted_at. *)
(* unserved: versions whose activation has not happened.  docChanges: how    *)
(* often the documents changed.  turn: the request, its retrieval run and    *)
(* what it has persisted.                                                    *)
VARIABLES served, removed, unserved, docChanges, turn
answerVars == <<served, removed, unserved, docChanges, turn>>

Quiet == [pc |-> "idle", run |-> "none", scope |-> {}, lists |-> <<>>, fused |-> <<>>,
          found |-> <<>>, at |-> 0, items |-> <<>>, looks |-> <<>>, usable |-> <<>>,
          tries |-> 0, envelope |-> <<>>, cited |-> <<>>]

AnswerInit ==
  /\ served = FirstServed /\ removed = {} /\ docChanges = 0
  /\ unserved = {v \in Versions : FirstServed[DocOf[v]] # v}
  /\ turn = Quiet

\* The predicate of all three searches and of both resolvers: in the scope, not deleted,
\* of the active version.
Visible(c) ==
  LET d == DocOf[c[1]] IN d \in turn.scope /\ d \notin removed /\ served[d] = c[1]

----------------------------------------------------------------------------
(* The documents, changed by other requests and by the ingestion workers.  *)

ServeVersion(v) ==
  /\ v \in unserved /\ docChanges < MaxDocChanges
  /\ served' = [served EXCEPT ![DocOf[v]] = v]
  /\ unserved' = unserved \ {v}
  /\ docChanges' = docChanges + 1
  /\ UNCHANGED <<removed, turn>>

RemoveDocument(d) ==
  /\ d \notin removed /\ docChanges < MaxDocChanges
  /\ removed' = removed \cup {d}
  /\ docChanges' = docChanges + 1
  /\ UNCHANGED <<served, unserved, turn>>

----------------------------------------------------------------------------
(* Retrieval.                                                               *)

\* ensure_conversation, load_conversation_history, and the run row, whose commit also
\* commits a new conversation.  An empty selection is searched and finds nothing.
Ask(scope) ==
  /\ turn.pc = "idle"
  /\ turn' = [turn EXCEPT !.pc = "search", !.run = "open", !.scope = scope]
  /\ UNCHANGED <<served, removed, unserved, docChanges>>

\* What a search may return: its best hits, any visible chunks in any order of relevance.
Hits(k) == {s \in SeqOf({c \in Chunks : Visible(c)}, k) : IsInjective(s)}

Search(name, nth) ==
  /\ turn.pc = "search" /\ Len(turn.lists) = nth
  /\ \E hits \in Hits(SearchK[name]) : turn' = [turn EXCEPT !.lists = Append(@, hits)]
  /\ UNCHANGED <<served, removed, unserved, docChanges>>

SearchDense == Search("dense", 0)
SearchLexical == Search("lexical", 1)
SearchIdentifier == Search("identifier", 2)

\* reciprocal_rank_fusion: the sum of 1 / (k + rank), best first, ties by chunk id.
Share(c, hits) == IF c \in Range(hits) THEN RrfScale \div (RrfK + Place(hits, c)) ELSE 0
Score(c, lists) == Share(c, lists[1]) + Share(c, lists[2]) + Share(c, lists[3])
Before(c, d, lists) ==
  \/ Score(c, lists) > Score(d, lists)
  \/ Score(c, lists) = Score(d, lists) /\ Place(ChunkIds, c) < Place(ChunkIds, d)
Fused(lists) ==
  InOrder(UNION {Range(hits) : hits \in Range(lists)},
          {p \in Chunks \X Chunks : Before(p[1], p[2], lists)})

\* dedupe: the best ranked copy of a content stays.
Distinct(hits) == Picked(hits, Firsts([i \in DOMAIN hits |-> Text[hits[i]]]))

Fuse ==
  /\ turn.pc = "search" /\ Len(turn.lists) = 3
  /\ LET fused == Fused(turn.lists)
     IN turn' = [turn EXCEPT !.pc = "attach", !.lists = <<>>,
                             !.fused = Distinct(SubSeq(fused, 1, Min({FusionK, Len(fused)})))]
  /\ UNCHANGED <<served, removed, unserved, docChanges>>

\* chunk_resolver, one chunk at a time, before the reranker and once more after it.
Resolved(c) == Visible(c)
Attach ==
  /\ turn.pc \in {"attach", "reattach"} /\ Len(turn.found) < Len(turn.fused)
  /\ turn' = [turn EXCEPT !.found = Append(@, Resolved(turn.fused[Len(@) + 1]))]
  /\ UNCHANGED <<served, removed, unserved, docChanges>>

\* _rerank_input: a candidate over a budget is left out and the next one tried.  A vanished
\* chunk has no content and costs nothing.
WithinRerankBudget(hits, found) ==
  LET CostAt(i) == IF found[i] THEN Cost[Text[hits[i]]] ELSE 0
      kept[n \in 0 .. Len(hits)] ==
        IF n = 0 THEN [at |-> {}, tokens |-> 0]
        ELSE IF \/ Cardinality(kept[n - 1].at) >= RerankMax
                \/ kept[n - 1].tokens + CostAt(n) > RerankTokens
             THEN kept[n - 1]
             ELSE [at |-> kept[n - 1].at \cup {n}, tokens |-> kept[n - 1].tokens + CostAt(n)]
  IN Picked(hits, {i \in DOMAIN hits : i \in kept[Len(hits)].at})

\* The reranker is switched off, fails or answers nothing (the input as it is, not cut to
\* RERANK_TOP_K), or a gateway orders, drops and repeats candidates by index.
Rerankings(hits) == {hits} \cup (IF hits = <<>> THEN {} ELSE SeqOf(Range(hits), RerankK))

Rerank ==
  /\ turn.pc = "attach" /\ Len(turn.found) = Len(turn.fused)
  /\ \E ranked \in Rerankings(WithinRerankBudget(turn.fused, turn.found)) :
       turn' = [turn EXCEPT !.pc = "reattach", !.fused = ranked, !.found = <<>>]
  /\ UNCHANGED <<served, removed, unserved, docChanges>>

----------------------------------------------------------------------------
(* ContextBuilder.build.                                                    *)

Item(c, text) == [chunk |-> c, text |-> text]
Spent(items) == FoldLeft(LAMBDA sum, item : sum + Cost[item.text], 0, items)

\* add: no content twice, no more than the chunk and the token budget.
Add(items, item) ==
  IF \/ \E old \in Range(items) : old.text = item.text
     \/ Len(items) >= ContextChunks
     \/ Spent(items) + Cost[item.text] > ContextTokens
  THEN items ELSE Append(items, item)

\* The header or signature of the chunk, where its content does not hold it, then the chunk.
WithBase(items, c) ==
  Add(IF Header[c] = NoText THEN items ELSE Add(items, Item(c, Header[c])), Item(c, Text[c]))

\* The neighbours asked for, nearest first, of the hit's own version.
Neighbours(c) ==
  LET near == [k \in 1 .. 2 * Adjacent |->
                 <<c[1], IF k % 2 = 1 THEN c[2] - (k + 1) \div 2 ELSE c[2] + k \div 2>>]
  IN Picked(near, {k \in DOMAIN near : near[k] \in Chunks})

Full(items) == Len(items) >= ContextChunks

BuildCandidate ==
  /\ turn.pc = "reattach" /\ Len(turn.found) = Len(turn.fused)
  /\ turn.at < Len(turn.fused) /\ turn.looks = <<>> /\ ~Full(turn.items)
  /\ LET c == turn.fused[turn.at + 1]
         items == IF turn.found[turn.at + 1] THEN WithBase(turn.items, c) ELSE turn.items
     IN turn' = [turn EXCEPT !.at = @ + 1, !.items = items,
                             !.looks = IF items = turn.items \/ Full(items) THEN <<>> ELSE Neighbours(c)]
  /\ UNCHANGED <<served, removed, unserved, docChanges>>

\* A variant that asks by document and sequence number: whatever version is active now.
NeighbourOfDocument(n) ==
  LET current == <<served[DocOf[n[1]]], n[2]>>
  IN IF current \in Chunks /\ Visible(current)
     THEN <<Item(current, Text[current])>> ELSE <<>>
\* neighbor_resolver: the chunk of that version and sequence number, if visible now.
NeighbourItems(n) == IF Visible(n) THEN <<Item(n, Text[n])>> ELSE <<>>
LookAround ==
  /\ turn.pc = "reattach" /\ turn.looks # <<>>
  /\ LET near == NeighbourItems(Head(turn.looks))
     IN turn' = [turn EXCEPT !.items = IF near = <<>> THEN @ ELSE Add(@, near[1]),
                             !.looks = Tail(@)]
  /\ UNCHANGED <<served, removed, unserved, docChanges>>

----------------------------------------------------------------------------
(* The answer.                                                              *)

NoAnswer(reason) == [answerable |-> FALSE, reason |-> reason, claims |-> <<>>, used |-> <<>>]

\* pack_evidence reads the item by chunk id, so the evidence of a header carries the text of
\* the last item of that chunk.
Evidence(items) ==
  [i \in 1 .. Len(items) |->
     Item(items[i].chunk, items[SelectLastInSeq(items, LAMBDA x : x.chunk = items[i].chunk)].text)]

\* _bounded_evidence: the evidence up to the first that does not fit.
Bounded(evidence) ==
  SubSeq(evidence, 1, Max({n \in 0 .. Len(evidence) : Spent(SubSeq(evidence, 1, n)) <= PromptTokens}))

\* AnswerPolicy.classify: smalltalk is read off the query, the strength of the evidence is a
\* choice, and without candidates a question is never answerable.
Verdicts(hits) ==
  {"smalltalk", "insufficient_evidence"} \cup (IF hits = <<>> THEN {} ELSE {"answerable"})

\* The end of the run row, and generate_answer up to the model: no evidence that fits and a
\* policy against the remote model end here too.
Judge ==
  /\ turn.pc = "reattach" /\ Len(turn.found) = Len(turn.fused) /\ turn.looks = <<>>
  /\ turn.at = Len(turn.fused) \/ Full(turn.items)
  /\ \E verdict \in Verdicts(turn.fused) :
       LET usable == Bounded(Evidence(turn.items))
           reason == IF verdict # "answerable" THEN verdict
                     ELSE IF usable = <<>> THEN "insufficient_evidence"
                     ELSE IF \E e \in Range(usable) : e.chunk[1] \notin Exportable THEN "policy_refusal"
                     ELSE "none"
           ended == [turn EXCEPT !.run = "finished", !.fused = <<>>, !.found = <<>>, !.at = 0]
       IN turn' = IF reason = "none" THEN [ended EXCEPT !.pc = "generate", !.usable = usable]
                  ELSE [ended EXCEPT !.pc = "persist", !.envelope = NoAnswer(reason)]
  /\ UNCHANGED <<served, removed, unserved, docChanges>>

Labels == 1 .. Len(turn.usable)
Once(labels) == Picked(labels, Firsts(labels))
\* The labels of all claims, by claim and place, each once.
Claimed(envelope) ==
  LET places == UNION {{i} \X DOMAIN envelope.claims[i].labels : i \in DOMAIN envelope.claims}
      sooner == {p \in places \X places :
                   p[1][1] < p[2][1] \/ (p[1][1] = p[2][1] /\ p[1][2] < p[2][2])}
      all == InOrder(places, sooner)
  IN Once([n \in DOMAIN all |-> envelope.claims[all[n][1]].labels[all[n][2]]])
KnownLabels(labels) == labels # <<>> /\ Range(labels) \subseteq Labels

\* The first claim that is wrong, if any.
BadClaims(envelope) ==
  {i \in 1 .. Len(envelope.claims) :
     ~KnownLabels(envelope.claims[i].labels) \/ ~envelope.claims[i].inAnswer}

\* validate_grounding, and the shape _coherent_shape asks for.
Valid(envelope) ==
  IF ~envelope.answerable THEN envelope.claims = <<>> /\ envelope.used = <<>>
  ELSE /\ envelope.claims # <<>> /\ BadClaims(envelope) = {}
       /\ Once(envelope.used) = Claimed(envelope)

\* _canonicalize_grounding, tried only when the first fault is a claim that the answer text
\* does not hold: the answer is written anew from the claims, each of them found in the
\* evidence it names.
Repairable(envelope) ==
  /\ envelope.answerable /\ BadClaims(envelope) # {}
  /\ KnownLabels(envelope.claims[Min(BadClaims(envelope))].labels)
  /\ \A i \in 1 .. Len(envelope.claims) :
       KnownLabels(envelope.claims[i].labels) /\ envelope.claims[i].quoted
  /\ Range(envelope.used) \subseteq Labels
\* A variant that writes the answer anew and leaves the labels as the model sent them.
TextOnly(envelope) == envelope
Canonical(envelope) == [envelope EXCEPT !.used = Claimed(envelope)]

\* _structured_generation: an invalid or unreadable reply is asked for again, so often.
MayRepair == turn.tries < Repairs

\* The call of the model; a failing provider is not asked again.
Generate ==
  /\ turn.pc = "generate"
  /\ \/ turn' = [turn EXCEPT !.pc = "persist", !.envelope = NoAnswer("provider_failure")]
     \/ \E reply \in Replies :
          turn' = IF Valid(reply) THEN [turn EXCEPT !.pc = "persist", !.envelope = reply]
                  ELSE IF Repairable(reply)
                  THEN [turn EXCEPT !.pc = "persist", !.envelope = Canonical(reply)]
                  ELSE IF MayRepair THEN [turn EXCEPT !.tries = @ + 1]
                  ELSE [turn EXCEPT !.pc = "persist", !.envelope = NoAnswer("malformed_response")]
  /\ UNCHANGED <<served, removed, unserved, docChanges>>

\* A claim that names one source twice makes two rows with one primary key.
Storable(envelope) ==
  \A i \in 1 .. Len(envelope.claims) : IsInjective(envelope.claims[i].labels)

\* _persist_citations and the commit of the request: the messages, a citation for every used
\* label, a link for every label of a claim; all of them or none.
Persist ==
  /\ turn.pc = "persist"
  /\ turn' = IF Storable(turn.envelope)
             THEN [turn EXCEPT !.pc = "answered",
                               !.cited = [n \in 1 .. Len(turn.envelope.used) |->
                                            turn.usable[turn.envelope.used[n]]]]
             ELSE [turn EXCEPT !.pc = "failed"]
  /\ UNCHANGED <<served, removed, unserved, docChanges>>

\* The embedding provider or the database fails: the run is closed with the error, the
\* request ends without messages.
RequestFails ==
  /\ turn.pc \in {"search", "attach", "reattach", "persist"}
  /\ turn' = [turn EXCEPT !.pc = "failed", !.run = IF @ = "open" THEN "pipeline_error" ELSE @]
  /\ UNCHANGED <<served, removed, unserved, docChanges>>

AnswerNext ==
  \/ \E v \in Versions : ServeVersion(v)
  \/ \E d \in Docs : RemoveDocument(d)
  \/ \E scope \in Scopes : Ask(scope)
  \/ SearchDense \/ SearchLexical \/ SearchIdentifier \/ Fuse
  \/ Attach \/ Rerank \/ BuildCandidate \/ LookAround
  \/ Judge \/ Generate \/ Persist \/ RequestFails

AnswerSpec == AnswerInit /\ [][AnswerNext]_answerVars

----------------------------------------------------------------------------
(* What a request must get right.                                           *)

\* The evidence of one answer never mixes two versions of a document, although the searches,
\* the resolvers and the neighbour lookups read at different moments: the resolvers run after
\* every search, a version that was replaced never comes back, and a neighbour is looked for
\* in the version of its hit.
OneVersionPerDocument ==
  \A e, f \in Range(turn.items) : DocOf[e.chunk[1]] = DocOf[f.chunk[1]] => e.chunk[1] = f.chunk[1]

\* Whatever the model replied, what is about to be persisted cites evidence of the prompt only
\* and has a citation for every label of every claim: persisting finds a row for each link,
\* and a turn that cites is an answer to claims.
ClaimsCited ==
  turn.pc = "persist" =>
    /\ Range(turn.envelope.used) \subseteq Labels
    /\ \A i \in 1 .. Len(turn.envelope.claims) :
         Range(turn.envelope.claims[i].labels) \subseteq Range(turn.envelope.used)
    /\ turn.envelope.answerable <=> turn.envelope.used # <<>>
=============================================================================
