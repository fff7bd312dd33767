------------------------------ MODULE MCPlatform ------------------------------
(***************************************************************************)
(* The components that share no state with each other, checked in one run. *)
(* The first state chooses the component that will run and the others stay *)
(* at their initial states, so TLC explores the disjoint sum of their      *)
(* graphs: each component is checked as if it had a run of its own.        *)
(***************************************************************************)
EXTENDS BackupDrill, RateLimiter, KnowledgeRegistry, KnowledgeLedger, AnswerTurn,
        ContextCompiler, BenchmarkRun, EvalGate, RepositoryScan, ReleaseGate, Chunking, TLC

VARIABLE subject

platformVars == <<subject, backupVars, limiterVars, knowledgeVars, ledgerBookVars,
                  answerVars, contextVars, benchVars, evalVars, scanVars, releaseVars, chunkVars>>

Subjects == {"backup", "limiter", "knowledge", "ledger", "answer", "context",
             "benchmark", "evaluation", "scan", "release", "chunks"}

PlatformInit ==
    /\ subject \in Subjects
    /\ BackupInit /\ LimiterInit /\ KnowledgeInit /\ BookInit /\ AnswerInit
    /\ ContextInit /\ BenchInit /\ EvalInit /\ ScanInit
    /\ ReleaseInit /\ ChunkInit

\* Everything but the chosen component keeps its state.
Only(s) ==
    /\ subject = s
    /\ UNCHANGED subject
    /\ s # "backup" => UNCHANGED backupVars
    /\ s # "limiter" => UNCHANGED limiterVars
    /\ s # "knowledge" => UNCHANGED knowledgeVars
    /\ s # "ledger" => UNCHANGED ledgerBookVars
    /\ s # "answer" => UNCHANGED answerVars
    /\ s # "context" => UNCHANGED contextVars
    /\ s # "benchmark" => UNCHANGED benchVars
    /\ s # "evaluation" => UNCHANGED evalVars
    /\ s # "scan" => UNCHANGED scanVars
    /\ s # "release" => UNCHANGED releaseVars
    /\ s # "chunks" => UNCHANGED chunkVars

PlatformNext ==
    \/ Only("backup") /\ BackupNext
    \/ Only("limiter") /\ LimiterNext
    \/ Only("knowledge") /\ KnowledgeNext
    \/ Only("ledger") /\ BookNext
    \/ Only("answer") /\ AnswerNext
    \/ Only("context") /\ ContextNext
    \/ Only("benchmark") /\ BenchNext
    \/ Only("evaluation") /\ EvalNext
    \/ Only("scan") /\ ScanNext
    \/ Only("release") /\ ReleaseNext
    \/ Only("chunks") /\ ChunkNext

PlatformSpec == PlatformInit /\ [][PlatformNext]_platformVars
-----------------------------------------------------------------------------
(* Values *)

CONSTANTS r1, r2, x1, x2, k1, k2, k3, t1, t2, b1,
          kv1, kv2, kv3, alice, bob, carol, ks1, ks2,
          d1, d2, v1, v2, w1, q1, q2, q3, q4, hd,
          vault, git, top, deep, sub, plain, other, rulesText, huge, sc1, sc2,
          c1, c2, i1, i2

MCContexts == {{r} : r \in Revisions}
MCTeams == {{alice, bob, carol}, {bob, carol}}
MCSays == [n \in {kv1, kv2, kv3} |-> IF n = kv3 THEN q1 ELSE q2]
MCApprovals == {[permits |-> {bob, carol}, independent |-> TRUE],
                [permits |-> {bob}, independent |-> FALSE]}

MCDocOf == [v \in {v1, v2, w1} |-> IF v = w1 THEN d2 ELSE d1]
MCFirstServed == [d \in {d1, d2} |-> IF d = d1 THEN v1 ELSE w1]
MCChunkIds == <<<<v2, 1>>, <<v1, 2>>, <<w1, 1>>, <<v1, 1>>, <<v2, 2>>>>
MCText == [c \in {<<v1, 1>>, <<v2, 1>>} |-> q1] @@ [c \in {<<v1, 2>>} |-> q2]
          @@ [c \in {<<v2, 2>>} |-> q3] @@ [c \in {<<w1, 1>>} |-> q4]
MCHeader == [c \in DOMAIN MCText |-> IF c[1] = w1 THEN hd ELSE NoText]
MCCost == [t \in {q1, q2, q3, q4, hd} |-> IF t = q3 THEN 2 ELSE 1]
MCSearchK == [dense |-> 2, lexical |-> 2, identifier |-> 1]
MCScopes == {{d1, d2}, {d1}, {}}

\* One claim of a model's reply: the labels it cites, whether its text stands
\* in the answer, and whether it quotes its evidence.
MCClaim(ls, a, q) == [labels |-> ls, inAnswer |-> a, quoted |-> q]
MCReplies ==
  [answerable : {TRUE}, reason : {"none"}, used : {<<1>>, <<1, 2>>, <<2, 1>>, <<1, 1>>, <<3>>, <<>>},
   claims : {<<>>, <<MCClaim(<<1>>, TRUE, TRUE)>>, <<MCClaim(<<1>>, FALSE, TRUE)>>,
             <<MCClaim(<<1>>, FALSE, FALSE)>>,
             <<MCClaim(<<1>>, TRUE, FALSE), MCClaim(<<2>>, TRUE, TRUE)>>,
             <<MCClaim(<<1>>, FALSE, TRUE), MCClaim(<<2, 1>>, TRUE, TRUE)>>,
             <<MCClaim(<<1, 1>>, TRUE, TRUE)>>, <<MCClaim(<<3>>, TRUE, TRUE)>>}]
  \cup {[NoAnswer("insufficient_evidence") EXCEPT !.used = u] : u \in {<<>>, <<1>>}}

MCEntry(logical, version, role, tier, state, class, local, cost, score, supersedes) ==
  [logical |-> logical, version |-> version, role |-> role, tier |-> tier, state |-> state,
   classification |-> class, local |-> local, cost |-> cost, score |-> score,
   supersedes |-> supersedes, digest |-> 0]
MCCatalog ==
  << MCEntry(1, 1, "SECURITY_POLICY", "MUST_LOAD", "ACTIVE", "PUBLIC", FALSE, 2, 0, {}),
     MCEntry(2, 1, "ACTIVE_WORK", "MUST_LOAD", "ACTIVE", "PUBLIC", FALSE, 1, 0, {}),
     MCEntry(3, 1, "KNOWLEDGE", "SHOULD_LOAD_IF_RELEVANT", "ACTIVE", "PUBLIC", FALSE, 3, 0, {}),
     MCEntry(3, 2, "KNOWLEDGE", "RETRIEVE_ON_DEMAND", "ACTIVE", "INTERNAL", FALSE, 2, 0, {}),
     MCEntry(4, 1, "PROJECT", "MUST_LOAD", "ACTIVE", "PUBLIC", TRUE, 1, 0, {6}),
     MCEntry(5, 1, "RETRIEVAL", "RETRIEVE_ON_DEMAND", "ACTIVE", "PUBLIC", FALSE, 1, 0, {}),
     MCEntry(6, 1, "RECEIPT", "SHOULD_LOAD_IF_RELEVANT", "STALE", "PUBLIC", FALSE, 1, 1, {2}) >>
MCOpen == [remote |-> FALSE, allowed |-> {"PUBLIC", "INTERNAL"}]
MCPolicies == {[remote |-> TRUE, allowed |-> {"PUBLIC"}], MCOpen}
MCWindow(w, o, m) == [window |-> w, output |-> o, margin |-> m]
MCAsked ==
  << [items : SUBSET (1 .. 7), policy : MCPolicies,
      budget : {MCWindow(6, 2, 1), MCWindow(8, 1, 0), MCWindow(3, 2, 1)}],
     {[items |-> {1, 4}, policy |-> MCOpen, budget |-> MCWindow(6, 2, 1)]} >>
MCFeatured == Requests([items |-> {1, 4}, policy |-> MCOpen, budget |-> MCWindow(8, 1, 0)])

MCAbove == [p \in Files |-> IF p = deep THEN {sub} ELSE {}]
MCOrder == <<vault, git, top, deep>>
MCSize == [c \in Contents |-> IF c = huge THEN 3 ELSE 1]
MCRule(ps, neg) == [paths |-> ps, negate |-> neg]
MCRules == [c \in Contents |->
              IF c = rulesText THEN <<MCRule({sub}, FALSE), MCRule({top}, TRUE)>> ELSE <<>>]
MCSystem == <<MCRule({git}, FALSE)>>
MCAskedConfig == [include |-> {git}, exclude |-> {top}]
MCConfigs == {MCAskedConfig}
MCTree == [p \in Files |-> IF p = vault THEN rulesText ELSE plain]

MCOutcome == c1 :> "pass" @@ c2 :> "warn"
MCOptions == {[expected |-> Nothing, strict |-> TRUE], [expected |-> c1, strict |-> FALSE]}
MCCheckouts == {CleanAt(c1), CleanAt(c2), [commit |-> c1, dirty |-> TRUE]}
MCLabel == i1 :> c1 @@ i2 :> c2

MCFile(ext, mime, magic) == [ext |-> ext, mime |-> mime, magic |-> magic, named |-> ext # "none",
                             readable |-> TRUE, package |-> FALSE, plsql |-> FALSE]
MCClaims ==
  {MCFile("none", "none", "none"), MCFile("markdown", "markdown", "none"), MCFile("code", "none", "none"),
   [MCFile("code", "none", "none") EXCEPT !.plsql = TRUE], MCFile("markdown", "plain_text", "none"),
   MCFile("markdown", "markdown", "pdf"), MCFile("docx", "none", "zip")}
MCLineKinds ==
  [plain_text |-> {"blank", "text"},
   markdown |-> {"blank", "text", "long", "h1", "h1b", "h2", "fence", "row", "sep", "loose",
                "item"},
   code |-> {"blank", "text", "def"}, plsql |-> {"text", "body", "spec", "sub", "quote", "begin"}]
MCLineCost ==
  [k \in UNION {MCLineKinds[t] : t \in DOMAIN MCLineKinds} |->
     CASE k = "blank" -> 0 [] k = "long" -> 3 [] OTHER -> 1]
MCMaxLines == [plain_text |-> 6, markdown |-> 4, code |-> 6, plsql |-> 5]

-----------------------------------------------------------------------------
(* State constraints: each cuts interleavings that its comment names. *)

\* Backups are interchangeable: r1 starts first.  Drills start when both backups
\* are over and time stands still, and the first drill takes the older slot and
\* the first database.
DrillsLast == subject = "backup" =>
  /\ sched[r2].pc # "idle" => sched[r1].pc # "idle"
  /\ (\E x \in Drills : drill[x].pc # "idle") =>
       /\ now = MaxTime
       /\ \A r \in BackupRuns :
             sched[r].pc = "ended" /\ tool[r].pc \in {"idle", "passed", "failed", "killed"}
       /\ drill[x1].pc # "idle" /\ drill[x1].db = t1
       /\ drill[x2].pc # "idle" => drill[x1].slot < drill[x2].slot

\* Revisions are interchangeable: they are drafted in order.  Routes and contexts
\* are looked at once the last manifest is current and some knowledge is approved.
KnowledgeFirst == subject = "knowledge" =>
  LET working == \E a \in Attempts : claim[a] # "none" IN
  /\ rev[kv2].status # "none" => rev[kv1].status # "none"
  /\ rev[kv3].status # "none" => rev[kv2].status # "none"
  /\ \A s \in Sessions : approval[s].status \in {"none", "REVIEWED"}
  /\ working \/ route # "absent" => head # NoRevision /\ manifest.version = MaxManifests
  /\ working => route # "absent" /\ approval[ks2] = NoApproval

\* Revisions are proposed in order, the second thread reviews only the first of
\* them, and only that one may expire.
OneLateReview == subject = "ledger" =>
  /\ note[kv2].status # "none" => note[kv1].status # "none"
  /\ note[kv3].status # "none" => note[kv2].status # "none"
  /\ copy[ks2] # NoCopy => copy[ks2].of = kv1
  /\ \A n \in Notes : note[n].status = "EXPIRED" => n = kv1

\* Any request may be the first one; what follows it (projections, handoffs,
\* intents) is explored after the requests MCFeatured alone.
ContextsFirst == subject = "context" =>
  LET fresh == clock = 0 /\ holder.token = 1 /\ holder.revision = 1
  IN  \/ Len(contexts) + refused = 1 /\ projected = {} /\ handoffs = {} /\ fresh
      \/ Len(contexts) + refused = 0 /\ fresh
      \/ refused = 0 /\ contexts # <<>> /\ contexts[1].request \in MCFeatured

\* Edits of the gate's inputs and the passing of days are looked at apart.
EditOrExpire == subject = "evaluation" => edits + today <= 1

\* The second scan is of the first one's kind and starts after it; beside a running scan only if both
\* are scans of the directory; and while no job is open when it reads.
FirstScanFirst == subject = "scan" =>
  /\ scan[sc2].pc # "idle" => scan[sc1].pc # "idle" /\ scan[sc2].kind = scan[sc1].kind
  /\ scan[sc2].pc # "idle" /\ Running(sc1) => scan[sc1].kind = "directory"
  /\ \A s \in Scans : scan[s].pc \in {"load", "copy"} =>
       \A v \in DOMAIN versions : versions[v].status # "pending"

\* Tools run in the order of a release.  Either the image is released
\* (a tag exists) or the repository is verified, each verifier once, and moves
\* of the checkout count once a tool has run: two of them around the subject,
\* or away from the first commit and back.
OneRelease == subject = "release" =>
  LET has(x) == paper[x] # Nothing
      runs(t) == job[t] # NoJob
      first == "verify_api_scope"
      ours == paper["subject"] IN
  /\ moves > 0 => jobs > 0
  /\ checkout.dirty /\ tag # Nothing => jobs > 1
  /\ tag = Nothing =>
       /\ papers <= 4 /\ (papers > 3 => (runs("release") /\ moves = 0))
       /\ moves > 1 => checkout = CleanAt(c1)
       /\ ~runs("subject") /\ ~runs("image") /\ ~runs("candidate")
       /\ runs("verifier") => ~has(job["verifier"].component)
       /\ \A k \in Components :
            has(k) \/ has("remote") => has(first) /\ (has(k) => paper[k].strict = paper[first].strict)
       /\ has("verify_migrations") => has("generate_verified_status")
       /\ has("evaluation") => /\ has("remote")
                             /\ \A k \in Components : has(k)
                             /\ (paper["evaluation"].passed \/ moves = 0)
       /\ runs("release") => has("transfer")
  /\ tag # Nothing =>
       /\ \A x \in Components \cup {"evaluation", "remote"} : ~has(x)
       /\ ~runs("verifier") /\ ~runs("release")
       /\ moves > 1 => \/ runs("subject")
                       \/ has("subject") /\ (ours.away \/ ours.files # CleanAt(ours.source))
       /\ has("scan") => has("sbom")
       /\ runs("subject") => has("scan")
       /\ papers > 3 => has("subject")
       /\ runs("image") \/ has("image") => has("bundle")
       /\ has("other") => has("image") /\ (paper["other"].passed \/ paper["other"].digest = Nothing)
       /\ runs("candidate") => has("manifest")
=============================================================================
