----------------------------- MODULE ReleaseGate -----------------------------
(***************************************************************************)
(* The release tools: the repository verifiers and their aggregate         *)
(* (scripts/verifier_core.py) and the image and release-candidate gates    *)
(* (scripts/a11_release_gate.py).  Each tool is a row of looks at a        *)
(* checkout, an image tag and files that others change in between; one it  *)
(* cannot accept ends the tool without output.                             *)
(***************************************************************************)
EXTENDS Integers, Sequences, FiniteSets

CONSTANTS Commits, FirstCommit,
          Checkouts,   \* states the working tree may be brought into
          Outcome,        \* what the checks find on a commit: pass, warn or fail
          Risky,          \* commits whose register holds an open P0 or P1 risk
          Images, LabelOf,  \* image digests and their OCI revision label
          Vulnerable,     \* images with a HIGH or CRITICAL finding
          Components,     \* the verifiers whose reports a release needs
          Green,          \* commits whose workflows GitHub confirms
          MainProtected,  \* the ruleset of main is the required one
          Options,        \* --expected-sha (Nothing when left out) and --strict
          Nothing,
          MaxMoves,       \* bound: checkouts and edits of tracked files
          MaxJobs,        \* bound: tools started
          MaxRunning,     \* bound: tools running at once
          MaxPapers       \* bound: files written by others

ASSUME ReleaseAssumption ==
    /\ Checkouts \subseteq [commit : Commits, dirty : BOOLEAN]
    /\ FirstCommit \in Commits /\ {Risky, Green} \subseteq SUBSET Commits
    /\ Outcome \in [Commits -> {"pass", "warn", "fail"}]
    /\ LabelOf \in [Images -> Commits] /\ Vulnerable \subseteq Images
    /\ Nothing \notin Commits \cup Images
    /\ MainProtected \in BOOLEAN
    /\ Options \subseteq [expected : Commits \cup {Nothing}, strict : BOOLEAN]
    /\ {MaxMoves, MaxJobs, MaxRunning, MaxPapers} \subseteq Nat
    /\ IsFiniteSet(Components)
    /\ Components \cap {"sbom", "scan", "subject", "bundle", "image", "other", "manifest",
                       "evaluation", "transfer", "remote", "head", "tag", "files", "again",
                       "cosign", "risks", "clean", "checks", "hash"} = {}

\* checkout: HEAD and whether a tracked file differs from it.  tag: the image the
\* reference names.  paper: the evidence files.  job: the tools that run.
\* signed: the subjects the CI workflow has signed.  candidates, releases: the
\* receipts of the two gates.  moves, jobs, papers: counted for the bounds.
VARIABLES checkout, tag, paper, job, signed, candidates, releases, moves, jobs, papers
releaseVars == <<checkout, tag, paper, job, signed, candidates, releases, moves, jobs, papers>>

Tools == {"subject", "image", "candidate", "verifier", "release"}
CleanAt(c) == [commit |-> c, dirty |-> FALSE]
NoJob == [step |-> 0]

ReleaseInit ==
    /\ checkout = CleanAt(FirstCommit)
    /\ tag = Nothing
    /\ paper = [x \in {"sbom", "scan", "subject", "bundle", "image", "other", "manifest",
                       "evaluation", "transfer", "remote"} \cup Components |-> Nothing]
    /\ job = [t \in Tools |-> NoJob]
    /\ signed = {} /\ candidates = {} /\ releases = {}
    /\ moves = 0 /\ jobs = 0 /\ papers = 0

-----------------------------------------------------------------------------
(* The tools.                                                              *)

\* verify_spec's verifiers take --strict; the three older ones do not show it, and
\* verify_migrations reads HEAD last and never whether the tree is clean.
Legacy == {"generate_verified_status", "verify_baseline", "verify_migrations"}

\* The looks of each tool in the order of its code.
ComponentSeq == CHOOSE s \in [1 .. Cardinality(Components) -> Components] :
                    {s[i] : i \in DOMAIN s} = Components
Looks(t, component) ==
    CASE t = "subject" -> <<"head", "tag", "sbom", "scan", "files", "again">>
      [] t = "image" -> <<"subject", "sbom", "scan", "bundle", "head", "cosign", "again">>
      [] t = "candidate" -> <<"manifest", "risks", "head", "image", "other", "clean">>
      [] t = "verifier" -> IF component = "verify_migrations" THEN <<"checks", "head">>
                           ELSE <<"head", "checks", "remote">>
      [] t = "release" -> <<"head">> \o ComponentSeq \o <<"evaluation", "transfer", "hash">>
LooksOf(t) == Looks(t, job[t].component)

ImageEvidence == [x \in {"subject", "sbom", "scan", "bundle"} |-> paper[x]]

\* What a look finds.
Found(t, look) ==
    CASE look \in {"head", "files", "risks", "clean", "checks"} -> checkout
      [] look = "again" -> IF t = "subject" THEN checkout ELSE ImageEvidence
      [] look = "tag" -> tag
      [] look = "cosign" -> ImageEvidence
      [] look = "hash" -> paper["evaluation"]
      [] OTHER -> paper[look]

\* create_image_subject: a clean HEAD, an image labelled with it, SBOM and scan
\* of that image.
SubjectHolds(look, found, seen) ==
    CASE look = "head" -> ~found.dirty
      [] look = "tag" -> found # Nothing /\ LabelOf[found] = seen["head"].commit
      [] look = "scan" -> found = seen["tag"] /\ seen["sbom"] = seen["tag"]
      [] look = "again" -> found = seen["head"]
      [] OTHER -> TRUE

\* Mutant: the checkout is not looked at again after Dockerfile and lockfile.
FirstLookHolds(look, found, seen) ==
    look = "again" \/ SubjectHolds(look, found, seen)
SubjectLookHolds(look, found, seen) == SubjectHolds(look, found, seen)

\* verify_image_evidence: the subject is HEAD's and binds the evidence that was
\* read; cosign accepts the files, and they are still the ones read.
ImageLookHolds(look, found, seen) ==
    CASE look \in {"subject", "sbom", "scan", "bundle"} -> found # Nothing
      [] look = "head" ->
           LET s == seen["subject"] IN
           /\ s.source = found.commit
           /\ {s.sbom, s.scan, seen["sbom"], seen["scan"]} = {s.digest}
      [] look = "cosign" -> found["bundle"] = found["subject"]
      [] look = "again" -> \A x \in DOMAIN found : found[x] = seen[x]

\* evaluate_release_candidate: a manifest of HEAD, and each receipt as the
\* manifest hashes it, of HEAD, binding no second image.
CandidateLookHolds(look, found, seen) ==
    CASE look = "manifest" -> found # Nothing
      [] look = "head" -> seen["manifest"].source = found.commit
      [] look \in {"image", "other"} ->
           /\ found # Nothing /\ found = seen["manifest"].receipts[look]
           /\ found.source = seen["head"].commit
           /\ look = "other" => found.digest \in {Nothing, seen["image"].digest}
      [] OTHER -> TRUE

\* A verifier and the aggregate judge at their end; what they cannot accept
\* fails in the report.
LookHolds(t, look, found, seen) ==
    CASE t = "subject" -> SubjectLookHolds(look, found, seen)
      [] t = "image" -> ImageLookHolds(look, found, seen)
      [] t = "candidate" -> CandidateLookHolds(look, found, seen)
      [] OTHER -> TRUE

StartJob(t, component, o) ==
    /\ jobs < MaxJobs /\ job[t] = NoJob
    /\ Cardinality({x \in Tools : job[x] # NoJob}) < MaxRunning
    /\ jobs' = jobs + 1
    /\ job' = [job EXCEPT ![t] = [step |-> 1, component |-> component, expected |-> o.expected,
                                  strict |-> o.strict, seen |-> << >>, since |-> moves]]
    /\ UNCHANGED <<checkout, tag, paper, signed, candidates, releases, moves, papers>>

TakeLook(t) ==
    LET j == job[t] IN
    /\ j # NoJob /\ j.step \in DOMAIN LooksOf(t)
    /\ LET look == LooksOf(t)[j.step]  found == Found(t, look)
           seen == [x \in DOMAIN j.seen \cup {look} |-> IF x = look THEN found ELSE j.seen[x]] IN
       job' = [job EXCEPT ![t] =
                 IF LookHolds(t, look, found, j.seen)
                 THEN [j EXCEPT !.step = @ + 1, !.seen = seen]
                 ELSE NoJob]
    /\ UNCHANGED <<checkout, tag, paper, signed, candidates, releases, moves, jobs, papers>>

\* The tool has taken its looks: it writes and ends.
Concludes(t) ==
    /\ job[t] # NoJob /\ job[t].step = Len(LooksOf(t)) + 1
    /\ job' = [job EXCEPT ![t] = NoJob]
    /\ UNCHANGED <<checkout, tag, signed, moves, jobs, papers>>

\* _write_private: the output must be a new file.  The record keeps when it was
\* made, and whether the checkout may have left HEAD and come back meanwhile.
WriteSubject ==
    /\ Concludes("subject")
    /\ LET s == job["subject"].seen IN
       paper' = [paper EXCEPT !["subject"] =
                   IF @ # Nothing THEN @
                   ELSE [source |-> s["head"].commit, digest |-> s["tag"], sbom |-> s["sbom"],
                         scan |-> s["scan"], files |-> s["files"], made |-> jobs,
                         away |-> moves - job["subject"].since > 1]]
    /\ UNCHANGED <<candidates, releases>>

WriteImageReceipt ==
    /\ Concludes("image")
    /\ LET s == job["image"].seen["subject"] IN
       paper' = [paper EXCEPT !["image"] =
                   IF @ # Nothing THEN @
                   ELSE [source |-> s.source, digest |-> s.digest, subject |-> s,
                         passed |-> s.digest \notin Vulnerable]]
    /\ UNCHANGED <<candidates, releases>>

\* PASS: every receipt passed, no open blocking risk, a clean tree at the end.
WriteCandidateReceipt ==
    /\ Concludes("candidate")
    /\ LET s == job["candidate"].seen IN
       candidates' = candidates \cup
         {[source |-> s["head"].commit, digest |-> s["image"].digest,
           receipt |-> s["image"], risks |-> s["risks"],
           quiet |-> moves = job["candidate"].since,
           passed |-> /\ s["image"].passed /\ s["other"].passed /\ ~s["clean"].dirty
                      /\ s["risks"].commit \notin Risky \/ s["risks"].dirty]}
    /\ UNCHANGED <<paper, releases>>

\* expected_sha or head.
ExpectedOf(t) ==
    LET j == job[t] IN IF j.expected = Nothing THEN j.seen["head"].commit ELSE j.expected
HeadAsExpected(t) == job[t].seen["head"] = CleanAt(ExpectedOf(t))

\* The status tool: the receipts of the remote workflows and of the main ruleset
\* are HEAD's, and GitHub itself confirms them.
WorkflowsConfirmed(receipt, head) == receipt = head /\ head \in Green
RulesetConfirmed(receipt, head) == receipt = head /\ MainProtected

\* What the checks may find, and what fails a report: a dirty tree may do
\* anything, a warning fails under --strict alone.
MayFind(ran) == IF ran.dirty THEN {"pass", "fail"} ELSE {Outcome[ran.commit]}
Fails(outcome, strict) == outcome = "fail" \/ (strict /\ outcome = "warn")

\* verify_spec, verify (baseline, migrations), main (status).
WriteReport ==
    /\ Concludes("verifier")
    /\ LET j == job["verifier"]  s == j.seen  ran == s["checks"]  late == j.component = "verify_migrations" IN
       \E outcome \in MayFind(ran) :
         paper' = [paper EXCEPT ![j.component] =
                     [commit |-> s["head"].commit, strict |-> j.strict, quiet |-> moves = j.since,
                      clean |-> late \/ ~s["head"].dirty,
                      passed |-> /\ late \/ HeadAsExpected("verifier")
                                 /\ ~Fails(outcome, j.strict)
                                 /\ j.component = "generate_verified_status" =>
                                      /\ WorkflowsConfirmed(s["remote"], s["head"].commit)
                                      /\ RulesetConfirmed(s["remote"], s["head"].commit)]]
    /\ UNCHANGED <<candidates, releases>>

\* Mutant: a report of another commit counts.
ReportOfAnyCommit(k, report, expected, strict) ==
    report # Nothing /\ report.passed /\ report.clean /\ (strict => report.strict \/ k \in Legacy)
ReportHolds(k, report, expected, strict) ==
    /\ report # Nothing /\ report.passed /\ report.clean
    /\ report.commit = expected
    /\ strict => report.strict \/ k \in Legacy

\* verify_release, _legacy_evidence_errors.
WriteRelease ==
    /\ Concludes("release")
    /\ LET j == job["release"]  s == j.seen  expected == ExpectedOf("release") IN
       releases' = releases \cup
         {[expected |-> expected, strict |-> j.strict,
           reports |-> [k \in Components |-> s[k]],
           passed |->
             /\ HeadAsExpected("release")
             /\ \A k \in Components : ReportHolds(k, s[k], expected, j.strict)
             /\ s["evaluation"] # Nothing /\ s["transfer"] # Nothing
             /\ s["evaluation"].commit = expected /\ s["evaluation"].passed
             /\ s["transfer"].commit = expected /\ s["transfer"].of = s["hash"]]}
    /\ UNCHANGED <<paper, candidates>>

-----------------------------------------------------------------------------
(* Everyone else.                                                          *)

Move(there) ==
    /\ moves < MaxMoves /\ there # checkout
    /\ moves' = moves + 1
    /\ checkout' = there
    /\ UNCHANGED <<tag, paper, job, signed, candidates, releases, jobs, papers>>

Write(x, content) ==
    /\ papers < MaxPapers /\ paper[x] # content
    /\ papers' = papers + 1
    /\ paper' = [paper EXCEPT ![x] = content]
    /\ UNCHANGED <<checkout, tag, job, candidates, releases, moves, jobs>>

\* docker build on a clean checkout.
BuildImage(i) ==
    /\ tag # i /\ checkout = CleanAt(LabelOf[i])
    /\ tag' = i
    /\ UNCHANGED <<checkout, paper, job, signed, candidates, releases, moves, jobs, papers>>

\* Trivy and cosign in the workflow; a rerun removes the outputs of the last one.
ScanImage(x) == tag # Nothing /\ Write(x, tag) /\ UNCHANGED signed
SignSubject ==
    /\ paper["subject"] # Nothing
    /\ Write("bundle", paper["subject"])
    /\ signed' = signed \cup {paper["subject"]}
RemoveOutput(x) == Write(x, Nothing) /\ UNCHANGED signed

\* The receipts of the other gates and the manifest are made by hand; run_eval
\* and its receipt check as in EvalGate.
IssueOther(passed, digest) ==
    /\ digest \in {Nothing, tag}
    /\ Write("other", [source |-> checkout.commit, digest |-> digest, passed |-> passed])
    /\ UNCHANGED signed
WriteReleaseManifest ==
    /\ paper["image"] # Nothing /\ paper["other"] # Nothing
    /\ Write("manifest", [source |-> checkout.commit,
                          receipts |-> [x \in {"image", "other"} |-> paper[x]]])
    /\ UNCHANGED signed
ReceiveRemote == Write("remote", checkout.commit) /\ UNCHANGED signed
Evaluate(passed) ==
    Write("evaluation", [commit |-> checkout.commit, passed |-> passed]) /\ UNCHANGED signed
CheckTransfer ==
    /\ paper["evaluation"] # Nothing
    /\ Write("transfer", [commit |-> checkout.commit, of |-> paper["evaluation"]])
    /\ UNCHANGED signed

ReleaseNext ==
    \/ \E t \in {"subject", "image", "candidate"} : StartJob(t, Nothing, [expected |-> Nothing, strict |-> FALSE])
    \/ \E o \in Options :
          \/ StartJob("release", Nothing, o)
          \/ \E k \in Components : StartJob("verifier", k, o)
    \/ \E t \in Tools : TakeLook(t)
    \/ WriteSubject \/ WriteImageReceipt \/ WriteCandidateReceipt \/ WriteReport \/ WriteRelease
    \/ \E there \in Checkouts : Move(there)
    \/ \E i \in Images : BuildImage(i)
    \/ \E x \in {"sbom", "scan"} : ScanImage(x)
    \/ SignSubject
    \/ \E x \in {"subject", "image"} : RemoveOutput(x)
    \/ \E passed \in BOOLEAN, digest \in Images \cup {Nothing} : IssueOther(passed, digest)
    \/ WriteReleaseManifest
    \/ \E passed \in BOOLEAN : Evaluate(passed)
    \/ CheckTransfer
    \/ ReceiveRemote

ReleaseSpec == ReleaseInit /\ [][ReleaseNext]_releaseVars
-----------------------------------------------------------------------------
\* A candidate that passes is one image built from its commit, with no critical
\* finding, whose subject was signed and names the Dockerfile and lockfile of
\* that commit (unless the checkout went away and came back while it was made);
\* and if the checkout stood still the risks were that commit's.
CandidateBacked(c) ==
    /\ LabelOf[c.digest] = c.source /\ c.digest \notin Vulnerable
    /\ \E s \in signed :
         /\ s = c.receipt.subject /\ s.digest = c.digest /\ s.source = c.source
         /\ s.away \/ s.files = CleanAt(c.source)
    /\ c.quiet => c.risks = CleanAt(c.source) /\ c.source \notin Risky

\* The reports of a release that passes are of one commit, GitHub confirms it, and
\* each verifier passed on it if the checkout stood still meanwhile; the strict
\* ones without a warning.
ReleaseOfOneCommit(r) ==
    \A k \in Components :
      LET report == r.reports[k] IN
      /\ report.commit = r.expected
      /\ report.quiet /\ k # "verify_migrations" =>
           Outcome[r.expected] \in {"pass"} \cup IF report.strict THEN {} ELSE {"warn"}
      /\ r.strict => report.strict \/ k \in Legacy
      /\ k = "generate_verified_status" => r.expected \in Green /\ MainProtected

\* However checkout, image tag and evidence files change between the looks of
\* the gates, what passes them is one commit and one image.
ReleaseBacked ==
    /\ \A c \in candidates : c.passed => CandidateBacked(c)
    /\ \A r \in releases : r.passed => ReleaseOfOneCommit(r)
=============================================================================
