--------------------------- MODULE EvaluationProofs ---------------------------
(***************************************************************************)
(* Proofs about ReleaseGate, for any commits, images, verifiers and        *)
(* outcomes and any number of tools, moves and edits, and about EvalGate,  *)
(* for any number of invocations, runs, reviews, edits and days; and about *)
(* BenchmarkRun, for any pack, number of requests, limits and lost replies.*)
(***************************************************************************)
EXTENDS ReleaseGate, EvalGate, BenchmarkRun, FiniteSetTheorems, TLAPS

-----------------------------------------------------------------------------
(***************************************************************************)
(* The gates of a release: the inductive invariant                         *)
(***************************************************************************)

\* A subject of an image is of the commit the image was built from, with the files of that
\* commit unless the checkout went away and came back; and no later one is equal to it.
SubjectBacked(s) ==
    /\ LabelOf[s.digest] = s.source
    /\ s.away \/ s.files = CleanAt(s.source)
SubjectPast(s) == s.made \in Nat /\ s.made <= jobs /\ (job["subject"] # NoJob => s.made < jobs)
PaperOK ==
    /\ paper["subject"] # Nothing =>
         SubjectBacked(paper["subject"]) /\ SubjectPast(paper["subject"])
    /\ \A s \in signed : SubjectBacked(s)
    /\ paper["bundle"] \in signed \cup {Nothing}

\* An image receipt is about a signed subject.
ImageBacked(i) ==
    /\ i.subject \in signed /\ i.source = i.subject.source /\ i.digest = i.subject.digest
    /\ i.passed => i.digest \notin Vulnerable

\* A report that passed while the checkout stood still is what its checks find on the commit.
ReportBacks(k, report) ==
    report.passed =>
      /\ report.quiet /\ k # "verify_migrations" =>
           Outcome[report.commit] \in {"pass"} \cup IF report.strict THEN {} ELSE {"warn"}
      /\ k = "generate_verified_status" => report.commit \in Green /\ MainProtected

ReceiptsOK ==
    /\ paper["image"] # Nothing => ImageBacked(paper["image"])
    /\ \A k \in Components : paper[k] # Nothing => ReportBacks(k, paper[k])

\* The looks a tool has taken: what it saw of the checkout is what the checkout is, unless it
\* moved meanwhile.
Away(j) == moves - j.since
LookTaken(t, j, look) ==
    \E i \in DOMAIN Looks(t, j.component) : Looks(t, j.component)[i] = look /\ i < j.step

SubjectJobOK(j) ==
    LET first == j.seen["head"]  files == j.seen["files"] IN
    j # NoJob =>
      /\ j.step > 1 => ~first.dirty /\ first = CleanAt(first.commit)
                       /\ (checkout # first => Away(j) >= 1)
      /\ j.step > 2 => j.seen["tag"] # Nothing /\ LabelOf[j.seen["tag"]] = first.commit
      /\ j.step > 5 /\ files # first => Away(j) >= 1 /\ (checkout = first => Away(j) >= 2)
      /\ j.step > 6 /\ files # first => Away(j) >= 2

ImageJobOK(j) ==
    LET s == j.seen["subject"]  cosign == j.seen["cosign"] IN
    j # NoJob =>
      /\ j.step > 1 => s # Nothing /\ SubjectBacked(s) /\ SubjectPast(s)
      /\ j.step > 6 => /\ cosign["bundle"] = cosign["subject"]
                       /\ cosign["bundle"] \in signed \cup {Nothing}
                       /\ paper["subject"] = s => cosign["subject"] = s
      /\ j.step > 7 => s \in signed

CandidateJobOK(j) ==
    LET first == j.seen["head"] IN
    j # NoJob =>
      /\ Away(j) = 0 => /\ j.step > 2 => j.seen["risks"] = checkout
                        /\ j.step > 3 => first = checkout
                        /\ j.step > 6 => j.seen["clean"] = checkout
      /\ j.step > 4 => /\ ImageBacked(j.seen["image"])
                       /\ j.seen["image"].source = first.commit
      /\ j.step > 6 => j.seen["clean"] = CleanAt(j.seen["clean"].commit) \/ j.seen["clean"].dirty

VerifierJobOK(j) ==
    j # NoJob =>
      /\ j.component \in Components
      /\ Away(j) = 0 => \A look \in {"head", "checks"} :
                          LookTaken("verifier", j, look) => j.seen[look] = checkout

ReleaseJobOK(j) ==
    j # NoJob => \A k \in Components :
       LookTaken("release", j, k) /\ j.seen[k] # Nothing => ReportBacks(k, j.seen[k])

\* A running tool has its looks behind it.
JobOK(t) ==
    LET j == job[t] IN
    j # NoJob =>
      /\ DOMAIN j = {"step", "component", "expected", "strict", "seen", "since"}
      /\ j.step \in 1 .. Len(LooksOf(t)) + 1
      /\ j.since \in Nat /\ j.since <= moves
      /\ \A i \in DOMAIN LooksOf(t) : i < j.step => LooksOf(t)[i] \in DOMAIN j.seen
JobsOK ==
    /\ \A t \in Tools : JobOK(t)
    /\ SubjectJobOK(job["subject"]) /\ ImageJobOK(job["image"])
    /\ CandidateJobOK(job["candidate"]) /\ VerifierJobOK(job["verifier"])
    /\ ReleaseJobOK(job["release"])

ReleaseTypeOK ==
    /\ checkout \in [commit : Commits, dirty : BOOLEAN]
    /\ DOMAIN paper = {"sbom", "scan", "subject", "bundle", "image", "other", "manifest",
                       "evaluation", "transfer", "remote"} \cup Components
    /\ paper = [x \in DOMAIN paper |-> paper[x]]
    /\ job = [t \in Tools |-> job[t]]
    /\ jobs \in Nat /\ moves \in Nat

ReleaseInv ==
    /\ ReleaseTypeOK /\ PaperOK /\ ReceiptsOK /\ JobsOK
    /\ ReleaseBacked

-----------------------------------------------------------------------------
(***************************************************************************)
(* Looks                                                                   *)
(***************************************************************************)

\* The looks of the tools that take no component.
LEMMA FixedLooks ==
    /\ LooksOf("subject") = <<"head", "tag", "sbom", "scan", "files", "again">>
    /\ LooksOf("image") = <<"subject", "sbom", "scan", "bundle", "head", "cosign", "again">>
    /\ LooksOf("candidate") = <<"manifest", "risks", "head", "image", "other", "clean">>
    /\ LooksOf("release") = <<"head">> \o ComponentSeq \o <<"evaluation", "transfer", "hash">>
BY DEF LooksOf, Looks

\* Their numbers.
LEMMA FixedLens ==
    /\ Len(LooksOf("subject")) + 1 = 7 /\ Len(LooksOf("image")) + 1 = 8
    /\ Len(LooksOf("candidate")) + 1 = 7
<1>1. \A u, w : u = w => Len(u) + 1 = Len(w) + 1 OBVIOUS
<1>2. /\ Len(<<"head", "tag", "sbom", "scan", "files", "again">>) + 1 = 7
      /\ Len(<<"subject", "sbom", "scan", "bundle", "head", "cosign", "again">>) + 1 = 8
      /\ Len(<<"manifest", "risks", "head", "image", "other", "clean">>) + 1 = 7
    OBVIOUS
<1>3. Len(LooksOf("subject")) + 1 = 7 BY <1>1, <1>2, FixedLooks
<1>4. Len(LooksOf("image")) + 1 = 8 BY <1>1, <1>2, FixedLooks
<1>5. Len(LooksOf("candidate")) + 1 = 7 BY <1>1, <1>2, FixedLooks
<1> QED BY <1>3, <1>4, <1>5

\* Of a verifier.
LEMMA VerifierLooks ==
    /\ job["verifier"].component = "verify_migrations" => LooksOf("verifier") = <<"checks", "head">>
    /\ job["verifier"].component # "verify_migrations" =>
         LooksOf("verifier") = <<"head", "checks", "remote">>
BY DEF LooksOf, Looks

\* The items of two sequences joined.
LEMMA Joined ==
    ASSUME NEW S, NEW s \in Seq(S), NEW u \in Seq(S)
    PROVE /\ s \o u \in Seq(S) /\ Len(s \o u) = Len(s) + Len(u)
          /\ \A i \in 1 .. Len(s) + Len(u) :
               (s \o u)[i] = IF i <= Len(s) THEN s[i] ELSE u[i - Len(s)]
OBVIOUS

\* The aggregate looks at each component once.
LEMMA ReleaseLooks ==
    LET n == Cardinality(Components) looks == LooksOf("release") IN
    /\ n \in Nat /\ Len(looks) = n + 4
    /\ looks \in Seq({"head", "evaluation", "transfer", "hash"} \cup Components)
    /\ \A k \in Components : \E i \in 2 .. n + 1 : looks[i] = k
    /\ \A i \in 1 .. n + 4 :
         looks[i] \in Components \/ looks[i] \in {"head", "evaluation", "transfer", "hash"}
<1> DEFINE n == Cardinality(Components)
           s == ComponentSeq
           looks == LooksOf("release")
<1>1. n \in Nat /\ \E f : f \in Bijection(1 .. n, Components)
    BY ReleaseAssumption, FS_CardinalityType DEF ExistsBijection
<1>2. \E f \in [1 .. n -> Components] : {f[i] : i \in DOMAIN f} = Components
  <2>1. PICK f : f \in Bijection(1 .. n, Components) BY <1>1
  <2>2. f \in [1 .. n -> Components] /\ \A k \in Components : \E i \in 1 .. n : f[i] = k
      BY <2>1 DEF Bijection, Surjection, Injection, IsInjective
  <2> QED BY <2>2
<1>3. s \in [1 .. n -> Components] /\ {s[i] : i \in DOMAIN s} = Components
    BY <1>2 DEF ComponentSeq
<1>4. looks = <<"head">> \o s \o <<"evaluation", "transfer", "hash">> BY FixedLooks
<1> HIDE DEF n, s, looks
<1>5. s \in Seq(Components) /\ Len(s) = n /\ DOMAIN s = 1 .. n BY <1>1, <1>3
<1> DEFINE A == {"head", "evaluation", "transfer", "hash"} \cup Components
<1>6. <<"head">> \o s \in Seq(A) /\ Len(<<"head">> \o s) = n + 1
      /\ (<<"head">> \o s)[1] = "head"
      /\ \A i \in 2 .. n + 1 : (<<"head">> \o s)[i] = s[i - 1]
  <2>1. <<"head">> \in Seq(A) /\ s \in Seq(A) BY <1>5
  <2> QED BY <1>1, <1>5, <2>1
<1> DEFINE u == <<"head">> \o s
           e == <<"evaluation", "transfer", "hash">>
<1>7. e \in Seq(A) /\ Len(e) = 3 /\ \A i \in 1 .. 3 : e[i] \in {"evaluation", "transfer", "hash"}
    OBVIOUS
<1>8. u \in Seq(A) /\ Len(u) = n + 1 /\ looks = u \o e BY <1>4, <1>6
<1> HIDE DEF u, e, A
<1>9. looks \in Seq(A) /\ Len(looks) = n + 4
      /\ (\A i \in 1 .. n + 1 : looks[i] = u[i])
      /\ \A i \in n + 2 .. n + 4 : looks[i] = e[i - (n + 1)]
  <2>1. u \in Seq(A) /\ e \in Seq(A) BY <1>7, <1>8
  <2>2. u \o e \in Seq(A) /\ Len(u \o e) = Len(u) + Len(e) BY <2>1, Joined
  <2>3. \A i \in 1 .. Len(u) + Len(e) :
          (u \o e)[i] = IF i <= Len(u) THEN u[i] ELSE e[i - Len(u)]
      BY <2>1, Joined
  <2>4. (n + 1) + 3 = n + 4 BY <1>1
  <2>5. \A i \in 1 .. n + 1 : i \in 1 .. (n + 1) + 3 /\ i <= n + 1 BY <1>1
  <2>6. \A i \in n + 2 .. n + 4 : i \in 1 .. (n + 1) + 3 /\ ~(i <= n + 1) BY <1>1
  <2> QED BY <1>7, <1>8, <2>2, <2>3, <2>4, <2>5, <2>6
<1>10. \A k \in Components : \E i \in 2 .. n + 1 : looks[i] = k
  <2> SUFFICES ASSUME NEW k \in Components PROVE \E i \in 2 .. n + 1 : looks[i] = k
      OBVIOUS
  <2>1. PICK i \in 1 .. n : s[i] = k BY <1>3, <1>5
  <2>2. i + 1 \in 2 .. n + 1 /\ (i + 1) - 1 = i BY <1>1
  <2>3. looks[i + 1] = k BY <1>1, <1>6, <1>9, <2>1, <2>2 DEF u
  <2> QED BY <2>2, <2>3
<1>11. ASSUME NEW i \in 1 .. n + 4
       PROVE looks[i] \in Components \/ looks[i] \in {"head", "evaluation", "transfer", "hash"}
  <2>1. CASE i = 1 BY <1>1, <1>6, <1>9, <2>1 DEF u
  <2>2. CASE i \in 2 .. n + 1
    <3>1. i - 1 \in 1 .. n BY <1>1, <2>2
    <3>2. looks[i] = s[i - 1] BY <1>1, <1>6, <1>9, <2>2 DEF u
    <3> QED BY <1>3, <3>1, <3>2
  <2>3. CASE i \in n + 2 .. n + 4
    <3>1. i - (n + 1) \in 1 .. 3 BY <1>1, <2>3
    <3> QED BY <1>7, <1>9, <2>3, <3>1
  <2> QED BY <1>1, <2>1, <2>2, <2>3
<1> QED BY <1>1, <1>9, <1>10, <1>11 DEF n, looks, A

\* Each look is one of the tool's and later looks keep what the earlier ones saw.
LEMMA LookStep ==
    ASSUME ReleaseInv, NEW t \in Tools, TakeLook(t)
    PROVE LET j == job[t]  look == LooksOf(t)[j.step]  g == job'[t] IN
          /\ j # NoJob /\ j.step \in DOMAIN LooksOf(t) /\ JobOK(t)
          /\ \A x \in Tools : x # t => job'[x] = job[x]
          /\ job' = [x \in Tools |-> job'[x]]
          /\ UNCHANGED <<checkout, tag, paper, signed, candidates, releases, moves, jobs, papers>>
          /\ \/ g = NoJob
             \/ /\ LookHolds(t, look, Found(t, look), j.seen)
                /\ g.step = j.step + 1 /\ DOMAIN g = DOMAIN j
                /\ g.component = j.component /\ g.expected = j.expected /\ g.strict = j.strict
                /\ g.since = j.since
                /\ g.seen[look] = Found(t, look) /\ DOMAIN g.seen = DOMAIN j.seen \cup {look}
                /\ \A x \in DOMAIN j.seen : x # look => g.seen[x] = j.seen[x]
<1> DEFINE j == job[t]
           look == LooksOf(t)[j.step]
           found == Found(t, look)
           g == job'[t]
           seen == [x \in DOMAIN j.seen \cup {look} |-> IF x = look THEN found ELSE j.seen[x]]
<1>1. JobOK(t) /\ job = [x \in Tools |-> job[x]]
    BY DEF ReleaseInv, JobsOK, ReleaseTypeOK
<1>2. j # NoJob /\ j.step \in DOMAIN LooksOf(t)
      /\ job' = [job EXCEPT ![t] = IF LookHolds(t, look, found, j.seen)
                                   THEN [j EXCEPT !.step = @ + 1, !.seen = seen] ELSE NoJob]
      /\ UNCHANGED <<checkout, tag, paper, signed, candidates, releases, moves, jobs, papers>>
    BY DEF TakeLook
<1>3. DOMAIN j = {"step", "component", "expected", "strict", "seen", "since"}
    BY <1>1, <1>2 DEF JobOK
<1>4. seen[look] = found /\ DOMAIN seen = DOMAIN j.seen \cup {look}
      /\ \A x \in DOMAIN j.seen : x # look => seen[x] = j.seen[x]
    OBVIOUS
<1> HIDE DEF look, found, seen, j
<1> DEFINE k == [j EXCEPT !.step = j.step + 1, !.seen = seen]
<1>5. /\ k.step = j.step + 1 /\ DOMAIN k = DOMAIN j /\ k.seen = seen
      /\ k.component = j.component /\ k.expected = j.expected /\ k.strict = j.strict
      /\ k.since = j.since
    BY <1>3
<1> HIDE DEF k
<1>6. \A x \in Tools : x # t => job'[x] = job[x] BY <1>1, <1>2
<1>7. job' = [x \in Tools |-> job'[x]] BY <1>1, <1>2
<1>8. g = IF LookHolds(t, look, found, j.seen) THEN k ELSE NoJob
    BY <1>1, <1>2 DEF k
<1> QED BY <1>1, <1>2, <1>4, <1>5, <1>6, <1>7, <1>8 DEF j, look, found

\* The looks of a running tool are a sequence.
LEMMA LooksTyped ==
    ASSUME ReleaseInv, NEW t \in Tools, job[t] # NoJob
    PROVE Len(LooksOf(t)) \in Nat /\ DOMAIN LooksOf(t) = 1 .. Len(LooksOf(t))
<1>1. CASE t \in {"subject", "image", "candidate"} BY <1>1, FixedLooks
<1>2. CASE t = "verifier" BY <1>2, VerifierLooks
<1>3. CASE t = "release"
  <2>1. \E A : LooksOf(t) \in Seq(A) BY <1>3, ReleaseLooks
  <2> QED BY <2>1
<1> QED BY <1>1, <1>2, <1>3 DEF Tools

\* The checkout is a commit with or without edits.
LEMMA CheckoutTyped ==
    ASSUME ReleaseInv
    PROVE /\ checkout.commit \in Commits /\ checkout.dirty \in BOOLEAN
          /\ ~checkout.dirty => checkout = CleanAt(checkout.commit)
BY DEF ReleaseInv, ReleaseTypeOK, CleanAt

\* A job of another tool goes on as it was when the checkout, the papers it needs and the
\* signatures do.
LEMMA JobStays ==
    ASSUME ReleaseInv, NEW t \in Tools, job'[t] = job[t], moves' = moves
    PROVE JobOK(t)'
<1>1. JobOK(t) BY DEF ReleaseInv, JobsOK
<1>2. LooksOf(t)' = LooksOf(t) BY DEF LooksOf
<1> QED BY <1>1, <1>2 DEF JobOK

\* A look that was taken is one more behind its tool, and only the tool's own looks change.
LEMMA TakenJob ==
    ASSUME ReleaseInv, NEW t \in Tools, TakeLook(t)
    PROVE JobOK(t)' /\ (job'[t] # NoJob => LooksOf(t)' = LooksOf(t))
<1> DEFINE j == job[t]
           look == LooksOf(t)[j.step]
           g == job'[t]
<1>1. j # NoJob /\ j.step \in DOMAIN LooksOf(t) /\ JobOK(t) /\ moves' = moves BY LookStep
<1>2. \/ g = NoJob
      \/ /\ g.step = j.step + 1 /\ DOMAIN g = DOMAIN j
         /\ g.component = j.component /\ g.since = j.since
         /\ DOMAIN g.seen = DOMAIN j.seen \cup {look}
    BY LookStep
<1>3. CASE g = NoJob BY <1>3 DEF JobOK
<1>4. CASE g # NoJob
  <2>1. LooksOf(t)' = LooksOf(t) BY <1>2, <1>4 DEF LooksOf
  <2>2. Len(LooksOf(t)) \in Nat /\ DOMAIN LooksOf(t) = 1 .. Len(LooksOf(t)) BY <1>1, LooksTyped
  <2> HIDE DEF look, j, g
  <2>3. g.step \in 1 .. Len(LooksOf(t)) + 1 BY <1>1, <1>2, <1>4, <2>2
  <2>4. \A i \in DOMAIN LooksOf(t) : i < g.step => LooksOf(t)[i] \in DOMAIN g.seen
    <3> SUFFICES ASSUME NEW i \in DOMAIN LooksOf(t), i < g.step PROVE LooksOf(t)[i] \in DOMAIN g.seen
        OBVIOUS
    <3>1. i < j.step => LooksOf(t)[i] \in DOMAIN j.seen BY <1>1 DEF JobOK, j
    <3>2. i < j.step \/ i = j.step BY <1>1, <1>2, <1>4, <2>2
    <3> QED BY <1>2, <1>4, <3>1, <3>2 DEF look
  <2>5. DOMAIN j = {"step", "component", "expected", "strict", "seen", "since"}
        /\ j.since \in Nat /\ j.since <= moves
      BY <1>1 DEF JobOK, j
  <2> QED BY <1>1, <1>2, <1>4, <2>1, <2>3, <2>4, <2>5 DEF JobOK, g
<1> QED BY <1>3, <1>4

\* A subject tool sees a clean HEAD, an image of it, the files, and HEAD again.
LEMMA SubjectTaken ==
    ASSUME ReleaseInv, TakeLook("subject")
    PROVE SubjectJobOK(job'["subject"])
<1> DEFINE j == job["subject"]
           look == LooksOf("subject")[j.step]
           found == Found("subject", look)
           g == job'["subject"]
<1>1. "subject" \in Tools BY DEF Tools
<1>2. /\ j # NoJob /\ j.step \in DOMAIN LooksOf("subject") /\ JobOK("subject")
      /\ UNCHANGED <<checkout, tag, moves>>
      /\ \/ g = NoJob
         \/ /\ LookHolds("subject", look, found, j.seen)
            /\ g.step = j.step + 1 /\ g.since = j.since
            /\ g.seen[look] = found
            /\ \A x \in DOMAIN j.seen : x # look => g.seen[x] = j.seen[x]
    BY <1>1, LookStep
<1>3. /\ j.step \in 1 .. 6
      /\ j.step > 1 => "head" \in DOMAIN j.seen
      /\ j.step > 2 => "tag" \in DOMAIN j.seen
      /\ j.step > 5 => "files" \in DOMAIN j.seen
      /\ look = <<"head", "tag", "sbom", "scan", "files", "again">>[j.step]
  <2>1. DOMAIN LooksOf("subject") = 1 .. 6 /\ LooksOf("subject")[1] = "head"
        /\ LooksOf("subject")[2] = "tag" /\ LooksOf("subject")[5] = "files"
      BY FixedLooks
  <2>2. \A i \in 1 .. 6 : i < j.step => LooksOf("subject")[i] \in DOMAIN j.seen
      BY <1>2, <2>1 DEF JobOK
  <2> QED BY <1>2, <2>1, <2>2, FixedLooks
<1>4. SubjectJobOK(j) /\ moves \in Nat /\ j.since \in Nat /\ j.since <= moves
    BY <1>2 DEF ReleaseInv, JobsOK, JobOK, ReleaseTypeOK
<1>5. \/ look = "head" /\ found = checkout
      \/ look = "tag" /\ found = tag
      \/ look \in {"sbom", "scan"}
      \/ look = "files" /\ found = checkout
      \/ look = "again" /\ found = checkout
    BY <1>3 DEF Found
<1>6. g # NoJob =>
        /\ look = "head" => ~found.dirty
        /\ look = "tag" => found # Nothing /\ LabelOf[found] = j.seen["head"].commit
        /\ look = "again" => found = j.seen["head"]
    BY <1>2 DEF LookHolds, SubjectLookHolds, SubjectHolds
<1>7. ~checkout.dirty => checkout = CleanAt(checkout.commit) BY CheckoutTyped
<1>8. j.step > 1 => ~j.seen["head"].dirty /\ j.seen["head"] = CleanAt(j.seen["head"].commit)
                    /\ (checkout # j.seen["head"] => Away(j) >= 1)
    BY <1>2, <1>4 DEF SubjectJobOK
<1>9. j.step > 2 => j.seen["tag"] # Nothing /\ LabelOf[j.seen["tag"]] = j.seen["head"].commit
    BY <1>2, <1>4 DEF SubjectJobOK
<1>10. j.step > 5 /\ j.seen["files"] # j.seen["head"] =>
          Away(j) >= 1 /\ (checkout = j.seen["head"] => Away(j) >= 2)
    BY <1>2, <1>4 DEF SubjectJobOK
<1>11. Away(j) = moves - j.since /\ (g # NoJob => Away(g) = Away(j)) BY <1>2 DEF Away
<1> SUFFICES ASSUME g # NoJob PROVE SubjectJobOK(g)
    BY DEF SubjectJobOK
<1> HIDE DEF j, look, found, g
<1>12. g.step = j.step + 1 /\ g.seen[look] = found
       /\ \A x \in DOMAIN j.seen : x # look => g.seen[x] = j.seen[x]
    BY <1>2
<1>14. CASE j.step = 1
  <2>1. look = "head" BY <1>3, <1>14
  <2>2. g.step = 2 /\ g.seen["head"] = checkout /\ ~checkout.dirty
      BY <1>5, <1>6, <1>12, <1>14, <2>1
  <2> QED BY <1>7, <2>2 DEF SubjectJobOK
<1>15. CASE j.step = 2
  <2>1. look = "tag" BY <1>3, <1>15
  <2>2. g.step = 3 /\ g.seen["head"] = j.seen["head"] /\ g.seen["tag"] = found
      BY <1>3, <1>12, <1>15, <2>1
  <2>3. found # Nothing /\ LabelOf[found] = j.seen["head"].commit BY <1>6, <2>1
  <2>4. ~j.seen["head"].dirty /\ j.seen["head"] = CleanAt(j.seen["head"].commit)
        /\ (checkout # j.seen["head"] => Away(j) >= 1)
      BY <1>8, <1>15
  <2> QED BY <1>11, <2>2, <2>3, <2>4 DEF SubjectJobOK
<1>16. CASE j.step \in {3, 4}
  <2>1. look \in {"sbom", "scan"} BY <1>3, <1>16
  <2>2. g.step \in {4, 5} /\ g.seen["head"] = j.seen["head"] /\ g.seen["tag"] = j.seen["tag"]
      BY <1>3, <1>12, <1>16, <2>1
  <2>3. ~j.seen["head"].dirty /\ j.seen["head"] = CleanAt(j.seen["head"].commit)
        /\ (checkout # j.seen["head"] => Away(j) >= 1)
        /\ j.seen["tag"] # Nothing /\ LabelOf[j.seen["tag"]] = j.seen["head"].commit
      BY <1>8, <1>9, <1>16
  <2> QED BY <1>11, <2>2, <2>3 DEF SubjectJobOK
<1>17. CASE j.step = 5
  <2>1. look = "files" /\ found = checkout BY <1>3, <1>5, <1>17
  <2>2. g.step = 6 /\ g.seen["head"] = j.seen["head"] /\ g.seen["tag"] = j.seen["tag"]
        /\ g.seen["files"] = checkout
      BY <1>3, <1>12, <1>17, <2>1
  <2>3. ~j.seen["head"].dirty /\ j.seen["head"] = CleanAt(j.seen["head"].commit)
        /\ (checkout # j.seen["head"] => Away(j) >= 1)
        /\ j.seen["tag"] # Nothing /\ LabelOf[j.seen["tag"]] = j.seen["head"].commit
      BY <1>8, <1>9, <1>17
  <2> QED BY <1>11, <2>2, <2>3 DEF SubjectJobOK
<1>18. CASE j.step = 6
  <2>1. look = "again" /\ checkout = j.seen["head"] BY <1>3, <1>5, <1>6, <1>18
  <2>2. g.step = 7 /\ g.seen["head"] = j.seen["head"] /\ g.seen["tag"] = j.seen["tag"]
        /\ g.seen["files"] = j.seen["files"]
      BY <1>3, <1>12, <1>18, <2>1
  <2>3. ~j.seen["head"].dirty /\ j.seen["head"] = CleanAt(j.seen["head"].commit)
        /\ j.seen["tag"] # Nothing /\ LabelOf[j.seen["tag"]] = j.seen["head"].commit
      BY <1>8, <1>9, <1>18
  <2>4. j.seen["files"] # j.seen["head"] => Away(j) >= 2 /\ Away(j) >= 1
      BY <1>4, <1>10, <1>11, <1>18, <2>1
  <2> QED BY <1>11, <2>1, <2>2, <2>3, <2>4 DEF SubjectJobOK
<1> QED BY <1>3, <1>14, <1>15, <1>16, <1>17, <1>18

\* An image tool ends with the subject it read first, which cosign found signed in between.
LEMMA ImageTaken ==
    ASSUME ReleaseInv, TakeLook("image")
    PROVE ImageJobOK(job'["image"])
<1> DEFINE j == job["image"]
           look == LooksOf("image")[j.step]
           found == Found("image", look)
           g == job'["image"]
<1>1. "image" \in Tools /\ "subject" \in Tools BY DEF Tools
<1>2. /\ j # NoJob /\ j.step \in DOMAIN LooksOf("image") /\ JobOK("image")
      /\ UNCHANGED <<paper, signed, jobs>> /\ job'["subject"] = job["subject"]
      /\ \/ g = NoJob
         \/ /\ LookHolds("image", look, found, j.seen)
            /\ g.step = j.step + 1
            /\ g.seen[look] = found
            /\ \A x \in DOMAIN j.seen : x # look => g.seen[x] = j.seen[x]
    BY <1>1, LookStep
<1>3. /\ j.step \in 1 .. 7
      /\ j.step > 1 => "subject" \in DOMAIN j.seen
      /\ j.step > 6 => "cosign" \in DOMAIN j.seen
      /\ look = <<"subject", "sbom", "scan", "bundle", "head", "cosign", "again">>[j.step]
  <2>1. DOMAIN LooksOf("image") = 1 .. 7 /\ LooksOf("image")[1] = "subject"
        /\ LooksOf("image")[6] = "cosign"
      BY FixedLooks
  <2>2. \A i \in 1 .. 7 : i < j.step => LooksOf("image")[i] \in DOMAIN j.seen
      BY <1>2, <2>1 DEF JobOK
  <2> QED BY <1>2, <2>1, <2>2, FixedLooks
<1>4. ImageJobOK(j) /\ PaperOK BY DEF ReleaseInv, JobsOK
<1>5. /\ look = "subject" => found = paper["subject"]
      /\ look \in {"cosign", "again"} => found["bundle"] = paper["bundle"]
                                         /\ found["subject"] = paper["subject"]
                                         /\ "subject" \in DOMAIN found
    BY DEF Found, ImageEvidence
<1>6. g # NoJob =>
        /\ look = "subject" => found # Nothing
        /\ look = "cosign" => found["bundle"] = found["subject"]
        /\ look = "again" => \A x \in DOMAIN found : found[x] = j.seen[x]
    BY <1>2 DEF LookHolds, ImageLookHolds
<1>7. j.step > 1 => j.seen["subject"] # Nothing /\ SubjectBacked(j.seen["subject"])
                    /\ SubjectPast(j.seen["subject"])
    BY <1>2, <1>4 DEF ImageJobOK
<1>8. j.step > 6 => /\ j.seen["cosign"]["bundle"] = j.seen["cosign"]["subject"]
                    /\ j.seen["cosign"]["bundle"] \in signed \cup {Nothing}
                    /\ paper["subject"] = j.seen["subject"] =>
                         j.seen["cosign"]["subject"] = j.seen["subject"]
    BY <1>2, <1>4 DEF ImageJobOK
<1> SUFFICES ASSUME g # NoJob PROVE ImageJobOK(g)
    BY DEF ImageJobOK
<1> HIDE DEF j, look, found, g
<1>9. g.step = j.step + 1 /\ g.seen[look] = found
      /\ \A x \in DOMAIN j.seen : x # look => g.seen[x] = j.seen[x]
    BY <1>2
<1>12. CASE j.step = 1
  <2>1. look = "subject" BY <1>3, <1>12
  <2>2. g.step = 2 /\ g.seen["subject"] = paper["subject"] /\ paper["subject"] # Nothing
      BY <1>5, <1>6, <1>9, <1>12, <2>1
  <2>3. SubjectBacked(g.seen["subject"]) /\ SubjectPast(g.seen["subject"])
      BY <1>4, <2>2 DEF PaperOK
  <2> QED BY <2>2, <2>3 DEF ImageJobOK
<1>13. CASE j.step \in 2 .. 7
  <2>1. look # "subject" /\ g.seen["subject"] = j.seen["subject"]
      BY <1>3, <1>9, <1>13
  <2>2. g.seen["subject"] # Nothing /\ SubjectBacked(g.seen["subject"])
        /\ SubjectPast(g.seen["subject"])
      BY <1>7, <1>13, <2>1
  <2>3. CASE j.step \in 2 .. 5
    <3>1. g.step > 1 /\ ~(g.step > 6) /\ ~(g.step > 7) BY <1>9, <2>3
    <3> QED BY <2>2, <3>1 DEF ImageJobOK
  <2>4. CASE j.step = 6
    <3>1. look = "cosign" /\ g.step = 7 BY <1>3, <1>9, <2>4
    <3>2. /\ g.seen["cosign"]["bundle"] = paper["bundle"]
          /\ g.seen["cosign"]["subject"] = paper["subject"]
          /\ paper["bundle"] = paper["subject"]
        BY <1>5, <1>6, <1>9, <3>1
    <3>3. paper["bundle"] \in signed \cup {Nothing} BY <1>4 DEF PaperOK
    <3> QED BY <2>2, <3>1, <3>2, <3>3 DEF ImageJobOK
  <2>5. CASE j.step = 7
    <3>1. look = "again" /\ g.step = 8 BY <1>3, <1>9, <2>5
    <3>2. paper["subject"] = j.seen["subject"] BY <1>5, <1>6, <3>1
    <3>3. g.seen["cosign"] = j.seen["cosign"] BY <1>3, <1>9, <2>5, <3>1
    <3>4. j.seen["subject"] \in signed BY <1>7, <1>8, <2>5, <3>2
    <3> QED BY <1>8, <2>1, <2>2, <2>5, <3>1, <3>2, <3>3, <3>4 DEF ImageJobOK
  <2> QED BY <1>13, <2>3, <2>4, <2>5
<1> QED BY <1>3, <1>12, <1>13

\* A candidate tool takes an image receipt of the HEAD it saw.
LEMMA CandidateTaken ==
    ASSUME ReleaseInv, TakeLook("candidate")
    PROVE CandidateJobOK(job'["candidate"])
<1> DEFINE j == job["candidate"]
           look == LooksOf("candidate")[j.step]
           found == Found("candidate", look)
           g == job'["candidate"]
<1>1. "candidate" \in Tools BY DEF Tools
<1>2. /\ j # NoJob /\ j.step \in DOMAIN LooksOf("candidate") /\ JobOK("candidate")
      /\ \/ g = NoJob
         \/ /\ LookHolds("candidate", look, found, j.seen)
            /\ g.step = j.step + 1 /\ g.since = j.since
            /\ g.seen[look] = found
            /\ \A x \in DOMAIN j.seen : x # look => g.seen[x] = j.seen[x]
    BY <1>1, LookStep
<1>3. /\ j.step \in 1 .. 6
      /\ j.step > 2 => "risks" \in DOMAIN j.seen
      /\ j.step > 3 => "head" \in DOMAIN j.seen
      /\ j.step > 4 => "image" \in DOMAIN j.seen
      /\ look = <<"manifest", "risks", "head", "image", "other", "clean">>[j.step]
  <2>1. DOMAIN LooksOf("candidate") = 1 .. 6 /\ LooksOf("candidate")[2] = "risks"
        /\ LooksOf("candidate")[3] = "head" /\ LooksOf("candidate")[4] = "image"
      BY FixedLooks
  <2>2. \A i \in 1 .. 6 : i < j.step => LooksOf("candidate")[i] \in DOMAIN j.seen
      BY <1>2, <2>1 DEF JobOK
  <2> QED BY <1>2, <2>1, <2>2, FixedLooks
<1>4. CandidateJobOK(j) /\ ReceiptsOK BY DEF ReleaseInv, JobsOK
<1>5. /\ look \in {"risks", "head", "clean"} => found = checkout
      /\ look = "image" => found = paper["image"]
    BY DEF Found
<1>6. g # NoJob /\ look = "image" => found # Nothing /\ found.source = j.seen["head"].commit
    BY <1>2 DEF LookHolds, CandidateLookHolds
<1>7. /\ Away(j) = 0 => /\ j.step > 2 => j.seen["risks"] = checkout
                        /\ j.step > 3 => j.seen["head"] = checkout
      /\ j.step > 4 => /\ ImageBacked(j.seen["image"])
                       /\ j.seen["image"].source = j.seen["head"].commit
    BY <1>2, <1>4, <1>3 DEF CandidateJobOK
<1>8. found = paper["image"] /\ found # Nothing => ImageBacked(found) BY <1>4 DEF ReceiptsOK
<1>9. ~checkout.dirty => checkout = CleanAt(checkout.commit) BY CheckoutTyped
<1>10. g # NoJob => Away(g) = Away(j) BY <1>2 DEF Away
<1> SUFFICES ASSUME g # NoJob PROVE CandidateJobOK(g)
    BY DEF CandidateJobOK
<1> HIDE DEF j, look, found, g
<1>11. g.step = j.step + 1 /\ g.seen[look] = found
       /\ \A x \in DOMAIN j.seen : x # look => g.seen[x] = j.seen[x]
    BY <1>2
<1>12. CASE j.step = 1
  <2>1. g.step = 2 BY <1>11, <1>12
  <2> QED BY <2>1 DEF CandidateJobOK
<1>13. CASE j.step = 2
  <2>1. look = "risks" BY <1>3, <1>13
  <2>2. g.step = 3 /\ g.seen["risks"] = checkout BY <1>5, <1>11, <1>13, <2>1
  <2> QED BY <2>2 DEF CandidateJobOK
<1>14. CASE j.step = 3
  <2>1. look = "head" BY <1>3, <1>14
  <2>2. g.step = 4 /\ g.seen["risks"] = j.seen["risks"] /\ g.seen["head"] = checkout
      BY <1>3, <1>5, <1>11, <1>14, <2>1
  <2>3. Away(g) = 0 => g.seen["risks"] = checkout BY <1>7, <1>10, <1>14, <2>2
  <2> QED BY <2>2, <2>3 DEF CandidateJobOK
<1>15. CASE j.step = 4
  <2>1. look = "image" BY <1>3, <1>15
  <2>2. g.step = 5 /\ g.seen["risks"] = j.seen["risks"] /\ g.seen["head"] = j.seen["head"]
        /\ g.seen["image"] = found
      BY <1>3, <1>11, <1>15, <2>1
  <2>3. ImageBacked(found) /\ found.source = j.seen["head"].commit BY <1>5, <1>6, <1>8, <2>1
  <2>4. Away(g) = 0 => g.seen["risks"] = checkout /\ g.seen["head"] = checkout
      BY <1>7, <1>10, <1>15, <2>2
  <2> QED BY <2>2, <2>3, <2>4 DEF CandidateJobOK
<1>16. CASE j.step \in {5, 6}
  <2>1. look \in {"other", "clean"} /\ (j.step = 6 => look = "clean") BY <1>3, <1>16
  <2>2. g.step \in {6, 7} /\ g.seen["risks"] = j.seen["risks"] /\ g.seen["head"] = j.seen["head"]
        /\ g.seen["image"] = j.seen["image"] /\ (j.step = 6 => g.seen["clean"] = checkout)
      BY <1>3, <1>5, <1>11, <1>16, <2>1
  <2>3. ImageBacked(g.seen["image"]) /\ g.seen["image"].source = g.seen["head"].commit
        /\ (Away(g) = 0 => g.seen["risks"] = checkout /\ g.seen["head"] = checkout)
      BY <1>7, <1>10, <1>16, <2>2
  <2>4. g.step > 6 => j.step = 6 BY <1>11, <1>16
  <2> QED BY <1>9, <2>2, <2>3, <2>4 DEF CandidateJobOK
<1> QED BY <1>3, <1>12, <1>13, <1>14, <1>15, <1>16

\* A verifier sees the checkout as it is.
LEMMA VerifierTaken ==
    ASSUME ReleaseInv, TakeLook("verifier")
    PROVE VerifierJobOK(job'["verifier"])
<1> DEFINE j == job["verifier"]
           looks == LooksOf("verifier")
           found == Found("verifier", looks[j.step])
           g == job'["verifier"]
<1>1. "verifier" \in Tools BY DEF Tools
<1>2. /\ j # NoJob /\ j.step \in DOMAIN looks /\ JobOK("verifier")
      /\ \/ g = NoJob
         \/ /\ g.step = j.step + 1 /\ g.since = j.since /\ g.component = j.component
            /\ g.seen[looks[j.step]] = found
            /\ \A x \in DOMAIN j.seen : x # looks[j.step] => g.seen[x] = j.seen[x]
    BY <1>1, LookStep
<1>3. VerifierJobOK(j) BY DEF ReleaseInv, JobsOK
<1>4. Len(looks) \in Nat /\ DOMAIN looks = 1 .. Len(looks) BY <1>1, <1>2, LooksTyped
<1>5. looks = Looks("verifier", j.component) BY DEF LooksOf
<1>6. looks[j.step] \in {"head", "checks"} => found = checkout BY DEF Found
<1> SUFFICES ASSUME g # NoJob PROVE VerifierJobOK(g)
    BY DEF VerifierJobOK
<1>7. \A i \in DOMAIN looks : i < j.step => looks[i] \in DOMAIN j.seen BY <1>2 DEF JobOK
<1> HIDE DEF j, looks, found, g
<1>8. j.component \in Components /\ Away(g) = Away(j) BY <1>2, <1>3 DEF VerifierJobOK, Away
<1>9. ASSUME Away(g) = 0, NEW look \in {"head", "checks"}, LookTaken("verifier", g, look)
      PROVE g.seen[look] = checkout
  <2>1. PICK i \in DOMAIN looks : looks[i] = look /\ i < g.step
      BY <1>2, <1>5, <1>9 DEF LookTaken
  <2>2. i < j.step \/ i = j.step BY <1>2, <1>4, <2>1
  <2>3. CASE look = looks[j.step] BY <1>2, <1>6, <2>3
  <2>4. CASE look # looks[j.step]
    <3>1. i < j.step /\ look \in DOMAIN j.seen BY <1>7, <2>1, <2>2, <2>4
    <3>2. LookTaken("verifier", j, look) BY <1>5, <2>1, <3>1 DEF LookTaken
    <3>3. j.seen[look] = checkout BY <1>2, <1>3, <1>8, <1>9, <3>2 DEF VerifierJobOK
    <3> QED BY <1>2, <2>4, <3>1, <3>3
  <2> QED BY <2>3, <2>4
<1> QED BY <1>2, <1>8, <1>9 DEF VerifierJobOK

\* The aggregate reads reports that are in place.
LEMMA ReleaseTaken ==
    ASSUME ReleaseInv, TakeLook("release")
    PROVE ReleaseJobOK(job'["release"])
<1> DEFINE j == job["release"]
           looks == LooksOf("release")
           found == Found("release", looks[j.step])
           g == job'["release"]
<1>1. "release" \in Tools BY DEF Tools
<1>2. /\ j # NoJob /\ j.step \in DOMAIN looks /\ JobOK("release")
      /\ \/ g = NoJob
         \/ /\ g.step = j.step + 1 /\ g.component = j.component
            /\ g.seen[looks[j.step]] = found
            /\ \A x \in DOMAIN j.seen : x # looks[j.step] => g.seen[x] = j.seen[x]
    BY <1>1, LookStep
<1>3. ReleaseJobOK(j) /\ ReceiptsOK BY DEF ReleaseInv, JobsOK
<1>4. Len(looks) \in Nat /\ DOMAIN looks = 1 .. Len(looks) BY <1>1, <1>2, LooksTyped
<1>5. looks = Looks("release", j.component) BY DEF LooksOf
<1>6. looks[j.step] \in Components => found = paper[looks[j.step]]
    BY ReleaseAssumption DEF Found
<1>7. \A i \in DOMAIN looks : i < j.step => looks[i] \in DOMAIN j.seen BY <1>2 DEF JobOK
<1> SUFFICES ASSUME g # NoJob PROVE ReleaseJobOK(g)
    BY DEF ReleaseJobOK
<1> HIDE DEF j, looks, found, g
<1>8. ASSUME NEW k \in Components, LookTaken("release", g, k), g.seen[k] # Nothing
      PROVE ReportBacks(k, g.seen[k])
  <2>1. PICK i \in DOMAIN looks : looks[i] = k /\ i < g.step
      BY <1>2, <1>5, <1>8 DEF LookTaken
  <2>2. i < j.step \/ i = j.step BY <1>2, <1>4, <2>1
  <2>3. CASE k = looks[j.step]
    <3>1. g.seen[k] = paper[k] BY <1>2, <1>6, <2>3
    <3> QED BY <1>3, <1>8, <3>1 DEF ReceiptsOK
  <2>4. CASE k # looks[j.step]
    <3>1. i < j.step /\ k \in DOMAIN j.seen BY <1>7, <2>1, <2>2, <2>4
    <3>2. LookTaken("release", j, k) BY <1>5, <2>1, <3>1 DEF LookTaken
    <3>3. g.seen[k] = j.seen[k] BY <1>2, <2>4, <3>1
    <3>4. ReportBacks(k, j.seen[k]) BY <1>2, <1>3, <1>8, <3>2, <3>3 DEF ReleaseJobOK
    <3> QED BY <3>3, <3>4
  <2> QED BY <2>3, <2>4
<1> QED BY <1>8 DEF ReleaseJobOK

\* What is known of the jobs stays so while the checkout, the signatures and the subject in
\* place do and no tool starts.
LEMMA JobsStay ==
    ASSUME ReleaseInv, checkout' = checkout, moves' = moves, jobs' = jobs,
           signed \subseteq signed',
           paper'["subject"] \in {paper["subject"], Nothing}
             \/ ~SubjectPast(paper'["subject"]),
           job'["subject"] # NoJob => job["subject"] # NoJob,
           \A t \in Tools : JobOK(t)',
           SubjectJobOK(job'["subject"]), ImageJobOK(job'["image"]),
           CandidateJobOK(job'["candidate"]), VerifierJobOK(job'["verifier"]),
           ReleaseJobOK(job'["release"])
    PROVE JobsOK'
<1>1. SubjectJobOK(job["subject"])' BY DEF SubjectJobOK, Away
<1>2. ImageJobOK(job["image"])'
  <2> DEFINE j == job'["image"]
             s == j.seen["subject"]
             cosign == j.seen["cosign"]
  <2>3. j # NoJob =>
          /\ j.step > 1 => s # Nothing /\ SubjectBacked(s) /\ SubjectPast(s)
          /\ j.step > 6 => /\ cosign["bundle"] = cosign["subject"]
                           /\ cosign["bundle"] \in signed \cup {Nothing}
                           /\ paper["subject"] = s => cosign["subject"] = s
          /\ j.step > 7 => s \in signed
      BY DEF ImageJobOK
  <2>4. \A x : x # Nothing /\ SubjectPast(x) /\ paper'["subject"] = x => paper["subject"] = x
      OBVIOUS
  <2>5. j # NoJob => j.step \in Nat
    <3>1. j # NoJob => j.step \in 1 .. Len(LooksOf("image"))' + 1 BY DEF JobOK, Tools
    <3>2. LooksOf("image")' = <<"subject", "sbom", "scan", "bundle", "head", "cosign", "again">>
        BY DEF LooksOf, Looks
    <3>3. Len(<<"subject", "sbom", "scan", "bundle", "head", "cosign", "again">>) = 7 OBVIOUS
    <3> HIDE DEF j
    <3> QED BY <3>1, <3>2, <3>3
  <2> HIDE DEF j
  <2>6. ASSUME j # NoJob, j.step > 1
        PROVE /\ s # Nothing /\ LabelOf[s.digest] = s.source
              /\ s.away \/ s.files = CleanAt(s.source)
              /\ s.made \in Nat /\ s.made <= jobs /\ (job'["subject"] # NoJob => s.made < jobs)
      BY <2>3, <2>6 DEF SubjectBacked, SubjectPast
  <2>7. ASSUME j # NoJob, j.step > 6
        PROVE /\ cosign["bundle"] = cosign["subject"]
              /\ cosign["bundle"] \in signed' \cup {Nothing}
              /\ paper'["subject"] = s => cosign["subject"] = s
    <3>1. j.step > 1 BY <2>5, <2>7
    <3>2. s # Nothing /\ SubjectPast(s) BY <2>3, <2>7, <3>1
    <3> HIDE DEF s, cosign
    <3> QED BY <2>3, <2>4, <2>7, <3>2
  <2>8. ASSUME j # NoJob, j.step > 7 PROVE s \in signed'
      BY <2>3, <2>8
  <2> QED BY <2>6, <2>7, <2>8 DEF ImageJobOK, SubjectBacked, SubjectPast, j
<1>3. CandidateJobOK(job["candidate"])' BY DEF CandidateJobOK, Away, ImageBacked
<1>4. VerifierJobOK(job["verifier"])' BY DEF VerifierJobOK, Away, LookTaken
<1>5. ReleaseJobOK(job["release"])' BY DEF ReleaseJobOK, LookTaken, ReportBacks
<1> QED BY <1>1, <1>2, <1>3, <1>4, <1>5 DEF JobsOK

\* What was candidate or released stays backed as signatures are added.
LEMMA BackingStays ==
    ASSUME NEW c, CandidateBacked(c), signed \subseteq signed'
    PROVE CandidateBacked(c)'
BY DEF CandidateBacked

\* A look changes no paper: what it adds to its tool is what each kind of tool keeps of it.
LEMMA TakeLookKeeps ==
    ASSUME ReleaseInv, NEW t \in Tools, TakeLook(t)
    PROVE ReleaseInv'
<1>1. /\ job[t] # NoJob
      /\ \A x \in Tools : x # t => job'[x] = job[x]
      /\ job' = [x \in Tools |-> job'[x]]
      /\ UNCHANGED <<checkout, tag, paper, signed, candidates, releases, moves, jobs, papers>>
    BY LookStep
<1>2. ReleaseTypeOK' BY <1>1 DEF ReleaseInv, ReleaseTypeOK
<1>3. job'["subject"] # NoJob => job["subject"] # NoJob BY <1>1 DEF Tools
<1>4. PaperOK' BY <1>1, <1>3 DEF ReleaseInv, PaperOK, SubjectBacked, SubjectPast
<1>5. ReceiptsOK' BY <1>1 DEF ReleaseInv, ReceiptsOK, ImageBacked, ReportBacks
<1>6. ReleaseBacked' BY <1>1 DEF ReleaseInv, ReleaseBacked, CandidateBacked, ReleaseOfOneCommit
<1>7. JobsOK'
  <2>1. \A x \in Tools : JobOK(x)'
    <3> SUFFICES ASSUME NEW x \in Tools PROVE JobOK(x)'
        OBVIOUS
    <3> QED BY <1>1, TakenJob, JobStays
  <2>2. SubjectJobOK(job'["subject"])
      BY <1>1, SubjectTaken DEF ReleaseInv, JobsOK, Tools
  <2>3. ImageJobOK(job'["image"])
      BY <1>1, ImageTaken DEF ReleaseInv, JobsOK, Tools
  <2>4. CandidateJobOK(job'["candidate"])
      BY <1>1, CandidateTaken DEF ReleaseInv, JobsOK, Tools
  <2>5. VerifierJobOK(job'["verifier"])
      BY <1>1, VerifierTaken DEF ReleaseInv, JobsOK, Tools
  <2>6. ReleaseJobOK(job'["release"])
      BY <1>1, ReleaseTaken DEF ReleaseInv, JobsOK, Tools
  <2> QED BY <1>1, <1>3, <2>1, <2>2, <2>3, <2>4, <2>5, <2>6, JobsStay
<1> QED BY <1>2, <1>4, <1>5, <1>6, <1>7 DEF ReleaseInv

\* Whatever its component, a tool has a sequence of looks.
LEMMA AnyLooks ==
    ASSUME NEW t \in Tools, NEW c
    PROVE Len(Looks(t, c)) \in Nat /\ DOMAIN Looks(t, c) = 1 .. Len(Looks(t, c))
<1>1. CASE t \in {"subject", "image", "candidate"}
  <2>1. Looks(t, c) = LooksOf(t) BY <1>1 DEF Looks, LooksOf
  <2> QED BY <1>1, <2>1, FixedLooks
<1>3. CASE t = "verifier"
  <2>1. Looks(t, c) = <<"checks", "head">> \/ Looks(t, c) = <<"head", "checks", "remote">>
      BY <1>3 DEF Looks
  <2> QED BY <2>1
<1>2. CASE t = "release"
  <2>1. Looks(t, c) = LooksOf("release") BY <1>2 DEF Looks, LooksOf
  <2>2. \E A : LooksOf("release") \in Seq(A) BY ReleaseLooks
  <2> QED BY <2>1, <2>2
<1> QED BY <1>1, <1>2, <1>3 DEF Tools

\* A tool starts with nothing seen.
LEMMA StartJobKeeps ==
    ASSUME ReleaseInv, NEW t \in Tools, NEW c, NEW o, StartJob(t, c, o),
           t = "verifier" => c \in Components
    PROVE ReleaseInv'
<1> DEFINE g == [step |-> 1, component |-> c, expected |-> o.expected, strict |-> o.strict,
                 seen |-> << >>, since |-> moves]
<1>1. /\ job' = [job EXCEPT ![t] = g] /\ jobs' = jobs + 1 /\ job[t] = NoJob
      /\ UNCHANGED <<checkout, tag, paper, signed, candidates, releases, moves, papers>>
    BY DEF StartJob
<1>2. job = [x \in Tools |-> job[x]] /\ jobs \in Nat /\ moves \in Nat
    BY DEF ReleaseInv, ReleaseTypeOK
<1>3. job'[t] = g /\ (\A x \in Tools : x # t => job'[x] = job[x])
      /\ job' = [x \in Tools |-> job'[x]]
    BY <1>1, <1>2
<1>4. /\ g.step = 1 /\ g.component = c /\ g.since = moves
      /\ DOMAIN g = {"step", "component", "expected", "strict", "seen", "since"}
    OBVIOUS
<1> HIDE DEF g
<1>5. ReleaseTypeOK' BY <1>1, <1>2, <1>3 DEF ReleaseInv, ReleaseTypeOK
<1>6. \A s : SubjectPast(s) => SubjectPast(s)' BY <1>1, <1>2 DEF SubjectPast
<1>7. PaperOK' BY <1>1, <1>6 DEF ReleaseInv, PaperOK, SubjectBacked
<1>8. ReceiptsOK' BY <1>1 DEF ReleaseInv, ReceiptsOK, ImageBacked, ReportBacks
<1>9. ReleaseBacked' BY <1>1 DEF ReleaseInv, ReleaseBacked, CandidateBacked, ReleaseOfOneCommit
<1>10. \A x \in Tools : JobOK(x)'
  <2> SUFFICES ASSUME NEW x \in Tools PROVE JobOK(x)'
      OBVIOUS
  <2>1. CASE x # t BY <1>1, <1>3, <2>1, JobStays
  <2>2. CASE x = t
    <3>1. LooksOf(t)' = Looks(t, c) BY <1>3, <1>4 DEF LooksOf
    <3>2. Len(Looks(t, c)) \in Nat /\ DOMAIN Looks(t, c) = 1 .. Len(Looks(t, c)) BY AnyLooks
    <3>3. 1 \in 1 .. Len(Looks(t, c)) + 1 /\ \A i \in 1 .. Len(Looks(t, c)) : ~(i < 1) BY <3>2
    <3> QED BY <1>1, <1>2, <1>3, <1>4, <2>2, <3>1, <3>2, <3>3 DEF JobOK
  <2> QED BY <2>1, <2>2
<1>11. SubjectJobOK(job["subject"])'
  <2>1. CASE t = "subject" BY <1>3, <1>4, <2>1 DEF SubjectJobOK
  <2>2. CASE t # "subject"
      BY <1>1, <1>3, <2>2 DEF ReleaseInv, JobsOK, SubjectJobOK, Away, Tools
  <2> QED BY <2>1, <2>2
<1>12. ImageJobOK(job["image"])'
  <2>1. CASE t = "image" BY <1>3, <1>4, <2>1 DEF ImageJobOK
  <2>2. CASE t # "image"
      BY <1>1, <1>3, <1>6, <2>2 DEF ReleaseInv, JobsOK, ImageJobOK, SubjectBacked, Tools
  <2> QED BY <2>1, <2>2
<1>13. CandidateJobOK(job["candidate"])'
  <2>1. CASE t = "candidate" BY <1>3, <1>4, <2>1 DEF CandidateJobOK
  <2>2. CASE t # "candidate"
      BY <1>1, <1>3, <2>2 DEF ReleaseInv, JobsOK, CandidateJobOK, Away, ImageBacked, Tools
  <2> QED BY <2>1, <2>2
<1>14. ASSUME NEW look PROVE ~LookTaken(t, g, look)
  <2>1. \A i \in DOMAIN Looks(t, c) : ~(i < 1)
    <3>1. Len(Looks(t, c)) \in Nat /\ DOMAIN Looks(t, c) = 1 .. Len(Looks(t, c)) BY AnyLooks
    <3> QED BY <3>1
  <2> QED BY <1>4, <2>1 DEF LookTaken
<1>15. VerifierJobOK(job["verifier"])'
  <2>1. CASE t = "verifier"
    <3>1. VerifierJobOK(g) BY <1>4, <1>14, <2>1 DEF VerifierJobOK
    <3> QED BY <1>1, <1>3, <2>1, <3>1 DEF VerifierJobOK, Away, LookTaken
  <2>2. CASE t # "verifier"
      BY <1>1, <1>3, <2>2 DEF ReleaseInv, JobsOK, VerifierJobOK, Away, LookTaken, Tools
  <2> QED BY <2>1, <2>2
<1>16. ReleaseJobOK(job["release"])'
  <2>1. CASE t = "release"
    <3>1. ReleaseJobOK(g) BY <1>14, <2>1 DEF ReleaseJobOK
    <3> QED BY <1>3, <2>1, <3>1 DEF ReleaseJobOK, LookTaken, ReportBacks
  <2>2. CASE t # "release"
      BY <1>3, <2>2 DEF ReleaseInv, JobsOK, ReleaseJobOK, LookTaken, ReportBacks, Tools
  <2> QED BY <2>1, <2>2
<1> QED BY <1>5, <1>7, <1>8, <1>9, <1>10, <1>11, <1>12, <1>13, <1>15, <1>16
        DEF ReleaseInv, JobsOK

-----------------------------------------------------------------------------
(***************************************************************************)
(* Outputs                                                                 *)
(***************************************************************************)

\* A tool that concludes has taken all its looks, and the others go on.
LEMMA Concluded ==
    ASSUME ReleaseInv, NEW t \in Tools, Concludes(t),
           signed \subseteq signed',
           paper'["subject"] \in {paper["subject"], Nothing}
             \/ ~SubjectPast(paper'["subject"])
    PROVE /\ JobsOK' /\ job[t].step = Len(LooksOf(t)) + 1 /\ JobOK(t) /\ job[t] # NoJob
          /\ job' = [x \in Tools |-> job'[x]] /\ job'[t] = NoJob
          /\ job'["subject"] # NoJob => job["subject"] # NoJob
<1>1. /\ job' = [job EXCEPT ![t] = NoJob] /\ job[t] # NoJob
      /\ job[t].step = Len(LooksOf(t)) + 1
      /\ UNCHANGED <<checkout, moves, jobs>>
    BY DEF Concludes
<1>2. job = [x \in Tools |-> job[x]] BY DEF ReleaseInv, ReleaseTypeOK
<1>3. job'[t] = NoJob /\ (\A x \in Tools : x # t => job'[x] = job[x])
      /\ job' = [x \in Tools |-> job'[x]]
    BY <1>1, <1>2
<1>4. \A x \in Tools : JobOK(x)'
  <2> SUFFICES ASSUME NEW x \in Tools PROVE JobOK(x)'
      OBVIOUS
  <2>1. CASE x # t BY <1>1, <1>3, <2>1, JobStays
  <2>2. CASE x = t BY <1>3, <2>2 DEF JobOK
  <2> QED BY <2>1, <2>2
<1>5. \A x \in Tools : job'[x] \in {job[x], NoJob} BY <1>3
<1>6. /\ SubjectJobOK(NoJob) /\ ImageJobOK(NoJob) /\ CandidateJobOK(NoJob)
      /\ VerifierJobOK(NoJob) /\ ReleaseJobOK(NoJob)
    BY DEF SubjectJobOK, ImageJobOK, CandidateJobOK, VerifierJobOK, ReleaseJobOK
<1>7. /\ SubjectJobOK(job'["subject"]) /\ ImageJobOK(job'["image"])
      /\ CandidateJobOK(job'["candidate"]) /\ VerifierJobOK(job'["verifier"])
      /\ ReleaseJobOK(job'["release"])
    BY <1>5, <1>6 DEF ReleaseInv, JobsOK, Tools
<1>8. job'["subject"] # NoJob => job["subject"] # NoJob BY <1>5 DEF Tools
<1>9. JobsOK' BY <1>1, <1>4, <1>7, <1>8, JobsStay
<1> QED BY <1>1, <1>3, <1>8, <1>9 DEF ReleaseInv, JobsOK

\* A subject is written for a clean commit with the image that bears it, whether or not the
\* checkout went away meanwhile: its files then say so.
LEMMA WriteSubjectKeeps ==
    ASSUME ReleaseInv, WriteSubject
    PROVE ReleaseInv'
<1> DEFINE j == job["subject"]
           s == j.seen
           away == moves - j.since > 1
           new == [source |-> s["head"].commit, digest |-> s["tag"], sbom |-> s["sbom"],
                   scan |-> s["scan"], files |-> s["files"], made |-> jobs, away |-> away]
<1>1. "subject" \in Tools BY DEF Tools
<1>2. /\ Concludes("subject") /\ UNCHANGED <<checkout, tag, signed, moves, jobs, papers>>
      /\ paper' = [paper EXCEPT !["subject"] = IF @ # Nothing THEN @ ELSE new]
      /\ UNCHANGED <<candidates, releases>>
    BY DEF WriteSubject, Concludes
<1>3. paper = [x \in DOMAIN paper |-> paper[x]] /\ "subject" \in DOMAIN paper
    BY DEF ReleaseInv, ReleaseTypeOK
<1>4. /\ DOMAIN paper' = DOMAIN paper /\ paper' = [x \in DOMAIN paper' |-> paper'[x]]
      /\ \A x \in DOMAIN paper : x # "subject" => paper'[x] = paper[x]
      /\ paper'["subject"] = IF paper["subject"] # Nothing THEN paper["subject"] ELSE new
    BY <1>2, <1>3
<1>5. /\ new.source = s["head"].commit /\ new.digest = s["tag"] /\ new.files = s["files"]
      /\ new.made = jobs
    OBVIOUS
<1>6. new.away <=> away OBVIOUS
<1>7. job["subject"] # NoJob BY <1>2 DEF Concludes
<1>8. jobs \in Nat /\ ~SubjectPast(new)
    BY <1>5, <1>7 DEF ReleaseInv, ReleaseTypeOK, SubjectPast
<1>9. /\ JobsOK' /\ j.step = Len(LooksOf("subject")) + 1 /\ JobOK("subject")
      /\ job' = [x \in Tools |-> job'[x]] /\ job'["subject"] = NoJob
  <2> HIDE DEF new
  <2>1. paper'["subject"] \in {paper["subject"], Nothing} \/ ~SubjectPast(paper'["subject"])
      BY <1>4, <1>8
  <2> QED BY <1>1, <1>2, <2>1, Concluded
<1>10. j.step = 7
  <2> HIDE DEF j
  <2> QED BY <1>9, FixedLens
<1>11. /\ s["head"] = CleanAt(s["head"].commit) /\ s["tag"] # Nothing
       /\ LabelOf[s["tag"]] = s["head"].commit
       /\ s["files"] # s["head"] => moves - j.since >= 2
    BY <1>7, <1>10 DEF ReleaseInv, JobsOK, SubjectJobOK, Away
<1>12. moves \in Nat /\ j.since \in Nat BY <1>7, <1>9 DEF ReleaseInv, ReleaseTypeOK, JobOK
<1>13. SubjectBacked(new)
  <2>1. away \/ s["files"] = CleanAt(s["head"].commit) BY <1>11, <1>12
  <2> HIDE DEF new, away, s
  <2> QED BY <1>5, <1>6, <1>11, <2>1 DEF SubjectBacked
<1> HIDE DEF new, s
<1>14. ASSUME NEW x, x = new PROVE SubjectPast(x)'
  <2>1. x.made = jobs BY <1>5, <1>14
  <2> QED BY <1>2, <1>8, <1>9, <2>1 DEF SubjectPast
<1>15. ReleaseTypeOK' BY <1>2, <1>4, <1>9 DEF ReleaseInv, ReleaseTypeOK
<1>16. PaperOK'
  <2>1. \A x : SubjectPast(x) => SubjectPast(x)' BY <1>2, <1>7 DEF SubjectPast
  <2>2. paper'["bundle"] = paper["bundle"] BY <1>4 DEF ReleaseInv, ReleaseTypeOK
  <2>3. PaperOK BY DEF ReleaseInv
  <2>4. paper'["subject"] # Nothing => SubjectBacked(paper'["subject"])
      BY <1>4, <1>13, <2>3 DEF PaperOK
  <2>5. ASSUME NEW x, x = paper'["subject"], x # Nothing PROVE SubjectPast(x)'
    <3>1. CASE paper["subject"] # Nothing BY <1>4, <2>1, <2>3, <2>5, <3>1 DEF PaperOK
    <3>2. CASE paper["subject"] = Nothing BY <1>4, <1>14, <2>5, <3>2
    <3> QED BY <3>1, <3>2
  <2> QED BY <1>2, <2>2, <2>3, <2>4, <2>5 DEF PaperOK, SubjectBacked
<1>17. ReceiptsOK'
  <2>1. \A x \in {"image"} \cup Components : paper'[x] = paper[x]
      BY <1>4, ReleaseAssumption DEF ReleaseInv, ReleaseTypeOK
  <2> QED BY <1>2, <2>1 DEF ReleaseInv, ReceiptsOK, ImageBacked, ReportBacks
<1>18. ReleaseBacked' BY <1>2 DEF ReleaseInv, ReleaseBacked, CandidateBacked, ReleaseOfOneCommit
<1> QED BY <1>9, <1>15, <1>16, <1>17, <1>18 DEF ReleaseInv

\* An output that is no subject: the rest of the invariant stays if the output is backed.
LEMMA OutputKeeps ==
    ASSUME ReleaseInv, NEW t \in Tools, Concludes(t), NEW x, NEW new,
           x = "image" \/ x \in Components,
           paper' = [paper EXCEPT ![x] = new],
           new # Nothing => IF x = "image" THEN ImageBacked(new) ELSE ReportBacks(x, new),
           UNCHANGED <<candidates, releases>>
    PROVE ReleaseInv'
<1>1. UNCHANGED <<checkout, tag, signed, moves, jobs, papers>> BY DEF Concludes
<1>2. paper = [y \in DOMAIN paper |-> paper[y]] /\ x \in DOMAIN paper
      /\ x \notin {"subject", "bundle"}
    BY ReleaseAssumption DEF ReleaseInv, ReleaseTypeOK
<1>3. /\ DOMAIN paper' = DOMAIN paper /\ paper' = [y \in DOMAIN paper' |-> paper'[y]]
      /\ \A y \in DOMAIN paper : y # x => paper'[y] = paper[y]
      /\ paper'[x] = new
    BY <1>2
<1>4. {"subject", "bundle", "image"} \cup Components \subseteq DOMAIN paper
      /\ "image" \notin Components
    BY ReleaseAssumption DEF ReleaseInv, ReleaseTypeOK
<1>5. paper'["subject"] = paper["subject"] /\ paper'["bundle"] = paper["bundle"]
    BY <1>2, <1>3, <1>4
<1>6. /\ JobsOK' /\ job' = [y \in Tools |-> job'[y]]
      /\ job'["subject"] # NoJob => job["subject"] # NoJob
    BY <1>1, <1>5, Concluded
<1>7. ReleaseTypeOK' BY <1>1, <1>3, <1>6 DEF ReleaseInv, ReleaseTypeOK
<1>8. PaperOK' BY <1>1, <1>5, <1>6 DEF ReleaseInv, PaperOK, SubjectBacked, SubjectPast
<1>9. ReceiptsOK'
  <2>1. /\ paper["image"] # Nothing => ImageBacked(paper["image"])
        /\ \A k \in Components : paper[k] # Nothing => ReportBacks(k, paper[k])
      BY DEF ReleaseInv, ReceiptsOK
  <2>2. paper'["image"] # Nothing => ImageBacked(paper'["image"])
      BY <1>3, <1>4, <2>1
  <2>3. \A k \in Components : paper'[k] # Nothing => ReportBacks(k, paper'[k])
      BY <1>3, <1>4, <2>1
  <2> QED BY <1>1, <2>2, <2>3 DEF ReceiptsOK, ImageBacked, ReportBacks
<1>10. ReleaseBacked' BY <1>1 DEF ReleaseInv, ReleaseBacked, CandidateBacked, ReleaseOfOneCommit
<1> QED BY <1>6, <1>7, <1>8, <1>9, <1>10 DEF ReleaseInv

\* An image receipt is written for a subject that was found to be signed.
LEMMA WriteImageReceiptKeeps ==
    ASSUME ReleaseInv, WriteImageReceipt
    PROVE ReleaseInv'
<1> DEFINE j == job["image"]
           s == j.seen["subject"]
           passed == s.digest \notin Vulnerable
           rec == [source |-> s.source, digest |-> s.digest, subject |-> s, passed |-> passed]
           new == IF paper["image"] # Nothing THEN paper["image"] ELSE rec
<1>1. "image" \in Tools BY DEF Tools
<1>2. /\ Concludes("image") /\ signed' = signed /\ UNCHANGED <<candidates, releases>>
      /\ paper' = [paper EXCEPT !["image"] = new]
    BY DEF WriteImageReceipt, Concludes
<1>3. j.step = Len(LooksOf("image")) + 1 /\ j # NoJob BY <1>2 DEF Concludes
<1>4. j.step = 8
  <2> HIDE DEF j
  <2> QED BY <1>3, FixedLens
<1>5. s \in signed BY <1>3, <1>4 DEF ReleaseInv, JobsOK, ImageJobOK
<1>6. rec.source = s.source /\ rec.digest = s.digest /\ rec.subject = s OBVIOUS
<1>7. rec.passed <=> passed OBVIOUS
<1>8. ImageBacked(rec)
  <2> HIDE DEF rec, passed, s
  <2>1. passed => s.digest \notin Vulnerable BY DEF passed
  <2> QED BY <1>5, <1>6, <1>7, <2>1 DEF ImageBacked
<1> HIDE DEF rec
<1>9. new # Nothing => ImageBacked(new) BY <1>8 DEF ReleaseInv, ReceiptsOK
<1> HIDE DEF new
<1> QED BY <1>1, <1>2, <1>9, OutputKeeps

\* A verifier that stood still reports what its checks found on the commit it names.
LEMMA WriteReportKeeps ==
    ASSUME ReleaseInv, WriteReport
    PROVE ReleaseInv'
<1> DEFINE j == job["verifier"]
           s == j.seen
           tried == s["checks"]
           late == j.component = "verify_migrations"
           expected == ExpectedOf("verifier")
<1>1. "verifier" \in Tools BY DEF Tools
<1>2. Concludes("verifier") /\ UNCHANGED <<candidates, releases>> BY DEF WriteReport
<1>3. PICK outcome \in MayFind(tried) :
         paper' = [paper EXCEPT ![j.component] =
                     [commit |-> s["head"].commit, strict |-> j.strict, quiet |-> moves = j.since,
                      clean |-> late \/ ~s["head"].dirty,
                      passed |-> /\ late \/ HeadAsExpected("verifier")
                                 /\ ~Fails(outcome, j.strict)
                                 /\ j.component = "generate_verified_status" =>
                                      /\ WorkflowsConfirmed(s["remote"], s["head"].commit)
                                      /\ RulesetConfirmed(s["remote"], s["head"].commit)]]
    BY DEF WriteReport
<1> DEFINE quiet == moves = j.since
           clean == late \/ ~s["head"].dirty
           passed == /\ late \/ HeadAsExpected("verifier")
                     /\ ~Fails(outcome, j.strict)
                     /\ j.component = "generate_verified_status" =>
                          /\ WorkflowsConfirmed(s["remote"], s["head"].commit)
                          /\ RulesetConfirmed(s["remote"], s["head"].commit)
           new == [commit |-> s["head"].commit, strict |-> j.strict, quiet |-> quiet,
                   clean |-> clean, passed |-> passed]
<1>4. paper' = [paper EXCEPT ![j.component] = new] BY <1>3
<1>5. /\ new.commit = s["head"].commit /\ new.strict = j.strict
      /\ (new.quiet <=> quiet) /\ (new.passed <=> passed)
    OBVIOUS
<1>6. /\ j # NoJob /\ j.step = Len(LooksOf("verifier")) + 1 /\ VerifierJobOK(j)
      /\ JobOK("verifier")
    BY <1>1, <1>2 DEF Concludes, ReleaseInv, JobsOK
<1>7. j.component \in Components BY <1>6 DEF VerifierJobOK
<1>8. ASSUME quiet, passed, ~late
      PROVE Outcome[s["head"].commit] \in {"pass"} \cup IF j.strict THEN {} ELSE {"warn"}
  <2>1. LooksOf("verifier") = <<"head", "checks", "remote">> BY <1>8, VerifierLooks
  <2>2. LooksOf("verifier") = Looks("verifier", j.component) BY DEF LooksOf
  <2>3. j.step = 4
    <3>1. Len(<<"head", "checks", "remote">>) + 1 = 4 OBVIOUS
    <3>2. Len(LooksOf("verifier")) + 1 = 4 BY <2>1, <3>1
    <3> HIDE DEF j
    <3> QED BY <1>6, <3>2
  <2>4. LookTaken("verifier", j, "head") /\ LookTaken("verifier", j, "checks")
    <3>1. DOMAIN <<"head", "checks", "remote">> = 1 .. 3
          /\ <<"head", "checks", "remote">>[1] = "head"
          /\ <<"head", "checks", "remote">>[2] = "checks"
        OBVIOUS
    <3>2. 1 \in 1 .. 3 /\ 2 \in 1 .. 3 /\ 1 < 4 /\ 2 < 4 OBVIOUS
    <3> QED BY <2>1, <2>2, <2>3, <3>1, <3>2 DEF LookTaken
  <2>5. moves \in Nat /\ Away(j) = 0
      BY <1>8 DEF ReleaseInv, ReleaseTypeOK, Away
  <2>6. s["head"] = checkout /\ tried = checkout BY <1>6, <2>4, <2>5 DEF VerifierJobOK
  <2>7. s["head"] = CleanAt(expected) BY <1>8 DEF HeadAsExpected
  <2>8. ~checkout.dirty /\ checkout.commit \in Commits BY <2>6, <2>7, CheckoutTyped DEF CleanAt
  <2>9. outcome = Outcome[checkout.commit] BY <1>3, <2>6, <2>8 DEF MayFind
  <2>10. Outcome[checkout.commit] \in {"pass", "warn", "fail"} BY <2>8, ReleaseAssumption
  <2>11. outcome # "fail" /\ ~(j.strict /\ outcome = "warn") BY <1>8 DEF Fails
  <2> QED BY <2>6, <2>9, <2>10, <2>11
<1>9. ASSUME passed, j.component = "generate_verified_status"
      PROVE s["head"].commit \in Green /\ MainProtected
    BY <1>9 DEF WorkflowsConfirmed, RulesetConfirmed
<1>10. ReportBacks(j.component, new)
  <2> HIDE DEF new, quiet, passed, s
  <2> QED BY <1>5, <1>8, <1>9 DEF ReportBacks
<1> HIDE DEF new, j
<1>11. j.component # "image" BY <1>7, ReleaseAssumption
<1> QED BY <1>1, <1>2, <1>4, <1>7, <1>10, <1>11, OutputKeeps

\* A receipt of a gate: the rest of the invariant stays if what it grants is backed.
LEMMA GrantKeeps ==
    ASSUME ReleaseInv, NEW t \in Tools, Concludes(t), paper' = paper,
           \A c \in candidates' \ candidates : c.passed => CandidateBacked(c),
           \A r \in releases' \ releases : r.passed => ReleaseOfOneCommit(r)
    PROVE ReleaseInv'
<1>1. UNCHANGED <<checkout, tag, signed, moves, jobs, papers>> BY DEF Concludes
<1>2. /\ JobsOK' /\ job' = [y \in Tools |-> job'[y]]
      /\ job'["subject"] # NoJob => job["subject"] # NoJob
    BY <1>1, Concluded
<1>3. ReleaseTypeOK' BY <1>1, <1>2 DEF ReleaseInv, ReleaseTypeOK
<1>4. PaperOK' BY <1>1, <1>2 DEF ReleaseInv, PaperOK, SubjectBacked, SubjectPast
<1>5. ReceiptsOK' BY <1>1 DEF ReleaseInv, ReceiptsOK, ImageBacked, ReportBacks
<1>6. ReleaseBacked'
  <2>1. \A c \in candidates' : c.passed => CandidateBacked(c) BY DEF ReleaseInv, ReleaseBacked
  <2>2. \A r \in releases' : r.passed => ReleaseOfOneCommit(r) BY DEF ReleaseInv, ReleaseBacked
  <2> QED BY <1>1, <2>1, <2>2 DEF ReleaseBacked, CandidateBacked, ReleaseOfOneCommit
<1> QED BY <1>2, <1>3, <1>4, <1>5, <1>6 DEF ReleaseInv

\* A candidate that passed is the commit of a signed image, with no risk found on that commit.
LEMMA WriteCandidateReceiptKeeps ==
    ASSUME ReleaseInv, WriteCandidateReceipt
    PROVE ReleaseInv'
<1> DEFINE j == job["candidate"]
           s == j.seen
           quiet == moves = j.since
           passed == /\ s["image"].passed /\ s["other"].passed /\ ~s["clean"].dirty
                     /\ s["risks"].commit \notin Risky \/ s["risks"].dirty
           new == [source |-> s["head"].commit, digest |-> s["image"].digest,
                   receipt |-> s["image"], risks |-> s["risks"], quiet |-> quiet, passed |-> passed]
<1>1. "candidate" \in Tools BY DEF Tools
<1>2. Concludes("candidate") /\ UNCHANGED <<paper, releases>>
      /\ candidates' = candidates \cup {new}
    BY DEF WriteCandidateReceipt
<1>3. /\ new.source = s["head"].commit /\ new.digest = s["image"].digest
      /\ new.receipt = s["image"] /\ new.risks = s["risks"]
      /\ (new.quiet <=> quiet) /\ (new.passed <=> passed)
    OBVIOUS
<1>4. /\ j # NoJob /\ j.step = Len(LooksOf("candidate")) + 1 /\ CandidateJobOK(j)
      /\ PaperOK /\ moves \in Nat
    BY <1>1, <1>2 DEF Concludes, ReleaseInv, JobsOK, ReleaseTypeOK
<1>5. j.step = 7
  <2> HIDE DEF j
  <2> QED BY <1>4, FixedLens
<1>6. /\ ImageBacked(s["image"]) /\ s["image"].source = s["head"].commit
      /\ s["clean"] = CleanAt(s["clean"].commit) \/ s["clean"].dirty
      /\ Away(j) = 0 => s["risks"] = checkout /\ s["head"] = checkout /\ s["clean"] = checkout
    BY <1>4, <1>5 DEF CandidateJobOK
<1>7. quiet => Away(j) = 0 BY <1>4 DEF Away
<1>8. passed => /\ s["image"].passed /\ ~s["clean"].dirty
                /\ s["risks"].commit \notin Risky \/ s["risks"].dirty
    OBVIOUS
<1> HIDE DEF new, quiet, passed, s
<1>9. ASSUME new.passed PROVE CandidateBacked(new)
  <2> DEFINE i == s["image"]
  <2>1. i.subject \in signed /\ i.source = i.subject.source /\ i.digest = i.subject.digest
        /\ i.digest \notin Vulnerable
      BY <1>3, <1>6, <1>8, <1>9 DEF ImageBacked
  <2>2. SubjectBacked(i.subject) BY <1>4, <2>1 DEF PaperOK
  <2>3. LabelOf[new.digest] = new.source /\ new.digest \notin Vulnerable
      BY <1>3, <1>6, <2>1, <2>2 DEF SubjectBacked
  <2>4. \E x \in signed :
         /\ x = new.receipt.subject /\ x.digest = new.digest /\ x.source = new.source
         /\ x.away \/ x.files = CleanAt(new.source)
      BY <1>3, <1>6, <2>1, <2>2 DEF SubjectBacked
  <2>5. new.quiet => new.risks = CleanAt(new.source) /\ new.source \notin Risky
    <3> SUFFICES ASSUME new.quiet
                 PROVE new.risks = CleanAt(new.source) /\ new.source \notin Risky
        OBVIOUS
    <3>1. s["risks"] = checkout /\ s["head"] = checkout /\ s["clean"] = checkout
        BY <1>3, <1>6, <1>7
    <3>2. ~checkout.dirty /\ checkout = CleanAt(checkout.commit)
        BY <1>3, <1>6, <1>8, <1>9, <3>1
    <3>3. checkout.commit \notin Risky BY <1>3, <1>8, <1>9, <3>1, <3>2
    <3> QED BY <1>3, <3>1, <3>2, <3>3
  <2> QED BY <2>3, <2>4, <2>5 DEF CandidateBacked
<1>10. \A c \in candidates' \ candidates : c.passed => CandidateBacked(c) BY <1>2, <1>9
<1> QED BY <1>1, <1>2, <1>10, GrantKeeps

\* A release that passed has every report it counted, each of the expected commit.
LEMMA WriteReleaseKeeps ==
    ASSUME ReleaseInv, WriteRelease
    PROVE ReleaseInv'
<1> DEFINE j == job["release"]
           s == j.seen
           expected == ExpectedOf("release")
           reports == [k \in Components |-> s[k]]
           passed == /\ HeadAsExpected("release")
                     /\ \A k \in Components : ReportHolds(k, s[k], expected, j.strict)
                     /\ s["evaluation"] # Nothing /\ s["transfer"] # Nothing
                     /\ s["evaluation"].commit = expected /\ s["evaluation"].passed
                     /\ s["transfer"].commit = expected /\ s["transfer"].of = s["hash"]
           new == [expected |-> expected, strict |-> j.strict, reports |-> reports,
                   passed |-> passed]
<1>1. "release" \in Tools BY DEF Tools
<1>2. Concludes("release") /\ UNCHANGED <<paper, candidates>>
      /\ releases' = releases \cup {new}
    BY DEF WriteRelease
<1>3. /\ new.expected = expected /\ new.strict = j.strict /\ new.reports = reports
      /\ (new.passed <=> passed)
    OBVIOUS
<1>4. /\ j # NoJob /\ j.step = Len(LooksOf("release")) + 1 /\ ReleaseJobOK(j)
    BY <1>1, <1>2 DEF Concludes, ReleaseInv, JobsOK
<1>5. ASSUME NEW k \in Components PROVE LookTaken("release", j, k)
  <2> DEFINE n == Cardinality(Components)
             looks == LooksOf("release")
  <2>1. n \in Nat /\ Len(looks) = n + 4 /\ (\E i \in 2 .. n + 1 : looks[i] = k)
        /\ DOMAIN looks = 1 .. Len(looks)
    <3>1. DOMAIN looks = 1 .. Len(looks) BY <1>1, AnyLooks DEF LooksOf
    <3> QED BY <3>1, ReleaseLooks
  <2>2. PICK i \in 2 .. n + 1 : looks[i] = k BY <2>1
  <2>3. i \in DOMAIN looks /\ i < j.step BY <1>4, <2>1, <2>2
  <2>4. looks = Looks("release", j.component) BY DEF LooksOf
  <2> HIDE DEF looks
  <2> QED BY <2>2, <2>3, <2>4 DEF LookTaken
<1>6. ASSUME passed, NEW k \in Components
      PROVE /\ s[k] # Nothing /\ s[k].passed /\ s[k].commit = expected
            /\ j.strict => s[k].strict \/ k \in Legacy
            /\ ReportBacks(k, s[k])
  <2>1. ReportHolds(k, s[k], expected, j.strict) BY <1>6
  <2>2. s[k] # Nothing /\ s[k].passed /\ s[k].commit = expected
        /\ (j.strict => s[k].strict \/ k \in Legacy)
      BY <2>1 DEF ReportHolds
  <2>3. ReportBacks(k, s[k]) BY <1>4, <1>5, <2>2 DEF ReleaseJobOK
  <2> QED BY <2>2, <2>3
<1>7. \A k \in Components : reports[k] = s[k] OBVIOUS
<1> HIDE DEF new, passed, s, expected, reports
<1>8. ASSUME new.passed PROVE ReleaseOfOneCommit(new)
  <2> SUFFICES ASSUME NEW k \in Components
      PROVE LET report == new.reports[k] IN
            /\ report.commit = new.expected
            /\ report.quiet /\ k # "verify_migrations" =>
                 Outcome[new.expected] \in {"pass"} \cup IF report.strict THEN {} ELSE {"warn"}
            /\ new.strict => report.strict \/ k \in Legacy
            /\ k = "generate_verified_status" => new.expected \in Green /\ MainProtected
      BY DEF ReleaseOfOneCommit
  <2>1. new.reports[k] = s[k] /\ new.expected = expected BY <1>3, <1>7
  <2>2. /\ s[k].passed /\ s[k].commit = expected /\ ReportBacks(k, s[k])
        /\ new.strict => s[k].strict \/ k \in Legacy
      BY <1>3, <1>6, <1>8
  <2> QED BY <2>1, <2>2 DEF ReportBacks
<1>9. \A r \in releases' \ releases : r.passed => ReleaseOfOneCommit(r) BY <1>2, <1>8
<1> QED BY <1>1, <1>2, <1>9, GrantKeeps

-----------------------------------------------------------------------------
(***************************************************************************)
(* Everyone else                                                           *)
(***************************************************************************)

\* What others write to the evidence files is signed, removed, or not about images.
LEMMA WriteKeeps ==
    ASSUME ReleaseInv, NEW x \in DOMAIN paper, NEW new, Write(x, new),
           x \notin Components,
           x \in {"subject", "image"} => new = Nothing,
           x = "bundle" => new \in signed',
           signed \subseteq signed',
           \A s \in signed' : SubjectBacked(s)
    PROVE ReleaseInv'
<1>1. /\ paper' = [paper EXCEPT ![x] = new]
      /\ UNCHANGED <<checkout, tag, job, candidates, releases, moves, jobs>>
    BY DEF Write
<1>2. paper = [y \in DOMAIN paper |-> paper[y]] BY DEF ReleaseInv, ReleaseTypeOK
<1>3. /\ DOMAIN paper' = DOMAIN paper /\ paper' = [y \in DOMAIN paper' |-> paper'[y]]
      /\ \A y \in DOMAIN paper : y # x => paper'[y] = paper[y]
      /\ paper'[x] = new
    BY <1>1, <1>2
<1>4. {"subject", "bundle", "image"} \cup Components \subseteq DOMAIN paper
    BY DEF ReleaseInv, ReleaseTypeOK
<1>5. /\ paper'["subject"] \in {paper["subject"], Nothing}
      /\ paper'["image"] \in {paper["image"], Nothing}
      /\ paper'["bundle"] \in {paper["bundle"]} \cup signed'
      /\ \A k \in Components : paper'[k] = paper[k]
    BY <1>3, <1>4
<1>6. PaperOK /\ ReceiptsOK /\ JobsOK /\ ReleaseBacked BY DEF ReleaseInv
<1>7. ReleaseTypeOK' BY <1>1, <1>3 DEF ReleaseInv, ReleaseTypeOK
<1>8. PaperOK'
  <2>1. \A s \in signed' : SubjectBacked(s)' BY <1>1 DEF SubjectBacked
  <2>2. paper'["bundle"] \in signed' \cup {Nothing} BY <1>5, <1>6 DEF PaperOK
  <2>3. paper'["subject"] # Nothing => paper'["subject"] = paper["subject"] BY <1>5
  <2> QED BY <1>1, <1>6, <2>1, <2>2, <2>3 DEF PaperOK, SubjectBacked, SubjectPast
<1>9. ReceiptsOK'
  <2>1. paper'["image"] # Nothing => paper'["image"] = paper["image"] BY <1>5
  <2> QED BY <1>1, <1>5, <1>6, <2>1 DEF ReceiptsOK, ImageBacked, ReportBacks
<1>10. ReleaseBacked'
  <2>1. \A c \in candidates : c.passed => CandidateBacked(c)'
      BY <1>6, BackingStays DEF ReleaseBacked
  <2>2. \A r \in releases : r.passed => ReleaseOfOneCommit(r)'
      BY <1>6 DEF ReleaseBacked, ReleaseOfOneCommit
  <2> QED BY <1>1, <2>1, <2>2 DEF ReleaseBacked
<1>11. JobsOK'
  <2>1. \A t \in Tools : JobOK(t)' BY <1>1, JobStays
  <2>2. /\ SubjectJobOK(job'["subject"]) /\ ImageJobOK(job'["image"])
        /\ CandidateJobOK(job'["candidate"]) /\ VerifierJobOK(job'["verifier"])
        /\ ReleaseJobOK(job'["release"])
      BY <1>1, <1>6 DEF JobsOK
  <2> QED BY <1>1, <1>5, <2>1, <2>2, JobsStay
<1> QED BY <1>7, <1>8, <1>9, <1>10, <1>11 DEF ReleaseInv

\* A file of evidence that is neither subject, bundle nor receipt may hold anything.
LEMMA OtherWriteKeeps ==
    ASSUME ReleaseInv, NEW new, signed' = signed,
           NEW x \in {"sbom", "scan", "other", "manifest", "evaluation", "transfer", "remote"},
           Write(x, new)
    PROVE ReleaseInv'
<1>1. x \in DOMAIN paper /\ x \notin Components
    BY ReleaseAssumption DEF ReleaseInv, ReleaseTypeOK
<1>2. x \notin {"subject", "image", "bundle"} OBVIOUS
<1>3. \A s \in signed' : SubjectBacked(s) BY DEF ReleaseInv, PaperOK
<1> QED BY <1>1, <1>2, <1>3, WriteKeeps

\* A subject is signed as it is, and stays signed.
LEMMA SignSubjectKeeps ==
    ASSUME ReleaseInv, SignSubject
    PROVE ReleaseInv'
<1>1. /\ Write("bundle", paper["subject"]) /\ signed' = signed \cup {paper["subject"]}
      /\ paper["subject"] # Nothing
    BY DEF SignSubject
<1>2. \A s \in signed' : SubjectBacked(s) BY <1>1 DEF ReleaseInv, PaperOK
<1>3. "bundle" \in DOMAIN paper /\ "bundle" \notin Components
    BY ReleaseAssumption DEF ReleaseInv, ReleaseTypeOK
<1> QED BY <1>1, <1>2, <1>3, WriteKeeps

\* An output that is removed leaves nothing to back.
LEMMA RemoveOutputKeeps ==
    ASSUME ReleaseInv, NEW x \in {"subject", "image"}, RemoveOutput(x)
    PROVE ReleaseInv'
<1>1. Write(x, Nothing) /\ signed' = signed BY DEF RemoveOutput
<1>2. \A s \in signed' : SubjectBacked(s) BY <1>1 DEF ReleaseInv, PaperOK
<1>3. x \in DOMAIN paper /\ x \notin Components /\ x # "bundle"
    BY ReleaseAssumption DEF ReleaseInv, ReleaseTypeOK
<1> QED BY <1>1, <1>2, <1>3, WriteKeeps

\* A checkout that moves is one move further from what the tools saw.
LEMMA MoveKeeps ==
    ASSUME ReleaseInv, NEW there \in Checkouts, Move(there)
    PROVE ReleaseInv'
<1>1. /\ there # checkout /\ moves' = moves + 1 /\ checkout' = there
      /\ UNCHANGED <<tag, paper, job, signed, candidates, releases, jobs, papers>>
    BY DEF Move
<1>2. ReleaseTypeOK /\ PaperOK /\ ReceiptsOK /\ JobsOK /\ ReleaseBacked BY DEF ReleaseInv
<1>3. ReleaseTypeOK' BY <1>1, <1>2, ReleaseAssumption DEF ReleaseTypeOK
<1>4. PaperOK' BY <1>1, <1>2 DEF PaperOK, SubjectBacked, SubjectPast
<1>5. ReceiptsOK' BY <1>1, <1>2 DEF ReceiptsOK, ImageBacked, ReportBacks
<1>6. ReleaseBacked' BY <1>1, <1>2 DEF ReleaseBacked, CandidateBacked, ReleaseOfOneCommit
<1>7. \A t \in Tools : job[t] # NoJob => job[t].since \in Nat /\ job[t].since <= moves
    BY <1>2 DEF JobsOK, JobOK
<1>8. moves \in Nat BY <1>2 DEF ReleaseTypeOK
<1>9. \A t \in Tools : JobOK(t)'
  <2> SUFFICES ASSUME NEW t \in Tools PROVE JobOK(t)'
      OBVIOUS
  <2>1. JobOK(t) /\ LooksOf(t)' = LooksOf(t) BY <1>1, <1>2 DEF JobsOK, LooksOf
  <2>2. job[t] # NoJob => job[t].since <= moves' BY <1>1, <1>7, <1>8
  <2> QED BY <1>1, <2>1, <2>2 DEF JobOK
<1>10. SubjectJobOK(job["subject"])'
  <2> DEFINE j == job["subject"]
             first == j.seen["head"]
             files == j.seen["files"]
  <2>1. j # NoJob => j.since \in Nat /\ j.since <= moves /\ j.step \in Nat
    <3>1. "subject" \in Tools BY DEF Tools
    <3>2. j # NoJob => j.step \in 1 .. Len(LooksOf("subject")) + 1
        BY <1>2, <3>1 DEF JobsOK, JobOK
    <3> HIDE DEF j
    <3>3. j # NoJob => j.step \in 1 .. 7 BY <3>2, FixedLens
    <3> QED BY <1>7, <3>1, <3>3 DEF j
  <2>2. SubjectJobOK(j) BY <1>2 DEF JobsOK
  <2> SUFFICES ASSUME j # NoJob PROVE SubjectJobOK(job["subject"])'
      BY <1>1 DEF SubjectJobOK
  <2>3. j.step > 1 => ~first.dirty /\ first = CleanAt(first.commit)
                      /\ (checkout # first => moves - j.since >= 1)
      BY <2>2 DEF SubjectJobOK, Away
  <2>4. j.step > 2 => j.seen["tag"] # Nothing /\ LabelOf[j.seen["tag"]] = first.commit
      BY <2>2 DEF SubjectJobOK
  <2>5. j.step > 5 /\ files # first =>
           moves - j.since >= 1 /\ (checkout = first => moves - j.since >= 2)
      BY <2>2 DEF SubjectJobOK, Away
  <2>6. j.step > 6 /\ files # first => moves - j.since >= 2
      BY <2>2 DEF SubjectJobOK, Away
  <2>7. j.step > 5 => j.step > 1 BY <2>1
  <2> HIDE DEF j, first, files
  <2>8. moves' - j.since >= 1 /\ moves' - j.since >= moves - j.since + 1 BY <1>1, <1>8, <2>1
  <2>9. j.step > 1 => ~first.dirty /\ first = CleanAt(first.commit)
                      /\ (checkout' # first => moves' - j.since >= 1)
      BY <2>3, <2>8
  <2>10. j.step > 5 /\ files # first =>
           moves' - j.since >= 1 /\ (checkout' = first => moves' - j.since >= 2)
    <3> SUFFICES ASSUME j.step > 5, files # first
                 PROVE moves' - j.since >= 1 /\ moves' - j.since >= 2
        OBVIOUS
    <3>1. moves - j.since >= 1 BY <2>5
    <3> QED BY <1>1, <1>8, <2>1, <3>1
  <2>11. j.step > 6 /\ files # first => moves' - j.since >= 2
    <3> SUFFICES ASSUME j.step > 6, files # first PROVE moves' - j.since >= 2
        OBVIOUS
    <3>1. moves - j.since >= 2 BY <2>6
    <3> QED BY <1>1, <1>8, <2>1, <3>1
  <2> QED BY <1>1, <2>4, <2>9, <2>10, <2>11 DEF SubjectJobOK, Away, j, first, files
<1>11. ImageJobOK(job["image"])'
    BY <1>1, <1>2 DEF JobsOK, ImageJobOK, SubjectBacked, SubjectPast
<1>12. CandidateJobOK(job["candidate"])'
  <2> DEFINE j == job["candidate"]
  <2>1. j # NoJob => moves' - j.since # 0
      BY <1>1, <1>7, <1>8 DEF Tools
  <2> QED BY <1>1, <1>2, <2>1 DEF JobsOK, CandidateJobOK, Away, ImageBacked
<1>13. VerifierJobOK(job["verifier"])'
  <2> DEFINE j == job["verifier"]
  <2>1. j # NoJob => moves' - j.since # 0
      BY <1>1, <1>7, <1>8 DEF Tools
  <2> QED BY <1>1, <1>2, <2>1 DEF JobsOK, VerifierJobOK, Away
<1>14. ReleaseJobOK(job["release"])'
    BY <1>1, <1>2 DEF JobsOK, ReleaseJobOK, LookTaken, ReportBacks
<1> QED BY <1>3, <1>4, <1>5, <1>6, <1>9, <1>10, <1>11, <1>12, <1>13, <1>14
        DEF ReleaseInv, JobsOK

\* No part of the invariant reads the tag or the count of files written.
LEMMA TagKeeps ==
    ASSUME ReleaseInv,
           UNCHANGED <<checkout, paper, job, signed, candidates, releases, moves, jobs>>
    PROVE ReleaseInv'
<1>1. ReleaseTypeOK /\ PaperOK /\ ReceiptsOK /\ JobsOK /\ ReleaseBacked BY DEF ReleaseInv
<1>2. ReleaseTypeOK' BY <1>1 DEF ReleaseTypeOK
<1>3. PaperOK' BY <1>1 DEF PaperOK, SubjectBacked, SubjectPast
<1>4. ReceiptsOK' BY <1>1 DEF ReceiptsOK, ImageBacked, ReportBacks
<1>5. ReleaseBacked' BY <1>1 DEF ReleaseBacked, CandidateBacked, ReleaseOfOneCommit
<1>6. JobsOK'
  <2>1. \A t \in Tools : JobOK(t)' BY JobStays
  <2>2. /\ SubjectJobOK(job'["subject"]) /\ ImageJobOK(job'["image"])
        /\ CandidateJobOK(job'["candidate"]) /\ VerifierJobOK(job'["verifier"])
        /\ ReleaseJobOK(job'["release"])
      BY <1>1 DEF JobsOK
  <2> QED BY <2>1, <2>2, JobsStay
<1> QED BY <1>2, <1>3, <1>4, <1>5, <1>6 DEF ReleaseInv

\* At the start nothing is written and nothing runs.
LEMMA ReleaseStart == ReleaseInit => ReleaseInv
<1> SUFFICES ASSUME ReleaseInit PROVE ReleaseInv
    OBVIOUS
<1>1. /\ checkout = CleanAt(FirstCommit) /\ job = [t \in Tools |-> NoJob]
      /\ signed = {} /\ candidates = {} /\ releases = {} /\ moves = 0 /\ jobs = 0
      /\ paper = [x \in {"sbom", "scan", "subject", "bundle", "image", "other", "manifest",
                         "evaluation", "transfer", "remote"} \cup Components |-> Nothing]
    BY DEF ReleaseInit
<1>2. /\ DOMAIN paper = {"sbom", "scan", "subject", "bundle", "image", "other", "manifest",
                         "evaluation", "transfer", "remote"} \cup Components
      /\ \A x \in DOMAIN paper : paper[x] = Nothing
      /\ paper = [x \in DOMAIN paper |-> paper[x]]
    BY <1>1
<1>3. ReleaseTypeOK BY <1>1, <1>2, ReleaseAssumption DEF ReleaseTypeOK, CleanAt
<1>4. PaperOK BY <1>1, <1>2 DEF PaperOK
<1>5. ReceiptsOK BY <1>2 DEF ReceiptsOK
<1>6. \A t \in Tools : job[t] = NoJob BY <1>1
<1>7. JobsOK
    BY <1>6 DEF JobsOK, JobOK, SubjectJobOK, ImageJobOK, CandidateJobOK, VerifierJobOK,
                ReleaseJobOK, Tools
<1>8. ReleaseBacked BY <1>1 DEF ReleaseBacked
<1> QED BY <1>3, <1>4, <1>5, <1>7, <1>8 DEF ReleaseInv

\* Every step keeps the invariant.
LEMMA ReleaseStep == ReleaseInv /\ [ReleaseNext]_releaseVars => ReleaseInv'
<1> SUFFICES ASSUME ReleaseInv, [ReleaseNext]_releaseVars PROVE ReleaseInv'
    OBVIOUS
<1>1. ASSUME NEW t \in {"subject", "image", "candidate"},
             StartJob(t, Nothing, [expected |-> Nothing, strict |-> FALSE])
      PROVE ReleaseInv'
  <2>1. t \in Tools /\ t # "verifier" BY DEF Tools
  <2> QED BY <1>1, <2>1, StartJobKeeps
<1>2. ASSUME NEW o \in Options, StartJob("release", Nothing, o) PROVE ReleaseInv'
  <2>1. "release" \in Tools BY DEF Tools
  <2> QED BY <1>2, <2>1, StartJobKeeps
<1>3. ASSUME NEW o \in Options, NEW k \in Components, StartJob("verifier", k, o)
      PROVE ReleaseInv'
  <2>1. "verifier" \in Tools BY DEF Tools
  <2> QED BY <1>3, <2>1, StartJobKeeps
<1>4. ASSUME NEW t \in Tools, TakeLook(t) PROVE ReleaseInv' BY <1>4, TakeLookKeeps
<1>5. CASE WriteSubject BY <1>5, WriteSubjectKeeps
<1>6. CASE WriteImageReceipt BY <1>6, WriteImageReceiptKeeps
<1>7. CASE WriteCandidateReceipt BY <1>7, WriteCandidateReceiptKeeps
<1>8. CASE WriteReport BY <1>8, WriteReportKeeps
<1>9. CASE WriteRelease BY <1>9, WriteReleaseKeeps
<1>10. ASSUME NEW there \in Checkouts, Move(there) PROVE ReleaseInv' BY <1>10, MoveKeeps
<1>11. ASSUME NEW i \in Images, BuildImage(i) PROVE ReleaseInv'
    BY <1>11, TagKeeps DEF BuildImage
<1>12. ASSUME NEW x \in {"sbom", "scan"}, ScanImage(x) PROVE ReleaseInv'
    BY <1>12, OtherWriteKeeps DEF ScanImage
<1>13. CASE SignSubject BY <1>13, SignSubjectKeeps
<1>14. ASSUME NEW x \in {"subject", "image"}, RemoveOutput(x) PROVE ReleaseInv'
    BY <1>14, RemoveOutputKeeps
<1>15. ASSUME NEW passed \in BOOLEAN, NEW digest \in Images \cup {Nothing},
              IssueOther(passed, digest)
       PROVE ReleaseInv'
    BY <1>15, OtherWriteKeeps DEF IssueOther
<1>16. CASE WriteReleaseManifest BY <1>16, OtherWriteKeeps DEF WriteReleaseManifest
<1>17. ASSUME NEW passed \in BOOLEAN, Evaluate(passed) PROVE ReleaseInv'
    BY <1>17, OtherWriteKeeps DEF Evaluate
<1>18. CASE CheckTransfer BY <1>18, OtherWriteKeeps DEF CheckTransfer
<1>19. CASE ReceiveRemote BY <1>19, OtherWriteKeeps DEF ReceiveRemote
<1>20. CASE UNCHANGED releaseVars BY <1>20, TagKeeps DEF releaseVars
<1> QED BY <1>1, <1>2, <1>3, <1>4, <1>5, <1>6, <1>7, <1>8, <1>9, <1>10, <1>11, <1>12, <1>13,
           <1>14, <1>15, <1>16, <1>17, <1>18, <1>19, <1>20 DEF ReleaseNext

\* evaluate_release_candidate and verify_release grant nothing to a mixture: however the
\* checkout, the tag and the files change between the looks of the gates, a candidate that
\* passes is one signed image of its commit and a release that passes is one commit.
THEOREM ReleasesBacked == ReleaseSpec => []ReleaseBacked
<1>1. ReleaseInv => ReleaseBacked BY DEF ReleaseInv
<1> QED BY <1>1, ReleaseStart, ReleaseStep, PTL DEF ReleaseSpec

-----------------------------------------------------------------------------
(***************************************************************************)
(* The gate of an evaluation: the inductive invariant                      *)
(***************************************************************************)

\* A candidate stands for a finished run as its approval names it.
CandidateTrue(c) ==
    /\ c.session \in 1 .. Len(finished) /\ RanAsApproved(c)
    /\ c.environment = c.approval.environment
Compared(c) ==
    c.eligible => /\ c.against \in 1 .. Len(finished)
                  /\ finished[c.against].pack = finished[c.session].pack
                  /\ finished[c.against].environment = finished[c.session].environment

\* The evidence is that of the last run that finished, and of the candidate if that is its own.
EvidenceOK ==
    LET e == doc["evidence"]  c == doc["candidate"] IN
    /\ e.session = Len(finished)
    /\ e # NoDocument => e.pack = finished[e.session].pack
    /\ c # NoDocument /\ c.session = e.session =>
         /\ e.runner = finished[e.session].runner /\ e.revision = finished[e.session].revision
DocsOK ==
    /\ \A x \in {"candidate", "baseline"} : doc[x] # NoDocument => CandidateTrue(doc[x])
    /\ doc["candidate"] # NoDocument => Compared(doc["candidate"])
    /\ doc["receipt"] # NoDocument => doc["receipt"].id \in Nat /\ doc["receipt"].id <= reviews
    /\ EvidenceOK
IssuedOK ==
    \A i \in issued : i.seen["candidate"].session \in 1 .. Len(finished) /\ OneMomentOneRun(i)

\* The runner: what it was given, what it loaded since, and its entry and its evidence.
Started == {"launched", "loaded", "opened"}
ChildOK ==
    LET a == Seen("approval")  last == finished[Len(finished)]  e == doc["evidence"] IN
    /\ child.pc \in Started \cup {"ended", "failed"}
    /\ DOMAIN child = {"pc", "manifest", "runner", "environment", "revision", "loaded", "within",
                       "on", "opened", "report"}
    /\ child.manifest = Seen("manifest") /\ child.runner = a.runner
    /\ child.environment = a.environment /\ child.revision = Seen("revision")
    /\ child.pc # "ended" => child.report = "none"
    /\ child.pc \in {"loaded", "opened", "ended"} =>
         /\ child.loaded \in a.runner .. file["runner"]
         /\ child.within \in a.environment .. file["environment"]
         /\ child.on \in Seen("revision") .. file["revision"]
    /\ child.pc \in {"opened", "ended"} => child.opened = child.manifest /\ child.opened \in Nat
    /\ child.pc = "ended" =>
         /\ Len(finished) > 0
         /\ last.runner = child.loaded /\ last.environment = child.within
         /\ last.revision = child.on /\ last.pack = child.opened /\ last.since = gate.since
         /\ e.runner = child.runner /\ e.revision = child.revision

\* A gate that runs the benchmark: what its looks have settled.
Offset == IF gate.mode = "compare" THEN 2 ELSE 0
Place == gate.at - Offset
RunOK ==
    LET a == Seen("approval") IN
    gate.mode \in {"run", "compare"} =>
      /\ gate.mode = "compare" /\ gate.at > 2 => CandidateTrue(Seen("baseline"))
      /\ Place > 2 => a.manifest = Seen("manifest") /\ a.from <= gate.since /\ gate.since < a.until
      /\ Place > 7 => Seen("revision") \in 0 .. file["revision"]
      /\ Place > 9 => a.runner \in 0 .. file["runner"]
      /\ Place > 10 => a.environment \in 0 .. file["environment"]
      /\ Place <= 13 => child = NoChild
      /\ Place > 13 => ChildOK
      /\ Place > 14 => child.pc \in {"ended", "failed"}
      /\ child.pc = "ended" => /\ Place > 17 => child.loaded = a.runner
                               /\ Place > 18 => child.within = a.environment
                               /\ Place > 19 => child.on = child.revision

\* A gate that checks a receipt: what it read, and what was in place when it bound that.
ReceiptOK ==
    LET m == gate.moment  r == Seen("receipt") IN
    gate.mode = "receipt" =>
      /\ gate.at > 1 => r # NoDocument /\ doc["receipt"] # NoDocument /\ r.id \in Nat
                        /\ (doc["receipt"] = r \/ doc["receipt"].id > r.id)
      /\ gate.at > 2 => Seen("manifest") \in 0 .. file["manifest"]
      /\ gate.at > 3 => Seen("pack") \in 0 .. file["pack"]
      /\ gate.at > 4 => Seen("evidence") = doc["evidence"] /\ doc["evidence"] # NoDocument
      /\ gate.at > 5 => Seen("candidate") = doc["candidate"] /\ doc["candidate"] # NoDocument
      /\ gate.at > 6 => Seen("runner") \in 0 .. file["runner"]
      /\ gate.at > 7 =>
           /\ ReceiptBound
           /\ \A x \in {"manifest", "pack", "runner"} : m.file[x] \in Seen(x) .. file[x]
           /\ m.doc["evidence"] = doc["evidence"] /\ m.doc["candidate"] = doc["candidate"]
           /\ m.doc["receipt"] = r \/ m.doc["receipt"].id > r.id
           /\ m.doc["receipt"].id \in 0 .. reviews
           /\ doc["receipt"] = m.doc["receipt"] \/ doc["receipt"].id > m.doc["receipt"].id
      /\ gate.at > 8 => Seen("runner") = m.file["runner"]
      /\ gate.at > 9 => Seen("manifest") = m.file["manifest"]
      /\ gate.at > 10 => Seen("pack") = m.file["pack"]
      /\ gate.at > 12 => r = m.doc["receipt"]

FinishedRuns == [runner : Nat, environment : Nat, revision : Nat, pack : Nat, since : Nat]
EvalTypeOK ==
    /\ file = [x \in Inputs |-> file[x]] /\ \A x \in Inputs : file[x] \in Nat
    /\ doc = [x \in Documents |-> doc[x]]
    /\ DOMAIN gate = {"mode", "at", "seen", "since", "moment"}
    /\ gate.mode \in {"none", "preflight", "check", "run", "compare", "receipt"}
    /\ gate.mode # "none" => gate.at \in 1 .. Len(StepsOf(gate.mode))
    /\ gate.at \in Nat /\ DOMAIN gate.seen = Inputs \cup Documents
    /\ gate.mode = "none" => child.pc \in {"none", "ended", "failed"}
    /\ gate.mode \in {"preflight", "check", "receipt"} => child = NoChild
    /\ finished \in Seq(FinishedRuns) /\ reviews \in Nat /\ today \in Nat /\ gate.since \in Nat
    /\ child.pc = "none" => child = NoChild

EvalInv == EvalTypeOK /\ DocsOK /\ IssuedOK /\ RunOK /\ ReceiptOK

-----------------------------------------------------------------------------
(***************************************************************************)
(* The order of the steps                                                  *)
(***************************************************************************)

Steps ==
    {"read", "again", "match", "bind", "launch", "await", "write"} \X
    (Inputs \cup Documents \cup {"approval-check", "receipt-check"})

\* The steps of a part and then those of another.
Joins(w, s, u) ==
    /\ w \in Seq(Steps) /\ Len(w) = Len(s) + Len(u)
    /\ \A i \in 1 .. Len(s) + Len(u) : w[i] = IF i <= Len(s) THEN s[i] ELSE u[i - Len(s)]

LEMMA PartsJoin ==
    ASSUME NEW s \in Seq(Steps), NEW u \in Seq(Steps)
    PROVE Joins(s \o u, s, u)
BY Joined DEF Joins

\* Of a binding of the approval.
LEMMA BindTable ==
    /\ BindSteps \in Seq(Steps) /\ Len(BindSteps) = 6
    /\ BindSteps[1] = <<"read", "manifest">> /\ BindSteps[2] = <<"read", "approval">>
    /\ BindSteps[3] = <<"match", "runner">> /\ BindSteps[4] = <<"match", "environment">>
    /\ BindSteps[5] = <<"again", "manifest">> /\ BindSteps[6] = <<"again", "approval">>
<1> DEFINE u == << <<"read", "manifest">>, <<"read", "approval">>, <<"match", "runner">>,
                   <<"match", "environment">> >>
<1>1. /\ u \in Seq(Steps) /\ Len(u) = 4
      /\ u[1] = <<"read", "manifest">> /\ u[2] = <<"read", "approval">>
      /\ u[3] = <<"match", "runner">> /\ u[4] = <<"match", "environment">>
    BY DEF Steps, Inputs, Documents
<1>2. /\ Unchanged \in Seq(Steps) /\ Len(Unchanged) = 2
      /\ Unchanged[1] = <<"again", "manifest">> /\ Unchanged[2] = <<"again", "approval">>
    BY DEF Steps, Inputs, Documents, Unchanged
<1>3. BindSteps = u \o Unchanged BY DEF BindSteps
<1> HIDE DEF u
<1>4. u \o Unchanged \in Seq(Steps) /\ Len(u \o Unchanged) = 6
      /\ \A i \in 1 .. 6 : (u \o Unchanged)[i] = IF i <= 4 THEN u[i] ELSE Unchanged[i - 4]
  <2>1. Joins(u \o Unchanged, u, Unchanged) BY <1>1, <1>2, PartsJoin
  <2>2. Len(u) = 4 /\ Len(Unchanged) = 2 BY <1>1, <1>2
  <2> QED BY <2>1, <2>2 DEF Joins
<1> QED BY <1>1, <1>2, <1>3, <1>4

\* Of the admission of a run.
LEMMA AdmissionTable ==
    /\ AdmissionSteps \in Seq(Steps) /\ Len(AdmissionSteps) = 12
    /\ \A i \in 1 .. 6 : AdmissionSteps[i] = BindSteps[i]
    /\ AdmissionSteps[7] = <<"read", "revision">> /\ AdmissionSteps[8] = <<"match", "environment">>
    /\ AdmissionSteps[9] = <<"match", "runner">> /\ AdmissionSteps[10] = <<"match", "environment">>
    /\ AdmissionSteps[11] = <<"again", "manifest">> /\ AdmissionSteps[12] = <<"again", "approval">>
<1> DEFINE u == << <<"read", "revision">>, <<"match", "environment">>, <<"match", "runner">>,
                   <<"match", "environment">> >>
           b == BindSteps \o u
<1>1. /\ u \in Seq(Steps) /\ Len(u) = 4
      /\ u[1] = <<"read", "revision">> /\ u[2] = <<"match", "environment">>
      /\ u[3] = <<"match", "runner">> /\ u[4] = <<"match", "environment">>
    BY DEF Steps, Inputs, Documents
<1>2. /\ Unchanged \in Seq(Steps) /\ Len(Unchanged) = 2
      /\ Unchanged[1] = <<"again", "manifest">> /\ Unchanged[2] = <<"again", "approval">>
    BY DEF Steps, Inputs, Documents, Unchanged
<1>3. AdmissionSteps = b \o Unchanged BY DEF AdmissionSteps
<1> HIDE DEF u
<1>4. b \in Seq(Steps) /\ Len(b) = 10
      /\ \A i \in 1 .. 10 : b[i] = IF i <= 6 THEN BindSteps[i] ELSE u[i - 6]
  <2>1. Joins(b, BindSteps, u) BY <1>1, BindTable, PartsJoin
  <2>2. Len(BindSteps) = 6 /\ Len(u) = 4 BY <1>1, BindTable
  <2> QED BY <2>1, <2>2 DEF Joins
<1> HIDE DEF b
<1>5. b \o Unchanged \in Seq(Steps) /\ Len(b \o Unchanged) = 12
      /\ \A i \in 1 .. 12 : (b \o Unchanged)[i] = IF i <= 10 THEN b[i] ELSE Unchanged[i - 10]
  <2>1. Joins(b \o Unchanged, b, Unchanged) BY <1>2, <1>4, PartsJoin
  <2>2. Len(b) = 10 /\ Len(Unchanged) = 2 BY <1>2, <1>4
  <2> DEFINE c == b \o Unchanged
  <2>3. Joins(c, b, Unchanged) BY <2>1
  <2> HIDE DEF c
  <2>4. c \in Seq(Steps) /\ Len(c) = Len(b) + Len(Unchanged) BY <2>3 DEF Joins
  <2>5. ASSUME NEW i \in 1 .. 12 PROVE c[i] = IF i <= 10 THEN b[i] ELSE Unchanged[i - 10]
    <3>1. i \in 1 .. Len(b) + Len(Unchanged) BY <2>2
    <3> QED BY <2>2, <2>3, <3>1 DEF Joins
  <2>6. Len(c) = 12 BY <2>2, <2>4
  <2>7. c \in Seq(Steps) /\ Len(c) = 12
        /\ \A i \in 1 .. 12 : c[i] = IF i <= 10 THEN b[i] ELSE Unchanged[i - 10]
    BY <2>4, <2>5, <2>6
  <2> QED BY <2>7 DEF c
<1>6. ASSUME NEW i \in 1 .. 10 PROVE AdmissionSteps[i] = b[i]
  <2>1. i \in 1 .. 12 /\ i <= 10 OBVIOUS
  <2> QED BY <1>3, <1>5, <2>1
<1>7. \A i \in 1 .. 6 : AdmissionSteps[i] = BindSteps[i] BY <1>4, <1>6
<1>8. /\ AdmissionSteps[7] = u[1] /\ AdmissionSteps[8] = u[2]
      /\ AdmissionSteps[9] = u[3] /\ AdmissionSteps[10] = u[4]
    BY <1>4, <1>6
<1>9. AdmissionSteps[11] = Unchanged[1] /\ AdmissionSteps[12] = Unchanged[2] BY <1>3, <1>5
<1> QED BY <1>1, <1>2, <1>3, <1>5, <1>7, <1>8, <1>9

\* Of a run.
LEMMA RunTable ==
    /\ RunSteps \in Seq(Steps) /\ Len(RunSteps) = 20
    /\ \A i \in 1 .. 12 : RunSteps[i] = AdmissionSteps[i]
    /\ RunSteps[13] = <<"launch", "runner">> /\ RunSteps[14] = <<"await", "runner">>
    /\ RunSteps[15] = <<"again", "manifest">> /\ RunSteps[16] = <<"again", "approval">>
    /\ RunSteps[17] = <<"match", "runner">> /\ RunSteps[18] = <<"match", "environment">>
    /\ RunSteps[19] = <<"again", "revision">> /\ RunSteps[20] = <<"write", "candidate">>
<1> DEFINE u == << <<"launch", "runner">>, <<"await", "runner">> >>
           w == << <<"match", "runner">>, <<"match", "environment">>, <<"again", "revision">> >>
           z == << <<"write", "candidate">> >>
           b == AdmissionSteps \o u
           c == b \o AfterSteps
<1>1. /\ u \in Seq(Steps) /\ Len(u) = 2
      /\ u[1] = <<"launch", "runner">> /\ u[2] = <<"await", "runner">>
    BY DEF Steps, Inputs, Documents
<1>2. /\ Unchanged \in Seq(Steps) /\ Len(Unchanged) = 2
      /\ Unchanged[1] = <<"again", "manifest">> /\ Unchanged[2] = <<"again", "approval">>
    BY DEF Steps, Inputs, Documents, Unchanged
<1>3. /\ w \in Seq(Steps) /\ Len(w) = 3
      /\ w[1] = <<"match", "runner">> /\ w[2] = <<"match", "environment">>
      /\ w[3] = <<"again", "revision">>
    BY DEF Steps, Inputs, Documents
<1>4. z \in Seq(Steps) /\ Len(z) = 1 /\ z[1] = <<"write", "candidate">> BY DEF Steps, Inputs, Documents
<1>5. RunSteps = c \o z /\ AfterSteps = Unchanged \o w BY DEF RunSteps, AfterSteps
<1> HIDE DEF u, w, z
<1>6. AfterSteps \in Seq(Steps) /\ Len(AfterSteps) = 5
      /\ \A i \in 1 .. 5 : AfterSteps[i] = IF i <= 2 THEN Unchanged[i] ELSE w[i - 2]
  <2>1. Joins(AfterSteps, Unchanged, w) BY <1>2, <1>3, <1>5, PartsJoin
  <2>2. Len(Unchanged) = 2 /\ Len(w) = 3 BY <1>2, <1>3, <1>5
  <2>3. AfterSteps \in Seq(Steps) /\ Len(AfterSteps) = Len(Unchanged) + Len(w)
        /\ \A i \in 1 .. Len(Unchanged) + Len(w) :
             AfterSteps[i] = IF i <= Len(Unchanged) THEN Unchanged[i] ELSE w[i - Len(Unchanged)]
      BY <2>1 DEF Joins
  <2>4. Len(Unchanged) + Len(w) = 5 BY <2>2
  <2> QED BY <2>2, <2>3, <2>4
<1>7. b \in Seq(Steps) /\ Len(b) = 14
      /\ \A i \in 1 .. 14 : b[i] = IF i <= 12 THEN AdmissionSteps[i] ELSE u[i - 12]
  <2>1. Joins(b, AdmissionSteps, u) BY <1>1, AdmissionTable, PartsJoin
  <2>2. Len(AdmissionSteps) = 12 /\ Len(u) = 2 BY <1>1, AdmissionTable
  <2>3. b \in Seq(Steps) /\ Len(b) = Len(AdmissionSteps) + Len(u)
        /\ \A i \in 1 .. Len(AdmissionSteps) + Len(u) :
             b[i] = IF i <= Len(AdmissionSteps) THEN AdmissionSteps[i] ELSE u[i - Len(AdmissionSteps)]
      BY <2>1 DEF Joins
  <2>4. Len(AdmissionSteps) + Len(u) = 14 BY <2>2
  <2> QED BY <2>2, <2>3, <2>4
<1> HIDE DEF b
<1>8. c \in Seq(Steps) /\ Len(c) = 19
      /\ \A i \in 1 .. 19 : c[i] = IF i <= 14 THEN b[i] ELSE AfterSteps[i - 14]
  <2>1. Joins(c, b, AfterSteps) BY <1>6, <1>7, PartsJoin
  <2>2. Len(b) = 14 /\ Len(AfterSteps) = 5 BY <1>6, <1>7
  <2>3. c \in Seq(Steps) /\ Len(c) = Len(b) + Len(AfterSteps)
        /\ \A i \in 1 .. Len(b) + Len(AfterSteps) :
             c[i] = IF i <= Len(b) THEN b[i] ELSE AfterSteps[i - Len(b)]
      BY <2>1 DEF Joins
  <2>4. Len(b) + Len(AfterSteps) = 19 BY <2>2
  <2> QED BY <2>2, <2>3, <2>4
<1> HIDE DEF c
<1>9. RunSteps \in Seq(Steps) /\ Len(RunSteps) = 20
      /\ \A i \in 1 .. 20 : RunSteps[i] = IF i <= 19 THEN c[i] ELSE z[i - 19]
  <2>1. Joins(RunSteps, c, z) BY <1>4, <1>5, <1>8, PartsJoin
  <2>2. Len(c) = 19 /\ Len(z) = 1 BY <1>4, <1>5, <1>8
  <2>3. RunSteps \in Seq(Steps) /\ Len(RunSteps) = Len(c) + Len(z)
        /\ \A i \in 1 .. Len(c) + Len(z) :
             RunSteps[i] = IF i <= Len(c) THEN c[i] ELSE z[i - Len(c)]
      BY <2>1 DEF Joins
  <2>4. Len(c) + Len(z) = 20 BY <2>2
  <2> QED BY <2>2, <2>3, <2>4
<1>10. \A i \in 1 .. 19 : RunSteps[i] = c[i] BY <1>9
<1>11. ASSUME NEW i \in 1 .. 14 PROVE RunSteps[i] = b[i]
  <2>1. i \in 1 .. 19 /\ i <= 14 OBVIOUS
  <2> QED BY <1>8, <1>10, <2>1
<1>12. \A i \in 1 .. 12 : RunSteps[i] = AdmissionSteps[i] BY <1>7, <1>11
<1>13. RunSteps[13] = u[1] /\ RunSteps[14] = u[2] BY <1>7, <1>11
<1>14. /\ RunSteps[15] = AfterSteps[1] /\ RunSteps[16] = AfterSteps[2]
       /\ RunSteps[17] = AfterSteps[3] /\ RunSteps[18] = AfterSteps[4]
       /\ RunSteps[19] = AfterSteps[5]
    BY <1>8, <1>10
<1>15. /\ AfterSteps[1] = Unchanged[1] /\ AfterSteps[2] = Unchanged[2]
       /\ AfterSteps[3] = w[1] /\ AfterSteps[4] = w[2] /\ AfterSteps[5] = w[3]
    BY <1>6
<1>16. RunSteps[20] = z[1] BY <1>9
<1>17. RunSteps \in Seq(Steps) /\ Len(RunSteps) = 20 BY <1>9
<1> QED BY <1>1, <1>2, <1>3, <1>4, <1>12, <1>13, <1>14, <1>15, <1>16, <1>17

\* Of a run that is compared with a baseline.
LEMMA CompareTable ==
    /\ BaselineSteps \o RunSteps \in Seq(Steps) /\ Len(BaselineSteps \o RunSteps) = 22
    /\ (BaselineSteps \o RunSteps)[1] = <<"read", "seal">>
    /\ (BaselineSteps \o RunSteps)[2] = <<"read", "baseline">>
    /\ \A i \in 3 .. 22 : (BaselineSteps \o RunSteps)[i] = RunSteps[i - 2]
<1>1. /\ BaselineSteps \in Seq(Steps) /\ Len(BaselineSteps) = 2
      /\ BaselineSteps[1] = <<"read", "seal">> /\ BaselineSteps[2] = <<"read", "baseline">>
    BY DEF Steps, Inputs, Documents, BaselineSteps
<1>2. BaselineSteps \o RunSteps \in Seq(Steps) /\ Len(BaselineSteps \o RunSteps) = 22
      /\ \A i \in 1 .. 22 : (BaselineSteps \o RunSteps)[i] =
                              IF i <= 2 THEN BaselineSteps[i] ELSE RunSteps[i - 2]
  <2>1. Joins(BaselineSteps \o RunSteps, BaselineSteps, RunSteps) BY <1>1, RunTable, PartsJoin
  <2>2. Len(BaselineSteps) = 2 /\ Len(RunSteps) = 20 BY <1>1, RunTable
  <2>3. /\ BaselineSteps \o RunSteps \in Seq(Steps)
        /\ Len(BaselineSteps \o RunSteps) = Len(BaselineSteps) + Len(RunSteps)
        /\ \A i \in 1 .. Len(BaselineSteps) + Len(RunSteps) :
             (BaselineSteps \o RunSteps)[i] = IF i <= Len(BaselineSteps) THEN BaselineSteps[i] ELSE RunSteps[i - Len(BaselineSteps)]
      BY <2>1 DEF Joins
  <2>4. Len(BaselineSteps) + Len(RunSteps) = 22 BY <2>2
  <2> QED BY <2>2, <2>3, <2>4
<1> DEFINE c == BaselineSteps \o RunSteps
<1>5. \A i \in 1 .. 22 : c[i] = IF i <= 2 THEN BaselineSteps[i] ELSE RunSteps[i - 2] BY <1>2
<1> HIDE DEF c
<1>3. c[1] = BaselineSteps[1] /\ c[2] = BaselineSteps[2] BY <1>5
<1>4. \A i \in 3 .. 22 : c[i] = RunSteps[i - 2] BY <1>5
<1> USE DEF c
<1> QED BY <1>1, <1>2, <1>3, <1>4

\* Of an approval check: it neither launches nor binds.
LEMMA CheckTable ==
    /\ ApprovalSteps \in Seq(Steps) /\ Len(ApprovalSteps) = 12
    /\ \A i \in 1 .. 12 : ApprovalSteps[i][1] \in {"read", "again", "match", "write"}
    /\ \A i \in 1 .. 12 :
         ApprovalSteps[i][1] = "write" => i = 12 /\ ApprovalSteps[i][2] = "approval-check"
    /\ ApprovalSteps[12][1] = "write"
<1> DEFINE u == << <<"read", "revision">>, <<"read", "runner">>, <<"read", "environment">> >>
           z == << <<"write", "approval-check">> >>
           b == BindSteps \o u
           c == b \o Unchanged
<1>1. /\ u \in Seq(Steps) /\ Len(u) = 3 /\ u[1][1] = "read" /\ u[2][1] = "read" /\ u[3][1] = "read"
    BY DEF Steps, Inputs, Documents
<1>2. /\ Unchanged \in Seq(Steps) /\ Len(Unchanged) = 2
      /\ Unchanged[1] = <<"again", "manifest">> /\ Unchanged[2] = <<"again", "approval">>
    BY DEF Steps, Inputs, Documents, Unchanged
<1>3. z \in Seq(Steps) /\ Len(z) = 1 /\ z[1] = <<"write", "approval-check">> BY DEF Steps, Inputs, Documents
<1>4. ApprovalSteps = c \o z BY DEF ApprovalSteps
<1> HIDE DEF u, z
<1>5. b \in Seq(Steps) /\ Len(b) = 9
      /\ \A i \in 1 .. 9 : b[i] = IF i <= 6 THEN BindSteps[i] ELSE u[i - 6]
  <2>1. Joins(b, BindSteps, u) BY <1>1, BindTable, PartsJoin
  <2>2. Len(BindSteps) = 6 /\ Len(u) = 3 BY <1>1, BindTable
  <2> QED BY <2>1, <2>2 DEF Joins
<1> HIDE DEF b
<1>6. c \in Seq(Steps) /\ Len(c) = 11
      /\ \A i \in 1 .. 11 : c[i] = IF i <= 9 THEN b[i] ELSE Unchanged[i - 9]
  <2>1. Joins(c, b, Unchanged) BY <1>2, <1>5, PartsJoin
  <2>2. Len(b) = 9 /\ Len(Unchanged) = 2 BY <1>2, <1>5
  <2> QED BY <2>1, <2>2 DEF Joins
<1> HIDE DEF c
<1>7. ApprovalSteps \in Seq(Steps) /\ Len(ApprovalSteps) = 12
      /\ \A i \in 1 .. 12 : ApprovalSteps[i] = IF i <= 11 THEN c[i] ELSE z[i - 11]
  <2>1. Joins(ApprovalSteps, c, z) BY <1>3, <1>4, <1>6, PartsJoin
  <2>2. Len(c) = 11 /\ Len(z) = 1 BY <1>3, <1>4, <1>6
  <2> QED BY <2>1, <2>2 DEF Joins
<1>8. \A i \in 1 .. 6 : BindSteps[i][1] \in {"read", "again", "match"} BY BindTable
<1>9. \A i \in 1 .. 9 : b[i][1] \in {"read", "again", "match"}
  <2> SUFFICES ASSUME NEW i \in 1 .. 9 PROVE b[i][1] \in {"read", "again", "match"}
      OBVIOUS
  <2>1. CASE i \in 1 .. 6 BY <1>5, <1>8, <2>1
  <2>2. CASE i \in 7 .. 9 BY <1>1, <1>5, <2>2
  <2> QED BY <2>1, <2>2
<1>10. \A i \in 1 .. 11 : ApprovalSteps[i][1] \in {"read", "again", "match"}
  <2> SUFFICES ASSUME NEW i \in 1 .. 11 PROVE ApprovalSteps[i][1] \in {"read", "again", "match"}
      OBVIOUS
  <2>1. CASE i \in 1 .. 9 BY <1>6, <1>7, <1>9, <2>1
  <2>2. CASE i \in {10, 11} BY <1>2, <1>6, <1>7, <2>2
  <2> QED BY <2>1, <2>2
<1>11. ApprovalSteps[12] = <<"write", "approval-check">> BY <1>3, <1>7
<1> QED BY <1>7, <1>10, <1>11

\* The step of a gate that runs the benchmark.
LEMMA RunStep ==
    ASSUME EvalTypeOK, gate.mode \in {"run", "compare"}
    PROVE LET kind == Step[1]  x == Step[2] IN
          /\ gate.at \in Nat /\ gate.at \in 1 .. 20 + Offset /\ Place \in (1 - Offset) .. 20
          /\ Offset \in {0, 2}
          /\ kind \in {"read", "match", "again", "launch", "await", "write"}
          /\ kind = "read" => \/ Place = 1 /\ x = "manifest"
                              \/ Place = 2 /\ x = "approval"
                              \/ Place = 7 /\ x = "revision"
                              \/ gate.mode = "compare" /\ gate.at = 1 /\ x = "seal"
                              \/ gate.mode = "compare" /\ gate.at = 2 /\ x = "baseline"
          /\ kind = "match" => \/ Place \in {3, 9, 17} /\ x = "runner"
                               \/ Place \in {4, 8, 10, 18} /\ x = "environment"
          /\ kind = "again" => \/ Place \in {5, 11, 15} /\ x = "manifest"
                               \/ Place \in {6, 12, 16} /\ x = "approval"
                               \/ Place = 19 /\ x = "revision"
          /\ kind = "launch" <=> Place = 13
          /\ kind = "await" <=> Place = 14
          /\ kind = "write" <=> Place = 20
          /\ kind = "write" => x = "candidate"
<1> DEFINE kind == Step[1]
           x == Step[2]
           P == /\ kind \in {"read", "match", "again", "launch", "await", "write"}
                /\ kind = "read" => \/ Place = 1 /\ x = "manifest"
                                    \/ Place = 2 /\ x = "approval"
                                    \/ Place = 7 /\ x = "revision"
                                    \/ gate.mode = "compare" /\ gate.at = 1 /\ x = "seal"
                                    \/ gate.mode = "compare" /\ gate.at = 2 /\ x = "baseline"
                /\ kind = "match" => \/ Place \in {3, 9, 17} /\ x = "runner"
                                     \/ Place \in {4, 8, 10, 18} /\ x = "environment"
                /\ kind = "again" => \/ Place \in {5, 11, 15} /\ x = "manifest"
                                     \/ Place \in {6, 12, 16} /\ x = "approval"
                                     \/ Place = 19 /\ x = "revision"
                /\ kind = "launch" <=> Place = 13
                /\ kind = "await" <=> Place = 14
                /\ kind = "write" <=> Place = 20
                /\ kind = "write" => x = "candidate"
<1>1. gate.at \in 1 .. Len(StepsOf(gate.mode)) BY DEF EvalTypeOK
<1>2. /\ gate.mode = "run" => StepsOf(gate.mode) = RunSteps
      /\ gate.mode = "compare" => StepsOf(gate.mode) = BaselineSteps \o RunSteps
    BY DEF StepsOf
<1>3. gate.at \in 1 .. 20 + Offset /\ Offset \in {0, 2} /\ Place = gate.at - Offset
      /\ (gate.mode = "compare" <=> Offset = 2)
  <2>1. CASE gate.mode = "run"
    <3>1. gate.at \in 1 .. 20 BY <1>1, <1>2, <2>1, RunTable
    <3>2. Offset = 0 /\ Place = gate.at - 0 BY <2>1 DEF Offset, Place
    <3> QED BY <2>1, <3>1, <3>2 DEF Place
  <2>2. CASE gate.mode = "compare"
    <3>1. gate.at \in 1 .. 22 BY <1>1, <1>2, <2>2, CompareTable
    <3>2. Offset = 2 BY <2>2 DEF Offset
    <3> QED BY <2>2, <3>1, <3>2 DEF Place
  <2> QED BY <2>1, <2>2
<1>4. CASE Place < 1
  <2>1. gate.mode = "compare" /\ gate.at \in {1, 2} BY <1>3, <1>4
  <2>2. Step = IF gate.at = 1 THEN <<"read", "seal">> ELSE <<"read", "baseline">>
      BY <1>2, <2>1, CompareTable DEF Step
  <2>3. Place # 13 /\ Place # 14 /\ Place # 20 BY <1>3, <1>4
  <2>4. P BY <2>1, <2>2, <2>3
  <2> QED BY <1>3, <1>4, <2>4
<1>5. CASE Place >= 1
  <2>1. Place \in 1 .. 20 /\ Step = RunSteps[Place]
    <3>1. CASE gate.mode = "run" BY <1>2, <1>3, <1>5, <3>1 DEF Step
    <3>2. CASE gate.mode = "compare"
      <4>1. gate.at \in 3 .. 22 /\ gate.at - 2 = Place BY <1>3, <1>5, <3>2
      <4>2. (BaselineSteps \o RunSteps)[gate.at] = RunSteps[gate.at - 2] BY <4>1, CompareTable
      <4>3. Step = (BaselineSteps \o RunSteps)[gate.at] BY <1>2, <3>2 DEF Step
      <4>4. Step = RunSteps[Place] BY <4>1, <4>2, <4>3
      <4> QED BY <1>3, <1>5, <4>4
    <3> QED BY <3>1, <3>2
  <2> DEFINE q == Place
  <2>2. ASSUME NEW i \in 1 .. 12, NEW k, NEW y, k = RunSteps[i][1], y = RunSteps[i][2]
        PROVE /\ k \in {"read", "match", "again"}
              /\ k = "read" => \/ i = 1 /\ y = "manifest"
                               \/ i = 2 /\ y = "approval"
                               \/ i = 7 /\ y = "revision"
              /\ k = "match" => (i \in {3, 9} /\ y = "runner") \/ (i \in {4, 8, 10} /\ y = "environment")
              /\ k = "again" => (i \in {5, 11} /\ y = "manifest") \/ (i \in {6, 12} /\ y = "approval")
    <3>1. RunSteps[i] = AdmissionSteps[i] BY RunTable
    <3>2. CASE i \in 1 .. 6
      <4>1. k = BindSteps[i][1] /\ y = BindSteps[i][2] BY <2>2, <3>1, <3>2, AdmissionTable
      <4>2. CASE i = 1
        <5>1. k = "read" /\ y = "manifest" BY <4>1, <4>2, BindTable
        <5> QED BY <4>2, <5>1
      <4>3. CASE i = 2
        <5>1. k = "read" /\ y = "approval" BY <4>1, <4>3, BindTable
        <5> QED BY <4>3, <5>1
      <4>4. CASE i = 3
        <5>1. k = "match" /\ y = "runner" BY <4>1, <4>4, BindTable
        <5> QED BY <4>4, <5>1
      <4>5. CASE i = 4
        <5>1. k = "match" /\ y = "environment" BY <4>1, <4>5, BindTable
        <5> QED BY <4>5, <5>1
      <4>6. CASE i = 5
        <5>1. k = "again" /\ y = "manifest" BY <4>1, <4>6, BindTable
        <5> QED BY <4>6, <5>1
      <4>7. CASE i = 6
        <5>1. k = "again" /\ y = "approval" BY <4>1, <4>7, BindTable
        <5> QED BY <4>7, <5>1
      <4> QED BY <3>2, <4>2, <4>3, <4>4, <4>5, <4>6, <4>7
    <3>3. CASE i \in 7 .. 12
      <4>1. k = AdmissionSteps[i][1] /\ y = AdmissionSteps[i][2] BY <2>2, <3>1
      <4>2. CASE i = 7
        <5>1. k = "read" /\ y = "revision" BY <4>1, <4>2, AdmissionTable
        <5> QED BY <4>2, <5>1
      <4>3. CASE i = 8
        <5>1. k = "match" /\ y = "environment" BY <4>1, <4>3, AdmissionTable
        <5> QED BY <4>3, <5>1
      <4>4. CASE i = 9
        <5>1. k = "match" /\ y = "runner" BY <4>1, <4>4, AdmissionTable
        <5> QED BY <4>4, <5>1
      <4>5. CASE i = 10
        <5>1. k = "match" /\ y = "environment" BY <4>1, <4>5, AdmissionTable
        <5> QED BY <4>5, <5>1
      <4>6. CASE i = 11
        <5>1. k = "again" /\ y = "manifest" BY <4>1, <4>6, AdmissionTable
        <5> QED BY <4>6, <5>1
      <4>7. CASE i = 12
        <5>1. k = "again" /\ y = "approval" BY <4>1, <4>7, AdmissionTable
        <5> QED BY <4>7, <5>1
      <4> QED BY <3>3, <4>2, <4>3, <4>4, <4>5, <4>6, <4>7
    <3> QED BY <3>2, <3>3
  <2>3. CASE Place \in 1 .. 12
    <3> DEFINE i == Place
    <3>1. Place # 13 /\ Place # 14 /\ Place # 17 /\ Place # 18 /\ Place # 19 /\ Place # 20
        BY <2>3
    <3>2. i \in 1 .. 12 /\ kind = RunSteps[i][1] /\ x = RunSteps[i][2] BY <2>1, <2>3
    <3> HIDE DEF i, kind, x
    <3>3. /\ kind \in {"read", "match", "again"}
          /\ kind = "read" => \/ i = 1 /\ x = "manifest"
                              \/ i = 2 /\ x = "approval"
                              \/ i = 7 /\ x = "revision"
          /\ kind = "match" => (i \in {3, 9} /\ x = "runner") \/ (i \in {4, 8, 10} /\ x = "environment")
          /\ kind = "again" => (i \in {5, 11} /\ x = "manifest") \/ (i \in {6, 12} /\ x = "approval")
        BY <2>2, <3>2
    <3>4. P BY <3>1, <3>3 DEF i
    <3> QED BY <1>3, <1>5, <2>1, <3>4 DEF kind, x
  <2>4. CASE Place \in 13 .. 16
    <3> HIDE DEF Place
    <3>1. P BY <2>1, <2>4, RunTable
    <3> QED BY <1>3, <1>5, <2>1, <3>1
  <2>5. CASE Place \in 17 .. 20
    <3> HIDE DEF Place
    <3>1. P BY <2>1, <2>5, RunTable
    <3> QED BY <1>3, <1>5, <2>1, <3>1
  <2> QED BY <2>1, <2>3, <2>4, <2>5
<1> QED BY <1>3, <1>4, <1>5

\* The step of a gate that checks a receipt.
LEMMA ReceiptStep ==
    ASSUME EvalTypeOK, gate.mode = "receipt"
    PROVE /\ gate.at \in 1 .. 14
          /\ Step = << <<"read", "receipt">>, <<"read", "manifest">>, <<"read", "pack">>,
                       <<"read", "evidence">>, <<"read", "candidate">>, <<"read", "runner">>,
                       <<"bind", "receipt">>, <<"again", "runner">>, <<"again", "manifest">>,
                       <<"again", "pack">>, <<"again", "candidate">>, <<"again", "receipt">>,
                       <<"again", "evidence">>, <<"write", "receipt-check">> >>[gate.at]
<1>1. StepsOf(gate.mode) = ReceiptSteps BY DEF StepsOf
<1>2. Len(ReceiptSteps) = 14 BY DEF ReceiptSteps
<1>3. gate.at \in 1 .. Len(StepsOf(gate.mode)) BY DEF EvalTypeOK
<1> QED BY <1>1, <1>2, <1>3 DEF Step, ReceiptSteps

\* The step of a gate that prepares or checks an approval.
LEMMA ApprovalStep ==
    ASSUME EvalTypeOK, gate.mode \in {"preflight", "check"}
    PROVE /\ Step[1] \in {"read", "again", "match", "write"}
          /\ Step[1] = "write" => gate.at = Len(StepsOf(gate.mode))
                                  /\ Step[2] \in {"preflight", "approval-check"}
          /\ Step[1] # "write" => gate.at + 1 \in 1 .. Len(StepsOf(gate.mode))
<1>1. gate.at \in 1 .. Len(StepsOf(gate.mode)) BY DEF EvalTypeOK
<1>2. CASE gate.mode = "preflight"
  <2>1. StepsOf(gate.mode) = PreflightSteps BY <1>2 DEF StepsOf
  <2>2. Len(PreflightSteps) = 6
        /\ PreflightSteps[1][1] = "read" /\ PreflightSteps[2][1] = "read"
        /\ PreflightSteps[3][1] = "read" /\ PreflightSteps[4][1] = "read"
        /\ PreflightSteps[5][1] = "again" /\ PreflightSteps[6] = <<"write", "preflight">>
      BY DEF PreflightSteps
  <2> QED BY <1>1, <2>1, <2>2 DEF Step
<1>3. CASE gate.mode = "check"
  <2>1. StepsOf(gate.mode) = ApprovalSteps BY <1>3 DEF StepsOf
  <2>2. gate.at \in 1 .. 12 /\ Step = ApprovalSteps[gate.at] BY <1>1, <2>1, CheckTable DEF Step
  <2>3. \A i \in 1 .. 12 : ApprovalSteps[i][1] \in {"read", "again", "match", "write"}
      BY CheckTable
  <2>4. \A i \in 1 .. 12 :
           ApprovalSteps[i][1] = "write" => i = 12 /\ ApprovalSteps[i][2] = "approval-check"
      BY CheckTable
  <2>5. ApprovalSteps[12][1] = "write" BY CheckTable
  <2>6. Len(StepsOf(gate.mode)) = 12 BY <2>1, CheckTable
  <2> QED BY <2>2, <2>3, <2>4, <2>5, <2>6
<1> QED BY <1>2, <1>3
-----------------------------------------------------------------------------
(***************************************************************************)
(* What a move leaves in place                                             *)
(***************************************************************************)

Fields == {"mode", "at", "seen", "since", "moment"}

\* A gate that goes on stays itself, one step further.
LEMMA GoesOn ==
    ASSUME EvalTypeOK, NEW g, DOMAIN g = Fields, g.mode = gate.mode, g.at = gate.at, Advance(g)
    PROVE /\ DOMAIN gate' = Fields /\ gate'.mode = gate.mode /\ gate'.at = gate.at + 1
          /\ gate'.seen = g.seen /\ gate'.since = g.since /\ gate'.moment = g.moment
          /\ g = gate => gate'.seen = gate.seen /\ gate'.since = gate.since
                         /\ gate'.moment = gate.moment
          /\ Offset' = Offset /\ Place' = Place + 1
<1>1. gate'.mode = gate.mode /\ gate'.at = gate.at + 1 /\ DOMAIN gate' = Fields
      /\ gate'.seen = g.seen /\ gate'.since = g.since /\ gate'.moment = g.moment
    BY DEF Advance, Fields
<1>2. Offset' = Offset /\ Offset \in {0, 2} BY <1>1 DEF Offset
<1>3. Place' = Place + 1 BY <1>1, <1>2 DEF Place, EvalTypeOK
<1> QED BY <1>1, <1>2, <1>3

\* The documents, when no run has finished and no receipt came.
LEMMA DocsStay ==
    ASSUME DocsOK, UNCHANGED <<doc, finished, reviews>>
    PROVE DocsOK'
BY DEF DocsOK, CandidateTrue, RanAsApproved, Compared, EvidenceOK

\* The receipts that were issued, while the runs are the same.
LEMMA IssuedStays ==
    ASSUME IssuedOK, UNCHANGED <<issued, finished>>
    PROVE IssuedOK'
BY DEF IssuedOK, OneMomentOneRun

\* A gate that refuses leaves nothing to keep, and no runner at work.
LEMMA Refused ==
    ASSUME EvalInv, gate' = Idle, UNCHANGED <<file, doc, child, finished, issued, today, reviews>>,
           gate.mode \in {"run", "compare"} => Place \in Int /\ Place # 14
    PROVE EvalInv'
<1>1. DocsOK' /\ IssuedOK' BY DocsStay, IssuedStays DEF EvalInv
<1>2. gate'.mode = "none" /\ gate'.at = 1 /\ gate'.since = 0 /\ DOMAIN gate' = Fields
      /\ DOMAIN gate'.seen = Inputs \cup Documents
    BY DEF Idle, Fields
<1>3. RunOK' /\ ReceiptOK' BY <1>2 DEF RunOK, ReceiptOK
<1>4. child.pc \in {"none", "ended", "failed"}
  <2>1. CASE gate.mode \in {"run", "compare"}
    <3>1. Place <= 13 \/ Place > 14 BY <2>1
    <3> QED BY <2>1, <3>1 DEF EvalInv, RunOK, NoChild
  <2>2. CASE gate.mode \notin {"run", "compare"} BY <2>2 DEF EvalInv, EvalTypeOK, NoChild
  <2> QED BY <2>1, <2>2
<1>5. EvalTypeOK' BY <1>2, <1>4 DEF EvalInv, EvalTypeOK, Fields
<1> QED BY <1>1, <1>3, <1>5 DEF EvalInv

\* A gate that neither runs nor checks a receipt goes on, or stops.
LEMMA ApprovalGoesOn ==
    ASSUME EvalInv, gate.mode \in {"preflight", "check"}, Step[1] # "write",
           NEW g, DOMAIN g = Fields, g.mode = gate.mode, g.at = gate.at, g.since \in Nat,
           DOMAIN g.seen = Inputs \cup Documents, Advance(g),
           UNCHANGED <<file, doc, child, finished, issued, today, reviews>>
    PROVE EvalInv'
<1>1. EvalTypeOK /\ child = NoChild BY DEF EvalInv, EvalTypeOK
<1>2. gate'.mode = gate.mode /\ gate'.at = gate.at + 1 /\ gate'.since = g.since
      /\ gate'.seen = g.seen /\ DOMAIN gate' = Fields
    BY <1>1, GoesOn
<1>3. gate.at + 1 \in 1 .. Len(StepsOf(gate.mode)) BY <1>1, ApprovalStep
<1>4. EvalTypeOK' BY <1>1, <1>2, <1>3 DEF EvalTypeOK, Fields, NoChild
<1>5. RunOK' /\ ReceiptOK' BY <1>2 DEF RunOK, ReceiptOK
<1> QED BY <1>4, <1>5, DocsStay, IssuedStays DEF EvalInv

\* The type of a gate that goes on and is not at its last step, its child apart.
LEMMA GoesOnTyped ==
    ASSUME EvalTypeOK, gate.mode # "none", NEW g, DOMAIN g = Fields, g.mode = gate.mode,
           g.at = gate.at, g.since \in Nat, DOMAIN g.seen = Inputs \cup Documents, Advance(g),
           gate.at + 1 \in 1 .. Len(StepsOf(gate.mode)),
           UNCHANGED <<file, doc, child, finished, issued, today, reviews>>
    PROVE EvalTypeOK'
<1>1. gate'.mode = gate.mode /\ gate'.at = gate.at + 1 /\ gate'.since = g.since
      /\ gate'.seen = g.seen /\ DOMAIN gate' = Fields
    BY GoesOn
<1> QED BY <1>1 DEF EvalTypeOK, Fields
\* A gate that runs the benchmark and does not write yet has a next step.
LEMMA RunHasNext ==
    ASSUME EvalTypeOK, gate.mode \in {"run", "compare"}, Step[1] # "write"
    PROVE gate.at + 1 \in 1 .. Len(StepsOf(gate.mode))
<1>1. gate.at \in Nat /\ gate.at \in 1 .. 20 + Offset /\ Offset \in {0, 2} /\ Place # 20
  <2> DEFINE k == Step[1]
  <2>1. k # "write" OBVIOUS
  <2>2. (k = "write" <=> Place = 20) BY RunStep
  <2>3. gate.at \in Nat /\ gate.at \in 1 .. 20 + Offset /\ Offset \in {0, 2} BY RunStep
  <2> HIDE DEF k
  <2> QED BY <2>1, <2>2, <2>3
<1>2. Len(StepsOf(gate.mode)) = 20 + Offset
  <2>1. CASE gate.mode = "run"
    <3>1. StepsOf(gate.mode) = RunSteps /\ Offset = 0 BY <2>1 DEF StepsOf, Offset
    <3> QED BY <3>1, RunTable
  <2>2. CASE gate.mode = "compare"
    <3>1. StepsOf(gate.mode) = BaselineSteps \o RunSteps /\ Offset = 2 BY <2>2 DEF StepsOf, Offset
    <3> QED BY <3>1, CompareTable
  <2> QED BY <2>1, <2>2
<1> QED BY <1>1, <1>2 DEF Place, Offset

\* A run looks: at what it runs, at its approval, or at the baseline.
LEMMA RunLooks ==
    ASSUME EvalInv, Look, gate.mode \in {"run", "compare"}, gate' # Idle
    PROVE EvalInv'
<1>0. PICK x : x = Step[2] OBVIOUS
<1> DEFINE g == [gate EXCEPT !.seen[x] = Current(x), !.since = IF x = "approval" THEN today ELSE @]
<1>1. EvalTypeOK /\ RunOK /\ DocsOK /\ IssuedOK BY DEF EvalInv
<1>2. Step[1] = "read" /\ ~LookRefused(x) /\ Advance(g)
      /\ UNCHANGED <<file, doc, child, finished, issued, today, reviews>>
    BY <1>0 DEF Look, At, Refuse
<1>3. /\ gate.at \in Nat /\ Place \in (1 - Offset) .. 20 /\ Offset \in {0, 2}
      /\ \/ Place = 1 /\ x = "manifest"
         \/ Place = 2 /\ x = "approval"
         \/ Place = 7 /\ x = "revision"
         \/ gate.mode = "compare" /\ gate.at = 1 /\ x = "seal"
         \/ gate.mode = "compare" /\ gate.at = 2 /\ x = "baseline"
    BY <1>0, <1>1, <1>2, RunStep
<1>4. x \in Inputs \cup Documents BY <1>3 DEF Inputs, Documents
<1>5. g.mode = gate.mode /\ g.at = gate.at /\ DOMAIN g = Fields /\ g.since \in Nat
      /\ DOMAIN g.seen = Inputs \cup Documents
      /\ g.seen = [gate.seen EXCEPT ![x] = Current(x)]
      /\ g.since = IF x = "approval" THEN today ELSE gate.since
    BY <1>1, <1>4 DEF EvalTypeOK, Fields
<1> HIDE DEF g
<1>6. gate.mode # "none" /\ gate.at + 1 \in 1 .. Len(StepsOf(gate.mode))
    BY <1>1, <1>2, RunHasNext
<1>7. EvalTypeOK' BY <1>1, <1>2, <1>5, <1>6, GoesOnTyped
<1>8. DocsOK' /\ IssuedOK' BY <1>1, <1>2, DocsStay, IssuedStays
<1>9. gate'.mode = gate.mode /\ gate'.at = gate.at + 1
      /\ gate'.seen = [gate.seen EXCEPT ![x] = Current(x)]
      /\ gate'.since = (IF x = "approval" THEN today ELSE gate.since)
      /\ Offset' = Offset /\ Place' = Place + 1
    BY <1>1, <1>2, <1>5, GoesOn
<1>10. DOMAIN gate.seen = Inputs \cup Documents BY <1>1 DEF EvalTypeOK
<1>11. Seen(x)' = Current(x) /\ \A y \in (Inputs \cup Documents) \ {x} : Seen(y)' = Seen(y)
    BY <1>4, <1>9, <1>10 DEF Seen
<1>12. ReceiptOK' BY <1>9 DEF ReceiptOK
<1>13. gate.mode = "compare" /\ gate.at >= 2 => CandidateTrue(Seen("baseline"))'
  <2>1. CASE x = "baseline"
    <3>1. Seen("baseline")' = doc["baseline"] /\ doc["baseline"] # NoDocument
        BY <1>2, <1>11, <2>1 DEF Current, Inputs, Documents, LookRefused
    <3>2. CandidateTrue(doc["baseline"]) BY <1>1, <3>1 DEF DocsOK
    <3> QED BY <1>2, <3>1, <3>2 DEF CandidateTrue, RanAsApproved
  <2>2. CASE x # "baseline"
    <3>1. Seen("baseline")' = Seen("baseline") BY <1>11, <2>2 DEF Documents
    <3>2. gate.mode = "compare" /\ gate.at >= 2 => gate.at > 2 BY <1>3, <2>2 DEF Place, Offset
    <3>3. gate.mode = "compare" /\ gate.at >= 2 => CandidateTrue(Seen("baseline"))
        BY <1>1, <3>2 DEF RunOK
    <3> QED BY <1>2, <3>1, <3>3 DEF CandidateTrue, RanAsApproved
  <2> QED BY <2>1, <2>2
<1>14. CASE Place < 2
  <2>1. child' = NoChild BY <1>1, <1>2, <1>3, <1>14 DEF RunOK
  <2>2. Place' <= 2 BY <1>3, <1>9, <1>14
  <2>3. RunOK' BY <1>3, <1>9, <1>13, <2>1, <2>2 DEF RunOK, NoChild
  <2> QED BY <1>7, <1>8, <1>12, <2>3 DEF EvalInv
<1>15. CASE Place = 2
  <2>1. x = "approval" /\ Place' = 3 BY <1>3, <1>9, <1>15 DEF Place, Offset
  <2>2. Seen("approval")' = doc["approval"] /\ Seen("manifest")' = Seen("manifest")
      BY <1>11, <2>1 DEF Current, Inputs, Documents
  <2>3. doc["approval"].manifest = Seen("manifest") /\ doc["approval"].from <= today
        /\ today < doc["approval"].until
      BY <1>2, <2>1 DEF LookRefused, InForce
  <2>4. child' = NoChild BY <1>1, <1>2, <1>3, <1>15 DEF RunOK
  <2>5. gate'.since = today BY <1>9, <2>1
  <2>6. RunOK' BY <1>3, <1>9, <1>13, <2>1, <2>2, <2>3, <2>4, <2>5 DEF RunOK, NoChild
  <2> QED BY <1>7, <1>8, <1>12, <2>6 DEF EvalInv
<1>16. CASE Place > 2
  <2>1. x = "revision" /\ Place = 7 /\ Place' = 8 BY <1>3, <1>9, <1>16 DEF Place, Offset
  <2>2. Seen("approval")' = Seen("approval") /\ Seen("manifest")' = Seen("manifest")
        /\ Seen("revision")' = file["revision"]
      BY <1>11, <2>1 DEF Current, Inputs, Documents
  <2>3. file["revision"] \in 0 .. file["revision"] BY <1>1 DEF EvalTypeOK, Inputs
  <2>4. child' = NoChild BY <1>1, <1>2, <2>1 DEF RunOK
  <2>5. gate'.since = gate.since BY <1>9, <2>1
  <2>6. LET a == Seen("approval") IN
        a.manifest = Seen("manifest") /\ a.from <= gate.since /\ gate.since < a.until
      BY <1>1, <2>1 DEF RunOK
  <2>7. RunOK' BY <1>2, <1>3, <1>9, <1>13, <2>1, <2>2, <2>3, <2>4, <2>5, <2>6 DEF RunOK, NoChild
  <2> QED BY <1>7, <1>8, <1>12, <2>7 DEF EvalInv
<1> QED BY <1>3, <1>14, <1>15, <1>16
\* A run looks again, or compares what is in place with the approval: what it finds to be the
\* same after the runner has ended was the same while that loaded it.
LEMMA RunLooksAgain ==
    ASSUME EvalInv, LookAgain \/ MatchApproval, gate.mode \in {"run", "compare"}, gate' # Idle
    PROVE EvalInv'
<1>0. PICK x : x = Step[2] OBVIOUS
<1>1. EvalTypeOK /\ RunOK /\ DocsOK /\ IssuedOK BY DEF EvalInv
<1>2. /\ Advance(gate) /\ UNCHANGED <<file, doc, child, finished, issued, today, reviews>>
      /\ \/ Step[1] = "again" /\ Current(x) = Seen(x)
         \/ Step[1] = "match" /\ file[x] = Seen("approval")[x]
    BY <1>0 DEF LookAgain, MatchApproval, At, Refuse
<1>3. /\ gate.at \in Nat /\ Place \in (1 - Offset) .. 20 /\ Offset \in {0, 2}
      /\ Place \notin {13, 14, 20} /\ Place >= 3
      /\ Place \in {9, 17} => Step[1] = "match" /\ x = "runner"
      /\ Place \in {4, 8, 10, 18} => Step[1] = "match" /\ x = "environment"
      /\ Place = 19 => Step[1] = "again" /\ x = "revision"
    BY <1>0, <1>1, <1>2, RunStep
<1>4. gate.since \in Nat /\ DOMAIN gate = Fields /\ DOMAIN gate.seen = Inputs \cup Documents
    BY <1>1 DEF EvalTypeOK, Fields
<1>5. gate.mode # "none" /\ gate.at + 1 \in 1 .. Len(StepsOf(gate.mode))
    BY <1>1, <1>2, RunHasNext
<1>6. EvalTypeOK' BY <1>1, <1>2, <1>4, <1>5, GoesOnTyped
<1>7. DocsOK' /\ IssuedOK' BY <1>1, <1>2, DocsStay, IssuedStays
<1>8. gate'.mode = gate.mode /\ gate'.at = gate.at + 1 /\ gate'.seen = gate.seen
      /\ gate'.since = gate.since /\ Offset' = Offset /\ Place' = Place + 1
    BY <1>1, <1>2, <1>4, GoesOn
<1>9. ReceiptOK' BY <1>8 DEF ReceiptOK
<1>10. \A y : Seen(y)' = Seen(y) BY <1>8 DEF Seen
<1>11. gate.mode = "compare" => CandidateTrue(Seen("baseline"))'
  <2> SUFFICES ASSUME gate.mode = "compare" PROVE CandidateTrue(Seen("baseline"))' OBVIOUS
  <2>1. gate.at > 2 BY <1>3 DEF Place, Offset
  <2>2. CandidateTrue(Seen("baseline")) BY <1>1, <2>1 DEF RunOK
  <2>3. Seen("baseline")' = Seen("baseline") BY <1>10
  <2> QED BY <1>2, <2>2, <2>3 DEF CandidateTrue, RanAsApproved
<1> DEFINE a == Seen("approval")
<1>12. /\ \A y \in Inputs : file[y] \in Nat
       /\ "runner" \in Inputs /\ "environment" \in Inputs /\ "revision" \in Inputs
    BY <1>1 DEF EvalTypeOK, Inputs
<1>13. Place' > 9 => a.runner \in 0 .. file["runner"]
  <2>1. CASE Place = 9 
    <3>1. file["runner"] = a["runner"] /\ file["runner"] \in Nat BY <1>2, <1>3, <1>12, <2>1
    <3> QED BY <3>1
  <2>2. CASE Place # 9 BY <1>1, <1>3, <1>8, <2>2 DEF RunOK
  <2> QED BY <2>1, <2>2
<1>14. Place' > 10 => a.environment \in 0 .. file["environment"]
  <2>1. CASE Place = 10
    <3>1. file["environment"] = a["environment"] /\ file["environment"] \in Nat
        BY <1>2, <1>3, <1>12, <2>1
    <3> QED BY <3>1
  <2>2. CASE Place # 10 BY <1>1, <1>3, <1>8, <2>2 DEF RunOK
  <2> QED BY <2>1, <2>2
<1>15. ASSUME child.pc = "ended", Place' > 17 PROVE child.loaded = a.runner
  <2>1. Place >= 17 BY <1>3, <1>8, <1>15
  <2>2. CASE Place = 17
    <3>1. ChildOK /\ a.runner \in 0 .. file["runner"] BY <1>1, <2>2 DEF RunOK
    <3>2. child.loaded \in a.runner .. file["runner"] BY <1>15, <3>1 DEF ChildOK
    <3>3. file["runner"] = a["runner"] /\ file["runner"] \in Nat BY <1>2, <1>3, <1>12, <2>2
    <3> QED BY <3>1, <3>2, <3>3
  <2>3. CASE Place # 17 BY <1>1, <1>3, <1>15, <2>1, <2>3 DEF RunOK
  <2> QED BY <2>2, <2>3
<1>16. ASSUME child.pc = "ended", Place' > 18 PROVE child.within = a.environment
  <2>1. Place >= 18 BY <1>3, <1>8, <1>16
  <2>2. CASE Place = 18
    <3>1. ChildOK /\ a.environment \in 0 .. file["environment"] BY <1>1, <2>2 DEF RunOK
    <3>2. child.within \in a.environment .. file["environment"] BY <1>16, <3>1 DEF ChildOK
    <3>3. file["environment"] = a["environment"] /\ file["environment"] \in Nat
        BY <1>2, <1>3, <1>12, <2>2
    <3> QED BY <3>1, <3>2, <3>3
  <2>3. CASE Place # 18 BY <1>1, <1>3, <1>16, <2>1, <2>3 DEF RunOK
  <2> QED BY <2>2, <2>3
<1>17. ASSUME child.pc = "ended", Place' > 19 PROVE child.on = child.revision
  <2>1. Place >= 19 BY <1>3, <1>8, <1>17
  <2>2. Place = 19 BY <1>3, <2>1
  <2>3. ChildOK /\ Seen("revision") \in 0 .. file["revision"] BY <1>1, <2>2 DEF RunOK
  <2>4. child.on \in Seen("revision") .. file["revision"] /\ child.revision = Seen("revision")
      BY <1>17, <2>3 DEF ChildOK
  <2>5. Current(x) = Seen(x) /\ x = "revision" BY <1>2, <1>3, <2>2
  <2>6. file["revision"] = Seen("revision") /\ file["revision"] \in Nat
      BY <1>12, <2>5 DEF Current
  <2> QED BY <2>3, <2>4, <2>6
<1>18. /\ a.manifest = Seen("manifest") /\ a.from <= gate.since /\ gate.since < a.until
       /\ Place' > 7 => Seen("revision") \in 0 .. file["revision"]
       /\ Place' <= 13 => child = NoChild
       /\ Place' > 13 => ChildOK
       /\ Place' > 14 => child.pc \in {"ended", "failed"}
  <2>1. Place > 2 /\ (Place' > 7 => Place > 7 \/ Place = 7) BY <1>3, <1>8
  <2>2. Place # 7 BY <1>0, <1>1, <1>2, RunStep
  <2>3. (Place' > 7 => Place > 7) /\ (Place' <= 13 => Place <= 13)
        /\ (Place' > 13 => Place > 13) /\ (Place' > 14 => Place > 14)
      BY <1>3, <1>8, <2>2
  <2> QED BY <1>1, <2>1, <2>3 DEF RunOK
<1>19. ChildOK => ChildOK' BY <1>2, <1>8, <1>10 DEF ChildOK
<1>20. RunOK' BY <1>2, <1>3, <1>8, <1>10, <1>11, <1>13, <1>14, <1>15, <1>16, <1>17, <1>18, <1>19 DEF RunOK
<1> QED BY <1>6, <1>7, <1>9, <1>20 DEF EvalInv
\* Only a gate that runs the benchmark launches a runner or writes a candidate.
LEMMA OnlyRunsLaunch ==
    ASSUME EvalTypeOK, gate.mode # "none",
           Step[1] \in {"launch", "await"} \/ (Step[1] = "write" /\ Step[2] = "candidate")
    PROVE gate.mode \in {"run", "compare"}
<1>1. CASE gate.mode \in {"preflight", "check"} BY <1>1, ApprovalStep
<1>2. CASE gate.mode = "receipt"
  <2>1. gate.at \in 1 .. 14
        /\ Step = << <<"read", "receipt">>, <<"read", "manifest">>, <<"read", "pack">>,
                     <<"read", "evidence">>, <<"read", "candidate">>, <<"read", "runner">>,
                     <<"bind", "receipt">>, <<"again", "runner">>, <<"again", "manifest">>,
                     <<"again", "pack">>, <<"again", "candidate">>, <<"again", "receipt">>,
                     <<"again", "evidence">>, <<"write", "receipt-check">> >>[gate.at]
      BY <1>2, ReceiptStep
  <2> QED BY <2>1
<1> QED BY <1>1, <1>2 DEF EvalTypeOK

\* A launch gives the runner what the gate has read and the approval names.
LEMMA LaunchKeeps ==
    ASSUME EvalInv, Launch
    PROVE EvalInv'
<1>1. EvalTypeOK /\ RunOK /\ DocsOK /\ IssuedOK BY DEF EvalInv
<1>2. Step[1] = "launch" /\ gate.mode # "none" /\ Advance(gate)
      /\ UNCHANGED <<file, doc, finished, issued, today, reviews>>
      /\ child' = [pc |-> "launched", manifest |-> Seen("manifest"),
                   runner |-> Seen("approval").runner,
                   environment |-> Seen("approval").environment, revision |-> Seen("revision"),
                   loaded |-> 0, within |-> 0, on |-> 0, opened |-> 0, report |-> "none"]
    BY DEF Launch, At
<1>3. gate.mode \in {"run", "compare"} BY <1>1, <1>2, OnlyRunsLaunch
<1>4. gate.at \in Nat /\ Place = 13 /\ Offset \in {0, 2}
  <2> DEFINE k == Step[1]
  <2>1. (k = "launch" <=> Place = 13) /\ gate.at \in Nat /\ Offset \in {0, 2} BY <1>1, <1>3, RunStep
  <2>2. k = "launch" BY <1>2
  <2> HIDE DEF k
  <2> QED BY <2>1, <2>2
<1>5. gate.since \in Nat /\ DOMAIN gate = Fields /\ DOMAIN gate.seen = Inputs \cup Documents
    BY <1>1 DEF EvalTypeOK, Fields
<1>6. gate'.mode = gate.mode /\ gate'.at = gate.at + 1 /\ gate'.seen = gate.seen
      /\ gate'.since = gate.since /\ DOMAIN gate' = Fields /\ Offset' = Offset
      /\ Place' = Place + 1
    BY <1>1, <1>2, <1>5, GoesOn
<1>7. gate.at + 1 \in 1 .. Len(StepsOf(gate.mode)) BY <1>1, <1>2, <1>3, RunHasNext
<1>8. child'.pc = "launched" BY <1>2
<1>9. EvalTypeOK' BY <1>1, <1>2, <1>3, <1>5, <1>6, <1>7, <1>8 DEF EvalTypeOK, Fields
<1>10. DocsOK' /\ IssuedOK' BY <1>1, <1>2, DocsStay, IssuedStays
<1>11. ReceiptOK' BY <1>3, <1>6 DEF ReceiptOK
<1>12. \A y : Seen(y)' = Seen(y) BY <1>6 DEF Seen
<1>13. ChildOK' BY <1>2, <1>6, <1>12 DEF ChildOK, Started
<1>14. gate.mode = "compare" => CandidateTrue(Seen("baseline"))'
  <2> SUFFICES ASSUME gate.mode = "compare" PROVE CandidateTrue(Seen("baseline"))' OBVIOUS
  <2>1. gate.at > 2 BY <1>4 DEF Place, Offset
  <2>2. CandidateTrue(Seen("baseline")) BY <1>1, <2>1 DEF RunOK
  <2>3. Seen("baseline")' = Seen("baseline") BY <1>12
  <2> QED BY <1>2, <2>2, <2>3 DEF CandidateTrue, RanAsApproved
<1>15. Place' = 14 BY <1>4, <1>6
<1>16. RunOK'
    BY <1>1, <1>2, <1>3, <1>4, <1>6, <1>8, <1>12, <1>13, <1>14, <1>15 DEF RunOK
<1> QED BY <1>9, <1>10, <1>11, <1>16 DEF EvalInv

\* The runner comes back, or is killed.
LEMMA AwaitKeeps ==
    ASSUME EvalInv, Await
    PROVE EvalInv'
<1>1. EvalTypeOK /\ RunOK /\ DocsOK /\ IssuedOK BY DEF EvalInv
<1>2. Step[1] = "await" /\ gate.mode # "none" /\ Advance(gate)
      /\ UNCHANGED <<file, doc, finished, issued, today, reviews>>
      /\ child' = IF child.pc = "ended" THEN child ELSE [child EXCEPT !.pc = "failed"]
    BY DEF Await, At
<1>3. gate.mode \in {"run", "compare"} BY <1>1, <1>2, OnlyRunsLaunch
<1>4. gate.at \in Nat /\ Place = 14 /\ Offset \in {0, 2}
  <2> DEFINE k == Step[1]
  <2>1. (k = "await" <=> Place = 14) /\ gate.at \in Nat /\ Offset \in {0, 2} BY <1>1, <1>3, RunStep
  <2>2. k = "await" BY <1>2
  <2> HIDE DEF k
  <2> QED BY <2>1, <2>2
<1>5. gate.since \in Nat /\ DOMAIN gate = Fields /\ DOMAIN gate.seen = Inputs \cup Documents
    BY <1>1 DEF EvalTypeOK, Fields
<1>6. gate'.mode = gate.mode /\ gate'.at = gate.at + 1 /\ gate'.seen = gate.seen
      /\ gate'.since = gate.since /\ DOMAIN gate' = Fields /\ Offset' = Offset
      /\ Place' = Place + 1
    BY <1>1, <1>2, <1>5, GoesOn
<1>7. gate.at + 1 \in 1 .. Len(StepsOf(gate.mode)) BY <1>1, <1>2, <1>3, RunHasNext
<1>8. ChildOK BY <1>1, <1>3, <1>4 DEF RunOK
<1>9. child'.pc \in {"ended", "failed"} /\ (child'.pc = "ended" => child' = child)
      /\ (child'.pc # "ended" => child' = [child EXCEPT !.pc = "failed"])
    BY <1>2, <1>8 DEF ChildOK
<1>10. EvalTypeOK' BY <1>1, <1>2, <1>3, <1>5, <1>6, <1>7, <1>9 DEF EvalTypeOK, Fields
<1>11. DocsOK' /\ IssuedOK' BY <1>1, <1>2, DocsStay, IssuedStays
<1>12. ReceiptOK' BY <1>3, <1>6 DEF ReceiptOK
<1>13. \A y : Seen(y)' = Seen(y) BY <1>6 DEF Seen
<1>14. ChildOK'
  <2>1. CASE child.pc = "ended"
    <3>1. child' = child BY <1>2, <2>1
    <3> QED BY <1>2, <1>6, <1>8, <1>13, <3>1 DEF ChildOK
  <2>2. CASE child.pc # "ended"
    <3>1. child'.pc = "failed" /\ child'.manifest = child.manifest /\ child'.runner = child.runner
          /\ child'.environment = child.environment /\ child'.revision = child.revision
          /\ child'.report = child.report /\ DOMAIN child' = DOMAIN child
        BY <1>2, <1>8, <2>2 DEF ChildOK
    <3> QED BY <1>2, <1>6, <1>8, <1>13, <2>2, <3>1 DEF ChildOK
  <2> QED BY <2>1, <2>2
<1>15. gate.mode = "compare" => CandidateTrue(Seen("baseline"))'
  <2> SUFFICES ASSUME gate.mode = "compare" PROVE CandidateTrue(Seen("baseline"))' OBVIOUS
  <2>1. gate.at > 2 BY <1>4 DEF Place, Offset
  <2>2. CandidateTrue(Seen("baseline")) BY <1>1, <2>1 DEF RunOK
  <2>3. Seen("baseline")' = Seen("baseline") BY <1>13
  <2> QED BY <1>2, <2>2, <2>3 DEF CandidateTrue, RanAsApproved
<1>16. Place' = 15 BY <1>4, <1>6
<1>17. RunOK'
    BY <1>1, <1>2, <1>3, <1>4, <1>6, <1>9, <1>13, <1>14, <1>15, <1>16 DEF RunOK
<1> QED BY <1>10, <1>11, <1>12, <1>17 DEF EvalInv

\* The candidate is written when the runner ended, and stands for that run.
LEMMA WriteCandidateKeeps ==
    ASSUME EvalInv, WriteCandidate
    PROVE EvalInv'
<1>1. EvalTypeOK /\ RunOK /\ DocsOK /\ IssuedOK BY DEF EvalInv
<1>2. Step[1] = "write" /\ Step[2] = "candidate" /\ gate.mode # "none" /\ child' = NoChild
      /\ gate' = Idle /\ UNCHANGED <<file, finished, issued, today, reviews>>
    BY DEF WriteCandidate, At, Written
<1>3. gate.mode \in {"run", "compare"} BY <1>1, <1>2, OnlyRunsLaunch
<1>4. gate.at \in Nat /\ Place = 20 /\ Offset \in {0, 2}
  <2> DEFINE k == Step[1]
  <2>1. (k = "write" <=> Place = 20) /\ gate.at \in Nat /\ Offset \in {0, 2} BY <1>1, <1>3, RunStep
  <2>2. k = "write" BY <1>2
  <2> HIDE DEF k
  <2> QED BY <2>1, <2>2
<1>5. gate'.mode = "none" /\ gate'.at = 1 /\ gate'.since = 0 /\ DOMAIN gate' = Fields
      /\ DOMAIN gate'.seen = Inputs \cup Documents
    BY <1>2 DEF Idle, Fields
<1>6. RunOK' /\ ReceiptOK' BY <1>5 DEF RunOK, ReceiptOK
<1>7. IssuedOK' BY <1>1, <1>2, IssuedStays
<1>8. doc' = [x \in Documents |-> doc'[x]] => EvalTypeOK'
    BY <1>1, <1>2, <1>5 DEF EvalTypeOK, Fields, NoChild
<1>9. CASE child.report \notin {"PASS", "FAIL"}
  <2>1. doc' = doc BY <1>9 DEF WriteCandidate
  <2> QED BY <1>1, <1>2, <1>6, <1>7, <1>8, <2>1, DocsStay DEF EvalInv, EvalTypeOK
<1>10. CASE child.report \in {"PASS", "FAIL"}
  <2> DEFINE a == Seen("approval")
             n == Len(finished)
             b == Seen("baseline")
  <2>1. PICK new :
          /\ doc' = [doc EXCEPT !["candidate"] = new]
          /\ new.session = n /\ new.manifest = Seen("manifest") /\ new.approval = a
          /\ new.environment = a.environment /\ new.revision = file["revision"]
          /\ new.eligible => /\ gate.mode = "compare" /\ b.manifest = Seen("manifest")
                             /\ b.environment = a.environment /\ new.against = b.session
    <3>1. PICK better \in BOOLEAN :
            LET findings == gate.mode = "compare" /\ ~(Comparable /\ better)
                result == IF findings THEN "FAIL" ELSE child.report
            IN doc' = [doc EXCEPT !["candidate"] =
                 [session |-> Len(finished), manifest |-> Seen("manifest"),
                  approval |-> Seen("approval"),
                  environment |-> Seen("approval").environment, revision |-> file["revision"],
                  observed |-> today, result |-> result,
                  eligible |-> gate.mode = "compare" /\ result = "PASS",
                  against |-> IF gate.mode = "compare" THEN Seen("baseline").session ELSE 0]]
        BY <1>10 DEF WriteCandidate, Written
    <3> DEFINE result == IF gate.mode = "compare" /\ ~(Comparable /\ better) THEN "FAIL"
                         ELSE child.report
               new == [session |-> Len(finished), manifest |-> Seen("manifest"),
                       approval |-> Seen("approval"),
                       environment |-> Seen("approval").environment, revision |-> file["revision"],
                       observed |-> today, result |-> result,
                       eligible |-> gate.mode = "compare" /\ result = "PASS",
                       against |-> IF gate.mode = "compare" THEN Seen("baseline").session ELSE 0]
    <3>2. doc' = [doc EXCEPT !["candidate"] = new] BY <3>1
    <3>3. new.session = n /\ new.manifest = Seen("manifest") /\ new.approval = a
          /\ new.environment = a.environment /\ new.revision = file["revision"]
        OBVIOUS
    <3>4. new.eligible <=> gate.mode = "compare" /\ result = "PASS" OBVIOUS
    <3>5. gate.mode = "compare" /\ result = "PASS" => Comparable /\ new.against = b.session OBVIOUS
    <3> HIDE DEF new, result
    <3>6. new.eligible => /\ gate.mode = "compare" /\ b.manifest = Seen("manifest")
                          /\ b.environment = a.environment /\ new.against = b.session
        BY <3>4, <3>5 DEF Comparable
    <3> QED BY <3>2, <3>3, <3>6
  <2>2. ChildOK /\ child.pc = "ended" /\ child.loaded = a.runner /\ child.within = a.environment
        /\ child.on = child.revision /\ a.manifest = Seen("manifest")
        /\ a.from <= gate.since /\ gate.since < a.until
      BY <1>1, <1>3, <1>4, <1>10 DEF RunOK, ChildOK
  <2>3. doc' = [x \in Documents |-> doc'[x]] /\ doc'["candidate"] = new
        /\ \A x \in Documents \ {"candidate"} : doc'[x] = doc[x]
      BY <1>1, <2>1 DEF EvalTypeOK, Documents
  <2>4. n \in Nat /\ n \in 1 .. n /\ finished[n].runner = a.runner
        /\ finished[n].environment = a.environment /\ finished[n].pack = a.manifest
        /\ finished[n].since = gate.since /\ finished[n].revision = child.revision
    <3>1. n \in Nat BY <1>1 DEF EvalTypeOK
    <3>2. n > 0 /\ finished[n].runner = child.loaded /\ finished[n].environment = child.within
          /\ finished[n].revision = child.on /\ finished[n].pack = child.opened
          /\ finished[n].since = gate.since /\ child.opened = child.manifest
          /\ child.manifest = Seen("manifest")
        BY <2>2 DEF ChildOK
    <3> QED BY <2>2, <3>1, <3>2
  <2>5. CandidateTrue(new)
    <3>1. new.session \in 1 .. Len(finished) BY <2>1, <2>4
    <3>2. RanAsApproved(new) BY <2>1, <2>2, <2>4 DEF RanAsApproved
    <3> QED BY <2>1, <3>1, <3>2 DEF CandidateTrue
  <2>6. Compared(new)
    <3> SUFFICES ASSUME new.eligible
                 PROVE /\ new.against \in 1 .. Len(finished)
                       /\ finished[new.against].pack = finished[new.session].pack
                       /\ finished[new.against].environment = finished[new.session].environment
        BY DEF Compared
    <3>1. gate.mode = "compare" /\ b.manifest = Seen("manifest")
          /\ b.environment = a.environment /\ new.against = b.session
        BY <2>1
    <3>2. gate.at > 2 BY <1>4, <3>1 DEF Place, Offset
    <3>3. CandidateTrue(b) BY <1>1, <3>1, <3>2 DEF RunOK
    <3> HIDE DEF a, b, n
    <3>4. b.session \in 1 .. Len(finished) /\ finished[b.session].pack = b.manifest
          /\ finished[b.session].environment = b.environment
        BY <3>3 DEF CandidateTrue, RanAsApproved
    <3>5. finished[n].pack = Seen("manifest") /\ finished[n].environment = a.environment
          /\ new.session = n
        BY <2>1, <2>2, <2>4
    <3> QED BY <3>1, <3>4, <3>5
  <2>7. EvidenceOK'
    <3>1. doc["evidence"].runner = child.runner /\ doc["evidence"].revision = child.revision
          /\ child.runner = a.runner
        BY <2>2 DEF ChildOK
    <3>2. doc'["evidence"] = doc["evidence"] BY <2>3 DEF Documents
    <3>3. EvidenceOK BY <1>1 DEF DocsOK
    <3> QED BY <1>2, <2>3, <2>4, <3>1, <3>2, <3>3 DEF EvidenceOK
  <2>8. CandidateTrue(new)' /\ Compared(new)'
      BY <1>2, <2>5, <2>6 DEF CandidateTrue, RanAsApproved, Compared
  <2>9. doc["baseline"] # NoDocument => CandidateTrue(doc["baseline"])'
      BY <1>1, <1>2, <2>3 DEF DocsOK, CandidateTrue, RanAsApproved, Documents
  <2>10. doc'["receipt"] = doc["receipt"] /\ doc'["baseline"] = doc["baseline"]
      BY <2>3 DEF Documents
  <2>11. DocsOK' BY <1>1, <1>2, <2>3, <2>7, <2>8, <2>9, <2>10
           DEF DocsOK, CandidateTrue, RanAsApproved, Compared
  <2> QED BY <1>6, <1>7, <1>8, <2>3, <2>11 DEF EvalInv
<1> QED BY <1>9, <1>10
-----------------------------------------------------------------------------
(***************************************************************************)
(* The check of a receipt                                                  *)
(***************************************************************************)

\* What a check of a receipt leaves of it: only its own conditions are left to show.
LEMMA ReceiptGoesOn ==
    ASSUME EvalInv, gate.mode = "receipt", gate.at <= 13, NEW g, DOMAIN g = Fields,
           g.mode = gate.mode, g.at = gate.at, g.since = gate.since,
           DOMAIN g.seen = Inputs \cup Documents, Advance(g),
           UNCHANGED <<file, doc, child, finished, issued, today, reviews>>, ReceiptOK'
    PROVE EvalInv'
<1>1. EvalTypeOK /\ DocsOK /\ IssuedOK /\ gate.since \in Nat BY DEF EvalInv, EvalTypeOK
<1>2. gate.at + 1 \in 1 .. Len(StepsOf(gate.mode))
  <2>1. StepsOf(gate.mode) = ReceiptSteps BY DEF StepsOf
  <2>2. Len(ReceiptSteps) = 14 BY DEF ReceiptSteps
  <2>3. gate.at \in 1 .. 14 BY <1>1, ReceiptStep
  <2>4. gate.at + 1 \in 1 .. 14 BY <2>3
  <2>5. Len(StepsOf(gate.mode)) = 14 BY <2>1, <2>2
  <2> QED BY <2>4, <2>5
<1>3. EvalTypeOK' BY <1>1, <1>2, GoesOnTyped
<1>4. gate'.mode = "receipt" BY <1>1, GoesOn
<1>5. RunOK' BY <1>4 DEF RunOK
<1> QED BY <1>1, <1>3, <1>5, DocsStay, IssuedStays DEF EvalInv

\* A check of a receipt reads what that names.
LEMMA ReceiptLooks ==
    ASSUME EvalInv, Look, gate.mode = "receipt", gate' # Idle
    PROVE EvalInv'
<1>0. PICK x : x = Step[2] OBVIOUS
<1> DEFINE g == [gate EXCEPT !.seen[x] = Current(x), !.since = IF x = "approval" THEN today ELSE @]
<1>1. EvalTypeOK /\ ReceiptOK /\ DocsOK /\ IssuedOK BY DEF EvalInv
<1>2. Step[1] = "read" /\ ~LookRefused(x) /\ Advance(g)
      /\ UNCHANGED <<file, doc, child, finished, issued, today, reviews>>
    BY <1>0 DEF Look, At, Refuse
<1>3. /\ gate.at \in 1 .. 6
      /\ x = << "receipt", "manifest", "pack", "evidence", "candidate", "runner" >>[gate.at]
    BY <1>0, <1>1, <1>2, ReceiptStep
<1>4. x \in Inputs \cup Documents /\ x # "approval" BY <1>3 DEF Inputs, Documents
<1>5. g.mode = gate.mode /\ g.at = gate.at /\ DOMAIN g = Fields
      /\ DOMAIN g.seen = Inputs \cup Documents
      /\ g.seen = [gate.seen EXCEPT ![x] = Current(x)]
      /\ g.since = gate.since
    BY <1>1, <1>4 DEF EvalTypeOK, Fields
<1> HIDE DEF g
<1>6. gate'.mode = "receipt" /\ gate'.at = gate.at + 1
      /\ gate'.seen = [gate.seen EXCEPT ![x] = Current(x)]
    BY <1>1, <1>2, <1>5, GoesOn
<1>7. DOMAIN gate.seen = Inputs \cup Documents BY <1>1 DEF EvalTypeOK
<1>8. Seen(x)' = Current(x) /\ \A y \in (Inputs \cup Documents) \ {x} : Seen(y)' = Seen(y)
    BY <1>4, <1>6, <1>7 DEF Seen
<1>9. \A y \in Inputs : file[y] \in Nat /\ file[y] \in 0 .. file[y] BY <1>1 DEF EvalTypeOK
<1>10. /\ x \in Inputs => Seen(x)' = file[x]
       /\ x \in Documents => Seen(x)' = doc[x] /\ doc[x] # NoDocument
    BY <1>2, <1>8 DEF Current, LookRefused, Inputs, Documents
<1>11. ReceiptOK'
  <2>1. gate'.at \in 2 .. 7 BY <1>3, <1>6
  <2>2. Seen("receipt")' # NoDocument /\ doc'["receipt"] # NoDocument
        /\ Seen("receipt")'.id \in Nat
        /\ (doc'["receipt"] = Seen("receipt")' \/ doc'["receipt"].id > Seen("receipt")'.id)
    <3>1. CASE gate.at = 1
      <4>1. x = "receipt" BY <1>3, <3>1
      <4>2. Seen("receipt")' = doc["receipt"] /\ doc["receipt"] # NoDocument
          BY <1>10, <4>1 DEF Documents
      <4> QED BY <1>1, <1>2, <4>2 DEF DocsOK
    <3>2. CASE gate.at > 1
      <4>1. x # "receipt" BY <1>3, <3>2
      <4>2. Seen("receipt")' = Seen("receipt") BY <1>8, <4>1 DEF Documents
      <4>3. LET r == Seen("receipt") IN
            /\ r # NoDocument /\ doc["receipt"] # NoDocument /\ r.id \in Nat
            /\ (doc["receipt"] = r \/ doc["receipt"].id > r.id)
          BY <1>1, <3>2 DEF ReceiptOK
      <4> QED BY <1>2, <4>2, <4>3
    <3> QED BY <1>3, <3>1, <3>2
  <2>3. /\ gate'.at > 2 => Seen("manifest")' \in 0 .. file["manifest"]
        /\ gate'.at > 3 => Seen("pack")' \in 0 .. file["pack"]
        /\ gate'.at > 6 => Seen("runner")' \in 0 .. file["runner"]
    <3>1. gate'.at > 2 => Seen("manifest")' \in 0 .. file["manifest"]
      <4>1. CASE gate.at = 2 BY <1>3, <1>9, <1>10, <4>1 DEF Inputs
      <4>2. CASE gate.at > 2
        <5>1. Seen("manifest")' = Seen("manifest") BY <1>3, <1>8, <4>2 DEF Inputs
        <5> QED BY <1>1, <4>2, <5>1 DEF ReceiptOK
      <4> QED BY <1>3, <1>6, <4>1, <4>2
    <3>2. gate'.at > 3 => Seen("pack")' \in 0 .. file["pack"]
      <4>1. CASE gate.at = 3 BY <1>3, <1>9, <1>10, <4>1 DEF Inputs
      <4>2. CASE gate.at > 3
        <5>1. Seen("pack")' = Seen("pack") BY <1>3, <1>8, <4>2 DEF Inputs
        <5> QED BY <1>1, <4>2, <5>1 DEF ReceiptOK
      <4> QED BY <1>3, <1>6, <4>1, <4>2
    <3>3. gate'.at > 6 => Seen("runner")' \in 0 .. file["runner"]
        BY <1>3, <1>6, <1>9, <1>10 DEF Inputs
    <3> QED BY <3>1, <3>2, <3>3
  <2>4. /\ gate'.at > 4 => Seen("evidence")' = doc["evidence"] /\ doc["evidence"] # NoDocument
        /\ gate'.at > 5 => Seen("candidate")' = doc["candidate"] /\ doc["candidate"] # NoDocument
    <3>1. gate'.at > 4 => Seen("evidence")' = doc["evidence"] /\ doc["evidence"] # NoDocument
      <4>1. CASE gate.at = 4 BY <1>3, <1>10, <4>1 DEF Documents
      <4>2. CASE gate.at > 4
        <5>1. Seen("evidence")' = Seen("evidence") BY <1>3, <1>8, <4>2 DEF Documents
        <5> QED BY <1>1, <4>2, <5>1 DEF ReceiptOK
      <4> QED BY <1>3, <1>6, <4>1, <4>2
    <3>2. gate'.at > 5 => Seen("candidate")' = doc["candidate"] /\ doc["candidate"] # NoDocument
      <4>1. CASE gate.at = 5 BY <1>3, <1>10, <4>1 DEF Documents
      <4>2. CASE gate.at > 5
        <5>1. Seen("candidate")' = Seen("candidate") BY <1>3, <1>8, <4>2 DEF Documents
        <5> QED BY <1>1, <4>2, <5>1 DEF ReceiptOK
      <4> QED BY <1>3, <1>6, <4>1, <4>2
    <3> QED BY <3>1, <3>2
  <2>5. /\ ~(gate'.at > 7) /\ ~(gate'.at > 8) /\ ~(gate'.at > 9) /\ ~(gate'.at > 10)
        /\ ~(gate'.at > 12)
      BY <2>1
  <2>6. file' = file /\ doc' = doc BY <1>2
  <2> QED BY <1>6, <2>2, <2>3, <2>4, <2>5, <2>6 DEF ReceiptOK
<1> QED BY <1>1, <1>2, <1>3, <1>5, <1>11, ReceiptGoesOn

\* A check of a receipt binds it to what was read: from here one moment is fixed.
LEMMA BindReceiptKeeps ==
    ASSUME EvalInv, BindReceipt, gate.mode = "receipt", gate' # Idle
    PROVE EvalInv'
<1> DEFINE g == [gate EXCEPT !.moment = [file |-> file, doc |-> doc]]
<1>1. EvalTypeOK /\ ReceiptOK /\ DocsOK /\ IssuedOK BY DEF EvalInv
<1>2. Step[1] = "bind" /\ ReceiptBound /\ Advance(g)
      /\ UNCHANGED <<file, doc, child, finished, issued, today, reviews>>
    BY DEF BindReceipt, At, Refuse
<1>3. gate.at = 7 BY <1>1, <1>2, ReceiptStep
<1>4. g.mode = gate.mode /\ g.at = gate.at /\ DOMAIN g = Fields /\ g.seen = gate.seen
      /\ DOMAIN g.seen = Inputs \cup Documents /\ g.since = gate.since
      /\ g.moment = [file |-> file, doc |-> doc]
    BY <1>1 DEF EvalTypeOK, Fields
<1> HIDE DEF g
<1>5. gate'.mode = "receipt" /\ gate'.at = 8 /\ gate'.seen = gate.seen
      /\ gate'.moment.file = file /\ gate'.moment.doc = doc
    BY <1>1, <1>2, <1>3, <1>4, GoesOn
<1>6. \A y : Seen(y)' = Seen(y) BY <1>5 DEF Seen
<1>7. \A y \in Inputs : file[y] \in Nat BY <1>1 DEF EvalTypeOK
<1>8. LET r == Seen("receipt") IN
      /\ r # NoDocument /\ doc["receipt"] # NoDocument /\ r.id \in Nat
      /\ (doc["receipt"] = r \/ doc["receipt"].id > r.id)
      /\ Seen("manifest") \in 0 .. file["manifest"] /\ Seen("pack") \in 0 .. file["pack"]
      /\ Seen("evidence") = doc["evidence"] /\ doc["evidence"] # NoDocument
      /\ Seen("candidate") = doc["candidate"] /\ doc["candidate"] # NoDocument
      /\ Seen("runner") \in 0 .. file["runner"]
    BY <1>1, <1>3 DEF ReceiptOK
<1>9. ReceiptBound' BY <1>2, <1>6 DEF ReceiptBound
<1>10. \A y \in {"manifest", "pack", "runner"} : file[y] \in Seen(y) .. file[y]
    BY <1>7, <1>8 DEF Inputs
<1>11. doc["receipt"].id \in 0 .. reviews BY <1>1, <1>8 DEF DocsOK, EvalTypeOK
<1>12. ReceiptOK' BY <1>2, <1>5, <1>6, <1>8, <1>9, <1>10, <1>11 DEF ReceiptOK
<1> QED BY <1>1, <1>2, <1>3, <1>4, <1>12, ReceiptGoesOn

\* It looks again: what is the same now was the same when the receipt was bound.
LEMMA ReceiptLooksAgain ==
    ASSUME EvalInv, LookAgain, gate.mode = "receipt", gate' # Idle
    PROVE EvalInv'
<1>0. PICK x : x = Step[2] OBVIOUS
<1>1. EvalTypeOK /\ ReceiptOK /\ DocsOK /\ IssuedOK BY DEF EvalInv
<1>2. Step[1] = "again" /\ Current(x) = Seen(x) /\ Advance(gate)
      /\ UNCHANGED <<file, doc, child, finished, issued, today, reviews>>
    BY <1>0 DEF LookAgain, At, Refuse
<1>3. /\ gate.at \in 8 .. 13
      /\ gate.at = 8 => x = "runner"
      /\ gate.at = 9 => x = "manifest"
      /\ gate.at = 10 => x = "pack"
      /\ gate.at = 12 => x = "receipt"
    BY <1>0, <1>1, <1>2, ReceiptStep
<1>4. DOMAIN gate = Fields /\ DOMAIN gate.seen = Inputs \cup Documents
    BY <1>1 DEF EvalTypeOK, Fields
<1>5. gate'.mode = "receipt" /\ gate'.at = gate.at + 1 /\ gate'.seen = gate.seen
      /\ gate'.moment = gate.moment
    BY <1>1, <1>2, <1>4, GoesOn
<1>6. \A y : Seen(y)' = Seen(y) BY <1>5 DEF Seen
<1>7. \A y \in Inputs : file[y] \in Nat BY <1>1 DEF EvalTypeOK
<1> DEFINE m == gate.moment
           r == Seen("receipt")
<1>8. /\ Seen("manifest") \in 0 .. file["manifest"] /\ Seen("pack") \in 0 .. file["pack"]
      /\ Seen("runner") \in 0 .. file["runner"]
      /\ m.file["manifest"] \in Seen("manifest") .. file["manifest"]
      /\ m.file["pack"] \in Seen("pack") .. file["pack"]
      /\ m.file["runner"] \in Seen("runner") .. file["runner"]
      /\ m.doc["receipt"] = r \/ m.doc["receipt"].id > r.id
      /\ m.doc["receipt"].id \in 0 .. reviews /\ r.id \in Nat
      /\ doc["receipt"] = m.doc["receipt"] \/ doc["receipt"].id > m.doc["receipt"].id
    BY <1>1, <1>3 DEF ReceiptOK
<1>9. gate'.at > 8 => Seen("runner") = m.file["runner"]
  <2>1. CASE gate.at = 8
    <3>1. file["runner"] = Seen("runner") BY <1>2, <1>3, <2>1 DEF Current, Inputs
    <3>2. file["runner"] \in Nat BY <1>7 DEF Inputs
    <3> QED BY <1>8, <3>1, <3>2
  <2>2. CASE gate.at > 8 BY <1>1, <2>2 DEF ReceiptOK
  <2> QED BY <1>3, <2>1, <2>2
<1>10. gate'.at > 9 => Seen("manifest") = m.file["manifest"]
  <2>1. CASE gate.at = 9
    <3>1. file["manifest"] = Seen("manifest") BY <1>2, <1>3, <2>1 DEF Current, Inputs
    <3>2. file["manifest"] \in Nat BY <1>7 DEF Inputs
    <3> QED BY <1>8, <3>1, <3>2
  <2>2. CASE gate.at > 9 BY <1>1, <2>2 DEF ReceiptOK
  <2> QED BY <1>3, <1>5, <2>1, <2>2
<1>11. gate'.at > 10 => Seen("pack") = m.file["pack"]
  <2>1. CASE gate.at = 10
    <3>1. file["pack"] = Seen("pack") BY <1>2, <1>3, <2>1 DEF Current, Inputs
    <3>2. file["pack"] \in Nat BY <1>7 DEF Inputs
    <3> QED BY <1>8, <3>1, <3>2
  <2>2. CASE gate.at > 10 BY <1>1, <2>2 DEF ReceiptOK
  <2> QED BY <1>3, <1>5, <2>1, <2>2
<1>12. gate'.at > 12 => r = m.doc["receipt"]
  <2>1. CASE gate.at = 12
    <3>1. doc["receipt"] = r BY <1>2, <1>3, <2>1 DEF Current, Inputs
    <3>2. m.doc["receipt"].id \in Nat BY <1>8
    <3> QED BY <1>8, <3>1, <3>2
  <2>2. CASE gate.at > 12 BY <1>1, <2>2 DEF ReceiptOK
  <2> QED BY <1>3, <1>5, <2>1, <2>2
<1>13. ReceiptBound' <=> ReceiptBound BY <1>6 DEF ReceiptBound
<1>14. ReceiptOK'
    BY <1>1, <1>2, <1>3, <1>5, <1>6, <1>9, <1>10, <1>11, <1>12, <1>13 DEF ReceiptOK
<1> QED BY <1>1, <1>2, <1>3, <1>4, <1>14, ReceiptGoesOn

\* A receipt that is issued binds one moment and one run.
LEMMA WriteReceiptCheckKeeps ==
    ASSUME EvalInv, WriteReceiptCheck, gate.mode = "receipt"
    PROVE EvalInv'
<1>1. EvalTypeOK /\ ReceiptOK /\ DocsOK /\ IssuedOK BY DEF EvalInv
<1>2. Step[1] = "write" /\ gate' = Idle
      /\ issued' = issued \cup {[seen |-> gate.seen, moment |-> gate.moment]}
      /\ UNCHANGED <<file, doc, child, finished, today, reviews>>
    BY DEF WriteReceiptCheck, At
<1>3. gate.at = 14 BY <1>1, <1>2, ReceiptStep
<1>4. gate'.mode = "none" /\ gate'.at = 1 /\ gate'.since = 0 /\ DOMAIN gate' = Fields
      /\ DOMAIN gate'.seen = Inputs \cup Documents
    BY <1>2 DEF Idle, Fields
<1>5. EvalTypeOK' BY <1>1, <1>2, <1>4 DEF EvalTypeOK, Fields, NoChild
<1>6. RunOK' /\ ReceiptOK' BY <1>4 DEF RunOK, ReceiptOK
<1> DEFINE i == [seen |-> gate.seen, moment |-> gate.moment]
           m == gate.moment
           r == Seen("receipt")
           c == doc["candidate"]
           e == doc["evidence"]
<1>7. /\ ReceiptBound /\ Seen("evidence") = e /\ e # NoDocument
      /\ Seen("candidate") = c /\ c # NoDocument
      /\ m.doc["evidence"] = e /\ m.doc["candidate"] = c
      /\ Seen("runner") = m.file["runner"] /\ Seen("manifest") = m.file["manifest"]
      /\ Seen("pack") = m.file["pack"] /\ r = m.doc["receipt"]
    BY <1>1, <1>3 DEF ReceiptOK
<1>8. CandidateTrue(c) /\ EvidenceOK BY <1>1, <1>7 DEF DocsOK
<1>9. c.session \in 1 .. Len(finished) BY <1>8 DEF CandidateTrue
<1>10. r.method = "capture" =>
         /\ c.revision = finished[c.session].revision
         /\ Seen("runner") = finished[c.session].runner
         /\ Seen("pack") = finished[c.session].pack
  <2> SUFFICES ASSUME r.method = "capture"
               PROVE /\ c.revision = finished[c.session].revision
                     /\ Seen("runner") = finished[c.session].runner
                     /\ Seen("pack") = finished[c.session].pack
      OBVIOUS
  <2> HIDE DEF r, c, e
  <2>1. r.pack = Seen("pack") /\ r.runner = Seen("runner") /\ r.revision = c.revision
        /\ e.revision = r.revision /\ e.runner = r.runner /\ e.pack = r.pack
        /\ e.session = c.session
      BY <1>7 DEF ReceiptBound, r
  <2>2. /\ e.pack = finished[e.session].pack
        /\ e.runner = finished[e.session].runner /\ e.revision = finished[e.session].revision
      BY <1>7, <1>8, <2>1 DEF EvidenceOK, c, e
  <2> QED BY <2>1, <2>2
<1>11. /\ i.seen["candidate"] = c /\ i.seen["evidence"] = e /\ i.seen["receipt"] = r
       /\ i.moment = m /\ \A x \in {"manifest", "pack", "runner"} : i.seen[x] = Seen(x)
    BY <1>7 DEF Seen
<1> HIDE DEF i
<1>12. OneMomentOneRun(i)
    BY <1>7, <1>10, <1>11 DEF OneMomentOneRun
<1>13. IssuedOK'
  <2> SUFFICES ASSUME NEW j \in issued'
               PROVE (j.seen["candidate"].session \in 1 .. Len(finished) /\ OneMomentOneRun(j))'
      BY DEF IssuedOK
  <2>1. j \in issued \/ j = i BY <1>2 DEF i
  <2>2. j.seen["candidate"].session \in 1 .. Len(finished) /\ OneMomentOneRun(j)
      BY <1>1, <1>9, <1>11, <1>12, <2>1 DEF IssuedOK
  <2> QED BY <1>2, <2>2 DEF OneMomentOneRun
<1> QED BY <1>1, <1>2, <1>5, <1>6, <1>13, DocsStay DEF EvalInv
-----------------------------------------------------------------------------
(***************************************************************************)
(* The runner                                                              *)
(***************************************************************************)

\* A run that finished stays what it was when another one finishes.
LEMMA Extended ==
    ASSUME NEW f, finished \in Seq(FinishedRuns), f \in FinishedRuns, finished' = Append(finished, f)
    PROVE /\ finished' \in Seq(FinishedRuns) /\ Len(finished') = Len(finished) + 1
          /\ Len(finished) \in Nat
          /\ finished'[Len(finished) + 1] = f
          /\ \A i \in 1 .. Len(finished) : i \in 1 .. Len(finished') /\ finished'[i] = finished[i]
OBVIOUS

\* While a runner works its gate waits for it.
LEMMA GateWaits ==
    ASSUME EvalInv, child.pc \in Started
    PROVE /\ gate.mode \in {"run", "compare"} /\ gate.at \in Nat /\ Place = 14
          /\ Offset \in {0, 2} /\ ChildOK
          /\ gate.mode = "compare" => gate.at > 2
<1>1. EvalTypeOK /\ RunOK BY DEF EvalInv
<1>2. gate.mode \in {"run", "compare"} BY <1>1 DEF EvalTypeOK, Started, NoChild
<1>3. gate.at \in Nat /\ Offset \in {0, 2} /\ Place \in (1 - Offset) .. 20 BY <1>1, <1>2, RunStep
<1>4. Place > 13 BY <1>1, <1>2, <1>3 DEF RunOK, Started, NoChild
<1>5. ~(Place > 14) BY <1>1, <1>2 DEF RunOK, Started
<1> QED BY <1>1, <1>2, <1>3, <1>4, <1>5 DEF RunOK, Place

\* What its gate knows of a runner at work.
LEMMA WaitingKeeps ==
    ASSUME EvalInv, child.pc \in Started, UNCHANGED <<file, gate, today>>, ChildOK',
           child'.pc # "none", gate.mode = "compare" => CandidateTrue(Seen("baseline"))'
    PROVE RunOK' /\ ReceiptOK'
<1>1. gate.mode \in {"run", "compare"} /\ Place = 14 BY GateWaits
<1>2. gate' = gate /\ Place' = Place /\ \A x : Seen(x)' = Seen(x) BY DEF Place, Offset, Seen
<1>3. RunOK' BY <1>1, <1>2 DEF RunOK, EvalInv
<1>4. ReceiptOK' BY <1>1, <1>2 DEF ReceiptOK
<1> QED BY <1>3, <1>4

\* The runner loads its code and opens its pack: it has not finished by that.
LEMMA RunnerWorks ==
    ASSUME EvalInv, RunnerLoads \/ RunnerOpensPack
    PROVE EvalInv'
<1>1. EvalTypeOK /\ RunOK /\ DocsOK /\ IssuedOK BY DEF EvalInv
<1>2. child.pc \in Started /\ UNCHANGED <<file, doc, gate, finished, issued, today, reviews>>
    BY DEF RunnerLoads, RunnerOpensPack, Started
<1>3. gate.mode \in {"run", "compare"} /\ gate.at \in Nat /\ Place = 14 /\ ChildOK
      /\ (gate.mode = "compare" => gate.at > 2)
    BY <1>2, GateWaits
<1>4. \A x : Seen(x)' = Seen(x) BY <1>2 DEF Seen
<1>5. /\ Seen("revision") \in 0 .. file["revision"]
      /\ Seen("approval").runner \in 0 .. file["runner"]
      /\ Seen("approval").environment \in 0 .. file["environment"]
      /\ \A x \in Inputs : file[x] \in Nat
    BY <1>1, <1>3 DEF RunOK, EvalTypeOK
<1>6. /\ child'.pc \in {"loaded", "opened", "failed"} /\ DOMAIN child' = DOMAIN child
      /\ child'.manifest = child.manifest /\ child'.runner = child.runner
      /\ child'.environment = child.environment /\ child'.revision = child.revision
      /\ child'.report = "none"
  <2>1. child.report = "none" BY <1>2, <1>3 DEF ChildOK, Started
  <2> QED BY <1>3, <2>1 DEF RunnerLoads, RunnerOpensPack, ChildOK
<1>7. child'.pc \in {"loaded", "opened"} =>
        /\ child'.loaded \in Seen("approval").runner .. file["runner"]
        /\ child'.within \in Seen("approval").environment .. file["environment"]
        /\ child'.on \in Seen("revision") .. file["revision"]
        /\ (child'.pc = "opened" => child'.opened = child'.manifest /\ child'.opened \in Nat)
  <2>1. CASE RunnerLoads
    <3>1. child'.pc = "loaded" /\ child'.loaded = file["runner"]
          /\ child'.within = file["environment"] /\ child'.on = file["revision"]
        BY <1>3, <2>1 DEF RunnerLoads, ChildOK
    <3> QED BY <1>5, <3>1 DEF Inputs
  <2>2. CASE RunnerOpensPack /\ child'.pc \in {"loaded", "opened"}
    <3>1. child.pc = "loaded" /\ file["pack"] = child.manifest
          /\ child' = [child EXCEPT !.pc = "opened", !.opened = file["pack"]]
        BY <1>3, <2>2 DEF RunnerOpensPack, ChildOK
    <3>2. child'.pc = "opened" /\ child'.opened = child'.manifest /\ child'.opened = file["pack"]
          /\ child'.loaded = child.loaded /\ child'.within = child.within /\ child'.on = child.on
        BY <1>3, <3>1 DEF ChildOK
    <3> QED BY <1>3, <1>5, <3>1, <3>2 DEF ChildOK, Inputs
  <2> QED BY <2>1, <2>2
<1>8. EvalTypeOK' BY <1>1, <1>2, <1>3, <1>6 DEF EvalTypeOK
<1>9. ChildOK' BY <1>2, <1>3, <1>4, <1>6, <1>7 DEF ChildOK, Started
<1>10. gate.mode = "compare" => CandidateTrue(Seen("baseline"))'
    BY <1>1, <1>2, <1>3, <1>4 DEF RunOK, CandidateTrue, RanAsApproved
<1>11. RunOK' /\ ReceiptOK' BY <1>2, <1>6, <1>8, <1>9, <1>10, WaitingKeeps
<1> QED BY <1>1, <1>2, <1>8, <1>11, DocsStay, IssuedStays DEF EvalInv

\* The runner ends: what it loaded and opened is what is recorded of it.
LEMMA RunnerEndsKeeps ==
    ASSUME EvalInv, NEW report \in {"none", "FAIL", "PASS"}, RunnerEnds(report)
    PROVE EvalInv'
<1>1. EvalTypeOK /\ RunOK /\ DocsOK /\ IssuedOK BY DEF EvalInv
<1>2. child.pc = "opened" /\ child.pc \in Started /\ UNCHANGED <<file, gate, issued, today, reviews>>
    BY DEF RunnerEnds, Started
<1>3. gate.mode \in {"run", "compare"} /\ gate.at \in Nat /\ Place = 14 /\ ChildOK
      /\ (gate.mode = "compare" => gate.at > 2)
    BY <1>2, GateWaits
<1>4. \A x : Seen(x)' = Seen(x) BY <1>2 DEF Seen
<1>5. /\ Seen("revision") \in 0 .. file["revision"]
      /\ Seen("approval").runner \in 0 .. file["runner"]
      /\ Seen("approval").environment \in 0 .. file["environment"]
      /\ \A x \in Inputs : file[x] \in Nat
    BY <1>1, <1>3 DEF RunOK, EvalTypeOK
<1>6. /\ child.loaded \in Seen("approval").runner .. file["runner"]
      /\ child.within \in Seen("approval").environment .. file["environment"]
      /\ child.on \in Seen("revision") .. file["revision"]
      /\ child.opened = child.manifest /\ child.opened \in Nat
      /\ child.report = "none"
    BY <1>2, <1>3 DEF ChildOK
<1>7. gate.mode = "compare" => CandidateTrue(Seen("baseline")) BY <1>1, <1>3 DEF RunOK
<1>8. CASE child'.pc # "ended"
  <2>1. child' = [child EXCEPT !.pc = "failed"] /\ UNCHANGED <<finished, doc>>
      BY <1>3, <1>8 DEF RunnerEnds, ChildOK
  <2>2. child'.pc = "failed" /\ DOMAIN child' = DOMAIN child
        /\ child'.manifest = child.manifest /\ child'.runner = child.runner
        /\ child'.environment = child.environment /\ child'.revision = child.revision
        /\ child'.report = "none"
      BY <1>3, <1>6, <2>1 DEF ChildOK
  <2>3. EvalTypeOK' BY <1>1, <1>2, <1>3, <2>1, <2>2 DEF EvalTypeOK
  <2>4. ChildOK' BY <1>2, <1>3, <1>4, <2>1, <2>2 DEF ChildOK
  <2>5. gate.mode = "compare" => CandidateTrue(Seen("baseline"))'
      BY <1>4, <1>7, <2>1 DEF CandidateTrue, RanAsApproved
  <2>6. RunOK' /\ ReceiptOK' BY <1>2, <2>2, <2>3, <2>4, <2>5, WaitingKeeps
  <2> QED BY <1>1, <1>2, <2>1, <2>3, <2>6, DocsStay, IssuedStays DEF EvalInv
<1>9. CASE child'.pc = "ended"
  <2> DEFINE f == [runner |-> child.loaded, environment |-> child.within,
                   revision |-> child.on, pack |-> child.opened, since |-> gate.since]
             n == Len(finished) + 1
             w == [session |-> Len(finished) + 1, manifest |-> child.manifest,
                   pack |-> child.opened, runner |-> child.runner,
                   environment |-> child.environment, revision |-> child.revision]
  <2>1. /\ child' = [child EXCEPT !.pc = "ended", !.report = report]
        /\ finished' = Append(finished, f) /\ doc' = [doc EXCEPT !["evidence"] = w]
      BY <1>3, <1>9 DEF RunnerEnds, ChildOK
  <2>2. f \in FinishedRuns
    <3>1. child.loaded \in Nat /\ child.within \in Nat /\ child.on \in Nat /\ child.opened \in Nat
        BY <1>5, <1>6 DEF Inputs
    <3>2. gate.since \in Nat BY <1>1 DEF EvalTypeOK
    <3> QED BY <3>1, <3>2 DEF FinishedRuns
  <2>3. finished \in Seq(FinishedRuns) BY <1>1 DEF EvalTypeOK
  <2>4. /\ f.runner = child.loaded /\ f.environment = child.within /\ f.revision = child.on
        /\ f.pack = child.opened /\ f.since = gate.since
        /\ w.session = n /\ w.pack = child.opened /\ w.runner = child.runner
        /\ w.revision = child.revision
      OBVIOUS
  <2> HIDE DEF f, w
  <2>5. /\ finished' \in Seq(FinishedRuns) /\ Len(finished') = n /\ Len(finished) \in Nat
        /\ finished'[n] = f
        /\ \A i \in 1 .. Len(finished) : i \in 1 .. Len(finished') /\ finished'[i] = finished[i]
      BY <2>1, <2>2, <2>3, Extended
  <2>6. /\ child'.pc = "ended" /\ DOMAIN child' = DOMAIN child
        /\ child'.manifest = child.manifest /\ child'.runner = child.runner
        /\ child'.environment = child.environment /\ child'.revision = child.revision
        /\ child'.loaded = child.loaded /\ child'.within = child.within
        /\ child'.on = child.on /\ child'.opened = child.opened
      BY <1>3, <2>1 DEF ChildOK
  <2>7. doc' = [x \in Documents |-> doc'[x]] /\ doc'["evidence"] = w
        /\ doc'["candidate"] = doc["candidate"] /\ doc'["baseline"] = doc["baseline"]
        /\ doc'["receipt"] = doc["receipt"]
      BY <1>1, <2>1 DEF EvalTypeOK, Documents
  <2>8. EvalTypeOK' BY <1>1, <1>2, <1>3, <2>5, <2>6, <2>7 DEF EvalTypeOK
  <2>9. ChildOK'
    <3>1. Len(finished') > 0 /\ finished'[Len(finished')] = f BY <2>5
    <3> QED BY <1>2, <1>3, <1>4, <1>6, <2>4, <2>6, <2>7, <3>1 DEF ChildOK
  <2>11. gate.mode = "compare" => CandidateTrue(Seen("baseline"))'
    <3> SUFFICES ASSUME gate.mode = "compare" PROVE CandidateTrue(Seen("baseline"))' OBVIOUS
    <3> DEFINE b == Seen("baseline")
    <3>1. Seen("baseline")' = b BY <1>4
    <3>2. CandidateTrue(b) BY <1>7
    <3> HIDE DEF b
    <3>3. b.session \in 1 .. Len(finished) /\ RanAsApproved(b)
          /\ b.environment = b.approval.environment
        BY <3>2 DEF CandidateTrue
    <3>4. b.session \in 1 .. Len(finished') /\ finished'[b.session] = finished[b.session]
        BY <2>5, <3>3
    <3> QED BY <3>1, <3>3, <3>4 DEF CandidateTrue, RanAsApproved
  <2>12. RunOK' /\ ReceiptOK' BY <1>2, <2>6, <2>8, <2>9, <2>11, WaitingKeeps
  <2>13. \A x \in {"candidate", "baseline"} : doc'[x] # NoDocument => CandidateTrue(doc[x])'
    <3> SUFFICES ASSUME NEW x \in {"candidate", "baseline"}, doc'[x] # NoDocument
                 PROVE CandidateTrue(doc[x])'
        OBVIOUS
    <3>1. doc'[x] = doc[x] BY <2>7
    <3>2. CandidateTrue(doc[x]) BY <1>1, <3>1 DEF DocsOK
    <3>3. doc[x].session \in 1 .. Len(finished) /\ RanAsApproved(doc[x])
          /\ doc[x].environment = doc[x].approval.environment
        BY <3>2 DEF CandidateTrue
    <3>4. doc[x].session \in 1 .. Len(finished') /\ finished'[doc[x].session] = finished[doc[x].session]
        BY <2>5, <3>3
    <3> QED BY <3>1, <3>3, <3>4 DEF CandidateTrue, RanAsApproved
  <2>14. doc'["candidate"] # NoDocument =>
           doc["candidate"].session \in 1 .. Len(finished) /\ Compared(doc["candidate"])'
    <3> SUFFICES ASSUME doc["candidate"] # NoDocument
                 PROVE doc["candidate"].session \in 1 .. Len(finished) /\ Compared(doc["candidate"])'
        BY <2>7
    <3> DEFINE c == doc["candidate"]
    <3>1. c.session \in 1 .. Len(finished) /\ Compared(c) BY <1>1 DEF DocsOK, CandidateTrue
    <3>2. finished'[c.session] = finished[c.session] BY <2>5, <3>1
    <3>3. c.eligible => /\ c.against \in 1 .. Len(finished)
                        /\ finished[c.against].pack = finished[c.session].pack
                        /\ finished[c.against].environment = finished[c.session].environment
        BY <3>1 DEF Compared
    <3>4. c.eligible => /\ c.against \in 1 .. Len(finished')
                        /\ finished'[c.against] = finished[c.against]
        BY <2>5, <3>3
    <3> QED BY <2>7, <3>1, <3>2, <3>3, <3>4 DEF Compared
  <2>15. EvidenceOK'
    <3>1. doc'["candidate"] # NoDocument => doc'["candidate"].session # n BY <2>5, <2>7, <2>14
    <3> QED BY <2>4, <2>5, <2>7, <3>1 DEF EvidenceOK
  <2>16. DocsOK' BY <1>1, <1>2, <2>7, <2>13, <2>14, <2>15 DEF DocsOK
  <2>17. IssuedOK'
    <3> SUFFICES ASSUME NEW i \in issued'
                 PROVE (i.seen["candidate"].session \in 1 .. Len(finished) /\ OneMomentOneRun(i))'
        BY DEF IssuedOK
    <3>1. i.seen["candidate"].session \in 1 .. Len(finished) /\ OneMomentOneRun(i)
        BY <1>1, <1>2 DEF IssuedOK
    <3>2. i.seen["candidate"].session \in 1 .. Len(finished')
          /\ finished'[i.seen["candidate"].session] = finished[i.seen["candidate"].session]
        BY <2>5, <3>1
    <3> QED BY <3>1, <3>2 DEF OneMomentOneRun
  <2> QED BY <2>8, <2>12, <2>16, <2>17 DEF EvalInv
<1> QED BY <1>8, <1>9
-----------------------------------------------------------------------------
(***************************************************************************)
(* People, edits and time, and every other step                            *)
(***************************************************************************)

\* People approve, review, keep and seal, files are edited and days pass, between any two looks
\* of a gate: a file only gets contents it never had, a receipt an id that none had before it,
\* and the candidate and the evidence stay.
LEMMA WorldKeeps ==
    ASSUME EvalInv, UNCHANGED <<gate, child, finished, issued>>, today' \in Nat,
           file' = [x \in Inputs |-> file'[x]],
           \A x \in Inputs : file'[x] \in Nat /\ file'[x] >= file[x],
           doc' = [x \in Documents |-> doc'[x]],
           doc'["candidate"] = doc["candidate"], doc'["evidence"] = doc["evidence"],
           doc'["baseline"] = doc["baseline"] \/ doc'["baseline"] = doc["candidate"],
           \/ doc'["receipt"] = doc["receipt"] /\ reviews' = reviews
           \/ doc'["receipt"] # NoDocument /\ doc'["receipt"].id = reviews + 1
              /\ reviews' = reviews + 1
    PROVE EvalInv'
<1>1. EvalTypeOK /\ DocsOK /\ IssuedOK /\ RunOK /\ ReceiptOK BY DEF EvalInv
<1>2. EvalTypeOK' BY <1>1 DEF EvalTypeOK
<1>3. IssuedOK' BY <1>1, IssuedStays
<1>4. \A x : Seen(x)' = Seen(x) BY DEF Seen
<1>5. Place' = Place /\ Offset' = Offset BY DEF Place, Offset
<1>6. DocsOK'
  <2>1. EvidenceOK' BY <1>1 DEF DocsOK, EvidenceOK
  <2>2. ASSUME NEW x \in {"candidate", "baseline"}, doc'[x] # NoDocument
        PROVE CandidateTrue(doc[x])'
    <3>1. PICK y \in {"candidate", "baseline"} : doc'[x] = doc[y] BY <2>2
    <3>2. CandidateTrue(doc[y]) BY <1>1, <2>2, <3>1 DEF DocsOK
    <3> QED BY <3>1, <3>2 DEF CandidateTrue, RanAsApproved
  <2>3. doc'["candidate"] # NoDocument => Compared(doc["candidate"])'
      BY <1>1 DEF DocsOK, Compared
  <2>4. doc'["receipt"] # NoDocument => doc'["receipt"].id \in Nat /\ doc'["receipt"].id <= reviews'
      BY <1>1 DEF DocsOK, EvalTypeOK
  <2> QED BY <2>1, <2>2, <2>3, <2>4 DEF DocsOK
<1>7. \A x \in Inputs : file[x] \in Nat BY <1>1 DEF EvalTypeOK
<1>8. \A x \in Inputs : \A n : n \in 0 .. file[x] => n \in 0 .. file'[x] BY <1>7
<1>9. \A x \in Inputs : \A n, k : n \in k .. file[x] => n \in k .. file'[x] BY <1>7
<1>10. RunOK'
  <2>1. ChildOK => ChildOK'
    <3> SUFFICES ASSUME ChildOK PROVE ChildOK' OBVIOUS
    <3> DEFINE a == Seen("approval")
    <3>1. child.pc \in {"loaded", "opened", "ended"} =>
            /\ child.loaded \in a.runner .. file'["runner"]
            /\ child.within \in a.environment .. file'["environment"]
            /\ child.on \in Seen("revision") .. file'["revision"]
        BY <1>9 DEF ChildOK, Inputs
    <3> QED BY <1>4, <3>1 DEF ChildOK
  <2>2. CandidateTrue(Seen("baseline")) => CandidateTrue(Seen("baseline"))'
      BY <1>4 DEF CandidateTrue, RanAsApproved
  <2>3. "revision" \in Inputs /\ "runner" \in Inputs /\ "environment" \in Inputs BY DEF Inputs
  <2> QED BY <1>1, <1>4, <1>5, <1>8, <2>1, <2>2, <2>3 DEF RunOK
<1>11. ReceiptOK'
  <2> SUFFICES ASSUME gate.mode = "receipt" PROVE ReceiptOK' BY DEF ReceiptOK
  <2> DEFINE r == Seen("receipt")
             m == gate.moment
             d == doc["receipt"]
             w == doc'["receipt"]
  <2>1. ASSUME gate.at > 1
        PROVE r # NoDocument /\ w # NoDocument /\ r.id \in Nat /\ (w = r \/ w.id > r.id)
    <3>1. r # NoDocument /\ d # NoDocument /\ r.id \in Nat /\ (d = r \/ d.id > r.id)
        BY <1>1, <2>1 DEF ReceiptOK
    <3>2. d.id \in Nat /\ d.id <= reviews /\ reviews \in Nat BY <1>1, <3>1 DEF DocsOK, EvalTypeOK
    <3>3. r.id <= reviews BY <3>1, <3>2
    <3> QED BY <3>1, <3>2, <3>3
  <2>2. ASSUME gate.at > 7
        PROVE /\ m.doc["receipt"].id \in 0 .. reviews'
              /\ w = m.doc["receipt"] \/ w.id > m.doc["receipt"].id
    <3>1. m.doc["receipt"].id \in 0 .. reviews
          /\ (d = m.doc["receipt"] \/ d.id > m.doc["receipt"].id)
        BY <1>1, <2>2 DEF ReceiptOK
    <3>2. reviews \in Nat BY <1>1 DEF EvalTypeOK
    <3> QED BY <3>1, <3>2
  <2>3. ReceiptBound' <=> ReceiptBound BY <1>4 DEF ReceiptBound
  <2>4. /\ gate.at > 2 => Seen("manifest") \in 0 .. file'["manifest"]
        /\ gate.at > 3 => Seen("pack") \in 0 .. file'["pack"]
        /\ gate.at > 6 => Seen("runner") \in 0 .. file'["runner"]
      BY <1>1, <1>8 DEF ReceiptOK, Inputs
  <2>5. gate.at > 7 =>
          \A x \in {"manifest", "pack", "runner"} : m.file[x] \in Seen(x) .. file'[x]
    <3> SUFFICES ASSUME gate.at > 7, NEW x \in {"manifest", "pack", "runner"}
                 PROVE m.file[x] \in Seen(x) .. file'[x]
        OBVIOUS
    <3>1. m.file[x] \in Seen(x) .. file[x] BY <1>1 DEF ReceiptOK
    <3>2. x \in Inputs BY DEF Inputs
    <3> QED BY <1>9, <3>1, <3>2
  <2> QED BY <1>1, <1>4, <2>1, <2>2, <2>3, <2>4, <2>5 DEF ReceiptOK
<1> QED BY <1>2, <1>3, <1>6, <1>10, <1>11 DEF EvalInv

\* Each of their steps is such a step.
LEMMA PeopleKeep ==
    ASSUME EvalInv,
           \/ HumanApproves \/ KeepBaseline \/ HumanSeals \/ DayPasses
           \/ \E method \in {"capture", "other"} : HumanReviews(method)
           \/ \E x \in Inputs : EditInput(x)
    PROVE EvalInv'
<1>1. EvalTypeOK BY DEF EvalInv
<1>2. /\ \A x \in Inputs : file[x] \in Nat /\ file[x] >= file[x]
      /\ file = [x \in Inputs |-> file[x]] /\ doc = [x \in Documents |-> doc[x]]
      /\ today \in Nat /\ reviews \in Nat
      /\ "candidate" \in Documents /\ "evidence" \in Documents /\ "baseline" \in Documents
      /\ "receipt" \in Documents /\ "approval" \in Documents /\ "seal" \in Documents
    BY <1>1 DEF EvalTypeOK, Documents
<1>3. ASSUME NEW x \in {"approval", "seal"}, NEW v, doc' = [doc EXCEPT ![x] = v],
             UNCHANGED <<file, gate, child, finished, issued, today, reviews>>
      PROVE EvalInv'
  <2>1. doc' = [y \in Documents |-> doc'[y]] /\ doc'["candidate"] = doc["candidate"]
        /\ doc'["evidence"] = doc["evidence"] /\ doc'["baseline"] = doc["baseline"]
        /\ doc'["receipt"] = doc["receipt"]
      BY <1>2, <1>3
  <2> QED BY <1>2, <1>3, <2>1, WorldKeeps
<1>4. ASSUME HumanApproves PROVE EvalInv' BY <1>3, <1>4 DEF HumanApproves
<1>5. ASSUME HumanSeals PROVE EvalInv' BY <1>3, <1>5 DEF HumanSeals
<1>6. ASSUME KeepBaseline PROVE EvalInv'
  <2>1. doc' = [doc EXCEPT !["baseline"] = doc["candidate"]]
        /\ UNCHANGED <<file, gate, child, finished, issued, today, reviews>>
      BY <1>6 DEF KeepBaseline
  <2>2. doc' = [y \in Documents |-> doc'[y]] /\ doc'["candidate"] = doc["candidate"]
        /\ doc'["evidence"] = doc["evidence"] /\ doc'["baseline"] = doc["candidate"]
        /\ doc'["receipt"] = doc["receipt"]
      BY <1>2, <2>1
  <2> QED BY <1>2, <2>1, <2>2, WorldKeeps
<1>7. ASSUME DayPasses PROVE EvalInv'
  <2>1. today' = today + 1 /\ UNCHANGED <<file, doc, gate, child, finished, issued, reviews>>
      BY <1>7 DEF DayPasses
  <2>2. today' \in Nat BY <1>2, <2>1
  <2> QED BY <1>2, <2>1, <2>2, WorldKeeps
<1>8. ASSUME NEW method \in {"capture", "other"}, HumanReviews(method) PROVE EvalInv'
  <2> DEFINE c == doc["candidate"]
             w == [report |-> c, evidence |-> doc["evidence"], manifest |-> file["manifest"],
                   pack |-> file["pack"], runner |-> file["runner"],
                   environment |-> c.environment, revision |-> c.revision, written |-> today,
                   method |-> method, id |-> reviews + 1]
  <2>1. doc' = [doc EXCEPT !["receipt"] = w] /\ reviews' = reviews + 1
        /\ UNCHANGED <<file, gate, child, finished, issued, today>>
      BY <1>8 DEF HumanReviews
  <2>2. w.id = reviews + 1 OBVIOUS
  <2>3. "id" \in DOMAIN w /\ "id" \notin DOMAIN NoDocument BY DEF NoDocument
  <2>4. w # NoDocument BY <2>3
  <2> HIDE DEF w
  <2>5. doc' = [y \in Documents |-> doc'[y]] /\ doc'["candidate"] = doc["candidate"]
        /\ doc'["evidence"] = doc["evidence"] /\ doc'["baseline"] = doc["baseline"]
        /\ doc'["receipt"] = w
      BY <1>2, <2>1
  <2> QED BY <1>2, <2>1, <2>2, <2>4, <2>5, WorldKeeps
<1>9. ASSUME NEW x \in Inputs, EditInput(x) PROVE EvalInv'
  <2>1. file' = [file EXCEPT ![x] = @ + 1]
        /\ UNCHANGED <<doc, gate, child, finished, issued, today, reviews>>
      BY <1>9 DEF EditInput
  <2>2. file' = [y \in Inputs |-> file'[y]]
        /\ \A y \in Inputs : file'[y] \in Nat /\ file'[y] >= file[y]
      BY <1>2, <2>1
  <2> QED BY <1>2, <2>1, <2>2, WorldKeeps
<1> QED BY <1>4, <1>5, <1>6, <1>7, <1>8, <1>9

\* An invocation begins with nothing read; a runner that was left is reaped.
LEMMA BeginsAndReaps ==
    ASSUME EvalInv,
           Reap \/ \E mode \in {"preflight", "check", "run", "compare", "receipt"} : Invoke(mode)
    PROVE EvalInv'
<1>1. EvalTypeOK /\ DocsOK /\ IssuedOK BY DEF EvalInv
<1>2. UNCHANGED <<file, doc, finished, issued, today, reviews>> BY DEF Invoke, Reap
<1>3. DocsOK' /\ IssuedOK' BY <1>1, <1>2, DocsStay, IssuedStays
<1>4. CASE Reap
  <2>1. gate.mode = "none" /\ child' = NoChild /\ gate' = gate BY <1>4 DEF Reap
  <2>2. EvalTypeOK' BY <1>1, <1>2, <2>1 DEF EvalTypeOK, NoChild
  <2>3. RunOK' /\ ReceiptOK' BY <2>1 DEF RunOK, ReceiptOK
  <2> QED BY <1>3, <2>2, <2>3 DEF EvalInv
<1>5. ASSUME NEW mode \in {"preflight", "check", "run", "compare", "receipt"}, Invoke(mode)
      PROVE EvalInv'
  <2>1. child.pc = "none" /\ child' = child /\ gate' = [Idle EXCEPT !.mode = mode]
      BY <1>5 DEF Invoke
  <2>2. child' = NoChild /\ child = NoChild BY <1>1, <2>1 DEF EvalTypeOK
  <2>3. gate'.mode = mode /\ gate'.at = 1 /\ gate'.since = 0 /\ DOMAIN gate' = Fields
        /\ DOMAIN gate'.seen = Inputs \cup Documents
      BY <2>1 DEF Idle, Fields
  <2>4. 1 \in 1 .. Len(StepsOf(mode))
    <3>1. CASE mode = "preflight" BY <3>1 DEF StepsOf, PreflightSteps
    <3>2. CASE mode = "receipt" BY <3>2 DEF StepsOf, ReceiptSteps
    <3>3. CASE mode = "check"
      <4>1. StepsOf(mode) = ApprovalSteps BY <3>3 DEF StepsOf
      <4> QED BY <4>1, CheckTable
    <3>4. CASE mode = "run"
      <4>1. StepsOf(mode) = RunSteps BY <3>4 DEF StepsOf
      <4> QED BY <4>1, RunTable
    <3>5. CASE mode = "compare"
      <4>1. StepsOf(mode) = BaselineSteps \o RunSteps BY <3>5 DEF StepsOf
      <4> QED BY <4>1, CompareTable
    <3> QED BY <3>1, <3>2, <3>3, <3>4, <3>5
  <2>5. EvalTypeOK' BY <1>1, <1>2, <2>2, <2>3, <2>4 DEF EvalTypeOK, Fields, NoChild
  <2>6. Place' <= 1
    <3>1. Offset' = IF mode = "compare" THEN 2 ELSE 0 BY <2>3 DEF Offset
    <3> QED BY <2>3, <3>1 DEF Place
  <2>7. Place' \in Int BY <2>3 DEF Place, Offset
  <2>8. RunOK' BY <2>2, <2>3, <2>6, <2>7 DEF RunOK, NoChild
  <2>9. ReceiptOK' BY <2>3 DEF ReceiptOK
  <2> QED BY <1>3, <2>5, <2>8, <2>9 DEF EvalInv
<1> QED BY <1>4, <1>5

\* A preflight is written, and the result of an approval check.
LEMMA ApprovalWrites ==
    ASSUME EvalInv, WritePreflight \/ WriteApprovalCheck
    PROVE EvalInv'
<1>1. EvalTypeOK /\ DocsOK /\ IssuedOK BY DEF EvalInv
<1>2. gate.mode # "none" /\ Step[1] = "write" /\ Step[2] \in {"preflight", "approval-check"}
      /\ gate' = Idle /\ UNCHANGED <<file, child, finished, issued, today, reviews>>
    BY DEF WritePreflight, WriteApprovalCheck, At, Written
<1>3. gate.mode \in {"preflight", "check"}
  <2>1. gate.mode # "receipt"
    <3> SUFFICES ASSUME gate.mode = "receipt" PROVE FALSE OBVIOUS
    <3> QED BY <1>1, <1>2, ReceiptStep
  <2>2. gate.mode \notin {"run", "compare"}
    <3> SUFFICES ASSUME gate.mode \in {"run", "compare"} PROVE FALSE OBVIOUS
    <3> QED BY <1>1, <1>2, RunStep
  <2> QED BY <1>1, <1>2, <2>1, <2>2 DEF EvalTypeOK
<1>4. child = NoChild BY <1>1, <1>3 DEF EvalTypeOK
<1>5. gate'.mode = "none" /\ gate'.at = 1 /\ gate'.since = 0 /\ DOMAIN gate' = Fields
      /\ DOMAIN gate'.seen = Inputs \cup Documents
    BY <1>2 DEF Idle, Fields
<1>6. /\ doc' = [x \in Documents |-> doc'[x]]
      /\ \A x \in {"candidate", "baseline", "evidence", "receipt"} : doc'[x] = doc[x]
    BY <1>1 DEF WritePreflight, WriteApprovalCheck, Written, EvalTypeOK, Documents
<1>7. EvalTypeOK' BY <1>1, <1>2, <1>4, <1>5, <1>6 DEF EvalTypeOK, Fields, NoChild
<1>8. RunOK' /\ ReceiptOK' BY <1>5 DEF RunOK, ReceiptOK
<1>9. DocsOK'
  <2>1. /\ doc'["candidate"] = doc["candidate"] /\ doc'["baseline"] = doc["baseline"]
        /\ doc'["evidence"] = doc["evidence"] /\ doc'["receipt"] = doc["receipt"]
    BY <1>6
  <2>2. \A x \in {"candidate", "baseline"} : doc'[x] # NoDocument => CandidateTrue(doc[x])'
    BY <1>1, <1>2, <2>1 DEF DocsOK, CandidateTrue, RanAsApproved
  <2>3. (doc["candidate"] # NoDocument => Compared(doc["candidate"]))'
    BY <1>1, <1>2, <2>1 DEF DocsOK, Compared
  <2>4. (doc["receipt"] # NoDocument => doc["receipt"].id \in Nat /\ doc["receipt"].id <= reviews)'
    BY <1>1, <1>2, <2>1 DEF DocsOK
  <2>5. EvidenceOK' BY <1>1, <1>2, <2>1 DEF DocsOK, EvidenceOK
  <2> QED BY <2>2, <2>3, <2>4, <2>5 DEF DocsOK
<1> QED BY <1>1, <1>2, <1>7, <1>8, <1>9, IssuedStays DEF EvalInv

\* A gate that looks, in whatever mode, keeps the invariant or stops.
LEMMA LooksKeep ==
    ASSUME EvalInv, Look \/ LookAgain \/ MatchApproval \/ BindReceipt
    PROVE EvalInv'
<1>1. EvalTypeOK BY DEF EvalInv
<1>2. gate.mode # "none" /\ Step[1] \in {"read", "again", "match", "bind"}
      /\ UNCHANGED <<file, doc, child, finished, issued, today, reviews>>
    BY DEF Look, LookAgain, MatchApproval, BindReceipt, At
<1>3. CASE gate' = Idle
  <2>1. gate.mode \in {"run", "compare"} => Place \in Int /\ Place # 14
    <3> SUFFICES ASSUME gate.mode \in {"run", "compare"} PROVE Place \in Int /\ Place # 14 OBVIOUS
    <3> DEFINE k == Step[1]
    <3>1. (k = "await" <=> Place = 14) /\ Place \in (1 - Offset) .. 20 /\ Offset \in {0, 2}
        BY <1>1, RunStep
    <3>2. k # "await" BY <1>2
    <3> HIDE DEF k
    <3> QED BY <3>1, <3>2
  <2> QED BY <1>2, <1>3, <2>1, Refused
<1>4. CASE gate' # Idle
  <2>1. CASE gate.mode \in {"run", "compare"}
    <3>1. Step[1] # "bind"
      <4> DEFINE k == Step[1]
      <4>1. k \in {"read", "match", "again", "launch", "await", "write"} BY <1>1, <2>1, RunStep
      <4> HIDE DEF k
      <4>2. k # "bind" BY <4>1
      <4> QED BY <4>2 DEF k
    <3>2. Look \/ LookAgain \/ MatchApproval BY <3>1 DEF BindReceipt, At
    <3> QED BY <1>4, <2>1, <3>2, RunLooks, RunLooksAgain
  <2>2. CASE gate.mode = "receipt"
    <3>1. Step[1] # "match" BY <1>1, <2>2, ReceiptStep
    <3>2. Look \/ LookAgain \/ BindReceipt BY <3>1 DEF MatchApproval, At
    <3> QED BY <1>4, <2>2, <3>2, ReceiptLooks, ReceiptLooksAgain, BindReceiptKeeps
  <2>3. CASE gate.mode \in {"preflight", "check"}
    <3>1. Step[1] # "bind" /\ Step[1] # "write" BY <1>1, <1>2, <2>3, ApprovalStep
    <3>2. DOMAIN gate = Fields /\ gate.since \in Nat /\ DOMAIN gate.seen = Inputs \cup Documents
          /\ today \in Nat
        BY <1>1 DEF EvalTypeOK, Fields
    <3>3. CASE Look
      <4>0. PICK x : x = Step[2] OBVIOUS
      <4> DEFINE g == [gate EXCEPT !.seen[x] = Current(x), !.since = IF x = "approval" THEN today ELSE @]
      <4>1. Advance(g) BY <1>4, <3>3, <4>0 DEF Look, Refuse
      <4>2. g.mode = gate.mode /\ g.at = gate.at /\ DOMAIN g = Fields /\ g.since \in Nat
            /\ DOMAIN g.seen = Inputs \cup Documents
          BY <3>2 DEF Fields
      <4> HIDE DEF g
      <4> QED BY <1>2, <2>3, <3>1, <4>1, <4>2, ApprovalGoesOn
    <3>4. CASE LookAgain \/ MatchApproval
      <4>1. Advance(gate) BY <1>4, <3>4 DEF LookAgain, MatchApproval, Refuse
      <4> QED BY <1>2, <2>3, <3>1, <3>2, <4>1, ApprovalGoesOn
    <3> QED BY <3>1, <3>3, <3>4 DEF BindReceipt, At
  <2> QED BY <1>1, <1>2, <2>1, <2>2, <2>3 DEF EvalTypeOK
<1> QED BY <1>3, <1>4

\* At the start no run has finished and nothing is in place.
LEMMA EvalBegins ==
    ASSUME EvalInit
    PROVE EvalInv
<1>1. /\ file = [x \in Inputs |-> 1] /\ doc = [x \in Documents |-> NoDocument]
      /\ gate = Idle /\ child = NoChild /\ finished = <<>> /\ issued = {}
      /\ today = 0 /\ reviews = 0
    BY DEF EvalInit
<1>2. gate.mode = "none" /\ gate.at = 1 /\ gate.since = 0 /\ DOMAIN gate = Fields
      /\ DOMAIN gate.seen = Inputs \cup Documents
    BY <1>1 DEF Idle, Fields
<1>3. finished \in Seq(FinishedRuns) /\ Len(finished) = 0 BY <1>1
<1>4. EvalTypeOK BY <1>1, <1>2, <1>3 DEF EvalTypeOK, Fields, NoChild
<1>5. \A x \in Documents : doc[x] = NoDocument BY <1>1
<1>6. DocsOK BY <1>3, <1>5 DEF DocsOK, EvidenceOK, NoDocument, Documents
<1>7. IssuedOK /\ RunOK /\ ReceiptOK BY <1>1, <1>2 DEF IssuedOK, RunOK, ReceiptOK
<1> QED BY <1>4, <1>6, <1>7 DEF EvalInv

\* Every step keeps the invariant.
LEMMA EvalSteps ==
    ASSUME EvalInv, [EvalNext]_evalVars
    PROVE EvalInv'
<1>1. EvalTypeOK BY DEF EvalInv
<1>2. CASE Launch \/ Await BY <1>2, LaunchKeeps, AwaitKeeps
<1>3. CASE WriteCandidate BY <1>3, WriteCandidateKeeps
<1>4. CASE WriteReceiptCheck
  <2>1. gate.mode # "none" /\ Step[1] = "write" /\ Step[2] = "receipt-check"
      BY <1>4 DEF WriteReceiptCheck, At
  <2>2. gate.mode \notin {"preflight", "check"}
    <3> SUFFICES ASSUME gate.mode \in {"preflight", "check"} PROVE FALSE OBVIOUS
    <3> QED BY <1>1, <2>1, ApprovalStep
  <2>3. gate.mode \notin {"run", "compare"}
    <3> SUFFICES ASSUME gate.mode \in {"run", "compare"} PROVE FALSE OBVIOUS
    <3> QED BY <1>1, <2>1, RunStep
  <2>4. gate.mode = "receipt" BY <1>1, <2>1, <2>2, <2>3 DEF EvalTypeOK
  <2> QED BY <1>4, <2>4, WriteReceiptCheckKeeps
<1>5. CASE RunnerLoads \/ RunnerOpensPack BY <1>5, RunnerWorks
<1>6. CASE \E report \in {"none", "FAIL", "PASS"} : RunnerEnds(report) BY <1>6, RunnerEndsKeeps
<1>7. CASE UNCHANGED evalVars
  <2>1. UNCHANGED <<file, doc, gate, child, finished, issued, today, reviews>>
      BY <1>7 DEF evalVars
  <2>2. /\ file = [x \in Inputs |-> file[x]] /\ doc = [x \in Documents |-> doc[x]]
        /\ \A x \in Inputs : file[x] \in Nat /\ file[x] >= file[x]
        /\ today \in Nat
      BY <1>1 DEF EvalTypeOK
  <2> QED BY <2>1, <2>2, WorldKeeps
<1> QED BY <1>2, <1>3, <1>4, <1>5, <1>6, <1>7, LooksKeep, ApprovalWrites, BeginsAndReaps, PeopleKeep
     DEF EvalNext

\* However the files of a benchmark are edited, the checkout moves and days pass between any two
\* looks of its gate: a candidate stands for a run of the approved runner and pack in the approved
\* environment, an eligible one was compared with a run of the same pack and environment, and a
\* receipt binds one moment and one run.
THEOREM GateBinds == EvalSpec => []GateBindsOneRun
<1>1. EvalInit => EvalInv BY EvalBegins
<1>2. EvalInv /\ [EvalNext]_evalVars => EvalInv' BY EvalSteps
<1>3. EvalInv => GateBindsOneRun
    BY DEF EvalInv, DocsOK, IssuedOK, CandidateTrue, Compared, GateBindsOneRun
<1> QED BY <1>1, <1>2, <1>3, PTL DEF EvalSpec

-----------------------------------------------------------------------------
(***************************************************************************)
(* The report of a private benchmark: the inductive invariant              *)
(***************************************************************************)

\* How many requests the models were asked; whether one is under way, and not yet acknowledged.
AskedFor == Total(asked.ordinals)
UnderWay == IF bench.call = NoCall THEN 0 ELSE 1
Waiting == IF bench.call # NoCall /\ ~bench.acked THEN 1 ELSE 0

\* No acknowledgement was lost.
Whole == bench.captured => client + Waiting = AskedFor

Working == {"retrieve", "answer"}
Ending == {"sealing", "score", "reported", "failed"}
Calls == [command : {"capture"}, seq : Nat, n : Nat \ {0}, kind : {"embedding", "generation"}, ordinal : Nat]
BenchTypeOK ==
    /\ DOMAIN bench = {"pc", "captured", "at", "begun", "calls", "call", "acked", "hash", "spent",
                       "handles", "observed", "failed"}
    /\ bench.pc \in {"idle", "switch", "checks", "final", "freeze"} \cup Working \cup Ending
    /\ bench.captured \in BOOLEAN /\ bench.begun \in BOOLEAN /\ bench.acked \in BOOLEAN
    /\ bench.failed \in BOOLEAN /\ bench.hash \in Nat
    /\ bench.at \in Cases
    /\ bench.begun => bench.pc \in Working /\ ledger.active = bench.at
    /\ bench.call \in Calls \cup {NoCall} /\ (bench.call # NoCall => bench.begun)
    /\ DOMAIN asked = {"embedding", "generation", "ordinals", "counted"}
    /\ asked.ordinals \in [{"embedding", "generation"} -> Nat] /\ asked.counted \in Nat
    /\ DOMAIN ledger = {"closed", "active", "calls", "events"} /\ ledger.calls \in Nat
    /\ ledger.events \in [Cases -> Seq(Nat)]
    /\ DOMAIN keeper = {"pc", "expected", "events", "evidence", "ordinals", "goldenAt"}
    /\ keeper.pc \in {"listening", "session", "sealed", "dead"} /\ keeper.events \in Seq(Nat)
    /\ keeper.expected \in Nat /\ keeper.goldenAt \in Int
    /\ client \in Nat
    /\ ran \in Seq([n : Nat, case : Cases])
    /\ up \in Seq(Calls \cup [command : {"seal"}, seq : Nat, n : Nat])
    /\ down \in Seq([status : {"captured", "sealed"}, seq : Nat, n : Nat])

\* What ran was asked for, in order, and counted.
RanOK ==
    /\ asked.counted = Len(ran) /\ Len(ran) + UnderWay <= AskedFor
    /\ \A i \in 1 .. Len(ran) : /\ i <= ran[i].n
                                /\ Len(ran) - i <= AskedFor - UnderWay - ran[i].n
    /\ Rising([i \in DOMAIN ran |-> ran[i].n])
    /\ bench.call # NoCall => bench.call.n = AskedFor

\* The acknowledgements the client has read, and the one it may misread.
AcksOK ==
    bench.captured =>
      /\ client + Waiting <= AskedFor
      /\ keeper.pc # "sealed" =>
           /\ client <= Len(keeper.events) - Len(down)
           /\ Len(keeper.events) - Len(down) <= AskedFor - Waiting
           /\ \A j \in 1 .. Len(down) : /\ down[j].status = "captured"
                                        /\ down[j].n = Len(keeper.events) - Len(down) + j

\* The collector has recorded no more than was asked for.
RecordedOK == bench.captured => Len(keeper.events) <= AskedFor

\* As long as none was lost, the ledger has under each case what ran for it.
LedgerOK ==
    /\ ~bench.captured /\ bench.call # NoCall => bench.acked
    /\ Whole =>
         /\ bench.call # NoCall => bench.hash = bench.call.n
         /\ \A c \in Cases : Listed(ledger.events[c]) = RanIn(c) /\ Rising(ledger.events[c])

\* What the collector has recorded and what is on its way to it.
KeeperOK ==
    /\ bench.pc = "idle" =>
         /\ keeper.pc = "listening" /\ keeper.events = <<>> /\ keeper.expected = 1
         /\ up = <<>> /\ down = <<>> /\ client = 0 /\ AskedFor = 0 /\ ~bench.captured
    /\ bench.pc # "idle" => (keeper.pc = "listening" <=> ~bench.captured)
    /\ keeper.pc \in {"session", "sealed"} =>
         keeper.events = [i \in 1 .. Len(keeper.events) |-> i]
    /\ keeper.pc = "session" =>
         /\ keeper.expected = Len(keeper.events) + 1
         /\ \A j \in 1 .. Len(up) : up[j].command = "capture" => up[j].n = Len(keeper.events) + j
         /\ \A j \in 1 .. Len(up) : up[j].command = "seal" =>
              /\ j = Len(up) /\ up[j].seq = client + 1 /\ up[j].n = ledger.calls
              /\ bench.pc \in {"sealing", "failed"}
         /\ AskedFor = Len(keeper.events) + Len(up)
                    - (IF up # <<>> /\ up[Len(up)].command = "seal" THEN 1 ELSE 0)
    /\ keeper.pc = "sealed" =>
         /\ Len(keeper.events) = AskedFor /\ client = AskedFor /\ ledger.calls = AskedFor
         /\ keeper.evidence /\ keeper.goldenAt >= 0

\* After its last case the run has answered each, and what follows runs nothing.
EndOK ==
    LET counted == bench.pc \in {"freeze", "sealing", "score", "reported"}
                   \/ (bench.pc = "final" /\ ~bench.failed)
    IN
    /\ bench.pc \in {"idle", "retrieve", "switch"} => bench.observed = <<>>
    /\ bench.pc = "answer" => bench.observed = [i \in 1 .. bench.at - 1 |-> i]
    /\ counted \/ bench.pc = "checks" => bench.observed = [c \in Cases |-> c]
    /\ counted => asked.counted = ledger.calls
    /\ bench.pc \in {"score", "reported"} => keeper.goldenAt >= 0
    /\ bench.pc \in {"score", "reported"} /\ bench.captured => keeper.pc = "sealed"
    /\ keeper.goldenAt >= 0 => bench.pc \in Ending /\ keeper.goldenAt = Len(ran)
    /\ bench.pc = "sealing" => bench.captured

BenchInv == BenchTypeOK /\ RanOK /\ AcksOK /\ RecordedOK /\ LedgerOK /\ KeeperOK /\ EndOK

\* The call under way is one that was asked for; none is none.
LEMMA CallTypes ==
    ASSUME BenchTypeOK
    PROVE /\ bench.call # NoCall => bench.call \in Calls /\ bench.call.n \in Nat \ {0}
          /\ UnderWay \in {0, 1} /\ Waiting \in {0, 1} /\ Waiting <= UnderWay
          /\ AskedFor \in Nat
BY DEF BenchTypeOK, Calls, UnderWay, Waiting, AskedFor, Total

\* A list and its next entry.
LEMMA Entered ==
    ASSUME NEW S, NEW s \in Seq(S), NEW x \in S
    PROVE /\ Append(s, x) \in Seq(S) /\ Len(Append(s, x)) = Len(s) + 1 /\ Len(s) \in Nat
          /\ Append(s, x)[Len(s) + 1] = x
          /\ \A i \in 1 .. Len(s) : Append(s, x)[i] = s[i]
          /\ DOMAIN s = 1 .. Len(s) /\ DOMAIN Append(s, x) = 1 .. Len(s) + 1
OBVIOUS

\* A rising list goes on rising with a number above its entries.
LEMMA RisesOn ==
    ASSUME NEW s \in Seq(Nat), NEW x \in Nat, Rising(s), \A y \in Listed(s) : y < x
    PROVE Rising(Append(s, x)) /\ Listed(Append(s, x)) = Listed(s) \cup {x}
<1> DEFINE u == Append(s, x)
           n == Len(s)
<1>1. n \in Nat /\ u[n + 1] = x /\ (\A i \in 1 .. n : u[i] = s[i])
      /\ DOMAIN s = 1 .. n /\ DOMAIN u = 1 .. n + 1
    BY Entered
<1>2. \A i \in 1 .. n : s[i] \in Listed(s) BY <1>1 DEF Listed
<1> HIDE DEF u, n
<1>3. Rising(u)
  <2> SUFFICES ASSUME NEW i \in 1 .. n + 1, NEW j \in 1 .. n + 1, i < j PROVE u[i] < u[j]
      BY <1>1 DEF Rising
  <2>1. i \in 1 .. n BY <1>1
  <2>2. CASE j = n + 1
    <3>1. u[j] = x /\ u[i] = s[i] /\ s[i] < x BY <1>1, <1>2, <2>1, <2>2
    <3> QED BY <3>1
  <2>3. CASE j \in 1 .. n BY <1>1, <2>1, <2>3 DEF Rising
  <2> QED BY <1>1, <2>2, <2>3
<1>4. Listed(u) = Listed(s) \cup {x}
  <2>1. ASSUME NEW y \in Listed(u) PROVE y \in Listed(s) \cup {x}
    <3>1. PICK i \in 1 .. n + 1 : y = u[i] BY <1>1, <2>1 DEF Listed
    <3>2. CASE i = n + 1 BY <1>1, <3>1, <3>2
    <3>3. CASE i \in 1 .. n BY <1>1, <1>2, <3>1, <3>3
    <3> QED BY <1>1, <3>2, <3>3
  <2>2. ASSUME NEW y \in Listed(s) PROVE y \in Listed(u)
    <3>1. PICK i \in 1 .. n : y = s[i] BY <1>1, <2>2 DEF Listed
    <3>2. i \in 1 .. n + 1 /\ u[i] = y BY <1>1, <3>1
    <3> QED BY <1>1, <3>2 DEF Listed
  <2>3. x \in Listed(u)
    <3>1. n + 1 \in 1 .. n + 1 BY <1>1
    <3> QED BY <1>1, <3>1 DEF Listed
  <2> QED BY <2>1, <2>2, <2>3
<1> QED BY <1>3, <1>4 DEF u

\* A step of the runner between its requests.
LEMMA CallsStay ==
    ASSUME BenchInv, UNCHANGED <<client, ran>>, keeper'.pc = keeper.pc, keeper'.events = keeper.events,
           asked'.ordinals = asked.ordinals, asked'.counted = asked.counted,
           ledger'.events = ledger.events, bench'.call = bench.call,
           bench.call # NoCall => bench'.acked = bench.acked /\ bench'.hash = bench.hash,
           bench'.captured = bench.captured
    PROVE /\ RanOK' /\ RecordedOK' /\ LedgerOK' /\ (down' = down => AcksOK')
          /\ AskedFor' = AskedFor /\ UnderWay' = UnderWay /\ Waiting' = Waiting
          /\ (Whole' <=> Whole)
<1>1. AskedFor' = AskedFor /\ UnderWay' = UnderWay /\ Waiting' = Waiting
    BY DEF AskedFor, Total, UnderWay, Waiting
<1>2. Whole' <=> Whole BY <1>1 DEF Whole
<1>3. RanOK' BY <1>1 DEF BenchInv, RanOK, Rising
<1>4. down' = down => AcksOK' BY <1>1 DEF BenchInv, AcksOK
<1>6. RecordedOK' BY <1>1 DEF BenchInv, RecordedOK
<1>5. LedgerOK'
  <2>1. \A c : RanIn(c)' = RanIn(c) BY DEF RanIn
  <2>2. \A c \in Cases : /\ Listed(ledger.events[c])' = Listed(ledger.events[c])
                          /\ Rising(ledger.events[c])' <=> Rising(ledger.events[c])
      BY DEF Listed, Rising
  <2> QED BY <1>2, <2>1, <2>2 DEF BenchInv, LedgerOK
<1> QED BY <1>1, <1>2, <1>3, <1>4, <1>5, <1>6

\* A step of the runner that sends the collector nothing.
LEMMA KeeperStays ==
    ASSUME BenchInv, UNCHANGED <<client, keeper, up>>, asked'.ordinals = asked.ordinals,
           ledger'.calls = ledger.calls, bench'.captured = bench.captured,
           bench.pc # "idle", bench'.pc # "idle",
           bench.pc \in {"sealing", "failed"} /\ keeper.pc = "session" =>
             bench'.pc \in {"sealing", "failed"}
    PROVE KeeperOK'
<1>1. AskedFor' = AskedFor BY DEF AskedFor, Total
<1>2. KeeperOK BY DEF BenchInv
<1>3. bench'.pc # "idle" => (keeper'.pc = "listening" <=> ~bench'.captured)
  <2>1. keeper.pc = "listening" <=> ~bench.captured BY <1>2 DEF KeeperOK
  <2> QED BY <2>1
<1>4. ASSUME keeper.pc = "session", NEW j \in 1 .. Len(up), up[j].command = "seal"
      PROVE /\ j = Len(up) /\ up[j].seq = client + 1 /\ up[j].n = ledger.calls
            /\ bench'.pc \in {"sealing", "failed"}
    BY <1>2, <1>4 DEF KeeperOK
<1>5. keeper.pc = "session" =>
        /\ keeper.expected = Len(keeper.events) + 1
        /\ \A j \in 1 .. Len(up) : up[j].command = "capture" => up[j].n = Len(keeper.events) + j
        /\ AskedFor = Len(keeper.events) + Len(up)
                     - (IF up # <<>> /\ up[Len(up)].command = "seal" THEN 1 ELSE 0)
    BY <1>2 DEF KeeperOK
<1>6. keeper.pc \in {"session", "sealed"} => keeper.events = [i \in 1 .. Len(keeper.events) |-> i]
    BY <1>2 DEF KeeperOK
<1>7. keeper.pc = "sealed" =>
        /\ Len(keeper.events) = AskedFor /\ client = AskedFor /\ ledger.calls = AskedFor
        /\ keeper.evidence /\ keeper.goldenAt >= 0
    BY <1>2 DEF KeeperOK
<1>8. (keeper.pc = "session")' =>
        /\ (keeper.expected = Len(keeper.events) + 1)'
        /\ (\A j \in 1 .. Len(up) : up[j].command = "capture" => up[j].n = Len(keeper.events) + j)'
        /\ (\A j \in 1 .. Len(up) : up[j].command = "seal" =>
              /\ j = Len(up) /\ up[j].seq = client + 1 /\ up[j].n = ledger.calls
              /\ bench.pc \in {"sealing", "failed"})'
        /\ (AskedFor = Len(keeper.events) + Len(up)
                      - (IF up # <<>> /\ up[Len(up)].command = "seal" THEN 1 ELSE 0))'
  <2> SUFFICES ASSUME keeper.pc = "session"
      PROVE /\ (keeper.expected = Len(keeper.events) + 1)'
            /\ (\A j \in 1 .. Len(up) : up[j].command = "capture" => up[j].n = Len(keeper.events) + j)'
            /\ (\A j \in 1 .. Len(up) : up[j].command = "seal" =>
                  /\ j = Len(up) /\ up[j].seq = client + 1 /\ up[j].n = ledger.calls
                  /\ bench.pc \in {"sealing", "failed"})'
            /\ (AskedFor = Len(keeper.events) + Len(up)
                          - (IF up # <<>> /\ up[Len(up)].command = "seal" THEN 1 ELSE 0))'
      OBVIOUS
  <2>1. (\A j \in 1 .. Len(up) : up[j].command = "seal" =>
              /\ j = Len(up) /\ up[j].seq = client + 1 /\ up[j].n = ledger.calls
              /\ bench.pc \in {"sealing", "failed"})'
      BY <1>4
  <2> QED BY <1>1, <1>5, <2>1
<1>9. (keeper.pc = "sealed")' =>
        (/\ Len(keeper.events) = AskedFor /\ client = AskedFor /\ ledger.calls = AskedFor
         /\ keeper.evidence /\ keeper.goldenAt >= 0)'
    BY <1>1, <1>7
<1>10. (keeper.pc \in {"session", "sealed"} => keeper.events = [i \in 1 .. Len(keeper.events) |-> i])'
    BY <1>6
<1>11. (bench.pc # "idle" => (keeper.pc = "listening" <=> ~bench.captured))' BY <1>3
<1> QED BY <1>8, <1>9, <1>10, <1>11 DEF KeeperOK

\* A run that breaks has no request under way and ends without a report.
LEMMA Breaks ==
    ASSUME BenchTypeOK, bench' = Broken(bench)
    PROVE /\ DOMAIN bench' = DOMAIN bench /\ bench'.pc = "final" /\ bench'.failed
          /\ bench'.call = NoCall /\ ~bench'.begun /\ bench'.begun \in BOOLEAN
          /\ bench'.acked \in BOOLEAN /\ bench'.failed \in BOOLEAN /\ bench'.hash \in Nat
          /\ bench'.captured = bench.captured /\ bench'.at = bench.at
          /\ bench'.observed = bench.observed
BY DEF BenchTypeOK, Broken

\* The types, when only the runner and the case of its ledger moved.
LEMMA RunnerTyped ==
    ASSUME BenchTypeOK, UNCHANGED <<client, keeper, ran, up>>, DOMAIN asked' = DOMAIN asked,
           asked'.ordinals = asked.ordinals, asked'.counted = asked.counted,
           DOMAIN ledger' = DOMAIN ledger, ledger'.events = ledger.events,
           ledger'.calls = ledger.calls, down' \in {down} \cup {Tail(down)}, down' # down => down # <<>>,
           DOMAIN bench' = DOMAIN bench, bench'.pc \in {"idle", "switch", "checks", "final", "freeze"} \cup Working \cup Ending,
           bench'.captured = bench.captured, bench'.begun \in BOOLEAN, bench'.acked \in BOOLEAN,
           bench'.failed \in BOOLEAN, bench'.hash \in Nat, bench'.at \in Cases, bench'.call = NoCall,
           bench'.begun => bench'.pc \in Working /\ ledger'.active = bench'.at
    PROVE BenchTypeOK'
<1> DEFINE Frames == [status : {"captured", "sealed"}, seq : Nat, n : Nat]
<1>1. down \in Seq(Frames) BY DEF BenchTypeOK
<1>2. down' \in Seq(Frames)
  <2>1. CASE down' = down BY <1>1, <2>1
  <2>2. CASE down' # down
    <3>1. down # <<>> /\ down' = Tail(down) BY <2>2
    <3> HIDE DEF Frames
    <3> QED BY <1>1, <3>1
  <2> QED BY <2>1, <2>2
<1>3. keeper' = keeper /\ client' = client /\ ran' = ran /\ up' = up OBVIOUS
<1>4. (DOMAIN keeper = {"pc", "expected", "events", "evidence", "ordinals", "goldenAt"}
       /\ keeper.pc \in {"listening", "session", "sealed", "dead"} /\ keeper.events \in Seq(Nat)
       /\ keeper.expected \in Nat /\ keeper.goldenAt \in Int /\ client \in Nat
       /\ ran \in Seq([n : Nat, case : Cases])
       /\ up \in Seq(Calls \cup [command : {"seal"}, seq : Nat, n : Nat]))'
    BY <1>3 DEF BenchTypeOK, Calls, Cases
<1> QED BY <1>2, <1>4 DEF BenchTypeOK, Calls, Cases

\* No request is under way between two cases, and none before the first or after the last.
LEMMA NoneUnderWay ==
    ASSUME BenchInv, ~bench.begun \/ bench.pc \notin Working
    PROVE bench.call = NoCall
BY DEF BenchInv, BenchTypeOK

\* The next case begins, or the time is up.
LEMMA SelectCaseKeeps ==
    ASSUME BenchInv, SelectCase
    PROVE BenchInv'
<1>1. BenchTypeOK BY DEF BenchInv
<1>2. /\ bench.pc \in Working /\ ~bench.begun /\ bench.call = NoCall
      /\ UNCHANGED <<asked, client, up, down, keeper, ran>>
    BY NoneUnderWay DEF SelectCase, Working
<1>3. /\ bench'.captured = bench.captured /\ bench'.observed = bench.observed
      /\ bench'.call = NoCall /\ bench'.at = bench.at /\ DOMAIN bench' = DOMAIN bench
      /\ bench'.begun \in BOOLEAN /\ bench'.acked \in BOOLEAN /\ bench'.failed \in BOOLEAN /\ bench'.hash \in Nat
      /\ DOMAIN ledger' = DOMAIN ledger /\ ledger'.events = ledger.events
      /\ ledger'.calls = ledger.calls
      /\ \/ bench'.pc = "final" /\ bench'.failed /\ ~bench'.begun
         \/ bench'.pc = bench.pc /\ ledger'.active = bench'.at
  <2>1. CASE Late
    <3>1. bench' = Broken(bench) /\ ledger' = ledger BY <2>1 DEF SelectCase
    <3> QED BY <1>1, <3>1, Breaks
  <2>2. CASE ~Late
    <3>1. /\ bench' = [bench EXCEPT !.begun = TRUE, !.calls = 0, !.spent = FALSE]
          /\ ledger' = [ledger EXCEPT !.active = bench.at]
        BY <2>2 DEF SelectCase, CaseSelected
    <3> QED BY <1>1, <1>2, <3>1 DEF BenchTypeOK
  <2> QED BY <2>1, <2>2
<1>4. BenchTypeOK' BY <1>1, <1>2, <1>3, RunnerTyped DEF BenchTypeOK, Working
<1>5. RanOK' /\ AcksOK' /\ RecordedOK' /\ LedgerOK' BY <1>2, <1>3, CallsStay
<1>6. KeeperOK' BY <1>2, <1>3, KeeperStays DEF Working
<1>7. EndOK' BY <1>2, <1>3 DEF BenchInv, EndOK, Working, Ending
<1> QED BY <1>4, <1>5, <1>6, <1>7 DEF BenchInv

\* A case ends: in the second phase the run has answered one more.
LEMMA EndCaseKeeps ==
    ASSUME BenchInv, EndCase
    PROVE BenchInv'
<1>1. BenchTypeOK BY DEF BenchInv
<1> DEFINE b == [bench EXCEPT !.begun = FALSE,
                   !.handles = IF bench.pc = "retrieve" THEN @ \cup {bench.at} ELSE @ \ {bench.at},
                   !.observed = IF bench.pc = "retrieve" THEN @ ELSE Append(@, bench.at)]
<1>2. /\ bench.begun /\ bench.call = NoCall /\ bench.pc \in Working /\ bench.at \in Cases
      /\ UNCHANGED <<asked, ledger, client, up, down, keeper, ran>>
      /\ bench' = IF Late THEN Broken(b)
                  ELSE IF b.at < Records THEN [b EXCEPT !.at = @ + 1]
                  ELSE [b EXCEPT !.pc = IF @ = "retrieve" THEN "switch" ELSE "checks"]
    BY <1>1 DEF EndCase, BenchTypeOK
<1>3. /\ DOMAIN b = DOMAIN bench /\ b.pc = bench.pc /\ b.captured = bench.captured
      /\ b.at = bench.at /\ b.call = NoCall /\ b.begun = FALSE /\ b.acked = bench.acked
      /\ b.failed = bench.failed /\ b.hash = bench.hash
      /\ b.observed = IF bench.pc = "retrieve" THEN bench.observed ELSE Append(bench.observed, bench.at)
    BY <1>1, <1>2 DEF BenchTypeOK
<1> HIDE DEF b
<1>4. /\ DOMAIN bench' = DOMAIN bench /\ bench'.captured = bench.captured /\ bench'.call = NoCall
      /\ bench'.begun = FALSE /\ bench'.acked \in BOOLEAN /\ bench'.failed \in BOOLEAN /\ bench'.hash \in Nat
      /\ bench'.observed = b.observed
      /\ \/ bench'.pc = "final" /\ bench'.failed /\ bench'.at = bench.at
         \/ bench'.pc = bench.pc /\ bench.at < Records /\ bench'.at = bench.at + 1
         \/ /\ bench'.at = bench.at /\ ~(bench.at < Records)
            /\ bench'.pc = IF bench.pc = "retrieve" THEN "switch" ELSE "checks"
    BY <1>1, <1>2, <1>3 DEF BenchTypeOK, Broken
<1>5. bench.at \in Nat /\ Records \in Nat /\ bench.at >= 1 /\ bench.at <= Records
    BY <1>2, BenchmarkAssumption DEF Cases
<1>6. bench'.at \in Cases BY <1>4, <1>5 DEF Cases
<1>7. BenchTypeOK' BY <1>1, <1>2, <1>4, <1>6, RunnerTyped DEF BenchTypeOK, Working
<1>8. RanOK' /\ AcksOK' /\ RecordedOK' /\ LedgerOK' BY <1>2, <1>4, CallsStay
<1>9. KeeperOK' BY <1>2, <1>4, KeeperStays DEF Working
<1>10. EndOK'
  <2>1. CASE bench.pc = "retrieve"
    <3>1. bench'.observed = <<>> BY <1>3, <1>4, <2>1 DEF BenchInv, EndOK
    <3>2. keeper.goldenAt < 0 \/ ~(keeper.goldenAt >= 0) BY <2>1 DEF BenchInv, EndOK, Ending
    <3> QED BY <1>2, <1>4, <2>1, <3>1, <3>2 DEF BenchInv, EndOK, Ending
  <2>2. CASE bench.pc = "answer"
    <3> DEFINE n == bench.at - 1
               s == [i \in 1 .. n |-> i]
    <3>1. bench.observed = s BY <2>2 DEF BenchInv, EndOK
    <3>2. n \in Nat /\ bench.at = n + 1 BY <1>5
    <3> HIDE DEF n
    <3>3. s \in Seq(Nat) /\ Len(s) = n /\ Append(s, n + 1) = [i \in 1 .. n + 1 |-> i] BY <3>2
    <3>4. bench'.observed = [i \in 1 .. bench.at |-> i] BY <1>3, <1>4, <2>2, <3>1, <3>2, <3>3
    <3>5. bench'.pc = "answer" => bench'.observed = [i \in 1 .. bench'.at - 1 |-> i]
      <4> SUFFICES ASSUME bench'.pc = "answer" PROVE bench'.observed = [i \in 1 .. bench'.at - 1 |-> i]
          OBVIOUS
      <4>1. bench'.at = bench.at + 1 BY <1>4, <2>2
      <4>2. bench'.at - 1 = bench.at BY <1>5, <4>1
      <4> QED BY <3>4, <4>2
    <3>6. bench'.pc = "checks" => bench'.observed = [c \in Cases |-> c]
      <4> SUFFICES ASSUME bench'.pc = "checks" PROVE bench'.observed = [c \in Cases |-> c]
          OBVIOUS
      <4>1. ~(bench.at < Records) BY <1>4, <2>2
      <4>2. bench.at = Records BY <1>5, <4>1
      <4> QED BY <3>4, <4>2 DEF Cases
    <3>7. bench'.pc \in {"final", "answer", "checks"} /\ (bench'.pc = "final" => bench'.failed)
        BY <1>4, <2>2
    <3>8. ~(keeper.goldenAt >= 0) BY <2>2 DEF BenchInv, EndOK, Ending
    <3> QED BY <1>2, <3>5, <3>6, <3>7, <3>8 DEF EndOK
  <2> QED BY <1>2, <2>1, <2>2 DEF Working
<1> QED BY <1>7, <1>8, <1>9, <1>10 DEF BenchInv

\* The models are exchanged; checked; closed.
LEMMA RunnerGoesOn ==
    ASSUME BenchInv, SwitchModels \/ CheckRun \/ CleanUp
    PROVE BenchInv'
<1>1. BenchTypeOK BY DEF BenchInv
<1>2. /\ bench.pc \in {"switch", "checks", "final"} /\ bench.call = NoCall /\ ~bench.begun
      /\ UNCHANGED <<client, up, down, keeper, ran>>
      /\ DOMAIN asked' = DOMAIN asked /\ asked'.ordinals = asked.ordinals
      /\ asked'.counted = asked.counted
      /\ DOMAIN ledger' = DOMAIN ledger /\ ledger'.events = ledger.events
      /\ ledger'.calls = ledger.calls
  <2>1. bench.pc \in {"switch", "checks", "final"} BY DEF SwitchModels, CheckRun, CleanUp
  <2>2. ~bench.begun BY <1>1, <2>1 DEF BenchTypeOK, Working
  <2> QED BY <1>1, <2>1, <2>2, NoneUnderWay DEF SwitchModels, CheckRun, CleanUp, BenchTypeOK
<1>3. /\ DOMAIN bench' = DOMAIN bench /\ bench'.captured = bench.captured /\ bench'.call = NoCall
      /\ ~bench'.begun /\ bench'.begun \in BOOLEAN /\ bench'.acked \in BOOLEAN
      /\ bench'.failed \in BOOLEAN /\ bench'.hash \in Nat /\ bench'.at \in Cases /\ bench'.observed = bench.observed
      /\ \/ bench.pc = "switch" /\ bench'.pc = "answer" /\ bench'.at = 1
         \/ bench.pc = "checks" /\ bench'.pc = "final" /\ bench'.failed
         \/ bench.pc = "checks" /\ bench'.pc = "final" /\ asked.counted = ledger.calls
         \/ bench.pc = "final" /\ bench'.pc = "failed"
         \/ bench.pc = "final" /\ bench'.pc = "freeze" /\ ~bench.failed
  <2>1. CASE SwitchModels
    <3>1. 1 \in Cases BY BenchmarkAssumption DEF Cases
    <3> QED BY <1>1, <1>2, <2>1, <3>1 DEF SwitchModels, BenchTypeOK
  <2>2. CASE CheckRun
    <3>1. CASE bench' = Broken(bench) BY <1>1, <2>2, <3>1, Breaks DEF CheckRun, BenchTypeOK
    <3>2. CASE bench' # Broken(bench)
      <4>1. bench' = [bench EXCEPT !.pc = "final"] /\ asked.counted = ledger.calls
            /\ bench.pc = "checks"
          BY <2>2, <3>2 DEF CheckRun
      <4> QED BY <1>1, <1>2, <4>1 DEF BenchTypeOK
    <3> QED BY <3>1, <3>2
  <2>3. CASE CleanUp BY <1>1, <1>2, <2>3 DEF CleanUp, BenchTypeOK
  <2> QED BY <2>1, <2>2, <2>3
<1>4. BenchTypeOK' BY <1>1, <1>2, <1>3, RunnerTyped DEF BenchTypeOK, Working, Ending
<1>5. RanOK' /\ AcksOK' /\ RecordedOK' /\ LedgerOK' BY <1>2, <1>3, CallsStay
<1>6. KeeperOK' BY <1>2, <1>3, KeeperStays
<1>7. EndOK'
  <2>1. ~(keeper.goldenAt >= 0) BY <1>2 DEF BenchInv, EndOK, Ending
  <2>2. CASE bench.pc = "switch"
    <3>1. bench'.pc = "answer" /\ bench'.at = 1 /\ bench'.observed = <<>>
        BY <1>3, <2>2 DEF BenchInv, EndOK
    <3>2. bench'.observed = [i \in 1 .. bench'.at - 1 |-> i]
      <4>1. [i \in 1 .. 0 |-> i] = <<>> OBVIOUS
      <4>2. bench'.at - 1 = 0 BY <3>1
      <4> QED BY <3>1, <4>1, <4>2
    <3> QED BY <1>2, <2>1, <3>1, <3>2 DEF EndOK
  <2>3. CASE bench.pc = "checks" BY <1>2, <1>3, <2>1, <2>3 DEF BenchInv, EndOK
  <2>4. CASE bench.pc = "final" BY <1>2, <1>3, <2>1, <2>4 DEF BenchInv, EndOK
  <2> QED BY <1>2, <2>2, <2>3, <2>4
<1> QED BY <1>4, <1>5, <1>6, <1>7 DEF BenchInv

\* As long as a case is under way, nothing was sealed and no seal was asked for.
LEMMA WhileWorking ==
    ASSUME BenchInv, bench.begun
    PROVE /\ bench.pc \in Working /\ ledger.active = bench.at /\ bench.at \in Cases
          /\ keeper.pc # "sealed" /\ ~(keeper.goldenAt >= 0)
          /\ keeper.pc = "listening" <=> ~bench.captured
          /\ keeper.pc = "session" =>
               /\ AskedFor = Len(keeper.events) + Len(up)
               /\ \A j \in 1 .. Len(up) : /\ up[j].command # "seal"
                                          /\ up[j].command = "capture" => up[j].n = Len(keeper.events) + j
<1>1. bench.pc \in Working /\ ledger.active = bench.at /\ bench.at \in Cases
    BY DEF BenchInv, BenchTypeOK
<1>2. ~(keeper.goldenAt >= 0) BY <1>1 DEF BenchInv, EndOK, Working, Ending
<1>3. keeper.pc # "sealed" BY <1>2 DEF BenchInv, KeeperOK
<1>4. keeper.pc = "listening" <=> ~bench.captured BY <1>1 DEF BenchInv, KeeperOK, Working
<1>5. ASSUME keeper.pc = "session"
      PROVE /\ AskedFor = Len(keeper.events) + Len(up)
            /\ \A j \in 1 .. Len(up) : /\ up[j].command # "seal"
                                       /\ up[j].command = "capture" => up[j].n = Len(keeper.events) + j
  <2>1. \A j \in 1 .. Len(up) : /\ up[j].command # "seal"
                                /\ up[j].command = "capture" => up[j].n = Len(keeper.events) + j
      BY <1>1, <1>5 DEF BenchInv, KeeperOK, Working
  <2>2. Len(keeper.events) \in Nat /\ Len(up) \in Nat /\ (up # <<>> => Len(up) \in 1 .. Len(up))
    <3>1. keeper.events \in Seq(Nat) /\ up \in Seq(Calls \cup [command : {"seal"}, seq : Nat, n : Nat])
        BY DEF BenchInv, BenchTypeOK
    <3> DEFINE S == Calls \cup [command : {"seal"}, seq : Nat, n : Nat]
    <3>2. up \in Seq(S) BY <3>1
    <3> HIDE DEF S
    <3> QED BY <3>1, <3>2
  <2>3. ~(up # <<>> /\ up[Len(up)].command = "seal") BY <2>1, <2>2
  <2>4. AskedFor = Len(keeper.events) + Len(up) - 0 BY <1>5, <2>3 DEF BenchInv, KeeperOK
  <2> QED BY <2>1, <2>2, <2>4
<1> QED BY <1>1, <1>2, <1>3, <1>4, <1>5

\* An answer to a request, or none: the collector and the end of the run are not concerned.
LEMMA WorkGoesOn ==
    ASSUME BenchInv, bench.begun, UNCHANGED <<keeper, up>>, asked'.ordinals = asked.ordinals,
           bench'.captured = bench.captured, bench'.observed = bench.observed,
           bench'.at = bench.at,
           bench'.pc = bench.pc \/ (bench'.pc = "final" /\ bench'.failed)
    PROVE KeeperOK' /\ EndOK' /\ RecordedOK'
<1>1. AskedFor' = AskedFor BY DEF AskedFor, Total
<1>2. bench'.pc # "idle" /\ bench.pc # "idle" BY WhileWorking DEF Working
<1>3. ASSUME keeper.pc = "session"
      PROVE (/\ keeper.expected = Len(keeper.events) + 1
             /\ (\A j \in 1 .. Len(up) : up[j].command = "capture" => up[j].n = Len(keeper.events) + j)
             /\ (\A j \in 1 .. Len(up) : up[j].command = "seal" =>
                  /\ j = Len(up) /\ up[j].seq = client + 1 /\ up[j].n = ledger.calls
                  /\ bench.pc \in {"sealing", "failed"})
             /\ (AskedFor = Len(keeper.events) + Len(up)
                           - (IF up # <<>> /\ up[Len(up)].command = "seal" THEN 1 ELSE 0)))'
  <2>1. \A j \in 1 .. Len(up) : up[j].command # "seal" BY <1>3, WhileWorking
  <2>2. /\ keeper.expected = Len(keeper.events) + 1
        /\ \A j \in 1 .. Len(up) : up[j].command = "capture" => up[j].n = Len(keeper.events) + j
        /\ AskedFor = Len(keeper.events) + Len(up)
                      - (IF up # <<>> /\ up[Len(up)].command = "seal" THEN 1 ELSE 0)
      BY <1>3 DEF BenchInv, KeeperOK
  <2> QED BY <1>1, <2>1, <2>2
<1>4. (keeper.pc # "sealed")' BY WhileWorking
<1>5. (keeper.pc \in {"session", "sealed"} => keeper.events = [i \in 1 .. Len(keeper.events) |-> i])'
    BY DEF BenchInv, KeeperOK
<1>6. (bench.pc # "idle" => (keeper.pc = "listening" <=> ~bench.captured))' BY WhileWorking
<1>7. KeeperOK' BY <1>2, <1>3, <1>4, <1>5, <1>6 DEF KeeperOK
<1>8. (~(keeper.goldenAt >= 0))' BY WhileWorking
<1>9. EndOK'
  <2>1. CASE bench'.pc = bench.pc BY <1>8, <2>1, WhileWorking DEF BenchInv, EndOK, Working
  <2>2. CASE bench'.pc = "final" /\ bench'.failed BY <1>8, <2>2 DEF EndOK
  <2> QED BY <2>1, <2>2
<1>10. RecordedOK' BY <1>1 DEF BenchInv, RecordedOK
<1> QED BY <1>7, <1>9, <1>10

\* A request that is over, answered or failed.
LEMMA CallOver ==
    ASSUME BenchTypeOK, bench.begun,
           \/ bench' = CallFailed(bench)
           \/ bench' = [bench EXCEPT !.call = NoCall, !.acked = FALSE, !.hash = 0]
    PROVE /\ DOMAIN bench' = DOMAIN bench /\ bench'.call = NoCall /\ bench'.captured = bench.captured
          /\ bench'.at = bench.at /\ bench'.observed = bench.observed
          /\ bench'.pc = bench.pc \/ (bench'.pc = "final" /\ bench'.failed)
          /\ bench'.begun \in BOOLEAN /\ bench'.acked \in BOOLEAN /\ bench'.failed \in BOOLEAN
          /\ bench'.hash \in Nat
          /\ bench'.begun => bench'.pc = bench.pc
          /\ bench'.pc \in Working \cup {"final"}
<1>1. bench.pc \in Working BY DEF BenchTypeOK
<1>2. CASE bench' = Broken(bench) BY <1>1, <1>2 DEF BenchTypeOK, Broken
<1>3. CASE bench' = [bench EXCEPT !.call = NoCall, !.acked = FALSE, !.hash = 0, !.spent = TRUE]
    BY <1>1, <1>3 DEF BenchTypeOK
<1>4. CASE bench' = [bench EXCEPT !.call = NoCall, !.acked = FALSE, !.hash = 0]
    BY <1>1, <1>4 DEF BenchTypeOK
<1> QED BY <1>2, <1>3, <1>4 DEF CallFailed

\* A model is asked: the request takes the next number and is on its way to the collector.
LEMMA CallModelKeeps ==
    ASSUME BenchInv, CallModel
    PROVE BenchInv'
<1>1. BenchTypeOK BY DEF BenchInv
<1> DEFINE n == Total(asked.ordinals) + 1
           call == [command |-> "capture", seq |-> client + 1, n |-> n,
                    kind |-> Kind, ordinal |-> asked.ordinals[Kind] + 1]
<1>2. /\ bench.begun /\ bench.call = NoCall /\ Kind \in {"embedding", "generation"}
      /\ ledger' = ledger /\ client' = client /\ down' = down /\ keeper' = keeper /\ ran' = ran
    BY DEF CallModel, Kind
<1>20. asked' = [asked EXCEPT ![Kind] = "loaded", !.ordinals[Kind] = @ + 1] BY DEF CallModel
<1>21. bench' = [bench EXCEPT !.call = call, !.calls = @ + 1, !.acked = ~bench.captured, !.hash = n]
    BY DEF CallModel
<1>22. up' = IF bench.captured THEN Append(up, call) ELSE up BY DEF CallModel
<1>3. n = AskedFor + 1 /\ AskedFor \in Nat /\ AskedFor' = AskedFor + 1
  <2> DEFINE o == asked.ordinals
             k == Kind
  <2>1. asked'.ordinals = [o EXCEPT ![k] = o[k] + 1] BY <1>1, <1>2, <1>20 DEF BenchTypeOK
  <2>2. o \in [{"embedding", "generation"} -> Nat] BY <1>1 DEF BenchTypeOK
  <2>3. k \in {"embedding", "generation"} BY <1>2
  <2>4. n = o["embedding"] + o["generation"] + 1 /\ AskedFor = o["embedding"] + o["generation"]
        /\ AskedFor' = asked'.ordinals["embedding"] + asked'.ordinals["generation"]
      BY DEF AskedFor, Total
  <2> HIDE DEF o, k, n
  <2>5. asked'.ordinals["embedding"] + asked'.ordinals["generation"] = o["embedding"] + o["generation"] + 1
    <3>1. CASE k = "embedding" BY <2>1, <2>2, <3>1
    <3>2. CASE k = "generation" BY <2>1, <2>2, <3>2
    <3> QED BY <2>3, <3>1, <3>2
  <2> QED BY <2>2, <2>4, <2>5
<1>4. call \in Calls /\ call.n = n /\ call.command = "capture" /\ call # NoCall
  <2>0. client \in Nat /\ asked.ordinals \in [{"embedding", "generation"} -> Nat]
      BY <1>1 DEF BenchTypeOK
  <2> HIDE DEF n
  <2>1. client + 1 \in Nat /\ asked.ordinals[Kind] + 1 \in Nat /\ n \in Nat \ {0}
      BY <1>2, <1>3, <2>0
  <2>2. call \in Calls BY <1>2, <2>1 DEF Calls
  <2>3. DOMAIN call # DOMAIN NoCall
    <3>1. "seq" \in DOMAIN call OBVIOUS
    <3>2. "seq" \notin DOMAIN NoCall BY DEF NoCall
    <3> QED BY <3>1, <3>2
  <2>4. call # NoCall BY <2>3
  <2> QED BY <2>2, <2>4
<1> HIDE DEF n, call
<1>5. /\ DOMAIN bench' = DOMAIN bench /\ bench'.call = call /\ bench'.hash = n
      /\ bench'.captured = bench.captured /\ bench'.at = bench.at /\ bench'.pc = bench.pc
      /\ bench'.begun = bench.begun /\ bench'.failed = bench.failed /\ bench'.observed = bench.observed
      /\ bench'.acked \in BOOLEAN /\ (bench'.acked <=> ~bench.captured)
    BY <1>1, <1>21 DEF BenchTypeOK
<1>6. /\ DOMAIN asked' = DOMAIN asked /\ asked'.counted = asked.counted
      /\ asked'.ordinals \in [{"embedding", "generation"} -> Nat]
  <2>1. asked'.ordinals = [asked.ordinals EXCEPT ![Kind] = asked.ordinals[Kind] + 1]
        /\ DOMAIN asked' = DOMAIN asked /\ asked'.counted = asked.counted
      BY <1>1, <1>2, <1>20 DEF BenchTypeOK
  <2>2. asked.ordinals \in [{"embedding", "generation"} -> Nat] BY <1>1 DEF BenchTypeOK
  <2> QED BY <1>2, <2>1, <2>2
<1> DEFINE S == Calls \cup [command : {"seal"}, seq : Nat, n : Nat]
<1>7. up \in Seq(S) /\ up' \in Seq(S)
  <2>1. up \in Seq(S) /\ call \in S BY <1>1, <1>4 DEF BenchTypeOK
  <2> HIDE DEF S
  <2> QED BY <1>22, <2>1
<1>8. BenchTypeOK'
  <2>1. (bench.call \in Calls \cup {NoCall} /\ (bench.call # NoCall => bench.begun))'
      BY <1>2, <1>4, <1>5
  <2>2. (bench.begun => bench.pc \in Working /\ ledger.active = bench.at)'
      BY <1>1, <1>2, <1>5 DEF BenchTypeOK
  <2>3. bench'.hash \in Nat BY <1>3, <1>5
  <2> QED BY <1>1, <1>2, <1>5, <1>6, <1>7, <2>1, <2>2, <2>3 DEF BenchTypeOK
<1>9. UnderWay = 0 /\ UnderWay' = 1 /\ Waiting = 0 /\ Waiting' = IF bench.captured THEN 1 ELSE 0
    BY <1>2, <1>4, <1>5 DEF UnderWay, Waiting
<1>10. ran \in Seq([n : Nat, case : Cases]) /\ Len(ran) \in Nat /\ DOMAIN ran = 1 .. Len(ran)
       /\ \A i \in 1 .. Len(ran) : ran[i].n \in Nat
  <2> DEFINE R == [n : Nat, case : Cases]
  <2>1. ran \in Seq(R) BY <1>1 DEF BenchTypeOK
  <2>2. \A r \in R : r.n \in Nat OBVIOUS
  <2> HIDE DEF R
  <2>3. Len(ran) \in Nat /\ DOMAIN ran = 1 .. Len(ran) /\ \A i \in 1 .. Len(ran) : ran[i] \in R BY <2>1
  <2>4. \A i \in 1 .. Len(ran) : ran[i].n \in Nat BY <2>2, <2>3
  <2> QED BY <1>1, <2>3, <2>4 DEF BenchTypeOK
<1>11. RanOK'
  <2>1. Len(ran) + UnderWay <= AskedFor /\ asked.counted = Len(ran)
        /\ \A i \in 1 .. Len(ran) : /\ i <= ran[i].n
                                    /\ Len(ran) - i <= AskedFor - UnderWay - ran[i].n
      BY DEF BenchInv, RanOK
  <2>2. Rising([i \in DOMAIN ran |-> ran[i].n]) BY DEF BenchInv, RanOK
  <2>3. Rising([i \in DOMAIN ran |-> ran[i].n])' BY <1>2, <2>2 DEF Rising
  <2>4. (asked.counted = Len(ran) /\ Len(ran) + UnderWay <= AskedFor)'
      BY <1>2, <1>3, <1>6, <1>9, <1>10, <2>1
  <2>5. (\A i \in 1 .. Len(ran) : /\ i <= ran[i].n
                                  /\ Len(ran) - i <= AskedFor - UnderWay - ran[i].n)'
    <3> SUFFICES ASSUME NEW i \in 1 .. Len(ran)
                 PROVE i <= ran[i].n /\ Len(ran) - i <= AskedFor' - UnderWay' - ran[i].n
        BY <1>2
    <3>1. i <= ran[i].n /\ Len(ran) - i <= AskedFor - UnderWay - ran[i].n BY <2>1
    <3>2. ran[i].n \in Nat BY <1>10
    <3> QED BY <1>3, <1>9, <1>10, <3>1, <3>2
  <2>6. (bench.call.n = AskedFor)' BY <1>3, <1>4, <1>5
  <2> QED BY <2>3, <2>4, <2>5, <2>6 DEF RanOK
<1>12. client \in Nat /\ Len(keeper.events) \in Nat /\ Len(down) \in Nat
  <2>1. down \in Seq([status : {"captured", "sealed"}, seq : Nat, n : Nat]) /\ keeper.events \in Seq(Nat)
        /\ client \in Nat
      BY <1>1 DEF BenchTypeOK
  <2> QED BY <2>1
<1>13. AcksOK'
  <2> SUFFICES ASSUME bench.captured PROVE AcksOK' BY <1>5 DEF AcksOK
  <2>1. Waiting' = 1 BY <1>9
  <2>2. client + Waiting <= AskedFor BY DEF BenchInv, AcksOK
  <2>3. keeper.pc # "sealed" BY <1>2, WhileWorking
  <2>4. /\ client <= Len(keeper.events) - Len(down)
        /\ Len(keeper.events) - Len(down) <= AskedFor - Waiting
        /\ \A j \in 1 .. Len(down) : /\ down[j].status = "captured"
                                     /\ down[j].n = Len(keeper.events) - Len(down) + j
      BY <2>3 DEF BenchInv, AcksOK
  <2>5. (client + Waiting <= AskedFor)' BY <1>2, <1>3, <1>9, <1>12, <2>1, <2>2
  <2>6. (Len(keeper.events) - Len(down) <= AskedFor - Waiting)'
      BY <1>2, <1>3, <1>9, <1>12, <2>1, <2>4
  <2> QED BY <1>2, <2>4, <2>5, <2>6 DEF AcksOK
<1>17. RecordedOK'
  <2> SUFFICES ASSUME bench.captured PROVE Len(keeper'.events) <= AskedFor' BY <1>5 DEF RecordedOK
  <2>1. Len(keeper.events) <= AskedFor BY DEF BenchInv, RecordedOK
  <2> QED BY <1>2, <1>3, <1>12, <2>1
<1>14. LedgerOK'
  <2>1. (~bench.captured /\ bench.call # NoCall => bench.acked)' BY <1>5
  <2>2. ASSUME Whole' PROVE Whole BY <1>2, <1>3, <1>5, <1>9, <1>12, <2>2 DEF Whole
  <2>3. (bench.hash = bench.call.n)' BY <1>4, <1>5
  <2>4. ASSUME Whole' PROVE (\A c \in Cases : Listed(ledger.events[c]) = RanIn(c) /\ Rising(ledger.events[c]))'
    <3>1. \A c \in Cases : Listed(ledger.events[c]) = RanIn(c) /\ Rising(ledger.events[c])
        BY <2>2, <2>4 DEF BenchInv, LedgerOK
    <3>2. \A c : RanIn(c)' = RanIn(c) BY <1>2 DEF RanIn
    <3>3. \A c \in Cases : /\ Listed(ledger.events[c])' = Listed(ledger.events[c])
                            /\ Rising(ledger.events[c])' <=> Rising(ledger.events[c])
        BY <1>2 DEF Listed, Rising
    <3> QED BY <3>1, <3>2, <3>3
  <2> QED BY <2>1, <2>3, <2>4 DEF LedgerOK
<1>15. KeeperOK'
  <2>1. bench'.pc # "idle" /\ (keeper.pc # "sealed")' /\ (keeper.pc = "listening" <=> ~bench.captured)'
      BY <1>2, <1>5, WhileWorking DEF Working
  <2>2. (keeper.pc \in {"session", "sealed"} => keeper.events = [i \in 1 .. Len(keeper.events) |-> i])'
      BY <1>2 DEF BenchInv, KeeperOK
  <2>3. ASSUME keeper.pc = "session"
        PROVE /\ (keeper.expected = Len(keeper.events) + 1)'
              /\ (AskedFor = Len(keeper.events) + Len(up))'
              /\ (\A j \in 1 .. Len(up) : /\ up[j].command # "seal"
                                          /\ up[j].command = "capture" => up[j].n = Len(keeper.events) + j)'
    <3>1. bench.captured BY <1>2, <2>3, WhileWorking
    <3>2. up' = Append(up, call) BY <1>22, <3>1
    <3>3. AskedFor = Len(keeper.events) + Len(up)
          /\ \A j \in 1 .. Len(up) : /\ up[j].command # "seal"
                                     /\ up[j].command = "capture" => up[j].n = Len(keeper.events) + j
        BY <1>2, <2>3, WhileWorking
    <3> DEFINE m == Len(up)
               K == Len(keeper.events)
    <3>4. m \in Nat /\ Len(up') = m + 1 /\ up'[m + 1] = call /\ \A j \in 1 .. m : up'[j] = up[j]
      <4>1. call \in S BY <1>4
      <4> HIDE DEF S
      <4> QED BY <1>7, <3>2, <4>1
    <3>5. (keeper.expected = Len(keeper.events) + 1)' BY <1>2, <2>3 DEF BenchInv, KeeperOK
    <3>8. m \in Nat /\ K \in Nat /\ AskedFor = K + m BY <1>12, <3>3, <3>4
    <3>6. AskedFor' = Len(keeper'.events) + Len(up')
      <4>1. Len(keeper'.events) = K /\ Len(up') = m + 1 BY <1>2, <3>4
      <4> HIDE DEF m, K
      <4> QED BY <1>3, <3>8, <4>1
    <3>7. ASSUME NEW j \in 1 .. m + 1
          PROVE up'[j].command # "seal" /\ (up'[j].command = "capture" => up'[j].n = Len(keeper.events) + j)
      <4>1. CASE j \in 1 .. m BY <3>3, <3>4, <4>1
      <4>2. CASE j = m + 1
        <5>1. up'[j] = call BY <3>4, <4>2
        <5>2. call.n = Len(keeper.events) + j
          <6>1. call.n = AskedFor + 1 BY <1>3, <1>4
          <6> HIDE DEF m
          <6>2. K + j = K + (m + 1) BY <4>2
          <6> HIDE DEF K
          <6>3. call.n = K + j BY <3>8, <6>1, <6>2
          <6> QED BY <6>3 DEF K
        <5> QED BY <1>4, <5>1, <5>2
      <4> QED BY <3>4, <4>1, <4>2
    <3> QED BY <1>2, <3>4, <3>5, <3>6, <3>7
  <2>4. ASSUME keeper.pc = "session"
        PROVE (AskedFor = Len(keeper.events) + Len(up)
                  - (IF up # <<>> /\ up[Len(up)].command = "seal" THEN 1 ELSE 0))'
    <3>1. Len(up') \in Nat /\ (up' # <<>> => Len(up') \in 1 .. Len(up'))
      <4> HIDE DEF S
      <4> QED BY <1>7
    <3>2. ~(up' # <<>> /\ up'[Len(up')].command = "seal") BY <2>3, <2>4, <3>1
    <3>3. AskedFor' = Len(keeper.events) + Len(up') BY <1>2, <2>3, <2>4
    <3>4. AskedFor' = Len(keeper.events) + Len(up') - 0 BY <1>12, <3>1, <3>3
    <3> QED BY <1>2, <3>2, <3>4
  <2>5. keeper' = keeper BY <1>2
  <2> QED BY <2>1, <2>2, <2>3, <2>4, <2>5 DEF KeeperOK
<1>16. EndOK'
  <2>1. (bench.pc \in Working)' /\ (~(keeper.goldenAt >= 0))' BY <1>2, <1>5, WhileWorking
  <2>2. (bench.pc = "retrieve" => bench.observed = <<>>)' BY <1>5 DEF BenchInv, EndOK
  <2>3. (bench.pc = "answer" => bench.observed = [i \in 1 .. bench.at - 1 |-> i])'
      BY <1>5 DEF BenchInv, EndOK
  <2> QED BY <2>1, <2>2, <2>3 DEF EndOK, Working
<1> QED BY <1>8, <1>11, <1>13, <1>14, <1>15, <1>16, <1>17 DEF BenchInv

\* The frames on the socket and what is left of them when the first is read.
LEMMA FrameRead ==
    ASSUME NEW S, NEW s \in Seq(S), s # <<>>
    PROVE /\ Len(s) \in Nat \ {0} /\ Tail(s) \in Seq(S) /\ Len(Tail(s)) = Len(s) - 1
          /\ Head(s) = s[1] /\ s[1] \in S /\ 1 \in 1 .. Len(s)
          /\ \A j \in 1 .. Len(s) - 1 : Tail(s)[j] = s[j + 1] /\ j + 1 \in 1 .. Len(s)
OBVIOUS

\* What the lists hold.
LEMMA Lists ==
    ASSUME BenchTypeOK
    PROVE /\ client \in Nat /\ Len(keeper.events) \in Nat /\ keeper.events \in Seq(Nat)
          /\ Len(down) \in Nat /\ down \in Seq([status : {"captured", "sealed"}, seq : Nat, n : Nat])
          /\ Len(ran) \in Nat /\ DOMAIN ran = 1 .. Len(ran)
          /\ \A i \in 1 .. Len(ran) : ran[i].n \in Nat
<1>1. client \in Nat /\ keeper.events \in Seq(Nat) BY DEF BenchTypeOK
<1>2. down \in Seq([status : {"captured", "sealed"}, seq : Nat, n : Nat]) BY DEF BenchTypeOK
<1>3. Len(down) \in Nat BY <1>2
<1> DEFINE R == [n : Nat, case : Cases]
<1>4. ran \in Seq(R) BY DEF BenchTypeOK
<1>5. \A r \in R : r.n \in Nat OBVIOUS
<1> HIDE DEF R
<1>6. Len(ran) \in Nat /\ DOMAIN ran = 1 .. Len(ran) /\ \A i \in 1 .. Len(ran) : ran[i] \in R BY <1>4
<1>7. \A i \in 1 .. Len(ran) : ran[i].n \in Nat BY <1>5, <1>6
<1> QED BY <1>1, <1>2, <1>3, <1>6, <1>7

\* The next answer on the socket is the collector's for the request it had recorded first
\* of those whose answers nobody has read.
LEMMA NextAnswer ==
    ASSUME BenchInv, keeper.pc # "sealed", bench.captured, down # <<>>
    PROVE LET K == Len(keeper.events) - Len(down) IN
          /\ K \in Int /\ client <= K /\ K <= AskedFor - Waiting
          /\ Head(down).status = "captured" /\ Head(down).n = K + 1
          /\ Len(keeper.events) - Len(Tail(down)) = K + 1
          /\ Tail(down) \in Seq([status : {"captured", "sealed"}, seq : Nat, n : Nat])
          /\ \A j \in 1 .. Len(Tail(down)) : /\ Tail(down)[j].status = "captured"
                                             /\ Tail(down)[j].n = K + 1 + j
<1> DEFINE F == [status : {"captured", "sealed"}, seq : Nat, n : Nat]
           e == Len(keeper.events)
           d == Len(down)
<1>1. e \in Nat /\ d \in Nat /\ down \in Seq(F) BY Lists DEF BenchInv
<1>2. /\ client <= e - d /\ e - d <= AskedFor - Waiting
      /\ \A j \in 1 .. d : down[j].status = "captured" /\ down[j].n = e - d + j
    BY DEF BenchInv, AcksOK
<1> HIDE DEF F
<1>3. /\ d # 0 /\ Tail(down) \in Seq(F) /\ Len(Tail(down)) = d - 1 /\ Head(down) = down[1]
      /\ 1 \in 1 .. d
      /\ \A j \in 1 .. d - 1 : Tail(down)[j] = down[j + 1] /\ j + 1 \in 1 .. d
    BY <1>1, FrameRead
<1> HIDE DEF e, d
<1>4. Head(down).status = "captured" /\ Head(down).n = e - d + 1 BY <1>2, <1>3
<1>5. e - Len(Tail(down)) = e - d + 1 BY <1>1, <1>3
<1>6. ASSUME NEW j \in 1 .. Len(Tail(down))
      PROVE Tail(down)[j].status = "captured" /\ Tail(down)[j].n = e - d + 1 + j
  <2>1. j \in 1 .. d - 1 BY <1>3
  <2>2. Tail(down)[j] = down[j + 1] /\ j + 1 \in 1 .. d BY <1>3, <2>1
  <2>3. down[j + 1].status = "captured" /\ down[j + 1].n = e - d + (j + 1) BY <1>2, <2>2
  <2>4. e - d + (j + 1) = e - d + 1 + j BY <1>1
  <2> QED BY <2>2, <2>3, <2>4
<1>7. e - d \in Int BY <1>1
<1> QED BY <1>2, <1>3, <1>4, <1>5, <1>6, <1>7 DEF e, d, F

\* An answer is read: it is the one to this request only if none was lost before.
LEMMA AnswerRead ==
    ASSUME BenchInv, CaptureAcked,
           Head(down).status = "captured" /\ Head(down).seq = bench.call.seq
    PROVE BenchInv'
<1>1. BenchTypeOK BY DEF BenchInv
<1>2. /\ bench.call # NoCall /\ ~bench.acked /\ down # <<>> /\ down' = Tail(down)
      /\ client' = client + 1 /\ bench' = [bench EXCEPT !.acked = TRUE, !.hash = Head(down).n]
      /\ asked' = asked /\ ledger' = ledger /\ up' = up /\ keeper' = keeper /\ ran' = ran
    BY DEF CaptureAcked
<1>3. bench.begun /\ bench.captured BY <1>1, <1>2 DEF BenchInv, BenchTypeOK, LedgerOK
<1>4. /\ DOMAIN bench' = DOMAIN bench /\ bench'.pc = bench.pc /\ bench'.captured = bench.captured
      /\ bench'.at = bench.at /\ bench'.begun = bench.begun /\ bench'.call = bench.call
      /\ bench'.observed = bench.observed /\ bench'.failed = bench.failed /\ bench'.acked = TRUE
      /\ bench'.hash = Head(down).n
    BY <1>1, <1>2 DEF BenchTypeOK
<1> DEFINE K == Len(keeper.events) - Len(down)
<1>5. /\ K \in Int /\ client <= K /\ K <= AskedFor - Waiting
      /\ Head(down).status = "captured" /\ Head(down).n = K + 1
      /\ Len(keeper.events) - Len(Tail(down)) = K + 1
      /\ Tail(down) \in Seq([status : {"captured", "sealed"}, seq : Nat, n : Nat])
      /\ \A j \in 1 .. Len(Tail(down)) : /\ Tail(down)[j].status = "captured"
                                         /\ Tail(down)[j].n = K + 1 + j
    BY <1>2, <1>3, WhileWorking, NextAnswer
<1> HIDE DEF K
<1>6. client \in Nat /\ AskedFor \in Nat /\ AskedFor' = AskedFor
      /\ Waiting = 1 /\ Waiting' = 0 /\ UnderWay = 1 /\ UnderWay' = 1
  <2>1. AskedFor' = AskedFor BY <1>2 DEF AskedFor, Total
  <2>2. Waiting = 1 /\ Waiting' = 0 /\ UnderWay = 1 /\ UnderWay' = 1
      BY <1>2, <1>4 DEF Waiting, UnderWay
  <2> QED BY <1>1, <2>1, <2>2, Lists, CallTypes
<1>7. BenchTypeOK'
  <2>1. client' \in Nat BY <1>2, <1>6
  <2>2. (down \in Seq([status : {"captured", "sealed"}, seq : Nat, n : Nat]))' BY <1>2, <1>5
  <2>3. bench'.hash \in Nat BY <1>4, <1>5, <1>6
  <2> QED BY <1>1, <1>2, <1>4, <2>1, <2>2, <2>3 DEF BenchTypeOK, Calls, Cases
<1>8. RanOK'
  <2>1. RanOK BY DEF BenchInv
  <2> QED BY <1>2, <1>4, <1>6, <2>1 DEF RanOK, Rising
<1>9. AcksOK'
  <2>1. client + Waiting <= AskedFor BY <1>3 DEF BenchInv, AcksOK
  <2>2. (client + Waiting <= AskedFor)' BY <1>2, <1>6, <2>1
  <2>3. client' <= Len(keeper'.events) - Len(down') BY <1>2, <1>5, <1>6
  <2>4. Len(keeper'.events) - Len(down') <= AskedFor' - Waiting'
      BY <1>2, <1>5, <1>6
  <2>5. (\A j \in 1 .. Len(down) : /\ down[j].status = "captured"
                                   /\ down[j].n = Len(keeper.events) - Len(down) + j)'
      BY <1>2, <1>5
  <2> QED BY <2>2, <2>3, <2>4, <2>5 DEF AcksOK
<1>10. LedgerOK'
  <2>1. (~bench.captured /\ bench.call # NoCall => bench.acked)' BY <1>4
  <2>2. ASSUME Whole' PROVE Whole /\ K = client /\ AskedFor = client + 1
    <3>1. client + 1 = AskedFor BY <1>2, <1>3, <1>4, <1>6, <2>2 DEF Whole
    <3>2. Whole BY <1>6, <3>1 DEF Whole
    <3> QED BY <1>5, <1>6, <3>1, <3>2
  <2>3. ASSUME Whole' PROVE (bench.hash = bench.call.n)'
    <3>1. bench.call.n = AskedFor BY <1>2 DEF BenchInv, RanOK
    <3> QED BY <1>4, <1>5, <2>2, <2>3, <3>1
  <2>4. ASSUME Whole' PROVE (\A c \in Cases : Listed(ledger.events[c]) = RanIn(c) /\ Rising(ledger.events[c]))'
    <3>1. \A c \in Cases : Listed(ledger.events[c]) = RanIn(c) /\ Rising(ledger.events[c])
        BY <2>2, <2>4 DEF BenchInv, LedgerOK
    <3>2. \A c : RanIn(c)' = RanIn(c) BY <1>2 DEF RanIn
    <3>3. \A c \in Cases : /\ Listed(ledger.events[c])' = Listed(ledger.events[c])
                            /\ Rising(ledger.events[c])' <=> Rising(ledger.events[c])
        BY <1>2 DEF Listed, Rising
    <3> QED BY <3>1, <3>2, <3>3
  <2> QED BY <2>1, <2>3, <2>4 DEF LedgerOK
<1>11. KeeperOK' /\ EndOK' /\ RecordedOK' BY <1>2, <1>3, <1>4, WorkGoesOn
<1> QED BY <1>7, <1>8, <1>9, <1>10, <1>11 DEF BenchInv

\* A request that fails, at the client, at the collector or at the call limit.
LEMMA CallFails ==
    ASSUME BenchInv, bench.call # NoCall, bench' = CallFailed(bench),
           UNCHANGED <<asked, client, up, keeper, ran>>,
           DOMAIN ledger' = DOMAIN ledger, ledger'.events = ledger.events,
           ledger'.active = ledger.active, ledger'.calls \in Nat,
           down' = down \/ (bench.captured /\ down # <<>> /\ down' = Tail(down) /\ ~bench.acked)
    PROVE BenchInv'
<1>1. BenchTypeOK BY DEF BenchInv
<1>2. bench.begun /\ bench.pc \in Working BY <1>1 DEF BenchTypeOK
<1>3. /\ DOMAIN bench' = DOMAIN bench /\ bench'.call = NoCall /\ bench'.captured = bench.captured
      /\ bench'.at = bench.at /\ bench'.observed = bench.observed
      /\ bench'.pc = bench.pc \/ (bench'.pc = "final" /\ bench'.failed)
      /\ bench'.begun \in BOOLEAN /\ bench'.acked \in BOOLEAN /\ bench'.failed \in BOOLEAN
      /\ bench'.hash \in Nat
      /\ bench'.begun => bench'.pc = bench.pc
      /\ bench'.pc \in Working \cup {"final"}
    BY <1>1, <1>2, CallOver
<1>4. asked' = asked /\ client' = client /\ up' = up /\ keeper' = keeper /\ ran' = ran OBVIOUS
<1>5. /\ AskedFor' = AskedFor /\ AskedFor \in Nat /\ client \in Nat
      /\ UnderWay = 1 /\ UnderWay' = 0 /\ Waiting' = 0 /\ Waiting = IF bench.acked THEN 0 ELSE 1
      /\ Len(ran) \in Nat /\ DOMAIN ran = 1 .. Len(ran) /\ \A i \in 1 .. Len(ran) : ran[i].n \in Nat
  <2>1. AskedFor' = AskedFor BY DEF AskedFor, Total
  <2>2. UnderWay = 1 /\ UnderWay' = 0 /\ Waiting' = 0 /\ Waiting = IF bench.acked THEN 0 ELSE 1
      BY <1>3 DEF UnderWay, Waiting
  <2> QED BY <1>1, <2>1, <2>2, Lists, CallTypes
<1>6. /\ (down \in Seq([status : {"captured", "sealed"}, seq : Nat, n : Nat]))' /\ AcksOK'
  <2>1. CASE down' = down
    <3>1. (down \in Seq([status : {"captured", "sealed"}, seq : Nat, n : Nat]))' BY <1>1, <2>1, Lists
    <3>2. ASSUME bench.captured
          PROVE (/\ client + Waiting <= AskedFor
                 /\ client <= Len(keeper.events) - Len(down)
                 /\ Len(keeper.events) - Len(down) <= AskedFor - Waiting
                 /\ \A j \in 1 .. Len(down) : /\ down[j].status = "captured"
                                              /\ down[j].n = Len(keeper.events) - Len(down) + j)'
      <4>1. /\ client + Waiting <= AskedFor
            /\ client <= Len(keeper.events) - Len(down)
            /\ Len(keeper.events) - Len(down) <= AskedFor - Waiting
            /\ \A j \in 1 .. Len(down) : /\ down[j].status = "captured"
                                         /\ down[j].n = Len(keeper.events) - Len(down) + j
          BY <1>2, <3>2, WhileWorking DEF BenchInv, AcksOK
      <4>2. Len(keeper.events) \in Nat /\ Len(down) \in Nat BY <1>1, Lists
      <4>3. (client + Waiting <= AskedFor)' BY <1>4, <1>5, <4>1
      <4> DEFINE K == Len(keeper.events) - Len(down)
      <4>5. K \in Int /\ K <= AskedFor - Waiting /\ Waiting \in {0, 1} BY <1>1, <4>1, <4>2, CallTypes
      <4>6. (Len(keeper.events) - Len(down))' = K BY <1>4, <2>1
      <4>7. K <= AskedFor - 0
        <5> HIDE DEF K
        <5> QED BY <1>5, <4>5
      <4>4. (Len(keeper.events) - Len(down) <= AskedFor - Waiting)' BY <1>5, <4>6, <4>7
      <4> QED BY <1>4, <2>1, <4>1, <4>3, <4>4
    <3>3. AcksOK' BY <1>3, <3>2 DEF AcksOK
    <3> QED BY <3>1, <3>3
  <2>2. CASE bench.captured /\ down # <<>> /\ down' = Tail(down) /\ ~bench.acked
    <3> DEFINE K == Len(keeper.events) - Len(down)
    <3>1. /\ K \in Int /\ client <= K /\ K <= AskedFor - Waiting
          /\ Len(keeper.events) - Len(Tail(down)) = K + 1
          /\ Tail(down) \in Seq([status : {"captured", "sealed"}, seq : Nat, n : Nat])
          /\ \A j \in 1 .. Len(Tail(down)) : /\ Tail(down)[j].status = "captured"
                                             /\ Tail(down)[j].n = K + 1 + j
        BY <1>2, <2>2, WhileWorking, NextAnswer
    <3> HIDE DEF K
    <3>2. client + Waiting <= AskedFor BY <2>2 DEF BenchInv, AcksOK
    <3>3. (client + Waiting <= AskedFor)' BY <1>4, <1>5, <3>2
    <3>4. client' <= Len(keeper'.events) - Len(down') BY <1>4, <1>5, <2>2, <3>1
    <3>5. Len(keeper'.events) - Len(down') <= AskedFor' - Waiting' BY <1>4, <1>5, <2>2, <3>1
    <3>6. (\A j \in 1 .. Len(down) : /\ down[j].status = "captured"
                                     /\ down[j].n = Len(keeper.events) - Len(down) + j)'
        BY <1>4, <2>2, <3>1
    <3> QED BY <2>2, <3>1, <3>3, <3>4, <3>5, <3>6 DEF AcksOK
  <2> QED BY <2>1, <2>2
<1>7. BenchTypeOK'
  <2>1. (bench.begun => bench.pc \in Working /\ ledger.active = bench.at)'
      BY <1>1, <1>2, <1>3 DEF BenchTypeOK
  <2>2. (bench.pc \in {"idle", "switch", "checks", "final", "freeze"} \cup Working \cup Ending)' BY <1>3
  <2> QED BY <1>1, <1>3, <1>4, <1>6, <2>1, <2>2 DEF BenchTypeOK, Calls, Cases
<1>8. RanOK'
  <2>1. /\ Len(ran) + UnderWay <= AskedFor /\ asked.counted = Len(ran)
        /\ \A i \in 1 .. Len(ran) : /\ i <= ran[i].n
                                    /\ Len(ran) - i <= AskedFor - UnderWay - ran[i].n
        /\ Rising([i \in DOMAIN ran |-> ran[i].n])
      BY DEF BenchInv, RanOK
  <2>2. (asked.counted = Len(ran) /\ Len(ran) + UnderWay <= AskedFor)' BY <1>4, <1>5, <2>1
  <2>3. (\A i \in 1 .. Len(ran) : /\ i <= ran[i].n
                                  /\ Len(ran) - i <= AskedFor - UnderWay - ran[i].n)'
    <3> SUFFICES ASSUME NEW i \in 1 .. Len(ran)
                 PROVE i <= ran[i].n /\ Len(ran) - i <= AskedFor' - UnderWay' - ran[i].n
        BY <1>4
    <3>1. i <= ran[i].n /\ Len(ran) - i <= AskedFor - UnderWay - ran[i].n BY <2>1
    <3>2. ran[i].n \in Nat BY <1>5
    <3> QED BY <1>5, <3>1, <3>2
  <2>4. Rising([i \in DOMAIN ran |-> ran[i].n])' BY <1>4, <2>1 DEF Rising
  <2> QED BY <1>3, <2>2, <2>3, <2>4 DEF RanOK
<1>9. LedgerOK'
  <2>1. ASSUME Whole' PROVE Whole
    <3>1. bench.captured => client = AskedFor BY <1>3, <1>4, <1>5, <2>1 DEF Whole
    <3>2. bench.captured => client + Waiting <= AskedFor BY DEF BenchInv, AcksOK
    <3>3. bench.captured => Waiting = 0 BY <1>5, <3>1, <3>2
    <3> QED BY <1>5, <3>1, <3>3 DEF Whole
  <2>2. ASSUME Whole' PROVE (\A c \in Cases : Listed(ledger.events[c]) = RanIn(c) /\ Rising(ledger.events[c]))'
    <3>1. \A c \in Cases : Listed(ledger.events[c]) = RanIn(c) /\ Rising(ledger.events[c])
        BY <2>1, <2>2 DEF BenchInv, LedgerOK
    <3>2. \A c : RanIn(c)' = RanIn(c) BY <1>4 DEF RanIn
    <3>3. \A c \in Cases : /\ Listed(ledger.events[c])' = Listed(ledger.events[c])
                            /\ Rising(ledger.events[c])' <=> Rising(ledger.events[c])
        BY DEF Listed, Rising
    <3> QED BY <3>1, <3>2, <3>3
  <2> QED BY <1>3, <2>2 DEF LedgerOK
<1>10. KeeperOK' /\ EndOK' /\ RecordedOK' BY <1>2, <1>3, <1>4, WorkGoesOn
<1> QED BY <1>6, <1>7, <1>8, <1>9, <1>10 DEF BenchInv

\* The acknowledgement is read, right or wrong, or not waited for.
LEMMA CaptureKeeps ==
    ASSUME BenchInv, CaptureAcked \/ CaptureLost
    PROVE BenchInv'
<1>1. BenchTypeOK BY DEF BenchInv
<1>2. CASE CaptureAcked /\ Head(down).status = "captured" /\ Head(down).seq = bench.call.seq
    BY <1>2, AnswerRead
<1>3. CASE CaptureAcked /\ ~(Head(down).status = "captured" /\ Head(down).seq = bench.call.seq)
  <2>1. /\ bench.call # NoCall /\ ~bench.acked /\ down # <<>> /\ down' = Tail(down)
        /\ bench' = CallFailed(bench) /\ UNCHANGED <<asked, client, up, keeper, ran, ledger>>
      BY <1>3 DEF CaptureAcked
  <2>2. bench.captured BY <2>1 DEF BenchInv, LedgerOK
  <2>3. ledger.calls \in Nat BY <1>1 DEF BenchTypeOK
  <2> QED BY <2>1, <2>2, <2>3, CallFails
<1>4. CASE CaptureLost
  <2>1. /\ bench.call # NoCall /\ bench' = CallFailed(bench)
        /\ UNCHANGED <<asked, client, up, keeper, ran, ledger, down>>
      BY <1>4 DEF CaptureLost
  <2>3. ledger.calls \in Nat BY <1>1 DEF BenchTypeOK
  <2> QED BY <2>1, <2>3, CallFails
<1> QED BY <1>2, <1>3, <1>4

\* A request is entered in the ledger and given to its model, under the case selected last.
LEMMA ObserveCallKeeps ==
    ASSUME BenchInv, NEW runs \in BOOLEAN, ObserveCall(runs)
    PROVE BenchInv'
<1>1. BenchTypeOK BY DEF BenchInv
<1>2. /\ bench.call # NoCall /\ bench.acked
      /\ client' = client /\ up' = up /\ down' = down /\ keeper' = keeper
    BY DEF ObserveCall
<1>3. bench.begun /\ bench.pc \in Working /\ ledger.active = bench.at /\ bench.at \in Cases
    BY <1>1, <1>2 DEF BenchTypeOK
<1>4. CASE ledger.calls = CallLimit
  <2>1. bench' = CallFailed(bench) /\ ledger' = [ledger EXCEPT !.calls = @ + 1] /\ asked' = asked /\ ran' = ran
      BY <1>4 DEF ObserveCall
  <2>2. /\ DOMAIN ledger' = DOMAIN ledger /\ ledger'.events = ledger.events
        /\ ledger'.active = ledger.active /\ ledger'.calls \in Nat
      BY <1>1, <2>1 DEF BenchTypeOK
  <2> QED BY <1>2, <2>1, <2>2, CallFails
<1>5. CASE ledger.calls # CallLimit
  <2> DEFINE n == bench.call.n
             c == bench.at
             L == Len(ran)
             R == [n : Nat, case : Cases]
             r == [n |-> n, case |-> c]
  <2>1. ledger' = [ledger EXCEPT !.calls = @ + 1, !.events[ledger.active] = Append(@, bench.hash)]
      BY <1>5 DEF ObserveCall
  <2>2. asked' = [asked EXCEPT !.counted = @ + 1] BY <1>5 DEF ObserveCall
  <2>3. ran' = Append(ran, r) BY <1>5 DEF ObserveCall
  <2>4. \/ bench' = CallFailed(bench)
        \/ bench' = [bench EXCEPT !.call = NoCall, !.acked = FALSE, !.hash = 0]
      BY <1>5 DEF ObserveCall
  <2>5. /\ DOMAIN bench' = DOMAIN bench /\ bench'.call = NoCall /\ bench'.captured = bench.captured
        /\ bench'.at = bench.at /\ bench'.observed = bench.observed
        /\ bench'.pc = bench.pc \/ (bench'.pc = "final" /\ bench'.failed)
        /\ bench'.begun \in BOOLEAN /\ bench'.acked \in BOOLEAN /\ bench'.failed \in BOOLEAN
        /\ bench'.hash \in Nat
        /\ bench'.begun => bench'.pc = bench.pc
        /\ bench'.pc \in Working \cup {"final"}
      BY <1>1, <1>3, <2>4, CallOver
  <2>6. /\ DOMAIN asked' = DOMAIN asked /\ asked'.ordinals = asked.ordinals
        /\ asked'.counted = asked.counted + 1
      BY <1>1, <2>2 DEF BenchTypeOK
  <2>7. /\ AskedFor' = AskedFor /\ AskedFor \in Nat /\ client \in Nat /\ n \in Nat \ {0} /\ n = AskedFor
        /\ UnderWay = 1 /\ UnderWay' = 0 /\ Waiting' = 0 /\ Waiting = 0
        /\ L \in Nat /\ \A i \in 1 .. L : ran[i].n \in Nat
    <3>1. AskedFor' = AskedFor BY <2>6 DEF AskedFor, Total
    <3>2. UnderWay = 1 /\ UnderWay' = 0 /\ Waiting' = 0 /\ Waiting = 0
        BY <1>2, <2>5 DEF UnderWay, Waiting
    <3>3. n = AskedFor BY <1>2 DEF BenchInv, RanOK
    <3> QED BY <1>1, <1>2, <3>1, <3>2, <3>3, Lists, CallTypes
  <2>8. ran \in Seq(R) /\ r \in R BY <1>1, <1>3, <2>7 DEF BenchTypeOK
  <2>9. /\ ran' \in Seq(R) /\ Len(ran') = L + 1 /\ ran'[L + 1] = r
        /\ (\A i \in 1 .. L : ran'[i] = ran[i])
        /\ DOMAIN ran = 1 .. L /\ DOMAIN ran' = 1 .. L + 1
    <3> HIDE DEF R, r
    <3> QED BY <2>3, <2>8, Entered
  <2>10. r.n = n /\ r.case = c OBVIOUS
  <2> HIDE DEF r, R
  <2>11. /\ L + 1 <= AskedFor /\ asked.counted = L
         /\ \A i \in 1 .. L : i <= ran[i].n /\ L - i <= AskedFor - 1 - ran[i].n
      BY <2>7 DEF BenchInv, RanOK
  <2>12. \A i \in 1 .. L : ran[i].n < n
    <3> SUFFICES ASSUME NEW i \in 1 .. L PROVE ran[i].n < n OBVIOUS
    <3>1. L - i <= AskedFor - 1 - ran[i].n /\ ran[i].n \in Nat BY <2>7, <2>11
    <3> HIDE DEF L, n
    <3> QED BY <2>7, <3>1
  <2>13. RanOK'
    <3>1. (asked.counted = Len(ran) /\ Len(ran) + UnderWay <= AskedFor)' BY <2>6, <2>7, <2>9, <2>11
    <3>2. (\A i \in 1 .. Len(ran) : /\ i <= ran[i].n
                                    /\ Len(ran) - i <= AskedFor - UnderWay - ran[i].n)'
      <4> SUFFICES ASSUME NEW i \in 1 .. L + 1
                   PROVE i <= ran'[i].n /\ L + 1 - i <= AskedFor - 0 - ran'[i].n
          BY <2>7, <2>9
      <4>1. CASE i = L + 1
        <5>1. ran'[i].n = n BY <2>9, <2>10, <4>1
        <5> HIDE DEF L, n
        <5> QED BY <2>7, <2>11, <4>1, <5>1
      <4>2. CASE i \in 1 .. L
        <5>1. ran'[i].n = ran[i].n /\ ran[i].n \in Nat BY <2>7, <2>9, <4>2
        <5>2. i <= ran[i].n /\ L - i <= AskedFor - 1 - ran[i].n BY <2>11, <4>2
        <5> HIDE DEF L, n
        <5> QED BY <2>7, <4>2, <5>1, <5>2
      <4> HIDE DEF L
      <4> QED BY <2>7, <4>1, <4>2
    <3>3. Rising([i \in DOMAIN ran |-> ran[i].n])'
      <4> DEFINE s == [i \in DOMAIN ran |-> ran[i].n]
                 u == [i \in DOMAIN ran' |-> ran'[i].n]
      <4>1. Rising(s) BY DEF BenchInv, RanOK
      <4>2. DOMAIN s = 1 .. L /\ DOMAIN u = 1 .. L + 1 /\ u[L + 1] = n
            /\ \A i \in 1 .. L : s[i] = ran[i].n /\ u[i] = s[i]
        <5>1. \A i \in 1 .. L + 1 : u[i] = ran'[i].n BY <2>9
        <5>2. \A i \in 1 .. L : s[i] = ran[i].n BY <2>9
        <5>3. L + 1 \in 1 .. L + 1 /\ \A i \in 1 .. L : i \in 1 .. L + 1 BY <2>7
        <5> QED BY <2>9, <2>10, <5>1, <5>2, <5>3
      <4> HIDE DEF s, u
      <4>3. ASSUME NEW i \in 1 .. L + 1, NEW j \in 1 .. L + 1, i < j PROVE u[i] < u[j]
        <5>1. i \in 1 .. L BY <2>7, <4>3
        <5>2. CASE j = L + 1
          <6>1. u[j] = n /\ u[i] = ran[i].n BY <4>2, <5>1, <5>2
          <6> QED BY <2>12, <5>1, <6>1
        <5>3. CASE j \in 1 .. L
          <6>1. s[i] < s[j] BY <4>1, <4>2, <4>3, <5>1, <5>3 DEF Rising
          <6> QED BY <4>2, <5>1, <5>3, <6>1
        <5> QED BY <2>7, <5>2, <5>3
      <4>4. Rising(u) BY <4>2, <4>3 DEF Rising
      <4> QED BY <4>4 DEF u
    <3> QED BY <2>5, <3>1, <3>2, <3>3 DEF RanOK
  <2>14. /\ DOMAIN ledger' = DOMAIN ledger /\ ledger'.active = ledger.active
         /\ ledger'.calls = ledger.calls + 1
         /\ ledger'.events = [ledger.events EXCEPT ![c] = Append(ledger.events[c], bench.hash)]
      BY <1>1, <1>3, <2>1 DEF BenchTypeOK
  <2>15. /\ ledger.events \in [Cases -> Seq(Nat)] /\ ledger.events[c] \in Seq(Nat)
         /\ ledger'.events[c] = Append(ledger.events[c], bench.hash)
         /\ \A d \in Cases \ {c} : ledger'.events[d] = ledger.events[d]
      BY <1>1, <1>3, <2>14 DEF BenchTypeOK
  <2>16. (ledger.events \in [Cases -> Seq(Nat)])'
    <3>1. bench.hash \in Nat BY <1>1 DEF BenchTypeOK
    <3>2. Append(ledger.events[c], bench.hash) \in Seq(Nat) BY <2>15, <3>1
    <3> QED BY <1>3, <2>14, <2>15, <3>2
  <2>17. BenchTypeOK'
    <3>1. (bench.begun => bench.pc \in Working /\ ledger.active = bench.at)'
        BY <1>3, <2>5, <2>14
    <3>2. (bench.pc \in {"idle", "switch", "checks", "final", "freeze"} \cup Working \cup Ending)' BY <2>5
    <3>3. asked'.counted \in Nat BY <2>6, <2>7, <2>11
    <3>4. ledger'.calls \in Nat
      <4>1. ledger.calls \in Nat BY <1>1 DEF BenchTypeOK
      <4> QED BY <2>14, <4>1
    <3>5. (ran \in Seq([n : Nat, case : Cases]))' BY <2>9 DEF R
    <3> HIDE DEF n, c, L
    <3> QED BY <1>1, <1>2, <2>5, <2>6, <2>14, <2>16, <3>1, <3>2, <3>3, <3>4, <3>5
            DEF BenchTypeOK, Calls, Cases
  <2>18. AcksOK'
    <3> SUFFICES ASSUME bench.captured PROVE AcksOK' BY <2>5 DEF AcksOK
    <3>1. /\ client + Waiting <= AskedFor
          /\ client <= Len(keeper.events) - Len(down)
          /\ Len(keeper.events) - Len(down) <= AskedFor - Waiting
          /\ \A j \in 1 .. Len(down) : /\ down[j].status = "captured"
                                       /\ down[j].n = Len(keeper.events) - Len(down) + j
        BY <1>3, WhileWorking DEF BenchInv, AcksOK
    <3>2. Waiting' = Waiting BY <2>7
    <3> HIDE DEF n, c, L
    <3> QED BY <1>2, <2>7, <3>1, <3>2 DEF AcksOK
  <2>19. LedgerOK'
    <3> SUFFICES ASSUME Whole'
                 PROVE (\A d \in Cases : Listed(ledger.events[d]) = RanIn(d) /\ Rising(ledger.events[d]))'
        BY <2>5 DEF LedgerOK
    <3>1. Whole BY <1>2, <2>5, <2>7 DEF Whole
    <3>2. bench.hash = n /\ \A d \in Cases : Listed(ledger.events[d]) = RanIn(d) /\ Rising(ledger.events[d])
        BY <1>2, <3>1 DEF BenchInv, LedgerOK
    <3>3. \A d : RanIn(d)' = IF d = c THEN RanIn(d) \cup {n} ELSE RanIn(d)
      <4> SUFFICES ASSUME NEW d PROVE RanIn(d)' = IF d = c THEN RanIn(d) \cup {n} ELSE RanIn(d) OBVIOUS
      <4>1. \A x : x \in RanIn(d) <=> \E i \in 1 .. L : ran[i].case = d /\ x = ran[i].n
          BY <2>9 DEF RanIn
      <4>2. \A x : x \in RanIn(d)' <=> \E i \in 1 .. L + 1 : ran'[i].case = d /\ x = ran'[i].n
          BY <2>9 DEF RanIn
      <4>3. L + 1 \in 1 .. L + 1 /\ (\A i \in 1 .. L : i \in 1 .. L + 1)
            /\ (\A i \in 1 .. L + 1 : i = L + 1 \/ i \in 1 .. L)
          BY <2>7
      <4>4. ran'[L + 1].n = n /\ ran'[L + 1].case = c BY <2>9, <2>10
      <4> HIDE DEF n, c, L
      <4>5. \A x : x \in RanIn(d)' <=> (x \in RanIn(d) \/ (d = c /\ x = n))
        <5> SUFFICES ASSUME NEW x PROVE x \in RanIn(d)' <=> (x \in RanIn(d) \/ (d = c /\ x = n)) OBVIOUS
        <5>1. ASSUME x \in RanIn(d)' PROVE x \in RanIn(d) \/ (d = c /\ x = n)
          <6>1. PICK i \in 1 .. L + 1 : ran'[i].case = d /\ x = ran'[i].n BY <4>2, <5>1
          <6>2. CASE i = L + 1 BY <4>4, <6>1, <6>2
          <6>3. CASE i \in 1 .. L BY <2>9, <4>1, <6>1, <6>3
          <6> QED BY <4>3, <6>2, <6>3
        <5>2. ASSUME x \in RanIn(d) PROVE x \in RanIn(d)'
          <6>1. PICK i \in 1 .. L : ran[i].case = d /\ x = ran[i].n BY <4>1, <5>2
          <6>2. i \in 1 .. L + 1 /\ ran'[i] = ran[i] BY <2>9, <4>3
          <6> QED BY <4>2, <6>1, <6>2
        <5>3. ASSUME d = c, x = n PROVE x \in RanIn(d)' BY <4>2, <4>3, <4>4, <5>3
        <5> QED BY <5>1, <5>2, <5>3
      <4> QED BY <4>5
    <3>4. \A x \in RanIn(c) : x < n
      <4>1. \A x \in RanIn(c) : \E i \in 1 .. L : x = ran[i].n BY <2>9 DEF RanIn
      <4> QED BY <2>12, <4>1
    <3> DEFINE e == ledger.events[c]
               f == ledger'.events[c]
    <3>5. f = Append(e, n) /\ e \in Seq(Nat) /\ Rising(e) /\ Listed(e) = RanIn(c) /\ n \in Nat
        BY <1>3, <2>7, <2>15, <3>2
    <3>6. \A x \in Listed(e) : x < n BY <3>4, <3>5
    <3>7. Rising(f) /\ Listed(f) = Listed(e) \cup {n}
      <4> HIDE DEF e, f, n
      <4>1. Rising(Append(e, n)) /\ Listed(Append(e, n)) = Listed(e) \cup {n} BY <3>5, <3>6, RisesOn
      <4> QED BY <3>5, <4>1
    <3>8. ASSUME NEW d \in Cases
          PROVE Listed(ledger'.events[d]) = RanIn(d)' /\ Rising(ledger'.events[d])
      <4>1. CASE d = c BY <3>3, <3>5, <3>7, <4>1
      <4>2. CASE d # c BY <2>15, <3>2, <3>3, <4>2
      <4> QED BY <4>1, <4>2
    <3>9. (\A d \in Cases : Listed(ledger.events[d]) = RanIn(d) /\ Rising(ledger.events[d]))'
        BY <3>8 DEF Listed, Rising
    <3> QED BY <3>9
  <2>20. KeeperOK' /\ EndOK' /\ RecordedOK' BY <1>2, <1>3, <2>5, <2>6, WorkGoesOn
  <2> QED BY <2>13, <2>17, <2>18, <2>19, <2>20 DEF BenchInv
<1> QED BY <1>4, <1>5

\* The runner, past its last case: what it sends and whom it asks for the labels.
LEMMA FreezeLedgerKeeps ==
    ASSUME BenchInv, FreezeLedger
    PROVE BenchInv'
<1>1. BenchTypeOK BY DEF BenchInv
<1>2. /\ bench.pc = "freeze" /\ asked' = asked /\ ledger' = ledger /\ client' = client
      /\ down' = down /\ ran' = ran
    BY DEF FreezeLedger
<1>3. bench.call = NoCall /\ ~bench.begun BY <1>1, <1>2 DEF BenchTypeOK, Working
<1>4. ~(keeper.goldenAt >= 0) /\ keeper.pc # "sealed" BY <1>2 DEF BenchInv, EndOK, KeeperOK, Ending
<1>5. CASE Unfrozen
  <2>1. bench' = [bench EXCEPT !.pc = "failed"] /\ up' = up /\ keeper' = keeper
      BY <1>5 DEF FreezeLedger
  <2>2. /\ DOMAIN bench' = DOMAIN bench /\ bench'.captured = bench.captured /\ bench'.call = NoCall
        /\ ~bench'.begun /\ bench'.begun \in BOOLEAN /\ bench'.acked \in BOOLEAN
        /\ bench'.failed \in BOOLEAN /\ bench'.hash \in Nat /\ bench'.at \in Cases
        /\ bench'.pc = "failed"
      BY <1>1, <1>3, <2>1 DEF BenchTypeOK
  <2>3. BenchTypeOK' BY <1>1, <1>2, <2>1, <2>2, RunnerTyped DEF BenchTypeOK, Ending
  <2>4. RanOK' /\ AcksOK' /\ RecordedOK' /\ LedgerOK' BY <1>2, <1>3, <2>1, <2>2, CallsStay
  <2>5. KeeperOK' BY <1>2, <2>1, <2>2, KeeperStays
  <2>6. EndOK' BY <1>4, <2>1, <2>2 DEF EndOK
  <2> QED BY <2>3, <2>4, <2>5, <2>6 DEF BenchInv
<1>6. CASE ~Unfrozen /\ bench.captured
  <2> DEFINE seal == [command |-> "seal", seq |-> client + 1, n |-> ledger.calls]
             S == Calls \cup [command : {"seal"}, seq : Nat, n : Nat]
             m == Len(up)
  <2>1. bench' = [bench EXCEPT !.pc = "sealing"] /\ up' = Append(up, seal) /\ keeper' = keeper
      BY <1>6 DEF FreezeLedger
  <2>2. /\ DOMAIN bench' = DOMAIN bench /\ bench'.captured = bench.captured /\ bench'.call = bench.call
        /\ bench'.begun = bench.begun /\ bench'.acked = bench.acked /\ bench'.observed = bench.observed
        /\ bench'.failed = bench.failed /\ bench'.hash = bench.hash /\ bench'.at = bench.at
        /\ bench'.pc = "sealing"
      BY <1>1, <2>1 DEF BenchTypeOK
  <2>3. up \in Seq(S) /\ seal \in S BY <1>1 DEF BenchTypeOK
  <2>4. seal.command = "seal" /\ seal.seq = client + 1 /\ seal.n = ledger.calls OBVIOUS
  <2> HIDE DEF seal, S
  <2>5. /\ up' \in Seq(S) /\ m \in Nat /\ Len(up') = m + 1 /\ up'[m + 1] = seal
        /\ (\A j \in 1 .. m : up'[j] = up[j]) /\ up' # <<>>
      BY <2>1, <2>3, Entered
  <2>6. BenchTypeOK'
    <3>1. (bench.pc \in {"idle", "switch", "checks", "final", "freeze"} \cup Working \cup Ending)'
        BY <2>2 DEF Ending
    <3>2. (up \in Seq(Calls \cup [command : {"seal"}, seq : Nat, n : Nat]))' BY <2>5 DEF S, Calls
    <3> QED BY <1>1, <1>2, <1>3, <2>1, <2>2, <3>1, <3>2 DEF BenchTypeOK, Calls, Cases
  <2>7. RanOK' /\ AcksOK' /\ RecordedOK' /\ LedgerOK' BY <1>2, <1>3, <2>1, <2>2, CallsStay
  <2>8. KeeperOK'
    <3>1. AskedFor' = AskedFor BY <1>2 DEF AskedFor, Total
    <3>2. (bench.pc # "idle" => (keeper.pc = "listening" <=> ~bench.captured))'
        BY <1>2, <2>1, <2>2 DEF BenchInv, KeeperOK
    <3>3. (keeper.pc \in {"session", "sealed"} => keeper.events = [i \in 1 .. Len(keeper.events) |-> i])'
        BY <2>1 DEF BenchInv, KeeperOK
    <3>4. ASSUME keeper.pc = "session"
          PROVE (/\ keeper.expected = Len(keeper.events) + 1
                 /\ (\A j \in 1 .. Len(up) : up[j].command = "capture" => up[j].n = Len(keeper.events) + j)
                 /\ (\A j \in 1 .. Len(up) : up[j].command = "seal" =>
                      /\ j = Len(up) /\ up[j].seq = client + 1 /\ up[j].n = ledger.calls
                      /\ bench.pc \in {"sealing", "failed"})
                 /\ (AskedFor = Len(keeper.events) + Len(up)
                               - (IF up # <<>> /\ up[Len(up)].command = "seal" THEN 1 ELSE 0)))'
      <4>1. /\ keeper.expected = Len(keeper.events) + 1
            /\ \A j \in 1 .. m : up[j].command = "capture" => up[j].n = Len(keeper.events) + j
            /\ \A j \in 1 .. m : up[j].command # "seal"
            /\ AskedFor = Len(keeper.events) + m
                          - (IF up # <<>> /\ up[m].command = "seal" THEN 1 ELSE 0)
          BY <1>2, <3>4 DEF BenchInv, KeeperOK
      <4> DEFINE e == Len(keeper.events)
      <4>2. e \in Nat /\ (up # <<>> => m \in 1 .. m) BY <1>1, <2>3, Lists
      <4>3. AskedFor = e + m
        <5>1. ~(up # <<>> /\ up[m].command = "seal") BY <4>1, <4>2
        <5>2. AskedFor = e + m - 0 BY <4>1, <5>1
        <5> HIDE DEF e, m
        <5> QED BY <2>5, <4>2, <5>2
      <4>4. (keeper.expected = Len(keeper.events) + 1)' BY <2>1, <4>1
      <4>5. (\A j \in 1 .. Len(up) : up[j].command = "capture" => up[j].n = Len(keeper.events) + j)'
        <5> SUFFICES ASSUME NEW j \in 1 .. m + 1, up'[j].command = "capture"
                     PROVE up'[j].n = e + j
            BY <2>1, <2>5
        <5>1. j # m + 1 BY <2>4, <2>5
        <5>2. j \in 1 .. m BY <2>5, <5>1
        <5> QED BY <2>5, <4>1, <5>2
      <4>6. (\A j \in 1 .. Len(up) : up[j].command = "seal" =>
                      /\ j = Len(up) /\ up[j].seq = client + 1 /\ up[j].n = ledger.calls
                      /\ bench.pc \in {"sealing", "failed"})'
        <5> SUFFICES ASSUME NEW j \in 1 .. m + 1, up'[j].command = "seal"
                     PROVE j = m + 1 /\ up'[j].seq = client + 1 /\ up'[j].n = ledger.calls
            BY <1>2, <2>2, <2>5
        <5>1. CASE j \in 1 .. m BY <2>5, <4>1, <5>1
        <5>2. CASE j = m + 1 BY <2>4, <2>5, <5>2
        <5> QED BY <2>5, <5>1, <5>2
      <4>7. (AskedFor = Len(keeper.events) + Len(up)
                               - (IF up # <<>> /\ up[Len(up)].command = "seal" THEN 1 ELSE 0))'
        <5>1. up' # <<>> /\ up'[Len(up')].command = "seal" BY <2>4, <2>5
        <5>2. AskedFor' = e + (m + 1) - 1
          <6> HIDE DEF e, m
          <6> QED BY <2>5, <3>1, <4>2, <4>3
        <5> QED BY <2>1, <2>5, <5>1, <5>2
      <4> QED BY <4>4, <4>5, <4>6, <4>7
    <3>5. (keeper.pc # "sealed" /\ bench.pc # "idle")' /\ keeper' = keeper BY <1>4, <2>1, <2>2
    <3> QED BY <3>2, <3>3, <3>4, <3>5 DEF KeeperOK
  <2>9. EndOK'
    <3>1. bench.observed = [c \in Cases |-> c] /\ asked.counted = ledger.calls
        BY <1>2 DEF BenchInv, EndOK
    <3>2. (~(keeper.goldenAt >= 0))' BY <1>4, <2>1
    <3> QED BY <1>2, <1>6, <2>2, <3>1, <3>2 DEF EndOK
  <2> QED BY <2>6, <2>7, <2>8, <2>9 DEF BenchInv
<1>7. CASE ~Unfrozen /\ ~bench.captured
  <2>1. bench' = [bench EXCEPT !.pc = "score"] /\ up' = up
        /\ keeper' = [keeper EXCEPT !.goldenAt = Len(ran)]
      BY <1>7 DEF FreezeLedger
  <2>2. /\ DOMAIN bench' = DOMAIN bench /\ bench'.captured = bench.captured /\ bench'.call = bench.call
        /\ bench'.begun = bench.begun /\ bench'.acked = bench.acked /\ bench'.observed = bench.observed
        /\ bench'.failed = bench.failed /\ bench'.hash = bench.hash /\ bench'.at = bench.at
        /\ bench'.pc = "score"
      BY <1>1, <2>1 DEF BenchTypeOK
  <2>3. /\ DOMAIN keeper' = DOMAIN keeper /\ keeper'.pc = keeper.pc /\ keeper'.events = keeper.events
        /\ keeper'.expected = keeper.expected /\ keeper'.goldenAt = Len(ran)
      BY <1>1, <2>1 DEF BenchTypeOK
  <2>4. Len(ran) \in Nat BY <1>1, Lists
  <2>5. BenchTypeOK'
    <3>1. (bench.pc \in {"idle", "switch", "checks", "final", "freeze"} \cup Working \cup Ending)'
        BY <2>2 DEF Ending
    <3>2. keeper'.goldenAt \in Int BY <2>3, <2>4
    <3> QED BY <1>1, <1>2, <1>3, <2>1, <2>2, <2>3, <3>1, <3>2 DEF BenchTypeOK, Calls, Cases
  <2>6. RanOK' /\ AcksOK' /\ RecordedOK' /\ LedgerOK' BY <1>2, <1>3, <2>2, <2>3, CallsStay
  <2>7. keeper.pc = "listening" BY <1>2, <1>7 DEF BenchInv, KeeperOK
  <2>8. KeeperOK' BY <1>7, <2>2, <2>3, <2>7 DEF KeeperOK
  <2>9. EndOK'
    <3>1. bench.observed = [c \in Cases |-> c] /\ asked.counted = ledger.calls
        BY <1>2 DEF BenchInv, EndOK
    <3>2. keeper'.goldenAt >= 0 /\ keeper'.goldenAt = Len(ran') BY <1>2, <2>3, <2>4
    <3> QED BY <1>2, <1>7, <2>2, <3>1, <3>2 DEF EndOK, Ending
  <2> QED BY <2>5, <2>6, <2>8, <2>9 DEF BenchInv
<1> QED BY <1>5, <1>6, <1>7

\* The labels are released only for the seal's own answer; the report follows or does not.
LEMMA ReportKeeps ==
    ASSUME BenchInv, LabelsReleased \/ SealLost \/ \E written \in BOOLEAN : ScoreRun(written)
    PROVE BenchInv'
<1>1. BenchTypeOK BY DEF BenchInv
<1>2. /\ bench.pc \in {"sealing", "score"} /\ asked' = asked /\ ledger' = ledger /\ client' = client
      /\ up' = up /\ keeper' = keeper /\ ran' = ran
      /\ \E p \in {"score", "failed", "reported"} : bench' = [bench EXCEPT !.pc = p]
    BY DEF LabelsReleased, SealLost, ScoreRun
<1>3. bench.call = NoCall /\ ~bench.begun BY <1>1, <1>2 DEF BenchTypeOK, Working
<1>4. /\ DOMAIN bench' = DOMAIN bench /\ bench'.captured = bench.captured /\ bench'.call = bench.call
      /\ bench'.begun = bench.begun /\ bench'.acked = bench.acked /\ bench'.observed = bench.observed
      /\ bench'.failed = bench.failed /\ bench'.hash = bench.hash /\ bench'.at = bench.at
      /\ bench'.pc \in {"score", "failed", "reported"}
    BY <1>1, <1>2 DEF BenchTypeOK
<1>5. /\ bench'.pc = "score" => keeper.pc = "sealed"
      /\ bench'.pc = "reported" => bench.pc = "score"
      /\ down' = down \/ (bench.pc = "sealing" /\ down # <<>> /\ down' = Tail(down))
  <2>1. CASE LabelsReleased
    <3>1. bench.pc = "sealing" /\ down # <<>> /\ down' = Tail(down) BY <2>1 DEF LabelsReleased
    <3>2. bench'.pc \in {"score", "failed"} /\ (bench'.pc = "score" => Head(down).status = "sealed")
        BY <1>1, <2>1 DEF LabelsReleased, BenchTypeOK
    <3>3. bench.captured BY <3>1 DEF BenchInv, EndOK
    <3>4. keeper.pc # "sealed" => Head(down).status = "captured" BY <3>1, <3>3, NextAnswer
    <3> QED BY <3>1, <3>2, <3>4
  <2>2. CASE SealLost BY <1>1, <2>2 DEF SealLost, BenchTypeOK
  <2>3. CASE \E written \in BOOLEAN : ScoreRun(written) BY <1>1, <2>3 DEF ScoreRun, BenchTypeOK
  <2> QED BY <2>1, <2>2, <2>3
<1>6. BenchTypeOK'
  <2>1. (bench.pc \in {"idle", "switch", "checks", "final", "freeze"} \cup Working \cup Ending)'
      BY <1>4 DEF Ending
  <2>2. /\ bench'.begun \in BOOLEAN /\ bench'.acked \in BOOLEAN /\ bench'.failed \in BOOLEAN
        /\ bench'.hash \in Nat /\ bench'.at \in Cases /\ bench'.call = NoCall /\ ~bench'.begun
      BY <1>1, <1>3, <1>4 DEF BenchTypeOK
  <2>3. down' \in {down} \cup {Tail(down)} /\ (down' # down => down # <<>>) BY <1>5
  <2> QED BY <1>1, <1>2, <1>4, <2>1, <2>2, <2>3, RunnerTyped
<1>7. RanOK' /\ RecordedOK' /\ LedgerOK' /\ (down' = down => AcksOK')
      /\ AskedFor' = AskedFor /\ Waiting' = Waiting
    BY <1>2, <1>3, <1>4, CallsStay
<1>8. AcksOK'
  <2>1. CASE down' = down BY <1>7, <2>1
  <2>2. CASE bench.pc = "sealing" /\ down # <<>> /\ down' = Tail(down)
    <3>1. bench.captured BY <2>2 DEF BenchInv, EndOK
    <3>2. (client + Waiting <= AskedFor)' BY <1>2, <1>7, <3>1 DEF BenchInv, AcksOK
    <3>3. CASE keeper.pc = "sealed" BY <1>2, <3>2, <3>3 DEF AcksOK
    <3>4. CASE keeper.pc # "sealed"
      <4> DEFINE K == Len(keeper.events) - Len(down)
      <4>1. /\ K \in Int /\ client <= K /\ Len(keeper.events) - Len(Tail(down)) = K + 1
            /\ Tail(down) \in Seq([status : {"captured", "sealed"}, seq : Nat, n : Nat])
            /\ \A j \in 1 .. Len(Tail(down)) : /\ Tail(down)[j].status = "captured"
                                               /\ Tail(down)[j].n = K + 1 + j
          BY <2>2, <3>1, <3>4, NextAnswer
      <4>2. Waiting = 0 /\ client \in Nat /\ Len(keeper.events) \in Nat /\ AskedFor \in Nat
            /\ Len(keeper.events) <= AskedFor
          BY <1>1, <1>3, <3>1, Lists, CallTypes DEF Waiting, BenchInv, RecordedOK
      <4>3. Len(Tail(down)) \in Nat
        <5>1. Tail(down) \in Seq([status : {"captured", "sealed"}, seq : Nat, n : Nat]) BY <4>1
        <5> QED BY <5>1
      <4>4. K + 1 <= AskedFor
        <5> DEFINE t == Len(Tail(down))
                   e == Len(keeper.events)
        <5>1. e - t = K + 1 /\ t \in Nat /\ e \in Nat /\ e <= AskedFor BY <4>1, <4>2, <4>3
        <5> HIDE DEF t, e, K
        <5> QED BY <4>1, <4>2, <5>1
      <4> HIDE DEF K
      <4>5. client' <= Len(keeper'.events) - Len(down') BY <1>2, <2>2, <4>1, <4>2
      <4>6. Len(keeper'.events) - Len(down') <= AskedFor' - Waiting' BY <1>2, <1>7, <2>2, <4>1, <4>2, <4>4
      <4>7. (\A j \in 1 .. Len(down) : /\ down[j].status = "captured"
                                       /\ down[j].n = Len(keeper.events) - Len(down) + j)'
          BY <1>2, <2>2, <4>1
      <4> QED BY <3>2, <4>5, <4>6, <4>7 DEF AcksOK
    <3> QED BY <3>3, <3>4
  <2> QED BY <1>5, <2>1, <2>2
<1>9. KeeperOK'
  <2>1. bench.pc \in {"sealing", "failed"} /\ keeper.pc = "session" => bench'.pc \in {"sealing", "failed"}
      BY <1>2, <1>4, <1>5
  <2> QED BY <1>2, <1>4, <2>1, KeeperStays
<1>10. EndOK'
  <2>1. bench.observed = [c \in Cases |-> c] /\ asked.counted = ledger.calls
      BY <1>2 DEF BenchInv, EndOK
  <2>2. keeper.goldenAt >= 0 => keeper.goldenAt = Len(ran) BY DEF BenchInv, EndOK
  <2>3. bench'.pc \in {"score", "reported"} => keeper.goldenAt >= 0
      BY <1>2, <1>4, <1>5 DEF BenchInv, EndOK, KeeperOK
  <2>4. bench'.pc \in {"score", "reported"} /\ bench.captured => keeper.pc = "sealed"
      BY <1>2, <1>4, <1>5 DEF BenchInv, EndOK
  <2> QED BY <1>2, <1>4, <2>1, <2>2, <2>3, <2>4 DEF EndOK, Ending
<1> QED BY <1>6, <1>7, <1>8, <1>9, <1>10 DEF BenchInv

\* A step of the collector: the runner, its models, its ledger and its count stay.
LEMMA RunnerStays ==
    ASSUME BenchInv, keeper.pc = "session",
           UNCHANGED <<bench, asked, ledger, client, ran>>
    PROVE /\ RanOK' /\ LedgerOK' /\ AskedFor' = AskedFor /\ Waiting' = Waiting
          /\ bench.captured /\ bench.pc \notin {"idle", "score", "reported"}
          /\ (keeper'.pc \in {"session", "dead"} /\ keeper'.goldenAt = keeper.goldenAt) => EndOK'
          /\ keeper'.pc = "dead" => KeeperOK'
<1>1. AskedFor' = AskedFor /\ Waiting' = Waiting /\ UnderWay' = UnderWay
    BY DEF AskedFor, Total, Waiting, UnderWay
<1>2. RanOK' BY <1>1 DEF BenchInv, RanOK, Rising
<1>3. LedgerOK'
  <2>1. Whole' <=> Whole BY <1>1 DEF Whole
  <2>2. \A c : RanIn(c)' = RanIn(c) BY DEF RanIn
  <2>3. \A c \in Cases : /\ Listed(ledger.events[c])' = Listed(ledger.events[c])
                          /\ Rising(ledger.events[c])' <=> Rising(ledger.events[c])
      BY DEF Listed, Rising
  <2> QED BY <2>1, <2>2, <2>3 DEF BenchInv, LedgerOK
<1>4. bench.pc # "idle" /\ bench.captured BY DEF BenchInv, KeeperOK
<1>5. bench.pc \notin {"score", "reported"} BY <1>4 DEF BenchInv, EndOK
<1>6. ASSUME keeper'.pc \in {"session", "dead"}, keeper'.goldenAt = keeper.goldenAt PROVE EndOK'
    BY <1>5, <1>6 DEF BenchInv, EndOK
<1>7. ASSUME keeper'.pc = "dead" PROVE KeeperOK' BY <1>4, <1>7 DEF KeeperOK
<1> QED BY <1>1, <1>2, <1>3, <1>4, <1>5, <1>6, <1>7

\* The collector ends without evidence.
LEMMA KeeperDies ==
    ASSUME BenchInv, keeper.pc = "session", keeper' = [keeper EXCEPT !.pc = "dead"],
           UNCHANGED <<bench, asked, ledger, client, ran, down>>,
           up' = up \/ (up # <<>> /\ up' = Tail(up))
    PROVE BenchInv'
<1>1. BenchTypeOK BY DEF BenchInv
<1>2. /\ DOMAIN keeper' = DOMAIN keeper /\ keeper'.pc = "dead" /\ keeper'.events = keeper.events
      /\ keeper'.expected = keeper.expected /\ keeper'.goldenAt = keeper.goldenAt
    BY <1>1 DEF BenchTypeOK
<1> DEFINE S == Calls \cup [command : {"seal"}, seq : Nat, n : Nat]
<1>3. up' \in Seq(S)
  <2>1. up \in Seq(S) BY <1>1 DEF BenchTypeOK
  <2> HIDE DEF S
  <2> QED BY <2>1, FrameRead
<1>4. BenchTypeOK' BY <1>1, <1>2, <1>3 DEF BenchTypeOK, Calls, Cases
<1>5. /\ RanOK' /\ LedgerOK' /\ AskedFor' = AskedFor /\ Waiting' = Waiting
      /\ EndOK' /\ KeeperOK'
    BY <1>2, RunnerStays
<1>6. AcksOK' /\ RecordedOK' BY <1>2, <1>5 DEF BenchInv, AcksOK, RecordedOK
<1> QED BY <1>4, <1>5, <1>6 DEF BenchInv

\* A frame of the runner is read in its turn: its request recorded, the seal's evidence
\* written and the labels opened, or the collector ends.
LEMMA KeeperServesKeeps ==
    ASSUME BenchInv, KeeperServes
    PROVE BenchInv'
<1>1. BenchTypeOK BY DEF BenchInv
<1> DEFINE f == Head(up)
           S == Calls \cup [command : {"seal"}, seq : Nat, n : Nat]
           F == [status : {"captured", "sealed"}, seq : Nat, n : Nat]
           e == Len(keeper.events)
           d == Len(down)
           m == Len(up)
<1>2. /\ keeper.pc = "session" /\ up # <<>> /\ up' = Tail(up)
      /\ bench' = bench /\ asked' = asked /\ ledger' = ledger /\ client' = client /\ ran' = ran
      /\ \/ f.command = "capture" /\ Captured(f)
         \/ f.command = "seal" /\ Sealable(f) /\ Sealed(f)
         \/ keeper' = [keeper EXCEPT !.pc = "dead"] /\ down' = down
    BY DEF KeeperServes
<1>3. CASE keeper' = [keeper EXCEPT !.pc = "dead"] /\ down' = down BY <1>2, <1>3, KeeperDies
<1>4. up \in Seq(S) /\ down \in Seq(F) /\ keeper.events \in Seq(Nat)
      /\ e \in Nat /\ d \in Nat /\ client \in Nat
  <2>1. up \in Seq(S) BY <1>1 DEF BenchTypeOK
  <2> QED BY <1>1, <2>1, Lists
<1> HIDE DEF S, F
<1>5. /\ m \in Nat \ {0} /\ up' \in Seq(S) /\ Len(up') = m - 1 /\ f = up[1] /\ f \in S /\ 1 \in 1 .. m
      /\ \A j \in 1 .. m - 1 : up'[j] = up[j + 1] /\ j + 1 \in 1 .. m
    BY <1>2, <1>4, FrameRead
<1>6. /\ keeper.expected = e + 1
      /\ \A j \in 1 .. m : up[j].command = "capture" => up[j].n = e + j
      /\ \A j \in 1 .. m : up[j].command = "seal" =>
           /\ j = m /\ up[j].seq = client + 1 /\ up[j].n = ledger.calls
           /\ bench.pc \in {"sealing", "failed"}
      /\ AskedFor = e + m - (IF up # <<>> /\ up[m].command = "seal" THEN 1 ELSE 0)
      /\ keeper.events = [i \in 1 .. e |-> i]
    BY <1>2 DEF BenchInv, KeeperOK
<1>7. /\ client + Waiting <= AskedFor
      /\ client <= e - d /\ e - d <= AskedFor - Waiting
      /\ \A j \in 1 .. d : down[j].status = "captured" /\ down[j].n = e - d + j
    BY <1>2, RunnerStays DEF BenchInv, AcksOK
<1>8. CASE f.command = "capture" /\ Captured(f)
  <2> DEFINE g == [status |-> "captured", seq |-> f.seq, n |-> f.n]
  <2>1. keeper' = [keeper EXCEPT !.events = Append(@, f.n), !.expected = @ + 1,
                                 !.ordinals[f.kind] = f.ordinal]
        /\ down' = Append(down, g)
      BY <1>8 DEF Captured
  <2>2. /\ DOMAIN keeper' = DOMAIN keeper /\ keeper'.pc = "session"
        /\ keeper'.events = Append(keeper.events, f.n) /\ keeper'.expected = e + 1 + 1
        /\ keeper'.goldenAt = keeper.goldenAt
      BY <1>1, <1>2, <1>6, <2>1 DEF BenchTypeOK
  <2>3. f.n = e + 1 /\ f.seq \in Nat /\ f.n \in Nat
    <3>1. f.n = e + 1 BY <1>5, <1>6, <1>8
    <3>2. f.seq \in Nat BY <1>5 DEF S, Calls
    <3> HIDE DEF f, e
    <3> QED BY <1>4, <3>1, <3>2
  <2>4. /\ keeper'.events \in Seq(Nat) /\ Len(keeper'.events) = e + 1
        /\ keeper'.events[e + 1] = e + 1 /\ DOMAIN keeper'.events = 1 .. e + 1
        /\ \A i \in 1 .. e : keeper'.events[i] = i
    <3>1. /\ keeper'.events \in Seq(Nat) /\ Len(keeper'.events) = e + 1
          /\ keeper'.events[e + 1] = f.n /\ DOMAIN keeper'.events = 1 .. e + 1
          /\ \A i \in 1 .. e : keeper'.events[i] = keeper.events[i]
        BY <1>4, <2>2, <2>3, Entered
    <3>2. \A i \in 1 .. e : keeper.events[i] = i BY <1>6
    <3> QED BY <2>3, <3>1, <3>2
  <2>5. g \in F /\ g.status = "captured" /\ g.n = e + 1 BY <2>3 DEF F
  <2> HIDE DEF g
  <2>6. /\ down' \in Seq(F) /\ Len(down') = d + 1 /\ down'[d + 1] = g
        /\ \A j \in 1 .. d : down'[j] = down[j]
      BY <1>4, <2>1, <2>5, Entered
  <2>7. BenchTypeOK'
    <3>1. keeper'.expected \in Nat /\ keeper'.goldenAt \in Int
      <4>1. keeper.goldenAt \in Int BY <1>1 DEF BenchTypeOK
      <4> QED BY <1>4, <2>2, <4>1
    <3>2. (up \in Seq(Calls \cup [command : {"seal"}, seq : Nat, n : Nat]))' BY <1>5 DEF S, Calls
    <3>3. (down \in Seq([status : {"captured", "sealed"}, seq : Nat, n : Nat]))' BY <2>6 DEF F
    <3> HIDE DEF e, d, m, f
    <3> QED BY <1>1, <1>2, <2>2, <2>4, <3>1, <3>2, <3>3 DEF BenchTypeOK, Calls, Cases
  <2>8. /\ RanOK' /\ LedgerOK' /\ EndOK' /\ AskedFor' = AskedFor /\ Waiting' = Waiting
        /\ bench.captured /\ bench.pc # "idle"
      BY <1>2, <2>2, RunnerStays
  <2>9. ~(m = 1 /\ up[m].command = "seal") BY <1>5, <1>8
  <2>10. AskedFor = e + m - (IF up[m].command = "seal" THEN 1 ELSE 0) BY <1>2, <1>6
  <2>11. AskedFor \in Nat /\ e + 1 <= AskedFor
    <3>1. AskedFor \in Nat BY <1>1, CallTypes
    <3>2. CASE m = 1
      <4>1. up[m].command # "seal" BY <2>9, <3>2
      <4>2. AskedFor = e + m - 0 BY <2>10, <4>1
      <4> HIDE DEF e, m
      <4> QED BY <1>4, <3>1, <3>2, <4>2
    <3>3. CASE m # 1
      <4>1. \E x \in {0, 1} : AskedFor = e + m - x BY <2>10
      <4> HIDE DEF e, m
      <4> QED BY <1>4, <1>5, <3>1, <3>3, <4>1
    <3> QED BY <3>2, <3>3
  <2>12. RecordedOK' BY <2>4, <2>8, <2>11 DEF RecordedOK
  <2>13. AcksOK'
    <3>1. (client + Waiting <= AskedFor)' BY <1>2, <1>7, <2>8
    <3>2. Len(keeper'.events) - Len(down') = e - d
      <4>1. Len(keeper'.events) = e + 1 /\ Len(down') = d + 1 BY <2>4, <2>6
      <4> HIDE DEF e, d
      <4> QED BY <1>4, <4>1
    <3>3. ASSUME NEW j \in 1 .. d + 1
          PROVE down'[j].status = "captured" /\ down'[j].n = e - d + j
      <4>1. CASE j \in 1 .. d BY <1>7, <2>6, <4>1
      <4>2. CASE j = d + 1
        <5>1. down'[j].status = "captured" /\ down'[j].n = e + 1 BY <2>5, <2>6, <4>2
        <5>2. e - d + j = e + 1
          <6> HIDE DEF e, d
          <6> QED BY <1>4, <4>2
        <5> QED BY <5>1, <5>2
      <4> HIDE DEF d
      <4> QED BY <1>4, <4>1, <4>2
    <3>4. (\A j \in 1 .. Len(down) : /\ down[j].status = "captured"
                                     /\ down[j].n = Len(keeper.events) - Len(down) + j)'
        BY <2>6, <3>2, <3>3
    <3>5. (client <= Len(keeper.events) - Len(down))' BY <1>2, <1>7, <3>2
    <3>6. (Len(keeper.events) - Len(down) <= AskedFor - Waiting)' BY <1>7, <2>8, <3>2
    <3> QED BY <3>1, <3>4, <3>5, <3>6 DEF AcksOK
  <2>14. KeeperOK'
    <3>1. (keeper.events = [i \in 1 .. Len(keeper.events) |-> i])'
      <4> DEFINE k == keeper'.events
      <4>1. k \in Seq(Nat) /\ Len(k) = e + 1 /\ DOMAIN k = 1 .. e + 1 BY <2>4
      <4>2. \A i \in 1 .. e + 1 : k[i] = i
        <5> SUFFICES ASSUME NEW i \in 1 .. e + 1 PROVE k[i] = i OBVIOUS
        <5>1. i = e + 1 \/ i \in 1 .. e BY <1>4
        <5> QED BY <2>4, <5>1
      <4> HIDE DEF k
      <4>3. k = [i \in 1 .. Len(k) |-> i] BY <4>1, <4>2
      <4> QED BY <4>3 DEF k
    <3>2. keeper'.expected = Len(keeper'.events) + 1 BY <2>2, <2>4
    <3>3. (\A j \in 1 .. Len(up) : up[j].command = "capture" => up[j].n = Len(keeper.events) + j)'
      <4> SUFFICES ASSUME NEW j \in 1 .. m - 1, up'[j].command = "capture" PROVE up'[j].n = e + 1 + j
          BY <1>5, <2>4
      <4>1. up'[j] = up[j + 1] /\ j + 1 \in 1 .. m BY <1>5
      <4>2. up[j + 1].n = e + (j + 1) BY <1>6, <4>1
      <4>3. e + (j + 1) = e + 1 + j
        <5> j \in Int BY <1>5
        <5> HIDE DEF e
        <5> QED BY <1>4
      <4> QED BY <4>1, <4>2, <4>3
    <3>4. (\A j \in 1 .. Len(up) : up[j].command = "seal" =>
             /\ j = Len(up) /\ up[j].seq = client + 1 /\ up[j].n = ledger.calls
             /\ bench.pc \in {"sealing", "failed"})'
      <4> SUFFICES ASSUME NEW j \in 1 .. m - 1, up'[j].command = "seal"
                   PROVE j = m - 1 /\ up'[j].seq = client + 1 /\ up'[j].n = ledger.calls
                         /\ bench.pc \in {"sealing", "failed"}
          BY <1>2, <1>5
      <4>1. up'[j] = up[j + 1] /\ j + 1 \in 1 .. m BY <1>5
      <4>2. j + 1 = m /\ up[j + 1].seq = client + 1 /\ up[j + 1].n = ledger.calls
            /\ bench.pc \in {"sealing", "failed"}
          BY <1>6, <4>1
      <4>3. j = m - 1
        <5> HIDE DEF m
        <5> QED BY <1>5, <4>2
      <4> QED BY <4>1, <4>2, <4>3
    <3>5. (AskedFor = Len(keeper.events) + Len(up)
                - (IF up # <<>> /\ up[Len(up)].command = "seal" THEN 1 ELSE 0))'
      <4>1. Len(keeper'.events) = e + 1 /\ Len(up') = m - 1 BY <1>5, <2>4
      <4>2. CASE m = 1
        <5>1. up' = <<>>
          <6>1. Len(up') = 0 BY <4>1, <4>2
          <6> QED BY <1>5, <6>1
        <5>2. up[m].command # "seal" BY <2>9, <4>2
        <5>3. AskedFor = e + m - 0 BY <2>10, <5>2
        <5>4. AskedFor = e + 1 + (m - 1) - 0
          <6> HIDE DEF e, m
          <6> QED BY <1>4, <1>5, <2>11, <5>3
        <5> QED BY <2>8, <4>1, <5>1, <5>4
      <4>3. CASE m # 1
        <5>1. m - 1 \in 1 .. m - 1
          <6> HIDE DEF m
          <6> QED BY <1>5, <4>3
        <5>2. up' # <<>>
          <6>1. Len(up') # 0
            <7> HIDE DEF m
            <7> QED BY <1>5, <4>1, <4>3
          <6> QED BY <6>1
        <5>3. up'[m - 1] = up[m - 1 + 1] /\ m - 1 + 1 = m BY <1>5, <5>1
        <5>4. up'[Len(up')].command = up[m].command BY <4>1, <5>3
        <5> DEFINE x == IF up[m].command = "seal" THEN 1 ELSE 0
        <5>5. x \in {0, 1} /\ AskedFor = e + m - x BY <2>10
        <5>6. (IF up' # <<>> /\ up'[Len(up')].command = "seal" THEN 1 ELSE 0) = x BY <5>2, <5>4
        <5> HIDE DEF x
        <5>7. AskedFor = e + 1 + (m - 1) - x
          <6> HIDE DEF e, m
          <6> QED BY <1>4, <1>5, <5>5
        <5> QED BY <2>8, <4>1, <5>6, <5>7
      <4> QED BY <4>2, <4>3
    <3> QED BY <1>2, <2>2, <2>8, <3>1, <3>2, <3>3, <3>4, <3>5 DEF KeeperOK
  <2> QED BY <2>7, <2>8, <2>12, <2>13, <2>14 DEF BenchInv
<1>9. CASE f.command = "seal" /\ Sealable(f) /\ Sealed(f)
  <2> DEFINE g == [status |-> "sealed", seq |-> f.seq, n |-> f.n]
  <2>1. keeper' = [keeper EXCEPT !.pc = "sealed", !.evidence = TRUE, !.goldenAt = Len(ran)]
        /\ down' = Append(down, g)
      BY <1>9 DEF Sealed
  <2>2. /\ DOMAIN keeper' = DOMAIN keeper /\ keeper'.pc = "sealed" /\ keeper'.evidence = TRUE
        /\ keeper'.events = keeper.events /\ keeper'.expected = keeper.expected
        /\ keeper'.goldenAt = Len(ran)
      BY <1>1, <2>1 DEF BenchTypeOK
  <2>3. Len(ran) \in Nat BY <1>1, Lists
  <2>4. f.seq \in Nat /\ f.n \in Nat BY <1>5 DEF S, Calls
  <2>5. down' \in Seq(F)
    <3>1. g \in F BY <2>4 DEF F
    <3> HIDE DEF g
    <3> QED BY <1>4, <2>1, <3>1
  <2>6. BenchTypeOK'
    <3>1. keeper'.goldenAt \in Int BY <2>2, <2>3
    <3>2. (up \in Seq(Calls \cup [command : {"seal"}, seq : Nat, n : Nat]))' BY <1>5 DEF S, Calls
    <3>3. (down \in Seq([status : {"captured", "sealed"}, seq : Nat, n : Nat]))' BY <2>5 DEF F
    <3> HIDE DEF e, d, m, f
    <3> QED BY <1>1, <1>2, <2>2, <3>1, <3>2, <3>3 DEF BenchTypeOK, Calls, Cases
  <2>7. /\ RanOK' /\ LedgerOK' /\ AskedFor' = AskedFor /\ Waiting' = Waiting
        /\ bench.captured /\ bench.pc \notin {"idle", "score", "reported"}
      BY <1>2, RunnerStays
  <2>8. /\ 1 = m /\ f.seq = client + 1 /\ f.n = ledger.calls /\ bench.pc \in {"sealing", "failed"}
      BY <1>5, <1>6, <1>9
  <2>9. f.seq = e + 1 /\ f.n = e BY <1>6, <1>9 DEF Sealable
  <2>10. client = e /\ ledger.calls = e /\ AskedFor = e
    <3>1. AskedFor = e + m - 1
      <4>1. up[m].command = "seal" BY <1>5, <1>9, <2>8
      <4> QED BY <1>2, <1>6, <4>1
    <3>2. client + 1 = e + 1 /\ ledger.calls = e BY <2>8, <2>9
    <3> HIDE DEF e, m
    <3> QED BY <1>4, <2>8, <3>1, <3>2
  <2>11. RecordedOK' BY <2>2, <2>7 DEF BenchInv, RecordedOK
  <2>12. AcksOK' BY <1>2, <1>7, <2>2, <2>7 DEF AcksOK
  <2>13. KeeperOK'
    <3>1. (keeper.events = [i \in 1 .. Len(keeper.events) |-> i])' BY <1>6, <2>2
    <3>2. (/\ Len(keeper.events) = AskedFor /\ client = AskedFor /\ ledger.calls = AskedFor
           /\ keeper.evidence /\ keeper.goldenAt >= 0)'
        BY <1>2, <2>2, <2>3, <2>7, <2>10
    <3> QED BY <1>2, <2>2, <2>7, <3>1, <3>2 DEF KeeperOK
  <2>14. EndOK'
    <3>1. bench.pc \in Ending BY <2>8 DEF Ending
    <3>2. (keeper.goldenAt >= 0 => bench.pc \in Ending /\ keeper.goldenAt = Len(ran))' BY <1>2, <2>2, <3>1
    <3> QED BY <1>2, <2>7, <2>8, <3>2 DEF BenchInv, EndOK
  <2> QED BY <2>6, <2>7, <2>11, <2>12, <2>13, <2>14 DEF BenchInv
<1> QED BY <1>2, <1>3, <1>8, <1>9

\* The run begins.
LEMMA AdmitPackKeeps ==
    ASSUME BenchInv, NEW captured \in BOOLEAN, AdmitPack(captured)
    PROVE BenchInv'
<1>1. BenchTypeOK BY DEF BenchInv
<1>2. /\ bench.pc = "idle" /\ ledger' = ledger /\ client' = client /\ up' = up /\ down' = down
      /\ ran' = ran
      /\ bench' = [bench EXCEPT !.pc = "retrieve", !.captured = captured]
      /\ asked' = [asked EXCEPT !.embedding = "loaded", !.generation = "deferred"]
      /\ keeper' = [keeper EXCEPT !.pc = IF captured THEN "session" ELSE @]
    BY DEF AdmitPack
<1>3. /\ keeper.pc = "listening" /\ keeper.events = <<>> /\ keeper.expected = 1
      /\ up = <<>> /\ down = <<>> /\ client = 0 /\ AskedFor = 0 /\ ~bench.captured
    BY <1>2 DEF BenchInv, KeeperOK
<1>4. bench.call = NoCall /\ ~bench.begun BY <1>1, <1>2 DEF BenchTypeOK, Working
<1>5. /\ DOMAIN bench' = DOMAIN bench /\ bench'.captured = captured /\ bench'.call = bench.call
      /\ bench'.begun = bench.begun /\ bench'.acked = bench.acked /\ bench'.observed = bench.observed
      /\ bench'.failed = bench.failed /\ bench'.hash = bench.hash /\ bench'.at = bench.at
      /\ bench'.pc = "retrieve"
      /\ DOMAIN asked' = DOMAIN asked /\ asked'.ordinals = asked.ordinals
      /\ asked'.counted = asked.counted
      /\ DOMAIN keeper' = DOMAIN keeper /\ keeper'.pc = (IF captured THEN "session" ELSE "listening")
      /\ keeper'.events = keeper.events /\ keeper'.expected = keeper.expected
      /\ keeper'.goldenAt = keeper.goldenAt
    BY <1>1, <1>2, <1>3 DEF BenchTypeOK
<1>6. BenchTypeOK'
  <2>1. (bench.pc \in {"idle", "switch", "checks", "final", "freeze"} \cup Working \cup Ending)'
      BY <1>5 DEF Working
  <2> QED BY <1>1, <1>2, <1>4, <1>5, <2>1 DEF BenchTypeOK, Calls, Cases
<1>7. AskedFor' = AskedFor /\ UnderWay' = 0 /\ UnderWay = 0 /\ Waiting' = 0
    BY <1>4, <1>5 DEF AskedFor, Total, UnderWay, Waiting
<1>8. RanOK' BY <1>2, <1>4, <1>5, <1>7 DEF BenchInv, RanOK, Rising
<1>9. AcksOK' BY <1>2, <1>3, <1>5, <1>7 DEF AcksOK
<1>10. RecordedOK' BY <1>3, <1>5, <1>7 DEF RecordedOK
<1>11. LedgerOK'
  <2>1. \A c \in Cases : Listed(ledger.events[c]) = RanIn(c) /\ Rising(ledger.events[c])
      BY <1>3 DEF BenchInv, LedgerOK, Whole
  <2>2. \A c : RanIn(c)' = RanIn(c) BY <1>2 DEF RanIn
  <2>3. \A c \in Cases : /\ Listed(ledger.events[c])' = Listed(ledger.events[c])
                          /\ Rising(ledger.events[c])' <=> Rising(ledger.events[c])
      BY <1>2 DEF Listed, Rising
  <2> QED BY <1>4, <1>5, <2>1, <2>2, <2>3 DEF LedgerOK
<1>12. KeeperOK'
  <2>1. keeper'.events = <<>> /\ up' = <<>> /\ AskedFor' = 0 BY <1>2, <1>3, <1>5, <1>7
  <2>2. (keeper.events = [i \in 1 .. Len(keeper.events) |-> i])' BY <2>1
  <2>3. keeper'.expected = Len(keeper'.events) + 1 /\ Len(up') = 0 BY <1>3, <1>5, <2>1
  <2>4. (AskedFor = Len(keeper.events) + Len(up)
            - (IF up # <<>> /\ up[Len(up)].command = "seal" THEN 1 ELSE 0))'
      BY <2>1, <2>3
  <2>5. keeper'.pc \in {"session", "listening"} /\ (keeper'.pc = "listening" <=> ~bench'.captured)
        /\ bench'.pc # "idle"
      BY <1>5
  <2>6. \A j \in 1 .. Len(up') : FALSE BY <2>3
  <2> QED BY <2>2, <2>3, <2>4, <2>5, <2>6 DEF KeeperOK
<1>13. EndOK'
  <2>1. ~(keeper.goldenAt >= 0) /\ bench.observed = <<>> BY <1>2 DEF BenchInv, EndOK, Ending
  <2> QED BY <1>5, <2>1 DEF EndOK, Ending
<1> QED BY <1>6, <1>8, <1>9, <1>10, <1>11, <1>12, <1>13 DEF BenchInv

\* Nothing the property looks at moves.
LEMMA BenchStays ==
    ASSUME BenchInv, UNCHANGED <<bench, asked, ledger, client, up, down, keeper, ran>>
    PROVE BenchInv'
<1>1. AskedFor' = AskedFor /\ UnderWay' = UnderWay /\ Waiting' = Waiting
    BY DEF AskedFor, Total, UnderWay, Waiting
<1>2. BenchTypeOK' BY DEF BenchInv, BenchTypeOK, Calls, Cases
<1>3. RanOK' /\ RecordedOK' /\ LedgerOK' /\ AcksOK' BY CallsStay
<1>4. KeeperOK'
  <2>1. KeeperOK BY DEF BenchInv
  <2> QED BY <1>1, <2>1 DEF KeeperOK
<1>5. EndOK' BY DEF BenchInv, EndOK
<1> QED BY <1>2, <1>3, <1>4, <1>5 DEF BenchInv

\* Every step keeps the invariant.
LEMMA BenchStep == BenchInv /\ [BenchNext]_benchVars => BenchInv'
<1> SUFFICES ASSUME BenchInv, [BenchNext]_benchVars PROVE BenchInv' OBVIOUS
<1>1. CASE \E captured \in BOOLEAN : AdmitPack(captured) BY <1>1, AdmitPackKeeps
<1>2. CASE SelectCase BY <1>2, SelectCaseKeeps
<1>3. CASE CallModel BY <1>3, CallModelKeeps
<1>4. CASE CaptureAcked \/ CaptureLost BY <1>4, CaptureKeeps
<1>5. CASE \E runs \in BOOLEAN : ObserveCall(runs) BY <1>5, ObserveCallKeeps
<1>6. CASE EndCase BY <1>6, EndCaseKeeps
<1>7. CASE SwitchModels \/ CheckRun \/ CleanUp BY <1>7, RunnerGoesOn
<1>8. CASE FreezeLedger BY <1>8, FreezeLedgerKeeps
<1>9. CASE LabelsReleased \/ SealLost \/ \E written \in BOOLEAN : ScoreRun(written)
    BY <1>9, ReportKeeps
<1>10. CASE KeeperServes BY <1>10, KeeperServesKeeps
<1>11. CASE KeeperLoses
  <2>1. /\ keeper.pc = "session" /\ keeper' = [keeper EXCEPT !.pc = "dead"]
        /\ UNCHANGED <<bench, asked, ledger, client, ran, down>> /\ up' = up
      BY <1>11 DEF KeeperLoses
  <2> QED BY <2>1, KeeperDies
<1>12. CASE PackEdited \/ MinutePasses \/ UNCHANGED benchVars
  <2>1. UNCHANGED <<bench, asked, ledger, client, up, down, keeper, ran>>
      BY <1>12 DEF PackEdited, MinutePasses, benchVars
  <2> QED BY <2>1, BenchStays
<1> QED BY <1>1, <1>2, <1>3, <1>4, <1>5, <1>6, <1>7, <1>8, <1>9, <1>10, <1>11, <1>12 DEF BenchNext

\* It holds at first.
LEMMA BenchStart == BenchInit => BenchInv
<1> SUFFICES ASSUME BenchInit PROVE BenchInv OBVIOUS
<1>1. /\ DOMAIN bench = {"pc", "captured", "at", "begun", "calls", "call", "acked", "hash", "spent",
                         "handles", "observed", "failed"}
      /\ bench.pc = "idle" /\ ~bench.captured /\ bench.captured \in BOOLEAN /\ bench.at = 1
      /\ ~bench.begun /\ bench.begun \in BOOLEAN /\ bench.call = NoCall /\ bench.acked \in BOOLEAN
      /\ bench.failed \in BOOLEAN /\ bench.hash = 0 /\ bench.observed = <<>>
    BY DEF BenchInit
<1>2. /\ DOMAIN asked = {"embedding", "generation", "ordinals", "counted"} /\ asked.counted = 0
      /\ asked.ordinals = [k \in {"embedding", "generation"} |-> 0]
      /\ DOMAIN ledger = {"closed", "active", "calls", "events"} /\ ledger.calls = 0
      /\ ledger.events = [c \in Cases |-> <<>>]
      /\ client = 0 /\ up = <<>> /\ down = <<>> /\ ran = <<>>
    BY DEF BenchInit
<1>3. /\ DOMAIN keeper = {"pc", "expected", "events", "evidence", "ordinals", "goldenAt"}
      /\ keeper.pc = "listening" /\ keeper.expected = 1 /\ keeper.events = <<>>
      /\ keeper.goldenAt = -1
    BY DEF BenchInit
<1>4. 1 \in Cases BY BenchmarkAssumption DEF Cases
<1>5. BenchTypeOK
  <2>1. <<>> \in Seq(Nat) /\ <<>> \in Seq([n : Nat, case : Cases])
        /\ <<>> \in Seq(Calls \cup [command : {"seal"}, seq : Nat, n : Nat])
        /\ <<>> \in Seq([status : {"captured", "sealed"}, seq : Nat, n : Nat])
      OBVIOUS
  <2>2. asked.ordinals \in [{"embedding", "generation"} -> Nat] /\ ledger.events \in [Cases -> Seq(Nat)]
      BY <1>2, <2>1
  <2> QED BY <1>1, <1>2, <1>3, <1>4, <2>1, <2>2 DEF BenchTypeOK
<1>6. AskedFor = 0 /\ UnderWay = 0 /\ Waiting = 0
    BY <1>1, <1>2 DEF AskedFor, Total, UnderWay, Waiting
<1>7. RanOK BY <1>1, <1>2, <1>6 DEF RanOK, Rising
<1>8. AcksOK /\ RecordedOK BY <1>1 DEF AcksOK, RecordedOK
<1>9. LedgerOK
  <2>1. \A c \in Cases : Listed(ledger.events[c]) = RanIn(c) /\ Rising(ledger.events[c])
    <3>1. \A c \in Cases : ledger.events[c] = <<>> BY <1>2
    <3>2. Listed(<<>>) = {} /\ Rising(<<>>) BY DEF Listed, Rising
    <3>3. \A c : RanIn(c) = {} BY <1>2 DEF RanIn
    <3> QED BY <3>1, <3>2, <3>3
  <2> QED BY <1>1, <2>1 DEF LedgerOK
<1>10. KeeperOK BY <1>1, <1>2, <1>3, <1>6 DEF KeeperOK
<1>11. EndOK BY <1>1, <1>3 DEF EndOK
<1> QED BY <1>5, <1>7, <1>8, <1>9, <1>10, <1>11 DEF BenchInv

\* A report and opened labels, from the invariant.
LEMMA ReportFollows == BenchInv => ReportBacked
<1> SUFFICES ASSUME BenchInv PROVE ReportBacked OBVIOUS
<1>1. BenchTypeOK BY DEF BenchInv
<1>2. keeper.goldenAt >= 0 => Len(ran) = keeper.goldenAt BY DEF BenchInv, EndOK
<1>3. ASSUME bench.pc = "reported"
      PROVE /\ keeper.goldenAt >= 0
            /\ bench.observed = [c \in Cases |-> c]
            /\ Rising([i \in DOMAIN ran |-> ran[i].n])
            /\ \A c \in Cases : Listed(ledger.events[c]) = RanIn(c) /\ Rising(ledger.events[c])
            /\ bench.captured => keeper.events = [i \in DOMAIN ran |-> ran[i].n] /\ keeper.evidence
  <2>1. /\ keeper.goldenAt >= 0 /\ bench.observed = [c \in Cases |-> c]
        /\ asked.counted = ledger.calls /\ (bench.captured => keeper.pc = "sealed")
      BY <1>3 DEF BenchInv, EndOK
  <2>2. bench.call = NoCall BY <1>1, <1>3 DEF BenchTypeOK, Working
  <2>3. Waiting = 0 /\ UnderWay = 0 BY <2>2 DEF Waiting, UnderWay
  <2>4. Whole BY <1>1, <2>1, <2>3, Lists DEF BenchInv, KeeperOK, Whole
  <2>5. \A c \in Cases : Listed(ledger.events[c]) = RanIn(c) /\ Rising(ledger.events[c])
      BY <2>4 DEF BenchInv, LedgerOK
  <2>6. Rising([i \in DOMAIN ran |-> ran[i].n]) BY DEF BenchInv, RanOK
  <2>7. ASSUME bench.captured
        PROVE keeper.events = [i \in DOMAIN ran |-> ran[i].n] /\ keeper.evidence
    <3> DEFINE L == Len(ran)
    <3>1. /\ keeper.evidence /\ Len(keeper.events) = AskedFor /\ ledger.calls = AskedFor
          /\ keeper.events = [i \in 1 .. Len(keeper.events) |-> i]
        BY <2>1, <2>7 DEF BenchInv, KeeperOK
    <3>2. /\ asked.counted = L
          /\ \A i \in 1 .. L : i <= ran[i].n /\ L - i <= AskedFor - 0 - ran[i].n
        BY <2>3 DEF BenchInv, RanOK
    <3>3. L = AskedFor /\ L \in Nat /\ DOMAIN ran = 1 .. L /\ \A i \in 1 .. L : ran[i].n \in Nat
        BY <1>1, <2>1, <3>1, <3>2, Lists
    <3>4. ASSUME NEW i \in 1 .. L PROVE ran[i].n = i
      <4>1. i <= ran[i].n /\ L - i <= L - 0 - ran[i].n /\ ran[i].n \in Nat BY <3>2, <3>3
      <4> HIDE DEF L
      <4> QED BY <3>3, <4>1
    <3>5. keeper.events = [i \in 1 .. L |-> i] BY <3>1, <3>3
    <3>6. [i \in DOMAIN ran |-> ran[i].n] = [i \in 1 .. L |-> i] BY <3>3, <3>4
    <3> QED BY <3>1, <3>5, <3>6
  <2> QED BY <2>1, <2>5, <2>6, <2>7
<1> QED BY <1>2, <1>3 DEF ReportBacked

\* For every pack, number of requests and time limit: nothing runs on a model once the golden
\* labels are open, and a report lists exactly what ran, as the runner's ledger and, with a
\* collector, the collector recorded it.
THEOREM ReportsBacked == BenchSpec => []ReportBacked
<1>1. BenchInit => BenchInv BY BenchStart
<1>2. BenchInv /\ [BenchNext]_benchVars => BenchInv' BY BenchStep
<1>3. BenchInv => ReportBacked BY ReportFollows
<1> QED BY <1>1, <1>2, <1>3, PTL DEF BenchSpec

==============================================================================
