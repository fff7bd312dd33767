---------------------------- MODULE DocumentProofs ----------------------------
(***************************************************************************)
(* Proofs about RepositoryScan, for any paths, rules, contents and limits, *)
(* any number of requests and of edits; about AnswerTurn, for any          *)
(* documents, versions, chunks, budgets, replies and changes; and about    *)
(* Chunking, for any lines and budgets: what each parser and each chunker  *)
(* returns, lemma by lemma, and what the chunks of a file hold together.   *)
(***************************************************************************)
EXTENDS RepositoryScan, AnswerTurn, Chunking, ListingProofs

-----------------------------------------------------------------------------
(***************************************************************************)
(* Orders and rules                                                        *)
(***************************************************************************)

\* The two orders list each path once.
LEMMA OrdersList ==
    ASSUME NEW order \in {WalkOrder, PathOrder}
    PROVE /\ order \in Seq(Files) /\ Len(order) >= 1
          /\ \A p \in Files : \E i \in DOMAIN order : order[i] = p
          /\ \A i, j \in DOMAIN order : order[i] = order[j] => i = j
<1> DEFINE n == Len(order)
<1>1. /\ order \in Seq(Files) /\ {order[i] : i \in DOMAIN order} = Files
      /\ n = Cardinality(Files)
    BY ScanAssumption
<1>2. n \in Nat /\ DOMAIN order = 1 .. n /\ order \in [1 .. n -> Files] BY <1>1
<1>3. \A p \in Files : \E i \in 1 .. n : order[i] = p BY <1>1, <1>2
<1>4. n >= 1 BY <1>2, <1>3, ScanAssumption
<1>5. order \in Surjection(1 .. n, Files) BY <1>2, <1>3 DEF Surjection
<1>6. IsFiniteSet(1 .. n) /\ Cardinality(1 .. n) = n BY <1>2, <1>4, FS_Interval
<1>7. order \in Injection(1 .. n, Files)
    BY <1>1, <1>5, <1>6, FS_SurjSameCardinalityImpliesInj
<1> QED BY <1>1, <1>2, <1>3, <1>4, <1>7 DEF Injection, IsInjective

\* IsIgnored, which asks the first layer with a word on the path for its last one,
\* is the documented precedence.
LEMMA SparedIsNotIgnored ==
    ASSUME NEW layers \in [1 .. 4 -> Seq(Rules)], NEW x
    PROVE Spared(layers, x) <=> ~IsIgnored(layers, x)
<1> DEFINE Deciding == {i \in DOMAIN layers : Matching(layers[i], x) # {}}
<1>1. \A i \in DOMAIN layers : \A j : j \in Matching(layers[i], x) <=>
          j \in DOMAIN layers[i] /\ x \in layers[i][j].paths
    BY DEF Matching
<1>2. CASE Deciding = {}
  <2>1. ~IsIgnored(layers, x) BY <1>2 DEF IsIgnored
  <2>2. \A i \in DOMAIN layers : \A j \in DOMAIN layers[i] : x \notin layers[i][j].paths
      BY <1>1, <1>2
  <2> QED BY <2>1, <2>2 DEF Spared
<1>3. CASE Deciding # {}
  <2> DEFINE i == CHOOSE h \in Deciding : \A k \in Deciding : h <= k
             j == LastMatch(layers[i], x)
  <2>1. \E h \in Deciding : \A k \in Deciding : h <= k
    <3>1. Deciding \subseteq {1, 2, 3, 4} OBVIOUS
    <3> HIDE DEF Deciding
    <3>2. CASE 1 \in Deciding BY <3>1, <3>2
    <3>3. CASE 1 \notin Deciding /\ 2 \in Deciding BY <3>1, <3>3
    <3>4. CASE 1 \notin Deciding /\ 2 \notin Deciding /\ 3 \in Deciding BY <3>1, <3>4
    <3>5. CASE Deciding = {4} BY <3>5
    <3> QED BY <1>3, <3>1, <3>2, <3>3, <3>4, <3>5
  <2>2. i \in Deciding /\ \A k \in Deciding : i <= k BY <2>1
  <2>3. \E m \in Matching(layers[i], x) : \A k \in Matching(layers[i], x) : k <= m
    <3>1. layers[i] \in Seq(Rules) /\ Matching(layers[i], x) # {} BY <2>2
    <3>2. Len(layers[i]) \in Nat /\ DOMAIN layers[i] = 1 .. Len(layers[i])
      <4> HIDE DEF i
      <4> QED BY <3>1
    <3>3. Matching(layers[i], x) \subseteq 1 .. Len(layers[i]) BY <3>2 DEF Matching
    <3> QED BY <3>1, <3>2, <3>3, LastOfInterval
  <2>4. j \in Matching(layers[i], x) /\ \A k \in Matching(layers[i], x) : k <= j
      BY <2>3 DEF LastMatch
  <2>5. IsIgnored(layers, x) <=> ~layers[i][j].negate BY <1>3 DEF IsIgnored
  <2>6. i \in 1 .. 4 /\ j \in DOMAIN layers[i] /\ x \in layers[i][j].paths
        /\ j \in Int
    <3>1. i \in 1 .. 4 /\ i \in DOMAIN layers BY <2>2
    <3>2. j \in DOMAIN layers[i] /\ x \in layers[i][j].paths BY <1>1, <2>4, <3>1
    <3>3. layers[i] \in Seq(Rules) BY <3>1
    <3> HIDE DEF i, j
    <3>4. DOMAIN layers[i] = 1 .. Len(layers[i]) BY <3>3
    <3> QED BY <3>1, <3>2, <3>4
  <2> HIDE DEF i, j
  <2>7. ASSUME NEW h \in 1 .. 4, NEW k \in DOMAIN layers[h], x \in layers[h][k].paths
        PROVE h \in Deciding /\ h >= i /\ (h = i => k <= j)
    <3>1. k \in Matching(layers[h], x) /\ h \in Deciding BY <1>1, <2>7
    <3> QED BY <2>2, <2>4, <2>6, <3>1
  <2>8. \A h \in 1 .. 4 : \A k \in DOMAIN layers[h] : k \in Int
    <3>1. \A h \in 1 .. 4 : layers[h] \in Seq(Rules) OBVIOUS
    <3> QED BY <3>1
  <2>9. ASSUME IsIgnored(layers, x) PROVE ~Spared(layers, x)
    <3>1. i \in DOMAIN layers /\ j \in DOMAIN layers[i] /\ x \in layers[i][j].paths
          /\ ~layers[i][j].negate
        BY <2>5, <2>6, <2>9
    <3>2. \A h \in DOMAIN layers : \A k \in DOMAIN layers[h] :
            x \in layers[h][k].paths => h > i \/ (h = i /\ k <= j)
      <4> SUFFICES ASSUME NEW h \in 1 .. 4, NEW k \in DOMAIN layers[h], x \in layers[h][k].paths
                   PROVE h > i \/ (h = i /\ k <= j)
          OBVIOUS
      <4> QED BY <2>6, <2>7
    <3> QED BY <3>1, <3>2 DEF Spared
  <2>10. ASSUME ~Spared(layers, x) PROVE IsIgnored(layers, x)
    <3>1. PICK h \in 1 .. 4 : \E k \in DOMAIN layers[h] :
                /\ x \in layers[h][k].paths /\ ~layers[h][k].negate
                /\ \A g \in DOMAIN layers : \A l \in DOMAIN layers[g] :
                     x \in layers[g][l].paths => g > h \/ (g = h /\ l <= k)
        BY <2>10 DEF Spared
    <3>2. PICK k \in DOMAIN layers[h] :
                /\ x \in layers[h][k].paths /\ ~layers[h][k].negate
                /\ \A g \in DOMAIN layers : \A l \in DOMAIN layers[g] :
                     x \in layers[g][l].paths => g > h \/ (g = h /\ l <= k)
        BY <3>1
    <3>3. i = h /\ j <= k BY <2>6, <2>7, <3>2
    <3>4. k = j BY <2>6, <2>7, <2>8, <3>2, <3>3
    <3> QED BY <2>5, <3>2, <3>3, <3>4
  <2> QED BY <2>9, <2>10
<1> QED BY <1>2, <1>3

\* A file is in a listing and neither generated nor left out: what was to be ingested.
LEMMA WantedIsIngestible ==
    ASSUME NEW layers \in [1 .. 4 -> Seq(Rules)], NEW p \in Files
    PROVE Ingestible(layers, p) <=> Wanted(layers, p) /\ p \notin Generated
BY SparedIsNotIgnored DEF Ingestible, Wanted

\* The layers of a scan are four sequences of rules.
LEMMA LayersTyped ==
    ASSUME NEW vault \in Seq(Rules), NEW git \in Seq(Rules), NEW config \in ScanConfigs
    PROVE Layers(vault, git, config) \in [1 .. 4 -> Seq(Rules)]
<1>1. UserRules(config) \in Seq(Rules)
  <2>1. config.include \subseteq Files \cup Dirs /\ config.exclude \subseteq Files \cup Dirs
      BY ScanAssumption
  <2>2. [paths |-> config.include, negate |-> TRUE] \in Rules
        /\ [paths |-> config.exclude, negate |-> FALSE] \in Rules
      BY <2>1 DEF Rules
  <2> QED BY <2>2 DEF UserRules
<1>2. [i \in DOMAIN SystemRules |-> [SystemRules[i] EXCEPT !.negate = FALSE]] \in Seq(Rules)
  <2>1. SystemRules \in Seq(Rules) BY ScanAssumption
  <2>2. \A i \in 1 .. Len(SystemRules) : [SystemRules[i] EXCEPT !.negate = FALSE] \in Rules
    <3>1. \A i \in 1 .. Len(SystemRules) : SystemRules[i] \in Rules BY <2>1
    <3> QED BY <3>1 DEF Rules
  <2>3. Len(SystemRules) \in Nat /\ DOMAIN SystemRules = 1 .. Len(SystemRules) BY <2>1
  <2> QED BY <2>2, <2>3
<1> DEFINE system == [i \in DOMAIN SystemRules |-> [SystemRules[i] EXCEPT !.negate = FALSE]]
           user == UserRules(config)
<1>3. Layers(vault, git, config) = <<system, vault, git, user>> BY DEF Layers
<1>4. system \in Seq(Rules) /\ user \in Seq(Rules) BY <1>1, <1>2
<1> HIDE DEF system, user
<1>5. <<system, vault, git, user>> \in Seq(Seq(Rules)) /\ Len(<<system, vault, git, user>>) = 4
    BY <1>4
<1> QED BY <1>3, <1>5

-----------------------------------------------------------------------------
(***************************************************************************)
(* The inductive invariant                                                 *)
(***************************************************************************)

Held == Contents \cup {NoFile}
Listings == SUBSET [path : Files, hash : Contents]
Bundles == SUBSET [path : Files, hash : Contents, content : Contents]

ScanRecords ==
  [pc : {"idle", "load", "copy", "walk", "find", "bundle", "accept", "ended", "failed"},
   kind : Kinds \cup {"none"}, upload : [Files -> Held], document : Nat, config : ScanConfigs,
   copy : [Files -> Held], commit : Nat, rules : {<<>>} \cup [1 .. 4 -> Seq(Rules)], at : Nat,
   found : Listings, total : Nat, cut : BOOLEAN, bundle : Bundles,
   during : [Files -> SUBSET Held], answer : Nat]
SourceRecords == [kind : Kinds, upload : [Files -> Held], active : Nat]
ScanKeys ==
  [kind : Kinds \cup {"none"}, bundle : Bundles,
   revision : [listing : Listings, commit : Nat, upload : [Files -> Held]]]
VersionRecords ==
  [document : Nat, key : ScanKeys, status : {"pending", "ready", "superseded", "failed"},
   config : ScanConfigs, bundle : Bundles, by : Scans]

ScanTypeOK ==
  /\ tree \in [Files -> Held]
  /\ scan \in [Scans -> ScanRecords]
  /\ sources \in Seq(SourceRecords)
  /\ versions \in Seq(VersionRecords)
  /\ treeEdits \in Nat

\* The paths a scan has passed in one of its two orders.
Passed(g, order, p) == \E i \in DOMAIN order : order[i] = p /\ i < g.at

\* A request is asked for once, and a scan that runs watches the tree.
AskedOK(g) ==
  /\ g.pc # "idle" =>
       /\ g.kind \in Kinds
       /\ \A p \in Files : g.during[p] # {}
  /\ g.kind # "archive" => g.upload = NoTree
  /\ g.pc = "copy" => g.kind # "directory"
  /\ g.pc \notin {"idle", "ended", "failed"} => \A p \in Files : tree[p] \in g.during[p]
  /\ g.kind = "archive" /\ g.pc \notin {"idle", "failed"} =>
       \A p \in Files : g.upload[p] \in g.during[p]

\* What a clone or an extraction has of a file is what the file held; of an archive
\* the entries that are too large are missing.
Fits(g, c) == g.kind = "archive" => SizeOf[c] <= MaxEntryBytes
CopyOK(g) ==
  g.kind # "directory" /\ g.pc \notin {"idle", "copy", "failed"} =>
    \A p \in Files :
      /\ g.copy[p] # NoFile => g.copy[p] \in g.during[p]
      /\ \A c \in Contents : g.during[p] = {c} /\ Fits(g, c) => g.copy[p] = c

\* The listing after the files the walk has passed.
Walking == {"walk", "find", "bundle", "accept", "ended"}
FoundOK(g) ==
  /\ g.pc \in {"idle", "copy", "load"} => g.found = {} /\ g.bundle = {} /\ g.at = 1 /\ ~g.cut
  /\ g.pc \in Walking => g.rules \in [1 .. 4 -> Seq(Rules)]
  /\ g.pc = "walk" => g.at \in DOMAIN WalkOrder
  /\ g.pc \in Walking =>
       /\ \A f \in g.found :
            /\ Wanted(g.rules, f.path) /\ f.hash \in g.during[f.path]
            /\ g.kind # "directory" => f.hash = g.copy[f.path]
            /\ g.pc = "walk" => Passed(g, WalkOrder, f.path)
       /\ \A e, f \in g.found : e.path = f.path => e = f
       /\ ~g.cut =>
            \A p \in Files, c \in Contents :
              /\ g.pc = "walk" => Passed(g, WalkOrder, p)
              /\ g.during[p] = {c} /\ Wanted(g.rules, p)
              /\ SizeOf[c] <= MaxFileBytes /\ Fits(g, c)
              => [path |-> p, hash |-> c] \in g.found

\* The bundle after the files the second reading has passed.
Bundling == {"bundle", "accept", "ended"}
BundleOK(g) ==
  /\ g.pc \in {"walk", "find"} => g.bundle = {}
  /\ g.pc = "bundle" => g.at \in DOMAIN PathOrder
  /\ g.pc \in Bundling =>
       /\ \A f \in g.bundle :
            /\ [path |-> f.path, hash |-> f.hash] \in g.found
            /\ f.path \notin Generated /\ f.content \in g.during[f.path]
            /\ g.kind # "directory" => f.content = g.copy[f.path]
            /\ g.pc = "bundle" => Passed(g, PathOrder, f.path)
       /\ \A e, f \in g.bundle : e.path = f.path => e = f
       /\ \A f \in g.found :
            /\ g.pc = "bundle" => Passed(g, PathOrder, f.path)
            /\ f.hash \notin BinaryContents /\ f.path \notin Generated
            => \E e \in g.bundle : e.path = f.path /\ e.hash = f.hash

\* The document a request names and the version it is answered with are of its origin.
OriginOK(g) ==
  /\ g.document # 0 /\ g.pc # "failed" =>
       /\ g.document \in DOMAIN sources
       /\ sources[g.document].kind = g.kind /\ sources[g.document].upload = g.upload
  /\ g.pc = "ended" =>
       /\ g.answer \in DOMAIN versions
       /\ versions[g.answer].key.kind = g.kind
       /\ versions[g.answer].key.bundle = g.bundle
       /\ versions[g.answer].key.revision.upload = g.upload

ScanOK(g) == AskedOK(g) /\ CopyOK(g) /\ FoundOK(g) /\ BundleOK(g) /\ OriginOK(g)

\* A version is what its scan bundled, of the document's origin.
VersionOK(v) ==
  /\ scan[v.by].pc = "ended" /\ v.bundle = scan[v.by].bundle /\ v.key.bundle = v.bundle
  /\ v.document \in DOMAIN sources
  /\ sources[v.document].kind = v.key.kind
  /\ sources[v.document].upload = v.key.revision.upload

SourceOK(d) ==
  /\ d.kind # "archive" => d.upload = NoTree
  /\ d.active \in 0 .. Len(versions)

ScanInv ==
  /\ ScanTypeOK
  /\ \A s \in Scans : ScanOK(scan[s])
  /\ \A v \in DOMAIN versions : VersionOK(versions[v])
  /\ \A d \in DOMAIN sources : SourceOK(sources[d])

-----------------------------------------------------------------------------
(***************************************************************************)
(* Steps of one request                                                    *)
(***************************************************************************)

\* The record of a request is one of the records and satisfies its part of the invariant.
LEMMA ScanTyped ==
    ASSUME ScanInv, NEW s \in Scans
    PROVE scan[s] \in ScanRecords /\ ScanOK(scan[s])
BY DEF ScanInv, ScanTypeOK

\* A step of one request that has not ended leaves the invariant true if its own record is fine:
\* no version is by it yet.
LEMMA OneScanMoves ==
    ASSUME ScanInv, NEW s \in Scans, NEW g \in ScanRecords, scan[s].pc # "ended",
           scan' = [scan EXCEPT ![s] = g], ScanOK(g),
           UNCHANGED <<tree, sources, versions, treeEdits>>
    PROVE ScanInv'
<1>1. ScanTypeOK'
    BY DEF ScanInv, ScanTypeOK
<1>2. DOMAIN versions' = DOMAIN versions /\ DOMAIN sources' = DOMAIN sources
    OBVIOUS
<1>3. (\A r \in Scans : ScanOK(scan[r]))'
  <2> SUFFICES ASSUME NEW r \in Scans PROVE ScanOK(scan[r])'
      OBVIOUS
  <2>1. scan'[r] = IF r = s THEN g ELSE scan[r] BY DEF ScanInv, ScanTypeOK
  <2>2. ScanOK(scan'[r]) BY <2>1 DEF ScanInv
  <2>3. AskedOK(scan[r])' BY <2>2 DEF ScanOK, AskedOK, NoTree
  <2>4. CopyOK(scan[r])' BY <2>2 DEF ScanOK, CopyOK, Fits
  <2>5. FoundOK(scan[r])' BY <2>2 DEF ScanOK, FoundOK, Fits, Passed
  <2>6. BundleOK(scan[r])' BY <2>2 DEF ScanOK, BundleOK, Passed
  <2>7. OriginOK(scan[r])' BY <1>2, <2>2 DEF ScanOK, OriginOK
  <2> QED BY <2>3, <2>4, <2>5, <2>6, <2>7 DEF ScanOK
<1>4. (\A v \in DOMAIN versions : VersionOK(versions[v]))'
  <2> SUFFICES ASSUME NEW v \in DOMAIN versions PROVE VersionOK(versions[v])'
      OBVIOUS
  <2>1. VersionOK(versions[v]) BY DEF ScanInv
  <2>2. versions[v].by \in Scans
    <3>1. versions \in Seq(VersionRecords) BY DEF ScanInv, ScanTypeOK
    <3>2. versions[v] \in VersionRecords BY <3>1
    <3> QED BY <3>2 DEF VersionRecords
  <2>3. scan'[versions[v].by] = scan[versions[v].by]
      BY <2>1, <2>2 DEF VersionOK, ScanInv, ScanTypeOK
  <2> QED BY <2>1, <2>3 DEF VersionOK
<1>5. (\A d \in DOMAIN sources : SourceOK(sources[d]))' BY DEF ScanInv, SourceOK
<1> QED BY <1>1, <1>3, <1>4, <1>5 DEF ScanInv

\* What a record says of the request itself.
SameRequest(g, h) ==
  /\ h.kind = g.kind /\ h.upload = g.upload /\ h.document = g.document
  /\ h.copy = g.copy /\ h.during = g.during

\* A request that goes on keeps what is known of it and of its copy.
LEMMA RequestGoesOn ==
    ASSUME NEW g, NEW h, SameRequest(g, h), AskedOK(g), CopyOK(g),
           g.pc \in {"load", "walk", "find", "bundle", "accept"},
           h.pc \in {"walk", "find", "bundle", "accept", "ended"}
    PROVE AskedOK(h) /\ CopyOK(h)
BY DEF SameRequest, AskedOK, CopyOK, Fits

\* A request that fails has nothing left to be kept.
LEMMA FailedIsFine ==
    ASSUME ScanInv, NEW s \in Scans, scan[s].pc \notin {"idle", "ended"}, FailScan(s),
           UNCHANGED <<tree, sources, versions, treeEdits>>
    PROVE ScanInv'
<1> DEFINE g == scan[s]
           h == [g EXCEPT !.pc = "failed"]
<1>1. g \in ScanRecords /\ AskedOK(g) BY ScanTyped DEF ScanOK
<1>2. h \in ScanRecords /\ h.pc = "failed" /\ h.kind = g.kind /\ h.upload = g.upload
      /\ h.during = g.during
    BY <1>1 DEF ScanRecords
<1>3. scan' = [scan EXCEPT ![s] = h] BY DEF FailScan, Go
<1>4. g.pc \notin {"idle", "ended"} OBVIOUS
<1> HIDE DEF g, h
<1>5. ScanOK(h)
  <2>1. AskedOK(h) BY <1>1, <1>2, <1>4 DEF AskedOK
  <2>2. CopyOK(h) /\ FoundOK(h) /\ BundleOK(h) /\ OriginOK(h)
      BY <1>2 DEF CopyOK, FoundOK, BundleOK, OriginOK, Walking, Bundling
  <2> QED BY <2>1, <2>2 DEF ScanOK
<1>6. scan[s].pc # "ended" OBVIOUS
<1> QED BY <1>2, <1>3, <1>5, <1>6, OneScanMoves

\* A new request has found nothing yet.
LEMMA NewScanTyped ==
    ASSUME ScanInv
    PROVE NoScan \in ScanRecords /\ NoTree \in [Files -> Held]
          /\ First \in [Files -> SUBSET Held] /\ \A p \in Files : First[p] = {tree[p]}
<1>1. NoTree \in [Files -> Held] BY DEF NoTree, Held
<1>2. AskedConfig \in ScanConfigs BY ScanAssumption
<1>3. [p \in Files |-> {}] \in [Files -> SUBSET Held] OBVIOUS
<1>4. NoScan \in ScanRecords
    BY <1>1, <1>2, <1>3 DEF NoScan, ScanRecords, Kinds, Listings, Bundles
<1>5. tree \in [Files -> Held] BY DEF ScanInv, ScanTypeOK
<1> QED BY <1>1, <1>4, <1>5 DEF First

\* A new scan starts with what lies in the source now.
LEMMA AskScanKeeps ==
    ASSUME ScanInv, NEW s \in Scans, NEW kind \in Kinds, AskScan(s, kind)
    PROVE ScanInv'
<1> DEFINE h == [NoScan EXCEPT !.pc = IF kind = "directory" THEN "load" ELSE "copy",
                               !.kind = kind, !.during = First,
                               !.upload = IF kind = "archive" THEN tree ELSE NoTree]
<1>1. NoScan \in ScanRecords /\ NoTree \in [Files -> Held]
      /\ First \in [Files -> SUBSET Held] /\ \A p \in Files : First[p] = {tree[p]}
    BY NewScanTyped
<1>2. tree \in [Files -> Held] BY DEF ScanInv, ScanTypeOK
<1>3. /\ h.pc = (IF kind = "directory" THEN "load" ELSE "copy") /\ h.kind = kind
      /\ h.during = First /\ h.upload = (IF kind = "archive" THEN tree ELSE NoTree)
      /\ h.document = 0 /\ h.found = {} /\ h.bundle = {} /\ h.at = 1 /\ h.cut = FALSE
    BY DEF NoScan
<1>4. h \in ScanRecords
  <2>1. (IF kind = "archive" THEN tree ELSE NoTree) \in [Files -> Held] BY <1>1, <1>2
  <2>2. kind \in Kinds \cup {"none"} OBVIOUS
  <2> QED BY <1>1, <2>1, <2>2 DEF ScanRecords
<1>5. scan' = [scan EXCEPT ![s] = h] /\ UNCHANGED <<tree, sources, versions, treeEdits>>
      /\ scan[s].pc # "ended"
    BY DEF AskScan, Go
<1> HIDE DEF h
<1>6. ScanOK(h)
  <2>1. AskedOK(h) BY <1>1, <1>3 DEF AskedOK, Kinds
  <2>2. CopyOK(h) /\ FoundOK(h) /\ BundleOK(h) /\ OriginOK(h)
      BY <1>3 DEF CopyOK, FoundOK, BundleOK, OriginOK, Walking, Bundling
  <2> QED BY <2>1, <2>2 DEF ScanOK
<1> QED BY <1>4, <1>5, <1>6, OneScanMoves

\* A refresh starts with its document and the configuration of the active version; that of an
\* archive has failed before it starts.
LEMMA AskRefreshKeeps ==
    ASSUME ScanInv, NEW s \in Scans, NEW d \in DOMAIN sources, AskRefresh(s, d)
    PROVE ScanInv'
<1> DEFINE pc == CASE sources[d].kind = "directory" -> "load"
                   [] sources[d].kind = "repository" -> "copy"
                   [] OTHER -> "failed"
           config == versions[sources[d].active].config
           h == [NoScan EXCEPT !.pc = pc, !.kind = sources[d].kind, !.document = d,
                               !.config = config, !.during = First]
<1>1. NoScan \in ScanRecords /\ NoTree \in [Files -> Held]
      /\ First \in [Files -> SUBSET Held] /\ \A p \in Files : First[p] = {tree[p]}
    BY NewScanTyped
<1>2. sources[d] \in SourceRecords /\ SourceOK(sources[d]) /\ d \in Nat /\ d # 0
  <2>1. sources \in Seq(SourceRecords) BY DEF ScanInv, ScanTypeOK
  <2> QED BY <2>1 DEF ScanInv
<1>3. config \in ScanConfigs
  <2>1. versions \in Seq(VersionRecords) BY DEF ScanInv, ScanTypeOK
  <2>2. sources[d].active \in 1 .. Len(versions)
      BY <1>2, <2>1 DEF SourceOK, AskRefresh
  <2>3. versions[sources[d].active] \in VersionRecords BY <2>1, <2>2
  <2> QED BY <2>3 DEF VersionRecords
<1>4. sources[d].kind \in Kinds BY <1>2 DEF SourceRecords
<1>5. /\ sources[d].kind = "directory" => pc = "load"
      /\ sources[d].kind = "repository" => pc = "copy"
      /\ sources[d].kind = "archive" => pc = "failed"
    OBVIOUS
<1>6. scan' = [scan EXCEPT ![s] = h] /\ UNCHANGED <<tree, sources, versions, treeEdits>>
      /\ scan[s].pc # "ended"
    BY DEF AskRefresh, Go
<1> HIDE DEF pc, config
<1>7. /\ h.pc = pc /\ h.kind = sources[d].kind /\ h.during = First /\ h.upload = NoTree
      /\ h.document = d /\ h.found = {} /\ h.bundle = {} /\ h.at = 1 /\ h.cut = FALSE
    BY DEF NoScan
<1>8. pc \in {"load", "copy", "failed"} BY <1>4, <1>5 DEF Kinds
<1>9. h \in ScanRecords BY <1>1, <1>2, <1>3, <1>4, <1>8 DEF ScanRecords
<1> HIDE DEF h
<1>10. ScanOK(h)
  <2>1. AskedOK(h) BY <1>1, <1>4, <1>5, <1>7, <1>8 DEF AskedOK, Kinds
  <2>2. CopyOK(h) BY <1>4, <1>5, <1>7 DEF CopyOK, Kinds
  <2>3. FoundOK(h) /\ BundleOK(h)
      BY <1>7, <1>8 DEF FoundOK, BundleOK, Walking, Bundling
  <2>4. sources[d].kind # "archive" => sources[d].upload = NoTree BY <1>2 DEF SourceOK
  <2>5. OriginOK(h) BY <1>4, <1>5, <1>7, <1>8, <2>4 DEF OriginOK, Kinds
  <2> QED BY <2>1, <2>2, <2>3, <2>5 DEF ScanOK
<1> QED BY <1>6, <1>9, <1>10, OneScanMoves

\* A clone has what the repository held at that moment.
LEMMA CloneKeeps ==
    ASSUME ScanInv, NEW s \in Scans, Clone(s)
    PROVE ScanInv'
<1> DEFINE g == scan[s]
           h == [g EXCEPT !.pc = "load", !.copy = tree, !.commit = treeEdits]
<1>1. g \in ScanRecords /\ AskedOK(g) /\ FoundOK(g) /\ OriginOK(g) BY ScanTyped DEF ScanOK
<1>2. tree \in [Files -> Held] /\ treeEdits \in Nat BY DEF ScanInv, ScanTypeOK
<1>3. h \in ScanRecords BY <1>1, <1>2 DEF ScanRecords
<1>4. /\ h.pc = "load" /\ h.copy = tree /\ h.kind = g.kind /\ h.upload = g.upload
      /\ h.document = g.document /\ h.during = g.during /\ h.found = g.found
      /\ h.bundle = g.bundle /\ h.at = g.at /\ h.cut = g.cut
    BY <1>1 DEF ScanRecords
<1>5. scan' = [scan EXCEPT ![s] = h] /\ UNCHANGED <<tree, sources, versions, treeEdits>>
      /\ scan[s].pc # "ended" /\ g.pc = "copy" /\ g.kind = "repository"
    BY DEF Clone, Go
<1> HIDE DEF g, h
<1>6. ScanOK(h)
  <2>1. AskedOK(h) BY <1>1, <1>4, <1>5 DEF AskedOK
  <2>2. CopyOK(h) BY <1>1, <1>4, <1>5 DEF AskedOK, CopyOK
  <2>3. FoundOK(h) BY <1>1, <1>4, <1>5 DEF FoundOK, Walking
  <2>4. BundleOK(h) BY <1>4 DEF BundleOK, Bundling
  <2>5. OriginOK(h) BY <1>1, <1>4, <1>5 DEF OriginOK
  <2> QED BY <2>1, <2>2, <2>3, <2>4, <2>5 DEF ScanOK
<1> QED BY <1>3, <1>5, <1>6, OneScanMoves

\* An extraction has what the upload holds, or ends the request.
LEMMA ExtractKeeps ==
    ASSUME ScanInv, NEW s \in Scans, Extract(s)
    PROVE ScanInv'
<1> DEFINE g == scan[s]
           copy == [p \in Files |-> IF p \in Extracted(g.upload) THEN g.upload[p] ELSE NoFile]
           h == [g EXCEPT !.pc = "load", !.copy = copy]
<1>1. g \in ScanRecords /\ AskedOK(g) /\ FoundOK(g) /\ OriginOK(g) BY ScanTyped DEF ScanOK
<1>2. scan[s].pc = "copy" /\ UNCHANGED <<tree, sources, versions, treeEdits>>
      /\ g.pc = "copy" /\ g.kind = "archive"
    BY DEF Extract
<1>3. CASE FailScan(s) BY <1>2, <1>3, FailedIsFine
<1>4. CASE scan' = [scan EXCEPT ![s] = h]
  <2>1. g.upload \in [Files -> Held] BY <1>1 DEF ScanRecords
  <2>2. copy \in [Files -> Held] BY <2>1 DEF Held
  <2>3. \A p \in Files : /\ copy[p] # NoFile => copy[p] = g.upload[p]
                         /\ g.upload[p] # NoFile /\ SizeOf[g.upload[p]] <= MaxEntryBytes
                            => copy[p] = g.upload[p]
      BY DEF Extracted, Members
  <2> HIDE DEF copy
  <2>4. h \in ScanRecords BY <1>1, <2>2 DEF ScanRecords
  <2>5. /\ h.pc = "load" /\ h.copy = copy /\ h.kind = g.kind /\ h.upload = g.upload
        /\ h.document = g.document /\ h.during = g.during /\ h.found = g.found
        /\ h.bundle = g.bundle /\ h.at = g.at /\ h.cut = g.cut
      BY <1>1 DEF ScanRecords
  <2> HIDE DEF h, g
  <2>6. ScanOK(h)
    <3>1. AskedOK(h) BY <1>1, <1>2, <2>5 DEF AskedOK
    <3>2. CopyOK(h)
      <4>1. \A p \in Files : g.upload[p] \in g.during[p] BY <1>1, <1>2 DEF AskedOK
      <4>2. NoFile \notin Contents BY ScanAssumption
      <4> QED BY <1>2, <2>3, <2>5, <4>1, <4>2 DEF CopyOK, Fits
    <3>3. FoundOK(h) BY <1>1, <1>2, <2>5 DEF FoundOK, Walking
    <3>4. BundleOK(h) BY <2>5 DEF BundleOK, Bundling
    <3>5. OriginOK(h) BY <1>1, <1>2, <2>5 DEF OriginOK
    <3> QED BY <3>1, <3>2, <3>3, <3>4, <3>5 DEF ScanOK
  <2> QED BY <1>2, <1>4, <2>4, <2>6, OneScanMoves
<1> QED BY <1>3, <1>4 DEF Extract, Go

\* What a running scan reads of a file is what the file held, from a clone or an archive
\* what that has of it.
LEMMA SeesWhatWasHeld ==
    ASSUME ScanInv, NEW s \in Scans, NEW p \in Files,
           scan[s].pc \in {"load", "walk", "find", "bundle", "accept"}
    PROVE /\ Seeing(s, p) \in Held
          /\ Seeing(s, p) # NoFile => Seeing(s, p) \in scan[s].during[p]
          /\ scan[s].kind # "directory" => Seeing(s, p) = scan[s].copy[p]
          /\ \A c \in Contents : scan[s].during[p] = {c} /\ Fits(scan[s], c) => Seeing(s, p) = c
<1>1. scan[s] \in ScanRecords /\ AskedOK(scan[s]) /\ CopyOK(scan[s]) BY ScanTyped DEF ScanOK
<1>2. tree[p] \in Held /\ scan[s].copy[p] \in Held
    BY <1>1 DEF ScanInv, ScanTypeOK, ScanRecords
<1>3. tree[p] \in scan[s].during[p] BY <1>1 DEF AskedOK
<1>4. scan[s].kind # "directory" =>
        /\ scan[s].copy[p] # NoFile => scan[s].copy[p] \in scan[s].during[p]
        /\ \A c \in Contents : scan[s].during[p] = {c} /\ Fits(scan[s], c) => scan[s].copy[p] = c
    BY <1>1 DEF CopyOK
<1> QED BY <1>2, <1>3, <1>4 DEF Seeing

\* With the rules loaded, nothing is walked yet.
LEMMA LoadRulesKeeps ==
    ASSUME ScanInv, NEW s \in Scans, LoadRules(s)
    PROVE ScanInv'
<1> DEFINE g == scan[s]
           rules == Layers(RulesAt(Seeing(s, VaultFile)), RulesAt(Seeing(s, GitFile)), g.config)
           h == [g EXCEPT !.pc = "walk", !.rules = rules]
<1>1. g \in ScanRecords /\ AskedOK(g) /\ CopyOK(g) /\ FoundOK(g) /\ OriginOK(g)
    BY ScanTyped DEF ScanOK
<1>2. scan' = [scan EXCEPT ![s] = h] /\ UNCHANGED <<tree, sources, versions, treeEdits>>
      /\ scan[s].pc # "ended" /\ g.pc = "load"
    BY DEF LoadRules, Go
<1>3. rules \in [1 .. 4 -> Seq(Rules)]
  <2>1. VaultFile \in Files /\ GitFile \in Files BY ScanAssumption
  <2>2. Seeing(s, VaultFile) \in Held /\ Seeing(s, GitFile) \in Held
      BY <1>2, <2>1, SeesWhatWasHeld
  <2>3. \A c \in Held : RulesAt(c) \in Seq(Rules) BY ScanAssumption DEF RulesAt, Held
  <2>4. g.config \in ScanConfigs BY <1>1 DEF ScanRecords
  <2> QED BY <2>2, <2>3, <2>4, LayersTyped
<1> HIDE DEF rules
<1>4. h \in ScanRecords BY <1>1, <1>3 DEF ScanRecords
<1>5. /\ h.pc = "walk" /\ h.rules = rules /\ h.found = g.found
      /\ h.bundle = g.bundle /\ h.at = g.at /\ h.cut = g.cut /\ h.document = g.document
      /\ SameRequest(g, h)
    BY <1>1 DEF ScanRecords, SameRequest
<1> HIDE DEF g, h
<1>6. ScanOK(h)
  <2>1. AskedOK(h) /\ CopyOK(h) BY <1>1, <1>2, <1>5, RequestGoesOn
  <2>2. g.found = {} /\ g.bundle = {} /\ g.at = 1 /\ ~g.cut BY <1>1, <1>2 DEF FoundOK
  <2>3. WalkOrder \in Seq(Files) /\ Len(WalkOrder) >= 1 BY OrdersList
  <2>4. \A p : ~Passed(h, WalkOrder, p) BY <1>5, <2>2, <2>3 DEF Passed
  <2>5. FoundOK(h) BY <1>3, <1>5, <2>2, <2>3, <2>4 DEF FoundOK
  <2>6. BundleOK(h) BY <1>5, <2>2 DEF BundleOK, Bundling
  <2>7. OriginOK(h) BY <1>1, <1>2, <1>5 DEF OriginOK, SameRequest
  <2> QED BY <2>1, <2>5, <2>6, <2>7 DEF ScanOK
<1> QED BY <1>2, <1>4, <1>6, OneScanMoves

\* A step of the walk at path p: it goes on to the next file or the walk is over, and the listing
\* stays what it is or gains p.
LEMMA WalkStep ==
    ASSUME NEW g \in ScanRecords, NEW h \in ScanRecords, FoundOK(g), g.pc = "walk",
           SameRequest(g, h), h.rules = g.rules,
           NEW p, p = WalkOrder[g.at],
           \/ h.pc = "walk" /\ h.at = g.at + 1 /\ g.at # Len(WalkOrder) /\ h.cut = g.cut
           \/ h.pc = "find" /\ g.at = Len(WalkOrder) /\ h.cut = g.cut
           \/ h.pc = "find" /\ h.cut,
           \/ /\ h.found = g.found
              /\ h.cut \/ ~Wanted(g.rules, p)
                 \/ \A c \in Contents : ~(g.during[p] = {c} /\ SizeOf[c] <= MaxFileBytes /\ Fits(g, c))
           \/ \E c \in Contents :
                /\ h.found = g.found \cup {[path |-> p, hash |-> c]}
                /\ Wanted(g.rules, p) /\ c \in g.during[p]
                /\ g.kind # "directory" => c = g.copy[p]
                /\ \A b \in Contents : g.during[p] = {b} /\ Fits(g, b) => c = b
    PROVE FoundOK(h)
<1>1. /\ WalkOrder \in Seq(Files) /\ Len(WalkOrder) >= 1
      /\ \A q \in Files : \E i \in DOMAIN WalkOrder : WalkOrder[i] = q
      /\ \A i, j \in DOMAIN WalkOrder : WalkOrder[i] = WalkOrder[j] => i = j
    BY OrdersList
<1>2. g.at \in 1 .. Len(WalkOrder) /\ Len(WalkOrder) \in Nat /\ DOMAIN WalkOrder = 1 .. Len(WalkOrder)
      /\ p \in Files
    BY <1>1 DEF FoundOK
<1>3. /\ g.rules \in [1 .. 4 -> Seq(Rules)]
      /\ \A f \in g.found :
            /\ Wanted(g.rules, f.path) /\ f.hash \in g.during[f.path]
            /\ g.kind # "directory" => f.hash = g.copy[f.path]
            /\ Passed(g, WalkOrder, f.path)
      /\ \A e, f \in g.found : e.path = f.path => e = f
      /\ ~g.cut =>
            \A q \in Files, c \in Contents :
              /\ Passed(g, WalkOrder, q)
              /\ g.during[q] = {c} /\ Wanted(g.rules, q)
              /\ SizeOf[c] <= MaxFileBytes /\ Fits(g, c)
              => [path |-> q, hash |-> c] \in g.found
    BY DEF FoundOK, Walking
<1>4. ~Passed(g, WalkOrder, p) BY <1>1, <1>2 DEF Passed
<1>5. h.pc = "walk" =>
        /\ h.at \in DOMAIN WalkOrder
        /\ \A q : Passed(h, WalkOrder, q) <=> Passed(g, WalkOrder, q) \/ q = p
  <2> SUFFICES ASSUME h.pc = "walk"
               PROVE /\ h.at \in DOMAIN WalkOrder
                     /\ \A q : Passed(h, WalkOrder, q) <=> Passed(g, WalkOrder, q) \/ q = p
      OBVIOUS
  <2>1. h.at = g.at + 1 /\ h.at \in DOMAIN WalkOrder BY <1>2
  <2>2. \A i \in DOMAIN WalkOrder : i < h.at <=> i < g.at \/ i = g.at BY <1>2, <2>1
  <2> QED BY <1>2, <2>1, <2>2 DEF Passed
<1>6. h.pc # "walk" /\ ~h.cut => \A q \in Files : Passed(g, WalkOrder, q) \/ q = p
    BY <1>1, <1>2 DEF Passed
<1>7. h.pc \in {"walk", "find"} /\ (~h.cut => ~g.cut) OBVIOUS
<1>8. ASSUME NEW f \in h.found
      PROVE /\ Wanted(g.rules, f.path) /\ f.hash \in g.during[f.path]
            /\ g.kind # "directory" => f.hash = g.copy[f.path]
            /\ Passed(g, WalkOrder, f.path) \/ f.path = p
  <2>1. CASE f \in g.found BY <1>3, <2>1
  <2>2. CASE f \notin g.found
    <3>1. PICK c \in Contents :
            /\ h.found = g.found \cup {[path |-> p, hash |-> c]}
            /\ Wanted(g.rules, p) /\ c \in g.during[p]
            /\ g.kind # "directory" => c = g.copy[p]
        BY <2>2
    <3>2. f = [path |-> p, hash |-> c] BY <2>2, <3>1
    <3>3. f.path = p /\ f.hash = c BY <3>2
    <3> QED BY <3>1, <3>3
  <2> QED BY <2>1, <2>2
<1>9. \A e, f \in h.found : e.path = f.path => e = f
    BY <1>3, <1>4
<1>10. ~h.cut => \A q \in Files, c \in Contents :
              /\ Passed(g, WalkOrder, q) \/ q = p
              /\ g.during[q] = {c} /\ Wanted(g.rules, q)
              /\ SizeOf[c] <= MaxFileBytes /\ Fits(g, c)
              => [path |-> q, hash |-> c] \in h.found
    BY <1>3, <1>7
<1>11. \A c : Fits(h, c) <=> Fits(g, c) BY DEF Fits, SameRequest
<1>12. h.kind = g.kind /\ h.during = g.during /\ h.copy = g.copy BY DEF SameRequest
<1>13. \A f \in h.found :
        /\ Wanted(h.rules, f.path) /\ f.hash \in h.during[f.path]
        /\ h.kind # "directory" => f.hash = h.copy[f.path]
        /\ h.pc = "walk" => Passed(h, WalkOrder, f.path)
    BY <1>5, <1>8, <1>12
<1>14. ~h.cut => \A q \in Files, c \in Contents :
              /\ h.pc = "walk" => Passed(h, WalkOrder, q)
              /\ h.during[q] = {c} /\ Wanted(h.rules, q)
              /\ SizeOf[c] <= MaxFileBytes /\ Fits(h, c)
              => [path |-> q, hash |-> c] \in h.found
    BY <1>5, <1>6, <1>10, <1>11, <1>12
<1> QED BY <1>3, <1>5, <1>7, <1>9, <1>13, <1>14 DEF FoundOK, Walking

\* The rest of a scan's invariant when the walk goes on or is over.
LEMMA WalkMoves ==
    ASSUME ScanInv, NEW s \in Scans, scan[s].pc = "walk",
           NEW h \in ScanRecords, scan' = [scan EXCEPT ![s] = h],
           UNCHANGED <<tree, sources, versions, treeEdits>>,
           SameRequest(scan[s], h), h.pc \in {"walk", "find"}, h.bundle = scan[s].bundle, FoundOK(h)
    PROVE ScanInv'
<1> DEFINE g == scan[s]
<1>1. AskedOK(g) /\ CopyOK(g) /\ BundleOK(g) /\ OriginOK(g) BY ScanTyped DEF ScanOK
<1>2. g.pc = "walk" /\ SameRequest(g, h) /\ h.bundle = g.bundle OBVIOUS
<1> HIDE DEF g
<1>3. AskedOK(h) /\ CopyOK(h) BY <1>1, <1>2, RequestGoesOn
<1>4. BundleOK(h) BY <1>1, <1>2 DEF BundleOK, Bundling
<1>5. OriginOK(h) BY <1>1, <1>2 DEF OriginOK, SameRequest
<1>6. ScanOK(h) BY <1>3, <1>4, <1>5 DEF ScanOK
<1>7. scan[s].pc # "ended" OBVIOUS
<1> QED BY <1>6, <1>7, OneScanMoves

\* One file of the walk: it is left out, it ends the walk, or it is listed.
LEMMA WalkFileKeeps ==
    ASSUME ScanInv, NEW s \in Scans, WalkFile(s)
    PROVE ScanInv'
<1> DEFINE g == scan[s]
           p == Walked(s)
           c == Seeing(s, p)
           h == Discovered(g, p, c)
           k == [g EXCEPT !.found = @ \cup {[path |-> p, hash |-> c]}, !.total = @ + SizeOf[c]]
<1>1. g \in ScanRecords /\ FoundOK(g) /\ scan[s].pc = "walk" /\ g.pc = "walk"
      /\ scan' = [scan EXCEPT ![s] = h] /\ UNCHANGED <<tree, sources, versions, treeEdits>>
    BY ScanTyped DEF ScanOK, WalkFile, Go
<1>2. p = WalkOrder[g.at] /\ p \in Files /\ g.at \in 1 .. Len(WalkOrder)
      /\ Len(WalkOrder) \in Nat
  <2>1. WalkOrder \in Seq(Files) BY OrdersList
  <2>2. g.at \in DOMAIN WalkOrder BY <1>1 DEF FoundOK
  <2> QED BY <2>1, <2>2 DEF Walked
<1>3. /\ c \in Held /\ (c # NoFile => c \in g.during[p])
      /\ g.kind # "directory" => c = g.copy[p]
      /\ \A b \in Contents : g.during[p] = {b} /\ Fits(g, b) => c = b
  <2> HIDE DEF p
  <2> QED BY <1>1, <1>2, SeesWhatWasHeld
<1> HIDE DEF p, c
<1>4. ASSUME NEW f \in ScanRecords, f.pc = "walk", f.at = g.at, f.cut = g.cut
      PROVE /\ StopWalk(f) \in ScanRecords /\ Onward(f) \in ScanRecords
            /\ \A e \in {StopWalk(f), Onward(f)} :
                 /\ SameRequest(f, e) /\ e.rules = f.rules /\ e.found = f.found
                 /\ e.bundle = f.bundle /\ e.pc \in {"walk", "find"}
                 /\ \/ e.pc = "walk" /\ e.at = g.at + 1 /\ g.at # Len(WalkOrder) /\ e.cut = g.cut
                    \/ e.pc = "find" /\ g.at = Len(WalkOrder) /\ e.cut = g.cut
                    \/ e.pc = "find" /\ e.cut
            /\ StopWalk(f).cut
  <2>1. /\ StopWalk(f) \in ScanRecords /\ SameRequest(f, StopWalk(f))
        /\ StopWalk(f).rules = f.rules /\ StopWalk(f).found = f.found
        /\ StopWalk(f).bundle = f.bundle /\ StopWalk(f).pc = "find"
        /\ StopWalk(f).cut = TRUE
      BY DEF ScanRecords, StopWalk, SameRequest
  <2>2. g.at \in Nat /\ f.at = g.at BY <1>2, <1>4
  <2>3. CASE g.at = Len(WalkOrder)
    <3>1. Onward(f) = [f EXCEPT !.pc = "find"] BY <2>2, <2>3 DEF Onward
    <3>2. /\ Onward(f) \in ScanRecords /\ SameRequest(f, Onward(f))
          /\ Onward(f).rules = f.rules /\ Onward(f).found = f.found
          /\ Onward(f).bundle = f.bundle /\ Onward(f).pc = "find"
          /\ Onward(f).cut = f.cut
        BY <3>1 DEF ScanRecords, SameRequest
    <3> QED BY <1>4, <2>1, <2>3, <3>2
  <2>4. CASE g.at # Len(WalkOrder)
    <3>1. Onward(f) = [f EXCEPT !.at = g.at + 1] BY <2>2, <2>4 DEF Onward
    <3>2. g.at + 1 \in Nat BY <2>2
    <3>3. /\ Onward(f) \in ScanRecords /\ SameRequest(f, Onward(f))
          /\ Onward(f).rules = f.rules /\ Onward(f).found = f.found
          /\ Onward(f).bundle = f.bundle /\ Onward(f).pc = f.pc
          /\ Onward(f).cut = f.cut /\ Onward(f).at = g.at + 1
        BY <3>1, <3>2 DEF ScanRecords, SameRequest
    <3> QED BY <1>4, <2>1, <2>4, <3>3
  <2> QED BY <2>3, <2>4
<1>5. SizeOf \in [Contents -> Nat] /\ NoFile \notin Contents BY ScanAssumption
<1>6. ASSUME c \in Contents
      PROVE k \in ScanRecords /\ k.pc = "walk" /\ k.at = g.at /\ k.cut = g.cut
            /\ SameRequest(g, k) /\ k.rules = g.rules /\ k.bundle = g.bundle
            /\ k.found = g.found \cup {[path |-> p, hash |-> c]}
  <2>1. [path |-> p, hash |-> c] \in [path : Files, hash : Contents] BY <1>2, <1>6
  <2>2. g.found \cup {[path |-> p, hash |-> c]} \in Listings
      BY <1>1, <2>1 DEF ScanRecords, Listings
  <2>3. g.total + SizeOf[c] \in Nat BY <1>1, <1>5, <1>6 DEF ScanRecords
  <2> QED BY <1>1, <2>2, <2>3 DEF ScanRecords, SameRequest
<1>7. CASE ~Wanted(g.rules, p) \/ c = NoFile \/ SizeOf[c] > MaxFileBytes
  <2>1. h = Onward(g) BY <1>7 DEF Discovered
  <2> HIDE DEF g, h, k
  <2>2. /\ h \in ScanRecords /\ SameRequest(g, h) /\ h.rules = g.rules /\ h.found = g.found
        /\ h.bundle = g.bundle /\ h.pc \in {"walk", "find"}
        /\ \/ h.pc = "walk" /\ h.at = g.at + 1 /\ g.at # Len(WalkOrder) /\ h.cut = g.cut
           \/ h.pc = "find" /\ g.at = Len(WalkOrder) /\ h.cut = g.cut
           \/ h.pc = "find" /\ h.cut
      BY <1>1, <1>4, <2>1
  <2>3. ~Wanted(g.rules, p) \/ \A b \in Contents :
           ~(g.during[p] = {b} /\ SizeOf[b] <= MaxFileBytes /\ Fits(g, b))
    <3>1. MaxFileBytes \in Nat BY ScanAssumption
    <3> QED BY <1>3, <1>5, <1>7, <3>1
  <2>4. FoundOK(h) BY <1>1, <1>2, <2>2, <2>3, WalkStep
  <2> QED BY <1>1, <2>2, <2>4, WalkMoves DEF g
<1>8. CASE /\ Wanted(g.rules, p) /\ c # NoFile /\ ~(SizeOf[c] > MaxFileBytes)
           /\ g.total + SizeOf[c] > MaxBytes
  <2>1. h = StopWalk(g) BY <1>8 DEF Discovered
  <2> HIDE DEF g, h, k
  <2>2. /\ h \in ScanRecords /\ SameRequest(g, h) /\ h.rules = g.rules /\ h.found = g.found
        /\ h.bundle = g.bundle /\ h.pc \in {"walk", "find"}
        /\ \/ h.pc = "walk" /\ h.at = g.at + 1 /\ g.at # Len(WalkOrder) /\ h.cut = g.cut
           \/ h.pc = "find" /\ g.at = Len(WalkOrder) /\ h.cut = g.cut
           \/ h.pc = "find" /\ h.cut
        /\ h.cut
      BY <1>1, <1>4, <2>1
  <2>3. FoundOK(h) BY <1>1, <1>2, <2>2, WalkStep
  <2> QED BY <1>1, <2>2, <2>3, WalkMoves DEF g
<1>9. CASE /\ Wanted(g.rules, p) /\ c # NoFile /\ ~(SizeOf[c] > MaxFileBytes)
           /\ ~(g.total + SizeOf[c] > MaxBytes)
  <2>1. h \in {StopWalk(k), Onward(k)} BY <1>9 DEF Discovered
  <2>2. c \in Contents BY <1>3, <1>9 DEF Held
  <2> HIDE DEF g, h, k
  <2>3. k \in ScanRecords /\ k.pc = "walk" /\ k.at = g.at /\ k.cut = g.cut
        /\ SameRequest(g, k) /\ k.rules = g.rules /\ k.bundle = g.bundle
        /\ k.found = g.found \cup {[path |-> p, hash |-> c]}
      BY <1>6, <2>2
  <2>4. /\ h \in ScanRecords /\ SameRequest(k, h) /\ h.rules = k.rules /\ h.found = k.found
        /\ h.bundle = k.bundle /\ h.pc \in {"walk", "find"}
        /\ \/ h.pc = "walk" /\ h.at = g.at + 1 /\ g.at # Len(WalkOrder) /\ h.cut = g.cut
           \/ h.pc = "find" /\ g.at = Len(WalkOrder) /\ h.cut = g.cut
           \/ h.pc = "find" /\ h.cut
      BY <1>4, <2>1, <2>3
  <2>5. SameRequest(g, h) BY <2>3, <2>4 DEF SameRequest
  <2>6. h.rules = g.rules /\ h.bundle = g.bundle
        /\ h.found = g.found \cup {[path |-> p, hash |-> c]}
      BY <2>3, <2>4
  <2>7. FoundOK(h) BY <1>1, <1>2, <1>3, <1>9, <2>2, <2>4, <2>5, <2>6, WalkStep
  <2> QED BY <1>1, <2>4, <2>5, <2>6, <2>7, WalkMoves DEF g
<1> QED BY <1>7, <1>8, <1>9

\* A deadline ends the walk as it stands, and the scan is known to be cut short.
LEMMA DeadlineKeeps ==
    ASSUME ScanInv, NEW s \in Scans, DeadlinePasses(s)
    PROVE ScanInv'
<1> DEFINE g == scan[s]
           h == StopWalk(g)
           p == WalkOrder[g.at]
<1>1. g \in ScanRecords /\ FoundOK(g) /\ scan[s].pc = "walk" /\ g.pc = "walk"
      /\ scan' = [scan EXCEPT ![s] = h] /\ UNCHANGED <<tree, sources, versions, treeEdits>>
    BY ScanTyped DEF ScanOK, DeadlinePasses, Go
<1>2. /\ h \in ScanRecords /\ SameRequest(g, h) /\ h.rules = g.rules /\ h.found = g.found
      /\ h.bundle = g.bundle /\ h.pc = "find" /\ h.cut
    BY <1>1 DEF ScanRecords, StopWalk, SameRequest
<1> HIDE DEF g, h
<1>3. FoundOK(h)
  <2>1. p = WalkOrder[g.at] OBVIOUS
  <2> HIDE DEF p
  <2> QED BY <1>1, <1>2, <2>1, WalkStep
<1> QED BY <1>1, <1>2, <1>3, WalkMoves DEF g

\* The document found is of the request's origin, and nothing is bundled yet.
LEMMA FindDocumentKeeps ==
    ASSUME ScanInv, NEW s \in Scans, FindDocument(s)
    PROVE ScanInv'
<1> DEFINE g == scan[s]
<1>1. g \in ScanRecords /\ AskedOK(g) /\ CopyOK(g) /\ FoundOK(g) /\ BundleOK(g) /\ OriginOK(g)
    BY ScanTyped DEF ScanOK
<1>2. scan[s].pc # "ended" /\ g.pc = "find" /\ UNCHANGED <<tree, sources, versions, treeEdits>>
    BY DEF FindDocument
<1>3. sources \in Seq(SourceRecords) BY DEF ScanInv, ScanTypeOK
<1>4. PICK d \in Nat :
        /\ scan' = [scan EXCEPT ![s] = [g EXCEPT !.pc = "bundle", !.at = 1, !.document = d]]
        /\ d # 0 => d \in DOMAIN sources /\ sources[d].kind = g.kind /\ sources[d].upload = g.upload
  <2>1. CASE scan[s].document # 0 /\ Go(s, [scan[s] EXCEPT !.pc = "bundle", !.at = 1])
    <3>1. g.document \in Nat BY <1>1 DEF ScanRecords
    <3>2. [g EXCEPT !.pc = "bundle", !.at = 1]
            = [g EXCEPT !.pc = "bundle", !.at = 1, !.document = g.document]
        BY <1>1 DEF ScanRecords
    <3>3. /\ g.document \in DOMAIN sources
          /\ sources[g.document].kind = g.kind /\ sources[g.document].upload = g.upload
        BY <1>1, <1>2, <2>1 DEF OriginOK
    <3> QED BY <2>1, <3>1, <3>2, <3>3 DEF Go
  <2>2. CASE /\ scan[s].document = 0
             /\ LET Same == {d \in DOMAIN sources : sources[d].kind = scan[s].kind
                                                    /\ sources[d].upload = scan[s].upload}
                IN \E d \in IF Same = {} THEN {0} ELSE Same :
                     Go(s, [scan[s] EXCEPT !.pc = "bundle", !.at = 1, !.document = d])
    <3> DEFINE Same == {d \in DOMAIN sources : sources[d].kind = scan[s].kind
                                               /\ sources[d].upload = scan[s].upload}
    <3>1. PICK d \in IF Same = {} THEN {0} ELSE Same :
             Go(s, [scan[s] EXCEPT !.pc = "bundle", !.at = 1, !.document = d])
        BY <2>2
    <3>2. d = 0 \/ d \in Same OBVIOUS
    <3>3. DOMAIN sources \subseteq Nat /\ 0 \in Nat BY <1>3
    <3>4. d \in Nat BY <3>2, <3>3
    <3>5. 0 \notin DOMAIN sources BY <1>3
    <3> QED BY <3>1, <3>2, <3>4 DEF Go
  <2> QED BY <2>1, <2>2 DEF FindDocument
<1> DEFINE h == [g EXCEPT !.pc = "bundle", !.at = 1, !.document = d]
<1>5. h \in ScanRecords BY <1>1 DEF ScanRecords
<1>6. /\ h.pc = "bundle" /\ h.at = 1 /\ h.document = d /\ h.kind = g.kind /\ h.upload = g.upload
      /\ h.copy = g.copy /\ h.during = g.during /\ h.rules = g.rules /\ h.found = g.found
      /\ h.cut = g.cut /\ h.bundle = g.bundle
    BY <1>1 DEF ScanRecords
<1>7. scan' = [scan EXCEPT ![s] = h] BY <1>4
<1> HIDE DEF g, h
<1>8. ScanOK(h)
  <2>1. AskedOK(h) BY <1>1, <1>2, <1>6 DEF AskedOK
  <2>2. CopyOK(h) BY <1>1, <1>2, <1>6 DEF CopyOK, Fits
  <2>3. FoundOK(h) BY <1>1, <1>2, <1>6 DEF FoundOK, Walking, Fits
  <2>4. BundleOK(h)
    <3>1. PathOrder \in Seq(Files) /\ Len(PathOrder) >= 1 BY OrdersList
    <3>2. 1 \in DOMAIN PathOrder /\ \A p : ~Passed(h, PathOrder, p) BY <1>6, <3>1 DEF Passed
    <3>3. h.bundle = {} BY <1>1, <1>2, <1>6 DEF BundleOK
    <3> QED BY <1>6, <3>2, <3>3 DEF BundleOK
  <2>5. OriginOK(h) BY <1>4, <1>6 DEF OriginOK
  <2> QED BY <2>1, <2>2, <2>3, <2>4, <2>5 DEF ScanOK
<1> QED BY <1>2, <1>5, <1>7, <1>8, OneScanMoves

\* A step of the second reading: the bundle has what of the listing is at this path and to be kept.
LEMMA BundleStep ==
    ASSUME NEW g \in ScanRecords, NEW h \in ScanRecords, FoundOK(g), BundleOK(g), g.pc = "bundle",
           SameRequest(g, h), h.found = g.found,
           NEW p, p = PathOrder[g.at], NEW c \in Held,
           c \in g.during[p] \/ c = NoFile, g.kind # "directory" => c = g.copy[p],
           NEW Kept, Kept = {f \in g.found : f.path = p /\ f.hash \notin BinaryContents
                                             /\ p \notin Generated},
           c # NoFile \/ Kept = {},
           h.bundle = g.bundle \cup {[path |-> p, hash |-> f.hash, content |-> c] : f \in Kept},
           \/ h.pc = "bundle" /\ h.at = g.at + 1 /\ g.at # Len(PathOrder)
           \/ h.pc = "accept" /\ g.at = Len(PathOrder)
    PROVE BundleOK(h)
<1>1. /\ PathOrder \in Seq(Files) /\ Len(PathOrder) >= 1
      /\ \A q \in Files : \E i \in DOMAIN PathOrder : PathOrder[i] = q
      /\ \A i, j \in DOMAIN PathOrder : PathOrder[i] = PathOrder[j] => i = j
    BY OrdersList
<1>2. g.at \in 1 .. Len(PathOrder) /\ Len(PathOrder) \in Nat /\ DOMAIN PathOrder = 1 .. Len(PathOrder)
      /\ p \in Files
    BY <1>1 DEF BundleOK
<1>3. /\ \A f \in g.bundle :
            /\ [path |-> f.path, hash |-> f.hash] \in g.found
            /\ f.path \notin Generated /\ f.content \in g.during[f.path]
            /\ g.kind # "directory" => f.content = g.copy[f.path]
            /\ Passed(g, PathOrder, f.path)
      /\ \A e, f \in g.bundle : e.path = f.path => e = f
      /\ \A f \in g.found :
            /\ Passed(g, PathOrder, f.path)
            /\ f.hash \notin BinaryContents /\ f.path \notin Generated
            => \E e \in g.bundle : e.path = f.path /\ e.hash = f.hash
    BY DEF BundleOK, Bundling
<1>4. ~Passed(g, PathOrder, p) BY <1>1, <1>2 DEF Passed
<1>5. h.pc = "bundle" =>
        /\ h.at \in DOMAIN PathOrder
        /\ \A q : Passed(h, PathOrder, q) <=> Passed(g, PathOrder, q) \/ q = p
  <2> SUFFICES ASSUME h.pc = "bundle"
               PROVE /\ h.at \in DOMAIN PathOrder
                     /\ \A q : Passed(h, PathOrder, q) <=> Passed(g, PathOrder, q) \/ q = p
      OBVIOUS
  <2>1. h.at = g.at + 1 /\ h.at \in DOMAIN PathOrder BY <1>2
  <2>2. \A i \in DOMAIN PathOrder : i < h.at <=> i < g.at \/ i = g.at BY <1>2, <2>1
  <2> QED BY <1>2, <2>1, <2>2 DEF Passed
<1>6. h.pc # "bundle" => \A q \in Files : Passed(g, PathOrder, q) \/ q = p
    BY <1>1, <1>2 DEF Passed
<1>7. /\ \A f \in g.found : [path |-> f.path, hash |-> f.hash] = f /\ f.path \in Files
      /\ \A e, f \in g.found : e.path = f.path => e = f
  <2>1. g.found \subseteq [path : Files, hash : Contents] BY DEF ScanRecords, Listings
  <2>2. \A f \in [path : Files, hash : Contents] : [path |-> f.path, hash |-> f.hash] = f
                                                   /\ f.path \in Files
      OBVIOUS
  <2> QED BY <2>1, <2>2 DEF FoundOK, Walking
<1>8. h.kind = g.kind /\ h.during = g.during /\ h.copy = g.copy BY DEF SameRequest
<1>9. ASSUME NEW e \in h.bundle, e \notin g.bundle
      PROVE \E f \in Kept : e = [path |-> p, hash |-> f.hash, content |-> c]
    BY <1>9
<1>10. ASSUME NEW e \in h.bundle
       PROVE /\ [path |-> e.path, hash |-> e.hash] \in h.found
             /\ e.path \notin Generated /\ e.content \in h.during[e.path]
             /\ h.kind # "directory" => e.content = h.copy[e.path]
             /\ Passed(g, PathOrder, e.path) \/ e.path = p
  <2>1. CASE e \in g.bundle BY <1>3, <1>8, <2>1
  <2>2. CASE e \notin g.bundle
    <3>1. PICK f \in Kept : e = [path |-> p, hash |-> f.hash, content |-> c] BY <1>9, <2>2
    <3>2. e.path = p /\ e.hash = f.hash /\ e.content = c BY <3>1
    <3>3. f \in g.found /\ f.path = p /\ p \notin Generated OBVIOUS
    <3>4. c \in g.during[p] OBVIOUS
    <3> QED BY <1>7, <1>8, <3>2, <3>3, <3>4
  <2> QED BY <2>1, <2>2
<1>11. ASSUME NEW e \in h.bundle, NEW f \in h.bundle, e.path = f.path
       PROVE e = f
  <2>1. CASE e \in g.bundle /\ f \in g.bundle BY <1>3, <1>11, <2>1
  <2>2. CASE e \notin g.bundle /\ f \notin g.bundle
    <3>1. PICK a \in Kept : e = [path |-> p, hash |-> a.hash, content |-> c] BY <1>9, <2>2
    <3>2. PICK b \in Kept : f = [path |-> p, hash |-> b.hash, content |-> c] BY <1>9, <2>2
    <3>3. a = b BY <1>7
    <3> QED BY <3>1, <3>2, <3>3
  <2>3. \A d \in h.bundle : d \notin g.bundle => d.path = p BY <1>9
  <2>4. \A d \in g.bundle : d.path # p BY <1>3, <1>4
  <2> QED BY <1>11, <2>1, <2>2, <2>3, <2>4
<1>12. ASSUME NEW f \in h.found, h.pc = "bundle" => Passed(h, PathOrder, f.path),
              f.hash \notin BinaryContents, f.path \notin Generated
       PROVE \E e \in h.bundle : e.path = f.path /\ e.hash = f.hash
  <2>1. f.path \in Files BY <1>7
  <2>2. CASE Passed(g, PathOrder, f.path) BY <1>3, <1>12, <2>2
  <2>3. CASE f.path = p
    <3>1. f \in Kept BY <1>12, <2>3
    <3>2. [path |-> p, hash |-> f.hash, content |-> c] \in h.bundle BY <3>1
    <3> QED BY <2>3, <3>2
  <2> QED BY <1>5, <1>6, <1>12, <2>1, <2>2, <2>3
<1>13. h.pc \in {"bundle", "accept"} OBVIOUS
<1>14. h.pc = "bundle" => \A e \in h.bundle : Passed(h, PathOrder, e.path) BY <1>5, <1>10
<1> QED BY <1>5, <1>10, <1>11, <1>12, <1>13, <1>14 DEF BundleOK, Bundling

\* One file of the second reading: it is not kept, it is gone, or it joins the bundle.
LEMMA BundleFileKeeps ==
    ASSUME ScanInv, NEW s \in Scans, BundleFile(s)
    PROVE ScanInv'
<1> DEFINE g == scan[s]
           p == PathOrder[g.at]
           c == Seeing(s, p)
           Kept == {f \in g.found : f.path = p /\ f.hash \notin BinaryContents /\ p \notin Generated}
           new == {[path |-> p, hash |-> f.hash, content |-> c] : f \in Kept}
           k == [g EXCEPT !.bundle = @ \cup new]
           h == Bundled(k)
<1>1. g \in ScanRecords /\ AskedOK(g) /\ CopyOK(g) /\ FoundOK(g) /\ BundleOK(g) /\ OriginOK(g)
    BY ScanTyped DEF ScanOK
<1>2. scan[s].pc \notin {"idle", "ended"} /\ scan[s].pc = "bundle" /\ g.pc = "bundle"
      /\ UNCHANGED <<tree, sources, versions, treeEdits>>
    BY DEF BundleFile
<1>3. p \in Files /\ g.at \in 1 .. Len(PathOrder) /\ Len(PathOrder) \in Nat
  <2>1. PathOrder \in Seq(Files) BY OrdersList
  <2>2. g.at \in DOMAIN PathOrder BY <1>1, <1>2 DEF BundleOK
  <2> QED BY <2>1, <2>2
<1>4. c \in Held /\ (c \in g.during[p] \/ c = NoFile) /\ (g.kind # "directory" => c = g.copy[p])
  <2> HIDE DEF p
  <2> QED BY <1>2, <1>3, SeesWhatWasHeld
<1>5. CASE FailScan(s) BY <1>2, <1>5, FailedIsFine
<1>6. ASSUME c # NoFile \/ Kept = {}, scan' = [scan EXCEPT ![s] = h]
      PROVE ScanInv'
  <2>1. new \in Bundles
    <3>1. \A f \in Kept : f.hash \in Contents BY <1>1 DEF ScanRecords, Listings
    <3>2. Kept # {} => c \in Contents BY <1>4, <1>6 DEF Held
    <3> HIDE DEF c, p, Kept
    <3> QED BY <1>3, <3>1, <3>2 DEF Bundles
  <2> HIDE DEF new
  <2>2. k \in ScanRecords BY <1>1, <2>1 DEF ScanRecords, Bundles
  <2>3. /\ k.bundle = g.bundle \cup new /\ k.pc = g.pc /\ k.at = g.at /\ k.cut = g.cut
        /\ k.found = g.found /\ k.rules = g.rules /\ SameRequest(g, k)
      BY <1>1 DEF ScanRecords, SameRequest
  <2> HIDE DEF g, k
  <2>4. g.at \in Nat BY <1>3
  <2>5. /\ h \in ScanRecords /\ h.bundle = k.bundle /\ h.cut = k.cut /\ h.found = k.found
        /\ h.rules = k.rules /\ SameRequest(k, h)
        /\ \/ h.pc = "bundle" /\ h.at = g.at + 1 /\ g.at # Len(PathOrder)
           \/ h.pc = "accept" /\ g.at = Len(PathOrder)
    <3>1. CASE g.at = Len(PathOrder)
      <4>1. h = [k EXCEPT !.pc = "accept"] BY <2>3, <3>1 DEF Bundled
      <4> QED BY <2>2, <3>1, <4>1 DEF ScanRecords, SameRequest
    <3>2. CASE g.at # Len(PathOrder)
      <4>1. h = [k EXCEPT !.at = g.at + 1] BY <2>3, <3>2 DEF Bundled
      <4>2. g.at + 1 \in Nat BY <2>4
      <4>3. h \in ScanRecords BY <2>2, <4>1, <4>2 DEF ScanRecords
      <4>4. h.at = g.at + 1 /\ h.pc = k.pc BY <2>2, <4>1 DEF ScanRecords
      <4>5. /\ h.bundle = k.bundle /\ h.cut = k.cut /\ h.found = k.found
            /\ h.rules = k.rules /\ SameRequest(k, h)
          BY <2>2, <4>1 DEF ScanRecords, SameRequest
      <4> QED BY <1>2, <2>3, <3>2, <4>3, <4>4, <4>5
    <3> QED BY <3>1, <3>2
  <2>6. SameRequest(g, h) BY <2>3, <2>5 DEF SameRequest
  <2>7. h.found = g.found /\ h.rules = g.rules /\ h.cut = g.cut /\ h.bundle = g.bundle \cup new
        /\ h.pc \in {"bundle", "accept"}
      BY <2>3, <2>5
  <2> HIDE DEF h
  <2>8. BundleOK(h)
    <3>1. p = PathOrder[g.at] OBVIOUS
    <3>2. Kept = {f \in g.found : f.path = p /\ f.hash \notin BinaryContents /\ p \notin Generated}
        OBVIOUS
    <3>3. new = {[path |-> p, hash |-> f.hash, content |-> c] : f \in Kept} BY DEF new
    <3> HIDE DEF p, c, Kept
    <3>4. h.bundle = g.bundle \cup {[path |-> p, hash |-> f.hash, content |-> c] : f \in Kept}
        BY <2>7, <3>3
    <3> QED BY <1>1, <1>2, <1>4, <1>6, <2>5, <2>6, <2>7, <3>1, <3>2, <3>4, BundleStep
  <2>9. FoundOK(h)
      BY <1>1, <1>2, <2>6, <2>7 DEF FoundOK, Walking, Fits, SameRequest
  <2>10. AskedOK(h) /\ CopyOK(h) BY <1>1, <1>2, <2>6, <2>7, RequestGoesOn
  <2>11. OriginOK(h) BY <1>1, <1>2, <2>6, <2>7 DEF OriginOK, SameRequest
  <2>12. ScanOK(h) BY <2>8, <2>9, <2>10, <2>11 DEF ScanOK
  <2>13. scan[s].pc # "ended" BY <1>2
  <2> QED BY <1>2, <1>6, <2>5, <2>12, <2>13, OneScanMoves
<1>7. ASSUME Kept = {}, Go(s, Bundled(g)) PROVE ScanInv'
  <2>1. new = {} BY <1>7
  <2>2. k = g BY <1>1, <2>1 DEF ScanRecords
  <2>3. scan' = [scan EXCEPT ![s] = h] BY <1>7, <2>2 DEF Go
  <2> QED BY <1>6, <1>7, <2>3
<1>8. ASSUME c # NoFile, Go(s, h) PROVE ScanInv' BY <1>6, <1>8 DEF Go
<1> QED BY <1>5, <1>7, <1>8 DEF BundleFile

\* A repetition is answered with a version of its own key.
LEMMA ReplayKeeps ==
    ASSUME ScanInv, NEW s \in Scans, Replay(s)
    PROVE ScanInv'
<1> DEFINE g == scan[s]
<1>1. g \in ScanRecords /\ AskedOK(g) /\ CopyOK(g) /\ FoundOK(g) /\ BundleOK(g) /\ OriginOK(g)
    BY ScanTyped DEF ScanOK
<1>2. scan[s].pc # "ended" /\ g.pc = "accept" /\ UNCHANGED <<tree, sources, versions, treeEdits>>
    BY DEF Replay
<1>3. PICK v \in DOMAIN versions :
        versions[v].key = Key(s)
        /\ scan' = [scan EXCEPT ![s] = [g EXCEPT !.pc = "ended", !.answer = v]]
    BY DEF Replay, Go
<1>4. /\ versions[v].key.kind = g.kind /\ versions[v].key.bundle = g.bundle
      /\ versions[v].key.revision.upload = g.upload
    BY <1>3 DEF Key, Revision
<1> DEFINE h == [g EXCEPT !.pc = "ended", !.answer = v]
<1>5. v \in Nat
  <2>1. versions \in Seq(VersionRecords) BY DEF ScanInv, ScanTypeOK
  <2> QED BY <2>1
<1>6. h \in ScanRecords BY <1>1, <1>5 DEF ScanRecords
<1>7. /\ h.pc = "ended" /\ h.answer = v /\ SameRequest(g, h) /\ h.rules = g.rules
      /\ h.found = g.found /\ h.cut = g.cut /\ h.bundle = g.bundle
    BY <1>1 DEF ScanRecords, SameRequest
<1>8. scan' = [scan EXCEPT ![s] = h] BY <1>3
<1> HIDE DEF g, h
<1>9. ScanOK(h)
  <2>1. AskedOK(h) /\ CopyOK(h) BY <1>1, <1>2, <1>7, RequestGoesOn
  <2>2. FoundOK(h) BY <1>1, <1>2, <1>7 DEF FoundOK, Walking, Fits, SameRequest
  <2>3. BundleOK(h) BY <1>1, <1>2, <1>7 DEF BundleOK, Bundling, SameRequest
  <2>4. OriginOK(h) BY <1>1, <1>2, <1>4, <1>7 DEF OriginOK, SameRequest
  <2> QED BY <2>1, <2>2, <2>3, <2>4 DEF ScanOK
<1> QED BY <1>2, <1>6, <1>8, <1>9, OneScanMoves

-----------------------------------------------------------------------------
(***************************************************************************)
(* Steps that write the documents, their versions or the source            *)
(***************************************************************************)

\* A request's record stays fine as documents and versions are added and versions are activated.
LEMMA RecordsGrow ==
    ASSUME ScanInv, NEW s \in Scans, scan'[s] = scan[s], tree' = tree,
           \A d \in DOMAIN sources :
              /\ d \in DOMAIN sources'
              /\ sources'[d].kind = sources[d].kind /\ sources'[d].upload = sources[d].upload,
           \A v \in DOMAIN versions : v \in DOMAIN versions' /\ versions'[v].key = versions[v].key
    PROVE ScanOK(scan[s])'
<1>1. ScanOK(scan[s]) BY ScanTyped
<1>2. AskedOK(scan[s])' BY <1>1 DEF ScanOK, AskedOK, NoTree
<1>3. CopyOK(scan[s])' BY <1>1 DEF ScanOK, CopyOK, Fits
<1>4. FoundOK(scan[s])' BY <1>1 DEF ScanOK, FoundOK, Fits, Passed
<1>5. BundleOK(scan[s])' BY <1>1 DEF ScanOK, BundleOK, Passed
<1>6. OriginOK(scan[s])' BY <1>1 DEF ScanOK, OriginOK
<1> QED BY <1>2, <1>3, <1>4, <1>5, <1>6 DEF ScanOK

\* An accepted bundle makes a version of a document of its origin.
LEMMA AcceptKeeps ==
    ASSUME ScanInv, NEW s \in Scans, Accept(s)
    PROVE ScanInv'
<1> DEFINE g == scan[s]
           d == IF g.document = 0 THEN Len(sources) + 1 ELSE g.document
           source == [kind |-> g.kind, upload |-> g.upload, active |-> 0]
           version == [document |-> d, key |-> Key(s), status |-> "pending",
                       config |-> g.config, bundle |-> g.bundle, by |-> s]
           h == [g EXCEPT !.pc = "ended", !.answer = Len(versions) + 1]
<1>1. g \in ScanRecords /\ AskedOK(g) /\ CopyOK(g) /\ FoundOK(g) /\ BundleOK(g) /\ OriginOK(g)
    BY ScanTyped DEF ScanOK
<1>2. g.pc = "accept" /\ scan' = [scan EXCEPT ![s] = h] /\ versions' = Append(versions, version)
      /\ sources' = (IF d \in DOMAIN sources THEN sources ELSE Append(sources, source))
      /\ tree' = tree /\ treeEdits' = treeEdits
    BY DEF Accept, Go
<1>3. sources \in Seq(SourceRecords) /\ versions \in Seq(VersionRecords)
      /\ Len(sources) \in Nat /\ Len(versions) \in Nat /\ scan \in [Scans -> ScanRecords]
    BY DEF ScanInv, ScanTypeOK
<1>4. g.kind \in Kinds /\ (g.kind # "archive" => g.upload = NoTree) BY <1>1, <1>2 DEF AskedOK
<1>5. source \in SourceRecords BY <1>1, <1>4 DEF SourceRecords, ScanRecords
<1>6. d \in Nat BY <1>1, <1>3 DEF ScanRecords
<1>7. Key(s) \in ScanKeys /\ Key(s).kind = g.kind /\ Key(s).bundle = g.bundle
      /\ Key(s).revision.upload = g.upload
  <2>1. (IF g.kind = "directory" THEN g.found ELSE {}) \in Listings
      BY <1>1 DEF ScanRecords, Listings
  <2> QED BY <1>1, <2>1 DEF Key, Revision, ScanKeys, ScanRecords
<1>8. version \in VersionRecords
  <2>1. g.config \in ScanConfigs /\ g.bundle \in Bundles BY <1>1 DEF ScanRecords
  <2> HIDE DEF g, d
  <2> QED BY <1>6, <1>7, <2>1 DEF VersionRecords
<1>9. h \in ScanRecords
  <2>1. Len(versions) + 1 \in Nat BY <1>3
  <2> HIDE DEF g, d
  <2> QED BY <1>1, <2>1 DEF ScanRecords
<1>10. /\ h.pc = "ended" /\ h.answer = Len(versions) + 1 /\ SameRequest(g, h) /\ h.rules = g.rules
       /\ h.found = g.found /\ h.cut = g.cut /\ h.bundle = g.bundle
    BY <1>1 DEF ScanRecords, SameRequest
<1>11. /\ version.document = d /\ version.key = Key(s) /\ version.bundle = g.bundle
       /\ version.by = s
       /\ source.kind = g.kind /\ source.upload = g.upload /\ source.active = 0
    OBVIOUS
<1>12. g.document # 0 => g.document \in DOMAIN sources
          /\ sources[g.document].kind = g.kind /\ sources[g.document].upload = g.upload
    BY <1>1, <1>2 DEF OriginOK
<1> HIDE DEF h, version, source
<1>13. /\ sources' \in Seq(SourceRecords)
       /\ \A c \in DOMAIN sources : c \in DOMAIN sources' /\ sources'[c] = sources[c]
       /\ d \in DOMAIN sources' /\ sources'[d].kind = g.kind /\ sources'[d].upload = g.upload
       /\ \A c \in DOMAIN sources' : c \in DOMAIN sources \/ sources'[c] = source
  <2>1. CASE g.document # 0
    <3>1. sources' = sources BY <1>2, <1>12, <2>1
    <3> QED BY <1>3, <1>12, <2>1, <3>1
  <2>2. CASE g.document = 0
    <3>1. d = Len(sources) + 1 /\ d \notin DOMAIN sources BY <1>3, <2>2
    <3>2. sources' = Append(sources, source) BY <1>2, <3>1
    <3> HIDE DEF d, g
    <3> QED BY <1>3, <1>5, <1>11, <3>1, <3>2
  <2> QED BY <2>1, <2>2
<1>14. /\ versions' \in Seq(VersionRecords) /\ Len(versions') = Len(versions) + 1
       /\ \A v \in DOMAIN versions : v \in DOMAIN versions' /\ versions'[v] = versions[v]
       /\ Len(versions) + 1 \in DOMAIN versions' /\ versions'[Len(versions) + 1] = version
       /\ \A v \in DOMAIN versions' : v \in DOMAIN versions \/ v = Len(versions) + 1
    BY <1>2, <1>3, <1>8
<1>15. scan'[s] = h /\ \A r \in Scans : r # s => scan'[r] = scan[r] BY <1>2, <1>3
<1>16. ScanTypeOK' BY <1>2, <1>9, <1>13, <1>14 DEF ScanInv, ScanTypeOK
<1>17. ScanOK(scan[s])'
  <2> HIDE DEF g
  <2>1. AskedOK(h) /\ CopyOK(h) BY <1>1, <1>2, <1>10, RequestGoesOn
  <2>2. FoundOK(h) BY <1>1, <1>2, <1>10 DEF FoundOK, Walking, Fits, SameRequest
  <2>3. BundleOK(h) BY <1>1, <1>2, <1>10 DEF BundleOK, Bundling, SameRequest
  <2>4. AskedOK(scan[s])' BY <1>2, <1>15, <2>1 DEF AskedOK, NoTree
  <2>5. CopyOK(scan[s])' BY <1>15, <2>1 DEF CopyOK, Fits
  <2>6. FoundOK(scan[s])' BY <1>15, <2>2 DEF FoundOK, Fits, Passed
  <2>7. BundleOK(scan[s])' BY <1>15, <2>3 DEF BundleOK, Passed
  <2>8. OriginOK(scan[s])'
      BY <1>7, <1>10, <1>11, <1>12, <1>13, <1>14, <1>15 DEF OriginOK, SameRequest
  <2> QED BY <2>4, <2>5, <2>6, <2>7, <2>8 DEF ScanOK
<1>18. (\A r \in Scans : ScanOK(scan[r]))'
  <2> SUFFICES ASSUME NEW r \in Scans PROVE ScanOK(scan[r])'
      OBVIOUS
  <2> CASE r # s BY <1>2, <1>13, <1>14, <1>15, RecordsGrow
  <2> CASE r = s BY <1>17
  <2> QED OBVIOUS
<1>19. (\A v \in DOMAIN versions : VersionOK(versions[v]))'
  <2> SUFFICES ASSUME NEW v \in DOMAIN versions' PROVE VersionOK(versions[v])'
      OBVIOUS
  <2>1. CASE v \in DOMAIN versions
    <3>1. VersionOK(versions[v]) /\ versions'[v] = versions[v] BY <1>14, <2>1 DEF ScanInv
    <3>2. versions[v].by \in Scans
      <4>1. versions[v] \in VersionRecords BY <1>3, <2>1
      <4> QED BY <4>1 DEF VersionRecords
    <3>3. scan'[versions[v].by] = scan[versions[v].by]
      <4>1. scan[versions[v].by].pc = "ended" BY <3>1 DEF VersionOK
      <4>2. versions[v].by # s BY <1>2, <4>1
      <4> QED BY <1>15, <3>2, <4>2
    <3> QED BY <1>13, <3>1, <3>3 DEF VersionOK
  <2>2. CASE v = Len(versions) + 1
    <3> HIDE DEF g, d
    <3>1. versions'[v] = version BY <1>14, <2>2
    <3> QED BY <1>7, <1>10, <1>11, <1>13, <1>15, <3>1 DEF VersionOK
  <2> QED BY <1>14, <2>1, <2>2
<1>20. (\A c \in DOMAIN sources : SourceOK(sources[c]))'
  <2> SUFFICES ASSUME NEW c \in DOMAIN sources' PROVE SourceOK(sources[c])'
      OBVIOUS
  <2>1. CASE c \in DOMAIN sources
    <3>1. SourceOK(sources[c]) /\ sources'[c] = sources[c] BY <1>13, <2>1 DEF ScanInv
    <3> QED BY <1>3, <1>14, <3>1 DEF SourceOK, NoTree
  <2>2. CASE sources'[c] = source
    <3> HIDE DEF g
    <3> QED BY <1>3, <1>4, <1>11, <1>14, <2>2 DEF SourceOK, NoTree
  <2> QED BY <1>13, <2>1, <2>2
<1> QED BY <1>16, <1>18, <1>19, <1>20 DEF ScanInv

\* The steps of a job write no more than a status and the active version.
LEMMA JobKeeps ==
    ASSUME ScanInv, UNCHANGED <<tree, scan, treeEdits>>,
           sources' \in Seq(SourceRecords), versions' \in Seq(VersionRecords),
           Len(versions') = Len(versions), Len(sources') = Len(sources),
           \A d \in DOMAIN sources :
              /\ sources'[d].kind = sources[d].kind /\ sources'[d].upload = sources[d].upload
              /\ sources'[d].active \in 0 .. Len(versions),
           \A v \in DOMAIN versions :
              /\ versions'[v].key = versions[v].key /\ versions'[v].by = versions[v].by
              /\ versions'[v].bundle = versions[v].bundle
              /\ versions'[v].document = versions[v].document
    PROVE ScanInv'
<1>1. sources \in Seq(SourceRecords) /\ versions \in Seq(VersionRecords)
    BY DEF ScanInv, ScanTypeOK
<1>2. DOMAIN sources' = DOMAIN sources /\ DOMAIN versions' = DOMAIN versions BY <1>1
<1>3. ScanTypeOK' BY DEF ScanInv, ScanTypeOK
<1>4. (\A s \in Scans : ScanOK(scan[s]))'
  <2> SUFFICES ASSUME NEW s \in Scans PROVE ScanOK(scan[s])'
      OBVIOUS
  <2> QED BY <1>2, RecordsGrow
<1>5. (\A v \in DOMAIN versions : VersionOK(versions[v]))'
  <2> SUFFICES ASSUME NEW v \in DOMAIN versions PROVE VersionOK(versions[v])'
      BY <1>2
  <2>1. VersionOK(versions[v]) BY DEF ScanInv
  <2> QED BY <1>2, <2>1 DEF VersionOK
<1>6. (\A d \in DOMAIN sources : SourceOK(sources[d]))'
  <2> SUFFICES ASSUME NEW d \in DOMAIN sources PROVE SourceOK(sources[d])'
      BY <1>2
  <2>1. SourceOK(sources[d]) BY DEF ScanInv
  <2> QED BY <2>1 DEF SourceOK, NoTree
<1> QED BY <1>3, <1>4, <1>5, <1>6 DEF ScanInv

\* A job that succeeds activates its version and supersedes the one before.
LEMMA IngestVersionKeeps ==
    ASSUME ScanInv, NEW v \in DOMAIN versions, IngestVersion(v)
    PROVE ScanInv'
<1> DEFINE d == versions[v].document
           now(w) == IF w = v THEN [versions[w] EXCEPT !.status = "ready"]
                     ELSE IF w = sources[d].active THEN [versions[w] EXCEPT !.status = "superseded"]
                     ELSE versions[w]
<1>1. sources \in Seq(SourceRecords) /\ versions \in Seq(VersionRecords)
      /\ DOMAIN versions = 1 .. Len(versions) /\ Len(versions) \in Nat
      /\ DOMAIN sources = 1 .. Len(sources) /\ Len(sources) \in Nat
    BY DEF ScanInv, ScanTypeOK
<1>2. versions' = [w \in DOMAIN versions |-> now(w)]
      /\ sources' = [sources EXCEPT ![d].active = v] /\ UNCHANGED <<tree, scan, treeEdits>>
    BY DEF IngestVersion
<1>3. ASSUME NEW w \in DOMAIN versions
      PROVE /\ now(w) \in VersionRecords /\ now(w).key = versions[w].key
            /\ now(w).by = versions[w].by /\ now(w).bundle = versions[w].bundle
            /\ now(w).document = versions[w].document
  <2>1. versions[w] \in VersionRecords BY <1>1
  <2> QED BY <2>1 DEF VersionRecords
<1>4. d \in DOMAIN sources BY DEF ScanInv, VersionOK
<1>5. ASSUME NEW c \in DOMAIN sources
      PROVE /\ sources'[c] \in SourceRecords
            /\ sources'[c].kind = sources[c].kind /\ sources'[c].upload = sources[c].upload
            /\ sources'[c].active \in 0 .. Len(versions)
  <2>1. sources[c] \in SourceRecords /\ sources[c].active \in 0 .. Len(versions)
      BY <1>1 DEF ScanInv, SourceOK
  <2>2. sources'[c] = IF c = d THEN [sources[c] EXCEPT !.active = v] ELSE sources[c]
      BY <1>1, <1>2, <1>4
  <2>3. v \in Nat /\ v \in 0 .. Len(versions) BY <1>1
  <2> HIDE DEF d
  <2>4. [sources[c] EXCEPT !.active = v] \in SourceRecords BY <2>1, <2>3 DEF SourceRecords
  <2>5. [sources[c] EXCEPT !.active = v].active = v
        /\ [sources[c] EXCEPT !.active = v].kind = sources[c].kind
        /\ [sources[c] EXCEPT !.active = v].upload = sources[c].upload
      BY <2>1 DEF SourceRecords
  <2> QED BY <2>1, <2>2, <2>3, <2>4, <2>5
<1> HIDE DEF now, d
<1>6. versions' \in [1 .. Len(versions) -> VersionRecords] BY <1>1, <1>2, <1>3
<1>7. versions' \in Seq(VersionRecords) /\ Len(versions') = Len(versions)
    BY <1>1, <1>6
<1>8. sources' \in [1 .. Len(sources) -> SourceRecords] BY <1>1, <1>2, <1>5
<1>9. sources' \in Seq(SourceRecords) /\ Len(sources') = Len(sources) BY <1>1, <1>8
<1>10. \A w \in DOMAIN versions : versions'[w] = now(w) BY <1>2
<1> QED BY <1>2, <1>3, <1>5, <1>7, <1>9, <1>10, JobKeeps

\* A job that fails leaves its version where it was.
LEMMA JobFailsKeeps ==
    ASSUME ScanInv, NEW v \in DOMAIN versions, JobFails(v)
    PROVE ScanInv'
<1>1. sources \in Seq(SourceRecords) /\ versions \in Seq(VersionRecords)
      /\ DOMAIN versions = 1 .. Len(versions) /\ Len(versions) \in Nat
    BY DEF ScanInv, ScanTypeOK
<1>2. versions' = [versions EXCEPT ![v].status = "failed"]
      /\ sources' = sources /\ UNCHANGED <<tree, scan, treeEdits>>
    BY DEF JobFails
<1>3. ASSUME NEW w \in DOMAIN versions
      PROVE /\ versions'[w] \in VersionRecords /\ versions'[w].key = versions[w].key
            /\ versions'[w].by = versions[w].by /\ versions'[w].bundle = versions[w].bundle
            /\ versions'[w].document = versions[w].document
  <2>1. versions[w] \in VersionRecords BY <1>1
  <2>2. versions'[w] = IF w = v THEN [versions[w] EXCEPT !.status = "failed"] ELSE versions[w]
      BY <1>1, <1>2
  <2> QED BY <2>1, <2>2 DEF VersionRecords
<1>4. versions' \in [1 .. Len(versions) -> VersionRecords] BY <1>1, <1>2, <1>3
<1>5. versions' \in Seq(VersionRecords) /\ Len(versions') = Len(versions) BY <1>1, <1>4
<1>6. \A d \in DOMAIN sources : sources[d].active \in 0 .. Len(versions)
    BY DEF ScanInv, SourceOK
<1> QED BY <1>1, <1>2, <1>3, <1>5, <1>6, JobKeeps

\* An edit: each running scan has seen one more content of the path.
LEMMA EditFileKeeps ==
    ASSUME ScanInv, NEW p \in Files, NEW c \in Held, EditFile(p, c)
    PROVE ScanInv'
<1> DEFINE seen(g) == [g EXCEPT !.during[p] = @ \cup {c}]
<1>1. /\ tree \in [Files -> Held] /\ scan \in [Scans -> ScanRecords] /\ treeEdits \in Nat
    BY DEF ScanInv, ScanTypeOK
<1>2. /\ tree' = [tree EXCEPT ![p] = c] /\ treeEdits' = treeEdits + 1
      /\ scan' = [s \in Scans |-> IF Running(s) THEN seen(scan[s]) ELSE scan[s]]
      /\ UNCHANGED <<sources, versions>>
    BY DEF EditFile
<1>3. /\ tree' \in [Files -> Held]
      /\ \A q \in Files : tree'[q] = IF q = p THEN c ELSE tree[q]
    BY <1>1, <1>2
<1>4. ASSUME NEW s \in Scans
      PROVE /\ scan'[s] \in ScanRecords /\ ScanOK(scan[s])'
            /\ scan[s].pc = "ended" => scan'[s] = scan[s]
  <2> DEFINE g == scan[s]
             h == scan'[s]
  <2>1. g \in ScanRecords /\ AskedOK(g) /\ CopyOK(g) /\ FoundOK(g) /\ BundleOK(g) /\ OriginOK(g)
      BY ScanTyped DEF ScanOK
  <2>2. CASE ~Running(s)
    <3>1. h = g BY <1>2, <2>2
    <3>2. g.pc \in {"idle", "ended", "failed"} BY <2>2 DEF Running
    <3>3. AskedOK(scan[s])' BY <2>1, <3>1, <3>2 DEF AskedOK, NoTree
    <3>4. CopyOK(scan[s])' BY <2>1, <3>1 DEF CopyOK, Fits
    <3>5. FoundOK(scan[s])' BY <2>1, <3>1 DEF FoundOK, Fits, Passed
    <3>6. BundleOK(scan[s])' BY <2>1, <3>1 DEF BundleOK, Passed
    <3>7. OriginOK(scan[s])' BY <1>2, <2>1, <3>1 DEF OriginOK
    <3> QED BY <2>1, <3>1, <3>3, <3>4, <3>5, <3>6, <3>7 DEF ScanOK
  <2>3. CASE Running(s)
    <3>1. g.pc \notin {"idle", "ended", "failed"} BY <2>3 DEF Running
    <3>2. h = seen(g) BY <1>2, <2>3
    <3>3. g.during \in [Files -> SUBSET Held] BY <2>1 DEF ScanRecords
    <3>4. h = [g EXCEPT !.during = [g.during EXCEPT ![p] = g.during[p] \cup {c}]]
        BY <2>1, <3>2
    <3>5. [g.during EXCEPT ![p] = g.during[p] \cup {c}] \in [Files -> SUBSET Held] BY <3>3
    <3>6. h \in ScanRecords BY <2>1, <3>4, <3>5 DEF ScanRecords
    <3>7. h.during = [g.during EXCEPT ![p] = g.during[p] \cup {c}] BY <2>1, <3>4 DEF ScanRecords
    <3>8. /\ h.pc = g.pc /\ h.kind = g.kind /\ h.upload = g.upload /\ h.document = g.document
          /\ h.copy = g.copy /\ h.rules = g.rules /\ h.at = g.at /\ h.found = g.found
          /\ h.cut = g.cut /\ h.bundle = g.bundle /\ h.answer = g.answer
        BY <2>1, <3>4 DEF ScanRecords
    <3>9. /\ \A q \in Files : g.during[q] \subseteq h.during[q] /\ g.during[q] # {}
          /\ c \in h.during[p]
          /\ \A q \in Files, b \in Contents : h.during[q] = {b} => g.during[q] = {b}
      <4>1. \A q \in Files : g.during[q] # {} BY <2>1, <3>1 DEF AskedOK
      <4> QED BY <3>3, <3>7, <4>1
    <3> HIDE DEF g, h
    <3>10. h = scan'[s] BY DEF h
    <3>11. AskedOK(scan[s])'
      <4>1. \A q \in Files : tree'[q] \in h.during[q]
          BY <1>3, <2>1, <3>1, <3>9 DEF AskedOK
      <4> QED BY <2>1, <3>1, <3>8, <3>9, <3>10, <4>1 DEF AskedOK, NoTree
    <3>12. CopyOK(scan[s])' BY <2>1, <3>8, <3>9, <3>10 DEF CopyOK, Fits
    <3>13. FoundOK(scan[s])'
      <4>1. \A f \in g.found : f.path \in Files BY <2>1 DEF ScanRecords, Listings
      <4> QED BY <2>1, <3>8, <3>9, <3>10, <4>1 DEF FoundOK, Fits, Passed
    <3>14. BundleOK(scan[s])'
      <4>1. \A f \in g.bundle : f.path \in Files BY <2>1 DEF ScanRecords, Bundles
      <4> QED BY <2>1, <3>8, <3>9, <3>10, <4>1 DEF BundleOK, Passed
    <3>15. OriginOK(scan[s])' BY <1>2, <2>1, <3>8, <3>10 DEF OriginOK
    <3> QED BY <3>1, <3>6, <3>10, <3>11, <3>12, <3>13, <3>14, <3>15 DEF ScanOK, g
  <2> QED BY <2>2, <2>3
<1>5. ScanTypeOK'
  <2>1. scan' \in [Scans -> ScanRecords] BY <1>2, <1>4
  <2> QED BY <1>1, <1>2, <1>3, <2>1 DEF ScanInv, ScanTypeOK
<1>6. (\A s \in Scans : ScanOK(scan[s]))' BY <1>4
<1>7. (\A v \in DOMAIN versions : VersionOK(versions[v]))'
  <2> SUFFICES ASSUME NEW v \in DOMAIN versions PROVE VersionOK(versions[v])'
      BY <1>2
  <2>1. VersionOK(versions[v]) /\ versions[v] \in VersionRecords BY DEF ScanInv, ScanTypeOK
  <2>2. versions[v].by \in Scans BY <2>1 DEF VersionRecords
  <2>3. scan'[versions[v].by] = scan[versions[v].by] BY <1>4, <2>1, <2>2 DEF VersionOK
  <2> QED BY <1>2, <2>1, <2>3 DEF VersionOK
<1>8. (\A d \in DOMAIN sources : SourceOK(sources[d]))'
    BY <1>2 DEF ScanInv, SourceOK, NoTree
<1> QED BY <1>5, <1>6, <1>7, <1>8 DEF ScanInv

-----------------------------------------------------------------------------
(***************************************************************************)
(* The theorem                                                             *)
(***************************************************************************)

\* No request and no version at first.
LEMMA InitScans == ScanInit => ScanInv
<1> SUFFICES ASSUME ScanInit PROVE ScanInv
    OBVIOUS
<1>1. tree \in [Files -> Held] BY ScanAssumption DEF ScanInit, Held
<1>2. NoScan \in ScanRecords
  <2>1. NoTree \in [Files -> Held] BY DEF NoTree, Held
  <2>2. AskedConfig \in ScanConfigs BY ScanAssumption
  <2>3. [q \in Files |-> {}] \in [Files -> SUBSET Held] OBVIOUS
  <2> QED BY <2>1, <2>2, <2>3 DEF NoScan, ScanRecords, Kinds, Listings, Bundles
<1>3. ScanTypeOK BY <1>1, <1>2 DEF ScanInit, ScanTypeOK
<1>4. ScanOK(NoScan)
  <2>1. /\ NoScan.pc = "idle" /\ NoScan.kind = "none" /\ NoScan.upload = NoTree
        /\ NoScan.document = 0 /\ NoScan.found = {} /\ NoScan.bundle = {} /\ NoScan.at = 1
        /\ NoScan.cut = FALSE
      BY DEF NoScan
  <2> QED BY <2>1 DEF ScanOK, AskedOK, CopyOK, FoundOK, BundleOK, OriginOK, Walking, Bundling
<1>5. \A s \in Scans : scan[s] = NoScan BY DEF ScanInit
<1>6. sources = <<>> /\ versions = <<>> BY DEF ScanInit
<1> QED BY <1>3, <1>4, <1>5, <1>6 DEF ScanInv

\* Each step keeps the invariant.
LEMMA ScanStep == ScanInv /\ [ScanNext]_scanVars => ScanInv'
<1> SUFFICES ASSUME ScanInv, [ScanNext]_scanVars PROVE ScanInv'
    OBVIOUS
<1>1. ASSUME NEW s \in Scans, NEW kind \in Kinds, AskScan(s, kind) PROVE ScanInv'
    BY <1>1, AskScanKeeps
<1>2. ASSUME NEW s \in Scans, NEW d \in DOMAIN sources, AskRefresh(s, d) PROVE ScanInv'
    BY <1>2, AskRefreshKeeps
<1>3. ASSUME NEW s \in Scans, Clone(s) PROVE ScanInv' BY <1>3, CloneKeeps
<1>4. ASSUME NEW s \in Scans, CloneFails(s) PROVE ScanInv'
    BY <1>4, FailedIsFine DEF CloneFails
<1>5. ASSUME NEW s \in Scans, Extract(s) PROVE ScanInv' BY <1>5, ExtractKeeps
<1>6. ASSUME NEW s \in Scans, LoadRules(s) PROVE ScanInv' BY <1>6, LoadRulesKeeps
<1>7. ASSUME NEW s \in Scans, WalkFile(s) PROVE ScanInv' BY <1>7, WalkFileKeeps
<1>8. ASSUME NEW s \in Scans, DeadlinePasses(s) PROVE ScanInv' BY <1>8, DeadlineKeeps
<1>9. ASSUME NEW s \in Scans, FindDocument(s) PROVE ScanInv' BY <1>9, FindDocumentKeeps
<1>10. ASSUME NEW s \in Scans, BundleFile(s) PROVE ScanInv' BY <1>10, BundleFileKeeps
<1>11. ASSUME NEW s \in Scans, Replay(s) PROVE ScanInv' BY <1>11, ReplayKeeps
<1>12. ASSUME NEW s \in Scans, Accept(s) PROVE ScanInv' BY <1>12, AcceptKeeps
<1>13. ASSUME NEW v \in DOMAIN versions, IngestVersion(v) PROVE ScanInv'
    BY <1>13, IngestVersionKeeps
<1>14. ASSUME NEW v \in DOMAIN versions, JobFails(v) PROVE ScanInv' BY <1>14, JobFailsKeeps
<1>15. ASSUME NEW p \in Files, NEW c \in Contents \cup {NoFile}, EditFile(p, c) PROVE ScanInv'
    BY <1>15, EditFileKeeps DEF Held
<1>16. CASE UNCHANGED scanVars
  <2> USE <1>16 DEF scanVars
  <2>1. ScanTypeOK' BY DEF ScanInv, ScanTypeOK
  <2>2. (\A s \in Scans : ScanOK(scan[s]))' BY RecordsGrow
  <2>3. (\A v \in DOMAIN versions : VersionOK(versions[v]))' BY DEF ScanInv, VersionOK
  <2>4. (\A d \in DOMAIN sources : SourceOK(sources[d]))' BY DEF ScanInv, SourceOK, NoTree
  <2> QED BY <2>1, <2>2, <2>3, <2>4 DEF ScanInv
<1> QED
  BY <1>1, <1>2, <1>3, <1>4, <1>5, <1>6, <1>7, <1>8, <1>9, <1>10, <1>11, <1>12, <1>13, <1>14,
     <1>15, <1>16 DEF ScanNext

\* The listing, the bundle and the rules of a scan that has ended say together that its bundle
\* mirrors the source.
LEMMA EndedMirrors ==
    ASSUME ScanInv, NEW s \in Scans, scan[s].pc = "ended"
    PROVE MirrorsSource(scan[s].bundle, scan[s])
<1> DEFINE g == scan[s]
<1>1. g \in ScanRecords /\ FoundOK(g) /\ BundleOK(g) BY ScanTyped DEF ScanOK
<1>2. g.pc = "ended" OBVIOUS
<1>3. /\ g.found \subseteq [path : Files, hash : Contents]
      /\ g.bundle \subseteq [path : Files, hash : Contents, content : Contents]
    BY <1>1 DEF ScanRecords, Listings, Bundles
<1> HIDE DEF g
<1>4. /\ g.rules \in [1 .. 4 -> Seq(Rules)]
      /\ \A f \in g.found :
            /\ Wanted(g.rules, f.path) /\ f.hash \in g.during[f.path]
            /\ g.kind # "directory" => f.hash = g.copy[f.path]
      /\ ~g.cut =>
            \A p \in Files, c \in Contents :
              /\ g.during[p] = {c} /\ Wanted(g.rules, p)
              /\ SizeOf[c] <= MaxFileBytes /\ Fits(g, c)
              => [path |-> p, hash |-> c] \in g.found
    BY <1>1, <1>2 DEF FoundOK, Walking
<1>5. /\ \A f \in g.bundle :
            /\ [path |-> f.path, hash |-> f.hash] \in g.found
            /\ f.path \notin Generated /\ f.content \in g.during[f.path]
            /\ g.kind # "directory" => f.content = g.copy[f.path]
      /\ \A e, f \in g.bundle : e.path = f.path => e = f
      /\ \A f \in g.found :
            f.hash \notin BinaryContents /\ f.path \notin Generated
            => \E e \in g.bundle : e.path = f.path /\ e.hash = f.hash
    BY <1>1, <1>2 DEF BundleOK, Bundling
<1>6. \A p \in Files : Ingestible(g.rules, p) <=> Wanted(g.rules, p) /\ p \notin Generated
    BY <1>4, WantedIsIngestible
<1>7. ASSUME NEW f \in g.bundle
      PROVE /\ Ingestible(g.rules, f.path)
            /\ {f.hash, f.content} \subseteq g.during[f.path]
            /\ g.kind # "directory" => f.hash = f.content
            /\ \A e \in g.bundle : e.path = f.path => e = f
  <2> DEFINE l == [path |-> f.path, hash |-> f.hash]
  <2>1. l \in g.found /\ l.path = f.path /\ l.hash = f.hash BY <1>5
  <2> HIDE DEF l
  <2>2. Wanted(g.rules, f.path) /\ f.hash \in g.during[f.path]
        /\ (g.kind # "directory" => f.hash = g.copy[f.path])
      BY <1>4, <2>1
  <2> QED BY <1>3, <1>5, <1>6, <2>2
<1>8. ASSUME NEW p \in Files, NEW c \in Contents \ BinaryContents,
             ~g.cut, g.during[p] = {c}, Ingestible(g.rules, p),
             SizeOf[c] <= MaxFileBytes, g.kind = "archive" => SizeOf[c] <= MaxEntryBytes
      PROVE [path |-> p, hash |-> c, content |-> c] \in g.bundle
  <2> DEFINE l == [path |-> p, hash |-> c]
  <2>1. l \in g.found /\ l.path = p /\ l.hash = c BY <1>4, <1>6, <1>8 DEF Fits
  <2> HIDE DEF l
  <2>2. PICK e \in g.bundle : e.path = p /\ e.hash = c BY <1>5, <1>6, <1>8, <2>1
  <2>3. e.content = c BY <1>5, <1>8, <2>2
  <2>4. e = [path |-> p, hash |-> c, content |-> c] BY <1>3, <2>2, <2>3
  <2> QED BY <2>2, <2>4
<1>9. MirrorsSource(g.bundle, g) BY <1>7, <1>8 DEF MirrorsSource
<1> QED BY <1>9 DEF g

\* However edits of the source interleave with the two readings of it, and whichever
\* requests run together: each version mirrors its source as the request that made it saw
\* it, and a request is answered with a version of its own origin that holds just what it
\* bundled (ignore_rules.py, repositories.py and the scanners).
THEOREM ScansMirror == ScanSpec => []ScanMirrorsSource
<1>1. ASSUME ScanInv PROVE ScanMirrorsSource
  <2>1. ASSUME NEW v \in DOMAIN versions
        PROVE MirrorsSource(versions[v].bundle, scan[versions[v].by])
    <3>1. VersionOK(versions[v]) /\ versions[v].by \in Scans
      <4>1. versions \in Seq(VersionRecords) BY <1>1 DEF ScanInv, ScanTypeOK
      <4>2. versions[v] \in VersionRecords BY <4>1
      <4> QED BY <1>1, <4>2 DEF ScanInv, VersionRecords
    <3> QED BY <1>1, <3>1, EndedMirrors DEF VersionOK
  <2>2. ASSUME NEW s \in Scans, scan[s].pc = "ended"
        PROVE LET v == versions[scan[s].answer] IN
              /\ v.bundle = scan[s].bundle
              /\ sources[v.document].kind = scan[s].kind
              /\ sources[v.document].upload = scan[s].upload
    <3>1. OriginOK(scan[s]) BY <1>1, ScanTyped DEF ScanOK
    <3>2. VersionOK(versions[scan[s].answer]) BY <1>1, <2>2, <3>1 DEF OriginOK, ScanInv
    <3> QED BY <2>2, <3>1, <3>2 DEF OriginOK, VersionOK
  <2> QED BY <2>1, <2>2 DEF ScanMirrorsSource
<1> QED BY <1>1, InitScans, ScanStep, PTL DEF ScanSpec
-----------------------------------------------------------------------------
(***************************************************************************)
(* Answers: lists and selections                                           *)
(***************************************************************************)

\* Leaving out repetitions leaves the same entries.
LEMMA OnceKeepsEntries ==
    ASSUME NEW n \in Nat, NEW T, NEW s \in [1 .. n -> T]
    PROVE Once(s) \in Seq(T) /\ Range(Once(s)) = Range(s)
<1>1. Firsts(s) \in SUBSET (1 .. n) BY DEF Firsts
<1>2. /\ Once(s) \in Seq(T)
      /\ \A k \in DOMAIN Once(s) : \E i \in Firsts(s) : Once(s)[k] = s[i]
      /\ \A i \in Firsts(s) : \E k \in DOMAIN Once(s) : Once(s)[k] = s[i]
    BY <1>1, PickedEntries DEF Once
<1>3. \A i \in 1 .. n : \E j \in Firsts(s) : s[j] = s[i] BY FirstPlace
<1> HIDE DEF Once
<1>4. Range(Once(s)) \subseteq Range(s) BY <1>1, <1>2 DEF Range
<1>5. Range(s) \subseteq Range(Once(s))
  <2> SUFFICES ASSUME NEW i \in 1 .. n PROVE s[i] \in Range(Once(s))
      BY DEF Range
  <2>1. PICK j \in Firsts(s) : s[j] = s[i] BY <1>3
  <2>2. PICK k \in DOMAIN Once(s) : Once(s)[k] = s[j] BY <1>2
  <2> QED BY <2>1, <2>2 DEF Range
<1> QED BY <1>2, <1>4, <1>5
-----------------------------------------------------------------------------
(***************************************************************************)
(* What retrieval selects                                                  *)
(***************************************************************************)

\* Every chunk has its place in the order of the chunk ids.
LEMMA ChunkPlaces ==
    /\ Chunks \subseteq Versions \X Nat
    /\ \A c \in Chunks : Place(ChunkIds, c) \in Int /\ ChunkIds[Place(ChunkIds, c)] = c
<1>1. ChunkIds \in Seq(Versions \X Nat) BY AnswerAssumption
<1>2. DOMAIN ChunkIds = 1 .. Len(ChunkIds) /\ Len(ChunkIds) \in Nat BY <1>1
<1>3. Chunks \subseteq Versions \X Nat BY <1>1, RangeFinite DEF Chunks
<1>4. ASSUME NEW c \in Chunks
      PROVE Place(ChunkIds, c) \in Int /\ ChunkIds[Place(ChunkIds, c)] = c
  <2>1. \E i \in DOMAIN ChunkIds : ChunkIds[i] = c BY DEF Chunks, Range
  <2>2. Place(ChunkIds, c) \in DOMAIN ChunkIds /\ ChunkIds[Place(ChunkIds, c)] = c
      BY <2>1 DEF Place
  <2> QED BY <1>2, <2>2
<1> QED BY <1>3, <1>4

\* A sequence of three.
LEMMA ThreeEntries ==
    ASSUME NEW T, NEW s \in Seq(T), Len(s) = 3
    PROVE DOMAIN s = 1 .. 3 /\ \A i \in 1 .. 3 : s[i] \in T
OBVIOUS

\* What the searches found, as three lists of chunks.
LEMMA ThreeLists ==
    ASSUME NEW lists \in Seq(Seq(Chunks)), Len(lists) = 3
    PROVE DOMAIN lists = 1 .. 3 /\ \A i \in 1 .. 3 : lists[i] \in Seq(Chunks)
BY ThreeEntries

\* The score of a chunk is a number.
LEMMA ScoreIsNumber ==
    ASSUME NEW lists \in Seq(Seq(Chunks)), Len(lists) = 3, NEW c
    PROVE Score(c, lists) \in Int
<1>1. ASSUME NEW i \in 1 .. 3 PROVE Share(c, lists[i]) \in Int
  <2> DEFINE hits == lists[i]
  <2>1. hits \in Seq(Chunks) BY ThreeLists
  <2> HIDE DEF hits
  <2> SUFFICES Share(c, hits) \in Int BY DEF hits
  <2>2. CASE c \in Range(hits)
    <3>1. \E k \in DOMAIN hits : hits[k] = c BY <2>2 DEF Range
    <3>2. Place(hits, c) \in DOMAIN hits BY <3>1 DEF Place
    <3>3. Place(hits, c) \in Nat
      <4>1. DOMAIN hits = 1 .. Len(hits) /\ Len(hits) \in Nat BY <2>1
      <4> QED BY <3>2, <4>1
    <3>4. RrfScale \in Nat /\ RrfK \in Nat \ {0} BY AnswerAssumption
    <3>5. RrfK + Place(hits, c) \in Nat \ {0} BY <3>3, <3>4
    <3>6. RrfScale \div (RrfK + Place(hits, c)) \in Int BY <3>4, <3>5
    <3> QED BY <2>2, <3>6 DEF Share
  <2>3. CASE c \notin Range(hits) BY <2>3 DEF Share
  <2> QED BY <2>2, <2>3
<1> QED BY <1>1 DEF Score

\* Fusion lists what the searches found.
LEMMA FusedAreHits ==
    ASSUME NEW lists \in Seq(Seq(Chunks)), Len(lists) = 3
    PROVE /\ Fused(lists) \in Seq(Chunks)
          /\ \A c \in Range(Fused(lists)) : \E i \in DOMAIN lists : c \in Range(lists[i])
<1> DEFINE S == UNION {Range(hits) : hits \in Range(lists)}
           before == {p \in Chunks \X Chunks : Before(p[1], p[2], lists)}
<1>1. DOMAIN lists = 1 .. 3 /\ \A i \in 1 .. 3 : lists[i] \in Seq(Chunks) BY ThreeLists
<1>2. \A i \in 1 .. 3 : IsFiniteSet(Range(lists[i])) /\ Range(lists[i]) \subseteq Chunks
    BY <1>1, RangeFinite
<1>3. S = UNION {Range(lists[1]), Range(lists[2]), Range(lists[3])} BY <1>1 DEF Range
<1> HIDE DEF S
<1>4. S \subseteq Chunks BY <1>2, <1>3
<1>5. IsFiniteSet(S)
  <2> DEFINE A == Range(lists[1])
             B == Range(lists[2])
             C == Range(lists[3])
  <2>1. IsFiniteSet(A) /\ IsFiniteSet(B) /\ IsFiniteSet(C) BY <1>2
  <2>2. S = (A \cup B) \cup C BY <1>3
  <2> HIDE DEF A, B, C
  <2>3. IsFiniteSet(A \cup B) BY <2>1, FS_Union
  <2>4. IsFiniteSet((A \cup B) \cup C) BY <2>1, <2>3, FS_Union
  <2> QED BY <2>2, <2>4
<1>6. Orders(before, S)
  <2>1. \A c, d \in S : <<c, d>> \in before <=> Before(c, d, lists) BY <1>4
  <2>2. \A c \in S : Score(c, lists) \in Int /\ Place(ChunkIds, c) \in Int
                     /\ ChunkIds[Place(ChunkIds, c)] = c
      BY <1>4, ScoreIsNumber, ChunkPlaces
  <2> HIDE DEF before
  <2>3. \A c \in S : ~Before(c, c, lists) BY <2>2 DEF Before
  <2>4. \A c, d, e \in S : Before(c, d, lists) /\ Before(d, e, lists) => Before(c, e, lists)
      BY <2>2 DEF Before
  <2>5. \A c, d \in S : c = d \/ Before(c, d, lists) \/ Before(d, c, lists)
      BY <2>2 DEF Before
  <2> QED BY <2>1, <2>3, <2>4, <2>5 DEF Orders
<1>7. Fused(lists) = InOrder(S, before) BY DEF Fused, S
<1> HIDE DEF before
<1>8. Cardinality(S) \in Nat /\ Fused(lists) \in [1 .. Cardinality(S) -> S]
    BY <1>5, <1>6, <1>7, InOrderLists
<1> DEFINE n == Cardinality(S)
<1> HIDE DEF n
<1>9. n \in Nat /\ Fused(lists) \in [1 .. n -> S] BY <1>8 DEF n
<1> HIDE DEF Fused
<1>10. Fused(lists) \in [1 .. n -> Chunks] BY <1>4, <1>9
<1>11. Fused(lists) \in Seq(Chunks) BY <1>9, <1>10
<1>12. Range(Fused(lists)) \subseteq S BY <1>9 DEF Range
<1>13. \A c \in S : \E i \in 1 .. 3 : c \in Range(lists[i]) BY <1>3
<1> QED BY <1>1, <1>11, <1>12, <1>13

\* Whatever positions are picked, the entries are among those of the sequence.
LEMMA PickedSubset ==
    ASSUME NEW T, NEW s \in Seq(T), NEW I \in SUBSET DOMAIN s
    PROVE Picked(s, I) \in Seq(T) /\ Range(Picked(s, I)) \subseteq Range(s)
<1>1. Len(s) \in Nat /\ DOMAIN s = 1 .. Len(s) /\ s \in [1 .. Len(s) -> T] OBVIOUS
<1>2. /\ Picked(s, I) \in Seq(T)
      /\ \A k \in DOMAIN Picked(s, I) : \E i \in I : Picked(s, I)[k] = s[i]
    BY <1>1, PickedEntries
<1> QED BY <1>2 DEF Range

\* The deduplication adds no chunk.
LEMMA DistinctSubset ==
    ASSUME NEW hits \in Seq(Chunks)
    PROVE Distinct(hits) \in Seq(Chunks) /\ Range(Distinct(hits)) \subseteq Range(hits)
<1> DEFINE I == Firsts([i \in DOMAIN hits |-> Text[hits[i]]])
<1>1. I \in SUBSET DOMAIN hits BY DEF Firsts
<1>2. Distinct(hits) = Picked(hits, I) BY DEF Distinct
<1> HIDE DEF I
<1> QED BY <1>1, <1>2, PickedSubset

\* The budget of the reranker picks candidates of the list it is given.
LEMMA BudgetSubset ==
    ASSUME NEW hits \in Seq(Chunks), NEW found
    PROVE /\ WithinRerankBudget(hits, found) \in Seq(Chunks)
          /\ Range(WithinRerankBudget(hits, found)) \subseteq Range(hits)
<1>1. PICK I \in SUBSET DOMAIN hits : WithinRerankBudget(hits, found) = Picked(hits, I)
  <2> DEFINE CostAt(i) == IF found[i] THEN Cost[Text[hits[i]]] ELSE 0
             kept[n \in 0 .. Len(hits)] ==
               IF n = 0 THEN [at |-> {}, tokens |-> 0]
               ELSE IF \/ Cardinality(kept[n - 1].at) >= RerankMax
                       \/ kept[n - 1].tokens + CostAt(n) > RerankTokens
                    THEN kept[n - 1]
                    ELSE [at |-> kept[n - 1].at \cup {n}, tokens |-> kept[n - 1].tokens + CostAt(n)]
             I == {i \in DOMAIN hits : i \in kept[Len(hits)].at}
  <2>1. WithinRerankBudget(hits, found) = Picked(hits, I) BY DEF WithinRerankBudget
  <2>2. I \in SUBSET DOMAIN hits
    <3> HIDE DEF kept
    <3> QED OBVIOUS
  <2> HIDE DEF I
  <2> QED BY <2>1, <2>2
<1> QED BY <1>1, PickedSubset

-----------------------------------------------------------------------------
(***************************************************************************)
(* The inductive invariant                                                 *)
(***************************************************************************)

ItemRecords == [chunk : Chunks, text : DOMAIN Cost \cup {NoText}]
AnswerTypeOK ==
    /\ served \in [Docs -> Versions] /\ removed \subseteq Docs /\ unserved \subseteq Versions
    /\ \A d \in Docs : DocOf[served[d]] = d /\ served[d] \notin unserved
    /\ turn = [f \in DOMAIN Quiet |-> turn[f]]
    /\ turn.lists \in Seq(Seq(Chunks)) /\ turn.fused \in Seq(Chunks)
    /\ turn.found \in Seq(BOOLEAN) /\ turn.looks \in Seq(Chunks)
    /\ turn.items \in Seq(ItemRecords) /\ turn.at \in Nat

\* What was found was served when it was found, and is not activated once more.
FoundWereServed ==
    /\ \A i \in DOMAIN turn.lists : \A c \in Range(turn.lists[i]) : c[1] \notin unserved
    /\ \A c \in Range(turn.fused) : c[1] \notin unserved

\* Of two chunks of one document in different versions at most one is resolved, and while one
\* is, the version of the other is not the one served.
Rival(c, d) == DocOf[c[1]] = DocOf[d[1]] /\ c[1] # d[1]
ResolvedAgree ==
    /\ Len(turn.found) <= Len(turn.fused)
    /\ \A i \in DOMAIN turn.found : turn.found[i] =>
          \A j \in DOMAIN turn.fused : Rival(turn.fused[i], turn.fused[j]) =>
             /\ j \in DOMAIN turn.found => ~turn.found[j]
             /\ served[DocOf[turn.fused[j][1]]] # turn.fused[j][1]

\* Evidence and neighbours to look for are of versions of resolved chunks.
Backed(v) == \E i \in DOMAIN turn.found : turn.found[i] /\ turn.fused[i][1] = v
EvidenceBacked ==
    /\ turn.pc \in {"idle", "search", "attach"} => turn.items = <<>> /\ turn.looks = <<>>
    /\ turn.pc \in {"idle", "search"} => turn.found = <<>>
    /\ turn.pc = "reattach" =>
          /\ \A e \in Range(turn.items) : Backed(e.chunk[1])
          /\ \A n \in Range(turn.looks) : Backed(n[1])

AnswerInv ==
    /\ AnswerTypeOK /\ FoundWereServed /\ ResolvedAgree /\ EvidenceBacked
    /\ OneVersionPerDocument

\* The neighbours of a chunk are of its version.
LEMMA NeighboursOfVersion ==
    ASSUME NEW c \in Chunks
    PROVE Neighbours(c) \in Seq(Chunks) /\ \A n \in Range(Neighbours(c)) : n[1] = c[1]
<1> DEFINE m == 2 * Adjacent
           near == [k \in 1 .. m |->
                      <<c[1], IF k % 2 = 1 THEN c[2] - (k + 1) \div 2 ELSE c[2] + k \div 2>>]
           I == {k \in DOMAIN near : near[k] \in Chunks}
           T == {near[k] : k \in 1 .. m}
<1>1. m \in Nat BY AnswerAssumption
<1>2. DOMAIN near = 1 .. m /\ near \in [1 .. m -> T] /\ \A k \in 1 .. m : near[k][1] = c[1]
    OBVIOUS
<1>3. Neighbours(c) = Picked(near, I) BY DEF Neighbours
<1> HIDE DEF near, T, m
<1>4. /\ Picked(near, I) \in Seq(T)
      /\ \A k \in DOMAIN Picked(near, I) : \E i \in I : Picked(near, I)[k] = near[i]
  <2>1. I \in SUBSET (1 .. m) BY <1>2
  <2>2. near \in [1 .. m -> T] BY <1>2
  <2> HIDE DEF I
  <2> QED BY ONLY <1>1, <2>1, <2>2, PickedEntries
<1> DEFINE s == Picked(near, I)
<1>5. \A k \in DOMAIN s : s[k] \in Chunks /\ s[k][1] = c[1] BY <1>2, <1>4
<1>6. s \in Seq(T) BY <1>4
<1> HIDE DEF s
<1>7. s \in Seq(Chunks) BY <1>5, <1>6
<1>8. \A n \in Range(s) : n[1] = c[1] BY <1>5 DEF Range
<1> QED BY <1>3, <1>7, <1>8 DEF s

\* Adding an item adds at most that item.
LEMMA AddAtMost ==
    ASSUME NEW items \in Seq(ItemRecords), NEW item \in ItemRecords
    PROVE /\ Add(items, item) \in Seq(ItemRecords)
          /\ Range(Add(items, item)) \subseteq Range(items) \cup {item}
<1>1. Append(items, item) \in Seq(ItemRecords) OBVIOUS
<1>2. Range(Append(items, item)) \subseteq Range(items) \cup {item}
  <2>1. \A k \in DOMAIN Append(items, item) :
            (k \in DOMAIN items /\ Append(items, item)[k] = items[k])
            \/ Append(items, item)[k] = item
      OBVIOUS
  <2> QED BY <2>1 DEF Range
<1>3. Add(items, item) \in {items, Append(items, item)} BY DEF Add
<1> QED BY <1>1, <1>2, <1>3

\* A chunk adds its header and itself.
LEMMA BaseAtMost ==
    ASSUME NEW items \in Seq(ItemRecords), NEW c \in Chunks
    PROVE /\ WithBase(items, c) \in Seq(ItemRecords)
          /\ \A e \in Range(WithBase(items, c)) : e \in Range(items) \/ e.chunk = c
<1>1. Item(c, Header[c]) \in ItemRecords /\ Item(c, Text[c]) \in ItemRecords
      /\ Item(c, Header[c]).chunk = c /\ Item(c, Text[c]).chunk = c
    BY AnswerAssumption DEF Item, ItemRecords
<1> DEFINE first == IF Header[c] = NoText THEN items ELSE Add(items, Item(c, Header[c]))
<1>2. first \in Seq(ItemRecords) /\ Range(first) \subseteq Range(items) \cup {Item(c, Header[c])}
  <2>1. CASE Header[c] = NoText BY <2>1
  <2>2. CASE Header[c] # NoText BY <1>1, <2>2, AddAtMost
  <2> QED BY <2>1, <2>2
<1>3. WithBase(items, c) = Add(first, Item(c, Text[c])) BY DEF WithBase
<1> HIDE DEF first
<1>4. Add(first, Item(c, Text[c])) \in Seq(ItemRecords)
      /\ Range(Add(first, Item(c, Text[c]))) \subseteq Range(first) \cup {Item(c, Text[c])}
    BY <1>1, <1>2, AddAtMost
<1> QED BY <1>1, <1>2, <1>3, <1>4

\* A request that was not made yet.
LEMMA AnswerInitSound == ASSUME AnswerInit PROVE AnswerInv
<1>1. /\ turn.lists = <<>> /\ turn.fused = <<>> /\ turn.found = <<>>
      /\ turn.items = <<>> /\ turn.looks = <<>>
    BY DEF AnswerInit, Quiet
<1>2. turn.pc = "idle" /\ turn.at = 0 /\ turn = Quiet BY DEF AnswerInit, Quiet
<1>3. AnswerTypeOK
  <2>1. served \in [Docs -> Versions] /\ removed \subseteq Docs /\ unserved \subseteq Versions
      BY AnswerAssumption DEF AnswerInit
  <2>2. \A d \in Docs : DocOf[served[d]] = d /\ served[d] \notin unserved
      BY AnswerAssumption DEF AnswerInit
  <2>3. turn = [f \in DOMAIN Quiet |-> turn[f]] BY DEF AnswerInit, Quiet
  <2> QED BY <1>1, <1>2, <2>1, <2>2, <2>3 DEF AnswerTypeOK
<1>4. FoundWereServed BY <1>1 DEF FoundWereServed, Range
<1>5. ResolvedAgree BY <1>1 DEF ResolvedAgree
<1>6. EvidenceBacked BY <1>1, <1>2 DEF EvidenceBacked
<1>7. OneVersionPerDocument BY <1>1 DEF OneVersionPerDocument, Range
<1> QED BY <1>3, <1>4, <1>5, <1>6, <1>7 DEF AnswerInv

-----------------------------------------------------------------------------
(***************************************************************************)
(* The steps of documents and of retrieval                                 *)
(***************************************************************************)

\* The fields of a request.
TurnFields == {"pc", "run", "scope", "lists", "fused", "found", "at", "items", "looks",
               "usable", "tries", "envelope", "cited"}

\* A request has these fields and no other.
LEMMA TurnShape ==
    ASSUME AnswerTypeOK
    PROVE DOMAIN Quiet = TurnFields /\ turn = [f \in TurnFields |-> turn[f]]
          /\ DOMAIN turn = TurnFields
<1>1. DOMAIN Quiet = TurnFields BY DEF Quiet, TurnFields
<1>2. turn = [f \in DOMAIN Quiet |-> turn[f]] BY DEF AnswerTypeOK
<1> QED BY <1>1, <1>2

\* A version that is activated was never found before, so it brings no rival back.
LEMMA ServeVersionSound ==
    ASSUME AnswerInv, NEW v \in Versions, ServeVersion(v)
    PROVE AnswerInv'
<1>1. /\ v \in unserved /\ served' = [served EXCEPT ![DocOf[v]] = v]
      /\ unserved' = unserved \ {v} /\ removed' = removed /\ turn' = turn
    BY DEF ServeVersion
<1>2. AnswerTypeOK /\ DocOf[v] \in Docs BY AnswerAssumption DEF AnswerInv
<1>3. \A d \in Docs : served'[d] = IF d = DocOf[v] THEN v ELSE served[d]
    BY <1>1, <1>2 DEF AnswerTypeOK
<1>4. AnswerTypeOK'
  <2>1. served' \in [Docs -> Versions] /\ removed' \subseteq Docs /\ unserved' \subseteq Versions
      BY <1>1, <1>2 DEF AnswerTypeOK
  <2>2. \A d \in Docs : DocOf[served'[d]] = d /\ served'[d] \notin unserved'
      BY <1>1, <1>2, <1>3 DEF AnswerTypeOK
  <2> QED BY <1>1, <1>2, <2>1, <2>2 DEF AnswerTypeOK
<1>5. FoundWereServed' BY <1>1 DEF AnswerInv, FoundWereServed
<1>6. ResolvedAgree'
  <2>1. turn.fused \in Seq(Chunks) BY <1>2 DEF AnswerTypeOK
  <2>2. ASSUME NEW j \in DOMAIN turn.fused
        PROVE /\ turn.fused[j][1] # v /\ DocOf[turn.fused[j][1]] \in Docs
    <3>1. turn.fused[j] \in Chunks
      <4>1. DOMAIN turn.fused = 1 .. Len(turn.fused) BY <2>1
      <4> QED BY <2>1, <4>1
    <3>2. turn.fused[j] \in Versions \X Nat BY <3>1, ChunkPlaces
    <3>3. turn.fused[j] \in Range(turn.fused) BY DEF Range
    <3>4. turn.fused[j][1] \notin unserved BY <3>3 DEF AnswerInv, FoundWereServed
    <3>5. turn.fused[j][1] \in Versions BY <3>2
    <3> QED BY <1>1, <3>4, <3>5, AnswerAssumption
  <2>3. \A j \in DOMAIN turn.fused :
            served[DocOf[turn.fused[j][1]]] # turn.fused[j][1]
            => served'[DocOf[turn.fused[j][1]]] # turn.fused[j][1]
      BY <1>3, <2>2
  <2> QED BY <1>1, <2>3 DEF AnswerInv, ResolvedAgree
<1>7. EvidenceBacked' /\ OneVersionPerDocument'
    BY <1>1 DEF AnswerInv, EvidenceBacked, Backed, OneVersionPerDocument
<1> QED BY <1>4, <1>5, <1>6, <1>7 DEF AnswerInv

\* A deletion hides a document and serves no other version.
LEMMA RemoveDocumentSound ==
    ASSUME AnswerInv, NEW d \in Docs, RemoveDocument(d)
    PROVE AnswerInv'
<1>1. served' = served /\ unserved' = unserved /\ removed' = removed \cup {d} /\ turn' = turn
    BY DEF RemoveDocument
<1>2. AnswerTypeOK' BY <1>1 DEF AnswerInv, AnswerTypeOK
<1>3. FoundWereServed' /\ ResolvedAgree' BY <1>1 DEF AnswerInv, FoundWereServed, ResolvedAgree
<1>4. EvidenceBacked' /\ OneVersionPerDocument'
    BY <1>1 DEF AnswerInv, EvidenceBacked, Backed, OneVersionPerDocument
<1> QED BY <1>2, <1>3, <1>4 DEF AnswerInv

\* Where nothing changes the invariant stays.
LEMMA AnswerUnchanged == ASSUME AnswerInv, UNCHANGED answerVars PROVE AnswerInv'
<1> USE DEF answerVars
<1>1. AnswerTypeOK' BY DEF AnswerInv, AnswerTypeOK
<1>2. FoundWereServed' /\ ResolvedAgree' BY DEF AnswerInv, FoundWereServed, ResolvedAgree
<1>3. EvidenceBacked' /\ OneVersionPerDocument'
    BY DEF AnswerInv, EvidenceBacked, Backed, OneVersionPerDocument
<1> QED BY <1>1, <1>2, <1>3 DEF AnswerInv

\* The documents stand still.
Still == UNCHANGED <<served, removed, unserved>>

\* Then only the types of the changed fields are left to show.
LEMMA StillTypes ==
    ASSUME AnswerInv, Still, turn' = [f \in TurnFields |-> turn'[f]],
           turn'.lists \in Seq(Seq(Chunks)), turn'.fused \in Seq(Chunks),
           turn'.found \in Seq(BOOLEAN), turn'.looks \in Seq(Chunks),
           turn'.items \in Seq(ItemRecords), turn'.at \in Nat
    PROVE AnswerTypeOK'
<1>1. DOMAIN Quiet = TurnFields BY DEF Quiet, TurnFields
<1>2. served' \in [Docs -> Versions] /\ removed' \subseteq Docs /\ unserved' \subseteq Versions
      /\ \A d \in Docs : DocOf[served'[d]] = d /\ served'[d] \notin unserved'
    BY DEF AnswerInv, AnswerTypeOK, Still
<1> QED BY <1>1, <1>2 DEF AnswerTypeOK

\* The request is made.
LEMMA AskSound ==
    ASSUME AnswerInv, NEW scope, Ask(scope)
    PROVE AnswerInv'
<1>1. AnswerTypeOK BY DEF AnswerInv
<1>2. turn = [f \in TurnFields |-> turn[f]] BY <1>1, TurnShape
<1>3. Still /\ turn.pc = "idle"
      /\ turn' = [turn EXCEPT !.pc = "search", !.run = "open", !.scope = scope]
    BY DEF Ask, Still
<1>4. /\ turn' = [f \in TurnFields |-> turn'[f]]
      /\ turn'.lists = turn.lists /\ turn'.fused = turn.fused /\ turn'.found = turn.found
      /\ turn'.looks = turn.looks /\ turn'.items = turn.items /\ turn'.at = turn.at
      /\ turn'.pc = "search"
    BY <1>2, <1>3 DEF TurnFields
<1>5. AnswerTypeOK' BY <1>1, <1>3, <1>4, StillTypes DEF AnswerTypeOK
<1>6. FoundWereServed' BY <1>3, <1>4 DEF AnswerInv, FoundWereServed, Still
<1>7. ResolvedAgree' BY <1>3, <1>4 DEF AnswerInv, ResolvedAgree, Still
<1>8. EvidenceBacked' /\ OneVersionPerDocument'
    BY <1>3, <1>4 DEF AnswerInv, EvidenceBacked, OneVersionPerDocument
<1> QED BY <1>5, <1>6, <1>7, <1>8 DEF AnswerInv

\* A search finds visible chunks.
LEMMA HitsVisible ==
    ASSUME NEW k \in Nat, NEW hits \in Hits(k)
    PROVE hits \in Seq(Chunks) /\ \A c \in Range(hits) : Visible(c) /\ c \in Chunks
<1> DEFINE S == {c \in Chunks : Visible(c)}
<1>1. hits \in SeqOf(S, k) BY DEF Hits
<1> HIDE DEF S
<1>2. PICK m \in 0 .. k : hits \in [1 .. m -> S] BY <1>1 DEF SeqOf
<1>3. m \in Nat OBVIOUS
<1>4. hits \in Seq(S) BY <1>2, <1>3
<1>5. Range(hits) \subseteq S BY <1>2 DEF Range
<1>6. S \subseteq Chunks BY DEF S
<1>7. hits \in [1 .. m -> Chunks] BY <1>2, <1>6
<1>8. hits \in Seq(Chunks) BY <1>3, <1>7
<1> QED BY <1>5, <1>8 DEF S

\* A search adds the chunks it sees, of versions that are served.
LEMMA SearchSound ==
    ASSUME AnswerInv, NEW name \in {"dense", "lexical", "identifier"}, NEW nth, Search(name, nth)
    PROVE AnswerInv'
<1>1. AnswerTypeOK BY DEF AnswerInv
<1>2. turn = [f \in TurnFields |-> turn[f]] BY <1>1, TurnShape
<1>3. PICK hits \in Hits(SearchK[name]) : turn' = [turn EXCEPT !.lists = Append(@, hits)]
    BY DEF Search
<1>4. Still /\ turn.pc = "search" BY DEF Search, Still
<1>5. /\ turn' = [f \in TurnFields |-> turn'[f]]
      /\ turn'.lists = Append(turn.lists, hits)
      /\ turn'.fused = turn.fused /\ turn'.found = turn.found
      /\ turn'.looks = turn.looks /\ turn'.items = turn.items /\ turn'.at = turn.at
      /\ turn'.pc = turn.pc
    BY <1>2, <1>3 DEF TurnFields
<1>6. SearchK[name] \in Nat BY AnswerAssumption
<1>7. hits \in Seq(Chunks) /\ \A c \in Range(hits) : Visible(c) /\ c \in Chunks
    BY <1>6, HitsVisible
<1>8. turn.lists \in Seq(Seq(Chunks)) BY <1>1 DEF AnswerTypeOK
<1>9. turn'.lists \in Seq(Seq(Chunks))
  <2> DEFINE T == Seq(Chunks)
  <2>1. turn.lists \in Seq(T) /\ hits \in T BY <1>7, <1>8
  <2> HIDE DEF T
  <2>2. Append(turn.lists, hits) \in Seq(T) BY <2>1
  <2> QED BY <1>5, <2>2 DEF T
<1>10. AnswerTypeOK' BY <1>1, <1>4, <1>5, <1>9, StillTypes DEF AnswerTypeOK
<1>11. \A c \in Range(hits) : c[1] \notin unserved
  <2> SUFFICES ASSUME NEW c \in Range(hits) PROVE c[1] \notin unserved
      OBVIOUS
  <2>1. c \in Versions \X Nat /\ Visible(c) BY <1>7, ChunkPlaces
  <2>2. DocOf[c[1]] \in Docs /\ served[DocOf[c[1]]] = c[1]
      BY <2>1, AnswerAssumption DEF Visible
  <2> QED BY <1>1, <2>2 DEF AnswerTypeOK
<1>12. \A i \in DOMAIN turn'.lists :
          (i \in DOMAIN turn.lists /\ turn'.lists[i] = turn.lists[i]) \/ turn'.lists[i] = hits
  <2> DEFINE T == Seq(Chunks)
  <2>1. turn.lists \in Seq(T) /\ hits \in T BY <1>7, <1>8
  <2> HIDE DEF T
  <2> QED BY <1>5, <2>1
<1>13. FoundWereServed' BY <1>4, <1>5, <1>11, <1>12 DEF AnswerInv, FoundWereServed, Still
<1>14. ResolvedAgree' BY <1>4, <1>5 DEF AnswerInv, ResolvedAgree, Still
<1>15. EvidenceBacked' /\ OneVersionPerDocument'
    BY <1>4, <1>5 DEF AnswerInv, EvidenceBacked, OneVersionPerDocument
<1> QED BY <1>10, <1>13, <1>14, <1>15 DEF AnswerInv

\* Fusion and deduplication keep to what the searches found.
LEMMA FuseSound == ASSUME AnswerInv, Fuse PROVE AnswerInv'
<1>1. AnswerTypeOK BY DEF AnswerInv
<1>2. turn = [f \in TurnFields |-> turn[f]] BY <1>1, TurnShape
<1> DEFINE all == Fused(turn.lists)
           m == Min({FusionK, Len(all)})
           best == SubSeq(all, 1, m)
<1>3. /\ Still /\ turn.pc = "search" /\ Len(turn.lists) = 3
      /\ turn' = [turn EXCEPT !.pc = "attach", !.lists = <<>>, !.fused = Distinct(best)]
    BY DEF Fuse, Still
<1>4. all \in Seq(Chunks) /\ \A c \in Range(all) : \E i \in DOMAIN turn.lists : c \in Range(turn.lists[i])
    BY <1>1, <1>3, FusedAreHits DEF AnswerTypeOK
<1> HIDE DEF all
<1>5. m \in Nat /\ m <= Len(all)
  <2>1. FusionK \in Nat /\ Len(all) \in Nat BY <1>4, AnswerAssumption
  <2>2. \E x \in {FusionK, Len(all)} : \A y \in {FusionK, Len(all)} : x <= y BY <2>1
  <2>3. m \in {FusionK, Len(all)} /\ \A y \in {FusionK, Len(all)} : m <= y BY <2>2 DEF Min
  <2> QED BY <2>1, <2>3
<1> HIDE DEF m
<1>6. best \in Seq(Chunks) /\ Range(best) \subseteq Range(all)
  <2>1. best \in Seq(Chunks) /\ \A k \in DOMAIN best : k \in DOMAIN all /\ best[k] = all[k]
      BY <1>4, <1>5
  <2> QED BY <2>1 DEF Range
<1> HIDE DEF best
<1>7. Distinct(best) \in Seq(Chunks) /\ Range(Distinct(best)) \subseteq Range(best)
    BY <1>6, DistinctSubset
<1>8. /\ turn' = [f \in TurnFields |-> turn'[f]]
      /\ turn'.lists = <<>> /\ turn'.fused = Distinct(best) /\ turn'.found = turn.found
      /\ turn'.looks = turn.looks /\ turn'.items = turn.items /\ turn'.at = turn.at
      /\ turn'.pc = "attach"
    BY <1>2, <1>3 DEF TurnFields
<1>9. turn.found = <<>> /\ turn.items = <<>> /\ turn.looks = <<>>
    BY <1>3 DEF AnswerInv, EvidenceBacked
<1>10. AnswerTypeOK'
  <2>1. turn'.lists \in Seq(Seq(Chunks)) BY <1>8
  <2> QED BY <1>1, <1>3, <1>7, <1>8, <2>1, StillTypes DEF AnswerTypeOK
<1>11. FoundWereServed'
  <2>1. \A c \in Range(Distinct(best)) : c[1] \notin unserved
      BY <1>4, <1>6, <1>7 DEF AnswerInv, FoundWereServed
  <2>2. DOMAIN turn'.lists = {} BY <1>8
  <2> QED BY <1>3, <1>8, <2>1, <2>2 DEF FoundWereServed, Still
<1>12. ResolvedAgree'
  <2>1. Len(turn'.found) = 0 /\ DOMAIN turn'.found = {} BY <1>8, <1>9
  <2>2. Len(turn'.fused) \in Nat BY <1>7, <1>8
  <2> QED BY <2>1, <2>2 DEF ResolvedAgree
<1>13. EvidenceBacked' /\ OneVersionPerDocument'
    BY <1>8, <1>9 DEF AnswerInv, EvidenceBacked, OneVersionPerDocument
<1> QED BY <1>10, <1>11, <1>12, <1>13 DEF AnswerInv

\* Resolving a chunk: if its version is served, no rival was resolved before, for the rival's
\* version would be served no longer.
LEMMA AttachSound == ASSUME AnswerInv, Attach PROVE AnswerInv'
<1>1. AnswerTypeOK BY DEF AnswerInv
<1>2. turn = [f \in TurnFields |-> turn[f]] BY <1>1, TurnShape
<1> DEFINE n == Len(turn.found) + 1
           hit == Resolved(turn.fused[n])
<1>3. /\ Still /\ turn.pc \in {"attach", "reattach"} /\ Len(turn.found) < Len(turn.fused)
      /\ turn' = [turn EXCEPT !.found = Append(@, Resolved(turn.fused[Len(@) + 1]))]
    BY DEF Attach, Still
<1>4. /\ turn' = [f \in TurnFields |-> turn'[f]]
      /\ turn'.lists = turn.lists /\ turn'.fused = turn.fused /\ turn'.found = Append(turn.found, hit)
      /\ turn'.looks = turn.looks /\ turn'.items = turn.items /\ turn'.at = turn.at
      /\ turn'.pc = turn.pc
    BY <1>2, <1>3 DEF TurnFields
<1>5. turn.found \in Seq(BOOLEAN) /\ turn.fused \in Seq(Chunks) BY <1>1 DEF AnswerTypeOK
<1>6. hit \in BOOLEAN BY DEF Resolved, Visible
<1> HIDE DEF hit
<1>7. /\ turn'.found \in Seq(BOOLEAN) /\ Len(turn'.found) = n /\ n \in Nat \ {0}
      /\ DOMAIN turn'.found = 1 .. n /\ DOMAIN turn.found = 1 .. n - 1
      /\ \A i \in 1 .. n - 1 : turn'.found[i] = turn.found[i]
      /\ turn'.found[n] = hit
    BY <1>4, <1>5, <1>6
<1>8. n <= Len(turn.fused) /\ DOMAIN turn.fused = 1 .. Len(turn.fused) /\ Len(turn.fused) \in Nat
    BY <1>3, <1>5
<1> HIDE DEF n
<1>9. AnswerTypeOK' BY <1>1, <1>3, <1>4, <1>7, StillTypes DEF AnswerTypeOK
<1>10. FoundWereServed' BY <1>3, <1>4 DEF AnswerInv, FoundWereServed, Still
<1>11. hit => served[DocOf[turn.fused[n][1]]] = turn.fused[n][1]
    BY DEF hit, Resolved, Visible, n
<1>12. ResolvedAgree'
  <2> DEFINE s == turn.fused
  <2>1. \A i \in 1 .. n - 1 : turn.found[i] => \A j \in DOMAIN s : Rival(s[i], s[j]) =>
             /\ j \in 1 .. n - 1 => ~turn.found[j]
             /\ served[DocOf[s[j][1]]] # s[j][1]
      BY <1>7 DEF AnswerInv, ResolvedAgree
  <2>2. \A i, j \in DOMAIN s : Rival(s[i], s[j]) =>
             Rival(s[j], s[i]) /\ DocOf[s[i][1]] = DocOf[s[j][1]] /\ s[i][1] # s[j][1]
      BY DEF Rival
  <2>3. n \in DOMAIN s /\ \A i \in 1 .. n : i \in DOMAIN s BY <1>7, <1>8
  <2> HIDE DEF s
  <2>4. ASSUME NEW i \in 1 .. n, turn'.found[i], NEW j \in DOMAIN s, Rival(s[i], s[j])
        PROVE /\ j \in 1 .. n => ~turn'.found[j]
              /\ served[DocOf[s[j][1]]] # s[j][1]
    <3>1. CASE i = n
      <4>1. hit BY <1>7, <2>4, <3>1
      <4>2. served[DocOf[s[n][1]]] = s[n][1] BY <1>11, <4>1 DEF s
      <4>3. served[DocOf[s[j][1]]] # s[j][1] BY <2>2, <2>3, <2>4, <3>1, <4>2
      <4>4. j # n BY <2>2, <2>3, <2>4, <3>1
      <4>5. ASSUME j \in 1 .. n - 1, turn.found[j] PROVE FALSE
        <5>1. served[DocOf[s[n][1]]] # s[n][1] BY <2>1, <2>2, <2>3, <2>4, <3>1, <4>5
        <5> QED BY <4>2, <5>1
      <4> QED BY <1>7, <4>3, <4>4, <4>5
    <3>2. CASE i # n
      <4>1. i \in 1 .. n - 1 /\ turn.found[i] BY <1>7, <2>4, <3>2
      <4>2. served[DocOf[s[j][1]]] # s[j][1] /\ (j \in 1 .. n - 1 => ~turn.found[j])
          BY <2>1, <2>4, <4>1
      <4>3. j = n => ~hit BY <1>11, <4>2 DEF s
      <4> QED BY <1>7, <4>2, <4>3
    <3> QED BY <3>1, <3>2
  <2>5. Len(turn'.found) <= Len(turn'.fused) BY <1>4, <1>7, <1>8
  <2> QED BY <1>3, <1>4, <1>7, <2>4, <2>5 DEF ResolvedAgree, Still, s
<1>13. \A v : Backed(v) => Backed(v)'
    BY <1>4, <1>7 DEF Backed
<1>14. EvidenceBacked'
  <2>1. turn'.pc \in {"idle", "search", "attach"} => turn'.items = <<>> /\ turn'.looks = <<>>
      BY <1>4 DEF AnswerInv, EvidenceBacked
  <2>2. turn'.pc \notin {"idle", "search"} BY <1>3, <1>4
  <2>3. turn'.pc = "reattach" =>
          /\ \A e \in Range(turn'.items) : Backed(e.chunk[1])'
          /\ \A x \in Range(turn'.looks) : Backed(x[1])'
      BY <1>4, <1>13 DEF AnswerInv, EvidenceBacked
  <2> QED BY <2>1, <2>2, <2>3 DEF EvidenceBacked
<1>15. OneVersionPerDocument' BY <1>4 DEF AnswerInv, OneVersionPerDocument
<1> QED BY <1>9, <1>10, <1>12, <1>14, <1>15 DEF AnswerInv

\* What the reranker leaves are fused chunks.
LEMMA RerankSound == ASSUME AnswerInv, Rerank PROVE AnswerInv'
<1>1. AnswerTypeOK BY DEF AnswerInv
<1>2. turn = [f \in TurnFields |-> turn[f]] BY <1>1, TurnShape
<1> DEFINE hits == WithinRerankBudget(turn.fused, turn.found)
<1>3. PICK ranked \in Rerankings(hits) :
          turn' = [turn EXCEPT !.pc = "reattach", !.fused = ranked, !.found = <<>>]
    BY DEF Rerank
<1>4. Still /\ turn.pc = "attach" BY DEF Rerank, Still
<1>5. hits \in Seq(Chunks) /\ Range(hits) \subseteq Range(turn.fused)
    BY <1>1, BudgetSubset DEF AnswerTypeOK
<1> HIDE DEF hits
<1>6. ranked \in Seq(Chunks) /\ Range(ranked) \subseteq Range(turn.fused)
  <2>1. CASE ranked = hits BY <1>5, <2>1
  <2>2. CASE ranked \in SeqOf(Range(hits), RerankK)
    <3>1. PICK m \in 0 .. RerankK : ranked \in [1 .. m -> Range(hits)] BY <2>2 DEF SeqOf
    <3>2. m \in Nat BY AnswerAssumption
    <3>3. Range(hits) \subseteq Chunks BY <1>5, RangeFinite
    <3>4. ranked \in [1 .. m -> Chunks] /\ Range(ranked) \subseteq Range(hits)
        BY <3>1, <3>3 DEF Range
    <3>5. ranked \in Seq(Chunks) BY <3>2, <3>4
    <3> QED BY <1>5, <3>4, <3>5
  <2> QED BY <2>1, <2>2 DEF Rerankings
<1>7. /\ turn' = [f \in TurnFields |-> turn'[f]]
      /\ turn'.lists = turn.lists /\ turn'.fused = ranked /\ turn'.found = <<>>
      /\ turn'.looks = turn.looks /\ turn'.items = turn.items /\ turn'.at = turn.at
      /\ turn'.pc = "reattach"
    BY <1>2, <1>3 DEF TurnFields
<1>8. turn.items = <<>> /\ turn.looks = <<>> BY <1>4 DEF AnswerInv, EvidenceBacked
<1>9. AnswerTypeOK'
  <2>1. turn'.found \in Seq(BOOLEAN) BY <1>7
  <2> QED BY <1>1, <1>4, <1>6, <1>7, <2>1, StillTypes DEF AnswerTypeOK
<1>10. FoundWereServed' BY <1>4, <1>6, <1>7 DEF AnswerInv, FoundWereServed, Still
<1>11. ResolvedAgree'
  <2>1. Len(turn'.found) = 0 /\ DOMAIN turn'.found = {} BY <1>7
  <2>2. Len(turn'.fused) \in Nat BY <1>6, <1>7
  <2> QED BY <2>1, <2>2 DEF ResolvedAgree
<1>12. EvidenceBacked' /\ OneVersionPerDocument'
    BY <1>7, <1>8 DEF AnswerInv, EvidenceBacked, OneVersionPerDocument, Range
<1> QED BY <1>9, <1>10, <1>11, <1>12 DEF AnswerInv

-----------------------------------------------------------------------------
(***************************************************************************)
(* The steps of the context                                                *)
(***************************************************************************)

\* Resolved chunks of one document are of one version.
LEMMA BackedAgree ==
    ASSUME ResolvedAgree, turn.found \in Seq(BOOLEAN), turn.fused \in Seq(Chunks),
           NEW u, NEW v, Backed(u), Backed(v), DocOf[u] = DocOf[v]
    PROVE u = v
<1>1. PICK i \in DOMAIN turn.found : turn.found[i] /\ turn.fused[i][1] = u BY DEF Backed
<1>2. PICK j \in DOMAIN turn.found : turn.found[j] /\ turn.fused[j][1] = v BY DEF Backed
<1>3. j \in DOMAIN turn.fused
  <2>1. Len(turn.found) \in Nat /\ Len(turn.fused) \in Nat /\ Len(turn.found) <= Len(turn.fused)
        /\ DOMAIN turn.found = 1 .. Len(turn.found) /\ DOMAIN turn.fused = 1 .. Len(turn.fused)
      BY DEF ResolvedAgree
  <2> QED BY <1>2, <2>1
<1>4. ~Rival(turn.fused[i], turn.fused[j]) BY <1>1, <1>2, <1>3 DEF ResolvedAgree
<1> QED BY <1>1, <1>2, <1>4 DEF Rival

\* A step of the context adds items and neighbours of versions of resolved chunks.
LEMMA ContextStep ==
    ASSUME AnswerInv, Still, turn.pc = "reattach", turn'.pc = "reattach",
           turn' = [f \in TurnFields |-> turn'[f]],
           turn'.lists = turn.lists, turn'.fused = turn.fused, turn'.found = turn.found,
           turn'.at \in Nat, turn'.items \in Seq(ItemRecords), turn'.looks \in Seq(Chunks),
           \A e \in Range(turn'.items) : Backed(e.chunk[1]),
           \A n \in Range(turn'.looks) : Backed(n[1])
    PROVE AnswerInv'
<1>1. AnswerTypeOK BY DEF AnswerInv
<1>2. AnswerTypeOK' BY <1>1, StillTypes DEF AnswerTypeOK
<1>3. FoundWereServed' BY DEF AnswerInv, FoundWereServed, Still
<1>4. ResolvedAgree' BY DEF AnswerInv, ResolvedAgree, Still
<1>5. \A v : Backed(v) => Backed(v)' BY DEF Backed
<1>6. EvidenceBacked' BY <1>5 DEF EvidenceBacked
<1>7. OneVersionPerDocument'
  <2> SUFFICES ASSUME NEW e \in Range(turn'.items), NEW f \in Range(turn'.items),
                      DocOf[e.chunk[1]] = DocOf[f.chunk[1]]
               PROVE e.chunk[1] = f.chunk[1]
      BY DEF OneVersionPerDocument
  <2>1. Backed(e.chunk[1]) /\ Backed(f.chunk[1]) OBVIOUS
  <2> QED BY <1>1, <2>1, BackedAgree DEF AnswerInv, AnswerTypeOK
<1> QED BY <1>2, <1>3, <1>4, <1>6, <1>7 DEF AnswerInv

\* A candidate that is resolved adds itself, and its neighbours to look for.
LEMMA BuildCandidateSound == ASSUME AnswerInv, BuildCandidate PROVE AnswerInv'
<1>1. AnswerTypeOK BY DEF AnswerInv
<1>2. turn = [f \in TurnFields |-> turn[f]] BY <1>1, TurnShape
<1> DEFINE c == turn.fused[turn.at + 1]
           items == IF turn.found[turn.at + 1] THEN WithBase(turn.items, c) ELSE turn.items
           looks == IF items = turn.items \/ Full(items) THEN <<>> ELSE Neighbours(c)
<1>3. /\ Still /\ turn.pc = "reattach" /\ Len(turn.found) = Len(turn.fused)
      /\ turn.at < Len(turn.fused)
      /\ turn' = [turn EXCEPT !.at = @ + 1, !.items = items, !.looks = looks]
    BY DEF BuildCandidate, Still
<1>4. turn.at \in Nat /\ turn.fused \in Seq(Chunks) /\ turn.found \in Seq(BOOLEAN)
      /\ turn.items \in Seq(ItemRecords)
    BY <1>1 DEF AnswerTypeOK
<1>5. /\ c \in Chunks /\ turn.at + 1 \in DOMAIN turn.found /\ turn.at + 1 \in Nat
    BY <1>3, <1>4
<1>6. turn.found[turn.at + 1] => Backed(c[1]) BY <1>5 DEF Backed
<1>7. \A e \in Range(turn.items) : Backed(e.chunk[1])
    BY <1>3 DEF AnswerInv, EvidenceBacked
<1> HIDE DEF c
<1>8. items \in Seq(ItemRecords) /\ \A e \in Range(items) : Backed(e.chunk[1])
  <2>1. CASE turn.found[turn.at + 1]
    <3>1. items = WithBase(turn.items, c) BY <2>1
    <3>2. /\ WithBase(turn.items, c) \in Seq(ItemRecords)
          /\ \A e \in Range(WithBase(turn.items, c)) : e \in Range(turn.items) \/ e.chunk = c
        BY <1>4, <1>5, BaseAtMost
    <3>3. Backed(c[1]) BY <1>6, <2>1
    <3> HIDE DEF items
    <3>4. \A e \in Range(items) : Backed(e.chunk[1])
      <4> SUFFICES ASSUME NEW e \in Range(items) PROVE Backed(e.chunk[1])
          OBVIOUS
      <4>1. CASE e \in Range(turn.items) BY <1>7, <4>1
      <4>2. CASE e.chunk = c BY <3>3, <4>2
      <4> QED BY <3>1, <3>2, <4>1, <4>2
    <3> QED BY <3>1, <3>2, <3>4
  <2>2. CASE ~turn.found[turn.at + 1]
    <3>1. items = turn.items BY <2>2
    <3> HIDE DEF items
    <3> QED BY <1>4, <1>7, <3>1
  <2> QED BY <2>1, <2>2
<1>9. items # turn.items => Backed(c[1]) BY <1>6
<1> HIDE DEF items
<1>10. looks \in Seq(Chunks) /\ \A n \in Range(looks) : Backed(n[1])
  <2>1. CASE looks = <<>>
    <3> HIDE DEF looks
    <3>1. DOMAIN looks = {} BY <2>1
    <3>2. looks \in Seq(Chunks) BY <2>1
    <3> QED BY <3>1, <3>2 DEF Range
  <2>2. CASE looks # <<>>
    <3>1. looks = Neighbours(c) /\ Backed(c[1]) BY <1>9, <2>2
    <3> HIDE DEF looks
    <3>2. Neighbours(c) \in Seq(Chunks) /\ \A n \in Range(Neighbours(c)) : n[1] = c[1]
        BY <1>5, NeighboursOfVersion
    <3> QED BY <3>1, <3>2
  <2> QED BY <2>1, <2>2
<1> HIDE DEF looks
<1>11. /\ turn' = [f \in TurnFields |-> turn'[f]]
       /\ turn'.lists = turn.lists /\ turn'.fused = turn.fused /\ turn'.found = turn.found
       /\ turn'.at = turn.at + 1 /\ turn'.items = items /\ turn'.looks = looks
       /\ turn'.pc = turn.pc
    BY <1>2, <1>3 DEF TurnFields
<1> QED BY <1>3, <1>5, <1>8, <1>10, <1>11, ContextStep

\* A neighbour is of the version of its hit.
LEMMA LookAroundSound == ASSUME AnswerInv, LookAround PROVE AnswerInv'
<1>1. AnswerTypeOK BY DEF AnswerInv
<1>2. turn = [f \in TurnFields |-> turn[f]] BY <1>1, TurnShape
<1> DEFINE n == Head(turn.looks)
           near == NeighbourItems(n)
           items == IF near = <<>> THEN turn.items ELSE Add(turn.items, near[1])
<1>3. /\ Still /\ turn.pc = "reattach" /\ turn.looks # <<>>
      /\ turn' = [turn EXCEPT !.items = items, !.looks = Tail(turn.looks)]
    BY DEF LookAround, Still
<1>4. turn.looks \in Seq(Chunks) /\ turn.items \in Seq(ItemRecords) /\ turn.at \in Nat
    BY <1>1 DEF AnswerTypeOK
<1>5. /\ n \in Chunks /\ n \in Range(turn.looks)
      /\ Tail(turn.looks) \in Seq(Chunks)
      /\ Range(Tail(turn.looks)) \subseteq Range(turn.looks)
  <2>1. n \in Chunks /\ Tail(turn.looks) \in Seq(Chunks) BY <1>3, <1>4
  <2>2. 1 \in DOMAIN turn.looks /\ n = turn.looks[1] BY <1>3, <1>4
  <2>3. \A k \in DOMAIN Tail(turn.looks) :
            k + 1 \in DOMAIN turn.looks /\ Tail(turn.looks)[k] = turn.looks[k + 1]
      BY <1>3, <1>4
  <2> HIDE DEF n
  <2>4. n \in Range(turn.looks) BY <2>2 DEF Range
  <2>5. Range(Tail(turn.looks)) \subseteq Range(turn.looks) BY <2>3 DEF Range
  <2> QED BY <2>1, <2>4, <2>5
<1>6. /\ \A e \in Range(turn.items) : Backed(e.chunk[1])
      /\ \A x \in Range(turn.looks) : Backed(x[1])
    BY <1>3 DEF AnswerInv, EvidenceBacked
<1>7. Backed(n[1]) /\ \A x \in Range(Tail(turn.looks)) : Backed(x[1])
  <2> HIDE DEF n
  <2> QED BY <1>5, <1>6
<1> HIDE DEF n
<1>8. items \in Seq(ItemRecords) /\ \A e \in Range(items) : Backed(e.chunk[1])
  <2>1. CASE near = <<>>
    <3>1. items = turn.items BY <2>1
    <3> HIDE DEF items, near
    <3> QED BY <1>4, <1>6, <3>1
  <2>2. CASE near # <<>>
    <3> DEFINE item == Item(n, Text[n])
    <3>1. near = <<item>> BY <2>2 DEF NeighbourItems
    <3>2. item \in ItemRecords /\ item.chunk = n
        BY <1>5, AnswerAssumption DEF Item, ItemRecords
    <3> HIDE DEF item
    <3>3. items = Add(turn.items, item) BY <2>2, <3>1
    <3>4. /\ Add(turn.items, item) \in Seq(ItemRecords)
          /\ Range(Add(turn.items, item)) \subseteq Range(turn.items) \cup {item}
        BY <1>4, <3>2, AddAtMost
    <3> HIDE DEF items, near
    <3>5. \A e \in Range(items) : e \in Range(turn.items) \/ e = item BY <3>3, <3>4
    <3>6. Backed(item.chunk[1]) BY <1>7, <3>2
    <3> QED BY <1>6, <3>3, <3>4, <3>5, <3>6
  <2> QED BY <2>1, <2>2
<1> HIDE DEF items
<1>9. /\ turn' = [f \in TurnFields |-> turn'[f]]
      /\ turn'.lists = turn.lists /\ turn'.fused = turn.fused /\ turn'.found = turn.found
      /\ turn'.at = turn.at /\ turn'.items = items /\ turn'.looks = Tail(turn.looks)
      /\ turn'.pc = turn.pc
    BY <1>2, <1>3 DEF TurnFields
<1> QED BY <1>3, <1>4, <1>5, <1>7, <1>8, <1>9, ContextStep

-----------------------------------------------------------------------------
(***************************************************************************)
(* The steps of the answer                                                 *)
(***************************************************************************)

\* What follows the context does not change it.
LEMMA AnswerStep ==
    ASSUME AnswerInv, Still, turn'.pc \in {"generate", "persist", "answered", "failed"},
           turn' = [f \in TurnFields |-> turn'[f]],
           turn'.lists = turn.lists, turn'.items = turn.items, turn'.looks = turn.looks,
           turn'.at \in Nat,
           \/ turn'.fused = turn.fused /\ turn'.found = turn.found
           \/ turn'.fused = <<>> /\ turn'.found = <<>>
    PROVE AnswerInv'
<1>1. AnswerTypeOK BY DEF AnswerInv
<1>2. turn'.fused \in Seq(Chunks) /\ turn'.found \in Seq(BOOLEAN)
  <2>1. turn.fused \in Seq(Chunks) /\ turn.found \in Seq(BOOLEAN) BY <1>1 DEF AnswerTypeOK
  <2>2. CASE turn'.fused = turn.fused /\ turn'.found = turn.found BY <2>1, <2>2
  <2>3. CASE turn'.fused = <<>> /\ turn'.found = <<>> BY <2>3
  <2> QED BY <2>2, <2>3
<1>3. AnswerTypeOK' BY <1>1, <1>2, StillTypes DEF AnswerTypeOK
<1>4. FoundWereServed' BY DEF AnswerInv, FoundWereServed, Still, Range
<1>5. ResolvedAgree' BY DEF AnswerInv, ResolvedAgree, Still
<1>6. EvidenceBacked' /\ OneVersionPerDocument'
    BY DEF AnswerInv, EvidenceBacked, OneVersionPerDocument
<1> QED BY <1>3, <1>4, <1>5, <1>6 DEF AnswerInv

\* The end of retrieval leaves the evidence as it is.
LEMMA JudgeSound == ASSUME AnswerInv, Judge PROVE AnswerInv'
<1>1. AnswerTypeOK BY DEF AnswerInv
<1>2. turn = [f \in TurnFields |-> turn[f]] BY <1>1, TurnShape
<1> DEFINE ended == [turn EXCEPT !.run = "finished", !.fused = <<>>, !.found = <<>>, !.at = 0]
<1>3. Still /\ \E u, e : turn' \in {[ended EXCEPT !.pc = "generate", !.usable = u],
                                    [ended EXCEPT !.pc = "persist", !.envelope = e]}
    BY DEF Judge, Still
<1>4. PICK u, e : turn' \in {[ended EXCEPT !.pc = "generate", !.usable = u],
                             [ended EXCEPT !.pc = "persist", !.envelope = e]}
    BY <1>3
<1>5. /\ turn' = [f \in TurnFields |-> turn'[f]] /\ turn'.pc \in {"generate", "persist"}
      /\ turn'.lists = turn.lists /\ turn'.items = turn.items /\ turn'.looks = turn.looks
      /\ turn'.at = 0 /\ turn'.fused = <<>> /\ turn'.found = <<>>
  <2>1. CASE turn' = [ended EXCEPT !.pc = "generate", !.usable = u]
      BY <1>2, <2>1 DEF TurnFields
  <2>2. CASE turn' = [ended EXCEPT !.pc = "persist", !.envelope = e]
      BY <1>2, <2>2 DEF TurnFields
  <2> QED BY <1>4, <2>1, <2>2
<1> QED BY <1>3, <1>5, AnswerStep

\* A call of the model leaves the evidence as it is.
LEMMA GenerateSound == ASSUME AnswerInv, Generate PROVE AnswerInv'
<1>1. AnswerTypeOK BY DEF AnswerInv
<1>2. turn = [f \in TurnFields |-> turn[f]] BY <1>1, TurnShape
<1>3. Still /\ turn.pc = "generate"
      /\ \E e, t : turn' \in {[turn EXCEPT !.pc = "persist", !.envelope = e],
                              [turn EXCEPT !.tries = t]}
    BY DEF Generate, Still
<1>4. PICK e, t : turn' \in {[turn EXCEPT !.pc = "persist", !.envelope = e],
                             [turn EXCEPT !.tries = t]}
    BY <1>3
<1>5. /\ turn' = [f \in TurnFields |-> turn'[f]] /\ turn'.pc \in {"generate", "persist"}
      /\ turn'.lists = turn.lists /\ turn'.items = turn.items /\ turn'.looks = turn.looks
      /\ turn'.at = turn.at /\ turn'.fused = turn.fused /\ turn'.found = turn.found
  <2>1. CASE turn' = [turn EXCEPT !.pc = "persist", !.envelope = e]
      BY <1>2, <2>1 DEF TurnFields
  <2>2. CASE turn' = [turn EXCEPT !.tries = t] BY <1>2, <1>3, <2>2 DEF TurnFields
  <2> QED BY <1>4, <2>1, <2>2
<1> QED BY <1>1, <1>3, <1>5, AnswerStep DEF AnswerTypeOK

\* Persisting leaves the evidence as it is.
LEMMA PersistSound == ASSUME AnswerInv, Persist PROVE AnswerInv'
<1>1. AnswerTypeOK BY DEF AnswerInv
<1>2. turn = [f \in TurnFields |-> turn[f]] BY <1>1, TurnShape
<1>3. Still /\ \E r : turn' \in {[turn EXCEPT !.pc = "answered", !.cited = r],
                                 [turn EXCEPT !.pc = "failed"]}
    BY DEF Persist, Still
<1>4. PICK r : turn' \in {[turn EXCEPT !.pc = "answered", !.cited = r],
                          [turn EXCEPT !.pc = "failed"]}
    BY <1>3
<1>5. /\ turn' = [f \in TurnFields |-> turn'[f]] /\ turn'.pc \in {"answered", "failed"}
      /\ turn'.lists = turn.lists /\ turn'.items = turn.items /\ turn'.looks = turn.looks
      /\ turn'.at = turn.at /\ turn'.fused = turn.fused /\ turn'.found = turn.found
  <2>1. CASE turn' = [turn EXCEPT !.pc = "answered", !.cited = r]
      BY <1>2, <2>1 DEF TurnFields
  <2>2. CASE turn' = [turn EXCEPT !.pc = "failed"] BY <1>2, <2>2 DEF TurnFields
  <2> QED BY <1>4, <2>1, <2>2
<1> QED BY <1>1, <1>3, <1>5, AnswerStep DEF AnswerTypeOK

\* So does a failure.
LEMMA RequestFailsSound == ASSUME AnswerInv, RequestFails PROVE AnswerInv'
<1>1. AnswerTypeOK BY DEF AnswerInv
<1>2. turn = [f \in TurnFields |-> turn[f]] BY <1>1, TurnShape
<1>3. Still /\ \E r : turn' = [turn EXCEPT !.pc = "failed", !.run = r]
    BY DEF RequestFails, Still
<1>4. PICK r : turn' = [turn EXCEPT !.pc = "failed", !.run = r] BY <1>3
<1>5. /\ turn' = [f \in TurnFields |-> turn'[f]] /\ turn'.pc = "failed"
      /\ turn'.lists = turn.lists /\ turn'.items = turn.items /\ turn'.looks = turn.looks
      /\ turn'.at = turn.at /\ turn'.fused = turn.fused /\ turn'.found = turn.found
    BY <1>2, <1>4 DEF TurnFields
<1> QED BY <1>1, <1>3, <1>5, AnswerStep DEF AnswerTypeOK

\* Every step keeps the invariant.
LEMMA AnswerNextSound == ASSUME AnswerInv, [AnswerNext]_answerVars PROVE AnswerInv'
<1>1. CASE \E v \in Versions : ServeVersion(v) BY <1>1, ServeVersionSound
<1>2. CASE \E d \in Docs : RemoveDocument(d) BY <1>2, RemoveDocumentSound
<1>3. CASE \E scope \in Scopes : Ask(scope) BY <1>3, AskSound
<1>4. CASE SearchDense \/ SearchLexical \/ SearchIdentifier
    BY <1>4, SearchSound DEF SearchDense, SearchLexical, SearchIdentifier
<1>5. CASE Fuse \/ Attach \/ Rerank BY <1>5, FuseSound, AttachSound, RerankSound
<1>6. CASE BuildCandidate \/ LookAround BY <1>6, BuildCandidateSound, LookAroundSound
<1>7. CASE Judge \/ Generate \/ Persist \/ RequestFails
    BY <1>7, JudgeSound, GenerateSound, PersistSound, RequestFailsSound
<1>8. CASE UNCHANGED answerVars BY <1>8, AnswerUnchanged
<1> QED BY <1>1, <1>2, <1>3, <1>4, <1>5, <1>6, <1>7, <1>8 DEF AnswerNext

\* The invariant holds in every reachable state.
LEMMA AnswerInvariance == AnswerSpec => []AnswerInv
BY AnswerInitSound, AnswerNextSound, PTL DEF AnswerSpec

\* The evidence of an answer never mixes two versions of a document, whatever is activated
\* and deleted between any two of its searches, resolutions and neighbour lookups.
THEOREM EvidenceOfOneVersion == AnswerSpec => []OneVersionPerDocument
<1>1. AnswerInv => OneVersionPerDocument BY DEF AnswerInv
<1> QED BY <1>1, AnswerInvariance, PTL

-----------------------------------------------------------------------------
(***************************************************************************)
(* Citations                                                               *)
(***************************************************************************)

ClaimRecords == [labels : Seq(Nat), inAnswer : BOOLEAN, quoted : BOOLEAN]

\* The labels of the claims are listed whole.
LEMMA ClaimedLabels ==
    ASSUME NEW e, e.claims \in Seq(ClaimRecords)
    PROVE /\ Claimed(e) \in Seq(Nat)
          /\ \A x : x \in Range(Claimed(e)) <=>
                 \E i \in DOMAIN e.claims : x \in Range(e.claims[i].labels)
<1> DEFINE cs == e.claims
           n == Len(cs)
           At(i) == {i} \X DOMAIN cs[i].labels
           rows == [i \in 1 .. n |-> At(i)]
           places == UNION {At(i) : i \in DOMAIN cs}
           sooner == {p \in places \X places :
                        p[1][1] < p[2][1] \/ (p[1][1] = p[2][1] /\ p[1][2] < p[2][2])}
           all == InOrder(places, sooner)
           mentions == [k \in DOMAIN all |-> cs[all[k][1]].labels[all[k][2]]]
<1>1. /\ n \in Nat /\ DOMAIN cs = 1 .. n
      /\ \A i \in 1 .. n : cs[i] \in ClaimRecords
  <2> DEFINE T == ClaimRecords
  <2>1. cs \in Seq(T) OBVIOUS
  <2> HIDE DEF T
  <2>2. n \in Nat /\ DOMAIN cs = 1 .. n /\ \A i \in 1 .. n : cs[i] \in T BY <2>1
  <2> QED BY <2>2 DEF T
<1>2. Claimed(e) = Once(mentions) BY DEF Claimed
<1> HIDE DEF cs, n
<1>3. \A i \in 1 .. n : /\ cs[i].labels \in Seq(Nat) /\ Len(cs[i].labels) \in Nat
                        /\ DOMAIN cs[i].labels = 1 .. Len(cs[i].labels)
  <2>1. \A i \in 1 .. n : cs[i].labels \in Seq(Nat) BY <1>1 DEF ClaimRecords
  <2> QED BY <2>1
<1>4. IsFiniteSet(places)
  <2>1. ASSUME NEW i \in 1 .. n PROVE IsFiniteSet(At(i))
    <3>1. IsFiniteSet({i}) BY FS_Singleton
    <3> DEFINE l == Len(cs[i].labels)
    <3>2. l \in Int /\ DOMAIN cs[i].labels = 1 .. l BY <1>3
    <3> HIDE DEF l
    <3>3. IsFiniteSet(1 .. l) BY <3>2, FS_Interval
    <3> QED BY <3>1, <3>2, <3>3, FS_Product
  <2>2. rows \in [1 .. n -> Range(rows)] /\ DOMAIN rows = 1 .. n BY DEF Range
  <2>3. rows \in Surjection(1 .. n, Range(rows)) BY <2>2 DEF Surjection, Range
  <2>4. IsFiniteSet(1 .. n) BY <1>1, FS_Interval
  <2>5. IsFiniteSet(Range(rows))
    <3> HIDE DEF rows
    <3> QED BY <2>3, <2>4, FS_Surjection
  <2>6. \A S \in Range(rows) : IsFiniteSet(S)
    <3> SUFFICES ASSUME NEW i \in 1 .. n PROVE IsFiniteSet(rows[i])
        BY <2>2 DEF Range
    <3>1. rows[i] = At(i) OBVIOUS
    <3> HIDE DEF At, rows
    <3> QED BY <2>1, <3>1
  <2>7. places = UNION Range(rows) BY <1>1 DEF Range
  <2> HIDE DEF places, rows
  <2> QED BY <2>5, <2>6, <2>7, FS_UNION
<1>5. /\ \A p \in places : /\ p = <<p[1], p[2]>> /\ p[1] \in 1 .. n /\ p[1] \in Int /\ p[2] \in Int
                           /\ p[2] \in DOMAIN cs[p[1]].labels
      /\ \A i \in 1 .. n : \A j \in DOMAIN cs[i].labels : <<i, j>> \in places
    BY <1>1, <1>3
<1>6. Orders(sooner, places)
  <2>1. \A p, q \in places : <<p, q>> \in sooner <=>
                               p[1] < q[1] \/ (p[1] = q[1] /\ p[2] < q[2])
    <3> HIDE DEF places
    <3> QED OBVIOUS
  <2> HIDE DEF places, sooner
  <2>2. \A p \in places : <<p, p>> \notin sooner BY <1>5, <2>1
  <2>3. \A p, q, r \in places : <<p, q>> \in sooner /\ <<q, r>> \in sooner => <<p, r>> \in sooner
    <3> SUFFICES ASSUME NEW p \in places, NEW q \in places, NEW r \in places,
                        <<p, q>> \in sooner, <<q, r>> \in sooner
                 PROVE <<p, r>> \in sooner
        OBVIOUS
    <3>1. p[1] \in Int /\ p[2] \in Int /\ q[1] \in Int /\ q[2] \in Int
          /\ r[1] \in Int /\ r[2] \in Int
        BY <1>5
    <3> QED BY <2>1, <3>1
  <2>4. \A p, q \in places : p = q \/ <<p, q>> \in sooner \/ <<q, p>> \in sooner
    <3> SUFFICES ASSUME NEW p \in places, NEW q \in places,
                        ~ (<<p, q>> \in sooner), ~ (<<q, p>> \in sooner)
                 PROVE p = q
        OBVIOUS
    <3>1. p[1] \in Int /\ p[2] \in Int /\ q[1] \in Int /\ q[2] \in Int
          /\ p = <<p[1], p[2]>> /\ q = <<q[1], q[2]>>
        BY <1>5
    <3>2. p[1] = q[1] /\ p[2] = q[2] BY <2>1, <3>1
    <3> QED BY <3>1, <3>2
  <2> QED BY <2>2, <2>3, <2>4 DEF Orders
<1> DEFINE m == Cardinality(places)
<1>7. /\ m \in Nat /\ all \in [1 .. m -> places] /\ \A p \in places : \E k \in 1 .. m : all[k] = p
  <2> HIDE DEF places, sooner
  <2> QED BY <1>4, <1>6, InOrderLists
<1> HIDE DEF all, m, places
<1>8. mentions \in [1 .. m -> Nat] /\ DOMAIN mentions = 1 .. m
  <2>1. DOMAIN all = 1 .. m /\ \A k \in 1 .. m : all[k] \in places BY <1>7
  <2>2. \A k \in 1 .. m : cs[all[k][1]].labels[all[k][2]] \in Nat
    <3> SUFFICES ASSUME NEW p \in places PROVE cs[p[1]].labels[p[2]] \in Nat
        BY <2>1
    <3>1. p[1] \in 1 .. n /\ p[2] \in DOMAIN cs[p[1]].labels BY <1>5
    <3> QED BY <1>3, <3>1
  <2> QED BY <2>1, <2>2
<1>9. Once(mentions) \in Seq(Nat) /\ Range(Once(mentions)) = Range(mentions)
  <2> HIDE DEF mentions
  <2> QED BY <1>7, <1>8, OnceKeepsEntries
<1>10. \A k \in 1 .. m : mentions[k] = cs[all[k][1]].labels[all[k][2]] BY <1>7
<1>11. ASSUME NEW x, x \in Range(mentions)
       PROVE \E i \in DOMAIN cs : x \in Range(cs[i].labels)
  <2>1. PICK k \in 1 .. m : mentions[k] = x BY <1>8, <1>11 DEF Range
  <2>2. all[k] \in places BY <1>7
  <2>3. all[k][1] \in DOMAIN cs /\ all[k][2] \in DOMAIN cs[all[k][1]].labels
      BY <1>1, <1>5, <2>2
  <2>4. x = cs[all[k][1]].labels[all[k][2]] BY <1>10, <2>1
  <2>5. x \in Range(cs[all[k][1]].labels) BY <2>3, <2>4 DEF Range
  <2> QED BY <2>3, <2>5
<1>12. ASSUME NEW i \in DOMAIN cs, NEW x \in Range(cs[i].labels)
       PROVE x \in Range(mentions)
  <2>1. PICK j \in DOMAIN cs[i].labels : cs[i].labels[j] = x BY DEF Range
  <2>2. <<i, j>> \in places BY <1>1, <1>5
  <2>3. PICK k \in 1 .. m : all[k] = <<i, j>> BY <1>7, <2>2
  <2>4. mentions[k] = x BY <1>10, <2>1, <2>3
  <2> HIDE DEF mentions
  <2> QED BY <1>8, <2>4 DEF Range
<1> QED BY <1>2, <1>9, <1>11, <1>12 DEF cs

\* What is said of the citations of a reply with these labels in the prompt.
Cited(e, labels) ==
    /\ Range(e.used) \subseteq labels
    /\ \A i \in 1 .. Len(e.claims) : Range(e.claims[i].labels) \subseteq Range(e.used)
    /\ e.answerable <=> e.used # <<>>

\* An envelope without claims cites nothing.
LEMMA NoAnswerCited == ASSUME NEW reason, NEW labels PROVE Cited(NoAnswer(reason), labels)
<1> DEFINE e == NoAnswer(reason)
<1>1. e.used = <<>> /\ e.claims = <<>> /\ e.answerable = FALSE BY DEF NoAnswer
<1> HIDE DEF e
<1>2. Range(e.used) = {} /\ Len(e.claims) = 0 BY <1>1 DEF Range
<1>3. \A i \in 1 .. Len(e.claims) : Range(e.claims[i].labels) \subseteq Range(e.used) BY <1>2
<1>4. Cited(e, labels) BY <1>1, <1>2, <1>3 DEF Cited
<1> QED BY <1>4 DEF e

\* An envelope with claims of known labels that uses just these labels.
LEMMA ClaimsMakeCited ==
    ASSUME NEW e, e.answerable, e.claims \in Seq(ClaimRecords), e.used \in Seq(Nat),
           Len(e.claims) # 0, \A i \in 1 .. Len(e.claims) : KnownLabels(e.claims[i].labels),
           \A x : x \in Range(e.used) <=>
                     \E i \in DOMAIN e.claims : x \in Range(e.claims[i].labels)
    PROVE Cited(e, Labels)
<1>1. \A x : x \in Range(e.used) <=> \E i \in DOMAIN e.claims : x \in Range(e.claims[i].labels)
    OBVIOUS
<1>2. DOMAIN e.claims = 1 .. Len(e.claims) /\ Len(e.claims) \in Nat
  <2> DEFINE T == ClaimRecords
  <2>1. e.claims \in Seq(T) OBVIOUS
  <2> HIDE DEF T
  <2> QED BY <2>1
<1>3. \A i \in 1 .. Len(e.claims) :
          e.claims[i].labels # <<>> /\ Range(e.claims[i].labels) \subseteq Labels
    BY DEF KnownLabels
<1>4. Range(e.used) \subseteq Labels BY <1>1, <1>2, <1>3
<1>5. \A i \in 1 .. Len(e.claims) : Range(e.claims[i].labels) \subseteq Range(e.used)
    BY <1>1, <1>2
<1>6. e.used # <<>>
  <2>1. 1 \in 1 .. Len(e.claims) BY <1>2
  <2>2. e.claims[1].labels \in Seq(Nat)
    <3> DEFINE T == ClaimRecords
    <3>1. e.claims \in Seq(T) OBVIOUS
    <3> HIDE DEF T
    <3>2. e.claims[1] \in T BY <2>1, <3>1
    <3> QED BY <3>2 DEF T, ClaimRecords
  <2>3. e.claims[1].labels # <<>> BY <1>3, <2>1
  <2>4. 1 \in DOMAIN e.claims[1].labels BY <2>2, <2>3
  <2>5. e.claims[1].labels[1] \in Range(e.claims[1].labels) BY <2>4 DEF Range
  <2>6. e.claims[1].labels[1] \in Range(e.used) BY <1>5, <2>1, <2>5
  <2> QED BY <2>6 DEF Range
<1> QED BY <1>4, <1>5, <1>6 DEF Cited

\* A reply that is valid, and one written anew, cite every label of every claim.
LEMMA ReplyCited ==
    ASSUME NEW reply \in Replies
    PROVE /\ Valid(reply) => Cited(reply, Labels)
          /\ Repairable(reply) => Cited(Canonical(reply), Labels)
<1>1. /\ DOMAIN reply = {"answerable", "reason", "claims", "used"}
      /\ reply.answerable \in BOOLEAN /\ reply.used \in Seq(Nat)
      /\ reply.claims \in Seq(ClaimRecords)
    BY AnswerAssumption DEF ClaimRecords
<1>2. Range(Once(reply.used)) = Range(reply.used)
  <2> DEFINE s == reply.used
  <2>1. s \in Seq(Nat) BY <1>1
  <2> HIDE DEF s
  <2>2. Len(s) \in Nat /\ s \in [1 .. Len(s) -> Nat] BY <2>1
  <2>3. Range(Once(s)) = Range(s) BY <2>2, OnceKeepsEntries
  <2> QED BY <2>3 DEF s
<1>3. ASSUME Valid(reply) PROVE Cited(reply, Labels)
  <2>1. CASE ~reply.answerable
    <3>1. reply.used = <<>> /\ reply.claims = <<>> BY <1>3, <2>1 DEF Valid
    <3>2. Range(reply.used) = {} /\ Len(reply.claims) = 0 BY <3>1 DEF Range
    <3> QED BY <2>1, <3>1, <3>2 DEF Cited
  <2>2. CASE reply.answerable
    <3>1. reply.claims # <<>> /\ BadClaims(reply) = {} /\ Once(reply.used) = Claimed(reply)
        BY <1>3, <2>2 DEF Valid
    <3>2. \A i \in 1 .. Len(reply.claims) : KnownLabels(reply.claims[i].labels)
        BY <3>1 DEF BadClaims
    <3>3. Len(reply.claims) # 0
      <4> DEFINE T == ClaimRecords
      <4>1. reply.claims \in Seq(T) BY <1>1
      <4> HIDE DEF T
      <4> QED BY <3>1, <4>1
    <3>4. \A x : x \in Range(reply.used) <=>
                     \E i \in DOMAIN reply.claims : x \in Range(reply.claims[i].labels)
        BY <1>1, <1>2, <3>1, ClaimedLabels
    <3> QED BY <1>1, <2>2, <3>2, <3>3, <3>4, ClaimsMakeCited
  <2> QED BY <1>1, <2>1, <2>2
<1>4. ASSUME Repairable(reply) PROVE Cited(Canonical(reply), Labels)
  <2> DEFINE e == Canonical(reply)
  <2>1. e.claims = reply.claims /\ e.used = Claimed(reply) /\ e.answerable = reply.answerable
      BY <1>1 DEF Canonical
  <2> HIDE DEF e
  <2>2. \A x : x \in Range(e.used) <=>
                  \E i \in DOMAIN e.claims : x \in Range(e.claims[i].labels)
      BY <1>1, <2>1, ClaimedLabels
  <2>3. reply.answerable /\ BadClaims(reply) # {}
        /\ \A i \in 1 .. Len(reply.claims) : KnownLabels(reply.claims[i].labels)
      BY <1>4 DEF Repairable
  <2>4. Len(e.claims) # 0
    <3>1. \E i : i \in 1 .. Len(reply.claims) BY <2>3 DEF BadClaims
    <3> QED BY <2>1, <3>1
  <2>5. e.used \in Seq(Nat) BY <1>1, <2>1, ClaimedLabels
  <2>6. Cited(e, Labels)
      BY <1>1, <2>1, <2>2, <2>3, <2>4, <2>5, ClaimsMakeCited
  <2> QED BY <2>6 DEF e
<1> QED BY <1>3, <1>4

\* A step keeps what is about to be persisted cited.
LEMMA ClaimsStep ==
    ASSUME AnswerInv, ClaimsCited, [AnswerNext]_answerVars
    PROVE ClaimsCited'
<1>1. turn = [f \in TurnFields |-> turn[f]] BY TurnShape DEF AnswerInv
<1>2. CASE Judge
  <2>1. PICK verdict, usable, reason :
           LET ended == [turn EXCEPT !.run = "finished", !.fused = <<>>, !.found = <<>>, !.at = 0]
           IN turn' = IF reason = "none" THEN [ended EXCEPT !.pc = "generate", !.usable = usable]
                      ELSE [ended EXCEPT !.pc = "persist", !.envelope = NoAnswer(reason)]
      BY <1>2 DEF Judge
  <2>2. turn'.pc = "persist" => turn'.envelope = NoAnswer(reason)
      BY <1>1, <2>1 DEF TurnFields
  <2> QED BY <2>2, NoAnswerCited DEF ClaimsCited, Cited, Labels
<1>3. CASE Generate
  <2>1. /\ turn.pc = "generate"
        /\ \/ turn' = [turn EXCEPT !.pc = "persist", !.envelope = NoAnswer("provider_failure")]
           \/ \E reply \in Replies :
                turn' = IF Valid(reply) THEN [turn EXCEPT !.pc = "persist", !.envelope = reply]
                        ELSE IF Repairable(reply)
                        THEN [turn EXCEPT !.pc = "persist", !.envelope = Canonical(reply)]
                        ELSE IF MayRepair THEN [turn EXCEPT !.tries = @ + 1]
                        ELSE [turn EXCEPT !.pc = "persist", !.envelope = NoAnswer("malformed_response")]
      BY <1>3 DEF Generate
  <2>2. \/ turn'.pc = "generate"
        \/ \E e : turn' = [turn EXCEPT !.pc = "persist", !.envelope = e] /\ Cited(e, Labels)
    <3>1. CASE turn' = [turn EXCEPT !.pc = "persist", !.envelope = NoAnswer("provider_failure")]
        BY <3>1, NoAnswerCited
    <3>2. ASSUME NEW reply \in Replies,
                 turn' = IF Valid(reply) THEN [turn EXCEPT !.pc = "persist", !.envelope = reply]
                         ELSE IF Repairable(reply)
                         THEN [turn EXCEPT !.pc = "persist", !.envelope = Canonical(reply)]
                         ELSE IF MayRepair THEN [turn EXCEPT !.tries = @ + 1]
                         ELSE [turn EXCEPT !.pc = "persist", !.envelope = NoAnswer("malformed_response")]
          PROVE \/ turn'.pc = "generate"
                \/ \E e : turn' = [turn EXCEPT !.pc = "persist", !.envelope = e] /\ Cited(e, Labels)
      <4>1. CASE Valid(reply) BY <3>2, <4>1, ReplyCited
      <4>2. CASE ~Valid(reply) /\ Repairable(reply) BY <3>2, <4>2, ReplyCited
      <4>3. CASE ~Valid(reply) /\ ~Repairable(reply) /\ MayRepair
          BY <1>1, <2>1, <3>2, <4>3 DEF TurnFields
      <4>4. CASE ~Valid(reply) /\ ~Repairable(reply) /\ ~MayRepair
          BY <3>2, <4>4, NoAnswerCited
      <4> QED BY <4>1, <4>2, <4>3, <4>4
    <3> QED BY <2>1, <3>1, <3>2
  <2>3. CASE turn'.pc = "generate" BY <2>3 DEF ClaimsCited
  <2>4. ASSUME NEW e, turn' = [turn EXCEPT !.pc = "persist", !.envelope = e], Cited(e, Labels)
        PROVE ClaimsCited'
    <3>1. turn'.envelope = e /\ turn'.usable = turn.usable BY <1>1, <2>4 DEF TurnFields
    <3> QED BY <2>4, <3>1 DEF ClaimsCited, Cited, Labels
  <2> QED BY <2>2, <2>3, <2>4
<1>4. CASE Persist
  <2>1. turn'.pc \in {"answered", "failed"} BY <1>1, <1>4 DEF Persist, TurnFields
  <2> QED BY <2>1 DEF ClaimsCited
<1>5. CASE RequestFails
  <2>1. turn'.pc = "failed" BY <1>1, <1>5 DEF RequestFails, TurnFields
  <2> QED BY <2>1 DEF ClaimsCited
<1>6. CASE \/ \E scope \in Scopes : Ask(scope)
           \/ SearchDense \/ SearchLexical \/ SearchIdentifier \/ Fuse
           \/ Attach \/ Rerank \/ BuildCandidate \/ LookAround
  <2>1. turn'.pc \in {"search", "attach", "reattach"}
    <3>1. CASE \E scope \in Scopes : Ask(scope) BY <1>1, <3>1 DEF Ask, TurnFields
    <3>2. CASE SearchDense \/ SearchLexical \/ SearchIdentifier
        BY <1>1, <3>2 DEF SearchDense, SearchLexical, SearchIdentifier, Search, TurnFields
    <3>3. CASE Fuse BY <1>1, <3>3 DEF Fuse, TurnFields
    <3>4. CASE Attach BY <1>1, <3>4 DEF Attach, TurnFields
    <3>5. CASE Rerank BY <1>1, <3>5 DEF Rerank, TurnFields
    <3>6. CASE BuildCandidate BY <1>1, <3>6 DEF BuildCandidate, TurnFields
    <3>7. CASE LookAround BY <1>1, <3>7 DEF LookAround, TurnFields
    <3> QED BY <1>6, <3>1, <3>2, <3>3, <3>4, <3>5, <3>6, <3>7
  <2> QED BY <2>1 DEF ClaimsCited
<1>7. CASE (\E v \in Versions : ServeVersion(v)) \/ (\E d \in Docs : RemoveDocument(d))
           \/ UNCHANGED answerVars
  <2>1. turn' = turn BY <1>7 DEF ServeVersion, RemoveDocument, answerVars
  <2> QED BY <2>1 DEF ClaimsCited, Labels
<1> QED BY <1>2, <1>3, <1>4, <1>5, <1>6, <1>7 DEF AnswerNext

\* Whatever the model replied, what is about to be persisted cites evidence of the prompt only
\* and every label of every claim.
THEOREM EveryClaimCited == AnswerSpec => []ClaimsCited
<1>1. AnswerInit => ClaimsCited BY DEF AnswerInit, Quiet, ClaimsCited
<1> QED BY <1>1, ClaimsStep, AnswerInvariance, PTL DEF AnswerSpec
-----------------------------------------------------------------------------
(***************************************************************************)
(* Chunking: lines and blocks                                              *)
(***************************************************************************)

\* The lines of the file are of known kinds.
TextOK == text \in Seq(DOMAIN LineCost)

\* Lines are numbered from 1 and have their costs.
LEMMA TextLines ==
    ASSUME TextOK
    PROVE /\ Len(text) \in Nat /\ Lines = 1 .. Len(text) /\ DOMAIN text = Lines
          /\ [i \in Lines |-> LineCost[text[i]]] \in [1 .. Len(text) -> Nat]
          /\ {ChunkMaxTokens, OverlapTokens, ParentMaxTokens} \subseteq Nat
<1>1. Len(text) \in Nat /\ DOMAIN text = 1 .. Len(text) BY DEF TextOK
<1>2. \A i \in 1 .. Len(text) : text[i] \in DOMAIN LineCost BY DEF TextOK
<1>3. \A i \in 1 .. Len(text) : LineCost[text[i]] \in Nat BY <1>2, ChunkingAssumption
<1> QED BY <1>1, <1>3, ChunkingAssumption DEF Lines

\* The tokens of lines are a number; lines that are among two groups have no more than both.
LEMMA ToksWithin ==
    ASSUME TextOK, NEW ls, NEW a, NEW b, \A i \in Lines : i \in ls => i \in a \/ i \in b
    PROVE /\ Toks(ls) \in Nat /\ Toks(a) \in Nat /\ Toks(b) \in Nat
          /\ Toks(ls) <= Toks(a) + Toks(b)
<1> DEFINE cost == [i \in Lines |-> LineCost[text[i]]]
           N == Len(text)
<1>1. N \in Nat BY TextLines
<1>2. cost \in [1 .. N -> Nat] BY TextLines
<1>3. \A i \in 1 .. N : i \in ls => i \in a \/ i \in b BY TextLines
<1>4. Toks(ls) = SumOver(cost, ls) /\ Toks(a) = SumOver(cost, a) /\ Toks(b) = SumOver(cost, b)
    BY DEF Toks
<1> HIDE DEF cost, N
<1> QED BY <1>1, <1>2, <1>3, <1>4, SumsWithin

\* Fewer lines have no more tokens, and no line has none.
LEMMA ToksFewer ==
    ASSUME TextOK, NEW ls, NEW a, ls \cap Lines \subseteq a
    PROVE /\ Toks(ls) \in Nat /\ Toks(a) \in Nat /\ Toks(ls) <= Toks(a) /\ Toks({}) = 0
<1> DEFINE cost == [i \in Lines |-> LineCost[text[i]]]
           N == Len(text)
<1>1. N \in Nat BY TextLines
<1>2. cost \in [1 .. N -> Nat] BY TextLines
<1>3. Toks({}) = SumOver(cost, {}) BY DEF Toks
<1>4. SumOver(cost, {}) = 0
  <2> HIDE DEF cost, N
  <2> QED BY <1>1, <1>2, SumAdds
<1>5. \A i \in Lines : i \in ls => i \in a \/ i \in {} OBVIOUS
<1>6. Toks(ls) \in Nat /\ Toks(a) \in Nat /\ Toks(ls) <= Toks(a) + Toks({})
    BY <1>5, ToksWithin
<1> QED BY <1>3, <1>4, <1>6

\* A run of lines ends at the first line that is not one of them.
LEMMA RunEnds ==
    ASSUME TextOK, NEW i \in 1 .. Len(text) + 1, NEW ls
    PROVE /\ RunEnd(i, ls) \in i .. Len(text) + 1
          /\ RunEnd(i, ls) \notin ls \cap Lines
          /\ \A j \in i .. RunEnd(i, ls) - 1 : j \in ls \cap Lines
<1> DEFINE S == (i .. Len(text) + 1) \ (ls \cap Lines)
<1>1. Len(text) \in Nat /\ Lines = 1 .. Len(text) BY TextLines
<1>2. Len(text) + 1 \in S BY <1>1
<1>3. S \in SUBSET (Nat \ {0}) BY <1>1
<1>4. PICK m \in S : \A k \in S : m <= k
  <2> HIDE DEF S
  <2> QED BY <1>2, <1>3, FirstOfInterval
<1>5. RunEnd(i, ls) = Min(S) BY DEF RunEnd
<1>6. Min(S) \in S /\ \A k \in S : Min(S) <= k
  <2> HIDE DEF S
  <2> QED BY <1>4 DEF Min
<1> DEFINE e == RunEnd(i, ls)
<1>7. e \in i .. Len(text) + 1 /\ e \notin ls \cap Lines BY <1>5, <1>6
<1>8. ASSUME NEW j \in i .. e - 1 PROVE j \in ls \cap Lines
  <2>1. ~ (e <= j) BY <1>1, <1>7, <1>8
  <2>2. j \notin S BY <1>5, <1>6, <2>1
  <2>3. j \in i .. Len(text) + 1 BY <1>1, <1>7, <1>8
  <2> QED BY <2>2, <2>3
<1> QED BY <1>7, <1>8

\* Blocks of lines: runs of ls without a blank line, which hold all of ls that is not blank.
BlocksOf(bs, ls) ==
    /\ bs \in Seq(SUBSET ls)
    /\ \A b \in Range(bs) : b # {} /\ (\E i, e \in Lines : b = i .. e) /\ \A j \in b : ~Blank(j)
    /\ \A j \in ls : ~Blank(j) => \E b \in Range(bs) : j \in b

\* The blocks between blank lines.
LEMMA BlankBlocksAre ==
    ASSUME TextOK, NEW ls, ls \subseteq Lines
    PROVE BlocksOf(BlankBlocks(ls), ls)
<1> DEFINE starts == {i \in ls : ~Blank(i) /\ (i - 1 \notin ls \/ Blank(i - 1))}
           full == {j \in ls : ~Blank(j)}
           N == Cardinality(starts)
           at == Ascending(starts)
           bs == BlankBlocks(ls)
           block(i) == i .. RunEnd(i, full) - 1
<1>1. Len(text) \in Nat /\ Lines = 1 .. Len(text) BY TextLines
<1>2. IsFiniteSet(starts) /\ starts \in SUBSET Int
  <2>1. IsFiniteSet(Lines) BY <1>1, FS_Interval
  <2>2. starts \subseteq Lines OBVIOUS
  <2>3. IsFiniteSet(starts)
    <3> HIDE DEF starts
    <3> QED BY <2>1, <2>2, FS_Subset
  <2> QED BY <1>1, <2>2, <2>3
<1>3. /\ N \in Nat /\ at \in [1 .. N -> starts]
      /\ \A c \in starts : \E n \in 1 .. N : at[n] = c
  <2> HIDE DEF starts
  <2> QED BY <1>2, AscendingLists
<1>4. bs = [n \in 1 .. N |-> block(at[n])] BY DEF BlankBlocks
<1>5. ASSUME NEW i \in starts
      PROVE /\ block(i) \in SUBSET full /\ i \in block(i) /\ RunEnd(i, full) - 1 \in Lines
            /\ RunEnd(i, full) \notin full
  <2>1. i \in 1 .. Len(text) + 1 /\ i \in full BY <1>1
  <2>2. full \subseteq Lines OBVIOUS
  <2> HIDE DEF full
  <2>3. /\ RunEnd(i, full) \in i .. Len(text) + 1
        /\ RunEnd(i, full) \notin full \cap Lines
        /\ \A j \in i .. RunEnd(i, full) - 1 : j \in full \cap Lines
      BY <2>1, RunEnds
  <2>4. RunEnd(i, full) # i BY <2>1, <2>2, <2>3
  <2> QED BY <1>1, <2>1, <2>2, <2>3, <2>4
<1> HIDE DEF at, N
<1>6. \A n \in 1 .. N : at[n] \in starts /\ bs[n] = block(at[n]) BY <1>3, <1>4
<1>7. bs \in Seq(SUBSET ls)
  <2>1. \A n \in 1 .. N : block(at[n]) \in SUBSET ls
    <3>1. full \subseteq ls OBVIOUS
    <3> HIDE DEF starts, full
    <3> QED BY <1>5, <1>6, <3>1
  <2> HIDE DEF block, bs
  <2>2. bs \in [1 .. N -> SUBSET ls] BY <1>4, <2>1
  <2> QED BY <1>3, <2>2
<1>8. DOMAIN bs = 1 .. N BY <1>4
<1>9. ASSUME NEW b \in Range(bs)
      PROVE b # {} /\ (\E i, e \in Lines : b = i .. e) /\ \A j \in b : ~Blank(j)
  <2>1. PICK n \in 1 .. N : b = block(at[n]) BY <1>6, <1>8 DEF Range
  <2>2. at[n] \in starts BY <1>6
  <2>3. at[n] \in Lines /\ RunEnd(at[n], full) - 1 \in Lines /\ b \subseteq full /\ b # {}
    <3>1. starts \subseteq Lines OBVIOUS
    <3> HIDE DEF starts, full
    <3> QED BY <1>5, <2>1, <2>2, <3>1
  <2>4. \E i, e \in Lines : b = i .. e
    <3> HIDE DEF full
    <3> QED BY <2>1, <2>3
  <2> QED BY <2>3, <2>4
<1>10. ASSUME NEW j \in ls, ~Blank(j) PROVE \E b \in Range(bs) : j \in b
  <2> DEFINE K == {k \in 1 .. j : \A m \in k .. j : m \in full}
  <2>1. j \in full /\ j \in Lines /\ j \in Nat \ {0} BY <1>1, <1>10
  <2>2. K \in SUBSET (Nat \ {0}) /\ j \in K
    <3> HIDE DEF full
    <3> QED BY <2>1
  <2>3. PICK i \in K : \A k \in K : i <= k
    <3> HIDE DEF K
    <3> QED BY <2>2, FirstOfInterval
  <2>4. i \in 1 .. j /\ \A m \in i .. j : m \in full BY <2>3
  <2>5. i \in full
    <3> HIDE DEF full
    <3> QED BY <2>1, <2>4
  <2>6. i - 1 \notin full
    <3> SUFFICES ASSUME i - 1 \in full PROVE FALSE
        OBVIOUS
    <3>1. full \subseteq 1 .. Len(text) BY <1>1
    <3> HIDE DEF full
    <3>2. i - 1 \in 1 .. j BY <1>1, <2>1, <2>4, <3>1
    <3>3. \A m \in i - 1 .. j : m = i - 1 \/ m \in i .. j BY <2>1, <2>4
    <3>4. i - 1 \in K BY <2>4, <3>2, <3>3
    <3>5. i <= i - 1
      <4> HIDE DEF K
      <4> QED BY <2>3, <3>4
    <3> QED BY <2>4, <3>5
  <2>7. i \in starts BY <2>5, <2>6
  <2>8. PICK n \in 1 .. N : at[n] = i
    <3> HIDE DEF starts
    <3> QED BY <1>3, <2>7
  <2>9. j \in block(i)
    <3>1. RunEnd(i, full) \notin full /\ i \in block(i) BY <1>5, <2>7
    <3>2. RunEnd(i, full) \in Int
      <4>1. RunEnd(i, full) - 1 \in Lines /\ i \in 1 .. Len(text) + 1 BY <1>1, <1>5, <2>7
      <4> HIDE DEF full
      <4>2. RunEnd(i, full) \in i .. Len(text) + 1 BY <4>1, RunEnds
      <4> QED BY <1>1, <4>1, <4>2
    <3> HIDE DEF full
    <3>3. ~ (RunEnd(i, full) \in i .. j) BY <2>4, <3>1
    <3> QED BY <2>1, <2>4, <3>1, <3>2, <3>3
  <2>10. bs[n] = block(i) BY <1>6, <2>8
  <2> HIDE DEF block, bs
  <2> QED BY <1>8, <2>9, <2>10 DEF Range
<1> QED BY <1>7, <1>9, <1>10 DEF BlocksOf

\* The intervals from each cut to the next: nothing but its first is a cut.
IntervalsOf(bs, cuts, last) ==
    /\ bs \in Seq(SUBSET (1 .. last))
    /\ \A b \in Range(bs) : \E i \in cuts : \E e \in i .. last :
         b = i .. e /\ \A c \in cuts : c <= i \/ c > e
    /\ \A j \in 1 .. last : (\E c \in cuts : c <= j) => \E b \in Range(bs) : j \in b

\* What Intervals makes of cuts is such intervals.
LEMMA IntervalsAre ==
    ASSUME NEW last \in Nat, NEW cuts \in SUBSET (1 .. last)
    PROVE IntervalsOf(Intervals(cuts, last), cuts, last)
<1> DEFINE s == Ascending(cuts)
           N == Cardinality(cuts)
           end(n) == IF n < N THEN s[n + 1] - 1 ELSE last
           bs == Intervals(cuts, last)
<1>1. /\ N \in Nat /\ s \in [1 .. N -> cuts]
      /\ \A c \in cuts : \E n \in 1 .. N : s[n] = c
      /\ \A i, j \in 1 .. N : i < j => s[i] < s[j]
  <2>1. IsFiniteSet(1 .. last) BY FS_Interval
  <2>2. IsFiniteSet(cuts) BY <2>1, FS_Subset
  <2>3. cuts \in SUBSET Int OBVIOUS
  <2> QED BY <2>2, <2>3, AscendingLists
<1>2. bs = [n \in 1 .. N |-> s[n] .. end(n)]
  <2>1. DOMAIN s = 1 .. N /\ Len(s) = N BY <1>1
  <2> HIDE DEF s, N
  <2> QED BY <2>1 DEF Intervals, s
<1> HIDE DEF s, N
<1>a. \A n \in 1 .. N : s[n] \in cuts /\ s[n] \in 1 .. last /\ s[n] \in Int
  <2>1. \A n \in 1 .. N : s[n] \in cuts BY <1>1
  <2>2. \A c \in cuts : c \in 1 .. last /\ c \in Int OBVIOUS
  <2> QED BY <2>1, <2>2
<1>b. \A i, j \in 1 .. N : i < j => s[i] < s[j] BY <1>1
<1>c. \A c \in cuts : c \in Int /\ \E n \in 1 .. N : s[n] = c BY <1>1
<1>3. ASSUME NEW n \in 1 .. N
      PROVE /\ s[n] \in cuts /\ end(n) \in Int /\ end(n) \in s[n] .. last
            /\ \A c \in cuts : c <= s[n] \/ c > end(n)
  <2>1. s[n] \in cuts /\ s[n] \in 1 .. last BY <1>a
  <2>2. CASE n < N
    <3>1. n + 1 \in 1 .. N BY <1>1, <2>2
    <3>2. s[n + 1] \in 1 .. last /\ s[n] < s[n + 1] /\ s[n + 1] \in Int BY <1>a, <1>b, <3>1
    <3>3. end(n) = s[n + 1] - 1 BY <2>2
    <3> HIDE DEF end
    <3>4. end(n) \in Int /\ end(n) \in s[n] .. last BY <2>1, <3>2, <3>3
    <3>5. ASSUME NEW c \in cuts PROVE c <= s[n] \/ c > end(n)
      <4>1. PICK k \in 1 .. N : s[k] = c BY <1>c
      <4>2. c \in Int BY <1>c
      <4>3. k < n \/ k = n \/ k = n + 1 \/ n + 1 < k BY <1>1
      <4>4. CASE k < n
        <5>1. s[k] < s[n] BY <1>b, <4>4
        <5> QED BY <2>1, <4>1, <4>2, <5>1
      <4>5. CASE k = n BY <4>1, <4>2, <4>5
      <4>6. CASE k = n + 1 BY <3>2, <3>3, <4>1, <4>6
      <4>7. CASE n + 1 < k
        <5>1. s[n + 1] < s[k] BY <1>b, <3>1, <4>7
        <5> QED BY <3>2, <3>3, <4>1, <4>2, <5>1
      <4> QED BY <4>3, <4>4, <4>5, <4>6, <4>7
    <3> QED BY <2>1, <3>4, <3>5
  <2>3. CASE n = N
    <3>1. end(n) = last BY <2>3
    <3> HIDE DEF end
    <3>2. ASSUME NEW c \in cuts PROVE c <= s[n]
      <4>1. PICK k \in 1 .. N : s[k] = c BY <1>c
      <4>2. c \in Int BY <1>c
      <4>3. k < n \/ k = n BY <1>1, <2>3
      <4>4. CASE k < n
        <5>1. s[k] < s[n] BY <1>b, <4>4
        <5> QED BY <2>1, <4>1, <4>2, <5>1
      <4>5. CASE k = n BY <4>1, <4>2, <4>5
      <4> QED BY <4>3, <4>4, <4>5
    <3>3. end(n) \in Int /\ end(n) \in s[n] .. last BY <2>1, <3>1
    <3> QED BY <2>1, <3>2, <3>3
  <2>4. n < N \/ n = N BY <1>1
  <2> QED BY <2>2, <2>3, <2>4
<1>4. DOMAIN bs = 1 .. N /\ \A n \in 1 .. N : bs[n] = s[n] .. end(n) BY <1>2
<1> HIDE DEF end
<1>5. \A n \in 1 .. N : s[n] .. end(n) \in SUBSET (1 .. last)
  <2> SUFFICES ASSUME NEW n \in 1 .. N PROVE s[n] .. end(n) \in SUBSET (1 .. last)
      OBVIOUS
  <2>1. s[n] \in 1 .. last /\ end(n) \in s[n] .. last BY <1>3
  <2> QED BY <2>1
<1>6. bs \in Seq(SUBSET (1 .. last))
  <2>1. bs \in [1 .. N -> SUBSET (1 .. last)] BY <1>2, <1>5
  <2> HIDE DEF bs
  <2> QED BY <1>1, <2>1
<1>7. ASSUME NEW b \in Range(bs)
      PROVE \E i \in cuts : \E e \in i .. last : b = i .. e /\ \A c \in cuts : c <= i \/ c > e
  <2>1. PICK n \in 1 .. N : b = s[n] .. end(n)
    <3> HIDE DEF bs
    <3> QED BY <1>4 DEF Range
  <2> QED BY <1>3, <2>1
<1>8. ASSUME NEW j \in 1 .. last, NEW c \in cuts, c <= j PROVE \E b \in Range(bs) : j \in b
  <2> DEFINE K == {n \in 1 .. N : s[n] <= j}
  <2>1. K \subseteq 1 .. N /\ K # {} BY <1>1, <1>8
  <2>2. PICK m \in K : \A k \in K : k <= m
    <3> HIDE DEF K
    <3> QED BY <1>1, <2>1, LastOfInterval
  <2>3. m \in 1 .. N /\ s[m] <= j BY <2>1
  <2>4. j <= end(m)
    <3>1. CASE m < N
      <4>1. m + 1 \in 1 .. N /\ m + 1 \notin K BY <1>1, <2>2, <2>3, <3>1
      <4>2. s[m + 1] \in Int BY <1>a, <4>1
      <4>3. ~ (s[m + 1] <= j) BY <4>1
      <4>4. end(m) = s[m + 1] - 1 BY <3>1 DEF end
      <4> QED BY <4>2, <4>3, <4>4
    <3>2. CASE m = N BY <3>2 DEF end
    <3>3. m < N \/ m = N BY <1>1, <2>3
    <3> QED BY <3>1, <3>2, <3>3
  <2>5. s[m] \in Int /\ end(m) \in Int BY <1>3, <1>a, <2>3
  <2>6. j \in s[m] .. end(m) BY <2>3, <2>4, <2>5
  <2>7. bs[m] \in Range(bs)
    <3> HIDE DEF bs
    <3> QED BY <1>4, <2>3 DEF Range
  <2> QED BY <1>4, <2>3, <2>6, <2>7
<1> HIDE DEF bs
<1>9. IntervalsOf(bs, cuts, last) BY <1>6, <1>7, <1>8 DEF IntervalsOf
<1> QED BY <1>9 DEF bs

\* A piece of blocks on top of a base: within the budget, or one block.
PieceOf(p, base, bs) ==
    /\ base \subseteq p /\ p \subseteq base \cup UNION Range(bs)
    /\ p = base \/ Toks(p) <= ChunkMaxTokens \/ \E b \in Range(bs) : p = base \cup b

\* The pieces hold every block, and none is empty.
PiecesOf(g, base, bs) ==
    /\ g \in Seq(SUBSET Lines)
    /\ \A p \in Range(g) : p # {} /\ PieceOf(p, base, bs)
    /\ \A b \in Range(bs) : \E p \in Range(g) : b \subseteq p
    /\ base # {} => Range(g) # {}

\* The state of the greedy loop after n blocks.
GreedyAt(st, base, bs, n) ==
    /\ st \in [out : Seq(SUBSET Lines), now : SUBSET Lines]
    /\ PieceOf(st.now, base, bs)
    /\ \A p \in Range(st.out) : p # {} /\ PieceOf(p, base, bs)
    /\ \A k \in 1 .. n : bs[k] \subseteq st.now \/ \E p \in Range(st.out) : bs[k] \subseteq p

\* A block more.
LEMMA AddBlockKeeps ==
    ASSUME TextOK, NEW base \in SUBSET Lines, NEW bs \in Seq(SUBSET Lines),
           NEW n \in DOMAIN bs, NEW st, GreedyAt(st, base, bs, n - 1)
    PROVE GreedyAt(AddBlock(base, st, bs[n]), base, bs, n)
<1> DEFINE b == bs[n]
           new == AddBlock(base, st, b)
           T == SUBSET Lines
<1>1. /\ st.out \in Seq(T) /\ st.now \in T /\ PieceOf(st.now, base, bs)
      /\ \A p \in Range(st.out) : p # {} /\ PieceOf(p, base, bs)
      /\ \A k \in 1 .. n - 1 : bs[k] \subseteq st.now \/ \E p \in Range(st.out) : bs[k] \subseteq p
    BY DEF GreedyAt
<1>2. b \in T /\ n \in Nat \ {0} OBVIOUS
<1>3. b \in Range(bs) BY DEF Range
<1>4. \A k \in 1 .. n : k = n \/ k \in 1 .. n - 1 BY <1>2
<1> HIDE DEF b
<1>5. CASE st.now # base /\ Toks(st.now) + Toks(b) > ChunkMaxTokens
  <2>1. new = [out |-> Append(st.out, st.now), now |-> base \cup b] BY <1>5 DEF AddBlock
  <2>2. new.out \in Seq(T) /\ Range(new.out) = Range(st.out) \cup {st.now}
    <3>1. Append(st.out, st.now) \in Seq(T)
          /\ Range(Append(st.out, st.now)) = Range(st.out) \cup {st.now}
      <4> HIDE DEF T
      <4> QED BY <1>1, RangeAppended
    <3> QED BY <2>1, <3>1
  <2>3. new.now = base \cup b BY <2>1
  <2>4. new \in [out : Seq(T), now : T] BY <1>2, <2>1, <2>2
  <2> HIDE DEF new
  <2>5. PieceOf(new.now, base, bs) BY <1>3, <2>3 DEF PieceOf
  <2>6. st.now # {} BY <1>1, <1>5 DEF PieceOf
  <2>7. \A p \in Range(new.out) : p # {} /\ PieceOf(p, base, bs) BY <1>1, <2>2, <2>6
  <2>8. ASSUME NEW k \in 1 .. n
        PROVE bs[k] \subseteq new.now \/ \E p \in Range(new.out) : bs[k] \subseteq p
    <3>1. CASE k = n BY <2>3, <3>1 DEF b
    <3>2. CASE k \in 1 .. n - 1 BY <1>1, <2>2, <3>2
    <3> QED BY <1>4, <3>1, <3>2
  <2> QED BY <2>4, <2>5, <2>7, <2>8 DEF GreedyAt, new, b
<1>6. CASE ~ (st.now # base /\ Toks(st.now) + Toks(b) > ChunkMaxTokens)
  <2>1. new = [out |-> st.out, now |-> st.now \cup b] BY <1>1, <1>6 DEF AddBlock, GreedyAt
  <2>2. new.out = st.out /\ new.now = st.now \cup b BY <2>1
  <2>3. new \in [out : Seq(T), now : T] BY <1>1, <1>2, <2>1
  <2> HIDE DEF new
  <2>4. PieceOf(new.now, base, bs)
    <3>1. base \subseteq new.now /\ new.now \subseteq base \cup UNION Range(bs)
        BY <1>1, <1>3, <2>2 DEF PieceOf
    <3>2. CASE st.now = base BY <1>3, <2>2, <3>1, <3>2 DEF PieceOf
    <3>3. CASE st.now # base
      <4>1. ~ (Toks(st.now) + Toks(b) > ChunkMaxTokens) BY <1>6, <3>3
      <4>2. /\ Toks(new.now) \in Nat /\ Toks(st.now) \in Nat /\ Toks(b) \in Nat
            /\ Toks(new.now) <= Toks(st.now) + Toks(b)
        <5>1. \A i \in Lines : i \in new.now => i \in st.now \/ i \in b BY <2>2
        <5> QED BY <5>1, ToksWithin
      <4>3. ChunkMaxTokens \in Nat BY TextLines
      <4>4. Toks(new.now) <= ChunkMaxTokens BY <4>1, <4>2, <4>3
      <4> QED BY <3>1, <4>4 DEF PieceOf
    <3> QED BY <3>2, <3>3
  <2>5. ASSUME NEW k \in 1 .. n
        PROVE bs[k] \subseteq new.now \/ \E p \in Range(new.out) : bs[k] \subseteq p
    <3>1. CASE k = n BY <2>2, <3>1 DEF b
    <3>2. CASE k \in 1 .. n - 1 BY <1>1, <2>2, <3>2
    <3> QED BY <1>4, <3>1, <3>2
  <2> QED BY <1>1, <2>2, <2>3, <2>4, <2>5 DEF GreedyAt, new, b
<1> QED BY <1>5, <1>6

\* What the greedy loop makes of blocks.
LEMMA GreedyPieces ==
    ASSUME TextOK, NEW base \in SUBSET Lines, NEW bs \in Seq(SUBSET Lines),
           \A b \in Range(bs) : b # {}
    PROVE PiecesOf(Greedy(base, bs), base, bs)
<1> DEFINE N == Len(bs)
           T == SUBSET Lines
           X == [out : Seq(T), now : T]
           start == [out |-> <<>>, now |-> base]
           step == [p \in X \X (1 .. N) |-> AddBlock(base, p[1], bs[p[2]])]
           read[n \in 0 .. N] == IF n = 0 THEN start ELSE AddBlock(base, read[n - 1], bs[n])
           g == IF read[N].now = {} THEN read[N].out ELSE Append(read[N].out, read[N].now)
<1>1. Greedy(base, bs) = g BY DEF Greedy
<1>2. N \in Nat /\ DOMAIN bs = 1 .. N /\ \A n \in 1 .. N : bs[n] \in T OBVIOUS
<1>3. start \in X OBVIOUS
<1> HIDE DEF start, N
<1>4. ASSUME NEW x \in X, NEW n \in 1 .. N PROVE AddBlock(base, x, bs[n]) \in X
  <2>1. bs[n] \in T /\ x.now \in T /\ x.out \in Seq(T) BY <1>2
  <2>2. CASE x.now # base /\ Toks(x.now) + Toks(bs[n]) > ChunkMaxTokens
    <3>1. AddBlock(base, x, bs[n]) = [out |-> Append(x.out, x.now), now |-> base \cup bs[n]]
        BY <2>2 DEF AddBlock
    <3>2. Append(x.out, x.now) \in Seq(T) BY <2>1
    <3> QED BY <2>1, <3>1, <3>2
  <2>3. CASE ~ (x.now # base /\ Toks(x.now) + Toks(bs[n]) > ChunkMaxTokens)
    <3>1. AddBlock(base, x, bs[n]) = [out |-> x.out, now |-> x.now \cup bs[n]]
        BY <2>3 DEF AddBlock
    <3> QED BY <2>1, <3>1
  <2> QED BY <2>2, <2>3
<1>5. step \in [X \X (1 .. N) -> X] BY <1>4
<1>6. PICK f \in [0 .. N -> X] : /\ f[0] = start
                                 /\ \A n \in 1 .. N : f[n] = step[<<f[n - 1], n>>]
  <2> HIDE DEF step, X
  <2>1. N \in Nat BY <1>2
  <2>2. \E f : Run(f, N, X, start, step) BY <2>1, <1>3, <1>5, LoopRuns
  <2> QED BY <2>2 DEF Run
<1>7. \A n \in 1 .. N : f[n] = AddBlock(base, f[n - 1], bs[n])
  <2> SUFFICES ASSUME NEW n \in 1 .. N PROVE f[n] = AddBlock(base, f[n - 1], bs[n])
      OBVIOUS
  <2>1. n - 1 \in 0 .. N /\ f[n - 1] \in X BY <1>2
  <2> HIDE DEF X
  <2> QED BY <1>6, <2>1
<1>8. f = [n \in 0 .. N |-> IF n = 0 THEN start ELSE AddBlock(base, f[n - 1], bs[n])]
  <2> HIDE DEF X
  <2> QED BY <1>2, <1>6, <1>7
<1>9. read = [n \in 0 .. N |-> IF n = 0 THEN start ELSE AddBlock(base, read[n - 1], bs[n])]
    BY <1>8
<1> HIDE DEF read, X, step
<1>10. read[0] = start /\ \A n \in 1 .. N : read[n] = AddBlock(base, read[n - 1], bs[n])
    BY <1>2, <1>9
<1> DEFINE S == {n \in 0 .. N : GreedyAt(read[n], base, bs, n)}
<1>11. 0 \in S
  <2>1. start.out = <<>> /\ start.now = base /\ Range(start.out) = {} BY DEF start, Range
  <2>2. PieceOf(base, base, bs) BY DEF PieceOf
  <2>3. start \in [out : Seq(SUBSET Lines), now : SUBSET Lines] BY <1>3 DEF X
  <2>4. GreedyAt(start, base, bs, 0) BY <2>1, <2>2, <2>3 DEF GreedyAt
  <2> QED BY <1>2, <1>10, <2>4
<1>12. ASSUME NEW n \in 1 .. N, n - 1 \in S PROVE n \in S
  <2>1. GreedyAt(read[n - 1], base, bs, n - 1) /\ n \in DOMAIN bs BY <1>2, <1>12
  <2>2. GreedyAt(AddBlock(base, read[n - 1], bs[n]), base, bs, n)
    <3> HIDE DEF S
    <3> QED BY <2>1, AddBlockKeeps
  <2> QED BY <1>10, <2>2
<1>13. GreedyAt(read[N], base, bs, N)
  <2>1. N \in S
    <3> HIDE DEF S
    <3>1. N \in Nat /\ N \in 0 .. N BY <1>2
    <3> QED BY <3>1, <1>11, <1>12, Upwards
  <2> QED BY <2>1
<1> HIDE DEF S
<1> DEFINE end == read[N]
<1>14. /\ end.out \in Seq(T) /\ end.now \in T /\ PieceOf(end.now, base, bs)
       /\ \A p \in Range(end.out) : p # {} /\ PieceOf(p, base, bs)
       /\ \A k \in 1 .. N : bs[k] \subseteq end.now \/ \E p \in Range(end.out) : bs[k] \subseteq p
    BY <1>13 DEF GreedyAt
<1> HIDE DEF end
<1>15. g \in Seq(T) /\ Range(g) = Range(end.out) \cup ({end.now} \ {{}})
  <2>1. CASE end.now = {} BY <1>14, <2>1 DEF end
  <2>2. CASE end.now # {}
    <3>1. g = Append(end.out, end.now) BY <2>2 DEF end
    <3> HIDE DEF T, g
    <3>2. g \in Seq(T) /\ Range(g) = Range(end.out) \cup {end.now} BY <1>14, <3>1, RangeAppended
    <3> QED BY <2>2, <3>2
  <2> QED BY <2>1, <2>2
<1> HIDE DEF g
<1>16. ASSUME NEW b \in Range(bs) PROVE \E p \in Range(g) : b \subseteq p
  <2>1. PICK k \in 1 .. N : b = bs[k] BY <1>2 DEF Range
  <2>2. b # {} OBVIOUS
  <2> QED BY <1>14, <1>15, <2>1, <2>2
<1>17. base # {} => Range(g) # {} BY <1>14, <1>15 DEF PieceOf
<1>18. \A p \in Range(g) : p # {} /\ PieceOf(p, base, bs) BY <1>14, <1>15
<1> QED BY <1>1, <1>15, <1>16, <1>17, <1>18 DEF PiecesOf

-----------------------------------------------------------------------------
(***************************************************************************)
(* Units of documents                                                      *)
(***************************************************************************)

\* A unit of a document: its text is within its lines, a heading has its depth, a table
\* begins with its header and separator, and only fenced code may be without text.
UnitSet == [kind : {"heading", "text", "table", "code", "symbol"}, lines : SUBSET Lines,
            first : Lines, last : Nat]
UnitOK(u) ==
    /\ u \in UnitSet /\ u.kind # "symbol"
    /\ \A i \in u.lines : u.first <= i /\ i <= u.last
    /\ u.kind = "heading" => HeadingDepth(text[u.first]) > 0
    /\ u.kind = "table" => {u.first, u.first + 1} \subseteq u.lines
    /\ u.kind = "text" => u.lines # {}

\* A block of a Markdown file holds all of its lines that are not fences.
BlockOK(b, i) ==
    /\ UnitOK(b) /\ b.first = i /\ b.last >= i
    /\ \A j \in Lines : i <= j /\ j <= b.last => j \in b.lines \/ text[j] = "fence"
    /\ b.kind = "heading" => b.lines = {i}

\* The block that begins at a line is such a unit.
LEMMA MarkdownBlocks ==
    ASSUME TextOK, NEW i \in Lines, ~Blank(i)
    PROVE BlockOK(MarkdownBlock(i), i)
<1> DEFINE k == text[i]
           ended(j) == Blank(j) \/ HeadingDepth(text[j]) > 0 \/ text[j] = "fence"
           b == MarkdownBlock(i)
           N == Len(text)
<1>1. N \in Nat /\ Lines = 1 .. N /\ i \in 1 .. N BY TextLines
<1>2. i \in 1 .. N + 1 /\ i + 1 \in 1 .. N + 1 BY <1>1
<1>3. CASE HeadingDepth(k) > 0
  <2>1. b = Unit("heading", {i}, i, i) BY <1>3 DEF MarkdownBlock, HeadingDepth
  <2> HIDE DEF N, b
  <2>2. /\ b.kind = "heading" /\ b.lines = {i} /\ b.first = i /\ b.last = i /\ b \in UnitSet
      BY <1>1, <2>1 DEF Unit, UnitSet
  <2>3. UnitOK(b) BY <1>1, <1>3, <2>2 DEF UnitOK
  <2> QED BY <1>1, <2>2, <2>3 DEF BlockOK, b
<1>4. CASE k = "fence"
  <2> DEFINE e == RunEnd(i + 1, {j \in Lines : text[j] # "fence"})
  <2>1. b = Unit("code", i + 1 .. e - 1, i, e) BY <1>4 DEF MarkdownBlock, HeadingDepth
  <2>2. /\ e \in i + 1 .. N + 1
        /\ e \notin {j \in Lines : text[j] # "fence"} \cap Lines
        /\ \A j \in i + 1 .. e - 1 : j \in {l \in Lines : text[l] # "fence"} \cap Lines
      BY <1>2, RunEnds
  <2> HIDE DEF e, N, b
  <2>3. e \in Nat /\ e > i /\ i + 1 .. e - 1 \subseteq Lines BY <1>1, <2>2
  <2>4. /\ b.kind = "code" /\ b.lines = i + 1 .. e - 1 /\ b.first = i /\ b.last = e
        /\ b \in UnitSet
      BY <1>1, <2>1, <2>3 DEF Unit, UnitSet
  <2>5. UnitOK(b) BY <1>1, <2>3, <2>4 DEF UnitOK
  <2>6. ASSUME NEW j \in Lines, i <= j, j <= b.last PROVE j \in b.lines \/ text[j] = "fence"
    <3>1. CASE j = i BY <1>4, <3>1
    <3>2. CASE j = e BY <2>2, <3>2
    <3>3. CASE j # i /\ j # e BY <1>1, <2>3, <2>4, <2>6, <3>3
    <3> QED BY <3>1, <3>2, <3>3
  <2>7. b.kind # "heading" /\ b.first = i /\ b.last >= i BY <1>1, <2>3, <2>4
  <2>8. BlockOK(b, i) BY <2>5, <2>6, <2>7 DEF BlockOK
  <2> QED BY <2>8 DEF b
<1>5. CASE k = "row" /\ i < N /\ Separates(i + 1)
  <2> DEFINE ls == {j \in Lines : ~ended(j)}
             e == RunEnd(i + 1, ls)
  <2>1. b = Unit("table", i .. e - 1, i, e - 1) BY <1>5 DEF MarkdownBlock, HeadingDepth
  <2>2. i + 1 \in ls BY <1>1, <1>5 DEF Separates, Blank, HeadingDepth
  <2>3. ls \subseteq Lines OBVIOUS
  <2> HIDE DEF ls
  <2>4. /\ e \in i + 1 .. N + 1 /\ e \notin ls \cap Lines
        /\ \A j \in i + 1 .. e - 1 : j \in ls \cap Lines
      BY <1>2, RunEnds
  <2> HIDE DEF e, N, b
  <2>5. e \in Nat /\ e > i + 1 /\ i .. e - 1 \subseteq Lines BY <1>1, <2>2, <2>3, <2>4
  <2>6. /\ b.kind = "table" /\ b.lines = i .. e - 1 /\ b.first = i /\ b.last = e - 1
        /\ b \in UnitSet
      BY <1>1, <2>1, <2>5 DEF Unit, UnitSet
  <2>7. UnitOK(b) BY <1>1, <2>5, <2>6 DEF UnitOK
  <2> QED BY <1>1, <2>5, <2>6, <2>7 DEF BlockOK, b
<1>6. CASE k = "item"
  <2>1. b = Unit("text", {i}, i, i) BY <1>6 DEF MarkdownBlock, HeadingDepth
  <2> HIDE DEF N, b
  <2>2. /\ b.kind = "text" /\ b.lines = {i} /\ b.first = i /\ b.last = i /\ b \in UnitSet
      BY <1>1, <2>1 DEF Unit, UnitSet
  <2>3. UnitOK(b) BY <1>1, <2>2 DEF UnitOK
  <2> QED BY <1>1, <2>2, <2>3 DEF BlockOK, b
<1>7. CASE /\ ~ (HeadingDepth(k) > 0) /\ k # "fence" /\ k # "item"
           /\ ~ (k = "row" /\ i < N /\ Separates(i + 1))
  <2> DEFINE ls == {j \in Lines : ~ended(j) /\ text[j] # "item"}
             e == RunEnd(i, ls)
  <2>1. b = Unit("text", i .. e - 1, i, e - 1) BY <1>7 DEF MarkdownBlock
  <2>2. i \in ls BY <1>1, <1>7
  <2>3. ls \subseteq Lines OBVIOUS
  <2> HIDE DEF ls
  <2>4. /\ e \in i .. N + 1 /\ e \notin ls \cap Lines
        /\ \A j \in i .. e - 1 : j \in ls \cap Lines
      BY <1>2, RunEnds
  <2> HIDE DEF e, N, b
  <2>5. e \in Nat /\ e > i /\ i .. e - 1 \subseteq Lines BY <1>1, <2>2, <2>3, <2>4
  <2>6. /\ b.kind = "text" /\ b.lines = i .. e - 1 /\ b.first = i /\ b.last = e - 1
        /\ b \in UnitSet
      BY <1>1, <2>1, <2>5 DEF Unit, UnitSet
  <2>7. UnitOK(b) BY <1>1, <2>5, <2>6 DEF UnitOK
  <2> QED BY <1>1, <2>5, <2>6, <2>7 DEF BlockOK, b
<1> QED BY <1>3, <1>4, <1>5, <1>6, <1>7

\* The units read from the lines before at.
UnitsRead(st) ==
    /\ st \in [at : Nat \ {0}, out : Seq(UnitSet)]
    /\ \A n \in 1 .. Len(st.out) : UnitOK(st.out[n]) /\ st.out[n].last < st.at
    /\ \A m, n \in 1 .. Len(st.out) : m < n => st.out[m].last < st.out[n].first
    /\ \A i \in Lines : i < st.at => \/ text[i] \in {"blank", "fence", "h1", "h1b", "h2"}
                                     \/ \E n \in 1 .. Len(st.out) : /\ st.out[n].kind # "heading"
                                                                    /\ i \in st.out[n].lines

\* One round reads one line at least.
LEMMA NextBlockReads ==
    ASSUME TextOK, NEW st, UnitsRead(st)
    PROVE /\ UnitsRead(NextBlock(st))
          /\ NextBlock(st) \in [at : Nat \ {0}, out : Seq(UnitSet)]
          /\ st.at <= Len(text) => NextBlock(st).at > st.at
          /\ st.at > Len(text) => NextBlock(st) = st
<1> DEFINE new == NextBlock(st)
           N == Len(text)
<1>1. N \in Nat /\ Lines = 1 .. N BY TextLines
<1>2. /\ st.at \in Nat \ {0} /\ st.out \in Seq(UnitSet) /\ Len(st.out) \in Nat
      /\ \A n \in 1 .. Len(st.out) : UnitOK(st.out[n]) /\ st.out[n].last < st.at
      /\ \A m, n \in 1 .. Len(st.out) : m < n => st.out[m].last < st.out[n].first
      /\ \A i \in Lines : i < st.at =>
            \/ text[i] \in {"blank", "fence", "h1", "h1b", "h2"}
            \/ \E n \in 1 .. Len(st.out) : st.out[n].kind # "heading" /\ i \in st.out[n].lines
    BY DEF UnitsRead
<1>3. \A n \in 1 .. Len(st.out) : st.out[n] \in UnitSet /\ st.out[n].last \in Nat
  <2>1. \A n \in 1 .. Len(st.out) : st.out[n] \in UnitSet BY <1>2
  <2>2. \A u \in UnitSet : u.last \in Nat BY DEF UnitSet
  <2> QED BY <2>1, <2>2
<1>4. CASE st.at > N
  <2>1. new = st BY <1>4 DEF NextBlock
  <2> QED BY <1>1, <1>2, <1>4, <2>1 DEF UnitsRead
<1>5. CASE st.at <= N /\ Blank(st.at)
  <2>1. new = [at |-> st.at + 1, out |-> st.out] BY <1>1, <1>2, <1>5 DEF NextBlock, UnitsRead
  <2>2. new.at = st.at + 1 /\ new.out = st.out BY <2>1
  <2>3. new \in [at : Nat \ {0}, out : Seq(UnitSet)] BY <1>2, <2>1
  <2> HIDE DEF new
  <2>4. \A n \in 1 .. Len(new.out) : UnitOK(new.out[n]) /\ new.out[n].last < new.at
      BY <1>2, <1>3, <2>2
  <2>5. ASSUME NEW i \in Lines, i < new.at
        PROVE \/ text[i] \in {"blank", "fence", "h1", "h1b", "h2"}
              \/ \E n \in 1 .. Len(st.out) : st.out[n].kind # "heading" /\ i \in st.out[n].lines
    <3>1. CASE i = st.at BY <1>5, <3>1 DEF Blank
    <3>2. CASE i # st.at
      <4>1. i < st.at BY <1>1, <1>2, <2>2, <2>5, <3>2
      <4> QED BY <1>2, <4>1
    <3> QED BY <3>1, <3>2
  <2>6. UnitsRead(new) BY <1>2, <2>2, <2>3, <2>4, <2>5 DEF UnitsRead
  <2> QED BY <1>2, <1>5, <1>1, <2>2, <2>3, <2>6 DEF new
<1>6. CASE st.at <= N /\ ~Blank(st.at)
  <2> DEFINE b == MarkdownBlock(st.at)
             M == Len(st.out)
  <2>1. st.at \in Lines BY <1>1, <1>2, <1>6
  <2>2. BlockOK(b, st.at) BY <1>6, <2>1, MarkdownBlocks
  <2>3. new = [at |-> b.last + 1, out |-> Append(st.out, b)]
      BY <1>1, <1>2, <1>6 DEF NextBlock
  <2> HIDE DEF b
  <2>4. UnitOK(b) /\ b \in UnitSet /\ b.first = st.at /\ b.last \in Nat /\ b.last >= st.at
      BY <2>2 DEF BlockOK, UnitOK, UnitSet
  <2>5. /\ new.at = b.last + 1 /\ new.out \in Seq(UnitSet) /\ Len(new.out) = M + 1
        /\ new.out[M + 1] = b /\ \A n \in 1 .. M : new.out[n] = st.out[n]
    <3>1. new.out = Append(st.out, b) /\ new.at = b.last + 1 BY <2>3
    <3> HIDE DEF new
    <3> QED BY <1>2, <2>4, <3>1
  <2>6. new \in [at : Nat \ {0}, out : Seq(UnitSet)] BY <2>3, <2>4, <2>5
  <2> HIDE DEF new
  <2>7. M \in Nat /\ \A n \in 1 .. M + 1 : n = M + 1 \/ n \in 1 .. M BY <1>2
  <2> HIDE DEF M
  <2>8. ASSUME NEW n \in 1 .. M + 1 PROVE UnitOK(new.out[n]) /\ new.out[n].last < new.at
    <3>1. CASE n = M + 1 BY <2>4, <2>5, <3>1
    <3>2. CASE n \in 1 .. M
      <4>1. UnitOK(st.out[n]) /\ st.out[n].last < st.at /\ st.out[n].last \in Nat
          BY <1>2, <1>3, <3>2 DEF M
      <4>2. new.out[n] = st.out[n] BY <2>5, <3>2
      <4>3. /\ new.at = b.last + 1 /\ b.last >= st.at
            /\ st.at \in Nat /\ b.last \in Nat
          BY <1>2, <2>4, <2>5
      <4>4. st.out[n].last < new.at BY <4>1, <4>3
      <4> QED BY <4>1, <4>2, <4>4
    <3> QED BY <2>7, <3>1, <3>2
  <2>9. ASSUME NEW m \in 1 .. M + 1, NEW n \in 1 .. M + 1, m < n
        PROVE new.out[m].last < new.out[n].first
    <3>1. m \in 1 .. M BY <2>7, <2>9
    <3>2. CASE n = M + 1 BY <1>2, <2>4, <2>5, <3>1, <3>2 DEF M
    <3>3. CASE n \in 1 .. M BY <1>2, <2>5, <2>9, <3>1, <3>3 DEF M
    <3> QED BY <2>7, <3>2, <3>3
  <2>10. ASSUME NEW i \in Lines, i < new.at
         PROVE \/ text[i] \in {"blank", "fence", "h1", "h1b", "h2"}
               \/ \E n \in 1 .. M + 1 : new.out[n].kind # "heading" /\ i \in new.out[n].lines
    <3>1. CASE i < st.at
      <4>1. CASE text[i] \in {"blank", "fence", "h1", "h1b", "h2"} BY <4>1
      <4>2. CASE ~ (text[i] \in {"blank", "fence", "h1", "h1b", "h2"})
        <5>1. PICK n \in 1 .. M : st.out[n].kind # "heading" /\ i \in st.out[n].lines
            BY <1>2, <3>1, <4>2 DEF M
        <5>2. n \in 1 .. M + 1 BY <2>7
        <5> QED BY <2>5, <5>1, <5>2
      <4> QED BY <4>1, <4>2
    <3>2. CASE ~ (i < st.at)
      <4>1. i \in b.lines \/ text[i] = "fence"
        <5>1. st.at <= i /\ i <= b.last BY <1>1, <1>2, <2>4, <2>5, <2>10, <3>2
        <5> QED BY <2>2, <5>1 DEF BlockOK
      <4>2. CASE b.kind = "heading"
        <5>1. b.lines = {st.at} /\ HeadingDepth(text[st.at]) > 0
            BY <2>2, <2>4, <4>2 DEF BlockOK, UnitOK
        <5>2. text[st.at] \in {"h1", "h1b", "h2"} BY <5>1 DEF HeadingDepth
        <5> QED BY <4>1, <5>1, <5>2
      <4>3. CASE b.kind # "heading"
        <5>1. M + 1 \in 1 .. M + 1 BY <2>7
        <5> QED BY <2>5, <4>1, <4>3, <5>1
      <4> QED BY <4>2, <4>3
    <3> QED BY <3>1, <3>2
  <2>11. UnitsRead(new) BY <2>5, <2>6, <2>8, <2>9, <2>10 DEF UnitsRead
  <2> QED BY <1>1, <1>2, <1>6, <2>4, <2>5, <2>6, <2>11 DEF new
<1> QED BY <1>1, <1>2, <1>4, <1>5, <1>6

\* The units of a Markdown file are those read when its last line is.
LEMMA MarkdownUnitsRead ==
    ASSUME TextOK
    PROVE \E st : UnitsRead(st) /\ st.at > Len(text) /\ MarkdownUnits = st.out
<1> DEFINE N == Len(text)
           X == {x \in [at : Nat \ {0}, out : Seq(UnitSet)] : UnitsRead(x)}
           start == [at |-> 1, out |-> <<>>]
           step == [p \in X \X (1 .. N) |-> NextBlock(p[1])]
           read[n \in 0 .. N] == IF n = 0 THEN start ELSE NextBlock(read[n - 1])
<1>1. N \in Nat /\ Lines = 1 .. N BY TextLines
<1>2. MarkdownUnits = read[N].out BY DEF MarkdownUnits
<1>3. start \in X
  <2>1. start \in [at : Nat \ {0}, out : Seq(UnitSet)] /\ start.out = <<>> /\ start.at = 1
        /\ Len(start.out) = 0
      OBVIOUS
  <2> HIDE DEF start
  <2>2. UnitsRead(start) BY <1>1, <2>1 DEF UnitsRead
  <2> QED BY <2>1, <2>2
<1> HIDE DEF start, N
<1>4. ASSUME NEW x \in X PROVE NextBlock(x) \in X
  <2>1. UnitsRead(x) OBVIOUS
  <2>2. UnitsRead(NextBlock(x)) /\ NextBlock(x) \in [at : Nat \ {0}, out : Seq(UnitSet)]
    <3> HIDE DEF X
    <3> QED BY <2>1, NextBlockReads
  <2> QED BY <2>2
<1> HIDE DEF X
<1>5. step \in [X \X (1 .. N) -> X] BY <1>4
<1>6. PICK f \in [0 .. N -> X] : /\ f[0] = start
                                 /\ \A n \in 1 .. N : f[n] = step[<<f[n - 1], n>>]
  <2> HIDE DEF step
  <2>1. N \in Nat BY <1>1
  <2>2. \E f : Run(f, N, X, start, step) BY <2>1, <1>3, <1>5, LoopRuns
  <2> QED BY <2>2 DEF Run
<1>7. \A n \in 1 .. N : f[n] = NextBlock(f[n - 1])
  <2> SUFFICES ASSUME NEW n \in 1 .. N PROVE f[n] = NextBlock(f[n - 1])
      OBVIOUS
  <2>1. n - 1 \in 0 .. N /\ f[n - 1] \in X BY <1>1
  <2> QED BY <1>6, <2>1
<1>8. f = [n \in 0 .. N |-> IF n = 0 THEN start ELSE NextBlock(f[n - 1])]
    BY <1>1, <1>6, <1>7
<1>9. read = [n \in 0 .. N |-> IF n = 0 THEN start ELSE NextBlock(read[n - 1])]
    BY <1>8
<1> HIDE DEF read, step
<1>10. read[0] = start /\ \A n \in 1 .. N : read[n] = NextBlock(read[n - 1])
    BY <1>1, <1>9
<1>11. \A x \in X : UnitsRead(x) /\ x.at \in Nat BY DEF X
<1> DEFINE S == {n \in 0 .. N : read[n] \in X /\ (read[n].at > N \/ read[n].at > n)}
<1>12. 0 \in S
  <2>1. start.at = 1 BY DEF start
  <2> QED BY <1>1, <1>3, <1>10, <2>1
<1>13. ASSUME NEW n \in 1 .. N, n - 1 \in S PROVE n \in S
  <2>1. /\ read[n - 1] \in X /\ (read[n - 1].at > N \/ read[n - 1].at > n - 1)
        /\ UnitsRead(read[n - 1]) /\ read[n - 1].at \in Nat
      BY <1>11, <1>13
  <2>2. read[n] = NextBlock(read[n - 1]) /\ read[n] \in X BY <1>4, <1>10, <2>1
  <2>3. /\ read[n - 1].at <= N => NextBlock(read[n - 1]).at > read[n - 1].at
        /\ read[n - 1].at > N => NextBlock(read[n - 1]) = read[n - 1]
      BY <2>1, NextBlockReads DEF N
  <2>4. read[n].at \in Nat BY <1>11, <2>2
  <2>5. read[n].at > N \/ read[n].at > n BY <1>1, <2>1, <2>2, <2>3, <2>4
  <2> QED BY <2>2, <2>5
<1>14. N \in S
  <2> HIDE DEF S
  <2>1. N \in Nat /\ N \in 0 .. N BY <1>1
  <2> QED BY <2>1, <1>12, <1>13, Upwards
<1>15. UnitsRead(read[N]) /\ read[N].at > N BY <1>11, <1>14
<1> HIDE DEF S
<1> QED BY <1>2, <1>15 DEF N

\* The parsed units of a document.
DocUnits(us) ==
    /\ us \in Seq(UnitSet) /\ \A n \in 1 .. Len(us) : UnitOK(us[n])
    /\ type = "markdown" => \A m, n \in 1 .. Len(us) : m < n => us[m].last < us[n].first
    /\ type = "plain_text" => \A n \in 1 .. Len(us) : us[n].kind = "text"
    /\ \A i \in Lines : \/ text[i] \in {"blank", "fence", "h1", "h1b", "h2"}
                        \/ \E n \in 1 .. Len(us) : us[n].kind # "heading" /\ i \in us[n].lines

\* The units of a Markdown file.
LEMMA MarkdownDocument ==
    ASSUME TextOK, type = "markdown"
    PROVE DocUnits(MarkdownUnits)
<1>1. PICK st : UnitsRead(st) /\ st.at > Len(text) /\ MarkdownUnits = st.out
    BY MarkdownUnitsRead
<1>2. /\ st.at \in Nat /\ Len(text) \in Nat /\ Lines = 1 .. Len(text)
      /\ MarkdownUnits \in Seq(UnitSet)
    BY <1>1, TextLines DEF UnitsRead
<1>3. \A i \in Lines : i < st.at BY <1>1, <1>2
<1> QED BY <1>1, <1>2, <1>3 DEF UnitsRead, DocUnits

\* An interval that is not empty runs from its least to its greatest number.
LEMMA IntervalEnds ==
    ASSUME NEW i \in Int, NEW e \in Int, i <= e
    PROVE Min(i .. e) = i /\ Max(i .. e) = e
<1>1. Min(i .. e) = CHOOSE x \in i .. e : \A y \in i .. e : x <= y BY DEF Min
<1>2. Max(i .. e) = CHOOSE x \in i .. e : \A y \in i .. e : x >= y BY DEF Max
<1>3. i \in i .. e /\ \A y \in i .. e : i <= y OBVIOUS
<1>4. e \in i .. e /\ \A y \in i .. e : e >= y OBVIOUS
<1>5. \A x \in i .. e : (\A y \in i .. e : x <= y) => x = i BY <1>3
<1>6. \A x \in i .. e : (\A y \in i .. e : x >= y) => x = e BY <1>4
<1> QED BY <1>1, <1>2, <1>3, <1>4, <1>5, <1>6

\* The units of a plain text file.
LEMMA PlainDocument ==
    ASSUME TextOK, type = "plain_text"
    PROVE DocUnits(PlainUnits)
<1> DEFINE bs == BlankBlocks(Lines)
           us == PlainUnits
           N == Len(bs)
<1>1. BlocksOf(bs, Lines)
  <2>1. Lines \subseteq Lines OBVIOUS
  <2> QED BY <2>1, BlankBlocksAre
<1>2. /\ bs \in Seq(SUBSET Lines)
      /\ \A b \in Range(bs) : b # {} /\ (\E i, e \in Lines : b = i .. e)
      /\ \A j \in Lines : ~Blank(j) => \E b \in Range(bs) : j \in b
    BY <1>1 DEF BlocksOf
<1>3. us = [n \in DOMAIN bs |-> Unit("text", bs[n], Min(bs[n]), Max(bs[n]))]
    BY DEF PlainUnits
<1> HIDE DEF bs, us
<1>4. N \in Nat /\ DOMAIN bs = 1 .. N BY <1>2
<1> HIDE DEF N
<1>5. Lines \subseteq Nat \ {0} BY TextLines
<1>6. ASSUME NEW n \in 1 .. N
      PROVE /\ us[n].kind = "text" /\ us[n].lines = bs[n] /\ us[n] \in UnitSet /\ UnitOK(us[n])
            /\ bs[n] \in Range(bs)
  <2>1. us[n] = Unit("text", bs[n], Min(bs[n]), Max(bs[n])) BY <1>3, <1>4
  <2>2. bs[n] \in Range(bs) BY <1>4 DEF Range
  <2>3. PICK i \in Lines, e \in Lines : bs[n] = i .. e BY <1>2, <2>2
  <2>4. i \in Int /\ e \in Int /\ i <= e BY <1>2, <1>5, <2>2, <2>3
  <2>5. Min(bs[n]) = i /\ Max(bs[n]) = e BY <2>3, <2>4, IntervalEnds
  <2>6. bs[n] \subseteq Lines BY <1>2, <1>4
  <2>7. us[n] \in UnitSet BY <1>5, <2>1, <2>5, <2>6 DEF Unit, UnitSet
  <2>8. us[n].kind = "text" /\ us[n].lines = bs[n] /\ us[n].first = i /\ us[n].last = e
      BY <2>1, <2>5 DEF Unit
  <2>9. bs[n] # {} /\ \A j \in bs[n] : i <= j /\ j <= e
    <3>1. bs[n] # {} BY <1>2, <2>2
    <3>2. \A j \in i .. e : i <= j /\ j <= e BY <2>4
    <3> QED BY <2>3, <3>1, <3>2
  <2>10. UnitOK(us[n]) BY <2>7, <2>8, <2>9 DEF UnitOK
  <2> QED BY <2>2, <2>7, <2>8, <2>10
<1>7. us \in Seq(UnitSet) /\ Len(us) = N
  <2>1. us \in [1 .. N -> UnitSet]
    <3>1. us = [n \in 1 .. N |-> us[n]] BY <1>3, <1>4
    <3> QED BY <1>6, <3>1
  <2> QED BY <1>4, <2>1
<1>8. ASSUME NEW i \in Lines, text[i] # "blank"
      PROVE \E n \in 1 .. N : us[n].kind # "heading" /\ i \in us[n].lines
  <2>1. PICK b \in Range(bs) : i \in b BY <1>2, <1>8 DEF Blank
  <2>2. PICK n \in 1 .. N : b = bs[n] BY <1>4 DEF Range
  <2> QED BY <1>6, <2>1, <2>2
<1>9. DocUnits(us) BY <1>6, <1>7, <1>8 DEF DocUnits
<1> QED BY <1>9 DEF us

-----------------------------------------------------------------------------
(***************************************************************************)
(* Headings and segments                                                   *)
(***************************************************************************)

\* The kinds of lines, which are the entries of a path of headings.
HeadingKinds == DOMAIN LineCost

\* The smaller of two numbers.
LEMMA MinOfTwo ==
    ASSUME NEW a \in Int, NEW b \in Int
    PROVE Min({a, b}) \in {a, b} /\ Min({a, b}) <= a /\ Min({a, b}) <= b
<1>1. Min({a, b}) = CHOOSE x \in {a, b} : \A y \in {a, b} : x <= y BY DEF Min
<1>2. \E x \in {a, b} : \A y \in {a, b} : x <= y
  <2>1. CASE a <= b BY <2>1
  <2>2. CASE ~ (a <= b) BY <2>2
  <2> QED BY <2>1, <2>2
<1> QED BY <1>1, <1>2

\* Below a heading the path is not empty; other units do not change it.
LEMMA BelowIs ==
    ASSUME TextOK, NEW path \in Seq(HeadingKinds), NEW u, UnitOK(u)
    PROVE /\ Below(path, u) \in Seq(HeadingKinds)
          /\ path # <<>> => Below(path, u) # <<>>
<1>1. CASE u.kind # "heading" BY <1>1 DEF Below
<1>2. CASE u.kind = "heading"
  <2> DEFINE k == text[u.first]
             m == Min({Len(path), HeadingDepth(k) - 1})
  <2>1. k \in HeadingKinds
    <3>1. u.first \in Lines BY DEF UnitOK, UnitSet
    <3>2. \A i \in Lines : text[i] \in HeadingKinds BY TextLines DEF TextOK, HeadingKinds
    <3> QED BY <3>1, <3>2
  <2>2. HeadingDepth(k) > 0 /\ HeadingDepth(k) \in Nat BY <1>2 DEF UnitOK, HeadingDepth
  <2>3. Len(path) \in Int /\ HeadingDepth(k) - 1 \in Int BY <2>2
  <2>4. m \in 0 .. Len(path)
    <3> HIDE DEF k
    <3>1. m \in {Len(path), HeadingDepth(k) - 1} /\ m <= Len(path) BY <2>3, MinOfTwo
    <3> HIDE DEF m
    <3> QED BY <2>2, <2>3, <3>1
  <2>5. Below(path, u) = Append(SubSeq(path, 1, m), k) BY <1>2 DEF Below
  <2> HIDE DEF m, k
  <2>6. SubSeq(path, 1, m) \in Seq(HeadingKinds) BY <2>4
  <2>7. Append(SubSeq(path, 1, m), k) \in Seq(HeadingKinds) /\ Append(SubSeq(path, 1, m), k) # <<>>
      BY <2>1, <2>6
  <2> QED BY <2>5, <2>7
<1> QED BY <1>1, <1>2

\* The paths of the units: once under a heading, always under one.
PathsOK(us) ==
    /\ \A n \in 1 .. Len(us) : HeadingPaths(us)[n] \in Seq(HeadingKinds)
    /\ \A m, n \in 1 .. Len(us) : m <= n /\ HeadingPaths(us)[m] # <<>> => HeadingPaths(us)[n] # <<>>

\* The headings above the units of a document make such paths.
LEMMA PathsAre ==
    ASSUME TextOK, NEW us, DocUnits(us)
    PROVE PathsOK(us)
<1> DEFINE N == Len(us)
           X == Seq(HeadingKinds)
           start == <<>>
           step == [p \in X \X (1 .. N) |-> Below(p[1], us[p[2]])]
           path[n \in 0 .. N] == IF n = 0 THEN start ELSE Below(path[n - 1], us[n])
<1>1. N \in Nat /\ \A n \in 1 .. N : UnitOK(us[n]) BY DEF DocUnits
<1>2. HeadingPaths(us) = path BY DEF HeadingPaths
<1>3. start \in X OBVIOUS
<1> HIDE DEF N, start
<1>4. ASSUME NEW x \in X, NEW n \in 1 .. N PROVE Below(x, us[n]) \in X BY <1>1, BelowIs
<1>5. step \in [X \X (1 .. N) -> X] BY <1>4
<1> HIDE DEF X
<1>6. PICK f \in [0 .. N -> X] : /\ f[0] = start
                                 /\ \A n \in 1 .. N : f[n] = step[<<f[n - 1], n>>]
  <2> HIDE DEF step
  <2>1. N \in Nat BY <1>1
  <2>2. \E f : Run(f, N, X, start, step) BY <2>1, <1>3, <1>5, LoopRuns
  <2> QED BY <2>2 DEF Run
<1>7. \A n \in 1 .. N : f[n] = Below(f[n - 1], us[n])
  <2> SUFFICES ASSUME NEW n \in 1 .. N PROVE f[n] = Below(f[n - 1], us[n])
      OBVIOUS
  <2>1. n - 1 \in 0 .. N /\ f[n - 1] \in X BY <1>1
  <2> QED BY <1>6, <2>1
<1>8. f = [n \in 0 .. N |-> IF n = 0 THEN start ELSE Below(f[n - 1], us[n])]
    BY <1>1, <1>6, <1>7
<1>9. path = [n \in 0 .. N |-> IF n = 0 THEN start ELSE Below(path[n - 1], us[n])]
    BY <1>8
<1> HIDE DEF path, step
<1>10. path[0] = start /\ \A n \in 1 .. N : path[n] = Below(path[n - 1], us[n])
    BY <1>1, <1>9
<1> DEFINE S == {n \in 0 .. N : path[n] \in X}
<1>11. \A n \in 0 .. N : n \in S
  <2>1. 0 \in S BY <1>1, <1>3, <1>10
  <2>2. ASSUME NEW n \in 1 .. N, n - 1 \in S PROVE n \in S BY <1>4, <1>10, <2>2
  <2> HIDE DEF S
  <2> QED BY <1>1, <2>1, <2>2, Upwards
<1>12. \A n \in 0 .. N : path[n] \in Seq(HeadingKinds) BY <1>11 DEF X
<1> HIDE DEF S
<1>13. ASSUME NEW m \in 1 .. N, NEW n \in 1 .. N, m <= n, path[m] # <<>>
       PROVE path[n] # <<>>
  <2> DEFINE R == {k \in 0 .. N : k < m \/ path[k] # <<>>}
  <2>1. 0 \in R BY <1>1
  <2>2. ASSUME NEW k \in 1 .. N, k - 1 \in R PROVE k \in R
    <3>1. CASE k < m BY <3>1
    <3>2. CASE k = m BY <1>13, <3>2
    <3>3. CASE k > m
      <4>1. k - 1 \in 0 .. N /\ path[k - 1] # <<>> /\ path[k - 1] \in Seq(HeadingKinds)
          BY <1>12, <2>2, <3>3
      <4>2. path[k] # <<>>
        <5> HIDE DEF R
        <5> QED BY <1>1, <1>10, <4>1, BelowIs
      <4> QED BY <4>2
    <3> QED BY <3>1, <3>2, <3>3
  <2>3. n \in R
    <3> HIDE DEF R
    <3>1. \A k \in 0 .. N : k \in R BY <1>1, <2>1, <2>2, Upwards
    <3> QED BY <3>1
  <2> QED BY <1>13, <2>3
<1>14. \A n \in 1 .. N : path[n] \in Seq(HeadingKinds) BY <1>12
<1> QED BY <1>2, <1>13, <1>14 DEF PathsOK, N

\* A unit under its headings.
PlacedSet == [kind : {"heading", "text", "table", "code", "symbol"}, lines : SUBSET Lines,
              first : Lines, last : Nat, path : Seq(HeadingKinds)]

\* A segment is of units in their order, none a heading: texts, or one of another kind.
SegmentOf(seg, ix, us) ==
    /\ seg \in Seq(PlacedSet) /\ Len(seg) >= 1
    /\ ix \in [1 .. Len(seg) -> 1 .. Len(us)]
    /\ \A j, k \in 1 .. Len(seg) : j < k => ix[j] < ix[k]
    /\ \A k \in 1 .. Len(seg) : /\ seg[k] = Under(us[ix[k]], HeadingPaths(us)[ix[k]])
                                /\ seg[k].kind # "heading"
    /\ seg[1].kind = "text" => \A k \in 1 .. Len(seg) : seg[k].kind = "text"
    /\ seg[1].kind # "text" => Len(seg) = 1

\* The segments of placed units hold each that is no heading.
SegmentsOf(segs, us) ==
    /\ segs \in Seq(Seq(PlacedSet))
    /\ \A n \in 1 .. Len(segs) : \E ix : SegmentOf(segs[n], ix, us)
    /\ \A m \in 1 .. Len(us) : us[m].kind # "heading" =>
         \E n \in 1 .. Len(segs) : \E k \in 1 .. Len(segs[n]) :
           segs[n][k] = Under(us[m], HeadingPaths(us)[m])

\* What _segments makes of the units of a document.
LEMMA SegmentsAre ==
    ASSUME TextOK, NEW us, DocUnits(us)
    PROVE SegmentsOf(Segments(Placed(us)), us)
<1> DEFINE N == Len(us)
           ps == Placed(us)
           under(n) == Under(us[n], HeadingPaths(us)[n])
           I == {n \in DOMAIN ps : ps[n].kind # "heading"}
           kept == Picked(ps, I)
<1>1. N \in Nat /\ us \in Seq(UnitSet) /\ DOMAIN us = 1 .. N BY DEF DocUnits
<1>2. \A n \in 1 .. N : HeadingPaths(us)[n] \in Seq(HeadingKinds) BY PathsAre DEF PathsOK
<1>3. ps = [n \in 1 .. N |-> under(n)] BY <1>1 DEF Placed
<1>4. ASSUME NEW n \in 1 .. N PROVE under(n) \in PlacedSet /\ under(n).kind = us[n].kind
  <2>1. us[n] \in UnitSet BY <1>1
  <2> QED BY <1>2, <2>1 DEF Under, UnitSet, PlacedSet
<1> HIDE DEF N, ps, under
<1>5. ps \in [1 .. N -> PlacedSet] /\ \A n \in 1 .. N : ps[n] = under(n) BY <1>3, <1>4
<1>6. I \in SUBSET (1 .. N) BY <1>5
<1>7. \A n \in 1 .. N : n \in I <=> us[n].kind # "heading" BY <1>4, <1>5
<1> HIDE DEF I
<1>8. kept \in Seq(PlacedSet) BY <1>1, <1>5, <1>6, PickedAt
<1>9. PICK m, at : Picks(ps, I, m, at) BY <1>1, <1>5, <1>6, PickedAt
<1>10. /\ m \in Nat /\ at \in [1 .. m -> I]
       /\ \A i \in I : \E k \in 1 .. m : at[k] = i
       /\ \A j, k \in 1 .. m : j < k => at[j] < at[k]
       /\ DOMAIN kept = 1 .. m
       /\ \A k \in 1 .. m : kept[k] = ps[at[k]]
    BY <1>9 DEF Picks
<1> HIDE DEF kept
<1>11. Len(kept) = m BY <1>8, <1>10
<1>12. \A k \in 1 .. m : at[k] \in 1 .. N /\ kept[k] = under(at[k]) /\ kept[k].kind # "heading"
  <2> SUFFICES ASSUME NEW k \in 1 .. m
               PROVE at[k] \in 1 .. N /\ kept[k] = under(at[k]) /\ kept[k].kind # "heading"
      OBVIOUS
  <2>1. at[k] \in I /\ kept[k] = ps[at[k]] BY <1>10
  <2>2. at[k] \in 1 .. N /\ us[at[k]].kind # "heading" BY <1>6, <1>7, <2>1
  <2>3. ps[at[k]] = under(at[k]) /\ under(at[k]).kind = us[at[k]].kind BY <1>4, <1>5, <2>2
  <2> QED BY <2>1, <2>2, <2>3
<1> DEFINE cuts == {n \in DOMAIN kept : n = 1 \/ kept[n].kind # "text" \/ kept[n - 1].kind # "text"}
           runs == Intervals(cuts, m)
           segs == Segments(ps)
<1>13. segs = [x \in DOMAIN runs |-> SubSeq(kept, Min(runs[x]), Max(runs[x]))]
    BY <1>11 DEF Segments, kept, I
<1>14. cuts \in SUBSET (1 .. m) BY <1>10
<1>15. \A n \in 1 .. m : n \in cuts <=> n = 1 \/ kept[n].kind # "text" \/ kept[n - 1].kind # "text"
    BY <1>10
<1> HIDE DEF cuts, segs
<1>16. IntervalsOf(runs, cuts, m) BY <1>10, <1>14, IntervalsAre
<1> HIDE DEF runs
<1>17. /\ runs \in Seq(SUBSET (1 .. m))
       /\ \A b \in Range(runs) : \E i \in cuts : \E e \in i .. m :
            b = i .. e /\ \A c \in cuts : c <= i \/ c > e
       /\ \A j \in 1 .. m : (\E c \in cuts : c <= j) => \E b \in Range(runs) : j \in b
    BY <1>16 DEF IntervalsOf
<1> DEFINE R == Len(runs)
<1>18. R \in Nat /\ DOMAIN runs = 1 .. R BY <1>17
<1> HIDE DEF R
<1>19. ASSUME NEW x \in 1 .. R
       PROVE \E i \in cuts : \E e \in i .. m :
               /\ runs[x] = i .. e /\ \A c \in cuts : c <= i \/ c > e
               /\ i \in 1 .. m /\ e \in 1 .. m /\ i <= e
               /\ segs[x] \in Seq(PlacedSet) /\ Len(segs[x]) = e - i + 1
               /\ \A k \in 1 .. e - i + 1 : segs[x][k] = kept[i + k - 1]
  <2>1. runs[x] \in Range(runs) BY <1>18 DEF Range
  <2>2. PICK i \in cuts : \E e \in i .. m : runs[x] = i .. e /\ \A c \in cuts : c <= i \/ c > e
      BY <1>17, <2>1
  <2>3. PICK e \in i .. m : runs[x] = i .. e /\ \A c \in cuts : c <= i \/ c > e BY <2>2
  <2>4. i \in 1 .. m /\ e \in 1 .. m /\ i <= e BY <1>10, <1>14
  <2>5. i \in Int /\ e \in Int BY <2>4
  <2>6. Min(runs[x]) = i /\ Max(runs[x]) = e BY <2>3, <2>4, <2>5, IntervalEnds
  <2>7. segs[x] = SubSeq(kept, i, e) BY <1>13, <1>18, <2>6
  <2>8. /\ SubSeq(kept, i, e) \in Seq(PlacedSet) /\ Len(SubSeq(kept, i, e)) = e - i + 1
        /\ \A k \in 1 .. e - i + 1 : SubSeq(kept, i, e)[k] = kept[i + k - 1]
      BY <1>8, <1>11, <2>4
  <2> QED BY <2>3, <2>4, <2>7, <2>8
<1>20. ASSUME NEW x \in 1 .. R PROVE \E ix : SegmentOf(segs[x], ix, us)
  <2>1. PICK i \in cuts : \E e \in i .. m :
               /\ runs[x] = i .. e /\ \A c \in cuts : c <= i \/ c > e
               /\ i \in 1 .. m /\ e \in 1 .. m /\ i <= e
               /\ segs[x] \in Seq(PlacedSet) /\ Len(segs[x]) = e - i + 1
               /\ \A k \in 1 .. e - i + 1 : segs[x][k] = kept[i + k - 1]
      BY <1>19
  <2>2. PICK e \in i .. m :
               /\ runs[x] = i .. e /\ \A c \in cuts : c <= i \/ c > e
               /\ i \in 1 .. m /\ e \in 1 .. m /\ i <= e
               /\ segs[x] \in Seq(PlacedSet) /\ Len(segs[x]) = e - i + 1
               /\ \A k \in 1 .. e - i + 1 : segs[x][k] = kept[i + k - 1]
      BY <2>1
  <2> DEFINE L == e - i + 1
             ix == [k \in 1 .. L |-> at[i + k - 1]]
             seg == segs[x]
  <2>3. L \in Nat /\ L >= 1 BY <2>2
  <2>a. i \in Int /\ e \in Int /\ 1 <= i /\ e <= m /\ i <= e BY <2>2
  <2>4. \A k \in 1 .. L : i + k - 1 \in 1 .. m /\ i + k - 1 \in i .. e BY <1>10, <2>a
  <2>5. \A k \in 1 .. L : seg[k] = kept[i + k - 1] BY <2>2
  <2>6. Len(seg) = L /\ seg \in Seq(PlacedSet) BY <2>2
  <2> HIDE DEF L, seg
  <2>7. ix \in [1 .. L -> 1 .. N] /\ \A k \in 1 .. L : ix[k] = at[i + k - 1] BY <1>12, <2>4
  <2> HIDE DEF ix
  <2>8. ASSUME NEW j \in 1 .. L, NEW k \in 1 .. L, j < k PROVE ix[j] < ix[k]
    <3>1. i + j - 1 < i + k - 1 BY <2>2, <2>8
    <3> QED BY <1>10, <2>4, <2>7, <3>1
  <2>9. ASSUME NEW k \in 1 .. L PROVE seg[k] = under(ix[k]) /\ seg[k].kind # "heading"
      BY <1>12, <2>4, <2>5, <2>7
  <2>10. 1 \in 1 .. L /\ i + 1 - 1 = i BY <2>2, <2>3
  <2>11. seg[1] = kept[i] BY <2>5, <2>10
  <2>12. ASSUME seg[1].kind = "text", NEW k \in 1 .. L PROVE seg[k].kind = "text"
    <3>1. CASE k = 1 BY <2>12, <3>1
    <3>2. CASE k # 1
      <4>1. i + k - 1 \in 1 .. m /\ i + k - 1 > i /\ i + k - 1 <= e BY <2>2, <2>4, <3>2
      <4>2. i + k - 1 \notin cuts BY <2>2, <4>1
      <4>3. kept[i + k - 1].kind = "text" BY <1>15, <4>1, <4>2
      <4> QED BY <2>5, <4>3
    <3> QED BY <3>1, <3>2
  <2>13. ASSUME seg[1].kind # "text" PROVE L = 1
    <3> SUFFICES ASSUME L # 1 PROVE FALSE
        OBVIOUS
    <3>1. i + 1 \in 1 .. m /\ i + 1 <= e /\ (i + 1) - 1 = i BY <1>10, <2>3, <2>a DEF L
    <3>2. i + 1 \in cuts BY <1>15, <2>11, <2>13, <3>1
    <3> QED BY <2>2, <3>1, <3>2
  <2>14. SegmentOf(seg, ix, us)
    <3>1. \A k \in 1 .. L : seg[k] = Under(us[ix[k]], HeadingPaths(us)[ix[k]]) BY <2>9 DEF under
    <3>2. ix \in [1 .. L -> 1 .. Len(us)] BY <2>7 DEF N
    <3> QED BY <2>3, <2>6, <2>8, <2>9, <2>12, <2>13, <3>1, <3>2 DEF SegmentOf
  <2> QED BY <2>14 DEF seg
<1>21. DOMAIN segs = 1 .. R BY <1>13, <1>18
<1>22. segs \in Seq(Seq(PlacedSet)) /\ Len(segs) = R
  <2>1. \A x \in 1 .. R : segs[x] \in Seq(PlacedSet) BY <1>19
  <2>2. segs = [x \in 1 .. R |-> segs[x]] BY <1>13, <1>18
  <2>3. segs \in [1 .. R -> Seq(PlacedSet)] BY <2>1, <2>2
  <2> QED BY <1>18, <2>3
<1>23. ASSUME NEW n \in 1 .. N, us[n].kind # "heading"
       PROVE \E x \in 1 .. R : \E k \in 1 .. Len(segs[x]) : segs[x][k] = under(n)
  <2>1. n \in I BY <1>7, <1>23
  <2>2. PICK k \in 1 .. m : at[k] = n BY <1>10, <2>1
  <2>3. 1 \in 1 .. m /\ 1 <= k BY <1>10
  <2>4. 1 \in cuts BY <1>15, <2>3
  <2>5. PICK b \in Range(runs) : k \in b BY <1>17, <2>3, <2>4
  <2>6. PICK x \in 1 .. R : runs[x] = b BY <1>18 DEF Range
  <2>7. PICK i \in cuts : \E e \in i .. m :
               /\ runs[x] = i .. e /\ i \in 1 .. m /\ e \in 1 .. m
               /\ Len(segs[x]) = e - i + 1
               /\ \A l \in 1 .. e - i + 1 : segs[x][l] = kept[i + l - 1]
      BY <1>19
  <2>8. PICK e \in i .. m :
               /\ runs[x] = i .. e /\ i \in 1 .. m /\ e \in 1 .. m
               /\ Len(segs[x]) = e - i + 1
               /\ \A l \in 1 .. e - i + 1 : segs[x][l] = kept[i + l - 1]
      BY <2>7
  <2>9. k \in i .. e BY <2>5, <2>6, <2>8
  <2>10. k - i + 1 \in 1 .. e - i + 1 /\ i + (k - i + 1) - 1 = k BY <2>8, <2>9
  <2>11. segs[x][k - i + 1] = kept[k] BY <2>8, <2>10
  <2>12. kept[k] = under(n) BY <1>12, <2>2
  <2> QED BY <2>8, <2>10, <2>11, <2>12
<1>24. SegmentsOf(segs, us) BY <1>20, <1>22, <1>23 DEF SegmentsOf, under, N
<1> QED BY <1>24 DEF segs, ps

-----------------------------------------------------------------------------
(***************************************************************************)
(* Chunks of text                                                          *)
(***************************************************************************)

\* What a chunk is: a path has headings, or the line of a symbol.
ChunkSet == [lines : SUBSET Lines, first : Nat, last : Nat, path : Seq(HeadingKinds \cup Nat),
             of : SUBSET Lines, children : SUBSET Nat]

\* A leaf of a document is cut from units of one section, which it cites, with the header of
\* a table, and over the budget only where it cannot be cut.  An empty fenced block is
\* a chunk of the marks around it, which are not text of the unit.
LeafOf(c, us) ==
    /\ c \in ChunkSet /\ c.children = {} /\ c.of = {}
    /\ \E I \in SUBSET (1 .. Len(us)) :
         /\ I # {} /\ c.lines \subseteq UNION {us[n].first .. us[n].last : n \in I}
         /\ \A n \in I : /\ us[n].kind # "heading" /\ HeadingPaths(us)[n] = c.path
                         /\ c.first <= us[n].first /\ us[n].last <= c.last
                         /\ us[n].kind = "table" => HeaderOf(us[n]) \subseteq c.lines
         /\ Toks(c.lines) > ChunkMaxTokens => \E n \in I : Uncut(c, us[n])

\* The chunks of a segment hold all of its text.
ChunksOf(cs, seg, us) ==
    /\ cs \in Seq(ChunkSet) /\ \A c \in Range(cs) : LeafOf(c, us)
    /\ \A k \in 1 .. Len(seg) : \A i \in seg[k].lines :
         Blank(i) \/ \E c \in Range(cs) : i \in c.lines

\* Consecutive units a .. b are of one section, and within the budget or the last of them came
\* after an overlap.
Group(seg, a, b) ==
    /\ a \in 1 .. Len(seg) /\ b \in 1 .. Len(seg) /\ a <= b
    /\ \A k \in a .. b : seg[k].path = seg[a].path
    /\ \/ Toks(LinesOf(seg, a .. b)) <= ChunkMaxTokens
       \/ Toks(LinesOf(seg, a .. b - 1)) <= OverlapTokens

\* The state of the loop over units after n of them.
GroupsAt(st, seg, n) ==
    /\ st \in [out : Seq(SUBSET (1 .. Len(seg))), from : 1 .. Len(seg)]
    /\ n = 0 => st.from = 1
    /\ n > 0 => Group(seg, st.from, n)
    /\ \A r \in Range(st.out) : \E a, b \in 1 .. Len(seg) : r = a .. b /\ Group(seg, a, b)
    /\ \A k \in 1 .. n : k >= st.from \/ \E r \in Range(st.out) : k \in r

\* No units fit any overlap.
LEMMA NoLines == ASSUME TextOK, NEW us PROVE Toks(LinesOf(us, {})) <= OverlapTokens
<1>1. LinesOf(us, {}) = {} BY DEF LinesOf
<1>2. {} \cap Lines \subseteq {} OBVIOUS
<1>3. Toks({}) = 0 BY <1>2, ToksFewer
<1>4. OverlapTokens \in Nat BY TextLines
<1> QED BY <1>1, <1>3, <1>4

\* The tail of a buffer that fits the overlap.
LEMMA TailFits ==
    ASSUME TextOK, NEW seg, NEW from \in Nat \ {0}, NEW n \in Nat \ {0}, from <= n
    PROVE /\ OverlapTail(seg, from, n) \in from .. n
          /\ Toks(LinesOf(seg, OverlapTail(seg, from, n) .. n - 1)) <= OverlapTokens
<1> DEFINE S == {k \in from .. n : Toks(LinesOf(seg, k .. n - 1)) <= OverlapTokens}
<1>1. n \in S
  <2>1. n .. n - 1 = {} OBVIOUS
  <2>2. Toks(LinesOf(seg, {})) <= OverlapTokens BY NoLines
  <2> QED BY <2>1, <2>2
<1>2. S \in SUBSET (Nat \ {0}) OBVIOUS
<1>3. OverlapTail(seg, from, n) = Min(S) BY DEF OverlapTail
<1>4. Min(S) \in S
  <2> HIDE DEF S
  <2>1. PICK m \in S : \A k \in S : m <= k BY <1>1, <1>2, FirstOfInterval
  <2> QED BY <2>1 DEF Min
<1> QED BY <1>3, <1>4

\* A unit more.
LEMMA AddUnitKeeps ==
    ASSUME TextOK, NEW seg \in Seq(PlacedSet), NEW n \in 1 .. Len(seg), NEW st,
           GroupsAt(st, seg, n - 1),
           \A j, k \in 1 .. Len(seg) : j <= k /\ seg[j].path # <<>> => seg[k].path # <<>>
    PROVE GroupsAt(AddUnit(seg, st, n), seg, n)
<1> DEFINE N == Len(seg)
           T == SUBSET (1 .. N)
           buffer == st.from .. n - 1
           section == buffer # {} /\ seg[n].path # <<>> /\ seg[n].path # seg[st.from].path
           full == buffer # {} /\ Toks(LinesOf(seg, st.from .. n)) > ChunkMaxTokens
           new == AddUnit(seg, st, n)
           next == IF section THEN n ELSE OverlapTail(seg, st.from, n)
<1>1. N \in Nat /\ n \in 1 .. N /\ n \in Nat \ {0} OBVIOUS
<1> HIDE DEF N
<1>2. /\ st \in [out : Seq(T), from : 1 .. N]
      /\ n - 1 = 0 => st.from = 1
      /\ n - 1 > 0 => Group(seg, st.from, n - 1)
      /\ \A r \in Range(st.out) : \E a, b \in 1 .. N : r = a .. b /\ Group(seg, a, b)
      /\ \A k \in 1 .. n - 1 : k >= st.from \/ \E r \in Range(st.out) : k \in r
    BY DEF GroupsAt, N
<1>3. st.from \in 1 .. N /\ st.out \in Seq(T) /\ st.from \in Nat \ {0} BY <1>2
<1>4. st.from <= n
  <2>1. CASE n = 1 BY <1>2, <2>1
  <2>2. CASE n # 1
    <3>1. n - 1 > 0 BY <1>1, <2>2
    <3> QED BY <1>1, <1>2, <1>3, <3>1 DEF Group
  <2> QED BY <2>1, <2>2
<1>5. \A k \in 1 .. n : k = n \/ k \in 1 .. n - 1 BY <1>1
<1>6. ChunkMaxTokens \in Nat /\ OverlapTokens \in Nat BY TextLines
<1>7. Toks(LinesOf(seg, st.from .. n)) \in Nat
  <2>1. LinesOf(seg, st.from .. n) \cap Lines \subseteq LinesOf(seg, st.from .. n) OBVIOUS
  <2> QED BY <2>1, ToksFewer
<1>8. \A t \in st.from .. n : buffer # {} => Group(seg, st.from, n - 1)
  <2> SUFFICES ASSUME buffer # {} PROVE Group(seg, st.from, n - 1)
      OBVIOUS
  <2>1. n - 1 > 0 BY <1>1, <1>3
  <2> QED BY <1>2, <2>1
<1>9. CASE section \/ full
  <2>1. new = [out |-> Append(st.out, buffer), from |-> next] BY <1>9 DEF AddUnit
  <2>2. buffer # {} /\ Group(seg, st.from, n - 1)
    <3>1. buffer # {} BY <1>9
    <3>2. n \in st.from .. n BY <1>1, <1>3, <1>4
    <3> HIDE DEF buffer
    <3> QED BY <1>8, <3>1, <3>2
  <2>3. n - 1 \in 1 .. N /\ st.from <= n - 1 /\ \A k \in st.from .. n - 1 : seg[k].path = seg[st.from].path
      BY <1>1, <2>2 DEF Group, N
  <2>4. buffer \in T BY <1>1, <1>3
  <2>5. new.out \in Seq(T) /\ Range(new.out) = Range(st.out) \cup {buffer}
    <3>1. new.out = Append(st.out, buffer) BY <2>1
    <3> HIDE DEF T, new, buffer
    <3> QED BY <1>3, <2>4, <3>1, RangeAppended
  <2>6. new.from = next BY <2>1
  <2>7. Group(seg, next, n) /\ next \in st.from .. n
    <3>1. CASE section
      <4>1. next = n BY <3>1
      <4>2. n .. n - 1 = {} /\ \A k \in n .. n : k = n BY <1>1
      <4>3. Toks(LinesOf(seg, n .. n - 1)) <= OverlapTokens
        <5>1. Toks(LinesOf(seg, {})) <= OverlapTokens BY NoLines
        <5> QED BY <4>2, <5>1
      <4>4. Group(seg, n, n) BY <1>1, <4>2, <4>3 DEF Group, N
      <4> QED BY <1>1, <1>3, <1>4, <4>1, <4>4
    <3>2. CASE ~section
      <4>1. next = OverlapTail(seg, st.from, n) BY <3>2
      <4> HIDE DEF next
      <4>2. next \in st.from .. n /\ Toks(LinesOf(seg, next .. n - 1)) <= OverlapTokens
          BY <1>1, <1>3, <1>4, <4>1, TailFits
      <4>3. seg[n].path = seg[st.from].path
        <5>1. CASE seg[n].path = <<>>
          <6>1. seg[st.from].path = <<>> BY <1>1, <1>3, <1>4, <5>1 DEF N
          <6> QED BY <5>1, <6>1
        <5>2. CASE seg[n].path # <<>> BY <2>2, <3>2, <5>2
        <5> QED BY <5>1, <5>2
      <4>4. \A k \in st.from .. n : seg[k].path = seg[st.from].path
        <5>1. \A k \in st.from .. n : k = n \/ k \in st.from .. n - 1 BY <1>1, <1>3
        <5> QED BY <2>3, <4>3, <5>1
      <4>5. next \in 1 .. N /\ next <= n /\ \A k \in next .. n : k \in st.from .. n
          BY <1>1, <1>3, <4>2
      <4>6. \A k \in next .. n : seg[k].path = seg[next].path BY <4>2, <4>4, <4>5
      <4>7. Group(seg, next, n) BY <1>1, <4>2, <4>5, <4>6 DEF Group, N
      <4> QED BY <4>2, <4>7
    <3> QED BY <3>1, <3>2
  <2> HIDE DEF next
  <2>8. next \in 1 .. N BY <1>1, <1>3, <2>7
  <2>9. new \in [out : Seq(T), from : 1 .. N]
    <3>1. Append(st.out, buffer) \in Seq(T) BY <2>1, <2>5
    <3> QED BY <2>1, <2>8, <3>1
  <2> HIDE DEF new
  <2>10. ASSUME NEW r \in Range(new.out)
         PROVE \E a, b \in 1 .. N : r = a .. b /\ Group(seg, a, b)
    <3>1. CASE r = buffer BY <1>3, <2>2, <2>3, <3>1
    <3>2. CASE r \in Range(st.out) BY <1>2, <3>2
    <3> QED BY <2>5, <3>1, <3>2
  <2>11. ASSUME NEW k \in 1 .. n PROVE k >= new.from \/ \E r \in Range(new.out) : k \in r
    <3>1. CASE k = n BY <1>1, <2>6, <2>7, <3>1
    <3>2. CASE k # n
      <4>1. k \in 1 .. n - 1 BY <1>5, <3>2
      <4>2. CASE k >= st.from
        <5>1. k \in buffer BY <1>3, <4>1, <4>2
        <5> QED BY <2>5, <5>1
      <4>3. CASE ~ (k >= st.from) BY <1>2, <2>5, <4>1, <4>3
      <4> QED BY <4>2, <4>3
    <3> QED BY <3>1, <3>2
  <2> QED BY <1>1, <2>6, <2>7, <2>9, <2>10, <2>11 DEF GroupsAt, new, N
<1>10. CASE ~ (section \/ full)
  <2>1. new = st BY <1>10 DEF AddUnit
  <2> HIDE DEF new
  <2>2. Group(seg, st.from, n)
    <3>1. CASE buffer = {}
      <4>1. st.from = n BY <1>1, <1>3, <1>4, <3>1
      <4>2. n .. n - 1 = {} /\ \A k \in n .. n : k = n BY <1>1
      <4>3. Toks(LinesOf(seg, n .. n - 1)) <= OverlapTokens
        <5>1. Toks(LinesOf(seg, {})) <= OverlapTokens BY NoLines
        <5> QED BY <4>2, <5>1
      <4> QED BY <1>1, <4>1, <4>2, <4>3 DEF Group, N
    <3>2. CASE buffer # {}
      <4>1. Toks(LinesOf(seg, st.from .. n)) <= ChunkMaxTokens BY <1>6, <1>7, <1>10, <3>2
      <4>2. Group(seg, st.from, n - 1)
        <5>1. n \in st.from .. n BY <1>1, <1>3, <1>4
        <5> HIDE DEF buffer
        <5> QED BY <1>8, <3>2, <5>1
      <4>3. \A k \in st.from .. n - 1 : seg[k].path = seg[st.from].path BY <4>2 DEF Group
      <4>4. seg[n].path = seg[st.from].path
        <5>1. CASE seg[n].path = <<>>
          <6>1. seg[st.from].path = <<>> BY <1>1, <1>3, <1>4, <5>1 DEF N
          <6> QED BY <5>1, <6>1
        <5>2. CASE seg[n].path # <<>> BY <1>10, <3>2, <5>2
        <5> QED BY <5>1, <5>2
      <4>5. \A k \in st.from .. n : seg[k].path = seg[st.from].path
        <5>1. \A k \in st.from .. n : k = n \/ k \in st.from .. n - 1 BY <1>1, <1>3
        <5> QED BY <4>3, <4>4, <5>1
      <4> QED BY <1>1, <1>3, <1>4, <4>1, <4>5 DEF Group, N
    <3> QED BY <3>1, <3>2
  <2>3. \A k \in 1 .. n : k >= st.from \/ \E r \in Range(st.out) : k \in r
    <3>1. n >= st.from BY <1>4, <1>3, <1>1
    <3> QED BY <1>2, <1>5, <3>1
  <2> QED BY <1>1, <1>2, <2>1, <2>2, <2>3 DEF GroupsAt, new, N
<1> QED BY <1>9, <1>10

\* The groups of a segment of text: each is one, and every unit is in one.
GroupsOf(ranges, seg) ==
    /\ ranges \in Seq(SUBSET (1 .. Len(seg)))
    /\ \A r \in Range(ranges) : \E a, b \in 1 .. Len(seg) : r = a .. b /\ Group(seg, a, b)
    /\ \A k \in 1 .. Len(seg) : \E r \in Range(ranges) : k \in r

\* Text is chunked in such groups.
LEMMA DocGroups ==
    ASSUME TextOK, NEW seg \in Seq(PlacedSet), Len(seg) >= 1,
           \A j, k \in 1 .. Len(seg) : j <= k /\ seg[j].path # <<>> => seg[k].path # <<>>
    PROVE \E ranges : /\ GroupsOf(ranges, seg)
                      /\ DocChunks(seg) = [m \in DOMAIN ranges |-> MakeDocChunk(seg, ranges[m])]
<1> DEFINE N == Len(seg)
           T == SUBSET (1 .. N)
           X == [out : Seq(T), from : 1 .. N]
           start == [out |-> <<>>, from |-> 1]
           step == [p \in X \X (1 .. N) |-> AddUnit(seg, p[1], p[2])]
           read[n \in 0 .. N] == IF n = 0 THEN start ELSE AddUnit(seg, read[n - 1], n)
           ranges == Append(read[N].out, read[N].from .. N)
<1>1. N \in Nat /\ N >= 1 OBVIOUS
<1>2. DocChunks(seg) = [m \in DOMAIN ranges |-> MakeDocChunk(seg, ranges[m])] BY DEF DocChunks
<1>3. start \in X BY <1>1
<1> HIDE DEF start
<1>4. ASSUME NEW x \in X, NEW n \in 1 .. N PROVE AddUnit(seg, x, n) \in X
  <2> DEFINE buffer == x.from .. n - 1
             section == buffer # {} /\ seg[n].path # <<>> /\ seg[n].path # seg[x.from].path
             full == buffer # {} /\ Toks(LinesOf(seg, x.from .. n)) > ChunkMaxTokens
             next == IF section THEN n ELSE OverlapTail(seg, x.from, n)
  <2>1. x.from \in 1 .. N /\ x.out \in Seq(T) /\ n \in Nat \ {0} OBVIOUS
  <2> HIDE DEF N
  <2>2. CASE section \/ full
    <3>1. AddUnit(seg, x, n) = [out |-> Append(x.out, buffer), from |-> next]
        BY <2>2 DEF AddUnit
    <3>2. x.from <= n /\ x.from \in Nat \ {0} BY <1>1, <2>1, <2>2
    <3>3. buffer \in T BY <1>1, <2>1
    <3>4. next \in 1 .. N
      <4>1. OverlapTail(seg, x.from, n) \in x.from .. n BY <2>1, <3>2, TailFits
      <4> QED BY <1>1, <2>1, <4>1
    <3>5. Append(x.out, buffer) \in Seq(T)
      <4> HIDE DEF buffer, T
      <4> QED BY <2>1, <3>3
    <3> HIDE DEF next, buffer
    <3> QED BY <3>1, <3>4, <3>5
  <2>3. CASE ~ (section \/ full) BY <2>3 DEF AddUnit
  <2> QED BY <2>2, <2>3
<1>5. step \in [X \X (1 .. N) -> X] BY <1>4
<1>6. PICK f \in [0 .. N -> X] : /\ f[0] = start
                                 /\ \A n \in 1 .. N : f[n] = step[<<f[n - 1], n>>]
  <2> HIDE DEF step, X, N
  <2>1. N \in Nat BY <1>1
  <2>2. \E f : Run(f, N, X, start, step) BY <2>1, <1>3, <1>5, LoopRuns
  <2> QED BY <2>2 DEF Run
<1>7. \A n \in 1 .. N : f[n] = AddUnit(seg, f[n - 1], n)
  <2> SUFFICES ASSUME NEW n \in 1 .. N PROVE f[n] = AddUnit(seg, f[n - 1], n)
      OBVIOUS
  <2>1. n - 1 \in 0 .. N /\ f[n - 1] \in X BY <1>1
  <2> HIDE DEF X
  <2> QED BY <1>6, <2>1
<1>8. f = [n \in 0 .. N |-> IF n = 0 THEN start ELSE AddUnit(seg, f[n - 1], n)]
  <2> HIDE DEF X, N
  <2> QED BY <1>1, <1>6, <1>7
<1>9. read = [n \in 0 .. N |-> IF n = 0 THEN start ELSE AddUnit(seg, read[n - 1], n)]
    BY <1>8
<1> HIDE DEF read, step
<1>10. read[0] = start /\ \A n \in 1 .. N : read[n] = AddUnit(seg, read[n - 1], n)
  <2>1. 0 \in 0 .. N /\ \A n \in 1 .. N : n \in 0 .. N /\ n # 0 BY <1>1
  <2> HIDE DEF N, X
  <2>2. read[0] = start BY <1>9, <2>1
  <2>3. ASSUME NEW n \in 1 .. N PROVE read[n] = AddUnit(seg, read[n - 1], n)
      BY <1>9, <2>1
  <2> QED BY <2>2, <2>3
<1> DEFINE S == {n \in 0 .. N : GroupsAt(read[n], seg, n)}
<1>11. 0 \in S
  <2>1. start.out = <<>> /\ start.from = 1 /\ Range(start.out) = {} BY DEF start, Range
  <2>2. \A k \in 1 .. 0 : FALSE OBVIOUS
  <2>3. GroupsAt(start, seg, 0) BY <1>1, <1>3, <2>1, <2>2 DEF GroupsAt
  <2>4. 0 \in 0 .. N BY <1>1
  <2> HIDE DEF N
  <2> QED BY <1>10, <2>3, <2>4
<1>12. ASSUME NEW n \in 1 .. N, n - 1 \in S PROVE n \in S
  <2>1. GroupsAt(read[n - 1], seg, n - 1) BY <1>12
  <2>2. GroupsAt(AddUnit(seg, read[n - 1], n), seg, n)
    <3> HIDE DEF S
    <3> QED BY <2>1, AddUnitKeeps
  <2>3. n \in 0 .. N BY <1>1
  <2> QED BY <1>10, <2>2, <2>3
<1>13. GroupsAt(read[N], seg, N)
  <2>1. N \in S
    <3> HIDE DEF S, N
    <3>1. N \in Nat /\ N \in 0 .. N BY <1>1
    <3> QED BY <3>1, <1>11, <1>12, Upwards
  <2> QED BY <2>1
<1> HIDE DEF S
<1> DEFINE end == read[N]
           last == end.from .. N
<1>14. /\ end.out \in Seq(T) /\ end.from \in 1 .. N /\ Group(seg, end.from, N)
       /\ \A r \in Range(end.out) : \E a, b \in 1 .. N : r = a .. b /\ Group(seg, a, b)
       /\ \A k \in 1 .. N : k >= end.from \/ \E r \in Range(end.out) : k \in r
    BY <1>1, <1>13 DEF GroupsAt
<1> HIDE DEF end
<1>15. last \in T /\ N \in 1 .. N BY <1>1, <1>14
<1>16. ranges \in Seq(T) /\ Range(ranges) = Range(end.out) \cup {last}
  <2>1. ranges = Append(end.out, last) BY DEF end
  <2> HIDE DEF last, ranges, T
  <2> QED BY <1>14, <1>15, <2>1, RangeAppended
<1>17. ASSUME NEW k \in 1 .. N PROVE \E r \in Range(ranges) : k \in r
  <2>1. CASE k >= end.from
    <3>1. k \in last BY <1>14, <2>1
    <3> QED BY <1>16, <3>1
  <2>2. CASE ~ (k >= end.from) BY <1>14, <1>16, <2>2
  <2> QED BY <2>1, <2>2
<1>18. ASSUME NEW r \in Range(ranges) PROVE \E a, b \in 1 .. N : r = a .. b /\ Group(seg, a, b)
  <2>1. CASE r = last BY <1>14, <1>15, <2>1
  <2>2. CASE r \in Range(end.out) BY <1>14, <2>2
  <2> QED BY <1>16, <2>1, <2>2
<1> HIDE DEF ranges
<1>19. GroupsOf(ranges, seg) BY <1>16, <1>17, <1>18 DEF GroupsOf
<1> QED BY <1>2, <1>19

\* The least and the greatest of finitely many numbers.
LEMMA LeastGreatest ==
    ASSUME NEW a \in Nat, NEW b \in Nat, a <= b, NEW f \in [a .. b -> Nat]
    PROVE LET S == {f[n] : n \in a .. b} IN
          /\ Min(S) \in Nat /\ Max(S) \in Nat
          /\ \A n \in a .. b : Min(S) <= f[n] /\ f[n] <= Max(S)
<1> DEFINE S == {f[n] : n \in a .. b}
           T == {x + 1 : x \in S}
<1>1. S \subseteq Nat /\ f[a] \in S OBVIOUS
<1>2. Min(S) \in S /\ \A x \in S : Min(S) <= x
  <2>1. T \in SUBSET (Nat \ {0}) /\ f[a] + 1 \in T BY <1>1
  <2>2. PICK m \in T : \A k \in T : m <= k
    <3> HIDE DEF T
    <3> QED BY <2>1, FirstOfInterval
  <2> HIDE DEF S
  <2>3. PICK x \in S : m = x + 1 OBVIOUS
  <2>4. ASSUME NEW y \in S PROVE x <= y
    <3>1. y + 1 \in T OBVIOUS
    <3>2. m <= y + 1 BY <2>2, <3>1
    <3> QED BY <1>1, <2>3, <3>2
  <2> QED BY <2>4 DEF Min
<1>3. Max(S) \in S /\ \A x \in S : x <= Max(S)
  <2> DEFINE G == {n \in a .. b : \E x \in S : \A k \in a .. n : f[k] <= x}
             P == {n \in 0 .. b : n < a \/ \E x \in S : \A k \in a .. n : f[k] <= x}
  <2>1. 0 \in P
    <3>1. CASE a = 0
      <4>1. \A k \in a .. 0 : f[k] <= f[a] BY <3>1
      <4> HIDE DEF S
      <4> QED BY <1>1, <4>1
    <3>2. CASE a # 0 BY <3>2
    <3> QED BY <3>1, <3>2
  <2>2. ASSUME NEW n \in 1 .. b, n - 1 \in P PROVE n \in P
    <3>1. CASE n < a BY <3>1
    <3>2. CASE n = a
      <4>1. \A k \in a .. n : f[k] <= f[a] BY <3>2
      <4> HIDE DEF S
      <4> QED BY <1>1, <4>1
    <3>3. CASE n > a
      <4>1. PICK x \in S : \A k \in a .. n - 1 : f[k] <= x
        <5>1. ~ (n - 1 < a) BY <3>3
        <5> HIDE DEF S
        <5> QED BY <2>2, <5>1
      <4>2. x \in Nat /\ f[n] \in Nat /\ f[n] \in S BY <1>1, <3>3
      <4>3. \A k \in a .. n : k = n \/ k \in a .. n - 1 OBVIOUS
      <4>4. \A k \in a .. n : f[k] \in Nat BY <3>3
      <4> HIDE DEF S
      <4>5. CASE f[n] <= x
        <5>1. \A k \in a .. n : f[k] <= x BY <4>1, <4>3, <4>5
        <5> QED BY <5>1
      <4>6. CASE ~ (f[n] <= x)
        <5>1. \A k \in a .. n : f[k] <= f[n] BY <4>1, <4>2, <4>3, <4>4, <4>6
        <5> QED BY <4>2, <5>1
      <4> QED BY <4>5, <4>6
    <3> QED BY <3>1, <3>2, <3>3
  <2>3. b \in P
    <3> HIDE DEF P
    <3>1. b \in 0 .. b OBVIOUS
    <3> QED BY <2>1, <2>2, <3>1, Upwards
  <2>4. PICK x \in S : \A k \in a .. b : f[k] <= x BY <2>3
  <2>5. \A y \in S : x >= y BY <1>1, <2>4
  <2> HIDE DEF S
  <2>6. Max(S) \in S /\ \A y \in S : Max(S) >= y BY <2>5 DEF Max
  <2> QED BY <1>1, <2>6
<1> QED BY <1>1, <1>2, <1>3

\* The entries of a segment are units under their headings.
EntryOf(e, m, us) ==
    /\ m \in 1 .. Len(us) /\ UnitOK(us[m]) /\ us[m].kind # "heading"
    /\ e.kind = us[m].kind /\ e.lines = us[m].lines /\ e.first = us[m].first
    /\ e.last = us[m].last /\ e.path = HeadingPaths(us)[m]
    /\ e.first \in Nat /\ e.last \in Nat /\ e.lines \subseteq Lines
    /\ e.path \in Seq(HeadingKinds) /\ e.path \in Seq(HeadingKinds \cup Nat)
    /\ \A i \in e.lines : e.first <= i /\ i <= e.last

\* All entries of a segment are, and once one has a heading those after it have one.
LEMMA SegmentEntries ==
    ASSUME TextOK, NEW us, DocUnits(us), NEW seg, NEW ix, SegmentOf(seg, ix, us)
    PROVE /\ \A k \in 1 .. Len(seg) : EntryOf(seg[k], ix[k], us)
          /\ \A j, k \in 1 .. Len(seg) : j <= k /\ seg[j].path # <<>> => seg[k].path # <<>>
<1>1. /\ seg \in Seq(PlacedSet) /\ ix \in [1 .. Len(seg) -> 1 .. Len(us)]
      /\ \A j, k \in 1 .. Len(seg) : j < k => ix[j] < ix[k]
      /\ \A k \in 1 .. Len(seg) : /\ seg[k] = Under(us[ix[k]], HeadingPaths(us)[ix[k]])
                                  /\ seg[k].kind # "heading"
    BY DEF SegmentOf
<1>2. ASSUME NEW k \in 1 .. Len(seg) PROVE EntryOf(seg[k], ix[k], us)
  <2> DEFINE m == ix[k]
             u == us[m]
             e == seg[k]
  <2>1. m \in 1 .. Len(us) /\ UnitOK(u) /\ u \in UnitSet BY <1>1 DEF DocUnits, UnitOK
  <2>2. e = Under(u, HeadingPaths(us)[m]) /\ e.kind # "heading" BY <1>1
  <2>3. HeadingPaths(us)[m] \in Seq(HeadingKinds) BY <2>1, PathsAre DEF PathsOK
  <2>4. HeadingPaths(us)[m] \in Seq(HeadingKinds \cup Nat) BY <2>3
  <2>5. Lines \subseteq Nat BY TextLines
  <2> HIDE DEF m, u, e
  <2>6. /\ e.kind = u.kind /\ e.lines = u.lines /\ e.first = u.first /\ e.last = u.last
        /\ e.path = HeadingPaths(us)[m]
      BY <2>2 DEF Under
  <2>7. u.first \in Nat /\ u.last \in Nat /\ u.lines \subseteq Lines BY <2>1, <2>5 DEF UnitSet
  <2>8. \A i \in u.lines : u.first <= i /\ i <= u.last BY <2>1 DEF UnitOK
  <2>9. EntryOf(e, m, us) BY <2>1, <2>2, <2>3, <2>4, <2>6, <2>7, <2>8 DEF EntryOf, u
  <2> QED BY <2>9 DEF e, m
<1>3. ASSUME NEW j \in 1 .. Len(seg), NEW k \in 1 .. Len(seg), j <= k, seg[j].path # <<>>
      PROVE seg[k].path # <<>>
  <2>1. ix[j] \in 1 .. Len(us) /\ ix[k] \in 1 .. Len(us) BY <1>1
  <2>2. seg[j].path = HeadingPaths(us)[ix[j]] /\ seg[k].path = HeadingPaths(us)[ix[k]]
      BY <1>2 DEF EntryOf
  <2>3. ix[j] <= ix[k] BY <1>1, <1>3, <2>1
  <2>4. PathsOK(us) BY PathsAre
  <2> QED BY <1>3, <2>1, <2>2, <2>3, <2>4 DEF PathsOK
<1> QED BY <1>2, <1>3

\* A chunk made of a group of texts.
LEMMA TextLeaf ==
    ASSUME TextOK, NEW us, DocUnits(us), NEW seg, NEW ix, SegmentOf(seg, ix, us),
           seg[1].kind = "text", NEW a, NEW b, Group(seg, a, b)
    PROVE /\ LeafOf(MakeDocChunk(seg, a .. b), us)
          /\ \A k \in a .. b : seg[k].lines \subseteq MakeDocChunk(seg, a .. b).lines
<1> DEFINE N == Len(seg)
           c == MakeDocChunk(seg, a .. b)
           ls == LinesOf(seg, a .. b)
           first == [n \in a .. b |-> seg[n].first]
           last == [n \in a .. b |-> seg[n].last]
           I == {ix[k] : k \in a .. b}
<1>1. /\ N \in Nat /\ a \in 1 .. N /\ b \in 1 .. N /\ a <= b /\ a .. b \subseteq 1 .. N
      /\ a \in a .. b /\ b \in a .. b
    BY DEF Group, SegmentOf
<1>2. \A k \in a .. b : EntryOf(seg[k], ix[k], us) BY <1>1, SegmentEntries
<1>3. \A k \in a .. b : seg[k].kind = "text" BY <1>1 DEF SegmentOf
<1>4. \A k \in a .. b : seg[k].path = seg[a].path BY DEF Group
<1> HIDE DEF N
<1>5. a \in Nat /\ b \in Nat BY <1>1
<1>6. first \in [a .. b -> Nat] /\ last \in [a .. b -> Nat] BY <1>2 DEF EntryOf
<1>7. /\ c.lines = ls /\ c.first = Min({seg[n].first : n \in a .. b})
      /\ c.last = Max({seg[n].last : n \in a .. b}) /\ c.path = seg[Min(a .. b)].path
      /\ c.of = {} /\ c.children = {}
      /\ c = [lines |-> c.lines, first |-> c.first, last |-> c.last, path |-> c.path,
              of |-> c.of, children |-> c.children]
    BY DEF MakeDocChunk, Chunk
<1>8. /\ {seg[n].first : n \in a .. b} = {first[n] : n \in a .. b}
      /\ {seg[n].last : n \in a .. b} = {last[n] : n \in a .. b}
    OBVIOUS
<1>9. \A n \in a .. b : first[n] = seg[n].first /\ last[n] = seg[n].last OBVIOUS
<1> HIDE DEF c, ls, first, last
<1>10. c.first \in Nat /\ \A n \in a .. b : c.first <= seg[n].first
  <2> DEFINE S == {first[n] : n \in a .. b}
  <2>1. Min(S) \in Nat /\ \A n \in a .. b : Min(S) <= first[n]
      BY <1>1, <1>5, <1>6, LeastGreatest
  <2> QED BY <1>7, <1>8, <1>9, <2>1
<1>11. c.last \in Nat /\ \A n \in a .. b : seg[n].last <= c.last
  <2> DEFINE S == {last[n] : n \in a .. b}
  <2>1. Max(S) \in Nat /\ \A n \in a .. b : last[n] <= Max(S)
      BY <1>1, <1>5, <1>6, LeastGreatest
  <2> QED BY <1>7, <1>8, <1>9, <2>1
<1>12. Min(a .. b) = a BY <1>1, <1>5, IntervalEnds
<1>13. c.path = seg[a].path /\ c.path \in Seq(HeadingKinds \cup Nat) BY <1>1, <1>2, <1>7, <1>12 DEF EntryOf
<1>14. \A k \in a .. b : seg[k].lines \subseteq ls BY DEF ls, LinesOf
<1>15. \A i \in ls : \E k \in a .. b : i \in seg[k].lines BY DEF ls, LinesOf
<1>16. ls \in SUBSET Lines BY <1>2, <1>15 DEF EntryOf
<1>17. c \in ChunkSet BY <1>7, <1>10, <1>11, <1>13, <1>16 DEF ChunkSet
<1>18. I \in SUBSET (1 .. Len(us)) /\ I # {} /\ ix[b] \in I BY <1>1, <1>2 DEF EntryOf
<1>19. c.lines \subseteq UNION {us[n].first .. us[n].last : n \in I}
  <2> SUFFICES ASSUME NEW i \in c.lines PROVE \E n \in I : i \in us[n].first .. us[n].last
      OBVIOUS
  <2>1. PICK k \in a .. b : i \in seg[k].lines BY <1>7, <1>15
  <2>2. EntryOf(seg[k], ix[k], us) BY <1>2
  <2>3. i \in Nat BY <2>1, <2>2, TextLines DEF EntryOf
  <2>4. i \in us[ix[k]].first .. us[ix[k]].last BY <2>1, <2>2, <2>3 DEF EntryOf
  <2> QED BY <2>4
<1>20. ASSUME NEW n \in I
       PROVE /\ us[n].kind # "heading" /\ HeadingPaths(us)[n] = c.path
             /\ c.first <= us[n].first /\ us[n].last <= c.last
             /\ us[n].kind = "table" => HeaderOf(us[n]) \subseteq c.lines
  <2>1. PICK k \in a .. b : n = ix[k] OBVIOUS
  <2>2. EntryOf(seg[k], n, us) /\ seg[k].kind = "text" BY <1>2, <1>3, <2>1
  <2>3. c.path = seg[k].path /\ c.first <= seg[k].first /\ seg[k].last <= c.last
      BY <1>4, <1>10, <1>11, <1>13
  <2> QED BY <2>2, <2>3 DEF EntryOf
<1>21. ASSUME Toks(c.lines) > ChunkMaxTokens PROVE Uncut(c, us[ix[b]])
  <2>1. EntryOf(seg[b], ix[b], us) /\ seg[b].kind = "text" BY <1>1, <1>2, <1>3
  <2>2. us[ix[b]].kind = "text" /\ us[ix[b]].lines = seg[b].lines BY <2>1 DEF EntryOf
  <2>3. ChunkMaxTokens \in Nat /\ OverlapTokens \in Nat BY TextLines
  <2> DEFINE rest == LinesOf(seg, a .. b - 1)
             more == c.lines \ us[ix[b]].lines
  <2>4. Toks(c.lines) \in Nat
    <3>1. c.lines \cap Lines \subseteq c.lines OBVIOUS
    <3> QED BY <3>1, ToksFewer
  <2>5. Toks(rest) <= OverlapTokens BY <1>7, <1>21, <2>3, <2>4 DEF Group, ls
  <2>6. more \cap Lines \subseteq rest
    <3> SUFFICES ASSUME NEW i \in more PROVE i \in rest
        OBVIOUS
    <3>1. PICK k \in a .. b : i \in seg[k].lines BY <1>7, <1>15
    <3>2. k # b BY <2>2, <3>1
    <3>3. k \in a .. b - 1 BY <1>1, <3>2
    <3> QED BY <3>1, <3>3 DEF LinesOf
  <2> HIDE DEF rest, more
  <2>7. Toks(more) \in Nat /\ Toks(rest) \in Nat /\ Toks(more) <= Toks(rest) BY <2>6, ToksFewer
  <2>8. Toks(more) <= OverlapTokens BY <2>3, <2>5, <2>7
  <2>9. us[ix[b]].lines \subseteq c.lines BY <1>1, <1>7, <1>14, <2>2
  <2> QED BY <2>2, <2>8, <2>9 DEF Uncut, more
<1> HIDE DEF I
<1>22. LeafOf(c, us) BY <1>7, <1>17, <1>18, <1>19, <1>20, <1>21 DEF LeafOf
<1> QED BY <1>7, <1>14, <1>22 DEF c

\* The chunks of a segment of text.
LEMMA TextChunks ==
    ASSUME TextOK, NEW us, DocUnits(us), NEW seg, NEW ix, SegmentOf(seg, ix, us),
           seg[1].kind = "text"
    PROVE ChunksOf(DocChunks(seg), seg, us)
<1> DEFINE cs == DocChunks(seg)
           N == Len(seg)
<1>1. seg \in Seq(PlacedSet) /\ N >= 1 /\ N \in Nat BY DEF SegmentOf
<1>2. \A j, k \in 1 .. Len(seg) : j <= k /\ seg[j].path # <<>> => seg[k].path # <<>>
    BY SegmentEntries
<1>3. PICK ranges : GroupsOf(ranges, seg) /\ cs = [m \in DOMAIN ranges |-> MakeDocChunk(seg, ranges[m])]
    BY <1>1, <1>2, DocGroups
<1> HIDE DEF cs, N
<1>4. /\ ranges \in Seq(SUBSET (1 .. N))
      /\ \A r \in Range(ranges) : \E a, b \in 1 .. N : r = a .. b /\ Group(seg, a, b)
      /\ \A k \in 1 .. N : \E r \in Range(ranges) : k \in r
    BY <1>3 DEF GroupsOf, N
<1> DEFINE R == Len(ranges)
<1>5. R \in Nat /\ DOMAIN ranges = 1 .. R /\ DOMAIN cs = 1 .. R BY <1>3, <1>4
<1> HIDE DEF R
<1>6. ASSUME NEW m \in 1 .. R
      PROVE /\ LeafOf(cs[m], us) /\ cs[m] \in ChunkSet
            /\ \A k \in ranges[m] : seg[k].lines \subseteq cs[m].lines
  <2>1. ranges[m] \in Range(ranges) BY <1>5 DEF Range
  <2>2. PICK a \in 1 .. N, b \in 1 .. N : ranges[m] = a .. b /\ Group(seg, a, b) BY <1>4, <2>1
  <2>3. cs[m] = MakeDocChunk(seg, a .. b) BY <1>3, <1>5, <2>2
  <2>4. /\ LeafOf(MakeDocChunk(seg, a .. b), us)
        /\ \A k \in a .. b : seg[k].lines \subseteq MakeDocChunk(seg, a .. b).lines
      BY <2>2, TextLeaf
  <2>5. LeafOf(cs[m], us) BY <2>3, <2>4
  <2>6. \A k \in a .. b : seg[k].lines \subseteq cs[m].lines BY <2>3, <2>4
  <2>7. cs[m] \in ChunkSet BY <2>5 DEF LeafOf
  <2> QED BY <2>2, <2>5, <2>6, <2>7
<1>7. cs \in Seq(ChunkSet)
  <2>1. cs = [m \in 1 .. R |-> cs[m]] BY <1>3, <1>5
  <2>2. cs \in [1 .. R -> ChunkSet] BY <1>6, <2>1
  <2> QED BY <1>5, <2>2
<1>8. \A c \in Range(cs) : LeafOf(c, us) BY <1>5, <1>6 DEF Range
<1>9. ASSUME NEW k \in 1 .. N, NEW i \in seg[k].lines PROVE \E c \in Range(cs) : i \in c.lines
  <2>1. PICK r \in Range(ranges) : k \in r BY <1>4
  <2>2. PICK m \in 1 .. R : r = ranges[m] BY <1>5 DEF Range
  <2>3. cs[m] \in Range(cs) BY <1>5 DEF Range
  <2> QED BY <1>6, <2>1, <2>2, <2>3
<1>10. ChunksOf(cs, seg, us) BY <1>7, <1>8, <1>9 DEF ChunksOf, N
<1> QED BY <1>10 DEF cs

\* A chunk of one unit alone.
LEMMA UnitLeaf ==
    ASSUME TextOK, NEW us, DocUnits(us), NEW e, NEW m, EntryOf(e, m, us),
           NEW ls, ls \subseteq Lines, ls \subseteq e.first .. e.last,
           e.kind = "table" => HeaderOf(e) \subseteq ls,
           Toks(ls) > ChunkMaxTokens =>
             Uncut(Chunk(ls, e.first, e.last, e.path, {}), us[m])
    PROVE LeafOf(Chunk(ls, e.first, e.last, e.path, {}), us)
<1> DEFINE c == Chunk(ls, e.first, e.last, e.path, {})
<1>1. /\ m \in 1 .. Len(us) /\ us[m].kind # "heading"
      /\ e.kind = us[m].kind /\ e.lines = us[m].lines /\ e.first = us[m].first
      /\ e.last = us[m].last /\ e.path = HeadingPaths(us)[m]
      /\ e.first \in Nat /\ e.last \in Nat /\ e.lines \subseteq Lines
      /\ e.path \in Seq(HeadingKinds \cup Nat)
    BY DEF EntryOf
<1>2. /\ c.lines = ls /\ c.first = e.first /\ c.last = e.last /\ c.path = e.path
      /\ c.of = {} /\ c.children = {}
      /\ c = [lines |-> ls, first |-> e.first, last |-> e.last, path |-> e.path,
              of |-> {}, children |-> {}]
    BY DEF Chunk
<1>3. c \in ChunkSet
  <2>1. ls \in SUBSET Lines OBVIOUS
  <2> QED BY <1>1, <1>2, <2>1 DEF ChunkSet
<1>h. HeaderOf(us[m]) = HeaderOf(e) BY <1>1 DEF HeaderOf
<1> HIDE DEF c
<1> DEFINE I == {m}
<1>4. I \in SUBSET (1 .. Len(us)) /\ I # {} BY <1>1
<1>5. c.lines \subseteq UNION {us[n].first .. us[n].last : n \in I} BY <1>1, <1>2
<1>6. \A n \in I : /\ us[n].kind # "heading" /\ HeadingPaths(us)[n] = c.path
                   /\ c.first <= us[n].first /\ us[n].last <= c.last
                   /\ us[n].kind = "table" => HeaderOf(us[n]) \subseteq c.lines
    BY <1>1, <1>2, <1>h
<1>7. Toks(c.lines) > ChunkMaxTokens => \E n \in I : Uncut(c, us[n]) BY <1>2 DEF c
<1> HIDE DEF I
<1>8. LeafOf(c, us) BY <1>2, <1>3, <1>4, <1>5, <1>6, <1>7 DEF LeafOf
<1> QED BY <1>8 DEF c

\* One chunk for each piece.
PieceSeq(g, a, b, path) == [n \in DOMAIN g |-> Chunk(g[n], a, b, path, {})]

\* Chunks of a document, one for each piece.
PieceList(cs, g, us) ==
    /\ cs \in Seq(ChunkSet)
    /\ \A c \in Range(cs) : LeafOf(c, us)
    /\ \A p \in Range(g) : \E c \in Range(cs) : c.lines = p

\* Pieces of a unit's lines are chunks of it, one each.
LEMMA PieceChunks ==
    ASSUME NEW g \in Seq(SUBSET Lines), NEW us, NEW a, NEW b, NEW path,
           \A p \in Range(g) : LeafOf(Chunk(p, a, b, path, {}), us)
    PROVE PieceList(PieceSeq(g, a, b, path), g, us)
<1> DEFINE cs == [n \in DOMAIN g |-> Chunk(g[n], a, b, path, {})]
           N == Len(g)
<1>1. N \in Nat /\ DOMAIN g = 1 .. N OBVIOUS
<1>2. DOMAIN cs = 1 .. N /\ \A n \in 1 .. N : cs[n] = Chunk(g[n], a, b, path, {}) BY <1>1
<1>3. cs = [n \in 1 .. N |-> cs[n]] BY <1>1
<1> HIDE DEF cs, N
<1>4. \A n \in 1 .. N : g[n] \in Range(g) BY <1>1 DEF Range
<1>5. \A n \in 1 .. N : LeafOf(cs[n], us) BY <1>2, <1>4
<1>6. \A n \in 1 .. N : cs[n] \in ChunkSet BY <1>5 DEF LeafOf
<1>7. cs \in [1 .. N -> ChunkSet] BY <1>3, <1>6
<1>8. cs \in Seq(ChunkSet) BY <1>1, <1>7
<1>9. \A c \in Range(cs) : LeafOf(c, us) BY <1>2, <1>5 DEF Range
<1>10. ASSUME NEW p \in Range(g) PROVE \E c \in Range(cs) : c.lines = p
  <2>1. PICK n \in 1 .. N : p = g[n] BY <1>1 DEF Range
  <2>2. cs[n] \in Range(cs) BY <1>2 DEF Range
  <2>3. cs[n].lines = p BY <1>2, <2>1 DEF Chunk
  <2> QED BY <2>2, <2>3
<1> QED BY <1>8, <1>9, <1>10 DEF cs, PieceSeq, PieceList

\* The rows of a table as blocks of one line each.
LEMMA RowsAre ==
    ASSUME TextOK, NEW ls, ls \subseteq Lines
    PROVE LET rows == Ascending(ls)
              bs == [n \in DOMAIN rows |-> {rows[n]}]
          IN  /\ bs \in Seq(SUBSET Lines)
              /\ \A b \in Range(bs) : \E i \in ls : b = {i}
              /\ \A i \in ls : {i} \in Range(bs)
<1> DEFINE rows == Ascending(ls)
           bs == [n \in DOMAIN rows |-> {rows[n]}]
           N == Cardinality(ls)
<1>1. Lines = 1 .. Len(text) /\ Len(text) \in Nat BY TextLines
<1>2. IsFiniteSet(ls) /\ ls \in SUBSET Int
  <2>1. IsFiniteSet(1 .. Len(text)) BY <1>1, FS_Interval
  <2>2. ls \subseteq 1 .. Len(text) BY <1>1
  <2>3. IsFiniteSet(ls) BY <2>1, <2>2, FS_Subset
  <2>4. ls \in SUBSET Int BY <1>1, <2>2
  <2> QED BY <2>3, <2>4
<1>3. N \in Nat /\ rows \in [1 .. N -> ls] /\ \A i \in ls : \E n \in 1 .. N : rows[n] = i
    BY <1>2, AscendingLists
<1> HIDE DEF rows, N
<1>4. DOMAIN bs = 1 .. N /\ \A n \in 1 .. N : bs[n] = {rows[n]} BY <1>3
<1>5. bs = [n \in 1 .. N |-> bs[n]] BY <1>3
<1> HIDE DEF bs
<1>6. \A n \in 1 .. N : bs[n] \in SUBSET Lines BY <1>3, <1>4
<1>7. bs \in [1 .. N -> SUBSET Lines] BY <1>5, <1>6
<1>8. bs \in Seq(SUBSET Lines) BY <1>3, <1>7
<1>9. \A b \in Range(bs) : \E i \in ls : b = {i} BY <1>3, <1>4 DEF Range
<1>10. \A i \in ls : {i} \in Range(bs) BY <1>3, <1>4 DEF Range
<1> QED BY <1>8, <1>9, <1>10 DEF bs, rows

\* The chunks of a table.
LEMMA TablePieces ==
    ASSUME TextOK, NEW us, DocUnits(us), NEW e, NEW m, EntryOf(e, m, us), e.kind = "table"
    PROVE /\ TableChunks(e) \in Seq(ChunkSet)
          /\ \A c \in Range(TableChunks(e)) : LeafOf(c, us)
          /\ \A i \in e.lines : \E c \in Range(TableChunks(e)) : i \in c.lines
<1> DEFINE base == HeaderOf(e)
           rows == Ascending(e.lines \ base)
           bs == [n \in DOMAIN rows |-> {rows[n]}]
           g == Greedy(base, bs)
<1>1. /\ UnitOK(us[m]) /\ us[m].kind = "table" /\ e.lines = us[m].lines
      /\ e.first = us[m].first /\ e.lines \subseteq Lines /\ e.first \in Nat
      /\ HeaderOf(us[m]) = HeaderOf(e)
    BY DEF EntryOf, HeaderOf
<1>2. base \subseteq e.lines /\ base \in SUBSET Lines BY <1>1 DEF UnitOK, HeaderOf
<1>r. e.lines \subseteq e.first .. e.last
  <2> SUFFICES ASSUME NEW i \in e.lines PROVE i \in e.first .. e.last
      OBVIOUS
  <2>1. i \in Nat BY <1>1, TextLines
  <2> QED BY <2>1 DEF EntryOf
<1>3. e.lines \ base \subseteq Lines BY <1>1
<1>4. /\ bs \in Seq(SUBSET Lines)
      /\ \A b \in Range(bs) : \E i \in e.lines \ base : b = {i}
      /\ \A i \in e.lines \ base : {i} \in Range(bs)
    BY <1>3, RowsAre
<1>5. base # {} BY DEF HeaderOf
<1>6. TableChunks(e) = [n \in DOMAIN g |-> Chunk(g[n], e.first, e.last, e.path, {})]
    BY DEF TableChunks
<1>b. base = HeaderOf(e) OBVIOUS
<1>c. e.first \in base BY DEF HeaderOf
<1> HIDE DEF bs, base
<1>7. \A b \in Range(bs) : b # {} BY <1>4
<1>8. PiecesOf(g, base, bs) BY <1>2, <1>4, <1>7, GreedyPieces
<1> HIDE DEF g
<1>9. /\ g \in Seq(SUBSET Lines)
      /\ \A p \in Range(g) : p # {} /\ PieceOf(p, base, bs)
      /\ \A b \in Range(bs) : \E p \in Range(g) : b \subseteq p
      /\ Range(g) # {}
    BY <1>5, <1>8 DEF PiecesOf
<1>10. ASSUME NEW p \in Range(g) PROVE LeafOf(Chunk(p, e.first, e.last, e.path, {}), us)
  <2> DEFINE c == Chunk(p, e.first, e.last, e.path, {})
  <2>1. PieceOf(p, base, bs) BY <1>9
  <2>2. base \subseteq p /\ p \subseteq base \cup UNION Range(bs) BY <2>1 DEF PieceOf
  <2>3. p \subseteq e.lines BY <1>2, <1>4, <2>2
  <2>4. c.lines = p BY DEF Chunk
  <2> HIDE DEF c
  <2>5. ASSUME Toks(p) > ChunkMaxTokens PROVE Uncut(c, us[m])
    <3>1. Toks(p) \in Nat /\ ChunkMaxTokens \in Nat
      <4>1. p \cap Lines \subseteq p OBVIOUS
      <4> QED BY <4>1, ToksFewer, TextLines
    <3>2. p = base \/ \E b \in Range(bs) : p = base \cup b BY <2>1, <2>5, <3>1 DEF PieceOf
    <3>3. \E i \in e.lines : p \subseteq base \cup {i}
      <4>1. CASE p = base BY <1>2, <1>c, <4>1
      <4>2. CASE \E b \in Range(bs) : p = base \cup b BY <1>4, <4>2
      <4> QED BY <3>2, <4>1, <4>2
    <3>4. \E i \in us[m].lines : c.lines \subseteq HeaderOf(us[m]) \cup {i}
        BY <1>1, <1>b, <2>4, <3>3
    <3> QED BY <1>1, <3>4 DEF Uncut
  <2>6. HeaderOf(e) \subseteq p /\ p \subseteq Lines /\ p \subseteq e.first .. e.last
      BY <1>1, <1>b, <1>r, <2>2, <2>3
  <2>7. Toks(p) > ChunkMaxTokens => Uncut(Chunk(p, e.first, e.last, e.path, {}), us[m])
      BY <2>5 DEF c
  <2> QED BY <2>6, <2>7, UnitLeaf
<1> DEFINE cs == PieceSeq(g, e.first, e.last, e.path)
<1>e. TableChunks(e) = cs BY <1>6 DEF PieceSeq
<1>p. PieceList(cs, g, us) BY <1>9, <1>10, PieceChunks
<1> HIDE DEF cs
<1>11. /\ cs \in Seq(ChunkSet) /\ \A c \in Range(cs) : LeafOf(c, us)
       /\ \A p \in Range(g) : \E c \in Range(cs) : c.lines = p
    BY <1>p DEF PieceList
<1>12. ASSUME NEW i \in e.lines PROVE \E p \in Range(g) : i \in p
  <2>1. CASE i \in base
    <3>1. PICK p : p \in Range(g) BY <1>9
    <3>2. base \subseteq p BY <1>9, <3>1 DEF PieceOf
    <3> QED BY <2>1, <3>1, <3>2
  <2>2. CASE i \notin base
    <3>1. {i} \in Range(bs) BY <1>4, <2>2
    <3> QED BY <1>9, <3>1
  <2> QED BY <2>1, <2>2
<1>13. \A i \in e.lines : \E c \in Range(cs) : i \in c.lines BY <1>11, <1>12
<1> QED BY <1>11, <1>13, <1>e

\* A block of lines that are not blank, over the budget, is a chunk that cannot be cut.
LEMMA BlockUncut ==
    ASSUME TextOK, type # "plsql", NEW u, u.kind = "code", NEW c, NEW b,
           c.lines = b, b # {}, b \subseteq u.first .. u.last,
           \E i, e \in Lines : b = i .. e, \A j \in b : ~Blank(j)
    PROVE Uncut(c, u)
<1>1. PICK i \in Lines : \E e \in Lines : b = i .. e OBVIOUS
<1>2. PICK e \in Lines : b = i .. e BY <1>1
<1>3. i \in Int /\ e \in Int BY TextLines
<1>4. i <= e BY <1>2, <1>3
<1>5. Min(b) = i /\ Max(b) = e BY <1>2, <1>3, <1>4, IntervalEnds
<1>6. c.lines = Min(c.lines) .. Max(c.lines) BY <1>2, <1>5
<1> QED BY <1>6 DEF Uncut

\* The code of a fenced block is within the lines of the block, and has its text.
LEMMA FencedCodeIs ==
    ASSUME TextOK, NEW us, NEW e, NEW m, EntryOf(e, m, us)
    PROVE /\ FencedCode(e) \subseteq Lines /\ FencedCode(e) \subseteq e.first .. e.last
          /\ \A i \in e.lines : Blank(i) \/ i \in FencedCode(e)
<1>1. /\ e.first \in Nat /\ e.last \in Nat /\ e.lines \subseteq Lines
      /\ \A i \in e.lines : e.first <= i /\ i <= e.last
    BY DEF EntryOf
<1>2. e.lines \subseteq e.first .. e.last
  <2> SUFFICES ASSUME NEW i \in e.lines PROVE i \in e.first .. e.last
      OBVIOUS
  <2>1. i \in Nat BY <1>1, TextLines
  <2> QED BY <1>1, <2>1
<1>3. CASE Cardinality(e.lines) <= 1 /\ AllBlank(e.lines)
  <2>1. FencedCode(e) = (e.first .. e.last) \cap Lines BY <1>3 DEF FencedCode
  <2> QED BY <1>3, <2>1 DEF AllBlank
<1>4. CASE ~ (Cardinality(e.lines) <= 1 /\ AllBlank(e.lines))
  <2>1. FencedCode(e) = e.lines BY <1>4 DEF FencedCode
  <2> QED BY <1>1, <1>2, <2>1
<1> QED BY <1>3, <1>4

\* The chunks of fenced code.
LEMMA FencePieces ==
    ASSUME TextOK, type # "plsql", NEW us, DocUnits(us), NEW e, NEW m, EntryOf(e, m, us),
           e.kind = "code"
    PROVE /\ FenceChunks(e) \in Seq(ChunkSet)
          /\ \A c \in Range(FenceChunks(e)) : LeafOf(c, us)
          /\ \A i \in e.lines : Blank(i) \/ \E c \in Range(FenceChunks(e)) : i \in c.lines
<1> DEFINE code == FencedCode(e)
<1>1. /\ us[m].kind = "code" /\ e.first = us[m].first /\ e.last = us[m].last
      /\ code \subseteq Lines /\ code \subseteq e.first .. e.last
      /\ \A i \in e.lines : Blank(i) \/ i \in code
    BY FencedCodeIs DEF EntryOf
<1>0. /\ AllBlank(code) => FenceChunks(e) = <<>>
      /\ ~AllBlank(code) /\ Toks(code) <= ChunkMaxTokens =>
           FenceChunks(e) = <<Chunk(code, e.first, e.last, e.path, {})>>
      /\ ~AllBlank(code) /\ ~ (Toks(code) <= ChunkMaxTokens) =>
           FenceChunks(e) = PieceSeq(Greedy({}, BlankBlocks(code)), e.first, e.last, e.path)
    BY DEF FenceChunks, PieceSeq
<1> HIDE DEF code
<1>2. CASE AllBlank(code)
  <2>1. FenceChunks(e) = <<>> BY <1>0, <1>2
  <2>2. <<>> \in Seq(ChunkSet) /\ Range(<<>>) = {} BY DEF Range
  <2> QED BY <1>1, <1>2, <2>1, <2>2 DEF AllBlank
<1>3. CASE ~AllBlank(code) /\ Toks(code) <= ChunkMaxTokens
  <2> DEFINE c == Chunk(code, e.first, e.last, e.path, {})
  <2>1. FenceChunks(e) = <<c>> BY <1>0, <1>3
  <2>2. LeafOf(c, us)
    <3>1. e.kind # "table" BY <1>1
    <3>2. code \subseteq Lines /\ code \subseteq e.first .. e.last BY <1>1
    <3>3. Toks(code) \in Nat /\ ChunkMaxTokens \in Nat
      <4>1. code \cap Lines \subseteq code OBVIOUS
      <4> QED BY <4>1, ToksFewer, TextLines
    <3>4. ~ (Toks(code) > ChunkMaxTokens) BY <1>3, <3>3
    <3> QED BY <3>1, <3>2, <3>4, UnitLeaf
  <2>3. c.lines = code BY DEF Chunk
  <2> HIDE DEF c
  <2>4. c \in ChunkSet BY <2>2 DEF LeafOf
  <2>5. <<c>> \in Seq(ChunkSet) /\ Range(<<c>>) = {c} BY <2>4 DEF Range
  <2> QED BY <1>1, <2>1, <2>2, <2>3, <2>5
<1>4. CASE ~AllBlank(code) /\ ~ (Toks(code) <= ChunkMaxTokens)
  <2> DEFINE bs == BlankBlocks(code)
             g == Greedy({}, bs)
             cs == PieceSeq(g, e.first, e.last, e.path)
  <2>1. FenceChunks(e) = cs BY <1>0, <1>4
  <2>2. BlocksOf(bs, code) BY <1>1, BlankBlocksAre
  <2> HIDE DEF bs
  <2>3. /\ bs \in Seq(SUBSET code)
        /\ \A b \in Range(bs) : b # {} /\ (\E i, k \in Lines : b = i .. k) /\ \A j \in b : ~Blank(j)
        /\ \A j \in code : ~Blank(j) => \E b \in Range(bs) : j \in b
      BY <2>2 DEF BlocksOf
  <2>4. bs \in Seq(SUBSET Lines)
    <3>1. SUBSET code \subseteq SUBSET Lines BY <1>1
    <3> QED BY <2>3, <3>1
  <2>5. \A b \in Range(bs) : b \subseteq code BY <2>3 DEF Range
  <2>6. {} \in SUBSET Lines OBVIOUS
  <2>7. \A b \in Range(bs) : b # {} BY <2>3
  <2>8. PiecesOf(g, {}, bs) BY <2>4, <2>6, <2>7, GreedyPieces
  <2> HIDE DEF g
  <2>9. /\ g \in Seq(SUBSET Lines) /\ \A p \in Range(g) : p # {} /\ PieceOf(p, {}, bs)
        /\ \A b \in Range(bs) : \E p \in Range(g) : b \subseteq p
      BY <2>8 DEF PiecesOf
  <2>10. ASSUME NEW p \in Range(g) PROVE LeafOf(Chunk(p, e.first, e.last, e.path, {}), us)
    <3> DEFINE c == Chunk(p, e.first, e.last, e.path, {})
    <3>1. p # {} /\ PieceOf(p, {}, bs) BY <2>9
    <3>2. p \subseteq UNION Range(bs) BY <3>1 DEF PieceOf
    <3>3. p \subseteq Lines /\ p \subseteq e.first .. e.last BY <1>1, <2>5, <3>2
    <3>r. p \subseteq us[m].first .. us[m].last BY <1>1, <3>3
    <3>4. c.lines = p BY DEF Chunk
    <3> HIDE DEF c
    <3>5. ASSUME Toks(p) > ChunkMaxTokens PROVE Uncut(c, us[m])
      <4>1. Toks(p) \in Nat /\ ChunkMaxTokens \in Nat
        <5>1. p \cap Lines \subseteq p OBVIOUS
        <5> QED BY <5>1, ToksFewer, TextLines
      <4>2. \E b \in Range(bs) : p = {} \cup b BY <3>1, <3>5, <4>1 DEF PieceOf
      <4>3. p \in Range(bs) BY <4>2
      <4>4. (\E i, k \in Lines : p = i .. k) /\ \A j \in p : ~Blank(j) BY <2>3, <4>3
      <4> QED BY <1>1, <3>1, <3>r, <3>4, <4>4, BlockUncut
    <3>6. Toks(p) > ChunkMaxTokens => Uncut(Chunk(p, e.first, e.last, e.path, {}), us[m])
        BY <3>5 DEF c
    <3>7. e.kind # "table" OBVIOUS
    <3> QED BY <3>3, <3>6, <3>7, UnitLeaf
  <2>11. PieceList(cs, g, us) BY <2>9, <2>10, PieceChunks
  <2> HIDE DEF cs
  <2>12. /\ cs \in Seq(ChunkSet) /\ \A c \in Range(cs) : LeafOf(c, us)
         /\ \A p \in Range(g) : \E c \in Range(cs) : c.lines = p
      BY <2>11 DEF PieceList
  <2>13. ASSUME NEW i \in code, ~Blank(i) PROVE \E c \in Range(cs) : i \in c.lines
    <3>1. PICK b \in Range(bs) : i \in b BY <2>3, <2>13
    <3>2. PICK p \in Range(g) : b \subseteq p BY <2>9
    <3> QED BY <2>12, <3>1, <3>2
  <2> QED BY <1>1, <2>1, <2>12, <2>13
<1> QED BY <1>2, <1>3, <1>4

\* The chunks of a segment.
LEMMA SegmentPieces ==
    ASSUME TextOK, type # "plsql", NEW us, DocUnits(us), NEW seg, NEW ix, SegmentOf(seg, ix, us)
    PROVE ChunksOf(SegmentChunks(seg), seg, us)
<1> DEFINE e == seg[1]
<1>1. Len(seg) \in Nat /\ Len(seg) >= 1 /\ 1 \in 1 .. Len(seg) BY DEF SegmentOf
<1>2. EntryOf(e, ix[1], us) BY <1>1, SegmentEntries
<1>3. CASE e.kind = "text"
  <2>1. SegmentChunks(seg) = DocChunks(seg) BY <1>3 DEF SegmentChunks
  <2> QED BY <1>3, <2>1, TextChunks
<1>4. CASE e.kind # "text"
  <2>1. Len(seg) = 1 BY <1>4 DEF SegmentOf
  <2>2. \A k \in 1 .. Len(seg) : seg[k] = e BY <2>1
  <2>3. e.kind \in {"table", "code"}
    <3>1. /\ e.kind = us[ix[1]].kind /\ UnitOK(us[ix[1]]) /\ us[ix[1]].kind # "heading"
        BY <1>2 DEF EntryOf
    <3> QED BY <1>4, <3>1 DEF UnitOK, UnitSet
  <2> HIDE DEF e
  <2>4. ASSUME NEW cs, cs \in Seq(ChunkSet), \A c \in Range(cs) : LeafOf(c, us),
               \A i \in e.lines : Blank(i) \/ \E c \in Range(cs) : i \in c.lines
        PROVE ChunksOf(cs, seg, us)
      BY <2>2, <2>4 DEF ChunksOf
  <2>5. CASE e.kind = "table"
    <3>1. SegmentChunks(seg) = TableChunks(e) BY <2>5 DEF SegmentChunks, e
    <3>2. /\ TableChunks(e) \in Seq(ChunkSet)
          /\ \A c \in Range(TableChunks(e)) : LeafOf(c, us)
          /\ \A i \in e.lines : \E c \in Range(TableChunks(e)) : i \in c.lines
        BY <1>2, <2>5, TablePieces
    <3> QED BY <2>4, <3>1, <3>2
  <2>6. CASE e.kind = "code"
    <3>1. SegmentChunks(seg) = FenceChunks(e) BY <2>6 DEF SegmentChunks, e
    <3>2. /\ FenceChunks(e) \in Seq(ChunkSet)
          /\ \A c \in Range(FenceChunks(e)) : LeafOf(c, us)
          /\ \A i \in e.lines : Blank(i) \/ \E c \in Range(FenceChunks(e)) : i \in c.lines
        BY <1>2, <2>6, FencePieces
    <3> QED BY <2>4, <3>1, <3>2
  <2> QED BY <2>3, <2>5, <2>6
<1> QED BY <1>3, <1>4

\* The leaves of a document hold all of its text.
LeavesOf(cs, us) ==
    /\ cs \in Seq(ChunkSet) /\ \A c \in Range(cs) : LeafOf(c, us)
    /\ \A i \in Lines : text[i] \notin {"blank", "fence", "h1", "h1b", "h2"} =>
         \E c \in Range(cs) : i \in c.lines

\* The leaves of a document, segment by segment.
DocumentLeaves(us) ==
    LET segs == Segments(Placed(us))
    IN  FlattenSeq([n \in DOMAIN segs |-> SegmentChunks(segs[n])])
\* The segments together leave out no text.
LEMMA DocumentLeavesAre ==
    ASSUME TextOK, type # "plsql", NEW us, DocUnits(us)
    PROVE LeavesOf(DocumentLeaves(us), us)
<1> DEFINE segs == Segments(Placed(us))
           N == Len(segs)
           ss == [n \in DOMAIN segs |-> SegmentChunks(segs[n])]
           cs == DocumentLeaves(us)
<1>1. SegmentsOf(segs, us) BY SegmentsAre
<1>2. cs = FlattenSeq(ss) BY DEF DocumentLeaves
<1> HIDE DEF segs, cs
<1>3. segs \in Seq(Seq(PlacedSet)) /\ N \in Nat /\ DOMAIN segs = 1 .. N BY <1>1 DEF SegmentsOf
<1> HIDE DEF N
<1>4. ASSUME NEW n \in 1 .. N PROVE ChunksOf(SegmentChunks(segs[n]), segs[n], us)
  <2>1. PICK ix : SegmentOf(segs[n], ix, us) BY <1>1 DEF SegmentsOf, N
  <2> QED BY <2>1, SegmentPieces
<1>5. \A n \in 1 .. N : SegmentChunks(segs[n]) \in Seq(ChunkSet) BY <1>4 DEF ChunksOf
<1>6. ss \in [1 .. N -> Seq(ChunkSet)] BY <1>3, <1>5
<1>7. \A n \in 1 .. N : ss[n] = SegmentChunks(segs[n]) BY <1>3
<1> HIDE DEF ss
<1>8. cs \in Seq(ChunkSet) /\ Range(cs) = UNION {Range(ss[n]) : n \in 1 .. N}
    BY <1>2, <1>3, <1>6, FlatRange
<1>9. ASSUME NEW c \in Range(cs) PROVE LeafOf(c, us)
  <2>1. PICK n \in 1 .. N : c \in Range(ss[n]) BY <1>8
  <2> QED BY <1>4, <1>7, <2>1 DEF ChunksOf
<1>10. ASSUME NEW i \in Lines, text[i] \notin {"blank", "fence", "h1", "h1b", "h2"}
       PROVE \E c \in Range(cs) : i \in c.lines
  <2>1. PICK m \in 1 .. Len(us) : us[m].kind # "heading" /\ i \in us[m].lines
      BY <1>10 DEF DocUnits
  <2>2. PICK n \in 1 .. N : \E k \in 1 .. Len(segs[n]) :
          segs[n][k] = Under(us[m], HeadingPaths(us)[m])
      BY <1>1, <2>1 DEF SegmentsOf, N
  <2>3. PICK k \in 1 .. Len(segs[n]) : segs[n][k] = Under(us[m], HeadingPaths(us)[m]) BY <2>2
  <2>4. i \in segs[n][k].lines BY <2>1, <2>3 DEF Under
  <2>5. ~Blank(i) BY <1>10 DEF Blank
  <2>6. PICK c \in Range(ss[n]) : i \in c.lines BY <1>4, <1>7, <2>4, <2>5 DEF ChunksOf
  <2> QED BY <1>8, <2>6
<1>11. LeavesOf(cs, us) BY <1>8, <1>9, <1>10 DEF LeavesOf
<1> QED BY <1>11 DEF cs
-----------------------------------------------------------------------------
(***************************************************************************)
(* Parents                                                                 *)
(***************************************************************************)

\* The tokens of chunks are a number.
LEMMA ChildToksNat ==
    ASSUME TextOK, NEW cs \in Seq(ChunkSet), NEW I
    PROVE /\ [n \in DOMAIN cs |-> Toks(cs[n].lines)] \in [1 .. Len(cs) -> Nat]
          /\ ChildToks(cs, I) \in Nat
<1> DEFINE cost == [n \in DOMAIN cs |-> Toks(cs[n].lines)]
<1>1. Len(cs) \in Nat /\ DOMAIN cs = 1 .. Len(cs) OBVIOUS
<1>2. ASSUME NEW ls PROVE Toks(ls) \in Nat
  <2>1. ls \cap Lines \subseteq ls OBVIOUS
  <2> QED BY <2>1, ToksFewer
<1>3. cost \in [1 .. Len(cs) -> Nat] BY <1>1, <1>2
<1>4. ChildToks(cs, I) = SumOver(cost, I) BY DEF ChildToks
<1> HIDE DEF cost
<1>5. SumOver(cost, I) \in Nat BY <1>1, <1>3, SumAdds
<1> QED BY <1>3, <1>4, <1>5 DEF cost

\* Consecutive chunks a .. b of one section, within the budget of a parent or a single one.
Bucket(cs, a, b) ==
    /\ a \in 1 .. Len(cs) /\ b \in 1 .. Len(cs) /\ a <= b
    /\ \A k \in a .. b : cs[k].path = cs[a].path
    /\ a = b \/ ChildToks(cs, a .. b) <= ParentMaxTokens

\* Buckets are such runs, and no two overlap.
BucketsOK(bs, cs) ==
    /\ bs \in Seq(SUBSET (1 .. Len(cs)))
    /\ \A r \in Range(bs) : \E a, b \in 1 .. Len(cs) : r = a .. b /\ Bucket(cs, a, b)
    /\ \A r, s \in Range(bs) : r = s \/ r \cap s = {}

\* The state of the loop over chunks after n of them.
BucketsAt(st, cs, n) ==
    /\ st \in [out : Seq(SUBSET (1 .. Len(cs))), from : 1 .. Len(cs)]
    /\ n = 0 => st.from = 1
    /\ n > 0 => Bucket(cs, st.from, n)
    /\ BucketsOK(st.out, cs)
    /\ \A r \in Range(st.out) : \A k \in r : k < st.from
    /\ \A k \in 1 .. n : k >= st.from \/ \E r \in Range(st.out) : k \in r

\* A bucket after the others.
LEMMA BucketAppended ==
    ASSUME NEW cs \in Seq(ChunkSet), NEW out, BucketsOK(out, cs), NEW a, NEW b,
           Bucket(cs, a, b), \A r \in Range(out) : \A k \in r : k < a
    PROVE /\ BucketsOK(Append(out, a .. b), cs)
          /\ Range(Append(out, a .. b)) = Range(out) \cup {a .. b}
<1> DEFINE N == Len(cs)
           T == SUBSET (1 .. N)
           new == Append(out, a .. b)
<1>1. N \in Nat OBVIOUS
<1> HIDE DEF N
<1>2. /\ out \in Seq(T)
      /\ \A r \in Range(out) : \E x, y \in 1 .. N : r = x .. y /\ Bucket(cs, x, y)
      /\ \A r, s \in Range(out) : r = s \/ r \cap s = {}
    BY DEF BucketsOK, N
<1>3. a \in 1 .. N /\ b \in 1 .. N BY DEF Bucket, N
<1>4. a .. b \in T BY <1>1, <1>3
<1>5. new \in Seq(T) /\ Range(new) = Range(out) \cup {a .. b}
  <2> HIDE DEF T
  <2> QED BY <1>2, <1>4, RangeAppended
<1>6. \A r \in Range(out) : r \cap (a .. b) = {}
  <2> SUFFICES ASSUME NEW r \in Range(out), NEW k \in r, k \in a .. b PROVE FALSE
      OBVIOUS
  <2>1. k < a /\ a <= k BY <1>3
  <2>2. k \in Int /\ a \in Int BY <1>3
  <2> QED BY <2>1, <2>2
<1> HIDE DEF new
<1>7. \A r \in Range(new) : \E x, y \in 1 .. N : r = x .. y /\ Bucket(cs, x, y)
    BY <1>2, <1>3, <1>5
<1>8. ASSUME NEW r \in Range(new), NEW s \in Range(new) PROVE r = s \/ r \cap s = {}
  <2>1. CASE r \in Range(out) /\ s \in Range(out) BY <1>2, <2>1
  <2>2. CASE r \in Range(out) /\ s = a .. b BY <1>6, <2>2
  <2>3. CASE s \in Range(out) /\ r = a .. b
    <3>1. s \cap (a .. b) = {} BY <1>6, <2>3
    <3> QED BY <2>3, <3>1
  <2>4. CASE r = a .. b /\ s = a .. b BY <2>4
  <2> QED BY <1>5, <2>1, <2>2, <2>3, <2>4
<1> QED BY <1>5, <1>7, <1>8 DEF BucketsOK, new, N

\* A chunk more.
LEMMA AddChildKeeps ==
    ASSUME TextOK, NEW cs \in Seq(ChunkSet), NEW n \in 1 .. Len(cs), NEW st,
           BucketsAt(st, cs, n - 1)
    PROVE BucketsAt(AddChild(cs, st, n), cs, n)
<1> DEFINE N == Len(cs)
           T == SUBSET (1 .. N)
           bucket == st.from .. n - 1
           cut == bucket # {} /\ (cs[n].path # cs[n - 1].path
                                  \/ ChildToks(cs, st.from .. n) > ParentMaxTokens)
           new == AddChild(cs, st, n)
<1>1. N \in Nat /\ n \in 1 .. N /\ n \in Nat \ {0} OBVIOUS
<1> HIDE DEF N
<1>2. /\ st \in [out : Seq(T), from : 1 .. N]
      /\ n - 1 = 0 => st.from = 1
      /\ n - 1 > 0 => Bucket(cs, st.from, n - 1)
      /\ BucketsOK(st.out, cs)
      /\ \A r \in Range(st.out) : \A k \in r : k < st.from
      /\ \A k \in 1 .. n - 1 : k >= st.from \/ \E r \in Range(st.out) : k \in r
    BY DEF BucketsAt, N
<1>3. st.from \in 1 .. N /\ st.out \in Seq(T) /\ st.from \in Nat \ {0} BY <1>2
<1>4. st.from <= n
  <2>1. CASE n = 1 BY <1>2, <2>1
  <2>2. CASE n # 1
    <3>1. n - 1 > 0 BY <1>1, <2>2
    <3> QED BY <1>1, <1>2, <1>3, <3>1 DEF Bucket
  <2> QED BY <2>1, <2>2
<1>5. bucket # {} => Bucket(cs, st.from, n - 1)
  <2> SUFFICES ASSUME bucket # {} PROVE Bucket(cs, st.from, n - 1)
      OBVIOUS
  <2>1. n - 1 > 0 BY <1>1, <1>3
  <2> QED BY <1>2, <2>1
<1>6. \A k \in 1 .. n : k = n \/ k \in 1 .. n - 1 BY <1>1
<1>7. ParentMaxTokens \in Nat /\ ChildToks(cs, st.from .. n) \in Nat BY TextLines, ChildToksNat
<1>8. Bucket(cs, n, n)
  <2>1. \A k \in n .. n : k = n BY <1>1
  <2> QED BY <1>1, <2>1 DEF Bucket, N
<1>9. CASE cut
  <2>1. new = [out |-> Append(st.out, bucket), from |-> n] BY <1>9 DEF AddChild
  <2>2. Bucket(cs, st.from, n - 1) BY <1>5, <1>9
  <2>3. new.out = Append(st.out, bucket) /\ new.from = n BY <2>1
  <2>4. BucketsOK(new.out, cs) /\ Range(new.out) = Range(st.out) \cup {bucket}
      BY <1>2, <2>2, <2>3, BucketAppended
  <2>5. new \in [out : Seq(T), from : 1 .. N]
    <3>1. new.out \in Seq(T) BY <2>4 DEF BucketsOK, N
    <3> HIDE DEF T
    <3> QED BY <1>1, <2>1, <2>3, <3>1
  <2> HIDE DEF new
  <2>6. ASSUME NEW r \in Range(new.out), NEW k \in r PROVE k < n
    <3>1. CASE r = bucket BY <1>1, <1>3, <3>1
    <3>2. CASE r \in Range(st.out)
      <4>1. k < st.from BY <1>2, <3>2
      <4>2. k \in 1 .. N
        <5>1. PICK x \in 1 .. N, y \in 1 .. N : r = x .. y BY <1>2, <3>2 DEF BucketsOK, N
        <5> QED BY <1>1, <5>1
      <4> QED BY <1>1, <1>3, <1>4, <4>1, <4>2
    <3> QED BY <2>4, <3>1, <3>2
  <2>7. ASSUME NEW k \in 1 .. n PROVE k >= n \/ \E r \in Range(new.out) : k \in r
    <3>1. CASE k = n BY <1>1, <3>1
    <3>2. CASE k # n
      <4>1. k \in 1 .. n - 1 BY <1>6, <3>2
      <4>2. CASE k >= st.from
        <5>1. k \in bucket BY <1>3, <4>1, <4>2
        <5> QED BY <2>4, <5>1
      <4>3. CASE ~ (k >= st.from) BY <1>2, <2>4, <4>1, <4>3
      <4> QED BY <4>2, <4>3
    <3> QED BY <3>1, <3>2
  <2>8. BucketsAt(new, cs, n) BY <1>1, <1>8, <2>3, <2>4, <2>5, <2>6, <2>7 DEF BucketsAt, N
  <2> QED BY <2>8 DEF new
<1>10. CASE ~cut
  <2>1. new = st BY <1>10 DEF AddChild
  <2> HIDE DEF new
  <2>2. Bucket(cs, st.from, n)
    <3>1. CASE bucket = {}
      <4>1. st.from = n BY <1>1, <1>3, <1>4, <3>1
      <4> QED BY <1>8, <4>1
    <3>2. CASE bucket # {}
      <4>1. Bucket(cs, st.from, n - 1) BY <1>5, <3>2
      <4>2. /\ \A k \in st.from .. n - 1 : cs[k].path = cs[st.from].path
            /\ st.from <= n - 1
          BY <4>1 DEF Bucket
      <4>3. cs[n].path = cs[n - 1].path /\ ~ (ChildToks(cs, st.from .. n) > ParentMaxTokens)
          BY <1>10, <3>2
      <4>4. ChildToks(cs, st.from .. n) <= ParentMaxTokens BY <1>7, <4>3
      <4>5. cs[n].path = cs[st.from].path
        <5>1. n - 1 \in st.from .. n - 1 BY <1>1, <1>3, <4>2
        <5> QED BY <4>2, <4>3, <5>1
      <4>6. \A k \in st.from .. n : cs[k].path = cs[st.from].path
        <5>1. \A k \in st.from .. n : k = n \/ k \in st.from .. n - 1 BY <1>1, <1>3
        <5> QED BY <4>2, <4>5, <5>1
      <4> QED BY <1>1, <1>3, <1>4, <4>4, <4>6 DEF Bucket, N
    <3> QED BY <3>1, <3>2
  <2>3. \A k \in 1 .. n : k >= st.from \/ \E r \in Range(st.out) : k \in r
    <3>1. n >= st.from BY <1>4, <1>3, <1>1
    <3> QED BY <1>2, <1>6, <3>1
  <2> QED BY <1>1, <1>2, <2>1, <2>2, <2>3 DEF BucketsAt, new, N
<1> QED BY <1>9, <1>10

\* Every chunk is in a bucket, and in one only.
BucketsOf(bs, cs) ==
    /\ BucketsOK(bs, cs)
    /\ \A k \in 1 .. Len(cs) : \E r \in Range(bs) : k \in r

\* What _attach_parents puts together.
LEMMA ChildBucketsAre ==
    ASSUME TextOK, NEW cs \in Seq(ChunkSet)
    PROVE BucketsOf(ChildBuckets(cs), cs)
<1> DEFINE N == Len(cs)
           T == SUBSET (1 .. N)
           X == [out : Seq(T), from : 1 .. N]
           start == [out |-> <<>>, from |-> 1]
           step == [p \in X \X (1 .. N) |-> AddChild(cs, p[1], p[2])]
           read[n \in 0 .. N] == IF n = 0 THEN start ELSE AddChild(cs, read[n - 1], n)
           bs == Append(read[N].out, read[N].from .. N)
<1>1. CASE cs = <<>>
  <2>1. ChildBuckets(cs) = <<>> BY <1>1 DEF ChildBuckets
  <2>2. Range(<<>>) = {} /\ 1 .. Len(cs) = {} /\ <<>> \in Seq(T) BY <1>1 DEF Range
  <2> QED BY <2>1, <2>2 DEF BucketsOf, BucketsOK
<1>2. CASE cs # <<>>
  <2>1. ChildBuckets(cs) = bs BY <1>2 DEF ChildBuckets
  <2>2. N \in Nat /\ N >= 1 BY <1>2
  <2> HIDE DEF N
  <2>3. start \in X BY <2>2
  <2> HIDE DEF start
  <2>4. ASSUME NEW x \in X, NEW n \in 1 .. N PROVE AddChild(cs, x, n) \in X
    <3> DEFINE bucket == x.from .. n - 1
               cut == bucket # {} /\ (cs[n].path # cs[n - 1].path
                                      \/ ChildToks(cs, x.from .. n) > ParentMaxTokens)
    <3>1. x.from \in 1 .. N /\ x.out \in Seq(T) OBVIOUS
    <3>2. CASE cut
      <4>1. AddChild(cs, x, n) = [out |-> Append(x.out, bucket), from |-> n]
          BY <3>2 DEF AddChild
      <4>2. bucket \in T BY <2>2, <3>1
      <4>3. Append(x.out, bucket) \in Seq(T)
        <5> HIDE DEF bucket, T
        <5> QED BY <3>1, <4>2
      <4> HIDE DEF bucket
      <4> QED BY <4>1, <4>3
    <3>3. CASE ~cut BY <3>3 DEF AddChild
    <3> QED BY <3>2, <3>3
  <2>5. step \in [X \X (1 .. N) -> X] BY <2>4
  <2>6. PICK f \in [0 .. N -> X] : /\ f[0] = start
                                   /\ \A n \in 1 .. N : f[n] = step[<<f[n - 1], n>>]
    <3> HIDE DEF step, X
    <3>1. N \in Nat BY <2>2
    <3>2. \E f : Run(f, N, X, start, step) BY <3>1, <2>3, <2>5, LoopRuns
    <3> QED BY <3>2 DEF Run
  <2>7. \A n \in 1 .. N : f[n] = AddChild(cs, f[n - 1], n)
    <3> SUFFICES ASSUME NEW n \in 1 .. N PROVE f[n] = AddChild(cs, f[n - 1], n)
        OBVIOUS
    <3> HIDE DEF X
    <3>1. n - 1 \in 0 .. N BY <2>2
    <3>2. f[n - 1] \in X BY <2>6, <3>1
    <3> QED BY <2>6, <3>1, <3>2
  <2>8. f = [n \in 0 .. N |-> IF n = 0 THEN start ELSE AddChild(cs, f[n - 1], n)]
    <3> HIDE DEF X
    <3> QED BY <2>2, <2>6, <2>7
  <2>9. read = [n \in 0 .. N |-> IF n = 0 THEN start ELSE AddChild(cs, read[n - 1], n)]
      BY <2>8
  <2> HIDE DEF read, step
  <2>10. read[0] = start /\ \A n \in 1 .. N : read[n] = AddChild(cs, read[n - 1], n)
    <3>1. 0 \in 0 .. N /\ \A n \in 1 .. N : n \in 0 .. N /\ n # 0 BY <2>2
    <3> HIDE DEF X
    <3>2. read[0] = start BY <2>9, <3>1
    <3>3. ASSUME NEW n \in 1 .. N PROVE read[n] = AddChild(cs, read[n - 1], n)
        BY <2>9, <3>1
    <3> QED BY <3>2, <3>3
  <2> DEFINE S == {n \in 0 .. N : BucketsAt(read[n], cs, n)}
  <2>11. 0 \in S
    <3>1. start.out = <<>> /\ start.from = 1 /\ Range(start.out) = {} BY DEF start, Range
    <3>2. \A k \in 1 .. 0 : FALSE OBVIOUS
    <3>3. BucketsOK(start.out, cs)
      <4>1. start.out \in Seq(T) BY <3>1
      <4> HIDE DEF start
      <4> QED BY <3>1, <4>1 DEF BucketsOK, N
    <3>4. BucketsAt(start, cs, 0) BY <2>3, <3>1, <3>2, <3>3 DEF BucketsAt, N
    <3>5. 0 \in 0 .. N BY <2>2
    <3> QED BY <2>10, <3>4, <3>5
  <2>12. ASSUME NEW n \in 1 .. N, n - 1 \in S PROVE n \in S
    <3>1. BucketsAt(read[n - 1], cs, n - 1) BY <2>12
    <3>2. BucketsAt(AddChild(cs, read[n - 1], n), cs, n)
      <4>1. n \in 1 .. Len(cs) BY DEF N
      <4> HIDE DEF S
      <4> QED BY <3>1, <4>1, AddChildKeeps
    <3>3. n \in 0 .. N BY <2>2
    <3> QED BY <2>10, <3>2, <3>3
  <2>13. BucketsAt(read[N], cs, N)
    <3>1. N \in S
      <4> HIDE DEF S
      <4>1. N \in Nat /\ N \in 0 .. N BY <2>2
      <4> QED BY <4>1, <2>11, <2>12, Upwards
    <3> QED BY <3>1
  <2> HIDE DEF S
  <2> DEFINE end == read[N]
             last == end.from .. N
  <2>14. /\ end.from \in 1 .. N /\ Bucket(cs, end.from, N) /\ BucketsOK(end.out, cs)
         /\ \A r \in Range(end.out) : \A k \in r : k < end.from
         /\ \A k \in 1 .. N : k >= end.from \/ \E r \in Range(end.out) : k \in r
      BY <2>2, <2>13 DEF BucketsAt, N
  <2> HIDE DEF end
  <2>15. BucketsOK(bs, cs) /\ Range(bs) = Range(end.out) \cup {last}
    <3>1. bs = Append(end.out, last) BY DEF end
    <3> HIDE DEF bs
    <3> QED BY <2>14, <3>1, BucketAppended
  <2>16. ASSUME NEW k \in 1 .. N PROVE \E r \in Range(bs) : k \in r
    <3>1. CASE k >= end.from
      <4>1. k \in last BY <2>14, <3>1
      <4> QED BY <2>15, <4>1
    <3>2. CASE ~ (k >= end.from) BY <2>14, <2>15, <3>2
    <3> QED BY <3>1, <3>2
  <2> HIDE DEF bs
  <2>17. BucketsOf(bs, cs) BY <2>15, <2>16 DEF BucketsOf, N
  <2> QED BY <2>1, <2>17
<1> QED BY <1>1, <1>2

\* The parent of a bucket.
ParentRecord(cs, b) ==
    [lines |-> UNION {cs[n].lines : n \in b}, first |-> Min({cs[n].first : n \in b}),
     last |-> Max({cs[n].last : n \in b}), path |-> cs[Min(b)].path,
     of |-> {}, children |-> b]

\* A parent has the text of the children a .. b, their section, and lines around theirs.
ParentOf(p, cs, a, b) ==
    /\ Bucket(cs, a, b) /\ p \in ChunkSet /\ p.children = a .. b
    /\ p.lines = UNION {cs[n].lines : n \in a .. b} /\ p.path = cs[a].path
    /\ \A n \in a .. b : p.first <= cs[n].first /\ cs[n].last <= p.last

\* The parent of a bucket is such a chunk.
LEMMA ParentRecordIs ==
    ASSUME NEW cs \in Seq(ChunkSet), NEW a, NEW b, Bucket(cs, a, b)
    PROVE ParentOf(ParentRecord(cs, a .. b), cs, a, b)
<1> DEFINE N == Len(cs)
           p == ParentRecord(cs, a .. b)
           first == [n \in a .. b |-> cs[n].first]
           last == [n \in a .. b |-> cs[n].last]
<1>1. /\ N \in Nat /\ a \in 1 .. N /\ b \in 1 .. N /\ a <= b /\ a \in Nat /\ b \in Nat
      /\ a .. b \subseteq 1 .. N /\ a .. b \subseteq Nat
    BY DEF Bucket
<1>2. \A n \in a .. b : cs[n] \in ChunkSet BY <1>1
<1>3. \A n \in a .. b : /\ cs[n].lines \in SUBSET Lines /\ cs[n].first \in Nat
                        /\ cs[n].last \in Nat /\ cs[n].path \in Seq(HeadingKinds \cup Nat)
    BY <1>2 DEF ChunkSet
<1>4. first \in [a .. b -> Nat] /\ last \in [a .. b -> Nat] BY <1>3
<1>5. /\ p.lines = UNION {cs[n].lines : n \in a .. b} /\ p.first = Min({cs[n].first : n \in a .. b})
      /\ p.last = Max({cs[n].last : n \in a .. b}) /\ p.path = cs[Min(a .. b)].path
      /\ p.of = {} /\ p.children = a .. b
      /\ p = [lines |-> p.lines, first |-> p.first, last |-> p.last, path |-> p.path,
              of |-> p.of, children |-> p.children]
    BY DEF ParentRecord
<1>6. /\ {cs[n].first : n \in a .. b} = {first[n] : n \in a .. b}
      /\ {cs[n].last : n \in a .. b} = {last[n] : n \in a .. b}
    OBVIOUS
<1>7. \A n \in a .. b : first[n] = cs[n].first /\ last[n] = cs[n].last OBVIOUS
<1> HIDE DEF p, first, last, N
<1>8. p.first \in Nat /\ \A n \in a .. b : p.first <= cs[n].first
  <2> DEFINE S == {first[n] : n \in a .. b}
  <2>1. Min(S) \in Nat /\ \A n \in a .. b : Min(S) <= first[n] BY <1>1, <1>4, LeastGreatest
  <2> QED BY <1>5, <1>6, <1>7, <2>1
<1>9. p.last \in Nat /\ \A n \in a .. b : cs[n].last <= p.last
  <2> DEFINE S == {last[n] : n \in a .. b}
  <2>1. Max(S) \in Nat /\ \A n \in a .. b : last[n] <= Max(S) BY <1>1, <1>4, LeastGreatest
  <2> QED BY <1>5, <1>6, <1>7, <2>1
<1>10. Min(a .. b) = a BY <1>1, IntervalEnds
<1>11. p.lines \in SUBSET Lines
  <2> SUFFICES ASSUME NEW i \in p.lines PROVE i \in Lines
      OBVIOUS
  <2>1. PICK n \in a .. b : i \in cs[n].lines BY <1>5
  <2> QED BY <1>3, <2>1
<1>12. p.path = cs[a].path /\ p.path \in Seq(HeadingKinds \cup Nat) BY <1>1, <1>3, <1>5, <1>10
<1>13. p.of \in SUBSET Lines /\ p.children \in SUBSET Nat BY <1>1, <1>5
<1>14. p \in ChunkSet BY <1>5, <1>8, <1>9, <1>11, <1>12, <1>13 DEF ChunkSet
<1>15. ParentOf(p, cs, a, b) BY <1>5, <1>8, <1>9, <1>12, <1>14 DEF ParentOf
<1> QED BY <1>15 DEF p

\* The parents: each is one, no two share a child, and every chunk has one.
ParentsOf(ps, cs) ==
    /\ ps \in Seq(ChunkSet)
    /\ \A p \in Range(ps) : \E a, b \in 1 .. Len(cs) : ParentOf(p, cs, a, b)
    /\ \A p, q \in Range(ps) : p = q \/ p.children \cap q.children = {}
    /\ \A k \in 1 .. Len(cs) : \E p \in Range(ps) : k \in p.children

\* What _attach_parents makes of the leaves.
LEMMA ParentsAre ==
    ASSUME TextOK, NEW cs \in Seq(ChunkSet)
    PROVE ParentsOf(Parents(cs), cs)
<1> DEFINE N == Len(cs)
           bs == ChildBuckets(cs)
           ps == Parents(cs)
           M == Len(bs)
<1>1. BucketsOf(bs, cs) BY ChildBucketsAre
<1>2. ps = [m \in DOMAIN bs |-> ParentRecord(cs, bs[m])] BY DEF Parents, ParentRecord
<1> HIDE DEF bs, ps, N
<1>3. /\ bs \in Seq(SUBSET (1 .. N))
      /\ \A r \in Range(bs) : \E a, b \in 1 .. N : r = a .. b /\ Bucket(cs, a, b)
      /\ \A r, s \in Range(bs) : r = s \/ r \cap s = {}
      /\ \A k \in 1 .. N : \E r \in Range(bs) : k \in r
    BY <1>1 DEF BucketsOf, BucketsOK, N
<1>4. M \in Nat /\ DOMAIN bs = 1 .. M BY <1>3
<1> HIDE DEF M
<1>5. DOMAIN ps = 1 .. M /\ \A m \in 1 .. M : ps[m] = ParentRecord(cs, bs[m]) BY <1>2, <1>4
<1>6. ps = [m \in 1 .. M |-> ps[m]] BY <1>2, <1>4
<1>7. ASSUME NEW m \in 1 .. M
      PROVE /\ bs[m] \in Range(bs) /\ ps[m] \in ChunkSet /\ ps[m].children = bs[m]
            /\ \E a, b \in 1 .. N : ParentOf(ps[m], cs, a, b)
  <2>1. bs[m] \in Range(bs) BY <1>4 DEF Range
  <2>2. PICK a \in 1 .. N : \E b \in 1 .. N : bs[m] = a .. b /\ Bucket(cs, a, b) BY <1>3, <2>1
  <2>3. PICK b \in 1 .. N : bs[m] = a .. b /\ Bucket(cs, a, b) BY <2>2
  <2>4. ParentOf(ParentRecord(cs, a .. b), cs, a, b) BY <2>3, ParentRecordIs
  <2>5. ParentOf(ps[m], cs, a, b) BY <1>5, <2>3, <2>4
  <2>6. ps[m] \in ChunkSet /\ ps[m].children = bs[m] BY <2>3, <2>5 DEF ParentOf
  <2> QED BY <2>1, <2>5, <2>6
<1>8. ps \in Seq(ChunkSet)
  <2>1. ps \in [1 .. M -> ChunkSet] BY <1>6, <1>7
  <2> QED BY <1>4, <2>1
<1>9. \A p \in Range(ps) : \E m \in 1 .. M : p = ps[m] BY <1>5 DEF Range
<1>10. \A p \in Range(ps) : \E a, b \in 1 .. N : ParentOf(p, cs, a, b) BY <1>7, <1>9
<1>11. ASSUME NEW p \in Range(ps), NEW q \in Range(ps)
       PROVE p = q \/ p.children \cap q.children = {}
  <2>1. PICK m \in 1 .. M : p = ps[m] BY <1>9
  <2>2. PICK n \in 1 .. M : q = ps[n] BY <1>9
  <2>3. p.children = bs[m] /\ q.children = bs[n] BY <1>7, <2>1, <2>2
  <2>4. CASE bs[m] = bs[n] BY <1>5, <2>1, <2>2, <2>4
  <2>5. CASE bs[m] # bs[n] BY <1>3, <1>7, <2>3, <2>5
  <2> QED BY <2>4, <2>5
<1>12. ASSUME NEW k \in 1 .. N PROVE \E p \in Range(ps) : k \in p.children
  <2>1. PICK r \in Range(bs) : k \in r BY <1>3
  <2>2. PICK m \in 1 .. M : r = bs[m] BY <1>4, <2>1 DEF Range
  <2>3. ps[m] \in Range(ps) BY <1>5 DEF Range
  <2> QED BY <1>7, <2>1, <2>2, <2>3
<1>13. ParentsOf(ps, cs) BY <1>8, <1>10, <1>11, <1>12 DEF ParentsOf, N
<1> QED BY <1>13 DEF ps

-----------------------------------------------------------------------------
(***************************************************************************)
(* What holds of the chunks of a document                                  *)
(***************************************************************************)

\* The chunks of a document: its leaves cs and their parents ps.
DocumentOK(cs, ps) ==
    /\ TextOK /\ type \in {"plain_text", "markdown"} /\ DocUnits(units)
    /\ LeavesOf(cs, units) /\ ParentsOf(ps, cs) /\ chunks = cs \o ps

\* The leaves among the chunks are cs, the others are ps.
LEMMA DocumentRanges ==
    ASSUME NEW cs, NEW ps, DocumentOK(cs, ps)
    PROVE /\ Len(cs) \in Nat /\ Len(ps) \in Nat /\ DOMAIN chunks = 1 .. Len(cs) + Len(ps)
          /\ \A n \in 1 .. Len(cs) : chunks[n] = cs[n]
          /\ \A n \in Len(cs) + 1 .. Len(cs) + Len(ps) : chunks[n] \in Range(ps)
          /\ Range(chunks) = Range(cs) \cup Range(ps)
          /\ Leaves = Range(cs) /\ {c \in Range(chunks) : c.children # {}} = Range(ps)
<1>1. /\ cs \in Seq(ChunkSet) /\ ps \in Seq(ChunkSet) /\ chunks = cs \o ps
      /\ \A c \in Range(cs) : LeafOf(c, units)
      /\ \A p \in Range(ps) : \E a, b \in 1 .. Len(cs) : ParentOf(p, cs, a, b)
    BY DEF DocumentOK, LeavesOf, ParentsOf
<1>2. Len(cs) \in Nat /\ Len(ps) \in Nat /\ DOMAIN ps = 1 .. Len(ps) BY <1>1
<1>3. /\ DOMAIN chunks = 1 .. Len(cs) + Len(ps)
      /\ \A n \in 1 .. Len(cs) : chunks[n] = cs[n]
      /\ \A n \in Len(cs) + 1 .. Len(cs) + Len(ps) : chunks[n] = ps[n - Len(cs)]
    BY <1>1
<1>4. \A n \in Len(cs) + 1 .. Len(cs) + Len(ps) : n - Len(cs) \in 1 .. Len(ps) BY <1>2
<1>5. \A n \in Len(cs) + 1 .. Len(cs) + Len(ps) : chunks[n] \in Range(ps)
    BY <1>2, <1>3, <1>4 DEF Range
<1>6. Range(chunks) = Range(cs) \cup Range(ps) BY <1>1, RangeJoined
<1>7. \A c \in Range(cs) : c.children = {} BY <1>1 DEF LeafOf
<1>8. ASSUME NEW p \in Range(ps) PROVE p.children # {}
  <2>1. PICK a \in 1 .. Len(cs) : \E b \in 1 .. Len(cs) : ParentOf(p, cs, a, b) BY <1>1
  <2>2. PICK b \in 1 .. Len(cs) : ParentOf(p, cs, a, b) BY <2>1
  <2>3. p.children = a .. b /\ a <= b BY <2>2 DEF ParentOf, Bucket
  <2>4. a \in Nat /\ b \in Nat BY <1>2
  <2>5. a \in a .. b BY <2>3, <2>4
  <2> QED BY <2>3, <2>5
<1>9. Leaves = Range(cs) BY <1>6, <1>7, <1>8 DEF Leaves
<1>10. {c \in Range(chunks) : c.children # {}} = Range(ps) BY <1>6, <1>7, <1>8
<1> QED BY <1>2, <1>3, <1>5, <1>6, <1>9, <1>10

\* No text of a document is lost.
LEMMA DocumentKeepsText ==
    ASSUME NEW cs, NEW ps, DocumentOK(cs, ps)
    PROVE NoLineLost
<1>1. Leaves = Range(cs) BY DocumentRanges
<1>2. LeavesOf(cs, units) BY DEF DocumentOK
<1> QED BY <1>1, <1>2 DEF LeavesOf, NoLineLost

\* A line of a leaf is within the lines it cites.
LEMMA LeafCited ==
    ASSUME DocUnits(units), NEW c, LeafOf(c, units), NEW i \in c.lines, TextOK
    PROVE c.first <= i /\ i <= c.last
<1>1. PICK I \in SUBSET (1 .. Len(units)) :
        /\ c.lines \subseteq UNION {units[n].first .. units[n].last : n \in I}
        /\ \A n \in I : c.first <= units[n].first /\ units[n].last <= c.last
    BY DEF LeafOf
<1>2. PICK n \in I : i \in units[n].first .. units[n].last BY <1>1
<1>3. UnitOK(units[n]) BY <1>2 DEF DocUnits
<1>5. units[n].first \in Nat /\ units[n].last \in Nat BY <1>3, TextLines DEF UnitOK, UnitSet
<1>4. i \in Nat /\ units[n].first <= i /\ i <= units[n].last BY <1>2, <1>5
<1>6. c.first \in Nat /\ c.last \in Nat BY DEF LeafOf, ChunkSet
<1>7. c.first <= units[n].first /\ units[n].last <= c.last BY <1>1, <1>2
<1> QED BY <1>4, <1>5, <1>6, <1>7

\* A chunk of a document is cited by the lines it was cut from.
LEMMA DocumentCites ==
    ASSUME NEW cs, NEW ps, DocumentOK(cs, ps)
    PROVE CitedLinesTrue
<1>1. /\ TextOK /\ type # "code" /\ DocUnits(units) /\ LeavesOf(cs, units) /\ ParentsOf(ps, cs)
    BY DEF DocumentOK
<1>2. Range(chunks) = Range(cs) \cup Range(ps) BY DocumentRanges
<1>3. \A c \in Range(cs) : LeafOf(c, units) BY <1>1 DEF LeavesOf
<1>4. cs \in Seq(ChunkSet) /\ Len(cs) \in Nat /\ DOMAIN cs = 1 .. Len(cs) BY <1>1 DEF LeavesOf
<1>5. ASSUME NEW c \in Range(chunks), NEW i \in c.lines PROVE c.first <= i /\ i <= c.last
  <2>1. CASE c \in Range(cs) BY <1>1, <1>3, <2>1, LeafCited
  <2>2. CASE c \in Range(ps)
    <3>1. PICK a \in 1 .. Len(cs) : \E b \in 1 .. Len(cs) : ParentOf(c, cs, a, b)
        BY <1>1, <2>2 DEF ParentsOf
    <3>2. PICK b \in 1 .. Len(cs) : ParentOf(c, cs, a, b) BY <3>1
    <3>3. /\ c.lines = UNION {cs[n].lines : n \in a .. b}
          /\ \A n \in a .. b : c.first <= cs[n].first /\ cs[n].last <= c.last
          /\ c.first \in Nat /\ c.last \in Nat
        BY <3>2 DEF ParentOf, ChunkSet
    <3>4. PICK n \in a .. b : i \in cs[n].lines BY <3>3
    <3>5. n \in 1 .. Len(cs) BY <1>4
    <3>6. cs[n] \in Range(cs) BY <1>4, <3>5 DEF Range
    <3>7. cs[n].first <= i /\ i <= cs[n].last BY <1>1, <1>3, <3>4, <3>6, LeafCited
    <3>8. cs[n].first \in Nat /\ cs[n].last \in Nat /\ i \in Nat
      <4>1. cs[n] \in ChunkSet BY <1>4, <3>5
      <4>2. i \in Lines BY <3>4, <4>1 DEF ChunkSet
      <4> QED BY <1>1, <4>1, <4>2, TextLines DEF ChunkSet
    <3> QED BY <3>3, <3>4, <3>7, <3>8
  <2> QED BY <1>2, <2>1, <2>2
<1> QED BY <1>1, <1>5 DEF CitedLinesTrue

\* A chunk of a document over the budget cannot be cut further.
LEMMA DocumentFits ==
    ASSUME NEW cs, NEW ps, DocumentOK(cs, ps)
    PROVE OnlyWholesOverBudget
<1>1. Leaves = Range(cs) BY DocumentRanges
<1>2. /\ \A c \in Range(cs) : LeafOf(c, units)
      /\ units \in Seq(UnitSet)
    BY DEF DocumentOK, LeavesOf, DocUnits
<1>3. ASSUME NEW c \in Leaves, Toks(c.lines) > ChunkMaxTokens
      PROVE \E n \in DOMAIN units : Uncut(c, units[n])
  <2>1. LeafOf(c, units) BY <1>1, <1>2
  <2>2. PICK I \in SUBSET (1 .. Len(units)) : \E n \in I : Uncut(c, units[n])
      BY <1>3, <2>1 DEF LeafOf
  <2>3. DOMAIN units = 1 .. Len(units) BY <1>2
  <2> QED BY <2>2, <2>3
<1> QED BY <1>3 DEF OnlyWholesOverBudget

\* No two units of a Markdown file have a line in common.
LEMMA UnitsApart ==
    ASSUME TextOK, DocUnits(units), type = "markdown", NEW m \in 1 .. Len(units),
           NEW n \in 1 .. Len(units), NEW i,
           i \in units[m].first .. units[m].last, i \in units[n].first .. units[n].last
    PROVE m = n
<1>1. UnitOK(units[m]) /\ UnitOK(units[n]) BY DEF DocUnits
<1>3. /\ units[m].first \in Nat /\ units[m].last \in Nat
      /\ units[n].first \in Nat /\ units[n].last \in Nat
    BY <1>1, TextLines DEF UnitOK, UnitSet
<1>2. /\ units[m].first <= i /\ i <= units[m].last
      /\ units[n].first <= i /\ i <= units[n].last /\ i \in Nat
    BY <1>3
<1>4. m < n => units[m].last < units[n].first BY DEF DocUnits
<1>5. n < m => units[n].last < units[m].first BY DEF DocUnits
<1>6. Len(units) \in Nat BY DEF DocUnits
<1>7. ~ (m < n) BY <1>2, <1>3, <1>4
<1>8. ~ (n < m) BY <1>2, <1>3, <1>5
<1> QED BY <1>6, <1>7, <1>8

\* A line of a leaf is in a unit of its section, and with the header of a table.
LEMMA LeafLine ==
    ASSUME TextOK, DocUnits(units), type = "markdown", NEW c, LeafOf(c, units),
           NEW i \in c.lines, NEW n \in 1 .. Len(units), i \in units[n].lines
    PROVE /\ HeadingPaths(units)[n] = c.path
          /\ units[n].kind = "table" => HeaderOf(units[n]) \subseteq c.lines
<1>1. PICK I \in SUBSET (1 .. Len(units)) :
        /\ c.lines \subseteq UNION {units[k].first .. units[k].last : k \in I}
        /\ \A k \in I : /\ HeadingPaths(units)[k] = c.path
                        /\ units[k].kind = "table" => HeaderOf(units[k]) \subseteq c.lines
    BY DEF LeafOf
<1>2. PICK k \in I : i \in units[k].first .. units[k].last BY <1>1
<1>r. i \in units[n].first .. units[n].last
  <2>1. UnitOK(units[n]) BY DEF DocUnits
  <2>2. /\ units[n].first <= i /\ i <= units[n].last
        /\ units[n].first \in Nat /\ units[n].last \in Nat /\ i \in Nat
      BY <2>1, TextLines DEF UnitOK, UnitSet
  <2> QED BY <2>2
<1>3. k = n BY <1>2, <1>r, UnitsApart
<1>4. n \in I BY <1>2, <1>3
<1> QED BY <1>1, <1>4

\* Every chunk of a table has its header.
LEMMA DocumentHeaders ==
    ASSUME NEW cs, NEW ps, DocumentOK(cs, ps)
    PROVE HeaderRepeated
<1>1. Leaves = Range(cs) BY DocumentRanges
<1>2. /\ TextOK /\ type \in {"plain_text", "markdown"} /\ DocUnits(units)
      /\ \A c \in Range(cs) : LeafOf(c, units)
    BY DEF DocumentOK, LeavesOf
<1>3. DOMAIN units = 1 .. Len(units) BY <1>2 DEF DocUnits
<1>4. ASSUME NEW c \in Leaves, NEW n \in DOMAIN units, units[n].kind = "table",
             c.lines \cap units[n].lines # {}
      PROVE HeaderOf(units[n]) \subseteq c.lines
  <2>1. type = "markdown"
    <3>1. type = "plain_text" => units[n].kind = "text" BY <1>2, <1>3 DEF DocUnits
    <3> QED BY <1>2, <1>4, <3>1
  <2>2. PICK i \in c.lines : i \in units[n].lines BY <1>4
  <2>3. LeafOf(c, units) BY <1>1, <1>2
  <2>4. n \in 1 .. Len(units) BY <1>3
  <2>5. units[n].kind = "table" => HeaderOf(units[n]) \subseteq c.lines
      BY <1>2, <2>1, <2>2, <2>3, <2>4, LeafLine
  <2> QED BY <1>4, <2>5
<1> QED BY <1>4 DEF HeaderRepeated, HeaderOf

\* Text of one chunk, or of one parent, stands under the same headings.
LEMMA DocumentSections ==
    ASSUME NEW cs, NEW ps, DocumentOK(cs, ps)
    PROVE OneSection
<1> SUFFICES ASSUME type = "markdown" PROVE OneSection
    BY DEF OneSection
<1>1. /\ TextOK /\ DocUnits(units) /\ LeavesOf(cs, units) /\ ParentsOf(ps, cs)
      /\ \A c \in Range(cs) : LeafOf(c, units)
      /\ cs \in Seq(ChunkSet)
    BY DEF DocumentOK, LeavesOf
<1>2. Range(chunks) = Range(cs) \cup Range(ps) BY DocumentRanges
<1>3. DOMAIN units = 1 .. Len(units) BY <1>1 DEF DocUnits
<1>4. ASSUME NEW c \in Range(chunks), NEW n \in DOMAIN units,
             units[n].lines # {}, units[n].lines \subseteq c.lines
      PROVE c.path = HeadingPaths(units)[n]
  <2>1. PICK i \in units[n].lines : i \in c.lines BY <1>4
  <2>2. n \in 1 .. Len(units) BY <1>3
  <2>3. CASE c \in Range(cs)
    <3>1. LeafOf(c, units) BY <1>1, <2>3
    <3> QED BY <1>1, <2>1, <2>2, <3>1, LeafLine
  <2>4. CASE c \in Range(ps)
    <3>1. PICK a \in 1 .. Len(cs) : \E b \in 1 .. Len(cs) : ParentOf(c, cs, a, b)
        BY <1>1, <2>4 DEF ParentsOf
    <3>2. PICK b \in 1 .. Len(cs) : ParentOf(c, cs, a, b) BY <3>1
    <3>3. /\ c.lines = UNION {cs[k].lines : k \in a .. b} /\ c.path = cs[a].path
          /\ \A k \in a .. b : cs[k].path = cs[a].path
        BY <3>2 DEF ParentOf, Bucket
    <3>4. PICK k \in a .. b : i \in cs[k].lines BY <2>1, <3>3
    <3>5. cs[k] \in Range(cs)
      <4>1. k \in DOMAIN cs BY <1>1
      <4> QED BY <4>1 DEF Range
    <3>6. LeafOf(cs[k], units) BY <1>1, <3>5
    <3>7. HeadingPaths(units)[n] = cs[k].path BY <1>1, <2>1, <2>2, <3>4, <3>6, LeafLine
    <3> QED BY <3>3, <3>7
  <2> QED BY <1>2, <2>3, <2>4
<1> QED BY <1>4 DEF OneSection

\* Every chunk of a document has one parent, and parents are runs of neighbours.
LEMMA DocumentParents ==
    ASSUME NEW cs, NEW ps, DocumentOK(cs, ps)
    PROVE OneParent
<1> DEFINE N == Len(cs)
           M == Len(cs) + Len(ps)
           parents == {c \in Range(chunks) : c.children # {}}
<1>1. /\ TextOK /\ LeavesOf(cs, units) /\ ParentsOf(ps, cs) /\ chunks = cs \o ps
      /\ cs \in Seq(ChunkSet) /\ ps \in Seq(ChunkSet)
    BY DEF DocumentOK, LeavesOf, ParentsOf
<1>2. /\ N \in Nat /\ M \in Nat /\ N <= M /\ Len(ps) \in Nat
      /\ DOMAIN chunks = 1 .. M
      /\ \A n \in 1 .. N : chunks[n] = cs[n]
      /\ \A n \in N + 1 .. M : chunks[n] \in Range(ps)
      /\ Leaves = Range(cs) /\ parents = Range(ps)
    BY DocumentRanges
<1>3. /\ \A p \in Range(ps) : \E a, b \in 1 .. N : ParentOf(p, cs, a, b)
      /\ \A p, q \in Range(ps) : p = q \/ p.children \cap q.children = {}
      /\ \A k \in 1 .. N : \E p \in Range(ps) : k \in p.children
    BY <1>1 DEF ParentsOf
<1>4. DOMAIN cs = 1 .. N BY <1>1
<1>5. \A p \in Range(ps) : p.children # {} /\ p \in Range(chunks)
  <2>1. Range(ps) \subseteq parents BY <1>2
  <2> QED BY <2>1
<1>6. \A c \in Leaves : c.children = {} BY DEF Leaves
<1>7. chunks \in Seq(ChunkSet) /\ Len(chunks) = M
  <2>1. chunks \in Seq(ChunkSet) BY <1>1
  <2> QED BY <1>2, <2>1
<1> HIDE DEF parents, N, M
<1>8. ASSUME NEW n \in DOMAIN chunks, chunks[n] \in Leaves
      PROVE Cardinality({p \in parents : n \in p.children}) = 1
  <2>1. n \in 1 .. N
    <3>1. n \in 1 .. N \/ n \in N + 1 .. M BY <1>2
    <3>2. n \in N + 1 .. M => chunks[n].children # {} BY <1>2, <1>5
    <3> QED BY <1>6, <1>8, <3>1, <3>2
  <2>2. PICK p \in Range(ps) : n \in p.children BY <1>3, <2>1
  <2>3. p \in parents BY <1>2
  <2>4. ASSUME NEW q \in parents, n \in q.children PROVE q = p
    <3>1. q \in Range(ps) BY <1>2
    <3>2. q.children \cap p.children # {} BY <2>2, <2>4
    <3> QED BY <1>3, <3>1, <3>2
  <2>5. {q \in parents : n \in q.children} = {p} BY <2>2, <2>3, <2>4
  <2> QED BY <2>5, FS_Singleton
<1>9. ASSUME NEW p \in parents
      PROVE /\ Max(p.children) - Min(p.children) + 1 = Cardinality(p.children)
            /\ Cardinality(p.children) > 1 => ChildToks(chunks, p.children) <= ParentMaxTokens
  <2>1. PICK a \in 1 .. N : \E b \in 1 .. N : ParentOf(p, cs, a, b) BY <1>2, <1>3
  <2>2. PICK b \in 1 .. N : ParentOf(p, cs, a, b) BY <2>1
  <2>3. /\ p.children = a .. b /\ a <= b
        /\ a = b \/ ChildToks(cs, a .. b) <= ParentMaxTokens
      BY <2>2 DEF ParentOf, Bucket
  <2>4. a \in Int /\ b \in Int /\ a .. b \subseteq 1 .. N BY <1>2
  <2>5. Min(a .. b) = a /\ Max(a .. b) = b BY <2>3, <2>4, IntervalEnds
  <2>6. Cardinality(a .. b) = b - a + 1 BY <2>3, <2>4, FS_Interval
  <2>7. ChildToks(chunks, a .. b) = ChildToks(cs, a .. b)
    <3> DEFINE cost == [k \in DOMAIN cs |-> Toks(cs[k].lines)]
               longer == [k \in DOMAIN chunks |-> Toks(chunks[k].lines)]
    <3>1. cost \in [1 .. N -> Nat] BY <1>1, ChildToksNat DEF N
    <3>2. longer \in [1 .. M -> Nat] BY <1>1, <1>7, ChildToksNat
    <3>3. \A k \in 1 .. N : longer[k] = cost[k]
      <4>1. \A k \in 1 .. N : k \in DOMAIN chunks /\ k \in DOMAIN cs /\ chunks[k] = cs[k]
          BY <1>2, <1>4
      <4> QED BY <4>1
    <3>4. ChildToks(chunks, a .. b) = SumOver(longer, a .. b) BY DEF ChildToks
    <3>5. ChildToks(cs, a .. b) = SumOver(cost, a .. b) BY DEF ChildToks
    <3> HIDE DEF cost, longer
    <3>6. N \in Nat /\ M \in Nat /\ N <= M BY <1>2
    <3>7. SumOver(longer, a .. b) = SumOver(cost, a .. b)
      <4> DEFINE I == a .. b
      <4>1. N \in Nat BY <3>6
      <4>2. M \in Nat BY <3>6
      <4>3. N <= M BY <3>6
      <4>4. I \subseteq 1 .. N BY <2>4
      <4> HIDE DEF I
      <4>5. SumOver(longer, I) = SumOver(cost, I)
          BY <3>1, <3>2, <3>3, <4>1, <4>2, <4>3, <4>4, SumSame, ZenonT(60)
      <4> QED BY <4>5 DEF I
    <3> QED BY <3>4, <3>5, <3>7
  <2>8. Max(p.children) - Min(p.children) + 1 = Cardinality(p.children)
      BY <2>3, <2>4, <2>5, <2>6
  <2>9. ASSUME Cardinality(p.children) > 1 PROVE ChildToks(chunks, p.children) <= ParentMaxTokens
    <3>1. a # b BY <2>3, <2>4, <2>6, <2>9
    <3> QED BY <2>3, <2>7, <3>1
  <2> QED BY <2>8, <2>9
<1> QED BY <1>8, <1>9 DEF OneParent, parents

\* All that is promised of chunks holds of a document's.
LEMMA DocumentTrue ==
    ASSUME NEW cs, NEW ps, DocumentOK(cs, ps)
    PROVE ChunksTrue
<1>1. DeclarationsWhole BY DEF DeclarationsWhole, DocumentOK
<1> QED BY <1>1, DocumentKeepsText, DocumentCites, DocumentFits, DocumentHeaders,
           DocumentSections, DocumentParents DEF ChunksTrue
-----------------------------------------------------------------------------
(***************************************************************************)
(* Chunks of code                                                          *)
(***************************************************************************)

\* Lines have a first and a last one.
LEMMA LineEnds ==
    ASSUME TextOK, NEW ls \in SUBSET Lines, ls # {}
    PROVE /\ Min(ls) \in ls /\ Max(ls) \in ls /\ Min(ls) \in Nat /\ Max(ls) \in Nat
          /\ \A i \in ls : Min(ls) <= i /\ i <= Max(ls)
<1>1. Len(text) \in Nat /\ Lines = 1 .. Len(text) BY TextLines
<1>2. ls \in SUBSET (Nat \ {0}) /\ ls \subseteq 1 .. Len(text) /\ ls \subseteq Nat BY <1>1
<1>3. \E m \in ls : \A k \in ls : m <= k BY <1>2, FirstOfInterval
<1>4. \E m \in ls : \A k \in ls : k <= m BY <1>1, <1>2, LastOfInterval
<1>5. Min(ls) \in ls /\ \A k \in ls : Min(ls) <= k BY <1>3 DEF Min
<1>6. Max(ls) \in ls /\ \A k \in ls : Max(ls) >= k
  <2>1. \E m \in ls : \A k \in ls : m >= k BY <1>2, <1>4
  <2> QED BY <2>1 DEF Max
<1> QED BY <1>2, <1>5, <1>6

\* The units of code: the whole file, and symbols from each declaration to the next.
CodeUnitsOK ==
    /\ units \in Seq(UnitSet) /\ 1 \in DOMAIN units
    /\ units[1] = Unit("code", Lines, 1, Len(text))
    /\ \A n \in DOMAIN units :
         \/ n = 1
         \/ /\ units[n].kind = "symbol" /\ units[n].first \in Lines
            /\ units[n].last = RunEnd(units[n].first + 1, Lines \ Declarations) - 1

\* What CodeParser makes of a file that is not empty.
LEMMA CodeUnitsAre ==
    ASSUME TextOK, text # <<>>, units = CodeUnits
    PROVE CodeUnitsOK
<1> DEFINE D == Declarations
           K == Cardinality(D)
           s == Ascending(D)
           end(i) == RunEnd(i + 1, Lines \ D) - 1
           whole == Unit("code", Lines, 1, Len(text))
           symbols == [n \in 1 .. K |-> Unit("symbol", s[n] .. end(s[n]), s[n], end(s[n]))]
<1>1. Len(text) \in Nat /\ Lines = 1 .. Len(text) /\ Len(text) >= 1
  <2>1. Len(text) \in Nat /\ Lines = 1 .. Len(text) BY TextLines
  <2>2. Len(text) # 0 BY DEF TextOK
  <2> QED BY <2>1, <2>2
<1>2. units = <<whole>> \o symbols BY DEF CodeUnits
<1>3. D \subseteq Lines BY DEF Declarations, ObjectStarts
<1> HIDE DEF D, s, K
<1>4. IsFiniteSet(D) /\ D \in SUBSET Int
  <2>1. IsFiniteSet(1 .. Len(text)) BY <1>1, FS_Interval
  <2>2. D \subseteq 1 .. Len(text) BY <1>1, <1>3
  <2>3. IsFiniteSet(D) BY <2>1, <2>2, FS_Subset
  <2>4. D \in SUBSET Int BY <2>2
  <2> QED BY <2>3, <2>4
<1>5. K \in Nat /\ s \in [1 .. K -> D] BY <1>4, AscendingLists DEF K, s
<1>6. ASSUME NEW n \in 1 .. K
      PROVE /\ s[n] \in Lines /\ end(s[n]) \in Nat /\ s[n] .. end(s[n]) \subseteq Lines
  <2>1. s[n] \in Lines BY <1>3, <1>5
  <2>2. s[n] + 1 \in 1 .. Len(text) + 1 BY <1>1, <2>1
  <2>3. RunEnd(s[n] + 1, Lines \ D) \in s[n] + 1 .. Len(text) + 1 BY <2>2, RunEnds
  <2> DEFINE i == s[n]
             e == end(i)
  <2>4. i \in Nat /\ i >= 1 BY <1>1, <2>1
  <2>5. e + 1 \in i + 1 .. Len(text) + 1 /\ e \in Int
    <3> DEFINE r == RunEnd(i + 1, Lines \ D)
    <3>1. r \in i + 1 .. Len(text) + 1 BY <2>3
    <3>2. e = r - 1 OBVIOUS
    <3> HIDE DEF r, e
    <3>3. r \in Int BY <1>1, <2>4, <3>1
    <3> QED BY <3>1, <3>2, <3>3
  <2> HIDE DEF i, e
  <2>6. e \in Nat /\ i .. e \subseteq 1 .. Len(text) BY <1>1, <2>4, <2>5
  <2> QED BY <1>1, <2>1, <2>6 DEF i, e
<1>7. ASSUME NEW n \in 1 .. K PROVE symbols[n] \in UnitSet
  <2>1. symbols[n] = Unit("symbol", s[n] .. end(s[n]), s[n], end(s[n])) OBVIOUS
  <2>2. s[n] .. end(s[n]) \in SUBSET Lines BY <1>6
  <2> QED BY <1>6, <2>1, <2>2 DEF Unit, UnitSet
<1>8. symbols \in Seq(UnitSet) /\ Len(symbols) = K
  <2>1. symbols = [n \in 1 .. K |-> symbols[n]] OBVIOUS
  <2> HIDE DEF symbols
  <2>2. symbols \in [1 .. K -> UnitSet] BY <1>7, <2>1
  <2> QED BY <1>5, <2>2
<1>9. whole \in UnitSet BY <1>1 DEF Unit, UnitSet
<1>10. \A n \in 1 .. K : /\ symbols[n].kind = "symbol" /\ symbols[n].first = s[n]
                         /\ symbols[n].last = RunEnd(s[n] + 1, Lines \ D) - 1
    BY DEF Unit
<1> HIDE DEF symbols, whole
<1>11. <<whole>> \in Seq(UnitSet) /\ Len(<<whole>>) = 1 BY <1>9
<1>12. units \in Seq(UnitSet) /\ Len(units) = K + 1 /\ units[1] = whole
    BY <1>2, <1>5, <1>8, <1>11
<1>13. \A n \in 2 .. K + 1 : units[n] = symbols[n - 1] BY <1>2, <1>5, <1>8, <1>11
<1>14. DOMAIN units = 1 .. K + 1 BY <1>12
<1>15. ASSUME NEW n \in DOMAIN units, n # 1
       PROVE /\ units[n].kind = "symbol" /\ units[n].first \in Lines
             /\ units[n].last = RunEnd(units[n].first + 1, Lines \ Declarations) - 1
  <2>1. n \in 2 .. K + 1 /\ n - 1 \in 1 .. K BY <1>5, <1>14, <1>15
  <2>2. units[n] = symbols[n - 1] BY <1>13, <2>1
  <2> QED BY <1>6, <1>10, <2>1, <2>2 DEF D
<1>16. 1 \in DOMAIN units BY <1>5, <1>14
<1> QED BY <1>12, <1>15, <1>16 DEF CodeUnitsOK, whole

\* A symbol that is named overlaps the lines.
LEMMA NamedSymbol ==
    ASSUME CodeUnitsOK, NEW a, NEW b, ContainingSymbol(a, b) # <<>>
    PROVE \E n \in DOMAIN units : /\ n # 1 /\ ContainingSymbol(a, b)[1] = units[n].first
                                  /\ units[n].first <= b /\ units[n].last >= a
<1> DEFINE over == {n \in DOMAIN units : units[n].kind = "symbol"
                                         /\ units[n].first <= b /\ units[n].last >= a}
<1>1. over # {} /\ ContainingSymbol(a, b) = <<units[Min(over)].first>> BY DEF ContainingSymbol
<1>2. over \in SUBSET (Nat \ {0})
  <2>1. DOMAIN units = 1 .. Len(units) /\ Len(units) \in Nat BY DEF CodeUnitsOK
  <2> QED BY <2>1
<1>3. \A n \in over : /\ n \in DOMAIN units /\ units[n].kind = "symbol"
                      /\ units[n].first <= b /\ units[n].last >= a
    OBVIOUS
<1> HIDE DEF over
<1>4. \E m \in over : \A k \in over : m <= k BY <1>1, <1>2, FirstOfInterval
<1>5. Min(over) \in over BY <1>4 DEF Min
<1>6. units[1].kind # "symbol" BY DEF CodeUnitsOK, Unit
<1>7. Min(over) # 1 BY <1>3, <1>5, <1>6
<1> QED BY <1>1, <1>3, <1>5, <1>7

\* How a piece of generic code is cited.
CitedCode(c) ==
    /\ c.first = Min(c.lines) /\ c.last <= Max(c.lines)
    /\ c.path # <<>> => /\ c.path[1] <= Max(c.lines)
                        /\ RunEnd(c.path[1] + 1, {j \in Lines : text[j] # "def"}) > Min(c.lines)

\* A piece of generic code is cited by where it starts and a symbol it overlaps.
LEMMA GenericCited ==
    ASSUME TextOK, type = "code", CodeUnitsOK, NEW ls \in SUBSET Lines, ls # {},
           NEW b \in Nat, b <= Max(ls)
    PROVE CitedCode(Chunk(ls, Min(ls), b, ContainingSymbol(Min(ls), b), {}))
<1> DEFINE path == ContainingSymbol(Min(ls), b)
           c == Chunk(ls, Min(ls), b, path, {})
<1>1. c.lines = ls /\ c.first = Min(ls) /\ c.last = b /\ c.path = path BY DEF Chunk
<1>2. Min(ls) \in Nat /\ Max(ls) \in Nat BY LineEnds
<1>3. Len(text) \in Nat /\ Lines = 1 .. Len(text) BY TextLines
<1>4. ASSUME path # <<>>
      PROVE /\ path[1] <= Max(ls)
            /\ RunEnd(path[1] + 1, {j \in Lines : text[j] # "def"}) > Min(ls)
  <2>1. PICK n \in DOMAIN units : /\ n # 1 /\ path[1] = units[n].first
                                  /\ units[n].first <= b /\ units[n].last >= Min(ls)
      BY <1>4, NamedSymbol
  <2> HIDE DEF path
  <2>2. /\ units[n].first \in Lines
        /\ units[n].last = RunEnd(units[n].first + 1, Lines \ Declarations) - 1
      BY <2>1 DEF CodeUnitsOK
  <2>3. Lines \ Declarations = {j \in Lines : text[j] # "def"} BY DEF Declarations
  <2> DEFINE i == units[n].first
             e == RunEnd(i + 1, Lines \ Declarations)
  <2>4. i + 1 \in 1 .. Len(text) + 1 BY <1>3, <2>2
  <2>5. e \in i + 1 .. Len(text) + 1 BY <2>4, RunEnds
  <2>6. e \in Nat /\ i \in Nat BY <1>3, <2>2, <2>5
  <2>7. e - 1 >= Min(ls) BY <2>1, <2>2
  <2> HIDE DEF e
  <2>8. e > Min(ls) BY <1>2, <2>6, <2>7
  <2>9. i <= Max(ls) BY <1>2, <2>1, <2>6
  <2> QED BY <2>1, <2>3, <2>8, <2>9 DEF e
<1> HIDE DEF path, c
<1>5. CitedCode(c) BY <1>1, <1>4 DEF CitedCode
<1> QED BY <1>5 DEF c, path

\* As many lines as there are reach no further than the last.
LEMMA LinesCounted ==
    ASSUME TextOK, NEW ls \in SUBSET Lines, ls # {}
    PROVE /\ Min(ls) + Cardinality(ls) - 1 \in Nat
          /\ Min(ls) + Cardinality(ls) - 1 <= Max(ls)
<1>1. /\ Min(ls) \in Nat /\ Max(ls) \in Nat /\ Min(ls) \in ls
      /\ \A i \in ls : Min(ls) <= i /\ i <= Max(ls)
    BY LineEnds
<1>2. ls \subseteq Nat
  <2>1. Lines = 1 .. Len(text) BY TextLines
  <2> QED BY <2>1
<1> DEFINE a == Min(ls)
           b == Max(ls)
           C == Cardinality(ls)
<1>3. ls \subseteq a .. b /\ a <= b BY <1>1, <1>2
<1>4. a \in Nat /\ b \in Nat BY <1>1
<1> HIDE DEF a, b
<1>5. IsFiniteSet(a .. b) /\ Cardinality(a .. b) = b - a + 1 BY <1>3, <1>4, FS_Interval
<1>6. IsFiniteSet(ls) /\ Cardinality(ls) <= Cardinality(a .. b) BY <1>3, <1>5, FS_Subset
<1>7. C \in Nat BY <1>6, FS_CardinalityType
<1>8. C # 0 BY <1>6, FS_EmptySet
<1>9. C <= b - a + 1 BY <1>5, <1>6
<1> HIDE DEF C
<1>10. a + C - 1 \in Nat /\ a + C - 1 <= b BY <1>4, <1>7, <1>8, <1>9
<1> QED BY <1>10 DEF a, b, C

\* Code has no tables.
LEMMA NoTables ==
    ASSUME CodeUnitsOK
    PROVE HeaderRepeated
<1>1. \A n \in DOMAIN units : units[n].kind # "table" BY DEF CodeUnitsOK, Unit
<1> QED BY <1>1 DEF HeaderRepeated

\* What generic code is cut into.
GenericPieces(cs) ==
    /\ \A c \in Range(cs) : /\ CitedCode(c) /\ c.children = {}
                            /\ Toks(c.lines) > ChunkMaxTokens => Uncut(c, units[1])
    /\ \A i \in Lines : Blank(i) \/ \E c \in Range(cs) : i \in c.lines

\* The chunks of generic code.
LEMMA GenericChunksAre ==
    ASSUME TextOK, type = "code", CodeUnitsOK, ~AllBlank(Lines)
    PROVE GenericPieces(GenericChunks)
<1> DEFINE bs == BlankBlocks(Lines)
           g == Greedy({}, bs)
           piece(ls, b) == Chunk(ls, Min(ls), b, ContainingSymbol(Min(ls), b), {})
<1>1. /\ Len(text) \in Nat /\ Lines = 1 .. Len(text) /\ Lines \in SUBSET Lines /\ Lines # {}
  <2>1. Lines # {} BY DEF AllBlank
  <2> QED BY <2>1, TextLines
<1>2. /\ units[1].kind = "code" /\ units[1].first = 1 /\ units[1].last = Len(text)
    BY DEF CodeUnitsOK, Unit
<1>3. ASSUME NEW ls PROVE Toks(ls) \in Nat /\ ChunkMaxTokens \in Nat
  <2>1. ls \cap Lines \subseteq ls OBVIOUS
  <2> QED BY <2>1, ToksFewer, TextLines
<1>4. CASE Toks(Lines) <= ChunkMaxTokens
  <2> DEFINE c == piece(Lines, Len(text))
  <2>1. GenericChunks = <<c>> BY <1>4 DEF GenericChunks
  <2>2. Len(text) <= Max(Lines)
    <3>1. \A i \in Lines : Max(Lines) >= i BY <1>1, LineEnds
    <3>2. Len(text) \in Lines BY <1>1
    <3>3. Max(Lines) \in Nat BY <1>1, LineEnds
    <3> QED BY <1>1, <3>1, <3>2, <3>3
  <2>3. CitedCode(c) BY <1>1, <2>2, GenericCited
  <2>4. c.lines = Lines /\ c.children = {} BY DEF Chunk
  <2> HIDE DEF c
  <2>5. Range(<<c>>) = {c} BY DEF Range
  <2>6. ~ (Toks(c.lines) > ChunkMaxTokens) BY <1>3, <1>4, <2>4
  <2> QED BY <2>1, <2>3, <2>4, <2>5, <2>6 DEF GenericPieces
<1>5. CASE ~ (Toks(Lines) <= ChunkMaxTokens)
  <2> DEFINE upTo(ls) == Min(ls) + Cardinality(ls) - 1
             cs == [n \in DOMAIN g |-> piece(g[n], upTo(g[n]))]
  <2>1. GenericChunks = cs BY <1>5 DEF GenericChunks
  <2>2. BlocksOf(bs, Lines) BY <1>1, BlankBlocksAre
  <2> HIDE DEF bs
  <2>3. /\ bs \in Seq(SUBSET Lines)
        /\ \A b \in Range(bs) : b # {} /\ (\E i, k \in Lines : b = i .. k) /\ \A j \in b : ~Blank(j)
        /\ \A j \in Lines : ~Blank(j) => \E b \in Range(bs) : j \in b
      BY <2>2 DEF BlocksOf
  <2>4. {} \in SUBSET Lines OBVIOUS
  <2>5. \A b \in Range(bs) : b # {} BY <2>3
  <2>6. PiecesOf(g, {}, bs) BY <2>3, <2>4, <2>5, GreedyPieces
  <2> HIDE DEF g
  <2>7. /\ g \in Seq(SUBSET Lines) /\ \A p \in Range(g) : p # {} /\ PieceOf(p, {}, bs)
        /\ \A b \in Range(bs) : \E p \in Range(g) : b \subseteq p
      BY <2>6 DEF PiecesOf
  <2>8. DOMAIN cs = DOMAIN g /\ \A n \in DOMAIN g : cs[n] = piece(g[n], upTo(g[n])) OBVIOUS
  <2> HIDE DEF cs
  <2>9. ASSUME NEW c \in Range(cs)
        PROVE /\ CitedCode(c) /\ c.children = {} /\ c.lines \in Range(g)
              /\ Toks(c.lines) > ChunkMaxTokens => Uncut(c, units[1])
    <3>1. PICK n \in DOMAIN g : c = piece(g[n], upTo(g[n])) BY <2>8 DEF Range
    <3> DEFINE p == g[n]
    <3>2. c.lines = p /\ c.children = {} BY <3>1 DEF Chunk
    <3>3. p \in Range(g) BY DEF Range
    <3>4. p \in SUBSET Lines /\ p # {} /\ PieceOf(p, {}, bs) BY <2>7, <3>3
    <3>5. c = piece(p, upTo(p)) BY <3>1
    <3> HIDE DEF p
    <3>6. upTo(p) \in Nat /\ upTo(p) <= Max(p) BY <3>4, LinesCounted
    <3> DEFINE to == upTo(p)
    <3>7. to \in Nat /\ to <= Max(p) BY <3>6
    <3>8. c = Chunk(p, Min(p), to, ContainingSymbol(Min(p), to), {}) BY <3>5
    <3> HIDE DEF to
    <3>9. CitedCode(c) BY <3>4, <3>7, <3>8, GenericCited
    <3>10. ASSUME Toks(c.lines) > ChunkMaxTokens PROVE Uncut(c, units[1])
      <4>1. \E b \in Range(bs) : p = {} \cup b BY <1>3, <3>2, <3>4, <3>10 DEF PieceOf
      <4>2. p \in Range(bs) BY <4>1
      <4>3. (\E i, k \in Lines : p = i .. k) /\ \A j \in p : ~Blank(j) BY <2>3, <4>2
      <4>4. type # "plsql" OBVIOUS
      <4>5. p \subseteq units[1].first .. units[1].last BY <1>1, <1>2, <3>4
      <4> QED BY <1>2, <3>2, <3>4, <4>3, <4>4, <4>5, BlockUncut
    <3> QED BY <3>2, <3>3, <3>9, <3>10
  <2>10. ASSUME NEW i \in Lines, ~Blank(i) PROVE \E c \in Range(cs) : i \in c.lines
    <3>1. PICK b \in Range(bs) : i \in b BY <2>3, <2>10
    <3>2. PICK p \in Range(g) : b \subseteq p BY <2>7
    <3>3. PICK n \in DOMAIN g : p = g[n] BY <3>2 DEF Range
    <3>4. cs[n] \in Range(cs) BY <2>8 DEF Range
    <3>5. cs[n].lines = p BY <2>8, <3>3 DEF Chunk
    <3> QED BY <3>1, <3>2, <3>4, <3>5
  <2>11. GenericPieces(cs) BY <2>9, <2>10 DEF GenericPieces
  <2> QED BY <2>1, <2>11
<1> QED BY <1>4, <1>5

\* All that is promised of chunks holds of a file of generic code.
LEMMA GenericTrue ==
    ASSUME TextOK, type = "code", text # <<>>, units = CodeUnits, chunks = SourceChunks
    PROVE ChunksTrue
<1>1. CodeUnitsOK BY CodeUnitsAre
<1>2. GenericPieces(chunks)
  <2>1. CASE AllBlank(Lines)
    <3>1. chunks = <<>> BY <2>1 DEF SourceChunks
    <3>2. Range(chunks) = {} BY <3>1 DEF Range
    <3> QED BY <2>1, <3>2 DEF GenericPieces, AllBlank
  <2>2. CASE ~AllBlank(Lines)
    <3>1. chunks = GenericChunks BY <2>2 DEF SourceChunks
    <3> QED BY <1>1, <2>2, <3>1, GenericChunksAre
  <2> QED BY <2>1, <2>2
<1>3. Leaves = Range(chunks) BY <1>2 DEF Leaves, GenericPieces
<1>4. NoLineLost BY <1>2, <1>3 DEF GenericPieces, NoLineLost, Blank
<1>5. CitedLinesTrue BY <1>2 DEF GenericPieces, CitedLinesTrue, CitedCode
<1>6. OnlyWholesOverBudget
  <2>1. 1 \in DOMAIN units BY <1>1 DEF CodeUnitsOK
  <2> QED BY <1>2, <1>3, <2>1 DEF GenericPieces, OnlyWholesOverBudget
<1>7. HeaderRepeated BY <1>1, NoTables
<1>8. OneSection BY DEF OneSection
<1>9. OneParent BY DEF OneParent
<1>10. DeclarationsWhole BY DEF DeclarationsWhole
<1> QED BY <1>4, <1>5, <1>6, <1>7, <1>8, <1>9, <1>10 DEF ChunksTrue
-----------------------------------------------------------------------------
(***************************************************************************)
(* Chunks of PL/SQL                                                        *)
(***************************************************************************)

\* Where a PL/SQL source is cut.
Cuts == {1} \cup SymbolStarts

\* A stretch of lines from one cut to the next.
Stretch(ls) ==
    /\ ls \in SUBSET Lines /\ ls # {} /\ Min(ls) \in Cuts
    /\ \A j \in ls : j > Min(ls) => j \notin Cuts

\* A chunk of the symbol that has the lines ls: the whole of it, or a piece.
SymbolPiece(c, ls) ==
    /\ c \in ChunkSet /\ c.children = {} /\ c.lines # {} /\ c.lines \subseteq ls
    /\ c.first = Min(c.lines) /\ c.last = Max(c.lines)
    /\ \/ c.of = {} /\ c.lines = ls
       \/ /\ c.of = ls
          /\ Toks(c.lines) > ChunkMaxTokens =>
               \A i \in c.lines : i > c.first => Cleaned(i) \notin {"blank", "begin"}

\* The chunks of a symbol: it is there, over the budget in pieces too, and those are all of it.
SymbolPieces(cs, ls) ==
    /\ cs \in Seq(ChunkSet) /\ \A c \in Range(cs) : SymbolPiece(c, ls)
    /\ \E c \in Range(cs) : c.of = {} /\ c.lines = ls
    /\ Toks(ls) > ChunkMaxTokens => \E c \in Range(cs) : c.of = ls
    /\ (\E c \in Range(cs) : c.of = ls) =>
         \A i \in ls : \E c \in Range(cs) : c.of = ls /\ i \in c.lines

\* What is one chunk of a symbol.
LEMMA SymbolChunkIs ==
    ASSUME TextOK, NEW ls \in SUBSET Lines, ls # {}, NEW x \in SUBSET ls, x # {},
           NEW of \in {{}, ls}, of = {} => x = ls,
           of = ls /\ Toks(x) > ChunkMaxTokens =>
             \A i \in x : i > Min(x) => Cleaned(i) \notin {"blank", "begin"},
           NEW c, c = Chunk(x, Min(x), Max(x), <<Min(ls)>>, of)
    PROVE SymbolPiece(c, ls) /\ c.of = of /\ c.lines = x
<1>1. /\ c.lines = x /\ c.first = Min(x) /\ c.last = Max(x) /\ c.path = <<Min(ls)>>
      /\ c.of = of /\ c.children = {}
      /\ c = [lines |-> x, first |-> Min(x), last |-> Max(x), path |-> <<Min(ls)>>,
              of |-> of, children |-> {}]
    BY DEF Chunk
<1>2. x \in SUBSET Lines /\ of \in SUBSET Lines OBVIOUS
<1>3. Min(x) \in Nat /\ Max(x) \in Nat BY <1>2, LineEnds
<1>4. Min(ls) \in Nat BY LineEnds
<1>5. <<Min(ls)>> \in Seq(HeadingKinds \cup Nat)
  <2> DEFINE m == Min(ls)
  <2>1. m \in HeadingKinds \cup Nat BY <1>4
  <2> HIDE DEF m
  <2>2. <<m>> \in Seq(HeadingKinds \cup Nat) BY <2>1
  <2> QED BY <2>2 DEF m
<1>6. c \in ChunkSet BY <1>1, <1>2, <1>3, <1>5 DEF ChunkSet
<1>7. CASE of = {} BY <1>1, <1>6, <1>7 DEF SymbolPiece
<1>8. CASE of = ls BY <1>1, <1>6, <1>8 DEF SymbolPiece
<1> QED BY <1>1, <1>7, <1>8

\* The blocks of a symbol begin at its inner points and hold all of it.
LEMMA SymbolBlocks ==
    ASSUME TextOK, NEW ls, Stretch(ls), ls = Min(ls) .. Max(ls)
    PROVE LET points == {Min(ls)} \cup {i \in ls : Cleaned(i) \in {"blank", "begin"}}
              bs == Intervals(points, Max(ls))
          IN  /\ bs \in Seq(SUBSET Lines)
              /\ \A b \in Range(bs) : /\ b # {} /\ b \subseteq ls
                                      /\ \A i \in b : i > Min(b) =>
                                           Cleaned(i) \notin {"blank", "begin"}
              /\ \A i \in ls : \E b \in Range(bs) : i \in b
<1> DEFINE inner == {i \in ls : Cleaned(i) \in {"blank", "begin"}}
           points == {Min(ls)} \cup inner
           a == Min(ls)
           z == Max(ls)
           bs == Intervals(points, z)
<1>1. Len(text) \in Nat /\ Lines = 1 .. Len(text) BY TextLines
<1>2. /\ ls \in SUBSET Lines /\ ls # {} /\ a \in ls /\ z \in ls /\ a \in Nat /\ z \in Nat
      /\ \A i \in ls : a <= i /\ i <= z
  <2>1. ls \in SUBSET Lines /\ ls # {} BY DEF Stretch
  <2> QED BY <2>1, LineEnds
<1>3. ls = a .. z OBVIOUS
<1>4. points = {a} \cup inner OBVIOUS
<1> HIDE DEF a, z, points
<1>5. 1 <= a /\ z <= Len(text) BY <1>1, <1>2
<1>6. points \in SUBSET (1 .. z) /\ a \in points /\ points \subseteq ls BY <1>2, <1>3, <1>4, <1>5
<1>7. IntervalsOf(bs, points, z) BY <1>2, <1>6, IntervalsAre
<1> HIDE DEF bs
<1>8. /\ bs \in Seq(SUBSET (1 .. z))
      /\ \A b \in Range(bs) : \E i \in points : \E e \in i .. z :
           b = i .. e /\ \A c \in points : c <= i \/ c > e
      /\ \A j \in 1 .. z : (\E c \in points : c <= j) => \E b \in Range(bs) : j \in b
    BY <1>7 DEF IntervalsOf
<1>9. bs \in Seq(SUBSET Lines)
  <2>1. SUBSET (1 .. z) \subseteq SUBSET Lines BY <1>1, <1>2, <1>5
  <2> QED BY <1>8, <2>1
<1>10. ASSUME NEW b \in Range(bs)
       PROVE /\ b # {} /\ b \subseteq ls
             /\ \A i \in b : i > Min(b) => Cleaned(i) \notin {"blank", "begin"}
  <2>1. PICK i \in points : \E e \in i .. z : b = i .. e /\ \A c \in points : c <= i \/ c > e
      BY <1>8
  <2>2. PICK e \in i .. z : b = i .. e /\ \A c \in points : c <= i \/ c > e BY <2>1
  <2>3. i \in Nat /\ e \in Nat /\ i <= e /\ a <= i /\ e <= z BY <1>2, <1>3, <1>6, <2>1
  <2>4. b # {} /\ b \subseteq ls BY <1>2, <1>3, <2>2, <2>3
  <2>5. Min(b) = i BY <2>2, <2>3, IntervalEnds
  <2>6. ASSUME NEW j \in b, j > i PROVE Cleaned(j) \notin {"blank", "begin"}
    <3>1. j <= e /\ j \in Nat /\ j \in ls BY <2>2, <2>3, <2>4
    <3>2. j \notin points BY <2>2, <2>3, <2>6, <3>1
    <3> QED BY <1>4, <3>1, <3>2
  <2> QED BY <2>4, <2>5, <2>6
<1>11. ASSUME NEW j \in ls PROVE \E b \in Range(bs) : j \in b
  <2>1. a <= j /\ j \in 1 .. z BY <1>2, <1>3, <1>5
  <2> QED BY <1>6, <1>8, <2>1
<1> QED BY <1>9, <1>10, <1>11 DEF bs, points, a, z

\* The chunks of a symbol.
LEMMA SymbolChunksAre ==
    ASSUME TextOK, NEW ls, Stretch(ls), ls = Min(ls) .. Max(ls)
    PROVE SymbolPieces(SymbolChunks(ls), ls)
<1> DEFINE points == {Min(ls)} \cup {i \in ls : Cleaned(i) \in {"blank", "begin"}}
           bs == Intervals(points, Max(ls))
           g == Greedy({}, bs)
           chunk(x, of) == Chunk(x, Min(x), Max(x), <<Min(ls)>>, of)
           whole == chunk(ls, {})
           cut == [n \in DOMAIN g |-> chunk(g[n], ls)]
<1>1. ls \in SUBSET Lines /\ ls # {} BY DEF Stretch
<1>2. SymbolPiece(whole, ls) /\ whole.of = {} /\ whole.lines = ls
  <2>1. ls \in SUBSET ls /\ {} \in {{}, ls} /\ {} # ls BY <1>1
  <2> DEFINE c == whole
  <2>2. c = Chunk(ls, Min(ls), Max(ls), <<Min(ls)>>, {}) OBVIOUS
  <2> HIDE DEF c
  <2>3. SymbolPiece(c, ls) /\ c.of = {} /\ c.lines = ls BY <1>1, <2>1, <2>2, SymbolChunkIs
  <2> QED BY <2>3 DEF c
<1>3. ASSUME NEW x PROVE Toks(x) \in Nat /\ ChunkMaxTokens \in Nat
  <2>1. x \cap Lines \subseteq x OBVIOUS
  <2> QED BY <2>1, ToksFewer, TextLines
<1>4. whole \in ChunkSet BY <1>2 DEF SymbolPiece
<1>5. <<whole>> \in Seq(ChunkSet) /\ Range(<<whole>>) = {whole}
  <2> HIDE DEF whole
  <2> QED BY <1>4 DEF Range
<1>6. CASE Toks(ls) <= ChunkMaxTokens
  <2>1. SymbolChunks(ls) = <<whole>> BY <1>6 DEF SymbolChunks
  <2>2. ~ (Toks(ls) > ChunkMaxTokens) BY <1>3, <1>6
  <2>3. whole.of # ls BY <1>1, <1>2
  <2> HIDE DEF whole
  <2> QED BY <1>2, <1>5, <2>1, <2>2, <2>3 DEF SymbolPieces
<1>7. CASE ~ (Toks(ls) <= ChunkMaxTokens)
  <2> DEFINE cs == SymbolChunks(ls)
  <2>1. cs = <<whole>> \o cut BY <1>7 DEF SymbolChunks
  <2>2. /\ bs \in Seq(SUBSET Lines)
        /\ \A b \in Range(bs) : /\ b # {} /\ b \subseteq ls
                                /\ \A i \in b : i > Min(b) =>
                                     Cleaned(i) \notin {"blank", "begin"}
        /\ \A i \in ls : \E b \in Range(bs) : i \in b
      BY SymbolBlocks
  <2> HIDE DEF bs, whole
  <2>3. {} \in SUBSET Lines /\ \A b \in Range(bs) : b # {} BY <2>2
  <2>4. PiecesOf(g, {}, bs) BY <2>2, <2>3, GreedyPieces
  <2> HIDE DEF g
  <2>5. /\ g \in Seq(SUBSET Lines) /\ \A p \in Range(g) : p # {} /\ PieceOf(p, {}, bs)
        /\ \A b \in Range(bs) : \E p \in Range(g) : b \subseteq p
      BY <2>4 DEF PiecesOf
  <2>6. Len(g) \in Nat /\ DOMAIN g = 1 .. Len(g) BY <2>5
  <2>7. ASSUME NEW n \in DOMAIN g
        PROVE /\ SymbolPiece(cut[n], ls) /\ cut[n].of = ls /\ cut[n].lines = g[n]
              /\ cut[n] \in ChunkSet
    <3> DEFINE x == g[n]
               c == cut[n]
    <3>1. x \in Range(g) BY DEF Range
    <3>2. x # {} /\ PieceOf(x, {}, bs) BY <2>5, <3>1
    <3>3. c = Chunk(x, Min(x), Max(x), <<Min(ls)>>, ls) OBVIOUS
    <3> HIDE DEF x, c, cut
    <3>4. x \subseteq UNION Range(bs) BY <3>2 DEF PieceOf
    <3>5. x \in SUBSET ls BY <2>2, <3>4
    <3>6. ASSUME Toks(x) > ChunkMaxTokens
          PROVE \A i \in x : i > Min(x) => Cleaned(i) \notin {"blank", "begin"}
      <4>1. \E b \in Range(bs) : x = {} \cup b BY <1>3, <3>2, <3>6 DEF PieceOf
      <4>2. x \in Range(bs) BY <4>1
      <4> QED BY <2>2, <4>2
    <3>7. ls \in {{}, ls} /\ ls # {} BY <1>1
    <3>8. SymbolPiece(c, ls) /\ c.of = ls /\ c.lines = x
        BY <1>1, <3>2, <3>3, <3>5, <3>6, <3>7, SymbolChunkIs
    <3>9. c \in ChunkSet BY <3>8 DEF SymbolPiece
    <3> QED BY <3>8, <3>9 DEF x, c
  <2>8. DOMAIN cut = DOMAIN g /\ cut = [n \in DOMAIN g |-> cut[n]] OBVIOUS
  <2> HIDE DEF cut
  <2>9. cut \in Seq(ChunkSet)
    <3>1. cut \in [1 .. Len(g) -> ChunkSet] BY <2>6, <2>7, <2>8
    <3> QED BY <2>6, <3>1
  <2>10. cs \in Seq(ChunkSet) /\ Range(cs) = {whole} \cup Range(cut)
    <3> HIDE DEF cs
    <3>1. <<whole>> \o cut \in Seq(ChunkSet)
          /\ Range(<<whole>> \o cut) = Range(<<whole>>) \cup Range(cut)
        BY <1>5, <2>9, RangeJoined
    <3> QED BY <1>5, <2>1, <3>1
  <2> HIDE DEF cs
  <2>11. \A c \in Range(cut) : \E n \in DOMAIN g : c = cut[n] BY <2>8 DEF Range
  <2>12. \A n \in DOMAIN g : cut[n] \in Range(cut) BY <2>8 DEF Range
  <2>13. \A c \in Range(cs) : SymbolPiece(c, ls) BY <1>2, <2>7, <2>10, <2>11
  <2>14. ASSUME NEW i \in ls PROVE \E c \in Range(cs) : c.of = ls /\ i \in c.lines
    <3>1. PICK b \in Range(bs) : i \in b BY <2>2
    <3>2. PICK p \in Range(g) : b \subseteq p BY <2>5
    <3>3. PICK n \in DOMAIN g : p = g[n] BY <3>2 DEF Range
    <3> QED BY <2>7, <2>10, <2>12, <3>1, <3>2, <3>3
  <2>15. \E c \in Range(cs) : c.of = ls BY <1>1, <2>14
  <2>16. \E c \in Range(cs) : c.of = {} /\ c.lines = ls BY <1>2, <2>10
  <2>17. SymbolPieces(cs, ls) BY <2>10, <2>13, <2>14, <2>15, <2>16 DEF SymbolPieces
  <2> QED BY <2>17 DEF cs
<1> QED BY <1>6, <1>7

\* What a PL/SQL source is cut into: all chunks of stretches of it, which hold all of its text.
PlSqlPieces(cs) ==
    /\ \A c \in Range(cs) : \E ls, ds :
         /\ Stretch(ls) /\ SymbolPieces(ds, ls) /\ c \in Range(ds) /\ Range(ds) \subseteq Range(cs)
    /\ \A i \in Lines : Blank(i) \/ \E c \in Range(cs) : i \in c.lines

\* The chunks of a PL/SQL source.
LEMMA PlSqlChunksAre ==
    ASSUME TextOK, ~AllBlank(Lines)
    PROVE PlSqlPieces(PlSqlChunks)
<1> DEFINE all == Intervals(Cuts, Len(text))
           N == Len(all)
           keep == {n \in DOMAIN all : ~AllBlank(all[n])}
           segments == Picked(all, keep)
           M == Len(segments)
           ss == [n \in DOMAIN segments |-> SymbolChunks(segments[n])]
           cs == PlSqlChunks
<1>1. Len(text) \in Nat /\ Lines = 1 .. Len(text) /\ 1 \in Lines
  <2>1. Len(text) \in Nat /\ Lines = 1 .. Len(text) BY TextLines
  <2>2. Lines # {} BY DEF AllBlank
  <2> QED BY <2>1, <2>2
<1>2. Cuts \in SUBSET (1 .. Len(text)) /\ 1 \in Cuts
    BY <1>1 DEF Cuts, SymbolStarts, ObjectStarts
<1>3. IntervalsOf(all, Cuts, Len(text)) BY <1>1, <1>2, IntervalsAre
<1>4. cs = FlattenSeq(ss) BY DEF PlSqlChunks, Cuts
<1> HIDE DEF all, cs
<1>5. /\ all \in Seq(SUBSET (1 .. Len(text)))
      /\ \A b \in Range(all) : \E i \in Cuts : \E e \in i .. Len(text) :
           b = i .. e /\ \A c \in Cuts : c <= i \/ c > e
      /\ \A j \in 1 .. Len(text) : (\E c \in Cuts : c <= j) => \E b \in Range(all) : j \in b
    BY <1>3 DEF IntervalsOf
<1>6. /\ N \in Nat /\ DOMAIN all = 1 .. N /\ all \in [1 .. N -> SUBSET Lines]
  <2>1. SUBSET (1 .. Len(text)) = SUBSET Lines BY <1>1
  <2> QED BY <1>5, <2>1
<1> HIDE DEF N
<1>7. keep \in SUBSET (1 .. N) BY <1>6
<1>8. /\ segments \in Seq(SUBSET Lines)
      /\ \A k \in DOMAIN segments : \E i \in keep : segments[k] = all[i]
      /\ \A i \in keep : \E k \in DOMAIN segments : segments[k] = all[i]
    <2> HIDE DEF keep
    <2> QED BY <1>6, <1>7, PickedEntries
<1>9. \A n \in keep : n \in 1 .. N /\ ~AllBlank(all[n]) BY <1>6
<1>10. \A n \in 1 .. N : AllBlank(all[n]) \/ n \in keep BY <1>6
<1> HIDE DEF keep, segments
<1>11. M \in Nat /\ DOMAIN segments = 1 .. M BY <1>8
<1> HIDE DEF M
<1>12. ASSUME NEW m \in 1 .. M
       PROVE Stretch(segments[m]) /\ SymbolPieces(SymbolChunks(segments[m]), segments[m])
  <2> DEFINE ls == segments[m]
  <2>1. PICK n \in 1 .. N : ls = all[n] BY <1>8, <1>9, <1>11
  <2>2. ls \in Range(all) BY <1>6, <2>1 DEF Range
  <2> HIDE DEF ls
  <2>3. PICK i \in Cuts : \E e \in i .. Len(text) : ls = i .. e /\ \A c \in Cuts : c <= i \/ c > e
      BY <1>5, <2>2
  <2>4. PICK e \in i .. Len(text) : ls = i .. e /\ \A c \in Cuts : c <= i \/ c > e BY <2>3
  <2>5. i \in Nat /\ e \in Nat /\ 1 <= i /\ i <= e /\ e <= Len(text) BY <1>1, <1>2, <2>3
  <2>6. ls \in SUBSET Lines /\ ls # {}
    <3>1. i \in ls BY <2>4, <2>5
    <3>2. ls \subseteq 1 .. Len(text) BY <1>1, <2>4, <2>5
    <3> QED BY <1>1, <3>1, <3>2
  <2>7. Min(ls) = i /\ Max(ls) = e BY <2>4, <2>5, IntervalEnds
  <2>8. \A j \in ls : j > i => j \notin Cuts BY <2>4, <2>5
  <2>9. Stretch(ls) BY <2>6, <2>7, <2>8 DEF Stretch
  <2>10. ls = Min(ls) .. Max(ls) BY <2>4, <2>7
  <2>11. SymbolPieces(SymbolChunks(ls), ls) BY <2>9, <2>10, SymbolChunksAre
  <2> QED BY <2>9, <2>11 DEF ls
<1>13. \A m \in 1 .. M : ss[m] = SymbolChunks(segments[m]) BY <1>11
<1>14. \A m \in 1 .. M : SymbolChunks(segments[m]) \in Seq(ChunkSet) BY <1>12 DEF SymbolPieces
<1>15. ss \in [1 .. M -> Seq(ChunkSet)] BY <1>11, <1>14
<1> HIDE DEF ss
<1>16. Range(cs) = UNION {Range(ss[m]) : m \in 1 .. M} BY <1>4, <1>11, <1>15, FlatRange
<1>17. ASSUME NEW c \in Range(cs)
       PROVE \E ls, ds : /\ Stretch(ls) /\ SymbolPieces(ds, ls) /\ c \in Range(ds)
                         /\ Range(ds) \subseteq Range(cs)
  <2>1. PICK m \in 1 .. M : c \in Range(ss[m]) BY <1>16
  <2>2. Range(ss[m]) \subseteq Range(cs) BY <1>16
  <2>3. Stretch(segments[m]) /\ SymbolPieces(ss[m], segments[m]) BY <1>12, <1>13
  <2> QED BY <2>1, <2>2, <2>3
<1>18. ASSUME NEW i \in Lines, ~Blank(i) PROVE \E c \in Range(cs) : i \in c.lines
  <2>1. 1 <= i /\ i \in 1 .. Len(text) BY <1>1
  <2>2. PICK b \in Range(all) : i \in b BY <1>2, <1>5, <2>1
  <2>3. PICK n \in 1 .. N : b = all[n] BY <1>6 DEF Range
  <2>4. n \in keep BY <1>10, <1>18, <2>2, <2>3 DEF AllBlank
  <2>5. PICK m \in 1 .. M : segments[m] = b BY <1>8, <1>11, <2>3, <2>4
  <2>6. PICK c \in Range(ss[m]) : c.lines = b BY <1>12, <1>13, <2>5 DEF SymbolPieces
  <2>7. c \in Range(cs) BY <1>16, <2>6
  <2> QED BY <2>2, <2>6, <2>7
<1>19. PlSqlPieces(cs) BY <1>17, <1>18 DEF PlSqlPieces
<1> QED BY <1>19 DEF cs

\* Nothing in a string is a place to cut, and what a declaration or a subprogram is cut at is
\* a line of the text.
LEMMA CutLines ==
    ASSUME TextOK, NEW i \in SymbolStarts
    PROVE /\ i \in Lines /\ ~InString(i)
          /\ \/ text[i] \in {"spec", "body"}
             \/ text[i] = "sub" /\ BodyAt(i)
<1>1. ASSUME Cleaned(i) \in {"spec", "body", "sub"} PROVE ~InString(i) /\ text[i] = Cleaned(i)
  <2>1. CASE InString(i) /\ text[i] # "quote" BY <1>1, <2>1 DEF Cleaned
  <2>2. CASE InString(i) /\ text[i] = "quote" BY <1>1, <2>2 DEF Cleaned
  <2>3. CASE ~InString(i) BY <2>3 DEF Cleaned
  <2> QED BY <2>1, <2>2, <2>3
<1>2. CASE i \in ObjectStarts
  <2>1. i \in Lines /\ Cleaned(i) \in {"spec", "body"} BY <1>2 DEF ObjectStarts
  <2>2. ~InString(i) /\ text[i] \in {"spec", "body"} BY <1>1, <2>1
  <2> QED BY <2>1, <2>2
<1>3. CASE i \notin ObjectStarts
  <2>1. i \in {k \in Lines : Cleaned(k) = "sub" /\ BodyAt(k)} BY <1>3 DEF SymbolStarts
  <2>2. i \in Lines /\ Cleaned(i) = "sub" /\ BodyAt(i) BY <2>1, Zenon
  <2>3. ~InString(i) /\ text[i] = "sub" BY <1>1, <2>2
  <2> QED BY <2>2, <2>3
<1> QED BY <1>2, <1>3

\* A declaration outside strings is a place to cut.
LEMMA DeclaredCuts ==
    ASSUME NEW i \in Lines, text[i] \in {"spec", "body"}, ~InString(i)
    PROVE i \in ObjectStarts /\ i \in Cuts
<1>1. Cleaned(i) = text[i] BY DEF Cleaned
<1> QED BY <1>1 DEF ObjectStarts, Cuts, SymbolStarts

\* The first line is in no string.
LEMMA NoStringYet == ~InString(1)
<1>1. {j \in 1 .. 1 - 1 : text[j] = "quote"} = {} OBVIOUS
<1>2. Cardinality({}) = 0 BY FS_EmptySet
<1>3. 0 % 2 # 1 OBVIOUS
<1> QED BY <1>1, <1>2, <1>3 DEF InString

\* A symbol begins at a declaration, or at a subprogram of the package body before it.
BeginsRight(f) ==
    LET before == {i \in 1 .. f : text[i] \in {"spec", "body"} /\ ~InString(i)}
    IN  /\ before # {}
        /\ \/ f = Max(before)
           \/ text[f] = "sub" /\ text[Max(before)] = "body"

\* The greatest of some numbers.
LEMMA GreatestIs ==
    ASSUME NEW S \in SUBSET Nat, NEW m \in S, \A k \in S : k <= m
    PROVE Max(S) = m
<1>1. Max(S) \in S /\ \A k \in S : Max(S) >= k
  <2>1. \E x \in S : \A k \in S : x >= k
    <3>1. \A k \in S : m >= k OBVIOUS
    <3> QED BY <3>1
  <2> QED BY <2>1 DEF Max
<1> DEFINE x == Max(S)
<1>2. x \in S /\ x >= m BY <1>1
<1> HIDE DEF x
<1>3. x \in Nat /\ m \in Nat /\ x <= m BY <1>2
<1>4. x = m BY <1>2, <1>3
<1> QED BY <1>4 DEF x

\* So every cut but the first line begins right.
LEMMA CutsBeginRight ==
    ASSUME TextOK, NEW f \in SymbolStarts
    PROVE BeginsRight(f)
<1> DEFINE before == {i \in 1 .. f : text[i] \in {"spec", "body"} /\ ~InString(i)}
<1>1. /\ f \in Lines /\ ~InString(f)
      /\ \/ text[f] \in {"spec", "body"}
         \/ text[f] = "sub" /\ BodyAt(f)
    BY CutLines
<1>2. Len(text) \in Nat /\ Lines = 1 .. Len(text) /\ f \in Nat BY <1>1, TextLines
<1>3. before \in SUBSET Nat /\ \A k \in before : k <= f /\ k \in Lines BY <1>1, <1>2
<1>4. CASE text[f] \in {"spec", "body"}
  <2>1. f \in before BY <1>1, <1>2, <1>4
  <2>2. \A k \in before : k <= f BY <1>3
  <2> HIDE DEF before
  <2>3. Max(before) = f BY <1>3, <2>1, <2>2, GreatestIs
  <2> QED BY <2>1, <2>3 DEF BeginsRight, before
<1>5. CASE text[f] = "sub" /\ BodyAt(f)
  <2>1. PICK o \in ObjectStarts : /\ o < f /\ text[o] = "body"
                                  /\ \A p \in ObjectStarts : p <= o \/ p >= f
      BY <1>5 DEF BodyAt
  <2>2. o \in SymbolStarts BY <2>1 DEF SymbolStarts
  <2>3. o \in Lines /\ ~InString(o) BY <2>2, CutLines
  <2>4. o \in before BY <1>2, <2>1, <2>3
  <2>5. ASSUME NEW k \in before PROVE k <= o
    <3>1. k \in ObjectStarts
      <4>1. k \in Lines /\ text[k] \in {"spec", "body"} /\ ~InString(k) BY <1>3
      <4> QED BY <4>1, DeclaredCuts
    <3>2. k # f BY <1>5
    <3>3. k <= f /\ k \in Nat /\ o \in Nat BY <1>2, <1>3, <2>3
    <3> QED BY <1>2, <2>1, <3>1, <3>2, <3>3
  <2> HIDE DEF before
  <2>6. Max(before) = o BY <1>3, <2>4, <2>5, GreatestIs
  <2> QED BY <1>5, <2>1, <2>4, <2>6 DEF BeginsRight, before
<1> QED BY <1>1, <1>4, <1>5

\* All that is promised of chunks holds of a PL/SQL source.
LEMMA PlSqlTrue ==
    ASSUME TextOK, type = "plsql", text # <<>>, units = CodeUnits, chunks = SourceChunks
    PROVE ChunksTrue
<1>1. CodeUnitsOK BY CodeUnitsAre
<1>2. PlSqlPieces(chunks)
  <2>1. CASE AllBlank(Lines)
    <3>1. chunks = <<>> BY <2>1 DEF SourceChunks
    <3>2. Range(chunks) = {} BY <3>1 DEF Range
    <3> QED BY <2>1, <3>2 DEF PlSqlPieces, AllBlank
  <2>2. CASE ~AllBlank(Lines)
    <3>1. chunks = PlSqlChunks BY <2>2 DEF SourceChunks
    <3> QED BY <2>2, <3>1, PlSqlChunksAre
  <2> QED BY <2>1, <2>2
<1>3. ASSUME NEW c \in Range(chunks)
      PROVE \E ls, ds : /\ Stretch(ls) /\ SymbolPieces(ds, ls) /\ SymbolPiece(c, ls)
                        /\ c \in Range(ds) /\ Range(ds) \subseteq Range(chunks)
  <2>1. PICK ls, ds : /\ Stretch(ls) /\ SymbolPieces(ds, ls) /\ c \in Range(ds)
                      /\ Range(ds) \subseteq Range(chunks)
      BY <1>2 DEF PlSqlPieces
  <2>2. SymbolPiece(c, ls) BY <2>1 DEF SymbolPieces
  <2> QED BY <2>1, <2>2
<1>4. Leaves = Range(chunks) BY <1>3 DEF Leaves, SymbolPiece
<1>5. NoLineLost BY <1>2, <1>4 DEF PlSqlPieces, NoLineLost, Blank
<1>6. CitedLinesTrue
  <2>1. ASSUME NEW c \in Range(chunks), NEW i \in c.lines PROVE c.first <= i /\ i <= c.last
    <3>1. PICK ls : SymbolPiece(c, ls) BY <1>3
    <3>2. /\ c.lines \in SUBSET Lines /\ c.lines # {}
          /\ c.first = Min(c.lines) /\ c.last = Max(c.lines)
        BY <3>1 DEF SymbolPiece, ChunkSet
    <3> QED BY <3>2, LineEnds
  <2> QED BY <2>1 DEF CitedLinesTrue
<1>7. OnlyWholesOverBudget
  <2>1. ASSUME NEW c \in Leaves, Toks(c.lines) > ChunkMaxTokens
        PROVE Uncut(c, units[1])
    <3>1. PICK ls, ds : /\ Stretch(ls) /\ SymbolPieces(ds, ls) /\ SymbolPiece(c, ls)
                        /\ Range(ds) \subseteq Leaves
        BY <1>3, <1>4
    <3>2. \/ \E d \in Leaves : d.of = c.lines
          \/ \A i \in c.lines : i > c.first => Cleaned(i) \notin {"blank", "begin"}
      <4>1. CASE c.lines = ls
        <5>1. \E d \in Range(ds) : d.of = ls BY <2>1, <3>1, <4>1 DEF SymbolPieces
        <5> QED BY <3>1, <4>1, <5>1
      <4>2. CASE c.lines # ls BY <2>1, <3>1, <4>2 DEF SymbolPiece
      <4> QED BY <4>1, <4>2
    <3>3. units[1].kind = "code" BY <1>1 DEF CodeUnitsOK, Unit
    <3> QED BY <3>2, <3>3 DEF Uncut
  <2>2. 1 \in DOMAIN units BY <1>1 DEF CodeUnitsOK
  <2> QED BY <2>1, <2>2 DEF OnlyWholesOverBudget
<1>8. HeaderRepeated BY <1>1, NoTables
<1>9. OneSection BY DEF OneSection
<1>10. OneParent BY DEF OneParent
<1>11. ASSUME NEW c \in Leaves, c.of = {}
       PROVE /\ ~InString(c.first)
             /\ c.first > 1 => BeginsRight(c.first)
             /\ \A i \in c.lines : i > c.first /\ text[i] \in {"spec", "body"} => InString(i)
  <2>1. PICK ls : Stretch(ls) /\ SymbolPiece(c, ls) BY <1>3, <1>4
  <2>2. /\ ls \in SUBSET Lines /\ ls # {} /\ Min(ls) \in Cuts
        /\ \A j \in ls : j > Min(ls) => j \notin Cuts
      BY <2>1 DEF Stretch
  <2>3. c.lines = ls /\ c.first = Min(ls) BY <1>11, <2>1, <2>2 DEF SymbolPiece
  <2>4. c.first = 1 \/ c.first \in SymbolStarts BY <2>2, <2>3 DEF Cuts
  <2>5. ~InString(c.first) BY <2>4, NoStringYet, CutLines
  <2>6. c.first > 1 => BeginsRight(c.first)
    <3>1. ~ (1 > 1) OBVIOUS
    <3> QED BY <2>4, <3>1, CutsBeginRight
  <2>7. ASSUME NEW i \in c.lines, i > c.first, text[i] \in {"spec", "body"} PROVE InString(i)
    <3>1. i \notin Cuts BY <2>2, <2>3, <2>7
    <3>2. i \in Lines BY <2>2, <2>3
    <3> QED BY <2>7, <3>1, <3>2, DeclaredCuts
  <2> QED BY <2>5, <2>6, <2>7
<1>12. ASSUME NEW c \in Leaves, c.of # {}
       PROVE UNION {d.lines : d \in {e \in Leaves : e.of = c.of}} = c.of
  <2>1. PICK ls, ds : /\ SymbolPieces(ds, ls) /\ SymbolPiece(c, ls)
                      /\ c \in Range(ds) /\ Range(ds) \subseteq Leaves
      BY <1>3, <1>4
  <2>2. c.of = ls BY <1>12, <2>1 DEF SymbolPiece
  <2>3. \A i \in ls : \E d \in Range(ds) : d.of = ls /\ i \in d.lines
      BY <2>1, <2>2 DEF SymbolPieces
  <2>4. ASSUME NEW d \in Leaves, d.of = c.of PROVE d.lines \subseteq c.of
    <3>1. PICK other : SymbolPiece(d, other) BY <1>3, <1>4
    <3>2. d.of = other /\ d.lines \subseteq other BY <1>12, <2>4, <3>1 DEF SymbolPiece
    <3> QED BY <2>4, <3>2
  <2> QED BY <2>1, <2>2, <2>3, <2>4
<1>13. DeclarationsWhole
  <2>1. \A c \in Leaves : c.of = {} =>
          /\ ~InString(c.first)
          /\ c.first > 1 => BeginsRight(c.first)
          /\ \A i \in c.lines : i > c.first /\ text[i] \in {"spec", "body"} => InString(i)
      BY <1>11
  <2>2. \A c \in Leaves : c.of # {} =>
          UNION {d.lines : d \in {e \in Leaves : e.of = c.of}} = c.of
      BY <1>12
  <2> HIDE DEF Leaves
  <2> QED BY <2>1, <2>2 DEF DeclarationsWhole, BeginsRight
<1> QED BY <1>5, <1>6, <1>7, <1>8, <1>9, <1>10, <1>13 DEF ChunksTrue

-----------------------------------------------------------------------------
(***************************************************************************)
(* The way of a file                                                       *)
(***************************************************************************)

\* What is parsed depends on the file and its type only.
LEMMA SameUnits == ASSUME text' = text, type' = type PROVE ParsedUnits' = ParsedUnits
<1>1. PlainUnits' = PlainUnits BY DEF Lines, BlankBlocks, Blank, RunEnd, PlainUnits
<1>2. MarkdownUnits' = MarkdownUnits
    BY DEF Lines, Blank, RunEnd, MarkdownUnits, NextBlock, MarkdownBlock, Separates
<1>3. CodeUnits' = CodeUnits
    BY DEF Lines, RunEnd, CodeUnits, Declarations, ObjectStarts, Cleaned, InString
<1> QED BY <1>1, <1>2, <1>3 DEF ParsedUnits

\* What is chunked depends on the file, its type and its units only.
LEMMA SameChunks ==
    ASSUME text' = text, type' = type, units' = units
    PROVE SourceChunks' = SourceChunks
<1>1. \A ls : (AllBlank(ls)' <=> AllBlank(ls)) BY DEF AllBlank, Blank
<1>2. \A ls : Toks(ls)' = Toks(ls) BY DEF Toks, Lines
<1>3. \A ls : BlankBlocks(ls)' = BlankBlocks(ls) BY DEF Lines, BlankBlocks, Blank, RunEnd
<1>4. \A b, ls : Greedy(b, ls)' = Greedy(b, ls) BY DEF Greedy, AddBlock, Toks, Lines
<1>5. \A u : FenceChunks(u)' = FenceChunks(u)
  <2>1. \A u : FencedCode(u)' = FencedCode(u) BY <1>1 DEF FencedCode, Lines
  <2> QED BY <1>1, <1>2, <1>3, <1>4, <2>1 DEF FenceChunks, Chunk
<1>6. \A u : TableChunks(u)' = TableChunks(u)
  <2>1. \A u : HeaderOf(u)' = HeaderOf(u) BY DEF HeaderOf
  <2> QED BY <1>4, <2>1 DEF TableChunks, Chunk
<1>7. \A us : DocChunks(us)' = DocChunks(us)
    BY DEF DocChunks, MakeDocChunk, Chunk, LinesOf, AddUnit, OverlapTail, Toks, Lines
<1>8. \A seg : SegmentChunks(seg)' = SegmentChunks(seg) BY <1>5, <1>6, <1>7 DEF SegmentChunks
<1>9. \A us : HeadingPaths(us)' = HeadingPaths(us) BY DEF HeadingPaths, Below
<1>10. Placed(units)' = Placed(units) BY <1>9 DEF Placed, Under
<1>11. \A cs : Parents(cs)' = Parents(cs)
  <2>1. \A cs : ChildBuckets(cs)' = ChildBuckets(cs)
      BY DEF ChildBuckets, AddChild, ChildToks, Toks, Lines
  <2> QED BY <2>1 DEF Parents
<1>12. DocumentChunks' = DocumentChunks BY <1>8, <1>10, <1>11 DEF DocumentChunks
<1>13. GenericChunks' = GenericChunks
  <2>1. \A a, b : ContainingSymbol(a, b)' = ContainingSymbol(a, b) BY DEF ContainingSymbol
  <2>2. Lines' = Lines BY DEF Lines
  <2> QED BY <1>2, <1>3, <1>4, <2>1, <2>2 DEF GenericChunks, Chunk
<1>14. PlSqlChunks' = PlSqlChunks
  <2>1. \A i : Cleaned(i)' = Cleaned(i) BY DEF Cleaned, InString
  <2>2. SymbolStarts' = SymbolStarts BY DEF SymbolStarts, ObjectStarts, BodyAt, Cleaned, InString, Lines
  <2>3. \A ls : SymbolChunks(ls)' = SymbolChunks(ls) BY <1>2, <1>4, <2>1 DEF SymbolChunks, Chunk
  <2> QED BY <1>1, <2>2, <2>3 DEF PlSqlChunks
<1>15. Lines' = Lines BY DEF Lines
<1> QED BY <1>1, <1>12, <1>13, <1>14, <1>15 DEF SourceChunks

\* The units and the chunks are those of the file, which is not empty once a parser reads it.
ChunkInv ==
    /\ TextOK
    /\ stage \in {"file", "parsing", "parsed", "chunked"} => type \in DOMAIN LineKinds
    /\ stage \in {"parsing", "parsed", "chunked"} => text # <<>>
    /\ stage \in {"parsed", "chunked"} => units = ParsedUnits
    /\ stage = "chunked" => chunks = SourceChunks

\* A file begins empty.
LEMMA ChunkInvInit == ChunkInit => ChunkInv
<1>1. <<>> \in Seq(DOMAIN LineCost) OBVIOUS
<1> QED BY <1>1 DEF ChunkInit, ChunkInv, TextOK

\* Every step of a file keeps the invariant.
LEMMA ChunkInvStep == ChunkInv /\ [ChunkNext]_chunkVars => ChunkInv'
<1> SUFFICES ASSUME ChunkInv, [ChunkNext]_chunkVars PROVE ChunkInv'
    OBVIOUS
<1> USE DEF ChunkInv
<1>1. ASSUME NEW c \in Claims, Arrive(c) PROVE ChunkInv'
  <2>1. /\ text' = text
        /\ type' = IF Detect(c) = "code" /\ c.plsql THEN "plsql" ELSE Detect(c)
        /\ stage' \in {"refused", "file", "elsewhere"}
        /\ stage' = "file" => Detect(c) \in DOMAIN LineKinds
      BY <1>1 DEF Arrive
  <2>2. type' \in DOMAIN LineKinds \/ stage' # "file" BY <2>1, ChunkingAssumption
  <2>3. TextOK' BY <2>1 DEF TextOK
  <2> QED BY <2>1, <2>2, <2>3
<1>2. ASSUME stage = "file", NEW k \in LineKinds[type], WriteLine(k) PROVE ChunkInv'
  <2>1. k \in DOMAIN LineCost BY <1>2, ChunkingAssumption
  <2>2. text' = Append(text, k) /\ type' = type /\ stage' = stage BY <1>2 DEF WriteLine
  <2>3. TextOK' BY <2>1, <2>2 DEF TextOK
  <2> QED BY <1>2, <2>2, <2>3
<1>3. ASSUME StartParser PROVE ChunkInv'
  <2>1. text' = text /\ type' = type /\ stage' = "parsing" /\ stage = "file" /\ text # <<>>
      BY <1>3 DEF StartParser
  <2>2. TextOK' BY <2>1 DEF TextOK
  <2> QED BY <2>1, <2>2
<1>4. ASSUME ParserAnswers PROVE ChunkInv'
  <2>1. /\ text' = text /\ type' = type /\ stage' = "parsed" /\ stage = "parsing"
        /\ units' = ParsedUnits
      BY <1>4 DEF ParserAnswers
  <2>2. TextOK' BY <2>1 DEF TextOK
  <2>3. ParsedUnits' = ParsedUnits BY <2>1, SameUnits
  <2> QED BY <2>1, <2>2, <2>3
<1>5. ASSUME ParserFails PROVE ChunkInv'
  <2>1. text' = <<>> /\ stage' = "refused" BY <1>5 DEF ParserFails
  <2>2. TextOK' BY <2>1 DEF TextOK
  <2> QED BY <2>1, <2>2
<1>6. ASSUME ChunkSource PROVE ChunkInv'
  <2>1. /\ text' = text /\ type' = type /\ units' = units /\ stage' = "chunked"
        /\ stage = "parsed" /\ chunks' = SourceChunks
      BY <1>6 DEF ChunkSource
  <2>2. TextOK' BY <2>1 DEF TextOK
  <2>3. ParsedUnits' = ParsedUnits /\ SourceChunks' = SourceChunks
      BY <2>1, SameUnits, SameChunks
  <2> QED BY <2>1, <2>2, <2>3
<1>7. ASSUME UNCHANGED chunkVars PROVE ChunkInv'
  <2>1. /\ text' = text /\ type' = type /\ units' = units /\ stage' = stage
        /\ chunks' = chunks
      BY <1>7 DEF chunkVars
  <2>2. TextOK' BY <2>1 DEF TextOK
  <2>3. ParsedUnits' = ParsedUnits /\ SourceChunks' = SourceChunks
      BY <2>1, SameUnits, SameChunks
  <2> QED BY <2>1, <2>2, <2>3
<1> QED BY <1>1, <1>2, <1>3, <1>4, <1>5, <1>6, <1>7 DEF ChunkNext

\* The invariant holds throughout.
LEMMA ChunkInvHolds == ChunkSpec => []ChunkInv
<1>1. ChunkInit => ChunkInv BY ChunkInvInit
<1>2. ChunkInv /\ [ChunkNext]_chunkVars => ChunkInv' BY ChunkInvStep
<1> QED BY <1>1, <1>2, PTL DEF ChunkSpec

\* The chunks of a file hold all of its text, under its headings and symbols, cited by the
\* right lines and within the budgets of the chunkers, whatever its lines are.
THEOREM ChunksAreTrue == ChunkSpec => []ChunksTrue
<1>1. ChunkInv => ChunksTrue
  <2> SUFFICES ASSUME ChunkInv, stage = "chunked" PROVE ChunksTrue
      BY DEF ChunksTrue
  <2>1. /\ TextOK /\ type \in {"plain_text", "markdown", "code", "plsql"} /\ text # <<>>
        /\ units = ParsedUnits /\ chunks = SourceChunks
      BY ChunkingAssumption DEF ChunkInv
  <2>2. CASE type = "code"
    <3>1. units = CodeUnits BY <2>1, <2>2 DEF ParsedUnits
    <3> QED BY <2>1, <2>2, <3>1, GenericTrue
  <2>3. CASE type = "plsql"
    <3>1. units = CodeUnits BY <2>1, <2>3 DEF ParsedUnits
    <3> QED BY <2>1, <2>3, <3>1, PlSqlTrue
  <2>4. CASE type \in {"plain_text", "markdown"}
    <3> DEFINE cs == DocumentLeaves(units)
               ps == Parents(cs)
    <3>1. DocUnits(units)
      <4>1. CASE type = "plain_text"
        <5>1. units = PlainUnits BY <2>1, <4>1 DEF ParsedUnits
        <5> QED BY <2>1, <4>1, <5>1, PlainDocument
      <4>2. CASE type = "markdown"
        <5>1. units = MarkdownUnits BY <2>1, <4>2 DEF ParsedUnits
        <5> QED BY <2>1, <4>2, <5>1, MarkdownDocument
      <4> QED BY <2>4, <4>1, <4>2
    <3>2. type # "plsql" /\ type # "code" BY <2>4
    <3>3. LeavesOf(cs, units) BY <2>1, <3>1, <3>2, DocumentLeavesAre
    <3>4. cs \in Seq(ChunkSet) BY <3>3 DEF LeavesOf
    <3>5. chunks = cs \o ps
      <4>1. chunks = DocumentChunks BY <2>1, <3>2 DEF SourceChunks
      <4> QED BY <4>1 DEF DocumentChunks, DocumentLeaves
    <3> HIDE DEF cs
    <3>6. ParentsOf(ps, cs) BY <2>1, <3>4, ParentsAre
    <3> HIDE DEF ps
    <3>7. DocumentOK(cs, ps) BY <2>1, <2>4, <3>1, <3>3, <3>5, <3>6 DEF DocumentOK
    <3> QED BY <3>7, DocumentTrue
  <2> QED BY <2>1, <2>2, <2>3, <2>4
<1> QED BY <1>1, ChunkInvHolds, PTL
=============================================================================
