---------------------------- MODULE RepositoryScan ----------------------------
(***************************************************************************)
(* Scans of directories, repositories and archives (api/v1/repositories.py *)
(* and infrastructure/repositories) up to the version each one makes.      *)
(* A directory is read where it lies, first to hash its files and again to *)
(* bundle them; a repository is cloned and an archive extracted first.     *)
(*                                                                         *)
(* A content stands for its bytes and for their hash.  Globs are the sets  *)
(* of paths they match.  Acceptance is one step (SourceStorage has its     *)
(* interleavings), and so is the job of a version (IngestionJob has it).   *)
(***************************************************************************)
EXTENDS Integers, Sequences, FiniteSets, FiniteSetsExt

CONSTANTS
  Files, Dirs, Above,                \* the paths, the directories and those above a path
  WalkOrder, PathOrder,              \* Files as os.walk and as sorted paths list them
  VaultFile, GitFile,                \* .contextvaultignore and .gitignore of the root
  Contents, NoFile, SizeOf, BinaryContents, RulesIn,  \* RulesIn[c]: the rules c holds as an ignore file
  SystemRules, Sensitive, Generated,
  ScanConfigs, AskedConfig, FirstTree, Scans,
  MaxFiles, MaxBytes, MaxFileBytes,  \* limits of a walk
  MaxEntries, MaxArchiveBytes, MaxEntryBytes,        \* limits of an archive
  MaxTreeEdits                       \* bound

Rules == [paths : SUBSET (Files \cup Dirs), negate : BOOLEAN]

ASSUME ScanAssumption ==
  /\ {VaultFile, GitFile} \subseteq Files /\ NoFile \notin Contents
  /\ Above \in [Files -> SUBSET Dirs] /\ SizeOf \in [Contents -> Nat]
  /\ \A order \in {WalkOrder, PathOrder} :
       /\ order \in Seq(Files) /\ {order[i] : i \in DOMAIN order} = Files
       /\ Len(order) = Cardinality(Files)
  /\ \A c \in Contents : RulesIn[c] \in Seq(Rules)
  /\ SystemRules \in Seq(Rules) /\ AskedConfig \in ScanConfigs
  /\ \A f \in ScanConfigs : f.include \cup f.exclude \subseteq Files \cup Dirs
  /\ FirstTree \in [Files -> Contents \cup {NoFile}]
  /\ {MaxFiles, MaxBytes, MaxFileBytes, MaxEntries, MaxArchiveBytes, MaxEntryBytes, MaxTreeEdits}
       \subseteq Nat

Kinds == {"directory", "repository", "archive"}

\* tree: the source as it lies.  scan[s]: one request; `during' is the history of what each
\* path held while it ran.  sources: the documents.  versions: what was accepted, with the
\* request that made it.
VARIABLES tree, scan, sources, versions, treeEdits
scanVars == <<tree, scan, sources, versions, treeEdits>>

NoTree == [p \in Files |-> NoFile]
NoScan == [pc |-> "idle", kind |-> "none", upload |-> NoTree, document |-> 0, config |-> AskedConfig,
           copy |-> NoTree, commit |-> 0, rules |-> <<>>, at |-> 1, found |-> {}, total |-> 0,
           cut |-> FALSE, bundle |-> {}, during |-> [p \in Files |-> {}], answer |-> 0]

ScanInit ==
  /\ tree = FirstTree
  /\ scan = [s \in Scans |-> NoScan]
  /\ sources = <<>> /\ versions = <<>> /\ treeEdits = 0

----------------------------------------------------------------------------
(* ignore_rules.py: four layers; the first that has a matching rule        *)
(* decides, and within it the last matching rule.                          *)

Matching(rules, x) == {i \in DOMAIN rules : x \in rules[i].paths}
LastMatch(rules, x) == CHOOSE i \in Matching(rules, x) : \A j \in Matching(rules, x) : j <= i

\* IgnoreRules.__init__: a negation of the system layer counts as a rule, and the user's
\* includes come before the excludes.
UserRules(config) == << [paths |-> config.include, negate |-> TRUE],
                        [paths |-> config.exclude, negate |-> FALSE] >>
Layers(vault, git, config) ==
  << [i \in DOMAIN SystemRules |-> [SystemRules[i] EXCEPT !.negate = FALSE]],
     vault, git, UserRules(config) >>

IsIgnored(layers, x) ==
  LET Deciding == {i \in DOMAIN layers : Matching(layers[i], x) # {}} IN
  /\ Deciding # {}
  /\ LET i == CHOOSE i \in Deciding : \A j \in Deciding : i <= j
     IN ~layers[i][LastMatch(layers[i], x)].negate

\* discover_directory: an ignored directory is pruned with all below it, and sensitive paths
\* are left out.
Wanted(layers, p) ==
  /\ ~IsIgnored(layers, p) /\ \A d \in Above[p] : ~IsIgnored(layers, d)
  /\ p \notin Sensitive

----------------------------------------------------------------------------
(* The request.                                                            *)

Running(s) == scan[s].pc \notin {"idle", "ended", "failed"}
Seeing(s, p) == IF scan[s].kind = "directory" THEN tree[p] ELSE scan[s].copy[p]
Go(s, record) == scan' = [scan EXCEPT ![s] = record]
FailScan(s) == Go(s, [scan[s] EXCEPT !.pc = "failed"])
First == [p \in Files |-> {tree[p]}]

\* ingest_repository, upload_archive, scan_directory: a first step of a new request.
AskScan(s, kind) ==
  /\ scan[s].pc = "idle"
  /\ Go(s, [NoScan EXCEPT !.pc = IF kind = "directory" THEN "load" ELSE "copy",
                          !.kind = kind, !.during = First,
                          !.upload = IF kind = "archive" THEN tree ELSE NoTree])
  /\ UNCHANGED <<tree, sources, versions, treeEdits>>

\* refresh_document, _read_scan_config: the document of the request and the configuration of its
\* active version; the original of an archive's version is the bundle, which is no archive.
AskRefresh(s, d) ==
  /\ scan[s].pc = "idle" /\ d \in DOMAIN sources /\ sources[d].active # 0
  /\ LET v == versions[sources[d].active] IN
     Go(s, [NoScan EXCEPT
              !.pc = CASE sources[d].kind = "directory" -> "load"
                       [] sources[d].kind = "repository" -> "copy"
                       [] OTHER -> "failed",
              !.kind = sources[d].kind, !.document = d, !.config = v.config, !.during = First])
  /\ UNCHANGED <<tree, sources, versions, treeEdits>>

\* GitRepositorySource.clone, ArchiveSourceScanner.extract: one moment of the source.  Of an
\* archive, entries that are too large are left out, and one with too much is refused.
Clone(s) ==
  /\ scan[s].pc = "copy" /\ scan[s].kind = "repository"
  /\ Go(s, [scan[s] EXCEPT !.pc = "load", !.copy = tree, !.commit = treeEdits])
  /\ UNCHANGED <<tree, sources, versions, treeEdits>>

Members(upload) == {p \in Files : upload[p] # NoFile}
Extracted(upload) == {p \in Members(upload) : SizeOf[upload[p]] <= MaxEntryBytes}
Extract(s) ==
  /\ scan[s].pc = "copy" /\ scan[s].kind = "archive"
  /\ LET upload == scan[s].upload
         bytes == MapThenSumSet(LAMBDA p : SizeOf[upload[p]], Extracted(upload)) IN
     IF Cardinality(Members(upload)) > MaxEntries \/ bytes > MaxArchiveBytes
     THEN FailScan(s)
     ELSE Go(s, [scan[s] EXCEPT !.pc = "load",
                   !.copy = [p \in Files |-> IF p \in Extracted(upload) THEN upload[p] ELSE NoFile]])
  /\ UNCHANGED <<tree, sources, versions, treeEdits>>

\* git ends with an error or out of time.
CloneFails(s) ==
  /\ scan[s].pc = "copy" /\ scan[s].kind = "repository"
  /\ FailScan(s)
  /\ UNCHANGED <<tree, sources, versions, treeEdits>>

\* build_ignore_rules: the ignore files as they are now.
RulesAt(c) == IF c = NoFile THEN <<>> ELSE RulesIn[c]
LoadRules(s) ==
  /\ scan[s].pc = "load"
  /\ Go(s, [scan[s] EXCEPT !.pc = "walk",
              !.rules = Layers(RulesAt(Seeing(s, VaultFile)), RulesAt(Seeing(s, GitFile)),
                               scan[s].config)])
  /\ UNCHANGED <<tree, sources, versions, treeEdits>>

\* discover_directory, one file of the walk: what is left out, what ends the walk, what is
\* hashed.  That it was cut short stays with the scanner: discover_files returns the files.
Walked(s) == WalkOrder[scan[s].at]
StopWalk(g) == [g EXCEPT !.pc = "find", !.cut = TRUE]
Onward(g) == IF g.at = Len(WalkOrder) THEN [g EXCEPT !.pc = "find"] ELSE [g EXCEPT !.at = @ + 1]

Discovered(g, p, c) ==
  IF ~Wanted(g.rules, p) \/ c = NoFile \/ SizeOf[c] > MaxFileBytes THEN Onward(g)
  ELSE IF g.total + SizeOf[c] > MaxBytes THEN StopWalk(g)
  ELSE LET h == [g EXCEPT !.found = @ \cup {[path |-> p, hash |-> c]}, !.total = @ + SizeOf[c]]
       IN IF Cardinality(h.found) >= MaxFiles THEN StopWalk(h) ELSE Onward(h)

WalkFile(s) ==
  /\ scan[s].pc = "walk"
  /\ Go(s, Discovered(scan[s], Walked(s), Seeing(s, Walked(s))))
  /\ UNCHANGED <<tree, sources, versions, treeEdits>>

\* The deadline is looked at where a directory begins.
DeadlinePasses(s) ==
  /\ scan[s].pc = "walk"
  /\ \A i \in 1..(scan[s].at - 1) : Above[WalkOrder[i]] # Above[Walked(s)]
  /\ Go(s, StopWalk(scan[s]))
  /\ UNCHANGED <<tree, sources, versions, treeEdits>>

\* _find_source_document: the document of this origin, if a request does not name it.  Nothing
\* is locked: two first scans of one origin may both find none.
FindDocument(s) ==
  /\ scan[s].pc = "find"
  /\ \/ scan[s].document # 0 /\ Go(s, [scan[s] EXCEPT !.pc = "bundle", !.at = 1])
     \/ /\ scan[s].document = 0
        /\ LET Same == {d \in DOMAIN sources : sources[d].kind = scan[s].kind
                                               /\ sources[d].upload = scan[s].upload}
           IN \E d \in IF Same = {} THEN {0} ELSE Same :
                Go(s, [scan[s] EXCEPT !.pc = "bundle", !.at = 1, !.document = d])
  /\ UNCHANGED <<tree, sources, versions, treeEdits>>

\* build_scan_bundle, one file: binary and generated files are left out, a file that is gone
\* ends the request, and the hash is the one of the walk.
Bundled(g) == IF g.at = Len(PathOrder) THEN [g EXCEPT !.pc = "accept"] ELSE [g EXCEPT !.at = @ + 1]
BundleFile(s) ==
  /\ scan[s].pc = "bundle"
  /\ LET p == PathOrder[scan[s].at]  c == Seeing(s, p)
         Kept == {f \in scan[s].found : f.path = p /\ f.hash \notin BinaryContents /\ p \notin Generated}
     IN IF Kept = {} THEN Go(s, Bundled(scan[s]))
        ELSE IF c = NoFile THEN FailScan(s)
        ELSE Go(s, Bundled([scan[s] EXCEPT
               !.bundle = @ \cup {[path |-> p, hash |-> f.hash, content |-> c] : f \in Kept}]))
  /\ UNCHANGED <<tree, sources, versions, treeEdits>>

\* _reindex: the bundle is accepted under a key of kind, origin, revision and checksum.  The
\* revision is the hash of the listing, the commit, or the checksum of the upload.
Revision(s) == [listing |-> IF scan[s].kind = "directory" THEN scan[s].found ELSE {},
                commit |-> scan[s].commit, upload |-> scan[s].upload]

\* Mutant: the revision alone tells two bundles of an origin apart.
KeyOfRevision(s) == [kind |-> scan[s].kind, revision |-> Revision(s), bundle |-> {}]

Key(s) == [kind |-> scan[s].kind, revision |-> Revision(s), bundle |-> scan[s].bundle]

Replay(s) ==
  /\ scan[s].pc = "accept"
  /\ \E v \in DOMAIN versions :
       /\ versions[v].key = Key(s)
       /\ Go(s, [scan[s] EXCEPT !.pc = "ended", !.answer = v])
  /\ UNCHANGED <<tree, sources, versions, treeEdits>>

Accept(s) ==
  /\ scan[s].pc = "accept"
  /\ \A v \in DOMAIN versions : versions[v].key # Key(s)
  /\ LET d == IF scan[s].document = 0 THEN Len(sources) + 1 ELSE scan[s].document IN
     /\ sources' = IF d \in DOMAIN sources THEN sources
                   ELSE Append(sources, [kind |-> scan[s].kind, upload |-> scan[s].upload, active |-> 0])
     /\ versions' = Append(versions, [document |-> d, key |-> Key(s), status |-> "pending",
                                      config |-> scan[s].config, bundle |-> scan[s].bundle, by |-> s])
     /\ Go(s, [scan[s] EXCEPT !.pc = "ended", !.answer = Len(versions) + 1])
  /\ UNCHANGED <<tree, treeEdits>>

----------------------------------------------------------------------------
(* The jobs of the versions, and people who edit the source.               *)

IngestVersion(v) ==
  /\ v \in DOMAIN versions /\ versions[v].status = "pending"
  /\ LET d == versions[v].document IN
     /\ versions' = [w \in DOMAIN versions |->
          IF w = v THEN [versions[w] EXCEPT !.status = "ready"]
          ELSE IF w = sources[d].active THEN [versions[w] EXCEPT !.status = "superseded"]
          ELSE versions[w]]
     /\ sources' = [sources EXCEPT ![d].active = v]
  /\ UNCHANGED <<tree, scan, treeEdits>>

JobFails(v) ==
  /\ v \in DOMAIN versions /\ versions[v].status = "pending"
  /\ versions' = [versions EXCEPT ![v].status = "failed"]
  /\ UNCHANGED <<tree, scan, sources, treeEdits>>

EditFile(p, c) ==
  /\ treeEdits < MaxTreeEdits /\ tree[p] # c
  /\ tree' = [tree EXCEPT ![p] = c]
  /\ scan' = [s \in Scans |-> IF Running(s) THEN [scan[s] EXCEPT !.during[p] = @ \cup {c}] ELSE scan[s]]
  /\ treeEdits' = treeEdits + 1
  /\ UNCHANGED <<sources, versions>>

ScanNext ==
  \/ \E s \in Scans :
       \/ \E kind \in Kinds : AskScan(s, kind)
       \/ \E d \in DOMAIN sources : AskRefresh(s, d)
       \/ Clone(s) \/ CloneFails(s) \/ Extract(s) \/ LoadRules(s) \/ WalkFile(s) \/ DeadlinePasses(s)
       \/ FindDocument(s) \/ BundleFile(s) \/ Replay(s) \/ Accept(s)
  \/ \E v \in DOMAIN versions : IngestVersion(v) \/ JobFails(v)
  \/ \E p \in Files, c \in Contents \cup {NoFile} : EditFile(p, c)

ScanSpec == ScanInit /\ [][ScanNext]_scanVars

----------------------------------------------------------------------------
(* Property.                                                               *)

\* What the documented precedence leaves to a scan: no rule that ignores the path, or a
\* directory above it, is free of an earlier layer's and of a later rule's word on it.
Spared(layers, x) ==
  ~ \E i \in DOMAIN layers : \E j \in DOMAIN layers[i] :
      /\ x \in layers[i][j].paths /\ ~layers[i][j].negate
      /\ \A h \in DOMAIN layers : \A k \in DOMAIN layers[h] :
           x \in layers[h][k].paths => h > i \/ (h = i /\ k <= j)
Ingestible(layers, p) ==
  /\ \A x \in {p} \cup Above[p] : Spared(layers, x)
  /\ p \notin Sensitive \cup Generated

\* Each file of the bundle was to be ingested, and its text and its hash are what the file held
\* at some moment of the scan, the same moment for a clone or an archive; and a scan that no
\* limit cut short has every file that stayed what it was.
MirrorsSource(bundle, g) ==
  /\ \A f \in bundle :
       /\ Ingestible(g.rules, f.path)
       /\ {f.hash, f.content} \subseteq g.during[f.path]
       /\ g.kind # "directory" => f.hash = f.content
       /\ \A e \in bundle : e.path = f.path => e = f
  /\ \A p \in Files, c \in Contents \ BinaryContents :
       /\ ~g.cut /\ g.during[p] = {c} /\ Ingestible(g.rules, p)
       /\ SizeOf[c] <= MaxFileBytes /\ (g.kind = "archive" => SizeOf[c] <= MaxEntryBytes)
       => [path |-> p, hash |-> c, content |-> c] \in bundle

\* However edits of the source interleave with the two readings of it, and whichever requests
\* run together: a version mirrors its source as the request that made it saw it, and a request
\* is answered with a version of its own origin that holds just what it bundled, whether it
\* made that version or was taken for a repetition.
ScanMirrorsSource ==
  /\ \A v \in DOMAIN versions : MirrorsSource(versions[v].bundle, scan[versions[v].by])
  /\ \A s \in Scans : scan[s].pc = "ended" =>
       LET v == versions[scan[s].answer] IN
       /\ v.bundle = scan[s].bundle
       /\ sources[v.document].kind = scan[s].kind /\ sources[v.document].upload = scan[s].upload

===============================================================================
