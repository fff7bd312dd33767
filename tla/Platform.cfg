SPECIFICATION PlatformSpec
CONSTANTS
  \* BackupDrill
  r1 = r1  r2 = r2  x1 = x1  x2 = x2  k1 = k1  k2 = k2  k3 = k3  t1 = t1  t2 = t2  b1 = b1
  BackupRuns = {r1, r2}
  Drills = {x1, x2}
  Keys = {k1, k2, k3}
  Settled = {k1}
  Staged = {k2}
  Buckets = {b1}
  TargetDbs = {t1, t2}
  SlotLength = 2
  Tolerance = 0
  MaxTime = 2
  MaxChanges = 1
  MaxKills = 1
  \* RateLimiter
  Limit = 2
  Window = 2
  MaxTicks = 5
  \* KnowledgeRegistry
  kv1 = kv1  kv2 = kv2  kv3 = kv3  alice = alice  bob = bob  carol = carol  ks1 = ks1  ks2 = ks2
  Revisions = {kv1, kv2, kv3}
  NoRevision = none
  People = {alice, bob, carol}
  Proposers = {alice}
  Teams <- MCTeams
  Sessions = {ks1, ks2}
  Attempts = {a1}
  Contexts <- MCContexts
  Adapters = {codex}
  NoPerson = nobody
  NoContext = nothing
  MaxManifests = 2
  \* KnowledgeLedger
  Notes = {kv1, kv2, kv3}
  NoNote = none
  Says <- MCSays
  Authors = {alice}
  Judges = {bob, carol}
  Owners = {bob}
  PolicyActors = {carol}
  NobodyYet = nobody
  Policies <- MCApprovals
  Readers = {ks1, ks2}
  \* AnswerTurn
  d1 = d1  d2 = d2  v1 = v1  v2 = v2  w1 = w1  q1 = q1  q2 = q2  q3 = q3  q4 = q4  hd = hd
  NoText = NoText
  Docs = {d1, d2}
  DocOf <- MCDocOf
  FirstServed <- MCFirstServed
  ChunkIds <- MCChunkIds
  Text <- MCText
  Header <- MCHeader
  Cost <- MCCost
  Exportable = {v1, v2}
  Scopes <- MCScopes
  SearchK <- MCSearchK
  RrfK = 1
  RrfScale = 6
  FusionK = 3
  RerankK = 2
  RerankMax = 3
  RerankTokens = 3
  ContextChunks = 3
  ContextTokens = 4
  Adjacent = 1
  PromptTokens = 3
  Repairs = 1
  Replies <- MCReplies
  MaxDocChanges = 2
  \* ContextCompiler
  Catalog <- MCCatalog
  CliAdapters = {codex}
  ClaimTime = 1
  MaxTokens = 2
  MaxRevisions = 2
  MaxHours = 1
  Asked <- MCAsked
  MaxHandoffs = 2
  MaxIntents = 2
  \* BenchmarkRun
  Records = 2
  VisitCalls = 2
  CallLimit = 5
  RunTime = 1
  MaxMinutes = 2
  MaxLate = 2
  \* EvalGate
  ApprovalTime = 2
  MaxEdits = 1
  MaxDays = 1
  MaxInvocations = 3
  MaxReviews = 1
  \* RepositoryScan
  vault = vault  git = git  top = top  deep = deep  sub = sub
  plain = plain  other = other  rulesText = rulesText  huge = huge  sc1 = sc1  sc2 = sc2
  Files = {vault, git, top, deep}
  Dirs = {sub}
  Above <- MCAbove
  WalkOrder <- MCOrder
  PathOrder <- MCOrder
  VaultFile = vault
  GitFile = git
  Contents = {plain, other, rulesText, huge}
  NoFile = gone
  SizeOf <- MCSize
  BinaryContents = {other}
  RulesIn <- MCRules
  SystemRules <- MCSystem
  Sensitive = {}
  Generated = {}
  ScanConfigs <- MCConfigs
  AskedConfig <- MCAskedConfig
  FirstTree <- MCTree
  Scans = {sc1, sc2}
  MaxFiles = 2
  MaxBytes = 3
  MaxFileBytes = 2
  MaxEntries = 4
  MaxArchiveBytes = 5
  MaxEntryBytes = 2
  MaxTreeEdits = 1
  \* ReleaseGate
  c1 = c1  c2 = c2  i1 = i1  i2 = i2
  Commits = {c1, c2}
  FirstCommit = c1
  Checkouts <- MCCheckouts
  Outcome <- MCOutcome
  Risky = {c2}
  Green = {c1}
  MainProtected = TRUE
  Images = {i1, i2}
  LabelOf <- MCLabel
  Vulnerable = {i2}
  Components = {"verify_api_scope", "generate_verified_status", "verify_migrations"}
  Options <- MCOptions
  Nothing = Nothing
  MaxMoves = 2
  MaxJobs = 4
  MaxRunning = 1
  MaxPapers = 5
  \* Chunking
  Claims <- MCClaims
  LineKinds <- MCLineKinds
  LineCost <- MCLineCost
  ChunkMaxTokens = 3
  OverlapTokens = 1
  ParentMaxTokens = 4
  MaxOutput = 6
  MaxLines <- MCMaxLines
INVARIANTS
  ClaimedSlotStands
  DrillVerdictTrue
  WindowExact
  ApprovalsSound
  OneAuthority
  OneVersionPerDocument
  ClaimsCited
  ContextAsPromised
  IntentsInClaimOrder
  ReportBacked
  GateBindsOneRun
  ScanMirrorsSource
  ReleaseBacked
  ChunksTrue
PROPERTIES
  HeadRefined
  ContextStaysBound
CONSTRAINTS
  OneLateReview
  DrillsLast
  KnowledgeFirst
  ContextsFirst
  EditOrExpire
  FirstScanFirst
  OneRelease
CHECK_DEADLOCK FALSE
