--------------------------- MODULE OperationsProofs ---------------------------
(***************************************************************************)
(* Proofs about RateLimiter, for any limit, window and length of the run,  *)
(* and about BackupDrill, for any invocations, drills, keys, targets and   *)
(* interval, and any number of changes, deaths and outages.  Drills start  *)
(* whenever they like: while tools write, and while the system changes.    *)
(***************************************************************************)
EXTENDS RateLimiter, BackupDrill, FiniteSetTheorems, TLAPS

-----------------------------------------------------------------------------
(***************************************************************************)
(* The rate limiter: what its stores hold                                  *)
(***************************************************************************)

HitRecords == [at : Nat, no : Nat]

\* The hits of a store are numbered as they are charged, none in the future.
HitsNumbered ==
    \A b \in Backends :
        /\ IsFiniteSet(charged[b]) /\ charged[b] \subseteq HitRecords
        /\ \A h \in charged[b] : h.at <= ticks /\ h.no <= Cardinality(charged[b])

\* A store holds nothing that was not charged and all that still counts.
StoresHold ==
    /\ hits \subseteq charged["memory"] /\ InWindow("memory") \subseteq hits
    /\ zset \subseteq charged["redis"] /\ InWindow("redis") \subseteq zset

\* The key outlives the window of each hit it ever held.
KeyOutlives == \A h \in charged["redis"] : h.at + Window + 1 <= ticks + lifetime

LimiterInv ==
    /\ ticks \in Nat /\ lifetime \in Nat
    /\ DOMAIN charged = Backends /\ charged = [b \in Backends |-> charged[b]]
    /\ HitsNumbered
    /\ StoresHold
    /\ KeyOutlives
    /\ WindowExact

\* Nothing is charged at first.
LEMMA InitLimiter == LimiterInit => LimiterInv
<1> SUFFICES ASSUME LimiterInit PROVE LimiterInv
    OBVIOUS
<1> USE DEF LimiterInit, Backends
<1>1. \A b \in Backends : charged[b] = {} /\ InWindow(b) = {} BY DEF InWindow
<1>2. IsFiniteSet({}) /\ Cardinality({}) = 0 BY FS_EmptySet
<1>3. HitsNumbered BY <1>1, <1>2 DEF HitsNumbered
<1>4. StoresHold /\ KeyOutlives BY <1>1 DEF StoresHold, KeyOutlives
<1>5. WindowExact BY <1>1, <1>2, LimiterAssumption DEF WindowExact, Load
<1> QED BY <1>3, <1>4, <1>5 DEF LimiterInv

\* What a store has purged its hits to is the window of the definition.
LEMMA PurgedIsWindow ==
    ASSUME LimiterInv
    PROVE PurgedHits = InWindow("memory") /\ PurgedSet = InWindow("redis")
<1>1. \A b \in Backends : \A h \in charged[b] : h.at \in Nat
    BY DEF LimiterInv, HitsNumbered, HitRecords
<1>2. ticks \in Nat /\ Window \in Nat BY LimiterAssumption DEF LimiterInv
<1>3. \A h : h.at \in Nat =>
          /\ ~(ticks - h.at >= Window) <=> h.at + Window > ticks
          /\ ~(h.at <= ticks - Window) <=> h.at + Window > ticks
    BY <1>2
<1>4. PurgedHits = InWindow("memory")
    BY <1>1, <1>3 DEF PurgedHits, InWindow, LimiterInv, StoresHold, Backends
<1>5. PurgedSet = InWindow("redis")
    BY <1>1, <1>3 DEF PurgedSet, InWindow, LimiterInv, StoresHold, Backends
<1> QED BY <1>4, <1>5

\* The hits in a window are finitely many.
LEMMA WindowFinite ==
    ASSUME LimiterInv, NEW b \in Backends
    PROVE IsFiniteSet(InWindow(b)) /\ Load(b) \in Nat
<1>1. IsFiniteSet(charged[b]) /\ InWindow(b) \subseteq charged[b]
    BY DEF LimiterInv, HitsNumbered, InWindow
<1>2. IsFiniteSet(InWindow(b)) BY <1>1, FS_Subset
<1> QED BY <1>2, FS_CardinalityType DEF Load

\* A hit that is let through is a new member of its store: it counts.
LEMMA HitIsNew ==
    ASSUME LimiterInv, NEW b \in Backends
    PROVE /\ Hit(b) \notin charged[b] /\ Hit(b) \in HitRecords
          /\ Cardinality(charged[b] \cup {Hit(b)}) = Cardinality(charged[b]) + 1
          /\ IsFiniteSet(charged[b] \cup {Hit(b)})
          /\ Cardinality(InWindow(b) \cup {Hit(b)}) = Load(b) + 1
<1>1. IsFiniteSet(charged[b]) /\ Cardinality(charged[b]) \in Nat /\ ticks \in Nat
    BY FS_CardinalityType DEF LimiterInv, HitsNumbered
<1>2. Hit(b) \in HitRecords /\ Hit(b).no = Cardinality(charged[b]) + 1
    BY <1>1 DEF Hit, HitRecords
<1>3. Hit(b) \notin charged[b] BY <1>1, <1>2 DEF LimiterInv, HitsNumbered
<1>4. Hit(b) \notin InWindow(b) BY <1>3 DEF InWindow
<1>5. /\ Cardinality(charged[b] \cup {Hit(b)}) = Cardinality(charged[b]) + 1
      /\ IsFiniteSet(charged[b] \cup {Hit(b)})
    BY <1>1, <1>3, FS_AddElement
<1>6. Cardinality(InWindow(b) \cup {Hit(b)}) = Load(b) + 1
    BY <1>4, WindowFinite, FS_AddElement DEF Load
<1> QED BY <1>2, <1>3, <1>5, <1>6

\* What one request does to one store: the window grows by the hit, and only
\* where there was room.
LEMMA ChargeKeeps ==
    ASSUME LimiterInv, NEW b \in Backends, NEW X \in {{}, {Hit(b)}},
           charged'[b] = charged[b] \cup X, X # {} => Load(b) < Limit, UNCHANGED ticks
    PROVE /\ IsFiniteSet(charged'[b]) /\ charged'[b] \subseteq HitRecords
          /\ \A h \in charged'[b] : h.at <= ticks' /\ h.no <= Cardinality(charged'[b])
          /\ InWindow(b)' = InWindow(b) \cup X
          /\ Load(b)' <= Limit
<1>1. /\ ticks \in Nat /\ Window \in Nat \ {0} /\ Limit \in Nat /\ Load(b) \in Nat
      /\ IsFiniteSet(charged[b]) /\ charged[b] \subseteq HitRecords
      /\ Cardinality(charged[b]) \in Nat
    BY WindowFinite, FS_CardinalityType, LimiterAssumption DEF LimiterInv, HitsNumbered
<1>2. CASE X = {}
  <2>1. charged'[b] = charged[b] BY <1>2
  <2>2. InWindow(b)' = InWindow(b) BY <2>1 DEF InWindow
  <2> QED BY <1>1, <1>2, <2>1, <2>2 DEF LimiterInv, HitsNumbered, WindowExact, Load
<1>3. CASE X = {Hit(b)}
  <2>1. /\ IsFiniteSet(charged'[b]) /\ charged'[b] \subseteq HitRecords
        /\ Cardinality(charged'[b]) = Cardinality(charged[b]) + 1
      BY <1>1, <1>3, HitIsNew
  <2>2. Hit(b).at = ticks /\ Hit(b).no = Cardinality(charged[b]) + 1 BY DEF Hit
  <2>3. ASSUME NEW h \in charged'[b]
        PROVE h.at <= ticks' /\ h.no <= Cardinality(charged'[b])
    <3>1. CASE h \in charged[b]
      <4>1. h.no \in Nat /\ h.at <= ticks /\ h.no <= Cardinality(charged[b])
          BY <1>1, <3>1 DEF LimiterInv, HitsNumbered, HitRecords
      <4> QED BY <1>1, <2>1, <4>1
    <3>2. CASE h = Hit(b) BY <1>1, <2>1, <2>2, <3>2
    <3> QED BY <1>3, <3>1, <3>2
  <2>4. InWindow(b)' = InWindow(b) \cup {Hit(b)}
    <3>1. Hit(b).at + Window > ticks BY <1>1, <2>2
    <3> QED BY <1>3, <3>1 DEF InWindow
  <2>5. Load(b)' = Load(b) + 1 BY <2>4, HitIsNew DEF Load
  <2>6. Load(b)' <= Limit BY <1>1, <1>3, <2>5
  <2>7. InWindow(b)' = InWindow(b) \cup X BY <1>3, <2>4
  <2> QED BY <2>1, <2>3, <2>6, <2>7
<1> QED BY <1>2, <1>3

\* A request, answered by both stores.
LEMMA RequestKeeps == ASSUME LimiterInv, Request PROVE LimiterInv'
<1> DEFINE local == IF Cardinality(PurgedHits) < Limit THEN {Hit("memory")} ELSE {}
           remote == IF Cardinality(PurgedSet) < Limit THEN {Hit("redis")} ELSE {}
<1>1. /\ hits' = InWindow("memory") \cup local /\ zset' = InWindow("redis") \cup remote
      /\ lifetime' = Window + 1 /\ UNCHANGED ticks
      /\ charged' = [memory |-> charged["memory"] \cup local,
                     redis |-> charged["redis"] \cup remote]
      /\ verdict' = [memory |-> Answer("memory", local # {}),
                     redis |-> Answer("redis", remote # {})]
    BY PurgedIsWindow DEF Request
<1>2. /\ local = IF Load("memory") < Limit THEN {Hit("memory")} ELSE {}
      /\ remote = IF Load("redis") < Limit THEN {Hit("redis")} ELSE {}
    BY PurgedIsWindow DEF Load
<1> HIDE DEF local, remote
<1>3. /\ charged'["memory"] = charged["memory"] \cup local
      /\ charged'["redis"] = charged["redis"] \cup remote
    BY <1>1
<1>4. /\ local \in {{}, {Hit("memory")}} /\ (local # {} <=> Load("memory") < Limit)
      /\ remote \in {{}, {Hit("redis")}} /\ (remote # {} <=> Load("redis") < Limit)
    BY <1>2
<1>5. /\ IsFiniteSet(charged'["memory"]) /\ charged'["memory"] \subseteq HitRecords
      /\ \A h \in charged'["memory"] :
            h.at <= ticks' /\ h.no <= Cardinality(charged'["memory"])
      /\ InWindow("memory")' = InWindow("memory") \cup local
      /\ Load("memory")' <= Limit
    BY <1>1, <1>3, <1>4, ChargeKeeps DEF Backends
<1>6. /\ IsFiniteSet(charged'["redis"]) /\ charged'["redis"] \subseteq HitRecords
      /\ \A h \in charged'["redis"] :
            h.at <= ticks' /\ h.no <= Cardinality(charged'["redis"])
      /\ InWindow("redis")' = InWindow("redis") \cup remote
      /\ Load("redis")' <= Limit
    BY <1>1, <1>3, <1>4, ChargeKeeps DEF Backends
<1>7. HitsNumbered' BY <1>5, <1>6 DEF HitsNumbered, Backends
<1>8. StoresHold' BY <1>1, <1>3, <1>5, <1>6 DEF StoresHold, InWindow
<1>9. KeyOutlives'
  <2>1. ticks \in Nat /\ Window \in Nat BY LimiterAssumption DEF LimiterInv
  <2>2. \A h \in charged'["redis"] : h.at \in Nat /\ h.at <= ticks
      BY <1>1, <1>6 DEF HitRecords
  <2> QED BY <1>1, <2>1, <2>2 DEF KeyOutlives
<1>10. WindowExact'
  <2>1. /\ verdict'["memory"] = [allowed |-> local # {}, load |-> Load("memory")]
        /\ verdict'["redis"] = [allowed |-> remote # {}, load |-> Load("redis")]
      BY <1>1 DEF Answer
  <2>2. verdict'["memory"].load = Load("memory") /\ verdict'["redis"].load = Load("redis")
      BY <2>1
  <2>3. verdict'["memory"].allowed = (local # {}) BY <2>1
  <2>4. verdict'["redis"].allowed = (remote # {}) BY <2>1
  <2>5. verdict'["memory"].allowed <=> verdict'["memory"].load < Limit
      BY <1>4, <2>2, <2>3, Zenon
  <2>6. verdict'["redis"].allowed <=> verdict'["redis"].load < Limit
      BY <1>4, <2>2, <2>4, Zenon
  <2> QED BY <1>5, <1>6, <2>5, <2>6 DEF WindowExact, Backends
<1>11. /\ ticks' \in Nat /\ lifetime' \in Nat
       /\ DOMAIN charged' = Backends /\ charged' = [b \in Backends |-> charged'[b]]
    BY <1>1, LimiterAssumption DEF LimiterInv, Backends
<1> QED BY <1>7, <1>8, <1>9, <1>10, <1>11 DEF LimiterInv

\* A request whose reply is lost: Redis has charged it.
LEMMA LostReplyKeeps == ASSUME LimiterInv, ReplyLost PROVE LimiterInv'
<1>1. /\ Load("redis") < Limit /\ zset' = InWindow("redis") \cup {Hit("redis")}
      /\ lifetime' = Window + 1 /\ UNCHANGED <<ticks, hits, verdict>>
    BY PurgedIsWindow DEF ReplyLost, Load
<1>2. /\ charged'["redis"] = charged["redis"] \cup {Hit("redis")}
      /\ charged'["memory"] = charged["memory"]
      /\ DOMAIN charged' = Backends /\ charged' = [b \in Backends |-> charged'[b]]
    BY DEF ReplyLost, LimiterInv, Backends
<1>3. /\ IsFiniteSet(charged'["redis"]) /\ charged'["redis"] \subseteq HitRecords
      /\ \A h \in charged'["redis"] :
            h.at <= ticks' /\ h.no <= Cardinality(charged'["redis"])
      /\ InWindow("redis")' = InWindow("redis") \cup {Hit("redis")}
      /\ Load("redis")' <= Limit
    BY <1>1, <1>2, ChargeKeeps DEF Backends
<1>4. InWindow("memory")' = InWindow("memory") BY <1>1, <1>2 DEF InWindow
<1>5. HitsNumbered' BY <1>1, <1>2, <1>3 DEF LimiterInv, HitsNumbered, Backends
<1>6. StoresHold' BY <1>1, <1>2, <1>3, <1>4 DEF LimiterInv, StoresHold, InWindow
<1>7. KeyOutlives'
  <2>1. ticks \in Nat /\ Window \in Nat BY LimiterAssumption DEF LimiterInv
  <2>2. \A h \in charged'["redis"] : h.at \in Nat /\ h.at <= ticks
      BY <1>1, <1>3 DEF HitRecords
  <2> QED BY <1>1, <2>1, <2>2 DEF KeyOutlives
<1>8. WindowExact' BY <1>1, <1>3, <1>4 DEF LimiterInv, WindowExact, Load, Backends
<1> QED BY <1>1, <1>2, <1>5, <1>6, <1>7, <1>8, LimiterAssumption DEF LimiterInv

\* Time passes: windows shrink, and a key that expires held nothing that counts.
LEMMA TickKeeps == ASSUME LimiterInv, LimiterTick PROVE LimiterInv'
<1>1. /\ ticks \in Nat /\ lifetime \in Nat /\ Window \in Nat /\ Limit \in Nat
      /\ ticks' = ticks + 1 /\ lifetime' = IF lifetime = 0 THEN 0 ELSE lifetime - 1
      /\ zset' = IF lifetime = 1 THEN {} ELSE zset
      /\ UNCHANGED <<hits, charged, verdict>>
    BY LimiterAssumption DEF LimiterInv, LimiterTick
<1>2. \A b \in Backends : \A h \in charged[b] : h.at \in Nat /\ h.at <= ticks
    BY DEF LimiterInv, HitsNumbered, HitRecords
<1>3. HitsNumbered' BY <1>1, <1>2 DEF LimiterInv, HitsNumbered
<1>4. \A b \in Backends : InWindow(b)' \subseteq InWindow(b) BY <1>1, <1>2 DEF InWindow
<1>5. KeyOutlives'
  <2> SUFFICES ASSUME NEW h \in charged["redis"]
               PROVE h.at + Window + 1 <= ticks' + lifetime'
      BY <1>1 DEF KeyOutlives
  <2>1. h.at \in Nat /\ h.at + Window + 1 <= ticks + lifetime
      BY <1>2 DEF LimiterInv, KeyOutlives, Backends
  <2> QED BY <1>1, <2>1
<1>6. StoresHold'
  <2>1. CASE lifetime = 1
    <3>1. InWindow("redis")' = {}
      <4> SUFFICES ASSUME NEW h \in charged["redis"] PROVE ~(h.at + Window > ticks + 1)
          BY <1>1 DEF InWindow
      <4>1. h.at \in Nat /\ h.at + Window + 1 <= ticks + 1
          BY <1>2, <2>1 DEF LimiterInv, KeyOutlives, Backends
      <4> QED BY <1>1, <4>1
    <3> QED BY <1>1, <1>4, <2>1, <3>1 DEF LimiterInv, StoresHold, Backends
  <2>2. CASE lifetime # 1 BY <1>1, <1>4, <2>2 DEF LimiterInv, StoresHold, Backends
  <2> QED BY <2>1, <2>2
<1>7. WindowExact'
  <2>1. ASSUME NEW b \in Backends PROVE Load(b)' <= Limit
    <3>1. Load(b)' \in Nat /\ Load(b)' <= Load(b) /\ Load(b) \in Nat
        BY <1>4, WindowFinite, FS_Subset, FS_CardinalityType DEF Load
    <3> QED BY <1>1, <3>1 DEF LimiterInv, WindowExact
  <2> QED BY <1>1, <2>1 DEF LimiterInv, WindowExact
<1> QED BY <1>1, <1>3, <1>5, <1>6, <1>7 DEF LimiterInv

\* Every step keeps the invariant.
LEMMA LimiterStep == ASSUME LimiterInv, [LimiterNext]_limiterVars PROVE LimiterInv'
<1>1. CASE UNCHANGED limiterVars
    BY <1>1 DEF limiterVars, LimiterInv, HitsNumbered, StoresHold, KeyOutlives, WindowExact,
                InWindow, Load
<1> QED BY <1>1, RequestKeeps, LostReplyKeeps, TickKeeps DEF LimiterNext

\* Both stores let a request through exactly when fewer hits than the limit are
\* less than a window old, and no window holds more than the limit: at any
\* moment, after any lost replies and expiries of the Redis key.
THEOREM WindowIsExact == LimiterSpec => []WindowExact
<1>1. LimiterInv => WindowExact BY DEF LimiterInv
<1> QED BY <1>1, InitLimiter, LimiterStep, PTL DEF LimiterSpec

-----------------------------------------------------------------------------
(***************************************************************************)
(* Backups: the inductive invariant                                        *)
(***************************************************************************)

\* A tool that has reserved its receipt and not yet ended.
AtWork == {"reserved", "made", "dumped", "copying", "manifest"}

Tools == [pc : AtWork \cup {"idle", "started", "passed", "failed", "killed"},
          slot : Slots, left : SUBSET Keys, completed : Nat]
Receipts == [status : {Absent, "reserved", "PASS", "FAIL"}, completed : Nat]
Dirs == [state : {Absent, "made", "dumped", "manifest"},
         dump : SUBSET Keys, copied : SUBSET Keys, quiet : BOOLEAN]
Scheds == [pc : {"idle", "observed", "locked", "waiting", "ended"}, slot : Slots, observed : Nat]

BackupTypeOK ==
    /\ now \in 0 .. MaxTime
    /\ liveRefs \subseteq Keys /\ liveObjects \subseteq Keys
    /\ sched \in [BackupRuns -> Scheds]
    /\ tool \in [BackupRuns -> Tools]
    /\ receipt \in [Slots -> Receipts]
    /\ dir \in [Slots -> Dirs]
    /\ claimed \subseteq Slots

\* What a tool at work finds: its own reservation, and the directory as it left
\* it.  As long as nothing has changed since the dump, the rows of the dump are
\* the objects copied and to copy.
ToolOK(r) ==
    LET t == tool[r]
        d == dir[t.slot] IN
    /\ t.pc \in AtWork => receipt[t.slot].status = "reserved"
    /\ t.pc = "made" => d.state = "made" /\ d.copied = {}
    /\ t.pc = "dumped" =>
          /\ d.state = "dumped" /\ d.copied = {}
          /\ d.quiet => liveObjects = liveRefs /\ d.dump = liveRefs
    /\ t.pc = "copying" =>
          /\ d.state = "dumped"
          /\ d.quiet => d.copied \cup t.left = d.dump
    /\ t.pc = "manifest" => d.state = "manifest"

\* A directory with a manifest is complete; a receipt that passed has one.
SlotOK(s) ==
    /\ dir[s].state = Absent => dir[s].copied = {}
    /\ dir[s].state = "manifest" =>
          /\ dir[s].copied # {}
          /\ dir[s].quiet => dir[s].copied = dir[s].dump
    /\ receipt[s].status = "PASS" => dir[s].state = "manifest"

OneToolAtWork ==
    \A q, r \in BackupRuns :
        tool[q].pc \in AtWork /\ tool[r].pc \in AtWork /\ tool[q].slot = tool[r].slot => q = r

BackupsInv ==
    /\ BackupTypeOK
    /\ \A r \in BackupRuns : ToolOK(r)
    /\ \A s \in Slots : SlotOK(s)
    /\ OneToolAtWork
    /\ ClaimedSlotStands

-----------------------------------------------------------------------------
(***************************************************************************)
(* Backups                                                                 *)
(***************************************************************************)

\* A later moment lies in the same slot or a later one.
LEMMA SlotsInTime == ASSUME NEW t \in 0 .. MaxTime PROVE SlotOf(t) \in Slots
<1> DEFINE n == SlotLength
           q == t \div n
           m == MaxTime \div n
<1>1. n \in Nat /\ n > 0 /\ t \in Nat /\ MaxTime \in Nat /\ t <= MaxTime
    BY BackupAssumption
<1>2. q \in Nat /\ m \in Nat BY <1>1
<1>3. q * n <= t /\ MaxTime < (m + 1) * n BY <1>1
<1>4. ASSUME q > m PROVE FALSE
  <2>1. q >= m + 1 BY <1>2, <1>4
  <2>2. q * n >= (m + 1) * n BY <1>1, <1>2, <2>1
  <2> QED BY <1>1, <1>2, <1>3, <2>2
<1> QED BY <1>2, <1>4 DEF SlotOf, Slots

\* Nothing is backed up at first.
LEMMA InitBackups == BackupInit => BackupsInv
<1> SUFFICES ASSUME BackupInit PROVE BackupsInv
    OBVIOUS
<1> USE DEF BackupInit
<1>1. 0 \in Slots BY SlotsInTime, BackupAssumption DEF SlotOf, Slots
<1>2. BackupTypeOK
    BY <1>1, BackupAssumption
       DEF BackupTypeOK, Scheds, Tools, Receipts, Dirs, NoReceipt, NoDir
<1>3. \A r \in BackupRuns : ToolOK(r) BY DEF ToolOK, AtWork
<1>4. \A s \in Slots : SlotOK(s) BY DEF SlotOK, NoDir, NoReceipt, Absent
<1>5. OneToolAtWork BY DEF OneToolAtWork, AtWork
<1> QED BY <1>2, <1>3, <1>4, <1>5 DEF BackupsInv, ClaimedSlotStands

\* A step of one tool on its own slot, whose receipt it has reserved or is about
\* to reserve, leaves every other tool and every claimed slot as they were.
LEMMA OwnSlotOnly ==
    ASSUME BackupsInv, NEW r \in BackupRuns, NEW s, s = tool[r].slot,
           tool[r].pc \in AtWork \/ receipt[s].status = Absent,
           \A q \in BackupRuns \ {r} : tool'[q] = tool[q],
           tool'[r].slot = s,
           \A u \in Slots \ {s} : receipt'[u] = receipt[u] /\ dir'[u] = dir[u],
           UNCHANGED <<liveRefs, liveObjects, claimed>>,
           BackupTypeOK', ToolOK(r)', SlotOK(s)'
    PROVE BackupsInv'
<1>1. \A q \in BackupRuns : tool[q].slot \in Slots
    BY DEF BackupsInv, BackupTypeOK, Tools
<1>2. receipt[s].status \in {"reserved", Absent}
    BY DEF BackupsInv, ToolOK
<1>3. ASSUME NEW q \in BackupRuns \ {r}, tool[q].pc \in AtWork
      PROVE tool[q].slot # s
  <2>1. receipt[tool[q].slot].status = "reserved" BY <1>3 DEF BackupsInv, ToolOK
  <2> QED BY <1>3, <2>1 DEF BackupsInv, OneToolAtWork, Absent
<1>4. ASSUME NEW q \in BackupRuns PROVE ToolOK(q)'
  <2>1. CASE q # r /\ tool[q].pc \in AtWork
      BY <1>1, <1>3, <2>1 DEF BackupsInv, ToolOK
  <2>2. CASE q # r /\ tool[q].pc \notin AtWork
      BY <2>2 DEF ToolOK, AtWork
  <2> QED BY <2>1, <2>2
<1>5. \A u \in Slots : SlotOK(u)' BY DEF BackupsInv, SlotOK
<1>6. OneToolAtWork' BY <1>3 DEF BackupsInv, OneToolAtWork
<1>7. ClaimedSlotStands'
  <2> SUFFICES ASSUME NEW u \in claimed
               PROVE /\ receipt'[u].status = "PASS"
                     /\ SlotOf(receipt'[u].completed) = u
                     /\ dir'[u].state = "manifest"
                     /\ \A q \in BackupRuns : tool'[q].slot = u =>
                           tool'[q].pc \in {"idle", "started", "passed", "failed", "killed"}
      BY DEF ClaimedSlotStands
  <2>1. u \in Slots /\ u # s BY <1>2 DEF BackupsInv, BackupTypeOK, ClaimedSlotStands, Absent
  <2> QED BY <2>1 DEF BackupsInv, ClaimedSlotStands
<1> QED BY <1>4, <1>5, <1>6, <1>7 DEF BackupsInv

\* A tool that starts or stops without another write.
LEMMA ToolStops ==
    ASSUME BackupsInv, NEW r \in BackupRuns,
           \A q \in BackupRuns \ {r} : tool'[q] = tool[q],
           tool'[r].pc \in {"started", "failed", "killed"},
           UNCHANGED <<receipt, dir, liveRefs, liveObjects, claimed>>, BackupTypeOK'
    PROVE BackupsInv'
<1>1. ASSUME NEW q \in BackupRuns PROVE ToolOK(q)'
    BY DEF BackupsInv, ToolOK, AtWork
<1>2. \A s \in Slots : SlotOK(s)' BY DEF BackupsInv, SlotOK
<1>3. OneToolAtWork' BY DEF BackupsInv, OneToolAtWork, AtWork
<1>4. ClaimedSlotStands' BY DEF BackupsInv, ClaimedSlotStands
<1> QED BY <1>1, <1>2, <1>3, <1>4 DEF BackupsInv

\* A scheduler that reports a slot has seen its receipt and its manifest.
LEMMA ClaimIsBacked ==
    ASSUME BackupsInv, NEW r \in BackupRuns, NEW S,
           claimed' = claimed \cup S, S \subseteq {sched[r].slot},
           S # {} => ReceiptValid(r),
           UNCHANGED <<tool, receipt, dir, liveRefs, liveObjects>>, BackupTypeOK'
    PROVE BackupsInv'
<1>1. \A q \in BackupRuns : ToolOK(q)' BY DEF BackupsInv, ToolOK
<1>2. \A s \in Slots : SlotOK(s)' BY DEF BackupsInv, SlotOK
<1>3. OneToolAtWork' BY DEF BackupsInv, OneToolAtWork
<1>4. ASSUME NEW s \in S
      PROVE /\ receipt[s].status = "PASS" /\ SlotOf(receipt[s].completed) = s
            /\ dir[s].state = "manifest"
            /\ \A q \in BackupRuns : tool[q].slot = s =>
                  tool[q].pc \in {"idle", "started", "passed", "failed", "killed"}
  <2>1. s = sched[r].slot /\ receipt[s].status = "PASS"
        /\ SlotOf(receipt[s].completed) = s /\ dir[s].state = "manifest"
      BY DEF ReceiptValid
  <2>2. \A q \in BackupRuns : tool[q].slot = s => tool[q].pc \notin AtWork
      BY <2>1 DEF BackupsInv, ToolOK
  <2> QED BY <2>1, <2>2 DEF BackupsInv, BackupTypeOK, Tools
<1>5. ClaimedSlotStands' BY <1>4 DEF BackupsInv, ClaimedSlotStands
<1> QED BY <1>1, <1>2, <1>3, <1>5 DEF BackupsInv

\* Every step keeps the types.
LEMMA BackupTypes == ASSUME BackupTypeOK, BackupNext PROVE BackupTypeOK'
<1> USE DEF BackupTypeOK
<1>a. now \in Nat /\ SlotOf(now) \in Slots BY SlotsInTime, BackupAssumption
<1>1. CASE BackupTick
    BY <1>1, BackupAssumption DEF BackupTick, liveVars, backupFiles
<1>2. CASE LiveSystem
  <2>1. dir' \in [Slots -> Dirs]
        /\ UNCHANGED <<now, sched, tool, receipt, claimed>>
    <3>1. Disturb /\ UNCHANGED <<now, sched, tool, receipt, claimed>>
        BY <1>2 DEF LiveSystem, StoreObject, ReferenceObject, ReleaseObject, DeleteObject, LiveStep
    <3>2. ASSUME NEW s \in Slots
          PROVE [dir[s] EXCEPT !.quiet = @ /\ dir[s].state # "dumped"] \in Dirs
      <4>1. (dir[s].quiet /\ dir[s].state # "dumped") \in BOOLEAN OBVIOUS
      <4>2. dir[s] \in Dirs OBVIOUS
      <4> HIDE DEF BackupTypeOK
      <4> QED BY <4>1, <4>2 DEF Dirs
    <3> QED BY <3>1, <3>2 DEF Disturb
  <2>2. liveRefs' \subseteq Keys /\ liveObjects' \subseteq Keys
      BY <1>2 DEF LiveSystem, StoreObject, ReferenceObject, ReleaseObject, DeleteObject
  <2> QED BY <2>1, <2>2
<1>3. ASSUME NEW r \in BackupRuns, RunBackup(r) PROVE BackupTypeOK'
  <2>1. sched[r] \in Scheds /\ tool[r] \in Tools OBVIOUS
  <2>2. CASE StartRun(r)
      BY <2>2, <1>a DEF StartRun, Scheds, liveVars, backupFiles
  <2>3. CASE TakeLock(r)
      BY <2>3 DEF TakeLock, SchedStep, Scheds, liveVars, backupFiles
  <2>4. CASE OverlapActive(r)
      BY <2>4 DEF OverlapActive, SchedStep, Scheds, liveVars, backupFiles
  <2>5. CASE AnswerFromSlot(r)
      BY <2>5 DEF AnswerFromSlot, SchedStep, Scheds, liveVars, backupFiles
  <2>6. CASE StartTool(r)
    <3>1. sched' \in [BackupRuns -> Scheds] /\ sched[r].slot \in Slots
        BY <2>1, <2>6 DEF StartTool, SchedStep, Scheds
    <3>2. tool' \in [BackupRuns -> Tools]
        BY <2>1, <2>6, <3>1 DEF StartTool, Tools
    <3> QED BY <2>6, <3>1, <3>2 DEF StartTool, SchedStep, liveVars, backupFiles
  <2>7. CASE ReportRun(r)
      BY <2>7 DEF ReportRun, SchedStep, Scheds, liveVars, backupFiles
  <2>8. CASE ToolTimesOut(r)
      BY <2>8 DEF ToolTimesOut, SchedStep, Scheds, Tools, liveVars, backupFiles
  <2>9. CASE SchedulerDies(r)
      BY <2>9 DEF SchedulerDies, SchedStep, Scheds, liveVars, backupFiles
  <2> QED BY <1>3, <2>2, <2>3, <2>4, <2>5, <2>6, <2>7, <2>8, <2>9 DEF RunBackup
<1>4. ASSUME NEW r \in BackupRuns, RunTool(r) PROVE BackupTypeOK'
  <2> DEFINE s == tool[r].slot
  <2>1. tool[r] \in Tools /\ s \in Slots /\ receipt[s] \in Receipts /\ dir[s] \in Dirs
      BY DEF Tools
  <2>2. CASE ReserveReceipt(r)
      BY <2>1, <2>2 DEF ReserveReceipt, ToolStep, Tools, AtWork, Receipts, liveVars
  <2>3. CASE ReservationFails(r)
      BY <2>1, <2>3 DEF ReservationFails, ToolStep, Tools, liveVars, backupFiles
  <2>4. CASE MakeDirectory(r)
      BY <2>1, <2>4 DEF MakeDirectory, ToolStep, Tools, AtWork, Dirs, liveVars
  <2>5. CASE DumpDatabase(r)
    <3>1. (liveRefs = liveObjects) \in BOOLEAN OBVIOUS
    <3>2. PICK c \in BOOLEAN : c = (liveRefs = liveObjects) BY <3>1
    <3>3. [dir[s] EXCEPT !.state = "dumped", !.dump = liveRefs, !.quiet = c] \in Dirs
        BY <2>1, <3>2 DEF Dirs
    <3>4. dir' = [dir EXCEPT ![s] =
                   [dir[s] EXCEPT !.state = "dumped", !.dump = liveRefs, !.quiet = c]]
        BY <2>1, <2>5, <3>2 DEF DumpDatabase
    <3> QED BY <2>1, <2>5, <3>3, <3>4 DEF DumpDatabase, ToolStep, Tools, AtWork, liveVars
  <2>6. CASE ListObjects(r)
      BY <2>1, <2>6 DEF ListObjects, Tools, AtWork, liveVars, backupFiles
  <2>7. CASE WriteManifest(r)
      BY <2>1, <2>7, <1>a DEF WriteManifest, Tools, AtWork, Dirs, liveVars
  <2>8. CASE WritePass(r)
      BY <2>1, <2>8 DEF WritePass, ToolStep, Tools, Receipts, liveVars
  <2>9. CASE WriteFail(r)
      BY <2>1, <2>9 DEF WriteFail, ToolStep, Tools, Receipts, liveVars
  <2>10. CASE ToolFails(r)
      BY <2>1, <2>10 DEF ToolFails, Tools, Receipts, liveVars
  <2>11. ASSUME NEW k \in Keys, CopyObject(r, k) PROVE BackupTypeOK'
      BY <2>1, <2>11 DEF CopyObject, Tools, Dirs, liveVars
  <2> QED BY <1>4, <2>2, <2>3, <2>4, <2>5, <2>6, <2>7, <2>8, <2>9, <2>10, <2>11 DEF RunTool
<1>5. ASSUME NEW x \in Drills, RunDrill(x) PROVE BackupTypeOK'
  <2>1. UNCHANGED <<now, liveRefs, liveObjects, sched, tool, receipt, dir, claimed>>
      BY <1>5 DEF RunDrill, AdmitDrill, CreateTargetDb, MakeBucket, TargetTaken,
                  RestoreDatabase, RestoreObject, Reconcile, DrillStep, liveVars, backupFiles
  <2> QED BY <2>1
<1> QED BY <1>1, <1>2, <1>3, <1>4, <1>5 DEF BackupNext

-----------------------------------------------------------------------------
\* A change of the live system: whatever was dumped before it is no longer quiet.
LEMMA LiveBackups == ASSUME BackupsInv, LiveStep, BackupTypeOK' PROVE BackupsInv'
<1>1. UNCHANGED <<tool, receipt, claimed>> /\ Disturb BY DEF LiveStep
<1>2. ASSUME NEW s \in Slots
      PROVE /\ dir'[s].state = dir[s].state /\ dir'[s].dump = dir[s].dump
            /\ dir'[s].copied = dir[s].copied
            /\ dir[s].state = "dumped" => ~dir'[s].quiet
            /\ dir'[s].quiet => dir[s].quiet
  <2>1. dir[s] \in Dirs BY DEF BackupsInv, BackupTypeOK
  <2>2. dir'[s].quiet = (dir[s].quiet /\ dir[s].state # "dumped")
      BY <1>1, <2>1 DEF Disturb, Dirs
  <2>3. /\ dir'[s].state = dir[s].state /\ dir'[s].dump = dir[s].dump
        /\ dir'[s].copied = dir[s].copied
      BY <1>1, <2>1 DEF Disturb, Dirs
  <2>4. dir[s].state = "dumped" => ~dir'[s].quiet BY <2>2
  <2>5. dir'[s].quiet => dir[s].quiet BY <2>2
  <2> QED BY <2>3, <2>4, <2>5
<1>3. ASSUME NEW r \in BackupRuns PROVE ToolOK(r)'
  <2>1. tool[r].slot \in Slots BY DEF BackupsInv, BackupTypeOK, Tools
  <2>2. ToolOK(r) BY DEF BackupsInv
  <2> QED BY <1>1, <1>2, <2>1, <2>2 DEF ToolOK
<1>4. \A s \in Slots : SlotOK(s)' BY <1>1, <1>2 DEF BackupsInv, SlotOK
<1>5. OneToolAtWork' BY <1>1 DEF BackupsInv, OneToolAtWork
<1>6. ClaimedSlotStands'
    BY <1>1, <1>2 DEF BackupsInv, BackupTypeOK, ClaimedSlotStands
<1> QED BY <1>3, <1>4, <1>5, <1>6 DEF BackupsInv

\* The scheduler reports nothing it has not seen; a tool it kills writes no more.
LEMMA SchedulerBackups ==
    ASSUME BackupsInv, NEW r \in BackupRuns, RunBackup(r), BackupTypeOK'
    PROVE BackupsInv'
<1>0. r \in BackupRuns /\ tool \in [BackupRuns -> Tools]
    BY DEF BackupsInv, BackupTypeOK
<1>1. CASE StartRun(r) \/ TakeLock(r) \/ OverlapActive(r) \/ SchedulerDies(r)
  <2>1. UNCHANGED <<tool, receipt, dir, liveRefs, liveObjects, claimed>>
      BY <1>1 DEF StartRun, TakeLock, OverlapActive, SchedulerDies, SchedStep, liveVars,
                  backupFiles
  <2>2. claimed' = claimed \cup {} BY <2>1
  <2> QED BY <2>1, <2>2, ClaimIsBacked
<1>2. CASE AnswerFromSlot(r)
  <2> DEFINE S == IF ReceiptValid(r) THEN {sched[r].slot} ELSE {}
  <2>1. claimed' = claimed \cup S /\ UNCHANGED <<tool, receipt, dir, liveRefs, liveObjects>>
      BY <1>2 DEF AnswerFromSlot, SchedStep, liveVars, backupFiles
  <2>2. S \subseteq {sched[r].slot} /\ (S # {} => ReceiptValid(r)) OBVIOUS
  <2> HIDE DEF S
  <2> QED BY <2>1, <2>2, ClaimIsBacked
<1>3. CASE ReportRun(r)
  <2> DEFINE S == IF tool[r].pc = "passed" /\ ReceiptValid(r) THEN {sched[r].slot} ELSE {}
  <2>1. claimed' = claimed \cup S /\ UNCHANGED <<tool, receipt, dir, liveRefs, liveObjects>>
      BY <1>3 DEF ReportRun, SchedStep, liveVars, backupFiles
  <2>2. S \subseteq {sched[r].slot} /\ (S # {} => ReceiptValid(r)) OBVIOUS
  <2> HIDE DEF S
  <2> QED BY <2>1, <2>2, ClaimIsBacked
<1>4. CASE StartTool(r) \/ ToolTimesOut(r)
  <2>1. /\ \A q \in BackupRuns \ {r} : tool'[q] = tool[q]
        /\ tool'[r].pc \in {"started", "killed"}
        /\ UNCHANGED <<receipt, dir, liveRefs, liveObjects, claimed>>
      BY <1>0, <1>4 DEF StartTool, ToolTimesOut, SchedStep, Tools, liveVars, backupFiles
  <2> QED BY <2>1, ToolStops
<1> QED BY <1>1, <1>2, <1>3, <1>4 DEF RunBackup

\* A tool's step goes by its own reservation.
LEMMA ToolBackups ==
    ASSUME BackupsInv, NEW r \in BackupRuns, RunTool(r), BackupTypeOK'
    PROVE BackupsInv'
<1> DEFINE s == tool[r].slot
<1>0. /\ tool \in [BackupRuns -> Tools] /\ receipt \in [Slots -> Receipts]
      /\ dir \in [Slots -> Dirs] /\ s \in Slots
      /\ tool[r] \in Tools /\ receipt[s] \in Receipts /\ dir[s] \in Dirs
      /\ ToolOK(r) /\ SlotOK(s)
    BY DEF BackupsInv, BackupTypeOK, Tools
<1>1. CASE ReservationFails(r)
  <2>1. /\ \A q \in BackupRuns \ {r} : tool'[q] = tool[q]
        /\ tool'[r].pc = "failed"
        /\ UNCHANGED <<receipt, dir, liveRefs, liveObjects, claimed>>
      BY <1>0, <1>1 DEF ReservationFails, ToolStep, Tools, liveVars, backupFiles
  <2> QED BY <2>1, ToolStops
<1>2. ASSUME ~ReservationFails(r)
      PROVE /\ tool[r].pc \in AtWork \/ receipt[s].status = Absent
            /\ \A q \in BackupRuns \ {r} : tool'[q] = tool[q]
            /\ tool'[r].slot = s
            /\ \A u \in Slots \ {s} : receipt'[u] = receipt[u] /\ dir'[u] = dir[u]
            /\ UNCHANGED <<liveRefs, liveObjects, claimed>>
            /\ ToolOK(r)' /\ SlotOK(s)'
  <2>1. CASE ReserveReceipt(r)
      BY <1>0, <2>1 DEF ReserveReceipt, ToolStep, liveVars, Tools, Receipts, ToolOK, SlotOK, AtWork
  <2>2. CASE MakeDirectory(r)
      BY <1>0, <2>2 DEF MakeDirectory, ToolStep, liveVars, Tools, Dirs, ToolOK, SlotOK, AtWork,
                        Absent
  <2>3. CASE DumpDatabase(r)
    <3>1. /\ tool[r].pc = "made" /\ tool'[r].pc = "dumped" /\ tool'[r].slot = s
          /\ \A q \in BackupRuns \ {r} : tool'[q] = tool[q]
          /\ \A u \in Slots \ {s} : dir'[u] = dir[u]
          /\ UNCHANGED <<liveRefs, liveObjects, claimed, receipt>>
        BY <1>0, <2>3 DEF DumpDatabase, ToolStep, liveVars, Tools
    <3>2. /\ dir'[s].state = "dumped" /\ dir'[s].copied = {} /\ dir'[s].dump = liveRefs
          /\ dir'[s].quiet = (liveRefs = liveObjects)
        BY <1>0, <2>3, <3>1 DEF DumpDatabase, Dirs, ToolOK
    <3>3. dir'[s].quiet => liveObjects = liveRefs BY <3>2
    <3>4. ToolOK(r)' BY <1>0, <3>1, <3>2, <3>3 DEF ToolOK, AtWork
    <3>5. SlotOK(s)' BY <1>0, <3>1, <3>2 DEF ToolOK, SlotOK, AtWork, Absent
    <3> QED BY <3>1, <3>4, <3>5 DEF AtWork
  <2>4. CASE ListObjects(r)
      BY <1>0, <2>4 DEF ListObjects, liveVars, backupFiles, Tools, ToolOK, SlotOK, AtWork
  <2>5. CASE WriteManifest(r)
      BY <1>0, <2>5 DEF WriteManifest, liveVars, Tools, Dirs, ToolOK, SlotOK, AtWork, Absent
  <2>6. CASE WritePass(r)
      BY <1>0, <2>6 DEF WritePass, ToolStep, liveVars, Tools, Receipts, ToolOK, SlotOK, AtWork
  <2>7. CASE WriteFail(r)
      BY <1>0, <2>7 DEF WriteFail, ToolStep, liveVars, Tools, Receipts, ToolOK, SlotOK, AtWork
  <2>8. CASE ToolFails(r)
      BY <1>0, <2>8 DEF ToolFails, liveVars, Tools, Receipts, ToolOK, SlotOK, AtWork
  <2>9. ASSUME NEW k \in Keys, CopyObject(r, k)
        PROVE /\ tool[r].pc \in AtWork /\ \A q \in BackupRuns \ {r} : tool'[q] = tool[q]
              /\ tool'[r].slot = s
              /\ \A u \in Slots \ {s} : receipt'[u] = receipt[u] /\ dir'[u] = dir[u]
              /\ UNCHANGED <<liveRefs, liveObjects, claimed>>
              /\ ToolOK(r)' /\ SlotOK(s)'
      BY <1>0, <2>9 DEF CopyObject, liveVars, Tools, Dirs, ToolOK, SlotOK, AtWork, Absent
  <2> QED BY <1>2, <2>1, <2>2, <2>3, <2>4, <2>5, <2>6, <2>7, <2>8, <2>9 DEF RunTool
<1>3. CASE ~ReservationFails(r)
    BY <1>2, <1>3, OwnSlotOnly
<1> QED BY <1>1, <1>3

\* Every step keeps the invariant; a drill touches no backup.
LEMMA BackupsStep == ASSUME BackupsInv, BackupNext PROVE BackupsInv'
<1>0. BackupTypeOK' BY BackupTypes DEF BackupsInv
<1>1. CASE LiveSystem
    BY <1>0, <1>1, LiveBackups
       DEF LiveSystem, StoreObject, ReferenceObject, ReleaseObject, DeleteObject
<1>2. ASSUME NEW r \in BackupRuns, RunBackup(r) \/ RunTool(r) PROVE BackupsInv'
    BY <1>0, <1>2, SchedulerBackups, ToolBackups
<1>3. CASE BackupTick \/ \E x \in Drills : RunDrill(x)
  <2>1. UNCHANGED <<tool, receipt, dir, liveRefs, liveObjects, claimed>>
      BY <1>3 DEF BackupTick, RunDrill, AdmitDrill, CreateTargetDb, MakeBucket, TargetTaken,
                  RestoreDatabase, RestoreObject, Reconcile, DrillStep, liveVars, backupFiles
  <2> QED BY <1>0, <2>1
       DEF BackupsInv, ToolOK, SlotOK, OneToolAtWork, ClaimedSlotStands
<1> QED BY <1>1, <1>2, <1>3 DEF BackupNext

\* A step that changes nothing keeps it too.
LEMMA BackupsStutter == ASSUME BackupsInv, UNCHANGED backupVars PROVE BackupsInv'
BY DEF BackupsInv, BackupTypeOK, ToolOK, SlotOK, OneToolAtWork, ClaimedSlotStands,
       backupVars, liveVars, backupFiles

THEOREM BackupsHold == BackupSpec => []BackupsInv
<1>1. BackupInit => BackupsInv BY InitBackups
<1>2. BackupsInv /\ [BackupNext]_backupVars => BackupsInv' BY BackupsStep, BackupsStutter
<1> QED BY <1>1, <1>2, PTL DEF BackupSpec

\* A slot that some scheduler has reported keeps its complete backup.
THEOREM ClaimsStand == BackupSpec => []ClaimedSlotStands
<1>1. BackupsInv => ClaimedSlotStands BY DEF BackupsInv
<1> QED BY <1>1, BackupsHold, PTL

-----------------------------------------------------------------------------
(***************************************************************************)
(* Restore drills                                                          *)
(***************************************************************************)

\* Stages in which a drill has made its database, and its bucket.
HasDb == {"database", "bucket", "restored", "passed"}
HasBucket == {"bucket", "restored", "passed"}

DrillRecords == [pc : HasDb \cup {"idle", "admitted", "failed"}, slot : Slots,
                 db : TargetDbs \cup {Absent}, bucket : Buckets \cup {Absent},
                 left : SUBSET Keys]

DrillTypeOK ==
    /\ drill \in [Drills -> DrillRecords]
    /\ targetRefs \in [TargetDbs -> SUBSET Keys]
    /\ bucket \in [Buckets -> SUBSET (Keys \X Slots)]

\* A drill that was admitted has a complete backup to restore and targets of
\* its own; what it has restored so far comes from that backup.
DrillOK(x) ==
    LET d == drill[x]
        s == d.slot
        objects == dir[s].copied IN
    /\ d.pc # "idle" =>
          /\ d.db \in TargetDbs /\ d.bucket \in Buckets
          /\ receipt[s].status = "PASS" /\ dir[s].state = "manifest"
    /\ d.pc \in {"admitted", "database", "bucket"} => d.left = objects
    /\ d.pc \in HasDb => d.db \in made
    /\ d.pc \in HasBucket => d.bucket \in made
    /\ d.pc = "bucket" => bucket[d.bucket] = {}
    /\ d.pc \in {"restored", "passed"} => targetRefs[d.db] = dir[s].dump
    /\ d.pc = "restored" =>
          d.left \subseteq objects /\ bucket[d.bucket] = (objects \ d.left) \X {s}
    /\ d.pc = "passed" => objects = dir[s].dump /\ bucket[d.bucket] = objects \X {s}
    /\ d.pc = "failed" /\ d.left = {} => objects # dir[s].dump

\* No two drills have the same database or the same bucket.
TargetsApart ==
    \A x, y \in Drills : x # y =>
        /\ drill[x].pc \in HasDb /\ drill[y].pc \in HasDb => drill[x].db # drill[y].db
        /\ drill[x].pc \in HasBucket /\ drill[y].pc \in HasBucket =>
              drill[x].bucket # drill[y].bucket

DrillsInv ==
    /\ DrillTypeOK
    /\ \A x \in Drills : DrillOK(x)
    /\ TargetsApart
    /\ \A b \in Buckets \ made : bucket[b] = {}

\* A backup that passed is not written to again.
LEMMA PassedBackupKept ==
    ASSUME BackupsInv, BackupNext, NEW s \in Slots, receipt[s].status = "PASS"
    PROVE /\ receipt'[s].status = "PASS"
          /\ dir'[s].state = dir[s].state /\ dir'[s].dump = dir[s].dump
          /\ dir'[s].copied = dir[s].copied
<1>0. /\ tool \in [BackupRuns -> Tools] /\ receipt \in [Slots -> Receipts]
      /\ dir \in [Slots -> Dirs] /\ dir[s] \in Dirs
    BY DEF BackupsInv, BackupTypeOK
<1>1. CASE LiveSystem
  <2>1. UNCHANGED receipt /\ Disturb
      BY <1>1 DEF LiveSystem, StoreObject, ReferenceObject, ReleaseObject, DeleteObject, LiveStep
  <2> QED BY <1>0, <2>1 DEF Disturb, Dirs
<1>2. ASSUME NEW r \in BackupRuns, RunTool(r)
      PROVE receipt'[s] = receipt[s] /\ dir'[s] = dir[s]
  <2>1. tool[r].pc \in AtWork => tool[r].slot # s
      BY DEF BackupsInv, ToolOK
  <2>2. receipt[tool[r].slot].status = Absent => tool[r].slot # s BY DEF Absent
  <2>3. tool[r].slot # s \/ UNCHANGED <<receipt, dir>>
      BY <1>2, <2>1, <2>2
         DEF RunTool, ReserveReceipt, ReservationFails, MakeDirectory, DumpDatabase, ListObjects,
             WriteManifest, WritePass, WriteFail, ToolFails, CopyObject, ToolStep, AtWork,
             backupFiles
  <2>4. /\ \/ UNCHANGED receipt
           \/ \E v : receipt' = [receipt EXCEPT ![tool[r].slot] = v]
        /\ \/ UNCHANGED dir
           \/ \E v : dir' = [dir EXCEPT ![tool[r].slot] = v]
    <3>1. CASE ReserveReceipt(r) BY <3>1 DEF ReserveReceipt
    <3>2. CASE MakeDirectory(r) BY <3>2 DEF MakeDirectory
    <3>3. CASE DumpDatabase(r) BY <3>3 DEF DumpDatabase
    <3>4. CASE WriteManifest(r) BY <3>4 DEF WriteManifest
    <3>5. CASE WritePass(r) BY <3>5 DEF WritePass
    <3>6. CASE WriteFail(r) BY <3>6 DEF WriteFail
    <3>7. CASE ToolFails(r) BY <3>7 DEF ToolFails
    <3>8. CASE \E k \in Keys : CopyObject(r, k) BY <3>8 DEF CopyObject
    <3>9. CASE ReservationFails(r) \/ ListObjects(r)
        BY <3>9 DEF ReservationFails, ListObjects, backupFiles
    <3> QED BY <1>2, <3>1, <3>2, <3>3, <3>4, <3>5, <3>6, <3>7, <3>8, <3>9 DEF RunTool
  <2> QED BY <1>0, <2>3, <2>4
<1>3. CASE BackupTick \/ (\E r \in BackupRuns : RunBackup(r)) \/ (\E x \in Drills : RunDrill(x))
  <2>1. UNCHANGED <<receipt, dir>>
      BY <1>3 DEF BackupTick, RunBackup, StartRun, TakeLock, OverlapActive, AnswerFromSlot,
                  StartTool, ReportRun, ToolTimesOut, SchedulerDies, SchedStep,
                  RunDrill, AdmitDrill, CreateTargetDb, MakeBucket, TargetTaken,
                  RestoreDatabase, RestoreObject, Reconcile, DrillStep, backupFiles
  <2> QED BY <2>1
<1> QED BY <1>1, <1>2, <1>3 DEF BackupNext

\* A drill that does not move stays right, as long as the backup it restores and
\* the targets it has made stay as they are.
LEMMA DrillStays ==
    ASSUME NEW x \in Drills, DrillTypeOK, DrillOK(x), UNCHANGED drill[x],
           LET s == drill[x].slot IN
             receipt[s].status = "PASS" =>
               /\ receipt'[s].status = "PASS"
               /\ dir'[s].state = dir[s].state /\ dir'[s].dump = dir[s].dump
               /\ dir'[s].copied = dir[s].copied,
           made \subseteq made',
           drill[x].pc \in HasDb => UNCHANGED targetRefs[drill[x].db],
           drill[x].pc \in HasBucket => UNCHANGED bucket[drill[x].bucket]
    PROVE DrillOK(x)'
BY DEF DrillOK, HasDb, HasBucket

\* No drill at first.
LEMMA InitDrills == BackupInit => DrillsInv
<1> SUFFICES ASSUME BackupInit PROVE DrillsInv
    OBVIOUS
<1> USE DEF BackupInit, NoDrill
<1>1. 0 \in Slots BY SlotsInTime, BackupAssumption DEF SlotOf, Slots
<1>2. DrillTypeOK BY <1>1 DEF DrillTypeOK, DrillRecords, HasDb
<1>3. \A x \in Drills : DrillOK(x) BY DEF DrillOK, HasDb, HasBucket
<1>4. TargetsApart BY DEF TargetsApart, HasDb, HasBucket
<1> QED BY <1>2, <1>3, <1>4 DEF DrillsInv

\* The steps that are no drill's.
LEMMA DrillsUndisturbed ==
    ASSUME BackupsInv, DrillsInv, BackupNext, UNCHANGED <<drill, targets>>
    PROVE DrillsInv'
<1>0. UNCHANGED <<drill, made, targetRefs, bucket>> BY DEF targets
<1>1. ASSUME NEW x \in Drills PROVE DrillOK(x)'
  <2>1. drill[x].slot \in Slots BY DEF DrillsInv, DrillTypeOK, DrillRecords
  <2>2. DrillTypeOK /\ DrillOK(x) BY DEF DrillsInv
  <2>3. UNCHANGED <<drill[x], targetRefs[drill[x].db], bucket[drill[x].bucket]>>
        /\ made \subseteq made'
      BY <1>0
  <2> QED BY <2>1, <2>2, <2>3, PassedBackupKept, DrillStays
<1> QED BY <1>0, <1>1 DEF DrillsInv, DrillTypeOK, TargetsApart

\* What a drill's step must see to, for itself and for the rivals.
LEMMA OneDrillMoves ==
    ASSUME BackupsInv, DrillsInv, BackupNext, NEW x \in Drills,
           \A y \in Drills \ {x} : UNCHANGED drill[y],
           made \subseteq made',
           \A y \in Drills \ {x} : drill[y].pc \in HasDb => UNCHANGED targetRefs[drill[y].db],
           \A y \in Drills \ {x} :
               drill[y].pc \in HasBucket => UNCHANGED bucket[drill[y].bucket],
           drill'[x].pc \in HasDb =>
               \A y \in Drills \ {x} : drill[y].pc \in HasDb => drill[y].db # drill'[x].db,
           drill'[x].pc \in HasBucket =>
               \A y \in Drills \ {x} :
                   drill[y].pc \in HasBucket => drill[y].bucket # drill'[x].bucket,
           \A b \in Buckets \ made' : UNCHANGED bucket[b],
           DrillTypeOK', DrillOK(x)'
    PROVE DrillsInv'
<1>1. ASSUME NEW y \in Drills PROVE DrillOK(y)'
  <2>1. CASE y # x
    <3>1. drill[y].slot \in Slots BY DEF DrillsInv, DrillTypeOK, DrillRecords
    <3>2. DrillTypeOK /\ DrillOK(y) BY DEF DrillsInv
    <3> QED BY <2>1, <3>1, <3>2, PassedBackupKept, DrillStays
  <2> QED BY <2>1
<1>2. TargetsApart' BY DEF DrillsInv, TargetsApart
<1>3. (\A b \in Buckets \ made : bucket[b] = {})' BY DEF DrillsInv
<1> QED BY <1>1, <1>2, <1>3 DEF DrillsInv

\* The step of one drill, by itself.
LEMMA DrillMoves ==
    ASSUME BackupsInv, DrillsInv, NEW x \in Drills, RunDrill(x) PROVE DrillsInv'
<1> DEFINE d == drill[x]
           s == d.slot
<1>0. /\ drill \in [Drills -> DrillRecords]
      /\ targetRefs \in [TargetDbs -> SUBSET Keys]
      /\ bucket \in [Buckets -> SUBSET (Keys \X Slots)]
      /\ dir \in [Slots -> Dirs] /\ s \in Slots /\ dir[s] \in Dirs
      /\ DrillOK(x) /\ BackupNext
    BY DEF DrillsInv, DrillTypeOK, DrillRecords, BackupsInv, BackupTypeOK, BackupNext
<1>a. ASSUME NEW y \in Drills \ {x}
      PROVE /\ d.pc \in HasDb /\ drill[y].pc \in HasDb => drill[y].db # d.db
            /\ d.pc \in HasBucket /\ drill[y].pc \in HasBucket => drill[y].bucket # d.bucket
            /\ drill[y].pc \in HasDb => drill[y].db \in made
            /\ drill[y].pc \in HasBucket => drill[y].bucket \in made
    BY DEF DrillsInv, TargetsApart, DrillOK
<1>1. ASSUME NEW u \in Slots, NEW db \in TargetDbs, NEW b \in Buckets, AdmitDrill(x, u, db, b)
      PROVE DrillsInv'
  <2>1. /\ \A y \in Drills \ {x} : UNCHANGED drill[y]
        /\ UNCHANGED <<made, targetRefs, bucket, receipt, dir>>
        /\ receipt[u].status = "PASS" /\ dir[u].state = "manifest"
        /\ drill'[x] = [pc |-> "admitted", slot |-> u, db |-> db, bucket |-> b,
                        left |-> dir[u].copied]
      BY <1>0, <1>1 DEF AdmitDrill, targets, backupFiles
  <2>2. DrillTypeOK'
      BY <1>0, <1>1 DEF AdmitDrill, DrillTypeOK, DrillRecords, Dirs, targets
  <2>3. DrillOK(x)' BY <2>1 DEF DrillOK, HasDb, HasBucket
  <2>4. drill'[x].pc \notin HasDb /\ drill'[x].pc \notin HasBucket
      BY <2>1 DEF HasDb, HasBucket
  <2>5. made \subseteq made' BY <2>1
  <2> QED BY <1>0, <2>1, <2>2, <2>3, <2>4, <2>5, OneDrillMoves
<1>2. CASE CreateTargetDb(x)
  <2>1. /\ \A y \in Drills \ {x} : UNCHANGED drill[y]
        /\ UNCHANGED <<targetRefs, bucket, receipt, dir>>
        /\ d.pc = "admitted" /\ drill'[x] = [d EXCEPT !.pc = "database"]
        /\ d.db \notin made /\ made' = made \cup {d.db}
      BY <1>0, <1>2 DEF CreateTargetDb, DrillStep, backupFiles
  <2>2. DrillTypeOK'
      BY <1>0, <1>2 DEF CreateTargetDb, DrillStep, DrillTypeOK, DrillRecords, HasDb
  <2>3. DrillOK(x)' BY <1>0, <2>1 DEF DrillOK, HasDb, HasBucket
  <2>4. drill'[x].pc \notin HasBucket /\ drill'[x].db = d.db
      BY <1>0, <2>1 DEF HasBucket
  <2> QED BY <1>0, <1>a, <2>1, <2>2, <2>3, <2>4, OneDrillMoves
<1>3. CASE MakeBucket(x)
  <2>1. /\ \A y \in Drills \ {x} : UNCHANGED drill[y]
        /\ UNCHANGED <<targetRefs, bucket, receipt, dir>>
        /\ d.pc = "database" /\ drill'[x] = [d EXCEPT !.pc = "bucket"]
        /\ d.bucket \notin made /\ made' = made \cup {d.bucket}
      BY <1>0, <1>3 DEF MakeBucket, DrillStep, backupFiles
  <2>2. DrillTypeOK'
      BY <1>0, <1>3 DEF MakeBucket, DrillStep, DrillTypeOK, DrillRecords, HasDb
  <2>3. d.bucket \in Buckets /\ bucket[d.bucket] = {}
      BY <1>0, <2>1 DEF DrillsInv, DrillOK
  <2>4. DrillOK(x)' BY <1>0, <2>1, <2>3 DEF DrillOK, HasDb, HasBucket
  <2>5. drill'[x].db = d.db /\ drill'[x].bucket = d.bucket /\ d.pc \in HasDb
      BY <1>0, <2>1 DEF HasDb
  <2> QED BY <1>0, <1>a, <2>1, <2>2, <2>4, <2>5, OneDrillMoves
<1>4. CASE TargetTaken(x)
  <2>1. /\ \A y \in Drills \ {x} : UNCHANGED drill[y]
        /\ UNCHANGED <<made, targetRefs, bucket, receipt, dir>>
        /\ d.pc \in {"admitted", "database"} /\ drill'[x] = [d EXCEPT !.pc = "failed"]
      BY <1>0, <1>4 DEF TargetTaken, DrillStep, backupFiles, targets
  <2>2. DrillTypeOK'
      BY <1>0, <1>4 DEF TargetTaken, DrillStep, DrillTypeOK, DrillRecords, targets
  <2>3. d.left # {} BY <1>0, <2>1 DEF DrillOK, BackupsInv, SlotOK
  <2>4. DrillOK(x)' BY <1>0, <2>1, <2>3 DEF DrillOK, HasDb, HasBucket
  <2>5. drill'[x].pc \notin HasDb /\ drill'[x].pc \notin HasBucket /\ made \subseteq made'
      BY <1>0, <2>1 DEF HasDb, HasBucket
  <2> QED BY <1>0, <2>1, <2>2, <2>4, <2>5, OneDrillMoves
<1>5. CASE RestoreDatabase(x)
  <2>1. /\ \A y \in Drills \ {x} : UNCHANGED drill[y]
        /\ UNCHANGED <<made, bucket, receipt, dir>>
        /\ d.pc = "bucket" /\ drill'[x] = [d EXCEPT !.pc = "restored"]
        /\ targetRefs' = [targetRefs EXCEPT ![d.db] = dir[s].dump]
      BY <1>0, <1>5 DEF RestoreDatabase, DrillStep, backupFiles
  <2>2. DrillTypeOK'
    <3>1. d \in DrillRecords BY <1>0
    <3>2. drill' = [drill EXCEPT ![x].pc = "restored"]
        BY <1>5 DEF RestoreDatabase, DrillStep
    <3>3. drill' \in [Drills -> DrillRecords]
        BY <1>0, <3>1, <3>2 DEF DrillRecords, HasDb
    <3>4. dir[s].dump \in SUBSET Keys BY <1>0 DEF Dirs
    <3>5. targetRefs' \in [TargetDbs -> SUBSET Keys] BY <1>0, <2>1, <3>4
    <3> QED BY <1>0, <2>1, <3>3, <3>5 DEF DrillTypeOK
  <2>3. d.db \in TargetDbs /\ d.bucket \in Buckets /\ bucket[d.bucket] = {}
      BY <1>0, <2>1 DEF DrillOK
  <2>4. targetRefs'[d.db] = dir[s].dump
        /\ \A db \in TargetDbs \ {d.db} : UNCHANGED targetRefs[db]
      BY <1>0, <2>1, <2>3
  <2>5. DrillOK(x)'
    <3>1. (dir[s].copied \ dir[s].copied) \X {s} = {} OBVIOUS
    <3> QED BY <1>0, <2>1, <2>3, <2>4, <3>1 DEF DrillOK, HasDb, HasBucket
  <2>6. \A y \in Drills \ {x} : drill[y].pc \in HasDb => drill[y].db \in TargetDbs \ {d.db}
      BY <1>a, <2>1 DEF DrillsInv, DrillOK, HasDb
  <2>7. drill'[x].db = d.db /\ drill'[x].bucket = d.bucket /\ d.pc \in HasDb
        /\ d.pc \in HasBucket /\ made \subseteq made'
      BY <1>0, <2>1 DEF HasDb, HasBucket
  <2>8. \A y \in Drills \ {x} : drill[y].pc \in HasDb => UNCHANGED targetRefs[drill[y].db]
    <3>1. \A y \in Drills \ {x} : UNCHANGED drill[y].db BY <2>1
    <3> QED BY <2>4, <2>6, <3>1
  <2> QED BY <1>0, <1>a, <2>1, <2>2, <2>5, <2>7, <2>8, OneDrillMoves
<1>6. ASSUME NEW k \in Keys, RestoreObject(x, k) PROVE DrillsInv'
  <2>1. /\ \A y \in Drills \ {x} : UNCHANGED drill[y]
        /\ UNCHANGED <<made, targetRefs, receipt, dir>>
        /\ d.pc = "restored" /\ k \in d.left
        /\ drill'[x] = [d EXCEPT !.left = @ \ {k}]
        /\ bucket' = [bucket EXCEPT ![d.bucket] = @ \cup {<<k, s>>}]
      BY <1>0, <1>6 DEF RestoreObject, backupFiles
  <2>2. DrillTypeOK'
    <3>1. d \in DrillRecords BY <1>0
    <3>2. drill' = [drill EXCEPT ![x].left = @ \ {k}]
        BY <1>6 DEF RestoreObject
    <3>3. drill' \in [Drills -> DrillRecords]
        BY <1>0, <3>1, <3>2 DEF DrillRecords
    <3>4. <<k, s>> \in Keys \X Slots BY <1>0
    <3>5. bucket' \in [Buckets -> SUBSET (Keys \X Slots)] BY <1>0, <2>1, <3>4
    <3> QED BY <1>0, <2>1, <3>3, <3>5 DEF DrillTypeOK
  <2>3. /\ d.db \in TargetDbs /\ d.bucket \in Buckets
        /\ d.left \subseteq dir[s].copied
        /\ bucket[d.bucket] = (dir[s].copied \ d.left) \X {s}
      BY <1>0, <2>1 DEF DrillOK
  <2>4. bucket'[d.bucket] = bucket[d.bucket] \cup {<<k, s>>}
        /\ \A b \in Buckets \ {d.bucket} : UNCHANGED bucket[b]
      BY <1>0, <2>1, <2>3
  <2>5. bucket'[d.bucket] = (dir[s].copied \ (d.left \ {k})) \X {s}
      BY <2>1, <2>3, <2>4
  <2>6. DrillOK(x)'
      BY <1>0, <2>1, <2>3, <2>5 DEF DrillOK, HasDb, HasBucket
  <2>7. drill'[x].db = d.db /\ drill'[x].bucket = d.bucket /\ d.pc \in HasDb
        /\ d.pc \in HasBucket /\ made \subseteq made' /\ d.bucket \in made
      BY <1>0, <2>1 DEF HasDb, HasBucket, DrillOK
  <2>8. \A y \in Drills \ {x} :
            drill[y].pc \in HasBucket => drill[y].bucket \in Buckets \ {d.bucket}
      BY <1>a, <2>7 DEF DrillsInv, DrillOK, HasBucket
  <2>9. \A y \in Drills \ {x} :
            drill[y].pc \in HasBucket => UNCHANGED bucket[drill[y].bucket]
    <3>1. \A y \in Drills \ {x} : UNCHANGED drill[y].bucket BY <2>1
    <3> QED BY <2>4, <2>8, <3>1
  <2>10. \A b \in Buckets \ made' : UNCHANGED bucket[b]
      BY <2>1, <2>4, <2>7
  <2>11. \A y \in Drills \ {x} :
            /\ drill[y].pc \in HasDb => drill[y].db # drill'[x].db
            /\ drill[y].pc \in HasBucket => drill[y].bucket # drill'[x].bucket
      BY <1>a, <2>7
  <2> QED BY <1>0, <2>1, <2>2, <2>6, <2>7, <2>9, <2>10, <2>11, OneDrillMoves
<1>7. CASE Reconcile(x)
  <2> DEFINE v == IF Reconciled(x) THEN "passed" ELSE "failed"
  <2>1. /\ \A y \in Drills \ {x} : UNCHANGED drill[y]
        /\ UNCHANGED <<made, targetRefs, bucket, receipt, dir>>
        /\ d.pc = "restored" /\ d.left = {} /\ drill'[x] = [d EXCEPT !.pc = v]
      BY <1>0, <1>7 DEF Reconcile, DrillStep, backupFiles, targets
  <2>2. v \in {"passed", "failed"} OBVIOUS
  <2>3. DrillTypeOK'
      BY <1>0, <1>7, <2>2 DEF Reconcile, DrillStep, DrillTypeOK, DrillRecords, targets, HasDb
  <2>4. /\ bucket[d.bucket] = dir[s].copied \X {s}
        /\ targetRefs[d.db] = dir[s].dump
      BY <1>0, <2>1 DEF DrillOK
  <2>5. BucketKeys(d.bucket) = dir[s].copied
    <3>1. ASSUME NEW k \in dir[s].copied PROVE k \in BucketKeys(d.bucket)
      <4>1. <<k, s>> \in bucket[d.bucket] /\ <<k, s>>[1] = k BY <2>4
      <4> QED BY <4>1 DEF BucketKeys
    <3>2. ASSUME NEW k \in BucketKeys(d.bucket) PROVE k \in dir[s].copied
      <4>1. PICK o \in bucket[d.bucket] : k = o[1] BY DEF BucketKeys
      <4> QED BY <2>4, <4>1
    <3> QED BY <3>1, <3>2
  <2>6. v = "passed" <=> dir[s].dump = dir[s].copied
      BY <2>4, <2>5 DEF Reconciled
  <2>7. drill'[x].pc = v /\ drill'[x].slot = s /\ drill'[x].db = d.db
        /\ drill'[x].bucket = d.bucket /\ drill'[x].left = {}
      BY <1>0, <2>1
  <2>8. DrillOK(x)'
    <3> HIDE DEF v
    <3> QED BY <1>0, <2>1, <2>2, <2>4, <2>6, <2>7 DEF DrillOK, HasDb, HasBucket
  <2>9. d.pc \in HasDb /\ d.pc \in HasBucket /\ made \subseteq made'
      BY <2>1 DEF HasDb, HasBucket
  <2> HIDE DEF v
  <2> QED BY <1>0, <1>a, <2>1, <2>3, <2>7, <2>8, <2>9, OneDrillMoves
<1> QED BY <1>1, <1>2, <1>3, <1>4, <1>5, <1>6, <1>7 DEF RunDrill

\* Every step keeps the invariant of the drills.
LEMMA DrillsStep == ASSUME BackupsInv, DrillsInv, BackupNext PROVE DrillsInv'
<1>1. CASE \E x \in Drills : RunDrill(x)
    BY <1>1, DrillMoves
<1>2. CASE ~ \E x \in Drills : RunDrill(x)
  <2>1. UNCHANGED <<drill, targets>>
    <3>1. CASE BackupTick \/ LiveSystem
        BY <3>1 DEF BackupTick, LiveSystem, StoreObject, ReferenceObject, ReleaseObject,
                    DeleteObject, LiveStep
    <3>2. ASSUME NEW r \in BackupRuns, RunBackup(r) PROVE UNCHANGED <<drill, targets>>
        BY <3>2 DEF RunBackup, StartRun, TakeLock, OverlapActive, AnswerFromSlot,
                    StartTool, ReportRun, ToolTimesOut, SchedulerDies, SchedStep
    <3>3. ASSUME NEW r \in BackupRuns, RunTool(r) PROVE UNCHANGED <<drill, targets>>
        BY <3>3 DEF RunTool, ReserveReceipt, ReservationFails, MakeDirectory, DumpDatabase,
                    ListObjects, WriteManifest, WritePass, WriteFail, ToolFails, CopyObject,
                    ToolStep
    <3> QED BY <1>2, <3>1, <3>2, <3>3 DEF BackupNext
  <2> QED BY <2>1, DrillsUndisturbed
<1> QED BY <1>1, <1>2

\* A step that changes nothing keeps it too.
LEMMA DrillsStutter == ASSUME DrillsInv, UNCHANGED backupVars PROVE DrillsInv'
BY DEF DrillsInv, DrillTypeOK, DrillOK, TargetsApart, backupVars, backupFiles, targets

\* The verdict follows from the two invariants: when rows and objects differ in
\* the copy, the system changed between the dump and the last object.
LEMMA VerdictFromInvariants == ASSUME BackupsInv, DrillsInv PROVE DrillVerdictTrue
<1> SUFFICES ASSUME NEW x \in Drills
             PROVE LET s == drill[x].slot IN
                   /\ drill[x].pc = "passed" =>
                        /\ targetRefs[drill[x].db] = dir[s].dump
                        /\ bucket[drill[x].bucket] = dir[s].dump \X {s}
                   /\ drill[x].pc = "failed" /\ drill[x].left = {} => ~dir[s].quiet
    BY DEF DrillVerdictTrue
<1>1. drill[x].slot \in Slots /\ DrillOK(x) /\ SlotOK(drill[x].slot)
    BY DEF DrillsInv, DrillTypeOK, DrillRecords, BackupsInv
<1> QED BY <1>1 DEF DrillOK, SlotOK

\* A drill that passed has restored one whole backup; one that failed at the
\* comparison has found a backup of a system that changed meanwhile.
THEOREM VerdictsTrue == BackupSpec => []DrillVerdictTrue
<1>1. BackupInit => BackupsInv /\ DrillsInv BY InitBackups, InitDrills
<1>2. BackupsInv /\ DrillsInv /\ [BackupNext]_backupVars => (BackupsInv /\ DrillsInv)'
    BY BackupsStep, BackupsStutter, DrillsStep, DrillsStutter
<1>3. BackupsInv /\ DrillsInv => DrillVerdictTrue BY VerdictFromInvariants
<1> QED BY <1>1, <1>2, <1>3, PTL DEF BackupSpec

==============================================================================
