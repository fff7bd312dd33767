----------------------------- MODULE RateLimiter -----------------------------
(***************************************************************************)
(* The two stores of infrastructure/rate_limiter.py for one key: the       *)
(* process-local deque and the Redis sorted set, whose key also expires.   *)
(* Both get the same requests.  Times are ticks of one clock.  A hit is a  *)
(* member of its store: the tick of its request, and a number that stands  *)
(* for its place in the deque or for the random token of a set member.     *)
(***************************************************************************)
EXTENDS Integers, FiniteSets

CONSTANTS Limit, Window,
          MaxTicks    \* bound: the clock

ASSUME LimiterAssumption ==
    Limit \in Nat \ {0} /\ Window \in Nat \ {0} /\ MaxTicks \in Nat

VARIABLES
    ticks,
    hits,       \* SlidingWindowStore._buckets[key]
    zset,       \* the sorted set
    lifetime,   \* its time to live
    charged,    \* what was charged, per store, never forgotten
    verdict     \* the last answer of each store, and the load it answered to

limiterVars == <<ticks, hits, zset, lifetime, charged, verdict>>

Backends == {"memory", "redis"}

\* The hit of a request that a store lets through.
Hit(b) == [at |-> ticks, no |-> Cardinality(charged[b]) + 1]

\* The definition both stores implement: hits less than a window old.
InWindow(b) == {h \in charged[b] : h.at + Window > ticks}
Load(b) == Cardinality(InWindow(b))

LimiterInit ==
    /\ ticks = 0
    /\ hits = {} /\ zset = {} /\ lifetime = 0
    /\ charged = [b \in Backends |-> {}]
    /\ verdict = [b \in Backends |-> [allowed |-> TRUE, load |-> 0]]

\* Mutant: the oldest hit is dropped only after a full window.
DropLater == {h \in hits : ticks - h.at <= Window}

\* now - hits[0] >= window_seconds is dropped.
PurgedHits == {h \in hits : ~(ticks - h.at >= Window)}

\* ZREMRANGEBYSCORE key -inf now - window.
PurgedSet == {h \in zset : ~(h.at <= ticks - Window)}

Answer(b, allowed) == [allowed |-> allowed, load |-> Load(b)]

\* A refusal renews the time to live as well.
Request ==
    LET local == IF Cardinality(PurgedHits) < Limit THEN {Hit("memory")} ELSE {}
        remote == IF Cardinality(PurgedSet) < Limit THEN {Hit("redis")} ELSE {} IN
    /\ Cardinality(charged["redis"]) < Limit * MaxTicks
    /\ hits' = PurgedHits \cup local
    /\ zset' = PurgedSet \cup remote
    /\ lifetime' = Window + 1
    /\ charged' = [memory |-> charged["memory"] \cup local,
                   redis |-> charged["redis"] \cup remote]
    /\ verdict' = [memory |-> Answer("memory", local # {}),
                   redis |-> Answer("redis", remote # {})]
    /\ UNCHANGED ticks

\* The script has run and the reply is lost: the caller is told 503, the hit
\* stays.  The local store has no such failure.
ReplyLost ==
    /\ Cardinality(PurgedSet) < Limit
    /\ Cardinality(charged["redis"]) < Limit * MaxTicks
    /\ zset' = PurgedSet \cup {Hit("redis")}
    /\ lifetime' = Window + 1
    /\ charged' = [charged EXCEPT !["redis"] = @ \cup {Hit("redis")}]
    /\ UNCHANGED <<ticks, hits, verdict>>

LimiterTick ==
    /\ ticks < MaxTicks
    /\ ticks' = ticks + 1
    /\ lifetime' = IF lifetime = 0 THEN 0 ELSE lifetime - 1
    /\ zset' = IF lifetime = 1 THEN {} ELSE zset
    /\ UNCHANGED <<hits, charged, verdict>>

LimiterNext == Request \/ ReplyLost \/ LimiterTick
LimiterSpec == LimiterInit /\ [][LimiterNext]_limiterVars
-----------------------------------------------------------------------------
\* Both stores answer as the definition of a sliding window does, at its very
\* edge, after lost replies and after the Redis key has expired; and no window
\* ever holds more than the limit.
WindowExact ==
    \A b \in Backends :
      /\ verdict[b].allowed <=> verdict[b].load < Limit
      /\ Load(b) <= Limit
=============================================================================
