------------------------------- MODULE Limits -------------------------------
(***************************************************************************)
(* The rate limiters: the script in Redis (storage/redis/ratelimiter.go)   *)
(* behind ratelimit/distributed.go, the token buckets of the API           *)
(* (api/middleware/ratelimit.go), the sliding window of the MCP worker     *)
(* (worker/mcp/worker.go), the counter of the MCP gateway (mcp/security/   *)
(* auth.go), and the adaptive pace of the connectors' HTTP client          *)
(* (connectors/common/http_client.go).                                     *)
(*                                                                         *)
(* A behaviour has one limiter and one key.  The goroutines that find an   *)
(* entry for it use the entry after the lock of the map is released.       *)
(***************************************************************************)
EXTENDS Integers, Sequences, FiniteSets, SequencesExt, FiniteSetsExt

CONSTANTS LimProcs,
          LimKinds,      \* which limiter
          LimLimit,      \* requests per window
          LimBurst,      \* BurstSize of the MCP worker, in one tick
          LimWindow,     \* ticks of a window
          LimSecond,     \* ticks of a second
          LimIdle,       \* ticks after which an unused bucket is removed
          LimAges,       \* what CleanupRateLimits may be called with
          LimMaxTick,    \* bound: clock
          LimMaxEntries  \* bound: entries made

ASSUME LimitsAssumption ==
    /\ {LimLimit, LimBurst, LimWindow, LimSecond, LimMaxTick, LimMaxEntries} \subseteq Nat \ {0}
    /\ LimKinds \subseteq {"redis", "bucket", "mcp", "agent", "rest"}
    /\ LimIdle \in Nat /\ LimIdle >= LimWindow /\ LimAges \subseteq Nat
    /\ IsFiniteSet(LimProcs)

VARIABLES limKind, limNow,
          limEntries,  \* entries ever made: count or tokens, time, calls; and of each, as
                       \* history, the requests it let through in the last window (log)
                       \* and how many after it had left the map (late)
          limKey,      \* the entry of the key in the map, 0: none
          limProcs,    \* of each caller: where it is, and the entry it holds
          limSweep,    \* the cleaner of the buckets has found this one idle
          limSplit     \* history: an entry was removed that was not old: by a Reset, by
                       \* CleanupRateLimits with an age below the window, or because its
                       \* bucket was used after the cleaner had looked at it

limVars == <<limKind, limNow, limEntries, limKey, limProcs, limSweep, limSplit>>

\* Calls are kept as a set of pairs <<time, number within that tick>>: what the code
\* keeps in slices of times, in their order.
Noted(calls) ==
    calls \union {<<limNow, Cardinality({c \in calls : c[1] = limNow}) + 1>>}
Since(calls, t) == {c \in calls : c[1] >= t}

NotAsking == [pc |-> "idle", at |-> 0]
NewEntry == [n |-> IF limKind = "bucket" THEN LimLimit * LimWindow ELSE 0,
             time |-> limNow, calls |-> {}, log |-> {}, late |-> 0]

LimitsInit ==
    /\ limKind \in LimKinds /\ limNow = 0
    /\ limEntries = <<>> /\ limKey = 0
    /\ limProcs = [p \in LimProcs |-> NotAsking]
    /\ limSweep = FALSE /\ limSplit = FALSE

LimTick ==
    /\ limNow < LimMaxTick /\ limNow' = limNow + 1
    /\ limEntries' = [k \in DOMAIN limEntries |->
                         [limEntries[k] EXCEPT !.log = Since(@, limNow' - LimWindow)]]
    /\ UNCHANGED <<limKind, limKey, limProcs, limSweep, limSplit>>

\* The entry lets the request through, or not.
Lets(e, ok) == IF ok THEN [e EXCEPT !.log = Noted(@)] ELSE e

\* The caller returns.
Answers(p) ==
    /\ limProcs' = [limProcs EXCEPT ![p] = NotAsking]
    /\ UNCHANGED <<limKind, limNow, limSweep, limSplit>>

\* The entry of the key, the map's or a new one, becomes e.
Puts(e) ==
    IF limKey # 0
    THEN limEntries' = [limEntries EXCEPT ![limKey] = e] /\ UNCHANGED limKey
    ELSE /\ Len(limEntries) < LimMaxEntries
         /\ limEntries' = Append(limEntries, e) /\ limKey' = Len(limEntries) + 1

-----------------------------------------------------------------------------
(* The counters: Redis's, one script, atomic, whose key expires by itself;  *)
(* the gateway's, under one lock.                                           *)

\* The script is given whole seconds, and one at least.
RedisWindow == Max({LimWindow \div LimSecond, 1}) * LimSecond
CountedWindow == IF limKind = "redis" THEN RedisWindow ELSE LimWindow

\* The count a caller meets, of a window that has passed begun again.
Counter ==
    IF limKey = 0 THEN NewEntry
    ELSE IF limNow - limEntries[limKey].time < CountedWindow THEN limEntries[limKey]
    ELSE [limEntries[limKey] EXCEPT !.n = 0, !.time = limNow]

\* Allow; a caller of Wait asks again until it is let through.  (An error, also one
\* after the reload of a script that Redis has lost, lets nothing through.)
RedisAllow(p) ==
    /\ limKind = "redis"
    /\ IF Counter.n >= LimLimit THEN UNCHANGED <<limEntries, limKey>>
       ELSE Puts(Lets([Counter EXCEPT !.n = @ + 1], TRUE))
    /\ Answers(p)

RateLimiterReset ==
    /\ limKind \in {"redis", "agent"} /\ limKey # 0
    /\ limKey' = 0 /\ limSplit' = TRUE
    /\ UNCHANGED <<limKind, limNow, limEntries, limProcs, limSweep>>

\* The first request of a window is let through; a count beyond the limit is the same
\* as the limit and one.
AgentAllow(p) ==
    /\ limKind = "agent"
    /\ Puts(Lets([Counter EXCEPT !.n = IF @ > LimLimit THEN @ ELSE @ + 1],
                 Counter.n = 0 \/ Counter.n + 1 <= LimLimit))
    /\ Answers(p)

\* Windows of twice the interval are removed.
AgentCleanup ==
    /\ limKind = "agent" /\ limKey # 0 /\ limNow - limEntries[limKey].time >= 2 * LimWindow
    /\ limKey' = 0
    /\ UNCHANGED <<limKind, limNow, limEntries, limProcs, limSweep, limSplit>>

-----------------------------------------------------------------------------
(* Entries that are found, or made, first and used under their own lock.    *)

\* getBucket (Load, then LoadOrStore); checkRateLimit (read lock, then lock with a
\* double check): the entry that ends up in the map is the one that is used.
Finds(p) ==
    /\ limKind \in {"bucket", "mcp"} /\ limProcs[p].pc = "idle"
    /\ IF limKey # 0 THEN UNCHANGED <<limEntries, limKey>>
       ELSE /\ Len(limEntries) < LimMaxEntries
            /\ limEntries' = Append(limEntries, NewEntry)
            /\ limKey' = Len(limEntries) + 1
    /\ limProcs' = [limProcs EXCEPT ![p] = [pc |-> "found", at |-> limKey']]
    /\ UNCHANGED <<limKind, limNow, limSweep, limSplit>>

\* The caller's entry becomes e, and lets it through or not.
Uses(p, e, ok) ==
    LET k == limProcs[p].at IN
    /\ limProcs[p].pc = "found"
    /\ limEntries' = [limEntries EXCEPT ![k] =
          [Lets(e, ok) EXCEPT !.late = IF ok /\ k # limKey THEN @ + 1 ELSE @]]
    /\ UNCHANGED limKey /\ Answers(p)

\* Tokens are counted in parts of a window's tick: a request takes LimWindow of them,
\* a tick brings LimLimit, and there are never more than a window's worth.
BucketAllow(p) ==
    LET e == limEntries[limProcs[p].at]
        tokens == Min({LimLimit * LimWindow, e.n + (limNow - e.time) * LimLimit})
        ok == tokens >= LimWindow IN
    /\ limKind = "bucket"
    /\ Uses(p, [e EXCEPT !.time = limNow, !.n = IF ok THEN tokens - LimWindow ELSE tokens], ok)

PruneEarly(calls) == Since(calls, limNow - LimWindow + 1)
Prune(calls) == Since(calls, limNow - LimWindow)

tryAcquire(p) ==
    LET e == limEntries[limProcs[p].at]
        calls == Prune(e.calls)
        burst == Since(calls, limNow)
        ok == Cardinality(calls) < LimLimit /\ Cardinality(burst) < LimBurst IN
    /\ limKind = "mcp"
    /\ Uses(p, [e EXCEPT !.calls = IF ok THEN Noted(calls) ELSE calls], ok)

\* The cleaner looks at a bucket under its lock, and deletes the key after it, whatever
\* has been asked of the bucket meanwhile.
BucketIdle ==
    /\ limKind = "bucket" /\ limKey # 0 /\ ~limSweep
    /\ limNow - limEntries[limKey].time > LimIdle /\ limSweep' = TRUE
    /\ UNCHANGED <<limKind, limNow, limEntries, limKey, limProcs, limSplit>>

BucketDelete ==
    /\ limSweep /\ limSweep' = FALSE /\ limKey' = 0
    /\ limSplit' = (limSplit \/ limNow - limEntries[limKey].time <= LimIdle)
    /\ UNCHANGED <<limKind, limNow, limEntries, limProcs>>

\* An entry without a call of that age leaves the map, also one that a caller has just
\* found.
CleanupRateLimits(age) ==
    /\ limKind = "mcp" /\ limKey # 0
    /\ Since(limEntries[limKey].calls, limNow - age) = {}
    /\ limKey' = 0 /\ limSplit' = (limSplit \/ age < LimWindow)
    /\ UNCHANGED <<limKind, limNow, limEntries, limProcs, limSweep>>

-----------------------------------------------------------------------------
(* The HTTP client's pace: half requests per window, time of the last one.  *)
(* Its goroutines sleep with the mutex held.                                *)

RestUnlocked == \A p \in LimProcs : limProcs[p].pc # "sleep"

waitForRateLimit(p) ==
    /\ limKind = "rest" /\ limProcs[p].pc = "idle" /\ RestUnlocked
    /\ limEntries' = IF limKey # 0 THEN limEntries
                     ELSE <<[NewEntry EXCEPT !.n = 2 * LimLimit, !.time = -4 * LimWindow]>>
    /\ limKey' = 1
    /\ limProcs' = [limProcs EXCEPT ![p] = [pc |-> "sleep", at |-> 1]]
    /\ UNCHANGED <<limKind, limNow, limSweep, limSplit>>

\* The interval of the pace has passed; the request is sent.
RestSends(p) ==
    LET e == limEntries[1] IN
    /\ limProcs[p].pc = "sleep" /\ (limNow - e.time) * e.n >= 2 * LimWindow
    /\ limEntries' = <<Lets([e EXCEPT !.time = limNow], TRUE)>>
    /\ limProcs' = [limProcs EXCEPT ![p] = [pc |-> "sent", at |-> 1]]
    /\ UNCHANGED <<limKind, limNow, limKey, limSweep, limSplit>>

\* A 429 halves the pace, down to half a request; an answer brings half of one back.
RestAnswered(p, adapted) ==
    /\ limProcs[p].pc = "sent" /\ RestUnlocked
    /\ limEntries' = <<[limEntries[1] EXCEPT !.n = adapted]>>
    /\ limProcs' = [limProcs EXCEPT ![p] = NotAsking]
    /\ UNCHANGED <<limKind, limNow, limKey, limSweep, limSplit>>

adaptiveDecrease(p) ==
    limProcs[p].pc = "sent" /\ RestAnswered(p, Max({limEntries[1].n \div 2, 1}))
adaptiveIncrease(p) ==
    limProcs[p].pc = "sent" /\ RestAnswered(p, Min({limEntries[1].n + 1, 2 * LimLimit}))

LimitsNext ==
    \/ \E p \in LimProcs : \/ RedisAllow(p) \/ AgentAllow(p) \/ Finds(p)
                           \/ BucketAllow(p) \/ tryAcquire(p)
                           \/ waitForRateLimit(p) \/ RestSends(p)
                           \/ adaptiveDecrease(p) \/ adaptiveIncrease(p)
    \/ RateLimiterReset \/ AgentCleanup \/ BucketIdle \/ BucketDelete \/ LimTick
    \/ \E age \in LimAges : CleanupRateLimits(age)

LimitsSpec == LimitsInit /\ [][LimitsNext]_limVars

-----------------------------------------------------------------------------
LimitsTypeOK ==
    /\ limKind \in LimKinds /\ limNow \in 0..LimMaxTick /\ {limSweep, limSplit} \subseteq BOOLEAN
    /\ limKey \in 0..Len(limEntries)
    /\ \A p \in LimProcs : limProcs[p].at \in 0..Len(limEntries)
    /\ \A n \in 1..Len(limEntries) : limEntries[n].n \in 0..(LimLimit * (LimWindow + 1))

\* What one entry lets through in any stretch of a window, beside the limit: the MCP
\* worker, which keeps the times, no more than the limit; the pace of the HTTP client one
\* more; the bucket, which refills while it is used, and a counter that begins again
\* twice as much, and three times where Redis counts in a shorter window than it is
\* asked for.
LimMost ==
    CASE limKind = "mcp" -> LimLimit
      [] limKind = "rest" -> LimLimit + 1
      [] limKind = "redis" /\ RedisWindow < LimWindow -> 3 * LimLimit
      [] OTHER -> 2 * LimLimit
Holders(k) == {p \in LimProcs : limProcs[p].at = k}

\* What a limit means, for every stretch of one window and not only for the windows the
\* limiter counts in, and when entries are removed beside their callers.  One entry lets
\* no more than LimMost through.  (Twice or three times the limit for the two counters
\* whose comments promise a sliding window, storage/redis/ratelimiter.go:11 and
\* mcp/security/auth.go:199: they begin again.)  An entry that was removed while callers
\* had it (api/middleware/ratelimit.go:69-77, worker/mcp/worker.go:204) lets each caller
\* through once more at most; and if it was old, those are all it has let through in the
\* last window.
AdmissionBounded ==
    \A k \in 1..Len(limEntries) :
       /\ Cardinality(limEntries[k].log) <= LimMost
       /\ k # limKey =>
             /\ limEntries[k].late + Cardinality(Holders(k)) <= Cardinality(LimProcs)
             /\ ~limSplit => Cardinality(limEntries[k].log) <= limEntries[k].late
=============================================================================
