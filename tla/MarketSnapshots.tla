-------------------------- MODULE MarketSnapshots --------------------------
(***************************************************************************)
(* The Lowest BIN snapshot of MarketGuard.  Every server process refreshes *)
(* it on a timer and, when it has to, inside a request; the last one is in *)
(* the database, with a ledger of the versions that entered the daily      *)
(* aggregates.  Answers are cached in each process and in Redis.           *)
(*                                                                         *)
(* One action is one await: a database transaction, an upstream fetch, a   *)
(* cache access, the acquisition of the service's asyncio lock.  A process *)
(* name also names its refresher; requests have names of their own.        *)
(* BazaarService has the same control without the ledger.                  *)
(***************************************************************************)
EXTENDS Integers, Sequences, FiniteSets

CONSTANTS
    Processes,   \* server processes; each runs one refresher
    Requests,    \* handler coroutines of GET /api/v2/lowestbin
    Home,        \* the process each request runs in
    NoProcess,   \* no process
    CacheTtl,    \* cache_ttl_seconds
    StaleLimit,  \* stale_if_error_seconds
    LocalTtl,    \* local_cache_ttl_seconds
    RedisTtl,    \* redis_cache_ttl_seconds
    DayLength,   \* clock ticks of a day
    Retention,   \* history_retention_days
    Window,      \* days of the longest average
    Patience,    \* assumed: ticks at most from a start to the lock, and from there to the end
    MaxTime      \* bound: the last tick of the clock

ASSUME MarketConstants ==
    /\ Home \in [Requests -> Processes]
    /\ Processes \cap Requests = {}
    /\ NoProcess \notin Processes
    /\ {CacheTtl, StaleLimit, LocalTtl, RedisTtl, DayLength, Retention, Window} \subseteq Nat \ {0}
    /\ Patience \in Nat /\ MaxTime \in Nat \ {0}
    /\ CacheTtl <= StaleLimit
    /\ Window + ((Patience + DayLength - 1) \div DayLength) <= Retention

Actors == Processes \cup Requests
ProcessOf(a) == IF a \in Requests THEN Home[a] ELSE a

Times == 1..MaxTime
Day(v) == v \div DayLength
Days  == 0..Day(MaxTime)

VARIABLES
    clock,      \* the time; upstream publishes version clock of the auctions at each tick
    stored,     \* marketguard_lowestbin_current_snapshot and its items
    writer,     \* history: the process that stored it
    processed,  \* marketguard_processed_lowestbin_snapshots
    samples,    \* sample_count of each day in marketguard_lowestbin_daily_aggregates
    counted,    \* history: every version that ever entered the aggregates
    inline,     \* each service's _inline_refresh_enabled
    waiters,    \* each service's asyncio lock: the holder, then those that wait
    op,         \* where each refresher and each request is, and what it remembers
    local,      \* each process's LocalResponseCache, its Lowest BIN entry
    redis       \* the Lowest BIN entry in Redis

tables == <<stored, writer, processed, samples, counted>>
caches == <<local, redis>>
vars   == <<clock, tables, inline, waiters, op, caches>>

Snapshot == [version : Times, gen : Times]
NoSnapshot == [version |-> 0, gen |-> 0]

Operation ==
    [pc : {"idle", "read", "queued", "recheck", "fetch", "persist", "averages", "share", "warm"},
     now : 0..MaxTime, seen : Snapshot \cup {NoSnapshot}, stale : BOOLEAN]
Resting == [pc |-> "idle", now |-> 0, seen |-> NoSnapshot, stale |-> FALSE]

Entry == [snap : Snapshot, stale : BOOLEAN, expires : 2..(MaxTime + LocalTtl + RedisTtl)]
NoEntry == [snap |-> NoSnapshot, stale |-> FALSE, expires |-> 0]
Live(e) == clock < e.expires

-----------------------------------------------------------------------------
(* Ages: _is_snapshot_fresh, _can_serve_snapshot_stale.                    *)

Fresh_Inclusive(s, now) == s # NoSnapshot /\ now - s.gen <= CacheTtl
Fresh(s, now)    == s # NoSnapshot /\ now - s.gen < CacheTtl
Servable(s, now) == s # NoSnapshot /\ now - s.gen < StaleLimit

-----------------------------------------------------------------------------
(* The lock: a sequence of actors, its head holds it.                      *)

Holding(a) == op[a].pc \in {"recheck", "fetch", "persist"}

Enqueued(a) == [waiters EXCEPT ![ProcessOf(a)] = Append(@, a)]
Released(a) ==
    IF Holding(a) THEN [waiters EXCEPT ![ProcessOf(a)] = Tail(@)] ELSE waiters

\* A refresh in the background waits for the lock at once, a request looks at the
\* stored snapshot first.
Wake_TakesOver(p) ==
    /\ op[p].pc = "idle"
    /\ op' = [op EXCEPT ![p] = [Resting EXCEPT !.pc = "queued", !.now = clock]]
    /\ inline' = [inline EXCEPT ![p] = FALSE]
    /\ waiters' = Enqueued(p)
    /\ UNCHANGED <<clock, tables, caches>>
Wake_Once(p) ==
    /\ op[p].pc = "idle"
    /\ inline[p]
    /\ op' = [op EXCEPT ![p] = [Resting EXCEPT !.pc = "queued", !.now = clock]]
    /\ waiters' = Enqueued(p)
    /\ UNCHANGED <<clock, tables, inline, caches>>
Wake(p) ==
    /\ op[p].pc = "idle"
    /\ op' = [op EXCEPT ![p] = [Resting EXCEPT !.pc = "queued", !.now = clock]]
    /\ waiters' = Enqueued(p)
    /\ UNCHANGED <<clock, tables, inline, caches>>

Acquire_Unlocked(a) ==
    /\ op[a].pc = "queued"
    /\ op' = [op EXCEPT ![a].pc = IF a \in Requests THEN "recheck" ELSE "fetch",
                        ![a].now = clock]
    /\ UNCHANGED <<clock, tables, inline, waiters, caches>>
Acquire(a) ==
    /\ op[a].pc = "queued"
    /\ waiters[ProcessOf(a)] # <<>>
    /\ Head(waiters[ProcessOf(a)]) = a
    /\ op' = [op EXCEPT ![a] = [@ EXCEPT !.pc = IF a \in Requests THEN "recheck" ELSE "fetch",
                                         !.now = clock]]
    /\ UNCHANGED <<clock, tables, inline, waiters, caches>>

-----------------------------------------------------------------------------
(* A request: _load_lowestbin_payload and _load_snapshot.  An answer from  *)
(* the local cache changes nothing.                                        *)

Cached(r, ttl) == [snap |-> op[r].seen, stale |-> op[r].stale, expires |-> clock + ttl]

\* Redis has the entry; it comes over the network, and then replaces whatever the
\* local cache holds by now.  The chain's lock is not taken for that.
ReadShared(r) ==
    /\ op[r].pc = "idle"
    /\ ~Live(local[Home[r]])
    /\ Live(redis)
    /\ op' = [op EXCEPT ![r] = [pc |-> "warm", now |-> clock,
                               seen |-> redis.snap, stale |-> redis.stale]]
    /\ UNCHANGED <<clock, tables, inline, waiters, caches>>

WarmLocal(r) ==
    /\ op[r].pc = "warm"
    /\ local' = [local EXCEPT ![Home[r]] = Cached(r, LocalTtl)]
    /\ op' = [op EXCEPT ![r] = Resting]
    /\ UNCHANGED <<clock, tables, inline, waiters, redis>>

\* Redis has no entry, or cannot be read.
RequestMisses(r) ==
    /\ op[r].pc = "idle"
    /\ ~Live(local[Home[r]])
    /\ op' = [op EXCEPT ![r] = [Resting EXCEPT !.pc = "read", !.now = clock]]
    /\ UNCHANGED <<clock, tables, inline, waiters, caches>>

\* What the lock-free read can be answered with.
ServedAtOnce(r) ==
    \/ Fresh(stored, op[r].now)
    \/ ~inline[Home[r]] /\ Servable(stored, op[r].now)

ReadStored(r) ==
    /\ op[r].pc = "read"
    /\ IF ServedAtOnce(r)
       THEN /\ op' = [op EXCEPT ![r].pc = "averages", ![r].seen = stored,
                                ![r].stale = ~Fresh(stored, op[r].now)]
            /\ waiters' = waiters
       ELSE /\ op' = [op EXCEPT ![r].pc = "queued", ![r].seen = stored]
            /\ waiters' = Enqueued(r)
    /\ UNCHANGED <<clock, tables, inline, caches>>

\* With the lock held the snapshot is read again; it may be fresh by now.
RecheckServes_Never(r) == FALSE
RecheckServes(r) == Fresh(stored, op[r].now)

Recheck(r) ==
    /\ op[r].pc = "recheck"
    /\ IF RecheckServes(r)
       THEN /\ op' = [op EXCEPT ![r].pc = "averages", ![r].seen = stored]
            /\ waiters' = Released(r)
       ELSE /\ op' = [op EXCEPT ![r].pc = "fetch",
                                ![r].seen = IF stored # NoSnapshot THEN stored ELSE @]
            /\ waiters' = waiters
    /\ UNCHANGED <<clock, tables, inline, caches>>

-----------------------------------------------------------------------------
(* A fetch and its transaction.                                            *)

\* One consistent version of the auctions, published before the fetch ended.
Published(a) == op[a].now..clock

FetchDone(a) ==
    /\ op[a].pc = "fetch"
    /\ \E v \in Published(a) :
          op' = [op EXCEPT ![a].pc = "persist",
                           ![a].seen = [version |-> v, gen |-> clock]]
    /\ UNCHANGED <<clock, tables, inline, waiters, caches>>

\* HypixelUpstreamError in a request that has something to fall back on.
FetchFails(r) ==
    /\ op[r].pc = "fetch"
    /\ Servable(op[r].seen, op[r].now)
    /\ op' = [op EXCEPT ![r].pc = "averages", ![r].stale = TRUE]
    /\ waiters' = Released(r)
    /\ UNCHANGED <<clock, tables, inline, caches>>

\* A version is counted once; counting one prunes what is past the retention.
PruneBefore_Early(v) == Day(v) - (Retention - 2)
PruneBefore(v) == Day(v) - (Retention - 1)

ProcessedAfter(v) ==
    IF v \in processed THEN processed
    ELSE {u \in processed \cup {v} : Day(u) >= PruneBefore(v)}

SamplesAfter_Always(v) ==
    [d \in Days |-> IF d < PruneBefore(v) THEN 0
                    ELSE IF d = Day(v) THEN samples[d] + 1 ELSE samples[d]]
SamplesAfter(v) ==
    IF v \in processed THEN samples
    ELSE [d \in Days |-> IF d < PruneBefore(v) THEN 0
                         ELSE IF d = Day(v) THEN samples[d] + 1 ELSE samples[d]]

\* A refresher that succeeded takes the requests off the upstream path.
InlineAfter(a) == IF a \in Processes THEN [inline EXCEPT ![a] = FALSE] ELSE inline

Persist(a) ==
    LET s == op[a].seen IN
    /\ op[a].pc = "persist"
    /\ stored' = s
    /\ writer' = ProcessOf(a)
    /\ processed' = ProcessedAfter(s.version)
    /\ samples' = SamplesAfter(s.version)
    /\ counted' = counted \cup {s.version}
    /\ inline' = InlineAfter(a)
    /\ waiters' = Released(a)
    /\ op' = [op EXCEPT ![a] = IF a \in Requests THEN [@ EXCEPT !.pc = "averages"] ELSE Resting]
    /\ UNCHANGED <<clock, caches>>

\* A transaction fails and is rolled back, a fetch fails with nothing to fall
\* back on, or any other exception: a refresher sleeps, a request gets an error.
Raises_Swallowed(a) ==
    /\ op[a].pc = "persist" /\ a \in Requests
    /\ op' = [op EXCEPT ![a].pc = "averages"]
    /\ waiters' = Released(a)
    /\ UNCHANGED <<clock, tables, inline, caches>>
Raises_Holding(a) ==
    /\ op[a].pc \in {"read", "recheck", "fetch", "persist", "averages"}
    /\ op' = [op EXCEPT ![a] = Resting]
    /\ UNCHANGED <<clock, tables, inline, waiters, caches>>
Raises(a) ==
    /\ op[a].pc \in {"read", "recheck", "fetch", "persist", "averages"}
    /\ op' = [op EXCEPT ![a] = Resting]
    /\ waiters' = Released(a)
    /\ UNCHANGED <<clock, tables, inline, caches>>

-----------------------------------------------------------------------------
(* Caching the answer: ResponseCacheChain.                                 *)

\* The averages are read; the chain's lock lets one request of a process set
\* both caches at a time.
FillLocal(r) ==
    /\ op[r].pc = "averages"
    /\ \A q \in Requests : Home[q] = Home[r] => op[q].pc # "share"
    /\ local' = [local EXCEPT ![Home[r]] = Cached(r, LocalTtl)]
    /\ op' = [op EXCEPT ![r].pc = "share"]
    /\ UNCHANGED <<clock, tables, inline, waiters, redis>>

\* An error of Redis is logged; the request is answered in any case.
FillRedis(r) ==
    /\ op[r].pc = "share"
    /\ redis' \in {redis, Cached(r, RedisTtl)}
    /\ op' = [op EXCEPT ![r] = Resting]
    /\ UNCHANGED <<clock, tables, inline, waiters, local>>

\* Other entries push this one out.
Evict ==
    /\ \/ /\ redis' = NoEntry
          /\ local' = local
       \/ /\ redis' = redis
          /\ \E p \in Processes : local' = [local EXCEPT ![p] = NoEntry]
    /\ UNCHANGED <<clock, tables, inline, waiters, op>>

-----------------------------------------------------------------------------
(* The environment.                                                        *)

\* A process is stopped or killed and starts again; what it had committed stays.
Restart(p) ==
    /\ op' = [a \in Actors |-> IF ProcessOf(a) = p THEN Resting ELSE op[a]]
    /\ waiters' = [waiters EXCEPT ![p] = <<>>]
    /\ inline' = [inline EXCEPT ![p] = TRUE]
    /\ local' = [local EXCEPT ![p] = NoEntry]
    /\ UNCHANGED <<clock, tables, redis>>

Unexpired(e) == IF e.expires > clock + 1 THEN e ELSE NoEntry

Tick ==
    /\ clock < MaxTime
    /\ \A a \in Actors : op[a].pc # "idle" => clock < op[a].now + Patience
    /\ clock' = clock + 1
    /\ local' = [p \in Processes |-> Unexpired(local[p])]
    /\ redis' = Unexpired(redis)
    /\ UNCHANGED <<tables, inline, waiters, op>>

-----------------------------------------------------------------------------

Init ==
    /\ clock = 1
    /\ stored = NoSnapshot
    /\ writer = NoProcess
    /\ processed = {}
    /\ samples = [d \in Days |-> 0]
    /\ counted = {}
    /\ inline = [p \in Processes |-> TRUE]
    /\ waiters = [p \in Processes |-> <<>>]
    /\ op = [a \in Actors |-> Resting]
    /\ local = [p \in Processes |-> NoEntry]
    /\ redis = NoEntry

Refresh(a) == Acquire(a) \/ FetchDone(a) \/ Persist(a) \/ Raises(a)

Serve(r) ==
    \/ ReadShared(r) \/ WarmLocal(r) \/ RequestMisses(r) \/ ReadStored(r) \/ Recheck(r)
    \/ FetchFails(r) \/ FillLocal(r) \/ FillRedis(r)

Next ==
    \/ Tick
    \/ Evict
    \/ \E a \in Actors : Refresh(a)
    \/ \E r \in Requests : Serve(r)
    \/ \E p \in Processes : Wake(p) \/ Restart(p)

Spec == Init /\ [][Next]_vars

\* A request that began runs to its end, and so does a background refresh; a
\* refresher's sleep ends.  A fetch ends because its HTTP calls time out.
Proceeds(r) == op[r].pc # "idle" /\ (Serve(r) \/ Refresh(r))

Fairness ==
    /\ \A r \in Requests : WF_vars(Proceeds(r))
    /\ \A p \in Processes : WF_vars(Wake(p) \/ Refresh(p))

FairSpec == Spec /\ Fairness

-----------------------------------------------------------------------------
(* Properties.                                                             *)

TypeOK ==
    /\ clock \in Times
    /\ stored \in Snapshot \cup {NoSnapshot}
    /\ writer \in Processes \cup {NoProcess}
    /\ processed \subseteq Times
    /\ samples \in [Days -> Nat]
    /\ counted \subseteq Times
    /\ inline \in [Processes -> BOOLEAN]
    /\ waiters \in [Processes -> Seq(Actors)]
    /\ op \in [Actors -> Operation]
    /\ local \in [Processes -> Entry \cup {NoEntry}]
    /\ redis \in Entry \cup {NoEntry}

(* However often a version is fetched and persisted, by however many       *)
(* processes: a day has as many samples as it has versions in the ledger.  *)
LedgerExact ==
    \A d \in Days : samples[d] = Cardinality({v \in processed : Day(v) = d})

(* No version that a current average should contain has been pruned, even  *)
(* if a slow process stored an older snapshot after a newer one.           *)
WindowKept ==
    \A v \in counted :
        (Day(stored.version) - Window < Day(v) /\ Day(v) <= Day(stored.version)) =>
            v \in processed

(* What is cached or about to be, and so every answer, is a snapshot that  *)
(* was committed together with its aggregates: a failed write is an error. *)
Answers ==
    {local[p].snap : p \in Processes} \cup {redis.snap} \cup
    {op[r].seen : r \in {q \in Requests : op[q].pc \in {"averages", "share", "warm"}}}

AnswersWereCounted ==
    \A s \in Answers : s # NoSnapshot => s.version \in counted

(* How old an answer can be, added up over the request that read it, the   *)
(* one that copied it from Redis and the caches it passed: an unmarked one *)
(* exceeds the cache's TTL by no more than the duration of these requests  *)
(* and the lifetimes of the caches, a marked one the stale limit.          *)
AgeWhenRead(e) == IF e.stale THEN StaleLimit ELSE CacheTtl

AnswersAreRecent ==
    /\ Live(redis) => clock - redis.snap.gen < AgeWhenRead(redis) + Patience + RedisTtl - 1
    /\ \A p \in Processes : Live(local[p]) =>
          clock - local[p].snap.gen
              < AgeWhenRead(local[p]) + 2 * Patience + RedisTtl + LocalTtl - 2

(* Once the refresher has taken over, there is a snapshot to serve.        *)
RequestsFindSnapshot == \A p \in Processes : ~inline[p] => stored # NoSnapshot

(* A request in the middle of a fetch does not repeat what another refresh *)
(* of its process achieved while it waited for the lock.                   *)
NoRepeatedFetch ==
    \A r \in Requests :
        op[r].pc = "fetch" /\ writer = Home[r] => ~Fresh(stored, op[r].now)

(* A process never replaces a snapshot of its own by an older one.         *)
Newer(s, t) == t.version >= s.version /\ t.gen >= s.gen

StoredAdvances ==
    [][writer' = writer => Newer(stored, stored')]_vars

(* Every request is answered, whatever happens to the fetches.             *)
RequestAnswered == \A r \in Requests : op[r].pc # "idle" ~> op[r].pc = "idle"

(* The refresher of a process that is not restarted again and again        *)
(* fetches again and again, whatever fails in between.                     *)
RefresherLives ==
    \A p \in Processes : []<>(op[p].pc = "fetch") \/ []<><<Restart(p)>>_vars
=============================================================================
