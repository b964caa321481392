------------------------------ MODULE Services ------------------------------
(***************************************************************************)
(* The parts of the program that share no state with each other: the rate  *)
(* limiter, the request counters, the player queries, the reading of the   *)
(* auction house, backups and the scrub rules.  As no step of one changes  *)
(* what another reads, a behaviour is one of any of them, chosen at first; *)
(* the other parts are switched off.                                       *)
(***************************************************************************)
EXTENDS RateLimiter

CONSTANTS
    Processes, Flushers, Viewers, ProcessOf, MetricRequests,            \* ApiMetrics
    Entries, Buckets, BucketOf, LastDay, MaxFaults,
    Requests, Queries, Finances, AsksFor, PlayersOf, Named,             \* PlayerQueries
    Concurrency, Flights, Nobody,
    PageWorkers, Retries, ItemKeys, Offers, ItemOf, PriceOf, HouseAt,    \* AuctionStream
    NoOffer, NoVersion,
    Uploads, Bundles, Admins, Seconds, MaxWork,                         \* Backups
    Patterns, Contents, Uploaders, MaxRules, MaxIds, None               \* ScrubRules

VARIABLES part,
    day, request, live, pending, thread, stored, faults, recorded, lost, doubled,
    asked, cached, inflight, flight, lookup, skills, skillLock, running, waiting, activeLoads,
    upstream, phase, attempt, version, began, next, worker, consume, fold, index, count, total,
    mixed, engine, records, entries, files, dirs, user, disk, kept, lock, job, work, broken,
    driver, rule, matches, nextId, admin, scrub, found, raced

metricsVars == <<day, request, live, pending, thread, stored, faults, recorded, lost, doubled>>
playerVars == <<asked, cached, inflight, flight, lookup, skills, skillLock, running, waiting,
                activeLoads>>
auctionVars == <<upstream, phase, attempt, version, began, next, worker, consume, fold, index,
                 count, total, mixed>>
backupVars == <<engine, records, entries, files, dirs, user, disk, kept, lock, job, work, broken>>
scrubVars == <<driver, rule, matches, nextId, admin, scrub, found, raced>>

-----------------------------------------------------------------------------
(* The hub with its flushing worker and the admin page, the market API     *)
(* with the flush of its internal endpoint.                                *)
Metrics == INSTANCE ApiMetrics WITH Requests <- MetricRequests

(* The market API's queries for players.                                   *)
Lookups == INSTANCE PlayerQueries WITH request <- asked

(* The market API's reading of the auction house.                          *)
Auctions == INSTANCE AuctionStream WITH asked <- began, Workers <- PageWorkers

(* The administrators' backups and restores.                               *)
Archives == INSTANCE Backups WITH rows <- records, op <- job

(* The administrators' scrub rules.                                        *)
Rules == INSTANCE ScrubRules

ASSUME PartAssumptions ==
    /\ Metrics!MetricsAssumption /\ Lookups!PlayerAssumption /\ Auctions!StreamAssumption
    /\ Archives!BackupAssumption /\ Rules!ScrubAssumption

-----------------------------------------------------------------------------
Parts == {"limiter", "metrics", "players", "auctions", "backups", "rules"}

\* The variables of a part that the behaviour is not about.
metricsOff ==
    /\ day = 0 /\ request = 0 /\ live = 0 /\ pending = 0 /\ thread = 0
    /\ stored = 0 /\ faults = 0 /\ recorded = 0 /\ lost = 0 /\ doubled = 0
playerOff ==
    /\ asked = 0 /\ cached = 0 /\ inflight = 0 /\ flight = 0 /\ lookup = 0
    /\ skills = 0 /\ skillLock = 0 /\ running = 0 /\ waiting = 0
    /\ activeLoads = 0
auctionOff ==
    /\ upstream = 0 /\ phase = 0 /\ attempt = 0 /\ version = 0 /\ began = 0
    /\ next = 0 /\ worker = 0 /\ consume = 0 /\ fold = 0 /\ index = 0
    /\ count = 0 /\ total = 0 /\ mixed = 0
backupOff ==
    /\ engine = 0 /\ records = 0 /\ entries = 0 /\ files = 0 /\ dirs = 0
    /\ user = 0 /\ disk = 0 /\ kept = 0 /\ lock = 0 /\ job = 0 /\ work = 0
    /\ broken = 0
scrubOff ==
    /\ driver = 0 /\ rule = 0 /\ matches = 0 /\ nextId = 0 /\ admin = 0
    /\ scrub = 0 /\ found = 0 /\ raced = 0

PartsInit ==
    /\ part \in Parts
    /\ Init /\ (part # "limiter" => store = "sqlite")
    /\ IF part = "metrics" THEN Metrics!Init ELSE metricsOff
    /\ IF part = "players" THEN Lookups!Init ELSE playerOff
    /\ IF part = "auctions" THEN Auctions!Init ELSE auctionOff
    /\ IF part = "backups" THEN Archives!Init ELSE backupOff
    /\ IF part = "rules" THEN Rules!Init ELSE scrubOff

PartsNext ==
    \/ /\ part = "limiter" /\ Next
       /\ UNCHANGED <<part, metricsVars, playerVars, auctionVars, backupVars, scrubVars>>
    \/ /\ part = "metrics" /\ Metrics!Next
       /\ UNCHANGED <<part, vars, playerVars, auctionVars, backupVars, scrubVars>>
    \/ /\ part = "players" /\ Lookups!Next
       /\ UNCHANGED <<part, vars, metricsVars, auctionVars, backupVars, scrubVars>>
    \/ /\ part = "auctions" /\ Auctions!Next
       /\ UNCHANGED <<part, vars, metricsVars, playerVars, backupVars, scrubVars>>
    \/ /\ part = "backups" /\ Archives!Next
       /\ UNCHANGED <<part, vars, metricsVars, playerVars, auctionVars, scrubVars>>
    \/ /\ part = "rules" /\ Rules!Next
       /\ UNCHANGED <<part, vars, metricsVars, playerVars, auctionVars, backupVars>>

PartsSpec ==
    PartsInit /\ [][PartsNext]_<<part, vars, metricsVars, playerVars, auctionVars, backupVars,
                                 scrubVars>>

-----------------------------------------------------------------------------
(* The properties of the parts, each stated and explained in its module.   *)

\* Every request is counted exactly once, and the page adds up (ApiMetrics).
CountsAgree == part = "metrics" => Metrics!CountsAgree

\* Equal queries share one upstream lookup (PlayerQueries).
SharedFlight == part = "players" => Lookups!SharedFlight

\* No lookup waits for ever (PlayerQueries).
NothingStuck == part = "players" => Lookups!NothingStuck

\* A lookup ends by an answer, also when its client has gone (PlayerQueries).
EndsByAnswer == [][part = "players" => Lookups!AnswerEndsFlight]_playerVars

\* What a refresh reports is one whole version of the house (AuctionStream).
SnapshotComplete == part = "auctions" => Auctions!SnapshotComplete

\* An archive has the files and entries of its rows (Backups).
ArchiveComplete == part = "backups" => Archives!ArchiveComplete

\* After a restore every row has its file (Backups).
RowsHaveFiles == part = "backups" => Archives!RowsHaveFiles

\* An accepted case matches no rule in force (ScrubRules).
RulesApply == part = "rules" => Rules!RulesApply

\* Matches are counted once, whole scrubs at a time (ScrubRules).
MatchesCounted == part = "rules" => Rules!MatchesCounted
=============================================================================
