# ScamScreener server: a TLA+ verification project

This directory models the server of ScamScreener (`src/app`): the *training
hub*, to which installations of the Minecraft mod upload training cases, and
the *MarketGuard API*, which serves market snapshots. The modules are
translated from the Python source; docs and tests are cited only where a run
shows that they say something else.

1. [Inventory](#1-inventory): the components, their state, how they interact
2. [Plan](#2-plan): modules, abstract specifications, runs, theorems
3. [Contributions](#3-contributions)
4. [Data exports](#4-data-exports)
5. [Market snapshots](#5-market-snapshots)
6. [Accounts](#6-accounts)
7. [Services](#7-services): rate limiter, request counts, player queries,
   auction stream, backups, scrub rules
8. [Migrations](#8-migrations)
9. [Runs](#9-runs), bounds, fairness
10. [Proofs](#10-proofs)
11. [What is not modelled](#11-what-is-not-modelled)

## 1. Inventory

One process runs a FastAPI application under uvicorn (`docker/entrypoint.sh`);
`WEB_CONCURRENCY` may start several. Handlers are coroutines that hand every
database or file operation to a thread pool, so two operations interleave at
every transaction. Each operation opens connections of its own
(`infra/db.py`); leaving the `with` block without a `commit()` rolls back.
The production database is MariaDB 11.4 (`docker-compose.yml`, `README.md`),
which enforces the foreign and unique keys of `storage_schema_mariadb.py` and
reads from the snapshot of a transaction's first SELECT. SQLite serves
development. Hub and MarketGuard share the database, the rate limiter and
the metrics, and nothing else.

| Component | State | Operations | What is hard | What makes it correct |
|---|---|---|---|---|
| Contribution store (`upload_workflow`, `training_data`, `account_ops`) | `uploads`, `upload_cases`, `training_cases`, `client_identities`; payload files shared by SHA-256 in `uploads_dir`, `quarantine_dir` | accept an upload, ingest its cases, delete an upload / all contributions / the account, backfill the index, link a client | three or more transactions and two file-system steps per operation; files shared by uploads; stale snapshots; kills between any two steps | no dangling ids, files of live uploads exist, a case holds what a remaining upload says, an erasure leaves nothing of the user, tombstones stay |
| Moderation (`admin_ops`) | status and content of `training_cases` | approve, reject, delete, erase rejected content | check and UPDATE by id; rebuilds and uploads meanwhile | only submitted cases are decided, only an erasure reopens a decided case |
| Retention (`recovery_retention`) | every table with a date, files, bundles, backups | one timed or requested run | files unlinked before the commit, foreign keys | what is past the window goes, and nothing else |
| Data exports (`data_exports`, worker in `main`) | `data_export_requests`, one event per process | queue, claim, build and mail, settle, delete the account | workers race; a kill keeps a claim; lost wake-ups; a mail that was sent although sending failed | mailed at most once, settled eventually, the account outlives its export |
| Sessions (`session_auth_*`) | `sessions` | open, resolve, expire, revoke one, the others or all | resolution and revocation are requests of their own | a session has an identity's consent, and its user's role |
| Confirmation of sensitive actions (`mfa`, `routes/public_dashboard_account`, `routes/public_auth_external`) | `auth_flow_tokens` | start, send to the provider, confirm, carry out | validate, consume and act are separate transactions; the flow's name travels through the browser | only what its user asked for and confirmed is carried out |
| Passwords, lockout, TOTP, passkeys, backup codes, resets (`session_auth_login`, `mfa`, `recovery_security`) | columns and tables of their own | none that a route reaches: sign-in is external only | | |
| External identities (`external_auth`) | `external_auth_states`, `external_identities`, `users` | redirect, callback, upsert | state consumed twice, two first users, an identity without a user | one account per identity, one use per state |
| User administration (`routes/admin_users`) | `users.is_admin` | promote, demote, delete | counting admins before changing one | an admin always remains |
| Policies, scrub rules (`access_policies`, `content_scrubbing`) | two small tables | set, create, delete, apply, count matches | rules change while an upload is scrubbed; counts of several rows in one transaction | an accepted case matches no rule that was there; matches counted once |
| Backup and restore (`recovery_backup`) | archive files; every table in its list | create, restore | tables and files read without a lock; restore commits before it swaps directories | an archive has the files of its rows; after a restore every row has its file |
| Training pipeline (`pipeline`) | `training_runs`, bundles | run | bundle name per second | a run's bundle is its own |
| Rate limiter (`http/rate_limit`, `marketguard_api/rate_limit`) | `rate_limit_hits`, or a dictionary of the process | allow, prune | insert race, retries, rules of different windows pruning one table | at most the limit per window; never a refusal below it |
| API metrics (`http/*_metrics`) | counters in memory and tables | record, flush, merge | flush failing halfway, day rollover | nothing counted twice or lost by a flush |
| Market snapshots (`marketguard_api/service`, `refresher`, `storage`, `cache`) | stored snapshot, processed list, daily aggregates, response caches, inline flag | refresh, serve, persist, cache, readiness | lock-free reads, recheck after the lock, stale fallback, cache chains | one fetch in flight, never older than the limit, each snapshot counted once |
| Upstream clients (`client`) | page workers, key limiter | stream a snapshot, fetch a player | the auction house changes between pages | a snapshot has pages of one version only |
| Player queries (`routes`, `player_service`) | in-flight tasks | query, coalesce, clean up | shield, cleanup task, failures shared by waiters | one load per key, no key stuck |
| Schema and migrations (`storage_schema_*`, `storage_migrations`) | the schema itself | a script at every start of a worker | other workers start and serve meanwhile; kills between two statements; MariaDB commits each of them | who serves has the schema its queries need; no table loses rows; a start fails only in a race |
| Decoding (`nbt`, `item_keys`), hub pages, configuration, scripts | none that outlives a call | | | unit tests reach these |

Interactions that matter: a sign-in, a confirmation and an administrator's
request share `users`, `sessions` and `auth_flow_tokens`; account deletion is refused while an export is open
and removes contributions, sessions and exports in one transaction;
moderation and ingestion write the same rows; retention deletes what
contributions still refer to; a restore replaces everything under running
requests; the export worker reads everything and writes its own table.

## 2. Plan

In this order, the most important behaviour first:

| # | Module | Models | State |
|---|---|---|---|
| 1 | `Contributions`, `MCContributions`, `Contributions_proofs` | contribution store, moderation, uploads in retention | done |
| 2 | `DataExports`, `DataExports_proofs` | export queue, workers, account deletion against it | done |
| 3 | `MarketSnapshots`, `MCMarketSnapshots`, `MarketSnapshots_proofs` | refreshers, inline refresh, stored snapshot, ledger of aggregates, both response caches | done |
| 4 | `Accounts`, `MCAccounts`, `Accounts_proofs` | sign-in by identity, sessions, confirmation flows, roles, deletion, the last administrator | done |
| 5 | `RateLimiter` implementing the abstract `WindowCounter`, `RateLimiter_proofs` | MariaDB, SQLite and in-memory limiter | done |
| 6 | `AuctionStream`, `MCAuctionStream`; `PlayerQueries`, `PlayerQueries_proofs` | page workers with drift and retries; shared lookups | done |
| 7 | `Backups` | backup, restore, kills and contributors between their steps | done |
| 8 | `ApiMetrics`, `ScrubRules` | request counts of two processes; rules and their counts | done |
| 9 | `Migrations`, `MCMigrations`, `Migrations_proofs` | the script of every start | done |
| 10 | `Services`, `MCServices`, `Services_proofs` | the parts of 5 to 8 beside each other; proofs of `AuctionStream`, `Backups`, `ScrubRules`, `ApiMetrics` | done |

The abstract specification is `WindowCounter`: what a limiter promises
whatever it is built on. `RateLimiter` implements it (`ImplementsCounter`, in
the run `services` and as the theorem `LimiterIsCounter`).

Each module gets one run per distinct question (sequential histories with
failures; two-way interleaving; liveness), within five minutes, and a
violation run only where the repository says something the code does not do.
The parts of the program that share no state with each other are composed by
`Services`, in which a behaviour is one of any of them, and checked in one
run, `services`.

Theorems: type correctness and the inductive invariant of every module that
has proofs, then the safety properties of its runs, then the refinement. Runs
check no types: where it has proofs, a module's `TypeOK` is a theorem. No
module uses a RECURSIVE operator.

## 3. Contributions

`Contributions.tla` has one variable per table or directory (`accounts`,
`linked`, `live`/`row`, `entries`, `known`/`case`, `files`, `quarantine`) and
one record per thread of an operation (`req`, `era`). One action is one
transaction, or the half of one between its snapshot and its writes, or one
change of the file system; a thread's `pc` says which comes next.

| Code | Actions |
|---|---|
| `_accept_training_upload` up to the duplicate lookups | `SubmitBegin` (returns on an own duplicate) |
| `_write_payload` into `uploads_dir` | `SubmitStore` |
| `INSERT INTO uploads`, commit | `SubmitInsert`, `SubmitInsertFails` (a key is violated) |
| `_ingest_cases_from_upload`, `_upsert_upload_case_entries` | `IngestRead`, `IngestWrite`, `IngestFails` |
| `_backfill_upload_case_index` | `EraseBegin` |
| `_delete_user_upload`, `_purge_user_uploads`, `_delete_user_account`: reads | `EraseRead`, `EraseRefused` |
| `_purge_upload_rows_in_connection` and what follows, commit | `EraseCommit`, `EraseRollback` |
| `_delete_paths` | `EraseUnlink` |
| client links, moderation, rejected content, retention | `LinkClient`, `UnlinkClient`, `DecideCase`, `DecideRead`/`DecideWrite`, `DeleteCase`, `DeleteRejectedContent`, `Expire`, `RetentionCleanup` |
| a kill, a database or disk failure between two steps | `SubmitAborts`, `EraseAborts` |

Data is abstracted to what the properties tell apart. A payload is a model
value with a set of cases; a case's content is the payload it was taken from,
or `Nothing` once erased; scrubbing is the choice of a pair of a clean and a
quarantined payload; ids stand for `created_at`, which the code writes in the
order of insertion. `ingested` in an upload's row is a history variable. A
transaction reads what was committed when it read first, and what it wrote
itself: `EraseRead` keeps that snapshot, and `Left`, `SeenCases` and
`Replacement` say which rows the writing half sees.

The model allows more than MariaDB in one place: the row lock on
`client_identities` serialises two uploads of one client up to their commit,
and the model lets them interleave. It holds the quota check back, and the
step-up that precedes an erasure. `LinkClient` and the other one-step
operations read and write in one action. Only a moderator's decision comes in
both forms: `DecideCase` is the whole transaction, `DecideRead` and
`DecideWrite` are its SELECT and its UPDATE with other operations in between.
`judged` holds the decisions that were checked and are not written yet; the
deletion of a case takes its entries out, since the UPDATE names a row id that
no later row has. A moderator who is killed there is one who never decided.

What the properties say of the code: `NoDanglingReference`,
`IndexMatchesPayload`, `DuplicateSound` and `OneUploadPerOwner` are about the
tables; `SharedFileKept` about files shared by uploads; `NewestVersionWins`
about what moderators see for a case (it is the content of an upload that is
still there, and of the newest); `ErasureExact` (an erasure leaves nothing of
the user in the tables, and every remaining upload has its file),
`TombstoneHonoured` and `OnlyErasureReopens` about what users and moderators
were promised. A moderator who is overtaken may turn the decision of
another into the opposite, or decide a case that an erasure has rebuilt since,
although the code says that "Only submitted cases can be marked"
(`admin_ops.py:486`); a rejected case whose content was erased meanwhile is
then approved, and an upload may bring its content back.

Writing the model showed behaviour that no document contradicts, and that is
worth knowing: deleting one upload puts every case its user ever created back
to `submitted`; a duplicate may become a duplicate of itself; files in
quarantine are never removed; a kill may leave a file without a row; an
upload that was accepted twice at the same time, or whose cases another upload
inserts at the same moment, is rolled back and has no cases until a backfill;
an upload that shares a file with one being erased may lose it.

## 4. Data exports

`DataExports.tla` models the table `data_export_requests` (`status`, `owner`,
`cooling` for the cooldown), each process's worker and event (`worker`,
`wake`), the threads that queue a request (`handler`) and those that delete an
account (`deleter`). `mailed` counts deliveries; `faulty` records that a
process was killed or a step raised, which happens at most once in a behaviour
(the bound of this model on faults).

| Code | Actions |
|---|---|
| `_queue_user_data_export_request`, its route | `QueueRead`, `QueueInsert`, `QueueInsertFails`, `QueueAnnounce`, `QueueRaises` |
| `_claim_next_data_export_request` | `WorkerPoll`, `WorkerClaim` |
| build and mail | `WorkerDeliver` (delivered and reported, delivered and reported as failed, not delivered) |
| final UPDATE, `_mark_data_export_request_failed` | `WorkerMark`, `WorkerCheck`, `WorkerAudit` |
| `data_export_wake`, `_data_export_worker` | `WorkerWakes`, `WorkerRaises` |
| uvicorn and the container restart policy | `Kill`, `Restart` |
| `_delete_user_account`: pending check, deletes, commit | `DeleteRead`, `DeleteCommit` |

Accounts here are those that no row of `external_identities` refers to (the
other ones cannot be deleted, see `account_deletion`). Two requests of one
user may both be queued, since the check and the INSERT are not serialised;
each is then exported once. After a failed step a worker sleeps although
requests are pending, until its own event is set: `FinishesWithoutFault`
therefore asks for no fault, and `ClaimFinishes`, which does not, is violated.

## 5. Market snapshots

`MarketSnapshots.tla` is about the Lowest BIN snapshot. Every process runs a
refresher; `Wake` starts a refresh, which waits for the service's
`asyncio.Lock`, fetches the auctions and commits them. A request answers from
a cache, from the stored snapshot, or, until its process's refresher has
succeeded once (`inline`) or when the stored snapshot is too old, by fetching
under the same lock. `waiters[p]` is that lock: its head holds it.

| Code | Actions |
|---|---|
| `MarketSnapshotRefresher._run`, `_refresh_once` | `Wake`, `Raises`; success: `InlineAfter` in `Persist` |
| `async with self._lock` | `Enqueued`, `Acquire`, `Released` |
| `_load_lowestbin_payload`, `ResponseCacheChain.get` | `ReadShared`, then `WarmLocal`; or `RequestMisses` (an answer from the local cache changes nothing) |
| `_load_snapshot` | `ReadStored`, `Recheck`, `FetchFails` |
| `_refresh_snapshot`, `stream_snapshot` | `FetchDone` |
| `write_lowestbin_snapshot` | `Persist` (one transaction), `Raises` (rolled back) |
| `ResponseCacheChain.set` | `FillLocal`, `FillRedis` |
| size limits of the caches, expiry, restarts | `Evict`, `Tick`, `Restart` |

Tables are `stored` (the snapshot with its items), `processed` (the ledger of
versions) and `samples` (the sample counts of the daily aggregates, for an
item that every version contains). `counted` and `writer` are history: the
versions that ever entered the aggregates, and the process that stored last.

Time. The clock is one for all processes and Hypixel publishes version `t` of
the auctions at time `t`. A fetch yields one consistent version published
since it had the lock, because a page of another version restarts it. `Tick`
assumes that at most `Patience` ticks pass from the start of an operation to
its lock, and from there to its end: HTTP and database calls have timeouts. How long a
refresher sleeps is left open, and so are the jitters and retry delays.
`MarketConstants` asks that the retention exceed the longest average by the
days a refresh may take: `config.py` and `MarketGuardStorage.__init__` keep at
least 31 days, the average covers 30.

An orderly stop is a `Restart`: it cancels the refresher and clears the
process's memory as a kill does, and whether a transaction committed before it
is the order of two actions. The bazaar's service has the same lock, recheck
and fallback; it has no ledger.

The ages that add up: a snapshot is read fresh (or servable), up to
`Patience` passes until the answer is cached in Redis, another request reads
it there at the end of its Redis lifetime (`ReadShared`), up to `Patience`
passes until it is in that request's local cache (`WarmLocal`: `cache.py:126`
awaits between the two, without the chain's lock, and starts a new lifetime),
and there it stays for the local lifetime. `AnswersAreRecent` states the sum;
the settings bound each part alone. In the run every summand is reached.

One thing is left for a later run: the readiness report counts a snapshot as
fresh for the cache TTL plus a grace, which `config.py` lets exceed the limit
for stale data, so that `/ready` may report data a request could no longer be
served with.

## 6. Accounts

`Accounts.tla` has one variable per table (`users`, `identities`, `sessions`,
`flows`, `states`, the one policy `loginDisabled`), the ids to be given next,
and one record per request in flight (`req`). One action is one transaction of
a request, or the half of one between its snapshot and its writes.

| Code | Actions |
|---|---|
| `external_auth_start`, `_store_external_auth_state` | `StartSignIn`, `NewState` |
| `_consume_external_auth_state`, exchange of the code | `ReadState`, `UseState` |
| `_upsert_external_identity_user` | `UpsertRead`, `UpsertWrite` (`Link`, `CreateAccount`) |
| rest of `external_auth_callback` | `RefreshUser`, `CheckPolicy`, `OpenSession` |
| the same for a confirmation | `LoadFlow`, `MatchIdentity`, `ConsumeFlow`, `CompleteFlow`, `OpenSession` |
| `_resolve_user_from_session` | `Resolve` (a mismatch revokes: `ExpireSomething`) |
| `_start_account_confirm_response`, `account_confirm_external_start` | `StartConfirm`, `LaunchRead`, `Launch` |
| `account_confirm_complete`, `_execute_confirmed_account_action` | `CompleteRead`, `CompleteConsume`, `Execute` |
| logout, ending other sessions | `EndOwn` |
| `admin_manage_user` | `RoleRead`, `RoleWrite`, `EndSessions` |
| `admin_update_access_policy`, `admin_delete_user`, `_delete_user_account` | `SetPolicy`, `EraseOther`, `EraseRead`, `EraseWrite` |
| a condition that refuses, a violated key, the provider's refusal, a kill | `Stop` |

Data. A profile is an identity with the address that the provider has verified
by that sign-in, or none: one of `MailsOf`, and another one the next time if
the user changed it at the provider. `UpsertWrite` stores the address of a
known identity in its row (`emails`) and leaves the account's alone, as
`external_auth.py:573` does, so that the two may differ; `linkedWith`, history,
is the address for which an identity was linked, and what
`IdentityMatchesAccount` compares with the account's. Whether an account is
configured as an administrator is decided by the address (the code also looks
at the name). Tokens and cookies are the ids
of their rows: whoever presents one is left open, so any request may come with
any usable session, and a user with any usable flow of theirs. The path that
a sign-in returns to is the browser's choice, so `StartSignIn` may name the
confirmation of any flow, as the code lets it. Expiry may happen at any time.
`linkedWith`, `ident` and `role` of a session, `root` and `by` of a flow, `executed`,
`raced`, `interrupted` and a request's `late` are history.

A signed-in account has a row in `external_identities`, so that `EraseWrite`
is only possible for accounts nobody has signed in to (see
`account_deletion`). A sign-in that found such an account in its snapshot may
write after it was deleted: the foreign key refuses the link.

Writing the model showed behaviour that no document contradicts: two first
sign-ins may both become administrators; a state or a confirmed flow that two
requests read before either uses it up is used by both, so that an action may
be carried out twice; two administrators who revoke each other's role at the
same time both succeed, and nobody is left (`raced` is true then, and
`AdminLostOnlyByRace` says that this is the only way); a confirmation opens a session without asking the policy
that disables the login.

## 7. Services

Six parts that share no state with each other nor with sections 3 to 6 but the
tables' existence. `Services` has them beside each other: it extends
`RateLimiter` and takes an instance of each other part, `part` says which one
a behaviour is about, and its properties say of that part what the part's
module says of itself. `MCServices` gives every part a small instance.

**Rate limiter.** `WindowCounter` counts requests per key and window, admits
while the count is below the limit, refuses only at the limit, and may start
over. `RateLimiter` is the code: `Arrive` reads the clock; with SQLite or the
in-memory limiter the rest is one step (`AllowAtOnce`: the write lock, the
mutex); with MariaDB it is the conditional UPDATE (`CountHit`, `CountMiss`),
the SELECT (`SelectFull`, `SelectRoom`, `SelectNone`) and the INSERT (`Insert`,
`InsertDuplicate`) of up to three transactions. `Raise` is an error that rolls
back, `Retention` the retention run, `Restart` a restart, with which a count
in memory is lost. Every request deletes rows of all keys, by its own window:
`KeepAssumption` asks of the constants that twelve windows of the shortest
rule cover the longest window and the time a request may wait, which the rules
of `_rate_limit_rule` do (the hub's windows are of 60 to 600 seconds). `admitted` and `answer` are history and
are the state of the abstract counter.

**Request counts.** `ApiMetrics` has for each process the live counts (with
their day) and the pending ones, for each flushing thread what it has in hand,
and the four tables. `TakePending`, `Commit` and `FlushFails` are
`PersistentApiRequestMetrics.flush`; `AnswerLost` is a commit that was carried
out and reported as failed; `ViewBegins`, `ViewRemote`, `ShowPage` the
administrator's page. `CountsAgree` says that every request is in the tables,
in pending counts or in a flush's hand exactly once, but for those a kill took
and those whose commit was taken for a failure (these are counted twice); that
buckets and entries still add up on the page; and that the number of active
requests is right.

**Player queries.** `PlayerQueries` has one action per stretch between two
awaits. A *flight* is the task that requests of one query share
(`Join`, `Launch`); `CleanUp` is the task that removes it from the table;
`GoAway` cancels a request and not its flight (`asyncio.shield`). Calls queue
for the semaphore (`running`, `waiting`), flights for the lock of the skill
definitions. A lookup of a player needs two answers; the first failure decides
it and leaves the other call running (`DataFails`), a rejected key ends the
flight (`DataRejected`). Flights that nothing refers to are forgotten, which
keeps the model finite.

**Auction stream.** `AuctionStream` is one refresh: `FirstArrives` fixes the
version, workers take page numbers from one iterator, fetch, and hand pages to
the consumer one at a time (`consume_lock` is `consume`: the holder, then those
that wait). What folds a page is a thread (`fold`): cancelling the worker does
not stop it. A thread takes the builder's dictionaries (`Opens`), compares each
offer with the lowest one of its key (`Compares`) and stores it if it was
cheaper (`SetsLowest`), and in the end reads the counter (`ReadsCounter`) and writes
it back (`Counts`); every other thread may come between two of these steps.
What a thread does to dictionaries that a reset has replaced nobody sees. The
dictionaries of prices, sellers and names, stored to one after the other, are
one: a thread that comes between these three stores is not modelled. `mixed`
is history: a thread of an earlier attempt has changed the builder.

`SnapshotComplete` says that a snapshot that is reported is of one version that
was published meanwhile, was handed every page once and lacks no key of it;
and, unless `mixed`, that it has the lowest offer of each key and counts each
page once. That is what the lock is for ("two folds at once would corrupt it",
`client.py:179`): without it (the mutant `Consume_Unlocked`) two folds lose a
lower price or a count between a read and a write. `NothingInherited`, a
comment's promise, asks the same without the exception and is violated: a
thread of a failed attempt counts its page in the builder of the next one, and
stores its offers there if it had not taken the dictionaries before the reset.
Its check and its store may then lie around those of a fold of the retry, and
a higher price replaces a lower one.

**Backups.** An item of `Backups` is an upload or a bundle: its file is
written, then its row inserted (`WriteFile`, `InsertRow`, `Ingest`), and an
erasure removes row and then file. A backup reads tables (one snapshot with
MariaDB, one SELECT after the other with SQLite), copies both directories,
packs and sends. Archives are named by their second, so two backups of one
second share a file. A restore validates, replaces the tables, removes both
directories and moves the new ones in. `broken` is history: the items a
restore could leave without a file because it was killed or failed after its
commit, met a starting worker, or overlapped an upload or an erasure.
`ArchiveComplete` and `RowsHaveFiles` say that nothing else is.
With MariaDB a restore can never commit: rows of `external_identities`,
`data_export_requests` or `content_scrub_rules` refer to `users`, and
`BACKUP_TABLE_ORDER` leaves these tables out; the administrator who restores
has such a row. `RestoreCommits` is therefore an action of SQLite.

**Scrub rules.** `ScrubRules` has the creation of a rule in its two halves
(`CheckRoom`, `InsertRule`: the checks are not in one transaction with the
INSERT), deletion, and the scrub of an upload: it loads at most the maximum of
rules, compares each case, and adds each rule's matches in one transaction,
rule by rule (`CountRule`, `Commit`, `ScrubFails`). With MariaDB two scrubs
wait for each other's rows and one may be rolled back. `RulesApply` says that
an accepted case matches no rule that was there all the while, unless two
creations overlapped. They may: then there are more rules than the maximum and
the newest are not applied; of two equal ones the unique key refuses the
second, an `IntegrityError` that the route does not catch (it answers 500).

## 8. Migrations

`Migrations` runs the script that every worker executes at its start, statement
by statement. `Script(e)` is the sequence of statements that create or change
a table on engine `e`, in the order of `_init_database_*` and of the
`_migrate_*` functions it calls; a table is the set of columns that some
release added, its unique keys, and whether it still has the NOT NULL that a
migration lifts. A rebuild (SQLite) is `LookForNull`, `CreateCopy`, `FillCopy`,
`DropTable`, `RenameCopy`, in the transaction that the INSERT opens;
`MakeNullable` is MariaDB's ALTER. The script swallows some failures of that
step (`storage_migrations.py:361`, 419, 666: `except Exception: pass`) and goes
on: MariaDB's MODIFY, and SQLite's PRAGMA, after which it tries the MODIFY,
which SQLite does not know. That is `StaysStrict`, and `left[w]`, history, are
the tables whose column the start of `w` could not change. `base` is what is committed, `draft` what
the open transaction sees. Workers start, fail, are killed and start again.

`ServesCurrentSchema` says that a worker that serves finds a column NOT NULL
still only if its own start failed to change it, and has every column and key
but those in `Skipped`, which no branch of the script adds to a table that is
there: `match_count` in SQLite, because `_migrate_content_scrub_rule_tables`
returns before it looks for the column, and in MariaDB the unique keys that
only CREATE TABLE makes. `NothingLost` says that no committed state has fewer
rows, columns or keys than the one before, `StartsUnlessOvertaken` that a
start fails only if another worker changed the schema meanwhile.

`ReleaseAssumption` says what a start may find: each table with its first
column and some of the later ones and of the unique keys, or not at all, and
of a rebuild that was killed a copy without rows. A copy with rows is never
committed while the table it was made of is there, since `FillCopy` opens the
transaction that `RenameCopy` ends.

## 9. Runs

| Run | Instance | Shows |
|---|---|---|
| `contributions_seq` | 1 account, 1 client, 3 payloads over 2 cases, 3 uploads, 1 operation at a time | index, duplicates, newest versions, erasures and tombstones over long histories, with failures between steps |
| `contributions_conc` | 2 accounts, 2 payloads with one case, 2 uploads, retention, 2 of 3 threads and a moderator at a time | what keys and the order of steps guarantee under interleaving |
| `account_deletion` | 1 account with an external identity | violated: the account cannot be deleted |
| `retention_prunes` | retention | violated: an upload with cases is not pruned |
| `data_exports` | 1 user, 2 processes, 2 queueing threads, 1 deleting thread, 2 requests, 1 fault | nothing mailed twice, the account outlives its export, all settled without a fault |
| `data_export_stuck` | 1 user, 2 processes, 2 requests, 1 kill | violated: a claim of a killed worker is never settled |
| `market_snapshots` | 2 processes, 1 request in the first, 5 ticks, days of 1 tick | ledger exact, averages' window kept, answers committed and recent, no process goes back |
| `market_liveness` | 1 process, 2 requests, 3 ticks | requests answered, refresher goes on, no fetch repeated |
| `accounts` | 2 requests, 2 identities, one of which may take the other's address, 3 hubs to start from, at most 3 accounts, 2 sessions, 2 flows, 2 states | identities, sessions and confirmations stay with their owner, roles are respected, the last administrator is only lost by a race |
| `services` | limiter: 2 workers, rules of 1 and 2 ticks, 4 ticks. Counts: 2 processes, 2 flushing threads, 1 page, 2 requests, 2 days, 1 fault. Players: 2 requests, 3 queries, 2 players, 1 call at a time, 2 flights. Auctions: 2 workers, 2 attempts, versions of 3, 2, 3 pages, 2 keys, 3 offers. Backups: 1 upload, 1 bundle, 2 administrators, 1 second, 2 operations. Rules: 3 patterns, a maximum of 2, 3 ids, 2 administrators, 2 uploads | the limiter implements the window counter; counts agree; lookups are shared and end; snapshots, archives and restores are whole; rules apply and are counted |
| `migrations` | 2 workers, 1 kill, 1 swallowed failure, 2 engines, 6 schemas to start from | who serves has the current schema, starts fail only in a race, nothing is lost |
| `auction_retry` | 2 workers, 2 attempts | violated: a retry inherits offers or counts of the failed attempt |

Bounds. `MaxUploads` rows are enough for an original, a duplicate and a newer
version of a case; two payloads that share a case and one that is quarantined
give every outcome of a rebuild (dropped, rebuilt from an older upload, rebuilt
from another owner's). The account and the client of `contributions_seq` are
the two kinds of owner the code tells apart; the two accounts of
`contributions_conc` share a file. Two operations in flight are
the least at which every pair of steps interleaves. Two export requests let
one be pending while another is held; two processes let workers race and
sleep on different events. In the market runs a refresher, a request that goes
upstream itself and a refresher of another process are the three writers that
can meet; four ticks and more let a snapshot be fresh, stale and unusable, and days of
one tick let versions leave the window and the retention.

In `services`, two workers of a limiter with a limit of one race for the first
row of a window, and a rule with a shorter window prunes beside one with a
longer; two attempts with versions that shrink and grow let a retry meet a
page that is gone and a thread that is late, and a cheap and a dear offer of
one key on different pages let a lower price be lost; one administrator's
backup and another's restore, or two backups of one second, meet at every
step; one fault is a kill in a flush or a lost answer. One call at a time makes
every other call of a lookup wait for the semaphore. Three ids let a rule
outlive two deletions or exceed the maximum. Symmetric threads
(`Permutations`) are interchangeable in every run that checks no liveness.
The six schemas of `migrations` are no database, the first release, the same
after a rebuild that was killed, the last one without client identities, the last one without counters of rules, and
the current one; two workers are the least at which scripts interleave, and
one kill leaves every state a start may stop in. A swallowed failure counts
against `MaxLeft` until its worker starts anew; one leaves a column NOT NULL in
one start while the other start changes it or not.

The accounts run starts from a fresh hub (every table empty), a hub with two
accounts nobody has signed in to yet, one an administrator's, with two sessions
to open and no further account to create, and a hub whose only administrator
stays away, with two accounts to create, two sessions and two flows to open: a
flow to confirm and the confirmed one. Two requests are the
least at which two transactions interleave. One identity has one address, the
other two, one of them that of the first; a known identity whose provider
reports no address any more is left to the proof, which is about any
`MailsOf`. The ids of users, sessions, flows and
states that a seed leaves bound the length of a history.

Properties that hold only sequentially (`NewestVersionWins`, `ErasureExact`,
`TombstoneHonoured`) are checked in `contributions_seq`, and are false under
interleaving for the reasons section 3 lists.

Fairness. An export worker is an asyncio task in an
endless loop, so `Work(p)` is weakly fair; a killed process is started again
(`restart: unless-stopped` in `docker-compose.yml`, uvicorn's supervisor for
several workers), so `Restart(p)` is; a handler that has inserted its row goes
on to announce it, so `QueueAnnounce(h)` is. Users, deletions, the clock and
faults are not fair.

In `MarketSnapshots` a request's coroutine runs to its end
(`WF_vars(Proceeds(r))`: timeouts end its calls, the lock is FIFO) and the
refresher is an endless loop (`WF_vars(Wake(p) \/ Refresh(p))`). Whether a
fetch succeeds, when entries are evicted, the clock and restarts are not fair;
`RefresherLives` excepts a process that is restarted over and over. Player
queries need no fairness: `NothingStuck` is a safety property that says for
every state who is going to end what is waited for.

Deadlock is checked in `contributions_seq` and the market runs. In the other
passing runs a behaviour may end: every thread of an operation may be
lost to failures and ids to a bound (`contributions_conc`, `accounts`), every
account deleted or every worker asleep after a fault (`data_exports`),
the bound on requests, work or ids reached (`services`), or every worker
serving (`migrations`).

## 10. Proofs

The eight modules with theorems prove, for every value of the constants that
satisfies the named assumptions, what the runs check on small instances:
`Contributions_proofs` (`ConstantsOK`), `DataExports_proofs`
(`ExportConstants`), `MarketSnapshots_proofs` (`MarketConstants`),
`Accounts_proofs` (`AccountConstants`, `SeedTables`), `RateLimiter_proofs`
(`WindowAssumption`, `KeepAssumption`), `Migrations_proofs`
(`ReleaseAssumption`), and, under `PartAssumptions`, `PlayerQueries_proofs`
and `Services_proofs`.

*Contributions.* The invariant is `SafeInv`: types; `RequestOK`, what a
request holds at each `pc`; `RequestFact` and `ErasureFact`, what a thread
knows from an earlier transaction and what may have changed since (an upload
it inserted is gone for good if it is not live, because ids are not reused;
the rows in its snapshot still have their owner, payload and status as long as
they are live); and `Tables`, which joins the table invariants.
`NoDanglingReference` alone is not inductive: an erasure writes a replacement
or a rebuilt case from its snapshot, and only `ErasureFact` with the guard
`EraseAllowed` says that what it writes exists. Each action preserves each
part in a lemma of its own; `TypeCorrect`, `ReferencesSound`, `IndexSound`,
`DuplicatesSound`, `UploadsUnique` and `SharedFilesKept` follow.
`DecidedUntilErased` needs the types and one key: an ingestion that inserts a
case finds no row of it.

Three properties hold only while operations do not overlap (section 9), and
are proved for histories of any length under that hypothesis, `MaxInFlight = 1`:
`NewestVersionsWin`, `TombstonesAreHonoured`, `ErasuresAreExact`. The
hypothesis is not an assumption of the module, because two overlapping
operations do violate them; the third also needs `~Retention`, which deletes
rows between two erasures of one file. `AloneInv` adds to `SafeInv` that at
most one operation is under way (`AloneOK`), so that the snapshot of an
ingestion or an erasure is how the tables are when it writes (`RequestAlone`,
`ErasureAlone`), and that an upload is indexed under every case its ingestion
stored (`IndexedOK`), which is why a case that loses its source to an erasure
finds the newest of the others.

*Exports.* `ExportInv` joins types; `WorkerFact`: two workers never hold the
same request, a held request is `processing` or settled by its holder, and how
often its archive was mailed at each `pc`; `RequestFact`: how often a request
was mailed in each status, and that an open one has an account; and
`DeleterFact`: the ids a deleting thread read are settled. From it follow
`MailedOnceAlways`, `AccountsOutliveExports` and the action property
`SettledStays`.

*Market snapshots.* `TypeInv` has the types and the lock: who works under it
is at the head of its queue. `LedgerIsExact` needs no more: a new version adds
one element to one day's set and pruning empties whole days. `WindowKept` is
not inductive, since what is pruned depends on a version some other process
stored earlier. `MarketInv` adds what each actor remembers (`OpFact`: how
long ago it looked at the clock, what a fetched version lies between), that
nothing counted is newer than the stored snapshot by more than `Patience`
(`CountedFact`), and that a version left the ledger only for one past its
retention (`PrunedFact`); with the arithmetic of days (`DayLag`) the window
follows. `HoldFact`, that the holder of a lock took it after its process last
stored a snapshot, gives `StoredNeverGoesBack`. The service lock alone gives
`NoFetchIsRepeated`: what a request found stale after it got the lock stays
stale while it fetches, because only it could store another, and
`RequestsHaveASnapshot` needs no more than the types. `AnswerInv` is about
the caches: what an entry holds has been counted, and it expires before it is
older than the read, the requests' durations and the lifetimes of the caches it
passed add up to. `AnswersAreCounted` and `AnswersStayRecent` follow; neither
is inductive, since an entry comes from a request, and what the request has in
hand is `AnswerOK` and `OpFact` or, on the way from Redis, `WarmOK`.

*Accounts.* The invariant is built in layers, each proved from the ones before.
`TypeInv` has the types and what a request holds at each `pc`. `UserInv` adds
that ids not yet given are unused, that sessions have accounts, and that nobody
changes their own role; with it `RolesEndSessions` and `AuthorityIsFresh` are
inductive together (`SessionsFollowRoles`, `AuthorityFollowsRoles`). `AdminInv` says
that once there was an account there is an administrator or `raced` is true,
and that a request about to take a role counted more than one
(`CountFact`): if the count has not changed, a set with two members keeps one
when another is taken (`Another`), and `LastAdmin` follows. `IdentInv` says
what a sign-in's snapshot means after other sign-ins and deletions: the
account it found has the address that the provider reported if it still
exists, so a link that the keys allow is right, and later addresses change
neither account nor link (`IdentitiesBelong`), and with it every session
opened from one (`SessionsBelong`). `FlowInv` follows a confirmation: from the
comparison with the identity on, the flow a request works on belongs to its
user, stays unusable once consumed, and the confirmed flow names it as its
root. `ConfirmedByOwner` alone is not inductive: the identity has to stay
linked between the comparison and the storing of the confirmed flow, which
`IdentInv` gives.

*Rate limiter.* `IInv` joins types; `InTime`: a request that is at work read
the clock no longer than `MaxDelay` ago; `CountsKept`: a row that says less
than was admitted belongs to a window that has been over for longer than that;
and `SecondTry`: a request in its second transaction finds the row, so that
it never inserts again and an exhausted loop has seen the limit. With it every
step of the limiter is a step of `WindowCounter` or changes nothing that
`WindowCounter` sees (`LimiterIsCounter`, a refinement: the abstract state is
`admitted` and `answer`). `KeepAssumption` is what makes `CountsKept`
inductive: without it, a rule with a short window could prune a row that a
longer window still counts in. `OpenWindowsAreKept` states the consequence by
itself.

*Services.* Each part has an inductive invariant of its own and is proved by
itself, as a lemma about its specification; one step further, a behaviour of
`Services` is one of the part or never touches it (`LookupsApart`,
`AuctionsApart`, `ArchivesApart`, `RulesApart`, `MetricsApart`), and the theorem about
`PartsSpec` follows.

- *Player queries*: `QueryInv`. The semaphore is a fact about a set of holders
  and a line without repetitions (`Places`, `Full`), with lemmas for entering,
  leaving and admitting from the front. `CallOK` says what each call under way
  tells of its flight, `FlightOK` which call a flight must have under way, and
  `LockOK` that the skill lock is held by a flight at its skills. `NothingStuck`
  alone is not inductive: a lookup goes on only because the call it waits for
  has not been answered before, which is `FlightOK` about every player and not
  about the flight. `SharedFlight` is part of the invariant and its own
  strengthening; `AnswersEndFlights` is an action property of every step from
  a state with `QueryInv`.
- *Auction stream*: `StreamInv`. Each page up to the next one of the iterator
  is with one worker, or has been handed over (`Got`); of these one has a fold
  job of this attempt, if any (`JobsOK`), because only the holder of the lock
  waits for one. So what the job has read, of the index (`Cheaper`) and of the
  counter, still holds when it writes, unless `mixed`. `IndexOK` says of each
  offer of a page handed over that the index has one at least as low or the
  page's job has yet to store it, `SumsOK` that the counter counts the pages
  that are done. `FreshOK` carries both over a reset: after it only threads of
  earlier attempts can have changed the builder. `SnapshotsAreComplete` follows
  when every page is done.
- *Backups*: `BackupInv`. `ArchivesOK` follows an archive while it is built:
  between the two copies it has the files of the uploads it has rows of, or is
  excused; `LockOK` makes restores and the building of archives exclude each
  other; `StoreOK` and `RestoreOK` say where the file of each row is outside a
  restore and at each step of one. `ArchivesAreComplete` and
  `RowsKeepTheirFiles` follow.
- *Scrub rules*: `RuleInv`. Ids are given in order (`IdsOK`), there is room for
  the rule of whoever is about to insert one (`RoomOK`, which two overlapping
  creations break), and so LIMIT keeps no rule out (`AllEnabled`); then
  `ScrubOK` and `CountOK` say what a scrub has compared and has yet to count.
- *Request counts*: `CountInv`. A sum is the number of pairs of a member and a
  unit of its number (`SumOf`, `Total`), so that what sums obey (a member more,
  another number at one member, a sum of sums, a set and the rest, rows first
  or columns first) follows from the cardinalities of finite sets;
  `FiniteInduction`, about a set of subsets, takes the place of an induction
  over data. `BooksOK` is the balance: stored and out (pending, in a hand, or
  lost) make recorded and doubled, in the totals and in the rows of every day
  from today on, which is more than `EveryRequestCounted` says of today and
  is what survives midnight. A commit keeps it because the date a flush has
  read is not from tomorrow (`HandsOK`): it deletes rows of past days only.
  `EntriesAgree` says that buckets are the sums of their entries wherever
  counts are, also in what a viewer has seen of another process; `ActiveOK`
  that the floor at zero of `Finished` is never needed.

*Migrations.* The first half is about the script and holds of both engines:
each statement finds what it needs, a table or a column, before it
(`ScriptReady`), the indexes of a table come after its rebuilds
(`IndexesAfterRebuilds`), and there is a statement for every column and key
but those in `Skipped` (`ScriptComplete`). Scripts are concatenations of short
sequences, so the lemmas are about the range of a concatenation and about the
order in it (`RangeConcat`, `FollowsAppend`), not about positions.
`MigrationInv` says of each worker: it is at a statement of the script, at a
step of it that fits its kind (`PlaceOK`); what the statements behind it made
is in the schema it sees, but for the columns in `left` (`DoneOK`); its open
transaction lacks nothing that is committed but the table it is replacing and keys that a later index makes
again, and the copy has the rows of that table (`DraftOK`); and what it saw is
still so unless `raced` (`UndisturbedOK`). None of the three properties is
inductive. `NothingLost` compares a commit with the state before: what it
takes away was taken several steps earlier in the draft, and `DraftOK` says
what must have come back. `ServesCurrentSchema` is `DoneOK` at the end of the
script, with `ScriptComplete`; it survives the rebuilds of other workers
because a commit loses nothing. `StartsUnlessOvertaken` says that every
failure is excluded by `UndisturbedOK`.

Every safety property that a passing run checks is a theorem. Only
model-checked are the liveness properties `FinishesWithoutFault`,
`RequestAnswered` and `RefresherLives`: liveness under fairness and ENABLED
are out of the proof system's reach.

## 11. What is not modelled

Password login with its lockout, TOTP, passkeys, backup codes, login
challenges, password resets and admin challenges (functions that no route
reaches; `tests/test_external_auth.py` asserts that the routes are absent);
the decoding of item data and the resolution of item keys (sequential code
that its tests cover); page rendering, configuration, deployment scripts, the
static pages of `marketguard_hub`.

In the modelled parts: the quota of uploads, labels and outcomes of cases,
operations that come between the SELECT and the UPDATEs of the deletion of
rejected content, audit rows other
than the ones whose foreign key decides whether a step succeeds, the merging of
uploads into a bundle, mails and audit rows of administration, retention of
sessions, tokens, logs, bundles and backups, the readiness report and the
bazaar of the MarketGuard API (the bazaar's service has the lock, recheck and
fallback of the Lowest BIN path, without a ledger), the waiting time of the
key limiter, timings and lists of recent requests. SQLite, which enforces no
foreign keys and does not run in production, is modelled for the limiter,
backups, rules and migrations, where its path is another one.
