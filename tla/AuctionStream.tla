--------------------------- MODULE AuctionStream ---------------------------
(***************************************************************************)
(* One refresh of the Lowest BIN index: HypixelAuctionClient.stream_snapshot *)
(* with the _IndexingPageConsumer of service.py.  A pool of workers fetches *)
(* the pages of the auction house; each page is folded into one index by a *)
(* thread, one at a time; when the house changes meanwhile, the attempt is *)
(* given up and the next one starts from an empty index.                   *)
(*                                                                         *)
(* What is cancelled is the worker, not the thread it waits for.  The      *)
(* thread takes the builder's dictionaries, compares each offer with the   *)
(* lowest one of its key and stores it if it is cheaper, and at its end    *)
(* reads the builder's counter and writes it back.  An offer is an auction *)
(* under one of its item keys; the dictionaries of prices, sellers and     *)
(* names, which are stored to one after the other, are one of offers here. *)
(***************************************************************************)
EXTENDS Integers, Sequences

CONSTANTS
    Workers,      \* max_parallel_pages tasks
    Retries,      \* snapshot_retries
    ItemKeys,     \* keys of the index
    Offers,       \* auctions, each under one of its keys
    ItemOf,        \* the key of an offer
    PriceOf,      \* its unit price
    HouseAt,      \* HouseAt[v]: the pages of each version, in order: sets of offers
    NoOffer,      \* the index has none
    NoVersion     \* nothing fetched yet

Versions == DOMAIN HouseAt
PagesAt(v) == Len(HouseAt[v])

StreamAssumption ==
    /\ Workers # {} /\ Retries \in Nat \ {0}
    /\ HouseAt \in Seq(Seq(SUBSET Offers) \ {<<>>}) /\ HouseAt # <<>>
    /\ ItemOf \in [Offers -> ItemKeys] /\ PriceOf \in [Offers -> Nat]
    /\ NoOffer \notin Offers /\ NoVersion \notin Versions

VARIABLES
    upstream,  \* the version Hypixel publishes
    phase,     \* where stream_snapshot is
    attempt,   \* the number of the attempt
    version,   \* last_updated of its first page
    asked,     \* the version published when the attempt asked for its first page
    next,      \* the next number of the shared iterator
    worker,    \* worker[w]: its step, page, and the version when it asked
    consume,   \* consume_lock: the holder, then those that wait
    fold,      \* fold jobs of the executor
    index,     \* the offer that the builder's dictionaries have for each key
    count,     \* how many pages' auctions total_bin_auctions counts
    total,     \* how many pages' auctions total_auctions counts
    mixed      \* history: a thread of an earlier attempt has changed the builder

stream == <<phase, attempt, version, asked, next, total>>
builder == <<fold, index, count, mixed>>
vars == <<upstream, stream, worker, consume, builder>>

Main == "first page"
Pages == PagesAt(version)
Idle == [step |-> "none", page |-> 0, asked |-> NoVersion]

\* A fold job: its page and attempt, its thread's step, the attempt whose
\* dictionaries it took, the offers it has not compared yet, the one it is about
\* to store, and the counter it has read.
Job(p, v) ==
    [page |-> p, attempt |-> attempt, step |-> "queued", into |-> 0,
     left |-> HouseAt[v][p + 1], offer |-> NoOffer, seen |-> 0]
FoldsOf(p) == {j \in fold : j.page = p /\ j.attempt = attempt}

-----------------------------------------------------------------------------
(* The attempt: stream_snapshot and the first page.                        *)

\* New dictionaries: the old ones are left to the threads that took them.
Reset ==
    /\ index' = [k \in ItemKeys |-> NoOffer]
    /\ count' = 0
    /\ mixed' = FALSE
    /\ UNCHANGED fold

Begin ==
    /\ phase = "begin"
    /\ phase' = "first"
    /\ attempt' = attempt + 1
    /\ asked' = upstream
    /\ Reset
    /\ UNCHANGED <<upstream, version, next, total, worker, consume>>

\* A response has one version that was published while it was under way.
FirstArrives ==
    /\ phase = "first"
    /\ \E v \in asked..upstream :
        /\ version' = v
        /\ fold' = fold \cup {Job(0, v)}
    /\ phase' = "first fold"
    /\ total' = 1
    /\ UNCHANGED <<upstream, attempt, asked, next, worker, consume, index, count, mixed>>

FirstFolded ==
    /\ phase = "first fold"
    /\ FoldsOf(0) = {}
    /\ phase' = IF Pages > 1 THEN "pages" ELSE "done"
    /\ next' = 1
    /\ worker' = [w \in Workers |-> [Idle EXCEPT !.step = "take"]]
    /\ UNCHANGED <<upstream, attempt, version, asked, total, consume, builder>>

\* A timeout, an error status or a malformed answer is raised to the caller.
FirstFails ==
    /\ phase = "first"
    /\ phase' = "failed"
    /\ UNCHANGED <<upstream, attempt, version, asked, next, total, worker, consume, builder>>

-----------------------------------------------------------------------------
(* A worker: _worker.                                                      *)

\* Workers beyond the number of pages are not started, or find none left.
Take(w) ==
    /\ phase = "pages" /\ worker[w].step = "take"
    /\ IF next < Pages
       THEN /\ worker' = [worker EXCEPT ![w] = [step |-> "fetch", page |-> next, asked |-> upstream]]
            /\ next' = next + 1
       ELSE /\ worker' = [worker EXCEPT ![w].step = "ended"]
            /\ next' = next
    /\ UNCHANGED <<upstream, phase, attempt, version, asked, total, consume, builder>>

\* A page of another version, or one that is gone, is a drift.
Drifted(p, v) == v # version \/ p >= PagesAt(v)

PageArrives(w) ==
    /\ phase = "pages" /\ worker[w].step = "fetch"
    /\ \E v \in worker[w].asked..upstream :
        IF Drifted(worker[w].page, v)
        THEN /\ worker' = [worker EXCEPT ![w].step = "drift"]
             /\ consume' = consume
        ELSE /\ worker' = [worker EXCEPT ![w].step = "queue", ![w].asked = v]
             /\ consume' = Append(consume, w)
    /\ UNCHANGED <<upstream, stream, builder>>

PageFails(w) ==
    /\ phase = "pages" /\ worker[w].step = "fetch"
    /\ worker' = [worker EXCEPT ![w].step = "error"]
    /\ UNCHANGED <<upstream, stream, consume, builder>>

Consume_Unlocked(w) ==
    /\ phase = "pages" /\ worker[w].step = "queue"
    /\ worker' = [worker EXCEPT ![w].step = "fold"]
    /\ fold' = fold \cup {Job(worker[w].page, worker[w].asked)}
    /\ total' = total + 1
    /\ UNCHANGED <<upstream, phase, attempt, version, asked, next, consume, index, count, mixed>>

HasLock(w) == consume # <<>> /\ Head(consume) = w

Consume(w) ==
    /\ phase = "pages" /\ worker[w].step = "queue"
    /\ HasLock(w)
    /\ worker' = [worker EXCEPT ![w].step = "fold"]
    /\ fold' = fold \cup {Job(worker[w].page, worker[w].asked)}
    /\ total' = total + 1
    /\ UNCHANGED <<upstream, phase, attempt, version, asked, next, consume, index, count, mixed>>

Folded(w) ==
    /\ phase = "pages" /\ worker[w].step = "fold"
    /\ FoldsOf(worker[w].page) = {}
    /\ consume' = Tail(consume)
    /\ worker' = [worker EXCEPT ![w] = [Idle EXCEPT !.step = "take"]]
    /\ UNCHANGED <<upstream, stream, builder>>

-----------------------------------------------------------------------------
(* The end of an attempt.                                                  *)

Complete ==
    /\ phase = "pages"
    /\ \A w \in Workers : worker[w].step = "ended"
    /\ phase' = "done"
    /\ UNCHANGED <<upstream, attempt, version, asked, next, total, worker, consume, builder>>

\* The gather raises a worker's exception, and the others are cancelled at
\* their await; a fold that no thread has taken is cancelled with its worker.
Kept == {j \in fold : j.step # "queued" \/ j.attempt # attempt}

Stop(w) ==
    /\ phase = "pages" /\ worker[w].step \in {"drift", "error"}
    /\ phase' = IF worker[w].step = "drift" /\ attempt < Retries THEN "begin" ELSE "failed"
    /\ fold' = Kept
    /\ worker' = [x \in Workers |-> Idle]
    /\ consume' = <<>>
    /\ UNCHANGED <<upstream, attempt, version, asked, next, total, index, count, mixed>>

-----------------------------------------------------------------------------
(* The executor's threads.                                                 *)

Becomes(j, k) == fold' = (fold \ {j}) \cup {k}

Picks(j) ==
    /\ j.step = "queued"
    /\ Becomes(j, [j EXCEPT !.step = "picked"])
    /\ UNCHANGED <<upstream, stream, worker, consume, index, count, mixed>>

\* The thread takes the dictionaries that are the builder's now.
Opens(j) ==
    /\ j.step = "picked"
    /\ Becomes(j, [j EXCEPT !.step = "fold", !.into = attempt])
    /\ UNCHANGED <<upstream, stream, worker, consume, index, count, mixed>>

Cheaper(o) ==
    \/ index[ItemOf[o]] = NoOffer
    \/ PriceOf[o] < PriceOf[index[ItemOf[o]]]

Compares(j) ==
    /\ j.step = "fold" /\ j.into = attempt
    /\ \E o \in j.left :
         Becomes(j, IF Cheaper(o)
                    THEN [j EXCEPT !.left = @ \ {o}, !.offer = o, !.step = "write"]
                    ELSE [j EXCEPT !.left = @ \ {o}])
    /\ UNCHANGED <<upstream, stream, worker, consume, index, count, mixed>>

SetsLowest(j) ==
    /\ j.step = "write" /\ j.into = attempt
    /\ Becomes(j, [j EXCEPT !.step = "fold"])
    /\ index' = [index EXCEPT ![ItemOf[j.offer]] = j.offer]
    /\ mixed' = (mixed \/ j.attempt # attempt)
    /\ UNCHANGED <<upstream, stream, worker, consume, count>>

\* What a thread does to dictionaries that a reset has replaced nobody sees.
ReadsCounter(j) ==
    /\ \/ j.step = "fold" /\ j.left = {}
       \/ j.step \in {"fold", "write"} /\ j.into # attempt
    /\ Becomes(j, [j EXCEPT !.step = "add", !.left = {}, !.seen = count])
    /\ UNCHANGED <<upstream, stream, worker, consume, index, count, mixed>>

Counts(j) ==
    /\ j.step = "add"
    /\ fold' = fold \ {j}
    /\ count' = j.seen + 1
    /\ mixed' = (mixed \/ j.attempt # attempt)
    /\ UNCHANGED <<upstream, stream, worker, consume, index>>

Thread ==
    \E j \in fold : \/ Picks(j) \/ Opens(j) \/ Compares(j) \/ SetsLowest(j)
                   \/ ReadsCounter(j) \/ Counts(j)

Publish ==
    /\ upstream < Len(HouseAt)
    /\ upstream' = upstream + 1
    /\ UNCHANGED <<stream, worker, consume, builder>>

Init ==
    /\ upstream = 1
    /\ phase = "begin" /\ attempt = 0
    /\ version = NoVersion /\ asked = NoVersion
    /\ next = 0 /\ total = 0
    /\ worker = [w \in Workers |-> Idle]
    /\ consume = <<>>
    /\ fold = {} /\ index = [k \in ItemKeys |-> NoOffer]
    /\ count = 0 /\ mixed = FALSE

Attempt == Begin \/ FirstArrives \/ FirstFolded \/ FirstFails \/ Complete
Work(w) == Take(w) \/ PageArrives(w) \/ PageFails(w) \/ Consume(w) \/ Folded(w) \/ Stop(w)

Next == Attempt \/ (\E w \in Workers : Work(w)) \/ Thread \/ Publish

Spec == Init /\ [][Next]_vars

-----------------------------------------------------------------------------
(* Properties.                                                             *)

Own == UNION {HouseAt[version][p + 1] : p \in 0..Pages - 1}

\* The index has the lowest offer of each key that is offered and no other, and
\* the counter counts each page once.
Exact ==
    /\ \A o \in Own : PriceOf[index[ItemOf[o]]] <= PriceOf[o]
    /\ \A k \in ItemKeys : index[k] # NoOffer => index[k] \in Own /\ ItemOf[index[k]] = k
    /\ count = Pages

\* The result is one version of the house, published while the refresh was
\* under way, every page handed over once, and no key of it is missing.  As
\* "two folds at once would corrupt it" (client.py:179), consumption is
\* serialised: unless a thread of an abandoned attempt changed the builder,
\* no offer and no count is lost between the reads and the writes of a fold.
SnapshotComplete ==
    phase = "done" =>
        /\ total = Pages
        /\ version \in asked..upstream
        /\ \A o \in Own : index[ItemOf[o]] # NoOffer
        /\ mixed \/ Exact

\* "A retry must not inherit the pages the failed attempt folded in"
\* (client.py:136): what is reported is what its own attempt folded in.
NothingInherited == phase = "done" => Exact
=============================================================================
