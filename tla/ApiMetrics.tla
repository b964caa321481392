----------------------------- MODULE ApiMetrics -----------------------------
(***************************************************************************)
(* Request counters (training_hub/http/live_api_metrics.py,                *)
(* persistent_api_metrics.py).  Each process counts its requests twice: in *)
(* memory, for a live view, and in pending counts that threads of the      *)
(* process add to tables now and then.  A flush takes the pending counts   *)
(* out of the process, adds them to the tables in one transaction, and     *)
(* puts them back if that fails.                                           *)
(*                                                                         *)
(* Requests of the last seconds, the order of entries and the limits on    *)
(* their number belong to the display and are left out.                    *)
(***************************************************************************)
EXTENDS Integers, FiniteSets

CONSTANTS
    Processes,   \* of the hub and of the market API
    Flushers,    \* threads that flush: worker, internal endpoint, shutdown
    Viewers,     \* threads that flush and then read, for the admin page
    ProcessOf,   \* ProcessOf[f]: the process of a flusher or viewer
    Requests,    \* bound: requests there are
    Entries,     \* endpoint and agent
    Buckets,     \* public_api, client_api, internal_api
    BucketOf,    \* BucketOf[e]
    LastDay,     \* bound: days
    MaxFaults    \* bound: kills and answers lost by the database

MetricsAssumption ==
    /\ LastDay \in Nat \ {0} /\ MaxFaults \in Nat
    /\ IsFiniteSet(Processes) /\ IsFiniteSet(Flushers) /\ IsFiniteSet(Viewers)
    /\ IsFiniteSet(Requests) /\ IsFiniteSet(Entries)
    /\ BucketOf \in [Entries -> Buckets]
    /\ ProcessOf \in [Flushers \cup Viewers -> Processes]

VARIABLES
    day,        \* the date, in UTC
    request,    \* request[r]: its process, entry and progress
    live,       \* live[p]: LiveApiRequestMetrics
    pending,    \* pending[p]: counts not yet in the tables
    thread,     \* thread[f]: step, counts in hand, date it read
    stored,     \* the four tables
    faults,     \* how many faults have happened
    recorded, lost, doubled   \* history: counts by entry and day

metrics == <<live, pending, thread, stored>>
vars == <<day, request, live, pending, thread, stored, faults, recorded, lost, doubled>>

Days == 1..LastDay
Threads == Flushers \cup Viewers

(* Counts by day for entries and for buckets, kept side by side. *)
NoCounts ==
    [entry |-> [e \in Entries |-> [d \in Days |-> 0]],
     bucket |-> [b \in Buckets |-> [d \in Days |-> 0]]]

Plus(c1, c2) ==
    [entry |-> [e \in Entries |-> [d \in Days |-> c1.entry[e][d] + c2.entry[e][d]]],
     bucket |-> [b \in Buckets |-> [d \in Days |-> c1.bucket[b][d] + c2.bucket[b][d]]]]

One(e, d) ==
    [entry |-> [NoCounts.entry EXCEPT ![e][d] = 1],
     bucket |-> [NoCounts.bucket EXCEPT ![BucketOf[e]][d] = 1]]

(* The sum of the numbers n[x]: how many pairs of an x and one of 1..n[x]   *)
(* there are.                                                              *)
SumOf(n, S) == Cardinality(UNION {{x} \X (1..n[x]) : x \in S})

AllDays(byDay) == SumOf(byDay, Days)

\* The counts that the members of S have between them.
Together(counts, S) ==
    [entry |-> [e \in Entries |-> [d \in Days |-> SumOf([x \in S |-> counts[x].entry[e][d]], S)]],
     bucket |-> [b \in Buckets |-> [d \in Days |-> SumOf([x \in S |-> counts[x].bucket[b][d]], S)]]]

NewLive ==
    [day |-> 1, active |-> [b \in Buckets |-> 0],
     today |-> [b \in Buckets |-> 0], total |-> [b \in Buckets |-> 0],
     entryToday |-> [e \in Entries |-> 0], entryTotal |-> [e \in Entries |-> 0]]

EmptyTables ==
    [total |-> [b \in Buckets |-> 0], daily |-> NoCounts.bucket,
     entryTotal |-> [e \in Entries |-> 0], entryDaily |-> NoCounts.entry]

Resting == [step |-> "idle", hand |-> NoCounts, date |-> 1, seen |-> NewLive]

Init ==
    /\ day = 1
    /\ request = [r \in Requests |-> [state |-> "new"]]
    /\ live = [p \in Processes |-> NewLive]
    /\ pending = [p \in Processes |-> NoCounts]
    /\ thread = [f \in Threads |-> Resting]
    /\ stored = EmptyTables
    /\ faults = 0
    /\ recorded = NoCounts /\ lost = NoCounts /\ doubled = NoCounts

(***************************************************************************)
(* The middleware.                                                         *)
(***************************************************************************)
(* _rollover_day_unlocked: a new date starts the counts of today again. *)
RolledOver(l) ==
    IF l.day = day THEN l
    ELSE [l EXCEPT !.day = day, !.today = [b \in Buckets |-> 0],
                   !.entryToday = [e \in Entries |-> 0]]

Started(l, e) ==
    LET b == BucketOf[e] IN
    [RolledOver(l) EXCEPT !.active[b] = @ + 1, !.today[b] = @ + 1, !.total[b] = @ + 1,
                          !.entryToday[e] = @ + 1, !.entryTotal[e] = @ + 1]

Finished(l, e) ==
    [l EXCEPT !.active[BucketOf[e]] = IF @ > 0 THEN @ - 1 ELSE 0]

StartRequest(r, p, e) ==
    /\ request[r].state = "new"
    /\ request' = [request EXCEPT ![r] = [state |-> "started", process |-> p, entry |-> e]]
    /\ live' = [live EXCEPT ![p] = Started(@, e)]
    /\ UNCHANGED <<day, pending, thread, stored, faults, recorded, lost, doubled>>

(* The date is read a second time: midnight may have been in between. *)
RecordRequest(r) ==
    /\ request[r].state = "started"
    /\ request' = [request EXCEPT ![r].state = "open"]
    /\ LET c == One(request[r].entry, day) IN
       /\ pending' = [pending EXCEPT ![request[r].process] = Plus(@, c)]
       /\ recorded' = Plus(recorded, c)
    /\ UNCHANGED <<day, live, thread, stored, faults, lost, doubled>>

(* In a finally: the route may have answered or raised. *)
FinishRequest(r) ==
    /\ request[r].state = "open"
    /\ request' = [request EXCEPT ![r] = [state |-> "done"]]
    /\ live' = [live EXCEPT ![request[r].process] = Finished(@, request[r].entry)]
    /\ UNCHANGED <<day, pending, thread, stored, faults, recorded, lost, doubled>>

(***************************************************************************)
(* Flushing.                                                               *)
(***************************************************************************)
OfThread(f) == ProcessOf[f]

AfterFlush(f) == IF f \in Viewers THEN "read" ELSE "idle"

(* The pending counts are taken under the lock; then the date is read. *)
TakePending(f) ==
    /\ thread[f].step = (IF f \in Viewers THEN "flush" ELSE "idle")
    /\ \/ /\ pending[OfThread(f)] = NoCounts
          /\ f \in Viewers
          /\ thread' = [thread EXCEPT ![f].step = "read"]
          /\ UNCHANGED pending
       \/ /\ pending[OfThread(f)] # NoCounts
          /\ thread' = [thread EXCEPT ![f].step = "write", ![f].date = day,
                                      ![f].hand = pending[OfThread(f)]]
          /\ pending' = [pending EXCEPT ![OfThread(f)] = NoCounts]
    /\ UNCHANGED <<day, request, live, stored, faults, recorded, lost, doubled>>

LetGo(f) == thread' = [thread EXCEPT ![f].step = AfterFlush(f), ![f].hand = NoCounts]

(* Days before the date the flush has read are deleted. *)
Since(byDay, date) == [d \in Days |-> IF d < date THEN 0 ELSE byDay[d]]

(* The transaction of a flush: every count is added to its two rows. *)
Added(tables, c, date) ==
    [total |-> [b \in Buckets |-> tables.total[b] + AllDays(c.bucket[b])],
     daily |-> [b \in Buckets |-> Since(Plus([entry |-> c.entry, bucket |-> tables.daily], c).bucket[b], date)],
     entryTotal |-> [e \in Entries |-> tables.entryTotal[e] + AllDays(c.entry[e])],
     entryDaily |-> [e \in Entries |-> Since(Plus([entry |-> tables.entryDaily, bucket |-> c.bucket], c).entry[e], date)]]

Commit(f) ==
    /\ thread[f].step = "write"
    /\ stored' = Added(stored, thread[f].hand, thread[f].date)
    /\ LetGo(f)
    /\ UNCHANGED <<day, request, live, pending, faults, recorded, lost, doubled>>

PutBack(f) ==
    pending' = [pending EXCEPT ![OfThread(f)] = Plus(@, thread[f].hand)]

(* A flush that forgets what it had in hand. *)
FlushFails_Drops(f) ==
    /\ thread[f].step = "write"
    /\ LetGo(f)
    /\ UNCHANGED <<day, request, live, pending, stored, faults, recorded, lost, doubled>>

(* Something failed before the commit: nothing was stored. *)
FlushFails(f) ==
    /\ thread[f].step = "write"
    /\ PutBack(f)
    /\ LetGo(f)
    /\ UNCHANGED <<day, request, live, stored, faults, recorded, lost, doubled>>

(* The commit was carried out, but its answer did not arrive: the flush    *)
(* takes it for a failure.                                                 *)
AnswerLost(f) ==
    /\ thread[f].step = "write"
    /\ faults < MaxFaults /\ faults' = faults + 1
    /\ stored' = Added(stored, thread[f].hand, thread[f].date)
    /\ PutBack(f)
    /\ doubled' = Plus(doubled, thread[f].hand)
    /\ LetGo(f)
    /\ UNCHANGED <<day, request, live, recorded, lost>>

(***************************************************************************)
(* The admin page.                                                         *)
(***************************************************************************)
Sum2(f, g) == [x \in DOMAIN f |-> f[x] + g[x]]

(* merge_live_api_metrics_snapshots, of two processes. *)
Merged(l1, l2) ==
    [l1 EXCEPT !.active = Sum2(@, l2.active), !.today = Sum2(@, l2.today),
               !.total = Sum2(@, l2.total), !.entryToday = Sum2(@, l2.entryToday),
               !.entryTotal = Sum2(@, l2.entryTotal)]

(* snapshot() of the live counters of the viewer's own process. *)
ViewBegins(f) ==
    /\ f \in Viewers
    /\ thread[f].step = "idle"
    /\ live' = [live EXCEPT ![OfThread(f)] = RolledOver(@)]
    /\ thread' = [thread EXCEPT ![f].step = "remote", ![f].seen = live'[OfThread(f)]]
    /\ UNCHANGED <<day, request, pending, stored, faults, recorded, lost, doubled>>

(* The live counters of the other process, asked for over HTTP, if it      *)
(* answers in time.                                                        *)
ViewRemote(f, p) ==
    /\ thread[f].step = "remote"
    /\ \/ /\ p # OfThread(f)
          /\ live' = [live EXCEPT ![p] = RolledOver(@)]
          /\ thread' = [thread EXCEPT ![f].step = "flush", ![f].seen = Merged(@, live'[p])]
       \/ /\ thread' = [thread EXCEPT ![f].step = "flush"]
          /\ UNCHANGED live
    /\ UNCHANGED <<day, request, pending, stored, faults, recorded, lost, doubled>>

(* combine_live_and_persistent_api_metrics: what is going on from the live *)
(* counters, how much there was from the tables.                           *)
Combined(l, tables, d) ==
    [l EXCEPT !.today = [b \in Buckets |-> tables.daily[b][d]], !.total = tables.total,
              !.entryToday = [e \in Entries |-> tables.entryDaily[e][d]],
              !.entryTotal = tables.entryTotal]

(* What the page shows if the tables are read now, or cannot be read. *)
Pages(f) == {Combined(thread[f].seen, stored, day), thread[f].seen}

ShowPage(f) ==
    /\ thread[f].step = "read"
    /\ thread' = [thread EXCEPT ![f] = Resting]
    /\ UNCHANGED <<day, request, live, pending, stored, faults, recorded, lost, doubled>>

(***************************************************************************)
(* A process is killed and starts again; midnight.                         *)
(***************************************************************************)
Hands == [f \in Threads |-> thread[f].hand]

InHand(p) == Together(Hands, {f \in Threads : OfThread(f) = p})

Kill(p) ==
    /\ faults < MaxFaults /\ faults' = faults + 1
    /\ live' = [live EXCEPT ![p] = [NewLive EXCEPT !.day = day]]
    /\ pending' = [pending EXCEPT ![p] = NoCounts]
    /\ thread' = [f \in Threads |-> IF OfThread(f) = p THEN Resting ELSE thread[f]]
    /\ request' = [r \in Requests |->
                      IF request[r].state \in {"started", "open"} /\ request[r].process = p
                      THEN [state |-> "done"] ELSE request[r]]
    /\ lost' = Plus(lost, Plus(pending[p], InHand(p)))
    /\ UNCHANGED <<day, stored, recorded, doubled>>

Midnight ==
    /\ day < LastDay
    /\ day' = day + 1
    /\ UNCHANGED <<request, metrics, faults, recorded, lost, doubled>>

Serve(r) ==
    \/ \E p \in Processes, e \in Entries : StartRequest(r, p, e)
    \/ RecordRequest(r) \/ FinishRequest(r)

Flush(f) == TakePending(f) \/ Commit(f) \/ FlushFails(f) \/ AnswerLost(f)

View(f) ==
    \/ ViewBegins(f) \/ \E p \in Processes : ViewRemote(f, p)
    \/ ShowPage(f)

Next ==
    \/ \E r \in Requests : Serve(r)
    \/ \E f \in Threads : Flush(f) \/ View(f)
    \/ \E p \in Processes : Kill(p)
    \/ Midnight

Spec == Init /\ [][Next]_vars

(***************************************************************************)
(* Properties.                                                             *)
(***************************************************************************)
Unstored == Plus(Together(pending, Processes), Together(Hands, Threads))

(* Every request is counted exactly once, in the total and in the row of   *)
(* its day, however flushes overlap, fail and are repeated: but for those  *)
(* that were in a process when it was killed, and those whose commit was   *)
(* taken for a failure.                                                    *)
EveryRequestCounted ==
    LET all == Plus(recorded, doubled)
        out == Plus(lost, Unstored)
    IN \A e \in Entries :
        /\ stored.entryTotal[e] + AllDays(out.entry[e]) = AllDays(all.entry[e])
        /\ stored.entryDaily[e][day] + out.entry[e][day] = all.entry[e][day]

Split(byEntry, b) == SumOf(byEntry, {e \in Entries : BucketOf[e] = b})

(* Buckets and entries are counted separately in memory, in pending counts *)
(* and in the tables; on the page they still add up, and today is never    *)
(* more than the total, also when two processes are shown together and     *)
(* when the tables could not be read.                                      *)
PageAddsUp ==
    \A f \in Viewers : thread[f].step = "read" =>
        \A page \in Pages(f), b \in Buckets :
            /\ page.today[b] = Split(page.entryToday, b)
            /\ page.total[b] = Split(page.entryTotal, b)
            /\ page.today[b] <= page.total[b]

(* The number of active requests of a process is the number of requests it *)
(* is serving: none is forgotten and the floor at zero is never needed.    *)
ActiveIsServing ==
    \A p \in Processes, b \in Buckets :
        live[p].active[b] =
            Cardinality({r \in Requests :
                /\ request[r].state \in {"started", "open"}
                /\ request[r].process = p
                /\ BucketOf[request[r].entry] = b})

(* What the administrator sees is every request, once.                     *)
CountsAgree == EveryRequestCounted /\ PageAddsUp /\ ActiveIsServing
=============================================================================
