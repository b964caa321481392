---------------------------- MODULE DataExports ----------------------------
(***************************************************************************)
(* Account data exports: a request is queued by the web request of its     *)
(* user, then claimed, built, mailed and settled by the export worker that *)
(* every server process runs.  The queue is the table data_export_requests;*)
(* an event of the process wakes its sleeping worker.  An account cannot   *)
(* be deleted while one of its requests is open.                           *)
(*                                                                         *)
(* One action is one transaction, or the half of one between its snapshot  *)
(* and its writes, or one mail, or one change of the event.                *)
(***************************************************************************)
EXTENDS Naturals, FiniteSetsExt

CONSTANTS
    Users,        \* hub accounts
    Processes,    \* server processes, each with one export worker
    Handlers,     \* threads that queue an export request
    Deleters,     \* threads that delete an account
    Nobody,       \* no user
    NoProcess,    \* no process
    MaxExports    \* bound: rows ever inserted into data_export_requests

ASSUME ExportConstants ==
    /\ Nobody \notin Users
    /\ NoProcess \notin Processes
    /\ MaxExports \in Nat

ExportIds == 1..MaxExports
NoExport  == 0

VARIABLES
    accounts,   \* the rows of users
    nextId,     \* AUTO_INCREMENT of data_export_requests
    status,     \* the status of each request; "none" before it is queued
    owner,      \* its user
    cooling,    \* users whose newest request is within the cooldown
    mailed,     \* history: how often each request's archive was delivered
    worker,     \* each process's worker: where it is, what it claimed, how it went
    wake,       \* each process's data_export_wake event
    handler,    \* the state of each queueing thread
    deleter,    \* the state of each deleting thread
    faulty      \* history: a process was killed, or a worker's or handler's step raised

table == <<accounts, nextId, status, owner, cooling>>
vars  == <<table, mailed, worker, wake, handler, deleter, faulty>>

Open    == {id \in ExportIds : status[id] \in {"pending", "processing"}}
OfUser(u) == {id \in ExportIds : owner[id] = u /\ status[id] \notin {"none", "deleted"}}

WorkerState ==
    [pc : {"poll", "claim", "deliver", "mark", "check", "audit", "wait", "down"},
     id : ExportIds \cup {NoExport}, ok : BOOLEAN]
Queueing ==
    [pc : {"idle", "insert", "announce"}, proc : Processes \cup {NoProcess},
     user : Users \cup {Nobody}]
Deletion ==
    [pc : {"idle", "commit"}, user : Users \cup {Nobody}, ids : SUBSET ExportIds]

Polling    == [pc |-> "poll", id |-> NoExport, ok |-> FALSE]
Asleep     == [pc |-> "wait", id |-> NoExport, ok |-> FALSE]
Down       == [pc |-> "down", id |-> NoExport, ok |-> FALSE]
NoQueueing == [pc |-> "idle", proc |-> NoProcess, user |-> Nobody]
NoDeletion == [pc |-> "idle", user |-> Nobody, ids |-> {}]

-----------------------------------------------------------------------------
(* Queueing a request: _queue_user_data_export_request and its route.      *)

QueueRead(h, p, u) ==
    /\ handler[h].pc = "idle"
    /\ worker[p].pc # "down"
    /\ u \in accounts \ cooling
    /\ OfUser(u) \cap Open = {}
    /\ handler' = [handler EXCEPT ![h] = [pc |-> "insert", proc |-> p, user |-> u]]
    /\ UNCHANGED <<table, mailed, worker, wake, deleter, faulty>>

QueueInsert(h) ==
    LET u == handler[h].user IN
    /\ handler[h].pc = "insert"
    /\ nextId \in ExportIds
    /\ u \in accounts
    /\ nextId' = nextId + 1
    /\ status' = [status EXCEPT ![nextId] = "pending"]
    /\ owner' = [owner EXCEPT ![nextId] = u]
    /\ cooling' = cooling \cup {u}
    /\ handler' = [handler EXCEPT ![h].pc = "announce"]
    /\ UNCHANGED <<accounts, mailed, worker, wake, deleter, faulty>>

\* The foreign key to users.
QueueInsertFails(h) ==
    /\ handler[h].pc = "insert"
    /\ handler[h].user \notin accounts
    /\ handler' = [handler EXCEPT ![h] = NoQueueing]
    /\ UNCHANGED <<table, mailed, worker, wake, deleter, faulty>>

\* The audit row refers to the user; only when it is written is the worker of
\* this process woken.
WakeAfter_Never(h) == wake
WakeAfter(h) ==
    IF handler[h].user \in accounts THEN [wake EXCEPT ![handler[h].proc] = TRUE] ELSE wake

QueueAnnounce(h) ==
    /\ handler[h].pc = "announce"
    /\ wake' = WakeAfter(h)
    /\ handler' = [handler EXCEPT ![h] = NoQueueing]
    /\ UNCHANGED <<table, mailed, worker, deleter, faulty>>

QueueRaises(h) ==
    /\ ~faulty
    /\ handler[h].pc # "idle"
    /\ handler' = [handler EXCEPT ![h] = NoQueueing]
    /\ faulty' = TRUE
    /\ UNCHANGED <<table, mailed, worker, wake, deleter>>

CooldownEnds(u) ==
    /\ u \in cooling
    /\ cooling' = cooling \ {u}
    /\ UNCHANGED <<accounts, nextId, status, owner, mailed, worker, wake, handler, deleter, faulty>>

-----------------------------------------------------------------------------
(* The worker: _data_export_worker, _process_next_data_export_request.     *)

\* The claiming transaction reads the oldest pending request.
WorkerPoll(p) ==
    LET pending == {id \in ExportIds : status[id] = "pending"} IN
    /\ worker[p].pc = "poll"
    /\ worker' = [worker EXCEPT ![p] =
            IF pending = {} THEN Asleep
                            ELSE [pc |-> "claim", id |-> Min(pending), ok |-> FALSE]]
    /\ UNCHANGED <<table, mailed, wake, handler, deleter, faulty>>

\* The conditional UPDATE; a worker that lost the race sleeps.
Claimable(id) == status[id] = "pending"

WorkerClaim(p) ==
    LET id == worker[p].id IN
    /\ worker[p].pc = "claim"
    /\ IF Claimable(id)
       THEN /\ status' = [status EXCEPT ![id] = "processing"]
            /\ worker' = [worker EXCEPT ![p].pc = "deliver"]
       ELSE /\ status' = status
            /\ worker' = [worker EXCEPT ![p] = Asleep]
    /\ UNCHANGED <<accounts, nextId, owner, cooling, mailed, wake, handler, deleter, faulty>>

\* Building the archive fails without the account, or if it is too large; the
\* mail may be refused, or be delivered although sending it raised.
Outcomes(id) ==
    IF owner[id] \in accounts
    THEN {[ok |-> TRUE, got |-> 1], [ok |-> FALSE, got |-> 1], [ok |-> FALSE, got |-> 0]}
    ELSE {[ok |-> FALSE, got |-> 0]}

WorkerDeliver(p) ==
    LET id == worker[p].id IN
    /\ worker[p].pc = "deliver"
    /\ \E out \in Outcomes(id) :
        /\ mailed' = [mailed EXCEPT ![id] = @ + out.got]
        /\ worker' = [worker EXCEPT ![p] = [pc |-> "mark", id |-> id, ok |-> out.ok]]
    /\ UNCHANGED <<table, wake, handler, deleter, faulty>>

\* UPDATE ... WHERE id = ?: a row that is gone is not an error.
MarkedStatus_Sent(p) == "sent"
MarkedStatus(p) == IF worker[p].ok THEN "sent" ELSE "failed"

WorkerMark(p) ==
    LET id == worker[p].id IN
    /\ worker[p].pc = "mark"
    /\ status' = [status EXCEPT ![id] = IF @ = "deleted" THEN @ ELSE MarkedStatus(p)]
    /\ worker' = [worker EXCEPT ![p].pc = IF worker[p].ok THEN "audit" ELSE "check"]
    /\ UNCHANGED <<accounts, nextId, owner, cooling, mailed, wake, handler, deleter, faulty>>

\* A failure is only audited if the account still exists.
WorkerCheck(p) ==
    /\ worker[p].pc = "check"
    /\ worker' = [worker EXCEPT ![p] =
            IF owner[worker[p].id] \in accounts THEN [@ EXCEPT !.pc = "audit"] ELSE Polling]
    /\ UNCHANGED <<table, mailed, wake, handler, deleter, faulty>>

\* The audit row refers to the account; without it the INSERT raises.
WorkerAudit(p) ==
    LET exists == owner[worker[p].id] \in accounts IN
    /\ worker[p].pc = "audit"
    /\ worker' = [worker EXCEPT ![p] = IF exists THEN Polling ELSE Asleep]
    /\ faulty' = (faulty \/ ~exists)
    /\ UNCHANGED <<table, mailed, wake, handler, deleter>>

WorkerWakes(p) ==
    /\ worker[p].pc = "wait"
    /\ wake[p]
    /\ wake' = [wake EXCEPT ![p] = FALSE]
    /\ worker' = [worker EXCEPT ![p] = Polling]
    /\ UNCHANGED <<table, mailed, handler, deleter, faulty>>

\* The database fails under a step of the worker; what it claimed stays claimed.
WorkerRaises(p) ==
    /\ ~faulty
    /\ worker[p].pc \in {"poll", "claim", "mark", "check", "audit"}
    /\ worker' = [worker EXCEPT ![p] = Asleep]
    /\ faulty' = TRUE
    /\ UNCHANGED <<table, mailed, wake, handler, deleter>>

Kill(p) ==
    /\ ~faulty
    /\ worker[p].pc # "down"
    /\ worker' = [worker EXCEPT ![p] = Down]
    /\ wake' = [wake EXCEPT ![p] = FALSE]
    /\ handler' = [h \in Handlers |->
            IF handler[h].proc = p THEN NoQueueing ELSE handler[h]]
    /\ faulty' = TRUE
    /\ UNCHANGED <<table, mailed, deleter>>

\* A new process starts with its event set, and a worker that polls.
Restart(p) ==
    /\ worker[p].pc = "down"
    /\ worker' = [worker EXCEPT ![p] = Polling]
    /\ wake' = [wake EXCEPT ![p] = TRUE]
    /\ UNCHANGED <<table, mailed, handler, deleter, faulty>>

-----------------------------------------------------------------------------
(* Deleting an account: the part of _delete_user_account that concerns its *)
(* export requests.                                                        *)

MayDelete_Unchecked(u) == u \in accounts
MayDelete(u) == u \in accounts /\ OfUser(u) \cap Open = {}

DeleteRead(d, u) ==
    /\ deleter[d].pc = "idle"
    /\ MayDelete(u)
    /\ deleter' = [deleter EXCEPT ![d] = [pc |-> "commit", user |-> u, ids |-> OfUser(u)]]
    /\ UNCHANGED <<table, mailed, worker, wake, handler, faulty>>

\* A request queued since the snapshot still refers to the user: the DELETE of
\* the account fails, and everything is rolled back.
DeleteCommit(d) ==
    LET deleted == OfUser(deleter[d].user) \subseteq deleter[d].ids IN
    /\ deleter[d].pc = "commit"
    /\ accounts' = IF deleted THEN accounts \ {deleter[d].user} ELSE accounts
    /\ status' = [id \in ExportIds |->
            IF deleted /\ id \in deleter[d].ids THEN "deleted" ELSE status[id]]
    /\ deleter' = [deleter EXCEPT ![d] = NoDeletion]
    /\ UNCHANGED <<nextId, owner, cooling, mailed, worker, wake, handler, faulty>>

-----------------------------------------------------------------------------

Init ==
    /\ accounts = Users
    /\ nextId = 1
    /\ status = [id \in ExportIds |-> "none"]
    /\ owner = [id \in ExportIds |-> Nobody]
    /\ cooling = {}
    /\ mailed = [id \in ExportIds |-> 0]
    /\ worker = [p \in Processes |-> Polling]
    /\ wake = [p \in Processes |-> TRUE]
    /\ handler = [h \in Handlers |-> NoQueueing]
    /\ deleter = [d \in Deleters |-> NoDeletion]
    /\ faulty = FALSE

Queue(h) ==
    \/ \E p \in Processes, u \in Users : QueueRead(h, p, u)
    \/ QueueInsert(h)
    \/ QueueInsertFails(h)
    \/ QueueAnnounce(h)
    \/ QueueRaises(h)

Work(p) ==
    \/ WorkerPoll(p)
    \/ WorkerClaim(p)
    \/ WorkerDeliver(p)
    \/ WorkerMark(p)
    \/ WorkerCheck(p)
    \/ WorkerAudit(p)
    \/ WorkerWakes(p)

Next ==
    \/ \E h \in Handlers : Queue(h)
    \/ \E u \in Users : CooldownEnds(u)
    \/ \E p \in Processes : Work(p) \/ WorkerRaises(p) \/ Kill(p) \/ Restart(p)
    \/ \E d \in Deleters, u \in Users : DeleteRead(d, u)
    \/ \E d \in Deleters : DeleteCommit(d)

Spec == Init /\ [][Next]_vars

\* A worker runs on, a queued request is announced and a killed process is
\* started again; users, accounts and the clock may stop.
Fairness ==
    /\ \A p \in Processes : WF_vars(Work(p)) /\ WF_vars(Restart(p))
    /\ \A h \in Handlers : WF_vars(QueueAnnounce(h))

FairSpec == Spec /\ Fairness
-----------------------------------------------------------------------------
(* Properties.                                                             *)

TypeOK ==
    /\ accounts \subseteq Users
    /\ nextId \in 1..(MaxExports + 1)
    /\ status \in [ExportIds -> {"none", "pending", "processing", "sent", "failed", "deleted"}]
    /\ owner \in [ExportIds -> Users \cup {Nobody}]
    /\ cooling \subseteq Users
    /\ mailed \in [ExportIds -> Nat]
    /\ worker \in [Processes -> WorkerState]
    /\ wake \in [Processes -> BOOLEAN]
    /\ handler \in [Handlers -> Queueing]
    /\ deleter \in [Deleters -> Deletion]
    /\ faulty \in BOOLEAN

\* However many processes work the queue, and whatever is killed and started
\* again, an archive is mailed at most once, and "sent" means it was mailed.
MailedOnce ==
    \A id \in ExportIds : mailed[id] <= 1 /\ (status[id] = "sent" => mailed[id] = 1)

\* The account of an export lives until the export is settled: deleting it
\* fails while a worker holds one of its requests.
AccountOutlivesExport ==
    \A p \in Processes : worker[p].pc \in {"deliver", "mark"} =>
        status[worker[p].id] = "processing" /\ owner[worker[p].id] \in accounts

\* A settled request stays settled.
SettledForGood ==
    [][\A id \in ExportIds : status[id] \in {"sent", "failed"}
            => status'[id] \in {status[id], "deleted"}]_vars

\* Without a kill or an exception every open request is settled, though
\* workers of several processes race for it and sleep on events of their own.
FinishesWithoutFault ==
    [](~faulty) => \A id \in ExportIds : (id \in Open) ~> (id \notin Open)

\* A claimed request is settled, also when its process is killed and started
\* again: the account it keeps from being deleted can be deleted then.
ClaimFinishes ==
    \A id \in ExportIds : (status[id] = "processing") ~> (status[id] # "processing")
=============================================================================
