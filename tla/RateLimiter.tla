---------------------------- MODULE RateLimiter ----------------------------
(***************************************************************************)
(* The request limiters of both applications (training_hub/http/           *)
(* rate_limit.py, marketguard_api/rate_limit.py): a count per key and      *)
(* fixed window, kept in a table of SQLite or MariaDB or in the memory of  *)
(* the process.                                                            *)
(*                                                                         *)
(* A SQLite transaction holds the write lock and the memory is behind a    *)
(* mutex, so there a request is one step.  In MariaDB the statements of    *)
(* concurrent requests interleave: an UPDATE that finds no row it may      *)
(* raise, a SELECT that says why, an INSERT that another request may have  *)
(* overtaken, and at most Attempts transactions.  Each request first       *)
(* deletes the rows of every key that are old by its own window, and they  *)
(* are gone when it commits.                                               *)
(***************************************************************************)
EXTENDS Integers

CONSTANTS
    Workers,       \* threads of the pool that run allow(), of any process
    Keys,          \* a rule and a user or an address
    Limit,         \* Limit[k]: max_requests of its rule
    Window,        \* Window[k]: window_seconds of its rule
    KeepWindows,   \* rows are kept this many windows of the deleting request
    Attempts,      \* transactions the MariaDB path tries
    RetentionAge,  \* age at which the retention run deletes a row
    MaxDelay,      \* bound: a request is answered within this time
    MaxTime,       \* bound: the last moment
    Stores         \* where counts are kept: "sqlite", "mariadb", "memory"

ASSUME WindowAssumption ==
    /\ MaxTime \in Nat /\ MaxDelay \in Nat
    /\ Attempts \in Nat \ {0, 1}
    /\ Window \in [Keys -> Nat \ {0}] /\ Limit \in [Keys -> Nat \ {0}]
    /\ KeepWindows \in Nat /\ RetentionAge \in Nat

(* The rules' windows are of 60 to 600 seconds and 12 windows are kept:    *)
(* a rule never deletes the row of another one whose window is open, nor   *)
(* one that a request which is still waiting is going to count in.         *)
ASSUME KeepAssumption ==
    /\ \A j \in Keys, k \in Keys : Window[k] + MaxDelay <= KeepWindows * Window[j]
    /\ \A k \in Keys : Window[k] + MaxDelay <= RetentionAge

VARIABLES
    store,     \* where this deployment keeps its counts
    clock,     \* seconds
    rows,      \* rate_limit_hits: rows[k][b] is the count, 0 for no row
    op,        \* what each worker is doing
    admitted,  \* history: requests let through, by key and window
    answer     \* history: the last answer

vars == <<store, clock, rows, op, admitted, answer>>

Times == 0..MaxTime

(* bucket_start of a request of key k that read the time n. *)
Start(k, n) == n - (n % Window[k])

(* Rows older than this are deleted by a request of key k. *)
StaleBefore(k, n) == Start(k, n) - KeepWindows * Window[k]

Operation == [pc : {"count", "select", "insert"}, key : Keys, now : Times,
              attempt : 1..Attempts]

Idle == [pc |-> "idle"]

NoRows == [k \in Keys |-> [b \in Times |-> 0]]

Init ==
    /\ store \in Stores
    /\ clock = 0
    /\ rows = NoRows
    /\ op = [w \in Workers |-> Idle]
    /\ admitted = NoRows
    /\ answer = <<>>

(***************************************************************************)
(* Parts of the steps.                                                     *)
(***************************************************************************)
KeyOf(w) == op[w].key
StartOf(w) == Start(op[w].key, op[w].now)
CountOf(w) == rows[KeyOf(w)][StartOf(w)]

(* The rows that remain when those that began before a moment are deleted. *)
Pruned(table, before) ==
    [k \in Keys |-> [b \in Times |-> IF b < before THEN 0 ELSE table[k][b]]]

PrunedBy(w, table) == Pruned(table, StaleBefore(op[w].key, op[w].now))

Raised(table, w) == [table EXCEPT ![KeyOf(w)][StartOf(w)] = @ + 1]

Leave(w) == op' = [op EXCEPT ![w] = Idle]

Admit(w) ==
    /\ rows' = PrunedBy(w, Raised(rows, w))
    /\ admitted' = Raised(admitted, w)
    /\ answer' = <<KeyOf(w), StartOf(w), "admitted">>
    /\ Leave(w)
    /\ UNCHANGED <<store, clock>>

Refuse(w) ==
    /\ answer' = <<KeyOf(w), StartOf(w), "refused">>
    /\ Leave(w)
    /\ UNCHANGED <<store, clock, admitted>>

MoveTo(w, pc) ==
    /\ op' = [op EXCEPT ![w].pc = pc]
    /\ UNCHANGED <<store, clock, rows, admitted, answer>>

(* The loop goes round once more, or is over. *)
TryAgain(w) ==
    \/ /\ op[w].attempt < Attempts
       /\ op' = [op EXCEPT ![w].pc = "count", ![w].attempt = @ + 1]
       /\ UNCHANGED <<store, clock, admitted, answer>>
    \/ /\ op[w].attempt = Attempts
       /\ Refuse(w)

(***************************************************************************)
(* The steps.                                                              *)
(***************************************************************************)
Arrive(w, k) ==
    /\ op[w].pc = "idle"
    /\ op' = [op EXCEPT ![w] = [pc |-> "count", key |-> k, now |-> clock, attempt |-> 1]]
    /\ UNCHANGED <<store, clock, rows, admitted, answer>>

(* _allow_sqlite and InMemoryRateLimiter.allow: nobody comes in between. *)
AllowAtOnce(w) ==
    /\ store \in {"sqlite", "memory"}
    /\ op[w].pc = "count"
    /\ \/ CountOf(w) < Limit[KeyOf(w)] /\ Admit(w)
       \/ CountOf(w) >= Limit[KeyOf(w)] /\ Refuse(w) /\ rows' = PrunedBy(w, rows)

(* The conditional UPDATE found the row below the limit. *)
CountHit(w) ==
    /\ store = "mariadb"
    /\ op[w].pc = "count"
    /\ CountOf(w) \in 1..(Limit[KeyOf(w)] - 1)
    /\ Admit(w)

CountMiss(w) ==
    /\ store = "mariadb"
    /\ op[w].pc = "count"
    /\ CountOf(w) \notin 1..(Limit[KeyOf(w)] - 1)
    /\ MoveTo(w, "select")

SelectFull(w) ==
    /\ op[w].pc = "select"
    /\ CountOf(w) >= Limit[KeyOf(w)]
    /\ rows' = PrunedBy(w, rows)
    /\ Refuse(w)

(* The row has come into being since the UPDATE. *)
SelectRoom(w) ==
    /\ op[w].pc = "select"
    /\ CountOf(w) \in 1..(Limit[KeyOf(w)] - 1)
    /\ rows' = PrunedBy(w, rows)
    /\ TryAgain(w)

SelectNone(w) ==
    /\ op[w].pc = "select"
    /\ CountOf(w) = 0
    /\ MoveTo(w, "insert")

(* What a limiter does that takes a lost insertion for a first request. *)
Insert_Unchecked(w) ==
    /\ op[w].pc = "insert"
    /\ Admit(w)

Insert(w) ==
    /\ op[w].pc = "insert"
    /\ CountOf(w) = 0
    /\ Admit(w)

(* The primary key refuses the row: rolled back and tried again. *)
InsertDuplicate(w) ==
    /\ op[w].pc = "insert"
    /\ CountOf(w) > 0
    /\ UNCHANGED rows
    /\ TryAgain(w)

(* A deadlock, a lock that is not granted in time, a lost connection: the  *)
(* transaction is rolled back and the request ends with an error.          *)
Raise(w) ==
    /\ store # "memory"
    /\ op[w].pc # "idle"
    /\ Leave(w)
    /\ UNCHANGED <<store, clock, rows, admitted, answer>>

(* The retention run deletes rows of some days ago. *)
Retention ==
    /\ store # "memory"
    /\ rows' = Pruned(rows, clock - RetentionAge)
    /\ UNCHANGED <<store, clock, op, admitted, answer>>

(* The processes are killed and start again: a count in memory is lost     *)
(* and with it what this process has promised; tables remain.              *)
Restart ==
    /\ op' = [w \in Workers |-> Idle]
    /\ \/ /\ store = "memory"
          /\ rows' = NoRows /\ admitted' = NoRows /\ answer' = <<>>
       \/ /\ store # "memory"
          /\ UNCHANGED <<rows, admitted, answer>>
    /\ UNCHANGED <<store, clock>>

Tick ==
    /\ clock < MaxTime
    /\ \A w \in Workers : op[w].pc # "idle" => clock < op[w].now + MaxDelay
    /\ clock' = clock + 1
    /\ UNCHANGED <<store, rows, op, admitted, answer>>

Allow(w) ==
    \/ \E k \in Keys : Arrive(w, k)
    \/ AllowAtOnce(w)
    \/ CountHit(w) \/ CountMiss(w)
    \/ SelectFull(w) \/ SelectRoom(w) \/ SelectNone(w)
    \/ Insert(w) \/ InsertDuplicate(w)
    \/ Raise(w)

Next == (\E w \in Workers : Allow(w)) \/ Retention \/ Restart \/ Tick

Spec == Init /\ [][Next]_vars

(***************************************************************************)
(* Properties.                                                             *)
(***************************************************************************)
TypeOK ==
    /\ store \in Stores
    /\ clock \in Times
    /\ rows \in [Keys -> [Times -> Nat]]
    /\ op \in [Workers -> Operation \cup {Idle}]
    /\ admitted \in [Keys -> [Times -> Nat]]

Counter == INSTANCE WindowCounter WITH Starts <- Times, Max <- Limit

(* Each limiter is a window counter: however the statements of concurrent  *)
(* requests interleave, whoever deletes old rows, and whichever transaction *)
(* is rolled back, no window admits more than its limit, and nobody is     *)
(* refused who was within it; three attempts are enough for that.          *)
ImplementsCounter == Counter!Spec

(* The row of a window that is open, or that a waiting request is going to *)
(* count in, says how many requests it admitted: no rule with a shorter    *)
(* window and no retention run deletes it too early.                       *)
OpenWindowsKept ==
    \A k \in Keys :
        \A n \in {clock} \cup {op[w].now : w \in {v \in Workers : op[v].pc # "idle"}} :
            rows[k][Start(k, n)] = admitted[k][Start(k, n)]
=============================================================================
