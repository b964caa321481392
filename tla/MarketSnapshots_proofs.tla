----------------------- MODULE MarketSnapshots_proofs -----------------------
(***************************************************************************)
(* Proofs about MarketSnapshots, for any processes, requests, time limits  *)
(* and bounds that satisfy MarketConstants.                                *)
(***************************************************************************)
EXTENDS MarketSnapshots, FiniteSetTheorems, TLAPS

-----------------------------------------------------------------------------
(* Days.                                                                   *)

(* A quotient and what it leaves. *)
LEMMA Quotient ==
    ASSUME NEW d \in Nat \ {0}, NEW v \in Nat
    PROVE  /\ v \div d \in Nat
           /\ d * (v \div d) <= v
           /\ v < d * (v \div d) + d
OBVIOUS

(* Days are numbers, and later versions have no earlier day. *)
LEMMA DayOrder ==
    ASSUME NEW v \in Nat, NEW w \in Nat, v <= w
    PROVE  Day(v) \in Nat /\ Day(w) \in Nat /\ Day(v) <= Day(w)
<1> DEFINE a == v \div DayLength
           b == w \div DayLength
<1>1. DayLength \in Nat \ {0}
  BY MarketConstants
<1>2. a \in Nat /\ b \in Nat /\ DayLength * a <= v /\ w < DayLength * b + DayLength
  BY <1>1, Quotient
<1>3. CASE b + 1 <= a
  <2>1. DayLength * (b + 1) <= DayLength * a
    BY <1>1, <1>2, <1>3, Z3
  <2>2. DayLength * (b + 1) = DayLength * b + DayLength
    BY <1>1, <1>2, Z3
  <2>3. QED BY <1>1, <1>2, <2>1, <2>2
<1>4. QED BY <1>2, <1>3 DEF Day

(* Within a number of ticks the day changes at most as often as days begin. *)
LEMMA DayLag ==
    ASSUME NEW v \in Nat, NEW w \in Nat, w <= v + Patience
    PROVE  Day(w) + Window <= Day(v) + Retention
<1> DEFINE a == v \div DayLength
           b == w \div DayLength
           c == (Patience + DayLength - 1) \div DayLength
<1>1. DayLength \in Nat \ {0} /\ Patience \in Nat /\ Window \in Nat /\ Retention \in Nat
  BY MarketConstants
<1>2. Patience + DayLength - 1 \in Nat
  BY <1>1
<1>3. a \in Nat /\ b \in Nat /\ DayLength * b <= w /\ v < DayLength * a + DayLength
  BY <1>1, Quotient
<1>4. c \in Nat /\ Patience + DayLength - 1 < DayLength * c + DayLength
  BY <1>1, <1>2, Quotient
<1>5. b <= a + c
  <2> SUFFICES ASSUME a + c + 1 <= b PROVE FALSE
    BY <1>3, <1>4
  <2>1. DayLength * (a + c + 1) <= DayLength * b
    BY <1>1, <1>3, <1>4, Z3
  <2>2. DayLength * (a + c + 1) = DayLength * a + DayLength * c + DayLength
    BY <1>1, <1>3, <1>4, Z3
  <2>3. DayLength * a \in Nat /\ DayLength * c \in Nat /\ DayLength * b \in Nat
    BY <1>1, <1>3, <1>4, Z3
  <2>4. QED BY <1>1, <1>3, <1>4, <2>1, <2>2, <2>3
<1>6. c + Window <= Retention
  BY MarketConstants, <1>4
<1>7. QED BY <1>1, <1>3, <1>4, <1>5, <1>6 DEF Day

-----------------------------------------------------------------------------
(* Types.                                                                  *)

(* Which states a refresher has, and when a snapshot is remembered. *)
OpOK ==
    \A a \in Actors :
        /\ a \in Processes => op[a].pc \in {"idle", "queued", "fetch", "persist"}
        /\ op[a].pc # "idle" => op[a].now \in 1..clock
        /\ op[a].pc \in {"persist", "averages", "share", "warm"} => op[a].seen \in Snapshot

\* Who works under the lock is at the head of the lock's queue.
LockOK ==
    \A a \in Actors : Holding(a) =>
        waiters[ProcessOf(a)] # <<>> /\ Head(waiters[ProcessOf(a)]) = a

TypeInv == TypeOK /\ OpOK /\ LockOK

(* What joining and leaving a queue does to its head. *)
LEMMA QueueFacts ==
    ASSUME NEW S, NEW s \in Seq(S), NEW a \in S
    PROVE  /\ Append(s, a) \in Seq(S) /\ Append(s, a) # <<>>
           /\ s # <<>> => Head(Append(s, a)) = Head(s) /\ Tail(s) \in Seq(S)
OBVIOUS

(* Constants and blank records have their types. *)
LEMMA Basics ==
    /\ MaxTime \in Nat \ {0} /\ Patience \in Nat
    /\ CacheTtl \in Nat \ {0} /\ StaleLimit \in Nat \ {0} /\ CacheTtl <= StaleLimit
    /\ LocalTtl \in Nat \ {0} /\ RedisTtl \in Nat \ {0}
    /\ Retention \in Nat \ {0} /\ Window \in Nat \ {0}
    /\ Resting \in Operation /\ Resting.pc = "idle" /\ Resting.seen = NoSnapshot
    /\ NoEntry.expires = 0 /\ NoEntry.snap = NoSnapshot
    /\ NoSnapshot.version = 0 /\ NoSnapshot.gen = 0 /\ NoSnapshot \notin Snapshot
    /\ Processes \cap Requests = {}
    /\ \A a \in Actors : ProcessOf(a) \in Processes
    /\ \A r \in Requests : ProcessOf(r) = Home[r] /\ Home[r] \in Processes
    /\ \A p \in Processes : ProcessOf(p) = p
    /\ Processes \subseteq Actors /\ Requests \subseteq Actors
<1>1. Resting \in Operation
  BY MarketConstants DEF Resting, Operation
<1>2. NoSnapshot \notin Snapshot
  BY DEF NoSnapshot, Snapshot, Times
<1>3. QED
  BY MarketConstants, <1>1, <1>2 DEF Resting, NoEntry, NoSnapshot, Actors, ProcessOf

LEMMA InitType == Init => TypeInv
<1> SUFFICES ASSUME Init PROVE TypeInv
  OBVIOUS
<1>1. OpOK
  BY Basics DEF Init, OpOK
<1>2. TypeOK
  BY Basics DEF Init, TypeOK, Times
<1>3. LockOK
  BY Basics DEF Init, LockOK, Holding
<1>4. QED BY <1>1, <1>2, <1>3 DEF TypeInv

(* Joining the queue keeps what its head says; so does leaving it.         *)
LEMMA JoinQueue ==
    ASSUME TypeInv, NEW a \in Actors
    PROVE  /\ Enqueued(a) \in [Processes -> Seq(Actors)]
           /\ \A b \in Actors : Holding(b) =>
                Enqueued(a)[ProcessOf(b)] # <<>> /\ Head(Enqueued(a)[ProcessOf(b)]) = b
<1>1. \A p \in Processes : waiters[p] \in Seq(Actors)
  BY DEF TypeInv, TypeOK
<1>2. \A p \in Processes : Append(waiters[p], a) \in Seq(Actors) /\ Append(waiters[p], a) # <<>>
  BY <1>1, QueueFacts
<1>3. \A p \in Processes : waiters[p] # <<>> => Head(Append(waiters[p], a)) = Head(waiters[p])
  BY <1>1, QueueFacts
<1>4. Enqueued(a) \in [Processes -> Seq(Actors)]
  BY <1>2, Basics DEF TypeInv, TypeOK, Enqueued
<1>5. \A p \in Processes :
          Enqueued(a)[p] = IF p = ProcessOf(a) THEN Append(waiters[p], a) ELSE waiters[p]
  BY Basics DEF TypeInv, TypeOK, Enqueued
<1>6. ASSUME NEW b \in Actors, Holding(b)
      PROVE  Enqueued(a)[ProcessOf(b)] # <<>> /\ Head(Enqueued(a)[ProcessOf(b)]) = b
  <2>1. waiters[ProcessOf(b)] # <<>> /\ Head(waiters[ProcessOf(b)]) = b
    BY <1>6 DEF TypeInv, LockOK
  <2>2. QED BY <1>2, <1>3, <1>5, <2>1, Basics
<1>7. QED BY <1>4, <1>6

LEMMA LeaveQueue ==
    ASSUME TypeInv, NEW a \in Actors
    PROVE  /\ Released(a) \in [Processes -> Seq(Actors)]
           /\ \A b \in Actors \ {a} : Holding(b) =>
                Released(a)[ProcessOf(b)] # <<>> /\ Head(Released(a)[ProcessOf(b)]) = b
<1>1. waiters \in [Processes -> Seq(Actors)] /\ ProcessOf(a) \in Processes
  BY Basics DEF TypeInv, TypeOK
<1>2. CASE ~Holding(a)
  BY <1>1, <1>2, Basics DEF TypeInv, LockOK, Released
<1>3. CASE Holding(a)
  <2>1. waiters[ProcessOf(a)] # <<>> /\ Head(waiters[ProcessOf(a)]) = a
    BY <1>3 DEF TypeInv, LockOK
  <2>2. Tail(waiters[ProcessOf(a)]) \in Seq(Actors)
    BY <1>1, <2>1, QueueFacts
  <2>3. \A b \in Actors \ {a} : Holding(b) => ProcessOf(b) # ProcessOf(a)
    BY <2>1 DEF TypeInv, LockOK
  <2>4. QED BY <1>1, <1>3, <2>2, <2>3, Basics DEF TypeInv, LockOK, Released
<1>4. QED BY <1>2, <1>3

(* Only one actor of a process works under the lock. *)
LEMMA OneHolder ==
    ASSUME TypeInv, NEW a \in Actors, NEW b \in Actors, Holding(a), Holding(b),
           ProcessOf(a) = ProcessOf(b)
    PROVE  a = b
BY DEF TypeInv, LockOK

(* What one actor's move has to do for the types and for what the states   *)
(* remember.                                                               *)
LEMMA OpStep ==
    ASSUME TypeInv, NEW a \in Actors, NEW o \in Operation,
           op' = [op EXCEPT ![a] = o], clock' = clock,
           a \in Processes => o.pc \in {"idle", "queued", "fetch", "persist"},
           o.pc # "idle" => o.now \in 1..clock,
           o.pc \in {"persist", "averages", "share", "warm"} => o.seen \in Snapshot
    PROVE  /\ op' \in [Actors -> Operation] /\ OpOK'
           /\ op'[a] = o /\ \A b \in Actors \ {a} : op'[b] = op[b]
<1>1. op \in [Actors -> Operation] /\ OpOK
  BY DEF TypeInv, TypeOK
<1>2. op' \in [Actors -> Operation] /\ op'[a] = o /\ \A b \in Actors \ {a} : op'[b] = op[b]
  BY <1>1
<1>3. OpOK'
  <2> SUFFICES ASSUME NEW b \in Actors
               PROVE  /\ b \in Processes => op'[b].pc \in {"idle", "queued", "fetch", "persist"}
                      /\ op'[b].pc # "idle" => op'[b].now \in 1..clock'
                      /\ op'[b].pc \in {"persist", "averages", "share", "warm"} => op'[b].seen \in Snapshot
    BY DEF OpOK
  <2>1. CASE b = a
    BY <1>2, <2>1
  <2>2. CASE b # a
    BY <1>1, <1>2, <2>2 DEF OpOK
  <2>3. QED BY <2>1, <2>2
<1>4. QED BY <1>2, <1>3

(* And for the lock: one that takes it is the head, others join or leave.  *)
LEMMA LockStep ==
    ASSUME TypeInv, NEW a \in Actors, \A b \in Actors \ {a} : op'[b] = op[b],
           \/ waiters' = waiters /\ (Holding(a)' =>
                waiters[ProcessOf(a)] # <<>> /\ Head(waiters[ProcessOf(a)]) = a)
           \/ waiters' = Enqueued(a) /\ ~Holding(a)'
           \/ waiters' = Released(a) /\ ~Holding(a)'
    PROVE  waiters' \in [Processes -> Seq(Actors)] /\ LockOK'
<1>1. waiters' \in [Processes -> Seq(Actors)]
  <2>1. waiters \in [Processes -> Seq(Actors)]
    BY DEF TypeInv, TypeOK
  <2>2. Enqueued(a) \in [Processes -> Seq(Actors)]
    BY JoinQueue
  <2>3. Released(a) \in [Processes -> Seq(Actors)]
    BY LeaveQueue
  <2>4. QED BY <2>1, <2>2, <2>3
<1>2. ASSUME NEW b \in Actors, Holding(b)'
      PROVE  waiters'[ProcessOf(b)] # <<>> /\ Head(waiters'[ProcessOf(b)]) = b
  <2>1. CASE b = a
    BY <1>2, <2>1
  <2>2. CASE b # a
    <3>1. Holding(b)
      BY <1>2, <2>2 DEF Holding
    <3>2. CASE waiters' = waiters
      BY <3>1, <3>2 DEF TypeInv, LockOK
    <3>3. CASE waiters' = Enqueued(a)
      <4>1. Enqueued(a)[ProcessOf(b)] # <<>> /\ Head(Enqueued(a)[ProcessOf(b)]) = b
        BY <3>1, JoinQueue
      <4>2. QED BY <3>3, <4>1
    <3>4. CASE waiters' = Released(a)
      <4>1. b \in Actors \ {a}
        BY <2>2
      <4>2. Released(a)[ProcessOf(b)] # <<>> /\ Head(Released(a)[ProcessOf(b)]) = b
        BY <3>1, <4>1, LeaveQueue
      <4>3. QED BY <3>4, <4>2
    <3>5. QED BY <3>2, <3>3, <3>4
  <2>3. QED BY <2>1, <2>2
<1>3. LockOK'
  BY <1>2 DEF LockOK, ProcessOf
<1>4. QED BY <1>1, <1>3

(* Every step keeps types, what each state remembers, and the lock.        *)
LEMMA NextType == TypeInv /\ [Next]_vars => TypeInv'
<1> SUFFICES ASSUME TypeInv, [Next]_vars PROVE TypeInv'
  OBVIOUS
<1>t. TypeOK /\ OpOK /\ LockOK /\ clock \in Nat
  BY DEF TypeInv, TypeOK, Times
<1>c. clock \in 0..MaxTime /\ clock \in 1..clock /\ stored \in Snapshot \cup {NoSnapshot}
  BY <1>t DEF TypeOK, Times
<1>o. \A a \in Actors : op[a] \in Operation
  BY <1>t DEF TypeOK
<1>k. ASSUME NEW a \in Actors
      PROVE  /\ a \in Processes => op[a].pc \in {"idle", "queued", "fetch", "persist"}
             /\ op[a].pc # "idle" => op[a].now \in 1..clock
             /\ op[a].pc \in {"persist", "averages", "share", "warm"} => op[a].seen \in Snapshot
  BY <1>t DEF OpOK
<1>1. ASSUME NEW p \in Processes, Wake(p) PROVE TypeInv'
  <2> DEFINE o == [Resting EXCEPT !.pc = "queued", !.now = clock]
  <2>1. op' = [op EXCEPT ![p] = o]
    BY <1>t, <1>1, Basics DEF Wake, TypeOK
  <2>r. o \in Operation /\ o.pc = "queued" /\ o.now = clock
        /\ o.seen = NoSnapshot
    BY <1>c, <1>o, Basics DEF Operation
  <2> HIDE DEF o
  <2>2. /\ o \in Operation
        /\ p \in Processes => o.pc \in {"idle", "queued", "fetch", "persist"}
        /\ o.pc # "idle" => o.now \in 1..clock
        /\ o.pc \in {"persist", "averages", "share", "warm"} => o.seen \in Snapshot
    BY <1>1, <1>c, <1>k, <2>r, Basics DEF Wake
  <2>c. p \in Actors /\ clock' = clock
    BY <1>1, Basics DEF Wake
  <2>3. op' \in [Actors -> Operation] /\ OpOK' /\ op'[p] = o /\ \A b \in Actors \ {p} : op'[b] = op[b]
    BY <2>c, <2>1, <2>2, OpStep
  <2>4. waiters' \in [Processes -> Seq(Actors)] /\ LockOK'
    BY <1>t, <1>1, <2>r, <2>3, Basics, LockStep DEF Wake, Holding
  <2>5. TypeOK'
    BY <1>t, <1>1, <2>3, <2>4 DEF Wake, TypeOK, caches, tables
  <2>6. QED BY <2>3, <2>4, <2>5 DEF TypeInv
<1>2. ASSUME NEW a \in Actors, Acquire(a) PROVE TypeInv'
  <2> DEFINE o == [op[a] EXCEPT !.pc = IF a \in Requests THEN "recheck" ELSE "fetch", !.now = clock]
  <2>1. op' = [op EXCEPT ![a] = o]
    BY <1>t, <1>2, Basics DEF Acquire, TypeOK
  <2>r. o \in Operation /\ o.pc = (IF a \in Requests THEN "recheck" ELSE "fetch") /\ o.now = clock
        /\ o.seen = op[a].seen
    BY <1>c, <1>o, Basics DEF Operation
  <2> HIDE DEF o
  <2>2. /\ o \in Operation
        /\ a \in Processes => o.pc \in {"idle", "queued", "fetch", "persist"}
        /\ o.pc # "idle" => o.now \in 1..clock
        /\ o.pc \in {"persist", "averages", "share", "warm"} => o.seen \in Snapshot
    BY <1>2, <1>c, <1>k, <2>r, Basics DEF Acquire
  <2>c. a \in Actors /\ clock' = clock
    BY <1>2, Basics DEF Acquire
  <2>3. op' \in [Actors -> Operation] /\ OpOK' /\ op'[a] = o /\ \A b \in Actors \ {a} : op'[b] = op[b]
    BY <2>c, <2>1, <2>2, OpStep
  <2>4. waiters' \in [Processes -> Seq(Actors)] /\ LockOK'
    BY <1>t, <1>2, <2>r, <2>3, Basics, LockStep DEF Acquire, Holding, LockOK
  <2>5. TypeOK'
    BY <1>t, <1>2, <2>3, <2>4 DEF Acquire, TypeOK, caches, tables
  <2>6. QED BY <2>3, <2>4, <2>5 DEF TypeInv
<1>3. ASSUME NEW r \in Requests, ReadShared(r) PROVE TypeInv'
  <2> DEFINE o == [pc |-> "warm", now |-> clock, seen |-> redis.snap, stale |-> redis.stale]
  <2>s. redis \in Entry
    BY <1>t, <1>3, Basics DEF ReadShared, TypeOK, Live
  <2>1. op' = [op EXCEPT ![r] = o]
    BY <1>t, <1>3, Basics DEF ReadShared, TypeOK
  <2>r. o \in Operation /\ o.pc = "warm" /\ o.now = clock /\ o.seen \in Snapshot
    BY <1>c, <2>s, Basics DEF Operation, Entry
  <2> HIDE DEF o
  <2>2. /\ o \in Operation
        /\ r \in Processes => o.pc \in {"idle", "queued", "fetch", "persist"}
        /\ o.pc # "idle" => o.now \in 1..clock
        /\ o.pc \in {"persist", "averages", "share", "warm"} => o.seen \in Snapshot
    BY <1>c, <2>r, Basics
  <2>c. r \in Actors /\ clock' = clock
    BY <1>3, Basics DEF ReadShared
  <2>3. op' \in [Actors -> Operation] /\ OpOK' /\ op'[r] = o /\ \A b \in Actors \ {r} : op'[b] = op[b]
    BY <2>c, <2>1, <2>2, OpStep
  <2>4. waiters' \in [Processes -> Seq(Actors)] /\ LockOK'
    BY <1>t, <1>3, <2>c, <2>r, <2>3, Basics, LockStep DEF ReadShared, Holding
  <2>5. TypeOK'
    BY <1>t, <1>3, <2>3, <2>4 DEF ReadShared, TypeOK, caches, tables
  <2>6. QED BY <2>3, <2>4, <2>5 DEF TypeInv
<1>w. ASSUME NEW r \in Requests, WarmLocal(r) PROVE TypeInv'
  <2> DEFINE o == Resting
  <2>s. Cached(r, LocalTtl) \in Entry
    <3>1. clock + LocalTtl \in 2..(MaxTime + LocalTtl + RedisTtl)
      BY <1>t, Basics DEF TypeOK, Times
    <3>2. op[r].seen \in Snapshot /\ op[r].stale \in BOOLEAN
      BY <1>w, <1>k, <1>o, Basics DEF WarmLocal, Operation
    <3>3. QED BY <3>1, <3>2 DEF Cached, Entry
  <2>1. op' = [op EXCEPT ![r] = o]
    BY <1>t, <1>w, Basics DEF WarmLocal, TypeOK
  <2>r. o \in Operation /\ o.pc = "idle" /\ o.now = 0
        /\ o.seen = NoSnapshot
    BY <1>c, <1>o, Basics DEF Operation, Resting
  <2> HIDE DEF o
  <2>2. /\ o \in Operation
        /\ r \in Processes => o.pc \in {"idle", "queued", "fetch", "persist"}
        /\ o.pc # "idle" => o.now \in 1..clock
        /\ o.pc \in {"persist", "averages", "share", "warm"} => o.seen \in Snapshot
    BY <1>w, <1>c, <1>k, <2>r, Basics DEF WarmLocal
  <2>c. r \in Actors /\ clock' = clock
    BY <1>w, Basics DEF WarmLocal
  <2>3. op' \in [Actors -> Operation] /\ OpOK' /\ op'[r] = o /\ \A b \in Actors \ {r} : op'[b] = op[b]
    BY <2>c, <2>1, <2>2, OpStep
  <2>4. waiters' \in [Processes -> Seq(Actors)] /\ LockOK'
    BY <1>t, <1>w, <2>r, <2>3, Basics, LockStep DEF WarmLocal, Holding, LockOK
  <2>5. TypeOK'
    BY <1>t, <1>w, <2>3, <2>4, <2>s DEF WarmLocal, TypeOK, tables
  <2>6. QED BY <2>3, <2>4, <2>5 DEF TypeInv
<1>4. ASSUME NEW r \in Requests, RequestMisses(r) PROVE TypeInv'
  <2> DEFINE o == [Resting EXCEPT !.pc = "read", !.now = clock]
  <2>1. op' = [op EXCEPT ![r] = o]
    BY <1>t, <1>4, Basics DEF RequestMisses, TypeOK
  <2>r. o \in Operation /\ o.pc = "read" /\ o.now = clock
        /\ o.seen = NoSnapshot
    BY <1>c, <1>o, Basics DEF Operation
  <2> HIDE DEF o
  <2>2. /\ o \in Operation
        /\ r \in Processes => o.pc \in {"idle", "queued", "fetch", "persist"}
        /\ o.pc # "idle" => o.now \in 1..clock
        /\ o.pc \in {"persist", "averages", "share", "warm"} => o.seen \in Snapshot
    BY <1>4, <1>c, <1>k, <2>r, Basics DEF RequestMisses
  <2>c. r \in Actors /\ clock' = clock
    BY <1>4, Basics DEF RequestMisses
  <2>3. op' \in [Actors -> Operation] /\ OpOK' /\ op'[r] = o /\ \A b \in Actors \ {r} : op'[b] = op[b]
    BY <2>c, <2>1, <2>2, OpStep
  <2>4. waiters' \in [Processes -> Seq(Actors)] /\ LockOK'
    BY <1>t, <1>4, <2>r, <2>3, Basics, LockStep DEF RequestMisses, Holding
  <2>5. TypeOK'
    BY <1>t, <1>4, <2>3, <2>4 DEF RequestMisses, TypeOK, caches, tables
  <2>6. QED BY <2>3, <2>4, <2>5 DEF TypeInv
<1>5. ASSUME NEW r \in Requests, ReadStored(r) PROVE TypeInv'
  <2> DEFINE o == IF ServedAtOnce(r)
                 THEN [op[r] EXCEPT !.pc = "averages", !.seen = stored,
                                    !.stale = ~Fresh(stored, op[r].now)]
                 ELSE [op[r] EXCEPT !.pc = "queued", !.seen = stored]
  <2>s. ServedAtOnce(r) => stored \in Snapshot
    BY <1>t DEF ServedAtOnce, Fresh, Servable, TypeOK
  <2>1. op' = [op EXCEPT ![r] = o]
    BY <1>t, <1>5, <2>s, Basics DEF ReadStored, TypeOK
  <2>r. o \in Operation /\ o.pc = (IF ServedAtOnce(r) THEN "averages" ELSE "queued") /\ o.now = op[r].now
        /\ o.seen = stored
    BY <1>c, <1>o, <2>s, Basics DEF Operation
  <2> HIDE DEF o
  <2>2. /\ o \in Operation
        /\ r \in Processes => o.pc \in {"idle", "queued", "fetch", "persist"}
        /\ o.pc # "idle" => o.now \in 1..clock
        /\ o.pc \in {"persist", "averages", "share", "warm"} => o.seen \in Snapshot
    BY <1>5, <1>c, <1>k, <2>r, <2>s, Basics DEF ReadStored
  <2>c. r \in Actors /\ clock' = clock
    BY <1>5, Basics DEF ReadStored
  <2>3. op' \in [Actors -> Operation] /\ OpOK' /\ op'[r] = o /\ \A b \in Actors \ {r} : op'[b] = op[b]
    BY <2>c, <2>1, <2>2, OpStep
  <2>4. waiters' \in [Processes -> Seq(Actors)] /\ LockOK'
    BY <1>t, <1>5, <2>s, <2>r, <2>3, Basics, LockStep DEF ReadStored, Holding
  <2>5. TypeOK'
    BY <1>t, <1>5, <2>3, <2>4 DEF ReadStored, TypeOK, caches, tables
  <2>6. QED BY <2>3, <2>4, <2>5 DEF TypeInv
<1>6. ASSUME NEW r \in Requests, Recheck(r) PROVE TypeInv'
  <2> DEFINE o == IF RecheckServes(r)
                 THEN [op[r] EXCEPT !.pc = "averages", !.seen = stored]
                 ELSE [op[r] EXCEPT !.pc = "fetch",
                                    !.seen = IF stored # NoSnapshot THEN stored ELSE @]
  <2>s. RecheckServes(r) => stored \in Snapshot
    BY <1>t DEF RecheckServes, Fresh, TypeOK
  <2>1. op' = [op EXCEPT ![r] = o]
    BY <1>t, <1>6, <2>s, Basics DEF Recheck, TypeOK
  <2>r. o \in Operation /\ o.pc = (IF RecheckServes(r) THEN "averages" ELSE "fetch") /\ o.now = op[r].now
        /\ o.seen = (IF stored # NoSnapshot THEN stored ELSE op[r].seen)
    BY <1>c, <1>o, <2>s, Basics DEF Operation, RecheckServes, Fresh
  <2> HIDE DEF o
  <2>2. /\ o \in Operation
        /\ r \in Processes => o.pc \in {"idle", "queued", "fetch", "persist"}
        /\ o.pc # "idle" => o.now \in 1..clock
        /\ o.pc \in {"persist", "averages", "share", "warm"} => o.seen \in Snapshot
    BY <1>6, <1>c, <1>k, <2>r, <2>s, Basics DEF Recheck
  <2>c. r \in Actors /\ clock' = clock
    BY <1>6, Basics DEF Recheck
  <2>3. op' \in [Actors -> Operation] /\ OpOK' /\ op'[r] = o /\ \A b \in Actors \ {r} : op'[b] = op[b]
    BY <2>c, <2>1, <2>2, OpStep
  <2>4. waiters' \in [Processes -> Seq(Actors)] /\ LockOK'
    BY <1>t, <1>6, <2>s, <2>r, <2>3, Basics, LockStep DEF Recheck, Holding, LockOK
  <2>5. TypeOK'
    BY <1>t, <1>6, <2>3, <2>4 DEF Recheck, TypeOK, caches, tables
  <2>6. QED BY <2>3, <2>4, <2>5 DEF TypeInv
<1>7. ASSUME NEW a \in Actors, FetchDone(a) PROVE TypeInv'
  <2>u. PICK v \in Published(a) :
          op' = [op EXCEPT ![a].pc = "persist", ![a].seen = [version |-> v, gen |-> clock]]
    BY <1>7 DEF FetchDone
  <2>s. [version |-> v, gen |-> clock] \in Snapshot
    <3>1. op[a].now \in 1..clock
      BY <1>7, <1>k DEF FetchDone
    <3>2. v \in Times /\ clock \in Times
      BY <1>t, <3>1, Basics DEF Published, TypeOK, Times
    <3>3. QED BY <3>2 DEF Snapshot
  <2> DEFINE o == [op[a] EXCEPT !.pc = "persist", !.seen = [version |-> v, gen |-> clock]]
  <2>1. op' = [op EXCEPT ![a] = o]
    BY <1>t, <1>7, <2>u, <2>s, Basics DEF FetchDone, TypeOK
  <2>r. o \in Operation /\ o.pc = "persist" /\ o.now = op[a].now
        /\ o.seen = [version |-> v, gen |-> clock]
    BY <1>c, <1>o, <2>u, <2>s, Basics DEF Operation
  <2> HIDE DEF o
  <2>2. /\ o \in Operation
        /\ a \in Processes => o.pc \in {"idle", "queued", "fetch", "persist"}
        /\ o.pc # "idle" => o.now \in 1..clock
        /\ o.pc \in {"persist", "averages", "share", "warm"} => o.seen \in Snapshot
    BY <1>7, <1>c, <1>k, <2>r, <2>u, <2>s, Basics DEF FetchDone
  <2>c. a \in Actors /\ clock' = clock
    BY <1>7, Basics DEF FetchDone
  <2>3. op' \in [Actors -> Operation] /\ OpOK' /\ op'[a] = o /\ \A b \in Actors \ {a} : op'[b] = op[b]
    BY <2>c, <2>1, <2>2, OpStep
  <2>4. waiters' \in [Processes -> Seq(Actors)] /\ LockOK'
    BY <1>t, <1>7, <2>u, <2>s, <2>r, <2>3, Basics, LockStep DEF FetchDone, Holding, LockOK
  <2>5. TypeOK'
    BY <1>t, <1>7, <2>3, <2>4 DEF FetchDone, TypeOK, caches, tables
  <2>6. QED BY <2>3, <2>4, <2>5 DEF TypeInv
<1>8. ASSUME NEW r \in Requests, FetchFails(r) PROVE TypeInv'
  <2> DEFINE o == [op[r] EXCEPT !.pc = "averages", !.stale = TRUE]
  <2>s. op[r].seen \in Snapshot
    BY <1>t, <1>8, Basics DEF FetchFails, Servable, TypeOK, Operation
  <2>1. op' = [op EXCEPT ![r] = o]
    BY <1>t, <1>8, <2>s, Basics DEF FetchFails, TypeOK
  <2>r. o \in Operation /\ o.pc = "averages" /\ o.now = op[r].now
        /\ o.seen = op[r].seen
    BY <1>c, <1>o, <2>s, Basics DEF Operation
  <2> HIDE DEF o
  <2>2. /\ o \in Operation
        /\ r \in Processes => o.pc \in {"idle", "queued", "fetch", "persist"}
        /\ o.pc # "idle" => o.now \in 1..clock
        /\ o.pc \in {"persist", "averages", "share", "warm"} => o.seen \in Snapshot
    BY <1>8, <1>c, <1>k, <2>r, <2>s, Basics DEF FetchFails
  <2>c. r \in Actors /\ clock' = clock
    BY <1>8, Basics DEF FetchFails
  <2>3. op' \in [Actors -> Operation] /\ OpOK' /\ op'[r] = o /\ \A b \in Actors \ {r} : op'[b] = op[b]
    BY <2>c, <2>1, <2>2, OpStep
  <2>4. waiters' \in [Processes -> Seq(Actors)] /\ LockOK'
    BY <1>t, <1>8, <2>s, <2>r, <2>3, Basics, LockStep DEF FetchFails, Holding
  <2>5. TypeOK'
    BY <1>t, <1>8, <2>3, <2>4 DEF FetchFails, TypeOK, caches, tables
  <2>6. QED BY <2>3, <2>4, <2>5 DEF TypeInv
<1>9. ASSUME NEW a \in Actors, Persist(a) PROVE TypeInv'
  <2> DEFINE o == IF a \in Requests THEN [op[a] EXCEPT !.pc = "averages"] ELSE Resting
  <2> DEFINE s == op[a].seen
  <2>s. s \in Snapshot /\ s.version \in Times
    BY <1>t, <1>9 DEF Persist, OpOK, Snapshot
  <2>d. processed' \subseteq Times /\ counted' \subseteq Times
    BY <1>t, <1>9, <2>s DEF Persist, TypeOK, ProcessedAfter
  <2>e. samples' \in [Days -> Nat]
    <3>1. [d \in Days |-> IF d < PruneBefore(s.version) THEN 0
                         ELSE IF d = Day(s.version) THEN samples[d] + 1 ELSE samples[d]] \in [Days -> Nat]
      BY <1>t DEF TypeOK
    <3>2. QED BY <1>t, <1>9, <3>1 DEF Persist, SamplesAfter, TypeOK
  <2>f. inline' \in [Processes -> BOOLEAN] /\ writer' \in Processes /\ stored' \in Snapshot
    BY <1>t, <1>9, <2>s, Basics DEF Persist, InlineAfter, TypeOK
  <2>1. op' = [op EXCEPT ![a] = o]
    BY <1>t, <1>9, Basics DEF Persist, TypeOK
  <2>r. o \in Operation /\ o.pc = (IF a \in Requests THEN "averages" ELSE "idle") /\ o.now = (IF a \in Requests THEN op[a].now ELSE 0)
        /\ o.seen = (IF a \in Requests THEN op[a].seen ELSE NoSnapshot)
    BY <1>c, <1>o, Basics DEF Operation, Resting
  <2> HIDE DEF o
  <2>2. /\ o \in Operation
        /\ a \in Processes => o.pc \in {"idle", "queued", "fetch", "persist"}
        /\ o.pc # "idle" => o.now \in 1..clock
        /\ o.pc \in {"persist", "averages", "share", "warm"} => o.seen \in Snapshot
    BY <1>9, <1>c, <1>k, <2>r, Basics DEF Persist
  <2>c. a \in Actors /\ clock' = clock
    BY <1>9, Basics DEF Persist
  <2>3. op' \in [Actors -> Operation] /\ OpOK' /\ op'[a] = o /\ \A b \in Actors \ {a} : op'[b] = op[b]
    BY <2>c, <2>1, <2>2, OpStep
  <2>4. waiters' \in [Processes -> Seq(Actors)] /\ LockOK'
    BY <1>t, <1>9, <2>r, <2>3, Basics, LockStep DEF Persist, Holding
  <2>5. TypeOK'
    BY <1>t, <1>9, <2>3, <2>4, <2>d, <2>e, <2>f DEF Persist, TypeOK, caches
  <2>6. QED BY <2>3, <2>4, <2>5 DEF TypeInv
<1>10. ASSUME NEW a \in Actors, Raises(a) PROVE TypeInv'
  <2> DEFINE o == Resting
  <2>1. op' = [op EXCEPT ![a] = o]
    BY <1>t, <1>10, Basics DEF Raises, TypeOK
  <2>r. o \in Operation /\ o.pc = "idle" /\ o.now = 0
        /\ o.seen = NoSnapshot
    BY <1>c, <1>o, Basics DEF Operation, Resting
  <2> HIDE DEF o
  <2>2. /\ o \in Operation
        /\ a \in Processes => o.pc \in {"idle", "queued", "fetch", "persist"}
        /\ o.pc # "idle" => o.now \in 1..clock
        /\ o.pc \in {"persist", "averages", "share", "warm"} => o.seen \in Snapshot
    BY <1>10, <1>c, <1>k, <2>r, Basics DEF Raises
  <2>c. a \in Actors /\ clock' = clock
    BY <1>10, Basics DEF Raises
  <2>3. op' \in [Actors -> Operation] /\ OpOK' /\ op'[a] = o /\ \A b \in Actors \ {a} : op'[b] = op[b]
    BY <2>c, <2>1, <2>2, OpStep
  <2>4. waiters' \in [Processes -> Seq(Actors)] /\ LockOK'
    BY <1>t, <1>10, <2>r, <2>3, Basics, LockStep DEF Raises, Holding
  <2>5. TypeOK'
    BY <1>t, <1>10, <2>3, <2>4 DEF Raises, TypeOK, caches, tables
  <2>6. QED BY <2>3, <2>4, <2>5 DEF TypeInv
<1>11. ASSUME NEW r \in Requests, FillLocal(r) PROVE TypeInv'
  <2> DEFINE o == [op[r] EXCEPT !.pc = "share"]
  <2>s. Cached(r, LocalTtl) \in Entry
    <3>1. clock + LocalTtl \in 2..(MaxTime + LocalTtl + RedisTtl)
      BY <1>t, Basics DEF TypeOK, Times
    <3>2. op[r].seen \in Snapshot /\ op[r].stale \in BOOLEAN
      BY <1>11, <1>k, <1>o, Basics DEF FillLocal, Operation
    <3>3. QED BY <3>1, <3>2 DEF Cached, Entry
  <2>1. op' = [op EXCEPT ![r] = o]
    BY <1>t, <1>11, Basics DEF FillLocal, TypeOK
  <2>r. o \in Operation /\ o.pc = "share" /\ o.now = op[r].now
        /\ o.seen = op[r].seen
    BY <1>c, <1>o, Basics DEF Operation
  <2> HIDE DEF o
  <2>2. /\ o \in Operation
        /\ r \in Processes => o.pc \in {"idle", "queued", "fetch", "persist"}
        /\ o.pc # "idle" => o.now \in 1..clock
        /\ o.pc \in {"persist", "averages", "share", "warm"} => o.seen \in Snapshot
    BY <1>11, <1>c, <1>k, <2>r, Basics DEF FillLocal
  <2>c. r \in Actors /\ clock' = clock
    BY <1>11, Basics DEF FillLocal
  <2>3. op' \in [Actors -> Operation] /\ OpOK' /\ op'[r] = o /\ \A b \in Actors \ {r} : op'[b] = op[b]
    BY <2>c, <2>1, <2>2, OpStep
  <2>4. waiters' \in [Processes -> Seq(Actors)] /\ LockOK'
    BY <1>t, <1>11, <2>r, <2>3, Basics, LockStep DEF FillLocal, Holding, LockOK
  <2>5. TypeOK'
    BY <1>t, <1>11, <2>3, <2>4, <2>s DEF FillLocal, TypeOK, tables
  <2>6. QED BY <2>3, <2>4, <2>5 DEF TypeInv
<1>12. ASSUME NEW r \in Requests, FillRedis(r) PROVE TypeInv'
  <2> DEFINE o == Resting
  <2>s. Cached(r, RedisTtl) \in Entry
    <3>1. clock + RedisTtl \in 2..(MaxTime + LocalTtl + RedisTtl)
      BY <1>t, Basics DEF TypeOK, Times
    <3>2. op[r].seen \in Snapshot /\ op[r].stale \in BOOLEAN
      BY <1>12, <1>k, <1>o, Basics DEF FillRedis, Operation
    <3>3. QED BY <3>1, <3>2 DEF Cached, Entry
  <2>1. op' = [op EXCEPT ![r] = o]
    BY <1>t, <1>12, Basics DEF FillRedis, TypeOK
  <2>r. o \in Operation /\ o.pc = "idle" /\ o.now = 0
        /\ o.seen = NoSnapshot
    BY <1>c, <1>o, Basics DEF Operation, Resting
  <2> HIDE DEF o
  <2>2. /\ o \in Operation
        /\ r \in Processes => o.pc \in {"idle", "queued", "fetch", "persist"}
        /\ o.pc # "idle" => o.now \in 1..clock
        /\ o.pc \in {"persist", "averages", "share", "warm"} => o.seen \in Snapshot
    BY <1>12, <1>c, <1>k, <2>r, Basics DEF FillRedis
  <2>c. r \in Actors /\ clock' = clock
    BY <1>12, Basics DEF FillRedis
  <2>3. op' \in [Actors -> Operation] /\ OpOK' /\ op'[r] = o /\ \A b \in Actors \ {r} : op'[b] = op[b]
    BY <2>c, <2>1, <2>2, OpStep
  <2>4. waiters' \in [Processes -> Seq(Actors)] /\ LockOK'
    BY <1>t, <1>12, <2>r, <2>3, Basics, LockStep DEF FillRedis, Holding, LockOK
  <2>5. TypeOK'
    BY <1>t, <1>12, <2>3, <2>4, <2>s DEF FillRedis, TypeOK, tables
  <2>6. QED BY <2>3, <2>4, <2>5 DEF TypeInv
<1>13. CASE Evict
  <2>1. TypeOK' /\ OpOK'
    BY <1>t, <1>13 DEF Evict, TypeOK, OpOK, tables
  <2>2. LockOK'
    BY <1>t, <1>13 DEF Evict, LockOK, Holding
  <2>3. QED BY <2>1, <2>2 DEF TypeInv
<1>14. ASSUME NEW p \in Processes, Restart(p) PROVE TypeInv'
  <2>1. <<>> \in Seq(Actors)
    OBVIOUS
  <2>2. TypeOK' /\ OpOK'
    BY <1>t, <1>14, <2>1, Basics DEF Restart, TypeOK, OpOK, tables
  <2>3. LockOK'
    BY <1>t, <1>14, Basics DEF Restart, TypeOK, LockOK, Holding
  <2>4. QED BY <2>2, <2>3 DEF TypeInv
<1>15. CASE Tick
  <2>1. clock' \in Times
    BY <1>t, <1>15, Basics DEF Tick, TypeOK, Times
  <2>2. TypeOK'
    BY <1>t, <1>15, <2>1 DEF Tick, TypeOK, Unexpired, tables
  <2>3. OpOK' /\ LockOK'
    BY <1>t, <1>15, Basics DEF Tick, OpOK, LockOK, Holding
  <2>4. QED BY <2>2, <2>3 DEF TypeInv
<1>16. CASE UNCHANGED vars
  BY <1>16 DEF vars, tables, caches, TypeInv, TypeOK, OpOK, LockOK, Holding
<1>17. QED
  BY <1>1, <1>2, <1>3, <1>4, <1>5, <1>6, <1>7, <1>8, <1>9, <1>10, <1>11, <1>12, <1>13, <1>14,
     <1>15, <1>16, <1>w DEF Next, Refresh, Serve

(* Type correctness: the tables, the caches and what each operation        *)
(* remembers keep their types, for any number of processes and requests.   *)
THEOREM MarketTypes == Spec => []TypeInv
BY InitType, NextType, PTL DEF Spec

-----------------------------------------------------------------------------
(* The ledger and the daily sample counts.                                 *)

(* A version belongs to a day of the range. *)
LEMMA DayOfVersion ==
    ASSUME NEW v \in Times
    PROVE  Day(v) \in Days /\ Day(v) \in Nat /\ PruneBefore(v) \in Int /\ PruneBefore(v) <= Day(v)
<1>1. v \in Nat /\ v <= MaxTime /\ MaxTime \in Nat /\ Retention \in Nat \ {0}
  BY Basics DEF Times
<1>2. Day(v) \in Nat /\ Day(MaxTime) \in Nat /\ Day(v) <= Day(MaxTime)
  BY <1>1, DayOrder
<1>3. QED BY <1>1, <1>2 DEF Days, PruneBefore

(* The versions of a day in the ledger. *)
OfDay(d) == {v \in processed : Day(v) = d}

(* Counting one new version and pruning leaves the counts exact. *)
LEMMA CountedOnce ==
    ASSUME TypeOK, LedgerExact, NEW v \in Times, NEW d \in Days,
           processed' = ProcessedAfter(v), samples' = SamplesAfter(v)
    PROVE  samples'[d] = Cardinality(OfDay(d)')
<1>1. samples[d] = Cardinality(OfDay(d)) /\ d \in Int
  BY DEF LedgerExact, OfDay, Days
<1>2. \A u \in Times : Day(u) \in Nat /\ PruneBefore(u) \in Int /\ PruneBefore(u) <= Day(u)
  BY DayOfVersion
<1>3. CASE v \in processed
  BY <1>1, <1>3 DEF ProcessedAfter, SamplesAfter, OfDay
<1>4. CASE v \notin processed
  <2>1. processed' = {u \in processed \cup {v} : Day(u) >= PruneBefore(v)}
    BY <1>4 DEF ProcessedAfter
  <2>2. samples'[d] = IF d < PruneBefore(v) THEN 0
                      ELSE IF d = Day(v) THEN samples[d] + 1 ELSE samples[d]
    BY <1>4 DEF SamplesAfter
  <2>3. CASE d < PruneBefore(v)
    <3>1. OfDay(d)' = {}
      BY <1>1, <1>2, <2>1, <2>3 DEF OfDay
    <3>2. QED BY <2>2, <2>3, <3>1, FS_EmptySet
  <2>4. CASE d >= PruneBefore(v) /\ d # Day(v)
    <3>1. OfDay(d)' = OfDay(d)
      BY <1>1, <1>2, <2>1, <2>4 DEF OfDay
    <3>2. QED BY <1>1, <1>2, <2>2, <2>4, <3>1
  <2>5. CASE d >= PruneBefore(v) /\ d = Day(v)
    <3>1. OfDay(d)' = OfDay(d) \cup {v} /\ v \notin OfDay(d)
      BY <1>1, <1>2, <1>4, <2>1, <2>5 DEF OfDay
    <3>2. IsFiniteSet(OfDay(d))
      <4>1. IsFiniteSet(Times)
        BY Basics, FS_Interval DEF Times
      <4>2. OfDay(d) \subseteq Times
        BY DEF TypeOK, OfDay
      <4>3. QED BY <4>1, <4>2, FS_Subset
    <3>3. Cardinality(OfDay(d)') = Cardinality(OfDay(d)) + 1
      BY <3>1, <3>2, FS_AddElement
    <3>4. QED BY <1>1, <1>2, <2>2, <2>5, <3>3
  <2>6. QED BY <1>1, <1>2, <2>3, <2>4, <2>5
<1>5. QED BY <1>3, <1>4

\* Only a transaction changes the tables.
LEMMA PersistOrNot ==
    ASSUME TypeInv, [Next]_vars
    PROVE  UNCHANGED tables \/ \E a \in Actors : Persist(a)
<1>1. ASSUME NEW a \in Actors, Refresh(a), ~Persist(a) PROVE UNCHANGED tables
  BY <1>1 DEF Refresh, Acquire, FetchDone, Raises
<1>2. ASSUME NEW r \in Requests, Serve(r) PROVE UNCHANGED tables
  BY <1>2 DEF Serve, ReadShared, WarmLocal, RequestMisses, ReadStored, Recheck, FetchFails,
              FillLocal, FillRedis
<1>3. ASSUME NEW p \in Processes, Wake(p) \/ Restart(p) PROVE UNCHANGED tables
  BY <1>3 DEF Wake, Restart
<1>4. CASE Tick \/ Evict \/ UNCHANGED vars
  BY <1>4 DEF Tick, Evict, vars
<1>5. QED BY <1>1, <1>2, <1>3, <1>4 DEF Next, Refresh

(* A transaction stores what the actor that runs it has fetched, and       *)
(* counts it.                                                              *)
LEMMA OnlyPersist ==
    ASSUME TypeInv, [Next]_vars
    PROVE  \/ UNCHANGED tables
           \/ \E a \in Actors :
                /\ op[a].pc = "persist" /\ op[a].seen \in Snapshot
                /\ op[a].seen.version \in Times /\ op[a].seen.gen \in Times
                /\ clock' = clock
                /\ stored' = op[a].seen /\ writer' = ProcessOf(a)
                /\ processed' = ProcessedAfter(op[a].seen.version)
                /\ samples' = SamplesAfter(op[a].seen.version)
                /\ counted' = counted \cup {op[a].seen.version}
<1>1. ASSUME NEW a \in Actors, Persist(a)
      PROVE  /\ op[a].pc = "persist" /\ op[a].seen \in Snapshot
             /\ op[a].seen.version \in Times /\ op[a].seen.gen \in Times
             /\ clock' = clock
             /\ stored' = op[a].seen /\ writer' = ProcessOf(a)
             /\ processed' = ProcessedAfter(op[a].seen.version)
             /\ samples' = SamplesAfter(op[a].seen.version)
             /\ counted' = counted \cup {op[a].seen.version}
  <2>1. op[a].pc = "persist" /\ op[a].seen \in Snapshot
    BY <1>1 DEF Persist, TypeInv, OpOK
  <2>2. QED BY <1>1, <2>1 DEF Persist, Snapshot
<1>2. QED BY <1>1, PersistOrNot

LEMMA LedgerStep == TypeInv /\ LedgerExact /\ [Next]_vars => LedgerExact'
<1> SUFFICES ASSUME TypeInv, LedgerExact, [Next]_vars PROVE LedgerExact'
  OBVIOUS
<1>1. CASE UNCHANGED tables
  BY <1>1 DEF tables, LedgerExact, Days
<1>2. ASSUME NEW v \in Times, processed' = ProcessedAfter(v), samples' = SamplesAfter(v)
      PROVE  LedgerExact'
  BY <1>2, CountedOnce DEF LedgerExact, OfDay, TypeInv, Days
<1>3. QED BY <1>1, <1>2, OnlyPersist

(* The aggregates never count a version twice and never drop one that the  *)
(* ledger still holds, whatever the processes repeat or interleave.        *)
THEOREM LedgerIsExact == Spec => []LedgerExact
<1>1. Init => LedgerExact
  BY FS_EmptySet DEF Init, LedgerExact
<1>2. QED BY <1>1, InitType, NextType, LedgerStep, PTL DEF Spec

-----------------------------------------------------------------------------
(* What a step does to one actor.                                          *)

Begins(b) ==
    /\ op[b].pc = "idle" /\ op'[b].pc \in {"read", "queued"}
    /\ op'[b].now = clock /\ op'[b].seen = NoSnapshot
Copies(b) ==
    /\ op[b].pc = "idle" /\ op'[b].pc = "warm" /\ op'[b].now = clock
    /\ Live(redis) /\ op'[b].seen = redis.snap /\ op'[b].stale = redis.stale
TakesLock(b) ==
    /\ op[b].pc = "queued" /\ op'[b].pc \in {"recheck", "fetch"}
    /\ op'[b].now = clock /\ op'[b].seen = op[b].seen
Goes(b) ==
    /\ op[b].pc \notin {"idle", "persist", "warm"} /\ op'[b].pc \notin {"idle", "persist", "warm"}
    /\ op'[b].now = op[b].now
    /\ op'[b].seen \in {op[b].seen, stored}
    /\ Holding(b)' => Holding(b)
Fetches(b) ==
    /\ op[b].pc = "fetch" /\ op'[b].pc = "persist"
    /\ op'[b].now = op[b].now
    /\ op'[b].seen.gen = clock /\ op'[b].seen.version \in op[b].now..clock
Commits(b) ==
    /\ op[b].pc = "persist" /\ op'[b].pc = "averages"
    /\ op'[b].now = op[b].now /\ op'[b].seen = op[b].seen
    /\ counted' = counted \cup {op[b].seen.version}

Moves(b) == Begins(b) \/ Copies(b) \/ TakesLock(b) \/ Goes(b) \/ Fetches(b) \/ Commits(b)

\* Nothing happens to it, it ends or is restarted, or it makes one of its moves.
StepOf(b) == op'[b] = op[b] \/ op'[b] = Resting \/ (clock' = clock /\ Moves(b))

(* Every step is one of these for every actor. *)
LEMMA ActorSteps == ASSUME TypeInv, [Next]_vars, NEW b \in Actors PROVE StepOf(b)
<1>t. op \in [Actors -> Operation] /\ \A a \in Actors : op[a] \in Operation
  BY DEF TypeInv, TypeOK
<1>1. ASSUME NEW p \in Processes, Wake(p) PROVE StepOf(b)
  <2>1. CASE b = p
    <3> DEFINE o == [Resting EXCEPT !.pc = "queued", !.now = clock]
    <3>1. o.pc = "queued" /\ o.now = clock /\ o.seen = NoSnapshot
      BY DEF Resting
    <3>2. op'[b] = o /\ op[b].pc = "idle" /\ clock' = clock
      BY <1>t, <1>1, <2>1, Basics DEF Wake
    <3>3. QED BY <3>1, <3>2 DEF StepOf, Moves, Begins
  <2>2. QED BY <1>t, <1>1, <2>1 DEF Wake, StepOf
<1>2. ASSUME NEW a \in Actors, Acquire(a) PROVE StepOf(b)
  <2>1. CASE b = a
    <3> DEFINE o == [op[a] EXCEPT !.pc = IF a \in Requests THEN "recheck" ELSE "fetch", !.now = clock]
    <3>1. o.pc \in {"recheck", "fetch"} /\ o.now = clock /\ o.seen = op[a].seen
      BY <1>t DEF Operation
    <3>2. op'[b] = o /\ op[b].pc = "queued" /\ clock' = clock
      BY <1>t, <1>2, <2>1 DEF Acquire
    <3> HIDE DEF o
    <3>3. QED BY <2>1, <3>1, <3>2 DEF StepOf, Moves, TakesLock
  <2>2. QED BY <1>t, <1>2, <2>1 DEF Acquire, StepOf
<1>3. ASSUME NEW r \in Requests, ReadShared(r) PROVE StepOf(b)
  <2>1. CASE b = r
    <3> DEFINE o == [pc |-> "warm", now |-> clock, seen |-> redis.snap, stale |-> redis.stale]
    <3>1. o.pc = "warm" /\ o.now = clock /\ o.seen = redis.snap /\ o.stale = redis.stale
      OBVIOUS
    <3>2. op'[b] = o /\ op[b].pc = "idle" /\ clock' = clock /\ Live(redis)
      BY <1>t, <1>3, <2>1, Basics DEF ReadShared
    <3> HIDE DEF o
    <3>3. QED BY <3>1, <3>2 DEF StepOf, Moves, Copies
  <2>2. QED BY <1>t, <1>3, <2>1 DEF ReadShared, StepOf
<1>w. ASSUME NEW r \in Requests, WarmLocal(r) PROVE StepOf(b)
  BY <1>t, <1>w DEF WarmLocal, StepOf
<1>4. ASSUME NEW r \in Requests, RequestMisses(r) PROVE StepOf(b)
  <2>1. CASE b = r
    <3> DEFINE o == [Resting EXCEPT !.pc = "read", !.now = clock]
    <3>1. o.pc = "read" /\ o.now = clock /\ o.seen = NoSnapshot
      BY DEF Resting
    <3>2. op'[b] = o /\ op[b].pc = "idle" /\ clock' = clock
      BY <1>t, <1>4, <2>1, Basics DEF RequestMisses
    <3>3. QED BY <3>1, <3>2 DEF StepOf, Moves, Begins
  <2>2. QED BY <1>t, <1>4, <2>1 DEF RequestMisses, StepOf
<1>5. ASSUME NEW r \in Requests, ReadStored(r) PROVE StepOf(b)
  <2>1. CASE b = r
    <3> DEFINE o == IF ServedAtOnce(r)
                    THEN [op[r] EXCEPT !.pc = "averages", !.seen = stored,
                                       !.stale = ~Fresh(stored, op[r].now)]
                    ELSE [op[r] EXCEPT !.pc = "queued", !.seen = stored]
    <3>1. o.pc \in {"averages", "queued"} /\ o.now = op[r].now /\ o.seen = stored
      BY <1>t, Basics DEF Operation
    <3>2. op'[b] = o /\ op[b].pc = "read" /\ clock' = clock
      BY <1>t, <1>5, <2>1, Basics DEF ReadStored
    <3> HIDE DEF o
    <3>3. QED BY <2>1, <3>1, <3>2 DEF StepOf, Moves, Goes, Holding
  <2>2. QED BY <1>t, <1>5, <2>1 DEF ReadStored, StepOf
<1>6. ASSUME NEW r \in Requests, Recheck(r) PROVE StepOf(b)
  <2>1. CASE b = r
    <3> DEFINE o == IF RecheckServes(r)
                    THEN [op[r] EXCEPT !.pc = "averages", !.seen = stored]
                    ELSE [op[r] EXCEPT !.pc = "fetch",
                                       !.seen = IF stored # NoSnapshot THEN stored ELSE @]
    <3>1. /\ o.pc \in {"averages", "fetch"} /\ o.now = op[r].now
          /\ o.seen \in {op[r].seen, stored}
      BY <1>t, Basics DEF Operation
    <3>2. op'[b] = o /\ op[b].pc = "recheck" /\ clock' = clock
      BY <1>t, <1>6, <2>1, Basics DEF Recheck
    <3> HIDE DEF o
    <3>3. QED BY <2>1, <3>1, <3>2 DEF StepOf, Moves, Goes, Holding
  <2>2. QED BY <1>t, <1>6, <2>1 DEF Recheck, StepOf
<1>7. ASSUME NEW a \in Actors, FetchDone(a) PROVE StepOf(b)
  <2>1. CASE b = a
    <3>1. PICK v \in Published(a) :
            op' = [op EXCEPT ![a].pc = "persist", ![a].seen = [version |-> v, gen |-> clock]]
      BY <1>7 DEF FetchDone
    <3> DEFINE s == [version |-> v, gen |-> clock]
               o == [op[a] EXCEPT !.pc = "persist", !.seen = s]
    <3>2. s.gen = clock /\ s.version = v
      OBVIOUS
    <3>3. o.pc = "persist" /\ o.now = op[a].now /\ o.seen = s
      BY <1>t DEF Operation
    <3>4. op'[b] = o /\ op[b].pc = "fetch" /\ clock' = clock
      BY <1>t, <1>7, <2>1, <3>1 DEF FetchDone
    <3>5. v \in op[b].now..clock
      BY <2>1 DEF Published
    <3> HIDE DEF o, s
    <3>6. QED BY <2>1, <3>2, <3>3, <3>4, <3>5 DEF StepOf, Moves, Fetches
  <2>2. QED BY <1>t, <1>7, <2>1 DEF FetchDone, StepOf
<1>8. ASSUME NEW r \in Requests, FetchFails(r) PROVE StepOf(b)
  <2>1. CASE b = r
    <3> DEFINE o == [op[r] EXCEPT !.pc = "averages", !.stale = TRUE]
    <3>1. o.pc = "averages" /\ o.now = op[r].now /\ o.seen = op[r].seen
      BY <1>t, Basics DEF Operation
    <3>2. op'[b] = o /\ op[b].pc = "fetch" /\ clock' = clock
      BY <1>t, <1>8, <2>1, Basics DEF FetchFails
    <3> HIDE DEF o
    <3>3. QED BY <2>1, <3>1, <3>2 DEF StepOf, Moves, Goes, Holding
  <2>2. QED BY <1>t, <1>8, <2>1 DEF FetchFails, StepOf
<1>9. ASSUME NEW a \in Actors, Persist(a) PROVE StepOf(b)
  <2>1. CASE b = a /\ a \in Requests
    <3> DEFINE o == [op[a] EXCEPT !.pc = "averages"]
    <3>1. o.pc = "averages" /\ o.now = op[a].now /\ o.seen = op[a].seen
      BY <1>t DEF Operation
    <3>2. op'[b] = o /\ op[b].pc = "persist" /\ clock' = clock
      BY <1>t, <1>9, <2>1 DEF Persist
    <3>3. counted' = counted \cup {op[b].seen.version}
      BY <1>9, <2>1 DEF Persist
    <3> HIDE DEF o
    <3>4. QED BY <2>1, <3>1, <3>2, <3>3 DEF StepOf, Moves, Commits
  <2>2. CASE b = a /\ a \notin Requests
    BY <1>t, <1>9, <2>2 DEF Persist, StepOf
  <2>3. QED BY <1>t, <1>9, <2>1, <2>2 DEF Persist, StepOf
<1>10. ASSUME NEW a \in Actors, Raises(a) PROVE StepOf(b)
  BY <1>t, <1>10 DEF Raises, StepOf
<1>11. ASSUME NEW r \in Requests, FillLocal(r) PROVE StepOf(b)
  <2>1. CASE b = r
    <3> DEFINE o == [op[r] EXCEPT !.pc = "share"]
    <3>1. o.pc = "share" /\ o.now = op[r].now /\ o.seen = op[r].seen
      BY <1>t, Basics DEF Operation
    <3>2. op'[b] = o /\ op[b].pc = "averages" /\ clock' = clock
      BY <1>t, <1>11, <2>1, Basics DEF FillLocal
    <3> HIDE DEF o
    <3>3. QED BY <2>1, <3>1, <3>2 DEF StepOf, Moves, Goes, Holding
  <2>2. QED BY <1>t, <1>11, <2>1 DEF FillLocal, StepOf
<1>12. ASSUME NEW r \in Requests, FillRedis(r) PROVE StepOf(b)
  BY <1>t, <1>12 DEF FillRedis, StepOf
<1>13. ASSUME NEW p \in Processes, Restart(p) PROVE StepOf(b)
  BY <1>13 DEF Restart, StepOf
<1>14. CASE Tick \/ Evict \/ UNCHANGED vars
  BY <1>14 DEF Tick, Evict, vars, StepOf
<1>15. QED
  BY <1>1, <1>2, <1>3, <1>4, <1>5, <1>6, <1>7, <1>8, <1>9, <1>10, <1>11, <1>12, <1>13, <1>14,
     <1>w DEF Next, Refresh, Serve

-----------------------------------------------------------------------------
(* The inductive invariant of the tables and of what the actors remember.  *)

\* Nothing lasts longer than Patience; what was fetched was published since the
\* lock was taken; what was read from the database was counted.
OpFact(a) ==
    /\ op[a].pc # "idle" => clock <= op[a].now + Patience
    /\ op[a].pc = "persist" =>
          /\ op[a].now <= op[a].seen.version
          /\ op[a].seen.version <= op[a].seen.gen
          /\ op[a].seen.gen <= clock
    /\ op[a].pc \notin {"persist", "warm"} /\ op[a].seen # NoSnapshot =>
          op[a].seen.version \in counted

StoredFact ==
    /\ stored.version <= stored.gen /\ stored.gen <= clock
    /\ stored # NoSnapshot => stored.version \in counted

\* Nothing that was counted is newer than the stored snapshot by more than a
\* refresh lasts.
CountedFact ==
    /\ processed \subseteq counted
    /\ \A u \in counted : u <= clock /\ u <= stored.version + Patience

\* A version left the ledger for the sake of a version past its retention.
PrunedFact ==
    \A u \in counted \ processed :
        \E w \in counted : Day(u) < PruneBefore(w)

\* Who works under the lock took it after the process's last snapshot.
HoldFact ==
    \A a \in Actors :
        Holding(a) /\ writer = ProcessOf(a) => stored.gen <= op[a].now

MarketInv ==
    /\ \A a \in Actors : OpFact(a)
    /\ StoredFact
    /\ CountedFact
    /\ PrunedFact
    /\ HoldFact

(* Types of what the facts speak of. *)
LEMMA Numbers ==
    ASSUME TypeInv
    PROVE  /\ clock \in Nat /\ Patience \in Nat /\ counted \subseteq Nat
           /\ stored.version \in Nat /\ stored.gen \in Nat
           /\ \A a \in Actors :
                 /\ op[a].now \in Nat /\ op[a].seen \in Snapshot \cup {NoSnapshot}
                 /\ op[a].seen.version \in Nat /\ op[a].seen.gen \in Nat
                 /\ op[a].pc # "idle" => op[a].now <= clock
<1>1. \A s \in Snapshot \cup {NoSnapshot} : s.version \in Nat /\ s.gen \in Nat
  BY Basics DEF Snapshot, Times
<1>2. clock \in Nat /\ counted \subseteq Nat /\ stored \in Snapshot \cup {NoSnapshot}
  BY DEF TypeInv, TypeOK, Times
<1>3. ASSUME NEW a \in Actors
      PROVE  /\ op[a].now \in Nat /\ op[a].seen \in Snapshot \cup {NoSnapshot}
             /\ op[a].pc # "idle" => op[a].now <= clock
  <2>1. op[a] \in Operation
    BY DEF TypeInv, TypeOK
  <2>2. op[a].now \in 0..MaxTime /\ op[a].seen \in Snapshot \cup {NoSnapshot}
    BY <2>1 DEF Operation
  <2>3. op[a].pc # "idle" => op[a].now \in 1..clock
    BY DEF TypeInv, OpOK
  <2>4. QED BY <1>2, <2>2, <2>3, Basics
<1>4. QED BY <1>1, <1>2, <1>3, Basics

LEMMA InitMarket == Init => MarketInv
<1> SUFFICES ASSUME Init PROVE MarketInv
  OBVIOUS
<1>1. \A a \in Actors : OpFact(a)
  BY Basics DEF Init, OpFact
<1>2. StoredFact
  BY Basics DEF Init, StoredFact
<1>3. CountedFact /\ PrunedFact
  BY DEF Init, CountedFact, PrunedFact
<1>4. HoldFact
  BY Basics DEF Init, HoldFact, Holding
<1>5. QED BY <1>1, <1>2, <1>3, <1>4 DEF MarketInv

(* Time passes only while nobody has run out of patience; versions stay    *)
(* counted.                                                                *)
LEMMA TimeSteps ==
    ASSUME TypeInv, [Next]_vars
    PROVE  /\ counted \subseteq counted'
           /\ \/ clock' = clock
              \/ /\ clock' = clock + 1 /\ op' = op /\ UNCHANGED tables
                 /\ \A a \in Actors : op[a].pc # "idle" => clock < op[a].now + Patience
<1>1. counted \subseteq counted'
  BY OnlyPersist DEF tables
<1>2. CASE Tick
  BY <1>1, <1>2 DEF Tick
<1>3. CASE ~Tick
  <2>1. ASSUME NEW a \in Actors, Refresh(a) PROVE clock' = clock
    BY <2>1 DEF Refresh, Acquire, FetchDone, Persist, Raises
  <2>2. ASSUME NEW r \in Requests, Serve(r) PROVE clock' = clock
    BY <2>2 DEF Serve, ReadShared, WarmLocal, RequestMisses, ReadStored, Recheck, FetchFails,
                FillLocal, FillRedis
  <2>3. ASSUME NEW p \in Processes, Wake(p) \/ Restart(p) PROVE clock' = clock
    BY <2>3 DEF Wake, Restart
  <2>4. CASE Evict \/ UNCHANGED vars
    BY <1>1, <2>4 DEF Evict, vars
  <2>5. QED BY <1>1, <1>3, <2>1, <2>2, <2>3, <2>4 DEF Next
<1>4. QED BY <1>2, <1>3

LEMMA OpFactStep ==
    ASSUME TypeInv, MarketInv, [Next]_vars, NEW a \in Actors
    PROVE  OpFact(a)'
<1>n. /\ clock \in Nat /\ Patience \in Nat /\ counted \subseteq counted'
      /\ op[a].now \in Nat /\ op[a].seen.version \in Nat /\ op[a].seen.gen \in Nat
      /\ OpFact(a) /\ StoredFact
  BY Numbers, TimeSteps DEF MarketInv
<1>1. CASE op'[a] = op[a]
  <2>1. op'[a].pc = op[a].pc /\ op'[a].now = op[a].now /\ op'[a].seen = op[a].seen
    BY <1>1
  <2>2. clock <= clock' /\ (op[a].pc # "idle" => clock' <= op[a].now + Patience)
    BY <1>n, TimeSteps DEF OpFact
  <2>3. clock' \in Nat
    BY <1>n, TimeSteps
  <2>4. QED BY <1>n, <2>1, <2>2, <2>3 DEF OpFact
<1>2. CASE op'[a] = Resting
  BY <1>2, Basics DEF OpFact
<1>3. CASE clock' = clock /\ Begins(a)
  BY <1>n, <1>3 DEF OpFact, Begins
<1>c. CASE clock' = clock /\ Copies(a)
  BY <1>n, <1>c DEF OpFact, Copies
<1>4. CASE clock' = clock /\ TakesLock(a)
  BY <1>n, <1>4 DEF OpFact, TakesLock
<1>5. CASE clock' = clock /\ Goes(a)
  BY <1>n, <1>5 DEF OpFact, StoredFact, Goes
<1>6. CASE clock' = clock /\ Fetches(a)
  <2>1. /\ op'[a].seen.version <= clock /\ op[a].now <= op'[a].seen.version
        /\ op'[a].seen.version \in Int
    BY <1>n, <1>6 DEF Fetches
  <2>2. QED BY <1>n, <1>6, <2>1 DEF OpFact, Fetches
<1>7. CASE clock' = clock /\ Commits(a)
  BY <1>n, <1>7 DEF OpFact, Commits
<1>8. QED
  BY <1>1, <1>2, <1>3, <1>c, <1>4, <1>5, <1>6, <1>7, ActorSteps DEF StepOf, Moves

(* What a transaction counts, and what it prunes. *)
LEMMA Commit ==
    ASSUME TypeInv, MarketInv, NEW a \in Actors, op[a].pc = "persist",
           op[a].seen.version \in Times,
           clock' = clock, stored' = op[a].seen,
           processed' = ProcessedAfter(op[a].seen.version),
           counted' = counted \cup {op[a].seen.version}
    PROVE  StoredFact' /\ CountedFact' /\ PrunedFact'
<1> DEFINE v == op[a].seen.version
<1>n. /\ clock \in Nat /\ Patience \in Nat /\ counted \subseteq Nat
      /\ op[a].now \in Nat /\ v \in Nat /\ op[a].seen.gen \in Nat
  BY Numbers
<1>f. /\ clock <= op[a].now + Patience /\ op[a].now <= v
      /\ v <= op[a].seen.gen /\ op[a].seen.gen <= clock
  BY DEF MarketInv, OpFact
<1>1. StoredFact'
  BY <1>f DEF StoredFact
<1>2. processed' \subseteq processed \cup {v}
  BY DEF ProcessedAfter
<1>3. CountedFact'
  <2>1. processed' \subseteq counted'
    BY <1>2 DEF MarketInv, CountedFact
  <2>2. ASSUME NEW u \in counted' PROVE u <= clock /\ u <= v + Patience
    BY <1>n, <1>f, <2>2 DEF MarketInv, CountedFact
  <2>3. QED BY <2>1, <2>2 DEF CountedFact
<1>4. PrunedFact'
  <2> SUFFICES ASSUME NEW u \in counted', u \notin processed'
               PROVE  \E w \in counted' : Day(u) < PruneBefore(w)
    BY DEF PrunedFact, PruneBefore, Day
  <2>1. CASE v \in processed
    <3>1. counted' = counted /\ processed' = processed
      BY <2>1 DEF ProcessedAfter, MarketInv, CountedFact
    <3>2. QED BY <3>1 DEF MarketInv, PrunedFact
  <2>2. CASE v \notin processed /\ (u \in processed \/ u = v)
    <3>1. ~(Day(u) >= PruneBefore(v))
      BY <2>2 DEF ProcessedAfter
    <3>2. u \in Times
      BY <2>2 DEF TypeInv, TypeOK
    <3>3. QED BY <3>1, <3>2, DayOfVersion
  <2>3. CASE v \notin processed /\ u \notin processed /\ u # v
    BY <2>3 DEF MarketInv, PrunedFact
  <2>4. QED BY <2>1, <2>2, <2>3
<1>5. QED BY <1>1, <1>3, <1>4

LEMMA TablesStep ==
    ASSUME TypeInv, MarketInv, [Next]_vars
    PROVE  StoredFact' /\ CountedFact' /\ PrunedFact'
<1>1. CASE UNCHANGED tables
  <2>1. clock \in Nat /\ clock' \in Nat /\ clock <= clock' /\ counted \subseteq Nat /\ stored.gen \in Nat
    BY Numbers, TimeSteps
  <2>2. QED BY <1>1, <2>1 DEF tables, MarketInv, StoredFact, CountedFact, PrunedFact, PruneBefore, Day
<1>2. QED BY <1>1, OnlyPersist, Commit

LEMMA HoldStep ==
    ASSUME TypeInv, MarketInv, [Next]_vars
    PROVE  HoldFact'
<1> SUFFICES ASSUME NEW a \in Actors, Holding(a)', writer' = ProcessOf(a)
             PROVE  stored'.gen <= op'[a].now
  BY DEF HoldFact, ProcessOf
<1>n. /\ clock \in Nat /\ stored.gen \in Nat /\ stored.gen <= clock /\ op[a].now \in Nat
      /\ TypeInv'
  BY Numbers, NextType DEF MarketInv, StoredFact
<1>1. CASE UNCHANGED tables
  <2>1. CASE op'[a] = op[a]
    BY <1>1, <2>1 DEF MarketInv, HoldFact, Holding, tables
  <2>2. CASE op'[a] = Resting
    BY <2>2, Basics DEF Holding
  <2>3. CASE Begins(a) \/ Copies(a) \/ Commits(a)
    BY <2>3 DEF Begins, Copies, Commits, Holding
  <2>4. CASE TakesLock(a)
    BY <1>n, <1>1, <2>4 DEF TakesLock, tables
  <2>5. CASE Goes(a) \/ Fetches(a)
    <3>1. Holding(a) /\ op'[a].now = op[a].now
      BY <2>5 DEF Goes, Fetches, Holding
    <3>2. QED BY <1>1, <3>1 DEF MarketInv, HoldFact, tables
  <2>6. QED BY <2>1, <2>2, <2>3, <2>4, <2>5, ActorSteps DEF StepOf, Moves
<1>2. ASSUME NEW b \in Actors, Persist(b) PROVE FALSE
  <2>1. Holding(b) /\ ProcessOf(b) = ProcessOf(a)
    BY <1>2 DEF Persist, Holding
  <2>2. op'[b].pc \in {"averages", "idle"}
    <3>1. op \in [Actors -> Operation] /\ op[b] \in Operation
      BY DEF TypeInv, TypeOK
    <3>2. [op[b] EXCEPT !.pc = "averages"].pc = "averages"
      BY <3>1 DEF Operation
    <3>3. QED BY <1>2, <3>1, <3>2, Basics DEF Persist
  <2>3. a # b
    BY <2>2 DEF Holding
  <2>4. op'[a] = op[a]
    BY <1>2, <2>3 DEF Persist, TypeInv, TypeOK
  <2>5. Holding(a)
    BY <2>4 DEF Holding
  <2>6. QED BY <2>1, <2>3, <2>5, OneHolder
<1>3. QED BY <1>1, <1>2, PersistOrNot

LEMMA MarketStep == TypeInv /\ MarketInv /\ [Next]_vars => MarketInv'
<1> SUFFICES ASSUME TypeInv, MarketInv, [Next]_vars PROVE MarketInv'
  OBVIOUS
<1>1. \A a \in Actors : OpFact(a)'
  BY OpFactStep
<1>2. QED BY <1>1, TablesStep, HoldStep DEF MarketInv

LEMMA MarketAlways == Spec => [](TypeInv /\ MarketInv)
BY InitType, NextType, InitMarket, MarketStep, PTL DEF Spec

-----------------------------------------------------------------------------
(* What the invariant gives.                                               *)

LEMMA WindowFromInv == TypeInv /\ MarketInv => WindowKept
<1> SUFFICES ASSUME TypeInv, MarketInv, NEW v \in counted,
                    Day(stored.version) - Window < Day(v), v \notin processed
             PROVE  FALSE
  BY DEF WindowKept
<1>1. PICK w \in counted : Day(v) < PruneBefore(w)
  BY DEF MarketInv, PrunedFact
<1>2. /\ v \in Times /\ w \in Times /\ w \in Nat /\ v \in Nat /\ stored.version \in Nat
      /\ w <= stored.version + Patience
  BY Numbers DEF TypeInv, TypeOK, MarketInv, CountedFact
<1>3. Day(w) + Window <= Day(stored.version) + Retention
  BY <1>2, DayLag
<1>4. Day(v) \in Nat /\ Day(w) \in Nat /\ Day(stored.version) \in Nat
  BY <1>2, DayOrder
<1>5. QED BY <1>1, <1>3, <1>4, Basics DEF PruneBefore

(* A version inside the longest average's window is in the ledger, however *)
(* far the clocks of two refreshes are apart: the retention leaves room    *)
(* for the longest refresh.                                                *)
THEOREM WindowIsKept == Spec => []WindowKept
BY MarketAlways, WindowFromInv, PTL

LEMMA AdvanceStep ==
    ASSUME TypeInv, MarketInv, [Next]_vars, writer' = writer
    PROVE  Newer(stored, stored')
<1>n. stored.version \in Nat /\ stored.gen \in Nat
  BY Numbers
<1>1. CASE UNCHANGED tables
  BY <1>n, <1>1 DEF tables, Newer
<1>2. ASSUME NEW a \in Actors, op[a].pc = "persist", stored' = op[a].seen, writer' = ProcessOf(a)
      PROVE  Newer(stored, stored')
  <2>1. /\ stored.gen <= op[a].now /\ stored.version <= stored.gen
        /\ op[a].now <= op[a].seen.version /\ op[a].seen.version <= op[a].seen.gen
    BY <1>2 DEF MarketInv, HoldFact, Holding, OpFact, StoredFact
  <2>2. op[a].now \in Nat /\ op[a].seen.version \in Nat /\ op[a].seen.gen \in Nat
    BY Numbers
  <2>3. QED BY <1>n, <1>2, <2>1, <2>2 DEF Newer
<1>3. QED BY <1>1, <1>2, OnlyPersist

(* A process never goes back to an older version or an older generation    *)
(* time: its lock orders its fetches and its transactions.                 *)
THEOREM StoredNeverGoesBack == Spec => StoredAdvances
<1>1. TypeInv /\ MarketInv /\ [Next]_vars => [writer' = writer => Newer(stored, stored')]_vars
  BY AdvanceStep
<1>2. QED BY <1>1, MarketAlways, PTL DEF Spec, StoredAdvances

-----------------------------------------------------------------------------
(* The refresher's promise to the requests.                                *)

(* Inside a server that has refreshed there is a snapshot to answer with:  *)
(* a restart turns the requests' own refreshes on again.                   *)
THEOREM RequestsHaveASnapshot == Spec => []RequestsFindSnapshot
<1>1. Init => RequestsFindSnapshot
  BY DEF Init, RequestsFindSnapshot
<1>2. TypeInv /\ RequestsFindSnapshot /\ [Next]_vars => RequestsFindSnapshot'
  <2> SUFFICES ASSUME TypeInv, RequestsFindSnapshot, [Next]_vars PROVE RequestsFindSnapshot'
    OBVIOUS
  <2>1. ASSUME NEW a \in Actors, Persist(a) PROVE RequestsFindSnapshot'
    <3>1. op[a].seen \in Snapshot
      BY <2>1 DEF Persist, TypeInv, OpOK
    <3>2. stored' # NoSnapshot
      BY <2>1, <3>1, Basics DEF Persist
    <3>3. QED BY <3>2 DEF RequestsFindSnapshot
  <2>2. ASSUME NEW p \in Processes, Restart(p) PROVE RequestsFindSnapshot'
    BY <2>2 DEF Restart, tables, RequestsFindSnapshot, TypeInv, TypeOK
  <2>3. ASSUME UNCHANGED <<stored, inline>> PROVE RequestsFindSnapshot'
    BY <2>3 DEF RequestsFindSnapshot
  <2>4. ASSUME NEW a \in Actors, Refresh(a), ~Persist(a) PROVE UNCHANGED <<stored, inline>>
    BY <2>4 DEF Refresh, Acquire, FetchDone, Raises, tables
  <2>5. ASSUME NEW r \in Requests, Serve(r) PROVE UNCHANGED <<stored, inline>>
    BY <2>5 DEF Serve, ReadShared, WarmLocal, RequestMisses, ReadStored, Recheck, FetchFails,
                FillLocal, FillRedis, tables
  <2>6. ASSUME NEW p \in Processes, Wake(p) PROVE UNCHANGED <<stored, inline>>
    BY <2>6 DEF Wake, tables
  <2>7. CASE Tick \/ Evict \/ UNCHANGED vars
    BY <2>3, <2>7 DEF Tick, Evict, vars, tables
  <2>8. QED BY <2>1, <2>2, <2>3, <2>4, <2>5, <2>6, <2>7 DEF Next, Refresh
<1>3. QED BY <1>1, <1>2, InitType, NextType, PTL DEF Spec

-----------------------------------------------------------------------------
(* A request does not fetch again what its process has just fetched.       *)

(* A request reaches a fetch only through its second look. *)
LEMMA FetchStarts ==
    ASSUME TypeInv, [Next]_vars, NEW r \in Requests, op'[r].pc = "fetch"
    PROVE  \/ op'[r] = op[r]
           \/ ~Fresh(stored, op[r].now) /\ op'[r].now = op[r].now /\ UNCHANGED tables
<1>t. /\ op \in [Actors -> Operation] /\ \A a \in Actors : op[a] \in Operation
      /\ r \in Actors /\ r \notin Processes
  BY Basics DEF TypeInv, TypeOK
<1>1. ASSUME NEW q \in Requests, Recheck(q)
      PROVE  \/ op'[r] = op[r]
             \/ ~Fresh(stored, op[r].now) /\ op'[r].now = op[r].now /\ UNCHANGED tables
  <2>1. CASE q # r
    BY <1>t, <1>1, <2>1 DEF Recheck
  <2>2. CASE q = r /\ RecheckServes(r)
    <3> DEFINE o == [op[r] EXCEPT !.pc = "averages", !.seen = stored]
    <3>1. op'[r] = o /\ o.pc = "averages"
      BY <1>t, <1>1, <2>2 DEF Recheck, Operation
    <3>2. QED BY <3>1
  <2>3. CASE q = r /\ ~RecheckServes(r)
    <3> DEFINE o == [op[r] EXCEPT !.pc = "fetch",
                                  !.seen = IF stored # NoSnapshot THEN stored ELSE @]
    <3>1. op'[r] = o /\ o.now = op[r].now
      BY <1>t, <1>1, <2>3 DEF Recheck, Operation
    <3>2. UNCHANGED tables /\ ~Fresh(stored, op[r].now)
      BY <1>1, <2>3 DEF Recheck, RecheckServes
    <3>3. QED BY <3>1, <3>2
  <2>4. QED BY <2>1, <2>2, <2>3
<1>2. ASSUME NEW a \in Actors, Acquire(a) PROVE op'[r] = op[r]
  <2>1. CASE a = r
    <3> DEFINE o == [op[r] EXCEPT !.pc = IF r \in Requests THEN "recheck" ELSE "fetch", !.now = clock]
    <3>1. op'[r] = o /\ o.pc = "recheck"
      BY <1>t, <1>2, <2>1 DEF Acquire, Operation
    <3>2. QED BY <3>1
  <2>2. QED BY <1>t, <1>2, <2>1 DEF Acquire
<1>3. ASSUME NEW a \in Actors, FetchDone(a) PROVE op'[r] = op[r]
  <2>1. PICK v \in Published(a) :
          op' = [op EXCEPT ![a].pc = "persist", ![a].seen = [version |-> v, gen |-> clock]]
    BY <1>3 DEF FetchDone
  <2>2. CASE a = r
    <3> DEFINE s == [version |-> v, gen |-> clock]
               o == [op[r] EXCEPT !.pc = "persist", !.seen = s]
    <3>1. op'[r] = o /\ o.pc = "persist"
      BY <1>t, <2>1, <2>2 DEF Operation
    <3>2. QED BY <3>1
  <2>3. QED BY <1>t, <2>1, <2>2
<1>4. ASSUME NEW a \in Actors, Persist(a) PROVE op'[r] = op[r]
  <2>1. CASE a = r
    <3> DEFINE o == [op[r] EXCEPT !.pc = "averages"]
    <3>1. op'[r] = o /\ o.pc = "averages"
      BY <1>t, <1>4, <2>1 DEF Persist, Operation
    <3>2. QED BY <3>1
  <2>2. QED BY <1>t, <1>4, <2>1 DEF Persist
<1>5. ASSUME NEW a \in Actors, Raises(a) PROVE op'[r] = op[r]
  BY <1>t, <1>5, Basics DEF Raises
<1>6. ASSUME NEW q \in Requests, RequestMisses(q) PROVE op'[r] = op[r]
  BY <1>t, <1>6 DEF RequestMisses, Resting
<1>7. ASSUME NEW q \in Requests, ReadStored(q) PROVE op'[r] = op[r]
  <2>1. CASE q = r
    <3> DEFINE o == IF ServedAtOnce(r)
                    THEN [op[r] EXCEPT !.pc = "averages", !.seen = stored,
                                       !.stale = ~Fresh(stored, op[r].now)]
                    ELSE [op[r] EXCEPT !.pc = "queued", !.seen = stored]
    <3>1. o.pc \in {"averages", "queued"}
      BY <1>t DEF Operation
    <3>2. op'[r] = o
      BY <1>t, <1>7, <2>1 DEF ReadStored
    <3> HIDE DEF o
    <3>3. QED BY <3>1, <3>2
  <2>2. QED BY <1>t, <1>7, <2>1 DEF ReadStored
<1>8. ASSUME NEW q \in Requests, FetchFails(q) \/ FillLocal(q) \/ FillRedis(q) PROVE op'[r] = op[r]
  <2>1. CASE q = r
    <3> DEFINE o == [op[r] EXCEPT !.pc = "averages", !.stale = TRUE]
               u == [op[r] EXCEPT !.pc = "share"]
    <3>1. o.pc = "averages" /\ u.pc = "share"
      BY <1>t DEF Operation
    <3>2. op'[r] \in {o, u, Resting}
      BY <1>t, <1>8, <2>1 DEF FetchFails, FillLocal, FillRedis
    <3> HIDE DEF o, u
    <3>3. QED BY <3>1, <3>2, Basics
  <2>2. QED BY <1>t, <1>8, <2>1 DEF FetchFails, FillLocal, FillRedis
<1>9. ASSUME NEW p \in Processes, Wake(p) \/ Restart(p) PROVE op'[r] = op[r]
  BY <1>t, <1>9, Basics DEF Wake, Restart
<1>10. ASSUME NEW q \in Requests, ReadShared(q) \/ WarmLocal(q) PROVE op'[r] = op[r]
  BY <1>t, <1>10, Basics DEF ReadShared, WarmLocal
<1>11. CASE Tick \/ Evict \/ UNCHANGED vars
  BY <1>11 DEF Tick, Evict, vars
<1>12. QED
  BY <1>1, <1>2, <1>3, <1>4, <1>5, <1>6, <1>7, <1>8, <1>9, <1>10, <1>11 DEF Next, Refresh, Serve

LEMMA FetchStep == TypeInv /\ NoRepeatedFetch /\ [Next]_vars => NoRepeatedFetch'
<1> SUFFICES ASSUME TypeInv, NoRepeatedFetch, [Next]_vars,
                    NEW r \in Requests, op'[r].pc = "fetch", writer' = Home[r]
             PROVE  ~Fresh(stored', op'[r].now)
  BY DEF NoRepeatedFetch, Fresh
<1>1. CASE op'[r] # op[r]
  BY <1>1, FetchStarts DEF tables
<1>2. CASE op'[r] = op[r] /\ UNCHANGED tables
  BY <1>2 DEF NoRepeatedFetch, tables
<1>3. ASSUME op'[r] = op[r], NEW b \in Actors, Persist(b) PROVE FALSE
  <2>1. r \in Actors /\ Holding(r) /\ Holding(b) /\ ProcessOf(r) = Home[r] /\ op[r].pc = "fetch"
    BY <1>3, Basics DEF Persist, Holding
  <2>2. ProcessOf(b) = ProcessOf(r) /\ op[b].pc = "persist"
    BY <1>3, <2>1 DEF Persist
  <2>3. QED BY <2>1, <2>2, OneHolder
<1>4. QED BY <1>1, <1>2, <1>3, PersistOrNot

(* Whoever waited for the lock while another refresh of its process ran    *)
(* looks at the result before it fetches, and nobody else of the process   *)
(* can store one during the fetch.                                         *)
THEOREM NoFetchIsRepeated == Spec => []NoRepeatedFetch
<1>1. Init => NoRepeatedFetch
  BY Basics DEF Init, NoRepeatedFetch
<1>2. QED BY <1>1, InitType, NextType, FetchStep, PTL DEF Spec

-----------------------------------------------------------------------------
(* What is answered: the snapshots in the caches and on their way there.   *)

\* An entry holds a counted version, and expires before it is older than the
\* read, a request's duration and the lifetimes of the caches add up to.
EntryOK(e, lifetime, versions) ==
    e = NoEntry \/ /\ e.snap.version \in versions
                   /\ e.expires < e.snap.gen + AgeWhenRead(e) + Patience + lifetime

\* A request that has its answer found it young enough when it looked.
AnswerOK(r) ==
    op[r].pc \in {"averages", "share"} =>
        op[r].now < op[r].seen.gen + (IF op[r].stale THEN StaleLimit ELSE CacheTtl)

\* A request that warms the local cache read an entry that had not expired.
WarmOK(r) ==
    op[r].pc = "warm" =>
        /\ op[r].seen.version \in counted
        /\ op[r].now + 1 < op[r].seen.gen + AgeWhenRead(op[r]) + Patience + RedisTtl

AnswerInv ==
    /\ EntryOK(redis, RedisTtl, counted)
    /\ \A p \in Processes : EntryOK(local[p], Patience + RedisTtl + LocalTtl - 1, counted)
    /\ \A r \in Requests : AnswerOK(r) /\ WarmOK(r)

(* Counting further versions spoils no entry. *)
LEMMA EntryKept ==
    ASSUME NEW e, NEW lifetime, NEW U, NEW V, U \subseteq V, EntryOK(e, lifetime, U)
    PROVE  EntryOK(e, lifetime, V)
BY DEF EntryOK

(* How the two caches change. *)
LEMMA CacheSteps ==
    ASSUME TypeInv, [Next]_vars
    PROVE  /\ \/ redis' \in {redis, NoEntry}
              \/ \E r \in Requests : op[r].pc = "share" /\ redis' = Cached(r, RedisTtl)
           /\ \A p \in Processes :
                 \/ local'[p] \in {local[p], NoEntry}
                 \/ \E r \in Requests : op[r].pc = "warm" /\ local'[p] = Cached(r, LocalTtl)
                 \/ \E r \in Requests : op[r].pc = "averages" /\ local'[p] = Cached(r, LocalTtl)
<1>t. local \in [Processes -> Entry \cup {NoEntry}]
  BY DEF TypeInv, TypeOK
<1> DEFINE Goal == /\ \/ redis' \in {redis, NoEntry}
                      \/ \E r \in Requests : op[r].pc = "share" /\ redis' = Cached(r, RedisTtl)
                   /\ \A p \in Processes :
                         \/ local'[p] \in {local[p], NoEntry}
                         \/ \E r \in Requests : op[r].pc = "warm" /\ local'[p] = Cached(r, LocalTtl)
                         \/ \E r \in Requests : op[r].pc = "averages" /\ local'[p] = Cached(r, LocalTtl)
<1>1. CASE UNCHANGED caches
  BY <1>1 DEF caches
<1>2. ASSUME NEW r \in Requests, WarmLocal(r) PROVE Goal
  BY <1>t, <1>2 DEF WarmLocal
<1>3. ASSUME NEW r \in Requests, FillLocal(r) PROVE Goal
  BY <1>t, <1>3 DEF FillLocal
<1>4. ASSUME NEW r \in Requests, FillRedis(r) PROVE Goal
  BY <1>4 DEF FillRedis
<1>5. ASSUME NEW p \in Processes, Restart(p) PROVE Goal
  BY <1>t, <1>5 DEF Restart
<1>6. CASE Evict
  BY <1>t, <1>6 DEF Evict
<1>7. CASE Tick
  BY <1>7 DEF Tick, Unexpired
<1>8. ASSUME NEW a \in Actors, Refresh(a) PROVE UNCHANGED caches
  BY <1>8 DEF Refresh, Acquire, FetchDone, Persist, Raises
<1>9. ASSUME NEW r \in Requests,
             ReadShared(r) \/ RequestMisses(r) \/ ReadStored(r) \/ Recheck(r) \/ FetchFails(r)
      PROVE  UNCHANGED caches
  BY <1>9 DEF ReadShared, RequestMisses, ReadStored, Recheck, FetchFails
<1>10. ASSUME NEW p \in Processes, Wake(p) PROVE UNCHANGED caches
  BY <1>10 DEF Wake
<1>11. CASE UNCHANGED vars
  BY <1>1, <1>11 DEF vars
<1> HIDE DEF Goal
<1>12. Goal
  BY <1>1, <1>2, <1>3, <1>4, <1>5, <1>6, <1>7, <1>8, <1>9, <1>10, <1>11 DEF Next, Serve, Goal
<1>13. QED BY <1>12 DEF Goal

(* How a request comes to its answer. *)
LEMMA AnswerStep ==
    ASSUME TypeInv, MarketInv, NEW r \in Requests, AnswerOK(r), [Next]_vars
    PROVE  AnswerOK(r)'
<1>t. /\ op \in [Actors -> Operation] /\ \A a \in Actors : op[a] \in Operation
      /\ r \in Actors /\ r \notin Processes
      /\ CacheTtl \in Nat \ {0} /\ StaleLimit \in Nat \ {0} /\ CacheTtl <= StaleLimit
  BY Basics DEF TypeInv, TypeOK
<1>n. /\ clock \in Nat /\ op[r].now \in Nat /\ op[r].seen.gen \in Nat /\ stored.gen \in Nat
      /\ op[r].stale \in BOOLEAN /\ op[r].pc # "idle" => op[r].now <= clock
  BY <1>t, Numbers DEF Operation
<1>1. ASSUME op'[r] = op[r] \/ op'[r].pc \notin {"averages", "share"} PROVE AnswerOK(r)'
  BY <1>1 DEF AnswerOK
<1>2. ASSUME NEW q \in Requests, ReadStored(q) PROVE AnswerOK(r)'
  <2>1. CASE q = r /\ ServedAtOnce(r)
    <3> DEFINE f == Fresh(stored, op[r].now)
               o == [op[r] EXCEPT !.pc = "averages", !.seen = stored, !.stale = ~f]
    <3>1. o.now = op[r].now /\ o.seen = stored /\ o.stale = ~f
      BY <1>t DEF Operation
    <3>2. op'[r] = o
      BY <1>t, <1>2, <2>1 DEF ReadStored
    <3>3. op[r].now < stored.gen + (IF ~f THEN StaleLimit ELSE CacheTtl)
      BY <1>t, <1>n, <2>1 DEF ServedAtOnce, Fresh, Servable
    <3> HIDE DEF o, f
    <3>4. QED BY <3>1, <3>2, <3>3 DEF AnswerOK
  <2>2. CASE q = r /\ ~ServedAtOnce(r)
    <3> DEFINE o == [op[r] EXCEPT !.pc = "queued", !.seen = stored]
    <3>1. op'[r] = o /\ o.pc = "queued"
      BY <1>t, <1>2, <2>2 DEF ReadStored, Operation
    <3>2. QED BY <1>1, <3>1
  <2>3. QED BY <1>t, <1>1, <1>2, <2>1, <2>2 DEF ReadStored
<1>3. ASSUME NEW q \in Requests, Recheck(q) PROVE AnswerOK(r)'
  <2>1. CASE q = r /\ RecheckServes(r)
    <3> DEFINE o == [op[r] EXCEPT !.pc = "averages", !.seen = stored]
    <3>1. op'[r] = o /\ o.now = op[r].now /\ o.seen = stored
      BY <1>t, <1>3, <2>1 DEF Recheck, Operation
    <3>2. op[r].now < stored.gen + CacheTtl /\ op[r].now < stored.gen + StaleLimit
      BY <1>t, <1>n, <2>1 DEF RecheckServes, Fresh
    <3> HIDE DEF o
    <3>3. QED BY <3>1, <3>2 DEF AnswerOK
  <2>2. CASE q = r /\ ~RecheckServes(r)
    <3> DEFINE o == [op[r] EXCEPT !.pc = "fetch",
                                  !.seen = IF stored # NoSnapshot THEN stored ELSE @]
    <3>1. op'[r] = o /\ o.pc = "fetch"
      BY <1>t, <1>3, <2>2 DEF Recheck, Operation
    <3>2. QED BY <1>1, <3>1
  <2>3. QED BY <1>t, <1>1, <1>3, <2>1, <2>2 DEF Recheck
<1>4. ASSUME NEW q \in Requests, FetchFails(q) PROVE AnswerOK(r)'
  <2>1. CASE q = r
    <3> DEFINE o == [op[r] EXCEPT !.pc = "averages", !.stale = TRUE]
    <3>1. op'[r] = o /\ o.now = op[r].now /\ o.seen = op[r].seen /\ o.stale = TRUE
      BY <1>t, <1>4, <2>1 DEF FetchFails, Operation
    <3>2. op[r].now < op[r].seen.gen + StaleLimit
      BY <1>t, <1>n, <1>4, <2>1 DEF FetchFails, Servable
    <3> HIDE DEF o
    <3>3. QED BY <3>1, <3>2 DEF AnswerOK
  <2>2. QED BY <1>t, <1>1, <1>4, <2>1 DEF FetchFails
<1>5. ASSUME NEW a \in Actors, Persist(a) PROVE AnswerOK(r)'
  <2>1. CASE a = r
    <3> DEFINE o == [op[r] EXCEPT !.pc = "averages"]
    <3>1. op'[r] = o /\ o.now = op[r].now /\ o.seen = op[r].seen
      BY <1>t, <1>5, <2>1 DEF Persist, Operation
    <3>2. op[r].now <= op[r].seen.gen
      <4>1. op[r].now <= op[r].seen.version /\ op[r].seen.version <= op[r].seen.gen
        BY <1>t, <1>5, <2>1 DEF Persist, MarketInv, OpFact
      <4>2. op[r].seen.version \in Nat
        BY <1>t, Numbers
      <4>3. QED BY <1>n, <4>1, <4>2
    <3> HIDE DEF o
    <3>3. QED BY <1>t, <1>n, <3>1, <3>2 DEF AnswerOK
  <2>2. QED BY <1>t, <1>1, <1>5, <2>1 DEF Persist
<1>6. ASSUME NEW q \in Requests, FillLocal(q) PROVE AnswerOK(r)'
  <2>1. CASE q = r
    <3> DEFINE o == [op[r] EXCEPT !.pc = "share"]
    <3>1. op'[r] = o /\ o.now = op[r].now /\ o.seen = op[r].seen /\ o.stale = op[r].stale
      BY <1>t, <1>6, <2>1 DEF FillLocal, Operation
    <3>2. op[r].pc = "averages"
      BY <1>6, <2>1 DEF FillLocal
    <3> HIDE DEF o
    <3>3. QED BY <3>1, <3>2 DEF AnswerOK
  <2>2. QED BY <1>t, <1>1, <1>6, <2>1 DEF FillLocal
<1>7. ASSUME NEW a \in Actors, Acquire(a) PROVE AnswerOK(r)'
  <2>1. CASE a = r
    <3> DEFINE o == [op[r] EXCEPT !.pc = IF r \in Requests THEN "recheck" ELSE "fetch", !.now = clock]
    <3>1. op'[r] = o /\ o.pc = "recheck"
      BY <1>t, <1>7, <2>1 DEF Acquire, Operation
    <3>2. QED BY <1>1, <3>1
  <2>2. QED BY <1>t, <1>1, <1>7, <2>1 DEF Acquire
<1>8. ASSUME NEW a \in Actors, FetchDone(a) PROVE AnswerOK(r)'
  <2>1. PICK v \in Published(a) :
          op' = [op EXCEPT ![a].pc = "persist", ![a].seen = [version |-> v, gen |-> clock]]
    BY <1>8 DEF FetchDone
  <2>2. CASE a = r
    <3> DEFINE s == [version |-> v, gen |-> clock]
               o == [op[r] EXCEPT !.pc = "persist", !.seen = s]
    <3>1. op'[r] = o /\ o.pc = "persist"
      BY <1>t, <2>1, <2>2 DEF Operation
    <3>2. QED BY <1>1, <3>1
  <2>3. QED BY <1>t, <1>1, <2>1, <2>2
<1>9. ASSUME NEW q \in Requests, RequestMisses(q) PROVE AnswerOK(r)'
  <2>1. CASE q = r
    <3> DEFINE o == [Resting EXCEPT !.pc = "read", !.now = clock]
    <3>1. op'[r] = o /\ o.pc = "read"
      BY <1>t, <1>9, <2>1 DEF RequestMisses, Resting
    <3>2. QED BY <1>1, <3>1
  <2>2. QED BY <1>t, <1>1, <1>9, <2>1 DEF RequestMisses
<1>10. ASSUME NEW q \in Requests, FillRedis(q) PROVE AnswerOK(r)'
  BY <1>t, <1>1, <1>10, Basics DEF FillRedis
<1>11. ASSUME NEW a \in Actors, Raises(a) PROVE AnswerOK(r)'
  BY <1>t, <1>1, <1>11, Basics DEF Raises
<1>12. ASSUME NEW p \in Processes, Wake(p) \/ Restart(p) PROVE AnswerOK(r)'
  BY <1>t, <1>1, <1>12, Basics DEF Wake, Restart
<1>13. ASSUME NEW q \in Requests, ReadShared(q) \/ WarmLocal(q) PROVE AnswerOK(r)'
  BY <1>t, <1>1, <1>13, Basics DEF ReadShared, WarmLocal
<1>14. CASE Tick \/ Evict \/ UNCHANGED vars
  BY <1>1, <1>14 DEF Tick, Evict, vars
<1>15. QED
  BY <1>2, <1>3, <1>4, <1>5, <1>6, <1>7, <1>8, <1>9, <1>10, <1>11, <1>12, <1>13, <1>14
     DEF Next, Refresh, Serve

(* How a request comes to an entry to copy. *)
LEMMA WarmStep ==
    ASSUME TypeInv, MarketInv, AnswerInv, NEW r \in Requests, [Next]_vars
    PROVE  WarmOK(r)'
<1>c. /\ counted \subseteq counted' /\ r \in Actors /\ clock \in Nat
      /\ WarmOK(r) /\ EntryOK(redis, RedisTtl, counted)
  BY TimeSteps, Basics, Numbers DEF AnswerInv
<1>1. CASE op'[r] = op[r]
  BY <1>c, <1>1 DEF WarmOK, AgeWhenRead
<1>2. CASE op'[r].pc # "warm"
  BY <1>2 DEF WarmOK
<1>3. CASE Copies(r)
  <2>1. redis \in Entry /\ redis # NoEntry
    BY <1>c, <1>3, Basics DEF TypeInv, TypeOK, Live, Copies
  <2>2. /\ redis.snap.version \in counted /\ clock < redis.expires
        /\ redis.expires < redis.snap.gen + AgeWhenRead(redis) + Patience + RedisTtl
    BY <1>c, <1>3, <2>1 DEF EntryOK, Live, Copies
  <2>3. /\ op'[r].seen = redis.snap /\ op'[r].now = clock
        /\ AgeWhenRead(op'[r]) = AgeWhenRead(redis)
    BY <1>3 DEF Copies, AgeWhenRead
  <2>4. /\ redis.expires \in Nat /\ redis.snap.gen \in Nat /\ AgeWhenRead(redis) \in Nat
        /\ Patience \in Nat /\ RedisTtl \in Nat
    BY <2>1, Basics DEF Entry, Snapshot, Times, AgeWhenRead
  <2>5. clock + 1 < redis.snap.gen + AgeWhenRead(redis) + Patience + RedisTtl
    BY <1>c, <2>2, <2>4
  <2>6. QED BY <1>c, <2>2, <2>3, <2>5 DEF WarmOK, AgeWhenRead
<1>4. op'[r] = op[r] \/ op'[r].pc # "warm" \/ Copies(r)
  BY <1>c, ActorSteps, Basics DEF StepOf, Moves, Begins, TakesLock, Goes, Fetches, Commits
<1>5. QED BY <1>1, <1>2, <1>3, <1>4

(* What a request that has its answer puts into a cache.                   *)
LEMMA CachedOK ==
    ASSUME TypeInv, MarketInv, NEW r \in Requests, AnswerOK(r),
           op[r].pc \in {"averages", "share"}, NEW ttl \in Nat
    PROVE  /\ Cached(r, ttl).snap.version \in counted
           /\ Cached(r, ttl).expires
                < Cached(r, ttl).snap.gen + AgeWhenRead(Cached(r, ttl)) + Patience + ttl
<1> DEFINE e == Cached(r, ttl)
<1>1. e.snap = op[r].seen /\ e.stale = op[r].stale /\ e.expires = clock + ttl
  BY DEF Cached
<1>2. r \in Actors /\ clock <= op[r].now + Patience /\ op[r].seen.version \in counted
  BY Basics DEF MarketInv, OpFact, TypeInv, OpOK
<1>3. /\ clock \in Nat /\ Patience \in Nat /\ op[r].now \in Nat /\ op[r].seen.gen \in Nat
      /\ CacheTtl \in Nat /\ StaleLimit \in Nat
  BY <1>2, Numbers, Basics
<1>4. op[r].now < op[r].seen.gen + AgeWhenRead(e)
  BY <1>1 DEF AnswerOK, AgeWhenRead
<1>5. AgeWhenRead(e) \in Nat
  BY <1>3 DEF AgeWhenRead
<1> HIDE DEF e
<1>6. e.expires < e.snap.gen + AgeWhenRead(e) + Patience + ttl
  BY <1>1, <1>2, <1>3, <1>4, <1>5
<1>7. QED BY <1>1, <1>2, <1>6 DEF e

LEMMA AnswerInvStep == TypeInv /\ MarketInv /\ AnswerInv /\ [Next]_vars => AnswerInv'
<1> SUFFICES ASSUME TypeInv, MarketInv, AnswerInv, [Next]_vars PROVE AnswerInv'
  OBVIOUS
<1>c. /\ counted \subseteq counted' /\ LocalTtl \in Nat \ {0} /\ RedisTtl \in Nat \ {0}
      /\ Patience \in Nat /\ clock \in Nat /\ CacheTtl \in Nat /\ StaleLimit \in Nat
  BY TimeSteps, Basics, Numbers
<1>1. \A r \in Requests : AnswerOK(r)' /\ WarmOK(r)'
  BY AnswerStep, WarmStep DEF AnswerInv
<1>2. EntryOK(redis', RedisTtl, counted')
  <2>1. CASE redis' \in {redis, NoEntry}
    <3>1. EntryOK(redis, RedisTtl, counted') /\ EntryOK(NoEntry, RedisTtl, counted')
      BY <1>c, EntryKept DEF AnswerInv, EntryOK
    <3>2. QED BY <2>1, <3>1
  <2>2. ASSUME NEW r \in Requests, op[r].pc = "share", redis' = Cached(r, RedisTtl)
        PROVE  EntryOK(redis', RedisTtl, counted')
    <3>1. EntryOK(Cached(r, RedisTtl), RedisTtl, counted)
      BY <1>c, <2>2, CachedOK DEF AnswerInv, EntryOK
    <3>2. QED BY <1>c, <2>2, <3>1, EntryKept
  <2>3. QED BY <2>1, <2>2, CacheSteps
<1>3. ASSUME NEW p \in Processes
      PROVE  EntryOK(local'[p], Patience + RedisTtl + LocalTtl - 1, counted')
  <2> DEFINE L == Patience + RedisTtl + LocalTtl - 1
  <2>1. CASE local'[p] \in {local[p], NoEntry}
    <3>1. EntryOK(local[p], L, counted') /\ EntryOK(NoEntry, L, counted')
      BY <1>c, EntryKept DEF AnswerInv, EntryOK
    <3>2. QED BY <2>1, <3>1
  <2>2. ASSUME NEW r \in Requests, op[r].pc = "warm", local'[p] = Cached(r, LocalTtl)
        PROVE  EntryOK(local'[p], L, counted')
    <3> DEFINE e == Cached(r, LocalTtl)
    <3>1. /\ r \in Actors /\ e.snap = op[r].seen /\ e.expires = clock + LocalTtl
          /\ AgeWhenRead(e) = AgeWhenRead(op[r])
      BY Basics DEF Cached, AgeWhenRead
    <3>2. /\ op[r].seen.version \in counted
          /\ op[r].now + 1 < op[r].seen.gen + AgeWhenRead(op[r]) + Patience + RedisTtl
      BY <2>2 DEF AnswerInv, WarmOK
    <3>3. clock <= op[r].now + Patience
      BY <2>2, <3>1 DEF MarketInv, OpFact
    <3>4. op[r].now \in Nat /\ op[r].seen.gen \in Nat /\ AgeWhenRead(op[r]) \in Nat
      BY <1>c, <3>1, Numbers DEF AgeWhenRead
    <3> HIDE DEF e
    <3>5. e.expires < e.snap.gen + AgeWhenRead(e) + Patience + L
      BY <1>c, <3>1, <3>2, <3>3, <3>4
    <3>6. EntryOK(e, L, counted')
      BY <1>c, <3>1, <3>2, <3>5 DEF EntryOK
    <3>7. QED BY <2>2, <3>6 DEF e
  <2>3. ASSUME NEW r \in Requests, op[r].pc = "averages", local'[p] = Cached(r, LocalTtl)
        PROVE  EntryOK(local'[p], L, counted')
    <3> DEFINE e == Cached(r, LocalTtl)
    <3>1. /\ e.snap.version \in counted
          /\ e.expires < e.snap.gen + AgeWhenRead(e) + Patience + LocalTtl
      BY <1>c, <2>3, CachedOK DEF AnswerInv
    <3>2. r \in Actors /\ e.snap = op[r].seen /\ e.expires = clock + LocalTtl
      BY Basics DEF Cached
    <3>3. e.snap.gen \in Nat /\ AgeWhenRead(e) \in Nat /\ e.expires \in Nat
      BY <1>c, <3>2, Numbers DEF AgeWhenRead
    <3> HIDE DEF e
    <3>4. e.expires < e.snap.gen + AgeWhenRead(e) + Patience + L
      BY <1>c, <3>1, <3>3
    <3>5. EntryOK(e, L, counted')
      BY <1>c, <3>1, <3>4 DEF EntryOK
    <3>6. QED BY <2>3, <3>5 DEF e
  <2>4. QED BY <2>1, <2>2, <2>3, CacheSteps
<1>4. QED BY <1>1, <1>2, <1>3 DEF AnswerInv

LEMMA InitAnswer == Init => AnswerInv
BY Basics DEF Init, AnswerInv, AnswerOK, WarmOK, EntryOK

LEMMA AnswerAlways == Spec => [](TypeInv /\ MarketInv /\ AnswerInv)
BY InitType, NextType, InitMarket, MarketStep, InitAnswer, AnswerInvStep, PTL DEF Spec

LEMMA CountedFromInv == TypeInv /\ MarketInv /\ AnswerInv => AnswersWereCounted
<1> SUFFICES ASSUME TypeInv, MarketInv, AnswerInv, NEW s \in Answers, s # NoSnapshot
             PROVE  s.version \in counted
  BY DEF AnswersWereCounted
<1>1. CASE \E p \in Processes : s = local[p].snap
  BY <1>1, Basics DEF AnswerInv, EntryOK
<1>2. CASE s = redis.snap
  BY <1>2, Basics DEF AnswerInv, EntryOK
<1>3. CASE \E r \in Requests : op[r].pc \in {"averages", "share"} /\ s = op[r].seen
  BY <1>3, Basics DEF MarketInv, OpFact
<1>5. CASE \E r \in Requests : op[r].pc = "warm" /\ s = op[r].seen
  BY <1>5 DEF AnswerInv, WarmOK
<1>4. QED BY <1>1, <1>2, <1>3, <1>5 DEF Answers

(* Nothing is served that is not in the aggregates: what a request hands   *)
(* to the caches was committed, or was in the database, or in a cache.     *)
THEOREM AnswersAreCounted == Spec => []AnswersWereCounted
BY AnswerAlways, CountedFromInv, PTL

LEMMA RecentFromInv == TypeInv /\ AnswerInv => AnswersAreRecent
<1> SUFFICES ASSUME TypeInv, AnswerInv PROVE AnswersAreRecent
  OBVIOUS
<1>c. /\ clock \in Nat /\ LocalTtl \in Nat \ {0} /\ RedisTtl \in Nat \ {0}
      /\ Patience \in Nat /\ CacheTtl \in Nat /\ StaleLimit \in Nat
  BY Basics, Numbers
<1>1. ASSUME NEW e \in Entry \cup {NoEntry}, NEW L \in Nat, EntryOK(e, L, counted), Live(e)
      PROVE  clock - e.snap.gen < AgeWhenRead(e) + Patience + L - 1
  <2>1. e \in Entry /\ e # NoEntry /\ clock < e.expires
    BY <1>c, <1>1, Basics DEF Live
  <2>2. e.expires < e.snap.gen + AgeWhenRead(e) + Patience + L
    BY <1>1, <2>1 DEF EntryOK
  <2>3. e.expires \in Nat /\ e.snap.gen \in Nat /\ AgeWhenRead(e) \in Nat
    BY <1>c, <2>1, Basics DEF Entry, Snapshot, Times, AgeWhenRead
  <2>4. QED BY <1>c, <2>1, <2>2, <2>3
<1>2. redis \in Entry \cup {NoEntry} /\ \A p \in Processes : local[p] \in Entry \cup {NoEntry}
  BY DEF TypeInv, TypeOK
<1>3. Live(redis) => clock - redis.snap.gen < AgeWhenRead(redis) + Patience + RedisTtl - 1
  BY <1>c, <1>1, <1>2 DEF AnswerInv
<1>4. ASSUME NEW p \in Processes, Live(local[p])
      PROVE  clock - local[p].snap.gen
                 < AgeWhenRead(local[p]) + 2 * Patience + RedisTtl + LocalTtl - 2
  <2>1. Patience + RedisTtl + LocalTtl - 1 \in Nat
    BY <1>c
  <2>2. clock - local[p].snap.gen
          < AgeWhenRead(local[p]) + Patience + (Patience + RedisTtl + LocalTtl - 1) - 1
    BY <1>1, <1>2, <1>4, <2>1 DEF AnswerInv
  <2>3. AgeWhenRead(local[p]) \in Nat
    BY <1>c DEF AgeWhenRead
  <2>4. local[p].snap.gen \in Nat
    BY <1>c, <1>2, <1>4, Basics DEF Entry, Snapshot, Times, Live
  <2>5. QED BY <1>c, <2>2, <2>3, <2>4
<1>5. QED BY <1>3, <1>4 DEF AnswersAreRecent

(* The ages add up: an answer is as old as its read allowed, plus what the *)
(* request lasted and the one that copied it from Redis, plus one lifetime *)
(* in Redis and one in the process.                                        *)
THEOREM AnswersStayRecent == Spec => []AnswersAreRecent
BY AnswerAlways, RecentFromInv, PTL
=============================================================================
