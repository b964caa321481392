------------------------ MODULE RateLimiter_proofs -------------------------
(***************************************************************************)
(* The limiters are window counters, for any rules, workers and attempts.  *)
(*                                                                         *)
(* The argument: a row is deleted only when its window has been over for   *)
(* longer than any request waits (CountsKept), so the row a request counts *)
(* in says how many its window has admitted.  And a request that tries a   *)
(* second time does so because its row exists by then (SecondTry): it is   *)
(* admitted, or it finds the limit reached.                                *)
(***************************************************************************)
EXTENDS RateLimiter, TLAPS

Busy(w) == op[w].pc # "idle"

InTime ==
    \A w \in Workers : Busy(w) =>
        op[w].now <= clock /\ clock <= op[w].now + MaxDelay

CountsKept ==
    \A k \in Keys, b \in Times :
        rows[k][b] # admitted[k][b] => b + Window[k] + MaxDelay < clock

SecondTry ==
    \A w \in Workers : Busy(w) /\ op[w].attempt > 1 =>
        /\ op[w].pc # "insert"
        /\ op[w].pc = "count" => CountOf(w) > 0
        /\ op[w].pc = "select" => CountOf(w) >= Limit[KeyOf(w)]

IInv == TypeOK /\ InTime /\ CountsKept /\ SecondTry

(* The window of a moment begins at or before it and ends after it. *)
LEMMA StartFacts ==
    ASSUME NEW k \in Keys, NEW n \in Nat
    PROVE  Start(k, n) \in Nat /\ Start(k, n) <= n /\ n < Start(k, n) + Window[k]
<1>1. Window[k] \in Nat /\ Window[k] > 0
  BY WindowAssumption
<1>2. n % Window[k] \in Nat /\ n % Window[k] < Window[k]
  BY <1>1
<1>3. n % Window[k] <= n
  <2> DEFINE q == Window[k] * (n \div Window[k])
             r == n % Window[k]
  <2>1. n = q + r /\ n \div Window[k] \in Nat
    BY <1>1
  <2>2. q \in Nat /\ r \in Nat
    BY <1>1, <1>2, <2>1
  <2> HIDE DEF q, r
  <2>3. r <= n
    BY <2>1, <2>2
  <2>4. QED BY <2>3 DEF r
<1>4. QED BY <1>1, <1>2, <1>3 DEF Start

(* What a worker at work knows: its key, its moment, its window. *)
LEMMA BusyFacts ==
    ASSUME TypeOK, NEW w \in Workers, Busy(w)
    PROVE  /\ op[w] \in Operation
           /\ KeyOf(w) \in Keys /\ op[w].now \in Times /\ op[w].now \in Nat
           /\ StartOf(w) \in Times
           /\ CountOf(w) \in Nat
           /\ op[w].now < StartOf(w) + Window[KeyOf(w)]
           /\ Limit[KeyOf(w)] \in Nat \ {0}
<1>1. op[w] \in Operation
  BY DEF TypeOK, Busy, Idle
<1>2. KeyOf(w) \in Keys /\ op[w].now \in Times /\ op[w].now \in Nat
  BY <1>1 DEF Operation, KeyOf, Times
<1>3. StartOf(w) \in Nat /\ StartOf(w) <= op[w].now /\ op[w].now < StartOf(w) + Window[KeyOf(w)]
  BY <1>2, StartFacts DEF StartOf, KeyOf
<1>4. StartOf(w) \in Times
  BY <1>2, <1>3, WindowAssumption DEF Times
<1>5. CountOf(w) \in Nat
  BY <1>2, <1>4 DEF TypeOK, CountOf
<1>6. QED BY <1>1, <1>2, <1>3, <1>4, <1>5, WindowAssumption

(* The row a request counts in is the history of its window. *)
LEMMA RowIsHistory ==
    ASSUME IInv, NEW w \in Workers, Busy(w)
    PROVE  CountOf(w) = admitted[KeyOf(w)][StartOf(w)]
<1>1. TypeOK
  BY DEF IInv
<1>2. /\ KeyOf(w) \in Keys /\ StartOf(w) \in Times
      /\ op[w].now \in Nat /\ op[w].now < StartOf(w) + Window[KeyOf(w)]
  BY <1>1, BusyFacts
<1>3. Window[KeyOf(w)] \in Nat /\ MaxDelay \in Nat /\ clock \in Nat /\ StartOf(w) \in Nat
  BY <1>1, <1>2, WindowAssumption DEF TypeOK, Times
<1>4. clock <= op[w].now + MaxDelay
  BY DEF IInv, InTime
<1>5. ~(StartOf(w) + Window[KeyOf(w)] + MaxDelay < clock)
  BY <1>2, <1>3, <1>4
<1>6. QED BY <1>2, <1>5 DEF IInv, CountsKept, CountOf

(* A row that a request deletes is beyond anybody's reach. *)
LEMMA StaleIsOld ==
    ASSUME IInv, NEW w \in Workers, Busy(w), NEW k \in Keys, NEW b \in Times,
           b < StaleBefore(op[w].key, op[w].now)
    PROVE  b + Window[k] + MaxDelay < clock
<1> DEFINE j == op[w].key  n == op[w].now
<1>1. TypeOK /\ j \in Keys /\ n \in Nat /\ n <= clock /\ clock \in Nat /\ b \in Nat
  BY BusyFacts DEF IInv, InTime, KeyOf, TypeOK, Times
<1>2. Start(j, n) \in Nat /\ Start(j, n) <= n
  BY <1>1, StartFacts
<1>3. KeepWindows * Window[j] \in Nat
  BY <1>1, WindowAssumption
<1>4. Window[k] + MaxDelay <= KeepWindows * Window[j]
  BY <1>1, KeepAssumption
<1>5. Window[k] \in Nat /\ MaxDelay \in Nat
  BY WindowAssumption
<1>6. b < Start(j, n) - KeepWindows * Window[j]
  BY DEF StaleBefore
<1> HIDE DEF j, n
<1>7. QED BY <1>1, <1>2, <1>3, <1>4, <1>5, <1>6

(* Deleting rows leaves a table of counts. *)
LEMMA PrunedFacts ==
    ASSUME NEW table \in [Keys -> [Times -> Nat]], NEW before
    PROVE  /\ Pruned(table, before) \in [Keys -> [Times -> Nat]]
           /\ \A k \in Keys, b \in Times :
                Pruned(table, before)[k][b] = IF b < before THEN 0 ELSE table[k][b]
<1>1. \A k \in Keys : [b \in Times |-> IF b < before THEN 0 ELSE table[k][b]] \in [Times -> Nat]
  OBVIOUS
<1>2. QED BY <1>1 DEF Pruned

LEMMA RaisedFacts ==
    ASSUME TypeOK, NEW w \in Workers, Busy(w), NEW table \in [Keys -> [Times -> Nat]]
    PROVE  /\ Raised(table, w) \in [Keys -> [Times -> Nat]]
           /\ \A k \in Keys, b \in Times :
                Raised(table, w)[k][b] =
                    IF k = KeyOf(w) /\ b = StartOf(w) THEN table[k][b] + 1 ELSE table[k][b]
BY BusyFacts DEF Raised

THEOREM Initially == Init => IInv
<1> SUFFICES ASSUME Init PROVE IInv
  OBVIOUS
<1>1. TypeOK
  BY WindowAssumption DEF Init, TypeOK, NoRows, Times
<1>2. InTime /\ SecondTry
  BY DEF Init, InTime, SecondTry, Busy, Idle
<1>3. CountsKept
  BY DEF Init, CountsKept
<1>4. QED BY <1>1, <1>2, <1>3 DEF IInv

(***************************************************************************)
(* One step of one worker: a table that is raised where the history is,    *)
(* and pruned of what is old, keeps CountsKept and what others know.       *)
(***************************************************************************)
LEMMA TableStep ==
    ASSUME IInv, NEW w \in Workers, Busy(w), clock' = clock,
           \/ rows' = PrunedBy(w, Raised(rows, w)) /\ admitted' = Raised(admitted, w)
           \/ rows' = PrunedBy(w, rows) /\ admitted' = admitted
           \/ rows' = rows /\ admitted' = admitted
    PROVE  /\ rows' \in [Keys -> [Times -> Nat]] /\ admitted' \in [Keys -> [Times -> Nat]]
           /\ CountsKept'
           /\ \A v \in Workers : Busy(v) => rows'[KeyOf(v)][StartOf(v)] >= CountOf(v)
<1> DEFINE before == StaleBefore(op[w].key, op[w].now)
<1>1. /\ TypeOK /\ rows \in [Keys -> [Times -> Nat]] /\ admitted \in [Keys -> [Times -> Nat]]
      /\ clock \in Nat /\ MaxDelay \in Nat
  BY WindowAssumption DEF IInv, TypeOK, Times
<1>2. /\ Raised(rows, w) \in [Keys -> [Times -> Nat]]
      /\ Raised(admitted, w) \in [Keys -> [Times -> Nat]]
      /\ \A k \in Keys, b \in Times :
           /\ Raised(rows, w)[k][b] =
                IF k = KeyOf(w) /\ b = StartOf(w) THEN rows[k][b] + 1 ELSE rows[k][b]
           /\ Raised(admitted, w)[k][b] =
                IF k = KeyOf(w) /\ b = StartOf(w) THEN admitted[k][b] + 1 ELSE admitted[k][b]
  BY <1>1, RaisedFacts
<1> HIDE DEF before
<1>3. ASSUME NEW t \in [Keys -> [Times -> Nat]]
      PROVE  /\ PrunedBy(w, t) \in [Keys -> [Times -> Nat]]
             /\ \A k \in Keys, b \in Times :
                  PrunedBy(w, t)[k][b] = IF b < before THEN 0 ELSE t[k][b]
  BY <1>3, PrunedFacts DEF PrunedBy, before
<1>4. rows' \in [Keys -> [Times -> Nat]] /\ admitted' \in [Keys -> [Times -> Nat]]
  BY <1>1, <1>2, <1>3
<1>5. ASSUME NEW k \in Keys, NEW b \in Times, b < before
      PROVE  b + Window[k] + MaxDelay < clock
  BY <1>5, StaleIsOld DEF before
<1>6. ASSUME NEW k \in Keys, NEW b \in Times
      PROVE  /\ ~(b < before) => rows'[k][b] >= rows[k][b]
             /\ ~(b < before) => (rows'[k][b] # admitted'[k][b] => rows[k][b] # admitted[k][b])
             /\ rows[k][b] \in Nat /\ admitted[k][b] \in Nat
  <2>0. rows[k][b] \in Nat /\ admitted[k][b] \in Nat
    BY <1>1
  <2>1. CASE rows' = PrunedBy(w, Raised(rows, w)) /\ admitted' = Raised(admitted, w)
    BY <1>2, <1>3, <2>0, <2>1
  <2>2. CASE rows' = PrunedBy(w, rows) /\ admitted' = admitted
    BY <1>1, <1>3, <2>0, <2>2
  <2>3. CASE rows' = rows /\ admitted' = admitted
    BY <2>0, <2>3
  <2>4. QED BY <2>0, <2>1, <2>2, <2>3
<1>7. CountsKept'
  <2> SUFFICES ASSUME NEW k \in Keys, NEW b \in Times, rows'[k][b] # admitted'[k][b]
               PROVE  b + Window[k] + MaxDelay < clock
    BY DEF CountsKept
  <2>1. CASE b < before
    BY <1>5, <2>1
  <2>2. CASE ~(b < before)
    BY <1>6, <2>2 DEF IInv, CountsKept
  <2>3. QED BY <2>1, <2>2
<1>8. ASSUME NEW v \in Workers, Busy(v)
      PROVE  rows'[KeyOf(v)][StartOf(v)] >= CountOf(v)
  <2>1. KeyOf(v) \in Keys /\ StartOf(v) \in Times /\ op[v].now \in Nat
        /\ op[v].now < StartOf(v) + Window[KeyOf(v)]
    BY <1>1, <1>8, BusyFacts
  <2>2. clock <= op[v].now + MaxDelay
    BY <1>8 DEF IInv, InTime
  <2>3. Window[KeyOf(v)] \in Nat /\ StartOf(v) \in Nat
    BY <2>1, WindowAssumption DEF Times
  <2>4. ~(StartOf(v) + Window[KeyOf(v)] + MaxDelay < clock)
    BY <1>1, <2>1, <2>2, <2>3
  <2>5. ~(StartOf(v) < before)
    BY <1>5, <2>1, <2>4
  <2>6. QED BY <1>6, <2>1, <2>5 DEF CountOf
<1>9. QED BY <1>4, <1>7, <1>8

(* A worker that leaves or goes on, while the others stay where they are.  *)
LEMMA WorkerStep ==
    ASSUME IInv, NEW w \in Workers, Busy(w), clock' = clock, store' = store,
           rows' \in [Keys -> [Times -> Nat]], admitted' \in [Keys -> [Times -> Nat]],
           CountsKept',
           \A v \in Workers : Busy(v) => rows'[KeyOf(v)][StartOf(v)] >= CountOf(v),
           NEW o \in Operation \cup {Idle}, op' = [op EXCEPT ![w] = o],
           o # Idle => /\ o.key = op[w].key /\ o.now = op[w].now
                       /\ o.attempt > 1 =>
                            /\ o.pc # "insert"
                            /\ o.pc = "count" => rows'[KeyOf(w)][StartOf(w)] > 0
                            /\ o.pc = "select" => rows'[KeyOf(w)][StartOf(w)] >= Limit[KeyOf(w)]
    PROVE  IInv'
<1>1. TypeOK /\ op \in [Workers -> Operation \cup {Idle}]
  BY DEF IInv, TypeOK
<1>2. TypeOK'
  BY <1>1 DEF TypeOK
<1>3. op'[w] = o /\ \A v \in Workers \ {w} : op'[v] = op[v]
  BY <1>1
<1>4. Busy(w)' => o # Idle
  BY <1>3 DEF Busy, Idle
<1>5. InTime'
  <2> SUFFICES ASSUME NEW v \in Workers, Busy(v)'
               PROVE  op'[v].now <= clock /\ clock <= op'[v].now + MaxDelay
    BY DEF InTime
  <2>1. CASE v = w
    BY <1>3, <1>4, <2>1 DEF IInv, InTime
  <2>2. CASE v # w
    BY <1>3, <2>2 DEF IInv, InTime, Busy
  <2>3. QED BY <2>1, <2>2
<1>6. SecondTry'
  <2> SUFFICES ASSUME NEW v \in Workers, Busy(v)', op'[v].attempt > 1
               PROVE  /\ op'[v].pc # "insert"
                      /\ op'[v].pc = "count" => CountOf(v)' > 0
                      /\ op'[v].pc = "select" => CountOf(v)' >= Limit[KeyOf(v)']
    BY DEF SecondTry
  <2>1. CASE v = w
    <3>1. KeyOf(w)' = KeyOf(w) /\ StartOf(w)' = StartOf(w)
      BY <1>3, <1>4, <2>1 DEF KeyOf, StartOf
    <3>2. CountOf(w)' = rows'[KeyOf(w)][StartOf(w)]
      BY <3>1 DEF CountOf
    <3>3. QED BY <1>3, <1>4, <2>1, <3>1, <3>2
  <2>2. CASE v # w
    <3>1. op'[v] = op[v] /\ Busy(v)
      BY <1>3, <2>2 DEF Busy
    <3>2. KeyOf(v)' = KeyOf(v) /\ CountOf(v)' = rows'[KeyOf(v)][StartOf(v)]
      BY <3>1 DEF KeyOf, StartOf, CountOf
    <3>3. CountOf(v)' >= CountOf(v) /\ CountOf(v) \in Nat /\ Limit[KeyOf(v)] \in Nat
      BY <1>1, <3>1, <3>2, BusyFacts
    <3>4. KeyOf(v) \in Keys /\ StartOf(v) \in Times
      BY <1>1, <3>1, BusyFacts
    <3>5. CountOf(v)' \in Nat
      BY <3>2, <3>4
    <3>6. /\ op[v].pc # "insert"
          /\ op[v].pc = "count" => CountOf(v) > 0
          /\ op[v].pc = "select" => CountOf(v) >= Limit[KeyOf(v)]
      BY <3>1 DEF IInv, SecondTry
    <3>7. QED BY <3>1, <3>2, <3>3, <3>5, <3>6
  <2>3. QED BY <2>1, <2>2
<1>7. QED BY <1>2, <1>5, <1>6 DEF IInv

(* What Admit and Refuse need of the state to be the abstract actions. *)
LEMMA AdmitRefines ==
    ASSUME IInv, NEW w \in Workers, Busy(w), Admit(w), CountOf(w) < Limit[KeyOf(w)]
    PROVE  IInv' /\ [Counter!Next]_<<admitted, answer>>
<1>1. TypeOK /\ rows \in [Keys -> [Times -> Nat]] /\ admitted \in [Keys -> [Times -> Nat]]
  BY DEF IInv, TypeOK
<1>2. /\ KeyOf(w) \in Keys /\ StartOf(w) \in Times
      /\ CountOf(w) = admitted[KeyOf(w)][StartOf(w)]
  BY <1>1, BusyFacts, RowIsHistory
<1>3. IInv'
  <2>1. /\ rows' \in [Keys -> [Times -> Nat]] /\ admitted' \in [Keys -> [Times -> Nat]]
        /\ CountsKept'
        /\ \A v \in Workers : Busy(v) => rows'[KeyOf(v)][StartOf(v)] >= CountOf(v)
    BY TableStep DEF Admit
  <2>2. op' = [op EXCEPT ![w] = Idle] /\ clock' = clock /\ store' = store
    BY DEF Admit, Leave
  <2>3. QED BY <2>1, <2>2, WorkerStep
<1>4. Counter!Admit(KeyOf(w), StartOf(w))
  BY <1>2 DEF Admit, Raised, Counter!Admit
<1>5. QED BY <1>2, <1>3, <1>4 DEF Counter!Next

LEMMA RefuseRefines ==
    ASSUME IInv, NEW w \in Workers, Busy(w), Refuse(w), CountOf(w) >= Limit[KeyOf(w)],
           rows' = PrunedBy(w, rows) \/ rows' = rows
    PROVE  IInv' /\ [Counter!Next]_<<admitted, answer>>
<1>1. TypeOK
  BY DEF IInv
<1>2. /\ KeyOf(w) \in Keys /\ StartOf(w) \in Times
      /\ CountOf(w) = admitted[KeyOf(w)][StartOf(w)]
  BY <1>1, BusyFacts, RowIsHistory
<1>3. IInv'
  <2>1. /\ rows' \in [Keys -> [Times -> Nat]] /\ admitted' \in [Keys -> [Times -> Nat]]
        /\ CountsKept'
        /\ \A v \in Workers : Busy(v) => rows'[KeyOf(v)][StartOf(v)] >= CountOf(v)
    BY TableStep DEF Refuse
  <2>2. op' = [op EXCEPT ![w] = Idle] /\ clock' = clock /\ store' = store
    BY DEF Refuse, Leave
  <2>3. QED BY <2>1, <2>2, WorkerStep
<1>4. Counter!Refuse(KeyOf(w), StartOf(w))
  BY <1>2 DEF Refuse, Counter!Refuse
<1>5. QED BY <1>2, <1>3, <1>4 DEF Counter!Next

(* A worker goes on to another statement; the tables are as they were. *)
LEMMA MoveRefines ==
    ASSUME IInv, NEW w \in Workers, Busy(w), clock' = clock, store' = store,
           rows' = PrunedBy(w, rows) \/ rows' = rows,
           admitted' = admitted, answer' = answer,
           NEW o \in Operation \cup {Idle}, op' = [op EXCEPT ![w] = o],
           o # Idle => /\ o.key = op[w].key /\ o.now = op[w].now
                       /\ o.attempt > 1 =>
                            /\ o.pc # "insert"
                            /\ o.pc = "count" => CountOf(w) > 0
                            /\ o.pc = "select" => CountOf(w) >= Limit[KeyOf(w)]
    PROVE  IInv' /\ [Counter!Next]_<<admitted, answer>>
<1>1. /\ rows' \in [Keys -> [Times -> Nat]] /\ admitted' \in [Keys -> [Times -> Nat]]
      /\ CountsKept'
      /\ \A v \in Workers : Busy(v) => rows'[KeyOf(v)][StartOf(v)] >= CountOf(v)
  BY TableStep
<1>2. /\ KeyOf(w) \in Keys /\ StartOf(w) \in Times /\ CountOf(w) \in Nat
      /\ Limit[KeyOf(w)] \in Nat
  BY BusyFacts DEF IInv
<1>3. rows'[KeyOf(w)][StartOf(w)] >= CountOf(w) /\ rows'[KeyOf(w)][StartOf(w)] \in Nat
  BY <1>1, <1>2
<1>4. o # Idle => /\ o.key = op[w].key /\ o.now = op[w].now
                  /\ o.attempt > 1 =>
                       /\ o.pc # "insert"
                       /\ o.pc = "count" => rows'[KeyOf(w)][StartOf(w)] > 0
                       /\ o.pc = "select" => rows'[KeyOf(w)][StartOf(w)] >= Limit[KeyOf(w)]
  BY <1>2, <1>3
<1>5. IInv'
  BY <1>1, <1>4, WorkerStep
<1>6. QED BY <1>5

(* The loop of attempts: nobody gets as far as giving up. *)
LEMMA TryAgainRefines ==
    ASSUME IInv, NEW w \in Workers, Busy(w), TryAgain(w), op[w].attempt = 1,
           CountOf(w) > 0, rows' = PrunedBy(w, rows) \/ rows' = rows
    PROVE  IInv' /\ [Counter!Next]_<<admitted, answer>>
<1> DEFINE o == [op[w] EXCEPT !.pc = "count", !.attempt = @ + 1]
<1>1. op[w] \in Operation /\ op \in [Workers -> Operation \cup {Idle}]
  BY BusyFacts DEF IInv, TypeOK
<1>2. /\ op[w].attempt < Attempts /\ op' = [op EXCEPT ![w] = o]
      /\ store' = store /\ clock' = clock /\ admitted' = admitted /\ answer' = answer
  BY <1>1, WindowAssumption DEF TryAgain
<1>3. /\ o \in Operation /\ o.pc = "count" /\ o.key = op[w].key /\ o.now = op[w].now
  <2>1. 2 \in 1..Attempts
    BY WindowAssumption
  <2>2. op[w].attempt + 1 = 2
    OBVIOUS
  <2>3. QED BY <1>1, <2>1, <2>2 DEF Operation
<1>4. QED BY <1>2, <1>3, MoveRefines

LEMMA StepRefines ==
    ASSUME IInv, NEW w \in Workers, Allow(w)
    PROVE  IInv' /\ [Counter!Next]_<<admitted, answer>>
<1>1. /\ TypeOK /\ op \in [Workers -> Operation \cup {Idle}]
      /\ clock \in Times /\ rows \in [Keys -> [Times -> Nat]]
      /\ Busy(w) => /\ op[w] \in Operation /\ CountOf(w) \in Nat
                    /\ Limit[KeyOf(w)] \in Nat \ {0}
                    /\ op[w].attempt \in 1..Attempts
  BY BusyFacts DEF IInv, TypeOK, Operation
<1>2. Busy(w) /\ op[w].attempt > 1 =>
        /\ op[w].pc # "insert"
        /\ op[w].pc = "count" => CountOf(w) > 0
        /\ op[w].pc = "select" => CountOf(w) >= Limit[KeyOf(w)]
  BY DEF IInv, SecondTry
<1>3. ASSUME NEW k \in Keys, Arrive(w, k)
      PROVE  IInv' /\ [Counter!Next]_<<admitted, answer>>
  <2> DEFINE o == [pc |-> "count", key |-> k, now |-> clock, attempt |-> 1]
  <2>1. o \in Operation
    BY <1>1, WindowAssumption DEF Operation
  <2>2. op'[w] = o /\ (\A v \in Workers \ {w} : op'[v] = op[v])
        /\ op' \in [Workers -> Operation \cup {Idle}]
    BY <1>1, <1>3, <2>1 DEF Arrive
  <2>3. UNCHANGED <<store, clock, rows, admitted, answer>>
    BY <1>3 DEF Arrive
  <2>4. TypeOK' /\ CountsKept'
    BY <2>2, <2>3 DEF IInv, TypeOK, CountsKept
  <2>5. InTime'
    <3>1. clock \in Nat /\ MaxDelay \in Nat
      BY <1>1, WindowAssumption DEF Times
    <3>2. op'[w].now = clock /\ clock' = clock
      BY <2>2, <2>3
    <3>3. op'[w].now <= clock' /\ clock' <= op'[w].now + MaxDelay
      BY <3>1, <3>2
    <3>4. QED BY <2>2, <2>3, <3>3 DEF IInv, InTime, Busy
  <2>6. SecondTry'
    <3> SUFFICES ASSUME NEW v \in Workers, Busy(v)', op'[v].attempt > 1
                 PROVE  /\ op'[v].pc # "insert"
                        /\ op'[v].pc = "count" => CountOf(v)' > 0
                        /\ op'[v].pc = "select" => CountOf(v)' >= Limit[KeyOf(v)']
      BY DEF SecondTry
    <3>1. v # w /\ op'[v] = op[v] /\ Busy(v)
      BY <2>2 DEF Busy
    <3>2. CountOf(v)' = CountOf(v) /\ KeyOf(v)' = KeyOf(v)
      BY <2>3, <3>1 DEF CountOf, KeyOf, StartOf
    <3>3. QED BY <3>1, <3>2 DEF IInv, SecondTry
  <2>7. QED BY <2>3, <2>4, <2>5, <2>6 DEF IInv
<1>4. CASE AllowAtOnce(w)
  <2>1. Busy(w)
    BY <1>4 DEF AllowAtOnce, Busy
  <2>2. CASE CountOf(w) < Limit[KeyOf(w)] /\ Admit(w)
    BY <2>1, <2>2, AdmitRefines
  <2>3. CASE CountOf(w) >= Limit[KeyOf(w)] /\ Refuse(w) /\ rows' = PrunedBy(w, rows)
    BY <2>1, <2>3, RefuseRefines
  <2>4. QED BY <1>4, <2>2, <2>3 DEF AllowAtOnce
<1>5. CASE CountHit(w)
  <2>1. Busy(w) /\ Admit(w) /\ CountOf(w) \in 1..(Limit[KeyOf(w)] - 1)
    BY <1>5 DEF CountHit, Busy
  <2>2. CountOf(w) < Limit[KeyOf(w)]
    BY <1>1, <2>1
  <2>3. QED BY <2>1, <2>2, AdmitRefines
<1>6. CASE CountMiss(w)
  <2> DEFINE o == [op[w] EXCEPT !.pc = "select"]
  <2>1. Busy(w) /\ op[w].pc = "count" /\ CountOf(w) \notin 1..(Limit[KeyOf(w)] - 1)
        /\ op' = [op EXCEPT ![w] = o]
        /\ UNCHANGED <<store, clock, rows, admitted, answer>>
    BY <1>1, <1>6 DEF CountMiss, MoveTo, Busy
  <2>2. o \in Operation /\ o.pc = "select" /\ o.key = op[w].key /\ o.now = op[w].now
        /\ o.attempt = op[w].attempt
    BY <1>1, <2>1 DEF Operation
  <2>3. o.attempt > 1 => CountOf(w) >= Limit[KeyOf(w)]
    BY <1>1, <1>2, <2>1, <2>2
  <2>4. QED BY <2>1, <2>2, <2>3, MoveRefines
<1>7. CASE SelectFull(w)
  <2>1. Busy(w) /\ Refuse(w) /\ CountOf(w) >= Limit[KeyOf(w)] /\ rows' = PrunedBy(w, rows)
    BY <1>7 DEF SelectFull, Busy
  <2>2. QED BY <2>1, RefuseRefines
<1>8. CASE SelectRoom(w)
  <2>1. Busy(w) /\ TryAgain(w) /\ CountOf(w) \in 1..(Limit[KeyOf(w)] - 1)
        /\ rows' = PrunedBy(w, rows) /\ op[w].pc = "select"
    BY <1>8 DEF SelectRoom, Busy
  <2>2. CountOf(w) > 0 /\ op[w].attempt = 1
    BY <1>1, <1>2, <2>1
  <2>3. QED BY <2>1, <2>2, TryAgainRefines
<1>9. CASE SelectNone(w)
  <2> DEFINE o == [op[w] EXCEPT !.pc = "insert"]
  <2>1. Busy(w) /\ op[w].pc = "select" /\ CountOf(w) = 0
        /\ op' = [op EXCEPT ![w] = o]
        /\ UNCHANGED <<store, clock, rows, admitted, answer>>
    BY <1>1, <1>9 DEF SelectNone, MoveTo, Busy
  <2>2. o \in Operation /\ o.pc = "insert" /\ o.key = op[w].key /\ o.now = op[w].now
        /\ o.attempt = op[w].attempt
    BY <1>1, <2>1 DEF Operation
  <2>3. ~(o.attempt > 1)
    BY <1>1, <1>2, <2>1, <2>2
  <2>4. QED BY <2>1, <2>2, <2>3, MoveRefines
<1>10. CASE Insert(w)
  <2>1. Busy(w) /\ Admit(w) /\ CountOf(w) < Limit[KeyOf(w)]
    BY <1>1, <1>10 DEF Insert, Busy
  <2>2. QED BY <2>1, AdmitRefines
<1>11. CASE InsertDuplicate(w)
  <2>1. Busy(w) /\ TryAgain(w) /\ CountOf(w) > 0 /\ rows' = rows /\ op[w].pc = "insert"
    BY <1>11 DEF InsertDuplicate, Busy
  <2>2. op[w].attempt = 1
    BY <1>1, <1>2, <2>1
  <2>3. QED BY <2>1, <2>2, TryAgainRefines
<1>12. CASE Raise(w)
  <2>1. Busy(w) /\ op' = [op EXCEPT ![w] = Idle]
        /\ UNCHANGED <<store, clock, rows, admitted, answer>>
    BY <1>12 DEF Raise, Leave, Busy
  <2>2. QED BY <2>1, MoveRefines
<1>13. QED BY <1>3, <1>4, <1>5, <1>6, <1>7, <1>8, <1>9, <1>10, <1>11, <1>12 DEF Allow

LEMMA NextRefines == IInv /\ [Next]_vars => IInv' /\ [Counter!Next]_<<admitted, answer>>
<1> SUFFICES ASSUME IInv, [Next]_vars
             PROVE  IInv' /\ [Counter!Next]_<<admitted, answer>>
  OBVIOUS
<1>1. CASE \E w \in Workers : Allow(w)
  BY <1>1, StepRefines
<1>2. CASE Retention
  <2>1. /\ clock \in Nat /\ rows \in [Keys -> [Times -> Nat]]
        /\ admitted \in [Keys -> [Times -> Nat]] /\ TypeOK
    BY DEF IInv, TypeOK, Times
  <2>2. UNCHANGED <<store, clock, op, admitted, answer>>
    BY <1>2 DEF Retention
  <2>3. rows' \in [Keys -> [Times -> Nat]]
        /\ \A k \in Keys, b \in Times :
             rows'[k][b] = IF b < clock - RetentionAge THEN 0 ELSE rows[k][b]
    BY <1>2, <2>1, PrunedFacts DEF Retention
  <2>4. ASSUME NEW k \in Keys, NEW b \in Times, b < clock - RetentionAge
        PROVE  b + Window[k] + MaxDelay < clock
    <3>1. Window[k] \in Nat /\ MaxDelay \in Nat /\ RetentionAge \in Nat /\ b \in Nat
          /\ Window[k] + MaxDelay <= RetentionAge
      BY WindowAssumption, KeepAssumption DEF Times
    <3>2. QED BY <2>1, <2>4, <3>1
  <2>5. CountsKept'
    BY <2>2, <2>3, <2>4 DEF IInv, CountsKept
  <2>6. TypeOK' /\ InTime'
    BY <2>2, <2>3 DEF IInv, TypeOK, InTime, Busy
  <2>7. SecondTry'
    <3> SUFFICES ASSUME NEW v \in Workers, Busy(v) PROVE CountOf(v)' = CountOf(v)
      BY <2>2 DEF IInv, SecondTry, Busy, KeyOf
    <3>1. KeyOf(v) \in Keys /\ StartOf(v) \in Times /\ op[v].now \in Nat
          /\ op[v].now < StartOf(v) + Window[KeyOf(v)] /\ clock <= op[v].now + MaxDelay
      BY <2>1, BusyFacts DEF IInv, InTime
    <3>2. Window[KeyOf(v)] \in Nat /\ MaxDelay \in Nat /\ StartOf(v) \in Nat
      BY <3>1, WindowAssumption DEF Times
    <3>3. ~(StartOf(v) < clock - RetentionAge)
      BY <2>1, <2>4, <3>1, <3>2
    <3>4. QED BY <2>2, <2>3, <3>1, <3>3 DEF CountOf, KeyOf, StartOf
  <2>8. QED BY <2>2, <2>5, <2>6, <2>7 DEF IInv
<1>3. CASE Restart
  <2>1. \A w \in Workers : op'[w].pc = "idle" /\ op'[w] = Idle
    BY <1>3 DEF Restart, Idle
  <2>2. op' \in [Workers -> Operation \cup {Idle}] /\ store' = store /\ clock' = clock
    BY <1>3 DEF Restart
  <2>3. NoRows \in [Keys -> [Times -> Nat]]
    BY DEF NoRows
  <2>4. CASE rows' = NoRows /\ admitted' = NoRows /\ answer' = <<>>
    <3>1. IInv'
      BY <2>1, <2>2, <2>3, <2>4 DEF IInv, TypeOK, InTime, CountsKept, SecondTry, Busy
    <3>2. Counter!Reset
      BY <2>4 DEF Counter!Reset, NoRows
    <3>3. QED BY <3>1, <3>2 DEF Counter!Next
  <2>5. CASE UNCHANGED <<rows, admitted, answer>>
    BY <2>1, <2>2, <2>5 DEF IInv, TypeOK, InTime, CountsKept, SecondTry, Busy
  <2>6. QED BY <1>3, <2>4, <2>5 DEF Restart
<1>4. CASE Tick
  <2>1. /\ clock \in Times /\ clock' = clock + 1 /\ clock < MaxTime
        /\ UNCHANGED <<store, rows, op, admitted, answer>>
        /\ \A w \in Workers : Busy(w) => clock < op[w].now + MaxDelay
    BY <1>4 DEF Tick, Busy, IInv, TypeOK
  <2>2. TypeOK'
    BY <2>1, WindowAssumption DEF IInv, TypeOK, Times
  <2>3. InTime'
    <3> SUFFICES ASSUME NEW w \in Workers, Busy(w)
                 PROVE  op[w].now <= clock + 1 /\ clock + 1 <= op[w].now + MaxDelay
      BY <2>1 DEF InTime, Busy
    <3>1. op[w].now \in Nat /\ clock \in Nat /\ MaxDelay \in Nat
      BY <2>1, BusyFacts, WindowAssumption DEF IInv, Times
    <3>2. op[w].now <= clock /\ clock < op[w].now + MaxDelay
      BY <2>1 DEF IInv, InTime
    <3>3. QED BY <3>1, <3>2
  <2>4. CountsKept'
    <3> SUFFICES ASSUME NEW k \in Keys, NEW b \in Times, rows[k][b] # admitted[k][b]
                 PROVE  b + Window[k] + MaxDelay < clock + 1
      BY <2>1 DEF CountsKept
    <3>1. b + Window[k] + MaxDelay < clock
      BY DEF IInv, CountsKept
    <3>2. b \in Nat /\ Window[k] \in Nat /\ MaxDelay \in Nat /\ clock \in Nat
      BY <2>1, WindowAssumption DEF Times
    <3>3. QED BY <3>1, <3>2
  <2>5. SecondTry'
    BY <2>1 DEF IInv, SecondTry, Busy, CountOf, KeyOf, StartOf
  <2>6. QED BY <2>1, <2>2, <2>3, <2>4, <2>5 DEF IInv
<1>5. CASE UNCHANGED vars
  BY <1>5 DEF vars, IInv, TypeOK, InTime, CountsKept, SecondTry, Busy, CountOf, KeyOf, StartOf
<1>6. QED BY <1>1, <1>2, <1>3, <1>4, <1>5 DEF Next

(* Types, delays, and that tables agree with the history where it counts,  *)
(* hold in every state.                                                    *)
THEOREM LimiterInvariant == Spec => []IInv
<1>1. Init => IInv
  BY Initially
<1>2. IInv /\ [Next]_vars => IInv'
  BY NextRefines
<1>3. QED BY <1>1, <1>2, PTL DEF Spec

(* Every limiter, in memory, in SQLite or in MariaDB, implements the       *)
(* window counter: at most the limit is admitted in a window, and nobody   *)
(* is refused before it is reached.                                        *)
THEOREM LimiterIsCounter == Spec => ImplementsCounter
<1>1. Init => Counter!Init
  BY DEF Init, NoRows, Counter!Init
<1>2. IInv /\ [Next]_vars => [Counter!Next]_<<admitted, answer>>
  BY NextRefines
<1>3. QED BY <1>1, <1>2, LimiterInvariant, PTL DEF Spec, ImplementsCounter, Counter!Spec

(* The row of a window that is open, or that a request is still going to   *)
(* count in, is there and right.                                           *)
THEOREM OpenWindowsAreKept == Spec => []OpenWindowsKept
<1>1. IInv => OpenWindowsKept
  <2> SUFFICES ASSUME IInv, NEW k \in Keys,
                      NEW n \in {clock} \cup {op[w].now : w \in {v \in Workers : op[v].pc # "idle"}}
               PROVE  rows[k][Start(k, n)] = admitted[k][Start(k, n)]
    BY DEF OpenWindowsKept
  <2>0. n \in Times /\ n <= clock /\ clock <= n + MaxDelay
    <3>1. clock \in Times /\ clock \in Nat /\ MaxDelay \in Nat
      BY WindowAssumption DEF IInv, TypeOK, Times
    <3>2. CASE n = clock
      BY <3>1, <3>2
    <3>3. ASSUME NEW w \in Workers, op[w].pc # "idle", n = op[w].now
          PROVE  n \in Times /\ n <= clock /\ clock <= n + MaxDelay
      <4>1. Busy(w)
        BY <3>3 DEF Busy
      <4>2. n \in Times
        BY <3>3, <4>1, BusyFacts DEF IInv
      <4>3. QED BY <3>3, <4>1, <4>2 DEF IInv, InTime
    <3>4. QED BY <3>2, <3>3
  <2>1. n \in Nat /\ clock \in Nat /\ MaxDelay \in Nat /\ Window[k] \in Nat
    BY <2>0, WindowAssumption DEF IInv, TypeOK, Times
  <2>2. Start(k, n) \in Nat /\ Start(k, n) <= n /\ n < Start(k, n) + Window[k]
    BY <2>1, StartFacts
  <2>3. Start(k, n) \in Times
    BY <2>0, <2>2, WindowAssumption DEF Times
  <2>4. ~(Start(k, n) + Window[k] + MaxDelay < clock)
    BY <2>0, <2>1, <2>2
  <2>5. QED BY <2>3, <2>4 DEF IInv, CountsKept
<1>2. QED BY <1>1, LimiterInvariant, PTL
=============================================================================
