------------------------ MODULE DataExports_proofs ------------------------
(***************************************************************************)
(* Theorems about DataExports, for any number of users, processes, threads *)
(* and requests: no archive is mailed twice, and no account is deleted     *)
(* under an export in the making.                                          *)
(***************************************************************************)
EXTENDS DataExports, FiniteSetsExt, WellFoundedInduction, TLAPS

-----------------------------------------------------------------------------
(* A nonempty set of naturals has a least element. *)
LEMMA MinExists ==
    ASSUME NEW S \in SUBSET Nat, S # {}
    PROVE  Min(S) \in S /\ \A y \in S : Min(S) <= y
<1> DEFINE Less == {ss \in Nat \X Nat : ss[1] < ss[2]}
<1>1. IsWellFoundedOn(Less, Nat)
  BY NatLessThanWellFounded DEF OpToRel
<1>2. PICK x \in S : \A y \in S : <<y, x>> \notin Less
  <2> HIDE DEF Less
  <2> QED BY <1>1, WFMin
<1>3. ASSUME NEW y \in S PROVE x <= y
  <2>1. <<y, x>> \in Nat \X Nat /\ <<y, x>> \notin Less
    BY <1>2
  <2>2. ~(y < x)
    BY <2>1
  <2> QED BY <2>2
<1>4. QED BY <1>3 DEF Min

-----------------------------------------------------------------------------
Holds(p)   == worker[p].pc \in {"deliver", "mark"}
Settled    == {id \in ExportIds : status[id] \in {"sent", "failed", "deleted"}}

(* What a worker that claimed a request knows of it: nobody else has it. *)
WorkerFact(p) ==
    /\ worker[p].pc = "claim" => worker[p].id \in ExportIds /\ status[worker[p].id] # "none"
    /\ worker[p].pc \in {"check", "audit"} => worker[p].id \in ExportIds
    /\ Holds(p) =>
        /\ worker[p].id \in ExportIds
        /\ status[worker[p].id] = "processing"
        /\ \A q \in Processes \ {p} : Holds(q) => worker[q].id # worker[p].id
        /\ worker[p].pc = "deliver" => mailed[worker[p].id] = 0
        /\ worker[p].pc = "mark" /\ worker[p].ok => mailed[worker[p].id] = 1

(* What the table says of each request: an open one has an account, and    *)
(* one that is not claimed yet was not mailed.                             *)
RequestFact(id) ==
    /\ id >= nextId => status[id] = "none"
    /\ id < nextId => status[id] # "none"
    /\ status[id] \in {"none", "pending"} => mailed[id] = 0
    /\ status[id] \in {"pending", "processing"} => owner[id] \in accounts
    /\ status[id] = "sent" => mailed[id] = 1
    /\ mailed[id] <= 1

(* A deletion only knows of settled requests. *)
DeleterFact(d) == deleter[d].ids \subseteq Settled

ExportInv ==
    /\ TypeOK
    /\ \A p \in Processes : WorkerFact(p)
    /\ \A id \in ExportIds : RequestFact(id)
    /\ \A d \in Deleters : DeleterFact(d)

(* The records of idle threads and workers have their types. *)
LEMMA IdleTypes ==
    /\ Polling \in WorkerState /\ Asleep \in WorkerState /\ Down \in WorkerState
    /\ NoQueueing \in Queueing /\ NoDeletion \in Deletion
    /\ Polling.pc = "poll" /\ Asleep.pc = "wait" /\ Down.pc = "down"
    /\ NoDeletion.ids = {}
BY DEF Polling, Asleep, Down, WorkerState, NoQueueing, Queueing, NoDeletion, Deletion

(* Nothing is queued or claimed at the start. *)
LEMMA ExportInit == Init => ExportInv
<1> SUFFICES ASSUME Init PROVE ExportInv
  OBVIOUS
<1>1. TypeOK
  <2>1. 1 \in 1..(MaxExports + 1)
    BY ExportConstants
  <2> QED BY <2>1, IdleTypes DEF Init, TypeOK
<1>2. ExportIds \subseteq Nat /\ \A id \in ExportIds : id >= 1
  BY ExportConstants DEF ExportIds
<1>3. ASSUME NEW id \in ExportIds PROVE RequestFact(id)
  BY <1>2 DEF Init, RequestFact
<1>4. ASSUME NEW p \in Processes PROVE WorkerFact(p)
  BY IdleTypes DEF Init, WorkerFact, Holds
<1>5. ASSUME NEW d \in Deleters PROVE DeleterFact(d)
  BY IdleTypes DEF Init, DeleterFact
<1>6. QED BY <1>1, <1>3, <1>4, <1>5 DEF ExportInv

(* A step that leaves the table, the mail and the workers alone, and the   *)
(* deletions that have begun, keeps the invariant.                         *)
LEMMA ExportFrame ==
    ASSUME ExportInv, TypeOK', UNCHANGED <<accounts, nextId, status, owner, mailed, worker, deleter>>
    PROVE  ExportInv'
<1>1. ASSUME NEW p \in Processes PROVE WorkerFact(p)'
  BY DEF ExportInv, WorkerFact, Holds
<1>2. ASSUME NEW id \in ExportIds PROVE RequestFact(id)'
  BY DEF ExportInv, RequestFact
<1>3. ASSUME NEW d \in Deleters PROVE DeleterFact(d)'
  BY DEF ExportInv, DeleterFact, Settled
<1>4. QED BY <1>1, <1>2, <1>3 DEF ExportInv

(* A worker that only goes to sleep, polls again, dies or starts keeps it. *)
LEMMA ReleaseFrame ==
    ASSUME ExportInv, TypeOK', NEW p \in Processes, NEW w,
           worker' = [worker EXCEPT ![p] = w],
           w.pc \in {"poll", "wait", "down"} \/ (w.pc = "audit" /\ w.id \in ExportIds),
           UNCHANGED <<accounts, nextId, status, owner, mailed, deleter>>
    PROVE  ExportInv'
<1>1. \A q \in Processes : worker'[q] = IF q = p THEN w ELSE worker[q]
  BY DEF ExportInv, TypeOK
<1>2. ASSUME NEW q \in Processes PROVE WorkerFact(q)'
  BY <1>1 DEF ExportInv, WorkerFact, Holds
<1>3. ASSUME NEW id \in ExportIds PROVE RequestFact(id)'
  BY DEF ExportInv, RequestFact
<1>4. ASSUME NEW d \in Deleters PROVE DeleterFact(d)'
  BY DEF ExportInv, DeleterFact, Settled
<1>5. QED BY <1>2, <1>3, <1>4 DEF ExportInv

(* Queueing a request keeps the invariant. *)
LEMMA QueueKeeps ==
    ASSUME ExportInv, NEW h \in Handlers, Queue(h)
    PROVE  ExportInv'
<1>0. TypeOK
  BY DEF ExportInv
<1>1. ASSUME NEW p \in Processes, NEW u \in Users, QueueRead(h, p, u) PROVE ExportInv'
  <2>1. TypeOK'
    <3>1. [pc |-> "insert", proc |-> p, user |-> u] \in Queueing
      BY DEF Queueing
    <3> QED BY <1>0, <1>1, <3>1 DEF QueueRead, TypeOK, table
  <2> QED BY <1>1, <2>1, ExportFrame DEF QueueRead, table
<1>2. CASE QueueInsert(h)
  <2>1. TypeOK'
    <3>1. nextId' \in 1..(MaxExports + 1)
      BY <1>2, ExportConstants DEF QueueInsert, ExportIds
    <3>2. handler[h] \in Queueing /\ handler[h].user \in Users \cup {Nobody}
      BY <1>0 DEF TypeOK, Queueing
    <3>3. [handler[h] EXCEPT !.pc = "announce"] \in Queueing
      BY <3>2 DEF Queueing
    <3>4. handler' \in [Handlers -> Queueing]
      BY <1>0, <1>2, <3>3 DEF QueueInsert, TypeOK
    <3>5. status' \in [ExportIds -> {"none", "pending", "processing", "sent", "failed", "deleted"}]
      BY <1>0, <1>2 DEF QueueInsert, TypeOK
    <3>6. owner' \in [ExportIds -> Users \cup {Nobody}] /\ cooling' \subseteq Users
      BY <1>0, <1>2, <3>2 DEF QueueInsert, TypeOK
    <3> QED BY <1>0, <1>2, <3>1, <3>4, <3>5, <3>6 DEF QueueInsert, TypeOK
  <2>2. /\ \A id \in ExportIds : id # nextId => status'[id] = status[id] /\ owner'[id] = owner[id]
        /\ status'[nextId] = "pending" /\ owner'[nextId] \in accounts
        /\ nextId \in ExportIds /\ nextId' = nextId + 1
        /\ UNCHANGED <<accounts, mailed, worker, deleter>>
    BY <1>0, <1>2 DEF QueueInsert, TypeOK
  <2>3. status[nextId] = "none" /\ ExportIds \subseteq Nat /\ nextId \in Nat
    BY <2>2, ExportConstants DEF ExportInv, RequestFact, ExportIds
  <2>4. ASSUME NEW id \in ExportIds PROVE RequestFact(id)'
    <3>1. CASE id = nextId
      BY <2>2, <2>3, <3>1 DEF ExportInv, RequestFact
    <3>2. CASE id # nextId
      BY <2>2, <2>3, <3>2 DEF ExportInv, RequestFact
    <3> QED BY <3>1, <3>2
  <2>5. ASSUME NEW p \in Processes PROVE WorkerFact(p)'
    BY <2>2, <2>3 DEF ExportInv, WorkerFact, Holds
  <2>6. ASSUME NEW d \in Deleters PROVE DeleterFact(d)'
    BY <2>2, <2>3 DEF ExportInv, DeleterFact, Settled
  <2> QED BY <2>1, <2>4, <2>5, <2>6 DEF ExportInv
<1>3. CASE QueueInsertFails(h) \/ QueueAnnounce(h) \/ QueueRaises(h)
  <2>1. TypeOK'
    BY <1>0, <1>3, IdleTypes
       DEF QueueInsertFails, QueueAnnounce, QueueRaises, WakeAfter, TypeOK, table
  <2> QED BY <1>3, <2>1, ExportFrame DEF QueueInsertFails, QueueAnnounce, QueueRaises, table
<1>4. QED BY <1>1, <1>2, <1>3 DEF Queue

(* Every step of a worker keeps the invariant. *)
LEMMA WorkKeeps ==
    ASSUME ExportInv, NEW p \in Processes, Work(p)
    PROVE  ExportInv'
<1>0. TypeOK /\ WorkerFact(p) /\ ExportIds \subseteq Nat
  BY ExportConstants DEF ExportInv, ExportIds
<1>1. CASE WorkerPoll(p)
  <2>1. PICK pending \in SUBSET ExportIds : pending = {id \in ExportIds : status[id] = "pending"}
    OBVIOUS
  <2>2. worker' = [worker EXCEPT ![p] = IF pending = {} THEN Asleep
                                        ELSE [pc |-> "claim", id |-> Min(pending), ok |-> FALSE]]
    BY <1>1, <2>1 DEF WorkerPoll
  <2>3. CASE pending = {}
    <3>1. TypeOK'
      BY <1>0, <1>1, <2>2, <2>3, IdleTypes DEF WorkerPoll, TypeOK, table
    <3> QED BY <1>1, <2>2, <2>3, <3>1, IdleTypes, ReleaseFrame DEF WorkerPoll, table
  <2>4. CASE pending # {}
    <3>1. Min(pending) \in pending
      BY <1>0, <2>4, MinExists
    <3>2. /\ worker' = [worker EXCEPT ![p] = [pc |-> "claim", id |-> Min(pending), ok |-> FALSE]]
          /\ UNCHANGED <<accounts, nextId, status, owner, cooling, mailed, wake, handler, deleter, faulty>>
      BY <1>1, <2>2, <2>4 DEF WorkerPoll, table
    <3>3. TypeOK'
      <4>1. [pc |-> "claim", id |-> Min(pending), ok |-> FALSE] \in WorkerState
        BY <2>1, <3>1 DEF WorkerState
      <4> QED BY <1>0, <3>2, <4>1 DEF TypeOK
    <3>4. ASSUME NEW q \in Processes PROVE WorkerFact(q)'
      <4>1. worker'[p].pc = "claim" /\ worker'[p].id \in ExportIds /\ status[worker'[p].id] = "pending"
        BY <1>0, <2>1, <3>1, <3>2 DEF TypeOK
      <4>2. \A x \in Processes : x # p => worker'[x] = worker[x]
        BY <1>0, <3>2 DEF TypeOK
      <4> QED BY <3>2, <4>1, <4>2 DEF ExportInv, WorkerFact, Holds
    <3>5. ASSUME NEW id \in ExportIds PROVE RequestFact(id)'
      BY <3>2 DEF ExportInv, RequestFact
    <3>6. ASSUME NEW d \in Deleters PROVE DeleterFact(d)'
      BY <3>2 DEF ExportInv, DeleterFact, Settled
    <3> QED BY <3>3, <3>4, <3>5, <3>6 DEF ExportInv
  <2> QED BY <2>3, <2>4
<1>2. CASE WorkerClaim(p)
  <2>1. CASE ~Claimable(worker[p].id)
    <3>1. TypeOK'
      BY <1>0, <1>2, <2>1, IdleTypes DEF WorkerClaim, TypeOK
    <3> QED BY <1>2, <2>1, <3>1, IdleTypes, ReleaseFrame DEF WorkerClaim
  <2>2. CASE Claimable(worker[p].id)
    <3>1. PICK n \in ExportIds : n = worker[p].id
      BY <1>0, <1>2 DEF WorkerClaim, WorkerFact
    <3>2. /\ status[n] = "pending" /\ status' = [status EXCEPT ![n] = "processing"]
          /\ worker' = [worker EXCEPT ![p].pc = "deliver"]
          /\ UNCHANGED <<accounts, nextId, owner, cooling, mailed, wake, handler, deleter, faulty>>
      BY <1>2, <2>2, <3>1 DEF WorkerClaim, Claimable
    <3>3. TypeOK'
      <4>1. [worker[p] EXCEPT !.pc = "deliver"] \in WorkerState
        BY <1>0 DEF TypeOK, WorkerState
      <4> QED BY <1>0, <3>2, <4>1 DEF TypeOK
    <3>4. /\ \A q \in Processes : q # p => worker'[q] = worker[q]
          /\ worker'[p].pc = "deliver" /\ worker'[p].id = n
          /\ \A id \in ExportIds : id # n => status'[id] = status[id]
          /\ status'[n] = "processing"
      BY <1>0, <3>1, <3>2 DEF TypeOK
    <3>5. mailed[n] = 0 /\ \A q \in Processes : Holds(q) => worker[q].id # n
      BY <3>2 DEF ExportInv, RequestFact, WorkerFact
    <3>6. ASSUME NEW q \in Processes PROVE WorkerFact(q)'
      BY <3>2, <3>4, <3>5 DEF ExportInv, WorkerFact, Holds
    <3>7. ASSUME NEW id \in ExportIds PROVE RequestFact(id)'
      BY <1>0, <3>2, <3>4 DEF ExportInv, RequestFact
    <3>8. ASSUME NEW d \in Deleters PROVE DeleterFact(d)'
      BY <3>2, <3>4 DEF ExportInv, DeleterFact, Settled
    <3> QED BY <3>3, <3>6, <3>7, <3>8 DEF ExportInv
  <2> QED BY <2>1, <2>2
<1>3. CASE WorkerDeliver(p)
  <2>1. PICK n \in ExportIds : n = worker[p].id /\ mailed[n] = 0 /\ status[n] = "processing"
    BY <1>0, <1>3 DEF WorkerDeliver, WorkerFact, Holds
  <2>2. PICK out \in [ok : BOOLEAN, got : {0, 1}] :
            /\ out.ok => out.got = 1
            /\ mailed' = [mailed EXCEPT ![n] = out.got]
            /\ worker' = [worker EXCEPT ![p] = [pc |-> "mark", id |-> n, ok |-> out.ok]]
            /\ UNCHANGED <<accounts, nextId, status, owner, cooling, wake, handler, deleter, faulty>>
    <3>1. PICK out \in Outcomes(n) :
            /\ mailed' = [mailed EXCEPT ![n] = @ + out.got]
            /\ worker' = [worker EXCEPT ![p] = [pc |-> "mark", id |-> n, ok |-> out.ok]]
      BY <1>3, <2>1 DEF WorkerDeliver
    <3>2. out \in [ok : BOOLEAN, got : {0, 1}] /\ (out.ok => out.got = 1)
      <4>1. \/ out = [ok |-> TRUE, got |-> 1]
            \/ out = [ok |-> FALSE, got |-> 1]
            \/ out = [ok |-> FALSE, got |-> 0]
        BY <3>1 DEF Outcomes
      <4>2. /\ [ok |-> TRUE, got |-> 1] \in [ok : BOOLEAN, got : {0, 1}]
            /\ [ok |-> FALSE, got |-> 1] \in [ok : BOOLEAN, got : {0, 1}]
            /\ [ok |-> FALSE, got |-> 0] \in [ok : BOOLEAN, got : {0, 1}]
        OBVIOUS
      <4> QED BY <4>1, <4>2
    <3>3. mailed[n] + out.got = out.got
      BY <2>1, <3>2
    <3> QED BY <1>3, <3>1, <3>2, <3>3 DEF WorkerDeliver, table
  <2>3. TypeOK'
    <3>1. [pc |-> "mark", id |-> n, ok |-> out.ok] \in WorkerState /\ out.got \in Nat
      BY <2>2 DEF WorkerState
    <3> QED BY <1>0, <2>2, <3>1 DEF TypeOK
  <2>4. /\ \A q \in Processes : q # p => worker'[q] = worker[q]
        /\ worker'[p].pc = "mark" /\ worker'[p].id = n /\ worker'[p].ok = out.ok
        /\ \A id \in ExportIds : id # n => mailed'[id] = mailed[id]
        /\ mailed'[n] = out.got
    BY <1>0, <2>1, <2>2 DEF TypeOK
  <2>5. \A q \in Processes : q # p /\ Holds(q) => worker[q].id # n
    BY <1>0, <1>3, <2>1 DEF WorkerFact, WorkerDeliver, Holds
  <2>6. ASSUME NEW q \in Processes PROVE WorkerFact(q)'
    BY <2>1, <2>2, <2>4, <2>5 DEF ExportInv, WorkerFact, Holds
  <2>7. ASSUME NEW id \in ExportIds PROVE RequestFact(id)'
    BY <2>1, <2>2, <2>4 DEF ExportInv, RequestFact
  <2>8. ASSUME NEW d \in Deleters PROVE DeleterFact(d)'
    BY <2>2 DEF ExportInv, DeleterFact, Settled
  <2> QED BY <2>3, <2>6, <2>7, <2>8 DEF ExportInv
<1>4. CASE WorkerMark(p)
  <2>1. PICK n \in ExportIds : n = worker[p].id /\ status[n] = "processing"
    BY <1>0, <1>4 DEF WorkerMark, WorkerFact, Holds
  <2>2. /\ status' = [status EXCEPT ![n] = MarkedStatus(p)]
        /\ MarkedStatus(p) = IF worker[p].ok THEN "sent" ELSE "failed"
        /\ worker' = [worker EXCEPT ![p].pc = IF worker[p].ok THEN "audit" ELSE "check"]
        /\ UNCHANGED <<accounts, nextId, owner, cooling, mailed, wake, handler, deleter, faulty>>
    BY <1>0, <1>4, <2>1 DEF WorkerMark, MarkedStatus, TypeOK
  <2>3. TypeOK'
    <3>1. /\ [worker[p] EXCEPT !.pc = "audit"] \in WorkerState
          /\ [worker[p] EXCEPT !.pc = "check"] \in WorkerState
      BY <1>0 DEF TypeOK, WorkerState
    <3>2. worker' \in [Processes -> WorkerState]
      BY <1>0, <2>2, <3>1 DEF TypeOK
    <3> QED BY <1>0, <2>2, <3>2 DEF TypeOK
  <2>4. /\ \A q \in Processes : q # p => worker'[q] = worker[q]
        /\ worker'[p].pc \in {"audit", "check"} /\ worker'[p].id = n
        /\ \A id \in ExportIds : id # n => status'[id] = status[id]
        /\ status'[n] \in {"sent", "failed"}
        /\ status'[n] = "sent" => mailed[n] = 1
    BY <1>0, <1>4, <2>1, <2>2 DEF TypeOK, WorkerFact, Holds, WorkerMark
  <2>5. \A q \in Processes : q # p /\ Holds(q) => worker[q].id # n
    BY <1>0, <1>4, <2>1 DEF WorkerFact, WorkerMark, Holds
  <2>6. ASSUME NEW q \in Processes PROVE WorkerFact(q)'
    BY <2>2, <2>4, <2>5 DEF ExportInv, WorkerFact, Holds
  <2>7. ASSUME NEW id \in ExportIds PROVE RequestFact(id)'
    BY <1>0, <2>1, <2>2, <2>4 DEF ExportInv, RequestFact
  <2>8. ASSUME NEW d \in Deleters PROVE DeleterFact(d)'
    BY <2>2, <2>4 DEF ExportInv, DeleterFact, Settled
  <2> QED BY <2>3, <2>6, <2>7, <2>8 DEF ExportInv
<1>5. CASE WorkerCheck(p) \/ WorkerAudit(p) \/ WorkerWakes(p)
  <2>1. TypeOK'
    <3>1. [worker[p] EXCEPT !.pc = "audit"] \in WorkerState
      BY <1>0 DEF TypeOK, WorkerState
    <3>2. worker' \in [Processes -> WorkerState] /\ wake' \in [Processes -> BOOLEAN] /\ faulty' \in BOOLEAN
      BY <1>0, <1>5, <3>1, IdleTypes DEF WorkerCheck, WorkerAudit, WorkerWakes, TypeOK
    <3> QED BY <1>0, <1>5, <3>2 DEF WorkerCheck, WorkerAudit, WorkerWakes, TypeOK, table
  <2>2. PICK w : /\ worker' = [worker EXCEPT ![p] = w]
                 /\ \/ w = Polling \/ w = Asleep
                    \/ w = [worker[p] EXCEPT !.pc = "audit"] /\ worker[p].pc = "check"
    BY <1>5 DEF WorkerCheck, WorkerAudit, WorkerWakes
  <2>3. w.pc \in {"poll", "wait"} \/ (w.pc = "audit" /\ w.id \in ExportIds)
    BY <1>0, <2>2, IdleTypes DEF WorkerFact, TypeOK, WorkerState
  <2>4. UNCHANGED <<accounts, nextId, status, owner, mailed, deleter>>
    BY <1>5 DEF WorkerCheck, WorkerAudit, WorkerWakes, table
  <2> QED BY <2>1, <2>2, <2>3, <2>4, ReleaseFrame
<1>6. QED BY <1>1, <1>2, <1>3, <1>4, <1>5 DEF Work

(* A failing, killed or restarted worker, the clock and account deletions  *)
(* keep the invariant.                                                     *)
LEMMA RestKeeps ==
    ASSUME ExportInv,
           \/ \E u \in Users : CooldownEnds(u)
           \/ \E p \in Processes : WorkerRaises(p) \/ Kill(p) \/ Restart(p)
           \/ \E d \in Deleters, u \in Users : DeleteRead(d, u)
           \/ \E d \in Deleters : DeleteCommit(d)
    PROVE  ExportInv'
<1>0. TypeOK
  BY DEF ExportInv
<1>1. ASSUME NEW u \in Users, CooldownEnds(u) PROVE ExportInv'
  <2>1. TypeOK'
    BY <1>0, <1>1 DEF CooldownEnds, TypeOK
  <2> QED BY <1>1, <2>1, ExportFrame DEF CooldownEnds
<1>2. ASSUME NEW p \in Processes, WorkerRaises(p) \/ Kill(p) \/ Restart(p) PROVE ExportInv'
  <2>1. TypeOK'
    BY <1>0, <1>2, IdleTypes DEF WorkerRaises, Kill, Restart, TypeOK, table
  <2>2. PICK w \in {Polling, Asleep, Down} : worker' = [worker EXCEPT ![p] = w]
    BY <1>2 DEF WorkerRaises, Kill, Restart
  <2>3. UNCHANGED <<accounts, nextId, status, owner, mailed, deleter>>
    BY <1>2 DEF WorkerRaises, Kill, Restart, table
  <2> QED BY <2>1, <2>2, <2>3, IdleTypes, ReleaseFrame
<1>3. ASSUME NEW d \in Deleters, NEW u \in Users, DeleteRead(d, u) PROVE ExportInv'
  <2>1. TypeOK'
    <3>1. [pc |-> "commit", user |-> u, ids |-> OfUser(u)] \in Deletion
      BY DEF Deletion, OfUser
    <3> QED BY <1>0, <1>3, <3>1 DEF DeleteRead, TypeOK, table
  <2>2. OfUser(u) \subseteq Settled
    BY <1>0, <1>3 DEF DeleteRead, MayDelete, OfUser, Open, Settled, TypeOK
  <2>3. ASSUME NEW f \in Deleters PROVE DeleterFact(f)'
    <3>1. deleter'[f].ids = (IF f = d THEN OfUser(u) ELSE deleter[f].ids)
      BY <1>0, <1>3 DEF DeleteRead, TypeOK
    <3>2. Settled' = Settled
      BY <1>3 DEF DeleteRead, Settled, table
    <3> QED BY <2>2, <3>1, <3>2 DEF ExportInv, DeleterFact
  <2>4. ASSUME NEW id \in ExportIds PROVE RequestFact(id)'
    BY <1>3 DEF ExportInv, RequestFact, DeleteRead, table
  <2>5. ASSUME NEW p \in Processes PROVE WorkerFact(p)'
    BY <1>3 DEF ExportInv, WorkerFact, Holds, DeleteRead, table
  <2> QED BY <2>1, <2>3, <2>4, <2>5 DEF ExportInv
<1>4. ASSUME NEW d \in Deleters, DeleteCommit(d) PROVE ExportInv'
  <2>1. PICK gone \in SUBSET Settled :
            /\ \A id \in ExportIds : status'[id] = IF id \in gone THEN "deleted" ELSE status[id]
            /\ accounts' \subseteq accounts
            /\ \A id \in ExportIds :
                    status[id] \in {"pending", "processing"} /\ owner[id] \in accounts
                    => owner[id] \in accounts'
    <3>1. CASE OfUser(deleter[d].user) \subseteq deleter[d].ids
      <4>1. deleter[d].ids \subseteq Settled
        BY DEF ExportInv, DeleterFact
      <4>2. ASSUME NEW id \in ExportIds, status[id] \in {"pending", "processing"}
            PROVE  owner[id] # deleter[d].user
        BY <3>1, <4>1, <4>2 DEF OfUser, Settled
      <4>3. /\ \A id \in ExportIds :
                    status'[id] = IF id \in deleter[d].ids THEN "deleted" ELSE status[id]
            /\ accounts' = accounts \ {deleter[d].user}
        BY <1>4, <3>1 DEF DeleteCommit
      <4>4. \A id \in ExportIds : status[id] \in {"pending", "processing"} /\ owner[id] \in accounts
                                   => owner[id] \in accounts'
        BY <4>2, <4>3
      <4> QED BY <4>1, <4>3, <4>4
    <3>2. CASE ~(OfUser(deleter[d].user) \subseteq deleter[d].ids)
      <4>1. accounts' = accounts /\ \A id \in ExportIds : status'[id] = status[id]
        BY <1>4, <3>2 DEF DeleteCommit
      <4>2. \A id \in ExportIds : status'[id] = IF id \in {} THEN "deleted" ELSE status[id]
        BY <4>1
      <4>3. {} \in SUBSET Settled
        OBVIOUS
      <4> QED BY <4>1, <4>2, <4>3
    <3> QED BY <3>1, <3>2
  <2>2. /\ UNCHANGED <<nextId, owner, cooling, mailed, worker, wake, handler, faulty>>
        /\ deleter' = [deleter EXCEPT ![d] = NoDeletion]
        /\ status' = [id \in ExportIds |-> status'[id]]
    BY <1>4 DEF DeleteCommit
  <2>3. TypeOK'
    BY <1>0, <2>1, <2>2, IdleTypes DEF TypeOK
  <2>4. ASSUME NEW id \in ExportIds PROVE RequestFact(id)'
    BY <2>1, <2>2 DEF ExportInv, RequestFact, Settled
  <2>5. ASSUME NEW p \in Processes PROVE WorkerFact(p)'
    BY <2>1, <2>2 DEF ExportInv, WorkerFact, Holds, Settled
  <2>6. ASSUME NEW f \in Deleters PROVE DeleterFact(f)'
    <3>1. Settled \subseteq Settled'
      BY <2>1 DEF Settled
    <3>2. deleter'[f].ids = {} \/ deleter'[f] = deleter[f]
      BY <1>0, <2>2, IdleTypes DEF TypeOK
    <3> QED BY <3>1, <3>2 DEF ExportInv, DeleterFact
  <2> QED BY <2>3, <2>4, <2>5, <2>6 DEF ExportInv
<1>5. QED BY <1>1, <1>2, <1>3, <1>4

(* The queue, the mail and the workers agree, through every interleaving,  *)
(* kill and restart.                                                       *)
THEOREM ExportsConsistent == Spec => []ExportInv
<1>1. ASSUME ExportInv, [Next]_vars PROVE ExportInv'
  <2>1. CASE UNCHANGED vars
    <3>1. TypeOK'
      BY <1>1, <2>1 DEF ExportInv, TypeOK, vars, table
    <3> QED BY <1>1, <2>1, <3>1, ExportFrame DEF vars, table
  <2>2. CASE Next
    BY <1>1, <2>2, QueueKeeps, WorkKeeps, RestKeeps DEF Next
  <2> QED BY <1>1, <2>1, <2>2
<1>2. QED BY <1>1, ExportInit, PTL DEF Spec

(* No export archive is mailed twice, and none is recorded as sent that    *)
(* was not, however many processes share the queue.                        *)
THEOREM MailedOnceAlways == Spec => []MailedOnce
<1>1. ExportInv => MailedOnce
  BY DEF ExportInv, RequestFact, MailedOnce
<1>2. QED BY <1>1, ExportsConsistent, PTL

(* No account is deleted under an export in the making.                    *)
THEOREM AccountsOutliveExports == Spec => []AccountOutlivesExport
<1>1. ExportInv => AccountOutlivesExport
  BY DEF ExportInv, RequestFact, WorkerFact, Holds, AccountOutlivesExport
<1>2. QED BY <1>1, ExportsConsistent, PTL

(* A settled request is never opened again.                                *)
THEOREM SettledStays == Spec => SettledForGood
<1>1. ASSUME ExportInv, [Next]_vars
      PROVE  [\A id \in ExportIds : status[id] \in {"sent", "failed"}
                    => status'[id] \in {status[id], "deleted"}]_vars
  <2> SUFFICES ASSUME Next, NEW id \in ExportIds, status[id] \in {"sent", "failed"}
               PROVE  status'[id] \in {status[id], "deleted"}
    BY <1>1
  <2>0. TypeOK /\ status[id] # "none"
    BY <1>1 DEF ExportInv
  <2>1. ASSUME NEW h \in Handlers, QueueInsert(h) PROVE status'[id] = status[id]
    <3>1. status[nextId] = "none" /\ status' = [status EXCEPT ![nextId] = "pending"]
      BY <1>1, <2>1, ExportConstants DEF ExportInv, RequestFact, QueueInsert, ExportIds
    <3> QED BY <2>0, <3>1 DEF TypeOK
  <2>2. ASSUME NEW p \in Processes, WorkerClaim(p) PROVE status'[id] = status[id]
    BY <2>0, <2>2 DEF WorkerClaim, Claimable, TypeOK
  <2>3. ASSUME NEW p \in Processes, WorkerMark(p) PROVE status'[id] = status[id]
    <3>1. status[worker[p].id] = "processing"
      BY <1>1, <2>3 DEF ExportInv, WorkerFact, Holds, WorkerMark
    <3> QED BY <2>0, <2>3, <3>1 DEF WorkerMark, TypeOK
  <2>4. ASSUME NEW d \in Deleters, DeleteCommit(d) PROVE status'[id] \in {status[id], "deleted"}
    BY <2>4 DEF DeleteCommit
  <2> QED BY <2>1, <2>2, <2>3, <2>4
          DEF Next, Queue, Work, QueueRead, QueueInsertFails, QueueAnnounce, QueueRaises,
              CooldownEnds, WorkerPoll, WorkerDeliver, WorkerCheck, WorkerAudit, WorkerWakes,
              WorkerRaises, Kill, Restart, DeleteRead, table
<1>2. QED BY <1>1, ExportsConsistent, PTL DEF Spec, SettledForGood
=============================================================================
