-------------------------- MODULE Accounts_proofs --------------------------
(***************************************************************************)
(* Proofs about Accounts, for any requests, identities, addresses, tables  *)
(* to start from and bounds that satisfy AccountConstants and SeedTables.  *)
(***************************************************************************)
EXTENDS Accounts, FiniteSetTheorems, TLAPS

\* The columns of external_identities are unchanged together.
USE DEF links

-----------------------------------------------------------------------------
(* Types.                                                                  *)

\* Which fields of a request are set at which step.
Shape(q) ==
    /\ q.pc = "useState" => q.state \in StateIds
    /\ q.pc \in {"upsert", "upsertWrite", "refresh", "policy", "openSession",
                 "loadFlow", "match", "consumeFlow", "complete"} => q.ident \in Identities
    /\ q.pc \in {"act", "launch", "consumeDone", "execute"} => q.user \in UserIds
    /\ q.pc \in {"loadFlow", "match", "consumeFlow", "complete",
                 "launch", "consumeDone", "execute"} => q.flow \in FlowIds
    /\ q.pc \in {"role", "endSessions", "erase", "eraseWrite"} => q.target \in UserIds

NextIds == [user : 1..MaxUser + 1, session : 1..MaxSession + 1,
            flow : 1..MaxFlow + 1, state : 1..MaxState + 1]

TypeInv == TypeOK /\ \A r \in Requests : Shape(req[r])

(* Constants and blank records have their types. *)
LEMMA Basics ==
    /\ MaxUser \in Nat /\ MaxSession \in Nat /\ MaxFlow \in Nat /\ MaxState \in Nat
    /\ NoIdentity \notin Identities /\ NoMail \notin Mails
    /\ \A i \in Identities : MailsOf[i] \subseteq Mails \cup {NoMail}
    /\ None \notin UserIds /\ None \notin SessionIds
    /\ None \notin FlowIds /\ None \notin StateIds
    /\ NoUserRow \in UserRow /\ NoSessionRow \in SessionRow
    /\ NoFlowRow \in FlowRow /\ NoStateRow \in StateRow
    /\ Idle \in Request /\ Idle.pc = "idle"
<1>1. MaxUser \in Nat /\ MaxSession \in Nat /\ MaxFlow \in Nat /\ MaxState \in Nat
  BY AccountConstants
<1>2. Idle \in Request /\ Idle.pc = "idle"
  BY <1>1 DEF Idle, Request, Steps, None
<1>3. NoUserRow \in UserRow /\ NoSessionRow \in SessionRow
      /\ NoFlowRow \in FlowRow /\ NoStateRow \in StateRow
  BY DEF NoUserRow, UserRow, NoSessionRow, SessionRow, NoFlowRow, FlowRow, NoStateRow, StateRow
<1>4. QED
  BY <1>1, <1>2, <1>3, AccountConstants DEF None, UserIds, SessionIds, FlowIds, StateIds

(* The length and the elements of a sequence. *)
LEMMA Elements ==
    ASSUME NEW S, NEW s \in Seq(S)
    PROVE  Len(s) \in Nat /\ DOMAIN s = 1..Len(s) /\ \A n \in 1..Len(s) : s[n] \in S
OBVIOUS

LEMMA InitType == Init => TypeInv
<1> SUFFICES ASSUME Init PROVE TypeInv
  OBVIOUS
<1>1. PICK seed \in Seeds :
         /\ users = [u \in UserIds |-> IF u <= Len(seed.users) THEN seed.users[u]
                                       ELSE NoUserRow]
         /\ next = [user |-> seed.user, session |-> seed.session,
                    flow |-> seed.flow, state |-> 1]
  BY DEF Init
<1>2. /\ seed.users \in Seq([mail : Mails, admin : BOOLEAN])
      /\ seed.session \in 1..MaxSession + 1 /\ seed.flow \in 1..MaxFlow + 1
      /\ seed.user \in Len(seed.users) + 1..MaxUser + 1
  BY SeedTables
<1>3. \A u \in UserIds : u <= Len(seed.users) => seed.users[u] \in [mail : Mails, admin : BOOLEAN]
  <2>1. Len(seed.users) \in Nat /\ \A n \in 1..Len(seed.users) :
                                    seed.users[n] \in [mail : Mails, admin : BOOLEAN]
    BY <1>2, Elements
  <2>2. \A u \in UserIds : u <= Len(seed.users) => u \in 1..Len(seed.users)
    BY <2>1, Basics DEF UserIds
  <2>3. QED BY <2>1, <2>2
<1>4. users \in [UserIds -> UserRow]
  BY <1>1, <1>3, Basics DEF UserRow
<1>5. seed.user \in 1..MaxUser + 1
  <2>1. Len(seed.users) \in Nat
    BY <1>2, Elements
  <2>2. QED BY <1>2, <2>1, Basics
<1>6. next \in [user : 1..MaxUser + 1, session : 1..MaxSession + 1,
                flow : 1..MaxFlow + 1, state : 1..MaxState + 1]
  BY <1>1, <1>2, <1>5, Basics
<1>7. TypeOK
  BY <1>4, <1>6, Basics DEF Init, TypeOK
<1>8. QED BY <1>7, Basics DEF Init, TypeInv, Shape

(* Replacing the record of one request. *)
LEMMA Replace ==
    ASSUME TypeInv, NEW r \in Requests, NEW rec \in Request, Shape(rec),
           req' = [req EXCEPT ![r] = rec]
    PROVE  req' \in [Requests -> Request] /\ \A p \in Requests : Shape(req'[p])
BY DEF TypeInv, TypeOK

LEMMA ReplaceIdle ==
    ASSUME TypeInv, NEW r \in Requests, Done(r)
    PROVE  req' \in [Requests -> Request] /\ \A p \in Requests : Shape(req'[p])
<1>1. Shape(Idle)
  BY Basics DEF Shape
<1>2. QED BY <1>1, Basics, Replace DEF Done

(* The next id of a table, after one more row. *)
LEMMA NextId ==
    ASSUME TypeOK
    PROVE  /\ next.user <= MaxUser =>
                 next.user \in UserIds /\ [next EXCEPT !.user = @ + 1] \in NextIds
           /\ next.session <= MaxSession =>
                 next.session \in SessionIds /\ [next EXCEPT !.session = @ + 1] \in NextIds
           /\ next.flow <= MaxFlow =>
                 next.flow \in FlowIds /\ [next EXCEPT !.flow = @ + 1] \in NextIds
           /\ next.state <= MaxState =>
                 next.state \in StateIds /\ [next EXCEPT !.state = @ + 1] \in NextIds
<1>1. /\ next.user \in 1..MaxUser + 1 /\ next.session \in 1..MaxSession + 1
      /\ next.flow \in 1..MaxFlow + 1 /\ next.state \in 1..MaxState + 1
      /\ next = [user |-> next.user, session |-> next.session,
                 flow |-> next.flow, state |-> next.state]
  BY DEF TypeOK
<1>2. /\ next.user <= MaxUser => next.user \in UserIds /\ next.user + 1 \in 1..MaxUser + 1
      /\ next.session <= MaxSession =>
            next.session \in SessionIds /\ next.session + 1 \in 1..MaxSession + 1
      /\ next.flow <= MaxFlow => next.flow \in FlowIds /\ next.flow + 1 \in 1..MaxFlow + 1
      /\ next.state <= MaxState => next.state \in StateIds /\ next.state + 1 \in 1..MaxState + 1
  BY <1>1, Basics DEF UserIds, SessionIds, FlowIds, StateIds
<1>3. QED BY <1>1, <1>2 DEF NextIds

LEMMA SignInType ==
    ASSUME TypeInv, NEW r \in Requests, SignIn(r)
    PROVE  TypeInv'
<1> USE DEF Shape
<1>0. req[r] \in Request /\ Shape(req[r]) /\ TypeOK
  BY DEF TypeInv, TypeOK
<1>1. CASE ReadState(r)
  <2>1. PICK s \in StateIds : req' = [req EXCEPT ![r] = [Idle EXCEPT !.pc = "useState", !.state = s]]
    BY <1>1 DEF ReadState
  <2>2. [Idle EXCEPT !.pc = "useState", !.state = s] \in Request
    BY Basics DEF Request, Steps
  <2> DEFINE rec == [Idle EXCEPT !.pc = "useState", !.state = s]
  <2>3. Shape(rec)
    BY Basics DEF Request
  <2>4. req' \in [Requests -> Request] /\ \A p \in Requests : Shape(req'[p])
    BY <2>1, <2>2, <2>3, Replace
  <2>5. QED BY <1>0, <1>1, <2>4 DEF ReadState, TypeInv, TypeOK, tables, History
<1>2. CASE UseState(r)
  <2> DEFINE flow == states[req[r].state].flow
             signs(i, m) == [Idle EXCEPT !.pc = "upsert", !.ident = i, !.mail = m]
             confirms(i) == [Idle EXCEPT !.pc = "loadFlow", !.ident = i, !.flow = flow]
  <2>1. req[r].state \in StateIds /\ flow \in FlowIds \cup {None}
    BY <1>0, <1>2 DEF UseState, TypeOK, StateRow
  <2>2. PICK i \in Identities :
           \/ \E m \in MailsOf[i] : req' = [req EXCEPT ![r] = signs(i, m)]
           \/ flow # None /\ req' = [req EXCEPT ![r] = confirms(i)]
    BY <1>2 DEF UseState
  <2>a. \A m \in Mails \cup {NoMail} : signs(i, m) \in Request
    BY Basics DEF Request, Steps
  <2>b. \A m \in Mails \cup {NoMail} : signs(i, m).pc = "upsert" /\ signs(i, m).ident = i
    BY Basics DEF Request
  <2>c. confirms(i) \in Request
    BY <2>1, Basics DEF Request, Steps
  <2>d. confirms(i).pc = "loadFlow" /\ confirms(i).ident = i /\ confirms(i).flow = flow
    BY Basics DEF Request
  <2> HIDE DEF signs, confirms, flow
  <2>3. ASSUME \E m \in MailsOf[i] : req' = [req EXCEPT ![r] = signs(i, m)]
        PROVE  req' \in [Requests -> Request] /\ \A p \in Requests : Shape(req'[p])
    <3>1. PICK m \in MailsOf[i] : req' = [req EXCEPT ![r] = signs(i, m)]
      BY <2>3
    <3>2. m \in Mails \cup {NoMail}
      BY Basics
    <3>3. signs(i, m) \in Request /\ Shape(signs(i, m))
      BY <3>2, <2>a, <2>b
    <3>4. QED BY <3>1, <3>3, Replace
  <2>4. ASSUME flow # None, req' = [req EXCEPT ![r] = confirms(i)]
        PROVE  req' \in [Requests -> Request] /\ \A p \in Requests : Shape(req'[p])
    <3>1. flow \in FlowIds
      BY <2>1, <2>4
    <3>2. confirms(i) \in Request /\ Shape(confirms(i))
      BY <3>1, <2>c, <2>d
    <3>3. QED BY <2>4, <3>2, Replace
  <2>5. req' \in [Requests -> Request] /\ \A p \in Requests : Shape(req'[p])
    BY <2>2, <2>3, <2>4
  <2>6. [states[req[r].state] EXCEPT !.open = FALSE] \in StateRow
    BY <1>0, <2>1 DEF TypeOK, StateRow
  <2>7. states' \in [StateIds -> StateRow]
    BY <1>0, <1>2, <2>1, <2>6 DEF UseState, TypeOK
  <2>8. QED BY <1>0, <1>2, <2>5, <2>7 DEF UseState, TypeInv, TypeOK, History
<1>3. CASE UpsertRead(r)
  <2> DEFINE i == req[r].ident
             rec == [req[r] EXCEPT !.pc = "upsertWrite", !.known = identities[i],
                                   !.holder = Holder(req[r].mail), !.admins = Admins]
  <2>1. i \in Identities /\ identities[i] \in UserIds \cup {None}
    BY <1>0, <1>3 DEF UpsertRead, TypeOK
  <2>2. Holder(req[r].mail) \in UserIds \cup {None} /\ Admins \subseteq UserIds
    BY DEF Holder, Accounts, Admins
  <2>3. rec \in Request
    BY <1>0, <2>1, <2>2 DEF Request, Steps
  <2>4. Shape(rec)
    BY <1>0, <2>1, <2>3 DEF Request
  <2>5. req' = [req EXCEPT ![r] = rec]
    BY <1>0, <1>3 DEF UpsertRead, TypeOK
  <2>6. req' \in [Requests -> Request] /\ \A p \in Requests : Shape(req'[p])
    BY <2>3, <2>4, <2>5, Replace
  <2>7. QED BY <1>0, <1>3, <2>6 DEF UpsertRead, TypeInv, TypeOK, tables, History
<1>4. CASE UpsertWrite(r)
  <2> DEFINE q == req[r]
             rec(u) == [Idle EXCEPT !.pc = "refresh", !.user = u, !.ident = q.ident]
  <2>1. q.ident \in Identities /\ q.known \in UserIds \cup {None}
        /\ q.holder \in UserIds \cup {None}
    BY <1>0, <1>4 DEF UpsertWrite, Request
  <2>2. \A u \in UserIds : rec(u) \in Request /\ Shape(rec(u))
    BY <2>1, Basics DEF Request, Steps
  <2>3. ASSUME NEW u \in UserIds, req' = [req EXCEPT ![r] = rec(u)]
        PROVE  req' \in [Requests -> Request] /\ \A p \in Requests : Shape(req'[p])
    BY <2>2, <2>3, Replace
  <2>a. q.mail \in Mails \cup {NoMail}
    BY <1>0 DEF Request
  <2>b. ASSUME NEW u \in UserIds, Link(r, u)
        PROVE  /\ identities' \in [Identities -> UserIds \cup {None}]
               /\ emails' \in [Identities -> Mails \cup {NoMail}]
               /\ linkedWith' \in [Identities -> Mails \cup {NoMail}]
    BY <1>0, <2>1, <2>a, <2>b DEF Link, TypeOK
  <2>4. CASE q.known # None /\ UNCHANGED <<users, identities, linkedWith, next>>
                /\ emails' = [emails EXCEPT ![q.ident] = q.mail]
                /\ req' = [req EXCEPT ![r] = rec(q.known)]
    <3>1. emails' \in [Identities -> Mails \cup {NoMail}]
      BY <1>0, <2>1, <2>a, <2>4 DEF TypeOK
    <3>2. QED BY <1>0, <1>4, <2>1, <2>3, <2>4, <3>1 DEF UpsertWrite, TypeInv, TypeOK, History
  <2>5. CASE q.holder \in Accounts /\ Link(r, q.holder) /\ UNCHANGED <<users, next>>
                /\ req' = [req EXCEPT ![r] = rec(q.holder)]
    <3>1. /\ q.holder \in UserIds /\ identities' \in [Identities -> UserIds \cup {None}]
          /\ emails' \in [Identities -> Mails \cup {NoMail}]
          /\ linkedWith' \in [Identities -> Mails \cup {NoMail}]
      BY <2>b, <2>5 DEF Accounts
    <3>2. QED BY <1>0, <1>4, <2>3, <2>5, <3>1 DEF UpsertWrite, TypeInv, TypeOK, History
  <2>6. CASE CreateAccount(r) /\ req' = [req EXCEPT ![r] = rec(next.user)]
    <3>1. next.user \in UserIds /\ next' \in NextIds
      BY <1>0, <2>6, NextId DEF CreateAccount
    <3>2. /\ identities' \in [Identities -> UserIds \cup {None}]
          /\ emails' \in [Identities -> Mails \cup {NoMail}]
          /\ linkedWith' \in [Identities -> Mails \cup {NoMail}]
      BY <2>b, <2>6, <3>1 DEF CreateAccount
    <3>3. users' \in [UserIds -> UserRow]
      BY <1>0, <2>a, <2>6, <3>1 DEF CreateAccount, TypeOK, UserRow
    <3>4. QED BY <1>0, <1>4, <2>3, <2>6, <3>1, <3>2, <3>3
            DEF UpsertWrite, TypeInv, TypeOK, NextIds, History
  <2>7. QED BY <1>4, <2>4, <2>5, <2>6 DEF UpsertWrite
<1>5. CASE RefreshUser(r)
  <2> DEFINE rec == [req[r] EXCEPT !.pc = "policy", !.admin = users[req[r].user].admin]
  <2>1. req[r].user \in UserIds
    BY <1>5 DEF RefreshUser, Accounts
  <2>a. users[req[r].user].admin \in BOOLEAN /\ req[r].pc = "refresh"
    BY <1>5, <2>1 DEF RefreshUser, TypeInv, TypeOK, UserRow
  <2>b. rec \in Request
    BY <1>0, <2>a DEF Request, Steps
  <2>c. Shape(rec)
    BY <1>0, <2>a DEF Request
  <2>2. rec \in Request /\ Shape(rec)
    BY <2>b, <2>c
  <2>3. req' = [req EXCEPT ![r] = rec]
    BY <1>0, <1>5 DEF RefreshUser, TypeOK
  <2>4. req' \in [Requests -> Request] /\ \A p \in Requests : Shape(req'[p])
    BY <2>2, <2>3, Replace
  <2>5. QED BY <1>0, <1>5, <2>4 DEF RefreshUser, TypeInv, TypeOK, tables, History
<1>6. CASE CheckPolicy(r)
  <2> DEFINE rec == [req[r] EXCEPT !.pc = "openSession"]
  <2>1. rec \in Request /\ Shape(rec)
    BY <1>0, <1>6 DEF CheckPolicy, Request, Steps
  <2>2. req' = [req EXCEPT ![r] = rec]
    BY <1>0, <1>6 DEF CheckPolicy, Go, TypeOK
  <2>3. req' \in [Requests -> Request] /\ \A p \in Requests : Shape(req'[p])
    BY <2>1, <2>2, Replace
  <2>4. QED BY <1>0, <1>6, <2>3 DEF CheckPolicy, TypeInv, TypeOK, tables, History
<1>7. CASE OpenSession(r)
  <2>1. req[r].user \in UserIds /\ users[req[r].user] \in UserRow
    BY <1>0, <1>7 DEF OpenSession, Accounts, TypeOK
  <2>2. next.session \in SessionIds /\ next' \in NextIds
    BY <1>0, <1>7, NextId DEF OpenSession
  <2>3. sessions' \in [SessionIds -> SessionRow]
    BY <1>0, <1>7, <2>1 DEF OpenSession, TypeOK, SessionRow, UserRow, Request
  <2>4. req' \in [Requests -> Request] /\ \A p \in Requests : Shape(req'[p])
    BY <1>7, ReplaceIdle DEF OpenSession
  <2>5. QED BY <1>0, <1>7, <2>2, <2>3, <2>4
          DEF OpenSession, TypeInv, TypeOK, NextIds, History
<1>8. QED BY <1>1, <1>2, <1>3, <1>4, <1>5, <1>6, <1>7 DEF SignIn

(* A request that only takes its next step. *)
LEMMA GoType ==
    ASSUME TypeInv, NEW r \in Requests, NEW step \in Steps, Go(r, step),
           Shape([req[r] EXCEPT !.pc = step])
    PROVE  req' \in [Requests -> Request] /\ \A p \in Requests : Shape(req'[p])
<1>1. req[r] \in Request /\ req' = [req EXCEPT ![r] = [req[r] EXCEPT !.pc = step]]
  BY DEF TypeInv, TypeOK, Go
<1>2. [req[r] EXCEPT !.pc = step] \in Request
  BY <1>1 DEF Request
<1>3. QED BY <1>1, <1>2, Replace

(* A new flow has its type. *)
LEMMA NewFlowType ==
    ASSUME TypeOK, NEW u, NEW root \in FlowIds \cup {None},
           NEW by \in Identities \cup {NoIdentity}, NewFlow(u, root, by)
    PROVE  /\ u \in UserIds /\ next.flow \in FlowIds
           /\ flows' \in [FlowIds -> FlowRow] /\ next' \in NextIds
<1>1. u \in UserIds /\ next.flow \in FlowIds /\ next' \in NextIds
  BY NextId DEF NewFlow, Accounts
<1>2. [user |-> u, open |-> TRUE, root |-> root, by |-> by] \in FlowRow
  BY <1>1 DEF FlowRow
<1>3. QED BY <1>1, <1>2 DEF NewFlow, TypeOK

LEMMA NewStateType ==
    ASSUME TypeOK, NEW flow \in FlowIds \cup {None}, NewState(flow)
    PROVE  states' \in [StateIds -> StateRow] /\ next' \in NextIds
BY NextId DEF NewState, TypeOK, StateRow

LEMMA ConsumeType ==
    ASSUME TypeOK, NEW f \in FlowIds, Consume(f)
    PROVE  flows' \in [FlowIds -> FlowRow]
<1>1. [flows[f] EXCEPT !.open = FALSE] \in FlowRow
  BY DEF TypeOK, FlowRow
<1>2. QED BY <1>1 DEF Consume, TypeOK

LEMMA EndType ==
    ASSUME TypeOK, NEW S, End(S)
    PROVE  sessions' \in [SessionIds -> SessionRow]
<1>1. \A s \in SessionIds : [sessions[s] EXCEPT !.live = FALSE] \in SessionRow
  BY DEF TypeOK, SessionRow
<1>2. QED BY <1>1 DEF End, TypeOK

LEMMA ConfirmType ==
    ASSUME TypeInv, NEW r \in Requests, Confirm(r) \/ Resolve(r)
    PROVE  TypeInv'
<1>0. req[r] \in Request /\ Shape(req[r]) /\ TypeOK
  BY DEF TypeInv, TypeOK
<1>1. CASE Resolve(r)
  <2>1. PICK s \in SessionIds :
          /\ sessions[s].live /\ sessions[s].user \in Accounts
          /\ req' = [req EXCEPT ![r] =
                      [Idle EXCEPT !.pc = "act", !.sess = s, !.user = sessions[s].user,
                                   !.admin = users[sessions[s].user].admin]]
    BY <1>1 DEF Resolve
  <2>2. sessions[s].user \in UserIds /\ users[sessions[s].user].admin \in BOOLEAN
    BY <1>0, <2>1 DEF TypeOK, UserRow, Accounts
  <2>3. \A u \in UserIds, admin \in BOOLEAN :
          [Idle EXCEPT !.pc = "act", !.sess = s, !.user = u, !.admin = admin] \in Request
    BY Basics DEF Request, Steps
  <2> DEFINE rec == [Idle EXCEPT !.pc = "act", !.sess = s, !.user = sessions[s].user,
                                 !.admin = users[sessions[s].user].admin]
  <2>4. rec \in Request /\ Shape(rec)
    BY <2>2, <2>3, Basics DEF Shape, Request
  <2>5. req' \in [Requests -> Request] /\ \A p \in Requests : Shape(req'[p])
    BY <2>1, <2>4, Replace
  <2>6. QED BY <1>0, <1>1, <2>5 DEF Resolve, TypeInv, TypeOK, tables, History
<1>2. CASE StartConfirm(r)
  <2>1. next.flow \in FlowIds
    BY <1>0, <1>2, NextId DEF StartConfirm, NewFlow
  <2>2. flows' \in [FlowIds -> FlowRow] /\ next' \in NextIds
    BY <1>0, <1>2, <2>1, NewFlowType DEF StartConfirm
  <2>3. req' \in [Requests -> Request] /\ \A p \in Requests : Shape(req'[p])
    BY <1>2, ReplaceIdle DEF StartConfirm
  <2>4. QED BY <1>0, <1>2, <2>2, <2>3 DEF StartConfirm, TypeInv, TypeOK, NextIds, History
<1>3. CASE LaunchRead(r) \/ CompleteRead(r)
  <2>1. PICK f \in FlowIds, step \in {"launch", "consumeDone"} :
          req' = [req EXCEPT ![r].pc = step, ![r].flow = f]
    BY <1>3 DEF LaunchRead, CompleteRead
  <2> DEFINE rec == [req[r] EXCEPT !.pc = step, !.flow = f]
  <2>2. rec \in Request
    BY <1>0 DEF Request, Steps
  <2>3. req[r].user \in UserIds
    BY <1>0, <1>3 DEF LaunchRead, CompleteRead, Shape
  <2>4. Shape(rec)
    BY <1>0, <2>2, <2>3 DEF Shape, Request
  <2>5. req' = [req EXCEPT ![r] = rec]
    BY <1>0, <2>1 DEF TypeOK
  <2>6. req' \in [Requests -> Request] /\ \A p \in Requests : Shape(req'[p])
    BY <2>2, <2>4, <2>5, Replace
  <2>7. QED BY <1>0, <1>3, <2>6 DEF LaunchRead, CompleteRead, TypeInv, TypeOK, tables, History
<1>4. CASE Launch(r)
  <2>1. req[r].flow \in FlowIds
    BY <1>0, <1>4 DEF Launch, Shape
  <2>2. states' \in [StateIds -> StateRow] /\ next' \in NextIds
    BY <1>0, <1>4, <2>1, NewStateType DEF Launch
  <2>3. req' \in [Requests -> Request] /\ \A p \in Requests : Shape(req'[p])
    BY <1>4, ReplaceIdle DEF Launch
  <2>4. QED BY <1>0, <1>4, <2>2, <2>3 DEF Launch, TypeInv, TypeOK, NextIds, History
<1>5. CASE LoadFlow(r)
  <2> DEFINE rec == [req[r] EXCEPT !.pc = "match", !.user = flows[req[r].flow].user]
  <2>1. req[r].flow \in FlowIds /\ req[r].ident \in Identities
        /\ flows[req[r].flow].user \in UserIds \cup {None}
    BY <1>0, <1>5 DEF LoadFlow, Shape, TypeOK, FlowRow
  <2>2. rec \in Request
    BY <1>0, <2>1 DEF Request, Steps
  <2>3. Shape(rec)
    BY <1>0, <2>1, <2>2 DEF Shape, Request
  <2>4. req' = [req EXCEPT ![r] = rec]
    BY <1>0, <1>5 DEF LoadFlow, TypeOK
  <2>5. req' \in [Requests -> Request] /\ \A p \in Requests : Shape(req'[p])
    BY <2>2, <2>3, <2>4, Replace
  <2>6. QED BY <1>0, <1>5, <2>5 DEF LoadFlow, TypeInv, TypeOK, tables, History
<1>6. CASE MatchIdentity(r)
  <2>1. Shape([req[r] EXCEPT !.pc = "consumeFlow"])
    BY <1>0, <1>6 DEF MatchIdentity, Shape, Request
  <2>2. req' \in [Requests -> Request] /\ \A p \in Requests : Shape(req'[p])
    BY <1>6, <2>1, GoType DEF MatchIdentity, Steps
  <2>3. QED BY <1>0, <1>6, <2>2 DEF MatchIdentity, TypeInv, TypeOK, tables, History
<1>7. CASE ConsumeFlow(r)
  <2>1. Shape([req[r] EXCEPT !.pc = "complete"]) /\ req[r].flow \in FlowIds
    BY <1>0, <1>7 DEF ConsumeFlow, Shape, Request
  <2>2. req' \in [Requests -> Request] /\ \A p \in Requests : Shape(req'[p])
    BY <1>7, <2>1, GoType DEF ConsumeFlow, Steps
  <2>3. flows' \in [FlowIds -> FlowRow]
    BY <1>0, <1>7, <2>1, ConsumeType DEF ConsumeFlow
  <2>4. QED BY <1>0, <1>7, <2>2, <2>3 DEF ConsumeFlow, TypeInv, TypeOK, History
<1>8. CASE CompleteFlow(r)
  <2>1. /\ Shape([req[r] EXCEPT !.pc = "openSession"])
        /\ req[r].flow \in FlowIds /\ req[r].ident \in Identities
    BY <1>0, <1>8 DEF CompleteFlow, Shape, Request
  <2>2. flows[req[r].flow].root \in FlowIds \cup {None}
    BY <1>0, <2>1 DEF TypeOK, FlowRow
  <2>3. flows' \in [FlowIds -> FlowRow] /\ next' \in NextIds
    BY <1>0, <1>8, <2>1, <2>2, NewFlowType DEF CompleteFlow
  <2>4. req' \in [Requests -> Request] /\ \A p \in Requests : Shape(req'[p])
    BY <1>8, <2>1, GoType DEF CompleteFlow, Steps
  <2>5. QED BY <1>0, <1>8, <2>3, <2>4 DEF CompleteFlow, TypeInv, TypeOK, NextIds, History
<1>9. CASE CompleteConsume(r)
  <2>1. Shape([req[r] EXCEPT !.pc = "execute"]) /\ req[r].flow \in FlowIds
    BY <1>0, <1>9 DEF CompleteConsume, Shape, Request
  <2>2. req' \in [Requests -> Request] /\ \A p \in Requests : Shape(req'[p])
    BY <1>9, <2>1, GoType DEF CompleteConsume, Steps
  <2>3. flows' \in [FlowIds -> FlowRow]
    BY <1>0, <1>9, <2>1, ConsumeType DEF CompleteConsume
  <2>4. QED BY <1>0, <1>9, <2>2, <2>3 DEF CompleteConsume, TypeInv, TypeOK, History
<1>10. CASE Execute(r)
  <2> DEFINE rec == [req[r] EXCEPT !.pc = "erase", !.target = req[r].user]
  <2>1. req[r].flow \in FlowIds /\ req[r].user \in UserIds
    BY <1>0, <1>10 DEF Execute, Shape
  <2>2. rec \in Request
    BY <1>0, <2>1 DEF Request, Steps
  <2>3. Shape(rec)
    BY <1>0, <2>1, <2>2 DEF Shape, Request
  <2>4. CASE Done(r)
    BY <1>0, <1>10, <2>1, <2>4, ReplaceIdle DEF Execute, TypeInv, TypeOK, tables
  <2>5. CASE req' = [req EXCEPT ![r] = rec]
    <3>1. req' \in [Requests -> Request] /\ \A p \in Requests : Shape(req'[p])
      BY <2>2, <2>3, <2>5, Replace
    <3>2. QED BY <1>0, <1>10, <2>1, <3>1 DEF Execute, TypeInv, TypeOK, tables
  <2>6. Done(r) \/ req' = [req EXCEPT ![r] = rec]
    BY <1>0, <1>10 DEF Execute, TypeOK
  <2>7. QED BY <2>4, <2>5, <2>6
<1>11. QED
  BY <1>1, <1>2, <1>3, <1>4, <1>5, <1>6, <1>7, <1>8, <1>9, <1>10 DEF Confirm

(* Taking a role keeps the records of the other requests, but for a mark. *)
LEMMA OvertakeType ==
    ASSUME TypeInv, NEW r \in Requests, NEW lost, NEW rec \in Request, Shape(rec),
           Overtake(r, lost, rec)
    PROVE  req' \in [Requests -> Request] /\ \A p \in Requests : Shape(req'[p])
<1> DEFINE late(q) == q.late \/ (q.user = lost /\ q.admin)
           mark(q) == [q EXCEPT !.late = late(q)]
<1>1. \A p \in Requests : req[p] \in Request /\ Shape(req[p])
  BY DEF TypeInv, TypeOK
<1>2. \A q \in Request : late(q) \in BOOLEAN
  BY DEF Request
<1>3. \A q \in Request : mark(q) \in Request
  <2> HIDE DEF late
  <2>1. QED BY <1>2 DEF Request
<1>4. \A q \in Request : Shape(q) => Shape(mark(q))
  <2> HIDE DEF late
  <2>1. QED BY DEF Request, Shape
<1>5. req' = [p \in Requests |-> IF p = r THEN rec ELSE mark(req[p])]
  BY DEF Overtake
<1> HIDE DEF mark
<1>6. QED BY <1>1, <1>3, <1>4, <1>5

LEMMA EndOwnType ==
    ASSUME TypeInv, NEW r \in Requests, EndOwn(r)
    PROVE  TypeInv'
<1>1. sessions' \in [SessionIds -> SessionRow]
  BY EndType DEF EndOwn, TypeInv
<1>2. req' \in [Requests -> Request] /\ \A p \in Requests : Shape(req'[p])
  BY ReplaceIdle DEF EndOwn
<1>3. QED BY <1>1, <1>2 DEF EndOwn, TypeInv, TypeOK, History

LEMMA ManageType ==
    ASSUME TypeInv, NEW r \in Requests, Manage(r)
    PROVE  TypeInv'
<1>0. req[r] \in Request /\ Shape(req[r]) /\ TypeOK
  BY DEF TypeInv, TypeOK
<1>1. CASE RoleRead(r)
  <2>1. PICK t \in UserIds, grant \in BOOLEAN :
          req' = [req EXCEPT ![r].pc = "role", ![r].target = t, ![r].grant = grant,
                             ![r].admins = Admins]
    BY <1>1 DEF RoleRead, Accounts
  <2> DEFINE rec == [req[r] EXCEPT !.pc = "role", !.target = t, !.grant = grant,
                                   !.admins = Admins]
  <2>2. Admins \subseteq UserIds
    BY DEF Admins, Accounts
  <2>3. rec \in Request
    BY <1>0, <2>2 DEF Request, Steps
  <2>4. Shape(rec)
    BY <1>0, <2>3 DEF Shape, Request
  <2>5. req' = [req EXCEPT ![r] = rec]
    BY <1>0, <2>1 DEF TypeOK
  <2>6. req' \in [Requests -> Request] /\ \A p \in Requests : Shape(req'[p])
    BY <2>3, <2>4, <2>5, Replace
  <2>7. QED BY <1>0, <1>1, <2>6 DEF RoleRead, TypeInv, TypeOK, tables, History
<1>2. CASE RoleWrite(r)
  <2> DEFINE q == req[r]
             rec == [q EXCEPT !.pc = "endSessions", !.admins = {}]
  <2>1. rec \in Request
    BY <1>0 DEF Request, Steps
  <2>2. q.target \in UserIds /\ q.grant \in BOOLEAN
    BY <1>0, <1>2 DEF RoleWrite, Shape, Request
  <2>3. Shape(rec)
    BY <1>0, <2>1, <2>2 DEF Shape, Request
  <2>4. req' \in [Requests -> Request] /\ \A p \in Requests : Shape(req'[p])
    BY <1>2, <2>1, <2>3, Replace, OvertakeType DEF RoleWrite
  <2>5. [users[q.target] EXCEPT !.admin = q.grant] \in UserRow
    BY <1>0, <2>2 DEF TypeOK, UserRow
  <2>6. users' \in [UserIds -> UserRow]
    BY <1>0, <1>2, <2>2, <2>5 DEF RoleWrite, TypeOK
  <2>7. raced' \in BOOLEAN
    BY <1>2 DEF RoleWrite
  <2>8. QED BY <1>0, <1>2, <2>4, <2>6, <2>7 DEF RoleWrite, TypeInv, TypeOK
<1>3. CASE EndSessions(r)
  <2>1. sessions' \in [SessionIds -> SessionRow]
    BY <1>0, <1>3, EndType DEF EndSessions
  <2>2. req' \in [Requests -> Request] /\ \A p \in Requests : Shape(req'[p])
    BY <1>3, ReplaceIdle DEF EndSessions
  <2>3. QED BY <1>0, <1>3, <2>1, <2>2 DEF EndSessions, TypeInv, TypeOK, History
<1>4. CASE SetPolicy(r)
  <2>1. req' \in [Requests -> Request] /\ \A p \in Requests : Shape(req'[p])
    BY <1>4, ReplaceIdle DEF SetPolicy
  <2>2. QED BY <1>0, <1>4, <2>1 DEF SetPolicy, TypeInv, TypeOK, History
<1>5. CASE EraseOther(r)
  <2>1. PICK t \in UserIds : req' = [req EXCEPT ![r].pc = "erase", ![r].target = t]
    BY <1>5 DEF EraseOther, Accounts
  <2> DEFINE rec == [req[r] EXCEPT !.pc = "erase", !.target = t]
  <2>2. rec \in Request
    BY <1>0 DEF Request, Steps
  <2>3. Shape(rec)
    BY <1>0, <2>2 DEF Shape, Request
  <2>4. req' = [req EXCEPT ![r] = rec]
    BY <1>0, <2>1 DEF TypeOK
  <2>5. req' \in [Requests -> Request] /\ \A p \in Requests : Shape(req'[p])
    BY <2>2, <2>3, <2>4, Replace
  <2>6. QED BY <1>0, <1>5, <2>5 DEF EraseOther, TypeInv, TypeOK, tables, History
<1>6. CASE EraseRead(r)
  <2> DEFINE rec == [req[r] EXCEPT !.pc = "eraseWrite", !.admins = Admins,
                                   !.owned = SessionsOf(req[r].target)]
  <2>1. Admins \subseteq UserIds /\ SessionsOf(req[r].target) \subseteq SessionIds
    BY DEF Admins, Accounts, SessionsOf
  <2>2. rec \in Request
    BY <1>0, <2>1 DEF Request, Steps
  <2>3. Shape(rec)
    BY <1>0, <1>6, <2>2 DEF EraseRead, Shape, Request
  <2>4. req' = [req EXCEPT ![r] = rec]
    BY <1>0, <1>6 DEF EraseRead, TypeOK
  <2>5. req' \in [Requests -> Request] /\ \A p \in Requests : Shape(req'[p])
    BY <2>2, <2>3, <2>4, Replace
  <2>6. QED BY <1>0, <1>6, <2>5 DEF EraseRead, TypeInv, TypeOK, tables, History
<1>7. CASE EraseWrite(r)
  <2>1. req' \in [Requests -> Request] /\ \A p \in Requests : Shape(req'[p])
    BY <1>7, Basics, OvertakeType DEF EraseWrite, Shape
  <2>2. users' \in [UserIds -> UserRow]
    BY <1>0, <1>7, Basics DEF EraseWrite, TypeOK
  <2>3. sessions' \in [SessionIds -> SessionRow]
    BY <1>0, <1>7, Basics DEF EraseWrite, TypeOK
  <2>4. flows' \in [FlowIds -> FlowRow]
    BY <1>0, <1>7, Basics DEF EraseWrite, TypeOK
  <2>5. QED BY <1>0, <1>7, <2>1, <2>2, <2>3, <2>4 DEF EraseWrite, TypeInv, TypeOK
<1>8. QED BY <1>1, <1>2, <1>3, <1>4, <1>5, <1>6, <1>7 DEF Manage

LEMMA TypeStep == TypeInv /\ [Next]_vars => TypeInv'
<1> SUFFICES ASSUME TypeInv, [Next]_vars PROVE TypeInv'
  OBVIOUS
<1>0. TypeOK
  BY DEF TypeInv
<1>1. CASE UNCHANGED vars
  BY <1>0, <1>1 DEF TypeInv, TypeOK, vars, tables
<1>2. CASE StartSignIn
  <2>1. PICK flow \in FlowIds \cup {None} : NewState(flow)
    BY <1>2 DEF StartSignIn
  <2>2. states' \in [StateIds -> StateRow] /\ next' \in NextIds
    BY <1>0, <2>1, NewStateType
  <2>3. QED BY <1>0, <1>2, <2>2 DEF StartSignIn, TypeInv, TypeOK, NextIds, History
<1>3. CASE ExpireSomething
  <2>1. sessions' \in [SessionIds -> SessionRow]
    BY <1>0, <1>3, EndType DEF ExpireSomething, Expire, TypeOK
  <2>2. flows' \in [FlowIds -> FlowRow]
    BY <1>0, <1>3, ConsumeType DEF ExpireSomething, Expire, TypeOK
  <2>3. \A s \in StateIds : [states[s] EXCEPT !.open = FALSE] \in StateRow
    BY <1>0 DEF TypeOK, StateRow
  <2>4. states' \in [StateIds -> StateRow]
    BY <1>0, <1>3, <2>3 DEF ExpireSomething, Expire, TypeOK
  <2>5. QED BY <1>0, <1>3, <2>1, <2>2, <2>4 DEF ExpireSomething, TypeInv, TypeOK, History
<1>4. ASSUME NEW r \in Requests, Stop(r) PROVE TypeInv'
  <2>1. req' \in [Requests -> Request] /\ \A p \in Requests : Shape(req'[p])
    BY <1>4, ReplaceIdle DEF Stop
  <2>2. interrupted' \subseteq UserIds
    BY <1>0, <1>4 DEF Stop, TypeInv, TypeOK, Shape
  <2>3. QED BY <1>0, <1>4, <2>1, <2>2 DEF Stop, TypeInv, TypeOK, tables
<1>5. QED
  BY <1>1, <1>2, <1>3, <1>4, SignInType, ConfirmType, EndOwnType, ManageType DEF Next

(* Tables, requests and histories always have their types. *)
THEOREM AccountTypes == Spec => []TypeOK
<1>1. Init => TypeInv
  BY InitType
<1>2. TypeInv /\ [Next]_vars => TypeInv'
  BY TypeStep
<1>3. TypeInv => TypeOK
  BY DEF TypeInv
<1>4. QED BY <1>1, <1>2, <1>3, PTL DEF Spec

-----------------------------------------------------------------------------
(* What one step of a request changes.                                     *)

Step(r) == SignIn(r) \/ Resolve(r) \/ Confirm(r) \/ EndOwn(r) \/ Manage(r) \/ Stop(r)

(* A mark `late' leaves the other fields alone. *)
LEMMA Marked ==
    ASSUME NEW q \in Request, NEW late
    PROVE  LET p == [q EXCEPT !.late = late] IN
           /\ p.pc = q.pc /\ p.user = q.user /\ p.sess = q.sess /\ p.admin = q.admin
           /\ p.state = q.state /\ p.flow = q.flow /\ p.ident = q.ident
           /\ p.target = q.target /\ p.grant = q.grant /\ p.known = q.known
           /\ p.holder = q.holder /\ p.admins = q.admins /\ p.owned = q.owned
           /\ p.late = late
BY DEF Request

(* What taking a role does to the record of the actor and to the others. *)
LEMMA Overtaken ==
    ASSUME TypeInv, NEW r \in Requests, NEW lost, NEW rec, Overtake(r, lost, rec)
    PROVE  /\ req'[r] = rec
           /\ \A p \in Requests \ {r} :
                 req'[p] = [req[p] EXCEPT !.late = @ \/ (req[p].user = lost /\ req[p].admin)]
BY DEF Overtake

(* Where each action leaves the request that takes it. *)
LEMMA Arrivals ==
    ASSUME TypeInv, NEW r \in Requests
    PROVE  /\ ReadState(r) => req'[r].pc = "useState"
           /\ UseState(r) => req'[r].pc \in {"upsert", "loadFlow"}
           /\ UpsertRead(r) => req'[r].pc = "upsertWrite"
           /\ UpsertWrite(r) => req'[r].pc = "refresh"
           /\ RefreshUser(r) => req'[r].pc = "policy"
           /\ CheckPolicy(r) \/ CompleteFlow(r) => req'[r].pc = "openSession"
           /\ Resolve(r) => req'[r].pc = "act"
           /\ LaunchRead(r) => req'[r].pc = "launch"
           /\ LoadFlow(r) => req'[r].pc = "match"
           /\ MatchIdentity(r) => req'[r].pc = "consumeFlow"
           /\ ConsumeFlow(r) => req'[r].pc = "complete"
           /\ CompleteRead(r) => req'[r].pc = "consumeDone"
           /\ CompleteConsume(r) => req'[r].pc = "execute"
           /\ Execute(r) => req'[r] = Idle \/ req'[r].pc = "erase"
           /\ RoleRead(r) => req'[r].pc = "role"
           /\ RoleWrite(r) => req'[r].pc = "endSessions"
           /\ EraseOther(r) => req'[r].pc = "erase"
           /\ EraseRead(r) => req'[r].pc = "eraseWrite"
           /\ OpenSession(r) \/ StartConfirm(r) \/ Launch(r) \/ EndOwn(r) \/ EndSessions(r)
                 \/ SetPolicy(r) \/ EraseWrite(r) \/ Stop(r) => req'[r] = Idle
<1> USE DEF TypeInv, TypeOK, Request, Go, Done
<1>1. req[r] \in Request /\ req \in [Requests -> Request]
  OBVIOUS
<1>2. ReadState(r) => req'[r].pc = "useState"
  BY <1>1, Basics DEF ReadState
<1>3. UseState(r) => req'[r].pc \in {"upsert", "loadFlow"}
  <2> DEFINE signs(i, m) == [Idle EXCEPT !.pc = "upsert", !.ident = i, !.mail = m]
             confirms(i, f) == [Idle EXCEPT !.pc = "loadFlow", !.ident = i, !.flow = f]
  <2>1. \A i, m : signs(i, m).pc = "upsert"
    BY Basics
  <2>2. \A i, f : confirms(i, f).pc = "loadFlow"
    BY Basics
  <2>3. UseState(r) =>
           \/ \E i, m : req' = [req EXCEPT ![r] = signs(i, m)]
           \/ \E i, f : req' = [req EXCEPT ![r] = confirms(i, f)]
    BY DEF UseState
  <2> HIDE DEF signs, confirms
  <2>4. QED BY <1>1, <2>1, <2>2, <2>3
<1>4. UpsertRead(r) => req'[r].pc = "upsertWrite"
  BY <1>1 DEF UpsertRead
<1>5. UpsertWrite(r) => req'[r].pc = "refresh"
  <2> SUFFICES ASSUME UpsertWrite(r) PROVE req'[r].pc = "refresh"
    OBVIOUS
  <2>1. PICK u : req' = [req EXCEPT ![r] =
                   [Idle EXCEPT !.pc = "refresh", !.user = u, !.ident = req[r].ident]]
    BY DEF UpsertWrite
  <2>2. [Idle EXCEPT !.pc = "refresh", !.user = u, !.ident = req[r].ident].pc = "refresh"
    BY DEF Idle
  <2>3. QED BY <1>1, <2>1, <2>2
<1>6. RefreshUser(r) => req'[r].pc = "policy"
  BY <1>1 DEF RefreshUser
<1>7. CheckPolicy(r) \/ CompleteFlow(r) => req'[r].pc = "openSession"
  BY <1>1 DEF CheckPolicy, CompleteFlow
<1>8. Resolve(r) => req'[r].pc = "act"
  BY <1>1, Basics DEF Resolve
<1>9. LaunchRead(r) => req'[r].pc = "launch"
  BY <1>1 DEF LaunchRead
<1>10. LoadFlow(r) => req'[r].pc = "match"
  BY <1>1 DEF LoadFlow
<1>11. /\ MatchIdentity(r) => req'[r].pc = "consumeFlow"
       /\ ConsumeFlow(r) => req'[r].pc = "complete"
       /\ CompleteConsume(r) => req'[r].pc = "execute"
  BY <1>1 DEF MatchIdentity, ConsumeFlow, CompleteConsume
<1>12. CompleteRead(r) => req'[r].pc = "consumeDone"
  BY <1>1 DEF CompleteRead
<1>13. Execute(r) => req'[r] = Idle \/ req'[r].pc = "erase"
  BY <1>1 DEF Execute
<1>14. RoleRead(r) => req'[r].pc = "role"
  BY <1>1 DEF RoleRead
<1>15. RoleWrite(r) => req'[r].pc = "endSessions"
  <2> DEFINE rec == [req[r] EXCEPT !.pc = "endSessions", !.admins = {}]
  <2>1. RoleWrite(r) => req'[r] = rec
    BY <1>1, Overtaken DEF RoleWrite
  <2>2. QED BY <1>1, <2>1
<1>16. EraseOther(r) => req'[r].pc = "erase"
  BY <1>1 DEF EraseOther
<1>17. EraseRead(r) => req'[r].pc = "eraseWrite"
  BY <1>1 DEF EraseRead
<1>18. OpenSession(r) \/ StartConfirm(r) \/ Launch(r) \/ EndOwn(r) \/ EndSessions(r)
         \/ SetPolicy(r) \/ Stop(r) => req'[r] = Idle
  BY <1>1 DEF OpenSession, StartConfirm, Launch, EndOwn, EndSessions, SetPolicy, Stop
<1>19. EraseWrite(r) => req'[r] = Idle
  BY Overtaken DEF EraseWrite
<1> HIDE DEF TypeInv, TypeOK, Request, Go, Done
<1>20. QED
  BY <1>2, <1>3, <1>4, <1>5, <1>6, <1>7, <1>8, <1>9, <1>10, <1>11, <1>12, <1>13, <1>14,
     <1>15, <1>16, <1>17, <1>18, <1>19

(* The other requests keep their records, but for a mark where a role is taken. *)
LEMMA Others ==
    ASSUME TypeInv, NEW r \in Requests, Step(r), NEW p \in Requests \ {r}
    PROVE  /\ ~(RoleWrite(r) \/ EraseWrite(r)) => req'[p] = req[p]
           /\ \E late : req'[p] = [req[p] EXCEPT !.late = late]
<1>0. req \in [Requests -> Request]
      /\ \A q \in Request : q = [q EXCEPT !.late = q.late]
  BY DEF TypeInv, TypeOK, Request
<1>1. CASE SignIn(r)
  <2>1. req'[p] = req[p]
    BY <1>0, <1>1 DEF SignIn, ReadState, UseState, UpsertRead, UpsertWrite, RefreshUser,
                      CheckPolicy, OpenSession, Go, Done
  <2>2. QED BY <1>0, <2>1
<1>2. CASE Confirm(r)
  <2>1. req'[p] = req[p]
    BY <1>0, <1>2 DEF Confirm, StartConfirm, LaunchRead, Launch, LoadFlow, MatchIdentity,
                      ConsumeFlow, CompleteFlow, CompleteRead, CompleteConsume, Execute,
                      Go, Done
  <2>2. QED BY <1>0, <2>1
<1>3. CASE Resolve(r) \/ EndOwn(r) \/ Stop(r)
  <2>1. req'[p] = req[p]
    BY <1>0, <1>3 DEF Resolve, EndOwn, Stop, Done
  <2>2. QED BY <1>0, <2>1
<1>4. CASE Manage(r)
  <2>1. CASE RoleRead(r) \/ EndSessions(r) \/ SetPolicy(r) \/ EraseOther(r) \/ EraseRead(r)
    <3>1. req'[p] = req[p]
      BY <1>0, <2>1 DEF RoleRead, EndSessions, SetPolicy, EraseOther, EraseRead, Done
    <3>2. QED BY <1>0, <3>1
  <2>2. CASE RoleWrite(r) \/ EraseWrite(r)
    <3>1. CASE \E rec : req' = [req EXCEPT ![r] = rec]
      BY <1>0, <2>2, <3>1
    <3>2. CASE \E lost, rec : Overtake(r, lost, rec)
      BY <1>0, <2>2, <3>2 DEF Overtake
    <3>3. QED BY <2>2, <3>1, <3>2 DEF RoleWrite, EraseWrite
  <2>3. QED BY <1>4, <2>1, <2>2 DEF Manage
<1>5. QED BY <1>1, <1>2, <1>3, <1>4 DEF Step

(* Which steps change the accounts. *)
LEMMA AccountSteps ==
    ASSUME TypeInv, [Next]_vars
    PROVE  \/ users' = users /\ next'.user = next.user
           \/ \E r \in Requests :
                  \/ UpsertWrite(r) /\ CreateAccount(r) /\ req[r].known = None
                        /\ UNCHANGED <<sessions, History>>
                  \/ RoleWrite(r) \/ EraseWrite(r)
<1>0. next = [user |-> next.user, session |-> next.session,
              flow |-> next.flow, state |-> next.state]
  BY DEF TypeInv, TypeOK
<1>1. CASE UNCHANGED vars
  BY <1>1 DEF vars, tables
<1>2. CASE StartSignIn \/ ExpireSomething
  BY <1>0, <1>2 DEF StartSignIn, ExpireSomething, NewState
<1>3. ASSUME NEW r \in Requests, SignIn(r) \/ Resolve(r) \/ EndOwn(r) \/ Stop(r)
      PROVE  \/ users' = users /\ next'.user = next.user
             \/ UpsertWrite(r) /\ CreateAccount(r) /\ req[r].known = None
                  /\ UNCHANGED <<sessions, History>>
  BY <1>0, <1>3 DEF SignIn, ReadState, UseState, UpsertRead, UpsertWrite, RefreshUser,
                    CheckPolicy, OpenSession, Resolve, EndOwn, Stop, tables
<1>4. ASSUME NEW r \in Requests, Confirm(r)
      PROVE  users' = users /\ next'.user = next.user
  BY <1>0, <1>4 DEF Confirm, StartConfirm, LaunchRead, Launch, LoadFlow, MatchIdentity,
                    ConsumeFlow, CompleteFlow, CompleteRead, CompleteConsume, Execute,
                    NewFlow, NewState, tables
<1>5. ASSUME NEW r \in Requests, Manage(r)
      PROVE  \/ users' = users /\ next'.user = next.user
             \/ RoleWrite(r) \/ EraseWrite(r)
  BY <1>5 DEF Manage, RoleRead, EndSessions, SetPolicy, EraseOther, EraseRead, tables
<1>6. QED BY <1>1, <1>2, <1>3, <1>4, <1>5 DEF Next

(* A session stays what it was or ends, but for those opened or deleted. *)
Ending(s) ==
    /\ sessions'[s].user = sessions[s].user /\ sessions'[s].ident = sessions[s].ident
    /\ sessions'[s].role = sessions[s].role
    /\ sessions'[s].live => sessions[s].live

LEMMA EndKeeps ==
    ASSUME TypeInv, NEW S, End(S), NEW s \in SessionIds
    PROVE  Ending(s)
BY DEF End, Ending, TypeInv, TypeOK, SessionRow

LEMMA SessionSteps ==
    ASSUME TypeInv, [Next]_vars
    PROVE  \/ \A s \in SessionIds : Ending(s)
           \/ \E r \in Requests : OpenSession(r) \/ EraseWrite(r)
<1>1. CASE UNCHANGED sessions
  BY <1>1 DEF Ending
<1>2. CASE StartSignIn \/ ExpireSomething
  <2>1. UNCHANGED sessions \/ \E S : End(S)
    BY <1>2 DEF StartSignIn, ExpireSomething, Expire
  <2>2. QED BY <1>1, <2>1, EndKeeps
<1>3. ASSUME NEW r \in Requests, SignIn(r) \/ Resolve(r) \/ Stop(r)
      PROVE  UNCHANGED sessions \/ OpenSession(r)
  BY <1>3 DEF SignIn, ReadState, UseState, UpsertRead, UpsertWrite, RefreshUser,
              CheckPolicy, Resolve, Stop, tables
<1>4. ASSUME NEW r \in Requests, Confirm(r)
      PROVE  UNCHANGED sessions
  BY <1>4 DEF Confirm, StartConfirm, LaunchRead, Launch, LoadFlow, MatchIdentity,
              ConsumeFlow, CompleteFlow, CompleteRead, CompleteConsume, Execute, tables
<1>5. ASSUME NEW r \in Requests, EndOwn(r) \/ Manage(r)
      PROVE  UNCHANGED sessions \/ (\E S : End(S)) \/ EraseWrite(r)
  BY <1>5 DEF EndOwn, Manage, RoleRead, RoleWrite, EndSessions, SetPolicy, EraseOther,
              EraseRead, tables
<1>6. QED
  BY <1>1, <1>2, <1>3, <1>4, <1>5, EndKeeps DEF Next, vars, tables

-----------------------------------------------------------------------------
(* Roles, sessions and requests.                                           *)

\* Ids that AUTO_INCREMENT has not reached are unused.
FreshUsers == \A u \in UserIds : u >= next.user => users[u].mail = NoMail

\* Sessions belong to accounts.
SessionOwners ==
    \A s \in SessionIds :
        /\ sessions[s].live => sessions[s].user # None
        /\ sessions[s].user # None => sessions[s].user \in Accounts

\* Nobody changes their own role.
OtherRoles == \A r \in Requests : req[r].pc = "role" => req[r].target # req[r].user

UserInv == FreshUsers /\ SessionOwners /\ OtherRoles

LEMMA InitUsers == Init => UserInv /\ AuthorityIsFresh /\ RolesEndSessions
<1> SUFFICES ASSUME Init PROVE UserInv /\ AuthorityIsFresh /\ RolesEndSessions
  OBVIOUS
<1>1. PICK seed \in Seeds :
         /\ users = [u \in UserIds |-> IF u <= Len(seed.users) THEN seed.users[u]
                                       ELSE NoUserRow]
         /\ next = [user |-> seed.user, session |-> seed.session,
                    flow |-> seed.flow, state |-> 1]
  BY DEF Init
<1>2. Len(seed.users) \in Nat /\ seed.user \in Len(seed.users) + 1..MaxUser + 1
  BY SeedTables, Elements
<1>3. FreshUsers
  BY <1>1, <1>2, Basics DEF FreshUsers, NoUserRow, UserIds
<1>4. SessionOwners /\ OtherRoles /\ AuthorityIsFresh /\ RolesEndSessions
  BY Basics DEF Init, SessionOwners, OtherRoles, AuthorityIsFresh, RolesEndSessions,
                NoSessionRow, Idle
<1>5. QED BY <1>3, <1>4 DEF UserInv

(* Which accounts a step creates, keeps and deletes. *)
LEMMA FreshStep ==
    ASSUME TypeInv, FreshUsers, [Next]_vars
    PROVE  /\ FreshUsers'
           /\ next'.user >= next.user
           /\ \A u \in Accounts :
                  \/ u \in Accounts' /\ users'[u].mail = users[u].mail
                  \/ \E r \in Requests : EraseWrite(r) /\ u = req[r].target
           /\ \A u \in Accounts' \ Accounts :
                  /\ u = next.user /\ next'.user = u + 1
                  /\ \E r \in Requests : UpsertWrite(r) /\ CreateAccount(r)
<1>0. next.user \in Nat /\ TypeOK /\ \A u \in UserIds : u \in Nat
  BY Basics DEF TypeInv, TypeOK, UserIds
<1>1. CASE users' = users /\ next'.user = next.user
  BY <1>0, <1>1 DEF FreshUsers, Accounts
<1>2. ASSUME NEW r \in Requests, UpsertWrite(r), CreateAccount(r)
      PROVE  /\ FreshUsers'
             /\ next'.user = next.user + 1
             /\ \A u \in UserIds : u # next.user => users'[u] = users[u]
             /\ next.user \in UserIds /\ next.user \notin Accounts
  <2>1. next'.user = next.user + 1 /\ next.user \in UserIds
    BY <1>0, <1>2, NextId DEF CreateAccount, TypeOK
  <2>2. \A u \in UserIds : u # next.user => users'[u] = users[u]
    BY <1>0, <1>2 DEF CreateAccount, TypeOK
  <2>3. QED BY <1>0, <2>1, <2>2 DEF FreshUsers, Accounts
<1>3. ASSUME NEW r \in Requests, RoleWrite(r)
      PROVE  next' = next /\ \A u \in UserIds : users'[u].mail = users[u].mail
  BY <1>0, <1>3 DEF RoleWrite, TypeOK, UserRow
<1>4. ASSUME NEW r \in Requests, EraseWrite(r)
      PROVE  /\ next' = next
             /\ \A u \in UserIds : u # req[r].target => users'[u] = users[u]
             /\ \A u \in UserIds : u = req[r].target => users'[u].mail = NoMail
  BY <1>0, <1>4 DEF EraseWrite, TypeOK, NoUserRow
<1>5. QED
  <2>1. CASE \E r \in Requests : UpsertWrite(r) /\ CreateAccount(r)
    BY <1>0, <1>2, <2>1 DEF Accounts
  <2>2. CASE \E r \in Requests : RoleWrite(r)
    BY <1>0, <1>3, <2>2 DEF Accounts, FreshUsers
  <2>3. CASE \E r \in Requests : EraseWrite(r)
    BY <1>0, <1>4, <2>3 DEF Accounts, FreshUsers
  <2>4. QED BY <1>1, <2>1, <2>2, <2>3, AccountSteps

LEMMA UserStep == TypeInv /\ UserInv /\ [Next]_vars => UserInv'
<1> SUFFICES ASSUME TypeInv, UserInv, [Next]_vars PROVE UserInv'
  OBVIOUS
<1>0. TypeOK /\ None \notin UserIds
  BY Basics DEF TypeInv
<1>1. SessionOwners'
  <2>1. ASSUME NEW r \in Requests, EraseWrite(r) PROVE SessionOwners'
    <3>1. \A s \in SessionIds :
            \/ sessions'[s] = NoSessionRow
            \/ sessions[s].user # req[r].target /\ sessions'[s] = sessions[s]
      BY <1>0, <2>1 DEF EraseWrite, SessionsOf, TypeOK
    <3>2. \A u \in Accounts : u # req[r].target => u \in Accounts'
      BY <1>0, <2>1 DEF EraseWrite, Accounts, TypeOK
    <3>3. QED BY <3>1, <3>2 DEF UserInv, SessionOwners, NoSessionRow
  <2>2. ASSUME NEW r \in Requests, OpenSession(r) PROVE SessionOwners'
    <3>1. Accounts' = Accounts /\ req[r].user \in Accounts
      BY <2>2 DEF OpenSession, Accounts
    <3>2. \A s \in SessionIds :
            \/ sessions'[s] = sessions[s]
            \/ sessions'[s].user = req[r].user
      BY <1>0, <2>2 DEF OpenSession, TypeOK
    <3>3. QED BY <1>0, <3>1, <3>2 DEF UserInv, SessionOwners, Accounts
  <2>3. CASE \A s \in SessionIds : Ending(s)
    <3>1. \A u \in Accounts : u \in Accounts' \/ \E r \in Requests : EraseWrite(r)
      BY FreshStep DEF UserInv
    <3>2. QED BY <2>1, <2>3, <3>1 DEF UserInv, SessionOwners, Ending
  <2>4. QED BY <2>1, <2>2, <2>3, SessionSteps
<1>2. OtherRoles'
  <2>1. CASE UNCHANGED req
    BY <2>1 DEF UserInv, OtherRoles
  <2>2. ASSUME NEW r \in Requests, Step(r) PROVE OtherRoles'
    <3>1. \A p \in Requests \ {r} : req'[p].pc = req[p].pc /\ req'[p].target = req[p].target
                                     /\ req'[p].user = req[p].user
      <4> TAKE p \in Requests \ {r}
      <4>1. PICK late : req'[p] = [req[p] EXCEPT !.late = late]
        BY <2>2, Others
      <4>2. req[p] \in Request
        BY <1>0 DEF TypeOK
      <4>3. QED BY <4>1, <4>2, Marked
    <3>2. req'[r].pc = "role" => RoleRead(r)
      BY <2>2, Basics, Arrivals DEF Step, SignIn, Confirm, Manage
    <3>3. RoleRead(r) => req'[r].target # req'[r].user
      BY <1>0 DEF RoleRead, TypeOK, Request
    <3>4. QED BY <3>1, <3>2, <3>3 DEF UserInv, OtherRoles
  <2>3. QED
    BY <2>1, <2>2 DEF Next, Step, vars, StartSignIn, ExpireSomething
<1>3. QED BY <1>1, <1>2, FreshStep DEF UserInv

(* A role lost is marked in the requests that relied on it. *)
LEMMA AuthorityStep ==
    TypeInv /\ UserInv /\ AuthorityIsFresh /\ [Next]_vars => AuthorityIsFresh'
<1> SUFFICES ASSUME TypeInv, UserInv, AuthorityIsFresh, [Next]_vars PROVE AuthorityIsFresh'
  OBVIOUS
<1>0. TypeOK /\ \A p \in Requests : req[p] \in Request
  BY DEF TypeInv, TypeOK
<1> DEFINE Lost(lost) ==
             /\ \A u \in Admins : u # lost => u \in Admins'
             /\ \A p \in Requests : req'[p].user = lost /\ req'[p].admin => req'[p].late
<1>1. ASSUME NEW r \in Requests, RoleWrite(r) PROVE AuthorityIsFresh'
  <2> DEFINE q == req[r]
             rec == [q EXCEPT !.pc = "endSessions", !.admins = {}]
  <2>1. /\ \A u \in Admins : u # q.target => u \in Admins'
        /\ q.grant => \A u \in Admins : u \in Admins'
    BY <1>0, <1>1 DEF RoleWrite, Admins, Accounts, TypeOK, UserRow
  <2>2. CASE q.grant
    <3>1. req' = [req EXCEPT ![r] = rec]
      BY <1>1, <2>2 DEF RoleWrite
    <3>2. \A p \in Requests : req'[p].user = req[p].user /\ req'[p].admin = req[p].admin
                              /\ req'[p].late = req[p].late
      BY <1>0, <3>1 DEF TypeOK, Request
    <3>3. QED BY <2>1, <2>2, <3>2 DEF AuthorityIsFresh
  <2>3. CASE ~q.grant
    <3>1. Overtake(r, q.target, rec)
      BY <1>1, <2>3 DEF RoleWrite
    <3>2. /\ req'[r].user = q.user /\ req'[r].admin = q.admin /\ req'[r].late = q.late
          /\ \A p \in Requests \ {r} :
                /\ req'[p].user = req[p].user /\ req'[p].admin = req[p].admin
                /\ req'[p].late = (req[p].late \/ (req[p].user = q.target /\ req[p].admin))
      BY <1>0, <3>1 DEF Overtake, Request
    <3>3. q.target # q.user
      BY <1>1 DEF RoleWrite, UserInv, OtherRoles
    <3>4. QED BY <2>1, <3>2, <3>3 DEF AuthorityIsFresh
  <2>4. QED BY <2>2, <2>3
<1>2. ASSUME NEW r \in Requests, EraseWrite(r) PROVE AuthorityIsFresh'
  <2> DEFINE t == req[r].target
  <2>1. \A u \in Admins : u # t => u \in Admins'
    BY <1>0, <1>2 DEF EraseWrite, Admins, Accounts, TypeOK
  <2>2. Overtake(r, t, Idle)
    BY <1>2 DEF EraseWrite
  <2>3. /\ req'[r] = Idle
        /\ \A p \in Requests \ {r} :
              /\ req'[p].user = req[p].user /\ req'[p].admin = req[p].admin
              /\ req'[p].late = (req[p].late \/ (req[p].user = t /\ req[p].admin))
    BY <1>0, <2>2 DEF Overtake, Request
  <2>4. ~Idle.admin
    BY DEF Idle
  <2>5. ASSUME NEW p \in Requests, req'[p].admin, ~req'[p].late PROVE req'[p].user \in Admins'
    <3>1. p # r
      BY <2>3, <2>4, <2>5
    <3>2. req[p].admin /\ ~req[p].late /\ req[p].user # t
      BY <2>3, <2>5, <3>1
    <3>3. QED BY <2>1, <2>3, <3>1, <3>2 DEF AuthorityIsFresh
  <2>6. QED BY <2>5 DEF AuthorityIsFresh
<1>3. CASE \A u \in Admins : u \in Admins'
  <2>1. CASE UNCHANGED req
    BY <1>3, <2>1 DEF AuthorityIsFresh
  <2>2. ASSUME NEW r \in Requests, Step(r), ~(RoleWrite(r) \/ EraseWrite(r))
        PROVE  AuthorityIsFresh'
    <3>1. \A p \in Requests \ {r} : req'[p] = req[p]
      BY <2>2, Others
    <3>2. \/ ~req'[r].admin
          \/ req'[r].user \in Admins
          \/ req[r].admin /\ req'[r].admin /\ req'[r].late = req[r].late
               /\ req'[r].user = req[r].user
      <4> USE DEF TypeOK, Request, Idle, Go, Done
      <4>1. req[r] \in Request /\ req \in [Requests -> Request]
        BY <1>0
      <4>2. CASE ReadState(r) \/ UseState(r) \/ UpsertWrite(r) \/ OpenSession(r)
                 \/ StartConfirm(r) \/ Launch(r) \/ EndOwn(r) \/ EndSessions(r)
                 \/ SetPolicy(r) \/ Stop(r)
        <5>1. CASE UpsertWrite(r)
          <6>1. \E u : req' = [req EXCEPT ![r] =
                         [Idle EXCEPT !.pc = "refresh", !.user = u, !.ident = req[r].ident]]
            BY <5>1 DEF UpsertWrite
          <6>2. QED BY <4>1, <6>1
        <5>2. CASE ReadState(r)
          BY <4>1, <5>2 DEF ReadState
        <5>3. CASE UseState(r)
          <6> DEFINE signs(i, m) == [Idle EXCEPT !.pc = "upsert", !.ident = i, !.mail = m]
                     confirms(i, f) == [Idle EXCEPT !.pc = "loadFlow", !.ident = i, !.flow = f]
          <6>1. \/ \E i, m : req' = [req EXCEPT ![r] = signs(i, m)]
                \/ \E i, f : req' = [req EXCEPT ![r] = confirms(i, f)]
            BY <5>3 DEF UseState
          <6>2. \A i, m : ~signs(i, m).admin /\ ~confirms(i, m).admin
            OBVIOUS
          <6> HIDE DEF signs, confirms
          <6>3. ~req'[r].admin
            BY <4>1, <6>1, <6>2
          <6>4. QED BY <6>3
        <5>4. QED
          BY <4>1, <4>2, <5>1, <5>2, <5>3
             DEF OpenSession, StartConfirm, Launch, EndOwn, EndSessions, SetPolicy, Stop
      <4>3. CASE RefreshUser(r)
        BY <4>1, <4>3 DEF RefreshUser, Admins
      <4>4. CASE Resolve(r)
        <5>1. PICK s \in SessionIds :
                /\ sessions[s].user \in Accounts
                /\ req' = [req EXCEPT ![r] =
                      [Idle EXCEPT !.pc = "act", !.sess = s, !.user = sessions[s].user,
                                   !.admin = users[sessions[s].user].admin]]
          BY <4>4 DEF Resolve
        <5>2. /\ req'[r].user = sessions[s].user
              /\ req'[r].admin = users[sessions[s].user].admin
          BY <4>1, <5>1
        <5>3. QED BY <5>1, <5>2 DEF Admins
      <4>5. CASE UpsertRead(r) \/ CheckPolicy(r) \/ LaunchRead(r) \/ LoadFlow(r)
                 \/ MatchIdentity(r) \/ ConsumeFlow(r) \/ CompleteFlow(r) \/ CompleteRead(r)
                 \/ CompleteConsume(r) \/ Execute(r)
        BY <4>1, <4>5
           DEF UpsertRead, CheckPolicy, LaunchRead, LoadFlow, MatchIdentity, ConsumeFlow,
               CompleteFlow, CompleteRead, CompleteConsume, Execute
      <4>6. CASE RoleRead(r) \/ EraseOther(r) \/ EraseRead(r)
        <5>1. CASE RoleRead(r)
          BY <4>1, <5>1 DEF RoleRead
        <5>2. CASE EraseOther(r)
          BY <4>1, <5>2 DEF EraseOther
        <5>3. CASE EraseRead(r)
          BY <4>1, <5>3 DEF EraseRead
        <5>4. QED BY <4>6, <5>1, <5>2, <5>3
      <4>7. QED BY <2>2, <4>2, <4>3, <4>4, <4>5, <4>6 DEF Step, SignIn, Confirm, Manage
    <3>3. QED BY <1>3, <3>1, <3>2 DEF AuthorityIsFresh
  <2>3. QED
    BY <1>1, <1>2, <2>1, <2>2 DEF Next, Step, vars, StartSignIn, ExpireSomething
<1>4. CASE ~ \E r \in Requests : RoleWrite(r) \/ EraseWrite(r)
  <2>1. \A u \in Admins : u \in Admins'
    <3>1. CASE users' = users
      BY <3>1 DEF Admins, Accounts
    <3>2. ASSUME NEW r \in Requests, CreateAccount(r) PROVE \A u \in Admins : u \in Admins'
      BY <1>0, <3>2, FreshStep DEF CreateAccount, Admins, Accounts, TypeOK, UserInv, FreshUsers,
         UserIds
    <3>3. QED BY <1>4, <3>1, <3>2, AccountSteps
  <2>2. QED BY <1>3, <2>1
<1>5. QED BY <1>1, <1>2, <1>4

(* The histories of roles and interruptions only grow. *)
LEMMA HistoriesGrow ==
    ASSUME [Next]_vars
    PROVE  interrupted \subseteq interrupted' /\ (raced => raced')
<1>1. CASE UNCHANGED vars \/ StartSignIn \/ ExpireSomething
  BY <1>1 DEF vars, StartSignIn, ExpireSomething, History
<1>2. ASSUME NEW r \in Requests, SignIn(r) \/ Resolve(r) \/ EndOwn(r) \/ Stop(r)
      PROVE  interrupted \subseteq interrupted' /\ raced' = raced
  BY <1>2 DEF SignIn, ReadState, UseState, UpsertRead, UpsertWrite, RefreshUser,
              CheckPolicy, OpenSession, Resolve, EndOwn, Stop, History
<1>3. ASSUME NEW r \in Requests, Confirm(r)
      PROVE  interrupted' = interrupted /\ raced' = raced
  BY <1>3 DEF Confirm, StartConfirm, LaunchRead, Launch, LoadFlow, MatchIdentity,
              ConsumeFlow, CompleteFlow, CompleteRead, CompleteConsume, Execute, History
<1>4. ASSUME NEW r \in Requests, Manage(r)
      PROVE  interrupted' = interrupted /\ (raced => raced')
  <2>1. CASE RoleRead(r) \/ EndSessions(r) \/ SetPolicy(r) \/ EraseOther(r) \/ EraseRead(r)
    <3>1. UNCHANGED History
      BY <2>1 DEF RoleRead, EndSessions, SetPolicy, EraseOther, EraseRead
    <3>2. QED BY <3>1 DEF History
  <2>2. CASE RoleWrite(r) \/ EraseWrite(r)
    <3>1. interrupted' = interrupted
      BY <2>2 DEF RoleWrite, EraseWrite
    <3>2. \E new \in BOOLEAN : raced' = (raced \/ new)
      BY <2>2 DEF RoleWrite, EraseWrite
    <3>3. QED BY <3>1, <3>2
  <2>3. QED BY <1>4, <2>1, <2>2 DEF Manage
<1>5. QED BY <1>1, <1>2, <1>3, <1>4 DEF Next

(* Who is about to end the sessions of a user does so, or is stopped. *)
LEMMA Pending ==
    ASSUME TypeInv, [Next]_vars, NEW p \in Requests, req[p].pc = "endSessions"
    PROVE  \/ req'[p].pc = "endSessions" /\ req'[p].target = req[p].target
           \/ EndSessions(p)
           \/ Stop(p)
<1>1. CASE UNCHANGED req
  BY <1>1
<1>2. ASSUME NEW r \in Requests \ {p}, Step(r)
      PROVE  req'[p].pc = "endSessions" /\ req'[p].target = req[p].target
  <2>1. PICK late : req'[p] = [req[p] EXCEPT !.late = late]
    BY <1>2, Others
  <2>2. req[p] \in Request
    BY DEF TypeInv, TypeOK
  <2>3. QED BY <2>1, <2>2, Marked
<1>3. ASSUME Step(p) PROVE EndSessions(p) \/ Stop(p)
  <2>1. ~SignIn(p) /\ ~Resolve(p) /\ ~EndOwn(p)
    BY DEF SignIn, ReadState, UseState, UpsertRead, UpsertWrite, RefreshUser, CheckPolicy,
           OpenSession, Resolve, EndOwn
  <2>2. ~Confirm(p)
    BY DEF Confirm, StartConfirm, LaunchRead, Launch, LoadFlow, MatchIdentity, ConsumeFlow,
           CompleteFlow, CompleteRead, CompleteConsume, Execute
  <2>3. Manage(p) => EndSessions(p)
    BY DEF Manage, RoleRead, RoleWrite, SetPolicy, EraseOther, EraseRead, EraseWrite
  <2>4. QED BY <1>3, <2>1, <2>2, <2>3 DEF Step
<1>4. QED
  BY <1>1, <1>2, <1>3 DEF Next, Step, vars, StartSignIn, ExpireSomething

(* A role that changes leaves no session opened with the old one, in the end. *)
LEMMA RolesStep ==
    TypeInv /\ UserInv /\ RolesEndSessions /\ [Next]_vars => RolesEndSessions'
<1> SUFFICES ASSUME TypeInv, UserInv, RolesEndSessions, [Next]_vars,
                    NEW s \in SessionIds, sessions'[s].live,
                    sessions'[s].role # users'[sessions'[s].user].admin
             PROVE  \/ sessions'[s].user \in interrupted'
                    \/ \E r \in Requests :
                          req'[r].pc = "endSessions" /\ req'[r].target = sessions'[s].user
  BY DEF RolesEndSessions
<1>0. TypeOK
  BY DEF TypeInv
<1> DEFINE u == sessions[s].user
           Excused == \/ sessions'[s].user \in interrupted'
                      \/ \E r \in Requests :
                            req'[r].pc = "endSessions" /\ req'[r].target = sessions'[s].user
<1>1. ASSUME Ending(s), sessions[s].role # users[u].admin PROVE Excused
  <2>1. sessions'[s].user = u /\ sessions[s].live
    BY <1>1 DEF Ending
  <2>2. CASE u \in interrupted
    BY <2>1, <2>2, HistoriesGrow
  <2>3. ASSUME NEW p \in Requests, req[p].pc = "endSessions", req[p].target = u
        PROVE  Excused
    <3>1. CASE EndSessions(p)
      <4>1. ~sessions'[s].live
        BY <1>0, <2>3, <3>1 DEF EndSessions, End, SessionsOf, TypeOK, SessionRow
      <4>2. QED BY <4>1
    <3>2. CASE Stop(p)
      BY <2>1, <2>3, <3>2 DEF Stop
    <3>3. QED BY <2>1, <2>3, <3>1, <3>2, Pending
  <2>4. QED BY <1>1, <2>1, <2>2, <2>3 DEF RolesEndSessions
<1>2. ASSUME NEW r \in Requests, EraseWrite(r) PROVE Excused
  <2>1. sessions'[s] = sessions[s] /\ u # req[r].target
    BY <1>0, <1>2 DEF EraseWrite, SessionsOf, TypeOK, NoSessionRow
  <2>2. u \in UserIds
    BY <2>1 DEF UserInv, SessionOwners, Accounts
  <2>3. users'[u] = users[u]
    BY <1>0, <1>2, <2>1, <2>2 DEF EraseWrite, TypeOK
  <2>4. QED BY <1>1, <2>1, <2>3 DEF Ending
<1>3. ASSUME NEW r \in Requests, OpenSession(r) PROVE Excused
  <2>1. sessions'[s] = sessions[s]
    BY <1>0, <1>3 DEF OpenSession, TypeOK
  <2>2. QED BY <1>1, <1>3, <2>1 DEF OpenSession, Ending
<1>4. CASE Ending(s)
  <2>1. sessions'[s].user = u /\ sessions[s].live /\ u \in Accounts /\ u \in UserIds
    BY <1>4 DEF Ending, UserInv, SessionOwners, Accounts
  <2>2. CASE users'[u].admin = users[u].admin
    BY <1>1, <1>4, <2>1, <2>2 DEF Ending
  <2>3. ASSUME NEW r \in Requests, RoleWrite(r), users'[u].admin # users[u].admin PROVE Excused
    <3>1. u = req[r].target
      BY <1>0, <2>1, <2>3 DEF RoleWrite, TypeOK
    <3>2. req'[r] = [req[r] EXCEPT !.pc = "endSessions", !.admins = {}]
      BY <1>0, <2>3, Overtaken DEF RoleWrite, TypeOK
    <3>3. req'[r].pc = "endSessions" /\ req'[r].target = u
      BY <1>0, <3>1, <3>2 DEF TypeOK, Request
    <3>4. QED BY <2>1, <3>3
  <2>4. ASSUME NEW r \in Requests, CreateAccount(r) PROVE users'[u] = users[u]
    BY <1>0, <2>1, <2>4 DEF CreateAccount, UserInv, FreshUsers, Accounts, TypeOK, UserIds
  <2>5. QED BY <1>2, <2>2, <2>3, <2>4, AccountSteps
<1>5. QED BY <1>2, <1>3, <1>4, SessionSteps

(* Authority and sessions follow the roles of the users table. *)
LEMMA RolesAreRespected == Spec => [](AuthorityIsFresh /\ RolesEndSessions)
<1> DEFINE Inv == TypeInv /\ UserInv /\ AuthorityIsFresh /\ RolesEndSessions
<1>1. Init => Inv
  BY InitType, InitUsers
<1>2. Inv /\ [Next]_vars => Inv'
  BY TypeStep, UserStep, AuthorityStep, RolesStep
<1>3. Inv => AuthorityIsFresh /\ RolesEndSessions
  OBVIOUS
<1>4. QED BY <1>1, <1>2, <1>3, PTL DEF Spec

(* A request acts as an administrator for a user who is one, or who lost   *)
(* the role while the request was in flight.                               *)
THEOREM AuthorityFollowsRoles == Spec => []AuthorityIsFresh
BY RolesAreRespected, PTL

(* A changed role leaves no session opened under the old one, unless the   *)
(* change was interrupted before it ended them.                            *)
THEOREM SessionsFollowRoles == Spec => []RolesEndSessions
BY RolesAreRespected, PTL

-----------------------------------------------------------------------------
(* The last administrator.                                                 *)

\* Once there was an account there is an administrator, but for a race.
AdminFact == next.user > 1 => Admins # {} \/ raced

\* What the snapshot of a request says of administrators.
CountFact(q) ==
    /\ q.pc = "upsertWrite" =>
          /\ q.known = None => q.mail # NoMail
          /\ \A u \in q.admins : u < next.user
    /\ q.pc = "role" /\ ~q.grant => Cardinality(q.admins) > 1
    /\ q.pc = "eraseWrite" /\ q.target \in q.admins => Cardinality(q.admins) > 1

AdminInv == AdminFact /\ \A r \in Requests : CountFact(req[r])

(* A set of more than one user has another one. *)
LEMMA Another ==
    ASSUME NEW S \in SUBSET UserIds, Cardinality(S) > 1, NEW t
    PROVE  \E u \in S : u # t
<1> SUFFICES ASSUME \A u \in S : u = t PROVE FALSE
  OBVIOUS
<1>1. CASE S = {}
  BY <1>1, FS_EmptySet
<1>2. CASE S # {}
  <2>1. S = {t}
    BY <1>2
  <2>2. Cardinality(S) = 1
    BY <2>1, FS_Singleton
  <2>3. QED BY <2>2
<1>3. QED BY <1>1, <1>2

LEMMA InitAdmins == Init => AdminInv
<1> SUFFICES ASSUME Init PROVE AdminInv
  OBVIOUS
<1>1. PICK seed \in Seeds :
         /\ users = [u \in UserIds |-> IF u <= Len(seed.users) THEN seed.users[u]
                                       ELSE NoUserRow]
         /\ next = [user |-> seed.user, session |-> seed.session,
                    flow |-> seed.flow, state |-> 1]
  BY DEF Init
<1>2. /\ seed.users \in Seq([mail : Mails, admin : BOOLEAN])
      /\ seed.user \in Len(seed.users) + 1..MaxUser + 1
      /\ seed.user > 1 => \E m \in DOMAIN seed.users : seed.users[m].admin
  BY SeedTables
<1>3. /\ Len(seed.users) \in Nat /\ DOMAIN seed.users = 1..Len(seed.users)
      /\ \A n \in 1..Len(seed.users) : seed.users[n] \in [mail : Mails, admin : BOOLEAN]
  BY <1>2, Elements
<1>4. ASSUME next.user > 1 PROVE Admins # {}
  <2>1. seed.user > 1
    BY <1>1, <1>4
  <2>2. PICK m \in 1..Len(seed.users) : seed.users[m].admin
    BY <1>2, <1>3, <2>1
  <2>3. m \in UserIds /\ m <= Len(seed.users)
    BY <1>2, <1>3, Basics DEF UserIds
  <2>4. users[m] = seed.users[m]
    BY <1>1, <2>3
  <2>5. users[m].mail # NoMail
    BY <1>3, <2>4, Basics
  <2>6. QED BY <2>2, <2>3, <2>4, <2>5 DEF Admins, Accounts
<1>5. QED BY <1>4, Basics DEF Init, AdminInv, AdminFact, CountFact

LEMMA CountStep ==
    TypeInv /\ UserInv /\ AdminInv /\ [Next]_vars => \A r \in Requests : CountFact(req[r])'
<1> SUFFICES ASSUME TypeInv, UserInv, AdminInv, [Next]_vars, NEW p \in Requests
             PROVE  CountFact(req[p])'
  OBVIOUS
<1>0. TypeOK /\ req[p] \in Request /\ req \in [Requests -> Request] /\ CountFact(req[p])
  BY DEF TypeInv, TypeOK, AdminInv
<1>1. next'.user >= next.user /\ next.user \in Nat /\ next'.user \in Nat
  BY <1>0, FreshStep, TypeStep DEF UserInv, TypeInv, TypeOK
<1>2. CASE \E late : req'[p] = [req[p] EXCEPT !.late = late]
  <2>1. /\ req'[p].pc = req[p].pc /\ req'[p].known = req[p].known
        /\ req'[p].ident = req[p].ident /\ req'[p].admins = req[p].admins
        /\ req'[p].grant = req[p].grant /\ req'[p].target = req[p].target
        /\ req'[p].mail = req[p].mail /\ req[p].admins \subseteq UserIds
    BY <1>0, <1>2, Marked DEF Request
  <2>2. \A u \in UserIds : u < next.user => u < next'.user
    BY <1>1 DEF UserIds
  <2>3. QED BY <1>0, <2>1, <2>2 DEF CountFact
<1>3. ASSUME Step(p) PROVE CountFact(req[p])'
  <2>1. /\ req'[p].pc = "upsertWrite" => UpsertRead(p)
        /\ req'[p].pc = "role" => RoleRead(p)
        /\ req'[p].pc = "eraseWrite" => EraseRead(p)
    BY <1>3, Basics, Arrivals DEF Step, SignIn, Confirm, Manage
  <2>2. CASE UpsertRead(p)
    <3>1. /\ req'[p].known = identities[req[p].ident] /\ req'[p].ident = req[p].ident
          /\ req'[p].mail = req[p].mail /\ req'[p].admins = Admins /\ req'[p].pc = "upsertWrite"
      BY <1>0, <2>2 DEF UpsertRead, Request
    <3>2. \A u \in Admins : u < next'.user
      BY <1>1 DEF Admins, Accounts, UserInv, FreshUsers, UserIds
    <3>3. QED BY <2>2, <3>1, <3>2 DEF UpsertRead, CountFact
  <2>3. CASE RoleRead(p)
    BY <1>0, <2>3 DEF RoleRead, Request, CountFact
  <2>4. CASE EraseRead(p)
    <3>1. /\ req'[p].target = req[p].target /\ req'[p].admins = Admins
          /\ req'[p].pc = "eraseWrite"
      BY <1>0, <2>4 DEF EraseRead, Request
    <3>2. req[p].target \in Admins => Cardinality(Admins) > 1
      BY <2>4 DEF EraseRead, Admins
    <3>3. QED BY <3>1, <3>2 DEF CountFact
  <2>5. QED BY <2>1, <2>2, <2>3, <2>4 DEF CountFact
<1>4. QED
  <2>1. CASE UNCHANGED req
    <3>1. req[p] = [req[p] EXCEPT !.late = req[p].late]
      BY <1>0 DEF Request
    <3>2. QED BY <1>2, <2>1, <3>1
  <2>2. ASSUME NEW r \in Requests, Step(r) PROVE CountFact(req[p])'
    BY <1>2, <1>3, <2>2, Others
  <2>3. QED BY <2>1, <2>2 DEF Next, Step, vars, StartSignIn, ExpireSomething

LEMMA AdminStep == TypeInv /\ UserInv /\ AdminInv /\ [Next]_vars => AdminFact'
<1> SUFFICES ASSUME TypeInv, UserInv, AdminInv, [Next]_vars, next'.user > 1, ~raced'
             PROVE  Admins' # {}
  BY DEF AdminFact
<1>0. TypeOK /\ ~raced /\ Admins \subseteq UserIds /\ next.user \in Nat /\ next.user > 0
  BY HistoriesGrow DEF TypeInv, TypeOK, Admins, Accounts
<1>1. CASE users' = users /\ next'.user = next.user
  BY <1>0, <1>1 DEF AdminInv, AdminFact, Admins, Accounts
<1>2. ASSUME NEW r \in Requests, UpsertWrite(r), CreateAccount(r), req[r].known = None
      PROVE  Admins' # {}
  <2> DEFINE admin == req[r].mail \in AdminMails \/ Cardinality(req[r].admins) = 0
  <2>1. next.user \in UserIds /\ users[next.user].mail = NoMail
    BY <1>0, <1>2, NextId DEF CreateAccount, UserInv, FreshUsers
  <2>2. users' = [users EXCEPT ![next.user] = [mail |-> req[r].mail, admin |-> admin]]
    BY <1>2 DEF CreateAccount
  <2>3. req[r].pc = "upsertWrite" /\ req[r].mail # NoMail
        /\ \A u \in req[r].admins : u < next.user
    BY <1>2 DEF UpsertWrite, AdminInv, CountFact
  <2>4. CASE next.user > 1
    <3>1. PICK u \in Admins : TRUE
      BY <1>0, <2>4 DEF AdminInv, AdminFact
    <3>2. u # next.user /\ users'[u] = users[u]
      BY <1>0, <2>1, <2>2, <3>1 DEF Admins, Accounts, TypeOK
    <3>3. QED BY <3>1, <3>2 DEF Admins, Accounts
  <2>5. CASE next.user = 1
    <3>1. req[r].admins \subseteq UserIds
      BY <1>0 DEF TypeOK, Request
    <3>2. req[r].admins = {}
      BY <2>3, <2>5, <3>1 DEF UserIds
    <3>3. admin
      BY <3>2, FS_EmptySet
    <3>4. users'[next.user].admin /\ users'[next.user].mail # NoMail
      BY <1>0, <2>1, <2>2, <2>3, <3>3 DEF TypeOK
    <3>5. QED BY <2>1, <3>4 DEF Admins, Accounts
  <2>6. QED BY <1>0, <2>4, <2>5
<1>3. ASSUME NEW t, NEW S \in SUBSET UserIds, S = Admins, Admins # {},
             t \in S => Cardinality(S) > 1
      PROVE  \E u \in Admins : u # t
  BY <1>3, Another
<1>4. ASSUME NEW r \in Requests, RoleWrite(r) PROVE Admins' # {}
  <2> DEFINE q == req[r]
  <2>1. next.user > 1 /\ Admins # {}
    BY <1>0, <1>4 DEF RoleWrite, AdminInv, AdminFact
  <2>2. CASE q.grant
    BY <1>0, <1>4, <2>1, <2>2 DEF RoleWrite, Admins, Accounts, TypeOK, UserRow
  <2>3. CASE ~q.grant
    <3>1. q.admins = Admins /\ Cardinality(q.admins) > 1
      BY <1>4, <2>3 DEF RoleWrite, AdminInv, CountFact
    <3>2. PICK u \in Admins : u # q.target
      BY <1>0, <3>1, Another
    <3>3. users'[u] = users[u]
      BY <1>0, <1>4, <3>2 DEF RoleWrite, TypeOK, Admins, Accounts
    <3>4. QED BY <3>2, <3>3 DEF Admins, Accounts
  <2>4. QED BY <2>2, <2>3
<1>5. ASSUME NEW r \in Requests, EraseWrite(r) PROVE Admins' # {}
  <2> DEFINE q == req[r]
  <2>1. next.user > 1 /\ Admins # {}
    BY <1>0, <1>5 DEF EraseWrite, AdminInv, AdminFact
  <2>2. q.admins = Admins /\ (q.target \in q.admins => Cardinality(q.admins) > 1)
    BY <1>5 DEF EraseWrite, AdminInv, CountFact
  <2>3. PICK u \in Admins : u # q.target
    BY <1>0, <1>3, <2>1, <2>2
  <2>4. users'[u] = users[u]
    BY <1>0, <1>5, <2>3 DEF EraseWrite, TypeOK, Admins, Accounts
  <2>5. QED BY <2>3, <2>4 DEF Admins, Accounts
<1>6. QED BY <1>1, <1>2, <1>4, <1>5, AccountSteps

(* The last administrator is only lost when two requests that take a role, or *)
(* the account that has it, count the administrators at the same time.        *)
THEOREM LastAdmin == Spec => []AdminLostOnlyByRace
<1> DEFINE Inv == TypeInv /\ UserInv /\ AdminInv
<1>1. Init => Inv
  BY InitType, InitUsers, InitAdmins
<1>2. Inv /\ [Next]_vars => Inv'
  BY TypeStep, UserStep, CountStep, AdminStep DEF AdminInv
<1>3. Inv => AdminLostOnlyByRace
  <2> SUFFICES ASSUME Inv, NEW u \in Accounts PROVE Admins # {} \/ raced
    BY DEF AdminLostOnlyByRace, HasAdmin
  <2>1. next.user \in Nat /\ u \in UserIds /\ u < next.user /\ u >= 1
    BY DEF TypeInv, TypeOK, UserInv, FreshUsers, Accounts, UserIds
  <2>2. QED BY <2>1 DEF AdminInv, AdminFact, UserIds
<1>4. QED BY <1>1, <1>2, <1>3, PTL DEF Spec

-----------------------------------------------------------------------------
(* Identities.                                                             *)

(* Identities are linked, and never anything else happens to them. *)
LEMMA IdentitySteps ==
    ASSUME TypeInv, [Next]_vars
    PROVE  \/ UNCHANGED <<identities, linkedWith>>
           \/ \E r \in Requests :
                 /\ UpsertWrite(r) /\ req[r].known = None
                 /\ \/ req[r].holder \in Accounts /\ Link(r, req[r].holder)
                         /\ UNCHANGED users
                    \/ CreateAccount(r)
<1>1. CASE UNCHANGED vars \/ StartSignIn \/ ExpireSomething
  BY <1>1 DEF vars, tables, StartSignIn, ExpireSomething
<1>2. ASSUME NEW r \in Requests, SignIn(r) \/ Resolve(r) \/ EndOwn(r) \/ Stop(r)
      PROVE  \/ UNCHANGED <<identities, linkedWith>>
             \/ /\ UpsertWrite(r) /\ req[r].known = None
                /\ \/ req[r].holder \in Accounts /\ Link(r, req[r].holder)
                        /\ UNCHANGED users
                   \/ CreateAccount(r)
  BY <1>2 DEF SignIn, ReadState, UseState, UpsertRead, UpsertWrite, RefreshUser,
              CheckPolicy, OpenSession, Resolve, EndOwn, Stop, tables
<1>3. ASSUME NEW r \in Requests, Confirm(r)
      PROVE  UNCHANGED <<identities, linkedWith>>
  BY <1>3 DEF Confirm, StartConfirm, LaunchRead, Launch, LoadFlow, MatchIdentity,
              ConsumeFlow, CompleteFlow, CompleteRead, CompleteConsume, Execute, tables
<1>4. ASSUME NEW r \in Requests, Manage(r)
      PROVE  UNCHANGED <<identities, linkedWith>>
  BY <1>4 DEF Manage, RoleRead, RoleWrite, EndSessions, SetPolicy, EraseOther, EraseRead,
              EraseWrite, tables
<1>5. QED BY <1>1, <1>2, <1>3, <1>4 DEF Next

LEMMA LinksStay ==
    ASSUME TypeInv, [Next]_vars, NEW i \in Identities, identities[i] # None
    PROVE  identities'[i] = identities[i] /\ linkedWith'[i] = linkedWith[i]
<1>1. ASSUME NEW r \in Requests, NEW u, Link(r, u)
      PROVE  identities'[i] = identities[i] /\ linkedWith'[i] = linkedWith[i]
  BY <1>1 DEF Link, TypeInv, TypeOK
<1>2. QED BY <1>1, IdentitySteps DEF CreateAccount

(* How flows change: they are consumed, opened, or deleted with an account. *)
Kept(f) ==
    /\ flows'[f].user = flows[f].user /\ flows'[f].root = flows[f].root
    /\ flows'[f].by = flows[f].by
    /\ flows'[f].open => flows[f].open

LEMMA FlowSteps ==
    ASSUME TypeInv, [Next]_vars
    PROVE  \/ \A f \in FlowIds : Kept(f)
           \/ \E r \in Requests : StartConfirm(r) \/ CompleteFlow(r) \/ EraseWrite(r)
<1>1. CASE UNCHANGED flows
  BY <1>1 DEF Kept
<1>2. ASSUME NEW g, Consume(g) PROVE \A f \in FlowIds : Kept(f)
  BY <1>2 DEF Consume, Kept, TypeInv, TypeOK, FlowRow
<1>3. CASE StartSignIn \/ ExpireSomething
  <2>1. UNCHANGED flows \/ \E g : Consume(g)
    BY <1>3 DEF StartSignIn, ExpireSomething, Expire
  <2>2. QED BY <1>1, <1>2, <2>1
<1>4. ASSUME NEW r \in Requests, SignIn(r) \/ Resolve(r) \/ EndOwn(r) \/ Stop(r)
      PROVE  UNCHANGED flows
  BY <1>4 DEF SignIn, ReadState, UseState, UpsertRead, UpsertWrite, RefreshUser,
              CheckPolicy, OpenSession, Resolve, EndOwn, Stop, tables
<1>5. ASSUME NEW r \in Requests, Confirm(r)
      PROVE  UNCHANGED flows \/ (\E g : Consume(g)) \/ StartConfirm(r) \/ CompleteFlow(r)
  BY <1>5 DEF Confirm, LaunchRead, Launch, LoadFlow, MatchIdentity,
              ConsumeFlow, CompleteRead, CompleteConsume, Execute, tables
<1>6. ASSUME NEW r \in Requests, Manage(r)
      PROVE  UNCHANGED flows \/ EraseWrite(r)
  BY <1>6 DEF Manage, RoleRead, RoleWrite, EndSessions, SetPolicy, EraseOther, EraseRead, tables
<1>7. QED BY <1>1, <1>2, <1>3, <1>4, <1>5, <1>6 DEF Next, vars, tables

\* A usable flow, and one that a callback works on, has a user.
OpenFlows ==
    /\ \A f \in FlowIds : flows[f].open => flows[f].user # None
    /\ \A r \in Requests : req[r].pc = "match" => req[r].user \in UserIds

\* What a request may rely on of the identity that signed in.
IdentFact(q) ==
    /\ q.pc = "upsertWrite" =>
          /\ q.known # None => identities[q.ident] = q.known
          /\ q.holder # None =>
                /\ q.holder < next.user
                /\ q.holder \in Accounts => users[q.holder].mail = q.mail
    /\ q.pc \in {"refresh", "policy", "openSession", "consumeFlow", "complete"} =>
          q.user \in UserIds /\ identities[q.ident] = q.user

IdentInv ==
    /\ OpenFlows /\ IdentityMatchesAccount /\ SessionsAreIdentified
    /\ \A r \in Requests : IdentFact(req[r])

LEMMA InitIdent == Init => IdentInv
BY Basics DEF Init, IdentInv, OpenFlows, IdentityMatchesAccount, SessionsAreIdentified,
              IdentFact, NoFlowRow, NoSessionRow

LEMMA MatchStep ==
    TypeInv /\ UserInv /\ AdminInv /\ IdentInv /\ [Next]_vars => IdentityMatchesAccount'
<1> SUFFICES ASSUME TypeInv, UserInv, AdminInv, IdentInv, [Next]_vars,
                    NEW i \in Identities, identities'[i] # None
             PROVE  /\ identities'[i] \in Accounts'
                    /\ users'[identities'[i]].mail = linkedWith'[i]
  BY DEF IdentityMatchesAccount
<1>0. TypeOK
  BY DEF TypeInv
<1>1. CASE identities'[i] = identities[i] /\ linkedWith'[i] = linkedWith[i]
  <2>1. identities[i] \in Accounts /\ users[identities[i]].mail = linkedWith[i]
    BY <1>1 DEF IdentInv, IdentityMatchesAccount
  <2>2. ASSUME NEW r \in Requests, EraseWrite(r) PROVE identities[i] # req[r].target
    BY <2>2 DEF EraseWrite
  <2>3. QED BY <1>1, <2>1, <2>2, FreshStep DEF UserInv
<1>2. ASSUME NEW r \in Requests, UpsertWrite(r), req[r].known = None,
             req[r].holder \in Accounts, Link(r, req[r].holder), UNCHANGED users,
             i = req[r].ident
      PROVE  identities'[i] \in Accounts' /\ users'[identities'[i]].mail = linkedWith'[i]
  <2>1. identities'[i] = req[r].holder /\ req[r].holder # None /\ linkedWith'[i] = req[r].mail
    BY <1>0, <1>2, Basics DEF Link, TypeOK, Accounts
  <2>2. users[req[r].holder].mail = req[r].mail
    BY <1>2, <2>1 DEF UpsertWrite, IdentInv, IdentFact
  <2>3. QED BY <1>2, <2>1, <2>2 DEF Accounts
<1>3. ASSUME NEW r \in Requests, UpsertWrite(r), req[r].known = None, CreateAccount(r),
             i = req[r].ident
      PROVE  identities'[i] \in Accounts' /\ users'[identities'[i]].mail = linkedWith'[i]
  <2>1. next.user \in UserIds /\ identities'[i] = next.user /\ linkedWith'[i] = req[r].mail
    BY <1>0, <1>3, NextId DEF CreateAccount, Link, TypeOK
  <2>2. users'[next.user].mail = req[r].mail
    BY <1>0, <1>3, <2>1 DEF CreateAccount, TypeOK
  <2>3. req[r].mail # NoMail
    BY <1>3 DEF UpsertWrite, AdminInv, CountFact
  <2>4. QED BY <2>1, <2>2, <2>3 DEF Accounts
<1>4. ASSUME NEW r \in Requests, NEW u, Link(r, u), i # req[r].ident
      PROVE  identities'[i] = identities[i] /\ linkedWith'[i] = linkedWith[i]
  BY <1>0, <1>4 DEF Link, TypeOK
<1>5. QED BY <1>1, <1>2, <1>3, <1>4, IdentitySteps DEF CreateAccount

LEMMA SessionStep ==
    TypeInv /\ UserInv /\ IdentInv /\ [Next]_vars => SessionsAreIdentified'
<1> SUFFICES ASSUME TypeInv, UserInv, IdentInv, [Next]_vars,
                    NEW s \in SessionIds, sessions'[s].user # None
             PROVE  /\ sessions'[s].ident \in Identities
                    /\ identities'[sessions'[s].ident] = sessions'[s].user
  BY DEF SessionsAreIdentified
<1>0. TypeOK
  BY DEF TypeInv
<1>1. CASE sessions'[s].user = sessions[s].user /\ sessions'[s].ident = sessions[s].ident
  BY <1>1, LinksStay DEF IdentInv, SessionsAreIdentified
<1>2. ASSUME NEW r \in Requests, OpenSession(r)
      PROVE  /\ sessions'[s].ident \in Identities
             /\ identities'[sessions'[s].ident] = sessions'[s].user
  <2>1. /\ req[r].ident \in Identities /\ identities[req[r].ident] = req[r].user
        /\ identities' = identities
    BY <1>2 DEF OpenSession, IdentInv, IdentFact, TypeInv, Shape
  <2>2. \/ sessions'[s] = sessions[s]
        \/ sessions'[s].user = req[r].user /\ sessions'[s].ident = req[r].ident
    BY <1>0, <1>2 DEF OpenSession, TypeOK
  <2>3. QED BY <1>1, <2>1, <2>2
<1>3. ASSUME NEW r \in Requests, EraseWrite(r) PROVE sessions'[s] = sessions[s]
  BY <1>0, <1>3 DEF EraseWrite, TypeOK, NoSessionRow
<1>4. QED BY <1>1, <1>2, <1>3, SessionSteps DEF Ending

(* A new flow is the only one that changes. *)
LEMMA NewFlowRow ==
    ASSUME TypeInv, NEW u, NEW root, NEW by, NewFlow(u, root, by)
    PROVE  /\ u \in Accounts /\ u \in UserIds /\ next.flow \in FlowIds
           /\ next'.flow = next.flow + 1
           /\ flows'[next.flow] = [user |-> u, open |-> TRUE, root |-> root, by |-> by]
           /\ \A f \in FlowIds : f # next.flow => flows'[f] = flows[f]
<1>1. TypeOK /\ next.flow \in FlowIds
  BY NextId DEF NewFlow, TypeInv
<1>2. QED BY <1>1 DEF NewFlow, TypeOK, Accounts

LEMMA OpenFlowsStep ==
    TypeInv /\ IdentInv /\ [Next]_vars => OpenFlows'
<1> SUFFICES ASSUME TypeInv, IdentInv, [Next]_vars PROVE OpenFlows'
  OBVIOUS
<1>0. TypeOK /\ OpenFlows /\ None \notin UserIds
  BY Basics DEF TypeInv, IdentInv
<1>1. ASSUME NEW f \in FlowIds, flows'[f].open PROVE flows'[f].user # None
  <2>1. CASE Kept(f)
    BY <1>0, <1>1, <2>1 DEF Kept, OpenFlows
  <2>2. ASSUME NEW u, NEW root, NEW by, NewFlow(u, root, by) PROVE flows'[f].user # None
    <3>1. u \in UserIds /\ (f = next.flow => flows'[f].user = u)
          /\ (f # next.flow => flows'[f] = flows[f])
      <4>1. /\ u \in UserIds
            /\ flows'[next.flow] = [user |-> u, open |-> TRUE, root |-> root, by |-> by]
            /\ \A g \in FlowIds : g # next.flow => flows'[g] = flows[g]
        BY <2>2, NewFlowRow
      <4>2. QED BY <4>1
    <3>2. QED BY <1>0, <1>1, <3>1 DEF OpenFlows
  <2>3. ASSUME NEW r \in Requests, EraseWrite(r) PROVE flows'[f] = flows[f]
    BY <1>0, <1>1, <2>3 DEF EraseWrite, TypeOK, NoFlowRow
  <2>4. QED BY <1>0, <1>1, <2>1, <2>2, <2>3, FlowSteps DEF OpenFlows, StartConfirm, CompleteFlow
<1>2. ASSUME NEW p \in Requests, req'[p].pc = "match" PROVE req'[p].user \in UserIds
  <2>1. CASE req'[p] = req[p]
    BY <1>0, <1>2, <2>1 DEF OpenFlows
  <2>2. ASSUME NEW r \in Requests, p # r, Step(r) PROVE req'[p].user \in UserIds
    <3>1. PICK late : req'[p] = [req[p] EXCEPT !.late = late]
      BY <2>2, Others
    <3>2. req'[p].pc = req[p].pc /\ req'[p].user = req[p].user
      BY <1>0, <3>1, Marked DEF TypeOK
    <3>3. QED BY <1>0, <1>2, <3>2 DEF OpenFlows
  <2>3. ASSUME Step(p) PROVE req'[p].user \in UserIds
    <3>1. LoadFlow(p)
      BY <1>2, <2>3, Basics, Arrivals DEF Step, SignIn, Confirm, Manage
    <3>2. req[p].flow \in FlowIds /\ flows[req[p].flow].open
      BY <3>1 DEF LoadFlow, TypeInv, Shape
    <3>3. flows[req[p].flow].user \in UserIds
      BY <1>0, <3>2 DEF OpenFlows, TypeOK, FlowRow
    <3>4. req'[p].user = flows[req[p].flow].user
      BY <1>0, <3>1 DEF LoadFlow, TypeOK, Request
    <3>5. QED BY <3>3, <3>4
  <2>4. QED BY <2>1, <2>2, <2>3 DEF Next, Step, vars, StartSignIn, ExpireSomething
<1>3. QED BY <1>1, <1>2 DEF OpenFlows

(* Accounts that are there before and after a step keep their address. *)
LEMMA MailsStay ==
    ASSUME TypeInv, UserInv, [Next]_vars, NEW u \in Accounts', u < next.user
    PROVE  u \in Accounts /\ users'[u].mail = users[u].mail
<1>1. next.user \in Nat /\ u \in UserIds /\ u \in Accounts
  BY FreshStep DEF UserInv, TypeInv, TypeOK, Accounts, UserIds
<1>2. ASSUME NEW r \in Requests, EraseWrite(r), u = req[r].target PROVE FALSE
  <2>1. users'[u] = NoUserRow
    BY <1>1, <1>2 DEF EraseWrite, TypeInv, TypeOK
  <2>2. QED BY <2>1 DEF Accounts, NoUserRow
<1>3. QED BY <1>1, <1>2, FreshStep DEF UserInv

LEMMA IdentFactStep ==
    TypeInv /\ UserInv /\ IdentInv /\ [Next]_vars => \A r \in Requests : IdentFact(req[r])'
<1> SUFFICES ASSUME TypeInv, UserInv, IdentInv, [Next]_vars, NEW p \in Requests
             PROVE  IdentFact(req[p])'
  OBVIOUS
<1>0. /\ TypeOK /\ req[p] \in Request /\ req \in [Requests -> Request]
      /\ IdentFact(req[p]) /\ Shape(req[p]) /\ None \notin UserIds
  BY Basics DEF TypeInv, TypeOK, IdentInv
<1>1. next'.user >= next.user /\ next.user \in Nat /\ next'.user \in Nat
  BY <1>0, FreshStep, TypeStep DEF UserInv, TypeInv, TypeOK
<1>2. CASE \E late : req'[p] = [req[p] EXCEPT !.late = late]
  <2>1. /\ req'[p].pc = req[p].pc /\ req'[p].known = req[p].known
        /\ req'[p].ident = req[p].ident /\ req'[p].holder = req[p].holder
        /\ req'[p].user = req[p].user /\ req'[p].mail = req[p].mail
        /\ req[p].holder \in UserIds \cup {None}
    BY <1>0, <1>2, Marked DEF Request
  <2>2. req[p].pc \in {"upsertWrite", "refresh", "policy", "openSession", "consumeFlow", "complete"}
          => (identities[req[p].ident] # None
                => identities'[req[p].ident] = identities[req[p].ident])
    BY <1>0, LinksStay DEF Shape
  <2>3. req[p].holder # None /\ req[p].holder < next.user =>
          /\ req[p].holder < next'.user
          /\ req[p].holder \in Accounts' => /\ req[p].holder \in Accounts
                                            /\ users'[req[p].holder].mail = users[req[p].holder].mail
    BY <1>1, <2>1, MailsStay DEF UserIds
  <2>4. QED BY <1>0, <2>1, <2>2, <2>3 DEF IdentFact
<1>3. ASSUME Step(p) PROVE IdentFact(req[p])'
  <2>1. CASE UpsertRead(p)
    <3> DEFINE m == req[p].mail
    <3>1. /\ req'[p].pc = "upsertWrite" /\ req'[p].ident = req[p].ident
          /\ req'[p].known = identities[req[p].ident] /\ req'[p].holder = Holder(m)
          /\ req'[p].mail = m
      BY <1>0, <2>1 DEF UpsertRead, Request
    <3>2. Holder(m) # None =>
            Holder(m) \in Accounts /\ users[Holder(m)].mail = m /\ Holder(m) < next.user
      <4>1. Holder(m) # None => Holder(m) \in Accounts /\ users[Holder(m)].mail = m
        BY DEF Holder
      <4>2. \A u \in Accounts : u < next.user
        BY <1>1 DEF UserInv, FreshUsers, Accounts, UserIds
      <4>3. QED BY <4>1, <4>2
    <3>3. users' = users /\ identities' = identities /\ next' = next
      BY <2>1 DEF UpsertRead, tables
    <3>4. QED BY <3>1, <3>2, <3>3 DEF IdentFact, Accounts
  <2>2. CASE UpsertWrite(p)
    <3>1. PICK u : /\ req' = [req EXCEPT ![p] =
                        [Idle EXCEPT !.pc = "refresh", !.user = u, !.ident = req[p].ident]]
                   /\ \/ u = req[p].known /\ u # None /\ identities' = identities
                      \/ u \in Accounts /\ Link(p, u)
                      \/ u = next.user /\ CreateAccount(p)
      BY <2>2 DEF UpsertWrite
    <3>2. req'[p].pc = "refresh" /\ req'[p].user = u /\ req'[p].ident = req[p].ident
      BY <1>0, <3>1 DEF Idle
    <3>3. req[p].ident \in Identities /\ req[p].pc = "upsertWrite"
      BY <1>0, <2>2 DEF UpsertWrite, Shape
    <3>4. u \in UserIds /\ identities'[req[p].ident] = u
      <4>1. CASE u = req[p].known /\ u # None /\ identities' = identities
        BY <1>0, <3>3, <4>1 DEF IdentFact, Request
      <4>2. CASE u \in Accounts /\ Link(p, u)
        BY <1>0, <3>3, <4>2 DEF Link, TypeOK, Accounts
      <4>3. CASE u = next.user /\ CreateAccount(p)
        BY <1>0, <3>3, <4>3, NextId DEF CreateAccount, Link, TypeOK
      <4>4. QED BY <3>1, <4>1, <4>2, <4>3
    <3>5. QED BY <3>2, <3>4 DEF IdentFact
  <2>3. CASE RefreshUser(p)
    BY <1>0, <2>3 DEF RefreshUser, Request, IdentFact, tables
  <2>4. CASE CheckPolicy(p)
    BY <1>0, <2>4 DEF CheckPolicy, Go, Request, IdentFact, tables
  <2>5. CASE MatchIdentity(p)
    <3>1. req[p].user \in UserIds
      BY <2>5 DEF MatchIdentity, IdentInv, OpenFlows
    <3>2. QED BY <1>0, <2>5, <3>1 DEF MatchIdentity, Go, Request, IdentFact, tables
  <2>6. CASE ConsumeFlow(p)
    BY <1>0, <2>6 DEF ConsumeFlow, Go, Request, IdentFact
  <2>7. CASE CompleteFlow(p)
    BY <1>0, <2>7 DEF CompleteFlow, Go, Request, IdentFact
  <2>8. \/ UpsertRead(p) \/ UpsertWrite(p) \/ RefreshUser(p) \/ CheckPolicy(p)
        \/ MatchIdentity(p) \/ ConsumeFlow(p) \/ CompleteFlow(p)
        \/ req'[p].pc \notin {"upsertWrite", "refresh", "policy", "openSession",
                              "consumeFlow", "complete"}
    BY <1>3, Basics, Arrivals DEF Step, SignIn, Confirm, Manage
  <2>9. QED BY <2>1, <2>2, <2>3, <2>4, <2>5, <2>6, <2>7, <2>8 DEF IdentFact
<1>4. QED
  <2>1. CASE UNCHANGED req
    <3>1. req[p] = [req[p] EXCEPT !.late = req[p].late]
      BY <1>0 DEF Request
    <3>2. QED BY <1>2, <2>1, <3>1
  <2>2. ASSUME NEW r \in Requests, Step(r) PROVE IdentFact(req[p])'
    BY <1>2, <1>3, <2>2, Others
  <2>3. QED BY <2>1, <2>2 DEF Next, Step, vars, StartSignIn, ExpireSomething

(* The invariant behind the theorems on identities and confirmations. *)
AccountInv == TypeInv /\ UserInv /\ AdminInv /\ IdentInv

LEMMA InitAccounts == Init => AccountInv
BY InitType, InitUsers, InitAdmins, InitIdent DEF AccountInv

LEMMA AccountStep == AccountInv /\ [Next]_vars => AccountInv'
BY TypeStep, UserStep, CountStep, AdminStep, MatchStep, SessionStep, OpenFlowsStep,
   IdentFactStep DEF AccountInv, AdminInv, IdentInv

(* Identities, the accounts they are linked to, and the sessions they open agree. *)
LEMMA IdentitiesAgree == Spec => [](IdentityMatchesAccount /\ SessionsAreIdentified)
<1>1. AccountInv => IdentityMatchesAccount /\ SessionsAreIdentified
  BY DEF AccountInv, IdentInv
<1>2. QED BY <1>1, InitAccounts, AccountStep, PTL DEF Spec

(* Linked identities belong to existing accounts with the address they were *)
(* linked for, however sign-ins and deletions interleave and whatever       *)
(* address the provider reports later.                                      *)
THEOREM IdentitiesBelong == Spec => []IdentityMatchesAccount
BY IdentitiesAgree, PTL

(* A session is one of its identity's account as long as it is stored.     *)
THEOREM SessionsBelong == Spec => []SessionsAreIdentified
BY IdentitiesAgree, PTL

-----------------------------------------------------------------------------
(* Confirmations.                                                          *)

\* Flows belong to accounts; a flow is its own root until it is confirmed.
FlowFact ==
    \A f \in FlowIds :
        /\ f >= next.flow => flows[f].user = None
        /\ flows[f].user = None => flows[f].by = NoIdentity
        /\ flows[f].user # None =>
              /\ flows[f].by = NoIdentity => flows[f].root = f
              /\ flows[f].by # NoIdentity => flows[f].by \in Identities /\ flows[f].root \in FlowIds

\* What a request may rely on of the flow it works on.
FlowOfFact(q) ==
    /\ q.pc = "match" =>
          q.user < next.user /\ (q.user \in Accounts => flows[q.flow].user = q.user)
    /\ q.pc \in {"consumeFlow", "complete", "consumeDone", "execute"} =>
          q.user \in UserIds /\ flows[q.flow].user = q.user
    /\ q.pc \in {"consumeDone", "execute"} => flows[q.flow].by # NoIdentity
    /\ q.pc \in {"complete", "execute"} => ~flows[q.flow].open

\* The flows of existing accounts are those of accounts.
FlowOwners == \A f \in FlowIds : flows[f].user # None => flows[f].user \in Accounts

FlowInv == FlowFact /\ FlowOwners /\ ConfirmedByOwner /\ \A r \in Requests : FlowOfFact(req[r])

LEMMA InitFlow == Init => FlowInv
BY Basics DEF Init, FlowInv, FlowFact, FlowOwners, ConfirmedByOwner, FlowOfFact, NoFlowRow

(* A flow goes with its account, and otherwise only closes. *)
LEMMA FlowStays ==
    ASSUME AccountInv, FlowInv, [Next]_vars, NEW f \in FlowIds, flows[f].user # None
    PROVE  \/ Kept(f)
           \/ \E r \in Requests : EraseWrite(r) /\ req[r].target = flows[f].user
<1>0. TypeInv /\ TypeOK /\ next.flow \in Nat /\ f \in Nat /\ f # next.flow
  BY Basics DEF AccountInv, TypeInv, TypeOK, FlowIds, FlowInv, FlowFact
<1>1. ASSUME NEW u, NEW root, NEW by, NewFlow(u, root, by) PROVE Kept(f)
  <2>1. flows'[f] = flows[f]
    BY <1>0, <1>1, NewFlowRow
  <2>2. QED BY <2>1 DEF Kept
<1>2. ASSUME NEW r \in Requests, EraseWrite(r), req[r].target # flows[f].user PROVE Kept(f)
  <2>1. flows'[f] = flows[f]
    BY <1>0, <1>2 DEF EraseWrite, TypeOK
  <2>2. QED BY <2>1 DEF Kept
<1>3. QED BY <1>0, <1>1, <1>2, FlowSteps DEF StartConfirm, CompleteFlow

(* Accounts that an identity is linked to are not deleted, nor are their flows. *)
LEMMA LinkedFlowStays ==
    ASSUME AccountInv, FlowInv, [Next]_vars, NEW f \in FlowIds, flows[f].user # None,
           NEW i \in Identities, identities[i] = flows[f].user
    PROVE  Kept(f)
<1>1. ASSUME NEW r \in Requests, EraseWrite(r) PROVE req[r].target # flows[f].user
  BY <1>1 DEF EraseWrite
<1>2. QED BY <1>1, FlowStays

LEMMA ConfirmedFlowStays ==
    ASSUME AccountInv, FlowInv, [Next]_vars, NEW f \in FlowIds, flows[f].by # NoIdentity
    PROVE  /\ Kept(f) /\ flows[f].user # None
           /\ flows[f].by \in Identities /\ identities[flows[f].by] = flows[f].user
           /\ flows[f].root \in FlowIds
<1>1. /\ flows[f].user # None /\ flows[f].by \in Identities /\ flows[f].root \in FlowIds
      /\ identities[flows[f].by] = flows[f].user
  BY DEF FlowInv, FlowFact, ConfirmedByOwner
<1>2. QED BY <1>1, LinkedFlowStays

(* A flow that appears was opened by a request. *)
LEMMA FlowAppears ==
    ASSUME AccountInv, FlowInv, [Next]_vars, NEW f \in FlowIds,
           flows[f].user = None, flows'[f].user # None
    PROVE  /\ f = next.flow /\ next'.flow = f + 1
           /\ \E r \in Requests :
                 \/ StartConfirm(r) /\ flows'[f] = [user |-> req[r].user, open |-> TRUE,
                                                  root |-> f, by |-> NoIdentity]
                 \/ CompleteFlow(r)
                      /\ flows'[f] = [user |-> req[r].user, open |-> TRUE,
                                      root |-> flows[req[r].flow].root, by |-> req[r].ident]
<1>0. TypeInv /\ TypeOK
  BY DEF AccountInv, TypeInv
<1>1. ASSUME NEW u, NEW root, NEW by, NewFlow(u, root, by)
      PROVE  /\ f = next.flow /\ next'.flow = f + 1
             /\ flows'[f] = [user |-> u, open |-> TRUE, root |-> root, by |-> by]
  BY <1>0, <1>1, NewFlowRow
<1>2. ASSUME NEW r \in Requests, EraseWrite(r) PROVE FALSE
  BY <1>0, <1>2 DEF EraseWrite, TypeOK, NoFlowRow
<1>3. ~Kept(f)
  BY DEF Kept
<1>4. PICK r \in Requests : StartConfirm(r) \/ CompleteFlow(r)
  BY <1>0, <1>2, <1>3, FlowSteps
<1>5. CASE StartConfirm(r)
  <2>1. NewFlow(req[r].user, next.flow, NoIdentity)
    BY <1>5 DEF StartConfirm
  <2>2. /\ f = next.flow /\ next'.flow = f + 1
        /\ flows'[f] = [user |-> req[r].user, open |-> TRUE,
                        root |-> next.flow, by |-> NoIdentity]
    BY <1>1, <2>1
  <2>3. QED BY <1>5, <2>2
<1>6. CASE CompleteFlow(r)
  <2>1. NewFlow(req[r].user, flows[req[r].flow].root, req[r].ident)
    BY <1>6 DEF CompleteFlow
  <2>2. /\ f = next.flow /\ next'.flow = f + 1
        /\ flows'[f] = [user |-> req[r].user, open |-> TRUE,
                        root |-> flows[req[r].flow].root, by |-> req[r].ident]
    BY <1>1, <2>1
  <2>3. QED BY <1>6, <2>2
<1>7. QED BY <1>4, <1>5, <1>6

LEMMA FlowIdsGrow ==
    ASSUME TypeInv, [Next]_vars
    PROVE  next'.flow \in Nat /\ next.flow \in Nat /\ next'.flow >= next.flow
<1>0. TypeOK /\ next'.flow \in Nat /\ next.flow \in Nat
  BY TypeStep DEF TypeInv, TypeOK
<1>1. ASSUME UNCHANGED next PROVE next'.flow = next.flow
  BY <1>1
<1>2. ASSUME NEW flow, NewState(flow) PROVE next'.flow = next.flow
  BY <1>0, <1>2 DEF NewState, TypeOK
<1>3. ASSUME NEW u, NEW root, NEW by, NewFlow(u, root, by) PROVE next'.flow = next.flow + 1
  BY <1>3, NewFlowRow
<1>4. CASE UNCHANGED vars \/ StartSignIn \/ ExpireSomething
  BY <1>0, <1>1, <1>2, <1>4 DEF vars, tables, StartSignIn, ExpireSomething
<1>5. ASSUME NEW r \in Requests, SignIn(r) \/ Resolve(r) \/ EndOwn(r) \/ Stop(r)
      PROVE  next'.flow = next.flow
  <2>1. CASE OpenSession(r)
    BY <1>0, <2>1 DEF OpenSession, TypeOK
  <2>2. CASE UpsertWrite(r)
    <3>1. UNCHANGED next \/ CreateAccount(r)
      BY <2>2 DEF UpsertWrite
    <3>2. CreateAccount(r) => next'.flow = next.flow
      BY <1>0 DEF CreateAccount, TypeOK
    <3>3. QED BY <1>1, <3>1, <3>2
  <2>3. QED
    BY <1>1, <1>5, <2>1, <2>2 DEF SignIn, ReadState, UseState, UpsertRead, RefreshUser,
                                  CheckPolicy, Resolve, EndOwn, Stop, tables
<1>6. ASSUME NEW r \in Requests, Confirm(r) PROVE next'.flow >= next.flow
  <2>1. UNCHANGED next \/ Launch(r) \/ StartConfirm(r) \/ CompleteFlow(r)
    BY <1>6 DEF Confirm, LaunchRead, LoadFlow, MatchIdentity, ConsumeFlow, CompleteRead,
                CompleteConsume, Execute, tables
  <2>2. QED BY <1>0, <1>1, <1>2, <1>3, <2>1 DEF Launch, StartConfirm, CompleteFlow
<1>7. ASSUME NEW r \in Requests, Manage(r) PROVE UNCHANGED next
  BY <1>7 DEF Manage, RoleRead, RoleWrite, EndSessions, SetPolicy, EraseOther, EraseRead,
              EraseWrite, tables
<1>8. QED BY <1>0, <1>1, <1>4, <1>5, <1>6, <1>7 DEF Next

(* The flow a callback confirms belongs to the identity, and so does its root. *)
LEMMA RootFacts ==
    ASSUME AccountInv, FlowInv, NEW r \in Requests, CompleteFlow(r)
    PROVE  LET g == req[r].flow  root == flows[g].root IN
           /\ root \in FlowIds /\ root < next.flow
           /\ flows[root].user = req[r].user /\ ~flows[root].open
           /\ req[r].ident \in Identities /\ identities[req[r].ident] = req[r].user
           /\ req[r].user \in UserIds
<1> DEFINE g == req[r].flow
           root == flows[g].root
<1>1. /\ g \in FlowIds /\ req[r].ident \in Identities
      /\ flows[g].user = req[r].user /\ ~flows[g].open
      /\ req[r].user \in UserIds /\ identities[req[r].ident] = req[r].user
  BY DEF CompleteFlow, AccountInv, TypeInv, Shape, FlowInv, FlowOfFact, IdentInv, IdentFact
<1>2. flows[g].user # None /\ next.flow \in Nat /\ \A f \in FlowIds : f \in Nat
  BY <1>1, Basics DEF FlowIds, AccountInv, TypeInv, TypeOK
<1>3. g < next.flow
  BY <1>1, <1>2 DEF FlowInv, FlowFact
<1>4. CASE flows[g].by = NoIdentity
  BY <1>1, <1>2, <1>3, <1>4 DEF FlowInv, FlowFact
<1>5. CASE flows[g].by # NoIdentity
  BY <1>1, <1>2, <1>3, <1>5 DEF FlowInv, FlowFact, ConfirmedByOwner
<1>6. QED BY <1>1, <1>4, <1>5

LEMMA FlowFactStep == AccountInv /\ FlowInv /\ [Next]_vars => FlowFact' /\ FlowOwners'
<1> SUFFICES ASSUME AccountInv, FlowInv, [Next]_vars, NEW f \in FlowIds
             PROVE  /\ f >= next'.flow => flows'[f].user = None
                    /\ flows'[f].user = None => flows'[f].by = NoIdentity
                    /\ flows'[f].user # None =>
                          /\ flows'[f].by = NoIdentity => flows'[f].root = f
                          /\ flows'[f].by # NoIdentity =>
                                flows'[f].by \in Identities /\ flows'[f].root \in FlowIds
                          /\ flows'[f].user \in Accounts'
  BY DEF FlowFact, FlowOwners
<1>0. /\ TypeInv /\ TypeOK /\ UserInv /\ f \in Nat
      /\ next'.flow \in Nat /\ next.flow \in Nat /\ next'.flow >= next.flow
  BY Basics, FlowIdsGrow DEF AccountInv, TypeInv, FlowIds
<1>1. ASSUME NEW r \in Requests, EraseWrite(r)
      PROVE  /\ flows[f].user = req[r].target => flows'[f] = NoFlowRow
             /\ flows[f].user # req[r].target => flows'[f] = flows[f]
  BY <1>0, <1>1 DEF EraseWrite, TypeOK
<1>2. CASE flows[f].user # None
  <2>1. CASE \E r \in Requests : EraseWrite(r) /\ req[r].target = flows[f].user
    BY <1>1, <2>1 DEF NoFlowRow
  <2>2. CASE Kept(f) /\ ~ \E r \in Requests : EraseWrite(r) /\ req[r].target = flows[f].user
    <3>1. flows[f].user \in Accounts
      BY <1>2 DEF FlowInv, FlowOwners
    <3>2. flows[f].user \in Accounts'
      BY <1>0, <2>2, <3>1, FreshStep DEF UserInv
    <3>3. QED BY <1>0, <1>2, <2>2, <3>2 DEF Kept, FlowInv, FlowFact
  <2>3. QED BY <1>2, <2>1, <2>2, FlowStays
<1>3. CASE flows[f].user = None /\ flows'[f].user = None
  <2>1. CASE Kept(f)
    BY <1>3, <2>1 DEF Kept, FlowInv, FlowFact
  <2>2. CASE flows'[f] = NoFlowRow \/ flows'[f] = flows[f]
    BY <1>3, <2>2 DEF NoFlowRow, FlowInv, FlowFact
  <2>3. ASSUME NEW u, NEW root, NEW by, NewFlow(u, root, by) PROVE flows'[f] = flows[f]
    <3>1. f # next.flow
      <4>1. u \in UserIds
            /\ flows'[next.flow] = [user |-> u, open |-> TRUE, root |-> root, by |-> by]
        BY <1>0, <2>3, NewFlowRow
      <4>2. flows'[next.flow].user = u /\ u # None
        BY <4>1, Basics
      <4>3. QED BY <1>3, <4>2
    <3>2. QED BY <1>0, <2>3, <3>1, NewFlowRow
  <2>4. \/ Kept(f) \/ flows'[f] = NoFlowRow \/ flows'[f] = flows[f]
    BY <1>0, <1>1, <2>3, FlowSteps DEF StartConfirm, CompleteFlow
  <2>5. QED BY <1>3, <2>1, <2>2, <2>4
<1>4. CASE flows[f].user = None /\ flows'[f].user # None
  <2>1. f = next.flow /\ next'.flow = f + 1
    BY <1>4, FlowAppears
  <2>2. ASSUME NEW r \in Requests, StartConfirm(r),
               flows'[f] = [user |-> req[r].user, open |-> TRUE, root |-> f, by |-> NoIdentity]
        PROVE  /\ flows'[f].by = NoIdentity /\ flows'[f].root = f
               /\ flows'[f].user \in Accounts'
    BY <2>2 DEF StartConfirm, NewFlow, Accounts
  <2>3. ASSUME NEW r \in Requests, CompleteFlow(r),
               flows'[f] = [user |-> req[r].user, open |-> TRUE,
                            root |-> flows[req[r].flow].root, by |-> req[r].ident]
        PROVE  /\ flows'[f].by \in Identities /\ flows'[f].root \in FlowIds
               /\ flows'[f].user \in Accounts'
    <3>1. req[r].user \in Accounts /\ users' = users
      BY <2>3 DEF CompleteFlow, NewFlow
    <3>2. req[r].ident \in Identities /\ flows[req[r].flow].root \in FlowIds
      BY <2>3, RootFacts
    <3>3. QED BY <2>3, <3>1, <3>2 DEF Accounts
  <2>4. /\ flows'[f].user \in Accounts'
        /\ \/ flows'[f].by = NoIdentity /\ flows'[f].root = f
           \/ flows'[f].by \in Identities /\ flows'[f].root \in FlowIds
    BY <1>4, <2>2, <2>3, FlowAppears
  <2>5. QED BY <1>0, <1>4, <2>1, <2>4, Basics
<1>5. QED BY <1>2, <1>3, <1>4

(* Which steps carry an action out. *)
LEMMA ExecutedSteps ==
    ASSUME [Next]_vars
    PROVE  \/ executed' = executed
           \/ \E r \in Requests :
                 /\ Execute(r) /\ UNCHANGED flows
                 /\ executed' = executed \cup {[flow |-> req[r].flow, user |-> req[r].user]}
<1>1. CASE UNCHANGED vars \/ StartSignIn \/ ExpireSomething
  BY <1>1 DEF vars, StartSignIn, ExpireSomething, History
<1>2. ASSUME NEW r \in Requests, SignIn(r) \/ Resolve(r) \/ EndOwn(r) \/ Stop(r)
      PROVE  executed' = executed
  BY <1>2 DEF SignIn, ReadState, UseState, UpsertRead, UpsertWrite, RefreshUser,
              CheckPolicy, OpenSession, Resolve, EndOwn, Stop, History
<1>3. ASSUME NEW r \in Requests, Confirm(r), ~Execute(r)
      PROVE  executed' = executed
  BY <1>3 DEF Confirm, StartConfirm, LaunchRead, Launch, LoadFlow, MatchIdentity,
              ConsumeFlow, CompleteFlow, CompleteRead, CompleteConsume, History
<1>4. ASSUME NEW r \in Requests, Manage(r)
      PROVE  executed' = executed
  <2>1. UNCHANGED History \/ executed' = executed
    BY <1>4 DEF Manage, RoleRead, RoleWrite, EndSessions, SetPolicy, EraseOther, EraseRead,
                EraseWrite
  <2>2. QED BY <2>1 DEF History
<1>5. ASSUME NEW r \in Requests, Execute(r)
      PROVE  /\ UNCHANGED flows
             /\ executed' = executed \cup {[flow |-> req[r].flow, user |-> req[r].user]}
  BY <1>5 DEF Execute, tables
<1>6. QED BY <1>1, <1>2, <1>3, <1>4, <1>5 DEF Next

LEMMA ConfirmedStep ==
    AccountInv /\ FlowInv /\ [Next]_vars => ConfirmedByOwner'
<1> SUFFICES ASSUME AccountInv, FlowInv, [Next]_vars PROVE ConfirmedByOwner'
  OBVIOUS
<1>0. TypeInv /\ TypeOK /\ None \notin UserIds
  BY Basics DEF AccountInv, TypeInv
<1>1. ASSUME NEW f \in FlowIds, flows'[f].by # NoIdentity
      PROVE  /\ identities'[flows'[f].by] = flows'[f].user
             /\ flows'[f].root < f
             /\ flows'[flows'[f].root].user = flows'[f].user
             /\ ~flows'[flows'[f].root].open
  <2> DEFINE root == flows[f].root
  <2>1. CASE flows[f].by # NoIdentity
    <3>1. /\ Kept(f) /\ flows[f].user # None /\ root \in FlowIds
          /\ flows[f].by \in Identities /\ identities[flows[f].by] = flows[f].user
      BY <2>1, ConfirmedFlowStays
    <3>2. root < f /\ flows[root].user = flows[f].user /\ ~flows[root].open
      BY <2>1 DEF FlowInv, ConfirmedByOwner
    <3>3. Kept(root)
      BY <3>1, <3>2, LinkedFlowStays
    <3>4. identities'[flows[f].by] = identities[flows[f].by]
      BY <1>0, <3>1, LinksStay
    <3>5. QED BY <3>1, <3>2, <3>3, <3>4 DEF Kept
  <2>2. CASE flows[f].by = NoIdentity
    <3>1. flows'[f].user # None
      BY <1>1, FlowFactStep DEF FlowFact
    <3>2. flows[f].user = None
      <4>1. ASSUME NEW r \in Requests, EraseWrite(r), req[r].target = flows[f].user PROVE FALSE
        <5>1. flows'[f] = NoFlowRow
          BY <1>0, <4>1 DEF EraseWrite, TypeOK
        <5>2. QED BY <3>1, <5>1 DEF NoFlowRow
      <4>2. QED BY <1>1, <2>2, <4>1, FlowStays DEF Kept
    <3>3. f = next.flow
      BY <3>1, <3>2, FlowAppears
    <3>4. PICK r \in Requests :
             /\ CompleteFlow(r)
             /\ flows'[f] = [user |-> req[r].user, open |-> TRUE,
                             root |-> flows[req[r].flow].root, by |-> req[r].ident]
      <4>1. PICK r \in Requests :
                 \/ StartConfirm(r) /\ flows'[f] = [user |-> req[r].user, open |-> TRUE,
                                                  root |-> f, by |-> NoIdentity]
                 \/ CompleteFlow(r)
                      /\ flows'[f] = [user |-> req[r].user, open |-> TRUE,
                                      root |-> flows[req[r].flow].root, by |-> req[r].ident]
        BY <3>1, <3>2, FlowAppears
      <4>2. flows'[f] # [user |-> req[r].user, open |-> TRUE, root |-> f, by |-> NoIdentity]
        BY <1>1
      <4>3. QED BY <4>1, <4>2
    <3> DEFINE g == flows[req[r].flow].root
    <3>5. /\ g \in FlowIds /\ g < next.flow
          /\ flows[g].user = req[r].user /\ ~flows[g].open
          /\ req[r].ident \in Identities /\ identities[req[r].ident] = req[r].user
          /\ req[r].user \in UserIds
      BY <3>4, RootFacts
    <3>6. Kept(g)
      BY <1>0, <3>5, LinkedFlowStays
    <3>7. identities' = identities
      BY <3>4 DEF CompleteFlow
    <3>8. flows'[f].by = req[r].ident /\ flows'[f].user = req[r].user /\ flows'[f].root = g
      BY <3>4
    <3>9. QED BY <3>3, <3>5, <3>6, <3>7, <3>8 DEF Kept
  <2>3. QED BY <2>1, <2>2
<1>2. ASSUME NEW e \in executed'
      PROVE  /\ flows'[e.flow].user = e.user
             /\ flows'[e.flow].by # NoIdentity
             /\ ~flows'[e.flow].open
  <2>1. CASE e \in executed
    <3>1. /\ e.flow \in FlowIds /\ flows[e.flow].user = e.user
          /\ flows[e.flow].by # NoIdentity /\ ~flows[e.flow].open
      BY <1>0, <2>1 DEF TypeOK, FlowInv, ConfirmedByOwner
    <3>2. Kept(e.flow)
      BY <3>1, ConfirmedFlowStays
    <3>3. QED BY <3>1, <3>2 DEF Kept
  <2>2. ASSUME NEW r \in Requests, Execute(r), UNCHANGED flows,
               e = [flow |-> req[r].flow, user |-> req[r].user]
        PROVE  /\ flows'[e.flow].user = e.user
               /\ flows'[e.flow].by # NoIdentity
               /\ ~flows'[e.flow].open
    BY <2>2 DEF Execute, FlowInv, FlowOfFact
  <2>3. QED BY <2>1, <2>2, ExecutedSteps
<1>3. QED BY <1>1, <1>2 DEF ConfirmedByOwner

LEMMA FlowOfStep ==
    AccountInv /\ FlowInv /\ [Next]_vars => \A r \in Requests : FlowOfFact(req[r])'
<1> SUFFICES ASSUME AccountInv, FlowInv, [Next]_vars, NEW p \in Requests
             PROVE  FlowOfFact(req[p])'
  OBVIOUS
<1>0. /\ TypeInv /\ TypeOK /\ UserInv /\ IdentInv
      /\ req[p] \in Request /\ req \in [Requests -> Request]
      /\ FlowOfFact(req[p]) /\ Shape(req[p]) /\ IdentFact(req[p]) /\ None \notin UserIds
  BY Basics DEF AccountInv, TypeInv, TypeOK, IdentInv, FlowInv
<1>1. next'.user >= next.user /\ next.user \in Nat /\ next'.user \in Nat
  BY <1>0, FreshStep, TypeStep DEF UserInv, TypeInv, TypeOK
<1>2. CASE \E late : req'[p] = [req[p] EXCEPT !.late = late]
  <2>1. /\ req'[p].pc = req[p].pc /\ req'[p].user = req[p].user /\ req'[p].flow = req[p].flow
    BY <1>0, <1>2, Marked
  <2>2. CASE req[p].pc = "match"
    <3>1. /\ req[p].user \in UserIds /\ req[p].user < next.user /\ req[p].flow \in FlowIds
          /\ req[p].user \in Accounts => flows[req[p].flow].user = req[p].user
      BY <1>0, <2>2 DEF IdentInv, OpenFlows, FlowOfFact, Shape
    <3>2. req[p].user < next'.user
      BY <1>1, <3>1 DEF UserIds
    <3>3. ASSUME req[p].user \in Accounts' PROVE flows'[req[p].flow].user = req[p].user
      <4>1. flows[req[p].flow].user = req[p].user
        BY <1>0, <3>1, <3>3, MailsStay
      <4>2. ASSUME NEW r \in Requests, EraseWrite(r), req[r].target = req[p].user PROVE FALSE
        <5>1. users'[req[p].user] = NoUserRow
          BY <1>0, <3>1, <4>2 DEF EraseWrite, TypeOK
        <5>2. QED BY <3>3, <5>1 DEF Accounts, NoUserRow
      <4>3. QED BY <1>0, <3>1, <4>1, <4>2, FlowStays DEF Kept
    <3>4. QED BY <2>1, <2>2, <3>2, <3>3 DEF FlowOfFact
  <2>3. CASE req[p].pc \in {"consumeFlow", "complete"}
    <3>1. /\ req[p].user \in UserIds /\ req[p].flow \in FlowIds
          /\ flows[req[p].flow].user = req[p].user
          /\ req[p].pc = "complete" => ~flows[req[p].flow].open
          /\ req[p].ident \in Identities /\ identities[req[p].ident] = req[p].user
      BY <1>0, <2>3 DEF FlowOfFact, Shape, IdentFact
    <3>2. Kept(req[p].flow)
      BY <1>0, <3>1, LinkedFlowStays
    <3>3. QED BY <2>1, <2>3, <3>1, <3>2 DEF FlowOfFact, Kept
  <2>4. CASE req[p].pc \in {"consumeDone", "execute"}
    <3>1. /\ req[p].user \in UserIds /\ req[p].flow \in FlowIds
          /\ flows[req[p].flow].user = req[p].user /\ flows[req[p].flow].by # NoIdentity
          /\ req[p].pc = "execute" => ~flows[req[p].flow].open
      BY <1>0, <2>4 DEF FlowOfFact, Shape
    <3>2. Kept(req[p].flow)
      BY <3>1, ConfirmedFlowStays
    <3>3. QED BY <2>1, <2>4, <3>1, <3>2 DEF FlowOfFact, Kept
  <2>5. QED BY <2>1, <2>2, <2>3, <2>4 DEF FlowOfFact
<1>3. ASSUME Step(p) PROVE FlowOfFact(req[p])'
  <2>1. CASE LoadFlow(p)
    <3>1. req[p].flow \in FlowIds /\ flows[req[p].flow].user \in Accounts
      BY <1>0, <2>1 DEF LoadFlow, Shape, IdentInv, OpenFlows, FlowInv, FlowOwners
    <3>2. flows[req[p].flow].user < next.user
      BY <1>1, <3>1 DEF UserInv, FreshUsers, Accounts, UserIds, AccountInv
    <3>3. /\ req'[p].pc = "match" /\ req'[p].user = flows[req[p].flow].user
          /\ req'[p].flow = req[p].flow
      BY <1>0, <2>1 DEF LoadFlow, Request
    <3>4. flows' = flows /\ next' = next
      BY <2>1 DEF LoadFlow, tables
    <3>5. QED BY <3>2, <3>3, <3>4 DEF FlowOfFact
  <2>2. CASE MatchIdentity(p)
    <3>1. req[p].user \in UserIds /\ req[p].ident \in Identities
          /\ identities[req[p].ident] = req[p].user
      BY <1>0, <2>2 DEF MatchIdentity, IdentInv, OpenFlows, Shape
    <3>2. req[p].user \in Accounts
      BY <1>0, <3>1 DEF IdentInv, IdentityMatchesAccount
    <3>3. flows[req[p].flow].user = req[p].user
      BY <1>0, <2>2, <3>2 DEF MatchIdentity, FlowOfFact
    <3>4. QED BY <1>0, <2>2, <3>1, <3>3 DEF MatchIdentity, Go, Request, tables, FlowOfFact
  <2>3. CASE ConsumeFlow(p) \/ CompleteConsume(p)
    <3>1. /\ req[p].user \in UserIds /\ req[p].flow \in FlowIds
          /\ flows[req[p].flow].user = req[p].user
          /\ CompleteConsume(p) => flows[req[p].flow].by # NoIdentity
      BY <1>0, <2>3 DEF ConsumeFlow, CompleteConsume, FlowOfFact, Shape
    <3>2. /\ flows'[req[p].flow].user = flows[req[p].flow].user
          /\ flows'[req[p].flow].by = flows[req[p].flow].by
          /\ ~flows'[req[p].flow].open
      BY <1>0, <2>3, <3>1 DEF ConsumeFlow, CompleteConsume, Consume, TypeOK, FlowRow
    <3>3. /\ req'[p].user = req[p].user /\ req'[p].flow = req[p].flow
          /\ req'[p].pc = "complete" \/ (req'[p].pc = "execute" /\ CompleteConsume(p))
      BY <1>0, <2>3 DEF ConsumeFlow, CompleteConsume, Go, Request
    <3>4. QED BY <3>1, <3>2, <3>3 DEF FlowOfFact
  <2>4. CASE CompleteRead(p)
    <3>1. /\ req'[p].pc = "consumeDone" /\ req'[p].user = req[p].user /\ flows' = flows
          /\ flows[req'[p].flow].user = req[p].user /\ flows[req'[p].flow].by # NoIdentity
      BY <1>0, <2>4 DEF CompleteRead, Request, tables
    <3>2. req[p].user \in UserIds
      BY <1>0, <2>4 DEF CompleteRead, Shape
    <3>3. QED BY <3>1, <3>2 DEF FlowOfFact
  <2>5. \/ LoadFlow(p) \/ MatchIdentity(p) \/ ConsumeFlow(p) \/ CompleteConsume(p)
        \/ CompleteRead(p)
        \/ req'[p].pc \notin {"match", "consumeFlow", "complete", "consumeDone", "execute"}
    BY <1>0, <1>3, Basics, Arrivals DEF Step, SignIn, Confirm, Manage
  <2>6. QED BY <2>1, <2>2, <2>3, <2>4, <2>5 DEF FlowOfFact
<1>4. QED
  <2>1. CASE UNCHANGED req
    <3>1. req[p] = [req[p] EXCEPT !.late = req[p].late]
      BY <1>0 DEF Request
    <3>2. QED BY <1>2, <2>1, <3>1
  <2>2. ASSUME NEW r \in Requests, Step(r) PROVE FlowOfFact(req[p])'
    BY <1>0, <1>2, <1>3, <2>2, Others
  <2>3. QED BY <2>1, <2>2 DEF Next, Step, vars, StartSignIn, ExpireSomething

(* Only the owner of a sensitive action can confirm it, and only confirmed *)
(* actions are carried out.                                                *)
THEOREM ActionsAreConfirmed == Spec => []ConfirmedByOwner
<1> DEFINE Inv == AccountInv /\ FlowInv
<1>1. Init => Inv
  BY InitAccounts, InitFlow
<1>2. Inv /\ [Next]_vars => Inv'
  BY AccountStep, FlowFactStep, ConfirmedStep, FlowOfStep DEF FlowInv
<1>3. Inv => ConfirmedByOwner
  BY DEF FlowInv
<1>4. QED BY <1>1, <1>2, <1>3, PTL DEF Spec
=============================================================================
