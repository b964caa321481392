------------------------------ MODULE Accounts ------------------------------
(***************************************************************************)
(* Accounts of the training hub.  A browser signs in through an external   *)
(* provider: the hub stores an authorization state, the provider's answer  *)
(* comes back to the callback, which finds, links or creates the account   *)
(* and opens a session.  A sensitive action is held in a confirmation      *)
(* flow; its user goes to the provider once more, and the callback turns   *)
(* the flow into a confirmed one, from which the action is carried out.    *)
(* Administrators change roles, delete accounts and disable the login.     *)
(*                                                                         *)
(* One action is one transaction of a request, or the half of one between  *)
(* its snapshot and its writes.  The tables are those of MariaDB: unique   *)
(* and foreign keys hold when a transaction writes, and a snapshot may be  *)
(* stale by then.                                                          *)
(***************************************************************************)
EXTENDS Naturals, FiniteSets, Sequences

CONSTANTS
    Requests,     \* requests the server may have in flight
    Identities,   \* provider accounts that the hub's allow-list admits
    NoIdentity,   \* no provider account
    Mails,        \* normalised e-mail addresses
    NoMail,       \* no verified address; also: no such account
    MailsOf,      \* the addresses a provider account may have over time
    AdminMails,   \* addresses configured as administrators
    Seeds,        \* what a hub may start from: users and the ids that are next
    MaxUser, MaxSession, MaxFlow, MaxState   \* bounds: rows ever inserted

UserIds    == 1..MaxUser
SessionIds == 1..MaxSession
FlowIds    == 1..MaxFlow
StateIds   == 1..MaxState
None       == 0

ASSUME AccountConstants ==
    /\ NoIdentity \notin Identities
    /\ NoMail \notin Mails
    /\ MailsOf \in [Identities -> SUBSET (Mails \cup {NoMail})]
    /\ AdminMails \subseteq Mails
    /\ MaxUser \in Nat /\ MaxSession \in Nat /\ MaxFlow \in Nat /\ MaxState \in Nat

\* A users table that ever had rows has an administrator; addresses are unique.
ASSUME SeedTables ==
    \A seed \in Seeds :
        /\ seed.users \in Seq([mail : Mails, admin : BOOLEAN])
        /\ seed.session \in 1..MaxSession + 1 /\ seed.flow \in 1..MaxFlow + 1
        /\ seed.user \in Len(seed.users) + 1..MaxUser + 1
        /\ \A m, n \in DOMAIN seed.users : seed.users[m].mail = seed.users[n].mail => m = n
        /\ seed.user > 1 => \E m \in DOMAIN seed.users : seed.users[m].admin

VARIABLES
    users,          \* users: address and role of each id
    identities,     \* external_identities: the account of each identity
    emails,         \* external_identities: the address it reported last
    linkedWith,     \* history: the address it was linked for
    sessions,       \* sessions: user, not ended; history: identity and role at opening
    flows,          \* auth_flow_tokens: user, usable; history: first flow, identity
    states,         \* external_auth_states: the flow its path names, usable
    loginDisabled,  \* access_policies: disable_login_non_admin
    next,           \* AUTO_INCREMENT of the tables
    req,            \* the requests in flight
    executed,       \* history: the confirmed flows carried out, and for whom
    raced,          \* history: a role was taken on a count that had changed
    interrupted     \* history: users whose role changed without ending sessions

links  == <<identities, emails, linkedWith>>
tables == <<users, links, sessions, flows, states, loginDisabled, next>>
vars   == <<tables, req, executed, raced, interrupted>>

UserRow    == [mail : Mails \cup {NoMail}, admin : BOOLEAN]
SessionRow == [user : UserIds \cup {None}, live : BOOLEAN,
               ident : Identities \cup {NoIdentity}, role : BOOLEAN]
FlowRow    == [user : UserIds \cup {None}, open : BOOLEAN,
               root : FlowIds \cup {None}, by : Identities \cup {NoIdentity}]
StateRow   == [flow : FlowIds \cup {None}, open : BOOLEAN]

NoUserRow    == [mail |-> NoMail, admin |-> FALSE]
NoSessionRow == [user |-> None, live |-> FALSE, ident |-> NoIdentity, role |-> FALSE]
NoFlowRow    == [user |-> None, open |-> FALSE, root |-> None, by |-> NoIdentity]
NoStateRow   == [flow |-> None, open |-> FALSE]

Accounts == {u \in UserIds : users[u].mail # NoMail}
Admins   == {u \in Accounts : users[u].admin}
SessionsOf(u) == {s \in SessionIds : sessions[s].user = u}

\* A request: where it is, whom it acts for, and what it has read.
Steps == {"idle",
          "useState", "upsert", "upsertWrite", "refresh", "policy", "openSession",
          "loadFlow", "match", "consumeFlow", "complete",
          "act", "launch", "consumeDone", "execute",
          "role", "endSessions", "erase", "eraseWrite"}
Request ==
    [pc : Steps, user : UserIds \cup {None}, sess : SessionIds \cup {None},
     admin : BOOLEAN, late : BOOLEAN, state : StateIds \cup {None},
     flow : FlowIds \cup {None}, ident : Identities \cup {NoIdentity},
     mail : Mails \cup {NoMail}, target : UserIds \cup {None}, grant : BOOLEAN,
     known : UserIds \cup {None}, holder : UserIds \cup {None},
     admins : SUBSET UserIds, owned : SUBSET SessionIds]
Idle ==
    [pc |-> "idle", user |-> None, sess |-> None, admin |-> FALSE, late |-> FALSE,
     state |-> None, flow |-> None, ident |-> NoIdentity, mail |-> NoMail, target |-> None,
     grant |-> FALSE, known |-> None, holder |-> None, admins |-> {}, owned |-> {}]

Init ==
    /\ \E seed \in Seeds :
         /\ users = [u \in UserIds |-> IF u <= Len(seed.users) THEN seed.users[u]
                                       ELSE NoUserRow]
         /\ next = [user |-> seed.user, session |-> seed.session,
                    flow |-> seed.flow, state |-> 1]
    /\ identities = [i \in Identities |-> None]
    /\ emails = [i \in Identities |-> NoMail] /\ linkedWith = [i \in Identities |-> NoMail]
    /\ sessions = [s \in SessionIds |-> NoSessionRow]
    /\ flows = [f \in FlowIds |-> NoFlowRow]
    /\ states = [s \in StateIds |-> NoStateRow]
    /\ loginDisabled = FALSE
    /\ req = [r \in Requests |-> Idle]
    /\ executed = {} /\ raced = FALSE /\ interrupted = {}

Go(r, step)  == req' = [req EXCEPT ![r].pc = step]
Done(r)      == req' = [req EXCEPT ![r] = Idle]
History      == <<executed, raced, interrupted>>

-----------------------------------------------------------------------------
(* Signing in.                                                             *)

\* Stores an authorization state and redirects to the provider.  The path to
\* return to is the browser's choice, and may be that of a confirmation.
NewState(flow) ==
    /\ next.state <= MaxState
    /\ states' = [states EXCEPT ![next.state] = [flow |-> flow, open |-> TRUE]]
    /\ next' = [next EXCEPT !.state = @ + 1]

StartSignIn ==
    /\ \E flow \in {None} \cup {f \in FlowIds : f < next.flow} : NewState(flow)
    /\ UNCHANGED <<users, links, sessions, flows, loginDisabled, req, History>>

\* The provider sends a browser back: the state is read, and used up by a
\* second statement whose row count nobody looks at.
ReadState(r) ==
    /\ req[r].pc = "idle"
    /\ \E s \in StateIds :
         /\ states[s].open
         /\ req' = [req EXCEPT ![r] = [Idle EXCEPT !.pc = "useState", !.state = s]]
    /\ UNCHANGED <<tables, History>>

\* Then the code is exchanged for a profile, with the address the provider has
\* verified by now, if any; a refusal is Stop.  A confirmation ignores it.
UseState(r) ==
    LET flow == states[req[r].state].flow IN
    /\ req[r].pc = "useState"
    /\ states' = [states EXCEPT ![req[r].state].open = FALSE]
    /\ \E i \in Identities :
         \/ /\ flow = None
            /\ \E mail \in MailsOf[i] :
                 req' = [req EXCEPT ![r] = [Idle EXCEPT !.pc = "upsert", !.ident = i, !.mail = mail]]
         \/ /\ flow # None
            /\ req' = [req EXCEPT ![r] = [Idle EXCEPT !.pc = "loadFlow", !.ident = i, !.flow = flow]]
    /\ UNCHANGED <<users, links, sessions, flows, loginDisabled, next, History>>

\* The account that has the profile's address; None if there is no such account.
Holder(mail) ==
    IF \E u \in Accounts : users[u].mail = mail
    THEN CHOOSE u \in Accounts : users[u].mail = mail
    ELSE None

\* A first sign-in needs a verified address.
UpsertRead(r) ==
    LET i == req[r].ident IN
    /\ req[r].pc = "upsert"
    /\ identities[i] # None \/ req[r].mail # NoMail
    /\ req' = [req EXCEPT ![r].pc = "upsertWrite", ![r].known = identities[i],
                          ![r].holder = Holder(req[r].mail), ![r].admins = Admins]
    /\ UNCHANGED <<tables, History>>

\* Links the identity; the key on (provider, issuer, subject) is unique.
Link(r, u) ==
    LET i == req[r].ident IN
    /\ identities[i] = None
    /\ identities' = [identities EXCEPT ![i] = u]
    /\ emails' = [emails EXCEPT ![i] = req[r].mail]
    /\ linkedWith' = [linkedWith EXCEPT ![i] = req[r].mail]

\* The address is unique.  The account is an administrator's if it is configured
\* so, or if the snapshot showed no administrator.
CreateAccount(r) ==
    LET mail == req[r].mail
        admin == mail \in AdminMails \/ Cardinality(req[r].admins) = 0 IN
    /\ next.user <= MaxUser
    /\ \A u \in Accounts : users[u].mail # mail
    /\ users' = [users EXCEPT ![next.user] = [mail |-> mail, admin |-> admin]]
    /\ next' = [next EXCEPT !.user = @ + 1]
    /\ Link(r, next.user)

\* A known identity's row takes the address over; the account keeps its own.
UpsertWrite(r) ==
    LET q == req[r]
        proceed(u) == req' = [req EXCEPT ![r] = [Idle EXCEPT !.pc = "refresh",
                                                   !.user = u, !.ident = q.ident]] IN
    /\ q.pc = "upsertWrite"
    /\ \/ /\ q.known # None
          /\ emails' = [emails EXCEPT ![q.ident] = q.mail]
          /\ proceed(q.known)
          /\ UNCHANGED <<users, identities, linkedWith, next>>
       \/ /\ q.known = None /\ q.holder # None
          /\ q.holder \in Accounts
          /\ Link(r, q.holder)
          /\ proceed(q.holder)
          /\ UNCHANGED <<users, next>>
       \/ /\ q.known = None /\ q.holder = None
          /\ CreateAccount(r)
          /\ proceed(next.user)
    /\ UNCHANGED <<sessions, flows, states, loginDisabled, History>>

RefreshUser(r) ==
    /\ req[r].pc = "refresh"
    /\ req[r].user \in Accounts
    /\ req' = [req EXCEPT ![r].pc = "policy", ![r].admin = users[req[r].user].admin]
    /\ UNCHANGED <<tables, History>>

CheckPolicy(r) ==
    /\ req[r].pc = "policy"
    /\ loginDisabled => req[r].admin
    /\ Go(r, "openSession")
    /\ UNCHANGED <<tables, History>>

OpenSession(r) ==
    LET u == req[r].user IN
    /\ req[r].pc = "openSession"
    /\ u \in Accounts
    /\ next.session <= MaxSession
    /\ sessions' = [sessions EXCEPT ![next.session] =
                      [user |-> u, live |-> TRUE, ident |-> req[r].ident,
                       role |-> users[u].admin]]
    /\ next' = [next EXCEPT !.session = @ + 1]
    /\ Done(r)
    /\ UNCHANGED <<users, links, flows, states, loginDisabled, History>>

-----------------------------------------------------------------------------
(* Confirming a sensitive action.                                          *)

NewFlow(u, root, by) ==
    /\ next.flow <= MaxFlow
    /\ u \in Accounts
    /\ flows' = [flows EXCEPT ![next.flow] =
                   [user |-> u, open |-> TRUE, root |-> root, by |-> by]]
    /\ next' = [next EXCEPT !.flow = @ + 1]

Resolve_RoleOfSession(r) ==
    /\ req[r].pc = "idle"
    /\ \E s \in SessionIds :
         /\ sessions[s].live /\ sessions[s].user \in Accounts
         /\ req' = [req EXCEPT ![r] =
                      [Idle EXCEPT !.pc = "act", !.sess = s, !.user = sessions[s].user,
                                   !.admin = sessions[s].role]]
    /\ UNCHANGED <<tables, History>>

\* A request with a session cookie; the role is read with the session.
Resolve(r) ==
    /\ req[r].pc = "idle"
    /\ \E s \in SessionIds :
         /\ sessions[s].live /\ sessions[s].user \in Accounts
         /\ req' = [req EXCEPT ![r] =
                      [Idle EXCEPT !.pc = "act", !.sess = s, !.user = sessions[s].user,
                                   !.admin = users[sessions[s].user].admin]]
    /\ UNCHANGED <<tables, History>>

\* The action is put into a flow of its own.
StartConfirm(r) ==
    /\ req[r].pc = "act"
    /\ NewFlow(req[r].user, next.flow, NoIdentity)
    /\ Done(r)
    /\ UNCHANGED <<users, links, sessions, states, loginDisabled, History>>

\* The flow in the cookie is usable and the user's own.
LaunchRead(r) ==
    /\ req[r].pc = "act"
    /\ \E f \in FlowIds :
         /\ flows[f].open /\ flows[f].user = req[r].user
         /\ req' = [req EXCEPT ![r].pc = "launch", ![r].flow = f]
    /\ UNCHANGED <<tables, History>>

\* The user has linked a provider, and is sent there with the flow in the path.
Launch(r) ==
    /\ req[r].pc = "launch"
    /\ \E i \in Identities : identities[i] = req[r].user
    /\ NewState(req[r].flow)
    /\ Done(r)
    /\ UNCHANGED <<users, links, sessions, flows, loginDisabled, History>>

\* Back in the callback: load the flow, compare its user with the identity's,
\* consume the flow, store the confirmed one, open a session.
LoadFlow(r) ==
    /\ req[r].pc = "loadFlow"
    /\ flows[req[r].flow].open
    /\ req' = [req EXCEPT ![r].pc = "match", ![r].user = flows[req[r].flow].user]
    /\ UNCHANGED <<tables, History>>

MatchIdentity_AnyAccount(r) ==
    /\ req[r].pc = "match"
    /\ identities[req[r].ident] # None
    /\ Go(r, "consumeFlow")
    /\ UNCHANGED <<tables, History>>

MatchIdentity(r) ==
    /\ req[r].pc = "match"
    /\ identities[req[r].ident] = req[r].user
    /\ Go(r, "consumeFlow")
    /\ UNCHANGED <<tables, History>>

Consume(f) == flows' = [flows EXCEPT ![f].open = FALSE]

ConsumeFlow(r) ==
    /\ req[r].pc = "consumeFlow"
    /\ Consume(req[r].flow)
    /\ Go(r, "complete")
    /\ UNCHANGED <<users, links, sessions, states, loginDisabled, next, History>>

CompleteFlow(r) ==
    /\ req[r].pc = "complete"
    /\ NewFlow(req[r].user, flows[req[r].flow].root, req[r].ident)
    /\ Go(r, "openSession")
    /\ UNCHANGED <<users, links, sessions, states, loginDisabled, History>>

CompleteRead_Unconfirmed(r) ==
    /\ req[r].pc = "act"
    /\ \E f \in FlowIds :
         /\ flows[f].open /\ flows[f].user = req[r].user
         /\ req' = [req EXCEPT ![r].pc = "consumeDone", ![r].flow = f]
    /\ UNCHANGED <<tables, History>>

\* The page the browser is sent to then: the flow is usable, the user's own and
\* confirmed; it is consumed, and the action it holds is carried out.
CompleteRead(r) ==
    /\ req[r].pc = "act"
    /\ \E f \in FlowIds :
         /\ flows[f].open /\ flows[f].user = req[r].user
         /\ flows[f].by # NoIdentity
         /\ req' = [req EXCEPT ![r].pc = "consumeDone", ![r].flow = f]
    /\ UNCHANGED <<tables, History>>

CompleteConsume(r) ==
    /\ req[r].pc = "consumeDone"
    /\ Consume(req[r].flow)
    /\ Go(r, "execute")
    /\ UNCHANGED <<users, links, sessions, states, loginDisabled, next, History>>

\* The action may be the deletion of the account, or one of other modules.
Execute(r) ==
    /\ req[r].pc = "execute"
    /\ executed' = executed \cup {[flow |-> req[r].flow, user |-> req[r].user]}
    /\ \/ Done(r)
       \/ req' = [req EXCEPT ![r].pc = "erase", ![r].target = req[r].user]
    /\ UNCHANGED <<tables, raced, interrupted>>

-----------------------------------------------------------------------------
(* Ending sessions.                                                        *)

End(S) == sessions' = [s \in SessionIds |->
                         IF s \in S THEN [sessions[s] EXCEPT !.live = FALSE] ELSE sessions[s]]

\* Logging out, ending one other session, ending all others.
EndOwn(r) ==
    LET others == SessionsOf(req[r].user) \ {req[r].sess} IN
    /\ req[r].pc = "act"
    /\ \E S \in {{req[r].sess}, others} \cup {{s} : s \in others} : End(S)
    /\ Done(r)
    /\ UNCHANGED <<users, links, flows, states, loginDisabled, next, History>>

\* A session expires, or a request brings it from another address or browser;
\* a flow or a state expires, or is loaded from one.
Expire ==
    \/ /\ \E s \in SessionIds : sessions[s].live /\ End({s})
       /\ UNCHANGED <<flows, states>>
    \/ /\ \E f \in FlowIds : flows[f].open /\ Consume(f)
       /\ UNCHANGED <<sessions, states>>
    \/ /\ \E s \in StateIds :
            states[s].open /\ states' = [states EXCEPT ![s].open = FALSE]
       /\ UNCHANGED <<sessions, flows>>

ExpireSomething ==
    /\ Expire
    /\ UNCHANGED <<users, links, loginDisabled, next, req, History>>

-----------------------------------------------------------------------------
(* Administration.                                                         *)

\* Taking a role from `lost` changes what requests of theirs in flight rely on.
Overtake(r, lost, rec) ==
    req' = [q \in Requests |->
              IF q = r THEN rec
              ELSE [req[q] EXCEPT !.late = @ \/ (req[q].user = lost /\ req[q].admin)]]

RoleRead_OffByOne(r) ==
    /\ req[r].pc = "act" /\ req[r].admin
    /\ \E t \in Accounts \ {req[r].user}, grant \in BOOLEAN :
         /\ users[t].admin # grant
         /\ grant \/ Cardinality(Admins) >= 1
         /\ req' = [req EXCEPT ![r].pc = "role", ![r].target = t, ![r].grant = grant,
                               ![r].admins = Admins]
    /\ UNCHANGED <<tables, History>>

\* Nobody changes their own role, and the last administrator keeps theirs.
RoleRead(r) ==
    /\ req[r].pc = "act" /\ req[r].admin
    /\ \E t \in Accounts \ {req[r].user}, grant \in BOOLEAN :
         /\ users[t].admin # grant
         /\ grant \/ Cardinality(Admins) > 1
         /\ req' = [req EXCEPT ![r].pc = "role", ![r].target = t, ![r].grant = grant,
                               ![r].admins = Admins]
    /\ UNCHANGED <<tables, History>>

\* An UPDATE by id: it changes no row when the account is gone.
RoleWrite(r) ==
    LET q == req[r]  rec == [q EXCEPT !.pc = "endSessions", !.admins = {}] IN
    /\ q.pc = "role"
    /\ users' = IF q.target \in Accounts
                THEN [users EXCEPT ![q.target].admin = q.grant] ELSE users
    /\ raced' = (raced \/ (~q.grant /\ q.admins # Admins))
    /\ IF q.grant THEN req' = [req EXCEPT ![r] = rec] ELSE Overtake(r, q.target, rec)
    /\ UNCHANGED <<links, sessions, flows, states, loginDisabled, next,
                   executed, interrupted>>

EndSessions_OfActor(r) ==
    /\ req[r].pc = "endSessions"
    /\ End(SessionsOf(req[r].user))
    /\ Done(r)
    /\ UNCHANGED <<users, links, flows, states, loginDisabled, next, History>>

EndSessions(r) ==
    /\ req[r].pc = "endSessions"
    /\ End(SessionsOf(req[r].target))
    /\ Done(r)
    /\ UNCHANGED <<users, links, flows, states, loginDisabled, next, History>>

SetPolicy(r) ==
    /\ req[r].pc = "act" /\ req[r].admin
    /\ loginDisabled' \in BOOLEAN
    /\ Done(r)
    /\ UNCHANGED <<users, links, sessions, flows, states, next, History>>

\* An administrator deletes somebody else's account.
EraseOther(r) ==
    /\ req[r].pc = "act" /\ req[r].admin
    /\ \E t \in Accounts \ {req[r].user} :
         req' = [req EXCEPT ![r].pc = "erase", ![r].target = t]
    /\ UNCHANGED <<tables, History>>

EraseRead(r) ==
    LET t == req[r].target IN
    /\ req[r].pc = "erase"
    /\ t \in Accounts
    /\ users[t].admin => Cardinality(Admins) > 1
    /\ req' = [req EXCEPT ![r].pc = "eraseWrite", ![r].admins = Admins,
                          ![r].owned = SessionsOf(t)]
    /\ UNCHANGED <<tables, History>>

EraseWrite_KeepsIdentities(r) ==
    LET q == req[r] IN
    /\ q.pc = "eraseWrite"
    /\ SessionsOf(q.target) \subseteq q.owned
    /\ users' = [users EXCEPT ![q.target] = NoUserRow]
    /\ sessions' = [s \in SessionIds |->
                      IF s \in SessionsOf(q.target) THEN NoSessionRow ELSE sessions[s]]
    /\ flows' = [f \in FlowIds |->
                   IF flows[f].user = q.target THEN NoFlowRow ELSE flows[f]]
    /\ raced' = (raced \/ q.admins # Admins)
    /\ Overtake(r, q.target, Idle)
    /\ UNCHANGED <<links, states, loginDisabled, next, executed, interrupted>>

\* The sessions that were read and every flow are deleted with the account; an
\* identity or a newer session that refers to it makes the transaction fail.
EraseWrite(r) ==
    LET q == req[r] IN
    /\ q.pc = "eraseWrite"
    /\ \A i \in Identities : identities[i] # q.target
    /\ SessionsOf(q.target) \subseteq q.owned
    /\ users' = [users EXCEPT ![q.target] = NoUserRow]
    /\ sessions' = [s \in SessionIds |->
                      IF s \in SessionsOf(q.target) THEN NoSessionRow ELSE sessions[s]]
    /\ flows' = [f \in FlowIds |->
                   IF flows[f].user = q.target THEN NoFlowRow ELSE flows[f]]
    /\ raced' = (raced \/ q.admins # Admins)
    /\ Overtake(r, q.target, Idle)
    /\ UNCHANGED <<links, states, loginDisabled, next, executed, interrupted>>

-----------------------------------------------------------------------------
\* A request ends early: it is refused by one of the conditions above, a
\* statement violates a key, the provider fails, or the process is killed.
Stop(r) ==
    /\ req[r].pc # "idle"
    /\ interrupted' = IF req[r].pc = "endSessions"
                      THEN interrupted \cup {req[r].target} ELSE interrupted
    /\ Done(r)
    /\ UNCHANGED <<tables, executed, raced>>

SignIn(r)  == \/ ReadState(r) \/ UseState(r) \/ UpsertRead(r) \/ UpsertWrite(r)
              \/ RefreshUser(r) \/ CheckPolicy(r) \/ OpenSession(r)
Confirm(r) == \/ StartConfirm(r) \/ LaunchRead(r) \/ Launch(r)
              \/ LoadFlow(r) \/ MatchIdentity(r) \/ ConsumeFlow(r) \/ CompleteFlow(r)
              \/ CompleteRead(r) \/ CompleteConsume(r) \/ Execute(r)
Manage(r)  == \/ RoleRead(r) \/ RoleWrite(r) \/ EndSessions(r) \/ SetPolicy(r)
              \/ EraseOther(r) \/ EraseRead(r) \/ EraseWrite(r)

Next ==
    \/ StartSignIn \/ ExpireSomething
    \/ \E r \in Requests : SignIn(r) \/ Resolve(r) \/ Confirm(r) \/ EndOwn(r)
                           \/ Manage(r) \/ Stop(r)

Spec == Init /\ [][Next]_vars

-----------------------------------------------------------------------------
(* Properties.                                                             *)

\* Tables, requests and histories have their types.
TypeOK ==
    /\ users \in [UserIds -> UserRow]
    /\ identities \in [Identities -> UserIds \cup {None}]
    /\ emails \in [Identities -> Mails \cup {NoMail}]
    /\ linkedWith \in [Identities -> Mails \cup {NoMail}]
    /\ sessions \in [SessionIds -> SessionRow]
    /\ flows \in [FlowIds -> FlowRow]
    /\ states \in [StateIds -> StateRow]
    /\ loginDisabled \in BOOLEAN
    /\ next \in [user : 1..MaxUser + 1, session : 1..MaxSession + 1,
                 flow : 1..MaxFlow + 1, state : 1..MaxState + 1]
    /\ req \in [Requests -> Request]
    /\ executed \subseteq [flow : FlowIds, user : UserIds]
    /\ raced \in BOOLEAN
    /\ interrupted \subseteq UserIds

\* A linked identity belongs to an account that exists and has the address for
\* which the identity was linked, however sign-ins of one address and deletions
\* of the account interleave (_upsert_external_identity_user works on a stale
\* snapshot) and whatever address the provider reports later.
IdentityMatchesAccount ==
    \A i \in Identities :
        identities[i] # None =>
            /\ identities[i] \in Accounts
            /\ users[identities[i]].mail = linkedWith[i]

\* Every session was opened by an identity that is linked to its account: by the
\* callback of a sign-in as well as by the one of a confirmation.
SessionsAreIdentified ==
    \A s \in SessionIds :
        sessions[s].user # None =>
            /\ sessions[s].ident \in Identities
            /\ identities[sessions[s].ident] = sessions[s].user

\* A flow is only confirmed by an identity of the user who asked for the action
\* at first, that request can no longer be confirmed by loading it, and only
\* confirmed flows of the user are carried out, none of them still usable.
ConfirmedByOwner ==
    /\ \A f \in FlowIds :
          flows[f].by # NoIdentity =>
              /\ identities[flows[f].by] = flows[f].user
              /\ flows[f].root < f
              /\ flows[flows[f].root].user = flows[f].user
              /\ ~flows[flows[f].root].open
    /\ \A e \in executed :
          /\ flows[e.flow].user = e.user
          /\ flows[e.flow].by # NoIdentity
          /\ ~flows[e.flow].open

\* A usable session was opened with the role its user has now, unless the
\* request that changed the role is still about to end the sessions, or was
\* stopped before it did.
RolesEndSessions ==
    \A s \in SessionIds :
        sessions[s].live /\ sessions[s].role # users[sessions[s].user].admin =>
            \/ sessions[s].user \in interrupted
            \/ \E r \in Requests :
                  req[r].pc = "endSessions" /\ req[r].target = sessions[s].user

\* A request acts as an administrator only if its user is one, or was when the
\* request resolved its session and lost the role while it was in flight.
AuthorityIsFresh ==
    \A r \in Requests :
        req[r].admin /\ ~req[r].late => req[r].user \in Admins

\* A hub with accounts has an administrator: _manage_user_role refuses to
\* revoke "the last remaining admin" and _delete_user_account to delete it.
HasAdmin == Accounts # {} => Admins # {}

\* It is only lost when a role was taken on a count of administrators that had
\* changed since it was read.
AdminLostOnlyByRace == HasAdmin \/ raced
=============================================================================
