--------------------------- MODULE PlayerQueries ---------------------------
(***************************************************************************)
(* QUERY /api/v1/players and /api/v1/player-finance of one MarketGuard     *)
(* process.  Requests that miss the response cache share one task, a       *)
(* flight, per normalized query; the flight calls Hypixel and Mojang under *)
(* one semaphore, after the skill definitions were loaded under a lock.    *)
(*                                                                         *)
(* One action is what runs between two awaits.  The locks of the flight    *)
(* tables are never held across an await, so taking them never waits.      *)
(* What a call returns is what the flight does next; payloads are left out.*)
(***************************************************************************)
EXTENDS Integers, Sequences, FiniteSets, SequencesExt, FiniteSetsExt

CONSTANTS
    Requests,     \* handler coroutines
    Queries,      \* normalized queries of players: the cache keys
    Finances,     \* normalized queries of a player's finances
    AsksFor,      \* AsksFor[r]: the queries a client may send
    PlayersOf,    \* PlayersOf[q]: the distinct players of a query
    Named,        \* players given by name and not by UUID
    Concurrency,  \* players_max_upstream_concurrency
    Flights,      \* bound: 1..n, flights that are not yet forgotten
    Nobody        \* the player of a call that is not about one

CacheKeys == Queries \cup Finances
Players == UNION {PlayersOf[q] : q \in Queries}

PlayerAssumption ==
    /\ Queries \cap Finances = {}
    /\ \A q \in Queries :
          PlayersOf[q] # {} /\ IsFiniteSet(PlayersOf[q]) /\ Nobody \notin PlayersOf[q]
    /\ AsksFor \in [Requests -> SUBSET CacheKeys]
    /\ Concurrency \in 1..10
    /\ IsFiniteSet(Flights) /\ Flights # {} /\ Flights = 1..Cardinality(Flights)

VARIABLES
    request,     \* request[r]: its step, query and flight
    cached,      \* the queries whose answer is in the response cache
    inflight,    \* player_query_inflight and player_finance_inflight; 0 is none
    flight,      \* flight[f]: its query, step, and whether it ended with an error
    lookup,      \* lookup[f][p]: a player's lookup: "none", or what it waits for
    skills,      \* whether the skill definitions are there and not expired
    skillLock,   \* _skill_lock: the holder, then those that wait
    running,     \* the calls that hold the semaphore
    waiting,     \* the calls that wait for it, first come first served
    activeLoads  \* PlayerQueryMetrics._active_upstream_loads

requests == <<request, cached>>
flights == <<inflight, activeLoads>>
service == <<flight, lookup, skills, skillLock, running, waiting>>
vars == <<requests, flights, service>>

Call(f, p, kind) == [flight |-> f, player |-> p, kind |-> kind]
Calls == running \cup Range(waiting)
CallsOf(f) == {c \in Calls : c.flight = f}

NoFlight == [key |-> Nobody, step |-> "free", refused |-> FALSE]
NoRequest == [step |-> "idle", key |-> Nobody, flight |-> 0]

Unfinished(f) == flight[f].step \notin {"free", "done"}

-----------------------------------------------------------------------------
(* The semaphore: `run' hold it, `line' wait; a free place goes to the     *)
(* first in line.                                                          *)

Admitted(run, line) == Min({Concurrency - Cardinality(run), Len(line)})

Schedule(run, line) ==
    LET n == Admitted(run, line) IN
    /\ running' = run \cup Range(SubSeq(line, 1, n))
    /\ waiting' = SubSeq(line, n + 1, Len(line))

\* A call that could not be made any more leaves its place; others follow.
Release_Leaks(c, more) == Schedule(running, waiting \o more)
Release(c, more) == Schedule(running \ {c}, waiting \o more)

-----------------------------------------------------------------------------
(* A request: players_query and player_finance_query.                      *)

Start(r) ==
    /\ request[r].step = "idle"
    /\ \E k \in AsksFor[r] : request' = [request EXCEPT ![r] = [NoRequest EXCEPT !.step = "read", !.key = k]]
    /\ UNCHANGED <<cached, flights, service>>

\* An entry is returned; without one the request looks for a flight.
ReadCache(r) ==
    /\ request[r].step = "read"
    /\ request' = [request EXCEPT ![r] = IF @.key \in cached THEN NoRequest
                                         ELSE [@ EXCEPT !.step = "join"]]
    /\ UNCHANGED <<cached, flights, service>>

\* A slot of the bounded state: nothing knows its old flight any more.
Forgotten(f) ==
    /\ ~Unfinished(f) /\ CallsOf(f) = {}
    /\ f \notin Range(inflight)
    /\ \A r \in Requests : request[r].flight # f

Counted(k) == IF k \in Queries THEN 1 ELSE 0

Join(r) ==
    LET k == request[r].key IN
    /\ request[r].step = "join"
    /\ inflight[k] # 0
    /\ request' = [request EXCEPT ![r].step = "await", ![r].flight = inflight[k]]
    /\ UNCHANGED <<cached, flights, service>>

Launch(r) ==
    LET k == request[r].key
        f == Min({g \in Flights : Forgotten(g)}) IN
    /\ request[r].step = "join"
    /\ inflight[k] = 0
    /\ \E g \in Flights : Forgotten(g)
    /\ inflight' = [inflight EXCEPT ![k] = f]
    /\ activeLoads' = activeLoads + Counted(k)
    /\ flight' = [flight EXCEPT ![f] = [key |-> k, step |-> "new", refused |-> FALSE]]
    /\ request' = [request EXCEPT ![r].step = "await", ![r].flight = f]
    /\ UNCHANGED <<cached, lookup, skills, skillLock, running, waiting>>

\* The flight's error is the request's answer; a result is cached first, also
\* one that says of a player that it is unavailable.
Arrive(r) ==
    LET f == request[r].flight IN
    /\ request[r].step = "await"
    /\ flight[f].step = "done"
    /\ request' = [request EXCEPT ![r] = IF flight[f].refused THEN NoRequest
                                         ELSE [@ EXCEPT !.step = "write"]]
    /\ UNCHANGED <<cached, flights, service>>

Write(r) ==
    /\ request[r].step = "write"
    /\ cached' = cached \cup {request[r].key}
    /\ request' = [request EXCEPT ![r] = NoRequest]
    /\ UNCHANGED <<flights, service>>

\* The client is gone: the handler is cancelled at its await, the flight,
\* which is shielded, is not.
GoAway_Unshielded(r) ==
    /\ request[r].step # "idle"
    /\ request' = [request EXCEPT ![r] = NoRequest]
    /\ LET f == request[r].flight IN
       IF f = 0 THEN UNCHANGED flight
       ELSE flight' = [flight EXCEPT ![f].step = "done", ![f].refused = TRUE]
    /\ UNCHANGED <<cached, flights, lookup, skills, skillLock, running, waiting>>
GoAway_CleansUp(r) ==
    LET k == request[r].key IN
    /\ request[r].step # "idle"
    /\ request' = [request EXCEPT ![r] = NoRequest]
    /\ inflight' = IF request[r].step = "await" THEN [inflight EXCEPT ![k] = 0] ELSE inflight
    /\ activeLoads' = Cardinality({q \in Queries : inflight'[q] # 0})
    /\ UNCHANGED <<cached, service>>
GoAway(r) ==
    /\ request[r].step # "idle"
    /\ request' = [request EXCEPT ![r] = NoRequest]
    /\ UNCHANGED <<cached, flights, service>>

\* _clear_completed_flight, a task that the end of a flight starts.
CleanUp(f) ==
    LET k == flight[f].key IN
    /\ flight[f].step = "done"
    /\ inflight[k] = f
    /\ inflight' = [inflight EXCEPT ![k] = 0]
    /\ activeLoads' = activeLoads - Counted(k)
    /\ UNCHANGED <<requests, service>>

\* The entry's time to live is over, or others pushed it out.
CacheExpires ==
    \E k \in cached :
        /\ cached' = cached \ {k}
        /\ UNCHANGED <<request, flights, service>>

-----------------------------------------------------------------------------
(* A flight of a players query, up to its lookups: get_players and         *)
(* _load_skill_definitions.                                                *)

\* A lookup begins with the name, or with player and profiles together; the calls
\* of one gather come in some order.
FirstCalls(f, p) ==
    IF p \in Named THEN {Call(f, p, "name")}
    ELSE {Call(f, p, "player"), Call(f, p, "profiles")}

FirstCallsOf(f) == SetToSeq(UNION {FirstCalls(f, p) : p \in PlayersOf[flight[f].key]})

\* All lookups of a flight are started by one gather.
Gather(f) ==
    /\ flight' = [flight EXCEPT ![f].step = "lookups"]
    /\ lookup' = [lookup EXCEPT ![f] =
                     [p \in Players |-> IF p \notin PlayersOf[flight[f].key] THEN "none"
                                        ELSE IF p \in Named THEN "name" ELSE "data"]]

Refused(f) == [flight EXCEPT ![f].step = "done", ![f].refused = TRUE]

BeginPlayers(f) ==
    /\ flight[f].step = "new" /\ flight[f].key \in Queries
    /\ IF skills
       THEN /\ Gather(f)
            /\ Schedule(running, waiting \o FirstCallsOf(f))
            /\ UNCHANGED skillLock
       ELSE /\ flight' = [flight EXCEPT ![f].step = "skills"]
            /\ skillLock' = Append(skillLock, f)
            /\ UNCHANGED <<lookup, running, waiting>>
    /\ UNCHANGED <<requests, flights, skills>>

\* With the lock held the definitions may be there by now.
TakeSkillLock(f) ==
    /\ flight[f].step = "skills"
    /\ Head(skillLock) = f
    /\ IF skills
       THEN /\ Gather(f)
            /\ skillLock' = Tail(skillLock)
            /\ Schedule(running, waiting \o FirstCallsOf(f))
       ELSE /\ flight' = [flight EXCEPT ![f].step = "fetching"]
            /\ Schedule(running, Append(waiting, Call(f, Nobody, "skills")))
            /\ UNCHANGED <<lookup, skillLock>>
    /\ UNCHANGED <<requests, flights, skills>>

\* Without definitions the lookups go on without skills; a rejected key ends
\* the flight.
SkillsAnswered(f, loaded) ==
    /\ flight[f].step = "fetching"
    /\ skills' = (skills \/ loaded)
    /\ skillLock' = Tail(skillLock)
    /\ Gather(f)
    /\ Release(Call(f, Nobody, "skills"), FirstCallsOf(f))
    /\ UNCHANGED <<requests, flights>>

SkillsRejected_Locked(f) ==
    /\ flight[f].step = "fetching"
    /\ flight' = Refused(f)
    /\ Release(Call(f, Nobody, "skills"), <<>>)
    /\ UNCHANGED <<requests, flights, lookup, skills, skillLock>>
SkillsRejected(f) ==
    /\ flight[f].step = "fetching"
    /\ flight' = Refused(f)
    /\ skillLock' = Tail(skillLock)
    /\ Release(Call(f, Nobody, "skills"), <<>>)
    /\ UNCHANGED <<requests, flights, lookup, skills>>

SkillsExpire ==
    /\ skills
    /\ skills' = FALSE
    /\ UNCHANGED <<requests, flights, flight, lookup, skillLock, running, waiting>>

-----------------------------------------------------------------------------
(* The lookup of one player: _lookup_player.  Nothing stops the lookups of *)
(* a flight that has ended.                                                *)

\* The flight ends with its last lookup.
Settled(f, p) ==
    LET last == \A q \in Players \ {p} : lookup[f][q] = "none" IN
    /\ lookup' = [lookup EXCEPT ![f][p] = "none"]
    /\ flight' = IF last THEN [flight EXCEPT ![f].step = "done"] ELSE flight

NameFound(c) ==
    /\ lookup' = [lookup EXCEPT ![c.flight][c.player] = "data"]
    /\ flight' = flight
    /\ Release(c, <<Call(c.flight, c.player, "player"), Call(c.flight, c.player, "profiles")>>)

\* The name is unknown, or Mojang cannot be asked.
NameMissing(c) ==
    /\ Settled(c.flight, c.player)
    /\ Release(c, <<>>)

Sibling(c) ==
    Call(c.flight, c.player, IF c.kind = "player" THEN "profiles" ELSE "player")

\* The lookup needs both answers.
DataAnswered(c) ==
    /\ IF lookup[c.flight][c.player] = "data" /\ Sibling(c) \notin Calls
       THEN Settled(c.flight, c.player)
       ELSE UNCHANGED <<lookup, flight>>
    /\ Release(c, <<>>)

\* The first failure decides the lookup, the other call goes on by itself.
DataFails(c) ==
    /\ IF lookup[c.flight][c.player] = "data"
       THEN Settled(c.flight, c.player)
       ELSE UNCHANGED <<lookup, flight>>
    /\ Release(c, <<>>)

\* A rejected key is raised through the gather and ends the flight.
DataRejected(c) ==
    /\ lookup' = [lookup EXCEPT ![c.flight][c.player] = "none"]
    /\ flight' = IF lookup[c.flight][c.player] = "data" /\ Unfinished(c.flight)
                 THEN Refused(c.flight) ELSE flight
    /\ Release(c, <<>>)

LookupStep(c) ==
    /\ \/ c.kind = "name" /\ (NameFound(c) \/ NameMissing(c))
       \/ c.kind \in {"player", "profiles"} /\ (DataAnswered(c) \/ DataFails(c) \/ DataRejected(c))
    /\ UNCHANGED <<requests, flights, skills, skillLock>>

-----------------------------------------------------------------------------
(* A flight of a finance query: get_player_finance.                        *)

BeginFinance(f) ==
    /\ flight[f].step = "new" /\ flight[f].key \in Finances
    /\ flight' = [flight EXCEPT ![f].step = "profile"]
    /\ Schedule(running, Append(waiting, Call(f, Nobody, "profile")))
    /\ UNCHANGED <<requests, flights, lookup, skills, skillLock>>

\* A member's museum follows; a profile without the member is the answer.
ProfileAnswered(f, member) ==
    /\ flight[f].step = "profile"
    /\ flight' = IF member THEN [flight EXCEPT ![f].step = "museum"]
                 ELSE [flight EXCEPT ![f].step = "done"]
    /\ Release(Call(f, Nobody, "profile"), IF member THEN <<Call(f, Nobody, "museum")>> ELSE <<>>)

\* Without the museum the answer is partial.
MuseumAnswered(f) ==
    /\ flight[f].step = "museum"
    /\ flight' = [flight EXCEPT ![f].step = "done"]
    /\ Release(Call(f, Nobody, "museum"), <<>>)

\* A failed profile, a rejected key or a rate limit is the flight's error.
FinanceFails(f) ==
    /\ flight[f].step \in {"profile", "museum"}
    /\ flight' = Refused(f)
    /\ Release(Call(f, Nobody, flight[f].step), <<>>)

FinanceStep(c) ==
    LET f == c.flight IN
    /\ c.kind \in {"profile", "museum"}
    /\ \/ \E member \in BOOLEAN : ProfileAnswered(f, member)
       \/ MuseumAnswered(f)
       \/ FinanceFails(f)
    /\ UNCHANGED <<requests, flights, lookup, skills, skillLock>>

-----------------------------------------------------------------------------

SkillStep(c) ==
    /\ c.kind = "skills"
    /\ (\E loaded \in BOOLEAN : SkillsAnswered(c.flight, loaded)) \/ SkillsRejected(c.flight)

\* A call that holds the semaphore ends, with an answer or by its timeout.
CallEnds(c) == c \in running /\ (SkillStep(c) \/ LookupStep(c) \/ FinanceStep(c))

Init ==
    /\ request = [r \in Requests |-> NoRequest]
    /\ cached = {}
    /\ inflight = [k \in CacheKeys |-> 0]
    /\ flight = [f \in Flights |-> NoFlight]
    /\ lookup = [f \in Flights |-> [p \in Players |-> "none"]]
    /\ skills = FALSE
    /\ skillLock = <<>>
    /\ running = {}
    /\ waiting = <<>>
    /\ activeLoads = 0

Handle(r) == ReadCache(r) \/ Join(r) \/ Launch(r) \/ Arrive(r) \/ Write(r)
Advance(f) == BeginPlayers(f) \/ TakeSkillLock(f) \/ BeginFinance(f) \/ CleanUp(f)

Next ==
    \/ \E r \in Requests : Start(r) \/ Handle(r) \/ GoAway(r)
    \/ \E f \in Flights : Advance(f)
    \/ \E c \in running : CallEnds(c)
    \/ CacheExpires \/ SkillsExpire

Spec == Init /\ [][Next]_vars

-----------------------------------------------------------------------------
(* Properties.                                                             *)

\* "Cache misses for the same normalized request share one in-flight
\* upstream lookup" (README.md:311): the table holds the one flight of a query
\* that is under way, also when clients go away and when its cleanup races
\* with a new request; and the gauge of active loads is what the table says.
SharedFlight ==
    /\ \A f \in Flights : Unfinished(f) => inflight[flight[f].key] = f
    /\ activeLoads = Cardinality({q \in Queries : inflight[q] # 0})

\* Whatever fails, no flight waits for ever: one that is not new either has a
\* call of its own, or it waits for the skill lock, whose holder has one or is
\* about to go on; and while a call waits for the semaphore, others that will
\* end hold all of it.
NothingStuck ==
    /\ \A f \in Flights : Unfinished(f) =>
          flight[f].step = "new" \/ f \in Range(skillLock) \/ CallsOf(f) # {}
    /\ skillLock # <<>> =>
          \/ flight[Head(skillLock)].step = "skills"
          \/ Call(Head(skillLock), Nobody, "skills") \in Calls
    /\ waiting # <<>> => Cardinality(running) = Concurrency

\* A flight ends by an answer to one of its own calls, and an error it ends
\* with is that answer's; a client that goes away never ends it for others.
AnswerEndsFlight ==
    \A f \in Flights :
        Unfinished(f) /\ ~Unfinished(f)' => \E c \in running \ running' : c.flight = f
EndsByAnswer == [][AnswerEndsFlight]_vars
=============================================================================
