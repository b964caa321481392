----------------------------- MODULE ScrubRules -----------------------------
(***************************************************************************)
(* Content scrub rules (core/content_scrubbing.py,                         *)
(* routes/admin_scrub_rules.py): administrators add and delete rules while *)
(* uploads are scrubbed.  A case that a rule matches is quarantined, and   *)
(* the matches of each rule are added to its row at the end of the scrub.  *)
(*                                                                         *)
(* A pattern stands for a rule's mode, text and regex flag together; a     *)
(* case is the set of patterns that match it outside its protected fields. *)
(***************************************************************************)
EXTENDS FiniteSets, Naturals

CONSTANTS
    Patterns,   \* signatures of rules
    Contents,   \* Contents[u]: the cases that u uploads, in their order
    Admins,     \* requests of administrators
    Uploaders,  \* bound: requests that upload, once each
    MaxRules,   \* CONTENT_SCRUB_MAX_RULES
    MaxIds,     \* bound: rules ever inserted
    None

Ids == 1..MaxIds

ScrubAssumption == None \notin Patterns /\ MaxRules \in Nat

VARIABLES
    driver,    \* "sqlite" or "mariadb"
    rule,      \* rule[id]: the pattern of the row, or None
    matches,   \* match_count of the rows
    nextId,    \* AUTOINCREMENT: ids are never used again
    admin,     \* admin[a]: a creation and its pattern
    scrub,     \* scrub[u]: an upload's way through the rules
    found,     \* history: matches that completed scrubs found, by rule
    raced      \* history: two creations have overlapped

vars == <<driver, rule, matches, nextId, admin, scrub, found, raced>>

Rows == {id \in Ids : rule[id] # None}
Waiting == [step |-> "idle", about |-> None]
NoScrub == [step |-> "idle", cases |-> <<>>, before |-> 1, loaded |-> {}, todo |-> {}, done |-> {}]

-----------------------------------------------------------------------------
(* _create_content_scrub_rule and _delete_content_scrub_rule.              *)

Refused_NoMaximum(p) == \E id \in Rows : rule[id] = p
Refused(p) == Cardinality(Rows) >= MaxRules \/ \E id \in Rows : rule[id] = p

\* Both questions are asked before the insertion, in no transaction with it.
CheckRoom(a, p) ==
    /\ admin[a].step = "idle" /\ ~Refused(p)
    /\ admin' = [admin EXCEPT ![a] = [step |-> "insert", about |-> p]]
    /\ raced' = (raced \/ \E b \in Admins \ {a} : admin[b].step = "insert")
    /\ UNCHANGED <<driver, rule, matches, nextId, scrub, found>>

(* While an upload writes, SQLite has one writer, and MariaDB makes a      *)
(* statement wait for the rows that it has updated.                        *)
Holds(u, S) ==
    /\ scrub[u].done # {}
    /\ driver = "sqlite" \/ scrub[u].done \cap S \cap Rows # {}

\* The unique key on the signature raises, and nothing is inserted.
InsertRule(a) ==
    /\ admin[a].step = "insert"
    /\ \A u \in Uploaders : ~Holds(u, {})
    /\ admin' = [admin EXCEPT ![a] = Waiting]
    /\ IF \E id \in Rows : rule[id] = admin[a].about
       THEN UNCHANGED <<rule, nextId>>
       ELSE /\ nextId <= MaxIds
            /\ rule' = [rule EXCEPT ![nextId] = admin[a].about]
            /\ nextId' = nextId + 1
    /\ UNCHANGED <<driver, matches, scrub, found, raced>>

\* The SELECT before the DELETE only decides whether the answer is 404.
DeleteRule(id) ==
    /\ id \in Rows
    /\ \A u \in Uploaders : ~Holds(u, {id})
    /\ rule' = [rule EXCEPT ![id] = None]
    /\ matches' = [matches EXCEPT ![id] = 0] /\ found' = [found EXCEPT ![id] = 0]
    /\ UNCHANGED <<driver, nextId, admin, scrub, raced>>

-----------------------------------------------------------------------------
(* _apply_content_scrub_rules_to_cases.                                    *)

\* The rows with the lowest ids, at most MaxRules of them.
Enabled == {id \in Rows : Cardinality({k \in Rows : k < id}) < MaxRules}

\* The cases are compared with the rules as loaded, in memory.
Load(u) ==
    /\ scrub[u].step = "idle"
    /\ scrub' = [scrub EXCEPT ![u] =
         [step |-> "compared", cases |-> [n \in DOMAIN Contents[u] |->
              [by |-> {id \in Enabled : rule[id] \in Contents[u][n]}, of |-> Contents[u][n]]],
          before |-> nextId, loaded |-> Enabled,
          todo |-> {id \in Enabled : \E n \in DOMAIN Contents[u] : rule[id] \in Contents[u][n]},
          done |-> {}]]
    /\ UNCHANGED <<driver, rule, matches, nextId, admin, found, raced>>

By(u, id) == {n \in DOMAIN scrub[u].cases : id \in scrub[u].cases[n].by}

\* per_rule_matches is in the order of the first matches.
Sooner(u, i, j) ==
    \E n \in By(u, i) : \A m \in By(u, j) : n < m \/ (n = m /\ i <= j)

\* An UPDATE of a row that is gone by now changes nothing.
CountRule_Committed(u) ==
    /\ scrub[u].step = "compared"
    /\ \E id \in scrub[u].todo :
        /\ \A k \in scrub[u].todo : Sooner(u, id, k)
        /\ \A v \in Uploaders \ {u} : ~Holds(v, {id})
        /\ scrub' = [scrub EXCEPT ![u].todo = @ \ {id}]
        /\ matches' = [matches EXCEPT ![id] = @ + IF id \in Rows THEN Cardinality(By(u, id)) ELSE 0]
    /\ UNCHANGED <<driver, rule, nextId, admin, found, raced>>
CountRule(u) ==
    /\ scrub[u].step = "compared"
    /\ \E id \in scrub[u].todo :
        /\ \A k \in scrub[u].todo : Sooner(u, id, k)
        /\ \A v \in Uploaders \ {u} : ~Holds(v, {id})
        /\ scrub' = [scrub EXCEPT ![u].todo = @ \ {id}, ![u].done = @ \cup {id}]
    /\ UNCHANGED <<driver, rule, matches, nextId, admin, found, raced>>

Added(counts, u, S) ==
    [id \in Ids |-> counts[id] + IF id \in S THEN Cardinality(By(u, id)) ELSE 0]

\* _accept_training_upload goes on with the accepted and quarantined cases.
Commit(u) ==
    /\ scrub[u].step = "compared" /\ scrub[u].todo = {}
    /\ matches' = Added(matches, u, scrub[u].done \cap Rows)
    /\ found' = Added(found, u, scrub[u].loaded \cap Rows)
    /\ scrub' = [scrub EXCEPT ![u].step = "scrubbed", ![u].loaded = {}, ![u].done = {}]
    /\ UNCHANGED <<driver, rule, nextId, admin, raced>>

\* A deadlock, a lock that is waited for too long, a kill: all is rolled back.
ScrubFails(u) ==
    /\ scrub[u].step = "compared"
    /\ scrub[u].done # {} \/ scrub[u].todo # {}
    /\ scrub' = [scrub EXCEPT ![u] = [NoScrub EXCEPT !.step = "failed"]]
    /\ UNCHANGED <<driver, rule, matches, nextId, admin, found, raced>>

Accepted(u) == {n \in DOMAIN scrub[u].cases : scrub[u].cases[n].by = {}}

Init ==
    /\ driver \in {"sqlite", "mariadb"}
    /\ rule = [id \in Ids |-> None] /\ matches = [id \in Ids |-> 0] /\ nextId = 1
    /\ admin = [a \in Admins |-> Waiting]
    /\ scrub = [u \in Uploaders |-> NoScrub]
    /\ found = [id \in Ids |-> 0] /\ raced = FALSE

Next ==
    \/ \E a \in Admins : InsertRule(a) \/ \E p \in Patterns : CheckRoom(a, p)
    \/ \E id \in Ids : DeleteRule(id)
    \/ \E u \in Uploaders : Load(u) \/ CountRule(u) \/ Commit(u) \/ ScrubFails(u)

Spec == Init /\ [][Next]_vars

-----------------------------------------------------------------------------
(* Properties.                                                             *)

\* Unless two creations have overlapped, a case that is accepted matches no
\* rule that was there during the whole scrub of its upload: the rows that
\* LIMIT keeps out of the loaded rules never include one.
RulesApply ==
    \A u \in Uploaders : scrub[u].step = "scrubbed" /\ ~raced =>
        \A n \in Accepted(u), id \in Rows :
            id < scrub[u].before => rule[id] \notin scrub[u].cases[n].of

\* A rule's count is the number of matches that completed scrubs found with
\* it: a scrub that fails on one row adds nothing to another, and no two
\* scrubs lose each other's matches.
MatchesCounted == \A id \in Rows : matches[id] = found[id]
=============================================================================
