----------------------------- MODULE Migrations -----------------------------
(***************************************************************************)
(* Creation and migration of the hub's schema (core/storage_migrations.py, *)
(* core/storage_schema_sqlite.py, core/storage_schema_mariadb.py): a       *)
(* script that every worker process runs when it starts, on a database of  *)
(* any earlier release, while other workers run it, serve, or are killed.  *)
(*                                                                         *)
(* MariaDB commits every statement that changes the schema.  The SQLite    *)
(* driver runs them outside a transaction until the first INSERT, that of  *)
(* a table that is rebuilt, opens one: it holds the write lock to the end. *)
(*                                                                         *)
(* A table is the columns that some release added and its unique keys;     *)
(* columns of the first release are one column, "id", and indexes that     *)
(* only serve speed are left out.                                          *)
(***************************************************************************)
EXTENDS Sequences, FiniteSets, Naturals, SequencesExt

CONSTANTS
    Workers,    \* worker processes
    Releases,   \* schemas a database may have when the first of them starts
    MaxKills,   \* bound: kills there are
    MaxLeft,    \* bound: columns that the starts under way could not change
    Nobody

VARIABLES
    engine,     \* "sqlite" or "mariadb"
    found,      \* history: the schema at first
    base,       \* the committed schema
    draft,      \* the schema as the open transaction has it
    holder,     \* the worker with the open transaction
    worker,     \* worker[w]: its place in the script and its step there
    raced,      \* history: other workers changed the schema since w started
    left,       \* history: tables whose column w's start could not make nullable
    kills

vars == <<engine, found, base, draft, holder, worker, raced, left, kills>>

-----------------------------------------------------------------------------
(* The script.                                                             *)

Create(t) == [do |-> "create", table |-> t, name |-> "id"]
Add(t, c) == [do |-> "add", table |-> t, name |-> c]
Index(t, k) == [do |-> "index", table |-> t, name |-> k]
Rebuild(t, c) == [do |-> "rebuild", table |-> t, name |-> c]

CreateAll(ts) == [n \in DOMAIN ts |-> Create(ts[n])]
AddAll(t, cs) == [n \in DOMAIN cs |-> Add(t, cs[n])]

Schema ==
    CreateAll(<<"users", "sessions", "client_identities", "external_auth_states",
        "external_identities", "uploads", "training_runs", "training_cases", "upload_cases",
        "audit_logs", "password_reset_tokens", "admin_mfa_challenges", "auth_flow_tokens",
        "user_totp_factors", "user_passkeys", "user_backup_codes", "rate_limit_hits",
        "data_export_requests", "access_policies", "content_scrub_rules">>)

ClientIdentities ==
    <<Create("client_identities"), Add("uploads", "client_identity_id"),
      Add("training_cases", "created_by_client_identity_id")>>

ExternalAuth(e) ==
    CreateAll(<<"external_auth_states", "external_identities">>)
        \o IF e = "sqlite" THEN <<Index("external_identities", "subject")>> ELSE <<>>

\* The SQLite branch returns before it looks for match_count.
ScrubRules(e) ==
    <<Create("content_scrub_rules"),
      IF e = "sqlite" THEN Index("content_scrub_rules", "signature")
                      ELSE Add("content_scrub_rules", "match_count")>>

UsersSecurity == AddAll("users", <<"mfa_enabled", "failed_login_attempts", "lockout_until">>)

UploadsSecurity ==
    AddAll("uploads", <<"source_ip", "user_agent">>) \o <<Rebuild("uploads", "user_id")>>

AuditLogs ==
    AddAll("audit_logs", <<"source_ip", "user_agent">>)
        \o <<Rebuild("audit_logs", "actor_user_id")>>

ResetTokens == AddAll("password_reset_tokens", <<"source_ip", "user_agent">>)

Challenges ==
    AddAll("admin_mfa_challenges", <<"failed_attempts", "source_ip", "user_agent">>)

SecondFactors ==
    CreateAll(<<"auth_flow_tokens", "user_totp_factors", "user_passkeys", "user_backup_codes">>)

CaseColumns == AddAll("training_cases", <<"payload_json", "content_deleted_at">>)
CaseIdentity == <<Rebuild("training_cases", "created_by_user_id")>>

SqliteIndexes ==
    <<Index("uploads", "user_sha"), Index("uploads", "client_sha"),
      Index("upload_cases", "case"), Index("external_identities", "subject"),
      Index("content_scrub_rules", "signature")>>

Script_IndexesFirst(e) ==
    Schema \o SqliteIndexes \o ClientIdentities \o ExternalAuth(e) \o ScrubRules(e)
        \o UsersSecurity \o UploadsSecurity \o AuditLogs \o ResetTokens \o Challenges
        \o SecondFactors \o CaseColumns \o CaseIdentity
Script(e) ==
    Schema \o ClientIdentities \o ExternalAuth(e) \o ScrubRules(e) \o UsersSecurity
        \o UploadsSecurity \o AuditLogs \o ResetTokens \o Challenges \o SecondFactors
        \o CaseColumns \o CaseIdentity \o IF e = "sqlite" THEN SqliteIndexes ELSE <<>>

-----------------------------------------------------------------------------
(* Schemas.                                                                *)

Tables == {s.table : s \in Range(Schema)}
Rebuilt == {"uploads", "audit_logs", "training_cases"}

\* The columns CREATE TABLE gives a table, in both dialects.
Columns(t) ==
    {"id"} \cup {s.name : s \in {x \in Range(Script("mariadb")) : x.do = "add" /\ x.table = t}}
Keys(t) == {s.name : s \in {x \in Range(SqliteIndexes) : x.table = t}}

SchemaType ==
    [columns : [Tables -> SUBSET UNION {Columns(t) : t \in Tables}],
     keys : [Tables -> SUBSET UNION {Keys(t) : t \in Tables}],
     strict : SUBSET Rebuilt, rows : SUBSET Rebuilt,
     copy : [Rebuilt -> {"none", "empty", "full"}]]

(* A release has some of the tables, with their first columns and some of  *)
(* the others, and a killed start may have left an empty copy behind.      *)
ASSUME ReleaseAssumption ==
    /\ Nobody \notin Workers
    /\ \A s \in Releases :
          /\ s \in SchemaType
          /\ \A t \in Tables :
                /\ s.columns[t] \subseteq Columns(t) /\ s.keys[t] \subseteq Keys(t)
                /\ "id" \notin s.columns[t] => s.columns[t] = {} /\ s.keys[t] = {}
          /\ \A t \in Rebuilt : s.copy[t] # "full"

Sch(w) == IF holder = w THEN draft ELSE base

\* A statement that changes the schema, committed at once or with the transaction.
Execute(w, s) ==
    IF holder = w THEN draft' = s /\ base' = base ELSE base' = s /\ draft' = draft

Scripts == [e \in {"sqlite", "mariadb"} |-> Script(e)]
Statement(w) == Scripts[engine][worker[w].at]
At(w, do, step) ==
    /\ worker[w].at \in 1..Len(Scripts[engine])
    /\ Statement(w).do = do /\ worker[w].step = step
MayWrite(w) == holder \in {Nobody, w}

\* IF NOT EXISTS: nothing to write.
There(w) == Statement(w).name \in Sch(w).columns[Statement(w).table] \cup Sch(w).keys[Statement(w).table]

NextStatement(w) == worker' = [worker EXCEPT ![w] = [at |-> @.at + 1, step |-> "begin"]]
NextStep(w, step) == worker' = [worker EXCEPT ![w].step = step]
Fails(w) ==
    /\ worker' = [worker EXCEPT ![w] = [at |-> 0, step |-> IF raced[w] THEN "overtaken" ELSE "failed"]]
    /\ holder' = IF holder = w THEN Nobody ELSE holder
    /\ left' = [left EXCEPT ![w] = {}]
    /\ UNCHANGED <<engine, found, base, draft, raced, kills>>
Changed(w) ==
    raced' = [x \in Workers |-> raced[x] \/ (x # w /\ (base' # base \/ holder' # holder))]

-----------------------------------------------------------------------------
(* The statements.                                                         *)

RunCreate(w) ==
    /\ At(w, "create", "begin") /\ (There(w) \/ MayWrite(w))
    /\ LET t == Statement(w).table
       IN  Execute(w,
            IF There(w) THEN Sch(w)
            ELSE [Sch(w) EXCEPT !.columns[t] = Columns(t),
                                !.keys[t] = IF engine = "mariadb" THEN Keys(t) ELSE {}])
    /\ NextStatement(w)
    /\ UNCHANGED <<engine, found, holder, left, kills>>
    /\ Changed(w)

\* _table_columns, and ALTER TABLE on another look at the schema.
LookForColumn(w) ==
    /\ At(w, "add", "begin")
    /\ IF There(w) THEN NextStatement(w) ELSE NextStep(w, "alter")
    /\ UNCHANGED <<engine, found, base, draft, holder, raced, left, kills>>

AddColumn(w) ==
    /\ At(w, "add", "alter") /\ MayWrite(w)
    /\ ~There(w)
    /\ Execute(w, [Sch(w) EXCEPT !.columns[Statement(w).table] = @ \cup {Statement(w).name}])
    /\ NextStatement(w)
    /\ UNCHANGED <<engine, found, holder, left, kills>>
    /\ Changed(w)

\* Both dialects of the statement fail: the column is there by now.
ColumnIsThere(w) ==
    /\ At(w, "add", "alter") /\ MayWrite(w)
    /\ There(w)
    /\ Fails(w)

RunIndex(w) ==
    /\ At(w, "index", "begin") /\ (There(w) \/ MayWrite(w))
    /\ Execute(w, [Sch(w) EXCEPT !.keys[Statement(w).table] = @ \cup {Statement(w).name}])
    /\ NextStatement(w)
    /\ UNCHANGED <<engine, found, holder, left, kills>>
    /\ Changed(w)

\* MariaDB: ALTER TABLE ... MODIFY ... NULL.
MakeNullable(w) ==
    /\ At(w, "rebuild", "begin") /\ engine = "mariadb"
    /\ Execute(w, [Sch(w) EXCEPT !.strict = @ \ {Statement(w).table}])
    /\ NextStatement(w)
    /\ UNCHANGED <<engine, found, holder, left, kills>>
    /\ Changed(w)

\* SQLite: PRAGMA table_info, and then the table is copied.
LookForNull(w) ==
    /\ At(w, "rebuild", "begin") /\ engine = "sqlite"
    /\ IF Statement(w).table \in Sch(w).strict THEN NextStep(w, "create") ELSE NextStatement(w)
    /\ UNCHANGED <<engine, found, base, draft, holder, raced, left, kills>>

\* The statement fails and the script goes on: "except Exception: pass" around
\* MariaDB's MODIFY; around SQLite's PRAGMA, after which it tries the MODIFY,
\* which SQLite does not know.  On a nullable column that makes no difference.
StaysStrict(w) ==
    /\ At(w, "rebuild", "begin") /\ Statement(w).table \in Sch(w).strict
    /\ Cardinality({x \in Workers \X Rebuilt : x[2] \in left[x[1]]}) < MaxLeft
    /\ left' = [left EXCEPT ![w] = @ \cup {Statement(w).table}]
    /\ NextStatement(w)
    /\ UNCHANGED <<engine, found, base, draft, holder, raced, kills>>

CreateCopy_Once(w) ==
    /\ At(w, "rebuild", "create") /\ MayWrite(w)
    /\ IF Sch(w).copy[Statement(w).table] = "none"
       THEN /\ Execute(w, [Sch(w) EXCEPT !.copy[Statement(w).table] = "empty"])
            /\ NextStep(w, "fill")
            /\ UNCHANGED <<engine, found, holder, left, kills>>
            /\ Changed(w)
       ELSE Fails(w)
CreateCopy(w) ==
    /\ At(w, "rebuild", "create") /\ MayWrite(w)
    /\ Execute(w, [Sch(w) EXCEPT !.copy[Statement(w).table] = IF @ = "none" THEN "empty" ELSE @])
    /\ NextStep(w, "fill")
    /\ UNCHANGED <<engine, found, holder, left, kills>>
    /\ Changed(w)

\* The copy has the columns the statement names: those of the current schema.
Copyable(w) ==
    LET t == Statement(w).table
    IN  Sch(w).copy[t] = "empty" /\ Columns(t) \subseteq Sch(w).columns[t]
Filled(w) ==
    LET t == Statement(w).table
    IN  [Sch(w) EXCEPT !.copy[t] = IF t \in Sch(w).rows THEN "full" ELSE "empty"]

FillCopy_Committed(w) ==
    /\ At(w, "rebuild", "fill") /\ MayWrite(w) /\ Copyable(w)
    /\ Execute(w, Filled(w))
    /\ NextStep(w, "drop")
    /\ UNCHANGED <<engine, found, holder, left, kills>>
    /\ Changed(w)
FillCopy(w) ==
    /\ At(w, "rebuild", "fill") /\ MayWrite(w) /\ Copyable(w)
    /\ holder' = w
    /\ draft' = Filled(w) /\ base' = base
    /\ NextStep(w, "drop")
    /\ UNCHANGED <<engine, found, left, kills>>
    /\ Changed(w)

FillFails(w) ==
    /\ At(w, "rebuild", "fill") /\ MayWrite(w) /\ ~Copyable(w)
    /\ Fails(w)

DropTable(w) ==
    /\ At(w, "rebuild", "drop") /\ MayWrite(w)
    /\ LET t == Statement(w).table
       IN  Execute(w, [Sch(w) EXCEPT !.columns[t] = {}, !.keys[t] = {}, !.rows = @ \ {t}])
    /\ NextStep(w, "rename")
    /\ UNCHANGED <<engine, found, holder, left, kills>>
    /\ Changed(w)

RenameCopy(w) ==
    /\ At(w, "rebuild", "rename") /\ MayWrite(w)
    /\ LET t == Statement(w).table
       IN  Execute(w, [Sch(w) EXCEPT !.columns[t] = Columns(t),
                            !.strict = @ \ {t}, !.copy[t] = "none",
                            !.rows = IF Sch(w).copy[t] = "full" THEN @ \cup {t} ELSE @])
    /\ NextStatement(w)
    /\ UNCHANGED <<engine, found, holder, left, kills>>
    /\ Changed(w)

\* SQLite waits five seconds for the lock, then raises.
LockTimeout(w) ==
    /\ worker[w].at \in 1..Len(Scripts[engine]) /\ ~MayWrite(w)
    /\ (Statement(w).do \in {"create", "index"} /\ ~There(w)) \/ worker[w].step # "begin"
    /\ Fails(w)

Commit(w) ==
    /\ worker[w].at = Len(Scripts[engine]) + 1 /\ worker[w].step = "begin"
    /\ base' = IF holder = w THEN draft ELSE base
    /\ holder' = IF holder = w THEN Nobody ELSE holder
    /\ NextStep(w, "serves")
    /\ UNCHANGED <<engine, found, draft, left, kills>>
    /\ Changed(w)

-----------------------------------------------------------------------------
(* Processes.                                                              *)

Start(w) ==
    /\ worker[w].at = 0
    /\ worker' = [worker EXCEPT ![w] = [at |-> 1, step |-> "begin"]]
    /\ raced' = [raced EXCEPT ![w] = holder # Nobody]
    /\ UNCHANGED <<engine, found, base, draft, holder, left, kills>>

Kill(w) ==
    /\ worker[w].at > 0 /\ kills < MaxKills
    /\ kills' = kills + 1
    /\ worker' = [worker EXCEPT ![w] = [at |-> 0, step |-> "begin"]]
    /\ holder' = IF holder = w THEN Nobody ELSE holder
    /\ left' = [left EXCEPT ![w] = {}]
    /\ UNCHANGED <<engine, found, base, draft>>
    /\ Changed(w)

Init ==
    /\ engine \in {"sqlite", "mariadb"}
    /\ found \in Releases
    /\ base = found /\ draft = found
    /\ holder = Nobody
    /\ worker = [w \in Workers |-> [at |-> 0, step |-> "begin"]]
    /\ raced = [w \in Workers |-> FALSE]
    /\ left = [w \in Workers |-> {}]
    /\ kills = 0

Migrate(w) ==
    \/ RunCreate(w) \/ LookForColumn(w) \/ AddColumn(w) \/ ColumnIsThere(w) \/ RunIndex(w)
    \/ MakeNullable(w) \/ LookForNull(w) \/ StaysStrict(w) \/ CreateCopy(w) \/ FillCopy(w)
    \/ FillFails(w) \/ DropTable(w) \/ RenameCopy(w) \/ LockTimeout(w) \/ Commit(w)

Next == \E w \in Workers : Start(w) \/ Migrate(w) \/ Kill(w)

Spec == Init /\ [][Next]_vars

-----------------------------------------------------------------------------
(* Properties.                                                             *)

\* The columns and keys that no branch of the script adds to a table that is
\* there already: match_count in SQLite, and in MariaDB the keys that only
\* CREATE TABLE makes.
Skipped(t) ==
    IF engine = "sqlite" THEN {"match_count"} ELSE IF found.columns[t] = {} THEN {} ELSE Keys(t)

\* A worker that serves finds the schema its queries are written for, whatever
\* release the database is of and whoever else is starting or was killed.  A
\* column is NOT NULL still only if its own start failed to change it.
ServesCurrentSchema ==
    \A w \in Workers : worker[w].step = "serves" =>
        /\ base.strict \subseteq left[w]
        /\ \A t \in Tables : Columns(t) \cup Keys(t) \subseteq
                base.columns[t] \cup base.keys[t] \cup (Skipped(t) \ found.keys[t])

\* No start, race or kill loses the rows of a table, or a column or unique key
\* that other workers rely on: a rebuilt table has them again when it is
\* committed.
KeepsAll ==
    /\ base.rows \subseteq base'.rows
    /\ \A t \in Tables : /\ base.columns[t] \subseteq base'.columns[t]
                         /\ base.keys[t] \subseteq base'.keys[t]
NothingLost == [][KeepsAll]_vars

\* The script fails only in a race with another worker: whatever a killed or
\* failed start has left behind, the next one gets past it.
StartsUnlessOvertaken == \A w \in Workers : worker[w].step # "failed"
=============================================================================
