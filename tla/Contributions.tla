--------------------------- MODULE Contributions ---------------------------
(***************************************************************************)
(* The contribution store of the training hub: uploads, the payload files  *)
(* behind them, the per-upload case index (upload_cases) and the training  *)
(* cases built from it, under concurrent uploads, erasures, moderation and *)
(* retention.                                                              *)
(*                                                                         *)
(* Every operation runs in a thread of the web server, on a connection of  *)
(* its own, against MariaDB (the production database): foreign keys and    *)
(* unique keys are enforced, a transaction reads from the snapshot of its  *)
(* first SELECT, and its writes act on the newest committed rows.  One     *)
(* action is one transaction, or the half of one between the snapshot and  *)
(* the writes, or one change of the file system.                           *)
(***************************************************************************)
EXTENDS Naturals, FiniteSetsExt

CONSTANTS
    Users,        \* hub accounts
    Clients,      \* client identities: installations of the mod, without an account
    Payloads,     \* stored payloads, one per SHA-256
    CaseIds,      \* values of caseId
    External,     \* the accounts a row of external_identities, content_scrub_rules
                  \* or access_policies refers to
    Submissions,  \* what scrubbing makes of an upload: <<clean, quarantined>> payloads
    CasesOf,      \* [Payloads -> SUBSET CaseIds]: the cases a payload holds
    RepeatsOf,    \* [Payloads -> SUBSET CaseIds]: the caseIds on two lines of it
    Requests,     \* threads that accept uploads
    Erasers,      \* threads that delete an upload, a contribution or an account
    Nobody,       \* SQL NULL, where an account or a contributor is expected
    Unknown,      \* a client identity that has no row yet
    Nothing,      \* no payload; as a case's content, the erased payload '{}'
    MaxUploads,   \* bound: rows ever inserted into uploads
    MaxInFlight,  \* bound: operations running at the same time
    MaxOvertaken, \* bound: moderators overtaken by other operations at a time
    Retention     \* TRUE iff retention cleanup runs at all

Owners    == Users \cup Clients
UploadIds == 1..MaxUploads
NoUpload  == 0    \* SQL NULL, where an upload id is expected
Verdicts  == {"approved", "rejected"}

ASSUME ConstantsOK ==
    /\ Users \cap Clients = {}
    /\ CasesOf \in [Payloads -> SUBSET CaseIds]
    /\ RepeatsOf \in [Payloads -> SUBSET CaseIds]
    /\ Nobody \notin Owners
    /\ Unknown \notin Users \cup {Nobody}
    /\ Nothing \notin Payloads
    /\ External \subseteq Users
    /\ Submissions \subseteq (Payloads \cup {Nothing}) \X (Payloads \cup {Nothing})
    /\ <<Nothing, Nothing>> \notin Submissions
    /\ MaxUploads \in Nat
    /\ MaxInFlight \in Nat
    /\ MaxOvertaken \in Nat
    /\ Retention \in BOOLEAN
    /\ IsFiniteSet(Requests) /\ IsFiniteSet(Erasers)

VARIABLES
    accounts,     \* the rows of users
    linked,       \* client_identities: the account each client is linked to
    nextId,       \* AUTO_INCREMENT of uploads; ids are never used twice
    live,         \* the ids in uploads
    row,          \* the row each id has, or had
    entries,      \* upload_cases: <<upload id, case id>>
    known,        \* the case ids in training_cases
    case,         \* the row of each known case
    files,        \* payloads with a file in uploads_dir
    quarantine,   \* payloads with a file in quarantine_dir
    req,          \* the state of each upload thread
    era,          \* the state of each erasing thread
    judged        \* <<case, verdict>>: decisions checked and not written yet

dbVars   == <<accounts, linked, nextId, live, row, entries, known, case>>
fileVars == <<files, quarantine>>
vars     == <<dbVars, fileVars, req, era, judged>>

UploadRow ==
    [owner : Owners \cup {Nobody}, sha : Payloads \cup {Nothing},
     status : {"accepted", "quarantined"},
     dupOf : UploadIds \cup {NoUpload}, expired : BOOLEAN,
     ingested : SUBSET CaseIds]   \* history: the cases its own ingest stored

CaseRow ==
    [status : {"submitted", "approved", "rejected"},
     source : UploadIds \cup {NoUpload}, content : Payloads \cup {Nothing},
     creator : Owners \cup {Nobody}, contentDeleted : BOOLEAN]

BlankRow ==
    [owner |-> Nobody, sha |-> Nothing, status |-> "accepted", dupOf |-> NoUpload,
     expired |-> FALSE, ingested |-> {}]

BlankCase ==
    [status |-> "submitted", source |-> NoUpload, content |-> Nothing,
     creator |-> Nobody, contentDeleted |-> FALSE]

Request ==
    [pc : {"idle", "store", "insert", "ingest", "write"}, owner : Owners \cup {Nobody},
     acc : Payloads \cup {Nothing}, sha : Payloads \cup {Nothing},
     dup : UploadIds \cup {NoUpload}, fresh : BOOLEAN, id : UploadIds \cup {NoUpload},
     seen : SUBSET CaseIds, gone : SUBSET CaseIds, mine : SUBSET CaseIds]

Erasure ==
    [pc : {"idle", "read", "commit", "unlink"}, kind : {"upload", "purge", "account"},
     user : Users \cup {Nobody}, only : UploadIds \cup {NoUpload},
     targets : SUBSET UploadIds, affected : SUBSET CaseIds, rows : SUBSET UploadIds,
     old : [UploadIds -> UploadRow], indexed : SUBSET (UploadIds \X CaseIds),
     known : SUBSET CaseIds, paths : SUBSET (Payloads \cup {Nothing})]

NoRows == [u \in UploadIds |-> BlankRow]

NoRequest ==
    [pc |-> "idle", owner |-> Nobody, acc |-> Nothing, sha |-> Nothing,
     dup |-> NoUpload, fresh |-> FALSE, id |-> NoUpload, seen |-> {}, gone |-> {}, mine |-> {}]

NoErasure ==
    [pc |-> "idle", kind |-> "purge", user |-> Nobody, only |-> NoUpload,
     targets |-> {}, affected |-> {}, rows |-> {}, old |-> NoRows, indexed |-> {}, known |-> {},
     paths |-> {}]

-----------------------------------------------------------------------------
(* Reading the tables.                                                     *)

InFlight ==
    Cardinality({r \in Requests : req[r].pc # "idle"})
        + Cardinality({e \in Erasers : era[e].pc # "idle"})
        + Cardinality(judged)

OwnerExists(o) == o \in accounts \/ (o \in Clients /\ linked[o] # Unknown)

\* The uploads an account owns: its own and those of the clients linked to it.
OwnedBy(user, o) == o = user \/ (o \in Clients /\ linked[o] = user)

WithSha(rows, ids, p) == {u \in ids : rows[u].sha = p}
PathsOf(rows, ids)    == {rows[u].sha : u \in {v \in ids : rows[v].status = "accepted"}}
EarliestOf(ids)       == IF ids = {} THEN NoUpload ELSE Min(ids)
StillThere(ids)       == {x \in judged : x[1] \in ids}
Tombstoned(c)         == c \in known /\ case[c].status = "rejected" /\ case[c].contentDeleted

-----------------------------------------------------------------------------
(* Accepting an upload.                                                    *)

\* _write_payload: an existing file is left alone; there may be no payload.
WithFile(dir, p) == IF p = Nothing THEN dir ELSE dir \cup {p}

\* The request has been parsed and scrubbed: acc is the payload of its clean
\* cases, quar that of the quarantined ones.  The quarantine file is written,
\* the duplicate lookups read their snapshot; a repeated upload ends here.
SubmitBegin(r, o, acc, quar) ==
    LET sha     == IF acc # Nothing THEN acc ELSE quar
        sameSha == WithSha(row, live, sha)
    IN  /\ req[r].pc = "idle"
        /\ InFlight < MaxInFlight
        /\ o \in accounts \cup Clients
        /\ quarantine' = WithFile(quarantine, quar)
        /\ IF \E u \in sameSha : row[u].owner = o
           THEN req' = req
           ELSE req' = [req EXCEPT ![r] =
                    [NoRequest EXCEPT !.pc = "store", !.owner = o, !.acc = acc, !.sha = sha,
                                      !.dup = EarliestOf(sameSha),
                                      !.fresh = o \in Clients /\ linked[o] = Unknown]]
        /\ UNCHANGED <<dbVars, files, era, judged>>

\* The accepted payload goes to uploads_dir before its row exists.
SubmitStore(r) ==
    /\ req[r].pc = "store"
    /\ files' = WithFile(files, req[r].acc)
    /\ req' = [req EXCEPT ![r].pc = "insert"]
    /\ UNCHANGED <<dbVars, quarantine, era, judged>>

\* The unique and foreign keys the INSERTs of this transaction must satisfy.
InsertAllowed_NotUnique(r) ==
    LET o == req[r].owner IN
    /\ o \in Users => o \in accounts
    /\ req[r].fresh => linked[o] = Unknown
    /\ req[r].dup \in live \cup {NoUpload}

InsertAllowed(r) ==
    LET o == req[r].owner IN
    /\ o \in Users => o \in accounts
    /\ req[r].fresh => linked[o] = Unknown
    /\ ~\E u \in WithSha(row, live, req[r].sha) : row[u].owner = o
    /\ req[r].dup \in live \cup {NoUpload}

SubmitInsert(r) ==
    LET o == req[r].owner IN
    /\ req[r].pc = "insert"
    /\ nextId \in UploadIds
    /\ InsertAllowed(r)
    /\ nextId' = nextId + 1
    /\ live' = live \cup {nextId}
    /\ row' = [row EXCEPT ![nextId] =
            [owner |-> o, sha |-> req[r].sha,
             status |-> IF req[r].acc # Nothing THEN "accepted" ELSE "quarantined",
             dupOf |-> req[r].dup, expired |-> FALSE, ingested |-> {}]]
    /\ linked' = IF req[r].fresh THEN [linked EXCEPT ![o] = Nobody] ELSE linked
    /\ req' = [req EXCEPT ![r] =
            IF req[r].acc # Nothing THEN [@ EXCEPT !.pc = "ingest", !.id = nextId]
                                    ELSE NoRequest]
    /\ UNCHANGED <<accounts, entries, known, case, fileVars, era, judged>>

SubmitInsertFails(r) ==
    /\ req[r].pc = "insert"
    /\ ~InsertAllowed(r)
    /\ req' = [req EXCEPT ![r] = NoRequest]
    /\ UNCHANGED <<dbVars, fileVars, era, judged>>

\* The second transaction reads which cases exist, which are tombstoned and
\* which are in the upload's index already.
IngestRead(r) ==
    /\ req[r].pc = "ingest"
    /\ req' = [req EXCEPT ![r] =
            [@ EXCEPT !.pc = "write", !.seen = known,
                      !.gone = {c \in known : Tombstoned(c)},
                      !.mine = {c \in CaseIds : <<req[r].id, c>> \in entries}]]
    /\ UNCHANGED <<dbVars, fileVars, era, judged>>

\* The cases to store and, of those, the ones to INSERT, the ones to UPDATE and
\* the ones to add to the index.
ToStore_Tombstoned(r) == CasesOf[req[r].acc]
ToStore(r)  == CasesOf[req[r].acc] \ req[r].gone
ToInsert(r) == ToStore(r) \ req[r].seen
ToUpdate(r) == (ToStore(r) \cap req[r].seen) \cap known
ToIndex(r)  == ToStore(r) \ req[r].mine

\* The unique and foreign keys: the case id, the index entry, the upload, the creator.
IngestAllowed_UploadGone(r) ==
    /\ ToInsert(r) \cap (known \cup RepeatsOf[req[r].acc]) = {}
    /\ ~\E c \in ToIndex(r) : <<req[r].id, c>> \in entries
    /\ ToInsert(r) # {} => OwnerExists(req[r].owner)

IngestAllowed(r) ==
    /\ ToInsert(r) \cup ToUpdate(r) \cup ToIndex(r) # {} => req[r].id \in live
    /\ ToInsert(r) \cap (known \cup RepeatsOf[req[r].acc]) = {}
    /\ ~\E c \in ToIndex(r) : <<req[r].id, c>> \in entries
    /\ ToInsert(r) # {} => OwnerExists(req[r].owner)

\* The row of a stored case; a known one keeps its status and its creator.
IngestedCase_Reopened(r, c) ==
    [status |-> "submitted", source |-> req[r].id, content |-> req[r].acc,
     creator |-> req[r].owner, contentDeleted |-> FALSE]

IngestedCase(r, c) ==
    IF c \in ToInsert(r)
    THEN [status |-> "submitted", source |-> req[r].id, content |-> req[r].acc,
          creator |-> req[r].owner, contentDeleted |-> FALSE]
    ELSE [case[c] EXCEPT !.source = req[r].id, !.content = req[r].acc]

IngestWrite(r) ==
    LET u == req[r].id IN
    /\ req[r].pc = "write"
    /\ IngestAllowed(r)
    /\ entries' = entries \cup ({u} \X ToIndex(r))
    /\ known' = known \cup ToInsert(r)
    /\ case' = [c \in CaseIds |->
            IF c \in ToInsert(r) \cup ToUpdate(r) THEN IngestedCase(r, c) ELSE case[c]]
    /\ row' = [row EXCEPT ![u].ingested = IF u \in live THEN ToStore(r) ELSE {}]
    /\ req' = [req EXCEPT ![r] = NoRequest]
    /\ UNCHANGED <<accounts, linked, nextId, live, fileVars, era, judged>>

IngestFails(r) ==
    /\ req[r].pc = "write"
    /\ ~IngestAllowed(r)
    /\ req' = [req EXCEPT ![r] = NoRequest]
    /\ UNCHANGED <<dbVars, fileVars, era, judged>>

\* The server is killed, or the database or the disk fails, between two steps.
SubmitAborts(r) ==
    /\ req[r].pc # "idle"
    /\ req' = [req EXCEPT ![r] = NoRequest]
    /\ UNCHANGED <<dbVars, fileVars, era, judged>>

-----------------------------------------------------------------------------
(* Erasing an upload, all of a user's contributions, or the account.       *)

\* _backfill_upload_case_index: uploads with no entry at all are indexed again
\* from their file.
Unindexed == {u \in live : row[u].status = "accepted" /\ row[u].sha \in files
                           /\ ~\E c \in CaseIds : <<u, c>> \in entries}
Backfilled_AnyCase == {x \in Unindexed \X CaseIds : x[2] \in known}
Backfilled == {x \in Unindexed \X CaseIds : x[2] \in CasesOf[row[x[1]].sha]}

EraseBegin(e, user, kind, only) ==
    /\ era[e].pc = "idle"
    /\ InFlight < MaxInFlight
    /\ user \in accounts
    /\ only # NoUpload <=> kind = "upload"
    /\ entries' = entries \cup Backfilled
    /\ era' = [era EXCEPT ![e] =
            [NoErasure EXCEPT !.pc = "read", !.kind = kind, !.user = user, !.only = only]]
    /\ UNCHANGED <<accounts, linked, nextId, live, row, known, case, fileVars, req, judged>>

\* The uploads to delete, the user's own and those of linked clients, and the cases that must be rebuilt without them.
TargetsOf_OwnOnly(e) ==
    {u \in live : /\ era[e].user = row[u].owner
                  /\ era[e].kind = "upload" => u = era[e].only}

TargetsOf(e) ==
    {u \in live : /\ OwnedBy(era[e].user, row[u].owner)
                  /\ era[e].kind = "upload" => u = era[e].only}

AffectedBy(e) ==
    {c \in CaseIds :
        \/ \E u \in TargetsOf(e) : <<u, c>> \in entries
        \/ /\ c \in known
           /\ \/ OwnedBy(era[e].user, case[c].creator)
              \/ case[c].source \in TargetsOf(e)}

\* The snapshot of the erasing transaction.
EraseRead(e) ==
    /\ era[e].pc = "read"
    /\ era[e].kind = "upload" => TargetsOf(e) # {}
    /\ era[e].kind = "account" => era[e].user \in accounts
    /\ era' = [era EXCEPT ![e] =
            [@ EXCEPT !.pc = "commit", !.targets = TargetsOf(e), !.affected = AffectedBy(e),
                      !.rows = live, !.old = row, !.indexed = entries, !.known = known]]
    /\ UNCHANGED <<dbVars, fileVars, req, judged>>

\* Upload not found; account missing, last admin, or with an export pending.
EraseRefused(e) ==
    /\ era[e].pc = "read"
    /\ era[e].kind = "account" \/ (era[e].kind = "upload" /\ TargetsOf(e) = {})
    /\ era' = [era EXCEPT ![e] = NoErasure]
    /\ UNCHANGED <<dbVars, fileVars, req, judged>>

\* The transaction sees its snapshot and its own writes: the targets another
\* operation deleted first are still there for it, while an upload inserted
\* since is seen only once its duplicate_of_upload_id has been repointed, and a
\* case only once its source has been set to NULL.
Deleted(e)   == era[e].targets \cap live
Repointed(e) == {v \in live \ era[e].targets : row[v].dupOf \in era[e].targets}
Left(e)      == era[e].rows \ Deleted(e)
SeenCases(e) == era[e].known \cup {c \in known : case[c].source \in era[e].targets}

\* _repoint_duplicate_upload_references: the oldest remaining upload of a payload.
Replacement_AnyPayload(e, p) == EarliestOf(era[e].rows \ era[e].targets)
Replacement(e, p) == EarliestOf(WithSha(era[e].old, era[e].rows \ era[e].targets, p))

\* _collect_unreferenced_upload_paths: files no remaining row is stored under.
Unreferenced_Shared(e) == PathsOf(era[e].old, era[e].targets)
Unreferenced(e) ==
    PathsOf(era[e].old, era[e].targets)
        \ (PathsOf(era[e].old, Left(e)) \cup PathsOf(row, Repointed(e)))

\* The uploads a case can be rebuilt from; it is dropped if there is none.
Remaining(e, c) == {u \in Left(e) : <<u, c>> \in era[e].indexed}
Dropped(e)      == {c \in era[e].affected : Remaining(e, c) = {}}
Rebuilt(e)      == era[e].affected \ Dropped(e)

\* _rebuild_training_cases: the case as its remaining uploads tell it.
RebuiltCase_Oldest(e, c) ==
    LET first == Min(Remaining(e, c)) IN
    [status |-> "submitted", source |-> first, content |-> era[e].old[first].sha,
     creator |-> era[e].old[first].owner,
     contentDeleted |-> c \in known /\ case[c].contentDeleted]

RebuiltCase(e, c) ==
    LET last == Max(Remaining(e, c)) IN
    [status |-> "submitted", source |-> last, content |-> era[e].old[last].sha,
     creator |-> era[e].old[Min(Remaining(e, c))].owner,
     contentDeleted |-> c \in known /\ case[c].contentDeleted]

\* training_cases after the erasure: dropped, rebuilt (UPDATE of a row it sees,
\* INSERT of one it does not), or only cut from a deleted upload.
KnownAfter(e) == (known \ Dropped(e)) \cup (Rebuilt(e) \ SeenCases(e))

CaseAfter(e, c) ==
    CASE c \notin KnownAfter(e) -> BlankCase
      [] c \in KnownAfter(e) \cap Rebuilt(e) -> RebuiltCase(e, c)
      [] c \in KnownAfter(e) \ Rebuilt(e) /\ case[c].source \in era[e].targets ->
            [case[c] EXCEPT !.source = NoUpload]
      [] OTHER -> case[c]

LinkedAfter(e) ==
    IF era[e].kind = "account"
    THEN [k \in Clients |-> IF linked[k] = era[e].user THEN Nobody ELSE linked[k]]
    ELSE linked

\* The unique and foreign keys the erasing transaction must satisfy.
EraseAllowed(e) ==
    LET kept == live \ era[e].targets IN
    /\ \A v \in live : row[v].dupOf \in era[e].targets
            => Replacement(e, era[e].old[row[v].dupOf].sha) \in live \cup {NoUpload}
    /\ (Rebuilt(e) \ SeenCases(e)) \cap known = {}
    /\ \A c \in Rebuilt(e) \cap KnownAfter(e) :
            /\ RebuiltCase(e, c).source \in kept
            /\ OwnerExists(RebuiltCase(e, c).creator)
    /\ era[e].kind = "account" =>
            /\ era[e].user \notin External
            /\ \A u \in kept : row[u].owner # era[e].user
            /\ \A c \in KnownAfter(e) : CaseAfter(e, c).creator # era[e].user

EraseCommit(e) ==
    LET targets == era[e].targets IN
    /\ era[e].pc = "commit"
    /\ EraseAllowed(e)
    /\ case' = [c \in CaseIds |-> CaseAfter(e, c)]
    /\ known' = KnownAfter(e)
    /\ row' = [v \in UploadIds |->
            CASE v \in targets -> BlankRow
              [] v \in live \ targets /\ row[v].dupOf \in targets ->
                    [row[v] EXCEPT !.dupOf = Replacement(e, era[e].old[row[v].dupOf].sha)]
              [] OTHER -> row[v]]
    /\ entries' = {x \in entries : x[1] \notin targets}
    /\ live' = live \ targets
    /\ accounts' = IF era[e].kind = "account" THEN accounts \ {era[e].user} ELSE accounts
    /\ linked' = LinkedAfter(e)
    /\ era' = [era EXCEPT ![e] = [@ EXCEPT !.pc = "unlink", !.paths = Unreferenced(e)]]
    /\ judged' = StillThere(KnownAfter(e))
    /\ UNCHANGED <<nextId, fileVars, req>>

\* An integrity error rolls everything back; the caller answers 500.
EraseRollback(e) ==
    /\ era[e].pc = "commit"
    /\ ~EraseAllowed(e)
    /\ era' = [era EXCEPT ![e] = NoErasure]
    /\ UNCHANGED <<dbVars, fileVars, req, judged>>

\* _delete_paths, after the commit.
EraseUnlink(e) ==
    /\ era[e].pc = "unlink"
    /\ files' = files \ era[e].paths
    /\ era' = [era EXCEPT ![e] = NoErasure]
    /\ UNCHANGED <<dbVars, quarantine, req, judged>>

EraseAborts(e) ==
    /\ era[e].pc # "idle"
    /\ era' = [era EXCEPT ![e] = NoErasure]
    /\ UNCHANGED <<dbVars, fileVars, req, judged>>

-----------------------------------------------------------------------------
(* Client links, moderation and retention: one transaction each.           *)

LinkClient(k, user) ==
    /\ InFlight < MaxInFlight
    /\ user \in accounts
    /\ linked[k] = Nobody
    /\ linked' = [linked EXCEPT ![k] = user]
    /\ UNCHANGED <<accounts, nextId, live, row, entries, known, case, fileVars, req, era, judged>>

UnlinkClient(k) ==
    /\ InFlight < MaxInFlight
    /\ linked[k] \in accounts
    /\ linked' = [linked EXCEPT ![k] = Nobody]
    /\ UNCHANGED <<accounts, nextId, live, row, entries, known, case, fileVars, req, era, judged>>

\* Only submitted cases can be approved or rejected: here nothing comes between
\* the SELECT that checks it and the UPDATE.
DecideCase(c, verdict) ==
    /\ InFlight < MaxInFlight
    /\ c \in known
    /\ case[c].status = "submitted"
    /\ case' = [case EXCEPT ![c].status = verdict]
    /\ UNCHANGED <<accounts, linked, nextId, live, row, entries, known, fileVars, req, era, judged>>

\* Here other operations do.  The UPDATE names the row by its id alone: it writes
\* over whatever became of the case, and nothing once the row has been deleted,
\* since a later row of that case has another id.
DecideRead(c, verdict) ==
    /\ InFlight < MaxInFlight
    /\ Cardinality(judged) < MaxOvertaken
    /\ c \in known
    /\ case[c].status = "submitted"
    /\ judged' = judged \cup {<<c, verdict>>}
    /\ UNCHANGED <<dbVars, fileVars, req, era>>

DecideWrite(c, verdict) ==
    /\ <<c, verdict>> \in judged
    /\ case' = [case EXCEPT ![c].status = verdict]
    /\ judged' = judged \ {<<c, verdict>>}
    /\ UNCHANGED <<accounts, linked, nextId, live, row, entries, known, fileVars, req, era>>

\* The row goes; the index entries of its uploads stay.
DeleteCase(c) ==
    /\ InFlight < MaxInFlight
    /\ c \in known
    /\ known' = known \ {c}
    /\ case' = [case EXCEPT ![c] = BlankCase]
    /\ judged' = StillThere(known')
    /\ UNCHANGED <<accounts, linked, nextId, live, row, entries, fileVars, req, era>>

\* The row stays, without its payload, its creator and its source.
Tombstone(c) ==
    [status |-> case[c].status, source |-> NoUpload, content |-> Nothing,
     creator |-> Nobody, contentDeleted |-> TRUE]

DeleteRejectedContent ==
    LET doomed == {c \in known : case[c].status = "rejected" /\ ~case[c].contentDeleted} IN
    /\ InFlight < MaxInFlight
    /\ doomed # {}
    /\ case' = [c \in CaseIds |-> IF c \in doomed THEN Tombstone(c) ELSE case[c]]
    /\ entries' = {x \in entries : x[2] \notin doomed}
    /\ row' = [u \in UploadIds |-> [row[u] EXCEPT !.ingested = @ \ doomed]]
    /\ UNCHANGED <<accounts, linked, nextId, live, known, fileVars, req, era, judged>>

\* Time passes: an upload falls behind the retention window, oldest first.
Expire(u) ==
    /\ Retention
    /\ u \in live
    /\ ~row[u].expired
    /\ \A v \in live : v < u => row[v].expired
    /\ row' = [row EXCEPT ![u].expired = TRUE]
    /\ UNCHANGED <<accounts, linked, nextId, live, entries, known, case, fileVars, req, era, judged>>

Expired == {u \in live : row[u].expired}

\* DELETE of an expired upload fails while a row still refers to it; the older
\* expired uploads are gone by then.
Undeletable ==
    {u \in Expired :
        \/ \E c \in CaseIds : <<u, c>> \in entries
        \/ \E v \in live \ {u} : row[v].dupOf = u /\ ~(v \in Expired /\ v < u)}

\* Each expired upload's file is unlinked before its row is deleted.  The first
\* row that cannot be deleted ends the run: its own and all earlier files are
\* gone, and the transaction is rolled back.
RetentionCleanup ==
    /\ InFlight < MaxInFlight
    /\ Retention
    /\ Expired # {}
    /\ IF Undeletable = {}
       THEN /\ files' = files \ PathsOf(row, Expired)
            /\ live' = live \ Expired
            /\ row' = [u \in UploadIds |-> IF u \in Expired THEN BlankRow ELSE row[u]]
            /\ case' = [c \in CaseIds |->
                    IF c \in known /\ case[c].source \in Expired
                    THEN [case[c] EXCEPT !.source = NoUpload] ELSE case[c]]
       ELSE /\ files' = files \ PathsOf(row, {u \in Expired : u <= Min(Undeletable)})
            /\ UNCHANGED <<live, row, case>>
    /\ UNCHANGED <<accounts, linked, nextId, entries, known, quarantine, req, era, judged>>

-----------------------------------------------------------------------------

Init ==
    /\ accounts = Users
    /\ linked = [k \in Clients |-> Unknown]
    /\ nextId = 1
    /\ live = {}
    /\ row = NoRows
    /\ entries = {}
    /\ known = {}
    /\ case = [c \in CaseIds |-> BlankCase]
    /\ files = {}
    /\ quarantine = {}
    /\ req = [r \in Requests |-> NoRequest]
    /\ era = [e \in Erasers |-> NoErasure]
    /\ judged = {}

Submit(r) ==
    \/ \E o \in Owners, s \in Submissions : SubmitBegin(r, o, s[1], s[2])
    \/ SubmitStore(r)
    \/ SubmitInsert(r)
    \/ SubmitInsertFails(r)
    \/ IngestRead(r)
    \/ IngestWrite(r)
    \/ IngestFails(r)
    \/ SubmitAborts(r)

Erase(e) ==
    \/ \E user \in Users, kind \in {"upload", "purge", "account"}, only \in UploadIds \cup {NoUpload} :
            EraseBegin(e, user, kind, only)
    \/ EraseRead(e)
    \/ EraseRefused(e)
    \/ EraseCommit(e)
    \/ EraseRollback(e)
    \/ EraseUnlink(e)
    \/ EraseAborts(e)

Next ==
    \/ \E r \in Requests : Submit(r)
    \/ \E e \in Erasers : Erase(e)
    \/ \E k \in Clients, user \in Users : LinkClient(k, user)
    \/ \E k \in Clients : UnlinkClient(k)
    \/ \E c \in CaseIds, verdict \in Verdicts : DecideCase(c, verdict)
    \/ \E c \in CaseIds, verdict \in Verdicts : DecideRead(c, verdict)
    \/ \E c \in CaseIds, verdict \in Verdicts : DecideWrite(c, verdict)
    \/ \E c \in CaseIds : DeleteCase(c)
    \/ DeleteRejectedContent
    \/ \E u \in UploadIds : Expire(u)
    \/ RetentionCleanup

Spec == Init /\ [][Next]_vars
-----------------------------------------------------------------------------
(* Properties.                                                             *)

TypeOK ==
    /\ accounts \subseteq Users
    /\ linked \in [Clients -> Users \cup {Nobody, Unknown}]
    /\ nextId \in 1..(MaxUploads + 1)
    /\ live \subseteq UploadIds
    /\ row \in [UploadIds -> UploadRow]
    /\ entries \subseteq UploadIds \X CaseIds
    /\ known \subseteq CaseIds
    /\ case \in [CaseIds -> CaseRow]
    /\ files \subseteq Payloads
    /\ quarantine \subseteq Payloads
    /\ req \in [Requests -> Request]
    /\ era \in [Erasers -> Erasure]
    /\ judged \subseteq CaseIds \X Verdicts

\* Every id a row stores belongs to a row that exists.
NoDanglingReference ==
    /\ \A u \in live : OwnerExists(row[u].owner) /\ row[u].dupOf \in live \cup {NoUpload}
    /\ \A x \in entries : x[1] \in live
    /\ \A c \in known :
            /\ case[c].source \in live \cup {NoUpload}
            /\ case[c].creator = Nobody \/ OwnerExists(case[c].creator)
    /\ \A k \in Clients : linked[k] \in accounts \cup {Nobody, Unknown}

\* The index of an upload lists cases of its payload, and quarantined payloads
\* are never indexed.
IndexMatchesPayload ==
    \A x \in entries : row[x[1]].status = "accepted" /\ x[2] \in CasesOf[row[x[1]].sha]

\* A duplicate points at the same payload, and never at a later upload.
DuplicateSound ==
    \A u \in live : row[u].dupOf # NoUpload
        => row[row[u].dupOf].sha = row[u].sha /\ row[u].dupOf <= u

\* Nobody owns the same payload twice.
OneUploadPerOwner ==
    \A u, v \in live : row[u].owner = row[v].owner /\ row[u].sha = row[v].sha => u = v

\* A payload about to be unlinked is not one that an upload the erasure saw,
\* and that is still there, was stored under.
SharedFileKept ==
    \A e \in Erasers : era[e].pc = "unlink" =>
        PathsOf(row, live \cap era[e].rows) \cap era[e].paths = {}

\* Only an erasure reopens a decided case.
OnlyErasureReopens ==
    [][\A c \in known \cap known' :
            case[c].status # "submitted" /\ case'[c].status = "submitted"
            => \E e \in Erasers : EraseCommit(e)]_vars

\* What is stored for a case is the content of one of the uploads indexing it.
ContentHasUpload ==
    \A c \in known : case[c].content # Nothing =>
        \E u \in live : <<u, c>> \in entries /\ row[u].sha = case[c].content

\* It was taken from the newest of the uploads that brought the case.
NewestVersionWins ==
    /\ ContentHasUpload
    /\ \A c \in known : case[c].source # NoUpload =>
          /\ <<case[c].source, c>> \in entries
          /\ \A u \in live : c \in row[u].ingested => u <= case[c].source

\* Every upload's payload is on disk.
StoredPathExists ==
    \A u \in live : row[u].sha \in IF row[u].status = "accepted" THEN files ELSE quarantine

\* An upload never brings back the erased content of a rejected case.
TombstoneHonoured ==
    [][\A r \in Requests : IngestWrite(r) =>
            \A c \in CaseIds : Tombstoned(c) => case'[c] = case[c]]_vars

\* When an erasure has committed, nothing of the user is left in the tables.
ErasureComplete ==
    \A e \in Erasers : era[e].pc = "unlink" /\ era[e].kind # "upload" =>
        /\ \A u \in live : ~OwnedBy(era[e].user, row[u].owner)
        /\ \A c \in known : ~OwnedBy(era[e].user, case[c].creator)

\* Erasures take all that is the user's, and no file that an upload needs.
ErasureExact == ErasureComplete /\ StoredPathExists

\* Deleting an account that passes the checks deletes it.
AccountDeletionSucceeds ==
    [][\A e \in Erasers :
            era[e].kind = "account" /\ (EraseCommit(e) \/ EraseRollback(e))
            => era[e].user \notin accounts']_vars

\* A retention run leaves no upload behind the window.
RetentionPrunes ==
    [][RetentionCleanup => \A u \in live' : ~row[u].expired]_vars
=============================================================================
