------------------------------ MODULE Backups ------------------------------
(***************************************************************************)
(* Backup and restore of the training hub (core/recovery_backup.py,        *)
(* routes/admin_backups.py) while contributions go on.                     *)
(*                                                                         *)
(* An item is an upload or a training bundle: a file, then a row; an       *)
(* upload also gets an entry in upload_cases.  A backup reads the tables   *)
(* and then copies the two directories; a restore replaces the tables in   *)
(* one transaction and then the directories, one call after the other.     *)
(* Both hold the lock of their process.  Archives are files named by the   *)
(* second, built under the lock and sent after it.                         *)
(***************************************************************************)
EXTENDS FiniteSets, Naturals

CONSTANTS
    Uploads,    \* contributions: files of uploads_dir, rows of uploads
    Bundles,    \* files of bundles_dir, rows of training_runs
    Admins,     \* requests of administrators, threads of one process
    Seconds,    \* names an archive can have
    MaxWork,    \* bound: backups and restores there are
    Nobody

Items == Uploads \cup Bundles
DirOf(i) == IF i \in Uploads THEN "uploads" ELSE "bundles"
In(d) == {i \in Items : DirOf(i) = d}

BackupAssumption == Uploads \cap Bundles = {} /\ Nobody \notin Admins /\ MaxWork \in Nat

VARIABLES
    engine,   \* "sqlite" or "mariadb"
    rows,     \* rows of uploads and training_runs
    entries,  \* uploads with rows in upload_cases
    files,    \* files in their directories
    dirs,     \* which of the two directories exist
    user,     \* user[i]: how far the item's upload, or its erasure, is
    disk,     \* disk[s]: the archive named by second s
    kept,     \* archives that administrators downloaded
    lock,     \* _BACKUP_LOCK
    op,       \* op[a]: step, archive in hand and its name
    work,     \* backups and restores begun
    broken    \* history: items a restore may have left without their file

store == <<rows, entries, files, dirs>>
vars == <<engine, store, user, disk, kept, lock, op, work, broken>>

NoArchive == [rows |-> {}, entries |-> {}, files |-> {}, excused |-> {}, whole |-> FALSE]
Idle == [step |-> "idle", archive |-> NoArchive, name |-> 0]

Step(a, s) == op' = [op EXCEPT ![a].step = s]
With(a, s, ar) == op' = [op EXCEPT ![a].step = s, ![a].archive = ar]
Ends(a) == op' = [op EXCEPT ![a] = Idle] /\ lock' = Nobody

(* From the commit to the last move the tables and directories disagree.   *)
Replacing(a) == op[a].step \in {"remove", "remove bundles", "move", "move bundles"}
Swapping == \E a \in Admins : Replacing(a)
Touched(i) == broken' = IF Swapping THEN broken \cup {i} ELSE broken

-----------------------------------------------------------------------------
(* Contributors: _accept_training_upload, _run_training_pipeline and the   *)
(* erasure of an upload.                                                   *)

WriteFile(i) ==
    /\ user[i] = "new"
    /\ IF DirOf(i) \in dirs
       THEN files' = files \cup {i} /\ user' = [user EXCEPT ![i] = "filed"]
       ELSE files' = files /\ user' = [user EXCEPT ![i] = "failed"]
    /\ Touched(i)
    /\ UNCHANGED <<engine, rows, entries, dirs, disk, kept, lock, op, work>>

InsertRow(i) ==
    /\ user[i] = "filed"
    /\ rows' = rows \cup {i}
    /\ user' = [user EXCEPT ![i] = IF i \in Uploads THEN "inserted" ELSE "stored"]
    /\ Touched(i)
    /\ UNCHANGED <<engine, entries, files, dirs, disk, kept, lock, op, work>>

\* MariaDB refuses an entry of an upload that is gone.
Ingest(i) ==
    /\ user[i] = "inserted"
    /\ entries' = IF engine = "mariadb" /\ i \notin rows THEN entries ELSE entries \cup {i}
    /\ user' = [user EXCEPT ![i] = "stored"]
    /\ Touched(i)
    /\ UNCHANGED <<engine, rows, files, dirs, disk, kept, lock, op, work>>

Erase(i) ==
    /\ user[i] = "stored" /\ i \in rows \cap Uploads
    /\ rows' = rows \ {i} /\ entries' = entries \ {i}
    /\ user' = [user EXCEPT ![i] = "erased"]
    /\ Touched(i)
    /\ UNCHANGED <<engine, files, dirs, disk, kept, lock, op, work>>

Unlink(i) ==
    /\ user[i] = "erased"
    /\ files' = files \ {i}
    /\ user' = [user EXCEPT ![i] = "gone"]
    /\ Touched(i)
    /\ UNCHANGED <<engine, rows, entries, dirs, disk, kept, lock, op, work>>

-----------------------------------------------------------------------------
(* _create_backup_archive and its download.                                *)

\* The name is the second of the request, taken before the lock.
BackupBegin(a) ==
    /\ op[a].step = "idle" /\ work < MaxWork
    /\ work' = work + 1
    /\ \E s \in Seconds : op' = [op EXCEPT ![a] = [Idle EXCEPT !.step = "lock", !.name = s]]
    /\ UNCHANGED <<engine, store, user, disk, kept, lock, broken>>

(* The tables in order, uploads first.  All SELECTs of one MariaDB         *)
(* connection see one snapshot; in SQLite each sees what is committed.     *)
ReadUploads(a) ==
    /\ op[a].step = "lock" /\ lock = Nobody
    /\ lock' = a
    /\ With(a, "more tables",
            [NoArchive EXCEPT !.rows = IF engine = "mariadb" THEN rows ELSE rows \cap Uploads,
                              !.entries = IF engine = "mariadb" THEN entries ELSE {}])
    /\ UNCHANGED <<engine, store, user, disk, kept, work, broken>>

Reread(ar) ==
    IF engine = "mariadb" THEN ar
    ELSE [ar EXCEPT !.rows = @ \cup (rows \cap Bundles), !.entries = entries]

ReadRest(a) ==
    /\ op[a].step = "more tables"
    /\ With(a, "copy", Reread(op[a].archive))
    /\ UNCHANGED <<engine, store, user, disk, kept, lock, work, broken>>

Copied_RowsAgain(ar, d) == [ar EXCEPT !.rows = @ \cup rows, !.files = @ \cup (files \cap In(d))]
Copied(ar, d) ==
    [ar EXCEPT !.files = @ \cup (files \cap In(d)), !.excused = @ \cup (ar.rows \ rows) \cup broken]

CopyUploads(a) ==
    /\ op[a].step = "copy" /\ "uploads" \in dirs
    /\ With(a, "copy bundles", Copied(op[a].archive, "uploads"))
    /\ UNCHANGED <<engine, store, user, disk, kept, lock, work, broken>>

CopyBundles(a) ==
    /\ op[a].step = "copy bundles" /\ "bundles" \in dirs
    /\ With(a, "pack", [Copied(op[a].archive, "bundles") EXCEPT !.whole = TRUE])
    /\ UNCHANGED <<engine, store, user, disk, kept, lock, work, broken>>

\* A file that vanishes while it is copied, a missing directory, a full disk.
BackupFails(a) ==
    /\ op[a].step \in {"more tables", "copy", "copy bundles", "packing"}
    /\ Ends(a)
    /\ UNCHANGED <<engine, store, user, disk, kept, work, broken>>

PackBegins(a) ==
    /\ op[a].step = "pack"
    /\ disk' = [disk EXCEPT ![op[a].name] = [NoArchive EXCEPT !.rows = Items]]
    /\ Step(a, "packing")
    /\ UNCHANGED <<engine, store, user, kept, lock, work, broken>>

Packed(a) ==
    /\ op[a].step = "packing"
    /\ disk' = [disk EXCEPT ![op[a].name] = op[a].archive]
    /\ Step(a, "send") /\ lock' = Nobody
    /\ UNCHANGED <<engine, store, user, kept, work, broken>>

\* What is under the name now: perhaps another archive, or a part of one.
Send(a) ==
    /\ op[a].step = "send"
    /\ kept' = kept \cup ({disk[op[a].name]} \ {NoArchive})
    /\ Step(a, "delete")
    /\ UNCHANGED <<engine, store, user, disk, lock, work, broken>>

DeleteArchive(a) ==
    /\ op[a].step = "delete"
    /\ disk' = [disk EXCEPT ![op[a].name] = NoArchive]
    /\ op' = [op EXCEPT ![a] = Idle]
    /\ UNCHANGED <<engine, store, user, kept, lock, work, broken>>

-----------------------------------------------------------------------------
(* _restore_backup_archive.                                                *)

\* A download that was cut off.
Part(ar) == [ar EXCEPT !.files = {}, !.whole = FALSE]

RestoreBegin(a) ==
    /\ op[a].step = "idle" /\ work < MaxWork
    /\ work' = work + 1
    /\ \E ar \in kept \cup {Part(k) : k \in kept} : With(a, "restore", ar)
    /\ UNCHANGED <<engine, store, user, disk, kept, lock, broken>>

\* The manifest names every file with its hash.
Valid(ar) == ar.whole

Validate(a) ==
    /\ op[a].step = "restore" /\ lock = Nobody
    /\ IF Valid(op[a].archive)
       THEN Step(a, "replace") /\ lock' = a
       ELSE Ends(a)
    /\ UNCHANGED <<engine, store, user, disk, kept, work, broken>>

(* In MariaDB the administrator's own row in external_identities, a table  *)
(* that is not in BACKUP_TABLE_ORDER, refers to users: DELETE FROM users   *)
(* fails, always.  SQLite enforces no references, but may be locked.       *)
RestoreCommits(a) ==
    /\ op[a].step = "replace" /\ engine = "sqlite"
    /\ rows' = op[a].archive.rows /\ entries' = op[a].archive.entries
    /\ broken' = op[a].archive.excused \cup {i \in Items : user[i] \in {"filed", "inserted", "erased"}}
    /\ Step(a, "remove")
    /\ UNCHANGED <<engine, files, dirs, user, disk, kept, lock, work>>

RollsBack_FilesGone(a) ==
    /\ op[a].step = "replace"
    /\ files' = {}
    /\ Ends(a)
    /\ UNCHANGED <<engine, rows, entries, dirs, user, disk, kept, work, broken>>
RollsBack(a) ==
    /\ op[a].step = "replace"
    /\ Ends(a)
    /\ UNCHANGED <<engine, store, user, disk, kept, work, broken>>

Remove(a, from, to, d) ==
    /\ op[a].step = from
    /\ files' = files \ In(d) /\ dirs' = dirs \ {d}
    /\ Step(a, to)
    /\ UNCHANGED <<engine, rows, entries, user, disk, kept, lock, work, broken>>

(* shutil.move into a directory that exists again, because a worker has    *)
(* started meanwhile, puts the files one level too deep.                   *)
Move(a, from, d) ==
    /\ op[a].step = from
    /\ dirs' = dirs \cup {d}
    /\ files' = IF d \in dirs THEN files ELSE files \cup (op[a].archive.files \cap In(d))
    /\ broken' = IF d \in dirs THEN broken \cup In(d) ELSE broken
    /\ IF d = "uploads" THEN Step(a, "move bundles") /\ lock' = lock ELSE Ends(a)
    /\ UNCHANGED <<engine, rows, entries, user, disk, kept, work>>

\* rmtree and copytree stop halfway when a file changes under them.
RestoreFails(a) ==
    /\ Replacing(a)
    /\ \E gone \in SUBSET files :
        /\ op[a].step = "remove" => gone \subseteq Uploads
        /\ op[a].step = "remove bundles" => gone \subseteq Bundles
        /\ op[a].step \notin {"remove", "remove bundles"} => gone = {}
        /\ files' = files \ gone
    /\ broken' = Items
    /\ Ends(a)
    /\ UNCHANGED <<engine, rows, entries, dirs, user, disk, kept, work>>

-----------------------------------------------------------------------------
(* The process.                                                            *)

Kill ==
    /\ \E a \in Admins : op[a] # Idle
    /\ op' = [a \in Admins |-> Idle] /\ lock' = Nobody
    /\ broken' = IF Swapping THEN Items ELSE broken
    /\ UNCHANGED <<engine, store, user, disk, kept, work>>

\* _ensure_storage, when this or another worker starts.
WorkerStarts ==
    /\ dirs # {"uploads", "bundles"}
    /\ dirs' = {"uploads", "bundles"}
    /\ UNCHANGED <<engine, rows, entries, files, user, disk, kept, lock, op, work, broken>>

Init ==
    /\ engine \in {"sqlite", "mariadb"}
    /\ rows = {} /\ entries = {} /\ files = {} /\ dirs = {"uploads", "bundles"}
    /\ user = [i \in Items |-> "new"]
    /\ disk = [s \in Seconds |-> NoArchive] /\ kept = {}
    /\ lock = Nobody /\ op = [a \in Admins |-> Idle] /\ work = 0
    /\ broken = {}

Contribute(i) == WriteFile(i) \/ InsertRow(i) \/ Ingest(i) \/ Erase(i) \/ Unlink(i)
Backup(a) ==
    \/ BackupBegin(a) \/ ReadUploads(a) \/ ReadRest(a) \/ CopyUploads(a)
    \/ CopyBundles(a) \/ BackupFails(a) \/ PackBegins(a) \/ Packed(a) \/ Send(a) \/ DeleteArchive(a)
Restore(a) ==
    \/ RestoreBegin(a) \/ Validate(a) \/ RestoreCommits(a) \/ RollsBack(a)
    \/ Remove(a, "remove", "remove bundles", "uploads")
    \/ Remove(a, "remove bundles", "move", "bundles")
    \/ Move(a, "move", "uploads") \/ Move(a, "move bundles", "bundles") \/ RestoreFails(a)

Next ==
    \/ \E i \in Items : Contribute(i)
    \/ \E a \in Admins : Backup(a) \/ Restore(a)
    \/ Kill \/ WorkerStarts

Spec == Init /\ [][Next]_vars

-----------------------------------------------------------------------------
(* Properties.                                                             *)

\* Tables are read before directories are copied, and an erasure removes the
\* row before the file: an archive lacks the file of a row only if the row was
\* erased meanwhile or a restore had damaged it, and in MariaDB its entries
\* never refer to an upload that is not in it.
ArchiveComplete ==
    \A ar \in kept : ar.whole =>
        /\ ar.rows \ ar.files \subseteq ar.excused
        /\ engine = "mariadb" => ar.entries \subseteq ar.rows

\* A restore that is refused, rolled back or completed leaves every row with
\* its file: only one cut short after its commit, one that overlaps another
\* start of a worker, or the uploads and erasures it overlaps may not.
RowsHaveFiles ==
    \/ Swapping
    \/ rows \subseteq files \cup broken
=============================================================================
