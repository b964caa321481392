----------------------- MODULE Contributions_proofs -----------------------
(***************************************************************************)
(* Theorems about Contributions, for every set of accounts, clients,       *)
(* payloads and cases, any number of threads and any bound.                *)
(***************************************************************************)
EXTENDS Contributions, FiniteSetsExt, FiniteSetTheorems, WellFoundedInduction, TLAPS

-----------------------------------------------------------------------------
(* A nonempty set of naturals has a least element. *)
LEMMA MinExists ==
    ASSUME NEW S \in SUBSET Nat, S # {}
    PROVE  Min(S) \in S /\ \A y \in S : Min(S) <= y
<1> DEFINE Less == {ss \in Nat \X Nat : ss[1] < ss[2]}
<1>1. IsWellFoundedOn(Less, Nat)
  BY NatLessThanWellFounded DEF OpToRel
<1>2. PICK x \in S : \A y \in S : <<y, x>> \notin Less
  <2> HIDE DEF Less
  <2> QED BY <1>1, WFMin
<1>3. ASSUME NEW y \in S PROVE x <= y
  <2>1. <<y, x>> \in Nat \X Nat /\ <<y, x>> \notin Less
    BY <1>2
  <2>2. ~(y < x)
    BY <2>1
  <2> QED BY <2>2
<1>4. QED BY <1>3 DEF Min

(* A nonempty finite set of upload ids has a greatest element.             *)
LEMMA MaxExists ==
    ASSUME NEW n \in Nat, NEW S \in SUBSET 1..n, S # {}
    PROVE  Max(S) \in S /\ \A y \in S : y <= Max(S)
<1> DEFINE T == {k \in 0..n : n - k \in S}
<1>1. ASSUME NEW y \in S PROVE n - y \in T
  <2>1. y \in 1..n /\ n - y \in 0..n /\ n - (n - y) = y
    OBVIOUS
  <2> QED BY <2>1
<1>2. T \in SUBSET Nat /\ T # {}
  <2>1. PICK y \in S : TRUE
    OBVIOUS
  <2>2. T # {}
    BY <1>1, <2>1
  <2> QED BY <2>2
<1>3. PICK m \in T : \A y \in T : m <= y
  <2> HIDE DEF T
  <2> QED BY <1>2, MinExists
<1>4. n - m \in S /\ \A y \in S : n - m >= y
  <2>1. n - m \in S /\ m \in 0..n
    BY <1>3
  <2>2. ASSUME NEW y \in S PROVE n - m >= y
    <3>1. y \in 1..n /\ m <= n - y
      BY <1>1, <1>3
    <3> QED BY <3>1, <2>1
  <2> QED BY <2>1, <2>2
<1>5. QED BY <1>4 DEF Max

(* The earliest upload of a set is one of them, or none if there is none. *)
LEMMA EarliestType ==
    ASSUME NEW ids \in SUBSET UploadIds
    PROVE  /\ EarliestOf(ids) \in ids \cup {NoUpload}
           /\ \A u \in ids : EarliestOf(ids) \in ids /\ EarliestOf(ids) <= u
<1>1. CASE ids = {}
  BY <1>1 DEF EarliestOf
<1>2. CASE ids # {}
  <2>1. ids \in SUBSET Nat
    BY DEF UploadIds
  <2>2. EarliestOf(ids) = Min(ids)
    BY <1>2 DEF EarliestOf
  <2> QED BY <1>2, <2>1, <2>2, MinExists
<1>3. QED BY <1>1, <1>2

-----------------------------------------------------------------------------
(* Type correctness.                                                       *)

(* What TypeOK needs to be inductive: a running request has an owner and a *)
(* payload, and one that reached its second transaction has its upload.    *)
RequestOK ==
    \A r \in Requests :
        /\ req[r].pc # "idle" => req[r].owner \in Owners /\ req[r].sha \in Payloads
        /\ req[r].pc \in {"ingest", "write"} => req[r].acc \in Payloads /\ req[r].id \in UploadIds

TypeInv == TypeOK /\ RequestOK

(* The blank records have their types. *)
LEMMA BlankTypes ==
    /\ BlankRow \in UploadRow
    /\ BlankCase \in CaseRow
    /\ NoRows \in [UploadIds -> UploadRow]
    /\ NoRequest \in Request
    /\ NoErasure \in Erasure
<1>1. BlankRow \in UploadRow
  BY DEF BlankRow, UploadRow
<1>2. NoRows \in [UploadIds -> UploadRow]
  BY <1>1 DEF NoRows
<1>3. BlankCase \in CaseRow
  BY DEF BlankCase, CaseRow
<1>4. NoRequest \in Request
  BY DEF NoRequest, Request
<1>5. NoErasure \in Erasure
  BY <1>2 DEF NoErasure, Erasure
<1>6. QED BY <1>1, <1>2, <1>3, <1>4, <1>5

(* Empty tables and idle threads are well typed.                           *)
LEMMA InitType == Init => TypeInv
<1> SUFFICES ASSUME Init PROVE TypeInv
  OBVIOUS
<1> USE BlankTypes
<1>1. nextId \in 1..(MaxUploads + 1)
  BY ConstantsOK DEF Init
<1>2. TypeOK
  BY <1>1 DEF Init, TypeOK
<1>3. RequestOK
  BY DEF Init, RequestOK, NoRequest
<1>4. QED BY <1>2, <1>3 DEF TypeInv

(* One step of an upload keeps the types. *)
LEMMA SubmitType ==
    ASSUME TypeInv, NEW r \in Requests, Submit(r)
    PROVE  TypeInv'
<1> USE BlankTypes
<1>0. TypeOK /\ RequestOK
  BY DEF TypeInv
<1>1. ASSUME NEW o \in Owners, NEW s \in Submissions, SubmitBegin(r, o, s[1], s[2])
      PROVE  TypeInv'
  <2> DEFINE acc == s[1]
             quar == s[2]
             sha == IF acc # Nothing THEN acc ELSE quar
             ids == WithSha(row, live, sha)
  <2>1. acc \in Payloads \cup {Nothing} /\ quar \in Payloads \cup {Nothing} /\ sha \in Payloads
    BY ConstantsOK
  <2>2. ids \subseteq UploadIds /\ EarliestOf(ids) \in UploadIds \cup {NoUpload}
    <3>1. ids \in SUBSET UploadIds
      BY <1>0 DEF WithSha, TypeOK
    <3> QED BY <3>1, EarliestType
  <2> DEFINE new == [NoRequest EXCEPT !.pc = "store", !.owner = o, !.acc = acc, !.sha = sha,
                                      !.dup = EarliestOf(ids),
                                      !.fresh = o \in Clients /\ linked[o] = Unknown]
  <2>3. new \in Request /\ new.owner \in Owners /\ new.sha \in Payloads /\ new.pc = "store"
    <3> HIDE DEF ids, sha, acc
    <3> QED BY <2>1, <2>2 DEF Request, NoRequest
  <2>4. req' = req \/ req' = [req EXCEPT ![r] = new]
    BY <1>1 DEF SubmitBegin
  <2>5. quarantine' \subseteq Payloads
    BY <1>0, <1>1, <2>1 DEF SubmitBegin, WithFile, TypeOK
  <2> HIDE DEF new
  <2>6. req' \in [Requests -> Request]
    BY <1>0, <2>3, <2>4 DEF TypeOK
  <2>7. TypeOK'
    BY <1>0, <1>1, <2>5, <2>6 DEF SubmitBegin, TypeOK, dbVars
  <2>8. RequestOK'
    BY <1>0, <2>3, <2>4 DEF RequestOK, TypeOK
  <2> QED BY <2>7, <2>8 DEF TypeInv
<1>2. CASE SubmitStore(r)
  <2>1. req' \in [Requests -> Request] /\ files' \subseteq Payloads
    BY <1>0, <1>2 DEF SubmitStore, TypeOK, Request, WithFile
  <2>2. TypeOK'
    BY <1>0, <1>2, <2>1 DEF SubmitStore, TypeOK, dbVars
  <2>3. RequestOK'
    BY <1>0, <1>2 DEF SubmitStore, RequestOK, TypeOK, Request
  <2> QED BY <2>2, <2>3 DEF TypeInv
<1>3. CASE SubmitInsert(r)
  <2> DEFINE o == req[r].owner
             new == [owner |-> o, sha |-> req[r].sha,
                     status |-> IF req[r].acc # Nothing THEN "accepted" ELSE "quarantined",
                     dupOf |-> req[r].dup, expired |-> FALSE, ingested |-> {}]
             next == IF req[r].acc # Nothing
                     THEN [req[r] EXCEPT !.pc = "ingest", !.id = nextId] ELSE NoRequest
  <2>1. req[r] \in Request /\ o \in Owners /\ nextId \in UploadIds
    BY <1>0, <1>3 DEF SubmitInsert, TypeOK, RequestOK
  <2>2. new \in UploadRow
    BY <2>1 DEF Request, UploadRow
  <2>3. next \in Request
    BY <2>1 DEF Request
  <2>4. row' = [row EXCEPT ![nextId] = new] /\ req' = [req EXCEPT ![r] = next]
    BY <1>3 DEF SubmitInsert
  <2>5. next.pc = "idle" \/ (next.pc = "ingest" /\ next.acc \in Payloads /\ next.id \in UploadIds
                             /\ next.owner \in Owners /\ next.sha \in Payloads)
    BY <1>0, <1>3, <2>1 DEF SubmitInsert, Request, NoRequest, RequestOK
  <2> HIDE DEF new, next
  <2>6. row' \in [UploadIds -> UploadRow] /\ req' \in [Requests -> Request]
    BY <1>0, <2>2, <2>3, <2>4 DEF TypeOK
  <2>7. nextId' \in 1..(MaxUploads + 1) /\ live' \subseteq UploadIds
    BY <1>0, <1>3, <2>1, ConstantsOK DEF SubmitInsert, TypeOK, UploadIds
  <2>8. linked' \in [Clients -> Users \cup {Nobody, Unknown}]
    BY <1>0, <1>3 DEF SubmitInsert, TypeOK
  <2>9. TypeOK'
    BY <1>0, <1>3, <2>6, <2>7, <2>8 DEF SubmitInsert, TypeOK, fileVars
  <2>10. RequestOK'
    BY <1>0, <2>4, <2>5 DEF RequestOK, TypeOK
  <2> QED BY <2>9, <2>10 DEF TypeInv
<1>4. CASE SubmitInsertFails(r) \/ IngestFails(r) \/ SubmitAborts(r)
  <2>1. req' = [req EXCEPT ![r] = NoRequest] /\ UNCHANGED <<dbVars, fileVars, era, judged>>
    BY <1>4 DEF SubmitInsertFails, IngestFails, SubmitAborts
  <2>2. TypeOK'
    BY <1>0, <2>1 DEF TypeOK, dbVars, fileVars
  <2>3. RequestOK'
    BY <1>0, <2>1 DEF RequestOK, TypeOK, NoRequest
  <2> QED BY <2>2, <2>3 DEF TypeInv
<1>5. CASE IngestRead(r)
  <2> DEFINE new == [req[r] EXCEPT !.pc = "write", !.seen = known,
                                   !.gone = {c \in known : Tombstoned(c)},
                                   !.mine = {c \in CaseIds : <<req[r].id, c>> \in entries}]
  <2>1. new \in Request /\ new.owner = req[r].owner /\ new.sha = req[r].sha
        /\ new.acc = req[r].acc /\ new.id = req[r].id
    BY <1>0 DEF TypeOK, Request
  <2>2. req' = [req EXCEPT ![r] = new] /\ UNCHANGED <<dbVars, fileVars, era, judged>>
    BY <1>5 DEF IngestRead
  <2>3. req[r].pc = "ingest"
    BY <1>5 DEF IngestRead
  <2> HIDE DEF new
  <2>4. TypeOK'
    BY <1>0, <2>1, <2>2 DEF TypeOK, dbVars, fileVars
  <2>5. RequestOK'
    BY <1>0, <2>1, <2>2, <2>3 DEF RequestOK, TypeOK
  <2> QED BY <2>4, <2>5 DEF TypeInv
<1>6. CASE IngestWrite(r)
  <2>1. req[r] \in Request /\ req[r].acc \in Payloads /\ req[r].id \in UploadIds
        /\ req[r].owner \in Owners
    BY <1>0, <1>6 DEF IngestWrite, TypeOK, RequestOK
  <2>2. ToStore(r) \subseteq CaseIds
    BY <2>1, ConstantsOK DEF ToStore
  <2>3. ToInsert(r) \subseteq CaseIds /\ ToIndex(r) \subseteq CaseIds
    BY <2>2 DEF ToInsert, ToIndex
  <2>4. entries' \subseteq UploadIds \X CaseIds /\ known' \subseteq CaseIds
    BY <1>0, <1>6, <2>1, <2>3 DEF IngestWrite, TypeOK
  <2>5. ASSUME NEW c \in CaseIds PROVE IngestedCase(r, c) \in CaseRow
    BY <1>0, <2>1 DEF IngestedCase, CaseRow, TypeOK
  <2>6. case' \in [CaseIds -> CaseRow]
    BY <1>0, <1>6, <2>5 DEF IngestWrite, TypeOK
  <2>7. row' \in [UploadIds -> UploadRow]
    BY <1>0, <1>6, <2>1, <2>2 DEF IngestWrite, TypeOK, UploadRow
  <2>8. req' = [req EXCEPT ![r] = NoRequest]
    BY <1>6 DEF IngestWrite
  <2>9. TypeOK'
    BY <1>0, <1>6, <2>4, <2>6, <2>7, <2>8 DEF IngestWrite, TypeOK, fileVars
  <2>10. RequestOK'
    BY <1>0, <2>8 DEF RequestOK, TypeOK, NoRequest
  <2> QED BY <2>9, <2>10 DEF TypeInv
<1>7. QED BY <1>1, <1>2, <1>3, <1>4, <1>5, <1>6 DEF Submit

(* What the erasing transaction reads or computes has its type. *)
LEMMA ErasureOperatorTypes ==
    ASSUME TypeOK, NEW e \in Erasers
    PROVE  /\ TargetsOf(e) \subseteq UploadIds
           /\ AffectedBy(e) \subseteq CaseIds
           /\ Unreferenced(e) \subseteq Payloads \cup {Nothing}
           /\ KnownAfter(e) \subseteq CaseIds
           /\ \A p : Replacement(e, p) \in UploadIds \cup {NoUpload}
           /\ \A c \in Rebuilt(e) : RebuiltCase(e, c) \in CaseRow
           /\ \A c \in CaseIds : CaseAfter(e, c) \in CaseRow
<1> USE BlankTypes
<1>0. era[e] \in Erasure
  BY DEF TypeOK
<1>1. TargetsOf(e) \subseteq UploadIds /\ AffectedBy(e) \subseteq CaseIds
  BY DEF TargetsOf, AffectedBy, TypeOK
<1>2. Unreferenced(e) \subseteq Payloads \cup {Nothing}
  <2>1. \A u \in era[e].targets : era[e].old[u].sha \in Payloads \cup {Nothing}
    BY <1>0 DEF Erasure, UploadRow
  <2>2. PathsOf(era[e].old, era[e].targets) \subseteq Payloads \cup {Nothing}
    BY <2>1 DEF PathsOf
  <2> QED BY <2>2 DEF Unreferenced
<1>3. KnownAfter(e) \subseteq CaseIds
  BY <1>0 DEF KnownAfter, Rebuilt, TypeOK, Erasure
<1>4. \A p : Replacement(e, p) \in UploadIds \cup {NoUpload}
  <2> TAKE p
  <2> DEFINE ids == WithSha(era[e].old, era[e].rows \ era[e].targets, p)
  <2>1. ids \in SUBSET UploadIds
    BY <1>0 DEF WithSha, Erasure
  <2>2. EarliestOf(ids) \in UploadIds \cup {NoUpload}
    <3> HIDE DEF ids
    <3> QED BY <2>1, EarliestType
  <2> QED BY <2>2 DEF Replacement
<1>5. ASSUME NEW c \in Rebuilt(e) PROVE RebuiltCase(e, c) \in CaseRow
  <2> DEFINE S == Remaining(e, c)
  <2>1. S \in SUBSET (1..MaxUploads) /\ S # {}
    BY <1>0, <1>5 DEF Remaining, Left, Rebuilt, Dropped, Erasure, UploadIds
  <2>2. S \in SUBSET Nat
    BY <2>1
  <2> HIDE DEF S
  <2>3. Min(S) \in UploadIds /\ Max(S) \in UploadIds
    BY <2>1, <2>2, MinExists, MaxExists, ConstantsOK DEF UploadIds
  <2>4. era[e].old[Min(S)] \in UploadRow /\ era[e].old[Max(S)] \in UploadRow
    BY <1>0, <2>3 DEF Erasure
  <2>5. c \in known => case[c].contentDeleted \in BOOLEAN
    BY DEF TypeOK, CaseRow
  <2> QED BY <2>3, <2>4, <2>5 DEF RebuiltCase, CaseRow, UploadRow, S
<1>6. ASSUME NEW c \in CaseIds PROVE CaseAfter(e, c) \in CaseRow
  <2>1. case[c] \in CaseRow
    BY DEF TypeOK
  <2>2. [case[c] EXCEPT !.source = NoUpload] \in CaseRow
    BY <2>1 DEF CaseRow
  <2> QED BY <1>5, <2>1, <2>2 DEF CaseAfter
<1>7. QED BY <1>1, <1>2, <1>3, <1>4, <1>5, <1>6

(* One step of an erasure keeps the types. *)
LEMMA EraseType ==
    ASSUME TypeInv, NEW e \in Erasers, Erase(e)
    PROVE  TypeInv'
<1> USE BlankTypes
<1>0. TypeOK /\ RequestOK /\ era[e] \in Erasure
  BY DEF TypeInv, TypeOK
<1>1. ASSUME NEW user \in Users, NEW kind \in {"upload", "purge", "account"},
             NEW only \in UploadIds \cup {NoUpload}, EraseBegin(e, user, kind, only)
      PROVE  TypeInv'
  <2> DEFINE new == [NoErasure EXCEPT !.pc = "read", !.kind = kind, !.user = user, !.only = only]
  <2>1. new \in Erasure
    BY DEF Erasure
  <2>2. era' = [era EXCEPT ![e] = new]
    BY <1>1 DEF EraseBegin
  <2> HIDE DEF new
  <2>3. entries' \subseteq UploadIds \X CaseIds
    BY <1>0, <1>1 DEF EraseBegin, Backfilled, Unindexed, TypeOK
  <2> QED BY <1>0, <1>1, <2>1, <2>2, <2>3 DEF EraseBegin, TypeInv, TypeOK, RequestOK, fileVars
<1>2. CASE EraseRead(e)
  <2> DEFINE new == [era[e] EXCEPT !.pc = "commit", !.targets = TargetsOf(e),
                                   !.affected = AffectedBy(e), !.rows = live, !.old = row,
                                   !.indexed = entries, !.known = known]
  <2>1. new \in Erasure
    BY <1>0, ErasureOperatorTypes DEF Erasure, TypeOK
  <2>2. era' = [era EXCEPT ![e] = new]
    BY <1>2 DEF EraseRead
  <2> HIDE DEF new
  <2> QED BY <1>0, <1>2, <2>1, <2>2 DEF EraseRead, TypeInv, TypeOK, RequestOK, dbVars, fileVars
<1>3. CASE EraseRefused(e) \/ EraseRollback(e) \/ EraseAborts(e)
  <2>1. era' = [era EXCEPT ![e] = NoErasure] /\ UNCHANGED <<dbVars, fileVars, req, judged>>
    BY <1>3 DEF EraseRefused, EraseRollback, EraseAborts
  <2> QED BY <1>0, <2>1 DEF TypeInv, TypeOK, RequestOK, dbVars, fileVars
<1>4. CASE EraseCommit(e)
  <2> DEFINE targets == era[e].targets
             new == [era[e] EXCEPT !.pc = "unlink", !.paths = Unreferenced(e)]
             NewRow(v) ==
                CASE v \in targets -> BlankRow
                  [] v \in live \ targets /\ row[v].dupOf \in targets ->
                        [row[v] EXCEPT !.dupOf = Replacement(e, era[e].old[row[v].dupOf].sha)]
                  [] OTHER -> row[v]
  <2>1. new \in Erasure
    BY <1>0, ErasureOperatorTypes DEF Erasure
  <2>2. ASSUME NEW v \in UploadIds PROVE NewRow(v) \in UploadRow
    <3>1. row[v] \in UploadRow
      BY <1>0 DEF TypeOK
    <3>2. [row[v] EXCEPT !.dupOf = Replacement(e, era[e].old[row[v].dupOf].sha)] \in UploadRow
      BY <1>0, <3>1, ErasureOperatorTypes DEF UploadRow
    <3> QED BY <3>1, <3>2
  <2>3. row' = [v \in UploadIds |-> NewRow(v)] /\ era' = [era EXCEPT ![e] = new]
    BY <1>4 DEF EraseCommit
  <2> HIDE DEF NewRow, new
  <2>4. row' \in [UploadIds -> UploadRow] /\ era' \in [Erasers -> Erasure]
    BY <1>0, <2>1, <2>2, <2>3 DEF TypeOK
  <2>5. case' \in [CaseIds -> CaseRow] /\ known' \subseteq CaseIds
    BY <1>0, <1>4, ErasureOperatorTypes DEF EraseCommit
  <2>6. linked' \in [Clients -> Users \cup {Nobody, Unknown}]
    BY <1>0, <1>4 DEF EraseCommit, LinkedAfter, TypeOK
  <2>7. accounts' \subseteq Users /\ entries' \subseteq UploadIds \X CaseIds /\ live' \subseteq UploadIds
    BY <1>0, <1>4 DEF EraseCommit, TypeOK
  <2>8. UNCHANGED <<nextId, fileVars, req>>
    BY <1>4 DEF EraseCommit
  <2>9. judged' \subseteq CaseIds \X Verdicts
    BY <1>0, <1>4 DEF EraseCommit, StillThere, TypeOK
  <2> QED BY <1>0, <2>4, <2>5, <2>6, <2>7, <2>8, <2>9 DEF TypeInv, TypeOK, RequestOK, fileVars
<1>5. CASE EraseUnlink(e)
  <2>1. era' = [era EXCEPT ![e] = NoErasure] /\ files' \subseteq Payloads
    BY <1>0, <1>5 DEF EraseUnlink, TypeOK
  <2> QED BY <1>0, <1>5, <2>1 DEF EraseUnlink, TypeInv, TypeOK, RequestOK, dbVars
<1>6. QED BY <1>1, <1>2, <1>3, <1>4, <1>5 DEF Erase

(* One single-transaction operation keeps the types. *)
Elsewhere ==
    \/ \E k \in Clients, user \in Users : LinkClient(k, user)
    \/ \E k \in Clients : UnlinkClient(k)
    \/ \E c \in CaseIds, verdict \in Verdicts : DecideCase(c, verdict)
    \/ \E c \in CaseIds, verdict \in Verdicts : DecideRead(c, verdict)
    \/ \E c \in CaseIds, verdict \in Verdicts : DecideWrite(c, verdict)
    \/ \E c \in CaseIds : DeleteCase(c)
    \/ DeleteRejectedContent
    \/ \E u \in UploadIds : Expire(u)
    \/ RetentionCleanup

(* The single-transaction operations keep the types. *)
LEMMA ElsewhereType ==
    ASSUME TypeInv, Elsewhere
    PROVE  TypeInv'
<1> USE BlankTypes
<1>0. TypeOK /\ RequestOK
  BY DEF TypeInv
<1>1. ASSUME NEW k \in Clients, NEW user \in Users, LinkClient(k, user) \/ UnlinkClient(k)
      PROVE  TypeInv'
  <2>1. linked' \in [Clients -> Users \cup {Nobody, Unknown}]
    BY <1>0, <1>1 DEF LinkClient, UnlinkClient, TypeOK
  <2> QED BY <1>0, <1>1, <2>1 DEF LinkClient, UnlinkClient, TypeInv, TypeOK, RequestOK, fileVars
<1>2. ASSUME NEW k \in Clients, UnlinkClient(k)
      PROVE  TypeInv'
  <2>1. linked' \in [Clients -> Users \cup {Nobody, Unknown}]
    BY <1>0, <1>2 DEF UnlinkClient, TypeOK
  <2> QED BY <1>0, <1>2, <2>1 DEF UnlinkClient, TypeInv, TypeOK, RequestOK, fileVars
<1>3. ASSUME NEW c \in CaseIds, NEW verdict \in Verdicts,
             DecideCase(c, verdict) \/ DecideRead(c, verdict) \/ DecideWrite(c, verdict)
      PROVE  TypeInv'
  <2>1. case' \in [CaseIds -> CaseRow]
    BY <1>0, <1>3 DEF DecideCase, DecideRead, DecideWrite, TypeOK, CaseRow, Verdicts, dbVars
  <2>2. judged' \subseteq CaseIds \X Verdicts
    BY <1>0, <1>3 DEF DecideCase, DecideRead, DecideWrite, TypeOK
  <2> QED BY <1>0, <1>3, <2>1, <2>2
          DEF DecideCase, DecideRead, DecideWrite, TypeInv, TypeOK, RequestOK, dbVars, fileVars
<1>4. ASSUME NEW c \in CaseIds, DeleteCase(c)
      PROVE  TypeInv'
  <2>1. case' \in [CaseIds -> CaseRow] /\ known' \subseteq CaseIds
    BY <1>0, <1>4 DEF DeleteCase, TypeOK
  <2>2. judged' \subseteq CaseIds \X Verdicts
    BY <1>0, <1>4 DEF DeleteCase, StillThere, TypeOK
  <2> QED BY <1>0, <1>4, <2>1, <2>2 DEF DeleteCase, TypeInv, TypeOK, RequestOK, fileVars
<1>5. CASE DeleteRejectedContent
  <2>1. ASSUME NEW c \in CaseIds PROVE case[c] \in CaseRow /\ Tombstone(c) \in CaseRow
    BY <1>0 DEF Tombstone, CaseRow, TypeOK
  <2>2. case' \in [CaseIds -> CaseRow]
    BY <1>5, <2>1 DEF DeleteRejectedContent
  <2>3. row' \in [UploadIds -> UploadRow]
    BY <1>0, <1>5 DEF DeleteRejectedContent, TypeOK, UploadRow
  <2>4. entries' \subseteq UploadIds \X CaseIds
    BY <1>0, <1>5 DEF DeleteRejectedContent, TypeOK
  <2> QED BY <1>0, <1>5, <2>2, <2>3, <2>4
          DEF DeleteRejectedContent, TypeInv, TypeOK, RequestOK, fileVars
<1>6. ASSUME NEW u \in UploadIds, Expire(u)
      PROVE  TypeInv'
  <2>1. row' \in [UploadIds -> UploadRow]
    <3>1. [row[u] EXCEPT !.expired = TRUE] \in UploadRow
      BY <1>0 DEF TypeOK, UploadRow
    <3> QED BY <1>0, <1>6, <3>1 DEF Expire, TypeOK
  <2> QED BY <1>0, <1>6, <2>1 DEF Expire, TypeInv, TypeOK, RequestOK, fileVars
<1>7. CASE RetentionCleanup
  <2>1. files' \subseteq Payloads /\ live' \subseteq UploadIds
    BY <1>0, <1>7 DEF RetentionCleanup, TypeOK
  <2>2. row' \in [UploadIds -> UploadRow]
    BY <1>0, <1>7 DEF RetentionCleanup, TypeOK
  <2>3. case' \in [CaseIds -> CaseRow]
    <3>1. ASSUME NEW c \in CaseIds
          PROVE  case[c] \in CaseRow /\ [case[c] EXCEPT !.source = NoUpload] \in CaseRow
      BY <1>0 DEF TypeOK, CaseRow
    <3>2. case' = case \/ case' = [c \in CaseIds |-> IF c \in known /\ case[c].source \in Expired
                                                     THEN [case[c] EXCEPT !.source = NoUpload] ELSE case[c]]
      BY <1>7 DEF RetentionCleanup
    <3> QED BY <1>0, <3>1, <3>2 DEF TypeOK
  <2> QED BY <1>0, <1>7, <2>1, <2>2, <2>3 DEF RetentionCleanup, TypeInv, TypeOK, RequestOK
<1>8. QED BY <1>1, <1>2, <1>3, <1>4, <1>5, <1>6, <1>7 DEF Elsewhere

(* Every step of the program keeps the types.                              *)
LEMMA StepType == TypeInv /\ [Next]_vars => TypeInv'
<1> SUFFICES ASSUME TypeInv, [Next]_vars PROVE TypeInv'
  OBVIOUS
<1>1. ASSUME NEW r \in Requests, Submit(r) PROVE TypeInv'
  BY <1>1, SubmitType
<1>2. ASSUME NEW e \in Erasers, Erase(e) PROVE TypeInv'
  BY <1>2, EraseType
<1>3. CASE Elsewhere
  BY <1>3, ElsewhereType
<1>4. CASE UNCHANGED vars
  BY <1>4 DEF TypeInv, TypeOK, RequestOK, vars, dbVars, fileVars
<1>5. QED BY <1>1, <1>2, <1>3, <1>4 DEF Next, Elsewhere

(* Every variable keeps its type, whatever uploads, erasures, moderation   *)
(* and retention do and wherever they are killed.                          *)
THEOREM TypeCorrect == Spec => []TypeOK
<1>1. Spec => []TypeInv
  BY InitType, StepType, PTL DEF Spec
<1>2. TypeInv => TypeOK
  BY DEF TypeInv
<1>3. QED BY <1>1, <1>2, PTL
-----------------------------------------------------------------------------
(* The tables stay consistent.                                             *)

SameUpload(a, b) == a.owner = b.owner /\ a.sha = b.sha /\ a.status = b.status

(* What an upload thread remembers is still true of the uploads that are   *)
(* still there, and its client, if it had a row, still has one.            *)
RequestFact(r) ==
    /\ req[r].pc # "idle" =>
        /\ req[r].owner \in Clients /\ ~req[r].fresh => linked[req[r].owner] # Unknown
        /\ req[r].acc # Nothing => req[r].sha = req[r].acc
        /\ req[r].dup # NoUpload =>
            req[r].dup < nextId /\ (req[r].dup \in live => row[req[r].dup].sha = req[r].sha)
    /\ req[r].pc \in {"ingest", "write"} =>
        /\ req[r].id < nextId
        /\ req[r].id \in live => /\ row[req[r].id].sha = req[r].acc
                                 /\ row[req[r].id].status = "accepted"

(* What an erasing thread has in its snapshot is still true of the uploads *)
(* that are still there; later uploads have later ids.                     *)
ErasureFact(e) ==
    /\ era[e].pc \in {"commit", "unlink"} =>
        /\ \A u \in era[e].rows : u < nextId
        /\ \A u \in era[e].rows \cap live : SameUpload(row[u], era[e].old[u])
        /\ \A u \in era[e].rows, v \in live \ era[e].rows : u < v
        /\ era[e].targets \subseteq era[e].rows
    /\ era[e].pc = "unlink" =>
        \A u \in era[e].rows \cap live : row[u].status = "accepted" => row[u].sha \notin era[e].paths

Facts == /\ \A u \in live : u < nextId
         /\ \A r \in Requests : RequestFact(r)
         /\ \A e \in Erasers : ErasureFact(e)

Tables == NoDanglingReference /\ IndexMatchesPayload /\ DuplicateSound /\ OneUploadPerOwner

SafeInv == TypeInv /\ Facts /\ Tables

(* Empty tables are consistent, and idle threads remember nothing.         *)
LEMMA InitSafe == Init => SafeInv
<1> SUFFICES ASSUME Init PROVE SafeInv
  OBVIOUS
<1>1. TypeInv
  BY InitType
<1>2. Facts
  BY DEF Init, Facts, RequestFact, ErasureFact, NoRequest, NoErasure
<1>3. Tables
  BY ConstantsOK
     DEF Init, Tables, NoDanglingReference, IndexMatchesPayload, DuplicateSound, OneUploadPerOwner
<1>4. QED BY <1>1, <1>2, <1>3 DEF SafeInv

(* A step that inserts no upload and rewrites no owner, payload or status  *)
(* disturbs nothing the threads remember.                                  *)
LEMMA FactsFrame ==
    ASSUME SafeInv, live' \subseteq live, nextId' = nextId,
           \A u \in live' : SameUpload(row'[u], row[u]),
           \A k \in Clients : linked[k] # Unknown => linked'[k] # Unknown
    PROVE  /\ \A u \in live' : u < nextId'
           /\ \A r \in Requests : req'[r] = req[r] \/ req'[r] = NoRequest => RequestFact(r)'
           /\ \A e \in Erasers : era'[e] = era[e] \/ era'[e] = NoErasure => ErasureFact(e)'
<1>1. ASSUME NEW r \in Requests, req'[r] = req[r] PROVE RequestFact(r)'
  <2>1. RequestFact(r)
    BY DEF SafeInv, Facts
  <2> QED BY <1>1, <2>1 DEF RequestFact, SameUpload
<1>2. ASSUME NEW r \in Requests, req'[r] = NoRequest PROVE RequestFact(r)'
  BY <1>2 DEF RequestFact, NoRequest
<1>3. ASSUME NEW e \in Erasers, era'[e] = era[e] PROVE ErasureFact(e)'
  <2>1. ErasureFact(e)
    BY DEF SafeInv, Facts
  <2> QED BY <1>3, <2>1 DEF ErasureFact, SameUpload
<1>4. ASSUME NEW e \in Erasers, era'[e] = NoErasure PROVE ErasureFact(e)'
  BY <1>4 DEF ErasureFact, NoErasure
<1>5. \A u \in live' : u < nextId'
  BY DEF SafeInv, Facts
<1>6. QED BY <1>1, <1>2, <1>3, <1>4, <1>5

(* A step that leaves the tables alone keeps them consistent. *)
LEMMA TablesFrame ==
    ASSUME Tables, UNCHANGED dbVars
    PROVE  Tables'
BY DEF Tables, NoDanglingReference, IndexMatchesPayload, DuplicateSound, OneUploadPerOwner,
       OwnerExists, dbVars

(* The unique and foreign keys checked by the INSERT of an upload. *)
LEMMA SubmitInsertSafe ==
    ASSUME SafeInv, NEW r \in Requests, SubmitInsert(r)
    PROVE  Facts' /\ Tables'
<1>a. PICK o : o = req[r].owner
  OBVIOUS
<1> DEFINE new == [owner |-> o, sha |-> req[r].sha,
                   status |-> IF req[r].acc # Nothing THEN "accepted" ELSE "quarantined",
                   dupOf |-> req[r].dup, expired |-> FALSE, ingested |-> {}]
           next == IF req[r].acc # Nothing
                   THEN [req[r] EXCEPT !.pc = "ingest", !.id = nextId] ELSE NoRequest
<1>0. TypeOK /\ RequestOK /\ Facts /\ Tables
  BY DEF SafeInv, TypeInv
<1>1. /\ nextId \in UploadIds /\ nextId' = nextId + 1 /\ live' = live \cup {nextId}
      /\ row' = [row EXCEPT ![nextId] = new] /\ req' = [req EXCEPT ![r] = next]
      /\ InsertAllowed(r) /\ req[r].pc = "insert"
      /\ linked' = IF req[r].fresh THEN [linked EXCEPT ![o] = Nobody] ELSE linked
      /\ UNCHANGED <<accounts, entries, known, case, era>>
  BY <1>a DEF SubmitInsert
<1>2. /\ nextId \in Nat /\ nextId \notin live /\ req[r] \in Request /\ o \in Owners
      /\ \A u \in live : u < nextId /\ u \in Nat
  BY <1>0, <1>1, <1>a DEF TypeOK, RequestOK, Facts, UploadIds
<1>3. row'[nextId] = new /\ \A u \in live : row'[u] = row[u] /\ u \in live'
  BY <1>0, <1>1, <1>2 DEF TypeOK
<1>4. \A k \in Clients : linked[k] # Unknown => linked'[k] # Unknown
  BY <1>0, <1>1, ConstantsOK DEF TypeOK
<1>5. ASSUME NEW q \in Requests PROVE RequestFact(q)'
  <2>1. RequestFact(q) /\ q # r => RequestFact(q)'
    <3>1. q # r => req'[q] = req[q]
      BY <1>0, <1>1 DEF TypeOK
    <3>2. req[q].dup \in UploadIds \cup {NoUpload} /\ req[q].id \in UploadIds \cup {NoUpload}
      BY <1>0 DEF TypeOK, Request
    <3> QED BY <1>1, <1>2, <1>3, <1>4, <3>1, <3>2 DEF RequestFact, UploadIds, NoUpload
  <2>2. CASE q = r /\ req[r].acc # Nothing
    <3>1. req'[r] = [req[r] EXCEPT !.pc = "ingest", !.id = nextId]
      BY <1>0, <1>1, <2>2 DEF TypeOK
    <3>2. req'[r].pc = "ingest" /\ req'[r].id = nextId /\ req'[r].owner = req[r].owner /\ req'[r].sha = req[r].sha
          /\ req'[r].acc = req[r].acc /\ req'[r].dup = req[r].dup /\ req'[r].fresh = req[r].fresh
      BY <1>2, <3>1 DEF Request
    <3>3. RequestFact(r) /\ req[r].dup \in UploadIds \cup {NoUpload}
      BY <1>0, <1>2 DEF Facts, Request
    <3> QED BY <1>1, <1>2, <1>3, <1>4, <2>2, <3>2, <3>3 DEF RequestFact, UploadIds, NoUpload
  <2>3. CASE q = r /\ req[r].acc = Nothing
    <3>1. req'[r] = NoRequest
      BY <1>0, <1>1, <2>3 DEF TypeOK
    <3> QED BY <2>3, <3>1 DEF RequestFact, NoRequest
  <2> QED BY <1>0, <2>1, <2>2, <2>3 DEF Facts
<1>6. ASSUME NEW e \in Erasers PROVE ErasureFact(e)'
  <2>1. ErasureFact(e) /\ era[e].rows \subseteq UploadIds
    BY <1>0 DEF Facts, TypeOK, Erasure
  <2> QED BY <1>1, <1>2, <1>3, <2>1 DEF ErasureFact, UploadIds
<1>7. Facts'
  BY <1>1, <1>2, <1>5, <1>6 DEF Facts
<1>8. OwnerExists(o)' /\ \A x : OwnerExists(x) => OwnerExists(x)'
  <2>1. o \in Clients => linked'[o] # Unknown
    <3>1. req[r].fresh /\ o \in Clients => linked'[o] = Nobody
      BY <1>0, <1>1 DEF TypeOK
    <3>2. ~req[r].fresh /\ o \in Clients => linked[o] # Unknown
      BY <1>0, <1>1, <1>a DEF Facts, RequestFact
    <3> QED BY <1>1, <3>1, <3>2, ConstantsOK
  <2>2. o \in Users => o \in accounts
    BY <1>1, <1>a DEF InsertAllowed
  <2>3. o \in Users \cup Clients
    BY <1>2 DEF Owners
  <2> QED BY <1>1, <1>4, <2>1, <2>2, <2>3 DEF OwnerExists
<1>9. NoDanglingReference'
  <2>1. req[r].dup \in live \cup {NoUpload}
    BY <1>1, <1>a DEF InsertAllowed
  <2>2. \A k \in Clients : linked'[k] \in accounts \cup {Nobody, Unknown}
    BY <1>0, <1>1 DEF TypeOK, Tables, NoDanglingReference
  <2> QED BY <1>0, <1>1, <1>3, <1>8, <2>1, <2>2 DEF Tables, NoDanglingReference
<1>10. IndexMatchesPayload'
  BY <1>0, <1>1, <1>3 DEF Tables, NoDanglingReference, IndexMatchesPayload
<1>11. DuplicateSound'
  <2>1. req[r].dup # NoUpload => row[req[r].dup].sha = req[r].sha /\ req[r].dup <= nextId
                                 /\ req[r].dup \in live
    BY <1>0, <1>1, <1>2 DEF Facts, RequestFact, InsertAllowed
  <2> QED BY <1>0, <1>1, <1>2, <1>3, <2>1 DEF Tables, DuplicateSound, NoDanglingReference
<1>12. OneUploadPerOwner'
  <2>1. ~\E u \in live : row[u].sha = req[r].sha /\ row[u].owner = o
    BY <1>1, <1>a DEF InsertAllowed, WithSha
  <2> QED BY <1>0, <1>1, <1>3, <2>1 DEF Tables, OneUploadPerOwner
<1>13. QED BY <1>7, <1>9, <1>10, <1>11, <1>12 DEF Tables
(* The second transaction of an upload. *)
LEMMA IngestWriteSafe ==
    ASSUME SafeInv, NEW r \in Requests, IngestWrite(r)
    PROVE  Facts' /\ Tables'
<1>0. TypeOK /\ RequestOK /\ Facts /\ Tables
  BY DEF SafeInv, TypeInv
<1>a. PICK u : u = req[r].id
  OBVIOUS
<1>1. /\ IngestAllowed(r) /\ req[r].pc = "write"
      /\ entries' = entries \cup ({u} \X ToIndex(r)) /\ known' = known \cup ToInsert(r)
      /\ case' = [c \in CaseIds |->
                    IF c \in ToInsert(r) \cup ToUpdate(r) THEN IngestedCase(r, c) ELSE case[c]]
      /\ row' = [row EXCEPT ![u].ingested = IF u \in live THEN ToStore(r) ELSE {}]
      /\ req' = [req EXCEPT ![r] = NoRequest]
      /\ UNCHANGED <<accounts, linked, nextId, live, era>>
  BY <1>a DEF IngestWrite
<1>2. \A v \in UploadIds : SameUpload(row'[v], row[v]) /\ row'[v].dupOf = row[v].dupOf
  BY <1>0, <1>1 DEF TypeOK, UploadRow, SameUpload
<1>3. Facts'
  <2>1. \A q \in Requests : req'[q] = req[q] \/ req'[q] = NoRequest
    BY <1>0, <1>1 DEF TypeOK
  <2>2. \A v \in live' : SameUpload(row'[v], row[v])
    BY <1>0, <1>1, <1>2 DEF TypeOK
  <2> QED BY <1>1, <2>1, <2>2, FactsFrame DEF Facts
<1>4. /\ ToInsert(r) \cup ToUpdate(r) \cup ToIndex(r) # {} => u \in live
      /\ ToInsert(r) # {} => OwnerExists(req[r].owner)
  BY <1>1, <1>a DEF IngestAllowed
<1>5. \A x : OwnerExists(x) => OwnerExists(x)'
  BY <1>1 DEF OwnerExists
<1>6. ASSUME NEW c \in known'
      PROVE  /\ case'[c].source \in live \cup {NoUpload}
             /\ case'[c].creator = Nobody \/ OwnerExists(case'[c].creator)
  <2>1. ToInsert(r) \subseteq CaseIds
    <3>1. CasesOf[req[r].acc] \subseteq CaseIds
      BY <1>0, <1>1, ConstantsOK DEF RequestOK
    <3> QED BY <3>1 DEF ToInsert, ToStore
  <2>2. c \in CaseIds
    BY <1>0, <1>1, <1>6, <2>1 DEF TypeOK
  <2>3. CASE c \in ToInsert(r)
    <3>1. case'[c].source = u /\ case'[c].creator = req[r].owner
      BY <1>1, <1>a, <2>2, <2>3 DEF IngestedCase
    <3> QED BY <1>4, <2>3, <3>1
  <2>4. CASE c \notin ToInsert(r) /\ c \in ToUpdate(r)
    <3>1. c \in known /\ case[c] \in CaseRow
      BY <1>0, <2>2, <2>4 DEF ToUpdate, TypeOK
    <3>2. case'[c] = [case[c] EXCEPT !.source = req[r].id, !.content = req[r].acc]
      BY <1>1, <2>2, <2>4 DEF IngestedCase
    <3>3. case'[c].source = u /\ case'[c].creator = case[c].creator
      BY <1>a, <3>1, <3>2 DEF CaseRow
    <3> QED BY <1>0, <1>4, <2>4, <3>1, <3>3 DEF Tables, NoDanglingReference
  <2>5. CASE c \notin ToInsert(r) \cup ToUpdate(r)
    <3>1. c \in known /\ case'[c] = case[c]
      BY <1>1, <1>6, <2>2, <2>5
    <3> QED BY <1>0, <3>1 DEF Tables, NoDanglingReference
  <2> QED BY <2>3, <2>4, <2>5
<1>7. NoDanglingReference'
  <2>1. \A v \in live' : OwnerExists(row'[v].owner) /\ row'[v].dupOf \in live' \cup {NoUpload}
    BY <1>0, <1>1, <1>2 DEF Tables, NoDanglingReference, TypeOK, SameUpload
  <2>2. \A x \in entries' : x[1] \in live'
    <3>1. \A x \in {u} \X ToIndex(r) : x[1] \in live
      BY <1>4
    <3> QED BY <1>0, <1>1, <3>1 DEF Tables, NoDanglingReference
  <2>3. \A k \in Clients : linked'[k] \in accounts' \cup {Nobody, Unknown}
    BY <1>0, <1>1 DEF Tables, NoDanglingReference
  <2> QED BY <1>1, <1>5, <1>6, <2>1, <2>2, <2>3 DEF NoDanglingReference
<1>8. IndexMatchesPayload'
  <2>1. ASSUME NEW x \in {u} \X ToIndex(r)
        PROVE  row[u].status = "accepted" /\ x[2] \in CasesOf[row[u].sha] /\ x[1] = u
    <3>1. u \in live /\ x[1] = u /\ x[2] \in CasesOf[req[r].acc]
      BY <1>4 DEF ToIndex, ToStore
    <3> QED BY <1>0, <1>1, <1>a, <3>1 DEF Facts, RequestFact
  <2>2. u \in UploadIds /\ \A x \in entries : x[1] \in UploadIds
    BY <1>0, <1>1, <1>a DEF TypeOK, RequestOK
  <2> QED BY <1>0, <1>1, <1>2, <2>1, <2>2 DEF Tables, IndexMatchesPayload, SameUpload
<1>9. DuplicateSound' /\ OneUploadPerOwner'
  BY <1>0, <1>1, <1>2
     DEF Tables, DuplicateSound, OneUploadPerOwner, NoDanglingReference, TypeOK, SameUpload
<1>10. QED BY <1>3, <1>7, <1>8, <1>9 DEF Tables

(* One step of an upload keeps the tables consistent. *)
LEMMA SubmitSafe ==
    ASSUME SafeInv, NEW r \in Requests, Submit(r)
    PROVE  Facts' /\ Tables'
<1>0. TypeOK /\ RequestOK /\ Facts /\ Tables
  BY DEF SafeInv, TypeInv
<1>1. ASSUME UNCHANGED <<dbVars, era>>, \A q \in Requests \ {r} : req'[q] = req[q],
             RequestFact(r)'
      PROVE  Facts' /\ Tables'
  <2>1. \A v : SameUpload(row'[v], row[v])
    BY <1>1 DEF dbVars, SameUpload
  <2>2. /\ \A u \in live' : u < nextId'
        /\ \A q \in Requests : req'[q] = req[q] => RequestFact(q)'
        /\ \A e \in Erasers : ErasureFact(e)'
    BY <1>1, <2>1, FactsFrame DEF dbVars
  <2>3. Tables'
    BY <1>0, <1>1, TablesFrame
  <2> QED BY <1>1, <2>2, <2>3 DEF Facts
<1>2. ASSUME UNCHANGED <<dbVars, era>>, req' = req \/ req' = [req EXCEPT ![r] = NoRequest]
      PROVE  Facts' /\ Tables'
  <2>1. \A v : SameUpload(row'[v], row[v])
    BY <1>2 DEF dbVars, SameUpload
  <2>2. \A q \in Requests : req'[q] = req[q] \/ req'[q] = NoRequest
    BY <1>0, <1>2 DEF TypeOK
  <2>3. Facts'
    BY <1>2, <2>1, <2>2, FactsFrame DEF dbVars, Facts
  <2> QED BY <1>0, <1>2, <2>3, TablesFrame
<1>3. ASSUME NEW o \in Owners, NEW s \in Submissions, SubmitBegin(r, o, s[1], s[2])
      PROVE  Facts' /\ Tables'
  <2>a. PICK acc, quar, sha : acc = s[1] /\ quar = s[2] /\ sha = IF acc # Nothing THEN acc ELSE quar
    OBVIOUS
  <2> DEFINE ids == WithSha(row, live, sha)
             new == [NoRequest EXCEPT !.pc = "store", !.owner = o, !.acc = acc, !.sha = sha,
                                      !.dup = EarliestOf(ids),
                                      !.fresh = o \in Clients /\ linked[o] = Unknown]
  <2>1. UNCHANGED <<dbVars, era>> /\ (req' = req \/ req' = [req EXCEPT ![r] = new])
    BY <1>3, <2>a DEF SubmitBegin
  <2>2. CASE req' = [req EXCEPT ![r] = new]
    <3>1. ids \in SUBSET UploadIds /\ ids \subseteq live /\ \A u \in ids : row[u].sha = sha
      BY <1>0 DEF WithSha, TypeOK
    <3>2. EarliestOf(ids) \in ids \cup {NoUpload}
      <4> HIDE DEF ids
      <4> QED BY <3>1, EarliestType
    <3>3. req'[r] = new
      BY <1>0, <2>2 DEF TypeOK
    <3>4. /\ req'[r].pc = "store" /\ req'[r].owner = o /\ req'[r].acc = acc /\ req'[r].sha = sha
          /\ req'[r].dup = EarliestOf(ids)
          /\ req'[r].fresh = (o \in Clients /\ linked[o] = Unknown)
      <4> HIDE DEF ids
      <4> QED BY <3>3 DEF NoRequest
    <3> HIDE DEF new, ids
    <3>5. EarliestOf(ids) # NoUpload => /\ EarliestOf(ids) < nextId
                                        /\ row[EarliestOf(ids)].sha = sha
      BY <1>0, <3>1, <3>2 DEF Facts
    <3>6. RequestFact(r)'
      BY <2>1, <2>a, <3>4, <3>5 DEF RequestFact, dbVars
    <3> QED BY <1>0, <1>1, <2>1, <2>2, <3>6 DEF TypeOK
  <2> QED BY <1>2, <2>1, <2>2
<1>4. CASE SubmitStore(r)
  <2>1. UNCHANGED <<dbVars, era>> /\ req' = [req EXCEPT ![r].pc = "insert"] /\ req[r].pc = "store"
    BY <1>4 DEF SubmitStore
  <2>2. req'[r] = [req[r] EXCEPT !.pc = "insert"] /\ req[r] \in Request /\ RequestFact(r)
    BY <1>0, <2>1 DEF TypeOK, Facts
  <2>3. /\ req'[r].pc = "insert" /\ req'[r].owner = req[r].owner /\ req'[r].acc = req[r].acc
        /\ req'[r].sha = req[r].sha /\ req'[r].dup = req[r].dup /\ req'[r].fresh = req[r].fresh
    BY <2>2 DEF Request
  <2>4. RequestFact(r)'
    BY <2>1, <2>2, <2>3 DEF RequestFact, dbVars
  <2> QED BY <1>0, <1>1, <2>1, <2>4 DEF TypeOK
<1>5. CASE SubmitInsert(r)
  BY <1>5, SubmitInsertSafe
<1>6. CASE SubmitInsertFails(r) \/ IngestFails(r) \/ SubmitAborts(r)
  BY <1>2, <1>6 DEF SubmitInsertFails, IngestFails, SubmitAborts
<1>7. CASE IngestRead(r)
  <2> DEFINE new == [req[r] EXCEPT !.pc = "write", !.seen = known,
                                   !.gone = {c \in known : Tombstoned(c)},
                                   !.mine = {c \in CaseIds : <<req[r].id, c>> \in entries}]
  <2>1. UNCHANGED <<dbVars, era>> /\ req' = [req EXCEPT ![r] = new] /\ req[r].pc = "ingest"
    BY <1>7 DEF IngestRead
  <2>2. req'[r] = new /\ req[r] \in Request /\ RequestFact(r)
    BY <1>0, <2>1 DEF TypeOK, Facts
  <2>3. /\ req'[r].pc = "write" /\ req'[r].owner = req[r].owner /\ req'[r].acc = req[r].acc
        /\ req'[r].sha = req[r].sha /\ req'[r].dup = req[r].dup /\ req'[r].fresh = req[r].fresh
        /\ req'[r].id = req[r].id
    BY <2>2 DEF Request
  <2> HIDE DEF new
  <2>4. RequestFact(r)'
    BY <2>1, <2>2, <2>3 DEF RequestFact, dbVars
  <2> QED BY <1>0, <1>1, <2>1, <2>4 DEF TypeOK
<1>8. CASE IngestWrite(r)
  BY <1>8, IngestWriteSafe
<1>9. QED BY <1>3, <1>4, <1>5, <1>6, <1>7, <1>8 DEF Submit
(* The unique and foreign keys an erasing transaction satisfies are enough *)
(* to keep the tables consistent, stale as its snapshot may be.            *)
LEMMA EraseCommitSafe ==
    ASSUME SafeInv, NEW e \in Erasers, EraseCommit(e)
    PROVE  Facts' /\ Tables'
<1>0. TypeOK /\ RequestOK /\ Facts /\ Tables /\ era[e] \in Erasure /\ ErasureFact(e)
  BY DEF SafeInv, TypeInv, TypeOK, Facts
<1>a. PICK targets, old, rows : targets = era[e].targets /\ old = era[e].old /\ rows = era[e].rows
  OBVIOUS
<1> DEFINE Rep(v) == Replacement(e, old[row[v].dupOf].sha)
<1>1. /\ era[e].pc = "commit" /\ EraseAllowed(e)
      /\ case' = [c \in CaseIds |-> CaseAfter(e, c)] /\ known' = KnownAfter(e)
      /\ row' = [v \in UploadIds |->
                    CASE v \in targets -> BlankRow
                      [] v \in live \ targets /\ row[v].dupOf \in targets ->
                            [row[v] EXCEPT !.dupOf = Rep(v)]
                      [] OTHER -> row[v]]
      /\ entries' = {x \in entries : x[1] \notin targets} /\ live' = live \ targets
      /\ accounts' = IF era[e].kind = "account" THEN accounts \ {era[e].user} ELSE accounts
      /\ linked' = LinkedAfter(e)
      /\ era' = [era EXCEPT ![e] = [era[e] EXCEPT !.pc = "unlink", !.paths = Unreferenced(e)]]
      /\ UNCHANGED <<nextId, req>>
  BY <1>a DEF EraseCommit
<1>2. ASSUME NEW v \in live'
      PROVE  /\ v \in live /\ v \notin targets /\ v \in UploadIds
             /\ SameUpload(row'[v], row[v])
             /\ row'[v].dupOf = IF row[v].dupOf \in targets THEN Rep(v) ELSE row[v].dupOf
  <2>1. v \in live /\ v \notin targets /\ v \in UploadIds /\ row[v] \in UploadRow
    BY <1>0, <1>1, <1>2 DEF TypeOK
  <2>2. row'[v] = IF row[v].dupOf \in targets THEN [row[v] EXCEPT !.dupOf = Rep(v)] ELSE row[v]
    BY <1>1, <2>1
  <2> HIDE DEF Rep
  <2> QED BY <2>1, <2>2 DEF UploadRow, SameUpload
<1>3. \A v \in live : row[v].dupOf \in targets
        => Rep(v) \in live \cup {NoUpload}
  BY <1>1, <1>a DEF EraseAllowed
<1>4. ASSUME NEW v \in live, v \notin targets, row[v].dupOf \in targets, Rep(v) # NoUpload
      PROVE  Rep(v) \in live' /\ row[Rep(v)].sha = row[v].sha /\ Rep(v) <= v
  <2>a. PICK d : d = row[v].dupOf
    OBVIOUS
  <2>1. d \in targets /\ d \in rows /\ d \in live /\ d \in UploadIds
    BY <1>0, <1>1, <1>4, <1>a, <2>a
       DEF ErasureFact, Tables, NoDanglingReference, UploadIds, NoUpload, Erasure
  <2>2. old[d].sha = row[v].sha
    BY <1>0, <1>1, <1>4, <1>a, <2>1, <2>a
       DEF ErasureFact, SameUpload, Tables, DuplicateSound, UploadIds, NoUpload
  <2> DEFINE ids == WithSha(old, rows \ targets, old[d].sha)
  <2>3. ids \in SUBSET UploadIds /\ Rep(v) = EarliestOf(ids)
    BY <1>0, <1>a, <2>a DEF WithSha, Erasure, Replacement
  <2>4. Rep(v) \in ids /\ \A u \in ids : Rep(v) <= u
    <3> HIDE DEF ids
    <3> QED BY <1>4, <2>3, EarliestType
  <2>5. Rep(v) \in rows /\ Rep(v) \notin targets /\ Rep(v) \in live /\ old[Rep(v)].sha = old[d].sha
    BY <1>3, <1>4, <2>4 DEF WithSha
  <2>6. row[Rep(v)].sha = row[v].sha
    BY <1>0, <1>1, <1>a, <2>2, <2>5 DEF ErasureFact, SameUpload
  <2>7. Rep(v) <= v
    <3>1. CASE v \in rows
      <4>1. old[v].sha = old[d].sha
        BY <1>0, <1>1, <1>4, <1>a, <2>2, <3>1 DEF ErasureFact, SameUpload
      <4>2. v \in ids
        BY <1>4, <3>1, <4>1 DEF WithSha
      <4> QED BY <2>4, <4>2
    <3>2. CASE v \notin rows
      <4>1. Rep(v) < v
        BY <1>0, <1>1, <1>4, <1>a, <2>5, <3>2 DEF ErasureFact
      <4>2. Rep(v) \in UploadIds /\ v \in UploadIds
        BY <1>0, <1>4, <2>5 DEF TypeOK
      <4> QED BY <4>1, <4>2 DEF UploadIds
    <3> QED BY <3>1, <3>2
  <2> QED BY <1>1, <2>5, <2>6, <2>7
<1> HIDE DEF Rep
<1>5. \A k \in Clients : linked[k] # Unknown => linked'[k] # Unknown
  BY <1>0, <1>1, ConstantsOK DEF LinkedAfter, TypeOK
<1>6. Facts'
  <2>1. /\ \A u \in live' : u < nextId'
        /\ \A r \in Requests : RequestFact(r)'
        /\ \A f \in Erasers : era'[f] = era[f] => ErasureFact(f)'
    BY <1>1, <1>2, <1>5, FactsFrame
  <2>2. ErasureFact(e)'
    <3> DEFINE new == [era[e] EXCEPT !.pc = "unlink", !.paths = Unreferenced(e)]
    <3>1. era'[e] = new
      BY <1>0, <1>1 DEF TypeOK
    <3>2. /\ era'[e].pc = "unlink" /\ era'[e].paths = Unreferenced(e)
          /\ era'[e].rows = rows /\ era'[e].old = old /\ era'[e].targets = targets
      BY <1>0, <1>a, <3>1 DEF Erasure
    <3>3. ASSUME NEW u \in rows \cap live', row'[u].status = "accepted"
          PROVE  row'[u].sha \notin Unreferenced(e)
      <4>1. SameUpload(row'[u], old[u]) /\ u \in Left(e)
        BY <1>0, <1>1, <1>2, <1>a, <3>3 DEF ErasureFact, SameUpload, Left, Deleted
      <4>2. row'[u].sha \in PathsOf(old, Left(e))
        BY <3>3, <4>1 DEF PathsOf, SameUpload
      <4> QED BY <1>a, <4>2 DEF Unreferenced
    <3>4. \A u \in rows \cap live' : SameUpload(row'[u], old[u])
      BY <1>0, <1>1, <1>2, <1>a DEF ErasureFact, SameUpload
    <3> HIDE DEF new
    <3> QED BY <1>0, <1>1, <1>a, <3>2, <3>3, <3>4 DEF ErasureFact
  <2>3. \A f \in Erasers : f # e => era'[f] = era[f]
    BY <1>0, <1>1 DEF TypeOK
  <2> QED BY <2>1, <2>2, <2>3 DEF Facts
<1>7. \A x : OwnerExists(x) /\ (era[e].kind = "account" => x # era[e].user) => OwnerExists(x)'
  BY <1>1, <1>5 DEF OwnerExists
<1>8. ASSUME NEW c \in known'
      PROVE  /\ case'[c].source \in live' \cup {NoUpload}
             /\ case'[c].creator = Nobody \/ OwnerExists(case'[c].creator)
             /\ era[e].kind = "account" => case'[c].creator # era[e].user
  <2>1. c \in CaseIds /\ c \in KnownAfter(e) /\ case'[c] = CaseAfter(e, c)
    <3>1. KnownAfter(e) \subseteq CaseIds
      BY <1>0, ErasureOperatorTypes
    <3> QED BY <1>1, <1>8, <3>1
  <2>2. era[e].kind = "account" => case'[c].creator # era[e].user
    BY <1>1, <2>1 DEF EraseAllowed
  <2>3. CASE c \in Rebuilt(e)
    <3>1. case'[c] = RebuiltCase(e, c)
      BY <2>1, <2>3 DEF CaseAfter
    <3> QED BY <1>1, <1>a, <2>1, <2>2, <2>3, <3>1 DEF EraseAllowed
  <2>4. CASE c \notin Rebuilt(e)
    <3>1. c \in known /\ case[c] \in CaseRow
      BY <1>0, <2>1, <2>4 DEF KnownAfter, TypeOK
    <3>2. case'[c] = IF case[c].source \in targets THEN [case[c] EXCEPT !.source = NoUpload] ELSE case[c]
      BY <1>a, <2>1, <2>4 DEF CaseAfter
    <3>3. case'[c].creator = case[c].creator
          /\ case'[c].source = IF case[c].source \in targets THEN NoUpload ELSE case[c].source
      BY <3>1, <3>2 DEF CaseRow
    <3> QED BY <1>0, <1>1, <2>2, <3>1, <3>3 DEF Tables, NoDanglingReference
  <2> QED BY <2>3, <2>4
<1>9. NoDanglingReference'
  <2>1. ASSUME NEW v \in live' PROVE row'[v].dupOf \in live' \cup {NoUpload}
    <3>1. CASE row[v].dupOf \in targets
      BY <1>2, <1>4, <3>1
    <3>2. CASE row[v].dupOf \notin targets
      BY <1>0, <1>1, <1>2, <3>2 DEF Tables, NoDanglingReference
    <3> QED BY <3>1, <3>2
  <2>2. ASSUME NEW v \in live'
        PROVE  /\ OwnerExists(row'[v].owner)
               /\ era[e].kind = "account" => row'[v].owner # era[e].user
    BY <1>0, <1>1, <1>2, <1>a, <2>2 DEF Tables, NoDanglingReference, EraseAllowed, SameUpload
  <2>3. \A x \in entries' : x[1] \in live'
    BY <1>0, <1>1 DEF Tables, NoDanglingReference
  <2>4. ASSUME NEW k \in Clients PROVE linked'[k] \in accounts' \cup {Nobody, Unknown}
    BY <1>0, <1>1, ConstantsOK DEF Tables, NoDanglingReference, LinkedAfter, TypeOK
  <2> QED BY <1>7, <1>8, <2>1, <2>2, <2>3, <2>4 DEF NoDanglingReference
<1>10. IndexMatchesPayload'
  BY <1>0, <1>1, <1>2 DEF Tables, NoDanglingReference, IndexMatchesPayload, SameUpload
<1>11. DuplicateSound'
  <2> SUFFICES ASSUME NEW v \in live', row'[v].dupOf # NoUpload
               PROVE  row'[row'[v].dupOf].sha = row'[v].sha /\ row'[v].dupOf <= v
    BY DEF DuplicateSound
  <2>1. CASE row[v].dupOf \in targets
    BY <1>2, <1>4, <2>1 DEF SameUpload
  <2>2. CASE row[v].dupOf \notin targets
    <3>1. row'[v].dupOf = row[v].dupOf /\ row[v].dupOf \in live'
      BY <1>0, <1>1, <1>2, <2>2 DEF Tables, NoDanglingReference
    <3> QED BY <1>0, <1>2, <3>1 DEF Tables, DuplicateSound, SameUpload
  <2> QED BY <2>1, <2>2
<1>12. OneUploadPerOwner'
  BY <1>0, <1>2 DEF Tables, OneUploadPerOwner, SameUpload
<1>13. QED BY <1>6, <1>9, <1>10, <1>11, <1>12 DEF Tables

(* One step of an erasure keeps the tables consistent. *)
LEMMA EraseSafe ==
    ASSUME SafeInv, NEW e \in Erasers, Erase(e)
    PROVE  Facts' /\ Tables'
<1>0. TypeOK /\ RequestOK /\ Facts /\ Tables /\ era[e] \in Erasure
  BY DEF SafeInv, TypeInv, TypeOK
<1>1. ASSUME UNCHANGED <<accounts, linked, nextId, live, row, known, case, req>>,
             \A f \in Erasers \ {e} : era'[f] = era[f], ErasureFact(e)'
      PROVE  Facts'
  <2>1. \A v : SameUpload(row'[v], row[v])
    BY <1>1 DEF SameUpload
  <2>2. /\ \A u \in live' : u < nextId'
        /\ \A q \in Requests : RequestFact(q)'
        /\ \A f \in Erasers : era'[f] = era[f] => ErasureFact(f)'
    BY <1>1, <2>1, FactsFrame
  <2> QED BY <1>1, <2>2 DEF Facts
<1>2. ASSUME NEW user \in Users, NEW kind \in {"upload", "purge", "account"},
             NEW only \in UploadIds \cup {NoUpload}, EraseBegin(e, user, kind, only)
      PROVE  Facts' /\ Tables'
  <2> DEFINE new == [NoErasure EXCEPT !.pc = "read", !.kind = kind, !.user = user, !.only = only]
  <2>1. /\ UNCHANGED <<accounts, linked, nextId, live, row, known, case, req>>
        /\ entries' = entries \cup Backfilled /\ era' = [era EXCEPT ![e] = new]
    BY <1>2 DEF EraseBegin
  <2>2. era'[e] = new /\ \A f \in Erasers \ {e} : era'[f] = era[f]
    BY <1>0, <2>1 DEF TypeOK
  <2>3. era'[e].pc = "read"
    BY <2>2 DEF NoErasure
  <2>4. ErasureFact(e)'
    BY <2>3 DEF ErasureFact
  <2> HIDE DEF new
  <2>5. \A x \in Backfilled : /\ x[1] \in live /\ row[x[1]].status = "accepted"
                              /\ x[2] \in CasesOf[row[x[1]].sha]
    BY DEF Backfilled, Unindexed
  <2>6. Tables'
    BY <1>0, <2>1, <2>5
       DEF Tables, NoDanglingReference, IndexMatchesPayload, DuplicateSound, OneUploadPerOwner,
           OwnerExists
  <2> QED BY <1>1, <2>1, <2>2, <2>4, <2>6
<1>3. CASE EraseRead(e)
  <2> DEFINE new == [era[e] EXCEPT !.pc = "commit", !.targets = TargetsOf(e),
                                   !.affected = AffectedBy(e), !.rows = live, !.old = row,
                                   !.indexed = entries, !.known = known]
  <2>1. UNCHANGED <<dbVars, req>> /\ era' = [era EXCEPT ![e] = new]
    BY <1>3 DEF EraseRead
  <2>2. era'[e] = new /\ \A f \in Erasers \ {e} : era'[f] = era[f]
    BY <1>0, <2>1 DEF TypeOK
  <2>3. era'[e].pc = "commit" /\ era'[e].rows = live /\ era'[e].old = row
        /\ era'[e].targets = TargetsOf(e)
    BY <1>0, <2>2 DEF Erasure
  <2> HIDE DEF new
  <2>4. ErasureFact(e)'
    BY <1>0, <2>1, <2>3 DEF ErasureFact, Facts, SameUpload, TargetsOf, dbVars
  <2> QED BY <1>0, <1>1, <2>1, <2>2, <2>4, TablesFrame DEF dbVars
<1>4. CASE EraseRefused(e) \/ EraseRollback(e) \/ EraseAborts(e) \/ EraseUnlink(e)
  <2>1. UNCHANGED <<dbVars, req>> /\ era' = [era EXCEPT ![e] = NoErasure]
    BY <1>4 DEF EraseRefused, EraseRollback, EraseAborts, EraseUnlink
  <2>2. era'[e] = NoErasure /\ \A f \in Erasers \ {e} : era'[f] = era[f]
    BY <1>0, <2>1 DEF TypeOK
  <2>3. ErasureFact(e)'
    BY <2>2 DEF ErasureFact, NoErasure
  <2> QED BY <1>0, <1>1, <2>1, <2>2, <2>3, TablesFrame DEF dbVars
<1>5. CASE EraseCommit(e)
  BY <1>5, EraseCommitSafe
<1>6. QED BY <1>2, <1>3, <1>4, <1>5 DEF Erase

(* The single-transaction operations keep the tables consistent. *)
LEMMA ElsewhereSafe ==
    ASSUME SafeInv, Elsewhere
    PROVE  Facts' /\ Tables'
<1>0. TypeOK /\ RequestOK /\ Facts /\ Tables
  BY DEF SafeInv, TypeInv
<1>1. ASSUME live' \subseteq live, UNCHANGED <<nextId, req, era>>,
             \A u \in live' : SameUpload(row'[u], row[u]),
             \A k \in Clients : linked[k] # Unknown => linked'[k] # Unknown
      PROVE  Facts'
  BY <1>1, FactsFrame DEF Facts
<1>2. ASSUME NEW k \in Clients, NEW user \in Users, LinkClient(k, user)
      PROVE  Facts' /\ Tables'
  <2>1. /\ \A j \in Clients : linked[j] # Unknown => linked'[j] # Unknown
        /\ \A j \in Clients : linked'[j] \in accounts \cup {Nobody, Unknown}
    BY <1>0, <1>2, ConstantsOK DEF LinkClient, TypeOK, Tables, NoDanglingReference
  <2>2. UNCHANGED <<accounts, nextId, live, row, entries, known, case, req, era>>
    BY <1>2 DEF LinkClient
  <2>3. \A x : OwnerExists(x) => OwnerExists(x)'
    BY <2>1, <2>2 DEF OwnerExists
  <2>4. NoDanglingReference'
    BY <1>0, <2>1, <2>2, <2>3 DEF Tables, NoDanglingReference
  <2>5. Facts'
    BY <1>1, <2>1, <2>2 DEF SameUpload
  <2> QED BY <1>0, <2>2, <2>4, <2>5
          DEF Tables, IndexMatchesPayload, DuplicateSound, OneUploadPerOwner
<1>3. ASSUME NEW k \in Clients, UnlinkClient(k)
      PROVE  Facts' /\ Tables'
  <2>1. /\ \A j \in Clients : linked[j] # Unknown => linked'[j] # Unknown
        /\ \A j \in Clients : linked'[j] \in accounts \cup {Nobody, Unknown}
    BY <1>0, <1>3, ConstantsOK DEF UnlinkClient, TypeOK, Tables, NoDanglingReference
  <2>2. UNCHANGED <<accounts, nextId, live, row, entries, known, case, req, era>>
    BY <1>3 DEF UnlinkClient
  <2>3. \A x : OwnerExists(x) => OwnerExists(x)'
    BY <2>1, <2>2 DEF OwnerExists
  <2>4. NoDanglingReference'
    BY <1>0, <2>1, <2>2, <2>3 DEF Tables, NoDanglingReference
  <2>5. Facts'
    BY <1>1, <2>1, <2>2 DEF SameUpload
  <2> QED BY <1>0, <2>2, <2>4, <2>5
          DEF Tables, IndexMatchesPayload, DuplicateSound, OneUploadPerOwner
<1>4. ASSUME UNCHANGED <<accounts, linked, nextId, req, era>>,
             live' \subseteq live, entries' \subseteq entries, known' \subseteq known,
             \A u \in live' : SameUpload(row'[u], row[u]) /\ row'[u].dupOf = row[u].dupOf,
             \A u \in live' : row[u].dupOf \in live' \cup {NoUpload},
             \A x \in entries' : x[1] \in live',
             \A c \in known' : /\ case'[c].source \in live' \cup {NoUpload}
                               /\ case'[c].creator \in {case[c].creator, Nobody}
      PROVE  Facts' /\ Tables'
  <2>1. \A x : OwnerExists(x) => OwnerExists(x)'
    BY <1>4 DEF OwnerExists
  <2>2. NoDanglingReference'
    BY <1>0, <1>4, <2>1 DEF Tables, NoDanglingReference, SameUpload
  <2>3. IndexMatchesPayload' /\ OneUploadPerOwner'
    BY <1>0, <1>4 DEF Tables, IndexMatchesPayload, OneUploadPerOwner, SameUpload
  <2>4. DuplicateSound'
    BY <1>0, <1>4 DEF Tables, DuplicateSound, SameUpload
  <2>5. Facts'
    BY <1>1, <1>4
  <2> QED BY <2>2, <2>3, <2>4, <2>5 DEF Tables
<1>5. ASSUME NEW c \in CaseIds, NEW verdict,
             DecideCase(c, verdict) \/ DecideRead(c, verdict) \/ DecideWrite(c, verdict)
      PROVE  Facts' /\ Tables'
  <2>1. /\ UNCHANGED <<accounts, linked, nextId, live, row, entries, known, fileVars, req, era>>
        /\ case' = case \/ case' = [case EXCEPT ![c].status = verdict]
    BY <1>5 DEF DecideCase, DecideRead, DecideWrite, dbVars
  <2>2. \A d \in known : case'[d].source = case[d].source /\ case'[d].creator = case[d].creator
    BY <1>0, <2>1 DEF TypeOK, CaseRow
  <2> QED BY <1>0, <1>4, <2>1, <2>2 DEF SameUpload, Tables, NoDanglingReference
<1>6. ASSUME NEW c \in CaseIds, DeleteCase(c)
      PROVE  Facts' /\ Tables'
  <2>1. \A d \in known' : case'[d] = case[d]
    BY <1>0, <1>6 DEF DeleteCase, TypeOK
  <2> QED BY <1>0, <1>4, <1>6, <2>1 DEF DeleteCase, SameUpload, Tables, NoDanglingReference
<1>7. CASE DeleteRejectedContent
  <2>1. ASSUME NEW u \in live
        PROVE  SameUpload(row'[u], row[u]) /\ row'[u].dupOf = row[u].dupOf
    <3>1. PICK gone : row' = [v \in UploadIds |-> [row[v] EXCEPT !.ingested = @ \ gone]]
      BY <1>7 DEF DeleteRejectedContent
    <3>2. row[u] \in UploadRow /\ row'[u] = [row[u] EXCEPT !.ingested = @ \ gone]
      BY <1>0, <3>1 DEF TypeOK
    <3> QED BY <3>2 DEF UploadRow, SameUpload
  <2>2. ASSUME NEW c \in known
        PROVE  /\ case'[c].source \in live \cup {NoUpload}
               /\ case'[c].creator \in {case[c].creator, Nobody}
    <3>1. case'[c] = Tombstone(c) \/ case'[c] = case[c]
      BY <1>0, <1>7 DEF DeleteRejectedContent, TypeOK
    <3> QED BY <1>0, <3>1 DEF Tombstone, Tables, NoDanglingReference
  <2> QED BY <1>0, <1>4, <1>7, <2>1, <2>2
          DEF DeleteRejectedContent, Tables, NoDanglingReference
<1>8. ASSUME NEW u \in UploadIds, Expire(u)
      PROVE  Facts' /\ Tables'
  <2>1. ASSUME NEW v \in live
        PROVE  SameUpload(row'[v], row[v]) /\ row'[v].dupOf = row[v].dupOf
    <3>1. row[v] \in UploadRow /\ (row'[v] = row[v] \/ row'[v] = [row[v] EXCEPT !.expired = TRUE])
      BY <1>0, <1>8 DEF Expire, TypeOK
    <3> QED BY <3>1 DEF UploadRow, SameUpload
  <2> QED BY <1>0, <1>4, <1>8, <2>1 DEF Expire, Tables, NoDanglingReference
<1>9. CASE RetentionCleanup
  <2>1. CASE Undeletable # {}
    <3>1. UNCHANGED <<live, row, case, accounts, linked, nextId, entries, known, req, era>>
      BY <1>9, <2>1 DEF RetentionCleanup
    <3> QED BY <1>0, <1>4, <3>1 DEF SameUpload, Tables, NoDanglingReference
  <2>2. CASE Undeletable = {}
    <3>1. /\ live' = live \ Expired
          /\ row' = [u \in UploadIds |-> IF u \in Expired THEN BlankRow ELSE row[u]]
          /\ case' = [c \in CaseIds |-> IF c \in known /\ case[c].source \in Expired
                                        THEN [case[c] EXCEPT !.source = NoUpload] ELSE case[c]]
          /\ UNCHANGED <<accounts, linked, nextId, entries, known, req, era>>
      BY <1>9, <2>2 DEF RetentionCleanup
    <3>2. \A u \in live' : row'[u] = row[u]
      BY <1>0, <3>1 DEF TypeOK
    <3>3. \A x \in entries : x[1] \in live'
      <4>1. \A x \in entries : x = <<x[1], x[2]>> /\ x[2] \in CaseIds
        BY <1>0 DEF TypeOK
      <4>2. \A u \in Expired, c \in CaseIds : <<u, c>> \notin entries
        BY <2>2 DEF Undeletable
      <4> QED BY <1>0, <3>1, <4>1, <4>2 DEF Tables, NoDanglingReference
    <3>4. ASSUME NEW v \in live' PROVE row[v].dupOf \in live' \cup {NoUpload}
      <4>1. v \in live /\ v \notin Expired /\ row[v].dupOf \in live \cup {NoUpload}
        BY <1>0, <3>1 DEF Tables, NoDanglingReference
      <4>2. row[v].dupOf \notin Expired
        BY <2>2, <4>1 DEF Undeletable
      <4> QED BY <3>1, <4>1, <4>2
    <3>5. ASSUME NEW c \in known
          PROVE  case'[c].source \in live' \cup {NoUpload} /\ case'[c].creator = case[c].creator
      <4>1. c \in CaseIds /\ case[c] \in CaseRow
        BY <1>0 DEF TypeOK
      <4>2. case'[c] = IF case[c].source \in Expired THEN [case[c] EXCEPT !.source = NoUpload] ELSE case[c]
        BY <3>1, <4>1
      <4>3. case[c].source \in live \cup {NoUpload}
        BY <1>0 DEF Tables, NoDanglingReference
      <4> QED BY <3>1, <4>1, <4>2, <4>3 DEF CaseRow
    <3> QED BY <1>4, <3>1, <3>2, <3>3, <3>4, <3>5 DEF SameUpload
  <2> QED BY <2>1, <2>2
<1>10. QED BY <1>2, <1>3, <1>5, <1>6, <1>7, <1>8, <1>9 DEF Elsewhere

(* Every step of the program keeps the inductive invariant.                *)
LEMMA StepSafe == SafeInv /\ [Next]_vars => SafeInv'
<1> SUFFICES ASSUME SafeInv, [Next]_vars PROVE SafeInv'
  OBVIOUS
<1>1. TypeInv'
  BY StepType DEF SafeInv
<1>2. ASSUME NEW r \in Requests, Submit(r) PROVE Facts' /\ Tables'
  BY <1>2, SubmitSafe
<1>3. ASSUME NEW e \in Erasers, Erase(e) PROVE Facts' /\ Tables'
  BY <1>3, EraseSafe
<1>4. ASSUME Elsewhere PROVE Facts' /\ Tables'
  BY <1>4, ElsewhereSafe
<1>5. ASSUME UNCHANGED vars PROVE Facts' /\ Tables'
  <2>1. Facts'
    BY <1>5, FactsFrame DEF vars, dbVars, SameUpload, Facts
  <2> QED BY <1>5, <2>1, TablesFrame DEF vars, SafeInv
<1>6. Facts' /\ Tables'
  BY <1>2, <1>3, <1>4, <1>5 DEF Next, Elsewhere
<1>7. QED BY <1>1, <1>6 DEF SafeInv

(* The tables stay consistent, and what a thread has read stays true of the *)
(* uploads that are still there, through every interleaving of the threads. *)
THEOREM SafeInvariant == Spec => []SafeInv
BY InitSafe, StepSafe, PTL DEF Spec

(* No operation, interleaved with any others and killed anywhere, leaves a *)
(* row that refers to one that is gone.                                    *)
THEOREM ReferencesSound == Spec => []NoDanglingReference
<1>1. SafeInv => NoDanglingReference
  BY DEF SafeInv, Tables
<1>2. QED BY <1>1, SafeInvariant, PTL

(* The index of an upload only ever lists cases of its accepted payload.   *)
THEOREM IndexSound == Spec => []IndexMatchesPayload
<1>1. SafeInv => IndexMatchesPayload
  BY DEF SafeInv, Tables
<1>2. QED BY <1>1, SafeInvariant, PTL

(* A duplicate always points at an upload of the same payload, and never   *)
(* at a later one, however its original is erased.                         *)
THEOREM DuplicatesSound == Spec => []DuplicateSound
<1>1. SafeInv => DuplicateSound
  BY DEF SafeInv, Tables
<1>2. QED BY <1>1, SafeInvariant, PTL

(* Concurrent uploads never give an owner the same payload twice.          *)
THEOREM UploadsUnique == Spec => []OneUploadPerOwner
<1>1. SafeInv => OneUploadPerOwner
  BY DEF SafeInv, Tables
<1>2. QED BY <1>1, SafeInvariant, PTL

(* An erasure unlinks no file of an upload it knew of and that is left.    *)
THEOREM SharedFilesKept == Spec => []SharedFileKept
<1>1. SafeInv => SharedFileKept
  BY DEF SafeInv, Facts, ErasureFact, SharedFileKept, PathsOf
<1>2. QED BY <1>1, SafeInvariant, PTL

(* A decided case is submitted again only by an erasure that rebuilds it:  *)
(* an upload that brings it anew, a moderator overtaken between reading    *)
(* and writing it, and retention all leave it decided.                     *)
THEOREM DecidedUntilErased == Spec => OnlyErasureReopens
<1> DEFINE Kept == \A c \in known \cap known' :
                      case[c].status # "submitted" => case'[c].status # "submitted"
<1>1. ASSUME TypeInv, NEW r \in Requests, Submit(r) PROVE Kept
  <2>1. CASE IngestWrite(r)
    <3>1. case' = [c \in CaseIds |->
                IF c \in ToInsert(r) \cup ToUpdate(r) THEN IngestedCase(r, c) ELSE case[c]]
      BY <2>1 DEF IngestWrite
    <3>2. ToInsert(r) \cap known = {}
      BY <2>1 DEF IngestWrite, IngestAllowed
    <3>3. ASSUME NEW c \in known PROVE c \in CaseIds /\ IngestedCase(r, c).status = case[c].status
      BY <1>1, <3>2 DEF TypeInv, TypeOK, CaseRow, IngestedCase
    <3> QED BY <3>1, <3>3
  <2>2. CASE ~IngestWrite(r)
    <3>1. case' = case
      BY <1>1, <2>2 DEF Submit, SubmitBegin, SubmitStore, SubmitInsert, SubmitInsertFails,
                        IngestRead, IngestFails, SubmitAborts, dbVars
    <3> QED BY <3>1
  <2> QED BY <2>1, <2>2
<1>2. ASSUME NEW e \in Erasers, Erase(e), ~EraseCommit(e) PROVE Kept
  <2>1. case' = case
    BY <1>2 DEF Erase, EraseBegin, EraseRead, EraseRefused, EraseRollback, EraseUnlink,
                EraseAborts, dbVars
  <2> QED BY <2>1
<1>3. ASSUME TypeInv, Elsewhere PROVE Kept
  <2>1. ASSUME NEW c \in CaseIds, NEW verdict \in Verdicts,
               DecideCase(c, verdict) \/ DecideRead(c, verdict) \/ DecideWrite(c, verdict)
        PROVE  Kept
    <3>1. case' = case \/ case' = [case EXCEPT ![c].status = verdict]
      BY <2>1 DEF DecideCase, DecideRead, DecideWrite, dbVars
    <3> QED BY <1>3, <3>1 DEF TypeInv, TypeOK, CaseRow, Verdicts
  <2>2. ASSUME NEW c \in CaseIds, DeleteCase(c) PROVE Kept
    BY <1>3, <2>2 DEF DeleteCase, TypeInv, TypeOK
  <2>3. CASE DeleteRejectedContent
    <3>1. ASSUME NEW c \in known PROVE case'[c].status = case[c].status
      BY <1>3, <2>3 DEF DeleteRejectedContent, Tombstone, TypeInv, TypeOK
    <3> QED BY <3>1
  <2>4. CASE RetentionCleanup
    <3>1. ASSUME NEW c \in known PROVE case'[c].status = case[c].status
      BY <1>3, <2>4 DEF RetentionCleanup, TypeInv, TypeOK, CaseRow
    <3> QED BY <3>1
  <2>5. CASE case' = case
    BY <2>5
  <2> QED BY <1>3, <2>1, <2>2, <2>3, <2>4, <2>5 DEF Elsewhere, LinkClient, UnlinkClient, Expire
<1>4. ASSUME UNCHANGED vars PROVE Kept
  BY <1>4 DEF vars, dbVars
<1>5. TypeInv /\ [Next]_vars => (Kept \/ \E e \in Erasers : EraseCommit(e))
  BY <1>1, <1>2, <1>3, <1>4 DEF Next, Elsewhere
<1>6. TypeInv /\ [Next]_vars =>
        [\A c \in known \cap known' :
            case[c].status # "submitted" /\ case'[c].status = "submitted"
            => \E e \in Erasers : EraseCommit(e)]_vars
  BY <1>5
<1>7. Spec => []TypeInv
  BY InitType, StepType, PTL DEF Spec
<1>8. QED BY <1>6, <1>7, PTL DEF Spec, OnlyErasureReopens
-----------------------------------------------------------------------------
(* One operation at a time.                                                *)

Running == {r \in Requests : req[r].pc # "idle"}
Erasing == {e \in Erasers : era[e].pc # "idle"}

(* At most one thread or moderator is between two of its steps.            *)
AloneOK ==
    /\ IsFiniteSet(judged)
    /\ \A r, q \in Running : r = q
    /\ \A e, f \in Erasing : e = f
    /\ Running = {} \/ Erasing = {}
    /\ judged # {} => Running = {} /\ Erasing = {}

(* Nobody else is; the one that acts is a thread of requests or of erasures *)
(* or none of them.                                                        *)
OnlyRequest(r) == Running \subseteq {r} /\ Erasing = {} /\ judged = {}
OnlyErasure(e) == Running = {} /\ Erasing \subseteq {e} /\ judged = {}
AllIdle        == Running = {} /\ Erasing = {}

(* An upload being ingested is the newest there is, and what its thread has *)
(* read of the cases is how they are.                                      *)
RequestAlone(r) ==
    /\ req[r].pc \in {"ingest", "write"} =>
        /\ req[r].id \in live
        /\ \A v \in live : v <= req[r].id
    /\ req[r].pc = "write" =>
        /\ req[r].seen = known
        /\ req[r].gone = {c \in known : Tombstoned(c)}
        /\ req[r].mine = {c \in CaseIds : <<req[r].id, c>> \in entries}

(* The snapshot of an erasure is how the tables are.                       *)
ErasureAlone(e) ==
    /\ era[e].pc = "commit" =>
        /\ era[e].rows = live /\ era[e].indexed = entries /\ era[e].known = known
        /\ era[e].targets = TargetsOf(e) /\ era[e].affected = AffectedBy(e)
    /\ era[e].pc = "unlink" => live \subseteq era[e].rows

(* An upload is indexed under every case its ingestion stored.             *)
IndexedOK == \A u \in live : \A c \in row[u].ingested : <<u, c>> \in entries

VersionsOK == NewestVersionWins /\ IndexedOK

AloneInv ==
    /\ AloneOK
    /\ \A r \in Requests : RequestAlone(r)
    /\ \A e \in Erasers : ErasureAlone(e)
    /\ VersionsOK
    /\ ErasureComplete

(* An operation begins only when none is under way.                        *)
LEMMA BeginsAlone ==
    ASSUME IsFiniteSet(judged), MaxInFlight = 1, InFlight < MaxInFlight
    PROVE  Running = {} /\ Erasing = {} /\ judged = {}
<1>1. IsFiniteSet(Running) /\ IsFiniteSet(Erasing)
  <2>1. Running \in SUBSET Requests /\ Erasing \in SUBSET Erasers
    BY DEF Running, Erasing
  <2> QED BY <2>1, ConstantsOK, FS_Subset
<1>2. /\ Cardinality(Running) \in Nat /\ Cardinality(Erasing) \in Nat
      /\ Cardinality(judged) \in Nat
  BY <1>1, FS_CardinalityType
<1>3. Cardinality(Running) + Cardinality(Erasing) + Cardinality(judged) < 1
  BY DEF InFlight, Running, Erasing
<1>4. Cardinality(Running) = 0 /\ Cardinality(Erasing) = 0 /\ Cardinality(judged) = 0
  BY <1>2, <1>3
<1>5. QED BY <1>1, <1>4, FS_EmptySet

(* Whoever acts has the program for itself.                                *)
LEMMA ActsAlone ==
    ASSUME AloneOK, MaxInFlight = 1
    PROVE  /\ \A r \in Requests : Submit(r) => OnlyRequest(r)
           /\ \A e \in Erasers : Erase(e) => OnlyErasure(e)
           /\ Elsewhere => AllIdle \/ \E u \in UploadIds : Expire(u)
<1>0. IsFiniteSet(judged) /\ (InFlight < MaxInFlight => AllIdle /\ judged = {})
  BY BeginsAlone DEF AloneOK, AllIdle
<1>1. ASSUME NEW r \in Requests, Submit(r) PROVE OnlyRequest(r)
  <2>1. CASE r \in Running
    BY <2>1 DEF AloneOK, OnlyRequest
  <2>2. CASE r \notin Running
    <3>1. InFlight < MaxInFlight
      BY <1>1, <2>2 DEF Submit, SubmitBegin, SubmitStore, SubmitInsert, SubmitInsertFails,
                        IngestRead, IngestWrite, IngestFails, SubmitAborts, Running
    <3> QED BY <1>0, <3>1 DEF OnlyRequest, AllIdle
  <2> QED BY <2>1, <2>2
<1>2. ASSUME NEW e \in Erasers, Erase(e) PROVE OnlyErasure(e)
  <2>1. CASE e \in Erasing
    BY <2>1 DEF AloneOK, OnlyErasure
  <2>2. CASE e \notin Erasing
    <3>1. InFlight < MaxInFlight
      BY <1>2, <2>2 DEF Erase, EraseBegin, EraseRead, EraseRefused, EraseCommit, EraseRollback,
                        EraseUnlink, EraseAborts, Erasing
    <3> QED BY <1>0, <3>1 DEF OnlyErasure, AllIdle
  <2> QED BY <2>1, <2>2
<1>3. ASSUME Elsewhere PROVE AllIdle \/ \E u \in UploadIds : Expire(u)
  <2>1. CASE \E c \in CaseIds, verdict \in Verdicts : DecideWrite(c, verdict)
    <3>1. judged # {}
      BY <2>1 DEF DecideWrite
    <3> QED BY <3>1 DEF AloneOK, AllIdle
  <2>2. CASE InFlight < MaxInFlight
    BY <1>0, <2>2
  <2> QED BY <1>3, <2>1, <2>2 DEF Elsewhere, LinkClient, UnlinkClient, DecideCase, DecideRead,
                                  DeleteCase, DeleteRejectedContent, RetentionCleanup
<1>4. QED BY <1>1, <1>2, <1>3

(* Nobody joins whoever acts.                                              *)
LEMMA StaysAlone ==
    ASSUME TypeOK, AloneOK, MaxInFlight = 1, [Next]_vars
    PROVE  AloneOK'
<1>1. ASSUME NEW r \in Requests, Submit(r) PROVE AloneOK'
  <2>1. OnlyRequest(r)
    BY <1>1, ActsAlone
  <2>2. /\ UNCHANGED <<era, judged>>
        /\ \A q \in Requests \ {r} : req'[q] = req[q]
    BY <1>1 DEF TypeOK, Submit, SubmitBegin, SubmitStore, SubmitInsert, SubmitInsertFails,
                IngestRead, IngestWrite, IngestFails, SubmitAborts
  <2>3. Running' \subseteq {r} /\ Erasing' = {} /\ judged' = {}
    BY <2>1, <2>2 DEF Running, Erasing, OnlyRequest
  <2> QED BY <2>3, FS_EmptySet DEF AloneOK
<1>2. ASSUME NEW e \in Erasers, Erase(e) PROVE AloneOK'
  <2>1. OnlyErasure(e)
    BY <1>2, ActsAlone
  <2>2. /\ UNCHANGED req /\ judged' \subseteq judged
        /\ \A f \in Erasers \ {e} : era'[f] = era[f]
    BY <1>2 DEF TypeOK, Erase, EraseBegin, EraseRead, EraseRefused, EraseCommit, EraseRollback,
                EraseUnlink, EraseAborts, StillThere
  <2>3. Erasing' \subseteq {e} /\ Running' = {} /\ judged' = {}
    BY <2>1, <2>2 DEF Running, Erasing, OnlyErasure
  <2> QED BY <2>3, FS_EmptySet DEF AloneOK
<1>3. ASSUME Elsewhere PROVE AloneOK'
  <2>1. UNCHANGED <<req, era>>
    BY <1>3 DEF Elsewhere, LinkClient, UnlinkClient, DecideCase, DecideRead, DecideWrite,
                DeleteCase, DeleteRejectedContent, Expire, RetentionCleanup
  <2>2. Running' = Running /\ Erasing' = Erasing
    BY <2>1 DEF Running, Erasing
  <2>3. CASE \E u \in UploadIds : Expire(u)
    <3>1. judged' = judged
      BY <2>3 DEF Expire
    <3> QED BY <2>2, <3>1 DEF AloneOK
  <2>4. CASE AllIdle
    <3>1. judged' \subseteq judged \/ \E x : judged' = judged \cup {x}
      BY <1>3 DEF Elsewhere, LinkClient, UnlinkClient, DecideCase, DecideRead, DecideWrite,
                  DeleteCase, DeleteRejectedContent, Expire, RetentionCleanup, StillThere
    <3>2. IsFiniteSet(judged')
      BY <3>1, FS_Subset, FS_AddElement DEF AloneOK
    <3> QED BY <2>2, <2>4, <3>2 DEF AloneOK, AllIdle
  <2> QED BY <1>3, <2>3, <2>4, ActsAlone
<1>4. CASE UNCHANGED vars
  BY <1>4 DEF vars, AloneOK, Running, Erasing
<1>5. QED BY <1>1, <1>2, <1>3, <1>4 DEF Next, Elsewhere

(* A step that only adds uploads and index entries, or removes cases, leaves *)
(* every case with its newest version.                                     *)
LEMMA VersionsFrame ==
    ASSUME VersionsOK, entries \subseteq entries', known' \subseteq known, live \subseteq live',
           \A c \in known' : /\ case'[c].source = case[c].source
                             /\ case'[c].content = case[c].content,
           \A u \in live : row'[u].sha = row[u].sha /\ row'[u].ingested = row[u].ingested,
           \A u \in live' \ live : row'[u].ingested = {}
    PROVE  VersionsOK'
<1>1. ContentHasUpload'
  <2> SUFFICES ASSUME NEW c \in known', case'[c].content # Nothing
               PROVE  \E u \in live' : <<u, c>> \in entries' /\ row'[u].sha = case'[c].content
    BY DEF ContentHasUpload
  <2>1. PICK u \in live : <<u, c>> \in entries /\ row[u].sha = case[c].content
    BY DEF VersionsOK, NewestVersionWins, ContentHasUpload
  <2> QED BY <2>1
<1>2. ASSUME NEW c \in known', case'[c].source # NoUpload
      PROVE  /\ <<case'[c].source, c>> \in entries'
             /\ \A u \in live' : c \in row'[u].ingested => u <= case'[c].source
  BY <1>2 DEF VersionsOK, NewestVersionWins
<1>3. IndexedOK'
  BY DEF VersionsOK, IndexedOK
<1>4. QED BY <1>1, <1>2, <1>3 DEF VersionsOK, NewestVersionWins

(* The cases an upload stores are then its versions: it is the newest.     *)
LEMMA IngestWriteAlone ==
    ASSUME SafeInv, VersionsOK, NEW r \in Requests, RequestAlone(r), IngestWrite(r)
    PROVE  VersionsOK'
<1>a. PICK u, acc : u = req[r].id /\ acc = req[r].acc
  OBVIOUS
<1>0. TypeOK /\ RequestOK /\ RequestFact(r) /\ req[r].pc = "write"
  BY DEF SafeInv, TypeInv, Facts, IngestWrite
<1>1. /\ u \in live /\ u \in UploadIds /\ (\A v \in live : v <= u) /\ req[r].seen = known
      /\ req[r].mine = {c \in CaseIds : <<u, c>> \in entries}
      /\ acc \in Payloads /\ CasesOf[acc] \subseteq CaseIds /\ row[u].sha = acc
  BY <1>0, <1>a, ConstantsOK DEF RequestAlone, TypeOK, RequestOK, RequestFact
<1>2. /\ ToStore(r) \subseteq CaseIds
      /\ ToStore(r) = ToInsert(r) \cup ToUpdate(r) /\ ToInsert(r) \cap known = {}
  BY <1>1, <1>a DEF ToStore, ToInsert, ToUpdate
<1>3. /\ entries' = entries \cup ({u} \X ToIndex(r)) /\ known' = known \cup ToInsert(r)
      /\ live' = live /\ known \subseteq CaseIds
      /\ row' = [row EXCEPT ![u].ingested = ToStore(r)]
  BY <1>0, <1>1, <1>a DEF IngestWrite, TypeOK
<1>4. ASSUME NEW c \in ToStore(r)
      PROVE  case'[c].source = u /\ case'[c].content = acc /\ <<u, c>> \in entries'
  <2>1. c \in CaseIds /\ case[c] \in CaseRow
    BY <1>0, <1>2 DEF TypeOK
  <2>2. case'[c] = IngestedCase(r, c)
    BY <1>2, <2>1 DEF IngestWrite
  <2>3. case'[c].source = u /\ case'[c].content = acc
    BY <1>a, <2>1, <2>2 DEF IngestedCase, CaseRow
  <2>4. <<u, c>> \in entries'
    BY <1>1, <1>3, <1>a, <2>1 DEF ToIndex
  <2> QED BY <2>3, <2>4
<1>5. ASSUME NEW c \in known', c \notin ToStore(r) PROVE c \in known /\ case'[c] = case[c]
  BY <1>2, <1>3, <1>5 DEF IngestWrite
<1>6. \A v \in live : /\ row'[v].sha = row[v].sha
                      /\ row'[v].ingested = IF v = u THEN ToStore(r) ELSE row[v].ingested
  <2> HIDE DEF ToStore
  <2> QED BY <1>0, <1>1, <1>3 DEF TypeOK, UploadRow
<1>7. ContentHasUpload'
  <2> SUFFICES ASSUME NEW c \in known', case'[c].content # Nothing
               PROVE  \E v \in live' : <<v, c>> \in entries' /\ row'[v].sha = case'[c].content
    BY DEF ContentHasUpload
  <2>1. CASE c \in ToStore(r)
    BY <1>1, <1>3, <1>4, <1>6, <2>1
  <2>2. CASE c \notin ToStore(r)
    <3>1. PICK v \in live : <<v, c>> \in entries /\ row[v].sha = case[c].content
      BY <1>5, <2>2 DEF VersionsOK, NewestVersionWins, ContentHasUpload
    <3> QED BY <1>3, <1>5, <1>6, <2>2, <3>1
  <2> QED BY <2>1, <2>2
<1>8. ASSUME NEW c \in known', case'[c].source # NoUpload
      PROVE  /\ <<case'[c].source, c>> \in entries'
             /\ \A v \in live' : c \in row'[v].ingested => v <= case'[c].source
  <2>1. CASE c \in ToStore(r)
    BY <1>1, <1>3, <1>4, <2>1
  <2>2. CASE c \notin ToStore(r)
    BY <1>3, <1>5, <1>6, <1>8, <2>2 DEF VersionsOK, NewestVersionWins
  <2> QED BY <2>1, <2>2
<1>9. ASSUME NEW v \in live', NEW c \in row'[v].ingested PROVE <<v, c>> \in entries'
  <2>1. CASE v = u
    BY <1>3, <1>4, <1>6, <2>1
  <2>2. CASE v # u
    BY <1>3, <1>6, <2>2 DEF VersionsOK, IndexedOK
  <2> QED BY <2>1, <2>2
<1>10. QED BY <1>7, <1>8, <1>9 DEF VersionsOK, NewestVersionWins, IndexedOK

(* An upload on its own.                                                   *)
LEMMA SubmitAlone ==
    ASSUME SafeInv, VersionsOK, NEW r \in Requests, RequestAlone(r), Submit(r)
    PROVE  RequestAlone(r)' /\ VersionsOK'
<1>0. TypeOK /\ RequestOK /\ Facts /\ req[r] \in Request
  BY DEF SafeInv, TypeInv, TypeOK
<1>1. ASSUME UNCHANGED dbVars PROVE VersionsOK'
  BY <1>1, VersionsFrame DEF dbVars
<1>2. ASSUME req'[r].pc \notin {"ingest", "write"} PROVE RequestAlone(r)'
  BY <1>2 DEF RequestAlone
<1>3. ASSUME NEW o \in Owners, NEW s \in Submissions, SubmitBegin(r, o, s[1], s[2])
      PROVE  RequestAlone(r)' /\ VersionsOK'
  <2>1. CASE req' = req
    BY <1>1, <1>3, <2>1 DEF SubmitBegin, RequestAlone
  <2>2. CASE req' # req
    <3> DEFINE sha == IF s[1] # Nothing THEN s[1] ELSE s[2]
               new == [NoRequest EXCEPT !.pc = "store", !.owner = o, !.acc = s[1], !.sha = sha,
                                        !.dup = EarliestOf(WithSha(row, live, sha)),
                                        !.fresh = o \in Clients /\ linked[o] = Unknown]
    <3>1. req' = [req EXCEPT ![r] = new]
      BY <1>3, <2>2 DEF SubmitBegin
    <3>2. req'[r].pc = "store"
      BY <1>0, <3>1 DEF TypeOK, NoRequest
    <3> QED BY <1>1, <1>2, <1>3, <3>2 DEF SubmitBegin
  <2> QED BY <2>1, <2>2
<1>4. CASE SubmitStore(r)
  <2>1. req'[r].pc = "insert" /\ UNCHANGED dbVars
    BY <1>0, <1>4 DEF SubmitStore, TypeOK, Request
  <2> QED BY <1>1, <1>2, <2>1
<1>5. CASE SubmitInsert(r)
  <2> DEFINE next == IF req[r].acc # Nothing
                     THEN [req[r] EXCEPT !.pc = "ingest", !.id = nextId] ELSE NoRequest
  <2>1. PICK owner, sha, status, dup :
           row' = [row EXCEPT ![nextId] =
                      [owner |-> owner, sha |-> sha, status |-> status, dupOf |-> dup,
                       expired |-> FALSE, ingested |-> {}]]
    BY <1>5 DEF SubmitInsert
  <2>2. /\ nextId \in UploadIds /\ live' = live \cup {nextId}
        /\ req' = [req EXCEPT ![r] = next] /\ UNCHANGED <<entries, known, case>>
    BY <1>5 DEF SubmitInsert
  <2>3. nextId \notin live /\ \A u \in live : u < nextId /\ u \in UploadIds
    BY <1>0 DEF Facts, TypeOK, UploadIds
  <2>4. VersionsOK'
    <3>1. \A u \in live : row'[u] = row[u]
      BY <1>0, <2>1, <2>3 DEF TypeOK
    <3>2. row'[nextId].ingested = {}
      BY <1>0, <2>1, <2>2 DEF TypeOK
    <3> QED BY <2>1, <2>2, <3>1, <3>2, VersionsFrame
  <2>5. CASE req[r].acc # Nothing
    <3>1. req'[r].pc = "ingest" /\ req'[r].id = nextId
      BY <1>0, <2>2, <2>5 DEF TypeOK, Request
    <3> QED BY <2>2, <2>3, <2>4, <3>1 DEF RequestAlone, UploadIds
  <2>6. CASE req[r].acc = Nothing
    <3>1. req'[r] = NoRequest
      BY <1>0, <2>2, <2>6 DEF TypeOK
    <3> QED BY <1>2, <2>4, <3>1 DEF NoRequest
  <2> QED BY <2>5, <2>6
<1>6. CASE SubmitInsertFails(r) \/ IngestFails(r) \/ SubmitAborts(r)
  <2>1. req'[r] = NoRequest /\ UNCHANGED dbVars
    BY <1>0, <1>6 DEF SubmitInsertFails, IngestFails, SubmitAborts, TypeOK
  <2> QED BY <1>1, <1>2, <2>1 DEF NoRequest
<1>7. CASE IngestRead(r)
  <2> DEFINE gone == {c \in known : Tombstoned(c)}
             mine == {c \in CaseIds : <<req[r].id, c>> \in entries}
             new == [req[r] EXCEPT !.pc = "write", !.seen = known, !.gone = gone, !.mine = mine]
  <2>1. UNCHANGED dbVars /\ req' = [req EXCEPT ![r] = new] /\ req[r].pc = "ingest"
    BY <1>7 DEF IngestRead
  <2> HIDE DEF gone, mine
  <2>2. /\ req'[r].pc = "write" /\ req'[r].id = req[r].id /\ req'[r].seen = known
        /\ req'[r].gone = gone /\ req'[r].mine = mine
    BY <1>0, <2>1 DEF TypeOK, Request
  <2>3. gone = {c \in known' : Tombstoned(c)'}
    BY <2>1 DEF gone, Tombstoned, dbVars
  <2>4. mine = {c \in CaseIds : <<req'[r].id, c>> \in entries'}
    BY <2>1, <2>2 DEF mine, dbVars
  <2>5. RequestAlone(r)'
    BY <2>1, <2>2, <2>3, <2>4 DEF RequestAlone, dbVars
  <2> QED BY <1>1, <2>1, <2>5
<1>8. CASE IngestWrite(r)
  <2>1. req'[r] = NoRequest
    BY <1>0, <1>8 DEF IngestWrite, TypeOK
  <2>2. RequestAlone(r)'
    BY <1>2, <2>1 DEF NoRequest
  <2> QED BY <1>8, <2>2, IngestWriteAlone
<1>9. QED BY <1>3, <1>4, <1>5, <1>6, <1>7, <1>8 DEF Submit

(* What an erasure rebuilds is the newest version that is left, and nothing *)
(* of the user's remains: its snapshot is how the tables are.              *)
LEMMA EraseCommitAlone ==
    ASSUME SafeInv, VersionsOK, NEW e \in Erasers, ErasureAlone(e), EraseCommit(e)
    PROVE  /\ VersionsOK'
           /\ live' \subseteq era[e].rows
           /\ era[e].kind # "upload" =>
                /\ \A u \in live' : ~OwnedBy(era[e].user, row'[u].owner)
                /\ \A c \in known' : ~OwnedBy(era[e].user, case'[c].creator)
<1>a. PICK targets, old, user : targets = era[e].targets /\ old = era[e].old /\ user = era[e].user
  OBVIOUS
<1>0. TypeOK /\ ErasureFact(e) /\ era[e].pc = "commit"
  BY DEF SafeInv, TypeInv, Facts, EraseCommit
<1>1. /\ targets = TargetsOf(e) /\ targets \subseteq live /\ live \subseteq UploadIds
      /\ era[e].rows = live /\ era[e].indexed = entries /\ era[e].known = known
      /\ era[e].affected = AffectedBy(e)
      /\ \A u \in live : SameUpload(row[u], old[u])
  BY <1>0, <1>a DEF ErasureAlone, ErasureFact, TargetsOf, TypeOK
<1>2. /\ live' = live \ targets /\ known' = KnownAfter(e)
      /\ entries' = {x \in entries : x[1] \notin targets}
      /\ case' = [c \in CaseIds |-> CaseAfter(e, c)]
  BY <1>a DEF EraseCommit
<1>3. Left(e) = live' /\ SeenCases(e) = known
  BY <1>1, <1>2, <1>a DEF Left, Deleted, SeenCases
<1>4. ASSUME NEW v \in live'
      PROVE  /\ v \in live /\ v \notin targets
             /\ row'[v].sha = row[v].sha /\ row'[v].owner = row[v].owner
             /\ row'[v].ingested = row[v].ingested
  <2>1. v \in live /\ v \notin targets /\ v \in UploadIds /\ row[v] \in UploadRow
    BY <1>0, <1>1, <1>2, <1>4 DEF TypeOK
  <2> DEFINE rep == Replacement(e, era[e].old[row[v].dupOf].sha)
  <2>2. row'[v] = row[v] \/ row'[v] = [row[v] EXCEPT !.dupOf = rep]
    BY <1>a, <2>1 DEF EraseCommit
  <2> HIDE DEF rep
  <2> QED BY <2>1, <2>2 DEF UploadRow
<1>5. ASSUME NEW c \in known', c \notin Rebuilt(e)
      PROVE  /\ c \in known /\ case'[c] = case[c] /\ c \notin AffectedBy(e)
             /\ \A u \in targets : <<u, c>> \notin entries
             /\ ~OwnedBy(user, case[c].creator)
  <2>1. c \in known /\ c \in CaseIds /\ c \notin AffectedBy(e)
    BY <1>0, <1>1, <1>2, <1>5 DEF KnownAfter, Rebuilt, TypeOK
  <2>2. /\ case[c].source \notin targets /\ ~OwnedBy(user, case[c].creator)
        /\ \A u \in targets : <<u, c>> \notin entries
    BY <1>1, <1>a, <2>1 DEF AffectedBy
  <2>3. case'[c] = case[c]
    BY <1>2, <1>5, <1>a, <2>1, <2>2 DEF CaseAfter
  <2> QED BY <2>1, <2>2, <2>3
<1>6. ASSUME NEW c \in known', c \in Rebuilt(e)
      PROVE  \E first, last \in live' :
                /\ <<last, c>> \in entries' /\ case'[c].source = last
                /\ case'[c].content = row[last].sha /\ case'[c].creator = row[first].owner
                /\ \A v \in live' : <<v, c>> \in entries => v <= last
  <2> DEFINE left == Remaining(e, c)
  <2>1. left = {u \in live' : <<u, c>> \in entries} /\ c \in CaseIds
    BY <1>1, <1>3, <1>6 DEF Remaining, Rebuilt, AffectedBy
  <2>2. left # {}
    BY <1>6 DEF Rebuilt, Dropped
  <2> HIDE DEF left
  <2>3. left \in SUBSET Nat /\ left \in SUBSET (1..MaxUploads)
    <3>1. \A u \in left : u \in UploadIds
      BY <1>1, <1>4, <2>1
    <3>2. UploadIds = 1..MaxUploads
      BY DEF UploadIds
    <3>3. \A u \in UploadIds : u \in Nat
      BY <3>2
    <3> QED BY <3>1, <3>2, <3>3
  <2>4. Min(left) \in left
    BY <2>2, <2>3, MinExists
  <2>5. Max(left) \in left /\ \A y \in left : y <= Max(left)
    BY <2>2, <2>3, ConstantsOK, MaxExists
  <2>6. case'[c] = RebuiltCase(e, c)
    BY <1>2, <1>6, <2>1 DEF CaseAfter
  <2>7. /\ case'[c].source = Max(left) /\ case'[c].content = old[Max(left)].sha
        /\ case'[c].creator = old[Min(left)].owner
    BY <1>a, <2>6 DEF RebuiltCase, left
  <2>8. Max(left) \in live' /\ Min(left) \in live' /\ <<Max(left), c>> \in entries'
    BY <1>2, <2>1, <2>4, <2>5
  <2>9. old[Max(left)].sha = row[Max(left)].sha /\ old[Min(left)].owner = row[Min(left)].owner
    BY <1>1, <1>4, <2>8 DEF SameUpload
  <2> QED BY <2>1, <2>5, <2>7, <2>8, <2>9
<1>7. \A u \in live', c \in CaseIds : <<u, c>> \in entries => <<u, c>> \in entries'
  BY <1>2, <1>4
<1>8. known' \subseteq CaseIds
  <2>1. KnownAfter(e) \subseteq CaseIds
    BY <1>0, <1>1 DEF KnownAfter, Rebuilt, AffectedBy, TypeOK
  <2> QED BY <1>2, <2>1
<1>9. IndexedOK'
  BY <1>2, <1>4 DEF VersionsOK, IndexedOK
<1>10. ContentHasUpload'
  <2> SUFFICES ASSUME NEW c \in known', case'[c].content # Nothing
               PROVE  \E u \in live' : <<u, c>> \in entries' /\ row'[u].sha = case'[c].content
    BY DEF ContentHasUpload
  <2>1. CASE c \in Rebuilt(e)
    BY <1>4, <1>6, <2>1
  <2>2. CASE c \notin Rebuilt(e)
    <3>1. PICK u \in live : <<u, c>> \in entries /\ row[u].sha = case[c].content
      BY <1>5, <2>2 DEF VersionsOK, NewestVersionWins, ContentHasUpload
    <3>2. u \in live'
      BY <1>2, <1>5, <2>2, <3>1
    <3> QED BY <1>4, <1>5, <1>7, <1>8, <2>2, <3>1, <3>2
  <2> QED BY <2>1, <2>2
<1>11. ASSUME NEW c \in known', case'[c].source # NoUpload
       PROVE  /\ <<case'[c].source, c>> \in entries'
              /\ \A u \in live' : c \in row'[u].ingested => u <= case'[c].source
  <2>1. CASE c \in Rebuilt(e)
    <3>1. \A u \in live' : c \in row'[u].ingested => <<u, c>> \in entries
      BY <1>4 DEF VersionsOK, IndexedOK
    <3> QED BY <1>6, <2>1, <3>1
  <2>2. CASE c \notin Rebuilt(e)
    <3>1. <<case[c].source, c>> \in entries /\ \A u \in live : c \in row[u].ingested => u <= case[c].source
      BY <1>5, <1>11, <2>2 DEF VersionsOK, NewestVersionWins
    <3>2. <<case[c].source, c>> \in entries'
      BY <1>2, <1>5, <2>2, <3>1
    <3> QED BY <1>4, <1>5, <2>2, <3>1, <3>2
  <2> QED BY <2>1, <2>2
<1>12. VersionsOK'
  BY <1>9, <1>10, <1>11 DEF VersionsOK, NewestVersionWins
<1>13. ASSUME era[e].kind # "upload"
       PROVE  /\ \A u \in live' : ~OwnedBy(user, row[u].owner)
              /\ \A c \in known' : ~OwnedBy(user, case'[c].creator)
  <2>1. \A u \in live' : ~OwnedBy(user, row[u].owner)
    BY <1>1, <1>13, <1>4, <1>a DEF TargetsOf
  <2> QED BY <1>5, <1>6, <2>1
<1>14. QED BY <1>1, <1>2, <1>4, <1>12, <1>13, <1>a

Erased(e) ==
    /\ \A u \in live : ~OwnedBy(era[e].user, row[u].owner)
    /\ \A c \in known : ~OwnedBy(era[e].user, case[c].creator)

(* An erasure on its own.                                                  *)
LEMMA EraseAlone ==
    ASSUME SafeInv, VersionsOK, NEW e \in Erasers, ErasureAlone(e), Erase(e)
    PROVE  /\ ErasureAlone(e)' /\ VersionsOK'
           /\ era'[e].pc = "unlink" /\ era'[e].kind # "upload" => Erased(e)'
<1>0. TypeOK /\ era[e] \in Erasure /\ ErasureFact(e)
  BY DEF SafeInv, TypeInv, TypeOK, Facts
<1>1. ASSUME UNCHANGED <<live, row, known, case>>, entries \subseteq entries' PROVE VersionsOK'
  BY <1>1, VersionsFrame
<1>2. ASSUME era'[e].pc \in {"idle", "read"}, UNCHANGED <<live, row, known, case>>,
             entries \subseteq entries'
      PROVE  /\ ErasureAlone(e)' /\ VersionsOK' /\ era'[e].pc # "unlink"
  BY <1>1, <1>2 DEF ErasureAlone
<1>3. ASSUME NEW user \in Users, NEW kind \in {"upload", "purge", "account"},
             NEW only \in UploadIds \cup {NoUpload}, EraseBegin(e, user, kind, only)
      PROVE  /\ ErasureAlone(e)' /\ VersionsOK' /\ era'[e].pc # "unlink"
  <2>1. era'[e].pc = "read"
    BY <1>0, <1>3 DEF EraseBegin, NoErasure, TypeOK
  <2> QED BY <1>2, <1>3, <2>1 DEF EraseBegin
<1>4. CASE EraseRead(e)
  <2> DEFINE new == [era[e] EXCEPT !.pc = "commit", !.targets = TargetsOf(e),
                                   !.affected = AffectedBy(e), !.rows = live, !.old = row,
                                   !.indexed = entries, !.known = known]
  <2>a. PICK targets, affected : targets = TargetsOf(e) /\ affected = AffectedBy(e)
    OBVIOUS
  <2>1. UNCHANGED dbVars /\ era' = [era EXCEPT ![e] =
            [era[e] EXCEPT !.pc = "commit", !.targets = targets, !.affected = affected,
                           !.rows = live, !.old = row, !.indexed = entries, !.known = known]]
    BY <1>4, <2>a DEF EraseRead
  <2>2. /\ era'[e].pc = "commit" /\ era'[e].targets = targets /\ era'[e].affected = affected
        /\ era'[e].rows = live /\ era'[e].indexed = entries /\ era'[e].known = known
        /\ era'[e].user = era[e].user /\ era'[e].kind = era[e].kind /\ era'[e].only = era[e].only
    BY <1>0, <2>1 DEF TypeOK, Erasure
  <2>3. targets = TargetsOf(e)'
    BY <2>1, <2>2, <2>a DEF TargetsOf, OwnedBy, dbVars
  <2>4. affected = AffectedBy(e)'
    BY <2>1, <2>2, <2>3, <2>a DEF AffectedBy, OwnedBy, dbVars
  <2>5. ErasureAlone(e)'
    BY <2>1, <2>2, <2>3, <2>4 DEF ErasureAlone, dbVars
  <2> QED BY <1>1, <2>1, <2>2, <2>5 DEF dbVars
<1>5. CASE EraseRefused(e) \/ EraseRollback(e) \/ EraseAborts(e) \/ EraseUnlink(e)
  <2>1. UNCHANGED dbVars /\ era'[e].pc = "idle"
    BY <1>0, <1>5 DEF EraseRefused, EraseRollback, EraseAborts, EraseUnlink, NoErasure, TypeOK
  <2> QED BY <1>2, <2>1 DEF dbVars
<1>6. CASE EraseCommit(e)
  <2>a. PICK paths : paths = Unreferenced(e)
    OBVIOUS
  <2>1. era' = [era EXCEPT ![e] = [era[e] EXCEPT !.pc = "unlink", !.paths = paths]]
    BY <1>6, <2>a DEF EraseCommit
  <2>2. era'[e].pc = "unlink" /\ era'[e].rows = era[e].rows /\ era'[e].kind = era[e].kind
      /\ era'[e].user = era[e].user
    BY <1>0, <2>1 DEF TypeOK, Erasure
  <2>3. ErasureAlone(e)'
    BY <1>6, <2>2, EraseCommitAlone DEF ErasureAlone
  <2>4. \A k \in Clients : linked'[k] = era[e].user => linked[k] = era[e].user
    BY <1>6 DEF EraseCommit, LinkedAfter
  <2>5. ASSUME NEW o, ~OwnedBy(era[e].user, o)
        PROVE  ~(o = era[e].user \/ (o \in Clients /\ linked'[o] = era[e].user))
    BY <2>4, <2>5 DEF OwnedBy
  <2>6. era[e].kind # "upload" => Erased(e)'
    BY <1>6, <2>2, <2>5, EraseCommitAlone DEF Erased, OwnedBy
  <2> QED BY <1>6, <2>2, <2>3, <2>6, EraseCommitAlone
<1>7. QED BY <1>3, <1>4, <1>5, <1>6 DEF Erase

(* Moderation and retention leave every case with its newest version:      *)
(* retention deletes no upload that an index entry refers to.              *)
LEMMA ElsewhereAlone ==
    ASSUME SafeInv, VersionsOK, Elsewhere
    PROVE  VersionsOK'
<1>0. TypeOK
  BY DEF SafeInv, TypeInv
<1>1. ASSUME UNCHANGED <<live, row, entries, known, case>> PROVE VersionsOK'
  BY <1>1, VersionsFrame
<1>2. ASSUME NEW c \in CaseIds, NEW verdict,
             DecideCase(c, verdict) \/ DecideRead(c, verdict) \/ DecideWrite(c, verdict)
      PROVE  VersionsOK'
  <2>1. /\ UNCHANGED <<live, row, entries, known>>
        /\ case' = case \/ case' = [case EXCEPT ![c].status = verdict]
    BY <1>2 DEF DecideCase, DecideRead, DecideWrite, dbVars
  <2>2. \A d \in known : case'[d].source = case[d].source /\ case'[d].content = case[d].content
    BY <1>0, <2>1 DEF TypeOK, CaseRow
  <2> QED BY <2>1, <2>2, VersionsFrame
<1>3. ASSUME NEW c \in CaseIds, DeleteCase(c) PROVE VersionsOK'
  <2>1. \A d \in known' : case'[d] = case[d]
    BY <1>0, <1>3 DEF DeleteCase, TypeOK
  <2> QED BY <1>3, <2>1, VersionsFrame DEF DeleteCase
<1>4. ASSUME NEW u \in UploadIds, Expire(u) PROVE VersionsOK'
  <2>1. \A v \in live : row'[v].sha = row[v].sha /\ row'[v].ingested = row[v].ingested
    BY <1>0, <1>4 DEF Expire, TypeOK, UploadRow
  <2> QED BY <1>4, <2>1, VersionsFrame DEF Expire
<1>5. CASE DeleteRejectedContent
  <2> DEFINE doomed == {c \in known : case[c].status = "rejected" /\ ~case[c].contentDeleted}
  <2>1. /\ case' = [c \in CaseIds |-> IF c \in doomed THEN Tombstone(c) ELSE case[c]]
        /\ entries' = {x \in entries : x[2] \notin doomed} /\ UNCHANGED <<live, known>>
        /\ row' = [u \in UploadIds |-> [row[u] EXCEPT !.ingested = @ \ doomed]]
    BY <1>5 DEF DeleteRejectedContent
  <2> HIDE DEF doomed
  <2>2. \A u \in live : row'[u].sha = row[u].sha /\ row'[u].ingested = row[u].ingested \ doomed
    BY <1>0, <2>1 DEF TypeOK, UploadRow
  <2>3. ASSUME NEW c \in known, c \in doomed
        PROVE  case'[c].content = Nothing /\ case'[c].source = NoUpload
    BY <1>0, <2>1, <2>3 DEF TypeOK, Tombstone
  <2>4. \A c \in known : c \notin doomed => case'[c] = case[c]
    BY <1>0, <2>1 DEF TypeOK
  <2>5. \A u, c : <<u, c>> \in entries /\ c \notin doomed => <<u, c>> \in entries'
    BY <2>1
  <2>6. ContentHasUpload'
    <3> SUFFICES ASSUME NEW c \in known, case'[c].content # Nothing
                 PROVE  \E u \in live : <<u, c>> \in entries' /\ row'[u].sha = case'[c].content
      BY <2>1 DEF ContentHasUpload
    <3>1. c \notin doomed /\ case'[c] = case[c]
      BY <2>3, <2>4
    <3>2. PICK u \in live : <<u, c>> \in entries /\ row[u].sha = case[c].content
      BY <3>1 DEF VersionsOK, NewestVersionWins, ContentHasUpload
    <3> QED BY <2>2, <2>5, <3>1, <3>2
  <2>7. ASSUME NEW c \in known, case'[c].source # NoUpload
        PROVE  /\ <<case'[c].source, c>> \in entries'
               /\ \A u \in live : c \in row'[u].ingested => u <= case'[c].source
    <3>1. c \notin doomed /\ case'[c] = case[c]
      BY <2>3, <2>4, <2>7
    <3> QED BY <2>2, <2>5, <2>7, <3>1 DEF VersionsOK, NewestVersionWins
  <2>8. IndexedOK'
    BY <2>1, <2>2, <2>5 DEF VersionsOK, IndexedOK
  <2> QED BY <2>1, <2>6, <2>7, <2>8 DEF VersionsOK, NewestVersionWins
<1>6. CASE RetentionCleanup
  <2>1. CASE Undeletable # {}
    BY <1>1, <1>6, <2>1 DEF RetentionCleanup
  <2>2. CASE Undeletable = {}
    <3>1. /\ live' = live \ Expired /\ UNCHANGED <<entries, known>>
          /\ row' = [u \in UploadIds |-> IF u \in Expired THEN BlankRow ELSE row[u]]
          /\ case' = [c \in CaseIds |-> IF c \in known /\ case[c].source \in Expired
                                        THEN [case[c] EXCEPT !.source = NoUpload] ELSE case[c]]
      BY <1>6, <2>2 DEF RetentionCleanup
    <3>2. \A u \in Expired, c \in CaseIds : <<u, c>> \notin entries
      BY <2>2 DEF Undeletable
    <3>3. \A u \in live' : u \in live /\ row'[u] = row[u]
      BY <1>0, <3>1 DEF TypeOK
    <3>4. ASSUME NEW c \in known PROVE case'[c] = case[c]
      <4>1. c \in CaseIds /\ (case[c].source # NoUpload => <<case[c].source, c>> \in entries)
        BY <1>0 DEF TypeOK, VersionsOK, NewestVersionWins
      <4>2. NoUpload \notin Expired
        BY <1>0 DEF Expired, TypeOK, NoUpload, UploadIds
      <4>3. case[c].source \notin Expired
        BY <3>2, <4>1, <4>2
      <4> QED BY <3>1, <4>1, <4>3
    <3>5. ContentHasUpload'
      <4> SUFFICES ASSUME NEW c \in known, case'[c].content # Nothing
                   PROVE  \E u \in live' : <<u, c>> \in entries /\ row'[u].sha = case'[c].content
        BY <3>1 DEF ContentHasUpload
      <4>1. PICK u \in live : <<u, c>> \in entries /\ row[u].sha = case[c].content
        BY <3>4 DEF VersionsOK, NewestVersionWins, ContentHasUpload
      <4>2. u \in live'
        BY <1>0, <3>1, <3>2, <4>1 DEF TypeOK
      <4> QED BY <3>3, <3>4, <4>1, <4>2
    <3>6. ASSUME NEW c \in known, case'[c].source # NoUpload
          PROVE  /\ <<case'[c].source, c>> \in entries
                 /\ \A u \in live' : c \in row'[u].ingested => u <= case'[c].source
      BY <3>3, <3>4, <3>6 DEF VersionsOK, NewestVersionWins
    <3>7. IndexedOK'
      BY <3>1, <3>3 DEF VersionsOK, IndexedOK
    <3> QED BY <3>1, <3>5, <3>6, <3>7 DEF VersionsOK, NewestVersionWins
  <2> QED BY <2>1, <2>2
<1>7. QED BY <1>1, <1>2, <1>3, <1>4, <1>5, <1>6 DEF Elsewhere, LinkClient, UnlinkClient

(* A snapshot stays how the tables are while an upload merely ages.        *)
LEMMA ExpireAlone ==
    ASSUME SafeInv, AloneInv, NEW u \in UploadIds, Expire(u)
    PROVE  /\ \A r \in Requests : RequestAlone(r)'
           /\ \A e \in Erasers : ErasureAlone(e)'
           /\ ErasureComplete'
<1>1. UNCHANGED <<accounts, linked, nextId, live, entries, known, case, req, era>>
  BY DEF Expire
<1>2. \A v \in live : row'[v].owner = row[v].owner
  BY DEF SafeInv, TypeInv, TypeOK, Expire, UploadRow
<1>3. \A r \in Requests : RequestAlone(r)'
  BY <1>1 DEF AloneInv, RequestAlone, Tombstoned
<1>4. ASSUME NEW e \in Erasers PROVE ErasureAlone(e)'
  <2>1. TargetsOf(e)' = TargetsOf(e)
    BY <1>1, <1>2 DEF TargetsOf, OwnedBy
  <2>2. AffectedBy(e)' = AffectedBy(e)
    BY <1>1, <2>1 DEF AffectedBy, OwnedBy
  <2> QED BY <1>1, <2>1, <2>2 DEF AloneInv, ErasureAlone
<1>5. ErasureComplete'
  BY <1>1, <1>2 DEF AloneInv, ErasureComplete, OwnedBy
<1>6. QED BY <1>3, <1>4, <1>5

(* Empty tables and idle threads.                                          *)
LEMMA InitAlone == Init => AloneInv
<1> SUFFICES ASSUME Init PROVE AloneInv
  OBVIOUS
<1>1. Running = {} /\ Erasing = {} /\ judged = {}
  BY DEF Init, Running, Erasing, NoRequest, NoErasure
<1>2. AloneOK
  BY <1>1, FS_EmptySet DEF AloneOK
<1>3. VersionsOK
  BY DEF Init, VersionsOK, NewestVersionWins, ContentHasUpload, IndexedOK
<1>4. \A r \in Requests : RequestAlone(r)
  BY <1>1 DEF Running, RequestAlone
<1>5. \A e \in Erasers : ErasureAlone(e)
  BY <1>1 DEF Erasing, ErasureAlone
<1>6. ErasureComplete
  BY <1>1 DEF Erasing, ErasureComplete
<1>7. QED BY <1>2, <1>3, <1>4, <1>5, <1>6 DEF AloneInv

(* One operation at a time keeps it.                                       *)
LEMMA StepAlone ==
    ASSUME MaxInFlight = 1, SafeInv, AloneInv, [Next]_vars
    PROVE  AloneInv'
<1>0. /\ TypeOK /\ AloneOK /\ VersionsOK /\ ErasureComplete
      /\ (\A r \in Requests : RequestAlone(r)) /\ (\A e \in Erasers : ErasureAlone(e))
  BY DEF SafeInv, TypeInv, AloneInv
<1>1. AloneOK'
  BY <1>0, StaysAlone
<1>2. ASSUME NEW r \in Requests, req'[r].pc = "idle" PROVE RequestAlone(r)'
  BY <1>2 DEF RequestAlone
<1>3. ASSUME NEW e \in Erasers, era'[e].pc = "idle" PROVE ErasureAlone(e)'
  BY <1>3 DEF ErasureAlone
<1>4. ASSUME NEW r \in Requests, Submit(r) PROVE AloneInv'
  <2>1. OnlyRequest(r)
    BY <1>0, <1>4, ActsAlone
  <2>2. UNCHANGED era /\ \A q \in Requests \ {r} : req'[q] = req[q]
    BY <1>0, <1>4 DEF TypeOK, Submit, SubmitBegin, SubmitStore, SubmitInsert, SubmitInsertFails,
                IngestRead, IngestWrite, IngestFails, SubmitAborts
  <2>3. /\ \A q \in Requests \ {r} : req'[q].pc = "idle"
        /\ \A e \in Erasers : era'[e].pc = "idle"
    BY <2>1, <2>2 DEF OnlyRequest, Running, Erasing
  <2>4. RequestAlone(r)' /\ VersionsOK'
    BY <1>0, <1>4, SubmitAlone
  <2>5. ErasureComplete'
    BY <2>3 DEF ErasureComplete
  <2> QED BY <1>1, <1>2, <1>3, <2>3, <2>4, <2>5 DEF AloneInv
<1>5. ASSUME NEW e \in Erasers, Erase(e) PROVE AloneInv'
  <2>1. OnlyErasure(e)
    BY <1>0, <1>5, ActsAlone
  <2>2. UNCHANGED req /\ \A f \in Erasers \ {e} : era'[f] = era[f]
    BY <1>0, <1>5 DEF TypeOK, Erase, EraseBegin, EraseRead, EraseRefused, EraseCommit,
                EraseRollback, EraseUnlink, EraseAborts
  <2>3. /\ \A r \in Requests : req'[r].pc = "idle"
        /\ \A f \in Erasers \ {e} : era'[f].pc = "idle"
    BY <2>1, <2>2 DEF OnlyErasure, Running, Erasing
  <2>4. /\ ErasureAlone(e)' /\ VersionsOK'
        /\ era'[e].pc = "unlink" /\ era'[e].kind # "upload" => Erased(e)'
    BY <1>0, <1>5, EraseAlone
  <2>5. ErasureComplete'
    <3> SUFFICES ASSUME NEW f \in Erasers, era'[f].pc = "unlink", era'[f].kind # "upload"
                 PROVE  Erased(f)'
      BY DEF ErasureComplete, Erased
    <3>1. f = e
      BY <2>3
    <3> QED BY <2>4, <3>1
  <2> QED BY <1>1, <1>2, <1>3, <2>3, <2>4, <2>5 DEF AloneInv
<1>6. ASSUME Elsewhere PROVE AloneInv'
  <2>1. VersionsOK'
    BY <1>0, <1>6, ElsewhereAlone
  <2>2. CASE \E u \in UploadIds : Expire(u)
    BY <1>1, <2>1, <2>2, ExpireAlone DEF AloneInv
  <2>3. CASE AllIdle
    <3>1. UNCHANGED <<req, era>>
      BY <1>6 DEF Elsewhere, LinkClient, UnlinkClient, DecideCase, DecideRead, DecideWrite,
                  DeleteCase, DeleteRejectedContent, Expire, RetentionCleanup
    <3>2. /\ \A r \in Requests : req'[r].pc = "idle"
          /\ \A e \in Erasers : era'[e].pc = "idle"
      BY <2>3, <3>1 DEF AllIdle, Running, Erasing
    <3>3. ErasureComplete'
      BY <3>2 DEF ErasureComplete
    <3> QED BY <1>1, <1>2, <1>3, <2>1, <3>2, <3>3 DEF AloneInv
  <2> QED BY <1>0, <1>6, <2>2, <2>3, ActsAlone
<1>7. CASE UNCHANGED vars
  <2>1. VersionsOK'
    BY <1>0, <1>7, VersionsFrame DEF vars, dbVars
  <2>2. /\ (\A r \in Requests : RequestAlone(r)') /\ ErasureComplete'
    BY <1>0, <1>7 DEF vars, dbVars, RequestAlone, Tombstoned, ErasureComplete, OwnedBy
  <2>3. \A e \in Erasers : ErasureAlone(e)'
    BY <1>0, <1>7 DEF vars, dbVars, ErasureAlone, TargetsOf, AffectedBy, OwnedBy
  <2> QED BY <1>1, <2>1, <2>2, <2>3 DEF AloneInv
<1>8. QED BY <1>4, <1>5, <1>6, <1>7 DEF Next, Elsewhere

(* One operation at a time, wherever its thread is killed: the snapshots   *)
(* threads act on are how the tables are.                                  *)
LEMMA AloneInvariant ==
    ASSUME MaxInFlight = 1
    PROVE  Spec => []AloneInv
<1>1. SafeInv /\ AloneInv /\ [Next]_vars => AloneInv'
  BY StepAlone
<1>2. QED BY <1>1, InitAlone, SafeInvariant, PTL DEF Spec

(* A case holds the content of the newest of the uploads that brought it,  *)
(* through every sequence of uploads, erasures, moderation and retention,  *)
(* while operations do not overlap.                                        *)
THEOREM NewestVersionsWin ==
    ASSUME MaxInFlight = 1
    PROVE  Spec => []NewestVersionWins
<1>1. AloneInv => NewestVersionWins
  BY DEF AloneInv, VersionsOK
<1>2. QED BY <1>1, AloneInvariant, PTL

(* While operations do not overlap, no upload writes to a case whose       *)
(* content was erased as rejected.                                         *)
THEOREM TombstonesAreHonoured ==
    ASSUME MaxInFlight = 1
    PROVE  Spec => TombstoneHonoured
<1>1. ASSUME AloneInv, NEW r \in Requests, IngestWrite(r), NEW c \in CaseIds, Tombstoned(c)
      PROVE  case'[c] = case[c]
  <2>1. c \in req[r].gone
    BY <1>1 DEF AloneInv, RequestAlone, IngestWrite, Tombstoned
  <2>2. c \notin ToInsert(r) \cup ToUpdate(r)
    BY <2>1 DEF ToInsert, ToUpdate, ToStore
  <2> QED BY <1>1, <2>2 DEF IngestWrite
<1>2. AloneInv =>
        [\A r \in Requests : IngestWrite(r) =>
            \A c \in CaseIds : Tombstoned(c) => case'[c] = case[c]]_vars
  BY <1>1
<1>3. QED BY <1>2, AloneInvariant, PTL DEF TombstoneHonoured

(* Every upload has its file, and so will the one that is being inserted.  *)
FilesOK ==
    /\ StoredPathExists
    /\ \A r \in Requests :
        /\ req[r].pc = "insert" /\ req[r].acc # Nothing => req[r].acc \in files
        /\ req[r].pc \in {"store", "insert"} /\ req[r].acc = Nothing => req[r].sha \in quarantine

(* A step that takes no file away and inserts no upload.                   *)
LEMMA FilesFrame ==
    ASSUME FilesOK, live' \subseteq live, \A u \in live' : SameUpload(row'[u], row[u]),
           files \subseteq files', quarantine \subseteq quarantine',
           \A r \in Requests : req'[r] = req[r] \/ req'[r].pc \notin {"store", "insert"}
    PROVE  FilesOK'
<1>1. StoredPathExists'
  BY DEF FilesOK, StoredPathExists, SameUpload
<1>2. ASSUME NEW r \in Requests
      PROVE  /\ req'[r].pc = "insert" /\ req'[r].acc # Nothing => req'[r].acc \in files'
             /\ req'[r].pc \in {"store", "insert"} /\ req'[r].acc = Nothing
                    => req'[r].sha \in quarantine'
  BY DEF FilesOK
<1>3. QED BY <1>1, <1>2 DEF FilesOK

(* The file is written before its row.                                     *)
LEMMA SubmitFiles ==
    ASSUME SafeInv, FilesOK, NEW r \in Requests, Submit(r)
    PROVE  FilesOK'
<1>0. TypeOK /\ RequestOK /\ Facts /\ req[r] \in Request /\ RequestFact(r)
  BY DEF SafeInv, TypeInv, TypeOK, Facts
<1>1. ASSUME NEW o \in Owners, NEW s \in Submissions, SubmitBegin(r, o, s[1], s[2])
      PROVE  FilesOK'
  <2>1. UNCHANGED <<live, row, files>> /\ quarantine' = WithFile(quarantine, s[2])
    BY <1>1 DEF SubmitBegin, dbVars
  <2>2. quarantine \subseteq quarantine'
    BY <2>1 DEF WithFile
  <2>3. CASE req' = req
    BY <2>1, <2>2, <2>3, FilesFrame DEF SameUpload
  <2>4. CASE req' # req
    <3> DEFINE sha == IF s[1] # Nothing THEN s[1] ELSE s[2]
               new == [NoRequest EXCEPT !.pc = "store", !.owner = o, !.acc = s[1], !.sha = sha,
                                        !.dup = EarliestOf(WithSha(row, live, sha)),
                                        !.fresh = o \in Clients /\ linked[o] = Unknown]
    <3>1. req' = [req EXCEPT ![r] = new]
      BY <1>1, <2>4 DEF SubmitBegin
    <3>2. req'[r] = new /\ \A q \in Requests \ {r} : req'[q] = req[q]
      BY <1>0, <3>1 DEF TypeOK
    <3>3. req'[r].pc = "store" /\ req'[r].acc = s[1] /\ req'[r].sha = sha
      BY <3>2 DEF NoRequest
    <3>4. s[1] = Nothing => s[2] # Nothing /\ sha \in quarantine'
      BY <2>1, ConstantsOK DEF WithFile
    <3> HIDE DEF new, sha
    <3>5. StoredPathExists'
      BY <2>1, <2>2 DEF FilesOK, StoredPathExists
    <3>6. ASSUME NEW q \in Requests
          PROVE  /\ req'[q].pc = "insert" /\ req'[q].acc # Nothing => req'[q].acc \in files'
                 /\ req'[q].pc \in {"store", "insert"} /\ req'[q].acc = Nothing
                        => req'[q].sha \in quarantine'
      <4>1. CASE q = r
        BY <3>3, <3>4, <4>1
      <4>2. CASE q # r
        BY <2>1, <2>2, <3>2, <4>2 DEF FilesOK
      <4> QED BY <4>1, <4>2
    <3> QED BY <3>5, <3>6 DEF FilesOK
  <2> QED BY <2>3, <2>4
<1>2. CASE SubmitStore(r)
  <2>1. /\ UNCHANGED <<live, row, quarantine>> /\ files' = WithFile(files, req[r].acc)
        /\ req' = [req EXCEPT ![r].pc = "insert"] /\ req[r].pc = "store"
    BY <1>2 DEF SubmitStore, dbVars
  <2>2. /\ req'[r].pc = "insert" /\ req'[r].acc = req[r].acc /\ req'[r].sha = req[r].sha
        /\ \A q \in Requests \ {r} : req'[q] = req[q]
    BY <1>0, <2>1 DEF TypeOK, Request
  <2>3. files \subseteq files' /\ (req[r].acc # Nothing => req[r].acc \in files')
    BY <2>1 DEF WithFile
  <2>4. StoredPathExists'
    BY <2>1, <2>3 DEF FilesOK, StoredPathExists
  <2>5. ASSUME NEW q \in Requests
        PROVE  /\ req'[q].pc = "insert" /\ req'[q].acc # Nothing => req'[q].acc \in files'
               /\ req'[q].pc \in {"store", "insert"} /\ req'[q].acc = Nothing
                      => req'[q].sha \in quarantine'
    BY <2>1, <2>2, <2>3 DEF FilesOK
  <2> QED BY <2>4, <2>5 DEF FilesOK
<1>3. CASE SubmitInsert(r)
  <2> DEFINE status == IF req[r].acc # Nothing THEN "accepted" ELSE "quarantined"
             next == IF req[r].acc # Nothing
                     THEN [req[r] EXCEPT !.pc = "ingest", !.id = nextId] ELSE NoRequest
  <2>1. /\ row' = [row EXCEPT ![nextId] =
                      [owner |-> req[r].owner, sha |-> req[r].sha, status |-> status,
                       dupOf |-> req[r].dup, expired |-> FALSE, ingested |-> {}]]
        /\ nextId \in UploadIds /\ live' = live \cup {nextId} /\ req[r].pc = "insert"
        /\ req' = [req EXCEPT ![r] = next] /\ UNCHANGED <<files, quarantine>>
    BY <1>3 DEF SubmitInsert, fileVars
  <2>2. \A u \in live : u # nextId
    BY <1>0 DEF Facts, TypeOK, UploadIds
  <2>3. /\ \A u \in live : row'[u] = row[u]
        /\ row'[nextId].sha = req[r].sha /\ row'[nextId].status = status
    BY <1>0, <2>1, <2>2 DEF TypeOK
  <2>4. req[r].sha \in IF status = "accepted" THEN files ELSE quarantine
    BY <1>0, <2>1 DEF FilesOK, RequestFact
  <2>5. StoredPathExists'
    <3> HIDE DEF status
    <3> QED BY <2>1, <2>3, <2>4 DEF FilesOK, StoredPathExists
  <2>6. req'[r].pc \notin {"store", "insert"} /\ \A q \in Requests \ {r} : req'[q] = req[q]
    BY <1>0, <2>1 DEF TypeOK, Request, NoRequest
  <2> QED BY <2>1, <2>5, <2>6 DEF FilesOK
<1>4. CASE SubmitInsertFails(r) \/ IngestFails(r) \/ SubmitAborts(r) \/ IngestRead(r)
  <2>1. UNCHANGED <<live, row, files, quarantine>>
    BY <1>4 DEF SubmitInsertFails, IngestFails, SubmitAborts, IngestRead, dbVars, fileVars
  <2>2. CASE SubmitInsertFails(r) \/ IngestFails(r) \/ SubmitAborts(r)
    <3>1. req' = [req EXCEPT ![r] = NoRequest]
      BY <2>2 DEF SubmitInsertFails, IngestFails, SubmitAborts
    <3>2. \A q \in Requests : req'[q] = req[q] \/ req'[q].pc \notin {"store", "insert"}
      BY <1>0, <3>1 DEF TypeOK, NoRequest
    <3> QED BY <2>1, <3>2, FilesFrame DEF SameUpload
  <2>3. CASE IngestRead(r)
    <3>1. PICK seen, gone, mine :
             req' = [req EXCEPT ![r] = [req[r] EXCEPT !.pc = "write", !.seen = seen, !.gone = gone,
                                                      !.mine = mine]]
      BY <2>3 DEF IngestRead
    <3>2. \A q \in Requests : req'[q] = req[q] \/ req'[q].pc \notin {"store", "insert"}
      BY <1>0, <3>1 DEF TypeOK, Request
    <3> QED BY <2>1, <3>2, FilesFrame DEF SameUpload
  <2> QED BY <1>4, <2>2, <2>3
<1>5. CASE IngestWrite(r)
  <2>1. /\ UNCHANGED <<live, files, quarantine>>
        /\ \A q \in Requests : req'[q] = req[q] \/ req'[q].pc \notin {"store", "insert"}
    BY <1>0, <1>5 DEF IngestWrite, TypeOK, NoRequest, fileVars
  <2>2. PICK u, ingested : row' = [row EXCEPT ![u].ingested = ingested]
    BY <1>5 DEF IngestWrite
  <2>3. \A v \in live : SameUpload(row'[v], row[v])
    BY <1>0, <2>2 DEF TypeOK, UploadRow, SameUpload
  <2> QED BY <2>1, <2>3, FilesFrame
<1>6. QED BY <1>1, <1>2, <1>3, <1>4, <1>5 DEF Submit

(* An erasure that had the tables for itself unlinks no file that is still *)
(* referred to.                                                            *)
LEMMA EraseFiles ==
    ASSUME SafeInv, FilesOK, NEW e \in Erasers, ErasureAlone(e), OnlyErasure(e), Erase(e)
    PROVE  FilesOK'
<1>0. TypeOK /\ ErasureFact(e) /\ req' = req
  BY DEF SafeInv, TypeInv, Facts, Erase, EraseBegin, EraseRead, EraseRefused, EraseCommit,
         EraseRollback, EraseUnlink, EraseAborts
<1>1. CASE EraseUnlink(e)
  <2>1. /\ UNCHANGED <<live, row, quarantine>> /\ files' = files \ era[e].paths
        /\ era[e].pc = "unlink"
    BY <1>1 DEF EraseUnlink, dbVars
  <2>2. \A u \in live : row[u].status = "accepted" => row[u].sha \notin era[e].paths
    BY <1>0, <2>1 DEF ErasureFact, ErasureAlone
  <2>3. StoredPathExists'
    BY <2>1, <2>2 DEF FilesOK, StoredPathExists
  <2>4. \A r \in Requests : req'[r].pc = "idle"
    BY <1>0 DEF OnlyErasure, Running
  <2> QED BY <2>3, <2>4 DEF FilesOK
<1>2. CASE EraseCommit(e)
  <2>1. live' = live \ era[e].targets /\ UNCHANGED <<files, quarantine>> /\ live \subseteq UploadIds
    BY <1>0, <1>2 DEF EraseCommit, fileVars, TypeOK
  <2>2. ASSUME NEW v \in live' PROVE SameUpload(row'[v], row[v])
    <3>1. v \in live /\ v \notin era[e].targets /\ v \in UploadIds /\ row[v] \in UploadRow
      BY <1>0, <2>1, <2>2 DEF TypeOK
    <3> DEFINE rep == Replacement(e, era[e].old[row[v].dupOf].sha)
    <3>2. row'[v] = row[v] \/ row'[v] = [row[v] EXCEPT !.dupOf = rep]
      BY <1>2, <3>1 DEF EraseCommit
    <3> HIDE DEF rep
    <3> QED BY <3>1, <3>2 DEF UploadRow, SameUpload
  <2> QED BY <1>0, <2>1, <2>2, FilesFrame
<1>3. CASE ~EraseUnlink(e) /\ ~EraseCommit(e)
  <2>1. UNCHANGED <<live, row, files, quarantine>>
    BY <1>3 DEF Erase, EraseBegin, EraseRead, EraseRefused, EraseRollback, EraseAborts, dbVars,
                fileVars
  <2> QED BY <1>0, <2>1, FilesFrame DEF SameUpload
<1>4. QED BY <1>1, <1>2, <1>3

(* Without retention nothing else touches a file.                          *)
LEMMA ElsewhereFiles ==
    ASSUME SafeInv, FilesOK, ~Retention, Elsewhere
    PROVE  FilesOK'
<1>0. TypeOK
  BY DEF SafeInv, TypeInv
<1>1. UNCHANGED <<live, files, quarantine, req>>
  BY DEF Elsewhere, LinkClient, UnlinkClient, DecideCase, DecideRead, DecideWrite, DeleteCase,
         DeleteRejectedContent, Expire, RetentionCleanup, dbVars, fileVars
<1>2. \A u \in live : SameUpload(row'[u], row[u])
  <2>1. CASE DeleteRejectedContent
    <3>1. PICK gone : row' = [v \in UploadIds |-> [row[v] EXCEPT !.ingested = @ \ gone]]
      BY <2>1 DEF DeleteRejectedContent
    <3> QED BY <1>0, <3>1 DEF TypeOK, UploadRow, SameUpload
  <2>2. CASE ~DeleteRejectedContent
    <3>1. row' = row
      BY <2>2 DEF Elsewhere, LinkClient, UnlinkClient, DecideCase, DecideRead, DecideWrite,
                  DeleteCase, Expire, RetentionCleanup, dbVars
    <3> QED BY <3>1 DEF SameUpload
  <2> QED BY <2>1, <2>2
<1>3. QED BY <1>1, <1>2, FilesFrame

(* While operations do not overlap, an erasure leaves nothing of the user's *)
(* in the tables, and takes no file that an upload of anyone needs.        *)
THEOREM ErasuresAreExact ==
    ASSUME MaxInFlight = 1, ~Retention
    PROVE  Spec => []ErasureExact
<1>1. Init => FilesOK
  BY DEF Init, FilesOK, StoredPathExists, NoRequest
<1>2. ASSUME SafeInv, AloneInv, FilesOK, [Next]_vars PROVE FilesOK'
  <2>1. ASSUME NEW r \in Requests, Submit(r) PROVE FilesOK'
    BY <1>2, <2>1, SubmitFiles
  <2>2. ASSUME NEW e \in Erasers, Erase(e) PROVE FilesOK'
    BY <1>2, <2>2, ActsAlone, EraseFiles DEF AloneInv
  <2>3. ASSUME Elsewhere PROVE FilesOK'
    BY <1>2, <2>3, ElsewhereFiles
  <2>4. CASE UNCHANGED vars
    BY <1>2, <2>4, FilesFrame DEF vars, dbVars, fileVars, SameUpload
  <2> QED BY <1>2, <2>1, <2>2, <2>3, <2>4 DEF Next, Elsewhere
<1>3. AloneInv /\ FilesOK => ErasureExact
  BY DEF AloneInv, FilesOK, ErasureExact
<1>4. QED BY <1>1, <1>2, <1>3, SafeInvariant, AloneInvariant, PTL DEF Spec
=============================================================================
