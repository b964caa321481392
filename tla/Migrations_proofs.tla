------------------------- MODULE Migrations_proofs -------------------------
(***************************************************************************)
(* Theorems about Migrations, for any number of workers, releases and      *)
(* kills: no commit takes anything away, whoever serves finds the current  *)
(* schema, and a start fails only where another worker overtook it.        *)
(*                                                                         *)
(* First the script: each statement finds what it needs before it, the     *)
(* indexes of a table come after its rebuilds, and there is a statement    *)
(* for everything the current schema has.  Then MigrationInv, which says   *)
(* of each worker what the statements behind it have left in the schema it *)
(* sees, what its open transaction still lacks, and what it may expect as  *)
(* long as nobody disturbed it; and one lemma per action.                  *)
(***************************************************************************)
EXTENDS Migrations, SequenceTheorems, TLAPS

-----------------------------------------------------------------------------
(* The script. *)

TableNames ==
    {"users", "sessions", "client_identities", "external_auth_states", "external_identities",
     "uploads", "training_runs", "training_cases", "upload_cases", "audit_logs",
     "password_reset_tokens", "admin_mfa_challenges", "auth_flow_tokens", "user_totp_factors",
     "user_passkeys", "user_backup_codes", "rate_limit_hits", "data_export_requests",
     "access_policies", "content_scrub_rules"}
Names ==
    {"id", "client_identity_id", "created_by_client_identity_id", "match_count", "mfa_enabled",
     "failed_login_attempts", "lockout_until", "source_ip", "user_agent", "failed_attempts",
     "payload_json", "content_deleted_at", "user_id", "actor_user_id", "created_by_user_id",
     "user_sha", "client_sha", "case", "subject", "signature"}
Loose == [do : {"create", "add", "index", "rebuild"}, table : TableNames, name : Names]
Engines == {"sqlite", "mariadb"}

\* What a statement needs to have been carried out before it.
Needs(x) ==
    IF x.do = "create" THEN {}
    ELSE {Create(x.table)}
            \cup {Add(x.table, c) : c \in IF x.do = "rebuild" THEN Columns(x.table) \ {"id"} ELSE {}}

\* Each statement of s finds what it needs in done or earlier in s.
Follows(done, s) ==
    \A n \in 1..Len(s) : \A x \in Needs(s[n]) : x \in done \/ \E m \in 1..(n - 1) : s[m] = x

LEMMA RangeHas == ASSUME NEW S, NEW s \in Seq(S), NEW x
                  PROVE  x \in Range(s) <=> \E n \in 1..Len(s) : s[n] = x
BY DEF Range

LEMMA RangeInto == ASSUME NEW S, NEW s \in Seq(S) PROVE Range(s) \subseteq S
BY DEF Range

LEMMA RangeConcat ==
    ASSUME NEW S, NEW s \in Seq(S), NEW t \in Seq(S)
    PROVE  /\ s \o t \in Seq(S)
           /\ Range(s \o t) = Range(s) \cup Range(t)
<1> DEFINE u == s \o t
<1>1. /\ u \in Seq(S) /\ Len(u) = Len(s) + Len(t)
      /\ \A i \in 1..Len(s) + Len(t) : u[i] = IF i <= Len(s) THEN s[i] ELSE t[i - Len(s)]
  BY ConcatProperties
<1>2. Len(s) \in Nat /\ Len(t) \in Nat
  BY LenProperties
<1> HIDE DEF u
<1>3. \A x : x \in Range(u) => x \in Range(s) \cup Range(t)
  <2> SUFFICES ASSUME NEW n \in 1..Len(u) PROVE u[n] \in Range(s) \cup Range(t)
    BY <1>1, RangeHas
  <2>1. CASE n <= Len(s)
    BY <2>1, <1>1, <1>2, RangeHas
  <2>2. CASE n > Len(s)
    <3>1. n - Len(s) \in 1..Len(t) /\ u[n] = t[n - Len(s)]
      BY <2>2, <1>1, <1>2
    <3> QED BY <3>1, RangeHas
  <2> QED BY <2>1, <2>2, <1>1, <1>2
<1>4. \A x : x \in Range(s) => x \in Range(u)
  <2> SUFFICES ASSUME NEW n \in 1..Len(s) PROVE \E m \in 1..Len(u) : u[m] = s[n]
    BY <1>1, RangeHas
  <2>1. n \in 1..Len(u) /\ u[n] = s[n]
    BY <1>1, <1>2
  <2> QED BY <2>1
<1>5. \A x : x \in Range(t) => x \in Range(u)
  <2> SUFFICES ASSUME NEW x \in Range(t) PROVE x \in Range(u)
    OBVIOUS
  <2>1. PICK n \in 1..Len(t) : t[n] = x
    BY RangeHas
  <2> DEFINE k == n + Len(s)
  <2>2. k \in 1..Len(s) + Len(t) /\ ~(k <= Len(s)) /\ k - Len(s) = n
    BY <1>2
  <2>3. k \in 1..Len(u) /\ u[k] = x
    BY <2>1, <2>2, <1>1
  <2> HIDE DEF k
  <2> QED BY <2>3, <1>1, RangeHas
<1> QED BY <1>1, <1>3, <1>4, <1>5 DEF u

LEMMA FollowsAppend ==
    ASSUME NEW S, NEW s \in Seq(S), NEW t \in Seq(S), NEW done,
           Follows(done, s), Follows(done \cup Range(s), t)
    PROVE  Follows(done, s \o t)
<1> DEFINE u == s \o t
<1>1. /\ u \in Seq(S) /\ Len(u) = Len(s) + Len(t)
      /\ \A i \in 1..Len(s) + Len(t) : u[i] = IF i <= Len(s) THEN s[i] ELSE t[i - Len(s)]
  BY ConcatProperties
<1>2. Len(s) \in Nat /\ Len(t) \in Nat
  BY LenProperties
<1> HIDE DEF u
<1> SUFFICES ASSUME NEW n \in 1..Len(u), NEW x \in Needs(u[n]), x \notin done
             PROVE  \E m \in 1..(n - 1) : u[m] = x
  BY DEF Follows, u
<1>3. CASE n <= Len(s)
  <2>1. n \in 1..Len(s) /\ u[n] = s[n]
    BY <1>1, <1>2, <1>3
  <2>2. PICK m \in 1..(n - 1) : s[m] = x
    BY <2>1 DEF Follows
  <2>3. u[m] = s[m]
    BY <2>1, <2>2, <1>1, <1>2
  <2> QED BY <2>2, <2>3
<1>4. CASE n > Len(s)
  <2>1. n - Len(s) \in 1..Len(t) /\ u[n] = t[n - Len(s)]
    BY <1>1, <1>2, <1>4
  <2>2. x \in Range(s) \/ \E m \in 1..(n - Len(s) - 1) : t[m] = x
    BY <2>1 DEF Follows
  <2>3. CASE x \in Range(s)
    <3>1. PICK m \in 1..Len(s) : s[m] = x
      BY <2>3, RangeHas
    <3>2. m \in 1..(n - 1) /\ u[m] = x
      BY <3>1, <1>1, <1>2, <1>4
    <3> QED BY <3>2
  <2>4. CASE \E m \in 1..(n - Len(s) - 1) : t[m] = x
    <3>1. PICK m \in 1..(n - Len(s) - 1) : t[m] = x
      BY <2>4
    <3> DEFINE k == m + Len(s)
    <3>2. k \in 1..(n - 1) /\ k \in 1..Len(s) + Len(t) /\ ~(k <= Len(s)) /\ k - Len(s) = m
      BY <1>1, <1>2, <1>4
    <3>3. u[k] = x
      BY <3>1, <3>2, <1>1
    <3> HIDE DEF k
    <3> QED BY <3>2, <3>3
  <2> QED BY <2>2, <2>3, <2>4
<1> QED BY <1>1, <1>2, <1>3, <1>4

LEMMA FollowsAtOnce ==
    ASSUME NEW S, NEW s \in Seq(S), NEW done, \A x \in Range(s) : Needs(x) \subseteq done
    PROVE  Follows(done, s)
BY RangeHas DEF Follows

LEMMA StatementsAreLoose ==
    \A t \in TableNames :
        Create(t) \in Loose
        /\ \A c \in Names : Add(t, c) \in Loose /\ Index(t, c) \in Loose /\ Rebuild(t, c) \in Loose
<1>1. "id" \in Names
  BY DEF Names
<1> QED BY <1>1 DEF Create, Add, Index, Rebuild, Loose

LEMMA None == ASSUME NEW S PROVE <<>> \in Seq(S) /\ Range(<<>>) = {}
BY DEF Range

LEMMA One ==
    ASSUME NEW S, NEW a \in S
    PROVE  <<a>> \in Seq(S) /\ Range(<<a>>) = {a}
BY DEF Range

LEMMA Two ==
    ASSUME NEW S, NEW a \in S, NEW b \in S
    PROVE  <<a, b>> \in Seq(S) /\ Range(<<a, b>>) = {a, b}
BY DEF Range

LEMMA Three ==
    ASSUME NEW S, NEW a \in S, NEW b \in S, NEW c \in S
    PROVE  <<a, b, c>> \in Seq(S) /\ Range(<<a, b, c>>) = {a, b, c}
BY DEF Range

LEMMA Four ==
    ASSUME NEW S, NEW a \in S, NEW b \in S, NEW c \in S, NEW d \in S
    PROVE  <<a, b, c, d>> \in Seq(S) /\ Range(<<a, b, c, d>>) = {a, b, c, d}
BY DEF Range

LEMMA Five ==
    ASSUME NEW S, NEW a \in S, NEW b \in S, NEW c \in S, NEW d \in S, NEW e \in S
    PROVE  <<a, b, c, d, e>> \in Seq(S) /\ Range(<<a, b, c, d, e>>) = {a, b, c, d, e}
BY DEF Range

LEMMA CreateAllIs ==
    ASSUME NEW ts \in Seq(TableNames)
    PROVE  CreateAll(ts) \in Seq(Loose) /\ Range(CreateAll(ts)) = {Create(t) : t \in Range(ts)}
<1>0. Len(ts) \in Nat /\ ts \in [1..Len(ts) -> TableNames] /\ DOMAIN ts = 1..Len(ts)
  BY LenProperties
<1> DEFINE st(n) == Create(ts[n])
<1>a. \A n \in 1..Len(ts) : Create(ts[n]) \in Loose
  BY <1>0, StatementsAreLoose
<1>b. CreateAll(ts) = [n \in 1..Len(ts) |-> st(n)]
  BY <1>0 DEF CreateAll
<1>c. \A n \in 1..Len(ts) : st(n) \in Loose
  BY <1>a
<1> HIDE DEF st
<1>1. CreateAll(ts) \in [1..Len(ts) -> Loose] /\ DOMAIN CreateAll(ts) = DOMAIN ts
  BY <1>b, <1>c, <1>0
<1>2. CreateAll(ts) \in Seq(Loose)
  BY <1>0, <1>1, SeqDef
<1> QED BY <1>0, <1>1, <1>2 DEF Range, CreateAll

LEMMA AddAllIs ==
    ASSUME NEW t \in TableNames, NEW cs \in Seq(Names)
    PROVE  AddAll(t, cs) \in Seq(Loose) /\ Range(AddAll(t, cs)) = {Add(t, c) : c \in Range(cs)}
<1>0. Len(cs) \in Nat /\ cs \in [1..Len(cs) -> Names] /\ DOMAIN cs = 1..Len(cs)
  BY LenProperties
<1> DEFINE st(n) == Add(t, cs[n])
<1>a. \A n \in 1..Len(cs) : Add(t, cs[n]) \in Loose
  BY <1>0, StatementsAreLoose
<1>b. AddAll(t, cs) = [n \in 1..Len(cs) |-> st(n)]
  BY <1>0 DEF AddAll
<1>c. \A n \in 1..Len(cs) : st(n) \in Loose
  BY <1>a
<1> HIDE DEF st
<1>1. AddAll(t, cs) \in [1..Len(cs) -> Loose] /\ DOMAIN AddAll(t, cs) = DOMAIN cs
  BY <1>b, <1>c, <1>0
<1>2. AddAll(t, cs) \in Seq(Loose)
  BY <1>0, <1>1, SeqDef
<1> QED BY <1>0, <1>1, <1>2 DEF Range, AddAll

LEMMA SchemaIs ==
    /\ Schema \in Seq(Loose) /\ Range(Schema) = {Create(t) : t \in TableNames}
    /\ Tables = TableNames
<1> DEFINE ts == <<"users", "sessions", "client_identities", "external_auth_states",
        "external_identities", "uploads", "training_runs", "training_cases", "upload_cases",
        "audit_logs", "password_reset_tokens", "admin_mfa_challenges", "auth_flow_tokens",
        "user_totp_factors", "user_passkeys", "user_backup_codes", "rate_limit_hits",
        "data_export_requests", "access_policies", "content_scrub_rules">>
<1>1. ts \in Seq(TableNames)
  BY DEF TableNames
<1>2. Range(ts) = TableNames
  BY DEF Range, TableNames
<1>3. Schema = CreateAll(ts)
  BY DEF Schema
<1> HIDE DEF ts
<1>4. Schema \in Seq(Loose) /\ Range(Schema) = {Create(t) : t \in TableNames}
  BY <1>1, <1>2, <1>3, CreateAllIs
<1>5. \A t \in TableNames : Create(t).table = t
  BY DEF Create
<1>6. Tables = {s.table : s \in {Create(t) : t \in TableNames}}
  BY <1>4 DEF Tables
<1>7. Tables = TableNames
  BY <1>5, <1>6
<1> QED BY <1>4, <1>7

LEMMA ClientIdentitiesIs ==
    /\ ClientIdentities \in Seq(Loose)
    /\ Range(ClientIdentities) =
           {Create("client_identities"), Add("uploads", "client_identity_id"),
            Add("training_cases", "created_by_client_identity_id")}
<1>1. /\ Create("client_identities") \in Loose /\ Add("uploads", "client_identity_id") \in Loose
      /\ Add("training_cases", "created_by_client_identity_id") \in Loose
  BY StatementsAreLoose DEF TableNames, Names
<1> QED BY <1>1, Three DEF ClientIdentities

LEMMA ScrubRulesIs ==
    ASSUME NEW e \in Engines
    PROVE  /\ ScrubRules(e) \in Seq(Loose)
           /\ Range(ScrubRules(e)) =
                {Create("content_scrub_rules"),
                 IF e = "sqlite" THEN Index("content_scrub_rules", "signature")
                                 ELSE Add("content_scrub_rules", "match_count")}
<1>1. /\ Create("content_scrub_rules") \in Loose
      /\ Index("content_scrub_rules", "signature") \in Loose
      /\ Add("content_scrub_rules", "match_count") \in Loose
  BY StatementsAreLoose DEF TableNames, Names
<1> QED BY <1>1, Two DEF ScrubRules

LEMMA CreatesAre ==
    ASSUME NEW t \in TableNames, NEW u \in TableNames
    PROVE  CreateAll(<<t, u>>) \in Seq(Loose) /\ Range(CreateAll(<<t, u>>)) = {Create(t), Create(u)}
<1> DEFINE ts == <<t, u>>
<1>1. ts \in Seq(TableNames) /\ Range(ts) = {t, u}
  BY Two
<1> HIDE DEF ts
<1>2. CreateAll(ts) \in Seq(Loose) /\ Range(CreateAll(ts)) = {Create(x) : x \in Range(ts)}
  BY <1>1, CreateAllIs
<1>3. Range(CreateAll(ts)) = {Create(t), Create(u)}
  BY <1>1, <1>2
<1> QED BY <1>2, <1>3 DEF ts

LEMMA ExternalAuthIs ==
    ASSUME NEW e \in Engines
    PROVE  /\ ExternalAuth(e) \in Seq(Loose)
           /\ Range(ExternalAuth(e)) =
                {Create("external_auth_states"), Create("external_identities")}
                    \cup IF e = "sqlite" THEN {Index("external_identities", "subject")} ELSE {}
<1> DEFINE a == CreateAll(<<"external_auth_states", "external_identities">>)
           b == IF e = "sqlite" THEN <<Index("external_identities", "subject")>> ELSE <<>>
<1>1. a \in Seq(Loose) /\ Range(a) = {Create("external_auth_states"), Create("external_identities")}
  BY CreatesAre DEF TableNames
<1>2. Index("external_identities", "subject") \in Loose
  BY StatementsAreLoose DEF TableNames, Names
<1>3. b \in Seq(Loose) /\ Range(b) = IF e = "sqlite" THEN {Index("external_identities", "subject")} ELSE {}
  BY <1>2, None, One
<1>4. ExternalAuth(e) = a \o b
  BY DEF ExternalAuth
<1> HIDE DEF a, b
<1> QED BY <1>1, <1>3, <1>4, RangeConcat

LEMMA SecondFactorsIs ==
    /\ SecondFactors \in Seq(Loose)
    /\ Range(SecondFactors) \subseteq {Create(t) : t \in TableNames}
<1> DEFINE ts == <<"auth_flow_tokens", "user_totp_factors", "user_passkeys", "user_backup_codes">>
<1>1. ts \in Seq(TableNames) /\ Range(ts) \subseteq TableNames
  <2>1. /\ "auth_flow_tokens" \in TableNames /\ "user_totp_factors" \in TableNames
        /\ "user_passkeys" \in TableNames /\ "user_backup_codes" \in TableNames
    BY DEF TableNames
  <2> QED BY <2>1, Four
<1>2. SecondFactors = CreateAll(ts)
  BY DEF SecondFactors
<1> HIDE DEF ts
<1> QED BY <1>1, <1>2, CreateAllIs

LEMMA AddTwo ==
    ASSUME NEW t \in TableNames, NEW a \in Names, NEW b \in Names
    PROVE  AddAll(t, <<a, b>>) \in Seq(Loose) /\ Range(AddAll(t, <<a, b>>)) = {Add(t, a), Add(t, b)}
<1> DEFINE cs == <<a, b>>
<1>1. cs \in Seq(Names) /\ Range(cs) = {a, b}
  BY Two
<1> HIDE DEF cs
<1>2. AddAll(t, cs) \in Seq(Loose) /\ Range(AddAll(t, cs)) = {Add(t, x) : x \in Range(cs)}
  BY <1>1, AddAllIs
<1>3. Range(AddAll(t, cs)) = {Add(t, a), Add(t, b)}
  BY <1>1, <1>2
<1> QED BY <1>2, <1>3 DEF cs

LEMMA AddThree ==
    ASSUME NEW t \in TableNames, NEW a \in Names, NEW b \in Names, NEW c \in Names
    PROVE  /\ AddAll(t, <<a, b, c>>) \in Seq(Loose)
           /\ Range(AddAll(t, <<a, b, c>>)) = {Add(t, a), Add(t, b), Add(t, c)}
<1> DEFINE cs == <<a, b, c>>
<1>1. cs \in Seq(Names) /\ Range(cs) = {a, b, c}
  BY Three
<1> HIDE DEF cs
<1>2. AddAll(t, cs) \in Seq(Loose) /\ Range(AddAll(t, cs)) = {Add(t, x) : x \in Range(cs)}
  BY <1>1, AddAllIs
<1>3. Range(AddAll(t, cs)) = {Add(t, a), Add(t, b), Add(t, c)}
  BY <1>1, <1>2
<1> QED BY <1>2, <1>3 DEF cs

LEMMA UsersSecurityIs ==
    /\ UsersSecurity \in Seq(Loose)
    /\ Range(UsersSecurity) = {Add("users", "mfa_enabled"), Add("users", "failed_login_attempts"),
                               Add("users", "lockout_until")}
<1>1. "users" \in TableNames /\ "mfa_enabled" \in Names /\ "failed_login_attempts" \in Names
          /\ "lockout_until" \in Names
  BY DEF TableNames, Names
<1> QED BY <1>1, AddThree DEF UsersSecurity

LEMMA ResetTokensIs ==
    /\ ResetTokens \in Seq(Loose)
    /\ Range(ResetTokens) = {Add("password_reset_tokens", "source_ip"), Add("password_reset_tokens", "user_agent")}
BY AddTwo DEF ResetTokens, TableNames, Names

LEMMA ChallengesIs ==
    /\ Challenges \in Seq(Loose)
    /\ Range(Challenges) = {Add("admin_mfa_challenges", "failed_attempts"), Add("admin_mfa_challenges", "source_ip"),
                            Add("admin_mfa_challenges", "user_agent")}
<1>1. "admin_mfa_challenges" \in TableNames /\ "failed_attempts" \in Names /\ "source_ip" \in Names
          /\ "user_agent" \in Names
  BY DEF TableNames, Names
<1> QED BY <1>1, AddThree DEF Challenges

LEMMA CaseColumnsIs ==
    /\ CaseColumns \in Seq(Loose)
    /\ Range(CaseColumns) = {Add("training_cases", "payload_json"), Add("training_cases", "content_deleted_at")}
BY AddTwo DEF CaseColumns, TableNames, Names

LEMMA CaseIdentityIs ==
    /\ CaseIdentity \in Seq(Loose)
    /\ Range(CaseIdentity) = {Rebuild("training_cases", "created_by_user_id")}
<1>1. Rebuild("training_cases", "created_by_user_id") \in Loose
  BY StatementsAreLoose DEF TableNames, Names
<1> QED BY <1>1, One DEF CaseIdentity

LEMMA UploadsSecurityIs ==
    /\ AddAll("uploads", <<"source_ip", "user_agent">>) \in Seq(Loose)
    /\ Range(AddAll("uploads", <<"source_ip", "user_agent">>)) =
             {Add("uploads", "source_ip"), Add("uploads", "user_agent")}
    /\ <<Rebuild("uploads", "user_id")>> \in Seq(Loose)
    /\ Range(<<Rebuild("uploads", "user_id")>>) = {Rebuild("uploads", "user_id")}
<1>1. Rebuild("uploads", "user_id") \in Loose
  BY StatementsAreLoose DEF TableNames, Names
<1>2. /\ AddAll("uploads", <<"source_ip", "user_agent">>) \in Seq(Loose)
      /\ Range(AddAll("uploads", <<"source_ip", "user_agent">>)) =
             {Add("uploads", "source_ip"), Add("uploads", "user_agent")}
  BY AddTwo DEF TableNames, Names
<1> QED BY <1>1, <1>2, One

LEMMA AuditLogsIs ==
    /\ AddAll("audit_logs", <<"source_ip", "user_agent">>) \in Seq(Loose)
    /\ Range(AddAll("audit_logs", <<"source_ip", "user_agent">>)) =
             {Add("audit_logs", "source_ip"), Add("audit_logs", "user_agent")}
    /\ <<Rebuild("audit_logs", "actor_user_id")>> \in Seq(Loose)
    /\ Range(<<Rebuild("audit_logs", "actor_user_id")>>) = {Rebuild("audit_logs", "actor_user_id")}
<1>1. Rebuild("audit_logs", "actor_user_id") \in Loose
  BY StatementsAreLoose DEF TableNames, Names
<1>2. /\ AddAll("audit_logs", <<"source_ip", "user_agent">>) \in Seq(Loose)
      /\ Range(AddAll("audit_logs", <<"source_ip", "user_agent">>)) =
             {Add("audit_logs", "source_ip"), Add("audit_logs", "user_agent")}
  BY AddTwo DEF TableNames, Names
<1> QED BY <1>1, <1>2, One

LEMMA SqliteIndexesIs ==
    /\ SqliteIndexes \in Seq(Loose)
    /\ Range(SqliteIndexes) =
           {Index("uploads", "user_sha"), Index("uploads", "client_sha"),
            Index("upload_cases", "case"), Index("external_identities", "subject"),
            Index("content_scrub_rules", "signature")}
<1>1. /\ Index("uploads", "user_sha") \in Loose /\ Index("uploads", "client_sha") \in Loose
      /\ Index("upload_cases", "case") \in Loose /\ Index("external_identities", "subject") \in Loose
      /\ Index("content_scrub_rules", "signature") \in Loose
  BY StatementsAreLoose DEF TableNames, Names
<1> QED BY <1>1, Five DEF SqliteIndexes

\* The script up to the indexes of SQLite, and these.
FirstPart(e) ==
    Schema \o ClientIdentities \o ExternalAuth(e) \o ScrubRules(e) \o UsersSecurity
        \o UploadsSecurity \o AuditLogs \o ResetTokens \o Challenges \o SecondFactors
        \o CaseColumns \o CaseIdentity
LastPart(e) == IF e = "sqlite" THEN SqliteIndexes ELSE <<>>

\* The statements of the first part that are the same in both dialects.
Shared ==
    Range(Schema) \cup Range(ClientIdentities) \cup Range(UsersSecurity)
        \cup Range(UploadsSecurity) \cup Range(AuditLogs) \cup Range(ResetTokens)
        \cup Range(Challenges) \cup Range(SecondFactors) \cup Range(CaseColumns)
        \cup Range(CaseIdentity)

LEMMA PiecesAreLoose ==
    ASSUME NEW e \in Engines
    PROVE  /\ Schema \in Seq(Loose) /\ ClientIdentities \in Seq(Loose) /\ ExternalAuth(e) \in Seq(Loose)
           /\ ScrubRules(e) \in Seq(Loose) /\ UsersSecurity \in Seq(Loose)
           /\ UploadsSecurity \in Seq(Loose) /\ AuditLogs \in Seq(Loose) /\ ResetTokens \in Seq(Loose)
           /\ Challenges \in Seq(Loose) /\ SecondFactors \in Seq(Loose) /\ CaseColumns \in Seq(Loose)
           /\ CaseIdentity \in Seq(Loose) /\ LastPart(e) \in Seq(Loose)
<1>1. UploadsSecurity \in Seq(Loose)
  BY UploadsSecurityIs, RangeConcat DEF UploadsSecurity
<1>2. AuditLogs \in Seq(Loose)
  BY AuditLogsIs, RangeConcat DEF AuditLogs
<1>3. LastPart(e) \in Seq(Loose)
  BY SqliteIndexesIs, None DEF LastPart
<1> QED BY <1>1, <1>2, <1>3, SchemaIs, ClientIdentitiesIs, ExternalAuthIs, ScrubRulesIs, UsersSecurityIs,
           ResetTokensIs, ChallengesIs, SecondFactorsIs, CaseColumnsIs, CaseIdentityIs

LEMMA FirstPartIs ==
    ASSUME NEW e \in Engines
    PROVE  /\ FirstPart(e) \in Seq(Loose)
           /\ Range(FirstPart(e)) = Shared \cup Range(ExternalAuth(e)) \cup Range(ScrubRules(e))
           /\ Script(e) = FirstPart(e) \o LastPart(e)
<1> DEFINE p1 == Schema
           p2 == p1 \o ClientIdentities
           p3 == p2 \o ExternalAuth(e)
           p4 == p3 \o ScrubRules(e)
           p5 == p4 \o UsersSecurity
           p6 == p5 \o UploadsSecurity
           p7 == p6 \o AuditLogs
           p8 == p7 \o ResetTokens
           p9 == p8 \o Challenges
           p10 == p9 \o SecondFactors
           p11 == p10 \o CaseColumns
           p12 == p11 \o CaseIdentity
<1>1. p1 \in Seq(Loose) /\ Range(p1) = Range(Schema)
  BY PiecesAreLoose
<1> HIDE DEF p1
<1>2. p2 \in Seq(Loose) /\ Range(p2) = Range(p1) \cup Range(ClientIdentities)
  BY <1>1, PiecesAreLoose, RangeConcat
<1> HIDE DEF p2
<1>3. p3 \in Seq(Loose) /\ Range(p3) = Range(p2) \cup Range(ExternalAuth(e))
  BY <1>2, PiecesAreLoose, RangeConcat
<1> HIDE DEF p3
<1>4. p4 \in Seq(Loose) /\ Range(p4) = Range(p3) \cup Range(ScrubRules(e))
  BY <1>3, PiecesAreLoose, RangeConcat
<1> HIDE DEF p4
<1>5. p5 \in Seq(Loose) /\ Range(p5) = Range(p4) \cup Range(UsersSecurity)
  BY <1>4, PiecesAreLoose, RangeConcat
<1> HIDE DEF p5
<1>6. p6 \in Seq(Loose) /\ Range(p6) = Range(p5) \cup Range(UploadsSecurity)
  BY <1>5, PiecesAreLoose, RangeConcat
<1> HIDE DEF p6
<1>7. p7 \in Seq(Loose) /\ Range(p7) = Range(p6) \cup Range(AuditLogs)
  BY <1>6, PiecesAreLoose, RangeConcat
<1> HIDE DEF p7
<1>8. p8 \in Seq(Loose) /\ Range(p8) = Range(p7) \cup Range(ResetTokens)
  BY <1>7, PiecesAreLoose, RangeConcat
<1> HIDE DEF p8
<1>9. p9 \in Seq(Loose) /\ Range(p9) = Range(p8) \cup Range(Challenges)
  BY <1>8, PiecesAreLoose, RangeConcat
<1> HIDE DEF p9
<1>10. p10 \in Seq(Loose) /\ Range(p10) = Range(p9) \cup Range(SecondFactors)
  BY <1>9, PiecesAreLoose, RangeConcat
<1> HIDE DEF p10
<1>11. p11 \in Seq(Loose) /\ Range(p11) = Range(p10) \cup Range(CaseColumns)
  BY <1>10, PiecesAreLoose, RangeConcat
<1> HIDE DEF p11
<1>12. p12 \in Seq(Loose) /\ Range(p12) = Range(p11) \cup Range(CaseIdentity)
  BY <1>11, PiecesAreLoose, RangeConcat
<1> HIDE DEF p12
<1>13. FirstPart(e) = p12
  BY DEF FirstPart, p1, p2, p3, p4, p5, p6, p7, p8, p9, p10, p11, p12
<1>14. Range(p12) = Shared \cup Range(ExternalAuth(e)) \cup Range(ScrubRules(e))
  BY <1>1, <1>2, <1>3, <1>4, <1>5, <1>6, <1>7, <1>8, <1>9, <1>10, <1>11, <1>12 DEF Shared
<1>15. Script(e) = FirstPart(e) \o LastPart(e)
  BY DEF Script, FirstPart, LastPart
<1> QED BY <1>12, <1>13, <1>14, <1>15

LEMMA ScriptIs ==
    ASSUME NEW e \in Engines
    PROVE  /\ Script(e) \in Seq(Loose)
           /\ Range(Script(e)) =
                 Shared \cup Range(ExternalAuth(e)) \cup Range(ScrubRules(e)) \cup Range(LastPart(e))
<1>1. FirstPart(e) \in Seq(Loose) /\ LastPart(e) \in Seq(Loose)
  BY FirstPartIs, PiecesAreLoose
<1>2. /\ FirstPart(e) \o LastPart(e) \in Seq(Loose)
      /\ Range(FirstPart(e) \o LastPart(e)) = Range(FirstPart(e)) \cup Range(LastPart(e))
  BY <1>1, RangeConcat
<1>3. Script(e) = FirstPart(e) \o LastPart(e)
  BY FirstPartIs
<1>4. Range(FirstPart(e)) = Shared \cup Range(ExternalAuth(e)) \cup Range(ScrubRules(e))
  BY FirstPartIs
<1> QED BY <1>2, <1>3, <1>4

\* What is said of a statement by its kind.
Kinds(x) ==
    /\ x.do = "create" => x = Create(x.table)
    /\ x.do = "add" =>
          /\ x = Add(x.table, x.name)
          /\ x.name \in Names \ {"id", "user_sha", "client_sha", "case", "subject", "signature"}
          /\ x.table = "uploads" => x.name \in {"client_identity_id", "source_ip", "user_agent"}
          /\ x.table = "audit_logs" => x.name \in {"source_ip", "user_agent"}
          /\ x.table = "training_cases" =>
                x.name \in {"created_by_client_identity_id", "payload_json", "content_deleted_at"}
    /\ x.do = "rebuild" => x.table \in Rebuilt

LEMMA SharedKinds == \A x \in Shared : x \in Loose /\ Kinds(x) /\ x.do # "index"
<1> USE DEF Create, Add, Index, Rebuild
<1>0. \A x \in Shared : x \in Loose
  BY PiecesAreLoose, RangeInto DEF Shared, Engines
<1> DEFINE Good(x) == Kinds(x) /\ x.do # "index"
<1>1. \A x \in Range(Schema) : Good(x)
  BY SchemaIs DEF Kinds, Names, Rebuilt
<1>2. \A x \in Range(ClientIdentities) : Good(x)
  BY ClientIdentitiesIs DEF Kinds, Names, Rebuilt
<1>3. \A x \in Range(UsersSecurity) : Good(x)
  BY UsersSecurityIs DEF Kinds, Names, Rebuilt
<1>4. \A x \in Range(UploadsSecurity) : Good(x)
  <2>1. Range(UploadsSecurity) = {Add("uploads", "source_ip"), Add("uploads", "user_agent"),
                                  Rebuild("uploads", "user_id")}
    BY UploadsSecurityIs, RangeConcat DEF UploadsSecurity
  <2> QED BY <2>1 DEF Kinds, Names, Rebuilt
<1>5. \A x \in Range(AuditLogs) : Good(x)
  <2>1. Range(AuditLogs) = {Add("audit_logs", "source_ip"), Add("audit_logs", "user_agent"),
                            Rebuild("audit_logs", "actor_user_id")}
    BY AuditLogsIs, RangeConcat DEF AuditLogs
  <2> QED BY <2>1 DEF Kinds, Names, Rebuilt
<1>6. \A x \in Range(ResetTokens) : Good(x)
  BY ResetTokensIs DEF Kinds, Names, Rebuilt
<1>7. \A x \in Range(Challenges) : Good(x)
  BY ChallengesIs DEF Kinds, Names, Rebuilt
<1>8. \A x \in Range(SecondFactors) : Good(x)
  BY SecondFactorsIs DEF Kinds, Names, Rebuilt
<1>9. \A x \in Range(CaseColumns) : Good(x)
  BY CaseColumnsIs DEF Kinds, Names, Rebuilt
<1>10. \A x \in Range(CaseIdentity) : Good(x)
  BY CaseIdentityIs DEF Kinds, Names, Rebuilt
<1> HIDE DEF Good
<1>11. \A x \in Shared : Good(x)
  BY <1>1, <1>2, <1>3, <1>4, <1>5, <1>6, <1>7, <1>8, <1>9, <1>10 DEF Shared
<1> QED BY <1>0, <1>11 DEF Good

LEMMA ScriptKinds ==
    ASSUME NEW e \in Engines, NEW x \in Range(Script(e))
    PROVE  /\ x \in Loose /\ Kinds(x)
           /\ x.do = "index" => e = "sqlite" /\ x \in Range(SqliteIndexes)
           /\ x \in Range(FirstPart(e)) /\ x.do = "index" => x.table \notin Rebuilt
           /\ x \in Range(LastPart(e)) => x.do = "index"
<1> USE DEF Create, Add, Index, Rebuild
<1>0. x \in Loose
  BY ScriptIs, RangeInto
<1>1. CASE x \in Shared
  <2>1. x.do # "index" /\ Kinds(x)
    BY <1>1, SharedKinds
  <2>2. x \in Range(LastPart(e)) => x.do = "index"
    BY SqliteIndexesIs, None DEF LastPart
  <2> QED BY <1>0, <2>1, <2>2
<1>2. CASE x \in Range(ExternalAuth(e))
  <2>1. \/ x = Create("external_auth_states") \/ x = Create("external_identities")
        \/ e = "sqlite" /\ x = Index("external_identities", "subject")
    BY <1>2, ExternalAuthIs
  <2>2. Kinds(x) /\ (x.do = "index" => x.table \notin Rebuilt)
    BY <2>1 DEF Kinds, Rebuilt
  <2>3. x.do = "index" => e = "sqlite" /\ x \in Range(SqliteIndexes)
    BY <2>1, SqliteIndexesIs
  <2>4. x \in Range(LastPart(e)) => x.do = "index"
    BY SqliteIndexesIs, None DEF LastPart
  <2> QED BY <1>0, <2>2, <2>3, <2>4
<1>3. CASE x \in Range(ScrubRules(e))
  <2>1. \/ x = Create("content_scrub_rules")
        \/ e = "sqlite" /\ x = Index("content_scrub_rules", "signature")
        \/ e # "sqlite" /\ x = Add("content_scrub_rules", "match_count")
    BY <1>3, ScrubRulesIs
  <2>2. Kinds(x) /\ (x.do = "index" => x.table \notin Rebuilt)
    BY <2>1 DEF Kinds, Rebuilt, Names
  <2>3. x.do = "index" => e = "sqlite" /\ x \in Range(SqliteIndexes)
    BY <2>1, SqliteIndexesIs
  <2>4. x \in Range(LastPart(e)) => x.do = "index"
    BY SqliteIndexesIs, None DEF LastPart
  <2> QED BY <1>0, <2>2, <2>3, <2>4
<1>4. CASE x \notin Range(FirstPart(e)) /\ x \in Range(LastPart(e))
  <2>1. e = "sqlite" /\ x \in Range(SqliteIndexes)
    BY <1>4, None DEF LastPart
  <2>2. x.do = "index"
    BY <2>1, SqliteIndexesIs
  <2>3. Kinds(x)
    BY <2>2 DEF Kinds
  <2> QED BY <1>0, <1>4, <2>1, <2>2, <2>3
<1> QED BY <1>1, <1>2, <1>3, <1>4, ScriptIs, FirstPartIs

KeyNames == {"user_sha", "client_sha", "case", "subject", "signature"}

LEMMA ColumnsAre ==
    /\ \A t : "id" \in Columns(t)
    /\ \A e \in Engines : \A x \in Range(Script(e)) : x.do = "add" => x.name \in Columns(x.table)
    /\ \A t : \A c \in Columns(t) \ {"id"} :
          /\ Add(t, c) \in Range(Script("mariadb")) /\ Kinds(Add(t, c)) /\ c \in Names \ KeyNames
          /\ c # "match_count" => \A e \in Engines : Add(t, c) \in Range(Script(e))
<1>1. \A t : "id" \in Columns(t)
  BY DEF Columns
<1>2. ASSUME NEW e \in Engines, NEW x \in Range(Script(e)), x.do = "add"
      PROVE  x \in Range(Script("mariadb"))
  <2>1. CASE x \in Shared
    BY <2>1, ScriptIs DEF Engines
  <2>2. CASE x \in Range(ScrubRules(e)) /\ e = "mariadb"
    BY <2>2
  <2>3. x \notin Range(ScrubRules("sqlite"))
    BY <1>2, ScrubRulesIs DEF Engines, Create, Index
  <2>4. x \notin Range(ExternalAuth(e))
    <3>1. \A y \in Range(ExternalAuth(e)) : y.do # "add"
      BY ExternalAuthIs DEF Create, Index
    <3> QED BY <3>1, <1>2
  <2>5. x \notin Range(LastPart(e))
    BY <1>2, ScriptKinds
  <2> QED BY <2>1, <2>2, <2>3, <2>4, <2>5, ScriptIs DEF Engines
<1>3. ASSUME NEW e \in Engines, NEW x \in Range(Script(e)), x.do = "add"
      PROVE x.name \in Columns(x.table)
  BY <1>2, <1>3 DEF Columns
<1>4. ASSUME NEW t, NEW c \in Columns(t) \ {"id"}
      PROVE  /\ Add(t, c) \in Range(Script("mariadb")) /\ Kinds(Add(t, c)) /\ c \in Names \ KeyNames
             /\ c # "match_count" => \A e \in Engines : Add(t, c) \in Range(Script(e))
  <2>1. PICK x \in Range(Script("mariadb")) : x.do = "add" /\ x.table = t /\ x.name = c
    BY DEF Columns
  <2>2. Kinds(x)
    BY ScriptKinds DEF Engines
  <2>3. x = Add(t, c) /\ c \in Names \ KeyNames
    BY <2>1, <2>2 DEF Kinds, KeyNames
  <2>4. ASSUME c # "match_count", NEW e \in Engines PROVE x \in Range(Script(e))
    <3>1. \A y \in Range(ExternalAuth("mariadb")) : y.do # "add"
      BY ExternalAuthIs DEF Engines, Create
    <3>2. \A y \in Range(ScrubRules("mariadb")) : y.do = "add" => y.name = "match_count"
      BY ScrubRulesIs DEF Engines, Create, Add
    <3>3. Range(LastPart("mariadb")) = {}
      BY None DEF LastPart
    <3>4. x \in Shared
      BY <3>1, <3>2, <3>3, <2>1, <2>4, ScriptIs DEF Engines
    <3> QED BY <3>4, ScriptIs
  <2> QED BY <2>2, <2>3, <2>4
<1> QED BY <1>1, <1>3, <1>4

LEMMA KeysAre ==
    /\ \A t : \A k \in Keys(t) : Index(t, k) \in Range(SqliteIndexes) /\ k \in KeyNames
    /\ \A x \in Range(SqliteIndexes) : x.name \in Keys(x.table) /\ x = Index(x.table, x.name)
<1>1. ASSUME NEW x \in Range(SqliteIndexes)
      PROVE x = Index(x.table, x.name) /\ x.name \in KeyNames
  BY SqliteIndexesIs DEF Index, KeyNames
<1>2. ASSUME NEW x \in Range(SqliteIndexes) PROVE x.name \in Keys(x.table)
  BY DEF Keys
<1>3. ASSUME NEW t, NEW k \in Keys(t)
      PROVE Index(t, k) \in Range(SqliteIndexes) /\ k \in KeyNames
  <2>1. PICK x \in Range(SqliteIndexes) : x.table = t /\ x.name = k
    BY DEF Keys
  <2> QED BY <2>1, <1>1
<1> QED BY <1>1, <1>2, <1>3

LEMMA ApartNames == \A t : Columns(t) \cap Keys(t) = {} /\ "match_count" \notin Keys(t)
<1>1. "id" \notin KeyNames /\ "match_count" \notin KeyNames
  BY DEF KeyNames
<1> QED BY <1>1, ColumnsAre, KeysAre

\* What a statement that is no rebuild needs are the tables of Schema.
LEMMA NeedsTable ==
    ASSUME NEW e \in Engines, NEW x \in Range(Script(e)), x.do # "rebuild"
    PROVE Needs(x) \subseteq Range(Schema)
<1>1. x.table \in TableNames
  BY ScriptKinds DEF Loose
<1> QED BY <1>1, SchemaIs DEF Needs

LEMMA NeedsColumns ==
    /\ \A k : Needs(Rebuild("uploads", k)) \subseteq
          Range(Schema) \cup Range(ClientIdentities)
              \cup Range(AddAll("uploads", <<"source_ip", "user_agent">>))
    /\ \A k : Needs(Rebuild("audit_logs", k)) \subseteq
          Range(Schema) \cup Range(AddAll("audit_logs", <<"source_ip", "user_agent">>))
    /\ \A k : Needs(Rebuild("training_cases", k)) \subseteq
          Range(Schema) \cup Range(ClientIdentities) \cup Range(CaseColumns)
<1>0. \A t, k : Needs(Rebuild(t, k)) = {Create(t)} \cup {Add(t, c) : c \in Columns(t) \ {"id"}}
  BY DEF Needs, Rebuild
<1>1. \A c \in Columns("uploads") \ {"id"} : c \in {"client_identity_id", "source_ip", "user_agent"}
  BY ColumnsAre DEF Kinds, Add
<1>2. \A c \in Columns("audit_logs") \ {"id"} : c \in {"source_ip", "user_agent"}
  BY ColumnsAre DEF Kinds, Add
<1>3. \A c \in Columns("training_cases") \ {"id"} :
          c \in {"created_by_client_identity_id", "payload_json", "content_deleted_at"}
  BY ColumnsAre DEF Kinds, Add
<1>4. Create("uploads") \in Range(Schema) /\ Create("audit_logs") \in Range(Schema)
      /\ Create("training_cases") \in Range(Schema)
  BY SchemaIs DEF TableNames
<1>5. \A c \in {"client_identity_id", "source_ip", "user_agent"} :
          Add("uploads", c) \in Range(ClientIdentities) \cup Range(AddAll("uploads", <<"source_ip", "user_agent">>))
  BY ClientIdentitiesIs, UploadsSecurityIs
<1>6. \A c \in {"source_ip", "user_agent"} :
          Add("audit_logs", c) \in Range(AddAll("audit_logs", <<"source_ip", "user_agent">>))
  BY AuditLogsIs
<1>7. \A c \in {"created_by_client_identity_id", "payload_json", "content_deleted_at"} :
          Add("training_cases", c) \in Range(ClientIdentities) \cup Range(CaseColumns)
  BY ClientIdentitiesIs, CaseColumnsIs
<1> QED BY <1>0, <1>1, <1>2, <1>3, <1>4, <1>5, <1>6, <1>7

LEMMA FollowsNext ==
    ASSUME NEW S, NEW s \in Seq(S), NEW t \in Seq(S), Follows({}, s),
           \A x \in Range(t) : Needs(x) \subseteq Range(s)
    PROVE  s \o t \in Seq(S) /\ Range(s \o t) = Range(s) \cup Range(t) /\ Follows({}, s \o t)
<1>1. Follows(Range(s), t)
  BY FollowsAtOnce
<1>2. Follows({} \cup Range(s), t)
  BY <1>1
<1>3. Follows({}, s \o t)
  BY <1>2, FollowsAppend
<1> QED BY <1>3, RangeConcat

LEMMA FollowsRebuild ==
    ASSUME NEW S, NEW s \in Seq(S), NEW a \in Seq(S), NEW b \in Seq(S), Follows({}, s),
           \A x \in Range(a) : Needs(x) \subseteq Range(s),
           \A x \in Range(b) : Needs(x) \subseteq Range(s) \cup Range(a)
    PROVE  Follows({}, s \o (a \o b))
<1>1. Follows(Range(s), a)
  BY FollowsAtOnce
<1>2. Follows(Range(s) \cup Range(a), b)
  BY FollowsAtOnce
<1>3. Follows(Range(s), a \o b)
  BY <1>1, <1>2, FollowsAppend
<1>4. a \o b \in Seq(S) /\ Follows({} \cup Range(s), a \o b)
  BY <1>3, RangeConcat
<1> QED BY <1>4, FollowsAppend

LEMMA ScriptFollows == ASSUME NEW e \in Engines PROVE Follows({}, Script(e))
<1> DEFINE p1 == Schema
           p2 == p1 \o ClientIdentities
           p3 == p2 \o ExternalAuth(e)
           p4 == p3 \o ScrubRules(e)
           p5 == p4 \o UsersSecurity
           p6 == p5 \o UploadsSecurity
           p7 == p6 \o AuditLogs
           p8 == p7 \o ResetTokens
           p9 == p8 \o Challenges
           p10 == p9 \o SecondFactors
           p11 == p10 \o CaseColumns
           p12 == p11 \o CaseIdentity
           up == Range(Schema) \cup Range(ClientIdentities)
<1>a. \A x \in Range(Script(e)) : x.do # "rebuild" => Needs(x) \subseteq Range(Schema)
  BY NeedsTable
<1>b. /\ \A x \in Range(ClientIdentities) : x.do # "rebuild"
      /\ \A x \in Range(ExternalAuth(e)) : x.do # "rebuild"
      /\ \A x \in Range(ScrubRules(e)) : x.do # "rebuild"
      /\ \A x \in Range(UsersSecurity) : x.do # "rebuild"
      /\ \A x \in Range(ResetTokens) : x.do # "rebuild"
      /\ \A x \in Range(Challenges) : x.do # "rebuild"
      /\ \A x \in Range(SecondFactors) : x.do # "rebuild"
      /\ \A x \in Range(CaseColumns) : x.do # "rebuild"
      /\ \A x \in Range(LastPart(e)) : x.do # "rebuild"
  <2>1. \A x \in Range(ClientIdentities) : x.do # "rebuild"
    BY ClientIdentitiesIs DEF Create, Add, Index
  <2>2. \A x \in Range(ExternalAuth(e)) : x.do # "rebuild"
    BY ExternalAuthIs DEF Create, Add, Index
  <2>3. \A x \in Range(ScrubRules(e)) : x.do # "rebuild"
    BY ScrubRulesIs DEF Create, Add, Index
  <2>4. \A x \in Range(UsersSecurity) : x.do # "rebuild"
    BY UsersSecurityIs DEF Create, Add, Index
  <2>5. \A x \in Range(ResetTokens) : x.do # "rebuild"
    BY ResetTokensIs DEF Create, Add, Index
  <2>6. \A x \in Range(Challenges) : x.do # "rebuild"
    BY ChallengesIs DEF Create, Add, Index
  <2>7. \A x \in Range(SecondFactors) : x.do # "rebuild"
    BY SecondFactorsIs DEF Create, Add, Index
  <2>8. \A x \in Range(CaseColumns) : x.do # "rebuild"
    BY CaseColumnsIs DEF Create, Add, Index
  <2>9. \A x \in Range(LastPart(e)) : x.do # "rebuild"
    BY SqliteIndexesIs, None DEF LastPart, Index
  <2> QED BY <2>1, <2>2, <2>3, <2>4, <2>5, <2>6, <2>7, <2>8, <2>9
<1>c. /\ \A x \in Range(ClientIdentities) : Needs(x) \subseteq Range(Schema)
      /\ \A x \in Range(ExternalAuth(e)) : Needs(x) \subseteq Range(Schema)
      /\ \A x \in Range(ScrubRules(e)) : Needs(x) \subseteq Range(Schema)
      /\ \A x \in Range(UsersSecurity) : Needs(x) \subseteq Range(Schema)
      /\ \A x \in Range(ResetTokens) : Needs(x) \subseteq Range(Schema)
      /\ \A x \in Range(Challenges) : Needs(x) \subseteq Range(Schema)
      /\ \A x \in Range(SecondFactors) : Needs(x) \subseteq Range(Schema)
      /\ \A x \in Range(CaseColumns) : Needs(x) \subseteq Range(Schema)
      /\ \A x \in Range(LastPart(e)) : Needs(x) \subseteq Range(Schema)
  BY <1>a, <1>b, ScriptIs DEF Shared
<1>1. p1 \in Seq(Loose) /\ Range(p1) = Range(Schema) /\ Follows({}, p1)
  <2>1. \A x \in Range(Schema) : Needs(x) \subseteq {}
    BY SchemaIs DEF Needs, Create
  <2> QED BY <2>1, PiecesAreLoose, FollowsAtOnce
<1> HIDE DEF p1
<1>2. p2 \in Seq(Loose) /\ up \subseteq Range(p2) /\ Follows({}, p2)
  <2>1. \A x \in Range(ClientIdentities) : Needs(x) \subseteq Range(p1)
    BY <1>c, <1>1
  <2> QED BY <2>1, <1>1, PiecesAreLoose, FollowsNext
<1> HIDE DEF p2
<1>3. p3 \in Seq(Loose) /\ up \subseteq Range(p3) /\ Follows({}, p3)
  <2>1. \A x \in Range(ExternalAuth(e)) : Needs(x) \subseteq Range(p2)
    BY <1>c, <1>2
  <2> QED BY <2>1, <1>2, PiecesAreLoose, FollowsNext
<1> HIDE DEF p3
<1>4. p4 \in Seq(Loose) /\ up \subseteq Range(p4) /\ Follows({}, p4)
  <2>1. \A x \in Range(ScrubRules(e)) : Needs(x) \subseteq Range(p3)
    BY <1>c, <1>3
  <2> QED BY <2>1, <1>3, PiecesAreLoose, FollowsNext
<1> HIDE DEF p4
<1>5. p5 \in Seq(Loose) /\ up \subseteq Range(p5) /\ Follows({}, p5)
  <2>1. \A x \in Range(UsersSecurity) : Needs(x) \subseteq Range(p4)
    BY <1>c, <1>4
  <2> QED BY <2>1, <1>4, PiecesAreLoose, FollowsNext
<1> HIDE DEF p5
<1>6. p6 \in Seq(Loose) /\ up \subseteq Range(p6) /\ Follows({}, p6)
  <2> DEFINE a == AddAll("uploads", <<"source_ip", "user_agent">>)
             b == <<Rebuild("uploads", "user_id")>>
  <2>1. a \in Seq(Loose) /\ b \in Seq(Loose) /\ Range(b) = {Rebuild("uploads", "user_id")}
    BY UploadsSecurityIs
  <2>2. \A x \in Range(a) : Needs(x) \subseteq Range(p5)
    <3>1. \A x \in Range(a) : x \in Range(UploadsSecurity) /\ x.do # "rebuild"
      BY UploadsSecurityIs, RangeConcat DEF UploadsSecurity, Add
    <3> QED BY <3>1, <1>a, <1>5, ScriptIs DEF Shared
  <2>3. \A x \in Range(b) : Needs(x) \subseteq Range(p5) \cup Range(a)
    BY <2>1, <1>5, NeedsColumns
  <2>4. UploadsSecurity = a \o b
    BY DEF UploadsSecurity
  <2> HIDE DEF a, b
  <2>5. Follows({}, p6)
    BY <2>1, <2>2, <2>3, <2>4, <1>5, FollowsRebuild
  <2>6. p6 \in Seq(Loose) /\ Range(p6) = Range(p5) \cup Range(UploadsSecurity)
    BY <1>5, PiecesAreLoose, RangeConcat
  <2> QED BY <2>5, <2>6, <1>5
<1> HIDE DEF p6
<1>7. p7 \in Seq(Loose) /\ up \subseteq Range(p7) /\ Follows({}, p7)
  <2> DEFINE a == AddAll("audit_logs", <<"source_ip", "user_agent">>)
             b == <<Rebuild("audit_logs", "actor_user_id")>>
  <2>1. a \in Seq(Loose) /\ b \in Seq(Loose) /\ Range(b) = {Rebuild("audit_logs", "actor_user_id")}
    BY AuditLogsIs
  <2>2. \A x \in Range(a) : Needs(x) \subseteq Range(p6)
    <3>1. \A x \in Range(a) : x \in Range(AuditLogs) /\ x.do # "rebuild"
      BY AuditLogsIs, RangeConcat DEF AuditLogs, Add
    <3> QED BY <3>1, <1>a, <1>6, ScriptIs DEF Shared
  <2>3. \A x \in Range(b) : Needs(x) \subseteq Range(p6) \cup Range(a)
    BY <2>1, <1>6, NeedsColumns
  <2>4. AuditLogs = a \o b
    BY DEF AuditLogs
  <2> HIDE DEF a, b
  <2>5. Follows({}, p7)
    BY <2>1, <2>2, <2>3, <2>4, <1>6, FollowsRebuild
  <2>6. p7 \in Seq(Loose) /\ Range(p7) = Range(p6) \cup Range(AuditLogs)
    BY <1>6, PiecesAreLoose, RangeConcat
  <2> QED BY <2>5, <2>6, <1>6
<1> HIDE DEF p7
<1>8. p8 \in Seq(Loose) /\ up \subseteq Range(p8) /\ Follows({}, p8)
  <2>1. \A x \in Range(ResetTokens) : Needs(x) \subseteq Range(p7)
    BY <1>c, <1>7
  <2> QED BY <2>1, <1>7, PiecesAreLoose, FollowsNext
<1> HIDE DEF p8
<1>9. p9 \in Seq(Loose) /\ up \subseteq Range(p9) /\ Follows({}, p9)
  <2>1. \A x \in Range(Challenges) : Needs(x) \subseteq Range(p8)
    BY <1>c, <1>8
  <2> QED BY <2>1, <1>8, PiecesAreLoose, FollowsNext
<1> HIDE DEF p9
<1>10. p10 \in Seq(Loose) /\ up \subseteq Range(p10) /\ Follows({}, p10)
  <2>1. \A x \in Range(SecondFactors) : Needs(x) \subseteq Range(p9)
    BY <1>c, <1>9
  <2> QED BY <2>1, <1>9, PiecesAreLoose, FollowsNext
<1> HIDE DEF p10
<1>11. p11 \in Seq(Loose) /\ up \subseteq Range(p11) /\ Range(CaseColumns) \subseteq Range(p11) /\ Follows({}, p11)
  <2>1. \A x \in Range(CaseColumns) : Needs(x) \subseteq Range(p10)
    BY <1>c, <1>10
  <2> QED BY <2>1, <1>10, PiecesAreLoose, FollowsNext
<1> HIDE DEF p11
<1>12. p12 \in Seq(Loose) /\ up \subseteq Range(p12) /\ Range(CaseColumns) \subseteq Range(p12) /\ Follows({}, p12)
  <2>1. \A x \in Range(CaseIdentity) : Needs(x) \subseteq Range(p11)
    BY <1>11, CaseIdentityIs, NeedsColumns
  <2> QED BY <2>1, <1>11, PiecesAreLoose, FollowsNext
<1> HIDE DEF p12
<1>13. Script(e) = p12 \o LastPart(e)
  BY DEF Script, LastPart, p1, p2, p3, p4, p5, p6, p7, p8, p9, p10, p11, p12
<1>14. \A x \in Range(LastPart(e)) : Needs(x) \subseteq Range(p12)
  BY <1>c, <1>12
<1> QED BY <1>12, <1>13, <1>14, PiecesAreLoose, FollowsNext

-----------------------------------------------------------------------------
(* What the proofs below use of the script. *)

\* Each kind of statement names what it can.
Named(e, x) ==
    /\ x.do \in {"create", "add", "index", "rebuild"} /\ x.table \in Tables
    /\ x.do = "create" => x.name = "id"
    /\ x.do = "add" => x.name \in Columns(x.table)
    /\ x.do = "index" => x.name \in Keys(x.table) /\ e = "sqlite"
    /\ x.do = "rebuild" => x.table \in Rebuilt

\* The statement x makes column c of its table.
Makes(x, c) == \/ x.do = "create" /\ c = "id"
               \/ x.do = "add" /\ c = x.name

LEMMA ScriptNamed ==
    ASSUME NEW e \in Engines
    PROVE  /\ Script(e) \in Seq(Loose) /\ Len(Script(e)) \in Nat
           /\ \A n \in 1..Len(Script(e)) : Named(e, Script(e)[n])
<1>1. Script(e) \in Seq(Loose) /\ Len(Script(e)) \in Nat
  BY ScriptIs, LenProperties
<1>2. ASSUME NEW x \in Range(Script(e)) PROVE Named(e, x)
  <2>1. x \in Loose /\ Kinds(x) /\ (x.do = "index" => e = "sqlite" /\ x \in Range(SqliteIndexes))
    BY ScriptKinds
  <2>2. x.do \in {"create", "add", "index", "rebuild"} /\ x.table \in Tables
    BY <2>1, SchemaIs DEF Loose
  <2>3. x.do = "create" => x.name = "id"
    <3>1. \A t : Create(t).name = "id"
      BY DEF Create
    <3> QED BY <2>1, <3>1 DEF Kinds
  <2>4. x.do = "add" => x.name \in Columns(x.table)
    BY ColumnsAre
  <2>5. x.do = "index" => x.name \in Keys(x.table)
    BY <2>1, KeysAre
  <2> QED BY <2>1, <2>2, <2>3, <2>4, <2>5 DEF Named, Kinds
<1> QED BY <1>1, <1>2, RangeHas

LEMMA ScriptReady ==
    ASSUME NEW e \in Engines, NEW n \in 1..Len(Script(e))
    PROVE  LET x == Script(e)[n]
               Before(t, c) == \E m \in 1..(n - 1) : Script(e)[m].table = t /\ Makes(Script(e)[m], c)
           IN  /\ x.do # "create" => Before(x.table, "id")
               /\ x.do = "rebuild" => \A c \in Columns(x.table) : Before(x.table, c)
<1> DEFINE x == Script(e)[n]
<1>1. ASSUME NEW y \in Needs(x) PROVE \E m \in 1..(n - 1) : Script(e)[m] = y
  BY ScriptFollows DEF Follows
<1>2. \A t : Create(t).table = t /\ Makes(Create(t), "id")
  BY DEF Create, Makes
<1>3. \A t, c : Add(t, c).table = t /\ Makes(Add(t, c), c)
  BY DEF Add, Makes
<1>4. ASSUME x.do # "create" PROVE \E m \in 1..(n - 1) : Script(e)[m] = Create(x.table)
  BY <1>1, <1>4 DEF Needs
<1>5. ASSUME x.do = "rebuild", NEW c \in Columns(x.table), c # "id"
      PROVE  \E m \in 1..(n - 1) : Script(e)[m] = Add(x.table, c)
  BY <1>1, <1>5 DEF Needs
<1> HIDE DEF x
<1>6. ASSUME x.do # "create"
      PROVE  \E m \in 1..(n - 1) : Script(e)[m].table = x.table /\ Makes(Script(e)[m], "id")
  BY <1>2, <1>4, <1>6
<1>7. ASSUME x.do = "rebuild", NEW c \in Columns(x.table)
      PROVE  \E m \in 1..(n - 1) : Script(e)[m].table = x.table /\ Makes(Script(e)[m], c)
  BY <1>3, <1>5, <1>6, <1>7
<1> QED BY <1>6, <1>7 DEF x

LEMMA IndexesAfterRebuilds ==
    ASSUME NEW e \in Engines, NEW n \in 1..Len(Script(e)), NEW m \in 1..Len(Script(e)),
           Script(e)[n].do = "rebuild", Script(e)[m].do = "index", Script(e)[n].table = Script(e)[m].table
    PROVE  n < m
<1> DEFINE a == FirstPart(e)
           b == LastPart(e)
<1>1. a \in Seq(Loose) /\ b \in Seq(Loose) /\ Script(e) = a \o b
  BY FirstPartIs, PiecesAreLoose
<1>2. /\ Len(Script(e)) = Len(a) + Len(b) /\ Len(a) \in Nat /\ Len(b) \in Nat
      /\ \A i \in 1..Len(a) + Len(b) : Script(e)[i] = IF i <= Len(a) THEN a[i] ELSE b[i - Len(a)]
  BY <1>1, ConcatProperties, LenProperties
<1> HIDE DEF a, b
<1>3. Script(e)[n] \in Range(Script(e)) /\ Script(e)[m] \in Range(Script(e))
  BY ScriptIs, RangeHas
<1>4. Script(e)[n].table \in Rebuilt
  BY <1>3, ScriptKinds DEF Kinds
<1>5. n <= Len(a)
  <2> SUFFICES ASSUME n > Len(a) PROVE FALSE
    BY <1>2
  <2> DEFINE i == n - Len(a)
  <2>1. i \in 1..Len(b) /\ Script(e)[n] = b[i]
    BY <1>2
  <2>2. Script(e)[n] \in Range(b)
    BY <2>1, <1>1, RangeHas
  <2> QED BY <2>2, <1>3, ScriptKinds DEF b
<1>6. ~(m <= Len(a))
  <2> SUFFICES ASSUME m <= Len(a) PROVE FALSE
    OBVIOUS
  <2>1. m \in 1..Len(a) /\ Script(e)[m] = a[m]
    BY <1>2
  <2>2. Script(e)[m] \in Range(a)
    BY <2>1, <1>1, RangeHas
  <2> QED BY <2>2, <1>3, <1>4, ScriptKinds DEF a
<1> QED BY <1>2, <1>5, <1>6

\* The script has a statement for everything there is, but for what Skipped names.
LEMMA ScriptComplete ==
    ASSUME NEW e \in Engines
    PROVE  LET Some(x) == \E n \in 1..Len(Script(e)) : Script(e)[n] = x IN
           /\ \A t \in Tables : Some(Create(t))
           /\ \A t \in Tables : \A c \in Columns(t) \ {"id"} :
                 e = "mariadb" \/ c # "match_count" => Some(Add(t, c))
           /\ e = "sqlite" => \A t \in Tables : \A k \in Keys(t) : Some(Index(t, k))
           /\ \A t \in Rebuilt : \E n \in 1..Len(Script(e)) :
                 Script(e)[n].do = "rebuild" /\ Script(e)[n].table = t
<1>1. \A x : x \in Range(Script(e)) <=> \E n \in 1..Len(Script(e)) : Script(e)[n] = x
  BY ScriptIs, RangeHas
<1>2. \A t \in Tables : Create(t) \in Range(Script(e))
  BY SchemaIs, ScriptIs DEF Shared
<1>3. \A t \in Tables : \A c \in Columns(t) \ {"id"} :
          e = "mariadb" \/ c # "match_count" => Add(t, c) \in Range(Script(e))
  BY ColumnsAre
<1>4. e = "sqlite" => \A t \in Tables : \A k \in Keys(t) : Index(t, k) \in Range(Script(e))
  BY KeysAre, ScriptIs DEF LastPart
<1>5. ASSUME NEW t \in Rebuilt PROVE \E k : Rebuild(t, k) \in Range(Script(e))
  <2>1. Rebuild("uploads", "user_id") \in Range(UploadsSecurity)
    BY UploadsSecurityIs, RangeConcat DEF UploadsSecurity
  <2>2. Rebuild("audit_logs", "actor_user_id") \in Range(AuditLogs)
    <3>1. Rebuild("audit_logs", "actor_user_id") \in Range(<<Rebuild("audit_logs", "actor_user_id")>>)
      BY AuditLogsIs
    <3> QED BY <3>1, AuditLogsIs, RangeConcat DEF AuditLogs
  <2>3. Rebuild("training_cases", "created_by_user_id") \in Range(CaseIdentity)
    BY CaseIdentityIs
  <2>4. t \in {"uploads", "audit_logs", "training_cases"}
    BY DEF Rebuilt
  <2> QED BY <2>1, <2>2, <2>3, <2>4, ScriptIs DEF Shared
<1>6. \A t, k : Rebuild(t, k).do = "rebuild" /\ Rebuild(t, k).table = t
  BY DEF Rebuild
<1>7. \A t \in Rebuilt : \E n \in 1..Len(Script(e)) :
          Script(e)[n].do = "rebuild" /\ Script(e)[n].table = t
  BY <1>1, <1>5, <1>6
<1> QED BY <1>1, <1>2, <1>3, <1>4, <1>7

-----------------------------------------------------------------------------
(* The inductive invariant. *)

Length == Len(Scripts[engine])
Steps == {"begin", "alter", "create", "fill", "drop", "rename", "serves", "overtaken"}

TypeOK ==
    /\ engine \in Engines /\ found \in Releases
    /\ base \in SchemaType /\ draft \in SchemaType
    /\ holder \in Workers \cup {Nobody}
    /\ worker \in [Workers -> [at : 0..(Length + 1), step : Steps]]
    /\ raced \in [Workers -> BOOLEAN]
    /\ left \in [Workers -> SUBSET Rebuilt]

\* Columns and keys are some that the table has in a release; one that does not
\* exist has none.
Fits(s) ==
    \A t \in Tables : /\ s.columns[t] \subseteq Columns(t)
                      /\ s.keys[t] \subseteq Keys(t)
                      /\ "id" \notin s.columns[t] => s.columns[t] = {} /\ s.keys[t] = {}

\* What the schema has kept of an older one.
Keeps(old, new) ==
    \A t \in Tables : old.columns[t] \subseteq new.columns[t] /\ old.keys[t] \subseteq new.keys[t]

SchemasOK ==
    /\ Fits(base) /\ Fits(draft)
    /\ \A t \in Rebuilt : base.copy[t] # "full"
    /\ Keeps(found, base)
    /\ engine = "mariadb" =>
          /\ holder = Nobody
          /\ \A t \in Tables : found.columns[t] = {} /\ base.columns[t] # {} => Keys(t) \subseteq base.keys[t]

Place(w) == worker[w].at
InScript(w) == Place(w) \in 1..Length
Rebuilding(w) == worker[w].step \in {"create", "fill", "drop", "rename"}
Replacing(w) == worker[w].step \in {"drop", "rename"}

PlaceOK(w) ==
    /\ worker[w].step = "serves" => Place(w) = Length + 1
    /\ worker[w].step = "overtaken" => Place(w) = 0
    /\ worker[w].step = "alter" => InScript(w) /\ Statement(w).do = "add"
    /\ Rebuilding(w) => InScript(w) /\ Statement(w).do = "rebuild" /\ engine = "sqlite"
    /\ Place(w) = 0 \/ worker[w].step = "serves" => holder # w
    /\ Replacing(w) => holder = w

\* What a statement was for is so in a schema.
Holds(s, x) ==
    /\ x.do \in {"create", "add"} => x.name \in s.columns[x.table]
    /\ x.do = "index" => x.name \in s.keys[x.table]
    /\ x.do = "rebuild" => x.table \notin s.strict

\* The statement failed, and the start went on.
Behind(ts, x) == x.do = "rebuild" /\ x.table \in ts

\* The table that is away between DROP and RENAME.
Away(w, t) == worker[w].step = "rename" /\ Statement(w).table = t

DoneOK(w) ==
    \A m \in 1..Length : m < Place(w) =>
        \/ Away(w, Scripts[engine][m].table)
        \/ Behind(left[w], Scripts[engine][m])
        \/ Holds(Sch(w), Scripts[engine][m])

\* An open transaction lacks nothing but the table it is replacing and its keys,
\* which the script is going to make again.
ToCome(w, t, k) ==
    \E m \in 1..Length : /\ m >= Place(w)
                         /\ Scripts[engine][m].do = "index"
                         /\ Scripts[engine][m].table = t /\ Scripts[engine][m].name = k
DraftOK(w) ==
    holder = w =>
        /\ \A t \in Tables : ~Away(w, t) => base.columns[t] \subseteq draft.columns[t]
        /\ \A t \in Tables : \A k \in base.keys[t] : k \in draft.keys[t] \/ ToCome(w, t, k)
        /\ \A t \in base.rows : t \in draft.rows \/ Away(w, t)
        /\ draft.strict \subseteq base.strict
        /\ \A t \in Rebuilt : draft.copy[t] = "full" => Replacing(w) /\ Statement(w).table = t
        /\ Replacing(w) /\ Statement(w).table \in base.rows => draft.copy[Statement(w).table] = "full"

\* Nobody else has changed what an undisturbed worker saw.
UndisturbedOK(w) ==
    ~raced[w] /\ Place(w) > 0 =>
        /\ holder \in {Nobody, w}
        /\ worker[w].step = "alter" => ~There(w)
        /\ worker[w].step = "fill" => Sch(w).copy[Statement(w).table] = "empty"

WorkerOK(w) == PlaceOK(w) /\ DoneOK(w) /\ DraftOK(w) /\ UndisturbedOK(w)

MigrationInv == TypeOK /\ SchemasOK /\ \A w \in Workers : WorkerOK(w)

-----------------------------------------------------------------------------
(* Its parts are kept. *)

LEMMA EngineScript ==
    ASSUME TypeOK
    PROVE  engine \in Engines /\ Scripts[engine] = Script(engine) /\ Length \in Nat
<1>1. engine \in Engines /\ Scripts[engine] = Script(engine)
  BY DEF TypeOK, Engines, Scripts
<1> QED BY <1>1, ScriptNamed DEF Length

LEMMA StatementNamed ==
    ASSUME TypeOK, NEW n \in 1..Length
    PROVE  Named(engine, Scripts[engine][n])
BY EngineScript, ScriptNamed DEF Length

\* What a schema has more of than another.
Grown(old, new) == Keeps(old, new) /\ old.rows \subseteq new.rows /\ new.strict \subseteq old.strict

LEMMA HoldsOn ==
    ASSUME NEW s, NEW s2, NEW x, x.table \in Tables, Grown(s, s2), Holds(s, x)
    PROVE  Holds(s2, x)
BY DEF Grown, Keeps, Holds

\* A worker that does nothing finds what it relies on.
Spared(x) ==
    /\ worker'[x] = worker[x]
    /\ holder = x => holder' = x /\ base' = base /\ draft' = draft
    /\ holder # x => holder' # x
    /\ raced[x] => raced'[x]
    /\ ~raced'[x] => base' = base /\ holder' \in {holder, Nobody}
    /\ left'[x] = left[x]
Quiet(w) == \A x \in Workers \ {w} : Spared(x)

LEMMA OthersKeep ==
    ASSUME TypeOK, NEW x \in Workers, WorkerOK(x), Spared(x),
           engine' = engine, Grown(base, base'), x # Nobody
    PROVE  WorkerOK(x)'
<1>0. /\ worker'[x] = worker[x]
      /\ holder = x => holder' = x /\ base' = base /\ draft' = draft
      /\ holder # x => holder' # x
      /\ raced[x] => raced'[x]
      /\ ~raced'[x] => base' = base /\ holder' \in {holder, Nobody}
      /\ left'[x] = left[x]
  BY DEF Spared
<1>a. Place(x)' = Place(x) /\ Length' = Length /\ Scripts' = Scripts /\ InScript(x)' = InScript(x)
  BY <1>0 DEF Place, Length, InScript
<1>b. Statement(x)' = Statement(x) /\ \A t : Away(x, t)' = Away(x, t)
  BY <1>0, <1>a DEF Statement, Away
<1>c. holder = x => Sch(x)' = Sch(x)
  BY <1>0 DEF Sch
<1>d. Grown(Sch(x), Sch(x)')
  <2>1. CASE holder = x
    BY <2>1, <1>c DEF Grown, Keeps
  <2>2. CASE holder # x
    BY <2>2, <1>0 DEF Sch
  <2> QED BY <2>1, <2>2
<1>1. PlaceOK(x)'
  BY <1>0, <1>a, <1>b DEF WorkerOK, PlaceOK, Rebuilding, Replacing
<1>2. DoneOK(x)'
  <2> SUFFICES ASSUME NEW m \in 1..Length, m < Place(x)
               PROVE  \/ Away(x, Scripts[engine][m].table) \/ Behind(left[x], Scripts[engine][m])
                      \/ Holds(Sch(x)', Scripts[engine][m])
    BY <1>0, <1>a, <1>b DEF DoneOK
  <2>1. \/ Away(x, Scripts[engine][m].table) \/ Behind(left[x], Scripts[engine][m])
        \/ Holds(Sch(x), Scripts[engine][m])
    BY DEF WorkerOK, DoneOK
  <2>2. Scripts[engine][m].table \in Tables
    BY StatementNamed DEF Named
  <2> QED BY <2>1, <2>2, <1>d, HoldsOn
<1>3. DraftOK(x)'
  <2>1. CASE holder = x
    <3>1. \A t, k : ToCome(x, t, k)' = ToCome(x, t, k)
      BY <1>a DEF ToCome
    <3> QED BY <2>1, <3>1, <1>0, <1>a, <1>b DEF WorkerOK, DraftOK, Replacing
  <2>2. CASE holder # x
    BY <2>2, <1>0 DEF DraftOK
  <2> QED BY <2>1, <2>2
<1>4. UndisturbedOK(x)'
  <2> SUFFICES ASSUME ~raced'[x], Place(x) > 0
               PROVE  /\ holder' \in {Nobody, x}
                      /\ worker[x].step = "alter" => ~There(x)'
                      /\ worker[x].step = "fill" => (Sch(x)').copy[Statement(x).table] = "empty"
    BY <1>0, <1>a, <1>b DEF UndisturbedOK
  <2>1. ~raced[x] /\ base' = base /\ holder' \in {holder, Nobody}
    BY <1>0
  <2>2. /\ holder \in {Nobody, x}
        /\ worker[x].step = "alter" => ~There(x)
        /\ worker[x].step = "fill" => Sch(x).copy[Statement(x).table] = "empty"
    BY <2>1 DEF WorkerOK, UndisturbedOK
  <2>3. Sch(x)' = Sch(x)
    BY <2>1, <2>2, <1>0, <1>c DEF Sch
  <2>4. There(x)' = There(x)
    BY <2>3, <1>b DEF There
  <2> QED BY <2>1, <2>2, <2>3, <2>4
<1> QED BY <1>1, <1>2, <1>3, <1>4 DEF WorkerOK

LEMMA StepKeeps ==
    ASSUME MigrationInv, NEW w \in Workers, TypeOK', SchemasOK', WorkerOK(w)',
           engine' = engine, Grown(base, base'), Quiet(w)
    PROVE  MigrationInv'
<1>1. \A x \in Workers \ {w} : WorkerOK(x)'
  BY OthersKeep, ReleaseAssumption DEF MigrationInv, Quiet
<1> QED BY <1>1 DEF MigrationInv

MariaKeys(s) ==
    engine = "mariadb" =>
        \A t \in Tables : found.columns[t] = {} /\ s.columns[t] # {} => Keys(t) \subseteq s.keys[t]

LEMMA SchOK ==
    ASSUME MigrationInv, NEW w \in Workers
    PROVE  /\ Sch(w) \in SchemaType /\ Fits(Sch(w)) /\ MariaKeys(Sch(w))
           /\ holder # w => Sch(w) = base
           /\ ~Replacing(w) => Keeps(base, Sch(w)) \/ holder = w
           /\ ~Replacing(w) => \A t \in Rebuilt : Sch(w).copy[t] # "full"
<1> USE ReleaseAssumption DEF MigrationInv, TypeOK, SchemasOK
<1>1. CASE holder = w
  <2>1. MariaKeys(draft)
    BY <1>1 DEF MariaKeys
  <2>2. ~Replacing(w) => \A t \in Rebuilt : draft.copy[t] # "full"
    BY <1>1 DEF WorkerOK, DraftOK
  <2> QED BY <1>1, <2>1, <2>2 DEF Sch
<1>2. CASE holder # w
  BY <1>2 DEF Sch, MariaKeys, Keeps
<1> QED BY <1>1, <1>2

\* A write in the open transaction, or committed at once.
LEMMA WriteQuiet ==
    ASSUME MigrationInv, NEW w \in Workers, NEW s2, Execute(w, s2),
           holder \in {Nobody, w} \/ s2 = Sch(w), holder' = holder, Changed(w),
           \A x \in Workers \ {w} : worker'[x] = worker[x] /\ left'[x] = left[x]
    PROVE  Quiet(w)
<1> SUFFICES ASSUME NEW x \in Workers \ {w}
             PROVE  /\ holder = x => base' = base /\ draft' = draft
                    /\ raced[x] => raced'[x]
                    /\ ~raced'[x] => base' = base
  BY DEF Quiet, Spared
<1>1. holder = x => base' = base /\ draft' = draft
  BY ReleaseAssumption DEF Execute, Sch
<1>2. raced'[x] = (raced[x] \/ (x # w /\ (base' # base \/ holder' # holder)))
  BY DEF Changed
<1> QED BY <1>1, <1>2

LEMMA WriteSchemas ==
    ASSUME MigrationInv, NEW w \in Workers, NEW s2 \in SchemaType, Execute(w, s2),
           holder' = holder, engine' = engine, found' = found,
           Fits(s2), MariaKeys(s2),
           holder # w => Grown(base, s2) /\ \A t \in Rebuilt : s2.copy[t] # "full"
    PROVE  SchemasOK' /\ Grown(base, base') /\ base' \in SchemaType /\ draft' \in SchemaType
<1> USE DEF MigrationInv, TypeOK, SchemasOK
<1>1. CASE holder = w
  <2>1. draft' = s2 /\ base' = base
    BY <1>1 DEF Execute
  <2> QED BY <2>1 DEF Fits, Grown, Keeps
<1>2. CASE holder # w
  <2>1. base' = s2 /\ draft' = draft
    BY <1>2 DEF Execute
  <2>2. Keeps(found, s2) /\ Keeps(base, s2)
    BY <1>2 DEF Grown, Keeps
  <2>3. Keeps(found, base)' /\ Fits(base)' /\ Fits(draft)'
    BY <2>1, <2>2 DEF Fits, Keeps
  <2> QED BY <2>1, <2>3, <1>2 DEF MariaKeys
<1> QED BY <1>1, <1>2

Places == [at : 0..(Length + 1), step : Steps]

LEMMA ChangedType ==
    ASSUME NEW w, Changed(w) PROVE raced' \in [Workers -> BOOLEAN]
BY DEF Changed

\* A step of w leaves no more than a table of its own behind.
Leaves(w) ==
    /\ left' \in [Workers -> SUBSET Rebuilt]
    /\ left[w] \subseteq left'[w]
    /\ \A x \in Workers \ {w} : left'[x] = left[x]

\* A statement that takes nothing away, or fails: DoneOK and DraftOK.
LEMMA GrowingKeeps ==
    ASSUME MigrationInv, NEW w \in Workers, InScript(w), ~Replacing(w),
           NEW s2 \in SchemaType, Execute(w, s2), engine' = engine, holder' = holder,
           Grown(Sch(w), s2),
           \A t \in Rebuilt : s2.copy[t] = "full" => Sch(w).copy[t] = "full",
           NEW p \in Places, worker' = [worker EXCEPT ![w] = p],
           \/ /\ p.at = Place(w) + 1 /\ p.step = "begin"
              /\ Holds(s2, Statement(w)) \/ Behind(left'[w], Statement(w))
           \/ p.at = Place(w) /\ p.step \in {"alter", "create", "fill"},
           Leaves(w)
    PROVE  DoneOK(w)' /\ DraftOK(w)'
<1>0. worker'[w] = p /\ Place(w)' = p.at /\ Length' = Length /\ Scripts' = Scripts /\ Length \in Nat
  BY EngineScript DEF MigrationInv, TypeOK, Place, Length
<1>1. Sch(w)' = s2
  BY DEF Execute, Sch
<1>2. \A t : ~Away(w, t) /\ ~Away(w, t)'
  BY <1>0 DEF Away, Replacing
<1>3. ~Replacing(w)'
  BY <1>0 DEF Replacing
<1>4. Place(w) \in 1..Length /\ Statement(w) = Scripts[engine][Place(w)]
  BY DEF InScript, Statement, Place
<1>5. /\ p.at \in {Place(w), Place(w) + 1}
      /\ p.at = Place(w) + 1 => Holds(s2, Statement(w)) \/ Behind(left'[w], Statement(w))
  BY <1>4
<1>6. DoneOK(w)'
  <2> SUFFICES ASSUME NEW m \in 1..Length, m < p.at
               PROVE  Holds(s2, Scripts[engine][m]) \/ Behind(left'[w], Scripts[engine][m])
    BY <1>0, <1>1 DEF DoneOK
  <2>1. CASE m < Place(w)
    <3>0. Behind(left[w], Scripts[engine][m]) => Behind(left'[w], Scripts[engine][m])
      BY DEF Leaves, Behind
    <3>1. Holds(Sch(w), Scripts[engine][m]) \/ Behind(left[w], Scripts[engine][m])
      BY <2>1, <1>2 DEF MigrationInv, WorkerOK, DoneOK
    <3>2. Scripts[engine][m].table \in Tables
      BY StatementNamed DEF Named, MigrationInv
    <3> QED BY <3>0, <3>1, <3>2, HoldsOn
  <2>2. CASE ~(m < Place(w))
    BY <2>2, <1>4, <1>5, <1>0
  <2> QED BY <2>1, <2>2
<1>7. DraftOK(w)'
  <2> SUFFICES ASSUME holder = w PROVE DraftOK(w)'
    BY DEF DraftOK
  <2>1. draft' = s2 /\ base' = base /\ Sch(w) = draft
    BY DEF Execute, Sch
  <2>2. DraftOK(w)
    BY DEF MigrationInv, WorkerOK
  <2>3. \A t \in Tables : base.columns[t] \subseteq s2.columns[t]
    BY <2>1, <2>2, <1>2 DEF DraftOK, Grown, Keeps
  <2>4. ASSUME NEW t \in Tables, NEW k \in base.keys[t]
        PROVE k \in s2.keys[t] \/ ToCome(w, t, k)'
    <3>1. CASE k \in draft.keys[t]
      BY <3>1, <2>1 DEF Grown, Keeps
    <3>2. CASE ToCome(w, t, k)
      <4>1. PICK m \in 1..Length : /\ m >= Place(w) /\ Scripts[engine][m].do = "index"
                                   /\ Scripts[engine][m].table = t /\ Scripts[engine][m].name = k
        BY <3>2 DEF ToCome
      <4>2. CASE m >= p.at
        BY <4>1, <4>2, <1>0 DEF ToCome
      <4>3. CASE ~(m >= p.at)
        <5>1. m = Place(w) /\ p.at = Place(w) + 1
          BY <4>1, <4>3, <1>4, <1>5, <1>0
        <5>2. Holds(s2, Scripts[engine][m]) \/ Behind(left'[w], Scripts[engine][m])
          BY <5>1, <1>4, <1>5
        <5> QED BY <4>1, <5>2 DEF Holds, Behind
      <4> QED BY <4>2, <4>3
    <3> QED BY <3>1, <3>2, <2>2 DEF DraftOK
  <2>5. \A t \in base.rows : t \in s2.rows
    BY <2>1, <2>2, <1>2 DEF DraftOK, Grown
  <2>6. s2.strict \subseteq base.strict
    BY <2>1, <2>2 DEF DraftOK, Grown
  <2>7. \A t \in Rebuilt : s2.copy[t] # "full"
    BY <2>1, <2>2 DEF DraftOK
  <2> QED BY <2>1, <2>3, <2>4, <2>5, <2>6, <2>7, <1>3 DEF DraftOK
<1> QED BY <1>6, <1>7

LEMMA Proceeds ==
    ASSUME MigrationInv, NEW w \in Workers, InScript(w), ~Replacing(w),
           NEW s2 \in SchemaType, Execute(w, s2), holder \in {Nobody, w} \/ s2 = Sch(w),
           UNCHANGED <<engine, found, holder>>, Changed(w),
           Fits(s2), MariaKeys(s2), Grown(Sch(w), s2),
           \A t \in Rebuilt : s2.copy[t] = "full" => Sch(w).copy[t] = "full",
           NEW p \in Places, worker' = [worker EXCEPT ![w] = p],
           \/ /\ p.at = Place(w) + 1 /\ p.step = "begin"
              /\ Holds(s2, Statement(w)) \/ Behind(left'[w], Statement(w))
           \/ p.at = Place(w) /\ p.step \in {"alter", "create", "fill"},
           left' = left \/ Leaves(w), PlaceOK(w)', UndisturbedOK(w)'
    PROVE  MigrationInv' /\ Grown(base, base')
<1>0. Leaves(w)
  BY DEF Leaves, MigrationInv, TypeOK
<1>1. DoneOK(w)' /\ DraftOK(w)'
  BY <1>0, GrowingKeeps
<1>2. \A t \in Rebuilt : s2.copy[t] # "full"
  BY SchOK
<1>3. SchemasOK' /\ Grown(base, base') /\ base' \in SchemaType /\ draft' \in SchemaType
  BY <1>2, SchOK, WriteSchemas
<1>4. Quiet(w)
  <2>1. \A x \in Workers \ {w} : worker'[x] = worker[x] /\ left'[x] = left[x]
    BY <1>0 DEF Leaves, MigrationInv, TypeOK
  <2> QED BY <2>1, WriteQuiet
<1>5. TypeOK'
  BY <1>0, <1>3, ChangedType DEF Leaves, MigrationInv, TypeOK, Places, Length
<1> QED BY <1>1, <1>3, <1>4, <1>5, StepKeeps DEF WorkerOK

\* What is left to show of an action that goes on to the next statement.
LEMMA NextPlace ==
    ASSUME MigrationInv, NEW w \in Workers, InScript(w), ~Replacing(w), NextStatement(w),
           UNCHANGED <<engine, holder>>, raced'[w] = raced[w]
    PROVE  \E p \in Places :
              /\ worker' = [worker EXCEPT ![w] = p]
              /\ p.at = Place(w) + 1 /\ p.step = "begin"
              /\ PlaceOK(w)' /\ UndisturbedOK(w)'
<1> DEFINE p == [at |-> worker[w].at + 1, step |-> "begin"]
<1>0. worker[w] \in Places /\ worker \in [Workers -> Places] /\ Length \in Nat
  BY EngineScript DEF MigrationInv, TypeOK, Places
<1>1. worker' = [worker EXCEPT ![w] = p]
  BY DEF NextStatement
<1>2. p \in Places /\ p.at = Place(w) + 1 /\ p.step = "begin"
  BY <1>0 DEF Places, Place, InScript, Steps
<1> HIDE DEF p
<1>3. worker'[w] = p
  BY <1>0, <1>1
<1>4. PlaceOK(w)'
  BY <1>0, <1>2, <1>3 DEF PlaceOK, Place, Rebuilding, Replacing, InScript
<1>5. UndisturbedOK(w)'
  <2>1. UndisturbedOK(w)
    BY DEF MigrationInv, WorkerOK
  <2>2. ~raced[w] => holder \in {Nobody, w}
    BY <2>1 DEF UndisturbedOK, InScript, Length
  <2> QED BY <2>2, <1>3, <1>2 DEF UndisturbedOK
<1> QED BY <1>1, <1>2, <1>4, <1>5

-----------------------------------------------------------------------------
(* The statements one by one. *)

AllColumns == UNION {Columns(t) : t \in Tables}
AllKeys == UNION {Keys(t) : t \in Tables}

LEMMA SchemaFields ==
    ASSUME NEW s \in SchemaType
    PROVE  /\ s.columns \in [Tables -> SUBSET AllColumns] /\ s.keys \in [Tables -> SUBSET AllKeys]
           /\ s.strict \in SUBSET Rebuilt /\ s.rows \in SUBSET Rebuilt
           /\ s.copy \in [Rebuilt -> {"none", "empty", "full"}]
BY DEF SchemaType, AllColumns, AllKeys

LEMMA TableSets ==
    ASSUME NEW t \in Tables
    PROVE  /\ Columns(t) \subseteq AllColumns /\ Keys(t) \subseteq AllKeys
           /\ \A c \in Columns(t) : c \notin Keys(t)
           /\ "id" \in Columns(t)
BY ApartNames, ColumnsAre DEF AllColumns, AllKeys

LEMMA AtPlace ==
    ASSUME MigrationInv, NEW w \in Workers, NEW do, NEW step, At(w, do, step)
    PROVE  /\ InScript(w) /\ Statement(w).do = do /\ worker[w].step = step
           /\ Named(engine, Statement(w)) /\ Statement(w).table \in Tables
<1>1. InScript(w) /\ Statement(w).do = do /\ worker[w].step = step
  BY DEF At, InScript, Place, Length
<1>2. Named(engine, Statement(w))
  BY <1>1, StatementNamed DEF MigrationInv, InScript, Statement, Place
<1> QED BY <1>1, <1>2 DEF Named

LEMMA RunCreateKeeps ==
    ASSUME MigrationInv, NEW w \in Workers, RunCreate(w)
    PROVE MigrationInv' /\ Grown(base, base')
<1> DEFINE t == Statement(w).table
           K == IF engine = "mariadb" THEN Keys(t) ELSE {}
           s == Sch(w)
           s2 == IF There(w) THEN Sch(w)
                 ELSE [Sch(w) EXCEPT !.columns[t] = Columns(t), !.keys[t] = K]
<1>1. /\ InScript(w) /\ Statement(w).do = "create" /\ worker[w].step = "begin"
      /\ Statement(w).name = "id" /\ t \in Tables
  BY AtPlace DEF RunCreate, Named
<1>2. /\ There(w) \/ holder \in {Nobody, w}
      /\ Execute(w, s2) /\ NextStatement(w) /\ UNCHANGED <<engine, found, holder, left>> /\ Changed(w)
  BY DEF RunCreate, MayWrite
<1>3. ~Replacing(w)
  BY <1>1 DEF Replacing
<1>4. s \in SchemaType /\ Fits(s) /\ MariaKeys(s)
  BY SchOK
<1>5. /\ s2 \in SchemaType /\ Fits(s2) /\ MariaKeys(s2) /\ Grown(s, s2) /\ s2.copy = s.copy
      /\ Holds(s2, Statement(w))
  <2>1. CASE There(w)
    <3>1. "id" \in s.columns[t]
      BY <2>1, <1>1, <1>4, TableSets DEF There, Fits
    <3> QED BY <2>1, <3>1, <1>1, <1>4 DEF Grown, Keeps, Holds
  <2>2. CASE ~There(w)
    <3>1. s.columns[t] = {} /\ s.keys[t] = {}
      BY <2>2, <1>1, <1>4 DEF There, Fits
    <3> DEFINE C2 == [s.columns EXCEPT ![t] = Columns(t)]
               K2 == [s.keys EXCEPT ![t] = K]
    <3>2. C2 \in [Tables -> SUBSET AllColumns] /\ K2 \in [Tables -> SUBSET AllKeys]
      BY <1>1, <1>4, TableSets, SchemaFields
    <3>3. s2 = [s EXCEPT !.columns = C2, !.keys = K2]
      BY <2>2
    <3> HIDE DEF s2, C2, K2
    <3>4. /\ s2 \in SchemaType /\ s2.columns = C2 /\ s2.keys = K2 /\ s2.strict = s.strict
          /\ s2.rows = s.rows /\ s2.copy = s.copy
      BY <3>2, <3>3, <1>4 DEF SchemaType, AllColumns, AllKeys
    <3>5. /\ s2.columns[t] = Columns(t) /\ s2.keys[t] = K
          /\ \A x \in Tables \ {t} : s2.columns[x] = s.columns[x] /\ s2.keys[x] = s.keys[x]
      BY <3>4, <1>1, <1>4, SchemaFields DEF C2, K2
    <3>6. Fits(s2)
      BY <3>5, <1>1, <1>4, TableSets DEF Fits
    <3>7. MariaKeys(s2)
      BY <3>5, <1>4 DEF MariaKeys
    <3>8. Grown(s, s2)
      BY <3>1, <3>4, <3>5 DEF Grown, Keeps
    <3>9. Holds(s2, Statement(w))
      BY <3>5, <1>1, TableSets DEF Holds
    <3> QED BY <3>4, <3>6, <3>7, <3>8, <3>9
  <2> QED BY <2>1, <2>2
<1>6. holder \in {Nobody, w} \/ s2 = Sch(w)
  BY <1>2
<1> HIDE DEF s2
<1>7. raced'[w] = raced[w]
  BY <1>2 DEF Changed, MigrationInv, TypeOK
<1>8. PICK p \in Places : /\ worker' = [worker EXCEPT ![w] = p]
                          /\ p.at = Place(w) + 1 /\ p.step = "begin"
                          /\ PlaceOK(w)' /\ UndisturbedOK(w)'
  BY <1>1, <1>2, <1>3, <1>7, NextPlace
<1> QED BY <1>1, <1>2, <1>3, <1>5, <1>6, <1>8, Proceeds

LEMMA LooksOnly ==
    ASSUME MigrationInv, NEW w \in Workers, UNCHANGED <<base, draft, holder, raced>>
    PROVE  Execute(w, Sch(w)) /\ Changed(w) /\ Grown(Sch(w), Sch(w))
<1>1. Execute(w, Sch(w)) /\ Grown(Sch(w), Sch(w))
  BY DEF Execute, Sch, Grown, Keeps
<1>2. raced = [x \in Workers |-> raced[x]] /\ \A x \in Workers : raced[x] \in BOOLEAN
  BY DEF MigrationInv, TypeOK
<1>3. \A x \in Workers : (raced[x] \/ (x # w /\ (base' # base \/ holder' # holder))) = raced[x]
  BY <1>2
<1>4. Changed(w)
  BY <1>2, <1>3 DEF Changed
<1> QED BY <1>1, <1>4

\* The same for an action that goes on to another step of the statement.
LEMMA StayPlace ==
    ASSUME MigrationInv, NEW w \in Workers, InScript(w), ~Replacing(w),
           NEW step \in {"alter", "create", "fill"}, NextStep(w, step),
           UNCHANGED <<engine, holder>>, raced'[w] = raced[w],
           step = "alter" => Statement(w).do = "add" /\ ~There(w) /\ Sch(w)' = Sch(w),
           step # "alter" => Statement(w).do = "rebuild" /\ engine = "sqlite",
           step = "fill" => (Sch(w)').copy[Statement(w).table] = "empty"
    PROVE  \E p \in Places :
              /\ worker' = [worker EXCEPT ![w] = p]
              /\ p.at = Place(w) /\ p.step \in {"alter", "create", "fill"}
              /\ PlaceOK(w)' /\ UndisturbedOK(w)'
<1> DEFINE p == [worker[w] EXCEPT !.step = step]
<1>0. worker[w] \in Places /\ worker \in [Workers -> Places] /\ Length \in Nat
  BY EngineScript DEF MigrationInv, TypeOK, Places
<1>1. worker' = [worker EXCEPT ![w] = p]
  BY DEF NextStep
<1>2. p \in Places /\ p.at = Place(w) /\ p.step = step
  BY <1>0 DEF Places, Place, Steps
<1> HIDE DEF p
<1>3. worker'[w] = p
  BY <1>0, <1>1
<1>a. /\ Place(w)' = Place(w) /\ Length' = Length /\ InScript(w)' /\ Statement(w)' = Statement(w)
  BY <1>2, <1>3 DEF Place, Length, InScript, Statement
<1>b. Place(w) # 0 /\ worker'[w].step = step
  BY <1>2, <1>3 DEF InScript
<1>4. PlaceOK(w)'
  BY <1>a, <1>b DEF PlaceOK, Rebuilding, Replacing
<1>5. UndisturbedOK(w)'
  <2>1. UndisturbedOK(w)
    BY DEF MigrationInv, WorkerOK
  <2>2. ~raced[w] => holder \in {Nobody, w}
    BY <2>1, <1>0 DEF UndisturbedOK, InScript
  <2>3. step = "alter" => ~There(w)'
    BY <1>a DEF There
  <2> QED BY <2>2, <2>3, <1>a, <1>b DEF UndisturbedOK
<1> QED BY <1>1, <1>2, <1>4, <1>5

\* What a statement needs is there when its turn comes.
LEMMA Prepared ==
    ASSUME MigrationInv, NEW w \in Workers, InScript(w), ~Replacing(w), NEW c,
           \/ Statement(w).do # "create" /\ c = "id"
           \/ Statement(w).do = "rebuild" /\ c \in Columns(Statement(w).table)
    PROVE  c \in Sch(w).columns[Statement(w).table]
<1> DEFINE t == Statement(w).table
<1>1. \E m \in 1..(Place(w) - 1) : Scripts[engine][m].table = t /\ Makes(Scripts[engine][m], c)
  BY EngineScript, ScriptReady DEF MigrationInv, InScript, Place, Statement, Length
<1>2. PICK m \in 1..(Place(w) - 1) : Scripts[engine][m].table = t /\ Makes(Scripts[engine][m], c)
  BY <1>1
<1>3. m \in 1..Length /\ m < Place(w)
  BY EngineScript DEF InScript, MigrationInv
<1>4. Holds(Sch(w), Scripts[engine][m]) \/ Behind(left[w], Scripts[engine][m])
  BY <1>3 DEF MigrationInv, WorkerOK, DoneOK, Away, Replacing
<1>5. Named(engine, Scripts[engine][m])
  BY <1>3, StatementNamed DEF MigrationInv
<1> QED BY <1>2, <1>4, <1>5 DEF Makes, Holds, Named, Behind

LEMMA LookForColumnKeeps ==
    ASSUME MigrationInv, NEW w \in Workers, LookForColumn(w)
    PROVE MigrationInv' /\ Grown(base, base')
<1>1. /\ InScript(w) /\ Statement(w).do = "add" /\ worker[w].step = "begin"
      /\ Statement(w).table \in Tables /\ Statement(w).name \in Columns(Statement(w).table)
  BY AtPlace DEF LookForColumn, Named
<1>2. ~Replacing(w)
  BY <1>1 DEF Replacing
<1>3. /\ Sch(w) \in SchemaType /\ Fits(Sch(w)) /\ MariaKeys(Sch(w))
      /\ Execute(w, Sch(w)) /\ Changed(w) /\ Grown(Sch(w), Sch(w))
  BY SchOK, LooksOnly DEF LookForColumn
<1>4. UNCHANGED <<engine, found, holder, left>> /\ raced'[w] = raced[w] /\ Sch(w)' = Sch(w)
  BY DEF LookForColumn, Sch
<1>5. CASE There(w)
  <2>1. Holds(Sch(w), Statement(w))
    BY <1>1, <1>3, <1>5, TableSets DEF There, Fits, Holds
  <2>2. NextStatement(w)
    BY <1>5 DEF LookForColumn
  <2>3. PICK p \in Places : /\ worker' = [worker EXCEPT ![w] = p]
                            /\ p.at = Place(w) + 1 /\ p.step = "begin"
                            /\ PlaceOK(w)' /\ UndisturbedOK(w)'
    BY <1>1, <1>2, <1>4, <2>2, NextPlace
  <2> QED BY <1>1, <1>2, <1>3, <1>4, <2>1, <2>3, Proceeds
<1>6. CASE ~There(w)
  <2>1. NextStep(w, "alter")
    BY <1>6 DEF LookForColumn
  <2>2. PICK p \in Places : /\ worker' = [worker EXCEPT ![w] = p]
                            /\ p.at = Place(w) /\ p.step \in {"alter", "create", "fill"}
                            /\ PlaceOK(w)' /\ UndisturbedOK(w)'
    BY <1>1, <1>2, <1>4, <1>6, <2>1, StayPlace
  <2> QED BY <1>1, <1>2, <1>3, <1>4, <2>2, Proceeds
<1> QED BY <1>5, <1>6

LEMMA AddColumnKeeps ==
    ASSUME MigrationInv, NEW w \in Workers, AddColumn(w)
    PROVE MigrationInv' /\ Grown(base, base')
<1> DEFINE t == Statement(w).table
           c == Statement(w).name
           s == Sch(w)
           C2 == [s.columns EXCEPT ![t] = @ \cup {c}]
           s2 == [s EXCEPT !.columns[t] = @ \cup {c}]
<1>1. /\ InScript(w) /\ Statement(w).do = "add" /\ worker[w].step = "alter"
      /\ t \in Tables /\ c \in Columns(t)
  BY AtPlace DEF AddColumn, Named
<1>2. /\ holder \in {Nobody, w} /\ Execute(w, s2) /\ NextStatement(w)
      /\ UNCHANGED <<engine, found, holder, left>> /\ Changed(w)
  BY DEF AddColumn, MayWrite
<1>3. ~Replacing(w)
  BY <1>1 DEF Replacing
<1>4. s \in SchemaType /\ Fits(s) /\ MariaKeys(s)
  BY SchOK
<1>0. "id" \in s.columns[t]
  BY <1>1, <1>3, Prepared
<1>5. /\ s2 \in SchemaType /\ Fits(s2) /\ MariaKeys(s2) /\ Grown(s, s2) /\ s2.copy = s.copy
      /\ Holds(s2, Statement(w))
  <2>1. C2 \in [Tables -> SUBSET AllColumns]
    BY <1>1, <1>4, TableSets, SchemaFields
  <2>2. s2 = [s EXCEPT !.columns = C2]
    OBVIOUS
  <2> HIDE DEF s2, C2, s
  <2>3. /\ s2 \in SchemaType /\ s2.columns = C2 /\ s2.keys = s.keys /\ s2.strict = s.strict
        /\ s2.rows = s.rows /\ s2.copy = s.copy
    BY <2>1, <2>2, <1>4 DEF SchemaType, AllColumns, AllKeys
  <2>4. /\ s2.columns[t] = s.columns[t] \cup {c}
        /\ \A x \in Tables \ {t} : s2.columns[x] = s.columns[x]
    BY <2>3, <1>1, <1>4, SchemaFields DEF C2
  <2>5. Fits(s2)
    BY <2>3, <2>4, <1>0, <1>1, <1>4 DEF Fits
  <2>6. MariaKeys(s2)
    BY <2>3, <2>4, <1>0, <1>4 DEF MariaKeys
  <2>7. Grown(s, s2)
    BY <2>3, <2>4 DEF Grown, Keeps
  <2>8. Holds(s2, Statement(w))
    BY <2>4, <1>1 DEF Holds
  <2> QED BY <2>3, <2>5, <2>6, <2>7, <2>8
<1> HIDE DEF s2
<1>7. raced'[w] = raced[w]
  BY <1>2 DEF Changed, MigrationInv, TypeOK
<1>8. PICK p \in Places : /\ worker' = [worker EXCEPT ![w] = p]
                          /\ p.at = Place(w) + 1 /\ p.step = "begin"
                          /\ PlaceOK(w)' /\ UndisturbedOK(w)'
  BY <1>1, <1>2, <1>3, <1>7, NextPlace
<1> QED BY <1>1, <1>2, <1>3, <1>5, <1>8, Proceeds

LEMMA RunIndexKeeps ==
    ASSUME MigrationInv, NEW w \in Workers, RunIndex(w)
    PROVE MigrationInv' /\ Grown(base, base')
<1> DEFINE t == Statement(w).table
           k == Statement(w).name
           s == Sch(w)
           K2 == [s.keys EXCEPT ![t] = @ \cup {k}]
           s2 == [s EXCEPT !.keys[t] = @ \cup {k}]
<1>1. /\ InScript(w) /\ Statement(w).do = "index" /\ worker[w].step = "begin"
      /\ t \in Tables /\ k \in Keys(t) /\ engine = "sqlite"
  BY AtPlace DEF RunIndex, Named
<1>2. /\ There(w) \/ holder \in {Nobody, w}
      /\ Execute(w, s2) /\ NextStatement(w) /\ UNCHANGED <<engine, found, holder, left>> /\ Changed(w)
  BY DEF RunIndex, MayWrite
<1>3. ~Replacing(w)
  BY <1>1 DEF Replacing
<1>4. s \in SchemaType /\ Fits(s) /\ MariaKeys(s)
  BY SchOK
<1>0. "id" \in s.columns[t]
  BY <1>1, <1>3, Prepared
<1>5. /\ s2 \in SchemaType /\ Fits(s2) /\ MariaKeys(s2) /\ Grown(s, s2) /\ s2.copy = s.copy
      /\ Holds(s2, Statement(w)) /\ (There(w) => s2 = s)
  <2>1. K2 \in [Tables -> SUBSET AllKeys]
    BY <1>1, <1>4, TableSets, SchemaFields
  <2>2. s2 = [s EXCEPT !.keys = K2]
    OBVIOUS
  <2> HIDE DEF s2, K2, s
  <2>3. /\ s2 \in SchemaType /\ s2.columns = s.columns /\ s2.keys = K2 /\ s2.strict = s.strict
        /\ s2.rows = s.rows /\ s2.copy = s.copy
    BY <2>1, <2>2, <1>4 DEF SchemaType, AllColumns, AllKeys
  <2>4. /\ s2.keys[t] = s.keys[t] \cup {k}
        /\ \A x \in Tables \ {t} : s2.keys[x] = s.keys[x]
    BY <2>3, <1>1, <1>4, SchemaFields DEF K2
  <2>5. Fits(s2)
    BY <2>3, <2>4, <1>0, <1>1, <1>4 DEF Fits
  <2>6. MariaKeys(s2)
    BY <1>1 DEF MariaKeys
  <2>7. Grown(s, s2)
    BY <2>3, <2>4 DEF Grown, Keeps
  <2>8. Holds(s2, Statement(w))
    BY <2>4, <1>1 DEF Holds
  <2>9. ASSUME There(w) PROVE s2 = s
    <3>1. k \in s.keys[t]
      BY <2>9, <1>1, <1>4, TableSets DEF There, Fits, s
    <3>2. K2 = s.keys
      BY <3>1, <1>1, <1>4, SchemaFields DEF K2
    <3> QED BY <3>2, <2>2, <1>4 DEF SchemaType
  <2> QED BY <2>3, <2>5, <2>6, <2>7, <2>8, <2>9
<1>6. holder \in {Nobody, w} \/ s2 = Sch(w)
  BY <1>2, <1>5
<1> HIDE DEF s2
<1>7. raced'[w] = raced[w]
  BY <1>2 DEF Changed, MigrationInv, TypeOK
<1>8. PICK p \in Places : /\ worker' = [worker EXCEPT ![w] = p]
                          /\ p.at = Place(w) + 1 /\ p.step = "begin"
                          /\ PlaceOK(w)' /\ UndisturbedOK(w)'
  BY <1>1, <1>2, <1>3, <1>7, NextPlace
<1> QED BY <1>1, <1>2, <1>3, <1>5, <1>6, <1>8, Proceeds

LEMMA MakeNullableKeeps ==
    ASSUME MigrationInv, NEW w \in Workers, MakeNullable(w)
    PROVE MigrationInv' /\ Grown(base, base')
<1> DEFINE t == Statement(w).table
           s == Sch(w)
           X == s.strict \ {t}
           s2 == [s EXCEPT !.strict = @ \ {t}]
<1>1. InScript(w) /\ Statement(w).do = "rebuild" /\ worker[w].step = "begin" /\ t \in Tables
  BY AtPlace DEF MakeNullable
<1>2. /\ engine = "mariadb" /\ Execute(w, s2) /\ NextStatement(w)
      /\ UNCHANGED <<engine, found, holder, left>> /\ Changed(w)
  BY DEF MakeNullable
<1>3. ~Replacing(w)
  BY <1>1 DEF Replacing
<1>4. s \in SchemaType /\ Fits(s) /\ MariaKeys(s) /\ holder = Nobody
  BY <1>2, SchOK DEF MigrationInv, SchemasOK
<1>5. /\ s2 \in SchemaType /\ Fits(s2) /\ MariaKeys(s2) /\ Grown(s, s2) /\ s2.copy = s.copy
      /\ Holds(s2, Statement(w))
  <2>2. s2 = [s EXCEPT !.strict = X] /\ X \in SUBSET Rebuilt
    BY <1>4, SchemaFields
  <2> HIDE DEF s2, X, s
  <2>3. /\ s2 \in SchemaType /\ s2.columns = s.columns /\ s2.keys = s.keys /\ s2.strict = X
        /\ s2.rows = s.rows /\ s2.copy = s.copy
    BY <2>2, <1>4 DEF SchemaType
  <2> QED BY <2>3, <1>1, <1>4 DEF Fits, MariaKeys, Grown, Keeps, Holds, X
<1> HIDE DEF s2
<1>7. raced'[w] = raced[w]
  BY <1>2 DEF Changed, MigrationInv, TypeOK
<1>8. PICK p \in Places : /\ worker' = [worker EXCEPT ![w] = p]
                          /\ p.at = Place(w) + 1 /\ p.step = "begin"
                          /\ PlaceOK(w)' /\ UndisturbedOK(w)'
  BY <1>1, <1>2, <1>3, <1>7, NextPlace
<1> QED BY <1>1, <1>2, <1>3, <1>4, <1>5, <1>8, Proceeds

LEMMA LookForNullKeeps ==
    ASSUME MigrationInv, NEW w \in Workers, LookForNull(w)
    PROVE MigrationInv' /\ Grown(base, base')
<1>1. /\ InScript(w) /\ Statement(w).do = "rebuild" /\ worker[w].step = "begin" /\ engine = "sqlite"
  BY AtPlace DEF LookForNull
<1>2. ~Replacing(w)
  BY <1>1 DEF Replacing
<1>3. /\ Sch(w) \in SchemaType /\ Fits(Sch(w)) /\ MariaKeys(Sch(w))
      /\ Execute(w, Sch(w)) /\ Changed(w) /\ Grown(Sch(w), Sch(w))
  BY SchOK, LooksOnly DEF LookForNull
<1>4. UNCHANGED <<engine, found, holder, left>> /\ raced'[w] = raced[w]
  BY DEF LookForNull
<1>5. CASE Statement(w).table \notin Sch(w).strict
  <2>1. Holds(Sch(w), Statement(w))
    BY <1>1, <1>5 DEF Holds
  <2>2. NextStatement(w)
    BY <1>5 DEF LookForNull
  <2>3. PICK p \in Places : /\ worker' = [worker EXCEPT ![w] = p]
                            /\ p.at = Place(w) + 1 /\ p.step = "begin"
                            /\ PlaceOK(w)' /\ UndisturbedOK(w)'
    BY <1>1, <1>2, <1>4, <2>2, NextPlace
  <2> QED BY <1>1, <1>2, <1>3, <1>4, <2>1, <2>3, Proceeds
<1>6. CASE Statement(w).table \in Sch(w).strict
  <2>1. NextStep(w, "create")
    BY <1>6 DEF LookForNull
  <2>2. PICK p \in Places : /\ worker' = [worker EXCEPT ![w] = p]
                            /\ p.at = Place(w) /\ p.step \in {"alter", "create", "fill"}
                            /\ PlaceOK(w)' /\ UndisturbedOK(w)'
    BY <1>1, <1>2, <1>4, <2>1, StayPlace
  <2> QED BY <1>1, <1>2, <1>3, <1>4, <2>2, Proceeds
<1> QED BY <1>5, <1>6

LEMMA StaysStrictKeeps ==
    ASSUME MigrationInv, NEW w \in Workers, StaysStrict(w)
    PROVE MigrationInv' /\ Grown(base, base')
<1> DEFINE t == Statement(w).table
<1>1. InScript(w) /\ Statement(w).do = "rebuild" /\ worker[w].step = "begin" /\ t \in Rebuilt
  BY AtPlace DEF StaysStrict, Named
<1>2. ~Replacing(w)
  BY <1>1 DEF Replacing
<1>3. /\ Sch(w) \in SchemaType /\ Fits(Sch(w)) /\ MariaKeys(Sch(w))
      /\ Execute(w, Sch(w)) /\ Changed(w) /\ Grown(Sch(w), Sch(w))
  BY SchOK, LooksOnly DEF StaysStrict
<1>4. /\ UNCHANGED <<engine, found, holder>> /\ raced'[w] = raced[w] /\ NextStatement(w)
      /\ left' = [left EXCEPT ![w] = @ \cup {t}]
  BY DEF StaysStrict
<1>5. Leaves(w) /\ Behind(left'[w], Statement(w))
  BY <1>1, <1>4 DEF Leaves, Behind, MigrationInv, TypeOK
<1>6. PICK p \in Places : /\ worker' = [worker EXCEPT ![w] = p]
                          /\ p.at = Place(w) + 1 /\ p.step = "begin"
                          /\ PlaceOK(w)' /\ UndisturbedOK(w)'
  BY <1>1, <1>2, <1>4, NextPlace
<1> QED BY <1>1, <1>2, <1>3, <1>4, <1>5, <1>6, Proceeds

LEMMA CreateCopyKeeps ==
    ASSUME MigrationInv, NEW w \in Workers, CreateCopy(w)
    PROVE MigrationInv' /\ Grown(base, base')
<1> DEFINE t == Statement(w).table
           s == Sch(w)
           P2 == [s.copy EXCEPT ![t] = IF @ = "none" THEN "empty" ELSE @]
           s2 == [s EXCEPT !.copy[t] = IF @ = "none" THEN "empty" ELSE @]
<1>1. InScript(w) /\ Statement(w).do = "rebuild" /\ worker[w].step = "create" /\ t \in Rebuilt
  BY AtPlace DEF CreateCopy, Named
<1>2. /\ holder \in {Nobody, w} /\ Execute(w, s2) /\ NextStep(w, "fill")
      /\ UNCHANGED <<engine, found, holder, left>> /\ Changed(w)
  BY DEF CreateCopy, MayWrite
<1>3. ~Replacing(w)
  BY <1>1 DEF Replacing
<1>4. s \in SchemaType /\ Fits(s) /\ MariaKeys(s) /\ \A x \in Rebuilt : s.copy[x] # "full"
  BY <1>3, SchOK
<1>5. /\ s2 \in SchemaType /\ Fits(s2) /\ MariaKeys(s2) /\ Grown(s, s2) /\ s2.copy[t] = "empty"
      /\ \A x \in Rebuilt : s2.copy[x] = "full" => s.copy[x] = "full"
  <2>1. P2 \in [Rebuilt -> {"none", "empty", "full"}] /\ s.copy[t] \in {"none", "empty"}
    BY <1>1, <1>4, SchemaFields
  <2>2. s2 = [s EXCEPT !.copy = P2]
    OBVIOUS
  <2>4. P2[t] = "empty" /\ \A x \in Rebuilt \ {t} : P2[x] = s.copy[x]
    BY <2>1, <1>1, <1>4, SchemaFields
  <2> HIDE DEF s2, P2, s
  <2>3. /\ s2 \in SchemaType /\ s2.columns = s.columns /\ s2.keys = s.keys /\ s2.strict = s.strict
        /\ s2.rows = s.rows /\ s2.copy = P2
    BY <2>1, <2>2, <1>4 DEF SchemaType
  <2> QED BY <2>3, <2>4, <1>4 DEF Fits, MariaKeys, Grown, Keeps
<1> HIDE DEF s2
<1>7. raced'[w] = raced[w] /\ Sch(w)' = s2
  BY <1>2 DEF Changed, MigrationInv, TypeOK, Execute, Sch
<1>6. engine = "sqlite"
  BY <1>1 DEF MigrationInv, WorkerOK, PlaceOK, Rebuilding
<1>8. PICK p \in Places : /\ worker' = [worker EXCEPT ![w] = p]
                          /\ p.at = Place(w) /\ p.step \in {"alter", "create", "fill"}
                          /\ PlaceOK(w)' /\ UndisturbedOK(w)'
  BY <1>1, <1>2, <1>3, <1>5, <1>6, <1>7, StayPlace
<1> QED BY <1>1, <1>2, <1>3, <1>4, <1>5, <1>8, Proceeds

LEMMA FillCopyKeeps ==
    ASSUME MigrationInv, NEW w \in Workers, FillCopy(w)
    PROVE MigrationInv' /\ Grown(base, base')
<1> DEFINE t == Statement(w).table
           s == Sch(w)
           P2 == [s.copy EXCEPT ![t] = IF t \in s.rows THEN "full" ELSE "empty"]
           p == [worker[w] EXCEPT !.step = "drop"]
           s2 == Filled(w)
<1>1. InScript(w) /\ Statement(w).do = "rebuild" /\ worker[w].step = "fill" /\ t \in Rebuilt
  BY AtPlace DEF FillCopy, Named
<1>2. /\ holder \in {Nobody, w} /\ holder' = w /\ draft' = s2 /\ base' = base
      /\ worker' = [worker EXCEPT ![w] = p] /\ UNCHANGED <<engine, found, left>> /\ Changed(w)
  BY DEF FillCopy, MayWrite, NextStep
<1>3. ~Replacing(w) /\ \A x : ~Away(w, x)
  BY <1>1 DEF Replacing, Away
<1>4. s \in SchemaType /\ Fits(s) /\ \A x \in Rebuilt : s.copy[x] # "full"
  BY <1>3, SchOK
<1>5. /\ s2 \in SchemaType /\ s2.columns = s.columns /\ s2.keys = s.keys /\ s2.strict = s.strict
      /\ s2.rows = s.rows /\ s2.copy = P2
  <2>1. P2 \in [Rebuilt -> {"none", "empty", "full"}]
    BY <1>1, <1>4, SchemaFields
  <2>2. s2 = [s EXCEPT !.copy = P2]
    BY DEF Filled
  <2> HIDE DEF s2, P2, s
  <2> QED BY <2>1, <2>2, <1>4 DEF SchemaType
<1>6. /\ P2[t] = IF t \in s.rows THEN "full" ELSE "empty"
      /\ \A x \in Rebuilt \ {t} : P2[x] # "full"
  BY <1>1, <1>4, SchemaFields
<1> HIDE DEF s2, P2
<1>0. worker[w] \in Places /\ worker \in [Workers -> Places] /\ Length \in Nat
  BY EngineScript DEF MigrationInv, TypeOK, Places
<1>7. p \in Places /\ p.at = Place(w) /\ p.step = "drop"
  BY <1>0 DEF Places, Place, Steps
<1> HIDE DEF p
<1>8. worker'[w] = p /\ engine = "sqlite"
  BY <1>0, <1>1, <1>2 DEF MigrationInv, WorkerOK, PlaceOK, Rebuilding
<1>9. /\ Place(w)' = Place(w) /\ Length' = Length /\ InScript(w)' /\ Statement(w)' = Statement(w)
      /\ worker'[w].step = "drop" /\ Sch(w)' = s2 /\ Scripts' = Scripts /\ \A x : ~Away(w, x)'
  BY <1>1, <1>2, <1>7, <1>8 DEF Place, Length, InScript, Statement, Sch, Away
<1>10. PlaceOK(w)'
  BY <1>1, <1>2, <1>8, <1>9, <1>0 DEF PlaceOK, Rebuilding, InScript
<1>11. DoneOK(w)'
  <2> SUFFICES ASSUME NEW m \in 1..Length, m < Place(w), ~Behind(left[w], Scripts[engine][m])
               PROVE  Holds(s2, Scripts[engine][m])
    BY <1>2, <1>9 DEF DoneOK
  <2>1. Holds(s, Scripts[engine][m])
    BY <1>3 DEF MigrationInv, WorkerOK, DoneOK
  <2> QED BY <2>1, <1>5 DEF Holds
<1>12. DraftOK(w)'
  <2>1. \A x, k : ToCome(w, x, k)' = ToCome(w, x, k)
    BY <1>2, <1>9 DEF ToCome
  <2>2. /\ \A x \in Tables : base.columns[x] \subseteq s.columns[x]
        /\ \A x \in Tables : \A k \in base.keys[x] : k \in s.keys[x] \/ ToCome(w, x, k)
        /\ base.rows \subseteq s.rows /\ s.strict \subseteq base.strict
    <3>1. CASE holder = w
      BY <3>1, <1>3 DEF MigrationInv, WorkerOK, DraftOK, Sch
    <3>2. CASE holder # w
      BY <3>2 DEF Sch
    <3> QED BY <3>1, <3>2
  <2>3. t \in base.rows => s2.copy[t] = "full"
    BY <2>2, <1>5, <1>6
  <2> QED BY <2>1, <2>2, <2>3, <1>2, <1>5, <1>6, <1>9 DEF DraftOK, Replacing
<1>13. UndisturbedOK(w)'
  BY <1>2, <1>9 DEF UndisturbedOK
<1>14. Quiet(w)
  <2> SUFFICES ASSUME NEW x \in Workers \ {w}
               PROVE  worker'[x] = worker[x] /\ (raced[x] => raced'[x]) /\ (~raced'[x] => holder' = holder)
    BY <1>2, ReleaseAssumption DEF Quiet, Spared
  <2> QED BY <1>0, <1>2 DEF Changed
<1>15. SchemasOK'
  BY <1>2, <1>4, <1>5, <1>8 DEF MigrationInv, SchemasOK, Fits
<1>16. TypeOK'
  BY <1>0, <1>2, <1>5, <1>7, ChangedType DEF MigrationInv, TypeOK, Places, Length
<1>17. Grown(base, base')
  BY <1>2 DEF Grown, Keeps
<1> QED BY <1>2, <1>10, <1>11, <1>12, <1>13, <1>14, <1>15, <1>16, <1>17, StepKeeps DEF WorkerOK

LEMMA DropTableKeeps ==
    ASSUME MigrationInv, NEW w \in Workers, DropTable(w)
    PROVE MigrationInv' /\ Grown(base, base')
<1> DEFINE t == Statement(w).table
           C2 == [draft.columns EXCEPT ![t] = {}]
           K2 == [draft.keys EXCEPT ![t] = {}]
           R2 == draft.rows \ {t}
           p == [worker[w] EXCEPT !.step = "rename"]
           s2 == [draft EXCEPT !.columns[t] = {}, !.keys[t] = {}, !.rows = @ \ {t}]
<1>1. /\ InScript(w) /\ Statement(w).do = "rebuild" /\ worker[w].step = "drop"
      /\ t \in Rebuilt /\ t \in Tables
  BY AtPlace DEF DropTable, Named
<1>2. holder = w /\ engine = "sqlite" /\ Sch(w) = draft
  BY <1>1 DEF MigrationInv, WorkerOK, PlaceOK, Replacing, Rebuilding, Sch
<1>3. /\ draft' = s2 /\ base' = base /\ Execute(w, s2)
      /\ worker' = [worker EXCEPT ![w] = p] /\ UNCHANGED <<engine, found, holder, left>> /\ Changed(w)
  <2>1. Execute(w, s2) /\ worker' = [worker EXCEPT ![w] = p] /\ UNCHANGED <<engine, found, holder, left>> /\ Changed(w)
    BY <1>2 DEF DropTable, NextStep
  <2> QED BY <2>1, <1>2 DEF Execute
<1>4. draft \in SchemaType /\ Fits(draft)
  BY DEF MigrationInv, TypeOK, SchemasOK
<1>5. /\ s2 \in SchemaType /\ s2.columns = C2 /\ s2.keys = K2 /\ s2.strict = draft.strict
      /\ s2.rows = R2 /\ s2.copy = draft.copy
  <2>1. C2 \in [Tables -> SUBSET AllColumns] /\ K2 \in [Tables -> SUBSET AllKeys] /\ R2 \in SUBSET Rebuilt
    BY <1>1, <1>4, SchemaFields
  <2>2. s2 = [draft EXCEPT !.columns = C2, !.keys = K2, !.rows = R2]
    OBVIOUS
  <2> HIDE DEF s2, C2, K2, R2
  <2> QED BY <2>1, <2>2, <1>4 DEF SchemaType, AllColumns, AllKeys
<1>6. /\ C2[t] = {} /\ K2[t] = {}
      /\ \A x \in Tables \ {t} : C2[x] = draft.columns[x] /\ K2[x] = draft.keys[x]
  BY <1>1, <1>4, SchemaFields
<1> HIDE DEF s2, C2, K2
<1>0. worker[w] \in Places /\ worker \in [Workers -> Places] /\ Length \in Nat
  BY EngineScript DEF MigrationInv, TypeOK, Places
<1>7. p \in Places /\ p.at = Place(w) /\ p.step = "rename"
  BY <1>0 DEF Places, Place, Steps
<1> HIDE DEF p
<1>8. worker'[w] = p
  BY <1>0, <1>3
<1>9. /\ Place(w)' = Place(w) /\ Length' = Length /\ InScript(w)' /\ Statement(w)' = Statement(w)
      /\ worker'[w].step = "rename" /\ Sch(w)' = s2 /\ Scripts' = Scripts /\ \A x : Away(w, x)' <=> t = x
  BY <1>1, <1>2, <1>3, <1>7, <1>8 DEF Place, Length, InScript, Statement, Sch, Away
<1>a. \A x : ~Away(w, x)
  BY <1>1 DEF Away
<1>10. PlaceOK(w)'
  BY <1>1, <1>2, <1>3, <1>9, <1>0 DEF PlaceOK, Rebuilding, InScript
<1>11. DoneOK(w)'
  <2> SUFFICES ASSUME NEW m \in 1..Length, m < Place(w), t # Scripts[engine][m].table,
                      ~Behind(left[w], Scripts[engine][m])
               PROVE  Holds(s2, Scripts[engine][m])
    BY <1>3, <1>9 DEF DoneOK
  <2>1. Holds(draft, Scripts[engine][m])
    BY <1>2, <1>a DEF MigrationInv, WorkerOK, DoneOK
  <2>2. Scripts[engine][m].table \in Tables
    BY StatementNamed DEF Named, MigrationInv
  <2> QED BY <2>1, <2>2, <1>5, <1>6 DEF Holds
<1>12. DraftOK(w)'
  <2>1. DraftOK(w)
    BY DEF MigrationInv, WorkerOK
  <2>2. \A x, k : ToCome(w, x, k)' = ToCome(w, x, k)
    BY <1>3, <1>9 DEF ToCome
  <2>3. ASSUME NEW x \in Tables, NEW k \in base.keys[x]
        PROVE k \in s2.keys[x] \/ ToCome(w, x, k)
    <3>1. CASE x # t
      BY <3>1, <2>1, <1>2, <1>5, <1>6 DEF DraftOK
    <3>2. CASE x = t
      <4>1. k \in Keys(t)
        BY <3>2 DEF MigrationInv, SchemasOK, Fits
      <4>2. PICK m \in 1..Length : Scripts[engine][m] = Index(t, k)
        BY <4>1, <1>1, <1>2, EngineScript, ScriptComplete DEF MigrationInv, Length
      <4>3. Scripts[engine][m].do = "index" /\ Scripts[engine][m].table = t /\ Scripts[engine][m].name = k
        BY <4>2 DEF Index
      <4>4. Place(w) < m
        BY <4>3, <1>1, EngineScript, IndexesAfterRebuilds DEF MigrationInv, InScript, Statement, Place, Length
      <4>5. m >= Place(w)
        BY <4>4, <1>0 DEF Place, Places
      <4> QED BY <3>2, <4>3, <4>5 DEF ToCome
    <3> QED BY <3>1, <3>2
  <2>4. \A x \in Tables : x # t => base.columns[x] \subseteq s2.columns[x]
    BY <2>1, <1>2, <1>5, <1>6, <1>a DEF DraftOK
  <2>5. \A x \in base.rows : x \in s2.rows \/ x = t
    BY <2>1, <1>2, <1>5, <1>a DEF DraftOK
  <2>6. Replacing(w) /\ Replacing(w)'
    BY <1>1, <1>9 DEF Replacing
  <2> QED BY <2>1, <2>2, <2>3, <2>4, <2>5, <2>6, <1>2, <1>3, <1>5, <1>9 DEF DraftOK
<1>13. UndisturbedOK(w)'
  BY <1>2, <1>3, <1>9 DEF UndisturbedOK
<1>14. Quiet(w)
  <2>1. \A x \in Workers \ {w} : worker'[x] = worker[x] /\ left'[x] = left[x]
    BY <1>0, <1>3
  <2> QED BY <2>1, <1>2, <1>3, WriteQuiet
<1>15. SchemasOK'
  BY <1>2, <1>3, <1>4, <1>5, <1>6 DEF MigrationInv, SchemasOK, Fits
<1>16. TypeOK'
  BY <1>0, <1>3, <1>5, <1>7, ChangedType DEF MigrationInv, TypeOK, Places, Length
<1>17. Grown(base, base')
  BY <1>3 DEF Grown, Keeps
<1> QED BY <1>3, <1>10, <1>11, <1>12, <1>13, <1>14, <1>15, <1>16, <1>17, StepKeeps DEF WorkerOK

LEMMA RenameCopyKeeps ==
    ASSUME MigrationInv, NEW w \in Workers, RenameCopy(w)
    PROVE MigrationInv' /\ Grown(base, base')
<1> DEFINE t == Statement(w).table
           C2 == [draft.columns EXCEPT ![t] = Columns(t)]
           X2 == draft.strict \ {t}
           P2 == [draft.copy EXCEPT ![t] = "none"]
           R2 == IF draft.copy[t] = "full" THEN draft.rows \cup {t} ELSE draft.rows
           p == [at |-> worker[w].at + 1, step |-> "begin"]
           s2 == [draft EXCEPT !.columns[t] = Columns(t), !.strict = @ \ {t}, !.copy[t] = "none",
                               !.rows = IF draft.copy[t] = "full" THEN @ \cup {t} ELSE @]
<1>1. /\ InScript(w) /\ Statement(w).do = "rebuild" /\ worker[w].step = "rename"
      /\ t \in Rebuilt /\ t \in Tables
  BY AtPlace DEF RenameCopy, Named
<1>2. holder = w /\ engine = "sqlite" /\ Sch(w) = draft
  BY <1>1 DEF MigrationInv, WorkerOK, PlaceOK, Replacing, Rebuilding, Sch
<1>3. /\ draft' = s2 /\ base' = base /\ Execute(w, s2)
      /\ worker' = [worker EXCEPT ![w] = p] /\ UNCHANGED <<engine, found, holder, left>> /\ Changed(w)
  <2>1. Execute(w, s2) /\ worker' = [worker EXCEPT ![w] = p] /\ UNCHANGED <<engine, found, holder, left>> /\ Changed(w)
    BY <1>2 DEF RenameCopy, NextStatement
  <2> QED BY <2>1, <1>2 DEF Execute
<1>4. draft \in SchemaType /\ Fits(draft)
  BY DEF MigrationInv, TypeOK, SchemasOK
<1>5. /\ s2 \in SchemaType /\ s2.columns = C2 /\ s2.keys = draft.keys /\ s2.strict = X2
      /\ s2.rows = R2 /\ s2.copy = P2
  <2>1. /\ C2 \in [Tables -> SUBSET AllColumns] /\ X2 \in SUBSET Rebuilt /\ R2 \in SUBSET Rebuilt
        /\ P2 \in [Rebuilt -> {"none", "empty", "full"}]
    BY <1>1, <1>4, TableSets, SchemaFields
  <2>2. s2 = [draft EXCEPT !.columns = C2, !.strict = X2, !.copy = P2, !.rows = R2]
    OBVIOUS
  <2> HIDE DEF s2, C2, X2, P2, R2
  <2> QED BY <2>1, <2>2, <1>4 DEF SchemaType, AllColumns, AllKeys
<1>6. /\ C2[t] = Columns(t) /\ \A x \in Tables \ {t} : C2[x] = draft.columns[x]
      /\ P2[t] = "none" /\ \A x \in Rebuilt \ {t} : P2[x] = draft.copy[x]
  BY <1>1, <1>4, SchemaFields
<1> HIDE DEF s2, C2, P2
<1>0. worker[w] \in Places /\ worker \in [Workers -> Places] /\ Length \in Nat
  BY EngineScript DEF MigrationInv, TypeOK, Places
<1>7. p \in Places /\ p.at = Place(w) + 1 /\ p.step = "begin"
  BY <1>0, <1>1 DEF Places, Place, InScript, Steps
<1> HIDE DEF p
<1>8. worker'[w] = p
  BY <1>0, <1>3
<1>9. /\ Place(w)' = Place(w) + 1 /\ Length' = Length
      /\ worker'[w].step = "begin" /\ Sch(w)' = s2 /\ Scripts' = Scripts /\ \A x : ~Away(w, x)'
  BY <1>2, <1>3, <1>7, <1>8 DEF Place, Length, Sch, Away
<1>a. \A x : Away(w, x) <=> t = x
  BY <1>1 DEF Away
<1>b. Place(w) \in 1..Length /\ Statement(w) = Scripts[engine][Place(w)]
  BY <1>1 DEF InScript, Statement, Place
<1>10. PlaceOK(w)'
  BY <1>b, <1>9, <1>0 DEF PlaceOK, Rebuilding, Replacing
<1>11. DoneOK(w)'
  <2> SUFFICES ASSUME NEW m \in 1..Length, m < Place(w) + 1, ~Behind(left[w], Scripts[engine][m])
               PROVE  Holds(s2, Scripts[engine][m])
    BY <1>3, <1>9 DEF DoneOK
  <2>1. Named(engine, Scripts[engine][m])
    BY StatementNamed DEF MigrationInv
  <2>2. CASE Scripts[engine][m].table = t
    <3>1. Scripts[engine][m].do # "index"
      <4>1. Scripts[engine][m].do = "index" => Place(w) < m
        BY <2>2, <1>1, <1>b, EngineScript, IndexesAfterRebuilds DEF MigrationInv, Length
      <4> QED BY <4>1, <1>b, <1>0
    <3>2. "id" \in Columns(t)
      BY ColumnsAre
    <3> QED BY <3>1, <3>2, <2>1, <2>2, <1>5, <1>6 DEF Holds, Named
  <2>3. CASE Scripts[engine][m].table # t
    <3>1. m # Place(w)
      BY <2>3, <1>b
    <3>2. m < Place(w)
      BY <3>1, <1>b, <1>0
    <3>3. Holds(draft, Scripts[engine][m])
      BY <3>2, <2>3, <1>2, <1>a DEF MigrationInv, WorkerOK, DoneOK
    <3> QED BY <3>3, <2>1, <2>3, <1>5, <1>6 DEF Holds, Named
  <2> QED BY <2>2, <2>3
<1>12. DraftOK(w)'
  <2>1. DraftOK(w)
    BY DEF MigrationInv, WorkerOK
  <2>2. ASSUME NEW x \in Tables, NEW k \in base.keys[x]
        PROVE k \in s2.keys[x] \/ ToCome(w, x, k)'
    <3>1. CASE k \in draft.keys[x]
      BY <3>1, <1>5
    <3>2. CASE ToCome(w, x, k)
      <4>1. PICK m \in 1..Length : /\ m >= Place(w) /\ Scripts[engine][m].do = "index"
                                   /\ Scripts[engine][m].table = x /\ Scripts[engine][m].name = k
        BY <3>2 DEF ToCome
      <4>2. m # Place(w)
        BY <4>1, <1>1, <1>b
      <4>3. m >= Place(w) + 1
        BY <4>1, <4>2, <1>b, <1>0
      <4> QED BY <4>1, <4>3, <1>3, <1>9 DEF ToCome
    <3> QED BY <3>1, <3>2, <2>1, <1>2 DEF DraftOK
  <2>3. \A x \in Tables : base.columns[x] \subseteq s2.columns[x]
    <3>1. base.columns[t] \subseteq Columns(t)
      BY <1>1 DEF MigrationInv, SchemasOK, Fits
    <3> QED BY <3>1, <2>1, <1>2, <1>5, <1>6, <1>a DEF DraftOK
  <2>4. Replacing(w) /\ ~Replacing(w)'
    BY <1>1, <1>9 DEF Replacing
  <2>5. \A x \in base.rows : x \in s2.rows
    BY <2>1, <2>4, <1>2, <1>5, <1>a DEF DraftOK
  <2>6. \A x \in Rebuilt : s2.copy[x] # "full"
    BY <2>1, <1>2, <1>5, <1>6 DEF DraftOK
  <2>7. s2.strict \subseteq base.strict
    BY <2>1, <1>2, <1>5 DEF DraftOK
  <2> QED BY <2>2, <2>3, <2>4, <2>5, <2>6, <2>7, <1>3 DEF DraftOK
<1>13. UndisturbedOK(w)'
  BY <1>2, <1>3, <1>9 DEF UndisturbedOK
<1>14. Quiet(w)
  <2>1. \A x \in Workers \ {w} : worker'[x] = worker[x] /\ left'[x] = left[x]
    BY <1>0, <1>3
  <2> QED BY <2>1, <1>2, <1>3, WriteQuiet
<1>15. SchemasOK'
  <2>1. Fits(s2)
    <3>1. \A x : "id" \in Columns(x)
      BY ColumnsAre
    <3> QED BY <3>1, <1>4, <1>5, <1>6 DEF Fits
  <2> QED BY <2>1, <1>2, <1>3 DEF MigrationInv, SchemasOK, Fits
<1>16. TypeOK'
  BY <1>0, <1>3, <1>5, <1>7, ChangedType DEF MigrationInv, TypeOK, Places, Length
<1>17. Grown(base, base')
  BY <1>3 DEF Grown, Keeps
<1> QED BY <1>3, <1>10, <1>11, <1>12, <1>13, <1>14, <1>15, <1>16, <1>17, StepKeeps DEF WorkerOK

\* A worker that fails or is killed: its transaction is rolled back.
LEMMA StopKeeps ==
    ASSUME MigrationInv, NEW w \in Workers, NEW step \in {"begin", "overtaken"},
           worker' = [worker EXCEPT ![w] = [at |-> 0, step |-> step]],
           holder' = IF holder = w THEN Nobody ELSE holder,
           left' = [left EXCEPT ![w] = {}], UNCHANGED <<engine, found, base, draft>>,
           raced' \in [Workers -> BOOLEAN], \A x \in Workers : raced[x] => raced'[x]
    PROVE  MigrationInv' /\ Grown(base, base')
<1> DEFINE p == [at |-> 0, step |-> step]
<1>0. worker \in [Workers -> Places] /\ Length \in Nat
  BY EngineScript DEF MigrationInv, TypeOK, Places
<1>1. p \in Places /\ p.at = 0 /\ p.step = step /\ worker' = [worker EXCEPT ![w] = p]
  BY <1>0 DEF Places, Steps
<1> HIDE DEF p
<1>2. /\ worker'[w] = p /\ \A x \in Workers \ {w} : worker'[x] = worker[x] /\ left'[x] = left[x]
      /\ left' \in [Workers -> SUBSET Rebuilt]
  BY <1>0, <1>1 DEF MigrationInv, TypeOK
<1>3. holder' # w
  BY ReleaseAssumption
<1>4. WorkerOK(w)'
  <2>1. Place(w)' = 0 /\ worker'[w].step = step
    BY <1>1, <1>2 DEF Place
  <2>2. PlaceOK(w)'
    BY <2>1, <1>3 DEF PlaceOK, Rebuilding, Replacing
  <2>3. DoneOK(w)'
    BY <2>1 DEF DoneOK
  <2>4. DraftOK(w)' /\ UndisturbedOK(w)'
    BY <2>1, <1>3 DEF DraftOK, UndisturbedOK
  <2> QED BY <2>2, <2>3, <2>4 DEF WorkerOK
<1>5. Quiet(w)
  BY <1>2, ReleaseAssumption DEF Quiet, Spared
<1>6. SchemasOK'
  BY DEF MigrationInv, SchemasOK
<1>7. TypeOK'
  BY <1>0, <1>1, <1>2 DEF MigrationInv, TypeOK, Places, Length
<1>8. Grown(base, base')
  BY DEF Grown, Keeps
<1> QED BY <1>4, <1>5, <1>6, <1>7, <1>8, StepKeeps

\* Only an overtaken worker gets there.
LEMMA FailsKeeps ==
    ASSUME MigrationInv, NEW w \in Workers, Fails(w), raced[w]
    PROVE MigrationInv' /\ Grown(base, base')
<1>1. raced' \in [Workers -> BOOLEAN] /\ \A x \in Workers : raced[x] => raced'[x]
  BY DEF Fails, MigrationInv, TypeOK
<1>2. worker' = [worker EXCEPT ![w] = [at |-> 0, step |-> "overtaken"]]
  BY DEF Fails
<1>3. /\ holder' = (IF holder = w THEN Nobody ELSE holder) /\ UNCHANGED <<engine, found, base, draft>>
      /\ left' = [left EXCEPT ![w] = {}]
  BY DEF Fails
<1> QED BY <1>1, <1>2, <1>3, StopKeeps

LEMMA ColumnIsThereKeeps ==
    ASSUME MigrationInv, NEW w \in Workers, ColumnIsThere(w)
    PROVE MigrationInv' /\ Grown(base, base')
<1>1. InScript(w) /\ worker[w].step = "alter" /\ There(w) /\ Fails(w)
  BY AtPlace DEF ColumnIsThere
<1>2. raced[w]
  BY <1>1, EngineScript DEF MigrationInv, WorkerOK, UndisturbedOK, InScript
<1> QED BY <1>1, <1>2, FailsKeeps

LEMMA FillFailsKeeps ==
    ASSUME MigrationInv, NEW w \in Workers, FillFails(w)
    PROVE MigrationInv' /\ Grown(base, base')
<1>1. /\ InScript(w) /\ Statement(w).do = "rebuild" /\ worker[w].step = "fill"
      /\ ~Copyable(w) /\ Fails(w)
  BY AtPlace DEF FillFails
<1>2. ~Replacing(w)
  BY <1>1 DEF Replacing
<1>3. \A c \in Columns(Statement(w).table) : c \in Sch(w).columns[Statement(w).table]
  BY <1>1, <1>2, Prepared
<1>4. Sch(w).copy[Statement(w).table] # "empty"
  BY <1>1, <1>3 DEF Copyable
<1>5. raced[w]
  BY <1>1, <1>4, EngineScript DEF MigrationInv, WorkerOK, UndisturbedOK, InScript
<1> QED BY <1>1, <1>5, FailsKeeps

LEMMA LockTimeoutKeeps ==
    ASSUME MigrationInv, NEW w \in Workers, LockTimeout(w)
    PROVE MigrationInv' /\ Grown(base, base')
<1>1. InScript(w) /\ holder \notin {Nobody, w} /\ Fails(w)
  BY DEF LockTimeout, InScript, Place, Length, MayWrite
<1>2. raced[w]
  BY <1>1, EngineScript DEF MigrationInv, WorkerOK, UndisturbedOK, InScript
<1> QED BY <1>1, <1>2, FailsKeeps

LEMMA KillKeeps ==
    ASSUME MigrationInv, NEW w \in Workers, Kill(w)
    PROVE MigrationInv' /\ Grown(base, base')
<1>1. Changed(w)
  BY DEF Kill
<1>2. raced' \in [Workers -> BOOLEAN] /\ \A x \in Workers : raced[x] => raced'[x]
  BY <1>1, ChangedType DEF Changed
<1> QED BY <1>2, StopKeeps DEF Kill

LEMMA StartKeeps ==
    ASSUME MigrationInv, NEW w \in Workers, Start(w)
    PROVE MigrationInv' /\ Grown(base, base')
<1> DEFINE p == [at |-> 1, step |-> "begin"]
<1>0. worker \in [Workers -> Places] /\ Length \in Nat /\ Place(w) = 0
  BY EngineScript DEF MigrationInv, TypeOK, Places, Start, Place
<1>1. p \in Places /\ p.at = 1 /\ p.step = "begin" /\ worker' = [worker EXCEPT ![w] = p]
  BY <1>0 DEF Places, Steps, Start
<1> HIDE DEF p
<1>2. worker'[w] = p /\ \A x \in Workers \ {w} : worker'[x] = worker[x]
  BY <1>0, <1>1
<1>3. /\ raced'[w] = (holder # Nobody) /\ \A x \in Workers \ {w} : raced'[x] = raced[x]
      /\ raced' \in [Workers -> BOOLEAN]
  BY DEF Start, MigrationInv, TypeOK
<1>4. UNCHANGED <<engine, found, base, draft, holder, left>>
  BY DEF Start
<1>5. WorkerOK(w)'
  <2>1. Place(w)' = 1 /\ worker'[w].step = "begin" /\ holder' # w
    BY <1>0, <1>1, <1>2, <1>4 DEF Place, MigrationInv, WorkerOK, PlaceOK
  <2>2. PlaceOK(w)'
    BY <2>1 DEF PlaceOK, Rebuilding, Replacing
  <2>3. DoneOK(w)'
    BY <2>1 DEF DoneOK
  <2>4. DraftOK(w)' /\ UndisturbedOK(w)'
    BY <2>1, <1>3, <1>4 DEF DraftOK, UndisturbedOK
  <2> QED BY <2>2, <2>3, <2>4 DEF WorkerOK
<1>6. Quiet(w)
  BY <1>2, <1>3, <1>4 DEF Quiet, Spared
<1>7. SchemasOK'
  BY <1>4 DEF MigrationInv, SchemasOK
<1>8. TypeOK'
  BY <1>0, <1>1, <1>3, <1>4 DEF MigrationInv, TypeOK, Places, Length
<1>9. Grown(base, base')
  BY <1>4 DEF Grown, Keeps
<1> QED BY <1>4, <1>5, <1>6, <1>7, <1>8, <1>9, StepKeeps

LEMMA CommitKeeps ==
    ASSUME MigrationInv, NEW w \in Workers, Commit(w)
    PROVE MigrationInv' /\ Grown(base, base')
<1> DEFINE p == [worker[w] EXCEPT !.step = "serves"]
<1>0. worker[w] \in Places /\ worker \in [Workers -> Places] /\ Length \in Nat
  BY EngineScript DEF MigrationInv, TypeOK, Places
<1>1. /\ Place(w) = Length + 1 /\ worker[w].step = "begin" /\ worker' = [worker EXCEPT ![w] = p]
      /\ base' = (IF holder = w THEN draft ELSE base)
      /\ holder' = (IF holder = w THEN Nobody ELSE holder)
      /\ UNCHANGED <<engine, found, draft, left>> /\ Changed(w)
  BY DEF Commit, Place, Length, NextStep
<1>2. p \in Places /\ p.at = Length + 1 /\ p.step = "serves"
  BY <1>0, <1>1 DEF Places, Place, Steps
<1> HIDE DEF p
<1>3. worker'[w] = p /\ \A x \in Workers \ {w} : worker'[x] = worker[x]
  BY <1>0, <1>1
<1>4. /\ Place(w)' = Place(w) /\ Length' = Length /\ worker'[w].step = "serves" /\ Scripts' = Scripts
      /\ holder' # w /\ Sch(w)' = Sch(w)
  BY <1>1, <1>2, <1>3, ReleaseAssumption DEF Place, Length, Sch
<1>5. ~Replacing(w) /\ (\A x : ~Away(w, x)) /\ \A x, k : ~ToCome(w, x, k)
  BY <1>0, <1>1 DEF Replacing, Away, ToCome
<1>6. /\ Grown(base, base') /\ Fits(base') /\ base' \in SchemaType
      /\ \A x \in Rebuilt : base'.copy[x] # "full"
  <2>1. CASE holder = w
    <3>1. DraftOK(w)
      BY DEF MigrationInv, WorkerOK
    <3>2. base' = draft
      BY <2>1, <1>1
    <3>3. Grown(base, draft) /\ \A x \in Rebuilt : draft.copy[x] # "full"
      BY <3>1, <2>1, <1>5 DEF DraftOK, Grown, Keeps
    <3> QED BY <3>2, <3>3 DEF MigrationInv, SchemasOK, TypeOK
  <2>2. CASE holder # w
    <3>1. base' = base
      BY <2>2, <1>1
    <3> QED BY <3>1 DEF MigrationInv, SchemasOK, TypeOK, Grown, Keeps
  <2> QED BY <2>1, <2>2
<1>7. SchemasOK'
  <2>1. CASE engine = "mariadb"
    <3>1. holder = Nobody /\ holder # w
      BY <2>1, ReleaseAssumption DEF MigrationInv, SchemasOK
    <3>2. UNCHANGED <<engine, found, base, draft, holder>>
      BY <3>1, <1>1
    <3> QED BY <3>2 DEF MigrationInv, SchemasOK
  <2>2. CASE engine # "mariadb"
    <3>1. Keeps(found, base')
      BY <1>6 DEF MigrationInv, SchemasOK, Keeps, Grown
    <3> QED BY <3>1, <2>2, <1>1, <1>6 DEF MigrationInv, SchemasOK, Keeps, Fits
  <2> QED BY <2>1, <2>2
<1>8. TypeOK'
  BY <1>0, <1>1, <1>2, <1>6, ChangedType DEF MigrationInv, TypeOK, Places, Length
<1>9. WorkerOK(w)'
  <2>1. PlaceOK(w)'
    BY <1>1, <1>4 DEF PlaceOK, Rebuilding, Replacing
  <2>2. DoneOK(w)'
    BY <1>1, <1>4, <1>5 DEF DoneOK, MigrationInv, WorkerOK
  <2>3. DraftOK(w)'
    BY <1>4 DEF DraftOK
  <2>4. UndisturbedOK(w)'
    <3>1. raced'[w] = raced[w]
      BY <1>1 DEF Changed, MigrationInv, TypeOK
    <3>2. ~raced[w] => holder \in {Nobody, w}
      BY <1>0, <1>1 DEF MigrationInv, WorkerOK, UndisturbedOK
    <3> QED BY <3>1, <3>2, <1>1, <1>4 DEF UndisturbedOK
  <2> QED BY <2>1, <2>2, <2>3, <2>4 DEF WorkerOK
<1>10. Quiet(w)
  <2> SUFFICES ASSUME NEW x \in Workers \ {w}
               PROVE  /\ holder = x => holder' = x /\ base' = base /\ draft' = draft
                      /\ holder # x => holder' # x
                      /\ raced[x] => raced'[x]
                      /\ ~raced'[x] => base' = base /\ holder' = holder
    BY <1>1, <1>3 DEF Quiet, Spared
  <2>1. raced'[x] = (raced[x] \/ (x # w /\ (base' # base \/ holder' # holder)))
    BY <1>1 DEF Changed
  <2>2. /\ raced[x] => raced'[x]
        /\ ~raced'[x] => base' = base /\ holder' = holder
    BY <2>1
  <2>3. /\ holder = x => holder' = x /\ base' = base /\ draft' = draft
        /\ holder # x => holder' # x
    BY <1>1, ReleaseAssumption
  <2> QED BY <2>2, <2>3
<1> QED BY <1>1, <1>6, <1>7, <1>8, <1>9, <1>10, StepKeeps

-----------------------------------------------------------------------------
(* The theorems. *)

LEMMA MigrationInit == Init => MigrationInv
<1> SUFFICES ASSUME Init PROVE MigrationInv
  OBVIOUS
<1>1. /\ engine \in Engines /\ found \in Releases /\ base = found /\ draft = found /\ holder = Nobody
      /\ worker = [w \in Workers |-> [at |-> 0, step |-> "begin"]]
      /\ raced = [w \in Workers |-> FALSE] /\ left = [w \in Workers |-> {}]
  BY DEF Init, Engines
<1>2. Length \in Nat
  BY <1>1, ScriptNamed DEF Length, Scripts, Engines
<1>3. /\ found \in SchemaType /\ Fits(found)
      /\ \A t \in Rebuilt : found.copy[t] # "full"
  BY <1>1, ReleaseAssumption DEF Fits
<1>4. TypeOK
  BY <1>1, <1>2, <1>3 DEF TypeOK, Steps
<1>5. SchemasOK
  BY <1>1, <1>3 DEF SchemasOK, Keeps
<1>6. ASSUME NEW w \in Workers PROVE WorkerOK(w)
  <2>1. Place(w) = 0 /\ worker[w].step = "begin" /\ holder # w
    BY <1>1, ReleaseAssumption DEF Place
  <2>2. PlaceOK(w)
    BY <2>1 DEF PlaceOK, Rebuilding, Replacing
  <2>3. DoneOK(w)
    BY <2>1, <1>2 DEF DoneOK
  <2>4. DraftOK(w) /\ UndisturbedOK(w)
    BY <2>1 DEF DraftOK, UndisturbedOK
  <2> QED BY <2>2, <2>3, <2>4 DEF WorkerOK
<1> QED BY <1>4, <1>5, <1>6 DEF MigrationInv

LEMMA MigrationStep ==
    ASSUME MigrationInv, [Next]_vars PROVE MigrationInv' /\ Grown(base, base')
<1>1. CASE UNCHANGED vars
  <2>1. Grown(base, base') /\ engine' = engine /\ \A x \in Workers : Spared(x)
    BY <1>1 DEF vars, Grown, Keeps, Spared
  <2>2. \A x \in Workers : WorkerOK(x)'
    BY <2>1, OthersKeep, ReleaseAssumption DEF MigrationInv
  <2> QED BY <1>1, <2>1, <2>2 DEF vars, MigrationInv, TypeOK, SchemasOK, Grown, Keeps, Length
<1>2. CASE Next
  <2>1. PICK w \in Workers : Start(w) \/ Migrate(w) \/ Kill(w)
    BY <1>2 DEF Next
  <2>2. CASE Migrate(w)
    BY <2>2, RunCreateKeeps, LookForColumnKeeps, AddColumnKeeps, ColumnIsThereKeeps, RunIndexKeeps,
       MakeNullableKeeps, LookForNullKeeps, StaysStrictKeeps, CreateCopyKeeps, FillCopyKeeps,
       FillFailsKeeps, DropTableKeeps, RenameCopyKeeps, LockTimeoutKeeps, CommitKeeps DEF Migrate
  <2> QED BY <2>1, <2>2, StartKeeps, KillKeeps
<1> QED BY <1>1, <1>2

\* The inductive invariant: where each worker is, what the statements it has
\* carried out have left in the schema it sees, what an open transaction
\* still lacks, and what a worker that nobody disturbed may expect.
THEOREM MigrationInvariant == Spec => []MigrationInv
<1>1. MigrationInv /\ [Next]_vars => MigrationInv'
  BY MigrationStep
<1> QED BY <1>1, MigrationInit, PTL DEF Spec

\* Whatever starts, races and is killed, no commit takes rows, columns or keys
\* away: the table that a rebuild drops is back, full and with its keys, before
\* its transaction is committed.
THEOREM NothingIsLost == Spec => NothingLost
<1>1. MigrationInv /\ [Next]_vars => [KeepsAll]_vars
  <2> SUFFICES ASSUME MigrationInv, [Next]_vars PROVE KeepsAll
    OBVIOUS
  <2> QED BY MigrationStep DEF KeepsAll, Grown, Keeps
<1> QED BY <1>1, MigrationInvariant, PTL DEF Spec, NothingLost

LEMMA ServesCurrent == MigrationInv => ServesCurrentSchema
<1> SUFFICES ASSUME MigrationInv, NEW w \in Workers, worker[w].step = "serves"
             PROVE  /\ base.strict \subseteq left[w]
                    /\ \A t \in Tables : Columns(t) \cup Keys(t) \subseteq
                          base.columns[t] \cup base.keys[t] \cup (Skipped(t) \ found.keys[t])
  BY DEF ServesCurrentSchema
<1>0. engine \in Engines /\ Scripts[engine] = Script(engine) /\ Length \in Nat
  BY EngineScript DEF MigrationInv
<1>1. Place(w) = Length + 1 /\ Sch(w) = base
  BY DEF MigrationInv, WorkerOK, PlaceOK, Sch
<1>2. ASSUME NEW m \in 1..Length
      PROVE  Holds(base, Script(engine)[m]) \/ Behind(left[w], Script(engine)[m])
  BY <1>0, <1>1 DEF MigrationInv, WorkerOK, DoneOK, Away
<1>3. base.strict \subseteq left[w]
  <2>1. base.strict \subseteq Rebuilt
    BY SchemaFields DEF MigrationInv, TypeOK
  <2>2. ASSUME NEW t \in Rebuilt PROVE t \notin base.strict \/ t \in left[w]
    BY <1>0, <1>2, ScriptComplete DEF Holds, Behind, Length
  <2> QED BY <2>1, <2>2
<1>4. ASSUME NEW t \in Tables PROVE "id" \in base.columns[t]
  <2>1. PICK m \in 1..Length : Script(engine)[m] = Create(t)
    BY <1>0, ScriptComplete DEF Length
  <2> QED BY <2>1, <1>2 DEF Holds, Create, Behind
<1>5. ASSUME NEW t \in Tables, NEW c \in Columns(t), engine = "mariadb" \/ c # "match_count"
      PROVE  c \in base.columns[t]
  <2>1. CASE c = "id"
    BY <2>1, <1>4
  <2>2. CASE c # "id"
    <3>1. PICK m \in 1..Length : Script(engine)[m] = Add(t, c)
      BY <2>2, <1>0, <1>5, ScriptComplete DEF Length
    <3> QED BY <3>1, <1>2 DEF Holds, Add, Behind
  <2> QED BY <2>1, <2>2
<1>6. ASSUME NEW t \in Tables, NEW k \in Keys(t), engine = "sqlite" PROVE k \in base.keys[t]
  <2>1. PICK m \in 1..Length : Script(engine)[m] = Index(t, k)
    BY <1>0, <1>6, ScriptComplete DEF Length
  <2> QED BY <2>1, <1>2 DEF Holds, Index, Behind
<1>7. ASSUME NEW t \in Tables, NEW c \in Columns(t)
      PROVE  c \in base.columns[t] \cup (Skipped(t) \ found.keys[t])
  <2>1. CASE engine = "sqlite" /\ c = "match_count"
    <3>1. c \notin found.keys[t]
      <4>1. found.keys[t] \subseteq Keys(t)
        BY ReleaseAssumption DEF MigrationInv, TypeOK
      <4> QED BY <2>1, <4>1, ApartNames
    <3> QED BY <2>1, <3>1 DEF Skipped
  <2>2. CASE ~(engine = "sqlite" /\ c = "match_count")
    BY <2>2, <1>0, <1>5 DEF Engines
  <2> QED BY <2>1, <2>2
<1>8. ASSUME NEW t \in Tables, NEW k \in Keys(t)
      PROVE  k \in base.keys[t] \cup (Skipped(t) \ found.keys[t])
  <2>1. CASE engine = "sqlite"
    BY <2>1, <1>6
  <2>2. CASE engine = "mariadb"
    <3>1. CASE found.columns[t] = {}
      BY <3>1, <2>2, <1>4 DEF MigrationInv, SchemasOK
    <3>2. CASE found.columns[t] # {}
      <4>1. k \in found.keys[t] => k \in base.keys[t]
        BY DEF MigrationInv, SchemasOK, Keeps
      <4>2. Skipped(t) = Keys(t)
        BY <3>2, <2>2 DEF Skipped
      <4> QED BY <4>1, <4>2
    <3> QED BY <3>1, <3>2
  <2> QED BY <2>1, <2>2, <1>0 DEF Engines
<1> QED BY <1>3, <1>7, <1>8

\* A worker that serves finds every column and key its queries are written for,
\* but for those that Skipped names, whatever the release of the database, the
\* other workers and the kills; and no column is NOT NULL still but those whose
\* change failed in its own start.
THEOREM CurrentSchemaIsServed == Spec => []ServesCurrentSchema
BY ServesCurrent, MigrationInvariant, PTL

\* A start fails only when another worker has changed the schema or taken the
\* write lock since it began: what killed starts have left behind, half a
\* script or an empty copy, never stops the next one.
THEOREM StartsFailOnlyInRaces == Spec => []StartsUnlessOvertaken
<1>1. MigrationInv => StartsUnlessOvertaken
  BY DEF MigrationInv, TypeOK, Steps, StartsUnlessOvertaken
<1> QED BY <1>1, MigrationInvariant, PTL
=============================================================================
