---------------------------- MODULE MCMigrations ----------------------------
(* Six databases: none, the first release, the same after a start that was  *)
(* killed between the copy of a table and its filling, the last release     *)
(* without client identities, the last without counters, the current one.   *)
EXTENDS Migrations, TLC
CONSTANTS w1, w2

Full == [columns |-> [t \in Tables |-> Columns(t)], keys |-> [t \in Tables |-> Keys(t)],
         strict |-> {}, rows |-> Rebuilt, copy |-> [t \in Rebuilt |-> "none"]]
FirstTables == {"users", "sessions", "uploads", "training_runs", "training_cases",
                "upload_cases", "audit_logs", "password_reset_tokens", "admin_mfa_challenges"}
First == [Full EXCEPT !.columns = [t \in Tables |-> IF t \in FirstTables THEN {"id"} ELSE {}],
                      !.keys = [t \in Tables |-> IF t \in FirstTables THEN Keys(t) \ {"client_sha"} ELSE {}],
                      !.strict = Rebuilt]
Interrupted == [First EXCEPT !.copy["uploads"] = "empty"]
NoClients == [Full EXCEPT !.columns["client_identities"] = {},
                          !.columns["uploads"] = @ \ {"client_identity_id"},
                          !.columns["training_cases"] = @ \ {"created_by_client_identity_id"},
                          !.keys["uploads"] = {"user_sha"},
                          !.strict = {"uploads", "training_cases"}]
NoCounts == [Full EXCEPT !.columns["content_scrub_rules"] = @ \ {"match_count"}]
None == [Full EXCEPT !.columns = [t \in Tables |-> {}], !.keys = [t \in Tables |-> {}], !.rows = {}]

MCReleases == {None, First, Interrupted, NoClients, NoCounts, Full}
Symmetry == Permutations(Workers)
=============================================================================
