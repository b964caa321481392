-------------------------- MODULE MCContributions --------------------------
(* Small instances of Contributions for TLC.                               *)
EXTENDS Contributions, TLC

CONSTANTS p1, p2, p3, c1, c2

\* Two payloads share a case; the third is what scrubbing sets aside.
MCCasesOf == (p1 :> {c1}) @@ (p2 :> {c1, c2}) @@ (p3 :> {c2})
OneCase   == [p \in Payloads |-> {c1}]
NoRepeats == [p \in Payloads |-> {}]
Clean     == {<<p1, Nothing>>, <<p2, Nothing>>}
Scrubbed  == {<<p1, Nothing>>, <<p2, p3>>, <<Nothing, p3>>}
Alike     == Permutations(Requests) \cup Permutations(Users) \cup Permutations(Payloads)
=============================================================================
