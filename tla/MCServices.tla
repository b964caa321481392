----------------------------- MODULE MCServices -----------------------------
(***************************************************************************)
(* Small instances of the parts of Services: two processes that flush one  *)
(* entry's counts; a request for two players beside one for the same two   *)
(* or for finances, with one upstream call at a time; an auction house     *)
(* that shrinks and grows again while it is read; a backup and a           *)
(* restore, or two of one kind, of two administrators; three patterns for  *)
(* at most two rules.                                                      *)
(***************************************************************************)
EXTENDS Services, TLC

CONSTANTS t1, t2,                       \* workers, administrators, requests
          y1, y2,                       \* uploaders
          sword, pet, cheap, dear, other,   \* item keys and offers
          short, long,                  \* rules of the rate limiter
          hub, market, endpoint, page, query,
          pair, money, name, uuid, r1, r2,
          u1, b1,                       \* an upload and a bundle
          p1, p2, p3                    \* patterns of scrub rules

MCWindow == short :> 1 @@ long :> 2
MCLimit == short :> 1 @@ long :> 2
MCStores == {"sqlite", "mariadb", "memory"}
MCProcessOf == page :> hub @@ endpoint :> market
MCBucketOf == query :> "public_api"
MCAsksFor == r1 :> {pair} @@ r2 :> {pair, money}
MCPlayersOf == pair :> {name, uuid}
MCItemOf == cheap :> sword @@ dear :> sword @@ other :> pet
MCPriceOf == cheap :> 1 @@ dear :> 2 @@ other :> 1
MCHouseAt == << <<{other}, {dear}, {cheap}>>, <<{dear}, {other}>>, <<{other}, {cheap}, {dear}>> >>
MCContents == y1 :> <<{p1}, {p2, p3}>> @@ y2 :> <<{p2}, {p1, p3}>>

\* Threads are interchangeable, and so are the two uploads if the patterns of
\* their first cases change places with them.
Unchanged == [x \in {y1, y2, p1, p2} |-> x]
Exchanged == y1 :> y2 @@ y2 :> y1 @@ p1 :> p2 @@ p2 :> p1
Symmetry == {f @@ g : f \in Permutations({t1, t2}), g \in {Unchanged, Exchanged}}
=============================================================================
