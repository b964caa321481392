-------------------------- MODULE Services_proofs --------------------------
(***************************************************************************)
(* The reading of the auction house, backups and restores, the scrub rules *)
(* and the request counters, as parts of Services: their promises for      *)
(* every value of the constants.  Each has its inductive invariant and is  *)
(* proved by itself; at the end a behaviour of Services is one of a part,  *)
(* or leaves it out.                                                       *)
(***************************************************************************)
EXTENDS Services, Sequences, FiniteSets, FunctionTheorems, FiniteSetTheorems,
        WellFoundedInduction, TLAPS

-----------------------------------------------------------------------------
(***************************************************************************)
(* The reading of the auction house (AuctionStream).  StreamInv says where *)
(* each page of the attempt is: a worker fetches it, a fold job works on   *)
(* it, or the index has its offers.  The attempt has at most one fold job, *)
(* as only the worker that has the lock waits for one; so what the job has *)
(* read of the index and of the counter still holds when it writes, unless *)
(* a thread of an earlier attempt wrote in between, which mixed records.   *)
(***************************************************************************)

Phases == {"begin", "first", "first fold", "pages", "done", "failed"}
WorkerSteps == {"none", "take", "fetch", "queue", "fold", "drift", "error", "ended"}
JobSteps == {"queued", "picked", "fold", "write", "add"}
WorkerType == [step : WorkerSteps, page : Nat, asked : Auctions!Versions \cup {NoVersion}]
JobType == [page : Nat, attempt : Nat, step : JobSteps, into : Nat,
            left : SUBSET Offers, offer : Offers \cup {NoOffer}, seen : Nat]

StreamTypes ==
    /\ upstream \in Auctions!Versions /\ phase \in Phases
    /\ attempt \in Nat /\ next \in Nat /\ total \in Nat /\ count \in Nat /\ mixed \in BOOLEAN
    /\ worker \in [PageWorkers -> WorkerType] /\ consume \in Seq(PageWorkers)
    /\ index \in [ItemKeys -> Offers \cup {NoOffer}]
    /\ \A j \in fold : /\ j \in JobType /\ j.attempt <= attempt
                       /\ j.step = "write" => j.offer \in Offers

\* The attempt has its first page, and so a version.
Reading == phase \in {"first fold", "pages", "done"}

VersionsOK ==
    /\ phase = "first" \/ Reading => began \in Auctions!Versions /\ began <= upstream
    /\ Reading => version \in Auctions!Versions /\ began <= version /\ version <= upstream

\* After a reset only threads of earlier attempts can have changed the builder.
FreshOK ==
    phase = "first" =>
        /\ \A j \in fold : j.attempt < attempt
        /\ mixed \/ (count = 0 /\ \A k \in ItemKeys : index[k] = NoOffer)

InHand(w) == worker[w].step \in {"fetch", "queue", "drift", "error", "fold"}

\* What a worker has fetched or waits for is of the attempt's version or a
\* later one; it has the lock while its page is folded.
WorkerOK(w) ==
    /\ worker[w].step # "none"
    /\ IF InHand(w) THEN worker[w].page \in 1..next - 1 ELSE worker[w].page = 0
    /\ worker[w].step = "ended" => next = Auctions!Pages
    /\ worker[w].step = "fetch" => worker[w].asked \in Auctions!Versions /\ version <= worker[w].asked
    /\ worker[w].step = "queue" => worker[w].asked = version
    /\ worker[w].step = "fold" => Auctions!HasLock(w)

\* A page is in the hands of one worker.
WorkersOK ==
    /\ phase = "pages" =>
          /\ next \in 1..Auctions!Pages
          /\ \A w \in PageWorkers : WorkerOK(w)
          /\ \A v, w \in PageWorkers :
                InHand(v) /\ InHand(w) /\ worker[v].page = worker[w].page => v = w
    /\ phase = "done" => next = Auctions!Pages

\* The pages that were handed to the consumer, and those it is done with.
Missing(p) ==
    \E w \in PageWorkers :
        worker[w].page = p /\ worker[w].step \in {"fetch", "queue", "drift", "error"}
Got ==
    IF phase = "first fold" THEN {0}
    ELSE IF phase = "done" THEN 0..Auctions!Pages - 1 ELSE {p \in 0..next - 1 : ~Missing(p)}
Ready == {p \in Got : Auctions!FoldsOf(p) = {}}
Offered(p) == HouseAt[version][p + 1]

\* A fold of the attempt: it is the only one, what it has not compared is its
\* page's, and what it has read still holds.
JobOK(j) ==
    /\ j.page \in Got /\ phase # "done"
    /\ phase = "first fold" => j.page = 0
    /\ phase = "pages" => \E w \in PageWorkers : worker[w].step = "fold" /\ worker[w].page = j.page
    /\ j.left \subseteq Offered(j.page)
    /\ j.step \in {"queued", "picked"} => j.left = Offered(j.page)
    /\ j.step \in {"fold", "write", "add"} => j.into = attempt
    /\ j.step = "write" => j.offer \in Offered(j.page) /\ (mixed \/ Auctions!Cheaper(j.offer))
    /\ j.step = "add" => j.left = {} /\ (mixed \/ j.seen = count)
JobsOK ==
    /\ \A j \in fold : j.attempt = attempt => JobOK(j)
    /\ \A i, j \in fold : i.attempt = attempt /\ j.attempt = attempt => i = j

\* An offer of a page is due to a fold of the page, or the index has one that is
\* at least as low.
Due(j, o) == o \in j.left \/ (j.step = "write" /\ o = j.offer)
Met(o) ==
    /\ index[ItemOf[o]] # NoOffer
    /\ mixed \/ PriceOf[index[ItemOf[o]]] <= PriceOf[o]
IndexOK ==
    /\ \A p \in Got : \A o \in Offered(p) : Met(o) \/ \E j \in Auctions!FoldsOf(p) : Due(j, o)
    /\ mixed \/ \A k \in ItemKeys : index[k] # NoOffer =>
                                      index[k] \in Auctions!Own /\ ItemOf[index[k]] = k
SumsOK == total = Cardinality(Got) /\ (mixed \/ count = Cardinality(Ready))

StreamInv ==
    /\ StreamTypes /\ VersionsOK /\ FreshOK /\ WorkersOK
    /\ Reading => JobsOK /\ IndexOK /\ SumsOK

-----------------------------------------------------------------------------

\* Every version has pages, and a page's offers are offers.
LEMMA VersionFacts ==
    ASSUME Auctions!StreamAssumption
    PROVE  /\ Auctions!Versions = 1..Len(HouseAt) /\ Len(HouseAt) \in Nat
           /\ \A v \in Auctions!Versions : v \in Nat /\ Auctions!PagesAt(v) \in Nat \ {0}
           /\ \A v \in Auctions!Versions : \A p \in 0..Auctions!PagesAt(v) - 1 :
                 HouseAt[v][p + 1] \subseteq Offers
<1>1. HouseAt \in Seq(Seq(SUBSET Offers) \ {<<>>})
  BY DEF Auctions!StreamAssumption
<1>2. Auctions!Versions = 1..Len(HouseAt) /\ Len(HouseAt) \in Nat
  BY <1>1 DEF Auctions!Versions
<1>3. ASSUME NEW v \in Auctions!Versions
      PROVE  /\ v \in Nat /\ Auctions!PagesAt(v) \in Nat \ {0}
             /\ \A p \in 0..Auctions!PagesAt(v) - 1 : HouseAt[v][p + 1] \subseteq Offers
  <2>1. v \in Nat /\ HouseAt[v] \in Seq(SUBSET Offers) /\ HouseAt[v] # <<>>
    BY <1>1, <1>2
  <2>2. Len(HouseAt[v]) \in Nat \ {0}
    BY <2>1
  <2>3. ASSUME NEW p \in 0..Len(HouseAt[v]) - 1 PROVE HouseAt[v][p + 1] \subseteq Offers
    <3>1. p + 1 \in 1..Len(HouseAt[v])
      BY <2>2
    <3>2. \A i \in 1..Len(HouseAt[v]) : HouseAt[v][i] \in SUBSET Offers
      BY <2>1
    <3> QED BY <3>1, <3>2
  <2> QED BY <2>1, <2>2, <2>3 DEF Auctions!PagesAt
<1> QED BY <1>2, <1>3

\* While an attempt reads, its pages are pages of its version.
LEMMA ReadingFacts ==
    ASSUME Auctions!StreamAssumption, StreamInv, Reading
    PROVE  /\ version \in Auctions!Versions /\ version \in Nat /\ began \in Nat /\ upstream \in Nat
           /\ began <= version /\ version <= upstream /\ upstream \in Auctions!Versions
           /\ Auctions!Pages \in Nat \ {0} /\ attempt \in Nat /\ next \in Nat
           /\ Got \subseteq 0..Auctions!Pages - 1 /\ Got \subseteq Nat
           /\ \A p \in Got : Offered(p) \subseteq Offers /\ Offered(p) \subseteq Auctions!Own
           /\ \A o \in Offers : ItemOf[o] \in ItemKeys /\ PriceOf[o] \in Nat
           /\ NoOffer \notin Offers
<1>1. /\ version \in Auctions!Versions /\ began \in Auctions!Versions /\ upstream \in Auctions!Versions
      /\ began <= version /\ version <= upstream
  BY DEF StreamInv, StreamTypes, VersionsOK
<1>2. version \in Nat /\ began \in Nat /\ upstream \in Nat
  BY <1>1, VersionFacts
<1>3. Auctions!Pages \in Nat \ {0}
  BY <1>1, VersionFacts DEF Auctions!Pages
<1>4. attempt \in Nat /\ next \in Nat
  BY DEF StreamInv, StreamTypes
<1>5. Got \subseteq 0..Auctions!Pages - 1
  <2>1. CASE phase = "first fold"
    <3>1. 0 \in 0..Auctions!Pages - 1
      BY <1>3
    <3> QED BY <2>1, <3>1 DEF Got
  <2>2. CASE phase = "pages"
    <3>1. next <= Auctions!Pages
      BY <2>2 DEF StreamInv, WorkersOK
    <3>2. 0..next - 1 \subseteq 0..Auctions!Pages - 1
      BY <1>3, <1>4, <3>1
    <3> QED BY <2>2, <3>2 DEF Got
  <2>3. CASE phase = "done"
    BY <2>3 DEF Got
  <2> QED BY <2>1, <2>2, <2>3 DEF Reading
<1>6. \A p \in Got : Offered(p) \subseteq Offers /\ Offered(p) \subseteq Auctions!Own
  BY <1>1, <1>5, VersionFacts DEF Offered, Auctions!Own, Auctions!Pages
<1>7. (\A o \in Offers : ItemOf[o] \in ItemKeys /\ PriceOf[o] \in Nat) /\ NoOffer \notin Offers
  BY DEF Auctions!StreamAssumption
<1>8. Got \subseteq Nat
  BY <1>3, <1>5
<1> QED BY <1>1, <1>2, <1>3, <1>4, <1>5, <1>6, <1>7, <1>8

\* The sets of pages are finite, so that their sizes are numbers.
LEMMA GotFinite ==
    ASSUME Auctions!StreamAssumption, StreamInv, Reading
    PROVE  /\ IsFiniteSet(Got) /\ IsFiniteSet(Ready)
           /\ Cardinality(Got) \in Nat /\ Cardinality(Ready) \in Nat
<1>1. Auctions!Pages \in Nat /\ Got \subseteq 0..Auctions!Pages - 1
  BY ReadingFacts
<1>2. IsFiniteSet(0..Auctions!Pages - 1)
  <2>1. 0 \in Int /\ Auctions!Pages - 1 \in Int
    BY <1>1
  <2>2. \A a, b \in Int : IsFiniteSet(a..b)
    BY FS_Interval
  <2> QED BY <2>1, <2>2
<1>3. IsFiniteSet(Got)
  BY <1>1, <1>2, FS_Subset
<1>4. IsFiniteSet(Ready)
  BY <1>3, FS_Subset DEF Ready
<1> QED BY <1>3, <1>4, FS_CardinalityType

\* Between attempts nothing is claimed of the builder.
LEMMA BetweenAttempts ==
    ASSUME phase' \in {"begin", "failed"}, StreamTypes'
    PROVE  StreamInv'
BY DEF StreamInv, VersionsOK, FreshOK, WorkersOK, Reading

\* Each step of a refresh keeps the invariant: first those before the workers.
LEMMA BeginStep ==
    ASSUME Auctions!StreamAssumption, StreamInv, Auctions!Begin
    PROVE  StreamInv'
<1>1. /\ phase = "begin" /\ phase' = "first" /\ attempt' = attempt + 1 /\ began' = upstream
      /\ index' = [k \in ItemKeys |-> NoOffer] /\ count' = 0 /\ mixed' = FALSE
      /\ UNCHANGED <<upstream, version, next, total, worker, consume, fold>>
  BY DEF Auctions!Begin, Auctions!Reset
<1>2. attempt \in Nat /\ upstream \in Auctions!Versions /\ upstream \in Nat
      /\ \A j \in fold : j.attempt \in Nat /\ j.attempt <= attempt
  BY VersionFacts DEF StreamInv, StreamTypes, JobType
<1>3. \A j \in fold : j.attempt < attempt' /\ j.attempt <= attempt'
  BY <1>1, <1>2
<1>4. StreamTypes'
  <2>1. attempt' \in Nat /\ phase' \in Phases
    BY <1>1, <1>2 DEF Phases
  <2>2. index' \in [ItemKeys -> Offers \cup {NoOffer}]
    BY <1>1
  <2> QED BY <1>1, <1>3, <2>1, <2>2 DEF StreamInv, StreamTypes
<1>5. VersionsOK' /\ WorkersOK' /\ ~Reading'
  BY <1>1, <1>2 DEF VersionsOK, WorkersOK, Reading
<1>6. FreshOK'
  BY <1>1, <1>3 DEF FreshOK
<1> QED BY <1>4, <1>5, <1>6 DEF StreamInv

LEMMA FirstArrivesStep ==
    ASSUME Auctions!StreamAssumption, StreamInv, Auctions!FirstArrives
    PROVE  StreamInv'
<1>1. PICK v \in began..upstream : version' = v /\ fold' = fold \cup {Auctions!Job(0, v)}
  BY DEF Auctions!FirstArrives
<1>2. /\ phase = "first" /\ phase' = "first fold" /\ total' = 1
      /\ UNCHANGED <<upstream, attempt, began, next, worker, consume, index, count, mixed>>
  BY DEF Auctions!FirstArrives
<1>3. /\ began \in Auctions!Versions /\ began \in Nat /\ upstream \in Nat
      /\ upstream \in Auctions!Versions /\ began <= upstream /\ attempt \in Nat
  BY <1>2, VersionFacts DEF StreamInv, VersionsOK, StreamTypes
<1>4. v \in Auctions!Versions /\ v \in Nat /\ began <= v /\ v <= upstream
  BY <1>1, <1>3, VersionFacts
<1> PICK k : k = Auctions!Job(0, v)
  OBVIOUS
<1>5. HouseAt[v][0 + 1] \subseteq Offers /\ Auctions!PagesAt(v) \in Nat \ {0}
  <2>1. Auctions!PagesAt(v) \in Nat \ {0}
    BY <1>4, VersionFacts
  <2>2. 0 \in 0..Auctions!PagesAt(v) - 1
    BY <2>1
  <2> QED BY <1>4, <2>1, <2>2, VersionFacts
<1>6. /\ k \in JobType /\ k.page = 0 /\ k.attempt = attempt /\ k.step = "queued"
      /\ k.left = HouseAt[v][0 + 1]
  BY <1>3, <1>5 DEF Auctions!Job, JobType, JobSteps
<1>7. \A j \in fold : j.attempt < attempt /\ j.attempt \in Nat
  BY <1>2 DEF StreamInv, FreshOK, StreamTypes, JobType
<1>8. fold' = fold \cup {k}
  BY <1>1
<1>9. StreamTypes'
  <2>1. \A j \in fold' : /\ j \in JobType /\ j.attempt <= attempt
                         /\ j.step = "write" => j.offer \in Offers
    BY <1>3, <1>6, <1>8 DEF StreamInv, StreamTypes
  <2> QED BY <1>2, <2>1 DEF StreamInv, StreamTypes, Phases
<1>10. VersionsOK' /\ FreshOK' /\ WorkersOK'
  BY <1>1, <1>2, <1>3, <1>4 DEF VersionsOK, FreshOK, WorkersOK, Reading
<1>11. Got' = {0} /\ Offered(0)' = k.left
  BY <1>1, <1>2, <1>6 DEF Got, Offered
<1>12. \A j \in fold' : j.attempt = attempt => j = k
  BY <1>3, <1>7, <1>8
<1>13. JobsOK'
  <2>1. JobOK(k)'
    BY <1>2, <1>6, <1>11 DEF JobOK
  <2> QED BY <1>2, <1>12, <2>1 DEF JobsOK
<1>14. k \in Auctions!FoldsOf(0)'
  BY <1>2, <1>6, <1>8 DEF Auctions!FoldsOf
<1>15. Ready' = {}
  BY <1>11, <1>14 DEF Ready
<1>16. IndexOK'
  <2>1. \A p \in Got' : \A o \in Offered(p)' : \E j \in Auctions!FoldsOf(p)' : Due(j, o)
    BY <1>11, <1>14 DEF Due
  <2>2. mixed' \/ \A i \in ItemKeys : index'[i] = NoOffer
    BY <1>2 DEF StreamInv, FreshOK
  <2> QED BY <2>1, <2>2 DEF IndexOK
<1>17. SumsOK'
  <2>1. Cardinality(Got') = 1
    BY <1>11, FS_Singleton
  <2>2. Cardinality(Ready') = 0
    BY <1>15, FS_EmptySet
  <2>3. mixed' \/ count' = 0
    BY <1>2 DEF StreamInv, FreshOK
  <2> QED BY <1>2, <2>1, <2>2, <2>3 DEF SumsOK
<1> QED BY <1>9, <1>10, <1>13, <1>16, <1>17 DEF StreamInv

\* What does not depend on where the worker pool is.
LEMMA BuilderKept ==
    ASSUME Reading, Reading', StreamInv, Got' = Got,
           UNCHANGED <<attempt, version, total, fold, index, count, mixed>>
    PROVE  IndexOK' /\ SumsOK'
<1>1. \A p : Auctions!FoldsOf(p)' = Auctions!FoldsOf(p) /\ Offered(p)' = Offered(p)
  BY DEF Auctions!FoldsOf, Offered
<1>2. Ready' = Ready
  BY <1>1 DEF Ready
<1>3. \A o : Met(o)' = Met(o)
  BY DEF Met
<1>4. Auctions!Own' = Auctions!Own
  BY DEF Auctions!Own, Auctions!Pages
<1>5. IndexOK /\ SumsOK
  BY DEF StreamInv
<1>6. IndexOK'
  <2>1. \A p \in Got' : \A o \in Offered(p)' :
           Met(o)' \/ \E j \in Auctions!FoldsOf(p)' : Due(j, o)
    BY <1>1, <1>3, <1>5 DEF IndexOK
  <2>2. mixed' \/ \A k \in ItemKeys : index'[k] # NoOffer =>
                                        index'[k] \in Auctions!Own' /\ ItemOf[index'[k]] = k
    BY <1>4, <1>5 DEF IndexOK
  <2> QED BY <2>1, <2>2 DEF IndexOK
<1>7. SumsOK'
  BY <1>2, <1>5 DEF SumsOK
<1> QED BY <1>6, <1>7

LEMMA FirstFoldedStep ==
    ASSUME Auctions!StreamAssumption, StreamInv, Auctions!FirstFolded
    PROVE  StreamInv'
<1>1. /\ phase = "first fold" /\ Auctions!FoldsOf(0) = {} /\ next' = 1
      /\ phase' = IF Auctions!Pages > 1 THEN "pages" ELSE "done"
      /\ worker' = [w \in PageWorkers |-> [Auctions!Idle EXCEPT !.step = "take"]]
      /\ UNCHANGED <<upstream, attempt, version, began, total, consume, fold, index, count, mixed>>
  BY DEF Auctions!FirstFolded, Auctions!builder
<1>2. Reading /\ Reading' /\ Auctions!Pages \in Nat \ {0} /\ Auctions!Pages' = Auctions!Pages
  BY <1>1, ReadingFacts DEF Reading, Auctions!Pages
<1>3. \A w \in PageWorkers : worker'[w].step = "take" /\ worker'[w].page = 0 /\ worker'[w] \in WorkerType
  BY <1>1 DEF Auctions!Idle, WorkerType, WorkerSteps
<1>4. StreamTypes'
  BY <1>1, <1>2, <1>3 DEF StreamInv, StreamTypes, Phases
<1>5. VersionsOK' /\ FreshOK'
  BY <1>1 DEF StreamInv, VersionsOK, FreshOK, Reading
<1>6. WorkersOK'
  <2>1. \A w \in PageWorkers : ~InHand(w)'
    BY <1>3 DEF InHand
  <2>2. CASE Auctions!Pages > 1
    <3>1. phase' = "pages" /\ next' \in 1..Auctions!Pages'
      <4>1. phase' = "pages"
        BY <1>1, <2>2
      <4>2. 1 \in 1..Auctions!Pages
        BY <1>2
      <4> QED BY <1>1, <1>2, <4>1, <4>2
    <3>2. consume' \in Seq(PageWorkers)
      BY <1>1 DEF StreamInv, StreamTypes
    <3> QED BY <1>3, <2>1, <3>1, <3>2 DEF WorkersOK, WorkerOK
  <2>3. CASE ~(Auctions!Pages > 1)
    <3>1. phase' = "done" /\ next' = Auctions!Pages'
      <4>1. phase' = "done"
        BY <1>1, <2>3
      <4>2. Auctions!Pages = 1
        BY <1>2, <2>3
      <4> QED BY <1>1, <1>2, <4>1, <4>2
    <3> QED BY <3>1 DEF WorkersOK
  <2> QED BY <2>2, <2>3
<1>7. Got' = Got
  <2>1. Got = {0}
    BY <1>1 DEF Got
  <2>2. CASE Auctions!Pages > 1
    <3>1. \A p : ~Missing(p)'
      BY <1>3 DEF Missing
    <3>2. Got' = {p \in 0..next' - 1 : ~Missing(p)'}
      BY <1>1, <2>2 DEF Got
    <3>3. 0..next' - 1 = {0}
      <4>1. 0..1 - 1 = {0}
        OBVIOUS
      <4> QED BY <1>1, <4>1
    <3> QED BY <2>1, <3>1, <3>2, <3>3
  <2>3. CASE ~(Auctions!Pages > 1)
    <3>1. Auctions!Pages = 1
      BY <1>2, <2>3
    <3>2. Got' = 0..Auctions!Pages - 1
      BY <1>1, <1>2, <2>3 DEF Got
    <3>3. 0..1 - 1 = {0}
      OBVIOUS
    <3> QED BY <2>1, <3>1, <3>2, <3>3
  <2> QED BY <2>2, <2>3
<1>8. \A j \in fold : j.attempt # attempt
  BY <1>1, <1>2 DEF StreamInv, JobsOK, JobOK, Auctions!FoldsOf
<1>9. JobsOK'
  BY <1>1, <1>8 DEF JobsOK
<1> QED BY <1>1, <1>2, <1>4, <1>5, <1>6, <1>7, <1>9, BuilderKept DEF StreamInv

LEMMA PublishStep ==
    ASSUME Auctions!StreamAssumption, StreamInv, Auctions!Publish
    PROVE  StreamInv'
<1>1. /\ upstream \in Nat /\ upstream' = upstream + 1 /\ upstream' \in Auctions!Versions
      /\ UNCHANGED <<phase, attempt, version, began, next, total, worker, consume,
                     fold, index, count, mixed>>
  BY VersionFacts DEF Auctions!Publish, Auctions!stream, Auctions!builder, StreamInv, StreamTypes
<1>2. StreamTypes'
  BY <1>1 DEF StreamInv, StreamTypes
<1>3. Reading' = Reading
  BY <1>1 DEF Reading
<1>4. VersionsOK'
  <2>1. ASSUME phase = "first" \/ Reading
        PROVE  began \in Auctions!Versions /\ began <= upstream + 1
    <3>1. began \in Auctions!Versions /\ began \in Nat /\ began <= upstream
      BY <2>1, VersionFacts DEF StreamInv, VersionsOK
    <3> QED BY <1>1, <3>1
  <2>2. ASSUME Reading
        PROVE  version \in Auctions!Versions /\ began <= version /\ version <= upstream + 1
    <3>1. version \in Auctions!Versions /\ version \in Nat /\ began <= version /\ version <= upstream
      BY <2>2, ReadingFacts
    <3> QED BY <1>1, <3>1
  <2> QED BY <1>1, <1>3, <2>1, <2>2 DEF VersionsOK
<1>5. WorkersOK'
  BY <1>1 DEF StreamInv, WorkersOK, WorkerOK, InHand, Auctions!HasLock, Auctions!Pages
<1>6. Got' = Got /\ FreshOK'
  BY <1>1 DEF Got, Missing, Auctions!Pages, StreamInv, FreshOK
<1>7. Reading => JobsOK'
  BY <1>1, <1>6 DEF StreamInv, JobsOK, JobOK, Offered, Auctions!Cheaper
<1> QED BY <1>1, <1>2, <1>3, <1>4, <1>5, <1>6, <1>7, BuilderKept DEF StreamInv

LEMMA FirstFailsStep ==
    ASSUME Auctions!StreamAssumption, StreamInv, Auctions!FirstFails
    PROVE  StreamInv'
<1>1. /\ phase' = "failed"
      /\ UNCHANGED <<upstream, attempt, version, began, next, total, worker, consume,
                     fold, index, count, mixed>>
  BY DEF Auctions!FirstFails, Auctions!builder
<1>2. StreamTypes'
  BY <1>1 DEF StreamInv, StreamTypes, Phases
<1> QED BY <1>1, <1>2, BetweenAttempts

\* What every step of a worker starts from.
LEMMA PagesFacts ==
    ASSUME Auctions!StreamAssumption, StreamInv, phase = "pages"
    PROVE  /\ Reading /\ version \in Nat /\ upstream \in Auctions!Versions
           /\ version <= upstream /\ upstream \in Nat /\ attempt \in Nat /\ total \in Nat
           /\ Auctions!Pages \in Nat \ {0} /\ next \in 1..Auctions!Pages /\ next \in Nat
           /\ worker \in [PageWorkers -> WorkerType] /\ consume \in Seq(PageWorkers)
           /\ Got = {p \in 0..next - 1 : ~Missing(p)}
<1>1. Reading
  BY DEF Reading
<1>2. /\ total \in Nat /\ worker \in [PageWorkers -> WorkerType] /\ consume \in Seq(PageWorkers)
  BY DEF StreamInv, StreamTypes
<1>3. next \in 1..Auctions!Pages
  BY DEF StreamInv, WorkersOK
<1>4. Got = {p \in 0..next - 1 : ~Missing(p)}
  BY DEF Got
<1> QED BY <1>1, <1>2, <1>3, <1>4, ReadingFacts

\* A step of one worker leaves the others their pages, and the lock to the one
\* that has it.
LEMMA OneWorkerMoves ==
    ASSUME Auctions!StreamAssumption, StreamInv, phase = "pages", phase' = "pages",
           UNCHANGED <<upstream, version>>,
           NEW w \in PageWorkers, \A x \in PageWorkers \ {w} : worker'[x] = worker[x],
           \A x \in PageWorkers \ {w} :
              worker[x].step = "fold" /\ Auctions!HasLock(x) => Auctions!HasLock(x)',
           next' \in next..Auctions!Pages, WorkerOK(w)',
           InHand(w)' => \/ InHand(w) /\ worker'[w].page = worker[w].page
                         \/ worker'[w].page = next
    PROVE  WorkersOK'
<1>1. next \in 1..Auctions!Pages /\ Auctions!Pages \in Nat /\ next \in Nat /\ next' \in Nat
      /\ next <= next' /\ next' <= Auctions!Pages
  BY PagesFacts
<1>2. Auctions!Pages' = Auctions!Pages
  BY DEF Auctions!Pages
<1>3. \A x \in PageWorkers \ {w} : InHand(x)' = InHand(x) /\ worker'[x] = worker[x]
  BY DEF InHand
<1>4. ASSUME NEW x \in PageWorkers PROVE WorkerOK(x)'
  <2>1. CASE x = w
    BY <2>1
  <2>2. CASE x # w
    <3>1. WorkerOK(x) /\ worker'[x] = worker[x] /\ InHand(x)' = InHand(x)
      BY <1>3, <2>2 DEF StreamInv, WorkersOK
    <3>2. worker[x].page \in 1..next - 1 => worker[x].page \in 1..next' - 1
      BY <1>1
    <3>3. next = Auctions!Pages => next' = Auctions!Pages
      BY <1>1
    <3>4. worker[x].step = "fold" => Auctions!HasLock(x)'
      BY <2>2, <3>1 DEF WorkerOK
    <3> QED BY <1>2, <3>1, <3>2, <3>3, <3>4 DEF WorkerOK
  <2> QED BY <2>1, <2>2
<1>5. \A x \in PageWorkers : InHand(x) => worker[x].page \in 1..next - 1
  BY DEF StreamInv, WorkersOK, WorkerOK
<1>6. next \notin 1..next - 1
  BY <1>1
<1>7. ASSUME NEW u \in PageWorkers, NEW x \in PageWorkers,
             InHand(u)', InHand(x)', worker'[u].page = worker'[x].page
      PROVE  u = x
  <2>1. \A a, b \in PageWorkers : InHand(a) /\ InHand(b) /\ worker[a].page = worker[b].page => a = b
    BY DEF StreamInv, WorkersOK
  <2>2. CASE u # w /\ x # w
    BY <1>3, <1>7, <2>1, <2>2
  <2>3. CASE u = w /\ x # w
    <3>1. InHand(x) /\ worker'[x].page = worker[x].page
      BY <1>3, <1>7, <2>3
    <3>2. worker[x].page # next
      BY <1>5, <1>6, <3>1
    <3> QED BY <1>7, <2>1, <2>3, <3>1, <3>2
  <2>4. CASE u # w /\ x = w
    <3>1. InHand(u) /\ worker'[u].page = worker[u].page
      BY <1>3, <1>7, <2>4
    <3>2. worker[u].page # next
      BY <1>5, <1>6, <3>1
    <3> QED BY <1>7, <2>1, <2>4, <3>1, <3>2
  <2> QED BY <2>2, <2>3, <2>4
<1>8. next' \in 1..Auctions!Pages'
  BY <1>1, <1>2
<1> QED BY <1>4, <1>7, <1>8 DEF WorkersOK

\* A step of a worker that hands nothing over and waits for no fold.
LEMMA BuilderUntouched ==
    ASSUME StreamInv, phase = "pages", phase' = "pages",
           UNCHANGED <<upstream, attempt, version, began, total, fold, index, count, mixed>>,
           StreamTypes', WorkersOK', Got' = Got,
           \A j \in fold : j.attempt = attempt =>
               \E x \in PageWorkers : worker'[x].step = "fold" /\ worker'[x].page = j.page
    PROVE  StreamInv'
<1>1. Reading /\ Reading'
  BY DEF Reading
<1>2. VersionsOK' /\ FreshOK'
  BY <1>1 DEF StreamInv, VersionsOK, FreshOK, Reading
<1>3. JobsOK'
  <2>1. \A j \in fold : j.attempt = attempt => JobOK(j)'
    BY <1>1 DEF StreamInv, JobsOK, JobOK, Offered, Auctions!Cheaper
  <2> QED BY <1>1, <2>1 DEF StreamInv, JobsOK
<1> QED BY <1>1, <1>2, <1>3, BuilderKept DEF StreamInv

\* The steps of a worker, and the fold of its page.
LEMMA TakeStep ==
    ASSUME Auctions!StreamAssumption, StreamInv, NEW w \in PageWorkers, Auctions!Take(w)
    PROVE  StreamInv'
<1>1. /\ phase = "pages" /\ phase' = "pages" /\ worker[w].step = "take"
      /\ UNCHANGED <<upstream, attempt, version, began, total, consume, fold, index, count, mixed>>
  BY DEF Auctions!Take, Auctions!builder
<1>2. /\ Reading /\ version \in Nat /\ version <= upstream /\ upstream \in Auctions!Versions
      /\ next \in 1..Auctions!Pages /\ next \in Nat /\ Auctions!Pages \in Nat
      /\ worker \in [PageWorkers -> WorkerType]
      /\ Got = {p \in 0..next - 1 : ~Missing(p)}
  BY <1>1, PagesFacts
<1>3. ~InHand(w) /\ worker[w].page = 0
  BY <1>1 DEF StreamInv, WorkersOK, WorkerOK, InHand
<1>4. Got' = {p \in 0..next' - 1 : ~Missing(p)'}
  BY <1>1 DEF Got
<1>5. \A j \in fold : j.attempt = attempt =>
         \E x \in PageWorkers : x # w /\ worker[x].step = "fold" /\ worker[x].page = j.page
  BY <1>1, <1>2 DEF StreamInv, JobsOK, JobOK
<1>6. Auctions!Pages' = Auctions!Pages /\ \A x : Auctions!HasLock(x)' = Auctions!HasLock(x)
  BY <1>1 DEF Auctions!Pages, Auctions!HasLock
<1>7. CASE next < Auctions!Pages
  <2>1. /\ worker' = [worker EXCEPT ![w] = [step |-> "fetch", page |-> next, asked |-> upstream]]
        /\ next' = next + 1
    BY <1>7 DEF Auctions!Take
  <2>2. /\ worker'[w] = [step |-> "fetch", page |-> next, asked |-> upstream]
        /\ \A x \in PageWorkers \ {w} : worker'[x] = worker[x]
    BY <1>2, <2>1
  <2>3. StreamTypes'
    <3>1. worker'[w] \in WorkerType
      BY <1>2, <2>2 DEF WorkerType, WorkerSteps
    <3>2. worker' \in [PageWorkers -> WorkerType]
      BY <1>2, <2>1, <3>1
    <3>3. next' \in Nat
      BY <1>2, <2>1
    <3> QED BY <1>1, <3>2, <3>3 DEF StreamInv, StreamTypes
  <2>4. InHand(w)'
    BY <2>2 DEF InHand
  <2>5. WorkerOK(w)'
    <3>1. next \in 1..next' - 1
      BY <1>2, <2>1
    <3> QED BY <1>1, <1>2, <2>2, <2>4, <3>1 DEF WorkerOK
  <2>6. WorkersOK'
    <3>1. next' \in next..Auctions!Pages
      BY <1>2, <1>7, <2>1
    <3>2. worker'[w].page = next
      BY <2>2
    <3> QED BY <1>1, <1>6, <2>2, <2>5, <3>1, <3>2, OneWorkerMoves
  <2>7. \A p : Missing(p)' <=> Missing(p) \/ p = next
    BY <1>1, <1>3, <2>2 DEF Missing
  <2>8. Got' = Got
    <3>1. \A p : p \in 0..next' - 1 <=> p \in 0..next - 1 \/ p = next
      BY <1>2, <2>1
    <3>2. next \notin 0..next - 1
      BY <1>2
    <3> QED BY <1>2, <1>4, <2>7, <3>1, <3>2
  <2>9. \A j \in fold : j.attempt = attempt =>
           \E x \in PageWorkers : worker'[x].step = "fold" /\ worker'[x].page = j.page
    BY <1>5, <2>2
  <2> QED BY <1>1, <2>3, <2>6, <2>8, <2>9, BuilderUntouched
<1>8. CASE ~(next < Auctions!Pages)
  <2>1. worker' = [worker EXCEPT ![w].step = "ended"] /\ next' = next /\ next = Auctions!Pages
    BY <1>2, <1>8 DEF Auctions!Take
  <2>2. /\ worker'[w].step = "ended" /\ worker'[w].page = 0 /\ worker'[w] \in WorkerType
        /\ \A x \in PageWorkers \ {w} : worker'[x] = worker[x]
    BY <1>2, <1>3, <2>1 DEF WorkerType, WorkerSteps
  <2>3. StreamTypes'
    <3>1. worker' \in [PageWorkers -> WorkerType]
      BY <1>2, <2>1, <2>2
    <3> QED BY <1>1, <2>1, <3>1 DEF StreamInv, StreamTypes
  <2>4. ~InHand(w)'
    BY <2>2 DEF InHand
  <2>5. WorkerOK(w)'
    BY <1>6, <2>1, <2>2, <2>4 DEF WorkerOK
  <2>6. WorkersOK'
    <3>1. next' \in next..Auctions!Pages
      BY <1>2, <2>1
    <3> QED BY <1>1, <1>6, <2>2, <2>4, <2>5, <3>1, OneWorkerMoves
  <2>7. \A p : Missing(p)' <=> Missing(p)
    BY <1>1, <2>2 DEF Missing
  <2>8. Got' = Got
    BY <1>2, <1>4, <2>1, <2>7
  <2>9. \A j \in fold : j.attempt = attempt =>
           \E x \in PageWorkers : worker'[x].step = "fold" /\ worker'[x].page = j.page
    BY <1>5, <2>2
  <2> QED BY <1>1, <2>3, <2>6, <2>8, <2>9, BuilderUntouched
<1> QED BY <1>7, <1>8

LEMMA PageArrivesStep ==
    ASSUME Auctions!StreamAssumption, StreamInv, NEW w \in PageWorkers, Auctions!PageArrives(w)
    PROVE  StreamInv'
<1>1. /\ phase = "pages" /\ phase' = "pages" /\ worker[w].step = "fetch"
      /\ UNCHANGED <<upstream, attempt, version, began, next, total, fold, index, count, mixed>>
  BY DEF Auctions!PageArrives, Auctions!stream, Auctions!builder
<1>2. /\ Reading /\ version \in Nat /\ version <= upstream /\ upstream \in Nat
      /\ next \in 1..Auctions!Pages /\ next \in Nat /\ Auctions!Pages \in Nat
         /\ Auctions!Pages = Auctions!PagesAt(version)
      /\ worker \in [PageWorkers -> WorkerType]
      /\ Got = {p \in 0..next - 1 : ~Missing(p)}
  BY <1>1, PagesFacts DEF Auctions!Pages
<1>3. PICK v \in worker[w].asked..upstream :
         IF Auctions!Drifted(worker[w].page, v)
         THEN worker' = [worker EXCEPT ![w].step = "drift"]
         ELSE worker' = [worker EXCEPT ![w].step = "queue", ![w].asked = v]
  BY DEF Auctions!PageArrives
<1>4. InHand(w) /\ worker[w].page \in 1..next - 1 /\ worker[w].asked \in Auctions!Versions
      /\ version <= worker[w].asked
  BY <1>1 DEF StreamInv, WorkersOK, WorkerOK, InHand
<1>5. worker[w].asked \in Nat /\ v \in Nat /\ version <= v /\ v <= upstream /\ v \in Auctions!Versions
  <2>1. worker[w].asked \in Nat /\ worker[w].asked >= 1
    BY <1>4, VersionFacts
  <2>2. upstream <= Len(HouseAt) /\ Len(HouseAt) \in Nat
    BY VersionFacts DEF StreamInv, StreamTypes
  <2>3. v \in Int /\ worker[w].asked <= v /\ v <= upstream
    BY <1>2, <1>3, <2>1
  <2>4. v \in 1..Len(HouseAt)
    BY <1>2, <2>1, <2>2, <2>3
  <2> QED BY <1>2, <1>4, <2>1, <2>3, <2>4, VersionFacts
<1>6. /\ worker'[w].page = worker[w].page /\ worker'[w].step \in {"drift", "queue"}
      /\ worker'[w] \in WorkerType
      /\ worker'[w].step = "drift" => Auctions!Drifted(worker[w].page, v)
      /\ worker'[w].step = "queue" => ~Auctions!Drifted(worker[w].page, v) /\ worker'[w].asked = v
      /\ worker' \in [PageWorkers -> WorkerType]
      /\ \A x \in PageWorkers \ {w} : worker'[x] = worker[x]
  <2>1. CASE Auctions!Drifted(worker[w].page, v)
    <3>1. worker' = [worker EXCEPT ![w].step = "drift"]
      BY <1>3, <2>1
    <3>2. worker'[w] = [worker[w] EXCEPT !.step = "drift"] /\ worker[w] \in WorkerType
      BY <1>2, <3>1
    <3>3. worker'[w] \in WorkerType /\ worker'[w].step = "drift" /\ worker'[w].page = worker[w].page
      BY <3>2 DEF WorkerType, WorkerSteps
    <3>4. worker' \in [PageWorkers -> WorkerType] /\ \A x \in PageWorkers \ {w} : worker'[x] = worker[x]
      BY <1>2, <3>1, <3>3
    <3> QED BY <2>1, <3>3, <3>4
  <2>2. CASE ~Auctions!Drifted(worker[w].page, v)
    <3>1. worker' = [worker EXCEPT ![w].step = "queue", ![w].asked = v]
      BY <1>3, <2>2
    <3>2. worker'[w] = [worker[w] EXCEPT !.step = "queue", !.asked = v] /\ worker[w] \in WorkerType
      BY <1>2, <3>1
    <3>3. /\ worker'[w] \in WorkerType /\ worker'[w].step = "queue" /\ worker'[w].page = worker[w].page
          /\ worker'[w].asked = v
      BY <1>5, <3>2 DEF WorkerType, WorkerSteps
    <3>4. worker' \in [PageWorkers -> WorkerType] /\ \A x \in PageWorkers \ {w} : worker'[x] = worker[x]
      BY <1>2, <3>1, <3>3
    <3> QED BY <2>2, <3>3, <3>4
  <2> QED BY <2>1, <2>2
<1>7. consume' \in Seq(PageWorkers) => StreamTypes'
  BY <1>1, <1>6 DEF StreamInv, StreamTypes
<1>8. InHand(w)'
  BY <1>6 DEF InHand
<1>9. worker'[w].step = "queue" => worker'[w].asked = version
  BY <1>6 DEF Auctions!Drifted
<1>10. /\ consume' \in Seq(PageWorkers)
       /\ \A x \in PageWorkers : Auctions!HasLock(x) => Auctions!HasLock(x)'
  <2>1. consume \in Seq(PageWorkers) /\ (consume' = consume \/ consume' = Append(consume, w))
    BY <1>1, PagesFacts DEF Auctions!PageArrives
  <2> QED BY <2>1 DEF Auctions!HasLock
<1>11. WorkerOK(w)'
  BY <1>1, <1>4, <1>6, <1>8, <1>9 DEF WorkerOK
<1>12. WorkersOK'
  <2>1. next' \in next..Auctions!Pages
    BY <1>1, <1>2
  <2> QED BY <1>1, <1>4, <1>6, <1>10, <1>11, <2>1, OneWorkerMoves
<1>13. \A p : Missing(p)' <=> Missing(p)
  BY <1>1, <1>6 DEF Missing
<1>14. Got' = Got
  <2>1. Got' = {p \in 0..next' - 1 : ~Missing(p)'}
    BY <1>1 DEF Got
  <2> QED BY <1>1, <1>2, <1>13, <2>1
<1>15. \A j \in fold : j.attempt = attempt =>
         \E x \in PageWorkers : worker'[x].step = "fold" /\ worker'[x].page = j.page
  <2>1. \A j \in fold : j.attempt = attempt =>
           \E x \in PageWorkers : worker[x].step = "fold" /\ worker[x].page = j.page
    BY <1>1, <1>2 DEF StreamInv, JobsOK, JobOK
  <2> QED BY <1>1, <1>6, <2>1
<1> QED BY <1>1, <1>7, <1>10, <1>12, <1>14, <1>15, BuilderUntouched

LEMMA PageFailsStep ==
    ASSUME Auctions!StreamAssumption, StreamInv, NEW w \in PageWorkers, Auctions!PageFails(w)
    PROVE  StreamInv'
<1>1. /\ phase = "pages" /\ phase' = "pages" /\ worker[w].step = "fetch"
      /\ worker' = [worker EXCEPT ![w].step = "error"]
      /\ UNCHANGED <<upstream, attempt, version, began, next, total, consume, fold, index, count, mixed>>
  BY DEF Auctions!PageFails, Auctions!stream, Auctions!builder
<1>2. /\ Reading /\ next \in 1..Auctions!Pages /\ next \in Nat /\ Auctions!Pages \in Nat
      /\ worker \in [PageWorkers -> WorkerType]
      /\ Got = {p \in 0..next - 1 : ~Missing(p)}
  BY <1>1, PagesFacts
<1>3. InHand(w) /\ worker[w].page \in 1..next - 1
  BY <1>1 DEF StreamInv, WorkersOK, WorkerOK, InHand
<1>4. /\ worker'[w].page = worker[w].page /\ worker'[w].step = "error"
      /\ worker' \in [PageWorkers -> WorkerType]
      /\ \A x \in PageWorkers \ {w} : worker'[x] = worker[x]
  <2>1. worker'[w] = [worker[w] EXCEPT !.step = "error"] /\ worker[w] \in WorkerType
    BY <1>1, <1>2
  <2>2. worker'[w] \in WorkerType /\ worker'[w].page = worker[w].page /\ worker'[w].step = "error"
    BY <2>1 DEF WorkerType, WorkerSteps
  <2> QED BY <1>1, <1>2, <2>2
<1>5. StreamTypes'
  BY <1>1, <1>4 DEF StreamInv, StreamTypes
<1>6. WorkerOK(w)' /\ InHand(w)'
  BY <1>1, <1>3, <1>4 DEF WorkerOK, InHand
<1>7. WorkersOK'
  <2>1. next' \in next..Auctions!Pages
    BY <1>1, <1>2
  <2>2. \A x : Auctions!HasLock(x)' = Auctions!HasLock(x)
    BY <1>1 DEF Auctions!HasLock
  <2> QED BY <1>1, <1>3, <1>4, <1>6, <2>1, <2>2, OneWorkerMoves
<1>8. \A p : Missing(p)' <=> Missing(p)
  BY <1>1, <1>4 DEF Missing
<1>9. Got' = Got
  <2>1. Got' = {p \in 0..next' - 1 : ~Missing(p)'}
    BY <1>1 DEF Got
  <2> QED BY <1>1, <1>2, <1>8, <2>1
<1>10. \A j \in fold : j.attempt = attempt =>
         \E x \in PageWorkers : worker'[x].step = "fold" /\ worker'[x].page = j.page
  <2>1. \A j \in fold : j.attempt = attempt =>
           \E x \in PageWorkers : worker[x].step = "fold" /\ worker[x].page = j.page
    BY <1>1, <1>2 DEF StreamInv, JobsOK, JobOK
  <2> QED BY <1>1, <1>4, <2>1
<1> QED BY <1>1, <1>5, <1>7, <1>9, <1>10, BuilderUntouched

LEMMA FoldedStep ==
    ASSUME Auctions!StreamAssumption, StreamInv, NEW w \in PageWorkers, Auctions!Folded(w)
    PROVE  StreamInv'
<1>1. /\ phase = "pages" /\ phase' = "pages" /\ worker[w].step = "fold"
      /\ Auctions!FoldsOf(worker[w].page) = {}
      /\ worker' = [worker EXCEPT ![w] = [Auctions!Idle EXCEPT !.step = "take"]]
      /\ consume' = Tail(consume)
      /\ UNCHANGED <<upstream, attempt, version, began, next, total, fold, index, count, mixed>>
  BY DEF Auctions!Folded, Auctions!stream, Auctions!builder
<1>2. /\ Reading /\ next \in 1..Auctions!Pages /\ next \in Nat /\ Auctions!Pages \in Nat
      /\ worker \in [PageWorkers -> WorkerType]
      /\ Got = {p \in 0..next - 1 : ~Missing(p)}
  BY <1>1, PagesFacts
<1>3. /\ worker'[w].page = 0 /\ worker'[w].step = "take"
      /\ worker' \in [PageWorkers -> WorkerType]
      /\ \A x \in PageWorkers \ {w} : worker'[x] = worker[x]
  BY <1>1, <1>2 DEF WorkerType, WorkerSteps, Auctions!Idle
<1>4. StreamTypes'
  <2>1. consume \in Seq(PageWorkers) /\ consume # <<>>
    BY <1>1, PagesFacts DEF StreamInv, WorkersOK, WorkerOK, Auctions!HasLock
  <2>2. consume' \in Seq(PageWorkers)
    BY <1>1, <2>1
  <2> QED BY <1>1, <1>3, <2>2 DEF StreamInv, StreamTypes
<1>5. WorkerOK(w)' /\ ~InHand(w)'
  BY <1>3 DEF WorkerOK, InHand
<1>6. WorkersOK'
  <2>1. next' \in next..Auctions!Pages
    BY <1>1, <1>2
  <2>2. Auctions!HasLock(w)
    BY <1>1 DEF StreamInv, WorkersOK, WorkerOK
  <2>3. \A x \in PageWorkers \ {w} : ~Auctions!HasLock(x)
    BY <2>2 DEF Auctions!HasLock
  <2> QED BY <1>1, <1>3, <1>5, <2>1, <2>3, OneWorkerMoves
<1>7. \A p : Missing(p)' <=> Missing(p)
  BY <1>1, <1>3 DEF Missing
<1>8. Got' = Got
  <2>1. Got' = {p \in 0..next' - 1 : ~Missing(p)'}
    BY <1>1 DEF Got
  <2> QED BY <1>1, <1>2, <1>7, <2>1
<1>9. \A j \in fold : j.attempt = attempt =>
         \E x \in PageWorkers : worker'[x].step = "fold" /\ worker'[x].page = j.page
  <2>1. \A j \in fold : j.attempt = attempt =>
           \E x \in PageWorkers : worker[x].step = "fold" /\ worker[x].page = j.page
    BY <1>1, <1>2 DEF StreamInv, JobsOK, JobOK
  <2>2. \A j \in fold : j.attempt = attempt => j.page # worker[w].page
    BY <1>1 DEF Auctions!FoldsOf
  <2> QED BY <1>3, <2>1, <2>2
<1> QED BY <1>1, <1>4, <1>6, <1>8, <1>9, BuilderUntouched

LEMMA ConsumeStep ==
    ASSUME Auctions!StreamAssumption, StreamInv, NEW w \in PageWorkers, Auctions!Consume(w)
    PROVE  StreamInv'
<1> PICK k : k = Auctions!Job(worker[w].page, worker[w].asked)
  OBVIOUS
<1>1. /\ phase = "pages" /\ phase' = "pages" /\ worker[w].step = "queue" /\ Auctions!HasLock(w)
      /\ worker' = [worker EXCEPT ![w].step = "fold"]
      /\ fold' = fold \cup {k} /\ total' = total + 1
      /\ UNCHANGED <<upstream, attempt, version, began, next, consume, index, count, mixed>>
  BY DEF Auctions!Consume
<1>2. /\ Reading /\ Reading' /\ attempt \in Nat /\ total \in Nat
      /\ next \in 1..Auctions!Pages /\ next \in Nat /\ Auctions!Pages \in Nat
      /\ worker \in [PageWorkers -> WorkerType]
      /\ Got = {p \in 0..next - 1 : ~Missing(p)}
  BY <1>1, PagesFacts DEF Reading
<1> PICK q : q = worker[w].page
  OBVIOUS
<1>3. InHand(w) /\ q \in 1..next - 1 /\ worker[w].asked = version
  BY <1>1 DEF StreamInv, WorkersOK, WorkerOK, InHand
<1>4. /\ worker'[w].page = q /\ worker'[w].step = "fold"
      /\ worker' \in [PageWorkers -> WorkerType]
      /\ \A x \in PageWorkers \ {w} : worker'[x] = worker[x]
  <2>1. worker'[w] = [worker[w] EXCEPT !.step = "fold"] /\ worker[w] \in WorkerType
    BY <1>1, <1>2
  <2>2. worker'[w] \in WorkerType /\ worker'[w].page = worker[w].page /\ worker'[w].step = "fold"
    BY <2>1 DEF WorkerType, WorkerSteps
  <2> QED BY <1>1, <1>2, <2>2
<1>5. /\ k \in JobType /\ k.page = q /\ k.attempt = attempt /\ k.step = "queued"
      /\ k.left = Offered(q)
  <2>1. q \in Nat /\ q \in 0..Auctions!Pages - 1
    BY <1>2, <1>3
  <2>2. Offered(q) \subseteq Offers
    BY <1>2, <2>1, VersionFacts, ReadingFacts DEF Offered, Auctions!Pages
  <2> QED BY <1>2, <1>3, <2>1, <2>2 DEF Auctions!Job, JobType, JobSteps, Offered
<1>6. StreamTypes'
  <2>1. total' \in Nat
    BY <1>1, <1>2
  <2>2. \A j \in fold' : /\ j \in JobType /\ j.attempt <= attempt
                         /\ j.step = "write" => j.offer \in Offers
    BY <1>1, <1>2, <1>5 DEF StreamInv, StreamTypes
  <2> QED BY <1>1, <1>4, <2>1, <2>2 DEF StreamInv, StreamTypes
<1>7. VersionsOK' /\ FreshOK'
  BY <1>1, <1>2 DEF StreamInv, VersionsOK, FreshOK, Reading
<1>8. WorkersOK'
  <2>1. next' \in next..Auctions!Pages
    BY <1>1, <1>2
  <2>2. \A x : Auctions!HasLock(x)' = Auctions!HasLock(x)
    BY <1>1 DEF Auctions!HasLock
  <2>3. WorkerOK(w)' /\ InHand(w)'
    BY <1>1, <1>3, <1>4, <2>2 DEF WorkerOK, InHand
  <2> QED BY <1>1, <1>3, <1>4, <2>1, <2>2, <2>3, OneWorkerMoves
<1>9. Missing(q) /\ ~Missing(q)' /\ \A p : p # q => (Missing(p)' <=> Missing(p))
  <2>1. \A x \in PageWorkers \ {w} : InHand(x) => worker[x].page # q
    BY <1>1, <1>3 DEF StreamInv, WorkersOK
  <2> QED BY <1>1, <1>4, <2>1 DEF Missing, InHand
<1>10. Got' = Got \cup {q} /\ q \notin Got
  <2>1. Got' = {p \in 0..next' - 1 : ~Missing(p)'}
    BY <1>1 DEF Got
  <2>2. q \in 0..next - 1
    BY <1>2, <1>3
  <2>3. 0..next' - 1 = 0..next - 1
    BY <1>1
  <2> QED BY <1>2, <1>9, <2>1, <2>2, <2>3
\* Nobody else folds: whoever did would have the lock.
<1>11. \A j \in fold : j.attempt # attempt
  <2>1. SUFFICES ASSUME NEW j \in fold, j.attempt = attempt PROVE FALSE
    OBVIOUS
  <2>2. PICK x \in PageWorkers : worker[x].step = "fold"
    BY <1>1, <1>2, <2>1 DEF StreamInv, JobsOK, JobOK
  <2>3. Auctions!HasLock(x)
    BY <1>1, <2>2 DEF StreamInv, WorkersOK, WorkerOK
  <2>4. x = w
    BY <1>1, <2>3 DEF Auctions!HasLock
  <2> QED BY <1>1, <2>2, <2>4
<1>12. \A j \in fold' : j.attempt = attempt => j = k
  BY <1>1, <1>11
<1>13. JobsOK'
  <2>1. JobOK(k)'
    BY <1>1, <1>4, <1>5, <1>10 DEF JobOK, Offered
  <2> QED BY <1>1, <1>12, <2>1 DEF JobsOK
<1>14. k \in Auctions!FoldsOf(q)' /\ \A p : Auctions!FoldsOf(p) = {}
  BY <1>1, <1>5, <1>11 DEF Auctions!FoldsOf
<1>15. \A p \in Got : Auctions!FoldsOf(p)' = {}
  BY <1>1, <1>5, <1>10, <1>12 DEF Auctions!FoldsOf
<1>16. Ready' = Ready
  BY <1>10, <1>14, <1>15 DEF Ready
<1>17. IndexOK'
  <2>1. \A p : Offered(p)' = Offered(p)
    BY <1>1 DEF Offered
  <2>2. \A o : Met(o)' = Met(o)
    BY <1>1 DEF Met
  <2>3. \A p \in Got : \A o \in Offered(p) : Met(o)
    BY <1>2, <1>14 DEF StreamInv, IndexOK
  <2>4. \A o \in Offered(q) : Due(k, o)
    BY <1>5 DEF Due
  <2>5. \A p \in Got' : \A o \in Offered(p)' :
           Met(o)' \/ \E j \in Auctions!FoldsOf(p)' : Due(j, o)
    BY <1>10, <1>14, <2>1, <2>2, <2>3, <2>4
  <2>6. Auctions!Own' = Auctions!Own
    BY <1>1 DEF Auctions!Own, Auctions!Pages
  <2>7. mixed' \/ \A i \in ItemKeys : index'[i] # NoOffer =>
                                        index'[i] \in Auctions!Own' /\ ItemOf[index'[i]] = i
    BY <1>1, <1>2, <2>6 DEF StreamInv, IndexOK
  <2> QED BY <2>5, <2>7 DEF IndexOK
<1>18. SumsOK'
  <2>1. /\ IsFiniteSet(Got) /\ total = Cardinality(Got)
        /\ mixed \/ count = Cardinality(Ready)
    BY <1>2, GotFinite DEF StreamInv, SumsOK
  <2>2. Cardinality(Got \cup {q}) = Cardinality(Got) + 1
    BY <1>10, <2>1, FS_AddElement
  <2> QED BY <1>1, <1>10, <1>16, <2>1, <2>2 DEF SumsOK
<1> QED BY <1>6, <1>7, <1>8, <1>13, <1>17, <1>18 DEF StreamInv

LEMMA StopStep ==
    ASSUME Auctions!StreamAssumption, StreamInv, NEW w \in PageWorkers, Auctions!Stop(w)
    PROVE  StreamInv'
<1>1. /\ phase' \in {"begin", "failed"}
      /\ fold' = Auctions!Kept /\ worker' = [x \in PageWorkers |-> Auctions!Idle] /\ consume' = <<>>
      /\ UNCHANGED <<upstream, attempt, version, began, next, total, index, count, mixed>>
  BY DEF Auctions!Stop
<1>2. StreamTypes'
  <2>1. Auctions!Idle \in WorkerType
    BY DEF Auctions!Idle, WorkerType, WorkerSteps
  <2>2. fold' \subseteq fold
    BY <1>1 DEF Auctions!Kept
  <2>3. <<>> \in Seq(PageWorkers)
    OBVIOUS
  <2> QED BY <1>1, <2>1, <2>2, <2>3 DEF StreamInv, StreamTypes, Phases
<1> QED BY <1>1, <1>2, BetweenAttempts

LEMMA CompleteStep ==
    ASSUME Auctions!StreamAssumption, StreamInv, Auctions!Complete
    PROVE  StreamInv'
<1>1. /\ phase = "pages" /\ phase' = "done" /\ \A w \in PageWorkers : worker[w].step = "ended"
      /\ UNCHANGED <<upstream, attempt, version, began, next, total, worker, consume,
                     fold, index, count, mixed>>
  BY DEF Auctions!Complete, Auctions!builder
<1>2. Reading /\ Reading' /\ Got = {p \in 0..next - 1 : ~Missing(p)} /\ Auctions!Pages' = Auctions!Pages
  BY <1>1, PagesFacts DEF Reading, Auctions!Pages
<1>3. next = Auctions!Pages
  <2>1. PICK w \in PageWorkers : TRUE
    BY DEF Auctions!StreamAssumption
  <2> QED BY <1>1, <2>1 DEF StreamInv, WorkersOK, WorkerOK
<1>4. Got' = Got
  <2>1. \A p : ~Missing(p)
    BY <1>1 DEF Missing
  <2>2. Got' = 0..Auctions!Pages - 1
    BY <1>1, <1>2 DEF Got
  <2> QED BY <1>2, <1>3, <2>1, <2>2
<1>5. \A j \in fold : j.attempt # attempt
  BY <1>1, <1>2 DEF StreamInv, JobsOK, JobOK
<1>6. JobsOK'
  BY <1>1, <1>5 DEF JobsOK
<1>7. StreamTypes' /\ VersionsOK' /\ FreshOK'
  BY <1>1, <1>2 DEF StreamInv, StreamTypes, Phases, VersionsOK, FreshOK, Reading
<1>8. WorkersOK'
  BY <1>1, <1>2, <1>3 DEF WorkersOK
<1> QED BY <1>1, <1>2, <1>4, <1>6, <1>7, <1>8, BuilderKept DEF StreamInv

-----------------------------------------------------------------------------

\* What a step of a thread never disturbs.
LEMMA ThreadFrame ==
    ASSUME StreamInv,
           UNCHANGED <<upstream, phase, attempt, version, began, next, total, worker, consume>>
    PROVE  /\ Reading' = Reading /\ VersionsOK' /\ WorkersOK' /\ Got' = Got
           /\ Auctions!Own' = Auctions!Own /\ \A p : Offered(p)' = Offered(p)
<1>1. Reading' = Reading /\ VersionsOK'
  BY DEF StreamInv, VersionsOK, Reading
<1>2. WorkersOK'
  BY DEF StreamInv, WorkersOK, WorkerOK, InHand, Auctions!HasLock, Auctions!Pages
<1>3. Got' = Got /\ Auctions!Own' = Auctions!Own /\ \A p : Offered(p)' = Offered(p)
  BY DEF Got, Missing, Auctions!Own, Auctions!Pages, Offered
<1> QED BY <1>1, <1>2, <1>3

\* A job goes on: its thread leaves the counter alone, and the index too unless it
\* stores an offer.
LEMMA JobMoves ==
    ASSUME Auctions!StreamAssumption, StreamInv, NEW j \in fold, NEW k,
           k \in JobType, k.page = j.page, k.attempt = j.attempt,
           k.step = "write" => k.offer \in Offers,
           fold' = (fold \ {j}) \cup {k},
           UNCHANGED <<upstream, phase, attempt, version, began, next, total, worker, consume, count>>,
           index' \in [ItemKeys -> Offers \cup {NoOffer}], mixed' \in BOOLEAN, mixed => mixed',
           j.attempt # attempt => mixed' \/ index' = index,
           Reading /\ j.attempt = attempt => JobOK(k)',
           Reading => IndexOK'
    PROVE  StreamInv'
<1>1. j \in JobType /\ j.attempt \in Nat /\ j.attempt <= attempt /\ attempt \in Nat
  BY DEF StreamInv, StreamTypes, JobType
<1>2. StreamTypes'
  <2>1. \A i \in fold' : /\ i \in JobType /\ i.attempt <= attempt
                         /\ i.step = "write" => i.offer \in Offers
    BY <1>1 DEF StreamInv, StreamTypes
  <2> QED BY <2>1 DEF StreamInv, StreamTypes
<1>3. /\ Reading' = Reading /\ VersionsOK' /\ WorkersOK' /\ Got' = Got
      /\ \A p : Offered(p)' = Offered(p)
  BY ThreadFrame
<1>4. FreshOK'
  <2>1. ASSUME phase = "first"
        PROVE  /\ \A i \in fold' : i.attempt < attempt
               /\ mixed' \/ (count = 0 /\ \A x \in ItemKeys : index'[x] = NoOffer)
    <3>1. /\ \A i \in fold : i.attempt < attempt
          /\ mixed \/ (count = 0 /\ \A x \in ItemKeys : index[x] = NoOffer)
      BY <2>1 DEF StreamInv, FreshOK
    <3>2. j.attempt # attempt
      BY <1>1, <3>1
    <3> QED BY <3>1, <3>2
  <2> QED BY <2>1 DEF FreshOK
<1>5. Ready' = Ready
  <2>1. \A p : Auctions!FoldsOf(p)' = {} <=> Auctions!FoldsOf(p) = {}
    BY DEF Auctions!FoldsOf
  <2> QED BY <1>3, <2>1 DEF Ready
<1>6. ASSUME Reading PROVE JobsOK' /\ SumsOK'
  <2>1. JobsOK /\ SumsOK
    BY <1>6 DEF StreamInv
  <2>2. ASSUME NEW i \in fold', i.attempt = attempt PROVE JobOK(i)'
    <3>1. CASE i = k
      BY <1>6, <2>2, <3>1
    <3>2. CASE i # k
      <4>1. i \in fold /\ i # j /\ JobOK(i)
        BY <2>1, <2>2, <3>2 DEF JobsOK
      <4>2. j.attempt # attempt
        BY <2>1, <2>2, <4>1 DEF JobsOK
      <4>3. mixed' \/ index' = index
        BY <4>2
      <4>4. j # i /\ (i.step = "write" => mixed' \/ Auctions!Cheaper(i.offer)')
        BY <4>1, <4>3 DEF JobOK, Auctions!Cheaper
      <4> QED BY <1>3, <4>1, <4>4 DEF JobOK
    <3> QED BY <3>1, <3>2
  <2>3. ASSUME NEW a \in fold', NEW b \in fold', a.attempt = attempt, b.attempt = attempt
        PROVE  a = b
    BY <2>1, <2>3 DEF JobsOK
  <2>4. JobsOK'
    BY <2>2, <2>3 DEF JobsOK
  <2>5. SumsOK'
    BY <1>3, <1>5, <2>1 DEF SumsOK
  <2> QED BY <2>4, <2>5
<1> QED BY <1>2, <1>3, <1>4, <1>6 DEF StreamInv

\* A step that stores nothing: an offer that is due stays so or has been met.
LEMMA JobReads ==
    ASSUME Auctions!StreamAssumption, StreamInv, NEW j \in fold, NEW k,
           k \in JobType, k.page = j.page, k.attempt = j.attempt,
           k.step = "write" => k.offer \in Offers,
           fold' = (fold \ {j}) \cup {k},
           UNCHANGED <<upstream, phase, attempt, version, began, next, total, worker, consume,
                       index, count, mixed>>,
           Reading /\ j.attempt = attempt => /\ JobOK(k)
                                             /\ \A o : Due(j, o) => Due(k, o) \/ Met(o)
    PROVE  StreamInv'
<1>1. index \in [ItemKeys -> Offers \cup {NoOffer}] /\ mixed \in BOOLEAN
  BY DEF StreamInv, StreamTypes
<1>2. /\ Reading' = Reading /\ Got' = Got
      /\ Auctions!Own' = Auctions!Own /\ \A p : Offered(p)' = Offered(p)
  BY ThreadFrame
<1>3. ASSUME Reading PROVE IndexOK'
  <2>1. ASSUME NEW p \in Got, NEW o \in Offered(p)
        PROVE  Met(o)' \/ \E i \in Auctions!FoldsOf(p)' : Due(i, o)
    <3>1. Met(o)' = Met(o)
      BY DEF Met
    <3>2. CASE Met(o)
      BY <3>1, <3>2
    <3>3. CASE ~Met(o)
      <4>1. PICK i \in Auctions!FoldsOf(p) : Due(i, o)
        BY <1>3, <2>1, <3>3 DEF StreamInv, IndexOK
      <4>2. CASE i = j
        <5>1. k \in Auctions!FoldsOf(p)' /\ Due(k, o)
          BY <1>3, <3>3, <4>1, <4>2 DEF Auctions!FoldsOf
        <5> QED BY <5>1
      <4>3. CASE i # j
        <5>1. i \in Auctions!FoldsOf(p)'
          BY <4>1, <4>3 DEF Auctions!FoldsOf
        <5> QED BY <4>1, <5>1
      <4> QED BY <4>2, <4>3
    <3> QED BY <3>2, <3>3
  <2>2. mixed' \/ \A i \in ItemKeys : index'[i] # NoOffer =>
                                        index'[i] \in Auctions!Own' /\ ItemOf[index'[i]] = i
    BY <1>2, <1>3 DEF StreamInv, IndexOK
  <2> QED BY <1>2, <2>1, <2>2 DEF IndexOK
<1>4. Reading /\ j.attempt = attempt => JobOK(k)'
  <2>1. Auctions!Cheaper(k.offer)' = Auctions!Cheaper(k.offer)
    BY DEF Auctions!Cheaper
  <2> QED BY <1>2, <2>1 DEF JobOK
<1> QED BY <1>1, <1>3, <1>4, JobMoves

\* The steps of a thread: a job of the attempt is what JobOK says of it.
LEMMA JobFacts ==
    ASSUME Auctions!StreamAssumption, StreamInv, NEW j \in fold
    PROVE  /\ j \in JobType /\ j.left \subseteq Offers /\ j.seen \in Nat /\ count \in Nat
           /\ attempt \in Nat
           /\ j.step = "write" => j.offer \in Offers
           /\ Reading /\ j.attempt = attempt => JobOK(j)
BY DEF StreamInv, StreamTypes, JobType, JobsOK

LEMMA PicksStep ==
    ASSUME Auctions!StreamAssumption, StreamInv, NEW j \in fold, Auctions!Picks(j) \/ Auctions!Opens(j)
    PROVE  StreamInv'
<1> PICK k : k = IF Auctions!Picks(j) THEN [j EXCEPT !.step = "picked"]
                 ELSE [j EXCEPT !.step = "fold", !.into = attempt]
  OBVIOUS
<1>1. j.step \in {"queued", "picked"} /\ fold' = (fold \ {j}) \cup {k}
      /\ UNCHANGED <<upstream, phase, attempt, version, began, next, total, worker, consume,
                     index, count, mixed>>
  BY DEF Auctions!Picks, Auctions!Opens, Auctions!Becomes, Auctions!stream
<1>2. /\ k \in JobType /\ k.page = j.page /\ k.attempt = j.attempt /\ k.left = j.left
      /\ k.step \in {"picked", "fold"} /\ (k.step = "fold" => k.into = attempt)
  BY JobFacts DEF JobType, JobSteps
<1>3. Reading /\ j.attempt = attempt => JobOK(k) /\ \A o : Due(j, o) => Due(k, o)
  BY <1>1, <1>2, JobFacts DEF JobOK, Due
<1> QED BY <1>1, <1>2, <1>3, JobReads

LEMMA ComparesStep ==
    ASSUME Auctions!StreamAssumption, StreamInv, NEW j \in fold, Auctions!Compares(j)
    PROVE  StreamInv'
<1>1. PICK o \in j.left :
         fold' = (fold \ {j}) \cup
                 {IF Auctions!Cheaper(o)
                  THEN [j EXCEPT !.left = @ \ {o}, !.offer = o, !.step = "write"]
                  ELSE [j EXCEPT !.left = @ \ {o}]}
  BY DEF Auctions!Compares, Auctions!Becomes
<1>2. /\ j.step = "fold" /\ j.into = attempt
      /\ UNCHANGED <<upstream, phase, attempt, version, began, next, total, worker, consume,
                     index, count, mixed>>
  BY DEF Auctions!Compares, Auctions!stream
<1>3. j \in JobType /\ o \in Offers
  BY JobFacts
<1>4. CASE Auctions!Cheaper(o)
  <2> PICK k : k = [j EXCEPT !.left = @ \ {o}, !.offer = o, !.step = "write"]
    OBVIOUS
  <2>1. /\ k \in JobType /\ k.page = j.page /\ k.attempt = j.attempt /\ k.into = j.into
        /\ k.left = j.left \ {o} /\ k.offer = o /\ k.step = "write"
    BY <1>3 DEF JobType, JobSteps
  <2>2. Reading /\ j.attempt = attempt => JobOK(k) /\ \A x : Due(j, x) => Due(k, x)
    BY <1>2, <1>4, <2>1, JobFacts DEF JobOK, Due
  <2>3. fold' = (fold \ {j}) \cup {k}
    BY <1>1, <1>4
  <2> QED BY <1>2, <1>3, <2>1, <2>2, <2>3, JobReads
<1>5. CASE ~Auctions!Cheaper(o)
  <2> PICK k : k = [j EXCEPT !.left = @ \ {o}]
    OBVIOUS
  <2>1. /\ k \in JobType /\ k.page = j.page /\ k.attempt = j.attempt /\ k.into = j.into
        /\ k.left = j.left \ {o} /\ k.step = "fold"
    BY <1>2, <1>3 DEF JobType, JobSteps
  <2>2. Met(o)
    <3>1. index[ItemOf[o]] # NoOffer /\ ~(PriceOf[o] < PriceOf[index[ItemOf[o]]])
      BY <1>5 DEF Auctions!Cheaper
    <3>2. index[ItemOf[o]] \in Offers /\ PriceOf[o] \in Nat
      BY <1>3, <3>1 DEF StreamInv, StreamTypes, Auctions!StreamAssumption
    <3>3. PriceOf[index[ItemOf[o]]] \in Nat
      BY <3>2 DEF Auctions!StreamAssumption
    <3> QED BY <3>1, <3>2, <3>3 DEF Met
  <2>3. Reading /\ j.attempt = attempt => JobOK(k) /\ \A x : Due(j, x) => Due(k, x) \/ Met(x)
    BY <1>2, <2>1, <2>2, JobFacts DEF JobOK, Due
  <2>4. fold' = (fold \ {j}) \cup {k}
    BY <1>1, <1>5
  <2> QED BY <1>2, <2>1, <2>3, <2>4, JobReads
<1> QED BY <1>4, <1>5

LEMMA ReadsCounterStep ==
    ASSUME Auctions!StreamAssumption, StreamInv, NEW j \in fold, Auctions!ReadsCounter(j)
    PROVE  StreamInv'
<1> PICK k : k = [j EXCEPT !.step = "add", !.left = {}, !.seen = count]
  OBVIOUS
<1>1. /\ j.step \in {"fold", "write"} /\ (j.into = attempt => j.step = "fold" /\ j.left = {})
      /\ fold' = (fold \ {j}) \cup {k}
      /\ UNCHANGED <<upstream, phase, attempt, version, began, next, total, worker, consume,
                     index, count, mixed>>
  BY DEF Auctions!ReadsCounter, Auctions!Becomes, Auctions!stream
<1>2. /\ k \in JobType /\ k.page = j.page /\ k.attempt = j.attempt /\ k.into = j.into
      /\ k.step = "add" /\ k.left = {} /\ k.seen = count
  BY JobFacts DEF JobType, JobSteps
<1>3. ASSUME Reading, j.attempt = attempt PROVE JobOK(k) /\ \A o : ~Due(j, o)
  <2>1. JobOK(j)
    BY <1>3, JobFacts
  <2>2. j.into = attempt /\ j.step = "fold" /\ j.left = {}
    BY <1>1, <2>1 DEF JobOK
  <2>3. JobOK(k)
    BY <1>2, <2>1, <2>2 DEF JobOK
  <2> QED BY <2>2, <2>3 DEF Due
<1> QED BY <1>1, <1>2, <1>3, JobReads

\* An offer is stored: by the attempt's fold because it is cheaper, which nobody
\* else has changed meanwhile; by a thread of an earlier attempt, whatever it is.
LEMMA SetsLowestStep ==
    ASSUME Auctions!StreamAssumption, StreamInv, NEW j \in fold, Auctions!SetsLowest(j)
    PROVE  StreamInv'
<1> PICK k : k = [j EXCEPT !.step = "fold"]
  OBVIOUS
<1> PICK a : a = j.offer
  OBVIOUS
<1>1. /\ j.step = "write" /\ j.into = attempt /\ fold' = (fold \ {j}) \cup {k}
      /\ index' = [index EXCEPT ![ItemOf[a]] = a]
      /\ mixed' = (mixed \/ j.attempt # attempt)
      /\ UNCHANGED <<upstream, phase, attempt, version, began, next, total, worker, consume, count>>
  BY DEF Auctions!SetsLowest, Auctions!Becomes, Auctions!stream
<1>2. /\ k \in JobType /\ k.page = j.page /\ k.attempt = j.attempt /\ k.into = j.into
      /\ k.step = "fold" /\ k.left = j.left
  BY JobFacts DEF JobType, JobSteps
<1>3. /\ a \in Offers /\ ItemOf[a] \in ItemKeys /\ PriceOf[a] \in Nat /\ a # NoOffer
      /\ index \in [ItemKeys -> Offers \cup {NoOffer}] /\ mixed \in BOOLEAN
      /\ \A o \in Offers : ItemOf[o] \in ItemKeys /\ PriceOf[o] \in Nat
  BY <1>1, JobFacts DEF StreamInv, StreamTypes, Auctions!StreamAssumption
<1>4. /\ index' \in [ItemKeys -> Offers \cup {NoOffer}]
      /\ index'[ItemOf[a]] = a /\ \A i \in ItemKeys \ {ItemOf[a]} : index'[i] = index[i]
  BY <1>1, <1>3
<1>5. /\ Reading' = Reading /\ Got' = Got
      /\ Auctions!Own' = Auctions!Own /\ \A p : Offered(p)' = Offered(p)
  BY <1>1, ThreadFrame
<1>6. ASSUME Reading, j.attempt = attempt PROVE JobOK(k)'
  <2>1. JobOK(j)
    BY <1>6, JobFacts
  <2>2. /\ j.page \in Got /\ j.left \subseteq Offered(j.page) /\ j.into = attempt
        /\ phase # "done" /\ (phase = "first fold" => j.page = 0)
        /\ phase = "pages" =>
              \E w \in PageWorkers : worker[w].step = "fold" /\ worker[w].page = j.page
    BY <1>1, <2>1 DEF JobOK
  <2>3. UNCHANGED <<phase, attempt, worker>>
    BY <1>1
  <2>4. k.page \in Got'
    <3>1. k.page = j.page
      BY <1>2
    <3>2. Got' = Got
      BY <1>5
    <3>3. j.page \in Got
      BY <2>2
    <3>4. k.page \in Got
      BY <3>1, <3>3, Zenon
    <3> QED BY <3>2, <3>4, Zenon
  <2>5. k.left \subseteq Offered(k.page)'
    <3>1. Offered(k.page)' = Offered(k.page)
      BY <1>5, Zenon
    <3>2. k.left \subseteq Offered(k.page)
      BY <1>2, <2>2
    <3> QED BY <3>1, <3>2, Zenon
  <2> QED BY <1>2, <2>2, <2>3, <2>4, <2>5 DEF JobOK
<1>7. ASSUME Reading PROVE IndexOK'
  \* The fold of the attempt has compared with what is still there.
  <2>1. ~mixed' => JobOK(j) /\ Auctions!Cheaper(a) /\ ~mixed /\ j.attempt = attempt
    BY <1>1, <1>7, JobFacts DEF JobOK
  <2>2. ASSUME NEW o \in Offers, Met(o) PROVE Met(o)'
    <3>1. CASE ItemOf[o] # ItemOf[a]
      BY <1>1, <1>3, <1>4, <2>2, <3>1 DEF Met
    <3>2. CASE ItemOf[o] = ItemOf[a] /\ mixed'
      BY <1>3, <1>4, <3>2 DEF Met
    <3>3. CASE ItemOf[o] = ItemOf[a] /\ ~mixed'
      <4>1. /\ index[ItemOf[o]] # NoOffer /\ PriceOf[index[ItemOf[o]]] <= PriceOf[o]
            /\ PriceOf[a] < PriceOf[index[ItemOf[o]]]
        BY <2>1, <2>2, <3>3 DEF Met, Auctions!Cheaper
      <4>2. index[ItemOf[o]] \in Offers
        BY <1>3, <4>1
      <4>3. PriceOf[index[ItemOf[o]]] \in Nat /\ PriceOf[o] \in Nat
        BY <1>3, <4>2
      <4>4. PriceOf[a] <= PriceOf[o]
        BY <1>3, <4>1, <4>3
      <4> QED BY <1>3, <1>4, <3>3, <4>4 DEF Met
    <3> QED BY <3>1, <3>2, <3>3
  <2>3. Met(a)'
    BY <1>3, <1>4 DEF Met
  <2>4. ASSUME NEW p \in Got, NEW o \in Offered(p)
        PROVE  Met(o)' \/ \E i \in Auctions!FoldsOf(p)' : Due(i, o)
    <3>1. o \in Offers
      BY <1>7, ReadingFacts
    <3>2. CASE Met(o)
      BY <2>2, <3>1, <3>2
    <3>3. CASE ~Met(o)
      <4>1. PICK i \in Auctions!FoldsOf(p) : Due(i, o)
        BY <1>7, <3>3 DEF StreamInv, IndexOK
      <4>2. CASE i # j
        <5>1. i \in Auctions!FoldsOf(p)'
          BY <1>1, <4>1, <4>2 DEF Auctions!FoldsOf
        <5> QED BY <4>1, <5>1
      <4>3. CASE i = j /\ o = a
        BY <2>3, <4>3
      <4>4. CASE i = j /\ o # a
        <5>1. k \in Auctions!FoldsOf(p)' /\ Due(k, o)
          BY <1>1, <1>2, <4>1, <4>4 DEF Auctions!FoldsOf, Due
        <5> QED BY <5>1
      <4> QED BY <4>2, <4>3, <4>4
    <3> QED BY <3>2, <3>3
  <2>5. ASSUME ~mixed', NEW i \in ItemKeys, index'[i] # NoOffer
        PROVE  index'[i] \in Auctions!Own /\ ItemOf[index'[i]] = i
    <3>1. CASE i = ItemOf[a]
      <4>1. a \in Offered(j.page) /\ j.page \in Got
        BY <1>1, <2>1, <2>5 DEF JobOK
      <4> QED BY <1>4, <1>7, <3>1, <4>1, ReadingFacts
    <3>2. CASE i # ItemOf[a]
      BY <1>4, <1>7, <2>1, <2>5, <3>2 DEF StreamInv, IndexOK
    <3> QED BY <3>1, <3>2
  <2> QED BY <1>5, <2>4, <2>5 DEF IndexOK
<1>8. mixed' \in BOOLEAN /\ (mixed => mixed') /\ (j.attempt # attempt => mixed')
  BY <1>1, <1>3
<1> QED BY <1>1, <1>2, <1>4, <1>6, <1>7, <1>8, JobMoves

\* A page is counted, and its job is over.
LEMMA CountsStep ==
    ASSUME Auctions!StreamAssumption, StreamInv, NEW j \in fold, Auctions!Counts(j)
    PROVE  StreamInv'
<1>1. /\ j.step = "add" /\ fold' = fold \ {j} /\ count' = j.seen + 1
      /\ mixed' = (mixed \/ j.attempt # attempt)
      /\ UNCHANGED <<upstream, phase, attempt, version, began, next, total, worker, consume, index>>
  BY DEF Auctions!Counts, Auctions!stream
<1>2. /\ j \in JobType /\ j.seen \in Nat /\ count \in Nat /\ attempt \in Nat /\ mixed \in BOOLEAN
      /\ j.attempt <= attempt /\ j.attempt \in Nat
  BY JobFacts DEF StreamInv, StreamTypes, JobType
<1>3. StreamTypes'
  <2>1. count' \in Nat /\ mixed' \in BOOLEAN
    BY <1>1, <1>2
  <2> QED BY <1>1, <2>1 DEF StreamInv, StreamTypes
<1>4. /\ Reading' = Reading /\ VersionsOK' /\ WorkersOK' /\ Got' = Got
      /\ Auctions!Own' = Auctions!Own /\ \A p : Offered(p)' = Offered(p)
  BY <1>1, ThreadFrame
<1>5. FreshOK'
  <2>1. phase = "first" => j.attempt < attempt /\ \A i \in fold' : i.attempt < attempt
    BY <1>1 DEF StreamInv, FreshOK
  <2>2. phase = "first" => j.attempt # attempt
    BY <1>2, <2>1
  <2>3. phase = "first" => mixed'
    BY <1>1, <2>2, Zenon
  <2> QED BY <1>1, <2>1, <2>3 DEF FreshOK
<1>6. ASSUME Reading PROVE JobsOK' /\ IndexOK' /\ SumsOK'
  <2>1. JobsOK /\ IndexOK /\ SumsOK
    BY <1>6 DEF StreamInv
  <2>2. JobsOK'
    <3>1. ASSUME NEW i \in fold', i.attempt = attempt PROVE JobOK(i)'
      <4>1. i \in fold /\ i # j /\ JobOK(i)
        BY <1>1, <2>1, <3>1 DEF JobsOK
      <4>2. j.attempt # attempt
        BY <2>1, <3>1, <4>1 DEF JobsOK
      <4>3. mixed'
        BY <1>1, <4>2
      <4> QED BY <1>1, <1>4, <4>1, <4>3 DEF JobOK
    <3> QED BY <1>1, <2>1, <3>1 DEF JobsOK
  <2>3. \A p, o : \A i \in Auctions!FoldsOf(p) : Due(i, o) => i \in Auctions!FoldsOf(p)'
    <3>1. j.attempt = attempt => JobOK(j)
      BY <2>1 DEF JobsOK
    <3>2. ASSUME j.attempt = attempt, NEW o PROVE ~Due(j, o)
      BY <1>1, <3>1, <3>2 DEF JobOK, Due
    <3> QED BY <1>1, <3>2 DEF Auctions!FoldsOf
  <2>4. \A o : Met(o) => Met(o)'
    BY <1>1 DEF Met
  <2>5. IndexOK'
    <3>1. \A p \in Got : \A o \in Offered(p) : Met(o)' \/ \E i \in Auctions!FoldsOf(p)' : Due(i, o)
      BY <2>1, <2>3, <2>4 DEF IndexOK
    <3>2. mixed' \/ \A i \in ItemKeys : index'[i] # NoOffer =>
                                          index'[i] \in Auctions!Own' /\ ItemOf[index'[i]] = i
      BY <1>1, <1>4, <2>1 DEF IndexOK
    <3> QED BY <1>4, <3>1, <3>2 DEF IndexOK
  <2>6. SumsOK'
    <3>1. CASE mixed'
      BY <1>1, <1>4, <2>1, <3>1 DEF SumsOK
    <3>2. CASE ~mixed'
      <4>1. j.attempt = attempt /\ ~mixed
        BY <1>1, <3>2
      <4>2. JobOK(j) /\ \A i \in fold : i.attempt = attempt => i = j
        BY <2>1, <4>1 DEF JobsOK
      <4>3. j.page \in Got /\ j.seen = count
        BY <1>1, <4>1, <4>2 DEF JobOK
      <4>4. \A p : Auctions!FoldsOf(p)' = {}
        BY <1>1, <4>2 DEF Auctions!FoldsOf
      <4>5. j \in Auctions!FoldsOf(j.page) /\ \A p : p # j.page => Auctions!FoldsOf(p) = {}
        BY <4>1, <4>2 DEF Auctions!FoldsOf
      <4>6. Ready' = Ready \cup {j.page} /\ j.page \notin Ready
        BY <1>4, <4>3, <4>4, <4>5 DEF Ready
      <4>7. Cardinality(Ready \cup {j.page}) = Cardinality(Ready) + 1
        BY <1>6, <4>6, GotFinite, FS_AddElement
      <4> QED BY <1>1, <1>4, <2>1, <4>1, <4>3, <4>6, <4>7 DEF SumsOK
    <3> QED BY <3>1, <3>2
  <2> QED BY <2>2, <2>5, <2>6
<1> QED BY <1>3, <1>4, <1>5, <1>6 DEF StreamInv

LEMMA ThreadStep ==
    ASSUME Auctions!StreamAssumption, StreamInv, Auctions!Thread
    PROVE  StreamInv'
BY PicksStep, ComparesStep, SetsLowestStep, ReadsCounterStep, CountsStep DEF Auctions!Thread

-----------------------------------------------------------------------------

\* The invariant holds at the start and after every step.
LEMMA StreamInit ==
    ASSUME Auctions!StreamAssumption, Auctions!Init
    PROVE  StreamInv
<1>1. 1 \in Auctions!Versions
  <2>1. Len(HouseAt) \in Nat /\ Len(HouseAt) # 0
    BY DEF Auctions!StreamAssumption
  <2>2. Len(HouseAt) >= 1
    BY <2>1
  <2> QED BY <2>2, VersionFacts
<1>2. Auctions!Idle \in WorkerType /\ <<>> \in Seq(PageWorkers)
  BY DEF Auctions!Idle, WorkerType, WorkerSteps
<1>3. StreamTypes
  BY <1>1, <1>2 DEF Auctions!Init, StreamTypes, Phases
<1> QED BY <1>3 DEF Auctions!Init, StreamInv, VersionsOK, FreshOK, WorkersOK, Reading

LEMMA StreamNext ==
    ASSUME Auctions!StreamAssumption, StreamInv, [Auctions!Next]_Auctions!vars
    PROVE  StreamInv'
<1>1. CASE Auctions!Attempt
  BY <1>1, BeginStep, FirstArrivesStep, FirstFoldedStep, FirstFailsStep,
     CompleteStep DEF Auctions!Attempt
<1>2. ASSUME NEW w \in PageWorkers, Auctions!Work(w) PROVE StreamInv'
  BY <1>2, TakeStep, PageArrivesStep, PageFailsStep, ConsumeStep, FoldedStep, StopStep DEF Auctions!Work
<1>3. CASE Auctions!Thread
  BY <1>3, ThreadStep
<1>4. CASE Auctions!Publish
  BY <1>4, PublishStep
<1>5. CASE UNCHANGED Auctions!vars
  <2>1. UNCHANGED <<upstream, phase, attempt, version, began, next, total, worker, consume,
                    fold, index, count, mixed>>
    BY <1>5 DEF Auctions!vars, Auctions!stream, Auctions!builder
  <2>2. /\ Reading' = Reading /\ VersionsOK' /\ WorkersOK' /\ Got' = Got
        /\ \A p : Offered(p)' = Offered(p)
    BY <2>1, ThreadFrame
  <2>3. StreamTypes' /\ FreshOK'
    BY <2>1 DEF StreamInv, StreamTypes, FreshOK
  <2>4. Reading => JobsOK'
    BY <2>1, <2>2 DEF StreamInv, JobsOK, JobOK, Auctions!Cheaper
  <2> QED BY <2>1, <2>2, <2>3, <2>4, BuilderKept DEF StreamInv
<1> QED BY <1>1, <1>2, <1>3, <1>4, <1>5 DEF Auctions!Next

\* With no page missing and no fold of the attempt left, all pages are in.
LEMMA DoneIsComplete ==
    ASSUME Auctions!StreamAssumption, StreamInv
    PROVE  Auctions!SnapshotComplete
<1> SUFFICES ASSUME phase = "done"
             PROVE  /\ total = Auctions!Pages
                    /\ version \in began..upstream
                    /\ \A o \in Auctions!Own : index[ItemOf[o]] # NoOffer
                    /\ mixed \/ Auctions!Exact
  BY DEF Auctions!SnapshotComplete
<1>1. Reading /\ JobsOK /\ IndexOK /\ SumsOK
  BY DEF StreamInv, Reading
<1>2. /\ version \in Nat /\ began \in Nat /\ upstream \in Nat
      /\ began <= version /\ version <= upstream /\ Auctions!Pages \in Nat
  BY <1>1, ReadingFacts
<1>3. Got = 0..Auctions!Pages - 1 /\ \A p : Auctions!FoldsOf(p) = {}
  BY <1>1 DEF Got, Auctions!FoldsOf, JobsOK, JobOK
<1>4. Ready = Got
  BY <1>3 DEF Ready
<1>5. \A o \in Auctions!Own : Met(o)
  <2>1. ASSUME NEW o \in Auctions!Own PROVE Met(o)
    <3>1. PICK p \in 0..Auctions!Pages - 1 : o \in Offered(p)
      BY DEF Auctions!Own, Offered
    <3> QED BY <1>1, <1>3, <3>1 DEF IndexOK
  <2> QED BY <2>1
<1>6. Cardinality(Got) = Auctions!Pages
  <2>1. 0 \in Int /\ Auctions!Pages - 1 \in Int /\ Auctions!Pages - 1 - 0 + 1 = Auctions!Pages
        /\ (0 > Auctions!Pages - 1 => Auctions!Pages = 0)
    BY <1>2
  <2>2. \A a, b \in Int : Cardinality(a..b) = IF a > b THEN 0 ELSE b - a + 1
    BY FS_Interval
  <2> QED BY <1>3, <2>1, <2>2
<1>7. total = Auctions!Pages /\ (mixed \/ count = Auctions!Pages)
  BY <1>1, <1>4, <1>6 DEF SumsOK
<1>8. mixed \/ Auctions!Exact
  <2>1. mixed \/ \A o \in Auctions!Own : PriceOf[index[ItemOf[o]]] <= PriceOf[o]
    BY <1>5 DEF Met
  <2> QED BY <1>1, <1>7, <2>1 DEF Auctions!Exact, IndexOK
<1>9. \A o \in Auctions!Own : index[ItemOf[o]] # NoOffer
  BY <1>5 DEF Met
<1> QED BY <1>2, <1>7, <1>8, <1>9

\* What the invariants promise, of the component by itself.
LEMMA SnapshotsComplete ==
    ASSUME Auctions!StreamAssumption
    PROVE  Auctions!Spec => []Auctions!SnapshotComplete
<1>1. Auctions!Init => StreamInv
  BY StreamInit
<1>2. StreamInv /\ [Auctions!Next]_Auctions!vars => StreamInv'
  BY StreamNext
<1>3. StreamInv => Auctions!SnapshotComplete
  BY DoneIsComplete
<1> QED BY <1>1, <1>2, <1>3, PTL DEF Auctions!Spec

-----------------------------------------------------------------------------
(***************************************************************************)
(* Backups and restores (Backups).  An archive is complete because the     *)
(* tables are read before the directories are copied: BackupInv follows    *)
(* what the rows already in it still need until the copy has it.  Rows     *)
(* keep their files because a restore is alone under the operation lock,   *)
(* and has in its archive what it has not yet moved.                       *)
(***************************************************************************)

UserSteps == {"new", "filed", "failed", "inserted", "stored", "erased", "gone"}
ReplaceSteps == {"remove", "remove bundles", "move", "move bundles"}
LockSteps == {"more tables", "copy", "copy bundles", "pack", "packing", "replace"} \cup ReplaceSteps
BackupSteps == {"lock", "more tables", "copy", "copy bundles", "pack", "packing", "send", "delete"}
OpSteps == {"idle", "lock", "send", "delete", "restore"} \cup LockSteps
ArchiveType ==
    [rows : SUBSET Archives!Items, entries : SUBSET Archives!Items, files : SUBSET Archives!Items,
     excused : SUBSET Archives!Items, whole : BOOLEAN]
OpType == [step : OpSteps, archive : ArchiveType, name : Seconds \cup {0}]

BackupTypes ==
    /\ engine \in {"sqlite", "mariadb"}
    /\ records \in SUBSET Archives!Items /\ entries \in SUBSET Archives!Items
       /\ files \in SUBSET Archives!Items /\ broken \in SUBSET Archives!Items
    /\ user \in [Archives!Items -> UserSteps]
    /\ disk \in [Seconds -> ArchiveType] /\ kept \in SUBSET ArchiveType
    /\ job \in [Admins -> OpType]

\* What a complete archive promises.
Good(ar) ==
    ar.whole => /\ ar.rows \ ar.files \subseteq ar.excused
                /\ engine = "mariadb" => ar.entries \subseteq ar.rows

\* An archive that is built, step by step.
BuiltOK(r) ==
    /\ r.step \in BackupSteps => r.name \in Seconds
    /\ r.step \in {"more tables", "copy", "copy bundles"} =>
          ~r.archive.whole /\ (engine = "mariadb" => r.archive.entries \subseteq r.archive.rows)
    /\ r.step = "copy bundles"
       => r.archive.rows \cap Archives!In("uploads") \subseteq r.archive.files \cup r.archive.excused

ArchivesOK ==
    /\ \A ar \in kept : Good(ar)
    /\ \A s \in Seconds : Good(disk[s])
    /\ \A a \in Admins : Good(job[a].archive) /\ BuiltOK(job[a])

\* From its start to its end a restore or the building of an archive excludes
\* the others of the process.
LockOK == \A a \in Admins : job[a].step \in LockSteps => lock = a

\* Outside a restore every row has its file, and so will those being uploaded.
StoreOK ==
    ~Archives!Swapping => /\ records \subseteq files \cup broken
                          /\ \A i \in Archives!Items : user[i] = "filed" => i \in files \cup broken
                          /\ \A i \in Archives!Items : user[i] = "erased" => i \in broken
                             \/ i \notin records
EntriesOK == engine = "mariadb" => entries \subseteq records

\* Within one they have it in the archive, and then in the directories.
RestoreOK(a) ==
    /\ job[a].step \in {"replace"} \cup ReplaceSteps => job[a].archive.whole
    /\ Archives!Replacing(a) => /\ records \subseteq job[a].archive.files \cup broken
                                /\ \A i \in Archives!Items : user[i] \in {"filed", "erased"}
                                   => i \in broken
    /\ job[a].step = "move bundles" => records \cap Archives!In("uploads") \subseteq files \cup broken

BackupInv ==
    /\ BackupTypes /\ ArchivesOK /\ LockOK /\ StoreOK /\ EntriesOK
    /\ \A a \in Admins : RestoreOK(a)

-----------------------------------------------------------------------------

LEMMA TheDirectories == Archives!In("uploads") \cup Archives!In("bundles") = Archives!Items
BY DEF Archives!In, Archives!DirOf

\* One restore at a time, and none beside the building of an archive.
LEMMA OneAtATime ==
    ASSUME BackupInv, Archives!BackupAssumption
    PROVE  /\ \A a, b \in Admins : job[a].step \in LockSteps /\ Archives!Replacing(b) => a = b
           /\ lock = Nobody => ~Archives!Swapping
           /\ \A a \in Admins : lock = a /\ ~Archives!Replacing(a) => ~Archives!Swapping
BY DEF BackupInv, LockOK, Archives!Swapping, Archives!Replacing, LockSteps, ReplaceSteps,
   Archives!BackupAssumption

\* What a step of a contributor leaves as it is.
LEMMA ContributorMoves ==
    ASSUME BackupInv, NEW i \in Archives!Items, UNCHANGED <<engine, disk, kept, lock, job>>,
           Archives!Touched(i),
           records' \in SUBSET Archives!Items, entries' \in SUBSET Archives!Items,
           files' \in SUBSET Archives!Items,
           user' \in [Archives!Items -> UserSteps],
           \A j \in Archives!Items \ {i} : user'[j] = user[j] /\ (j \in records' <=> j \in records)
           /\ (j \in files <=> j \in files'),
           ~Archives!Swapping => /\ i \in records' => i \in files' \cup broken
                                 /\ user'[i] = "filed" => i \in files' \cup broken
                                 /\ user'[i] = "erased" => i \in broken \/ i \notin records',
           engine = "mariadb" => entries' \subseteq records'
    PROVE  BackupInv'
<1>1. Archives!Swapping' = Archives!Swapping
      /\ \A a \in Admins : Archives!Replacing(a)' = Archives!Replacing(a)
  BY DEF Archives!Swapping, Archives!Replacing
<1>2. broken \subseteq broken' /\ broken' \in SUBSET Archives!Items
      /\ (Archives!Swapping => i \in broken') /\ (~Archives!Swapping => broken' = broken)
  BY DEF Archives!Touched, BackupInv, BackupTypes
<1>3. BackupTypes'
  BY <1>2 DEF BackupInv, BackupTypes
<1>4. ArchivesOK' /\ LockOK' /\ EntriesOK'
  BY DEF BackupInv, ArchivesOK, LockOK, EntriesOK, Good, BuiltOK
<1>5. StoreOK'
  <2> SUFFICES ASSUME ~Archives!Swapping, NEW j \in Archives!Items
               PROVE  /\ j \in records' => j \in files' \cup broken'
                      /\ user'[j] = "filed" => j \in files' \cup broken'
                      /\ user'[j] = "erased" => j \in broken' \/ j \notin records'
    BY <1>1 DEF StoreOK
  <2>1. CASE j = i
    BY <1>2, <2>1
  <2>2. CASE j # i
    BY <1>2, <2>2 DEF BackupInv, StoreOK
  <2> QED BY <2>1, <2>2
<1>6. ASSUME NEW a \in Admins PROVE RestoreOK(a)'
  <2>1. RestoreOK(a)
    BY DEF BackupInv
  <2>2. job[a].step \in {"replace"} \cup ReplaceSteps => job[a].archive.whole
    BY <2>1 DEF RestoreOK
  <2>3. ASSUME Archives!Replacing(a) PROVE i \in broken' /\ broken \subseteq broken'
    BY <1>2, <2>3 DEF Archives!Swapping
  <2>4. ASSUME Archives!Replacing(a)
        PROVE  /\ records' \subseteq job[a].archive.files \cup broken'
               /\ \A j \in Archives!Items : user'[j] \in {"filed", "erased"} => j \in broken'
    <3>1. \A j \in Archives!Items : j \in records' => j \in job[a].archive.files \cup broken'
      BY <2>1, <2>3, <2>4 DEF RestoreOK
    <3>2. \A j \in Archives!Items : user'[j] \in {"filed", "erased"} => j \in broken'
      BY <2>1, <2>3, <2>4 DEF RestoreOK
    <3> QED BY <3>1, <3>2
  <2>5. ASSUME job[a].step = "move bundles"
        PROVE  records' \cap Archives!In("uploads") \subseteq files' \cup broken'
    <3>1. Archives!Replacing(a)
      BY <2>5 DEF Archives!Replacing
    <3>2. \A j \in Archives!Items : j \in records' /\ j \in Archives!In("uploads")
          => j \in files' \cup broken'
      BY <2>1, <2>3, <2>5, <3>1 DEF RestoreOK
    <3> QED BY <3>2
  <2> QED BY <1>1, <2>2, <2>4, <2>5 DEF RestoreOK
<1> QED BY <1>3, <1>4, <1>5, <1>6 DEF BackupInv

\* The steps of a contributor: each touches one item.
LEMMA ContributeStep ==
    ASSUME BackupInv, NEW i \in Archives!Items, Archives!Contribute(i)
    PROVE  BackupInv'
<1>1. /\ user \in [Archives!Items -> UserSteps] /\ records \in SUBSET Archives!Items
         /\ entries \in SUBSET Archives!Items /\ files \in SUBSET Archives!Items
      /\ EntriesOK
      /\ ~Archives!Swapping => /\ records \subseteq files \cup broken
                               /\ user[i] = "filed" => i \in files \cup broken
                               /\ user[i] = "erased" => i \in broken \/ i \notin records
  BY DEF BackupInv, BackupTypes, StoreOK
<1>2. CASE Archives!WriteFile(i)
  <2>1. /\ user[i] = "new" /\ Archives!Touched(i)
           /\ UNCHANGED <<engine, records, entries, disk, kept, lock, job>>
        /\ \/ files' = files \cup {i} /\ user' = [user EXCEPT ![i] = "filed"]
           \/ files' = files /\ user' = [user EXCEPT ![i] = "failed"]
    BY <1>2 DEF Archives!WriteFile
  <2>2. /\ user' \in [Archives!Items -> UserSteps] /\ \A j \in Archives!Items \ {i} : user'[j] = user[j]
        /\ (user'[i] = "filed" /\ i \in files') \/ (user'[i] = "failed" /\ files' = files)
    <3>1. CASE files' = files \cup {i} /\ user' = [user EXCEPT ![i] = "filed"]
      BY <1>1, <3>1 DEF UserSteps
    <3>2. CASE files' = files /\ user' = [user EXCEPT ![i] = "failed"]
      BY <1>1, <3>2 DEF UserSteps
    <3> QED BY <2>1, <3>1, <3>2
  <2>3. files' \in SUBSET Archives!Items /\ files \subseteq files'
        /\ \A j \in Archives!Items \ {i} : j \in files <=> j \in files'
    BY <1>1, <2>1
  <2> QED BY <1>1, <2>1, <2>2, <2>3, ContributorMoves DEF EntriesOK
<1>3. CASE Archives!InsertRow(i)
  <2>1. /\ user[i] = "filed" /\ Archives!Touched(i)
           /\ UNCHANGED <<engine, entries, files, disk, kept, lock, job>>
        /\ records' = records \cup {i}
           /\ user' = [user EXCEPT ![i] = IF i \in Uploads THEN "inserted" ELSE "stored"]
    BY <1>3 DEF Archives!InsertRow
  <2>2. /\ user' \in [Archives!Items -> UserSteps] /\ \A j \in Archives!Items \ {i} : user'[j] = user[j]
        /\ user'[i] \in {"inserted", "stored"}
    BY <1>1, <2>1 DEF UserSteps
  <2> QED BY <1>1, <2>1, <2>2, ContributorMoves DEF EntriesOK
<1>4. CASE Archives!Ingest(i)
  <2>1. /\ user[i] = "inserted" /\ Archives!Touched(i)
           /\ UNCHANGED <<engine, records, files, disk, kept, lock, job>>
        /\ entries' = (IF engine = "mariadb" /\ i \notin records THEN entries ELSE entries \cup {i})
        /\ user' = [user EXCEPT ![i] = "stored"]
    BY <1>4 DEF Archives!Ingest
  <2>2. /\ user' \in [Archives!Items -> UserSteps] /\ \A j \in Archives!Items \ {i} : user'[j] = user[j]
        /\ user'[i] = "stored"
    BY <1>1, <2>1 DEF UserSteps
  <2>3. entries' \in SUBSET Archives!Items /\ (engine = "mariadb" => entries' \subseteq records)
    BY <1>1, <2>1 DEF EntriesOK
  <2> QED BY <1>1, <2>1, <2>2, <2>3, ContributorMoves
<1>5. CASE Archives!Erase(i)
  <2>1. /\ user[i] = "stored" /\ Archives!Touched(i)
           /\ UNCHANGED <<engine, files, disk, kept, lock, job>>
        /\ records' = records \ {i} /\ entries' = entries \ {i} /\ user' = [user EXCEPT ![i] = "erased"]
    BY <1>5 DEF Archives!Erase
  <2>2. /\ user' \in [Archives!Items -> UserSteps] /\ \A j \in Archives!Items \ {i} : user'[j] = user[j]
        /\ user'[i] = "erased"
    BY <1>1, <2>1 DEF UserSteps
  <2>3. engine = "mariadb" => entries' \subseteq records'
    BY <1>1, <2>1 DEF EntriesOK
  <2> QED BY <1>1, <2>1, <2>2, <2>3, ContributorMoves
<1>6. CASE Archives!Unlink(i)
  <2>1. /\ user[i] = "erased" /\ Archives!Touched(i)
           /\ UNCHANGED <<engine, records, entries, disk, kept, lock, job>>
        /\ files' = files \ {i} /\ user' = [user EXCEPT ![i] = "gone"]
    BY <1>6 DEF Archives!Unlink
  <2>2. /\ user' \in [Archives!Items -> UserSteps] /\ \A j \in Archives!Items \ {i} : user'[j] = user[j]
        /\ user'[i] = "gone"
    BY <1>1, <2>1 DEF UserSteps
  <2> QED BY <1>1, <2>1, <2>2, ContributorMoves DEF EntriesOK
<1> QED BY <1>2, <1>3, <1>4, <1>5, <1>6 DEF Archives!Contribute

-----------------------------------------------------------------------------

Becomes(a, r) ==
    job' \in [Admins -> OpType] /\ job'[a] = r /\ \A b \in Admins \ {a} : job'[b] = job[b]

\* What a step of an administrator leaves as it is, outside a replacement.
LEMMA AdminMoves ==
    ASSUME BackupInv, Archives!BackupAssumption, NEW a \in Admins, NEW r \in OpType,
           UNCHANGED <<engine, records, entries, files, user, broken>>,
           Becomes(a, r),
           ~Archives!Replacing(a), r.step \notin ReplaceSteps,
           r.step \in LockSteps => lock' = a,
           lock' = lock \/ lock \in {a, Nobody},
           Good(r.archive), BuiltOK(r), r.step = "replace" => r.archive.whole,
           disk' \in [Seconds -> ArchiveType], \A s \in Seconds : Good(disk'[s]),
           kept' \in SUBSET ArchiveType, \A ar \in kept' : Good(ar)
    PROVE  BackupInv'
<1>1. job' \in [Admins -> OpType] /\ job'[a] = r /\ \A b \in Admins \ {a} : job'[b] = job[b]
  BY DEF Becomes
<1>2. BackupTypes'
  BY <1>1 DEF BackupInv, BackupTypes
<1>3. \A ar : Good(ar)' = Good(ar)
  BY DEF Good
<1>4. \A x : BuiltOK(x)' = BuiltOK(x)
  BY DEF BuiltOK
<1>5. ArchivesOK'
  <2>1. \A b \in Admins : Good(job'[b].archive) /\ BuiltOK(job'[b])
    BY <1>1 DEF BackupInv, ArchivesOK
  <2>2. \A b \in Admins : (Good(job[b].archive) /\ BuiltOK(job[b]))'
    BY <2>1 DEF Good, BuiltOK
  <2>3. \A ar \in kept' : Good(ar)'
    BY <1>3
  <2>4. \A s \in Seconds : Good(disk[s])'
    BY DEF Good
  <2> QED BY <2>2, <2>3, <2>4 DEF ArchivesOK
<1>6. LockOK'
  <2> SUFFICES ASSUME NEW b \in Admins, job'[b].step \in LockSteps PROVE lock' = b
    BY DEF LockOK
  <2>1. CASE b = a
    BY <1>1, <2>1
  <2>2. CASE b # a
    <3>1. lock = b
      BY <1>1, <2>2 DEF BackupInv, LockOK
    <3> QED BY <2>2, <3>1 DEF Archives!BackupAssumption
  <2> QED BY <2>1, <2>2
<1>7. \A b \in Admins : Archives!Replacing(b)' <=> Archives!Replacing(b)
  <2>1. ~Archives!Replacing(a)'
    BY <1>1 DEF Archives!Replacing, ReplaceSteps
  <2>2. \A b \in Admins \ {a} : Archives!Replacing(b)' <=> Archives!Replacing(b)
    BY <1>1 DEF Archives!Replacing
  <2> QED BY <2>1, <2>2
<1>8. StoreOK' /\ EntriesOK'
  BY <1>7 DEF BackupInv, StoreOK, EntriesOK, Archives!Swapping
<1>9. ASSUME NEW b \in Admins PROVE RestoreOK(b)'
  <2>1. CASE b = a
    BY <1>1, <1>7, <2>1 DEF RestoreOK, ReplaceSteps
  <2>2. CASE b # a
    BY <1>1, <1>7, <2>2 DEF BackupInv, RestoreOK
  <2> QED BY <2>1, <2>2
<1> QED BY <1>2, <1>5, <1>6, <1>8, <1>9 DEF BackupInv

\* A step that touches neither the archives on disk nor those downloaded.
LEMMA OpMoves ==
    ASSUME BackupInv, Archives!BackupAssumption, NEW a \in Admins, NEW r \in OpType,
           UNCHANGED <<engine, records, entries, files, user, broken, disk, kept>>,
           Becomes(a, r),
           ~Archives!Replacing(a), r.step \notin ReplaceSteps,
           r.step \in LockSteps => lock' = a,
           lock' = lock \/ lock \in {a, Nobody},
           Good(r.archive), BuiltOK(r), r.step = "replace" => r.archive.whole
    PROVE  BackupInv'
<1>1. /\ disk' \in [Seconds -> ArchiveType] /\ \A s \in Seconds : Good(disk'[s])
      /\ kept' \in SUBSET ArchiveType /\ \A ar \in kept' : Good(ar)
  BY DEF BackupInv, BackupTypes, ArchivesOK
<1> QED BY <1>1, AdminMoves

\* What every step of an administrator starts from.
LEMMA OpFacts ==
    ASSUME BackupInv, NEW a \in Admins
    PROVE  /\ job \in [Admins -> OpType] /\ job[a] \in OpType /\ job[a].archive \in ArchiveType
           /\ job[a].step \in OpSteps /\ job[a].name \in Seconds \cup {0}
           /\ Good(job[a].archive) /\ BuiltOK(job[a])
           /\ job[a].step \in BackupSteps => job[a].name \in Seconds
           /\ job[a].step \in LockSteps => lock = a
           /\ job[a].step \notin ReplaceSteps => ~Archives!Replacing(a)
           /\ records \in SUBSET Archives!Items /\ entries \in SUBSET Archives!Items
              /\ files \in SUBSET Archives!Items /\ broken \in SUBSET Archives!Items
           /\ Archives!NoArchive \in ArchiveType /\ Good(Archives!NoArchive) /\ Archives!Idle \in OpType
              /\ Archives!Idle.archive = Archives!NoArchive
<1>1. job \in [Admins -> OpType] /\ job[a] \in OpType
  BY DEF BackupInv, BackupTypes
<1>2. job[a].archive \in ArchiveType /\ job[a].step \in OpSteps /\ job[a].name \in Seconds \cup {0}
  BY <1>1 DEF OpType
<1>3. Archives!NoArchive \in ArchiveType /\ Good(Archives!NoArchive)
  BY DEF Archives!NoArchive, ArchiveType, Good
<1>4. Archives!Idle \in OpType /\ Archives!Idle.archive = Archives!NoArchive
  BY <1>3 DEF Archives!Idle, OpType, OpSteps
<1>5. Good(job[a].archive) /\ BuiltOK(job[a]) /\ (job[a].step \in LockSteps => lock = a)
  BY DEF BackupInv, ArchivesOK, LockOK
<1>6. job[a].step \notin ReplaceSteps => ~Archives!Replacing(a)
  BY DEF Archives!Replacing, ReplaceSteps
<1>7. records \in SUBSET Archives!Items /\ entries \in SUBSET Archives!Items
      /\ files \in SUBSET Archives!Items /\ broken \in SUBSET Archives!Items
  BY DEF BackupInv, BackupTypes
<1>8. job[a].step \in BackupSteps => job[a].name \in Seconds
  BY <1>5 DEF BuiltOK
<1> QED BY <1>1, <1>2, <1>3, <1>4, <1>5, <1>6, <1>7, <1>8

\* An operation that changes its step, and then also its archive.
LEMMA NewStep ==
    ASSUME NEW o \in OpType, NEW s \in OpSteps, NEW t, t = [o EXCEPT !.step = s]
    PROVE  t \in OpType /\ t.step = s /\ t.archive = o.archive /\ t.name = o.name
BY DEF OpType

\* The three ways in which a request goes on, as the record it goes on with.
LEMMA StepIs ==
    ASSUME BackupInv, NEW a \in Admins, NEW s \in OpSteps, Archives!Step(a, s)
    PROVE  \E r \in OpType : Becomes(a, r) /\ r.step = s /\ r.archive = job[a].archive
           /\ r.name = job[a].name
<1>1. PICK o \in OpType : o = job[a]
  BY OpFacts
<1>2. job' = [job EXCEPT ![a] = [o EXCEPT !.step = s]]
  BY <1>1 DEF Archives!Step
<1>3. PICK t : t = [o EXCEPT !.step = s]
  OBVIOUS
<1>4. t \in OpType /\ t.step = s /\ t.archive = o.archive /\ t.name = o.name
  BY <1>3, NewStep
<1>5. job' = [job EXCEPT ![a] = t]
  BY <1>2, <1>3
<1>6. Becomes(a, t)
  BY <1>4, <1>5, OpFacts DEF Becomes
<1> QED BY <1>1, <1>4, <1>6

LEMMA WithIs ==
    ASSUME BackupInv, NEW a \in Admins, NEW s \in OpSteps, NEW ar \in ArchiveType,
           Archives!With(a, s, ar)
    PROVE  \E r \in OpType : Becomes(a, r) /\ r.step = s /\ r.archive = ar /\ r.name = job[a].name
<1>1. PICK o \in OpType : o = job[a]
  BY OpFacts
<1>2. job' = [job EXCEPT ![a] = [o EXCEPT !.step = s, !.archive = ar]]
  BY <1>1 DEF Archives!With
<1>3. PICK t : t = [o EXCEPT !.step = s]
  OBVIOUS
<1>4. t \in OpType /\ t.step = s /\ t.name = o.name
  BY <1>3, NewStep
<1>5. PICK v : v = [t EXCEPT !.archive = ar]
  OBVIOUS
<1>6. v \in OpType /\ v.step = s /\ v.archive = ar /\ v.name = o.name
  BY <1>4, <1>5 DEF OpType
<1>7. v = [o EXCEPT !.step = s, !.archive = ar]
  BY <1>1, <1>3, <1>5 DEF OpType
<1>8. job' = [job EXCEPT ![a] = v]
  BY <1>2, <1>7
<1>9. Becomes(a, v)
  BY <1>6, <1>8, OpFacts DEF Becomes
<1> QED BY <1>1, <1>6, <1>9

LEMMA EndsIs ==
    ASSUME BackupInv, NEW a \in Admins, Archives!Ends(a)
    PROVE  Becomes(a, Archives!Idle) /\ lock' = Nobody
BY OpFacts DEF Archives!Ends, Becomes

\* The building of an archive, step by step.
LEMMA BackupBeginStep ==
    ASSUME BackupInv, Archives!BackupAssumption, NEW a \in Admins, Archives!BackupBegin(a)
    PROVE  BackupInv'
<1>1. PICK s \in Seconds : job' = [job EXCEPT ![a] = [Archives!Idle EXCEPT !.step = "lock", !.name = s]]
  BY DEF Archives!BackupBegin
<1>2. PICK r : r = [step |-> "lock", archive |-> Archives!NoArchive, name |-> s]
  OBVIOUS
<1>3. r \in OpType /\ r.step = "lock" /\ r.archive = Archives!NoArchive /\ r.name = s
  BY <1>2, OpFacts DEF OpType, OpSteps
<1>4. Becomes(a, r)
  <2>1. PICK t : t = [Archives!Idle EXCEPT !.step = "lock"]
    OBVIOUS
  <2>2. t = [step |-> "lock", archive |-> Archives!NoArchive, name |-> 0]
    BY <2>1 DEF Archives!Idle
  <2>3. PICK v : v = [t EXCEPT !.name = s]
    OBVIOUS
  <2>4. v = r
    BY <1>2, <2>2, <2>3
  <2>5. v = [Archives!Idle EXCEPT !.step = "lock", !.name = s]
    BY <2>1, <2>3 DEF Archives!Idle
  <2>6. job' = [job EXCEPT ![a] = r]
    BY <1>1, <2>4, <2>5
  <2> QED BY <1>3, <2>6, OpFacts DEF Becomes
<1>5. r.step \notin LockSteps /\ BuiltOK(r) /\ Good(r.archive)
  BY <1>3, OpFacts DEF LockSteps, ReplaceSteps, BuiltOK
<1>6. job[a].step = "idle"
      /\ UNCHANGED <<engine, records, entries, files, user, broken, disk, kept, lock>>
  BY DEF Archives!BackupBegin, Archives!store
<1>7. ~Archives!Replacing(a) /\ r.step \notin ReplaceSteps /\ r.step # "replace"
  BY <1>3, <1>6 DEF Archives!Replacing, ReplaceSteps
<1> QED BY <1>3, <1>4, <1>5, <1>6, <1>7, OpMoves

LEMMA ReadUploadsStep ==
    ASSUME BackupInv, Archives!BackupAssumption, NEW a \in Admins, Archives!ReadUploads(a)
    PROVE  BackupInv'
<1>1. PICK ar : ar = [Archives!NoArchive EXCEPT !.rows = IF engine = "mariadb" THEN records ELSE records \cap Uploads,
                                                !.entries = IF engine = "mariadb" THEN entries ELSE {}]
  OBVIOUS
<1>2. /\ job[a].step = "lock" /\ lock = Nobody /\ lock' = a /\ Archives!With(a, "more tables", ar)
      /\ UNCHANGED <<engine, records, entries, files, user, broken, disk, kept>>
  BY <1>1 DEF Archives!ReadUploads, Archives!store
<1>3. /\ ar \in ArchiveType /\ ar.whole = FALSE
      /\ engine = "mariadb" => ar.rows = records /\ ar.entries = entries
  <2>1. ar = [rows |-> IF engine = "mariadb" THEN records ELSE records \cap Uploads,
              entries |-> IF engine = "mariadb" THEN entries ELSE {},
              files |-> {}, excused |-> {}, whole |-> FALSE]
    BY <1>1 DEF Archives!NoArchive
  <2>2. (IF engine = "mariadb" THEN records ELSE records \cap Uploads) \in SUBSET Archives!Items
    BY OpFacts
  <2>3. (IF engine = "mariadb" THEN entries ELSE {}) \in SUBSET Archives!Items
    BY OpFacts
  <2> QED BY <2>1, <2>2, <2>3 DEF ArchiveType
<1>4. PICK r \in OpType : Becomes(a, r) /\ r.step = "more tables" /\ r.archive = ar
           /\ r.name = job[a].name
  <2>1. PICK s \in OpSteps : s = "more tables"
    BY DEF OpSteps, LockSteps
  <2>2. ar \in ArchiveType /\ Archives!With(a, s, ar)
    BY <1>2, <1>3, <2>1
  <2>3. \E r \in OpType : Becomes(a, r) /\ r.step = s /\ r.archive = ar /\ r.name = job[a].name
    BY <2>2, WithIs
  <2> QED BY <2>1, <2>3
<1>5. Good(r.archive) /\ BuiltOK(r)
  <2>1. r.name \in Seconds
    BY <1>2, <1>4, OpFacts DEF BackupSteps
  <2> QED BY <1>3, <1>4, <2>1 DEF Good, BuiltOK, BackupInv, EntriesOK
<1>6. ~Archives!Replacing(a) /\ r.step \notin ReplaceSteps /\ r.step # "replace"
  BY <1>2, <1>4 DEF Archives!Replacing, ReplaceSteps
<1> QED BY <1>2, <1>4, <1>5, <1>6, OpMoves

LEMMA ReadRestStep ==
    ASSUME BackupInv, Archives!BackupAssumption, NEW a \in Admins, Archives!ReadRest(a)
    PROVE  BackupInv'
<1>1. PICK o : o = job[a].archive
  OBVIOUS
<1>2. PICK ar : ar = Archives!Reread(o)
  OBVIOUS
<1>3. /\ job[a].step = "more tables" /\ Archives!With(a, "copy", ar)
      /\ UNCHANGED <<engine, records, entries, files, user, broken, disk, kept, lock>>
  BY <1>1, <1>2 DEF Archives!ReadRest, Archives!store
<1>4. o \in ArchiveType /\ ~o.whole /\ (engine = "mariadb" => o.entries \subseteq o.rows) /\ lock = a
  BY <1>1, <1>3, OpFacts DEF BuiltOK, LockSteps
<1>5. ar \in ArchiveType /\ ~ar.whole /\ (engine = "mariadb" => ar.entries \subseteq ar.rows)
  <2>1. CASE engine = "mariadb"
    BY <1>2, <1>4, <2>1 DEF Archives!Reread
  <2>2. CASE engine # "mariadb"
    <3>1. ar = [o EXCEPT !.rows = @ \cup (records \cap Bundles), !.entries = entries]
      BY <1>2, <2>2 DEF Archives!Reread
    <3>2. o.rows \cup (records \cap Bundles) \in SUBSET Archives!Items
          /\ entries \in SUBSET Archives!Items
      BY <1>4, OpFacts DEF ArchiveType
    <3>3. ar \in ArchiveType /\ ar.whole = o.whole
      BY <1>4, <3>1, <3>2 DEF ArchiveType
    <3> QED BY <1>4, <2>2, <3>3
  <2> QED BY <2>1, <2>2
<1>6. PICK r \in OpType : Becomes(a, r) /\ r.step = "copy" /\ r.archive = ar /\ r.name = job[a].name
  <2>1. PICK s \in OpSteps : s = "copy"
    BY DEF OpSteps, LockSteps
  <2>2. ar \in ArchiveType /\ Archives!With(a, s, ar)
    BY <1>3, <1>5, <2>1
  <2>3. \E r \in OpType : Becomes(a, r) /\ r.step = s /\ r.archive = ar /\ r.name = job[a].name
    BY <2>2, WithIs
  <2> QED BY <2>1, <2>3
<1>7. Good(r.archive) /\ BuiltOK(r)
  <2>1. r.name \in Seconds
    BY <1>3, <1>6, OpFacts DEF BackupSteps
  <2> QED BY <1>5, <1>6, <2>1 DEF Good, BuiltOK
<1>8. ~Archives!Replacing(a) /\ r.step \notin ReplaceSteps /\ r.step # "replace"
  BY <1>3, <1>6 DEF Archives!Replacing, ReplaceSteps
<1> QED BY <1>3, <1>4, <1>6, <1>7, <1>8, OpMoves

\* What a copy of one directory adds, while no restore is under way: every row
\* of that directory the archive has, it has the file of, or is excused for.
LEMMA CopiedFacts ==
    ASSUME BackupInv, ~Archives!Swapping, NEW o \in ArchiveType, NEW d
    PROVE  /\ Archives!Copied(o, d) \in ArchiveType
           /\ Archives!Copied(o, d).rows = o.rows /\ Archives!Copied(o, d).entries = o.entries
              /\ Archives!Copied(o, d).whole = o.whole
           /\ o.files \subseteq Archives!Copied(o, d).files
              /\ o.excused \subseteq Archives!Copied(o, d).excused
           /\ o.rows \cap Archives!In(d) \subseteq Archives!Copied(o, d).files \cup Archives!Copied(o, d).excused
<1>1. PICK c : c = Archives!Copied(o, d)
  OBVIOUS
<1>2. c = [o EXCEPT !.files = @ \cup (files \cap Archives!In(d)), !.excused = @ \cup (o.rows \ records) \cup broken]
  BY <1>1 DEF Archives!Copied
<1>3. /\ files \in SUBSET Archives!Items /\ broken \in SUBSET Archives!Items
      /\ records \subseteq files \cup broken
  BY DEF BackupInv, BackupTypes, StoreOK
<1>4. PICK fs \in SUBSET Archives!Items : fs = o.files \cup (files \cap Archives!In(d))
  BY <1>3 DEF ArchiveType
<1>5. PICK es \in SUBSET Archives!Items : es = o.excused \cup (o.rows \ records) \cup broken
  BY <1>3 DEF ArchiveType
<1>6. c = [o EXCEPT !.files = fs, !.excused = es]
  BY <1>2, <1>4, <1>5
<1>7. /\ c \in ArchiveType /\ c.rows = o.rows /\ c.entries = o.entries /\ c.whole = o.whole
      /\ c.files = fs /\ c.excused = es
  BY <1>6 DEF ArchiveType
<1>8. o.rows \cap Archives!In(d) \subseteq fs \cup es
  BY <1>3, <1>4, <1>5
<1> QED BY <1>1, <1>4, <1>5, <1>7, <1>8

LEMMA CopyUploadsStep ==
    ASSUME BackupInv, Archives!BackupAssumption, NEW a \in Admins, Archives!CopyUploads(a)
    PROVE  BackupInv'
<1>1. PICK o : o = job[a].archive
  OBVIOUS
<1>2. PICK ar : ar = Archives!Copied(o, "uploads")
  OBVIOUS
<1>3. /\ job[a].step = "copy" /\ Archives!With(a, "copy bundles", ar)
      /\ UNCHANGED <<engine, records, entries, files, user, broken, disk, kept, lock>>
  BY <1>1, <1>2 DEF Archives!CopyUploads, Archives!store
<1>4. o \in ArchiveType /\ ~o.whole /\ (engine = "mariadb" => o.entries \subseteq o.rows) /\ lock = a
  BY <1>1, <1>3, OpFacts DEF BuiltOK, LockSteps
<1>5. ~Archives!Replacing(a) /\ ~Archives!Swapping
  BY <1>3, <1>4, OneAtATime DEF Archives!Replacing
<1>6. /\ ar \in ArchiveType /\ ~ar.whole /\ (engine = "mariadb" => ar.entries \subseteq ar.rows)
      /\ ar.rows \cap Archives!In("uploads") \subseteq ar.files \cup ar.excused
  BY <1>2, <1>4, <1>5, CopiedFacts
<1>7. PICK r \in OpType : Becomes(a, r) /\ r.step = "copy bundles" /\ r.archive = ar
           /\ r.name = job[a].name
  <2>1. PICK s \in OpSteps : s = "copy bundles"
    BY DEF OpSteps, LockSteps
  <2>2. ar \in ArchiveType /\ Archives!With(a, s, ar)
    BY <1>3, <1>6, <2>1
  <2>3. \E r \in OpType : Becomes(a, r) /\ r.step = s /\ r.archive = ar /\ r.name = job[a].name
    BY <2>2, WithIs
  <2> QED BY <2>1, <2>3
<1>8. Good(r.archive) /\ BuiltOK(r)
  <2>1. r.name \in Seconds
    BY <1>3, <1>7, OpFacts DEF BackupSteps
  <2> QED BY <1>6, <1>7, <2>1 DEF Good, BuiltOK
<1>9. r.step \notin ReplaceSteps /\ r.step # "replace"
  BY <1>7 DEF ReplaceSteps
<1> QED BY <1>3, <1>4, <1>5, <1>7, <1>8, <1>9, OpMoves

LEMMA CopyBundlesStep ==
    ASSUME BackupInv, Archives!BackupAssumption, NEW a \in Admins, Archives!CopyBundles(a)
    PROVE  BackupInv'
<1>1. PICK o : o = job[a].archive
  OBVIOUS
<1>2. PICK c : c = Archives!Copied(o, "bundles")
  OBVIOUS
<1>3. PICK ar : ar = [c EXCEPT !.whole = TRUE]
  OBVIOUS
<1>4. /\ job[a].step = "copy bundles" /\ Archives!With(a, "pack", ar)
      /\ UNCHANGED <<engine, records, entries, files, user, broken, disk, kept, lock>>
  BY <1>1, <1>2, <1>3 DEF Archives!CopyBundles, Archives!store
<1>5. /\ o \in ArchiveType /\ (engine = "mariadb" => o.entries \subseteq o.rows) /\ lock = a
      /\ o.rows \cap Archives!In("uploads") \subseteq o.files \cup o.excused
  BY <1>1, <1>4, OpFacts DEF BuiltOK, LockSteps
<1>6. ~Archives!Replacing(a) /\ ~Archives!Swapping
  BY <1>4, <1>5, OneAtATime DEF Archives!Replacing
<1>7. /\ c \in ArchiveType /\ c.rows = o.rows /\ c.entries = o.entries
      /\ c.rows \cap Archives!In("uploads") \subseteq c.files \cup c.excused
      /\ c.rows \cap Archives!In("bundles") \subseteq c.files \cup c.excused
  BY <1>2, <1>5, <1>6, CopiedFacts
<1>8. /\ ar \in ArchiveType /\ ar.rows = c.rows /\ ar.entries = c.entries
      /\ ar.files = c.files /\ ar.excused = c.excused
  BY <1>3, <1>7 DEF ArchiveType
<1>9. Good(ar)
  <2>1. ar.rows \subseteq Archives!In("uploads") \cup Archives!In("bundles")
    BY <1>8, TheDirectories DEF ArchiveType
  <2>2. ar.rows \ ar.files \subseteq ar.excused
    BY <1>7, <1>8, <2>1
  <2> QED BY <1>5, <1>7, <1>8, <2>2 DEF Good
<1>10. PICK r \in OpType : Becomes(a, r) /\ r.step = "pack" /\ r.archive = ar /\ r.name = job[a].name
  <2>1. PICK s \in OpSteps : s = "pack"
    BY DEF OpSteps, LockSteps
  <2>2. ar \in ArchiveType /\ Archives!With(a, s, ar)
    BY <1>4, <1>8, <2>1
  <2>3. \E r \in OpType : Becomes(a, r) /\ r.step = s /\ r.archive = ar /\ r.name = job[a].name
    BY <2>2, WithIs
  <2> QED BY <2>1, <2>3
<1>11. Good(r.archive) /\ BuiltOK(r)
  <2>1. r.name \in Seconds
    BY <1>4, <1>10, OpFacts DEF BackupSteps
  <2> QED BY <1>9, <1>10, <2>1 DEF BuiltOK
<1>12. r.step \notin ReplaceSteps /\ r.step # "replace"
  BY <1>10 DEF ReplaceSteps
<1> QED BY <1>4, <1>5, <1>6, <1>10, <1>11, <1>12, OpMoves

\* An operation that ends, completed or not, without a replacement.
LEMMA OpEnds ==
    ASSUME BackupInv, Archives!BackupAssumption, NEW a \in Admins, Archives!Ends(a),
           ~Archives!Replacing(a), lock \in {a, Nobody},
           UNCHANGED <<engine, records, entries, files, user, broken, disk, kept>>
    PROVE  BackupInv'
<1>1. Becomes(a, Archives!Idle) /\ lock' = Nobody
  BY EndsIs
<1>2. Archives!Idle.step = "idle" /\ Archives!Idle.step \notin ReplaceSteps
      /\ Archives!Idle.step # "replace"
  BY DEF Archives!Idle, ReplaceSteps
<1>3. BuiltOK(Archives!Idle) /\ Archives!Idle.step \notin LockSteps
  BY <1>2 DEF BuiltOK, LockSteps, BackupSteps
<1>4. Archives!Idle \in OpType /\ Good(Archives!Idle.archive) /\ Good(Archives!NoArchive)
      /\ Archives!Idle.archive = Archives!NoArchive
  BY OpFacts
<1>5. lock' = lock \/ lock \in {a, Nobody}
  OBVIOUS
<1> QED BY <1>1, <1>2, <1>3, <1>4, <1>5, OpMoves

LEMMA BackupFailsStep ==
    ASSUME BackupInv, Archives!BackupAssumption, NEW a \in Admins, Archives!BackupFails(a)
    PROVE  BackupInv'
<1>1. /\ job[a].step \in {"more tables", "copy", "copy bundles", "packing"} /\ Archives!Ends(a)
      /\ UNCHANGED <<engine, records, entries, files, user, broken, disk, kept>>
  BY DEF Archives!BackupFails, Archives!store
<1>2. lock = a /\ ~Archives!Replacing(a)
  BY <1>1, OpFacts DEF LockSteps, ReplaceSteps
<1> QED BY <1>1, <1>2, OpEnds

LEMMA RollsBackStep ==
    ASSUME BackupInv, Archives!BackupAssumption, NEW a \in Admins, Archives!RollsBack(a)
    PROVE  BackupInv'
<1>1. /\ job[a].step = "replace" /\ Archives!Ends(a)
      /\ UNCHANGED <<engine, records, entries, files, user, broken, disk, kept>>
  BY DEF Archives!RollsBack, Archives!store
<1>2. lock = a /\ ~Archives!Replacing(a)
  BY <1>1, OpFacts DEF LockSteps, ReplaceSteps
<1> QED BY <1>1, <1>2, OpEnds

LEMMA PackBeginsStep ==
    ASSUME BackupInv, Archives!BackupAssumption, NEW a \in Admins, Archives!PackBegins(a)
    PROVE  BackupInv'
<1>1. PICK p : p = [Archives!NoArchive EXCEPT !.rows = Archives!Items]
  OBVIOUS
<1>2. /\ job[a].step = "pack" /\ disk' = [disk EXCEPT ![job[a].name] = p] /\ Archives!Step(a, "packing")
      /\ UNCHANGED <<engine, records, entries, files, user, broken, kept, lock>>
  BY <1>1 DEF Archives!PackBegins, Archives!store
<1>3. p \in ArchiveType /\ ~p.whole
  BY <1>1 DEF Archives!NoArchive, ArchiveType
<1>4. disk' \in [Seconds -> ArchiveType] /\ \A s \in Seconds : disk'[s] = disk[s] \/ disk'[s] = p
  BY <1>2, <1>3 DEF BackupInv, BackupTypes
<1>5. \A s \in Seconds : Good(disk'[s])
  BY <1>3, <1>4 DEF BackupInv, ArchivesOK, Good
<1>6. kept' \in SUBSET ArchiveType /\ \A ar \in kept' : Good(ar)
  BY <1>2 DEF BackupInv, BackupTypes, ArchivesOK
<1>7. PICK r \in OpType : Becomes(a, r) /\ r.step = "packing" /\ r.archive = job[a].archive
           /\ r.name = job[a].name
  <2>1. PICK s \in OpSteps : s = "packing"
    BY DEF OpSteps, LockSteps
  <2>2. Archives!Step(a, s)
    BY <1>2, <2>1
  <2>3. \E r \in OpType : Becomes(a, r) /\ r.step = s /\ r.archive = job[a].archive
        /\ r.name = job[a].name
    BY <2>2, StepIs
  <2> QED BY <2>1, <2>3
<1>8. Good(r.archive) /\ BuiltOK(r) /\ r.step \notin ReplaceSteps /\ r.step # "replace"
  <2>1. r.name \in Seconds
    BY <1>2, <1>7, OpFacts DEF BackupSteps
  <2> QED BY <1>7, OpFacts, <2>1 DEF BuiltOK, ReplaceSteps
<1>9. lock = a /\ ~Archives!Replacing(a)
  BY <1>2, OpFacts DEF LockSteps, ReplaceSteps
<1> QED BY <1>2, <1>4, <1>5, <1>6, <1>7, <1>8, <1>9, AdminMoves

LEMMA PackedStep ==
    ASSUME BackupInv, Archives!BackupAssumption, NEW a \in Admins, Archives!Packed(a)
    PROVE  BackupInv'
<1>1. PICK p : p = job[a].archive
  OBVIOUS
<1>2. /\ job[a].step = "packing" /\ disk' = [disk EXCEPT ![job[a].name] = p] /\ Archives!Step(a, "send")
      /\ lock' = Nobody
      /\ UNCHANGED <<engine, records, entries, files, user, broken, kept>>
  BY <1>1 DEF Archives!Packed, Archives!store
<1>3. p \in ArchiveType /\ Good(p)
  BY <1>1, OpFacts
<1>4. disk' \in [Seconds -> ArchiveType] /\ \A s \in Seconds : disk'[s] = disk[s] \/ disk'[s] = p
  BY <1>2, <1>3 DEF BackupInv, BackupTypes
<1>5. \A s \in Seconds : Good(disk'[s])
  BY <1>3, <1>4 DEF BackupInv, ArchivesOK
<1>6. kept' \in SUBSET ArchiveType /\ \A ar \in kept' : Good(ar)
  BY <1>2 DEF BackupInv, BackupTypes, ArchivesOK
<1>7. PICK r \in OpType : Becomes(a, r) /\ r.step = "send" /\ r.archive = job[a].archive
           /\ r.name = job[a].name
  <2>1. PICK s \in OpSteps : s = "send"
    BY DEF OpSteps, LockSteps
  <2>2. Archives!Step(a, s)
    BY <1>2, <2>1
  <2>3. \E r \in OpType : Becomes(a, r) /\ r.step = s /\ r.archive = job[a].archive
        /\ r.name = job[a].name
    BY <2>2, StepIs
  <2> QED BY <2>1, <2>3
<1>8. Good(r.archive) /\ BuiltOK(r) /\ r.step \notin LockSteps /\ r.step \notin ReplaceSteps
      /\ r.step # "replace"
  <2>1. r.name \in Seconds
    BY <1>2, <1>7, OpFacts DEF BackupSteps
  <2> QED BY <1>7, OpFacts, <2>1 DEF BuiltOK, ReplaceSteps, LockSteps
<1>9. lock = a /\ ~Archives!Replacing(a)
  BY <1>2, OpFacts DEF LockSteps, ReplaceSteps
<1> QED BY <1>2, <1>4, <1>5, <1>6, <1>7, <1>8, <1>9, AdminMoves

LEMMA SendStep ==
    ASSUME BackupInv, Archives!BackupAssumption, NEW a \in Admins, Archives!Send(a)
    PROVE  BackupInv'
<1>1. /\ job[a].step = "send" /\ kept' = kept \cup ({disk[job[a].name]} \ {Archives!NoArchive})
         /\ Archives!Step(a, "delete")
      /\ UNCHANGED <<engine, records, entries, files, user, broken, disk, lock>>
  BY DEF Archives!Send, Archives!store
<1>2. /\ disk \in [Seconds -> ArchiveType] /\ \A s \in Seconds : Good(disk[s])
      /\ kept \in SUBSET ArchiveType /\ \A ar \in kept : Good(ar)
  BY DEF BackupInv, BackupTypes, ArchivesOK
<1>3. PICK r \in OpType : Becomes(a, r) /\ r.step = "delete" /\ r.archive = job[a].archive
           /\ r.name = job[a].name
  <2>1. PICK s \in OpSteps : s = "delete"
    BY DEF OpSteps, LockSteps
  <2>2. Archives!Step(a, s)
    BY <1>1, <2>1
  <2>3. \E r \in OpType : Becomes(a, r) /\ r.step = s /\ r.archive = job[a].archive
        /\ r.name = job[a].name
    BY <2>2, StepIs
  <2> QED BY <2>1, <2>3
<1>4. Good(r.archive) /\ BuiltOK(r) /\ r.step \notin LockSteps /\ r.step \notin ReplaceSteps
      /\ r.step # "replace"
  <2>1. r.name \in Seconds
    BY <1>1, <1>3, OpFacts DEF BackupSteps
  <2> QED BY <1>3, OpFacts, <2>1 DEF BuiltOK, ReplaceSteps, LockSteps
<1>5. ~Archives!Replacing(a)
  BY <1>1, OpFacts DEF ReplaceSteps
<1>6. job[a].name \in Seconds
  BY <1>1, OpFacts DEF BackupSteps
<1>7. kept' \in SUBSET ArchiveType /\ \A ar \in kept' : Good(ar)
  BY <1>1, <1>2, <1>6
<1> QED BY <1>1, <1>2, <1>3, <1>4, <1>5, <1>7, AdminMoves

LEMMA DeleteArchiveStep ==
    ASSUME BackupInv, Archives!BackupAssumption, NEW a \in Admins, Archives!DeleteArchive(a)
    PROVE  BackupInv'
<1>1. /\ job[a].step = "delete" /\ disk' = [disk EXCEPT ![job[a].name] = Archives!NoArchive]
      /\ job' = [job EXCEPT ![a] = Archives!Idle]
      /\ UNCHANGED <<engine, records, entries, files, user, broken, kept, lock>>
  BY DEF Archives!DeleteArchive, Archives!store
<1>2. Becomes(a, Archives!Idle) /\ Archives!Idle \in OpType /\ Good(Archives!Idle.archive)
  BY <1>1, OpFacts DEF Becomes
<1>3. Archives!Idle.step = "idle" /\ Archives!Idle.step \notin ReplaceSteps
      /\ Archives!Idle.step # "replace" /\ Archives!Idle.step \notin LockSteps
  BY DEF Archives!Idle, ReplaceSteps, LockSteps
<1>4. BuiltOK(Archives!Idle)
  BY <1>3 DEF BuiltOK, BackupSteps
<1>5. ~Archives!Replacing(a)
  BY <1>1, OpFacts DEF ReplaceSteps
<1>6. disk' \in [Seconds -> ArchiveType] /\ \A s \in Seconds : disk'[s] = disk[s]
      \/ disk'[s] = Archives!NoArchive
  BY <1>1, OpFacts DEF BackupInv, BackupTypes
<1>7. \A s \in Seconds : Good(disk'[s])
  BY <1>6, OpFacts DEF BackupInv, ArchivesOK
<1>8. kept' \in SUBSET ArchiveType /\ \A ar \in kept' : Good(ar)
  BY <1>1 DEF BackupInv, BackupTypes, ArchivesOK
<1> QED BY <1>1, <1>2, <1>3, <1>4, <1>5, <1>6, <1>7, <1>8, AdminMoves

\* A restore, step by step.
LEMMA RestoreBeginStep ==
    ASSUME BackupInv, Archives!BackupAssumption, NEW a \in Admins, Archives!RestoreBegin(a)
    PROVE  BackupInv'
<1>1. PICK ar \in kept \cup {Archives!Part(k) : k \in kept} : Archives!With(a, "restore", ar)
  BY DEF Archives!RestoreBegin
<1>2. /\ job[a].step = "idle"
      /\ UNCHANGED <<engine, records, entries, files, user, broken, disk, kept, lock>>
  BY DEF Archives!RestoreBegin, Archives!store
<1>3. kept \in SUBSET ArchiveType /\ \A k \in kept : Good(k)
  BY DEF BackupInv, BackupTypes, ArchivesOK
<1>4. ar \in ArchiveType /\ Good(ar)
  <2>1. CASE ar \in kept
    BY <1>3, <2>1
  <2>2. ASSUME NEW k \in kept, ar = Archives!Part(k) PROVE ar \in ArchiveType /\ Good(ar)
    <3>1. k \in ArchiveType
      BY <1>3
    <3>2. PICK t : t = [k EXCEPT !.files = {}]
      OBVIOUS
    <3>3. t \in ArchiveType
      BY <3>1, <3>2 DEF ArchiveType
    <3>4. [t EXCEPT !.whole = FALSE] \in ArchiveType /\ [t EXCEPT !.whole = FALSE].whole = FALSE
      BY <3>3 DEF ArchiveType
    <3>5. ar = [t EXCEPT !.whole = FALSE]
      BY <2>2, <3>1, <3>2 DEF Archives!Part, ArchiveType
    <3> QED BY <3>4, <3>5 DEF Good
  <2> QED BY <2>1, <2>2
<1>5. PICK r \in OpType : Becomes(a, r) /\ r.step = "restore" /\ r.archive = ar
  <2>1. PICK s \in OpSteps : s = "restore"
    BY DEF OpSteps, LockSteps
  <2>2. Archives!With(a, s, ar)
    BY <1>1, <2>1
  <2>3. \E r \in OpType : Becomes(a, r) /\ r.step = s /\ r.archive = ar /\ r.name = job[a].name
    BY <1>4, <2>2, WithIs
  <2> QED BY <2>1, <2>3
<1>6. /\ Good(r.archive) /\ BuiltOK(r)
      /\ r.step \notin LockSteps /\ r.step \notin ReplaceSteps /\ r.step # "replace"
  BY <1>4, <1>5 DEF BuiltOK, ReplaceSteps, LockSteps, BackupSteps
<1>7. ~Archives!Replacing(a)
  BY <1>2, OpFacts DEF ReplaceSteps
<1> QED BY <1>2, <1>5, <1>6, <1>7, OpMoves

LEMMA ValidateStep ==
    ASSUME BackupInv, Archives!BackupAssumption, NEW a \in Admins, Archives!Validate(a)
    PROVE  BackupInv'
<1>1. /\ job[a].step = "restore" /\ lock = Nobody
      /\ UNCHANGED <<engine, records, entries, files, user, broken, disk, kept>>
  BY DEF Archives!Validate, Archives!store
<1>2. ~Archives!Replacing(a)
  BY <1>1, OpFacts DEF ReplaceSteps
<1>3. CASE job[a].archive.whole
  <2>1. Archives!Step(a, "replace") /\ lock' = a
    BY <1>3 DEF Archives!Validate, Archives!Valid
  <2>2. PICK r \in OpType : Becomes(a, r) /\ r.step = "replace" /\ r.archive = job[a].archive
    <3>1. PICK s \in OpSteps : s = "replace"
      BY DEF OpSteps, LockSteps
    <3>2. Archives!Step(a, s)
      BY <2>1, <3>1
    <3>3. \E r \in OpType : Becomes(a, r) /\ r.step = s /\ r.archive = job[a].archive
          /\ r.name = job[a].name
      BY <3>2, StepIs
    <3> QED BY <3>1, <3>3
  <2>3. Good(r.archive) /\ BuiltOK(r) /\ r.step \notin ReplaceSteps /\ r.archive.whole
    BY <1>3, <2>2, OpFacts DEF BuiltOK, ReplaceSteps, BackupSteps
  <2> QED BY <1>1, <1>2, <2>1, <2>2, <2>3, OpMoves
<1>4. CASE ~job[a].archive.whole
  <2>1. Archives!Ends(a)
    BY <1>4 DEF Archives!Validate, Archives!Valid
  <2> QED BY <1>1, <1>2, <2>1, OpEnds
<1> QED BY <1>3, <1>4

-----------------------------------------------------------------------------

\* What a step of the replacement leaves as it is: the holder of the lock goes
\* on to another step of it, with its archive.
LEMMA ReplacementMoves ==
    ASSUME BackupInv, Archives!BackupAssumption, NEW a \in Admins, NEW r \in OpType,
           job[a].step \in LockSteps,
           UNCHANGED <<engine, disk, kept, lock, user>>, Becomes(a, r),
           r.step \in ReplaceSteps, r.archive = job[a].archive, job[a].archive.whole,
           records' \in SUBSET Archives!Items, entries' \in SUBSET Archives!Items,
           files' \in SUBSET Archives!Items, broken' \in SUBSET Archives!Items,
           records' \subseteq job[a].archive.files \cup broken',
           \A i \in Archives!Items : user[i] \in {"filed", "erased"} => i \in broken',
           r.step = "move bundles" => records' \cap Archives!In("uploads") \subseteq files' \cup broken',
           engine = "mariadb" => entries' \subseteq records'
    PROVE  BackupInv'
<1>1. job' \in [Admins -> OpType] /\ job'[a] = r /\ \A b \in Admins \ {a} : job'[b] = job[b]
  BY DEF Becomes
<1>2. BackupTypes'
  BY <1>1 DEF BackupInv, BackupTypes
<1>3. lock = a /\ Good(job[a].archive) /\ \A b \in Admins \ {a} : job[b].step \notin LockSteps
  BY OpFacts DEF BackupInv, LockOK
<1>4. BuiltOK(r)
  BY DEF BuiltOK, ReplaceSteps, BackupSteps
<1>5. ArchivesOK'
  <2>1. \A b \in Admins : Good(job'[b].archive) /\ BuiltOK(job'[b])
    BY <1>1, <1>3, <1>4 DEF BackupInv, ArchivesOK
  <2>2. \A b \in Admins : (Good(job[b].archive) /\ BuiltOK(job[b]))'
    BY <2>1 DEF Good, BuiltOK
  <2>3. \A ar \in kept : Good(ar)' = Good(ar)
    BY DEF Good
  <2>4. \A s \in Seconds : Good(disk[s])' = Good(disk[s])
    BY DEF Good
  <2> QED BY <2>2, <2>3, <2>4 DEF BackupInv, ArchivesOK
<1>6. LockOK'
  BY <1>1, <1>3 DEF LockOK
<1>7. Archives!Swapping'
  BY <1>1 DEF Archives!Swapping, Archives!Replacing, ReplaceSteps
<1>8. StoreOK' /\ EntriesOK'
  BY <1>7 DEF StoreOK, EntriesOK
<1>9. ASSUME NEW b \in Admins PROVE RestoreOK(b)'
  <2>1. CASE b = a
    BY <1>1, <2>1 DEF RestoreOK
  <2>2. CASE b # a
    <3>1. job'[b].step \notin LockSteps
      BY <1>1, <1>3, <2>2
    <3>2. job'[b].step \notin ReplaceSteps /\ job'[b].step # "replace" /\ job'[b].step # "move bundles"
      BY <3>1 DEF LockSteps, ReplaceSteps
    <3>3. ~Archives!Replacing(b)'
      BY <3>2 DEF Archives!Replacing, ReplaceSteps
    <3> QED BY <3>2, <3>3 DEF RestoreOK
  <2> QED BY <2>1, <2>2
<1> QED BY <1>2, <1>5, <1>6, <1>8, <1>9 DEF BackupInv

LEMMA RestoreCommitsStep ==
    ASSUME BackupInv, Archives!BackupAssumption, NEW a \in Admins, Archives!RestoreCommits(a)
    PROVE  BackupInv'
<1>1. PICK o : o = job[a].archive
  OBVIOUS
<1>2. /\ job[a].step = "replace" /\ engine = "sqlite" /\ records' = o.rows /\ entries' = o.entries
      /\ broken' = o.excused \cup {i \in Archives!Items : user[i] \in {"filed", "inserted", "erased"}}
      /\ Archives!Step(a, "remove") /\ UNCHANGED <<engine, files, user, disk, kept, lock>>
  BY <1>1 DEF Archives!RestoreCommits
<1>3. o \in ArchiveType /\ Good(o) /\ o.whole /\ files \in SUBSET Archives!Items
      /\ job[a].step \in LockSteps
  BY <1>1, <1>2, OpFacts DEF BackupInv, RestoreOK, LockSteps
<1>4. /\ o.rows \in SUBSET Archives!Items /\ o.entries \in SUBSET Archives!Items
         /\ o.excused \in SUBSET Archives!Items
      /\ o.rows \ o.files \subseteq o.excused
  BY <1>3 DEF ArchiveType, Good
<1>5. PICK r \in OpType : Becomes(a, r) /\ r.step = "remove" /\ r.archive = job[a].archive
  <2>1. PICK s \in OpSteps : s = "remove"
    BY DEF OpSteps, LockSteps, ReplaceSteps
  <2>2. Archives!Step(a, s)
    BY <1>2, <2>1
  <2>3. \E r \in OpType : Becomes(a, r) /\ r.step = s /\ r.archive = job[a].archive
        /\ r.name = job[a].name
    BY <2>2, StepIs
  <2> QED BY <2>1, <2>3
<1>6. r.step \in ReplaceSteps /\ r.step # "move bundles"
  BY <1>5 DEF ReplaceSteps
<1>7. broken' \in SUBSET Archives!Items /\ records' \subseteq o.files \cup broken'
  BY <1>2, <1>4
<1>8. \A i \in Archives!Items : user[i] \in {"filed", "erased"} => i \in broken'
  BY <1>2
<1>9. records' \in SUBSET Archives!Items /\ entries' \in SUBSET Archives!Items
      /\ files' \in SUBSET Archives!Items
  BY <1>2, <1>3, <1>4
<1>10. job[a].archive.whole /\ records' \subseteq job[a].archive.files \cup broken' /\ engine # "mariadb"
  BY <1>1, <1>2, <1>3, <1>7
<1>11. UNCHANGED <<engine, disk, kept, lock, user>>
  BY <1>2
<1> QED BY <1>3, <1>5, <1>6, <1>7, <1>8, <1>9, <1>10, <1>11, ReplacementMoves

\* What holds while the replacement goes on.
LEMMA ReplacingFacts ==
    ASSUME BackupInv, NEW a \in Admins, Archives!Replacing(a)
    PROVE  /\ job[a].step \in LockSteps /\ lock = a
           /\ job[a].archive.whole /\ records \subseteq job[a].archive.files \cup broken
           /\ \A i \in Archives!Items : user[i] \in {"filed", "erased"} => i \in broken
           /\ engine = "mariadb" => entries \subseteq records
<1>1. job[a].step \in ReplaceSteps /\ job[a].step \in LockSteps
  BY DEF Archives!Replacing, ReplaceSteps, LockSteps
<1> QED BY <1>1 DEF BackupInv, LockOK, RestoreOK, EntriesOK

LEMMA RemoveStep ==
    ASSUME BackupInv, Archives!BackupAssumption, NEW a \in Admins,
           \/ Archives!Remove(a, "remove", "remove bundles", "uploads")
           \/ Archives!Remove(a, "remove bundles", "move", "bundles")
    PROVE  BackupInv'
<1>1. PICK s \in OpSteps : s \in {"remove bundles", "move"} /\ Archives!Step(a, s)
  BY DEF Archives!Remove, OpSteps, LockSteps, ReplaceSteps
<1>2. /\ Archives!Replacing(a) /\ files' \subseteq files
      /\ UNCHANGED <<engine, records, entries, user, disk, kept, lock, broken>>
  BY DEF Archives!Remove, Archives!Replacing
<1>3. PICK r \in OpType : Becomes(a, r) /\ r.step = s /\ r.archive = job[a].archive
  BY <1>1, StepIs
<1>4. r.step \in ReplaceSteps /\ r.step # "move bundles"
  BY <1>1, <1>3 DEF ReplaceSteps
<1>5. records' \in SUBSET Archives!Items /\ entries' \in SUBSET Archives!Items
      /\ files' \in SUBSET Archives!Items /\ broken' \in SUBSET Archives!Items
  BY <1>2, OpFacts
<1>6. /\ job[a].step \in LockSteps /\ job[a].archive.whole
         /\ records' \subseteq job[a].archive.files \cup broken'
      /\ \A i \in Archives!Items : user[i] \in {"filed", "erased"} => i \in broken'
      /\ engine = "mariadb" => entries' \subseteq records'
  BY <1>2, ReplacingFacts
<1>7. UNCHANGED <<engine, disk, kept, lock, user>>
  BY <1>2
<1> QED BY <1>3, <1>4, <1>5, <1>6, <1>7, ReplacementMoves

\* The replacement ends, or is cut short.
LEMMA ReplacementEnds ==
    ASSUME BackupInv, Archives!BackupAssumption, NEW a \in Admins, Archives!Replacing(a),
           Archives!Ends(a),
           UNCHANGED <<engine, records, entries, user, disk, kept>>,
           files' \in SUBSET Archives!Items, broken' \in SUBSET Archives!Items, broken \subseteq broken',
           records \subseteq files' \cup broken'
    PROVE  BackupInv'
<1>1. Becomes(a, Archives!Idle) /\ lock' = Nobody
  BY EndsIs
<1>2. job' \in [Admins -> OpType] /\ job'[a] = Archives!Idle /\ \A b \in Admins \ {a} : job'[b] = job[b]
  BY <1>1 DEF Becomes
<1>3. Archives!Idle.step = "idle" /\ Archives!Idle.step \notin LockSteps /\ BuiltOK(Archives!Idle)
      /\ Good(Archives!Idle.archive)
  BY OpFacts DEF Archives!Idle, LockSteps, ReplaceSteps, BuiltOK, BackupSteps
<1>4. \A b \in Admins : job'[b].step \notin LockSteps
  <2>1. lock = a
    BY ReplacingFacts
  <2>2. \A b \in Admins \ {a} : job[b].step \notin LockSteps
    BY <2>1 DEF BackupInv, LockOK
  <2> QED BY <1>2, <1>3, <2>2
<1>5. BackupTypes'
  BY <1>2 DEF BackupInv, BackupTypes
<1>6. ArchivesOK'
  <2>1. \A b \in Admins : Good(job'[b].archive) /\ BuiltOK(job'[b])
    BY <1>2, <1>3 DEF BackupInv, ArchivesOK
  <2>2. \A b \in Admins : (Good(job[b].archive) /\ BuiltOK(job[b]))'
    BY <2>1 DEF Good, BuiltOK
  <2>3. \A ar \in kept : Good(ar)' = Good(ar)
    BY DEF Good
  <2>4. \A s \in Seconds : Good(disk[s])' = Good(disk[s])
    BY DEF Good
  <2> QED BY <2>2, <2>3, <2>4 DEF BackupInv, ArchivesOK
<1>7. LockOK' /\ EntriesOK'
  BY <1>4 DEF BackupInv, LockOK, EntriesOK
<1>8. StoreOK'
  <2>1. \A i \in Archives!Items : user[i] \in {"filed", "erased"} => i \in broken'
    BY ReplacingFacts
  <2> QED BY <2>1 DEF StoreOK
<1>9. \A b \in Admins : RestoreOK(b)'
  <2> SUFFICES ASSUME NEW b \in Admins PROVE RestoreOK(b)'
    OBVIOUS
  <2>1. job'[b].step \notin ReplaceSteps /\ job'[b].step # "replace" /\ job'[b].step # "move bundles"
    BY <1>4 DEF LockSteps, ReplaceSteps
  <2>2. ~Archives!Replacing(b)'
    BY <2>1 DEF Archives!Replacing, ReplaceSteps
  <2> QED BY <2>1, <2>2 DEF RestoreOK
<1> QED BY <1>5, <1>6, <1>7, <1>8, <1>9 DEF BackupInv

LEMMA MoveUploadsStep ==
    ASSUME BackupInv, Archives!BackupAssumption, NEW a \in Admins, Archives!Move(a, "move", "uploads")
    PROVE  BackupInv'
<1>1. PICK o \in ArchiveType : o = job[a].archive
  BY OpFacts
<1>2. /\ job[a].step = "move" /\ Archives!Step(a, "move bundles")
      /\ UNCHANGED <<engine, records, entries, user, disk, kept, lock>>
      /\ \/ files' = files /\ broken' = broken \cup Archives!In("uploads")
         \/ files' = files \cup (o.files \cap Archives!In("uploads")) /\ broken' = broken
  BY <1>1 DEF Archives!Move
<1>3. Archives!Replacing(a)
  BY <1>2 DEF Archives!Replacing
<1>4. PICK r \in OpType : Becomes(a, r) /\ r.step = "move bundles" /\ r.archive = job[a].archive
  <2>1. PICK s \in OpSteps : s = "move bundles"
    BY DEF OpSteps, LockSteps, ReplaceSteps
  <2>2. Archives!Step(a, s)
    BY <1>2, <2>1
  <2>3. \E r \in OpType : Becomes(a, r) /\ r.step = s /\ r.archive = job[a].archive
        /\ r.name = job[a].name
    BY <2>2, StepIs
  <2> QED BY <2>1, <2>3
<1>5. r.step \in ReplaceSteps
  BY <1>4 DEF ReplaceSteps
<1>6. files' \in SUBSET Archives!Items /\ broken' \in SUBSET Archives!Items /\ broken \subseteq broken'
  BY <1>1, <1>2, OpFacts DEF ArchiveType, Archives!In
<1>7. records \subseteq o.files \cup broken
  BY <1>1, <1>3, ReplacingFacts
<1>8. records' \cap Archives!In("uploads") \subseteq files' \cup broken'
  BY <1>2, <1>7
<1>9. records' \in SUBSET Archives!Items /\ entries' \in SUBSET Archives!Items
  BY <1>2, OpFacts
<1>10. /\ job[a].step \in LockSteps /\ job[a].archive.whole
          /\ records' \subseteq job[a].archive.files \cup broken'
       /\ \A i \in Archives!Items : user[i] \in {"filed", "erased"} => i \in broken'
       /\ engine = "mariadb" => entries' \subseteq records'
  BY <1>2, <1>3, <1>6, ReplacingFacts
<1>11. UNCHANGED <<engine, disk, kept, lock, user>>
  BY <1>2
<1> QED BY <1>4, <1>5, <1>6, <1>8, <1>9, <1>10, <1>11, ReplacementMoves

LEMMA MoveBundlesStep ==
    ASSUME BackupInv, Archives!BackupAssumption, NEW a \in Admins,
           Archives!Move(a, "move bundles", "bundles")
    PROVE  BackupInv'
<1>1. PICK o \in ArchiveType : o = job[a].archive
  BY OpFacts
<1>2. /\ job[a].step = "move bundles" /\ Archives!Ends(a)
      /\ UNCHANGED <<engine, records, entries, user, disk, kept>>
      /\ \/ files' = files /\ broken' = broken \cup Archives!In("bundles")
         \/ files' = files \cup (o.files \cap Archives!In("bundles")) /\ broken' = broken
  BY <1>1 DEF Archives!Move
<1>3. Archives!Replacing(a)
  BY <1>2 DEF Archives!Replacing
<1>4. files' \in SUBSET Archives!Items /\ broken' \in SUBSET Archives!Items /\ broken \subseteq broken'
  BY <1>1, <1>2, OpFacts DEF ArchiveType, Archives!In
<1>5. records \subseteq o.files \cup broken
  BY <1>1, <1>3, ReplacingFacts
<1>6. records \cap Archives!In("bundles") \subseteq files' \cup broken'
  BY <1>2, <1>5
<1>7. records \cap Archives!In("uploads") \subseteq files \cup broken
  BY <1>2 DEF BackupInv, RestoreOK
<1>8. records \subseteq Archives!In("uploads") \cup Archives!In("bundles") /\ files \subseteq files'
  BY <1>2, OpFacts, TheDirectories
<1>9. records \subseteq files' \cup broken'
  BY <1>4, <1>6, <1>7, <1>8
<1> QED BY <1>2, <1>3, <1>4, <1>9, ReplacementEnds

LEMMA RestoreFailsStep ==
    ASSUME BackupInv, Archives!BackupAssumption, NEW a \in Admins, Archives!RestoreFails(a)
    PROVE  BackupInv'
<1>1. /\ Archives!Replacing(a) /\ Archives!Ends(a) /\ broken' = Archives!Items /\ files' \subseteq files
      /\ UNCHANGED <<engine, records, entries, user, disk, kept>>
  BY DEF Archives!RestoreFails
<1>2. files' \in SUBSET Archives!Items /\ broken' \in SUBSET Archives!Items /\ broken \subseteq broken'
      /\ records \subseteq files' \cup broken'
  BY <1>1, OpFacts
<1> QED BY <1>1, <1>2, ReplacementEnds

LEMMA KillStep ==
    ASSUME BackupInv, Archives!BackupAssumption, Archives!Kill
    PROVE  BackupInv'
<1>1. /\ job' = [a \in Admins |-> Archives!Idle]
         /\ broken' = (IF Archives!Swapping THEN Archives!Items ELSE broken)
      /\ UNCHANGED <<engine, records, entries, files, user, disk, kept>>
  BY DEF Archives!Kill, Archives!store
<1>2. PICK x \in Admins : TRUE
  BY DEF Archives!Kill
<1>3. /\ Archives!Idle \in OpType /\ Good(Archives!Idle.archive) /\ Archives!Idle.step = "idle"
         /\ Archives!Idle.step \notin LockSteps
      /\ BuiltOK(Archives!Idle)
  BY <1>2, OpFacts DEF Archives!Idle, LockSteps, ReplaceSteps, BuiltOK, BackupSteps
<1>4. BackupTypes'
  BY <1>1, <1>3 DEF BackupInv, BackupTypes
<1>5. ArchivesOK'
  <2>1. \A b \in Admins : Good(job'[b].archive) /\ BuiltOK(job'[b])
    BY <1>1, <1>3
  <2>2. \A b \in Admins : (Good(job[b].archive) /\ BuiltOK(job[b]))'
    BY <1>1, <2>1 DEF Good, BuiltOK
  <2>3. \A ar \in kept : Good(ar)' = Good(ar)
    BY <1>1 DEF Good
  <2>4. \A s \in Seconds : Good(disk[s])' = Good(disk[s])
    BY <1>1 DEF Good
  <2> QED BY <1>1, <2>2, <2>3, <2>4 DEF BackupInv, ArchivesOK
<1>6. \A b \in Admins : job'[b].step = "idle" /\ ~Archives!Replacing(b)'
  BY <1>1, <1>3 DEF Archives!Replacing
<1>7. LockOK' /\ EntriesOK'
  BY <1>1, <1>3 DEF BackupInv, LockOK, EntriesOK
<1>8. StoreOK'
  <2>1. CASE Archives!Swapping
    BY <1>1, <2>1, <1>4 DEF StoreOK, BackupTypes
  <2>2. CASE ~Archives!Swapping
    BY <1>1, <2>2 DEF BackupInv, StoreOK
  <2> QED BY <2>1, <2>2
<1>9. \A b \in Admins : RestoreOK(b)'
  BY <1>6 DEF RestoreOK, ReplaceSteps
<1> QED BY <1>4, <1>5, <1>7, <1>8, <1>9 DEF BackupInv

LEMMA NothingMoves ==
    ASSUME BackupInv, UNCHANGED <<engine, records, entries, files, user, disk, kept, lock, job, broken>>
    PROVE  BackupInv'
<1>1. BackupTypes' /\ LockOK' /\ EntriesOK'
  BY DEF BackupInv, BackupTypes, LockOK, EntriesOK
<1>2. (Archives!Swapping' <=> Archives!Swapping)
      /\ \A a : Archives!Replacing(a)' <=> Archives!Replacing(a)
  BY DEF Archives!Swapping, Archives!Replacing
<1>3. StoreOK' /\ \A a \in Admins : RestoreOK(a)'
  BY <1>2 DEF BackupInv, StoreOK, RestoreOK
<1>4. ArchivesOK'
  BY DEF BackupInv, ArchivesOK, Good, BuiltOK
<1> QED BY <1>1, <1>3, <1>4 DEF BackupInv

-----------------------------------------------------------------------------

\* The invariant holds at the start and after every step.
LEMMA BackupInit ==
    ASSUME Archives!BackupAssumption, Archives!Init
    PROVE  BackupInv
<1>1. Archives!NoArchive \in ArchiveType /\ Good(Archives!NoArchive)
  BY DEF Archives!NoArchive, ArchiveType, Good
<1>2. /\ Archives!Idle \in OpType /\ Archives!Idle.archive = Archives!NoArchive
         /\ Archives!Idle.step = "idle" /\ Archives!Idle.step \notin LockSteps
      /\ BuiltOK(Archives!Idle)
  BY <1>1 DEF Archives!Idle, OpType, OpSteps, LockSteps, ReplaceSteps, BuiltOK, BackupSteps
<1>3. BackupTypes
  BY <1>1, <1>2 DEF Archives!Init, BackupTypes, UserSteps
<1>4. ArchivesOK /\ LockOK /\ EntriesOK
  BY <1>1, <1>2 DEF Archives!Init, ArchivesOK, LockOK, EntriesOK
<1>5. StoreOK
  BY DEF Archives!Init, StoreOK
<1>6. \A a \in Admins : RestoreOK(a)
  BY <1>2 DEF Archives!Init, RestoreOK, Archives!Replacing, ReplaceSteps
<1> QED BY <1>3, <1>4, <1>5, <1>6 DEF BackupInv

LEMMA BackupNext ==
    ASSUME Archives!BackupAssumption, BackupInv, [Archives!Next]_Archives!vars
    PROVE  BackupInv'
<1>1. ASSUME NEW i \in Archives!Items, Archives!Contribute(i) PROVE BackupInv'
  BY <1>1, ContributeStep
<1>2. ASSUME NEW a \in Admins, Archives!Backup(a) PROVE BackupInv'
  BY <1>2, BackupBeginStep, ReadUploadsStep, ReadRestStep, CopyUploadsStep, CopyBundlesStep,
     BackupFailsStep,
     PackBeginsStep, PackedStep, SendStep, DeleteArchiveStep
  DEF Archives!Backup
<1>3. ASSUME NEW a \in Admins, Archives!Restore(a) PROVE BackupInv'
  BY <1>3, RestoreBeginStep, ValidateStep, RestoreCommitsStep, RollsBackStep, RemoveStep, MoveUploadsStep,
     
     MoveBundlesStep, RestoreFailsStep
  DEF Archives!Restore
<1>4. CASE Archives!Kill
  BY <1>4, KillStep
<1>5. CASE Archives!WorkerStarts
  BY <1>5, NothingMoves DEF Archives!WorkerStarts
<1>6. CASE UNCHANGED Archives!vars
  <2>1. UNCHANGED <<engine, records, entries, files, user, disk, kept, lock, job, broken>>
    BY <1>6 DEF Archives!vars, Archives!store
  <2> QED BY <2>1, NothingMoves
<1> QED BY <1>1, <1>2, <1>3, <1>4, <1>5, <1>6 DEF Archives!Next

LEMMA ArchivesComplete ==
    ASSUME Archives!BackupAssumption
    PROVE  Archives!Spec => []Archives!ArchiveComplete
<1>1. Archives!Init => BackupInv
  BY BackupInit
<1>2. BackupInv /\ [Archives!Next]_Archives!vars => BackupInv'
  BY BackupNext
<1>3. BackupInv => Archives!ArchiveComplete
  BY DEF BackupInv, ArchivesOK, Good, Archives!ArchiveComplete
<1> QED BY <1>1, <1>2, <1>3, PTL DEF Archives!Spec

LEMMA FilesKept ==
    ASSUME Archives!BackupAssumption
    PROVE  Archives!Spec => []Archives!RowsHaveFiles
<1>1. Archives!Init => BackupInv
  BY BackupInit
<1>2. BackupInv /\ [Archives!Next]_Archives!vars => BackupInv'
  BY BackupNext
<1>3. BackupInv => Archives!RowsHaveFiles
  BY DEF BackupInv, StoreOK, Archives!RowsHaveFiles
<1> QED BY <1>1, <1>2, <1>3, PTL DEF Archives!Spec

-----------------------------------------------------------------------------
(***************************************************************************)
(* Content scrub rules (ScrubRules).  LIMIT keeps no rule out of a scrub   *)
(* as long as the table never held more than MaxRules, which RoomOK says   *)
(* of creations that have not overlapped; ScrubOK then says which rules a  *)
(* case was compared with, and CountOK which of those still wait to be     *)
(* counted.                                                                *)
(***************************************************************************)

LEMMA RulesCardinality == \A S : Rules!Cardinality(S) = Cardinality(S)
<1>1. \A S : Rules!IsFiniteSet(S) = IsFiniteSet(S)
  BY DEF Rules!IsFiniteSet, IsFiniteSet
<1> QED BY <1>1, Zenon DEF Rules!Cardinality, Cardinality

AdminType == [step : {"idle", "insert"}, about : Patterns \cup {None}]
Inserting(a) == admin[a].step = "insert"
Reads(u) == scrub[u].step \in {"compared", "scrubbed"}

RuleTypes ==
    /\ nextId \in Nat \ {0} /\ raced \in BOOLEAN
    /\ rule \in [Rules!Ids -> Patterns \cup {None}]
    /\ matches = [id \in Rules!Ids |-> matches[id]] /\ found = [id \in Rules!Ids |-> found[id]]
    /\ admin \in [Admins -> AdminType]
    /\ \A a \in Admins : Inserting(a) => admin[a].about \in Patterns
    /\ scrub = [u \in Uploaders |->
          [step |-> scrub[u].step, cases |-> scrub[u].cases, before |-> scrub[u].before,
           loaded |-> scrub[u].loaded, todo |-> scrub[u].todo, done |-> scrub[u].done]]

\* Ids are given in order, and never again.
IdsOK == Rules!Rows \subseteq 1..nextId - 1

\* Without a race there is room for the rule of the one who inserts.
RoomOK ==
    ~raced => /\ Cardinality(Rules!Rows) <= MaxRules
              /\ \A a \in Admins : Inserting(a) => Cardinality(Rules!Rows) < MaxRules
              /\ \A a, b \in Admins : Inserting(a) /\ Inserting(b) => a = b

\* Every rule older than the scrub, and still there, has been compared.
ScrubOK(u) ==
    Reads(u) =>
        /\ scrub[u].before \in Nat /\ scrub[u].before <= nextId
        /\ ~raced => \A n \in DOMAIN scrub[u].cases, id \in Rules!Rows :
              id < scrub[u].before /\ rule[id] \in scrub[u].cases[n].of => id \in scrub[u].cases[n].by

\* A rule that is loaded and has a match is counted by the end.
CountOK(u) ==
    scrub[u].step = "compared" =>
        /\ scrub[u].todo \cup scrub[u].done \subseteq scrub[u].loaded
        /\ \A id \in scrub[u].loaded : id \in scrub[u].todo \cup scrub[u].done \/ Rules!By(u, id) = {}

RuleInv ==
    /\ RuleTypes /\ IdsOK /\ RoomOK
    /\ \A u \in Uploaders : ScrubOK(u) /\ CountOK(u)
    /\ \A id \in Rules!Ids : matches[id] = found[id]

-----------------------------------------------------------------------------

\* Ids below nextId are finitely many.
LEMMA RowsFinite ==
    ASSUME RuleInv
    PROVE  IsFiniteSet(Rules!Rows) /\ Cardinality(Rules!Rows) \in Nat
<1>1. 1 \in Int /\ nextId - 1 \in Int
  BY DEF RuleInv, RuleTypes
<1>2. \A a, b \in Int : IsFiniteSet(a..b)
  BY FS_Interval
<1>3. IsFiniteSet(1..nextId - 1)
  BY <1>1, <1>2
<1>4. IsFiniteSet(Rules!Rows)
  BY <1>3, FS_Subset DEF RuleInv, IdsOK
<1> QED BY <1>4, FS_CardinalityType

\* What a step leaves as it is when no scrub moves.
LEMMA NoScrubMoves ==
    ASSUME RuleInv, scrub' = scrub, RuleTypes', nextId' >= nextId, raced' \/ ~raced,
           raced => raced',
           \A id \in Rules!Rows' : (id \in Rules!Rows /\ rule'[id] = rule[id]) \/ id >= nextId
    PROVE  \A u \in Uploaders : ScrubOK(u)' /\ CountOK(u)'
<1> SUFFICES ASSUME NEW u \in Uploaders PROVE ScrubOK(u)' /\ CountOK(u)'
  OBVIOUS
<1>1. ScrubOK(u) /\ CountOK(u) /\ nextId \in Nat /\ nextId' \in Nat
  BY DEF RuleInv, RuleTypes
<1>2. CountOK(u)'
  BY <1>1 DEF CountOK, Rules!By
<1>3. ASSUME Reads(u)
      PROVE  /\ scrub[u].before \in Nat /\ scrub[u].before <= nextId'
             /\ ~raced' => \A n \in DOMAIN scrub[u].cases, id \in Rules!Rows' :
                   id < scrub[u].before /\ rule'[id] \in scrub[u].cases[n].of
                   => id \in scrub[u].cases[n].by
  <2>1. scrub[u].before \in Nat /\ scrub[u].before <= nextId
    BY <1>1, <1>3 DEF ScrubOK
  <2>2. scrub[u].before <= nextId'
    BY <1>1, <2>1
  <2>3. ASSUME ~raced', NEW n \in DOMAIN scrub[u].cases, NEW id \in Rules!Rows',
               id < scrub[u].before, rule'[id] \in scrub[u].cases[n].of
        PROVE  id \in scrub[u].cases[n].by
    <3>1. id \in Nat
      BY <2>3, RuleTypes' DEF Rules!Rows, Rules!Ids
    <3>2. ~(id >= nextId)
      BY <1>1, <2>1, <2>3, <3>1
    <3>3. id \in Rules!Rows /\ rule'[id] = rule[id]
      BY <3>2
    <3> QED BY <1>1, <1>3, <2>3, <3>3 DEF ScrubOK
  <2> QED BY <2>1, <2>2, <2>3
<1> QED BY <1>2, <1>3 DEF ScrubOK, Reads

\* The steps of the administrators.
LEMMA CheckRoomStep ==
    ASSUME RuleInv, NEW a \in Admins, NEW p \in Patterns, Rules!CheckRoom(a, p), MaxRules \in Nat
    PROVE  RuleInv'
<1>1. /\ admin[a].step = "idle" /\ ~Rules!Refused(p)
      /\ admin' = [admin EXCEPT ![a] = [step |-> "insert", about |-> p]]
      /\ raced' = (raced \/ \E b \in Admins \ {a} : admin[b].step = "insert")
      /\ UNCHANGED <<rule, matches, nextId, scrub, found>>
  BY DEF Rules!CheckRoom
<1>2. RuleTypes'
  <2>1. admin' \in [Admins -> AdminType]
    BY <1>1 DEF RuleInv, RuleTypes, AdminType
  <2>2. \A b \in Admins : Inserting(b)' => admin'[b].about \in Patterns
    BY <1>1 DEF RuleInv, RuleTypes, Inserting
  <2>3. raced' \in BOOLEAN
    BY <1>1 DEF RuleInv, RuleTypes
  <2> QED BY <1>1, <2>1, <2>2, <2>3 DEF RuleInv, RuleTypes
<1>3. Rules!Rows' = Rules!Rows
  BY <1>1 DEF Rules!Rows
<1>4. IdsOK'
  BY <1>1, <1>3 DEF RuleInv, IdsOK
<1>5. RoomOK'
  <2>1. Cardinality(Rules!Rows) < MaxRules
    BY <1>1, RowsFinite, RulesCardinality DEF Rules!Refused
  <2>2. Cardinality(Rules!Rows) <= MaxRules
    BY <2>1, RowsFinite
  <2>3. ASSUME ~raced', NEW b \in Admins, NEW c \in Admins, Inserting(b)', Inserting(c)' PROVE b = c
    <3>1. \A d \in Admins \ {a} : admin[d].step # "insert"
      BY <1>1, <2>3
    <3>2. \A d \in Admins \ {a} : admin'[d] = admin[d]
      BY <1>1 DEF RuleInv, RuleTypes
    <3> QED BY <2>3, <3>1, <3>2 DEF Inserting
  <2> QED BY <1>3, <2>1, <2>2, <2>3 DEF RoomOK
<1>6. \A u \in Uploaders : ScrubOK(u)' /\ CountOK(u)'
  <2>1. nextId' >= nextId
    BY <1>1 DEF RuleInv, RuleTypes
  <2>2. \A id \in Rules!Rows' : id \in Rules!Rows /\ rule'[id] = rule[id]
    BY <1>1, <1>3
  <2>3. raced => raced'
    BY <1>1
  <2> QED BY <1>1, <1>2, <2>1, <2>2, <2>3, NoScrubMoves
<1> QED BY <1>1, <1>2, <1>4, <1>5, <1>6 DEF RuleInv

LEMMA InsertRuleStep ==
    ASSUME RuleInv, NEW a \in Admins, Rules!InsertRule(a), MaxRules \in Nat, None \notin Patterns
    PROVE  RuleInv'
<1>1. /\ admin[a].step = "insert" /\ admin' = [admin EXCEPT ![a] = Rules!Waiting]
      /\ UNCHANGED <<matches, scrub, found, raced>>
  BY DEF Rules!InsertRule
<1>2. /\ nextId \in Nat \ {0} /\ rule \in [Rules!Ids -> Patterns \cup {None}]
      /\ admin \in [Admins -> AdminType] /\ admin[a].about \in Patterns
  BY <1>1 DEF RuleInv, RuleTypes, Inserting
<1>3. /\ admin' \in [Admins -> AdminType] /\ admin'[a].step = "idle"
      /\ \A b \in Admins \ {a} : admin'[b] = admin[b]
  BY <1>1, <1>2 DEF AdminType, Rules!Waiting
<1>4. \A b \in Admins : Inserting(b)' => b # a /\ Inserting(b) /\ admin'[b].about \in Patterns
  BY <1>3 DEF RuleInv, RuleTypes, Inserting
<1>5. \/ rule' = rule /\ nextId' = nextId
      \/ /\ nextId \in Rules!Ids /\ rule' = [rule EXCEPT ![nextId] = admin[a].about]
         /\ nextId' = nextId + 1
  <2>1. CASE \E id \in Rules!Rows : rule[id] = admin[a].about
    BY <2>1 DEF Rules!InsertRule
  <2>2. CASE ~ \E id \in Rules!Rows : rule[id] = admin[a].about
    <3>1. nextId <= MaxIds /\ rule' = [rule EXCEPT ![nextId] = admin[a].about] /\ nextId' = nextId + 1
      BY <2>2 DEF Rules!InsertRule
    <3>2. nextId \in Rules!Ids
      BY <1>2, <3>1 DEF Rules!Ids
    <3> QED BY <3>1, <3>2
  <2> QED BY <2>1, <2>2
<1>6. RuleTypes' /\ nextId' >= nextId
  <2>1. nextId' \in Nat \ {0} /\ nextId' >= nextId
    BY <1>2, <1>5
  <2>2. rule' \in [Rules!Ids -> Patterns \cup {None}]
    BY <1>2, <1>5
  <2> QED BY <1>1, <1>3, <1>4, <2>1, <2>2 DEF RuleInv, RuleTypes
<1>7. \/ Rules!Rows' = Rules!Rows /\ rule' = rule /\ nextId' = nextId
      \/ /\ Rules!Rows' = Rules!Rows \cup {nextId} /\ nextId \notin Rules!Rows /\ nextId' = nextId + 1
         /\ \A id \in Rules!Rows : rule'[id] = rule[id]
  <2>1. CASE rule' = rule /\ nextId' = nextId
    BY <2>1 DEF Rules!Rows
  <2>2. CASE nextId \in Rules!Ids /\ rule' = [rule EXCEPT ![nextId] = admin[a].about]
             /\ nextId' = nextId + 1
    <3>1. nextId \notin Rules!Rows
      BY <1>2 DEF RuleInv, IdsOK
    <3>2. \A id \in Rules!Ids : rule'[id] = IF id = nextId THEN admin[a].about ELSE rule[id]
      BY <1>2, <2>2
    <3>3. Rules!Rows' = Rules!Rows \cup {nextId}
      BY <1>2, <2>2, <3>2 DEF Rules!Rows
    <3>4. \A id \in Rules!Rows : rule'[id] = rule[id]
      BY <3>1, <3>2 DEF Rules!Rows
    <3> QED BY <2>2, <3>1, <3>3, <3>4
  <2> QED BY <1>5, <2>1, <2>2
<1>8. IdsOK'
  <2>1. CASE Rules!Rows' = Rules!Rows /\ nextId' = nextId
    BY <2>1 DEF RuleInv, IdsOK
  <2>2. CASE Rules!Rows' = Rules!Rows \cup {nextId} /\ nextId' = nextId + 1
    <3>1. \A id \in 1..nextId - 1 : id \in 1..nextId' - 1
      BY <1>2, <2>2
    <3>2. nextId \in 1..nextId' - 1
      BY <1>2, <2>2
    <3> QED BY <2>2, <3>1, <3>2 DEF RuleInv, IdsOK
  <2> QED BY <1>7, <2>1, <2>2
<1>9. RoomOK'
  <2> SUFFICES ASSUME ~raced PROVE RoomOK'
    BY <1>1 DEF RoomOK
  <2>1. /\ Cardinality(Rules!Rows) < MaxRules
        /\ \A b \in Admins : Inserting(b) => b = a
    BY <1>1 DEF RuleInv, RoomOK, Inserting
  <2>2. \A b \in Admins : ~Inserting(b)'
    BY <1>4, <2>1
  <2>3. IsFiniteSet(Rules!Rows) /\ Cardinality(Rules!Rows) \in Nat
    BY RowsFinite
  <2>4. Rules!Rows' = Rules!Rows \/ (Rules!Rows' = Rules!Rows \cup {nextId} /\ nextId \notin Rules!Rows)
    BY <1>7
  <2>5. Cardinality(Rules!Rows') = Cardinality(Rules!Rows)
        \/ Cardinality(Rules!Rows') = Cardinality(Rules!Rows) + 1
    BY <2>3, <2>4, FS_AddElement
  <2>6. Cardinality(Rules!Rows') <= MaxRules
    BY <2>1, <2>3, <2>5
  <2> QED BY <2>2, <2>6 DEF RoomOK
<1>10. \A u \in Uploaders : ScrubOK(u)' /\ CountOK(u)'
  <2>1. \A id \in Rules!Rows' : (id \in Rules!Rows /\ rule'[id] = rule[id]) \/ id >= nextId
    BY <1>2, <1>7
  <2> QED BY <1>1, <1>6, <2>1, NoScrubMoves
<1> QED BY <1>1, <1>6, <1>8, <1>9, <1>10 DEF RuleInv

LEMMA DeleteRuleStep ==
    ASSUME RuleInv, NEW d \in Rules!Ids, Rules!DeleteRule(d), MaxRules \in Nat
    PROVE  RuleInv'
<1>1. /\ d \in Rules!Rows /\ rule' = [rule EXCEPT ![d] = None]
      /\ matches' = [matches EXCEPT ![d] = 0] /\ found' = [found EXCEPT ![d] = 0]
      /\ UNCHANGED <<nextId, admin, scrub, raced>>
  BY DEF Rules!DeleteRule
<1>2. /\ rule' \in [Rules!Ids -> Patterns \cup {None}]
      /\ \A id \in Rules!Ids : rule'[id] = IF id = d THEN None ELSE rule[id]
  BY <1>1 DEF RuleInv, RuleTypes
<1>3. /\ matches' = [id \in Rules!Ids |-> matches'[id]] /\ found' = [id \in Rules!Ids |-> found'[id]]
      /\ \A id \in Rules!Ids : matches'[id] = found'[id]
  <2>1. matches = [id \in Rules!Ids |-> matches[id]] /\ found = [id \in Rules!Ids |-> found[id]]
    BY DEF RuleInv, RuleTypes
  <2>2. matches' = [id \in Rules!Ids |-> IF id = d THEN 0 ELSE matches[id]]
    BY <1>1, <2>1
  <2>3. found' = [id \in Rules!Ids |-> IF id = d THEN 0 ELSE found[id]]
    BY <1>1, <2>1
  <2> QED BY <2>2, <2>3 DEF RuleInv
<1>4. RuleTypes'
  BY <1>1, <1>2, <1>3 DEF RuleInv, RuleTypes, Inserting
<1>5. Rules!Rows' = Rules!Rows \ {d}
  BY <1>1, <1>2 DEF Rules!Rows
<1>6. IdsOK'
  BY <1>1, <1>5 DEF RuleInv, IdsOK
<1>7. RoomOK'
  <2>1. IsFiniteSet(Rules!Rows) /\ Cardinality(Rules!Rows) \in Nat
    BY RowsFinite
  <2>2. Cardinality(Rules!Rows') = Cardinality(Rules!Rows) - 1
    BY <1>1, <1>5, <2>1, FS_RemoveElement
  <2>3. \A b \in Admins : Inserting(b)' = Inserting(b)
    BY <1>1 DEF Inserting
  <2>4. Cardinality(Rules!Rows) <= MaxRules => Cardinality(Rules!Rows') <= MaxRules
    BY <2>1, <2>2
  <2>5. Cardinality(Rules!Rows) < MaxRules => Cardinality(Rules!Rows') < MaxRules
    BY <2>1, <2>2
  <2> QED BY <1>1, <2>3, <2>4, <2>5 DEF RuleInv, RoomOK
<1>8. \A u \in Uploaders : ScrubOK(u)' /\ CountOK(u)'
  <2>1. \A id \in Rules!Rows' : id \in Rules!Rows /\ rule'[id] = rule[id]
    BY <1>2, <1>5 DEF Rules!Rows
  <2>2. nextId' >= nextId
    BY <1>1 DEF RuleInv, RuleTypes
  <2> QED BY <1>1, <1>4, <2>1, <2>2, NoScrubMoves
<1> QED BY <1>3, <1>4, <1>6, <1>7, <1>8 DEF RuleInv

\* What a step of one scrub leaves as it is.
LEMMA OneScrubMoves ==
    ASSUME RuleInv, NEW u \in Uploaders, UNCHANGED <<rule, nextId, admin, raced>>,
           \A v \in Uploaders \ {u} : scrub'[v] = scrub[v],
           RuleTypes', ScrubOK(u)', CountOK(u)', \A id \in Rules!Ids : matches'[id] = found'[id]
    PROVE  RuleInv'
<1>1. Rules!Rows' = Rules!Rows
  BY DEF Rules!Rows
<1>2. IdsOK' /\ RoomOK'
  BY <1>1 DEF RuleInv, IdsOK, RoomOK, Inserting
<1>3. ASSUME NEW v \in Uploaders, v # u PROVE ScrubOK(v)' /\ CountOK(v)'
  <2>1. scrub'[v] = scrub[v] /\ ScrubOK(v) /\ CountOK(v)
    BY <1>3 DEF RuleInv
  <2>2. ScrubOK(v)'
    BY <1>1, <2>1 DEF ScrubOK, Reads
  <2>3. CountOK(v)'
    BY <2>1 DEF CountOK, Rules!By
  <2> QED BY <2>2, <2>3
<1> QED BY <1>2, <1>3 DEF RuleInv

\* Without a race LIMIT keeps no rule out.
LEMMA AllEnabled ==
    ASSUME RuleInv, ~raced, MaxRules \in Nat
    PROVE  Rules!Enabled = Rules!Rows
<1> SUFFICES ASSUME NEW id \in Rules!Rows PROVE Cardinality({k \in Rules!Rows : k < id}) < MaxRules
  BY RulesCardinality DEF Rules!Enabled
<1> PICK S : S = {k \in Rules!Rows : k < id}
  OBVIOUS
<1>1. IsFiniteSet(Rules!Rows) /\ Cardinality(Rules!Rows) \in Nat /\ Cardinality(Rules!Rows) <= MaxRules
  BY RowsFinite DEF RuleInv, RoomOK
<1>2. id \in 1..nextId - 1 /\ nextId \in Nat
  BY DEF RuleInv, RuleTypes, IdsOK
<1>3. id \notin S /\ S \subseteq Rules!Rows
  BY <1>2
<1>4. IsFiniteSet(Rules!Rows \ {id}) /\ Cardinality(Rules!Rows \ {id}) = Cardinality(Rules!Rows) - 1
  BY <1>1, FS_RemoveElement
<1>5. S \subseteq Rules!Rows \ {id}
  BY <1>3
<1>6. IsFiniteSet(S) /\ Cardinality(S) <= Cardinality(Rules!Rows \ {id})
  BY <1>4, <1>5, FS_Subset
<1>7. Cardinality(S) \in Nat
  BY <1>6, FS_CardinalityType
<1> QED BY <1>1, <1>4, <1>6, <1>7

\* A scrub keeps its fields.
LEMMA ScrubTypes ==
    ASSUME RuleInv, NEW u \in Uploaders, NEW r, scrub' = [scrub EXCEPT ![u] = r],
           r = [step |-> r.step, cases |-> r.cases, before |-> r.before,
                loaded |-> r.loaded, todo |-> r.todo, done |-> r.done]
    PROVE  /\ scrub'[u] = r /\ \A v \in Uploaders \ {u} : scrub'[v] = scrub[v]
           /\ scrub' = [v \in Uploaders |->
                [step |-> scrub'[v].step, cases |-> scrub'[v].cases, before |-> scrub'[v].before,
                 loaded |-> scrub'[v].loaded, todo |-> scrub'[v].todo, done |-> scrub'[v].done]]
<1>1. scrub = [v \in Uploaders |->
          [step |-> scrub[v].step, cases |-> scrub[v].cases, before |-> scrub[v].before,
           loaded |-> scrub[v].loaded, todo |-> scrub[v].todo, done |-> scrub[v].done]]
  BY DEF RuleInv, RuleTypes
<1>2. scrub'[u] = r /\ \A v \in Uploaders \ {u} : scrub'[v] = scrub[v]
  BY <1>1
<1>3. scrub' = [v \in Uploaders |-> scrub'[v]]
  BY <1>1
<1>4. \A v \in Uploaders : scrub'[v] =
          [step |-> scrub'[v].step, cases |-> scrub'[v].cases, before |-> scrub'[v].before,
           loaded |-> scrub'[v].loaded, todo |-> scrub'[v].todo, done |-> scrub'[v].done]
  BY <1>1, <1>2
<1> QED BY <1>2, <1>3, <1>4

\* The steps of a scrub.
LEMMA LoadStep ==
    ASSUME RuleInv, NEW u \in Uploaders, Rules!Load(u), MaxRules \in Nat
    PROVE  RuleInv'
<1> DEFINE cs == [n \in DOMAIN Contents[u] |->
                    [by |-> {id \in Rules!Enabled : rule[id] \in Contents[u][n]}, of |-> Contents[u][n]]]
           td == {id \in Rules!Enabled : \E n \in DOMAIN Contents[u] : rule[id] \in Contents[u][n]}
<1> PICK r : r = [step |-> "compared", cases |-> cs, before |-> nextId, loaded |-> Rules!Enabled,
                  todo |-> td, done |-> {}]
  OBVIOUS
<1>1. scrub' = [scrub EXCEPT ![u] = r] /\ UNCHANGED <<rule, matches, nextId, admin, found, raced>>
  BY DEF Rules!Load
<1>2. r = [step |-> r.step, cases |-> r.cases, before |-> r.before,
           loaded |-> r.loaded, todo |-> r.todo, done |-> r.done]
  OBVIOUS
<1>3. scrub'[u] = r /\ \A v \in Uploaders \ {u} : scrub'[v] = scrub[v]
  BY <1>1, <1>2, ScrubTypes
<1>4. RuleTypes'
  BY <1>1, <1>2, ScrubTypes DEF RuleInv, RuleTypes, Inserting
<1>5. \A n \in DOMAIN cs : cs[n].by = {id \in Rules!Enabled : rule[id] \in Contents[u][n]}
      /\ cs[n].of = Contents[u][n]
  OBVIOUS
<1>6. DOMAIN cs = DOMAIN Contents[u]
  OBVIOUS
<1>7. \A id : id \in td <=> id \in Rules!Enabled /\ \E n \in DOMAIN cs : rule[id] \in Contents[u][n]
  BY <1>6
<1> HIDE DEF cs, td
<1>8. ScrubOK(u)'
  <2>1. nextId \in Nat /\ nextId <= nextId
    BY DEF RuleInv, RuleTypes
  <2>2. Rules!Rows' = Rules!Rows
    BY <1>1 DEF Rules!Rows
  <2>3. ~raced => \A n \in DOMAIN cs, id \in Rules!Rows : rule[id] \in cs[n].of => id \in cs[n].by
    BY <1>5, AllEnabled
  <2> QED BY <1>1, <1>3, <2>1, <2>2, <2>3 DEF ScrubOK, Reads
<1>9. CountOK(u)'
  <2>1. \A id : Rules!By(u, id)' = {n \in DOMAIN cs : id \in cs[n].by}
    BY <1>3 DEF Rules!By
  <2>2. ASSUME NEW id \in Rules!Enabled, id \notin td PROVE Rules!By(u, id)' = {}
    BY <1>5, <1>7, <2>1, <2>2
  <2>3. td \subseteq Rules!Enabled
    BY <1>7
  <2> QED BY <1>3, <2>2, <2>3 DEF CountOK
<1>10. \A id \in Rules!Ids : matches'[id] = found'[id]
  BY <1>1 DEF RuleInv
<1> QED BY <1>1, <1>3, <1>4, <1>8, <1>9, <1>10, OneScrubMoves

LEMMA CountRuleStep ==
    ASSUME RuleInv, NEW u \in Uploaders, Rules!CountRule(u)
    PROVE  RuleInv'
<1>1. scrub[u].step = "compared" /\ UNCHANGED <<rule, matches, nextId, admin, found, raced>>
  BY DEF Rules!CountRule
<1> PICK id \in scrub[u].todo :
      scrub' = [scrub EXCEPT ![u].todo = @ \ {id}, ![u].done = @ \cup {id}]
  BY DEF Rules!CountRule
<1>0. PICK r : r = [step |-> scrub[u].step, cases |-> scrub[u].cases, before |-> scrub[u].before,
                  loaded |-> scrub[u].loaded, todo |-> scrub[u].todo \ {id},
                  done |-> scrub[u].done \cup {id}]
  OBVIOUS
<1>2. /\ r = [step |-> r.step, cases |-> r.cases, before |-> r.before,
              loaded |-> r.loaded, todo |-> r.todo, done |-> r.done]
      /\ r.step = scrub[u].step /\ r.cases = scrub[u].cases /\ r.before = scrub[u].before
      /\ r.loaded = scrub[u].loaded
      /\ r.todo = scrub[u].todo \ {id} /\ r.done = scrub[u].done \cup {id}
  BY <1>0
<1>3. scrub' = [scrub EXCEPT ![u] = r]
  <2>1. PICK s : s = scrub[u]
    OBVIOUS
  <2>2. PICK st, cs, bf, ld, td, dn :
          s = [step |-> st, cases |-> cs, before |-> bf, loaded |-> ld, todo |-> td, done |-> dn]
    <3>1. scrub[u] = [step |-> scrub[u].step, cases |-> scrub[u].cases, before |-> scrub[u].before,
                      loaded |-> scrub[u].loaded, todo |-> scrub[u].todo, done |-> scrub[u].done]
      BY DEF RuleInv, RuleTypes
    <3> QED BY ONLY <2>1, <3>1
  <2>3. PICK t : t = [s EXCEPT !.todo = @ \ {id}]
    OBVIOUS
  <2>4. t = [step |-> st, cases |-> cs, before |-> bf, loaded |-> ld, todo |-> td \ {id}, done |-> dn]
    BY ONLY <2>2, <2>3
  <2>5. [t EXCEPT !.done = @ \cup {id}]
          = [step |-> st, cases |-> cs, before |-> bf, loaded |-> ld, todo |-> td \ {id}, done |-> dn \cup {id}]
    BY ONLY <2>4
  <2>6. [s EXCEPT !.todo = @ \ {id}, !.done = @ \cup {id}] = [t EXCEPT !.done = @ \cup {id}]
    BY ONLY <2>2, <2>3
  <2>7. r = [step |-> st, cases |-> cs, before |-> bf, loaded |-> ld, todo |-> td \ {id}, done |-> dn \cup {id}]
    BY ONLY <1>0, <2>1, <2>2
  <2>8. scrub' = [scrub EXCEPT ![u] = [s EXCEPT !.todo = @ \ {id}, !.done = @ \cup {id}]]
    BY <2>1
  <2> QED BY ONLY <2>5, <2>6, <2>7, <2>8
<1>4. scrub'[u] = r /\ \A v \in Uploaders \ {u} : scrub'[v] = scrub[v]
  BY <1>2, <1>3, ScrubTypes
<1>5. RuleTypes'
  BY <1>1, <1>2, <1>3, ScrubTypes DEF RuleInv, RuleTypes, Inserting
<1>6. ScrubOK(u)'
  <2>1. ScrubOK(u) /\ Reads(u) /\ Rules!Rows' = Rules!Rows
    BY <1>1 DEF RuleInv, Reads, Rules!Rows
  <2>2. /\ scrub'[u].step = scrub[u].step /\ scrub'[u].cases = scrub[u].cases
        /\ scrub'[u].before = scrub[u].before
    BY <1>2, <1>4
  <2> QED BY <1>1, <2>1, <2>2 DEF ScrubOK, Reads
<1>7. CountOK(u)'
  <2>1. \A i : Rules!By(u, i)' = Rules!By(u, i)
    BY <1>2, <1>4 DEF Rules!By
  <2>2. /\ CountOK(u) /\ scrub'[u].loaded = scrub[u].loaded
        /\ scrub'[u].todo = scrub[u].todo \ {id} /\ scrub'[u].done = scrub[u].done \cup {id}
    BY <1>2, <1>4 DEF RuleInv
  <2>3. scrub'[u].todo \cup scrub'[u].done = scrub[u].todo \cup scrub[u].done
    BY <2>2
  <2> QED BY <1>1, <2>1, <2>2, <2>3 DEF CountOK
<1>8. \A i \in Rules!Ids : matches'[i] = found'[i]
  BY <1>1 DEF RuleInv
<1> QED BY <1>1, <1>4, <1>5, <1>6, <1>7, <1>8, OneScrubMoves

LEMMA CommitStep ==
    ASSUME RuleInv, NEW u \in Uploaders, Rules!Commit(u)
    PROVE  RuleInv'
<1>1. /\ scrub[u].step = "compared" /\ scrub[u].todo = {}
      /\ matches' = Rules!Added(matches, u, scrub[u].done \cap Rules!Rows)
      /\ found' = Rules!Added(found, u, scrub[u].loaded \cap Rules!Rows)
      /\ scrub' = [scrub EXCEPT ![u].step = "scrubbed", ![u].loaded = {}, ![u].done = {}]
      /\ UNCHANGED <<rule, nextId, admin, raced>>
  BY DEF Rules!Commit
<1>0. PICK r : r = [step |-> "scrubbed", cases |-> scrub[u].cases, before |-> scrub[u].before,
                  loaded |-> {}, todo |-> scrub[u].todo, done |-> {}]
  OBVIOUS
<1>2. /\ r = [step |-> r.step, cases |-> r.cases, before |-> r.before,
              loaded |-> r.loaded, todo |-> r.todo, done |-> r.done]
      /\ r.step = "scrubbed" /\ r.cases = scrub[u].cases /\ r.before = scrub[u].before
  BY <1>0
<1>3. scrub' = [scrub EXCEPT ![u] = r]
  <2>1. PICK s : s = scrub[u]
    OBVIOUS
  <2>2. PICK st, cs, bf, ld, td, dn :
          s = [step |-> st, cases |-> cs, before |-> bf, loaded |-> ld, todo |-> td, done |-> dn]
    <3>1. scrub[u] = [step |-> scrub[u].step, cases |-> scrub[u].cases, before |-> scrub[u].before,
                      loaded |-> scrub[u].loaded, todo |-> scrub[u].todo, done |-> scrub[u].done]
      BY DEF RuleInv, RuleTypes
    <3> QED BY ONLY <2>1, <3>1
  <2>3. PICK t : t = [s EXCEPT !.step = "scrubbed"]
    OBVIOUS
  <2>4. t = [step |-> "scrubbed", cases |-> cs, before |-> bf, loaded |-> ld, todo |-> td, done |-> dn]
    BY ONLY <2>2, <2>3
  <2>5. PICK v : v = [t EXCEPT !.loaded = {}]
    OBVIOUS
  <2>6. v = [step |-> "scrubbed", cases |-> cs, before |-> bf, loaded |-> {}, todo |-> td, done |-> dn]
    BY ONLY <2>4, <2>5
  <2>7. [v EXCEPT !.done = {}]
          = [step |-> "scrubbed", cases |-> cs, before |-> bf, loaded |-> {}, todo |-> td, done |-> {}]
    BY ONLY <2>6
  <2>8. [s EXCEPT !.step = "scrubbed", !.loaded = {}, !.done = {}] = [v EXCEPT !.done = {}]
    BY ONLY <2>2, <2>3, <2>5
  <2>9. r = [step |-> "scrubbed", cases |-> cs, before |-> bf, loaded |-> {}, todo |-> td, done |-> {}]
    BY ONLY <1>0, <2>1, <2>2
  <2>10. scrub' = [scrub EXCEPT ![u] = [s EXCEPT !.step = "scrubbed", !.loaded = {}, !.done = {}]]
    BY <1>1, <2>1
  <2> QED BY ONLY <2>7, <2>8, <2>9, <2>10
<1>4. scrub'[u] = r /\ \A v \in Uploaders \ {u} : scrub'[v] = scrub[v]
  BY <1>2, <1>3, ScrubTypes
<1>5. RuleTypes'
  <2>1. matches' = [id \in Rules!Ids |-> matches'[id]] /\ found' = [id \in Rules!Ids |-> found'[id]]
    BY <1>1 DEF Rules!Added
  <2>2. scrub' = [v \in Uploaders |->
                [step |-> scrub'[v].step, cases |-> scrub'[v].cases, before |-> scrub'[v].before,
                 loaded |-> scrub'[v].loaded, todo |-> scrub'[v].todo, done |-> scrub'[v].done]]
    BY <1>2, <1>3, ScrubTypes
  <2> QED BY <1>1, <2>1, <2>2 DEF RuleInv, RuleTypes, Inserting
<1>6. ScrubOK(u)'
  <2>1. ScrubOK(u) /\ Reads(u) /\ Rules!Rows' = Rules!Rows
    BY <1>1 DEF RuleInv, Reads, Rules!Rows
  <2>2. scrub'[u].cases = scrub[u].cases /\ scrub'[u].before = scrub[u].before
    BY <1>2, <1>4
  <2> QED BY <1>1, <2>1, <2>2 DEF ScrubOK, Reads
<1>7. CountOK(u)'
  BY <1>2, <1>4 DEF CountOK
<1>8. ASSUME NEW id \in Rules!Ids PROVE matches'[id] = found'[id]
  <2> DEFINE n == Cardinality(Rules!By(u, id))
             mine == IF id \in scrub[u].done \cap Rules!Rows THEN n ELSE 0
             seen == IF id \in scrub[u].loaded \cap Rules!Rows THEN n ELSE 0
  <2>1. CountOK(u) /\ matches[id] = found[id]
    BY DEF RuleInv
  <2>2. matches'[id] = matches[id] + mine /\ found'[id] = found[id] + seen
    BY <1>1, RulesCardinality DEF Rules!Added
  <2>3. mine = seen
    <3>1. CASE id \in scrub[u].done
      BY <1>1, <2>1, <3>1 DEF CountOK
    <3>2. CASE id \in scrub[u].loaded \ scrub[u].done
      <4>1. Rules!By(u, id) = {}
        BY <1>1, <2>1, <3>2 DEF CountOK
      <4>2. n = 0
        BY <4>1, FS_EmptySet
      <4> QED BY <4>2
    <3>3. CASE id \notin scrub[u].loaded
      BY <1>1, <2>1, <3>3 DEF CountOK
    <3> QED BY <3>1, <3>2, <3>3
  <2> HIDE DEF mine, seen
  <2> QED BY <2>1, <2>2, <2>3
<1> QED BY <1>1, <1>4, <1>5, <1>6, <1>7, <1>8, OneScrubMoves

LEMMA ScrubFailsStep ==
    ASSUME RuleInv, NEW u \in Uploaders, Rules!ScrubFails(u)
    PROVE  RuleInv'
<1> PICK r : r = [Rules!NoScrub EXCEPT !.step = "failed"]
  OBVIOUS
<1>1. scrub' = [scrub EXCEPT ![u] = r] /\ UNCHANGED <<rule, matches, nextId, admin, found, raced>>
  BY DEF Rules!ScrubFails
<1>2. r.step = "failed" /\ r = [step |-> r.step, cases |-> r.cases, before |-> r.before,
                                loaded |-> r.loaded, todo |-> r.todo, done |-> r.done]
  BY DEF Rules!NoScrub
<1>3. scrub'[u] = r /\ \A v \in Uploaders \ {u} : scrub'[v] = scrub[v]
  BY <1>1, <1>2, ScrubTypes
<1>4. RuleTypes'
  BY <1>1, <1>2, ScrubTypes DEF RuleInv, RuleTypes, Inserting
<1>5. ScrubOK(u)' /\ CountOK(u)'
  BY <1>2, <1>3 DEF ScrubOK, CountOK, Reads
<1>6. \A id \in Rules!Ids : matches'[id] = found'[id]
  BY <1>1 DEF RuleInv
<1> QED BY <1>1, <1>3, <1>4, <1>5, <1>6, OneScrubMoves

-----------------------------------------------------------------------------

\* The invariant holds at the start and after every step.
LEMMA RulesInit ==
    ASSUME Rules!ScrubAssumption, Rules!Init
    PROVE  RuleInv
<1>1. Rules!Rows = {}
  BY DEF Rules!Init, Rules!Rows
<1>2. RuleTypes
  <2>1. /\ matches = [id \in Rules!Ids |-> matches[id]] /\ found = [id \in Rules!Ids |-> found[id]]
        /\ rule \in [Rules!Ids -> Patterns \cup {None}]
    BY DEF Rules!Init
  <2>2. admin \in [Admins -> AdminType] /\ \A a \in Admins : ~Inserting(a)
    BY DEF Rules!Init, Rules!Waiting, AdminType, Inserting
  <2>3. Rules!NoScrub = [step |-> Rules!NoScrub.step, cases |-> Rules!NoScrub.cases, before |-> Rules!NoScrub.before,
                         loaded |-> Rules!NoScrub.loaded, todo |-> Rules!NoScrub.todo,
                         done |-> Rules!NoScrub.done]
    BY DEF Rules!NoScrub
  <2>4. scrub = [u \in Uploaders |-> Rules!NoScrub]
    BY DEF Rules!Init
  <2>5. scrub = [u \in Uploaders |->
          [step |-> scrub[u].step, cases |-> scrub[u].cases, before |-> scrub[u].before,
           loaded |-> scrub[u].loaded, todo |-> scrub[u].todo, done |-> scrub[u].done]]
    BY <2>3, <2>4
  <2>6. nextId \in Nat \ {0}
    BY DEF Rules!Init
  <2>7. raced \in BOOLEAN
    BY DEF Rules!Init
  <2> QED BY <2>1, <2>2, <2>5, <2>6, <2>7 DEF RuleTypes
<1>3. Cardinality(Rules!Rows) = 0 /\ \A a \in Admins : ~Inserting(a)
  BY <1>1, FS_EmptySet DEF Rules!Init, Inserting, Rules!Waiting
<1>4. RoomOK
  BY <1>3 DEF Rules!ScrubAssumption, RoomOK
<1>5. \A u \in Uploaders : ScrubOK(u) /\ CountOK(u)
  BY DEF Rules!Init, Rules!NoScrub, ScrubOK, CountOK, Reads
<1> QED BY <1>1, <1>2, <1>4, <1>5 DEF Rules!Init, RuleInv, IdsOK

LEMMA RulesNext ==
    ASSUME Rules!ScrubAssumption, RuleInv, [Rules!Next]_Rules!vars
    PROVE  RuleInv'
<1>1. CASE Rules!Next
  BY <1>1, CheckRoomStep, InsertRuleStep, DeleteRuleStep, LoadStep, CountRuleStep, CommitStep,
     ScrubFailsStep
  DEF Rules!Next, Rules!ScrubAssumption
<1>2. CASE UNCHANGED Rules!vars
  <2>1. UNCHANGED <<rule, matches, nextId, admin, scrub, found, raced>>
    BY <1>2 DEF Rules!vars
  <2>2. RuleTypes' /\ Rules!Rows' = Rules!Rows
    BY <2>1 DEF RuleInv, RuleTypes, Rules!Rows, Inserting
  <2>3. IdsOK' /\ RoomOK'
    BY <2>1, <2>2 DEF RuleInv, IdsOK, RoomOK, Inserting
  <2>4. \A u \in Uploaders : ScrubOK(u)' /\ CountOK(u)'
    BY <2>1, <2>2 DEF RuleInv, ScrubOK, CountOK, Reads, Rules!By
  <2> QED BY <2>1, <2>2, <2>3, <2>4 DEF RuleInv
<1> QED BY <1>1, <1>2

\* A rule that was loaded and matches has been noted with the case.
LEMMA RulesAgree ==
    ASSUME RuleInv
    PROVE  Rules!RulesApply /\ Rules!MatchesCounted
<1>1. Rules!RulesApply
  BY DEF RuleInv, Rules!RulesApply, ScrubOK, Reads, Rules!Accepted
<1>2. Rules!MatchesCounted
  BY DEF RuleInv, Rules!MatchesCounted, Rules!Rows
<1> QED BY <1>1, <1>2

LEMMA RulesReach ==
    ASSUME Rules!ScrubAssumption
    PROVE  Rules!Spec => []Rules!RulesApply
<1>1. Rules!Init => RuleInv
  BY RulesInit
<1>2. RuleInv /\ [Rules!Next]_Rules!vars => RuleInv'
  BY RulesNext
<1>3. RuleInv => Rules!RulesApply
  BY RulesAgree
<1> QED BY <1>1, <1>2, <1>3, PTL DEF Rules!Spec

LEMMA MatchesCount ==
    ASSUME Rules!ScrubAssumption
    PROVE  Rules!Spec => []Rules!MatchesCounted
<1>1. Rules!Init => RuleInv
  BY RulesInit
<1>2. RuleInv /\ [Rules!Next]_Rules!vars => RuleInv'
  BY RulesNext
<1>3. RuleInv => Rules!MatchesCounted
  BY RulesAgree
<1> QED BY <1>1, <1>2, <1>3, PTL DEF Rules!Spec

-----------------------------------------------------------------------------
(***************************************************************************)
(* The request counters (ApiMetrics).  A sum is the number of pairs of a   *)
(* member and a unit of its number, so that what sums obey follows from    *)
(* the cardinalities of finite sets, by induction over the subsets of a    *)
(* set.                                                                    *)
(*                                                                         *)
(* CountInv is bookkeeping: what is stored and what is out (pending, in    *)
(* the hand of a thread, or lost) makes all there is, in the totals and in *)
(* the rows of every day from today on.  A flush that began yesterday may  *)
(* still add to the row of yesterday, but never deletes that of today,     *)
(* because the date it read is not from tomorrow.  Buckets and entries     *)
(* agree wherever counts are: pending, in hand, in the tables, in the live *)
(* counters and in those that a viewer has seen.                           *)
(***************************************************************************)

\* Induction over a finite set, of a property given by the set of the sets that have it.
LEMMA FiniteInduction ==
    ASSUME NEW S, IsFiniteSet(S), NEW F \in SUBSET SUBSET S, {} \in F,
           \A T \in F : \A x \in S \ T : T \cup {x} \in F
    PROVE  S \in F
<1> DEFINE Less == {ss \in Nat \X Nat : ss[1] < ss[2]}
           Left == {Cardinality(S \ T) : T \in F}
<1>1. \A T \in SUBSET S : IsFiniteSet(S \ T) /\ Cardinality(S \ T) \in Nat
  <2> TAKE T \in SUBSET S
  <2>1. S \ T \in SUBSET S
    OBVIOUS
  <2>2. IsFiniteSet(S \ T)
    BY <2>1, FS_Subset
  <2> QED BY <2>2, FS_CardinalityType
<1>2. Left \subseteq Nat /\ Left # {}
  BY <1>1
<1>3. PICK m \in Left : \A k \in Left : <<k, m>> \notin Less
  <2>1. IsWellFoundedOn(Less, Nat)
    BY NatLessThanWellFounded DEF OpToRel
  <2> HIDE DEF Less, Left
  <2> QED BY <1>2, <2>1, WFMin
<1>4. PICK T \in F : m = Cardinality(S \ T)
  BY <1>3
<1>5. CASE S \ T = {}
  <2>1. T = S
    BY <1>4, <1>5
  <2> QED BY <1>4, <2>1
<1>6. CASE S \ T # {}
  <2>1. PICK x \in S \ T : TRUE
    BY <1>6
  <2> DEFINE U == T \cup {x}
  <2>2. U \in F /\ S \ U = (S \ T) \ {x}
    BY <1>4, <2>1
  <2>3. Cardinality(S \ U) = Cardinality(S \ T) - 1
    <3>1. IsFiniteSet(S \ T)
      BY <1>1, <1>4
    <3>2. Cardinality((S \ T) \ {x}) = Cardinality(S \ T) - 1
      BY <2>1, <3>1, FS_RemoveElement
    <3> QED BY <2>2, <3>2
  <2>4. Cardinality(S \ U) \in Left /\ m \in Nat /\ Cardinality(S \ U) \in Nat
    BY <1>1, <1>2, <1>3, <2>2
  <2>5. <<Cardinality(S \ U), m>> \in Less
    BY <1>4, <2>3, <2>4
  <2> QED BY <1>3, <2>4, <2>5
<1> QED BY <1>5, <1>6

-----------------------------------------------------------------------------
Units(n, S) == UNION {{x} \X (1..n[x]) : x \in S}
Total(n, S) == Cardinality(Units(n, S))

\* One more member adds its number.
LEMMA TotalAdd ==
    ASSUME NEW S, NEW n, NEW x, x \notin S, n[x] \in Nat, IsFiniteSet(Units(n, S))
    PROVE  /\ IsFiniteSet(Units(n, S \cup {x}))
           /\ Total(n, S \cup {x}) = Total(n, S) + n[x]
<1> DEFINE A == Units(n, S)
           B == {x} \X (1..n[x])
<1>1. Units(n, S \cup {x}) = A \cup B
  BY DEF Units
<1>2. A \cap B = {}
  BY DEF Units
<1>3. IsFiniteSet(1..n[x]) /\ Cardinality(1..n[x]) = n[x]
  <2>1. 1 \in Int /\ n[x] \in Int
    OBVIOUS
  <2>2. \A a, b \in Int : IsFiniteSet(a..b) /\ Cardinality(a..b) = IF a > b THEN 0 ELSE b - a + 1
    BY FS_Interval
  <2>3. IsFiniteSet(1..n[x]) /\ Cardinality(1..n[x]) = IF 1 > n[x] THEN 0 ELSE n[x] - 1 + 1
    BY <2>1, <2>2
  <2> QED BY <2>3
<1>4. IsFiniteSet(B) /\ Cardinality(B) = n[x]
  <2>1. IsFiniteSet({x}) /\ Cardinality({x}) = 1
    BY FS_Singleton
  <2>2. IsFiniteSet(B) /\ Cardinality(B) = Cardinality({x}) * Cardinality(1..n[x])
    BY <1>3, <2>1, FS_Product
  <2> QED BY <1>3, <2>1, <2>2
<1> HIDE DEF A, B
<1>5. IsFiniteSet(A) /\ Cardinality(A) \in Nat /\ Total(n, S) = Cardinality(A)
  BY FS_CardinalityType DEF A, Total
<1>6. IsFiniteSet(A \cup B) /\ Cardinality(A \cup B) = Cardinality(A) + Cardinality(B) - Cardinality(A \cap B)
  BY <1>4, <1>5, FS_Union
<1>7. Cardinality(A \cap B) = 0
  BY <1>2, FS_EmptySet
<1>8. Total(n, S \cup {x}) = Cardinality(A \cup B) /\ IsFiniteSet(Units(n, S \cup {x}))
  BY <1>1, <1>6 DEF Total
<1> QED BY <1>4, <1>5, <1>6, <1>7, <1>8

LEMMA TotalGrows ==
    ASSUME NEW S, NEW x, x \notin S
    PROVE  \A n : n[x] \in Nat /\ IsFiniteSet(Units(n, S)) => Total(n, S \cup {x}) = Total(n, S) + n[x]
BY TotalAdd

LEMMA TotalNone == ASSUME NEW n PROVE Units(n, {}) = {} /\ Total(n, {}) = 0
BY FS_EmptySet DEF Units, Total

\* A sum of numbers is a number.
LEMMA TotalNat ==
    ASSUME NEW S, IsFiniteSet(S), NEW n, \A x \in S : n[x] \in Nat
    PROVE  IsFiniteSet(Units(n, S)) /\ Total(n, S) \in Nat
<1> DEFINE F == {T \in SUBSET S : IsFiniteSet(Units(n, T))}
<1>1. {} \in F
  BY TotalNone, FS_EmptySet
<1>2. \A T \in F : \A x \in S \ T : T \cup {x} \in F
  BY TotalAdd
<1>3. S \in F
  <2>1. F \in SUBSET SUBSET S
    OBVIOUS
  <2> HIDE DEF F
  <2> QED BY <1>1, <1>2, <2>1, FiniteInduction
<1> QED BY <1>3, FS_CardinalityType DEF Total

LEMMA TotalWith ==
    ASSUME NEW S, IsFiniteSet(S), NEW n, \A y \in S : n[y] \in Nat, NEW x \in S
    PROVE  /\ Total(n, S) = Total(n, S \ {x}) + n[x]
           /\ Total(n, S \ {x}) \in Nat
<1> DEFINE T == S \ {x}
<1>1. IsFiniteSet(T) /\ x \notin T /\ T \cup {x} = S
  <2>1. T \in SUBSET S
    OBVIOUS
  <2> QED BY <2>1, FS_Subset
<1>2. IsFiniteSet(Units(n, T)) /\ Total(n, T) \in Nat
  BY <1>1, TotalNat
<1> HIDE DEF T
<1>3. Total(n, T \cup {x}) = Total(n, T) + n[x]
  BY <1>1, <1>2, TotalAdd
<1> QED BY <1>1, <1>2, <1>3 DEF T

LEMMA TotalSame ==
    ASSUME NEW S, NEW n, NEW k, \A x \in S : n[x] = k[x]
    PROVE  Total(n, S) = Total(k, S)
<1>1. Units(n, S) = Units(k, S)
  BY DEF Units
<1> QED BY <1>1 DEF Total

LEMMA TotalZero ==
    ASSUME NEW S, NEW n, \A x \in S : n[x] = 0
    PROVE  Total(n, S) = 0
<1>1. Units(n, S) = {}
  BY DEF Units
<1> QED BY <1>1, FS_EmptySet DEF Total

LEMMA TotalOrder ==
    ASSUME NEW S, IsFiniteSet(S), NEW n, NEW k, \A x \in S : n[x] \in Nat /\ k[x] \in Nat /\ n[x] <= k[x]
    PROVE  Total(n, S) <= Total(k, S)
<1>1. Units(n, S) \in SUBSET Units(k, S)
  BY DEF Units
<1>2. IsFiniteSet(Units(k, S))
  BY TotalNat
<1> QED BY <1>1, <1>2, FS_Subset DEF Total

\* A sum of sums.
LEMMA TotalPlus ==
    ASSUME NEW S, IsFiniteSet(S), NEW n, NEW k, NEW h,
           \A x \in S : n[x] \in Nat /\ k[x] \in Nat /\ h[x] = n[x] + k[x]
    PROVE  Total(h, S) = Total(n, S) + Total(k, S)
<1> DEFINE F == {T \in SUBSET S : Total(h, T) = Total(n, T) + Total(k, T)}
<1>1. {} \in F
  BY TotalNone
<1>2. ASSUME NEW T \in F, NEW x \in S \ T PROVE T \cup {x} \in F
  <2>0. T \in SUBSET S /\ Total(h, T) = Total(n, T) + Total(k, T)
    OBVIOUS
  <2>1. IsFiniteSet(T) /\ \A y \in T : n[y] \in Nat /\ k[y] \in Nat /\ h[y] \in Nat
    BY <2>0, FS_Subset
  <2>2. /\ IsFiniteSet(Units(n, T)) /\ Total(n, T) \in Nat
        /\ IsFiniteSet(Units(k, T)) /\ Total(k, T) \in Nat
        /\ IsFiniteSet(Units(h, T)) /\ Total(h, T) \in Nat
    BY <2>1, TotalNat
  <2>3. x \notin T /\ n[x] \in Nat /\ k[x] \in Nat /\ h[x] \in Nat /\ h[x] = n[x] + k[x]
    OBVIOUS
  <2>4. /\ Total(n, T \cup {x}) = Total(n, T) + n[x]
        /\ Total(k, T \cup {x}) = Total(k, T) + k[x]
        /\ Total(h, T \cup {x}) = Total(h, T) + h[x]
    BY <2>2, <2>3, TotalGrows
  <2>5. Total(h, T \cup {x}) = Total(n, T \cup {x}) + Total(k, T \cup {x})
    BY <2>0, <2>2, <2>3, <2>4
  <2>6. T \cup {x} \in SUBSET S
    BY <2>0
  <2> QED BY <2>5, <2>6
<1>3. S \in F
  <2>1. F \in SUBSET SUBSET S
    OBVIOUS
  <2> HIDE DEF F
  <2> QED BY <1>1, <1>2, <2>1, FiniteInduction
<1> QED BY <1>3

\* Another number at x.
LEMMA TotalChange ==
    ASSUME NEW S, IsFiniteSet(S), NEW n, NEW k, NEW x \in S, \A y \in S : n[y] \in Nat /\ k[y] \in Nat,
           \A y \in S \ {x} : n[y] = k[y]
    PROVE  Total(n, S) + k[x] = Total(k, S) + n[x]
<1>1. /\ Total(n, S) = Total(n, S \ {x}) + n[x] /\ Total(n, S \ {x}) \in Nat
      /\ Total(k, S) = Total(k, S \ {x}) + k[x] /\ Total(k, S \ {x}) \in Nat
  BY TotalWith
<1>2. Total(n, S \ {x}) = Total(k, S \ {x})
  BY TotalSame
<1> QED BY <1>1, <1>2

\* A set and the rest.
LEMMA TotalSplit ==
    ASSUME NEW S, IsFiniteSet(S), NEW n, \A x \in S : n[x] \in Nat, NEW T \in SUBSET S
    PROVE  Total(n, S) = Total(n, T) + Total(n, S \ T)
<1>1. Units(n, S) = Units(n, T) \cup Units(n, S \ T) /\ Units(n, T) \cap Units(n, S \ T) = {}
  BY DEF Units
<1>2. IsFiniteSet(Units(n, S)) /\ IsFiniteSet(Units(n, T)) /\ IsFiniteSet(Units(n, S \ T))
  <2>1. T \in SUBSET S /\ S \ T \in SUBSET S
    OBVIOUS
  <2>2. IsFiniteSet(T) /\ IsFiniteSet(S \ T)
    BY <2>1, FS_Subset
  <2> QED BY <2>2, TotalNat
<1>3. Cardinality(Units(n, T) \cap Units(n, S \ T)) = 0
  BY <1>1, FS_EmptySet
<1>4. Cardinality(Units(n, T)) \in Nat /\ Cardinality(Units(n, S \ T)) \in Nat
  BY <1>2, FS_CardinalityType
<1>5. Cardinality(Units(n, T) \cup Units(n, S \ T)) =
          Cardinality(Units(n, T)) + Cardinality(Units(n, S \ T)) - Cardinality(Units(n, T) \cap Units(n, S \ T))
  BY <1>2, FS_Union
<1> QED BY <1>1, <1>3, <1>4, <1>5 DEF Total

\* Rows first or columns first.
LEMMA TotalExchange ==
    ASSUME NEW S, IsFiniteSet(S), NEW D, IsFiniteSet(D), NEW n, \A x \in S, d \in D : n[x][d] \in Nat
    PROVE  Total([x \in S |-> Total(n[x], D)], S) =
           Total([d \in D |-> Total([x \in S |-> n[x][d]], S)], D)
<1> DEFINE Rows(T) == [x \in T |-> Total(n[x], D)]
           Column(d, T) == [x \in T |-> n[x][d]]
           Columns(T) == [d \in D |-> Total(Column(d, T), T)]
           F == {T \in SUBSET S : Total(Rows(T), T) = Total(Columns(T), D)}
<1>1. {} \in F
  <2>1. \A d \in D : Columns({})[d] = 0
    BY TotalNone
  <2>2. Total(Columns({}), D) = 0
    <3> HIDE DEF Columns
    <3> QED BY <2>1, TotalZero
  <2>3. Total(Rows({}), {}) = 0
    BY TotalNone
  <2> QED BY <2>2, <2>3
<1>2. ASSUME NEW T \in F, NEW x \in S \ T PROVE T \cup {x} \in F
  <2> DEFINE U == T \cup {x}
  <2>0. T \in SUBSET S /\ U \in SUBSET S /\ Total(Rows(T), T) = Total(Columns(T), D)
    OBVIOUS
  <2>1. IsFiniteSet(T) /\ x \notin T
    BY <2>0, FS_Subset
  <2>2. \A y \in S : Total(n[y], D) \in Nat
    BY TotalNat
  <2>3. Total(Rows(U), U) = Total(Rows(T), T) + Total(n[x], D)
    <3> DEFINE r == Rows(U)
    <3>1. r[x] = Total(n[x], D) /\ \A y \in T : r[y] = Rows(T)[y] /\ r[y] \in Nat
      BY <2>0, <2>2
    <3> HIDE DEF r
    <3>2. Total(r, T) = Total(Rows(T), T)
      <4> HIDE DEF Rows
      <4> QED BY <3>1, TotalSame
    <3>3. IsFiniteSet(Units(r, T))
      BY <2>1, <3>1, TotalNat
    <3>4. Total(r, T \cup {x}) = Total(r, T) + r[x]
      <4> HIDE DEF F, U
      <4>1. x \notin T /\ r[x] \in Nat
        BY <2>1, <2>2, <3>1
      <4> QED BY <4>1, <3>3, TotalAdd
    <3> QED BY <3>1, <3>2, <3>4 DEF r
  <2>4. \A d \in D : /\ Columns(T)[d] \in Nat /\ n[x][d] \in Nat
                     /\ Columns(U)[d] = Columns(T)[d] + n[x][d]
    <3> TAKE d \in D
    <3> DEFINE c == Column(d, U)
    <3>1. c[x] = n[x][d] /\ c[x] \in Nat /\ \A y \in T : c[y] = Column(d, T)[y] /\ c[y] \in Nat
      BY <2>0
    <3> HIDE DEF c
    <3>2. Total(c, T) = Total(Column(d, T), T)
      <4> HIDE DEF Column
      <4> QED BY <3>1, TotalSame
    <3>3. IsFiniteSet(Units(c, T)) /\ Total(c, T) \in Nat
      BY <2>1, <3>1, TotalNat
    <3>4. Total(c, T \cup {x}) = Total(c, T) + c[x]
      <4> HIDE DEF F, U
      <4>1. x \notin T /\ c[x] \in Nat
        BY <2>1, <3>1
      <4> QED BY <4>1, <3>3, TotalAdd
    <3>5. Columns(T)[d] = Total(Column(d, T), T) /\ Columns(U)[d] = Total(c, U)
      BY DEF c
    <3> QED BY <3>1, <3>2, <3>3, <3>4, <3>5
  <2>5. Total(Columns(U), D) = Total(Columns(T), D) + Total(n[x], D)
    <3> HIDE DEF Columns
    <3> QED BY <2>4, TotalPlus
  <2>6. Total(Rows(U), U) = Total(Columns(U), D)
    BY <2>0, <2>3, <2>5
  <2> QED BY <2>0, <2>6
<1>3. S \in F
  <2>1. F \in SUBSET SUBSET S
    OBVIOUS
  <2> HIDE DEF F
  <2> QED BY <1>1, <1>2, <2>1, FiniteInduction
<1> QED BY <1>3

-----------------------------------------------------------------------------
\* The component brings a Cardinality of its own.
LEMMA CountsCardinality == \A S : Metrics!Cardinality(S) = Cardinality(S)
<1>1. \A S : Metrics!IsFiniteSet(S) = IsFiniteSet(S)
  BY DEF Metrics!IsFiniteSet, IsFiniteSet
<1> QED BY <1>1, Zenon DEF Metrics!Cardinality, Cardinality

LEMMA SumIsTotal == \A n, S : Metrics!SumOf(n, S) = Total(n, S)
BY CountsCardinality DEF Metrics!SumOf, Total, Units

Members(b) == {e \in Entries : BucketOf[e] = b}
Counts == [entry : [Entries -> [Metrics!Days -> Nat]], bucket : [Buckets -> [Metrics!Days -> Nat]]]
LiveType ==
    [day : Metrics!Days, active : [Buckets -> Nat], today : [Buckets -> Nat],
     total : [Buckets -> Nat], entryToday : [Entries -> Nat], entryTotal : [Entries -> Nat]]
TableType ==
    [total : [Buckets -> Nat], daily : [Buckets -> [Metrics!Days -> Nat]],
     entryTotal : [Entries -> Nat], entryDaily : [Entries -> [Metrics!Days -> Nat]]]
FlushSteps == {"idle", "remote", "flush", "write", "read"}
ThreadType == [step : FlushSteps, hand : Counts, date : Metrics!Days, seen : LiveType]
RequestType ==
    [state : {"new", "done"}] \cup [state : {"started", "open"}, process : Processes, entry : Entries]

\* The sets the sums are over are finite.
LEMMA CountsFinite ==
    ASSUME Metrics!MetricsAssumption
    PROVE  /\ IsFiniteSet(Processes) /\ IsFiniteSet(Metrics!Threads) /\ IsFiniteSet(MetricRequests)
           /\ IsFiniteSet(Entries) /\ IsFiniteSet(Metrics!Days)
           /\ \A b : IsFiniteSet(Members(b))
<1>1. \A S : Metrics!IsFiniteSet(S) = IsFiniteSet(S)
  BY DEF Metrics!IsFiniteSet, IsFiniteSet
<1>2. /\ IsFiniteSet(Processes) /\ IsFiniteSet(Flushers) /\ IsFiniteSet(Viewers)
      /\ IsFiniteSet(MetricRequests) /\ IsFiniteSet(Entries)
  BY <1>1 DEF Metrics!MetricsAssumption
<1>3. IsFiniteSet(Metrics!Threads)
  BY <1>2, FS_Union DEF Metrics!Threads
<1>4. IsFiniteSet(Metrics!Days)
  <2>1. 1 \in Int /\ LastDay \in Int
    BY DEF Metrics!MetricsAssumption
  <2>2. \A a, b \in Int : IsFiniteSet(a..b)
    BY FS_Interval
  <2> QED BY <2>1, <2>2 DEF Metrics!Days
<1>5. ASSUME NEW b PROVE IsFiniteSet(Members(b))
  <2>1. Members(b) \in SUBSET Entries
    BY DEF Members
  <2> QED BY <1>2, <2>1, FS_Subset
<1> QED BY <1>2, <1>3, <1>4, <1>5

-----------------------------------------------------------------------------
(* Counts. *)
LEMMA NoneCounted ==
    /\ Metrics!NoCounts \in Counts
    /\ \A e \in Entries, d \in Metrics!Days : Metrics!NoCounts.entry[e][d] = 0
    /\ \A b \in Buckets, d \in Metrics!Days : Metrics!NoCounts.bucket[b][d] = 0
BY DEF Metrics!NoCounts, Counts

LEMMA PlusCounts ==
    ASSUME NEW c \in Counts, NEW k \in Counts
    PROVE  /\ Metrics!Plus(c, k) \in Counts
           /\ \A e \in Entries, d \in Metrics!Days : Metrics!Plus(c, k).entry[e][d] = c.entry[e][d] + k.entry[e][d]
           /\ \A b \in Buckets, d \in Metrics!Days : Metrics!Plus(c, k).bucket[b][d] = c.bucket[b][d] + k.bucket[b][d]
<1>1. /\ \A e \in Entries, d \in Metrics!Days : c.entry[e][d] \in Nat /\ k.entry[e][d] \in Nat
      /\ \A b \in Buckets, d \in Metrics!Days : c.bucket[b][d] \in Nat /\ k.bucket[b][d] \in Nat
  BY DEF Counts
<1>2. /\ \A e \in Entries, d \in Metrics!Days : c.entry[e][d] + k.entry[e][d] \in Nat
      /\ \A b \in Buckets, d \in Metrics!Days : c.bucket[b][d] + k.bucket[b][d] \in Nat
  BY <1>1
<1> QED BY <1>2 DEF Metrics!Plus, Counts

LEMMA OneCount ==
    ASSUME Metrics!MetricsAssumption, NEW x \in Entries, NEW y \in Metrics!Days
    PROVE  /\ Metrics!One(x, y) \in Counts
           /\ \A e \in Entries, d \in Metrics!Days :
                  Metrics!One(x, y).entry[e][d] = IF e = x /\ d = y THEN 1 ELSE 0
           /\ \A b \in Buckets, d \in Metrics!Days :
                  Metrics!One(x, y).bucket[b][d] = IF b = BucketOf[x] /\ d = y THEN 1 ELSE 0
<1>1. BucketOf[x] \in Buckets
  BY DEF Metrics!MetricsAssumption
<1> QED BY <1>1 DEF Metrics!One, Metrics!NoCounts, Counts

LEMMA TogetherCounts ==
    ASSUME NEW S, IsFiniteSet(S), NEW c, \A x \in S : c[x] \in Counts
    PROVE  /\ Metrics!Together(c, S) \in Counts
           /\ \A e \in Entries, d \in Metrics!Days :
                  Metrics!Together(c, S).entry[e][d] = Total([x \in S |-> c[x].entry[e][d]], S)
<1>1. /\ \A x \in S, e \in Entries, d \in Metrics!Days : c[x].entry[e][d] \in Nat
      /\ \A x \in S, b \in Buckets, d \in Metrics!Days : c[x].bucket[b][d] \in Nat
  BY DEF Counts
<1>2. ASSUME NEW e \in Entries, NEW d \in Metrics!Days
      PROVE  Metrics!SumOf([x \in S |-> c[x].entry[e][d]], S) \in Nat
  <2> DEFINE n == [x \in S |-> c[x].entry[e][d]]
  <2>1. \A x \in S : n[x] \in Nat
    BY <1>1
  <2> HIDE DEF n
  <2>2. Total(n, S) \in Nat
    BY <2>1, TotalNat
  <2>3. Metrics!SumOf(n, S) = Total(n, S)
    BY SumIsTotal
  <2> QED BY <2>2, <2>3 DEF n
<1>3. ASSUME NEW b \in Buckets, NEW d \in Metrics!Days
      PROVE  Metrics!SumOf([x \in S |-> c[x].bucket[b][d]], S) \in Nat
  <2> DEFINE n == [x \in S |-> c[x].bucket[b][d]]
  <2>1. \A x \in S : n[x] \in Nat
    BY <1>1
  <2> HIDE DEF n
  <2>2. Total(n, S) \in Nat
    BY <2>1, TotalNat
  <2>3. Metrics!SumOf(n, S) = Total(n, S)
    BY SumIsTotal
  <2> QED BY <2>2, <2>3 DEF n
<1>4. Metrics!Together(c, S) \in Counts
  <2> DEFINE A == [e \in Entries |-> [d \in Metrics!Days |-> Metrics!SumOf([x \in S |-> c[x].entry[e][d]], S)]]
             B == [b \in Buckets |-> [d \in Metrics!Days |-> Metrics!SumOf([x \in S |-> c[x].bucket[b][d]], S)]]
  <2>1. A \in [Entries -> [Metrics!Days -> Nat]]
    BY <1>2, Zenon
  <2>2. B \in [Buckets -> [Metrics!Days -> Nat]]
    BY <1>3, Zenon
  <2>3. Metrics!Together(c, S) = [entry |-> A, bucket |-> B]
    BY DEF Metrics!Together
  <2> HIDE DEF A, B
  <2> QED BY <2>1, <2>2, <2>3 DEF Counts
<1>5. ASSUME NEW e \in Entries, NEW d \in Metrics!Days
      PROVE  Metrics!Together(c, S).entry[e][d] = Total([x \in S |-> c[x].entry[e][d]], S)
  <2>1. Metrics!Together(c, S).entry[e][d] = Metrics!SumOf([x \in S |-> c[x].entry[e][d]], S)
    BY DEF Metrics!Together
  <2> QED BY <2>1, SumIsTotal
<1> QED BY <1>4, <1>5

-----------------------------------------------------------------------------
(* Buckets and entries. *)
Slice(f, d) == [e \in Entries |-> f[e][d]]

\* The buckets of a count are the sums of its entries.
AddsUp(c) == \A b \in Buckets, d \in Metrics!Days : c.bucket[b][d] = Total(Slice(c.entry, d), Members(b))

LEMMA SliceIs ==
    ASSUME NEW c \in Counts, NEW d \in Metrics!Days
    PROVE  \A e \in Entries : Slice(c.entry, d)[e] = c.entry[e][d] /\ Slice(c.entry, d)[e] \in Nat
BY DEF Slice, Counts

LEMMA NoneAddsUp == AddsUp(Metrics!NoCounts)
<1> SUFFICES ASSUME NEW b \in Buckets, NEW d \in Metrics!Days
             PROVE  Metrics!NoCounts.bucket[b][d] = Total(Slice(Metrics!NoCounts.entry, d), Members(b))
  BY DEF AddsUp
<1>1. \A e \in Members(b) : Slice(Metrics!NoCounts.entry, d)[e] = 0
  BY NoneCounted, SliceIs DEF Members
<1>2. Total(Slice(Metrics!NoCounts.entry, d), Members(b)) = 0
  BY <1>1, TotalZero
<1> QED BY <1>2, NoneCounted

LEMMA PlusAddsUp ==
    ASSUME Metrics!MetricsAssumption, NEW c \in Counts, NEW k \in Counts, AddsUp(c), AddsUp(k)
    PROVE  AddsUp(Metrics!Plus(c, k))
<1> SUFFICES ASSUME NEW b \in Buckets, NEW d \in Metrics!Days
             PROVE  Metrics!Plus(c, k).bucket[b][d] = Total(Slice(Metrics!Plus(c, k).entry, d), Members(b))
  BY DEF AddsUp
<1> DEFINE h == Slice(Metrics!Plus(c, k).entry, d)
           m == Slice(c.entry, d)
           n == Slice(k.entry, d)
<1>1. \A e \in Members(b) : m[e] \in Nat /\ n[e] \in Nat /\ h[e] = m[e] + n[e]
  <2> SUFFICES ASSUME NEW e \in Entries PROVE m[e] \in Nat /\ n[e] \in Nat /\ h[e] = m[e] + n[e]
    BY DEF Members
  <2>1. m[e] = c.entry[e][d] /\ n[e] = k.entry[e][d] /\ m[e] \in Nat /\ n[e] \in Nat
    BY SliceIs
  <2>2. h[e] = Metrics!Plus(c, k).entry[e][d]
    BY PlusCounts, SliceIs
  <2> QED BY <2>1, <2>2, PlusCounts
<1> HIDE DEF h, m, n
<1>2. Total(h, Members(b)) = Total(m, Members(b)) + Total(n, Members(b))
  BY <1>1, CountsFinite, TotalPlus
<1>3. c.bucket[b][d] = Total(m, Members(b)) /\ k.bucket[b][d] = Total(n, Members(b))
  BY DEF AddsUp, m, n
<1>4. Metrics!Plus(c, k).bucket[b][d] = c.bucket[b][d] + k.bucket[b][d]
  BY PlusCounts
<1> QED BY <1>2, <1>3, <1>4 DEF h

LEMMA OneAddsUp ==
    ASSUME Metrics!MetricsAssumption, NEW x \in Entries, NEW y \in Metrics!Days
    PROVE  AddsUp(Metrics!One(x, y))
<1> SUFFICES ASSUME NEW b \in Buckets, NEW d \in Metrics!Days
             PROVE  Metrics!One(x, y).bucket[b][d] = Total(Slice(Metrics!One(x, y).entry, d), Members(b))
  BY DEF AddsUp
<1> DEFINE m == Slice(Metrics!One(x, y).entry, d)
<1>1. \A e \in Entries : m[e] = IF e = x /\ d = y THEN 1 ELSE 0
  BY OneCount, SliceIs
<1>2. Metrics!One(x, y).bucket[b][d] = IF b = BucketOf[x] /\ d = y THEN 1 ELSE 0
  BY OneCount
<1> HIDE DEF m
<1>3. CASE b = BucketOf[x] /\ d = y
  <2>1. x \in Members(b)
    BY <1>3 DEF Members
  <2>2. Total(m, Members(b)) = Total(m, Members(b) \ {x}) + m[x]
    <3>1. \A e \in Members(b) : m[e] \in Nat
      BY <1>1 DEF Members
    <3> QED BY <2>1, <3>1, CountsFinite, TotalWith
  <2>3. Total(m, Members(b) \ {x}) = 0
    <3>1. \A e \in Members(b) \ {x} : m[e] = 0
      BY <1>1 DEF Members
    <3> QED BY <3>1, TotalZero
  <2> QED BY <1>1, <1>2, <1>3, <2>2, <2>3 DEF m
<1>4. CASE ~(b = BucketOf[x] /\ d = y)
  <2>1. \A e \in Members(b) : m[e] = 0
    BY <1>1, <1>4 DEF Members
  <2>2. Total(m, Members(b)) = 0
    BY <2>1, TotalZero
  <2> QED BY <1>2, <1>4, <2>2 DEF m
<1> QED BY <1>3, <1>4

\* The counts of all days.
LEMMA DaysOf ==
    ASSUME Metrics!MetricsAssumption, NEW c \in Counts
    PROVE  /\ \A e \in Entries : Total(c.entry[e], Metrics!Days) \in Nat
           /\ \A b \in Buckets : Total(c.bucket[b], Metrics!Days) \in Nat
           /\ \A b \in Buckets, d \in Metrics!Days : c.bucket[b][d] <= Total(c.bucket[b], Metrics!Days)
<1>1. /\ \A e \in Entries, d \in Metrics!Days : c.entry[e][d] \in Nat
      /\ \A b \in Buckets, d \in Metrics!Days : c.bucket[b][d] \in Nat
  BY DEF Counts
<1>2. ASSUME NEW b \in Buckets, NEW d \in Metrics!Days
      PROVE  c.bucket[b][d] <= Total(c.bucket[b], Metrics!Days)
  <2> DEFINE n == c.bucket[b]
  <2>1. \A y \in Metrics!Days : n[y] \in Nat
    BY <1>1
  <2> HIDE DEF n
  <2>2. Total(n, Metrics!Days) = Total(n, Metrics!Days \ {d}) + n[d] /\ Total(n, Metrics!Days \ {d}) \in Nat
    BY <2>1, CountsFinite, TotalWith
  <2>3. n[d] <= Total(n, Metrics!Days)
    BY <2>1, <2>2
  <2> QED BY <2>3 DEF n
<1>3. ASSUME NEW b \in Buckets PROVE Total(c.bucket[b], Metrics!Days) \in Nat
  <2>1. \A y \in Metrics!Days : c.bucket[b][y] \in Nat
    BY <1>1
  <2> QED BY <2>1, CountsFinite, TotalNat
<1>4. ASSUME NEW e \in Entries PROVE Total(c.entry[e], Metrics!Days) \in Nat
  <2>1. \A y \in Metrics!Days : c.entry[e][y] \in Nat
    BY <1>1
  <2> QED BY <2>1, CountsFinite, TotalNat
<1> QED BY <1>2, <1>3, <1>4

LEMMA DaysOfPlus ==
    ASSUME Metrics!MetricsAssumption, NEW c \in Counts, NEW k \in Counts, NEW e \in Entries
    PROVE  Total(Metrics!Plus(c, k).entry[e], Metrics!Days) =
               Total(c.entry[e], Metrics!Days) + Total(k.entry[e], Metrics!Days)
<1> DEFINE h == Metrics!Plus(c, k).entry[e]
           m == c.entry[e]
           n == k.entry[e]
<1>1. \A d \in Metrics!Days : m[d] \in Nat /\ n[d] \in Nat /\ h[d] = m[d] + n[d]
  <2>1. \A d \in Metrics!Days : h[d] = m[d] + n[d]
    BY PlusCounts
  <2>2. \A d \in Metrics!Days : m[d] \in Nat /\ n[d] \in Nat
    BY DEF Counts
  <2> QED BY <2>1, <2>2
<1> HIDE DEF h, m, n
<1>2. Total(h, Metrics!Days) = Total(m, Metrics!Days) + Total(n, Metrics!Days)
  BY <1>1, CountsFinite, TotalPlus
<1> QED BY <1>2 DEF h, m, n

\* Over all days, too, a bucket is the sum of its entries.
LEMMA DaysOfBucket ==
    ASSUME Metrics!MetricsAssumption, NEW c \in Counts, AddsUp(c), NEW b \in Buckets
    PROVE  Total(c.bucket[b], Metrics!Days) =
               Total([e \in Members(b) |-> Total(c.entry[e], Metrics!Days)], Members(b))
<1> DEFINE M == Members(b)
           column(d) == [e \in M |-> c.entry[e][d]]
           columns == [d \in Metrics!Days |-> Total(column(d), M)]
           n == c.entry
<1>1. \A e \in M, d \in Metrics!Days : n[e][d] \in Nat
  BY DEF Counts, Members
<1>2. \A d \in Metrics!Days : c.bucket[b][d] = columns[d]
  <2> TAKE d \in Metrics!Days
  <2>1. \A e \in M : Slice(c.entry, d)[e] = column(d)[e]
    BY SliceIs DEF Members
  <2>2. Total(Slice(c.entry, d), M) = Total(column(d), M)
    <3> HIDE DEF column, M
    <3> QED BY <2>1, TotalSame
  <2> QED BY <2>2 DEF AddsUp
<1>3. Total(c.bucket[b], Metrics!Days) = Total(columns, Metrics!Days)
  <2> HIDE DEF columns
  <2> QED BY <1>2, TotalSame
<1>4. Total([e \in M |-> Total(n[e], Metrics!Days)], M) =
          Total([d \in Metrics!Days |-> Total([e \in M |-> n[e][d]], M)], Metrics!Days)
  <2> HIDE DEF n, M
  <2>1. IsFiniteSet(M) /\ IsFiniteSet(Metrics!Days)
    BY CountsFinite DEF M
  <2> QED BY <1>1, <2>1, TotalExchange
<1> QED BY <1>3, <1>4

-----------------------------------------------------------------------------
(* The tables. *)
TablesAddUp(s) ==
    \A b \in Buckets :
        /\ s.total[b] = Total(s.entryTotal, Members(b))
        /\ \A d \in Metrics!Days : /\ s.daily[b][d] = Total(Slice(s.entryDaily, d), Members(b))
                                   /\ s.daily[b][d] <= s.total[b]

LEMMA AddedIs ==
    ASSUME Metrics!MetricsAssumption, NEW s \in TableType, NEW c \in Counts, NEW date
    PROVE  LET t == Metrics!Added(s, c, date)
           IN  /\ t \in TableType
               /\ \A b \in Buckets : t.total[b] = s.total[b] + Total(c.bucket[b], Metrics!Days)
               /\ \A e \in Entries : t.entryTotal[e] = s.entryTotal[e] + Total(c.entry[e], Metrics!Days)
               /\ \A b \in Buckets, d \in Metrics!Days :
                      t.daily[b][d] = IF d < date THEN 0 ELSE s.daily[b][d] + c.bucket[b][d]
               /\ \A e \in Entries, d \in Metrics!Days :
                      t.entryDaily[e][d] = IF d < date THEN 0 ELSE s.entryDaily[e][d] + c.entry[e][d]
<1> DEFINE A == [b \in Buckets |-> s.total[b] + Metrics!SumOf(c.bucket[b], Metrics!Days)]
           D == [b \in Buckets |-> [d \in Metrics!Days |->
                    IF d < date THEN 0 ELSE s.daily[b][d] + c.bucket[b][d]]]
           E == [e \in Entries |-> s.entryTotal[e] + Metrics!SumOf(c.entry[e], Metrics!Days)]
           F == [e \in Entries |-> [d \in Metrics!Days |->
                    IF d < date THEN 0 ELSE s.entryDaily[e][d] + c.entry[e][d]]]
<1>1. Metrics!Added(s, c, date) = [total |-> A, daily |-> D, entryTotal |-> E, entryDaily |-> F]
  BY DEF Metrics!Added, Metrics!AllDays, Metrics!Since, Metrics!Plus
<1>2. /\ \A b \in Buckets : s.total[b] \in Nat
      /\ \A e \in Entries : s.entryTotal[e] \in Nat
      /\ \A b \in Buckets, d \in Metrics!Days : s.daily[b][d] + c.bucket[b][d] \in Nat
      /\ \A e \in Entries, d \in Metrics!Days : s.entryDaily[e][d] + c.entry[e][d] \in Nat
  BY DEF TableType, Counts
<1>3. /\ \A b \in Buckets : Metrics!SumOf(c.bucket[b], Metrics!Days) = Total(c.bucket[b], Metrics!Days)
      /\ \A e \in Entries : Metrics!SumOf(c.entry[e], Metrics!Days) = Total(c.entry[e], Metrics!Days)
  BY SumIsTotal
<1>4. A \in [Buckets -> Nat] /\ \A b \in Buckets : A[b] = s.total[b] + Total(c.bucket[b], Metrics!Days)
  BY <1>2, <1>3, DaysOf
<1>5. E \in [Entries -> Nat] /\ \A e \in Entries : E[e] = s.entryTotal[e] + Total(c.entry[e], Metrics!Days)
  BY <1>2, <1>3, DaysOf
<1>6. D \in [Buckets -> [Metrics!Days -> Nat]] /\ F \in [Entries -> [Metrics!Days -> Nat]]
  BY <1>2
<1>7. /\ \A b \in Buckets, d \in Metrics!Days :
            D[b][d] = IF d < date THEN 0 ELSE s.daily[b][d] + c.bucket[b][d]
      /\ \A e \in Entries, d \in Metrics!Days :
            F[e][d] = IF d < date THEN 0 ELSE s.entryDaily[e][d] + c.entry[e][d]
  OBVIOUS
<1> HIDE DEF A, D, E, F
<1> QED BY <1>1, <1>4, <1>5, <1>6, <1>7 DEF TableType

LEMMA AddedAddsUp ==
    ASSUME Metrics!MetricsAssumption, NEW s \in TableType, NEW c \in Counts, NEW date \in Metrics!Days,
           TablesAddUp(s), AddsUp(c)
    PROVE  TablesAddUp(Metrics!Added(s, c, date))
<1> DEFINE t == Metrics!Added(s, c, date)
<1>1. /\ t \in TableType
      /\ \A b \in Buckets : t.total[b] = s.total[b] + Total(c.bucket[b], Metrics!Days)
      /\ \A e \in Entries : t.entryTotal[e] = s.entryTotal[e] + Total(c.entry[e], Metrics!Days)
      /\ \A b \in Buckets, d \in Metrics!Days :
             t.daily[b][d] = IF d < date THEN 0 ELSE s.daily[b][d] + c.bucket[b][d]
      /\ \A e \in Entries, d \in Metrics!Days :
             t.entryDaily[e][d] = IF d < date THEN 0 ELSE s.entryDaily[e][d] + c.entry[e][d]
  BY AddedIs
<1> HIDE DEF t
<1> SUFFICES ASSUME NEW b \in Buckets
             PROVE  /\ t.total[b] = Total(t.entryTotal, Members(b))
                    /\ \A d \in Metrics!Days : /\ t.daily[b][d] = Total(Slice(t.entryDaily, d), Members(b))
                                               /\ t.daily[b][d] <= t.total[b]
  BY DEF TablesAddUp, t
<1> DEFINE M == Members(b)
<1>2. t.total[b] = Total(t.entryTotal, M)
  <2> DEFINE k == [e \in M |-> Total(c.entry[e], Metrics!Days)]
             n == s.entryTotal
             h == t.entryTotal
  <2>1. \A e \in M : n[e] \in Nat /\ k[e] \in Nat /\ h[e] = n[e] + k[e]
    BY <1>1, DaysOf DEF Members, TableType
  <2> HIDE DEF k, n, h
  <2>2. Total(h, M) = Total(n, M) + Total(k, M)
    BY <2>1, CountsFinite, TotalPlus
  <2>3. Total(c.bucket[b], Metrics!Days) = Total(k, M)
    BY DaysOfBucket DEF k
  <2>4. s.total[b] = Total(n, M)
    BY DEF TablesAddUp, n
  <2> QED BY <1>1, <2>2, <2>3, <2>4 DEF h
<1>3. ASSUME NEW d \in Metrics!Days
      PROVE  t.daily[b][d] = Total(Slice(t.entryDaily, d), M) /\ t.daily[b][d] <= t.total[b]
  <2> DEFINE h == Slice(t.entryDaily, d)
             n == Slice(s.entryDaily, d)
             k == Slice(c.entry, d)
  <2>1. \A e \in M : /\ h[e] = t.entryDaily[e][d] /\ n[e] = s.entryDaily[e][d] /\ n[e] \in Nat
                     /\ k[e] = c.entry[e][d] /\ k[e] \in Nat
    BY SliceIs DEF Members, Slice, TableType
  <2> HIDE DEF h, n, k
  <2>2. s.daily[b][d] = Total(n, M) /\ c.bucket[b][d] = Total(k, M)
    BY DEF TablesAddUp, AddsUp, n, k
  <2>3. /\ s.daily[b][d] \in Nat /\ s.total[b] \in Nat /\ s.daily[b][d] <= s.total[b]
        /\ c.bucket[b][d] \in Nat /\ c.bucket[b][d] <= Total(c.bucket[b], Metrics!Days)
        /\ Total(c.bucket[b], Metrics!Days) \in Nat
    BY DaysOf DEF TablesAddUp, TableType, Counts
  <2>4. CASE d < date
    <3>1. \A e \in M : h[e] = 0
      BY <1>1, <2>1, <2>4 DEF Members
    <3>2. Total(h, M) = 0
      BY <3>1, TotalZero
    <3> QED BY <1>1, <2>3, <2>4, <3>2 DEF h
  <2>5. CASE ~(d < date)
    <3>1. \A e \in M : n[e] \in Nat /\ k[e] \in Nat /\ h[e] = n[e] + k[e]
      BY <1>1, <2>1, <2>5 DEF Members
    <3>2. Total(h, M) = Total(n, M) + Total(k, M)
      BY <3>1, CountsFinite, TotalPlus
    <3>3. t.daily[b][d] = s.daily[b][d] + c.bucket[b][d]
      BY <1>1, <2>5
    <3> QED BY <1>1, <2>2, <2>3, <3>2, <3>3 DEF h
  <2> QED BY <2>4, <2>5
<1> QED BY <1>2, <1>3

-----------------------------------------------------------------------------
(* The live counters. *)
LiveAddsUp(l) ==
    \A b \in Buckets :
        /\ l.today[b] = Total(l.entryToday, Members(b))
        /\ l.total[b] = Total(l.entryTotal, Members(b))
        /\ l.today[b] <= l.total[b]

LEMMA NewLiveIs ==
    ASSUME Metrics!MetricsAssumption
    PROVE  /\ Metrics!NewLive \in LiveType /\ LiveAddsUp(Metrics!NewLive)
           /\ \A b \in Buckets : Metrics!NewLive.active[b] = 0
<1>1. 1 \in Metrics!Days
  BY DEF Metrics!MetricsAssumption, Metrics!Days
<1>2. Metrics!NewLive \in LiveType
  BY <1>1 DEF Metrics!NewLive, LiveType
<1>3. ASSUME NEW b \in Buckets
      PROVE  /\ Total(Metrics!NewLive.entryToday, Members(b)) = 0
             /\ Total(Metrics!NewLive.entryTotal, Members(b)) = 0
  <2>1. \A e \in Members(b) : Metrics!NewLive.entryToday[e] = 0 /\ Metrics!NewLive.entryTotal[e] = 0
    BY DEF Metrics!NewLive, Members
  <2> QED BY <2>1, TotalZero
<1>4. \A b \in Buckets : Metrics!NewLive.today[b] = 0 /\ Metrics!NewLive.total[b] = 0 /\ Metrics!NewLive.active[b] = 0
  BY DEF Metrics!NewLive
<1> QED BY <1>2, <1>3, <1>4 DEF LiveAddsUp

LEMMA RolledOverIs ==
    ASSUME day \in Metrics!Days, NEW l \in LiveType, LiveAddsUp(l)
    PROVE  /\ Metrics!RolledOver(l) \in LiveType /\ LiveAddsUp(Metrics!RolledOver(l))
           /\ Metrics!RolledOver(l).active = l.active
<1>1. CASE l.day = day
  BY <1>1 DEF Metrics!RolledOver
<1>2. CASE l.day # day
  <2> DEFINE k == Metrics!RolledOver(l)
  <2>1. k \in LiveType /\ k.active = l.active /\ k.total = l.total /\ k.entryTotal = l.entryTotal
    BY <1>2 DEF Metrics!RolledOver, LiveType
  <2>2. (\A b \in Buckets : k.today[b] = 0) /\ (\A e \in Entries : k.entryToday[e] = 0)
    BY <1>2 DEF Metrics!RolledOver, LiveType
  <2> HIDE DEF k
  <2>3. ASSUME NEW b \in Buckets PROVE Total(k.entryToday, Members(b)) = 0
    <3>1. \A e \in Members(b) : k.entryToday[e] = 0
      BY <2>2 DEF Members
    <3> QED BY <3>1, TotalZero
  <2>4. \A b \in Buckets : l.total[b] \in Nat
    BY DEF LiveType
  <2>5. LiveAddsUp(k)
    BY <2>1, <2>2, <2>3, <2>4 DEF LiveAddsUp
  <2> QED BY <2>1, <2>5 DEF k
<1> QED BY <1>1, <1>2

\* One more for an entry is one more for its bucket.
LEMMA OneMore ==
    ASSUME Metrics!MetricsAssumption, NEW x \in Entries, NEW n \in [Entries -> Nat], NEW b \in Buckets
    PROVE  Total([n EXCEPT ![x] = @ + 1], Members(b)) =
               Total(n, Members(b)) + (IF b = BucketOf[x] THEN 1 ELSE 0)
<1> DEFINE k == [n EXCEPT ![x] = @ + 1]
<1>1. k \in [Entries -> Nat] /\ k[x] = n[x] + 1 /\ \A e \in Entries \ {x} : k[e] = n[e]
  OBVIOUS
<1>2. IsFiniteSet(Members(b)) /\ \A e \in Members(b) : n[e] \in Nat /\ k[e] \in Nat
  BY <1>1, CountsFinite DEF Members
<1> HIDE DEF k
<1>3. Total(n, Members(b)) \in Nat /\ Total(k, Members(b)) \in Nat /\ n[x] \in Nat
  BY <1>2, TotalNat
<1>4. CASE b = BucketOf[x]
  <2>1. x \in Members(b) /\ \A e \in Members(b) \ {x} : n[e] = k[e]
    BY <1>1, <1>4 DEF Members
  <2>2. Total(n, Members(b)) + k[x] = Total(k, Members(b)) + n[x]
    BY <1>2, <2>1, TotalChange
  <2>3. Total(k, Members(b)) = Total(n, Members(b)) + 1
    BY <1>1, <1>3, <2>2
  <2> QED BY <1>4, <2>3 DEF k
<1>5. CASE b # BucketOf[x]
  <2>1. \A e \in Members(b) : n[e] = k[e]
    BY <1>1, <1>5 DEF Members
  <2>2. Total(n, Members(b)) = Total(k, Members(b))
    BY <2>1, TotalSame
  <2> QED BY <1>3, <1>5, <2>2 DEF k
<1> QED BY <1>4, <1>5

LEMMA StartedIs ==
    ASSUME Metrics!MetricsAssumption, day \in Metrics!Days, NEW l \in LiveType, LiveAddsUp(l),
           NEW x \in Entries
    PROVE  /\ Metrics!Started(l, x) \in LiveType /\ LiveAddsUp(Metrics!Started(l, x))
           /\ \A b \in Buckets :
                 Metrics!Started(l, x).active[b] = l.active[b] + (IF b = BucketOf[x] THEN 1 ELSE 0)
<1> DEFINE k == Metrics!RolledOver(l)
           s == Metrics!Started(l, x)
           y == BucketOf[x]
<1>1. k \in LiveType /\ LiveAddsUp(k) /\ k.active = l.active
  BY RolledOverIs
<1>2. y \in Buckets
  BY DEF Metrics!MetricsAssumption
<1>3. s = [k EXCEPT !.active[y] = @ + 1, !.today[y] = @ + 1, !.total[y] = @ + 1,
                    !.entryToday[x] = @ + 1, !.entryTotal[x] = @ + 1]
  BY DEF Metrics!Started
<1> HIDE DEF k, s
<1>4. /\ s \in LiveType
      /\ s.entryToday = [k.entryToday EXCEPT ![x] = @ + 1]
      /\ s.entryTotal = [k.entryTotal EXCEPT ![x] = @ + 1]
      /\ \A b \in Buckets : /\ s.active[b] = k.active[b] + (IF b = y THEN 1 ELSE 0)
                            /\ s.today[b] = k.today[b] + (IF b = y THEN 1 ELSE 0)
                            /\ s.total[b] = k.total[b] + (IF b = y THEN 1 ELSE 0)
  <2> DEFINE Up(f, z) == [f EXCEPT ![z] = @ + 1]
  <2>1. s = [k EXCEPT !.active = Up(k.active, y), !.today = Up(k.today, y), !.total = Up(k.total, y),
                      !.entryToday = Up(k.entryToday, x), !.entryTotal = Up(k.entryTotal, x)]
    BY <1>1, <1>3 DEF LiveType
  <2>2. \A S : \A f \in [S -> Nat], z \in S :
            /\ Up(f, z) \in [S -> Nat]
            /\ \A v \in S : Up(f, z)[v] = f[v] + (IF v = z THEN 1 ELSE 0)
    OBVIOUS
  <2> HIDE DEF Up
  <2>3. /\ k.active \in [Buckets -> Nat] /\ k.today \in [Buckets -> Nat] /\ k.total \in [Buckets -> Nat]
        /\ k.entryToday \in [Entries -> Nat] /\ k.entryTotal \in [Entries -> Nat]
    BY <1>1 DEF LiveType
  <2>4. /\ Up(k.active, y) \in [Buckets -> Nat] /\ Up(k.today, y) \in [Buckets -> Nat]
        /\ Up(k.total, y) \in [Buckets -> Nat]
        /\ Up(k.entryToday, x) \in [Entries -> Nat] /\ Up(k.entryTotal, x) \in [Entries -> Nat]
    BY <1>2, <2>2, <2>3
  <2>5. /\ s \in LiveType
        /\ s.entryToday = Up(k.entryToday, x) /\ s.entryTotal = Up(k.entryTotal, x)
        /\ s.active = Up(k.active, y) /\ s.today = Up(k.today, y) /\ s.total = Up(k.total, y)
    BY <1>1, <2>1, <2>4 DEF LiveType
  <2>6. \A b \in Buckets : /\ s.active[b] = k.active[b] + (IF b = y THEN 1 ELSE 0)
                            /\ s.today[b] = k.today[b] + (IF b = y THEN 1 ELSE 0)
                            /\ s.total[b] = k.total[b] + (IF b = y THEN 1 ELSE 0)
    <3>1. \A b \in Buckets : Up(k.active, y)[b] = k.active[b] + (IF b = y THEN 1 ELSE 0)
      BY <1>2, <2>3 DEF Up
    <3>2. \A b \in Buckets : Up(k.today, y)[b] = k.today[b] + (IF b = y THEN 1 ELSE 0)
      BY <1>2, <2>3 DEF Up
    <3>3. \A b \in Buckets : Up(k.total, y)[b] = k.total[b] + (IF b = y THEN 1 ELSE 0)
      BY <1>2, <2>3 DEF Up
    <3> QED BY <3>1, <3>2, <3>3, <2>5
  <2> QED BY <2>5, <2>6 DEF Up
<1>5. /\ k.entryToday \in [Entries -> Nat] /\ k.entryTotal \in [Entries -> Nat]
      /\ \A b \in Buckets : k.today[b] \in Nat /\ k.total[b] \in Nat
  BY <1>1 DEF LiveType
<1>6. ASSUME NEW b \in Buckets
      PROVE  /\ s.today[b] = Total(s.entryToday, Members(b))
             /\ s.total[b] = Total(s.entryTotal, Members(b))
             /\ s.today[b] <= s.total[b]
  <2>1. /\ k.today[b] = Total(k.entryToday, Members(b)) /\ k.total[b] = Total(k.entryTotal, Members(b))
        /\ k.today[b] <= k.total[b]
    BY <1>1 DEF LiveAddsUp
  <2>2. Total(s.entryToday, Members(b)) = Total(k.entryToday, Members(b)) + (IF b = y THEN 1 ELSE 0)
    BY <1>4, <1>5, OneMore
  <2>3. Total(s.entryTotal, Members(b)) = Total(k.entryTotal, Members(b)) + (IF b = y THEN 1 ELSE 0)
    BY <1>4, <1>5, OneMore
  <2> QED BY <1>4, <1>5, <2>1, <2>2, <2>3
<1>7. LiveAddsUp(s)
  BY <1>6 DEF LiveAddsUp
<1> QED BY <1>1, <1>4, <1>7 DEF s

LEMMA FinishedIs ==
    ASSUME Metrics!MetricsAssumption, NEW l \in LiveType, LiveAddsUp(l), NEW x \in Entries,
           l.active[BucketOf[x]] > 0
    PROVE  /\ Metrics!Finished(l, x) \in LiveType /\ LiveAddsUp(Metrics!Finished(l, x))
           /\ \A b \in Buckets :
                 Metrics!Finished(l, x).active[b] = l.active[b] - (IF b = BucketOf[x] THEN 1 ELSE 0)
<1> DEFINE s == Metrics!Finished(l, x)
<1>1. BucketOf[x] \in Buckets
  BY DEF Metrics!MetricsAssumption
<1>2. /\ s \in LiveType /\ s.today = l.today /\ s.total = l.total
      /\ s.entryToday = l.entryToday /\ s.entryTotal = l.entryTotal
      /\ \A b \in Buckets : s.active[b] = l.active[b] - (IF b = BucketOf[x] THEN 1 ELSE 0)
  BY <1>1 DEF Metrics!Finished, LiveType
<1> HIDE DEF s
<1>3. LiveAddsUp(s)
  BY <1>2 DEF LiveAddsUp
<1> QED BY <1>2, <1>3 DEF s

LEMMA MergedIs ==
    ASSUME Metrics!MetricsAssumption, NEW l \in LiveType, NEW k \in LiveType, LiveAddsUp(l), LiveAddsUp(k)
    PROVE  Metrics!Merged(l, k) \in LiveType /\ LiveAddsUp(Metrics!Merged(l, k))
<1> DEFINE s == Metrics!Merged(l, k)
           Both(f, g, S) == [x \in S |-> f[x] + g[x]]
<1>1. s = [l EXCEPT !.active = Both(l.active, k.active, Buckets),
                    !.today = Both(l.today, k.today, Buckets), !.total = Both(l.total, k.total, Buckets),
                    !.entryToday = Both(l.entryToday, k.entryToday, Entries),
                    !.entryTotal = Both(l.entryTotal, k.entryTotal, Entries)]
  BY DEF Metrics!Merged, Metrics!Sum2, LiveType
<1>2. /\ \A S : \A f, g \in [S -> Nat] : Both(f, g, S) \in [S -> Nat]
      /\ \A S, f, g : \A x \in S : Both(f, g, S)[x] = f[x] + g[x]
  OBVIOUS
<1> HIDE DEF s, Both
<1>3. /\ l.active \in [Buckets -> Nat] /\ k.active \in [Buckets -> Nat]
      /\ l.today \in [Buckets -> Nat] /\ k.today \in [Buckets -> Nat]
      /\ l.total \in [Buckets -> Nat] /\ k.total \in [Buckets -> Nat]
      /\ l.entryToday \in [Entries -> Nat] /\ k.entryToday \in [Entries -> Nat]
      /\ l.entryTotal \in [Entries -> Nat] /\ k.entryTotal \in [Entries -> Nat]
  BY DEF LiveType
<1>4. s \in LiveType
  BY <1>1, <1>2, <1>3 DEF LiveType
<1>5. /\ s.today = Both(l.today, k.today, Buckets) /\ s.total = Both(l.total, k.total, Buckets)
      /\ s.entryToday = Both(l.entryToday, k.entryToday, Entries)
      /\ s.entryTotal = Both(l.entryTotal, k.entryTotal, Entries)
  BY <1>1 DEF LiveType
<1>6. ASSUME NEW b \in Buckets, NEW n \in [Entries -> Nat], NEW m \in [Entries -> Nat]
      PROVE  Total(Both(n, m, Entries), Members(b)) = Total(n, Members(b)) + Total(m, Members(b))
  <2> DEFINE h == Both(n, m, Entries)
  <2>1. \A e \in Members(b) : n[e] \in Nat /\ m[e] \in Nat /\ h[e] = n[e] + m[e]
    BY <1>2 DEF Members
  <2> HIDE DEF h
  <2>2. IsFiniteSet(Members(b))
    BY CountsFinite
  <2>3. Total(h, Members(b)) = Total(n, Members(b)) + Total(m, Members(b))
    BY <2>1, <2>2, TotalPlus
  <2> QED BY <2>3 DEF h
<1>7. ASSUME NEW b \in Buckets
      PROVE  /\ s.today[b] = Total(s.entryToday, Members(b))
             /\ s.total[b] = Total(s.entryTotal, Members(b))
             /\ s.today[b] <= s.total[b]
  <2>1. /\ l.today[b] = Total(l.entryToday, Members(b)) /\ l.total[b] = Total(l.entryTotal, Members(b))
        /\ k.today[b] = Total(k.entryToday, Members(b)) /\ k.total[b] = Total(k.entryTotal, Members(b))
        /\ l.today[b] <= l.total[b] /\ k.today[b] <= k.total[b]
    BY DEF LiveAddsUp
  <2>2. s.today[b] = l.today[b] + k.today[b] /\ s.total[b] = l.total[b] + k.total[b]
    BY <1>2, <1>5
  <2>3. /\ Total(s.entryToday, Members(b)) = Total(l.entryToday, Members(b)) + Total(k.entryToday, Members(b))
        /\ Total(s.entryTotal, Members(b)) = Total(l.entryTotal, Members(b)) + Total(k.entryTotal, Members(b))
    BY <1>3, <1>5, <1>6
  <2>4. l.today[b] \in Nat /\ k.today[b] \in Nat /\ l.total[b] \in Nat /\ k.total[b] \in Nat
    BY <1>3
  <2> QED BY <2>1, <2>2, <2>3, <2>4
<1>8. LiveAddsUp(s)
  BY <1>7 DEF LiveAddsUp
<1> QED BY <1>4, <1>8 DEF s

-----------------------------------------------------------------------------
(* The invariant. *)
CountTypes ==
    /\ day \in Metrics!Days
    /\ request \in [MetricRequests -> RequestType]
    /\ live \in [Processes -> LiveType]
    /\ pending \in [Processes -> Counts]
    /\ thread \in [Metrics!Threads -> ThreadType]
    /\ stored \in TableType
    /\ recorded \in Counts /\ lost \in Counts /\ doubled \in Counts

\* Only a thread that is writing has counts in hand, and no date is from tomorrow.
HandsOK ==
    \A f \in Metrics!Threads :
        /\ thread[f].date <= day
        /\ thread[f].step # "write" => thread[f].hand = Metrics!NoCounts

\* Buckets and entries agree wherever they are.
EntriesAgree ==
    /\ \A p \in Processes : AddsUp(pending[p]) /\ LiveAddsUp(live[p])
    /\ \A f \in Metrics!Threads : AddsUp(thread[f].hand) /\ LiveAddsUp(thread[f].seen)
    /\ TablesAddUp(stored)

\* What is stored and what is out make all there is, in the totals and on
\* each day from y on.
Balanced(s, out, all, y) ==
    \A e \in Entries :
        /\ s.entryTotal[e] + Total(out.entry[e], Metrics!Days) = Total(all.entry[e], Metrics!Days)
        /\ \A d \in Metrics!Days : d >= y => s.entryDaily[e][d] + out.entry[e][d] = all.entry[e][d]

Out == Metrics!Plus(lost, Metrics!Unstored)
All == Metrics!Plus(recorded, doubled)

BooksOK == Balanced(stored, Out, All, day)

Serving(p, b) ==
    {r \in MetricRequests :
        /\ request[r].state \in {"started", "open"}
        /\ request[r].process = p
        /\ BucketOf[request[r].entry] = b}

ActiveOK == \A p \in Processes, b \in Buckets : live[p].active[b] = Cardinality(Serving(p, b))

CountInv == CountTypes /\ HandsOK /\ EntriesAgree /\ BooksOK /\ ActiveOK

-----------------------------------------------------------------------------
\* The books stay balanced when c is stored and g is new.
Moved(s, t, out, out2, all, all2, c, g, y) ==
    \A e \in Entries :
        /\ t.entryTotal[e] = s.entryTotal[e] + Total(c.entry[e], Metrics!Days)
        /\ \A d \in Metrics!Days :
              /\ d >= y => t.entryDaily[e][d] = s.entryDaily[e][d] + c.entry[e][d]
              /\ all2.entry[e][d] = all.entry[e][d] + g.entry[e][d]
              /\ out2.entry[e][d] + c.entry[e][d] = out.entry[e][d] + g.entry[e][d]

LEMMA StaysBalanced ==
    ASSUME Metrics!MetricsAssumption, NEW y \in Int, NEW s \in TableType, NEW t \in TableType,
           NEW out \in Counts, NEW out2 \in Counts, NEW all \in Counts, NEW all2 \in Counts,
           NEW c \in Counts, NEW g \in Counts, Balanced(s, out, all, y),
           Moved(s, t, out, out2, all, all2, c, g, y)
    PROVE  Balanced(t, out2, all2, y)
<1> SUFFICES ASSUME NEW e \in Entries
             PROVE  /\ t.entryTotal[e] + Total(out2.entry[e], Metrics!Days) = Total(all2.entry[e], Metrics!Days)
                    /\ \A d \in Metrics!Days :
                          d >= y => t.entryDaily[e][d] + out2.entry[e][d] = all2.entry[e][d]
  BY DEF Balanced
<1>1. \A d \in Metrics!Days : /\ s.entryDaily[e][d] \in Nat /\ t.entryDaily[e][d] \in Nat
                              /\ out.entry[e][d] \in Nat /\ out2.entry[e][d] \in Nat
                              /\ all.entry[e][d] \in Nat /\ all2.entry[e][d] \in Nat
                              /\ c.entry[e][d] \in Nat /\ g.entry[e][d] \in Nat
  BY DEF TableType, Counts
<1>0. /\ t.entryTotal[e] = s.entryTotal[e] + Total(c.entry[e], Metrics!Days)
      /\ \A d \in Metrics!Days :
            /\ d >= y => t.entryDaily[e][d] = s.entryDaily[e][d] + c.entry[e][d]
            /\ all2.entry[e][d] = all.entry[e][d] + g.entry[e][d]
            /\ out2.entry[e][d] + c.entry[e][d] = out.entry[e][d] + g.entry[e][d]
  BY DEF Moved
<1>2. ASSUME NEW d \in Metrics!Days, d >= y PROVE t.entryDaily[e][d] + out2.entry[e][d] = all2.entry[e][d]
  <2>1. s.entryDaily[e][d] + out.entry[e][d] = all.entry[e][d]
    BY <1>2 DEF Balanced
  <2>2. /\ t.entryDaily[e][d] = s.entryDaily[e][d] + c.entry[e][d]
        /\ all2.entry[e][d] = all.entry[e][d] + g.entry[e][d]
        /\ out2.entry[e][d] + c.entry[e][d] = out.entry[e][d] + g.entry[e][d]
    BY <1>0, <1>2
  <2> QED BY <1>1, <2>1, <2>2
<1> DEFINE D == Metrics!Days
<1>3. Total(all2.entry[e], D) = Total(all.entry[e], D) + Total(g.entry[e], D)
  <2> DEFINE h == all2.entry[e]
             m == all.entry[e]
             n == g.entry[e]
  <2>1. \A d \in D : m[d] \in Nat /\ n[d] \in Nat /\ h[d] = m[d] + n[d]
    BY <1>0, <1>1
  <2> HIDE DEF h, m, n
  <2>2. IsFiniteSet(D)
    BY CountsFinite
  <2> HIDE DEF D
  <2>3. Total(h, D) = Total(m, D) + Total(n, D)
    BY <2>1, <2>2, TotalPlus
  <2> QED BY <2>3 DEF h, m, n
<1>4. Total(out2.entry[e], D) + Total(c.entry[e], D) = Total(out.entry[e], D) + Total(g.entry[e], D)
  <2> DEFINE k == out2.entry[e]
             l == c.entry[e]
             m == out.entry[e]
             n == g.entry[e]
             h == [d \in D |-> m[d] + n[d]]
  <2>1. \A d \in D : /\ m[d] \in Nat /\ n[d] \in Nat /\ h[d] = m[d] + n[d]
                     /\ k[d] \in Nat /\ l[d] \in Nat /\ h[d] = k[d] + l[d]
    BY <1>0, <1>1
  <2> HIDE DEF h, k, l, m, n
  <2>2. IsFiniteSet(D)
    BY CountsFinite
  <2> HIDE DEF D
  <2>3. Total(h, D) = Total(m, D) + Total(n, D)
    BY <2>1, <2>2, TotalPlus
  <2>4. Total(h, D) = Total(k, D) + Total(l, D)
    BY <2>1, <2>2, TotalPlus
  <2> QED BY <2>3, <2>4 DEF k, l, m, n
<1>5. /\ Total(out.entry[e], D) \in Nat /\ Total(out2.entry[e], D) \in Nat /\ Total(all.entry[e], D) \in Nat
      /\ Total(c.entry[e], D) \in Nat /\ Total(g.entry[e], D) \in Nat /\ s.entryTotal[e] \in Nat
  BY DaysOf DEF TableType
<1>6. s.entryTotal[e] + Total(out.entry[e], D) = Total(all.entry[e], D)
  BY DEF Balanced
<1>7. t.entryTotal[e] = s.entryTotal[e] + Total(c.entry[e], D)
  BY <1>0
<1>8. t.entryTotal[e] + Total(out2.entry[e], D) = Total(all2.entry[e], D)
  <2> HIDE DEF D
  <2> QED BY <1>3, <1>4, <1>5, <1>6, <1>7
<1> QED BY <1>2, <1>8

-----------------------------------------------------------------------------
(* What is not stored yet, of any pending counts P and counts in hand H.   *)
WaitsIn(P, e, d) == Total([p \in Processes |-> P[p].entry[e][d]], Processes)
WaitsWith(H, e, d) == Total([f \in Metrics!Threads |-> H[f].entry[e][d]], Metrics!Threads)
Waits(P, H) == Metrics!Plus(Metrics!Together(P, Processes), Metrics!Together(H, Metrics!Threads))

LEMMA WaitsType ==
    ASSUME Metrics!MetricsAssumption, NEW P \in [Processes -> Counts],
           NEW H \in [Metrics!Threads -> Counts]
    PROVE  /\ Waits(P, H) \in Counts
           /\ \A e \in Entries, d \in Metrics!Days :
                 /\ Waits(P, H).entry[e][d] = WaitsIn(P, e, d) + WaitsWith(H, e, d)
                 /\ WaitsIn(P, e, d) \in Nat /\ WaitsWith(H, e, d) \in Nat
<1>1. IsFiniteSet(Processes) /\ IsFiniteSet(Metrics!Threads)
  BY CountsFinite
<1>2. /\ Metrics!Together(P, Processes) \in Counts
      /\ \A e \in Entries, d \in Metrics!Days : Metrics!Together(P, Processes).entry[e][d] = WaitsIn(P, e, d)
  <2>1. \A p \in Processes : P[p] \in Counts
    OBVIOUS
  <2> QED BY <1>1, <2>1, TogetherCounts DEF WaitsIn
<1>3. /\ Metrics!Together(H, Metrics!Threads) \in Counts
      /\ \A e \in Entries, d \in Metrics!Days :
            Metrics!Together(H, Metrics!Threads).entry[e][d] = WaitsWith(H, e, d)
  <2>1. \A f \in Metrics!Threads : H[f] \in Counts
    OBVIOUS
  <2> QED BY <1>1, <2>1, TogetherCounts DEF WaitsWith
<1>4. \A e \in Entries, d \in Metrics!Days : WaitsIn(P, e, d) \in Nat /\ WaitsWith(H, e, d) \in Nat
  <2>1. ASSUME NEW c \in Counts, NEW e \in Entries, NEW d \in Metrics!Days PROVE c.entry[e][d] \in Nat
    BY DEF Counts
  <2> QED BY <1>2, <1>3, <2>1
<1> QED BY <1>2, <1>3, <1>4, PlusCounts DEF Waits

\* Another count at one process.
LEMMA WaitsInMoves ==
    ASSUME Metrics!MetricsAssumption, NEW P \in [Processes -> Counts], NEW Q \in [Processes -> Counts],
           NEW p \in Processes, \A q \in Processes \ {p} : P[q] = Q[q],
           NEW e \in Entries, NEW d \in Metrics!Days
    PROVE  WaitsIn(P, e, d) + Q[p].entry[e][d] = WaitsIn(Q, e, d) + P[p].entry[e][d]
<1> DEFINE m == [x \in Processes |-> P[x].entry[e][d]]
           n == [x \in Processes |-> Q[x].entry[e][d]]
<1>1. \A x \in Processes : m[x] \in Nat /\ n[x] \in Nat
  BY DEF Counts
<1>2. m[p] = P[p].entry[e][d] /\ n[p] = Q[p].entry[e][d] /\ \A x \in Processes \ {p} : m[x] = n[x]
  OBVIOUS
<1>3. IsFiniteSet(Processes)
  BY CountsFinite
<1> HIDE DEF m, n
<1>4. Total(m, Processes) + n[p] = Total(n, Processes) + m[p]
  BY <1>1, <1>2, <1>3, TotalChange
<1> QED BY <1>2, <1>4 DEF m, n, WaitsIn

\* Another count in one hand.
LEMMA WaitsWithMoves ==
    ASSUME Metrics!MetricsAssumption, NEW H \in [Metrics!Threads -> Counts],
           NEW K \in [Metrics!Threads -> Counts], NEW f \in Metrics!Threads,
           \A g \in Metrics!Threads \ {f} : H[g] = K[g], NEW e \in Entries, NEW d \in Metrics!Days
    PROVE  WaitsWith(H, e, d) + K[f].entry[e][d] = WaitsWith(K, e, d) + H[f].entry[e][d]
<1> DEFINE T == Metrics!Threads
           m == [x \in T |-> H[x].entry[e][d]]
           n == [x \in T |-> K[x].entry[e][d]]
<1>1. \A x \in T : m[x] \in Nat /\ n[x] \in Nat
  BY DEF Counts
<1>2. m[f] = H[f].entry[e][d] /\ n[f] = K[f].entry[e][d] /\ \A x \in T \ {f} : m[x] = n[x]
  OBVIOUS
<1>3. IsFiniteSet(T)
  BY CountsFinite
<1> HIDE DEF m, n
<1>4. Total(m, T) + n[f] = Total(n, T) + m[f]
  <2> HIDE DEF T
  <2>1. f \in T
    BY DEF T
  <2> QED BY <1>1, <1>2, <1>3, <2>1, TotalChange
<1> QED BY <1>2, <1>4 DEF m, n, WaitsWith

\* A process drops what it has, and so do its threads.
LEMMA WaitsDropped ==
    ASSUME Metrics!MetricsAssumption, NEW H \in [Metrics!Threads -> Counts],
           NEW K \in [Metrics!Threads -> Counts], NEW p \in Processes,
           \A f \in Metrics!Threads : K[f] = IF ProcessOf[f] = p THEN Metrics!NoCounts ELSE H[f]
    PROVE  LET S == {f \in Metrics!Threads : ProcessOf[f] = p}
           IN  /\ Metrics!Together(H, S) \in Counts
               /\ \A e \in Entries, d \in Metrics!Days :
                     WaitsWith(H, e, d) = WaitsWith(K, e, d) + Metrics!Together(H, S).entry[e][d]
<1> DEFINE T == Metrics!Threads
           S == {f \in T : ProcessOf[f] = p}
<1>1. IsFiniteSet(T) /\ S \in SUBSET T
  BY CountsFinite
<1>2. IsFiniteSet(S)
  BY <1>1, FS_Subset
<1>3. /\ Metrics!Together(H, S) \in Counts
      /\ \A e \in Entries, d \in Metrics!Days :
             Metrics!Together(H, S).entry[e][d] = Total([x \in S |-> H[x].entry[e][d]], S)
  <2>1. \A f \in S : H[f] \in Counts
    OBVIOUS
  <2> HIDE DEF S
  <2> QED BY <1>2, <2>1, TogetherCounts
<1>4. ASSUME NEW e \in Entries, NEW d \in Metrics!Days
      PROVE  WaitsWith(H, e, d) = WaitsWith(K, e, d) + Total([x \in S |-> H[x].entry[e][d]], S)
  <2> DEFINE m == [x \in T |-> H[x].entry[e][d]]
             n == [x \in T |-> K[x].entry[e][d]]
             r == [x \in S |-> H[x].entry[e][d]]
  <2>1. \A x \in T : m[x] \in Nat /\ n[x] \in Nat
    BY DEF Counts
  <2>2. \A x \in S : n[x] = 0 /\ m[x] = r[x]
    BY NoneCounted
  <2>3. \A x \in T \ S : n[x] = m[x]
    OBVIOUS
  <2> HIDE DEF m, n, r, S, T
  <2>4. Total(m, T) = Total(m, S) + Total(m, T \ S)
    BY <1>1, <2>1, TotalSplit
  <2>5. Total(n, T) = Total(n, S) + Total(n, T \ S)
    BY <1>1, <2>1, TotalSplit
  <2>6. Total(n, S) = 0
    BY <2>2, TotalZero
  <2>7. Total(m, S) = Total(r, S)
    BY <2>2, TotalSame
  <2>8. Total(n, T \ S) = Total(m, T \ S)
    BY <2>3, TotalSame
  <2>9. Total(m, T \ S) \in Nat /\ Total(r, S) \in Nat
    <3>1. IsFiniteSet(T \ S)
      <4>1. T \ S \in SUBSET T
        OBVIOUS
      <4> QED BY <1>1, <4>1, FS_Subset
    <3>2. \A x \in S : r[x] \in Nat
      BY <1>1, <2>1, <2>2
    <3> QED BY <1>2, <2>1, <3>1, <3>2, TotalNat
  <2>10. Total(m, T) = Total(n, T) + Total(r, S)
    BY <2>4, <2>5, <2>6, <2>7, <2>8, <2>9
  <2> QED BY <2>10 DEF m, n, r, T, WaitsWith
<1> QED BY <1>3, <1>4

HandsOf(t) == [f \in Metrics!Threads |-> t[f].hand]

LEMMA HandsType ==
    ASSUME NEW t \in [Metrics!Threads -> ThreadType]
    PROVE  /\ HandsOf(t) \in [Metrics!Threads -> Counts]
           /\ \A f \in Metrics!Threads : HandsOf(t)[f] = t[f].hand
BY DEF HandsOf, ThreadType

LEMMA OutIs ==
    /\ Out = Metrics!Plus(lost, Waits(pending, HandsOf(thread)))
    /\ Out' = Metrics!Plus(lost', Waits(pending', HandsOf(thread')))
    /\ All' = Metrics!Plus(recorded', doubled')
BY DEF Out, All, Metrics!Unstored, Waits, HandsOf, Metrics!Hands

\* A step that stores c and counts g anew.
LEMMA BooksStep ==
    ASSUME Metrics!MetricsAssumption, CountTypes, CountTypes', BooksOK, day' = day,
           NEW c \in Counts, NEW g \in Counts,
           \/ stored' = stored /\ c = Metrics!NoCounts
           \/ \E date \in Metrics!Days : date <= day /\ stored' = Metrics!Added(stored, c, date),
           \A e \in Entries, d \in Metrics!Days :
              /\ All'.entry[e][d] = All.entry[e][d] + g.entry[e][d]
              /\ Out'.entry[e][d] + c.entry[e][d] = Out.entry[e][d] + g.entry[e][d]
    PROVE  BooksOK'
<1>1. Out \in Counts /\ All \in Counts
  BY HandsType, WaitsType, PlusCounts, OutIs DEF All, CountTypes
<1>2. Out' \in Counts /\ All' \in Counts
  <2>1. HandsOf(thread') \in [Metrics!Threads -> Counts]
    BY HandsType DEF CountTypes
  <2>2. Waits(pending', HandsOf(thread')) \in Counts
    BY <2>1, WaitsType DEF CountTypes
  <2> QED BY <2>2, PlusCounts, OutIs DEF CountTypes
<1>3. stored \in TableType /\ stored' \in TableType /\ day \in Int
  BY DEF CountTypes, Metrics!Days
<1>4. /\ \A e \in Entries : stored'.entryTotal[e] = stored.entryTotal[e] + Total(c.entry[e], Metrics!Days)
      /\ \A e \in Entries, d \in Metrics!Days :
            d >= day => stored'.entryDaily[e][d] = stored.entryDaily[e][d] + c.entry[e][d]
  <2>1. CASE stored' = stored /\ c = Metrics!NoCounts
    <3>1. \A e \in Entries : Total(c.entry[e], Metrics!Days) = 0
      <4> TAKE e \in Entries
      <4>1. \A d \in Metrics!Days : c.entry[e][d] = 0
        BY <2>1, NoneCounted
      <4> QED BY <4>1, TotalZero
    <3>2. /\ \A e \in Entries : stored.entryTotal[e] \in Nat
          /\ \A e \in Entries, d \in Metrics!Days : stored.entryDaily[e][d] \in Nat
      BY <1>3 DEF TableType
    <3> QED BY <2>1, <3>1, <3>2, NoneCounted
  <2>2. CASE \E date \in Metrics!Days : date <= day /\ stored' = Metrics!Added(stored, c, date)
    <3>1. PICK date \in Metrics!Days : date <= day /\ stored' = Metrics!Added(stored, c, date)
      BY <2>2
    <3>2. \A d \in Metrics!Days : d >= day => ~(d < date)
      BY <1>3, <3>1 DEF Metrics!Days
    <3>3. /\ \A e \in Entries : stored'.entryTotal[e] = stored.entryTotal[e] + Total(c.entry[e], Metrics!Days)
          /\ \A e \in Entries, d \in Metrics!Days :
                stored'.entryDaily[e][d] = IF d < date THEN 0 ELSE stored.entryDaily[e][d] + c.entry[e][d]
      BY <1>3, <3>1, AddedIs
    <3> QED BY <3>2, <3>3
  <2> QED BY <2>1, <2>2
<1>5. Balanced(stored', Out', All', day)
  <2>1. Balanced(stored, Out, All, day)
    BY DEF BooksOK
  <2> DEFINE s == stored
             t == stored'
             o == Out
             o2 == Out'
             a == All
             a2 == All'
  <2>2. /\ s \in TableType /\ t \in TableType /\ o \in Counts /\ o2 \in Counts /\ a \in Counts
        /\ a2 \in Counts /\ day \in Int /\ Balanced(s, o, a, day)
    BY <1>1, <1>2, <1>3, <2>1
  <2>3. Moved(s, t, o, o2, a, a2, c, g, day)
    BY <1>4 DEF Moved
  <2> HIDE DEF s, t, o, o2, a, a2
  <2>4. Balanced(t, o2, a2, day)
    BY <2>2, <2>3, StaysBalanced
  <2> QED BY <2>4 DEF t, o2, a2
<1>6. BooksOK' <=> Balanced(stored', Out', All', day')
  BY DEF BooksOK, Balanced
<1> QED BY <1>5, <1>6

\* Nothing is stored, counted or moved.
LEMMA BooksRest ==
    ASSUME BooksOK, CountTypes', UNCHANGED <<day, pending, stored, recorded, lost, doubled>>,
           \A f \in Metrics!Threads : thread'[f].hand = thread[f].hand
    PROVE  BooksOK'
<1>1. HandsOf(thread') = HandsOf(thread)
  BY DEF HandsOf
<1>2. Out' = Out /\ All' = All
  BY <1>1, OutIs DEF All
<1> QED BY <1>2 DEF BooksOK, Balanced

LEMMA ActiveRest ==
    ASSUME ActiveOK, request' = request, \A p \in Processes : live'[p].active = live[p].active
    PROVE  ActiveOK'
<1>1. \A p, b : Serving(p, b)' = Serving(p, b)
  BY DEF Serving
<1> QED BY <1>1 DEF ActiveOK

-----------------------------------------------------------------------------
(* The steps of a request. *)
LEMMA StartRequestStep ==
    ASSUME Metrics!MetricsAssumption, CountInv, NEW r \in MetricRequests, NEW p \in Processes,
           NEW x \in Entries, Metrics!StartRequest(r, p, x)
    PROVE  CountInv'
<1> DEFINE l == Metrics!Started(live[p], x)
<1>1. /\ request[r].state = "new"
      /\ request' = [request EXCEPT ![r] = [state |-> "started", process |-> p, entry |-> x]]
      /\ live' = [live EXCEPT ![p] = l]
      /\ UNCHANGED <<day, pending, thread, stored, faults, recorded, lost, doubled>>
  BY DEF Metrics!StartRequest
<1>2. /\ day \in Metrics!Days /\ live[p] \in LiveType /\ LiveAddsUp(live[p])
      /\ live \in [Processes -> LiveType] /\ request \in [MetricRequests -> RequestType]
  BY DEF CountInv, CountTypes, EntriesAgree
<1>3. /\ l \in LiveType /\ LiveAddsUp(l)
      /\ \A b \in Buckets : l.active[b] = live[p].active[b] + (IF b = BucketOf[x] THEN 1 ELSE 0)
  BY <1>2, StartedIs
<1> HIDE DEF l
<1>4. CountTypes'
  <2>1. live' \in [Processes -> LiveType]
    BY <1>1, <1>2, <1>3
  <2>2. request' \in [MetricRequests -> RequestType]
    BY <1>1, <1>2 DEF RequestType
  <2> QED BY <1>1, <2>1, <2>2 DEF CountInv, CountTypes
<1>5. HandsOK'
  BY <1>1 DEF CountInv, HandsOK
<1>6. EntriesAgree'
  BY <1>1, <1>2, <1>3 DEF CountInv, EntriesAgree
<1>7. BooksOK'
  BY <1>1, <1>4, BooksRest DEF CountInv
<1>8. ActiveOK'
  <2> SUFFICES ASSUME NEW q \in Processes, NEW b \in Buckets
               PROVE  live'[q].active[b] = Cardinality(Serving(q, b)')
    BY DEF ActiveOK
  <2>1. live[q].active[b] = Cardinality(Serving(q, b)) /\ IsFiniteSet(Serving(q, b))
    <3>1. Serving(q, b) \in SUBSET MetricRequests
      BY DEF Serving
    <3> QED BY <3>1, CountsFinite, FS_Subset DEF CountInv, ActiveOK
  <2>2. CASE q = p /\ b = BucketOf[x]
    <3>1. Serving(q, b)' = Serving(q, b) \cup {r} /\ r \notin Serving(q, b)
      BY <1>1, <1>2, <2>2 DEF Serving
    <3>2. Cardinality(Serving(q, b) \cup {r}) = Cardinality(Serving(q, b)) + 1
      BY <2>1, <3>1, FS_AddElement
    <3>3. live'[q].active[b] = live[q].active[b] + 1
      BY <1>1, <1>2, <1>3, <2>2
    <3> QED BY <2>1, <3>1, <3>2, <3>3
  <2>3. CASE ~(q = p /\ b = BucketOf[x])
    <3>1. Serving(q, b)' = Serving(q, b)
      BY <1>1, <1>2, <2>3 DEF Serving
    <3>2. live'[q].active[b] = live[q].active[b]
      <4>1. live[p].active[b] \in Nat
        BY <1>2 DEF LiveType
      <4> QED BY <1>1, <1>2, <1>3, <2>3, <4>1
    <3> QED BY <2>1, <3>1, <3>2
  <2> QED BY <2>2, <2>3
<1> QED BY <1>4, <1>5, <1>6, <1>7, <1>8 DEF CountInv

LEMMA RecordRequestStep ==
    ASSUME Metrics!MetricsAssumption, CountInv, NEW r \in MetricRequests, Metrics!RecordRequest(r)
    PROVE  CountInv'
<1> DEFINE p == request[r].process
           x == request[r].entry
           c == Metrics!One(x, day)
<1>1. /\ request[r].state = "started"
      /\ request' = [request EXCEPT ![r].state = "open"]
      /\ pending' = [pending EXCEPT ![p] = Metrics!Plus(pending[p], c)]
      /\ recorded' = Metrics!Plus(recorded, c)
      /\ UNCHANGED <<day, live, thread, stored, faults, lost, doubled>>
  BY DEF Metrics!RecordRequest
<1>2. p \in Processes /\ x \in Entries /\ day \in Metrics!Days
  BY <1>1 DEF CountInv, CountTypes, RequestType
<1>3. c \in Counts /\ AddsUp(c)
  BY <1>2, OneCount, OneAddsUp
<1>4. /\ pending \in [Processes -> Counts] /\ recorded \in Counts /\ lost \in Counts /\ doubled \in Counts
      /\ thread \in [Metrics!Threads -> ThreadType] /\ request \in [MetricRequests -> RequestType]
  BY DEF CountInv, CountTypes
<1> HIDE DEF c, p, x
<1>5. Metrics!Plus(pending[p], c) \in Counts /\ AddsUp(Metrics!Plus(pending[p], c))
  BY <1>2, <1>3, <1>4, PlusCounts, PlusAddsUp DEF CountInv, EntriesAgree
<1>6. CountTypes'
  <2>1. pending' \in [Processes -> Counts]
    BY <1>1, <1>4, <1>5
  <2>2. request' \in [MetricRequests -> RequestType]
    BY <1>1, <1>4 DEF RequestType
  <2>3. recorded' \in Counts
    BY <1>1, <1>3, <1>4, PlusCounts
  <2> QED BY <1>1, <2>1, <2>2, <2>3 DEF CountInv, CountTypes
<1>7. HandsOK'
  BY <1>1 DEF CountInv, HandsOK
<1>8. EntriesAgree'
  BY <1>1, <1>4, <1>5 DEF CountInv, EntriesAgree
<1>9. BooksOK'
  <2> DEFINE H == HandsOf(thread)
  <2>1. H \in [Metrics!Threads -> Counts] /\ H = HandsOf(thread')
    BY <1>1, <1>4, HandsType
  <2> HIDE DEF H
  <2>2. pending' \in [Processes -> Counts] /\ \A q \in Processes \ {p} : pending[q] = pending'[q]
    BY <1>1, <1>4, <1>6 DEF CountTypes
  <2>3. pending'[p] = Metrics!Plus(pending[p], c) /\ pending[p] \in Counts
    BY <1>1, <1>2, <1>4
  <2>4. ASSUME NEW e \in Entries, NEW d \in Metrics!Days
        PROVE  /\ All'.entry[e][d] = All.entry[e][d] + c.entry[e][d]
               /\ Out'.entry[e][d] + Metrics!NoCounts.entry[e][d] = Out.entry[e][d] + c.entry[e][d]
    <3>1. All'.entry[e][d] = recorded'.entry[e][d] + doubled.entry[e][d]
      BY <1>1, <1>4, <1>6, PlusCounts, OutIs DEF CountTypes
    <3>2. All.entry[e][d] = recorded.entry[e][d] + doubled.entry[e][d]
      BY <1>4, PlusCounts DEF All
    <3>3. recorded'.entry[e][d] = recorded.entry[e][d] + c.entry[e][d]
      BY <1>1, <1>3, <1>4, PlusCounts
    <3>4. /\ Waits(pending, H) \in Counts
          /\ Waits(pending, H).entry[e][d] = WaitsIn(pending, e, d) + WaitsWith(H, e, d)
          /\ WaitsIn(pending, e, d) \in Nat /\ WaitsWith(H, e, d) \in Nat
      BY <1>4, <2>1, WaitsType
    <3>5. /\ Waits(pending', H) \in Counts
          /\ Waits(pending', H).entry[e][d] = WaitsIn(pending', e, d) + WaitsWith(H, e, d)
          /\ WaitsIn(pending', e, d) \in Nat
      BY <2>1, <2>2, WaitsType
    <3>6. WaitsIn(pending, e, d) + pending'[p].entry[e][d] = WaitsIn(pending', e, d) + pending[p].entry[e][d]
      BY <1>2, <1>4, <2>2, WaitsInMoves
    <3>7. pending'[p].entry[e][d] = pending[p].entry[e][d] + c.entry[e][d]
      BY <1>3, <2>3, PlusCounts
    <3>8. Out.entry[e][d] = lost.entry[e][d] + Waits(pending, H).entry[e][d]
      BY <1>4, <3>4, PlusCounts, OutIs DEF H
    <3>9. Out'.entry[e][d] = lost.entry[e][d] + Waits(pending', H).entry[e][d]
      BY <1>1, <1>4, <2>1, <3>5, PlusCounts, OutIs
    <3>10. /\ lost.entry[e][d] \in Nat /\ recorded.entry[e][d] \in Nat /\ doubled.entry[e][d] \in Nat
           /\ c.entry[e][d] \in Nat /\ pending[p].entry[e][d] \in Nat
      BY <1>3, <1>4, <2>3 DEF Counts
    <3>11. All'.entry[e][d] = All.entry[e][d] + c.entry[e][d]
      BY <3>1, <3>2, <3>3, <3>10
    <3>12. WaitsIn(pending', e, d) = WaitsIn(pending, e, d) + c.entry[e][d]
      BY <3>4, <3>5, <3>6, <3>7, <3>10
    <3>13. Metrics!NoCounts.entry[e][d] = 0
      BY NoneCounted
    <3>14. Out'.entry[e][d] = Out.entry[e][d] + c.entry[e][d] /\ Out.entry[e][d] \in Nat
      BY <3>4, <3>5, <3>8, <3>9, <3>10, <3>12
    <3> QED BY <3>10, <3>11, <3>13, <3>14
  <2>5. Metrics!NoCounts \in Counts /\ day' = day /\ stored' = stored
    BY <1>1, NoneCounted
  <2> QED BY <1>3, <1>6, <2>4, <2>5, BooksStep DEF CountInv
<1>10. ActiveOK'
  <2>1. \A q, b : Serving(q, b)' = Serving(q, b)
    BY <1>1, <1>4 DEF Serving, RequestType
  <2> QED BY <1>1, <2>1 DEF CountInv, ActiveOK
<1> QED BY <1>6, <1>7, <1>8, <1>9, <1>10 DEF CountInv

LEMMA FinishRequestStep ==
    ASSUME Metrics!MetricsAssumption, CountInv, NEW r \in MetricRequests, Metrics!FinishRequest(r)
    PROVE  CountInv'
<1> DEFINE p == request[r].process
           x == request[r].entry
           l == Metrics!Finished(live[p], x)
<1>1. /\ request[r].state = "open"
      /\ request' = [request EXCEPT ![r] = [state |-> "done"]]
      /\ live' = [live EXCEPT ![p] = l]
      /\ UNCHANGED <<day, pending, thread, stored, faults, recorded, lost, doubled>>
  BY DEF Metrics!FinishRequest
<1>2. p \in Processes /\ x \in Entries /\ BucketOf[x] \in Buckets
  BY <1>1 DEF CountInv, CountTypes, RequestType, Metrics!MetricsAssumption
<1>3. /\ live[p] \in LiveType /\ LiveAddsUp(live[p])
      /\ live \in [Processes -> LiveType] /\ request \in [MetricRequests -> RequestType]
  BY <1>2 DEF CountInv, CountTypes, EntriesAgree
<1>4. \A q \in Processes, b \in Buckets :
          /\ live[q].active[b] = Cardinality(Serving(q, b)) /\ IsFiniteSet(Serving(q, b))
          /\ Cardinality(Serving(q, b)) \in Nat
  <2> TAKE q \in Processes, b \in Buckets
  <2>1. Serving(q, b) \in SUBSET MetricRequests
    BY DEF Serving
  <2>2. IsFiniteSet(Serving(q, b))
    BY <2>1, CountsFinite, FS_Subset
  <2> QED BY <2>2, FS_CardinalityType DEF CountInv, ActiveOK
<1>5. live[p].active[BucketOf[x]] > 0
  <2>1. r \in Serving(p, BucketOf[x])
    BY <1>1 DEF Serving
  <2>2. Cardinality(Serving(p, BucketOf[x])) # 0
    BY <1>2, <1>4, <2>1, FS_EmptySet
  <2> QED BY <1>2, <1>4, <2>2
<1>6. /\ l \in LiveType /\ LiveAddsUp(l)
      /\ \A b \in Buckets : l.active[b] = live[p].active[b] - (IF b = BucketOf[x] THEN 1 ELSE 0)
  BY <1>2, <1>3, <1>5, FinishedIs
<1>7. request[r].process = p /\ request[r].entry = x
  OBVIOUS
<1> HIDE DEF l, p, x
<1>8. CountTypes'
  <2>1. live' \in [Processes -> LiveType]
    BY <1>1, <1>3, <1>6
  <2>2. request' \in [MetricRequests -> RequestType]
    BY <1>1, <1>3 DEF RequestType
  <2> QED BY <1>1, <2>1, <2>2 DEF CountInv, CountTypes
<1>9. HandsOK'
  BY <1>1 DEF CountInv, HandsOK
<1>10. EntriesAgree'
  BY <1>1, <1>3, <1>6 DEF CountInv, EntriesAgree
<1>11. BooksOK'
  BY <1>1, <1>8, BooksRest DEF CountInv
<1>12. ActiveOK'
  <2> SUFFICES ASSUME NEW q \in Processes, NEW b \in Buckets
               PROVE  live'[q].active[b] = Cardinality(Serving(q, b)')
    BY DEF ActiveOK
  <2>1. CASE q = p /\ b = BucketOf[x]
    <3>1. Serving(q, b)' = Serving(q, b) \ {r} /\ r \in Serving(q, b)
      BY <1>1, <1>3, <1>7, <2>1 DEF Serving
    <3>2. Cardinality(Serving(q, b) \ {r}) = Cardinality(Serving(q, b)) - 1
      BY <1>4, <3>1, FS_RemoveElement
    <3>3. live'[q].active[b] = live[q].active[b] - 1
      BY <1>1, <1>3, <1>6, <2>1
    <3> QED BY <1>4, <3>1, <3>2, <3>3
  <2>2. CASE ~(q = p /\ b = BucketOf[x])
    <3>1. Serving(q, b)' = Serving(q, b)
      BY <1>1, <1>3, <1>7, <2>2 DEF Serving
    <3>2. live'[q].active[b] = live[q].active[b]
      <4>1. live[p].active[b] \in Nat
        BY <1>3 DEF LiveType
      <4> QED BY <1>1, <1>3, <1>6, <2>2, <4>1
    <3> QED BY <1>4, <3>1, <3>2
  <2> QED BY <2>1, <2>2
<1> QED BY <1>8, <1>9, <1>10, <1>11, <1>12 DEF CountInv

-----------------------------------------------------------------------------
(* The steps of a flush. *)
\* What a step of thread f moves between its process and its hand.
LEMMA FlushBooks ==
    ASSUME Metrics!MetricsAssumption, CountTypes, CountTypes', BooksOK, day' = day, lost' = lost,
           NEW f \in Metrics!Threads, NEW p \in Processes, NEW c \in Counts, NEW g \in Counts,
           \A q \in Processes \ {p} : pending[q] = pending'[q],
           \A h \in Metrics!Threads \ {f} : thread[h].hand = thread'[h].hand,
           \/ stored' = stored /\ c = Metrics!NoCounts
           \/ \E date \in Metrics!Days : date <= day /\ stored' = Metrics!Added(stored, c, date),
           \A e \in Entries, d \in Metrics!Days :
              /\ All'.entry[e][d] = All.entry[e][d] + g.entry[e][d]
              /\ pending'[p].entry[e][d] + thread'[f].hand.entry[e][d] + c.entry[e][d] =
                     pending[p].entry[e][d] + thread[f].hand.entry[e][d] + g.entry[e][d]
    PROVE  BooksOK'
<1> DEFINE H == HandsOf(thread)
           K == HandsOf(thread')
<1>1. /\ pending \in [Processes -> Counts] /\ pending' \in [Processes -> Counts]
      /\ thread \in [Metrics!Threads -> ThreadType] /\ thread' \in [Metrics!Threads -> ThreadType]
      /\ lost \in Counts
  BY DEF CountTypes
<1>2. /\ H \in [Metrics!Threads -> Counts] /\ K \in [Metrics!Threads -> Counts]
      /\ H[f] = thread[f].hand /\ K[f] = thread'[f].hand
      /\ \A h \in Metrics!Threads \ {f} : H[h] = K[h]
  BY <1>1, HandsType DEF HandsOf
<1> HIDE DEF H, K
<1>3. ASSUME NEW e \in Entries, NEW d \in Metrics!Days
      PROVE  Out'.entry[e][d] + c.entry[e][d] = Out.entry[e][d] + g.entry[e][d]
  <2>1. /\ Waits(pending, H) \in Counts
        /\ Waits(pending, H).entry[e][d] = WaitsIn(pending, e, d) + WaitsWith(H, e, d)
        /\ WaitsIn(pending, e, d) \in Nat /\ WaitsWith(H, e, d) \in Nat
    BY <1>1, <1>2, WaitsType
  <2>2. /\ Waits(pending', K) \in Counts
        /\ Waits(pending', K).entry[e][d] = WaitsIn(pending', e, d) + WaitsWith(K, e, d)
        /\ WaitsIn(pending', e, d) \in Nat /\ WaitsWith(K, e, d) \in Nat
    BY <1>1, <1>2, WaitsType
  <2>3. WaitsIn(pending, e, d) + pending'[p].entry[e][d] = WaitsIn(pending', e, d) + pending[p].entry[e][d]
    BY <1>1, WaitsInMoves
  <2>4. WaitsWith(H, e, d) + K[f].entry[e][d] = WaitsWith(K, e, d) + H[f].entry[e][d]
    BY <1>2, WaitsWithMoves
  <2>5. Out.entry[e][d] = lost.entry[e][d] + Waits(pending, H).entry[e][d]
    BY <1>1, <2>1, PlusCounts, OutIs DEF H
  <2>6. Out'.entry[e][d] = lost.entry[e][d] + Waits(pending', K).entry[e][d]
    BY <1>1, <2>2, PlusCounts, OutIs DEF K
  <2>7. /\ pending[p].entry[e][d] \in Nat /\ pending'[p].entry[e][d] \in Nat
        /\ H[f].entry[e][d] \in Nat /\ K[f].entry[e][d] \in Nat
        /\ lost.entry[e][d] \in Nat /\ c.entry[e][d] \in Nat /\ g.entry[e][d] \in Nat
    BY <1>1, <1>2 DEF Counts
  <2>8. pending'[p].entry[e][d] + K[f].entry[e][d] + c.entry[e][d] =
            pending[p].entry[e][d] + H[f].entry[e][d] + g.entry[e][d]
    BY <1>2
  <2> QED BY <2>1, <2>2, <2>3, <2>4, <2>5, <2>6, <2>7, <2>8
<1> QED BY <1>3, BooksStep

\* The other threads of the state after a step of f.
LEMMA OneThread ==
    ASSUME HandsOK, CountTypes, day' = day, NEW f \in Metrics!Threads, NEW t \in ThreadType,
           thread' = [thread EXCEPT ![f] = t], t.date <= day,
           t.step # "write" => t.hand = Metrics!NoCounts, AddsUp(t.hand), LiveAddsUp(t.seen),
           \A h \in Metrics!Threads : AddsUp(thread[h].hand) /\ LiveAddsUp(thread[h].seen)
    PROVE  /\ thread' \in [Metrics!Threads -> ThreadType] /\ HandsOK'
           /\ \A h \in Metrics!Threads : AddsUp(thread'[h].hand) /\ LiveAddsUp(thread'[h].seen)
           /\ thread'[f] = t /\ \A h \in Metrics!Threads \ {f} : thread'[h] = thread[h]
<1>1. thread \in [Metrics!Threads -> ThreadType]
  BY DEF CountTypes
<1>2. /\ thread' \in [Metrics!Threads -> ThreadType]
      /\ thread'[f] = t /\ \A h \in Metrics!Threads \ {f} : thread'[h] = thread[h]
  BY <1>1
<1>3. \A h \in Metrics!Threads : AddsUp(thread'[h].hand) /\ LiveAddsUp(thread'[h].seen)
  BY <1>2
<1>4. \A h \in Metrics!Threads : /\ thread'[h].date <= day
                                 /\ thread'[h].step # "write" => thread'[h].hand = Metrics!NoCounts
  BY <1>2 DEF HandsOK
<1>5. HandsOK'
  BY <1>4 DEF HandsOK
<1> QED BY <1>2, <1>3, <1>5

LEMMA ThreadProcess ==
    ASSUME Metrics!MetricsAssumption, NEW f \in Metrics!Threads
    PROVE  Metrics!OfThread(f) \in Processes
BY DEF Metrics!MetricsAssumption, Metrics!Threads, Metrics!OfThread

\* Nothing is counted by the middleware.
LEMMA AllRest ==
    ASSUME CountTypes, UNCHANGED <<recorded, doubled>>, NEW e \in Entries, NEW d \in Metrics!Days
    PROVE  All'.entry[e][d] = All.entry[e][d] + Metrics!NoCounts.entry[e][d]
<1>1. All \in Counts /\ All' = All
  BY PlusCounts, OutIs DEF All, CountTypes
<1>2. All.entry[e][d] \in Nat
  BY <1>1 DEF Counts
<1> QED BY <1>1, <1>2, NoneCounted

LEMMA TakePendingStep ==
    ASSUME Metrics!MetricsAssumption, CountInv, NEW f \in Metrics!Threads, Metrics!TakePending(f)
    PROVE  CountInv'
<1> DEFINE p == Metrics!OfThread(f)
<1>1. /\ thread[f].step # "write"
      /\ UNCHANGED <<day, request, live, stored, faults, recorded, lost, doubled>>
  BY DEF Metrics!TakePending
<1>2. /\ p \in Processes /\ pending \in [Processes -> Counts] /\ thread \in [Metrics!Threads -> ThreadType]
      /\ thread[f] \in ThreadType /\ pending[p] \in Counts /\ day \in Metrics!Days
      /\ AddsUp(pending[p]) /\ AddsUp(thread[f].hand) /\ LiveAddsUp(thread[f].seen)
      /\ thread[f].date <= day /\ thread[f].hand = Metrics!NoCounts
      /\ \A h \in Metrics!Threads : AddsUp(thread[h].hand) /\ LiveAddsUp(thread[h].seen)
  BY <1>1, ThreadProcess DEF CountInv, CountTypes, EntriesAgree, HandsOK
<1>3. CASE pending' = pending /\ thread' = [thread EXCEPT ![f].step = "read"]
  <2> DEFINE t == [thread[f] EXCEPT !.step = "read"]
  <2>1. thread' = [thread EXCEPT ![f] = t]
    BY <1>2, <1>3
  <2>2. /\ t \in ThreadType /\ t.date = thread[f].date /\ t.hand = thread[f].hand
        /\ t.seen = thread[f].seen
    BY <1>2 DEF ThreadType, FlushSteps
  <2> HIDE DEF t
  <2>3. /\ thread' \in [Metrics!Threads -> ThreadType] /\ HandsOK'
        /\ \A h \in Metrics!Threads : AddsUp(thread'[h].hand) /\ LiveAddsUp(thread'[h].seen)
        /\ thread'[f] = t /\ \A h \in Metrics!Threads \ {f} : thread'[h] = thread[h]
    BY <1>1, <1>2, <2>1, <2>2, OneThread DEF CountInv
  <2>4. CountTypes'
    BY <1>1, <1>3, <2>3 DEF CountInv, CountTypes
  <2>5. EntriesAgree'
    BY <1>1, <1>3, <2>3 DEF CountInv, EntriesAgree
  <2>6. BooksOK'
    <3>1. \A h \in Metrics!Threads : thread'[h].hand = thread[h].hand
      BY <2>2, <2>3
    <3> QED BY <1>1, <1>3, <2>4, <3>1, BooksRest DEF CountInv
  <2>7. ActiveOK'
    BY <1>1, ActiveRest DEF CountInv
  <2> QED BY <2>3, <2>4, <2>5, <2>6, <2>7 DEF CountInv
<1>4. CASE /\ thread' = [thread EXCEPT ![f].step = "write", ![f].date = day, ![f].hand = pending[p]]
           /\ pending' = [pending EXCEPT ![p] = Metrics!NoCounts]
  <2> DEFINE t == [thread[f] EXCEPT !.step = "write", !.date = day, !.hand = pending[p]]
  <2>1. thread' = [thread EXCEPT ![f] = t]
    BY <1>2, <1>4
  <2>2. /\ t \in ThreadType /\ t.step = "write" /\ t.date = day /\ t.hand = pending[p]
        /\ t.seen = thread[f].seen
    BY <1>2 DEF ThreadType, FlushSteps
  <2> HIDE DEF t, p
  <2>3. /\ thread' \in [Metrics!Threads -> ThreadType] /\ HandsOK'
        /\ \A h \in Metrics!Threads : AddsUp(thread'[h].hand) /\ LiveAddsUp(thread'[h].seen)
        /\ thread'[f] = t /\ \A h \in Metrics!Threads \ {f} : thread'[h] = thread[h]
    <3>1. t.date <= day
      BY <1>2, <2>2 DEF Metrics!Days
    <3> QED BY <1>1, <1>2, <2>1, <2>2, <3>1, OneThread DEF CountInv
  <2>4. /\ pending' \in [Processes -> Counts] /\ pending'[p] = Metrics!NoCounts
        /\ \A q \in Processes \ {p} : pending[q] = pending'[q]
    BY <1>2, <1>4, NoneCounted
  <2>5. CountTypes'
    BY <1>1, <2>3, <2>4 DEF CountInv, CountTypes
  <2>6. EntriesAgree'
    BY <1>1, <1>4, <2>3, <2>4, NoneAddsUp DEF CountInv, EntriesAgree
  <2>7. BooksOK'
    <3>1. ASSUME NEW e \in Entries, NEW d \in Metrics!Days
          PROVE  /\ All'.entry[e][d] = All.entry[e][d] + Metrics!NoCounts.entry[e][d]
                 /\ pending'[p].entry[e][d] + thread'[f].hand.entry[e][d] + Metrics!NoCounts.entry[e][d] =
                        pending[p].entry[e][d] + thread[f].hand.entry[e][d] + Metrics!NoCounts.entry[e][d]
      <4>1. pending[p].entry[e][d] \in Nat
        BY <1>2 DEF Counts
      <4> QED BY <1>1, <1>2, <2>2, <2>3, <2>4, <4>1, AllRest, NoneCounted DEF CountInv
    <3>2. \A h \in Metrics!Threads \ {f} : thread[h].hand = thread'[h].hand
      BY <2>3
    <3> QED BY <1>1, <1>2, <2>4, <2>5, <3>1, <3>2, FlushBooks, NoneCounted DEF CountInv
  <2>8. ActiveOK'
    BY <1>1, ActiveRest DEF CountInv
  <2> QED BY <2>3, <2>5, <2>6, <2>7, <2>8 DEF CountInv
<1> QED BY <1>3, <1>4 DEF Metrics!TakePending

\* A flush that is over: its thread has nothing in hand.
LEMMA FlushOver ==
    ASSUME Metrics!MetricsAssumption, CountInv, NEW f \in Metrics!Threads, thread[f].step = "write",
           day' = day, Metrics!LetGo(f)
    PROVE  /\ thread' \in [Metrics!Threads -> ThreadType] /\ HandsOK'
           /\ \A h \in Metrics!Threads : AddsUp(thread'[h].hand) /\ LiveAddsUp(thread'[h].seen)
           /\ thread'[f].hand = Metrics!NoCounts /\ \A h \in Metrics!Threads \ {f} : thread[h].hand = thread'[h].hand
           /\ thread[f].hand \in Counts /\ AddsUp(thread[f].hand)
           /\ thread[f].date \in Metrics!Days /\ thread[f].date <= day
<1> DEFINE t == [thread[f] EXCEPT !.step = Metrics!AfterFlush(f), !.hand = Metrics!NoCounts]
<1>1. /\ thread \in [Metrics!Threads -> ThreadType] /\ thread[f] \in ThreadType
      /\ thread[f].date <= day /\ AddsUp(thread[f].hand) /\ LiveAddsUp(thread[f].seen)
      /\ \A h \in Metrics!Threads : AddsUp(thread[h].hand) /\ LiveAddsUp(thread[h].seen)
  BY DEF CountInv, CountTypes, EntriesAgree, HandsOK
<1>2. thread' = [thread EXCEPT ![f] = t]
  BY <1>1 DEF Metrics!LetGo
<1>3. /\ t \in ThreadType /\ t.date = thread[f].date /\ t.hand = Metrics!NoCounts
      /\ t.seen = thread[f].seen
  BY <1>1, NoneCounted DEF ThreadType, FlushSteps, Metrics!AfterFlush
<1>4. thread[f].hand \in Counts /\ thread[f].date \in Metrics!Days
  BY <1>1 DEF ThreadType
<1> HIDE DEF t
<1>5. /\ thread' \in [Metrics!Threads -> ThreadType] /\ HandsOK'
      /\ \A h \in Metrics!Threads : AddsUp(thread'[h].hand) /\ LiveAddsUp(thread'[h].seen)
      /\ thread'[f] = t /\ \A h \in Metrics!Threads \ {f} : thread'[h] = thread[h]
  BY <1>1, <1>2, <1>3, NoneAddsUp, OneThread DEF CountInv
<1> QED BY <1>1, <1>3, <1>4, <1>5

LEMMA FlushCommitStep ==
    ASSUME Metrics!MetricsAssumption, CountInv, NEW f \in Metrics!Threads, Metrics!Commit(f)
    PROVE  CountInv'
<1> DEFINE p == Metrics!OfThread(f)
           c == thread[f].hand
<1>1. /\ thread[f].step = "write" /\ Metrics!LetGo(f)
      /\ stored' = Metrics!Added(stored, c, thread[f].date)
      /\ UNCHANGED <<day, request, live, pending, faults, recorded, lost, doubled>>
  BY DEF Metrics!Commit
<1>2. /\ thread' \in [Metrics!Threads -> ThreadType] /\ HandsOK'
      /\ \A h \in Metrics!Threads : AddsUp(thread'[h].hand) /\ LiveAddsUp(thread'[h].seen)
      /\ thread'[f].hand = Metrics!NoCounts /\ \A h \in Metrics!Threads \ {f} : thread[h].hand = thread'[h].hand
      /\ c \in Counts /\ AddsUp(c)
      /\ thread[f].date \in Metrics!Days /\ thread[f].date <= day
  BY <1>1, FlushOver
<1>3. /\ p \in Processes /\ pending \in [Processes -> Counts] /\ pending[p] \in Counts
      /\ stored \in TableType /\ TablesAddUp(stored)
  BY ThreadProcess DEF CountInv, CountTypes, EntriesAgree
<1>4. thread[f].hand = c
  OBVIOUS
<1> HIDE DEF p, c
<1>5. stored' \in TableType /\ TablesAddUp(stored')
  BY <1>1, <1>2, <1>3, AddedIs, AddedAddsUp
<1>6. CountTypes'
  BY <1>1, <1>2, <1>5 DEF CountInv, CountTypes
<1>7. EntriesAgree'
  BY <1>1, <1>2, <1>5 DEF CountInv, EntriesAgree
<1>8. BooksOK'
  <2>1. ASSUME NEW e \in Entries, NEW d \in Metrics!Days
        PROVE  /\ All'.entry[e][d] = All.entry[e][d] + Metrics!NoCounts.entry[e][d]
               /\ pending'[p].entry[e][d] + thread'[f].hand.entry[e][d] + c.entry[e][d] =
                      pending[p].entry[e][d] + thread[f].hand.entry[e][d] + Metrics!NoCounts.entry[e][d]
    <3>1. pending[p].entry[e][d] \in Nat /\ c.entry[e][d] \in Nat
      BY <1>2, <1>3 DEF Counts
    <3> QED BY <1>1, <1>2, <1>4, <3>1, AllRest, NoneCounted DEF CountInv
  <2>2. \E date \in Metrics!Days : date <= day /\ stored' = Metrics!Added(stored, c, date)
    BY <1>1, <1>2
  <2> QED BY <1>1, <1>2, <1>3, <1>6, <2>1, <2>2, FlushBooks, NoneCounted DEF CountInv
<1>9. ActiveOK'
  BY <1>1, ActiveRest DEF CountInv
<1> QED BY <1>2, <1>6, <1>7, <1>8, <1>9 DEF CountInv

\* What is put back.
LEMMA PutBackIs ==
    ASSUME Metrics!MetricsAssumption, CountInv, NEW f \in Metrics!Threads, thread[f].step = "write",
           day' = day, Metrics!LetGo(f), Metrics!PutBack(f)
    PROVE  LET p == Metrics!OfThread(f)
           IN  /\ p \in Processes /\ pending' \in [Processes -> Counts]
               /\ \A q \in Processes : AddsUp(pending'[q])
               /\ \A q \in Processes \ {p} : pending[q] = pending'[q]
               /\ \A e \in Entries, d \in Metrics!Days :
                     /\ pending'[p].entry[e][d] = pending[p].entry[e][d] + thread[f].hand.entry[e][d]
                     /\ pending[p].entry[e][d] \in Nat /\ thread[f].hand.entry[e][d] \in Nat
<1> DEFINE p == Metrics!OfThread(f)
           c == thread[f].hand
           k == Metrics!Plus(pending[p], c)
<1>1. pending' = [pending EXCEPT ![p] = k]
  BY DEF Metrics!PutBack
<1>2. /\ p \in Processes /\ pending \in [Processes -> Counts] /\ pending[p] \in Counts
      /\ \A q \in Processes : AddsUp(pending[q])
  BY ThreadProcess DEF CountInv, CountTypes, EntriesAgree
<1>3. c \in Counts /\ AddsUp(c)
  BY FlushOver
<1>4. thread[f].hand = c
  OBVIOUS
<1> HIDE DEF p, c
<1>5. /\ k \in Counts /\ AddsUp(k)
      /\ \A e \in Entries, d \in Metrics!Days : k.entry[e][d] = pending[p].entry[e][d] + c.entry[e][d]
  BY <1>2, <1>3, PlusCounts, PlusAddsUp
<1> HIDE DEF k
<1>6. /\ pending' \in [Processes -> Counts] /\ pending'[p] = k
      /\ \A q \in Processes \ {p} : pending[q] = pending'[q]
      /\ \A q \in Processes : AddsUp(pending'[q])
  BY <1>1, <1>2, <1>5
<1>7. \A e \in Entries, d \in Metrics!Days : pending[p].entry[e][d] \in Nat /\ c.entry[e][d] \in Nat
  BY <1>2, <1>3 DEF Counts
<1> QED BY <1>2, <1>4, <1>5, <1>6, <1>7 DEF p

LEMMA FlushFailsStep ==
    ASSUME Metrics!MetricsAssumption, CountInv, NEW f \in Metrics!Threads, Metrics!FlushFails(f)
    PROVE  CountInv'
<1> DEFINE p == Metrics!OfThread(f)
<1>1. /\ thread[f].step = "write" /\ Metrics!LetGo(f) /\ Metrics!PutBack(f)
      /\ UNCHANGED <<day, request, live, stored, faults, recorded, lost, doubled>>
  BY DEF Metrics!FlushFails
<1>2. /\ thread' \in [Metrics!Threads -> ThreadType] /\ HandsOK'
      /\ \A h \in Metrics!Threads : AddsUp(thread'[h].hand) /\ LiveAddsUp(thread'[h].seen)
      /\ thread'[f].hand = Metrics!NoCounts /\ \A h \in Metrics!Threads \ {f} : thread[h].hand = thread'[h].hand
  BY <1>1, FlushOver
<1>3. /\ p \in Processes /\ pending' \in [Processes -> Counts]
      /\ \A q \in Processes : AddsUp(pending'[q])
      /\ \A q \in Processes \ {p} : pending[q] = pending'[q]
      /\ \A e \in Entries, d \in Metrics!Days :
            /\ pending'[p].entry[e][d] = pending[p].entry[e][d] + thread[f].hand.entry[e][d]
            /\ pending[p].entry[e][d] \in Nat /\ thread[f].hand.entry[e][d] \in Nat
  BY <1>1, PutBackIs
<1> HIDE DEF p
<1>4. CountTypes'
  BY <1>1, <1>2, <1>3 DEF CountInv, CountTypes
<1>5. EntriesAgree'
  BY <1>1, <1>2, <1>3 DEF CountInv, EntriesAgree
<1>6. BooksOK'
  <2>1. ASSUME NEW e \in Entries, NEW d \in Metrics!Days
        PROVE  /\ All'.entry[e][d] = All.entry[e][d] + Metrics!NoCounts.entry[e][d]
               /\ pending'[p].entry[e][d] + thread'[f].hand.entry[e][d] + Metrics!NoCounts.entry[e][d] =
                      pending[p].entry[e][d] + thread[f].hand.entry[e][d] + Metrics!NoCounts.entry[e][d]
    BY <1>1, <1>2, <1>3, AllRest, NoneCounted DEF CountInv
  <2> QED BY <1>1, <1>2, <1>3, <1>4, <2>1, FlushBooks, NoneCounted DEF CountInv
<1>7. ActiveOK'
  BY <1>1, ActiveRest DEF CountInv
<1> QED BY <1>2, <1>4, <1>5, <1>6, <1>7 DEF CountInv

LEMMA AnswerLostStep ==
    ASSUME Metrics!MetricsAssumption, CountInv, NEW f \in Metrics!Threads, Metrics!AnswerLost(f)
    PROVE  CountInv'
<1> DEFINE p == Metrics!OfThread(f)
           c == thread[f].hand
<1>1. /\ thread[f].step = "write" /\ Metrics!LetGo(f) /\ Metrics!PutBack(f)
      /\ stored' = Metrics!Added(stored, c, thread[f].date)
      /\ doubled' = Metrics!Plus(doubled, c)
      /\ UNCHANGED <<day, request, live, recorded, lost>>
  BY DEF Metrics!AnswerLost
<1>2. /\ thread' \in [Metrics!Threads -> ThreadType] /\ HandsOK'
      /\ \A h \in Metrics!Threads : AddsUp(thread'[h].hand) /\ LiveAddsUp(thread'[h].seen)
      /\ thread'[f].hand = Metrics!NoCounts /\ \A h \in Metrics!Threads \ {f} : thread[h].hand = thread'[h].hand
      /\ c \in Counts /\ AddsUp(c)
      /\ thread[f].date \in Metrics!Days /\ thread[f].date <= day
  BY <1>1, FlushOver
<1>3. /\ p \in Processes /\ pending' \in [Processes -> Counts]
      /\ \A q \in Processes : AddsUp(pending'[q])
      /\ \A q \in Processes \ {p} : pending[q] = pending'[q]
      /\ \A e \in Entries, d \in Metrics!Days :
            /\ pending'[p].entry[e][d] = pending[p].entry[e][d] + c.entry[e][d]
            /\ pending[p].entry[e][d] \in Nat /\ c.entry[e][d] \in Nat
  BY <1>1, PutBackIs
<1>4. /\ stored \in TableType /\ TablesAddUp(stored) /\ doubled \in Counts /\ recorded \in Counts
  BY DEF CountInv, CountTypes, EntriesAgree
<1>5. thread[f].hand = c
  OBVIOUS
<1> HIDE DEF p, c
<1>6. stored' \in TableType /\ TablesAddUp(stored')
  BY <1>1, <1>2, <1>4, AddedIs, AddedAddsUp
<1>7. /\ doubled' \in Counts
      /\ \A e \in Entries, d \in Metrics!Days : doubled'.entry[e][d] = doubled.entry[e][d] + c.entry[e][d]
  BY <1>1, <1>2, <1>4, PlusCounts
<1>8. CountTypes'
  BY <1>1, <1>2, <1>3, <1>6, <1>7 DEF CountInv, CountTypes
<1>9. EntriesAgree'
  BY <1>1, <1>2, <1>3, <1>6 DEF CountInv, EntriesAgree
<1>10. BooksOK'
  <2>1. ASSUME NEW e \in Entries, NEW d \in Metrics!Days
        PROVE  /\ All'.entry[e][d] = All.entry[e][d] + c.entry[e][d]
               /\ pending'[p].entry[e][d] + thread'[f].hand.entry[e][d] + c.entry[e][d] =
                      pending[p].entry[e][d] + thread[f].hand.entry[e][d] + c.entry[e][d]
    <3>1. All.entry[e][d] = recorded.entry[e][d] + doubled.entry[e][d]
      BY <1>4, PlusCounts DEF All
    <3>2. All'.entry[e][d] = recorded.entry[e][d] + doubled'.entry[e][d]
      BY <1>1, <1>4, <1>7, PlusCounts, OutIs
    <3>3. recorded.entry[e][d] \in Nat /\ doubled.entry[e][d] \in Nat
      BY <1>4 DEF Counts
    <3> QED BY <1>2, <1>3, <1>5, <1>7, <3>1, <3>2, <3>3, NoneCounted
  <2>2. \E date \in Metrics!Days : date <= day /\ stored' = Metrics!Added(stored, c, date)
    BY <1>1, <1>2
  <2> QED BY <1>1, <1>2, <1>3, <1>8, <2>1, <2>2, FlushBooks DEF CountInv
<1>11. ActiveOK'
  BY <1>1, ActiveRest DEF CountInv
<1> QED BY <1>2, <1>8, <1>9, <1>10, <1>11 DEF CountInv

-----------------------------------------------------------------------------
(* The steps of a view. *)
\* A step of a view: other live counters, with nobody more or less active,
\* and another step for its thread, with the hand as it was.
LEMMA ViewStep ==
    ASSUME Metrics!MetricsAssumption, CountInv, NEW f \in Metrics!Threads, NEW t \in ThreadType,
           thread' = [thread EXCEPT ![f] = t], t.hand = thread[f].hand, t.date <= day,
           t.hand = Metrics!NoCounts, LiveAddsUp(t.seen),
           live' \in [Processes -> LiveType],
           \A p \in Processes : LiveAddsUp(live'[p]) /\ live'[p].active = live[p].active,
           UNCHANGED <<day, request, pending, stored, faults, recorded, lost, doubled>>
    PROVE  CountInv'
<1>1. /\ thread \in [Metrics!Threads -> ThreadType] /\ CountTypes /\ HandsOK
      /\ \A h \in Metrics!Threads : AddsUp(thread[h].hand) /\ LiveAddsUp(thread[h].seen)
  BY DEF CountInv, CountTypes, EntriesAgree
<1>2. /\ thread' \in [Metrics!Threads -> ThreadType] /\ HandsOK'
      /\ \A h \in Metrics!Threads : AddsUp(thread'[h].hand) /\ LiveAddsUp(thread'[h].seen)
      /\ thread'[f] = t /\ \A h \in Metrics!Threads \ {f} : thread'[h] = thread[h]
  BY <1>1, NoneAddsUp, OneThread
<1>3. CountTypes'
  BY <1>2 DEF CountInv, CountTypes
<1>4. EntriesAgree'
  BY <1>2 DEF CountInv, EntriesAgree
<1>5. BooksOK'
  <2>1. \A h \in Metrics!Threads : thread'[h].hand = thread[h].hand
    BY <1>2
  <2> QED BY <1>3, <2>1, BooksRest DEF CountInv
<1>6. ActiveOK'
  BY ActiveRest DEF CountInv
<1> QED BY <1>2, <1>3, <1>4, <1>5, <1>6 DEF CountInv

\* The live counters of one process rolled over.
LEMMA OneRolledOver ==
    ASSUME CountInv, NEW p \in Processes, NEW k, k = Metrics!RolledOver(live[p]),
           live' = [live EXCEPT ![p] = k]
    PROVE  /\ live' \in [Processes -> LiveType] /\ k \in LiveType /\ LiveAddsUp(k)
           /\ live'[p] = k
           /\ \A q \in Processes : LiveAddsUp(live'[q]) /\ live'[q].active = live[q].active
<1>1. /\ live \in [Processes -> LiveType] /\ day \in Metrics!Days
      /\ \A q \in Processes : live[q] \in LiveType /\ LiveAddsUp(live[q])
  BY DEF CountInv, CountTypes, EntriesAgree
<1>2. k \in LiveType /\ LiveAddsUp(k) /\ k.active = live[p].active
  BY <1>1, RolledOverIs
<1> QED BY <1>1, <1>2

LEMMA ViewBeginsStep ==
    ASSUME Metrics!MetricsAssumption, CountInv, NEW f \in Metrics!Threads, Metrics!ViewBegins(f)
    PROVE  CountInv'
<1> DEFINE p == Metrics!OfThread(f)
           k == Metrics!RolledOver(live[p])
           t == [thread[f] EXCEPT !.step = "remote", !.seen = k]
<1>1. /\ thread[f].step = "idle" /\ live' = [live EXCEPT ![p] = k]
      /\ thread' = [thread EXCEPT ![f].step = "remote", ![f].seen = live'[p]]
      /\ UNCHANGED <<day, request, pending, stored, faults, recorded, lost, doubled>>
  BY DEF Metrics!ViewBegins
<1>2. p \in Processes
  BY ThreadProcess
<1>3. /\ live' \in [Processes -> LiveType] /\ k \in LiveType /\ LiveAddsUp(k) /\ live'[p] = k
      /\ \A q \in Processes : LiveAddsUp(live'[q]) /\ live'[q].active = live[q].active
  <2> HIDE DEF p
  <2>1. k = Metrics!RolledOver(live[p])
    OBVIOUS
  <2> HIDE DEF k
  <2> QED BY <1>1, <1>2, <2>1, OneRolledOver
<1>4. /\ thread \in [Metrics!Threads -> ThreadType] /\ thread[f] \in ThreadType
      /\ thread[f].hand = Metrics!NoCounts /\ thread[f].date <= day
  BY <1>1 DEF CountInv, CountTypes, HandsOK
<1> HIDE DEF p, k
<1>5. thread' = [thread EXCEPT ![f] = t]
  BY <1>1, <1>3, <1>4
<1>6. t \in ThreadType /\ t.hand = thread[f].hand /\ t.date = thread[f].date /\ t.seen = k
  BY <1>3, <1>4 DEF ThreadType, FlushSteps
<1> HIDE DEF t
<1> QED BY <1>1, <1>3, <1>4, <1>5, <1>6, ViewStep

LEMMA ViewRemoteStep ==
    ASSUME Metrics!MetricsAssumption, CountInv, NEW f \in Metrics!Threads, NEW p \in Processes,
           Metrics!ViewRemote(f, p)
    PROVE  CountInv'
<1>1. /\ thread[f].step = "remote"
      /\ UNCHANGED <<day, request, pending, stored, faults, recorded, lost, doubled>>
  BY DEF Metrics!ViewRemote
<1>2. /\ thread \in [Metrics!Threads -> ThreadType] /\ thread[f] \in ThreadType
      /\ thread[f].hand = Metrics!NoCounts /\ thread[f].date <= day /\ LiveAddsUp(thread[f].seen)
      /\ thread[f].seen \in LiveType
      /\ live \in [Processes -> LiveType] /\ \A q \in Processes : LiveAddsUp(live[q])
  BY <1>1 DEF CountInv, CountTypes, HandsOK, EntriesAgree, ThreadType
<1>3. CASE /\ live' = [live EXCEPT ![p] = Metrics!RolledOver(@)]
           /\ thread' = [thread EXCEPT ![f].step = "flush", ![f].seen = Metrics!Merged(@, live'[p])]
  <2> DEFINE k == Metrics!RolledOver(live[p])
             m == Metrics!Merged(thread[f].seen, k)
             t == [thread[f] EXCEPT !.step = "flush", !.seen = m]
  <2>1. /\ live' \in [Processes -> LiveType] /\ k \in LiveType /\ LiveAddsUp(k) /\ live'[p] = k
        /\ \A q \in Processes : LiveAddsUp(live'[q]) /\ live'[q].active = live[q].active
    <3>1. k = Metrics!RolledOver(live[p]) /\ live' = [live EXCEPT ![p] = k]
      BY <1>3
    <3> HIDE DEF k
    <3> QED BY <3>1, OneRolledOver
  <2> HIDE DEF k
  <2>2. m \in LiveType /\ LiveAddsUp(m)
    BY <1>2, <2>1, MergedIs
  <2>3. thread' = [thread EXCEPT ![f].step = "flush", ![f].seen = m]
    BY <1>2, <1>3, <2>1
  <2> HIDE DEF m
  <2>4. thread' = [thread EXCEPT ![f] = t]
    BY <1>2, <2>3
  <2>5. t \in ThreadType /\ t.hand = thread[f].hand /\ t.date = thread[f].date /\ t.seen = m
    BY <1>2, <2>2 DEF ThreadType, FlushSteps
  <2> HIDE DEF t
  <2> QED BY <1>1, <1>2, <2>1, <2>2, <2>4, <2>5, ViewStep
<1>4. CASE live' = live /\ thread' = [thread EXCEPT ![f].step = "flush"]
  <2> DEFINE t == [thread[f] EXCEPT !.step = "flush"]
  <2>1. thread' = [thread EXCEPT ![f] = t]
    BY <1>2, <1>4
  <2>2. t \in ThreadType /\ t.hand = thread[f].hand /\ t.date = thread[f].date /\ t.seen = thread[f].seen
    BY <1>2 DEF ThreadType, FlushSteps
  <2> HIDE DEF t
  <2> QED BY <1>1, <1>2, <1>4, <2>1, <2>2, ViewStep
<1> QED BY <1>3, <1>4 DEF Metrics!ViewRemote

\* A thread at rest.
LEMMA RestingIs ==
    ASSUME Metrics!MetricsAssumption, day \in Metrics!Days
    PROVE  /\ Metrics!Resting \in ThreadType /\ Metrics!Resting.hand = Metrics!NoCounts
           /\ Metrics!Resting.date <= day /\ LiveAddsUp(Metrics!Resting.seen)
<1>1. 1 \in Metrics!Days /\ 1 <= day
  BY DEF Metrics!MetricsAssumption, Metrics!Days
<1> QED BY <1>1, NewLiveIs, NoneCounted DEF Metrics!Resting, ThreadType, FlushSteps

LEMMA ShowPageStep ==
    ASSUME Metrics!MetricsAssumption, CountInv, NEW f \in Metrics!Threads, Metrics!ShowPage(f)
    PROVE  CountInv'
<1>1. /\ thread[f].step = "read" /\ thread' = [thread EXCEPT ![f] = Metrics!Resting]
      /\ UNCHANGED <<day, request, live, pending, stored, faults, recorded, lost, doubled>>
  BY DEF Metrics!ShowPage
<1>2. /\ thread[f].hand = Metrics!NoCounts /\ day \in Metrics!Days
      /\ live \in [Processes -> LiveType] /\ \A q \in Processes : LiveAddsUp(live[q])
  BY <1>1 DEF CountInv, CountTypes, HandsOK, EntriesAgree
<1> QED BY <1>1, <1>2, RestingIs, ViewStep

-----------------------------------------------------------------------------
(* Midnight, and a kill. *)
LEMMA MidnightStep ==
    ASSUME Metrics!MetricsAssumption, CountInv, Metrics!Midnight
    PROVE  CountInv'
<1>1. /\ day < LastDay /\ day' = day + 1
      /\ UNCHANGED <<request, live, pending, thread, stored, faults, recorded, lost, doubled>>
  BY DEF Metrics!Midnight, Metrics!metrics
<1>2. day \in Int /\ day \in Metrics!Days /\ day' \in Metrics!Days
  BY <1>1 DEF CountInv, CountTypes, Metrics!Days, Metrics!MetricsAssumption
<1>3. CountTypes'
  BY <1>1, <1>2 DEF CountInv, CountTypes
<1>4. HandsOK'
  <2>1. \A f \in Metrics!Threads : thread[f].date \in Int /\ thread[f].date <= day
    BY DEF CountInv, CountTypes, HandsOK, ThreadType, Metrics!Days
  <2>2. \A f \in Metrics!Threads : thread[f].date <= day + 1
    BY <1>2, <2>1
  <2> QED BY <1>1, <2>2 DEF CountInv, HandsOK
<1>5. EntriesAgree'
  BY <1>1 DEF CountInv, EntriesAgree
<1>6. BooksOK'
  <2>1. Out' = Out /\ All' = All
    BY <1>1, OutIs DEF All
  <2>2. \A d \in Metrics!Days : d >= day + 1 => d >= day
    BY <1>2 DEF Metrics!Days
  <2>3. Balanced(stored, Out, All, day + 1)
    BY <2>2 DEF CountInv, BooksOK, Balanced
  <2>4. BooksOK' <=> Balanced(stored', Out', All', day')
    BY DEF BooksOK, Balanced
  <2> QED BY <1>1, <2>1, <2>3, <2>4
<1>7. ActiveOK'
  BY <1>1, ActiveRest DEF CountInv
<1> QED BY <1>3, <1>4, <1>5, <1>6, <1>7 DEF CountInv

LEMMA ProcessKillStep ==
    ASSUME Metrics!MetricsAssumption, CountInv, NEW p \in Processes, Metrics!Kill(p)
    PROVE  CountInv'
<1> DEFINE l == [Metrics!NewLive EXCEPT !.day = day]
           S == {f \in Metrics!Threads : ProcessOf[f] = p}
           H == HandsOf(thread)
           K == HandsOf(thread')
           W == Metrics!Together(H, S)
<1>1. /\ live' = [live EXCEPT ![p] = l]
      /\ pending' = [pending EXCEPT ![p] = Metrics!NoCounts]
      /\ thread' = [f \in Metrics!Threads |-> IF ProcessOf[f] = p THEN Metrics!Resting ELSE thread[f]]
      /\ request' = [r \in MetricRequests |->
                        IF request[r].state \in {"started", "open"} /\ request[r].process = p
                        THEN [state |-> "done"] ELSE request[r]]
      /\ lost' = Metrics!Plus(lost, Metrics!Plus(pending[p], W))
      /\ UNCHANGED <<day, stored, recorded, doubled>>
  BY DEF Metrics!Kill, Metrics!OfThread, Metrics!InHand, Metrics!Hands, HandsOf
<1>2. /\ day \in Metrics!Days /\ live \in [Processes -> LiveType] /\ pending \in [Processes -> Counts]
      /\ thread \in [Metrics!Threads -> ThreadType] /\ request \in [MetricRequests -> RequestType]
      /\ lost \in Counts /\ recorded \in Counts /\ doubled \in Counts /\ pending[p] \in Counts
  BY DEF CountInv, CountTypes
<1>3. l \in LiveType /\ LiveAddsUp(l) /\ \A b \in Buckets : l.active[b] = 0
  <2>1. Metrics!NewLive \in LiveType /\ LiveAddsUp(Metrics!NewLive) /\ \A b \in Buckets : Metrics!NewLive.active[b] = 0
    BY NewLiveIs
  <2>2. /\ l \in LiveType /\ l.active = Metrics!NewLive.active /\ l.today = Metrics!NewLive.today
        /\ l.total = Metrics!NewLive.total /\ l.entryToday = Metrics!NewLive.entryToday
        /\ l.entryTotal = Metrics!NewLive.entryTotal
    BY <1>2, <2>1 DEF LiveType
  <2> HIDE DEF l
  <2> QED BY <2>1, <2>2 DEF LiveAddsUp
<1>4. /\ Metrics!Resting \in ThreadType /\ Metrics!Resting.hand = Metrics!NoCounts
      /\ Metrics!Resting.date <= day /\ LiveAddsUp(Metrics!Resting.seen)
  BY <1>2, RestingIs
<1>5. /\ thread' \in [Metrics!Threads -> ThreadType]
      /\ \A f \in Metrics!Threads : thread'[f] = IF ProcessOf[f] = p THEN Metrics!Resting ELSE thread[f]
  BY <1>1, <1>2, <1>4
<1>6. /\ H \in [Metrics!Threads -> Counts] /\ K \in [Metrics!Threads -> Counts]
      /\ \A f \in Metrics!Threads : K[f] = IF ProcessOf[f] = p THEN Metrics!NoCounts ELSE H[f]
  <2>1. /\ H \in [Metrics!Threads -> Counts] /\ K \in [Metrics!Threads -> Counts]
        /\ \A f \in Metrics!Threads : H[f] = thread[f].hand /\ K[f] = thread'[f].hand
    BY <1>2, <1>5, HandsType
  <2> HIDE DEF H, K
  <2> QED BY <1>4, <1>5, <2>1
<1> HIDE DEF H, K, l
<1>7. /\ W \in Counts
      /\ \A e \in Entries, d \in Metrics!Days : WaitsWith(H, e, d) = WaitsWith(K, e, d) + W.entry[e][d]
  BY <1>6, WaitsDropped
<1> HIDE DEF W, S
<1>8. /\ Metrics!Plus(pending[p], W) \in Counts /\ lost' \in Counts
      /\ \A e \in Entries, d \in Metrics!Days :
            lost'.entry[e][d] = lost.entry[e][d] + (pending[p].entry[e][d] + W.entry[e][d])
  BY <1>1, <1>2, <1>7, PlusCounts
<1>9. /\ pending' \in [Processes -> Counts] /\ pending'[p] = Metrics!NoCounts
      /\ \A q \in Processes \ {p} : pending[q] = pending'[q]
  BY <1>1, <1>2, NoneCounted
<1>10. /\ live' \in [Processes -> LiveType] /\ live'[p] = l
       /\ \A q \in Processes \ {p} : live'[q] = live[q]
  BY <1>1, <1>2, <1>3
<1>11. CountTypes'
  <2>1. request' \in [MetricRequests -> RequestType]
    BY <1>1, <1>2 DEF RequestType
  <2> QED BY <1>1, <1>5, <1>8, <1>9, <1>10, <2>1 DEF CountInv, CountTypes
<1>12. HandsOK'
  BY <1>1, <1>4, <1>5 DEF CountInv, HandsOK
<1>13. EntriesAgree'
  BY <1>1, <1>3, <1>4, <1>5, <1>9, <1>10, NoneAddsUp DEF CountInv, EntriesAgree
<1>14. BooksOK'
  <2>1. ASSUME NEW e \in Entries, NEW d \in Metrics!Days
        PROVE  /\ All'.entry[e][d] = All.entry[e][d] + Metrics!NoCounts.entry[e][d]
               /\ Out'.entry[e][d] + Metrics!NoCounts.entry[e][d] = Out.entry[e][d] + Metrics!NoCounts.entry[e][d]
    <3>1. /\ Waits(pending, H) \in Counts
          /\ Waits(pending, H).entry[e][d] = WaitsIn(pending, e, d) + WaitsWith(H, e, d)
          /\ WaitsIn(pending, e, d) \in Nat /\ WaitsWith(H, e, d) \in Nat
      BY <1>2, <1>6, WaitsType
    <3>2. /\ Waits(pending', K) \in Counts
          /\ Waits(pending', K).entry[e][d] = WaitsIn(pending', e, d) + WaitsWith(K, e, d)
          /\ WaitsIn(pending', e, d) \in Nat /\ WaitsWith(K, e, d) \in Nat
      BY <1>6, <1>9, WaitsType
    <3>3. WaitsIn(pending, e, d) + pending'[p].entry[e][d] = WaitsIn(pending', e, d) + pending[p].entry[e][d]
      BY <1>2, <1>9, WaitsInMoves
    <3>4. pending'[p].entry[e][d] = 0 /\ Metrics!NoCounts.entry[e][d] = 0
      BY <1>9, NoneCounted
    <3>5. WaitsWith(H, e, d) = WaitsWith(K, e, d) + W.entry[e][d]
      BY <1>7
    <3>6. Out.entry[e][d] = lost.entry[e][d] + Waits(pending, H).entry[e][d]
      BY <1>2, <3>1, PlusCounts, OutIs DEF H
    <3>7. Out'.entry[e][d] = lost'.entry[e][d] + Waits(pending', K).entry[e][d]
      BY <1>8, <3>2, PlusCounts, OutIs DEF K
    <3>8. lost'.entry[e][d] = lost.entry[e][d] + (pending[p].entry[e][d] + W.entry[e][d])
      BY <1>8
    <3>9. /\ lost.entry[e][d] \in Nat /\ pending[p].entry[e][d] \in Nat /\ W.entry[e][d] \in Nat
      BY <1>2, <1>7 DEF Counts
    <3>10. Out'.entry[e][d] = Out.entry[e][d]
      BY <3>1, <3>2, <3>3, <3>4, <3>5, <3>6, <3>7, <3>8, <3>9
    <3> QED BY <1>1, <3>4, <3>10, AllRest DEF CountInv
  <2> QED BY <1>1, <1>11, <2>1, BooksStep, NoneCounted DEF CountInv
<1>15. ActiveOK'
  <2> SUFFICES ASSUME NEW q \in Processes, NEW b \in Buckets
               PROVE  live'[q].active[b] = Cardinality(Serving(q, b)')
    BY DEF ActiveOK
  <2>1. CASE q = p
    <3>1. Serving(q, b)' = {}
      BY <1>1, <2>1 DEF Serving
    <3> QED BY <1>3, <1>10, <2>1, <3>1, FS_EmptySet
  <2>2. CASE q # p
    <3>1. Serving(q, b)' = Serving(q, b)
      BY <1>1, <2>2 DEF Serving
    <3> QED BY <1>10, <2>2, <3>1 DEF CountInv, ActiveOK
  <2> QED BY <2>1, <2>2
<1> QED BY <1>11, <1>12, <1>13, <1>14, <1>15 DEF CountInv

-----------------------------------------------------------------------------
LEMMA CountsStart == ASSUME Metrics!MetricsAssumption, Metrics!Init PROVE CountInv
<1>1. /\ day = 1 /\ request = [r \in MetricRequests |-> [state |-> "new"]]
      /\ live = [p \in Processes |-> Metrics!NewLive]
      /\ pending = [p \in Processes |-> Metrics!NoCounts]
      /\ thread = [f \in Metrics!Threads |-> Metrics!Resting]
      /\ stored = Metrics!EmptyTables
      /\ recorded = Metrics!NoCounts /\ lost = Metrics!NoCounts /\ doubled = Metrics!NoCounts
  BY DEF Metrics!Init
<1>2. day \in Metrics!Days
  BY <1>1 DEF Metrics!Days, Metrics!MetricsAssumption
<1>3. /\ Metrics!Resting \in ThreadType /\ Metrics!Resting.hand = Metrics!NoCounts
      /\ Metrics!Resting.date <= day /\ LiveAddsUp(Metrics!Resting.seen)
  BY <1>2, RestingIs
<1>4. /\ stored \in TableType
      /\ \A b \in Buckets : stored.total[b] = 0 /\ \A d \in Metrics!Days : stored.daily[b][d] = 0
      /\ \A e \in Entries : stored.entryTotal[e] = 0 /\ \A d \in Metrics!Days : stored.entryDaily[e][d] = 0
  BY <1>1 DEF Metrics!EmptyTables, Metrics!NoCounts, TableType
<1>5. CountTypes
  BY <1>1, <1>2, <1>3, <1>4, NoneCounted, NewLiveIs DEF CountTypes, RequestType
<1>6. HandsOK
  BY <1>1, <1>3 DEF HandsOK
<1>7. EntriesAgree
  <2>1. TablesAddUp(stored)
    <3> SUFFICES ASSUME NEW b \in Buckets
                 PROVE  /\ Total(stored.entryTotal, Members(b)) = 0
                        /\ \A d \in Metrics!Days : Total(Slice(stored.entryDaily, d), Members(b)) = 0
      BY <1>4 DEF TablesAddUp
    <3>1. \A e \in Members(b) : stored.entryTotal[e] = 0
      BY <1>4 DEF Members
    <3>2. \A d \in Metrics!Days : \A e \in Members(b) : Slice(stored.entryDaily, d)[e] = 0
      BY <1>4 DEF Members, Slice
    <3> QED BY <3>1, <3>2, TotalZero
  <2> QED BY <1>1, <1>3, <2>1, NoneAddsUp, NewLiveIs DEF EntriesAgree
<1>8. BooksOK
  <2> DEFINE H == HandsOf(thread)
  <2>1. /\ H \in [Metrics!Threads -> Counts] /\ \A f \in Metrics!Threads : H[f] = Metrics!NoCounts
        /\ pending \in [Processes -> Counts] /\ \A p \in Processes : pending[p] = Metrics!NoCounts
    BY <1>1, <1>3, <1>5, HandsType DEF CountTypes
  <2> HIDE DEF H
  <2>2. ASSUME NEW e \in Entries, NEW d \in Metrics!Days
        PROVE  Out.entry[e][d] = 0 /\ All.entry[e][d] = 0
    <3> DEFINE m == [p \in Processes |-> pending[p].entry[e][d]]
               n == [f \in Metrics!Threads |-> H[f].entry[e][d]]
    <3>1. (\A p \in Processes : m[p] = 0) /\ \A f \in Metrics!Threads : n[f] = 0
      BY <2>1, NoneCounted
    <3> HIDE DEF m, n
    <3>2. Total(m, Processes) = 0 /\ Total(n, Metrics!Threads) = 0
      BY <3>1, TotalZero
    <3>3. WaitsIn(pending, e, d) = 0 /\ WaitsWith(H, e, d) = 0
      BY <3>2 DEF WaitsIn, WaitsWith, m, n
    <3>4. Waits(pending, H) \in Counts /\ Waits(pending, H).entry[e][d] = 0
      BY <2>1, <3>3, WaitsType
    <3>5. Out.entry[e][d] = lost.entry[e][d] + Waits(pending, H).entry[e][d]
      BY <1>5, <3>4, PlusCounts, OutIs DEF H, CountTypes
    <3>6. All.entry[e][d] = recorded.entry[e][d] + doubled.entry[e][d]
      BY <1>5, PlusCounts DEF All, CountTypes
    <3> QED BY <1>1, <3>4, <3>5, <3>6, NoneCounted
  <2>3. \A e \in Entries : Total(Out.entry[e], Metrics!Days) = 0 /\ Total(All.entry[e], Metrics!Days) = 0
    BY <2>2, TotalZero
  <2> QED BY <1>4, <2>2, <2>3 DEF BooksOK, Balanced
<1>9. ActiveOK
  <2> SUFFICES ASSUME NEW p \in Processes, NEW b \in Buckets
               PROVE  live[p].active[b] = Cardinality(Serving(p, b))
    BY DEF ActiveOK
  <2>1. Serving(p, b) = {}
    BY <1>1 DEF Serving
  <2> QED BY <1>1, <2>1, NewLiveIs, FS_EmptySet
<1> QED BY <1>5, <1>6, <1>7, <1>8, <1>9 DEF CountInv

LEMMA CountsKeep ==
    ASSUME Metrics!MetricsAssumption, CountInv, [Metrics!Next]_(Metrics!vars)
    PROVE  CountInv'
<1>1. CASE UNCHANGED Metrics!vars
  <2>1. UNCHANGED <<day, request, live, pending, thread, stored, recorded, lost, doubled>>
    BY <1>1 DEF Metrics!vars
  <2>2. CountTypes' /\ HandsOK' /\ EntriesAgree'
    BY <2>1 DEF CountInv, CountTypes, HandsOK, EntriesAgree
  <2>3. BooksOK' /\ ActiveOK'
    BY <2>1, <2>2, BooksRest, ActiveRest DEF CountInv
  <2> QED BY <2>2, <2>3 DEF CountInv
<1>2. ASSUME NEW r \in MetricRequests, Metrics!Serve(r) PROVE CountInv'
  BY <1>2, StartRequestStep, RecordRequestStep, FinishRequestStep DEF Metrics!Serve
<1>3. ASSUME NEW f \in Metrics!Threads, Metrics!Flush(f) PROVE CountInv'
  BY <1>3, TakePendingStep, FlushCommitStep, FlushFailsStep, AnswerLostStep DEF Metrics!Flush
<1>4. ASSUME NEW f \in Metrics!Threads, Metrics!View(f) PROVE CountInv'
  BY <1>4, ViewBeginsStep, ViewRemoteStep, ShowPageStep DEF Metrics!View
<1> QED BY <1>1, <1>2, <1>3, <1>4, ProcessKillStep, MidnightStep DEF Metrics!Next

\* What the invariant means for the page.
LEMMA PagesAddUp == ASSUME Metrics!MetricsAssumption, CountInv PROVE Metrics!PageAddsUp
<1> SUFFICES ASSUME NEW f \in Viewers, NEW page \in Metrics!Pages(f), NEW b \in Buckets
             PROVE  /\ page.today[b] = Metrics!Split(page.entryToday, b)
                    /\ page.total[b] = Metrics!Split(page.entryTotal, b)
                    /\ page.today[b] <= page.total[b]
  BY DEF Metrics!PageAddsUp
<1>1. \A n : Metrics!Split(n, b) = Total(n, Members(b))
  BY SumIsTotal DEF Metrics!Split, Members
<1>2. /\ f \in Metrics!Threads /\ day \in Metrics!Days /\ TablesAddUp(stored)
      /\ thread[f].seen \in LiveType /\ LiveAddsUp(thread[f].seen)
  BY DEF CountInv, CountTypes, EntriesAgree, Metrics!Threads, ThreadType
<1>3. CASE page = thread[f].seen
  BY <1>1, <1>2, <1>3 DEF LiveAddsUp
<1>4. CASE page = Metrics!Combined(thread[f].seen, stored, day)
  <2>1. /\ page.today[b] = stored.daily[b][day] /\ page.total = stored.total
        /\ page.entryToday = Slice(stored.entryDaily, day) /\ page.entryTotal = stored.entryTotal
    BY <1>2, <1>4 DEF Metrics!Combined, LiveType, Slice
  <2> QED BY <1>1, <1>2, <2>1 DEF TablesAddUp
<1> QED BY <1>3, <1>4 DEF Metrics!Pages

LEMMA CountsMean == ASSUME Metrics!MetricsAssumption, CountInv PROVE Metrics!CountsAgree
<1>1. Metrics!EveryRequestCounted
  <2>1. day \in Metrics!Days /\ day >= day
    BY DEF CountInv, CountTypes, Metrics!Days
  <2>2. Balanced(stored, Out, All, day)
    BY DEF CountInv, BooksOK
  <2>3. \A n : Metrics!AllDays(n) = Total(n, Metrics!Days)
    BY SumIsTotal DEF Metrics!AllDays
  <2> QED BY <2>1, <2>2, <2>3 DEF Metrics!EveryRequestCounted, Balanced, Out, All
<1>2. Metrics!ActiveIsServing
  BY CountsCardinality DEF CountInv, ActiveOK, Serving, Metrics!ActiveIsServing
<1> QED BY <1>1, <1>2, PagesAddUp DEF Metrics!CountsAgree

LEMMA CountsAdd ==
    ASSUME Metrics!MetricsAssumption
    PROVE  Metrics!Spec => []Metrics!CountsAgree
<1>1. Metrics!Init => CountInv
  BY CountsStart
<1>2. CountInv /\ [Metrics!Next]_(Metrics!vars) => CountInv'
  BY CountsKeep
<1>3. CountInv => Metrics!CountsAgree
  BY CountsMean
<1> QED BY <1>1, <1>2, <1>3, PTL DEF Metrics!Spec

-----------------------------------------------------------------------------
\* A behaviour of Services is one of this part, or leaves it out.
LEMMA MetricsApart == PartsSpec => (Metrics!Spec /\ [](part = "metrics")) \/ [](part # "metrics")
<1> DEFINE all == <<part, vars, metricsVars, playerVars, auctionVars, backupVars, scrubVars>>
<1>1. PartsInit => (part = "metrics" => Metrics!Init)
  BY DEF PartsInit
<1>2. ASSUME part = "metrics", [PartsNext]_all
      PROVE  part' = "metrics" /\ [Metrics!Next]_(Metrics!vars)
  <2>1. CASE PartsNext
    BY <1>2, <2>1 DEF PartsNext
  <2>2. CASE UNCHANGED all
    BY <2>2, <1>2 DEF metricsVars, Metrics!vars
  <2> QED BY <1>2, <2>1, <2>2
<1>3. ASSUME part # "metrics", [PartsNext]_all
      PROVE  part' # "metrics"
  BY <1>3 DEF PartsNext
<1>4. part = "metrics" /\ [PartsNext]_all => (part = "metrics")' /\ [Metrics!Next]_(Metrics!vars)
  BY <1>2
<1>5. part # "metrics" /\ [PartsNext]_all => (part # "metrics")'
  BY <1>3
<1>6. part = "metrics" \/ part # "metrics"
  OBVIOUS
<1> QED BY <1>1, <1>4, <1>5, <1>6, PTL DEF PartsSpec, Metrics!Spec

(* However flushes overlap, fail, are repeated and cross midnight: every   *)
(* request is counted once, in the total of its entry and in the row of    *)
(* its day, but for those that a kill lost and those whose commit was      *)
(* taken for a failure.  On every page buckets are the sums of their       *)
(* entries and today is at most the total, and the active requests of a    *)
(* process are those it is serving.                                        *)
THEOREM EveryRequestIsCounted == PartsSpec => []CountsAgree
<1>1. Metrics!Spec => []Metrics!CountsAgree
  BY CountsAdd, PartAssumptions
<1>2. (Metrics!CountsAgree => CountsAgree) /\ (part # "metrics" => CountsAgree)
  BY DEF CountsAgree
<1> QED BY <1>1, <1>2, MetricsApart, PTL

\* A behaviour of Services is one of this part, or leaves it out.
LEMMA AuctionsApart == PartsSpec => (Auctions!Spec /\ [](part = "auctions")) \/ [](part # "auctions")
<1> DEFINE all == <<part, vars, metricsVars, playerVars, auctionVars, backupVars, scrubVars>>
<1>1. PartsInit => (part = "auctions" => Auctions!Init)
  BY DEF PartsInit
<1>2. ASSUME part = "auctions", [PartsNext]_all
      PROVE  part' = "auctions" /\ [Auctions!Next]_(Auctions!vars)
  <2>1. CASE PartsNext
    BY <1>2, <2>1 DEF PartsNext
  <2>2. CASE UNCHANGED all
    BY <2>2, <1>2 DEF auctionVars, Auctions!vars, Auctions!stream, Auctions!builder
  <2> QED BY <1>2, <2>1, <2>2
<1>3. ASSUME part # "auctions", [PartsNext]_all
      PROVE  part' # "auctions"
  BY <1>3 DEF PartsNext
<1>4. part = "auctions" /\ [PartsNext]_all => (part = "auctions")' /\ [Auctions!Next]_(Auctions!vars)
  BY <1>2
<1>5. part # "auctions" /\ [PartsNext]_all => (part # "auctions")'
  BY <1>3
<1>6. part = "auctions" \/ part # "auctions"
  OBVIOUS
<1> QED BY <1>1, <1>4, <1>5, <1>6, PTL DEF PartsSpec, Auctions!Spec

(* However pages drift, fail and are read again, and whatever a failed     *)
(* attempt left behind: what a refresh reports is one version of the       *)
(* house, with every page of it in the index exactly once and none missing *)
(* from the counter.                                                       *)
THEOREM SnapshotsAreComplete == PartsSpec => []SnapshotComplete
<1>1. Auctions!Spec => []Auctions!SnapshotComplete
  BY SnapshotsComplete, PartAssumptions
<1>2. (Auctions!SnapshotComplete => SnapshotComplete) /\ (part # "auctions" => SnapshotComplete)
  BY DEF SnapshotComplete
<1> QED BY <1>1, <1>2, AuctionsApart, PTL

\* A behaviour of Services is one of this part, or leaves it out.
LEMMA ArchivesApart == PartsSpec => (Archives!Spec /\ [](part = "backups")) \/ [](part # "backups")
<1> DEFINE all == <<part, vars, metricsVars, playerVars, auctionVars, backupVars, scrubVars>>
<1>1. PartsInit => (part = "backups" => Archives!Init)
  BY DEF PartsInit
<1>2. ASSUME part = "backups", [PartsNext]_all
      PROVE  part' = "backups" /\ [Archives!Next]_(Archives!vars)
  <2>1. CASE PartsNext
    BY <1>2, <2>1 DEF PartsNext
  <2>2. CASE UNCHANGED all
    BY <2>2, <1>2 DEF backupVars, Archives!vars, Archives!store
  <2> QED BY <1>2, <2>1, <2>2
<1>3. ASSUME part # "backups", [PartsNext]_all
      PROVE  part' # "backups"
  BY <1>3 DEF PartsNext
<1>4. part = "backups" /\ [PartsNext]_all => (part = "backups")' /\ [Archives!Next]_(Archives!vars)
  BY <1>2
<1>5. part # "backups" /\ [PartsNext]_all => (part # "backups")'
  BY <1>3
<1>6. part = "backups" \/ part # "backups"
  OBVIOUS
<1> QED BY <1>1, <1>4, <1>5, <1>6, PTL DEF PartsSpec, Archives!Spec

(* Whatever uploads and erasures a backup overlaps: a whole archive lacks  *)
(* the file of a row only where the row was erased meanwhile or a restore  *)
(* had damaged it, and in MariaDB its entries never refer to an upload     *)
(* that it does not have.                                                  *)
THEOREM ArchivesAreComplete == PartsSpec => []ArchiveComplete
<1>1. Archives!Spec => []Archives!ArchiveComplete
  BY ArchivesComplete, PartAssumptions
<1>2. (Archives!ArchiveComplete => ArchiveComplete) /\ (part # "backups" => ArchiveComplete)
  BY DEF ArchiveComplete
<1> QED BY <1>1, <1>2, ArchivesApart, PTL

(* A restore that is refused, rolled back or completed leaves every row    *)
(* with its file, in any interleaving with the contributors and with the   *)
(* other administrators.                                                   *)
THEOREM RowsKeepTheirFiles == PartsSpec => []RowsHaveFiles
<1>1. Archives!Spec => []Archives!RowsHaveFiles
  BY FilesKept, PartAssumptions
<1>2. (Archives!RowsHaveFiles => RowsHaveFiles) /\ (part # "backups" => RowsHaveFiles)
  BY DEF RowsHaveFiles
<1> QED BY <1>1, <1>2, ArchivesApart, PTL

\* A behaviour of Services is one of this part, or leaves it out.
LEMMA RulesApart == PartsSpec => (Rules!Spec /\ [](part = "rules")) \/ [](part # "rules")
<1> DEFINE all == <<part, vars, metricsVars, playerVars, auctionVars, backupVars, scrubVars>>
<1>1. PartsInit => (part = "rules" => Rules!Init)
  BY DEF PartsInit
<1>2. ASSUME part = "rules", [PartsNext]_all
      PROVE  part' = "rules" /\ [Rules!Next]_(Rules!vars)
  <2>1. CASE PartsNext
    BY <1>2, <2>1 DEF PartsNext
  <2>2. CASE UNCHANGED all
    BY <2>2, <1>2 DEF scrubVars, Rules!vars
  <2> QED BY <1>2, <2>1, <2>2
<1>3. ASSUME part # "rules", [PartsNext]_all
      PROVE  part' # "rules"
  BY <1>3 DEF PartsNext
<1>4. part = "rules" /\ [PartsNext]_all => (part = "rules")' /\ [Rules!Next]_(Rules!vars)
  BY <1>2
<1>5. part # "rules" /\ [PartsNext]_all => (part # "rules")'
  BY <1>3
<1>6. part = "rules" \/ part # "rules"
  OBVIOUS
<1> QED BY <1>1, <1>4, <1>5, <1>6, PTL DEF PartsSpec, Rules!Spec

(* As long as no two creations have overlapped, no accepted case matches a *)
(* rule that was there during the whole scrub of its upload, also when     *)
(* rules are deleted and added meanwhile.                                  *)
THEOREM RulesReachEveryCase == PartsSpec => []RulesApply
<1>1. Rules!Spec => []Rules!RulesApply
  BY RulesReach, PartAssumptions
<1>2. (Rules!RulesApply => RulesApply) /\ (part # "rules" => RulesApply)
  BY DEF RulesApply
<1> QED BY <1>1, <1>2, RulesApart, PTL

(* The count of a rule is the number of matches that completed scrubs      *)
(* found with it, however scrubs of several uploads, failures and          *)
(* deletions of rules interleave.                                          *)
THEOREM MatchesAreCounted == PartsSpec => []MatchesCounted
<1>1. Rules!Spec => []Rules!MatchesCounted
  BY MatchesCount, PartAssumptions
<1>2. (Rules!MatchesCounted => MatchesCounted) /\ (part # "rules" => MatchesCounted)
  BY DEF MatchesCounted
<1> QED BY <1>1, <1>2, RulesApart, PTL
=============================================================================
