------------------------ MODULE PlayerQueries_proofs ------------------------
(***************************************************************************)
(* The flights of the player queries, as a part of Services: equal queries *)
(* share one, none waits for ever on something that nobody will do, and    *)
(* each ends by an answer to one of its own calls.  One inductive          *)
(* invariant carries the three.                                            *)
(***************************************************************************)
EXTENDS Services, Sequences, FiniteSets, SequencesExt, FiniteSetTheorems,
        FunctionTheorems, SequenceTheorems, WellFoundedInduction, TLAPS

-----------------------------------------------------------------------------
(* A nonempty set of naturals has a least element. *)
LEMMA MinExists ==
    ASSUME NEW S \in SUBSET Nat, S # {}
    PROVE  Min(S) \in S /\ \A y \in S : Min(S) <= y
<1> DEFINE Less == {ss \in Nat \X Nat : ss[1] < ss[2]}
<1>1. IsWellFoundedOn(Less, Nat)
  BY NatLessThanWellFounded DEF OpToRel
<1>2. PICK x \in S : \A y \in S : <<y, x>> \notin Less
  <2> HIDE DEF Less
  <2> QED BY <1>1, WFMin
<1>3. ASSUME NEW y \in S PROVE x <= y
  <2>1. <<y, x>> \in Nat \X Nat /\ <<y, x>> \notin Less
    BY <1>2
  <2>2. ~(y < x)
    BY <2>1
  <2> QED BY <2>2
<1>4. QED BY <1>3 DEF Min

-----------------------------------------------------------------------------
(* The component brings the operators of the libraries as its own.        *)
LEMMA SameOperators ==
    /\ \A S : Lookups!IsFiniteSet(S) = IsFiniteSet(S)
    /\ \A S : Lookups!Cardinality(S) = Cardinality(S)
    /\ \A S : Lookups!Min(S) = Min(S)
    /\ \A f : Lookups!Range(f) = Range(f)
    /\ \A S : Lookups!SetToSeq(S) = SetToSeq(S)
<1>1. \A S : Lookups!IsFiniteSet(S) = IsFiniteSet(S)
  BY DEF Lookups!IsFiniteSet, IsFiniteSet
<1>2. \A S : Lookups!Cardinality(S) = Cardinality(S)
  BY <1>1, Zenon DEF Lookups!Cardinality, Cardinality
<1>3. \A S : Lookups!Min(S) = Min(S)
  BY Zenon DEF Lookups!Min, Min
<1>4. \A f : Lookups!Range(f) = Range(f)
  BY DEF Lookups!Range, Range
<1>5. \A S : Lookups!SetToSeq(S) = SetToSeq(S)
  BY <1>2, Zenon DEF Lookups!SetToSeq, SetToSeq, Lookups!IsInjective, IsInjective
<1> QED BY <1>1, <1>2, <1>3, <1>4, <1>5

Kinds == {"skills", "name", "player", "profiles", "profile", "museum"}
CallSet == [flight : Flights, player : Lookups!Players \cup {Nobody}, kind : Kinds]

-----------------------------------------------------------------------------
(* The semaphore, as a fact about a set of holders and a line.             *)

\* The holders are not more than there are places, nobody stands in line twice
\* or while holding.
Places(run, line) ==
    /\ IsFiniteSet(run) /\ run \subseteq CallSet /\ Cardinality(run) <= Concurrency
    /\ line \in Seq(CallSet) /\ IsInjective(line)
    /\ run \cap Range(line) = {}

Full(run, line) == line # <<>> => Cardinality(run) = Concurrency

(* As many are let in as there are places, and as stand in line.           *)
LEMMA AdmittedBounds ==
    ASSUME NEW a \in Nat, NEW b \in Nat
    PROVE  LET n == Min({a, b}) IN n \in Nat /\ n <= a /\ n <= b /\ (n = a \/ n = b)
<1>1. {a, b} \in SUBSET Nat /\ {a, b} # {}
  OBVIOUS
<1>2. Min({a, b}) \in {a, b} /\ \A y \in {a, b} : Min({a, b}) <= y
  BY <1>1, MinExists
<1> QED BY <1>2

(* A line without repetitions has as many members as its length.           *)
LEMMA InjectiveCounts ==
    ASSUME NEW S, NEW s \in Seq(S), IsInjective(s)
    PROVE  IsFiniteSet(Range(s)) /\ Cardinality(Range(s)) = Len(s)
<1>1. s \in [1..Len(s) -> Range(s)] /\ Len(s) \in Nat
  <2>1. Len(s) \in Nat /\ DOMAIN s = 1..Len(s) /\ s \in [1..Len(s) -> S]
    BY LenProperties
  <2> QED BY <2>1 DEF Range
<1>2. s \in Bijection(1..Len(s), Range(s))
  <2>1. \A a, b \in 1..Len(s) : s[a] = s[b] => a = b
    BY <1>1 DEF IsInjective
  <2>2. \A t \in Range(s) : \E i \in 1..Len(s) : s[i] = t
    BY <1>1 DEF Range
  <2> QED BY <1>1, <2>1, <2>2 DEF Bijection, Injection, Surjection, IsInjective
<1>3. ExistsBijection(1..Len(s), Range(s))
  BY <1>2 DEF ExistsBijection
<1> QED BY <1>1, <1>3, FS_CountingElements, FS_NatBijection

(* A line is what goes first and what follows.                             *)
LEMMA LineSplit ==
    ASSUME NEW S, NEW s \in Seq(S), IsInjective(s), NEW n \in Nat, n <= Len(s)
    PROVE  LET pre == SubSeq(s, 1, n)
               suf == SubSeq(s, n + 1, Len(s)) IN
           /\ pre \in Seq(S) /\ IsInjective(pre) /\ Len(pre) = n
           /\ suf \in Seq(S) /\ IsInjective(suf) /\ (suf # <<>> => n < Len(s))
           /\ Range(s) = Range(pre) \cup Range(suf)
           /\ Range(pre) \cap Range(suf) = {}
<1> DEFINE pre == SubSeq(s, 1, n)
           suf == SubSeq(s, n + 1, Len(s))
<1>1. Len(s) \in Nat /\ DOMAIN s = 1..Len(s) /\ \A i \in 1..Len(s) : s[i] \in S
  BY LenProperties, ElementOfSeq
<1>2. pre \in Seq(S) /\ Len(pre) = n /\ \A i \in 1..n : pre[i] = s[i]
  <2>1. \A i \in 1..n : s[i] \in S
    BY <1>1
  <2>2. /\ SubSeq(s, 1, n) \in Seq(S)
        /\ Len(SubSeq(s, 1, n)) = IF 1 <= n THEN n - 1 + 1 ELSE 0
        /\ \A i \in 1..n - 1 + 1 : SubSeq(s, 1, n)[i] = s[1 + i - 1]
    BY <2>1, SubSeqProperties
  <2>3. \A i \in 1..n : i \in 1..n - 1 + 1 /\ 1 + i - 1 = i
    OBVIOUS
  <2>4. Len(pre) = n
    BY <2>2
  <2> QED BY <2>2, <2>3, <2>4
<1>3. suf \in Seq(S) /\ Len(suf) = Len(s) - n /\ \A i \in 1..Len(s) - n : suf[i] = s[n + i]
  <2>1. \A i \in n + 1..Len(s) : s[i] \in S
    BY <1>1
  <2>2. n + 1 \in Int /\ Len(s) \in Int
    BY <1>1
  <2>3. /\ SubSeq(s, n + 1, Len(s)) \in Seq(S)
        /\ Len(SubSeq(s, n + 1, Len(s))) = IF n + 1 <= Len(s) THEN Len(s) - (n + 1) + 1 ELSE 0
        /\ \A i \in 1..Len(s) - (n + 1) + 1 : SubSeq(s, n + 1, Len(s))[i] = s[n + 1 + i - 1]
    BY <2>1, <2>2, SubSeqProperties
  <2>4. \A i \in 1..Len(s) - n : i \in 1..Len(s) - (n + 1) + 1 /\ n + 1 + i - 1 = n + i
    BY <1>1
  <2>5. Len(suf) = Len(s) - n
    <3> DEFINE k == Len(SubSeq(s, n + 1, Len(s)))
    <3>1. k = IF n + 1 <= Len(s) THEN Len(s) - (n + 1) + 1 ELSE 0
      BY <2>3
    <3> HIDE DEF k
    <3>2. Len(s) \in Nat /\ n <= Len(s)
      BY <1>1
    <3>3. CASE n + 1 <= Len(s)
      <4>1. k = Len(s) - (n + 1) + 1
        BY <3>1, <3>3
      <4> QED BY <4>1, <3>2
    <3>4. CASE ~(n + 1 <= Len(s))
      <4>1. k = 0 /\ Len(s) = n
        BY <3>1, <3>2, <3>4
      <4> QED BY <4>1
    <3> QED BY <3>2, <3>3, <3>4 DEF k
  <2> QED BY <2>3, <2>4, <2>5
<1> HIDE DEF pre, suf
<1>4. DOMAIN pre = 1..n /\ DOMAIN suf = 1..Len(s) - n
  BY <1>2, <1>3, LenProperties
<1>5. IsInjective(pre)
  <2> SUFFICES ASSUME NEW i \in 1..n, NEW j \in 1..n, pre[i] = pre[j] PROVE i = j
    BY <1>4 DEF IsInjective
  <2>1. s[i] = s[j] /\ i \in 1..Len(s) /\ j \in 1..Len(s)
    BY <1>1, <1>2
  <2> QED BY <2>1, <1>1 DEF IsInjective
<1>6. IsInjective(suf)
  <2> SUFFICES ASSUME NEW i \in 1..Len(s) - n, NEW j \in 1..Len(s) - n, suf[i] = suf[j]
               PROVE  i = j
    BY <1>4 DEF IsInjective
  <2>1. s[n + i] = s[n + j] /\ n + i \in 1..Len(s) /\ n + j \in 1..Len(s)
    BY <1>1, <1>3
  <2>2. n + i = n + j
    BY <2>1, <1>1 DEF IsInjective
  <2> QED BY <2>2, <1>1
<1>7. Range(s) = Range(pre) \cup Range(suf)
  <2>1. ASSUME NEW i \in 1..Len(s) PROVE s[i] \in Range(pre) \cup Range(suf)
    <3>1. CASE i <= n
      <4>1. i \in 1..n /\ s[i] = pre[i]
        BY <3>1, <1>2
      <4> QED BY <4>1, <1>4 DEF Range
    <3>2. CASE i > n
      <4>1. i - n \in 1..Len(s) - n /\ n + (i - n) = i
        BY <3>2, <1>1
      <4>2. s[i] = suf[i - n]
        BY <4>1, <1>3
      <4> QED BY <4>1, <4>2, <1>4 DEF Range
    <3> QED BY <3>1, <3>2, <1>1
  <2>2. ASSUME NEW i \in 1..n PROVE pre[i] \in Range(s)
    <3>1. i \in 1..Len(s) /\ pre[i] = s[i]
      BY <1>1, <1>2
    <3> QED BY <3>1, <1>1 DEF Range
  <2>3. ASSUME NEW i \in 1..Len(s) - n PROVE suf[i] \in Range(s)
    <3>1. n + i \in 1..Len(s) /\ suf[i] = s[n + i]
      BY <1>1, <1>3
    <3> QED BY <3>1, <1>1 DEF Range
  <2> QED BY <2>1, <2>2, <2>3, <1>1, <1>4 DEF Range
<1>8. Range(pre) \cap Range(suf) = {}
  <2> SUFFICES ASSUME NEW i \in 1..n, NEW j \in 1..Len(s) - n, pre[i] = suf[j] PROVE FALSE
    BY <1>4 DEF Range
  <2>1. s[i] = s[n + j] /\ i \in 1..Len(s) /\ n + j \in 1..Len(s)
    BY <1>1, <1>2, <1>3
  <2>2. i = n + j
    BY <2>1, <1>1 DEF IsInjective
  <2> QED BY <2>2
<1>9. suf # <<>> => n < Len(s)
  <2>1. Len(suf) \in Nat /\ (suf # <<>> => Len(suf) # 0)
    BY <1>3, EmptySeq, LenProperties
  <2> QED BY <2>1, <1>3, <1>1
<1> QED BY <1>2, <1>3, <1>5, <1>6, <1>7, <1>8, <1>9 DEF pre, suf

(* Letting the first in line in keeps the places, loses nobody, and leaves *)
(* a line only when every place is taken.                                  *)
LEMMA Admission ==
    ASSUME Lookups!PlayerAssumption, NEW run, NEW line, Places(run, line)
    PROVE  LET run2 == run \cup Range(SubSeq(line, 1, Lookups!Admitted(run, line)))
               line2 == SubSeq(line, Lookups!Admitted(run, line) + 1, Len(line)) IN
           /\ Places(run2, line2) /\ Full(run2, line2)
           /\ run2 \cup Range(line2) = run \cup Range(line)
<1> DEFINE n == Lookups!Admitted(run, line)
           pre == SubSeq(line, 1, n)
           run2 == run \cup Range(pre)
           line2 == SubSeq(line, n + 1, Len(line))
<1>1. Len(line) \in Nat /\ Cardinality(run) \in Nat /\ Concurrency \in Nat
  BY LenProperties, FS_CardinalityType DEF Places, Lookups!PlayerAssumption
<1>2. Concurrency - Cardinality(run) \in Nat
  BY <1>1 DEF Places
<1>3. n \in Nat /\ n <= Len(line) /\ n <= Concurrency - Cardinality(run)
      /\ (n = Len(line) \/ n = Concurrency - Cardinality(run))
  BY SameOperators, <1>1, <1>2, AdmittedBounds DEF Lookups!Admitted
<1> HIDE DEF n, run2, line2
<1>4. /\ pre \in Seq(CallSet) /\ IsInjective(pre) /\ Len(pre) = n
      /\ line2 \in Seq(CallSet) /\ IsInjective(line2) /\ (line2 # <<>> => n < Len(line))
      /\ Range(line) = Range(pre) \cup Range(line2)
      /\ Range(pre) \cap Range(line2) = {}
  BY <1>3, LineSplit DEF Places, line2
<1> HIDE DEF pre
<1>5. run2 = run \cup Range(pre)
  BY DEF run2
<1>6. IsFiniteSet(Range(pre)) /\ Cardinality(Range(pre)) = n /\ Range(pre) \subseteq CallSet
  BY <1>4, InjectiveCounts, RangeOfSeq
<1>7. run \cap Range(pre) = {}
  BY <1>4 DEF Places
<1>8. IsFiniteSet(run2) /\ Cardinality(run2) = Cardinality(run) + n
  <2>1. IsFiniteSet(run2)
        /\ Cardinality(run2) = Cardinality(run) + Cardinality(Range(pre)) - Cardinality({})
    BY <1>5, <1>6, <1>7, FS_Union DEF Places
  <2> QED BY <2>1, <1>1, <1>3, <1>6, FS_EmptySet
<1>9. Places(run2, line2)
  <2>1. run2 \cap Range(line2) = {}
    BY <1>4, <1>5 DEF Places
  <2>2. run2 \subseteq CallSet
    BY <1>5, <1>6 DEF Places
  <2> QED BY <1>1, <1>3, <1>4, <1>8, <2>1, <2>2 DEF Places
<1>10. Full(run2, line2)
  BY <1>1, <1>3, <1>4, <1>8 DEF Full
<1>11. run2 \cup Range(line2) = run \cup Range(line)
  BY <1>4, <1>5
<1> QED BY <1>9, <1>10, <1>11 DEF n, pre, run2, line2

(* More calls may line up when they are new.                               *)
LEMMA LineUp ==
    ASSUME NEW run, NEW line, Places(run, line),
           NEW more \in Seq(CallSet), IsInjective(more),
           Range(more) \cap (run \cup Range(line)) = {}
    PROVE  Places(run, line \o more) /\ Range(line \o more) = Range(line) \cup Range(more)
<1>1. line \o more \in Seq(CallSet) /\ Range(line \o more) = Range(line) \cup Range(more)
  BY ConcatProperties, RangeConcatenation DEF Places
<1>2. /\ Len(line) \in Nat /\ Len(more) \in Nat
      /\ DOMAIN line = 1..Len(line) /\ DOMAIN more = 1..Len(more)
      /\ DOMAIN (line \o more) = 1..Len(line) + Len(more)
      /\ \A i \in 1..Len(line) + Len(more) :
            (line \o more)[i] = IF i <= Len(line) THEN line[i] ELSE more[i - Len(line)]
  BY <1>1, LenProperties, ConcatProperties DEF Places
<1>3. IsInjective(line \o more)
  <2> DEFINE L == Len(line)
             s == line \o more
  <2> SUFFICES ASSUME NEW i \in 1..L + Len(more), NEW j \in 1..L + Len(more), s[i] = s[j]
               PROVE  i = j
    BY <1>2 DEF IsInjective
  <2>1. /\ s[i] = IF i <= L THEN line[i] ELSE more[i - L]
        /\ s[j] = IF j <= L THEN line[j] ELSE more[j - L]
    BY <1>2
  <2>2. ASSUME NEW k \in 1..L + Len(more)
        PROVE  /\ k <= L => k \in 1..L /\ line[k] \in Range(line)
               /\ ~(k <= L) => k - L \in 1..Len(more) /\ more[k - L] \in Range(more)
    <3>1. k <= L => k \in 1..L
      BY <1>2
    <3>2. ~(k <= L) => k - L \in 1..Len(more)
      BY <1>2
    <3>3. \A x \in 1..L : line[x] \in Range(line)
      BY <1>2 DEF Range
    <3>4. \A x \in 1..Len(more) : more[x] \in Range(more)
      BY <1>2 DEF Range
    <3> QED BY <3>1, <3>2, <3>3, <3>4
  <2>3. Range(line) \cap Range(more) = {}
    OBVIOUS
  <2> HIDE DEF s, L
  <2>4. L \in Nat
    BY <1>2 DEF L
  <2>5. CASE i <= L /\ j <= L
    <3>1. line[i] = line[j] /\ i \in DOMAIN line /\ j \in DOMAIN line
      BY <2>1, <2>2, <2>5, <1>2 DEF L
    <3> QED BY <3>1 DEF Places, IsInjective
  <2>6. CASE ~(i <= L) /\ ~(j <= L)
    <3>1. more[i - L] = more[j - L] /\ i - L \in DOMAIN more /\ j - L \in DOMAIN more
      BY <2>1, <2>2, <2>6, <1>2
    <3>2. i - L = j - L
      BY <3>1 DEF IsInjective
    <3> QED BY <3>2, <2>4, <1>2
  <2>7. CASE i <= L /\ ~(j <= L)
    BY <2>1, <2>2, <2>3, <2>7
  <2>8. CASE ~(i <= L) /\ j <= L
    BY <2>1, <2>2, <2>3, <2>8
  <2> QED BY <2>5, <2>6, <2>7, <2>8
<1> QED BY <1>1, <1>3 DEF Places

(* A holder leaves; it stands nowhere any more.                            *)
LEMMA Leaving ==
    ASSUME Lookups!PlayerAssumption, NEW run, NEW line, Places(run, line), NEW c \in run
    PROVE  /\ Places(run \ {c}, line)
           /\ (run \ {c}) \cup Range(line) = (run \cup Range(line)) \ {c}
<1>1. c \notin Range(line)
  BY DEF Places
<1>2. IsFiniteSet(run \ {c}) /\ Cardinality(run \ {c}) <= Cardinality(run)
      /\ Cardinality(run \ {c}) \in Nat /\ Cardinality(run) \in Nat
  BY FS_Subset, FS_CardinalityType DEF Places
<1> QED BY <1>1, <1>2 DEF Places, Lookups!PlayerAssumption

(* The semaphore's part of a step that makes calls and ends none.          *)
LEMMA CallsEnter ==
    ASSUME Lookups!PlayerAssumption, Places(running, waiting),
           NEW more \in Seq(CallSet), IsInjective(more), Range(more) \cap Lookups!Calls = {},
           Lookups!Schedule(running, waiting \o more)
    PROVE  /\ Places(running', waiting') /\ Full(running', waiting')
           /\ Lookups!Calls' = Lookups!Calls \cup Range(more)
<1>1. Places(running, waiting \o more)
      /\ Range(waiting \o more) = Range(waiting) \cup Range(more)
  BY SameOperators, LineUp DEF Lookups!Calls
<1>2. /\ running' = running \cup Range(SubSeq(waiting \o more, 1, Lookups!Admitted(running, waiting \o more)))
      /\ waiting' = SubSeq(waiting \o more, Lookups!Admitted(running, waiting \o more) + 1, Len(waiting \o more))
  BY SameOperators DEF Lookups!Schedule
<1>3. /\ Places(running', waiting') /\ Full(running', waiting')
      /\ running' \cup Range(waiting') = running \cup Range(waiting \o more)
  BY <1>1, <1>2, Admission
<1> QED BY SameOperators, <1>1, <1>3 DEF Lookups!Calls

(* The semaphore's part of a step that an answer to c begins.              *)
LEMMA CallsEnd ==
    ASSUME Lookups!PlayerAssumption, Places(running, waiting), NEW c \in running,
           NEW more \in Seq(CallSet), IsInjective(more), Range(more) \cap Lookups!Calls = {},
           Lookups!Release(c, more)
    PROVE  /\ Places(running', waiting') /\ Full(running', waiting')
           /\ Lookups!Calls' = (Lookups!Calls \ {c}) \cup Range(more)
           /\ c \in running \ running'
<1> DEFINE run == running \ {c}
           line == waiting \o more
<1>1. Places(run, waiting) /\ run \cup Range(waiting) = Lookups!Calls \ {c}
  BY SameOperators, Leaving DEF Lookups!Calls
<1>2. Places(run, line) /\ Range(line) = Range(waiting) \cup Range(more)
  <2>1. Range(more) \cap (run \cup Range(waiting)) = {}
    BY <1>1
  <2> HIDE DEF run
  <2> QED BY <1>1, <2>1, LineUp
<1>3. /\ running' = run \cup Range(SubSeq(line, 1, Lookups!Admitted(run, line)))
      /\ waiting' = SubSeq(line, Lookups!Admitted(run, line) + 1, Len(line))
  BY SameOperators DEF Lookups!Release, Lookups!Schedule
<1> HIDE DEF run, line
<1>4. /\ Places(running', waiting') /\ Full(running', waiting')
      /\ running' \cup Range(waiting') = run \cup Range(line)
  BY <1>2, <1>3, Admission
<1>5. running' \cup Range(waiting') = (Lookups!Calls \ {c}) \cup Range(more)
  BY <1>1, <1>2, <1>4
<1>6. c \in Lookups!Calls
  BY DEF Lookups!Calls
<1> QED BY SameOperators, <1>4, <1>5, <1>6 DEF Lookups!Calls

(* Lines of no, of one and of two calls.                                   *)
LEMMA ShortLines ==
    /\ <<>> \in Seq(CallSet) /\ IsInjective(<<>>) /\ Range(<<>>) = {}
    /\ \A c \in CallSet : <<c>> \in Seq(CallSet) /\ IsInjective(<<c>>) /\ Range(<<c>>) = {c}
    /\ \A c, d \in CallSet : c # d =>
          <<c, d>> \in Seq(CallSet) /\ IsInjective(<<c, d>>) /\ Range(<<c, d>>) = {c, d}
<1>1. /\ <<>> \in Seq(CallSet) /\ DOMAIN <<>> = {}
  OBVIOUS
<1>2. \A c \in CallSet : <<c>> \in Seq(CallSet) /\ DOMAIN <<c>> = {1} /\ <<c>>[1] = c
  OBVIOUS
<1>3. \A c, d \in CallSet : <<c, d>> \in Seq(CallSet) /\ DOMAIN <<c, d>> = {1, 2}
                            /\ <<c, d>>[1] = c /\ <<c, d>>[2] = d
  OBVIOUS
<1>4. IsInjective(<<>>) /\ Range(<<>>) = {}
  BY <1>1 DEF IsInjective, Range
<1>5. ASSUME NEW c \in CallSet PROVE IsInjective(<<c>>) /\ Range(<<c>>) = {c}
  BY <1>2 DEF IsInjective, Range
<1>6. ASSUME NEW c \in CallSet, NEW d \in CallSet, c # d
      PROVE  IsInjective(<<c, d>>) /\ Range(<<c, d>>) = {c, d}
  <2> DEFINE s == <<c, d>>
  <2>1. DOMAIN s = {1, 2} /\ s[1] = c /\ s[2] = d
    BY <1>3
  <2> HIDE DEF s
  <2>2. s[1] # s[2]
    BY <2>1, <1>6
  <2>5. \A i, j \in {1, 2} : s[i] = s[j] => i = j
    BY <2>2
  <2>3. IsInjective(s)
    BY <2>1, <2>5 DEF IsInjective
  <2>4. Range(s) = {c, d}
    <3>1. Range(s) = {s[i] : i \in {1, 2}}
      BY <2>1 DEF Range
    <3> QED BY <3>1, <2>1
  <2> QED BY <2>3, <2>4 DEF s
<1> QED BY <1>1, <1>2, <1>3, <1>4, <1>5, <1>6

(* Any order of a finite set has each member once.                         *)
LEMMA SomeOrder ==
    ASSUME NEW S, IsFiniteSet(S)
    PROVE  SetToSeq(S) \in Seq(S) /\ IsInjective(SetToSeq(S)) /\ Range(SetToSeq(S)) = S
<1> DEFINE n == Cardinality(S)
           s == SetToSeq(S)
<1>1. n \in Nat /\ ExistsBijection(1..n, S)
  BY FS_CardinalityType
<1>2. PICK b \in Bijection(1..n, S) : TRUE
  BY <1>1 DEF ExistsBijection
<1>3. b \in [1..n -> S] /\ IsInjective(b)
  BY <1>2 DEF Bijection, Injection, Surjection
<1>4. s \in [1..n -> S] /\ IsInjective(s)
  BY <1>3 DEF SetToSeq
<1> HIDE DEF s
<1>5. s \in Injection(1..n, S)
  BY <1>4 DEF Injection
<1>6. IsFiniteSet(1..n) /\ Cardinality(1..n) = n
  <2>1. IsFiniteSet(1..n) /\ Cardinality(1..n) = IF 1 > n THEN 0 ELSE n - 1 + 1
    BY <1>1, FS_Interval
  <2> HIDE DEF n
  <2> QED BY <2>1, <1>1
<1>7. s \in Surjection(1..n, S)
  <2>1. Cardinality(1..n) = Cardinality(S) <=> s \in Surjection(1..n, S)
    BY <1>5, FS_Injection
  <2> QED BY <2>1, <1>6
<1> HIDE DEF n
<1>8. Range(s) = S
  BY <1>4, <1>7 DEF Surjection, Range
<1>9. s \in Seq(S)
  BY <1>1, <1>4
<1> QED BY <1>4, <1>8, <1>9 DEF s

\* The calls that the lookups of a flight begin with.
Beginnings(f) == UNION {Lookups!FirstCalls(f, p) : p \in PlayersOf[flight[f].key]}

LEMMA Opening ==
    ASSUME Lookups!PlayerAssumption, NEW f \in Flights, flight[f].key \in Queries
    PROVE  /\ Lookups!FirstCallsOf(f) \in Seq(CallSet) /\ IsInjective(Lookups!FirstCallsOf(f))
           /\ Range(Lookups!FirstCallsOf(f)) = Beginnings(f)
           /\ Beginnings(f) \subseteq CallSet
<1> DEFINE P == PlayersOf[flight[f].key]
           G == [p \in P |-> Lookups!FirstCalls(f, p)]
           T == {Lookups!FirstCalls(f, p) : p \in P}
<1>1. IsFiniteSet(P) /\ P \subseteq Lookups!Players
  BY SameOperators DEF Lookups!PlayerAssumption, Lookups!Players
<1>2. ASSUME NEW p \in P
      PROVE  Lookups!FirstCalls(f, p) \subseteq CallSet /\ IsFiniteSet(Lookups!FirstCalls(f, p))
  <2>1. Lookups!Call(f, p, "name") \in CallSet /\ Lookups!Call(f, p, "player") \in CallSet
        /\ Lookups!Call(f, p, "profiles") \in CallSet
    BY <1>1 DEF Lookups!Call, CallSet, Kinds
  <2>2. /\ IsFiniteSet({Lookups!Call(f, p, "name")})
        /\ IsFiniteSet({Lookups!Call(f, p, "player")} \cup {Lookups!Call(f, p, "profiles")})
    BY FS_Singleton, FS_AddElement
  <2>3. {Lookups!Call(f, p, "player"), Lookups!Call(f, p, "profiles")}
                  = {Lookups!Call(f, p, "player")} \cup {Lookups!Call(f, p, "profiles")}
    OBVIOUS
  <2> QED BY <2>1, <2>2, <2>3 DEF Lookups!FirstCalls
<1>3. IsFiniteSet(T)
  <2>1. G \in Surjection(P, T)
    BY DEF Surjection
  <2> HIDE DEF P, T, G
  <2> QED BY <1>1, <2>1, FS_Surjection
<1>4. IsFiniteSet(UNION T)
  <2>1. \A t \in T : IsFiniteSet(t)
    BY <1>2
  <2> HIDE DEF T
  <2> QED BY <1>3, <2>1, FS_UNION
<1>5. UNION T \subseteq CallSet
  BY <1>2
<1>6. UNION T = Beginnings(f)
  BY DEF Beginnings
<1>7. Lookups!FirstCallsOf(f) = SetToSeq(Beginnings(f))
  BY SameOperators DEF Lookups!FirstCallsOf, Beginnings
<1> HIDE DEF T
<1>8. Lookups!FirstCallsOf(f) \in Seq(Beginnings(f)) /\ IsInjective(Lookups!FirstCallsOf(f))
      /\ Range(Lookups!FirstCallsOf(f)) = Beginnings(f)
  BY <1>4, <1>6, <1>7, SomeOrder
<1> QED BY <1>5, <1>6, <1>8, SeqMonotonic

-----------------------------------------------------------------------------
(* The invariant.                                                          *)

Steps == {"free", "new", "skills", "fetching", "lookups", "profile", "museum", "done"}

RequestType == [step : {"idle", "read", "join", "await", "write"},
                key : Lookups!CacheKeys \cup {Nobody}, flight : Flights \cup {0}]
FlightType == [key : Lookups!CacheKeys \cup {Nobody}, step : Steps, refused : BOOLEAN]

RequestsOK ==
    /\ asked \in [Requests -> RequestType]
    /\ \A r \in Requests : asked[r].step # "idle" => asked[r].key \in Lookups!CacheKeys

FlightsOK ==
    /\ flight \in [Flights -> FlightType]
    /\ \A f \in Flights :
          /\ flight[f].step # "free" => flight[f].key \in Lookups!CacheKeys
          /\ flight[f].step \in {"skills", "fetching", "lookups"} => flight[f].key \in Queries

LookupOK == lookup \in [Flights -> [Lookups!Players -> {"none", "name", "data"}]]

\* The table, and the queries that have a flight.
Underway == {q \in Queries : inflight[q] # 0}
TableOK == inflight \in [Lookups!CacheKeys -> Flights \cup {0}] /\ IsFiniteSet(Underway)

QueueOK == Places(running, waiting) /\ Full(running, waiting)

\* The skill lock is held and waited for by the flights that are at their skills,
\* each once, and only the holder fetches.
LockOK ==
    /\ skillLock \in Seq(Flights) /\ IsInjective(skillLock)
    /\ \A i \in 1..Len(skillLock) :
          \/ flight[skillLock[i]].step = "skills"
          \/ i = 1 /\ flight[skillLock[i]].step = "fetching"
    /\ \A f \in Flights : flight[f].step \in {"skills", "fetching"} => f \in Range(skillLock)

\* What a call that is not over says of its flight.
CallOK(c) ==
    LET f == c.flight IN
    /\ c.kind \in {"skills", "profile", "museum"} => c.player = Nobody
    /\ c.kind = "skills" => flight[f].step = "fetching"
    /\ c.kind \in {"profile", "museum"} => flight[f].step = c.kind
    /\ c.kind \in {"name", "player", "profiles"} =>
          /\ c.player \in Lookups!Players
          /\ flight[f].step \in {"lookups", "done"}
          /\ c.kind = "name" <=> lookup[f][c.player] = "name"

\* What a flight that waits for something has under way.
FlightOK(f) ==
    /\ flight[f].step = "fetching" => Lookups!Call(f, Nobody, "skills") \in Lookups!Calls
    /\ flight[f].step \in {"profile", "museum"}
       => Lookups!Call(f, Nobody, flight[f].step) \in Lookups!Calls
    /\ \A p \in Lookups!Players : lookup[f][p] = "name" => Lookups!Call(f, p, "name") \in Lookups!Calls
    /\ \A p \in Lookups!Players : lookup[f][p] = "data" =>
          Lookups!Call(f, p, "player") \in Lookups!Calls
          \/ Lookups!Call(f, p, "profiles") \in Lookups!Calls
    /\ flight[f].step = "lookups" => \E p \in Lookups!Players : lookup[f][p] # "none"

CallsOK == \A c \in Lookups!Calls : CallOK(c)
PendingOK == \A f \in Flights : FlightOK(f)

ServiceInv == FlightsOK /\ LookupOK /\ LockOK /\ QueueOK /\ CallsOK /\ PendingOK

QueryInv == RequestsOK /\ TableOK /\ Lookups!SharedFlight /\ ServiceInv

-----------------------------------------------------------------------------
(* A step of the service moves one flight, or none.                        *)

\* No flight changes its query or begins by it.
Onward == \A g \in Flights : flight'[g].key = flight[g].key
/\ (Lookups!Unfinished(g)' => Lookups!Unfinished(g))

ServiceKept == ServiceInv' /\ Onward /\ Lookups!AnswerEndsFlight

\* Only f and its calls change.
OnlyOf(f) ==
    /\ \A g \in Flights \ {f} : flight'[g] = flight[g] /\ lookup'[g] = lookup[g]
    /\ \A c \in CallSet : c.flight # f => (c \in Lookups!Calls' <=> c \in Lookups!Calls)

LEMMA CallTypes ==
    ASSUME QueueOK
    PROVE  Lookups!Calls \subseteq CallSet
           /\ \A c \in Lookups!Calls : c = Lookups!Call(c.flight, c.player, c.kind)
<1>1. Lookups!Calls \subseteq CallSet
  BY SameOperators, RangeOfSeq DEF QueueOK, Places, Lookups!Calls
<1> QED BY <1>1 DEF CallSet, Lookups!Call

(* What is said of the other flights and of their calls still holds.       *)
LEMMA OthersKept ==
    ASSUME ServiceInv, QueueOK', NEW f \in Flights, OnlyOf(f),
           \A c \in Lookups!Calls' : c.flight = f => CallOK(c)', FlightOK(f)'
    PROVE  CallsOK' /\ PendingOK'
<1>1. Lookups!Calls' \subseteq CallSet
  BY SameOperators, CallTypes, RangeOfSeq DEF QueueOK, Places, Lookups!Calls
<1>2. ASSUME NEW c \in Lookups!Calls', c.flight # f PROVE CallOK(c)'
  <2>1. c \in Lookups!Calls /\ c.flight \in Flights \ {f}
    BY <1>1, <1>2 DEF OnlyOf, CallSet
  <2>2. flight'[c.flight] = flight[c.flight] /\ lookup'[c.flight] = lookup[c.flight] /\ CallOK(c)
    BY <2>1 DEF OnlyOf, ServiceInv, CallsOK
  <2> QED BY <2>2 DEF CallOK
<1>3. ASSUME NEW g \in Flights \ {f} PROVE FlightOK(g)'
  <2>1. flight'[g] = flight[g] /\ lookup'[g] = lookup[g] /\ FlightOK(g)
    BY DEF OnlyOf, ServiceInv, PendingOK
  <2>2. ASSUME NEW p, NEW kind, Lookups!Call(g, p, kind) \in Lookups!Calls
        PROVE  Lookups!Call(g, p, kind) \in Lookups!Calls'
    <3>1. Lookups!Call(g, p, kind) \in CallSet /\ Lookups!Call(g, p, kind).flight = g
      BY <2>2, CallTypes DEF ServiceInv, Lookups!Call
    <3> QED BY <2>2, <3>1 DEF OnlyOf
  <2> QED BY <2>1, <2>2 DEF FlightOK
<1> QED BY <1>2, <1>3 DEF CallsOK, PendingOK

(* A flight ends when an answer to its call has come.                      *)
LEMMA EndedByItsCall ==
    ASSUME NEW f \in Flights, NEW c \in running \ running', c.flight = f,
           \A g \in Flights \ {f} : flight'[g] = flight[g]
    PROVE  Lookups!AnswerEndsFlight
BY DEF Lookups!AnswerEndsFlight, Lookups!Unfinished

(* Flights that end by no call do not end.                                 *)
LEMMA NoneEnds ==
    ASSUME NEW f \in Flights, Lookups!Unfinished(f)', \A g \in Flights \ {f} : flight'[g] = flight[g]
    PROVE  Lookups!AnswerEndsFlight
BY DEF Lookups!AnswerEndsFlight, Lookups!Unfinished

(* The calls of a flight before its lookups.                               *)
LEMMA EarlyCalls ==
    ASSUME ServiceInv, NEW c \in Lookups!Calls
    PROVE  /\ c.flight \in Flights
           /\ flight[c.flight].step \notin {"free", "new", "skills"}
           /\ flight[c.flight].step = "fetching" => c = Lookups!Call(c.flight, Nobody, "skills")
           /\ flight[c.flight].step = "profile" => c = Lookups!Call(c.flight, Nobody, "profile")
           /\ flight[c.flight].step = "museum" => c = Lookups!Call(c.flight, Nobody, "museum")
<1>1. c \in CallSet /\ c = Lookups!Call(c.flight, c.player, c.kind) /\ CallOK(c)
  BY CallTypes DEF ServiceInv, CallsOK
<1>2. c.kind \in Kinds /\ c.flight \in Flights
  BY <1>1 DEF CallSet
<1> QED BY <1>1, <1>2 DEF CallOK, Kinds

(* The lookups of f begin: f holds its lock no more and has no other call. *)
LEMMA GatherStep ==
    ASSUME Lookups!PlayerAssumption, ServiceInv, QueueOK', NEW f \in Flights,
           flight[f].step \in {"new", "skills", "fetching"}, flight[f].key \in Queries,
           Lookups!Gather(f), OnlyOf(f),
           \A c \in CallSet : c.flight = f => (c \in Lookups!Calls' <=> c \in Beginnings(f))
    PROVE  FlightsOK' /\ LookupOK' /\ CallsOK' /\ PendingOK' /\ Onward /\ Lookups!Unfinished(f)'
           /\ flight'[f].step = "lookups"
<1> DEFINE P == PlayersOf[flight[f].key]
<1>1. P # {} /\ P \subseteq Lookups!Players
  BY DEF Lookups!PlayerAssumption, Lookups!Players
<1>2. flight \in [Flights -> FlightType]
      /\ lookup \in [Flights -> [Lookups!Players -> {"none", "name", "data"}]]
  BY DEF ServiceInv, FlightsOK, LookupOK
<1>3. /\ flight' = [flight EXCEPT ![f].step = "lookups"]
      /\ lookup' = [lookup EXCEPT ![f] = [p \in Lookups!Players |-> IF p \notin P THEN "none"
                                               ELSE IF p \in Named THEN "name" ELSE "data"]]
  BY DEF Lookups!Gather
<1>4. /\ flight'[f].step = "lookups" /\ flight'[f].key = flight[f].key
      /\ flight' \in [Flights -> FlightType]
      /\ \A g \in Flights \ {f} : flight'[g] = flight[g]
  BY <1>2, <1>3 DEF FlightType, Steps
<1>5. /\ LookupOK'
      /\ \A p \in Lookups!Players : lookup'[f][p] = IF p \notin P THEN "none"
                                                    ELSE IF p \in Named THEN "name" ELSE "data"
  BY <1>2, <1>3 DEF LookupOK
<1>6. FlightsOK'
  BY <1>4 DEF FlightsOK, ServiceInv, Lookups!CacheKeys
<1>7. Lookups!Calls' \subseteq CallSet
  BY SameOperators, RangeOfSeq DEF QueueOK, Places, Lookups!Calls
<1> HIDE DEF P
<1>8. ASSUME NEW c \in Lookups!Calls', c.flight = f PROVE CallOK(c)'
  <2>1. PICK p \in P : c \in Lookups!FirstCalls(f, p)
    BY <1>7, <1>8 DEF Beginnings, P
  <2>2. p \in Lookups!Players
    BY <1>1
  <2>3. CASE p \in Named
    <3>1. c.kind = "name" /\ c.player = p
      BY <2>1, <2>3 DEF Lookups!FirstCalls, Lookups!Call
    <3> QED BY <1>4, <1>5, <1>8, <2>2, <2>3, <3>1 DEF CallOK
  <2>4. CASE p \notin Named
    <3>1. c.kind \in {"player", "profiles"} /\ c.player = p
      BY <2>1, <2>4 DEF Lookups!FirstCalls, Lookups!Call
    <3> QED BY <1>4, <1>5, <1>8, <2>2, <2>4, <3>1 DEF CallOK
  <2> QED BY <2>3, <2>4
<1>9. ASSUME NEW p \in P PROVE IF p \in Named THEN Lookups!Call(f, p, "name") \in Lookups!Calls'
                                             ELSE Lookups!Call(f, p, "player") \in Lookups!Calls'
  <2>1. Lookups!FirstCalls(f, p) \subseteq Beginnings(f)
    BY DEF Beginnings, P
  <2>2. p \in Lookups!Players
    BY <1>1
  <2>3. /\ Lookups!Call(f, p, "name") \in CallSet /\ Lookups!Call(f, p, "name").flight = f
        /\ Lookups!Call(f, p, "player") \in CallSet /\ Lookups!Call(f, p, "player").flight = f
    BY <2>2 DEF Lookups!Call, CallSet, Kinds
  <2> QED BY <2>1, <2>3 DEF Lookups!FirstCalls
<1>10. FlightOK(f)'
  <2>1. PICK p \in P : p \in Lookups!Players
    BY <1>1
  <2>2. lookup'[f][p] # "none"
    BY <1>5, <2>1
  <2>3. \A q \in Lookups!Players : lookup'[f][q] = "name"
        => Lookups!Call(f, q, "name") \in Lookups!Calls'
    BY <1>5, <1>9
  <2>4. \A q \in Lookups!Players : lookup'[f][q] = "data"
        => Lookups!Call(f, q, "player") \in Lookups!Calls'
    BY <1>5, <1>9
  <2> QED BY <1>4, <2>1, <2>2, <2>3, <2>4 DEF FlightOK
<1>11. CallsOK' /\ PendingOK'
  BY <1>8, <1>10, OthersKept
<1>12. Lookups!Unfinished(f)'
  BY <1>4 DEF Lookups!Unfinished
<1>13. Onward
  BY <1>4 DEF Onward, Lookups!Unfinished
<1> QED BY <1>4, <1>5, <1>6, <1>11, <1>12, <1>13

(* One flight goes to its next step.                                       *)
LEMMA FlightTo ==
    ASSUME FlightsOK, NEW f \in Flights, NEW st \in Steps,
           \/ flight' = [flight EXCEPT ![f].step = st]
           \/ flight' = [flight EXCEPT ![f].step = st, ![f].refused = TRUE],
           flight[f].step # "free", Lookups!Unfinished(f) \/ st = "done",
           st \in {"skills", "fetching", "lookups"} => flight[f].key \in Queries
    PROVE  /\ FlightsOK' /\ Onward /\ flight'[f].step = st
           /\ \A g \in Flights \ {f} : flight'[g] = flight[g]
<1>1. flight \in [Flights -> FlightType]
  BY DEF FlightsOK
<1>2. /\ flight'[f].step = st /\ flight'[f].key = flight[f].key
      /\ flight' \in [Flights -> FlightType]
      /\ \A g \in Flights \ {f} : flight'[g] = flight[g]
  BY <1>1 DEF FlightType
<1>3. FlightsOK'
  BY <1>2 DEF FlightsOK
<1>4. Onward
  BY <1>2 DEF Onward, Lookups!Unfinished
<1> QED BY <1>2, <1>3, <1>4

(* A flight that fetches holds the lock.                                   *)
LEMMA FetcherIsHead ==
    ASSUME LockOK, NEW f \in Flights, flight[f].step = "fetching"
    PROVE  skillLock # <<>> /\ Head(skillLock) = f
<1>1. Len(skillLock) \in Nat /\ DOMAIN skillLock = 1..Len(skillLock)
  BY LenProperties DEF LockOK
<1>2. PICK i \in 1..Len(skillLock) : skillLock[i] = f
  BY <1>1 DEF LockOK, Range
<1>3. i = 1
  BY <1>2 DEF LockOK
<1>4. skillLock # <<>>
  BY <1>1, <1>2, EmptySeq
<1>5. Head(skillLock) = skillLock[1]
  BY <1>4 DEF LockOK
<1> QED BY <1>2, <1>3, <1>4, <1>5

(* Steps that are not about the skills leave the lock alone.               *)
LEMMA LockSame ==
    ASSUME LockOK, NEW f \in Flights, skillLock' = skillLock,
           \A g \in Flights \ {f} : flight'[g] = flight[g],
           flight[f].step \notin {"skills", "fetching"},
           flight'[f].step \notin {"skills", "fetching"}
    PROVE  LockOK'
<1>1. \A i \in 1..Len(skillLock) : skillLock[i] \in Flights \ {f}
  BY ElementOfSeq DEF LockOK
<1> QED BY <1>1 DEF LockOK

(* A flight gets in line for the lock.                                     *)
LEMMA LockJoined ==
    ASSUME LockOK, NEW f \in Flights, skillLock' = Append(skillLock, f),
           \A g \in Flights \ {f} : flight'[g] = flight[g],
           flight[f].step \notin {"skills", "fetching"}, flight'[f].step = "skills"
    PROVE  LockOK'
<1> DEFINE n == Len(skillLock)
<1>1. skillLock \in Seq(Flights) /\ n \in Nat /\ DOMAIN skillLock = 1..n
  BY LenProperties DEF LockOK
<1>2. \A i \in 1..n : skillLock[i] \in Flights \ {f}
  BY ElementOfSeq DEF LockOK
<1>3. /\ skillLock' \in Seq(Flights) /\ Len(skillLock') = n + 1
      /\ \A i \in 1..n : skillLock'[i] = skillLock[i]
      /\ skillLock'[n + 1] = f
  BY <1>1, AppendProperties
<1>4. DOMAIN skillLock' = 1..n + 1
  BY <1>3, LenProperties
<1> HIDE DEF n
<1>5. IsInjective(skillLock')
  <2> SUFFICES ASSUME NEW i \in 1..n + 1, NEW j \in 1..n + 1, skillLock'[i] = skillLock'[j]
               PROVE  i = j
    BY <1>4 DEF IsInjective
  <2>1. \A k \in 1..n + 1 : k = n + 1 \/ k \in 1..n
    BY <1>1
  <2>2. CASE i \in 1..n /\ j \in 1..n
    BY <1>1, <1>3, <2>2 DEF LockOK, IsInjective
  <2>3. CASE ~(i \in 1..n /\ j \in 1..n)
    BY <1>2, <1>3, <2>1, <2>3
  <2> QED BY <2>2, <2>3
<1>6. \A i \in 1..Len(skillLock') :
        \/ flight'[skillLock'[i]].step = "skills"
        \/ i = 1 /\ flight'[skillLock'[i]].step = "fetching"
  <2> TAKE i \in 1..Len(skillLock')
  <2>1. i = n + 1 \/ i \in 1..n
    BY <1>1, <1>3
  <2>2. CASE i \in 1..n
    BY <1>2, <1>3, <2>2 DEF LockOK, n
  <2>3. CASE i = n + 1
    BY <1>3, <2>3
  <2> QED BY <2>1, <2>2, <2>3
<1>7. ASSUME NEW g \in Flights, flight'[g].step \in {"skills", "fetching"}
      PROVE  g \in Range(skillLock')
  <2>1. CASE g = f
    <3>1. n + 1 \in 1..n + 1
      BY <1>1
    <3> QED BY <1>3, <1>4, <2>1, <3>1 DEF Range
  <2>2. CASE g # f
    <3>1. g \in Range(skillLock)
      BY <1>7, <2>2 DEF LockOK
    <3>2. PICK i \in 1..n : skillLock[i] = g
      BY <1>1, <3>1 DEF Range
    <3>3. i \in 1..n + 1 /\ skillLock'[i] = g
      BY <1>1, <1>3, <3>2
    <3> QED BY <1>4, <3>3 DEF Range
  <2> QED BY <2>1, <2>2
<1> QED BY <1>3, <1>5, <1>6, <1>7 DEF LockOK

(* The holder releases the lock; who comes next finds it at "skills".      *)
LEMMA LockLeft ==
    ASSUME LockOK, NEW f \in Flights, skillLock # <<>>, Head(skillLock) = f,
           skillLock' = Tail(skillLock),
           \A g \in Flights \ {f} : flight'[g] = flight[g],
           flight'[f].step \notin {"skills", "fetching"}
    PROVE  LockOK'
<1> DEFINE n == Len(skillLock)
<1>1. skillLock \in Seq(Flights) /\ n \in Nat /\ DOMAIN skillLock = 1..n
  BY LenProperties DEF LockOK
<1>2. n # 0 /\ skillLock[1] = f
  BY <1>1, EmptySeq
<1>3. /\ skillLock' \in Seq(Flights) /\ Len(skillLock') = n - 1
      /\ \A i \in 1..n - 1 : skillLock'[i] = skillLock[i + 1]
  BY <1>1, HeadTailProperties
<1>4. DOMAIN skillLock' = 1..n - 1
  BY <1>3, LenProperties
<1> HIDE DEF n
<1>5. \A i \in 1..n - 1 : i + 1 \in 1..n /\ i + 1 # 1 /\ 1 \in 1..n
  BY <1>1, <1>2
<1>6. IsInjective(skillLock')
  <2> SUFFICES ASSUME NEW i \in 1..n - 1, NEW j \in 1..n - 1, skillLock'[i] = skillLock'[j]
               PROVE  i = j
    BY <1>4 DEF IsInjective
  <2>1. i + 1 = j + 1
    BY <1>1, <1>3, <1>5 DEF LockOK, IsInjective
  <2> QED BY <2>1
<1>7. ASSUME NEW i \in 1..n - 1
      PROVE  flight'[skillLock'[i]].step = "skills"
  <2>1. i + 1 \in 1..n /\ i + 1 # 1 /\ skillLock'[i] = skillLock[i + 1]
    BY <1>3, <1>5
  <2>2. skillLock[i + 1] \in Flights /\ flight[skillLock[i + 1]].step = "skills"
    BY <1>1, <2>1, ElementOfSeq DEF LockOK, n
  <2>3. skillLock[i + 1] # f
    BY <1>1, <1>2, <1>5, <2>1 DEF LockOK, IsInjective
  <2> QED BY <2>1, <2>2, <2>3
<1>8. ASSUME NEW g \in Flights, flight'[g].step \in {"skills", "fetching"}
      PROVE  g \in Range(skillLock')
  <2>1. g # f /\ g \in Range(skillLock)
    BY <1>8 DEF LockOK
  <2>2. PICK i \in 1..n : skillLock[i] = g
    BY <1>1, <2>1 DEF Range
  <2>3. i - 1 \in 1..n - 1 /\ (i - 1) + 1 = i
    BY <1>1, <1>2, <2>1, <2>2
  <2>4. skillLock'[i - 1] = g
    BY <1>3, <2>2, <2>3
  <2> QED BY <1>4, <2>3, <2>4 DEF Range
<1> QED BY <1>3, <1>6, <1>7, <1>8 DEF LockOK

(* The holder fetches.                                                     *)
LEMMA LockFetches ==
    ASSUME LockOK, NEW f \in Flights, skillLock # <<>>, Head(skillLock) = f,
           skillLock' = skillLock,
           \A g \in Flights \ {f} : flight'[g] = flight[g],
           flight[f].step = "skills", flight'[f].step = "fetching"
    PROVE  LockOK'
<1>1. Len(skillLock) \in Nat /\ DOMAIN skillLock = 1..Len(skillLock)
  BY LenProperties DEF LockOK
<1>2. Len(skillLock) # 0 /\ skillLock[1] = f
  BY <1>1, EmptySeq DEF LockOK
<1>3. ASSUME NEW i \in 1..Len(skillLock), i # 1 PROVE skillLock[i] \in Flights \ {f}
  <2>1. 1 \in 1..Len(skillLock)
    BY <1>1, <1>2
  <2>2. skillLock[i] # f
    BY <1>1, <1>2, <1>3, <2>1 DEF LockOK, IsInjective
  <2> QED BY <2>2, ElementOfSeq DEF LockOK
<1>4. \A i \in 1..Len(skillLock') :
        \/ flight'[skillLock'[i]].step = "skills"
        \/ i = 1 /\ flight'[skillLock'[i]].step = "fetching"
  <2> TAKE i \in 1..Len(skillLock')
  <2>1. CASE i = 1
    BY <1>2, <2>1
  <2>2. CASE i # 1
    BY <1>3, <2>2 DEF LockOK
  <2> QED BY <2>1, <2>2
<1>5. \A g \in Flights : flight'[g].step \in {"skills", "fetching"} => g \in Range(skillLock')
  BY DEF LockOK
<1> QED BY <1>4, <1>5 DEF LockOK

LEMMA BeginningsFlight ==
    ASSUME NEW f, NEW c \in Beginnings(f)
    PROVE  c.flight = f
BY DEF Beginnings, Lookups!FirstCalls, Lookups!Call

-----------------------------------------------------------------------------
(* The steps of a flight up to its lookups.                                *)

(* Lookups that begin with no call of the flight under way.                *)
LEMMA LookupsBegin ==
    ASSUME Lookups!PlayerAssumption, ServiceInv, NEW f \in Flights, Lookups!Gather(f),
           flight[f].step \in {"new", "skills"}, flight[f].key \in Queries,
           Lookups!Schedule(running, waiting \o Lookups!FirstCallsOf(f))
    PROVE  /\ FlightsOK' /\ LookupOK' /\ QueueOK' /\ CallsOK' /\ PendingOK' /\ Onward
           /\ Lookups!AnswerEndsFlight /\ flight'[f].step = "lookups"
           /\ \A g \in Flights \ {f} : flight'[g] = flight[g]
<1>1. \A c \in Lookups!Calls : c.flight # f
  BY EarlyCalls
<1>2. /\ Lookups!FirstCallsOf(f) \in Seq(CallSet) /\ IsInjective(Lookups!FirstCallsOf(f))
      /\ Range(Lookups!FirstCallsOf(f)) = Beginnings(f) /\ Beginnings(f) \subseteq CallSet
  BY Opening
<1>3. Range(Lookups!FirstCallsOf(f)) \cap Lookups!Calls = {}
  BY <1>1, <1>2, BeginningsFlight
<1>4. Places(running, waiting)
  BY DEF ServiceInv, QueueOK
<1>5. Places(running', waiting') /\ Full(running', waiting')
      /\ Lookups!Calls' = Lookups!Calls \cup Beginnings(f)
  BY <1>2, <1>3, <1>4, CallsEnter
<1>6. QueueOK'
  BY <1>5 DEF QueueOK
<1>7. \A g \in Flights \ {f} : flight'[g] = flight[g] /\ lookup'[g] = lookup[g]
  BY DEF Lookups!Gather, ServiceInv, FlightsOK, LookupOK
<1>8. OnlyOf(f)
  BY <1>5, <1>7, BeginningsFlight DEF OnlyOf
<1>9. \A c \in CallSet : c.flight = f => (c \in Lookups!Calls' <=> c \in Beginnings(f))
  BY <1>1, <1>5
<1>10. FlightsOK' /\ LookupOK' /\ CallsOK' /\ PendingOK' /\ Onward /\ Lookups!Unfinished(f)'
       /\ flight'[f].step = "lookups"
  BY <1>6, <1>8, <1>9, GatherStep
<1>11. Lookups!AnswerEndsFlight
  BY <1>7, <1>10, NoneEnds
<1> QED BY <1>6, <1>7, <1>10, <1>11

(* A flight without lookups under way makes one call.                      *)
LEMMA FirstCall ==
    ASSUME Lookups!PlayerAssumption, ServiceInv, NEW f \in Flights,
           NEW st \in {"fetching", "profile"}, flight' = [flight EXCEPT ![f].step = st],
           flight[f].step \in {"new", "skills"},
           st = "fetching" => flight[f].key \in Queries,
           lookup' = lookup,
           Lookups!Schedule(running, Append(waiting, Lookups!Call(f, Nobody, IF st = "fetching" THEN "skills" ELSE st)))
    PROVE  /\ FlightsOK' /\ LookupOK' /\ QueueOK' /\ CallsOK' /\ PendingOK' /\ Onward
           /\ Lookups!AnswerEndsFlight /\ flight'[f].step = st
           /\ \A g \in Flights \ {f} : flight'[g] = flight[g]
<1> DEFINE c == Lookups!Call(f, Nobody, IF st = "fetching" THEN "skills" ELSE st)
<1>1. \A d \in Lookups!Calls : d.flight # f
  BY EarlyCalls
<1>2. c \in CallSet /\ c.flight = f /\ c.player = Nobody
      /\ c.kind = IF st = "fetching" THEN "skills" ELSE st
  BY DEF Lookups!Call, CallSet, Kinds
<1>3. Places(running, waiting) /\ waiting \in Seq(CallSet)
  BY DEF ServiceInv, QueueOK, Places
<1>4. <<c>> \in Seq(CallSet) /\ IsInjective(<<c>>) /\ Range(<<c>>) = {c}
  <2> HIDE DEF c
  <2> QED BY <1>2, ShortLines
<1>5. Lookups!Schedule(running, waiting \o <<c>>)
  <2> DEFINE w == Append(waiting, c)
  <2>1. Lookups!Schedule(running, w)
    OBVIOUS
  <2> HIDE DEF c
  <2>2. w = waiting \o <<c>>
    BY <1>2, <1>3, AppendIsConcat
  <2> HIDE DEF w
  <2> QED BY <2>1, <2>2
<1>6. /\ FlightsOK' /\ Onward /\ flight'[f].step = st
      /\ \A g \in Flights \ {f} : flight'[g] = flight[g]
  BY FlightTo DEF ServiceInv, Lookups!Unfinished, Steps
<1> HIDE DEF c
<1>7. Range(<<c>>) \cap Lookups!Calls = {}
  BY <1>1, <1>2, <1>4
<1>8. QueueOK' /\ Lookups!Calls' = Lookups!Calls \cup {c}
  BY <1>3, <1>4, <1>5, <1>7, CallsEnter DEF QueueOK
<1>9. OnlyOf(f)
  BY <1>2, <1>6, <1>8 DEF OnlyOf
<1>10. \A d \in Lookups!Calls' : d.flight = f => CallOK(d)'
  <2> SUFFICES CallOK(c)'
    BY <1>1, <1>8
  <2> QED BY <1>2, <1>6 DEF CallOK
<1>11. FlightOK(f)'
  <2>1. c \in Lookups!Calls' /\ c = Lookups!Call(f, Nobody, IF st = "fetching" THEN "skills" ELSE st)
    BY <1>8 DEF c
  <2>2. \A p \in Lookups!Players : lookup[f][p] = "none"
    <3>1. \A p, k : Lookups!Call(f, p, k) \notin Lookups!Calls
      BY <1>1 DEF Lookups!Call
    <3>2. lookup[f] \in [Lookups!Players -> {"none", "name", "data"}] /\ FlightOK(f)
      BY DEF ServiceInv, LookupOK, PendingOK
    <3> QED BY <3>1, <3>2 DEF FlightOK
  <2> QED BY <1>6, <2>1, <2>2 DEF FlightOK
<1>12. CallsOK' /\ PendingOK'
  BY <1>8, <1>9, <1>10, <1>11, OthersKept
<1>13. Lookups!AnswerEndsFlight
  <2>1. Lookups!Unfinished(f)'
    BY <1>6 DEF Lookups!Unfinished
  <2> QED BY <1>6, <2>1, NoneEnds
<1>14. LookupOK'
  BY DEF ServiceInv, LookupOK
<1> QED BY <1>6, <1>8, <1>12, <1>13, <1>14

LEMMA BeginPlayersStep ==
    ASSUME Lookups!PlayerAssumption, ServiceInv, NEW f \in Flights, Lookups!BeginPlayers(f)
    PROVE  ServiceKept
<1>1. CASE skills
  <2>1. /\ Lookups!Gather(f) /\ Lookups!Schedule(running, waiting \o Lookups!FirstCallsOf(f))
           /\ skillLock' = skillLock
        /\ flight[f].step = "new" /\ flight[f].key \in Queries
    BY <1>1 DEF Lookups!BeginPlayers
  <2>2. /\ FlightsOK' /\ LookupOK' /\ QueueOK' /\ CallsOK' /\ PendingOK' /\ Onward
        /\ Lookups!AnswerEndsFlight /\ flight'[f].step = "lookups"
        /\ \A g \in Flights \ {f} : flight'[g] = flight[g]
    BY <2>1, LookupsBegin
  <2>3. LockOK'
    BY <2>1, <2>2, LockSame DEF ServiceInv
  <2> QED BY <2>2, <2>3 DEF ServiceKept, ServiceInv
<1>2. CASE ~skills
  <2>1. /\ flight' = [flight EXCEPT ![f].step = "skills"]
        /\ skillLock' = Append(skillLock, f)
        /\ UNCHANGED <<lookup, running, waiting>>
        /\ flight[f].step = "new" /\ flight[f].key \in Queries
    BY <1>2 DEF Lookups!BeginPlayers
  <2>2. /\ FlightsOK' /\ Onward /\ flight'[f].step = "skills"
        /\ \A g \in Flights \ {f} : flight'[g] = flight[g]
    BY <2>1, FlightTo DEF ServiceInv, Lookups!Unfinished, Steps
  <2>3. LockOK'
    BY <2>1, <2>2, LockJoined DEF ServiceInv
  <2>4. Lookups!Calls' = Lookups!Calls
    BY <2>1 DEF Lookups!Calls
  <2>5. QueueOK' /\ LookupOK'
    BY <2>1 DEF ServiceInv, QueueOK, LookupOK, Places, Full
  <2>6. OnlyOf(f)
    BY <2>1, <2>2, <2>4 DEF OnlyOf
  <2>7. \A c \in Lookups!Calls' : c.flight = f => CallOK(c)'
    BY <2>1, <2>4, EarlyCalls
  <2>8. FlightOK(f)'
    <3>1. FlightOK(f)
      BY DEF ServiceInv, PendingOK
    <3> QED BY <2>1, <2>2, <2>4, <3>1 DEF FlightOK
  <2>9. CallsOK' /\ PendingOK'
    BY <2>5, <2>6, <2>7, <2>8, OthersKept
  <2>10. Lookups!AnswerEndsFlight
    <3>1. Lookups!Unfinished(f)'
      BY <2>2 DEF Lookups!Unfinished
    <3> QED BY <2>2, <3>1, NoneEnds
  <2> QED BY <2>2, <2>3, <2>5, <2>9, <2>10 DEF ServiceKept, ServiceInv
<1> QED BY <1>1, <1>2

LEMMA TakeSkillLockStep ==
    ASSUME Lookups!PlayerAssumption, ServiceInv, NEW f \in Flights, Lookups!TakeSkillLock(f)
    PROVE  ServiceKept
<1>1. flight[f].step = "skills" /\ Head(skillLock) = f
  BY DEF Lookups!TakeSkillLock
<1>2. skillLock # <<>> /\ flight[f].key \in Queries
  <2>1. f \in Range(skillLock) /\ flight[f].key \in Queries
    BY <1>1 DEF ServiceInv, LockOK, FlightsOK
  <2> QED BY <2>1, ShortLines
<1>3. CASE skills
  <2>1. /\ Lookups!Gather(f) /\ Lookups!Schedule(running, waiting \o Lookups!FirstCallsOf(f))
        /\ skillLock' = Tail(skillLock)
    BY <1>3 DEF Lookups!TakeSkillLock
  <2>2. /\ FlightsOK' /\ LookupOK' /\ QueueOK' /\ CallsOK' /\ PendingOK' /\ Onward
        /\ Lookups!AnswerEndsFlight /\ flight'[f].step = "lookups"
        /\ \A g \in Flights \ {f} : flight'[g] = flight[g]
    BY <1>1, <1>2, <2>1, LookupsBegin
  <2>3. LockOK'
    BY <1>1, <1>2, <2>1, <2>2, LockLeft DEF ServiceInv
  <2> QED BY <2>2, <2>3 DEF ServiceKept, ServiceInv
<1>4. CASE ~skills
  <2>1. /\ flight' = [flight EXCEPT ![f].step = "fetching"]
        /\ Lookups!Schedule(running, Append(waiting, Lookups!Call(f, Nobody, "skills")))
        /\ UNCHANGED <<lookup, skillLock>>
    BY <1>4 DEF Lookups!TakeSkillLock
  <2>2. /\ FlightsOK' /\ LookupOK' /\ QueueOK' /\ CallsOK' /\ PendingOK' /\ Onward
        /\ Lookups!AnswerEndsFlight /\ flight'[f].step = "fetching"
        /\ \A g \in Flights \ {f} : flight'[g] = flight[g]
    <3> DEFINE st == "fetching"
    <3>1. st \in {"fetching", "profile"} /\ flight' = [flight EXCEPT ![f].step = st]
          /\ Lookups!Schedule(running, Append(waiting, Lookups!Call(f, Nobody, IF st = "fetching" THEN "skills" ELSE st)))
      BY <2>1
    <3> HIDE DEF st
    <3>2. /\ FlightsOK' /\ LookupOK' /\ QueueOK' /\ CallsOK' /\ PendingOK' /\ Onward
          /\ Lookups!AnswerEndsFlight /\ flight'[f].step = st
          /\ \A g \in Flights \ {f} : flight'[g] = flight[g]
      BY <1>1, <1>2, <2>1, <3>1, FirstCall
    <3> QED BY <3>2 DEF st
  <2>3. LockOK'
    BY <1>1, <1>2, <2>1, <2>2, LockFetches DEF ServiceInv
  <2> QED BY <2>2, <2>3 DEF ServiceKept, ServiceInv
<1> QED BY <1>3, <1>4

LEMMA BeginFinanceStep ==
    ASSUME Lookups!PlayerAssumption, ServiceInv, NEW f \in Flights, Lookups!BeginFinance(f)
    PROVE  ServiceKept
<1>1. flight[f].step = "new" /\ lookup' = lookup /\ skillLock' = skillLock
  BY DEF Lookups!BeginFinance
<1>2. /\ FlightsOK' /\ LookupOK' /\ QueueOK' /\ CallsOK' /\ PendingOK' /\ Onward
      /\ Lookups!AnswerEndsFlight /\ flight'[f].step = "profile"
      /\ \A g \in Flights \ {f} : flight'[g] = flight[g]
  <2> DEFINE st == "profile"
  <2>1. st \in {"fetching", "profile"} /\ st # "fetching" /\ flight' = [flight EXCEPT ![f].step = st]
        /\ Lookups!Schedule(running, Append(waiting, Lookups!Call(f, Nobody, IF st = "fetching" THEN "skills" ELSE st)))
    BY DEF Lookups!BeginFinance
  <2>2. /\ FlightsOK' /\ LookupOK' /\ QueueOK' /\ CallsOK' /\ PendingOK' /\ Onward
        /\ Lookups!AnswerEndsFlight /\ flight'[f].step = st
        /\ \A g \in Flights \ {f} : flight'[g] = flight[g]
    <3> HIDE DEF st
    <3> QED BY <1>1, <2>1, FirstCall
  <2> QED BY <2>2
<1>3. LockOK'
  BY <1>1, <1>2, LockSame DEF ServiceInv
<1> QED BY <1>2, <1>3 DEF ServiceKept, ServiceInv

-----------------------------------------------------------------------------
(* The steps that an answer to a call begins.                              *)

(* What such a step does to the calls, whatever it does to the flight.     *)
LEMMA AnswerArrives ==
    ASSUME Lookups!PlayerAssumption, ServiceInv, NEW c \in running,
           NEW more \in Seq(CallSet), IsInjective(more), Range(more) \cap Lookups!Calls = {},
           \A d \in Range(more) : d.flight = c.flight,
           \A g \in Flights \ {c.flight} : flight'[g] = flight[g] /\ lookup'[g] = lookup[g],
           Lookups!Release(c, more)
    PROVE  /\ QueueOK' /\ Lookups!Calls' = (Lookups!Calls \ {c}) \cup Range(more)
           /\ OnlyOf(c.flight) /\ Lookups!AnswerEndsFlight
<1>1. Places(running, waiting) /\ c \in Lookups!Calls /\ c.flight \in Flights
  BY EarlyCalls DEF ServiceInv, QueueOK, Lookups!Calls
<1>2. /\ Places(running', waiting') /\ Full(running', waiting')
      /\ Lookups!Calls' = (Lookups!Calls \ {c}) \cup Range(more)
      /\ c \in running \ running'
  BY <1>1, CallsEnd
<1>3. OnlyOf(c.flight)
  BY <1>2 DEF OnlyOf
<1>4. Lookups!AnswerEndsFlight
  BY <1>1, <1>2, EndedByItsCall
<1> QED BY <1>2, <1>3, <1>4 DEF QueueOK

(* A flight with one call only ends, or its lookups are over: it waits for *)
(* nothing more.                                                           *)
LEMMA NothingLeft ==
    ASSUME ServiceInv, NEW f \in Flights, flight[f].step \in {"fetching", "profile", "museum"}
    PROVE  \A p \in Lookups!Players : lookup[f][p] = "none"
<1>1. ASSUME NEW p \in Lookups!Players, NEW k \in {"name", "player", "profiles"}
      PROVE  Lookups!Call(f, p, k) \notin Lookups!Calls
  <2>1. SUFFICES ASSUME Lookups!Call(f, p, k) \in Lookups!Calls PROVE FALSE
    OBVIOUS
  <2>2. CallOK(Lookups!Call(f, p, k))
    BY <2>1 DEF ServiceInv, CallsOK
  <2> QED BY <2>2 DEF CallOK, Lookups!Call
<1>2. lookup[f] \in [Lookups!Players -> {"none", "name", "data"}] /\ FlightOK(f)
  BY DEF ServiceInv, LookupOK, PendingOK
<1> QED BY <1>1, <1>2 DEF FlightOK

LEMMA OnlyCall ==
    ASSUME ServiceInv, NEW f \in Flights, NEW c \in Lookups!Calls, c.flight = f,
           flight[f].step \in {"fetching", "profile", "museum"}
    PROVE  /\ \A d \in Lookups!Calls : d.flight = f => d = c
           /\ c = Lookups!Call(f, Nobody, IF flight[f].step = "fetching" THEN "skills" ELSE flight[f].step)
BY EarlyCalls

(* The flight ends with its only call.                                     *)
LEMMA LastCall ==
    ASSUME Lookups!PlayerAssumption, ServiceInv, NEW c \in running, NEW f \in Flights, c.flight = f,
           flight[f].step \in {"fetching", "profile", "museum"},
           \/ flight' = [flight EXCEPT ![f].step = "done"]
           \/ flight' = [flight EXCEPT ![f].step = "done", ![f].refused = TRUE],
           lookup' = lookup, Lookups!Release(c, <<>>)
    PROVE  /\ FlightsOK' /\ LookupOK' /\ QueueOK' /\ CallsOK' /\ PendingOK' /\ Onward
           /\ Lookups!AnswerEndsFlight /\ flight'[f].step = "done"
           /\ \A g \in Flights \ {f} : flight'[g] = flight[g]
<1>1. c \in Lookups!Calls
  BY DEF Lookups!Calls
<1>2. \A d \in Lookups!Calls : d.flight = f => d = c
  BY <1>1, OnlyCall
<1>3. /\ FlightsOK' /\ Onward /\ flight'[f].step = "done"
      /\ \A g \in Flights \ {f} : flight'[g] = flight[g]
  BY FlightTo DEF ServiceInv, Lookups!Unfinished, Steps
<1>4. QueueOK' /\ Lookups!Calls' = (Lookups!Calls \ {c}) \cup Range(<<>>) /\ OnlyOf(f)
      /\ Lookups!AnswerEndsFlight
  BY <1>3, ShortLines, AnswerArrives
<1>5. \A d \in Lookups!Calls' : d.flight = f => CallOK(d)'
  BY <1>2, <1>4, ShortLines
<1>6. FlightOK(f)'
  BY <1>3, NothingLeft DEF FlightOK
<1>7. CallsOK' /\ PendingOK'
  BY <1>4, <1>5, <1>6, OthersKept
<1>8. LookupOK'
  BY DEF ServiceInv, LookupOK
<1> QED BY <1>3, <1>4, <1>7, <1>8

LEMMA SkillsAnsweredStep ==
    ASSUME Lookups!PlayerAssumption, ServiceInv, NEW c \in running, c.kind = "skills",
           NEW loaded \in BOOLEAN, Lookups!SkillsAnswered(c.flight, loaded)
    PROVE  ServiceKept
<1> DEFINE f == c.flight
<1>1. c \in Lookups!Calls /\ f \in Flights /\ flight[f].step = "fetching" /\ flight[f].key \in Queries
  BY EarlyCalls DEF Lookups!Calls, Lookups!SkillsAnswered, ServiceInv, FlightsOK
<1>2. /\ Lookups!Gather(f) /\ skillLock' = Tail(skillLock) /\ skillLock # <<>> /\ Head(skillLock) = f
  BY <1>1, FetcherIsHead DEF Lookups!SkillsAnswered, ServiceInv
<1>3. c = Lookups!Call(f, Nobody, "skills") /\ \A d \in Lookups!Calls : d.flight = f => d = c
  BY <1>1, OnlyCall
<1>4. Lookups!Release(c, Lookups!FirstCallsOf(f))
  BY <1>3 DEF Lookups!SkillsAnswered
<1>5. /\ Lookups!FirstCallsOf(f) \in Seq(CallSet) /\ IsInjective(Lookups!FirstCallsOf(f))
      /\ Range(Lookups!FirstCallsOf(f)) = Beginnings(f) /\ Beginnings(f) \subseteq CallSet
  BY <1>1, Opening
<1>6. c \notin Beginnings(f)
  BY <1>3 DEF Beginnings, Lookups!FirstCalls, Lookups!Call
<1> HIDE DEF f
<1>7. \A d \in Beginnings(f) : d.flight = f
  BY BeginningsFlight
<1>8. \A g \in Flights \ {f} : flight'[g] = flight[g] /\ lookup'[g] = lookup[g]
  BY <1>2 DEF Lookups!Gather, ServiceInv, FlightsOK, LookupOK
<1>9. /\ QueueOK' /\ Lookups!Calls' = (Lookups!Calls \ {c}) \cup Beginnings(f)
      /\ OnlyOf(f) /\ Lookups!AnswerEndsFlight
  <2>1. Range(Lookups!FirstCallsOf(f)) \cap Lookups!Calls = {}
    BY <1>3, <1>5, <1>6, <1>7
  <2> QED BY <1>4, <1>5, <1>7, <1>8, <2>1, AnswerArrives DEF f
<1>10. \A d \in CallSet : d.flight = f => (d \in Lookups!Calls' <=> d \in Beginnings(f))
  BY <1>3, <1>9
<1>11. FlightsOK' /\ LookupOK' /\ CallsOK' /\ PendingOK' /\ Onward /\ Lookups!Unfinished(f)'
       /\ flight'[f].step = "lookups"
  BY <1>1, <1>2, <1>9, <1>10, GatherStep
<1>12. LockOK'
  BY <1>1, <1>2, <1>8, <1>11, LockLeft DEF ServiceInv
<1> QED BY <1>9, <1>11, <1>12 DEF ServiceKept, ServiceInv

LEMMA SkillsRejectedStep ==
    ASSUME Lookups!PlayerAssumption, ServiceInv, NEW c \in running, c.kind = "skills",
           Lookups!SkillsRejected(c.flight)
    PROVE  ServiceKept
<1> DEFINE f == c.flight
<1>1. c \in Lookups!Calls /\ f \in Flights /\ flight[f].step = "fetching"
  BY EarlyCalls DEF Lookups!Calls, Lookups!SkillsRejected
<1>2. skillLock' = Tail(skillLock) /\ skillLock # <<>> /\ Head(skillLock) = f
      /\ lookup' = lookup
      /\ flight' = [flight EXCEPT ![f].step = "done", ![f].refused = TRUE]
  BY <1>1, FetcherIsHead DEF Lookups!SkillsRejected, ServiceInv, Lookups!Refused
<1>3. Lookups!Release(c, <<>>)
  BY <1>1, OnlyCall DEF Lookups!SkillsRejected
<1>4. /\ FlightsOK' /\ LookupOK' /\ QueueOK' /\ CallsOK' /\ PendingOK' /\ Onward
      /\ Lookups!AnswerEndsFlight /\ flight'[f].step = "done"
      /\ \A g \in Flights \ {f} : flight'[g] = flight[g]
  BY <1>1, <1>2, <1>3, LastCall
<1>5. LockOK'
  BY <1>1, <1>2, <1>4, LockLeft DEF ServiceInv
<1> QED BY <1>4, <1>5 DEF ServiceKept, ServiceInv

LEMMA FinanceStepKeeps ==
    ASSUME Lookups!PlayerAssumption, ServiceInv, NEW c \in running, Lookups!FinanceStep(c)
    PROVE  ServiceKept
<1> DEFINE f == c.flight
           Moved == /\ FlightsOK' /\ LookupOK' /\ QueueOK' /\ CallsOK' /\ PendingOK' /\ Onward
                    /\ Lookups!AnswerEndsFlight /\ flight'[f].step \notin {"skills", "fetching"}
                    /\ \A g \in Flights \ {f} : flight'[g] = flight[g]
<1>1. /\ c \in Lookups!Calls /\ f \in Flights /\ c.kind \in {"profile", "museum"}
      /\ lookup' = lookup /\ skillLock' = skillLock
  BY EarlyCalls DEF Lookups!Calls, Lookups!FinanceStep
<1>2. flight[f].step = c.kind
  BY <1>1 DEF ServiceInv, CallsOK, CallOK
<1>3. c = Lookups!Call(f, Nobody, flight[f].step) /\ \A d \in Lookups!Calls : d.flight = f => d = c
  BY <1>1, <1>2, OnlyCall
<1>4. ASSUME Lookups!Release(c, <<>>),
             \/ flight' = [flight EXCEPT ![f].step = "done"]
             \/ flight' = [flight EXCEPT ![f].step = "done", ![f].refused = TRUE]
      PROVE  Moved
  <2> HIDE DEF f
  <2>1. f = c.flight
    BY DEF f
  <2> QED BY <1>1, <1>2, <1>4, <2>1, LastCall
<1>5. ASSUME flight[f].step = "profile", flight' = [flight EXCEPT ![f].step = "museum"],
             Lookups!Release(c, <<Lookups!Call(f, Nobody, "museum")>>)
      PROVE  Moved
  <2> DEFINE d == Lookups!Call(f, Nobody, "museum")
  <2>1. d \in CallSet /\ d.flight = f /\ d.kind = "museum" /\ d.player = Nobody /\ d # c
    <3>1. d \in CallSet /\ d.flight = f /\ d.kind = "museum" /\ d.player = Nobody
      BY <1>1 DEF CallSet, Lookups!Call, Kinds
    <3>2. c.kind = "profile"
      BY <1>2, <1>5
    <3> QED BY <3>1, <3>2
  <2>2. <<d>> \in Seq(CallSet) /\ IsInjective(<<d>>) /\ Range(<<d>>) = {d}
    <3> HIDE DEF d
    <3> QED BY <2>1, ShortLines
  <2>3. Range(<<d>>) \cap Lookups!Calls = {}
    BY <1>3, <2>1, <2>2
  <2>4. /\ FlightsOK' /\ Onward /\ flight'[f].step = "museum"
        /\ \A g \in Flights \ {f} : flight'[g] = flight[g]
    <3> HIDE DEF f
    <3> QED BY <1>1, <1>5, FlightTo DEF ServiceInv, Lookups!Unfinished, Steps
  <2>5. QueueOK' /\ Lookups!Calls' = (Lookups!Calls \ {c}) \cup {d} /\ OnlyOf(f)
        /\ Lookups!AnswerEndsFlight
    <3>1. Lookups!Release(c, <<d>>)
      BY <1>5
    <3> HIDE DEF d
    <3> QED BY <1>1, <2>1, <2>2, <2>3, <2>4, <3>1, AnswerArrives
  <2>6. ASSUME NEW e \in Lookups!Calls', e.flight = f PROVE CallOK(e)'
    <3>1. e = d
      BY <1>3, <2>5, <2>6
    <3> QED BY <2>1, <2>4, <3>1 DEF CallOK
  <2>7. FlightOK(f)'
    <3>1. \A p \in Lookups!Players : lookup[f][p] = "none"
      BY <1>1, <1>5, NothingLeft
    <3> QED BY <1>1, <2>4, <2>5, <3>1 DEF FlightOK
  <2>8. CallsOK' /\ PendingOK'
    <3> HIDE DEF f
    <3> QED BY <1>1, <2>5, <2>6, <2>7, OthersKept
  <2>9. LookupOK'
    BY <1>1 DEF ServiceInv, LookupOK
  <2> QED BY <2>4, <2>5, <2>8, <2>9
<1>6. ASSUME NEW member \in BOOLEAN, Lookups!ProfileAnswered(f, member) PROVE Moved
  <2>1. flight[f].step = "profile"
    BY <1>6 DEF Lookups!ProfileAnswered
  <2>2. CASE member
    BY <1>3, <1>5, <1>6, <2>1, <2>2 DEF Lookups!ProfileAnswered
  <2>3. CASE ~member
    BY <1>3, <1>4, <1>6, <2>1, <2>3 DEF Lookups!ProfileAnswered
  <2> QED BY <2>2, <2>3
<1>7. ASSUME Lookups!MuseumAnswered(f) PROVE Moved
  BY <1>3, <1>4, <1>7 DEF Lookups!MuseumAnswered
<1>8. ASSUME Lookups!FinanceFails(f) PROVE Moved
  BY <1>3, <1>4, <1>8 DEF Lookups!FinanceFails, Lookups!Refused
<1>9. Moved
  BY <1>6, <1>7, <1>8 DEF Lookups!FinanceStep
<1>10. LockOK'
  BY <1>1, <1>2, <1>9, LockSame DEF ServiceInv
<1> QED BY <1>9, <1>10 DEF ServiceKept, ServiceInv

-----------------------------------------------------------------------------
(* The lookup of one player.                                               *)

LEMMA LookupFacts ==
    ASSUME ServiceInv, NEW c \in running, c.kind \in {"name", "player", "profiles"}
    PROVE  /\ c \in Lookups!Calls /\ c \in CallSet /\ c.flight \in Flights
              /\ c.player \in Lookups!Players
           /\ c = Lookups!Call(c.flight, c.player, c.kind)
           /\ flight[c.flight].step \in {"lookups", "done"}
           /\ lookup[c.flight][c.player] = "name" <=> c.kind = "name"
           /\ lookup[c.flight][c.player] \in {"none", "name", "data"}
<1>1. c \in Lookups!Calls
  BY DEF Lookups!Calls
<1>2. c \in CallSet /\ c.flight \in Flights /\ c = Lookups!Call(c.flight, c.player, c.kind) /\ CallOK(c)
  BY <1>1, CallTypes, EarlyCalls DEF ServiceInv, CallsOK
<1> QED BY <1>1, <1>2 DEF CallOK, ServiceInv, LookupOK

(* The lookup of a player is over; what calls of it are left are not by    *)
(* name, and the flight goes on if another lookup does.                    *)
LEMMA LookupOver ==
    ASSUME Lookups!PlayerAssumption, ServiceInv, NEW c \in running,
           c.kind \in {"name", "player", "profiles"},
           Lookups!Release(c, <<>>), skillLock' = skillLock,
           lookup' = [lookup EXCEPT ![c.flight][c.player] = "none"],
           \/ flight' = [flight EXCEPT ![c.flight].step = "done"]
           \/ flight' = [flight EXCEPT ![c.flight].step = "done", ![c.flight].refused = TRUE]
           \/ /\ flight' = flight
              /\ \/ flight[c.flight].step = "done"
                 \/ \E q \in Lookups!Players \ {c.player} : lookup[c.flight][q] # "none"
    PROVE  ServiceKept
<1> DEFINE f == c.flight
           p == c.player
<1>1. /\ c \in Lookups!Calls /\ f \in Flights /\ p \in Lookups!Players /\ c = Lookups!Call(f, p, c.kind)
      /\ flight[f].step \in {"lookups", "done"} /\ (lookup[f][p] = "name" <=> c.kind = "name")
  BY LookupFacts
<1>2. lookup \in [Flights -> [Lookups!Players -> {"none", "name", "data"}]]
  BY DEF ServiceInv, LookupOK
<1>3. /\ LookupOK' /\ lookup'[f][p] = "none"
      /\ \A q \in Lookups!Players \ {p} : lookup'[f][q] = lookup[f][q]
      /\ \A g \in Flights \ {f} : lookup'[g] = lookup[g]
  BY <1>1, <1>2 DEF LookupOK
<1>4. /\ FlightsOK' /\ Onward /\ \A g \in Flights \ {f} : flight'[g] = flight[g]
      /\ \/ flight'[f].step = "done"
         \/ flight'[f].step = flight[f].step /\ \E q \in Lookups!Players \ {p} : lookup[f][q] # "none"
  <2> HIDE DEF f, p
  <2>1. CASE /\ flight' = flight
             /\ flight[f].step = "done" \/ \E q \in Lookups!Players \ {p} : lookup[f][q] # "none"
    BY <2>1 DEF ServiceInv, FlightsOK, Onward, Lookups!Unfinished
  <2>2. CASE \/ flight' = [flight EXCEPT ![f].step = "done"]
             \/ flight' = [flight EXCEPT ![f].step = "done", ![f].refused = TRUE]
    BY <1>1, <2>2, FlightTo DEF ServiceInv, Lookups!Unfinished, Steps
  <2> QED BY <2>1, <2>2 DEF f, p
<1>5. QueueOK' /\ Lookups!Calls' = Lookups!Calls \ {c} /\ OnlyOf(f) /\ Lookups!AnswerEndsFlight
  BY <1>3, <1>4, ShortLines, AnswerArrives
<1> HIDE DEF f, p
<1>6. ASSUME NEW d \in Lookups!Calls', d.flight = f PROVE CallOK(d)'
  <2>1. d \in Lookups!Calls /\ d # c /\ d = Lookups!Call(f, d.player, d.kind) /\ CallOK(d)
        /\ d.kind \in Kinds
    BY <1>5, <1>6, CallTypes DEF ServiceInv, CallsOK, CallSet
  <2>2. d.kind \in {"name", "player", "profiles"} /\ d.player \in Lookups!Players
    BY <1>1, <1>6, <2>1 DEF CallOK, Kinds
  <2>3. flight'[f].step \in {"lookups", "done"}
    BY <1>1, <1>4
  <2>4. d.kind = "name" <=> lookup'[f][d.player] = "name"
    <3>1. d.kind = "name" <=> lookup[f][d.player] = "name"
      BY <1>6, <2>1, <2>2 DEF CallOK
    <3>2. CASE d.player = p
      BY <1>1, <1>3, <2>1, <3>1, <3>2
    <3>3. CASE d.player # p
      BY <1>3, <2>2, <3>1, <3>3
    <3> QED BY <3>2, <3>3
  <2> QED BY <1>6, <2>2, <2>3, <2>4 DEF CallOK
<1>7. FlightOK(f)'
  <2>1. FlightOK(f)
    BY <1>1 DEF ServiceInv, PendingOK
  <2>2. ASSUME NEW q \in Lookups!Players \ {p}, NEW k, Lookups!Call(f, q, k) \in Lookups!Calls
        PROVE  Lookups!Call(f, q, k) \in Lookups!Calls'
    BY <1>1, <1>5, <2>2 DEF Lookups!Call
  <2>3. \A q \in Lookups!Players : lookup'[f][q] = "name"
        => Lookups!Call(f, q, "name") \in Lookups!Calls'
    BY <1>3, <2>1, <2>2 DEF FlightOK
  <2>4. \A q \in Lookups!Players : lookup'[f][q] = "data" =>
           Lookups!Call(f, q, "player") \in Lookups!Calls'
           \/ Lookups!Call(f, q, "profiles") \in Lookups!Calls'
    BY <1>3, <2>1, <2>2 DEF FlightOK
  <2>5. flight'[f].step \in {"lookups", "done"}
        /\ (flight'[f].step = "lookups" => \E q \in Lookups!Players : lookup'[f][q] # "none")
    BY <1>1, <1>3, <1>4
  <2> QED BY <2>3, <2>4, <2>5 DEF FlightOK
<1>8. CallsOK' /\ PendingOK'
  BY <1>1, <1>5, <1>6, <1>7, OthersKept
<1>9. LockOK'
  <2>1. flight'[f].step \notin {"skills", "fetching"} /\ flight[f].step \notin {"skills", "fetching"}
    BY <1>1, <1>4
  <2> QED BY <1>1, <1>4, <2>1, LockSame DEF ServiceInv
<1> QED BY <1>3, <1>4, <1>5, <1>8, <1>9 DEF ServiceKept, ServiceInv

(* A call is over, but the lookup waits for another one or is over.        *)
LEMMA LookupWaits ==
    ASSUME Lookups!PlayerAssumption, ServiceInv, NEW c \in running, c.kind \in {"player", "profiles"},
           Lookups!Release(c, <<>>), skillLock' = skillLock, lookup' = lookup, flight' = flight,
           lookup[c.flight][c.player] = "data" => Lookups!Sibling(c) \in Lookups!Calls
    PROVE  ServiceKept
<1> DEFINE f == c.flight
           p == c.player
<1>1. /\ c \in Lookups!Calls /\ f \in Flights /\ p \in Lookups!Players /\ c = Lookups!Call(f, p, c.kind)
      /\ flight[f].step \in {"lookups", "done"} /\ lookup[f][p] # "name"
  BY LookupFacts
<1>2. QueueOK' /\ Lookups!Calls' = Lookups!Calls \ {c} /\ OnlyOf(f) /\ Lookups!AnswerEndsFlight
  BY ShortLines, AnswerArrives
<1>3. ASSUME NEW d \in Lookups!Calls', d.flight = f PROVE CallOK(d)'
  <2>1. CallOK(d)
    BY <1>2, <1>3 DEF ServiceInv, CallsOK
  <2> QED BY <2>1 DEF CallOK
<1>4. FlightOK(f)'
  <2>1. FlightOK(f)
    BY <1>1 DEF ServiceInv, PendingOK
  <2>2. ASSUME NEW q \in Lookups!Players \ {p}, NEW k, Lookups!Call(f, q, k) \in Lookups!Calls
        PROVE  Lookups!Call(f, q, k) \in Lookups!Calls'
    BY <1>1, <1>2, <2>2 DEF Lookups!Call
  <2>3. lookup[f][p] = "data" => Lookups!Call(f, p, "player") \in Lookups!Calls'
        \/ Lookups!Call(f, p, "profiles") \in Lookups!Calls'
    <3> SUFFICES ASSUME lookup[f][p] = "data"
                 PROVE  Lookups!Call(f, p, "player") \in Lookups!Calls'
                        \/ Lookups!Call(f, p, "profiles") \in Lookups!Calls'
      OBVIOUS
    <3>1. Lookups!Sibling(c) \in Lookups!Calls /\ Lookups!Sibling(c) # c
      BY <1>1 DEF Lookups!Sibling, Lookups!Call
    <3> QED BY <1>2, <3>1 DEF Lookups!Sibling
  <2>4. \A q \in Lookups!Players : lookup[f][q] = "name" => Lookups!Call(f, q, "name") \in Lookups!Calls'
    BY <1>1, <2>1, <2>2 DEF FlightOK
  <2>5. \A q \in Lookups!Players : lookup[f][q] = "data" =>
           Lookups!Call(f, q, "player") \in Lookups!Calls'
           \/ Lookups!Call(f, q, "profiles") \in Lookups!Calls'
    BY <1>1, <2>1, <2>2, <2>3 DEF FlightOK
  <2>6. flight[f].step = "lookups" => \E q \in Lookups!Players : lookup[f][q] # "none"
    BY <2>1 DEF FlightOK
  <2> HIDE DEF f
  <2> QED BY <1>1, <2>4, <2>5, <2>6 DEF FlightOK
<1>5. CallsOK' /\ PendingOK'
  <2> HIDE DEF f
  <2> QED BY <1>1, <1>2, <1>3, <1>4, OthersKept
<1>6. LockOK'
  <2>1. flight[f].step \notin {"skills", "fetching"}
    BY <1>1
  <2> HIDE DEF f
  <2> QED BY <1>1, <2>1, LockSame DEF ServiceInv
<1>7. FlightsOK' /\ LookupOK' /\ Onward
  BY DEF ServiceInv, FlightsOK, LookupOK, Onward, Lookups!Unfinished
<1> QED BY <1>2, <1>5, <1>6, <1>7 DEF ServiceKept, ServiceInv

LEMMA NameFoundStep ==
    ASSUME Lookups!PlayerAssumption, ServiceInv, NEW c \in running, c.kind = "name",
           Lookups!NameFound(c), skillLock' = skillLock
    PROVE  ServiceKept
<1> DEFINE f == c.flight
           p == c.player
           d == Lookups!Call(f, p, "player")
           e == Lookups!Call(f, p, "profiles")
<1>1. /\ c \in Lookups!Calls /\ f \in Flights /\ p \in Lookups!Players /\ c = Lookups!Call(f, p, "name")
      /\ flight[f].step \in {"lookups", "done"} /\ lookup[f][p] = "name"
  BY LookupFacts
<1>2. /\ lookup' = [lookup EXCEPT ![f][p] = "data"] /\ flight' = flight
      /\ Lookups!Release(c, <<d, e>>)
  BY DEF Lookups!NameFound
<1>3. /\ LookupOK' /\ lookup'[f][p] = "data"
      /\ \A q \in Lookups!Players \ {p} : lookup'[f][q] = lookup[f][q]
      /\ \A g \in Flights \ {f} : lookup'[g] = lookup[g]
  <2>1. lookup \in [Flights -> [Lookups!Players -> {"none", "name", "data"}]]
    BY DEF ServiceInv, LookupOK
  <2> QED BY <1>1, <1>2, <2>1 DEF LookupOK
<1>4. /\ d \in CallSet /\ e \in CallSet /\ d # e
      /\ d.flight = f /\ d.player = p /\ d.kind = "player"
      /\ e.flight = f /\ e.player = p /\ e.kind = "profiles"
  BY <1>1 DEF CallSet, Kinds, Lookups!Call
<1>5. d \notin Lookups!Calls /\ e \notin Lookups!Calls
  <2>1. ~CallOK(d) /\ ~CallOK(e)
    BY <1>1, <1>4 DEF CallOK
  <2> QED BY <2>1 DEF ServiceInv, CallsOK
<1> HIDE DEF d, e
<1>6. <<d, e>> \in Seq(CallSet) /\ IsInjective(<<d, e>>) /\ Range(<<d, e>>) = {d, e}
  BY <1>4, ShortLines
<1>7. QueueOK' /\ Lookups!Calls' = (Lookups!Calls \ {c}) \cup {d, e} /\ OnlyOf(f)
      /\ Lookups!AnswerEndsFlight
  BY <1>2, <1>3, <1>4, <1>5, <1>6, AnswerArrives
<1> HIDE DEF f, p
<1>8. ASSUME NEW x \in Lookups!Calls', x.flight = f PROVE CallOK(x)'
  <2>1. CASE x \in {d, e}
    BY <1>1, <1>2, <1>3, <1>4, <2>1 DEF CallOK
  <2>2. CASE x \notin {d, e}
    <3>1. x \in Lookups!Calls /\ x # c /\ x = Lookups!Call(f, x.player, x.kind) /\ CallOK(x)
          /\ x.kind \in Kinds
      BY <1>7, <1>8, <2>2, CallTypes DEF ServiceInv, CallsOK, CallSet
    <3>2. x.kind \in {"name", "player", "profiles"} /\ x.player \in Lookups!Players
      BY <1>1, <1>8, <3>1 DEF CallOK, Kinds
    <3>3. x.kind = "name" <=> lookup[f][x.player] = "name"
      BY <1>8, <3>1, <3>2 DEF CallOK
    <3>4. x.player # p
      BY <1>1, <3>1, <3>3
    <3> QED BY <1>1, <1>2, <1>3, <1>8, <3>2, <3>3, <3>4 DEF CallOK
  <2> QED BY <2>1, <2>2
<1>9. FlightOK(f)'
  <2>1. FlightOK(f)
    BY <1>1 DEF ServiceInv, PendingOK
  <2>2. ASSUME NEW q \in Lookups!Players \ {p}, NEW k, Lookups!Call(f, q, k) \in Lookups!Calls
        PROVE  Lookups!Call(f, q, k) \in Lookups!Calls'
    BY <1>1, <1>7, <2>2 DEF Lookups!Call
  <2>3. Lookups!Call(f, p, "player") \in Lookups!Calls'
    BY <1>7 DEF d
  <2>4. \A q \in Lookups!Players : lookup'[f][q] = "name"
        => Lookups!Call(f, q, "name") \in Lookups!Calls'
    BY <1>3, <2>1, <2>2 DEF FlightOK
  <2>5. \A q \in Lookups!Players : lookup'[f][q] = "data" =>
           Lookups!Call(f, q, "player") \in Lookups!Calls'
           \/ Lookups!Call(f, q, "profiles") \in Lookups!Calls'
    BY <1>3, <2>1, <2>2, <2>3 DEF FlightOK
  <2>6. \E q \in Lookups!Players : lookup'[f][q] # "none"
    BY <1>1, <1>3
  <2> QED BY <1>1, <1>2, <2>4, <2>5, <2>6 DEF FlightOK
<1>10. CallsOK' /\ PendingOK'
  BY <1>1, <1>7, <1>8, <1>9, OthersKept
<1>11. LockOK'
  <2>1. flight[f].step \notin {"skills", "fetching"}
    BY <1>1
  <2> QED BY <1>1, <1>2, <2>1, LockSame DEF ServiceInv
<1>12. FlightsOK' /\ Onward
  BY <1>2 DEF ServiceInv, FlightsOK, Onward, Lookups!Unfinished
<1> QED BY <1>3, <1>7, <1>10, <1>11, <1>12 DEF ServiceKept, ServiceInv

LEMMA LookupStepKeeps ==
    ASSUME Lookups!PlayerAssumption, ServiceInv, NEW c \in running, Lookups!LookupStep(c)
    PROVE  ServiceKept
<1> DEFINE f == c.flight
           p == c.player
<1>1. skillLock' = skillLock
  BY DEF Lookups!LookupStep
<1>2. ASSUME c.kind \in {"name", "player", "profiles"}, Lookups!Settled(f, p), Lookups!Release(c, <<>>)
      PROVE  ServiceKept
  <2>1. flight[f].step \in {"lookups", "done"}
    BY <1>2, LookupFacts
  <2>2. CASE \A q \in Lookups!Players \ {p} : lookup[f][q] = "none"
    BY <1>1, <1>2, <2>2, LookupOver DEF Lookups!Settled
  <2>3. CASE \E q \in Lookups!Players \ {p} : lookup[f][q] # "none"
    BY <1>1, <1>2, <2>3, LookupOver DEF Lookups!Settled
  <2> QED BY <2>2, <2>3
<1>3. CASE c.kind = "name" /\ Lookups!NameFound(c)
  BY <1>1, <1>3, NameFoundStep
<1>4. CASE c.kind = "name" /\ Lookups!NameMissing(c)
  BY <1>2, <1>4 DEF Lookups!NameMissing
<1>5. CASE c.kind \in {"player", "profiles"} /\ Lookups!DataAnswered(c)
  BY <1>1, <1>2, <1>5, LookupWaits DEF Lookups!DataAnswered
<1>6. CASE c.kind \in {"player", "profiles"} /\ Lookups!DataFails(c)
  BY <1>1, <1>2, <1>6, LookupWaits DEF Lookups!DataFails
<1>7. CASE c.kind \in {"player", "profiles"} /\ Lookups!DataRejected(c)
  <2>1. /\ flight[f].step \in {"lookups", "done"} /\ lookup[f][p] \in {"none", "data"}
        /\ f \in Flights /\ p \in Lookups!Players
    BY <1>7, LookupFacts
  <2>2. /\ lookup' = [lookup EXCEPT ![f][p] = "none"] /\ Lookups!Release(c, <<>>)
        /\ flight' = IF lookup[f][p] = "data"
           /\ Lookups!Unfinished(f) THEN Lookups!Refused(f) ELSE flight
    BY <1>7 DEF Lookups!DataRejected
  <2>3. CASE lookup[f][p] = "data" /\ Lookups!Unfinished(f)
    BY <1>1, <1>7, <2>2, <2>3, LookupOver DEF Lookups!Refused
  <2>4. CASE lookup[f][p] = "data" /\ ~Lookups!Unfinished(f)
    <3>1. flight' = flight /\ flight[f].step = "done"
      BY <2>1, <2>2, <2>4 DEF Lookups!Unfinished
    <3> QED BY <1>1, <1>7, <2>2, <3>1, LookupOver
  <2>5. CASE lookup[f][p] # "data"
    <3>1. lookup[f][p] = "none" /\ flight' = flight
      BY <2>1, <2>2, <2>5
    <3>2. lookup' = lookup
      <4>1. lookup \in [Flights -> [Lookups!Players -> {"none", "name", "data"}]]
        BY DEF ServiceInv, LookupOK
      <4> QED BY <2>1, <2>2, <3>1, <4>1
    <3> QED BY <1>1, <1>7, <2>2, <2>5, <3>1, <3>2, LookupWaits
  <2> QED BY <2>3, <2>4, <2>5
<1> QED BY <1>3, <1>4, <1>5, <1>6, <1>7 DEF Lookups!LookupStep

-----------------------------------------------------------------------------
(* The whole step.                                                         *)

LEMMA FlightNumbers ==
    ASSUME Lookups!PlayerAssumption
    PROVE  Flights \subseteq Nat /\ 0 \notin Flights
<1>1. Cardinality(Flights) \in Nat
  BY SameOperators, FS_CardinalityType DEF Lookups!PlayerAssumption
<1>2. Flights = 1..Cardinality(Flights)
  BY SameOperators DEF Lookups!PlayerAssumption
<1>3. \A n \in Nat : 1..n \subseteq Nat /\ 0 \notin 1..n
  OBVIOUS
<1> QED BY <1>1, <1>2, <1>3

(* A step of the service: the table still says what is under way.          *)
LEMMA TableStays ==
    ASSUME QueryInv, ServiceKept, UNCHANGED <<Lookups!requests, Lookups!flights>>
    PROVE  QueryInv'
<1>1. asked' = asked /\ inflight' = inflight /\ activeLoads' = activeLoads
  BY DEF Lookups!requests, Lookups!flights
<1>2. RequestsOK' /\ TableOK'
  BY <1>1 DEF QueryInv, RequestsOK, TableOK, Underway
<1>3. \A f \in Flights : Lookups!Unfinished(f)' => inflight'[flight'[f].key] = f
  BY <1>1 DEF QueryInv, Lookups!SharedFlight, ServiceKept, Onward
<1>4. Lookups!SharedFlight'
  BY <1>1, <1>3 DEF QueryInv, Lookups!SharedFlight
<1> QED BY <1>2, <1>4 DEF QueryInv, ServiceKept

(* Nothing of the service changes.                                         *)
LEMMA ServiceRests ==
    ASSUME ServiceInv, UNCHANGED <<flight, lookup, skillLock, running, waiting>>
    PROVE  ServiceKept
<1>1. Lookups!Calls' = Lookups!Calls
  BY DEF Lookups!Calls
<1>2. FlightsOK' /\ LookupOK' /\ LockOK' /\ QueueOK'
  BY DEF ServiceInv, FlightsOK, LookupOK, LockOK, QueueOK, Places, Full
<1>3. CallsOK' /\ PendingOK'
  BY <1>1 DEF ServiceInv, CallsOK, PendingOK, CallOK, FlightOK
<1>4. Onward /\ Lookups!AnswerEndsFlight
  BY DEF Onward, Lookups!AnswerEndsFlight, Lookups!Unfinished
<1> QED BY <1>2, <1>3, <1>4 DEF ServiceKept, ServiceInv

(* A request that does not launch a flight changes no one else's state.    *)
LEMMA RequestMoves ==
    ASSUME Lookups!PlayerAssumption, QueryInv, NEW r \in Requests,
           Lookups!Start(r) \/ Lookups!ReadCache(r) \/ Lookups!Join(r) \/ Lookups!Arrive(r)
           \/ Lookups!Write(r) \/ Lookups!GoAway(r)
    PROVE  QueryInv' /\ Lookups!AnswerEndsFlight
<1>1. UNCHANGED <<Lookups!flights, Lookups!service>>
  BY DEF Lookups!Start, Lookups!ReadCache, Lookups!Join, Lookups!Arrive, Lookups!Write, Lookups!GoAway
<1>2. ServiceKept
  BY <1>1, ServiceRests DEF QueryInv, Lookups!service
<1>3. asked \in [Requests -> RequestType] /\ asked[r] \in RequestType
      /\ \A s \in Requests : asked[s].step # "idle" => asked[s].key \in Lookups!CacheKeys
  BY DEF QueryInv, RequestsOK
<1>4. Lookups!NoRequest \in RequestType /\ Lookups!NoRequest.step = "idle"
  BY DEF Lookups!NoRequest, RequestType
<1>5. ASSUME NEW k \in Lookups!CacheKeys,
             asked' = [asked EXCEPT ![r] = [Lookups!NoRequest EXCEPT !.step = "read", !.key = k]]
      PROVE  RequestsOK'
  <2> DEFINE o == [Lookups!NoRequest EXCEPT !.step = "read", !.key = k]
  <2>1. o \in RequestType /\ o.key = k
    BY <1>4 DEF RequestType, Lookups!NoRequest
  <2> HIDE DEF o
  <2> QED BY <1>3, <1>5, <2>1 DEF RequestsOK, o
<1>6. ASSUME asked' = [asked EXCEPT ![r] = Lookups!NoRequest] PROVE RequestsOK'
  BY <1>3, <1>4, <1>6 DEF RequestsOK
<1>7. ASSUME NEW st \in {"join", "await", "write"}, NEW f \in Flights \cup {0},
             asked[r].step # "idle",
             \/ asked' = [asked EXCEPT ![r].step = st, ![r].flight = f]
             \/ asked' = [asked EXCEPT ![r] = [@ EXCEPT !.step = st]]
      PROVE  RequestsOK'
  <2>1. /\ asked'[r].step = st /\ asked'[r].key = asked[r].key
        /\ asked'[r] \in RequestType
        /\ \A s \in Requests \ {r} : asked'[s] = asked[s]
        /\ asked' \in [Requests -> RequestType]
    BY <1>3, <1>7 DEF RequestType
  <2> QED BY <1>3, <1>7, <2>1 DEF RequestsOK
<1>8. RequestsOK'
  <2>1. CASE Lookups!Start(r)
    <3>1. PICK k \in AsksFor[r] :
             asked' = [asked EXCEPT ![r] = [Lookups!NoRequest EXCEPT !.step = "read", !.key = k]]
      BY <2>1 DEF Lookups!Start
    <3>2. k \in Lookups!CacheKeys
      BY DEF Lookups!PlayerAssumption
    <3> QED BY <1>5, <3>1, <3>2
  <2>2. CASE Lookups!ReadCache(r)
    <3>1. CASE asked[r].key \in cached
      BY <1>6, <2>2, <3>1 DEF Lookups!ReadCache
    <3>2. CASE asked[r].key \notin cached
      BY <1>7, <2>2, <3>2 DEF Lookups!ReadCache
    <3> QED BY <3>1, <3>2
  <2>3. CASE Lookups!Join(r)
    <3>1. inflight[asked[r].key] \in Flights \cup {0}
      BY <1>3, <2>3 DEF Lookups!Join, QueryInv, TableOK
    <3> QED BY <1>7, <2>3, <3>1 DEF Lookups!Join
  <2>4. CASE Lookups!Arrive(r)
    <3>1. CASE flight[asked[r].flight].refused
      BY <1>6, <2>4, <3>1 DEF Lookups!Arrive
    <3>2. CASE ~flight[asked[r].flight].refused
      BY <1>7, <2>4, <3>2 DEF Lookups!Arrive
    <3> QED BY <3>1, <3>2
  <2>5. CASE Lookups!Write(r)
    BY <1>6, <2>5 DEF Lookups!Write
  <2>6. CASE Lookups!GoAway(r)
    BY <1>6, <2>6 DEF Lookups!GoAway
  <2> QED BY <2>1, <2>2, <2>3, <2>4, <2>5, <2>6
<1>9. TableOK' /\ Lookups!SharedFlight'
  BY <1>1 DEF Lookups!flights, Lookups!service, QueryInv, TableOK, Underway, Lookups!SharedFlight,
     Lookups!Unfinished
<1> QED BY <1>2, <1>8, <1>9 DEF QueryInv, ServiceKept

(* A launch takes a flight nobody knows any more, for a query without one. *)
LEMMA LaunchStep ==
    ASSUME Lookups!PlayerAssumption, QueryInv, NEW r \in Requests, Lookups!Launch(r)
    PROVE  QueryInv' /\ Lookups!AnswerEndsFlight
<1> DEFINE k == asked[r].key
<1>1. PICK f \in Flights : Lookups!Forgotten(f) /\ f = Min({g \in Flights : Lookups!Forgotten(g)})
  <2> DEFINE S == {g \in Flights : Lookups!Forgotten(g)}
  <2>1. S \in SUBSET Nat /\ S # {}
    BY FlightNumbers DEF Lookups!Launch
  <2> HIDE DEF S
  <2>2. Min(S) \in S
    BY <2>1, MinExists
  <2> QED BY <2>2 DEF S
<1>2. /\ k \in Lookups!CacheKeys /\ asked[r].step = "join" /\ inflight[k] = 0
      /\ inflight' = [inflight EXCEPT ![k] = f]
      /\ activeLoads' = activeLoads + Lookups!Counted(k)
      /\ flight' = [flight EXCEPT ![f] = [key |-> k, step |-> "new", refused |-> FALSE]]
      /\ asked' = [asked EXCEPT ![r].step = "await", ![r].flight = f]
      /\ UNCHANGED <<cached, lookup, skills, skillLock, running, waiting>>
  BY SameOperators, <1>1 DEF Lookups!Launch, QueryInv, RequestsOK
<1> HIDE DEF k
<1>3. RequestsOK'
  <2>1. asked \in [Requests -> RequestType]
        /\ \A s \in Requests : asked[s].step # "idle" => asked[s].key \in Lookups!CacheKeys
    BY DEF QueryInv, RequestsOK
  <2>2. /\ asked'[r].key = asked[r].key /\ asked' \in [Requests -> RequestType]
        /\ \A s \in Requests \ {r} : asked'[s] = asked[s]
    BY <1>1, <1>2, <2>1 DEF RequestType
  <2> QED BY <1>2, <2>1, <2>2 DEF RequestsOK, k
<1>4. /\ flight[f].step \in {"free", "done"} /\ Lookups!CallsOf(f) = {}
      /\ \A q \in Lookups!CacheKeys : inflight[q] # f
  <2>1. inflight \in [Lookups!CacheKeys -> Flights \cup {0}] /\ f \notin Range(inflight)
    BY SameOperators, <1>1 DEF Lookups!Forgotten, QueryInv, TableOK
  <2> QED BY <1>1, <2>1 DEF Lookups!Forgotten, Lookups!Unfinished, Range
<1>5. /\ flight' \in [Flights -> FlightType]
      /\ flight'[f].step = "new" /\ flight'[f].key = k
      /\ \A g \in Flights \ {f} : flight'[g] = flight[g]
  BY <1>1, <1>2 DEF QueryInv, ServiceInv, FlightsOK, FlightType, Steps
<1>6. FlightsOK' /\ LookupOK' /\ QueueOK' /\ Lookups!Calls' = Lookups!Calls
  <2>1. FlightsOK'
    BY <1>2, <1>5 DEF QueryInv, ServiceInv, FlightsOK
  <2>2. LookupOK' /\ QueueOK' /\ Lookups!Calls' = Lookups!Calls
    BY <1>2 DEF QueryInv, ServiceInv, LookupOK, QueueOK, Places, Full, Lookups!Calls
  <2> QED BY <2>1, <2>2
<1>7. LockOK'
  BY <1>1, <1>2, <1>4, <1>5, LockSame DEF QueryInv, ServiceInv
<1>8. \A c \in Lookups!Calls : c.flight # f
  BY <1>4 DEF Lookups!CallsOf
<1>9. OnlyOf(f)
  BY <1>2, <1>5, <1>6 DEF OnlyOf
<1>10. FlightOK(f)'
  <2>1. \A p, kind : Lookups!Call(f, p, kind) \notin Lookups!Calls
    BY <1>8 DEF Lookups!Call
  <2>2. FlightOK(f)
    BY <1>1 DEF QueryInv, ServiceInv, PendingOK
  <2>3. \A p \in Lookups!Players : lookup[f][p] \notin {"name", "data"}
    BY <2>1, <2>2 DEF FlightOK
  <2> QED BY <1>2, <1>5, <2>3 DEF FlightOK
<1>11. CallsOK' /\ PendingOK'
  BY <1>1, <1>6, <1>8, <1>9, <1>10, OthersKept DEF QueryInv
<1>12. Lookups!AnswerEndsFlight
  <2>1. Lookups!Unfinished(f)'
    BY <1>5 DEF Lookups!Unfinished
  <2> QED BY <1>1, <1>5, <2>1, NoneEnds
<1>13. inflight \in [Lookups!CacheKeys -> Flights \cup {0}] /\ IsFiniteSet(Underway)
       /\ activeLoads = Cardinality(Underway)
  BY SameOperators DEF QueryInv, TableOK, Lookups!SharedFlight, Underway
<1>14. /\ inflight' \in [Lookups!CacheKeys -> Flights \cup {0}] /\ inflight'[k] = f
       /\ \A q \in Lookups!CacheKeys \ {k} : inflight'[q] = inflight[q]
  BY <1>1, <1>2, <1>13
<1>15. f # 0 /\ Queries \subseteq Lookups!CacheKeys
  BY <1>1, FlightNumbers DEF Lookups!CacheKeys
<1>16. IsFiniteSet(Underway') /\ activeLoads' = Cardinality(Underway')
  <2>1. CASE k \in Queries
    <3>1. Underway' = Underway \cup {k} /\ k \notin Underway
      BY <1>2, <1>14, <1>15, <2>1 DEF Underway
    <3>2. IsFiniteSet(Underway \cup {k}) /\ Cardinality(Underway \cup {k}) = Cardinality(Underway) + 1
      BY <1>13, <3>1, FS_AddElement
    <3> QED BY <1>2, <1>13, <2>1, <3>1, <3>2 DEF Lookups!Counted
  <2>2. CASE k \notin Queries
    <3>1. Underway' = Underway
      BY <1>14, <1>15, <2>2 DEF Underway
    <3>2. Cardinality(Underway) \in Nat
      BY <1>13, FS_CardinalityType
    <3> QED BY <1>2, <1>13, <2>2, <3>1, <3>2 DEF Lookups!Counted
  <2> QED BY <2>1, <2>2
<1>17. \A g \in Flights : Lookups!Unfinished(g)' => inflight'[flight'[g].key] = g
  <2> SUFFICES ASSUME NEW g \in Flights, Lookups!Unfinished(g)' PROVE inflight'[flight'[g].key] = g
    OBVIOUS
  <2>1. CASE g = f
    BY <1>5, <1>14, <2>1
  <2>2. CASE g # f
    <3>1. flight'[g] = flight[g] /\ Lookups!Unfinished(g)
      BY <1>5, <2>2 DEF Lookups!Unfinished
    <3>2. inflight[flight[g].key] = g /\ flight[g].key \in Lookups!CacheKeys
      BY <3>1 DEF QueryInv, Lookups!SharedFlight, ServiceInv, FlightsOK, Lookups!Unfinished
    <3>3. flight[g].key # k
      BY <1>2, <3>2, FlightNumbers
    <3> QED BY <1>14, <3>1, <3>2, <3>3
  <2> QED BY <2>1, <2>2
<1>18. TableOK' /\ Lookups!SharedFlight'
  BY SameOperators, <1>14, <1>16, <1>17 DEF TableOK, Lookups!SharedFlight, Underway
<1> QED BY <1>3, <1>6, <1>7, <1>11, <1>12, <1>18 DEF QueryInv, ServiceInv

(* The cleanup of a flight that is over clears the entry of no other one.  *)
LEMMA CleanUpStep ==
    ASSUME Lookups!PlayerAssumption, QueryInv, NEW f \in Flights, Lookups!CleanUp(f)
    PROVE  QueryInv' /\ Lookups!AnswerEndsFlight
<1> DEFINE k == flight[f].key
<1>1. /\ flight[f].step = "done" /\ inflight[k] = f
      /\ inflight' = [inflight EXCEPT ![k] = 0]
      /\ activeLoads' = activeLoads - Lookups!Counted(k)
      /\ UNCHANGED <<Lookups!requests, Lookups!service>>
  BY DEF Lookups!CleanUp
<1>2. ServiceKept
  BY <1>1, ServiceRests DEF QueryInv, Lookups!service
<1>3. k \in Lookups!CacheKeys
  BY <1>1 DEF QueryInv, ServiceInv, FlightsOK
<1>4. inflight \in [Lookups!CacheKeys -> Flights \cup {0}] /\ IsFiniteSet(Underway)
      /\ activeLoads = Cardinality(Underway)
  BY SameOperators DEF QueryInv, TableOK, Lookups!SharedFlight, Underway
<1> HIDE DEF k
<1>5. /\ inflight' \in [Lookups!CacheKeys -> Flights \cup {0}] /\ inflight'[k] = 0
      /\ \A q \in Lookups!CacheKeys \ {k} : inflight'[q] = inflight[q]
  BY <1>1, <1>3, <1>4
<1>6. f # 0 /\ Queries \subseteq Lookups!CacheKeys
  BY FlightNumbers DEF Lookups!CacheKeys
<1>7. IsFiniteSet(Underway') /\ activeLoads' = Cardinality(Underway')
  <2>1. Cardinality(Underway) \in Nat
    BY <1>4, FS_CardinalityType
  <2>2. CASE k \in Queries
    <3>1. Underway' = Underway \ {k} /\ k \in Underway
      BY <1>1, <1>5, <1>6, <2>2 DEF Underway
    <3>2. IsFiniteSet(Underway \ {k}) /\ Cardinality(Underway \ {k}) = Cardinality(Underway) - 1
      BY <1>4, <3>1, FS_RemoveElement
    <3> QED BY <1>1, <1>4, <2>2, <3>1, <3>2 DEF Lookups!Counted
  <2>3. CASE k \notin Queries
    <3>1. Underway' = Underway
      BY <1>5, <1>6, <2>3 DEF Underway
    <3> QED BY <1>1, <1>4, <2>1, <2>3, <3>1 DEF Lookups!Counted
  <2> QED BY <2>2, <2>3
<1>8. \A g \in Flights : Lookups!Unfinished(g)' => inflight'[flight'[g].key] = g
  <2> SUFFICES ASSUME NEW g \in Flights, Lookups!Unfinished(g)' PROVE inflight'[flight'[g].key] = g
    OBVIOUS
  <2>1. flight' = flight /\ Lookups!Unfinished(g) /\ g # f
    BY <1>1 DEF Lookups!service, Lookups!Unfinished
  <2>2. inflight[flight[g].key] = g /\ flight[g].key \in Lookups!CacheKeys
    BY <2>1 DEF QueryInv, Lookups!SharedFlight, ServiceInv, FlightsOK, Lookups!Unfinished
  <2>3. flight[g].key # k
    BY <1>1, <2>1, <2>2
  <2> QED BY <1>5, <2>1, <2>2, <2>3
<1>9. RequestsOK'
  BY <1>1 DEF Lookups!requests, QueryInv, RequestsOK
<1>10. TableOK' /\ Lookups!SharedFlight'
  BY SameOperators, <1>5, <1>7, <1>8 DEF TableOK, Lookups!SharedFlight, Underway
<1> QED BY <1>2, <1>9, <1>10 DEF QueryInv, ServiceKept

(* Every step keeps the invariant, and ends a flight by an answer only.    *)
LEMMA QueryStep ==
    ASSUME Lookups!PlayerAssumption, QueryInv, [Lookups!Next]_Lookups!vars
    PROVE  QueryInv' /\ Lookups!AnswerEndsFlight
<1>1. ASSUME NEW r \in Requests, Lookups!Start(r) \/ Lookups!Handle(r) \/ Lookups!GoAway(r)
      PROVE  QueryInv' /\ Lookups!AnswerEndsFlight
  BY <1>1, RequestMoves, LaunchStep DEF Lookups!Handle
<1>2. ASSUME NEW f \in Flights, Lookups!Advance(f)
      PROVE  QueryInv' /\ Lookups!AnswerEndsFlight
  <2>1. CASE Lookups!CleanUp(f)
    BY <2>1, CleanUpStep
  <2>2. CASE Lookups!BeginPlayers(f) \/ Lookups!TakeSkillLock(f) \/ Lookups!BeginFinance(f)
    <3>1. ServiceKept
      BY <2>2, BeginPlayersStep, TakeSkillLockStep, BeginFinanceStep DEF QueryInv
    <3>2. UNCHANGED <<Lookups!requests, Lookups!flights>>
      BY <2>2 DEF Lookups!BeginPlayers, Lookups!TakeSkillLock, Lookups!BeginFinance
    <3> QED BY <3>1, <3>2, TableStays DEF ServiceKept
  <2> QED BY <1>2, <2>1, <2>2 DEF Lookups!Advance
<1>3. ASSUME NEW c \in running, Lookups!CallEnds(c)
      PROVE  QueryInv' /\ Lookups!AnswerEndsFlight
  <2>1. ServiceKept
    <3>1. CASE Lookups!SkillStep(c)
      BY <3>1, SkillsAnsweredStep, SkillsRejectedStep DEF QueryInv, Lookups!SkillStep
    <3>2. CASE Lookups!LookupStep(c)
      BY <3>2, LookupStepKeeps DEF QueryInv
    <3>3. CASE Lookups!FinanceStep(c)
      BY <3>3, FinanceStepKeeps DEF QueryInv
    <3> QED BY <1>3, <3>1, <3>2, <3>3 DEF Lookups!CallEnds
  <2>2. UNCHANGED <<Lookups!requests, Lookups!flights>>
    BY <1>3 DEF Lookups!CallEnds, Lookups!SkillStep, Lookups!SkillsAnswered, Lookups!SkillsRejected,
       Lookups!LookupStep, Lookups!FinanceStep
  <2> QED BY <2>1, <2>2, TableStays DEF ServiceKept
<1>4. ASSUME Lookups!CacheExpires \/ Lookups!SkillsExpire \/ UNCHANGED Lookups!vars
      PROVE  QueryInv' /\ Lookups!AnswerEndsFlight
  <2>1. UNCHANGED <<asked, Lookups!flights, flight, lookup, skillLock, running, waiting>>
    BY <1>4 DEF Lookups!CacheExpires, Lookups!SkillsExpire, Lookups!vars, Lookups!requests,
       Lookups!service
  <2>2. ServiceKept
    BY <2>1, ServiceRests DEF QueryInv
  <2>3. RequestsOK' /\ TableOK' /\ Lookups!SharedFlight'
    BY <2>1 DEF Lookups!flights, QueryInv, RequestsOK, TableOK, Underway, Lookups!SharedFlight,
       Lookups!Unfinished
  <2> QED BY <2>2, <2>3 DEF QueryInv, ServiceKept
<1> QED BY <1>1, <1>2, <1>3, <1>4 DEF Lookups!Next

LEMMA QueryInit ==
    ASSUME Lookups!PlayerAssumption, Lookups!Init
    PROVE  QueryInv
<1>1. RequestsOK
  BY DEF Lookups!Init, RequestsOK, RequestType, Lookups!NoRequest
<1>2. FlightsOK /\ \A f \in Flights : flight[f].step = "free"
  BY DEF Lookups!Init, FlightsOK, FlightType, Lookups!NoFlight, Steps
<1>3. LookupOK /\ \A f \in Flights : \A p \in Lookups!Players : lookup[f][p] = "none"
  BY DEF Lookups!Init, LookupOK
<1>4. Underway = {} /\ inflight \in [Lookups!CacheKeys -> Flights \cup {0}]
  BY DEF Lookups!Init, Underway, Lookups!CacheKeys
<1>5. TableOK /\ Lookups!SharedFlight
  BY SameOperators, <1>2, <1>4, FS_EmptySet DEF Lookups!Init, TableOK, Lookups!SharedFlight, Underway,
     Lookups!Unfinished
<1>6. running = {} /\ waiting = <<>> /\ skillLock = <<>> /\ Lookups!Calls = {}
  BY SameOperators, ShortLines DEF Lookups!Init, Lookups!Calls
<1>7. QueueOK
  <2>1. Cardinality({}) <= Concurrency /\ IsFiniteSet({})
    BY FS_EmptySet DEF Lookups!PlayerAssumption
  <2> QED BY <1>6, <2>1, ShortLines DEF QueueOK, Places, Full
<1>8. LockOK
  BY <1>2, <1>6, ShortLines DEF LockOK
<1>9. CallsOK /\ PendingOK
  BY <1>2, <1>3, <1>6 DEF CallsOK, PendingOK, FlightOK
<1> QED BY <1>1, <1>2, <1>3, <1>5, <1>7, <1>8, <1>9 DEF QueryInv, ServiceInv

LEMMA QueryAlways ==
    ASSUME Lookups!PlayerAssumption
    PROVE  Lookups!Spec => []QueryInv
<1>1. Lookups!Init => QueryInv
  BY QueryInit
<1>2. QueryInv /\ [Lookups!Next]_Lookups!vars => QueryInv'
  BY QueryStep
<1> QED BY <1>1, <1>2, PTL DEF Lookups!Spec

-----------------------------------------------------------------------------
(* What the invariant gives.                                               *)

LEMMA FlightsShare ==
    ASSUME Lookups!PlayerAssumption
    PROVE  Lookups!Spec => []Lookups!SharedFlight
<1>1. QueryInv => Lookups!SharedFlight
  BY DEF QueryInv
<1> QED BY <1>1, QueryAlways, PTL

LEMMA FlightsGoOn ==
    ASSUME Lookups!PlayerAssumption
    PROVE  Lookups!Spec => []Lookups!NothingStuck
<1>1. ASSUME QueryInv PROVE Lookups!NothingStuck
  <2>1. ASSUME NEW f \in Flights, Lookups!Unfinished(f)
        PROVE  flight[f].step = "new" \/ f \in Range(skillLock) \/ Lookups!CallsOf(f) # {}
    <3>1. flight[f].step \in {"new", "skills", "fetching", "lookups", "profile", "museum"}
          /\ FlightOK(f) /\ lookup[f] \in [Lookups!Players -> {"none", "name", "data"}]
      BY <1>1, <2>1 DEF QueryInv, ServiceInv, FlightsOK, FlightType, Steps, Lookups!Unfinished, PendingOK,
         LookupOK
    <3>2. \A p, kind : Lookups!Call(f, p, kind) \in Lookups!Calls => Lookups!CallsOf(f) # {}
      BY DEF Lookups!CallsOf, Lookups!Call
    <3>3. CASE flight[f].step \in {"skills", "fetching"}
      BY <1>1, <3>3 DEF QueryInv, ServiceInv, LockOK
    <3>4. CASE flight[f].step \in {"profile", "museum"}
      BY <3>1, <3>2, <3>4 DEF FlightOK
    <3>5. CASE flight[f].step = "lookups"
      <4>1. PICK p \in Lookups!Players : lookup[f][p] # "none"
        BY <3>1, <3>5 DEF FlightOK
      <4>2. lookup[f][p] = "name" \/ lookup[f][p] = "data"
        BY <3>1, <4>1
      <4> QED BY <3>1, <3>2, <4>2 DEF FlightOK
    <3> QED BY <3>1, <3>3, <3>4, <3>5
  <2>2. ASSUME skillLock # <<>>
        PROVE  \/ flight[Head(skillLock)].step = "skills"
               \/ Lookups!Call(Head(skillLock), Nobody, "skills") \in Lookups!Calls
    <3>1. skillLock \in Seq(Flights) /\ Len(skillLock) \in Nat \ {0} /\ Head(skillLock) = skillLock[1]
      BY <1>1, <2>2, EmptySeq DEF QueryInv, ServiceInv, LockOK
    <3>2. 1 \in 1..Len(skillLock)
      BY <3>1
    <3>3. skillLock[1] \in Flights
      BY <3>1, <3>2, ElementOfSeq
    <3>4. flight[skillLock[1]].step \in {"skills", "fetching"}
      BY <1>1, <3>2 DEF QueryInv, ServiceInv, LockOK
    <3> QED BY <1>1, <3>1, <3>3, <3>4 DEF QueryInv, ServiceInv, PendingOK, FlightOK
  <2>3. waiting # <<>> => Cardinality(running) = Concurrency
    BY <1>1 DEF QueryInv, ServiceInv, QueueOK, Full
  <2> QED BY SameOperators, <2>1, <2>2, <2>3 DEF Lookups!NothingStuck
<1>2. QueryInv => Lookups!NothingStuck
  BY <1>1
<1> QED BY <1>2, QueryAlways, PTL

LEMMA FlightsEnd ==
    ASSUME Lookups!PlayerAssumption
    PROVE  Lookups!Spec => Lookups!EndsByAnswer
<1>1. QueryInv /\ [Lookups!Next]_Lookups!vars => Lookups!AnswerEndsFlight
  BY QueryStep
<1>2. QueryInv /\ [Lookups!Next]_Lookups!vars => [Lookups!AnswerEndsFlight]_Lookups!vars
  BY <1>1
<1> QED BY <1>2, QueryAlways, PTL DEF Lookups!Spec, Lookups!EndsByAnswer

-----------------------------------------------------------------------------
\* A behaviour of Services is one of this part, or leaves it out.
LEMMA LookupsApart == PartsSpec => (Lookups!Spec /\ [](part = "players")) \/ [](part # "players")
<1> DEFINE all == <<part, vars, metricsVars, playerVars, auctionVars, backupVars, scrubVars>>
<1>1. PartsInit => (part = "players" => Lookups!Init)
  BY DEF PartsInit
<1>2. ASSUME part = "players", [PartsNext]_all
      PROVE  part' = "players" /\ [Lookups!Next]_(Lookups!vars)
  <2>1. CASE PartsNext
    BY <1>2, <2>1 DEF PartsNext
  <2>2. CASE UNCHANGED all
    BY <2>2, <1>2 DEF playerVars, Lookups!vars, Lookups!requests, Lookups!flights, Lookups!service
  <2> QED BY <1>2, <2>1, <2>2
<1>3. ASSUME part # "players", [PartsNext]_all
      PROVE  part' # "players"
  BY <1>3 DEF PartsNext
<1>4. part = "players" /\ [PartsNext]_all => (part = "players")' /\ [Lookups!Next]_(Lookups!vars)
  BY <1>2
<1>5. part # "players" /\ [PartsNext]_all => (part # "players")'
  BY <1>3
<1>6. part = "players" \/ part # "players"
  OBVIOUS
<1> QED BY <1>1, <1>4, <1>5, <1>6, PTL DEF PartsSpec, Lookups!Spec

(* Requests for one query share its flight: while one is under way the     *)
(* table names it, so that no second can begin, also when clients go away  *)
(* and when its cleanup races with a new request; and the gauge of active  *)
(* loads counts what the table has.                                        *)
THEOREM EqualQueriesShare == PartsSpec => []SharedFlight
<1>1. Lookups!Spec => []Lookups!SharedFlight
  BY FlightsShare, PartAssumptions
<1>2. (Lookups!SharedFlight => SharedFlight) /\ (part # "players" => SharedFlight)
  BY DEF SharedFlight
<1> QED BY <1>1, <1>2, LookupsApart, PTL

(* Whatever fails, a flight that is under way has a call that will be      *)
(* answered, or waits for the skill lock of one that has; and calls wait   *)
(* for the semaphore only while others hold all of it.                     *)
THEOREM NoFlightIsStuck == PartsSpec => []NothingStuck
<1>1. Lookups!Spec => []Lookups!NothingStuck
  BY FlightsGoOn, PartAssumptions
<1>2. (Lookups!NothingStuck => NothingStuck) /\ (part # "players" => NothingStuck)
  BY DEF NothingStuck
<1> QED BY <1>1, <1>2, LookupsApart, PTL

(* A flight ends by an answer to one of its own calls: neither a client    *)
(* that goes away nor another flight's failure ends it.                    *)
THEOREM AnswersEndFlights == PartsSpec => EndsByAnswer
<1>1. Lookups!Spec => Lookups!EndsByAnswer
  BY FlightsEnd, PartAssumptions
<1>2. [Lookups!AnswerEndsFlight]_(Lookups!vars)
        => [part = "players" => Lookups!AnswerEndsFlight]_playerVars
  BY DEF Lookups!vars, Lookups!requests, Lookups!flights, Lookups!service, playerVars
<1>3. part # "players" => [part = "players" => Lookups!AnswerEndsFlight]_playerVars
  OBVIOUS
<1> QED BY <1>1, <1>2, <1>3, LookupsApart, PTL DEF EndsByAnswer, Lookups!EndsByAnswer
=============================================================================
