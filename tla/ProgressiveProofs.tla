------------------------- MODULE ProgressiveProofs -------------------------
(***************************************************************************)
(* Proofs about the first answer and about progressive retrieval, for any  *)
(* reports, requests and logs, and for any limits of answers and pages.    *)
(***************************************************************************)
EXTENDS Progressive, FiniteSetTheorems, SequenceTheorems, WellFoundedInduction, TLAPS

-----------------------------------------------------------------------------
(* Sets of numbers.                                                        *)

\* A set of numbers that is not empty has a least one.
LEMMA LeastExists ==
    ASSUME NEW X \in SUBSET Nat, X # {}
    PROVE  \E x \in X : \A y \in X : x <= y
<1> DEFINE Less == OpToRel(<, Nat)
<1> HIDE DEF Less
<1>1. PICK x \in X : \A y \in X : <<y, x>> \notin Less
  <2>1. IsWellFoundedOn(Less, Nat)  BY NatLessThanWellFounded DEF Less
  <2> QED  BY <2>1, WFMin
<1>2. \A i, j \in Nat : <<i, j>> \in Less <=> i < j  BY DEF Less, OpToRel
<1>3. \A y \in X : ~(y < x)  BY <1>1, <1>2
<1> QED  BY <1>3

\* The least element of a set is in it and bounds it.
LEMMA MinOf ==
    ASSUME NEW X \in SUBSET Nat, X # {}
    PROVE  Min(X) \in X /\ \A y \in X : Min(X) <= y
BY LeastExists DEF Min

\* So does the greatest of a bounded set.
LEMMA MaxOf ==
    ASSUME NEW X \in SUBSET Nat, X # {}, NEW n \in Nat, \A x \in X : x <= n
    PROVE  Max(X) \in X /\ \A y \in X : y <= Max(X)
<1> DEFINE bounds == {k \in Nat : \A x \in X : x <= k}
<1>1. bounds \in SUBSET Nat /\ bounds # {}  OBVIOUS
<1>2. PICK b \in bounds : \A k \in bounds : b <= k
  <2> HIDE DEF bounds
  <2> QED  BY <1>1, LeastExists
<1>3. b \in X
  <2> SUFFICES ASSUME b \notin X PROVE FALSE  OBVIOUS
  <2>1. \A x \in X : x <= b - 1  OBVIOUS
  <2>2. PICK x \in X : TRUE  OBVIOUS
  <2>3. b - 1 \in bounds  BY <2>1, <2>2
  <2> QED  BY <1>2, <2>3
<1>4. \A y \in X : y <= b  OBVIOUS
<1> QED  BY <1>3, <1>4 DEF Max

\* The n-th element of a set has n elements up to itself.
LEMMA NthOf ==
    ASSUME NEW m \in Nat, NEW S \in SUBSET (1..m), NEW n \in 1..Cardinality(S)
    PROVE  Nth(S, n) \in S /\ Cardinality({j \in S : j <= Nth(S, n)}) = n
<1> DEFINE upto(k) == {j \in S : j <= k}
           enough == {k \in 0..m : n <= Cardinality(upto(k))}
<1>0. \A j \in S : j \in Nat /\ 1 <= j /\ j <= m  OBVIOUS
<1>1. IsFiniteSet(S) /\ \A k \in 0..m : IsFiniteSet(upto(k)) /\ Cardinality(upto(k)) \in Nat
  <2>1. IsFiniteSet(S)
    <3>1. IsFiniteSet(1..m)  BY FS_Interval
    <3> QED  BY <3>1, FS_Subset
  <2>2. \A k \in 0..m : upto(k) \in SUBSET S  OBVIOUS
  <2> QED  BY <2>1, <2>2, FS_Subset, FS_CardinalityType
<1>2. Cardinality(S) \in Nat /\ n \in Nat /\ 1 <= n /\ n <= Cardinality(S)
  BY <1>1, FS_CardinalityType
<1>3. m \in enough
  <2>1. upto(m) = S  BY <1>0
  <2> QED  BY <2>1, <1>2
<1>4. PICK k \in enough : \A l \in enough : k <= l
  <2> HIDE DEF enough
  <2>1. enough \subseteq Nat  BY DEF enough
  <2> QED  BY <2>1, <1>3, LeastExists
<1>5. k # 0
  <2>1. upto(0) = {}
    <3>1. \A j \in S : ~(j <= 0)  BY <1>0
    <3> QED  BY <3>1
  <2> QED  BY <2>1, FS_EmptySet, <1>2
<1>6. k - 1 \in 0..m /\ Cardinality(upto(k - 1)) < n
  <2>1. k - 1 \in 0..m  BY <1>5
  <2>2. Cardinality(upto(k - 1)) \in Nat  BY <2>1, <1>1
  <2>3. k - 1 \notin enough
    <3>1. ~(k <= k - 1)  OBVIOUS
    <3> QED  BY <1>4, <3>1
  <2> QED  BY <2>1, <2>2, <2>3, <1>2
<1>7. k \in S
  <2> SUFFICES ASSUME k \notin S PROVE FALSE  OBVIOUS
  <2>1. \A j \in S : j <= k <=> j <= k - 1  BY <1>0
  <2>0. upto(k) = upto(k - 1)  BY <2>1
  <2> QED  BY <2>0, <1>1, <1>2, <1>4, <1>6
<1>8. Cardinality(upto(k)) = n
  <2>0. \A j \in S : j <= k <=> j <= k - 1 \/ j = k  BY <1>0
  <2>1. \A j : j \in upto(k) <=> j \in upto(k - 1) \/ j = k  BY <2>0, <1>0, <1>7
  <2>2. upto(k) = upto(k - 1) \union {k}  BY <2>1
  <2>3. k \notin upto(k - 1)
    <3>1. ~(k <= k - 1)  OBVIOUS
    <3> QED  BY <3>1
  <2>4. Cardinality(upto(k)) = Cardinality(upto(k - 1)) + 1
    <3> HIDE DEF upto
    <3> QED  BY <2>2, <2>3, <1>1, <1>6, FS_AddElement
  <2>5. n <= Cardinality(upto(k)) /\ Cardinality(upto(k - 1)) \in Nat  BY <1>1, <1>4, <1>6
  <2> QED
    <3> HIDE DEF upto
    <3> QED  BY <2>4, <2>5, <1>2, <1>6
<1> QED  BY <1>7, <1>8 DEF Nth

-----------------------------------------------------------------------------
(* The failed checks of a report.                                          *)

AnyCheck == Checked(Ids, Logs)

\* A report as evidence.ReadRun accepts it.
Sane(r) ==
    r \in Report(Ids, Logs) /\ IsInjective([i \in DOMAIN r.checks |-> r.checks[i].id])

\* The types of a report's fields.
LEMMA ReportFacts ==
    ASSUME NEW r \in Report(Ids, Logs)
    PROVE  /\ r.stored \in BOOLEAN /\ r.overall \in Status /\ r.code \in 0..2 /\ r.base \in Nat
           /\ r.checks \in Seq(AnyCheck)
BY DEF Report, AnyCheck

\* The types of a check's fields.
LEMMA CheckFacts ==
    ASSUME NEW c \in AnyCheck
    PROVE  /\ c.id \in Ids /\ c.status \in Status /\ c.blocking \in BOOLEAN /\ c.text \in Nat
           /\ c.findings \in Seq(Nat) /\ c.paths \in Nat /\ c.log \in Logs \union {None}
           /\ c.outputTruncated \in BOOLEAN
BY DEF Checked, AnyCheck

\* What has failed is a sequence of checks in which each stands once.
LEMMA FailedFacts ==
    ASSUME NEW r, Sane(r)
    PROVE  /\ Failed(r) \in Seq(AnyCheck)
           /\ \A i, j \in 1..Len(Failed(r)) : Failed(r)[i].id = Failed(r)[j].id => i = j
<1> DEFINE S == {i \in DOMAIN r.checks : Unresolved(r.checks[i])}
           m == Len(r.checks)
           nth(n) == Nth(S, n)
<1>1. r.checks \in Seq(AnyCheck)  BY ReportFacts DEF Sane
<1>2. m \in Nat /\ DOMAIN r.checks = 1..m /\ \A i \in 1..m : r.checks[i] \in AnyCheck
  BY <1>1, LenProperties, ElementOfSeq
<1>3. S \in SUBSET (1..m) /\ Cardinality(S) \in Nat
  <2>1. S \in SUBSET (1..m)  BY <1>2
  <2>2. IsFiniteSet(1..m)  BY <1>2, FS_Interval
  <2> HIDE DEF S, m
  <2> QED  BY <2>1, <2>2, FS_Subset, FS_CardinalityType
<1>4. \A n \in 1..Cardinality(S) : nth(n) \in S /\ Cardinality({j \in S : j <= nth(n)}) = n
  <2> HIDE DEF S, m
  <2> QED  BY <1>2, <1>3, NthOf
<1>5. Failed(r) = [n \in 1..Cardinality(S) |-> r.checks[nth(n)]]
  BY DEF Failed
<1>6. \A n \in 1..Cardinality(S) : nth(n) \in 1..m
  <2> HIDE DEF S, m, nth
  <2> QED  BY <1>3, <1>4
<1>7. Failed(r) \in Seq(AnyCheck) /\ Len(Failed(r)) = Cardinality(S)
  <2> HIDE DEF S, m, nth
  <2> QED  BY <1>2, <1>3, <1>5, <1>6
<1>8. ASSUME NEW i \in 1..Cardinality(S), NEW j \in 1..Cardinality(S), Failed(r)[i].id = Failed(r)[j].id
      PROVE  i = j
  <2>1. Failed(r)[i] = r.checks[nth(i)] /\ Failed(r)[j] = r.checks[nth(j)]
    <3> HIDE DEF S, m, nth
    <3> QED  BY <1>5
  <2>2. nth(i) \in 1..m /\ nth(j) \in 1..m  BY <1>6
  <2>3. nth(i) = nth(j)
    <3> HIDE DEF S, m, nth
    <3> DEFINE ids == [k \in DOMAIN r.checks |-> r.checks[k].id]
    <3>1. \A a, b \in DOMAIN ids : ids[a] = ids[b] => a = b  BY DEF Sane, IsInjective
    <3> QED  BY <1>2, <1>8, <2>1, <2>2, <3>1
  <2> HIDE DEF S, m, nth
  <2> QED  BY <1>4, <2>3
<1> QED
  <2> HIDE DEF S, m, nth
  <2> QED  BY <1>7, <1>8

\* An ID leads to the failed check that has it.
LEMMA CheckOf ==
    ASSUME NEW r, Sane(r), NEW i \in 1..Len(Failed(r))
    PROVE  Failing(r, Failed(r)[i].id) # {} /\ Check(r, Failed(r)[i].id) = Failed(r)[i]
<1>1. DOMAIN Failed(r) = 1..Len(Failed(r))  BY FailedFacts, LenProperties
<1>2. Failing(r, Failed(r)[i].id) = {i}  BY <1>1, FailedFacts DEF Failing
<1> QED  BY <1>2 DEF Check

\* Evidence that is removed leaves the report as it was.
LEMMA RemovedSane ==
    ASSUME NEW r, Sane(r), NEW s, s = [r EXCEPT !.stored = FALSE]
    PROVE  Sane(s) /\ s.checks = r.checks /\ Failed(s) = Failed(r)
<1>1. s \in Report(Ids, Logs) /\ s.checks = r.checks  BY DEF Sane, Report
<1> QED  BY <1>1 DEF Sane, Failed

-----------------------------------------------------------------------------
(* The first answer that fits.                                             *)

\* What FirstFit returns is one of the answers, or the refusal.
LEMMA FirstFitOf ==
    ASSUME NEW A, NEW s \in Seq(A), NEW l, l = [i \in DOMAIN s |-> l[i]], NEW o
    PROVE  FirstFit(s, l, o) = o \/ \E i \in 1..Len(s) : FirstFit(s, l, o) = s[i]
<1> DEFINE I == {i \in 1..Len(l) : l[i] <= MaxResult}
<1>1. Len(l) = Len(s) /\ Len(s) \in Nat
  <2> DEFINE T == {l[i] : i \in DOMAIN s}
  <2>1. Len(s) \in Nat /\ DOMAIN s = 1..Len(s)  BY LenProperties
  <2>2. l \in [1..Len(s) -> T]
    <3>1. \A i \in DOMAIN s : l[i] \in T  OBVIOUS
    <3> HIDE DEF T
    <3> QED  BY <2>1, <3>1
  <2> HIDE DEF T
  <2> QED  BY <2>1, <2>2
<1>2. I \in SUBSET Nat  BY <1>1
<1>3. CASE I = {}
  BY <1>3 DEF FirstFit, SelectInSeq
<1>4. CASE I # {}
  <2>1. Min(I) \in I
    <3> HIDE DEF I
    <3> QED  BY <1>2, <1>4, MinOf
  <2>2. Min(I) \in 1..Len(s) /\ Min(I) # 0  BY <2>1, <1>1
  <2>3. FirstFit(s, l, o) = s[Min(I)]  BY <1>4, <2>2 DEF FirstFit, SelectInSeq
  <2> QED  BY <2>2, <2>3
<1> QED  BY <1>3, <1>4

\* The cuts of a collection: one fewer each time, down to none.
LEMMA Downto0Of ==
    ASSUME NEW n \in Nat
    PROVE  /\ Downto0(n) \in Seq(0..(n - 1)) /\ Len(Downto0(n)) = n
           /\ DOMAIN Downto0(n) = 1..n /\ (Downto0(n) = <<>> <=> n = 0)
<1>1. Downto0(n) \in [1..n -> 0..(n - 1)]  BY DEF Downto0
<1>2. Downto0(n) \in Seq(0..(n - 1)) /\ Len(Downto0(n)) = n /\ DOMAIN Downto0(n) = 1..n
  BY <1>1
<1>3. Downto0(n) = <<>> <=> n = 0  BY <1>2, EmptySeq
<1> QED  BY <1>2, <1>3

\* What Encode makes of an answer: the answer, or one without some of its items,
\* or a failure without items and without some of its references, or a refusal.
Bare(a) == IF Len(a.items) = 0 THEN a ELSE WithItems(a, 0)

Encoded(a, e) ==
    \/ e = Rejected(a.op, "result_encoding_failed")
    \/ e = a
    \/ a.op # "evidence" /\ \E n \in 0..(Len(a.items) - 1) : e = WithItems(a, n)
    \/ a.op = "failure" /\ \E n \in 0..(a.paths - 1) : e = WithPaths(Bare(a), n)

\* Encode gives the answer, one of its cuts, or the refusal.
LEMMA EncodeCases ==
    ASSUME NEW a, a.accepted, a.op # "evidence" => Len(a.items) \in Nat,
           a.op = "failure" => a.paths \in Nat
    PROVE  Encoded(a, Encode(a))
<1> DEFINE items == IF a.op = "evidence" THEN <<>> ELSE Downto0(Len(a.items))
           paths == IF a.op = "failure" THEN Downto0(a.paths) ELSE <<>>
           bare == IF items = <<>> THEN a ELSE WithItems(a, 0)
           byItems == [i \in DOMAIN items |-> WithItems(a, items[i])]
           byPaths == [i \in DOMAIN paths |-> WithPaths(bare, paths[i])]
           A == {a} \union {byItems[i] : i \in DOMAIN items} \union {byPaths[i] : i \in DOMAIN paths}
           answers == Shortened(a)
           lengths == [i \in DOMAIN answers |-> PageBytes(answers[i])]
           other == Rejected(a.op, "result_encoding_failed")
<1>1. /\ items \in Seq(Nat)
      /\ \A i \in DOMAIN items : a.op # "evidence" /\ items[i] \in 0..(Len(a.items) - 1)
      /\ a.op # "evidence" => (items = <<>> <=> Len(a.items) = 0)
  <2>1. CASE a.op = "evidence"  BY <2>1
  <2>2. CASE a.op # "evidence"
    <3>1. Len(a.items) \in Nat  BY <2>2
    <3>2. items = Downto0(Len(a.items))  BY <2>2
    <3>3. items \in Seq(0..(Len(a.items) - 1)) /\ (items = <<>> <=> Len(a.items) = 0)
      BY <3>1, <3>2, Downto0Of
    <3> HIDE DEF items
    <3> QED  BY <2>2, <3>1, <3>3
  <2> QED  BY <2>1, <2>2
<1>2. /\ paths \in Seq(Nat)
      /\ \A i \in DOMAIN paths : a.op = "failure" /\ paths[i] \in 0..(a.paths - 1)
  <2>1. CASE a.op # "failure"  BY <2>1
  <2>2. CASE a.op = "failure"
    <3>1. a.paths \in Nat /\ paths = Downto0(a.paths)  BY <2>2
    <3>2. paths \in Seq(0..(a.paths - 1))  BY <3>1, Downto0Of
    <3> HIDE DEF paths
    <3> QED  BY <2>2, <3>1, <3>2
  <2> QED  BY <2>1, <2>2
<1>3. a.op = "failure" => bare = Bare(a)
  BY <1>1 DEF Bare
<1>4. answers = <<a>> \o byItems \o byPaths
  BY DEF Shortened
<1>5. answers \in Seq(A) /\ \A i \in 1..Len(answers) : answers[i] \in A
  <2>1. byItems \in Seq(A)
    <3>1. DOMAIN byItems = 1..Len(items) /\ Len(items) \in Nat  BY <1>1
    <3>2. \A i \in DOMAIN byItems : byItems[i] \in A  OBVIOUS
    <3>3. byItems \in [1..Len(items) -> A]
      <4>1. byItems = [i \in 1..Len(items) |-> byItems[i]]  BY <3>1
      <4> HIDE DEF byItems, A, items
      <4> QED  BY <3>1, <3>2, <4>1
    <3> HIDE DEF byItems, A, items
    <3> QED  BY <3>1, <3>3
  <2>2. byPaths \in Seq(A)
    <3>1. DOMAIN byPaths = 1..Len(paths) /\ Len(paths) \in Nat  BY <1>2
    <3>2. \A i \in DOMAIN byPaths : byPaths[i] \in A  OBVIOUS
    <3>3. byPaths \in [1..Len(paths) -> A]
      <4>1. byPaths = [i \in 1..Len(paths) |-> byPaths[i]]  BY <3>1
      <4> HIDE DEF byPaths, A, paths
      <4> QED  BY <3>1, <3>2, <4>1
    <3> HIDE DEF byPaths, A, paths
    <3> QED  BY <3>1, <3>3
  <2>3. <<a>> \in Seq(A)  OBVIOUS
  <2> HIDE DEF byItems, byPaths, A, answers
  <2>4. answers \in Seq(A)  BY <1>4, <2>1, <2>2, <2>3
  <2> QED  BY <2>4
<1>6. Encode(a) = FirstFit(answers, lengths, other)
  BY DEF Encode
<1>7. Encode(a) = other \/ Encode(a) \in A
  <2>1. lengths = [i \in DOMAIN answers |-> lengths[i]]  OBVIOUS
  <2> HIDE DEF answers, lengths, other, A
  <2> QED  BY <1>5, <1>6, <2>1, FirstFitOf
<1>8. \A i \in DOMAIN items : byItems[i] = WithItems(a, items[i])  OBVIOUS
<1>9. \A i \in DOMAIN paths : byPaths[i] = WithPaths(bare, paths[i])  OBVIOUS
<1>10. \/ Encode(a) = other \/ Encode(a) = a
       \/ \E i \in DOMAIN items : Encode(a) = byItems[i]
       \/ \E i \in DOMAIN paths : Encode(a) = byPaths[i]
  <2> HIDE DEF other, byItems, byPaths, items, paths
  <2> QED  BY <1>7
<1> QED
  <2> HIDE DEF byItems, byPaths, items, paths, bare
  <2> QED  BY <1>1, <1>2, <1>3, <1>8, <1>9, <1>10 DEF Encoded

-----------------------------------------------------------------------------
(* What the answers say.                                                   *)

\* The limits are positive.
LEMMA Limits ==
    /\ MaxFailurePage \in Nat \ {0} /\ MaxFindingPage \in Nat \ {0} /\ MaxRawChunk \in Nat \ {0}
    /\ MaxEvidencePaths \in Nat \ {0} /\ MaxFailureItems \in Nat \ {0} /\ MaxChecks \in Nat \ {0}
    /\ MaxText \in Nat \ {0} /\ MaxFailureFindings \in Nat \ {0}
BY LimitsAssumption

\* A function on 1..n is a sequence of length n.
LEMMA FunctionIsSeq ==
    ASSUME NEW A, NEW n \in Nat, NEW f \in [1..n -> A]
    PROVE  f \in Seq(A) /\ Len(f) = n /\ DOMAIN f = 1..n
OBVIOUS

\* A page is a part of the sequence.
LEMMA PageOf ==
    ASSUME NEW A, NEW s \in Seq(A), NEW from \in Nat, from <= Len(s), NEW max \in Nat \ {0}
    PROVE  LET page == Page(s, from, max)
           IN  /\ page \in Seq(A) /\ Len(page) = Least(max, Len(s) - from)
               /\ DOMAIN page = 1..Len(page)
               /\ \A i \in 1..Len(page) : page[i] = s[from + i]
<1> DEFINE last == Least(from + max, Len(s))
           page == Page(s, from, max)
<1>1. Len(s) \in Nat /\ last \in Nat /\ last <= Len(s) /\ last - from = Least(max, Len(s) - from)
      /\ from <= last
  BY LenProperties DEF Least
<1>2. page = SubSeq(s, from + 1, last)  BY DEF Page
<1>3. \A i \in (from + 1)..last : s[i] \in A  BY <1>1, ElementOfSeq
<1> HIDE DEF page, last
<1>4. /\ page \in Seq(A) /\ Len(page) = last - from
      /\ \A i \in 1..(last - from) : page[i] = s[from + i]
  BY <1>1, <1>2, <1>3, SubSeqProperties
<1>5. DOMAIN page = 1..Len(page)  BY <1>4, LenProperties
<1> QED  BY <1>1, <1>4, <1>5 DEF page

\* The next page begins behind the items of this one, which is full before it.
LEMMA FollowingPage ==
    ASSUME NEW op, NEW from \in Nat, NEW max \in Nat, NEW total \in Nat, NEW n \in Nat,
           from + max < total => n = max, ~(from + max < total) => from + n = total
    PROVE  Following(op, from, max, total) =
               IF from + n < total THEN [op |-> op, offset |-> from + n] ELSE None
BY DEF Following

\* Parts of answers are parts of what they are made from.
LEMMA PartOf ==
    ASSUME NEW A, NEW s \in Seq(A), NEW k \in Nat, k <= Len(s)
    PROVE  /\ SubSeq(s, 1, k) \in Seq(A) /\ Len(SubSeq(s, 1, k)) = k
           /\ DOMAIN SubSeq(s, 1, k) = 1..k
           /\ \A i \in 1..k : SubSeq(s, 1, k)[i] = s[i]
<1>1. Len(s) \in Nat  BY LenProperties
<1>2. \A i \in 1..k : s[i] \in A  BY <1>1, ElementOfSeq
<1>3. /\ SubSeq(s, 1, k) \in Seq(A) /\ Len(SubSeq(s, 1, k)) = k
      /\ \A i \in 1..k : SubSeq(s, 1, k)[i] = s[i]
  BY <1>1, <1>2, SubSeqProperties
<1> QED  BY <1>3, LenProperties

\* Of the failed checks a page tells as many as it says, in the order of the
\* report from where it was asked to begin, and sends the agent where it ends.
ListSays(r, from, e) ==
    /\ from \in Nat /\ e.op = "failures" /\ e.offset = from /\ e.total = Len(Failed(r))
    /\ e.returned \in Nat /\ from + e.returned <= Len(Failed(r))
    /\ DOMAIN e.items = 1..e.returned /\ Len(e.items) = e.returned
    /\ \A i \in 1..e.returned : e.items[i].id = Failed(r)[from + i].id
    /\ e.truncated <=> from + e.returned < Len(Failed(r))
    /\ e.next = IF from + e.returned < Len(Failed(r))
                THEN [op |-> "failures", offset |-> from + e.returned] ELSE None

\* The list of failures: whichever cut fits, its items are those from the
\* offset on, its counts are theirs, and next goes on behind the last of them.
LEMMA ListAnswer ==
    ASSUME NEW r, Sane(r), NEW id, NEW from \in Int,
           NEW e \in Command(r, "failures", id, from), e.accepted
    PROVE  ListSays(r, from, e)
<1> DEFINE F == Failed(r)
           page == Page(F, from, MaxFailurePage)
           a == Failures(r, from)
           following == Following("failures", from, MaxFailurePage, Len(F))
           items == [i \in DOMAIN page |-> FailureFromCheck(page[i])]
<1>1. e = Encode(a)  BY DEF Command
<1>2. a.accepted
  <2> SUFFICES ASSUME ~a.accepted PROVE FALSE  OBVIOUS
  <2>1. Encode(a) = a  BY DEF Encode
  <2> HIDE DEF a
  <2> QED  BY <1>1, <2>1
<1>3. /\ from \in Nat /\ from <= Len(F)
      /\ a = [op |-> "failures", accepted |-> TRUE, code |-> 0, overall |-> r.overall,
              base |-> r.base, offset |-> from, truncated |-> following # None,
              next |-> following, total |-> Len(F), returned |-> Len(page), items |-> items]
  BY <1>2 DEF Failures, Rejected, ValidOffset
<1>4. F \in Seq(AnyCheck) /\ Len(F) \in Nat  BY FailedFacts, LenProperties
<1>5. /\ page \in Seq(AnyCheck) /\ Len(page) = Least(MaxFailurePage, Len(F) - from)
      /\ DOMAIN page = 1..Len(page)
      /\ \A i \in 1..Len(page) : page[i] = F[from + i]
  <2>1. from \in Nat /\ from <= Len(F) /\ MaxFailurePage \in Nat \ {0}  BY <1>3, Limits
  <2> HIDE DEF F
  <2> QED  BY <1>4, <2>1, PageOf
<1>6. Len(page) \in Nat /\ from + Len(page) <= Len(F) /\ Len(page) <= MaxFailurePage
      /\ (from + MaxFailurePage < Len(F) => Len(page) = MaxFailurePage)
      /\ (~(from + MaxFailurePage < Len(F)) => from + Len(page) = Len(F))
  BY <1>3, <1>4, <1>5, Limits DEF Least
<1>7. /\ items \in Seq([id : Ids, text : Int]) /\ Len(items) = Len(page) /\ DOMAIN items = 1..Len(page)
      /\ \A i \in 1..Len(page) : items[i].id = F[from + i].id
  <2>1. \A i \in 1..Len(page) : page[i] \in AnyCheck  BY <1>5, <1>6, ElementOfSeq
  <2>2. \A i \in 1..Len(page) : FailureFromCheck(page[i]) \in [id : Ids, text : Int]
    BY <2>1, CheckFacts, Limits DEF FailureFromCheck, Bounded, Least
  <2>3. \A i \in 1..Len(page) : items[i].id = page[i].id  BY <1>5 DEF FailureFromCheck
  <2>4. items \in [1..Len(page) -> [id : Ids, text : Int]]  BY <1>5, <2>2
  <2> HIDE DEF items, page
  <2>5. items \in Seq([id : Ids, text : Int]) /\ Len(items) = Len(page)  BY <1>6, <2>4, FunctionIsSeq
  <2>6. \A i \in 1..Len(page) : items[i].id = F[from + i].id  BY <1>5, <2>3
  <2> QED  BY <2>4, <2>5, <2>6
<1>8. following = IF from + Len(page) < Len(F)
                  THEN [op |-> "failures", offset |-> from + Len(page)] ELSE None
  <2> DEFINE n == Len(page)
             total == Len(F)
  <2> HIDE DEF n, total
  <2>1. /\ from \in Nat /\ n \in Nat /\ total \in Nat
        /\ (from + MaxFailurePage < total => n = MaxFailurePage)
        /\ (~(from + MaxFailurePage < total) => from + n = total)
    BY <1>3, <1>4, <1>6 DEF n, total
  <2>2. Following("failures", from, MaxFailurePage, total) =
            IF from + n < total THEN [op |-> "failures", offset |-> from + n] ELSE None
    BY <2>1, Limits, FollowingPage
  <2> QED  BY <2>2 DEF n, total
<1>9. following # None <=> from + Len(page) < Len(F)
  BY <1>3, <1>6, <1>8, NoneAssumption
<1>10. Encoded(a, e)
  <2> HIDE DEF items, page, F, following
  <2>1. Len(a.items) \in Nat /\ a.op = "failures"  BY <1>3, <1>6, <1>7
  <2> HIDE DEF a
  <2> QED  BY <1>1, <1>2, <2>1, EncodeCases
<1> HIDE DEF items, page, F, following, a
<1>11. CASE e = a
  BY <1>3, <1>6, <1>7, <1>8, <1>9, <1>11 DEF ListSays, F
<1>12. ASSUME NEW n \in 0..(Len(a.items) - 1), e = WithItems(a, n)
       PROVE  ListSays(r, from, e)
  <2>1. n \in Nat /\ n < Len(page)  BY <1>3, <1>6, <1>7
  <2>2. e = [op |-> "failures", accepted |-> TRUE, code |-> 0, overall |-> r.overall,
              base |-> r.base, offset |-> from, truncated |-> TRUE,
              next |-> [op |-> "failures", offset |-> from + n], total |-> Len(F), returned |-> n,
              items |-> SubSeq(items, 1, n)]
    BY <1>3, <1>12 DEF WithItems
  <2>3. /\ Len(SubSeq(items, 1, n)) = n /\ DOMAIN SubSeq(items, 1, n) = 1..n
        /\ \A i \in 1..n : SubSeq(items, 1, n)[i] = items[i]
    BY <1>6, <1>7, <2>1, PartOf
  <2>4. from + n < Len(F) /\ \A i \in 1..n : i \in 1..Len(page)  BY <1>3, <1>4, <1>6, <2>1
  <2> QED  BY <1>3, <1>7, <2>1, <2>2, <2>3, <2>4 DEF ListSays, F
<1>13. a.op = "failures" /\ e # Rejected(a.op, "result_encoding_failed")
  BY <1>3 DEF Rejected
<1> QED  BY <1>10, <1>11, <1>12, <1>13 DEF Encoded

\* A detail gives as many of the findings as it says, in order, from where it
\* was asked to begin, and sends the agent where they end; what it says of the
\* references is so as well.
FindingsSaid(c, from, e) ==
    LET there == from + e.returned
    IN  /\ from \in Nat /\ e.op = "failure" /\ e.offset = from /\ e.total = Len(c.findings)
        /\ e.returned \in Nat /\ there <= Len(c.findings)
        /\ e.items \in Seq(Nat) /\ Len(e.items) = e.returned
        /\ \A i \in 1..e.returned : e.items[i] = Bounded(c.findings[from + i])
        /\ e.available <=> c.log # None
        /\ e.paths \in Nat /\ e.pathsTotal \in Nat /\ e.pathsReturned = e.paths
        /\ e.paths <= e.pathsTotal
        /\ e.truncated <=> there < Len(c.findings) \/ e.paths < e.pathsTotal
        /\ there < Len(c.findings) => e.next = [op |-> "failure", offset |-> there]
        /\ there = Len(c.findings) => e.next = None \/ e.next = [op |-> "evidence", offset |-> 0]

DetailSays(r, id, from, e) ==
    Failing(r, id) # {} /\ Check(r, id) \in AnyCheck /\ FindingsSaid(Check(r, id), from, e)

Fields(c, d, from, k, s, p, cut, to) ==
    /\ d.op = "failure" /\ d.offset = from /\ d.total = Len(c.findings)
    /\ d.available = RawEvidenceAvailable(c)
    /\ d.pathsTotal = c.paths /\ d.paths = p /\ d.pathsReturned = p
    /\ d.returned = k /\ d.items = s /\ d.truncated = cut /\ d.next = to

Due(c, from, k, s, p, cut, to) ==
    /\ from \in Nat /\ k \in Nat /\ s \in Seq(Nat) /\ p \in Nat
    /\ from + k <= Len(c.findings) /\ Len(s) = k /\ c.paths \in Nat /\ p <= c.paths
    /\ \A i \in 1..k : s[i] = Bounded(c.findings[from + i])
    /\ cut <=> from + k < Len(c.findings) \/ p < c.paths
    /\ from + k < Len(c.findings) => to = [op |-> "failure", offset |-> from + k]
    /\ from + k = Len(c.findings) => to = None \/ to = [op |-> "evidence", offset |-> 0]

\* Fields and what is due of them make up what is said of findings.
LEMMA Given ==
    ASSUME NEW c, NEW e, NEW from, NEW k, NEW s, NEW p, NEW cut, NEW to,
           Fields(c, e, from, k, s, p, cut, to), Due(c, from, k, s, p, cut, to)
    PROVE  FindingsSaid(c, from, e)
<1>1. /\ e.op = "failure" /\ e.offset = from /\ e.total = Len(c.findings)
      /\ e.available = RawEvidenceAvailable(c)
      /\ e.pathsTotal = c.paths /\ e.paths = p /\ e.pathsReturned = p
      /\ e.returned = k /\ e.items = s /\ e.truncated = cut /\ e.next = to
  BY DEF Fields
<1> QED  BY <1>1 DEF FindingsSaid, RawEvidenceAvailable, Due

\* The check that a detail is about is one of the report.
LEMMA FailingCheck ==
    ASSUME NEW r, Sane(r), NEW id, Failing(r, id) # {}
    PROVE  Check(r, id) \in AnyCheck
<1>1. PICK i \in DOMAIN Failed(r) : Failed(r)[i].id = id  BY DEF Failing
<1>2. i \in 1..Len(Failed(r)) /\ Failed(r)[i] \in AnyCheck
  BY FailedFacts, LenProperties, ElementOfSeq
<1> QED  BY <1>1, <1>2, CheckOf

\* A text that is cut has a length.
LEMMA BoundedType == \A n \in Nat : Bounded(n) \in Nat
BY Limits DEF Bounded, Least

\* One failure: whichever cut fits, likewise, and its evidence is counted.
LEMMA DetailAnswer ==
    ASSUME NEW r, Sane(r), NEW id, NEW from \in Int,
           NEW e \in Command(r, "failure", id, from), e.accepted
    PROVE  DetailSays(r, id, from, e)
<1> DEFINE c == Check(r, id)
           page == Page(c.findings, from, MaxFindingPage)
           paths == Least(c.paths, MaxEvidencePaths)
           available == RawEvidenceAvailable(c)
           a == FailureDetail(r, id, from)
           following == Following("failure", from, MaxFindingPage, Len(c.findings))
           log == IF paths < c.paths /\ available THEN [op |-> "evidence", offset |-> 0] ELSE None
           next == IF following # None THEN following ELSE log
           N == Len(c.findings)
           cut == following # None \/ paths < c.paths
           items == Texts(page)
<1>1. e = Encode(a)  BY DEF Command
<1>2. a.accepted
  <2> SUFFICES ASSUME ~a.accepted PROVE FALSE  OBVIOUS
  <2>1. Encode(a) = a  BY DEF Encode
  <2> HIDE DEF a
  <2> QED  BY <1>1, <2>1
<1>3. /\ from \in Nat /\ from <= N /\ Failing(r, id) # {}
      /\ a = [op |-> "failure", accepted |-> TRUE, code |-> 0, overall |-> r.overall,
              base |-> r.base, offset |-> from,
              truncated |-> cut, next |-> next,
              total |-> N, returned |-> Len(page), items |-> items,
              failure |-> FailureFromCheck(c), available |-> available,
              paths |-> paths, pathsTotal |-> c.paths, pathsReturned |-> paths]
  BY <1>2 DEF FailureDetail, Rejected, ValidOffset
<1>4. c \in AnyCheck /\ c.findings \in Seq(Nat) /\ N \in Nat /\ c.paths \in Nat
  BY <1>3, FailingCheck, CheckFacts, LenProperties
<1> HIDE DEF c
<1>5. /\ page \in Seq(Nat) /\ Len(page) = Least(MaxFindingPage, N - from)
      /\ DOMAIN page = 1..Len(page)
      /\ \A i \in 1..Len(page) : page[i] = c.findings[from + i]
  BY <1>3, <1>4, PageOf, Limits, SMTT(30)
<1>6. Len(page) \in Nat /\ from + Len(page) <= N /\ Len(page) <= MaxFindingPage
      /\ (from + MaxFindingPage < N => Len(page) = MaxFindingPage)
      /\ (~(from + MaxFindingPage < N) => from + Len(page) = N)
  <2> HIDE DEF page, N
  <2> QED  BY <1>3, <1>4, <1>5, Limits DEF Least
<1>7. /\ items \in Seq(Nat) /\ Len(items) = Len(page)
      /\ \A i \in 1..Len(page) : items[i] = Bounded(c.findings[from + i])
  <2>1. \A i \in 1..Len(page) : page[i] \in Nat  BY <1>5, <1>6, ElementOfSeq
  <2>2. items = [i \in 1..Len(page) |-> Bounded(page[i])]  BY <1>5 DEF Texts
  <2> HIDE DEF items, page
  <2>3. items \in [1..Len(page) -> Nat]  BY <2>1, <2>2, BoundedType
  <2>4. items \in Seq(Nat) /\ Len(items) = Len(page)  BY <1>6, <2>3, FunctionIsSeq
  <2> QED  BY <1>5, <2>2, <2>4
<1>8. following = IF from + Len(page) < N
                  THEN [op |-> "failure", offset |-> from + Len(page)] ELSE None
  <2> DEFINE n == Len(page)
  <2> HIDE DEF n, N
  <2>1. /\ from \in Nat /\ n \in Nat /\ N \in Nat
        /\ (from + MaxFindingPage < N => n = MaxFindingPage)
        /\ (~(from + MaxFindingPage < N) => from + n = N)
    BY <1>3, <1>4, <1>6 DEF n
  <2>2. Following("failure", from, MaxFindingPage, N) =
            IF from + n < N THEN [op |-> "failure", offset |-> from + n] ELSE None
    BY <2>1, Limits, FollowingPage
  <2> QED  BY <2>2 DEF n, N
<1>9. following # None <=> from + Len(page) < N
  BY <1>3, <1>6, <1>8, NoneAssumption
<1>10. paths \in Nat /\ paths <= c.paths  BY <1>4, Limits DEF Least
<1>11. /\ from + Len(page) < N => next = [op |-> "failure", offset |-> from + Len(page)]
       /\ from + Len(page) = N => next = None \/ next = [op |-> "evidence", offset |-> 0]
  BY <1>4, <1>6, <1>8, <1>9
<1>12. available <=> c.log # None  BY DEF RawEvidenceAvailable
<1>13. Encoded(a, e)
  <2> HIDE DEF items, page, following, next, paths, available
  <2>1. Len(a.items) \in Nat /\ a.paths \in Nat  BY <1>3, <1>6, <1>7, <1>10
  <2> HIDE DEF a
  <2> QED  BY <1>1, <1>2, <2>1, EncodeCases
<1> HIDE DEF items, page, following, next, a, paths, log
<1>14. ASSUME e = a PROVE FindingsSaid(c, from, e)
  <2>1. Fields(c, e, from, Len(page), items, paths, cut, next)
    BY <1>3, <1>14 DEF Fields
  <2>2. \A i \in 1..Len(page) : items[i] = Bounded(c.findings[from + i])  BY <1>7
  <2>3. Due(c, from, Len(page), items, paths, cut, next)
    BY <1>3, <1>4, <1>6, <1>7, <1>9, <1>10, <1>11, <2>2 DEF Due
  <2> HIDE DEF cut
  <2> QED  BY <2>1, <2>3, Given
<1>15. ASSUME NEW n \in Nat, n < Len(page), e = WithItems(a, n)
       PROVE  FindingsSaid(c, from, e)
  <2>1. Fields(c, e, from, n, SubSeq(items, 1, n), paths, TRUE, [op |-> "failure", offset |-> from + n])
    BY <1>3, <1>15 DEF WithItems, Fields
  <2>2. /\ SubSeq(items, 1, n) \in Seq(Nat) /\ Len(SubSeq(items, 1, n)) = n
        /\ \A i \in 1..n : SubSeq(items, 1, n)[i] = Bounded(c.findings[from + i])
    <3>1. \A i \in 1..n : i \in 1..Len(page)  BY <1>6, <1>15
    <3>2. n <= Len(items)  BY <1>6, <1>7, <1>15
    <3>3. /\ SubSeq(items, 1, n) \in Seq(Nat) /\ Len(SubSeq(items, 1, n)) = n
          /\ \A i \in 1..n : SubSeq(items, 1, n)[i] = items[i]
      BY <1>7, <3>2, PartOf
    <3> QED  BY <1>7, <3>1, <3>3
  <2>3. from + n < N  BY <1>3, <1>4, <1>6, <1>15
  <2>4. Due(c, from, n, SubSeq(items, 1, n), paths, TRUE, [op |-> "failure", offset |-> from + n])
    BY <1>3, <1>4, <1>10, <1>15, <2>2, <2>3 DEF Due
  <2> QED  BY <2>1, <2>4, Given
<1>16. ASSUME NEW n \in Nat, n < paths, e = WithPaths(a, n), Len(page) = 0
       PROVE  FindingsSaid(c, from, e)
  <2>1. Fields(c, e, from, Len(page), items, n, TRUE, next)
    BY <1>3, <1>16 DEF WithPaths, Fields
  <2>2. from + Len(page) = N  BY <1>3, <1>4, <1>5, <1>6, <1>16, Limits
  <2>3. n < c.paths  BY <1>4, <1>10, <1>16
  <2>4. Due(c, from, Len(page), items, n, TRUE, next)
    BY <1>3, <1>4, <1>6, <1>7, <1>11, <1>16, <2>2, <2>3 DEF Due
  <2> QED  BY <2>1, <2>4, Given
<1>17. ASSUME NEW n \in Nat, n < paths, e = WithPaths(WithItems(a, 0), n), Len(page) # 0
       PROVE  FindingsSaid(c, from, e)
  <2>1. Fields(c, e, from, 0, SubSeq(items, 1, 0), n, TRUE, [op |-> "failure", offset |-> from + 0])
    BY <1>3, <1>17 DEF WithPaths, WithItems, Fields
  <2>2. SubSeq(items, 1, 0) \in Seq(Nat) /\ Len(SubSeq(items, 1, 0)) = 0
    BY <1>6, <1>7, PartOf
  <2>3. from + 0 < N /\ n < c.paths  BY <1>3, <1>4, <1>6, <1>10, <1>17
  <2>4. Due(c, from, 0, SubSeq(items, 1, 0), n, TRUE, [op |-> "failure", offset |-> from + 0])
    BY <1>3, <1>4, <1>17, <2>2, <2>3 DEF Due
  <2> QED  BY <2>1, <2>4, Given
<1>18. c \in AnyCheck /\ Failing(r, id) # {}  BY <1>3, <1>4
<1>19. /\ a.op = "failure" /\ e # Rejected(a.op, "result_encoding_failed")
       /\ Len(a.items) = Len(page) /\ a.paths = paths
  BY <1>3, <1>7 DEF Rejected
<1>20. FindingsSaid(c, from, e)
  <2>1. CASE a.op # "evidence" /\ \E n \in 0..(Len(a.items) - 1) : e = WithItems(a, n)
    BY <1>6, <1>15, <1>19, <2>1
  <2>2. ASSUME NEW n \in 0..(a.paths - 1), e = WithPaths(Bare(a), n)
        PROVE  FindingsSaid(c, from, e)
    <3>1. n \in Nat /\ n < paths  BY <1>10, <1>19
    <3>2. CASE Len(page) = 0
      <4>1. Bare(a) = a  BY <1>19, <3>2 DEF Bare
      <4> QED  BY <1>16, <2>2, <3>1, <3>2, <4>1
    <3>3. CASE Len(page) # 0
      <4>1. Bare(a) = WithItems(a, 0)  BY <1>19, <3>3 DEF Bare
      <4> QED  BY <1>17, <2>2, <3>1, <3>3, <4>1
    <3> QED  BY <3>2, <3>3
  <2> QED  BY <1>13, <1>14, <1>19, <2>1, <2>2 DEF Encoded
<1>21. c = Check(r, id)  BY DEF c
<1> QED  BY <1>18, <1>20, <1>21 DEF DetailSays

\* A page of a log shows what it may of the bytes that it says it is made from,
\* and sends the agent where they end.
LogSays(r, id, from, e) ==
    LET log == Check(r, id).log
        stop == from + e.returned
    IN  /\ Failing(r, id) # {} /\ log \in Logs
        /\ from \in Nat /\ e.op = "evidence" /\ e.offset = from /\ e.total = Len(log)
        /\ e.returned \in Nat /\ stop = Least(from + MaxRawChunk, Len(log))
        /\ e.shown = Shown(log, from, stop)
        /\ e.id = id
        /\ e.truncated <=> stop < Len(log) \/ Check(r, id).outputTruncated
        /\ e.next = IF stop < Len(log) THEN [op |-> "evidence", offset |-> stop] ELSE None

\* A log is a sequence of bytes, and something.
LEMMA LogFacts ==
    ASSUME NEW log \in Logs
    PROVE  /\ log \in Seq(Byte) /\ Len(log) \in Nat /\ DOMAIN log = 1..Len(log)
           /\ log # None
<1>1. log \in Seq(Byte)  BY LogsAssumption
<1> QED  BY <1>1, LenProperties, NoneAssumption

\* A page of a log says how far it goes, and next goes on from there.
LEMMA LogAnswer ==
    ASSUME NEW r, Sane(r), NEW id, NEW from \in Int,
           NEW e \in Command(r, "evidence", id, from), e.accepted
    PROVE  LogSays(r, id, from, e)
<1> DEFINE log == Check(r, id).log
           stop == from + ReadRawFragment(log, from).returned
           a == SelectedEvidence(r, id, from)
<1>1. e = Encode(a)  BY DEF Command
<1>2. a.accepted
  <2> SUFFICES ASSUME ~a.accepted PROVE FALSE  OBVIOUS
  <2>1. Encode(a) = a  BY DEF Encode
  <2> HIDE DEF a
  <2> QED  BY <1>1, <2>1
<1>3. /\ from \in Nat /\ from <= Len(log) /\ Failing(r, id) # {} /\ log # None
      /\ a = [op |-> "evidence", accepted |-> TRUE, code |-> 0, overall |-> r.overall,
              base |-> r.base, offset |-> from,
              truncated |-> stop < Len(log) \/ Check(r, id).outputTruncated,
              next |-> IF stop < Len(log) THEN [op |-> "evidence", offset |-> stop] ELSE None,
              total |-> ReadRawFragment(log, from).total,
              returned |-> ReadRawFragment(log, from).returned,
              shown |-> ReadRawFragment(log, from).shown, id |-> id]
  BY <1>2 DEF SelectedEvidence, Rejected, ValidOffset, RawEvidenceAvailable
<1>4. log \in Logs
  <2>1. Check(r, id) \in AnyCheck  BY <1>3, FailingCheck
  <2> QED  BY <1>3, <2>1, CheckFacts
<1>5. /\ stop = Least(from + MaxRawChunk, Len(log))
      /\ ReadRawFragment(log, from).total = Len(log)
      /\ ReadRawFragment(log, from).returned = stop - from
      /\ ReadRawFragment(log, from).shown = Shown(log, from, stop)
      /\ stop \in Nat /\ from <= stop
  <2>1. Len(log) \in Nat  BY <1>4, LogFacts
  <2>2. Least(from + MaxRawChunk, Len(log)) \in Nat /\ from <= Least(from + MaxRawChunk, Len(log))
    BY <1>3, <2>1, Limits DEF Least
  <2>3. stop = Least(from + MaxRawChunk, Len(log))  BY <1>3, <2>2 DEF ReadRawFragment
  <2> QED  BY <1>3, <2>2, <2>3 DEF ReadRawFragment
<1> HIDE DEF log, stop
<1>6. Encoded(a, e)
  <2>1. a.op = "evidence"  BY <1>3
  <2> HIDE DEF a
  <2> QED  BY <1>1, <1>2, <2>1, EncodeCases
<1> HIDE DEF a
<1>7. e = a
  BY <1>3, <1>6 DEF Encoded, Rejected
<1>8. /\ e.op = "evidence" /\ e.offset = from /\ e.total = Len(log) /\ e.returned = stop - from
      /\ e.shown = Shown(log, from, stop) /\ e.id = id
      /\ (e.truncated <=> stop < Len(log) \/ Check(r, id).outputTruncated)
      /\ e.next = IF stop < Len(log) THEN [op |-> "evidence", offset |-> stop] ELSE None
  BY <1>3, <1>5, <1>7
<1>9. from + e.returned = stop /\ e.returned \in Nat  BY <1>3, <1>5, <1>8
<1> QED  BY <1>3, <1>4, <1>5, <1>8, <1>9 DEF LogSays, log

-----------------------------------------------------------------------------
(* The first answer.                                                       *)

\* The first elements of a sequence.
LEMMA CutOf ==
    ASSUME NEW A, NEW s \in Seq(A), NEW n \in Nat
    PROVE  /\ Cut(s, n) \in Seq(A) /\ Len(Cut(s, n)) = Least(n, Len(s))
           /\ DOMAIN Cut(s, n) = 1..Least(n, Len(s))
           /\ \A i \in 1..Least(n, Len(s)) : Cut(s, n)[i] = s[i]
<1>1. Len(s) \in Nat /\ Least(n, Len(s)) \in Nat /\ Least(n, Len(s)) <= Len(s)
  BY LenProperties DEF Least
<1> QED  BY <1>1, PartOf DEF Cut

\* The length of a function on 1..n.
LEMMA LenOf ==
    ASSUME NEW n \in Nat, NEW f, f = [i \in 1..n |-> f[i]]
    PROVE  Len(f) = n
<1> DEFINE A == {f[i] : i \in 1..n}
<1>1. \A i \in 1..n : f[i] \in A  OBVIOUS
<1> HIDE DEF A
<1>2. f \in [1..n -> A]  BY <1>1
<1> QED  BY <1>2, FunctionIsSeq

\* The IDs of a sequence of checks, in its order.
LEMMA IdsFacts ==
    ASSUME NEW s \in Seq(AnyCheck)
    PROVE  /\ IdsOf(s) \in Seq(Ids) /\ Len(IdsOf(s)) = Len(s) /\ DOMAIN IdsOf(s) = 1..Len(s)
           /\ \A i \in 1..Len(s) : IdsOf(s)[i] = s[i].id
<1>1. DOMAIN s = 1..Len(s) /\ Len(s) \in Nat  BY LenProperties
<1>2. \A i \in 1..Len(s) : s[i].id \in Ids  BY <1>1, ElementOfSeq, CheckFacts
<1>3. IdsOf(s) = [i \in 1..Len(s) |-> s[i].id]  BY <1>1 DEF IdsOf
<1>4. IdsOf(s) \in [1..Len(s) -> Ids]  BY <1>2, <1>3
<1> QED  BY <1>1, <1>3, <1>4, FunctionIsSeq

\* The first answer names the first checks of the report and the first of those
\* that failed.
FirstSays(r, e) ==
    /\ IdsOf(e.checks) = Cut(IdsOf(r.checks), MaxChecks)
    /\ IdsOf(e.failures) = Cut(IdsOf(Failed(r)), MaxFailureItems)

\* Items made of the first checks have their IDs.
LEMMA CutIds ==
    ASSUME NEW s \in Seq(AnyCheck), NEW n \in Nat, NEW t,
           DOMAIN t = DOMAIN Cut(s, n), \A i \in DOMAIN t : t[i].id = Cut(s, n)[i].id
    PROVE  IdsOf(t) = Cut(IdsOf(s), n)
<1> DEFINE k == Least(n, Len(s))
<1>1. Len(s) \in Nat /\ k \in 0..Len(s)  BY LenProperties DEF Least
<1>2. /\ DOMAIN Cut(s, n) = 1..k /\ \A i \in 1..k : Cut(s, n)[i] = s[i]
  BY CutOf
<1>3. IdsOf(t) = [i \in 1..k |-> s[i].id]  BY <1>2 DEF IdsOf
<1>4. /\ DOMAIN Cut(IdsOf(s), n) = 1..k /\ \A i \in 1..k : Cut(IdsOf(s), n)[i] = IdsOf(s)[i]
      /\ Cut(IdsOf(s), n) \in Seq(Ids)
  BY IdsFacts, CutOf
<1>5. Cut(IdsOf(s), n) = [i \in 1..k |-> s[i].id]
  <2>1. \A i \in 1..k : IdsOf(s)[i] = s[i].id  BY <1>1, IdsFacts
  <2>2. Cut(IdsOf(s), n) \in [1..k -> Ids]  BY <1>1, <1>4
  <2> HIDE DEF k
  <2> QED  BY <1>4, <2>1, <2>2
<1> QED  BY <1>3, <1>5

\* The first answer, before it is cut, has the first checks and failures.
LEMMA WholeAnswer ==
    ASSUME NEW r, Sane(r)
    PROVE  LET v == NewVerificationResult(r)
           IN  /\ v.op = "verify" /\ v.accepted = TRUE /\ v.truncated = FALSE /\ v.next = None
               /\ v.class = None
               /\ FirstSays(r, v)
               /\ Len(v.checks) = Least(MaxChecks, Len(r.checks)) /\ DOMAIN v.checks = 1..Len(v.checks)
               /\ \A i \in DOMAIN v.checks : v.checks[i] = Summary(r.checks[i])
               /\ Len(v.failures) = Least(MaxFailureItems, Len(Failed(r)))
               /\ DOMAIN v.failures = 1..Len(v.failures)
               /\ \A i \in DOMAIN v.failures : v.failures[i] = Item(Failed(r)[i])
<1> DEFINE v == NewVerificationResult(r)
           checks == Cut(r.checks, MaxChecks)
           failures == Cut(Failed(r), MaxFailureItems)
<1>1. r.checks \in Seq(AnyCheck) /\ Failed(r) \in Seq(AnyCheck)
  BY FailedFacts, ReportFacts DEF Sane
<1>2. /\ v.op = "verify" /\ v.accepted = TRUE /\ v.truncated = FALSE /\ v.next = None
      /\ v.class = None
  BY DEF NewVerificationResult
<1>3. v.checks = [i \in DOMAIN checks |-> Summary(checks[i])]
  BY DEF NewVerificationResult
<1>4. v.failures = [i \in DOMAIN failures |-> Item(failures[i])]
  BY DEF NewVerificationResult
<1> HIDE DEF v
<1>5. \A i \in DOMAIN checks : v.checks[i].id = checks[i].id
  BY <1>3 DEF Summary
<1>6. \A i \in DOMAIN failures : v.failures[i].id = failures[i].id
  BY <1>4 DEF Item
<1>7. DOMAIN v.checks = DOMAIN checks /\ DOMAIN v.failures = DOMAIN failures
  BY <1>3, <1>4
<1>8. FirstSays(r, v)
  <2>1. IdsOf(v.checks) = Cut(IdsOf(r.checks), MaxChecks)
    BY <1>1, <1>5, <1>7, CutIds, Limits
  <2>2. IdsOf(v.failures) = Cut(IdsOf(Failed(r)), MaxFailureItems)
    BY <1>1, <1>6, <1>7, CutIds, Limits
  <2> QED  BY <2>1, <2>2 DEF FirstSays
<1>9. /\ DOMAIN checks = 1..Least(MaxChecks, Len(r.checks))
      /\ DOMAIN failures = 1..Least(MaxFailureItems, Len(Failed(r)))
      /\ Least(MaxChecks, Len(r.checks)) \in Nat /\ Least(MaxFailureItems, Len(Failed(r))) \in Nat
      /\ \A i \in DOMAIN checks : checks[i] = r.checks[i]
      /\ \A i \in DOMAIN failures : failures[i] = Failed(r)[i]
  <2>1. Len(r.checks) \in Nat /\ Len(Failed(r)) \in Nat  BY <1>1, LenProperties
  <2>2. DOMAIN checks = 1..Least(MaxChecks, Len(r.checks))
        /\ \A i \in DOMAIN checks : checks[i] = r.checks[i]
    BY <1>1, CutOf, Limits
  <2>3. DOMAIN failures = 1..Least(MaxFailureItems, Len(Failed(r)))
        /\ \A i \in DOMAIN failures : failures[i] = Failed(r)[i]
    BY <1>1, CutOf, Limits
  <2>4. Least(MaxChecks, Len(r.checks)) \in Nat /\ Least(MaxFailureItems, Len(Failed(r))) \in Nat
    BY <2>1, Limits DEF Least
  <2> QED  BY <2>2, <2>3, <2>4
<1>10. v.checks = [i \in DOMAIN checks |-> v.checks[i]] /\ v.failures = [i \in DOMAIN failures |-> v.failures[i]]
  BY <1>3, <1>4
<1>13. /\ \A i \in DOMAIN v.checks : v.checks[i] = Summary(r.checks[i])
       /\ \A i \in DOMAIN v.failures : v.failures[i] = Item(Failed(r)[i])
  <2> HIDE DEF checks, failures
  <2> QED  BY <1>3, <1>4, <1>7, <1>9
<1> HIDE DEF checks, failures
<1>11. Len(v.checks) = Least(MaxChecks, Len(r.checks))
  BY <1>9, <1>10, LenOf
<1>12. Len(v.failures) = Least(MaxFailureItems, Len(Failed(r)))
  BY <1>9, <1>10, LenOf
<1> QED  BY <1>2, <1>7, <1>8, <1>9, <1>11, <1>12, <1>13 DEF v

\* So does the answer of `worker verify', which is not cut further.
LEMMA ServedAnswer ==
    ASSUME NEW r, Sane(r), NEW q, NEW standing, NEW e, e = Served(q, standing, r), e.accepted
    PROVE  e.op = "verify" /\ e.class = None /\ FirstSays(r, e)
<1>1. CASE ~DecodeRequest(q)
  BY <1>1 DEF Served, Rejected
<1>2. CASE DecodeRequest(q) /\ standing # "ready"
  BY <1>2 DEF Served, Rejected
<1>3. CASE DecodeRequest(q) /\ standing = "ready"
  BY <1>3, WholeAnswer DEF Served
<1> QED  BY <1>1, <1>2, <1>3

\* What AgentCountsTrue says of an answer that was made of a report.
AgentSays(r, e) ==
    LET checks == IdsOf(r.checks)
        failed == IdsOf(Failed(r))
        short == e.checksReturned < e.checksTotal \/ e.failuresReturned < e.failuresTotal
        Text(i) == e.checks[i].text
    IN  /\ e.checksTotal = Len(checks) /\ e.checksReturned = Len(e.checks)
        /\ e.failuresTotal = Len(failed) /\ e.failuresReturned = Len(e.failures)
        /\ IdsOf(e.checks) = Cut(checks, e.checksReturned)
        /\ IdsOf(e.failures) = Cut(failed, e.failuresReturned)
        /\ e.truncated => short \/ \A i \in DOMAIN e.checks : Text(i) = 0
        /\ ~e.truncated => ~short /\ \A i \in DOMAIN e.checks : Text(i) = Bounded(r.checks[i].text)

\* The first k checks and the first f failures are in an answer, and counted.
HasChecks(r, e, k) ==
    /\ k \in 0..Len(r.checks)
    /\ Len(e.checks) = k /\ DOMAIN e.checks = 1..k
    /\ \A i \in 1..k : e.checks[i].id = r.checks[i].id
    /\ e.checksTotal = Len(r.checks) /\ e.checksReturned = k

HasFailures(r, e, f) ==
    /\ f \in 0..Len(Failed(r))
    /\ Len(e.failures) = f /\ DOMAIN e.failures = 1..f
    /\ \A i \in 1..f : e.failures[i] = Item(Failed(r)[i])
    /\ e.failuresTotal = Len(Failed(r)) /\ e.failuresReturned = f

\* Summaries and items are of the check that they are made of.
LEMMA MadeOf ==
    ASSUME NEW c
    PROVE  /\ Item(c).id = c.id /\ Item(c).findings = Texts(Cut(c.findings, MaxFailureFindings))
           /\ Summary(c).id = c.id /\ Summary(c).text = Bounded(c.text)
           /\ [Summary(c) EXCEPT !.text = 0].id = c.id /\ [Summary(c) EXCEPT !.text = 0].text = 0
BY DEF Item, Summary

\* The fields of a first answer, before it is encoded.
Shaped(w) ==
    w = [op |-> w.op, class |-> w.class, accepted |-> w.accepted, code |-> w.code,
         overall |-> w.overall, base |-> w.base, truncated |-> w.truncated, next |-> w.next,
         checks |-> w.checks, failures |-> w.failures,
         checksTotal |-> w.checksTotal, checksReturned |-> w.checksReturned,
         failuresTotal |-> w.failuresTotal, failuresReturned |-> w.failuresReturned]

LEMMA ShapeOf == \A r : Shaped(NewAgentVerificationResult(r))
<1> SUFFICES ASSUME NEW r PROVE Shaped(NewAgentVerificationResult(r))  OBVIOUS
<1> DEFINE v == NewVerificationResult(r)
           w == NewAgentVerificationResult(r)
<1>1. Shaped(v)  BY DEF NewVerificationResult, Shaped
<1>2. \E short : w = [v EXCEPT !.class = "local-full",
                  !.checksTotal = Len(r.checks), !.checksReturned = Len(v.checks),
                  !.failuresTotal = Len(Failed(r)), !.failuresReturned = Len(v.failures),
                  !.truncated = short, !.next = IF short THEN Retrieve ELSE None]
  BY DEF NewAgentVerificationResult
<1> HIDE DEF v, w
<1>3. Shaped(w)  BY <1>1, <1>2 DEF Shaped
<1> QED  BY <1>3 DEF w

\* The IDs of the first n of a sequence of checks.
LEMMA FirstIds ==
    ASSUME NEW s \in Seq(AnyCheck), NEW n \in 0..Len(s), NEW t,
           DOMAIN t = 1..n, \A i \in 1..n : t[i].id = s[i].id
    PROVE  IdsOf(t) = Cut(IdsOf(s), n)
<1>1. Len(s) \in Nat /\ n \in Nat /\ Least(n, Len(s)) = n  BY LenProperties DEF Least
<1>2. DOMAIN Cut(s, n) = 1..n /\ \A i \in 1..n : Cut(s, n)[i] = s[i]  BY <1>1, CutOf
<1>3. DOMAIN t = DOMAIN Cut(s, n) /\ \A i \in DOMAIN t : t[i].id = Cut(s, n)[i].id  BY <1>2
<1> QED  BY <1>1, <1>3, CutIds

\* An answer that has what it counts, and is marked as it should be, is truthful.
LEMMA AgentParts ==
    ASSUME NEW r, Sane(r), NEW e, NEW k, NEW f, HasChecks(r, e, k), HasFailures(r, e, f),
           e.truncated => \/ k < Len(r.checks) \/ f < Len(Failed(r))
                          \/ \A i \in 1..k : e.checks[i].text = 0,
           ~e.truncated => /\ ~(k < Len(r.checks)) /\ ~(f < Len(Failed(r)))
                           /\ \A i \in 1..k : e.checks[i].text = Bounded(r.checks[i].text)
    PROVE  AgentSays(r, e)
<1>1. r.checks \in Seq(AnyCheck) /\ Failed(r) \in Seq(AnyCheck)
  BY FailedFacts, ReportFacts DEF Sane
<1>2. IdsOf(e.checks) = Cut(IdsOf(r.checks), k)
  <2>1. k \in 0..Len(r.checks) /\ DOMAIN e.checks = 1..k /\ \A i \in 1..k : e.checks[i].id = r.checks[i].id
    BY DEF HasChecks
  <2> QED  BY <1>1, <2>1, FirstIds
<1>3. IdsOf(e.failures) = Cut(IdsOf(Failed(r)), f)
  <2>1. f \in 0..Len(Failed(r)) /\ DOMAIN e.failures = 1..f
    BY DEF HasFailures
  <2>2. \A i \in 1..f : e.failures[i].id = Failed(r)[i].id
    BY MadeOf DEF HasFailures
  <2> QED  BY <1>1, <2>1, <2>2, FirstIds
<1>4. Len(IdsOf(r.checks)) = Len(r.checks) /\ Len(IdsOf(Failed(r))) = Len(Failed(r))
  BY <1>1, IdsFacts
<1>5. /\ e.checksTotal = Len(r.checks) /\ e.checksReturned = k /\ Len(e.checks) = k
      /\ e.failuresTotal = Len(Failed(r)) /\ e.failuresReturned = f /\ Len(e.failures) = f
      /\ DOMAIN e.checks = 1..k
  BY DEF HasChecks, HasFailures
<1> QED  BY <1>2, <1>3, <1>4, <1>5 DEF AgentSays

\* The answer of `verify --agent' before it is cut to fit.
LEMMA UncutAnswer ==
    ASSUME NEW r, Sane(r)
    PROVE  LET w == NewAgentVerificationResult(r)
           IN  /\ w.op = "verify" /\ w.class = "local-full"
               /\ \E k, f : /\ HasChecks(r, w, k) /\ HasFailures(r, w, f)
                            /\ w.truncated <=> k < Len(r.checks) \/ f < Len(Failed(r))
               /\ \A i \in DOMAIN w.checks : w.checks[i] = Summary(r.checks[i])
<1> DEFINE v == NewVerificationResult(r)
           w == NewAgentVerificationResult(r)
           k == Least(MaxChecks, Len(r.checks))
           f == Least(MaxFailureItems, Len(Failed(r)))
<1>1. /\ w.op = v.op /\ w.class = "local-full" /\ w.checks = v.checks /\ w.failures = v.failures
      /\ w.checksTotal = Len(r.checks) /\ w.checksReturned = Len(v.checks)
      /\ w.failuresTotal = Len(Failed(r)) /\ w.failuresReturned = Len(v.failures)
      /\ w.truncated <=> Len(v.checks) < Len(r.checks) \/ Len(v.failures) < Len(Failed(r))
  BY DEF NewAgentVerificationResult, NewVerificationResult
<1>2. /\ v.op = "verify"
      /\ Len(v.checks) = k /\ DOMAIN v.checks = 1..Len(v.checks)
      /\ \A i \in DOMAIN v.checks : v.checks[i] = Summary(r.checks[i])
      /\ Len(v.failures) = f /\ DOMAIN v.failures = 1..Len(v.failures)
      /\ \A i \in DOMAIN v.failures : v.failures[i] = Item(Failed(r)[i])
  BY WholeAnswer
<1> HIDE DEF v, w
<1>3. k \in 0..Len(r.checks) /\ f \in 0..Len(Failed(r))
  <2>1. Len(r.checks) \in Nat /\ Len(Failed(r)) \in Nat
    BY FailedFacts, ReportFacts, LenProperties DEF Sane
  <2> QED  BY <2>1, Limits DEF Least
<1> HIDE DEF k, f
<1>4. HasChecks(r, w, k)
  BY <1>1, <1>2, <1>3, MadeOf DEF HasChecks
<1>5. HasFailures(r, w, f)
  BY <1>1, <1>2, <1>3 DEF HasFailures
<1>6. w.truncated <=> k < Len(r.checks) \/ f < Len(Failed(r))
  BY <1>1, <1>2
<1>7. \A i \in DOMAIN w.checks : w.checks[i] = Summary(r.checks[i])
  BY <1>1, <1>2
<1> QED  BY <1>1, <1>2, <1>4, <1>5, <1>6, <1>7 DEF w

\* EncodeResult gives that answer, one with fewer failures, one without failures
\* and texts and perhaps with fewer checks, or a refusal.
LEMMA EncodeResultCases ==
    ASSUME NEW w, Len(w.failures) \in Nat, Len(w.checks) \in Nat
    PROVE  \/ EncodeResult(w) = Rejected("verify", "result_encoding_failed")
           \/ EncodeResult(w) = w
           \/ \E n \in 0..(Len(w.failures) - 1) : EncodeResult(w) = WithFailures(w, n)
           \/ \E n \in 0..Len(w.checks) : EncodeResult(w) = WithChecks(w, n)
<1> DEFINE failures == Downto0(Len(w.failures))
           checks == <<Len(w.checks)>> \o Downto0(Len(w.checks))
           byFailures == [i \in DOMAIN failures |-> WithFailures(w, failures[i])]
           byChecks == [i \in DOMAIN checks |-> WithChecks(w, checks[i])]
           answers == Shorter(w)
           A == {w} \union {WithFailures(w, n) : n \in 0..(Len(w.failures) - 1)}
                    \union {WithChecks(w, n) : n \in 0..Len(w.checks)}
           other == Rejected("verify", "result_encoding_failed")
<1>1. failures \in Seq(0..(Len(w.failures) - 1))  BY Downto0Of
<1>2. checks \in Seq(0..Len(w.checks))
  <2>1. Downto0(Len(w.checks)) \in Seq(0..(Len(w.checks) - 1))  BY Downto0Of
  <2>2. 0..(Len(w.checks) - 1) \subseteq 0..Len(w.checks)  OBVIOUS
  <2>3. Downto0(Len(w.checks)) \in Seq(0..Len(w.checks))  BY <2>1, <2>2
  <2>4. <<Len(w.checks)>> \in Seq(0..Len(w.checks))  OBVIOUS
  <2> QED  BY <2>3, <2>4
<1>3. answers = <<w>> \o byFailures \o byChecks
  BY DEF Shorter
<1> HIDE DEF failures, checks
<1>4. byFailures \in Seq(A)
  <2>1. DOMAIN failures = 1..Len(failures) /\ Len(failures) \in Nat  BY <1>1, LenProperties
  <2>2. \A i \in DOMAIN failures : failures[i] \in 0..(Len(w.failures) - 1)  BY <1>1, <2>1, ElementOfSeq
  <2>3. \A i \in 1..Len(failures) : WithFailures(w, failures[i]) \in A  BY <2>1, <2>2
  <2> HIDE DEF A
  <2>4. byFailures \in [1..Len(failures) -> A]  BY <2>1, <2>3
  <2> HIDE DEF byFailures
  <2> QED  BY <2>1, <2>4, FunctionIsSeq
<1>5. byChecks \in Seq(A)
  <2>1. DOMAIN checks = 1..Len(checks) /\ Len(checks) \in Nat  BY <1>2, LenProperties
  <2>2. \A i \in DOMAIN checks : checks[i] \in 0..Len(w.checks)  BY <1>2, <2>1, ElementOfSeq
  <2>3. \A i \in 1..Len(checks) : WithChecks(w, checks[i]) \in A  BY <2>1, <2>2
  <2> HIDE DEF A
  <2>4. byChecks \in [1..Len(checks) -> A]  BY <2>1, <2>3
  <2> HIDE DEF byChecks
  <2> QED  BY <2>1, <2>4, FunctionIsSeq
<1>6. <<w>> \in Seq(A)  OBVIOUS
<1>7. answers \in Seq(A)
  <2> HIDE DEF byFailures, byChecks, A, answers
  <2> QED  BY <1>3, <1>4, <1>5, <1>6
<1>8. EncodeResult(w) = FirstFit(answers, Lengths(answers), other)
  BY DEF EncodeResult
<1>9. EncodeResult(w) = other \/ EncodeResult(w) \in A
  <2>1. Lengths(answers) = [i \in DOMAIN answers |-> Lengths(answers)[i]]  BY DEF Lengths
  <2> HIDE DEF answers, other, A
  <2>2. EncodeResult(w) = other \/ \E i \in 1..Len(answers) : EncodeResult(w) = answers[i]
    BY <1>7, <1>8, <2>1, FirstFitOf
  <2>3. \A i \in 1..Len(answers) : answers[i] \in A  BY <1>7, ElementOfSeq
  <2> QED  BY <2>2, <2>3
<1> QED  BY <1>9

\* What a failure's item has of its findings.
FirstFindings(check) == Texts(Cut(check.findings, MaxFailureFindings))

\* The answer of `verify --agent' is truthful, and where it is not marked as
\* truncated all that failed is in it.
LEMMA AgentAnswer ==
    ASSUME NEW r, Sane(r), NEW e, e = EncodeResult(NewAgentVerificationResult(r)), e.accepted
    PROVE  /\ e.op = "verify" /\ e.class = "local-full" /\ AgentSays(r, e)
           /\ ~e.truncated =>
                 /\ IdsOf(e.failures) = IdsOf(Failed(r)) /\ DOMAIN e.failures = 1..Len(Failed(r))
                 /\ \A i \in 1..Len(Failed(r)) : e.failures[i] = Item(Failed(r)[i])
<1> DEFINE w == NewAgentVerificationResult(r)
<1>1. /\ w.op = "verify" /\ w.class = "local-full"
      /\ \A i \in DOMAIN w.checks : w.checks[i] = Summary(r.checks[i])
  BY UncutAnswer
<1>2. PICK k, f : /\ HasChecks(r, w, k) /\ HasFailures(r, w, f)
                  /\ w.truncated <=> k < Len(r.checks) \/ f < Len(Failed(r))
  BY UncutAnswer
<1>a. Shaped(w)  BY ShapeOf
<1> HIDE DEF w
<1>3. /\ k \in Nat /\ f \in Nat /\ k = Len(w.checks) /\ f = Len(w.failures)
      /\ k <= Len(r.checks) /\ f <= Len(Failed(r)) /\ Len(r.checks) \in Nat /\ Len(Failed(r)) \in Nat
  <2>1. Len(r.checks) \in Nat /\ Len(Failed(r)) \in Nat
    BY FailedFacts, ReportFacts, LenProperties DEF Sane
  <2> QED  BY <1>2, <2>1 DEF HasChecks, HasFailures
<1>4. \A n \in 0..f : Len(SubSeq(w.failures, 1, n)) = n /\ DOMAIN SubSeq(w.failures, 1, n) = 1..n
                      /\ \A i \in 1..n : SubSeq(w.failures, 1, n)[i] = w.failures[i]
  <2> DEFINE B == {w.failures[i] : i \in 1..f}
  <2>1. w.failures \in Seq(B)
    <3>1. DOMAIN w.failures = 1..f /\ \A i \in 1..f : w.failures[i] = Item(Failed(r)[i])  BY <1>2 DEF HasFailures
    <3>2. w.failures = [i \in 1..f |-> w.failures[i]]
      <4>1. w.failures = [i \in DOMAIN w.failures |-> w.failures[i]]
        <5>1. w.failures = [i \in DOMAIN Cut(Failed(r), MaxFailureItems) |-> Item(Cut(Failed(r), MaxFailureItems)[i])]
          BY DEF w, NewAgentVerificationResult, NewVerificationResult
        <5> QED  BY <5>1
      <4> QED  BY <3>1, <4>1
    <3>3. \A i \in 1..f : w.failures[i] \in B  OBVIOUS
    <3> HIDE DEF B
    <3>4. w.failures \in [1..f -> B]  BY <3>2, <3>3
    <3> QED  BY <1>3, <3>4, FunctionIsSeq
  <2> HIDE DEF B
  <2> SUFFICES ASSUME NEW n \in 0..f
               PROVE  Len(SubSeq(w.failures, 1, n)) = n /\ DOMAIN SubSeq(w.failures, 1, n) = 1..n
                      /\ \A i \in 1..n : SubSeq(w.failures, 1, n)[i] = w.failures[i]
    OBVIOUS
  <2> QED  BY <1>3, <2>1, PartOf
<1>5. CASE e = w
  <2>1. ASSUME ~w.truncated PROVE k = Len(r.checks) /\ f = Len(Failed(r))  BY <1>2, <1>3, <2>1
  <2>2. \A i \in 1..k : w.checks[i].text = Bounded(r.checks[i].text)
    BY <1>1, <1>2, MadeOf DEF HasChecks
  <2>3. w.truncated => k < Len(r.checks) \/ f < Len(Failed(r))  BY <1>2
  <2>4. ~w.truncated => ~(k < Len(r.checks)) /\ ~(f < Len(Failed(r)))  BY <1>2
  <2>5. AgentSays(r, w)  BY <1>2, <2>2, <2>3, <2>4, AgentParts
  <2>6. ASSUME ~w.truncated
        PROVE  /\ DOMAIN w.failures = 1..Len(Failed(r))
               /\ \A i \in 1..Len(Failed(r)) : w.failures[i] = Item(Failed(r)[i])
    BY <1>2, <2>1, <2>6 DEF HasFailures
  <2>7. ASSUME ~w.truncated PROVE IdsOf(w.failures) = IdsOf(Failed(r))
    <3>1. Failed(r) \in Seq(AnyCheck)  BY FailedFacts
    <3>2. DOMAIN Failed(r) = 1..Len(Failed(r))  BY <3>1, LenProperties
    <3>3. \A i \in 1..Len(Failed(r)) : w.failures[i].id = Failed(r)[i].id  BY <2>6, <2>7, MadeOf
    <3> QED  BY <2>6, <2>7, <3>2, <3>3 DEF IdsOf
  <2> QED  BY <1>1, <1>5, <2>5, <2>6, <2>7
<1>6. ASSUME NEW n \in 0..(Len(w.failures) - 1), e = WithFailures(w, n)
      PROVE  e.op = "verify" /\ e.class = "local-full" /\ e.truncated = TRUE /\ AgentSays(r, e)
  <2>1. HasChecks(r, e, k)
    <3>1. e.checks = w.checks /\ e.checksTotal = w.checksTotal /\ e.checksReturned = w.checksReturned
      BY <1>6, <1>a DEF WithFailures, Shaped
    <3> QED  BY <1>2, <3>1 DEF HasChecks
  <2>2. HasFailures(r, e, n)
    <3>1. /\ e.failures = SubSeq(w.failures, 1, n) /\ e.failuresTotal = w.failuresTotal
          /\ e.failuresReturned = n
      BY <1>6, <1>a DEF WithFailures, Shaped
    <3>2. n \in 0..f /\ n \in 0..Len(Failed(r))  BY <1>3
    <3>3. /\ Len(e.failures) = n /\ DOMAIN e.failures = 1..n
          /\ \A i \in 1..n : e.failures[i] = w.failures[i] /\ i \in 1..f
      BY <1>3, <1>4, <3>1, <3>2
    <3> QED  BY <1>2, <3>1, <3>2, <3>3 DEF HasFailures
  <2>3. n < Len(Failed(r))  BY <1>3
  <2>4. e.truncated = TRUE /\ e.op = "verify" /\ e.class = "local-full"  BY <1>1, <1>6, <1>a DEF WithFailures, Shaped
  <2> QED  BY <2>1, <2>2, <2>3, <2>4, AgentParts
<1>7. ASSUME NEW n \in 0..Len(w.checks), e = WithChecks(w, n)
      PROVE  e.op = "verify" /\ e.class = "local-full" /\ e.truncated = TRUE /\ AgentSays(r, e)
  <2>1. /\ e.checks = [i \in 1..n |-> [w.checks[i] EXCEPT !.text = 0]]
        /\ e.checksTotal = w.checksTotal /\ e.checksReturned = n
        /\ e.failures = SubSeq(w.failures, 1, 0) /\ e.failuresTotal = w.failuresTotal
        /\ e.failuresReturned = 0 /\ e.truncated = TRUE /\ e.op = "verify" /\ e.class = "local-full"
    BY <1>1, <1>7, <1>a DEF WithChecks, WithFailures, Shaped
  <2>2. \A i \in 1..n : e.checks[i].id = r.checks[i].id /\ e.checks[i].text = 0
    <3>1. \A i \in 1..n : i \in DOMAIN w.checks  BY <1>2, <1>3 DEF HasChecks
    <3>2. \A i \in 1..n : e.checks[i] = [Summary(r.checks[i]) EXCEPT !.text = 0]
      BY <1>1, <2>1, <3>1
    <3> SUFFICES ASSUME NEW i \in 1..n
                 PROVE  e.checks[i].id = r.checks[i].id /\ e.checks[i].text = 0
      OBVIOUS
    <3>3. /\ [Summary(r.checks[i]) EXCEPT !.text = 0].id = r.checks[i].id
          /\ [Summary(r.checks[i]) EXCEPT !.text = 0].text = 0
      BY MadeOf
    <3>4. e.checks[i] = [Summary(r.checks[i]) EXCEPT !.text = 0]  BY <3>2
    <3> QED  BY <3>3, <3>4
  <2>3. Len(e.checks) = n
    <3>1. e.checks = [i \in 1..n |-> e.checks[i]]  BY <2>1
    <3>2. n \in Nat  BY <1>3
    <3> QED  BY <3>1, <3>2, LenOf
  <2>4. HasChecks(r, e, n)
    <3>1. n \in 0..Len(r.checks) /\ w.checksTotal = Len(r.checks)  BY <1>2, <1>3 DEF HasChecks
    <3> QED  BY <2>1, <2>2, <2>3, <3>1 DEF HasChecks
  <2>5. HasFailures(r, e, 0)
    <3>1. 0 \in 0..f /\ 0 \in 0..Len(Failed(r))  BY <1>3
    <3>2. Len(e.failures) = 0 /\ DOMAIN e.failures = 1..0  BY <1>4, <2>1, <3>1
    <3> QED  BY <1>2, <2>1, <3>1, <3>2 DEF HasFailures
  <2> QED  BY <2>1, <2>2, <2>4, <2>5, AgentParts
<1>8. \/ e = w
      \/ \E n \in 0..(Len(w.failures) - 1) : e = WithFailures(w, n)
      \/ \E n \in 0..Len(w.checks) : e = WithChecks(w, n)
  <2>1. e # Rejected("verify", "result_encoding_failed")  BY DEF Rejected
  <2>2. e = EncodeResult(w)  BY DEF w
  <2>3. Len(w.failures) \in Nat /\ Len(w.checks) \in Nat  BY <1>3
  <2> QED  BY <2>1, <2>2, <2>3, EncodeResultCases
<1> QED  BY <1>5, <1>6, <1>7, <1>8

\* The first findings of a check, as the agent gets them.
LEMMA FirstFindingsOf ==
    ASSUME NEW check \in AnyCheck
    PROVE  LET s == FirstFindings(check)
           IN  /\ s \in Seq(Nat) /\ Len(s) = Least(MaxFailureFindings, Len(check.findings))
               /\ \A i \in 1..Len(s) : s[i] = Bounded(check.findings[i])
<1> DEFINE m == Least(MaxFailureFindings, Len(check.findings))
           part == Cut(check.findings, MaxFailureFindings)
           s == FirstFindings(check)
<1>1. check.findings \in Seq(Nat)  BY CheckFacts
<1>2. Len(check.findings) \in Nat /\ m \in Nat  BY <1>1, LenProperties, Limits DEF Least
<1>3. /\ part \in Seq(Nat) /\ DOMAIN part = 1..m /\ \A i \in 1..m : part[i] = check.findings[i]
  BY <1>1, CutOf, Limits
<1>4. \A i \in 1..m : part[i] \in Nat
  <2>1. Len(part) = m  BY <1>1, CutOf, Limits
  <2> HIDE DEF m, part
  <2> QED  BY <1>3, <2>1, ElementOfSeq
<1> HIDE DEF m, part
<1>5. s = [i \in 1..m |-> Bounded(part[i])]  BY <1>3 DEF FirstFindings, Texts, part
<1>6. s \in [1..m -> Nat]
  <2>1. \A i \in 1..m : Bounded(part[i]) \in Nat  BY <1>4, BoundedType
  <2> HIDE DEF s
  <2> QED  BY <1>5, <2>1
<1>7. s \in Seq(Nat) /\ Len(s) = m  BY <1>2, <1>6, FunctionIsSeq
<1>8. \A i \in 1..m : s[i] = Bounded(check.findings[i])  BY <1>3, <1>5
<1> QED  BY <1>7, <1>8 DEF m, s

-----------------------------------------------------------------------------
(* Answers are truthful.                                                   *)

\* What RepliesTruthful says of an answer that was made of a report.
Truthful(r, e) ==
    CASE e.op = "verify" /\ e.class = None -> FirstSays(r, e)
      [] e.op = "verify" /\ e.class # None -> AgentSays(r, e)
      [] e.op = "failures" ->
            /\ e.returned = Len(e.items)
            /\ e.truncated <=> e.offset + e.returned < e.total
      [] e.op = "failure" ->
            /\ e.returned = Len(e.items) /\ e.pathsReturned = e.paths
            /\ e.truncated <=> \/ e.offset + e.returned < e.total
                               \/ e.pathsReturned < e.pathsTotal
      [] e.op = "evidence" ->
            e.truncated <=> \/ e.offset + e.returned < e.total
                            \/ Check(r, e.id).outputTruncated

\* Each retrieval command tells the truth, whatever it is asked for.
LEMMA CommandTruthful ==
    ASSUME NEW r, Sane(r), NEW op \in {"failures", "failure", "evidence"}, NEW id,
           NEW from \in Int, NEW e \in Command(r, op, id, from), e.accepted
    PROVE  e.op = op /\ Truthful(r, e)
<1>1. CASE op = "failures"
  <2>1. ListSays(r, from, e)  BY <1>1, ListAnswer
  <2> QED  BY <1>1, <2>1 DEF ListSays, Truthful
<1>2. CASE op = "failure"
  <2>1. FindingsSaid(Check(r, id), from, e)  BY <1>2, DetailAnswer DEF DetailSays
  <2> QED  BY <1>2, <2>1 DEF FindingsSaid, Truthful
<1>3. CASE op = "evidence"
  <2>1. LogSays(r, id, from, e)  BY <1>3, LogAnswer
  <2> QED  BY <1>3, <2>1 DEF LogSays, Truthful
<1> QED  BY <1>1, <1>2, <1>3

\* RepliesTruthful is about the last answer and the report.
LEMMA TruthfulMeans == RepliesTruthful <=> (reply # None /\ reply.accepted => Truthful(report, reply))
BY DEF RepliesTruthful, AgentCountsTrue, Truthful, FirstSays, AgentSays

\* Where the agent is, and how far it was told of what failed.
Going ==
    /\ TypeOK /\ Sane(report)
    /\ Len(told) <= Len(Failed(report))
    /\ \A i \in 1..Len(told) : told[i] = Failed(report)[i].id
    /\ agent = "start" => told = <<>> /\ offset = 0
    /\ agent = "list" => offset = Len(told)
    /\ agent \in {"start", "list"} => subject = 1
    /\ agent \in {"detail", "log", "done", "left"} => Len(told) = Len(Failed(report))
    /\ agent \in {"detail", "log"} => subject <= Len(told)

\* Every answer is made of the report, which only loses what it is stored in.
LEMMA ReplyStep ==
    ASSUME Going, [Next]_vars
    PROVE  /\ report' = report \/ UNCHANGED <<agent, offset, told, subject, learnt, seen, reply>>
           /\ Sane(report') /\ report'.checks = report.checks /\ Failed(report') = Failed(report)
           /\ reply' = reply \/ (reply'.accepted => Truthful(report, reply'))
<1> USE DEF Going
<1>1. CASE VerifyAgent
  <2>1. CASE reply' = Rejected("verify", "verification_unavailable")
    BY <1>1, <2>1 DEF VerifyAgent, Rejected
  <2>2. CASE reply' = EncodeResult(NewAgentVerificationResult(report))
    <3>1. reply'.accepted => Truthful(report, reply')
      BY <2>2, AgentAnswer, NoneAssumption DEF Truthful
    <3> QED  BY <1>1, <3>1 DEF VerifyAgent
  <2> QED  BY <1>1, <2>1, <2>2 DEF VerifyAgent
<1>2. CASE VerifyWorker
  <2>1. PICK q \in Requests, standing \in {"ready", "project_not_approved", "project_identity_mismatch",
                                           "verification_unavailable", "active_run"} :
          reply' = Served(q, standing, report)
    BY <1>2 DEF VerifyWorker
  <2>2. reply'.accepted => Truthful(report, reply')
    BY <2>1, ServedAnswer DEF Truthful
  <2> QED  BY <1>2, <2>2 DEF VerifyWorker
<1>3. CASE List
  <2>1. reply'.accepted => Truthful(report, reply')
    BY <1>3, CommandTruthful DEF List, TypeOK
  <2> QED  BY <1>3, <2>1 DEF List
<1>4. CASE Detail
  <2>1. reply'.accepted => Truthful(report, reply')
    BY <1>4, CommandTruthful DEF Detail, TypeOK
  <2> QED  BY <1>4, <2>1 DEF Detail
<1>5. CASE ReadLog
  <2>1. reply'.accepted => Truthful(report, reply')
    BY <1>5, CommandTruthful DEF ReadLog, TypeOK
  <2> QED  BY <1>5, <2>1 DEF ReadLog
<1>6. CASE Wander
  <2>1. PICK op \in {"failures", "failure", "evidence"}, id \in Ids, n \in -1..(MaxRawChunk + 1) :
          reply' \in Command(report, op, id, n)
    BY <1>6 DEF Wander
  <2>2. n \in Int  BY Limits
  <2>3. reply'.accepted => Truthful(report, reply')
    BY <2>1, <2>2, CommandTruthful
  <2> QED  BY <1>6, <2>3 DEF Wander
<1>7. CASE Lose
  BY <1>7, RemovedSane DEF Lose
<1>8. CASE UNCHANGED vars
  BY <1>8 DEF vars
<1> QED  BY <1>1, <1>2, <1>3, <1>4, <1>5, <1>6, <1>7, <1>8 DEF Next, Follow, Over

-----------------------------------------------------------------------------
(* What the agent gathers.                                                 *)

\* What is shown are positions.
LEMMA ShownType ==
    ASSUME NEW log, NEW from \in Nat, NEW stop
    PROVE  Shown(log, from, stop) \subseteq Nat
<1> SUFFICES ASSUME NEW x \in Shown(log, from, stop) PROVE x \in Nat  OBVIOUS
<1>1. PICK p \in (from + 1)..stop : \E q : x \in p..q
  BY DEF Shown
<1> QED  BY <1>1

\* An agent that has not begun is where it can be.
LEMMA GoingInitial == Init => Going
<1> SUFFICES ASSUME Init PROVE Going  OBVIOUS
<1>1. Sane(report)  BY ReportsAssumption DEF Init, Sane
<1>2. Failed(report) \in Seq(AnyCheck) /\ Len(Failed(report)) \in Nat
  BY <1>1, FailedFacts, LenProperties
<1>3. told = <<>> /\ told \in Seq(Ids) /\ Len(told) = 0  BY EmptySeq DEF Init
<1>4. TypeOK
  <2>1. <<>> \in Seq(Nat)  OBVIOUS
  <2> QED  BY <1>3, <2>1 DEF Init, TypeOK
<1> QED  BY <1>1, <1>2, <1>3, <1>4 DEF Init, Going

\* The failed checks are checks of the report, with an ID each.
LEMMA FailedType ==
    ASSUME Going
    PROVE  /\ Failed(report) \in Seq(AnyCheck) /\ Len(Failed(report)) \in Nat
           /\ \A i \in 1..Len(Failed(report)) :
                 /\ Failed(report)[i] \in AnyCheck /\ Failed(report)[i].id \in Ids
                 /\ Failed(report)[i].findings \in Seq(Nat)
                 /\ Len(Failed(report)[i].findings) \in Nat
           /\ \A i, j \in 1..Len(Failed(report)) :
                 Failed(report)[i].id = Failed(report)[j].id => i = j
<1>1. Failed(report) \in Seq(AnyCheck) /\ Len(Failed(report)) \in Nat
  BY FailedFacts, LenProperties DEF Going
<1>2. \A i \in 1..Len(Failed(report)) : Failed(report)[i] \in AnyCheck
  BY <1>1, ElementOfSeq
<1> QED  BY <1>1, <1>2, CheckFacts, FailedFacts, LenProperties DEF Going

\* The agent is told of the failed checks one page after the other.
LEMMA ToldStep ==
    ASSUME Going, List, reply'.accepted
    PROVE  /\ told' \in Seq(Ids) /\ Len(told') \in Nat
           /\ Len(told) <= Len(told') /\ Len(told') <= Len(Failed(report))
           /\ \A i \in 1..Len(told') : told'[i] = Failed(report)[i].id
           /\ Sent("failures") => reply'.next.offset = Len(told')
           /\ ~Sent("failures") => Len(told') = Len(Failed(report))
           /\ UNCHANGED <<report, learnt, seen>>
           /\ \/ Sent("failures") /\ Resume
              \/ ~Sent("failures") /\ Proceed(1)
<1> DEFINE F == Failed(report)
           k == reply'.returned
           there == offset + k
           more == IdsOf(reply'.items)
<1>1. ListSays(report, offset, reply')
  BY ListAnswer DEF List, Going, TypeOK
<1>2. told' = told \o more  BY DEF List
<1>3. /\ k \in Nat /\ there <= Len(F) /\ offset = Len(told) /\ offset \in Nat /\ told \in Seq(Ids)
      /\ Len(F) \in Nat
  BY <1>1, FailedType DEF ListSays, Going, List, TypeOK
<1>4. more \in Seq(Ids) /\ Len(more) = k /\ \A i \in 1..k : more[i] = F[offset + i].id
  <2>1. DOMAIN reply'.items = 1..k /\ \A i \in 1..k : reply'.items[i].id = F[offset + i].id
    BY <1>1 DEF ListSays
  <2>2. more = [i \in 1..k |-> reply'.items[i].id]  BY <2>1 DEF IdsOf
  <2>3. \A i \in 1..k : F[offset + i].id \in Ids
    <3>1. \A i \in 1..k : offset + i \in 1..Len(F)  BY <1>3
    <3> QED  BY <3>1, FailedType
  <2> HIDE DEF more, k, F
  <2>4. more \in [1..k -> Ids]  BY <2>1, <2>2, <2>3
  <2> QED  BY <1>3, <2>1, <2>2, <2>4, FunctionIsSeq
<1> HIDE DEF more, F
<1>5. /\ told' \in Seq(Ids) /\ Len(told') = there
      /\ \A i \in 1..there : told'[i] = IF i <= Len(told) THEN told[i] ELSE more[i - Len(told)]
  <2> HIDE DEF k
  <2> QED  BY <1>2, <1>3, <1>4, ConcatProperties
<1>6. \A i \in 1..there : told'[i] = F[i].id
  <2> SUFFICES ASSUME NEW i \in 1..there PROVE told'[i] = F[i].id  OBVIOUS
  <2>1. CASE i <= Len(told)  BY <1>3, <1>5, <2>1 DEF Going, F
  <2>2. CASE ~(i <= Len(told))
    <3>1. i - Len(told) \in 1..k /\ offset + (i - Len(told)) = i  BY <1>3, <2>2
    <3> QED  BY <1>4, <1>5, <2>2, <3>1
  <2> QED  BY <2>1, <2>2
<1>7. reply'.next = IF there < Len(F) THEN [op |-> "failures", offset |-> there] ELSE None
  BY <1>1 DEF ListSays, F
<1>8. Sent("failures") => reply'.next.offset = there
  BY <1>7 DEF Sent
<1>9. ~Sent("failures") => there = Len(F)
  <2> SUFFICES ASSUME there < Len(F) PROVE Sent("failures")  BY <1>3
  <2>1. reply'.next = [op |-> "failures", offset |-> there]  BY <1>7
  <2>2. reply'.next # None  BY <1>3, <2>1, NoneAssumption
  <2> QED  BY <2>1, <2>2 DEF Sent
<1> QED
  BY <1>3, <1>5, <1>6, <1>8, <1>9 DEF List, F

\* The findings that the agent has of a check are the first ones, in order.
Gathered(s, f) == Len(s) <= Len(f) /\ \A k \in 1..Len(s) : s[k] = Bounded(f[k])

\* It has all of those of the checks that it has examined, and those of the
\* subject up to where it goes on; or the first ones of each check, if the first
\* answer was not truncated.
Learning ==
    /\ agent \in {"start", "list"} => \A c \in Ids : learnt[c] = <<>>
    /\ \A i \in 1..Len(told) : Gathered(learnt[told[i]], Failed(report)[i].findings)
    /\ \A i \in 1..(subject - 1) : Len(learnt[told[i]]) = Len(Failed(report)[i].findings)
    /\ agent \notin {"done", "left"} => \A i \in (subject + 1)..Len(told) : learnt[told[i]] = <<>>
    /\ agent \in {"done", "left"} => \A i \in subject..Len(told) :
          Len(learnt[told[i]]) = Least(MaxFailureFindings, Len(Failed(report)[i].findings))
    /\ agent = "detail" => Len(learnt[told[subject]]) = offset
    /\ agent = "log" => Len(learnt[told[subject]]) = Len(Failed(report)[subject].findings)

\* Where a subject is looked into, it is the failed check at that place.
LEMMA SubjectFacts ==
    ASSUME Going, agent \in {"detail", "log"}
    PROVE  /\ subject \in 1..Len(told) /\ Len(told) \in Nat /\ Len(told) = Len(Failed(report))
           /\ told[subject] \in Ids /\ told[subject] = Failed(report)[subject].id
           /\ Check(report, told[subject]) = Failed(report)[subject]
           /\ \A i \in 1..Len(told) : told[i] \in Ids /\ (told[i] = told[subject] => i = subject)
<1>1. told \in Seq(Ids) /\ Len(told) \in Nat /\ subject \in 1..Len(told) /\ Len(told) = Len(Failed(report))
  BY DEF Going, TypeOK
<1>2. \A i \in 1..Len(told) : told[i] \in Ids /\ told[i] = Failed(report)[i].id
  BY <1>1, ElementOfSeq DEF Going
<1>3. Check(report, Failed(report)[subject].id) = Failed(report)[subject]
  BY <1>1, CheckOf DEF Going
<1> QED  BY <1>1, <1>2, <1>3, FailedType

\* The findings of the subject come one page after the other.
LEMMA LearntStep ==
    ASSUME Going, Learning, Detail, reply'.accepted
    PROVE  LET c == told[subject]
               f == Failed(report)[subject].findings
           IN  /\ learnt'[c] \in Seq(Nat) /\ learnt' \in [Ids -> Seq(Nat)]
               /\ \A d \in Ids : d # c => learnt'[d] = learnt[d]
               /\ Gathered(learnt'[c], f)
               /\ Sent("failure") => reply'.next.offset = Len(learnt'[c])
               /\ ~Sent("failure") => Len(learnt'[c]) = Len(f)
               /\ reply'.available <=> Failed(report)[subject].log # None
<1> DEFINE c == told[subject]
           f == Failed(report)[subject].findings
           k == reply'.returned
           there == offset + k
           more == reply'.items
<1>1. /\ subject \in 1..Len(told) /\ c \in Ids /\ Check(report, c) = Failed(report)[subject]
      /\ f \in Seq(Nat) /\ Len(f) \in Nat
  BY SubjectFacts, FailedType DEF Detail
<1>2. FindingsSaid(Failed(report)[subject], offset, reply')
  <2>1. DetailSays(report, c, offset, reply')
    BY DetailAnswer DEF Detail, Going, TypeOK
  <2> QED  BY <1>1, <2>1 DEF DetailSays
<1>3. /\ k \in Nat /\ there <= Len(f) /\ offset \in Nat /\ more \in Seq(Nat) /\ Len(more) = k
      /\ \A i \in 1..k : more[i] = Bounded(f[offset + i])
      /\ reply'.available <=> Failed(report)[subject].log # None
      /\ there < Len(f) => reply'.next = [op |-> "failure", offset |-> there]
      /\ there = Len(f) => reply'.next = None \/ reply'.next = [op |-> "evidence", offset |-> 0]
  BY <1>2 DEF FindingsSaid
<1>4. /\ learnt \in [Ids -> Seq(Nat)] /\ learnt[c] \in Seq(Nat) /\ Len(learnt[c]) = offset
      /\ Gathered(learnt[c], f)
  BY <1>1 DEF Going, TypeOK, Learning, Detail
<1>5. learnt' = [learnt EXCEPT ![c] = learnt[c] \o more]  BY DEF Detail
<1> HIDE DEF c, f, more
<1>6. /\ learnt[c] \o more \in Seq(Nat) /\ Len(learnt[c] \o more) = there
      /\ \A i \in 1..there : (learnt[c] \o more)[i] =
            IF i <= offset THEN learnt[c][i] ELSE more[i - offset]
  <2> DEFINE s == learnt[c]
  <2>1. s \in Seq(Nat) /\ more \in Seq(Nat) /\ Len(s) = offset /\ Len(more) = k  BY <1>3, <1>4
  <2> HIDE DEF k, s
  <2>2. /\ s \o more \in Seq(Nat) /\ Len(s \o more) = Len(s) + Len(more)
        /\ \A i \in 1..(Len(s) + Len(more)) :
              (s \o more)[i] = IF i <= Len(s) THEN s[i] ELSE more[i - Len(s)]
    BY <2>1, ConcatProperties
  <2> QED  BY <2>1, <2>2 DEF s
<1>7. learnt'[c] = learnt[c] \o more /\ learnt' \in [Ids -> Seq(Nat)]
      /\ \A d \in Ids : d # c => learnt'[d] = learnt[d]
  BY <1>1, <1>4, <1>5, <1>6
<1>8. \A i \in 1..there : (learnt[c] \o more)[i] = Bounded(f[i])
  <2> SUFFICES ASSUME NEW i \in 1..there PROVE (learnt[c] \o more)[i] = Bounded(f[i])  OBVIOUS
  <2>1. CASE i <= offset
    <3>1. i \in 1..Len(learnt[c])  BY <1>3, <1>4, <2>1
    <3> QED  BY <1>4, <1>6, <2>1, <3>1 DEF Gathered
  <2>2. CASE ~(i <= offset)
    <3>1. i - offset \in 1..k /\ offset + (i - offset) = i  BY <1>3, <2>2
    <3> QED  BY <1>3, <1>6, <2>2, <3>1
  <2> QED  BY <2>1, <2>2
<1>9. Gathered(learnt'[c], f)
  BY <1>3, <1>6, <1>7, <1>8 DEF Gathered
<1>10. Sent("failure") => reply'.next.offset = there
  <2> SUFFICES ASSUME Sent("failure") PROVE there < Len(f)  BY <1>3
  <2>1. reply'.next # None /\ reply'.next.op = "failure"  BY DEF Sent
  <2>2. [op |-> "evidence", offset |-> 0].op # "failure"  OBVIOUS
  <2>3. reply'.next # [op |-> "evidence", offset |-> 0]  BY <2>1, <2>2
  <2>4. there # Len(f)  BY <1>3, <2>1, <2>3
  <2>5. Len(f) \in Nat /\ there \in Nat  BY <1>1, <1>3
  <2> HIDE DEF k
  <2> QED  BY <1>3, <2>4, <2>5
<1>11. ~Sent("failure") => there = Len(f)
  <2> SUFFICES ASSUME there < Len(f) PROVE Sent("failure")  BY <1>1, <1>3
  <2>1. reply'.next = [op |-> "failure", offset |-> there]  BY <1>3
  <2>2. reply'.next # None  BY <1>3, <2>1, NoneAssumption
  <2> QED  BY <2>1, <2>2 DEF Sent
<1> QED
  BY <1>3, <1>6, <1>7, <1>9, <1>10, <1>11 DEF c, f

\* A page of the log of the subject is added to what the agent has seen of it.
LEMMA SeenStep ==
    ASSUME Going, ReadLog, reply'.accepted
    PROVE  LET c == told[subject]
               log == Failed(report)[subject].log
               stop == Least(offset + MaxRawChunk, Len(log))
           IN  /\ log \in Logs /\ offset <= stop
               /\ seen' \in [Ids -> SUBSET Nat]
               /\ \A d \in Ids : d # c => seen'[d] = seen[d]
               /\ seen'[c] = seen[c] \union Shown(log, offset, stop)
               /\ Sent("evidence") => reply'.next.offset = stop /\ stop < Len(log)
               /\ ~Sent("evidence") => stop = Len(log)
<1> DEFINE c == told[subject]
           log == Failed(report)[subject].log
           stop == Least(offset + MaxRawChunk, Len(log))
<1>1. subject \in 1..Len(told) /\ c \in Ids /\ Check(report, c) = Failed(report)[subject]
  BY SubjectFacts DEF ReadLog
<1>2. LogSays(report, c, offset, reply')
  BY LogAnswer DEF ReadLog, Going, TypeOK
<1>3. /\ log \in Logs /\ reply'.shown = Shown(log, offset, stop) /\ reply'.returned \in Nat
      /\ offset \in Nat /\ stop = offset + reply'.returned
      /\ reply'.next = IF stop < Len(log) THEN [op |-> "evidence", offset |-> stop] ELSE None
  BY <1>1, <1>2 DEF LogSays
<1>4. Len(log) \in Nat /\ stop \in Nat /\ offset <= stop /\ stop <= Len(log)
  <2>1. Len(log) \in Nat  BY <1>3, LogFacts
  <2> QED  BY <1>3, <2>1, Limits DEF Least
<1> HIDE DEF stop, log
<1>5. seen' = [seen EXCEPT ![c] = seen[c] \union Shown(log, offset, stop)]
  BY <1>3 DEF ReadLog
<1>6. seen \in [Ids -> SUBSET Nat] /\ Shown(log, offset, stop) \subseteq Nat
  BY <1>3, ShownType DEF Going, TypeOK
<1>7. /\ seen' \in [Ids -> SUBSET Nat] /\ \A d \in Ids : d # c => seen'[d] = seen[d]
      /\ seen'[c] = seen[c] \union Shown(log, offset, stop)
  <2> HIDE DEF c
  <2> QED  BY <1>1, <1>5, <1>6
<1>8. Sent("evidence") => reply'.next.offset = stop /\ stop < Len(log)
  BY <1>3 DEF Sent
<1>9. ~Sent("evidence") => stop = Len(log)
  <2> SUFFICES ASSUME stop < Len(log) PROVE Sent("evidence")  BY <1>4
  <2>1. reply'.next = [op |-> "evidence", offset |-> stop]  BY <1>3
  <2>2. reply'.next # None  BY <1>4, <2>1, NoneAssumption
  <2> QED  BY <2>1, <2>2 DEF Sent
<1> QED  BY <1>3, <1>4, <1>7, <1>8, <1>9 DEF c, log, stop

\* The first answer tells everything, or sends the agent on, or is a refusal.
LEMMA BeginStep ==
    ASSUME Going, VerifyAgent \/ VerifyWorker
    PROVE  /\ agent = "start" /\ agent' \in {"refused", "list", "done"}
           /\ agent' = "done" =>
                 /\ told' = IdsOf(Failed(report)) /\ learnt' \in [Ids -> Seq(Nat)]
                 /\ \A i \in 1..Len(Failed(report)) :
                       learnt'[Failed(report)[i].id] = FirstFindings(Failed(report)[i])
           /\ agent' # "done" => told' = <<>> /\ learnt' = learnt
           /\ UNCHANGED <<report, offset, subject, seen>>
<1>1. CASE VerifyAgent
  <2>1. /\ agent = "start" /\ agent' \in {"refused", "list", "done"}
        /\ agent' # "done" => told' = <<>> /\ learnt' = learnt
        /\ UNCHANGED <<report, offset, subject, seen>>
    BY <1>1 DEF VerifyAgent
  <2>2. ASSUME agent' = "done"
        PROVE  /\ told' = IdsOf(Failed(report)) /\ learnt' \in [Ids -> Seq(Nat)]
               /\ \A i \in 1..Len(Failed(report)) :
                     learnt'[Failed(report)[i].id] = FirstFindings(Failed(report)[i])
    <3> DEFINE F == Failed(report)
               place(c) == {i \in DOMAIN reply'.failures : reply'.failures[i].id = c}
    <3>1. /\ reply'.accepted /\ ~reply'.truncated /\ told' = IdsOf(reply'.failures)
          /\ learnt' = [c \in Ids |-> FindingsGiven(reply', c)]
      BY <1>1, <2>2 DEF VerifyAgent
    <3>2. reply' # Rejected("verify", "verification_unavailable")
      BY <3>1 DEF Rejected
    <3>3. reply' = EncodeResult(NewAgentVerificationResult(report))
      BY <1>1, <3>2 DEF VerifyAgent
    <3>4. /\ IdsOf(reply'.failures) = IdsOf(F) /\ DOMAIN reply'.failures = 1..Len(F)
          /\ \A i \in 1..Len(F) : reply'.failures[i] = Item(F[i])
      BY <3>1, <3>3, AgentAnswer DEF Going
    <3>5. /\ \A i \in 1..Len(F) : F[i] \in AnyCheck /\ F[i].id \in Ids
          /\ \A i, j \in 1..Len(F) : F[i].id = F[j].id => i = j
      BY FailedType
    <3> HIDE DEF F
    <3>6. \A i \in 1..Len(F) : /\ reply'.failures[i].id = F[i].id
                               /\ reply'.failures[i].findings = FirstFindings(F[i])
      BY <3>4, MadeOf DEF FirstFindings
    <3>7. ASSUME NEW c PROVE  FindingsGiven(reply', c) = IF place(c) = {} THEN <<>>
                              ELSE reply'.failures[CHOOSE i \in place(c) : TRUE].findings
      BY DEF FindingsGiven
    <3>8. ASSUME NEW i \in 1..Len(F) PROVE FindingsGiven(reply', F[i].id) = FirstFindings(F[i])
      <4>1. place(F[i].id) = {i}  BY <3>4, <3>5, <3>6
      <4> HIDE DEF place
      <4>2. FindingsGiven(reply', F[i].id) = reply'.failures[i].findings  BY <3>7, <4>1
      <4> QED  BY <3>6, <4>2
    <3>9. ASSUME NEW c \in Ids PROVE FindingsGiven(reply', c) \in Seq(Nat)
      <4>1. CASE place(c) = {}
        <5>1. <<>> \in Seq(Nat)  OBVIOUS
        <5> QED  BY <3>7, <4>1, <5>1
      <4>2. CASE place(c) # {}
        <5>1. PICK i \in 1..Len(F) : c = F[i].id  BY <3>4, <3>6, <4>2
        <5>2. FirstFindings(F[i]) \in Seq(Nat)  BY <3>5, FirstFindingsOf
        <5> QED  BY <3>8, <5>1, <5>2
      <4> QED  BY <4>1, <4>2
    <3>10. learnt' \in [Ids -> Seq(Nat)]  BY <3>1, <3>9
    <3>11. \A i \in 1..Len(F) : learnt'[F[i].id] = FirstFindings(F[i])  BY <3>1, <3>5, <3>8
    <3> QED  BY <3>1, <3>4, <3>10, <3>11 DEF F
  <2> QED  BY <2>1, <2>2
<1>2. CASE VerifyWorker
  <2>1. told = <<>>  BY <1>2 DEF VerifyWorker, Going
  <2> QED  BY <1>2, <2>1 DEF VerifyWorker
<1> QED  BY <1>1, <1>2

\* An agent that is told of all that failed and begins with a subject.
LEMMA TurnTo ==
    ASSUME Sane(report'), told' \in Seq(Ids), NEW n \in Nat \ {0}, Proceed(n),
           Len(told') = Len(Failed(report')), n <= Len(told') + 1,
           \A i \in 1..Len(told') : told'[i] = Failed(report')[i].id,
           learnt' \in [Ids -> Seq(Nat)], seen' \in [Ids -> SUBSET Nat]
    PROVE  Going'
<1>1. /\ agent' = (IF n > Len(told') THEN "done" ELSE "detail") /\ subject' = n /\ offset' = 0
      /\ Len(told') \in Nat
  BY LenProperties DEF Proceed
<1>2. TypeOK'  BY <1>1 DEF TypeOK
<1> QED  BY <1>1, <1>2 DEF Going

\* The agent stays where it can be.
LEMMA GoingStep ==
    ASSUME Going, Learning, [Next]_vars
    PROVE  Going'
<1>1. Sane(report') /\ Failed(report') = Failed(report)  BY ReplyStep
<1>2. /\ Failed(report) \in Seq(AnyCheck) /\ Len(Failed(report)) \in Nat
      /\ told \in Seq(Ids) /\ Len(told) \in Nat
  BY FailedType, LenProperties DEF Going, TypeOK
<1>3. CASE VerifyAgent \/ VerifyWorker
  <2>1. /\ agent = "start" /\ agent' \in {"refused", "list", "done"}
        /\ agent' = "done" => told' = IdsOf(Failed(report)) /\ learnt' \in [Ids -> Seq(Nat)]
        /\ agent' # "done" => told' = <<>> /\ learnt' = learnt
        /\ UNCHANGED <<report, offset, subject, seen>>
    BY <1>3, BeginStep
  <2>2. told = <<>> /\ subject = 1  BY <2>1 DEF Going
  <2>3. CASE agent' = "done"
    <3>1. /\ told' \in Seq(Ids) /\ Len(told') = Len(Failed(report))
          /\ \A i \in 1..Len(told') : told'[i] = Failed(report)[i].id
      BY <1>2, <2>1, <2>3, IdsFacts
    <3> HIDE DEF Sane
    <3>2. TypeOK'  BY <1>2, <2>1, <2>2, <2>3, <3>1 DEF Going, TypeOK
    <3> QED  BY <1>1, <1>2, <2>1, <2>2, <2>3, <3>1, <3>2 DEF Going
  <2>4. CASE agent' # "done"
    <3>1. told' = told  BY <2>1, <2>2, <2>4
    <3>2. TypeOK'  BY <2>1, <3>1 DEF Going, TypeOK
    <3>3. agent' = "list" => offset' = Len(told')
      BY <2>1, <2>2, <3>1 DEF Going, TypeOK
    <3> QED  BY <1>1, <2>1, <2>2, <2>4, <3>1, <3>2, <3>3 DEF Going
  <2> QED  BY <2>3, <2>4
<1>4. CASE List /\ ~reply'.accepted
  <2>1. agent' = "refused" /\ UNCHANGED <<report, offset, told, subject, learnt, seen>>
    BY <1>4 DEF List, Stop
  <2> QED  BY <2>1 DEF Going, TypeOK
<1>5. CASE List /\ reply'.accepted
  <2>1. /\ told' \in Seq(Ids) /\ Len(told') \in Nat
        /\ Len(told') <= Len(Failed(report))
        /\ \A i \in 1..Len(told') : told'[i] = Failed(report)[i].id
        /\ Sent("failures") => reply'.next.offset = Len(told')
        /\ ~Sent("failures") => Len(told') = Len(Failed(report))
        /\ UNCHANGED <<report, learnt, seen>>
        /\ \/ Sent("failures") /\ Resume
           \/ ~Sent("failures") /\ Proceed(1)
    BY <1>5, ToldStep
  <2>2. agent = "list" /\ subject = 1 /\ learnt \in [Ids -> Seq(Nat)] /\ seen \in [Ids -> SUBSET Nat]
    BY <1>5 DEF List, Going, TypeOK
  <2>3. CASE Sent("failures") /\ Resume
    <3>1. offset' = Len(told') /\ UNCHANGED <<agent, subject>>  BY <2>1, <2>3 DEF Resume
    <3>2. TypeOK'  BY <2>1, <2>2, <3>1 DEF TypeOK
    <3> QED  BY <1>1, <2>1, <2>2, <3>1, <3>2 DEF Going
  <2>4. CASE ~Sent("failures") /\ Proceed(1)
    <3>1. 1 <= Len(told') + 1 /\ 1 \in Nat \ {0}  BY <2>1
    <3>2. learnt' \in [Ids -> Seq(Nat)] /\ seen' \in [Ids -> SUBSET Nat]  BY <2>1, <2>2
    <3>3. /\ Len(told') = Len(Failed(report'))
          /\ \A i \in 1..Len(told') : told'[i] = Failed(report')[i].id
      BY <1>1, <2>1, <2>4
    <3> QED  BY <1>1, <2>1, <2>4, <3>1, <3>2, <3>3, TurnTo
  <2> QED  BY <2>1, <2>3, <2>4
<1>6. CASE Detail /\ ~reply'.accepted
  <2>1. agent' = "refused" /\ UNCHANGED <<report, offset, told, subject, learnt, seen>>
    BY <1>6 DEF Detail, Stop
  <2> QED  BY <2>1 DEF Going, TypeOK
<1>7. CASE Detail /\ reply'.accepted
  <2>1. /\ agent = "detail" /\ UNCHANGED <<report, told, seen>>
        /\ \/ Sent("failure") /\ Resume
           \/ ~Sent("failure") /\ agent' = "log" /\ offset' = 0 /\ UNCHANGED subject
           \/ ~Sent("failure") /\ Proceed(subject + 1)
    BY <1>7 DEF Detail
  <2>2. /\ subject \in 1..Len(told) /\ Len(told) = Len(Failed(report))
    BY <2>1, SubjectFacts
  <2>3. /\ learnt' \in [Ids -> Seq(Nat)] /\ learnt'[told[subject]] \in Seq(Nat)
        /\ Sent("failure") => reply'.next.offset = Len(learnt'[told[subject]])
    BY <1>7, LearntStep
  <2>4. Len(learnt'[told[subject]]) \in Nat  BY <2>3, LenProperties
  <2>5. CASE ~Sent("failure") /\ Proceed(subject + 1)
    <3>1. subject + 1 \in Nat \ {0} /\ subject + 1 <= Len(told) + 1  BY <1>2, <2>2
    <3>2. /\ told' = told /\ seen' \in [Ids -> SUBSET Nat]
          /\ \A i \in 1..Len(told) : told[i] = Failed(report)[i].id
      BY <2>1 DEF Going, TypeOK
    <3> QED  BY <1>1, <1>2, <2>2, <2>3, <2>5, <3>1, <3>2, TurnTo
  <2>6. CASE Sent("failure") /\ Resume
    <3>1. offset' \in Nat /\ UNCHANGED <<agent, subject>>  BY <2>3, <2>4, <2>6 DEF Resume
    <3>2. TypeOK'  BY <2>1, <2>3, <3>1 DEF Going, TypeOK
    <3> QED  BY <1>1, <2>1, <3>1, <3>2 DEF Going
  <2>7. CASE agent' = "log" /\ offset' = 0 /\ UNCHANGED subject
    <3>1. TypeOK'  BY <2>1, <2>3, <2>7 DEF Going, TypeOK
    <3> QED  BY <1>1, <2>1, <2>2, <2>7, <3>1 DEF Going
  <2> QED  BY <2>1, <2>5, <2>6, <2>7
<1>8. CASE ReadLog /\ ~reply'.accepted
  <2>1. agent' = "refused" /\ UNCHANGED <<report, offset, told, subject, learnt, seen>>
    BY <1>8 DEF ReadLog, Stop
  <2> QED  BY <2>1 DEF Going, TypeOK
<1>9. CASE ReadLog /\ reply'.accepted
  <2>1. /\ agent = "log" /\ UNCHANGED <<report, told, learnt>>
        /\ \/ Sent("evidence") /\ Resume
           \/ ~Sent("evidence") /\ Proceed(subject + 1)
    BY <1>9 DEF ReadLog
  <2>2. /\ subject \in 1..Len(told) /\ Len(told) = Len(Failed(report))
    BY <2>1, SubjectFacts
  <2>3. /\ seen' \in [Ids -> SUBSET Nat]
        /\ Sent("evidence") => reply'.next.offset \in Nat
    <3> DEFINE log == Failed(report)[subject].log
    <3>1. /\ log \in Logs /\ seen' \in [Ids -> SUBSET Nat]
          /\ Sent("evidence") => reply'.next.offset = Least(offset + MaxRawChunk, Len(log))
      BY <1>9, SeenStep
    <3>2. Len(log) \in Nat /\ offset \in Nat  BY <3>1, LogFacts DEF Going, TypeOK
    <3> QED  BY <3>1, <3>2, Limits DEF Least
  <2>4. CASE ~Sent("evidence") /\ Proceed(subject + 1)
    <3>1. subject + 1 \in Nat \ {0} /\ subject + 1 <= Len(told) + 1  BY <1>2, <2>2
    <3>2. /\ told' = told /\ learnt' \in [Ids -> Seq(Nat)]
          /\ \A i \in 1..Len(told) : told[i] = Failed(report)[i].id
      BY <2>1 DEF Going, TypeOK
    <3> QED  BY <1>1, <1>2, <2>2, <2>3, <2>4, <3>1, <3>2, TurnTo
  <2>5. CASE Sent("evidence") /\ Resume
    <3>1. offset' \in Nat /\ UNCHANGED <<agent, subject>>  BY <2>3, <2>5 DEF Resume
    <3>2. TypeOK'  BY <2>1, <2>3, <3>1 DEF Going, TypeOK
    <3> QED  BY <1>1, <2>1, <3>1, <3>2 DEF Going
  <2> QED  BY <2>1, <2>4, <2>5
<1>10. CASE Wander
  <2>1. agent = "done" /\ agent' = "left" /\ UNCHANGED <<report, offset, told, subject, learnt, seen>>
    BY <1>10 DEF Wander
  <2> QED  BY <2>1 DEF Going, TypeOK
<1>11. CASE Lose \/ UNCHANGED vars
  <2>1. UNCHANGED <<agent, offset, told, subject, learnt, seen>>
    BY <1>11 DEF Lose, vars
  <2> QED  BY <1>1, <2>1 DEF Going, TypeOK
<1> QED
  BY <1>3, <1>4, <1>5, <1>6, <1>7, <1>8, <1>9, <1>10, <1>11 DEF Next, Follow, Over

\* Before an agent begins with the first subject it has learnt nothing.
LEMMA NothingLearnt ==
    ASSUME Going, subject = 1, \A c \in Ids : learnt[c] = <<>>, agent # "log",
           agent = "detail" => offset = 0, agent \in {"done", "left"} => told = <<>>
    PROVE  Learning
<1>1. Len(told) \in Nat /\ \A i \in 1..Len(told) : told[i] \in Ids
  BY LenProperties, ElementOfSeq DEF Going, TypeOK
<1>2. \A i \in 1..Len(told) : learnt[told[i]] = <<>>  BY <1>1
<1>3. \A i \in 1..Len(told) : Len(Failed(report)[i].findings) \in Nat
  BY <1>1, FailedType DEF Going
<1>4. Len(<<>>) = 0  BY EmptySeq
<1>5. \A i \in 1..Len(told) : Gathered(learnt[told[i]], Failed(report)[i].findings)
  BY <1>2, <1>3, <1>4 DEF Gathered
<1>6. agent = "detail" => subject \in 1..Len(told)
  BY <1>1 DEF Going
<1>7. agent \in {"done", "left"} => \A i \in subject..Len(told) : FALSE
  BY <1>4
<1> QED  BY <1>1, <1>2, <1>4, <1>5, <1>6, <1>7 DEF Learning

\* An agent that has not begun has learnt nothing.
LEMMA LearningInitial == Init => Learning
<1> SUFFICES ASSUME Init PROVE Learning  OBVIOUS
<1>1. Going  BY GoingInitial
<1>2. subject = 1 /\ agent = "start" /\ \A c \in Ids : learnt[c] = <<>>  BY DEF Init
<1> QED  BY <1>1, <1>2, NothingLearnt

\* Each step keeps what the agent has learnt in order.
LEMMA LearningStep ==
    ASSUME Going, Learning, [Next]_vars
    PROVE  Learning'
<1>0. Going'  BY GoingStep
<1>1. Failed(report') = Failed(report)  BY ReplyStep
<1>2. /\ told \in Seq(Ids) /\ Len(told) \in Nat /\ subject \in 1..(Len(told) + 1) /\ offset \in Nat
      /\ \A i \in 1..Len(told) : told[i] \in Ids
  BY LenProperties, ElementOfSeq DEF Going, TypeOK
<1>3. CASE VerifyAgent \/ VerifyWorker
  <2>1. /\ agent = "start" /\ agent' \in {"refused", "list", "done"}
        /\ agent' = "done" =>
              /\ told' = IdsOf(Failed(report))
              /\ \A i \in 1..Len(Failed(report)) :
                    learnt'[Failed(report)[i].id] = FirstFindings(Failed(report)[i])
        /\ agent' # "done" => learnt' = learnt
        /\ UNCHANGED <<report, offset, subject, seen>>
    BY <1>3, BeginStep
  <2>2. subject' = 1 /\ agent' # "log" /\ agent' # "detail"
        /\ (agent' # "done" => \A c \in Ids : learnt'[c] = <<>>)
    BY <2>1 DEF Going, Learning
  <2>3. (Going /\ subject = 1 /\ (\A c \in Ids : learnt[c] = <<>>) /\ agent # "log"
         /\ (agent = "detail" => offset = 0) /\ (agent \in {"done", "left"} => told = <<>>) => Learning)'
    BY NothingLearnt, PTL
  <2>4. CASE agent' # "done"
    <3>1. agent' \notin {"done", "left"}  BY <2>1, <2>4
    <3> QED  BY <1>0, <2>2, <2>3, <2>4, <3>1
  <2>5. CASE agent' = "done"
    <3> DEFINE F == Failed(report)
    <3>1. /\ F \in Seq(AnyCheck) /\ Len(F) \in Nat /\ \A i \in 1..Len(F) : F[i] \in AnyCheck
          /\ \A i \in 1..Len(F) : Len(F[i].findings) \in Nat
      BY FailedType
    <3>2. /\ Len(told') = Len(F) /\ \A i \in 1..Len(F) : told'[i] = F[i].id
      BY <2>1, <2>5, <3>1, IdsFacts
    <3> HIDE DEF F
    <3>3. \A i \in 1..Len(F) :
             /\ Len(learnt'[told'[i]]) = Least(MaxFailureFindings, Len(F[i].findings))
             /\ \A k \in 1..Len(learnt'[told'[i]]) : learnt'[told'[i]][k] = Bounded(F[i].findings[k])
      <4>1. \A i \in 1..Len(F) : learnt'[told'[i]] = FirstFindings(F[i])
        BY <2>1, <2>5, <3>2 DEF F
      <4>2. \A i \in 1..Len(F) :
               /\ Len(FirstFindings(F[i])) = Least(MaxFailureFindings, Len(F[i].findings))
               /\ \A k \in 1..Len(FirstFindings(F[i])) :
                     FirstFindings(F[i])[k] = Bounded(F[i].findings[k])
        BY <3>1, FirstFindingsOf
      <4> QED  BY <4>1, <4>2
    <3>4. \A i \in 1..Len(F) : Gathered(learnt'[told'[i]], F[i].findings)
      <4> SUFFICES ASSUME NEW i \in 1..Len(F) PROVE Gathered(learnt'[told'[i]], F[i].findings)  OBVIOUS
      <4>1. Least(MaxFailureFindings, Len(F[i].findings)) <= Len(F[i].findings)
        BY <3>1, Limits DEF Least
      <4> QED  BY <3>3, <4>1 DEF Gathered
    <3>5. subject' = 1 /\ \A i \in 1..(subject' - 1) : FALSE  BY <2>2
    <3>6. /\ \A i \in 1..Len(told') : Gathered(learnt'[told'[i]], F[i].findings)
          /\ \A i \in subject'..Len(told') :
                Len(learnt'[told'[i]]) = Least(MaxFailureFindings, Len(F[i].findings))
      BY <3>2, <3>3, <3>4, <3>5
    <3> QED  BY <1>1, <2>5, <3>5, <3>6 DEF Learning, F
  <2> QED  BY <2>4, <2>5
<1>4. CASE (List \/ Detail \/ ReadLog) /\ ~reply'.accepted
  <2>1. /\ agent \in {"list", "detail", "log"} /\ agent' = "refused"
        /\ UNCHANGED <<report, offset, told, subject, learnt, seen>>
    BY <1>4 DEF List, Detail, ReadLog, Stop
  <2> QED  BY <2>1 DEF Learning
<1>5. CASE List /\ reply'.accepted
  <2>1. /\ UNCHANGED <<report, learnt, seen>>
        /\ \/ Sent("failures") /\ Resume
           \/ ~Sent("failures") /\ Proceed(1)
    BY <1>5, ToldStep
  <2>2. agent = "list" /\ subject = 1 /\ \A c \in Ids : learnt[c] = <<>>
    BY <1>5 DEF List, Going, Learning
  <2>3. subject' = 1 /\ (\A c \in Ids : learnt'[c] = <<>>) /\ agent' # "log" /\ (agent' = "detail" => offset' = 0)
    BY <2>1, <2>2 DEF Resume, Proceed
  <2>5. agent' \in {"done", "left"} => told' = <<>>
    <3>1. told' \in Seq(Ids)  BY <1>0 DEF Going, TypeOK
    <3>2. agent' \in {"done", "left"} => 1 > Len(told')  BY <2>1, <2>2 DEF Resume, Proceed
    <3> QED  BY <3>1, <3>2, LenProperties, EmptySeq
  <2>4. (Going /\ subject = 1 /\ (\A c \in Ids : learnt[c] = <<>>) /\ agent # "log"
         /\ (agent = "detail" => offset = 0) /\ (agent \in {"done", "left"} => told = <<>>) => Learning)'
    BY NothingLearnt, PTL
  <2> QED  BY <1>0, <2>3, <2>4, <2>5
<1>7. CASE Detail /\ reply'.accepted
  <2> DEFINE c == told[subject]
             f(i) == Failed(report)[i].findings
  <2>1. /\ agent = "detail" /\ UNCHANGED <<report, told, seen>>
        /\ \/ Sent("failure") /\ Resume
           \/ ~Sent("failure") /\ agent' = "log" /\ offset' = 0 /\ UNCHANGED subject
           \/ ~Sent("failure") /\ Proceed(subject + 1)
    BY <1>7 DEF Detail
  <2>2. /\ subject \in 1..Len(told) /\ c \in Ids
        /\ \A i \in 1..Len(told) : told[i] \in Ids /\ (told[i] = c => i = subject)
    BY <2>1, SubjectFacts
  <2>3. /\ \A d \in Ids : d # c => learnt'[d] = learnt[d]
        /\ Gathered(learnt'[c], f(subject))
        /\ Sent("failure") => reply'.next.offset = Len(learnt'[c])
        /\ ~Sent("failure") => Len(learnt'[c]) = Len(f(subject))
    BY <1>7, LearntStep
  <2> HIDE DEF c
  <2>4. \A i \in 1..Len(told) : i # subject => learnt'[told[i]] = learnt[told[i]]
    BY <2>2, <2>3
  <2>5. \A i \in 1..Len(told) : Gathered(learnt'[told[i]], f(i))
    BY <2>3, <2>4 DEF Learning, c
  <2>6. \A i \in 1..(subject - 1) : i \in 1..Len(told) /\ i # subject
    BY <1>2, <2>2
  <2>7. \A i \in 1..(subject - 1) : Len(learnt'[told[i]]) = Len(f(i))
    BY <2>4, <2>6 DEF Learning
  <2>8. \A i \in (subject + 1)..Len(told) : i \in 1..Len(told) /\ i # subject
    BY <1>2, <2>2
  <2>9. \A i \in (subject + 1)..Len(told) : learnt'[told[i]] = <<>>
    BY <2>1, <2>4, <2>8 DEF Learning
  <2>10. CASE Sent("failure") /\ Resume
    <3>1. UNCHANGED <<agent, subject>> /\ offset' = Len(learnt'[c])  BY <2>3, <2>10 DEF Resume
    <3> QED  BY <1>1, <2>1, <2>5, <2>7, <2>9, <3>1 DEF Learning, c
  <2>11. CASE ~Sent("failure") /\ agent' = "log" /\ offset' = 0 /\ UNCHANGED subject
    BY <1>1, <2>1, <2>3, <2>5, <2>7, <2>9, <2>11 DEF Learning, c
  <2>12. CASE ~Sent("failure") /\ Proceed(subject + 1)
    <3>1. /\ subject' = subject + 1 /\ offset' = 0
          /\ agent' = IF subject + 1 > Len(told) THEN "done" ELSE "detail"
      BY <2>1, <2>12 DEF Proceed
    <3>2. \A i \in 1..(subject' - 1) : Len(learnt'[told[i]]) = Len(f(i))
      <4>1. \A i \in 1..(subject' - 1) : i \in 1..(subject - 1) \/ i = subject  BY <1>2, <3>1
      <4> QED  BY <2>3, <2>7, <2>12, <4>1 DEF c
    <3>3. \A i \in (subject' + 1)..Len(told) : learnt'[told[i]] = <<>>
      <4>1. \A i \in (subject' + 1)..Len(told) : i \in (subject + 1)..Len(told)  BY <1>2, <3>1
      <4> QED  BY <2>9, <4>1
    <3>4. agent' = "detail" => Len(learnt'[told[subject']]) = offset'
      <4> SUFFICES ASSUME agent' = "detail" PROVE Len(learnt'[told[subject']]) = 0  BY <3>1
      <4>1. subject' \in (subject + 1)..Len(told)  BY <1>2, <3>1
      <4> QED  BY <2>9, <4>1, EmptySeq
    <3>5. agent' \in {"done", "left"} => \A i \in subject'..Len(told) : FALSE  BY <1>2, <3>1
    <3> QED  BY <1>1, <2>1, <2>5, <3>1, <3>2, <3>3, <3>4, <3>5 DEF Learning
  <2> QED  BY <2>1, <2>10, <2>11, <2>12
<1>9. CASE ReadLog /\ reply'.accepted
  <2>1. /\ agent = "log" /\ UNCHANGED <<report, told, learnt>>
        /\ \/ Sent("evidence") /\ Resume
           \/ ~Sent("evidence") /\ Proceed(subject + 1)
    BY <1>9 DEF ReadLog
  <2>2. CASE Sent("evidence") /\ Resume
    <3>1. UNCHANGED <<agent, subject>>  BY <2>2 DEF Resume
    <3> QED  BY <1>1, <2>1, <3>1 DEF Learning
  <2>3. CASE ~Sent("evidence") /\ Proceed(subject + 1)
    <3>1. /\ subject' = subject + 1 /\ offset' = 0
          /\ agent' = IF subject + 1 > Len(told) THEN "done" ELSE "detail"
      BY <2>1, <2>3 DEF Proceed
    <3>2. \A i \in 1..(subject' - 1) : Len(learnt[told[i]]) = Len(Failed(report)[i].findings)
      <4>1. \A i \in 1..(subject' - 1) : i \in 1..(subject - 1) \/ i = subject  BY <1>2, <3>1
      <4> QED  BY <2>1, <4>1 DEF Learning
    <3>3. \A i \in (subject' + 1)..Len(told) : learnt[told[i]] = <<>>
      <4>1. \A i \in (subject' + 1)..Len(told) : i \in (subject + 1)..Len(told)  BY <1>2, <3>1
      <4> QED  BY <2>1, <4>1 DEF Learning
    <3>4. agent' = "detail" => Len(learnt[told[subject']]) = offset'
      <4> SUFFICES ASSUME agent' = "detail" PROVE Len(learnt[told[subject']]) = 0  BY <3>1
      <4>1. subject' \in (subject + 1)..Len(told)  BY <1>2, <3>1
      <4> QED  BY <2>1, <4>1, EmptySeq DEF Learning
    <3>5. agent' \in {"done", "left"} => \A i \in subject'..Len(told) : FALSE  BY <1>2, <3>1
    <3> QED  BY <1>1, <2>1, <3>1, <3>2, <3>3, <3>4, <3>5 DEF Learning
  <2> QED  BY <2>1, <2>2, <2>3
<1>10. CASE Wander
  <2>1. agent = "done" /\ agent' = "left" /\ UNCHANGED <<report, offset, told, subject, learnt, seen>>
    BY <1>10 DEF Wander
  <2> QED  BY <2>1 DEF Learning
<1>11. CASE Lose \/ UNCHANGED vars
  <2>1. UNCHANGED <<agent, offset, told, subject, learnt, seen>>
    BY <1>11 DEF Lose, vars
  <2> QED  BY <1>1, <2>1 DEF Learning
<1> QED
  BY <1>3, <1>4, <1>5, <1>7, <1>9, <1>10, <1>11 DEF Next, Follow, Over

-----------------------------------------------------------------------------
(* The lines of a log and the markers in them.                             *)

\* A position is in a line that starts where the last end of a line was.
LEMMA StartOf ==
    ASSUME NEW log, NEW p \in Nat \ {0}
    PROVE  /\ LineStart(log, p) \in 1..p
           /\ LineStart(log, p) = 1 \/ log[LineStart(log, p) - 1] = "n"
           /\ \A k \in LineStart(log, p)..(p - 1) : log[k] # "n"
<1> DEFINE before == {0} \union {i \in 1..(p - 1) : log[i] = "n"}
<1>1. before \in SUBSET Nat /\ before # {} /\ p - 1 \in Nat /\ \A x \in before : x <= p - 1
  OBVIOUS
<1>2. Max(before) \in before /\ \A y \in before : y <= Max(before)
  <2> HIDE DEF before
  <2> QED  BY <1>1, MaxOf
<1>3. LineStart(log, p) = 1 + Max(before)  BY DEF LineStart
<1> HIDE DEF LineStart
<1>4. \A k \in 1..(p - 1) : log[k] = "n" => k <= Max(before)  BY <1>2
<1>5. Max(before) \in Nat /\ Max(before) <= p - 1 /\ (Max(before) = 0 \/ log[Max(before)] = "n")
  BY <1>1, <1>2
<1> QED
  <2> HIDE DEF before
  <2> QED  BY <1>3, <1>4, <1>5

\* No other position is the start of its line.
LEMMA StartIs ==
    ASSUME NEW log, NEW p \in Nat \ {0}, NEW s \in 1..p, s = 1 \/ log[s - 1] = "n",
           \A k \in s..(p - 1) : log[k] # "n"
    PROVE  LineStart(log, p) = s
<1> DEFINE l == LineStart(log, p)
<1>1. l \in 1..p /\ (l = 1 \/ log[l - 1] = "n") /\ \A k \in l..(p - 1) : log[k] # "n"
  BY StartOf
<1> HIDE DEF l
<1>2. ~(l < s)
  <2> SUFFICES ASSUME l < s PROVE FALSE  OBVIOUS
  <2>1. s - 1 \in l..(p - 1) /\ log[s - 1] = "n"  BY <1>1
  <2> QED  BY <1>1, <2>1
<1>3. ~(s < l)
  <2> SUFFICES ASSUME s < l PROVE FALSE  OBVIOUS
  <2>1. l - 1 \in s..(p - 1) /\ log[l - 1] = "n"  BY <1>1
  <2> QED  BY <2>1
<1> QED  BY <1>1, <1>2, <1>3 DEF l

\* A line ends at its first end of line, or where the page stops.
LEMMA EndOf ==
    ASSUME NEW log, NEW p \in Nat \ {0}, NEW stop \in Nat, p <= stop
    PROVE  /\ LineEnd(log, p, stop) \in p..stop
           /\ LineEnd(log, p, stop) = stop \/ log[LineEnd(log, p, stop)] = "n"
           /\ \A k \in p..(LineEnd(log, p, stop) - 1) : log[k] # "n"
<1> DEFINE after == {stop} \union {i \in p..stop : log[i] = "n"}
<1>1. after \in SUBSET Nat /\ after # {} /\ \A x \in after : p <= x /\ x <= stop  OBVIOUS
<1>2. Min(after) \in after /\ \A y \in after : Min(after) <= y
  <2> HIDE DEF after
  <2> QED  BY <1>1, MinOf
<1>3. LineEnd(log, p, stop) = Min(after)  BY DEF LineEnd
<1>4. \A k \in p..stop : log[k] = "n" => Min(after) <= k  BY <1>2
<1>5. Min(after) \in p..stop /\ (Min(after) = stop \/ log[Min(after)] = "n")
  BY <1>1, <1>2
<1> QED
  <2> HIDE DEF after
  <2> QED  BY <1>3, <1>4, <1>5

\* No other position is the end of the line.
LEMMA EndIs ==
    ASSUME NEW log, NEW p \in Nat \ {0}, NEW stop \in Nat, NEW t \in p..stop,
           t = stop \/ log[t] = "n", \A k \in p..(t - 1) : log[k] # "n"
    PROVE  LineEnd(log, p, stop) = t
<1> DEFINE l == LineEnd(log, p, stop)
<1>1. l \in p..stop /\ (l = stop \/ log[l] = "n") /\ \A k \in p..(l - 1) : log[k] # "n"
  BY EndOf, SMTT(30)
<1> HIDE DEF l
<1>2. ~(l < t)
  <2> SUFFICES ASSUME l < t PROVE FALSE  OBVIOUS
  <2>1. l \in p..(t - 1) /\ log[l] = "n"  BY <1>1
  <2> QED  BY <2>1
<1>3. ~(t < l)
  <2> SUFFICES ASSUME t < l PROVE FALSE  OBVIOUS
  <2>1. t \in p..(l - 1) /\ log[t] = "n"  BY <1>1
  <2> QED  BY <1>1, <2>1
<1> QED  BY <1>1, <1>2, <1>3 DEF l

\* What a marker between two positions is.
LEMMA MarkersOf ==
    ASSUME NEW log, NEW lo \in Nat, NEW hi \in Nat, NEW i
    PROVE  /\ i \in Begins(log, lo, hi) <=>
                i \in Nat /\ lo <= i /\ i < hi /\ log[i] = "B" /\ log[i + 1] = "b"
           /\ i \in Ends(log, lo, hi) <=>
                i \in Nat /\ lo <= i /\ i < hi /\ log[i] = "E" /\ log[i + 1] = "e"
BY DEF Begins, Ends, Marker

\* A key is open where a begin marker comes after every end marker.
LEMMA OpenMeans ==
    ASSUME NEW log, NEW x \in Nat
    PROVE  KeyOpen(log, x) <=>
             \E b \in Begins(log, 1, x) : \A e \in Ends(log, 1, x) : e < b
<1> DEFINE B == {0} \union Begins(log, 1, x)
           E == {0} \union Ends(log, 1, x)
<1>1. \A i : /\ i \in Begins(log, 1, x) => i \in Nat /\ 1 <= i /\ i <= x
             /\ i \in Ends(log, 1, x) => i \in Nat /\ 1 <= i /\ i <= x
  BY MarkersOf
<1>2. B \in SUBSET Nat /\ B # {} /\ \A i \in B : i <= x  BY <1>1
<1>3. E \in SUBSET Nat /\ E # {} /\ \A i \in E : i <= x  BY <1>1
<1>4. Max(B) \in B /\ \A y \in B : y <= Max(B)
  <2> HIDE DEF B
  <2> QED  BY <1>2, MaxOf
<1>5. Max(E) \in E /\ \A y \in E : y <= Max(E)
  <2> HIDE DEF E
  <2> QED  BY <1>3, MaxOf
<1>6. KeyOpen(log, x) <=> Max(B) > Max(E)  BY DEF KeyOpen
<1>7. Max(B) \in Nat /\ Max(E) \in Nat  BY <1>2, <1>3, <1>4, <1>5
<1>8. ASSUME Max(B) > Max(E)
      PROVE  \E b \in Begins(log, 1, x) : \A e \in Ends(log, 1, x) : e < b
  <2>1. Max(B) # 0  BY <1>7, <1>8
  <2>2. Max(B) \in Begins(log, 1, x)  BY <1>4, <2>1
  <2>3. \A e \in Ends(log, 1, x) : e \in Nat /\ e <= Max(E)  BY <1>1, <1>5
  <2>4. \A e \in Ends(log, 1, x) : e < Max(B)
    <3> HIDE DEF B, E
    <3> QED  BY <1>7, <1>8, <2>3
  <2> QED  BY <2>2, <2>4
<1>9. ASSUME NEW b \in Begins(log, 1, x), \A e \in Ends(log, 1, x) : e < b
      PROVE  Max(B) > Max(E)
  <2>1. b \in Nat /\ 1 <= b /\ b <= Max(B)  BY <1>1, <1>4
  <2>2. Max(E) < b
    <3>1. CASE Max(E) = 0
      <4> HIDE DEF B, E
      <4> QED  BY <2>1, <3>1
    <3>2. CASE Max(E) \in Ends(log, 1, x)
      <4> HIDE DEF E
      <4> QED  BY <1>9, <3>2
    <3> QED  BY <1>5, <3>1, <3>2
  <2> HIDE DEF B, E
  <2> QED  BY <1>7, <2>1, <2>2
<1> QED
  <2> HIDE DEF B, E
  <2> QED  BY <1>6, <1>8, <1>9

-----------------------------------------------------------------------------
(* What a page shows of a log.                                             *)

\* The parts of Shown: where a line or what the page has of it starts, the
\* lines before p that have markers, and whether a key is open at p.
PageStarts(log, o, stop) == {p \in (o + 1)..stop : p = o + 1 \/ log[p - 1] = "n"}

Opens(log, stop, q) == Begins(log, LineStart(log, q), LineEnd(log, q, stop)) # {}
Closes(log, stop, q) == Ends(log, LineStart(log, q), LineEnd(log, q, stop)) # {}

Marked(log, o, stop, p) ==
    {q \in PageStarts(log, o, stop) : q < p /\ (Opens(log, stop, q) \/ Closes(log, stop, q))}

OpenAt(log, o, stop, p) ==
    IF Marked(log, o, stop, p) = {} THEN KeyOpen(log, o)
    ELSE ~Closes(log, stop, Max(Marked(log, o, stop, p)))

\* A line that starts on the page above one that does ends before that starts.
LEMMA EndsAbove ==
    ASSUME NEW log, NEW o \in Nat, NEW stop \in Nat, NEW p \in PageStarts(log, o, stop),
           LineStart(log, p) = p, NEW q \in PageStarts(log, o, stop), q < p
    PROVE  LineEnd(log, q, stop) \in q..(p - 1) /\ log[LineEnd(log, q, stop)] = "n"
<1> DEFINE t == LineEnd(log, q, stop)
<1>1. /\ p \in Nat \ {0} /\ q \in Nat \ {0} /\ o < q /\ p <= stop /\ log[p - 1] = "n"
  BY StartOf DEF PageStarts
<1>2. t \in q..stop /\ (t = stop \/ log[t] = "n") /\ \A k \in q..(t - 1) : log[k] # "n"
  BY <1>1, EndOf
<1> HIDE DEF t
<1>3. t <= p - 1
  <2> SUFFICES ASSUME p - 1 < t PROVE FALSE  BY <1>1, <1>2
  <2>1. p - 1 \in q..(t - 1)  BY <1>1, <1>2
  <2> QED  BY <1>1, <1>2, <2>1
<1>4. log[t] = "n"  BY <1>1, <1>2, <1>3
<1> QED  BY <1>1, <1>2, <1>3, <1>4 DEF t

\* A marker on the page, or across its beginning, is in a line of the page.
LEMMA MarkerLine ==
    ASSUME NEW log, NEW o \in Nat, NEW stop \in Nat, NEW p \in PageStarts(log, o, stop),
           LineStart(log, p) = p, NEW i \in Nat \ {0}, o <= i, i + 1 <= p - 1, log[i] # "n"
    PROVE  \E q \in PageStarts(log, o, stop) :
              q < p /\ LineStart(log, q) <= i /\ i + 1 <= LineEnd(log, q, stop)
<1> DEFINE y == i + 1
           s == LineStart(log, y)
           q == IF s <= o THEN o + 1 ELSE s
           t == LineEnd(log, q, stop)
<1>1. p \in Nat \ {0} /\ p <= stop  BY DEF PageStarts
<1>2. y \in Nat \ {0} /\ s \in 1..y /\ (s = 1 \/ log[s - 1] = "n") /\ \A k \in s..(y - 1) : log[k] # "n"
  BY StartOf
<1>3. y - 1 = i /\ y > 1 /\ o < y /\ y <= p - 1  OBVIOUS
<1> HIDE DEF y, s
<1>4. s <= i  BY <1>2, <1>3
<1>5. q \in Nat \ {0} /\ q \in PageStarts(log, o, stop) /\ q < p /\ s <= q /\ q <= y
  BY <1>1, <1>2, <1>3 DEF PageStarts
<1> HIDE DEF q
<1>6. LineStart(log, q) = s
  <2>1. s \in 1..q /\ \A k \in s..(q - 1) : log[k] # "n"  BY <1>2, <1>3, <1>5
  <2> QED  BY <1>2, <1>5, <2>1, StartIs
<1>7. t \in q..stop /\ log[t] = "n"
  BY <1>1, <1>5, EndsAbove
<1> HIDE DEF t
<1>8. y <= t
  <2> SUFFICES ASSUME t < y PROVE FALSE  BY <1>2, <1>7
  <2>1. t \in s..(y - 1)  BY <1>2, <1>5, <1>7
  <2> QED  BY <1>2, <1>7, <2>1
<1> QED  BY <1>4, <1>5, <1>6, <1>8 DEF y, t

\* If no marker is on the page above p, a key is open where one was at its beginning.
LEMMA OpenUnmarked ==
    ASSUME NEW log, NEW o \in Nat, NEW stop \in Nat, NEW p \in PageStarts(log, o, stop),
           LineStart(log, p) = p, Marked(log, o, stop, p) = {}
    PROVE  KeyOpen(log, o) <=> KeyOpen(log, p - 1)
<1>1. p \in Nat \ {0} /\ o < p /\ p - 1 \in Nat  BY DEF PageStarts
<1>2. ASSUME NEW i \in Nat \ {0}, i + 1 <= p - 1, o <= i,
             (log[i] = "B" /\ log[i + 1] = "b") \/ (log[i] = "E" /\ log[i + 1] = "e")
      PROVE  FALSE
  <2>1. PICK q \in PageStarts(log, o, stop) :
                 q < p /\ LineStart(log, q) <= i /\ i + 1 <= LineEnd(log, q, stop)
    BY <1>2, MarkerLine
  <2>2. LineStart(log, q) \in Nat /\ LineEnd(log, q, stop) \in Nat
    <3>1. q \in Nat \ {0} /\ q <= stop  BY DEF PageStarts
    <3>2. LineStart(log, q) \in 1..q /\ LineEnd(log, q, stop) \in q..stop
      BY <3>1, StartOf, EndOf
    <3> QED  BY <3>1, <3>2
  <2>3. i < LineEnd(log, q, stop)  BY <2>1, <2>2
  <2>4. Opens(log, stop, q) \/ Closes(log, stop, q)
    BY <1>2, <2>1, <2>2, <2>3, MarkersOf DEF Opens, Closes
  <2> QED  BY <2>1, <2>4 DEF Marked
<1>3. ASSUME NEW i PROVE i \in Begins(log, 1, p - 1) <=> i \in Begins(log, 1, o)
  BY <1>1, <1>2, MarkersOf
<1>4. ASSUME NEW i PROVE i \in Ends(log, 1, p - 1) <=> i \in Ends(log, 1, o)
  BY <1>1, <1>2, MarkersOf
<1>5. Begins(log, 1, p - 1) = Begins(log, 1, o) /\ Ends(log, 1, p - 1) = Ends(log, 1, o)
  BY <1>3, <1>4
<1> QED  BY <1>5 DEF KeyOpen

\* No marker above p is below the last line with markers.
LEMMA LastMarked ==
    ASSUME NEW log, NEW o \in Nat, NEW stop \in Nat, NEW p \in PageStarts(log, o, stop),
           LineStart(log, p) = p, NEW m \in Marked(log, o, stop, p),
           \A q \in Marked(log, o, stop, p) : q <= m,
           NEW i \in Nat \ {0}, i < p - 1,
           (log[i] = "B" /\ log[i + 1] = "b") \/ (log[i] = "E" /\ log[i + 1] = "e")
    PROVE  i < LineEnd(log, m, stop)
<1> DEFINE t == LineEnd(log, m, stop)
<1>1. /\ p \in Nat \ {0} /\ m \in PageStarts(log, o, stop) /\ m \in Nat \ {0} /\ o < m /\ m < p
      /\ p <= stop /\ m <= stop
  BY DEF Marked, PageStarts
<1>2. t \in m..stop  BY <1>1, EndOf
<1> HIDE DEF t
<1>3. CASE i < o  BY <1>1, <1>2, <1>3 DEF t
<1>4. CASE o <= i
  <2>1. PICK q \in PageStarts(log, o, stop) :
                 q < p /\ LineStart(log, q) <= i /\ i + 1 <= LineEnd(log, q, stop)
    BY <1>1, <1>4, MarkerLine
  <2>2. LineStart(log, q) \in Nat /\ LineEnd(log, q, stop) \in Nat /\ q \in Nat \ {0} /\ o < q
    <3>1. q \in Nat \ {0} /\ q <= stop /\ o < q  BY DEF PageStarts
    <3>2. LineStart(log, q) \in 1..q /\ LineEnd(log, q, stop) \in q..stop
      BY <3>1, StartOf, EndOf
    <3> QED  BY <3>1, <3>2
  <2>3. i < LineEnd(log, q, stop)  BY <2>1, <2>2
  <2>4. Opens(log, stop, q) \/ Closes(log, stop, q)
    BY <2>1, <2>2, <2>3, MarkersOf DEF Opens, Closes
  <2>5. q <= m  BY <2>1, <2>4 DEF Marked
  <2>6. CASE q = m  BY <2>3, <2>6
  <2>7. CASE q < m
    <3>1. log[m - 1] = "n"  BY <1>1, <2>2, <2>7 DEF PageStarts
    <3>2. LineEnd(log, q, stop) <= m - 1
      <4>1. /\ LineEnd(log, q, stop) \in q..stop
            /\ \A k \in q..(LineEnd(log, q, stop) - 1) : log[k] # "n"
        BY <1>1, <2>2, <2>7, EndOf
      <4>2. m - 1 \notin q..(LineEnd(log, q, stop) - 1)  BY <3>1, <4>1
      <4> QED  BY <1>1, <2>2, <2>7, <4>1, <4>2
    <3> QED  BY <1>1, <1>2, <2>2, <2>3, <3>2 DEF t
  <2> QED  BY <1>1, <2>2, <2>5, <2>6, <2>7
<1> QED  BY <1>1, <1>3, <1>4

Positions(log) == DOMAIN log = 1..Len(log)

\* A line that ends above another of the page ends there in the whole log too.
LEMMA OpenMarked ==
    ASSUME NEW log, Positions(log), Len(log) \in Nat, Settled(log),
           NEW o \in Nat, NEW stop \in Nat, stop <= Len(log),
           NEW p \in PageStarts(log, o, stop), LineStart(log, p) = p,
           NEW m \in Marked(log, o, stop, p), \A q \in Marked(log, o, stop, p) : q <= m
    PROVE  ~Closes(log, stop, m) <=> KeyOpen(log, p - 1)
<1> DEFINE s == LineStart(log, m)
           t == LineEnd(log, m, stop)
<1>1. /\ p \in Nat \ {0} /\ m \in PageStarts(log, o, stop) /\ m \in Nat \ {0} /\ m < p
      /\ p <= stop /\ p - 1 \in Nat /\ (Opens(log, stop, m) \/ Closes(log, stop, m))
  BY DEF Marked, PageStarts
<1>2. s \in 1..m  BY <1>1, StartOf
<1>3. t \in m..(p - 1) /\ log[t] = "n" /\ \A k \in m..(t - 1) : log[k] # "n"
  <2>1. t \in m..(p - 1) /\ log[t] = "n"  BY <1>1, EndsAbove
  <2>2. m <= stop  BY <1>1
  <2> QED  BY <1>1, <2>1, <2>2, EndOf
<1>4. LineEnd(log, m, Len(log)) = t
  <2>1. Len(log) \in Nat /\ t \in m..Len(log)  BY <1>1, <1>3
  <2> HIDE DEF t
  <2> QED  BY <1>1, <1>3, <2>1, EndIs
<1>5. ASSUME NEW i \in Nat \ {0}, i \in Begins(log, 1, p - 1) \/ i \in Ends(log, 1, p - 1)
      PROVE  i < t
  <2>1. i < p - 1 /\ ((log[i] = "B" /\ log[i + 1] = "b") \/ (log[i] = "E" /\ log[i + 1] = "e"))
    BY <1>1, <1>5, MarkersOf
  <2> QED  BY <2>1, LastMarked
<1> HIDE DEF s, t
<1>6. \A i : /\ i \in Begins(log, s, t) <=> i \in Begins(log, 1, p - 1) /\ s <= i
             /\ i \in Ends(log, s, t) <=> i \in Ends(log, 1, p - 1) /\ s <= i
  <2> SUFFICES ASSUME NEW i
               PROVE  /\ i \in Begins(log, s, t) <=> i \in Begins(log, 1, p - 1) /\ s <= i
                      /\ i \in Ends(log, s, t) <=> i \in Ends(log, 1, p - 1) /\ s <= i
    OBVIOUS
  <2>1. t \in Nat /\ s \in Nat /\ 1 <= s /\ t <= p - 1  BY <1>1, <1>2, <1>3
  <2>2. i \in Begins(log, s, t) <=> i \in Begins(log, 1, p - 1) /\ s <= i
    BY <1>1, <1>5, <2>1, MarkersOf
  <2>3. i \in Ends(log, s, t) <=> i \in Ends(log, 1, p - 1) /\ s <= i
    BY <1>1, <1>5, <2>1, MarkersOf
  <2> QED  BY <2>2, <2>3
<1>7. \A i : (i \in Begins(log, 1, p - 1) \/ i \in Ends(log, 1, p - 1)) => i \in Nat
  BY <1>1, MarkersOf
<1>8. /\ Opens(log, stop, m) <=> Begins(log, s, t) # {}
      /\ Closes(log, stop, m) <=> Ends(log, s, t) # {}
  BY DEF Opens, Closes, s, t
<1>9. ASSUME Ends(log, s, t) # {} PROVE ~KeyOpen(log, p - 1)
  <2> SUFFICES ASSUME KeyOpen(log, p - 1) PROVE FALSE  OBVIOUS
  <2>1. PICK b \in Begins(log, 1, p - 1) : \A e \in Ends(log, 1, p - 1) : e < b
    BY <1>1, OpenMeans
  <2>2. PICK e \in Ends(log, s, t) : TRUE  BY <1>9
  <2>3. b \in Begins(log, s, t)
    <3>1. e < b /\ s <= e /\ b \in Nat /\ e \in Nat  BY <1>6, <1>7, <2>1, <2>2
    <3> QED  BY <1>2, <1>6, <3>1
  <2>4. m \in DOMAIN log  BY <1>1 DEF Positions
  <2>5. PICK f \in Ends(log, s, t) : b < f
    BY <1>4, <1>9, <2>3, <2>4 DEF Settled, s
  <2>6. f < b  BY <1>6, <2>1, <2>5
  <2> QED  BY <1>6, <1>7, <2>1, <2>5, <2>6
<1>10. ASSUME Ends(log, s, t) = {} PROVE KeyOpen(log, p - 1)
  <2>1. PICK b \in Begins(log, s, t) : TRUE  BY <1>1, <1>8, <1>10
  <2>2. b \in Begins(log, 1, p - 1) /\ s <= b /\ b \in Nat  BY <1>6, <1>7, <2>1
  <2>3. \A e \in Ends(log, 1, p - 1) : e \in Nat /\ e < s
    BY <1>2, <1>6, <1>7, <1>10
  <2>4. \A e \in Ends(log, 1, p - 1) : e < b  BY <1>2, <2>2, <2>3
  <2> QED  BY <1>1, <2>2, <2>4, OpenMeans
<1> QED  BY <1>8, <1>9, <1>10

\* Whether a key is open at the start of a line does not depend on the page.
LEMMA OpenIs ==
    ASSUME NEW log, Positions(log), Len(log) \in Nat, Settled(log),
           NEW o \in Nat, NEW stop \in Nat, stop <= Len(log),
           NEW p \in PageStarts(log, o, stop), LineStart(log, p) = p
    PROVE  OpenAt(log, o, stop, p) <=> KeyOpen(log, p - 1)
<1>1. CASE Marked(log, o, stop, p) = {}  BY <1>1, OpenUnmarked DEF OpenAt
<1>2. CASE Marked(log, o, stop, p) # {}
  <2> DEFINE M == Marked(log, o, stop, p)
  <2>1. M \in SUBSET Nat /\ \A q \in M : q <= stop  BY DEF Marked, PageStarts
  <2>2. Max(M) \in M /\ \A q \in M : q <= Max(M)
    <3> HIDE DEF M
    <3> QED  BY <1>2, <2>1, MaxOf DEF M
  <2>3. ~Closes(log, stop, Max(M)) <=> KeyOpen(log, p - 1)
    BY <2>2, OpenMarked
  <2> QED  BY <1>2, <2>3 DEF OpenAt
<1> QED  BY <1>1, <1>2

\* What Shown says, in these terms.
LEMMA ShownMeans ==
    ASSUME NEW log, NEW o, NEW stop, NEW x
    PROVE  x \in Shown(log, o, stop) <=>
             \E p \in PageStarts(log, o, stop) :
                /\ LineStart(log, p) = p
                /\ log[LineEnd(log, p, stop)] = "n" \/ stop = Len(log)
                /\ ~Opens(log, stop, p) /\ ~OpenAt(log, o, stop, p)
                /\ x \in p..LineEnd(log, p, stop)
BY DEF Shown, PageStarts, Opens, Closes, Marked, OpenAt

\* The ends of pages are as far apart as a page is long.
LEMMA PagesApart ==
    ASSUME NEW o \in Nat, PageEnd(o)
    PROVE  /\ PageEnd(o + MaxRawChunk)
           /\ \A q \in Nat : PageEnd(q) /\ o < q => o + MaxRawChunk <= q
<1> DEFINE m == MaxRawChunk
<1>0. m \in Nat \ {0}  BY Limits
<1> HIDE DEF m
<1>1. ASSUME NEW q \in Nat PROVE PageEnd(q) <=> \E k \in Nat : q = m * k
  <2>1. PageEnd(q) <=> q % m = 0  BY DEF PageEnd, m
  <2>2. ASSUME q % m = 0 PROVE \E k \in Nat : q = m * k
    <3>1. q \div m \in Nat /\ q = m * (q \div m) + (q % m)  BY <1>0
    <3>2. q = m * (q \div m)  BY <1>0, <2>2, <3>1
    <3> QED  BY <3>1, <3>2
  <2>3. ASSUME NEW k \in Nat, q = m * k PROVE q % m = 0
    BY <1>0, <2>3
  <2> QED  BY <2>1, <2>2, <2>3
<1>2. PICK k \in Nat : o = m * k  BY <1>1
<1>3. PageEnd(o + m)
  <2>1. o + m = m * (k + 1) /\ o + m \in Nat /\ k + 1 \in Nat  BY <1>0, <1>2
  <2> QED  BY <1>1, <2>1
<1>4. ASSUME NEW q \in Nat, PageEnd(q), o < q PROVE o + m <= q
  <2>1. PICK j \in Nat : q = m * j  BY <1>1, <1>4
  <2>2. m * k < m * j  BY <1>2, <1>4, <2>1
  <2>3. k < j
    <3> SUFFICES ASSUME j <= k PROVE FALSE  OBVIOUS
    <3>1. PICK d \in Nat : k = j + d  BY k - j \in Nat
    <3>2. m * k = m * j + m * d /\ m * d \in Nat  BY <1>0, <3>1
    <3>3. m * j \in Nat /\ m * k \in Nat  BY <1>0
    <3> QED  BY <2>2, <3>2, <3>3
  <2>4. PICK d \in Nat : j = k + 1 + d  BY <2>3, j - (k + 1) \in Nat
  <2>5. m * j = m * k + m + m * d /\ m * d \in Nat /\ m * k \in Nat  BY <1>0, <2>4
  <2> QED  BY <1>0, <1>2, <2>1, <2>5
<1> QED  BY <1>3, <1>4 DEF m

\* Of a settled log, a page shows the lines that are due, and no others.
LEMMA PageShows ==
    ASSUME NEW log, Positions(log), Len(log) \in Nat, Settled(log),
           NEW o \in Nat, o <= Len(log), PageEnd(o),
           NEW stop, stop = Least(o + MaxRawChunk, Len(log)), NEW x
    PROVE  x \in Shown(log, o, stop) <=> x \in DueLines(log) /\ x \in (o + 1)..stop
<1> DEFINE N == Len(log)
           s == LineStart(log, x)
           t == LineEnd(log, x, N)
<1>1. /\ stop \in Nat /\ o <= stop /\ stop <= N /\ N \in Nat /\ MaxRawChunk \in Nat \ {0}
      /\ stop = N \/ stop = o + MaxRawChunk
  BY Limits DEF Least
<1>2. /\ PageEnd(o + MaxRawChunk)
      /\ \A q \in Nat : PageEnd(q) /\ o < q => o + MaxRawChunk <= q
  BY <1>1, PagesApart
<1>3. stop <= o + MaxRawChunk  BY <1>1 DEF Least
<1>4. ASSUME x \in Shown(log, o, stop)
      PROVE  x \in DueLines(log) /\ x \in (o + 1)..stop
  <2>1. PICK p \in PageStarts(log, o, stop) :
                /\ LineStart(log, p) = p
                /\ log[LineEnd(log, p, stop)] = "n" \/ stop = Len(log)
                /\ ~Opens(log, stop, p) /\ ~OpenAt(log, o, stop, p)
                /\ x \in p..LineEnd(log, p, stop)
    BY <1>4, ShownMeans
  <2> DEFINE u == LineEnd(log, p, stop)
  <2>2. /\ p \in Nat \ {0} /\ o < p /\ p <= stop /\ p - 1 \in Nat
        /\ p = 1 \/ log[p - 1] = "n"
    <3>1. p \in Nat \ {0} /\ o < p /\ p <= stop /\ p - 1 \in Nat  BY <1>1 DEF PageStarts
    <3> QED  BY <2>1, <3>1, StartOf
  <2>3. u \in p..stop /\ (u = stop \/ log[u] = "n") /\ \A k \in p..(u - 1) : log[k] # "n"
    BY <1>1, <2>2, EndOf, ZenonT(30)
  <2> HIDE DEF u
  <2>4. x \in p..u  BY <2>1 DEF u
  <2>5. x \in Nat \ {0} /\ x <= N /\ o < x /\ x <= stop  BY <1>1, <2>2, <2>3, <2>4
  <2>6. s = p
    <3>1. p \in 1..x /\ \A k \in p..(x - 1) : log[k] # "n"  BY <2>2, <2>3, <2>4
    <3> QED  BY <2>2, <2>5, <3>1, StartIs
  <2>7. t = u
    <3>1. u \in x..N /\ (u = N \/ log[u] = "n") /\ \A k \in x..(u - 1) : log[k] # "n"
      BY <1>1, <2>1, <2>2, <2>3, <2>4 DEF u
    <3> QED  BY <1>1, <2>5, <3>1, EndIs
  <2> HIDE DEF s, t
  <2>8. ~Crosses(log, x)
    <3> SUFFICES ASSUME NEW q \in 1..N, PageEnd(q), q \in s..t, q + 1 \in s..t
                 PROVE  FALSE
      BY DEF Crosses, WholeLine, Positions, s, t
    <3>1. o < q /\ q < stop  BY <1>1, <2>2, <2>3, <2>6, <2>7
    <3> QED  BY <1>1, <1>2, <1>3, <3>1
  <2>9. ~KeyLine(log, x)
    <3> SUFFICES ASSUME NEW b \in Begins(log, 1, t), \A e \in Ends(log, 1, p - 1) : e < b
                 PROVE  FALSE
      BY <2>6 DEF KeyLine, s, t
    <3>1. /\ b \in Nat /\ 1 <= b /\ b < u /\ log[b] = "B" /\ log[b + 1] = "b"
      BY <2>2, <2>3, <2>7, MarkersOf
    <3>2. ~(p <= b)
      <4> SUFFICES ASSUME p <= b PROVE FALSE  OBVIOUS
      <4>1. b \in Begins(log, p, u)  BY <2>2, <2>3, <3>1, MarkersOf
      <4> QED  BY <2>1, <4>1 DEF Opens, u
    <3>3. b # p - 1  BY <2>2, <3>1
    <3>4. b \in Begins(log, 1, p - 1)  BY <2>2, <3>1, <3>2, <3>3, MarkersOf
    <3>5. KeyOpen(log, p - 1)  BY <2>2, <3>4, OpenMeans
    <3> QED  BY <1>1, <2>1, <3>5, OpenIs
  <2> QED  BY <2>5, <2>8, <2>9 DEF DueLines, Positions
<1>5. ASSUME x \in DueLines(log), x \in (o + 1)..stop
      PROVE  x \in Shown(log, o, stop)
  <2>1. x \in Nat \ {0} /\ x <= N /\ o < x /\ x <= stop  BY <1>1, <1>5
  <2>2. s \in 1..x /\ (s = 1 \/ log[s - 1] = "n") /\ \A k \in s..(x - 1) : log[k] # "n"
    BY <2>1, StartOf
  <2>3. t \in x..N /\ (t = N \/ log[t] = "n") /\ \A k \in x..(t - 1) : log[k] # "n"
    BY <1>1, <2>1, EndOf
  <2>4. ~KeyLine(log, x) /\ ~Crosses(log, x)  BY <1>5 DEF DueLines
  <2>5. \A q \in 1..N : ~(PageEnd(q) /\ q \in s..t /\ q + 1 \in s..t)
    BY <2>4 DEF Crosses, WholeLine, Positions
  <2>6. \A b \in Begins(log, 1, t) : \E e \in Ends(log, 1, s - 1) : ~(e < b)
    BY <2>4 DEF KeyLine
  <2> HIDE DEF s, t
  <2>7. o < s
    <3> SUFFICES ASSUME s <= o PROVE FALSE  BY <2>2
    <3>1. o \in 1..N /\ o \in s..t /\ o + 1 \in s..t  BY <1>1, <2>1, <2>2, <2>3
    <3> QED  BY <2>5, <3>1
  <2>8. t <= stop
    <3> SUFFICES ASSUME stop < t PROVE FALSE  BY <1>1, <2>3
    <3>1. stop = o + MaxRawChunk  BY <1>1, <2>3
    <3>2. stop \in 1..N /\ stop \in s..t /\ stop + 1 \in s..t  BY <1>1, <2>1, <2>2, <2>3
    <3> QED  BY <1>2, <2>5, <3>1, <3>2
  <2>9. s \in PageStarts(log, o, stop)  BY <1>1, <2>1, <2>2, <2>7 DEF PageStarts
  <2>10. LineStart(log, s) = s
    <3>1. s \in Nat \ {0} /\ s \in 1..s  BY <2>2
    <3> QED  BY <2>2, <3>1, StartIs
  <2>11. LineEnd(log, s, stop) = t
    <3>1. /\ s \in Nat \ {0} /\ t \in s..stop /\ (t = stop \/ log[t] = "n")
          /\ \A k \in s..(t - 1) : log[k] # "n"
      BY <1>1, <2>1, <2>2, <2>3, <2>8
    <3> QED  BY <1>1, <3>1, EndIs
  <2>12. log[t] = "n" \/ stop = N  BY <1>1, <2>3, <2>8
  <2>13. t \in Nat /\ s \in Nat /\ s - 1 \in Nat  BY <1>1, <2>1, <2>2, <2>3
  <2>14. \A e \in Ends(log, 1, s - 1) : e \in Nat /\ e < s  BY <2>13, MarkersOf
  <2>15. ~Opens(log, stop, s)
    <3> SUFFICES ASSUME NEW b \in Begins(log, s, t) PROVE FALSE
      BY <2>10, <2>11 DEF Opens
    <3>1. b \in Nat /\ s <= b /\ b \in Begins(log, 1, t)  BY <2>2, <2>13, MarkersOf, SMTT(30)
    <3> QED  BY <2>6, <2>13, <2>14, <3>1
  <2>16. ~OpenAt(log, o, stop, s)
    <3> SUFFICES ASSUME KeyOpen(log, s - 1) PROVE FALSE  BY <1>1, <2>9, <2>10, OpenIs
    <3>1. PICK b \in Begins(log, 1, s - 1) : \A e \in Ends(log, 1, s - 1) : e < b
      BY <2>13, OpenMeans
    <3>2. b \in Begins(log, 1, t)  BY <2>1, <2>2, <2>3, <2>13, MarkersOf
    <3> QED  BY <2>6, <3>1, <3>2
  <2>17. x \in s..t  BY <2>1, <2>2, <2>3
  <2> QED  BY <2>9, <2>10, <2>11, <2>12, <2>15, <2>16, <2>17, ShownMeans
<1> QED  BY <1>4, <1>5

-----------------------------------------------------------------------------
(* What the agent was shown of the logs.                                   *)

Partly(s, log) ==
    /\ log = None => s = {}
    /\ log # None /\ Settled(log) => \A x \in s : x \in DueLines(log)
UpTo(s, log, o) ==
    log # None /\ Settled(log) => PageEnd(o) /\ \A x : x \in s <=> x \in DueLines(log) /\ x <= o
Wholly(s, log) == log # None /\ Settled(log) => \A x : x \in s <=> x \in DueLines(log)

\* Of a log that it has examined the agent was shown all lines that are due, of
\* the one that it reads those up to where it goes on, and of others none.
Looking ==
    LET failed == Failed(report)
        s(i) == seen[failed[i].id]
    IN  /\ \A i \in 1..Len(failed) : Partly(s(i), failed[i].log)
        /\ \A i \in 1..(subject - 1) : Wholly(s(i), failed[i].log)
        /\ \A i \in 1..Len(failed) :
              (i = subject => agent \in {"start", "list", "detail"}) /\ i >= subject => s(i) = {}
        /\ agent = "log" => UpTo(s(subject), failed[subject].log, offset)

\* The lines that are due are positions of the log.
LEMMA DueOf ==
    ASSUME NEW log \in Logs
    PROVE  /\ Positions(log) /\ Len(log) \in Nat /\ log # None
           /\ \A x \in DueLines(log) : x \in Nat \ {0} /\ x <= Len(log)
<1>1. Positions(log) /\ Len(log) \in Nat /\ log # None  BY LogFacts DEF Positions
<1>2. \A x \in DueLines(log) : x \in 1..Len(log)  BY <1>1 DEF DueLines, Positions
<1> QED  BY <1>1, <1>2

\* A page adds to what was shown up to it what is due up to its end.
LEMMA UpToNext ==
    ASSUME NEW log \in Logs, NEW s, NEW o \in Nat, o <= Len(log), UpTo(s, log, o),
           NEW stop, stop = Least(o + MaxRawChunk, Len(log))
    PROVE  LET shown == s \union Shown(log, o, stop)
           IN  /\ Partly(shown, log)
               /\ stop < Len(log) => UpTo(shown, log, stop)
               /\ stop = Len(log) => Wholly(shown, log)
<1> DEFINE shown == s \union Shown(log, o, stop)
<1>1. /\ Positions(log) /\ Len(log) \in Nat /\ log # None
      /\ \A x \in DueLines(log) : x \in Nat \ {0} /\ x <= Len(log)
  BY DueOf
<1>2. CASE ~Settled(log)  BY <1>1, <1>2 DEF Partly, UpTo, Wholly
<1>3. CASE Settled(log)
  <2>1. PageEnd(o) /\ \A x : x \in s <=> x \in DueLines(log) /\ x <= o
    BY <1>1, <1>3 DEF UpTo
  <2>2. \A x : x \in Shown(log, o, stop) <=> x \in DueLines(log) /\ x \in (o + 1)..stop
    BY <1>1, <1>3, <2>1, PageShows
  <2>3. /\ stop \in Nat /\ o <= stop /\ stop <= Len(log) /\ MaxRawChunk \in Nat \ {0}
        /\ stop < Len(log) => stop = o + MaxRawChunk
    <3>1. Len(log) \in Nat  BY <1>1
    <3> QED  BY <3>1, Limits DEF Least
  <2>4. ASSUME NEW x PROVE x \in shown <=> x \in DueLines(log) /\ x <= stop
    <3>1. x \in shown <=> x \in DueLines(log) /\ (x <= o \/ x \in (o + 1)..stop)
      BY <2>1, <2>2
    <3> HIDE DEF shown
    <3>2. ASSUME x \in DueLines(log)
          PROVE  x <= o \/ x \in (o + 1)..stop <=> x <= stop
      <4>1. x \in Nat  BY <1>1, <3>2
      <4> QED  BY <2>3, <4>1
    <3> QED  BY <3>1, <3>2
  <2> HIDE DEF shown
  <2>5. Partly(shown, log)  BY <1>1, <2>4 DEF Partly
  <2>6. stop < Len(log) => UpTo(shown, log, stop)
    <3>1. stop < Len(log) => PageEnd(stop)  BY <2>1, <2>3, PagesApart
    <3> QED  BY <2>4, <3>1 DEF UpTo
  <2>7. ASSUME stop = Len(log) PROVE Wholly(shown, log)
    <3>1. \A x : x \in shown <=> x \in DueLines(log)  BY <1>1, <2>4, <2>7
    <3> QED  BY <3>1 DEF Wholly
  <2> QED  BY <2>5, <2>6, <2>7 DEF shown
<1> QED  BY <1>2, <1>3

\* Before the first page nothing is due.
LEMMA UpToStart ==
    ASSUME NEW log \in Logs \union {None}
    PROVE  UpTo({}, log, 0)
<1>1. CASE log = None  BY <1>1 DEF UpTo
<1>2. CASE log \in Logs
  <2>1. \A x \in DueLines(log) : ~(x <= 0)  BY <1>2, DueOf
  <2>2. PageEnd(0)  BY Limits DEF PageEnd
  <2> QED  BY <2>1, <2>2 DEF UpTo
<1> QED  BY <1>1, <1>2

\* An agent that has not begun was shown nothing.
LEMMA LookingInitial == Init => Looking
<1> SUFFICES ASSUME Init PROVE Looking  OBVIOUS
<1>1. Going  BY GoingInitial
<1>2. subject = 1 /\ agent = "start" /\ \A c \in Ids : seen[c] = {}  BY DEF Init
<1>3. \A i \in 1..Len(Failed(report)) : Failed(report)[i].id \in Ids  BY <1>1, FailedType
<1>4. \A i \in 1..Len(Failed(report)) : seen[Failed(report)[i].id] = {}  BY <1>2, <1>3
<1>5. \A log : Partly({}, log)  BY DEF Partly
<1>6. 1..(subject - 1) = {} /\ agent # "log"  BY <1>2
<1>7. \A i \in 1..Len(Failed(report)) : Partly(seen[Failed(report)[i].id], Failed(report)[i].log)
  BY <1>4, <1>5
<1> QED  BY <1>4, <1>6, <1>7 DEF Looking

\* Each step adds to a log what its page owes.
LEMMA LookingStep ==
    ASSUME Going, Learning, Looking, [Next]_vars
    PROVE  Looking'
<1> DEFINE F == Failed(report)
           c(i) == F[i].id
           log(i) == F[i].log
<1>0. /\ subject \in Nat /\ subject >= 1 /\ Len(F) \in Nat /\ subject <= Len(F) + 1
      /\ \A i \in 1..Len(F) : c(i) \in Ids /\ log(i) \in Logs \union {None}
      /\ \A i, j \in 1..Len(F) : c(i) = c(j) => i = j
  <2>1. subject \in 1..(Len(told) + 1) /\ Len(told) \in Nat /\ Len(told) <= Len(F)
    BY LenProperties DEF Going, TypeOK
  <2>2. /\ Len(F) \in Nat /\ \A i \in 1..Len(F) : F[i] \in AnyCheck
        /\ \A i, j \in 1..Len(F) : F[i].id = F[j].id => i = j
    BY FailedType
  <2> QED  BY <2>1, <2>2, CheckFacts
<1>1. Failed(report') = F  BY ReplyStep
<1> HIDE DEF F
<1>2. /\ \A i \in 1..Len(F) : Partly(seen[c(i)], log(i))
      /\ \A i \in 1..(subject - 1) : Wholly(seen[c(i)], log(i))
      /\ \A i \in 1..Len(F) :
            (i = subject => agent \in {"start", "list", "detail"}) /\ i >= subject => seen[c(i)] = {}
      /\ agent = "log" => UpTo(seen[c(subject)], log(subject), offset)
  BY DEF Looking, F
<1>3. (\A i \in 1..Len(F) : Partly(seen'[c(i)], log(i)))
      /\ (\A i \in 1..(subject' - 1) : Wholly(seen'[c(i)], log(i)))
      /\ (\A i \in 1..Len(F) :
            (i = subject' => agent' \in {"start", "list", "detail"}) /\ i >= subject' => seen'[c(i)] = {})
      /\ (agent' = "log" => UpTo(seen'[c(subject')], log(subject'), offset'))
      => Looking'
  BY <1>1 DEF Looking
<1>4. CASE VerifyAgent \/ VerifyWorker
  <2>1. /\ agent = "start" /\ agent' \in {"refused", "list", "done"}
        /\ UNCHANGED <<offset, subject, seen>>
    BY <1>4, BeginStep
  <2> QED  BY <1>2, <1>3, <2>1
<1>5. CASE (List \/ Detail \/ ReadLog) /\ ~reply'.accepted
  <2>1. agent' = "refused" /\ UNCHANGED <<offset, subject, seen>>
    BY <1>5 DEF List, Detail, ReadLog, Stop
  <2> QED  BY <1>2, <1>3, <2>1
<1>6. CASE List /\ reply'.accepted
  <2>1. /\ UNCHANGED seen
        /\ \/ Sent("failures") /\ Resume
           \/ ~Sent("failures") /\ Proceed(1)
    BY <1>6, ToldStep
  <2>2. agent = "list" /\ subject = 1
    BY <1>6 DEF List, Going
  <2>3. subject' = 1 /\ agent' # "log"
    BY <2>1, <2>2 DEF Resume, Proceed
  <2>4. \A i \in 1..Len(F) : seen'[c(i)] = {}  BY <1>2, <2>1, <2>2
  <2>5. 1..(subject' - 1) = {}  BY <2>3
  <2> QED  BY <1>2, <1>3, <2>1, <2>3, <2>4, <2>5
<1>7. CASE Detail /\ reply'.accepted
  <2>1. /\ agent = "detail" /\ UNCHANGED <<seen, told>>
        /\ \/ Sent("failure") /\ Resume
           \/ ~Sent("failure") /\ agent' = "log" /\ offset' = 0 /\ UNCHANGED subject
           \/ ~Sent("failure") /\ ~reply'.available /\ Proceed(subject + 1)
    BY <1>7 DEF Detail
  <2>2. subject \in 1..Len(F)  BY <2>1, SubjectFacts DEF F
  <2>3. reply'.available <=> log(subject) # None  BY <1>7, LearntStep DEF F
  <2>4. CASE Sent("failure") /\ Resume
    <3>1. UNCHANGED <<agent, subject>>  BY <2>4 DEF Resume
    <3> QED  BY <1>2, <1>3, <2>1, <3>1
  <2>5. CASE ~Sent("failure") /\ agent' = "log" /\ offset' = 0 /\ UNCHANGED subject
    <3>1. seen[c(subject)] = {}  BY <1>0, <1>2, <2>1, <2>2
    <3>2. UpTo({}, log(subject), 0)  BY <1>0, <2>2, UpToStart
    <3> QED  BY <1>2, <1>3, <2>1, <2>5, <3>1, <3>2
  <2>6. CASE ~Sent("failure") /\ ~reply'.available /\ Proceed(subject + 1)
    <3>1. subject' = subject + 1 /\ agent' \in {"done", "detail"}  BY <2>6 DEF Proceed
    <3>2. \A i \in 1..(subject' - 1) : i \in 1..(subject - 1) \/ i = subject  BY <1>0, <3>1
    <3>3. Wholly(seen[c(subject)], log(subject))  BY <2>3, <2>6 DEF Wholly
    <3>4. \A i \in 1..Len(F) : i >= subject' => seen[c(i)] = {}  BY <1>0, <1>2, <3>1
    <3> QED  BY <1>2, <1>3, <2>1, <3>1, <3>2, <3>3, <3>4
  <2> QED  BY <2>1, <2>4, <2>5, <2>6
<1>8. CASE ReadLog /\ reply'.accepted
  <2> DEFINE stop == Least(offset + MaxRawChunk, Len(log(subject)))
             shown == seen[c(subject)] \union Shown(log(subject), offset, stop)
  <2>1. /\ agent = "log" /\ UNCHANGED told
        /\ \/ Sent("evidence") /\ Resume
           \/ ~Sent("evidence") /\ Proceed(subject + 1)
    BY <1>8 DEF ReadLog
  <2>2. subject \in 1..Len(F) /\ told[subject] = c(subject)  BY <2>1, SubjectFacts DEF F
  <2>3. /\ log(subject) \in Logs /\ offset <= stop
        /\ \A d \in Ids : d # c(subject) => seen'[d] = seen[d]
        /\ seen'[c(subject)] = shown
        /\ Sent("evidence") => reply'.next.offset = stop /\ stop < Len(log(subject))
        /\ ~Sent("evidence") => stop = Len(log(subject))
    BY <1>8, <2>2, SeenStep DEF F
  <2>4. offset \in Nat /\ offset <= Len(log(subject))
    <3>1. Len(log(subject)) \in Nat /\ offset \in Nat  BY <2>3, LogFacts DEF Going, TypeOK
    <3> QED  BY <2>3, <3>1, Limits DEF Least
  <2>5. UpTo(seen[c(subject)], log(subject), offset)  BY <1>2, <2>1
  <2>6. /\ Partly(shown, log(subject))
        /\ stop < Len(log(subject)) => UpTo(shown, log(subject), stop)
        /\ stop = Len(log(subject)) => Wholly(shown, log(subject))
    BY <2>3, <2>4, <2>5, UpToNext
  <2> HIDE DEF stop, shown
  <2>7. \A i \in 1..Len(F) : i # subject => seen'[c(i)] = seen[c(i)]
    BY <1>0, <2>2, <2>3
  <2>8. \A i \in 1..Len(F) : Partly(seen'[c(i)], log(i))  BY <1>2, <2>3, <2>6, <2>7
  <2>9. \A i \in 1..(subject - 1) : i \in 1..Len(F) /\ i # subject  BY <1>0
  <2>10. \A i \in 1..(subject - 1) : Wholly(seen'[c(i)], log(i))  BY <1>2, <2>7, <2>9
  <2>11. \A i \in 1..Len(F) : i > subject => seen'[c(i)] = {}
    <3> SUFFICES ASSUME NEW i \in 1..Len(F), i > subject PROVE seen'[c(i)] = {}  OBVIOUS
    <3>1. i # subject /\ i >= subject  BY <1>0
    <3> QED  BY <1>2, <2>7, <3>1
  <2>12. CASE Sent("evidence") /\ Resume
    <3>1. UNCHANGED <<agent, subject>> /\ offset' = stop  BY <2>3, <2>12 DEF Resume
    <3>2. UpTo(seen'[c(subject')], log(subject'), offset')
      BY <2>3, <2>6, <2>12, <3>1
    <3>3. \A i \in 1..Len(F) :
            (i = subject' => agent' \in {"start", "list", "detail"}) /\ i >= subject' => seen'[c(i)] = {}
      BY <1>0, <2>1, <2>11, <3>1
    <3> QED  BY <1>3, <2>8, <2>10, <3>1, <3>2, <3>3
  <2>13. CASE ~Sent("evidence") /\ Proceed(subject + 1)
    <3>1. subject' = subject + 1 /\ agent' \in {"done", "detail"}  BY <2>13 DEF Proceed
    <3>2. \A i \in 1..(subject' - 1) : i \in 1..(subject - 1) \/ i = subject  BY <1>0, <3>1
    <3>3. Wholly(seen'[c(subject)], log(subject))  BY <2>3, <2>6, <2>13
    <3>4. \A i \in 1..(subject' - 1) : Wholly(seen'[c(i)], log(i))  BY <2>10, <3>2, <3>3
    <3>5. \A i \in 1..Len(F) : i >= subject' => seen'[c(i)] = {}
      <4>1. \A i \in 1..Len(F) : i >= subject' => i > subject  BY <1>0, <3>1
      <4> QED  BY <2>11, <4>1
    <3> QED  BY <1>3, <2>8, <3>1, <3>4, <3>5
  <2> QED  BY <2>1, <2>12, <2>13
<1>9. CASE Wander
  <2>1. agent = "done" /\ agent' = "left" /\ UNCHANGED <<offset, subject, seen>>
    BY <1>9 DEF Wander
  <2> QED  BY <1>2, <1>3, <2>1
<1>10. CASE Lose \/ UNCHANGED vars
  <2>1. UNCHANGED <<agent, offset, subject, seen>>
    BY <1>10 DEF Lose, vars
  <2> QED  BY <1>2, <1>3, <2>1
<1> QED
  BY <1>4, <1>5, <1>6, <1>7, <1>8, <1>9, <1>10 DEF Next, Follow, Over

-----------------------------------------------------------------------------
(* Theorems.                                                               *)

Gathering == Going /\ Learning

\* Where the agent is and what it has learnt, in every state.
LEMMA GatheringInvariant == Spec => []Gathering
<1>1. Init => Gathering
  BY GoingInitial, LearningInitial DEF Gathering
<1>2. Gathering /\ [Next]_vars => Gathering'
  BY GoingStep, LearningStep DEF Gathering
<1> QED  BY <1>1, <1>2, PTL DEF Spec

\* The agent is where it can be, with what it was told and shown.
THEOREM AgentIsTyped == Spec => []TypeOK
<1>1. Gathering => TypeOK  BY DEF Gathering, Going
<1> QED  BY <1>1, GatheringInvariant, PTL

\* What an answer says of its collections is so, whatever was asked: how many
\* there are and are given, and whether it is truncated.
THEOREM AnswersAreTruthful == Spec => []RepliesTruthful
<1>1. Init => RepliesTruthful
  BY DEF Init, RepliesTruthful
<1>2. Gathering /\ RepliesTruthful /\ [Next]_vars => RepliesTruthful'
  <2> SUFFICES ASSUME Gathering, RepliesTruthful, [Next]_vars PROVE RepliesTruthful'  OBVIOUS
  <2>1. /\ report'.checks = report.checks /\ Failed(report') = Failed(report)
        /\ report' = report \/ reply' = reply
        /\ reply' = reply \/ (reply'.accepted => Truthful(report, reply'))
    BY ReplyStep DEF Gathering
  <2>2. reply # None /\ reply.accepted => Truthful(report, reply)
    BY TruthfulMeans
  <2>3. \A e : Truthful(report', e) <=> Truthful(report, e)
    BY <2>1 DEF Truthful, FirstSays, AgentSays, Check, Failing
  <2>4. reply' # None /\ reply'.accepted => Truthful(report', reply')
    BY <2>1, <2>2, <2>3
  <2>5. (RepliesTruthful <=> (reply # None /\ reply.accepted => Truthful(report, reply)))'
    BY TruthfulMeans, PTL
  <2> QED  BY <2>4, <2>5
<1> QED  BY <1>1, <1>2, GatheringInvariant, PTL DEF Spec

\* What was gathered is a part of what was to be found, and all of it where the
\* agent goes on to the next check.
LEMMA GatheredPrefix ==
    ASSUME NEW s \in Seq(Nat), NEW f \in Seq(Nat), Gathered(s, f)
    PROVE  /\ IsPrefix(s, Texts(f))
           /\ Len(s) = Len(f) => s = Texts(f)
           /\ Len(s) = Least(MaxFailureFindings, Len(f)) => s = Cut(Texts(f), MaxFailureFindings)
<1>1. Len(s) \in Nat /\ Len(f) \in Nat /\ DOMAIN f = 1..Len(f) /\ Len(s) <= Len(f)
  BY LenProperties DEF Gathered
<1>2. \A i \in 1..Len(f) : Texts(f)[i] = Bounded(f[i]) /\ Bounded(f[i]) \in Nat
  BY <1>1, ElementOfSeq, BoundedType DEF Texts
<1>3. Texts(f) \in [1..Len(f) -> Nat]  BY <1>1, <1>2 DEF Texts
<1>4. Texts(f) \in Seq(Nat) /\ Len(Texts(f)) = Len(f)  BY <1>1, <1>3, FunctionIsSeq
<1>5. \A k \in 1..Len(s) : s[k] = Texts(f)[k]
  BY <1>1, <1>2 DEF Gathered
<1>6. SubSeq(s, 1, Len(s)) = SubSeq(Texts(f), 1, Len(s))
  <2>1. /\ SubSeq(s, 1, Len(s)) \in Seq(Nat) /\ Len(SubSeq(s, 1, Len(s))) = Len(s)
        /\ \A i \in 1..Len(s) : SubSeq(s, 1, Len(s))[i] = s[i]
    BY <1>1, PartOf
  <2>2. /\ SubSeq(Texts(f), 1, Len(s)) \in Seq(Nat) /\ Len(SubSeq(Texts(f), 1, Len(s))) = Len(s)
        /\ \A i \in 1..Len(s) : SubSeq(Texts(f), 1, Len(s))[i] = Texts(f)[i]
    BY <1>1, <1>4, PartOf
  <2> QED  BY <1>5, <2>1, <2>2, SeqEqual
<1>7. Len(s) = Len(f) => s = Texts(f)
  BY <1>4, <1>5, SeqEqual
<1>8. SubSeq(s, 1, Len(s)) = s
  <2>1. /\ SubSeq(s, 1, Len(s)) \in Seq(Nat) /\ Len(SubSeq(s, 1, Len(s))) = Len(s)
        /\ \A i \in 1..Len(s) : SubSeq(s, 1, Len(s))[i] = s[i]
    BY <1>1, PartOf
  <2> QED  BY <2>1, SeqEqual
<1>9. Len(s) = Least(MaxFailureFindings, Len(f)) => s = Cut(Texts(f), MaxFailureFindings)
  BY <1>4, <1>6, <1>8 DEF Cut
<1> QED  BY <1>1, <1>4, <1>6, <1>7, <1>9 DEF IsPrefix

\* An agent that goes where it is sent misses nothing of what failed: neither a
\* check nor, if it is sent to retrieve, one of its findings, however the answers
\* were cut.  One that `verify --agent' sends nowhere has all failed checks and
\* the first MaxFailureFindings findings of each.
THEOREM AgentMissesNothing == Spec => []NothingMissed
<1>1. Gathering => NothingMissed
  <2> SUFFICES ASSUME Gathering PROVE NothingMissed  OBVIOUS
  <2> USE DEF Gathering
  <2> DEFINE F == Failed(report)
             ids == IdsOf(F)
  <2>1. /\ told \in Seq(Ids) /\ Len(told) \in Nat /\ Len(told) <= Len(F)
        /\ \A i \in 1..Len(told) : told[i] = F[i].id
        /\ subject \in 1..(Len(told) + 1)
    BY LenProperties DEF Going, TypeOK
  <2>2. F \in Seq(AnyCheck) /\ Len(F) \in Nat /\ ids \in Seq(Ids) /\ Len(ids) = Len(F)
        /\ \A i \in 1..Len(F) : ids[i] = F[i].id
    BY FailedType, IdsFacts
  <2> HIDE DEF ids
  <2>3. IsPrefix(told, ids)
    <3>1. /\ SubSeq(told, 1, Len(told)) \in Seq(Ids) /\ Len(SubSeq(told, 1, Len(told))) = Len(told)
          /\ \A i \in 1..Len(told) : SubSeq(told, 1, Len(told))[i] = told[i]
      BY <2>1, PartOf
    <3>2. /\ SubSeq(ids, 1, Len(told)) \in Seq(Ids) /\ Len(SubSeq(ids, 1, Len(told))) = Len(told)
          /\ \A i \in 1..Len(told) : SubSeq(ids, 1, Len(told))[i] = ids[i]
      BY <2>1, <2>2, PartOf
    <3>3. \A i \in 1..Len(told) : told[i] = ids[i]  BY <2>1, <2>2
    <3>4. SubSeq(told, 1, Len(told)) = SubSeq(ids, 1, Len(told))
      BY <3>1, <3>2, <3>3, SeqEqual
    <3> QED  BY <2>1, <2>2, <3>4 DEF IsPrefix
  <2>4. agent \in {"detail", "log", "done", "left"} => told = ids
    <3> SUFFICES ASSUME Len(told) = Len(F) PROVE told = ids  BY DEF Going
    <3>1. \A i \in 1..Len(told) : told[i] = ids[i]  BY <2>1, <2>2
    <3> QED  BY <2>1, <2>2, <3>1, SeqEqual
  <2>5. ASSUME NEW i \in 1..Len(told)
        PROVE  /\ IsPrefix(learnt[told[i]], Texts(Check(report, told[i]).findings))
               /\ i < subject => learnt[told[i]] = Texts(Check(report, told[i]).findings)
               /\ agent \in {"done", "left"} /\ i >= subject =>
                     learnt[told[i]] = Cut(Texts(Check(report, told[i]).findings), MaxFailureFindings)
    <3>1. i \in 1..Len(F) /\ told[i] \in Ids  BY <2>1, <2>2, ElementOfSeq
    <3>2. Check(report, told[i]) = F[i]  BY <2>1, <3>1, CheckOf DEF Going
    <3>3. /\ learnt[told[i]] \in Seq(Nat) /\ F[i].findings \in Seq(Nat)
          /\ Gathered(learnt[told[i]], F[i].findings)
      BY <3>1, FailedType DEF Going, TypeOK, Learning
    <3>4. i < subject => Len(learnt[told[i]]) = Len(F[i].findings)
      <4>1. i < subject => i \in 1..(subject - 1)  BY <2>1
      <4> QED  BY <4>1 DEF Learning
    <3>5. agent \in {"done", "left"} /\ i >= subject =>
             Len(learnt[told[i]]) = Least(MaxFailureFindings, Len(F[i].findings))
      <4>1. i >= subject => i \in subject..Len(told)  BY <2>1
      <4> QED  BY <4>1 DEF Learning
    <3> QED  BY <3>2, <3>3, <3>4, <3>5, GatheredPrefix
  <2>6. \A c \in ToSet(told) : \E i \in 1..Len(told) : c = told[i]
    BY <2>1, LenProperties DEF ToSet
  <2>7. \A c \in Examined : \E i \in 1..Len(told) : c = told[i] /\ i < subject
    <3>1. \A i \in 1..(subject - 1) : i \in 1..Len(told) /\ i < subject  BY <2>1
    <3> QED  BY <3>1 DEF Examined
  <2>8. \A c \in ToSet(told) \ Examined : \E i \in 1..Len(told) : c = told[i] /\ i >= subject
    <3>1. \A i \in 1..Len(told) : i >= subject \/ i \in 1..(subject - 1)  BY <2>1
    <3> QED  BY <2>6, <3>1 DEF Examined
  <2>9. /\ IsPrefix(told, ids)
        /\ agent \in {"detail", "log", "done", "left"} => told = ids
    BY <2>3, <2>4
  <2>10. /\ \A c \in ToSet(told) : IsPrefix(learnt[c], Texts(Check(report, c).findings))
         /\ \A c \in Examined : learnt[c] = Texts(Check(report, c).findings)
    BY <2>5, <2>6, <2>7
  <2>11. agent \in {"done", "left"} => \A c \in ToSet(told) \ Examined :
             learnt[c] = Cut(Texts(Check(report, c).findings), MaxFailureFindings)
    BY <2>5, <2>8
  <2> QED  BY <2>9, <2>10, <2>11 DEF NothingMissed, ids
<1> QED  BY <1>1, GatheringInvariant, PTL

\* Of a settled log the agent is shown what is due, wherever pages end: all of
\* it when it has examined the check.
THEOREM AgentSeesWholeLines == Spec => []LinesShownWhole
<1>1. Init => Looking  BY LookingInitial
<1>2. Gathering /\ Looking /\ [Next]_vars => Looking'
  BY LookingStep DEF Gathering
<1>3. Gathering /\ Looking => LinesShownWhole
  <2> SUFFICES ASSUME Gathering, Looking, NEW i \in DOMAIN Failed(report)
               PROVE  LET c == Failed(report)[i].id
                          log == Failed(report)[i].log
                      IN  /\ log = None => seen[c] = {}
                          /\ log # None /\ Settled(log) =>
                                /\ seen[c] \subseteq DueLines(log)
                                /\ c \in Examined => DueLines(log) \subseteq seen[c]
    BY DEF LinesShownWhole
  <2> USE DEF Gathering
  <2> DEFINE F == Failed(report)
             c == F[i].id
             log == F[i].log
  <2>1. F \in Seq(AnyCheck) /\ Len(F) \in Nat /\ \A j, k \in 1..Len(F) : F[j].id = F[k].id => j = k
    BY FailedType
  <2>2. i \in 1..Len(F)  BY <2>1, LenProperties
  <2>3. /\ Len(told) \in Nat /\ Len(told) <= Len(F) /\ subject \in 1..(Len(told) + 1)
        /\ \A j \in 1..Len(told) : told[j] = F[j].id
    BY LenProperties DEF Going, TypeOK
  <2>4. Partly(seen[c], log)  BY <2>2 DEF Looking
  <2>5. ASSUME c \in Examined PROVE Wholly(seen[c], log)
    <3>1. PICK j \in 1..(subject - 1) : c = told[j]  BY <2>5 DEF Examined
    <3>2. j \in 1..Len(told) /\ j \in 1..Len(F)  BY <2>3
    <3>3. j = i  BY <2>1, <2>2, <2>3, <3>1, <3>2
    <3> QED  BY <3>1, <3>3 DEF Looking
  <2> QED  BY <2>4, <2>5 DEF Partly, Wholly
<1> QED  BY <1>1, <1>2, <1>3, GatheringInvariant, PTL DEF Spec

=============================================================================
