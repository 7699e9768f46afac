------------------------- MODULE RequestQueueProofs -------------------------
(***************************************************************************)
(* Proofs about RequestQueue: its types, the order of the queue, one run   *)
(* of a request as long as nothing is refused, and no request lost, for    *)
(* any requests, priorities, costs, budget, depth and number of drains.    *)
(***************************************************************************)
EXTENDS RequestQueue, FiniteSetTheorems, SequenceTheorems, WellFoundedInduction, TLAPS

ByPriority(q) ==
    \A i, j \in 1 .. Len(q) : i < j => PriorityOf[q[i]] <= PriorityOf[q[j]]

\* Where r belongs: behind all that keep their place before it.
Place(q, r) == 1 + Cardinality({i \in DOMAIN q : PriorityOf[q[i]] <= PriorityOf[r]})

\* In a queue in order, a request's place divides those served before it, or
\* with it, from those served after it.
LEMMA PlaceDivides ==
  ASSUME NEW q \in Seq(Requests), NEW r \in Requests, ByPriority(q)
  PROVE  /\ Place(q, r) \in 1 .. Len(q) + 1
         /\ \A i \in 1 .. Len(q) : i < Place(q, r) <=> PriorityOf[q[i]] <= PriorityOf[r]
<1> DEFINE S == {i \in DOMAIN q : PriorityOf[q[i]] <= PriorityOf[r]}
           n == Len(q)
           k == Cardinality(S)
<1>1. n \in Nat /\ DOMAIN q = 1 .. n /\ q \in [1 .. n -> Requests]
  BY LenProperties
<1>2. \A m \in 0 .. n : IsFiniteSet(1 .. m) /\ Cardinality(1 .. m) = m
  BY <1>1, FS_Interval
<1>3. IsFiniteSet(S) /\ k \in 0 .. n
  <2>1. IsFiniteSet(1 .. n) /\ Cardinality(1 .. n) = n /\ S \in SUBSET (1 .. n)
    BY <1>1, <1>2
  <2>2. IsFiniteSet(S) /\ k <= n
    BY <2>1, FS_Subset
  <2> QED
    BY <2>2, <1>1, FS_CardinalityType
<1>4. \A i \in S : 1 .. i \subseteq S
  <2> SUFFICES ASSUME NEW i \in S, NEW j \in 1 .. i PROVE j \in S
    OBVIOUS
  <2>1. i \in 1 .. n /\ j \in 1 .. n /\ (j = i \/ j < i)
    BY <1>1
  <2>2. PriorityOf[q[j]] \in Nat /\ PriorityOf[q[i]] \in Nat /\ PriorityOf[r] \in Nat
    BY <1>1, <2>1, QueueAssumption
  <2> QED
    BY <1>1, <2>1, <2>2 DEF ByPriority
<1>5. S = 1 .. k
  <2>1. S \subseteq 1 .. k
    <3> SUFFICES ASSUME NEW i \in S PROVE i \in 1 .. k
      OBVIOUS
    <3>1. i \in 1 .. n /\ 1 .. i \in SUBSET S
      BY <1>1, <1>4
    <3>2. Cardinality(1 .. i) = i /\ Cardinality(1 .. i) <= k
      BY <1>1, <1>2, <1>3, <3>1, FS_Subset
    <3> QED
      BY <1>1, <1>3, <3>1, <3>2
  <2>2. IsFiniteSet(1 .. k) /\ Cardinality(1 .. k) = k
    BY <1>2, <1>3
  <2> QED
    BY <2>1, <2>2, FS_Subset
<1>6. Place(q, r) = k + 1
  BY <1>3 DEF Place
<1>7. \A i \in 1 .. n : i \in S <=> PriorityOf[q[i]] <= PriorityOf[r]
  BY <1>1
<1> HIDE DEF S, k
<1> QED
  BY <1>1, <1>3, <1>5, <1>6, <1>7

----------------------------------------------------------------------------
(* The binary search.                                                      *)

Spans(q) == (0 .. Len(q)) \X (0 .. Len(q))
Middle(span) == (span[1] + span[2]) \div 2

\* What the search returns for a span is what it returns for one of its halves.
Halves(g, q, r) ==
    g = [span \in Spans(q) |->
           IF span[1] >= span[2] THEN span[1]
           ELSE IF GoesFirst(q[Middle(span) + 1], r) THEN g[<<Middle(span) + 1, span[2]>>]
           ELSE g[<<span[1], Middle(span)>>]]

LEMMA SearchIsHalves ==
  ASSUME NEW q, NEW r
  PROVE  BinarySearch(q, r) = (CHOOSE g : Halves(g, q, r))[<<0, Len(q)>>]
BY DEF BinarySearch, Halves, Spans, Middle

\* The end of p that lies in a span, or the end of the span next to it.
Nearest(p, span) ==
    IF span[1] >= span[2] \/ p < span[1] THEN span[1] ELSE IF p > span[2] THEN span[2] ELSE p

LEMMA Halved ==
  ASSUME NEW n \in Nat, NEW span \in (0 .. n) \X (0 .. n), span[1] < span[2], NEW p \in 0 .. n,
         NEW m, m = Middle(span)
  PROVE  /\ m \in 0 .. n - 1 /\ span[1] <= m /\ m < span[2]
         /\ m + 1 <= p => Nearest(p, <<m + 1, span[2]>>) = Nearest(p, span)
         /\ m + 1 > p => Nearest(p, <<span[1], m>>) = Nearest(p, span)
<1>1. PICK lo \in 0 .. n, hi \in 0 .. n : span = <<lo, hi>> /\ span[1] = lo /\ span[2] = hi
  OBVIOUS
<1>2. lo < hi /\ m = (lo + hi) \div 2
  BY <1>1 DEF Middle
<1>3. m \in 0 .. n - 1 /\ lo <= m /\ m < hi
  BY <1>2
<1>4. m + 1 <= p => Nearest(p, <<m + 1, hi>>) = Nearest(p, <<lo, hi>>)
  BY <1>2, <1>3 DEF Nearest
<1>5. m + 1 > p => Nearest(p, <<lo, m>>) = Nearest(p, <<lo, hi>>)
  BY <1>2, <1>3 DEF Nearest
<1> QED
  BY <1>1, <1>3, <1>4, <1>5

\* There is such a function: the one that goes to the place in one step.
LEMMA HalvesExists ==
  ASSUME NEW q, NEW n \in Nat, Len(q) = n, NEW r, NEW p \in 0 .. n,
         \A i \in 1 .. n : i <= p <=> GoesFirst(q[i], r)
  PROVE  \E g : Halves(g, q, r)
<1> DEFINE F == [span \in Spans(q) |-> Nearest(p, span)]
           H(span) == IF span[1] >= span[2] THEN span[1]
                      ELSE IF GoesFirst(q[Middle(span) + 1], r) THEN F[<<Middle(span) + 1, span[2]>>]
                      ELSE F[<<span[1], Middle(span)>>]
<1>1. ASSUME NEW span \in Spans(q) PROVE Nearest(p, span) = H(span)
  <2>1. span \in (0 .. n) \X (0 .. n) /\ span[1] \in 0 .. n /\ span[2] \in 0 .. n
    BY DEF Spans
  <2>2. CASE span[1] >= span[2]
    BY <2>2 DEF Nearest
  <2>3. CASE span[1] < span[2]
    <3>1. PICK m : m = Middle(span)
      OBVIOUS
    <3>2. /\ m \in 0 .. n - 1 /\ span[1] <= m /\ m < span[2]
          /\ m + 1 <= p => Nearest(p, <<m + 1, span[2]>>) = Nearest(p, span)
          /\ m + 1 > p => Nearest(p, <<span[1], m>>) = Nearest(p, span)
      BY <2>1, <2>3, <3>1, Halved
    <3>3. <<m + 1, span[2]>> \in Spans(q) /\ <<span[1], m>> \in Spans(q)
      BY <2>1, <3>2 DEF Spans
    <3>4. /\ F[<<m + 1, span[2]>>] = Nearest(p, <<m + 1, span[2]>>)
          /\ F[<<span[1], m>>] = Nearest(p, <<span[1], m>>)
      BY <3>3
    <3>5. m + 1 <= p <=> GoesFirst(q[m + 1], r)
      BY <3>2
    <3>6. H(span) = IF GoesFirst(q[m + 1], r) THEN F[<<m + 1, span[2]>>] ELSE F[<<span[1], m>>]
      BY <2>1, <2>3, <3>1
    <3> HIDE DEF F, H
    <3> QED
      BY <3>2, <3>4, <3>5, <3>6
  <2> QED
    BY <2>1, <2>2, <2>3
<1>2. F = [span \in Spans(q) |-> H(span)]
  BY <1>1
<1>3. Halves(F, q, r)
  BY <1>2 DEF Halves
<1> QED
  BY <1>3

\* And there is no other: a span where two of them differ has a half where they do.
LEMMA HalvesFinds ==
  ASSUME NEW q, NEW n \in Nat, Len(q) = n, NEW r, NEW p \in 0 .. n,
         \A i \in 1 .. n : i <= p <=> GoesFirst(q[i], r),
         NEW g, Halves(g, q, r)
  PROVE  g[<<0, n>>] = p
<1> DEFINE Wrong(k) == \E span \in Spans(q) : k = span[2] - span[1] /\ k >= 0 /\ g[span] # Nearest(p, span)
           T == {k \in Nat : Wrong(k)}
<1>1. ASSUME NEW k \in T PROVE \E j \in T : j < k
  <2>1. PICK span \in Spans(q) : k = span[2] - span[1] /\ g[span] # Nearest(p, span)
    OBVIOUS
  <2>2. span \in (0 .. n) \X (0 .. n) /\ span[1] \in 0 .. n /\ span[2] \in 0 .. n
    BY DEF Spans
  <2>3. PICK m : m = Middle(span)
    OBVIOUS
  <2>4. g[span] = IF span[1] >= span[2] THEN span[1]
                  ELSE IF GoesFirst(q[m + 1], r) THEN g[<<m + 1, span[2]>>] ELSE g[<<span[1], m>>]
    BY <2>3 DEF Halves
  <2>5. span[1] < span[2]
    BY <2>1, <2>2, <2>4 DEF Nearest
  <2>6. /\ m \in 0 .. n - 1 /\ span[1] <= m /\ m < span[2]
        /\ m + 1 <= p => Nearest(p, <<m + 1, span[2]>>) = Nearest(p, span)
        /\ m + 1 > p => Nearest(p, <<span[1], m>>) = Nearest(p, span)
    BY <2>2, <2>3, <2>5, Halved
  <2>7. m + 1 <= p <=> GoesFirst(q[m + 1], r)
    BY <2>6
  <2>8. CASE m + 1 <= p
    <3>1. PICK half : half = <<m + 1, span[2]>>
      OBVIOUS
    <3>2. half[1] = m + 1 /\ half[2] = span[2]
      BY <3>1
    <3>3. half \in Spans(q)
      BY <2>2, <2>6, <3>1 DEF Spans
    <3>4. g[half] # Nearest(p, half)
      BY <2>1, <2>2, <2>4, <2>5, <2>6, <2>7, <2>8, <3>1, <3>2
    <3>5. PICK j \in Nat : j = half[2] - half[1] /\ j < k
      BY <2>1, <2>2, <2>6, <3>2
    <3> QED
      BY <3>3, <3>4, <3>5
  <2>9. CASE m + 1 > p
    <3>1. PICK half : half = <<span[1], m>>
      OBVIOUS
    <3>2. half[1] = span[1] /\ half[2] = m
      BY <3>1
    <3>3. half \in Spans(q)
      BY <2>2, <2>6, <3>1 DEF Spans
    <3>4. g[half] # Nearest(p, half)
      BY <2>1, <2>2, <2>4, <2>5, <2>6, <2>7, <2>9, <3>1, <3>2
    <3>5. PICK j \in Nat : j = half[2] - half[1] /\ j < k
      BY <2>1, <2>2, <2>6, <3>2
    <3> QED
      BY <3>3, <3>4, <3>5
  <2> QED
    BY <2>6, <2>8, <2>9
<1>2. T = {}
  <2> DEFINE Less == {ss \in Nat \X Nat : ss[1] < ss[2]}
  <2>1. IsWellFoundedOn(Less, Nat)
    BY NatLessThanWellFounded DEF OpToRel
  <2>2. \A x, y \in Nat : x < y => <<x, y>> \in Less
    OBVIOUS
  <2>3. T \in SUBSET Nat
    OBVIOUS
  <2> HIDE DEF Less, T
  <2>4. ASSUME T # {} PROVE \E k \in T : \A j \in T : <<j, k>> \notin Less
    BY <2>1, <2>3, <2>4, WFMin
  <2> QED
    BY <1>1, <2>2, <2>3, <2>4
<1>3. <<0, n>> \in Spans(q) /\ n = <<0, n>>[2] - <<0, n>>[1]
  BY DEF Spans
<1>4. Nearest(p, <<0, n>>) = p
  BY DEF Nearest
<1>5. ~Wrong(n)
  BY <1>2
<1> QED
  BY <1>3, <1>4, <1>5

\* In a queue in order, with numbers for priorities, insertByPriority's search ends
\* behind all that keep their place before the request, at any length of the queue.
THEOREM SearchFindsPlace ==
  ASSUME NEW q \in Seq(Requests), NEW r \in Requests, ByPriority(q)
  PROVE  BinarySearch(q, r) + 1 = Place(q, r)
<1>1. PICK n \in Nat : n = Len(q)
  BY LenProperties
<1>2. PICK p \in 0 .. n : p = Place(q, r) - 1 /\ Place(q, r) = p + 1
  BY <1>1, PlaceDivides
<1>3. \A i \in 1 .. n : i <= p <=> GoesFirst(q[i], r)
  <2>1. \A i \in 1 .. n : i < p + 1 <=> PriorityOf[q[i]] <= PriorityOf[r]
    BY <1>1, <1>2, PlaceDivides
  <2>2. \A i \in 1 .. n : i < p + 1 <=> i <= p
    OBVIOUS
  <2> QED
    BY <2>1, <2>2 DEF GoesFirst
<1>4. \E g : Halves(g, q, r)
  BY <1>1, <1>3, HalvesExists
<1>5. PICK f : f = CHOOSE g : Halves(g, q, r)
  OBVIOUS
<1>6. Halves(f, q, r)
  BY <1>4, <1>5
<1>7. f[<<0, n>>] = p
  BY <1>1, <1>3, <1>6, HalvesFinds
<1> QED
  BY <1>1, <1>2, <1>5, <1>7, SearchIsHalves

----------------------------------------------------------------------------
(* Inserting.                                                              *)

LEMMA InsertAtElements ==
  ASSUME NEW q \in Seq(Requests), NEW r \in Requests, NEW k \in 1 .. Len(q) + 1
  PROVE  /\ InsertAt(q, k, r) \in Seq(Requests)
         /\ Len(InsertAt(q, k, r)) = Len(q) + 1
         /\ \A i \in 1 .. Len(q) + 1 :
              InsertAt(q, k, r)[i] = IF i < k THEN q[i] ELSE IF i = k THEN r ELSE q[i - 1]
<1> DEFINE n == Len(q)
           a == SubSeq(q, 1, k - 1)
           b == SubSeq(q, k, n)
<1>1. n \in Nat /\ k \in Int /\ \A i \in 1 .. n : q[i] \in Requests
  BY LenProperties, ElementOfSeq
<1>2. a \in Seq(Requests) /\ Len(a) = k - 1 /\ \A i \in 1 .. k - 1 : a[i] = q[i]
  <2>1. 1 \in Int /\ k - 1 \in Int /\ \A i \in 1 .. k - 1 : q[i] \in Requests
    BY <1>1
  <2>2. /\ a \in Seq(Requests) /\ Len(a) = IF 1 <= k - 1 THEN k - 1 - 1 + 1 ELSE 0
        /\ \A i \in 1 .. k - 1 - 1 + 1 : a[i] = q[1 + i - 1]
    BY <2>1, SubSeqProperties
  <2> QED
    BY <1>1, <2>2
<1>3. b \in Seq(Requests) /\ Len(b) = n - k + 1 /\ \A i \in 1 .. n - k + 1 : b[i] = q[k + i - 1]
  <2>1. k \in Int /\ n \in Int /\ \A i \in k .. n : q[i] \in Requests
    BY <1>1
  <2>2. /\ b \in Seq(Requests) /\ Len(b) = IF k <= n THEN n - k + 1 ELSE 0
        /\ \A i \in 1 .. n - k + 1 : b[i] = q[k + i - 1]
    BY <2>1, SubSeqProperties
  <2> QED
    BY <1>1, <2>2
<1>4. <<r>> \in Seq(Requests) /\ Len(<<r>>) = 1 /\ <<r>>[1] = r
  OBVIOUS
<1> HIDE DEF a, b
<1> DEFINE c == a \o <<r>>
<1>5. /\ c \in Seq(Requests) /\ Len(c) = k
      /\ \A i \in 1 .. k : c[i] = IF i < k THEN q[i] ELSE r
  <2>1. /\ c \in Seq(Requests) /\ Len(c) = Len(a) + Len(<<r>>)
        /\ \A i \in 1 .. Len(a) + Len(<<r>>) : c[i] = IF i <= Len(a) THEN a[i] ELSE <<r>>[i - Len(a)]
    BY <1>2, <1>4, ConcatProperties, Zenon
  <2> QED
    BY <1>1, <1>2, <1>4, <2>1
<1> HIDE DEF c
<1>6. /\ c \o b \in Seq(Requests) /\ Len(c \o b) = Len(c) + Len(b)
      /\ \A i \in 1 .. Len(c) + Len(b) : (c \o b)[i] = IF i <= Len(c) THEN c[i] ELSE b[i - Len(c)]
  BY <1>3, <1>5, ConcatProperties, Zenon
<1>7. InsertAt(q, k, r) = c \o b
  BY DEF InsertAt, a, b, c
<1> QED
  BY <1>1, <1>3, <1>5, <1>6, <1>7

\* The queue with r in it: all of it was there or is r.
LEMMA InsertedElements ==
  ASSUME NEW q \in Seq(Requests), NEW r \in Requests, ByPriority(q)
  PROVE  /\ Inserted(q, r) \in Seq(Requests)
         /\ Len(Inserted(q, r)) = Len(q) + 1
         /\ \A i \in 1 .. Len(q) + 1 :
              Inserted(q, r)[i] = IF i < Place(q, r) THEN q[i] ELSE IF i = Place(q, r) THEN r ELSE q[i - 1]
<1>1. PICK k : k = Place(q, r) /\ k = BinarySearch(q, r) + 1 /\ k \in 1 .. Len(q) + 1
  BY PlaceDivides, SearchFindsPlace
<1> QED
  BY <1>1, InsertAtElements DEF Inserted

----------------------------------------------------------------------------
(* A queue in order, each of its requests made: kept by Inserted and Tail. *)

Sorted(q, c) ==
    \A i, j \in 1 .. Len(q) : i < j =>
       \/ PriorityOf[q[i]] < PriorityOf[q[j]]
       \/ /\ PriorityOf[q[i]] = PriorityOf[q[j]]
          /\ c[q[i]] < c[q[j]]
Came(q, c) == \A i \in 1 .. Len(q) : c[q[i]] > 0
Good(q, c) == q \in Seq(Requests) /\ Sorted(q, c) /\ Came(q, c)

LEMMA SortedIsByPriority ==
  ASSUME NEW q \in Seq(Requests), NEW c, Sorted(q, c) PROVE ByPriority(q)
<1>1. \A i \in 1 .. Len(q) : PriorityOf[q[i]] \in Nat
  BY ElementOfSeq, QueueAssumption
<1> QED
  BY <1>1 DEF Sorted, ByPriority

LEMMA GoodTail ==
  ASSUME NEW q, NEW c, Good(q, c), q # <<>> PROVE Good(Tail(q), c)
<1>1. /\ Tail(q) \in Seq(Requests) /\ Len(Tail(q)) = Len(q) - 1
      /\ \A i \in 1 .. Len(Tail(q)) : Tail(q)[i] = q[i + 1]
  BY HeadTailProperties DEF Good
<1>2. Len(q) \in Nat
  BY DEF Good
<1>3. \A i \in 1 .. Len(Tail(q)) : i + 1 \in 1 .. Len(q)
  BY <1>1, <1>2
<1>4. Sorted(Tail(q), c)
  BY <1>1, <1>2, <1>3 DEF Good, Sorted
<1>5. Came(Tail(q), c)
  BY <1>1, <1>2, <1>3 DEF Good, Came
<1> QED
  BY <1>1, <1>4, <1>5 DEF Good

LEMMA GoodInserted ==
  ASSUME NEW q, NEW c \in [Requests -> Nat], NEW r \in Requests, NEW m \in Nat,
         Good(q, c), c[r] = 0, \A x \in Requests : c[x] <= m
  PROVE  Good(Inserted(q, r), [c EXCEPT ![r] = m + 1])
<1> DEFINE s == Inserted(q, r)
           d == [c EXCEPT ![r] = m + 1]
           k == Place(q, r)
           n == Len(q)
<1>1. q \in Seq(Requests) /\ n \in Nat /\ ByPriority(q)
  BY SortedIsByPriority DEF Good
<1>2. k \in 1 .. n + 1 /\ \A i \in 1 .. n : i < k <=> PriorityOf[q[i]] <= PriorityOf[r]
  BY <1>1, PlaceDivides
<1>3. /\ s \in Seq(Requests) /\ Len(s) = n + 1
      /\ \A i \in 1 .. n + 1 : s[i] = IF i < k THEN q[i] ELSE IF i = k THEN r ELSE q[i - 1]
  BY <1>1, InsertedElements
<1>4. \A i \in 1 .. n : /\ q[i] \in Requests /\ q[i] # r /\ d[q[i]] = c[q[i]]
                        /\ c[q[i]] \in Nat /\ c[q[i]] <= m /\ c[q[i]] > 0
                        /\ PriorityOf[q[i]] \in Nat
  BY <1>1, ElementOfSeq, QueueAssumption DEF Good, Came
<1>5. d[r] = m + 1 /\ PriorityOf[r] \in Nat
  BY QueueAssumption
<1> HIDE DEF s, d, k
<1>6. Came(s, d)
  <2> SUFFICES ASSUME NEW i \in 1 .. n + 1 PROVE d[s[i]] > 0
    BY <1>1, <1>3 DEF Came
  <2>1. CASE i < k
    <3>1. i \in 1 .. n /\ s[i] = q[i]
      BY <1>1, <1>2, <1>3, <2>1
    <3> QED
      BY <3>1, <1>4
  <2>2. CASE i = k
    BY <1>3, <1>5, <2>2
  <2>3. CASE i > k
    <3>1. i - 1 \in 1 .. n /\ s[i] = q[i - 1]
      BY <1>1, <1>2, <1>3, <2>3
    <3> QED
      BY <3>1, <1>4
  <2> QED
    BY <1>1, <1>2, <2>1, <2>2, <2>3
<1>7. Sorted(s, d)
  <2> SUFFICES ASSUME NEW i \in 1 .. n + 1, NEW j \in 1 .. n + 1, i < j
               PROVE  \/ PriorityOf[s[i]] < PriorityOf[s[j]]
                      \/ PriorityOf[s[i]] = PriorityOf[s[j]] /\ d[s[i]] < d[s[j]]
    BY <1>1, <1>3 DEF Sorted
  <2>0. \A x, y \in 1 .. n : x < y =>
           \/ PriorityOf[q[x]] < PriorityOf[q[y]]
           \/ PriorityOf[q[x]] = PriorityOf[q[y]] /\ d[q[x]] < d[q[y]]
    <3>1. \A x, y \in 1 .. n : x < y =>
             \/ PriorityOf[q[x]] < PriorityOf[q[y]]
             \/ PriorityOf[q[x]] = PriorityOf[q[y]] /\ c[q[x]] < c[q[y]]
      BY DEF Good, Sorted
    <3>2. \A x \in 1 .. n : d[q[x]] = c[q[x]]
      BY <1>4
    <3> QED
      BY <3>1, <3>2
  <2>1. CASE j < k
    <3>1. i \in 1 .. n /\ j \in 1 .. n /\ s[i] = q[i] /\ s[j] = q[j]
      BY <1>1, <1>2, <1>3, <2>1
    <3> QED
      BY <3>1, <2>0
  <2>2. CASE j = k
    <3>1. i \in 1 .. n /\ i < k /\ s[i] = q[i] /\ s[j] = r
      BY <1>1, <1>2, <1>3, <2>2
    <3>2. PriorityOf[q[i]] <= PriorityOf[r] /\ d[q[i]] < d[r]
      BY <3>1, <1>2, <1>4, <1>5
    <3> QED
      BY <3>1, <3>2, <1>4, <1>5
  <2>3. CASE j > k /\ i < k
    <3>a. i \in 1 .. n /\ j - 1 \in 1 .. n /\ ~(j - 1 < k)
      BY <1>1, <1>2, <2>3
    <3>b. s[i] = q[i]
      BY <1>3, <2>3
    <3>c. s[j] = q[j - 1]
      BY <1>1, <1>2, <1>3, <2>3
    <3>1. i \in 1 .. n /\ j - 1 \in 1 .. n /\ s[i] = q[i] /\ s[j] = q[j - 1] /\ ~(j - 1 < k)
      BY <3>a, <3>b, <3>c
    <3>2. PriorityOf[q[i]] <= PriorityOf[r] /\ ~(PriorityOf[q[j - 1]] <= PriorityOf[r])
      BY <3>1, <1>2, <2>3
    <3>3. PriorityOf[q[i]] \in Nat /\ PriorityOf[q[j - 1]] \in Nat
      BY <3>1, <1>4
    <3> QED
      BY <3>1, <3>2, <3>3, <1>5
  <2>4. CASE j > k /\ i = k
    <3>a. j - 1 \in 1 .. n /\ ~(j - 1 < k)
      BY <1>1, <1>2, <2>4
    <3>b. s[i] = r /\ s[j] = q[j - 1]
      BY <1>1, <1>2, <1>3, <2>4
    <3>1. j - 1 \in 1 .. n /\ s[i] = r /\ s[j] = q[j - 1] /\ ~(j - 1 < k)
      BY <3>a, <3>b
    <3>2. ~(PriorityOf[q[j - 1]] <= PriorityOf[r]) /\ PriorityOf[q[j - 1]] \in Nat
      BY <3>1, <1>2, <1>4
    <3> QED
      BY <3>1, <3>2, <1>5
  <2>5. CASE j > k /\ i > k
    <3>1. i - 1 \in 1 .. n /\ j - 1 \in 1 .. n /\ i - 1 < j - 1
      BY <1>1, <1>2, <2>5
    <3>2. s[i] = q[i - 1] /\ s[j] = q[j - 1]
      BY <1>1, <1>2, <1>3, <2>5
    <3> QED
      BY <3>1, <3>2, <2>0
  <2> QED
    BY <1>1, <1>2, <2>1, <2>2, <2>3, <2>4, <2>5
<1> QED
  BY <1>3, <1>6, <1>7 DEF Good, s, d

----------------------------------------------------------------------------
(* The inductive invariant.                                                *)

Ordered == Good(queue, came)

\* Without a refusal no drain finds anything to take.
Passing == OnceWithinBudget /\ (~refused => \A d \in Drains : drain[d].item = None)

\* Under one drain the head of the queue is a request that was run.
Kept ==
    /\ NoneLost
    /\ ~raced => \A d \in Drains : drain[d].item # None => queue # <<>> /\ runs[Head(queue)] > 0

IInv == TypeOK /\ Ordered /\ Passing /\ Kept

LEMMA InitInv == Init => IInv
<1> SUFFICES ASSUME Init PROVE IInv
  OBVIOUS
<1>1. TypeOK
  <2>1. queue \in Seq(Requests) /\ Len(queue) <= MaxDepth
    BY QueueAssumption DEF Init
  <2>2. 0 \in 0 .. BatchSize - 1 /\ 0 \in 0 .. Budget
    BY QueueAssumption
  <2>3. came \in [Requests -> 0 .. made] /\ runs \in [Requests -> 0 .. 2]
    BY DEF Init
  <2>4. drain \in [Drains -> [item : Requests \cup {None}, processed : 0 .. BatchSize - 1]]
    BY <2>2 DEF Init, IdleDrain
  <2> QED
    BY <2>1, <2>2, <2>3, <2>4 DEF Init, TypeOK
<1>2. Ordered
  BY DEF Init, Ordered, Good, Sorted, Came
<1>3. Passing /\ Kept
  BY DEF Init, Passing, Kept, OnceWithinBudget, NoneLost, IdleDrain
<1> QED
  BY <1>1, <1>2, <1>3 DEF IInv

LEMMA GoodInsertedNow ==
  ASSUME TypeOK, Ordered, NEW r \in Requests, came[r] = 0
  PROVE  /\ Good(Inserted(queue, r), [came EXCEPT ![r] = made + 1])
         /\ Inserted(queue, r) \in Seq(Requests)
         /\ Len(Inserted(queue, r)) = Len(queue) + 1
<1>1. came \in [Requests -> Nat] /\ made \in Nat /\ \A x \in Requests : came[x] <= made
  BY DEF TypeOK
<1>2. Good(queue, came)
  BY DEF Ordered
<1>3. Good(Inserted(queue, r), [came EXCEPT ![r] = made + 1])
  BY <1>1, <1>2, GoodInserted
<1>4. queue \in Seq(Requests) /\ ByPriority(queue)
  BY <1>2, SortedIsByPriority DEF Good
<1> QED
  BY <1>3, <1>4, InsertedElements

\* The head of the queue a request goes into, and what is behind it.
LEMMA InsertedHead ==
  ASSUME TypeOK, Ordered, NEW r \in Requests, came[r] = 0, NEW q, q = Inserted(queue, r)
  PROVE  /\ q # <<>> /\ Head(q) \in Requests
         /\ Tail(q) \in Seq(Requests) /\ Len(Tail(q)) = Len(queue)
         /\ Good(Tail(q), [came EXCEPT ![r] = made + 1])
         /\ queue = <<>> => Head(q) = r
<1>0. Len(queue) \in Nat
  BY DEF TypeOK
<1>1. q \in Seq(Requests) /\ Len(q) = Len(queue) + 1
  BY GoodInsertedNow
<1>2. q # <<>>
  BY <1>0, <1>1
<1>3. queue = <<>> => Head(q) = r
  <2> SUFFICES ASSUME queue = <<>> PROVE Head(q) = r
    OBVIOUS
  <2>1. queue \in Seq(Requests) /\ ByPriority(queue) /\ Len(queue) = 0
    BY SortedIsByPriority DEF Ordered, Good
  <2>2. Place(queue, r) \in 1 .. Len(queue) + 1
    BY <2>1, PlaceDivides
  <2>3. Place(queue, r) = 1
    BY <2>1, <2>2
  <2>4. Inserted(queue, r)[1] = r
    <3>1. \A i \in 1 .. Len(queue) + 1 :
             Inserted(queue, r)[i] = IF i < Place(queue, r) THEN queue[i]
                                     ELSE IF i = Place(queue, r) THEN r ELSE queue[i - 1]
      BY <2>1, InsertedElements
    <3> QED
      BY <2>1, <2>3, <3>1
  <2> QED
    <3>1. q[1] = r
      BY <2>4
    <3>2. Head(q) = q[1]
      BY <1>1, <1>2
    <3> QED
      BY <3>1, <3>2
<1> QED
  BY <1>0, <1>1, <1>2, <1>3, HeadTailProperties, GoodTail, GoodInsertedNow

LEMMA RanTyped ==
  ASSUME runs \in [Requests -> 0 .. 2], NEW r \in Requests, Ran(r)
  PROVE  /\ runs' \in [Requests -> 0 .. 2]
         /\ runs'[r] > 0
         /\ \A x \in Requests : runs[x] > 0 => runs'[x] > 0
         /\ \A x \in Requests \ {r} : runs'[x] = runs[x]
         /\ runs[r] = 0 => runs'[r] = 1
BY DEF Ran

LEMMA RecordedTyped ==
  ASSUME NEW u \in 0 .. Budget, NEW r \in Requests
  PROVE  Recorded(u, CostOf[r]) \in 0 .. Budget /\ Recorded(u, 1) \in 0 .. Budget
BY QueueAssumption DEF Recorded

LEMMA CallTyped ==
  ASSUME TypeOK, NEW r \in Requests, NEW item \in Requests, Call(r, item)
  PROVE  /\ running' \in [Requests -> Requests \cup {None}]
         /\ made' \in Nat /\ came' \in [Requests -> 0 .. made']
         /\ runs' \in [Requests -> 0 .. 2]
         /\ used' = used /\ drain' = drain
         /\ came[r] = 0 /\ came' = [came EXCEPT ![r] = made + 1]
<1>1. made \in Nat /\ made' = made + 1 /\ came \in [Requests -> 0 .. made]
  BY DEF TypeOK, Call
<1>2. came' \in [Requests -> 0 .. made']
  BY <1>1 DEF Call
<1>3. runs' \in [Requests -> 0 .. 2]
  BY RanTyped DEF TypeOK, Call
<1> QED
  BY <1>1, <1>2, <1>3 DEF TypeOK, Call

\* The queue a drain leaves: all of it or all but its head.
LEMMA ShiftedTyped ==
  ASSUME TypeOK, Ordered
  PROVE  /\ Shifted(queue) \in Seq(Requests) /\ Len(Shifted(queue)) <= MaxDepth
         /\ Good(Shifted(queue), came)
<1>1. CASE queue = <<>>
  BY <1>1 DEF Shifted, TypeOK, Ordered
<1>2. CASE queue # <<>>
  <2>1. Tail(queue) \in Seq(Requests) /\ Len(Tail(queue)) = Len(queue) - 1 /\ Len(queue) \in Nat
    BY <1>2, HeadTailProperties DEF TypeOK
  <2>2. Good(Tail(queue), came)
    BY <1>2, GoodTail DEF Ordered
  <2>3. Len(queue) <= MaxDepth /\ MaxDepth \in Nat
    BY QueueAssumption DEF TypeOK
  <2> QED
    BY <1>2, <2>1, <2>2, <2>3 DEF Shifted
<1> QED
  BY <1>1, <1>2

LEMMA GoesTyped ==
  ASSUME TypeOK, NEW d \in Drains, NEW q \in Seq(Requests), NEW u \in 0 .. Budget, NEW n \in 0 .. BatchSize,
         Goes(d, q, u, n)
  PROVE  /\ drain' \in [Drains -> [item : Requests \cup {None}, processed : 0 .. BatchSize - 1]]
         /\ runs' \in [Requests -> 0 .. 2]
         /\ used' \in 0 .. Budget
         /\ queue' = q
         /\ \A x \in Requests : runs[x] > 0 => runs'[x] > 0
         /\ \A e \in Drains \ {d} : drain'[e] = drain[e]
         /\ drain'[d].item # None => q # <<>> /\ runs'[Head(q)] > 0
         /\ q = <<>> => runs' = runs
<1>0. /\ drain \in [Drains -> [item : Requests \cup {None}, processed : 0 .. BatchSize - 1]]
      /\ runs \in [Requests -> 0 .. 2] /\ BatchSize \in Nat \ {0} /\ queue' = q /\ used' = u
  BY QueueAssumption DEF TypeOK, Goes
<1>1. CASE n < BatchSize /\ q # <<>> /\ ~OverBudget(u)
  <2>1. drain' = [drain EXCEPT ![d] = [item |-> Head(q), processed |-> n]] /\ Ran(Head(q))
    BY <1>1 DEF Goes
  <2>2. Head(q) \in Requests /\ n \in 0 .. BatchSize - 1
    BY <1>0, <1>1, HeadTailProperties
  <2>3. /\ runs' \in [Requests -> 0 .. 2] /\ runs'[Head(q)] > 0
        /\ \A x \in Requests : runs[x] > 0 => runs'[x] > 0
    BY <1>0, <2>1, <2>2, RanTyped
  <2>4. [item |-> Head(q), processed |-> n] \in [item : Requests \cup {None}, processed : 0 .. BatchSize - 1]
    BY <2>2
  <2> QED
    BY <1>0, <1>1, <2>1, <2>2, <2>3, <2>4
<1>2. CASE ~(n < BatchSize /\ q # <<>> /\ ~OverBudget(u))
  <2>1. drain' = [drain EXCEPT ![d] = IdleDrain] /\ runs' = runs
    BY <1>2 DEF Goes
  <2>2. IdleDrain \in [item : Requests \cup {None}, processed : 0 .. BatchSize - 1] /\ IdleDrain.item = None
    BY <1>0 DEF IdleDrain
  <2> QED
    BY <1>0, <2>1, <2>2
<1> QED
  BY <1>1, <1>2

----------------------------------------------------------------------------
(* Types and order.                                                        *)

LEMMA NextTyped == TypeOK /\ Ordered /\ [Next]_vars => TypeOK' /\ Ordered'
<1> SUFFICES ASSUME TypeOK, Ordered, [Next]_vars PROVE TypeOK' /\ Ordered'
  OBVIOUS
<1>0. /\ queue \in Seq(Requests) /\ Len(queue) \in Nat /\ Len(queue) <= MaxDepth /\ MaxDepth \in Nat
      /\ Good(queue, came)
  BY QueueAssumption DEF TypeOK, Ordered
<1>1. ASSUME NEW r \in Requests, CallFull(r) PROVE TypeOK' /\ Ordered'
  <2>1. Call(r, r) /\ queue' = queue /\ refused' = TRUE /\ raced' = raced
    BY <1>1 DEF CallFull
  <2>2. TypeOK'
    BY <2>1, CallTyped, <1>0 DEF TypeOK
  <2>3. came' = [came EXCEPT ![r] = made + 1] /\ came[r] = 0
    BY <2>1, CallTyped
  <2>4. Ordered'
    <3>1. came \in [Requests -> 0 .. made]
      BY DEF TypeOK
    <3>2. \A i \in 1 .. Len(queue) : came'[queue[i]] = came[queue[i]]
      <4>1. \A i \in 1 .. Len(queue) : queue[i] \in Requests /\ queue[i] # r
        BY <1>0, <2>3, ElementOfSeq DEF Good, Came
      <4> QED
        BY <4>1, <3>1, <2>3
    <3>3. Sorted(queue, came') /\ Came(queue, came')
      BY <1>0, <3>2 DEF Good, Sorted, Came
    <3> QED
      BY <1>0, <2>1, <3>3 DEF Ordered, Good
  <2> QED
    BY <2>2, <2>4
<1>2. ASSUME NEW r \in Requests, CallOverBudget(r) PROVE TypeOK' /\ Ordered'
  <2>1. Call(r, r) /\ queue' = Inserted(queue, r) /\ refused' = TRUE /\ raced' = raced /\ CanEnqueue
    BY <1>2 DEF CallOverBudget
  <2>2. came' = [came EXCEPT ![r] = made + 1] /\ came[r] = 0
    BY <2>1, CallTyped
  <2>3. queue' \in Seq(Requests) /\ Len(queue') <= MaxDepth /\ Good(queue', came')
    <3>1. /\ Good(Inserted(queue, r), [came EXCEPT ![r] = made + 1])
          /\ Inserted(queue, r) \in Seq(Requests)
          /\ Len(Inserted(queue, r)) = Len(queue) + 1
      BY <2>2, GoodInsertedNow
    <3>2. Len(queue) < MaxDepth
      BY <2>1 DEF CanEnqueue
    <3>3. Len(Inserted(queue, r)) <= MaxDepth
      BY <1>0, <3>1, <3>2
    <3> QED
      BY <2>1, <2>2, <3>1, <3>3
  <2> QED
    BY <2>1, <2>3, CallTyped DEF TypeOK, Ordered
<1>3. ASSUME NEW r \in Requests, CallQueued(r) PROVE TypeOK' /\ Ordered'
  <2> DEFINE q == Inserted(queue, r)
  <2>1. /\ Call(r, Head(q)) /\ queue' = Tail(q) /\ refused' = refused
        /\ raced' = (raced \/ Awaited(None))
    BY <1>3 DEF CallQueued
  <2>2. came[r] = 0
    BY <2>1 DEF Call
  <2>3. Head(q) \in Requests /\ Tail(q) \in Seq(Requests) /\ Len(Tail(q)) = Len(queue)
        /\ Good(Tail(q), [came EXCEPT ![r] = made + 1])
    BY <2>2, InsertedHead
  <2> HIDE DEF q
  <2>4. raced' \in BOOLEAN
    BY <2>1 DEF TypeOK, Awaited
  <2>5. came' = [came EXCEPT ![r] = made + 1]
    BY <2>1, <2>3, CallTyped
  <2>6. /\ running' \in [Requests -> Requests \cup {None}]
        /\ made' \in Nat /\ came' \in [Requests -> 0 .. made']
        /\ runs' \in [Requests -> 0 .. 2]
        /\ used' = used /\ drain' = drain
    BY <2>1, <2>3, CallTyped
  <2> QED
    BY <1>0, <2>1, <2>3, <2>4, <2>5, <2>6 DEF TypeOK, Ordered
<1>4. ASSUME NEW r \in Requests, Return(r) PROVE TypeOK' /\ Ordered'
  BY <1>4, RecordedTyped DEF Return, TypeOK, Ordered, history
<1>5. ASSUME NEW d \in Drains, DrainStart(d) PROVE TypeOK' /\ Ordered'
  <2>1. 0 \in 0 .. BatchSize /\ used \in 0 .. Budget
    BY QueueAssumption DEF TypeOK
  <2>2. Goes(d, queue, used, 0) /\ UNCHANGED <<running, made, came, refused, raced>>
    BY <1>5 DEF DrainStart
  <2> QED
    BY <1>0, <2>1, <2>2, GoesTyped DEF TypeOK, Ordered
<1>6. ASSUME NEW d \in Drains, NEW success \in BOOLEAN, DrainGoesOn(d, success)
      PROVE  TypeOK' /\ Ordered'
  <2> DEFINE item == drain[d].item
             n == drain[d].processed
             u == IF success THEN Recorded(used, CostOf[item]) ELSE used
             m == IF success THEN n + 1 ELSE n
  <2>1. /\ item # None /\ raced' = (raced \/ Awaited(d))
        /\ Goes(d, Shifted(queue), u, m)
        /\ UNCHANGED <<running, made, came, refused>>
    BY <1>6 DEF DrainGoesOn
  <2>2. item \in Requests /\ n \in 0 .. BatchSize - 1 /\ BatchSize \in Nat /\ used \in 0 .. Budget
    BY <2>1, QueueAssumption DEF TypeOK
  <2>3. u \in 0 .. Budget /\ m \in 0 .. BatchSize
    BY <2>2, RecordedTyped
  <2>4. Shifted(queue) \in Seq(Requests) /\ Len(Shifted(queue)) <= MaxDepth /\ Good(Shifted(queue), came)
    BY ShiftedTyped
  <2> HIDE DEF item, n, u, m
  <2>5. raced' \in BOOLEAN
    BY <2>1 DEF TypeOK, Awaited
  <2>6. /\ drain' \in [Drains -> [item : Requests \cup {None}, processed : 0 .. BatchSize - 1]]
        /\ runs' \in [Requests -> 0 .. 2] /\ used' \in 0 .. Budget /\ queue' = Shifted(queue)
    BY <2>1, <2>3, <2>4, GoesTyped
  <2> QED
    BY <2>1, <2>4, <2>5, <2>6 DEF TypeOK, Ordered
<1>7. CASE MarketRead
  <2>1. used' \in 0 .. Budget
    BY <1>7, QueueAssumption DEF MarketRead, Recorded, TypeOK
  <2> QED
    BY <1>7, <2>1 DEF MarketRead, TypeOK, Ordered, history
<1>8. CASE NewDay
  <2>1. used' \in 0 .. Budget
    BY <1>8, QueueAssumption DEF NewDay
  <2> QED
    BY <1>8, <2>1 DEF NewDay, TypeOK, Ordered, history
<1>9. CASE UNCHANGED vars
  BY <1>9 DEF vars, history, TypeOK, Ordered
<1> QED
  BY <1>1, <1>2, <1>3, <1>4, <1>5, <1>6, <1>7, <1>8, <1>9 DEF Next, Work

LEMMA TypedInvariance == Spec => [](TypeOK /\ Ordered)
<1>1. Init => TypeOK /\ Ordered
  BY InitInv DEF IInv
<1> QED
  BY <1>1, NextTyped, PTL DEF Spec

\* Every reachable state has its type, for any requests, costs and drains.
THEOREM TypeCorrect == Spec => []TypeOK
BY TypedInvariance, PTL

\* The queue is in the order of priority and, within one, of arrival, for any
\* priorities and however calls and drains take from it: the place of a request is
\* behind its equals, and every queue it goes into is in order.
THEOREM InOrderOfArrival == Spec => []PriorityThenArrival
<1>1. TypeOK /\ Ordered => PriorityThenArrival
  <2> SUFFICES ASSUME TypeOK, Ordered PROVE PriorityThenArrival
    OBVIOUS
  <2>1. DOMAIN queue = 1 .. Len(queue) /\ Sorted(queue, came)
    BY LenProperties DEF TypeOK, Ordered, Good
  <2> QED
    BY <2>1 DEF Sorted, PriorityThenArrival
<1> QED
  BY <1>1, TypedInvariance, PTL

----------------------------------------------------------------------------
(* One run, by its own call.                                               *)

LEMMA NextPassing == TypeOK /\ Ordered /\ Passing /\ [Next]_vars => Passing'
<1> SUFFICES ASSUME TypeOK, Ordered, Passing, [Next]_vars PROVE Passing'
  OBVIOUS
<1> USE DEF Passing
<1>0. ASSUME refused' = TRUE PROVE Passing'
  BY <1>0 DEF OnceWithinBudget
<1>1. ASSUME NEW r \in Requests, CallFull(r) \/ CallOverBudget(r) PROVE Passing'
  BY <1>0, <1>1 DEF CallFull, CallOverBudget
<1>2. ASSUME NEW r \in Requests, CallQueued(r) PROVE Passing'
  <2> DEFINE q == Inserted(queue, r)
  <2> SUFFICES ASSUME ~refused' PROVE Passing'
    BY DEF OnceWithinBudget
  <2>1. Call(r, Head(q)) /\ queue' = Tail(q) /\ refused' = refused
    BY <1>2 DEF CallQueued
  <2>2. queue = <<>> /\ ~refused
    BY <2>1 DEF OnceWithinBudget
  <2>3. came[r] = 0
    BY <2>1 DEF Call
  <2>4. /\ q # <<>> /\ Head(q) = r
        /\ Tail(q) \in Seq(Requests) /\ Len(Tail(q)) = Len(queue)
    BY <2>2, <2>3, InsertedHead
  <2>5. queue' = <<>>
    BY <2>1, <2>2, <2>4
  <2>6. runs \in [Requests -> 0 .. 2] /\ came \in [Requests -> 0 .. made] /\ made \in Nat
        /\ running \in [Requests -> Requests \cup {None}]
    BY DEF TypeOK
  <2>7. Ran(r) /\ came' = [came EXCEPT ![r] = made + 1] /\ running' = [running EXCEPT ![r] = r] /\ drain' = drain
    BY <2>1, <2>4 DEF Call
  <2>8. runs[r] = 0
    BY <2>2, <2>3 DEF OnceWithinBudget
  <2>9. runs'[r] = 1 /\ \A x \in Requests \ {r} : runs'[x] = runs[x]
    BY <2>6, <2>7, <2>8, RanTyped
  <2>10. \A x \in Requests : runs'[x] = IF came'[x] > 0 THEN 1 ELSE 0
    <3>1. \A x \in Requests \ {r} : runs[x] = (IF came[x] > 0 THEN 1 ELSE 0) /\ came'[x] = came[x]
      BY <2>2, <2>6, <2>7 DEF OnceWithinBudget
    <3>2. came'[r] > 0
      BY <2>6, <2>7
    <3> QED
      BY <2>9, <3>1, <3>2
  <2>11. \A x \in Requests : running'[x] \in {x, None}
    BY <2>2, <2>6, <2>7 DEF OnceWithinBudget
  <2> QED
    BY <2>2, <2>5, <2>7, <2>10, <2>11 DEF OnceWithinBudget
<1>3. ASSUME NEW r \in Requests, Return(r) PROVE Passing'
  <2>1. \A x \in Requests : running'[x] \in {running[x], None}
    BY <1>3 DEF Return, TypeOK
  <2> QED
    BY <1>3, <2>1 DEF Return, history, OnceWithinBudget
<1>4. ASSUME NEW d \in Drains, DrainStart(d) PROVE Passing'
  BY <1>4 DEF DrainStart, OnceWithinBudget
<1>5. ASSUME NEW d \in Drains, NEW success \in BOOLEAN, DrainGoesOn(d, success) PROVE Passing'
  BY <1>5 DEF DrainGoesOn, OnceWithinBudget
<1>6. CASE MarketRead \/ NewDay \/ UNCHANGED vars
  BY <1>6 DEF MarketRead, NewDay, vars, history, OnceWithinBudget
<1> QED
  BY <1>1, <1>2, <1>3, <1>4, <1>5, <1>6 DEF Next, Work

\* As long as no call was refused, every request made was run once, by its own
\* call, and drains find nothing: for any requests, costs, budget and drains.
THEOREM OneRunEach == Spec => []OnceWithinBudget
<1>1. Init => Passing
  BY InitInv DEF IInv
<1>2. Passing => OnceWithinBudget
  BY DEF Passing
<1> QED
  BY <1>1, <1>2, NextPassing, TypedInvariance, PTL DEF Spec

----------------------------------------------------------------------------
(* No request lost.                                                        *)

In(r, q) == \E i \in 1 .. Len(q) : q[i] = r

\* Whoever is not at the head stays when the head is taken.
LEMMA StaysInTail ==
  ASSUME NEW q \in Seq(Requests), q # <<>>, NEW r, In(r, q), r # Head(q)
  PROVE  In(r, Tail(q))
<1>1. /\ Len(q) \in Nat /\ Len(Tail(q)) = Len(q) - 1
      /\ \A i \in 1 .. Len(Tail(q)) : Tail(q)[i] = q[i + 1]
  BY HeadTailProperties
<1>2. PICK i \in 1 .. Len(q) : q[i] = r
  BY DEF In
<1>3. i # 1
  BY <1>2
<1>4. i - 1 \in 1 .. Len(Tail(q)) /\ Tail(q)[i - 1] = q[(i - 1) + 1] /\ (i - 1) + 1 = i
  BY <1>1, <1>2, <1>3
<1> QED
  BY <1>2, <1>4 DEF In

LEMMA StaysWhenInserted ==
  ASSUME NEW q \in Seq(Requests), NEW r \in Requests, ByPriority(q)
  PROVE  /\ In(r, Inserted(q, r))
         /\ \A x : In(x, q) => In(x, Inserted(q, r))
         /\ Head(Inserted(q, r)) \in {r, Head(q)}
         /\ q = <<>> => Head(Inserted(q, r)) = r
<1> DEFINE s == Inserted(q, r)
           k == Place(q, r)
<1>1. Len(q) \in Nat /\ k \in 1 .. Len(q) + 1
  BY PlaceDivides
<1>2. s \in Seq(Requests) /\ Len(s) = Len(q) + 1
  BY InsertedElements
<1>3. \A i \in 1 .. Len(q) + 1 : s[i] = IF i < k THEN q[i] ELSE IF i = k THEN r ELSE q[i - 1]
  BY InsertedElements
<1> HIDE DEF s, k
<1>4. In(r, s)
  BY <1>1, <1>2, <1>3 DEF In
<1>5. ASSUME NEW x, In(x, q) PROVE In(x, s)
  <2>1. PICK i \in 1 .. Len(q) : q[i] = x
    BY <1>5 DEF In
  <2>2. CASE i < k
    <3>1. i \in 1 .. Len(s) /\ s[i] = x
      BY <1>1, <1>2, <1>3, <2>1, <2>2
    <3> QED
      BY <3>1 DEF In
  <2>3. CASE i >= k
    <3>1. i + 1 \in 1 .. Len(q) + 1 /\ ~(i + 1 < k) /\ i + 1 # k /\ (i + 1) - 1 = i
      BY <1>1, <2>1, <2>3
    <3>2. i + 1 \in 1 .. Len(s) /\ s[i + 1] = x
      BY <1>2, <1>3, <2>1, <3>1
    <3> QED
      BY <3>2 DEF In
  <2> QED
    BY <1>1, <2>1, <2>2, <2>3
<1>6. s # <<>> /\ Head(s) = s[1]
  BY <1>1, <1>2
<1>7. CASE k = 1
  BY <1>1, <1>3, <1>6, <1>7, <1>4, <1>5 DEF s
<1>8. CASE k # 1
  <2>1. q # <<>> /\ 1 < k /\ s[1] = q[1]
    BY <1>1, <1>3, <1>8
  <2> QED
    BY <1>4, <1>5, <1>6, <2>1 DEF s
<1> QED
  BY <1>7, <1>8

Present == \A r \in Requests : came[r] > 0 => runs[r] > 0 \/ In(r, queue)
HeadWasRun == \A d \in Drains : drain[d].item # None => queue # <<>> /\ runs[Head(queue)] > 0

LEMMA KeptMeans == TypeOK => (Kept <=> (~raced => Present /\ HeadWasRun))
<1> SUFFICES ASSUME TypeOK PROVE Kept <=> (~raced => Present /\ HeadWasRun)
  OBVIOUS
<1>1. DOMAIN queue = 1 .. Len(queue)
  BY LenProperties DEF TypeOK
<1> QED
  BY <1>1 DEF Kept, NoneLost, Present, HeadWasRun, In

LEMMA CallRan ==
  ASSUME TypeOK, NEW r \in Requests, NEW item \in Requests, Call(r, item)
  PROVE  /\ runs'[item] > 0
         /\ \A x \in Requests : runs[x] > 0 => runs'[x] > 0
         /\ \A x \in Requests \ {r} : came'[x] = came[x]
         /\ drain' = drain
BY RanTyped DEF Call, TypeOK

LEMMA NextKept == TypeOK /\ Ordered /\ Kept /\ [Next]_vars => Kept'
<1> SUFFICES ASSUME TypeOK, Ordered, Kept, [Next]_vars, ~raced' PROVE Present' /\ HeadWasRun'
  <2>1. TypeOK /\ Ordered /\ [Next]_vars => TypeOK'
    BY NextTyped
  <2>2. TypeOK' => (Kept' <=> (~raced' => Present' /\ HeadWasRun'))
    BY KeptMeans, PTL
  <2> QED
    BY <2>1, <2>2
<1>0. ASSUME ~raced
      PROVE  Present /\ HeadWasRun
  BY <1>0, KeptMeans
<1>a. queue \in Seq(Requests) /\ ByPriority(queue)
  BY SortedIsByPriority DEF Ordered, Good
<1>1. ASSUME NEW r \in Requests, CallFull(r) PROVE Present' /\ HeadWasRun'
  <2>1. Call(r, r) /\ queue' = queue /\ raced' = raced
    BY <1>1 DEF CallFull
  <2>2. /\ runs'[r] > 0 /\ \A x \in Requests : runs[x] > 0 => runs'[x] > 0
        /\ \A x \in Requests \ {r} : came'[x] = came[x]
        /\ drain' = drain
    BY <2>1, CallRan
  <2>3. Present'
    BY <1>0, <2>1, <2>2 DEF Present
  <2>4. queue # <<>> => Head(queue) \in Requests
    BY <1>a, HeadTailProperties
  <2>5. HeadWasRun'
    BY <1>0, <2>1, <2>2, <2>4 DEF HeadWasRun
  <2> QED
    BY <2>3, <2>5
<1>2. ASSUME NEW r \in Requests, CallOverBudget(r) PROVE Present' /\ HeadWasRun'
  <2>1. Call(r, r) /\ queue' = Inserted(queue, r) /\ raced' = raced
    BY <1>2 DEF CallOverBudget
  <2>2. /\ runs'[r] > 0 /\ \A x \in Requests : runs[x] > 0 => runs'[x] > 0
        /\ \A x \in Requests \ {r} : came'[x] = came[x]
        /\ drain' = drain
    BY <2>1, CallRan
  <2>3. /\ \A x : In(x, queue) => In(x, queue')
        /\ Head(queue') \in {r, Head(queue)}
    BY <1>a, <2>1, StaysWhenInserted
  <2>4. Present'
    BY <1>0, <2>1, <2>2, <2>3 DEF Present
  <2>5. queue # <<>> => Head(queue) \in Requests
    BY <1>a, HeadTailProperties
  <2>6. queue' # <<>>
    <3>1. came[r] = 0
      BY <2>1 DEF Call
    <3> QED
      BY <2>1, <3>1, InsertedHead
  <2>7. HeadWasRun'
    BY <1>0, <2>1, <2>2, <2>3, <2>5, <2>6 DEF HeadWasRun
  <2> QED
    BY <2>4, <2>7
<1>3. ASSUME NEW r \in Requests, CallQueued(r) PROVE Present' /\ HeadWasRun'
  <2> DEFINE q == Inserted(queue, r)
  <2>1. /\ Call(r, Head(q)) /\ queue' = Tail(q)
        /\ raced' = (raced \/ Awaited(None))
    BY <1>3 DEF CallQueued
  <2>2. came[r] = 0
    BY <2>1 DEF Call
  <2>3. q # <<>> /\ Head(q) \in Requests /\ q \in Seq(Requests)
    BY <2>2, InsertedHead, GoodInsertedNow
  <2>4. In(r, q) /\ \A x : In(x, queue) => In(x, q)
    BY <1>a, StaysWhenInserted
  <2> HIDE DEF q
  <2>5. /\ runs'[Head(q)] > 0 /\ \A x \in Requests : runs[x] > 0 => runs'[x] > 0
        /\ \A x \in Requests \ {r} : came'[x] = came[x]
        /\ drain' = drain
    BY <2>1, <2>3, CallRan
  <2>6. \A d \in Drains : drain[d].item = None
    BY <2>1, QueueAssumption DEF Awaited
  <2>7. HeadWasRun'
    BY <2>5, <2>6 DEF HeadWasRun
  <2>8. \A x \in Requests : In(x, q) => runs'[x] > 0 \/ In(x, queue')
    BY <2>1, <2>3, <2>5, StaysInTail
  <2>9. Present'
    <3> SUFFICES ASSUME NEW x \in Requests, came'[x] > 0 PROVE runs'[x] > 0 \/ In(x, queue')
      BY DEF Present, In
    <3>1. CASE x = r
      BY <2>4, <2>8, <3>1
    <3>2. CASE x # r
      BY <1>0, <2>1, <2>4, <2>5, <2>8, <3>2 DEF Present
    <3> QED
      BY <3>1, <3>2
  <2> QED
    BY <2>7, <2>9
<1>4. ASSUME NEW d \in Drains, DrainStart(d) PROVE Present' /\ HeadWasRun'
  <2>1. Goes(d, queue, used, 0) /\ came' = came /\ raced' = raced
    BY <1>4 DEF DrainStart
  <2>2. used \in 0 .. Budget /\ 0 \in 0 .. BatchSize
    BY QueueAssumption DEF TypeOK
  <2>3. /\ queue' = queue /\ \A x \in Requests : runs[x] > 0 => runs'[x] > 0
        /\ \A e \in Drains \ {d} : drain'[e] = drain[e]
        /\ drain'[d].item # None => queue # <<>> /\ runs'[Head(queue)] > 0
    BY <1>a, <2>1, <2>2, GoesTyped
  <2>4. queue # <<>> => Head(queue) \in Requests
    BY <1>a, HeadTailProperties
  <2>5. Present'
    BY <1>0, <2>1, <2>3 DEF Present
  <2>6. HeadWasRun'
    BY <1>0, <2>1, <2>3, <2>4 DEF HeadWasRun
  <2> QED
    BY <2>5, <2>6
<1>5. ASSUME NEW d \in Drains, NEW success \in BOOLEAN, DrainGoesOn(d, success)
      PROVE  Present' /\ HeadWasRun'
  <2> DEFINE item == drain[d].item
             n == drain[d].processed
             u == IF success THEN Recorded(used, CostOf[item]) ELSE used
             m == IF success THEN n + 1 ELSE n
             q == Shifted(queue)
  <2>1. /\ item # None /\ raced' = (raced \/ Awaited(d))
        /\ Goes(d, q, u, m) /\ came' = came
    BY <1>5 DEF DrainGoesOn
  <2>2. item \in Requests /\ n \in 0 .. BatchSize - 1 /\ BatchSize \in Nat /\ used \in 0 .. Budget
    BY <2>1, QueueAssumption DEF TypeOK
  <2>3. u \in 0 .. Budget /\ m \in 0 .. BatchSize
    BY <2>2, RecordedTyped
  <2>4. q \in Seq(Requests)
    BY ShiftedTyped
  <2>5. queue # <<>> /\ runs[Head(queue)] > 0 /\ Present
    BY <1>0, <2>1 DEF HeadWasRun
  <2>6. q = Tail(queue)
    BY <2>5 DEF Shifted
  <2>7. \A e \in Drains \ {d} : drain[e].item = None
    BY <2>1 DEF Awaited
  <2> HIDE DEF item, n, u, m, q
  <2>8. /\ queue' = q /\ \A x \in Requests : runs[x] > 0 => runs'[x] > 0
        /\ \A e \in Drains \ {d} : drain'[e] = drain[e]
        /\ drain'[d].item # None => q # <<>> /\ runs'[Head(q)] > 0
    BY <2>1, <2>3, <2>4, GoesTyped
  <2>9. HeadWasRun'
    BY <2>7, <2>8 DEF HeadWasRun
  <2>10. Present'
    <3> SUFFICES ASSUME NEW x \in Requests, came[x] > 0, ~(runs'[x] > 0) PROVE In(x, queue')
      BY <2>1 DEF Present, In
    <3>1. In(x, queue) /\ x # Head(queue)
      BY <2>5, <2>8 DEF Present
    <3> QED
      BY <1>a, <2>5, <2>6, <2>8, <3>1, StaysInTail
  <2> QED
    BY <2>9, <2>10
<1>6. CASE \/ \E r \in Requests : Return(r)
           \/ MarketRead \/ NewDay \/ UNCHANGED vars
  <2>1. UNCHANGED <<queue, drain, came, runs, raced>>
    BY <1>6 DEF Return, MarketRead, NewDay, vars, history
  <2> QED
    BY <1>0, <2>1 DEF Present, HeadWasRun, In
<1> QED
  BY <1>1, <1>2, <1>3, <1>4, <1>5, <1>6 DEF Next, Work

\* No request that was made is lost by any number of overlapping drains, calls
\* and refusals, unless the head was taken under a drain that awaited it.
THEOREM NothingLost == Spec => []NoneLost
<1>1. Init => Kept
  BY InitInv DEF IInv
<1>2. Kept => NoneLost
  BY DEF Kept
<1> QED
  BY <1>1, <1>2, NextKept, TypedInvariance, PTL DEF Spec
=============================================================================
