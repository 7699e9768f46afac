-------------------------- MODULE StrategiesProofs --------------------------
(***************************************************************************)
(* Proofs about Strategies, for any number of levels and steps, any        *)
(* offsets and prices: the grid has one order per level, and exits that    *)
(* only tighten; the positions that mean reversion and DCA count are those *)
(* of their orders on the exchange's book, up to named differences.        *)
(***************************************************************************)
EXTENDS Strategies, SequenceTheorems, WellFoundedInduction, TLAPS

GridInv == Grid!TypeOK /\ Grid!OneOrderPerLevel

LEMMA SlotsAreInts == Grid!Slots \subseteq Int
<1>1. -Half .. Half \subseteq Int
  BY StrategiesAssumption
<1> QED
  BY <1>1 DEF Grid!Slots

LEMMA DirOf == ASSUME NEW i \in Grid!Slots PROVE Grid!Dir(i) \in {1, -1}
BY DEF Grid!Dir

LEMMA GridInit == Grid!Init => GridInv
BY DEF GridInv, Grid!Init, Grid!TypeOK, Grid!OneOrderPerLevel, Grid!Levels,
       Grid!Pending, Grid!None

\* What a ticker makes of a level's trailing exits has its type, and is in the
\* status the level was in or cancelled.
LEMMA TrailedLevel ==
  ASSUME NEW i \in Grid!Slots, NEW p \in Prices, NEW l \in Grid!Levels
  PROVE  /\ Grid!Trailed(i, l, p) \in Grid!Levels
         /\ Grid!Trailed(i, l, p).status = l.status
<1>1. \A q \in Prices \cup {0} : q \in Int
  BY StrategiesAssumption
<1>2. l.filled \in Int /\ p \in Int /\ l.tp \in Int /\ l.sl \in Int
  <2>1. l.filled \in Prices \cup {0} /\ l.tp \in Int /\ l.sl \in Int
    BY DEF Grid!Levels
  <2> QED
    BY <1>1, <2>1
<1>3. Grid!Dir(i) \in Int /\ TpOff \in Int /\ SlOff \in Int
  BY DirOf, StrategiesAssumption
<1>4. l.filled + Grid!Dir(i) * TpOff \in Int /\ l.filled - 2 * Grid!Dir(i) * SlOff \in Int
      /\ p - Grid!Dir(i) * TpOff \in Int /\ p - Grid!Dir(i) * SlOff \in Int
  BY <1>2, <1>3
<1>5. CASE l.status # "filled"
  BY <1>5 DEF Grid!Trailed
<1>6. CASE l.status = "filled" /\ ~l.active
  BY <1>4, <1>6 DEF Grid!Trailed, Grid!Seeded, Grid!Levels
<1>7. CASE l.status = "filled" /\ l.active
  <2>1. /\ Grid!Ratcheted(i, l, p) \in Grid!Levels
        /\ Grid!Ratcheted(i, l, p).status = l.status
    BY <1>2, <1>4 DEF Grid!Ratcheted, Grid!Further, Grid!Nearer, Grid!Levels
  <2> QED
    BY <2>1, <1>7 DEF Grid!Trailed
<1> QED
  BY <1>5, <1>6, <1>7 DEF Grid!Levels

LEMMA TickedLevel ==
  ASSUME Grid!TypeOK, NEW i \in Grid!Slots, NEW p \in Prices
  PROVE  /\ Grid!Ticked(i, p) \in Grid!Levels
         /\ Grid!Ticked(i, p).status = "pending" => level[i].status = "pending" /\ ~Grid!Fills(i, p)
<1> DEFINE l == Grid!Trailed(i, level[i], p)
<1>0. level[i] \in Grid!Levels
  BY DEF Grid!TypeOK
<1>1. CASE Grid!Fills(i, p)
  <2>1. /\ Grid!Filled(level[i], p) \in Grid!Levels
        /\ Grid!Filled(level[i], p).status = "filled"
    BY <1>0 DEF Grid!Filled, Grid!Levels
  <2> QED
    BY <2>1, <1>1 DEF Grid!Ticked
<1>2. CASE ~Grid!Fills(i, p)
  <2>1. l \in Grid!Levels /\ l.status = level[i].status
    BY <1>0, TrailedLevel
  <2> HIDE DEF l
  <2>2. /\ Grid!Closed(i, l, p) \in Grid!Levels
        /\ Grid!Closed(i, l, p).status = "pending" => l.status = "pending"
    BY <2>1 DEF Grid!Closed, Grid!Levels
  <2>3. Grid!Ticked(i, p) = Grid!Closed(i, l, p)
    BY <1>2 DEF Grid!Ticked, l
  <2> QED
    BY <2>1, <2>2, <2>3, <1>2
<1> QED
  BY <1>1, <1>2

LEMMA GridNext == GridInv /\ [Grid!Next]_Grid!vars => GridInv'
<1> SUFFICES ASSUME GridInv, [Grid!Next]_Grid!vars PROVE GridInv'
  OBVIOUS
<1> USE DEF GridInv
<1>1. ASSUME NEW p \in Prices, Grid!Tick(p) PROVE GridInv'
  <2>1. \A i \in Grid!Slots : /\ level'[i] = Grid!Ticked(i, p)
                              /\ inflight'[i] = IF Grid!Fills(i, p) THEN inflight[i] + 1 ELSE inflight[i]
    BY <1>1 DEF Grid!Tick
  <2>2. Grid!TypeOK'
    <3>1. level' \in [Grid!Slots -> Grid!Levels]
      BY <1>1, TickedLevel DEF Grid!Tick
    <3>2. inflight' \in [Grid!Slots -> Nat]
      BY <1>1 DEF Grid!Tick, Grid!TypeOK
    <3> QED
      BY <1>1, <3>1, <3>2 DEF Grid!Tick, Grid!TypeOK
  <2>3. Grid!OneOrderPerLevel'
    <3> SUFFICES ASSUME NEW i \in Grid!Slots
                 PROVE  /\ inflight'[i] + placed[i] <= 1
                        /\ level'[i].status = "pending" => inflight'[i] + placed[i] = 0
      BY <1>1 DEF Grid!OneOrderPerLevel, Grid!Tick
    <3>1. inflight[i] \in Nat /\ placed[i] \in Nat
      BY DEF Grid!TypeOK
    <3>2. CASE Grid!Fills(i, p)
      BY <2>1, <3>1, <3>2, TickedLevel DEF Grid!Fills, Grid!OneOrderPerLevel
    <3>3. CASE ~Grid!Fills(i, p)
      BY <2>1, <3>1, <3>3, TickedLevel DEF Grid!OneOrderPerLevel
    <3> QED
      BY <3>2, <3>3
  <2> QED
    BY <2>2, <2>3
<1>2. ASSUME NEW p \in Prices, Grid!Rebalance(p) PROVE GridInv'
  BY <1>2 DEF Grid!Rebalance, Grid!TypeOK, Grid!OneOrderPerLevel, Grid!Levels, Grid!Pending, Grid!None
<1>3. ASSUME NEW i \in Grid!Slots, Grid!Answered(i) PROVE GridInv'
  <2>1. Grid!TypeOK'
    BY <1>3 DEF Grid!Answered, Grid!TypeOK
  <2>2. Grid!OneOrderPerLevel'
    BY <1>3 DEF Grid!Answered, Grid!TypeOK, Grid!OneOrderPerLevel
  <2> QED
    BY <2>1, <2>2
<1>4. ASSUME NEW i \in Grid!Slots, Grid!Failed(i) PROVE GridInv'
  <2>1. Grid!TypeOK'
    BY <1>4 DEF Grid!Failed, Grid!TypeOK, Grid!Levels
  <2>2. Grid!OneOrderPerLevel'
    <3>1. /\ inflight[i] \in Nat /\ placed[i] \in Nat /\ inflight[i] + placed[i] <= 1
          /\ inflight' = [inflight EXCEPT ![i] = @ - 1] /\ inflight[i] > 0 /\ placed' = placed
      BY <1>4 DEF Grid!Failed, Grid!TypeOK, Grid!OneOrderPerLevel
    <3>2. inflight'[i] + placed'[i] = 0
      BY <3>1 DEF Grid!TypeOK
    <3>3. \A j \in Grid!Slots \ {i} : level'[j] = level[j] /\ inflight'[j] = inflight[j]
      BY <1>4 DEF Grid!Failed, Grid!TypeOK
    <3>4. \A j \in Grid!Slots \ {i} :
             /\ inflight'[j] + placed'[j] <= 1
             /\ level'[j].status = "pending" => inflight'[j] + placed'[j] = 0
      BY <3>1, <3>3 DEF Grid!OneOrderPerLevel
    <3>5. inflight'[i] + placed'[i] <= 1
      BY <3>2
    <3> QED
      BY <3>2, <3>4, <3>5 DEF Grid!OneOrderPerLevel
  <2> QED
    BY <2>1, <2>2
<1>5. ASSUME NEW i \in Grid!Slots, Grid!OrderFilled(i) PROVE GridInv'
  <2>1. Grid!TypeOK'
    BY <1>5 DEF Grid!OrderFilled, Grid!TypeOK, Grid!Levels
  <2>2. Grid!OneOrderPerLevel'
    BY <1>5 DEF Grid!OrderFilled, Grid!TypeOK, Grid!Levels, Grid!OneOrderPerLevel
  <2> QED
    BY <2>1, <2>2
<1>6. CASE Grid!Stop
  BY <1>6 DEF Grid!Stop, Grid!TypeOK, Grid!OneOrderPerLevel
<1>7. CASE UNCHANGED Grid!vars
  BY <1>7 DEF Grid!vars, Grid!TypeOK, Grid!OneOrderPerLevel
<1> QED
  BY <1>1, <1>2, <1>3, <1>4, <1>5, <1>6, <1>7 DEF Grid!Next

----------------------------------------------------------------------------
(* Orders that are awaited, and what they come to.                         *)

\* Any set of naturals that is not empty has a least member.
LEMMA LeastOf ==
  ASSUME NEW T \in SUBSET Nat, T # {}
  PROVE  \E x \in T : \A y \in T : x <= y
<1> DEFINE Less == {ss \in Nat \X Nat : ss[1] < ss[2]}
<1>1. IsWellFoundedOn(Less, Nat)
  BY NatLessThanWellFounded DEF OpToRel
<1>2. \A x, y \in Nat : x < y => <<x, y>> \in Less
  OBVIOUS
<1> HIDE DEF Less
<1>3. PICK x \in T : \A y \in T : <<y, x>> \notin Less
  BY <1>1, WFMin
<1>4. \A y \in T : ~(y < x)
  BY <1>2, <1>3
<1> QED
  BY <1>4

\* What is left of a sequence without its i-th member.
Rest(s, i) == SubSeq(s, 1, i - 1) \o SubSeq(s, i + 1, Len(s))
Without(r, i, s) ==
    /\ Len(r) = Len(s) - 1
    /\ \A j \in 1 .. Len(s) - 1 : r[j] = IF j < i THEN s[j] ELSE s[j + 1]

\* Two sequences that are joined, told place by place.
LEMMA Joined ==
  ASSUME NEW S, NEW a \in Seq(S), NEW b \in Seq(S)
  PROVE  /\ a \o b \in Seq(S)
         /\ Len(a \o b) = Len(a) + Len(b)
         /\ \A j \in 1 .. Len(a) : (a \o b)[j] = a[j]
         /\ \A j \in 1 .. Len(b) : (a \o b)[Len(a) + j] = b[j]
BY ConcatProperties, LenProperties

LEMMA RestIsWithout ==
  ASSUME NEW S, NEW s \in Seq(S), NEW i \in 1 .. Len(s)
  PROVE  Rest(s, i) \in Seq(S) /\ Without(Rest(s, i), i, s)
<1>0. Len(s) \in Nat /\ i \in Int /\ 1 <= i /\ i <= Len(s)
  BY LenProperties
<1>1. \A j \in 1 .. Len(s) : s[j] \in S
  BY ElementOfSeq
<1>2. PICK before : before = SubSeq(s, 1, i - 1)
  OBVIOUS
<1>3. PICK after : after = SubSeq(s, i + 1, Len(s))
  OBVIOUS
<1>4. /\ before \in Seq(S) /\ Len(before) = i - 1
      /\ \A j \in 1 .. i - 1 : before[j] = s[j]
  BY <1>0, <1>1, <1>2, SubSeqProperties
<1>5. /\ after \in Seq(S) /\ Len(after) = Len(s) - i
      /\ \A j \in 1 .. Len(s) - i : after[j] = s[i + j]
  BY <1>0, <1>1, <1>3, SubSeqProperties
<1>6. PICK r : r = before \o after
  OBVIOUS
<1>7. r = Rest(s, i)
  BY <1>2, <1>3, <1>6 DEF Rest
<1>8. /\ r \in Seq(S) /\ Len(r) = (i - 1) + (Len(s) - i)
      /\ \A j \in 1 .. i - 1 : r[j] = before[j]
      /\ \A j \in 1 .. Len(s) - i : r[(i - 1) + j] = after[j]
  <2>1. before \in Seq(S) /\ after \in Seq(S)
    BY <1>4, <1>5
  <2>2. /\ r \in Seq(S) /\ Len(r) = Len(before) + Len(after)
        /\ \A j \in 1 .. Len(before) : r[j] = before[j]
        /\ \A j \in 1 .. Len(after) : r[Len(before) + j] = after[j]
    BY <1>6, <2>1, Joined
  <2> QED
    BY <1>4, <1>5, <2>2
<1>9. ASSUME NEW j \in 1 .. Len(s) - 1 PROVE r[j] = IF j < i THEN s[j] ELSE s[j + 1]
  <2>1. CASE j < i
    <3>1. j \in 1 .. i - 1
      BY <1>0, <2>1
    <3> QED
      BY <1>4, <1>8, <2>1, <3>1
  <2>2. CASE ~(j < i)
    <3>1. PICK k \in 1 .. Len(s) - i : k = j - (i - 1)
      BY <1>0, <2>2
    <3>2. (i - 1) + k = j /\ i + k = j + 1
      BY <1>0, <3>1
    <3>3. r[j] = after[k] /\ after[k] = s[j + 1]
      BY <1>5, <1>8, <3>2
    <3> QED
      BY <2>2, <3>3
  <2> QED
    BY <2>1, <2>2
<1> QED
  <2>1. Len(r) = Len(s) - 1
    BY <1>0, <1>8
  <2> QED
    BY <1>7, <1>8, <1>9, <2>1 DEF Without

\* f[j] is c and what the first j members of s come to.
SumsUp(f, c, s) ==
    /\ f \in [0 .. Len(s) -> Int]
    /\ f[0] = c
    /\ \A j \in 1 .. Len(s) : f[j] = f[j - 1] + s[j]

\* There is one such sum, and the recursive definition gives it.
Running(g, c, s) == g = [j \in 0 .. Len(s) |-> IF j = 0 THEN c ELSE g[j - 1] + s[j]]

LEMMA SumsAgree ==
  ASSUME NEW s \in Seq(Int), NEW c \in Int, NEW f, SumsUp(f, c, s), NEW g, Running(g, c, s)
  PROVE  g[Len(s)] = f[Len(s)]
<1> DEFINE T == {j \in 0 .. Len(s) : g[j] # f[j]}
<1>0. Len(s) \in Nat
  BY LenProperties
<1>1. g[0] = c /\ \A j \in 1 .. Len(s) : g[j] = g[j - 1] + s[j]
  BY <1>0 DEF Running
<1>2. ASSUME NEW x \in T, \A y \in T : x <= y PROVE FALSE
  <2>1. x \in 0 .. Len(s) /\ g[x] # f[x] /\ x # 0
    BY <1>1 DEF SumsUp
  <2>2. x - 1 \in 0 .. Len(s) /\ ~(x <= x - 1)
    BY <1>0, <2>1
  <2>3. g[x - 1] = f[x - 1]
    BY <1>2, <2>2
  <2> QED
    BY <1>0, <1>1, <2>1, <2>3 DEF SumsUp
<1>3. T = {}
  <2>1. T \in SUBSET Nat
    BY <1>0
  <2> HIDE DEF T
  <2> QED
    BY <1>2, <2>1, LeastOf
<1> QED
  BY <1>0, <1>3

LEMMA SumOfAppended ==
  ASSUME NEW s \in Seq(Int), NEW c \in Int, NEW f, SumsUp(f, c, s), NEW x \in Int
  PROVE  \E g : SumsUp(g, c, Append(s, x)) /\ g[Len(s) + 1] = f[Len(s)] + x
<1> DEFINE t == Append(s, x)
           g == [j \in 0 .. Len(s) + 1 |-> IF j = Len(s) + 1 THEN f[Len(s)] + x ELSE f[j]]
<1>0. Len(s) \in Nat /\ f \in [0 .. Len(s) -> Int]
  BY LenProperties DEF SumsUp
<1>1. Len(t) = Len(s) + 1 /\ \A j \in 1 .. Len(s) : t[j] = s[j] /\ t[Len(s) + 1] = x
  BY AppendProperties
<1>2. g \in [0 .. Len(s) + 1 -> Int] /\ g[0] = c /\ g[Len(s) + 1] = f[Len(s)] + x
  BY <1>0 DEF SumsUp
<1>3. \A j \in 1 .. Len(s) + 1 : g[j] = g[j - 1] + t[j]
  <2>0. t[Len(s) + 1] = x
    BY AppendProperties
  <2>1. \A j \in 1 .. Len(s) : g[j] = f[j] /\ g[j - 1] = f[j - 1] /\ t[j] = s[j] /\ f[j] = f[j - 1] + s[j]
    BY <1>0, <1>1 DEF SumsUp
  <2>2. g[Len(s)] = f[Len(s)] /\ g[Len(s) + 1] = f[Len(s)] + x
    BY <1>0
  <2> HIDE DEF g, t
  <2> TAKE j \in 1 .. Len(s) + 1
  <2>3. CASE j = Len(s) + 1
    BY <1>0, <2>0, <2>2, <2>3
  <2>4. CASE j # Len(s) + 1
    <3>1. j \in 1 .. Len(s)
      BY <1>0, <2>4
    <3> QED
      BY <2>1, <3>1
  <2> QED
    BY <2>3, <2>4
<1> HIDE DEF g, t
<1> QED
  <2>1. SumsUp(g, c, t)
    BY <1>1, <1>2, <1>3 DEF SumsUp
  <2> QED
    BY <1>2, <2>1 DEF t

\* An order that is taken is moved from what is awaited to what is booked.
LEMMA SumOfAnswered ==
  ASSUME NEW s \in Seq(Int), NEW c \in Int, NEW f, SumsUp(f, c, s), NEW i \in 1 .. Len(s),
         NEW r \in Seq(Int), Without(r, i, s)
  PROVE  \E g : SumsUp(g, c + s[i], r) /\ g[Len(r)] = f[Len(s)]
<1> DEFINE g == [j \in 0 .. Len(s) - 1 |-> IF j < i THEN f[j] + s[i] ELSE f[j + 1]]
<1>0. Len(s) \in Nat /\ i \in Int /\ 1 <= i /\ i <= Len(s)
  BY LenProperties
<1>1. \A j \in 0 .. Len(s) : f[j] \in Int
  BY DEF SumsUp
<1>2. \A j \in 0 .. Len(s) - 1 : s[j + 1] \in Int /\ f[j + 1] = f[j] + s[j + 1]
  <2> SUFFICES ASSUME NEW j \in 0 .. Len(s) - 1 PROVE s[j + 1] \in Int /\ f[j + 1] = f[j] + s[j + 1]
    OBVIOUS
  <2>1. j + 1 \in 1 .. Len(s) /\ (j + 1) - 1 = j
    BY <1>0
  <2> QED
    BY <2>1, ElementOfSeq DEF SumsUp
<1>3. s[i] \in Int /\ f[i] = f[i - 1] + s[i]
  BY <1>0, ElementOfSeq DEF SumsUp
<1>4. g \in [0 .. Len(s) - 1 -> Int]
  <2> SUFFICES ASSUME NEW j \in 0 .. Len(s) - 1
               PROVE  (IF j < i THEN f[j] + s[i] ELSE f[j + 1]) \in Int
    OBVIOUS
  <2>1. j \in 0 .. Len(s) /\ j + 1 \in 0 .. Len(s)
    BY <1>0
  <2> QED
    BY <1>1, <1>3, <2>1
<1>r. Len(r) = Len(s) - 1 /\ Len(r) \in Nat
  BY LenProperties DEF Without
<1>5. \A j \in 0 .. Len(s) - 1 : g[j] = IF j < i THEN f[j] + s[i] ELSE f[j + 1]
  OBVIOUS
<1> HIDE DEF g
<1>6. g[0] = c + s[i]
  <2>1. 0 \in 0 .. Len(s) - 1 /\ 0 < i
    BY <1>0
  <2> QED
    BY <1>5, <2>1 DEF SumsUp
<1>7. \A j \in 0 .. Len(s) - 2 : g[j + 1] = g[j] + r[j + 1]
  <2> SUFFICES ASSUME NEW j \in 0 .. Len(s) - 2 PROVE g[j + 1] = g[j] + r[j + 1]
    OBVIOUS
  <2>a. /\ j \in Int /\ j \in 0 .. Len(s) /\ j + 1 \in 0 .. Len(s) /\ j \in 0 .. Len(s) - 1
        /\ j + 1 \in 0 .. Len(s) - 1 /\ j + 1 \in 1 .. Len(s) - 1 /\ (j + 1) + 1 = j + 2
    BY <1>0
  <2>0. /\ f[j] \in Int /\ s[j + 1] \in Int /\ f[j + 1] = f[j] + s[j + 1]
        /\ f[j + 1] \in Int /\ f[j + 2] = f[j + 1] + s[j + 2] /\ s[j + 2] \in Int
    BY <1>1, <1>2, <2>a
  <2>1. /\ g[j] = IF j < i THEN f[j] + s[i] ELSE f[j + 1]
        /\ g[j + 1] = IF j + 1 < i THEN f[j + 1] + s[i] ELSE f[j + 2]
        /\ r[j + 1] = IF j + 1 < i THEN s[j + 1] ELSE s[j + 2]
    BY <1>5, <2>a DEF Without
  <2>2. CASE j + 1 < i
    <3>1. g[j] = f[j] + s[i] /\ g[j + 1] = f[j + 1] + s[i] /\ r[j + 1] = s[j + 1]
      <4>1. j < i
        BY <1>0, <2>a, <2>2
      <4> QED
        BY <2>1, <2>2, <4>1
    <3> QED
      BY <1>3, <2>0, <3>1
  <2>3. CASE j + 1 = i
    <3>a. j < i /\ ~(j + 1 < i)
      BY <1>0, <2>a, <2>3
    <3>1. g[j] = f[j] + s[j + 1] /\ g[j + 1] = f[j + 2] /\ r[j + 1] = s[j + 2]
      BY <2>1, <2>3, <3>a
    <3> QED
      BY <2>0, <3>1
  <2>4. CASE j >= i
    <3>a. ~(j < i) /\ ~(j + 1 < i)
      BY <1>0, <2>a, <2>4
    <3>1. g[j] = f[j + 1] /\ g[j + 1] = f[j + 2] /\ r[j + 1] = s[j + 2]
      BY <2>1, <3>a
    <3> QED
      BY <2>0, <3>1
  <2> QED
    BY <1>0, <2>a, <2>2, <2>3, <2>4
<1>8. \A j \in 1 .. Len(r) : g[j] = g[j - 1] + r[j]
  <2> SUFFICES ASSUME NEW j \in 1 .. Len(r) PROVE g[j] = g[j - 1] + r[j]
    OBVIOUS
  <2>1. j - 1 \in 0 .. Len(s) - 2 /\ (j - 1) + 1 = j
    BY <1>0, <1>r
  <2> QED
    BY <1>7, <2>1
<1>9. g[Len(s) - 1] = f[Len(s)]
  <2>1. g[Len(s) - 1] = IF Len(s) - 1 < i THEN f[Len(s) - 1] + s[i] ELSE f[Len(s)]
    BY <1>0, <1>5
  <2>2. CASE i = Len(s)
    BY <1>0, <1>3, <2>1, <2>2
  <2>3. CASE i < Len(s)
    BY <1>0, <2>1, <2>3
  <2> QED
    BY <1>0, <2>2, <2>3
<1> HIDE DEF g
<1> QED
  BY <1>r, <1>3, <1>4, <1>6, <1>8, <1>9 DEF SumsUp

\* An order that is not taken is missing from what all of them come to.
LEMMA SumOfRefused ==
  ASSUME NEW s \in Seq(Int), NEW c \in Int, NEW x \in Int, NEW f, SumsUp(f, c + x, s)
  PROVE  \E g : SumsUp(g, c, s) /\ g[Len(s)] = f[Len(s)] - x
<1> DEFINE g == [j \in 0 .. Len(s) |-> f[j] - x]
<1>0. /\ Len(s) \in Nat /\ \A j \in 0 .. Len(s) : f[j] \in Int
      /\ f[0] = c + x /\ \A j \in 1 .. Len(s) : s[j] \in Int /\ f[j] = f[j - 1] + s[j]
  BY LenProperties, ElementOfSeq DEF SumsUp
<1>1. g \in [0 .. Len(s) -> Int] /\ g[0] = c
  BY <1>0
<1>2. \A j \in 1 .. Len(s) : g[j] = g[j - 1] + s[j]
  <2> TAKE j \in 1 .. Len(s)
  <2>1. j \in 0 .. Len(s) /\ j - 1 \in 0 .. Len(s)
    BY <1>0
  <2>2. g[j] = f[j] - x /\ g[j - 1] = f[j - 1] - x
    BY <2>1
  <2>3. f[j] = f[j - 1] + s[j] /\ f[j - 1] \in Int /\ s[j] \in Int
    BY <1>0, <2>1
  <2> HIDE DEF g
  <2>4. PICK a \in Int, b \in Int : a = f[j - 1] /\ b = s[j] /\ f[j] = a + b
    BY <2>3
  <2>5. g[j] = (a + b) - x /\ g[j - 1] = a - x /\ (a + b) - x = (a - x) + b
    BY <2>2, <2>4
  <2> QED
    BY <2>4, <2>5
<1>3. g[Len(s)] = f[Len(s)] - x
  BY <1>0
<1> HIDE DEF g
<1> QED
  BY <1>1, <1>2, <1>3 DEF SumsUp

\* Mean reversion.  An order is stale when the position is already the one it
\* leads to: its answer will then move the book and not the position.  Every order
\* awaited may become one, except the one that the position calls for.
Target(pos) == IF pos = "long" THEN 1 ELSE -1
Stale(s, pos) == \E i \in 1 .. Len(s) : s[i] = Target(pos)
AtStake(s, pos) ==
    IF Stale(s, pos) THEN Len(s) ELSE IF Len(s) = 0 THEN 0 ELSE Len(s) - 1

\* What has drifted, and what still may, has been paid for by slips.
Owed == Mean!Distance(booked - Mean!Believes) + AtStake(flying, position) <= slips
MeanInv == Mean!TypeOK /\ Owed

LEMMA MeanInit == Mean!Init => MeanInv
<1>1. <<>> \in Seq({1, -1}) /\ 0 \in Int /\ 0 \in Nat /\ Len(<<>>) = 0
  BY EmptySeq
<1>2. Mean!Init => Mean!TypeOK
  BY <1>1, Zenon DEF Mean!Init, Mean!TypeOK
<1>3. Mean!Init => Owed
  BY DEF Mean!Init, Owed, AtStake, Stale, Mean!Distance, Mean!Believes
<1> QED
  BY <1>2, <1>3 DEF MeanInv

\* The numbers the invariant speaks of are numbers.
LEMMA MeanTyped ==
  ASSUME MeanInv
  PROVE  /\ flying \in Seq({1, -1}) /\ Len(flying) \in Nat
         /\ \A i \in 1 .. Len(flying) : flying[i] \in {1, -1}
         /\ booked \in Int /\ slips \in Nat /\ position \in {"none", "long"}
         /\ Mean!Believes = IF position = "long" THEN 1 ELSE 0
         /\ Mean!Distance(booked - Mean!Believes) \in Nat
         /\ AtStake(flying, position) \in Nat
<1>1. /\ flying \in Seq({1, -1}) /\ booked \in Int /\ slips \in Nat
      /\ position \in {"none", "long"}
  BY DEF MeanInv, Mean!TypeOK
<1>2. Len(flying) \in Nat /\ \A i \in 1 .. Len(flying) : flying[i] \in {1, -1}
  BY <1>1, LenProperties, ElementOfSeq
<1>3. Mean!Distance(booked - Mean!Believes) \in Nat
  BY <1>1 DEF Mean!Distance, Mean!Believes
<1>4. AtStake(flying, position) \in Nat
  BY <1>2 DEF AtStake
<1> QED
  BY <1>1, <1>2, <1>3, <1>4 DEF Mean!Believes

\* An order that the position calls for is not stale when it is sent; if others
\* are awaited it pays for one of them.
LEMMA MeanSent ==
  ASSUME MeanInv, NEW order \in {1, -1}, Mean!Sent(order), order + Target(position) = 0
  PROVE  MeanInv'
<1> DEFINE n == Len(flying)
<1>0. /\ flying \in Seq({1, -1}) /\ n \in Nat /\ slips \in Nat
      /\ Mean!Distance(booked - Mean!Believes) \in Nat /\ AtStake(flying, position) \in Nat
  BY MeanTyped
<1>1. /\ flying' = Append(flying, order)
      /\ slips' = IF n = 0 THEN slips ELSE slips + 1
      /\ running' = running /\ position' = position /\ cooling' = cooling
      /\ booked' = booked
  BY <1>0, LenProperties, EmptySeq DEF Mean!Sent
<1>2. /\ flying' \in Seq({1, -1}) /\ Len(flying') = n + 1
      /\ flying'[n + 1] = order
      /\ \A i \in 1 .. n : flying'[i] = flying[i]
  BY <1>0, <1>1, AppendProperties
<1>3. Mean!TypeOK'
  BY <1>0, <1>1, <1>2 DEF MeanInv, Mean!TypeOK
<1>4. order # Target(position)
  BY DEF Target
<1>5. Stale(flying', position) <=> Stale(flying, position)
  <2>1. \A i \in 1 .. n + 1 : i = n + 1 \/ i \in 1 .. n
    BY <1>0
  <2>2. \A i \in 1 .. n : i \in 1 .. n + 1
    BY <1>0
  <2> QED
    BY <1>2, <1>4, <2>1, <2>2 DEF Stale
<1>6. AtStake(flying', position) <= AtStake(flying, position) + (IF n = 0 THEN 0 ELSE 1)
  <2>1. CASE Stale(flying, position)
    <3>1. n # 0
      BY <1>0, <2>1 DEF Stale
    <3> QED
      BY <1>0, <1>2, <1>5, <2>1, <3>1 DEF AtStake
  <2>2. CASE ~Stale(flying, position)
    BY <1>0, <1>2, <1>5, <2>2 DEF AtStake
  <2> QED
    BY <2>1, <2>2
<1>7. AtStake(flying', position') \in Nat
  BY <1>0, <1>1, <1>2 DEF AtStake
<1>8. Mean!Distance(booked' - Mean!Believes') = Mean!Distance(booked - Mean!Believes)
  BY <1>1 DEF Mean!Believes
<1>9. Owed'
  BY <1>0, <1>1, <1>6, <1>7, <1>8 DEF Owed, MeanInv
<1> QED
  BY <1>3, <1>9 DEF MeanInv

\* An answer takes its order out of the ones at stake: a stale one stood for a step
\* of the book, a rejection has paid for itself.
LEMMA MeanAnswered ==
  ASSUME MeanInv, NEW i \in DOMAIN flying, flying' = Mean!RemoveAt(flying, i),
         running' \in BOOLEAN, cooling' \in BOOLEAN,
         \/ UNCHANGED <<booked, position, slips>>
         \/ /\ position' = IF flying[i] = 1 THEN "long" ELSE "none"
            /\ \/ booked' = booked + flying[i] /\ slips' = slips
               \/ booked' = booked /\ slips' = slips + 1
  PROVE  MeanInv'
<1> DEFINE n == Len(flying)
           drift == Mean!Distance(booked - Mean!Believes)
<1>0. /\ flying \in Seq({1, -1}) /\ n \in Nat /\ i \in 1 .. n /\ flying[i] \in {1, -1}
      /\ booked \in Int /\ slips \in Nat /\ position \in {"none", "long"}
      /\ drift \in Nat /\ AtStake(flying, position) \in Nat
      /\ drift + AtStake(flying, position) <= slips
      /\ n >= 1
  BY MeanTyped, LenProperties DEF Owed, MeanInv
<1>1. flying' = Rest(flying, i)
  BY DEF Mean!RemoveAt, Rest
<1>2. flying' \in Seq({1, -1}) /\ Without(flying', i, flying) /\ Len(flying') = n - 1
  BY <1>0, <1>1, RestIsWithout DEF Without
<1>3. /\ position' \in {"none", "long"} /\ booked' \in Int /\ slips' \in Nat
  <2>1. booked + flying[i] \in Int /\ slips + 1 \in Nat
    BY <1>0
  <2> QED
    BY <1>0, <2>1, Zenon
<1>4. Mean!TypeOK'
  BY <1>2, <1>3 DEF Mean!TypeOK
<1>5. AtStake(flying', position') \in 0 .. n - 1
  BY <1>0, <1>2 DEF AtStake
<1>6. Stale(flying', position) => Stale(flying, position)
  <2> SUFFICES ASSUME NEW j \in 1 .. n - 1, flying'[j] = Target(position)
               PROVE  Stale(flying, position)
    BY <1>2 DEF Stale
  <2>1. j \in 1 .. n /\ j + 1 \in 1 .. n
    BY <1>0
  <2>2. flying'[j] = flying[j] \/ flying'[j] = flying[j + 1]
    BY <1>2 DEF Without
  <2> QED
    BY <2>1, <2>2 DEF Stale
<1>7. n - 1 <= AtStake(flying, position)
  BY <1>0 DEF AtStake
<1>8. flying[i] = Target(position) => AtStake(flying, position) = n
  BY <1>0 DEF AtStake, Stale
<1>9. Owed'
  <2>1. CASE UNCHANGED <<booked, position, slips>>
    <3>1. Mean!Distance(booked' - Mean!Believes') = drift
      BY <2>1 DEF Mean!Believes
    <3>2. AtStake(flying', position) <= AtStake(flying, position)
      BY <1>0, <1>2, <1>6 DEF AtStake
    <3>3. AtStake(flying', position') = AtStake(flying', position) /\ slips' = slips
      BY <2>1
    <3>4. drift + AtStake(flying', position') <= slips'
      <4> HIDE DEF drift
      <4> QED  BY <1>0, <1>5, <3>2, <3>3
    <3> QED
      BY <3>1, <3>4 DEF Owed
  <2>2. CASE /\ position' = IF flying[i] = 1 THEN "long" ELSE "none"
             /\ booked' = booked + flying[i] /\ slips' = slips
    <3>1. CASE flying[i] = Target(position)
      <4>1. Mean!Distance(booked' - Mean!Believes') <= drift + 1
        BY <1>0, <2>2, <3>1 DEF Target, Mean!Believes, Mean!Distance
      <4> QED
        BY <1>0, <1>3, <1>5, <1>8, <2>2, <3>1, <4>1 DEF Owed, Mean!Distance, Mean!Believes
    <3>2. CASE flying[i] # Target(position)
      <4>1. Mean!Distance(booked' - Mean!Believes') = drift
        BY <1>0, <2>2, <3>2 DEF Target, Mean!Believes, Mean!Distance
      <4>2. drift + AtStake(flying', position') <= slips'
        <5> HIDE DEF drift
        <5> QED  BY <1>0, <1>5, <1>7, <2>2
      <4> QED
        BY <4>1, <4>2 DEF Owed
    <3> QED
      BY <3>1, <3>2
  <2>3. CASE /\ position' = IF flying[i] = 1 THEN "long" ELSE "none"
             /\ booked' = booked /\ slips' = slips + 1
    <3>1. /\ Mean!Distance(booked' - Mean!Believes') <= drift + 1
          /\ Mean!Distance(booked' - Mean!Believes') \in Int
      BY <1>0, <2>3 DEF Mean!Believes, Mean!Distance
    <3>2. drift + 1 + AtStake(flying', position') <= slips'
      <4> HIDE DEF drift
      <4> QED  BY <1>0, <1>5, <1>7, <2>3
    <3>3. Mean!Distance(booked' - Mean!Believes') + AtStake(flying', position') <= slips'
      <4> HIDE DEF drift
      <4> QED  BY <1>0, <1>3, <1>5, <3>1, <3>2
    <3> QED
      BY <3>3 DEF Owed
  <2> QED
    BY <2>1, <2>2, <2>3
<1> QED
  BY <1>4, <1>9 DEF MeanInv

LEMMA MeanNext == MeanInv /\ [Mean!Next]_Mean!vars => MeanInv'
<1> SUFFICES ASSUME MeanInv, [Mean!Next]_Mean!vars PROVE MeanInv'
  OBVIOUS
<1>1. CASE Mean!Enter
  <2>1. Mean!Sent(1) /\ position = "none"
    BY <1>1 DEF Mean!Enter
  <2>2. Target(position) = -1
    BY <2>1 DEF Target
  <2>3. 1 \in {1, -1} /\ 1 + Target(position) = 0
    BY <2>2
  <2> QED
    BY <2>1, <2>3, MeanSent
<1>2. CASE Mean!Exit
  <2>1. Mean!Sent(-1) /\ position = "long"
    BY <1>2 DEF Mean!Exit
  <2>2. -1 \in {1, -1} /\ -1 + Target(position) = 0
    BY <2>1 DEF Target
  <2> QED
    BY <2>1, <2>2, MeanSent
<1>3. CASE Mean!Rested
  BY <1>3 DEF Mean!Rested, MeanInv, Mean!TypeOK, Owed, Mean!Believes
<1>4. CASE Mean!Stop
  BY <1>4 DEF Mean!Stop, MeanInv, Mean!TypeOK, Owed, Mean!Believes
<1>5. ASSUME NEW i \in DOMAIN flying, Mean!Throws(i) PROVE MeanInv'
  BY <1>5, MeanAnswered DEF Mean!Throws, Mean!Believed, MeanInv, Mean!TypeOK
<1>6. ASSUME NEW i \in DOMAIN flying, NEW taken \in BOOLEAN, Mean!Resolves(i, taken) PROVE MeanInv'
  BY <1>6, MeanAnswered DEF Mean!Resolves, Mean!Believed, MeanInv, Mean!TypeOK
<1>7. CASE UNCHANGED Mean!vars
  BY <1>7 DEF Mean!vars, MeanInv, Mean!TypeOK, Owed, Mean!Believes
<1> QED
  BY <1>1, <1>2, <1>3, <1>4, <1>5, <1>6, <1>7 DEF Mean!Next

\* DCA: what is booked once everything awaited is taken, and what was lost, is
\* what is counted.
Counted(due, slices, counts) == IF slices THEN due >= counts ELSE due = counts
DcaInv ==
    /\ Dca!TypeOK
    /\ position <= Dca!StepSize * step
    /\ \E f : SumsUp(f, booked, flying) /\ Counted(f[Len(flying)] + lost, sliced, position)

LEMMA DcaInit == Dca!Init => DcaInv
<1> SUFFICES ASSUME Dca!Init PROVE DcaInv
  OBVIOUS
<1>1. Dca!TypeOK /\ position <= Dca!StepSize * step
  <2>1. <<>> \in Seq(Int) /\ 1 \in 1 .. Window /\ 0 \in 0 .. MaxSteps /\ 0 \in 0 .. 4 * MaxSteps
        /\ 0 \in Int /\ 0 <= 4 * 0
    BY EmptySeq, StrategiesAssumption
  <2> QED
    BY <2>1, Zenon DEF Dca!Init, Dca!TypeOK, Dca!StepSize
<1>2. SumsUp([j \in {0} |-> 0], booked, flying)
  BY DEF Dca!Init, SumsUp
<1>3. Counted(0 + lost, sliced, position) /\ Len(flying) = 0
  BY DEF Dca!Init, Counted
<1> QED
  BY <1>1, <1>2, <1>3 DEF DcaInv

LEMMA SliceOf ==
  ASSUME NEW n \in Nat
  PROVE  Dca!Slice(n) \in Nat /\ Dca!Slice(n) <= n /\ (~sliced => Dca!Slice(n) = n)
BY DEF Dca!Slice

LEMMA DcaBuy == ASSUME DcaInv, NEW p, NEW m, Dca!Buy(p, m) PROVE DcaInv'
<1> DEFINE n == Dca!Slice(4)
<1>1. n \in Nat /\ n <= 4 /\ n \in Int
  BY SliceOf
<1> HIDE DEF n
<1>2. /\ flying' = Append(flying, n) /\ position' = position + n /\ step' = step + 1 /\ step < MaxSteps
      /\ running' = running /\ sliced' = sliced /\ reference' = reference /\ seen' = Dca!Pushed
      /\ booked' = booked /\ lost' = lost
  BY DEF Dca!Buy, Dca!Sent, Dca!BuySignal, Dca!Signalling, Dca!StepSize, n
<1>3. /\ flying \in Seq(Int) /\ booked \in Int /\ lost \in Int /\ position \in Int /\ position >= 0 /\ position <= 4 * step
      /\ step \in Nat /\ MaxSteps \in Nat /\ Window \in Nat /\ seen \in 1 .. Window
  BY StrategiesAssumption DEF DcaInv, Dca!TypeOK, Dca!StepSize
<1>4. PICK f : SumsUp(f, booked, flying) /\ Counted(f[Len(flying)] + lost, sliced, position)
  BY DEF DcaInv
<1>5. PICK g : SumsUp(g, booked, flying') /\ g[Len(flying) + 1] = f[Len(flying)] + n
  BY <1>1, <1>2, <1>3, <1>4, SumOfAppended
<1>6. flying' \in Seq(Int) /\ Len(flying') = Len(flying) + 1
  BY <1>1, <1>2, <1>3, AppendProperties
<1>7. Dca!TypeOK' /\ position' <= Dca!StepSize * step'
  <2>1. Dca!Pushed \in 1 .. Window
    BY <1>3 DEF Dca!Pushed
  <2>2. position' \in 0 .. 4 * MaxSteps /\ position' <= 4 * step' /\ step' \in 0 .. MaxSteps
    BY <1>1, <1>2, <1>3
  <2> QED
    BY <1>2, <1>6, <2>1, <2>2 DEF DcaInv, Dca!TypeOK, Dca!StepSize
<1>8. Counted(g[Len(flying')] + lost', sliced', position')
  <2>1. f[Len(flying)] \in Int
    BY <1>3, <1>4, LenProperties DEF SumsUp
  <2>2. Counted(f[Len(flying)] + n + lost', sliced', position')
    BY <1>1, <1>2, <1>3, <1>4, <2>1 DEF Counted
  <2> QED
    BY <1>5, <1>6, <2>2
<1> QED
  BY <1>2, <1>5, <1>7, <1>8 DEF DcaInv

LEMMA DcaSell == ASSUME DcaInv, NEW p \in Prices, Dca!Sell(p) PROVE DcaInv'
<1>1. /\ position' = 0 /\ step' = 0 /\ reference' = p /\ seen' = Dca!Pushed
      /\ running' = running /\ sliced' = sliced /\ booked' = booked /\ lost' = lost
  BY DEF Dca!Sell
<1>2. /\ flying \in Seq(Int) /\ booked \in Int /\ lost \in Int /\ position \in Int /\ position >= 0
      /\ MaxSteps \in Nat /\ Window \in Nat /\ seen \in 1 .. Window
  BY StrategiesAssumption DEF DcaInv, Dca!TypeOK, Dca!StepSize
<1>3. PICK f : SumsUp(f, booked, flying) /\ Counted(f[Len(flying)] + lost, sliced, position)
  BY DEF DcaInv
<1>4. f[Len(flying)] \in Int
  BY <1>2, <1>3, LenProperties DEF SumsUp
<1>5. flying' \in Seq(Int) /\ \E g : SumsUp(g, booked, flying') /\ Counted(g[Len(flying')] + lost', sliced', position')
  <2>1. CASE position = 0
    <3>1. flying' = flying
      BY <1>2, <2>1 DEF Dca!Sell
    <3>2. Counted(f[Len(flying)] + lost', sliced', position')
      BY <1>1, <1>3, <1>4, <2>1 DEF Counted
    <3> QED
      BY <1>2, <1>3, <3>1, <3>2
  <2>2. CASE position > 0
    <3> DEFINE n == Dca!Slice(position)
    <3>1. n \in Int /\ n <= position /\ (~sliced => n = position)
      BY <1>2, SliceOf
    <3>2. flying' = Append(flying, -n)
      <4>1. Dca!Sent(-position) /\ -position < 0 /\ -(-position) = position
        BY <1>2, <2>2 DEF Dca!Sell
      <4> QED
        BY <4>1 DEF Dca!Sent
    <3> HIDE DEF n
    <3>3. PICK g : SumsUp(g, booked, flying') /\ g[Len(flying) + 1] = f[Len(flying)] + (-n)
      BY <1>2, <1>3, <3>1, <3>2, SumOfAppended
    <3>4. flying' \in Seq(Int) /\ Len(flying') = Len(flying) + 1
      BY <1>2, <3>1, <3>2, AppendProperties
    <3>5. Counted(f[Len(flying)] + (-n) + lost', sliced', position')
      BY <1>1, <1>2, <1>3, <1>4, <3>1 DEF Counted
    <3> QED
      BY <3>3, <3>4, <3>5
  <2> QED
    BY <1>2, <2>1, <2>2
<1>6. Dca!TypeOK' /\ position' <= Dca!StepSize * step'
  <2>1. Dca!Pushed \in 1 .. Window
    BY <1>2 DEF Dca!Pushed
  <2> QED
    BY <1>1, <1>2, <1>5, <2>1 DEF DcaInv, Dca!TypeOK, Dca!StepSize
<1> QED
  BY <1>1, <1>5, <1>6 DEF DcaInv

LEMMA DcaAnswered ==
  ASSUME DcaInv, NEW i \in DOMAIN flying, NEW taken \in BOOLEAN, Dca!Answered(i, taken)
  PROVE  DcaInv'
<1>0. /\ flying \in Seq(Int) /\ i \in 1 .. Len(flying) /\ booked \in Int /\ lost \in Int /\ flying[i] \in Int
  BY LenProperties, ElementOfSeq DEF DcaInv, Dca!TypeOK
<1>1. flying' = Rest(flying, i)
  BY DEF Dca!Answered, Dca!RemoveAt, Rest
<1>2. flying' \in Seq(Int) /\ Without(flying', i, flying)
  BY <1>0, <1>1, RestIsWithout
<1>3. PICK f : SumsUp(f, booked, flying) /\ Counted(f[Len(flying)] + lost, sliced, position)
  BY DEF DcaInv
<1>4. PICK g : SumsUp(g, booked + flying[i], flying') /\ g[Len(flying')] = f[Len(flying)]
  BY <1>0, <1>2, <1>3, SumOfAnswered
<1>5. /\ Dca!TypeOK' /\ position' <= Dca!StepSize * step'
  BY <1>0, <1>2 DEF Dca!Answered, DcaInv, Dca!TypeOK
<1>f. f[Len(flying)] \in Int
  BY <1>0, <1>3, LenProperties DEF SumsUp
<1>s. sliced' = sliced /\ position' = position
  BY DEF Dca!Answered
<1>6. CASE taken
  <2>1. booked' = booked + flying[i] /\ lost' = lost
    BY <1>6 DEF Dca!Answered
  <2>2. Counted(g[Len(flying')] + lost', sliced', position')
    BY <1>3, <1>4, <1>s, <2>1
  <2> QED
    BY <1>4, <1>5, <2>1, <2>2 DEF DcaInv
<1>7. CASE ~taken
  <2>1. booked' = booked /\ lost' = lost + flying[i]
    BY <1>7 DEF Dca!Answered
  <2>a. PICK h : SumsUp(h, booked, flying') /\ h[Len(flying')] = g[Len(flying')] - flying[i]
    <3>1. /\ flying' \in Seq(Int) /\ booked \in Int /\ flying[i] \in Int
          /\ SumsUp(g, booked + flying[i], flying')
      BY <1>0, <1>2, <1>4
    <3> QED
      BY <3>1, SumOfRefused, Zenon
  <2>2. SumsUp(h, booked, flying') /\ h[Len(flying')] = f[Len(flying)] - flying[i]
    BY <1>4, <2>a
  <2>3. h[Len(flying')] + lost' = f[Len(flying)] + lost
    BY <1>0, <1>f, <2>1, <2>2
  <2>4. Counted(h[Len(flying')] + lost', sliced', position')
    BY <1>3, <1>s, <2>3
  <2> QED
    BY <1>5, <2>1, <2>2, <2>4 DEF DcaInv
<1> QED
  BY <1>6, <1>7

LEMMA DcaNext == DcaInv /\ [Dca!Next]_Dca!vars => DcaInv'
<1> SUFFICES ASSUME DcaInv, [Dca!Next]_Dca!vars PROVE DcaInv'
  OBVIOUS
<1>1. ASSUME NEW p \in Prices, NEW m \in Multipliers, Dca!Hold(p, m) PROVE DcaInv'
  <2>1. Dca!Pushed \in 1 .. Window
    BY StrategiesAssumption DEF Dca!Pushed, DcaInv, Dca!TypeOK
  <2> QED
    BY <1>1, <2>1 DEF Dca!Hold, DcaInv, Dca!TypeOK, Counted
<1>2. CASE Dca!Stop
  BY <1>2 DEF Dca!Stop, DcaInv, Dca!TypeOK, Counted
<1>3. CASE UNCHANGED Dca!vars
  BY <1>3 DEF Dca!vars, DcaInv, Dca!TypeOK, Counted
<1> QED
  BY <1>1, <1>2, <1>3, DcaBuy, DcaSell, DcaAnswered DEF Dca!Next

\* The sum of the recursive definition is the one the invariant speaks of.
LEMMA DcaBooked == DcaInv => Dca!PositionIsBooked
<1> SUFFICES ASSUME DcaInv PROVE Dca!PositionIsBooked
  OBVIOUS
<1>1. PICK f : SumsUp(f, booked, flying) /\ Counted(f[Len(flying)] + lost, sliced, position)
  BY DEF DcaInv
<1>2. flying \in Seq(Int) /\ booked \in Int
  BY DEF DcaInv, Dca!TypeOK
<1>3. Running(f, booked, flying)
  BY <1>1, <1>2, LenProperties DEF SumsUp, Running
<1>4. Running(Dca!Taken, booked, flying)
  BY <1>3 DEF Running, Dca!Taken
<1>5. Dca!Taken[Len(flying)] = f[Len(flying)]
  BY <1>1, <1>2, <1>4, SumsAgree
<1> QED
  BY <1>1, <1>5 DEF Dca!PositionIsBooked, Counted

----------------------------------------------------------------------------
(* The strategy that was built.                                            *)
IInv ==
    /\ Built("grid") => GridInv
    /\ Built("mean_reversion") => MeanInv
    /\ Built("volatility_dca") => DcaInv

LEMMA InitInv == Init => IInv
<1>1. CASE Built("grid") /\ Grid!Init
  BY <1>1, GridInit DEF IInv, Built
<1>2. CASE Built("mean_reversion") /\ Mean!Init
  BY <1>2, MeanInit DEF IInv, Built
<1>3. CASE Built("volatility_dca") /\ Dca!Init
  BY <1>3, DcaInit DEF IInv, Built
<1> QED
  BY <1>1, <1>2, <1>3 DEF Init

LEMMA NextInv == IInv /\ [Next]_vars => IInv'
<1> SUFFICES ASSUME IInv, [Next]_vars PROVE IInv'
  OBVIOUS
<1>1. strategy' = strategy
  BY DEF Next, vars
<1>2. Built("grid") => [Grid!Next]_Grid!vars
  BY DEF Next, vars, Built, grid, Grid!vars
<1>3. Built("mean_reversion") => [Mean!Next]_Mean!vars
  BY DEF Next, vars, Built, mean, orders, Mean!vars
<1>4. Built("volatility_dca") => [Dca!Next]_Dca!vars
  BY DEF Next, vars, Built, dca, orders, Dca!vars
<1> QED
  BY <1>1, <1>2, <1>3, <1>4, GridNext, MeanNext, DcaNext DEF IInv, Built

LEMMA Invariance == Spec => []IInv
BY InitInv, NextInv, PTL DEF Spec

\* Whichever strategy is built, its counters, levels and orders keep their
\* types: no more than maxSteps are counted, and no more than they come to.
THEOREM TypesCorrect == Spec => []TypeOK
<1>1. IInv => TypeOK
  BY DEF IInv, GridInv, MeanInv, DcaInv, TypeOK
<1> QED
  BY <1>1, Invariance, PTL

\* However tickers, answers, failures, closes and rebalances interleave, a level
\* of the grid has at most one order, awaited or taken, and a level that can be
\* filled has none: executeFillLevel marks it before it awaits.
THEOREM OneOrder == Spec => []OneOrderPerLevel
<1>1. IInv => OneOrderPerLevel
  BY DEF IInv, GridInv, OneOrderPerLevel
<1> QED
  BY <1>1, Invariance, PTL

\* Whatever the order and the kind of the answers, what DCA counts when it sends is
\* what is booked and under way, and beside that exactly what failed; what mean
\* reversion believes when an answer comes is what is booked, up to one for each
\* overlap and each rejection that looked like a fill.
THEOREM CountedIsBooked == Spec => []PositionIsBooked
<1>1. MeanInv => Mean!PositionIsBooked
  BY MeanTyped DEF MeanInv, Owed, Mean!PositionIsBooked
<1>2. IInv => PositionIsBooked
  BY <1>1, DcaBooked DEF IInv, PositionIsBooked
<1> QED
  BY <1>2, Invariance, PTL

----------------------------------------------------------------------------
(* The exits.                                                              *)

\* A ticker that leaves a seeded level seeded moves its exits with its profit.
LEMMA TickTightens ==
  ASSUME NEW i \in Grid!Slots, NEW p \in Prices, NEW l \in Grid!Levels, l.active
  PROVE  /\ ~Grid!Ahead(Grid!Dir(i), l.tp, Grid!Trailed(i, l, p).tp)
         /\ ~Grid!Ahead(Grid!Dir(i), l.sl, Grid!Trailed(i, l, p).sl)
<1> DEFINE d == Grid!Dir(i)
           stop == Grid!Nearer(d, Grid!Further(d, p - d * SlOff, l.filled - 2 * d * SlOff), l.filled)
<1>1. \A q \in Prices \cup {0} : q \in Int
  BY StrategiesAssumption
<1>2. l.filled \in Int /\ p \in Int /\ l.tp \in Int /\ l.sl \in Int
  <2>1. l.filled \in Prices \cup {0} /\ l.tp \in Int /\ l.sl \in Int
    BY DEF Grid!Levels
  <2> QED
    BY <1>1, <2>1
<1>3. d \in {1, -1} /\ TpOff \in Int /\ SlOff \in Int
  BY DirOf, StrategiesAssumption
<1>4. stop \in Int /\ p - d * TpOff \in Int
  BY <1>2, <1>3 DEF Grid!Nearer, Grid!Further
<1>5. ASSUME NEW x \in Int, NEW y \in Int
      PROVE  ~Grid!Ahead(d, y, y) /\ ~Grid!Ahead(d, y, Grid!Further(d, x, y))
  <2>1. CASE d = 1
    BY <2>1, <1>5 DEF Grid!Ahead, Grid!Further
  <2>2. CASE d = -1
    BY <2>2, <1>5 DEF Grid!Ahead, Grid!Further
  <2> QED
    BY <2>1, <2>2, <1>3
<1>6. CASE l.status # "filled"
  BY <1>2, <1>5, <1>6 DEF Grid!Trailed
<1>7. CASE l.status = "filled"
  <2>1. Grid!Trailed(i, l, p) =
          [l EXCEPT !.tp = Grid!Further(d, p - d * TpOff, @),
                    !.sl = IF Grid!Ahead(d, p, l.filled) THEN Grid!Further(d, stop, @) ELSE @]
    BY <1>7 DEF Grid!Trailed, Grid!Ratcheted
  <2>2. /\ Grid!Trailed(i, l, p).tp = Grid!Further(d, p - d * TpOff, l.tp)
        /\ Grid!Trailed(i, l, p).sl = IF Grid!Ahead(d, p, l.filled) THEN Grid!Further(d, stop, l.sl) ELSE l.sl
    <3> HIDE DEF stop, d
    <3> QED BY <2>1 DEF Grid!Levels
  <2> QED
    <3> HIDE DEF stop, d
    <3>1. ~Grid!Ahead(d, l.tp, Grid!Further(d, p - d * TpOff, l.tp))
      BY <1>2, <1>4, <1>5
    <3>2. ~Grid!Ahead(d, l.sl, Grid!Further(d, stop, l.sl)) /\ ~Grid!Ahead(d, l.sl, l.sl)
      BY <1>2, <1>4, <1>5
    <3>3. /\ ~Grid!Ahead(d, l.tp, Grid!Trailed(i, l, p).tp)
          /\ ~Grid!Ahead(d, l.sl, Grid!Trailed(i, l, p).sl)
      BY <2>2, <3>1, <3>2
    <3> QED
      BY <3>3 DEF d
<1> QED
  BY <1>6, <1>7

LEMMA SameDoesNotLoosen ==
  ASSUME NEW i \in Grid!Slots, NEW x \in Int PROVE ~Grid!Ahead(Grid!Dir(i), x, x)
BY DirOf DEF Grid!Ahead

\* No step of the grid takes an exit of a level away from the price it follows,
\* also when the order of the level failed and it is filled at another price.
LEMMA StepTightens == Grid!TypeOK /\ [Grid!Next]_Grid!vars => Grid!Tightens
<1> SUFFICES ASSUME Grid!TypeOK, [Grid!Next]_Grid!vars, NEW i \in Grid!Slots,
                    level[i].active, level'[i].active
             PROVE  /\ ~Grid!Ahead(Grid!Dir(i), level[i].tp, level'[i].tp)
                    /\ ~Grid!Ahead(Grid!Dir(i), level[i].sl, level'[i].sl)
  BY DEF Grid!Tightens
<1>0. level[i] \in Grid!Levels /\ level[i].tp \in Int /\ level[i].sl \in Int
  BY DEF Grid!TypeOK, Grid!Levels
<1>1. ASSUME level'[i].tp = level[i].tp, level'[i].sl = level[i].sl
      PROVE  /\ ~Grid!Ahead(Grid!Dir(i), level[i].tp, level'[i].tp)
             /\ ~Grid!Ahead(Grid!Dir(i), level[i].sl, level'[i].sl)
  BY <1>0, <1>1, SameDoesNotLoosen
<1>2. ASSUME NEW p \in Prices, Grid!Tick(p)
      PROVE  /\ ~Grid!Ahead(Grid!Dir(i), level[i].tp, level'[i].tp)
             /\ ~Grid!Ahead(Grid!Dir(i), level[i].sl, level'[i].sl)
  <2>1. level'[i] = Grid!Ticked(i, p)
    BY <1>2 DEF Grid!Tick
  <2>2. CASE Grid!Fills(i, p)
    <3>1. level'[i].tp = level[i].tp /\ level'[i].sl = level[i].sl
      BY <1>0, <2>1, <2>2 DEF Grid!Ticked, Grid!Filled, Grid!Levels
    <3> QED
      BY <1>1, <3>1
  <2>3. CASE ~Grid!Fills(i, p)
    <3> DEFINE l == Grid!Trailed(i, level[i], p)
    <3>1. l \in Grid!Levels
      BY <1>0, TrailedLevel
    <3>2. level'[i].tp = l.tp /\ level'[i].sl = l.sl
      <4>1. level'[i] = Grid!Closed(i, l, p)
        BY <2>1, <2>3 DEF Grid!Ticked
      <4> HIDE DEF l
      <4> QED
        BY <3>1, <4>1 DEF Grid!Closed, Grid!Levels
    <3> QED
      BY <1>0, <3>2, TickTightens
  <2> QED
    BY <2>2, <2>3
<1>3. ASSUME NEW p \in Prices, Grid!Rebalance(p) PROVE FALSE
  BY <1>3 DEF Grid!Rebalance, Grid!Pending
<1>4. ASSUME NEW j \in Grid!Slots, Grid!Failed(j) \/ Grid!OrderFilled(j)
      PROVE  level'[i].tp = level[i].tp /\ level'[i].sl = level[i].sl
  BY <1>0, <1>4 DEF Grid!Failed, Grid!OrderFilled, Grid!TypeOK, Grid!Levels
<1>5. ASSUME UNCHANGED level PROVE level'[i].tp = level[i].tp /\ level'[i].sl = level[i].sl
  BY <1>5
<1> QED
  BY <1>1, <1>2, <1>3, <1>4, <1>5 DEF Grid!Next, Grid!Answered, Grid!Stop, Grid!vars

\* Take-profit and stop-loss of a level never move away from the price, whatever
\* tickers, failed orders and fills come, as long as the level trails.
THEOREM ExitsTighten == Spec => StopsOnlyTighten
<1>1. IInv /\ [Next]_vars => [Built("grid") => Grid!Tightens]_vars
  <2> SUFFICES ASSUME IInv, Next, Built("grid") PROVE Grid!Tightens
    OBVIOUS
  <2>1. Grid!TypeOK /\ Grid!Next
    BY DEF IInv, GridInv, Next, Built
  <2> QED
    BY <2>1, StepTightens
<1> QED
  BY <1>1, Invariance, PTL DEF Spec, StopsOnlyTighten
=============================================================================
