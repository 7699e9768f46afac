------------------------- MODULE RoutedOrdersProofs -------------------------
(***************************************************************************)
(* What routed orders guarantee for every set of requests, every           *)
(* configuration of exchanges, every strategy and every breaker.           *)
(***************************************************************************)
EXTENDS RoutedOrders, FiniteSetTheorems, SequenceTheorems, TLAPS

-----------------------------------------------------------------------------
(* The breakers: the transition functions map contexts to contexts.        *)

\* The window of an open breaker is a positive number of ticks.
LEMMA WindowPositive == Window \in Nat \ {0}
  BY WindowAssumption DEF Window

\* The transitions that no failure causes map contexts to contexts.
LEMMA TransitionsTyped ==
  ASSUME NEW b \in Contexts
  PROVE  /\ ApplyTrip(b) \in Contexts
         /\ ApplySuccess(b) \in Contexts
         /\ ApplyUpdate(b) \in Contexts
         /\ Elapsed(b) \in Contexts
<1> USE WindowPositive, ThresholdAssumption
<1>1. ApplyTrip(b) \in Contexts
  BY Window \in 0 .. Window DEF ApplyTrip, Contexts, EmptyKindCounters, States
<1>2. ApplySuccess(b) \in Contexts
  BY DEF ApplySuccess, Contexts, EmptyKindCounters, States
<1>3. ApplyUpdate(b) \in Contexts
  BY DEF ApplyUpdate, UpdateDue, Contexts, EmptyKindCounters, States
<1>4. Elapsed(b) \in Contexts
  BY DEF Elapsed, Contexts
<1> QED  BY <1>1, <1>2, <1>3, <1>4

\* applyFailure maps contexts to contexts, whatever the kind of the failure.
LEMMA FailureTyped ==
  ASSUME NEW b \in Contexts, NEW k \in Kinds
  PROVE  Counted(b, k) \in Contexts /\ ApplyFailure(b, k) \in Contexts
<1> USE WindowPositive, ThresholdAssumption
<1>1. Counted(b, k) \in Contexts
  <2>1. AtMost(b.kindCounters[k] + 1, Threshold[k]) \in Nat
    BY b.kindCounters[k] + 1 \in Nat, Threshold[k] \in Nat DEF AtMost, Contexts
  <2> QED  BY <2>1 DEF Counted, Contexts
<1>2. CASE b.state = "half_open"
  BY <1>1, <1>2, TransitionsTyped DEF ApplyFailure
<1>3. CASE b.state = "degraded" /\ k = b.degradedKind
  BY <1>1, <1>3, TransitionsTyped DEF ApplyFailure
<1>4. CASE b.state = "degraded" /\ k # b.degradedKind
  <2>1. ApplyFailure(b, k) = [Counted(b, k) EXCEPT !.degradedKind = k]
    BY <1>4 DEF ApplyFailure
  <2> QED  BY <1>1, <2>1 DEF Contexts
<1>5. CASE b.state \in {"closed", "open"}
  <2>1. ApplyFailure(b, k) \in {Degraded(b, k), Counted(b, k)}
    BY <1>5 DEF ApplyFailure
  <2>2. Degraded(b, k) \in Contexts
    BY DEF Degraded, Contexts, EmptyKindCounters, States
  <2> QED  BY <1>1, <2>1, <2>2
<1> QED  BY <1>2, <1>3, <1>4, <1>5 DEF Contexts, States

\* A fresh breaker is well typed.
LEMMA ClosedTyped == ClosedContext \in Contexts
  BY DEF ClosedContext, Contexts, States, EmptyKindCounters

-----------------------------------------------------------------------------
(* The invariant.                                                          *)

Requesting == [phase : {"idle", "trying", "calling", "placed", "failed"},
               first : Exchanges \cup {None}, queue : Seq(Exchanges),
               captured : 0 .. FullScore, id : OrderIds \cup {None}]

\* The books are finite, and an order on its way has an exchange to try.
ChainsAndBooks ==
    /\ \A e \in Exchanges : IsFiniteSet(book[e])
    /\ \A r \in Requests :
          reqs[r].phase \in {"trying", "calling"} =>
              reqs[r].queue # <<>> /\ reqs[r].first \in Exchanges

IInv == TypeOK /\ ChainsAndBooks /\ PlacedOnce

\* A score stays between 0 and the full score.
LEMMA ScoresTyped ==
  ASSUME NEW s \in 0 .. FullScore
  PROVE  Raised(s) \in 0 .. FullScore /\ Lowered(s) \in 0 .. FullScore
  BY ScoreAssumption DEF Raised, Lowered

\* Every exchange has a place in the configuration.
LEMMA PositionTyped ==
  ASSUME NEW e \in Exchanges
  PROVE  Position(e) \in DOMAIN Config /\ Config[Position(e)] = e
  BY DEF Exchanges, Position

\* The fallback order is a non-empty sequence of exchanges.
LEMMA FallbackTyped ==
  ASSUME NEW e \in Exchanges
  PROVE  FallbackOrder(e) \in Seq(Exchanges) /\ FallbackOrder(e) # <<>>
<1>1. Config \in Seq(Exchanges) /\ Len(Config) \in Nat /\ Len(Config) # 0
  BY ConfigAssumption
<1>2. DOMAIN Config = 1 .. Len(Config)
  BY <1>1
<1>3. ASSUME NEW i \in DOMAIN Config PROVE FallbackOrder(e)[i] \in Exchanges
  <2>1. i # 1 => i - 1 \in DOMAIN Config
    BY <1>1, <1>2
  <2> QED  BY <1>1, <1>2, <1>3, <2>1 DEF FallbackOrder, Exchanges
<1>4. FallbackOrder(e) \in [1 .. Len(Config) -> Exchanges]
  BY <1>2, <1>3 DEF FallbackOrder
<1>5. FallbackOrder(e) \in Seq(Exchanges) /\ Len(FallbackOrder(e)) = Len(Config)
  BY <1>1, <1>4
<1> QED  BY <1>1, <1>5

\* The invariant holds at the start.
LEMMA InitIInv == Init => IInv
<1> SUFFICES ASSUME Init PROVE IInv
  OBVIOUS
<1>1. Len(Config) \in Nat \ {0}
  BY ConfigAssumption
<1>2. reqs \in [Requests -> Requesting]
  BY ScoreAssumption DEF Init, Idle, Requesting
<1>3. TypeOK
  <2>1. 0 \in 0 .. FullScore /\ FullScore \in 0 .. FullScore
    BY ScoreAssumption
  <2>2. breaker \in [Exchanges -> Contexts] /\ score \in [Exchanges -> 0 .. FullScore]
    BY <2>1, ClosedTyped DEF Init
  <2>3. book \in [Exchanges -> SUBSET Orders] /\ affinity = {} /\ halted \in BOOLEAN
    BY DEF Init
  <2>4. 0 \in 0 .. Len(Config) - 1
    BY <1>1
  <2>5. routing \in [strategy : Strategies, pinned : Exchanges,
                     index : 0 .. Len(Config) - 1]
    BY <2>4 DEF Init
  <2>6. reads \in [Readers -> [at : Exchanges \cup {None}, captured : 0 .. FullScore]]
    BY <2>1 DEF Init, NoRead
  <2>7. now \in 0 .. MaxNow /\ registered \subseteq Exchanges
    BY ClockAssumption DEF Init
  <2> QED  BY <1>2, <2>2, <2>3, <2>5, <2>6, <2>7 DEF TypeOK, Requesting
<1>4. ChainsAndBooks
  BY FS_EmptySet DEF Init, ChainsAndBooks, Idle
<1>5. PlacedOnce
  BY DEF Init, PlacedOnce, Idle
<1> QED  BY <1>3, <1>4, <1>5 DEF IInv

\* What stays when the books and the requests are left alone.
LEMMA Elsewhere ==
  ASSUME ChainsAndBooks, PlacedOnce, UNCHANGED <<book, reqs>>
  PROVE  ChainsAndBooks' /\ PlacedOnce'
  BY DEF ChainsAndBooks, PlacedOnce

\* What stays when only the phase of a request changes, to another than placed.
LEMMA Underway ==
  ASSUME ChainsAndBooks, PlacedOnce, UNCHANGED book, NEW r \in Requests,
         reqs \in [Requests -> Requesting],
         reqs[r].phase # "placed", reqs'[r].phase # "placed",
         reqs'[r].phase \in {"trying", "calling"} =>
             reqs'[r].queue # <<>> /\ reqs'[r].first \in Exchanges,
         \A q \in Requests : q # r => reqs'[q] = reqs[q]
  PROVE  ChainsAndBooks' /\ PlacedOnce'
  BY DEF ChainsAndBooks, PlacedOnce

\* A provider that resolved, rejected or refused keeps its types.
LEMMA ProvidersTyped ==
  ASSUME breaker \in [Exchanges -> Contexts], score \in [Exchanges -> 0 .. FullScore],
         NEW e \in Exchanges
  PROVE  /\ \A c \in 0 .. FullScore : ProviderSucceeds(e, c) =>
               breaker' \in [Exchanges -> Contexts] /\ score' \in [Exchanges -> 0 .. FullScore]
         /\ \A k \in Kinds : ProviderFails(e, k) =>
               breaker' \in [Exchanges -> Contexts] /\ score' \in [Exchanges -> 0 .. FullScore]
         /\ ProviderRefuses(e) =>
               breaker' \in [Exchanges -> Contexts] /\ score' \in [Exchanges -> 0 .. FullScore]
         /\ ProviderAdmits(e) => breaker' \in [Exchanges -> Contexts]
  BY TransitionsTyped, FailureTyped, ScoresTyped
  DEF ProviderSucceeds, ProviderFails, ProviderRefuses, ProviderAdmits

\* The next provider of the chain, or the failure after the last.
LEMMA NextProviderTyped ==
  ASSUME reqs \in [Requests -> Requesting], NEW r \in Requests,
         reqs[r].queue # <<>>, NextProvider(r)
  PROVE  /\ reqs' \in [Requests -> Requesting]
         /\ reqs'[r].phase \in {"trying", "failed"}
         /\ reqs'[r].phase = "trying" => reqs'[r].queue # <<>>
         /\ reqs'[r].first = reqs[r].first
         /\ \A q \in Requests : q # r => reqs'[q] = reqs[q]
<1>1. PICK s \in Seq(Exchanges) : s = reqs[r].queue
  BY DEF Requesting
<1>2. s # <<>>
  BY <1>1
<1>3. /\ Tail(s) \in Seq(Exchanges)
      /\ Len(s) # 1 => Tail(s) # <<>>
  <2>1. Tail(s) \in Seq(Exchanges) /\ Len(Tail(s)) = Len(s) - 1 /\ Len(s) \in Nat
    BY <1>2
  <2>2. Len(<<>>) = 0
    OBVIOUS
  <2>3. Tail(s) = <<>> => Len(Tail(s)) = 0
    BY <2>2, Zenon
  <2> QED  BY <2>1, <2>3
<1>4. PICK ph \in {"trying", "failed"} :
         /\ reqs' = [reqs EXCEPT ![r].queue = Tail(s), ![r].phase = ph]
         /\ ph = "trying" => Len(s) # 1
  BY <1>1 DEF NextProvider
<1>5. reqs[r] \in Requesting
  OBVIOUS
<1>6. reqs' = [reqs EXCEPT ![r] = [reqs[r] EXCEPT !.queue = Tail(s), !.phase = ph]]
  BY <1>4, <1>5 DEF Requesting
<1>7. [reqs[r] EXCEPT !.queue = Tail(s), !.phase = ph] \in Requesting
  BY <1>3, <1>5 DEF Requesting
<1>8. reqs'[r] = [reqs[r] EXCEPT !.queue = Tail(s), !.phase = ph]
  BY <1>6
<1>9. reqs'[r].queue = Tail(s) /\ reqs'[r].phase = ph /\ reqs'[r].first = reqs[r].first
  BY <1>5, <1>8 DEF Requesting
<1>10. \A q \in Requests : q # r => reqs'[q] = reqs[q]
  BY <1>6
<1> QED  BY <1>3, <1>4, <1>6, <1>7, <1>9, <1>10

\* Every step preserves the invariant.
LEMMA NextIInv == IInv /\ [Next]_vars => IInv'
<1> SUFFICES ASSUME IInv, [Next]_vars PROVE IInv'
  OBVIOUS
<1> USE DEF IInv
<1>t. /\ registered \subseteq Exchanges
      /\ breaker \in [Exchanges -> Contexts]
      /\ score \in [Exchanges -> 0 .. FullScore]
      /\ book \in [Exchanges -> SUBSET Orders]
      /\ routing \in [strategy : Strategies, pinned : Exchanges,
                      index : 0 .. Len(Config) - 1]
      /\ affinity \subseteq [id : OrderIds, at : Exchanges]
      /\ reqs \in [Requests -> Requesting]
      /\ reads \in [Readers -> [at : Exchanges \cup {None}, captured : 0 .. FullScore]]
      /\ halted \in BOOLEAN
      /\ now \in 0 .. MaxNow
  BY DEF TypeOK, Requesting
<1>n. Len(Config) \in Nat \ {0}
  BY ConfigAssumption
<1>u. [e \in Exchanges |-> IF e \in registered THEN ApplyUpdate(breaker[e]) ELSE breaker[e]]
        \in [Exchanges -> Contexts]
  BY <1>t, TransitionsTyped
<1>i. \A e \in Exchanges : NextOrderId(e) \in OrderIds
  BY <1>t, FS_CardinalityType DEF ChainsAndBooks, NextOrderId, OrderIds
<1>1. ASSUME NEW s \in Strategies, NEW e \in Exchanges, Configure(s, e)
      PROVE  IInv'
  <2>1. 0 \in 0 .. Len(Config) - 1
    BY <1>n
  <2>2. TypeOK'
    BY <1>1, <1>t, <2>1 DEF Configure, providers, TypeOK, Requesting
  <2>3. UNCHANGED <<book, reqs>>
    BY <1>1 DEF Configure, providers
  <2> QED  BY <2>2, <2>3, Elsewhere
<1>2. ASSUME NEW r \in Requests, Route(r) PROVE IInv'
  <2>1. PICK e \in Exchanges :
           reqs' = [reqs EXCEPT ![r].phase = "calling", ![r].first = e,
                                ![r].queue = FallbackOrder(e),
                                ![r].captured = score[e]]
    BY <1>2 DEF Route, Decide
  <2> DEFINE new == [reqs[r] EXCEPT !.phase = "calling", !.first = e,
                                    !.queue = FallbackOrder(e), !.captured = score[e]]
  <2>a. new \in Requesting /\ new.phase = "calling" /\ new.first = e /\ new.queue # <<>>
    BY <1>t, FallbackTyped DEF Requesting
  <2>b. reqs' = [reqs EXCEPT ![r] = new]
    BY <1>t, <2>1 DEF Requesting
  <2>2. /\ reqs' \in [Requests -> Requesting]
        /\ reqs'[r].phase = "calling" /\ reqs'[r].queue # <<>>
        /\ reqs'[r].first \in Exchanges
        /\ \A q \in Requests : q # r => reqs'[q] = reqs[q]
    <3> HIDE DEF new
    <3> QED  BY <1>t, <2>a, <2>b
  <2>3. routing' \in [strategy : Strategies, pinned : Exchanges,
                      index : 0 .. Len(Config) - 1]
    <3>1. (routing.index + 1) % Len(Config) \in 0 .. Len(Config) - 1
      BY <1>t, <1>n
    <3> QED  BY <1>2, <1>t, <3>1 DEF Route, Decide
  <2>4. TypeOK'
    BY <1>2, <1>t, <1>u, <2>2, <2>3 DEF Route, Decide, TypeOK, Requesting
  <2>5. reqs[r].phase # "placed" /\ UNCHANGED book
    BY <1>2 DEF Route, Decide
  <2> QED  BY <1>t, <2>2, <2>4, <2>5, Underway
<1>3. ASSUME NEW r \in Requests, NoRoute(r) PROVE IInv'
  <2>1. /\ reqs' \in [Requests -> Requesting]
        /\ reqs[r].phase # "placed" /\ UNCHANGED book
        /\ reqs'[r].phase = "failed"
        /\ \A q \in Requests : q # r => reqs'[q] = reqs[q]
    BY <1>3, <1>t DEF NoRoute, Requesting
  <2>2. TypeOK'
    BY <1>3, <1>t, <1>u, <2>1 DEF NoRoute, TypeOK, Requesting
  <2> QED  BY <1>t, <2>1, <2>2, Underway
<1>4. ASSUME NEW r \in Requests, Attempt(r) PROVE IInv'
  <2>1. reqs[r].phase = "trying" /\ reqs[r].queue # <<>> /\ reqs[r].first \in Exchanges
    BY <1>4 DEF Attempt, ChainsAndBooks
  <2>2. PICK e \in Exchanges : e = Head(reqs[r].queue)
    BY <1>t, <2>1 DEF Requesting
  <2>3. CASE /\ ProviderAdmits(e) /\ UNCHANGED score
             /\ reqs' = [reqs EXCEPT ![r].phase = "calling", ![r].captured = score[e]]
    <3> DEFINE new == [reqs[r] EXCEPT !.phase = "calling", !.captured = score[e]]
    <3>a. /\ new \in Requesting /\ new.phase = "calling"
          /\ new.queue = reqs[r].queue /\ new.first = reqs[r].first
      BY <1>t DEF Requesting
    <3>b. reqs' = [reqs EXCEPT ![r] = new]
      BY <1>t, <2>3 DEF Requesting
    <3>1. /\ reqs' \in [Requests -> Requesting]
          /\ reqs'[r].phase = "calling" /\ reqs'[r].queue = reqs[r].queue
          /\ reqs'[r].first = reqs[r].first
          /\ \A q \in Requests : q # r => reqs'[q] = reqs[q]
      <4> HIDE DEF new
      <4> QED  BY <1>t, <3>a, <3>b
    <3>2. TypeOK'
      BY <1>4, <1>t, <2>3, <3>1, ProvidersTyped DEF Attempt, TypeOK, Requesting
    <3>3. UNCHANGED book
      BY <1>4 DEF Attempt
    <3> QED  BY <1>t, <2>1, <3>1, <3>2, <3>3, Underway
  <2>4. CASE ProviderRefuses(e) /\ NextProvider(r)
    <3>1. TypeOK'
      BY <1>4, <1>t, <2>1, <2>4, ProvidersTyped, NextProviderTyped
      DEF Attempt, TypeOK, Requesting
    <3>2. UNCHANGED book
      BY <1>4 DEF Attempt
    <3> QED  BY <1>t, <2>1, <2>4, <3>1, <3>2, NextProviderTyped, Underway
  <2> QED  BY <1>4, <2>2, <2>3, <2>4 DEF Attempt
<1>5. ASSUME NEW r \in Requests, NEW k \in AdapterKinds, PlaceFail(r, k) PROVE IInv'
  <2>1. /\ reqs[r].phase = "calling" /\ reqs[r].queue # <<>>
        /\ reqs[r].first \in Exchanges /\ NextProvider(r)
    BY <1>5 DEF PlaceFail, ChainsAndBooks
  <2>2. PICK e \in Exchanges : e = Head(reqs[r].queue)
    BY <1>t, <2>1 DEF Requesting
  <2>3. ApplyFailure(breaker[e], k) \in Contexts
        /\ ApplyUpdate(ApplyFailure(breaker[e], k)) \in Contexts
    BY <1>t, AdapterAssumption, TransitionsTyped, FailureTyped
  <2>4. breaker' \in [Exchanges -> Contexts] /\ score' \in [Exchanges -> 0 .. FullScore]
    BY <1>5, <1>t, <2>2, <2>3, ScoresTyped DEF PlaceFail
  <2>5. TypeOK'
    BY <1>5, <1>t, <2>1, <2>4, NextProviderTyped DEF PlaceFail, TypeOK, Requesting
  <2>6. UNCHANGED book
    BY <1>5 DEF PlaceFail
  <2> QED  BY <1>t, <2>1, <2>5, <2>6, NextProviderTyped, Underway
<1>6. ASSUME NEW r \in Requests, NEW status \in {"open", "filled"}, PlaceOk(r, status)
      PROVE  IInv'
  <2>1. reqs[r].phase = "calling" /\ reqs[r].queue # <<>> /\ reqs[r].first \in Exchanges
    BY <1>6 DEF PlaceOk, ChainsAndBooks
  <2>2. PICK e \in Exchanges : e = Head(reqs[r].queue)
    BY <1>t, <2>1 DEF Requesting
  <2> DEFINE o == [id |-> NextOrderId(e), req |-> r, status |-> status]
  <2>3. /\ book' = [book EXCEPT ![e] = @ \cup {o}]
        /\ ProviderSucceeds(e, reqs[r].captured)
        /\ affinity' = {a \in affinity : a.id # NextOrderId(e)}
                         \cup {[id |-> NextOrderId(e), at |-> reqs[r].first]}
        /\ reqs' = [reqs EXCEPT ![r].phase = "placed", ![r].id = NextOrderId(e)]
        /\ UNCHANGED <<registered, routing, reads, halted, now>>
    BY <1>6, <2>2 DEF PlaceOk
  <2>4. o \in Orders
    BY <1>i DEF Orders
  <2> DEFINE new == [reqs[r] EXCEPT !.phase = "placed", !.id = NextOrderId(e)]
  <2>a. new \in Requesting /\ new.phase = "placed"
    BY <1>t, <1>i DEF Requesting
  <2>b. reqs' = [reqs EXCEPT ![r] = new]
    BY <1>t, <2>3 DEF Requesting
  <2>5. /\ reqs' \in [Requests -> Requesting]
        /\ reqs'[r].phase = "placed"
        /\ \A q \in Requests : q # r => reqs'[q] = reqs[q]
    <3> HIDE DEF new
    <3> QED  BY <1>t, <2>a, <2>b
  <2>6. reqs[r].captured \in 0 .. FullScore
    BY <1>t DEF Requesting
  <2>7. breaker' \in [Exchanges -> Contexts] /\ score' \in [Exchanges -> 0 .. FullScore]
    BY <1>t, <2>3, <2>6, ProvidersTyped
  <2>8. book' \in [Exchanges -> SUBSET Orders]
    <3> HIDE DEF o
    <3> QED  BY <1>t, <2>3, <2>4
  <2>9. affinity' \subseteq [id : OrderIds, at : Exchanges]
    BY <1>t, <1>i, <2>1, <2>3
  <2>10. TypeOK'
    BY <1>t, <2>3, <2>5, <2>7, <2>8, <2>9 DEF TypeOK, Requesting
  <2>11. o.req = r
    OBVIOUS
  <2> HIDE DEF o
  <2>12. \A f \in Exchanges : book'[f] = IF f = e THEN book[f] \cup {o} ELSE book[f]
    BY <1>t, <2>3
  <2>13. ChainsAndBooks'
    <3>1. IsFiniteSet(book[e] \cup {o})
      BY FS_AddElement DEF ChainsAndBooks
    <3> QED  BY <2>5, <2>12, <3>1 DEF ChainsAndBooks
  <2>14. \A f \in Exchanges : \A p \in book[f] : p.req # r
    BY <2>1 DEF PlacedOnce
  <2>15. PlacedOnce'
    <3>1. ASSUME NEW f \in Exchanges, NEW g \in Exchanges,
                 NEW p \in book'[f], NEW q \in book'[g], p.req = q.req
          PROVE  f = g /\ p = q
      <4>1. (f = e /\ p = o) \/ p \in book[f]
        BY <2>12, <3>1
      <4>2. (g = e /\ q = o) \/ q \in book[g]
        BY <2>12, <3>1
      <4>3. p = o <=> q = o
        BY <2>11, <2>14, <3>1, <4>1, <4>2
      <4>4. p # o /\ q # o => p \in book[f] /\ q \in book[g]
        BY <4>1, <4>2
      <4>5. CASE p = o
        BY <2>11, <2>14, <4>1, <4>2, <4>3, <4>5
      <4>6. CASE p # o
        BY <3>1, <4>3, <4>4, <4>6 DEF PlacedOnce
      <4> QED  BY <4>5, <4>6
    <3>2. ASSUME NEW q \in Requests
          PROVE  reqs'[q].phase = "placed"
                   <=> \E f \in Exchanges : \E p \in book'[f] : p.req = q
      <4>1. CASE q = r
        BY <2>5, <2>11, <2>12, <4>1
      <4>2. CASE q # r
        <5>1. reqs'[q].phase = "placed"
                <=> \E f \in Exchanges : \E p \in book[f] : p.req = q
          BY <2>5, <4>2 DEF PlacedOnce
        <5> QED  BY <2>11, <2>12, <4>2, <5>1
      <4> QED  BY <4>1, <4>2
    <3> QED  BY <3>1, <3>2 DEF PlacedOnce
  <2> QED  BY <2>10, <2>13, <2>15
<1>7. ASSUME NEW r \in Requests, Cancel(r) PROVE IInv'
  <2>1. PICK a \in affinity :
          /\ \/ /\ ~CircuitOpen(a.at)
                /\ book' = [book EXCEPT ![a.at] = Cancelled(a.at, a.id)]
                /\ breaker' = [breaker EXCEPT ![a.at] = ApplySuccess(ApplyUpdate(@))]
                /\ score' = [score EXCEPT ![a.at] = Raised(@)]
             \/ ProviderRefuses(a.at) /\ UNCHANGED book
    BY <1>7 DEF Cancel
  <2>2. a.at \in Exchanges
    BY <1>t
  <2>3. UNCHANGED <<registered, routing, affinity, reqs, reads, halted, now>>
    BY <1>7 DEF Cancel
  <2>4. CASE ProviderRefuses(a.at) /\ UNCHANGED book
    <3>1. TypeOK'
      BY <1>t, <2>2, <2>3, <2>4, ProvidersTyped DEF TypeOK, Requesting
    <3> QED  BY <2>3, <2>4, <3>1, Elsewhere
  <2>5. CASE /\ book' = [book EXCEPT ![a.at] = Cancelled(a.at, a.id)]
             /\ breaker' = [breaker EXCEPT ![a.at] = ApplySuccess(ApplyUpdate(@))]
             /\ score' = [score EXCEPT ![a.at] = Raised(@)]
    <3> DEFINE C(o) == IF o.id = a.id /\ o.status = "open"
                       THEN [o EXCEPT !.status = "cancelled"] ELSE o
    <3>1. \A o \in Orders : C(o) \in Orders /\ C(o).req = o.req
      BY DEF Orders
    <3>2. Cancelled(a.at, a.id) = {C(o) : o \in book[a.at]}
      BY DEF Cancelled
    <3>3. ApplySuccess(ApplyUpdate(breaker[a.at])) \in Contexts
      BY <1>t, <2>2, TransitionsTyped
    <3> HIDE DEF C
    <3>4. Cancelled(a.at, a.id) \subseteq Orders
      BY <1>t, <2>2, <3>1, <3>2
    <3>5. TypeOK'
      <4>1. /\ book' \in [Exchanges -> SUBSET Orders]
            /\ breaker' \in [Exchanges -> Contexts]
            /\ score' \in [Exchanges -> 0 .. FullScore]
        BY <1>t, <2>2, <2>5, <3>3, <3>4, ScoresTyped
      <4> QED  BY <1>t, <2>3, <4>1 DEF TypeOK, Requesting
    <3>6. IsFiniteSet(Cancelled(a.at, a.id))
      <4> DEFINE S == book[a.at]
                 g == [o \in S |-> C(o)]
      <4>1. g \in Surjection(S, Cancelled(a.at, a.id))
        BY <3>2 DEF Surjection
      <4>2. IsFiniteSet(S)
        BY <2>2 DEF ChainsAndBooks
      <4> QED  BY <4>1, <4>2, FS_Surjection
    <3>7. \A f \in Exchanges : book'[f] = IF f = a.at THEN {C(o) : o \in book[f]} ELSE book[f]
      BY <1>t, <2>5, <3>2
    <3>8. ChainsAndBooks'
      BY <2>3, <3>2, <3>6, <3>7 DEF ChainsAndBooks
    <3>9. PlacedOnce'
      <4>1. \A f \in Exchanges : \A x \in book'[f] :
               \E y \in book[f] : x.req = y.req /\ x = IF f = a.at THEN C(y) ELSE y
        <5>1. ASSUME NEW f \in Exchanges, NEW x \in book'[f]
              PROVE  \E y \in book[f] : x.req = y.req /\ x = IF f = a.at THEN C(y) ELSE y
          <6>1. CASE f = a.at
            <7>1. PICK y \in book[f] : x = C(y)
              <8>1. x \in {C(o) : o \in book[f]}
                BY <5>1, <3>7, <6>1
              <8> QED  BY <8>1
            <7>2. y \in Orders
              BY <1>t
            <7> QED  BY <3>1, <6>1, <7>1, <7>2
          <6>2. CASE f # a.at
            <7>1. x \in book[f]
              BY <5>1, <3>7, <6>2
            <7> QED  BY <6>2, <7>1
          <6> QED  BY <6>1, <6>2
        <5> QED  BY <5>1
      <4>2. \A f \in Exchanges : \A y \in book[f] : \E x \in book'[f] : x.req = y.req
        BY <1>t, <3>1, <3>7
      <4>3. ASSUME NEW f \in Exchanges, NEW g \in Exchanges,
                   NEW x \in book'[f], NEW z \in book'[g], x.req = z.req
            PROVE  f = g /\ x = z
        <5>1. PICK y \in book[f] : x.req = y.req /\ x = IF f = a.at THEN C(y) ELSE y
          BY <4>1
        <5>2. PICK w \in book[g] : z.req = w.req /\ z = IF g = a.at THEN C(w) ELSE w
          BY <4>1
        <5>3. y.req = w.req
          BY <4>3, <5>1, <5>2
        <5>4. f = g /\ y = w
          BY <5>3 DEF PlacedOnce
        <5> QED  BY <5>1, <5>2, <5>4
      <4>4. ASSUME NEW q \in Requests
            PROVE  reqs'[q].phase = "placed"
                     <=> \E f \in Exchanges : \E x \in book'[f] : x.req = q
        BY <2>3, <4>1, <4>2 DEF PlacedOnce
      <4> QED  BY <4>3, <4>4 DEF PlacedOnce
    <3> QED  BY <3>5, <3>8, <3>9
  <2> QED  BY <2>1, <2>4, <2>5
<1>8. ASSUME NEW r \in Requests, NEW k \in Kinds, Fetch(r, k) PROVE IInv'
  <2>1. PICK a \in affinity :
          \/ /\ breaker' = [breaker EXCEPT ![a.at] = ApplySuccess(ApplyUpdate(@))]
             /\ score' = [score EXCEPT ![a.at] = Raised(@)]
          \/ /\ breaker' = [breaker EXCEPT ![a.at] = ApplyFailure(ApplyUpdate(@), k)]
             /\ score' = [score EXCEPT ![a.at] = Lowered(@)]
          \/ ProviderRefuses(a.at)
    BY <1>8 DEF Fetch
  <2>2. a.at \in Exchanges
    BY <1>t
  <2>3. UNCHANGED <<registered, book, routing, affinity, reqs, reads, halted, now>>
    BY <1>8 DEF Fetch
  <2>4. /\ ApplySuccess(ApplyUpdate(breaker[a.at])) \in Contexts
        /\ ApplyFailure(ApplyUpdate(breaker[a.at]), k) \in Contexts
    BY <1>t, <2>2, TransitionsTyped, FailureTyped
  <2>5. breaker' \in [Exchanges -> Contexts] /\ score' \in [Exchanges -> 0 .. FullScore]
    <3>1. CASE ProviderRefuses(a.at)
      BY <1>t, <2>2, <3>1, ProvidersTyped
    <3>2. CASE ~ProviderRefuses(a.at)
      <4>1. score[a.at] \in 0 .. FullScore
        BY <1>t, <2>2
      <4>2. Raised(score[a.at]) \in 0 .. FullScore /\ Lowered(score[a.at]) \in 0 .. FullScore
        BY <4>1, ScoresTyped
      <4>3. CASE /\ breaker' = [breaker EXCEPT ![a.at] = ApplySuccess(ApplyUpdate(@))]
                 /\ score' = [score EXCEPT ![a.at] = Raised(@)]
        BY <1>t, <2>2, <2>4, <4>2, <4>3
      <4>4. CASE /\ breaker' = [breaker EXCEPT ![a.at] = ApplyFailure(ApplyUpdate(@), k)]
                 /\ score' = [score EXCEPT ![a.at] = Lowered(@)]
        BY <1>t, <2>2, <2>4, <4>2, <4>4
      <4> QED  BY <2>1, <3>2, <4>3, <4>4
    <3> QED  BY <3>1, <3>2
  <2>6. TypeOK'
    BY <1>t, <2>3, <2>5 DEF TypeOK, Requesting
  <2> QED  BY <2>3, <2>6, Elsewhere
<1>9. ASSUME NEW p \in Readers, NEW e \in Exchanges, ReadBegin(p, e) PROVE IInv'
  <2>1. UNCHANGED <<registered, book, routing, affinity, reqs, halted, now>>
    BY <1>9 DEF ReadBegin
  <2>2. /\ breaker' \in [Exchanges -> Contexts] /\ score' \in [Exchanges -> 0 .. FullScore]
        /\ reads' \in [Readers -> [at : Exchanges \cup {None}, captured : 0 .. FullScore]]
    <3>1. score[e] \in 0 .. FullScore
      BY <1>t
    <3>2. [at |-> e, captured |-> score[e]]
             \in [at : Exchanges \cup {None}, captured : 0 .. FullScore]
      BY <3>1
    <3>3. CASE ProviderRefuses(e) /\ UNCHANGED reads
      BY <1>t, <3>3, ProvidersTyped
    <3>4. CASE /\ ProviderAdmits(e) /\ UNCHANGED score
               /\ reads' = [reads EXCEPT ![p] = [at |-> e, captured |-> score[e]]]
      BY <1>t, <3>2, <3>4, ProvidersTyped
    <3> QED  BY <1>9, <3>3, <3>4 DEF ReadBegin
  <2>3. TypeOK'
    BY <1>t, <2>1, <2>2 DEF TypeOK, Requesting
  <2> QED  BY <2>1, <2>3, Elsewhere
<1>10. ASSUME NEW p \in Readers, ReadEnd(p) PROVE IInv'
  <2>1. /\ UNCHANGED <<registered, book, routing, affinity, reqs, halted, now>>
        /\ reads' = [reads EXCEPT ![p] = NoRead]
        /\ \/ ProviderSucceeds(reads[p].at, reads[p].captured)
           \/ \E k \in Kinds : ProviderFails(reads[p].at, k)
    BY <1>10, AdapterAssumption DEF ReadEnd
  <2>2. NoRead \in [at : Exchanges \cup {None}, captured : 0 .. FullScore]
    BY ScoreAssumption DEF NoRead
  <2>3. reads' \in [Readers -> [at : Exchanges \cup {None}, captured : 0 .. FullScore]]
    BY <1>t, <2>1, <2>2
  <2>4. reads[p].captured \in 0 .. FullScore /\ reads[p].at \in Exchanges \cup {None}
    BY <1>t
  <2>5. breaker' \in [Exchanges -> Contexts] /\ score' \in [Exchanges -> 0 .. FullScore]
    <3>1. CASE reads[p].at \in Exchanges
      BY <1>t, <2>1, <2>4, <3>1, ProvidersTyped
    <3>2. CASE reads[p].at \notin Exchanges
      <4>1. ASSUME NEW S, NEW f \in [Exchanges -> S], NEW e, e \notin Exchanges, NEW v
            PROVE  [f EXCEPT ![e] = v] = f
        BY <4>1
      <4> DEFINE e == reads[p].at
      <4>2. /\ \A v : [breaker EXCEPT ![e] = v] = breaker
            /\ \A v : [score EXCEPT ![e] = v] = score
        BY <1>t, <3>2, <4>1
      <4>3. breaker' = breaker /\ score' = score
        BY <2>1, <4>2, Zenon DEF ProviderSucceeds, ProviderFails
      <4> QED  BY <1>t, <4>3
    <3> QED  BY <3>1, <3>2
  <2>6. TypeOK'
    BY <1>t, <2>1, <2>3, <2>5 DEF TypeOK, Requesting
  <2> QED  BY <2>1, <2>6, Elsewhere
<1>11. CASE ToggleKillswitch
  <2>1. TypeOK'
    BY <1>11, <1>t DEF ToggleKillswitch, providers, TypeOK, Requesting
  <2>2. UNCHANGED <<book, reqs>>
    BY <1>11 DEF ToggleKillswitch, providers
  <2> QED  BY <2>1, <2>2, Elsewhere
<1>12. CASE Tick
  <2>1. [e \in Exchanges |-> Elapsed(breaker[e])] \in [Exchanges -> Contexts]
    BY <1>t, TransitionsTyped
  <2>2. now' \in 0 .. MaxNow
    BY <1>12, <1>t, ClockAssumption DEF Tick
  <2>3. TypeOK'
    BY <1>12, <1>t, <2>1, <2>2 DEF Tick, TypeOK, Requesting
  <2>4. UNCHANGED <<book, reqs>>
    BY <1>12 DEF Tick
  <2> QED  BY <2>3, <2>4, Elsewhere
<1>13. CASE UNCHANGED vars
  <2>1. TypeOK'
    BY <1>13, <1>t DEF vars, providers, TypeOK, Requesting
  <2>2. UNCHANGED <<book, reqs>>
    BY <1>13 DEF vars, providers
  <2> QED  BY <2>1, <2>2, Elsewhere
<1> QED
  BY <1>1, <1>2, <1>3, <1>4, <1>5, <1>6, <1>7, <1>8, <1>9, <1>10, <1>11, <1>12, <1>13
  DEF Next, Completes

\* Type correctness, for any requests, exchanges, strategies and breakers.
THEOREM TypeCorrect == Spec => []TypeOK
<1>1. IInv => TypeOK
  BY DEF IInv
<1> QED  BY <1>1, InitIInv, NextIInv, PTL DEF Spec

\* However orders fail over and overlap, a routed order is in the books once if
\* its caller was told it is placed, and nowhere otherwise.
THEOREM NoDoublePlacement == Spec => []PlacedOnce
<1>1. IInv => PlacedOnce
  BY DEF IInv
<1> QED  BY <1>1, InitIInv, NextIInv, PTL DEF Spec

----------------------------------------------------------------------------
(* Order ids.                                                              *)

\* The counter of a book has passed every id in it.
CountersAhead ==
    \A e \in Exchanges : \A o \in book[e] : o.id[1] <= Cardinality(book[e])

IdInv == IInv /\ OrderIdsDistinct /\ CountersAhead

\* Placing and cancelling keep the ids of a book distinct and its counter ahead.
LEMMA NextIdInv == IdInv /\ [Next]_vars => IdInv'
<1> SUFFICES ASSUME IdInv, [Next]_vars PROVE OrderIdsDistinct' /\ CountersAhead'
  BY NextIInv DEF IdInv
<1> USE DEF IdInv, IInv
<1>t. book \in [Exchanges -> SUBSET Orders] /\ affinity \subseteq [id : OrderIds, at : Exchanges]
  BY DEF TypeOK
<1>f. \A e \in Exchanges : IsFiniteSet(book[e]) /\ Cardinality(book[e]) \in Nat
  BY FS_CardinalityType DEF ChainsAndBooks
<1>1. ASSUME NEW r \in Requests, NEW status \in {"open", "filled"}, PlaceOk(r, status)
      PROVE  OrderIdsDistinct' /\ CountersAhead'
  <2>1. reqs[r].phase = "calling" /\ reqs[r].queue # <<>> /\ reqs[r].queue \in Seq(Exchanges)
    BY <1>1 DEF PlaceOk, ChainsAndBooks, TypeOK
  <2>2. PICK e \in Exchanges : e = Head(reqs[r].queue)
    BY <2>1
  <2> DEFINE o == [id |-> NextOrderId(e), req |-> r, status |-> status]
  <2>3. book' = [book EXCEPT ![e] = @ \cup {o}]
    BY <1>1, <2>2 DEF PlaceOk
  <2>4. o.id[1] = Cardinality(book[e]) + 1
    BY DEF NextOrderId
  <2> HIDE DEF o
  <2>5. \A p \in book[e] : p.id[1] <= Cardinality(book[e]) /\ p.id[1] \in Nat
    BY <1>t DEF CountersAhead, Orders, OrderIds
  <2>6. \A p \in book[e] : p.id # o.id
    BY <1>f, <2>4, <2>5
  <2>7. Cardinality(book[e] \cup {o}) = Cardinality(book[e]) + 1
    BY <1>f, <2>6, FS_AddElement
  <2>8. \A f \in Exchanges : book'[f] = IF f = e THEN book[f] \cup {o} ELSE book[f]
    BY <1>t, <2>3
  <2>9. OrderIdsDistinct'
    BY <2>6, <2>8 DEF OrderIdsDistinct
  <2>10. CountersAhead'
    <3>1. ASSUME NEW p \in book'[e] PROVE p.id[1] <= Cardinality(book'[e])
      <4>1. p = o \/ p \in book[e]
        BY <2>8, <3>1
      <4>2. Cardinality(book'[e]) = Cardinality(book[e]) + 1
        BY <2>7, <2>8
      <4>3. Cardinality(book[e]) \in Nat
        BY <1>f
      <4>4. CASE p = o
        BY <2>4, <4>2, <4>3, <4>4
      <4>5. CASE p \in book[e]
        <5>1. p.id[1] <= Cardinality(book[e]) /\ p.id[1] \in Nat
          BY <2>5, <4>5
        <5> QED  BY <4>2, <4>3, <5>1
      <4> QED  BY <4>1, <4>4, <4>5
    <3> QED  BY <2>8, <3>1 DEF CountersAhead
  <2> QED  BY <2>9, <2>10
<1>2. ASSUME NEW r \in Requests, Cancel(r)
      PROVE  OrderIdsDistinct' /\ CountersAhead'
  <2>1. CASE UNCHANGED book
    BY <2>1 DEF OrderIdsDistinct, CountersAhead
  <2>2. CASE \E a \in affinity : book' = [book EXCEPT ![a.at] = Cancelled(a.at, a.id)]
    <3>1. PICK a \in affinity : book' = [book EXCEPT ![a.at] = Cancelled(a.at, a.id)]
      BY <2>2
    <3>2. a.at \in Exchanges
      BY <1>t
    <3> DEFINE C(o) == IF o.id = a.id /\ o.status = "open"
                       THEN [o EXCEPT !.status = "cancelled"] ELSE o
               S == book[a.at]
               T == Cancelled(a.at, a.id)
               g == [o \in S |-> C(o)]
    <3>3. \A o \in Orders : C(o).id = o.id
      BY DEF Orders
    <3>4. T = {C(o) : o \in S}
      BY DEF Cancelled
    <3> HIDE DEF C
    <3>5. \A x \in T : \E o \in S : x = C(o) /\ x.id = o.id
      BY <1>t, <3>2, <3>3, <3>4
    <3>6. g \in Surjection(S, T)
      BY <3>4 DEF Surjection
    <3>7. g \in Injection(S, T)
      <4>1. ASSUME NEW x \in S, NEW y \in S, g[x] = g[y] PROVE x = y
        <5>1. x \in Orders /\ y \in Orders
          BY <1>t, <3>2
        <5>2. x.id = y.id
          BY <3>3, <4>1, <5>1
        <5> QED  BY <3>2, <5>2 DEF OrderIdsDistinct
      <4>2. g \in [S -> T]
        BY <3>4
      <4> QED  BY <4>1, <4>2 DEF Injection, IsInjective
    <3>8. Cardinality(T) = Cardinality(S)
      <4> HIDE DEF g, S, T
      <4>1. IsFiniteSet(S)
        BY <1>f, <3>2 DEF S
      <4> QED  BY <3>6, <3>7, <4>1, FS_Surjection
    <3> HIDE DEF T, S, g
    <3>9. \A f \in Exchanges : book'[f] = IF f = a.at THEN T ELSE book[f]
      BY <1>t, <3>1 DEF T
    <3>10. OrderIdsDistinct'
      <4>1. ASSUME NEW x \in T, NEW y \in T, x.id = y.id PROVE x = y
        <5>1. PICK o \in S : x = C(o) /\ x.id = o.id
          BY <3>5
        <5>2. PICK p \in S : y = C(p) /\ y.id = p.id
          BY <3>5
        <5>3. o = p
          BY <3>2, <4>1, <5>1, <5>2 DEF OrderIdsDistinct, S
        <5> QED  BY <5>1, <5>2, <5>3
      <4> QED  BY <3>9, <4>1 DEF OrderIdsDistinct
    <3>11. CountersAhead'
      <4>1. \A o \in S : o.id[1] <= Cardinality(S)
        BY <3>2 DEF CountersAhead, S
      <4>2. \A x \in T : x.id[1] <= Cardinality(T)
        BY <3>5, <3>8, <4>1
      <4> QED  BY <3>9, <4>2 DEF CountersAhead
    <3> QED  BY <3>10, <3>11
  <2> QED  BY <1>2, <2>1, <2>2 DEF Cancel
<1>3. CASE UNCHANGED book
  BY <1>3 DEF OrderIdsDistinct, CountersAhead
<1>4. \/ UNCHANGED book
      \/ \E r \in Requests : Cancel(r)
      \/ \E r \in Requests, status \in {"open", "filled"} : PlaceOk(r, status)
  BY DEF Next, vars, providers, Configure, Route, Decide, NoRoute, Attempt, Completes, PlaceFail,
         Fetch, ReadBegin, ReadEnd, ToggleKillswitch, Tick
<1> QED  BY <1>1, <1>2, <1>3, <1>4

\* No two orders of an exchange ever share an id, for any interleaving.
THEOREM DistinctOrderIds == Spec => []OrderIdsDistinct
<1>1. Init => IdInv
  BY InitIInv DEF Init, IdInv, OrderIdsDistinct, CountersAhead
<1>2. IdInv => OrderIdsDistinct
  BY DEF IdInv
<1> QED  BY <1>1, <1>2, NextIdInv, PTL DEF Spec

----------------------------------------------------------------------------
(* The chain of fallbacks.                                                 *)

Elements(s) == {s[i] : i \in DOMAIN s}

\* A chain has no repetition, and the exchange of the decision is only at its
\* head, where the whole configuration is still ahead.
ChainsAhead ==
    \A r \in Requests : reqs[r].phase \in {"trying", "calling"} =>
        /\ \A i, j \in DOMAIN reqs[r].queue :
              reqs[r].queue[i] = reqs[r].queue[j] => i = j
        /\ reqs[r].first \in Elements(reqs[r].queue) => Head(reqs[r].queue) = reqs[r].first
        /\ Head(reqs[r].queue) = reqs[r].first => Elements(reqs[r].queue) = Exchanges

ChainInv == IInv /\ ChainsAhead

\* The fallback order of e is a permutation of the configuration that starts with e.
LEMMA FallbackPermutes ==
  ASSUME NEW e \in Exchanges
  PROVE  /\ \A i, j \in DOMAIN FallbackOrder(e) :
               FallbackOrder(e)[i] = FallbackOrder(e)[j] => i = j
         /\ Head(FallbackOrder(e)) = e
         /\ Elements(FallbackOrder(e)) = Exchanges
<1>1. /\ Config \in Seq(Exchanges) /\ Len(Config) \in Nat \ {0}
      /\ DOMAIN Config = 1 .. Len(Config)
      /\ \A i, j \in DOMAIN Config : Config[i] = Config[j] => i = j
  BY ConfigAssumption
<1>2. Position(e) \in 1 .. Len(Config) /\ Config[Position(e)] = e
  BY <1>1, PositionTyped
<1>3. /\ DOMAIN FallbackOrder(e) = 1 .. Len(Config)
      /\ FallbackOrder(e)[1] = e
      /\ \A i \in 2 .. Len(Config) :
            FallbackOrder(e)[i] = IF i <= Position(e) THEN Config[i - 1] ELSE Config[i]
  BY <1>1 DEF FallbackOrder
<1> DEFINE F == FallbackOrder(e)
           p == Position(e)
           n == Len(Config)
<1> HIDE DEF F, p, n
<1>4. /\ n \in Nat \ {0} /\ p \in 1 .. n /\ Config[p] = e
      /\ DOMAIN F = 1 .. n /\ F[1] = e
      /\ \A i \in 2 .. n : F[i] = IF i <= p THEN Config[i - 1] ELSE Config[i]
      /\ \A i, j \in 1 .. n : Config[i] = Config[j] => i = j
  BY <1>1, <1>2, <1>3 DEF F, p, n
<1>5. \A i \in 2 .. n : F[i] # e
  <2>1. ASSUME NEW i \in 2 .. n PROVE F[i] # e
    <3>1. CASE i <= p
      <4>1. i - 1 \in 1 .. n /\ i - 1 # p
        BY <1>4, <3>1
      <4> QED  BY <1>4, <3>1, <4>1
    <3>2. CASE ~(i <= p)
      <4>1. i \in 1 .. n /\ i # p
        BY <1>4, <3>2
      <4> QED  BY <1>4, <3>2, <4>1
    <3> QED  BY <3>1, <3>2
  <2> QED  BY <2>1
<1>6. \A i, j \in 2 .. n : F[i] = F[j] => i = j
  <2>1. ASSUME NEW i \in 2 .. n, NEW j \in 2 .. n, F[i] = F[j] PROVE i = j
    <3> DEFINE x == IF i <= p THEN i - 1 ELSE i
               y == IF j <= p THEN j - 1 ELSE j
    <3>1. x \in 1 .. n /\ y \in 1 .. n /\ F[i] = Config[x] /\ F[j] = Config[y]
      BY <1>4
    <3> HIDE DEF x, y
    <3>2. x = y
      BY <1>4, <2>1, <3>1
    <3> QED  BY <1>4, <3>2 DEF x, y
  <2> QED  BY <2>1
<1>7. \A i, j \in 1 .. n : F[i] = F[j] => i = j
  <2>1. \A i \in 1 .. n : i = 1 \/ i \in 2 .. n
    BY <1>4
  <2> QED  BY <1>4, <1>5, <1>6, <2>1
<1>8. Exchanges = {Config[i] : i \in 1 .. n}
  BY <1>1 DEF Exchanges, n
<1>9. \A i \in 1 .. n : F[i] \in Exchanges
  <2>1. ASSUME NEW i \in 1 .. n PROVE \E k \in 1 .. n : F[i] = Config[k]
    <3>1. CASE i = 1
      BY <1>4, <3>1
    <3>2. CASE i # 1 /\ i <= p
      <4>1. i \in 2 .. n /\ i - 1 \in 1 .. n
        BY <1>4, <3>2
      <4> QED  BY <1>4, <3>2, <4>1
    <3>3. CASE i # 1 /\ ~(i <= p)
      <4>1. i \in 2 .. n
        BY <1>4, <3>3
      <4> QED  BY <1>4, <3>3, <4>1
    <3> QED  BY <3>1, <3>2, <3>3
  <2> QED  BY <1>8, <2>1
<1>10. \A i \in 1 .. n : \E j \in 1 .. n : Config[i] = F[j]
  <2>1. ASSUME NEW i \in 1 .. n PROVE \E j \in 1 .. n : Config[i] = F[j]
    <3>1. CASE i = p
      BY <1>4, <3>1
    <3>2. CASE i < p
      <4>1. i + 1 \in 2 .. n /\ i + 1 \in 1 .. n /\ i + 1 <= p /\ (i + 1) - 1 = i
        BY <1>4, <3>2
      <4> QED  BY <1>4, <4>1
    <3>3. CASE i > p
      <4>1. i \in 2 .. n /\ ~(i <= p)
        BY <1>4, <3>3
      <4> QED  BY <1>4, <4>1
    <3> QED  BY <1>4, <3>1, <3>2, <3>3
  <2> QED  BY <2>1
<1>11. Elements(F) = Exchanges
  <2>1. Elements(F) = {F[i] : i \in 1 .. n}
    BY <1>4 DEF Elements
  <2>2. ASSUME NEW x PROVE x \in Exchanges <=> \E i \in 1 .. n : x = F[i]
    BY <1>8, <1>9, <1>10
  <2> QED  BY <2>1, <2>2
<1>12. Head(F) = e
  <2>1. F \in Seq(Exchanges) /\ F # <<>>
    BY FallbackTyped DEF F
  <2> QED  BY <1>4, <2>1
<1> QED  BY <1>4, <1>7, <1>11, <1>12 DEF F

\* What is left of a chain without repetition after its head.
LEMMA TailOfChain ==
  ASSUME NEW S, NEW s \in Seq(S), s # <<>>, Tail(s) # <<>>,
         \A i, j \in DOMAIN s : s[i] = s[j] => i = j
  PROVE  /\ \A i, j \in DOMAIN Tail(s) : Tail(s)[i] = Tail(s)[j] => i = j
         /\ Head(s) \notin Elements(Tail(s))
         /\ Elements(Tail(s)) \subseteq Elements(s)
         /\ Head(Tail(s)) \in Elements(Tail(s))
<1>1. /\ Len(s) \in Nat \ {0} /\ DOMAIN s = 1 .. Len(s)
      /\ Len(Tail(s)) = Len(s) - 1 /\ DOMAIN Tail(s) = 1 .. Len(s) - 1
      /\ \A i \in 1 .. Len(s) - 1 : Tail(s)[i] = s[i + 1]
      /\ Head(s) = s[1] /\ Tail(s) \in Seq(S)
  OBVIOUS
<1>2. \A i \in 1 .. Len(s) - 1 : i + 1 \in DOMAIN s /\ i + 1 # 1
  BY <1>1
<1>3. Head(Tail(s)) = Tail(s)[1] /\ 1 \in DOMAIN Tail(s)
  BY <1>1
<1> QED  BY <1>1, <1>2, <1>3 DEF Elements

\* Decisions and failures keep the chains as they should be.
LEMMA NextChainInv == ChainInv /\ [Next]_vars => ChainInv'
<1> SUFFICES ASSUME ChainInv, [Next]_vars PROVE ChainsAhead'
  BY NextIInv DEF ChainInv
<1> USE DEF ChainInv, IInv
<1>t. reqs \in [Requests -> Requesting]
  BY DEF TypeOK, Requesting
<1>1. ASSUME NEW r \in Requests, Route(r) PROVE ChainsAhead'
  <2>1. PICK e \in Exchanges :
           reqs' = [reqs EXCEPT ![r].phase = "calling", ![r].first = e,
                                ![r].queue = FallbackOrder(e),
                                ![r].captured = score[e]]
    BY <1>1 DEF Route, Decide
  <2>2. /\ reqs'[r].first = e /\ reqs'[r].queue = FallbackOrder(e)
        /\ \A q \in Requests : q # r => reqs'[q] = reqs[q]
    BY <1>t, <2>1 DEF Requesting
  <2> QED  BY <2>2, FallbackPermutes DEF ChainsAhead
<1>2. ASSUME NEW r \in Requests, NextProvider(r), reqs[r].phase \in {"trying", "calling"}
      PROVE  ChainsAhead'
  <2>1. reqs[r].queue # <<>> /\ reqs[r].queue \in Seq(Exchanges)
    BY <1>2, <1>t DEF ChainsAndBooks, Requesting
  <2>2. /\ \A q \in Requests : q # r => reqs'[q] = reqs[q]
        /\ reqs'[r].first = reqs[r].first
        /\ reqs'[r].phase = "trying" => reqs'[r].queue # <<>>
        /\ reqs'[r].phase \in {"trying", "failed"}
    BY <1>2, <1>t, <2>1, NextProviderTyped
  <2>3. reqs'[r].queue = Tail(reqs[r].queue)
    BY <1>2, <1>t DEF NextProvider, Requesting
  <2> DEFINE s == reqs[r].queue
             f == reqs[r].first
  <2>4. /\ \A i, j \in DOMAIN s : s[i] = s[j] => i = j
        /\ f \in Elements(s) => Head(s) = f
        /\ Head(s) = f => Elements(s) = Exchanges
    BY <1>2 DEF ChainsAhead
  <2> HIDE DEF s, f
  <2>5. s \in Seq(Exchanges) /\ s # <<>>
    BY <2>1 DEF s
  <2>6. ASSUME Tail(s) # <<>>
        PROVE  /\ \A i, j \in DOMAIN Tail(s) : Tail(s)[i] = Tail(s)[j] => i = j
               /\ f \notin Elements(Tail(s)) /\ Head(Tail(s)) # f
    BY <2>4, <2>5, <2>6, TailOfChain
  <2>7. reqs'[r].phase = "trying" => Tail(s) # <<>>
    BY <2>2, <2>3 DEF s
  <2> QED  BY <2>2, <2>3, <2>6, <2>7 DEF ChainsAhead, s, f
<1>3. ASSUME NEW r \in Requests,
             \A q \in Requests : q # r => reqs'[q] = reqs[q],
             \/ reqs'[r].phase \notin {"trying", "calling"}
             \/ /\ reqs[r].phase \in {"trying", "calling"}
                /\ reqs'[r].first = reqs[r].first /\ reqs'[r].queue = reqs[r].queue
      PROVE  ChainsAhead'
  BY <1>3 DEF ChainsAhead
<1>4. ASSUME NEW r \in Requests, NoRoute(r) PROVE ChainsAhead'
  BY <1>3, <1>4, <1>t DEF NoRoute, Requesting
<1>5. ASSUME NEW r \in Requests, Attempt(r) PROVE ChainsAhead'
  <2>1. CASE NextProvider(r)
    BY <1>2, <1>5, <2>1 DEF Attempt
  <2>2. CASE reqs' = [reqs EXCEPT ![r].phase = "calling",
                                  ![r].captured = score[Head(reqs[r].queue)]]
    BY <1>3, <1>5, <1>t, <2>2 DEF Attempt, Requesting
  <2> QED  BY <1>5, <2>1, <2>2 DEF Attempt
<1>6. ASSUME NEW r \in Requests, NEW st \in {"open", "filled"}, PlaceOk(r, st)
      PROVE  ChainsAhead'
  <2>1. reqs'[r].phase = "placed" /\ \A q \in Requests : q # r => reqs'[q] = reqs[q]
    BY <1>6, <1>t DEF PlaceOk, Requesting
  <2> QED  BY <1>3, <2>1
<1>7. ASSUME NEW r \in Requests, NEW k \in AdapterKinds, PlaceFail(r, k) PROVE ChainsAhead'
  BY <1>2, <1>7 DEF PlaceFail
<1>8. CASE UNCHANGED reqs
  BY <1>8 DEF ChainsAhead
<1> QED
  BY <1>1, <1>4, <1>5, <1>6, <1>7, <1>8
  DEF Next, vars, providers, Completes, Configure, Cancel, Fetch, ReadBegin, ReadEnd,
      ToggleKillswitch, Tick

\* Whatever fails over, what is left of a chain is what has not been tried.
THEOREM ChainsCover == Spec => []ChainCoversConfig
<1>1. Init => ChainInv
  BY InitIInv DEF Init, ChainInv, ChainsAhead, Idle
<1>2. ChainInv => ChainCoversConfig
  BY DEF ChainInv, ChainsAhead, ChainCoversConfig, Elements
<1> QED  BY <1>1, <1>2, NextChainInv, PTL DEF Spec

----------------------------------------------------------------------------
(* The refinement of OrderPlacement.                                       *)

Placements == UNION {{<<o.req, e>> : o \in book[e]} : e \in Exchanges}

\* A step that neither ends a request nor adds to a book is a stutter.
LEMMA NothingSettled ==
  ASSUME \A r \in Requests : Outcome(r)' = Outcome(r), Placements' = Placements
  PROVE  UNCHANGED Placement!vars
  BY DEF Placement!vars, Placements

\* Every step of the routed orders is a step or a stutter of OrderPlacement.
LEMMA StepRefines == IInv /\ [Next]_vars => [Placement!Next]_Placement!vars
<1> SUFFICES ASSUME IInv, [Next]_vars PROVE [Placement!Next]_Placement!vars
  OBVIOUS
<1> USE DEF IInv
<1>t. /\ reqs \in [Requests -> Requesting] /\ book \in [Exchanges -> SUBSET Orders]
      /\ affinity \subseteq [id : OrderIds, at : Exchanges]
  BY DEF TypeOK, Requesting
<1>s. ASSUME NEW r \in Requests, \A q \in Requests : q # r => reqs'[q] = reqs[q],
             Outcome(r)' = Outcome(r), UNCHANGED book
      PROVE  UNCHANGED Placement!vars
  BY <1>s, NothingSettled DEF Outcome, Placements
<1>f. ASSUME NEW r \in Requests, \A q \in Requests : q # r => reqs'[q] = reqs[q],
             reqs[r].phase \notin {"placed", "failed"}, reqs'[r].phase = "failed",
             UNCHANGED book
      PROVE  Placement!Next
  <2>1. Placement!Fail(r)
    BY <1>f DEF Placement!Fail, Outcome
  <2> QED  BY <2>1 DEF Placement!Next
<1>n. ASSUME NEW r \in Requests, NextProvider(r), reqs[r].phase \in {"trying", "calling"},
             UNCHANGED book
      PROVE  [Placement!Next]_Placement!vars
  <2>1. reqs[r].queue # <<>>
    BY <1>n DEF ChainsAndBooks
  <2>2. /\ reqs'[r].phase \in {"trying", "failed"}
        /\ \A q \in Requests : q # r => reqs'[q] = reqs[q]
    BY <1>n, <1>t, <2>1, NextProviderTyped
  <2>3. CASE reqs'[r].phase = "trying"
    <3>1. Outcome(r)' = Outcome(r)
      BY <1>n, <2>3 DEF Outcome
    <3> QED  BY <1>n, <1>s, <2>2, <3>1
  <2>4. CASE reqs'[r].phase = "failed"
    BY <1>f, <1>n, <2>2, <2>4
  <2> QED  BY <2>2, <2>3, <2>4
<1>1. ASSUME NEW r \in Requests, Route(r) PROVE [Placement!Next]_Placement!vars
  <2>1. /\ \A q \in Requests : q # r => reqs'[q] = reqs[q]
        /\ reqs[r].phase = "idle" /\ reqs'[r].phase = "calling" /\ UNCHANGED book
    BY <1>1, <1>t DEF Route, Decide, Requesting
  <2> QED  BY <1>s, <2>1 DEF Outcome
<1>2. ASSUME NEW r \in Requests, NoRoute(r) PROVE [Placement!Next]_Placement!vars
  <2>1. /\ \A q \in Requests : q # r => reqs'[q] = reqs[q]
        /\ reqs[r].phase = "idle" /\ reqs'[r].phase = "failed" /\ UNCHANGED book
    BY <1>2, <1>t DEF NoRoute, Requesting
  <2> QED  BY <1>f, <2>1
<1>3. ASSUME NEW r \in Requests, Attempt(r) PROVE [Placement!Next]_Placement!vars
  <2>1. CASE NextProvider(r)
    BY <1>3, <1>n, <2>1 DEF Attempt
  <2>2. CASE reqs' = [reqs EXCEPT ![r].phase = "calling",
                                  ![r].captured = score[Head(reqs[r].queue)]]
    <3>1. /\ \A q \in Requests : q # r => reqs'[q] = reqs[q]
          /\ reqs[r].phase = "trying" /\ reqs'[r].phase = "calling" /\ UNCHANGED book
      BY <1>3, <1>t, <2>2 DEF Attempt, Requesting
    <3> QED  BY <1>s, <3>1 DEF Outcome
  <2> QED  BY <1>3, <2>1, <2>2 DEF Attempt
<1>4. ASSUME NEW r \in Requests, NEW k \in AdapterKinds, PlaceFail(r, k)
      PROVE  [Placement!Next]_Placement!vars
  BY <1>4, <1>n DEF PlaceFail
<1>5. ASSUME NEW r \in Requests, NEW st \in {"open", "filled"}, PlaceOk(r, st)
      PROVE  [Placement!Next]_Placement!vars
  <2>1. reqs[r].phase = "calling" /\ reqs[r].queue # <<>> /\ reqs[r].queue \in Seq(Exchanges)
    BY <1>5, <1>t DEF PlaceOk, ChainsAndBooks, Requesting
  <2>2. PICK e \in Exchanges : e = Head(reqs[r].queue)
    BY <2>1
  <2>3. PICK o : o.req = r /\ book' = [book EXCEPT ![e] = @ \cup {o}]
    <3> DEFINE o == [id |-> NextOrderId(e), req |-> r, status |-> st]
    <3>1. o.req = r /\ book' = [book EXCEPT ![e] = @ \cup {o}]
      BY <1>5, <2>2 DEF PlaceOk
    <3> QED  BY <3>1
  <2>4. reqs'[r].phase = "placed" /\ \A q \in Requests : q # r => reqs'[q] = reqs[q]
    BY <1>5, <1>t DEF PlaceOk, Requesting
  <2>5. \A f \in Exchanges : book'[f] = IF f = e THEN book[f] \cup {o} ELSE book[f]
    BY <1>t, <2>3
  <2>6. Placements' = Placements \cup {<<r, e>>}
    BY <2>3, <2>5 DEF Placements
  <2>7. Placement!Place(r, e)
    BY <2>1, <2>4, <2>6 DEF Placement!Place, Outcome, Placements
  <2> QED  BY <2>7 DEF Placement!Next
<1>6. ASSUME NEW r \in Requests, Cancel(r) PROVE [Placement!Next]_Placement!vars
  <2>1. PICK a \in affinity :
          book' = [book EXCEPT ![a.at] = Cancelled(a.at, a.id)] \/ UNCHANGED book
    BY <1>6 DEF Cancel
  <2>2. UNCHANGED reqs
    BY <1>6 DEF Cancel
  <2>3. CASE UNCHANGED book
    BY <2>2, <2>3, NothingSettled DEF Outcome, Placements
  <2>4. CASE book' = [book EXCEPT ![a.at] = Cancelled(a.at, a.id)]
    <3>1. a.at \in Exchanges
      BY <1>t
    <3> DEFINE C(o) == IF o.id = a.id /\ o.status = "open"
                       THEN [o EXCEPT !.status = "cancelled"] ELSE o
    <3>2. \A o \in Orders : C(o).req = o.req
      BY DEF Orders
    <3>3. \A f \in Exchanges :
             book'[f] = IF f = a.at THEN {C(o) : o \in book[f]} ELSE book[f]
      BY <1>t, <2>4, <3>1 DEF Cancelled
    <3> HIDE DEF C
    <3>4. \A f \in Exchanges : {<<o.req, f>> : o \in book'[f]} = {<<o.req, f>> : o \in book[f]}
      <4>1. ASSUME NEW f \in Exchanges, f = a.at
            PROVE  {<<o.req, f>> : o \in book'[f]} = {<<o.req, f>> : o \in book[f]}
        <5>1. book'[f] = {C(o) : o \in book[f]}
          BY <3>3, <4>1
        <5>2. \A o \in book[f] : C(o).req = o.req
          BY <1>t, <3>2
        <5>3. \A o \in book'[f] : \E y \in book[f] : o.req = y.req
          BY <5>1, <5>2
        <5>4. \A y \in book[f] : \E o \in book'[f] : o.req = y.req
          BY <5>1, <5>2
        <5> QED  BY <5>3, <5>4
      <4>2. ASSUME NEW f \in Exchanges, f # a.at
            PROVE  {<<o.req, f>> : o \in book'[f]} = {<<o.req, f>> : o \in book[f]}
        BY <3>3, <4>2
      <4> QED  BY <4>1, <4>2
    <3>5. Placements' = Placements
      BY <3>4 DEF Placements
    <3> QED  BY <2>2, <3>5, NothingSettled DEF Outcome
  <2> QED  BY <2>1, <2>3, <2>4
<1>7. CASE UNCHANGED <<book, reqs>>
  BY <1>7, NothingSettled DEF Outcome, Placements
<1> QED
  BY <1>1, <1>2, <1>3, <1>4, <1>5, <1>6, <1>7
  DEF Next, vars, providers, Completes, Configure, Fetch, ReadBegin, ReadEnd,
      ToggleKillswitch, Tick

\* For every configuration and any number of orders, routing with its health
\* records, breakers and failovers implements OrderPlacement.
THEOREM ImplementsPlacement == Spec => PlacementKept
<1>1. Init => Placement!Init
  BY DEF Init, Idle, Outcome, Placement!Init
<1> QED
  BY <1>1, InitIInv, NextIInv, StepRefines, PTL DEF Spec, PlacementKept, Placement!Spec
=============================================================================
