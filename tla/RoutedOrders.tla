---------------------------- MODULE RoutedOrders ----------------------------
(***************************************************************************)
(* Orders routed over several paper exchanges:                             *)
(* land/exchange-orchestration (RoutedExecution) over                      *)
(* tree/exchange/provider (router, chain, provider health, breaker) over   *)
(* tree/exchange/paper (the simulated book).                               *)
(*                                                                         *)
(* A routed order picks its exchange from a snapshot of the providers'     *)
(* health and walks a fallback order until a provider accepts it.  Every   *)
(* attempt is awaited (the paper exchange waits for its rate limiter), so  *)
(* several orders and other provider calls are in flight at once, each     *)
(* holding the health record its provider had when the call began.  The    *)
(* chain and the runner catch an adapter that rejects; AdapterKinds says   *)
(* with which errors one may.  PaperExchange, the only adapter today,      *)
(* places every order it is asked to: for it, AdapterKinds is empty.       *)
(*                                                                         *)
(* Each provider owns one breaker of module BreakerTransitions.  Scores    *)
(* are counted in units of five points.  latencyMs, failureCount and the   *)
(* backoff clock of a provider are reported and steer nothing here.        *)
(***************************************************************************)
EXTENDS BreakerTransitions, FiniteSets, Sequences

CONSTANTS
    Requests,   \* calls of routedPlaceOrder
    Readers,    \* other provider calls that may be in flight (tickers, balances)
    AdapterKinds, \* the errors with which an awaited adapter call may reject
    Config,     \* RoutingConfig.exchanges, a sequence without repetition
    Strategies, \* the RoutingConfig.strategy values configured
    FullScore,  \* the score of a fresh provider, 100 points
    Reward,     \* what a success adds, 5 points
    Penalty,    \* what a failure takes, 15 points
    MaxNow      \* bound on the clock

Exchanges == {Config[i] : i \in DOMAIN Config}

ASSUME ConfigAssumption ==
    /\ Config \in Seq(Exchanges) /\ Config # <<>>
    /\ \A i, j \in DOMAIN Config : Config[i] = Config[j] => i = j
    /\ None \notin Exchanges
ASSUME AdapterAssumption == AdapterKinds \subseteq Kinds
ASSUME StrategyAssumption ==
    Strategies \subseteq {"pinned", "round-robin", "best-health"}
ASSUME ScoreAssumption ==
    FullScore \in Nat /\ Reward \in Nat /\ Penalty \in Nat
ASSUME ClockAssumption == MaxNow \in Nat

VARIABLES
    registered, \* exchanges with a provider in the registry
    breaker,    \* the circuit breaker of each provider
    score,      \* ProviderHealth.score of each provider
    book,       \* PaperExchange.orders of each provider, a set of orders
    routing,    \* RoutedExecution.config and the router's round-robin index
    affinity,   \* RoutedExecution.orderAffinity, a set of [id, at]
    reqs,       \* where each routed order stands
    reads,      \* where each other provider call stands
    halted,     \* ~killswitch.isTradingEnabled()
    now         \* Date.now()

providers == <<registered, breaker, score, book>>
vars == <<providers, routing, affinity, reqs, reads, halted, now>>

OrderIds == Nat \X (0 .. MaxNow)
Orders == [id : OrderIds, req : Requests, status : {"open", "filled", "cancelled"}]

TypeOK ==
    /\ registered \subseteq Exchanges
    /\ breaker \in [Exchanges -> Contexts]
    /\ score \in [Exchanges -> 0 .. FullScore]
    /\ book \in [Exchanges -> SUBSET Orders]
    /\ routing \in [strategy : Strategies, pinned : Exchanges,
                    index : 0 .. Len(Config) - 1]
    /\ affinity \subseteq [id : OrderIds, at : Exchanges]
    /\ reqs \in [Requests -> [phase : {"idle", "trying", "calling", "placed",
                                       "failed"},
                              first : Exchanges \cup {None},
                              queue : Seq(Exchanges),
                              captured : 0 .. FullScore,
                              id : OrderIds \cup {None}]]
    /\ reads \in [Readers -> [at : Exchanges \cup {None},
                              captured : 0 .. FullScore]]
    /\ halted \in BOOLEAN
    /\ now \in 0 .. MaxNow

----------------------------------------------------------------------------
(* Provider health and routing decisions.                                  *)

\* MUTANT of Lowered: the score is not clamped at zero.
LoweredUnclamped(s) == s - Penalty

\* applyRecordSuccess and applyRecordFailure, on the score.
Raised(s) == IF s + Reward <= FullScore THEN s + Reward ELSE FullScore
Lowered(s) == IF s >= Penalty THEN s - Penalty ELSE 0

\* isCircuitOpen(), which first lets the breaker advance.
CircuitOpen(e) == ApplyUpdate(breaker[e]).state = "open"

\* buildRouteContext and the filter of route(): an exchange that has no
\* provider yet counts as closed, with score 0.
Available == {e \in Exchanges : e \in registered => ~CircuitOpen(e)}
SeenScore(e) == IF e \in registered THEN score[e] ELSE 0

Position(e) == CHOOSE i \in DOMAIN Config : Config[i] = e
Offset(e) ==    \* steps of the rotation from roundRobinIndex to e
    (Position(e) - 1 + Len(Config) - routing.index) % Len(Config)

Better(e, f) ==
    \/ SeenScore(e) > SeenScore(f)
    \/ SeenScore(e) = SeenScore(f) /\ Position(e) <= Position(f)

\* routePinned, routeRoundRobin and routeBestHealth: e is the exchange they pick.
Chosen(e) ==
    /\ e \in Available
    /\ CASE routing.strategy = "pinned" -> e = routing.pinned
         [] routing.strategy = "round-robin" ->
               \A f \in Available : Offset(e) <= Offset(f)
         [] routing.strategy = "best-health" ->
               \A f \in Available : Better(e, f)

\* MUTANT of FallbackOrder: the chain keeps only exchanges that look healthy.
FallbackToAvailable(e) ==
    <<e>> \o SelectSeq(Config, LAMBDA f : f # e /\ f \in Available)

\* [e, ...config.exchanges.filter(f => f !== e)]: e moves to the front.
FallbackOrder(e) ==
    [i \in DOMAIN Config |-> IF i = 1 THEN e
                             ELSE IF i <= Position(e) THEN Config[i - 1]
                             ELSE Config[i]]

\* MUTANT of NextOrderId: the counter is the number of open orders.
IdFromOpenOrders(e) ==
    <<Cardinality({o \in book[e] : o.status = "open"}) + 1, now>>

\* createPaperTrade: the id is the counter of the book and the current time.
NextOrderId(e) == <<Cardinality(book[e]) + 1, now>>

----------------------------------------------------------------------------
(* The steps.                                                              *)

Idle == [phase |-> "idle", first |-> None, queue |-> <<>>, captured |-> 0,
         id |-> None]
NoRead == [at |-> None, captured |-> 0]

Init ==
    /\ registered \in SUBSET Exchanges
    /\ breaker = [e \in Exchanges |-> ClosedContext]
    /\ score = [e \in Exchanges |-> FullScore]
    /\ book = [e \in Exchanges |-> {}]
    /\ routing \in [strategy : Strategies, pinned : Exchanges, index : {0}]
    /\ affinity = {}
    /\ reqs = [r \in Requests |-> Idle]
    /\ reads = [p \in Readers |-> NoRead]
    /\ halted = FALSE
    /\ now = 0

\* runRecorded after breaker.execute resolved: the breaker hears of the
\* success, and the score is raised from the record captured at the start.
ProviderSucceeds(e, captured) ==
    /\ breaker' = [breaker EXCEPT ![e] = ApplySuccess(@)]
    /\ score' = [score EXCEPT ![e] = Raised(captured)]

\* The adapter rejected with an error of kind k.
ProviderFails(e, k) ==
    /\ breaker' = [breaker EXCEPT ![e] = ApplyFailure(@, k)]
    /\ score' = [score EXCEPT ![e] = Lowered(@)]

\* The breaker refused the call: runRecorded counts that as a failure too.
ProviderRefuses(e) ==
    /\ CircuitOpen(e)
    /\ breaker' = [breaker EXCEPT ![e] = ApplyUpdate(@)]
    /\ score' = [score EXCEPT ![e] = Lowered(@)]

ProviderAdmits(e) ==
    /\ ~CircuitOpen(e)
    /\ breaker' = [breaker EXCEPT ![e] = ApplyUpdate(@)]

\* configureRouting: a new router, and the affinity map is cleared.
Configure(strategy, pinned) ==
    /\ routing' = [strategy |-> strategy, pinned |-> pinned, index |-> 0]
    /\ affinity' = {}
    /\ UNCHANGED <<providers, reqs, reads, halted, now>>

\* executeRoutedOrder as far as its first await: the kill switch, the decision,
\* the providers the configuration still misses, and placeOrder of the chosen
\* provider, which its breaker admits since the decision has just asked it.
Decide(r) ==
    /\ ~halted
    /\ \E e \in Exchanges :
         /\ Chosen(e)
         /\ reqs' = [reqs EXCEPT ![r].phase = "calling", ![r].first = e,
                                 ![r].queue = FallbackOrder(e),
                                 ![r].captured = score[e]]
    /\ routing' = IF routing.strategy = "round-robin"
                  THEN [routing EXCEPT !.index = (@ + 1) % Len(Config)]
                  ELSE routing
    /\ breaker' = [e \in Exchanges |-> IF e \in registered
                                       THEN ApplyUpdate(breaker[e])
                                       ELSE breaker[e]]
    /\ registered' = Exchanges
    /\ UNCHANGED <<score, book, affinity, reads, halted, now>>

\* MUTANT of Route: an order whose caller was told it failed is routed again.
RouteAgain(r) == reqs[r].phase \in {"idle", "failed"} /\ Decide(r)

Route(r) == reqs[r].phase = "idle" /\ Decide(r)

\* routeOrder found no exchange: the order fails, the breakers have been read.
NoRoute(r) ==
    /\ reqs[r].phase = "idle"
    /\ ~halted
    /\ \A e \in Exchanges : ~Chosen(e)
    /\ reqs' = [reqs EXCEPT ![r].phase = "failed"]
    /\ breaker' = [e \in Exchanges |-> IF e \in registered
                                       THEN ApplyUpdate(breaker[e])
                                       ELSE breaker[e]]
    /\ UNCHANGED <<registered, score, book, routing, affinity, reads, halted, now>>

\* MUTANT of NextProvider: a provider that fails is tried again.
RetrySameProvider(r) ==
    reqs' = [reqs EXCEPT ![r].phase = "trying"]

\* The chain goes to its next provider, or fails after the last.
NextProvider(r) ==
    reqs' = [reqs EXCEPT
        ![r].queue = Tail(@),
        ![r].phase = IF Len(reqs[r].queue) = 1 THEN "failed" ELSE "trying"]

\* The next turn of the chain after a rejection: placeOrder of its new head, as
\* far as the await.
Attempt(r) ==
    /\ reqs[r].phase = "trying"
    /\ LET e == Head(reqs[r].queue) IN
         \/ /\ ProviderAdmits(e)
            /\ reqs' = [reqs EXCEPT ![r].phase = "calling",
                                    ![r].captured = score[e]]
            /\ UNCHANGED score
         \/ /\ ProviderRefuses(e)
            /\ NextProvider(r)
    /\ UNCHANGED <<registered, book, routing, affinity, reads, halted, now>>

\* The rate limiter let the order through: the book takes it, the provider
\* records the success, the chain stops and the affinity of the order's id, in
\* one map for all the books, is set to the exchange of the routing decision.
PlaceOk(r, status) ==
    LET e == Head(reqs[r].queue) IN
    /\ reqs[r].phase = "calling"
    /\ book' = [book EXCEPT ![e] = @ \cup
                   {[id |-> NextOrderId(e), req |-> r, status |-> status]}]
    /\ ProviderSucceeds(e, reqs[r].captured)
    /\ affinity' = {a \in affinity : a.id # NextOrderId(e)}
                     \cup {[id |-> NextOrderId(e), at |-> reqs[r].first]}
    /\ reqs' = [reqs EXCEPT ![r].phase = "placed", ![r].id = NextOrderId(e)]
    /\ UNCHANGED <<registered, routing, reads, halted, now>>

\* MUTANT of PlaceFail: the adapter rejects after it has placed the order.
PlaceFailAfterPlacing(r, k) ==
    LET e == Head(reqs[r].queue) IN
    /\ reqs[r].phase = "calling"
    /\ book' = [book EXCEPT ![e] = @ \cup
                   {[id |-> NextOrderId(e), req |-> r, status |-> "open"]}]
    /\ ProviderFails(e, k)
    /\ NextProvider(r)
    /\ UNCHANGED <<registered, routing, affinity, reads, halted, now>>

\* The adapter rejected (k \in AdapterKinds) and placed nothing: the runner
\* records the failure and the chain's catch goes on; once the chain is
\* exhausted it reports the breaker state of its last provider.
PlaceFail(r, k) ==
    LET e == Head(reqs[r].queue) IN
    /\ reqs[r].phase = "calling"
    /\ score' = [score EXCEPT ![e] = Lowered(@)]
    /\ breaker' = [breaker EXCEPT ![e] =
                      IF Len(reqs[r].queue) = 1
                      THEN ApplyUpdate(ApplyFailure(@, k))   \* getState()
                      ELSE ApplyFailure(@, k)]
    /\ NextProvider(r)
    /\ UNCHANGED <<registered, book, routing, affinity, reads, halted, now>>

\* PaperExchange.cancelOrder of order id at e: only an open order changes.
Cancelled(e, id) ==
    {IF o.id = id /\ o.status = "open" THEN [o EXCEPT !.status = "cancelled"]
                                       ELSE o : o \in book[e]}

\* executeRoutedCancel for the order of r.
Cancel(r) ==
    /\ reqs[r].phase = "placed"
    /\ \E a \in affinity :
         /\ a.id = reqs[r].id
         /\ \/ /\ ~CircuitOpen(a.at)
               /\ book' = [book EXCEPT ![a.at] = Cancelled(a.at, a.id)]
               /\ breaker' = [breaker EXCEPT ![a.at] = ApplySuccess(ApplyUpdate(@))]
               /\ score' = [score EXCEPT ![a.at] = Raised(@)]
            \/ ProviderRefuses(a.at) /\ UNCHANGED book
    /\ UNCHANGED <<registered, routing, affinity, reqs, reads, halted, now>>

\* executeRoutedFetchOrder for the order of r: looking up an order the
\* exchange does not have counts as a failure of that provider.
Fetch(r, k) ==
    /\ reqs[r].phase = "placed"
    /\ \E a \in affinity :
         /\ a.id = reqs[r].id
         /\ \/ /\ ~CircuitOpen(a.at)
               /\ IF \E o \in book[a.at] : o.id = a.id
                  THEN /\ breaker' = [breaker EXCEPT ![a.at] =
                                         ApplySuccess(ApplyUpdate(@))]
                       /\ score' = [score EXCEPT ![a.at] = Raised(@)]
                  ELSE /\ breaker' = [breaker EXCEPT ![a.at] =
                                         ApplyFailure(ApplyUpdate(@), k)]
                       /\ score' = [score EXCEPT ![a.at] = Lowered(@)]
            \/ ProviderRefuses(a.at)
    /\ UNCHANGED <<registered, book, routing, affinity, reqs, reads, halted, now>>

\* Any other awaited call on a registered provider, as far as the await.
ReadBegin(p, e) ==
    /\ reads[p] = NoRead
    /\ e \in registered
    /\ \/ /\ ProviderAdmits(e)
          /\ reads' = [reads EXCEPT ![p] = [at |-> e, captured |-> score[e]]]
          /\ UNCHANGED score
       \/ ProviderRefuses(e) /\ UNCHANGED reads
    /\ UNCHANGED <<registered, book, routing, affinity, reqs, halted, now>>

\* ... and its outcome.
ReadEnd(p) ==
    /\ reads[p] # NoRead
    /\ \/ ProviderSucceeds(reads[p].at, reads[p].captured)
       \/ \E k \in AdapterKinds : ProviderFails(reads[p].at, k)
    /\ reads' = [reads EXCEPT ![p] = NoRead]
    /\ UNCHANGED <<registered, book, routing, affinity, reqs, halted, now>>

\* The kill switch halts or resumes trading.
ToggleKillswitch ==
    /\ halted' = ~halted
    /\ UNCHANGED <<providers, routing, affinity, reqs, reads, now>>

Tick ==
    /\ now < MaxNow
    /\ now' = now + 1
    /\ breaker' = [e \in Exchanges |-> Elapsed(breaker[e])]
    /\ UNCHANGED <<registered, score, book, routing, affinity, reqs, reads, halted>>

Completes(r) ==
    \/ \E status \in {"open", "filled"} : PlaceOk(r, status)
    \/ \E k \in AdapterKinds : PlaceFail(r, k)

Next ==
    \/ \E s \in Strategies, e \in Exchanges : Configure(s, e)
    \/ \E r \in Requests :
          \/ Route(r) \/ NoRoute(r) \/ Attempt(r) \/ Completes(r)
          \/ Cancel(r) \/ \E k \in Kinds : Fetch(r, k)
    \/ \E p \in Readers : ReadEnd(p) \/ \E e \in Exchanges : ReadBegin(p, e)
    \/ ToggleKillswitch
    \/ Tick

Spec == Init /\ [][Next]_vars

\* The runtime resumes what is awaited: acquire is called without a timeout and
\* resolves at once or by its timer, waitMs + 50 ms later, and the chain goes on
\* as soon as the adapter has settled.
FairSpec ==
    Spec /\ \A r \in Requests : WF_vars(Attempt(r)) /\ WF_vars(Completes(r))

----------------------------------------------------------------------------
(* Properties.                                                             *)

\* A routed order is in the books once if the caller was told it is placed,
\* and nowhere otherwise, whatever failed over on the way.
PlacedOnce ==
    /\ \A r \in Requests :
          reqs[r].phase = "placed" <=> \E e \in Exchanges : \E o \in book[e] : o.req = r
    /\ \A e, f \in Exchanges : \A o \in book[e], p \in book[f] :
          o.req = p.req => e = f /\ o = p

\* No two orders of an exchange share an id, whatever awaits interleave.
OrderIdsDistinct ==
    \A e \in Exchanges : \A o, p \in book[e] : o.id = p.id => o = p

\* The attempts that are left to a routed order are exchanges it has not tried:
\* the chain of fallbacks visits each exchange of the configuration once.
ChainCoversConfig ==
    \A r \in Requests : reqs[r].phase \in {"trying", "calling"} =>
        /\ \A i, j \in DOMAIN reqs[r].queue :
              reqs[r].queue[i] = reqs[r].queue[j] => i = j
        /\ Head(reqs[r].queue) = reqs[r].first =>
              {reqs[r].queue[i] : i \in DOMAIN reqs[r].queue} = Exchanges

\* What the books and the requests are to the caller.
Outcome(r) == IF reqs[r].phase \in {"placed", "failed"} THEN reqs[r].phase ELSE "pending"
Placement ==
    INSTANCE OrderPlacement WITH
        outcome <- [r \in Requests |-> Outcome(r)],
        placedAt <- UNION {{<<o.req, e>> : o \in book[e]} : e \in Exchanges}

\* Routing, health, breakers, failovers, cancellations and lookups implement
\* the promise of OrderPlacement.
PlacementKept == Placement!Spec

\* A routed order that was let in is placed or has failed in the end.
EveryOrderSettles ==
    \A r \in Requests :
        reqs[r].phase \in {"trying", "calling"} ~> reqs[r].phase \in {"placed", "failed"}

\* "Order affinity (orderId -> exchange) pins cancel/fetch to the exchange that
\* actually placed the order" (routed-execution.ts): the entry under the id of a
\* placed order names the exchange whose book has it.
AffinityPointsToPlacer ==
    \A r \in Requests : \A a \in affinity :
        reqs[r].phase = "placed" /\ a.id = reqs[r].id =>
            \E o \in book[a.at] : o.req = r
=============================================================================
