# CashClaw: verification project

TLA+ models of the CashClaw trading bot (Next.js and Hono on Cloudflare
Workers, D1 for persistence), checked with TLC on small instances and, where
noted, proved with TLAPS for every value of the constants. Paths below are
relative to the repository's own `src/` directory unless they start with
`plans/` or `docs/`.

## 1. The system

The code is layered: `tree/` holds the domain logic, `land/` the
orchestration of several exchanges, `forest/` what touches D1 and the timers,
`ee/` the paid features, `app/api` the HTTP routes, `worker*.ts` the Workers
entry points. One isolate runs one JavaScript thread: there are no data races,
but every `await` is a point where other calls, timers and socket events run,
and several isolates (or one isolate restarted) share only D1. That is where
the hard behaviours come from: **state read before an await and used after
it**, **late completions**, **restarts that keep D1 and lose memory**,
**retries of webhook deliveries**, **clocks**.

| Part | State it keeps | Operations | Talks to |
|---|---|---|---|
| Circuit breaker (`tree/exchange/provider/circuit-*.ts`) | state, per-kind counters, deadline | execute, recordSuccess, recordFailure, getState, reset | one per provider and operation |
| Provider health (`tree/exchange/provider/paper-provider*.ts`) | score, status, consecutive failures, backoff | runRecorded | breaker, health registry, router |
| Routed orders (`land/exchange-orchestration/*`) | round-robin index, order affinity map, routing chains | place, cancel, fetch | router, providers, kill switch |
| Paper exchange (`tree/exchange/paper/*`) | balances, orders, order counter | placeOrder, cancelOrder, fills | bots, providers |
| Bot instance (`tree/bot/bot-instance*.ts`, `bot-tick.ts`, `bot-order-executor*.ts`) | status, strategy, order counter, pnl, in-flight ticks and orders | start, pause, resume, stop, tick, submit | exchange adapter, kill switch, D1 |
| Kill switch (`tree/bot/killswitch*.ts`) | halted, cooldown, daily pnl, loss streak, peak capital | halt, enable, onOrderFilled, isTradingEnabled, daily reset | every bot through onHalt |
| Bot manager and scheduler (`tree/bot/bot-manager*.ts`, `forest/bot/*`) | cache of instances with a TTL, D1 rows | create, start, stop, hydrate, tickAll, autoRestart | bots, D1 |
| Request queue (`tree/exchange/queue/*`) | priority queue, running drain, cost budget | enqueue, dequeue, enqueueAndWait, drain | exchange adapters |
| Rate limiter (`tree/exchange/rate-limiter/*`) | buckets, waiters, backoff | acquire, updateFromHeaders, onRateLimited, watchdog | exchange adapters |
| Websocket layer (`tree/exchange/ws/*`) | sockets, subscriptions, reconnect timers | subscribe, unsubscribe, connect, close, reconnect | price feeds |
| Live orders (`tree/exchange/live/live-exchange-orders.ts`) | order counts, gates | create, cancel | exchange |
| Billing (`ee/billing/*`, `app/api/ee/billing/*`) | processed payments, entitlements, checkout orders | checkout, IPN delivery, upgrade | payment provider, D1 |
| Worker leases (`ee/scheduler/*`, `worker-cron.ts`) | lease map per isolate | acquire, release | cron trigger |
| LLM credits (`ee/deliberation-cloud/llm-credit-ledger.ts`) | balance, consumed, tier | consume, changeTier, top up | research agents |
| Audit ledger (`forest/flight-recorder/audit-ledger.ts`) | hash chain in D1 | append, verify | every component that audits |
| Research queue (`tree/alpha/queue/*`) | experiments and their lifecycle | enqueue, claim, complete, fail, archive | research scheduler |
| Promotion (`forest/alpha/gate/promotion-*.ts`) | phase of each strategy | promote, approve, retire | gate, operators |
| Alerts, sync, quotas, tenancy (`ee/*`) | dedup windows, counters | dispatch, sync, enforce | D1 |
| Alpha and quant library, backtests, regimes, dashboards, UI | none that steps share | pure statistics, rendering | - |

### What makes each part correct, and what is hard in it

* **Breaker**: it opens only when failures justify it, keeps the provider shut
  for its cooldown, and always comes back. Calls are awaited between the check
  and the recording of the outcome.
* **Routed orders**: an order is cancelled and looked up on the exchange that
  holds it; an order is placed at most once. Failover happens below the layer
  that records affinity.
* **Bot lifecycle**: a stopped or halted bot does not trade. `start`, ticks and
  orders all await the exchange after they checked the status.
* **Kill switch**: once a loss limit is hit nothing trades until the cooldown
  is over or an operator enables trading.
* **Manager, scheduler, D1**: at most one instance of a bot trades; after a
  restart running bots trade again.
* **Request queue**: every request is executed exactly once, in priority order.
* **Rate limiter**: no more requests than tokens, and no waiter waits for ever.
* **Billing**: every paid order is activated exactly once, whatever the number
  and order of the webhook deliveries, across crashes.
* **Leases**: one worker per tick.
* **Ledger**: the records form one chain.

## 2. The modules and the plan

| Module | Models | Uses | Runs | Proofs |
|---|---|---|---|---|
| `BreakerTransitions` | the pure transitions of a circuit breaker | - | through the two below | with the two below |
| `CircuitBreaker` | one breaker under overlapping calls | `BreakerTransitions` | `breaker_calls` | `CircuitBreakerProofs` |
| `RoutedOrders` | orders over several paper exchanges, each with health, breaker and book | `BreakerTransitions` | `routed_place`, `routed_settle`, `routed_affinity` | `RoutedOrdersProofs` |
| `Killswitch` | the pure transitions of the kill switch | - | through `BotEngine` | `BotEngineProofs` |
| `BotEngine` | the bots of one isolate, their ticks, starts and orders, and the kill switch they share | `Killswitch` | `engine_safety` | `BotEngineProofs` |
| `Billing` | checkout, payment deliveries, entitlements over D1 and several isolates | - | `billing_deliveries`, `billing_replay` | `BillingProofs` |
| `RequestQueue` | the priority queue of an exchange, its calls, drains and daily budget | - | `queue_drains`, `queue_own` | `RequestQueueProofs` |
| `OrderPlacement` | what a routed order promises: pending, then placed at one exchange or failed | - | as `PlacementKept` of `routed_place` | implemented by `RoutedOrders`: `RoutedOrdersProofs` |
| `PortfolioOverlays` | the overlays of the portfolio engine and the check of their result | - | through `Deliberation` | `DeliberationProofs` |
| `Deliberation` | a run of the research agents: debate, advisors, decision log | `PortfolioOverlays` | `deliberation_runs` | `DeliberationProofs` |
| `BotFleet` | the cache of instances, their rows in D1, requests, scheduler rounds, cold starts | - | `fleet_rounds` | `BotFleetProofs` |
| `GridStrategy`, `MeanReversion`, `VolatilityDca` | one strategy each | - | through `Strategies` | through `Strategies` |
| `Strategies` | the strategy a bot builds, with the answers to its orders | the three above | `strategies_answers` | `StrategiesProofs` |

`MC<Module>` gives the sets and functions that a `.cfg` cannot write, and
nothing else. Two modules of operators (`BreakerTransitions`, `Killswitch`)
are shared, so that what is checked of a breaker alone is the same breaker that
the routed orders walk through, and likewise for the kill switch.

**One step is the code between two awaits.** In a JavaScript isolate a
continuation runs to its next `await` without interruption; everything that a
handler does up to there is one action. A call that waits is a record that says
where it stands and what it captured before the await. Whatever was captured is
used as captured when the call resumes, which is how stale values come into the
models.

**History variables** (`streak`, `since`, `late`, `upgrades`, `overlap`, ...) are
written by the actions and read by properties only: no guard mentions them.
Where the code keeps a promise only outside a window, the window is such a
variable, and the property says what holds outside it. TLC refutes each of these
properties once its hedge is taken away, which is how the hedges were found.

**A comment "Mutant of X"** marks an operator no specification uses. It is X
with a plausible mistake, for repeating the experiment that the property named
in `PROJECT.json` notices it.

### How the modules were ordered, and what would come next

The order path came first (breaker, routed orders, bots and kill switch), then money
(billing), then what surrounds a bot: the queue of its requests, the deliberation
that advises it, its cache and rows, its strategies. What is left, by worth:

1. The rate limiter: waiters that resolve without a token, the acquire that timed
   out and takes one all the same, the watchdog that drops every bucket.
2. Further abstract specifications: the breaker as a gate that is shut and opens again, a
   payment that becomes a tier once.
3. The composition of a strategy with the bot that carries it, and the audit chain in D1.

### Vocabulary of the runs

A *passing* run explores the whole state space of its instance. A *violation* run
checks one statement that a document, a comment or a test of the repository
makes, and that the code does not keep; TLC's counterexample is the schedule.
Each is a finding in `PROJECT.json`, with the sentence it contradicts.

Some disagreements have no run because a passing run shows the same window with a hedge; the
sections below name them in prose.

## 3. Circuit breaker: `BreakerTransitions`, `CircuitBreaker`

**State.** `ctx` is `CircuitStateMutable`: the state, the counter of each failure
kind and the deadline `halfOpenAt`, kept as the time that is still to pass
(`None` for `null`). `calls` says of each `execute()` whether it was admitted and
awaits `fn()`. Everything else is history.

**Actions.** `Begin` is `execute` up to its await (first `applyUpdate`, then the
refusal when open); `Succeed` and `Fail` are `recordSuccess` and `recordFailure`
in whatever state the breaker has by then; `Poll` is the update that
`getState()` and a refused call make; `Reset` the operator's `reset()`; `Tick` a
tick of the clock.

**Runs.** `breaker_calls` has three overlapping calls, three kinds of failure with
thresholds 2, 3 and 3, a cooldown of 2 and a half-open delay of 1. Three calls let
one call trip the breaker while two that were admitted before are still out, and
two thresholds that differ let kinds mix. Fairness is the clock's and that of the
health checks which read the state; no caller has to call and no call has to
return.

The breaker opens only on failures that reached a threshold
(`OpensOnlyAfterThreshold`), a streak cannot slip through (`TripsOnStreak`), and
an open breaker becomes half-open (`RecoversEventually`), all **unless a call admitted before the trip reports after
it** (`late`). The success of such a call sets
`halfOpenAt` to `null` while the state stays `open`, and nothing but `reset()`
ever leaves that state; `plans/omniRoute-application-plan.md` (line 129) says "After cooldownMs elapses:
breaker enters half-open". It has no run: without `late`, TLC refutes `RecoversEventually` that way.

Two smaller disagreements have no run. The header of `circuit-breaker.ts` (line 2)
does not draw the edge from `degraded` back to `closed`, which
`circuit-breaker-transitions.ts` takes. And `half_open` admits every caller until
the first outcome, where `plans/omniRoute-application-plan.md` (line 106) speaks of
one trial call; in the model those calls are the `probe`s.

**Proved** (`CircuitBreakerProofs`), for any set of calls, kinds, thresholds and
delays: `TypeCorrect`; `NoUnearnedOpening`, with the strengthening that a kind's
counter never exceeds the failures of that kind since the last success;
`DeadlineUnlessLate`, where an open breaker without a deadline (`OpenHasDeadline`) implies `late`;
`OnlyLateReportsLeaveTheEdges`, an action property, by cases on the transitions
that its first lemmas characterise (`TransitionsTyped`, `FailureTyped`; `RoutedOrdersProofs` states them for its own breakers, since no module can extend both); and `StreaksTrip` (`TripsOnStreak`), whose
invariant `StreakIsCounted` says, without late reports: while closed, counters are below their thresholds and no streak is
longer than its counter; while degraded, the streak is of the kind that the next failure trips on.
`RecoversEventually` is model-checked.

## 4. Routed orders: `RoutedOrders`

**State.** For each exchange: whether its provider is registered, its `breaker`
(a context of `BreakerTransitions`), its health `score` in units of five points,
and its `book`, the orders of `PaperExchange`. `routing` is the configuration with
the round-robin index, `affinity` the map from order ids to exchanges, `reqs` where
each routed order stands (`trying`, `calling`, `placed`, `failed`) with the rest of
its fallback chain and the score it captured, `reads` the other provider calls in
flight, `halted` the kill switch, `now` the clock that order ids carry.

**Actions.**

| Action | Code |
|---|---|
| `Configure` | `configureRouting`: registers providers, resets index and affinity |
| `Route`, `NoRoute` | `executeRoutedOrder` up to its first await - kill switch, decision, providers, the chosen provider's breaker -, or its refusal |
| `Attempt` | the next turn of the chain after a rejection: breaker, up to the await |
| `PlaceOk` | the await of the paper exchange ends: book, breaker, score, affinity |
| `PlaceFail` | the adapter rejected: breaker, score, the catch of the chain |
| `Cancel`, `Fetch` | the routed cancel and lookup, by affinity |
| `ReadBegin`, `ReadEnd` | any other recorded provider call |
| `ToggleKillswitch`, `Tick` | environment |

**Which adapters reject.** The runner and the chain catch an adapter that rejects a placement. `PaperExchange`,
the only adapter today ("live adapter wrapped in v2", `paper-provider.ts`, line 2), never does: it acquires the
rate limiter without a timeout (`paper-exchange.ts`, line 23), and `acquire` rejects only with one. So
the errors an adapter may reject with are a constant, `AdapterKinds`, a subset of the breaker's kinds; it is empty for the
paper adapter. The properties that hold are checked and proved for any `AdapterKinds`, which is stronger than
today's code asks; the run that shows a violation has none.

**Refinement.** `OrderPlacement` is what a caller may rely on: an order is pending until it is, in one step, placed at one exchange or
failed, and that is final. `PlacementKept` maps the phases of `reqs` and the pairs of order and book to it.

**Runs.** All have two exchanges. `routed_place` has two orders, any strategy, and
reconfiguration and kill switch at any moment: with two exchanges the chain has a
fallback, and with two orders a round-robin index and an id counter are contended.
The threshold is 1 instead of 3 and the full score 3 steps instead of 20, so that
breakers trip and scores reach zero within a chain; the cooldown and the clock are
1, enough for a breaker to come back in the middle of an order and for two orders
to get ids of one and of two milliseconds. `routed_settle` has one order and one
other call: with the runtime resuming what is awaited (`acquire` resolves at once or by its own
timer, `waitMs` + 50 ms later) every routed order ends placed or failed.

`routed_affinity` has the paper adapter (`AdapterKinds` is empty) and the rotating strategy. An order's id is the counter
of its own `PaperExchange` and the clock; the affinity map is keyed by the id alone. Two orders sent to two
exchanges in one millisecond, at equal counters, share an id, and the second overwrites the first's entry: a
cancel of the first cancels the other. (The entry is moreover the exchange of the *decision*
(`routed-order-handler.ts`, line 29): wrong after a failover, which waits for an adapter that rejects.)
`OrderIdsDistinct` holds within an exchange.

Two more disagreements have no run: the chain of a *pinned* order has the fallbacks of any other, where
`docs/system-architecture.md` (line 68) calls the strategy "single exchange"; and the score written
after a call is computed from the record captured before it
(`paper-provider-runner.ts`, line 20), so a completion undoes the changes made in
the meantime. The model has both.

**Proved** (`RoutedOrdersProofs`), for any configuration, thresholds, scores and number
of orders: `TypeCorrect`, `NoDoublePlacement` (`PlacedOnce`), `DistinctOrderIds`
(`OrderIdsDistinct`), `ChainsCover` (`ChainCoversConfig`) and `ImplementsPlacement` (`PlacementKept`). The invariant `IInv` adds to the first two that
books are finite and that an order under way has a non-empty chain (`ChainsAndBooks`): `PlaceOk`
speaks of the head of that chain. `PlacedOnce` is an equivalence for this reason too: that an
order still being tried is in *no* book is what excludes a second placement. For the
last, `IdInv` adds that no id in a book is above the exchange's counter (`CountersAhead`). `ChainsCover` shows
`FallbackOrder` to be a permutation of the configuration (`FallbackPermutes`) and follows it through the tails that
failovers leave (`ChainsAhead`). `ImplementsPlacement` maps every step to a step of `OrderPlacement` or a stutter.

## 5. Bots and kill switch: `Killswitch`, `BotEngine`

**State.** `ks` is the kill switch: halted, the cooldown still to pass, the day's pnl,
the streak of losses, the peak capital. `bot` has, for each bot, its status, whether its
interval is set, whether it holds a strategy and a chain, its order counter, trades and
pnl. `call` has the starts, ticks and orders in flight, with what each captured.

**Actions.** A start is `StartBegin` - `StartOk`/`StartFail` - `StartAssign`: the price is
awaited in between, and the strategy is assigned one continuation after the status. A
tick is `TickBegin`, then `TickChain` if the chain sends an order, then
`TickStrategy` (or `ChainDone`, `ChainFail`), which sends orders in any free calls. An
order is `OrderFilled` - `OrderDone`, or `OrderFail`; its fill is what the kill switch
judges, and if it halts, `onHalt` stops all bots in that same step, before the order's
own totals are written. `Pause`, `Resume`, `Stop`, `ManualHalt`, `ManualResume` are the
operators, `TickHalted` the interval's tick during a halt, `Poll` the scheduler's question
whether trading is enabled, which is what ends a halt, `Midnight` and `Clock` time.
What a strategy decides is left open.

**Runs.** `engine_safety` has two bots, one of them with a chain, two calls in flight and
one trade per bot, with losses of one unit. With a
streak of two, a capital of 11 and limits of 20 % and 30 % the second loss halts for the
streak alone; after a midnight, which forgets the peak until a fill sets it to 10, the daily loss
is reached with it. Two bots are needed because one bot's loss stops the other. A
daily loss that halts alone needs larger losses, which the theorems cover.
The fairness is the clock's and the scheduler's; no exchange has to answer and no
operator has to act. It shows that a running bot always has an interval and a resting one
has none, that a streak halts unless the halt was lifted within it, that the step that halts
stops every bot, and that every halt ends. A start that awaits its price
across a halt puts its bot to `running` in a halted system; it has an interval then, and its next tick pauses it
(`TickHalted`). `plans/20260714-cashclaw-trading-bot-platform/phase-03-bot-engine.md` (line 33) says that an emergency stop
pauses all bots.

Two behaviours that the model has and no property forbids. The order counter captured before
the await is written back after it, so two orders of one bot can carry one number;
`bot-order-executor.test.ts` (line 125) expects the next number, of one order at a time, and
nothing else reads it. And the daily reset sets the peak capital to zero, so that the
percentage limits are off for the first fill of a day, which raises it again;
`killswitch.test.ts` (line 96) expects the limit of a bot whose peak was just set.

**Proved** (`BotEngineProofs`), for any bots, calls, limits, capital and any profits
and losses: `TypeCorrect`, `StatusMeansTicking` (`StatusTellsTicking`), `LossStreakHalts`
(`StreakHalts`) and `EveryHaltStopsAll` (`HaltStopsAll`). The invariant is a conjunction of
what holds of the kill switch's record (`KsInv`: every halt has a deadline, and the streak
is below its limit unless a halt was lifted within it), of each bot (`BotInv`) and of each call
(`CallInv`). Each operator of `Killswitch` has a lemma that it keeps `KsInv`, each
control of a bot one that it keeps `BotInv`; the step lemmas put them together. The
liveness of halts is model-checked.

## 6. Payments and tiers: `Billing`

**State.** In D1: `order` (the checkout orders), `event` (the last status recorded of a
payment), `tier` (the entitlement of a workspace). In each isolate: the orders it
remembers, the payments it has marked as processed, the tiers it has seen; an
eviction loses all of it. `call` has the deliveries in flight, `confirmed`, `short` and `pegged`
what the payment provider knows (paid; too little; in a currency pegged to USD), `answered` and `replayed` what it was told.

**Actions.** A checkout is `CheckoutBegin`, `CheckoutEnd`. A delivery passes

    order -> check -> (owner ->) event -> upgrade -> member -> paid

with one await of D1 at each place: `OrderRead`, `ProcessedRead`, `OwnerRead`,
`EventWritten`, `UpgradeWritten`, `MemberWritten`, `PaidWritten`. `OrderReadFails`,
`PaidFails` and `Fails` are the failures of D1 that the code survives, swallows, or answers
with a 500. `ReadTier` is a reader of the entitlement, which refreshes the isolate's
memory. The provider is external: `Confirm` a payment of the price or of less, in a USD-pegged currency or another, `Deliver`
any status of a payment, in any order, to any isolate, as often as it likes.

**Runs.** `billing_deliveries` has one payment, order and workspace, two isolates, two
deliveries in flight and two mishaps (evictions, failures of D1) - enough for a delivery to
be lost on one isolate, retried on another and lost again, and for two to overlap. More
payments would share only the workspace's row. Requests go on (weak fairness), and the
provider repeats a confirmed payment until it is answered with 2xx; strong
fairness there, since in the model a delivery also has to find a free call.

* `TierIsPaidFor`: no tier, in D1 or in any isolate's memory, without a confirmed payment that is not `Underpaid`.
  The routes compare the amount only if `pay_currency` is `usd`, `usdt` or `usdc` (`ipn/route.ts`, lines 43-44;
  `nowpayments-ipn/route.ts`, lines 69-70), so this is all that holds: in another currency a confirmed payment of *any*
  amount buys the tier. The checkout modal offers `btc`, and `plans/reports/code-review-261106-1416-revenue-seam-closure.md`
  (line 50) notes the gap.
* `UpgradesOnce`: a payment upgrades once, unless two of its deliveries overlapped.
* `PaidIsUpgraded`: a confirmed payment is upgraded, unless two deliveries overlapped or
  a mishap hit one between its mark and its upgrade (`broken`): the insert of the event failed
  after the payment was marked in memory, or the isolate was lost, or D1 failed, between the
  event and the entitlement. From there on every delivery is answered as a replay.
* `PaidMeansUpgraded`: an order is never shown as paid before the upgrade.

`billing_replay` has no mishaps, and shows the window itself: a delivery is answered as a replay
because of the mark in memory, while D1 does not know of the payment yet.

**Proved** (`BillingProofs`), for any payments, orders, isolates, calls and bound on mishaps:
`TypeCorrect`, `TierNeedsMoney`, `PaymentUpgradesOnce`, `PaidOrdersUpgraded`. Three invariants
carry them. `MoneyInv`: an activating delivery past the amount's check, and a recorded
event, stand for a confirmed payment that is not `Underpaid` (`Secured`). `OnceInv`: without overlap a payment has at most one
delivery, and once it has been upgraded its event says so, and no delivery before the event
is still to come (`Alone`). `PaidInv`: a delivery at `paid` has upgraded. The steps of a delivery are
grouped first (`CallSteps`): each one either leaves all other calls alone, begins
one, or ends some. `PaidIsUpgraded` is liveness and stays with TLC.

## 7. Request queue: `RequestQueue`

**State.** `queue` (of requests; an item *is* the request it runs), `used` (the day's cost, up
to the budget), `running` (which item each call awaits), `drain` (what each drain awaits and how many
it has processed), and `made`/`came`, the order of arrival.

**Actions.** `enqueueAndWaitExchange` up to its await has three outcomes: `CallFull` runs the
request past a full queue; `CallOverBudget` finds the budget spent, runs the request
directly and leaves its item behind; `CallQueued` inserts the item, takes the head and runs
*that*. `Return` is the rest of the call: its own cost is recorded. `MarketRead` is a read
that costs and does not queue. `DrainStart` and `DrainGoesOn` are
`drainExchangeQueue` from one await of its processor to the next; two drains are the scheduler's tick
and the cron trigger. `NewDay` is the new bucket of the cost tracker. `Inserted` puts an item where
the loop of `insertByPriority` ends, halving by halving (`BinarySearch`).

**Runs.** `queue_drains` has three requests (two of one priority, one of another), a budget of 2,
depth 2, batches of 2 and two drains: the budget is spent by the second request or
by market reads, the queue fills, and both drains meet the same head. Deadlock is not checked:
each request is made once, and afterwards the system may rest. Awaited calls
return, days end, and drains happen every few minutes, that is, also on days with budget left: strong
fairness of `DrainStart`, because a drain that meets a spent budget does nothing.

The queue is in order (`PriorityThenArrival`); as long as nothing was refused each request
is run exactly once (`OnceWithinBudget`); nothing is lost unless the head was taken under a
drain's await (`NoneLost`: the drain shifts *whatever* is at the head when its item is done);
the queue empties (`QueueDrains`). `queue_own` shows what a refused call leads to: its item stays, the
next day's call of that priority gets it, and returns its result as its own.

**Proved** (`RequestQueueProofs`), for any requests, priorities, costs, budgets, depths and drains: `TypeCorrect`,
`InOrderOfArrival` (`PriorityThenArrival`), `OneRunEach` (`OnceWithinBudget`) and `NothingLost` (`NoneLost`). All of them insert by the
code's binary search, and what it finds is a theorem of its own, `SearchFindsPlace`: in a queue in order,
of any length, it ends behind the prefix of those that keep their place before the request (`Place` counts them). A search is a
recursive function on spans; that there is one is shown by giving it in closed form (`Nearest`), and that there
is no other by the shortest span on which two would differ (`HalvesFinds`). TLC's queues are too short for the
halving to matter, so here the proof says what the runs cannot. `QueueDrains` is model-checked.

## 8. Deliberation: `Deliberation` over `PortfolioOverlays`

**State.** `pc` and `at` are the place of `runDeliberation` and the question asked now;
`waiting` and `flying` are the call awaited and those that have not been answered, the awaited one and
the late ones; `rounds`, `provenance`, `sides` and `faulty` are the arrays and variables the
orchestrator passes around; `stages`, `advisory`, `portfolio` what the later
stages leave; `log` and `base` the writer's log and the one it began with.

**Actions.** `Ask` sends a question to the first provider of its tier. `NotAsked` is a tier without a
provider, or a prompt that quotes what the security gate refuses. `Answer`, `Unrecorded` and
`Broken` are the three ends of an attempt: an answer, an answer whose usage figures are refused, and an error
or a timeout, after which the fallback is asked, if there is one and it was not the one that broke.
A timed-out call stays in `flying` and its answer comes as `LateAnswer`. `Adjourn` is the
orchestrator's own check after the debate. `Advise` is what `executeRiskAdvisory` and
`executePortfolioAdvisory` do in one go; `AppendEntry` and `AppendFails` are the awaited appends of
`logDeliberationRun`, one by one.

`PortfolioOverlays` has the engine's overlays in their order and `collectPortfolioViolations`. With
one alpha every scaling overlay ends exactly at its limit, so that integers are enough.

**Runs.** `deliberation_runs`: one analyst and one round of debate (the loops are the same for
more), two risk views, two providers for the reasoning tier and one for each of the others, limits that bind
and limits that do not, a held weight from which the turnover overlay cannot reach
the caps in one step, two runs, and one late answer besides the awaited one. Deadlock is not checked: after the last run
the system rests. Fairness: the runner goes on, and every attempt has a timer (`WF(Broken)`).
Nothing is assumed of the providers. `AnswersItsQuestion`, `ReportRestsOnDebate`, `LimitsBind` and
`LogTellsTheRun` say what a report is worth; `RunEnds` that there is one, or a failure.

`LimitsBind` holds for the limits of the views that were *heard*: a view that times out or does not
parse drops its limit silently. A run without any
parsed view has no portfolio result: its report is rejected (`deliberation-finalizer.ts`, line 46), the entry before the last of its log says so too, and
its human-decision entry says APPROVE_FOR_SHADOW (line 69); the model has that as `Verdict`. The net exposure is compared with its sign
(`portfolio-advisor-check.ts`, line 17), where the overlay takes its absolute value. As long as the limit of gross exposure is
the lower one, the comparison of gross exposure covers that; where it is not, a short position that the turnover overlay
leaves beyond the net limit is let pass, and the same long position is rejected. `LimitsBind` claims no more than the gross limit.

**Proved** (`DeliberationProofs`), for any registry of providers, any number of analysts, rounds, views,
runs and late answers, any limits and any configuration: `TypesCorrect` (`TypeOK`), `AnswersTheQuestion`
(`AnswersItsQuestion`), `ReportIsWhole` (`ReportRestsOnDebate`), `AdviceBinds` (`LimitsBind`) and `LogIsTrue`
(`LogTellsTheRun`), all from one invariant, `IInv`. None of the properties is inductive alone. It adds:

* `Awaited`: the awaited call is of this run and asks the question of now. A late answer is another call, because
  `callAgent` awaits one at a time; this is all that keeps it out of `rounds`.
* `Spoken`: no sentence answers a question from here on.
* `Whole`: as long as nothing is missed (`faulty`), the i-th sentence answers the i-th question; past the
  manager's question nothing before it was missed, which is what `Undebated` guarantees in one place; and past the end
  the portfolio advisor has spoken.
* `Advice`: `stages` and `portfolio` agree on what is rejected, although they are written separately.
* `Logs`: while the log is written, what was appended is the beginning of `Entries`.

`LimitsBind` rests on `AdvisedKeeps`: the comparison of gross exposure alone keeps an accepted weight below
the *lowest* limit, whatever the overlays before it made of the weight. That there is a lowest limit is proved
(`LowestIsLeast`): the `CHOOSE` of `Lowest` needs a finite set, and the limits of the sentences spoken are one.
`EntriesAre` says that the two filters of the finalizer, which each go through all rounds, give back exactly the
analysts' and the debaters' questions in their order. The one assumption about the model's own values is that
`None` is no limit, no sentence, no call and no advice. `RunEnds` is model-checked.

## 9. Cache, rows and rounds: `BotFleet`

**State.** `row` is the status of each bot in D1, `writes` the status writes on their way there.
`instances` are all instances made of a bot in this isolate, `cached` the one the cache
holds and `expired` whether its 30 seconds are over. `request` and `round` are the control requests and
the scheduler's round, each with what it read before its await. `halted` is the kill switch.

**Actions.**

| Action | Code |
|---|---|
| `RequestHit`, `RequestMiss`, `RequestServed`, `RequestRefused` | `botControlHandler` with a cached bot, or `getOrCreateBot` up to the row's answer and after it |
| `StartBegin`, `StartEnds` | `botActionStart`, which awaits the price |
| `RoundBegins` - `RoundHydrates`/`RoundFallsBack` | `getRunningBots`, from D1 or, if D1 fails, from the cache |
| `RoundRestarts`, `RoundStartEnds`, `RoundGoesOn`, `RoundTicks`, `RoundEnds` | `autoRestartBotIfNeeded` for each bot, then `tickSingleBot` for each |
| `WriteArrives`, `WriteFails` | `createD1Callbacks`: a write nobody awaits |
| `EntryExpires` | the time-to-live of an entry; `Evicted` is the deletion by the next `get` |
| `IntervalFires`, `Halt`, `Lift`, `ColdStart`, `Create` | the interval of any instance, cached or not; `stopAll`; a new isolate; the API's creation |

`ToD1Status` and `ToBotStatus` are the two conversions, over all statuses. A tick is one step, because
`BotEngine` has what happens inside it. Production's manager has no user, so that a bot created through the API has no
row; rows are those that an earlier life left, and the program writes none that does not parse.

**Run.** `fleet_rounds` has one bot - bots share no state here but the halt -, one control request beside the
round, two instances of the bot within an isolate and two writes on their way. Two instances are the
case of the expired entry whose instance goes on ticking while another one replaces it; two writes
can overtake each other. Cold starts, of which there may be any number, allow two more instances
each. Deadlock is not checked: bounds on instances and writes stop some schedules. Nothing is assumed to be fair, and no
liveness is claimed: a round ends only if the exchange answers.

* `OnlyAgeReplaces`: although a request and a round both await the row and both go on to create the bot, an
  instance is replaced only after its entry had expired (`createBot` refuses the rest).
* `RowTellsTheBot`: when no write was lost or overtaken and no older instance reports, the row is the instance's status.
* `StopSticks`: a bot the user stopped rests, across expiry, hydration, halts and cold starts, until
  the user asks for it or a round reads a row that still says running, which is the case of the lost
  write. `stopHolds` ends where the code gives the promise up; `Contested` lists who else may be running it.

Three behaviours that the model has and no property forbids. A running bot restored after a cold start has no strategy: `restoreBotStateFromRow`
sets the status, and `start()` returns at once for a running bot, so that the round's
`autoRestartBotIfNeeded` restarts nothing (`docs/development-roadmap.md`, line 83, expects a restart); such a bot ticks and never trades. The instance of an expired entry
is not stopped, and `stopAll` does not reach it. A halt is forgotten by a cold start: what `bot-manager-killswitch.ts` (line 29) writes is never read back.

**Proof.** `BotFleetProofs` proves `TypeOK` and the three invariants for any bots, requests and bounds. `IInv` adds what
they need to survive a step. `OnlyAgeReplaces` leans on the cache's own order (`MemInv`: an expired entry holds an instance, and nothing points past the
instances made). `StopSticks` needs that nobody is *about* to run the bot - no start awaits its price, no round has read its row or lists
it (`StopInv`) - and, for a resume or a repeated stop, that a stopped instance does not tick. `RowTellsTheBot` speaks of a moment
without writes; its strengthening (`LatestInv`) says at every moment that the *last* status on its way, or the row when none is, is the
instance's. `HydrateKeeps`, `ReplacedKeeps` and `RoundMoves` are what the actions share: an instance made, an instance replaced
and reported, the round moved alone.

## 10. Strategies: `GridStrategy`, `MeanReversion`, `VolatilityDca`, `Strategies`

**State.** Each strategy has a module of its own. The grid keeps its levels with status,
fill price and trailing exits; mean reversion `position` and the cooldown; DCA the
reference price, the step and the position. All three send orders that the ticker does not
await: `inflight` and `flying` are the orders awaited. `placed`, `booked`, `slips` and `lost`
are history: the orders the exchange took on its book, and what went wrong on the way. `Strategies`
is `initializeStrategy`: it builds one of the three and then takes its steps.

**Actions.** A ticker is one action: `Tick` and `Rebalance` of the grid (trail, close, fill, and
perhaps a new grid), `Enter` and `Exit` of mean reversion, `Buy`, `Sell` and `Hold` of DCA. Each answer is one: `Answered`
and `Failed`, `Resolves` and `Throws`, in any order. An order that the orchestrator rejects *resolves*
(`dispatchExchangeOrder`), so an answer may be taken or not without the strategy's noticing. `Stop` and
`OrderFilled` are operations that no production code calls.

Percentages are amounts, prices five integers; what bands, RSI and volume say of a ticker is
open, and so is the volatility (`Multipliers`); the first slice of an execution plan is half of the order.

**Run.** `strategies_answers`: four levels - two on each side, so that one ticker fills two -, prices that
reach both ends of the grid and leave its range, DCA with three steps and a
window of two, up to three orders awaited. `MaxSlips`, `MaxBooked` and `MaxLost` bound what repeated overlaps, rejections
and failures can pile up before an order is sent: two steps of DCA booked, one lost, four slips.
Deadlock is not checked: a stopped strategy rests.

* `OneOrderPerLevel`: a level is marked before its order is sent, so no ticker fills it twice, and one that failed can be filled again.
* `StopsOnlyTighten`: take-profit and stop never move back, also over a failure and a refill at another price.
* `PositionIsBooked`: what a strategy counts is what its orders on the book come to. DCA counts when it sends: its position is
  what is booked and under way, plus *exactly* the orders that failed - or at most that, since with `quantExecution` a sale sends a
  slice and resets the position. Mean reversion counts when it is answered: it is off by at most one for each order sent while another was
  awaited, and for each rejection that looked like a fill; late answers and failures cause no drift.

These are orders, not coins. Mean reversion and DCA send *limit* orders (`mean-reversion-orders.ts`, lines 33 and 57;
`volatility-dca-execution.ts`, line 24); both exchanges a bot can be wired to leave a limit order `open` with `filled` 0
(`paper-adapter.ts`, lines 50-51; `paper-order-helpers.ts`, lines 28-29), and no code outside the tests fills one. The
strategies read any answer that does not throw as their trade, so an entry makes a position `long` that holds nothing
yet. No property here says that coins are held.

What the property allows is what the code does: mean reversion enters again while its entry is awaited, and exits once;
a rejected order counts as a fill; DCA counts an order that failed; a sliced
sale resets the position and leaves the rest. Three more: DCA signals nothing once `maxSteps` are bought,
so a full position is not sold on the rebound; `closeLevel` of the grid sends no order; and an order that fails after its
level was closed sets that level back to pending.

**Proved** (`StrategiesProofs`), for any number of levels, prices, distances, steps and orders awaited:

* `TypesCorrect` (`TypeOK`). For DCA the bound of `position` needs that no more than `StepSize` is counted for a step,
  sliced or not; nothing but `Signalling` keeps `step` below `MaxSteps`.
* `OneOrder` (`OneOrderPerLevel`), where the invariant needs the types of the counters only.
* `ExitsTighten` (`StopsOnlyTighten`), by cases on where a level's exits are written: seeded, ratcheted, or not at all.
* `CountedIsBooked` (`PositionIsBooked`). For mean reversion the invariant is `Owed`: the drift so far, and
  what the awaited orders can still add to it (`AtStake`), is covered by the slips. An awaited order is *stale* when it would
  turn the position to where it is already; as long as none is, one of those awaited moves position and book together and
  costs nothing. For DCA it is `Counted`: what is
  booked, the sum of the awaited orders and what was lost together are the position. The sum is a recursive
  function over the sequence, and an answer may take an order out of the middle of it; that the sum then loses
  exactly that order (`SumOfAnswered`, and `SumOfRefused` when it was not taken) is proved without induction over data: two
  sequences of partial sums that agree at 0 and grow alike have no least place where they differ (`SumsAgree`).

## 11. What is not shown

* **Model-checked only**: every liveness property (`RecoversEventually`,
  `EveryOrderSettles`, `HaltLifts`, `PaidIsUpgraded`, `QueueDrains`, `RunEnds`): liveness under fairness
  and `ENABLED` are beyond the proof system. Every invariant and action property of the passing runs is
  proved.
* **Bounds**: TLC's instances are the ones above. `MaxNow`, `MaxTrades`, `MaxMishaps`, `MaxMade`, `MaxWrites`, `MaxFlying`, `MaxSlips`, `MaxBooked` and `MaxLost`
  bound counters in guards; the theorems hold for each of their values. Saturated counters
  (`streak`, `since`, `upgrades`, `runs`, `used`) stop where no property and no guard can tell a
  larger value from it.
* **Left out of the modelled parts**: latencies, backoff statistics and messages of the health
  records; fill prices and balances of the paper exchange; the signature and schema checks of a
  delivery; roles of workspace members; the statistics a drain returns; a manager with a user; portfolios
  of more than one alpha.
* **Not modelled**: the rate limiter and the websocket layer, which only delay or inform; live orders
  (unreachable: the factory refuses every mode but paper); the ticker paths of the orchestrator; research queue and
  promotion, audit ledger, credits, quotas and sync, settings, which are single steps on one value; the quantitative library,
  backtests and research scripts, which are numerical functions without state; the user interface. These
  last two are most of the repository's lines. `PROJECT.json` has the reason for each, and the hazards in parts without a module.

## 12. Running it

    tlc -workers 2 -config MCBilling_deliveries.cfg MCBilling
    tlapm BillingProofs.tla

The longest passing runs take about two minutes, the proof modules a few each.
