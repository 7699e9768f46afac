---------------------------- MODULE GridStrategy ----------------------------
(***************************************************************************)
(* The grid of tree/bot/strategies/grid: buy levels below the price the    *)
(* grid was started at, sell levels above it, each filled by one order and *)
(* left by a trailing take-profit or stop-loss.                            *)
(*                                                                         *)
(* A ticker fills levels without awaiting their orders, and the bot ticks  *)
(* every second, so the answer of an order comes between any two tickers.  *)
(* Prices are integers; what the code takes as a percentage of a price is  *)
(* an amount here.  A closed level is only marked: no order is sent.       *)
(***************************************************************************)
EXTENDS Integers

CONSTANTS
    Half,     \* levels on each side: gridLevels / 2, for an even number
    Spacing,  \* gridSpacingPct
    TpOff,    \* takeProfitPct
    SlOff,    \* stopLossPct
    Prices    \* the prices tickers bring

Slots == (-Half .. Half) \ {0}
Dir(i) == IF i < 0 THEN 1 ELSE -1    \* 1 for a buy level, -1 for a sell level

VARIABLES
    running,
    rebalances,  \* config.rebalanceOnFill
    center,      \* basePrice, the middle of the range
    level,       \* the levels: status, fill price (0 before), trailing exits
    inflight,    \* the orders of each level that are awaited
    placed       \* history: the orders of each level that were taken

vars == <<running, rebalances, center, level, inflight, placed>>

Levels ==
    [status : {"pending", "filled", "cancelled"}, filled : Prices \cup {0},
     active : BOOLEAN, tp : Int, sl : Int]

TypeOK ==
    /\ running \in BOOLEAN
    /\ rebalances \in BOOLEAN
    /\ center \in Prices
    /\ level \in [Slots -> Levels]
    /\ inflight \in [Slots -> Nat]
    /\ placed \in [Slots -> Nat]

Pending == [status |-> "pending", filled |-> 0, active |-> FALSE, tp |-> 0, sl |-> 0]
None == [i \in Slots |-> 0]

Init ==
    /\ running = TRUE
    /\ rebalances \in BOOLEAN
    /\ center \in Prices
    /\ level = [i \in Slots |-> Pending]
    /\ inflight = None
    /\ placed = None

----------------------------------------------------------------------------
(* Trailing exits.  A sell level mirrors a buy level: d is the direction in *)
(* which its profit lies.                                                   *)

Ahead(d, x, y) == d * x > d * y
Further(d, x, y) == IF Ahead(d, x, y) THEN x ELSE y
Nearer(d, x, y) == IF Ahead(d, x, y) THEN y ELSE x

Trigger(i) == center + i * Spacing

\* seedTrailing: the stop starts at twice its distance.
Seeded(i, l) ==
    [l EXCEPT !.active = TRUE, !.tp = l.filled + Dir(i) * TpOff,
              !.sl = l.filled - 2 * Dir(i) * SlOff]

\* MUTANT of Ratcheted: the exits follow the price both ways.
RatchetedBack(i, l, p) ==
    LET d == Dir(i)
    IN  [l EXCEPT !.tp = p - d * TpOff,
                  !.sl = IF Ahead(d, p, l.filled) THEN p - d * SlOff ELSE @]
\* ratchetBuyTrailing and ratchetSellTrailing: take-profit and stop move with
\* the price, the stop as far as the fill.
Ratcheted(i, l, p) ==
    LET d == Dir(i)
        stop == Nearer(d, Further(d, p - d * SlOff, l.filled - 2 * d * SlOff), l.filled)
    IN  [l EXCEPT !.tp = Further(d, p - d * TpOff, @),
                  !.sl = IF Ahead(d, p, l.filled) THEN Further(d, stop, @) ELSE @]

\* updateTrailingLevels.
Trailed(i, l, p) ==
    IF l.status # "filled" THEN l
    ELSE IF ~l.active THEN Seeded(i, l) ELSE Ratcheted(i, l, p)

\* findTrailingExits, for a level that was not seeded by this ticker
\* (trailingSkipExit), and closeLevel.  An exit price of 0 counts as unset.
Exits(i, l, p) ==
    /\ level[i].active
    /\ l.status = "filled" /\ l.tp # 0 /\ l.sl # 0
    /\ ~Ahead(Dir(i), l.tp, p) \/ ~Ahead(Dir(i), p, l.sl)
Closed(i, l, p) == IF Exits(i, l, p) THEN [l EXCEPT !.status = "cancelled"] ELSE l

----------------------------------------------------------------------------
(* Tickers and orders.                                                     *)

Fills(i, p) == level[i].status = "pending" /\ ~Ahead(Dir(i), p, Trigger(i))

\* MUTANT of Filled: the level is marked when the order has been placed.
FilledLater(l, p) == [l EXCEPT !.filled = p]
\* executeFillLevel up to its await: the level is marked before the order is sent.
Filled(l, p) == [l EXCEPT !.status = "filled", !.filled = p]

\* What the ticker leaves of level i.
Ticked(i, p) ==
    IF Fills(i, p) THEN Filled(level[i], p)
    ELSE Closed(i, Trailed(i, level[i], p), p)

OutOfRange(p) == p > center + Half * Spacing \/ p < center - Half * Spacing

\* onTicker with a price in range, or a grid that does not follow it.
Tick(p) ==
    /\ running
    /\ ~(OutOfRange(p) /\ rebalances)
    /\ level' = [i \in Slots |-> Ticked(i, p)]
    /\ inflight' = [i \in Slots |-> IF Fills(i, p) THEN inflight[i] + 1 ELSE inflight[i]]
    /\ UNCHANGED <<running, rebalances, center, placed>>

\* onTicker with a price out of range: the fills and closes of this ticker are
\* replaced with the levels, and nobody reads what their orders answer.
Rebalance(p) ==
    /\ running
    /\ OutOfRange(p) /\ rebalances
    /\ center' = p
    /\ level' = [i \in Slots |-> Pending]
    /\ inflight' = None
    /\ placed' = None
    /\ UNCHANGED <<running, rebalances>>

\* The order was taken, or came back marked as rejected: the level keeps its id.
Answered(i) ==
    /\ inflight[i] > 0
    /\ inflight' = [inflight EXCEPT ![i] = @ - 1]
    /\ placed' = [placed EXCEPT ![i] = @ + 1]
    /\ UNCHANGED <<running, rebalances, center, level>>

\* The order failed: the level is pending again, whatever became of it since,
\* with the trailing exits it has.
Failed(i) ==
    /\ inflight[i] > 0
    /\ inflight' = [inflight EXCEPT ![i] = @ - 1]
    /\ level' = [level EXCEPT ![i].status = "pending"]
    /\ UNCHANGED <<running, rebalances, center, placed>>

\* onOrderFilled with the id of a level's order.  Nothing in the bot calls it,
\* nor stop: both are there for whoever runs the strategy.
OrderFilled(i) ==
    /\ placed[i] > 0
    /\ level' = [level EXCEPT ![i].status = "filled"]
    /\ UNCHANGED <<running, rebalances, center, inflight, placed>>

Stop ==
    /\ running
    /\ running' = FALSE
    /\ UNCHANGED <<rebalances, center, level, inflight, placed>>

Next ==
    \/ \E p \in Prices : Tick(p) \/ Rebalance(p)
    \/ \E i \in Slots : Answered(i) \/ Failed(i) \/ OrderFilled(i)
    \/ Stop

Spec == Init /\ [][Next]_vars

----------------------------------------------------------------------------
(* Properties.                                                             *)

\* However tickers, answers, failures and closes interleave, a level has at
\* most one order, awaited or taken, and one that can be filled has none.
OneOrderPerLevel ==
    \A i \in Slots :
        /\ inflight[i] + placed[i] <= 1
        /\ level[i].status = "pending" => inflight[i] + placed[i] = 0

\* The exits of a level only tighten, also when its order failed and it is
\* filled again: neither take-profit nor stop ever moves away from the price.
Tightens ==
    \A i \in Slots : level[i].active /\ level'[i].active =>
        /\ ~Ahead(Dir(i), level[i].tp, level'[i].tp)
        /\ ~Ahead(Dir(i), level[i].sl, level'[i].sl)
=============================================================================
