----------------------------- MODULE Strategies -----------------------------
(***************************************************************************)
(* The strategy of a bot: initializeStrategy (tree/bot/bot-strategy)       *)
(* builds the one its configuration names, and from then on its tickers    *)
(* and its orders' answers are the bot's.  The three keep nothing in       *)
(* common but being built, run and stopped; what they know of orders that  *)
(* are awaited is each one's own.                                          *)
(***************************************************************************)
EXTENDS Integers, Sequences

CONSTANTS Half, Spacing, TpOff, SlOff, Prices, Drop, Multipliers, Rebound,
          MaxSteps, Window, MaxFlying, MaxSlips, MaxBooked, MaxLost

ASSUME StrategiesAssumption ==
    /\ Half \in Nat /\ Spacing \in Nat \ {0}
    /\ TpOff \in Nat \ {0} /\ SlOff \in Nat \ {0}
    /\ Prices \subseteq Nat \ {0}
    /\ Drop \in Nat \ {0} /\ Multipliers \subseteq Nat \ {0} /\ Rebound \in Nat
    /\ MaxSteps \in Nat \ {0} /\ Window \in Nat \ {0} /\ MaxFlying \in Nat
    /\ MaxSlips \in Nat /\ MaxBooked \in Nat /\ MaxLost \in Nat

VARIABLES
    strategy,                            \* config.strategy
    running,                             \* of all
    rebalances, center, level, inflight, placed,  \* of the grid
    cooling, slips,                      \* of mean reversion
    sliced, reference, seen, step, lost, \* of DCA
    position, flying, booked             \* of mean reversion, or of DCA

grid == <<rebalances, center, level, inflight, placed>>
mean == <<cooling, slips>>
dca == <<sliced, reference, seen, step, lost>>
orders == <<position, flying, booked>>
vars == <<strategy, running, grid, mean, dca, orders>>

Grid == INSTANCE GridStrategy
Mean == INSTANCE MeanReversion
Dca == INSTANCE VolatilityDca

Built(name) == strategy = name

\* What belongs to a strategy that was not built stays empty.
NoGrid == rebalances = FALSE /\ center = 0 /\ level = <<>> /\ inflight = <<>> /\ placed = <<>>
NoMean == cooling = FALSE /\ slips = 0
NoDca == sliced = FALSE /\ reference = 0 /\ seen = 0 /\ step = 0 /\ lost = 0
NoOrders == position = 0 /\ flying = <<>> /\ booked = 0

Init ==
    \/ Built("grid") /\ Grid!Init /\ NoMean /\ NoDca /\ NoOrders
    \/ Built("mean_reversion") /\ Mean!Init /\ NoGrid /\ NoDca
    \/ Built("volatility_dca") /\ Dca!Init /\ NoGrid /\ NoMean

Next ==
    \/ Built("grid") /\ Grid!Next /\ UNCHANGED <<strategy, mean, dca, orders>>
    \/ Built("mean_reversion") /\ Mean!Next /\ UNCHANGED <<strategy, grid, dca>>
    \/ Built("volatility_dca") /\ Dca!Next /\ UNCHANGED <<strategy, grid, mean>>

Spec == Init /\ [][Next]_vars

TypeOK ==
    /\ Built("grid") => Grid!TypeOK
    /\ Built("mean_reversion") => Mean!TypeOK
    /\ Built("volatility_dca") => Dca!TypeOK

\* However tickers and answers interleave, a level of the grid has at most one
\* order, awaited or taken, and one that can be filled has none.
OneOrderPerLevel == Built("grid") => Grid!OneOrderPerLevel

\* Take-profit and stop of a level only move with the price, also when its
\* order failed and it is filled again.
StopsOnlyTighten == [][Built("grid") => Grid!Tightens]_vars

\* The position a strategy counts is that of its orders on the exchange's book,
\* whatever order the answers come in: DCA, which counts what it sends, is off by
\* exactly the orders that failed, mean reversion, which counts what is answered,
\* by at most one for each overlap and each rejection that looked like a fill.
PositionIsBooked ==
    /\ Built("mean_reversion") => Mean!PositionIsBooked
    /\ Built("volatility_dca") => Dca!PositionIsBooked
=============================================================================
