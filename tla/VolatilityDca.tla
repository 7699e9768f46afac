---------------------------- MODULE VolatilityDca ----------------------------
(***************************************************************************)
(* The volatility-adjusted dollar-cost averaging of tree/bot/strategies    *)
(* and tree/quantlib: a step is bought at every further drop below the     *)
(* reference price, and all is sold when the price has rebounded.          *)
(*                                                                         *)
(* The position is counted when an order is sent, whatever its answer; the *)
(* exchange takes the limit order onto its book, open and unfilled.  What  *)
(* is compared below is therefore units ordered, not coins.                *)
(* Drops are amounts, times what the volatility makes of them, in halves;  *)
(* a step is four units, and the slice that quantExecution sends of an      *)
(* order is half of it.                                                    *)
(***************************************************************************)
EXTENDS Integers, SequencesExt

CONSTANTS
    Prices,
    Drop,         \* priceDropStep
    Multipliers,  \* volMultiplier, in halves
    Rebound,      \* reboundTarget
    MaxSteps,
    Window,       \* volatilityWindow
    MaxFlying,    \* bound: the orders awaited at once
    MaxBooked, MaxLost  \* bounds: the units booked and lost when an order is sent

VARIABLES
    running,
    sliced,     \* config.quantExecution
    reference,  \* referencePrice
    seen,       \* how much of the price window is filled
    step,       \* stepIndex
    position,   \* positionQty
    flying,     \* the orders that are awaited: n a buy and -n a sale of n
    booked,     \* history: the units of the buys on the book, less the sales'
    lost        \* history: those of the orders that threw or came back rejected

vars == <<running, sliced, reference, seen, step, position, flying, booked, lost>>

StepSize == 4

TypeOK ==
    /\ running \in BOOLEAN /\ sliced \in BOOLEAN
    /\ reference \in Prices
    /\ seen \in 1 .. Window
    /\ step \in 0 .. MaxSteps
    /\ position \in 0 .. StepSize * MaxSteps
    /\ flying \in Seq(Int)
    /\ booked \in Int /\ lost \in Int

Init ==
    /\ running = TRUE
    /\ sliced \in BOOLEAN
    /\ reference \in Prices
    /\ seen = 1
    /\ step = 0
    /\ position = 0
    /\ flying = <<>>
    /\ booked = 0
    /\ lost = 0

\* sliceQuantity of the execution plan, or all of the order.
Slice(n) == IF sliced THEN n \div 2 ELSE n

Bounded ==
    /\ Len(flying) < MaxFlying
    /\ booked \in -MaxBooked .. MaxBooked /\ lost \in -MaxLost .. MaxLost

\* MUTANT of Sent: a sale is sent for a step, not for the position.
SentOneStep(n) ==
    /\ Bounded
    /\ flying' = Append(flying, IF n < 0 THEN -Slice(StepSize) ELSE Slice(n))
\* dispatchOrder: nobody awaits it.
Sent(n) ==
    /\ Bounded
    /\ flying' = Append(flying, IF n < 0 THEN -Slice(-n) ELSE Slice(n))

Pushed == IF seen = Window THEN Window ELSE seen + 1

\* MUTANT of Signalling: a step more than maxSteps.
SignallingOnce == step <= MaxSteps
\* volatilityDca(): once maxSteps are bought it signals nothing any more.
Signalling == step < MaxSteps
BuySignal(p, m) == Signalling /\ 2 * (reference - p) >= Drop * (step + 1) * m
SellSignal(p) == Signalling /\ p - reference >= Rebound

\* handleVolatilityDcaTicker, with the window full.
Buy(p, m) ==
    /\ running /\ Pushed = Window
    /\ BuySignal(p, m)
    /\ Sent(StepSize)
    /\ seen' = Pushed
    /\ step' = step + 1
    /\ position' = position + Slice(StepSize)
    /\ UNCHANGED <<running, sliced, reference, booked, lost>>

Sell(p) ==
    /\ running /\ Pushed = Window
    /\ SellSignal(p)
    /\ IF position > 0 THEN Sent(-position) ELSE UNCHANGED flying
    /\ seen' = Pushed
    /\ step' = 0
    /\ position' = 0
    /\ reference' = p
    /\ UNCHANGED <<running, sliced, booked, lost>>

\* The window is not full yet, or nothing is signalled.
Hold(p, m) ==
    /\ running
    /\ Pushed = Window => ~BuySignal(p, m) /\ ~SellSignal(p)
    /\ seen' = Pushed
    /\ UNCHANGED <<running, sliced, reference, step, position, flying, booked, lost>>

\* The answer to an order, taken onto the book or not, is at most logged.
Answered(i, taken) ==
    /\ i \in DOMAIN flying
    /\ booked' = IF taken THEN booked + flying[i] ELSE booked
    /\ lost' = IF taken THEN lost ELSE lost + flying[i]
    /\ flying' = RemoveAt(flying, i)
    /\ UNCHANGED <<running, sliced, reference, seen, step, position>>

Stop ==
    /\ running
    /\ running' = FALSE
    /\ UNCHANGED <<sliced, reference, seen, step, position, flying, booked, lost>>

Next ==
    \/ \E p \in Prices : Sell(p) \/ \E m \in Multipliers : Buy(p, m) \/ Hold(p, m)
    \/ \E i \in DOMAIN flying, taken \in BOOLEAN : Answered(i, taken)
    \/ Stop

Spec == Init /\ [][Next]_vars

\* What is booked once the first i orders that are awaited have been taken.
Taken[i \in 0 .. Len(flying)] == IF i = 0 THEN booked ELSE Taken[i - 1] + flying[i]

\* The position the strategy counts is what is on the book and under way, and
\* beside that only what failed: whatever the order of the answers, the two differ
\* by exactly the orders that were lost.  With quantExecution a sale leaves slices
\* behind, and the position is at most that.
PositionIsBooked ==
    LET due == Taken[Len(flying)] + lost
    IN  IF sliced THEN due >= position ELSE due = position
=============================================================================
