---------------------------- MODULE MeanReversion ----------------------------
(***************************************************************************)
(* The mean reversion of tree/bot/strategies: in when the price is below   *)
(* the lower band, out when it is above the upper one, and a cooldown      *)
(* after every trade.                                                      *)
(*                                                                         *)
(* An order is not awaited by the ticker that sends it: position and       *)
(* cooldown change when its answer comes, and the tickers in between see   *)
(* the old ones.  What bands, RSI and volume say of a ticker is an input.  *)
(* An entry and an exit are of one size.  All are limit orders; an exchange*)
(* takes one onto its book, open and unfilled, and no code outside the     *)
(* tests fills it, while the strategy reads any answer that does not throw *)
(* as its trade.  What is counted here is therefore orders, not coins.     *)
(***************************************************************************)
EXTENDS Integers, SequencesExt

CONSTANTS
    MaxFlying,  \* bound: the orders awaited at once
    MaxSlips    \* bound: the slips so far when an order is sent

VARIABLES
    running,
    position,   \* "none" or "long"
    cooling,    \* less than cooldownMinutes since the last trade
    flying,     \* the orders that are awaited, 1 an entry and -1 an exit
    booked,     \* history: entries less exits that the exchange took on its book
    slips       \* history: the orders sent while another was awaited, and the
                \* answers marked as rejected, which look like any other

vars == <<running, position, cooling, flying, booked, slips>>

TypeOK ==
    /\ running \in BOOLEAN
    /\ position \in {"none", "long"}
    /\ cooling \in BOOLEAN
    /\ flying \in Seq({1, -1})
    /\ booked \in Int
    /\ slips \in Nat

Init ==
    /\ running = TRUE
    /\ position = "none"
    /\ cooling = FALSE
    /\ flying = <<>>
    /\ booked = 0
    /\ slips = 0

Sent(order) ==
    /\ Len(flying) < MaxFlying /\ slips < MaxSlips
    /\ flying' = Append(flying, order)
    /\ slips' = IF flying = <<>> THEN slips ELSE slips + 1
    /\ UNCHANGED <<running, position, cooling, booked>>

\* onTicker: evaluateSignal, with what the indicators say.
Enter ==
    /\ running /\ ~cooling
    /\ position = "none"
    /\ Sent(1)
Exit ==
    /\ running /\ ~cooling
    /\ position = "long"
    /\ Sent(-1)

\* MUTANT of Believed: an order that failed counts as well.
BelievedAnyway(order, ok) == position' = IF order = 1 THEN "long" ELSE "none"
\* What the strategy makes of an answer.
Believed(order, ok) ==
    position' = IF ~ok THEN position ELSE IF order = 1 THEN "long" ELSE "none"

\* placeOrder resolves, the exchange having taken the order onto its book or,
\* with a result marked as rejected, not.
Resolves(i, taken) ==
    /\ i \in DOMAIN flying
    /\ Believed(flying[i], TRUE)
    /\ cooling' = TRUE
    /\ booked' = IF taken THEN booked + flying[i] ELSE booked
    /\ slips' = IF taken THEN slips ELSE slips + 1
    /\ flying' = RemoveAt(flying, i)
    /\ UNCHANGED running

\* placeOrder throws: logged, and nothing changes.
Throws(i) ==
    /\ i \in DOMAIN flying
    /\ Believed(flying[i], FALSE)
    /\ flying' = RemoveAt(flying, i)
    /\ UNCHANGED <<running, cooling, booked, slips>>

\* The cooldown is over.
Rested ==
    /\ cooling
    /\ cooling' = FALSE
    /\ UNCHANGED <<running, position, flying, booked, slips>>

Stop ==
    /\ running
    /\ running' = FALSE
    /\ UNCHANGED <<position, cooling, flying, booked, slips>>

Next ==
    \/ Enter \/ Exit \/ Rested \/ Stop
    \/ \E i \in DOMAIN flying : Throws(i) \/ \E taken \in BOOLEAN : Resolves(i, taken)

Spec == Init /\ [][Next]_vars

\* The position the strategy believes in is what its entries and exits on the
\* book come to, up to one for each order that was sent while another was awaited
\* and one for each rejection that looked like a fill: nothing else, no order of
\* the answers and no failure, makes it drift.
Distance(x) == IF x < 0 THEN -x ELSE x
Believes == IF position = "long" THEN 1 ELSE 0
PositionIsBooked == Distance(booked - Believes) <= slips
=============================================================================
