----------------------------- MODULE Killswitch -----------------------------
(***************************************************************************)
(* The killswitch of tree/bot, as operators on its state: when losses halt *)
(* trading, and how a halt ends.  Money is in whole units, the percentages *)
(* are compared by cross-multiplication, which is exact.                   *)
(*                                                                         *)
(* cooldownUntil is kept as the time still to pass.  enable(), disable()   *)
(* and reset() are not modelled: no code outside the tests calls them.     *)
(***************************************************************************)
EXTENDS Integers

CONSTANTS
    MaxDailyLossPct, MaxConsecutiveLosses, MaxDrawdownPct, \* KillswitchConfig
    Cooldown,  \* cooldownMinutes, in units of the model's clock
    None       \* null

ASSUME LimitsAssumption ==
    /\ MaxDailyLossPct \in Nat \ {0}
    /\ MaxDrawdownPct \in Nat \ {0}
    /\ MaxConsecutiveLosses \in Nat \ {0}
    /\ Cooldown \in Nat
    /\ None \notin Int

\* lifted is history: a halt was lifted and no fill since has passed the limits.
KillswitchState ==
    [halted : BOOLEAN, cooldown : 0 .. Cooldown \cup {None},
     dailyPnl : Int, losses : Nat, peak : Nat, lifted : BOOLEAN]

\* A manager's killswitch once bots with this capital are registered.
Registered(capital) ==
    [halted |-> FALSE, cooldown |-> None, dailyPnl |-> 0, losses |-> 0,
     peak |-> capital, lifted |-> FALSE]

\* executeKillswitchHalt, less its onHalt.  A halt by hand cools down too.
Halt(k) ==
    IF k.halted THEN k ELSE [k EXCEPT !.halted = TRUE, !.cooldown = Cooldown]

\* executeKillswitchResume.
Lift(k) == [k EXCEPT !.halted = FALSE, !.cooldown = None, !.lifted = TRUE]

\* isTradingEnabled(): the answer, and the state the question leaves behind.
TradingEnabled(k) == ~k.halted \/ k.cooldown = 0

\* Mutant of Asked: the question does not lift the halt.
AskedOnly(k) == k

Asked(k) == IF k.halted /\ TradingEnabled(k) THEN Lift(k) ELSE k

\* Mutant of StreakReached: one loss too late.
StreakReachedLate(k, pnl) == pnl < 0 /\ k.losses > MaxConsecutiveLosses

\* evaluateOrderRisk on the totals after the fill.  Without a peak capital
\* the two percentages are not computed.
StreakReached(k, pnl) == pnl < 0 /\ k.losses >= MaxConsecutiveLosses
DailyLossReached(k) ==
    k.peak > 0 /\ k.dailyPnl < 0 /\ -k.dailyPnl * 100 >= MaxDailyLossPct * k.peak
DrawdownReached(k) ==
    k.peak > 0 /\ -k.dailyPnl * 100 >= MaxDrawdownPct * k.peak

\* Mutant of Counted: a loss takes its amount off the streak.
CountedByAmount(k, pnl) ==
    [k EXCEPT !.dailyPnl = k.dailyPnl + pnl, !.losses = k.losses + pnl,
               !.lifted = k.lifted /\ pnl < 0]

Counted(k, pnl) ==
    [k EXCEPT !.dailyPnl = k.dailyPnl + pnl,
               !.losses = IF pnl < 0 THEN k.losses + 1 ELSE 0,
               !.lifted = k.lifted /\ pnl < 0]

\* handleOrderFilled: a halted killswitch does not look at the fill.
Filled(k, pnl) ==
    LET counted == Counted(k, pnl)
    IN  IF k.halted THEN k
        ELSE IF \/ StreakReached(counted, pnl)
                \/ DailyLossReached(counted)
                \/ DrawdownReached(counted)
        THEN Halt(counted)
        ELSE counted

\* updatePeakCapital; its currentDrawdown steers nothing.
PeakRaised(k, capital) ==
    IF capital > k.peak THEN [k EXCEPT !.peak = capital] ELSE k

\* resetKillswitchDailyState, at midnight: halted and cooldownUntil stay.
DayStarted(k) ==
    [halted |-> k.halted, cooldown |-> k.cooldown, dailyPnl |-> 0, losses |-> 0,
     peak |-> 0, lifted |-> FALSE]

Elapsed(k) ==
    IF k.halted /\ k.cooldown > 0 THEN [k EXCEPT !.cooldown = k.cooldown - 1] ELSE k
=============================================================================
