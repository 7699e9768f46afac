----------------------------- MODULE BotEngine ------------------------------
(***************************************************************************)
(* The bots of one isolate and the killswitch they share (tree/bot).       *)
(*                                                                         *)
(* JavaScript runs one continuation at a time, so a step of the model is   *)
(* the code between two awaits.  A start awaits the price, a tick awaits   *)
(* the ticker and then its chain order, an order awaits the exchange; each *)
(* is a call whose record says where it stands and what it captured before *)
(* the await:                                                              *)
(*   start   price -> assign -> idle                                       *)
(*   tick    ticker -> (chain -> chained ->) idle                          *)
(*   order   order -> filled -> idle                                       *)
(* What a strategy decides from a ticker is left open: it sends any number *)
(* of orders.  A fill brings any profit or loss in Pnls; an order that the *)
(* orchestrator rejects comes back as a fill with pnl 0.                   *)
(***************************************************************************)
EXTENDS Killswitch, FiniteSets

CONSTANTS
    Bots,
    Chained,   \* the bots whose configuration asks for a strategy chain
    Calls,     \* the calls that may be in flight at once
    Capital,   \* config.capital, of every bot
    Pnls,      \* the profits and losses a fill may bring
    MaxTrades  \* bound: the trades of one bot

ASSUME EngineAssumption ==
    /\ None \notin Bots
    /\ Chained \subseteq Bots
    /\ Capital \in Nat \ {0}
    /\ Pnls \subseteq Int
    /\ MaxTrades \in Nat

VARIABLES
    ks,    \* the manager's killswitch
    bot,   \* the bots: [status, ticking, strategy, chain, counter, trades, pnl]
    call   \* the calls in flight

vars == <<ks, bot, call>>

Statuses == {"idle", "running", "paused", "stopped", "error"}
Places == {"idle", "price", "assign", "ticker", "chain", "chained", "order", "filled"}
IdleCall ==
    [at |-> "idle", bot |-> None, strategy |-> FALSE, chain |-> FALSE, counter |-> 0]

BotState ==
    [status : Statuses, ticking : BOOLEAN, strategy : BOOLEAN, chain : BOOLEAN,
     counter : Nat, trades : Nat, pnl : Int]
CallState ==
    [at : Places, bot : Bots \cup {None}, strategy : BOOLEAN, chain : BOOLEAN,
     counter : Nat]

TypeOK ==
    /\ ks \in KillswitchState
    /\ bot \in [Bots -> BotState]
    /\ call \in [Calls -> CallState]
    /\ \A c \in Calls : call[c].at # "idle" => call[c].bot \in Bots

Init ==
    /\ ks = Registered(Capital)
    /\ bot = [b \in Bots |-> [status |-> "idle", ticking |-> FALSE, strategy |-> FALSE,
                              chain |-> FALSE, counter |-> 0, trades |-> 0, pnl |-> 0]]
    /\ call = [c \in Calls |-> IdleCall]

----------------------------------------------------------------------------
(* The controls of a bot.                                                  *)

\* Mutant of Paused: the interval goes on.
PausedTicking(s) == [s EXCEPT !.status = "paused"]
\* pauseBot, for a running bot.
Paused(s) == [s EXCEPT !.status = "paused", !.ticking = FALSE]

\* BotInstance.stop(): stopBot does nothing to a stopped bot, the strategy is
\* dropped in any case; the strategy chain stays.
Stopped(s) ==
    [s EXCEPT !.status = "stopped", !.strategy = FALSE,
              !.ticking = s.ticking /\ s.status = "stopped"]

\* Mutant of AfterHalt: the manager's onHalt does not stop the bots.
NoneStopped(old, new, bots) == bots
\* onHalt of the manager's killswitch stops every bot, in the step that halts.
AfterHalt(old, new, bots) ==
    IF new.halted /\ ~old.halted THEN [b \in Bots |-> Stopped(bots[b])] ELSE bots

\* startBotLifecycle up to its await: a running bot is left alone, and the
\* killswitch is not asked.
StartBegin(c, b) ==
    /\ call[c].at = "idle"
    /\ bot[b].status # "running"
    /\ call' = [call EXCEPT ![c] = [IdleCall EXCEPT !.at = "price", !.bot = b]]
    /\ UNCHANGED <<ks, bot>>

\* The price is there: running, whatever became of the bot in the meantime.
StartOk(c) ==
    /\ call[c].at = "price"
    /\ bot' = [bot EXCEPT ![call[c].bot].status = "running",
                          ![call[c].bot].ticking = TRUE]
    /\ call' = [call EXCEPT ![c].at = "assign"]
    /\ UNCHANGED ks

\* runBotStart takes the strategy, and the chain, of the started lifecycle.
StartAssign(c) ==
    /\ call[c].at = "assign"
    /\ bot' = [bot EXCEPT ![call[c].bot].strategy = TRUE,
                          ![call[c].bot].chain = call[c].bot \in Chained]
    /\ call' = [call EXCEPT ![c] = IdleCall]
    /\ UNCHANGED ks

\* No price, or no valid one.
StartFail(c) ==
    /\ call[c].at = "price"
    /\ bot' = [bot EXCEPT ![call[c].bot].status = "error"]
    /\ call' = [call EXCEPT ![c] = IdleCall]
    /\ UNCHANGED ks

Pause(b) ==
    /\ bot[b].status = "running"
    /\ bot' = [bot EXCEPT ![b] = Paused(bot[b])]
    /\ UNCHANGED <<ks, call>>

\* Mutant of Resume: the interval is not set again.
ResumeWithoutInterval(b) ==
    /\ TradingEnabled(ks)
    /\ ks' = Asked(ks)
    /\ bot' = IF bot[b].status = "paused"
              THEN [bot EXCEPT ![b].status = "running"] ELSE bot
    /\ UNCHANGED call

\* BotManager.resumeBot asks the killswitch first.
Resume(b) ==
    /\ TradingEnabled(ks)
    /\ ks' = Asked(ks)
    /\ bot' = IF bot[b].status = "paused"
              THEN [bot EXCEPT ![b].status = "running", ![b].ticking = TRUE]
              ELSE bot
    /\ UNCHANGED call

Stop(b) ==
    /\ bot' = [bot EXCEPT ![b] = Stopped(bot[b])]
    /\ UNCHANGED <<ks, call>>

----------------------------------------------------------------------------
(* Ticks, from the bot's interval or from the scheduler, and orders.       *)

\* tick() of a running bot, up to the ticker: strategy and chain are captured.
TickBegin(c, b) ==
    /\ call[c].at = "idle"
    /\ bot[b].status = "running"
    /\ TradingEnabled(ks)
    /\ ks' = Asked(ks)
    /\ call' = [call EXCEPT ![c] = [IdleCall EXCEPT !.at = "ticker", !.bot = b,
                                                    !.strategy = bot[b].strategy,
                                                    !.chain = bot[b].chain]]
    /\ UNCHANGED bot

\* tick() of a running bot when the killswitch is halted.
TickHalted(b) ==
    /\ bot[b].ticking
    /\ bot[b].status = "running"
    /\ ~TradingEnabled(ks)
    /\ bot' = [bot EXCEPT ![b] = Paused(bot[b])]
    /\ UNCHANGED <<ks, call>>

\* executeBotOrder up to its await: the order counter is captured here.
Ordering(b, at, strategy) ==
    [at |-> at, bot |-> b, strategy |-> strategy, chain |-> FALSE,
     counter |-> bot'[b].counter]

\* The rest of a tick: strategy.onTicker() sends orders in the calls of some
\* set, if the captured strategy is one and the killswitch agrees.
OnTicker(c, sent) ==
    /\ sent # {} => call[c].strategy /\ TradingEnabled(ks)
    /\ sent \subseteq {d \in Calls : call[d].at = "idle"}
    /\ ks' = IF sent # {} THEN Asked(ks) ELSE ks
    /\ call' = [d \in Calls |->
                   IF d \in sent THEN Ordering(call[c].bot, "order", FALSE)
                   ELSE IF d = c THEN IdleCall ELSE call[d]]

\* The ticker is there and the chain, if any, has no signal; or the killswitch
\* refuses its order.
TickStrategy(c, sent) ==
    /\ call[c].at = "ticker"
    /\ UNCHANGED bot
    /\ OnTicker(c, sent)

\* The chain signals, and its order is awaited before the strategy's turn.
TickChain(c) ==
    /\ call[c].at = "ticker"
    /\ call[c].chain
    /\ TradingEnabled(ks)
    /\ ks' = Asked(ks)
    /\ UNCHANGED bot
    /\ call' = [call EXCEPT ![c] = Ordering(call[c].bot, "chain", call[c].strategy)]

TickFail(c) ==
    /\ call[c].at = "ticker"
    /\ call' = [call EXCEPT ![c] = IdleCall]
    /\ UNCHANGED <<ks, bot>>

\* executeOrder after its await.  The loss that halts the killswitch stops every
\* bot before this order's own totals are written.
OrderFilled(c, pnl) ==
    LET b == call[c].bot
        risk == Filled(ks, pnl)
        stopped == AfterHalt(ks, risk, bot)
    IN  /\ call[c].at \in {"order", "chain"}
        /\ bot[b].trades < MaxTrades
        /\ ks' = PeakRaised(risk, Capital + bot[b].pnl + pnl)
        /\ bot' = [stopped EXCEPT ![b].trades = bot[b].trades + 1,
                                  ![b].pnl = bot[b].pnl + pnl]
        /\ call' = [call EXCEPT ![c].at = IF call[c].at = "chain"
                                          THEN "chained" ELSE "filled"]

\* runBotOrder writes back the counter it captured, plus one.
CounterWritten(c) ==
    bot' = [bot EXCEPT ![call[c].bot].counter = call[c].counter + 1]

OrderDone(c) ==
    /\ call[c].at = "filled"
    /\ CounterWritten(c)
    /\ call' = [call EXCEPT ![c] = IdleCall]
    /\ UNCHANGED ks

ChainDone(c, sent) ==
    /\ call[c].at = "chained"
    /\ CounterWritten(c)
    /\ OnTicker(c, sent)

\* The exchange throws: the strategy logs it.
OrderFail(c) ==
    /\ call[c].at = "order"
    /\ call' = [call EXCEPT ![c] = IdleCall]
    /\ UNCHANGED <<ks, bot>>

\* The exchange throws on the chain order: the tick goes on.
ChainFail(c, sent) ==
    /\ call[c].at = "chain"
    /\ UNCHANGED bot
    /\ OnTicker(c, sent)

----------------------------------------------------------------------------
(* The killswitch, by hand and by the clock.                               *)

ManualHalt ==
    /\ ~ks.halted
    /\ ks' = Halt(ks)
    /\ bot' = AfterHalt(ks, ks', bot)
    /\ UNCHANGED call

ManualResume ==
    /\ ks.halted
    /\ ks' = Lift(ks)
    /\ UNCHANGED <<bot, call>>

\* The scheduler's tick asks whether trading is enabled, which may lift a halt.
Poll ==
    /\ ks # Asked(ks)
    /\ ks' = Asked(ks)
    /\ UNCHANGED <<bot, call>>

Midnight ==
    /\ ks' = DayStarted(ks)
    /\ UNCHANGED <<bot, call>>

Clock ==
    /\ ks # Elapsed(ks)
    /\ ks' = Elapsed(ks)
    /\ UNCHANGED <<bot, call>>

Next ==
    \/ \E b \in Bots : Pause(b) \/ Resume(b) \/ Stop(b) \/ TickHalted(b)
    \/ \E c \in Calls, b \in Bots : StartBegin(c, b) \/ TickBegin(c, b)
    \/ \E c \in Calls : \/ StartOk(c) \/ StartAssign(c) \/ StartFail(c)
                        \/ TickChain(c) \/ TickFail(c)
                        \/ OrderDone(c) \/ OrderFail(c)
    \/ \E c \in Calls, sent \in SUBSET Calls :
          TickStrategy(c, sent) \/ ChainDone(c, sent) \/ ChainFail(c, sent)
    \/ \E c \in Calls, pnl \in Pnls : OrderFilled(c, pnl)
    \/ ManualHalt \/ ManualResume \/ Poll \/ Midnight \/ Clock

Spec == Init /\ [][Next]_vars

\* Time passes and the scheduler is called again and again.  Nothing makes an
\* exchange answer or an operator act.
FairSpec == Spec /\ WF_vars(Clock) /\ WF_vars(Poll)

----------------------------------------------------------------------------
(* Properties.                                                             *)

\* A running bot has its interval, however starts, pauses, resumes and halts
\* interleave, and a stopped or paused one has none: what the user is shown is
\* what the bot does.
StatusTellsTicking ==
    \A b \in Bots :
        /\ bot[b].status = "running" => bot[b].ticking
        /\ bot[b].status \in {"idle", "paused", "stopped"} => ~bot[b].ticking

\* Unless a halt was lifted in the middle of it, a streak of losses that
\* reaches the limit has trading halted.
StreakHalts == ~ks.halted /\ ~ks.lifted => ks.losses < MaxConsecutiveLosses

\* The step that halts leaves no bot running and no interval on, also when the
\* halting loss is one bot's and others are in the middle of their ticks.
HaltStopsAll ==
    [][ ~ks.halted /\ ks'.halted =>
          \A b \in Bots : bot'[b].status = "stopped" /\ ~bot'[b].ticking ]_vars

\* Every halt ends, the ones by hand included, as long as somebody asks.
HaltLifts == ks.halted ~> ~ks.halted

=============================================================================
