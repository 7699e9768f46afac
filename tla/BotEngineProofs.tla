-------------------------- MODULE BotEngineProofs ---------------------------
(***************************************************************************)
(* Theorems about BotEngine, for any number of bots and calls and any      *)
(* limits.  The killswitch lemmas say that each of its operators keeps the *)
(* part of the invariant that speaks of it; the bot lemmas do the same for *)
(* the controls; the step lemma puts them together.                        *)
(***************************************************************************)
EXTENDS BotEngine, TLAPS

\* What holds of the killswitch: its type, a deadline for every halt, and a
\* streak below the limit unless a halt was lifted in the middle of it.
KsInv(k) ==
    /\ k \in KillswitchState
    /\ k.halted => k.cooldown # None
    /\ ~k.halted /\ ~k.lifted => k.losses < MaxConsecutiveLosses

\* What holds of a bot.
BotInv(s) ==
    /\ s \in BotState
    /\ s.status = "running" => s.ticking
    /\ s.status \in {"idle", "paused", "stopped"} => ~s.ticking

\* What holds of all bots, of one call and of all calls.
BotsInv(bots) ==
    /\ bots = [b \in Bots |-> bots[b]]
    /\ \A b \in Bots : BotInv(bots[b])

CallInv(d) ==
    /\ d \in CallState
    /\ d.at # "idle" => d.bot \in Bots

CallsInv(calls) ==
    /\ calls = [c \in Calls |-> calls[c]]
    /\ \A c \in Calls : CallInv(calls[c])

IInv == KsInv(ks) /\ BotsInv(bot) /\ CallsInv(call)

\* A killswitch starts within the invariant.
LEMMA RegisteredKeeps == KsInv(Registered(Capital))
  BY LimitsAssumption, EngineAssumption DEF KsInv, KillswitchState, Registered

\* Halting keeps it: the halt has a deadline.
LEMMA HaltKeeps ==
    ASSUME NEW k, k \in KillswitchState, k.halted => k.cooldown # None
    PROVE  KsInv(Halt(k)) /\ Halt(k).halted
  <1> DEFINE new == [k EXCEPT !.halted = TRUE, !.cooldown = Cooldown]
  <1>1. Cooldown \in 0 .. Cooldown /\ Cooldown # None
    BY LimitsAssumption
  <1>2. new \in KillswitchState /\ new.halted /\ new.cooldown = Cooldown
    BY <1>1 DEF KillswitchState
  <1> HIDE DEF new
  <1>3. KsInv(new) /\ new.halted
    BY <1>1, <1>2 DEF KsInv
  <1>4. k.halted => KsInv(k)
    BY DEF KsInv
  <1>5. Halt(k) = IF k.halted THEN k ELSE new
    BY DEF Halt, new
  <1> QED BY <1>3, <1>4, <1>5

\* Lifting keeps it: the streak may be long, but lifted says so.
LEMMA LiftKeeps ==
    ASSUME NEW k, KsInv(k)
    PROVE  KsInv(Lift(k)) /\ ~Lift(k).halted
  BY LimitsAssumption DEF KsInv, KillswitchState, Lift

\* So does the question isTradingEnabled().
LEMMA AskedKeeps ==
    ASSUME NEW k, KsInv(k)
    PROVE  KsInv(Asked(k)) /\ (Asked(k).halted => k.halted)
  BY LiftKeeps DEF Asked

\* A fill keeps it: the loss that reaches the limit halts.
LEMMA FilledKeeps ==
    ASSUME NEW k, KsInv(k), NEW pnl \in Int
    PROVE  KsInv(Filled(k, pnl))
  <1> DEFINE counted == Counted(k, pnl)
  <1>a. /\ k.dailyPnl + pnl \in Int
        /\ (IF pnl < 0 THEN k.losses + 1 ELSE 0) \in Nat
        /\ (k.lifted /\ pnl < 0) \in BOOLEAN
    BY DEF KsInv, KillswitchState
  <1>b. counted \in KillswitchState
    BY <1>a DEF KsInv, KillswitchState, Counted
  <1>c. counted.halted = k.halted /\ counted.cooldown = k.cooldown
    BY DEF KsInv, KillswitchState, Counted
  <1>1. counted \in KillswitchState /\ (counted.halted => counted.cooldown # None)
    BY <1>b, <1>c DEF KsInv
  <1>2. /\ counted.losses = IF pnl < 0 THEN k.losses + 1 ELSE 0
        /\ counted.halted = k.halted
    BY DEF KsInv, KillswitchState, Counted
  <1>3. k.losses \in Nat
    BY DEF KsInv, KillswitchState
  <1>4. KsInv(Halt(counted))
    BY <1>1, HaltKeeps
  <1>5. ~StreakReached(counted, pnl) => KsInv(counted)
    BY <1>1, <1>2, <1>3, LimitsAssumption DEF KsInv, StreakReached
  <1> HIDE DEF counted
  <1> QED BY <1>4, <1>5 DEF Filled, counted

\* So does a new peak.
LEMMA PeakKeeps ==
    ASSUME NEW k, KsInv(k), NEW capital \in Int
    PROVE  KsInv(PeakRaised(k, capital)) /\ PeakRaised(k, capital).halted = k.halted
  BY DEF KsInv, KillswitchState, PeakRaised

\* And midnight, and time.
LEMMA DayKeeps ==
    ASSUME NEW k, KsInv(k)
    PROVE  KsInv(DayStarted(k)) /\ DayStarted(k).halted = k.halted
  <1> DEFINE new == DayStarted(k)
  <1>1. new \in KillswitchState
    BY DEF KsInv, KillswitchState, DayStarted, Registered
  <1>2. new.halted = k.halted /\ new.cooldown = k.cooldown /\ new.losses = 0
    BY DEF KsInv, KillswitchState, DayStarted, Registered
  <1> HIDE DEF new
  <1>3. KsInv(new)
    BY <1>1, <1>2, LimitsAssumption DEF KsInv
  <1> QED BY <1>2, <1>3 DEF new

LEMMA ElapsedKeeps ==
    ASSUME NEW k, KsInv(k)
    PROVE  KsInv(Elapsed(k)) /\ Elapsed(k).halted = k.halted
  BY LimitsAssumption DEF KsInv, KillswitchState, Elapsed

\* Stopping and pausing leave a bot at rest, with no interval.
LEMMA StoppedRests ==
    ASSUME NEW s, BotInv(s)
    PROVE  BotInv(Stopped(s)) /\ Stopped(s).status = "stopped" /\ ~Stopped(s).ticking
  BY DEF BotInv, BotState, Statuses, Stopped

LEMMA PausedRests ==
    ASSUME NEW s, BotInv(s)
    PROVE  BotInv(Paused(s))
  BY DEF BotInv, BotState, Statuses, Paused

\* The bots after a step that may have halted the killswitch.
LEMMA AfterHaltKeeps ==
    ASSUME NEW k, NEW l, NEW bots, BotsInv(bots)
    PROVE  /\ BotsInv(AfterHalt(k, l, bots))
           /\ ~k.halted /\ l.halted =>
                \A b \in Bots : /\ AfterHalt(k, l, bots)[b].status = "stopped"
                                /\ ~AfterHalt(k, l, bots)[b].ticking
  BY StoppedRests DEF AfterHalt, BotsInv

\* Replacing one bot, or one call, by one that satisfies the invariant.
LEMMA OneBot ==
    ASSUME NEW bots, BotsInv(bots), NEW b \in Bots, NEW s, BotInv(s)
    PROVE  BotsInv([bots EXCEPT ![b] = s])
  BY DEF BotsInv

LEMMA OneCall ==
    ASSUME NEW calls, CallsInv(calls), NEW c \in Calls, NEW d, CallInv(d)
    PROVE  CallsInv([calls EXCEPT ![c] = d])
  BY DEF CallsInv

LEMMA IdleIsCall == CallInv(IdleCall)
  BY DEF CallInv, CallState, IdleCall, Places

----------------------------------------------------------------------------
(* One lemma per kind of step.                                             *)

\* The steps of a start.
LEMMA StartSteps ==
    ASSUME IInv, NEW c \in Calls,
           \/ \E b \in Bots : StartBegin(c, b)
           \/ StartOk(c) \/ StartAssign(c) \/ StartFail(c)
    PROVE  IInv'
  <1>1. ASSUME NEW b \in Bots, StartBegin(c, b) PROVE IInv'
    <2> DEFINE new == [IdleCall EXCEPT !.at = "price", !.bot = b]
    <2>1. CallInv(new)
      BY DEF CallInv, CallState, IdleCall, Places
    <2>2. call' = [call EXCEPT ![c] = new] /\ ks' = ks /\ bot' = bot
      BY <1>1 DEF StartBegin
    <2> HIDE DEF new
    <2>3. CallsInv(call')
      BY <2>1, <2>2, OneCall DEF IInv
    <2> QED BY <2>2, <2>3 DEF IInv
  <1> DEFINE b == call[c].bot
  <1>2. CallInv(call[c])
    BY DEF IInv, CallsInv
  <1>3. call[c].at # "idle" => b \in Bots /\ BotInv(bot[b])
    BY <1>2 DEF IInv, BotsInv, CallInv
  <1>4. ASSUME NEW s, BotInv(s), b \in Bots, bot' = [bot EXCEPT ![b] = s],
               NEW d, CallInv(d), call' = [call EXCEPT ![c] = d], ks' = ks
        PROVE  IInv'
    <2> HIDE DEF b
    <2>1. BotsInv(bot')
      BY <1>4, OneBot DEF IInv
    <2>2. CallsInv(call')
      BY <1>4, OneCall DEF IInv
    <2> QED BY <1>4, <2>1, <2>2 DEF IInv
  <1>5. CASE StartOk(c)
    <2> DEFINE s == [bot[b] EXCEPT !.status = "running", !.ticking = TRUE]
    <2> DEFINE d == [call[c] EXCEPT !.at = "assign"]
    <2>1. b \in Bots /\ BotInv(bot[b])
      BY <1>3, <1>5 DEF StartOk
    <2>2. BotInv(s)
      BY <2>1 DEF BotInv, BotState, Statuses
    <2>3. CallInv(d)
      BY <1>2, <1>5 DEF CallInv, CallState, Places, StartOk
    <2>4. bot' = [bot EXCEPT ![b] = s]
      BY <1>5, <2>1 DEF StartOk
    <2>5. call' = [call EXCEPT ![c] = d] /\ ks' = ks
      BY <1>5 DEF StartOk
    <2> HIDE DEF s, d, b
    <2> QED BY <1>4, <2>1, <2>2, <2>3, <2>4, <2>5
  <1>6. CASE StartAssign(c)
    <2> DEFINE s == [bot[b] EXCEPT !.strategy = TRUE, !.chain = b \in Chained]
    <2>1. b \in Bots /\ BotInv(bot[b])
      BY <1>3, <1>6 DEF StartAssign
    <2>a. ASSUME NEW t, BotInv(t), NEW chain \in BOOLEAN
          PROVE  BotInv([t EXCEPT !.strategy = TRUE, !.chain = chain])
      BY <2>a DEF BotInv, BotState, Statuses
    <2>b. (b \in Chained) \in BOOLEAN
      OBVIOUS
    <2>2. BotInv(s)
      BY <2>1, <2>a, <2>b
    <2>3. bot' = [bot EXCEPT ![b] = s]
      BY <1>6, <2>1 DEF StartAssign
    <2>4. call' = [call EXCEPT ![c] = IdleCall] /\ ks' = ks
      BY <1>6 DEF StartAssign
    <2> HIDE DEF s, b
    <2> QED BY <1>4, <2>1, <2>2, <2>3, <2>4, IdleIsCall
  <1>7. CASE StartFail(c)
    <2> DEFINE s == [bot[b] EXCEPT !.status = "error"]
    <2>1. b \in Bots /\ BotInv(bot[b])
      BY <1>3, <1>7 DEF StartFail
    <2>2. BotInv(s)
      BY <2>1 DEF BotInv, BotState, Statuses
    <2>3. bot' = [bot EXCEPT ![b] = s]
      BY <1>7, <2>1 DEF StartFail
    <2>4. call' = [call EXCEPT ![c] = IdleCall] /\ ks' = ks
      BY <1>7 DEF StartFail
    <2> HIDE DEF s, b
    <2> QED BY <1>4, <2>1, <2>2, <2>3, <2>4, IdleIsCall
  <1> QED BY <1>1, <1>5, <1>6, <1>7

\* The controls of one bot, and the tick that pauses it.
LEMMA ControlSteps ==
    ASSUME IInv, NEW b \in Bots, Pause(b) \/ Resume(b) \/ Stop(b) \/ TickHalted(b)
    PROVE  IInv'
  <1>1. BotInv(bot[b])
    BY DEF IInv, BotsInv
  <1>2. ASSUME NEW s, BotInv(s), bot' = [bot EXCEPT ![b] = s], call' = call,
               KsInv(ks')
        PROVE  IInv'
    <2>1. BotsInv(bot')
      BY <1>2, OneBot DEF IInv
    <2> QED BY <1>2, <2>1 DEF IInv
  <1>3. CASE Pause(b) \/ TickHalted(b)
    <2>1. BotInv(Paused(bot[b]))
      BY <1>1, PausedRests
    <2>2. /\ bot' = [bot EXCEPT ![b] = Paused(bot[b])] /\ call' = call
          /\ KsInv(ks')
      BY <1>3 DEF Pause, TickHalted, IInv
    <2> QED BY <1>2, <2>1, <2>2
  <1>4. CASE Stop(b)
    <2>1. BotInv(Stopped(bot[b]))
      BY <1>1, StoppedRests
    <2>2. /\ bot' = [bot EXCEPT ![b] = Stopped(bot[b])] /\ call' = call
          /\ KsInv(ks')
      BY <1>4 DEF Stop, IInv
    <2> QED BY <1>2, <2>1, <2>2
  <1>5. CASE Resume(b)
    <2> DEFINE s == [bot[b] EXCEPT !.status = "running", !.ticking = TRUE]
    <2>1. KsInv(ks') /\ call' = call
      BY <1>5, AskedKeeps DEF Resume, IInv
    <2>2. BotInv(s)
      BY <1>1 DEF BotInv, BotState, Statuses
    <2>3. bot' = [bot EXCEPT ![b] = s] \/ bot' = bot
      BY <1>5 DEF Resume
    <2> HIDE DEF s
    <2>4. CASE bot' = bot
      BY <2>1, <2>4 DEF IInv
    <2> QED BY <1>2, <2>1, <2>2, <2>3, <2>4
  <1> QED BY <1>3, <1>4, <1>5

\* The killswitch by hand and by the clock.
LEMMA SwitchSteps ==
    ASSUME IInv, ManualHalt \/ ManualResume \/ Poll \/ Midnight \/ Clock
    PROVE  IInv'
  <1>1. KsInv(ks) /\ BotsInv(bot)
    BY DEF IInv
  <1>2. CASE ManualHalt
    <2>1. KsInv(Halt(ks))
      BY <1>1, HaltKeeps DEF KsInv
    <2>2. BotsInv(AfterHalt(ks, ks', bot))
      BY <1>1, AfterHaltKeeps
    <2> QED BY <1>2, <2>1, <2>2 DEF ManualHalt, IInv
  <1>3. CASE ManualResume
    BY <1>1, <1>3, LiftKeeps DEF ManualResume, IInv
  <1>4. CASE Poll
    BY <1>1, <1>4, AskedKeeps DEF Poll, IInv
  <1>5. CASE Midnight
    BY <1>1, <1>5, DayKeeps DEF Midnight, IInv
  <1>6. CASE Clock
    BY <1>1, <1>6, ElapsedKeeps DEF Clock, IInv
  <1> QED BY <1>2, <1>3, <1>4, <1>5, <1>6

\* A tick up to the ticker.
LEMMA TickBeginStep ==
    ASSUME IInv, NEW c \in Calls, NEW b \in Bots, TickBegin(c, b)
    PROVE  IInv'
  <1> DEFINE new == [IdleCall EXCEPT !.at = "ticker", !.bot = b,
                       !.strategy = bot[b].strategy, !.chain = bot[b].chain]
  <1>1. ASSUME NEW strategy \in BOOLEAN, NEW chain \in BOOLEAN
        PROVE  CallInv([IdleCall EXCEPT !.at = "ticker", !.bot = b,
                                        !.strategy = strategy, !.chain = chain])
    BY DEF CallInv, CallState, IdleCall, Places
  <1>2. bot[b].strategy \in BOOLEAN /\ bot[b].chain \in BOOLEAN
    BY DEF IInv, BotsInv, BotInv, BotState
  <1>3. CallInv(new)
    BY <1>1, <1>2
  <1>4. call' = [call EXCEPT ![c] = new] /\ bot' = bot
    BY DEF TickBegin
  <1>5. KsInv(ks')
    BY AskedKeeps DEF TickBegin, IInv
  <1> HIDE DEF new
  <1>6. CallsInv(call')
    BY <1>3, <1>4, OneCall DEF IInv
  <1> QED BY <1>4, <1>5, <1>6 DEF IInv

\* An order sent by a bot is a call.
LEMMA OrderingIsCall ==
    ASSUME NEW b \in Bots, BotsInv(bot'), NEW at \in Places, NEW strategy \in BOOLEAN
    PROVE  CallInv(Ordering(b, at, strategy))
  <1>1. bot'[b].counter \in Nat
    BY DEF BotsInv, BotInv, BotState
  <1> QED BY <1>1 DEF CallInv, CallState, Ordering

\* The strategy's turn keeps the killswitch and the calls.
LEMMA OnTickerKeeps ==
    ASSUME IInv, NEW c \in Calls, call[c].at # "idle", BotsInv(bot'),
           NEW sent, OnTicker(c, sent)
    PROVE  IInv'
  <1>1. call[c].bot \in Bots
    BY DEF IInv, CallsInv, CallInv
  <1>2. CallInv(Ordering(call[c].bot, "order", FALSE))
    BY <1>1, OrderingIsCall DEF Places
  <1>3. \A d \in Calls : CallInv(call[d])
    BY DEF IInv, CallsInv
  <1>4. CallsInv(call')
    BY <1>2, <1>3, IdleIsCall DEF OnTicker, CallsInv
  <1>5. KsInv(ks')
    BY AskedKeeps DEF OnTicker, IInv
  <1> QED BY <1>4, <1>5 DEF IInv

\* An order's counter is written back.
LEMMA CounterKeeps ==
    ASSUME IInv, NEW c \in Calls, call[c].at # "idle", CounterWritten(c)
    PROVE  BotsInv(bot')
  <1> DEFINE b == call[c].bot
  <1> DEFINE s == [bot[b] EXCEPT !.counter = call[c].counter + 1]
  <1>1. b \in Bots /\ BotInv(bot[b])
    BY DEF IInv, CallsInv, CallInv, BotsInv
  <1>2. call[c].counter + 1 \in Nat
    BY DEF IInv, CallsInv, CallInv, CallState
  <1>3. ASSUME NEW t, BotInv(t), NEW n \in Nat PROVE BotInv([t EXCEPT !.counter = n])
    BY <1>3 DEF BotInv, BotState
  <1>4. BotInv(s)
    BY <1>1, <1>2, <1>3
  <1>5. bot' = [bot EXCEPT ![b] = s]
    BY DEF CounterWritten
  <1> HIDE DEF s, b
  <1> QED BY <1>1, <1>4, <1>5, OneBot DEF IInv

\* The ticks and orders after their awaits, fills aside.
LEMMA CallSteps ==
    ASSUME IInv, NEW c \in Calls,
           \/ TickChain(c) \/ TickFail(c) \/ OrderDone(c) \/ OrderFail(c)
           \/ \E sent \in SUBSET Calls :
                 TickStrategy(c, sent) \/ ChainDone(c, sent) \/ ChainFail(c, sent)
    PROVE  IInv'
  <1>1. BotsInv(bot)
    BY DEF IInv
  <1>2. CASE TickChain(c)
    <2> DEFINE new == Ordering(call[c].bot, "chain", call[c].strategy)
    <2>1. call[c].bot \in Bots /\ call[c].strategy \in BOOLEAN
      BY <1>2 DEF IInv, CallsInv, CallInv, CallState, TickChain
    <2>2. call' = [call EXCEPT ![c] = new] /\ bot' = bot /\ ks' = Asked(ks)
      BY <1>2 DEF TickChain
    <2>3. CallInv(new)
      BY <1>1, <2>1, <2>2, OrderingIsCall DEF Places
    <2> HIDE DEF new
    <2>4. CallsInv(call')
      BY <2>2, <2>3, OneCall DEF IInv
    <2> QED BY <2>2, <2>4, AskedKeeps DEF IInv
  <1>3. CASE TickFail(c) \/ OrderFail(c)
    <2>1. call' = [call EXCEPT ![c] = IdleCall] /\ bot' = bot /\ ks' = ks
      BY <1>3 DEF TickFail, OrderFail
    <2>2. CallsInv(call')
      BY <2>1, IdleIsCall, OneCall DEF IInv
    <2> QED BY <2>1, <2>2 DEF IInv
  <1>4. CASE OrderDone(c)
    <2>1. call[c].at # "idle" /\ call' = [call EXCEPT ![c] = IdleCall] /\ ks' = ks
      BY <1>4 DEF OrderDone
    <2>2. CallsInv(call')
      BY <2>1, IdleIsCall, OneCall DEF IInv
    <2>3. BotsInv(bot')
      BY <1>4, <2>1, CounterKeeps DEF OrderDone
    <2> QED BY <2>1, <2>2, <2>3 DEF IInv
  <1>5. ASSUME NEW sent \in SUBSET Calls,
               TickStrategy(c, sent) \/ ChainDone(c, sent) \/ ChainFail(c, sent)
        PROVE  IInv'
    <2>1. call[c].at # "idle" /\ OnTicker(c, sent)
      BY <1>5 DEF TickStrategy, ChainDone, ChainFail
    <2>2. BotsInv(bot')
      BY <1>1, <1>5, <2>1, CounterKeeps DEF TickStrategy, ChainDone, ChainFail
    <2> QED BY <2>1, <2>2, OnTickerKeeps
  <1> QED BY <1>2, <1>3, <1>4, <1>5

\* A fill: it may halt the killswitch and stop all bots.
LEMMA FilledStep ==
    ASSUME IInv, NEW c \in Calls, NEW pnl \in Pnls, OrderFilled(c, pnl)
    PROVE  /\ IInv'
           /\ ~ks.halted /\ ks'.halted =>
                \A x \in Bots : bot'[x].status = "stopped" /\ ~bot'[x].ticking
  <1> DEFINE b == call[c].bot
  <1> DEFINE risk == Filled(ks, pnl)
  <1> DEFINE stopped == AfterHalt(ks, risk, bot)
  <1> DEFINE s == [stopped[b] EXCEPT !.trades = bot[b].trades + 1,
                                     !.pnl = bot[b].pnl + pnl]
  <1> DEFINE d == [call[c] EXCEPT !.at = IF call[c].at = "chain"
                                         THEN "chained" ELSE "filled"]
  <1>1. call[c].at \in {"order", "chain"} /\ CallInv(call[c])
    BY DEF OrderFilled, IInv, CallsInv
  <1>2. b \in Bots /\ BotInv(bot[b])
    BY <1>1 DEF IInv, BotsInv, CallInv
  <1>3. pnl \in Int /\ bot[b].trades + 1 \in Nat /\ bot[b].pnl + pnl \in Int
    BY <1>2, EngineAssumption DEF BotInv, BotState
  <1>4. KsInv(ks') /\ ks'.halted = risk.halted
    <2>1. KsInv(risk)
      BY <1>3, FilledKeeps DEF IInv
    <2>2. Capital + bot[b].pnl + pnl \in Int
      BY <1>2, <1>3, EngineAssumption DEF BotInv, BotState
    <2>3. ks' = PeakRaised(risk, Capital + bot[b].pnl + pnl)
      BY DEF OrderFilled
    <2> HIDE DEF risk, b
    <2> QED BY <2>1, <2>2, <2>3, PeakKeeps
  <1>5. /\ BotsInv(stopped)
        /\ ~ks.halted /\ risk.halted =>
              \A x \in Bots : stopped[x].status = "stopped" /\ ~stopped[x].ticking
    BY AfterHaltKeeps DEF IInv
  <1>6. ASSUME NEW t, BotInv(t), NEW n \in Nat, NEW p \in Int
        PROVE  LET u == [t EXCEPT !.trades = n, !.pnl = p]
               IN  BotInv(u) /\ u.status = t.status /\ u.ticking = t.ticking
    BY <1>6 DEF BotInv, BotState
  <1>7. BotInv(s) /\ s.status = stopped[b].status /\ s.ticking = stopped[b].ticking
    BY <1>2, <1>3, <1>5, <1>6 DEF BotsInv
  <1>8. CallInv(d)
    BY <1>1 DEF CallInv, CallState, Places
  <1>9. bot' = [stopped EXCEPT ![b] = s] /\ call' = [call EXCEPT ![c] = d]
    BY DEF OrderFilled
  <1> HIDE DEF s, d, b, stopped, risk
  <1>10. BotsInv(bot')
    BY <1>2, <1>5, <1>7, <1>9, OneBot
  <1>11. CallsInv(call')
    BY <1>8, <1>9, OneCall DEF IInv
  <1>12. ASSUME ~ks.halted, ks'.halted, NEW x \in Bots
         PROVE  bot'[x].status = "stopped" /\ ~bot'[x].ticking
    BY <1>2, <1>4, <1>5, <1>7, <1>9, <1>12 DEF BotsInv
  <1> QED BY <1>4, <1>10, <1>11, <1>12 DEF IInv

----------------------------------------------------------------------------
(* The invariant and the theorems.                                         *)

LEMMA InitKeeps == Init => IInv
  <1> SUFFICES ASSUME Init PROVE IInv
    OBVIOUS
  <1>1. KsInv(ks)
    BY RegisteredKeeps DEF Init
  <1>2. BotsInv(bot)
    BY DEF Init, BotsInv, BotInv, BotState, Statuses
  <1>3. CallsInv(call)
    BY IdleIsCall DEF Init, CallsInv
  <1> QED BY <1>1, <1>2, <1>3 DEF IInv

LEMMA StepKeeps == IInv /\ [Next]_vars => IInv'
  <1> SUFFICES ASSUME IInv, [Next]_vars PROVE IInv'
    OBVIOUS
  <1>1. CASE UNCHANGED vars
    BY <1>1 DEF vars, IInv
  <1>2. CASE Next
    BY <1>2, ControlSteps, StartSteps, TickBeginStep, CallSteps, FilledStep, SwitchSteps
      DEF Next
  <1> QED BY <1>1, <1>2

LEMMA Inductive == Spec => []IInv
  BY InitKeeps, StepKeeps, PTL DEF Spec

\* The bots, the calls and the killswitch keep their types, for any number of
\* bots and calls.
THEOREM TypeCorrect == Spec => []TypeOK
  <1>1. IInv => TypeOK
    BY DEF IInv, KsInv, BotsInv, BotInv, CallsInv, CallInv, TypeOK
  <1> QED BY <1>1, Inductive, PTL

\* A running bot has its interval, and a bot at rest has none, however starts,
\* ticks, halts and fills of any number of bots interleave.
THEOREM StatusMeansTicking == Spec => []StatusTellsTicking
  <1>1. IInv => StatusTellsTicking
    BY DEF IInv, BotsInv, BotInv, StatusTellsTicking
  <1> QED BY <1>1, Inductive, PTL

\* A streak of losses halts trading whatever the limit and the fills.
THEOREM LossStreakHalts == Spec => []StreakHalts
  <1>1. IInv => StreakHalts
    BY DEF IInv, KsInv, StreakHalts
  <1> QED BY <1>1, Inductive, PTL

\* No step but a fill and the operator's halts the killswitch, and both stop
\* every bot within the step.
THEOREM EveryHaltStopsAll == Spec => HaltStopsAll
  <1> DEFINE AllStopped == \A b \in Bots : bot'[b].status = "stopped" /\ ~bot'[b].ticking
  <1>1. IInv /\ [Next]_vars => (~ks.halted /\ ks'.halted => AllStopped)
    <2> SUFFICES ASSUME IInv, [Next]_vars, ~ks.halted, ks'.halted PROVE AllStopped
      OBVIOUS
    <2>1. KsInv(ks)
      BY DEF IInv
    <2>2. Next
      BY DEF vars
    <2>3. ks' # ks /\ ks' # Asked(ks) /\ ks' # Lift(ks) /\ ks' # DayStarted(ks)
          /\ ks' # Elapsed(ks)
      BY <2>1, AskedKeeps, LiftKeeps, DayKeeps, ElapsedKeeps
    <2>4. ASSUME NEW c \in Calls, NEW sent, OnTicker(c, sent) PROVE FALSE
      BY <2>3, <2>4 DEF OnTicker
    <2>5. CASE ManualHalt
      BY <2>5, AfterHaltKeeps DEF ManualHalt, IInv
    <2>6. ASSUME NEW c \in Calls, NEW pnl \in Pnls, OrderFilled(c, pnl) PROVE AllStopped
      BY <2>6, FilledStep
    <2>7. ~(ManualResume \/ Poll \/ Midnight \/ Clock)
      BY <2>3 DEF ManualResume, Poll, Midnight, Clock
    <2>8. ASSUME NEW b \in Bots, Pause(b) \/ Resume(b) \/ Stop(b) \/ TickHalted(b)
          PROVE  FALSE
      BY <2>3, <2>8 DEF Pause, Resume, Stop, TickHalted
    <2>9. ASSUME NEW c \in Calls, NEW b \in Bots, StartBegin(c, b) \/ TickBegin(c, b)
          PROVE  FALSE
      BY <2>3, <2>9 DEF StartBegin, TickBegin
    <2>10. ASSUME NEW c \in Calls,
                  \/ StartOk(c) \/ StartAssign(c) \/ StartFail(c)
                  \/ TickChain(c) \/ TickFail(c) \/ OrderDone(c) \/ OrderFail(c)
           PROVE  FALSE
      BY <2>3, <2>10
        DEF StartOk, StartAssign, StartFail, TickChain, TickFail, OrderDone, OrderFail
    <2>11. ASSUME NEW c \in Calls, NEW sent \in SUBSET Calls,
                  TickStrategy(c, sent) \/ ChainDone(c, sent) \/ ChainFail(c, sent)
           PROVE  FALSE
      BY <2>4, <2>11 DEF TickStrategy, ChainDone, ChainFail
    <2> QED BY <2>2, <2>5, <2>6, <2>7, <2>8, <2>9, <2>10, <2>11 DEF Next
  <1>2. IInv /\ [Next]_vars => [~ks.halted /\ ks'.halted => AllStopped]_vars
    BY <1>1
  <1> QED BY <1>2, Inductive, PTL DEF Spec, HaltStopsAll
=============================================================================
