------------------------------ MODULE BotFleet ------------------------------
(***************************************************************************)
(* The bots of one isolate as the manager keeps them: the rows in D1, the  *)
(* instances in memory, the cache of 30 s between them, and who asks for   *)
(* them: control requests and the scheduler (tree/bot/bot-manager-*.ts,    *)
(* forest/bot/scheduler*.ts).                                              *)
(*                                                                         *)
(* What a tick or a start does inside an instance is BotEngine's matter;   *)
(* here a tick is one step (one that ends after a control repeats what the *)
(* control reported), and a start waits for its price.  A row is read when *)
(* it is asked for, and its answer comes later.  A status goes to D1 in a  *)
(* write nobody awaits: it may be lost, and a later one may overtake it.   *)
(* Production's manager has no user, so a bot created through the API gets *)
(* no row.                                                                 *)
(***************************************************************************)
EXTENDS Naturals, Sequences, FiniteSets

CONSTANTS
    Bots,
    Requests,   \* the control requests that may be in flight at once
    MaxMade,    \* bound: the instances made of one bot in one isolate
    MaxWrites   \* bound: the status writes of one bot on their way to D1

ASSUME FleetAssumption == Bots # {} /\ MaxMade \in Nat /\ MaxWrites \in Nat

VARIABLES
    row,        \* the status of each bot's row in D1
    writes,     \* the status writes of each bot on their way to D1
    instances,  \* the instances made of each bot, the oldest first
    cached,     \* the instance the cache holds, 0 when it holds none
    expired,    \* the cache's entry is older than 30 s
    halted,     \* the manager's killswitch
    request,    \* the control requests
    round,      \* the scheduler's round
    evicted,    \* history: the instances that left the cache for their age
    faithful,   \* history: no write was lost or overtaken, no stale row restored
    stopHolds   \* history: the user stopped the bot, and nothing since ran it again

memory == <<instances, cached, expired, evicted>>
disk == <<row, writes>>
history == <<faithful, stopHolds>>
vars == <<row, writes, instances, cached, expired, halted, request, round,
          evicted, faithful, stopHolds>>

Statuses == {"idle", "running", "paused", "stopped", "error"}
D1Statuses == {"draft", "paper_test", "live_running", "paused", "stopped", "error"}
NoRow == "no row"
Ops == {"stop", "pause", "resume"}
Instance == [status : Statuses, ticking : BOOLEAN, strategy : BOOLEAN]

\* Mutants of ToD1Status: the status is written as it is; a paused bot is written as a stopped one.
ToD1StatusRaw(s) == s
ToD1StatusLosingPause(s) ==
    CASE s = "running" -> "paper_test"
      [] s = "idle" -> "draft"
      [] s = "paused" -> "stopped"
      [] OTHER -> s
ToD1Status(s) ==
    CASE s = "running" -> "paper_test"
      [] s = "idle" -> "draft"
      [] OTHER -> s

ToBotStatus(s) ==
    CASE s \in {"paper_test", "live_running"} -> "running"
      [] s = "draft" -> "idle"
      [] OTHER -> s

Fresh == [status |-> "idle", ticking |-> FALSE, strategy |-> FALSE]
\* restoreBotStateFromRow: the status alone; no interval, no strategy.
Restored(s) == [Fresh EXCEPT !.status = ToBotStatus(s)]

IdleRequest == [at |-> "idle", op |-> "stop", bot |-> CHOOSE b \in Bots : TRUE,
                made |-> 0, row |-> NoRow]
IdleRound == [at |-> "idle", rows |-> [b \in Bots |-> NoRow], list |-> {}, todo |-> {},
              now |-> <<CHOOSE b \in Bots : TRUE, 0>>]

TypeOK ==
    /\ row \in [Bots -> D1Statuses \cup {NoRow}]
    /\ writes \in [Bots -> Seq(D1Statuses)]
    /\ instances \in [Bots -> Seq(Instance)]
    /\ cached \in [Bots -> Nat]
    /\ \A b \in Bots : cached[b] <= Len(instances[b]) /\ evicted[b] \subseteq 1..Len(instances[b])
    /\ expired \in [Bots -> BOOLEAN]
    /\ halted \in BOOLEAN
    /\ request \in [Requests -> [at : {"idle", "answered", "price"},
                                 op : Ops, bot : Bots, made : Nat,
                                 row : D1Statuses \cup {NoRow}]]
    /\ round \in [at : {"idle", "answered", "restart", "price", "ticks"},
                  rows : [Bots -> D1Statuses \cup {NoRow}],
                  list : SUBSET (Bots \X Nat), todo : SUBSET (Bots \X Nat),
                  now : Bots \X Nat]
    /\ faithful \in [Bots -> BOOLEAN]
    /\ stopHolds \in [Bots -> BOOLEAN]

\* A row is what an earlier life of the program left.
Init ==
    /\ row \in [Bots -> {"paper_test", "stopped", NoRow}]
    /\ writes = [b \in Bots |-> <<>>]
    /\ instances = [b \in Bots |-> <<>>]
    /\ cached = [b \in Bots |-> 0]
    /\ expired = [b \in Bots |-> FALSE]
    /\ halted = FALSE
    /\ request = [r \in Requests |-> IdleRequest]
    /\ round = IdleRound
    /\ evicted = [b \in Bots |-> {}]
    /\ faithful = [b \in Bots |-> TRUE]
    /\ stopHolds = [b \in Bots |-> FALSE]

----------------------------------------------------------------------------
(* D1.                                                                     *)

\* emitState: the row of the bot, if there is one, is told its status.
Told(ws, b, status) ==
    IF row[b] = NoRow THEN ws ELSE [ws EXCEPT ![b] = Append(@, ToD1Status(status))]
HasRoom(b) == Len(writes[b]) < MaxWrites

Removed(s, i) == SubSeq(s, 1, i - 1) \o SubSeq(s, i + 1, Len(s))

\* A write arrives; it may have overtaken an earlier one.
WriteArrives(b) ==
    /\ \E i \in 1..Len(writes[b]) :
        /\ row' = [row EXCEPT ![b] = writes[b][i]]
        /\ writes' = [writes EXCEPT ![b] = Removed(@, i)]
        /\ faithful' = [faithful EXCEPT ![b] = @ /\ i = 1]
    /\ UNCHANGED <<memory, halted, request, round, stopHolds>>

\* patchBot's error is logged, and that is all.
WriteFails(b) ==
    /\ \E i \in 1..Len(writes[b]) : writes' = [writes EXCEPT ![b] = Removed(@, i)]
    /\ faithful' = [faithful EXCEPT ![b] = FALSE]
    /\ UNCHANGED <<row, memory, halted, request, round, stopHolds>>

----------------------------------------------------------------------------
(* The cache.                                                              *)

EntryExpires(b) ==
    /\ cached[b] # 0 /\ ~expired[b]
    /\ expired' = [expired EXCEPT ![b] = TRUE]
    /\ UNCHANGED <<disk, instances, cached, halted, request, round, evicted, history>>

\* BotManagerCacheState.get finds an entry only while it is young.
Hit(b) == cached[b] # 0 /\ ~expired[b]

\* ... and deletes an old one; its instance is not stopped.
Evicted(b) ==
    /\ cached' = [cached EXCEPT ![b] = IF expired[b] THEN 0 ELSE @]
    /\ expired' = [expired EXCEPT ![b] = FALSE]
    /\ evicted' = [evicted EXCEPT ![b] = IF expired[b] THEN @ \cup {cached[b]} ELSE @]

\* Mutant of Vacant: nobody looks whether the bot was made in the meantime.
VacantUnasked(b) == TRUE
\* createBot refuses a bot the cache holds, however old its entry.
Vacant(b) == cached[b] = 0

\* Each bot of bs gets the instance made[b], from the row read in rows[b].
Hydrate(bs, rows, made) ==
    /\ \A b \in bs : Len(instances[b]) < MaxMade
    /\ instances' = [b \in Bots |-> IF b \in bs THEN Append(instances[b], made[b])
                                                ELSE instances[b]]
    /\ evicted' = [b \in Bots |-> IF b \in bs /\ expired[b] THEN evicted[b] \cup {cached[b]}
                                                            ELSE evicted[b]]
    /\ cached' = [b \in Bots |-> IF b \in bs THEN Len(instances[b]) + 1 ELSE cached[b]]
    /\ expired' = [b \in Bots |-> expired[b] /\ b \notin bs]
    /\ faithful' = [b \in Bots |->
            IF b \notin bs THEN faithful[b]
            ELSE row[b] = rows[b] /\ writes[b] = <<>> /\ evicted'[b] = {}]

\* botCreateHandler: the client names the bot, no row is written.
Create(b) ==
    /\ Vacant(b)
    /\ Hydrate({b}, [c \in Bots |-> "draft"], [c \in Bots |-> Fresh])
    /\ UNCHANGED <<disk, halted, request, round, stopHolds>>

----------------------------------------------------------------------------
(* Control requests.                                                       *)

Running(s) == s \in {"paper_test", "live_running"}

Stopped(s) == [s EXCEPT !.status = "stopped", !.strategy = FALSE,
                        !.ticking = s.ticking /\ s.status = "stopped"]
Paused(s) ==
    IF s.status = "running" THEN [s EXCEPT !.status = "paused", !.ticking = FALSE] ELSE s
Resumed(s) ==
    IF s.status = "paused" /\ ~halted THEN [s EXCEPT !.status = "running", !.ticking = TRUE]
                                      ELSE s
Acted(op, s) ==
    CASE op = "stop" -> Stopped(s)
      [] op = "pause" -> Paused(s)
      [] op = "resume" -> Resumed(s)
      [] OTHER -> s

\* A control reports the status it changed, and no other.
Reported(ws, b, before, after) ==
    IF before.status = after.status THEN ws ELSE Told(ws, b, after.status)

\* Somebody else may still run bot b after its instance g was stopped.
Contested(b, g) ==
    \/ \E h \in 1..Len(instances[b]) : h # g /\ instances[b][h].ticking
    \/ \E r \in Requests : request[r].at = "price" /\ request[r].bot = b
    \/ round.rows[b] # NoRow
    \/ \E i \in round.list : i[1] = b

Asked(op, b, g, changed) ==
    stopHolds' = [stopHolds EXCEPT ![b] =
        IF op = "stop" THEN ~Contested(b, g) ELSE @ /\ ~changed]

\* manager.getBot finds the bot: the control acts at once.
RequestHit(op, b) ==
    /\ Hit(b) /\ HasRoom(b)
    /\ LET g == cached[b]
           s == instances[b][g]
       IN  /\ instances' = [instances EXCEPT ![b][g] = Acted(op, s)]
           /\ writes' = Reported(writes, b, s, Acted(op, s))
           /\ Asked(op, b, g, Acted(op, s).status # s.status)
    /\ UNCHANGED <<row, cached, expired, evicted, halted, request, round, faithful>>

\* It does not: getOrCreateBot asks D1 for the row; without one there is no bot.
RequestMiss(r, op, b) ==
    /\ request[r].at = "idle"
    /\ ~Hit(b)
    /\ Evicted(b)
    /\ request' = [request EXCEPT ![r] =
            IF row[b] = NoRow THEN IdleRequest
            ELSE [IdleRequest EXCEPT !.at = "answered", !.op = op, !.bot = b, !.row = row[b]]]
    /\ faithful' = [faithful EXCEPT ![b] = FALSE]
    /\ UNCHANGED <<disk, instances, halted, round, stopHolds>>

\* D1 fails, or another request made the bot in the meantime, which createBot
\* refuses: this request finds no bot.
RequestRefused(r) ==
    /\ request[r].at = "answered"
    /\ request' = [request EXCEPT ![r] = IdleRequest]
    /\ UNCHANGED <<disk, memory, halted, round, history>>

\* The row is there: the bot is made, restored and told, without a pause.
RequestServed(r) ==
    LET b == request[r].bot
        s == Restored(request[r].row)
        t == Acted(request[r].op, s)
    IN  /\ request[r].at = "answered"
        /\ Vacant(b) /\ HasRoom(b)
        /\ Hydrate({b}, [c \in Bots |-> request[r].row], [c \in Bots |-> t])
        /\ writes' = Reported(writes, b, s, t)
        /\ Asked(request[r].op, b, Len(instances[b]) + 1, s # t)
        /\ request' = [request EXCEPT ![r] = IdleRequest]
        /\ UNCHANGED <<row, halted, round>>

\* botActionStart, of a bot the cache holds; a running bot is left alone.
StartBegin(r, b) ==
    /\ request[r].at = "idle"
    /\ Hit(b) /\ instances[b][cached[b]].status # "running"
    /\ request' = [request EXCEPT ![r] =
            [IdleRequest EXCEPT !.at = "price", !.bot = b, !.made = cached[b]]]
    /\ stopHolds' = [stopHolds EXCEPT ![b] = FALSE]
    /\ UNCHANGED <<disk, memory, halted, round, faithful>>

Started(b, g) ==
    /\ HasRoom(b)
    /\ instances' = [instances EXCEPT ![b][g] =
            [@ EXCEPT !.status = "running", !.ticking = TRUE, !.strategy = TRUE]]
    /\ writes' = Told(writes, b, "running")
Failed(b, g) ==
    /\ HasRoom(b)
    /\ instances' = [instances EXCEPT ![b][g].status = "error"]
    /\ writes' = Told(writes, b, "error")

StartEnds(r) ==
    /\ request[r].at = "price"
    /\ Started(request[r].bot, request[r].made) \/ Failed(request[r].bot, request[r].made)
    /\ request' = [request EXCEPT ![r] = IdleRequest]
    /\ UNCHANGED <<row, cached, expired, evicted, halted, round, history>>

----------------------------------------------------------------------------
(* Ticks.                                                                  *)

\* tick() of a running bot reports its status, or fails and reports none; in a
\* halt it pauses the bot.
TickOf(b, g) ==
    LET s == instances[b][g]
        t == IF halted THEN Paused(s) ELSE s
    IN  /\ HasRoom(b)
        /\ instances' = [instances EXCEPT ![b][g] = t]
        /\ \/ s.status # "running" /\ writes' = writes
           \/ s.status = "running" /\ writes' = Told(writes, b, t.status)
           \/ s.status = "running" /\ ~halted /\ writes' = writes

IntervalFires(b) ==
    /\ \E g \in 1..Len(instances[b]) : instances[b][g].ticking /\ TickOf(b, g)
    /\ UNCHANGED <<row, cached, expired, evicted, halted, request, round, history>>

----------------------------------------------------------------------------
(* The scheduler's round.                                                  *)

\* Mutant of RunningRows: the round takes every bot that has a row.
AllRows == row
\* getRunningBots: the rows that say running, and none for the other bots.
RunningRows == [b \in Bots |-> IF Running(row[b]) THEN row[b] ELSE NoRow]

\* A round that takes a bot the user stopped undoes the stop.
Taken(bs) == stopHolds' = [b \in Bots |-> stopHolds[b] /\ b \notin bs]

RoundBegins ==
    /\ round.at = "idle" /\ ~halted
    /\ round' = [IdleRound EXCEPT !.at = "answered", !.rows = RunningRows]
    /\ Taken({b \in Bots : Running(row[b])})
    /\ UNCHANGED <<disk, memory, halted, request, faithful>>

RoundHydrates ==
    LET bs == {b \in Bots : round.rows[b] # NoRow}
    IN  /\ round.at = "answered"
        /\ Hydrate({b \in bs : ~Hit(b)}, round.rows,
                   [b \in Bots |-> Restored(round.rows[b])])
        /\ LET list == {<<b, cached'[b]>> : b \in bs}
           IN  round' = [IdleRound EXCEPT !.at = "restart", !.list = list, !.todo = list]
        /\ UNCHANGED <<disk, halted, request, stopHolds>>

\* D1 does not answer: the running bots of the cache.
RoundFallsBack ==
    LET bs == {b \in Bots : Hit(b) /\ instances[b][cached[b]].status = "running"}
        list == {<<b, cached[b]>> : b \in bs}
    IN  /\ round.at = "answered"
        /\ round' = [IdleRound EXCEPT !.at = "restart", !.list = list, !.todo = list]
        /\ Taken(bs)
        /\ UNCHANGED <<disk, memory, halted, request, faithful>>

\* autoRestartBotIfNeeded, bot after bot: start() for the ones without a
\* strategy, which leaves a bot alone whose status is running.
RoundRestarts ==
    /\ round.at = "restart"
    /\ \E i \in round.todo :
        LET s == instances[i[1]][i[2]]
        IN  round' = IF s.strategy \/ s.status = "running"
                     THEN [round EXCEPT !.todo = @ \ {i}]
                     ELSE [round EXCEPT !.at = "price", !.todo = @ \ {i}, !.now = i]
    /\ UNCHANGED <<disk, memory, halted, request, history>>

RoundStartEnds ==
    /\ round.at = "price"
    /\ Started(round.now[1], round.now[2]) \/ Failed(round.now[1], round.now[2])
    /\ round' = [round EXCEPT !.at = "restart", !.now = IdleRound.now]
    /\ UNCHANGED <<row, cached, expired, evicted, halted, request, history>>

RoundGoesOn ==
    /\ round.at = "restart" /\ round.todo = {}
    /\ round' = [round EXCEPT !.at = "ticks", !.todo = round.list]
    /\ UNCHANGED <<disk, memory, halted, request, history>>

RoundTicks ==
    /\ round.at = "ticks"
    /\ \E i \in round.todo :
        /\ TickOf(i[1], i[2])
        /\ round' = [round EXCEPT !.todo = @ \ {i}]
    /\ UNCHANGED <<row, cached, expired, evicted, halted, request, history>>

RoundEnds ==
    /\ round.at = "ticks" /\ round.todo = {}
    /\ round' = IdleRound
    /\ UNCHANGED <<disk, memory, halted, request, history>>

----------------------------------------------------------------------------
(* The killswitch, and the isolate.                                        *)

\* By hand or by a loss: every instance the map holds is stopped, expired or not.
Halt ==
    LET held == {b \in Bots : cached[b] # 0}
        told == {b \in held : instances[b][cached[b]].status # "stopped"}
    IN  /\ ~halted
        /\ \A b \in told : HasRoom(b)
        /\ halted' = TRUE
        /\ instances' = [b \in Bots |->
                IF b \in held THEN [instances[b] EXCEPT ![cached[b]] = Stopped(@)]
                              ELSE instances[b]]
        /\ writes' = [b \in Bots |-> IF b \in told THEN Told(writes, b, "stopped")[b]
                                                   ELSE writes[b]]
        /\ UNCHANGED <<row, cached, expired, evicted, request, round, history>>

Lift ==
    /\ halted
    /\ halted' = FALSE
    /\ UNCHANGED <<disk, memory, request, round, history>>

\* A new isolate: the memory is gone, the halt with it; writes that were sent
\* may still arrive.
ColdStart ==
    /\ instances' = [b \in Bots |-> <<>>]
    /\ cached' = [b \in Bots |-> 0]
    /\ expired' = [b \in Bots |-> FALSE]
    /\ evicted' = [b \in Bots |-> {}]
    /\ halted' = FALSE
    /\ request' = [r \in Requests |-> IdleRequest]
    /\ round' = IdleRound
    /\ faithful' = [b \in Bots |-> FALSE]
    /\ UNCHANGED <<disk, stopHolds>>

----------------------------------------------------------------------------
Request(r) ==
    \/ \E b \in Bots : StartBegin(r, b) \/ \E op \in Ops : RequestMiss(r, op, b)
    \/ RequestServed(r) \/ RequestRefused(r) \/ StartEnds(r)

Round ==
    \/ RoundBegins \/ RoundHydrates \/ RoundFallsBack
    \/ RoundRestarts \/ RoundStartEnds \/ RoundGoesOn \/ RoundTicks \/ RoundEnds

Next ==
    \/ \E b \in Bots :
        \/ WriteArrives(b) \/ WriteFails(b)
        \/ EntryExpires(b) \/ Create(b)
        \/ \E op \in Ops : RequestHit(op, b)
        \/ IntervalFires(b)
    \/ \E r \in Requests : Request(r)
    \/ Round
    \/ Halt \/ Lift \/ ColdStart

Spec == Init /\ [][Next]_vars

----------------------------------------------------------------------------
(* Properties.                                                             *)

\* However requests and rounds interleave at their reads of D1, an instance
\* leaves the cache by its age only: no second one replaces a young one.
OnlyAgeReplaces ==
    \A b \in Bots : \A g \in 1..Len(instances[b]) :
        g = cached[b] \/ g \in evicted[b]

\* When every write of a bot arrived, in order, and no older instance of it is
\* left, its row says the status its instance has.
RowTellsTheBot ==
    \A b \in Bots :
        (/\ cached[b] # 0 /\ row[b] # NoRow
         /\ faithful[b] /\ writes[b] = <<>> /\ evicted[b] = {})
        => ToBotStatus(row[b]) = instances[b][cached[b]].status

\* A bot the user stopped, while nobody else was running it, has no interval
\* until the user asks for it or a round reads a row that still says running:
\* not through a cold start, an expired entry or a restored row.
StopSticks ==
    \A b \in Bots : stopHolds[b] =>
        \A g \in 1..Len(instances[b]) : ~instances[b][g].ticking
=============================================================================
