--------------------------- MODULE BotFleetProofs ---------------------------
(***************************************************************************)
(* The invariants of BotFleet, for any bots, requests and bounds: one      *)
(* inductive invariant, kept by every action, one lemma per action.        *)
(***************************************************************************)
EXTENDS BotFleet, Integers, TLAPS

----------------------------------------------------------------------------
(* The inductive invariant, part by part.                                  *)

\* The instances and the cache; an instance that was stopped does not tick.
MemInv ==
    /\ instances \in [Bots -> Seq(Instance)]
    /\ cached \in [Bots -> Nat]
    /\ expired \in [Bots -> BOOLEAN]
    /\ evicted \in [Bots -> SUBSET Nat]
    /\ \A b \in Bots : cached[b] <= Len(instances[b]) /\ evicted[b] \subseteq 1..Len(instances[b])
    /\ \A b \in Bots : expired[b] => cached[b] # 0
    /\ OnlyAgeReplaces
    /\ \A b \in Bots : \A g \in 1..Len(instances[b]) :
          instances[b][g].status = "stopped" => ~instances[b][g].ticking

\* The rows and their writes; a bot without a row is told nothing.
DiskInv ==
    /\ row \in [Bots -> D1Statuses \cup {NoRow}]
    /\ writes \in [Bots -> Seq(D1Statuses)]
    /\ \A b \in Bots : row[b] = NoRow => writes[b] = <<>>

Request0 == [at : {"idle", "answered", "price"}, op : Ops, bot : Bots, made : Nat,
             row : D1Statuses \cup {NoRow}]
Round0 == [at : {"idle", "answered", "restart", "price", "ticks"},
           rows : [Bots -> D1Statuses \cup {NoRow}],
           list : SUBSET (Bots \X Nat), todo : SUBSET (Bots \X Nat),
           now : Bots \X Nat]

\* What a request holds over its await is there: the row that was answered, the
\* instance that is being started.
ReqInv ==
    /\ request \in [Requests -> Request0]
    /\ \A r \in Requests :
        /\ request[r].at = "answered" => request[r].row # NoRow
        /\ request[r].at = "price" => request[r].made \in 1..Len(instances[request[r].bot])

\* Likewise for the bots of a round.
RoundInv ==
    /\ round \in Round0
    /\ \A i \in round.list : i[2] \in 1..Len(instances[i[1]])
    /\ round.todo \subseteq round.list
    /\ round.at = "price" => round.now \in round.list

\* Nobody is about to run a bot whose stop holds.
StopInv ==
    /\ stopHolds \in [Bots -> BOOLEAN]
    /\ StopSticks
    /\ \A b \in Bots : stopHolds[b] =>
        /\ \A r \in Requests : ~(request[r].at = "price" /\ request[r].bot = b)
        /\ round.rows[b] = NoRow
        /\ \A i \in round.list : i[1] # b

\* The last status on its way to D1, or the one that is there.
Latest(b) == IF writes[b] = <<>> THEN row[b] ELSE writes[b][Len(writes[b])]
LatestInv ==
    /\ faithful \in [Bots -> BOOLEAN]
    /\ \A b \in Bots :
        (/\ cached[b] # 0 /\ row[b] # NoRow
         /\ faithful[b] /\ evicted[b] = {})
        => ToBotStatus(Latest(b)) = instances[b][cached[b]].status

IInv == MemInv /\ DiskInv /\ ReqInv /\ RoundInv /\ StopInv /\ LatestInv

----------------------------------------------------------------------------
(* Operators.                                                              *)

LEMMA Idle ==
  /\ IdleRequest \in Request0 /\ IdleRequest.at = "idle"
  /\ IdleRound \in Round0 /\ IdleRound.list = {} /\ IdleRound.todo = {}
  /\ IdleRound.at = "idle" /\ \A b \in Bots : IdleRound.rows[b] = NoRow
<1>1. (CHOOSE b \in Bots : TRUE) \in Bots
  BY FleetAssumption
<1> QED
  BY <1>1 DEF IdleRequest, IdleRound, Request0, Round0, Ops

LEMMA Conversions ==
  /\ \A s \in Statuses : ToD1Status(s) \in D1Statuses /\ ToBotStatus(ToD1Status(s)) = s
  /\ \A s \in D1Statuses : ToBotStatus(s) \in Statuses
  /\ \A s \in D1Statuses : s # NoRow
BY DEF Statuses, D1Statuses, ToD1Status, ToBotStatus, NoRow

LEMMA FreshTyped ==
  /\ Fresh \in Instance /\ ~Fresh.ticking /\ Fresh.status = "idle"
  /\ \A s \in D1Statuses : /\ Restored(s) \in Instance /\ ~Restored(s).ticking
                           /\ Restored(s).status = ToBotStatus(s)
BY Conversions DEF Fresh, Restored, Instance, Statuses

\* A control keeps the type; stop stops, and what a control sets ticking it
\* reports as another status.
LEMMA ActedTyped ==
  ASSUME NEW s \in Instance, NEW op \in Ops, s.status = "stopped" => ~s.ticking
  PROVE  /\ Acted(op, s) \in Instance
         /\ Acted(op, s).status = "stopped" => ~Acted(op, s).ticking
         /\ op = "stop" => ~Acted(op, s).ticking
         /\ ~s.ticking /\ Acted(op, s).status = s.status => ~Acted(op, s).ticking
BY DEF Acted, Stopped, Paused, Resumed, Instance, Statuses, Ops

LEMMA Replaced ==
  ASSUME MemInv, NEW b \in Bots, NEW g \in 1..Len(instances[b]), NEW t \in Instance,
         t.status = "stopped" => ~t.ticking,
         instances' = [instances EXCEPT ![b][g] = t],
         UNCHANGED <<cached, expired, evicted>>
  PROVE  /\ MemInv'
         /\ \A c \in Bots : Len(instances'[c]) = Len(instances[c])
         /\ \A c \in Bots : \A h \in 1..Len(instances[c]) :
               instances'[c][h] = IF c = b /\ h = g THEN t ELSE instances[c][h]
<1>1. instances \in [Bots -> Seq(Instance)]
  BY DEF MemInv
<1>2. /\ instances'[b] = [instances[b] EXCEPT ![g] = t]
      /\ \A c \in Bots \ {b} : instances'[c] = instances[c]
      /\ DOMAIN instances' = Bots
  BY <1>1
<1>3. /\ [instances[b] EXCEPT ![g] = t] \in Seq(Instance)
      /\ Len([instances[b] EXCEPT ![g] = t]) = Len(instances[b])
      /\ \A h \in 1..Len(instances[b]) :
            [instances[b] EXCEPT ![g] = t][h] = IF h = g THEN t ELSE instances[b][h]
  BY <1>1
<1>4. instances' \in [Bots -> Seq(Instance)]
  BY <1>1, <1>2, <1>3
<1>5. /\ \A c \in Bots : Len(instances'[c]) = Len(instances[c])
      /\ \A c \in Bots : \A h \in 1..Len(instances[c]) :
            instances'[c][h] = IF c = b /\ h = g THEN t ELSE instances[c][h]
  BY <1>2, <1>3
<1> QED
  BY <1>4, <1>5 DEF MemInv, OnlyAgeReplaces

LEMMA Hydrated ==
  ASSUME MemInv, NEW bs \in SUBSET Bots, NEW rows, NEW made, Hydrate(bs, rows, made),
         \A b \in bs : made[b] \in Instance /\ (made[b].status = "stopped" => ~made[b].ticking),
         \A b \in bs : ~Hit(b)
  PROVE  /\ MemInv'
         /\ \A b \in Bots \ bs :
               instances'[b] = instances[b] /\ cached'[b] = cached[b] /\ evicted'[b] = evicted[b]
         /\ \A b \in bs :
               /\ Len(instances'[b]) = Len(instances[b]) + 1
               /\ cached'[b] = Len(instances[b]) + 1
               /\ instances'[b][Len(instances[b]) + 1] = made[b]
               /\ \A g \in 1..Len(instances[b]) : instances'[b][g] = instances[b][g]
<1>1. /\ instances \in [Bots -> Seq(Instance)] /\ cached \in [Bots -> Nat]
      /\ expired \in [Bots -> BOOLEAN] /\ evicted \in [Bots -> SUBSET Nat]
      /\ \A b \in Bots : cached[b] <= Len(instances[b]) /\ evicted[b] \subseteq 1..Len(instances[b])
  BY DEF MemInv
<1>2. /\ instances' = [b \in Bots |-> IF b \in bs THEN Append(instances[b], made[b]) ELSE instances[b]]
      /\ evicted' = [b \in Bots |-> IF b \in bs /\ expired[b] THEN evicted[b] \cup {cached[b]}
                                                               ELSE evicted[b]]
      /\ cached' = [b \in Bots |-> IF b \in bs THEN Len(instances[b]) + 1 ELSE cached[b]]
      /\ expired' = [b \in Bots |-> expired[b] /\ b \notin bs]
  BY DEF Hydrate
<1>3. \A b \in Bots \ bs :
         instances'[b] = instances[b] /\ cached'[b] = cached[b] /\ evicted'[b] = evicted[b]
  BY <1>2
<1>4. ASSUME NEW b \in bs
      PROVE  /\ instances'[b] = Append(instances[b], made[b])
             /\ instances'[b] \in Seq(Instance)
             /\ Len(instances'[b]) = Len(instances[b]) + 1 /\ Len(instances[b]) \in Nat
             /\ cached'[b] = Len(instances[b]) + 1
             /\ instances'[b][Len(instances[b]) + 1] = made[b]
             /\ \A g \in 1..Len(instances[b]) : instances'[b][g] = instances[b][g]
  <2>1. /\ instances[b] \in Seq(Instance) /\ made[b] \in Instance
        /\ instances'[b] = Append(instances[b], made[b])
    BY <1>1, <1>2
  <2> QED
    BY <1>2, <2>1
<1>5. /\ instances' \in [Bots -> Seq(Instance)] /\ cached' \in [Bots -> Nat]
      /\ expired' \in [Bots -> BOOLEAN] /\ evicted' \in [Bots -> SUBSET Nat]
  <2>1. \A b \in Bots : instances'[b] \in Seq(Instance)
    BY <1>1, <1>3, <1>4
  <2>2. \A b \in Bots : Len(instances[b]) \in Nat
    BY <1>1
  <2> QED
    BY <1>1, <1>2, <2>1, <2>2
<1>6. ASSUME NEW b \in bs
      PROVE  \A g \in 1..Len(instances'[b]) : g = cached'[b] \/ g \in evicted'[b]
  <2>1. CASE cached[b] = 0
    BY <1>1, <1>2, <1>4, <1>6, <2>1 DEF MemInv, OnlyAgeReplaces
  <2>2. CASE cached[b] # 0 /\ expired[b]
    BY <1>1, <1>2, <1>4, <1>6, <2>2 DEF MemInv, OnlyAgeReplaces
  <2> QED
    BY <1>6, <2>1, <2>2 DEF Hit
<1>7. OnlyAgeReplaces' /\ \A b \in Bots : expired'[b] => cached'[b] # 0
  BY <1>1, <1>2, <1>3, <1>6 DEF MemInv, OnlyAgeReplaces
<1>8. ASSUME NEW b \in bs
      PROVE  /\ cached'[b] <= Len(instances'[b]) /\ evicted'[b] \subseteq 1..Len(instances'[b])
             /\ \A g \in 1..Len(instances'[b]) :
                   instances'[b][g].status = "stopped" => ~instances'[b][g].ticking
  <2>1. evicted'[b] \subseteq 1..Len(instances'[b])
    <3>1. CASE cached[b] = 0
      <4>1. ~expired[b]
        BY <1>8, <3>1 DEF MemInv
      <4> QED
        BY <1>1, <1>2, <1>4, <1>8, <3>1, <4>1
    <3>2. CASE cached[b] # 0
      BY <1>1, <1>2, <1>4, <1>8, <3>2
    <3> QED
      BY <3>1, <3>2
  <2>2. \A g \in 1..Len(instances'[b]) : g \in 1..Len(instances[b]) \/ g = Len(instances[b]) + 1
    BY <1>4, <1>8
  <2>3. made[b].status = "stopped" => ~made[b].ticking
    BY <1>8
  <2>4. \A g \in 1..Len(instances[b]) : instances[b][g].status = "stopped" => ~instances[b][g].ticking
    BY <1>8 DEF MemInv
  <2>5. cached'[b] = Len(instances'[b])
    BY <1>4, <1>8
  <2>6. \A g \in 1..Len(instances'[b]) :
           instances'[b][g].status = "stopped" => ~instances'[b][g].ticking
    BY <1>4, <1>8, <2>2, <2>3, <2>4
  <2> QED
    BY <1>4, <1>8, <2>1, <2>5, <2>6
<1> QED
  BY <1>3, <1>4, <1>5, <1>7, <1>8 DEF MemInv

----------------------------------------------------------------------------
(* What a report does to the writes of a bot.                              *)

LEMMA ToldTyped ==
  ASSUME DiskInv, NEW b \in Bots, NEW s \in Statuses,
         UNCHANGED row, writes' = Told(writes, b, s)
  PROVE  /\ DiskInv'
         /\ row[b] # NoRow => Latest(b)' = ToD1Status(s)
         /\ \A c \in Bots \ {b} : Latest(c)' = Latest(c)
<1>1. /\ row \in [Bots -> D1Statuses \cup {NoRow}] /\ writes \in [Bots -> Seq(D1Statuses)]
      /\ ToD1Status(s) \in D1Statuses
  BY Conversions DEF DiskInv
<1>2. CASE row[b] = NoRow
  <2>1. writes' = writes
    BY <1>2 DEF Told
  <2> QED
    BY <1>2, <2>1 DEF DiskInv, Latest
<1>3. CASE row[b] # NoRow
  <2>1. /\ writes' = [writes EXCEPT ![b] = Append(@, ToD1Status(s))]
        /\ writes'[b] = Append(writes[b], ToD1Status(s))
        /\ \A c \in Bots \ {b} : writes'[c] = writes[c]
    BY <1>1, <1>3 DEF Told
  <2>2. /\ writes[b] \in Seq(D1Statuses)
        /\ writes'[b] \in Seq(D1Statuses) /\ writes'[b] # <<>>
        /\ writes'[b][Len(writes'[b])] = ToD1Status(s)
    BY <1>1, <2>1
  <2>3. writes' \in [Bots -> Seq(D1Statuses)]
    BY <1>1, <2>1, <2>2
  <2> QED
    BY <1>3, <2>1, <2>2, <2>3 DEF DiskInv, Latest
<1> QED
  BY <1>2, <1>3

\* A bot whose status in D1 was its own has it still once the change is reported.
LEMMA ReportedTyped ==
  ASSUME DiskInv, NEW b \in Bots, NEW s \in Instance, NEW t \in Instance,
         UNCHANGED row, writes' = Reported(writes, b, s, t)
  PROVE  /\ DiskInv'
         /\ row[b] # NoRow /\ ToBotStatus(Latest(b)) = s.status => ToBotStatus(Latest(b)') = t.status
         /\ \A c \in Bots \ {b} : Latest(c)' = Latest(c)
<1>1. s.status \in Statuses /\ t.status \in Statuses
  BY DEF Instance
<1>2. CASE s.status = t.status
  <2>1. writes' = writes
    BY <1>2 DEF Reported
  <2> QED
    BY <1>2, <2>1 DEF DiskInv, Latest
<1>3. CASE s.status # t.status
  <2>1. writes' = Told(writes, b, t.status)
    BY <1>3 DEF Reported
  <2> QED
    BY <1>1, <2>1, ToldTyped, Conversions
<1> QED
  BY <1>2, <1>3

----------------------------------------------------------------------------
(* What does not change keeps its part of the invariant.                   *)

LEMMA OthersKeep ==
  ASSUME \A b \in Bots : Len(instances[b]) \in Nat /\ Len(instances'[b]) \in Nat
                         /\ Len(instances[b]) <= Len(instances'[b])
  PROVE  /\ ReqInv /\ UNCHANGED request => ReqInv'
         /\ RoundInv /\ UNCHANGED round => RoundInv'
<1>1. ASSUME ReqInv, UNCHANGED request PROVE ReqInv'
  <2>1. \A r \in Requests : request[r].bot \in Bots
    BY <1>1 DEF ReqInv, Request0
  <2> QED
    BY <1>1, <2>1 DEF ReqInv
<1>2. ASSUME RoundInv, UNCHANGED round PROVE RoundInv'
  <2>1. \A i \in round.list : i[1] \in Bots
    BY <1>2 DEF RoundInv, Round0
  <2> QED
    BY <1>2, <2>1 DEF RoundInv
<1> QED
  BY <1>1, <1>2

LEMMA Lengths ==
  ASSUME MemInv
  PROVE  \A b \in Bots : Len(instances[b]) \in Nat
BY DEF MemInv

LEMMA InitKeeps == Init => IInv
<1> SUFFICES ASSUME Init PROVE IInv
  OBVIOUS
<1>1. MemInv
  BY DEF Init, MemInv, OnlyAgeReplaces
<1>2. DiskInv
  BY DEF Init, DiskInv, D1Statuses
<1>3. ReqInv
  BY Idle DEF Init, ReqInv
<1>4. RoundInv
  BY Idle DEF Init, RoundInv
<1>5. StopInv
  BY Idle DEF Init, StopInv, StopSticks
<1>6. LatestInv
  BY DEF Init, LatestInv
<1> QED
  BY <1>1, <1>2, <1>3, <1>4, <1>5, <1>6 DEF IInv

----------------------------------------------------------------------------
(* Every step keeps the invariant.                                         *)

LEMMA RemovedTyped ==
  ASSUME NEW S, NEW s \in Seq(S), NEW i \in 1..Len(s)
  PROVE  /\ Removed(s, i) \in Seq(S) /\ Len(Removed(s, i)) = Len(s) - 1
         /\ i = 1 /\ Len(s) > 1 => Removed(s, i)[Len(s) - 1] = s[Len(s)]
<1>1. /\ SubSeq(s, 1, i - 1) \in Seq(S) /\ Len(SubSeq(s, 1, i - 1)) = i - 1
      /\ SubSeq(s, i + 1, Len(s)) \in Seq(S) /\ Len(SubSeq(s, i + 1, Len(s))) = Len(s) - i
  OBVIOUS
<1>2. Removed(s, i) \in Seq(S) /\ Len(Removed(s, i)) = Len(s) - 1
  <2> DEFINE u == SubSeq(s, 1, i - 1)
             v == SubSeq(s, i + 1, Len(s))
  <2>1. u \in Seq(S) /\ v \in Seq(S) /\ Len(u) = i - 1 /\ Len(v) = Len(s) - i
    BY <1>1
  <2> HIDE DEF u, v
  <2>2. u \o v \in Seq(S) /\ Len(u \o v) = Len(u) + Len(v)
    BY <2>1
  <2>3. Len(s) \in Nat /\ i \in Nat
    OBVIOUS
  <2>4. Removed(s, i) = u \o v
    BY DEF Removed, u, v
  <2>5. (i - 1) + (Len(s) - i) = Len(s) - 1
    BY <2>3
  <2>6. Len(u \o v) = Len(s) - 1
    BY <2>1, <2>2, <2>5
  <2> QED
    BY <2>2, <2>4, <2>6
<1>3. ASSUME i = 1, Len(s) > 1 PROVE Removed(s, i)[Len(s) - 1] = s[Len(s)]
  <2>1. Len(s) - 1 \in 1..Len(SubSeq(s, 2, Len(s))) /\ SubSeq(s, 2, Len(s))[Len(s) - 1] = s[Len(s)]
    BY <1>3
  <2>2. Len(SubSeq(s, 1, 0)) = 0 /\ SubSeq(s, 1, 0) \in Seq(S)
    OBVIOUS
  <2> QED
    BY <1>1, <1>3, <2>1, <2>2 DEF Removed
<1> QED
  BY <1>2, <1>3

LEMMA WriteStep ==
  ASSUME IInv, NEW b \in Bots, WriteArrives(b) \/ WriteFails(b)
  PROVE  IInv'
<1>0. MemInv /\ DiskInv /\ ReqInv /\ RoundInv /\ StopInv /\ LatestInv
  BY DEF IInv
<1>1. UNCHANGED <<instances, cached, expired, evicted, halted, request, round, stopHolds>>
  BY DEF WriteArrives, WriteFails, memory
<1>2. MemInv' /\ ReqInv' /\ RoundInv' /\ StopInv'
  <2>1. MemInv' /\ StopInv'
    BY <1>0, <1>1 DEF MemInv, OnlyAgeReplaces, StopInv, StopSticks
  <2>2. \A c \in Bots : Len(instances[c]) \in Nat /\ Len(instances'[c]) \in Nat
                       /\ Len(instances[c]) <= Len(instances'[c])
    BY <1>0, <1>1, Lengths
  <2> QED
    BY <1>0, <1>1, <2>1, <2>2, OthersKeep
<1>3. /\ row \in [Bots -> D1Statuses \cup {NoRow}] /\ writes \in [Bots -> Seq(D1Statuses)]
      /\ faithful \in [Bots -> BOOLEAN]
  BY <1>0 DEF DiskInv, LatestInv
<1>4. ASSUME NEW i \in 1..Len(writes[b]), writes' = [writes EXCEPT ![b] = Removed(@, i)],
             row' = row \/ row' = [row EXCEPT ![b] = writes[b][i]]
      PROVE  DiskInv' /\ \A c \in Bots \ {b} : Latest(c)' = Latest(c)
  <2>1. /\ writes[b] \in Seq(D1Statuses) /\ writes[b] # <<>> /\ writes[b][i] \in D1Statuses
        /\ row[b] # NoRow
    BY <1>0, <1>3, <1>4 DEF DiskInv
  <2>2. Removed(writes[b], i) \in Seq(D1Statuses)
    BY <2>1, RemovedTyped
  <2>3. /\ writes' \in [Bots -> Seq(D1Statuses)] /\ row' \in [Bots -> D1Statuses \cup {NoRow}]
        /\ row'[b] # NoRow
    BY <1>3, <1>4, <2>1, <2>2, Conversions
  <2>4. \A c \in Bots \ {b} : row'[c] = row[c] /\ writes'[c] = writes[c]
    BY <1>3, <1>4
  <2> QED
    BY <1>0, <2>3, <2>4 DEF DiskInv, Latest
<1>5. CASE WriteArrives(b)
  <2>1. PICK i \in 1..Len(writes[b]) :
          /\ row' = [row EXCEPT ![b] = writes[b][i]]
          /\ writes' = [writes EXCEPT ![b] = Removed(@, i)]
          /\ faithful' = [faithful EXCEPT ![b] = @ /\ i = 1]
    BY <1>5 DEF WriteArrives
  <2>2. DiskInv' /\ \A c \in Bots \ {b} : Latest(c)' = Latest(c)
    BY <1>4, <2>1
  <2>3. ASSUME i = 1 PROVE Latest(b)' = Latest(b)
    <3>1. /\ writes[b] \in Seq(D1Statuses) /\ Len(writes[b]) \in Nat \ {0}
          /\ writes'[b] = Removed(writes[b], 1) /\ row'[b] = writes[b][1]
      BY <1>3, <2>1, <2>3
    <3>2. /\ Removed(writes[b], 1) \in Seq(D1Statuses)
          /\ Len(Removed(writes[b], 1)) = Len(writes[b]) - 1
          /\ Len(writes[b]) > 1 => Removed(writes[b], 1)[Len(writes[b]) - 1] = writes[b][Len(writes[b])]
      BY <2>3, <3>1, RemovedTyped
    <3>3. CASE Len(writes[b]) = 1
      <4>1. writes'[b] = <<>> /\ writes[b] # <<>>
        BY <3>1, <3>2, <3>3
      <4> QED
        BY <3>1, <3>3, <4>1 DEF Latest
    <3>4. CASE Len(writes[b]) > 1
      <4>1. writes'[b] # <<>> /\ writes[b] # <<>>
        BY <3>1, <3>2, <3>4
      <4> QED
        BY <3>1, <3>2, <3>4, <4>1 DEF Latest
    <3>5. Len(writes[b]) = 1 \/ Len(writes[b]) > 1
      <4>1. \A n \in Nat : n # 0 => n = 1 \/ n > 1
        OBVIOUS
      <4>2. Len(writes[b]) \in Nat /\ Len(writes[b]) # 0
        BY <3>1
      <4> QED
        BY <4>1, <4>2
    <3> QED
      BY <3>3, <3>4, <3>5
  <2>4. /\ faithful' \in [Bots -> BOOLEAN] /\ (faithful'[b] => faithful[b] /\ i = 1)
        /\ \A c \in Bots \ {b} : faithful'[c] = faithful[c] /\ row'[c] = row[c]
        /\ row[b] # NoRow
    <3>1. (faithful[b] /\ i = 1) \in BOOLEAN
      OBVIOUS
    <3>2. /\ faithful' \in [Bots -> BOOLEAN] /\ faithful'[b] = (faithful[b] /\ i = 1)
          /\ \A c \in Bots \ {b} : faithful'[c] = faithful[c] /\ row'[c] = row[c]
      BY <1>3, <2>1, <3>1
    <3>3. row[b] # NoRow
      BY <1>0, <2>1 DEF DiskInv
    <3> QED
      BY <3>2, <3>3
  <2>5. LatestInv'
    BY <1>0, <1>1, <2>2, <2>3, <2>4 DEF LatestInv
  <2> QED
    BY <1>2, <2>2, <2>5 DEF IInv
<1>6. CASE WriteFails(b)
  <2>1. PICK i \in 1..Len(writes[b]) : writes' = [writes EXCEPT ![b] = Removed(@, i)]
    BY <1>6 DEF WriteFails
  <2>2. row' = row /\ faithful' = [faithful EXCEPT ![b] = FALSE]
    BY <1>6 DEF WriteFails
  <2>3. DiskInv' /\ \A c \in Bots \ {b} : Latest(c)' = Latest(c)
    BY <1>4, <2>1, <2>2
  <2>4. LatestInv'
    BY <1>0, <1>1, <1>3, <2>2, <2>3 DEF LatestInv
  <2> QED
    BY <1>2, <2>3, <2>4 DEF IInv
<1> QED
  BY <1>5, <1>6

\* An instance of bot b is replaced, and its change of status reported.
LEMMA ReplacedKeeps ==
  ASSUME IInv, NEW b \in Bots, NEW g \in 1..Len(instances[b]), NEW t \in Instance,
         t.status = "stopped" => ~t.ticking,
         instances' = [instances EXCEPT ![b][g] = t],
         UNCHANGED <<row, cached, expired, evicted, faithful>>,
         \/ writes' = Reported(writes, b, instances[b][g], t)
         \/ writes' = Told(writes, b, t.status)
  PROVE  /\ MemInv' /\ DiskInv' /\ LatestInv'
         /\ \A c \in Bots : Len(instances'[c]) = Len(instances[c]) /\ Len(instances[c]) \in Nat
         /\ \A c \in Bots : \A h \in 1..Len(instances[c]) :
               instances'[c][h] = IF c = b /\ h = g THEN t ELSE instances[c][h]
<1>0. MemInv /\ DiskInv /\ LatestInv
  BY DEF IInv
<1>1. /\ MemInv'
      /\ \A c \in Bots : Len(instances'[c]) = Len(instances[c])
      /\ \A c \in Bots : \A h \in 1..Len(instances[c]) :
            instances'[c][h] = IF c = b /\ h = g THEN t ELSE instances[c][h]
  BY <1>0, Replaced
<1>2. instances[b][g] \in Instance /\ t.status \in Statuses
  <2>1. instances[b] \in Seq(Instance)
    BY <1>0 DEF MemInv
  <2>2. instances[b][g] \in Instance
    BY <2>1
  <2> QED
    BY <2>2 DEF Instance
<1>3. DiskInv' /\ \A c \in Bots \ {b} : Latest(c)' = Latest(c)
  BY <1>0, <1>2, ReportedTyped, ToldTyped
<1>4. \A c \in Bots : cached[c] # 0 => cached[c] \in 1..Len(instances[c])
  BY <1>0 DEF MemInv
<1>5. ASSUME cached[b] # 0, row[b] # NoRow, faithful[b], evicted[b] = {}
      PROVE  ToBotStatus(Latest(b)') = t.status /\ cached[b] = g
  <2>1. cached[b] = g
    BY <1>0, <1>5 DEF MemInv, OnlyAgeReplaces
  <2>2. ToBotStatus(Latest(b)) = instances[b][g].status
    BY <1>0, <1>5, <2>1 DEF LatestInv
  <2>3. CASE writes' = Reported(writes, b, instances[b][g], t)
    BY <1>0, <1>2, <1>5, <2>1, <2>2, <2>3, ReportedTyped
  <2>4. CASE writes' = Told(writes, b, t.status)
    <3>1. Latest(b)' = ToD1Status(t.status)
      BY <1>0, <1>2, <1>5, <2>4, ToldTyped
    <3> QED
      BY <1>2, <2>1, <3>1, Conversions
  <2> QED
    BY <2>3, <2>4
<1>6. LatestInv'
  <2>1. ASSUME NEW c \in Bots, cached[c] # 0, row[c] # NoRow, faithful[c], evicted[c] = {}
        PROVE  ToBotStatus(Latest(c)') = instances'[c][cached[c]].status
    <3>1. CASE c = b
      BY <1>1, <1>4, <1>5, <2>1, <3>1
    <3>2. CASE c # b
      BY <1>0, <1>1, <1>3, <1>4, <2>1, <3>2 DEF LatestInv
    <3> QED
      BY <3>1, <3>2
  <2> QED
    BY <1>0, <2>1 DEF LatestInv
<1> QED
  BY <1>0, <1>1, <1>3, <1>6, Lengths

\* A tick, and the end of a start, replace their instance and report it.
LEMMA TickKeeps ==
  ASSUME IInv, NEW b \in Bots, NEW g \in 1..Len(instances[b]), TickOf(b, g),
         UNCHANGED <<row, cached, expired, evicted, faithful>>
  PROVE  /\ MemInv' /\ DiskInv' /\ LatestInv'
         /\ \A c \in Bots : Len(instances'[c]) = Len(instances[c]) /\ Len(instances[c]) \in Nat
         /\ \A c \in Bots : \A h \in 1..Len(instances[c]) :
               instances'[c][h].ticking => instances[c][h].ticking
<1> DEFINE s == instances[b][g]
           t == IF halted THEN Paused(s) ELSE s
<1>1. s \in Instance /\ (s.status = "stopped" => ~s.ticking)
  <2>1. instances[b] \in Seq(Instance)
    BY DEF IInv, MemInv
  <2>2. s \in Instance
    BY <2>1
  <2> QED
    BY <2>2 DEF IInv, MemInv
<1>2. /\ t \in Instance /\ (t.status = "stopped" => ~t.ticking) /\ (t.ticking => s.ticking)
      /\ s.status # "running" => t = s
      /\ ~halted => t = s
  BY <1>1 DEF Paused, Instance, Statuses
<1>3. instances' = [instances EXCEPT ![b][g] = t]
  BY DEF TickOf
<1>4. \/ writes' = Reported(writes, b, s, t)
      \/ writes' = Told(writes, b, t.status)
  BY <1>2 DEF TickOf, Reported
<1> HIDE DEF t
<1>5. /\ MemInv' /\ DiskInv' /\ LatestInv'
      /\ \A c \in Bots : Len(instances'[c]) = Len(instances[c]) /\ Len(instances[c]) \in Nat
      /\ \A c \in Bots : \A h \in 1..Len(instances[c]) :
            instances'[c][h] = IF c = b /\ h = g THEN t ELSE instances[c][h]
  BY <1>2, <1>3, <1>4, ReplacedKeeps
<1> QED
  BY <1>2, <1>5

LEMMA StartKeeps ==
  ASSUME IInv, NEW b \in Bots, NEW g \in 1..Len(instances[b]), Started(b, g) \/ Failed(b, g),
         UNCHANGED <<row, cached, expired, evicted, faithful>>
  PROVE  /\ MemInv' /\ DiskInv' /\ LatestInv'
         /\ \A c \in Bots : Len(instances'[c]) = Len(instances[c]) /\ Len(instances[c]) \in Nat
         /\ \A c \in Bots \ {b} : \A h \in 1..Len(instances[c]) : instances'[c][h] = instances[c][h]
<1> DEFINE s == instances[b][g]
           run == [s EXCEPT !.status = "running", !.ticking = TRUE, !.strategy = TRUE]
           err == [s EXCEPT !.status = "error"]
<1>1. s \in Instance
  <2>1. instances[b] \in Seq(Instance)
    BY DEF IInv, MemInv
  <2> QED
    BY <2>1
<1>2. /\ run \in Instance /\ run.status = "running"
      /\ err \in Instance /\ err.status = "error"
  BY <1>1 DEF Instance, Statuses
<1>3. CASE Started(b, g)
  <2>1. instances' = [instances EXCEPT ![b][g] = run] /\ writes' = Told(writes, b, run.status)
    BY <1>2, <1>3 DEF Started
  <2> HIDE DEF run
  <2>2. run \in Instance /\ (run.status = "stopped" => ~run.ticking)
    BY <1>2
  <2>3. /\ MemInv' /\ DiskInv' /\ LatestInv'
        /\ \A c \in Bots : Len(instances'[c]) = Len(instances[c]) /\ Len(instances[c]) \in Nat
        /\ \A c \in Bots : \A h \in 1..Len(instances[c]) :
              instances'[c][h] = IF c = b /\ h = g THEN run ELSE instances[c][h]
    BY <2>1, <2>2, ReplacedKeeps
  <2> QED
    BY <2>3
<1>4. CASE Failed(b, g)
  <2>1. instances' = [instances EXCEPT ![b][g] = err] /\ writes' = Told(writes, b, err.status)
    BY <1>2, <1>4 DEF Failed
  <2> HIDE DEF err
  <2>2. err \in Instance /\ (err.status = "stopped" => ~err.ticking)
    BY <1>2
  <2>3. /\ MemInv' /\ DiskInv' /\ LatestInv'
        /\ \A c \in Bots : Len(instances'[c]) = Len(instances[c]) /\ Len(instances[c]) \in Nat
        /\ \A c \in Bots : \A h \in 1..Len(instances[c]) :
              instances'[c][h] = IF c = b /\ h = g THEN err ELSE instances[c][h]
    BY <2>1, <2>2, ReplacedKeeps
  <2> QED
    BY <2>3
<1> QED
  BY <1>3, <1>4

LEMMA IntervalStep ==
  ASSUME IInv, NEW b \in Bots, IntervalFires(b)
  PROVE  IInv'
<1>1. PICK g \in 1..Len(instances[b]) : TickOf(b, g)
  BY DEF IntervalFires
<1>2. UNCHANGED <<row, cached, expired, evicted, halted, request, round, faithful, stopHolds>>
  BY DEF IntervalFires, history
<1>3. /\ MemInv' /\ DiskInv' /\ LatestInv'
      /\ \A c \in Bots : Len(instances'[c]) = Len(instances[c]) /\ Len(instances[c]) \in Nat
      /\ \A c \in Bots : \A h \in 1..Len(instances[c]) :
            instances'[c][h].ticking => instances[c][h].ticking
  BY <1>1, <1>2, TickKeeps
<1>4. ReqInv' /\ RoundInv'
  BY <1>2, <1>3, OthersKeep DEF IInv
<1>5. StopInv'
  BY <1>2, <1>3 DEF IInv, StopInv, StopSticks
<1> QED
  BY <1>3, <1>4, <1>5 DEF IInv

LEMMA StartEndsStep ==
  ASSUME IInv, NEW r \in Requests, StartEnds(r)
  PROVE  IInv'
<1> DEFINE b == request[r].bot
           g == request[r].made
<1>1. /\ request[r].at = "price" /\ (Started(b, g) \/ Failed(b, g))
      /\ request' = [request EXCEPT ![r] = IdleRequest]
      /\ UNCHANGED <<row, cached, expired, evicted, halted, round, faithful, stopHolds>>
  BY DEF StartEnds, history
<1>2. b \in Bots /\ g \in 1..Len(instances[b]) /\ request \in [Requests -> Request0]
  BY <1>1 DEF IInv, ReqInv, Request0
<1> HIDE DEF b, g
<1>3. /\ MemInv' /\ DiskInv' /\ LatestInv'
      /\ \A c \in Bots : Len(instances'[c]) = Len(instances[c]) /\ Len(instances[c]) \in Nat
      /\ \A c \in Bots \ {b} : \A h \in 1..Len(instances[c]) : instances'[c][h] = instances[c][h]
  BY <1>1, <1>2, StartKeeps
<1>4. RoundInv'
  BY <1>1, <1>3, OthersKeep DEF IInv
<1>5. ReqInv'
  <2>1. \A q \in Requests : request[q].bot \in Bots
    BY <1>2 DEF Request0
  <2> QED
    BY <1>1, <1>2, <1>3, <2>1, Idle DEF IInv, ReqInv
<1>6. StopInv'
  <2>1. ~stopHolds[b]
    BY <1>1, <1>2 DEF IInv, StopInv, b
  <2>2. \A q \in Requests : request'[q].at = "price" => request'[q] = request[q]
    BY <1>1, <1>2, Idle
  <2> QED
    BY <1>1, <1>2, <1>3, <2>1, <2>2 DEF IInv, StopInv, StopSticks
<1> QED
  BY <1>3, <1>4, <1>5, <1>6 DEF IInv

LEMMA RequestHitStep ==
  ASSUME IInv, NEW b \in Bots, NEW op \in Ops, RequestHit(op, b)
  PROVE  IInv'
<1> DEFINE g == cached[b]
           s == instances[b][g]
           t == Acted(op, s)
<1>1. /\ g # 0 /\ instances' = [instances EXCEPT ![b][g] = t]
      /\ writes' = Reported(writes, b, s, t)
      /\ Asked(op, b, g, t.status # s.status)
      /\ UNCHANGED <<row, cached, expired, evicted, halted, request, round, faithful>>
  BY DEF RequestHit, Hit
<1>2. g \in 1..Len(instances[b]) /\ instances[b] \in Seq(Instance)
  BY <1>1 DEF IInv, MemInv
<1>3. s \in Instance /\ (s.status = "stopped" => ~s.ticking)
  <2>1. s \in Instance
    BY <1>2
  <2> QED
    BY <1>2, <2>1 DEF IInv, MemInv
<1>4. /\ t \in Instance /\ (t.status = "stopped" => ~t.ticking)
      /\ op = "stop" => ~t.ticking
      /\ ~s.ticking /\ t.status = s.status => ~t.ticking
  BY <1>3, ActedTyped
<1> HIDE DEF t, g
<1>5. /\ MemInv' /\ DiskInv' /\ LatestInv'
      /\ \A c \in Bots : Len(instances'[c]) = Len(instances[c]) /\ Len(instances[c]) \in Nat
      /\ \A c \in Bots : \A h \in 1..Len(instances[c]) :
            instances'[c][h] = IF c = b /\ h = g THEN t ELSE instances[c][h]
  BY <1>1, <1>2, <1>4, ReplacedKeeps
<1>6. ReqInv' /\ RoundInv'
  BY <1>1, <1>5, OthersKeep DEF IInv
<1>7. StopInv'
  <2>1. stopHolds \in [Bots -> BOOLEAN]
    BY DEF IInv, StopInv
  <2>2. stopHolds' = [stopHolds EXCEPT ![b] =
            IF op = "stop" THEN ~Contested(b, g) ELSE @ /\ ~(t.status # s.status)]
    BY <1>1 DEF Asked
  <2>3. (IF op = "stop" THEN ~Contested(b, g) ELSE stopHolds[b] /\ ~(t.status # s.status)) \in BOOLEAN
    BY DEF Contested
  <2>4. /\ stopHolds' \in [Bots -> BOOLEAN] /\ \A c \in Bots \ {b} : stopHolds'[c] = stopHolds[c]
        /\ stopHolds'[b] = (IF op = "stop" THEN ~Contested(b, g)
                             ELSE stopHolds[b] /\ ~(t.status # s.status))
    BY <2>1, <2>2, <2>3
  <2>5. ASSUME stopHolds'[b]
        PROVE  /\ \A h \in 1..Len(instances'[b]) : ~instances'[b][h].ticking
               /\ \A r \in Requests : ~(request[r].at = "price" /\ request[r].bot = b)
               /\ round.rows[b] = NoRow
               /\ \A i \in round.list : i[1] # b
    <3>1. CASE op = "stop"
      BY <1>4, <1>5, <2>4, <2>5, <3>1 DEF Contested
    <3>2. CASE op # "stop"
      <4>1. stopHolds[b] /\ t.status = s.status
        BY <2>4, <2>5, <3>2
      <4>2. \A h \in 1..Len(instances[b]) : ~instances[b][h].ticking
        BY <4>1 DEF IInv, StopInv, StopSticks
      <4> QED
        BY <1>2, <1>4, <1>5, <4>1, <4>2 DEF IInv, StopInv, g
    <3> QED
      BY <3>1, <3>2
  <2> QED
    BY <1>1, <1>5, <2>4, <2>5 DEF IInv, StopInv, StopSticks
<1> QED
  BY <1>5, <1>6, <1>7 DEF IInv

----------------------------------------------------------------------------
(* The cache.                                                              *)

LEMMA ExpiresStep ==
  ASSUME IInv, NEW b \in Bots, EntryExpires(b)
  PROVE  IInv'
<1>1. /\ cached[b] # 0 /\ expired' = [expired EXCEPT ![b] = TRUE]
      /\ UNCHANGED <<row, writes, instances, cached, halted, request, round, evicted, faithful, stopHolds>>
  BY DEF EntryExpires, disk, history
<1>2. MemInv'
  BY <1>1 DEF IInv, MemInv, OnlyAgeReplaces
<1>3. DiskInv' /\ LatestInv' /\ StopInv'
  BY <1>1 DEF IInv, DiskInv, LatestInv, Latest, StopInv, StopSticks
<1>4. \A c \in Bots : Len(instances[c]) \in Nat /\ Len(instances'[c]) \in Nat
                     /\ Len(instances[c]) <= Len(instances'[c])
  BY <1>1, Lengths DEF IInv
<1>5. ReqInv' /\ RoundInv'
  BY <1>1, <1>4, OthersKeep DEF IInv
<1> QED
  BY <1>2, <1>3, <1>5 DEF IInv

\* What is made of the bots of bs, which the cache does not hold ...
Makeable(bs, made) ==
    \A b \in bs : /\ made[b] \in Instance /\ (made[b].status = "stopped" => ~made[b].ticking)
                  /\ ~Hit(b)
\* ... and what D1 is told: of them, the status they get when it is not the row's.
ToldOf(bs, rows, made) ==
    /\ UNCHANGED row
    /\ \A b \in Bots \ bs : Latest(b)' = Latest(b)
    /\ \A b \in bs : row[b] = rows[b] /\ rows[b] # NoRow /\ ToBotStatus(Latest(b)) = ToBotStatus(rows[b])
                     => ToBotStatus(Latest(b)') = made[b].status
\* What is there afterwards.
Grown(bs, made) ==
    /\ \A b \in Bots \ bs :
          instances'[b] = instances[b] /\ cached'[b] = cached[b] /\ evicted'[b] = evicted[b]
    /\ \A b \in bs :
          /\ Len(instances'[b]) = Len(instances[b]) + 1
          /\ cached'[b] = Len(instances[b]) + 1
          /\ instances'[b][Len(instances[b]) + 1] = made[b]
          /\ \A g \in 1..Len(instances[b]) : instances'[b][g] = instances[b][g]
    /\ \A b \in Bots : Len(instances[b]) \in Nat /\ Len(instances'[b]) \in Nat
                       /\ Len(instances[b]) <= Len(instances'[b])

\* The bots of bs get an instance with the status their row was read with, or
\* with one that is reported.
LEMMA HydrateKeeps ==
  ASSUME IInv, NEW bs \in SUBSET Bots, NEW rows, NEW made, Hydrate(bs, rows, made),
         Makeable(bs, made), ToldOf(bs, rows, made)
  PROVE  MemInv' /\ LatestInv' /\ Grown(bs, made)
<1>0. MemInv /\ LatestInv
  BY DEF IInv
<1>1. /\ MemInv'
      /\ \A b \in Bots \ bs :
            instances'[b] = instances[b] /\ cached'[b] = cached[b] /\ evicted'[b] = evicted[b]
      /\ \A b \in bs :
            /\ Len(instances'[b]) = Len(instances[b]) + 1
            /\ cached'[b] = Len(instances[b]) + 1
            /\ instances'[b][Len(instances[b]) + 1] = made[b]
            /\ \A g \in 1..Len(instances[b]) : instances'[b][g] = instances[b][g]
  BY <1>0, Hydrated DEF Makeable
<1>2. faithful' = [b \in Bots |->
            IF b \notin bs THEN faithful[b]
            ELSE row[b] = rows[b] /\ writes[b] = <<>> /\ evicted'[b] = {}]
  BY DEF Hydrate
<1>3. faithful' \in [Bots -> BOOLEAN]
  <2>1. \A b \in Bots : (row[b] = rows[b] /\ writes[b] = <<>> /\ evicted'[b] = {}) \in BOOLEAN
    OBVIOUS
  <2> QED
    BY <1>0, <1>2, <2>1 DEF LatestInv
<1>4. ASSUME NEW b \in Bots, cached'[b] # 0, row'[b] # NoRow, faithful'[b], evicted'[b] = {}
      PROVE  ToBotStatus(Latest(b)') = instances'[b][cached'[b]].status
  <2>1. CASE b \in bs
    <3>1. row[b] = rows[b] /\ writes[b] = <<>> /\ row[b] # NoRow
      BY <1>2, <1>4, <2>1 DEF ToldOf
    <3>2. Latest(b) = rows[b]
      BY <3>1 DEF Latest
    <3>3. ToBotStatus(Latest(b)') = made[b].status
      BY <2>1, <3>1, <3>2 DEF ToldOf
    <3> QED
      BY <1>1, <2>1, <3>3
  <2>2. CASE b \notin bs
    <3>1. faithful[b] /\ cached[b] # 0 /\ row[b] # NoRow /\ evicted[b] = {}
      BY <1>1, <1>2, <1>4, <2>2 DEF ToldOf
    <3>2. ToBotStatus(Latest(b)) = instances[b][cached[b]].status
      BY <1>0, <3>1 DEF LatestInv
    <3> QED
      BY <1>1, <2>2, <3>2 DEF ToldOf
  <2> QED
    BY <2>1, <2>2
<1>5. LatestInv'
  BY <1>3, <1>4 DEF LatestInv
<1>6. \A b \in Bots : Len(instances[b]) \in Nat /\ Len(instances'[b]) \in Nat
                     /\ Len(instances[b]) <= Len(instances'[b])
  <2>1. \A b \in Bots : Len(instances[b]) \in Nat
    BY <1>0, Lengths
  <2> QED
    BY <1>1, <2>1
<1> QED
  BY <1>1, <1>5, <1>6 DEF Grown

LEMMA CreateStep ==
  ASSUME IInv, NEW b \in Bots, Create(b)
  PROVE  IInv'
<1> DEFINE rows == [c \in Bots |-> "draft"]
           made == [c \in Bots |-> Fresh]
<1>1. /\ cached[b] = 0 /\ Hydrate({b}, rows, made)
      /\ UNCHANGED <<row, writes, halted, request, round, stopHolds>>
  BY DEF Create, Vacant, disk
<1>2. /\ made[b] \in Instance /\ ~made[b].ticking
      /\ made[b].status = "idle" /\ ToBotStatus(rows[b]) = "idle"
  BY FreshTyped DEF ToBotStatus
<1>3. ~Hit(b)
  BY <1>1 DEF Hit
<1>4. \A c \in Bots : Latest(c)' = Latest(c)
  BY <1>1 DEF Latest
<1> HIDE DEF rows, made
<1>5. /\ MemInv' /\ LatestInv'
      /\ \A c \in Bots \ {b} :
            instances'[c] = instances[c] /\ cached'[c] = cached[c] /\ evicted'[c] = evicted[c]
      /\ \A c \in {b} :
            /\ Len(instances'[c]) = Len(instances[c]) + 1
            /\ cached'[c] = Len(instances[c]) + 1
            /\ instances'[c][Len(instances[c]) + 1] = made[c]
            /\ \A g \in 1..Len(instances[c]) : instances'[c][g] = instances[c][g]
      /\ \A c \in Bots : Len(instances[c]) \in Nat /\ Len(instances'[c]) \in Nat
                         /\ Len(instances[c]) <= Len(instances'[c])
  <2>1. Makeable({b}, made)
    BY <1>2, <1>3 DEF Makeable
  <2>2. ToldOf({b}, rows, made)
    BY <1>1, <1>2, <1>4 DEF ToldOf
  <2>3. MemInv' /\ LatestInv' /\ Grown({b}, made)
    BY <1>1, <2>1, <2>2, HydrateKeeps
  <2> QED
    BY <2>3 DEF Grown
<1>6. ReqInv' /\ RoundInv' /\ DiskInv'
  BY <1>1, <1>5, OthersKeep DEF IInv, DiskInv
<1>7. StopInv'
  <2>1. \A h \in 1..Len(instances'[b]) : h \in 1..Len(instances[b]) \/ h = Len(instances[b]) + 1
    BY <1>5
  <2>2. \A c \in Bots : \A h \in 1..Len(instances'[c]) :
           instances'[c][h].ticking => h \in 1..Len(instances[c]) /\ instances[c][h].ticking
    BY <1>2, <1>5, <2>1
  <2> QED
    BY <1>1, <2>2 DEF IInv, StopInv, StopSticks
<1> QED
  BY <1>5, <1>6, <1>7 DEF IInv

----------------------------------------------------------------------------
(* The requests that wait for D1 or for a price.                           *)

LEMMA MissStep ==
  ASSUME IInv, NEW r \in Requests, NEW op \in Ops, NEW b \in Bots, RequestMiss(r, op, b)
  PROVE  IInv'
<1> DEFINE q == IF row[b] = NoRow THEN IdleRequest
                ELSE [IdleRequest EXCEPT !.at = "answered", !.op = op, !.bot = b, !.row = row[b]]
<1>1. /\ ~Hit(b) /\ Evicted(b)
      /\ request' = [request EXCEPT ![r] = q]
      /\ faithful' = [faithful EXCEPT ![b] = FALSE]
      /\ UNCHANGED <<row, writes, instances, halted, round, stopHolds>>
  BY DEF RequestMiss, disk
<1>2. /\ cached' = [cached EXCEPT ![b] = IF expired[b] THEN 0 ELSE @]
      /\ expired' = [expired EXCEPT ![b] = FALSE]
      /\ evicted' = [evicted EXCEPT ![b] = IF expired[b] THEN @ \cup {cached[b]} ELSE @]
  BY <1>1 DEF Evicted
<1>3. q \in Request0 /\ q.at # "price" /\ (q.at = "answered" => q.row # NoRow)
  BY Idle DEF IInv, DiskInv, Request0
<1> HIDE DEF q
<1>4. \A c \in Bots : Len(instances[c]) \in Nat /\ Len(instances'[c]) \in Nat
                     /\ Len(instances[c]) <= Len(instances'[c])
  BY <1>1, Lengths DEF IInv
<1>5. DiskInv' /\ RoundInv'
  BY <1>1, <1>4, OthersKeep DEF IInv, DiskInv
<1>6. MemInv'
  <2>1. /\ instances \in [Bots -> Seq(Instance)] /\ cached \in [Bots -> Nat]
        /\ expired \in [Bots -> BOOLEAN] /\ evicted \in [Bots -> SUBSET Nat]
    BY DEF IInv, MemInv
  <2>2. /\ cached' \in [Bots -> Nat] /\ expired' \in [Bots -> BOOLEAN]
        /\ evicted' \in [Bots -> SUBSET Nat]
        /\ \A c \in Bots \ {b} : cached'[c] = cached[c] /\ expired'[c] = expired[c]
                                 /\ evicted'[c] = evicted[c]
        /\ cached'[b] = (IF expired[b] THEN 0 ELSE cached[b]) /\ ~expired'[b]
        /\ evicted'[b] = (IF expired[b] THEN evicted[b] \cup {cached[b]} ELSE evicted[b])
    BY <1>2, <2>1
  <2>3. expired[b] => cached[b] \in 1..Len(instances[b])
    BY <1>4, <2>1 DEF IInv, MemInv
  <2>4. ~expired[b] => cached[b] = 0
    BY <1>1, <2>1 DEF Hit
  <2>5. /\ cached'[b] <= Len(instances[b]) /\ evicted'[b] \subseteq 1..Len(instances[b])
        /\ \A g \in 1..Len(instances[b]) : g = cached'[b] \/ g \in evicted'[b]
    <3>1. /\ cached[b] <= Len(instances[b]) /\ evicted[b] \subseteq 1..Len(instances[b])
          /\ \A g \in 1..Len(instances[b]) : g = cached[b] \/ g \in evicted[b]
      BY DEF IInv, MemInv, OnlyAgeReplaces
    <3>2. CASE expired[b]
      BY <1>4, <2>2, <2>3, <3>1, <3>2
    <3>3. CASE ~expired[b]
      BY <2>2, <3>1, <3>3
    <3> QED
      BY <3>2, <3>3
  <2> QED
    BY <1>1, <2>1, <2>2, <2>5 DEF IInv, MemInv, OnlyAgeReplaces
<1>7. ReqInv'
  BY <1>1, <1>3 DEF IInv, ReqInv
<1>8. StopInv'
  <2>1. \A p \in Requests : request'[p].at = "price" => request'[p] = request[p]
    BY <1>1, <1>3 DEF IInv, ReqInv
  <2> QED
    BY <1>1, <2>1 DEF IInv, StopInv, StopSticks
<1>9. LatestInv'
  <2>1. /\ faithful' \in [Bots -> BOOLEAN] /\ ~faithful'[b]
        /\ \A c \in Bots \ {b} : faithful'[c] = faithful[c]
    BY <1>1 DEF IInv, LatestInv
  <2>2. \A c \in Bots \ {b} : cached'[c] = cached[c] /\ evicted'[c] = evicted[c]
    BY <1>2 DEF IInv, MemInv
  <2>3. \A c \in Bots : Latest(c)' = Latest(c)
    BY <1>1 DEF Latest
  <2> QED
    BY <1>1, <2>1, <2>2, <2>3 DEF IInv, LatestInv
<1> QED
  BY <1>5, <1>6, <1>7, <1>8, <1>9 DEF IInv

LEMMA RefusedStep ==
  ASSUME IInv, NEW r \in Requests, RequestRefused(r)
  PROVE  IInv'
<1>1. /\ request' = [request EXCEPT ![r] = IdleRequest]
      /\ UNCHANGED <<row, writes, instances, cached, expired, evicted, halted, round, faithful, stopHolds>>
  BY DEF RequestRefused, disk, memory, history
<1>2. MemInv' /\ DiskInv' /\ RoundInv' /\ LatestInv'
  BY <1>1 DEF IInv, MemInv, OnlyAgeReplaces, DiskInv, RoundInv, LatestInv, Latest
<1>3. /\ request' \in [Requests -> Request0]
      /\ \A q \in Requests : request'[q].at # "idle" => request'[q] = request[q]
  BY <1>1, Idle DEF IInv, ReqInv
<1>4. ReqInv' /\ StopInv'
  BY <1>1, <1>3 DEF IInv, ReqInv, StopInv, StopSticks
<1> QED
  BY <1>2, <1>4 DEF IInv

LEMMA StartBeginStep ==
  ASSUME IInv, NEW r \in Requests, NEW b \in Bots, StartBegin(r, b)
  PROVE  IInv'
<1> DEFINE q == [IdleRequest EXCEPT !.at = "price", !.bot = b, !.made = cached[b]]
<1>1. /\ cached[b] # 0
      /\ request' = [request EXCEPT ![r] = q]
      /\ stopHolds' = [stopHolds EXCEPT ![b] = FALSE]
      /\ UNCHANGED <<row, writes, instances, cached, expired, evicted, halted, round, faithful>>
  BY DEF StartBegin, disk, memory, Hit
<1>2. cached[b] \in 1..Len(instances[b]) /\ cached[b] \in Nat
  BY <1>1 DEF IInv, MemInv
<1>3. q \in Request0 /\ q.at = "price" /\ q.bot = b /\ q.made = cached[b]
  BY <1>2, Idle DEF Request0
<1> HIDE DEF q
<1>4. MemInv' /\ DiskInv' /\ RoundInv' /\ LatestInv'
  BY <1>1 DEF IInv, MemInv, OnlyAgeReplaces, DiskInv, RoundInv, LatestInv, Latest
<1>5. ReqInv'
  BY <1>1, <1>2, <1>3 DEF IInv, ReqInv
<1>6. StopInv'
  <2>1. /\ stopHolds' \in [Bots -> BOOLEAN] /\ ~stopHolds'[b]
        /\ \A c \in Bots \ {b} : stopHolds'[c] = stopHolds[c]
    BY <1>1 DEF IInv, StopInv
  <2>2. \A p \in Requests : request'[p] = request[p] \/ request'[p].bot = b
    BY <1>1, <1>3 DEF IInv, ReqInv
  <2> QED
    BY <1>1, <2>1, <2>2 DEF IInv, StopInv, StopSticks
<1> QED
  BY <1>4, <1>5, <1>6 DEF IInv

LEMMA ServedStep ==
  ASSUME IInv, NEW r \in Requests, RequestServed(r)
  PROVE  IInv'
<1>0. PICK b \in Bots, op \in Ops, rw \in D1Statuses :
         b = request[r].bot /\ op = request[r].op /\ rw = request[r].row
  <2>1. request[r] \in Request0 /\ request[r].row # NoRow
    BY DEF RequestServed, IInv, ReqInv
  <2> QED
    BY <2>1 DEF Request0
<1> DEFINE s == Restored(rw)
           t == Acted(op, s)
           n == Len(instances[b]) + 1
           rows == [c \in Bots |-> rw]
           made == [c \in Bots |-> t]
<1>1. /\ request[r].at = "answered" /\ cached[b] = 0
      /\ Hydrate({b}, rows, made)
      /\ writes' = Reported(writes, b, s, t)
      /\ Asked(op, b, n, s # t)
      /\ request' = [request EXCEPT ![r] = IdleRequest]
      /\ UNCHANGED <<row, halted, round>>
  BY <1>0 DEF RequestServed, Vacant
<1>2. request \in [Requests -> Request0]
  BY DEF IInv, ReqInv
<1>3. s \in Instance /\ ~s.ticking /\ s.status = ToBotStatus(rw)
  BY <1>2, FreshTyped
<1>4. /\ t \in Instance /\ (t.status = "stopped" => ~t.ticking)
      /\ op = "stop" => ~t.ticking
      /\ t = s => ~t.ticking
  BY <1>2, <1>3, ActedTyped
<1>5. rows[b] = rw /\ made[b] = t /\ ~Hit(b)
  BY <1>1, <1>2 DEF Hit
<1> HIDE DEF s, t, rows, made
<1>6. /\ DiskInv'
      /\ row[b] # NoRow /\ ToBotStatus(Latest(b)) = s.status => ToBotStatus(Latest(b)') = t.status
      /\ \A c \in Bots \ {b} : Latest(c)' = Latest(c)
  BY <1>1, <1>2, <1>3, <1>4, ReportedTyped DEF IInv
<1>7. /\ MemInv' /\ LatestInv'
      /\ \A c \in Bots \ {b} :
            instances'[c] = instances[c] /\ cached'[c] = cached[c] /\ evicted'[c] = evicted[c]
      /\ \A c \in {b} :
            /\ Len(instances'[c]) = Len(instances[c]) + 1
            /\ cached'[c] = Len(instances[c]) + 1
            /\ instances'[c][Len(instances[c]) + 1] = made[c]
            /\ \A g \in 1..Len(instances[c]) : instances'[c][g] = instances[c][g]
      /\ \A c \in Bots : Len(instances[c]) \in Nat /\ Len(instances'[c]) \in Nat
                         /\ Len(instances[c]) <= Len(instances'[c])
  <2>1. Makeable({b}, made)
    BY <1>3, <1>4, <1>5 DEF Makeable
  <2>2. ToldOf({b}, rows, made)
    BY <1>1, <1>2, <1>3, <1>5, <1>6 DEF ToldOf
  <2>3. MemInv' /\ LatestInv' /\ Grown({b}, made)
    BY <1>1, <2>1, <2>2, HydrateKeeps
  <2> QED
    BY <2>3 DEF Grown
<1>8. /\ request' \in [Requests -> Request0]
      /\ \A q \in Requests : request'[q].at # "idle" => request'[q] = request[q]
  BY <1>1, <1>2, Idle
<1>9. ReqInv' /\ RoundInv'
  <2>1. RoundInv'
    BY <1>1, <1>7, OthersKeep DEF IInv
  <2>2. \A q \in Requests : request[q].bot \in Bots
    BY <1>2 DEF Request0
  <2>3. \A q \in Requests : request[q].made \in 1..Len(instances[request[q].bot])
                            => request[q].made \in 1..Len(instances'[request[q].bot])
    BY <1>7, <2>2
  <2> QED
    BY <1>8, <2>1, <2>3 DEF IInv, ReqInv
<1>10. StopInv'
  <2>1. stopHolds \in [Bots -> BOOLEAN]
    BY DEF IInv, StopInv
  <2>2. /\ (IF op = "stop" THEN ~Contested(b, n) ELSE stopHolds[b] /\ ~(s # t)) \in BOOLEAN
        /\ stopHolds' = [stopHolds EXCEPT ![b] =
              IF op = "stop" THEN ~Contested(b, n) ELSE @ /\ ~(s # t)]
    BY <1>1 DEF Asked, Contested
  <2>3. /\ stopHolds' \in [Bots -> BOOLEAN] /\ \A c \in Bots \ {b} : stopHolds'[c] = stopHolds[c]
        /\ stopHolds'[b] = (IF op = "stop" THEN ~Contested(b, n) ELSE stopHolds[b] /\ ~(s # t))
    BY <1>2, <2>1, <2>2
  <2>4. \A h \in 1..Len(instances'[b]) :
           \/ h \in 1..Len(instances[b]) /\ h # n /\ instances'[b][h] = instances[b][h]
           \/ h = n /\ instances'[b][h] = t
    BY <1>2, <1>5, <1>7
  <2>5. ASSUME stopHolds'[b]
        PROVE  /\ \A h \in 1..Len(instances'[b]) : ~instances'[b][h].ticking
               /\ \A q \in Requests : ~(request[q].at = "price" /\ request[q].bot = b)
               /\ round.rows[b] = NoRow
               /\ \A i \in round.list : i[1] # b
    <3>1. CASE op = "stop"
      BY <1>4, <2>3, <2>4, <2>5, <3>1 DEF Contested
    <3>2. CASE op # "stop"
      <4>1. stopHolds[b] /\ t = s
        BY <2>3, <2>5, <3>2
      <4>2. \A h \in 1..Len(instances[b]) : ~instances[b][h].ticking
        BY <1>2, <4>1 DEF IInv, StopInv, StopSticks
      <4> QED
        BY <1>2, <1>4, <2>4, <4>1, <4>2 DEF IInv, StopInv
    <3> QED
      BY <3>1, <3>2
  <2>6. ASSUME NEW c \in Bots, c # b, stopHolds'[c]
        PROVE  /\ \A h \in 1..Len(instances'[c]) : ~instances'[c][h].ticking
               /\ \A q \in Requests : ~(request[q].at = "price" /\ request[q].bot = c)
               /\ round.rows[c] = NoRow
               /\ \A i \in round.list : i[1] # c
    BY <1>7, <2>3, <2>6 DEF IInv, StopInv, StopSticks
  <2> QED
    BY <1>1, <1>8, <2>3, <2>5, <2>6 DEF StopInv, StopSticks
<1> QED
  BY <1>6, <1>7, <1>9, <1>10 DEF IInv

----------------------------------------------------------------------------
(* The scheduler's round.                                                  *)

\* A step that moves the round alone, or gives up stops that held.
LEMMA RoundMoves ==
  ASSUME IInv, UNCHANGED <<row, writes, instances, cached, expired, evicted, request, faithful>>,
         RoundInv',
         stopHolds' \in [Bots -> BOOLEAN],
         \A b \in Bots : stopHolds'[b] =>
            stopHolds[b] /\ round'.rows[b] = NoRow /\ \A i \in round'.list : i[1] # b
  PROVE  IInv'
<1>1. MemInv' /\ DiskInv' /\ ReqInv' /\ LatestInv'
  BY DEF IInv, MemInv, OnlyAgeReplaces, DiskInv, ReqInv, LatestInv, Latest
<1>2. StopInv'
  BY DEF IInv, StopInv, StopSticks
<1> QED
  BY <1>1, <1>2 DEF IInv

LEMMA BeginsStep ==
  ASSUME IInv, RoundBegins
  PROVE  IInv'
<1>1. /\ round' = [IdleRound EXCEPT !.at = "answered", !.rows = RunningRows]
      /\ stopHolds' = [b \in Bots |-> stopHolds[b] /\ b \notin {c \in Bots : Running(row[c])}]
      /\ UNCHANGED <<row, writes, instances, cached, expired, evicted, halted, request, faithful>>
  BY DEF RoundBegins, Taken, disk, memory
<1>2. RunningRows \in [Bots -> D1Statuses \cup {NoRow}]
  BY DEF IInv, DiskInv, RunningRows
<1>3. round' \in Round0 /\ round'.rows = RunningRows /\ round'.list = {} /\ round'.todo = {}
      /\ round'.at = "answered"
  BY <1>1, <1>2, Idle DEF Round0
<1>4. RoundInv'
  BY <1>3 DEF RoundInv
<1>5. /\ stopHolds' \in [Bots -> BOOLEAN]
      /\ \A b \in Bots : stopHolds'[b] => stopHolds[b] /\ ~Running(row[b])
  <2>1. \A b \in Bots : (stopHolds[b] /\ b \notin {c \in Bots : Running(row[c])}) \in BOOLEAN
    OBVIOUS
  <2> QED
    BY <1>1, <2>1
<1>6. \A b \in Bots : ~Running(row[b]) => RunningRows[b] = NoRow
  BY DEF RunningRows
<1> QED
  BY <1>1, <1>3, <1>4, <1>5, <1>6, RoundMoves

LEMMA FallsBackStep ==
  ASSUME IInv, RoundFallsBack
  PROVE  IInv'
<1> DEFINE bs == {b \in Bots : Hit(b) /\ instances[b][cached[b]].status = "running"}
           list == {<<b, cached[b]>> : b \in bs}
<1>1. /\ round' = [IdleRound EXCEPT !.at = "restart", !.list = list, !.todo = list]
      /\ stopHolds' = [b \in Bots |-> stopHolds[b] /\ b \notin bs]
      /\ UNCHANGED <<row, writes, instances, cached, expired, evicted, halted, request, faithful>>
  BY DEF RoundFallsBack, Taken, disk, memory
<1>2. /\ list \in SUBSET (Bots \X Nat)
      /\ \A i \in list : i[1] \in bs /\ i[2] \in 1..Len(instances[i[1]])
  <2>1. \A b \in bs : b \in Bots /\ cached[b] \in Nat /\ cached[b] \in 1..Len(instances[b])
    BY DEF IInv, MemInv, Hit
  <2> QED
    BY <2>1
<1> HIDE DEF bs, list
<1>3. /\ round' \in Round0 /\ round'.list = list /\ round'.todo = list /\ round'.at = "restart"
      /\ \A b \in Bots : round'.rows[b] = NoRow
  BY <1>1, <1>2, Idle DEF Round0
<1>4. RoundInv'
  BY <1>1, <1>2, <1>3 DEF RoundInv
<1>5. /\ stopHolds' \in [Bots -> BOOLEAN]
      /\ \A b \in Bots : stopHolds'[b] => stopHolds[b] /\ b \notin bs
  <2>1. \A b \in Bots : (stopHolds[b] /\ b \notin bs) \in BOOLEAN
    OBVIOUS
  <2> QED
    BY <1>1, <2>1
<1> QED
  BY <1>1, <1>2, <1>3, <1>4, <1>5, RoundMoves

LEMMA HydratesStep ==
  ASSUME IInv, RoundHydrates
  PROVE  IInv'
<1> DEFINE bs == {b \in Bots : round.rows[b] # NoRow}
           new == {b \in bs : ~Hit(b)}
           rows == round.rows
           made == [b \in Bots |-> Restored(rows[b])]
<1>1. /\ Hydrate(new, rows, made)
      /\ round' = [IdleRound EXCEPT !.at = "restart", !.list = {<<b, cached'[b]>> : b \in bs},
                                    !.todo = {<<b, cached'[b]>> : b \in bs}]
      /\ UNCHANGED <<row, writes, halted, request, stopHolds>>
  BY DEF RoundHydrates, disk
<1>2. \A b \in bs : b \in Bots /\ round.rows[b] \in D1Statuses
  BY DEF IInv, RoundInv, Round0
<1>3. \A b \in new : /\ made[b] \in Instance /\ ~made[b].ticking
                     /\ made[b].status = ToBotStatus(rows[b])
                     /\ ~Hit(b) /\ b \in bs
  BY <1>2, FreshTyped
<1>4. /\ \A b \in Bots : Latest(b)' = Latest(b)
      /\ new \in SUBSET Bots
      /\ \A b \in bs \ new : Hit(b)
  BY <1>1 DEF Latest
<1>5. \A b \in Bots : b \notin bs => round.rows[b] = NoRow
  OBVIOUS
<1> HIDE DEF made, rows, bs, new
<1>6. /\ MemInv' /\ LatestInv'
      /\ \A c \in Bots \ new :
            instances'[c] = instances[c] /\ cached'[c] = cached[c] /\ evicted'[c] = evicted[c]
      /\ \A c \in new :
            /\ Len(instances'[c]) = Len(instances[c]) + 1
            /\ cached'[c] = Len(instances[c]) + 1
            /\ instances'[c][Len(instances[c]) + 1] = made[c]
            /\ \A g \in 1..Len(instances[c]) : instances'[c][g] = instances[c][g]
      /\ \A c \in Bots : Len(instances[c]) \in Nat /\ Len(instances'[c]) \in Nat
                         /\ Len(instances[c]) <= Len(instances'[c])
  <2>1. Makeable(new, made)
    BY <1>3 DEF Makeable
  <2>2. ToldOf(new, rows, made)
    BY <1>1, <1>3, <1>4 DEF ToldOf
  <2>3. MemInv' /\ LatestInv' /\ Grown(new, made)
    BY <1>1, <1>4, <2>1, <2>2, HydrateKeeps
  <2> QED
    BY <2>3 DEF Grown
<1>7. DiskInv' /\ ReqInv'
  BY <1>1, <1>6, OthersKeep DEF IInv, DiskInv
<1> DEFINE list == {<<b, cached'[b]>> : b \in bs}
<1>8. /\ list \in SUBSET (Bots \X Nat)
      /\ \A i \in list : i[1] \in bs /\ i[2] \in 1..Len(instances'[i[1]])
  <2>1. \A b \in bs : cached'[b] # 0
    <3>1. \A b \in new : cached'[b] # 0
      BY <1>4, <1>6
    <3>2. \A b \in bs \ new : cached'[b] # 0
      BY <1>2, <1>4, <1>6 DEF Hit
    <3> QED
      BY <3>1, <3>2
  <2>2. \A b \in Bots : cached'[b] \in Nat /\ cached'[b] <= Len(instances'[b])
    BY <1>6 DEF MemInv
  <2>3. \A b \in bs : b \in Bots /\ cached'[b] \in Nat /\ cached'[b] \in 1..Len(instances'[b])
    BY <1>2, <1>6, <2>1, <2>2
  <2> QED
    BY <2>3
<1>9. round' = [IdleRound EXCEPT !.at = "restart", !.list = list, !.todo = list]
  BY <1>1
<1> HIDE DEF list
<1>10. /\ round' \in Round0 /\ round'.list = list /\ round'.todo = list /\ round'.at = "restart"
       /\ \A b \in Bots : round'.rows[b] = NoRow
  BY <1>8, <1>9, Idle DEF Round0
<1>11. RoundInv'
  BY <1>8, <1>10 DEF RoundInv
<1>12. StopInv'
  <2>1. \A b \in new : \A h \in 1..Len(instances'[b]) :
           h \in 1..Len(instances[b]) \/ h = Len(instances[b]) + 1
    BY <1>4, <1>6
  <2>2. \A b \in Bots : \A h \in 1..Len(instances'[b]) :
           instances'[b][h].ticking => h \in 1..Len(instances[b]) /\ instances[b][h].ticking
    BY <1>3, <1>4, <1>6, <2>1
  <2>3. \A b \in Bots : stopHolds[b] => b \notin bs
    BY <1>2, Conversions DEF IInv, StopInv
  <2>4. \A i \in list : i[1] \in bs
    BY <1>8
  <2> QED
    BY <1>1, <1>10, <2>2, <2>3, <2>4 DEF IInv, StopInv, StopSticks
<1> QED
  BY <1>6, <1>7, <1>11, <1>12 DEF IInv

LEMMA RestartsStep ==
  ASSUME IInv, RoundRestarts
  PROVE  IInv'
<1>1. PICK i \in round.todo :
        \/ round' = [round EXCEPT !.todo = @ \ {i}]
        \/ round' = [round EXCEPT !.at = "price", !.todo = @ \ {i}, !.now = i]
  BY DEF RoundRestarts
<1>2. UNCHANGED <<row, writes, instances, cached, expired, evicted, halted, request, faithful, stopHolds>>
  BY DEF RoundRestarts, disk, memory, history
<1>3. /\ round \in Round0 /\ i \in round.list /\ i \in Bots \X Nat
      /\ round.at = "restart"
  BY DEF IInv, RoundInv, Round0, RoundRestarts
<1>4. /\ round' \in Round0 /\ round'.list = round.list /\ round'.rows = round.rows
      /\ round'.todo \subseteq round.todo
      /\ round'.at = "price" => round'.now = i
  BY <1>1, <1>3 DEF Round0
<1>5. RoundInv'
  BY <1>2, <1>3, <1>4 DEF IInv, RoundInv
<1> QED
  BY <1>2, <1>4, <1>5, RoundMoves DEF IInv, StopInv

LEMMA RoundStartEndsStep ==
  ASSUME IInv, RoundStartEnds
  PROVE  IInv'
<1>1. /\ round \in Round0 /\ round.now \in round.list
      /\ \A i \in round.list : i \in Bots \X Nat /\ i[2] \in 1..Len(instances[i[1]])
  BY DEF IInv, RoundInv, Round0, RoundStartEnds
<1>2. PICK b \in Bots, g \in Nat : round.now = <<b, g>>
  BY <1>1
<1>3. /\ g \in 1..Len(instances[b])
      /\ Started(b, g) \/ Failed(b, g)
      /\ round' = [round EXCEPT !.at = "restart", !.now = IdleRound.now]
      /\ UNCHANGED <<row, cached, expired, evicted, halted, request, faithful, stopHolds>>
  BY <1>1, <1>2 DEF RoundStartEnds, history
<1>4. /\ MemInv' /\ DiskInv' /\ LatestInv'
      /\ \A c \in Bots : Len(instances'[c]) = Len(instances[c]) /\ Len(instances[c]) \in Nat
      /\ \A c \in Bots \ {b} : \A h \in 1..Len(instances[c]) : instances'[c][h] = instances[c][h]
  BY <1>3, StartKeeps
<1>5. ReqInv'
  BY <1>3, <1>4, OthersKeep DEF IInv
<1>6. /\ round' \in Round0 /\ round'.list = round.list /\ round'.todo = round.todo
      /\ round'.rows = round.rows /\ round'.at = "restart"
  BY <1>1, <1>3, Idle DEF Round0
<1>7. RoundInv'
  BY <1>1, <1>4, <1>6 DEF IInv, RoundInv
<1>8. StopInv'
  <2>1. ~stopHolds[b]
    BY <1>1, <1>2 DEF IInv, StopInv
  <2> QED
    BY <1>3, <1>4, <1>6, <2>1 DEF IInv, StopInv, StopSticks
<1> QED
  BY <1>4, <1>5, <1>7, <1>8 DEF IInv

LEMMA GoesOnStep ==
  ASSUME IInv, RoundGoesOn \/ RoundEnds
  PROVE  IInv'
<1>1. UNCHANGED <<row, writes, instances, cached, expired, evicted, halted, request, faithful, stopHolds>>
  BY DEF RoundGoesOn, RoundEnds, disk, memory, history
<1>2. CASE RoundGoesOn
  <2>1. /\ round' \in Round0 /\ round'.list = round.list /\ round'.todo = round.list
        /\ round'.rows = round.rows /\ round'.at = "ticks"
    BY <1>2 DEF IInv, RoundInv, Round0, RoundGoesOn
  <2>2. RoundInv'
    BY <1>1, <2>1 DEF IInv, RoundInv
  <2> QED
    BY <1>1, <2>1, <2>2, RoundMoves DEF IInv, StopInv
<1>3. CASE RoundEnds
  <2>1. round' = IdleRound
    BY <1>3 DEF RoundEnds
  <2>2. RoundInv'
    BY <2>1, Idle DEF RoundInv
  <2> QED
    BY <1>1, <2>1, <2>2, Idle, RoundMoves DEF IInv, StopInv
<1> QED
  BY <1>2, <1>3

LEMMA TicksStep ==
  ASSUME IInv, RoundTicks
  PROVE  IInv'
<1>1. PICK i \in round.todo : TickOf(i[1], i[2]) /\ round' = [round EXCEPT !.todo = @ \ {i}]
  BY DEF RoundTicks
<1>2. /\ UNCHANGED <<row, cached, expired, evicted, halted, request, faithful, stopHolds>>
      /\ round.at = "ticks"
  BY DEF RoundTicks, history
<1>3. round \in Round0 /\ i \in Bots \X Nat /\ i[2] \in 1..Len(instances[i[1]])
  BY DEF IInv, RoundInv, Round0
<1>4. PICK b \in Bots, g \in Nat : i = <<b, g>>
  BY <1>3
<1>5. /\ MemInv' /\ DiskInv' /\ LatestInv'
      /\ \A c \in Bots : Len(instances'[c]) = Len(instances[c]) /\ Len(instances[c]) \in Nat
      /\ \A c \in Bots : \A h \in 1..Len(instances[c]) :
            instances'[c][h].ticking => instances[c][h].ticking
  BY <1>1, <1>2, <1>3, <1>4, TickKeeps
<1>6. ReqInv'
  BY <1>2, <1>5, OthersKeep DEF IInv
<1>7. /\ round' \in Round0 /\ round'.list = round.list /\ round'.todo \subseteq round.todo
      /\ round'.rows = round.rows /\ round'.at = "ticks"
  BY <1>1, <1>2, <1>3 DEF Round0
<1>8. RoundInv'
  <2>1. \A j \in round.list : j[1] \in Bots /\ j[2] \in 1..Len(instances[j[1]])
    BY DEF IInv, RoundInv, Round0
  <2> QED
    BY <1>5, <1>7, <2>1 DEF IInv, RoundInv
<1>9. StopInv'
  BY <1>2, <1>5, <1>7 DEF IInv, StopInv, StopSticks
<1> QED
  BY <1>5, <1>6, <1>8, <1>9 DEF IInv

----------------------------------------------------------------------------
(* The killswitch, and the isolate.                                        *)

LEMMA HaltStep ==
  ASSUME IInv, Halt
  PROVE  IInv'
<1> DEFINE told == {b \in Bots : cached[b] # 0 /\ instances[b][cached[b]].status # "stopped"}
<1>1. /\ instances' = [b \in Bots |->
                IF cached[b] # 0 THEN [instances[b] EXCEPT ![cached[b]] = Stopped(@)]
                                 ELSE instances[b]]
      /\ writes' = [b \in Bots |-> IF b \in told THEN Told(writes, b, "stopped")[b]
                                                 ELSE writes[b]]
      /\ UNCHANGED <<row, cached, expired, evicted, request, round, faithful, stopHolds>>
  BY DEF Halt, history
<1>2. /\ instances \in [Bots -> Seq(Instance)] /\ cached \in [Bots -> Nat]
      /\ row \in [Bots -> D1Statuses \cup {NoRow}] /\ writes \in [Bots -> Seq(D1Statuses)]
      /\ faithful \in [Bots -> BOOLEAN]
  BY DEF IInv, MemInv, DiskInv, LatestInv
<1>3. \A s \in Instance : /\ Stopped(s) \in Instance /\ Stopped(s).status = "stopped"
                          /\ Stopped(s).ticking => s.ticking /\ s.status = "stopped"
  BY DEF Instance, Statuses, Stopped
<1>4. ASSUME NEW b \in Bots
      PROVE  /\ instances'[b] \in Seq(Instance)
             /\ Len(instances'[b]) = Len(instances[b]) /\ Len(instances[b]) \in Nat
             /\ \A g \in 1..Len(instances[b]) :
                   /\ g = cached[b] => instances'[b][g].status = "stopped"
                   /\ instances'[b][g].status # "stopped" => instances'[b][g] = instances[b][g]
                   /\ instances'[b][g].ticking => instances[b][g].ticking
                   /\ instances'[b][g].status = "stopped" => ~instances'[b][g].ticking
  <2>1. /\ instances[b] \in Seq(Instance)
        /\ \A g \in 1..Len(instances[b]) :
              instances[b][g].status = "stopped" => ~instances[b][g].ticking
    BY DEF IInv, MemInv
  <2>2. CASE cached[b] = 0
    <3>1. instances'[b] = instances[b]
      BY <1>1, <2>2
    <3> QED
      BY <2>1, <2>2, <3>1
  <2>3. CASE cached[b] # 0
    <3> DEFINE g0 == cached[b]
    <3>1. g0 \in 1..Len(instances[b])
      BY <2>3 DEF IInv, MemInv
    <3>2. instances'[b] = [instances[b] EXCEPT ![g0] = Stopped(instances[b][g0])]
      BY <1>1, <2>3
    <3>3. instances[b][g0] \in Instance
      BY <2>1, <3>1
    <3> HIDE DEF g0
    <3>4. PICK t : t = Stopped(instances[b][g0])
      OBVIOUS
    <3>5. /\ t \in Instance /\ t.status = "stopped" /\ ~t.ticking
      BY <1>3, <2>1, <3>1, <3>3, <3>4
    <3>6. /\ instances'[b] \in Seq(Instance) /\ Len(instances'[b]) = Len(instances[b])
          /\ Len(instances[b]) \in Nat
          /\ \A g \in 1..Len(instances[b]) :
                instances'[b][g] = IF g = g0 THEN t ELSE instances[b][g]
      BY <2>1, <3>1, <3>2, <3>4, <3>5
    <3> QED
      BY <2>1, <3>5, <3>6 DEF g0
  <2> QED
    BY <2>2, <2>3
<1>5. MemInv'
  <2>1. instances' \in [Bots -> Seq(Instance)]
    BY <1>1, <1>4
  <2> QED
    BY <1>1, <1>4, <2>1 DEF IInv, MemInv, OnlyAgeReplaces
<1>6. ReqInv' /\ RoundInv'
  BY <1>1, <1>4, OthersKeep DEF IInv
<1>7. StopInv'
  BY <1>1, <1>4 DEF IInv, StopInv, StopSticks
<1>8. ASSUME NEW b \in Bots
      PROVE  /\ writes'[b] \in Seq(D1Statuses)
             /\ row[b] = NoRow => writes'[b] = <<>>
             /\ b \in told /\ row[b] # NoRow => ToBotStatus(Latest(b)') = "stopped"
             /\ b \notin told => Latest(b)' = Latest(b)
  <2>1. CASE b \notin told
    <3>1. writes'[b] = writes[b] /\ row'[b] = row[b]
      BY <1>1, <2>1
    <3> QED
      BY <1>2, <2>1, <3>1 DEF IInv, DiskInv, Latest
  <2>2. CASE b \in told /\ row[b] = NoRow
    <3>1. writes'[b] = writes[b]
      BY <1>1, <2>2 DEF Told
    <3> QED
      BY <1>2, <2>2, <3>1 DEF IInv, DiskInv
  <2>3. CASE b \in told /\ row[b] # NoRow
    <3>1. writes'[b] = Append(writes[b], "stopped") /\ writes[b] \in Seq(D1Statuses)
      BY <1>1, <1>2, <2>3 DEF Told, ToD1Status
    <3>2. "stopped" \in D1Statuses /\ ToBotStatus("stopped") = "stopped"
      BY DEF D1Statuses, ToBotStatus
    <3>3. /\ writes'[b] \in Seq(D1Statuses) /\ writes'[b] # <<>>
          /\ writes'[b][Len(writes'[b])] = "stopped"
      BY <3>1, <3>2
    <3> QED
      BY <2>3, <3>2, <3>3 DEF Latest
  <2> QED
    BY <2>1, <2>2, <2>3
<1>9. DiskInv'
  <2>1. writes' \in [Bots -> Seq(D1Statuses)]
    BY <1>1, <1>8
  <2> QED
    BY <1>1, <1>8, <2>1 DEF IInv, DiskInv
<1>10. LatestInv'
  <2>1. ASSUME NEW b \in Bots, cached[b] # 0, row[b] # NoRow, faithful[b], evicted[b] = {}
        PROVE  ToBotStatus(Latest(b)') = instances'[b][cached[b]].status
    <3>1. cached[b] \in 1..Len(instances[b])
      BY <2>1 DEF IInv, MemInv
    <3>2. instances'[b][cached[b]].status = "stopped"
      BY <1>4, <3>1
    <3>3. b \notin told => ToBotStatus(Latest(b)) = "stopped"
      BY <2>1 DEF IInv, LatestInv
    <3> QED
      BY <1>8, <2>1, <3>2, <3>3
  <2> QED
    BY <1>1, <1>2, <2>1 DEF LatestInv
<1> QED
  BY <1>5, <1>6, <1>7, <1>9, <1>10 DEF IInv

LEMMA ColdStartStep ==
  ASSUME IInv, ColdStart
  PROVE  IInv'
<1>1. MemInv'
  BY DEF ColdStart, MemInv, OnlyAgeReplaces
<1>2. DiskInv'
  BY DEF IInv, ColdStart, DiskInv, disk
<1>3. ReqInv' /\ RoundInv'
  BY Idle DEF ColdStart, ReqInv, RoundInv
<1>4. StopInv'
  BY Idle DEF IInv, ColdStart, StopInv, StopSticks
<1>5. LatestInv'
  BY DEF ColdStart, LatestInv
<1> QED
  BY <1>1, <1>2, <1>3, <1>4, <1>5 DEF IInv

LEMMA LiftStep ==
  ASSUME IInv, Lift \/ UNCHANGED vars
  PROVE  IInv'
<1>1. UNCHANGED <<row, writes, instances, cached, expired, evicted, request, round, faithful, stopHolds>>
  BY DEF Lift, vars, disk, memory, history
<1> QED
  BY <1>1 DEF IInv, MemInv, OnlyAgeReplaces, DiskInv, ReqInv, RoundInv, StopInv, StopSticks,
             LatestInv, Latest

----------------------------------------------------------------------------
(* The theorems.                                                           *)

LEMMA Inductive == Spec => []IInv
<1>1. ASSUME IInv, [Next]_vars PROVE IInv'
  <2>1. CASE \E b \in Bots : \/ WriteArrives(b) \/ WriteFails(b)
                             \/ EntryExpires(b) \/ Create(b)
                             \/ \E op \in Ops : RequestHit(op, b)
                             \/ IntervalFires(b)
    BY <1>1, <2>1, WriteStep, ExpiresStep, CreateStep, RequestHitStep, IntervalStep
  <2>2. CASE \E r \in Requests : Request(r)
    BY <1>1, <2>2, StartBeginStep, MissStep, ServedStep, RefusedStep, StartEndsStep DEF Request
  <2>3. CASE Round
    BY <1>1, <2>3, BeginsStep, HydratesStep, FallsBackStep, RestartsStep, RoundStartEndsStep,
       GoesOnStep, TicksStep DEF Round
  <2>4. CASE Halt \/ Lift \/ ColdStart \/ UNCHANGED vars
    BY <1>1, <2>4, HaltStep, LiftStep, ColdStartStep
  <2> QED
    BY <1>1, <2>1, <2>2, <2>3, <2>4 DEF Next
<1> QED
  BY <1>1, InitKeeps, PTL DEF Spec

\* The halt is nobody's premise: its type is kept on its own.
HaltInv == halted \in BOOLEAN

LEMMA HaltedTyped == Spec => []HaltInv
<1>1. Init => HaltInv
  BY DEF Init, HaltInv
<1>2. ASSUME HaltInv, [Next]_vars PROVE HaltInv'
  <2>1. ASSUME NEW b \in Bots,
               \/ WriteArrives(b) \/ WriteFails(b) \/ EntryExpires(b) \/ Create(b)
               \/ \E op \in Ops : RequestHit(op, b)
               \/ IntervalFires(b)
        PROVE  HaltInv'
    BY <1>2, <2>1 DEF HaltInv, WriteArrives, WriteFails, EntryExpires, Create, RequestHit,
       IntervalFires
  <2>2. ASSUME NEW r \in Requests, Request(r) PROVE HaltInv'
    BY <1>2, <2>2 DEF HaltInv, Request, StartBegin, RequestMiss, RequestServed, RequestRefused,
       StartEnds
  <2>3. CASE Round
    BY <1>2, <2>3 DEF HaltInv, Round, RoundBegins, RoundHydrates, RoundFallsBack, RoundRestarts,
       RoundStartEnds, RoundGoesOn, RoundTicks, RoundEnds
  <2>4. CASE Halt \/ Lift \/ ColdStart \/ UNCHANGED vars
    BY <1>2, <2>4 DEF HaltInv, Halt, Lift, ColdStart, vars
  <2> QED
    BY <1>2, <2>1, <2>2, <2>3, <2>4 DEF Next
<1> QED
  BY <1>1, <1>2, PTL DEF Spec

\* Rows, writes, instances, the cache, requests and rounds keep their types,
\* and nothing points past the instances that were made.
THEOREM Typed == Spec => []TypeOK
<1>1. IInv /\ HaltInv => TypeOK
  <2> SUFFICES ASSUME IInv, HaltInv PROVE TypeOK
    OBVIOUS
  <2>1. /\ instances \in [Bots -> Seq(Instance)] /\ cached \in [Bots -> Nat]
        /\ expired \in [Bots -> BOOLEAN]
        /\ \A b \in Bots : cached[b] <= Len(instances[b]) /\ evicted[b] \subseteq 1..Len(instances[b])
    BY DEF IInv, MemInv
  <2>2. row \in [Bots -> D1Statuses \cup {NoRow}] /\ writes \in [Bots -> Seq(D1Statuses)]
    BY DEF IInv, DiskInv
  <2>3. request \in [Requests -> Request0] /\ round \in Round0
    BY DEF IInv, ReqInv, RoundInv
  <2>4. faithful \in [Bots -> BOOLEAN] /\ stopHolds \in [Bots -> BOOLEAN]
    BY DEF IInv, LatestInv, StopInv
  <2> QED
    BY <2>1, <2>2, <2>3, <2>4, Zenon DEF HaltInv, TypeOK, Request0, Round0
<1> QED
  BY <1>1, Inductive, HaltedTyped, PTL

\* Whatever the interleaving of requests and rounds at their reads of D1, an
\* instance leaves the cache by its age only.
THEOREM AgeAloneReplaces == Spec => []OnlyAgeReplaces
<1>1. IInv => OnlyAgeReplaces
  BY DEF IInv, MemInv
<1> QED
  BY <1>1, Inductive, PTL

\* A stop nobody contested holds, for any number of bots, requests and cold
\* starts: no interval of the bot runs until somebody asks for it again.
THEOREM StopsStick == Spec => []StopSticks
<1>1. IInv => StopSticks
  BY DEF IInv, StopInv
<1> QED
  BY <1>1, Inductive, PTL

\* The fire-and-forget writes are enough when none was lost or overtaken: the
\* row then tells the status of the cached instance.
THEOREM RowsTell == Spec => []RowTellsTheBot
<1>1. IInv => RowTellsTheBot
  <2> SUFFICES ASSUME IInv, NEW b \in Bots, cached[b] # 0, row[b] # NoRow,
                      faithful[b], writes[b] = <<>>, evicted[b] = {}
               PROVE  ToBotStatus(row[b]) = instances[b][cached[b]].status
    BY DEF RowTellsTheBot
  <2>1. Latest(b) = row[b]
    BY DEF Latest
  <2> QED
    BY <2>1 DEF IInv, LatestInv
<1> QED
  BY <1>1, Inductive, PTL
=============================================================================
