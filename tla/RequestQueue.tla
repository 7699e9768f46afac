---------------------------- MODULE RequestQueue ----------------------------
(***************************************************************************)
(* The request queue of one exchange (tree/exchange/queue): the calls of   *)
(* the queued adapter that share it, and the drains that the scheduler's   *)
(* tick and the cron trigger run over it.                                  *)
(*                                                                         *)
(* A call puts its request in the queue, takes the head and runs it; only  *)
(* when it is refused, because the daily budget is spent, does it leave    *)
(* something behind.  Nothing of this waits, so a step is: a call up to    *)
(* the await of what it runs, what follows that await, and the same for a  *)
(* drain, from one await to the next.  An item is the request it runs.     *)
(***************************************************************************)
EXTENDS Integers, SequencesExt, FiniteSets

CONSTANTS
    Requests,    \* each made once, by one call of the adapter
    Drains,
    PriorityOf,  \* 0 is served first
    CostOf,
    Budget,      \* dailyBudget
    MaxDepth,
    BatchSize,   \* drainBatchSize
    None

ASSUME QueueAssumption ==
    /\ PriorityOf \in [Requests -> Nat]
    /\ CostOf \in [Requests -> Nat]
    /\ Budget \in Nat \ {0} /\ MaxDepth \in Nat \ {0} /\ BatchSize \in Nat \ {0}
    /\ None \notin Requests /\ None \notin Drains

VARIABLES
    queue,
    used,      \* the cost recorded today, up to Budget
    running,   \* the item each request's call awaits
    drain,     \* what each drain awaits, and how many items it has processed
    made,      \* how many requests have been made
    came,      \* when each of them was made, 0 before
    runs,      \* history: how often each request was run, up to 2
    refused,   \* history: a call found the budget spent, or the queue full
    raced      \* history: something was taken while another's drain awaited

history == <<runs, refused, raced>>
vars == <<queue, used, running, drain, made, came, history>>

IdleDrain == [item |-> None, processed |-> 0]

TypeOK ==
    /\ queue \in Seq(Requests) /\ Len(queue) <= MaxDepth
    /\ used \in 0 .. Budget
    /\ running \in [Requests -> Requests \cup {None}]
    /\ drain \in [Drains -> [item : Requests \cup {None}, processed : 0 .. BatchSize - 1]]
    /\ made \in Nat
    /\ came \in [Requests -> 0 .. made]
    /\ runs \in [Requests -> 0 .. 2]
    /\ refused \in BOOLEAN /\ raced \in BOOLEAN

Init ==
    /\ queue = <<>>
    /\ used = 0
    /\ running = [r \in Requests |-> None]
    /\ drain = [d \in Drains |-> IdleDrain]
    /\ made = 0
    /\ came = [r \in Requests |-> 0]
    /\ runs = [r \in Requests |-> 0]
    /\ refused = FALSE
    /\ raced = FALSE

----------------------------------------------------------------------------
(* The queue, and what a day's calls may cost.                             *)

\* Mutant of GoesFirst: an equal goes before its equals.
GoesFirstAlone(x, r) == PriorityOf[x] < PriorityOf[r]
\* x keeps its place before r.
GoesFirst(x, r) == PriorityOf[x] <= PriorityOf[r]

\* insertByPriority: a binary search for the place of r, counted from 0.
BinarySearch(q, r) ==
    LET Search[span \in (0 .. Len(q)) \X (0 .. Len(q))] ==
          LET lo == span[1]
              hi == span[2]
              mid == (lo + hi) \div 2
          IN  IF lo >= hi THEN lo
              ELSE IF GoesFirst(q[mid + 1], r) THEN Search[<<mid + 1, hi>>]
              ELSE Search[<<lo, mid>>]
    IN  Search[<<0, Len(q)>>]

Inserted(q, r) == InsertAt(q, BinarySearch(q, r) + 1, r)

\* Mutant of CanEnqueue: one item too many.
CanEnqueueOneMore == Len(queue) <= MaxDepth
CanEnqueue == Len(queue) < MaxDepth

OverBudget(u) == u >= Budget
Recorded(u, cost) == IF u + cost > Budget THEN Budget ELSE u + cost

Shifted(q) == IF q = <<>> THEN q ELSE Tail(q)

\* Another than d awaits what it took from the head.
Awaited(d) == \E e \in Drains \ {d} : drain[e].item # None
Ran(r) == runs' = [runs EXCEPT ![r] = IF @ = 2 THEN 2 ELSE @ + 1]

----------------------------------------------------------------------------
(* The calls.                                                              *)

\* A request is made, and its call starts an item, its own or not.
Call(r, item) ==
    /\ came[r] = 0
    /\ made' = made + 1
    /\ came' = [came EXCEPT ![r] = made']
    /\ running' = [running EXCEPT ![r] = item]
    /\ Ran(item)
    /\ UNCHANGED <<used, drain>>

\* The queue is full: the request is run past it.
CallFull(r) ==
    /\ ~CanEnqueue
    /\ Call(r, r)
    /\ refused' = TRUE
    /\ UNCHANGED <<queue, raced>>

\* The budget is spent: the request is run as well, and stays in the queue.
CallOverBudget(r) ==
    /\ CanEnqueue
    /\ OverBudget(used)
    /\ Call(r, r)
    /\ queue' = Inserted(queue, r)
    /\ refused' = TRUE
    /\ UNCHANGED raced

\* Mutant of CallQueued: the head is looked at and not taken.
CallPeeked(r) ==
    LET q == Inserted(queue, r)
    IN  /\ CanEnqueue
        /\ ~OverBudget(used)
        /\ Call(r, Head(q))
        /\ queue' = q
        /\ UNCHANGED <<refused, raced>>
\* The request goes in, and whatever is at the head comes out and is run.
CallQueued(r) ==
    LET q == Inserted(queue, r)
    IN  /\ CanEnqueue
        /\ ~OverBudget(used)
        /\ Call(r, Head(q))
        /\ queue' = Tail(q)
        /\ raced' = (raced \/ Awaited(None))
        /\ UNCHANGED refused

\* What the call awaited is there, or has failed; its own cost is recorded.
Return(r) ==
    /\ running[r] # None
    /\ running' = [running EXCEPT ![r] = None]
    /\ used' = Recorded(used, CostOf[r])
    /\ UNCHANGED <<queue, drain, made, came, history>>

\* fetchTicker, fetchOrderBook and fetchBalances go past the queue, but cost.
MarketRead ==
    /\ ~OverBudget(used)
    /\ used' = Recorded(used, 1)
    /\ UNCHANGED <<queue, running, drain, made, came, history>>

----------------------------------------------------------------------------
(* The drains.                                                             *)

\* Mutant of Goes: a head the budget does not allow is dropped.
GoesAndDrops(d, q, u, n) ==
    /\ used' = u
    /\ IF n < BatchSize /\ q # <<>> /\ ~OverBudget(u)
       THEN /\ drain' = [drain EXCEPT ![d] = [item |-> Head(q), processed |-> n]]
            /\ Ran(Head(q)) /\ queue' = q
       ELSE /\ drain' = [drain EXCEPT ![d] = IdleDrain]
            /\ queue' = Shifted(q)
            /\ UNCHANGED runs
\* The loop: drain d starts the head of q, or ends.
Goes(d, q, u, n) ==
    /\ queue' = q
    /\ used' = u
    /\ IF n < BatchSize /\ q # <<>> /\ ~OverBudget(u)
       THEN /\ drain' = [drain EXCEPT ![d] = [item |-> Head(q), processed |-> n]]
            /\ Ran(Head(q))
       ELSE /\ drain' = [drain EXCEPT ![d] = IdleDrain]
            /\ UNCHANGED runs

DrainStart(d) ==
    /\ drain[d].item = None
    /\ queue # <<>>
    /\ Goes(d, queue, used, 0)
    /\ UNCHANGED <<running, made, came, refused, raced>>

\* The item has been processed, or not; the head is shifted, whatever it is.
DrainGoesOn(d, success) ==
    LET item == drain[d].item
        n == drain[d].processed
    IN  /\ item # None
        /\ raced' = (raced \/ Awaited(d))
        /\ IF success
           THEN Goes(d, Shifted(queue), Recorded(used, CostOf[item]), n + 1)
           ELSE Goes(d, Shifted(queue), used, n)
        /\ UNCHANGED <<running, made, came, refused>>

\* Mutant of NewDay: the bucket of yesterday is kept.
SameDay == used = Budget /\ UNCHANGED vars
\* ensureBucket finds the bucket of another day.
NewDay ==
    /\ used > 0
    /\ used' = 0
    /\ UNCHANGED <<queue, running, drain, made, came, history>>

Work(d) == DrainStart(d) \/ \E success \in BOOLEAN : DrainGoesOn(d, success)

Next ==
    \/ \E r \in Requests : CallFull(r) \/ CallOverBudget(r) \/ CallQueued(r) \/ Return(r)
    \/ \E d \in Drains : Work(d)
    \/ MarketRead
    \/ NewDay

Spec == Init /\ [][Next]_vars

\* Awaited calls return and every day ends.  The scheduler and the cron trigger
\* drain every few minutes and a day's budget lasts longer than that, so they
\* meet a budget again and again, though not one that stays.
FairSpec ==
    /\ Spec
    /\ \A r \in Requests : WF_vars(Return(r))
    /\ \A d \in Drains : WF_vars(\E success \in BOOLEAN : DrainGoesOn(d, success))
    /\ SF_vars(\E d \in Drains : DrainStart(d))
    /\ WF_vars(NewDay)

----------------------------------------------------------------------------
(* Properties.                                                             *)

\* The queue is in the order of priority and, within one, of arrival.
PriorityThenArrival ==
    \A i, j \in DOMAIN queue : i < j =>
       \/ PriorityOf[queue[i]] < PriorityOf[queue[j]]
       \/ /\ PriorityOf[queue[i]] = PriorityOf[queue[j]]
          /\ came[queue[i]] < came[queue[j]]

\* As long as no call was refused the queue is only passed through: every
\* request made was run once, by its own call, whatever the drains do.
OnceWithinBudget ==
    ~refused => /\ queue = <<>>
                /\ \A r \in Requests : /\ runs[r] = IF came[r] > 0 THEN 1 ELSE 0
                                       /\ running[r] \in {r, None}

\* A request that was made was run or still waits in the queue, unless the head
\* was taken under a drain that awaited it.
NoneLost ==
    ~raced => \A r \in Requests :
       came[r] > 0 => runs[r] > 0 \/ \E i \in DOMAIN queue : queue[i] = r

\* What is left in the queue does not stay there for ever.
QueueDrains ==
    \A r \in Requests :
       (\E i \in DOMAIN queue : queue[i] = r) ~> ~ \E i \in DOMAIN queue : queue[i] = r

----------------------------------------------------------------------------
(* What a comment says, and the code does not keep.                        *)

\* A call runs the request it has just put in the queue.
RunsItsOwn == \A r \in Requests : running[r] \in {r, None}
=============================================================================
