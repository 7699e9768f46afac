------------------------ MODULE CircuitBreakerProofs ------------------------
(***************************************************************************)
(* What the circuit breaker guarantees for every set of calls and kinds    *)
(* and for every threshold and window.                                     *)
(***************************************************************************)
EXTENDS CircuitBreaker, TLAPS

-----------------------------------------------------------------------------
(* The transition functions.                                               *)

\* The window of an open breaker is a positive number of ticks.
LEMMA WindowPositive == Window \in Nat \ {0}
  BY WindowAssumption DEF Window

\* The transitions that no failure causes map contexts to contexts.
LEMMA TransitionsTyped ==
  ASSUME NEW b \in Contexts
  PROVE  /\ ApplyTrip(b) \in Contexts
         /\ ApplySuccess(b) \in Contexts
         /\ ApplyUpdate(b) \in Contexts
         /\ Elapsed(b) \in Contexts
<1> USE WindowPositive, ThresholdAssumption
<1>1. ApplyTrip(b) \in Contexts
  BY Window \in 0 .. Window DEF ApplyTrip, Contexts, EmptyKindCounters, States
<1>2. ApplySuccess(b) \in Contexts
  BY DEF ApplySuccess, Contexts, EmptyKindCounters, States
<1>3. ApplyUpdate(b) \in Contexts
  BY DEF ApplyUpdate, UpdateDue, Contexts, EmptyKindCounters, States
<1>4. Elapsed(b) \in Contexts
  BY DEF Elapsed, Contexts
<1> QED  BY <1>1, <1>2, <1>3, <1>4

\* applyFailure maps contexts to contexts, whatever the kind of the failure.
LEMMA FailureTyped ==
  ASSUME NEW b \in Contexts, NEW k \in Kinds
  PROVE  Counted(b, k) \in Contexts /\ ApplyFailure(b, k) \in Contexts
<1> USE WindowPositive, ThresholdAssumption
<1>1. Counted(b, k) \in Contexts
  <2>1. AtMost(b.kindCounters[k] + 1, Threshold[k]) \in Nat
    BY b.kindCounters[k] + 1 \in Nat, Threshold[k] \in Nat DEF AtMost, Contexts
  <2> QED  BY <2>1 DEF Counted, Contexts
<1>2. CASE b.state = "half_open"
  BY <1>1, <1>2, TransitionsTyped DEF ApplyFailure
<1>3. CASE b.state = "degraded" /\ k = b.degradedKind
  BY <1>1, <1>3, TransitionsTyped DEF ApplyFailure
<1>4. CASE b.state = "degraded" /\ k # b.degradedKind
  <2>1. ApplyFailure(b, k) = [Counted(b, k) EXCEPT !.degradedKind = k]
    BY <1>4 DEF ApplyFailure
  <2> QED  BY <1>1, <2>1 DEF Contexts
<1>5. CASE b.state \in {"closed", "open"}
  <2>1. ApplyFailure(b, k) \in {Degraded(b, k), Counted(b, k)}
    BY <1>5 DEF ApplyFailure
  <2>2. Degraded(b, k) \in Contexts
    BY DEF Degraded, Contexts, EmptyKindCounters, States
  <2> QED  BY <1>1, <2>1, <2>2
<1> QED  BY <1>2, <1>3, <1>4, <1>5 DEF Contexts, States

-----------------------------------------------------------------------------
(* The types.                                                              *)

\* The breaker starts well typed.
LEMMA InitTyped == Init => TypeOK
<1> SUFFICES ASSUME Init PROVE TypeOK
  OBVIOUS
<1>1. late \in BOOLEAN
  BY DEF Init
<1>2. ctx \in Contexts
  BY WindowPositive DEF Init, ClosedContext, Contexts, States, EmptyKindCounters
<1> QED  BY <1>1, <1>2 DEF Init, TypeOK, EmptyKindCounters, NoStreak

\* Every step keeps the types.
LEMMA NextTyped == TypeOK /\ [Next]_vars => TypeOK'
<1> SUFFICES ASSUME TypeOK, [Next]_vars PROVE TypeOK'
  OBVIOUS
<1>0. ctx \in Contexts
  BY DEF TypeOK, Contexts
<1> USE DEF TypeOK, Contexts
<1>1. ASSUME NEW c \in Calls, Begin(c) PROVE TypeOK'
  BY <1>1, <1>0, TransitionsTyped, ApplyUpdate(ctx) \in Contexts
  DEF Begin, ApplyUpdate, UpdateDue, EmptyKindCounters, States
<1>2. ASSUME NEW c \in Calls, Succeed(c) PROVE TypeOK'
  BY <1>2, <1>0, WindowPositive
  DEF Succeed, Reports, ApplySuccess, NoStreak, EmptyKindCounters, States
<1>3. ASSUME NEW c \in Calls, NEW k \in Kinds, Fail(c, k) PROVE TypeOK'
  <2>1. ctx' \in Contexts
    BY <1>3, <1>0, FailureTyped DEF Fail
  <2>2. AtMost(streak.n + 1, Threshold[k] + 1) \in Nat
    BY ThresholdAssumption, streak.n + 1 \in Nat, Threshold[k] \in Nat DEF AtMost
  <2>3. streak' \in [kind : Kinds \cup {None}, n : Nat]
    BY <1>3, <2>2 DEF Fail
  <2>4. AtMost(since[k] + 1, Threshold[k]) \in Nat
    BY ThresholdAssumption, since[k] + 1 \in Nat, Threshold[k] \in Nat DEF AtMost
  <2>5. since' \in [Kinds -> Nat]
    BY <1>3, <2>4 DEF Fail
  <2>6. calls' \in [Calls -> {"idle", "running", "probe"}]
    BY <1>3 DEF Fail
  <2>7. late' \in BOOLEAN
    BY <1>3 DEF Fail, Reports
  <2> QED  BY <2>1, <2>3, <2>5, <2>6, <2>7
<1>4. CASE Poll
  BY <1>4 DEF Poll, ApplyUpdate, EmptyKindCounters, States
<1>5. CASE Reset
  BY <1>5 DEF Reset, ClosedContext, NoStreak, EmptyKindCounters, States
<1>6. CASE Tick
  BY <1>6, WindowPositive DEF Tick, Elapsed
<1>7. CASE UNCHANGED vars
  BY <1>7 DEF vars
<1> QED  BY <1>1, <1>2, <1>3, <1>4, <1>5, <1>6, <1>7 DEF Next

\* Type correctness of the breaker, for any calls, kinds, thresholds, windows.
THEOREM TypeCorrect == Spec => []TypeOK
  BY InitTyped, NextTyped, PTL DEF Spec

----------------------------------------------------------------------------
(* No opening without the failures that justify it, however calls overlap. *)

\* In the states that count, a counter never runs ahead of the failures since
\* the last success.
CountsAreEarned ==
    ctx.state \in {"closed", "open"} =>
        \A k \in Kinds : ctx.kindCounters[k] <= since[k]

EarnedInv == TypeOK /\ CountsAreEarned /\ OpensOnlyAfterThreshold

\* EarnedInv holds at the start and is preserved by every step.
LEMMA EarnedInductive ==
  /\ Init => EarnedInv
  /\ EarnedInv /\ [Next]_vars => EarnedInv'
<1>1. Init => EarnedInv
  BY InitTyped
  DEF Init, ClosedContext, EarnedInv, CountsAreEarned, OpensOnlyAfterThreshold, EmptyKindCounters
<1>2. ASSUME EarnedInv, [Next]_vars PROVE EarnedInv'
  <2>0. TypeOK'
    BY <1>2, NextTyped DEF EarnedInv
  <2> USE <1>2, ThresholdAssumption, NoneAssumption
  <2> USE DEF EarnedInv, CountsAreEarned, OpensOnlyAfterThreshold
  <2>u. ASSUME ctx' = ApplyUpdate(ctx), UNCHANGED since
        PROVE  CountsAreEarned' /\ OpensOnlyAfterThreshold'
    <3>1. CASE UpdateDue(ctx)
      <4>1. ctx'.state = "half_open"
        BY <2>u, <3>1 DEF ApplyUpdate, TypeOK, Contexts
      <4>2. \E k \in Kinds : since[k] >= Threshold[k]
        BY <3>1 DEF UpdateDue
      <4> QED  BY <4>1, <4>2, <2>u
    <3>2. CASE ~UpdateDue(ctx)
      BY <2>u, <3>2 DEF ApplyUpdate
    <3> QED  BY <3>1, <3>2
  <2>1. ASSUME NEW c \in Calls, Begin(c)
        PROVE  CountsAreEarned' /\ OpensOnlyAfterThreshold'
    BY <2>1, <2>u DEF Begin
  <2>2. ASSUME NEW c \in Calls, Succeed(c)
        PROVE  CountsAreEarned' /\ OpensOnlyAfterThreshold'
    BY <2>2 DEF Succeed, ApplySuccess, EmptyKindCounters, TypeOK, Contexts, States
  <2>3. ASSUME NEW c \in Calls, NEW k \in Kinds, Fail(c, k)
        PROVE  CountsAreEarned' /\ OpensOnlyAfterThreshold'
    <3>1. /\ since' = [since EXCEPT ![k] = AtMost(@ + 1, Threshold[k])]
          /\ ctx' = ApplyFailure(ctx, k)
      BY <2>3 DEF Fail
    <3>2. \A j \in Kinds : since[j] >= Threshold[j] => since'[j] >= Threshold[j]
      BY <3>1 DEF TypeOK, Contexts, AtMost
    <3>3. CASE ctx.state = "half_open" \/ (ctx.state = "degraded" /\ k = ctx.degradedKind)
      <4>1. ctx' = ApplyTrip(ctx)
        BY <3>1, <3>3 DEF ApplyFailure
      <4>2. ctx'.kindCounters = EmptyKindCounters
        BY <4>1 DEF ApplyTrip, TypeOK, Contexts
      <4>3. \E j \in Kinds : since'[j] >= Threshold[j]
        BY <3>2, <3>3
      <4> QED  BY <2>0, <4>2, <4>3 DEF EmptyKindCounters, TypeOK, Contexts
    <3>4. CASE ctx.state = "degraded" /\ k # ctx.degradedKind
      <4>1. ctx'.state = "degraded"
        BY <3>1, <3>4 DEF ApplyFailure, Counted, TypeOK, Contexts
      <4> QED  BY <4>1, <3>2, <3>4
    <3>5. CASE ctx.state \in {"closed", "open"}
      <4>1. \A j \in Kinds : Counted(ctx, k).kindCounters[j] <= since'[j]
        BY <3>1, <3>5 DEF Counted, AtMost, TypeOK, Contexts
      <4>2. CASE Counted(ctx, k).kindCounters[k] >= Threshold[k]
        <5>1. since'[k] >= Threshold[k]
          BY <2>0, <4>1, <4>2 DEF TypeOK, Contexts, Counted, AtMost
        <5>2. ctx'.state = "degraded"
          BY <3>1, <3>5, <4>2 DEF ApplyFailure, Degraded, TypeOK, Contexts
        <5> QED  BY <5>1, <5>2
      <4>3. CASE ~(Counted(ctx, k).kindCounters[k] >= Threshold[k])
        <5>1. ctx' = Counted(ctx, k)
          BY <3>1, <3>5, <4>3 DEF ApplyFailure
        <5>2. ctx'.state = ctx.state /\ ctx'.halfOpenAt = ctx.halfOpenAt
          BY <5>1 DEF Counted, TypeOK, Contexts
        <5> QED  BY <5>1, <5>2, <4>1, <3>2, <3>5
      <4> QED  BY <4>2, <4>3
    <3> QED  BY <3>3, <3>4, <3>5 DEF TypeOK, Contexts, States
  <2>4. CASE Poll
    BY <2>0, <2>4, <2>u DEF Poll
  <2>5. CASE Reset
    BY <2>0, <2>5 DEF Reset, ClosedContext, EmptyKindCounters
  <2>6. CASE Tick
    <3>1. /\ ctx'.state = ctx.state /\ ctx'.kindCounters = ctx.kindCounters
          /\ ctx.halfOpenAt # None /\ since' = since
      BY <2>6 DEF Tick, Elapsed, TypeOK, Contexts
    <3> QED  BY <2>0, <3>1
  <2>7. CASE UNCHANGED vars
    BY <2>0, <2>7 DEF vars
  <2> QED  BY <2>0, <2>1, <2>2, <2>3, <2>4, <2>5, <2>6, <2>7 DEF Next
<1> QED  BY <1>1, <1>2

\* However the calls of execute() overlap, the breaker degrades, opens with a
\* deadline or probes only after a kind has failed as often as its threshold.
THEOREM NoUnearnedOpening == Spec => []OpensOnlyAfterThreshold
<1>1. EarnedInv => OpensOnlyAfterThreshold
  BY DEF EarnedInv
<1> QED  BY <1>1, EarnedInductive, PTL DEF Spec

----------------------------------------------------------------------------
(* Late reports are the only ones that can take the deadline away.         *)

DeadlineInv == TypeOK /\ OpenHasDeadline

\* DeadlineInv holds at the start and is preserved by every step.
LEMMA DeadlineInductive ==
  /\ Init => DeadlineInv
  /\ DeadlineInv /\ [Next]_vars => DeadlineInv'
<1>1. Init => DeadlineInv
  BY InitTyped DEF Init, ClosedContext, DeadlineInv, OpenHasDeadline
<1>2. ASSUME DeadlineInv, [Next]_vars PROVE DeadlineInv'
  <2>0. TypeOK'
    BY <1>2, NextTyped DEF DeadlineInv
  <2> USE <1>2, NoneAssumption, WindowPositive
  <2> USE DEF DeadlineInv, OpenHasDeadline
  <2>1. ASSUME NEW c \in Calls, Begin(c) PROVE DeadlineInv'
    BY <2>0, <2>1 DEF Begin
  <2>2. ASSUME NEW c \in Calls, Succeed(c) PROVE DeadlineInv'
    <3>1. ctx'.state = "open" => ctx.state = "open"
      BY <2>2 DEF Succeed, ApplySuccess, TypeOK, Contexts, States
    <3>2. ctx'.state = "open" => late'
      BY <2>2, <3>1 DEF Succeed, Reports
    <3> QED  BY <2>0, <3>2
  <2>3. ASSUME NEW c \in Calls, NEW k \in Kinds, Fail(c, k) PROVE DeadlineInv'
    <3>1. ctx' = ApplyFailure(ctx, k)
      BY <2>3 DEF Fail
    <3>2. CASE ctx.state = "open"
      <4>1. ctx'.state = "open" => late'
        BY <2>3, <3>2 DEF Fail, Reports
      <4> QED  BY <2>0, <4>1
    <3>3. CASE ctx.state # "open"
      <4>1. ctx'.state = "open" => ctx'.halfOpenAt = Window
        BY <3>1, <3>3
          DEF ApplyFailure, ApplyTrip, Counted, Degraded, TypeOK, Contexts, States
      <4> QED  BY <2>0, <4>1
    <3> QED  BY <3>2, <3>3
  <2>4. CASE Poll
    <3>1. ctx'.state = "half_open"
      BY <2>4 DEF Poll, ApplyUpdate, TypeOK, Contexts
    <3> QED  BY <2>0, <3>1
  <2>5. CASE Reset
    BY <2>0, <2>5 DEF Reset, ClosedContext
  <2>6. CASE Tick
    <3>1. ctx'.state = ctx.state /\ ctx'.halfOpenAt # None
      BY <2>6 DEF Tick, Elapsed, TypeOK, Contexts
    <3> QED  BY <2>0, <3>1
  <2>7. CASE UNCHANGED vars
    BY <2>0, <2>7 DEF vars
  <2> QED  BY <2>1, <2>2, <2>3, <2>4, <2>5, <2>6, <2>7 DEF Next
<1> QED  BY <1>1, <1>2

\* An open breaker has a deadline unless a call admitted before it opened has
\* reported since and taken it away.
THEOREM DeadlineUnlessLate == Spec => []OpenHasDeadline
<1>1. DeadlineInv => OpenHasDeadline
  BY DEF DeadlineInv
<1> QED  BY <1>1, DeadlineInductive, PTL DEF Spec

\* Every step but reset() and a late report follows the edges the header of
\* circuit-breaker.ts draws: open is left through half_open only.
THEOREM OnlyLateReportsLeaveTheEdges == Spec => FollowsEdges
<1> DEFINE Edge == \/ ctx'.state = ctx.state
                   \/ <<ctx.state, ctx'.state>> \in Edges
                   \/ Reset
                   \/ ctx.state = "open" /\ calls' # calls
<1>1. ASSUME TypeOK, [Next]_vars PROVE [Edge]_vars
  <2> USE <1>1 DEF Edges
  <2>1. ASSUME NEW c \in Calls, Begin(c) PROVE Edge
    BY <2>1 DEF Begin, ApplyUpdate, UpdateDue, TypeOK, Contexts
  <2>2. ASSUME NEW c \in Calls, Succeed(c) PROVE Edge
    BY <2>2 DEF Succeed, ApplySuccess, TypeOK, Contexts, States
  <2>3. ASSUME NEW c \in Calls, NEW k \in Kinds, Fail(c, k) PROVE Edge
    <3>1. ctx' = ApplyFailure(ctx, k)
      BY <2>3 DEF Fail
    <3>2. CASE ctx.state = "open"
      <4>1. calls'[c] # calls[c]
        BY <2>3 DEF Fail, TypeOK
      <4> QED  BY <3>2, <4>1
    <3>3. CASE ctx.state # "open"
      BY <3>1, <3>3
        DEF ApplyFailure, ApplyTrip, Counted, Degraded, TypeOK, Contexts, States
    <3> QED  BY <3>2, <3>3
  <2>4. CASE Poll
    BY <2>4 DEF Poll, ApplyUpdate, UpdateDue, TypeOK, Contexts
  <2>5. CASE Reset
    BY <2>5
  <2>6. CASE Tick
    BY <2>6 DEF Tick, Elapsed, TypeOK, Contexts
  <2>7. CASE UNCHANGED vars
    BY <2>7 DEF vars
  <2> QED  BY <2>1, <2>2, <2>3, <2>4, <2>5, <2>6, <2>7 DEF Next
<1> QED  BY <1>1, TypeCorrect, PTL DEF Spec, FollowsEdges

----------------------------------------------------------------------------
(* A streak of one kind cannot be absorbed.                                *)

\* While no call admitted earlier reports to an open breaker: closed, the
\* counters are below their thresholds and no streak is longer than its counter;
\* degraded, the streak is of the kind that the next failure trips on.
StreakIsCounted ==
    /\ ctx.state = "closed" => ~late
    /\ ~late =>
      /\ ctx.state = "closed" => \A k \in Kinds :
            /\ ctx.kindCounters[k] < Threshold[k]
            /\ streak.kind = k => streak.n <= ctx.kindCounters[k]
      /\ ctx.state = "degraded" =>
            /\ streak.kind = ctx.degradedKind /\ streak.kind \in Kinds
            /\ streak.n <= Threshold[streak.kind]

StreakInv == TypeOK /\ StreakIsCounted

LEMMA StreakInvMeans == StreakInv => TripsOnStreak
<1> SUFFICES ASSUME StreakInv, NEW k \in Kinds, streak.kind = k, streak.n > Threshold[k], ~late
             PROVE  ctx.state \in {"open", "half_open"}
  BY DEF TripsOnStreak
<1>1. streak.n \in Nat /\ Threshold[k] \in Nat /\ ctx.kindCounters[k] \in Nat /\ ctx.state \in States
  BY ThresholdAssumption DEF StreakInv, TypeOK, Contexts
<1>2. ctx.state # "closed"
  BY <1>1 DEF StreakInv, StreakIsCounted
<1>3. ctx.state # "degraded"
  BY <1>1 DEF StreakInv, StreakIsCounted
<1> QED
  BY <1>1, <1>2, <1>3 DEF States

LEMMA StreakInductive ==
  /\ Init => StreakInv
  /\ StreakInv /\ [Next]_vars => StreakInv'
<1>1. Init => StreakInv
  BY InitTyped, ThresholdAssumption, NoneAssumption
  DEF Init, ClosedContext, EmptyKindCounters, NoStreak, StreakInv, StreakIsCounted
<1>2. ASSUME StreakInv, [Next]_vars PROVE StreakInv'
  <2>0. TypeOK'
    BY <1>2, NextTyped DEF StreakInv
  <2> SUFFICES StreakIsCounted'
    BY <2>0 DEF StreakInv
  <2>t. /\ ctx \in Contexts /\ ctx.state \in States /\ \A k \in Kinds : ctx.kindCounters[k] \in Nat
        /\ streak.n \in Nat /\ \A k \in Kinds : Threshold[k] \in Nat \ {0}
    BY <1>2, ThresholdAssumption DEF StreakInv, TypeOK, Contexts
  <2>e. \A k \in Kinds : EmptyKindCounters[k] = 0
    BY DEF EmptyKindCounters
  <2>u. ASSUME ctx' = ApplyUpdate(ctx), UNCHANGED <<streak, late>> PROVE StreakIsCounted'
    <3>1. CASE UpdateDue(ctx)
      <4>1. ctx'.state = "half_open"
        BY <2>u, <3>1, <2>t DEF ApplyUpdate, Contexts
      <4> QED
        BY <4>1 DEF StreakIsCounted
    <3>2. CASE ~UpdateDue(ctx)
      BY <1>2, <2>u, <3>2 DEF ApplyUpdate, StreakInv, StreakIsCounted
    <3> QED
      BY <3>1, <3>2
  <2>1. ASSUME NEW c \in Calls, Begin(c) PROVE StreakIsCounted'
    BY <2>1, <2>u DEF Begin
  <2>2. ASSUME NEW c \in Calls, Succeed(c) PROVE StreakIsCounted'
    <3>1. /\ ctx'.state # "degraded" /\ ctx'.kindCounters = EmptyKindCounters
          /\ streak' = NoStreak /\ (ctx'.state = "closed" => ~late')
      BY <2>2, <2>t DEF Succeed, Reports, ApplySuccess, Contexts, States
    <3> QED
      BY <2>t, <2>e, <3>1, NoneAssumption DEF StreakIsCounted, NoStreak
  <2>3. ASSUME NEW c \in Calls, NEW k \in Kinds, Fail(c, k) PROVE StreakIsCounted'
    <3>1. /\ ctx' = ApplyFailure(ctx, k)
          /\ late' = ((late \/ ctx.state = "open") /\ ctx'.state # "closed")
          /\ streak' = IF streak.kind = k
                       THEN [streak EXCEPT !.n = AtMost(@ + 1, Threshold[k] + 1)]
                       ELSE [kind |-> k, n |-> 1]
      BY <2>3 DEF Fail, Reports
    <3>2. streak'.kind = k /\ streak'.n = IF streak.kind = k THEN AtMost(streak.n + 1, Threshold[k] + 1) ELSE 1
      BY <1>2, <3>1 DEF StreakInv, TypeOK
    <3>3. CASE ctx.state = "half_open" \/ (ctx.state = "degraded" /\ k = ctx.degradedKind)
      <4>1. ctx'.state = "open"
        BY <2>t, <3>1, <3>3 DEF ApplyFailure, ApplyTrip, Contexts
      <4> QED
        BY <4>1 DEF StreakIsCounted
    <3>4. CASE ctx.state = "degraded" /\ k # ctx.degradedKind
      <4>1. ctx'.state = "degraded" /\ ctx'.degradedKind = k
        BY <2>t, <3>1, <3>4 DEF ApplyFailure, Counted, Contexts
      <4>2. ~late' => ~late
        BY <3>1, <4>1
      <4>3. ~late => streak'.n = 1
        BY <1>2, <3>2, <3>4 DEF StreakInv, StreakIsCounted
      <4> QED
        BY <2>t, <3>2, <4>1, <4>2, <4>3 DEF StreakIsCounted
    <3>5. CASE ctx.state = "open"
      <4>1. ctx'.state # "closed"
        BY <2>t, <3>1, <3>5 DEF ApplyFailure, Counted, Degraded, Contexts
      <4> QED
        BY <3>1, <3>5, <4>1 DEF StreakIsCounted
    <3>6. ctx.state = "closed" => ~late
      BY <1>2 DEF StreakInv, StreakIsCounted
    <3>7. CASE ctx.state = "closed" /\ ~late
      <4> DEFINE n == ctx.kindCounters[k] + 1
      <4>1. /\ \A j \in Kinds : /\ ctx.kindCounters[j] < Threshold[j]
                                /\ streak.kind = j => streak.n <= ctx.kindCounters[j]
        BY <1>2, <3>7 DEF StreakInv, StreakIsCounted
      <4>2. /\ Counted(ctx, k).kindCounters[k] = n
            /\ \A j \in Kinds \ {k} : Counted(ctx, k).kindCounters[j] = ctx.kindCounters[j]
            /\ Counted(ctx, k).state = "closed"
        BY <2>t, <3>7, <4>1 DEF Counted, AtMost, Contexts
      <4>3. streak'.n <= n /\ streak'.n <= Threshold[k] /\ n <= Threshold[k]
        BY <2>t, <3>2, <4>1 DEF AtMost
      <4>4. CASE n >= Threshold[k]
        <5>1. ctx'.state = "degraded" /\ ctx'.degradedKind = k
          BY <2>t, <3>1, <3>7, <4>2, <4>4 DEF ApplyFailure, Degraded, Contexts
        <5> QED
          BY <3>2, <4>3, <5>1 DEF StreakIsCounted
      <4>5. CASE ~(n >= Threshold[k])
        <5>1. ctx' = Counted(ctx, k)
          BY <3>1, <3>7, <4>2, <4>5 DEF ApplyFailure
        <5>2. n < Threshold[k]
          BY <2>t, <4>5
        <5> QED
          BY <3>1, <3>2, <3>7, <4>1, <4>2, <4>3, <5>1, <5>2 DEF StreakIsCounted
      <4> QED
        BY <4>4, <4>5
    <3> QED
      BY <2>t, <3>3, <3>4, <3>5, <3>6, <3>7 DEF States
  <2>4. CASE Poll
    BY <2>4, <2>u DEF Poll
  <2>5. CASE Reset
    <3>1. ctx' = ClosedContext /\ streak' = NoStreak /\ late' = FALSE
      BY <2>5 DEF Reset
    <3> QED
      BY <2>t, <2>e, <3>1, NoneAssumption DEF StreakIsCounted, ClosedContext, NoStreak
  <2>6. CASE Tick
    <3>1. /\ ctx'.state = ctx.state /\ ctx'.kindCounters = ctx.kindCounters
          /\ ctx'.degradedKind = ctx.degradedKind /\ UNCHANGED <<streak, late>>
      BY <2>6, <2>t DEF Tick, Elapsed, Contexts
    <3> QED
      BY <1>2, <3>1 DEF StreakInv, StreakIsCounted
  <2>7. CASE UNCHANGED vars
    BY <1>2, <2>7 DEF vars, StreakInv, StreakIsCounted
  <2> QED
    BY <1>2, <2>1, <2>2, <2>3, <2>4, <2>5, <2>6, <2>7 DEF Next, StreakInv
<1> QED
  BY <1>1, <1>2

\* Failures of one kind in a row, one more than its threshold, have the breaker
\* open or probing whatever failed before them, unless a late report came.
THEOREM StreaksTrip == Spec => []TripsOnStreak
  BY StreakInductive, StreakInvMeans, PTL DEF Spec
=============================================================================
