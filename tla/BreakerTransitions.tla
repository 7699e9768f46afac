------------------------- MODULE BreakerTransitions -------------------------
(***************************************************************************)
(* The transition functions of circuit-breaker-transitions.ts, on the      *)
(* mutable context of a circuit breaker:                                   *)
(*    [state, kindCounters, degradedKind, halfOpenAt].                     *)
(*                                                                         *)
(* Time.  ctx.halfOpenAt is an absolute time that the code only ever       *)
(* compares with Date.now(), so the model keeps what is left of it, in     *)
(* ticks: None for null, 0 once it has passed.  failureCount, currentKind  *)
(* and trippedAt are reported and never read by the machine; they are left *)
(* out.  A kind counter is only compared with its threshold, so it         *)
(* saturates there.                                                        *)
(***************************************************************************)
EXTENDS Naturals

CONSTANTS
    Kinds,          \* FailureKind
    Threshold,      \* FAILURE_KIND_THRESHOLDS[kind].threshold
    Cooldown,       \* cooldownMs, in ticks
    HalfOpenAfter,  \* halfOpenAfterMs, in ticks
    None            \* null

ASSUME ThresholdAssumption == Threshold \in [Kinds -> Nat \ {0}]
ASSUME WindowAssumption == Cooldown \in Nat \ {0} /\ HalfOpenAfter \in Nat
ASSUME NoneAssumption == None \notin Kinds /\ None \notin Nat

States == {"closed", "degraded", "open", "half_open"}
Window == Cooldown + HalfOpenAfter
EmptyKindCounters == [k \in Kinds |-> 0]
AtMost(n, bound) == IF n <= bound THEN n ELSE bound

Contexts ==
    [state : States, kindCounters : [Kinds -> Nat],
     degradedKind : Kinds \cup {None}, halfOpenAt : (0 .. Window) \cup {None}]

ClosedContext ==
    [state |-> "closed", kindCounters |-> EmptyKindCounters,
     degradedKind |-> None, halfOpenAt |-> None]

----------------------------------------------------------------------------
\* MUTANT of ApplyTrip: the cooldown is added to itself.
TripWindowTwice(b) ==
    [b EXCEPT !.state = "open", !.halfOpenAt = Window + Cooldown,
              !.kindCounters = EmptyKindCounters, !.degradedKind = None]

\* MUTANT of ApplyTrip: the deadline is not set.
TripWithoutDeadline(b) ==
    [b EXCEPT !.state = "open",
              !.kindCounters = EmptyKindCounters, !.degradedKind = None]

ApplyTrip(b) ==
    [b EXCEPT !.state = "open", !.halfOpenAt = Window,
              !.kindCounters = EmptyKindCounters, !.degradedKind = None]

\* MUTANT of ApplySuccess: a success forgets to clear the counters.
SuccessKeepsCounters(b) ==
    [b EXCEPT !.state = IF @ \in {"half_open", "degraded"} THEN "closed" ELSE @,
              !.halfOpenAt = None, !.degradedKind = None]

ApplySuccess(b) ==
    [b EXCEPT !.state = IF @ \in {"half_open", "degraded"} THEN "closed" ELSE @,
              !.halfOpenAt = None,
              !.kindCounters = EmptyKindCounters, !.degradedKind = None]

Counted(b, k) ==
    [b EXCEPT !.kindCounters[k] = AtMost(@ + 1, Threshold[k])]

\* MUTANT of Degraded: the kind that degraded the breaker is not remembered.
DegradedByNobody(b, k) ==
    [b EXCEPT !.state = "degraded", !.kindCounters = EmptyKindCounters]

Degraded(b, k) ==
    [b EXCEPT !.state = "degraded", !.degradedKind = k,
              !.kindCounters = EmptyKindCounters]

ApplyFailure(b, k) ==
    CASE b.state = "half_open" -> ApplyTrip(b)
      [] b.state = "degraded" /\ k = b.degradedKind -> ApplyTrip(b)
      [] b.state = "degraded" /\ k # b.degradedKind ->
            [Counted(b, k) EXCEPT !.degradedKind = k]
      [] b.state \in {"closed", "open"} ->
            IF Counted(b, k).kindCounters[k] >= Threshold[k]
            THEN Degraded(b, k)
            ELSE Counted(b, k)

UpdateDue(b) == b.state = "open" /\ b.halfOpenAt = 0

\* MUTANT of ApplyUpdate: the breaker closes without a probe.
UpdateSkipsProbe(b) ==
    IF UpdateDue(b)
    THEN [b EXCEPT !.state = "closed", !.halfOpenAt = None,
                   !.kindCounters = EmptyKindCounters, !.degradedKind = None]
    ELSE b

ApplyUpdate(b) ==
    IF UpdateDue(b)
    THEN [b EXCEPT !.state = "half_open", !.halfOpenAt = None,
                   !.kindCounters = EmptyKindCounters, !.degradedKind = None]
    ELSE b

\* A tick of the clock, for a breaker whose deadline has not passed.
Elapsed(b) ==
    IF b.halfOpenAt \in 1 .. Window THEN [b EXCEPT !.halfOpenAt = @ - 1] ELSE b
=============================================================================
