--------------------------- MODULE CircuitBreaker ---------------------------
(***************************************************************************)
(* The four-state circuit breaker of tree/exchange/provider.               *)
(*                                                                         *)
(* CircuitBreaker.execute(fn) reads the state, awaits fn() and only then   *)
(* records the outcome, so the calls of a provider overlap: a call that    *)
(* was admitted while the breaker was closed may report after the breaker  *)
(* has opened.  Each call is a process with two steps, Begin and the       *)
(* matching Succeed or Fail; in between anything may happen.               *)
(***************************************************************************)
EXTENDS BreakerTransitions, FiniteSets

CONSTANT Calls     \* the calls of execute() that may be in flight

VARIABLES
    ctx,     \* CircuitStateMutable
    calls,   \* where each call of execute() stands
    streak,  \* history: the last completions, if they were all failures of one
             \* kind, as [kind, n] with n saturated just above the threshold
    since,   \* history: the failures of each kind since the last success (or
             \* reset), saturated at the threshold
    late     \* history: since the breaker was last closed, a call admitted
             \* before it opened has reported while it was open

vars == <<ctx, calls, streak, since, late>>

NoStreak == [kind |-> None, n |-> 0]

TypeOK ==
    /\ ctx \in Contexts
    /\ calls \in [Calls -> {"idle", "running", "probe"}]
    /\ streak \in [kind : Kinds \cup {None}, n : Nat]
    /\ since \in [Kinds -> Nat]
    /\ late \in BOOLEAN

----------------------------------------------------------------------------
(* The steps.                                                              *)

Init ==
    /\ ctx = ClosedContext
    /\ calls = [c \in Calls |-> "idle"]
    /\ streak = NoStreak
    /\ since = EmptyKindCounters
    /\ late = FALSE

\* A call reports its outcome: only calls admitted earlier do so in open.
Reports == late' = ((late \/ ctx.state = "open") /\ ctx'.state # "closed")

\* execute() up to its await: update, then refuse when open.  A refused call
\* leaves the machine as update() left it, which is the step Poll.
Begin(c) ==
    /\ calls[c] = "idle"
    /\ ApplyUpdate(ctx).state # "open"
    /\ ctx' = ApplyUpdate(ctx)
    /\ calls' = [calls EXCEPT ![c] = IF ctx'.state = "half_open"
                                     THEN "probe" ELSE "running"]
    /\ UNCHANGED <<streak, since, late>>

\* fn() resolved: recordSuccess() in the state found now.
Succeed(c) ==
    /\ calls[c] # "idle"
    /\ ctx' = ApplySuccess(ctx)
    /\ calls' = [calls EXCEPT ![c] = "idle"]
    /\ Reports
    /\ streak' = NoStreak
    /\ since' = EmptyKindCounters

\* fn() rejected with an error of kind k: recordFailure() in the state found now.
Fail(c, k) ==
    /\ calls[c] # "idle"
    /\ ctx' = ApplyFailure(ctx, k)
    /\ calls' = [calls EXCEPT ![c] = "idle"]
    /\ Reports
    /\ streak' = IF streak.kind = k
                 THEN [streak EXCEPT !.n = AtMost(@ + 1, Threshold[k] + 1)]
                 ELSE [kind |-> k, n |-> 1]
    /\ since' = [since EXCEPT ![k] = AtMost(@ + 1, Threshold[k])]

\* getState(), getFailureCount() and the update() of a refused execute().
Poll ==
    /\ UpdateDue(ctx)
    /\ ctx' = ApplyUpdate(ctx)
    /\ UNCHANGED <<calls, streak, since, late>>

\* reset() by an operator.
Reset ==
    /\ ctx' = ClosedContext
    /\ streak' = NoStreak
    /\ since' = EmptyKindCounters
    /\ late' = FALSE
    /\ UNCHANGED calls

\* A tick of the clock, observable only through a pending deadline.
Tick ==
    /\ ctx.halfOpenAt \in 1 .. Window
    /\ ctx' = Elapsed(ctx)
    /\ UNCHANGED <<calls, streak, since, late>>

Next ==
    \/ \E c \in Calls : Begin(c) \/ Succeed(c) \/ \E k \in Kinds : Fail(c, k)
    \/ Poll
    \/ Reset
    \/ Tick

Spec == Init /\ [][Next]_vars

\* Time passes and the health checks of the scheduler keep reading the state.
\* Nothing makes a caller call, a call return, or an operator reset.
FairSpec == Spec /\ WF_vars(Tick) /\ WF_vars(Poll)

----------------------------------------------------------------------------
(* Properties.                                                             *)

\* "States: closed -> degraded -> open -> half_open -> (closed | open)", the
\* header of circuit-breaker.ts, with the recovery of a degraded breaker by
\* applySuccess.  Only reset() may leave these edges.
Edges ==
    {<<"closed", "degraded">>, <<"degraded", "open">>, <<"degraded", "closed">>,
     <<"open", "half_open">>, <<"half_open", "closed">>, <<"half_open", "open">>}

\* No step of the machine takes an edge the header does not draw: above all,
\* an open breaker is left only through half_open, when its window is over.
\* The exception is the report of a call admitted before the breaker opened.
FollowsEdges ==
    [][ \/ ctx'.state = ctx.state
        \/ <<ctx.state, ctx'.state>> \in Edges
        \/ Reset
        \/ ctx.state = "open" /\ calls' # calls ]_vars

\* An open breaker knows when it may probe again, unless such a late report
\* took the deadline away; without one applyUpdate never leaves open and
\* execute() refuses every call for good.
OpenHasDeadline == ctx.state = "open" /\ ~late => ctx.halfOpenAt # None

\* One more failure than the threshold of its kind, in a row and with no
\* success between, has the breaker open (or probing): failures cannot be
\* spread so that the breaker keeps letting calls through.
TripsOnStreak ==
    \A k \in Kinds :
        streak.kind = k /\ streak.n > Threshold[k] /\ ~late
            => ctx.state \in {"open", "half_open"}

\* However calls overlap, the breaker degrades, opens with a deadline or probes
\* only if some kind has failed as often as its threshold since the last success.
OpensOnlyAfterThreshold ==
    \/ ctx.state \in {"degraded", "half_open"}
    \/ ctx.state = "open" /\ ctx.halfOpenAt # None
    => \E k \in Kinds : since[k] >= Threshold[k]

\* An open breaker is eventually half_open, whoever calls, unless a late report
\* takes its deadline away.
RecoversEventually == ctx.state = "open" /\ ~late ~> ctx.state # "open" \/ late
=============================================================================
