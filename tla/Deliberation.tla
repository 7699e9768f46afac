---------------------------- MODULE Deliberation ----------------------------
(***************************************************************************)
(* runDeliberation (src/forest/research/tradingagents): a debate of agents *)
(* whose every sentence is a call to a language model that may fail, hang  *)
(* or answer late; the advice of the deterministic engines on what was     *)
(* said; and the log of decisions a later run may go on with.              *)
(*                                                                         *)
(* A question is a call of callAgent.  Texts are abstracted to what is     *)
(* read out of them: whether they parse, and the limit a risk view names.  *)
(***************************************************************************)
EXTENDS PortfolioOverlays, Sequences, FiniteSets

CONSTANTS
    Registered,       \* the providers in the order of the registry
    Serves,           \* the tiers each provider is configured for
    Analysts,         \* how many analysts speak (4 in the code)
    MaxDebateRounds,  \* rounds of bull against bear
    Views,            \* how many risk views are asked for (3 in the code)
    Limits,           \* the exposure limits a risk view may name
    Held,             \* the weights the portfolio may hold when advised
    Size,             \* the weight the volatility target gives an alpha
    Config,           \* the configuration of the portfolio engine
    MaxRuns,          \* bound: runs in one behaviour
    MaxLate,          \* bound: answers that may come late, beside the one awaited
    Sound,            \* a text that says what it was asked for, in no more detail
    None              \* no call, no advice; a text that does not parse

ASSUME DeliberationAssumption ==
    /\ Analysts \in Nat /\ MaxDebateRounds \in Nat /\ Views \in Nat
    /\ Limits \subseteq Int /\ Held \subseteq Int /\ Size \in Nat
    /\ Config \in Configs
    /\ Registered \in Seq(DOMAIN Serves)
    /\ MaxRuns \in Nat /\ MaxLate \in Nat
    /\ None \notin Int \union {Sound}
    /\ None \notin [run : Nat, q : Nat, by : DOMAIN Serves]
    /\ None \notin [weight : Int, rejected : BOOLEAN]

VARIABLES
    runs,        \* how many runs have been started
    pc,          \* idle, asking, extracting or logging
    result,      \* what the last run returned
    at,          \* the question asked now
    waiting,     \* the call whose answer is awaited, or None
    flying,      \* calls that have not been answered
    rounds,      \* the sentences of the debate
    provenance,  \* the model recorded for each of them
    faulty,      \* reasons have been collected
    sides,       \* whether the last theses of bull and bear parse
    stages,      \* the outcome of each stage of the report
    advisory,    \* the limits the risk advisors named, or None
    portfolio,   \* what the portfolio advisor returned, or None
    log,         \* the log of decisions of this run
    base         \* the log it went on with

debate == <<at, waiting, rounds, provenance, faulty, sides>>
advice == <<stages, advisory, portfolio>>
logs == <<log, base>>
vars == <<runs, pc, result, debate, flying, advice, logs>>

Roles == {"analyst", "bull", "bear", "manager", "risk", "portfolio"}
Tier == [role \in Roles |->
    IF role = "analyst" THEN "FAST"
    ELSE IF role \in {"risk", "portfolio"} THEN "LOCAL" ELSE "REASONING"]

\* Whose texts the prompt of a role quotes.
Quotes == [role \in Roles |->
    CASE role = "bull" -> {"bear"}
      [] role = "bear" -> {"bull"}
      [] role = "manager" -> {"bull", "bear"}
      [] role \in {"risk", "portfolio"} -> {"manager"}
      [] OTHER -> {}]

Summing == Analysts + 2 * MaxDebateRounds + 1    \* the manager's question
Closing == Summing + Views + 1                   \* the portfolio advisor's

RoleOf(q) ==
    IF q <= Analysts THEN "analyst"
    ELSE IF q < Summing THEN IF (q - Analysts) % 2 = 1 THEN "bull" ELSE "bear"
    ELSE IF q = Summing THEN "manager"
    ELSE IF q < Closing THEN "risk" ELSE "portfolio"

\* The n-th of a set of places, in their order, if there is one.
Nth(n, places) == {m \in places : Cardinality({k \in places : k <= m}) = n}
The(m) == CHOOSE k \in m : TRUE

\* Where in the registry the provider of a tier stands (n = 1) and its fallback
\* (n = 2): the first and the second that is configured for it.
ProvidersFor(tier, n) == Nth(n, {m \in DOMAIN Registered : tier \in Serves[Registered[m]]})
Has(n) == ProvidersFor(Tier[RoleOf(at)], n) # {}
Call(n) == [run |-> runs, q |-> at, by |-> Registered[The(ProvidersFor(Tier[RoleOf(at)], n))]]

\* What can be read out of an answer.
Texts(role) ==
    IF role = "risk" THEN Limits \union {None}
    ELSE IF role \in {"bull", "bear", "portfolio"} THEN {Sound, None}
    ELSE {Sound}

Late == flying \ {waiting}
ToldBy(roles) == {i \in DOMAIN rounds : RoleOf(rounds[i].call.q) \in roles}
NamedLimits == {rounds[i].text : i \in ToldBy({"risk"})} \ {None}
Proposed == \E i \in ToldBy({"portfolio"}) : rounds[i].text = Sound

DebateStages == <<"analyst-output", "debate-output", "research-synthesis",
                  "risk-proposal", "portfolio-proposal">>
Outcomes(debated, validation, human) ==
    [i \in 1..5 |-> <<DebateStages[i], debated>>]
    \o << <<"cashclaw-validation", validation>>, <<"human-decision", human>> >>

Init ==
    /\ runs = 0 /\ pc = "idle" /\ result = "none"
    /\ at = 1 /\ waiting = None /\ flying = {}
    /\ rounds = <<>> /\ provenance = <<>> /\ faulty = FALSE
    /\ sides = [bull |-> FALSE, bear |-> FALSE]
    /\ stages = <<>> /\ advisory = None /\ portfolio = None
    /\ log = <<>> /\ base = <<>>

-----------------------------------------------------------------------------
(* A run begins with an empty log or with the one the last run returned.   *)
Start(initial) ==
    /\ pc = "idle" /\ runs < MaxRuns
    /\ runs' = runs + 1 /\ pc' = "asking" /\ result' = "none"
    /\ at' = 1 /\ waiting' = None /\ rounds' = <<>> /\ provenance' = <<>>
    /\ faulty' = FALSE /\ sides' = [bull |-> FALSE, bear |-> FALSE]
    /\ stages' = <<>> /\ advisory' = None /\ portfolio' = None
    /\ log' = initial /\ base' = initial
    /\ UNCHANGED flying

\* A log that does not parse or verify ends the run before it begins.
StartRefused ==
    /\ pc = "idle" /\ result' = "failed"
    /\ UNCHANGED <<runs, pc, debate, flying, advice, logs>>

\* The debate fails: the stages are marked, and the reasons are all the
\* caller gets.
Fail ==
    /\ pc' = "idle" /\ result' = "failed"
    /\ stages' = Outcomes("failed", "skipped", "skipped")
    /\ UNCHANGED <<advisory, portfolio>>

GoOnPastTheEnd ==
    /\ at' = at + 1
    /\ pc' = IF at > Closing THEN "extracting" ELSE "asking"
    /\ UNCHANGED <<result, advice>>

GoOn ==
    /\ at' = at + 1
    /\ pc' = IF at = Closing THEN "extracting" ELSE "asking"
    /\ UNCHANGED <<result, advice>>

\* A question nobody answers.  Without the manager or the portfolio advisor
\* the run is over; the others leave a reason behind.
Unheard ==
    /\ waiting' = None
    /\ IF at \in {Summing, Closing}
       THEN Fail /\ UNCHANGED <<at, faulty>>
       ELSE GoOn /\ faulty' = TRUE
    /\ UNCHANGED <<runs, rounds, provenance, sides, logs>>

\* The answer of call c: a sentence and its provenance.
Heard(c, text) ==
    /\ waiting' = None
    /\ rounds' = Append(rounds, [call |-> c, text |-> text])
    /\ provenance' = Append(provenance, waiting.by)
    /\ sides' = IF RoleOf(at) \in {"bull", "bear"}
                THEN [sides EXCEPT ![RoleOf(at)] = text = Sound] ELSE sides
    /\ GoOn
    /\ UNCHANGED <<runs, faulty, logs>>

UndebatedIfUnparsed == at = Summing /\ (~sides.bull \/ ~sides.bear)

\* Before the manager sums up, the debate must have had no reason and both
\* sides a thesis that parses.
Undebated == at = Summing /\ (faulty \/ ~sides.bull \/ ~sides.bear)
Ready == pc = "asking" /\ waiting = None /\ ~Undebated

Adjourn ==
    /\ pc = "asking" /\ waiting = None /\ Undebated
    /\ Fail
    /\ UNCHANGED <<runs, debate, flying, logs>>

Ask ==
    /\ Ready /\ Has(1)
    /\ waiting' = Call(1) /\ flying' = flying \union {Call(1)}
    /\ UNCHANGED <<runs, pc, result, at, rounds, provenance, faulty, sides, advice, logs>>

\* No provider serves the tier, or the prompt quotes what the security gate
\* refuses.
NotAsked ==
    /\ Ready
    /\ ~Has(1) \/ ToldBy(Quotes[RoleOf(at)]) # {}
    /\ Unheard /\ UNCHANGED flying

AnswerOfAny(c, text) ==
    /\ waiting # None /\ c \in flying /\ text \in Texts(RoleOf(at))
    /\ flying' = flying \ {c}
    /\ Heard(c, text)

Answer(c, text) ==
    /\ c = waiting /\ c \in flying /\ text \in Texts(RoleOf(at))
    /\ flying' = flying \ {c}
    /\ Heard(c, text)

\* The answer arrives and its usage figures are refused: no fallback is tried.
Unrecorded(c) ==
    /\ c = waiting /\ c \in flying
    /\ flying' = flying \ {c}
    /\ Unheard

BrokenAgain ==
    /\ waiting # None
    /\ \E n \in {1, 2} : Has(n) /\ waiting' = Call(n) /\ flying' = Late \union {Call(n)}
    /\ UNCHANGED <<runs, pc, result, at, rounds, provenance, faulty, sides, advice, logs>>

\* The provider fails, or its time is up: then its answer may still come; a call
\* that is never answered is not kept among those that fly.  The fallback is
\* asked the same, if there is one and it was not the one that was waited for.
Broken ==
    /\ waiting # None
    /\ \E left \in {Late, flying} :
        /\ Cardinality(left) <= MaxLate
        /\ IF waiting = Call(1) /\ Has(2)
           THEN /\ waiting' = Call(2) /\ flying' = left \union {Call(2)}
                /\ UNCHANGED <<runs, pc, result, at, rounds, provenance, faulty, sides, advice, logs>>
           ELSE Unheard /\ flying' = left

\* An answer nobody waits for any more.
LateAnswer(c) ==
    /\ c \in Late /\ flying' = flying \ {c}
    /\ UNCHANGED <<runs, pc, result, debate, advice, logs>>

-----------------------------------------------------------------------------
(* Hypotheses are extracted and compiled; what the engines make of the     *)
(* risk views and of the portfolio proposed follows in one go.             *)
NotExtracted ==
    /\ pc = "extracting" /\ Fail
    /\ UNCHANGED <<runs, debate, flying, logs>>

Skip(validation, set) ==
    /\ advisory' = set /\ portfolio' = None
    /\ stages' = Outcomes("completed", validation, "skipped")

Weigh(known, direction, held, risk) ==
    LET advised == Advised(known, direction * Size, held, risk,
                           Constrained(Config, NamedLimits))
    IN  /\ advisory' = NamedLimits /\ portfolio' = advised
        /\ stages' = Outcomes("completed", "completed",
                              IF advised.rejected THEN "rejected" ELSE "completed")

Advise(known, direction, held, risk) ==
    /\ pc = "extracting" /\ pc' = "logging"
    /\ IF NamedLimits = {} THEN Skip("skipped", None)
       ELSE IF ~Proposed THEN Skip("completed", NamedLimits)
       ELSE Weigh(known, direction, held, risk)
    /\ UNCHANGED <<runs, result, debate, flying, logs>>

-----------------------------------------------------------------------------
RejectedIfAdvised == portfolio # None /\ portfolio.rejected

(* The log: the stages in their order, one awaited entry after the other.  *)
Rejected == portfolio = None \/ portfolio.rejected
Verdict == IF portfolio # None /\ portfolio.rejected THEN "REJECT" ELSE "APPROVE_FOR_SHADOW"

\* One entry for each sentence of the roles, in the order they were spoken.
Told(kind, roles) ==
    [n \in 1..Cardinality(ToldBy(roles)) |->
        <<kind, rounds[The(Nth(n, ToldBy(roles)))].call.q>>]
Closings ==
    << <<"research-synthesis", Summing>>,
       <<"risk-proposal", advisory = None>>,
       <<"portfolio-proposal", portfolio = None>>,
       <<"cashclaw-validation", Rejected>>,
       <<"human-decision", Verdict>> >>
Entries ==
    Told("analyst-output", {"analyst"}) \o Told("debate-output", {"bull", "bear"}) \o Closings

AppendEntry ==
    /\ pc = "logging"
    /\ log' = Append(log, Entries[Len(log) - Len(base) + 1])
    /\ IF Len(log') = Len(base) + Len(Entries)
       THEN pc' = "idle" /\ result' = "reported"
       ELSE UNCHANGED <<pc, result>>
    /\ UNCHANGED <<runs, debate, flying, advice, base>>

AppendFails ==
    /\ pc = "logging" /\ pc' = "idle" /\ result' = "failed"
    /\ UNCHANGED <<runs, debate, flying, advice, logs>>

Next ==
    \/ \E initial \in {<<>>} \union (IF result = "reported" THEN {log} ELSE {}) : Start(initial)
    \/ StartRefused
    \/ Adjourn \/ Ask \/ NotAsked
    \/ \E c \in flying : \E text \in Texts(RoleOf(at)) : Answer(c, text)
    \/ \E c \in flying : Unrecorded(c) \/ LateAnswer(c)
    \/ Broken
    \/ NotExtracted
    \/ \E known \in BOOLEAN, direction \in {-1, 1}, held \in Held, risk \in Risks :
            Advise(known, direction, held, risk)
    \/ AppendEntry \/ AppendFails

Spec == Init /\ [][Next]_vars

\* The runner's own steps are taken; every call has a timer.  Providers owe
\* nothing: none of them need ever answer.
FairSpec ==
    /\ Spec
    /\ WF_vars(Adjourn \/ Ask \/ NotAsked)
    /\ WF_vars(Broken)
    /\ WF_vars(NotExtracted \/ \E known \in BOOLEAN, direction \in {-1, 1}, held \in Held,
                                 risk \in Risks : Advise(known, direction, held, risk))
    /\ WF_vars(AppendEntry)

-----------------------------------------------------------------------------
Calls == [run : 1..MaxRuns, q : 1..Closing, by : DOMAIN Serves]

(* The types of the run's state.                                           *)
TypeOK ==
    /\ runs \in 0..MaxRuns
    /\ pc \in {"idle", "asking", "extracting", "logging"}
    /\ result \in {"none", "failed", "reported"}
    /\ at \in 1..(Closing + 1)
    /\ waiting \in flying \union {None}
    /\ flying \subseteq Calls /\ Cardinality(Late) <= MaxLate
    /\ rounds \in Seq([call : Calls, text : Limits \union {Sound, None}])
    /\ provenance \in Seq(DOMAIN Serves)
    /\ faulty \in BOOLEAN
    /\ sides \in [bull : BOOLEAN, bear : BOOLEAN]
    /\ advisory = None \/ advisory \subseteq Limits
    /\ portfolio = None \/ portfolio \in [weight : Int, rejected : BOOLEAN]

(* Every sentence of the debate answers the question it stands under, in    *)
(* this run, and comes from the provider its provenance names: an answer    *)
(* that comes after its time is up never lands under a later question,      *)
(* under the fallback's name or in the next run.                            *)
AnswersItsQuestion ==
    /\ Len(rounds) = Len(provenance)
    /\ \A i \in DOMAIN rounds :
        /\ rounds[i].call.run = runs
        /\ rounds[i].call.by = provenance[i]
        /\ rounds[i].text \in Texts(RoleOf(rounds[i].call.q))
        /\ \A j \in 1..(i - 1) : rounds[j].call.q < rounds[i].call.q

(* A report rests on a whole debate: every analyst and every round of bull  *)
(* and bear was heard, the theses argued last parse, and the manager and    *)
(* the portfolio advisor spoke.  Only a risk view may be missing.           *)
ReportRestsOnDebate ==
    pc = "logging" \/ result = "reported" =>
        /\ \A q \in 1..Closing :
            RoleOf(q) = "risk" \/ \E i \in DOMAIN rounds : rounds[i].call.q = q
        /\ sides.bull /\ sides.bear

(* What the engines let pass keeps below the limit of every risk advisor    *)
(* that was heard, and below the configured one, whatever weight was held   *)
(* before and however far it may be moved in one step.                      *)
LimitsBind ==
    portfolio # None =>
        \/ portfolio.rejected
        \/ /\ \A limit \in advisory : Abs(portfolio.weight) <= limit
           /\ Abs(portfolio.weight) <= Config.gross
           /\ advisory = NamedLimits /\ advisory # {}

(* The log a run returns goes on from the log it was given, tells each      *)
(* sentence of analysts and debaters in the order it was spoken, then the   *)
(* stages, and records as rejected what the report rejects.                 *)
LogTellsTheRun ==
    result = "reported" =>
        LET told == SubSeq(log, Len(base) + 1, Len(log))
        IN  /\ SubSeq(log, 1, Len(base)) = base
            /\ Len(told) = (Summing - 1) + 5
            /\ \A q \in 1..(Summing - 1) :
                told[q] = <<IF q <= Analysts THEN "analyst-output" ELSE "debate-output", q>>
            /\ \A i \in 1..5 : told[Summing - 1 + i][1] = Closings[i][1]
            /\ told[Len(told) - 1] = <<"cashclaw-validation", stages[7][2] # "completed">>

(* A run ends even if no provider ever answers.                             *)
RunEnds == pc = "asking" ~> pc = "idle"
=============================================================================
