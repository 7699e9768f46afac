------------------------- MODULE DeliberationProofs -------------------------
(***************************************************************************)
(* Proofs about Deliberation, for any registry of providers, any number of *)
(* analysts, rounds and views, any limits and any number of late answers.  *)
(***************************************************************************)
EXTENDS Deliberation, FiniteSetTheorems, SequenceTheorems, WellFoundedInduction, TLAPS

----------------------------------------------------------------------------
(* The invariant.                                                          *)

\* A run goes on, or its report was returned.
Alive == pc # "idle" \/ result = "reported"
Done == pc = "logging" \/ result = "reported"

\* The call that is awaited asks the question of now, and only when the debate
\* was fit for it.
Awaited ==
    /\ waiting # None =>
        /\ pc = "asking" /\ ~Undebated
        /\ waiting.run = runs /\ waiting.q = at
    /\ pc = "asking" => at <= Closing
    /\ pc \in {"extracting", "logging"} \/ result = "reported" => at = Closing + 1
    /\ pc # "idle" => runs >= 1 /\ result = "none"
    /\ IsFiniteSet(flying)

Spoken == \A i \in DOMAIN rounds : rounds[i].call.q < at

\* As long as nothing was missed the i-th sentence answers the i-th question;
\* past the manager's question nothing before it was missed.
Whole ==
    /\ Alive /\ at <= Summing /\ ~faulty =>
        Len(rounds) = at - 1 /\ \A i \in 1..(at - 1) : rounds[i].call.q = i
    /\ Alive /\ at > Summing =>
        /\ Len(rounds) >= Summing /\ \A i \in 1..Summing : rounds[i].call.q = i
        /\ sides.bull /\ sides.bear
    /\ Alive /\ at > Closing => \E i \in DOMAIN rounds : rounds[i].call.q = Closing

Advice ==
    /\ portfolio # None => pc \in {"logging", "idle"}
    /\ LimitsBind
    /\ Done => stages[7][2] # "completed" <=> Rejected

\* What has been logged by now.
Logged(n) ==
    /\ Len(log) = Len(base) + n
    /\ \A i \in 1..Len(base) : log[i] = base[i]
    /\ \A i \in 1..n : log[Len(base) + i] = Entries[i]
Count == Summing - 1 + 5
Logs ==
    /\ \E S : log \in Seq(S) /\ base \in Seq(S)
    /\ pc = "logging" => \E n \in 0..(Count - 1) : Logged(n)
    /\ result = "reported" => Logged(Count)
    /\ pc \in {"asking", "extracting"} => log = base

IInv == TypeOK /\ Awaited /\ Spoken /\ AnswersItsQuestion /\ Whole /\ Advice /\ Logs

----------------------------------------------------------------------------
(* Questions, providers and calls.                                         *)

LEMMA Numbers ==
  /\ Analysts \in Nat /\ Summing \in Nat /\ Closing \in Nat /\ Views \in Nat
  /\ Analysts < Summing /\ Summing < Closing
BY DeliberationAssumption DEF Summing, Closing

LEMMA RoleAt ==
  ASSUME NEW q \in 1..Closing
  PROVE  /\ RoleOf(q) \in Roles
         /\ RoleOf(q) = "analyst" <=> q <= Analysts
         /\ RoleOf(q) \in {"bull", "bear"} <=> Analysts < q /\ q < Summing
         /\ RoleOf(q) = "manager" <=> q = Summing
         /\ RoleOf(q) = "risk" <=> Summing < q /\ q < Closing
         /\ RoleOf(q) = "portfolio" <=> q = Closing
<1>1. q \in Int
  OBVIOUS
<1>2. CASE q <= Analysts
  BY <1>1, <1>2, Numbers DEF RoleOf, Roles
<1>3. CASE Analysts < q /\ q < Summing
  <2>1. RoleOf(q) = IF (q - Analysts) % 2 = 1 THEN "bull" ELSE "bear"
    BY <1>1, <1>3, Numbers DEF RoleOf
  <2>2. RoleOf(q) = "bull" \/ RoleOf(q) = "bear"
    BY <2>1
  <2> QED
    BY <1>1, <1>3, <2>2, Numbers DEF Roles
<1>4. CASE q = Summing
  BY <1>1, <1>4, Numbers DEF RoleOf, Roles
<1>5. CASE Summing < q /\ q < Closing
  BY <1>1, <1>5, Numbers DEF RoleOf, Roles
<1>6. CASE q = Closing
  BY <1>1, <1>6, Numbers DEF RoleOf, Roles
<1> QED
  BY <1>1, <1>2, <1>3, <1>4, <1>5, <1>6, Numbers

\* What is asked now is a call of this run and this question, and not None.
LEMMA CallNow ==
  ASSUME TypeOK, Awaited, pc = "asking", NEW n, Has(n)
  PROVE  Call(n) \in Calls /\ Call(n).run = runs /\ Call(n).q = at
<1> DEFINE m == The(ProvidersFor(Tier[RoleOf(at)], n))
<1>1. m \in DOMAIN Registered
  BY DEF Has, The, ProvidersFor, Nth
<1>2. Registered[m] \in DOMAIN Serves
  BY <1>1, DeliberationAssumption, LenProperties, ElementOfSeq
<1>3. runs \in 1..MaxRuns /\ at \in 1..Closing
  BY DeliberationAssumption, Numbers DEF TypeOK, Awaited
<1>4. Call(n) = [run |-> runs, q |-> at, by |-> Registered[m]]
  BY DEF Call
<1> HIDE DEF m
<1> QED
  BY <1>2, <1>3, <1>4 DEF Calls

LEMMA NoneIsNoCall == None \notin Calls
<1>1. Calls \subseteq [run : Nat, q : Nat, by : DOMAIN Serves]
  BY Numbers, DeliberationAssumption DEF Calls
<1> QED
  BY <1>1, DeliberationAssumption

LEMMA NoneAwaited == TypeOK /\ waiting = None => Late = flying
BY NoneIsNoCall DEF TypeOK, Late

\* Fewer calls that fly are still few.
LEMMA Fewer ==
  ASSUME NEW S, IsFiniteSet(S), NEW T \in SUBSET S, Cardinality(S) <= MaxLate
  PROVE  IsFiniteSet(T) /\ Cardinality(T) <= MaxLate
<1>1. IsFiniteSet(T) /\ Cardinality(T) <= Cardinality(S)
  BY FS_Subset
<1>2. Cardinality(T) \in Nat /\ Cardinality(S) \in Nat
  BY <1>1, FS_CardinalityType
<1> QED
  BY <1>1, <1>2, DeliberationAssumption

----------------------------------------------------------------------------
(* The debate.                                                             *)

Sentences == [call : Calls, text : Limits \union {Sound, None}]

LEMMA SentenceAt ==
  ASSUME TypeOK
  PROVE  /\ rounds \in Seq(Sentences) /\ Len(rounds) \in Nat /\ DOMAIN rounds = 1..Len(rounds)
         /\ \A i \in DOMAIN rounds :
              /\ rounds[i].text \in Limits \union {Sound, None}
              /\ rounds[i].call.q \in 1..Closing
<1>1. rounds \in Seq(Sentences)
  BY DEF TypeOK, Sentences
<1>2. Len(rounds) \in Nat /\ DOMAIN rounds = 1..Len(rounds)
  BY <1>1, LenProperties
<1>3. \A i \in DOMAIN rounds : rounds[i] \in Sentences
  BY <1>1, <1>2, ElementOfSeq
<1>4. \A x \in Sentences : x.text \in Limits \union {Sound, None} /\ x.call.q \in 1..Closing
  BY DEF Sentences, Calls
<1> QED
  BY <1>1, <1>2, <1>3, <1>4

\* The calls that fly after a step that awaits none.
Settled == waiting' = None /\ flying' \subseteq flying /\ Cardinality(flying') <= MaxLate

LEMMA SettledFlying ==
  ASSUME IInv, Settled
  PROVE  /\ waiting' \in flying' \cup {None} /\ flying' \subseteq Calls
         /\ Cardinality(Late') <= MaxLate /\ IsFiniteSet(flying')
<1>1. flying' \subseteq Calls
  BY DEF IInv, TypeOK, Settled
<1>2. Late' = flying'
  BY <1>1, NoneIsNoCall DEF Late, Settled
<1>3. IsFiniteSet(flying')
  BY FS_Subset DEF IInv, Awaited, Settled
<1> QED
  BY <1>1, <1>2, <1>3 DEF Settled

LEMMA FailInv ==
  ASSUME IInv, pc \in {"asking", "extracting"}, Fail, Settled,
         UNCHANGED <<runs, at, rounds, provenance, faulty, sides, logs>>
  PROVE  IInv'
<1>1. /\ pc' = "idle" /\ result' = "failed" /\ advisory' = advisory /\ portfolio' = portfolio
      /\ runs' = runs /\ at' = at /\ rounds' = rounds /\ provenance' = provenance
      /\ faulty' = faulty /\ sides' = sides /\ log' = log /\ base' = base
  BY DEF Fail, logs
<1>2. TypeOK'
  BY <1>1, SettledFlying DEF IInv, TypeOK, Calls
<1>3. Awaited'
  BY <1>1, SettledFlying DEF Awaited, Settled
<1>4. Spoken' /\ AnswersItsQuestion'
  BY <1>1 DEF IInv, Spoken, AnswersItsQuestion
<1>5. Whole'
  BY <1>1 DEF Whole, Alive
<1>6. Advice'
  BY <1>1 DEF IInv, Advice, Done, LimitsBind, NamedLimits, ToldBy
<1>7. Logs'
  BY <1>1 DEF IInv, Logs
<1> QED
  BY <1>2, <1>3, <1>4, <1>5, <1>6, <1>7 DEF IInv

LEMMA UnheardInv ==
  ASSUME IInv, pc = "asking", Unheard, Settled
  PROVE  IInv'
<1>0. at \in 1..Closing /\ at \in Int
  BY Numbers DEF IInv, TypeOK, Awaited
<1>1. CASE at \in {Summing, Closing}
  BY <1>1, FailInv DEF Unheard, logs
<1>2. CASE at \notin {Summing, Closing}
  <2>1. /\ at' = at + 1 /\ pc' = "asking" /\ faulty' = TRUE /\ result' = result
        /\ stages' = stages /\ advisory' = advisory /\ portfolio' = portfolio
        /\ runs' = runs /\ rounds' = rounds /\ provenance' = provenance
        /\ sides' = sides /\ log' = log /\ base' = base
    BY <1>2 DEF Unheard, GoOn, advice, logs
  <2>2. at < Closing /\ at' \in 1..Closing
    BY <1>0, <1>2, <2>1, Numbers
  <2>3. TypeOK'
    BY <2>1, <2>2, Numbers, SettledFlying DEF IInv, TypeOK, Calls
  <2>4. Awaited'
    BY <2>1, <2>2, SettledFlying DEF IInv, Awaited, Settled
  <2>5. Spoken' /\ AnswersItsQuestion'
    <3>1. \A i \in DOMAIN rounds : rounds[i].call.q < at /\ rounds[i].call.q \in 1..Closing
      BY SentenceAt DEF IInv, Spoken
    <3>2. Spoken'
      BY <1>0, <2>1, <3>1 DEF Spoken
    <3> QED
      BY <2>1, <3>2 DEF IInv, AnswersItsQuestion
  <2>6. Whole'
    <3>1. ~(at' > Closing)
      BY <2>2, Numbers
    <3>2. at' > Summing => at > Summing
      BY <1>0, <1>2, <2>1, Numbers
    <3>3. Alive
      BY DEF Alive
    <3> QED
      BY <2>1, <3>1, <3>2, <3>3 DEF IInv, Whole
  <2>7. Advice'
    BY <2>1 DEF IInv, Advice, Done, LimitsBind, NamedLimits, ToldBy, Awaited
  <2>8. Logs'
    BY <2>1 DEF IInv, Logs, Awaited
  <2> QED
    BY <2>3, <2>4, <2>5, <2>6, <2>7, <2>8 DEF IInv
<1> QED
  BY <1>1, <1>2

LEMMA HeardInv ==
  ASSUME IInv, NEW c \in flying, c = waiting, NEW text \in Texts(RoleOf(at)),
         flying' = flying \ {c}, Heard(c, text)
  PROVE  IInv'
<1> DEFINE new == [call |-> c, text |-> text]
           n == Len(rounds)
<1>0. /\ c \in Calls /\ c # None /\ pc = "asking" /\ ~Undebated /\ c.run = runs /\ c.q = at
      /\ at \in 1..Closing /\ at \in Int /\ Alive
  BY NoneIsNoCall, Numbers DEF IInv, TypeOK, Awaited, Alive
<1>1. /\ at' = at + 1 /\ pc' = (IF at = Closing THEN "extracting" ELSE "asking") /\ result' = result
      /\ stages' = stages /\ advisory' = advisory /\ portfolio' = portfolio
      /\ runs' = runs /\ rounds' = Append(rounds, new) /\ provenance' = Append(provenance, c.by)
      /\ faulty' = faulty /\ log' = log /\ base' = base /\ waiting' = None
      /\ sides' = IF RoleOf(at) \in {"bull", "bear"}
                  THEN [sides EXCEPT ![RoleOf(at)] = text = Sound] ELSE sides
  BY DEF Heard, GoOn, advice, logs
<1>2. text \in Limits \union {Sound, None}
  BY DEF Texts
<1>3. new \in Sentences /\ new.call = c /\ new.text = text
  BY <1>0, <1>2 DEF Sentences
<1>4. /\ n \in Nat /\ rounds \in Seq(Sentences) /\ DOMAIN rounds = 1..n
      /\ \A i \in 1..n : rounds[i].call.q \in 1..Closing /\ rounds[i].call.q < at
  BY SentenceAt DEF IInv, Spoken
<1> HIDE DEF new, n
<1>5. /\ rounds' \in Seq(Sentences) /\ Len(rounds') = n + 1 /\ DOMAIN rounds' = 1..(n + 1)
      /\ \A i \in 1..n : rounds'[i] = rounds[i]
      /\ rounds'[n + 1] = new
  <2>1. /\ rounds' \in Seq(Sentences) /\ Len(rounds') = n + 1
        /\ \A i \in 1..n : rounds'[i] = rounds[i]
        /\ rounds'[n + 1] = new
    BY <1>1, <1>3, <1>4, AppendProperties DEF n
  <2> QED
    BY <2>1, LenProperties
<1>6. /\ provenance \in Seq(DOMAIN Serves) /\ Len(provenance) = n /\ c.by \in DOMAIN Serves
      /\ provenance' \in Seq(DOMAIN Serves) /\ Len(provenance') = n + 1
      /\ \A i \in 1..n : provenance'[i] = provenance[i]
      /\ provenance'[n + 1] = c.by
  <2>1. provenance \in Seq(DOMAIN Serves) /\ Len(provenance) = n
    BY DEF IInv, TypeOK, AnswersItsQuestion, n
  <2>2. c.by \in DOMAIN Serves
    BY <1>0 DEF Calls
  <2> QED
    BY <1>1, <2>1, <2>2, AppendProperties
<1>7. Settled /\ Cardinality(flying') <= MaxLate
  <2>1. flying' = Late
    BY <1>0 DEF Late
  <2> QED
    BY <1>1, <2>1 DEF IInv, TypeOK, Settled, Late
<1>8. sides' \in [bull : BOOLEAN, bear : BOOLEAN]
  BY <1>1 DEF IInv, TypeOK
<1>9. TypeOK'
  BY <1>0, <1>1, <1>5, <1>6, <1>7, <1>8, Numbers, SettledFlying DEF IInv, TypeOK, Calls, Sentences
<1>10. Awaited'
  <2>1. IsFiniteSet(flying') /\ waiting' = None
    BY <1>7, SettledFlying DEF Settled
  <2>2. runs' >= 1 /\ result' = "none"
    BY <1>0, <1>1 DEF IInv, Awaited
  <2>3. pc' = "asking" => at' <= Closing
    BY <1>0, <1>1, Numbers
  <2>4. pc' # "asking" => pc' = "extracting" /\ at' = Closing + 1
    BY <1>1
  <2> QED
    BY <1>1, <2>1, <2>2, <2>3, <2>4 DEF Awaited
<1>11. Spoken'
  BY <1>0, <1>1, <1>3, <1>4, <1>5 DEF Spoken
<1>12. AnswersItsQuestion'
  <2> SUFFICES ASSUME NEW i \in 1..(n + 1)
               PROVE  /\ rounds'[i].call.run = runs /\ rounds'[i].call.by = provenance'[i]
                      /\ rounds'[i].text \in Texts(RoleOf(rounds'[i].call.q))
                      /\ \A j \in 1..(i - 1) : rounds'[j].call.q < rounds'[i].call.q
    BY <1>1, <1>5, <1>6 DEF AnswersItsQuestion, Texts
  <2>1. CASE i = n + 1
    BY <1>0, <1>3, <1>4, <1>5, <1>6, <2>1
  <2>2. CASE i \in 1..n
    <3>1. \A j \in 1..(i - 1) : j \in 1..n
      BY <1>4, <2>2
    <3> QED
      BY <1>4, <1>5, <1>6, <2>2, <3>1 DEF IInv, AnswersItsQuestion
  <2> QED
    BY <1>4, <2>1, <2>2
<1>13. Whole'
  <2>1. ASSUME Alive', at' <= Summing, ~faulty'
        PROVE  Len(rounds') = at' - 1 /\ \A i \in 1..(at' - 1) : rounds'[i].call.q = i
    <3>1. n = at - 1 /\ \A i \in 1..n : rounds[i].call.q = i
      BY <1>0, <1>1, <2>1, Numbers DEF IInv, Whole, n
    <3> QED
      BY <1>0, <1>1, <1>3, <1>4, <1>5, <3>1
  <2>2. ASSUME at' > Summing
        PROVE  /\ Len(rounds') >= Summing /\ \A i \in 1..Summing : rounds'[i].call.q = i
               /\ sides'.bull /\ sides'.bear
    <3>1. RoleOf(at) \notin {"bull", "bear"}
      BY <1>0, <1>1, <2>2, RoleAt, Numbers
    <3>2. sides' = sides
      BY <1>1, <3>1
    <3>3. CASE at = Summing
      <4>1. ~faulty /\ sides.bull /\ sides.bear
        BY <1>0, <3>3 DEF Undebated
      <4>2. n = at - 1 /\ \A i \in 1..n : rounds[i].call.q = i
        BY <1>0, <3>3, <4>1, Numbers DEF IInv, Whole, n
      <4> QED
        BY <1>0, <1>3, <1>4, <1>5, <3>2, <3>3, <4>1, <4>2
    <3>4. CASE at > Summing
      BY <1>0, <1>4, <1>5, <3>2, <3>4, Numbers DEF IInv, Whole, n
    <3> QED
      BY <1>0, <1>1, <2>2, <3>3, <3>4, Numbers
  <2>3. ASSUME at' > Closing PROVE \E i \in DOMAIN rounds' : rounds'[i].call.q = Closing
    <3>1. at = Closing
      BY <1>0, <1>1, <2>3, Numbers
    <3> QED
      BY <1>0, <1>3, <1>4, <1>5, <3>1
  <2> QED
    BY <2>1, <2>2, <2>3 DEF Whole
<1>14. Advice'
  <2>1. portfolio = None
    BY <1>0 DEF IInv, Advice
  <2> QED
    BY <1>0, <1>1, <2>1 DEF IInv, Advice, Done, LimitsBind, Awaited
<1>15. Logs'
  BY <1>0, <1>1 DEF IInv, Logs, Awaited
<1> QED
  BY <1>9, <1>10, <1>11, <1>12, <1>13, <1>14, <1>15 DEF IInv

\* A question is asked, of the first provider of its tier or of the fallback.
LEMMA AskedInv ==
  ASSUME IInv, pc = "asking", ~Undebated, NEW n, Has(n), NEW left \in SUBSET flying,
         Cardinality(left) <= MaxLate,
         waiting' = Call(n), flying' = left \cup {Call(n)},
         UNCHANGED <<runs, pc, result, at, rounds, provenance, faulty, sides, advice, logs>>
  PROVE  IInv'
<1>0. TypeOK /\ Awaited
  BY DEF IInv
<1>1. Call(n) \in Calls /\ Call(n).run = runs /\ Call(n).q = at
  BY <1>0, CallNow
<1>2. /\ runs' = runs /\ pc' = pc /\ result' = result /\ at' = at /\ rounds' = rounds
      /\ provenance' = provenance /\ faulty' = faulty /\ sides' = sides /\ stages' = stages
      /\ advisory' = advisory /\ portfolio' = portfolio /\ log' = log /\ base' = base
  BY DEF advice, logs
<1> DEFINE c == Call(n)
<1>3. waiting' = c /\ flying' = left \cup {c} /\ c \in Calls /\ c.run = runs /\ c.q = at
  BY <1>1
<1> HIDE DEF c
<1>4. IsFiniteSet(left) /\ IsFiniteSet(flying')
  BY <1>3, FS_Subset, FS_AddElement DEF IInv, Awaited
<1>5. Late' \subseteq left /\ Cardinality(Late') <= MaxLate
  <2>1. Late' \subseteq left
    BY <1>3 DEF Late
  <2> QED
    BY <1>4, <2>1, Fewer
<1>6. TypeOK'
  <2>1. flying' \subseteq Calls /\ waiting' \in flying' \union {None}
    BY <1>0, <1>3 DEF TypeOK
  <2> QED
    BY <1>0, <1>2, <1>5, <2>1 DEF TypeOK, Calls
<1>7. Awaited'
  BY <1>0, <1>2, <1>3, <1>4 DEF Awaited, Undebated
<1>8. Spoken' /\ AnswersItsQuestion' /\ Whole'
  BY <1>2 DEF IInv, Spoken, AnswersItsQuestion, Whole, Alive
<1>9. Advice' /\ Logs'
  <2>1. Advice'
    BY <1>2 DEF IInv, Awaited, Advice, Done, LimitsBind, NamedLimits, ToldBy
  <2> QED
    BY <1>2, <2>1 DEF IInv, Awaited, Logs
<1> QED
  BY <1>6, <1>7, <1>8, <1>9 DEF IInv

LEMMA DebateNext ==
  ASSUME IInv,
         \/ Adjourn \/ Ask \/ NotAsked \/ Broken \/ NotExtracted
         \/ \E c \in flying : \E text \in Texts(RoleOf(at)) : Answer(c, text)
         \/ \E c \in flying : Unrecorded(c) \/ LateAnswer(c)
  PROVE  IInv'
<1>0. /\ TypeOK /\ Awaited /\ Cardinality(Late) <= MaxLate /\ IsFiniteSet(flying)
      /\ waiting # None => pc = "asking" /\ ~Undebated
  BY DEF IInv, TypeOK, Awaited
<1>1. ASSUME waiting = None PROVE Cardinality(flying) <= MaxLate
  BY <1>0, <1>1, NoneAwaited
<1>2. CASE Adjourn
  <2>1. Settled /\ Fail /\ pc = "asking"
    BY <1>1, <1>2 DEF Adjourn, Settled, debate
  <2> QED
    BY <1>2, <2>1, FailInv DEF Adjourn, debate
<1>3. CASE Ask
  <2>1. pc = "asking" /\ waiting = None /\ ~Undebated /\ Has(1)
    BY <1>3 DEF Ask, Ready
  <2>2. /\ waiting' = Call(1) /\ flying' = flying \cup {Call(1)}
        /\ UNCHANGED <<runs, pc, result, at, rounds, provenance, faulty, sides, advice, logs>>
    BY <1>3 DEF Ask
  <2> QED
    BY <1>1, <2>1, <2>2, AskedInv
<1>4. CASE NotAsked
  <2>1. pc = "asking" /\ waiting = None /\ Unheard /\ flying' = flying
    BY <1>4 DEF NotAsked, Ready
  <2>2. Settled
    BY <1>1, <2>1 DEF Settled, Unheard
  <2> QED
    BY <2>1, <2>2, UnheardInv
<1>5. CASE Broken
  <2>1. PICK left \in {Late, flying} :
          /\ Cardinality(left) <= MaxLate
          /\ \/ /\ Has(2) /\ waiting' = Call(2) /\ flying' = left \union {Call(2)}
                /\ UNCHANGED <<runs, pc, result, at, rounds, provenance, faulty, sides, advice, logs>>
             \/ Unheard /\ flying' = left
    BY <1>5 DEF Broken
  <2>2. left \in SUBSET flying /\ pc = "asking" /\ ~Undebated
    BY <1>0, <1>5 DEF Broken, Late
  <2>3. CASE Unheard /\ flying' = left
    <3>1. Settled
      BY <2>1, <2>2, <2>3 DEF Settled, Unheard
    <3> QED
      BY <2>2, <2>3, <3>1, UnheardInv
  <2> QED
    BY <2>1, <2>2, <2>3, AskedInv
<1>6. CASE NotExtracted
  <2>1. pc = "extracting" /\ waiting = None
    BY <1>0, <1>6 DEF NotExtracted
  <2>2. Settled /\ Fail
    BY <1>1, <1>6, <2>1 DEF NotExtracted, Settled, debate
  <2> QED
    BY <1>6, <2>1, <2>2, FailInv DEF NotExtracted, debate
<1>7. ASSUME NEW c \in flying, NEW text \in Texts(RoleOf(at)), Answer(c, text) PROVE IInv'
  BY <1>7, HeardInv DEF Answer
<1>8. ASSUME NEW c \in flying, Unrecorded(c) PROVE IInv'
  <2>1. c = waiting /\ waiting # None /\ flying' = Late /\ Unheard
    BY <1>0, <1>8, NoneIsNoCall DEF Unrecorded, Late, TypeOK
  <2>2. Settled
    BY <1>0, <2>1 DEF Settled, Unheard, Late
  <2> QED
    BY <1>0, <2>1, <2>2, UnheardInv
<1>9. ASSUME NEW c \in flying, LateAnswer(c) PROVE IInv'
  <2>1. /\ c # waiting /\ flying' = flying \ {c} /\ runs' = runs /\ pc' = pc /\ result' = result
        /\ at' = at /\ waiting' = waiting /\ rounds' = rounds /\ provenance' = provenance
        /\ faulty' = faulty /\ sides' = sides /\ stages' = stages
        /\ advisory' = advisory /\ portfolio' = portfolio /\ log' = log /\ base' = base
    BY <1>9 DEF LateAnswer, Late, debate, advice, logs
  <2>2. IsFiniteSet(flying') /\ IsFiniteSet(Late)
    BY <1>0, <2>1, FS_Subset DEF Late
  <2>3. Cardinality(Late') <= MaxLate
    <3>1. Late' \in SUBSET Late
      BY <2>1 DEF Late
    <3> QED
      BY <1>0, <2>2, <3>1, Fewer
  <2>4. TypeOK'
    BY <1>0, <2>1, <2>3 DEF TypeOK, Calls
  <2>5. Awaited' /\ Spoken' /\ AnswersItsQuestion' /\ Whole'
    BY <2>1, <2>2 DEF IInv, Awaited, Undebated, Spoken, AnswersItsQuestion, Whole, Alive
  <2>6. Advice'
    BY <2>1 DEF IInv, Advice, Done, LimitsBind, NamedLimits, ToldBy, Rejected
  <2>7. Logs'
    <3>1. Entries' = Entries
      BY <2>1 DEF Entries, Told, ToldBy, Closings, Rejected, Verdict
    <3> QED
      BY <2>1, <3>1 DEF IInv, Logs, Logged
  <2> QED
    BY <2>4, <2>5, <2>6, <2>7 DEF IInv
<1> QED
  BY <1>2, <1>3, <1>4, <1>5, <1>6, <1>7, <1>8, <1>9

----------------------------------------------------------------------------
(* The limits of the risk advisors.                                        *)

LEMMA LeastNat ==
  ASSUME NEW T \in SUBSET Nat, T # {}
  PROVE  \E x \in T : \A y \in T : x <= y
<1> DEFINE Less == {ss \in Nat \X Nat : ss[1] < ss[2]}
<1>1. IsWellFoundedOn(Less, Nat)
  BY NatLessThanWellFounded DEF OpToRel
<1>2. \A x, y \in Nat : x < y => <<x, y>> \in Less
  OBVIOUS
<1> HIDE DEF Less
<1>3. PICK x \in T : \A y \in T : <<y, x>> \notin Less
  BY <1>1, WFMin
<1>4. \A y \in T : ~(y < x)
  BY <1>2, <1>3
<1> QED
  BY <1>4

\* Of finitely many limits one is the lowest: the one with the fewest below it.
LEMMA LowestIsLeast ==
  ASSUME NEW S \in SUBSET Int, IsFiniteSet(S), S # {}
  PROVE  Lowest(S) \in S /\ \A m \in S : Lowest(S) <= m
<1> DEFINE Below(x) == {y \in S : y < x}
           T == {Cardinality(Below(x)) : x \in S}
<1>1. \A x \in S : IsFiniteSet(Below(x)) /\ Cardinality(Below(x)) \in Nat
  <2> TAKE x \in S
  <2>1. Below(x) \in SUBSET S
    OBVIOUS
  <2> HIDE DEF Below
  <2> QED
    BY <2>1, FS_Subset, FS_CardinalityType
<1>2. PICK l \in S : \A x \in S : Cardinality(Below(l)) <= Cardinality(Below(x))
  <2>1. T \in SUBSET Nat /\ T # {}
    BY <1>1
  <2>2. PICK n \in T : \A k \in T : n <= k
    BY <2>1, LeastNat
  <2> QED
    BY <2>2
<1>3. ASSUME NEW m \in S, m < l PROVE FALSE
  <2>1. Below(m) \in SUBSET Below(l) /\ m \in Below(l) /\ m \notin Below(m)
    <3>1. \A y \in S : y < m => y < l
      <4> SUFFICES ASSUME NEW y \in S, y < m PROVE y < l
        OBVIOUS
      <4>1. y \in Int /\ m \in Int /\ l \in Int
        OBVIOUS
      <4> QED
        BY <1>3, <4>1
    <3>2. ~(m < m)
      <4>1. m \in Int
        OBVIOUS
      <4> QED
        BY <4>1
    <3> QED
      BY <1>3, <3>1, <3>2
  <2> HIDE DEF Below
  <2>2. /\ Cardinality(Below(m)) <= Cardinality(Below(l))
        /\ Cardinality(Below(l)) = Cardinality(Below(m)) => Below(l) = Below(m)
    BY <1>1, <2>1, FS_Subset
  <2>3. Cardinality(Below(l)) <= Cardinality(Below(m))
    BY <1>2
  <2> QED
    BY <1>1, <2>1, <2>2, <2>3
<1>4. \A m \in S : l <= m
  BY <1>3
<1> QED
  BY <1>4 DEF Lowest

LEMMA NamedLimitsAre ==
  ASSUME TypeOK, AnswersItsQuestion
  PROVE  NamedLimits \subseteq Limits /\ IsFiniteSet(NamedLimits)
<1> DEFINE T == {i \in ToldBy({"risk"}) : rounds[i].text # None}
           f == [i \in T |-> rounds[i].text]
<1>1. NamedLimits \subseteq Limits
  BY DEF NamedLimits, ToldBy, AnswersItsQuestion, Texts
<1>2. IsFiniteSet(T)
  <2>1. IsFiniteSet(1..Len(rounds)) /\ T \in SUBSET (1..Len(rounds))
    BY SentenceAt, FS_Interval DEF ToldBy
  <2> QED
    BY <2>1, FS_Subset
<1>3. f \in Surjection(T, NamedLimits)
  BY DEF Surjection, NamedLimits
<1> HIDE DEF T, f
<1> QED
  BY <1>1, <1>2, <1>3, FS_Surjection

\* The check of the result keeps every limit, whatever the overlays made of it.
LEMMA AdvisedKeeps ==
  ASSUME NEW S \in SUBSET Int, IsFiniteSet(S), S # {}, NEW known, NEW w, NEW held, NEW risk,
         Overlaid(w, held, risk, Constrained(Config, S)) \in Int,
         NEW a, a = Advised(known, w, held, risk, Constrained(Config, S)), ~a.rejected
  PROVE  Abs(a.weight) <= Config.gross /\ \A limit \in S : Abs(a.weight) <= limit
<1> DEFINE cfg == Constrained(Config, S)
           v == IF known THEN Overlaid(w, held, risk, cfg) ELSE 0
<1>1. Lowest(S) \in Int /\ \A m \in S : Lowest(S) <= m
  BY LowestIsLeast
<1>2. Config.gross \in Int /\ cfg.gross = Lower(Config.gross, Lowest(S))
  BY DeliberationAssumption DEF Configs, Constrained
<1>3. v \in Int
  OBVIOUS
<1>4. a = [weight |-> v, rejected |-> Violates(IF known THEN w ELSE 0, v, held, risk, cfg)]
  BY DEF Advised
<1> HIDE DEF cfg, v
<1>5. a.weight = v /\ ~(Abs(v) > cfg.gross)
  BY <1>4 DEF Violates
<1>6. Abs(v) \in Int /\ cfg.gross \in Int
  BY <1>1, <1>2, <1>3 DEF Abs, Lower
<1>7. Abs(v) <= cfg.gross /\ cfg.gross <= Config.gross /\ cfg.gross <= Lowest(S)
  BY <1>1, <1>2, <1>5, <1>6 DEF Lower
<1> QED
  BY <1>1, <1>2, <1>5, <1>6, <1>7

LEMMA OverlaidIsInt ==
  ASSUME NEW w \in Int, NEW held \in Int, NEW risk, NEW cfg,
         cfg.position \in Int, cfg.gross \in Int, cfg.net \in Int, cfg.beta \in Int,
         cfg.turnover \in Int
  PROVE  Overlaid(w, held, risk, cfg) \in Int
<1>1. \A x, l \in Int : Scaled(x, l) \in Int
  BY DEF Scaled, Sign, Abs
<1>2. \A x, h, m \in Int : Moved(x, h, m) \in Int
  BY DEF Moved, Sign, Abs
<1> QED
  BY <1>1, <1>2 DEF Overlaid

----------------------------------------------------------------------------
(* What follows the debate.                                                *)

\* The n-th place of an interval.
LEMMA NthOfInterval ==
  ASSUME NEW a \in Int, NEW b \in Int, NEW n \in 1..(b - a + 1)
  PROVE  The(Nth(n, a..b)) = a + n - 1
<1>1. ASSUME NEW m \in a..b PROVE Cardinality({k \in a..b : k <= m}) = m - a + 1
  <2>1. {k \in a..b : k <= m} = a..m
    OBVIOUS
  <2>2. Cardinality(a..m) = m - a + 1
    BY FS_Interval
  <2> QED
    BY <2>1, <2>2
<1>2. a + n - 1 \in a..b
  OBVIOUS
<1>3. \A m \in a..b : m \in Nth(n, a..b) <=> m = a + n - 1
  BY <1>1 DEF Nth
<1>4. \A m : m \in Nth(n, a..b) => m \in a..b
  BY DEF Nth
<1>5. \A m : m \in Nth(n, a..b) <=> m = a + n - 1
  BY <1>2, <1>3, <1>4
<1> QED
  BY <1>5 DEF The

\* Two sequences that are joined, told place by place.
LEMMA Joined ==
  ASSUME NEW S, NEW a \in Seq(S), NEW b \in Seq(S)
  PROVE  /\ a \o b \in Seq(S)
         /\ Len(a \o b) = Len(a) + Len(b)
         /\ \A j \in 1..Len(a) : (a \o b)[j] = a[j]
         /\ \A j \in 1..Len(b) : (a \o b)[Len(a) + j] = b[j]
BY ConcatProperties, LenProperties

LEMMA Listed ==
  ASSUME NEW S, NEW n \in Nat, NEW f \in [1..n -> S]
  PROVE  f \in Seq(S) /\ Len(f) = n
<1>1. f \in Seq(S)
  BY SeqDef
<1> QED
  BY <1>1, LenProperties

\* After a whole debate the entries are those of its questions, in their order,
\* and the stages.
LEMMA EntriesAre ==
  ASSUME TypeOK, Spoken, AnswersItsQuestion, Whole, Alive, at = Closing + 1
  PROVE  /\ Len(Entries) = Count
         /\ \A q \in 1..(Summing - 1) :
              Entries[q] = <<IF q <= Analysts THEN "analyst-output" ELSE "debate-output", q>>
         /\ \A i \in 1..5 : Entries[Summing - 1 + i] = Closings[i]
         /\ \E S : Entries \in Seq(S)
<1> DEFINE E == {<<"analyst-output", q>> : q \in Nat} \cup {<<"debate-output", q>> : q \in Nat}
                \cup {Closings[i] : i \in 1..5}
           A == Told("analyst-output", {"analyst"})
           D == Told("debate-output", {"bull", "bear"})
           d == Summing - 1 - Analysts
<1>0. /\ Analysts \in Nat /\ Summing \in Nat /\ Analysts < Summing /\ Summing < Closing /\ d \in Nat
  BY Numbers
<1>1. /\ DOMAIN rounds = 1..Len(rounds) /\ Len(rounds) \in Nat /\ Len(rounds) >= Summing
      /\ \A i \in 1..Summing : rounds[i].call.q = i
      /\ \A i \in 1..Len(rounds) : rounds[i].call.q \in 1..Closing
  <2>1. at > Summing
    BY <1>0, Numbers
  <2>2. Len(rounds) >= Summing /\ \A i \in 1..Summing : rounds[i].call.q = i
    BY <2>1 DEF Whole
  <2> QED
    BY <2>2, SentenceAt
<1>2. \A i \in 1..Len(rounds) : i > Summing => rounds[i].call.q > Summing
  <2> SUFFICES ASSUME NEW i \in 1..Len(rounds), i > Summing PROVE rounds[i].call.q > Summing
    OBVIOUS
  <2>1. Summing \in 1..(i - 1) /\ rounds[Summing].call.q = Summing
    BY <1>0, <1>1
  <2>2. rounds[Summing].call.q < rounds[i].call.q
    BY <1>1, <2>1 DEF AnswersItsQuestion
  <2> QED
    BY <1>0, <1>1, <2>1, <2>2
<1>3. ToldBy({"analyst"}) = 1..Analysts
  <2>1. \A i \in 1..Len(rounds) : RoleOf(rounds[i].call.q) = "analyst" <=> i \in 1..Analysts
    <3> SUFFICES ASSUME NEW i \in 1..Len(rounds)
                 PROVE  RoleOf(rounds[i].call.q) = "analyst" <=> i \in 1..Analysts
      OBVIOUS
    <3>1. RoleOf(rounds[i].call.q) = "analyst" <=> rounds[i].call.q <= Analysts
      BY <1>1, RoleAt
    <3>2. CASE i <= Summing
      BY <1>0, <1>1, <3>1, <3>2
    <3>3. CASE i > Summing
      BY <1>0, <1>1, <1>2, <3>1, <3>3
    <3> QED
      BY <1>0, <3>2, <3>3
  <2>2. \A i \in 1..Analysts : i \in 1..Len(rounds)
    BY <1>0, <1>1
  <2> QED
    BY <1>1, <2>1, <2>2 DEF ToldBy
<1>4. ToldBy({"bull", "bear"}) = (Analysts + 1)..(Summing - 1)
  <2>1. \A i \in 1..Len(rounds) :
           RoleOf(rounds[i].call.q) \in {"bull", "bear"} <=> i \in (Analysts + 1)..(Summing - 1)
    <3> SUFFICES ASSUME NEW i \in 1..Len(rounds)
                 PROVE  RoleOf(rounds[i].call.q) \in {"bull", "bear"}
                           <=> i \in (Analysts + 1)..(Summing - 1)
      OBVIOUS
    <3>1. RoleOf(rounds[i].call.q) \in {"bull", "bear"}
             <=> Analysts < rounds[i].call.q /\ rounds[i].call.q < Summing
      BY <1>1, RoleAt
    <3>2. CASE i <= Summing
      BY <1>0, <1>1, <3>1, <3>2
    <3>3. CASE i > Summing
      BY <1>0, <1>1, <1>2, <3>1, <3>3
    <3> QED
      BY <1>0, <3>2, <3>3
  <2>2. \A i \in (Analysts + 1)..(Summing - 1) : i \in 1..Len(rounds)
    BY <1>0, <1>1
  <2> QED
    BY <1>1, <2>1, <2>2 DEF ToldBy
<1>5. A = [q \in 1..Analysts |-> <<"analyst-output", q>>]
  <2>1. Cardinality(1..Analysts) = Analysts
    BY <1>0, FS_Interval
  <2>2. \A n \in 1..Analysts : The(Nth(n, 1..Analysts)) = n
    BY <1>0, NthOfInterval
  <2>3. \A n \in 1..Analysts : rounds[The(Nth(n, 1..Analysts))].call.q = n
    BY <1>0, <1>1, <2>2
  <2> QED
    BY <1>3, <2>1, <2>3 DEF Told
<1>6. D = [q \in 1..d |-> <<"debate-output", Analysts + q>>]
  <2>1. Cardinality((Analysts + 1)..(Summing - 1)) = d
    BY <1>0, FS_Interval
  <2>2. \A n \in 1..d : The(Nth(n, (Analysts + 1)..(Summing - 1))) = Analysts + n
    <3> SUFFICES ASSUME NEW n \in 1..d
                 PROVE  The(Nth(n, (Analysts + 1)..(Summing - 1))) = Analysts + n
      OBVIOUS
    <3>1. n \in 1..((Summing - 1) - (Analysts + 1) + 1) /\ (Analysts + 1) + n - 1 = Analysts + n
      BY <1>0
    <3> QED
      BY <1>0, <3>1, NthOfInterval
  <2>3. \A n \in 1..d : rounds[The(Nth(n, (Analysts + 1)..(Summing - 1)))].call.q = Analysts + n
    BY <1>0, <1>1, <2>2
  <2> QED
    BY <1>4, <2>1, <2>3 DEF Told
<1>7. A \in Seq(E) /\ Len(A) = Analysts /\ \A q \in 1..Analysts : A[q] = <<"analyst-output", q>>
  BY <1>0, <1>5
<1>8. d \in Nat /\ D \in [1..d -> E] /\ \A q \in 1..d : D[q] = <<"debate-output", Analysts + q>>
  <2>1. \A q \in 1..d : <<"debate-output", Analysts + q>> \in E
    BY <1>0
  <2> QED
    BY <1>0, <1>6, <2>1
<1>9. Closings \in Seq(E) /\ Len(Closings) = 5
  <2>1. /\ DOMAIN Closings = 1..5 /\ Len(Closings) = 5
        /\ Closings = [i \in 1..5 |-> Closings[i]]
    BY DEF Closings
  <2> QED
    BY <2>1
<1>10. PICK C : C = Closings /\ C \in Seq(E) /\ Len(C) = 5
  BY <1>9
<1>11. Entries = (A \o D) \o C
  BY <1>10 DEF Entries
<1>12. Analysts + d = Summing - 1
  BY <1>0
<1> HIDE DEF E, A, D, d
<1>13. D \in Seq(E) /\ Len(D) = d
  BY <1>8, Listed
<1>14. PICK B : B = A \o D
  OBVIOUS
<1>15. /\ B \in Seq(E) /\ Len(B) = Analysts + d
       /\ \A i \in 1..Analysts : B[i] = A[i]
       /\ \A i \in 1..d : B[Analysts + i] = D[i]
  <2>1. A \in Seq(E) /\ D \in Seq(E)
    BY <1>7, <1>13
  <2>2. /\ A \o D \in Seq(E)
        /\ Len(A \o D) = Len(A) + Len(D)
        /\ \A j \in 1..Len(A) : (A \o D)[j] = A[j]
        /\ \A j \in 1..Len(D) : (A \o D)[Len(A) + j] = D[j]
    BY <2>1, Joined
  <2>3. Len(A) = Analysts /\ Len(D) = d
    BY <1>7, <1>13
  <2> QED
    BY <1>14, <2>2, <2>3
<1>16. B \in Seq(E) /\ Len(B) = Summing - 1
  BY <1>12, <1>15
<1>17. /\ Entries \in Seq(E) /\ Len(Entries) = (Summing - 1) + 5
       /\ \A i \in 1..(Summing - 1) : Entries[i] = B[i]
       /\ \A i \in 1..5 : Entries[(Summing - 1) + i] = C[i]
  <2>1. Entries = B \o C
    BY <1>11, <1>14
  <2>2. B \in Seq(E) /\ C \in Seq(E)
    BY <1>10, <1>16
  <2>3. /\ B \o C \in Seq(E)
        /\ Len(B \o C) = Len(B) + Len(C)
        /\ \A j \in 1..Len(B) : (B \o C)[j] = B[j]
        /\ \A j \in 1..Len(C) : (B \o C)[Len(B) + j] = C[j]
    BY <2>2, Joined
  <2>4. Len(B) = Summing - 1 /\ Len(C) = 5
    BY <1>10, <1>16
  <2> QED
    BY <2>1, <2>3, <2>4
<1>18. \A q \in 1..(Summing - 1) :
          Entries[q] = <<IF q <= Analysts THEN "analyst-output" ELSE "debate-output", q>>
  <2> SUFFICES ASSUME NEW q \in 1..(Summing - 1)
               PROVE  Entries[q] = <<IF q <= Analysts THEN "analyst-output" ELSE "debate-output", q>>
    OBVIOUS
  <2>1. Entries[q] = B[q]
    BY <1>17
  <2>2. CASE q <= Analysts
    <3>1. q \in 1..Analysts
      BY <1>0, <2>2
    <3> QED
      BY <1>7, <1>15, <2>1, <2>2, <3>1
  <2>3. CASE q > Analysts
    <3>1. PICK i \in 1..d : i = q - Analysts
      BY <1>0, <1>12, <2>3
    <3>2. Analysts + i = q /\ ~(q <= Analysts)
      BY <1>0, <2>3, <3>1
    <3>3. B[q] = D[i] /\ D[i] = <<"debate-output", q>>
      BY <1>8, <1>15, <3>2
    <3> QED
      BY <2>1, <3>2, <3>3
  <2> QED
    BY <1>0, <2>2, <2>3
<1> QED
  BY <1>10, <1>17, <1>18 DEF Count

\* The stage of the human decision.
LEMMA Decided == ASSUME NEW d, NEW v, NEW h PROVE Outcomes(d, v, h)[7][2] = h
<1> DEFINE S == {<<DebateStages[i], d>> : i \in 1..5} \cup {<<"cashclaw-validation", v>>}
                \cup {<<"human-decision", h>>}
<1>1. PICK a : a = [i \in 1..5 |-> <<DebateStages[i], d>>]
  OBVIOUS
<1>2. PICK b : b = << <<"cashclaw-validation", v>>, <<"human-decision", h>> >>
  OBVIOUS
<1>3. Len(b) = 2 /\ b[2] = <<"human-decision", h>> /\ Outcomes(d, v, h) = a \o b
  BY <1>1, <1>2 DEF Outcomes
<1>4. PICK T : a \in [1..5 -> T] /\ b \in Seq(T)
  <2>1. a \in [1..5 -> S] /\ b \in Seq(S)
    BY <1>1, <1>2
  <2> HIDE DEF S
  <2> QED
    BY <2>1
<1> HIDE DEF S
<1>5. a \in Seq(T) /\ Len(a) = 5
  <2>1. 5 \in Nat /\ a \in [1..5 -> T]
    BY <1>4
  <2> QED
    BY <2>1, Listed
<1>6. \A j \in 1..Len(b) : (a \o b)[Len(a) + j] = b[j]
  <2>1. a \in Seq(T) /\ b \in Seq(T)
    BY <1>4, <1>5
  <2> QED
    BY <2>1, Joined
<1>7. (a \o b)[7] = b[2]
  <2>1. 2 \in 1..Len(b) /\ Len(a) + 2 = 7
    BY <1>3, <1>5
  <2>2. (a \o b)[Len(a) + 2] = b[2]
    BY <1>6, <2>1
  <2> QED
    BY <2>1, <2>2
<1> QED
  BY <1>3, <1>7

LEMMA WeighInv ==
  ASSUME IInv, NamedLimits # {}, NEW known \in BOOLEAN, NEW direction \in {-1, 1},
         NEW held \in Held, NEW risk \in Risks, Weigh(known, direction, held, risk)
  PROVE  /\ advisory' = NamedLimits /\ portfolio' \in [weight : Int, rejected : BOOLEAN]
         /\ stages'[7][2] = IF portfolio'.rejected THEN "rejected" ELSE "completed"
         /\ ~portfolio'.rejected => /\ Abs(portfolio'.weight) <= Config.gross
                                    /\ \A limit \in NamedLimits : Abs(portfolio'.weight) <= limit
<1> DEFINE cfg == Constrained(Config, NamedLimits)
           w == direction * Size
           a == Advised(known, w, held, risk, cfg)
<1>1. advisory' = NamedLimits /\ portfolio' = a
  BY DEF Weigh
<1>2. stages' = Outcomes("completed", "completed", IF a.rejected THEN "rejected" ELSE "completed")
  BY DEF Weigh
<1>3. NamedLimits \in SUBSET Int /\ IsFiniteSet(NamedLimits)
  BY NamedLimitsAre, DeliberationAssumption DEF IInv
<1>4. w \in Int /\ held \in Int
  BY DeliberationAssumption
<1>5. /\ cfg.position \in Int /\ cfg.gross \in Int /\ cfg.net \in Int /\ cfg.beta \in Int
      /\ cfg.turnover \in Int
  <2>1. Lowest(NamedLimits) \in Int
    BY <1>3, LowestIsLeast
  <2> QED
    BY <2>1, DeliberationAssumption DEF Constrained, Configs, Lower
<1> HIDE DEF w
<1>6. Overlaid(w, held, risk, cfg) \in Int
  <2> HIDE DEF cfg
  <2> QED
    BY <1>4, <1>5, OverlaidIsInt
<1>7. a.weight \in Int /\ a.rejected \in BOOLEAN /\ a \in [weight : Int, rejected : BOOLEAN]
  <2> DEFINE v == IF known THEN Overlaid(w, held, risk, cfg) ELSE 0
             r == Violates(IF known THEN w ELSE 0, v, held, risk, cfg)
  <2>1. a = [weight |-> v, rejected |-> r]
    BY DEF Advised
  <2>2. v \in Int
    BY <1>6
  <2>3. r \in BOOLEAN
    BY DEF Violates
  <2> HIDE DEF a, v, r
  <2> QED
    BY <2>1, <2>2, <2>3
<1>8. ~a.rejected => Abs(a.weight) <= Config.gross /\ \A limit \in NamedLimits : Abs(a.weight) <= limit
  <2>1. a = Advised(known, w, held, risk, Constrained(Config, NamedLimits))
    OBVIOUS
  <2>2. Overlaid(w, held, risk, Constrained(Config, NamedLimits)) \in Int
    BY <1>6
  <2> HIDE DEF a, cfg
  <2>3. PICK S : S = NamedLimits
    OBVIOUS
  <2>4. ~a.rejected => Abs(a.weight) <= Config.gross /\ \A limit \in S : Abs(a.weight) <= limit
    BY <1>3, <2>1, <2>2, <2>3, AdvisedKeeps
  <2> QED
    BY <2>3, <2>4
<1> HIDE DEF a, cfg
<1>9. stages'[7][2] = IF a.rejected THEN "rejected" ELSE "completed"
  BY <1>2, Decided
<1> QED
  BY <1>1, <1>7, <1>8, <1>9

LEMMA AdviseInv ==
  ASSUME IInv, NEW known \in BOOLEAN, NEW direction \in {-1, 1}, NEW held \in Held,
         NEW risk \in Risks, Advise(known, direction, held, risk)
  PROVE  IInv'
<1>1. /\ pc = "extracting" /\ pc' = "logging" /\ runs' = runs /\ result' = result /\ at' = at
      /\ waiting' = waiting /\ flying' = flying /\ rounds' = rounds /\ provenance' = provenance
      /\ faulty' = faulty /\ sides' = sides /\ log' = log /\ base' = base
  BY DEF Advise, debate, logs
<1>2. NamedLimits' = NamedLimits /\ NamedLimits \subseteq Limits
  BY <1>1, NamedLimitsAre DEF IInv, NamedLimits, ToldBy
<1>3. None \notin [weight : Int, rejected : BOOLEAN]
  BY DeliberationAssumption
<1>4. /\ advisory' = None \/ advisory' \subseteq Limits
      /\ portfolio' = None \/ portfolio' \in [weight : Int, rejected : BOOLEAN]
      /\ LimitsBind'
      /\ stages'[7][2] # "completed" <=> Rejected'
  <2>1. ASSUME NEW v, NEW set, Skip(v, set), set \in {None, NamedLimits}
        PROVE  /\ advisory' = None \/ advisory' \subseteq Limits
               /\ portfolio' = None /\ LimitsBind' /\ Rejected'
               /\ stages'[7][2] # "completed"
    <3>1. /\ advisory' = set /\ portfolio' = None
          /\ stages' = Outcomes("completed", v, "skipped")
      BY <2>1 DEF Skip
    <3>2. stages'[7][2] = "skipped"
      BY <3>1, Decided
    <3> QED
      BY <1>2, <2>1, <3>1, <3>2 DEF LimitsBind, Rejected
  <2>2. CASE NamedLimits # {} /\ Weigh(known, direction, held, risk)
    <3>1. /\ advisory' = NamedLimits /\ portfolio' \in [weight : Int, rejected : BOOLEAN]
          /\ stages'[7][2] = IF portfolio'.rejected THEN "rejected" ELSE "completed"
          /\ ~portfolio'.rejected => /\ Abs(portfolio'.weight) <= Config.gross
                                     /\ \A limit \in NamedLimits : Abs(portfolio'.weight) <= limit
      BY <2>2, WeighInv
    <3>2. portfolio' # None
      BY <1>3, <3>1
    <3>3. LimitsBind'
      BY <1>2, <2>2, <3>1 DEF LimitsBind, Abs
    <3> QED
      BY <1>2, <3>1, <3>2, <3>3 DEF Rejected
  <2>3. \/ Skip("skipped", None) \/ Skip("completed", NamedLimits)
        \/ NamedLimits # {} /\ Weigh(known, direction, held, risk)
    BY DEF Advise
  <2> QED
    BY <2>1, <2>2, <2>3
<1>5. TypeOK'
  BY <1>1, <1>4 DEF IInv, TypeOK, Calls, Late
<1>6. Awaited'
  BY <1>1 DEF IInv, Awaited, Undebated
<1>7. Spoken' /\ AnswersItsQuestion'
  BY <1>1 DEF IInv, Spoken, AnswersItsQuestion
<1>8. Whole'
  BY <1>1 DEF IInv, Whole, Alive
<1>9. Advice'
  BY <1>1, <1>4 DEF Advice
<1>10. Logs'
  <2>1. log = base /\ result' # "reported"
    BY <1>1 DEF IInv, Logs, Awaited
  <2>2. PICK S : log \in Seq(S) /\ base \in Seq(S)
    BY DEF IInv, Logs
  <2>3. Logged(0)'
    BY <1>1, <2>1, <2>2, LenProperties DEF Logged
  <2>4. 0 \in 0..(Count - 1)
    BY Numbers DEF Count
  <2> QED
    BY <1>1, <2>1, <2>2, <2>3, <2>4 DEF Logs
<1> QED
  BY <1>5, <1>6, <1>7, <1>8, <1>9, <1>10 DEF IInv

\* The next entry is appended, each after the one before.
LEMMA AppendInv == ASSUME IInv, AppendEntry PROVE IInv'
<1>1. /\ pc = "logging" /\ result = "none" /\ at = Closing + 1 /\ runs >= 1 /\ Alive
      /\ runs' = runs /\ at' = at /\ waiting' = waiting /\ flying' = flying /\ rounds' = rounds
      /\ provenance' = provenance /\ faulty' = faulty /\ sides' = sides /\ stages' = stages
      /\ advisory' = advisory /\ portfolio' = portfolio /\ base' = base
      /\ log' = Append(log, Entries[Len(log) - Len(base) + 1])
      /\ IF Len(log') = Len(base) + Len(Entries)
         THEN pc' = "idle" /\ result' = "reported" ELSE pc' = pc /\ result' = result
  BY DEF AppendEntry, debate, advice, IInv, Awaited, Alive
<1>2. PICK T : /\ Len(Entries) = Count /\ Entries \in Seq(T)
  BY <1>1, EntriesAre DEF IInv
<1>3. PICK S : log \in Seq(S) /\ base \in Seq(S)
  BY DEF IInv, Logs
<1>4. PICK n \in 0..(Count - 1) : Logged(n)
  BY <1>1 DEF IInv, Logs
<1>5. Count \in Nat /\ n \in Nat /\ n + 1 \in 1..Count
  BY Numbers DEF Count
<1>6. PICK b : b = Len(base) /\ b \in Nat
  BY <1>3, LenProperties
<1>7. /\ Len(log) = b + n /\ \A i \in 1..b : log[i] = base[i]
      /\ \A i \in 1..n : log[b + i] = Entries[i]
  BY <1>4, <1>6 DEF Logged
<1>8. PICK e : e = Entries[n + 1] /\ log' = Append(log, e) /\ e \in T
  <2>1. Len(log) - Len(base) + 1 = n + 1
    BY <1>5, <1>6, <1>7
  <2>2. Entries[n + 1] \in T
    BY <1>2, <1>5, ElementOfSeq
  <2> QED
    BY <1>1, <2>1, <2>2
<1>9. PICK U : log \in Seq(U) /\ base \in Seq(U) /\ e \in U
  <2> DEFINE V == S \cup T
  <2>1. S \subseteq V /\ e \in V
    BY <1>8
  <2> HIDE DEF V
  <2>2. log \in Seq(V) /\ base \in Seq(V)
    BY <1>3, <2>1, SeqMonotonic
  <2> QED
    BY <2>1, <2>2
<1>10. /\ log' \in Seq(U) /\ Len(log') = b + n + 1
       /\ \A i \in 1..(b + n) : log'[i] = log[i]
       /\ log'[b + n + 1] = e
  <2>1. /\ Append(log, e) \in Seq(U) /\ Len(Append(log, e)) = Len(log) + 1
        /\ \A i \in 1..Len(log) : Append(log, e)[i] = log[i]
        /\ Append(log, e)[Len(log) + 1] = e
    BY <1>9, AppendProperties
  <2> QED
    BY <1>7, <1>8, <2>1
<1>11. Entries' = Entries
  BY <1>1 DEF Entries, Told, ToldBy, Closings, Rejected, Verdict
<1>12. Logged(n + 1)'
  <2>1. \A i \in 1..b : log'[i] = base[i]
    <3>1. \A i \in 1..b : i \in 1..(b + n)
      BY <1>5, <1>6
    <3> QED
      BY <1>7, <1>10, <3>1
  <2>2. \A i \in 1..(n + 1) : log'[b + i] = Entries[i]
    <3> SUFFICES ASSUME NEW i \in 1..(n + 1) PROVE log'[b + i] = Entries[i]
      OBVIOUS
    <3>1. CASE i = n + 1
      <4>1. b + i = b + n + 1
        BY <1>5, <1>6, <3>1
      <4> QED
        BY <1>8, <1>10, <3>1, <4>1
    <3>2. CASE i # n + 1
      <4>1. i \in 1..n /\ b + i \in 1..(b + n)
        BY <1>5, <1>6, <3>2
      <4> QED
        BY <1>7, <1>10, <4>1
    <3> QED
      BY <3>1, <3>2
  <2>3. Len(log') = b + (n + 1)
    BY <1>5, <1>6, <1>10
  <2> QED
    BY <1>1, <1>6, <1>11, <2>1, <2>2, <2>3 DEF Logged
<1>13. /\ n + 1 = Count => pc' = "idle" /\ result' = "reported"
       /\ n + 1 # Count => pc' = "logging" /\ result' = "none"
  <2>1. Len(log') = Len(base) + Len(Entries) <=> n + 1 = Count
    BY <1>2, <1>5, <1>6, <1>10
  <2> QED
    BY <1>1, <2>1
<1>14. Logs'
  <2>1. pc' = "logging" => n + 1 \in 0..(Count - 1)
    BY <1>5, <1>13
  <2>2. result' = "reported" => n + 1 = Count
    BY <1>13
  <2>3. pc' \notin {"asking", "extracting"}
    BY <1>13
  <2> QED
    BY <1>1, <1>9, <1>10, <1>12, <2>1, <2>2, <2>3 DEF Logs
<1>15. TypeOK'
  BY <1>1, <1>13 DEF IInv, TypeOK, Calls, Late
<1>16. Awaited'
  BY <1>1, <1>13 DEF IInv, Awaited
<1>17. Spoken' /\ AnswersItsQuestion'
  BY <1>1 DEF IInv, Spoken, AnswersItsQuestion
<1>18. Whole'
  BY <1>1, <1>13 DEF IInv, Whole, Alive
<1>19. Advice'
  <2>1. Rejected' = Rejected /\ LimitsBind' = LimitsBind /\ Done
    BY <1>1 DEF Rejected, LimitsBind, NamedLimits, ToldBy, Done
  <2> QED
    BY <1>1, <1>13, <2>1 DEF IInv, Advice
<1> QED
  BY <1>14, <1>15, <1>16, <1>17, <1>18, <1>19 DEF IInv

LEMMA AppendFailsInv == ASSUME IInv, AppendFails PROVE IInv'
<1>1. /\ pc = "logging" /\ pc' = "idle" /\ result' = "failed" /\ waiting = None
      /\ runs' = runs /\ at' = at /\ waiting' = waiting /\ flying' = flying /\ rounds' = rounds
      /\ provenance' = provenance /\ faulty' = faulty /\ sides' = sides /\ stages' = stages
      /\ advisory' = advisory /\ portfolio' = portfolio /\ base' = base /\ log' = log
  BY DEF AppendFails, debate, advice, logs, IInv, Awaited
<1>2. TypeOK'
  BY <1>1 DEF IInv, TypeOK, Calls, Late
<1>3. Awaited' /\ Spoken' /\ AnswersItsQuestion' /\ Whole'
  BY <1>1 DEF IInv, Awaited, Spoken, AnswersItsQuestion, Whole, Alive
<1>4. Advice' /\ Logs'
  BY <1>1 DEF IInv, Advice, LimitsBind, NamedLimits, ToldBy, Done, Logs
<1> QED
  BY <1>2, <1>3, <1>4 DEF IInv

LEMMA StartInv ==
  ASSUME IInv, NEW initial \in {<<>>} \cup (IF result = "reported" THEN {log} ELSE {}), Start(initial)
  PROVE  IInv'
<1>1. /\ runs < MaxRuns /\ runs' = runs + 1 /\ pc' = "asking" /\ result' = "none" /\ at' = 1
      /\ waiting' = None /\ flying' = flying /\ rounds' = <<>> /\ provenance' = <<>>
      /\ faulty' = FALSE /\ sides' = [bull |-> FALSE, bear |-> FALSE]
      /\ advisory' = None /\ portfolio' = None /\ log' = initial /\ base' = initial
      /\ waiting = None
  BY DEF Start, IInv, Awaited
<1>2. DOMAIN rounds' = {} /\ Len(rounds') = 0 /\ Len(provenance') = 0
  BY <1>1
<1>3. TypeOK'
  <2>1. Late' = flying'
    BY <1>1, NoneIsNoCall DEF IInv, TypeOK, Late
  <2>2. flying' \subseteq Calls /\ Cardinality(Late') <= MaxLate
    BY <1>1, <2>1, NoneAwaited DEF IInv, TypeOK
  <2>3. runs' \in 0..MaxRuns
    BY <1>1, DeliberationAssumption DEF IInv, TypeOK
  <2>4. at' \in 1..(Closing + 1)
    BY <1>1, Numbers
  <2>5. rounds' \in Seq(Sentences) /\ provenance' \in Seq(DOMAIN Serves)
    BY <1>1, EmptySeq
  <2> QED
    BY <1>1, <2>2, <2>3, <2>4, <2>5 DEF TypeOK, Calls, Sentences
<1>4. Awaited'
  <2>1. 1 <= Closing /\ runs' >= 1
    BY <1>1, Numbers, DeliberationAssumption DEF IInv, TypeOK
  <2> QED
    BY <1>1, <2>1 DEF IInv, Awaited
<1>5. Spoken' /\ AnswersItsQuestion'
  BY <1>2 DEF Spoken, AnswersItsQuestion
<1>6. Whole'
  <2>1. ~(at' > Summing) /\ ~(at' > Closing) /\ at' - 1 = 0
    BY <1>1, Numbers
  <2> QED
    BY <1>2, <2>1 DEF Whole
<1>7. Advice'
  BY <1>1 DEF Advice, LimitsBind, Done
<1>8. Logs'
  <2>1. PICK S : log \in Seq(S)
    BY DEF IInv, Logs
  <2>2. initial \in Seq(S)
    BY <2>1, EmptySeq
  <2> QED
    BY <1>1, <2>2 DEF Logs
<1> QED
  BY <1>3, <1>4, <1>5, <1>6, <1>7, <1>8 DEF IInv

LEMMA RefusedInv == ASSUME IInv, StartRefused PROVE IInv'
<1>1. /\ pc = "idle" /\ pc' = pc /\ result' = "failed" /\ waiting = None
      /\ runs' = runs /\ at' = at /\ waiting' = waiting /\ flying' = flying /\ rounds' = rounds
      /\ provenance' = provenance /\ faulty' = faulty /\ sides' = sides /\ stages' = stages
      /\ advisory' = advisory /\ portfolio' = portfolio /\ base' = base /\ log' = log
  BY DEF StartRefused, debate, advice, logs, IInv, Awaited
<1>2. TypeOK'
  BY <1>1 DEF IInv, TypeOK, Calls, Late
<1>3. Awaited' /\ Spoken' /\ AnswersItsQuestion' /\ Whole'
  BY <1>1 DEF IInv, Awaited, Spoken, AnswersItsQuestion, Whole, Alive
<1>4. Advice' /\ Logs'
  BY <1>1 DEF IInv, Advice, LimitsBind, NamedLimits, ToldBy, Done, Logs
<1> QED
  BY <1>2, <1>3, <1>4 DEF IInv

LEMMA StutterInv == ASSUME IInv, UNCHANGED vars PROVE IInv'
<1>1. /\ runs' = runs /\ pc' = pc /\ result' = result /\ at' = at /\ waiting' = waiting
      /\ flying' = flying /\ rounds' = rounds /\ provenance' = provenance /\ faulty' = faulty
      /\ sides' = sides /\ stages' = stages /\ advisory' = advisory /\ portfolio' = portfolio
      /\ log' = log /\ base' = base
  BY DEF vars, debate, advice, logs
<1>2. TypeOK'
  BY <1>1 DEF IInv, TypeOK, Calls, Late
<1>3. Awaited' /\ Spoken' /\ AnswersItsQuestion' /\ Whole'
  BY <1>1 DEF IInv, Awaited, Undebated, Spoken, AnswersItsQuestion, Whole, Alive
<1>4. Advice'
  BY <1>1 DEF IInv, Advice, LimitsBind, NamedLimits, ToldBy, Done, Rejected
<1>5. Logs'
  <2>1. Entries' = Entries
    BY <1>1 DEF Entries, Told, ToldBy, Closings, Rejected, Verdict
  <2> QED
    BY <1>1, <2>1 DEF IInv, Logs, Logged
<1> QED
  BY <1>2, <1>3, <1>4, <1>5 DEF IInv

LEMMA InitInv == Init => IInv
<1> SUFFICES ASSUME Init PROVE IInv
  OBVIOUS
<1>1. /\ runs = 0 /\ pc = "idle" /\ result = "none" /\ at = 1 /\ waiting = None /\ flying = {}
      /\ rounds = <<>> /\ provenance = <<>> /\ faulty = FALSE
      /\ sides = [bull |-> FALSE, bear |-> FALSE]
      /\ stages = <<>> /\ advisory = None /\ portfolio = None /\ log = <<>> /\ base = <<>>
  BY DEF Init
<1>2. DOMAIN rounds = {} /\ Len(rounds) = 0 /\ Len(provenance) = 0
  BY <1>1
<1>3. TypeOK
  <2>1. Late = {} /\ Cardinality(Late) = 0
    BY <1>1, FS_EmptySet DEF Late
  <2>2. runs \in 0..MaxRuns /\ Cardinality(Late) <= MaxLate
    BY <1>1, <2>1, DeliberationAssumption
  <2>3. at \in 1..(Closing + 1)
    BY <1>1, Numbers
  <2>4. rounds \in Seq(Sentences) /\ provenance \in Seq(DOMAIN Serves)
    BY <1>1, EmptySeq
  <2> QED
    BY <1>1, <2>2, <2>3, <2>4 DEF TypeOK, Sentences
<1>4. Awaited
  BY <1>1, FS_EmptySet DEF Awaited
<1>5. Spoken /\ AnswersItsQuestion
  BY <1>2 DEF Spoken, AnswersItsQuestion
<1>6. Whole
  BY <1>1 DEF Whole, Alive
<1>7. Advice
  BY <1>1 DEF Advice, LimitsBind, Done
<1>8. Logs
  BY <1>1, EmptySeq DEF Logs
<1> QED
  BY <1>3, <1>4, <1>5, <1>6, <1>7, <1>8 DEF IInv

LEMMA NextInv == IInv /\ [Next]_vars => IInv'
<1> SUFFICES ASSUME IInv, [Next]_vars PROVE IInv'
  OBVIOUS
<1>1. CASE \/ Adjourn \/ Ask \/ NotAsked \/ Broken \/ NotExtracted
           \/ \E c \in flying : \E text \in Texts(RoleOf(at)) : Answer(c, text)
           \/ \E c \in flying : Unrecorded(c) \/ LateAnswer(c)
  BY <1>1, DebateNext
<1>2. CASE \E initial \in {<<>>} \union (IF result = "reported" THEN {log} ELSE {}) : Start(initial)
  BY <1>2, StartInv
<1>3. CASE \E known \in BOOLEAN, direction \in {-1, 1}, held \in Held, risk \in Risks :
              Advise(known, direction, held, risk)
  BY <1>3, AdviseInv
<1>4. CASE StartRefused
  BY <1>4, RefusedInv
<1>5. CASE AppendEntry
  BY <1>5, AppendInv
<1>6. CASE AppendFails
  BY <1>6, AppendFailsInv
<1>7. CASE UNCHANGED vars
  BY <1>7, StutterInv
<1> QED
  BY <1>1, <1>2, <1>3, <1>4, <1>5, <1>6, <1>7 DEF Next

LEMMA Invariance == Spec => []IInv
BY InitInv, NextInv, PTL DEF Spec

----------------------------------------------------------------------------
(* What holds of every run.                                                *)

\* Of every state of the runner, however many providers, questions and late
\* answers there are: the types of its state.
THEOREM TypesCorrect == Spec => []TypeOK
<1>1. IInv => TypeOK
  BY DEF IInv
<1> QED
  BY <1>1, Invariance, PTL

\* A sentence stands under the question its call asked, in the run that asked it
\* and under the provider that gave it: callAgent drops what comes after its time.
THEOREM AnswersTheQuestion == Spec => []AnswersItsQuestion
<1>1. IInv => AnswersItsQuestion
  BY DEF IInv
<1> QED
  BY <1>1, Invariance, PTL

\* No report is made of a debate in which an analyst, a side or an advisor that
\* must speak was missing, although only a reason is kept when one of them fails.
THEOREM ReportIsWhole == Spec => []ReportRestsOnDebate
<1>1. IInv => ReportRestsOnDebate
  <2> SUFFICES ASSUME IInv, Done
               PROVE  /\ \A q \in 1..Closing :
                          RoleOf(q) = "risk" \/ \E i \in DOMAIN rounds : rounds[i].call.q = q
                      /\ sides.bull /\ sides.bear
    BY DEF ReportRestsOnDebate, Done
  <2>1. at = Closing + 1 /\ Alive
    BY DEF IInv, Awaited, Done, Alive
  <2>2. at > Summing /\ at > Closing
    BY <2>1, Numbers
  <2>3. /\ Len(rounds) >= Summing /\ \A i \in 1..Summing : rounds[i].call.q = i
        /\ sides.bull /\ sides.bear
        /\ \E i \in DOMAIN rounds : rounds[i].call.q = Closing
    BY <2>1, <2>2 DEF IInv, Whole
  <2>4. DOMAIN rounds = 1..Len(rounds) /\ Len(rounds) \in Nat
    BY SentenceAt DEF IInv
  <2>5. ASSUME NEW q \in 1..Closing, RoleOf(q) # "risk"
        PROVE  \E i \in DOMAIN rounds : rounds[i].call.q = q
    <3>1. q = Closing \/ q \in 1..Summing
      BY <2>5, Numbers, RoleAt
    <3>2. \A i \in 1..Summing : i \in DOMAIN rounds
      BY <2>3, <2>4, Numbers
    <3> QED
      BY <2>3, <3>1, <3>2
  <2> QED
    BY <2>3, <2>5
<1> QED
  BY <1>1, Invariance, PTL

\* What the portfolio advisor lets pass keeps to the lowest of the limits the
\* risk advisors named and to the configured one, for every configuration.
THEOREM AdviceBinds == Spec => []LimitsBind
<1>1. IInv => LimitsBind
  BY DEF IInv, Advice
<1> QED
  BY <1>1, Invariance, PTL

\* The log of a run that ends well: what was there before, each sentence in its
\* order, the stages, and the verdict the report records.
THEOREM LogIsTrue == Spec => []LogTellsTheRun
<1>1. IInv => LogTellsTheRun
  <2> SUFFICES ASSUME IInv, result = "reported" PROVE LogTellsTheRun
    BY DEF LogTellsTheRun
  <2>1. Logged(Count) /\ at = Closing + 1 /\ Alive /\ Done
    BY DEF IInv, Logs, Awaited, Alive, Done
  <2>2. /\ Len(Entries) = Count
        /\ \A q \in 1..(Summing - 1) :
             Entries[q] = <<IF q <= Analysts THEN "analyst-output" ELSE "debate-output", q>>
        /\ \A i \in 1..5 : Entries[Summing - 1 + i] = Closings[i]
    BY <2>1, EntriesAre DEF IInv
  <2>3. PICK S : log \in Seq(S) /\ base \in Seq(S)
    BY DEF IInv, Logs
  <2>4. PICK b : b = Len(base) /\ b \in Nat
    BY <2>3, LenProperties
  <2>5. PICK c : c = Count /\ c = Summing - 1 + 5 /\ c \in Nat /\ Summing - 1 \in Nat
    BY Numbers DEF Count
  <2>6. /\ Len(log) = b + c /\ \A i \in 1..b : log[i] = base[i]
        /\ \A i \in 1..c : log[b + i] = Entries[i]
    BY <2>1, <2>4, <2>5 DEF Logged
  <2>7. \A i \in 1..(b + c) : log[i] \in S
    BY <2>3, <2>6, ElementOfSeq
  <2>8. SubSeq(log, 1, b) = base
    <3>1. \A i \in 1..b : log[i] \in S
      BY <2>4, <2>5, <2>7
    <3>2. /\ SubSeq(log, 1, b) \in Seq(S)
          /\ Len(SubSeq(log, 1, b)) = IF 1 <= b THEN b - 1 + 1 ELSE 0
          /\ \A i \in 1..(b - 1 + 1) : SubSeq(log, 1, b)[i] = log[1 + i - 1]
      BY <2>4, <3>1, SubSeqProperties
    <3>3. Len(SubSeq(log, 1, b)) = b /\ \A i \in 1..b : SubSeq(log, 1, b)[i] = log[i]
      BY <2>4, <3>2
    <3> QED
      BY <2>3, <2>4, <2>6, <3>2, <3>3, SeqEqual
  <2>9. PICK told : told = SubSeq(log, b + 1, b + c)
    OBVIOUS
  <2>10. Len(told) = c /\ \A i \in 1..c : told[i] = Entries[i]
    <3>1. PICK m \in Int, n \in Int : m = b + 1 /\ n = b + c
      BY <2>4, <2>5
    <3>2. \A i \in m..n : log[i] \in S
      BY <2>4, <2>7, <3>1
    <3>3. /\ Len(SubSeq(log, m, n)) = IF m <= n THEN n - m + 1 ELSE 0
          /\ \A i \in 1..(n - m + 1) : SubSeq(log, m, n)[i] = log[m + i - 1]
      BY <3>2, SubSeqProperties
    <3>4. told = SubSeq(log, m, n)
      BY <2>9, <3>1
    <3>5. n - m + 1 = c /\ c > 0 /\ m <= n
      BY <2>4, <2>5, <3>1
    <3>6. \A i \in 1..c : m + i - 1 = b + i
      BY <2>4, <2>5, <3>1
    <3>7. Len(told) = c /\ \A i \in 1..c : told[i] = log[b + i]
      BY <3>3, <3>4, <3>5, <3>6
    <3> QED
      BY <2>6, <3>7
  <2>11. \A q \in 1..(Summing - 1) :
            told[q] = <<IF q <= Analysts THEN "analyst-output" ELSE "debate-output", q>>
    <3>1. \A q \in 1..(Summing - 1) : q \in 1..c
      BY <2>5
    <3> QED
      BY <2>2, <2>10, <3>1
  <2>12. \A i \in 1..5 : told[Summing - 1 + i] = Closings[i]
    <3>1. \A i \in 1..5 : Summing - 1 + i \in 1..c
      BY <2>5
    <3> QED
      BY <2>2, <2>10, <3>1
  <2>13. told[Len(told) - 1] = <<"cashclaw-validation", stages[7][2] # "completed">>
    <3>1. Len(told) - 1 = Summing - 1 + 4
      BY <2>5, <2>10
    <3>2. told[Summing - 1 + 4] = Closings[4]
      BY <2>12
    <3>3. Closings[4] = <<"cashclaw-validation", Rejected>>
      BY DEF Closings
    <3>4. (stages[7][2] # "completed") = Rejected
      BY <2>1 DEF IInv, Advice, Rejected, TypeOK
    <3> QED
      BY <3>1, <3>2, <3>3, <3>4
  <2>14. SubSeq(log, Len(base) + 1, Len(log)) = told /\ Len(told) = (Summing - 1) + 5
    BY <2>4, <2>5, <2>6, <2>9, <2>10
  <2> QED
    BY <2>4, <2>8, <2>11, <2>12, <2>13, <2>14 DEF LogTellsTheRun
<1> QED
  BY <1>1, Invariance, PTL
=============================================================================
