---------------------------- MODULE BillingProofs ---------------------------
(* Proofs about Billing, for any isolates, orders, payments and calls.      *)
EXTENDS Billing, TLAPS

USE DEF d1, memory, provider, history

\* The values a call takes, in the type of calls.
CallState ==
    [at : Places, on : Isolates \cup {None}, of : Payments \cup {None},
     activates : BOOLEAN, known : BOOLEAN]

\* What stays true of the calls when one of them becomes another record.
LEMMA CallBecomes ==
    ASSUME TypeOK, NEW c \in Calls, NEW r \in CallState,
           r.at # "idle" => r.on \in Isolates /\ r.of \in Payments,
           call' = [call EXCEPT ![c] = r]
    PROVE  /\ call' \in [Calls -> CallState]
           /\ \A d \in Calls : d # c => call'[d] = call[d]
           /\ call'[c] = r
           /\ \A d \in Calls :
                 call'[d].at # "idle" => call'[d].on \in Isolates /\ call'[d].of \in Payments
  BY DEF TypeOK, CallState

\* A call goes to another place.
LEMMA CallGoesOn ==
    ASSUME TypeOK, NEW c \in Calls, NEW at \in Places, call[c].at # "idle",
           call' = [call EXCEPT ![c].at = at]
    PROVE  /\ call' \in [Calls -> CallState]
           /\ \A d \in Calls : d # c => call'[d] = call[d]
           /\ call'[c].at = at /\ call'[c].of = call[c].of
           /\ call'[c].activates = call[c].activates
           /\ \A d \in Calls :
                 call'[d].at # "idle" => call'[d].on \in Isolates /\ call'[d].of \in Payments
<1> DEFINE r == [at |-> at, on |-> call[c].on, of |-> call[c].of,
                 activates |-> call[c].activates, known |-> call[c].known]
<1>1. call \in [Calls -> CallState] /\ call[c] \in CallState
  BY DEF TypeOK, CallState
<1>2. call[c].on \in Isolates /\ call[c].of \in Payments
  BY DEF TypeOK
<1>3. [call[c] EXCEPT !.at = at] = r
  BY <1>1 DEF CallState
<1>4. /\ r \in CallState /\ call' = [call EXCEPT ![c] = r]
      /\ r.at = at /\ r.of = call[c].of /\ r.on = call[c].on
      /\ r.activates = call[c].activates
  BY <1>1, <1>3 DEF CallState
<1> HIDE DEF r
<1> QED  BY <1>2, <1>4, CallBecomes

\* A call goes to "check", and learns whether its order is known.
LEMMA CallLearns ==
    ASSUME TypeOK, NEW c \in Calls, NEW known \in BOOLEAN, call[c].at # "idle",
           call' = [call EXCEPT ![c] =
               [at |-> "check", on |-> @.on, of |-> @.of,
                activates |-> @.activates, known |-> known]]
    PROVE  /\ call' \in [Calls -> CallState]
           /\ \A d \in Calls : d # c => call'[d] = call[d]
           /\ call'[c].at = "check" /\ call'[c].of = call[c].of
           /\ call'[c].activates = call[c].activates
           /\ \A d \in Calls :
                 call'[d].at # "idle" => call'[d].on \in Isolates /\ call'[d].of \in Payments
<1> DEFINE r == [at |-> "check", on |-> call[c].on, of |-> call[c].of,
                 activates |-> call[c].activates, known |-> known]
<1>1. call \in [Calls -> CallState] /\ call[c] \in CallState
  BY DEF TypeOK, CallState
<1>2. call[c].on \in Isolates /\ call[c].of \in Payments
  BY DEF TypeOK
<1>3. call' = [call EXCEPT ![c] = r]
  OBVIOUS
<1>4. /\ r \in CallState
      /\ r.at = "check" /\ r.of = call[c].of /\ r.on = call[c].on
      /\ r.activates = call[c].activates
  BY <1>1 DEF CallState, Places
<1> HIDE DEF r
<1> QED  BY <1>2, <1>3, <1>4, CallBecomes

\* A call ends.
LEMMA CallEnds ==
    ASSUME TypeOK, NEW c \in Calls, call' = [call EXCEPT ![c] = IdleCall]
    PROVE  /\ call' \in [Calls -> CallState]
           /\ \A d \in Calls : d # c => call'[d] = call[d]
           /\ call'[c].at = "idle" /\ call'[c].of = None
           /\ \A d \in Calls :
                 call'[d].at # "idle" => call'[d].on \in Isolates /\ call'[d].of \in Payments
  BY DEF TypeOK, CallState, IdleCall, Places

----------------------------------------------------------------------------
(* Types.                                                                  *)

\* The part of TypeOK that speaks of the calls.
CallsTyped ==
    /\ call \in [Calls -> CallState]
    /\ \A c \in Calls :
          call[c].at # "idle" => call[c].on \in Isolates /\ call[c].of \in Payments

\* An answer ends the call and sets Booleans.
LEMMA AnswerTyped ==
    ASSUME TypeOK, NEW c \in Calls, NEW replay \in BOOLEAN, call[c].at # "idle",
           Answer(c, replay)
    PROVE  /\ CallsTyped'
           /\ answered' \in [Payments -> BOOLEAN]
           /\ replayed' \in [Payments -> BOOLEAN]
           /\ confirmed' = confirmed /\ short' = short /\ pegged' = pegged
<1>1. CallsTyped'
  BY CallEnds DEF Answer, CallsTyped
<1>2. answered[call[c].of] \in BOOLEAN /\ replayed[call[c].of] \in BOOLEAN
      /\ call[c].activates \in BOOLEAN
  BY DEF TypeOK
<1>3. (answered[call[c].of] \/ call[c].activates) \in BOOLEAN
      /\ (replayed[call[c].of] \/ replay) \in BOOLEAN
  BY <1>2
<1>4. /\ answered' \in [Payments -> BOOLEAN]
      /\ replayed' \in [Payments -> BOOLEAN]
  BY <1>3 DEF Answer, TypeOK
<1> QED  BY <1>1, <1>4 DEF Answer

\* A refusal ends the call and nothing else.
LEMMA RefuseTyped ==
    ASSUME TypeOK, NEW c \in Calls, Refuse(c)
    PROVE  CallsTyped' /\ UNCHANGED provider
  BY CallEnds DEF Refuse, CallsTyped

\* The question to the memory answers the call, or lets it go on.
LEMMA AskMemoryTyped ==
    ASSUME TypeOK, NEW c \in Calls, NEW known \in BOOLEAN, call[c].at # "idle",
           AskMemory(c, known)
    PROVE  /\ CallsTyped'
           /\ answered' \in [Payments -> BOOLEAN]
           /\ replayed' \in [Payments -> BOOLEAN]
           /\ confirmed' = confirmed /\ short' = short /\ pegged' = pegged
<1>1. CASE call[c].of \in processed[call[c].on]
  BY <1>1, AnswerTyped DEF AskMemory
<1>2. CASE call[c].of \notin processed[call[c].on]
  <2>1. CallsTyped'
    BY <1>2, CallLearns DEF AskMemory, CallsTyped
  <2> QED  BY <1>2, <2>1 DEF AskMemory, TypeOK
<1> QED  BY <1>1, <1>2

\* The mark of a payment keeps the memory's type.
LEMMA RecordTyped ==
    ASSUME TypeOK, NEW c \in Calls, call[c].at # "idle", Record(c)
    PROVE  /\ CallsTyped' /\ UNCHANGED provider
           /\ processed' \in [Isolates -> SUBSET Payments]
<1>1. call[c].on \in Isolates /\ call[c].of \in Payments
  BY DEF TypeOK
<1>2. CallsTyped'
  BY CallGoesOn DEF Record, CallsTyped, Places
<1>3. processed' \in [Isolates -> SUBSET Payments]
  BY <1>1 DEF Record, TypeOK
<1> QED  BY <1>2, <1>3 DEF Record

LEMMA TypeStep == TypeOK /\ [Next]_vars => TypeOK'
<1> SUFFICES ASSUME TypeOK, [Next]_vars
             PROVE  TypeOK'
  OBVIOUS
<1> USE BillingAssumption
<1>0. TypeOK' <=>
        /\ order' \in [Orders -> OrderStatus]
        /\ event' \in [Payments -> {"none", "open", "paid"}]
        /\ tier' \in [Workspaces -> Grade]
        /\ remembered' \in [Isolates -> SUBSET Orders]
        /\ processed' \in [Isolates -> SUBSET Payments]
        /\ seen' \in [Isolates -> [Workspaces -> Grade]]
        /\ CallsTyped'
        /\ confirmed' \in [Payments -> BOOLEAN]
        /\ short' \in [Payments -> BOOLEAN] /\ pegged' \in [Payments -> BOOLEAN]
        /\ answered' \in [Payments -> BOOLEAN] /\ replayed' \in [Payments -> BOOLEAN]
        /\ overlap' \in [Payments -> BOOLEAN] /\ broken' \in [Payments -> BOOLEAN]
        /\ upgrades' \in [Payments -> 0 .. 2]
        /\ mishaps' \in 0 .. MaxMishaps
  BY DEF TypeOK, CallsTyped, CallState
<1>t. CallsTyped
  BY DEF TypeOK, CallsTyped, CallState
<1>1. ASSUME NEW i \in Isolates, NEW o \in Orders, CheckoutBegin(i, o)
      PROVE  TypeOK'
  BY <1>0, <1>1, <1>t DEF CheckoutBegin, TypeOK, CallsTyped, OrderStatus
<1>2. ASSUME NEW o \in Orders, CheckoutEnd(o)
      PROVE  TypeOK'
  BY <1>0, <1>2, <1>t DEF CheckoutEnd, TypeOK, CallsTyped, OrderStatus
<1>3. ASSUME NEW p \in Payments, NEW little \in BOOLEAN, NEW usd \in BOOLEAN,
             Confirm(p, little, usd)
      PROVE  TypeOK'
  BY <1>0, <1>3, <1>t DEF Confirm, TypeOK, CallsTyped
<1>4. ASSUME NEW c \in Calls, NEW i \in Isolates, NEW p \in Payments,
             NEW a \in BOOLEAN, Deliver(c, i, p, a)
      PROVE  TypeOK'
  <2>1. CallsTyped'
    <3> DEFINE r == [at |-> "order", on |-> i, of |-> p, activates |-> a, known |-> FALSE]
    <3>1. r \in CallState /\ r.on \in Isolates /\ r.of \in Payments
      BY DEF CallState, Places
    <3>2. call' = [call EXCEPT ![c] = r]
      BY <1>4 DEF Deliver
    <3> HIDE DEF r
    <3> QED  BY <3>1, <3>2, CallBecomes DEF CallsTyped
  <2>2. overlap' \in [Payments -> BOOLEAN]
    <3>1. overlap[p] \in BOOLEAN
      BY DEF TypeOK
    <3> DEFINE b == overlap[p] \/ \E d \in Calls : call[d].of = p
    <3>2. b \in BOOLEAN /\ overlap' = [overlap EXCEPT ![p] = b]
      BY <1>4, <3>1 DEF Deliver
    <3> HIDE DEF b
    <3> QED  BY <3>2 DEF TypeOK
  <2> QED  BY <1>0, <1>4, <2>1, <2>2 DEF Deliver, TypeOK
<1>5. ASSUME NEW c \in Calls, OrderRead(c)
      PROVE  TypeOK'
  <2>1. call[c].at # "idle" /\ call[c].on \in Isolates /\ call[c].of \in Payments
    BY <1>5 DEF OrderRead, TypeOK
  <2>2. remembered' \in [Isolates -> SUBSET Orders]
    BY <1>5, <2>1 DEF OrderRead, TypeOK
  <2>3. (OrderOf[call[c].of] \in remembered'[call[c].on]) \in BOOLEAN
    OBVIOUS
  <2>4. AskMemory(c, OrderOf[call[c].of] \in remembered'[call[c].on])
    BY <1>5 DEF OrderRead
  <2>5. /\ CallsTyped'
        /\ answered' \in [Payments -> BOOLEAN]
        /\ replayed' \in [Payments -> BOOLEAN]
        /\ confirmed' = confirmed /\ short' = short /\ pegged' = pegged
    BY <2>1, <2>3, <2>4, AskMemoryTyped
  <2> QED  BY <1>0, <1>5, <2>2, <2>5 DEF OrderRead, TypeOK
<1>6. ASSUME NEW c \in Calls, OrderReadFails(c)
      PROVE  TypeOK'
  <2>1. call[c].at # "idle"
    BY <1>6 DEF OrderReadFails
  <2>2. (OrderOf[call[c].of] \in remembered[call[c].on]) \in BOOLEAN
    OBVIOUS
  <2>3. AskMemory(c, OrderOf[call[c].of] \in remembered[call[c].on])
    BY <1>6 DEF OrderReadFails
  <2>4. /\ CallsTyped'
        /\ answered' \in [Payments -> BOOLEAN]
        /\ replayed' \in [Payments -> BOOLEAN]
        /\ confirmed' = confirmed /\ short' = short /\ pegged' = pegged
    BY <2>1, <2>2, <2>3, AskMemoryTyped
  <2> QED  BY <1>0, <1>6, <2>4 DEF OrderReadFails, TypeOK
<1>7. ASSUME NEW c \in Calls, ProcessedRead(c)
      PROVE  TypeOK'
  <2>1. call[c].at # "idle" /\ call[c].on \in Isolates /\ call[c].of \in Payments
    BY <1>7 DEF ProcessedRead, TypeOK
  <2>2. CASE ProcessedInD1(call[c].of)
    <3>1. /\ processed' = [processed EXCEPT ![call[c].on] = @ \cup {call[c].of}]
          /\ Answer(c, TRUE)
      BY <1>7, <2>2 DEF ProcessedRead
    <3>2. processed' \in [Isolates -> SUBSET Payments]
      BY <2>1, <3>1 DEF TypeOK
    <3> QED  BY <1>0, <1>7, <2>1, <3>1, <3>2, AnswerTyped DEF ProcessedRead, TypeOK
  <2>3. CASE ~ProcessedInD1(call[c].of) /\ ~Acceptable(c)
    <3>1. Refuse(c) /\ UNCHANGED processed
      BY <1>7, <2>3 DEF ProcessedRead
    <3> QED  BY <1>0, <1>7, <3>1, RefuseTyped DEF ProcessedRead, TypeOK
  <2>4. CASE /\ ~ProcessedInD1(call[c].of) /\ Acceptable(c)
             /\ OrderOf[call[c].of] \in SignedIn
    <3>1. Record(c)
      BY <1>7, <2>4 DEF ProcessedRead
    <3> QED  BY <1>0, <1>7, <2>1, <3>1, RecordTyped DEF ProcessedRead, TypeOK
  <2>5. CASE /\ ~ProcessedInD1(call[c].of) /\ Acceptable(c)
             /\ OrderOf[call[c].of] \notin SignedIn
    <3>1. call' = [call EXCEPT ![c].at = "owner"] /\ UNCHANGED <<processed, provider>>
      BY <1>7, <2>5 DEF ProcessedRead
    <3>2. CallsTyped'
      BY <2>1, <3>1, CallGoesOn DEF CallsTyped, Places
    <3> QED  BY <1>0, <1>7, <3>1, <3>2 DEF ProcessedRead, TypeOK
  <2> QED  BY <2>2, <2>3, <2>4, <2>5
<1>8. ASSUME NEW c \in Calls, OwnerRead(c)
      PROVE  TypeOK'
  <2>1. call[c].at # "idle" /\ Record(c)
    BY <1>8 DEF OwnerRead
  <2> QED  BY <1>0, <1>8, <2>1, RecordTyped DEF OwnerRead, TypeOK
<1>9. ASSUME NEW c \in Calls, EventWritten(c)
      PROVE  TypeOK'
  <2>1. /\ call[c].at # "idle" /\ call[c].on \in Isolates /\ call[c].of \in Payments
        /\ OrderOf[call[c].of] \in Orders
        /\ WorkspaceOf[OrderOf[call[c].of]] \in Workspaces
        /\ TierOf[OrderOf[call[c].of]] \in Grade
    BY <1>9 DEF EventWritten, TypeOK, Grade
  <2>2. event' \in [Payments -> {"none", "open", "paid"}]
    BY <1>9, <2>1 DEF EventWritten, TypeOK
  <2>3. CASE call[c].activates
    <3>1. call' = [call EXCEPT ![c].at = "upgrade"] /\ UNCHANGED provider
      BY <1>9, <2>3 DEF EventWritten
    <3>2. CallsTyped'
      BY <2>1, <3>1, CallGoesOn DEF CallsTyped, Places
    <3> DEFINE i == call[c].on
               w == WorkspaceOf[OrderOf[call[c].of]]
               t == TierOf[OrderOf[call[c].of]]
    <3>3. seen' = [seen EXCEPT ![i][w] = t]
      BY <1>9, <2>3 DEF EventWritten
    <3> HIDE DEF i, w, t
    <3>4. seen' \in [Isolates -> [Workspaces -> Grade]]
      <4>1. i \in Isolates /\ w \in Workspaces /\ t \in Grade
        BY <2>1 DEF i, w, t
      <4> QED  BY <3>3, <4>1 DEF TypeOK
    <3> QED  BY <1>0, <1>9, <2>2, <3>1, <3>2, <3>4, <2>3 DEF EventWritten, TypeOK
  <2>4. CASE ~call[c].activates
    <3>1. Answer(c, FALSE) /\ UNCHANGED seen
      BY <1>9, <2>4 DEF EventWritten
    <3> QED  BY <1>0, <1>9, <2>1, <2>2, <3>1, AnswerTyped DEF EventWritten, TypeOK
  <2> QED  BY <2>3, <2>4
<1>10. ASSUME NEW c \in Calls, UpgradeWritten(c)
       PROVE  TypeOK'
  <2>1. /\ call[c].at # "idle" /\ call[c].of \in Payments
        /\ OrderOf[call[c].of] \in Orders
        /\ TierOf[OrderOf[call[c].of]] \in Grade
    BY <1>10 DEF UpgradeWritten, TypeOK, Grade
  <2>2. CallsTyped'
    BY <1>10, <2>1, CallGoesOn DEF UpgradeWritten, CallsTyped, Places
  <2>3. upgrades' \in [Payments -> 0 .. 2]
    BY <1>10, <2>1 DEF UpgradeWritten, TypeOK
  <2>4. tier' \in [Workspaces -> Grade]
    BY <1>10, <2>1 DEF UpgradeWritten, TypeOK
  <2> QED  BY <1>0, <1>10, <2>2, <2>3, <2>4 DEF UpgradeWritten, TypeOK
<1>11. ASSUME NEW c \in Calls, MemberWritten(c)
       PROVE  TypeOK'
  <2>1. CallsTyped'
    BY <1>11, CallGoesOn DEF MemberWritten, CallsTyped, Places
  <2> QED  BY <1>0, <1>11, <2>1 DEF MemberWritten, TypeOK
<1>12. ASSUME NEW c \in Calls, PaidWritten(c)
       PROVE  TypeOK'
  <2>1. call[c].at # "idle" /\ Answer(c, FALSE)
    BY <1>12 DEF PaidWritten
  <2>2. order' \in [Orders -> OrderStatus]
    BY <1>12 DEF PaidWritten, TypeOK, OrderStatus
  <2> QED  BY <1>0, <1>12, <2>1, <2>2, AnswerTyped DEF PaidWritten, TypeOK
<1>13. ASSUME NEW c \in Calls, PaidFails(c)
       PROVE  TypeOK'
  <2>1. call[c].at # "idle" /\ Answer(c, FALSE)
    BY <1>13 DEF PaidFails
  <2>2. /\ CallsTyped'
        /\ answered' \in [Payments -> BOOLEAN]
        /\ replayed' \in [Payments -> BOOLEAN]
        /\ confirmed' = confirmed /\ short' = short /\ pegged' = pegged
    BY <2>1, AnswerTyped
  <2> QED  BY <1>0, <1>13, <2>2 DEF PaidFails, TypeOK
<1>14. ASSUME NEW c \in Calls, Fails(c)
       PROVE  TypeOK'
  <2>1. Refuse(c) /\ call[c].of \in Payments
    BY <1>14 DEF Fails, TypeOK
  <2>2. broken' \in [Payments -> BOOLEAN]
    <3> DEFINE b == broken[call[c].of] \/
                       (call[c].activates /\ call[c].at \in {"event", "upgrade"})
    <3>1. b \in BOOLEAN /\ broken' = [broken EXCEPT ![call[c].of] = b]
      BY <1>14, <2>1 DEF Fails, TypeOK
    <3> HIDE DEF b
    <3> QED  BY <3>1 DEF TypeOK
  <2> QED  BY <1>0, <1>14, <2>1, <2>2, RefuseTyped DEF Fails, TypeOK
<1>15. ASSUME NEW i \in Isolates, NEW w \in Workspaces, ReadTier(i, w)
       PROVE  TypeOK'
  <2>1. SeenTier(i, w) \in Grade
    BY DEF SeenTier, TypeOK
  <2>2. seen' \in [Isolates -> [Workspaces -> Grade]]
    BY <1>15, <2>1 DEF ReadTier, TypeOK
  <2> QED  BY <1>0, <1>15, <1>t, <2>2 DEF ReadTier, TypeOK, CallsTyped
<1>16. ASSUME NEW i \in Isolates, Evict(i)
       PROVE  TypeOK'
  <2>1. AllBasic \in [Workspaces -> Grade] /\ IdleCall \in CallState
        /\ IdleCall.at = "idle"
    BY DEF AllBasic, Grade, IdleCall, CallState, Places
  <2>2. CallsTyped'
    BY <1>16, <1>t, <2>1 DEF Evict, CallsTyped
  <2>3. broken' \in [Payments -> BOOLEAN]
    <3> DEFINE b(p) == broken[p] \/ \E c \in {d \in Calls : call[d].on = i} :
                          call[c].of = p /\ call[c].at = "upgrade"
    <3>1. \A p \in Payments : b(p) \in BOOLEAN
      BY DEF TypeOK
    <3>2. broken' = [p \in Payments |-> b(p)]
      BY <1>16 DEF Evict
    <3> HIDE DEF b
    <3> QED  BY <3>1, <3>2
  <2> QED  BY <1>0, <1>16, <2>1, <2>2, <2>3 DEF Evict, TypeOK
<1>17. CASE UNCHANGED vars
  BY <1>17, <1>0, <1>t DEF vars, TypeOK, CallsTyped
<1> QED
  BY <1>1, <1>2, <1>3, <1>4, <1>5, <1>6, <1>7, <1>8, <1>9, <1>10, <1>11, <1>12,
     <1>13, <1>14, <1>15, <1>16, <1>17 DEF Next, Serve

\* Every state of the billing has its type.
THEOREM TypeCorrect == Spec => []TypeOK
<1>1. Init => TypeOK
  BY BillingAssumption
     DEF Init, TypeOK, IdleCall, AllBasic, Grade, Places, OrderStatus
<1> QED  BY <1>1, TypeStep, PTL DEF Spec

----------------------------------------------------------------------------
(* How a step changes the calls and the payments at the provider.           *)

\* A call d moves on within its delivery.
Moves(d) ==
    /\ call'[d].of = call[d].of /\ call'[d].activates = call[d].activates
    /\ \/ call[d].at = "order" /\ call'[d].at = "check"
       \/ /\ call[d].at = "check" /\ call'[d].at \in {"owner", "event"}
          /\ Acceptable(d) /\ ~ProcessedInD1(call[d].of)
       \/ call[d].at = "owner" /\ call'[d].at = "event"
       \/ /\ call[d].at = "event" /\ call'[d].at = "upgrade"
          /\ EventWritten(d) /\ call[d].activates
       \/ call[d].at = "upgrade" /\ call'[d].at = "member" /\ UpgradeWritten(d)
       \/ call[d].at = "member" /\ call'[d].at = "paid"

\* A call d begins a delivery.
Begins(d) ==
    /\ call[d].at = "idle" /\ call'[d].at = "order"
    /\ call'[d].activates => confirmed[call'[d].of]
    /\ \E i \in Isolates, p \in Payments, a \in BOOLEAN :
          Deliver(d, i, p, a) /\ call'[d].of = p

\* What a step does to one call.
Stepped(d) ==
    \/ call'[d] = call[d]
    \/ call'[d].at = "idle" /\ call'[d].of = None
    \/ Begins(d)
    \/ Moves(d)

\* What a confirmed payment was made with does not change.
MoneyStays ==
    \A p \in Payments : confirmed[p] =>
        confirmed'[p] /\ short'[p] = short[p] /\ pegged'[p] = pegged[p]

LEMMA CallSteps ==
    ASSUME TypeOK, [Next]_vars
    PROVE  MoneyStays /\ \A d \in Calls : Stepped(d)
<1> USE BillingAssumption
<1>a. ASSUME NEW c \in Calls, call[c].at # "idle", NEW replay \in BOOLEAN, Answer(c, replay)
      PROVE  MoneyStays /\ \A d \in Calls : Stepped(d)
  BY <1>a, CallEnds DEF Answer, MoneyStays, Stepped
<1>b. ASSUME NEW c \in Calls, Refuse(c)
      PROVE  MoneyStays /\ \A d \in Calls : Stepped(d)
  BY <1>b, CallEnds DEF Refuse, MoneyStays, Stepped
<1>c. ASSUME NEW c \in Calls, NEW known \in BOOLEAN, call[c].at = "order", AskMemory(c, known)
      PROVE  MoneyStays /\ \A d \in Calls : Stepped(d)
  <2>1. CASE call[c].of \in processed[call[c].on]
    BY <1>a, <1>c, <2>1 DEF AskMemory
  <2>2. CASE call[c].of \notin processed[call[c].on]
    BY <1>c, <2>2, CallLearns DEF AskMemory, MoneyStays, Stepped, Moves
  <2> QED  BY <2>1, <2>2
<1>1. ASSUME NEW i \in Isolates, NEW o \in Orders, CheckoutBegin(i, o)
      PROVE  MoneyStays /\ \A d \in Calls : Stepped(d)
  BY <1>1 DEF CheckoutBegin, MoneyStays, Stepped
<1>2. ASSUME NEW o \in Orders, CheckoutEnd(o)
      PROVE  MoneyStays /\ \A d \in Calls : Stepped(d)
  BY <1>2 DEF CheckoutEnd, MoneyStays, Stepped
<1>3. ASSUME NEW p \in Payments, NEW little \in BOOLEAN, NEW usd \in BOOLEAN,
             Confirm(p, little, usd)
      PROVE  MoneyStays /\ \A d \in Calls : Stepped(d)
  BY <1>3 DEF Confirm, MoneyStays, Stepped, TypeOK
<1>4. ASSUME NEW c \in Calls, NEW i \in Isolates, NEW p \in Payments,
             NEW a \in BOOLEAN, Deliver(c, i, p, a)
      PROVE  MoneyStays /\ \A d \in Calls : Stepped(d)
  <2>1. /\ call'[c].at = "order" /\ call'[c].of = p /\ call'[c].activates = a
        /\ \A d \in Calls : d # c => call'[d] = call[d]
    BY <1>4 DEF Deliver, TypeOK
  <2>2. Begins(c)
    BY <1>4, <2>1 DEF Begins, Deliver
  <2>3. MoneyStays
    BY <1>4 DEF Deliver, MoneyStays
  <2> QED  BY <2>1, <2>2, <2>3 DEF Stepped
<1>5. ASSUME NEW c \in Calls, OrderRead(c)
      PROVE  MoneyStays /\ \A d \in Calls : Stepped(d)
  <2>1. (OrderOf[call[c].of] \in remembered'[call[c].on]) \in BOOLEAN
    OBVIOUS
  <2>2. call[c].at = "order" /\ AskMemory(c, OrderOf[call[c].of] \in remembered'[call[c].on])
    BY <1>5 DEF OrderRead
  <2> QED  BY <1>c, <2>1, <2>2
<1>6. ASSUME NEW c \in Calls, OrderReadFails(c)
      PROVE  MoneyStays /\ \A d \in Calls : Stepped(d)
  <2>1. (OrderOf[call[c].of] \in remembered[call[c].on]) \in BOOLEAN
    OBVIOUS
  <2>2. call[c].at = "order" /\ AskMemory(c, OrderOf[call[c].of] \in remembered[call[c].on])
    BY <1>6 DEF OrderReadFails
  <2> QED  BY <1>c, <2>1, <2>2
<1>7. ASSUME NEW c \in Calls, ProcessedRead(c)
      PROVE  MoneyStays /\ \A d \in Calls : Stepped(d)
  <2>0. call[c].at = "check"
    BY <1>7 DEF ProcessedRead
  <2>1. CASE ProcessedInD1(call[c].of)
    <3>1. Answer(c, TRUE)
      BY <1>7, <2>1 DEF ProcessedRead
    <3> QED  BY <1>a, <2>0, <3>1
  <2>2. CASE ~ProcessedInD1(call[c].of) /\ ~Acceptable(c)
    <3>1. Refuse(c)
      BY <1>7, <2>2 DEF ProcessedRead
    <3> QED  BY <1>b, <3>1
  <2>3. CASE ~ProcessedInD1(call[c].of) /\ Acceptable(c)
    <3>1. \/ call' = [call EXCEPT ![c].at = "event"] /\ UNCHANGED provider
          \/ call' = [call EXCEPT ![c].at = "owner"] /\ UNCHANGED provider
      BY <1>7, <2>3 DEF ProcessedRead, Record
    <3>2. /\ \A d \in Calls : d # c => call'[d] = call[d]
          /\ call'[c].at \in {"owner", "event"} /\ call'[c].of = call[c].of
          /\ call'[c].activates = call[c].activates
      BY <2>0, <3>1, CallGoesOn DEF Places
    <3> QED  BY <2>0, <2>3, <3>1, <3>2 DEF Stepped, Moves, MoneyStays
  <2> QED  BY <2>1, <2>2, <2>3
<1>8. ASSUME NEW c \in Calls, OwnerRead(c)
      PROVE  MoneyStays /\ \A d \in Calls : Stepped(d)
  BY <1>8, CallGoesOn DEF OwnerRead, Record, Stepped, Moves, MoneyStays, Places
<1>9. ASSUME NEW c \in Calls, EventWritten(c)
      PROVE  MoneyStays /\ \A d \in Calls : Stepped(d)
  <2>0. call[c].at = "event"
    BY <1>9 DEF EventWritten
  <2>1. CASE call[c].activates
    <3>1. call' = [call EXCEPT ![c].at = "upgrade"] /\ UNCHANGED provider
      BY <1>9, <2>1 DEF EventWritten
    <3>2. /\ \A d \in Calls : d # c => call'[d] = call[d]
          /\ call'[c].at = "upgrade" /\ call'[c].of = call[c].of
          /\ call'[c].activates = call[c].activates
      BY <2>0, <3>1, CallGoesOn DEF Places
    <3> QED  BY <1>9, <2>0, <2>1, <3>1, <3>2 DEF Stepped, Moves, MoneyStays
  <2>2. CASE ~call[c].activates
    <3>1. Answer(c, FALSE)
      BY <1>9, <2>2 DEF EventWritten
    <3> QED  BY <1>a, <2>0, <3>1
  <2> QED  BY <2>1, <2>2
<1>10. ASSUME NEW c \in Calls, UpgradeWritten(c)
       PROVE  MoneyStays /\ \A d \in Calls : Stepped(d)
  <2>1. /\ call[c].at = "upgrade" /\ call' = [call EXCEPT ![c].at = "member"]
        /\ UNCHANGED provider
    BY <1>10 DEF UpgradeWritten
  <2>2. /\ \A d \in Calls : d # c => call'[d] = call[d]
        /\ call'[c].at = "member" /\ call'[c].of = call[c].of
        /\ call'[c].activates = call[c].activates
    BY <2>1, CallGoesOn DEF Places
  <2> QED  BY <1>10, <2>1, <2>2 DEF Stepped, Moves, MoneyStays
<1>11. ASSUME NEW c \in Calls, MemberWritten(c)
       PROVE  MoneyStays /\ \A d \in Calls : Stepped(d)
  BY <1>11, CallGoesOn DEF MemberWritten, Stepped, Moves, MoneyStays, Places
<1>12. ASSUME NEW c \in Calls, PaidWritten(c) \/ PaidFails(c)
       PROVE  MoneyStays /\ \A d \in Calls : Stepped(d)
  <2>1. call[c].at # "idle" /\ Answer(c, FALSE)
    BY <1>12 DEF PaidWritten, PaidFails
  <2> QED  BY <1>a, <2>1
<1>13. ASSUME NEW c \in Calls, Fails(c)
       PROVE  MoneyStays /\ \A d \in Calls : Stepped(d)
  BY <1>b, <1>13 DEF Fails
<1>14. ASSUME NEW i \in Isolates, NEW w \in Workspaces, ReadTier(i, w)
       PROVE  MoneyStays /\ \A d \in Calls : Stepped(d)
  BY <1>14 DEF ReadTier, MoneyStays, Stepped
<1>15. ASSUME NEW i \in Isolates, Evict(i)
       PROVE  MoneyStays /\ \A d \in Calls : Stepped(d)
  BY <1>15 DEF Evict, MoneyStays, Stepped, IdleCall
<1>16. CASE UNCHANGED vars
  BY <1>16 DEF vars, MoneyStays, Stepped
<1> QED
  BY <1>1, <1>2, <1>3, <1>4, <1>5, <1>6, <1>7, <1>8, <1>9, <1>10, <1>11, <1>12,
     <1>13, <1>14, <1>15, <1>16 DEF Next, Serve

\* What only one action writes.
Wrote ==
    /\ event' = event \/ \E c \in Calls : EventWritten(c)
    /\ (tier' = tier /\ upgrades' = upgrades) \/ \E c \in Calls : UpgradeWritten(c)
    /\ \/ overlap' = overlap
       \/ \E c \in Calls, i \in Isolates, p \in Payments, a \in BOOLEAN :
             Deliver(c, i, p, a)

LEMMA Writers == ASSUME [Next]_vars PROVE Wrote
<1>1. ASSUME NEW i \in Isolates, NEW o \in Orders, CheckoutBegin(i, o)
      PROVE  Wrote
  BY <1>1 DEF CheckoutBegin, Wrote
<1>2. ASSUME NEW o \in Orders, CheckoutEnd(o)
      PROVE  Wrote
  BY <1>2 DEF CheckoutEnd, Wrote
<1>3. ASSUME NEW p \in Payments, NEW little \in BOOLEAN, NEW usd \in BOOLEAN,
             Confirm(p, little, usd)
      PROVE  Wrote
  BY <1>3 DEF Confirm, Wrote
<1>4. ASSUME NEW c \in Calls, NEW i \in Isolates, NEW p \in Payments,
             NEW a \in BOOLEAN, Deliver(c, i, p, a)
      PROVE  Wrote
  <2>1. event' = event /\ tier' = tier /\ upgrades' = upgrades
    BY <1>4 DEF Deliver
  <2> QED  BY <1>4, <2>1 DEF Wrote
<1>5. ASSUME NEW c \in Calls, Serve(c)
      PROVE  Wrote
  <2>1. CASE EventWritten(c)
    <3>1. tier' = tier /\ upgrades' = upgrades /\ overlap' = overlap
      BY <2>1 DEF EventWritten
    <3> QED  BY <2>1, <3>1 DEF Wrote
  <2>2. CASE UpgradeWritten(c)
    <3>1. event' = event /\ overlap' = overlap
      BY <2>2 DEF UpgradeWritten
    <3> QED  BY <2>2, <3>1 DEF Wrote
  <2>3. CASE OrderRead(c) \/ OrderReadFails(c) \/ ProcessedRead(c) \/ OwnerRead(c)
    BY <2>3 DEF OrderRead, OrderReadFails, ProcessedRead, OwnerRead, Wrote
  <2>4. CASE MemberWritten(c) \/ PaidWritten(c) \/ PaidFails(c) \/ Fails(c)
    BY <2>4 DEF MemberWritten, PaidWritten, PaidFails, Fails, Wrote
  <2> QED  BY <1>5, <2>1, <2>2, <2>3, <2>4 DEF Serve
<1>6. ASSUME NEW i \in Isolates, NEW w \in Workspaces, ReadTier(i, w)
      PROVE  Wrote
  BY <1>6 DEF ReadTier, Wrote
<1>7. ASSUME NEW i \in Isolates, Evict(i)
      PROVE  Wrote
  BY <1>7 DEF Evict, Wrote
<1>8. CASE UNCHANGED vars
  BY <1>8 DEF vars, Wrote
<1> QED  BY <1>1, <1>2, <1>3, <1>4, <1>5, <1>6, <1>7, <1>8 DEF Next

----------------------------------------------------------------------------
(* One upgrade per payment.                                                *)

\* A delivery of p that is served alone: until its own upgrade there was none,
\* and from its mark on D1 says so, which stops the next one at "check".
Alone(p) ==
    /\ \A c, d \in Calls : call[c].of = p /\ call[d].of = p => c = d
    /\ upgrades[p] <= 1
    /\ upgrades[p] > 0 => event[p] = "paid"
    /\ \A c \in Calls : call[c].of = p =>
          /\ call[c].at \in {"owner", "event", "upgrade"} => upgrades[p] = 0
          /\ call[c].at = "upgrade" => event[p] = "paid"
OnceInv ==
    /\ \A c \in Calls : call[c].at = "idle" => call[c].of = None
    /\ \A p \in Payments : ~overlap[p] => Alone(p)

LEMMA OnceStep == ASSUME TypeOK, OnceInv, [Next]_vars PROVE OnceInv'
<1> USE BillingAssumption
<1>0. /\ \A d \in Calls : Stepped(d)
      /\ Wrote
      /\ TypeOK'
  BY CallSteps, Writers, TypeStep
<1>1. \A c \in Calls : call'[c].at = "idle" => call'[c].of = None
  BY <1>0 DEF Stepped, Begins, Moves, OnceInv
<1>2. ASSUME NEW p \in Payments, ~overlap'[p]
      PROVE  Alone(p)'
  <2>1. ~overlap[p]
    <3>1. ASSUME NEW c \in Calls, NEW i \in Isolates, NEW q \in Payments,
                 NEW a \in BOOLEAN, Deliver(c, i, q, a)
          PROVE  ~overlap[p]
      BY <1>2, <3>1 DEF Deliver, TypeOK
    <3> QED  BY <1>0, <1>2, <3>1 DEF Wrote
  <2>2. Alone(p)
    BY <2>1 DEF OnceInv
  <2>3. ASSUME NEW c \in Calls, call'[c].of = p, call[c].of # p
        PROVE  /\ call'[c].at = "order" /\ UNCHANGED <<event, upgrades>>
               /\ \A d \in Calls : call[d].of # p
               /\ \A d \in Calls : d # c => call'[d] = call[d]
    <3>1. Begins(c)
      BY <1>0, <2>3 DEF Stepped, Moves
    <3>2. PICK i \in Isolates, a \in BOOLEAN : Deliver(c, i, p, a)
      BY <2>3, <3>1 DEF Begins
    <3>3. \A d \in Calls : call[d].of # p
      BY <1>2, <3>2 DEF Deliver, TypeOK
    <3> QED  BY <3>1, <3>2, <3>3 DEF Begins, Deliver, TypeOK
  <2>4. \A c, d \in Calls : call'[c].of = p /\ call'[d].of = p => c = d
    BY <2>2, <2>3 DEF Alone
  <2>5. CASE \E c \in Calls : UpgradeWritten(c) /\ call[c].of = p
    <3>1. PICK c \in Calls : UpgradeWritten(c) /\ call[c].of = p
      BY <2>5
    <3>2. upgrades[p] = 0 /\ event[p] = "paid"
      BY <2>2, <3>1 DEF Alone, UpgradeWritten
    <3>3. upgrades'[p] = 1 /\ event'[p] = "paid"
      BY <3>1, <3>2 DEF UpgradeWritten, TypeOK
    <3>4. call'[c].at = "member" /\ call'[c].of = p
      BY <3>1 DEF UpgradeWritten, TypeOK
    <3> QED  BY <2>4, <3>3, <3>4 DEF Alone
  <2>6. CASE ~ \E c \in Calls : UpgradeWritten(c) /\ call[c].of = p
    <3>1. upgrades'[p] = upgrades[p]
      BY <1>0, <2>6 DEF Wrote, UpgradeWritten, TypeOK
    <3>2. \/ event'[p] = event[p]
          \/ \E c \in Calls : EventWritten(c) /\ call[c].of = p
      BY <1>0 DEF Wrote, EventWritten, TypeOK
    <3>3. upgrades[p] > 0 => event'[p] = event[p]
      <4>1. ASSUME NEW c \in Calls, EventWritten(c), call[c].of = p
            PROVE  upgrades[p] = 0
        BY <2>2, <4>1 DEF Alone, EventWritten
      <4> QED  BY <3>2, <4>1
    <3>4. ASSUME NEW c \in Calls, call'[c].of = p,
                 call'[c].at \in {"owner", "event", "upgrade"}
          PROVE  upgrades[p] = 0
      <4>1. call[c].of = p
        BY <2>3, <3>4
      <4>2. CASE call'[c] = call[c]
        BY <2>2, <3>4, <4>1, <4>2 DEF Alone
      <4>3. CASE Moves(c)
        BY <2>2, <3>4, <4>1, <4>3 DEF Alone, Moves, ProcessedInD1, TypeOK
      <4> QED  BY <1>0, <3>4, <4>1, <4>2, <4>3 DEF Stepped, Begins
    <3>5. ASSUME NEW c \in Calls, call'[c].of = p, call'[c].at = "upgrade"
          PROVE  event'[p] = "paid"
      <4>1. call[c].of = p
        BY <2>3, <3>5
      <4>2. CASE call'[c] = call[c]
        <5>1. ASSUME NEW d \in Calls, EventWritten(d), call[d].of = p
              PROVE  FALSE
          BY <2>2, <3>5, <4>1, <4>2, <5>1 DEF Alone, EventWritten
        <5> QED  BY <2>2, <3>2, <3>5, <4>1, <4>2, <5>1 DEF Alone
      <4>3. CASE Moves(c)
        <5>1. EventWritten(c) /\ call[c].activates
          BY <3>5, <4>3 DEF Moves
        <5>2. event' = [event EXCEPT ![p] = "paid"]
          BY <4>1, <5>1 DEF EventWritten
        <5> QED  BY <5>2 DEF TypeOK
      <4> QED  BY <1>0, <3>5, <4>1, <4>2, <4>3 DEF Stepped, Begins
    <3>6. upgrades'[p] <= 1 /\ (upgrades'[p] > 0 => event'[p] = "paid")
      BY <2>2, <3>1, <3>3 DEF Alone
    <3> QED  BY <2>4, <3>1, <3>4, <3>5, <3>6 DEF Alone
  <2> QED  BY <2>5, <2>6
<1> QED  BY <1>1, <1>2 DEF OnceInv

\* A payment whose deliveries were never served two at a time upgrades its
\* workspace at most once: hasD1ProcessedPayment finds the row that
\* recordIpnAndUpgradeTier writes before the upgrade.
THEOREM PaymentUpgradesOnce == Spec => []UpgradesOnce
<1>1. Init => OnceInv
  BY BillingAssumption DEF Init, OnceInv, Alone, IdleCall
<1>2. OnceInv /\ TypeOK => UpgradesOnce
  BY DEF OnceInv, Alone, UpgradesOnce
<1>3. TypeOK /\ OnceInv /\ [Next]_vars => OnceInv'
  BY OnceStep
<1> QED  BY <1>1, <1>2, <1>3, TypeCorrect, PTL DEF Spec

----------------------------------------------------------------------------
(* No tier without money.                                                  *)

\* What a delivery has established of its payment at each place.
Secured(c) ==
    LET p == call[c].of
    IN  /\ call[c].at # "idle" /\ call[c].activates => confirmed[p]
        /\ call[c].at \in {"owner", "event"} /\ call[c].activates => ~Underpaid(p)
        /\ call[c].at \in {"upgrade", "member", "paid"} => confirmed[p] /\ ~Underpaid(p)
MoneyInv == TierIsPaidFor /\ \A c \in Calls : Secured(c)

\* What the memory of an isolate learns of a tier.
Learns(i, w) ==
    \/ seen'[i][w] \in {seen[i][w], Basic, tier[w]}
    \/ \E c \in Calls :
          /\ EventWritten(c) /\ call[c].activates
          /\ w = WorkspaceOf[OrderOf[call[c].of]]
          /\ seen'[i][w] = TierOf[OrderOf[call[c].of]]

LEMMA SeenWritten ==
    ASSUME TypeOK, [Next]_vars, NEW i \in Isolates, NEW w \in Workspaces
    PROVE  Learns(i, w)
<1>1. CASE seen' = seen
  BY <1>1 DEF Learns
<1>2. ASSUME NEW c \in Calls, EventWritten(c)
      PROVE  Learns(i, w)
  <2>1. CASE call[c].activates
    <3> DEFINE j == call[c].on
               v == WorkspaceOf[OrderOf[call[c].of]]
               t == TierOf[OrderOf[call[c].of]]
    <3>1. seen' = [seen EXCEPT ![j][v] = t]
      BY <1>2, <2>1 DEF EventWritten
    <3>2. seen'[i][w] = seen[i][w] \/ (w = v /\ seen'[i][w] = t)
      <4> HIDE DEF j, v, t
      <4> QED  BY <3>1 DEF TypeOK
    <3> QED  BY <1>2, <2>1, <3>2 DEF Learns
  <2>2. CASE ~call[c].activates
    BY <1>2, <2>2, <1>1 DEF EventWritten
  <2> QED  BY <2>1, <2>2
<1>3. ASSUME NEW j \in Isolates, NEW v \in Workspaces, ReadTier(j, v)
      PROVE  Learns(i, w)
  <2>1. seen' = [seen EXCEPT ![j][v] = SeenTier(j, v)]
    BY <1>3 DEF ReadTier
  <2>2. SeenTier(j, v) \in {tier[v], seen[j][v]}
    BY DEF SeenTier
  <2> DEFINE t == SeenTier(j, v)
  <2>3. seen'[i][w] = seen[i][w] \/ (i = j /\ w = v /\ seen'[i][w] = t)
    <3>1. seen' = [seen EXCEPT ![j][v] = t]
      BY <2>1
    <3> HIDE DEF t
    <3> QED  BY <3>1 DEF TypeOK
  <2> QED  BY <2>2, <2>3 DEF Learns
<1>4. ASSUME NEW j \in Isolates, Evict(j)
      PROVE  Learns(i, w)
  <2>1. seen' = [seen EXCEPT ![j] = AllBasic]
    BY <1>4 DEF Evict
  <2>2. seen'[i][w] \in {seen[i][w], Basic}
    BY <2>1 DEF TypeOK, AllBasic
  <2> QED  BY <2>2 DEF Learns
<1>5. ASSUME NEW c \in Calls, Serve(c), ~EventWritten(c)
      PROVE  Learns(i, w)
  <2>1. CASE OrderRead(c) \/ OrderReadFails(c) \/ ProcessedRead(c) \/ OwnerRead(c)
    BY <1>1, <2>1 DEF OrderRead, OrderReadFails, ProcessedRead, OwnerRead
  <2>2. CASE \/ UpgradeWritten(c) \/ MemberWritten(c) \/ PaidWritten(c)
             \/ PaidFails(c) \/ Fails(c)
    BY <1>1, <2>2 DEF UpgradeWritten, MemberWritten, PaidWritten, PaidFails, Fails
  <2> QED  BY <1>5, <2>1, <2>2 DEF Serve
<1>6. ASSUME NEW j \in Isolates, NEW o \in Orders, CheckoutBegin(j, o)
      PROVE  Learns(i, w)
  BY <1>1, <1>6 DEF CheckoutBegin
<1>7. ASSUME NEW p \in Payments, NEW little \in BOOLEAN, NEW usd \in BOOLEAN,
             Confirm(p, little, usd)
      PROVE  Learns(i, w)
  BY <1>1, <1>7 DEF Confirm
<1>8. ASSUME NEW c \in Calls, NEW j \in Isolates, NEW p \in Payments,
             NEW a \in BOOLEAN, Deliver(c, j, p, a)
      PROVE  Learns(i, w)
  BY <1>1, <1>8 DEF Deliver
<1>9. ASSUME NEW o \in Orders, CheckoutEnd(o)
      PROVE  Learns(i, w)
  BY <1>1, <1>9 DEF CheckoutEnd
<1>10. CASE UNCHANGED vars
  BY <1>1, <1>10 DEF vars
<1>11. ASSUME NEW c \in Calls, Serve(c)
       PROVE  Learns(i, w)
  BY <1>2, <1>5, <1>11
<1> QED  BY <1>3, <1>4, <1>6, <1>7, <1>8, <1>9, <1>10, <1>11 DEF Next

LEMMA MoneyStep == ASSUME TypeOK, MoneyInv, [Next]_vars PROVE MoneyInv'
<1> USE BillingAssumption
<1>0. MoneyStays /\ Wrote /\ TypeOK' /\ \A d \in Calls : Stepped(d)
  BY CallSteps, Writers, TypeStep
<1>1. ASSUME NEW c \in Calls
      PROVE  Secured(c)'
  <2>0. call'[c].at # "idle" => call'[c].of \in Payments
    BY <1>0 DEF TypeOK
  <2>1. Secured(c)
    BY DEF MoneyInv
  <2>2. CASE call'[c] = call[c]
    BY <1>0, <2>0, <2>1, <2>2 DEF Secured, Underpaid, MoneyStays, TypeOK
  <2>3. CASE call'[c].at = "idle"
    BY <2>3 DEF Secured
  <2>4. CASE Begins(c)
    BY <1>0, <2>0, <2>4 DEF Secured, Underpaid, Begins, MoneyStays, TypeOK
  <2>5. CASE Moves(c)
    <3>1. /\ call[c].at # "idle" /\ call[c].of \in Payments
          /\ confirmed[call[c].of] => /\ confirmed'[call[c].of]
                                      /\ short'[call[c].of] = short[call[c].of]
                                      /\ pegged'[call[c].of] = pegged[call[c].of]
      BY <1>0, <2>5 DEF Moves, MoneyStays, TypeOK
    <3> QED  BY <2>1, <2>5, <3>1 DEF Secured, Underpaid, Moves, Acceptable
  <2> QED  BY <1>0, <2>2, <2>3, <2>4, <2>5 DEF Stepped
<1>2. ASSUME NEW w \in Workspaces, NEW t, Bought(w, t)
      PROVE  \E p \in Payments :
                /\ confirmed'[p] /\ ~Underpaid(p)'
                /\ WorkspaceOf[OrderOf[p]] = w /\ TierOf[OrderOf[p]] = t
  BY <1>0, <1>2 DEF Bought, Underpaid, MoneyStays, TypeOK
<1>3. ASSUME NEW c \in Calls, call[c].at # "idle",
             confirmed[call[c].of], ~Underpaid(call[c].of)
      PROVE  Bought(WorkspaceOf[OrderOf[call[c].of]], TierOf[OrderOf[call[c].of]])
  BY <1>3 DEF Bought, TypeOK
<1>4. ASSUME NEW w \in Workspaces, tier'[w] # Basic
      PROVE  Bought(w, tier'[w])
  <2>1. CASE tier' = tier
    BY <1>4, <2>1 DEF MoneyInv, TierIsPaidFor
  <2>2. ASSUME NEW c \in Calls, UpgradeWritten(c)
        PROVE  Bought(w, tier'[w])
    <3>1. Bought(WorkspaceOf[OrderOf[call[c].of]], TierOf[OrderOf[call[c].of]])
      BY <1>3, <2>2 DEF MoneyInv, Secured, UpgradeWritten
    <3>2. \/ tier'[w] = tier[w]
          \/ /\ w = WorkspaceOf[OrderOf[call[c].of]]
             /\ tier'[w] = TierOf[OrderOf[call[c].of]]
      BY <2>2 DEF UpgradeWritten, TypeOK
    <3> QED  BY <1>4, <3>1, <3>2 DEF MoneyInv, TierIsPaidFor
  <2> QED  BY <1>0, <2>1, <2>2 DEF Wrote
<1>5. ASSUME NEW w \in Workspaces, NEW i \in Isolates, seen'[i][w] # Basic
      PROVE  Bought(w, seen'[i][w])
  <2>1. CASE seen'[i][w] \in {seen[i][w], Basic, tier[w]}
    BY <1>5, <2>1 DEF MoneyInv, TierIsPaidFor
  <2>2. ASSUME NEW c \in Calls, EventWritten(c), call[c].activates,
               w = WorkspaceOf[OrderOf[call[c].of]],
               seen'[i][w] = TierOf[OrderOf[call[c].of]]
        PROVE  Bought(w, seen'[i][w])
    BY <1>3, <2>2 DEF MoneyInv, Secured, EventWritten
  <2> QED  BY <2>1, <2>2, SeenWritten DEF Learns
<1>6. TierIsPaidFor'
  <2>1. \A w \in Workspaces : tier'[w] # Basic =>
           \E p \in Payments :
              /\ confirmed'[p] /\ ~Underpaid(p)'
              /\ WorkspaceOf[OrderOf[p]] = w /\ TierOf[OrderOf[p]] = tier'[w]
    BY <1>2, <1>4
  <2>2. \A w \in Workspaces, i \in Isolates : seen'[i][w] # Basic =>
           \E p \in Payments :
              /\ confirmed'[p] /\ ~Underpaid(p)'
              /\ WorkspaceOf[OrderOf[p]] = w /\ TierOf[OrderOf[p]] = seen'[i][w]
    BY <1>2, <1>5
  <2> QED  BY <2>1, <2>2 DEF TierIsPaidFor, Bought
<1> QED  BY <1>1, <1>6 DEF MoneyInv

\* Whatever is lost, repeated or overtaken, no workspace has a paid tier, in D1
\* or in the memory of any isolate, without a confirmed payment of an order for
\* that workspace and tier, and one that was for the price at least if it was in
\* a USD-pegged currency: there alone the routes compare the amount.
THEOREM TierNeedsMoney == Spec => []TierIsPaidFor
<1>1. Init => MoneyInv
  BY DEF Init, MoneyInv, TierIsPaidFor, Secured, IdleCall, AllBasic
<1>2. MoneyInv => TierIsPaidFor
  BY DEF MoneyInv
<1>3. TypeOK /\ MoneyInv /\ [Next]_vars => MoneyInv'
  BY MoneyStep
<1> QED  BY <1>1, <1>2, <1>3, TypeCorrect, PTL DEF Spec

----------------------------------------------------------------------------
(* An order is paid only after its upgrade.                                *)

PaidInv ==
    /\ PaidMeansUpgraded
    /\ \A c \in Calls : call[c].at \in {"member", "paid"} => upgrades[call[c].of] > 0

\* An order becomes PAID at the end of a delivery of one of its payments.
Settled(o) ==
    \/ order[o] = "PAID"
    \/ \E c \in Calls : call[c].at = "paid" /\ o = OrderOf[call[c].of]

LEMMA OrderWritten ==
    ASSUME [Next]_vars, TypeOK, NEW o \in Orders, order'[o] = "PAID"
    PROVE  Settled(o)
<1>1. ASSUME NEW i \in Isolates, NEW q \in Orders, CheckoutBegin(i, q)
      PROVE  Settled(o)
  BY <1>1 DEF CheckoutBegin, TypeOK, Settled
<1>2. ASSUME NEW c \in Calls, PaidWritten(c), order[o] # "PAID"
      PROVE  call[c].at = "paid" /\ o = OrderOf[call[c].of]
  BY <1>2 DEF PaidWritten, TypeOK
<1>3. ASSUME NEW c \in Calls, Serve(c), ~PaidWritten(c)
      PROVE  order[o] = "PAID"
  <2>1. CASE OrderRead(c) \/ OrderReadFails(c) \/ ProcessedRead(c) \/ OwnerRead(c)
    BY <2>1 DEF OrderRead, OrderReadFails, ProcessedRead, OwnerRead
  <2>2. CASE \/ EventWritten(c) \/ UpgradeWritten(c) \/ MemberWritten(c)
             \/ PaidFails(c) \/ Fails(c)
    BY <2>2 DEF EventWritten, UpgradeWritten, MemberWritten, PaidFails, Fails
  <2> QED  BY <1>3, <2>1, <2>2 DEF Serve
<1>4. ASSUME NEW p \in Payments, NEW little \in BOOLEAN, NEW usd \in BOOLEAN,
             Confirm(p, little, usd)
      PROVE  Settled(o)
  BY <1>4 DEF Confirm, Settled
<1>5. ASSUME NEW c \in Calls, NEW i \in Isolates, NEW p \in Payments,
             NEW a \in BOOLEAN, Deliver(c, i, p, a)
      PROVE  Settled(o)
  BY <1>5 DEF Deliver, Settled
<1>6. ASSUME NEW i \in Isolates, NEW w \in Workspaces, ReadTier(i, w)
      PROVE  Settled(o)
  BY <1>6 DEF ReadTier, Settled
<1>7. CASE UNCHANGED vars
  BY <1>7 DEF vars, Settled
<1>8. ASSUME NEW q \in Orders, CheckoutEnd(q)
      PROVE  Settled(o)
  BY <1>8 DEF CheckoutEnd, TypeOK, Settled
<1>9. ASSUME NEW i \in Isolates, Evict(i)
      PROVE  Settled(o)
  BY <1>9 DEF Evict, Settled
<1>10. ASSUME NEW c \in Calls, Serve(c)
       PROVE  Settled(o)
  BY <1>2, <1>3, <1>10 DEF Settled
<1> QED  BY <1>1, <1>4, <1>5, <1>6, <1>7, <1>8, <1>9, <1>10 DEF Next

LEMMA PaidStep == ASSUME TypeOK, PaidInv, [Next]_vars PROVE PaidInv'
<1> USE BillingAssumption
<1>0. Wrote /\ TypeOK' /\ \A d \in Calls : Stepped(d)
  BY CallSteps, Writers, TypeStep
<1>1. ASSUME NEW p \in Payments, upgrades[p] > 0
      PROVE  upgrades'[p] > 0
  <2>1. CASE upgrades' = upgrades
    BY <1>1, <2>1
  <2>2. ASSUME NEW c \in Calls, UpgradeWritten(c)
        PROVE  upgrades'[p] > 0
    <3>1. /\ upgrades \in [Payments -> 0 .. 2]
          /\ upgrades' = [upgrades EXCEPT ![call[c].of] = IF @ = 2 THEN 2 ELSE @ + 1]
      BY <2>2 DEF UpgradeWritten, TypeOK
    <3> QED  BY <1>1, <3>1
  <2> QED  BY <1>0, <2>1, <2>2 DEF Wrote
<1>2. ASSUME NEW c \in Calls, call'[c].at \in {"member", "paid"}
      PROVE  upgrades'[call'[c].of] > 0
  <2>1. call'[c].of \in Payments
    BY <1>0, <1>2 DEF TypeOK
  <2>2. CASE call'[c] = call[c]
    BY <1>1, <1>2, <2>1, <2>2 DEF PaidInv
  <2>3. CASE Moves(c)
    <3>1. CASE UpgradeWritten(c)
      <4>1. /\ upgrades \in [Payments -> 0 .. 2]
            /\ upgrades' = [upgrades EXCEPT ![call[c].of] = IF @ = 2 THEN 2 ELSE @ + 1]
        BY <3>1 DEF UpgradeWritten, TypeOK
      <4>2. call'[c].of = call[c].of
        BY <2>3 DEF Moves
      <4> QED  BY <2>1, <4>1, <4>2
    <3>2. CASE call[c].at = "member"
      BY <1>1, <2>1, <2>3, <3>2 DEF Moves, PaidInv
    <3> QED  BY <1>2, <2>3, <3>1, <3>2 DEF Moves
  <2> QED  BY <1>0, <1>2, <2>2, <2>3 DEF Stepped, Begins
<1>3. ASSUME NEW o \in Orders, order'[o] = "PAID"
      PROVE  \E p \in Payments : OrderOf[p] = o /\ upgrades'[p] > 0
  <2>1. CASE order[o] = "PAID"
    BY <1>1, <2>1 DEF PaidInv, PaidMeansUpgraded
  <2>2. ASSUME NEW c \in Calls, call[c].at = "paid", o = OrderOf[call[c].of]
        PROVE  \E p \in Payments : OrderOf[p] = o /\ upgrades'[p] > 0
    BY <1>1, <2>2 DEF PaidInv, TypeOK
  <2> QED  BY <1>3, <2>1, <2>2, OrderWritten DEF Settled
<1> QED  BY <1>2, <1>3 DEF PaidInv, PaidMeansUpgraded

\* An order that is shown as PAID has upgraded its workspace: markPaid comes
\* after the upgrade, and nothing else writes that status.
THEOREM PaidOrdersUpgraded == Spec => []PaidMeansUpgraded
<1>1. Init => PaidInv
  BY DEF Init, PaidInv, PaidMeansUpgraded, IdleCall
<1>2. PaidInv => PaidMeansUpgraded
  BY DEF PaidInv
<1>3. TypeOK /\ PaidInv /\ [Next]_vars => PaidInv'
  BY PaidStep
<1> QED  BY <1>1, <1>2, <1>3, TypeCorrect, PTL DEF Spec
=============================================================================
