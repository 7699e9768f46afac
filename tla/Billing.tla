------------------------------ MODULE Billing -------------------------------
(***************************************************************************)
(* How a payment becomes a paid tier: checkout orders, the IPN deliveries  *)
(* of the payment provider, and the entitlement of a workspace (ee/billing *)
(* and the routes under app/api/ee/billing).                               *)
(*                                                                         *)
(* Isolates share D1 and nothing else; each keeps the orders, the          *)
(* processed payments and the tiers it has seen, and loses them when it is *)
(* evicted.  A step is the code between two awaits of D1.  A delivery      *)
(* takes the places                                                        *)
(*   order -> check (-> owner) -> event (-> upgrade -> member -> paid)     *)
(* and is answered, with 2xx or not.  Of the nine payment statuses the     *)
(* code tells apart only finished or confirmed ("activating") and the rest.*)
(*                                                                         *)
(* The provider is external: it confirms a payment, and delivers each of   *)
(* its statuses in any order and any number of times, again until it gets  *)
(* a 2xx.  Signatures are taken as verified.                               *)
(***************************************************************************)
EXTENDS Integers, FiniteSets

CONSTANTS
    Isolates, Workspaces, Orders, Payments,
    Tiers,        \* the tiers that cost money
    Basic,        \* the free one
    None,
    OrderOf,      \* the order a payment names
    WorkspaceOf,  \* the workspace an order upgrades
    TierOf,       \* to which tier
    SignedIn,     \* the orders whose checkout had a user
    Calls,        \* the deliveries that may be in flight at once
    MaxMishaps    \* bound: the failures of D1 and the evictions

ASSUME BillingAssumption ==
    /\ OrderOf \in [Payments -> Orders]
    /\ WorkspaceOf \in [Orders -> Workspaces]
    /\ TierOf \in [Orders -> Tiers]
    /\ Basic \notin Tiers
    /\ None \notin Payments \cup Isolates
    /\ SignedIn \subseteq Orders
    /\ MaxMishaps \in Nat

VARIABLES
    order,    \* saas_checkout_orders, and where a checkout stands
    event,    \* saas_nowpayments_ipn_events: the last status recorded
    tier,     \* saas_workspace_entitlements
    remembered, processed, seen,  \* what each isolate remembers: the orders,
                                  \* the processed payments, the tiers
    call,     \* the deliveries in flight
    confirmed,           \* the payments at the provider: made,
    short, pegged,       \* for less than the price, in a currency pegged to USD
    answered, replayed,  \* with 2xx to an activating delivery, and as a replay
    upgrades, \* history: how often a payment was turned into its tier
    overlap,  \* history: two deliveries of a payment were in flight at once
    broken,   \* history: a mishap hit a payment between its mark and its upgrade
    mishaps

d1 == <<order, event, tier>>
memory == <<remembered, processed, seen>>
provider == <<confirmed, short, pegged, answered, replayed>>
history == <<upgrades, overlap, broken>>
vars == <<d1, memory, call, provider, history, mishaps>>

Grade == Tiers \cup {Basic}
OrderStatus == {"new", "invoiced", "PENDING", "PAID"}
Places == {"idle", "order", "check", "owner", "event", "upgrade", "member", "paid"}
IdleCall ==
    [at |-> "idle", on |-> None, of |-> None, activates |-> FALSE, known |-> FALSE]
AllBasic == [w \in Workspaces |-> Basic]

TypeOK ==
    /\ order \in [Orders -> OrderStatus]
    /\ event \in [Payments -> {"none", "open", "paid"}]
    /\ tier \in [Workspaces -> Grade]
    /\ remembered \in [Isolates -> SUBSET Orders]
    /\ processed \in [Isolates -> SUBSET Payments]
    /\ seen \in [Isolates -> [Workspaces -> Grade]]
    /\ call \in [Calls -> [at : Places, on : Isolates \cup {None},
                           of : Payments \cup {None},
                           activates : BOOLEAN, known : BOOLEAN]]
    /\ \A c \in Calls :
          call[c].at # "idle" => call[c].on \in Isolates /\ call[c].of \in Payments
    /\ confirmed \in [Payments -> BOOLEAN]
    /\ short \in [Payments -> BOOLEAN] /\ pegged \in [Payments -> BOOLEAN]
    /\ answered \in [Payments -> BOOLEAN] /\ replayed \in [Payments -> BOOLEAN]
    /\ overlap \in [Payments -> BOOLEAN] /\ broken \in [Payments -> BOOLEAN]
    /\ upgrades \in [Payments -> 0 .. 2]
    /\ mishaps \in 0 .. MaxMishaps

Init ==
    /\ order = [o \in Orders |-> "new"]
    /\ event = [p \in Payments |-> "none"]
    /\ tier = [w \in Workspaces |-> Basic]
    /\ remembered = [i \in Isolates |-> {}]
    /\ processed = [i \in Isolates |-> {}]
    /\ seen = [i \in Isolates |-> AllBasic]
    /\ call = [c \in Calls |-> IdleCall]
    /\ confirmed = [p \in Payments |-> FALSE]
    /\ short = [p \in Payments |-> FALSE]
    /\ pegged = [p \in Payments |-> FALSE]
    /\ answered = [p \in Payments |-> FALSE]
    /\ replayed = [p \in Payments |-> FALSE]
    /\ overlap = [p \in Payments |-> FALSE]
    /\ broken = [p \in Payments |-> FALSE]
    /\ upgrades = [p \in Payments |-> 0]
    /\ mishaps = 0

InD1(o) == order[o] \in {"PENDING", "PAID"}

----------------------------------------------------------------------------
(* Checkout, and the provider.                                             *)

\* recordOrder up to its await: the invoice exists, and this isolate knows.
CheckoutBegin(i, o) ==
    /\ order[o] = "new"
    /\ order' = [order EXCEPT ![o] = "invoiced"]
    /\ remembered' = [remembered EXCEPT ![i] = @ \cup {o}]
    /\ UNCHANGED <<event, tier, processed, seen, call, provider, history, mishaps>>

\* The row is written and the customer gets the link.  If the insert fails the
\* customer gets none, and the order stays as it is.
CheckoutEnd(o) ==
    /\ order[o] = "invoiced"
    /\ order' = [order EXCEPT ![o] = "PENDING"]
    /\ UNCHANGED <<event, tier, memory, call, provider, history, mishaps>>

\* The customer pays through the link, the price or less, in a currency of the
\* customer's choice; the provider confirms it all the same.
Confirm(p, little, usd) ==
    /\ InD1(OrderOf[p])
    /\ ~confirmed[p]
    /\ confirmed' = [confirmed EXCEPT ![p] = TRUE]
    /\ short' = [short EXCEPT ![p] = little]
    /\ pegged' = [pegged EXCEPT ![p] = usd]
    /\ UNCHANGED <<d1, memory, call, answered, replayed, history, mishaps>>

\* The provider posts a status of a payment.
Deliver(c, i, p, activates) ==
    /\ call[c].at = "idle"
    /\ order[OrderOf[p]] # "new"
    /\ activates => confirmed[p]
    /\ call' = [call EXCEPT ![c] = [at |-> "order", on |-> i, of |-> p,
                                    activates |-> activates, known |-> FALSE]]
    /\ overlap' = [overlap EXCEPT ![p] = @ \/ \E d \in Calls : call[d].of = p]
    /\ UNCHANGED <<d1, memory, provider, upgrades, broken, mishaps>>

----------------------------------------------------------------------------
(* A delivery.                                                             *)

\* An answer with 2xx: an activating delivery need not be repeated.
Answer(c, replay) ==
    /\ call' = [call EXCEPT ![c] = IdleCall]
    /\ answered' = [answered EXCEPT ![call[c].of] = @ \/ call[c].activates]
    /\ replayed' = [replayed EXCEPT ![call[c].of] = @ \/ replay]
    /\ UNCHANGED <<confirmed, short, pegged>>

\* An answer that is none: the provider will try again.
Refuse(c) ==
    /\ call' = [call EXCEPT ![c] = IdleCall]
    /\ UNCHANGED provider

\* hasProcessedPayment in memory, at once after the order was looked up.
AskMemory(c, known) ==
    IF call[c].of \in processed[call[c].on]
    THEN Answer(c, TRUE)
    ELSE /\ call' = [call EXCEPT ![c] =
               [at |-> "check", on |-> @.on, of |-> @.of,
                activates |-> @.activates, known |-> known]]
         /\ UNCHANGED provider

\* resolveTierDecision: the order from D1, which is remembered, or from memory.
OrderRead(c) ==
    LET o == OrderOf[call[c].of]
        i == call[c].on
    IN  /\ call[c].at = "order"
        /\ remembered' = IF InD1(o) THEN [remembered EXCEPT ![i] = @ \cup {o}]
                         ELSE remembered
        /\ AskMemory(c, o \in remembered'[i])
        /\ UNCHANGED <<d1, processed, seen, history, mishaps>>

\* D1 does not answer: the order from memory.
OrderReadFails(c) ==
    /\ call[c].at = "order"
    /\ mishaps < MaxMishaps
    /\ mishaps' = mishaps + 1
    /\ AskMemory(c, OrderOf[call[c].of] \in remembered[call[c].on])
    /\ UNCHANGED <<d1, memory, history>>

\* Mutant of Record: every status marks the payment as processed.
RecordAlways(c) ==
    /\ processed' = [processed EXCEPT ![call[c].on] = @ \cup {call[c].of}]
    /\ call' = [call EXCEPT ![c].at = "event"]
    /\ UNCHANGED provider

\* recordIpnAndUpgradeTier up to its first await.
Record(c) ==
    /\ processed' = IF call[c].activates
                    THEN [processed EXCEPT ![call[c].on] = @ \cup {call[c].of}]
                    ELSE processed
    /\ call' = [call EXCEPT ![c].at = "event"]
    /\ UNCHANGED provider

\* Mutant of ProcessedInD1: the status looked for is one the rows do not have.
ProcessedNever(p) == event[p] = "completed"
\* hasD1ProcessedPayment.
ProcessedInD1(p) == event[p] = "paid"

\* What the routes can tell of the amount: pay_amount < expectedAmountUsd is asked
\* only if pay_currency is usd, usdt or usdc.  An amount in any other currency is
\* compared with nothing, and is taken.
Underpaid(p) == pegged[p] /\ short[p]

\* Mutant of Acceptable: the amount is not compared.
AcceptableCheap(c) == call[c].known
\* The order is one the server issued, and the payment is not seen to be too low.
Acceptable(c) == call[c].known /\ ~(call[c].activates /\ Underpaid(call[c].of))

\* hasProcessedPayment in D1, and the checks that follow it.
ProcessedRead(c) ==
    LET p == call[c].of
    IN  /\ call[c].at = "check"
        /\ IF ProcessedInD1(p)
           THEN /\ processed' = [processed EXCEPT ![call[c].on] = @ \cup {p}]
                /\ Answer(c, TRUE)
           ELSE IF ~Acceptable(c)
           THEN Refuse(c) /\ UNCHANGED processed
           ELSE IF OrderOf[p] \in SignedIn
           THEN Record(c)
           ELSE /\ call' = [call EXCEPT ![c].at = "owner"]
                /\ UNCHANGED <<processed, provider>>
        /\ UNCHANGED <<d1, remembered, seen, history, mishaps>>

\* resolveWorkspaceOwner, whether D1 answers or not.
OwnerRead(c) ==
    /\ call[c].at = "owner"
    /\ Record(c)
    /\ UNCHANGED <<d1, remembered, seen, history, mishaps>>

\* Mutant of EventWritten: the order is marked as paid first.
EventThenPaid(c) ==
    /\ call[c].at = "event"
    /\ event' = [event EXCEPT ![call[c].of] = IF call[c].activates THEN "paid" ELSE "open"]
    /\ call' = [call EXCEPT ![c].at = IF call[c].activates THEN "paid" ELSE "idle"]
    /\ UNCHANGED <<order, tier, memory, provider, history, mishaps>>

\* The event replaces the one the payment had.  A delivery that does not
\* activate then reads the entitlement, as ReadTier does, for its answer.
EventWritten(c) ==
    LET p == call[c].of
        w == WorkspaceOf[OrderOf[p]]
    IN  /\ call[c].at = "event"
        /\ IF call[c].activates
           THEN /\ event' = [event EXCEPT ![p] = "paid"]
                /\ seen' = [seen EXCEPT ![call[c].on][w] = TierOf[OrderOf[p]]]
                /\ call' = [call EXCEPT ![c].at = "upgrade"]
                /\ UNCHANGED provider
           ELSE /\ event' = [event EXCEPT ![p] = "open"]
                /\ Answer(c, FALSE)
                /\ UNCHANGED seen
        /\ UNCHANGED <<order, tier, remembered, processed, history, mishaps>>

UpgradeWritten(c) ==
    LET p == call[c].of
    IN  /\ call[c].at = "upgrade"
        /\ tier' = [tier EXCEPT ![WorkspaceOf[OrderOf[p]]] = TierOf[OrderOf[p]]]
        /\ upgrades' = [upgrades EXCEPT ![p] = IF @ = 2 THEN 2 ELSE @ + 1]
        /\ call' = [call EXCEPT ![c].at = "member"]
        /\ UNCHANGED <<order, event, memory, provider, overlap, broken, mishaps>>

\* The owner becomes a member, if there is a real one.
MemberWritten(c) ==
    /\ call[c].at = "member"
    /\ call' = [call EXCEPT ![c].at = "paid"]
    /\ UNCHANGED <<d1, memory, provider, history, mishaps>>

\* Mutant of PaidWritten: the status of the payment becomes that of the order.
PaidWrittenAsIs(c) ==
    /\ call[c].at = "paid"
    /\ order' = [order EXCEPT ![OrderOf[call[c].of]] = "finished"]
    /\ Answer(c, FALSE)
    /\ UNCHANGED <<event, tier, memory, history, mishaps>>

\* markPaid updates the row, if there is one.
PaidWritten(c) ==
    LET o == OrderOf[call[c].of]
    IN  /\ call[c].at = "paid"
        /\ order' = IF InD1(o) THEN [order EXCEPT ![o] = "PAID"] ELSE order
        /\ Answer(c, FALSE)
        /\ UNCHANGED <<event, tier, memory, history, mishaps>>

\* markPaid swallows the failure of D1.
PaidFails(c) ==
    /\ call[c].at = "paid"
    /\ mishaps < MaxMishaps
    /\ mishaps' = mishaps + 1
    /\ Answer(c, FALSE)
    /\ UNCHANGED <<d1, memory, history>>

\* Any other failure of D1 ends the delivery with a 500.
Fails(c) ==
    /\ call[c].at \in {"check", "event", "upgrade", "member"}
    /\ mishaps < MaxMishaps
    /\ mishaps' = mishaps + 1
    /\ Refuse(c)
    /\ broken' = [broken EXCEPT ![call[c].of] =
                     @ \/ (call[c].activates /\ call[c].at \in {"event", "upgrade"})]
    /\ UNCHANGED <<d1, memory, upgrades, overlap>>

----------------------------------------------------------------------------

\* getWorkspaceEntitlement: D1's row, which is remembered, else the memory.
SeenTier(i, w) == IF tier[w] # Basic THEN tier[w] ELSE seen[i][w]
ReadTier(i, w) ==
    /\ SeenTier(i, w) # seen[i][w]
    /\ seen' = [seen EXCEPT ![i][w] = SeenTier(i, w)]
    /\ UNCHANGED <<d1, remembered, processed, call, provider, history, mishaps>>

\* An isolate is evicted: its memory and its deliveries are gone.
Evict(i) ==
    LET lost == {c \in Calls : call[c].on = i}
    IN  /\ mishaps < MaxMishaps
        /\ mishaps' = mishaps + 1
        /\ remembered' = [remembered EXCEPT ![i] = {}]
        /\ processed' = [processed EXCEPT ![i] = {}]
        /\ seen' = [seen EXCEPT ![i] = AllBasic]
        /\ call' = [c \in Calls |-> IF c \in lost THEN IdleCall ELSE call[c]]
        /\ broken' = [p \in Payments |->
              broken[p] \/ \E c \in lost : call[c].of = p /\ call[c].at = "upgrade"]
        /\ UNCHANGED <<d1, provider, upgrades, overlap>>

Serve(c) ==
    \/ OrderRead(c) \/ OrderReadFails(c) \/ ProcessedRead(c) \/ OwnerRead(c)
    \/ EventWritten(c) \/ UpgradeWritten(c) \/ MemberWritten(c)
    \/ PaidWritten(c) \/ PaidFails(c) \/ Fails(c)

Next ==
    \/ \E i \in Isolates, o \in Orders : CheckoutBegin(i, o)
    \/ \E o \in Orders : CheckoutEnd(o)
    \/ \E p \in Payments, little, usd \in BOOLEAN : Confirm(p, little, usd)
    \/ \E c \in Calls, i \in Isolates, p \in Payments, a \in BOOLEAN : Deliver(c, i, p, a)
    \/ \E c \in Calls : Serve(c)
    \/ \E i \in Isolates, w \in Workspaces : ReadTier(i, w)
    \/ \E i \in Isolates : Evict(i)

Spec == Init /\ [][Next]_vars

\* A request goes on, and the provider repeats a confirmed payment until it is
\* answered; that it always finds a free call is the model's bound, not the
\* system's, hence the strong fairness.
Retry(p) ==
    /\ ~answered[p]
    /\ \E c \in Calls, i \in Isolates : Deliver(c, i, p, TRUE)
FairSpec ==
    /\ Spec
    /\ \A c \in Calls : WF_vars(Serve(c))
    /\ \A p \in Payments : SF_vars(Retry(p))

----------------------------------------------------------------------------
(* Properties.                                                             *)

\* No tier without money: what a workspace is granted, in D1 or in the memory
\* of any isolate, was bought by a confirmed payment of its own order, for the
\* price at least if the payment was in a USD-pegged currency.  In any other
\* currency a confirmed payment buys the tier whatever its amount: that the
\* routes compare nothing there is the code's gap, not a promise of the model.
Bought(w, t) ==
    \E p \in Payments :
       /\ confirmed[p] /\ ~Underpaid(p)
       /\ WorkspaceOf[OrderOf[p]] = w /\ TierOf[OrderOf[p]] = t
TierIsPaidFor ==
    \A w \in Workspaces :
       /\ tier[w] # Basic => Bought(w, tier[w])
       /\ \A i \in Isolates : seen[i][w] # Basic => Bought(w, seen[i][w])

\* An order is shown as paid only after its workspace was upgraded.
PaidMeansUpgraded ==
    \A o \in Orders : order[o] = "PAID" =>
       \E p \in Payments : OrderOf[p] = o /\ upgrades[p] > 0

\* A payment upgrades its workspace once, over every replay, isolate, eviction
\* and failure of D1, unless two of its deliveries were served at once.
UpgradesOnce == \A p \in Payments : ~overlap[p] => upgrades[p] <= 1

\* A confirmed payment that is not seen to be too low becomes its tier, unless a
\* mishap hit it between its mark and its upgrade, or two of its deliveries
\* overlapped.
PaidIsUpgraded ==
    \A p \in Payments :
       confirmed[p] /\ ~Underpaid(p)
          ~> upgrades[p] > 0 \/ broken[p] \/ overlap[p]

----------------------------------------------------------------------------
(* What a test says, and the code does not keep.                           *)

\* A delivery is answered as a replay only when D1 has the payment as processed.
ReplayAfterD1 ==
    [][ \A p \in Payments :
          ~replayed[p] /\ replayed'[p] => event[p] = "paid" ]_vars
=============================================================================
