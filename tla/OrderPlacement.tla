--------------------------- MODULE OrderPlacement ---------------------------
(***************************************************************************)
(* What a routed order promises its caller, whatever exchanges, breakers   *)
(* and fallbacks are behind it: an order is pending until, in one step, it *)
(* is placed at one exchange or has failed without a trace, and from then  *)
(* on nothing about that changes.                                          *)
(***************************************************************************)
CONSTANTS Requests, Exchanges

VARIABLES
    outcome,  \* "pending", "placed" or "failed", of each order
    placedAt  \* the pairs of an order and an exchange that has it

vars == <<outcome, placedAt>>

Init ==
    /\ outcome = [r \in Requests |-> "pending"]
    /\ placedAt = {}

Place(r, e) ==
    /\ outcome[r] = "pending"
    /\ outcome' = [outcome EXCEPT ![r] = "placed"]
    /\ placedAt' = placedAt \cup {<<r, e>>}

Fail(r) ==
    /\ outcome[r] = "pending"
    /\ outcome' = [outcome EXCEPT ![r] = "failed"]
    /\ UNCHANGED placedAt

Next == \E r \in Requests : Fail(r) \/ \E e \in Exchanges : Place(r, e)

Spec == Init /\ [][Next]_vars
=============================================================================
