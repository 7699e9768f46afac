----------------------------- MODULE MCBilling ------------------------------
(* Instances of Billing for TLC.                                           *)
EXTENDS Billing

CONSTANTS i1, i2, c1, c2, w1, o1, p1, premium

MCIsolates == {i1, i2}
MCCalls == {c1, c2}
MCWorkspaces == {w1}
MCTiers == {premium}

MCOrders == {o1}
MCPayments == {p1}
MCOrderOf == [p \in {p1} |-> o1]
MCWorkspaceOf == [o \in {o1} |-> w1]
MCTierOf == [o \in {o1} |-> premium]
MCNobody == {}
MCEverybody == {o1}
=============================================================================
