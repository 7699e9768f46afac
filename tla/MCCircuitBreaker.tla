-------------------------- MODULE MCCircuitBreaker --------------------------
(* Instances of CircuitBreaker for TLC: three of the five failure kinds,   *)
(* with the thresholds of FAILURE_KIND_THRESHOLDS.                         *)
EXTENDS CircuitBreaker, TLC

CONSTANTS c1, c2, c3, network, timeout, unknown

MCKinds == {network, timeout, unknown}
MCThreshold == network :> 2 @@ timeout :> 3 @@ unknown :> 3
MCThreeCalls == {c1, c2, c3}
=============================================================================
