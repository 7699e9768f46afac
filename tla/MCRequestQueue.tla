--------------------------- MODULE MCRequestQueue ---------------------------
(* Instances of RequestQueue for TLC.                                      *)
EXTENDS RequestQueue

CONSTANTS place, cancel, fetch, d1, d2

MCRequests == {place, cancel, fetch}
MCDrains == {d1, d2}
MCPriorityOf == [r \in MCRequests |-> IF r = fetch THEN 1 ELSE 0]
MCCostOf == [r \in MCRequests |-> IF r = place THEN 2 ELSE 1]
=============================================================================
