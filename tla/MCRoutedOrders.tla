--------------------------- MODULE MCRoutedOrders ---------------------------
(* Instances of RoutedOrders for TLC: two exchanges, one kind of failure   *)
(* ("unknown", what "Order not found" is classified as), which an adapter  *)
(* may reject with (MCKinds) or, like PaperExchange, may not (MCNoKind).   *)
EXTENDS RoutedOrders, TLC

CONSTANTS r1, r2, p1, binance, bybit, unknown

MCOneRequest == {r1}
MCTwoRequests == {r1, r2}
MCNoReader == {}
MCOneReader == {p1}
MCConfig == <<binance, bybit>>
MCKinds == {unknown}
MCNoKind == {}
MCThreshold == unknown :> 1
MCRotating == {"round-robin"}
MCBestHealth == {"best-health"}
MCAnyStrategy == {"pinned", "round-robin", "best-health"}
=============================================================================
