------------------------- MODULE PortfolioOverlays -------------------------
(***************************************************************************)
(* The portfolio engine (src/tree/alpha/portfolio) and the check of its    *)
(* result by the portfolio advisor, for a portfolio of one alpha.  Weights *)
(* are integers, parts of the equity in steps of one unit; with one alpha  *)
(* every overlay that scales the weights ends exactly at its limit, so no  *)
(* fractions are needed.  The overlay on correlated buckets needs two      *)
(* alphas and is left out.                                                 *)
(***************************************************************************)
EXTENDS Integers

\* A configuration of the engine, and what it is told of the market.
Configs == [position : Nat, gross : Int, net : Int, beta : Nat, turnover : Nat]
Risks == [drawdown : BOOLEAN, beta : BOOLEAN]

Abs(w) == IF w < 0 THEN -w ELSE w
Sign(w) == IF w < 0 THEN -1 ELSE IF w = 0 THEN 0 ELSE 1

\* A scaling overlay: beyond the limit the weight is multiplied by
\* limit / |w|, which turns it round when an advisor names a negative limit.
Scaled(w, limit) == IF Abs(w) > limit THEN Sign(w) * limit ELSE w

\* The turnover overlay moves from the weight held, as far as it may.
Moved(w, held, most) ==
    IF Abs(w - held) > most THEN held + Sign(w - held) * most ELSE w

\* applySequentialOverlays, in its order.  A de-risked weight is rejected
\* whatever it is, so its factor is left out.
Overlaid(w, held, risk, cfg) ==
    LET capped == Scaled(w, cfg.position)
        exposed == Scaled(Scaled(capped, cfg.gross), cfg.net)
        hedged == IF risk.beta THEN Scaled(exposed, cfg.beta) ELSE exposed
    IN  Moved(hedged, held, cfg.turnover)

ViolatesButGross(w, result, held, risk, cfg) ==
    \/ Abs(w) > cfg.position
    \/ risk.drawdown
    \/ result > cfg.net
    \/ Abs(result - held) > cfg.turnover

\* collectPortfolioViolations: a clipped position and a drawdown leave their
\* mark on the adjustments; the other overlays do not, and their limits are
\* compared again with what came out.  Net exposure is compared with its sign.
Violates(w, result, held, risk, cfg) ==
    \/ Abs(w) > cfg.position
    \/ risk.drawdown
    \/ Abs(result) > cfg.gross
    \/ result > cfg.net
    \/ Abs(result - held) > cfg.turnover

\* advisePortfolio.  known: the proposal names an alpha that was composed; a
\* portfolio without one holds nothing and has no weight to move.
Advised(known, w, held, risk, cfg) ==
    LET result == IF known THEN Overlaid(w, held, risk, cfg) ELSE 0
    IN  [weight |-> result,
         rejected |-> Violates(IF known THEN w ELSE 0, result, held, risk, cfg)]

\* constrainConfigByAdvisory: the lowest of the advisors' limits, if it is
\* lower, becomes the limit of gross and of net exposure.
Lowest(limits) == CHOOSE l \in limits : \A m \in limits : l <= m
Lower(a, b) == IF a < b THEN a ELSE b
Constrained(cfg, limits) ==
    [cfg EXCEPT !.gross = Lower(@, Lowest(limits)), !.net = Lower(@, Lowest(limits))]
=============================================================================
