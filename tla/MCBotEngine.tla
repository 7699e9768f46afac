---------------------------- MODULE MCBotEngine -----------------------------
(* Instances of BotEngine for TLC.                                         *)
EXTENDS BotEngine

CONSTANTS b1, b2, c1, c2

MCOneBot == {b1}
MCTwoBots == {b1, b2}
MCTwoCalls == {c1, c2}
MCLose == {-1}
=============================================================================
