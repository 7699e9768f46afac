------------------------------ MODULE MCBotFleet ----------------------------
(* One bot, a control request and the scheduler's rounds on it.            *)
EXTENDS BotFleet
=============================================================================
