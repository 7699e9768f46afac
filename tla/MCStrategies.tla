---------------------------- MODULE MCStrategies ----------------------------
(* An instance of Strategies for TLC: four levels, five prices.             *)
EXTENDS Strategies
MCPrices == 5 .. 9
MCMultipliers == {1, 2}
=============================================================================
