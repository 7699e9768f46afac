--------------------------- MODULE MCDeliberation ---------------------------
(* Instances of Deliberation for TLC.                                      *)
EXTENDS Deliberation

CONSTANTS anthropic, ollama, openai

\* Two providers for the reasoning tier, one for each of the others.
MCRegistered == <<anthropic, ollama, openai>>
MCServes == [p \in {anthropic, ollama, openai} |->
    CASE p = anthropic -> {"FAST", "REASONING"}
      [] p = ollama -> {"LOCAL"}
      [] p = openai -> {"REASONING"}]
MCLimits == {1, 2}
MCHeld == {-3}
MCConfig == [position |-> 3, gross |-> 2, net |-> 2, beta |-> 2, turnover |-> 1]
=============================================================================
