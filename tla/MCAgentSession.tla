--------------------------- MODULE MCAgentSession ---------------------------
(* Two texts, one of which fills two thirds of the budget; the digest of a *)
(* manifest line is the short one.                                         *)
EXTENDS AgentSession

MCSize == [t \in Texts |-> IF t = "long" THEN 2 ELSE 1]

\* An output that fills the budget and a short one of a pinning tool.
MCOutputs == {[text |-> "long", pin |-> FALSE], [text |-> "short", pin |-> TRUE]}
=============================================================================
