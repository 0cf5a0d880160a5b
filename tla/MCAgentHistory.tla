--------------------------- MODULE MCAgentHistory ---------------------------
(* Instances of AgentHistory for TLC. *)
EXTENDS AgentHistory, TLC
=============================================================================
