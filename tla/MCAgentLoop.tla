---------------------------- MODULE MCAgentLoop ----------------------------
(* AgentLoop for TLC: four steps, three timeouts in a row, three requeries *)
EXTENDS AgentLoop
=============================================================================
