--------------------------- MODULE MC_AgentPanel ---------------------------
(* AgentPanel with a few questions, events and map actions.                 *)
EXTENDS AgentPanel
=============================================================================
