---------------------------- MODULE MCAgentKeys ----------------------------
(* Three agents: a leader, one that takes over, and one that looks on. *)
EXTENDS AgentKeys
=============================================================================
