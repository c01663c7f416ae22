--------------------------- MODULE MCAgentStatus ---------------------------
(***************************************************************************)
(* Small instances of AgentStatus for TLC.                                 *)
(***************************************************************************)
EXTENDS AgentStatus, TLC

Symmetry == Permutations(Agents) \cup Permutations(Components)
=============================================================================
