--------------------------- MODULE MCAgentSession ---------------------------
(* AgentSession for TLC: nodes and connections are interchangeable.         *)
EXTENDS AgentSession, TLC

Symmetry == Permutations(Nodes) \cup Permutations(Sessions)
=============================================================================
