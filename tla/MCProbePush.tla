---------------------------- MODULE MCProbePush -----------------------------
(* ProbePush for TLC: its constants are in the configuration.               *)
EXTENDS ProbePush
=============================================================================
