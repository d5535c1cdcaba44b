---------------------------- MODULE MCMcpConnections ----------------------------
(* Instances of McpConnections for TLC *)
EXTENDS McpConnections, TLC

\* Requests are interchangeable: used by the runs that check invariants only
RequestSymmetry == Permutations(Requests)
=============================================================================
