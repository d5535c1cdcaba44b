-------------------------------- MODULE MCAgents --------------------------------
(* Instances of Agents for TLC *)
EXTENDS Agents, TLC

\* Requests are interchangeable
AgentSymmetry == Permutations(Requests)
=============================================================================
