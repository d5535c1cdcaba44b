------------------------- MODULE MCCollaborationEngine -------------------------
(* Instances of CollaborationEngine for TLC *)
EXTENDS CollaborationEngine, TLC

\* Requests are interchangeable: used by the runs that check invariants only
RequestSymmetry == Permutations(Requests)
=============================================================================
