------------------------------ MODULE MCWorkflowWalk ------------------------------
(* The instance of WorkflowWalk for TLC: every template of the repository *)
EXTENDS WorkflowWalk

AllTemplates == DOMAIN Templates
=============================================================================
