------------------------- MODULE MCWorkflowConsumer -------------------------
(* A small instance of WorkflowConsumer for TLC.                           *)
EXTENDS WorkflowConsumer, TLC

CONSTANTS s1

OneSignature == [b \in Messages |-> s1]
=============================================================================
