------------------------- MODULE MCWorkflowExecutor -------------------------
(* Instances of WorkflowExecutor for TLC. *)
EXTENDS WorkflowExecutor

CONSTANTS t1, t2, t3

\* A hybrid plan: a parallel group of two, then a final task.
HybridLayers == <<<<t1, t2>>, <<t3>>>>

RetryFirst == [t \in Task |-> IF t = t1 THEN 1 ELSE 0]
=============================================================================
