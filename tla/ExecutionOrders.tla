--------------------------- MODULE ExecutionOrders ---------------------------
(***************************************************************************)
(* chaos/workflow/definition.py: what get_execution_order gives to the     *)
(* executor.  WorkflowPlan computes it from a document, WorkflowExecutor   *)
(* runs it.                                                                *)
(***************************************************************************)
EXTENDS Naturals, Sequences

\* The tasks in layers: none of the layers is empty, and every task has one place.
IsOrderOf(layers, tasks) ==
    /\ layers \in Seq(Seq(tasks))
    /\ \A i \in DOMAIN layers : Len(layers[i]) > 0
    /\ \A i, j \in DOMAIN layers : \A p \in DOMAIN layers[i], q \in DOMAIN layers[j] :
          layers[i][p] = layers[j][q] => i = j /\ p = q
    /\ \A t \in tasks : \E i \in DOMAIN layers : \E p \in DOMAIN layers[i] : layers[i][p] = t
=============================================================================
