--------------------------- MODULE MCWorkflowBatch ---------------------------
(* Instances of WorkflowBatch for TLC. *)
EXTENDS WorkflowBatch

CONSTANTS x, y, z, g, h

Good(id) == [id |-> id, sound |-> TRUE]

\* Lists of tasks: complete, repeating an id, with an id or a sound case missing.
Lists == {<<>>, <<Good(x)>>, <<Good(y)>>, <<Good(x), Good(y)>>, <<Good(x), Good(x)>>,
          <<Good(y), Good(z)>>, <<Good(EmptyId)>>, <<[id |-> z, sound |-> FALSE]>>}

Groups == [id : {g, h}, mode : Mode, tasks : Lists]

FlatDocuments == [mode : {"serial", "parallel"}, tasks : Lists]

HybridDocuments ==
    [mode : {"hybrid"},
     groups : {<<>>} \cup {<<p>> : p \in Groups} \cup {<<p, q>> : p, q \in Groups},
     final : {<<>>, <<Good(z)>>, <<Good(x)>>, <<Good(EmptyId)>>}]

Documents == FlatDocuments \cup HybridDocuments
=============================================================================
