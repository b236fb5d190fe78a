----------------------------- MODULE WorkflowPlan -----------------------------
(***************************************************************************)
(* chaos/workflow/parser.py and definition.py: which workflow documents    *)
(* are accepted, and the execution order of those that are.                *)
(*                                                                         *)
(* A document is what yaml.safe_load returns, reduced to the sections the  *)
(* parser looks at.  A task is its id and whether the rest of it passes    *)
(* Task.validate; a missing id is EmptyId.                                 *)
(***************************************************************************)
EXTENDS ExecutionOrders, SequencesExt

CONSTANTS TaskId, \* ids that tasks of a document may have
          GroupId,
          EmptyId    \* "", the id of a task or group without one

ASSUME PlanIdsAssumption == EmptyId \notin TaskId \cup GroupId

Mode == {"serial", "parallel", "hybrid"}

TaskData == [id : TaskId \cup {EmptyId}, sound : BOOLEAN]

GroupData == [id : GroupId \cup {EmptyId}, mode : Mode, tasks : Seq(TaskData)]

\* A section that is missing is an empty list.
FlatDocument == [mode : {"serial", "parallel"}, tasks : Seq(TaskData)]

HybridDocument == [mode : {"hybrid"}, groups : Seq(GroupData), final : Seq(TaskData)]

\* The tasks the parser takes from a document.  What a section of another mode
\* holds is passed over.
ListedTasks(d) ==
    IF d.mode = "hybrid" THEN FlattenSeq([i \in DOMAIN d.groups |-> d.groups[i].tasks]) \o d.final
                         ELSE d.tasks

DistinctIds(s) == \A i, j \in DOMAIN s : s[i].id = s[j].id => i = j

\* Task.validate: an id, a name, and a case that validates.
TaskValid(t) == t.id # EmptyId /\ t.sound

GroupValid(g) ==
    /\ g.id # EmptyId
    /\ g.tasks # <<>>
    /\ DistinctIds(g.tasks)
    /\ \A i \in DOMAIN g.tasks : TaskValid(g.tasks[i])

FlatValid(d) ==
    /\ d.tasks # <<>>
    /\ DistinctIds(d.tasks)
    /\ \A i \in DOMAIN d.tasks : TaskValid(d.tasks[i])

\* Mutant: ids are compared within each group only.
HybridValidByGroup(d) ==
    /\ d.groups # <<>>
    /\ DistinctIds(d.groups)
    /\ \A i \in DOMAIN d.groups : GroupValid(d.groups[i])
    /\ DistinctIds(d.final)
    /\ \A i \in DOMAIN d.final : TaskValid(d.final[i])

HybridValid(d) ==
    /\ d.groups # <<>>
    /\ DistinctIds(d.groups)
    /\ \A i \in DOMAIN d.groups : GroupValid(d.groups[i])
    /\ DistinctIds(ListedTasks(d))
    /\ \A i \in DOMAIN d.final : TaskValid(d.final[i])

\* parse_from_dict raises WorkflowParseError for every other document.
Accepted(d) == IF d.mode = "hybrid" THEN HybridValid(d) ELSE FlatValid(d)

Singly(s) == [i \in DOMAIN s |-> <<s[i].id>>]

Together(s) == <<[i \in DOMAIN s |-> s[i].id]>>

\* A group that says "hybrid" is run as a parallel one.
GroupOrder(g) == IF g.mode = "serial" THEN Singly(g.tasks) ELSE Together(g.tasks)

\* get_execution_order: a sequence of layers.
ExecutionOrder(d) ==
    CASE d.mode = "serial"   -> Singly(d.tasks)
      [] d.mode = "parallel" -> Together(d.tasks)
      [] d.mode = "hybrid"   ->
            FlattenSeq([i \in DOMAIN d.groups |-> GroupOrder(d.groups[i])]) \o Singly(d.final)
=============================================================================
