------------------------------ MODULE LayeredPlan ------------------------------
(***************************************************************************)
(* What the workflow executor promises of an execution plan, with no       *)
(* thread, queue, retry or timeout in sight: the layers of the plan are    *)
(* barriers, each task gets at most one verdict, and the verdict on the    *)
(* whole follows from the verdicts on the tasks.                           *)
(***************************************************************************)
EXTENDS Naturals

CONSTANTS Task,    \* the tasks of the plan
          LayerOf  \* the layer of each task

VARIABLES started,  \* tasks handed out for execution
          verdict,  \* the recorded result of each task
          stopped,  \* the user asked to stop
          late,     \* the task that was started in spite of it
          overall   \* the result of the whole workflow

vars == <<started, verdict, stopped, late, overall>>

\* A task is "lost" when it ends without a result; nothing counts it.
Verdicts == {"success", "failed", "timeout", "lost"}

Init ==
    /\ started = {}
    /\ verdict = [t \in Task |-> "none"]
    /\ stopped = FALSE /\ late = {}
    /\ overall = "none"

\* A task may start once every task of the earlier layers has its verdict.  A stop
\* lets one more task start, which was already on its way, and no other.
Start(t) ==
    /\ overall = "none" /\ late = {}
    /\ t \notin started
    /\ \A u \in Task : LayerOf[u] < LayerOf[t] => verdict[u] # "none"
    /\ started' = started \cup {t}
    /\ late' = IF stopped THEN {t} ELSE {}
    /\ UNCHANGED <<verdict, stopped, overall>>

Judge(t, v) ==
    /\ overall = "none"
    /\ t \in started /\ verdict[t] = "none"
    /\ verdict' = [verdict EXCEPT ![t] = v]
    /\ UNCHANGED <<started, stopped, late, overall>>

RequestStop ==
    /\ ~stopped
    /\ stopped' = TRUE
    /\ UNCHANGED <<started, verdict, late, overall>>

\* The workflow fails exactly when a verdict is bad; it ends early only when
\* it was asked to.
Finish ==
    /\ overall = "none"
    /\ stopped \/ \A t \in Task : verdict[t] # "none"
    /\ overall' = IF \E t \in Task : verdict[t] \in {"failed", "timeout"}
                  THEN "failed" ELSE "success"
    /\ UNCHANGED <<started, verdict, stopped, late>>

\* An invalid workflow, or one stopped during its start delay, runs nothing.
Refuse ==
    /\ overall = "none" /\ started = {}
    /\ \/ overall' = "failed"
       \/ stopped /\ overall' = "skipped"
    /\ UNCHANGED <<started, verdict, stopped, late>>

Next ==
    \/ \E t \in Task : Start(t)
    \/ \E t \in Task, v \in Verdicts : Judge(t, v)
    \/ RequestStop \/ Finish \/ Refuse

Spec == Init /\ [][Next]_vars
=============================================================================
