---------------------------- MODULE WorkflowBatch ----------------------------
(***************************************************************************)
(* chaos/main.py: the two batches of the command line.  A workflow batch   *)
(* parses and executes the workflow files of a directory one after the     *)
(* other with a single WorkflowExecutor, whose stop event is therefore     *)
(* common to all of them.  A case batch loads and executes case files.     *)
(* What the execution of one workflow or case does is in WorkflowExecutor  *)
(* and CaseExecutor; here it ends in one of the statuses they give.        *)
(***************************************************************************)
EXTENDS WorkflowPlan

CONSTANTS Document, \* documents a file may hold
          Files     \* most files a directory has: a bound

ASSUME BatchAssumption ==
    /\ Document \subseteq FlatDocument \cup HybridDocument
    /\ Files \in Nat

NoDocument == [mode |-> "none"]

VARIABLES command, \* workflow or case, with --dir
          found,   \* files in the directory
          at,      \* where the loop stands
          doc,     \* the document of the current file
          stop,    \* executor._stop_event
          results, \* the statuses in batch_results
          timed,   \* the local variable start_time has a value
          exit     \* the exit code of the process, or -1

batchVars == <<command, found, at, doc, stop, results, timed, exit>>

given == <<command, found>>

BatchInit ==
    /\ command \in {"workflow", "case"} /\ found \in 0..Files
    /\ at = "next" /\ doc = NoDocument
    /\ stop = FALSE /\ results = <<>> /\ timed = FALSE /\ exit = 0 - 1

More == Len(results) < found

-----------------------------------------------------------------------------
\* parse raised: the file cannot be read or its document is not accepted.  The
\* handler of the exception subtracts start_time, which has no value yet unless
\* an earlier file was parsed; then the UnboundLocalError ends the program.
ParseFails ==
    /\ command = "workflow" /\ at = "next" /\ More
    /\ \E d \in Document \cup {NoDocument} : d # NoDocument => ~Accepted(d)
    /\ IF timed THEN results' = Append(results, "failed") /\ UNCHANGED <<at, exit>>
                ELSE at' = "done" /\ exit' = 1 /\ UNCHANGED results
    /\ UNCHANGED <<given, doc, stop, timed>>

Parses ==
    /\ command = "workflow" /\ at = "next" /\ More
    /\ \E d \in Document : Accepted(d) /\ doc' = d
    /\ at' = "parsed" /\ timed' = TRUE
    /\ UNCHANGED <<given, stop, results, exit>>

Ends(status) ==
    /\ results' = Append(results, status)
    /\ at' = "next" /\ doc' = NoDocument

\* The stop event is set by the end of the start delay: SKIPPED.
Skips ==
    /\ at = "parsed" /\ stop
    /\ Ends("skipped")
    /\ UNCHANGED <<given, stop, timed, exit>>

\* Mutant: a stop of the previous workflow is forgotten.
RunsAnew ==
    /\ at = "parsed"
    /\ at' = "running" /\ stop' = FALSE
    /\ UNCHANGED <<given, doc, results, timed, exit>>

Runs ==
    /\ at = "parsed" /\ ~stop
    /\ at' = "running"
    /\ UNCHANGED <<given, doc, stop, results, timed, exit>>

\* The workflow ended, stopped or not, or an exception left execute.
RunEnds ==
    /\ at = "running"
    /\ \E status \in {"success", "failed"} : Ends(status)
    /\ UNCHANGED <<given, stop, timed, exit>>

\* Mutant: the exit code counts the failed workflows only.
ReportsFailed ==
    /\ at = "next" /\ ~More
    /\ at' = "done"
    /\ exit' = IF \E i \in DOMAIN results : results[i] = "failed" THEN 1 ELSE 0
    /\ UNCHANGED <<given, doc, stop, results, timed>>

\* generate_batch_report and the exit code.
Reports ==
    /\ at = "next" /\ ~More
    /\ at' = "done"
    /\ exit' = IF \E i \in DOMAIN results : results[i] # "success" THEN 1 ELSE 0
    /\ UNCHANGED <<given, doc, stop, results, timed>>

\* execute_single of the next case file: a file that does not load is a failure too.
RunCase ==
    /\ command = "case" /\ at = "next" /\ More
    /\ \E status \in {"success", "failed"} : results' = Append(results, status)
    /\ UNCHANGED <<given, at, doc, stop, timed, exit>>

\* SIGINT or SIGTERM, at any time: the executor has handlers.
Stop ==
    /\ command = "workflow" /\ ~stop /\ at # "done"
    /\ stop' = TRUE
    /\ UNCHANGED <<given, at, doc, results, timed, exit>>

\* A case batch has none: it ends there.
Interrupt ==
    /\ command = "case" /\ at # "done"
    /\ at' = "done" /\ exit' = 1
    /\ UNCHANGED <<given, doc, stop, results, timed>>

BatchTerminated == at = "done" /\ UNCHANGED batchVars

BatchNext ==
    \/ ParseFails \/ Parses \/ Skips \/ Runs \/ RunEnds \/ Reports
    \/ RunCase \/ Stop \/ Interrupt \/ BatchTerminated

BatchSpec == BatchInit /\ [][BatchNext]_batchVars

-----------------------------------------------------------------------------
(* Properties *)

\* Every document that gets past the parser has a plan the executor can run: its
\* layers are an order of the listed tasks' ids as WorkflowExecutor assumes it, and
\* end to end they follow the document (_do_validate, _do_get_execution_order).
PlanIsComplete ==
    doc # NoDocument =>
        LET ids == [i \in DOMAIN ListedTasks(doc) |-> ListedTasks(doc)[i].id]
        IN /\ Range(ids) \subseteq TaskId
           /\ IsOrderOf(ExecutionOrder(doc), Range(ids))
           /\ FlattenSeq(ExecutionOrder(doc)) = ids

\* The process exits with 0 only if every file found has a result and each result is
\* a success: neither a skipped, a failed nor an unreadable file, nor a batch that
\* ended early, goes unnoticed (main.py:127, 462).  Of no file that is found it says
\* success too.
ExitZeroMeansAll ==
    exit = 0 => Len(results) = found /\ \A i \in DOMAIN results : results[i] = "success"

\* One signal stops the batch: the stop event stays set, so that after a workflow
\* that was skipped no other is executed (executor.py, stop).
StopStopsTheBatch ==
    \A i, j \in DOMAIN results :
        i < j /\ results[i] = "skipped" => results[j] # "success"

=============================================================================
