--------------------------- MODULE WorkflowExecutor ---------------------------
(***************************************************************************)
(* chaos/workflow/executor.py: WorkflowExecutor (the main thread, its      *)
(* ThreadPoolExecutor and the stop event), TaskExecutor (one call per      *)
(* task, with retries and a timeout) and the non-daemon thread that runs   *)
(* each attempt of a case, together with the WorkflowMonitor that collects *)
(* the results.                                                            *)
(*                                                                         *)
(* Sleeps, durations and timeouts are abstracted to "some time later": a   *)
(* join may time out whenever the case thread is still alive.  What a case *)
(* does is reduced to the fault it puts in place and takes away; CaseExecutor *)
(* has the detail.                                                         *)
(***************************************************************************)
EXTENDS ExecutionOrders, FiniteSets

CONSTANTS Task,        \* the tasks of the workflow
          Layers,      \* get_execution_order(): a sequence of sequences of tasks
          MaxWorkers,  \* ThreadPoolExecutor(max_workers)
          MaxRetry,    \* bound on task.retry_count
          RetryCount,  \* task.retry_count
          AutoClear    \* workflow.auto_clear

LayerTasks(i) == {Layers[i][p] : p \in DOMAIN Layers[i]}

\* What the workflow definition guarantees of its execution order.  PlanIsComplete of
\* WorkflowBatch says that every document the parser accepts yields such an order.
ASSUME PlanAssumption == IsOrderOf(Layers, Task)

ASSUME BoundsAssumption ==
    /\ MaxWorkers \in Nat \ {0}
    /\ MaxRetry \in Nat
    /\ RetryCount \in [Task -> 0 .. MaxRetry]
    /\ AutoClear \in BOOLEAN

Attempt == 1 .. MaxRetry + 1

TaskStatus == {"success", "failed", "timeout"}

RunState == {"none", "queued", "start", "launch", "join", "sleep", "returned", "raised"}

ThreadState == {"none", "created", "loaded", "injected", "true", "false"}

VARIABLES pc,        \* control point of WorkflowExecutor.execute
          layer,     \* layer_index + 1
          next,      \* position in the layer of the next task to hand out
          stop,      \* _stop_event
          run,       \* where TaskExecutor.execute stands for each task
          status,    \* the status TaskExecutor.execute returned
          retries,   \* its local retry_count
          temp,      \* tasks whose temporary case file exists
          litter,    \* history: tasks whose file could not be written or removed
          late,      \* history: tasks handed out with the stop event set
          thread,    \* the case thread of each attempt
          fault,     \* tasks whose fault is in place on the cluster
          results,   \* monitor._results: tasks in the order they were recorded
          outcome,   \* status of the WorkflowResult
          clear      \* how the workflow-level auto_clear went

mainVars == <<pc, layer, next, results, outcome, clear>>
taskVars == <<run, status, retries, temp, litter, late>>
caseVars == <<thread, fault>>
vars == <<mainVars, stop, taskVars, caseVars>>

-----------------------------------------------------------------------------
(* Derived state *)

Recorded == {results[n] : n \in DOMAIN results}

\* TaskExecutor.execute is over: it returned a result, or an exception left it.
Over(t) == run[t] \in {"returned", "raised"}

\* Recorded, or lost to an exception.
Settled == Recorded \cup {t \in Task : run[t] = "raised"}

Started == {t \in Task : run[t] # "none"}

\* The worker threads of the pool that are inside TaskExecutor.execute.
Busy == {t \in Task : run[t] \in {"start", "launch", "join", "sleep"}}

\* A case thread that has been started and has not ended.
Live(t, k) == thread[t][k] \in {"created", "loaded", "injected"}

CurrentAttempt(t) == retries[t] + 1

IsSerial(i) == Len(Layers[i]) = 1

\* Mutant: get_stats()["timeout_count"] is left out of the condition.
AnyFailureButTimeouts == \E t \in Recorded : status[t] = "failed"

\* monitor.get_stats()["failed_count"] > 0 or ["timeout_count"] > 0
AnyFailure == \E t \in Recorded : status[t] \in {"failed", "timeout"}

Init ==
    /\ pc = "start" /\ layer = 1 /\ next = 1
    /\ stop = FALSE
    /\ run = [t \in Task |-> "none"]
    /\ status = [t \in Task |-> "none"]
    /\ retries = [t \in Task |-> 0]
    /\ temp = {} /\ litter = {} /\ late = {}
    /\ thread = [t \in Task |-> [k \in Attempt |-> "none"]]
    /\ fault = {}
    /\ results = <<>>
    /\ outcome = "none"
    /\ clear = "none"

-----------------------------------------------------------------------------
(* WorkflowExecutor.execute, on the main thread *)

\* validate() failed.
Reject ==
    /\ pc = "start"
    /\ pc' = "done" /\ outcome' = "failed"
    /\ UNCHANGED <<layer, next, results, clear, stop, taskVars, caseVars>>

\* monitor.reset() and the start delay.
Begin ==
    /\ pc = "start"
    /\ pc' = "delay" /\ results' = <<>>
    /\ UNCHANGED <<layer, next, outcome, clear, stop, taskVars, caseVars>>

AfterStartDelay ==
    /\ pc = "delay"
    /\ IF stop THEN pc' = "done" /\ outcome' = "skipped"
               ELSE pc' = "layer" /\ UNCHANGED outcome
    /\ UNCHANGED <<layer, next, results, clear, stop, taskVars, caseVars>>

EnterLayer ==
    /\ pc = "layer" /\ layer <= Len(Layers) /\ ~stop
    /\ pc' = IF IsSerial(layer) THEN "serial" ELSE "submit"
    /\ next' = 1
    /\ UNCHANGED <<layer, results, outcome, clear, stop, taskVars, caseVars>>

\* The stop event is read first; a signal may set it before the task is run.
CheckSerial ==
    /\ pc = "serial" /\ ~stop
    /\ pc' = "call"
    /\ UNCHANGED <<layer, next, results, outcome, clear, stop, taskVars, caseVars>>

\* The main thread gives task t to TaskExecutor.execute, which is then at control
\* point r.
HandOut(t, r) ==
    /\ run' = [run EXCEPT ![t] = r]
    /\ late' = IF stop THEN late \cup {t} ELSE late
    /\ UNCHANGED <<layer, results, outcome, clear, stop, status, retries, temp, litter, caseVars>>

\* The serial layer runs TaskExecutor.execute on the main thread.
StartSerial ==
    /\ pc = "call"
    /\ pc' = "await" /\ UNCHANGED next
    /\ HandOut(Layers[layer][1], "start")

SkipSerial ==
    /\ pc = "serial" /\ stop
    /\ pc' = "interval"
    /\ UNCHANGED <<layer, next, results, outcome, clear, stop, taskVars, caseVars>>

RecordSerial ==
    LET t == Layers[layer][1] IN
    /\ pc = "await" /\ run[t] = "returned"
    /\ results' = Append(results, t)
    /\ pc' = "interval"
    /\ UNCHANGED <<layer, next, outcome, clear, stop, taskVars, caseVars>>

\* The exception goes through execute: no result, no report and no auto_clear.
SerialRaises ==
    /\ pc = "await" /\ run[Layers[layer][1]] = "raised"
    /\ pc' = "done"
    /\ UNCHANGED <<layer, next, results, outcome, clear, stop, taskVars, caseVars>>

\* The submit loop of the parallel layer: branch_start_delay passes, and the stop
\* event is read.
CheckSubmit ==
    /\ pc = "submit" /\ next <= Len(Layers[layer]) /\ ~stop
    /\ pc' = "offer"
    /\ UNCHANGED <<layer, next, results, outcome, clear, stop, taskVars, caseVars>>

\* Mutant: the loop goes on submitting without reading the stop event again.
SubmitOn ==
    /\ pc = "offer"
    /\ pc' = (IF next < Len(Layers[layer]) THEN "offer" ELSE "submit") /\ next' = next + 1
    /\ HandOut(Layers[layer][next], "queued")

Submit ==
    /\ pc = "offer"
    /\ pc' = "submit" /\ next' = next + 1
    /\ HandOut(Layers[layer][next], "queued")

EndSubmit ==
    /\ pc = "submit" /\ (stop \/ next > Len(Layers[layer]))
    /\ pc' = "collect"
    /\ UNCHANGED <<layer, next, results, outcome, clear, stop, taskVars, caseVars>>

\* as_completed yields a finished future; the result is recorded.  A future that
\* holds an exception is only logged.  A stop between the check and the record
\* leaves what a stop after the record does.
Collect ==
    /\ pc = "collect" /\ ~stop
    /\ \E t \in LayerTasks(layer) \ Recorded :
          run[t] = "returned" /\ results' = Append(results, t)
    /\ UNCHANGED <<pc, layer, next, outcome, clear, stop, taskVars, caseVars>>

\* Mutant: wait(FIRST_COMPLETED) instead of as_completed.
EndCollectAtFirst ==
    /\ pc = "collect"
    /\ \E t \in LayerTasks(layer) : Over(t)
    /\ pc' = "drain"
    /\ UNCHANGED <<layer, next, results, outcome, clear, stop, taskVars, caseVars>>

\* as_completed is exhausted, or it yields a future after the stop: the loop
\* ends and the results not yet recorded never are.
EndCollect ==
    /\ pc = "collect"
    /\ \/ LayerTasks(layer) \cap Started \subseteq Settled
       \/ stop /\ \E t \in LayerTasks(layer) \ Recorded : Over(t)
    /\ pc' = "drain"
    /\ UNCHANGED <<layer, next, results, outcome, clear, stop, taskVars, caseVars>>

\* Mutant: shutdown(wait=False).
DrainWithoutWaiting ==
    /\ pc = "drain"
    /\ pc' = "interval"
    /\ UNCHANGED <<layer, next, results, outcome, clear, stop, taskVars, caseVars>>

\* Leaving the "with" block waits for every worker and every queued task.
Drain ==
    /\ pc = "drain"
    /\ \A t \in LayerTasks(layer) \cap Started : Over(t)
    /\ pc' = "interval"
    /\ UNCHANGED <<layer, next, results, outcome, clear, stop, taskVars, caseVars>>

\* node_interval, then the next iteration of the layer loop.
Interval ==
    /\ pc = "interval"
    /\ layer' = layer + 1 /\ pc' = "layer"
    /\ UNCHANGED <<next, results, outcome, clear, stop, taskVars, caseVars>>

\* The loop ended or was broken out of: the result is computed and reported
\* before the clean-up.
Conclude ==
    /\ pc = "layer" /\ (layer > Len(Layers) \/ stop)
    /\ outcome' = IF AnyFailure THEN "failed" ELSE "success"
    /\ pc' = IF AutoClear THEN "clear" ELSE "done"
    /\ UNCHANGED <<layer, next, results, clear, stop, taskVars, caseVars>>

\* Mutant: a pod that could not be cleared is counted as cleared.
WorkflowAutoClearOptimistic ==
    /\ pc = "clear"
    /\ fault' \in SUBSET fault
    /\ clear' = "ok" /\ pc' = "done"
    /\ UNCHANGED <<layer, next, results, outcome, stop, taskVars, thread>>

\* _execute_workflow_auto_clear: every pod of every environment is cleared, and
\* each environment or pod may fail on its own.
WorkflowAutoClear ==
    /\ pc = "clear"
    /\ \E left \in SUBSET fault :
          /\ fault' = left
          /\ clear' = IF left = {} THEN "ok" ELSE "partial"
    /\ pc' = "done"
    /\ UNCHANGED <<layer, next, results, outcome, stop, taskVars, thread>>

\* SIGINT or SIGTERM: stop() sets the event, and nothing ever clears it.
Stop ==
    /\ ~stop /\ pc # "done"
    /\ stop' = TRUE
    /\ UNCHANGED <<mainVars, taskVars, caseVars>>

-----------------------------------------------------------------------------
(* TaskExecutor.execute, on a pool worker or on the main thread *)

Earlier(t) == {Layers[layer][p] : p \in {q \in DOMAIN Layers[layer] :
                  \A r \in DOMAIN Layers[layer] : Layers[layer][r] = t => q < r}}

\* An idle worker takes the oldest task of the pool's queue.
PickUp(t) ==
    /\ run[t] = "queued"
    /\ Cardinality(Busy) < MaxWorkers
    /\ \A u \in Earlier(t) : run[u] # "queued"
    /\ run' = [run EXCEPT ![t] = "start"]
    /\ UNCHANGED <<mainVars, stop, status, retries, temp, litter, late, caseVars>>

\* _calculate_effective_timeout calls duration.lower() outside every "try": it
\* raises for a duration that YAML reads as a number.
DurationRaises(t) ==
    /\ run[t] = "start"
    /\ run' = [run EXCEPT ![t] = "raised"]
    /\ UNCHANGED <<mainVars, stop, status, retries, temp, litter, late, caseVars>>

CreateTempCaseFile(t) ==
    /\ run[t] = "start"
    /\ run' = [run EXCEPT ![t] = "launch"]
    /\ temp' = temp \cup {t}
    /\ UNCHANGED <<mainVars, stop, status, retries, litter, late, caseVars>>

\* Mutant: the file is removed by the "except" clauses only.
ReturnKeepingFile(t, s) ==
    /\ run' = [run EXCEPT ![t] = "returned"]
    /\ status' = [status EXCEPT ![t] = s]
    /\ temp' = IF s = "success" THEN temp ELSE temp \ {t}
    /\ UNCHANGED <<litter, late>>

\* return TaskResult(...), after the "finally" clause removed the file; that
\* os.remove failed is not noticed.
Return(t, s) ==
    /\ run' = [run EXCEPT ![t] = "returned"]
    /\ status' = [status EXCEPT ![t] = s]
    /\ \/ temp' = temp \ {t} /\ UNCHANGED litter
       \/ litter' = litter \cup {t} /\ UNCHANGED temp
    /\ UNCHANGED late

\* FAILED without a retry: mkstemp raised, or writing the file did.  In that case
\* the file exists and temp_file does not name it, so nobody removes it.
TempCaseFileFails(t) ==
    /\ run[t] = "start"
    /\ run' = [run EXCEPT ![t] = "returned"]
    /\ status' = [status EXCEPT ![t] = "failed"]
    /\ \/ UNCHANGED <<temp, litter>>
       \/ temp' = temp \cup {t} /\ litter' = litter \cup {t}
    /\ UNCHANGED <<mainVars, stop, retries, late, caseVars>>

\* _execute_with_timeout: thread.start()
LaunchAttempt(t) ==
    /\ run[t] = "launch"
    /\ run' = [run EXCEPT ![t] = "join"]
    /\ thread' = [thread EXCEPT ![t][CurrentAttempt(t)] = "created"]
    /\ UNCHANGED <<mainVars, stop, status, retries, temp, litter, late, fault>>

CaseSucceeded(t) ==
    /\ run[t] = "join" /\ thread[t][CurrentAttempt(t)] = "true"
    /\ Return(t, "success")
    /\ UNCHANGED <<mainVars, stop, retries, caseVars>>

CaseFailed(t) ==
    /\ run[t] = "join" /\ thread[t][CurrentAttempt(t)] = "false"
    /\ IF retries[t] < RetryCount[t]
       THEN /\ run' = [run EXCEPT ![t] = "sleep"]
            /\ retries' = [retries EXCEPT ![t] = @ + 1]
            /\ UNCHANGED <<status, temp, litter, late>>
       ELSE Return(t, "failed") /\ UNCHANGED retries
    /\ UNCHANGED <<mainVars, stop, caseVars>>

\* Mutant: the empty result of the thread is taken for a failed case.
CaseTimesOutAsFailure(t) ==
    /\ run[t] = "join" /\ Live(t, CurrentAttempt(t))
    /\ Return(t, "failed")
    /\ UNCHANGED <<mainVars, stop, retries, caseVars>>

\* Mutant: join() without a timeout.
CaseNeverTimesOut(t) ==
    /\ run[t] = "join" /\ ~Live(t, CurrentAttempt(t))
    /\ UNCHANGED vars

\* join(timeout) came back with the thread still alive: TIMEOUT, no retry, and
\* the thread is left running.
CaseTimesOut(t) ==
    /\ run[t] = "join" /\ Live(t, CurrentAttempt(t))
    /\ Return(t, "timeout")
    /\ UNCHANGED <<mainVars, stop, retries, caseVars>>

\* time.sleep(retry_interval) does not look at the stop event.
RetrySleepOver(t) ==
    /\ run[t] = "sleep"
    /\ run' = [run EXCEPT ![t] = "launch"]
    /\ UNCHANGED <<mainVars, stop, status, retries, temp, litter, late, caseVars>>

-----------------------------------------------------------------------------
(* The case thread of attempt k of task t *)

\* CaseManager.load_case: a missing or unreadable file makes the case fail.
LoadCase(t, k) ==
    /\ thread[t][k] = "created"
    /\ thread' = [thread EXCEPT ![t][k] = IF t \in temp THEN "loaded" ELSE "false"]
    /\ UNCHANGED <<mainVars, stop, taskVars, fault>>

Inject(t, k) ==
    /\ thread[t][k] = "loaded"
    /\ thread' = [thread EXCEPT ![t][k] = "injected"]
    /\ fault' = fault \cup {t}
    /\ UNCHANGED <<mainVars, stop, taskVars>>

\* Invalid case, no target, inject() returned False, or an exception.
CaseReturnsFalse(t, k) ==
    /\ thread[t][k] \in {"loaded", "injected"}
    /\ thread' = [thread EXCEPT ![t][k] = "false"]
    /\ UNCHANGED <<mainVars, stop, taskVars, fault>>

\* recover() returned True, whether or not it took the fault away; the case
\* goes on with its next target or iteration, or ends.
Recover(t, k) ==
    /\ thread[t][k] = "injected"
    /\ \E more, cleaned \in BOOLEAN :
          /\ thread' = [thread EXCEPT ![t][k] = IF more THEN "loaded" ELSE "true"]
          /\ fault' = IF cleaned THEN fault \ {t} ELSE fault
    /\ UNCHANGED <<mainVars, stop, taskVars>>

-----------------------------------------------------------------------------
\* WorkflowExecutor.execute as far as the result.
Execute ==
    \/ Reject \/ Begin \/ AfterStartDelay \/ EnterLayer
    \/ CheckSerial \/ StartSerial \/ SkipSerial \/ RecordSerial \/ SerialRaises
    \/ CheckSubmit \/ Submit \/ EndSubmit \/ Collect \/ EndCollect \/ Drain
    \/ Interval \/ Conclude

Main == Execute \/ WorkflowAutoClear

RunTask(t) ==
    \/ PickUp(t) \/ DurationRaises(t) \/ CreateTempCaseFile(t) \/ TempCaseFileFails(t)
    \/ LaunchAttempt(t) \/ CaseSucceeded(t) \/ CaseFailed(t)
    \/ CaseTimesOut(t) \/ RetrySleepOver(t)

CaseThread(t, k) ==
    \/ LoadCase(t, k) \/ Inject(t, k) \/ CaseReturnsFalse(t, k) \/ Recover(t, k)

\* The process ends when the main thread and every case thread have.
Terminated ==
    /\ pc = "done"
    /\ \A t \in Task, k \in Attempt : ~Live(t, k)
    /\ UNCHANGED vars

Next ==
    \/ Main
    \/ Stop
    \/ \E t \in Task : RunTask(t)
    \/ \E t \in Task, k \in Attempt : CaseThread(t, k)
    \/ Terminated

Spec == Init /\ [][Next]_vars

\* The main thread and the workers are scheduled; case threads may hang.  The
\* auto_clear takes locks a hanging case thread may hold: nothing is assumed of it.
Fairness == WF_vars(Execute) /\ \A t \in Task : WF_vars(RunTask(t))

FairSpec == Spec /\ Fairness
-----------------------------------------------------------------------------
(* Properties *)

TypeOK ==
    /\ pc \in {"start", "delay", "layer", "serial", "call", "await", "submit", "offer",
               "collect", "drain", "interval", "clear", "done"}
    /\ layer \in 1 .. Len(Layers) + 1
    /\ next \in Nat \ {0}
    /\ stop \in BOOLEAN
    /\ run \in [Task -> RunState]
    /\ status \in [Task -> TaskStatus \cup {"none"}]
    /\ retries \in [Task -> 0 .. MaxRetry]
    /\ temp \subseteq Task /\ litter \subseteq Task /\ late \subseteq Task
    /\ thread \in [Task -> [Attempt -> ThreadState]]
    /\ fault \subseteq Task
    /\ results \in Seq(Task)
    /\ outcome \in {"none", "success", "failed", "skipped"}
    /\ clear \in {"none", "ok", "partial"}

LayerOf == [t \in Task |-> CHOOSE i \in DOMAIN Layers : t \in LayerTasks(i)]

\* Layers are barriers: a task starts only when every task of every earlier
\* layer is over and, unless an exception took it, its result is in the monitor,
\* whatever was retried, timed out or interrupted in between (executor.py, execute).
LayersAreBarriers ==
    \A t, u \in Task :
        LayerOf[t] < LayerOf[u] /\ u \in Started => Over(t) /\ t \in Settled

\* No task is recorded twice, although results reach the monitor from the
\* serial path, from as_completed and after a stop (monitor.py, record).
RecordedOnce ==
    \A m, n \in DOMAIN results : results[m] = results[n] => m = n

\* A case thread still running after its task has returned was given up on: the
\* task is reported TIMEOUT, never SUCCESS or FAILED, and is not tried again over it,
\* so that two attempts never inject the same fault side by side
\* (_execute_with_timeout).
AbandonedIsTimeout ==
    \A t \in Task :
        /\ run[t] = "returned" /\ (\E k \in Attempt : Live(t, k)) => status[t] = "timeout"
        /\ \A j, k \in Attempt : Live(t, j) /\ Live(t, k) => j = k

\* The temporary case file exists as long as somebody waits for the thread that
\* reads it, and is gone once the task has returned (execute's "finally"), unless
\* it could not be written in full or could not be removed.
TempFileDiscipline ==
    \A t \in Task :
        /\ run[t] = "join" => t \in temp
        /\ run[t] = "returned" /\ t \in temp => t \in litter

\* A workflow nobody stopped reports SUCCESS only if every task of the plan was
\* recorded SUCCESS: no result is lost between the pool and the report, but that of
\* a parallel task that raised before it began, which nothing counts.
SuccessIsComplete ==
    outcome = "success" /\ ~stop =>
        \A t \in Task : \/ t \in Recorded /\ status[t] = "success"
                        \/ run[t] = "raised" /\ ~IsSerial(LayerOf[t])

\* Once the main thread is past the plan no task is in flight: the result, the
\* report and the auto_clear never race with a task that was not abandoned.
QuiescentAtEnd ==
    pc \in {"clear", "done"} =>
        \A t \in Task : run[t] = "none" \/ Over(t)

\* After a workflow auto_clear that reached every pod, a fault is still in place
\* only for a task that timed out and whose abandoned thread injected it later.
ClearedUnlessAbandoned ==
    pc = "done" /\ clear = "ok" => \A t \in fault : status[t] = "timeout"

\* After a stop at most one more task is handed out, the one whose check of the
\* event came before the signal; those already queued in the pool do start
\* (_execute_serial_layer, _execute_parallel_layer).
AtMostOneAfterStop ==
    [][stop => \/ Started' = Started
               \/ late = {} /\ \E t \in Task : Started' = Started \cup {t}]_vars

\* A case thread that hangs cannot keep the workflow from its result: the join
\* timeout lets the task return, the pool drains and the layers are gone through
\* (execute).  Whether the auto_clear after that returns is another matter.
WorkflowConcludes == <>(pc \in {"clear", "done"})

\* The executor implements the plan's promise.
Promise == INSTANCE LayeredPlan
    WITH started <- Started,
         verdict <- [t \in Task |-> IF t \in Recorded THEN status[t]
                                   ELSE IF t \in Settled THEN "lost" ELSE "none"],
         stopped <- stop,
         late <- late,
         overall <- outcome

ImplementsPlan == Promise!Spec
=============================================================================
