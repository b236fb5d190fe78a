------------------------ MODULE WorkflowExecutorProofs ------------------------
(***************************************************************************)
(* Proofs about WorkflowExecutor, for every plan, pool size and retry      *)
(* count: the layer barrier and the results; the tasks with the threads    *)
(* they leave behind; and that the executor implements LayeredPlan.        *)
(***************************************************************************)
EXTENDS WorkflowExecutor, TLAPS

InLayer == {"serial", "call", "await", "submit", "offer", "collect", "drain", "interval"}

\* The stop event has been read, and the task is about to be handed out.
AtHandOut == pc \in {"call", "offer"}

\* While the main thread is inside a layer, the layer exists.
LayerExists ==
    /\ pc \in InLayer => layer \in DOMAIN Layers
    /\ pc \in {"serial", "call", "await"} => IsSerial(layer)
    /\ pc = "offer" => next <= Len(Layers[layer])

\* Tasks of later layers have not been handed out, nor have those of the
\* current layer that the main thread has not reached.
NotYet ==
    /\ \A t \in Task : LayerOf[t] > layer => run[t] = "none"
    /\ pc \in {"start", "delay", "layer", "serial", "call"} =>
          \A t \in Task : LayerOf[t] = layer => run[t] = "none"
    /\ pc \in {"submit", "offer"} =>
          \A p \in DOMAIN Layers[layer] : p >= next => run[Layers[layer][p]] = "none"

\* Handing out goes through the layer in order; without a stop it is complete.
HandedOut ==
    /\ pc \in {"submit", "offer"} =>
          \A p \in DOMAIN Layers[layer] : p < next => run[Layers[layer][p]] # "none"
    /\ pc = "collect" /\ ~stop =>
          \A t \in LayerTasks(layer) : run[t] # "none"
    /\ pc = "await" => Layers[layer][1] \notin Recorded

\* Without a stop, or with one since the event was read, the layers left behind are
\* completely settled.
LeftBehind ==
    /\ ~stop \/ AtHandOut => \A t \in Task : LayerOf[t] < layer => t \in Settled
    /\ ~stop /\ pc \in {"drain", "interval"} => \A t \in LayerTasks(layer) : t \in Settled

\* Only finished tasks are in the monitor, which starts out empty.
RecordedReturned ==
    /\ \A t \in Recorded : run[t] = "returned"
    /\ pc = "start" => results = <<>>

IInv ==
    /\ TypeOK /\ LayerExists /\ NotYet /\ HandedOut /\ LeftBehind
    /\ RecordedReturned /\ RecordedOnce /\ LayersAreBarriers

-----------------------------------------------------------------------------
(* The plan *)

\* What the executor is told of its layers (get_execution_order).
LEMMA Layered ==
    /\ Layers \in Seq(Seq(Task))
    /\ \A i \in DOMAIN Layers : Len(Layers[i]) > 0
    /\ \A i, j \in DOMAIN Layers : \A p \in DOMAIN Layers[i], q \in DOMAIN Layers[j] :
          Layers[i][p] = Layers[j][q] => i = j /\ p = q
    /\ \A t \in Task : \E i \in DOMAIN Layers : t \in LayerTasks(i)
<1>1. \A t \in Task : \E i \in DOMAIN Layers : \E p \in DOMAIN Layers[i] : Layers[i][p] = t
  BY PlanAssumption DEF IsOrderOf
<1>2. QED
  BY <1>1, PlanAssumption DEF IsOrderOf, LayerTasks

\* Every task lies in the layer LayerOf gives it, and in no other.
LEMMA PlanLayers ==
    /\ \A t \in Task : LayerOf[t] \in DOMAIN Layers /\ t \in LayerTasks(LayerOf[t])
    /\ \A i \in DOMAIN Layers : \A t \in LayerTasks(i) : t \in Task /\ LayerOf[t] = i
    /\ \A i \in DOMAIN Layers : \A p \in DOMAIN Layers[i] : Layers[i][p] \in LayerTasks(i)
<1>1. \A t \in Task : LayerOf[t] \in DOMAIN Layers /\ t \in LayerTasks(LayerOf[t])
  BY Layered DEF LayerOf
<1>2. ASSUME NEW i \in DOMAIN Layers, NEW t \in LayerTasks(i)
      PROVE  t \in Task /\ LayerOf[t] = i
  <2>1. PICK p \in DOMAIN Layers[i] : Layers[i][p] = t
    BY DEF LayerTasks
  <2>2. t \in Task
    <3>1. Layers[i] \in Seq(Task)
      BY Layered
    <3>2. QED
      BY <2>1, <3>1
  <2>3. PICK q \in DOMAIN Layers[LayerOf[t]] : Layers[LayerOf[t]][q] = t
    BY <1>1, <2>2 DEF LayerTasks
  <2>4. QED
    BY <1>1, <2>1, <2>2, <2>3, Layered
<1>3. QED
  BY <1>1, <1>2 DEF LayerTasks

\* The layers and the positions in them are numbered from 1.
LEMMA LayerNumbers ==
    /\ Len(Layers) \in Nat /\ DOMAIN Layers = 1 .. Len(Layers)
    /\ \A i \in DOMAIN Layers : /\ Len(Layers[i]) \in Nat \ {0}
                               /\ DOMAIN Layers[i] = 1 .. Len(Layers[i])
    /\ \A t \in Task : LayerOf[t] \in Nat \ {0}
<1>1. Len(Layers) \in Nat /\ DOMAIN Layers = 1 .. Len(Layers)
  BY Layered
<1>2. ASSUME NEW i \in DOMAIN Layers
      PROVE  Len(Layers[i]) \in Nat \ {0} /\ DOMAIN Layers[i] = 1 .. Len(Layers[i])
  <2>1. Layers[i] \in Seq(Task) /\ Len(Layers[i]) > 0
    BY Layered
  <2>2. QED
    BY <2>1
<1>3. \A t \in Task : LayerOf[t] \in Nat \ {0}
  BY <1>1, PlanLayers
<1>4. QED
  BY <1>1, <1>2, <1>3

-----------------------------------------------------------------------------
(* Types *)

\* The types hold initially.
LEMMA InitType == Init => TypeOK
<1> SUFFICES ASSUME Init PROVE TypeOK
  OBVIOUS
<1> USE DEF Init
<1>1. layer \in 1 .. Len(Layers) + 1
  <2>1. Len(Layers) \in Nat
    BY Layered
  <2>2. QED
    BY <2>1
<1>2. retries \in [Task -> 0 .. MaxRetry]
  BY BoundsAssumption
<1>3. run \in [Task -> RunState] /\ thread \in [Task -> [Attempt -> ThreadState]]
  BY DEF RunState, ThreadState
<1>4. results \in Seq(Task)
  OBVIOUS
<1>5. status \in [Task -> TaskStatus \cup {"none"}]
  OBVIOUS
<1>6. next \in Nat \ {0}
  OBVIOUS
<1>7. /\ stop \in BOOLEAN /\ temp \subseteq Task /\ fault \subseteq Task
      /\ litter \subseteq Task /\ late \subseteq Task
  BY Zenon
<1>8. /\ pc \in {"start"} /\ outcome \in {"none"} /\ clear \in {"none"}
  OBVIOUS
<1> HIDE DEF Init
<1>9. QED
  BY <1>1, <1>2, <1>3, <1>4, <1>5, <1>6, <1>7, <1>8 DEF TypeOK

\* The main thread keeps the types.
LEMMA MainType == ASSUME TypeOK, LayerExists, Main PROVE TypeOK'
<1> USE DEF TypeOK, mainVars, taskVars, caseVars, InLayer, LayerExists
<1>1. \A i \in DOMAIN Layers :
         Len(Layers[i]) \in Nat /\ Layers[i] \in Seq(Task) /\ Layers[i][1] \in Task
  BY Layered
<1>2. DOMAIN Layers = 1 .. Len(Layers) /\ Len(Layers) \in Nat
  BY Layered
<1>3. CASE Reject BY <1>3 DEF Reject
<1>4. CASE Begin BY <1>4 DEF Begin
<1>5. CASE AfterStartDelay BY <1>5 DEF AfterStartDelay
<1>6. CASE EnterLayer BY <1>6 DEF EnterLayer
<1>21. CASE CheckSerial BY <1>21 DEF CheckSerial
<1>22. CASE CheckSubmit BY <1>22 DEF CheckSubmit
<1>7. CASE StartSerial
  <2>1. run' \in [Task -> RunState] /\ late' \subseteq Task
    BY <1>1, <1>7 DEF StartSerial, HandOut, RunState
  <2>2. QED
    BY <1>7, <2>1 DEF StartSerial, HandOut
<1>8. CASE SkipSerial BY <1>8 DEF SkipSerial
<1>9. CASE RecordSerial
  BY <1>1, <1>9 DEF RecordSerial
<1>19. CASE SerialRaises BY <1>19 DEF SerialRaises
<1>10. CASE Submit
  <2>1. next \in 1 .. Len(Layers[layer]) /\ layer \in DOMAIN Layers
    BY <1>1, <1>10 DEF Submit
  <2>2. Layers[layer][next] \in Task
    BY <1>1, <2>1
  <2>3. run' \in [Task -> RunState] /\ late' \subseteq Task
    BY <1>10, <2>2 DEF Submit, HandOut, RunState
  <2>4. QED
    BY <1>10, <2>3 DEF Submit, HandOut
<1>11. CASE EndSubmit BY <1>11 DEF EndSubmit
<1>12. CASE Collect
  <2>1. \A t \in LayerTasks(layer) : t \in Task
    BY <1>12, PlanLayers DEF Collect
  <2>2. results' \in Seq(Task)
    BY <1>12, <2>1 DEF Collect
  <2>3. QED
    BY <1>12, <2>2 DEF Collect
<1>13. CASE EndCollect BY <1>13 DEF EndCollect
<1>14. CASE Drain BY <1>14 DEF Drain
<1>15. CASE Interval
  BY <1>2, <1>15 DEF Interval
<1>16. CASE Conclude BY <1>16 DEF Conclude
<1>17. CASE WorkflowAutoClear BY <1>17 DEF WorkflowAutoClear
<1>18. QED
  BY <1>3, <1>4, <1>5, <1>6, <1>7, <1>8, <1>9, <1>10, <1>11, <1>12, <1>13,
     <1>14, <1>15, <1>16, <1>17, <1>19, <1>21, <1>22, Main DEF Main, Execute

\* TaskExecutor keeps the types.
LEMMA TaskType == ASSUME TypeOK, NEW t \in Task, RunTask(t) PROVE TypeOK'
<1> USE BoundsAssumption DEF TypeOK, mainVars, taskVars, caseVars, RunState, TaskStatus, Return
<1>1. CASE PickUp(t) BY <1>1 DEF PickUp
<1>0. CASE DurationRaises(t) BY <1>0 DEF DurationRaises
<1>2. CASE CreateTempCaseFile(t) BY <1>2 DEF CreateTempCaseFile
<1>3. CASE TempCaseFileFails(t) BY <1>3 DEF TempCaseFileFails
<1>4. CASE LaunchAttempt(t)
  <2>1. CurrentAttempt(t) \in Attempt
    BY DEF CurrentAttempt, Attempt
  <2>2. thread' \in [Task -> [Attempt -> ThreadState]]
    BY <1>4, <2>1 DEF LaunchAttempt, ThreadState
  <2>3. QED
    BY <1>4, <2>2 DEF LaunchAttempt
<1>5. CASE CaseSucceeded(t) BY <1>5 DEF CaseSucceeded
<1>6. CASE CaseFailed(t)
  <2>1. CASE retries[t] < RetryCount[t]
    <3>1. retries[t] + 1 \in 0 .. MaxRetry
      BY <2>1
    <3>2. retries' \in [Task -> 0 .. MaxRetry]
      BY <1>6, <2>1, <3>1 DEF CaseFailed
    <3>3. /\ run' = [run EXCEPT ![t] = "sleep"]
          /\ UNCHANGED <<mainVars, stop, status, temp, litter, late, caseVars>>
      BY <1>6, <2>1 DEF CaseFailed
    <3>4. QED
      BY <3>2, <3>3
  <2>2. CASE ~(retries[t] < RetryCount[t])
    <3>1. Return(t, "failed") /\ UNCHANGED <<mainVars, stop, retries, caseVars>>
      BY <1>6, <2>2 DEF CaseFailed
    <3>2. QED
      BY <3>1
  <2>3. QED
    BY <2>1, <2>2
<1>7. CASE CaseTimesOut(t) BY <1>7 DEF CaseTimesOut
<1>8. CASE RetrySleepOver(t) BY <1>8 DEF RetrySleepOver
<1>9. QED
  BY <1>0, <1>1, <1>2, <1>3, <1>4, <1>5, <1>6, <1>7, <1>8, RunTask(t) DEF RunTask

\* So do the case threads.
LEMMA CaseType ==
    ASSUME TypeOK, NEW t \in Task, NEW k \in Attempt, CaseThread(t, k)
    PROVE  TypeOK'
<1> USE DEF TypeOK, mainVars, taskVars, caseVars, ThreadState
<1>1. CASE LoadCase(t, k) BY <1>1 DEF LoadCase
<1>2. CASE Inject(t, k) BY <1>2 DEF Inject
<1>3. CASE CaseReturnsFalse(t, k) BY <1>3 DEF CaseReturnsFalse
<1>4. CASE Recover(t, k) BY <1>4 DEF Recover
<1>5. QED
  BY <1>1, <1>2, <1>3, <1>4, CaseThread(t, k) DEF CaseThread

-----------------------------------------------------------------------------
(* The barrier *)

\* What every step of TaskExecutor and of a case thread looks like from the main
\* thread: a task that was handed out moves on, and a finished one stays so.
TaskProgress ==
    /\ UNCHANGED <<pc, layer, next, results, stop>>
    /\ \A t \in Task : /\ run[t] = "none" <=> run'[t] = "none"
                       /\ run[t] = "returned" => run'[t] = "returned"
                       /\ run[t] = "raised" => run'[t] = "raised"

\* A step of TaskExecutor is progress.
LEMMA RunTaskProgress ==
    ASSUME TypeOK, NEW t \in Task, RunTask(t) PROVE TaskProgress
<1> USE DEF TypeOK, mainVars, taskVars, caseVars, RunState, Return, TaskProgress
<1>1. CASE PickUp(t) BY <1>1 DEF PickUp
<1>0. CASE DurationRaises(t) BY <1>0 DEF DurationRaises
<1>2. CASE CreateTempCaseFile(t) BY <1>2 DEF CreateTempCaseFile
<1>3. CASE TempCaseFileFails(t) BY <1>3 DEF TempCaseFileFails
<1>4. CASE LaunchAttempt(t) BY <1>4 DEF LaunchAttempt
<1>5. CASE CaseSucceeded(t) BY <1>5 DEF CaseSucceeded
<1>6. CASE CaseFailed(t) BY <1>6 DEF CaseFailed
<1>7. CASE CaseTimesOut(t) BY <1>7 DEF CaseTimesOut
<1>8. CASE RetrySleepOver(t) BY <1>8 DEF RetrySleepOver
<1>9. QED
  BY <1>0, <1>1, <1>2, <1>3, <1>4, <1>5, <1>6, <1>7, <1>8, RunTask(t) DEF RunTask

\* A step of a case thread leaves the tasks alone.
LEMMA CaseThreadProgress ==
    ASSUME TypeOK, NEW t \in Task, NEW k \in Attempt, CaseThread(t, k)
    PROVE  TaskProgress
  BY DEF CaseThread, LoadCase, Inject, CaseReturnsFalse, Recover,
         mainVars, taskVars, TaskProgress

\* Progress of the tasks preserves every part of the invariant.
LEMMA ProgressKeeps ==
    ASSUME IInv, TaskProgress, TypeOK' PROVE IInv'
<1> USE DEF IInv, TaskProgress
<1>0. /\ \A i \in DOMAIN Layers : \A p \in DOMAIN Layers[i] : Layers[i][p] \in Task
      /\ \A i \in DOMAIN Layers : \A t \in LayerTasks(i) : t \in Task
  BY PlanLayers
<1>1. Recorded' = Recorded
  BY DEF Recorded
<1>2. Recorded \subseteq Task
  BY DEF TypeOK, Recorded
<1>3. /\ Started' = Started /\ Settled \subseteq Settled'
      /\ \A t \in Task : Over(t) => Over(t)'
  BY <1>1 DEF Started, Settled, Over
<1>4. LayerExists'
  BY DEF LayerExists
<1>5. NotYet'
  <2>1. pc \in {"submit", "offer"} => \A p \in DOMAIN Layers[layer] : Layers[layer][p] \in Task
    BY <1>0 DEF LayerExists, InLayer
  <2>2. QED
    BY <2>1 DEF NotYet
<1>6. HandedOut'
  <2>1. pc \in InLayer => /\ \A p \in DOMAIN Layers[layer] : Layers[layer][p] \in Task
                         /\ \A t \in LayerTasks(layer) : t \in Task
    BY <1>0 DEF LayerExists
  <2>2. LayerTasks(layer)' = LayerTasks(layer)
    BY DEF LayerTasks
  <2>3. QED
    BY <1>1, <2>1, <2>2 DEF HandedOut, InLayer
<1>7. LeftBehind'
  <2>1. LayerTasks(layer)' = LayerTasks(layer)
    BY DEF LayerTasks
  <2>2. QED
    BY <1>0, <1>3, <2>1 DEF LeftBehind, AtHandOut
<1>8. RecordedReturned'
  BY <1>1, <1>2 DEF RecordedReturned
<1>9. RecordedOnce'
  BY DEF RecordedOnce
<1>10. LayersAreBarriers'
  BY <1>1, <1>3 DEF LayersAreBarriers
<1>11. QED
  BY <1>4, <1>5, <1>6, <1>7, <1>8, <1>9, <1>10

\* Initially nothing is handed out.
LEMMA InitInv == Init => IInv
<1> SUFFICES ASSUME Init PROVE IInv
  OBVIOUS
<1>1. TypeOK
  BY InitType
<1>2. LayerExists /\ HandedOut /\ RecordedReturned /\ RecordedOnce
  BY DEF Init, LayerExists, InLayer, HandedOut, RecordedReturned, Recorded, RecordedOnce
<1>3. NotYet
  BY DEF Init, NotYet
<1>4. LeftBehind
  <2>1. \A t \in Task : ~(LayerOf[t] < 1)
    BY LayerNumbers
  <2>2. QED
    BY <2>1 DEF Init, LeftBehind, AtHandOut
<1>5. LayersAreBarriers
  BY DEF Init, LayersAreBarriers, Started
<1>6. QED
  BY <1>1, <1>2, <1>3, <1>4, <1>5 DEF IInv

\* What recording a result that is not yet there does to the monitor.
LEMMA AppendResult ==
    ASSUME TypeOK, RecordedOnce, NEW t \in Task, t \notin Recorded,
           results' = Append(results, t)
    PROVE  Recorded' = Recorded \cup {t} /\ RecordedOnce'
<1>1. results \in Seq(Task) /\ Len(results) \in Nat /\ DOMAIN results = 1 .. Len(results)
  BY DEF TypeOK
<1>2. /\ DOMAIN results' = 1 .. Len(results) + 1
      /\ results'[Len(results) + 1] = t
      /\ \A n \in DOMAIN results : results'[n] = results[n]
  BY <1>1
<1>3. Recorded' = Recorded \cup {t}
  BY <1>1, <1>2 DEF Recorded
<1>4. RecordedOnce'
  BY <1>1, <1>2 DEF RecordedOnce, Recorded
<1>5. QED
  BY <1>3, <1>4

\* Handing out a fresh task of the current layer keeps the barrier, whether or not
\* a stop came since the event was read: everything before the layer is recorded,
\* nothing after it started.
LEMMA HandOutKeeps ==
    ASSUME IInv, AtHandOut, layer \in DOMAIN Layers,
           NEW t \in LayerTasks(layer), run[t] = "none",
           NEW s \in RunState, s \notin {"none", "raised"}, run' = [run EXCEPT ![t] = s],
           UNCHANGED results
    PROVE  /\ LayersAreBarriers' /\ RecordedOnce'
           /\ Recorded' = Recorded /\ Settled' = Settled /\ t \notin Recorded
           /\ \A u \in Recorded : run'[u] = "returned"
           /\ \A u \in Task : LayerOf[u] > layer => run'[u] = "none"
<1> USE DEF IInv
<1>1. t \in Task /\ LayerOf[t] = layer
  BY PlanLayers
<1>2. Recorded' = Recorded /\ RecordedOnce'
  BY DEF Recorded, RecordedOnce
<1>3. t \notin Recorded
  BY DEF RecordedReturned
<1>4. run \in [Task -> RunState] /\ Recorded \subseteq Task
  BY DEF TypeOK, Recorded
<1>5. \A u \in Recorded : run'[u] = "returned"
  BY <1>3, <1>4 DEF RecordedReturned
<1>6. layer \in Nat /\ \A u \in Task : LayerOf[u] \in Nat
  BY LayerNumbers
<1>7. \A u \in Task : LayerOf[u] > layer => run'[u] = "none"
  BY <1>1, <1>4, <1>6 DEF NotYet
<1>10. Settled' = Settled
  BY <1>1, <1>2, <1>4 DEF Settled
<1>8. ASSUME NEW u \in Task, NEW v \in Task, LayerOf[u] < LayerOf[v], v \in Started'
      PROVE  Over(u)' /\ u \in Settled'
  <2>1. u \in Settled
    <3>1. CASE v = t
      BY <1>1, <1>8, <3>1 DEF LeftBehind, AtHandOut
    <3>2. CASE v # t
      <4>1. v \in Started
        BY <1>4, <1>8, <3>2 DEF Started
      <4>2. QED
        BY <1>8, <4>1 DEF LayersAreBarriers
    <3>3. QED
      BY <3>1, <3>2
  <2>2. Over(u)'
    BY <1>1, <1>4, <1>5, <2>1 DEF Over, Settled
  <2>3. QED
    BY <1>10, <2>1, <2>2
<1>9. QED
  BY <1>2, <1>3, <1>5, <1>7, <1>8, <1>10 DEF LayersAreBarriers

\* Every step of the main thread preserves the invariant.
LEMMA MainKeeps == ASSUME IInv, Main PROVE IInv'
<1> USE DEF IInv, mainVars, taskVars, caseVars
<1>1. TypeOK'
  BY MainType
<1>2. /\ \A i \in DOMAIN Layers : \A p \in DOMAIN Layers[i] :
            Layers[i][p] \in LayerTasks(i) /\ Layers[i][p] \in Task /\ LayerOf[Layers[i][p]] = i
      /\ \A i \in DOMAIN Layers : \A t \in LayerTasks(i) :
            t \in Task /\ LayerOf[t] = i /\ \E p \in DOMAIN Layers[i] : Layers[i][p] = t
      /\ \A t \in Task : t \in LayerTasks(LayerOf[t])
  BY PlanLayers DEF LayerTasks
<1>3. layer \in Nat \ {0} /\ next \in Nat \ {0}
  BY LayerNumbers DEF TypeOK
<1>p. ASSUME UNCHANGED <<layer, next, results, stop, run>>, ~stop,
             \/ pc = "serial" /\ pc' = "call"
             \/ pc = "submit" /\ pc' = "offer" /\ next <= Len(Layers[layer])
      PROVE  IInv'
  <2>1. Recorded' = Recorded /\ Settled' = Settled /\ Started' = Started
    BY <1>p DEF Recorded, Settled, Started
  <2>2. LayerExists'
    BY <1>p DEF LayerExists, InLayer, IsSerial
  <2>3. NotYet' /\ HandedOut'
    BY <1>p DEF NotYet, HandedOut
  <2>4. LeftBehind' /\ RecordedReturned'
    BY <1>p, <2>1 DEF LeftBehind, RecordedReturned, AtHandOut
  <2>5. RecordedOnce' /\ LayersAreBarriers'
    BY <1>p, <2>1 DEF RecordedOnce, LayersAreBarriers, Over
  <2>6. QED
    BY <1>1, <2>2, <2>3, <2>4, <2>5
<1>21. CASE CheckSerial
  BY <1>21, <1>p DEF CheckSerial
<1>22. CASE CheckSubmit
  BY <1>22, <1>p DEF CheckSubmit
<1>q. ASSUME UNCHANGED <<layer, results, stop, run>>, pc \notin {"start"} \/ pc' # "start",
             pc' \notin InLayer, pc' # "start", pc' # "delay", pc' # "layer"
      PROVE  IInv'
  <2>1. Recorded' = Recorded /\ Settled' = Settled /\ Started' = Started
    BY <1>q DEF Recorded, Settled, Started
  <2>2. LayerExists' /\ NotYet' /\ HandedOut'
    BY <1>q DEF LayerExists, InLayer, NotYet, HandedOut
  <2>3. LeftBehind' /\ RecordedReturned'
    BY <1>q, <2>1 DEF LeftBehind, RecordedReturned, InLayer, AtHandOut
  <2>4. RecordedOnce' /\ LayersAreBarriers'
    BY <1>q, <2>1 DEF RecordedOnce, LayersAreBarriers, Over
  <2>5. QED
    BY <1>1, <2>2, <2>3, <2>4
<1>4. CASE Reject
  BY <1>4, <1>q DEF Reject, InLayer
<1>5. CASE Begin
  <2>1. results' = results /\ UNCHANGED <<layer, run, stop>> /\ pc = "start" /\ pc' = "delay"
    BY <1>5 DEF Begin, RecordedReturned
  <2>2. Recorded' = Recorded /\ Settled' = Settled /\ Started' = Started
    BY <2>1 DEF Recorded, Settled, Started
  <2>3. LayerExists' /\ NotYet' /\ HandedOut'
    BY <2>1 DEF LayerExists, InLayer, NotYet, HandedOut
  <2>4. LeftBehind' /\ RecordedReturned'
    BY <2>1, <2>2 DEF LeftBehind, RecordedReturned, AtHandOut
  <2>5. RecordedOnce' /\ LayersAreBarriers'
    BY <2>1, <2>2 DEF RecordedOnce, LayersAreBarriers, Over
  <2>6. QED
    BY <1>1, <2>3, <2>4, <2>5
<1>6. CASE AfterStartDelay
  <2>1. UNCHANGED <<layer, results, run, stop>> /\ pc = "delay" /\ pc' \in {"done", "layer"}
    BY <1>6 DEF AfterStartDelay
  <2>2. Recorded' = Recorded /\ Settled' = Settled /\ Started' = Started
    BY <2>1 DEF Recorded, Settled, Started
  <2>3. LayerExists' /\ NotYet' /\ HandedOut'
    BY <2>1 DEF LayerExists, InLayer, NotYet, HandedOut
  <2>4. LeftBehind' /\ RecordedReturned'
    BY <2>1, <2>2 DEF LeftBehind, RecordedReturned, AtHandOut
  <2>5. RecordedOnce' /\ LayersAreBarriers'
    BY <2>1, <2>2 DEF RecordedOnce, LayersAreBarriers, Over
  <2>6. QED
    BY <1>1, <2>3, <2>4, <2>5
<1>7. CASE EnterLayer
  <2>1. /\ UNCHANGED <<layer, results, run, stop>> /\ pc = "layer" /\ next' = 1
        /\ layer \in DOMAIN Layers
        /\ pc' = IF IsSerial(layer) THEN "serial" ELSE "submit"
    BY <1>3, <1>7, LayerNumbers DEF EnterLayer
  <2>2. Recorded' = Recorded /\ Settled' = Settled /\ Started' = Started
    BY <2>1 DEF Recorded, Settled, Started
  <2>3. LayerExists'
    BY <2>1 DEF LayerExists, InLayer, IsSerial
  <2>4. NotYet'
    BY <1>2, <2>1 DEF NotYet
  <2>5. HandedOut'
    BY <2>1, LayerNumbers DEF HandedOut
  <2>6. LeftBehind' /\ RecordedReturned'
    BY <2>1, <2>2 DEF LeftBehind, RecordedReturned, AtHandOut
  <2>7. RecordedOnce' /\ LayersAreBarriers'
    BY <2>1, <2>2 DEF RecordedOnce, LayersAreBarriers, Over
  <2>8. QED
    BY <1>1, <2>3, <2>4, <2>5, <2>6, <2>7
<1>8. CASE StartSerial
  <2> DEFINE t == Layers[layer][1]
  <2>1. /\ UNCHANGED <<layer, results, stop>> /\ pc = "call" /\ pc' = "await" /\ AtHandOut
        /\ run' = [run EXCEPT ![t] = "start"]
    BY <1>8 DEF StartSerial, HandOut, AtHandOut
  <2>2. layer \in DOMAIN Layers /\ IsSerial(layer)
    BY <2>1 DEF LayerExists, InLayer
  <2>3. t \in LayerTasks(layer) /\ t \in Task /\ LayerOf[t] = layer
    BY <1>2, <2>2, LayerNumbers
  <2>4. run[t] = "none"
    BY <2>1, <2>3 DEF NotYet
  <2>5. /\ LayersAreBarriers' /\ RecordedOnce'
        /\ Recorded' = Recorded /\ Settled' = Settled /\ t \notin Recorded
        /\ \A u \in Recorded : run'[u] = "returned"
        /\ \A u \in Task : LayerOf[u] > layer => run'[u] = "none"
    <3>1. "start" \in RunState /\ "start" \notin {"none", "raised"}
      BY DEF RunState
    <3> HIDE DEF t
    <3>2. QED
      BY <2>1, <2>2, <2>3, <2>4, <3>1, HandOutKeeps
  <2>6. LayerExists' /\ NotYet' /\ HandedOut'
    BY <2>1, <2>2, <2>5 DEF LayerExists, InLayer, NotYet, HandedOut, IsSerial
  <2>7. LeftBehind' /\ RecordedReturned'
    BY <2>1, <2>5 DEF LeftBehind, RecordedReturned, AtHandOut
  <2>8. QED
    BY <1>1, <2>5, <2>6, <2>7
<1>9. CASE SkipSerial
  <2>1. UNCHANGED <<layer, results, run, stop>> /\ pc = "serial" /\ pc' = "interval" /\ stop
    BY <1>9 DEF SkipSerial
  <2>2. Recorded' = Recorded /\ Settled' = Settled /\ Started' = Started
    BY <2>1 DEF Recorded, Settled, Started
  <2>3. LayerExists' /\ NotYet' /\ HandedOut'
    BY <2>1 DEF LayerExists, InLayer, NotYet, HandedOut
  <2>4. LeftBehind' /\ RecordedReturned'
    BY <2>1, <2>2 DEF LeftBehind, RecordedReturned, AtHandOut
  <2>5. RecordedOnce' /\ LayersAreBarriers'
    BY <2>1, <2>2 DEF RecordedOnce, LayersAreBarriers, Over
  <2>6. QED
    BY <1>1, <2>3, <2>4, <2>5
<1>10. CASE RecordSerial
  <2> DEFINE t == Layers[layer][1]
  <2>1. /\ UNCHANGED <<layer, run, stop>> /\ pc = "await" /\ pc' = "interval"
        /\ run[t] = "returned" /\ results' = Append(results, t)
    BY <1>10 DEF RecordSerial
  <2>2. layer \in DOMAIN Layers /\ Len(Layers[layer]) = 1
    BY <2>1 DEF LayerExists, InLayer, IsSerial
  <2>3. t \in Task /\ \A u \in LayerTasks(layer) : u = t
    BY <1>2, <2>2, LayerNumbers
  <2>4. t \notin Recorded
    BY <2>1 DEF HandedOut
  <2>5. Recorded' = Recorded \cup {t} /\ RecordedOnce'
    <3> HIDE DEF t
    <3>1. QED
      BY <2>1, <2>3, <2>4, AppendResult
  <2>6. /\ Started' = Started /\ Settled' = Settled \cup {t}
        /\ \A u \in Task : Over(u)' <=> Over(u)
    BY <2>1, <2>5 DEF Started, Settled, Over
  <2>7. LayerExists' /\ NotYet' /\ HandedOut'
    BY <2>1 DEF LayerExists, InLayer, NotYet, HandedOut
  <2>8. LeftBehind'
    <3>1. LayerTasks(layer)' = LayerTasks(layer)
      BY <2>1 DEF LayerTasks
    <3>2. QED
      BY <2>1, <2>3, <2>5, <2>6, <3>1 DEF LeftBehind, AtHandOut
  <2>9. RecordedReturned' /\ LayersAreBarriers'
    BY <2>1, <2>5, <2>6 DEF RecordedReturned, LayersAreBarriers
  <2>10. QED
    BY <1>1, <2>5, <2>7, <2>8, <2>9
<1>11. CASE Submit
  <2> DEFINE t == Layers[layer][next]
  <2>1. /\ UNCHANGED <<layer, results, stop>> /\ pc = "offer" /\ pc' = "submit" /\ AtHandOut
        /\ next <= Len(Layers[layer]) /\ next' = next + 1
        /\ run' = [run EXCEPT ![t] = "queued"]
    BY <1>11 DEF Submit, HandOut, AtHandOut, LayerExists
  <2>2. layer \in DOMAIN Layers /\ next \in DOMAIN Layers[layer]
    BY <1>3, <2>1, LayerNumbers DEF LayerExists, InLayer
  <2>3. t \in LayerTasks(layer) /\ t \in Task /\ LayerOf[t] = layer
    BY <1>2, <2>2
  <2>4. run[t] = "none"
    BY <1>3, <2>1, <2>2 DEF NotYet
  <2>5. /\ LayersAreBarriers' /\ RecordedOnce'
        /\ Recorded' = Recorded /\ Settled' = Settled /\ t \notin Recorded
        /\ \A u \in Recorded : run'[u] = "returned"
        /\ \A u \in Task : LayerOf[u] > layer => run'[u] = "none"
    <3>1. "queued" \in RunState /\ "queued" \notin {"none", "raised"}
      BY DEF RunState
    <3> HIDE DEF t
    <3>2. QED
      BY <2>1, <2>2, <2>3, <2>4, <3>1, HandOutKeeps
  <2>6. LayerExists' /\ LeftBehind' /\ RecordedReturned'
    BY <2>1, <2>5 DEF LayerExists, InLayer, LeftBehind, RecordedReturned, AtHandOut
  <2>7. /\ DOMAIN Layers[layer] \subseteq Nat
        /\ \A p \in DOMAIN Layers[layer] : Layers[layer][p] = t <=> p = next
    BY <2>2, LayerNumbers, Layered
  <2>8. run' \in [Task -> RunState] /\ run'[t] # "none"
        /\ \A p \in DOMAIN Layers[layer] : p # next =>
              run'[Layers[layer][p]] = run[Layers[layer][p]]
    BY <1>2, <2>1, <2>2, <2>3, <2>7 DEF TypeOK, RunState
  <2>9. NotYet'
    BY <1>3, <2>1, <2>5, <2>7, <2>8 DEF NotYet
  <2>10. HandedOut'
    BY <1>3, <2>1, <2>7, <2>8 DEF HandedOut
  <2>11. QED
    BY <1>1, <2>5, <2>6, <2>9, <2>10
<1>12. CASE EndSubmit
  <2>1. /\ UNCHANGED <<layer, results, run, stop>> /\ pc = "submit" /\ pc' = "collect"
        /\ stop \/ next > Len(Layers[layer])
    BY <1>12 DEF EndSubmit
  <2>2. layer \in DOMAIN Layers
    BY <2>1 DEF LayerExists, InLayer
  <2>3. /\ Recorded' = Recorded /\ Settled' = Settled /\ Started' = Started
        /\ LayerTasks(layer)' = LayerTasks(layer)
    BY <2>1 DEF Recorded, Settled, Started, LayerTasks
  <2>4. ~stop => \A p \in DOMAIN Layers[layer] : run[Layers[layer][p]] # "none"
    BY <1>3, <2>1, <2>2, LayerNumbers DEF HandedOut
  <2>5. HandedOut'
    BY <1>2, <2>1, <2>2, <2>3, <2>4 DEF HandedOut
  <2>6. LayerExists' /\ NotYet'
    BY <2>1 DEF LayerExists, InLayer, NotYet
  <2>7. LeftBehind' /\ RecordedReturned'
    BY <2>1, <2>3 DEF LeftBehind, RecordedReturned, AtHandOut
  <2>8. RecordedOnce' /\ LayersAreBarriers'
    BY <2>1, <2>3 DEF RecordedOnce, LayersAreBarriers, Over
  <2>9. QED
    BY <1>1, <2>5, <2>6, <2>7, <2>8
<1>13. CASE Collect
  <2>1. PICK t \in LayerTasks(layer) \ Recorded :
          run[t] = "returned" /\ results' = Append(results, t)
    BY <1>13 DEF Collect
  <2>2. UNCHANGED <<pc, layer, run, stop>> /\ pc = "collect"
    BY <1>13 DEF Collect
  <2>3. t \in Task
    BY <1>2, <2>2 DEF LayerExists, InLayer
  <2>4. Recorded' = Recorded \cup {t} /\ RecordedOnce'
    BY <2>1, <2>3, AppendResult
  <2>5. /\ Started' = Started
        /\ LayerTasks(layer)' = LayerTasks(layer)
        /\ Settled' = Settled \cup {t}
        /\ \A u \in Task : Over(u)' <=> Over(u)
    BY <2>2, <2>4 DEF Started, LayerTasks, Settled, Over
  <2>6. LayerExists' /\ NotYet' /\ HandedOut'
    BY <2>2, <2>5 DEF LayerExists, NotYet, HandedOut
  <2>7. LeftBehind' /\ RecordedReturned' /\ LayersAreBarriers'
    BY <2>1, <2>2, <2>4, <2>5 DEF LeftBehind, AtHandOut, RecordedReturned, LayersAreBarriers
  <2>8. QED
    BY <1>1, <2>4, <2>6, <2>7
<1>14. CASE EndCollect
  <2>1. /\ UNCHANGED <<layer, results, run, stop>> /\ pc = "collect" /\ pc' = "drain"
        /\ ~stop => LayerTasks(layer) \cap Started \subseteq Settled
    BY <1>14 DEF EndCollect
  <2>2. /\ Recorded' = Recorded /\ Settled' = Settled /\ Started' = Started
        /\ LayerTasks(layer)' = LayerTasks(layer)
    BY <2>1 DEF Recorded, Settled, Started, LayerTasks
  <2>3. layer \in DOMAIN Layers
    BY <2>1 DEF LayerExists, InLayer
  <2>4. ~stop => \A t \in LayerTasks(layer) : t \in Settled
    BY <1>2, <2>1, <2>3 DEF HandedOut, Started
  <2>5. LeftBehind'
    BY <2>1, <2>2, <2>4 DEF LeftBehind, AtHandOut
  <2>6. LayerExists' /\ NotYet' /\ HandedOut'
    BY <2>1 DEF LayerExists, InLayer, NotYet, HandedOut
  <2>7. RecordedReturned' /\ RecordedOnce' /\ LayersAreBarriers'
    BY <2>1, <2>2 DEF RecordedReturned, RecordedOnce, LayersAreBarriers, Over
  <2>8. QED
    BY <1>1, <2>5, <2>6, <2>7
<1>15. CASE Drain
  <2>1. UNCHANGED <<layer, results, run, stop>> /\ pc = "drain" /\ pc' = "interval"
    BY <1>15 DEF Drain
  <2>2. /\ Recorded' = Recorded /\ Settled' = Settled /\ Started' = Started
        /\ LayerTasks(layer)' = LayerTasks(layer)
    BY <2>1 DEF Recorded, Settled, Started, LayerTasks
  <2>3. LayerExists' /\ NotYet' /\ HandedOut'
    BY <2>1 DEF LayerExists, InLayer, NotYet, HandedOut
  <2>4. LeftBehind' /\ RecordedReturned'
    BY <2>1, <2>2 DEF LeftBehind, RecordedReturned, AtHandOut
  <2>5. RecordedOnce' /\ LayersAreBarriers'
    BY <2>1, <2>2 DEF RecordedOnce, LayersAreBarriers, Over
  <2>6. QED
    BY <1>1, <2>3, <2>4, <2>5
<1>16. CASE Interval
  <2>1. UNCHANGED <<results, run, stop>> /\ pc = "interval" /\ pc' = "layer" /\ layer' = layer + 1
    BY <1>16 DEF Interval
  <2>2. Recorded' = Recorded /\ Settled' = Settled /\ Started' = Started
    BY <2>1 DEF Recorded, Settled, Started
  <2>3. LayerExists' /\ HandedOut'
    BY <2>1 DEF LayerExists, InLayer, HandedOut
  <2>4. NotYet'
    BY <1>3, <2>1, LayerNumbers DEF NotYet
  <2>5. LeftBehind'
    BY <1>2, <1>3, <2>1, <2>2, LayerNumbers DEF LeftBehind, AtHandOut
  <2>6. RecordedReturned' /\ RecordedOnce' /\ LayersAreBarriers'
    BY <2>1, <2>2 DEF RecordedReturned, RecordedOnce, LayersAreBarriers, Over
  <2>7. QED
    BY <1>1, <2>3, <2>4, <2>5, <2>6
<1>20. CASE SerialRaises
  BY <1>20, <1>q DEF SerialRaises, InLayer
<1>17. CASE Conclude
  BY <1>17, <1>q DEF Conclude, InLayer
<1>18. CASE WorkflowAutoClear
  BY <1>18, <1>q DEF WorkflowAutoClear, InLayer
<1>19. QED
  BY <1>4, <1>5, <1>6, <1>7, <1>8, <1>9, <1>10, <1>11, <1>12, <1>13, <1>14,
     <1>15, <1>16, <1>17, <1>18, <1>20, <1>21, <1>22, Main DEF Main, Execute

\* A signal only sets the stop event: everything said "without a stop" is off.
LEMMA StopKeeps == ASSUME IInv, Stop PROVE IInv'
<1> USE DEF IInv
<1>1. /\ stop' = TRUE
      /\ UNCHANGED <<pc, layer, next, results, outcome, clear, run, status, retries,
                     temp, litter, late, thread, fault>>
  BY DEF Stop, mainVars, taskVars, caseVars
<1>2. TypeOK'
  <2>1. stop' \in BOOLEAN
    BY <1>1, Zenon
  <2>2. QED
    BY <1>1, <2>1 DEF TypeOK
<1>3. Recorded' = Recorded /\ Settled' = Settled /\ Started' = Started
  BY <1>1 DEF Recorded, Settled, Started
<1>4. LayerExists' /\ NotYet'
  BY <1>1 DEF LayerExists, NotYet
<1>5. HandedOut' /\ LeftBehind'
  BY <1>1, <1>3 DEF HandedOut, LeftBehind, AtHandOut
<1>6. RecordedReturned' /\ RecordedOnce' /\ LayersAreBarriers'
  BY <1>1, <1>3 DEF RecordedReturned, RecordedOnce, LayersAreBarriers, Over
<1>7. QED
  BY <1>2, <1>4, <1>5, <1>6

\* Neither does a step that changes nothing.
LEMMA StutterKeeps == ASSUME IInv, UNCHANGED vars PROVE IInv'
<1> USE DEF IInv
<1>1. UNCHANGED <<pc, layer, next, results, outcome, clear, stop, run, status, retries,
                  temp, litter, late, thread, fault>>
  BY DEF vars, mainVars, taskVars, caseVars
<1>2. TypeOK'
  BY <1>1 DEF TypeOK
<1>3. Recorded' = Recorded /\ Settled' = Settled /\ Started' = Started
  BY <1>1 DEF Recorded, Settled, Started
<1>4. LayerExists' /\ NotYet'
  BY <1>1 DEF LayerExists, NotYet
<1>5. HandedOut' /\ LeftBehind'
  BY <1>1, <1>3 DEF HandedOut, LeftBehind, AtHandOut, LayerTasks
<1>6. RecordedReturned' /\ RecordedOnce' /\ LayersAreBarriers'
  BY <1>1, <1>3 DEF RecordedReturned, RecordedOnce, LayersAreBarriers, Over
<1>7. QED
  BY <1>2, <1>4, <1>5, <1>6

\* Every step preserves the invariant.
LEMMA NextKeeps == ASSUME IInv, [Next]_vars PROVE IInv'
<1>1. TypeOK
  BY DEF IInv
<1>2. CASE Main
  BY <1>2, MainKeeps
<1>3. CASE Stop
  BY <1>3, StopKeeps
<1>4. ASSUME NEW t \in Task, RunTask(t) PROVE IInv'
  <2>1. TaskProgress /\ TypeOK'
    BY <1>1, <1>4, RunTaskProgress, TaskType
  <2>2. QED
    BY <2>1, ProgressKeeps
<1>5. ASSUME NEW t \in Task, NEW k \in Attempt, CaseThread(t, k) PROVE IInv'
  <2>1. TaskProgress /\ TypeOK'
    BY <1>1, <1>5, CaseThreadProgress, CaseType
  <2>2. QED
    BY <2>1, ProgressKeeps
<1>6. CASE UNCHANGED vars
  BY <1>6, StutterKeeps
<1>7. CASE Terminated
  BY <1>7, StutterKeeps DEF Terminated
<1>8. QED
  BY <1>2, <1>3, <1>4, <1>5, <1>6, <1>7 DEF Next

\* The strengthened invariant holds in every reachable state.
LEMMA Inductive == Spec => []IInv
<1>1. Init => IInv
  BY InitInv
<1>2. IInv /\ [Next]_vars => IInv'
  BY NextKeeps
<1>3. QED
  BY <1>1, <1>2, PTL DEF Spec

-----------------------------------------------------------------------------
(* Theorems *)

\* Every variable of the executor keeps its type, for every plan.
THEOREM TypeCorrect == Spec => []TypeOK
<1>1. IInv => TypeOK
  BY DEF IInv
<1>2. QED
  BY <1>1, Inductive, PTL

\* The layers of every plan are barriers (executor.py, execute): no task starts
\* before all tasks of the earlier layers have returned and been recorded.
THEOREM BarriersHold == Spec => []LayersAreBarriers
<1>1. IInv => LayersAreBarriers
  BY DEF IInv
<1>2. QED
  BY <1>1, Inductive, PTL

\* The monitor never holds two results for a task (monitor.py, record).
THEOREM RecordedOnceHolds == Spec => []RecordedOnce
<1>1. IInv => RecordedOnce
  BY DEF IInv
<1>2. QED
  BY <1>1, Inductive, PTL

\* A task handed out in spite of a stop was the last one.
LateIsLast == late # {} => stop /\ ~AtHandOut

\* A step of a task or of a case thread, or none at all, has nothing to do with it.
LEMMA OthersNotLate ==
    ASSUME TypeOK, [Next]_vars, ~Main, ~Stop
    PROVE  UNCHANGED <<pc, stop, late, Started>>
<1> USE DEF mainVars, taskVars, caseVars
<1>1. ASSUME NEW t \in Task, RunTask(t) PROVE UNCHANGED <<pc, stop, late, Started>>
  <2>1. UNCHANGED late
    BY <1>1 DEF RunTask, PickUp, DurationRaises, CreateTempCaseFile, TempCaseFileFails,
         LaunchAttempt, CaseSucceeded, CaseFailed, CaseTimesOut, RetrySleepOver, Return
  <2>2. QED
    BY <1>1, <2>1, RunTaskProgress DEF TaskProgress, Started
<1>2. ASSUME NEW t \in Task, NEW k \in Attempt, CaseThread(t, k)
      PROVE  UNCHANGED <<pc, stop, late, Started>>
  BY <1>2 DEF CaseThread, LoadCase, Inject, CaseReturnsFalse, Recover, Started
<1>3. CASE UNCHANGED vars \/ Terminated
  BY <1>3 DEF Terminated, vars, Started
<1>4. QED
  BY <1>1, <1>2, <1>3 DEF Next

\* The main thread hands out a task only when it has read the stop event, and after
\* that it reads the event again.
LEMMA MainHandsOut ==
    ASSUME Main
    PROVE  \/ /\ AtHandOut /\ ~AtHandOut' /\ stop' = stop
              /\ \E t : /\ run' = [run EXCEPT ![t] = "start"] \/ run' = [run EXCEPT ![t] = "queued"]
                        /\ late' = IF stop THEN late \cup {t} ELSE late
           \/ UNCHANGED <<run, late, stop>> /\ ~AtHandOut /\ (AtHandOut' => ~stop)
<1> USE DEF AtHandOut, taskVars, HandOut
<1>1. CASE StartSerial
  BY <1>1 DEF StartSerial
<1>2. CASE Submit
  BY <1>2 DEF Submit
<1>3. CASE ~StartSerial /\ ~Submit
  BY <1>3, Main DEF Main, Execute, Reject, Begin, AfterStartDelay, EnterLayer, CheckSerial,
     SkipSerial, RecordSerial, SerialRaises, CheckSubmit, EndSubmit, Collect, EndCollect,
     Drain, Interval, Conclude, WorkflowAutoClear
<1>4. QED
  BY <1>1, <1>2, <1>3

\* The stop event stays set, and the event is read before every hand-out.
LEMMA LateKeeps == ASSUME TypeOK, LateIsLast, [Next]_vars PROVE LateIsLast'
<1>1. CASE Main
  BY <1>1, MainHandsOut DEF LateIsLast
<1>2. CASE Stop
  BY <1>2 DEF Stop, LateIsLast, AtHandOut, mainVars, taskVars
<1>3. CASE ~Main /\ ~Stop
  BY <1>3, OthersNotLate DEF LateIsLast, AtHandOut
<1>4. QED
  BY <1>1, <1>2, <1>3

\* A step hands out nothing once a task was handed out late, and at most one task
\* when none was.
LEMMA StoppedStep ==
    ASSUME TypeOK, LateIsLast, stop, [Next]_vars
    PROVE  \/ Started' = Started
           \/ late = {} /\ \E t \in Task : Started' = Started \cup {t}
<1>1. CASE Main
  <2>1. CASE run' = run
    BY <2>1 DEF Started
  <2>2. CASE run' # run
    <3>1. PICK t : /\ AtHandOut
                   /\ \/ run' = [run EXCEPT ![t] = "start"]
                      \/ run' = [run EXCEPT ![t] = "queued"]
      BY <1>1, <2>2, MainHandsOut
    <3>2. late = {}
      BY <3>1 DEF LateIsLast
    <3>3. t \in Task
      BY <2>2, <3>1 DEF TypeOK
    <3>4. Started' = Started \cup {t}
      BY <3>1, <3>3 DEF TypeOK, Started
    <3>5. QED
      BY <3>2, <3>3, <3>4
  <2>3. QED
    BY <2>1, <2>2
<1>2. CASE Stop
  BY <1>2 DEF Stop
<1>3. CASE ~Main /\ ~Stop
  BY <1>3, OthersNotLate
<1>4. QED
  BY <1>1, <1>2, <1>3

\* What is handed out late is the last task handed out, in either kind of layer
\* (_execute_serial_layer, _execute_parallel_layer).
LEMMA LateInductive == Spec => []LateIsLast
<1>1. Init => LateIsLast
  BY DEF Init, LateIsLast
<1>2. TypeOK /\ LateIsLast /\ [Next]_vars => LateIsLast'
  BY LateKeeps
<1>3. QED
  BY <1>1, <1>2, TypeCorrect, PTL DEF Spec

\* After a stop at most one task is handed out, the one whose check of the event
\* came before the signal (_execute_serial_layer, _execute_parallel_layer).
THEOREM AtMostOneHandOut == Spec => AtMostOneAfterStop
<1>1. TypeOK /\ LateIsLast /\ [Next]_vars =>
        [stop => \/ Started' = Started
                 \/ late = {} /\ \E t \in Task : Started' = Started \cup {t}]_vars
  BY StoppedStep
<1>2. QED
  BY <1>1, TypeCorrect, LateInductive, PTL DEF Spec, AtMostOneAfterStop

-----------------------------------------------------------------------------
(* The tasks and the threads they leave behind, on top of IInv *)

Waiting == {"launch", "join", "sleep"}

\* The temporary file is there from its creation to the "finally" clause, and then
\* only if something went wrong with it.
FileWhileWaiting ==
    \A t \in Task : /\ run[t] \in Waiting => t \in temp
                    /\ t \in temp => run[t] \in Waiting \/ t \in litter

\* A case thread that has not ended belongs to the current attempt of a task that
\* is waiting for it, or that gave it up.
LiveIsCurrent ==
    \A t \in Task : \A k \in Attempt :
        Live(t, k) => /\ run[t] \in {"join", "returned"}
                      /\ k = CurrentAttempt(t)
                      /\ run[t] = "returned" => status[t] = "timeout"

\* Who returned has a status.
ReturnedHasStatus == \A t \in Task : run[t] = "returned" => status[t] \in TaskStatus

\* Tasks are in flight only while the main thread waits in their layer.
InFlightInLayer ==
    \A t \in Task : run[t] # "none" /\ ~Over(t) =>
        pc \in {"await", "submit", "offer", "collect", "drain"} /\ LayerOf[t] = layer

ParallelLayer == pc \in {"submit", "offer", "collect", "drain"} => ~IsSerial(layer)

\* An exception in a serial layer is about to end the workflow, or has.
RaisedEndsSerial ==
    \A t \in Task : run[t] = "raised" /\ IsSerial(LayerOf[t]) =>
        \/ pc = "await" /\ layer = LayerOf[t]
        \/ pc = "done" /\ outcome = "none"

\* The overall result comes after the layers, and the clean-up is the last step.
EndsInOrder ==
    /\ outcome # "none" => pc \in {"clear", "done"}
    /\ clear # "none" => pc = "done"

TInv ==
    /\ IInv /\ FileWhileWaiting /\ LiveIsCurrent /\ ReturnedHasStatus
    /\ InFlightInLayer /\ ParallelLayer /\ RaisedEndsSerial /\ EndsInOrder
    /\ SuccessIsComplete /\ ClearedUnlessAbandoned

-----------------------------------------------------------------------------
(* A step of TaskExecutor.execute *)

\* What a step of the activation of t does to t, and to the other tasks.
TaskMoves(t) ==
    /\ UNCHANGED <<mainVars, stop, late, fault>>
    /\ \A u \in Task : u # t =>
          /\ run'[u] = run[u] /\ status'[u] = status[u] /\ retries'[u] = retries[u]
          /\ (u \in temp' <=> u \in temp) /\ (u \in litter' <=> u \in litter)
          /\ thread'[u] = thread[u]
    /\ run[t] # "none" /\ ~Over(t) /\ run'[t] # "none"
    /\ run'[t] \in Waiting => t \in temp'
    /\ t \in temp' => (run'[t] \in Waiting \/ t \in litter')
    /\ \A k \in Attempt : Live(t, k)' =>
          /\ run'[t] \in {"join", "returned"}
          /\ k = CurrentAttempt(t)'
          /\ run'[t] = "returned" => status'[t] = "timeout"
    /\ run'[t] = "returned" => status'[t] \in TaskStatus

LEMMA RunTaskMoves ==
    ASSUME TypeOK, FileWhileWaiting, LiveIsCurrent, NEW t \in Task, RunTask(t)
    PROVE  TaskMoves(t)
<1>1. /\ run \in [Task -> RunState] /\ status \in [Task -> TaskStatus \cup {"none"}]
      /\ retries \in [Task -> 0 .. MaxRetry] /\ temp \subseteq Task /\ litter \subseteq Task
      /\ thread \in [Task -> [Attempt -> ThreadState]]
  BY DEF TypeOK
<1>2. /\ run[t] \in Waiting => t \in temp
      /\ t \in temp => run[t] \in Waiting \/ t \in litter
      /\ \A k \in Attempt : Live(t, k) =>
            /\ run[t] \in {"join", "returned"} /\ k = CurrentAttempt(t)
  BY DEF FileWhileWaiting, LiveIsCurrent
<1> USE <1>1, <1>2 DEF TaskMoves, Waiting, Over, Live, CurrentAttempt, taskVars, caseVars
<1>3. CASE PickUp(t) BY <1>3 DEF PickUp
<1>4. CASE DurationRaises(t) BY <1>4 DEF DurationRaises
<1>5. CASE CreateTempCaseFile(t) BY <1>5 DEF CreateTempCaseFile
<1>6. CASE TempCaseFileFails(t) BY <1>6 DEF TempCaseFileFails, TaskStatus
<1>7. CASE LaunchAttempt(t)
  <2>1. retries[t] + 1 \in Attempt
    BY BoundsAssumption DEF Attempt
  <2>2. /\ thread' = [thread EXCEPT ![t][retries[t] + 1] = "created"]
        /\ run[t] = "launch" /\ run' = [run EXCEPT ![t] = "join"]
        /\ UNCHANGED <<mainVars, stop, status, retries, temp, litter, late, fault>>
    BY <1>7 DEF LaunchAttempt
  <2>3. \A k \in Attempt : k # retries[t] + 1 => thread'[t][k] = thread[t][k]
    BY <2>1, <2>2
  <2>4. \A u \in Task : u # t => thread'[u] = thread[u]
    BY <2>1, <2>2
  <2>5. QED
    BY <2>1, <2>2, <2>3, <2>4
<1>8. CASE CaseSucceeded(t) BY <1>8 DEF CaseSucceeded, Return, TaskStatus
<1>9. CASE CaseFailed(t)
  <2>1. CASE retries[t] < RetryCount[t]
    BY <1>9, <2>1 DEF CaseFailed
  <2>2. CASE ~(retries[t] < RetryCount[t])
    BY <1>9, <2>2 DEF CaseFailed, Return, TaskStatus
  <2>3. QED
    BY <2>1, <2>2
<1>10. CASE CaseTimesOut(t) BY <1>10 DEF CaseTimesOut, Return, TaskStatus
<1>11. CASE RetrySleepOver(t) BY <1>11 DEF RetrySleepOver
<1>12. QED
  BY <1>3, <1>4, <1>5, <1>6, <1>7, <1>8, <1>9, <1>10, <1>11, RunTask(t) DEF RunTask

\* Such a step keeps the invariant.
LEMMA TaskMovesKeep ==
    ASSUME TInv, NEW t \in Task, TaskMoves(t), IInv'
    PROVE  TInv'
<1> USE DEF TInv
<1>1. /\ UNCHANGED <<pc, layer, next, results, outcome, clear, stop, fault>>
      /\ \A u \in Task : u # t =>
            /\ run'[u] = run[u] /\ status'[u] = status[u] /\ retries'[u] = retries[u]
            /\ (u \in temp' <=> u \in temp) /\ (u \in litter' <=> u \in litter)
            /\ thread'[u] = thread[u]
      /\ run[t] \notin {"none", "returned", "raised"} /\ run'[t] # "none"
      /\ run'[t] \in Waiting => t \in temp'
      /\ t \in temp' => (run'[t] \in Waiting \/ t \in litter')
      /\ \A k \in Attempt : Live(t, k)' =>
            /\ run'[t] \in {"join", "returned"}
            /\ k = CurrentAttempt(t)'
            /\ run'[t] = "returned" => status'[t] = "timeout"
      /\ run'[t] = "returned" => status'[t] \in TaskStatus
  BY DEF TaskMoves, mainVars, Over
<1>2. FileWhileWaiting'
  BY <1>1 DEF FileWhileWaiting
<1>3. LiveIsCurrent'
  <2>1. \A u \in Task : \A k \in Attempt :
          u # t => /\ Live(u, k)' <=> Live(u, k)
                  /\ CurrentAttempt(u)' = CurrentAttempt(u)
    BY <1>1 DEF Live, CurrentAttempt
  <2>2. QED
    BY <1>1, <2>1 DEF LiveIsCurrent
<1>4. ReturnedHasStatus'
  BY <1>1 DEF ReturnedHasStatus
<1>5. pc \in {"await", "submit", "offer", "collect", "drain"} /\ LayerOf[t] = layer
  BY <1>1 DEF InFlightInLayer, Over
<1>6. InFlightInLayer'
  BY <1>1, <1>5 DEF InFlightInLayer, Over
<1>7. ParallelLayer' /\ EndsInOrder'
  BY <1>1 DEF ParallelLayer, EndsInOrder, IsSerial
<1>8. RaisedEndsSerial'
  <2>1. \A u \in Task : IsSerial(LayerOf[u])' <=> IsSerial(LayerOf[u])
    BY DEF IsSerial
  <2>2. IsSerial(LayerOf[t]) => pc = "await"
    BY <1>5 DEF ParallelLayer
  <2>3. QED
    BY <1>1, <1>5, <2>1, <2>2 DEF RaisedEndsSerial
<1>9. SuccessIsComplete'
  BY <1>1, <1>5 DEF SuccessIsComplete, EndsInOrder
<1>10. ClearedUnlessAbandoned'
  BY <1>1, <1>5 DEF ClearedUnlessAbandoned
<1>11. QED
  BY <1>2, <1>3, <1>4, <1>6, <1>7, <1>8, <1>9, <1>10

-----------------------------------------------------------------------------
(* A step of a case thread *)

\* A case thread injects only while it is alive: after the end of the workflow that
\* means that its task timed out.
LEMMA CaseThreadKeeps ==
    ASSUME TInv, IInv', NEW t \in Task, NEW k \in Attempt, CaseThread(t, k)
    PROVE  TInv'
<1> USE DEF TInv
<1>1. /\ UNCHANGED <<pc, layer, next, results, outcome, clear, stop>>
      /\ UNCHANGED <<run, status, retries, temp, litter>>
  BY DEF CaseThread, LoadCase, Inject, CaseReturnsFalse, Recover, mainVars, taskVars
<1>2. Live(t, k)
  BY DEF CaseThread, LoadCase, Inject, CaseReturnsFalse, Recover, Live
<1>3. \A u \in Task : \A j \in Attempt : Live(u, j)' => Live(u, j)
  <2>1. thread \in [Task -> [Attempt -> ThreadState]]
    BY DEF IInv, TypeOK
  <2>2. \E s \in ThreadState : thread' = [thread EXCEPT ![t][k] = s]
    <3>1. CASE LoadCase(t, k) BY <3>1 DEF LoadCase, ThreadState
    <3>2. CASE Inject(t, k) BY <3>2 DEF Inject, ThreadState
    <3>3. CASE CaseReturnsFalse(t, k) BY <3>3 DEF CaseReturnsFalse, ThreadState
    <3>4. CASE Recover(t, k) BY <3>4 DEF Recover, ThreadState
    <3>5. QED
      BY <3>1, <3>2, <3>3, <3>4, CaseThread(t, k) DEF CaseThread
  <2>3. QED
    BY <1>2, <2>1, <2>2 DEF Live
<1>4. fault' \subseteq fault \cup {t}
  BY CaseThread(t, k) DEF CaseThread, LoadCase, Inject, CaseReturnsFalse, Recover
<1>5. FileWhileWaiting' /\ ReturnedHasStatus'
  BY <1>1 DEF FileWhileWaiting, ReturnedHasStatus
<1>6. LiveIsCurrent'
  BY <1>1, <1>3 DEF LiveIsCurrent, CurrentAttempt
<1>7. InFlightInLayer' /\ ParallelLayer' /\ RaisedEndsSerial' /\ EndsInOrder'
  BY <1>1 DEF InFlightInLayer, Over, ParallelLayer, IsSerial, RaisedEndsSerial, EndsInOrder
<1>8. SuccessIsComplete'
  BY <1>1 DEF SuccessIsComplete, Recorded, IsSerial
<1>9. ClearedUnlessAbandoned'
  <2>1. pc = "done" => status[t] = "timeout"
    BY <1>2 DEF LiveIsCurrent, InFlightInLayer, Over
  <2>2. QED
    BY <1>1, <1>4, <2>1 DEF ClearedUnlessAbandoned
<1>10. QED
  BY <1>5, <1>6, <1>7, <1>8, <1>9

-----------------------------------------------------------------------------
(* A step of the main thread *)

\* The main thread moves nothing but its own state and a task that it hands out.
LEMMA MainTouches ==
    ASSUME TInv, Main
    PROVE  /\ UNCHANGED <<stop, status, retries, temp, litter, thread>>
           /\ fault' \subseteq fault
           /\ \A t \in Task : \/ run'[t] = run[t]
                              \/ /\ run[t] = "none" /\ run'[t] \in {"start", "queued"}
                                 /\ AtHandOut /\ LayerOf[t] = layer
                                 /\ pc' \in {"await", "submit"} /\ layer' = layer
<1> USE DEF taskVars, caseVars
<1>1. /\ UNCHANGED <<stop, status, retries, temp, litter, thread>> /\ fault' \subseteq fault
  BY DEF Main, Execute, Reject, Begin, AfterStartDelay, EnterLayer, StartSerial, SkipSerial,
         RecordSerial, SerialRaises, Submit, EndSubmit, Collect, EndCollect, Drain, Interval,
         Conclude, WorkflowAutoClear, HandOut, CheckSerial, CheckSubmit
<1>2. run \in [Task -> RunState] /\ layer \in Nat /\ next \in Nat \ {0}
  BY LayerNumbers DEF TInv, IInv, TypeOK
<1>3. CASE StartSerial
  <2> DEFINE t == Layers[layer][1]
  <2>1. layer \in DOMAIN Layers
    BY <1>3 DEF StartSerial, TInv, IInv, LayerExists, InLayer
  <2>2. t \in LayerTasks(layer)
    BY <2>1, LayerNumbers, PlanLayers
  <2>3. t \in Task /\ LayerOf[t] = layer
    BY <2>1, <2>2, PlanLayers
  <2>4. run[t] = "none"
    BY <1>3, <2>3 DEF StartSerial, TInv, IInv, NotYet
  <2>5. /\ AtHandOut /\ pc' = "await" /\ layer' = layer
        /\ run' = [run EXCEPT ![t] = "start"]
    BY <1>3 DEF StartSerial, HandOut, AtHandOut
  <2> HIDE DEF t
  <2>6. QED
    BY <1>1, <1>2, <2>3, <2>4, <2>5
<1>4. CASE Submit
  <2> DEFINE t == Layers[layer][next]
  <2>1. layer \in DOMAIN Layers
    BY <1>4 DEF Submit, TInv, IInv, LayerExists, InLayer
  <2>2. next \in DOMAIN Layers[layer]
    BY <1>2, <1>4, <2>1, LayerNumbers DEF Submit, TInv, IInv, LayerExists
  <2>3. t \in Task /\ LayerOf[t] = layer
    BY <2>1, <2>2, PlanLayers
  <2>4. run[t] = "none"
    BY <1>2, <1>4, <2>2 DEF Submit, TInv, IInv, NotYet
  <2>5. /\ AtHandOut /\ pc' = "submit" /\ layer' = layer
        /\ run' = [run EXCEPT ![t] = "queued"]
    BY <1>4 DEF Submit, HandOut, AtHandOut
  <2> HIDE DEF t
  <2>6. QED
    BY <1>1, <1>2, <2>3, <2>4, <2>5
<1>5. CASE ~StartSerial /\ ~Submit
  <2>1. UNCHANGED run
    BY <1>5, Main DEF Main, Execute, Reject, Begin, AfterStartDelay, EnterLayer, SkipSerial,
           RecordSerial, SerialRaises, EndSubmit, Collect, EndCollect, Drain, Interval,
           Conclude, WorkflowAutoClear, CheckSerial, CheckSubmit
  <2>2. QED
    BY <1>1, <2>1
<1>6. QED
  BY <1>3, <1>4, <1>5

\* When the main thread leaves a layer, its tasks are over.
LEMMA MainQuiet == ASSUME TInv, Main, IInv' PROVE InFlightInLayer'
<1>1. \A t \in Task : \/ run'[t] = run[t]
                      \/ pc' \in {"await", "submit"} /\ LayerOf[t] = layer'
  BY MainTouches
<1> USE DEF TInv
<1>2. CASE RecordSerial \/ SerialRaises
  <2>1. /\ pc = "await" /\ layer' = layer /\ run' = run
        /\ run[Layers[layer][1]] \in {"returned", "raised"}
    BY <1>2 DEF RecordSerial, SerialRaises, taskVars
  <2>2. layer \in DOMAIN Layers /\ Len(Layers[layer]) = 1
    BY <2>1 DEF IInv, LayerExists, InLayer, IsSerial
  <2>3. DOMAIN Layers[layer] = {1}
    BY <2>2, LayerNumbers
  <2>4. \A t \in Task : LayerOf[t] = layer => t = Layers[layer][1]
    BY <2>3, PlanLayers DEF LayerTasks
  <2>5. QED
    BY <2>1, <2>4 DEF InFlightInLayer, Over
<1>3. CASE Drain
  <2>1. /\ pc = "drain" /\ layer' = layer /\ run' = run
        /\ \A t \in LayerTasks(layer) \cap Started : Over(t)
    BY <1>3 DEF Drain, taskVars
  <2>2. \A t \in Task : LayerOf[t] = layer /\ run[t] # "none" => Over(t)
    BY <2>1, PlanLayers DEF Started
  <2>3. QED
    BY <2>1, <2>2 DEF InFlightInLayer, Over
<1>4. CASE Interval \/ Conclude \/ WorkflowAutoClear \/ SkipSerial \/ EnterLayer
           \/ CheckSerial \/ Reject \/ Begin \/ AfterStartDelay
  <2>1. pc \notin {"await", "submit", "offer", "collect", "drain"} /\ run' = run
    BY <1>4 DEF Interval, Conclude, WorkflowAutoClear, SkipSerial, EnterLayer, CheckSerial, Reject,
                Begin, AfterStartDelay, taskVars
  <2>2. QED
    BY <2>1 DEF InFlightInLayer, Over
<1>5. CASE StartSerial \/ CheckSubmit \/ Submit \/ EndSubmit \/ Collect \/ EndCollect
  <2>1. /\ pc' \in {"await", "submit", "offer", "collect", "drain"} /\ layer' = layer
    BY <1>5 DEF StartSerial, CheckSubmit, Submit, HandOut, EndSubmit, Collect, EndCollect
  <2>2. QED
    BY <1>1, <2>1 DEF InFlightInLayer, Over
<1>6. QED
  BY <1>2, <1>3, <1>4, <1>5, Main DEF Main, Execute

\* Every step of the main thread keeps the invariant.
LEMMA MainKeepsTasks == ASSUME TInv, Main PROVE TInv'
<1> USE DEF TInv
<1>1. IInv'
  BY MainKeeps
<1>2. /\ UNCHANGED <<stop, status, retries, temp, litter, thread>>
      /\ fault' \subseteq fault
      /\ \A t \in Task : \/ run'[t] = run[t]
                         \/ /\ run[t] = "none" /\ run'[t] \in {"start", "queued"}
                            /\ AtHandOut
  BY MainTouches
<1>3. FileWhileWaiting' /\ ReturnedHasStatus'
  BY <1>2 DEF FileWhileWaiting, Waiting, ReturnedHasStatus
<1>4. LiveIsCurrent'
  BY <1>2 DEF LiveIsCurrent, Live, CurrentAttempt
<1>5. InFlightInLayer'
  BY <1>1, MainQuiet
<1>6. ParallelLayer'
  BY Main DEF Main, Execute, Reject, Begin, AfterStartDelay, EnterLayer, StartSerial,
         SkipSerial, RecordSerial, SerialRaises, Submit, EndSubmit, Collect, EndCollect, Drain,
         Interval, Conclude, WorkflowAutoClear, ParallelLayer, IsSerial, HandOut, CheckSerial,
         CheckSubmit
<1>7. EndsInOrder'
  BY Main DEF Main, Execute, Reject, Begin, AfterStartDelay, EnterLayer, StartSerial,
         SkipSerial, RecordSerial, SerialRaises, Submit, EndSubmit, Collect, EndCollect, Drain,
         Interval, Conclude, WorkflowAutoClear, EndsInOrder, HandOut, CheckSerial, CheckSubmit
<1>8. RaisedEndsSerial'
  <2>1. \A t \in Task : run'[t] = "raised" => run[t] = "raised"
    BY <1>2
  <2>2. \A t \in Task : IsSerial(LayerOf[t])' <=> IsSerial(LayerOf[t])
    BY DEF IsSerial
  <2>3. CASE SerialRaises
    <3>1. pc = "await" /\ pc' = "done" /\ outcome' = outcome
      BY <2>3 DEF SerialRaises
    <3>2. QED
      BY <2>1, <2>2, <3>1 DEF RaisedEndsSerial, EndsInOrder
  <2>4. CASE RecordSerial
    <3>1. pc = "await" /\ run[Layers[layer][1]] = "returned"
      BY <2>4 DEF RecordSerial
    <3>2. layer \in DOMAIN Layers /\ Len(Layers[layer]) = 1
      BY <3>1 DEF IInv, LayerExists, InLayer, IsSerial
    <3>3. DOMAIN Layers[layer] = {1}
      BY <3>2, LayerNumbers
    <3>4. \A t \in Task : LayerOf[t] = layer => t = Layers[layer][1]
      BY <3>3, PlanLayers DEF LayerTasks
    <3>5. QED
      BY <2>1, <2>2, <3>1, <3>4 DEF RaisedEndsSerial
  <2>5. CASE ~SerialRaises /\ ~RecordSerial
    <3>1. pc \notin {"await", "done"}
      BY <2>5, Main DEF Main, Execute, Reject, Begin, AfterStartDelay, EnterLayer, StartSerial,
             SkipSerial, Submit, EndSubmit, Collect, EndCollect, Drain, Interval, Conclude,
             WorkflowAutoClear, HandOut, CheckSerial, CheckSubmit
    <3>2. QED
      BY <2>1, <2>2, <3>1 DEF RaisedEndsSerial
  <2>6. QED
    BY <2>3, <2>4, <2>5
<1>9. SuccessIsComplete'
  <2>1. CASE Conclude
    <3>1. /\ UNCHANGED <<results, stop, run, status, layer>> /\ pc = "layer"
          /\ layer > Len(Layers) \/ stop
          /\ outcome' = "success" => ~AnyFailure
      BY <2>1 DEF Conclude, taskVars
    <3>2. Recorded' = Recorded /\ \A t \in Task : IsSerial(LayerOf[t])' <=> IsSerial(LayerOf[t])
      BY <3>1 DEF Recorded, IsSerial
    <3>3. ASSUME ~stop, ~AnyFailure, NEW t \in Task
          PROVE  \/ t \in Recorded /\ status[t] = "success"
                 \/ run[t] = "raised" /\ ~IsSerial(LayerOf[t])
      <4>1. LayerOf[t] < layer
        <5>1. LayerOf[t] \in DOMAIN Layers
          BY PlanLayers
        <5>2. layer \in Nat
          BY LayerNumbers DEF IInv, TypeOK
        <5>3. QED
          BY <3>1, <3>3, <5>1, <5>2, LayerNumbers
      <4>2. t \in Settled
        BY <3>3, <4>1 DEF IInv, LeftBehind, AtHandOut
      <4>3. CASE t \in Recorded
        BY <3>3, <4>3 DEF IInv, RecordedReturned, ReturnedHasStatus, TaskStatus, AnyFailure
      <4>4. CASE run[t] = "raised"
        BY <3>1, <4>4 DEF RaisedEndsSerial
      <4>5. QED
        BY <4>2, <4>3, <4>4 DEF Settled
    <3>4. QED
      BY <3>1, <3>2, <3>3 DEF SuccessIsComplete
  <2>2. CASE WorkflowAutoClear
    BY <2>2 DEF WorkflowAutoClear, taskVars, SuccessIsComplete, Recorded, IsSerial
  <2>3. CASE ~Conclude /\ ~WorkflowAutoClear
    <3>1. outcome' # "success"
      BY <2>3, Main DEF Main, Execute, Reject, Begin, AfterStartDelay, EnterLayer, StartSerial,
             SkipSerial, RecordSerial, SerialRaises, Submit, EndSubmit, Collect, EndCollect,
             Drain, Interval, EndsInOrder, HandOut, CheckSerial, CheckSubmit
    <3>2. QED
      BY <3>1 DEF SuccessIsComplete
  <2>4. QED
    BY <2>1, <2>2, <2>3
<1>10. ClearedUnlessAbandoned'
  <2>1. CASE WorkflowAutoClear
    BY <2>1 DEF WorkflowAutoClear, ClearedUnlessAbandoned
  <2>2. CASE ~WorkflowAutoClear
    <3>1. clear' = clear /\ pc # "done"
      BY <2>2, Main DEF Main, Execute, Reject, Begin, AfterStartDelay, EnterLayer, StartSerial,
             SkipSerial, RecordSerial, SerialRaises, Submit, EndSubmit, Collect, EndCollect,
             Drain, Interval, Conclude, HandOut, CheckSerial, CheckSubmit
    <3>2. clear' # "ok"
      BY <3>1 DEF EndsInOrder
    <3>3. QED
      BY <3>2 DEF ClearedUnlessAbandoned
  <2>3. QED
    BY <2>1, <2>2
<1>11. QED
  BY <1>1, <1>3, <1>4, <1>5, <1>6, <1>7, <1>8, <1>9, <1>10

-----------------------------------------------------------------------------
(* The invariant *)

\* A signal weakens what is promised without a stop, and touches nothing else.
LEMMA StopKeepsTasks == ASSUME TInv, Stop PROVE TInv'
<1> USE DEF TInv
<1>1. IInv'
  BY StopKeeps
<1>2. /\ stop' = TRUE
      /\ UNCHANGED <<pc, layer, outcome, clear, results, run, status, retries, temp, litter,
                     thread, fault>>
  BY DEF Stop, mainVars, taskVars, caseVars
<1>3. FileWhileWaiting' /\ ReturnedHasStatus'
  BY <1>2 DEF FileWhileWaiting, ReturnedHasStatus
<1>4. LiveIsCurrent'
  BY <1>2 DEF LiveIsCurrent, Live, CurrentAttempt
<1>5. InFlightInLayer' /\ ParallelLayer' /\ RaisedEndsSerial' /\ EndsInOrder'
  BY <1>2 DEF InFlightInLayer, Over, ParallelLayer, IsSerial, RaisedEndsSerial, EndsInOrder
<1>6. SuccessIsComplete' /\ ClearedUnlessAbandoned'
  BY <1>2 DEF SuccessIsComplete, ClearedUnlessAbandoned
<1>7. QED
  BY <1>1, <1>3, <1>4, <1>5, <1>6

\* A step that changes nothing keeps everything.
LEMMA StutterKeepsTasks == ASSUME TInv, UNCHANGED vars PROVE TInv'
<1> USE DEF TInv
<1>1. IInv'
  BY StutterKeeps
<1>2. UNCHANGED <<pc, layer, outcome, clear, results, stop,
                  run, status, retries, temp, litter, thread, fault>>
  BY DEF vars, mainVars, taskVars, caseVars
<1>3. FileWhileWaiting' /\ ReturnedHasStatus'
  BY <1>2 DEF FileWhileWaiting, ReturnedHasStatus
<1>4. LiveIsCurrent'
  BY <1>2 DEF LiveIsCurrent, Live, CurrentAttempt
<1>5. InFlightInLayer' /\ ParallelLayer' /\ RaisedEndsSerial' /\ EndsInOrder'
  BY <1>2 DEF InFlightInLayer, Over, ParallelLayer, IsSerial, RaisedEndsSerial, EndsInOrder
<1>6. SuccessIsComplete' /\ ClearedUnlessAbandoned'
  BY <1>2 DEF SuccessIsComplete, Recorded, IsSerial, ClearedUnlessAbandoned
<1>7. QED
  BY <1>1, <1>3, <1>4, <1>5, <1>6

\* At the start nothing runs and nothing is in place.
LEMMA InitTasks == Init => TInv
<1> SUFFICES ASSUME Init PROVE TInv
  OBVIOUS
<1>1. IInv
  BY InitInv
<1>2. /\ FileWhileWaiting /\ LiveIsCurrent /\ ReturnedHasStatus /\ InFlightInLayer
      /\ ParallelLayer /\ RaisedEndsSerial /\ EndsInOrder
  BY DEF Init, FileWhileWaiting, Waiting, LiveIsCurrent, Live, ReturnedHasStatus,
         InFlightInLayer, ParallelLayer, RaisedEndsSerial, EndsInOrder
<1>3. SuccessIsComplete /\ ClearedUnlessAbandoned
  BY DEF Init, SuccessIsComplete, ClearedUnlessAbandoned
<1>4. QED
  BY <1>1, <1>2, <1>3 DEF TInv

\* Every step keeps the invariant.
LEMMA NextKeepsTasks == ASSUME TInv, [Next]_vars PROVE TInv'
<1>1. IInv' /\ IInv
  BY NextKeeps DEF TInv
<1>2. CASE Main
  BY <1>2, MainKeepsTasks
<1>3. CASE Stop
  BY <1>3, StopKeepsTasks
<1>4. ASSUME NEW t \in Task, RunTask(t) PROVE TInv'
  <2>1. TaskMoves(t)
    BY <1>1, <1>4, RunTaskMoves DEF TInv, IInv
  <2>2. QED
    BY <1>1, <2>1, TaskMovesKeep
<1>5. ASSUME NEW t \in Task, NEW k \in Attempt, CaseThread(t, k) PROVE TInv'
  BY <1>1, <1>5, CaseThreadKeeps
<1>6. CASE UNCHANGED vars
  BY <1>6, StutterKeepsTasks
<1>7. CASE Terminated
  BY <1>7, StutterKeepsTasks DEF Terminated
<1>8. QED
  BY <1>2, <1>3, <1>4, <1>5, <1>6, <1>7 DEF Next

\* The invariant of the tasks holds in every reachable state.
LEMMA TasksInductive == Spec => []TInv
<1>1. Init => TInv
  BY InitTasks
<1>2. TInv /\ [Next]_vars => TInv'
  BY NextKeepsTasks
<1>3. QED
  BY <1>1, <1>2, PTL DEF Spec

-----------------------------------------------------------------------------
(* Theorems *)

\* A thread that outlives its task was given up on, and is the only one of the
\* task, for every number of retries (_execute_with_timeout).
THEOREM AbandonedThreads == Spec => []AbandonedIsTimeout
<1>1. TInv => AbandonedIsTimeout
  BY DEF TInv, LiveIsCurrent, AbandonedIsTimeout
<1>2. QED
  BY <1>1, TasksInductive, PTL

\* The temporary case file outlives every wait for a thread and no return
\* (TaskExecutor.execute).
THEOREM TempFiles == Spec => []TempFileDiscipline
<1>1. TInv => TempFileDiscipline
  BY DEF TInv, FileWhileWaiting, Waiting, TempFileDiscipline
<1>2. QED
  BY <1>1, TasksInductive, PTL

\* Result, report and auto_clear come after the last task (WorkflowExecutor.execute).
THEOREM QuietAtEnd == Spec => []QuiescentAtEnd
<1>1. TInv => QuiescentAtEnd
  BY DEF TInv, InFlightInLayer, QuiescentAtEnd
<1>2. QED
  BY <1>1, TasksInductive, PTL

\* SUCCESS without a stop stands for a SUCCESS of every task that did not raise in
\* a parallel layer (WorkflowExecutor.execute).
THEOREM CompleteSuccess == Spec => []SuccessIsComplete
<1>1. TInv => SuccessIsComplete
  BY DEF TInv
<1>2. QED
  BY <1>1, TasksInductive, PTL

\* After a complete auto_clear only abandoned threads have faults in place
\* (_execute_workflow_auto_clear).
THEOREM OnlyAbandonedRemain == Spec => []ClearedUnlessAbandoned
<1>1. TInv => ClearedUnlessAbandoned
  BY DEF TInv
<1>2. QED
  BY <1>1, TasksInductive, PTL

-----------------------------------------------------------------------------
(* The workflow executor implements LayeredPlan: for every plan, pool size *)
(* and retry count, each of its steps is a step of the promise, or none.   *)

\* The refinement mapping's verdict on a task.
VerdictOf == [t \in Task |-> IF t \in Recorded THEN status[t]
                             ELSE IF t \in Settled THEN "lost" ELSE "none"]

\* Before the first layer nothing has been handed out.
NothingBefore == pc \in {"start", "delay"} => layer = 1 /\ Started = {}

RInv == TInv /\ NothingBefore /\ LateIsLast

\* The main thread hands out tasks only inside a layer, and never goes back.
LEMMA BeforeKeeps == ASSUME RInv, [Next]_vars PROVE RInv'
<1>1. TInv'
  BY NextKeepsTasks DEF RInv
<1>2. NothingBefore'
  <2> USE DEF NothingBefore
  <2>1. CASE Main
    <3>1. pc' \in {"start", "delay"} => pc = "start" /\ layer' = layer /\ run' = run
      BY <2>1 DEF Main, Execute, Reject, Begin, AfterStartDelay, EnterLayer, StartSerial,
             SkipSerial, RecordSerial, SerialRaises, Submit, EndSubmit, Collect, EndCollect,
             Drain, Interval, Conclude, WorkflowAutoClear, taskVars, HandOut, CheckSerial,
             CheckSubmit
    <3>2. QED
      BY <3>1 DEF RInv, Started
  <2>2. CASE Stop \/ Terminated \/ UNCHANGED vars
    BY <2>2 DEF RInv, Stop, Terminated, vars, mainVars, taskVars, Started
  <2>3. ASSUME NEW t \in Task, RunTask(t) PROVE NothingBefore'
    <3>1. TaskProgress
      BY <2>3, RunTaskProgress DEF RInv, TInv, IInv
    <3>2. QED
      BY <3>1 DEF RInv, TaskProgress, Started
  <2>4. ASSUME NEW t \in Task, NEW k \in Attempt, CaseThread(t, k) PROVE NothingBefore'
    <3>1. TaskProgress
      BY <2>4, CaseThreadProgress DEF RInv, TInv, IInv
    <3>2. QED
      BY <3>1 DEF RInv, TaskProgress, Started
  <2>5. QED
    BY <2>1, <2>2, <2>3, <2>4 DEF Next
<1>3. LateIsLast'
  BY LateKeeps DEF RInv, TInv, IInv
<1>4. QED
  BY <1>1, <1>2, <1>3 DEF RInv

-----------------------------------------------------------------------------
(* Verdicts *)

\* A task has a verdict exactly when it is settled.
LEMMA SettledHasVerdict ==
    ASSUME TInv, NEW t \in Task
    PROVE  /\ VerdictOf[t] # "none" <=> t \in Settled
           /\ VerdictOf[t] \in {"failed", "timeout"} <=>
                 t \in Recorded /\ status[t] \in {"failed", "timeout"}
<1>1. t \in Recorded => status[t] \in TaskStatus
  BY DEF TInv, IInv, RecordedReturned, ReturnedHasStatus
<1>2. t \in Recorded => t \in Settled
  BY DEF Settled
<1>3. QED
  BY <1>1, <1>2 DEF VerdictOf, TaskStatus

\* As long as nothing is settled and what is recorded keeps its status, so do the
\* verdicts.
LEMMA VerdictsStay ==
    ASSUME Recorded' = Recorded, Settled' = Settled,
           \A t \in Recorded : status'[t] = status[t]
    PROVE  VerdictOf' = VerdictOf
  BY DEF VerdictOf

\* Recording the result of a task that returned is the verdict on it.
LEMMA RecordIsVerdict ==
    ASSUME TInv, NEW t \in Task, t \notin Recorded, run[t] = "returned",
           Recorded' = Recorded \cup {t}, UNCHANGED <<run, status>>
    PROVE  /\ VerdictOf[t] = "none" /\ status[t] \in TaskStatus
           /\ VerdictOf' = [VerdictOf EXCEPT ![t] = status[t]]
<1>1. Settled' = Settled \cup {t} /\ t \notin Settled
  BY DEF Settled
<1>2. VerdictOf[t] = "none" /\ status[t] \in TaskStatus
  BY <1>1 DEF VerdictOf, Settled, TInv, ReturnedHasStatus
<1>3. VerdictOf' = [VerdictOf EXCEPT ![t] = status[t]]
  BY <1>1 DEF VerdictOf
<1>4. QED
  BY <1>2, <1>3

-----------------------------------------------------------------------------
(* The steps *)

PromiseStep ==
    \/ Promise!Next
    \/ UNCHANGED <<Started, VerdictOf, stop, late, outcome>>

\* Handing out a task is the promise's start of it.
LEMMA HandOutStarts ==
    ASSUME RInv, AtHandOut, layer \in DOMAIN Layers,
           NEW t \in LayerTasks(layer), run[t] = "none",
           NEW s \in {"start", "queued"}, run' = [run EXCEPT ![t] = s],
           late' = IF stop THEN late \cup {t} ELSE late,
           UNCHANGED <<results, status, stop, outcome>>
    PROVE  Promise!Next
<1>1. t \in Task /\ LayerOf[t] = layer
  BY PlanLayers
<1>2. run \in [Task -> RunState]
  BY DEF RInv, TInv, IInv, TypeOK
<1>3. Recorded' = Recorded /\ Settled' = Settled
  BY <1>1, <1>2 DEF Recorded, Settled
<1>4. VerdictOf' = VerdictOf
  BY <1>3, VerdictsStay
<1>5. Started' = Started \cup {t} /\ t \notin Started
  BY <1>1, <1>2 DEF Started
<1>6. \A u \in Task : LayerOf[u] < LayerOf[t] => VerdictOf[u] # "none"
  BY <1>1, SettledHasVerdict DEF RInv, TInv, IInv, LeftBehind, AtHandOut
<1>7. outcome = "none" /\ late = {}
  BY DEF RInv, TInv, EndsInOrder, LateIsLast, AtHandOut
<1>8. Promise!Start(t)
  BY <1>4, <1>5, <1>6, <1>7 DEF Promise!Start, VerdictOf
<1>9. QED
  BY <1>1, <1>8 DEF Promise!Next

\* A verdict is given while the workflow runs.
LEMMA VerdictJudges ==
    ASSUME NEW t \in Task, NEW v \in {"success", "failed", "timeout", "lost"},
           outcome = "none", t \in Started, VerdictOf[t] = "none",
           VerdictOf' = [VerdictOf EXCEPT ![t] = v],
           Started' = Started, UNCHANGED <<stop, late, outcome>>
    PROVE  Promise!Next
<1>1. v \in Promise!Verdicts
  BY DEF Promise!Verdicts
<1>2. Promise!Judge(t, v)
  BY DEF Promise!Judge, VerdictOf
<1>3. QED
  BY <1>1, <1>2 DEF Promise!Next

\* Every step of the main thread keeps the promise.
LEMMA MainRefines == ASSUME RInv, Main PROVE PromiseStep
<1>1. layer \in Nat /\ next \in Nat \ {0} /\ run \in [Task -> RunState] /\ Recorded \subseteq Task
  BY LayerNumbers DEF RInv, TInv, IInv, TypeOK, Recorded
<1>2. pc \notin {"clear", "done"} => outcome = "none"
  BY DEF RInv, TInv, EndsInOrder
<1>3. CASE Reject \/ (AfterStartDelay /\ stop)
  <2>1. /\ UNCHANGED <<results, run, status, stop, late>> /\ pc \in {"start", "delay"}
        /\ outcome' = "failed" \/ (stop /\ outcome' = "skipped")
    BY <1>3 DEF Reject, AfterStartDelay, taskVars
  <2>2. Recorded' = Recorded /\ Settled' = Settled /\ Started' = Started /\ Started = {}
    BY <2>1 DEF Recorded, Settled, Started, RInv, NothingBefore
  <2>3. VerdictOf' = VerdictOf
    BY <2>1, <2>2, VerdictsStay
  <2>4. Promise!Refuse
    BY <1>2, <2>1, <2>2, <2>3 DEF Promise!Refuse, VerdictOf
  <2>5. QED
    BY <2>4 DEF PromiseStep, Promise!Next
<1>4. CASE StartSerial
  <2>1. /\ pc = "call" /\ AtHandOut /\ run' = [run EXCEPT ![Layers[layer][1]] = "start"]
        /\ late' = IF stop THEN late \cup {Layers[layer][1]} ELSE late
        /\ UNCHANGED <<results, status, stop, outcome>>
    BY <1>4 DEF StartSerial, HandOut, AtHandOut
  <2>2. layer \in DOMAIN Layers
    BY <2>1 DEF RInv, TInv, IInv, LayerExists, InLayer
  <2>3. Layers[layer][1] \in LayerTasks(layer)
    BY <2>2, LayerNumbers, PlanLayers
  <2>4. run[Layers[layer][1]] = "none"
    BY <2>1, <2>2, <2>3, PlanLayers DEF RInv, TInv, IInv, NotYet
  <2>5. QED
    BY <2>1, <2>2, <2>3, <2>4, HandOutStarts DEF PromiseStep
<1>5. CASE Submit
  <2>1. /\ pc = "offer" /\ AtHandOut /\ run' = [run EXCEPT ![Layers[layer][next]] = "queued"]
        /\ late' = IF stop THEN late \cup {Layers[layer][next]} ELSE late
        /\ next <= Len(Layers[layer]) /\ UNCHANGED <<results, status, stop, outcome>>
    BY <1>5 DEF Submit, HandOut, AtHandOut, RInv, TInv, IInv, LayerExists
  <2>2. layer \in DOMAIN Layers
    BY <2>1 DEF RInv, TInv, IInv, LayerExists, InLayer
  <2>3. next \in DOMAIN Layers[layer]
    BY <1>1, <2>1, <2>2, LayerNumbers
  <2>4. Layers[layer][next] \in LayerTasks(layer)
    BY <2>2, <2>3, PlanLayers
  <2>5. run[Layers[layer][next]] = "none"
    BY <1>1, <2>1, <2>3 DEF RInv, TInv, IInv, NotYet
  <2>6. QED
    BY <2>1, <2>2, <2>4, <2>5, HandOutStarts DEF PromiseStep
<1>6. CASE RecordSerial \/ Collect
  <2>1. PICK t \in LayerTasks(layer) :
          /\ t \notin Recorded /\ run[t] = "returned" /\ results' = Append(results, t)
    <3>1. CASE RecordSerial
      <4>1. /\ pc = "await" /\ run[Layers[layer][1]] = "returned"
            /\ results' = Append(results, Layers[layer][1])
        BY <3>1 DEF RecordSerial
      <4>2. layer \in DOMAIN Layers /\ Layers[layer][1] \notin Recorded
        BY <4>1 DEF RInv, TInv, IInv, LayerExists, InLayer, HandedOut
      <4>3. Layers[layer][1] \in LayerTasks(layer)
        BY <4>2, LayerNumbers, PlanLayers
      <4>4. QED
        BY <4>1, <4>2, <4>3
    <3>2. CASE Collect
      BY <3>2 DEF Collect
    <3>3. QED
      BY <1>6, <3>1, <3>2
  <2>2. UNCHANGED <<run, status, stop, late, outcome>> /\ pc \in {"await", "collect"}
    BY <1>6 DEF RecordSerial, Collect, taskVars
  <2>3. t \in Task
    BY <2>2, PlanLayers DEF RInv, TInv, IInv, LayerExists, InLayer
  <2>4. Recorded' = Recorded \cup {t}
    BY <2>1, <2>3, AppendResult DEF RInv, TInv, IInv
  <2>5. /\ VerdictOf[t] = "none" /\ status[t] \in TaskStatus
        /\ VerdictOf' = [VerdictOf EXCEPT ![t] = status[t]]
    BY <2>1, <2>2, <2>3, <2>4, RecordIsVerdict DEF RInv
  <2>6. t \in Started /\ Started' = Started
    BY <2>1, <2>2, <2>3 DEF Started
  <2>7. QED
    BY <1>2, <2>2, <2>3, <2>5, <2>6, VerdictJudges DEF PromiseStep, TaskStatus
<1>7. CASE Conclude
  <2>1. /\ UNCHANGED <<results, run, status, stop, late>> /\ pc = "layer"
        /\ layer > Len(Layers) \/ stop
        /\ outcome' = IF AnyFailure THEN "failed" ELSE "success"
    BY <1>7 DEF Conclude, taskVars
  <2>2. Recorded' = Recorded /\ Settled' = Settled /\ Started' = Started
    BY <2>1 DEF Recorded, Settled, Started
  <2>3. VerdictOf' = VerdictOf
    BY <2>1, <2>2, VerdictsStay
  <2>4. stop \/ \A t \in Task : VerdictOf[t] # "none"
    <3>1. layer > Len(Layers) => \A t \in Task : LayerOf[t] < layer
      BY <1>1, PlanLayers, LayerNumbers
    <3>2. QED
      BY <2>1, <3>1, SettledHasVerdict DEF RInv, TInv, IInv, LeftBehind, AtHandOut
  <2>5. AnyFailure <=> \E t \in Task : VerdictOf[t] \in {"failed", "timeout"}
    BY <1>1, SettledHasVerdict DEF AnyFailure, RInv
  <2>6. Promise!Finish
    BY <1>2, <2>1, <2>2, <2>3, <2>4, <2>5 DEF Promise!Finish, VerdictOf
  <2>7. QED
    BY <2>6 DEF PromiseStep, Promise!Next
<1>8. CASE \/ Begin \/ (AfterStartDelay /\ ~stop) \/ EnterLayer \/ SkipSerial \/ SerialRaises
           \/ EndSubmit \/ EndCollect \/ Drain \/ Interval \/ WorkflowAutoClear
           \/ CheckSerial \/ CheckSubmit
  <2>1. UNCHANGED <<results, run, status, stop, late, outcome>>
    BY <1>8 DEF Begin, AfterStartDelay, EnterLayer, SkipSerial, SerialRaises, EndSubmit,
         CheckSerial, CheckSubmit, EndCollect, Drain, Interval, WorkflowAutoClear, taskVars, RInv,
         TInv, IInv, RecordedReturned
  <2>2. Recorded' = Recorded /\ Settled' = Settled /\ Started' = Started
    BY <2>1 DEF Recorded, Settled, Started
  <2>3. QED
    BY <2>1, <2>2, VerdictsStay DEF PromiseStep
<1>9. QED
  BY <1>3, <1>4, <1>5, <1>6, <1>7, <1>8, Main DEF Main, Execute

\* So does every step of a task: only an exception is a verdict, "lost".
LEMMA TaskRefines == ASSUME RInv, NEW t \in Task, RunTask(t) PROVE PromiseStep
<1>1. TaskMoves(t) /\ TaskProgress
  BY RunTaskMoves, RunTaskProgress DEF RInv, TInv, IInv
<1>2. /\ UNCHANGED <<results, stop, late, outcome>>
      /\ \A u \in Task : u # t => run'[u] = run[u] /\ status'[u] = status[u]
      /\ run[t] \notin {"none", "returned", "raised"}
  BY <1>1 DEF TaskMoves, mainVars, Over
<1>3. /\ Recorded' = Recorded /\ Started' = Started
      /\ t \notin Recorded /\ t \notin Settled /\ t \in Started
  BY <1>1, <1>2 DEF TaskProgress, Recorded, Started, Settled, RInv, TInv, IInv, RecordedReturned
<1>4. outcome = "none"
  BY <1>2 DEF RInv, TInv, InFlightInLayer, Over, EndsInOrder
<1>5. Recorded \subseteq Task
  BY DEF RInv, TInv, IInv, TypeOK, Recorded
<1>6. CASE run'[t] = "raised"
  <2>1. Settled' = Settled \cup {t}
    BY <1>2, <1>3, <1>6 DEF Settled
  <2>2. VerdictOf[t] = "none" /\ VerdictOf' = [VerdictOf EXCEPT ![t] = "lost"]
    BY <1>2, <1>3, <2>1 DEF VerdictOf
  <2>3. QED
    BY <1>2, <1>3, <1>4, <2>2, VerdictJudges DEF PromiseStep
<1>7. CASE run'[t] # "raised"
  <2>1. Settled' = Settled
    BY <1>2, <1>3, <1>7 DEF Settled
  <2>2. \A u \in Recorded : status'[u] = status[u]
    BY <1>2, <1>3, <1>5
  <2>3. QED
    BY <1>2, <1>3, <2>1, <2>2, VerdictsStay DEF PromiseStep
<1>8. QED
  BY <1>6, <1>7

\* Every step of the executor is a step of the promise or changes nothing of it.
LEMMA NextRefines == ASSUME RInv, [Next]_vars PROVE PromiseStep
<1>1. CASE Main
  BY <1>1, MainRefines
<1>2. CASE Stop
  <2>1. /\ ~stop /\ stop' = TRUE /\ UNCHANGED <<results, run, status, late, outcome>>
    BY <1>2 DEF Stop, mainVars, taskVars
  <2>2. Recorded' = Recorded /\ Settled' = Settled /\ Started' = Started
    BY <2>1 DEF Recorded, Settled, Started
  <2>3. VerdictOf' = VerdictOf
    BY <2>1, <2>2, VerdictsStay
  <2>4. Promise!RequestStop
    BY <2>1, <2>2, <2>3 DEF Promise!RequestStop, VerdictOf
  <2>5. QED
    BY <2>4 DEF PromiseStep, Promise!Next
<1>3. ASSUME NEW t \in Task, RunTask(t) PROVE PromiseStep
  BY <1>3, TaskRefines
<1>4. CASE UNCHANGED vars \/ Terminated \/ \E t \in Task, k \in Attempt : CaseThread(t, k)
  <2>1. UNCHANGED <<results, run, status, stop, late, outcome>>
    BY <1>4 DEF vars, Terminated, CaseThread, LoadCase, Inject, CaseReturnsFalse, Recover,
           mainVars, taskVars
  <2>2. Recorded' = Recorded /\ Settled' = Settled /\ Started' = Started
    BY <2>1 DEF Recorded, Settled, Started
  <2>3. QED
    BY <2>1, <2>2, VerdictsStay DEF PromiseStep
<1>5. QED
  BY <1>1, <1>2, <1>3, <1>4 DEF Next

-----------------------------------------------------------------------------
(* The theorem *)

\* The workflow executor (executor.py) keeps the promise of LayeredPlan.
THEOREM KeepsPromise == Spec => ImplementsPlan
<1>1. Init => RInv /\ Promise!Init
  <2> SUFFICES ASSUME Init PROVE RInv /\ Promise!Init
    OBVIOUS
  <2>1. TInv
    BY InitTasks
  <2>2. Started = {} /\ Settled = {} /\ Recorded = {}
    BY DEF Init, Started, Settled, Recorded
  <2>3. NothingBefore /\ LateIsLast
    BY <2>2 DEF Init, NothingBefore, LateIsLast
  <2>4. Promise!Init
    BY <2>2 DEF Init, Promise!Init
  <2>5. QED
    BY <2>1, <2>3, <2>4 DEF RInv
<1>2. RInv /\ [Next]_vars => RInv'
  BY BeforeKeeps
<1>3. RInv /\ [Next]_vars => [Promise!Next]_(Promise!vars)
  BY NextRefines DEF PromiseStep, Promise!vars, VerdictOf
<1>4. QED
  BY <1>1, <1>2, <1>3, PTL DEF Spec, ImplementsPlan, Promise!Spec
=============================================================================
