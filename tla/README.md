# Verification of chaos_oop_design

TLA+ models of the fault-injection tool in `src/`, the TLC runs that check
them and the theorems TLAPS proves about them.  Everything is translated from
the Python code; paths below are relative to `src/`.

## 1. The system

The tool injects faults (network delay and loss, pod kills, process kills, disk
and CPU load, switch and IPMI operations) into a cluster over SSH, waits, and takes
them away again.  `chaos/main.py` starts one of: a single *case*, a directory
of cases, a *workflow* (a plan of tasks, each of them a case), a directory of
workflows, a clean-up, or a report.

| Component | State it keeps | Operations | Talks to |
|---|---|---|---|
| Workflow executor (`workflow/executor.py`, `workflow/monitor.py`) | stop event, monitor results, thread pool, one temporary file per running task | execute, stop (signal), execute a task, retry, time out, auto_clear | a case thread per attempt, the pool, pods |
| Workflow definition and parser (`workflow/definition.py`, `workflow/parser.py`) | the plan | parse, validate, execution order, timing merge | executor |
| Case executor (`case/base.py`) | `_running_faults` | execute_case, cleanup_case, auto_clear, batch | injectors, fault store, SSH pool |
| Fault record store (`state/manager.py`) | `faults.json` | record, mark recovered or failed, list, clear all | case threads, other processes |
| SSH executor (`utils/remote.py`) | connection, lock, keepalive thread, statistics | connect, execute, transfer, disconnect, reconnect, heartbeat | circuit breaker, remote host |
| Circuit breaker (`utils/remote.py`) | state, failure count, time of the last failure, probes | can_execute, record_success, record_failure, reset | SSH executor, health check |
| SSH connection pool (`utils/remote.py`) | executors by key, pool lock, health-check thread | get, create, close, evict, clean up, health check | every case thread |
| Fault injectors and registry (`fault/base.py`, `fault/registry.py`) | per injector: executor, container, stopped containers | inject, recover; register, create | SSH executors, pool, pod manager, IPMI, switches |
| Clearer (`clearer/network.py`, `handlers.py`) | none | clear the network faults of a pod, of all pods | SSH executor |
| Pod manager (`utils/pod.py`) | none: it asks the cluster each time | list, select by role | SSH executor |
| Log collector (`utils/log_collector.py`) | archives on the nodes | collect, archive, aggregate | SSH executors |
| Singletons, configuration (`utils/singleton.py`, `config.py`) | one instance per class | create, reset | everything |
| Versions, permissions (`utils/version.py`, `utils/permission.py`) | VERSION file, backups | increment, back up, safe write | file system |

What is hard about it: case threads that outlive their task's timeout, a thread
pool that is stopped half way, one JSON file written by many threads without a
lock, SSH connections shared by threads under locks that are not reentrant,
heartbeats that run beside them, a breaker that other threads ask meanwhile, and a cluster
that is asked one command at a time while it changes.  The
list with lines is `hazards` in `PROJECT.json`.

What has to hold, component by component:

* Workflow executor: layers are barriers; every result is recorded once and
  never changes; an attempt that was given up on is a TIMEOUT and is never
  overlapped by a retry; a SUCCESS means that every task succeeded; after a stop
  one more task is handed out at most; the workflow reaches its result.
* Definitions and batch: what the parser lets through has a complete plan; the
  exit code of a batch covers every file; one signal stops a batch.
* Case executor: a case takes away its own fault and nobody else's; what is in
  place is listed; a success leaves nothing behind.
* Fault store: a record is not lost, and none is invented.
* SSH executor and breaker: one lock owner, no lost or late reports, one
  keepalive thread, every call returns; a failing service is left alone for the
  recovery time and then tried again.
* Connection pool: a caller gets a connection to the host it asked for, and it is
  not taken down in the middle of a command; no live connection is forgotten; the
  number of connections stays near its limit; every request comes back.
* Injectors: recover takes the fault from where inject put it, faults that meet on a
  pod do not end each other, and a verdict of True forgets no failure.
* Pod manager: what is answered about a role was true at some moment of the query.
* Log collector: True means that all logs of the day are in the archive, and nothing
  else is there but what the code takes for that day.
* Singletons: one instance, initialised once, and handed out unready only while its
  `__init__` runs or after that raised.

## 2. The modules

| Module | Models | Built from |
|---|---|---|
| `LayeredPlan` | what a workflow run promises: tasks start layer by layer, each gets one verdict, an overall verdict at the end | - |
| `ExecutionOrders` | what `get_execution_order` gives to the executor: one operator | - |
| `WorkflowExecutor` | `workflow/executor.py`, `workflow/monitor.py` | extends `ExecutionOrders`, refines `LayeredPlan` |
| `WorkflowPlan` | `workflow/definition.py`, `workflow/parser.py`: operators only | extends `ExecutionOrders` |
| `WorkflowBatch` | the batches of workflow files and of case files of `main.py` | extends `WorkflowPlan` |
| `CaseExecutor` | `case/base.py`, what a case sees of the network and stop injectors, the `clear` command | - |
| `Pods` | the pods the next module and `PodManager` are about: one constant | - |
| `PodInjectors` | `NetworkFaultInjector` and `PodFaultInjector` of `fault/base.py`, on pods that come and go | extends `Pods` |
| `Singleton` | `utils/singleton.py` | - |
| `CommandInjectors` | the injectors for reboot, cmd, ipmitool, process and sw | composes `Singleton` |
| `FaultLog` | what a store of fault records promises | - |
| `FaultStore` | `state/manager.py` and its JSON file | refines `FaultLog` |
| `CircuitBreaker` | the class of that name in `utils/remote.py` | - |
| `SSHExecutor` | the class of that name in `utils/remote.py` | contains `CircuitBreaker` |
| `ConnectionPool` | `SSHConnectionPool` of `utils/remote.py` and what its callers do with an executor | - |
| `PodManager` | the queries of `utils/pod.py` | extends `Pods` |
| `LogCollector` | `utils/log_collector.py` | - |
| `WorkflowExecutorProofs`, `FaultStoreProofs`, `SSHExecutorProofs`, `CommandInjectorsProofs`, `LogCollectorProofs` | theorems | each extends the module it is about |
| `CommandLineProofs` | theorems about `WorkflowBatch` with its plans, and about `CaseExecutor` | extends both |
| `RemoteProofs` | theorems about `CircuitBreaker` and `ConnectionPool` | extends both |
| `PodProofs` | theorems about `PodInjectors` and `PodManager` | extends both |

`MC*` modules only give values to constants.  A definition preceded by a comment
that begins with "Mutant:" is not part of a model: it is a wrong variant of the
definition after it, used to see that the properties notice (section 4).

The same thing is modelled at the grain its users need.  `WorkflowExecutor` takes a case
as a thread that injects at some moment; `CaseExecutor` opens the case and takes an
injector as one step that works or does not; `PodInjectors` and `CommandInjectors`
open the injectors; `CaseExecutor` and `FaultStore` both take a call of the store in
the steps load, truncate and write, the first among the faults the records are about,
the second with deaths of single callers and the abstract log it keeps; `ConnectionPool` takes
an executor as up or down, which `SSHExecutor` opens, with the breaker inside.

### 2.1 WorkflowExecutor

`pc` is where `WorkflowExecutor.execute` stands; `layer` and `next` are its loop
indices; `stop` is the event the signal handler sets; `run[t]`, `status[t]`,
`retries[t]` and `temp` are the activation of `TaskExecutor.execute` for task
`t` (a worker of the pool, or the main thread in a layer of one); `thread[t][k]`
is the thread that runs attempt `k`; `fault` says for which tasks something is in
place on the cluster; `results` is the monitor.  One action is one stretch of
code between two points at which another thread can see a difference: reading the
stop event (`CheckSerial`, `CheckSubmit`), handing a task out (`StartSerial`,
`Submit`), taking a queued task, creating the temporary file, starting and joining
the case thread, the retry sleep, recording a result.  Durations are left out: a
join may time out at any moment at which the case thread is alive, which covers
every value of the timeouts.  A signal may come at any moment, also between the reading
of the event and the hand-out that follows: `late` is the task to which that
happened.  A temporary file that could not be written in full, or not be removed,
stays (`litter`).  `late` and `litter` are history variables.

### 2.2 WorkflowPlan and WorkflowBatch

A YAML document is a record of its mode and of the lists of tasks the parser
looks at; a task is its id and whether the rest of it validates.  `Accepted` is
the conjunction of the validations, `ExecutionOrder` is `get_execution_order`.  A
document may be any member of `FlatDocument` or `HybridDocument`; which ones a run
tries is the constant `Document`.  `WorkflowExecutor` assumes of its layers that they are
an order of its tasks (`PlanAssumption`: `IsOrderOf` of `ExecutionOrders`);
`PlanIsComplete` says, with the same operator, that the parser gives it nothing else.

`WorkflowBatch` follows the loop over the files of either command (`command`): `found` is
the number of files in the directory, `results` the list the loop appends to.  For
workflows, `timed` says whether the local variable `start_time` has been assigned, and
`stop` is the stop event of the one executor all files share; for cases
(`RunCase`) an exception of a file is caught and counted, and an interrupt ends the process
(`Interrupt`).  What a workflow or a case does in between is the business of
`WorkflowExecutor` and `CaseExecutor`, and is here a step that ends in a status.

### 2.3 CaseExecutor

Several cases run `execute_case` at the same time.  `faults[pod, device]` is the
set of cases whose fault is in place there: a root qdisc excludes a second one
(`tc qdisc add` fails), `docker stop` does not.  `Named[c]` is the `device` of the
parameters; inject falls back on `config.yaml` and then on eth0, recover always takes
eth0, a clear takes the parameter or eth0 (`DeviceOf`, `RecoverSite`, `ClearDevice`).
What the cluster answers is open: an injection may fail before or after it took
effect, a recover or a clear may not reach the pod, the pool may have no connection to
recover with (`RecoverRaises`), and a pod may be recreated.

`store` is what reading `faults.json` gives, `blank` that the file has length 0.
record_fault, mark_recovered, mark_failed and the updates of clear_all go through
`Load`, `Truncate` and `Write`, with the copy in `buffer` and the stage in `saving`;
between truncation and write a reader finds nothing, two saves that overlap leave one of
them or a file that does not parse, and a write may fail (`WriteFails`) or never happen
because a process died.  mark_failed first looks for the record (`Get`), clear_all takes a
snapshot (`Snapshot`, `sweep`) and updates one record after the other (`ClearNext`).  The
cases are threads of one process, which may die (`Crash`); the `clear` command is
another, may die too (`ClearDies`), and may be given again.  The clock, which ids are made
of, moves at injections only: nothing else reads it.

`disturbed`, `blind` and `lost` are history variables: they do not influence any
step and only let the properties say what they do not promise.  `lost` are the ids whose
record the store may hold otherwise than its case was told: it was in the file when calls
overlapped, a write failed or a writer died, or another actor with the same id, or a
clear, changed it.

### 2.4 FaultStore

Every method of the repository loads the file, changes its copy, truncates the
file and writes.  `pc[p]` walks through these steps for every caller, a case or a
`clear_all`; a read between truncation and write sees nothing, a write over
another's leaves one of them, or garbage; a process may die and a write may fail
(`MaxFailures` in all).  `overlap` is a history variable: two calls have been
under way together.  The code has no lock, so calls of parallel tasks do overlap.

### 2.5 CircuitBreaker and SSHExecutor

Every method of the breaker holds its lock for its whole body and is one
action; `age` is the time since the last failure, capped at the recovery timeout,
`streak` a history variable: failures in a row over all reports.  Between
admission and report any number of other calls, reports, ticks and resets happen.

`SSHExecutor` splits its methods where they sleep, dial, wait for a thread or
run a command, and at the points where `_lock` is taken and released.  `lock` is its
owner, `pc[t]` the method or the wait a thread is in, `own_lock` being the wait
for a lock the thread itself holds.  `keeping[k]` follows a keepalive thread,
which takes no lock.  A transport is a model value; `alive` is `is_active()`.
`get_status` and `is_alive`, which other threads call without the lock, are the
actions that change the breaker behind the executor's back.  `downs` and `quiet` are the
history of the host, kept beside the breaker by the dials themselves: how many have failed
since one succeeded, and how long ago the last did.  `LeavesFailingHostAlone` is about
these, so that a report the executor forgot, or made twice, would be seen.

### 2.6 ConnectionPool

`pool` is the dictionary and `poolLock` the owner of its lock; `pc[t]`, `want[t]` and
`mine[t]` are the activation of `get_connection` of caller `t`, or what `t` does with
the executor it was given.  An executor is reduced to whether it is `up`
(`is_alive()`) and who holds its lock (`busy`), which a disconnect has to wait for.
What happens under one acquisition of the pool lock without waiting is one action;
evictions and sweeps, which wait for executors while they hold it, are split there.
A reconnect and a creation run without the pool lock and are split around it.  The
four ways to clear out the pool (`health_check`, `cleanup_idle`, `close_connection`,
`close_all`) differ in the keys they choose and are one process, since the pool lock
lets only one of them in.  Times of last use are left out: any executor may be the
oldest, or idle.  An executor nobody refers to any more may be taken for the
next new one.  `orphaned` and `late` are history variables.

`SSHExecutor` explains `own_lock`: a command on an executor that is down waits
for ever for the lock the thread holds.  Here it means that the pool stops if that
executor is evicted or swept, which is why `GetReturns` has its exception.

### 2.7 PodInjectors

One injector per fault, its `inject` and, later, its `recover`.  Each asks kubectl for
the pod's node (`Locate`), docker on that node for a container (`FindPause` for the
network, `FindMain` for a stop), and only then acts (`AddQdisc`, `StopContainer`,
`Delete`; `DelQdisc`, `StartContainers`).  A grep for a pod's name also finds pods whose
names contain it (`Family`), the newest first (`born`).  recover of a network fault looks
everything up again (`on`, `hold` are the fields it overwrites): it may find another
container, none, in which case it deletes the qdisc of the host itself (`FallBack`), or no
connection (`RecoverRaises`).  In between, Kubernetes evicts, creates and replaces
(`Evict`, `Create`, `Replace`, at most `MaxChurn` times in all).

A root qdisc is that of one device of a pod (`Link`).  inject takes the device
of the parameters (`Named`), else that of `config.yaml` (`configured`, any device), so that
faults on two devices do not exclude each other (`DeviceOf`, `AddQdisc`); recover deletes
what is on eth0 whatever the device was (`DelQdisc`): a fault of another device stays, and a
fault of another case that is on eth0 may go (`Misdirected`).  A parameter is reduced to the forms
that decide whether a command can be built (`Builds`): a reversed range is refused by
one builder and put right by another.  `shaken` and `blind` are history variables.

### 2.8 Singleton and CommandInjectors

`Singleton` is the double-checked creation of `SingletonMeta`, which puts the instance
into its dictionary before `__init__` has run: `made` and `ready` are two steps, and a
thread on the fast path may use what is not ready.

`CommandInjectors` composes it with the injectors that carry commands to hosts.  Each call
takes a job, walks through its targets (`target`) and, for each, its commands
(`command`); ipmitool has one thread per target instead (`running`).  A target that is
unknown, or cannot be connected, or meets an unready pool, is passed over (`missed`);
a command is given to the host (`tried`), takes effect there (`carried`), or is counted
as done on the host's answer (`presumed`: ssh of a rebooting machine does not answer; a
process that is not found counts as killed).  These three are history variables; `failed`
is `all_success`.

### 2.9 PodManager

One query for the pods of a service that have a role, command by command: the service's
address, the list, one question per pod (`todo`) or one about all.  The cluster may elect
(`StepDown`, `TakeOver`) and restart pods with another address (`Restart`) between any two
of them.  `listed` are
the addresses of the list the query works with, `named` what the cluster said, `answer`
what is returned.  `held`, `moved`, `mute` and `down` are history variables: the roles a
pod has had since the query began, the pods that came back elsewhere, and the
questions that failed.  An upc-lb pod has no role (`Voters`).

### 2.10 LogCollector

`call` counts the collections; a collection goes through the nodes (`i`), packs their
directories (`todo`) into `temp`, that into `tar`, gathers the nodes that have one in
`got` and copies them to `final`.  What is under `/tmp` on a node stays there between
collections, and after a crash.  The choice of a day's files, by the date in their names
or by their time of modification within a window (`FindLogFiles`, `InWindow`, `NextDay`), is
translated with its calendar.  A date is a day and the zeros its text leaves out
(`short`): validation accepts 2024-02-2, and as a pattern that is the beginning of
2024-02-20 to 2024-02-29 and not of 2024-02-02 (`NameMatches`).  The window opens
just after the midnight of the day and closes with the next, which belongs to it.  When the
search by name finds nothing, or fails, the search by time follows; when that fails,
or packing does, the directory is left out (`SkipDirectory`).

Directories are flattened into archive names, so that two may have one name (`Name`).  `left`, `blank`, `missed` and `skipped` are
history variables: what failed and did not end the collection.  An archive that a failing
tar leaves half written is left out.

## 3. Runs

| Run | Instance | Shows |
|---|---|---|
| `workflow_hybrid` | 3 tasks in layers of 2 and 1, 2 workers, one task with a retry, auto_clear | six invariants, the refinement of `LayeredPlan`, and under fairness that the workflow reaches its result, with hanging cases, retries and stops |
| `breaker_reports` | 3 callers, threshold 3, timeout 3, 2 probes | the breaker with late reports |
| `executor_shared` | 2 threads, 2 transports, 2 keepalive threads, all five operations | reports and keepalive threads, that a failing host is left alone, when a connection is dialled again, and the return of calls |
| `executor_reconnect` | as above, connect and execute | **violated**: execute on a lost connection waits for its own lock |
| `pool_shared` | 2 callers, the sweeper, 3 keys, 2 executors in use at a time, a limit of 1 | three invariants of the pool, what disconnects a command, and the return of get_connection |
| `store_calls` | 2 cases, 1 clear_all, 2 failures | the file against `FaultLog` |
| `batch_files` | up to 3 files of either kind; 8 lists of tasks in 1 or 2 groups of every mode | the plan of every accepted document, the exit code, the stop |
| `case_faults` | 2 network cases on eth0 (one whose duration does not parse), 1 pod stop with auto_clear, one pod, one iteration each, all in one second, clear commands, deaths of both processes, overlapping calls and failed writes | cases that meet on a pod, what is on record, what a success leaves |
| `pod_faults` | 5 faults (2 network, 2 stops, 1 delete) on 2 pods, one name part of the other, 2 devices, 2 nodes of which the configuration knows one, 1 change by Kubernetes | recover against the lookups that find another container |
| `command_calls` | 3 calls, a job of each of the 5 kinds, up to 2 targets and 2 commands | verdicts, targets and the pool's creation |
| `pod_roles` | 3 pods in 2 shards, 4 addresses, every kind of query, 1 election, 2 restarts | answers about a cluster that changes |
| `log_calls` | 2 nodes, 3 directories of which two have one archive name, 6 files around the end of a leap February, one of them of midnight, 3 dates, one without its zero, 2 collections, 1 crash | what is in the archives |

`TypeOK` of the modules is in no run: it is proved, or the initial state and the actions
keep it plainly.  `RecordedOnce`, `AtMostOneAfterStop` and `CountsConsecutive` are
proved only.

Why the bounds are enough.  The workflow needs two layers for a barrier, two
tasks in one layer for results out of order, fewer workers than tasks for the
queue, and one retry for overlapping attempts.  The breaker needs a threshold
above 1 for "in a row", more callers than probes, and a timeout above 1.  Two
threads suffice for a lock with one owner: every defect seen in the executor
needs two threads or one and a keepalive thread; transports and keepalive
threads are bounds on successful dials, two of each give a stale one beside a
current one.  Two writers suffice for an unlocked file.  Three cases on one pod
give every meeting of a fault, a recover and somebody else's clear; in one
second the ids of the two network cases clash and that of the stop does not; further
iterations, targets and seconds repeat these meetings, and the theorems hold for all of
them.  Three files give a first, a middle
and a last.  A pool of one with three keys evicts at every second request, and two
callers are enough to dial for one key, to reconnect one executor, and to use what
the other evicts.  Two pods with look-alike names on one node are what a wrong lookup
needs, and one replacement what makes two lookups differ; two stops meet on one
container.  Three calls are two that race for the pool and one that comes when it is
there; two targets and two commands let one of each fail and the other not.  One
election and two restarts turn the roles round and let two pods exchange addresses.  Two
collections and a crash leave something behind and find it.  Deadlock is checked except in
`FaultStore`, where all callers may be done or dead, and in `ConnectionPool`, where all
may wait for an executor whose holder waits for itself.

## 4. Mutants

Every property of a passing run has a mutant in `PROJECT.json`: a definition of
the model replaced by one a plausible slip in the code would give (a probe too
many, a stop event that is cleared, `tc qdisc replace` for `add`, an id that is not
recorded twice, ids compared within a group only, `all_success` set again for every
target, a February of 28 days).  TLC finds the property violated
under the run's own configuration.

## 5. Fairness

* `WorkflowExecutor!FairSpec`: weak fairness of `Execute`, the main thread up to the
  result, and of each task activation: the interpreter schedules runnable threads, and
  sleeps, pool waits and `join(timeout)` return.  No fairness for the case threads: they
  may hang, which is why there is a timeout.  None for the workflow's auto_clear: it
  takes locks that an abandoned case thread may hold for ever (`remote.py:622`, the
  violated run), so the code does not guarantee that it returns.
* `CircuitBreaker!FairSpec`: time passes; a caller that was let through reports
  (each call site reports in every branch); somebody keeps asking.
* `SSHExecutor!FairSpec`: strong fairness for what a thread that called a
  method does next, because the lock is handed to waiting threads now and again but
  not in order (`threading.Lock`), and weak fairness for keepalive threads, which
  wait for nobody.  Network calls have timeouts and return.
* `ConnectionPool!FairSpec`: strong fairness for what a caller of `get_connection` does
  next and for the end of commands and dials, which have timeouts, and for the
  sweep, for the same locks.  Callers need not use or return what they got.

The safety results use none of it.

## 6. What is proved

All theorems hold for every value of the constants that meets the named
assumptions of the modules (`PlanAssumption` and `BoundsAssumption` of the workflow,
`PlanIdsAssumption` and `BatchAssumption` of plans and batches, `StoreAssumption`,
`PoolAssumption`, `CaseAssumption`, `PodsAreFinite` and those of the two modules about pods,
`CommandAssumption`, `LogAssumption`, the breaker's and the SSH executor's on their
parameters), which TLC evaluates in the runs.  `PlanAssumption` is itself what
`PlansAreComplete` proves of every document.

Every safety invariant and every action property of a passing run is the statement of a
theorem, and so are the refinements.

`WorkflowExecutorProofs`: `TypeCorrect`, `BarriersHold`, `RecordedOnceHolds`,
`AtMostOneHandOut`.  Barriers alone are
not inductive: that layer `i+1` begins only when layer `i` is over depends on
what the main loop knows at each of its control points.  `IInv` adds it:
`LayerExists` (inside the loop the layer is one of the plan), `NotYet` (nothing
of a later layer, or past `next` in this one, has started), `HandedOut` (what the
loop is waiting for was handed out), `LeftBehind` (every earlier layer is over and
settled) and `RecordedReturned` (only tasks that returned are in the monitor).
A task's own steps are summarised once (`TaskProgress`: a run only moves forward
and never back out of "over") and shown to keep everything (`ProgressKeeps`); the
main thread's steps are gone through one by one (`MainKeeps`).  `AtMostOneHandOut` rests on
`LateIsLast`: once a task was handed out with the stop event set, the main thread is
not between a check and a hand-out again.

Its second part has `AbandonedThreads`, `TempFiles`, `QuietAtEnd`, `CompleteSuccess`,
`OnlyAbandonedRemain`, and the refinement `KeepsPromise`.  `TInv` adds to `IInv` where the
attempts are: `LiveIsCurrent` (a thread that has not ended is that of the current
attempt, of a task that waits for it or gave it up as TIMEOUT; a retry starts only
after the thread of the last attempt ended), `FileWhileWaiting`, `ReturnedHasStatus`,
`InFlightInLayer`, and what the two kinds of layer do with an exception
(`ParallelLayer`, `RaisedEndsSerial`, `EndsInOrder`).  The refinement maps a task's verdict
to its status if the monitor has it, to "lost" if the layer went past it without one
(`VerdictOf`); that nothing is handed out before the first layer (`NothingBefore`) makes the
first step fit, and `LateIsLast` the one task `LayeredPlan` lets start after a stop.

`FaultStoreProofs`: `KeepsWhatItTold` and the refinement `KeepsTheLog`.  The log is what the
next reader is about to find (`View`: the buffer of the call that has truncated the file,
otherwise the file), and the truncation is where it changes.  `SInv` says that while
calls do not overlap there is one at a time (`Alone`), that what it loaded is still true when
it writes (`Prepared`), that a fault not recorded yet has no record (`Unseen`), and of
`clear_all` that its snapshot is running still (`ToldSoFar`).

`RemoteProofs`, the breaker: `BreakerTypes`, `ProbesAreOut`, `ConsecutiveOnly`, `Shields`.  The
invariant adds `HalfOpenWaited`: a half-open breaker has waited for the whole
recovery timeout since the last failure, which no single method checks.

`SSHExecutorProofs`: `TimelyReports`, `KeepersAreKnown`, `DialsAreNeeded`,
`DialsAreShielded`.  `EInv` adds `InsideOwnsLock` (who is inside a method holds the
lock, so that the dial of one thread is nobody else's), `DialsWhenDown` (who dials saw the
connection down, or marked as lost) and `LostOnlyByBeat` (a connection that works and is
marked as lost was marked by a heartbeat of an earlier transport).  `DialsAreShielded`
carries the breaker's promise to the host (`LeavesFailingHostAlone`): `BreakerInv` is the
breaker's invariant with threads for callers, which holds beside `EInv` because a step of the
executor moves the breaker as one of its own or not at all (`BreakerUsed`); `HearsAll`
says that the breaker hears of every dial and of nothing else, its streak and age being the
host's own `downs` and `quiet`; and a thread that begins to dial has been let through.

`RemoteProofs`, the pool: `PoolTypes`, `NeverAnotherHost`, `NothingLeaks`,
`NoCommandIsCut`, `SizeIsBounded`, for every finite set of callers and keys.  `PInv` adds
`NewIsUnshared` (what a caller has just
dialled is in nobody else's hands, so closing it when it comes second hurts nobody)
and `HoldsLock` (who runs a command or dials owns the executor's lock, so a
disconnect has to wait).  The bound counts entries together with the callers that
have passed the check and not yet inserted: a caller that evicts or forgets trades an
entry for the right to make one (`Trade`), one that inserts does the reverse
(`Entry`), and only one that finds room adds to the sum, which then is less than the
limit plus the number of callers.

`CommandLineProofs`, plans and batches: `PlansAreComplete`, `ExitIsHonest`,
`SkipsAreLast`.  That the layers of a plan, end to end, are the tasks of its document is an
induction over lists of tasks and groups.  The library's induction theorems take an
operator for an argument, which the provers do not instantiate, so
`SequenceInduction` says it of a set of sequences: a set that has the empty one and is
closed under `Append` has them all, from the library's theorem on minimal elements of a
well-founded relation.  `FlattenSeq` is defined by CHOOSE of a function that satisfies a
recursion; `LayingExists` and `LayingsAgree` show that there is one, and one only, whence
`FlattenAppend` and `FlattenConcat`.  `GroupsInOrder` then follows the groups of a
hybrid document, `FlatPlan` and `HybridPlan` collect what validation adds (`GoodPlan`), and
`GoodOrder` is the last step: if nothing repeats in a concatenation, everything has one
place in the lists it is made of (`FlattenPlaces`).  The batch's `BatchInv` adds to its two
invariants what makes them inductive: while a file is parsed or runs, its result
is still to come (`UnderWay`); a result "skipped" says that the stop event is
set and nothing runs (`SkippedStops`), which no later file undoes; an exit code of 0 is that of
a report (`ExitTells`).

`CommandLineProofs`, cases: `FaultsAreListed`, `SuccessIsClean`, `FaultsAreSafe`.  `CInv` has
three parts beside the types.  `Places`: what an actor in a call of the store may be
doing.  `Calls`, about the file and every id that is not `lost`: two calls that overlap
know of no such record (`NothingShared`); what a call has loaded is still in the file
(`Fresh`); only overlapping calls can leave a file that does not parse (`Torn`); a buffer
holds the call's own change (`Own`, `OwnGot`), and what that replaces is the case's
own record, none, or one that is settled (`NotOthers`).  From these
`Listed`, what the next reader finds, changes in `Truncate` only, and there in the one record the call is about, but for what becomes `lost`
(`ViewIs`, `Keeps`).  `Parts`, about the faults: `AtItsSite` (where its last injection put
it, while the case is between that and its recover, or gave up there), `OnRecord` (under
the id of that injection, once written), `OthersSettled` (no other record of the
case is active) and `AloneOnDevice` (between its injection and its recover a network case
has the device of an undisturbed pod for itself, which is why a recover that deletes
whatever it finds hurts nobody).  The last, and with it `FaultsAreSafe`, assumes that
all cases are on the device recover acts on (`AllKnown`): otherwise the code does not
keep it.

`PodProofs`, the injectors: `InjectorTypes`, `RecoverUndoes`, `StopsLast`,
`EndsByTheirOwn`.  `InjectorInv` says what a lookup is still worth when the cluster may have
moved: the creation times of two pods differ (`CreationTimes`), so the newest of a
family is one pod, and as long as no pod of the family came or went (`shaken`) what a
network fault found is what it would find now (`LooksRight`).  A qdisc belongs to a fault
that was injected, on its device of a pod of its family (`QdiscsAreInjected`), and while
nothing is shaken, and no fault of another device was recovered (`Misdirected`), a fault
that is in has one (`InjectedHaveQdiscs`).  For stops: an injector lists and
holds containers of its own target only (`OwnContainers`), `docker ps` answers with
containers no newer than the changes so far (`Replacements`), and only recover of a
network fault looks a second time (`OnlyNetworkLooksAgain`).

`PodProofs`, the queries: `RolesWereHeld` (`RoleWasHeld`), `QuietIsExact`
(`QuietGroupsAreExact`).  `RolesInv` follows a query through its commands (`Places`): the
role a pod has is among those it has had since the query began (`RolesAreHeld`);
addresses are those of one pod, and that of a pod that stayed is the one listed
(`ListedOnce`); a group has one leader at most, also while it elects (`OneLeads`); and what
was named by the cluster, or answered pod by pod so far, is justified, and exact about every
pod that was asked and to which nothing happened (`NamedRightly`, `AnsweredRightly`).

`CommandInjectorsProofs`: `TrueIsDone`, `FailuresAreLocal`, `OnePool`.  A verdict is a
conjunction over a loop of which only the current index is left at the end; the
invariant says what it stands for half way: of every step before (`target`,
`command`) whether it was tried, and that `failed` is set if one of them went
wrong; of ipmitool, that the threads that ended did their step.

`LogCollectorProofs`: `WindowIsTheDay` (the end of the window is the day after by the
calendar, for every date, so that the window is that day without its own midnight and
with the next), `LogsInvariant`, `TrueIsAllPacked`, `StaleIsExplained`,
`DaysAreKept`.  `LInv` explains whatever lies under `/tmp`, stage by stage:
`TempExplained`, `TarExplained`, `FinalExplained` (packed by this collection, or
by one that did not clean up) and `NodesVisited`, `DirsPacked`, `TarsCopied` (what the loops
have been through is packed, or among what failed).  `Wanted` is what a directory must have for
its archive to be promised, `OfDate` what a file may be if it is in one; `NameIsOfDate`,
`WindowIsOfDate` and `DayIsWanted` relate both to the two searches.

Only model-checked: the liveness properties (`WorkflowConcludes`, `CallsReturn`, `GetReturns`,
`TriedAgain`).  They need fairness and ENABLED, which the prover does not handle.

## 7. Where the code differs from what is said of it

One disagreement has a violated run, with the quotation under `findings`: `execute` on a
connection that is marked as lost calls `connect` with the lock held and waits for ever
(`remote.py:622`, run `executor_reconnect`).

Noticed while modelling, each allowed by name in a property or a model:

* A workflow auto_clear does not leave the cluster clean: the thread of a task that
  timed out injects afterwards (`executor.py:294`, `427`; `README.md:980`).
  `ClearedUnlessAbandoned` says that this is the only way.
* A signal between the reading of the stop event and the hand-out still lets one
  task start (`executor.py:564`): `AtMostOneAfterStop`.
* A temporary case file whose writing fails is not removed, since its name never reaches
  the variable the finally clause looks at (`executor.py:241`), and a failing removal is
  not noticed (`executor.py:179`): `litter`.
* After the result the workflow may still hang: its auto_clear waits for locks that an
  abandoned thread can hold for ever (`executor.py:468`).
* A save truncates the file before it writes, with no lock (`manager.py:84`, `92`;
  `README.md:848`): a failed write or a death there costs the records of all cases,
  and of overlapping saves one is lost, or an old status comes back.  `StoredAsTold` and
  `ImplementsLog` are about calls that do not overlap; `ActiveFaultsAreListed` and
  `SuccessLeavesNothing` except the ids that are `lost`.
* `recover` takes eth0 whatever the device of the fault was (`fault/base.py:1136`, `1153`;
  `PROJECT_SUMMARY.md:165`): a fault of another device stays, and the recover may
  delete the eth0 fault of another case (`DeviceOf`, `RecoverSite`, `Misdirected`).
* A recover that finds no connection raises out of `execute_case`, and the fault stays on
  record as running (`fault/base.py:1070`).
* A recover that finds no container deletes the root qdisc of the executor's own host and
  returns True (`fault/base.py:1163`): `FallBack`.
* Two stops of a container: the first recover ends both (`fault/base.py:1406`):
  `StopsAreKept`.
* A batch whose first file does not parse executes nothing: the except clause reads a
  variable that only a parsed file sets (`main.py:454`), against
  `PROJECT_SUMMARY.md:424`.  A batch that finds no file exits with 0.
* The limit of ten connections (`README.md:875`) is exceeded by callers that dial at the
  same time (`BoundedSize` says by how many), and without bound by reconnects that fail
  after their entry has been evicted (`remote.py:827`).
* A failed reconnect deletes whatever executor is under the key by now, without
  disconnecting it, and a successful one of an evicted executor leaves it outside the
  pool: nobody closes these connections (`orphaned`).
* One thread whose command runs on a connection that an eviction, another thread's
  reconnect or `auto_clear` has closed waits for itself; the next eviction or health
  check that picks its executor then holds the pool lock for ever (`remote.py:965`).
* A heartbeat that fails on an old transport marks the current connection as lost
  (`remote.py:552`); `RedialsOnlyAfterStaleBeat` allows exactly that.
* A workflow that is stopped in the middle reports SUCCESS if no recorded task failed
  (`executor.py:409`), so that a batch stopped in its last file exits with 0;
  `SuccessIsComplete` excludes stopped workflows.
* The first use of the pool may meet an instance whose `__init__` has not run
  (`singleton.py:38`); an injection that does fails, and `TrueMeansDone` holds.
* ddb asks about the addresses of its list, which may be another pod's by then
  (`pod.py:388`), and a upc pod that does not answer passes for a nontalker
  (`pod.py:661`): `RoleWasHeld`.
* A log collection that cannot list the directories of a node takes the archive an earlier
  one left there (`log_collector.py:82`), and the results of the copies are not looked at
  (`log_collector.py:470`): `StaleArchivesHaveACause`, `missed`.
* A date without its zeros passes validation (`log_collector.py:112`) and is matched as it
  stands (`log_collector.py:205`): 2024-02-2 packs the files of the twenties and not those
  of the second.  The window of the other search has the next midnight in it and not
  its own (`log_collector.py:241`).  `TrueMeansAllPacked` is about dates in full,
  `ArchivesHoldTheirDay` names what else is taken.
* Dependencies of tasks and the timing of tasks and groups are parsed, but the
  executor uses only the workflow's timing.
* `config.yaml`'s device is used by inject, not by recover and not by a clear.
* `state --action list` in table format calls `strftime` on the start time, which
  comes back from the JSON file as a string (`main.py:293`).
* A case thread that loops is timed out after one duration and a minute
  (`executor.py:197`).

## 8. Not modelled, and what is left

Not modelled: file and log formats, command lines and the parsing of their output, random
parameters, reports and printing; the registry of injectors, a dictionary filled at
import; the logger; versions and permissions, on which nothing else depends; the lookups of
the configuration, read once.  `CaseExecutor.cleanup_case` has no caller, and only tests
call `reset_instance`.  Durations and timeouts are left out everywhere but in the breaker:
whatever may time out may do so at any moment.

Left to do: that `CaseExecutor`, which takes an injector as one step, is implemented with
`PodInjectors` in its place; that its calls of the store are those of `FaultStore`, a
refinement rather than the same steps written twice; the arithmetic of
timings, durations and timeouts, where a looping case is given up too early.
