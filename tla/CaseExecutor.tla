---------------------------- MODULE CaseExecutor ----------------------------
(***************************************************************************)
(* chaos/case/base.py: CaseExecutor.execute_case with the injectors whose  *)
(* faults stay until they are taken away (network and pod stop, in         *)
(* chaos/fault/base.py), the records it keeps, its auto_clear, and the     *)
(* "clear" command of another process.  Cases run side by side, as the     *)
(* tasks of a parallel layer do, and may meet on a pod, and their calls of *)
(* chaos/state/manager.py load, truncate and write faults.json with no     *)
(* lock between them, as FaultStore has it.                                *)
(***************************************************************************)
EXTENDS Naturals, Sequences, FiniteSets

CONSTANTS Case, ClearCommand, NoCase,
          Pod, NodePods, \* all pods; those on the node of the environment
          Device, Eth0,  \* network devices of a pod
          Container,     \* what a pod stop takes instead of a device
          NoDevice,
          Named,         \* [Case \cup {ClearCommand} -> ...]: "device" of the parameters
          ConfigDevice,  \* the device of config.yaml, eth0 if it has none
          Timing,        \* [Case -> {"none", "sound", "bad"}]: the duration parses or not
          AutoClears,    \* SUBSET Case: auto_clear is True
          LoopCount,     \* [Case -> Nat]
          Matches,       \* [Case -> SUBSET Pod]: the pods its patterns match
          MaxTargets,    \* [Case -> Nat]: most pods its patterns and count select
          MaxSecond      \* bound of the clock

Actor == Case \cup {ClearCommand}

ASSUME CaseAssumption ==
    /\ ClearCommand \notin Case /\ NoCase \notin Case
    /\ NodePods \subseteq Pod /\ AutoClears \subseteq Case
    /\ Eth0 \in Device /\ ConfigDevice \in Device
    /\ Container \notin Device /\ NoDevice \notin Device \cup {Container}
    /\ Named \in [Actor -> Device \cup {Container, NoDevice}]
    /\ Timing \in [Case -> {"none", "sound", "bad"}]
    /\ LoopCount \in [Case -> Nat \ {0}]
    /\ Matches \in [Case -> SUBSET Pod]
    /\ MaxTargets \in [Case -> Nat \ {0}]
    /\ MaxSecond \in Nat

Slot == Pod \X (Device \cup {Container})

\* Fault ids: type, pod and time in whole seconds.  The network cases all
\* inject the same type.
Id == {"network", "stop"} \X Pod \X (0..MaxSecond)

NoId == <<>>

Status == {"none", "running", "recovered", "failed"}

Targets(c) == UNION {[1..n -> Matches[c]] : n \in 1..MaxTargets[c]}

NoRecord == [case |-> NoCase, status |-> "none"]

NoRecords == [i \in Id |-> NoRecord]

VARIABLES clock,    \* whole seconds, at the last injection
          pc,
          loop,     \* iterations left
          todo,     \* targets left in this iteration, the current one first
          fid,      \* fault_id of the last injection, or that the clear command updates
          faults,   \* per slot: the cases whose fault is in place
          store,    \* what reading faults.json gives
          blank,    \* the file has length 0: it was truncated, or is not there
          saving,   \* how far an actor is in its call of the state manager
          buffer,   \* the records that call has loaded and changed
          clearing, \* pods a clear still has to visit
          sweep,    \* ids clear_all has still to update
          disturbed,\* history: pods cleared or restarted
          blind,    \* history: cases with a recover that did not reach the pod, or
                    \* an injection that took effect and said it did not
          lost      \* history: ids whose record another actor, overlapping calls, a
                    \* failed write or a death may have left otherwise than told

vars == <<clock, pc, loop, todo, fid, faults, store, blank, saving, buffer,
          clearing, sweep, disturbed, blind, lost>>

case == <<loop, todo, fid>>
history == <<disturbed, blind, lost>>
file == <<store, blank, saving, buffer, sweep>>
world == <<clock, faults, file, clearing, history>>

Stops(c) == Named[c] = Container

\* NetworkFaultInjector._get_device; a stop has no device.
DeviceOf(c) == IF Named[c] = NoDevice THEN ConfigDevice ELSE Named[c]

Site(c) == <<Head(todo[c]), DeviceOf(c)>>

\* What recover acts on: eth0, whatever the device of the fault was.
RecoverSite(c) == <<Head(todo[c]), IF Stops(c) THEN Container ELSE Eth0>>

\* The device a clear acts on; config.yaml is not asked.
ClearDevice(a) == IF Named[a] \in {NoDevice, Container} THEN Eth0 ELSE Named[a]

FaultId(c, second) == <<IF Stops(c) THEN "stop" ELSE "network", Head(todo[c]), second>>

Init ==
    /\ clock = 0
    /\ pc = [a \in Actor |-> IF a = ClearCommand THEN "idle" ELSE "select"]
    /\ loop = LoopCount
    /\ todo = [c \in Case |-> <<>>]
    /\ fid = [a \in Actor |-> NoId]
    /\ faults = [s \in Slot |-> {}]
    /\ store = NoRecords /\ blank = TRUE
    /\ saving = [a \in Actor |-> "none"]
    /\ buffer = [a \in Actor |-> NoRecords]
    /\ clearing = [a \in Actor |-> {}] /\ sweep = {}
    /\ disturbed = {} /\ blind = {} /\ lost = {}

Goes(a, there) == pc' = [pc EXCEPT ![a] = there]

-----------------------------------------------------------------------------
(* execute_case *)

\* The case does not validate, has no environment, or no target is found.
Refuse(c) ==
    /\ pc[c] = "select"
    /\ Goes(c, "false")
    /\ UNCHANGED <<case, world>>

\* _get_targets: overlapping name patterns may give a pod twice.
Select(c) ==
    /\ pc[c] = "select"
    /\ \E ts \in Targets(c) : todo' = [todo EXCEPT ![c] = ts]
    /\ loop' = [loop EXCEPT ![c] = @ - 1]
    /\ Goes(c, "inject")
    /\ UNCHANGED <<fid, world>>

\* inject returned False, or raised: it was not even tried, or the answer to
\* the command was lost after it had taken effect.
InjectFails(c) ==
    /\ pc[c] = "inject"
    /\ \/ UNCHANGED <<faults, blind>>
       \/ /\ Stops(c) \/ faults[Site(c)] = {}
          /\ faults' = [faults EXCEPT ![Site(c)] = @ \cup {c}]
          /\ blind' = blind \cup {c}
    /\ Goes(c, "false")
    /\ UNCHANGED <<case, clock, file, clearing, disturbed, lost>>

\* Mutant: tc qdisc replace instead of tc qdisc add.
InjectReplaces(c) ==
    /\ pc[c] = "inject"
    /\ faults' = [faults EXCEPT ![Site(c)] = {c}]
    /\ clock' \in clock .. MaxSecond
    /\ fid' = [fid EXCEPT ![c] = FaultId(c, clock')]
    /\ Goes(c, "record")
    /\ UNCHANGED <<loop, todo, file, clearing, history>>

\* tc qdisc add succeeds only on a device without a root qdisc; docker stop
\* also on a container that is stopped.
Inject(c) ==
    /\ pc[c] = "inject"
    /\ Stops(c) \/ faults[Site(c)] = {}
    /\ faults' = [faults EXCEPT ![Site(c)] = @ \cup {c}]
    /\ clock' \in clock .. MaxSecond
    /\ fid' = [fid EXCEPT ![c] = FaultId(c, clock')]
    /\ Goes(c, "record")
    /\ UNCHANGED <<loop, todo, file, clearing, history>>

\* Mutant: a case without a duration has nothing to recover.
RecoverIfTimed(c) ==
    /\ pc[c] = "recover" /\ ~Stops(c)
    /\ IF Timing[c] = "sound" THEN faults' = [faults EXCEPT ![RecoverSite(c)] = {}]
                              ELSE UNCHANGED faults
    /\ Goes(c, "mark")
    /\ UNCHANGED <<case, clock, file, clearing, history>>

\* NetworkFaultInjector.recover: True, whether or not the pod was reached.
RecoverNetwork(c) ==
    /\ pc[c] = "recover" /\ ~Stops(c)
    /\ \/ faults' = [faults EXCEPT ![RecoverSite(c)] = {}] /\ UNCHANGED blind
       \/ UNCHANGED faults /\ blind' = blind \cup {c}
    /\ Goes(c, "mark")
    /\ UNCHANGED <<case, clock, file, clearing, disturbed, lost>>

\* The pool has no connection to the node and raises: recover does not catch it, and
\* execute_case returns False without a word to the store.
RecoverRaises(c) ==
    /\ pc[c] = "recover" /\ ~Stops(c)
    /\ Goes(c, "false")
    /\ UNCHANGED <<case, world>>

\* PodFaultInjector.recover: docker start, which may fail.
RecoverStop(c) ==
    /\ pc[c] = "recover" /\ Stops(c)
    /\ \/ faults' = [faults EXCEPT ![RecoverSite(c)] = {}] /\ Goes(c, "mark")
       \/ UNCHANGED faults /\ Goes(c, "fail")
    /\ UNCHANGED <<case, clock, file, clearing, history>>

-----------------------------------------------------------------------------
(* _execute_auto_clear, and the clear command of another process *)

AutoClear(c) ==
    /\ pc[c] = "clear"
    /\ clearing' = [clearing EXCEPT ![c] = NodePods]
    /\ Goes(c, "clearing")
    /\ UNCHANGED <<case, clock, faults, file, history>>

\* One environment, or all of them.
Clear ==
    /\ pc[ClearCommand] = "idle"
    /\ \E pods \in {NodePods, Pod} : clearing' = [clearing EXCEPT ![ClearCommand] = pods]
    /\ Goes(ClearCommand, "clearing")
    /\ UNCHANGED <<case, clock, faults, file, history>>

\* clear_fault: a pod that is not reached is counted and passed over.
ClearPod(a) ==
    /\ pc[a] = "clearing"
    /\ \E p \in clearing[a] :
          /\ clearing' = [clearing EXCEPT ![a] = @ \ {p}]
          /\ \/ /\ faults' = [faults EXCEPT ![<<p, ClearDevice(a)>>] = {}]
                /\ disturbed' = disturbed \cup {p}
             \/ UNCHANGED <<faults, disturbed>>
    /\ UNCHANGED <<case, pc, clock, file, blind, lost>>

\* All pods were visited, or the node cannot be reached: the rest is left out.
ClearEnds(a) ==
    /\ pc[a] = "clearing"
    /\ clearing' = [clearing EXCEPT ![a] = {}]
    /\ Goes(a, IF a = ClearCommand THEN "snapshot" ELSE "true")
    /\ UNCHANGED <<case, clock, faults, file, history>>

\* state_manager.clear_all, whatever the pods said: a snapshot of the active faults,
Snapshot ==
    /\ pc[ClearCommand] = "snapshot"
    /\ sweep' = {i \in Id : store[i].status = "running"}
    /\ Goes(ClearCommand, "records")
    /\ UNCHANGED <<case, clock, faults, store, blank, saving, buffer, clearing, history>>

\* and an update_status for each of them.
ClearNext ==
    /\ pc[ClearCommand] = "records"
    /\ \/ /\ sweep = {}
          /\ Goes(ClearCommand, "idle")
          /\ fid' = [fid EXCEPT ![ClearCommand] = NoId]
          /\ UNCHANGED sweep
       \/ \E i \in sweep :
             /\ fid' = [fid EXCEPT ![ClearCommand] = i]
             /\ sweep' = sweep \ {i}
             /\ Goes(ClearCommand, "sweep")
    /\ UNCHANGED <<loop, todo, clock, faults, store, blank, saving, buffer, clearing, history>>

-----------------------------------------------------------------------------
(* Calls of the state manager: record_fault, mark_recovered and mark_failed of *)
(* the cases (at "record", "mark" and "fail"), update_status of clear_all (at  *)
(* "sweep").  Their results are ignored.                                       *)

MidSave(a) == saving[a] \in {"loaded", "cut"}

Recorded == {i \in Id : \/ store[i] # NoRecord
                        \/ \E a \in Actor : buffer[a][i] # NoRecord}

AfterLast(c) ==
    IF loop[c] > 0 THEN "select" ELSE IF c \in AutoClears THEN "clear" ELSE "true"

\* The call is over: the wait, where a duration that does not parse raises; the next
\* target; the False of execute_case; the next record to clear.
Returns(a) ==
    /\ \/ /\ pc[a] = "record"
          /\ Goes(a, IF Timing[a] = "bad" THEN "false" ELSE "recover")
          /\ UNCHANGED todo
       \/ /\ pc[a] = "mark"
          /\ Goes(a, IF Len(todo[a]) > 1 THEN "inject" ELSE AfterLast(a))
          /\ todo' = [todo EXCEPT ![a] = Tail(@)]
       \/ pc[a] = "fail" /\ Goes(a, "false") /\ UNCHANGED todo
       \/ pc[a] = "sweep" /\ Goes(a, "records") /\ UNCHANGED todo
    /\ saving' = [saving EXCEPT ![a] = "none"]
    /\ buffer' = [buffer EXCEPT ![a] = NoRecords]

\* The record to change is that of another case, which still needs it, or of any
\* case if clear_all changes it.
Meddles(a) ==
    LET r == store[fid[a]] IN
    r.status # "none" /\ r.case # a /\ (pc[a] = "record" => r.status # "recovered")

\* mark_failed first reads the file for the record itself, and gives up without one.
Get(c) ==
    /\ pc[c] = "fail" /\ saving[c] = "none"
    /\ lost' = IF Meddles(c) THEN lost \cup {fid[c]} ELSE lost
    /\ IF store[fid[c]].status = "none"
       THEN Returns(c)
       ELSE /\ saving' = [saving EXCEPT ![c] = "got"]
            /\ buffer' = [buffer EXCEPT ![c] = store]
            /\ UNCHANGED <<pc, todo>>
    /\ UNCHANGED <<loop, fid, clock, faults, store, blank, clearing, sweep, disturbed, blind>>

Loads(a) ==
    \/ pc[a] \in {"record", "mark", "sweep"} /\ saving[a] = "none"
    \/ pc[a] = "fail" /\ saving[a] = "got"

\* What the call makes of its record.
Changed(a) ==
    CASE pc[a] = "record" -> [case |-> a, status |-> "running"]
      [] pc[a] = "fail"   -> [buffer[a][fid[a]] EXCEPT !.status = "failed"]
      [] OTHER            -> [store[fid[a]] EXCEPT !.status = "recovered"]

\* update_status refuses an id that has no record.
Refuses(a) == pc[a] \in {"mark", "sweep"} /\ store[fid[a]].status = "none"

\* Mutant: save starts from an empty file.
LoadNothing(a) ==
    /\ Loads(a)
    /\ IF Refuses(a)
       THEN Returns(a)
       ELSE /\ saving' = [saving EXCEPT ![a] = "loaded"]
            /\ buffer' = [buffer EXCEPT ![a] = [NoRecords EXCEPT ![fid[a]] = Changed(a)]]
            /\ UNCHANGED <<pc, todo>>
    /\ lost' = lost \cup (IF \E b \in Actor \ {a} : MidSave(b) THEN Recorded \cup {fid[a]} ELSE {})
                    \cup (IF Meddles(a) THEN {fid[a]} ELSE {})
    /\ UNCHANGED <<loop, fid, clock, faults, store, blank, clearing, sweep, disturbed, blind>>

\* _load_records, and the change.  While another call is under way this one may miss
\* what that one writes, or that one overwrites what this one writes.
Load(a) ==
    /\ Loads(a)
    /\ IF Refuses(a)
       THEN Returns(a)
       ELSE /\ saving' = [saving EXCEPT ![a] = "loaded"]
            /\ buffer' = [buffer EXCEPT ![a] = [store EXCEPT ![fid[a]] = Changed(a)]]
            /\ UNCHANGED <<pc, todo>>
    /\ lost' = lost \cup (IF \E b \in Actor \ {a} : MidSave(b) THEN Recorded \cup {fid[a]} ELSE {})
                    \cup (IF Meddles(a) THEN {fid[a]} ELSE {})
    /\ UNCHANGED <<loop, fid, clock, faults, store, blank, clearing, sweep, disturbed, blind>>

\* open('w').
Truncate(a) ==
    /\ saving[a] = "loaded"
    /\ store' = NoRecords /\ blank' = TRUE
    /\ saving' = [saving EXCEPT ![a] = "cut"]
    /\ UNCHANGED <<case, pc, clock, faults, buffer, clearing, sweep, history>>

\* json.dump.  What another call wrote since the truncation may be longer than this
\* one's data and stay behind them: a file that does not parse.
Write(a) ==
    /\ saving[a] = "cut"
    /\ store' \in {buffer[a]} \cup (IF blank THEN {} ELSE {NoRecords})
    /\ blank' = FALSE
    /\ Returns(a)
    /\ UNCHANGED <<loop, fid, clock, faults, clearing, sweep, history>>

\* The write raises before the first byte or after: every record is gone.
WriteFails(a) ==
    /\ saving[a] = "cut"
    /\ \/ UNCHANGED <<store, blank>>
       \/ store' = NoRecords /\ blank' = FALSE
    /\ lost' = lost \cup Recorded
    /\ Returns(a)
    /\ UNCHANGED <<loop, fid, clock, faults, clearing, sweep, disturbed, blind>>

-----------------------------------------------------------------------------
(* The world *)

\* A pod is recreated: its faults are gone.  Bound: not twice, nor after a clear.
PodRestarts(p) ==
    /\ p \notin disturbed
    /\ faults' = [s \in Slot |-> IF s[1] = p THEN {} ELSE faults[s]]
    /\ disturbed' = disturbed \cup {p}
    /\ UNCHANGED <<case, pc, clock, file, clearing, blind, lost>>

\* The actors of A are killed: a case ends without its True, and another clear command
\* may follow.  A file that one of them has truncated stays empty.
Killed(A) ==
    /\ pc' = [a \in Actor |-> IF a \notin A THEN pc[a]
                             ELSE IF a = ClearCommand THEN "idle" ELSE "false"]
    /\ todo' = [c \in Case |-> IF c \in A THEN <<>> ELSE todo[c]]
    /\ saving' = [a \in Actor |-> IF a \in A THEN "none" ELSE saving[a]]
    /\ buffer' = [a \in Actor |-> IF a \in A THEN NoRecords ELSE buffer[a]]
    /\ clearing' = [a \in Actor |-> IF a \in A THEN {} ELSE clearing[a]]
    /\ lost' = lost \cup {fid[a] : a \in {b \in A : pc[b] = "record"}}
                    \cup (IF \E a \in A : saving[a] = "cut" THEN Recorded ELSE {})

Ended(c) == pc[c] \in {"true", "false"}

\* The process of the cases dies.
Crash ==
    /\ \E c \in Case : ~Ended(c)
    /\ Killed({c \in Case : ~Ended(c)})
    /\ UNCHANGED <<loop, fid, clock, faults, store, blank, sweep, disturbed, blind>>

\* The process of the clear command dies.
ClearDies ==
    /\ pc[ClearCommand] # "idle"
    /\ Killed({ClearCommand})
    /\ sweep' = {}
    /\ fid' = [fid EXCEPT ![ClearCommand] = NoId]
    /\ UNCHANGED <<loop, clock, faults, store, blank, disturbed, blind>>

Next ==
    \/ \E c \in Case :
          \/ Refuse(c) \/ Select(c) \/ InjectFails(c) \/ Inject(c)
          \/ RecoverNetwork(c) \/ RecoverRaises(c) \/ RecoverStop(c) \/ AutoClear(c) \/ Get(c)
    \/ \E a \in Actor :
          \/ ClearPod(a) \/ ClearEnds(a)
          \/ Load(a) \/ Truncate(a) \/ Write(a) \/ WriteFails(a)
    \/ Clear \/ Snapshot \/ ClearNext
    \/ \E p \in Pod : PodRestarts(p)
    \/ Crash \/ ClearDies

Spec == Init /\ [][Next]_vars

-----------------------------------------------------------------------------
(* Properties *)

\* On a pod nobody cleared or restarted, a network fault goes away only by the
\* recover of its own case: cases that meet on a device exclude each other by the
\* failure of tc qdisc add, and recover, which deletes whatever it finds, never
\* meets another case's fault (fault/base.py:1153).  For cases on eth0.
UndisturbedFaultsAreSafe ==
    [][\A c \in Case, s \in Slot :
          /\ c \in faults[s] /\ c \notin faults'[s]
          /\ s[1] \notin disturbed' /\ s[2] # Container
          => pc[c] = "recover" /\ pc'[c] = "mark"]_vars

\* What the next reader finds; what a call is writing counts as written once it has
\* truncated the file.
Listed ==
    IF \E a \in Actor : saving[a] = "cut"
    THEN buffer[CHOOSE a \in Actor : saving[a] = "cut"] ELSE store

\* A fault in place is on record as running or failed, also after the process died, a
\* duration did not parse or the recovery raised or failed.  The exceptions are the
\* fault that is injected and not recorded yet; one whose inject or recover lost its
\* answer; and a record that was swept by a clear command, shares its id, was in the
\* file when calls overlapped, a write failed or a writer died after its truncation,
\* or never got there because the process died (case/base.py:262-301, manager.py:81).
ActiveFaultsAreListed ==
    \A c \in Case, s \in Slot :
        c \in faults[s] /\ DeviceOf(c) \in {Eth0, Container} =>
            \/ \E i \in Id : /\ Listed[i].case = c /\ i[2] = s[1]
                             /\ Listed[i].status \in {"running", "failed"}
            \/ pc[c] = "record" \/ c \in blind \/ fid[c] \in lost

\* A case that returns True has left neither a fault of its own in place nor a record
\* of it active, provided its faults were on the device recover knows, its recovers
\* reached the pods and its records were not among those a clear, an overlap of calls
\* or a failure spoiled (case/base.py:291-313, manager.py:113).
SuccessLeavesNothing ==
    \A c \in Case :
        pc[c] = "true" /\ DeviceOf(c) \in {Eth0, Container} =>
            /\ c \notin blind => \A s \in Slot : c \notin faults[s]
            /\ \A i \in Id \ lost : Listed[i].case = c => Listed[i].status = "recovered"

=============================================================================
