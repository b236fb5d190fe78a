---------------------------- MODULE PodInjectors ----------------------------
(***************************************************************************)
(* chaos/fault/base.py: NetworkFaultInjector and PodFaultInjector below    *)
(* the calls CaseExecutor makes.  A pod has a name; its node is asked of   *)
(* kubectl, its container of docker on that node, and only then does the   *)
(* command act.  recover does the lookups of a network fault again, so     *)
(* what it acts on depends on what became of the pods in between.  One     *)
(* injector per fault, as execute_case makes them, side by side.           *)
(***************************************************************************)
EXTENDS Naturals, FiniteSets, Pods

CONSTANTS Fault, NoFault,
          Type,      \* [Fault -> ...]: fault_type
          Given,     \* [Fault -> ...]: how the case gives the parameters of a network
                     \* fault: none, plain values, ranges, ranges with an end before
                     \* the other, or lists that hold no numbers
          Device, Eth0, \* network devices of a pod
          Named,     \* [Fault -> ...]: "device" of the parameters
          NoDevice,
          Target,    \* [Fault -> Pod]
          Family,    \* [Pod -> SUBSET Pod]: the pods whose names contain this one's
          Node, Nowhere,
          Known,     \* SUBSET Node: those an environment of config.yaml names
          Gone,      \* a container that does not exist (any more)
          MaxChurn   \* bound of the pods evicted and created and containers replaced

NetworkType == {"delay", "loss", "corrupt", "duplicate", "reorder"}

ASSUME PodAssumption ==
    /\ NoFault \notin Fault /\ Nowhere \notin Node /\ Known \subseteq Node
    /\ Type \in [Fault -> NetworkType \cup {"stop", "delete", "restart", "unknown"}]
    /\ Given \in [Fault -> {"none", "values", "ranges", "reversed", "garbled"}]
    /\ Eth0 \in Device /\ NoDevice \notin Device /\ Named \in [Fault -> Device \cup {NoDevice}]
    /\ Target \in [Fault -> Pod]
    /\ Family \in [Pod -> SUBSET Pod] /\ \A p \in Pod : p \in Family[p]
    /\ MaxChurn \in Nat

\* A pod's pause container, whose network the pod has, is number 0.  What runs in
\* the pod comes after it, one container in the place of the other.
Container == Pod \X (0..(MaxChurn + 1))
ASSUME GoneAssumption == Gone \notin Container

Link == Pod \X Device

VARIABLES pc,     \* where the calls of an injector are
          on,     \* the node whose executor they go to
          hold,   \* the container found last
          stopped, \* _stopped_containers
          home,   \* the node of a pod, Nowhere while it does not exist
          born,   \* the creation times of the pods
          main,   \* the number of the container that runs in a pod
          configured, \* the device of config.yaml, eth0 if it has none
          qdisc,  \* the fault whose root qdisc is on a device of a pod
          halted, \* containers that docker stop has stopped
          host,   \* the host of remote_executor has the root qdisc of its own
          churn,
          shaken, \* history: faults with a pod of the family gone since they looked
          blind   \* history: faults whose recover failed somewhere, or whose
                  \* inject took effect and said it did not

vars == <<pc, on, hold, stopped, home, born, main, configured, qdisc, halted, host, churn,
          shaken, blind>>

world == <<home, born, main, configured, churn, shaken>>
damage == <<qdisc, halted, host>>

Network(f) == Type[f] \in NetworkType
Stop(f) == Type[f] = "stop"
Deletes(f) == Type[f] \in {"delete", "restart"}

\* _build_delay_params: randint refuses a reversed range; what holds no number is
\* replaced by a default.
DelayBuilds(given) == given # "reversed"

\* _build_loss_params: _parse_percent_range puts a reversed range right; float
\* refuses what is no number.
LossBuilds(given) == given # "garbled"

\* The percent, correlation and gap of the other network faults go the same way.
OtherBuilds(given) == given # "garbled"

\* The fault type is known and its parameters make a command.
Builds(f) ==
    CASE Type[f] = "delay" -> DelayBuilds(Given[f])
      [] Type[f] = "loss" -> LossBuilds(Given[f])
      [] Type[f] \in NetworkType \ {"delay", "loss"} -> OtherBuilds(Given[f])
      [] OTHER -> Type[f] # "unknown"

\* NetworkFaultInjector._get_device
DeviceOf(f) == IF Named[f] = NoDevice THEN configured ELSE Named[f]

Pause(p) == <<p, 0>>
Runs(p) == <<p, main[p]>>
Exists(c, n) == c # Gone /\ home[c[1]] = n

Init ==
    /\ pc = [f \in Fault |-> "inject"]
    /\ on = [f \in Fault |-> Nowhere]
    /\ hold = [f \in Fault |-> Gone]
    /\ stopped = [f \in Fault |-> {}]
    /\ home \in [Pod -> Node]
    /\ born \in {b \in [Pod -> 1..Cardinality(Pod)] : \A p, q \in Pod : b[p] = b[q] => p = q}
    /\ main = [p \in Pod |-> 1]
    /\ configured \in Device
    /\ qdisc = [l \in Link |-> NoFault]
    /\ halted = {} /\ host = TRUE
    /\ churn = 0 /\ shaken = {} /\ blind = {}

Goes(f, there) == pc' = [pc EXCEPT ![f] = there]

\* inject or recover returns.
Returns(f, there) ==
    /\ Goes(f, there)
    /\ on' = [on EXCEPT ![f] = Nowhere]
    /\ hold' = [hold EXCEPT ![f] = Gone]

-----------------------------------------------------------------------------
(* The lookups *)

\* An environment names the node.
HasEnvironment(n) == n \in Known

\* PodManager.get_pod_node, then _get_executor_by_node, which connects, or
\* _find_environment_by_nodename, which leaves that to the first command.
Locate(f) ==
    /\ \/ pc[f] = "inject" /\ (Network(f) \/ Stop(f)) /\ Builds(f)
       \/ pc[f] = "in" /\ Network(f)
    /\ HasEnvironment(home[Target[f]])
    /\ on' = [on EXCEPT ![f] = home[Target[f]]]
    /\ Goes(f, IF pc[f] = "inject" THEN "find" ELSE "refind")
    /\ UNCHANGED <<hold, stopped, world, damage, blind>>

\* Mutant: the last line of docker ps.
FindLast(f) ==
    /\ pc[f] \in {"find", "refind"} /\ Network(f)
    /\ \E p \in Family[Target[f]] :
          /\ home[p] = on[f]
          /\ \A q \in Family[Target[f]] :
                home[q] = on[f] => IF pc[f] = "find" THEN born[q] <= born[p] ELSE born[p] <= born[q]
          /\ hold' = [hold EXCEPT ![f] = Pause(p)]
    /\ Goes(f, IF pc[f] = "find" THEN "apply" ELSE "reapply")
    /\ UNCHANGED <<on, stopped, world, damage, blind>>

\* docker ps | grep name | grep k8s_POD on the node found: names that contain the
\* pod's match too, the newest container comes first, and the first line is taken.
FindPause(f) ==
    /\ pc[f] \in {"find", "refind"} /\ Network(f)
    /\ \E p \in Family[Target[f]] :
          /\ home[p] = on[f]
          /\ \A q \in Family[Target[f]] : home[q] = on[f] => born[q] <= born[p]
          /\ hold' = [hold EXCEPT ![f] = Pause(p)]
    /\ Goes(f, IF pc[f] = "find" THEN "apply" ELSE "reapply")
    /\ UNCHANGED <<on, stopped, world, damage, blind>>

\* _stop_pod asks kubectl, which knows the pod by its whole name.
FindMain(f) ==
    /\ pc[f] = "find" /\ ~Network(f)
    /\ home[Target[f]] # Nowhere
    /\ hold' = [hold EXCEPT ![f] = Runs(Target[f])]
    /\ Goes(f, "apply")
    /\ UNCHANGED <<on, stopped, world, damage, blind>>

\* docker inspect: the container is there still.
HasPid(c) == c # Gone

-----------------------------------------------------------------------------
(* inject *)

\* A parameter does not parse, the fault type is unknown, a lookup or the command
\* fails: False.  The command may have taken effect when its answer is lost.
InjectFails(f) ==
    /\ pc[f] \in {"inject", "find", "apply"}
    /\ Returns(f, "false")
    /\ UNCHANGED <<stopped, world, damage, blind>>

\* Mutant: tc qdisc replace instead of tc qdisc add.
ReplaceQdisc(f) ==
    /\ pc[f] = "apply" /\ Network(f) /\ HasPid(hold[f])
    /\ qdisc' = [qdisc EXCEPT ![<<hold[f][1], DeviceOf(f)>>] = f]
    /\ \/ Returns(f, "in") /\ UNCHANGED blind
       \/ Returns(f, "false") /\ blind' = blind \cup {f}
    /\ UNCHANGED <<stopped, world, halted, host>>

\* nsenter tc qdisc add: refused by a device that has a root qdisc.
AddQdisc(f) ==
    /\ pc[f] = "apply" /\ Network(f)
    /\ HasPid(hold[f]) /\ qdisc[<<hold[f][1], DeviceOf(f)>>] = NoFault
    /\ qdisc' = [qdisc EXCEPT ![<<hold[f][1], DeviceOf(f)>>] = f]
    /\ \/ Returns(f, "in") /\ UNCHANGED blind
       \/ Returns(f, "false") /\ blind' = blind \cup {f}
    /\ UNCHANGED <<stopped, world, halted, host>>

\* docker stop, on the node found first; also of a container that is stopped.
StopContainer(f) ==
    /\ pc[f] = "apply" /\ Stop(f) /\ Exists(hold[f], on[f])
    /\ halted' = halted \cup {hold[f]}
    /\ \/ /\ stopped' = [stopped EXCEPT ![f] = {hold[f]}]
          /\ Returns(f, "in") /\ UNCHANGED blind
       \/ Returns(f, "false") /\ blind' = blind \cup {f} /\ UNCHANGED stopped
    /\ UNCHANGED <<world, qdisc, host>>

\* What goes with a pod: its containers, its network and the faults on them.
Vanish(p) ==
    /\ home' = [home EXCEPT ![p] = Nowhere]
    /\ hold' = [f \in Fault |-> IF hold[f] # Gone /\ hold[f][1] = p THEN Gone ELSE hold[f]]
    /\ qdisc' = [l \in Link |-> IF l[1] = p THEN NoFault ELSE qdisc[l]]
    /\ halted' = {c \in halted : c[1] # p}
    /\ stopped' = [f \in Fault |-> {IF c # Gone /\ c[1] = p THEN Gone ELSE c : c \in stopped[f]}]
    /\ shaken' = shaken \cup {f \in Fault : p \in Family[Target[f]] /\ pc[f] # "inject"}
    /\ UNCHANGED <<on, born, main, configured, host>>

\* kubectl delete pod --force, or rollout restart.
Delete(f) ==
    /\ pc[f] = "inject" /\ Deletes(f)
    /\ home[Target[f]] # Nowhere
    /\ Vanish(Target[f])
    /\ \E answer \in {"in", "false"} : Goes(f, answer)
    /\ UNCHANGED <<churn, blind>>

-----------------------------------------------------------------------------
(* recover *)

\* nsenter tc qdisc del: it deletes what it finds on eth0, whatever the device of the
\* fault, and True whatever it says.
DelQdisc(f) ==
    /\ pc[f] = "reapply"
    /\ \/ /\ HasPid(hold[f])
          /\ qdisc' = [qdisc EXCEPT ![<<hold[f][1], Eth0>>] = NoFault]
          /\ UNCHANGED blind
       \/ UNCHANGED qdisc /\ blind' = blind \cup {f}
    /\ Returns(f, "over")
    /\ UNCHANGED <<stopped, world, halted, host>>

\* The pod, its node, the container or its pid was not found: tc qdisc del on the
\* host of remote_executor itself, and True.
FallBack(f) ==
    /\ pc[f] \in {"in", "refind", "reapply"} /\ Network(f)
    /\ \E kept \in {host, FALSE} : host' = kept
    /\ blind' = blind \cup {f}
    /\ Returns(f, "over")
    /\ UNCHANGED <<stopped, world, qdisc, halted>>

\* No connection to the node: get_connection raises, recover does not catch it, and
\* the case is over with the fault in place.
RecoverRaises(f) ==
    /\ pc[f] = "in" /\ Network(f)
    /\ blind' = blind \cup {f}
    /\ Returns(f, "false")
    /\ UNCHANGED <<stopped, world, damage>>

\* Mutant: the list is cleared before the loop over it.
ClearFirst(f) ==
    /\ pc[f] = "in" /\ Stop(f)
    /\ stopped' = [stopped EXCEPT ![f] = {}]
    /\ halted' = halted \ stopped'[f]
    /\ Returns(f, "over")
    /\ UNCHANGED <<world, qdisc, host, blind>>

\* docker start of every container stopped, by the executor kept with it.  The list
\* is cleared also when one does not start; recover was False then.
StartContainers(f) ==
    /\ pc[f] = "in" /\ Stop(f)
    /\ \/ Gone \notin stopped[f] /\ halted' = halted \ stopped[f] /\ UNCHANGED blind
       \/ UNCHANGED halted /\ blind' = blind \cup {f}
    /\ stopped' = [stopped EXCEPT ![f] = {}]
    /\ Returns(f, "over")
    /\ UNCHANGED <<world, qdisc, host>>

\* A pod that was deleted or restarted comes back by itself.
RecoverDelete(f) ==
    /\ pc[f] = "in" /\ Deletes(f)
    /\ Goes(f, "over")
    /\ UNCHANGED <<on, hold, stopped, world, damage, blind>>

-----------------------------------------------------------------------------
(* Kubernetes *)

\* A pod is evicted, or its node is lost.
Evict(p) ==
    /\ home[p] # Nowhere /\ churn < MaxChurn
    /\ Vanish(p)
    /\ churn' = churn + 1
    /\ UNCHANGED <<pc, blind>>

\* A pod of that name is created again, on any node.
Create(p) ==
    /\ home[p] = Nowhere /\ churn < MaxChurn
    /\ \E n \in Node : home' = [home EXCEPT ![p] = n]
    /\ born' = [born EXCEPT ![p] = Cardinality(Pod) + 1 + churn]
    /\ churn' = churn + 1
    /\ shaken' = shaken \cup {f \in Fault : p \in Family[Target[f]] /\ pc[f] # "inject"}
    /\ UNCHANGED <<pc, on, hold, stopped, main, configured, damage, blind>>

\* kubelet puts a new container in the place of one that was stopped.
Replace(p) ==
    /\ Runs(p) \in halted /\ churn < MaxChurn
    /\ main' = [main EXCEPT ![p] = @ + 1]
    /\ churn' = churn + 1
    /\ UNCHANGED <<pc, on, hold, stopped, home, born, configured, shaken, damage, blind>>

\* The cases are over, or have died and left their faults.
Terminated ==
    /\ \A f \in Fault : pc[f] \in {"in", "over", "false"}
    /\ UNCHANGED vars

Next ==
    \/ \E f \in Fault :
          \/ Locate(f) \/ FindPause(f) \/ FindMain(f) \/ InjectFails(f)
          \/ AddQdisc(f) \/ StopContainer(f) \/ Delete(f)
          \/ DelQdisc(f) \/ FallBack(f) \/ RecoverRaises(f)
          \/ StartContainers(f) \/ RecoverDelete(f)
    \/ \E p \in Pod : Evict(p) \/ Create(p) \/ Replace(p)
    \/ Terminated

Spec == Init /\ [][Next]_vars

-----------------------------------------------------------------------------
(* Properties *)

TypeOK ==
    /\ pc \in [Fault -> {"inject", "find", "apply", "in", "refind", "reapply",
                         "over", "false"}]
    /\ on \in [Fault -> Node \cup {Nowhere}]
    /\ hold \in [Fault -> Container \cup {Gone}]
    /\ stopped \in [Fault -> SUBSET (Container \cup {Gone})]
    /\ home \in [Pod -> Node \cup {Nowhere}]
    /\ born \in [Pod -> Nat] /\ main \in [Pod -> 1..(MaxChurn + 1)]
    /\ configured \in Device /\ qdisc \in [Link -> Fault \cup {NoFault}]
    /\ halted \subseteq Container /\ host \in BOOLEAN
    /\ churn \in 0..MaxChurn /\ shaken \subseteq Fault /\ blind \subseteq Fault

\* recover, which looks for the pod anew, takes a fault on eth0 from where inject put
\* it, even when the name of the pod is part of another's and the fault is on that one,
\* unless a pod of the family came or went in between or a step of the recover failed
\* (fault/base.py:1029, 1146).
RecoverUndoesInject ==
    \A f \in Fault :
        Network(f) /\ DeviceOf(f) = Eth0 /\ pc[f] = "over" /\ f \notin shaken \cup blind
            => \A l \in Link : qdisc[l] # f

\* A fault of another device was recovered: its recover took whatever was on eth0.
Misdirected == \E f \in Fault : Network(f) /\ DeviceOf(f) # Eth0 /\ pc[f] = "over"

\* Faults that meet on a device of a pod, or of the look-alike of one, exclude each
\* other by the failure of tc qdisc add: as long as no pod comes or goes under a fault,
\* and no fault of another device is recovered, each one ends by its own recover only
\* (fault/base.py:1136, 1153).
FaultsEndByTheirOwn ==
    [][\A l \in Link :
          qdisc[l] # NoFault /\ qdisc'[l] # qdisc[l] /\ shaken' = {} /\ ~Misdirected'
              => pc[qdisc[l]] = "reapply" /\ pc'[qdisc[l]] = "over"]_vars

\* A pod stop lasts until its own recover, except where another stop met it on the
\* container and started it first, or the pod is gone (fault/base.py:1406); and no
\* container stays stopped that no injector is to start, unless a docker start
\* failed or the answer of a docker stop was lost.
StopsAreKept ==
    /\ \A f \in Fault : pc[f] = "in" /\ Stop(f) => \A c \in stopped[f] :
          \/ c \in halted \cup {Gone}
          \/ \E g \in Fault \ {f} : Stop(g) /\ Target[g] = Target[f] /\ pc[g] = "over"
    /\ \A c \in halted : \/ \E f \in Fault : c \in stopped[f]
                         \/ \E f \in blind : Stop(f) /\ Target[f] = c[1]
=============================================================================
