------------------------------ MODULE PodProofs ------------------------------
(***************************************************************************)
(* Proofs about the pods of chaos/utils/pod.py and chaos/fault/base.py.    *)
(* PodInjectors, for every set of faults of any types and parameters, on   *)
(* any pods, whose names may contain each other's, and any nodes;          *)
(* PodManager, for every finite set of pods, in any shards, and every      *)
(* query; both for every bound on what the cluster does meanwhile.         *)
(***************************************************************************)
EXTENDS PodInjectors, PodManager, FiniteSetTheorems, TLAPS

\* A cluster has a number of pods.
LEMMA PodsAreCounted == Cardinality(Pod) \in Nat
  BY PodsAreFinite, FS_CardinalityType

-----------------------------------------------------------------------------
(* The pod injectors: what holds between the steps *)

\* The creation times of two pods differ, and none is ahead of the clock.
CreationTimes ==
    /\ \A x, y \in Pod : born[x] = born[y] => x = y
    /\ \A x \in Pod : born[x] <= Cardinality(Pod) + churn

\* A container is replaced once per step of the clock at most.
Replacements == \A x \in Pod : main[x] <= churn + 1

\* The pod that docker ps lists first for f, on the node of its target.
Newest(f, x) ==
    /\ x \in Family[Target[f]] /\ home[x] = home[Target[f]]
    /\ \A y \in Family[Target[f]] : home[y] = home[Target[f]] => born[y] <= born[x]

\* As long as no pod of the family came or went, what a network fault found, and
\* what it put its qdisc on, is what it would find now.
LooksRight ==
    \A f \in Fault : Network(f) /\ f \notin shaken =>
        /\ pc[f] \in {"find", "refind"} => on[f] = home[Target[f]]
        /\ pc[f] \in {"apply", "reapply"} => \E x \in Pod : Newest(f, x) /\ hold[f] = Pause(x)
        /\ \A l \in Link : qdisc[l] = f => Newest(f, l[1])

\* A qdisc is of a network fault that was injected, on its device of a pod of its family.
QdiscsAreInjected ==
    \A l \in Link : qdisc[l] # NoFault =>
        /\ Network(qdisc[l]) /\ l[1] \in Family[Target[qdisc[l]]] /\ l[2] = DeviceOf(qdisc[l])
        /\ pc[qdisc[l]] \notin {"inject", "find", "apply"}

\* While every pod stays and no recover goes to a wrong device, a fault that is in has
\* its qdisc.
InjectedHaveQdiscs ==
    shaken = {} /\ ~Misdirected =>
        \A f \in Fault : Network(f) /\ pc[f] \in {"in", "refind", "reapply"} =>
            \E l \in Link : qdisc[l] = f

\* A stop lists, and holds, a container of its own target only; a network fault holds
\* one of the family.
OwnContainers ==
    \A f \in Fault :
        /\ stopped[f] # {} => pc[f] = "in" /\ Stop(f)
        /\ \A c \in stopped[f] : c # Gone => c[1] = Target[f]
        /\ Stop(f) /\ hold[f] # Gone => hold[f][1] = Target[f]
        /\ Network(f) /\ hold[f] # Gone => hold[f][1] \in Family[Target[f]]

\* Only recover of a network fault looks for its pod again.
OnlyNetworkLooksAgain ==
    \A f \in Fault : pc[f] \in {"refind", "reapply"} => Network(f)

InjectorInv ==
    /\ TypeOK /\ CreationTimes /\ Replacements /\ LooksRight /\ QdiscsAreInjected
    /\ InjectedHaveQdiscs /\ OnlyNetworkLooksAgain /\ OwnContainers
    /\ RecoverUndoesInject /\ StopsAreKept

\* Two pods are not both the newest of a family.
LEMMA NewestIsOne ==
    ASSUME TypeOK, CreationTimes, NEW f \in Fault, NEW x \in Pod, NEW y \in Pod,
           Newest(f, x), Newest(f, y)
    PROVE  x = y
  BY DEF TypeOK, CreationTimes, Newest

\* A network fault is no stop and deletes nothing.
LEMMA OneType ==
    ASSUME NEW f \in Fault
    PROVE  /\ Network(f) => ~Stop(f) /\ ~Deletes(f)
           /\ Stop(f) => ~Deletes(f)
  BY DEF Network, Stop, Deletes, NetworkType

\* _get_device gives a device.
LEMMA DeviceIs == ASSUME TypeOK, NEW f \in Fault PROVE DeviceOf(f) \in Device
<1>1. Named[f] \in Device \cup {NoDevice}
  BY PodAssumption
<1>2. QED
  BY <1>1 DEF TypeOK, DeviceOf

\* Initially no call has been made.
LEMMA InjectorsInit == Init => InjectorInv
<1> SUFFICES ASSUME Init PROVE InjectorInv
  OBVIOUS
<1> USE PodAssumption, GoneAssumption, PodsAreCounted DEF Init
<1>1. TypeOK
  BY DEF TypeOK
<1>2. CreationTimes /\ Replacements /\ OnlyNetworkLooksAgain
  BY DEF CreationTimes, Replacements, OnlyNetworkLooksAgain
<1>3. LooksRight /\ QdiscsAreInjected /\ InjectedHaveQdiscs
  BY DEF LooksRight, QdiscsAreInjected, InjectedHaveQdiscs
<1>4. OwnContainers /\ RecoverUndoesInject /\ StopsAreKept
  BY DEF OwnContainers, RecoverUndoesInject, StopsAreKept
<1>5. QED
  BY <1>1, <1>2, <1>3, <1>4 DEF InjectorInv

-----------------------------------------------------------------------------
(* The pod injectors: every step keeps it *)

\* A pod vanishes: what was on it goes too, and whoever looked for it is shaken.
LEMMA VanishKeeps ==
    ASSUME InjectorInv, NEW p \in Pod, Vanish(p), blind' = blind,
           churn' \in {churn, churn + 1}, churn' <= MaxChurn,
           \/ pc' = pc
           \/ \E f \in Fault : /\ pc[f] = "inject" /\ Deletes(f)
                               /\ \E verdict \in {"in", "false"} : Goes(f, verdict)
    PROVE  InjectorInv'
<1> USE PodAssumption, GoneAssumption, PodsAreCounted, OneType DEF InjectorInv, Goes
<1>1. /\ home' = [home EXCEPT ![p] = Nowhere]
      /\ qdisc' = [l \in Link |-> IF l[1] = p THEN NoFault ELSE qdisc[l]]
      /\ hold' = [f \in Fault |-> IF hold[f] # Gone /\ hold[f][1] = p THEN Gone ELSE hold[f]]
      /\ stopped' = [f \in Fault |->
                       {IF c # Gone /\ c[1] = p THEN Gone ELSE c : c \in stopped[f]}]
      /\ halted' = {c \in halted : c[1] # p}
      /\ shaken' = shaken \cup {f \in Fault : p \in Family[Target[f]] /\ pc[f] # "inject"}
      /\ UNCHANGED <<on, born, main, configured, host, blind>>
  BY DEF Vanish
<1>2. TypeOK'
  <2>1. pc' \in [Fault -> {"inject", "find", "apply", "in", "refind", "reapply",
                           "over", "false"}]
    BY DEF TypeOK
  <2>2. hold' \in [Fault -> Container \cup {Gone}]
    BY <1>1 DEF TypeOK
  <2>3. stopped' \in [Fault -> SUBSET (Container \cup {Gone})]
    BY <1>1 DEF TypeOK
  <2>4. QED
    BY <1>1, <2>1, <2>2, <2>3 DEF TypeOK
<1>3. CreationTimes' /\ Replacements' /\ OnlyNetworkLooksAgain'
  BY <1>1 DEF TypeOK, CreationTimes, Replacements, OnlyNetworkLooksAgain
<1>4. LooksRight'
  <2>1. ASSUME NEW g \in Fault, Network(g), g \notin shaken'
        PROVE  /\ g \notin shaken /\ pc'[g] = pc[g]
               /\ pc[g] # "inject" => p \notin Family[Target[g]]
    BY <1>1, <2>1 DEF TypeOK
  <2>2. ASSUME NEW g \in Fault, Network(g), g \notin shaken', pc[g] # "inject", NEW x \in Pod
        PROVE  /\ x = p => ~Newest(g, x)
               /\ Newest(g, x) => Newest(g, x)' /\ x # p
    BY <1>1, <2>1, <2>2 DEF TypeOK, Newest
  <2>3. QED
    BY <1>1, <2>1, <2>2 DEF TypeOK, LooksRight, QdiscsAreInjected, Pause
<1>5. QdiscsAreInjected' /\ InjectedHaveQdiscs'
  <2>1. /\ \A l \in Link : qdisc'[l] = IF l[1] = p THEN NoFault ELSE qdisc[l]
        /\ \A l \in Link : qdisc[l] \in Fault \cup {NoFault}
    BY <1>1 DEF TypeOK
  <2>2. QdiscsAreInjected'
    BY <1>1, <2>1 DEF TypeOK, QdiscsAreInjected, DeviceOf
  <2>3. \A f \in Fault : /\ pc'[f] = "over" <=> pc[f] = "over"
                         /\ Network(f) => pc'[f] = pc[f]
    BY DEF TypeOK
  <2>4. ASSUME shaken' = {}, ~Misdirected', NEW f \in Fault, Network(f),
               pc'[f] \in {"in", "refind", "reapply"}
        PROVE  \E l \in Link : qdisc'[l] = f
    <3>1. shaken = {} /\ ~Misdirected
      BY <1>1, <2>3, <2>4 DEF Misdirected, DeviceOf
    <3>2. PICK l \in Link : qdisc[l] = f
      BY <2>3, <2>4, <3>1 DEF InjectedHaveQdiscs
    <3>3. l[1] \in Family[Target[f]]
      BY <3>2 DEF QdiscsAreInjected
    <3>4. l[1] # p
      BY <1>1, <2>3, <2>4, <3>3
    <3>5. QED
      BY <2>1, <3>2, <3>4
  <2>5. QED
    BY <2>2, <2>4 DEF InjectedHaveQdiscs
<1>6. OwnContainers'
  BY <1>1 DEF TypeOK, OwnContainers
<1>7. RecoverUndoesInject'
  BY <1>1 DEF TypeOK, RecoverUndoesInject, QdiscsAreInjected, DeviceOf
<1>8. StopsAreKept'
  <2>1. \A f \in Fault : /\ pc'[f] = "in" /\ Stop(f) => pc[f] = "in"
                         /\ pc[f] = "over" => pc'[f] = "over"
    BY DEF TypeOK
  <2>2. \A f \in Fault : \A c \in stopped'[f] : c = Gone \/ (c \in stopped[f] /\ c[1] # p)
    BY <1>1
  <2>3. \A f \in Fault : \A c \in stopped[f] : c[1] # p => c \in stopped'[f]
    BY <1>1
  <2>4. QED
    BY <1>1, <2>1, <2>2, <2>3 DEF StopsAreKept
<1>9. QED
  BY <1>2, <1>3, <1>4, <1>5, <1>6, <1>7, <1>8

\* The steps of a fault that leave the pods, and what is on them, alone.
Quietly(f) ==
    \/ Locate(f) \/ FindPause(f) \/ FindMain(f) \/ InjectFails(f)
    \/ FallBack(f) \/ RecoverRaises(f) \/ RecoverDelete(f)

Before == {"inject", "find", "apply"}

\* What such a step may do to its own fault.
Advances(f) ==
    /\ \A g \in Fault \ {f} : pc'[g] = pc[g] /\ on'[g] = on[g] /\ hold'[g] = hold[g]
    /\ blind \subseteq blind' /\ pc[f] \notin {"over", "false"}
    /\ pc'[f] \in Before => pc[f] \in Before
    /\ pc[f] \in Before => pc'[f] \in Before \cup {"false"}
    /\ pc'[f] \in {"refind", "reapply"} => Network(f)
    /\ Network(f) /\ pc'[f] = "over" => f \in blind'
    /\ Network(f) /\ pc'[f] \in {"find", "refind"} => on'[f] = home[Target[f]]
    /\ pc'[f] \in {"apply", "reapply"} => FindPause(f) \/ FindMain(f)
    /\ Stop(f) => pc[f] # "in"
    /\ hold'[f] = Gone \/ hold'[f] = hold[f] \/ FindMain(f) \/ FindPause(f)

\* Each of those steps does no more than that, and keeps the types.
LEMMA QuietAdvances ==
    ASSUME InjectorInv, NEW f \in Fault, Quietly(f)
    PROVE  UNCHANGED <<stopped, world, qdisc, halted>> /\ TypeOK' /\ Advances(f)
<1> USE PodAssumption, GoneAssumption, OneType
    DEF InjectorInv, TypeOK, Goes, Returns, Advances, Before, world, damage
<1>1. /\ \A x \in Family[Target[f]] : Pause(x) \in Container
      /\ Runs(Target[f]) \in Container
  BY DEF Pause, Runs, Container
<1>2. CASE Locate(f) BY <1>2 DEF Locate
<1>3. CASE FindPause(f)
  <2>1. /\ pc[f] \in {"find", "refind"} /\ Network(f)
        /\ pc' = [pc EXCEPT ![f] = IF pc[f] = "find" THEN "apply" ELSE "reapply"]
        /\ \E x \in Family[Target[f]] : hold' = [hold EXCEPT ![f] = Pause(x)]
        /\ UNCHANGED <<on, stopped, world, damage, blind>>
    BY <1>3 DEF FindPause
  <2>2. QED
    BY <1>1, <1>3, <2>1
<1>4. CASE FindMain(f) BY <1>1, <1>4 DEF FindMain
<1>5. CASE InjectFails(f) BY <1>5 DEF InjectFails
<1>6. CASE FallBack(f) BY <1>6 DEF FallBack
<1>7. CASE RecoverRaises(f) BY <1>7 DEF RecoverRaises
<1>8. CASE RecoverDelete(f) BY <1>8 DEF RecoverDelete
<1>9. QED BY <1>2, <1>3, <1>4, <1>5, <1>6, <1>7, <1>8 DEF Quietly

LEMMA QuietKeeps == ASSUME InjectorInv, NEW f \in Fault, Quietly(f) PROVE InjectorInv'
<1>1. UNCHANGED <<stopped, world, qdisc, halted>> /\ TypeOK' /\ Advances(f)
  BY QuietAdvances
<1> USE <1>1 DEF InjectorInv, world, Advances, Before
<1>2. CreationTimes' /\ Replacements' /\ OnlyNetworkLooksAgain'
  BY DEF CreationTimes, Replacements, OnlyNetworkLooksAgain
<1>3. LooksRight'
  <2>1. \A g \in Fault, x \in Pod : Newest(g, x) => Newest(g, x)'
    BY DEF Newest
  <2>2. ASSUME Network(f), f \notin shaken, pc'[f] \in {"apply", "reapply"}
        PROVE  \E x \in Pod : Newest(f, x) /\ hold'[f] = Pause(x)
    BY <2>2, PodAssumption DEF TypeOK, LooksRight, Newest, FindPause, FindMain
  <2>3. \A l \in Link : l[1] \in Pod
    BY DEF Link
  <2>4. ASSUME NEW g \in Fault, Network(g), g \notin shaken
        PROVE  /\ pc'[g] \in {"find", "refind"} => on'[g] = home[Target[g]]
               /\ pc'[g] \in {"apply", "reapply"} =>
                     \E x \in Pod : Newest(g, x) /\ hold'[g] = Pause(x)
               /\ \A l \in Link : qdisc[l] = g => Newest(g, l[1])
    BY <2>2, <2>4 DEF LooksRight
  <2>5. QED
    BY <2>1, <2>3, <2>4 DEF LooksRight
<1>4. QdiscsAreInjected' /\ InjectedHaveQdiscs'
  <2>1. QdiscsAreInjected'
    BY DEF TypeOK, QdiscsAreInjected, DeviceOf
  <2>2. Misdirected => Misdirected'
    BY DEF Misdirected, DeviceOf
  <2>3. \A g \in Fault : Network(g) /\ pc'[g] \in {"in", "refind", "reapply"} =>
                        pc[g] \in {"in", "refind", "reapply"}
    BY DEF TypeOK
  <2>4. QED
    BY <2>1, <2>2, <2>3 DEF InjectedHaveQdiscs
<1>5. OwnContainers'
  BY OneType DEF TypeOK, OwnContainers, FindMain, Runs, FindPause, Pause
<1>6. RecoverUndoesInject'
  BY DEF RecoverUndoesInject, DeviceOf
<1>7. StopsAreKept'
  BY DEF TypeOK, StopsAreKept, OwnContainers
<1>8. QED
  BY <1>1, <1>2, <1>3, <1>4, <1>5, <1>6, <1>7

\* A qdisc is put on a device that has none, and is that of the newest pod.
LEMMA AddQdiscKeeps == ASSUME InjectorInv, NEW f \in Fault, AddQdisc(f) PROVE InjectorInv'
<1> DEFINE link == <<hold[f][1], DeviceOf(f)>>
<1> USE PodAssumption, GoneAssumption, OneType DEF InjectorInv
<1>1. /\ Network(f) /\ pc[f] = "apply" /\ hold[f] # Gone /\ qdisc[link] = NoFault
      /\ qdisc' = [qdisc EXCEPT ![link] = f]
      /\ UNCHANGED <<stopped, world, halted, host>> /\ blind' \subseteq blind \cup {f}
      /\ blind \subseteq blind'
      /\ on' = [on EXCEPT ![f] = Nowhere] /\ hold' = [hold EXCEPT ![f] = Gone]
      /\ \/ pc' = [pc EXCEPT ![f] = "in"] /\ blind' = blind
         \/ pc' = [pc EXCEPT ![f] = "false"]
  BY DEF AddQdisc, HasPid, Returns, Goes
<1>2. hold[f][1] \in Pod /\ link \in Link /\ link[1] = hold[f][1] /\ link[2] = DeviceOf(f)
  <2>1. hold[f] \in Container
    BY <1>1 DEF TypeOK
  <2>2. hold[f][1] \in Pod
    BY <2>1 DEF Container
  <2>3. QED
    BY <2>2, DeviceIs DEF Link
<1> HIDE DEF link
<1>3. /\ pc'[f] \in {"in", "false"} /\ \A g \in Fault \ {f} : pc'[g] = pc[g]
      /\ hold'[f] = Gone /\ \A g \in Fault \ {f} : hold'[g] = hold[g]
      /\ \A g \in Fault \ {f} : on'[g] = on[g]
      /\ qdisc'[link] = f /\ \A l \in Link \ {link} : qdisc'[l] = qdisc[l]
      /\ TypeOK'
  BY <1>1, <1>2 DEF TypeOK, world
<1>4. CreationTimes' /\ Replacements' /\ OnlyNetworkLooksAgain'
  BY <1>1, <1>3 DEF TypeOK, CreationTimes, Replacements, OnlyNetworkLooksAgain, world
<1>5. LooksRight'
  <2>1. f \notin shaken => Newest(f, hold[f][1])
    BY <1>1 DEF TypeOK, LooksRight, Pause
  <2>2. \A g \in Fault, x \in Pod : Newest(g, x) => Newest(g, x)'
    BY <1>1 DEF Newest, world
  <2>3. ASSUME NEW g \in Fault, Network(g), g \notin shaken
        PROVE  /\ pc'[g] \in {"find", "refind"} => on'[g] = home[Target[g]]
               /\ pc'[g] \in {"apply", "reapply"} =>
                     \E x \in Pod : Newest(g, x) /\ hold'[g] = Pause(x)
               /\ \A l \in Link : qdisc'[l] = g => Newest(g, l[1])
    BY <1>1, <1>2, <1>3, <2>1, <2>3 DEF LooksRight
  <2>4. \A l \in Link : l[1] \in Pod
    BY DEF Link
  <2>5. QED
    BY <1>1, <2>2, <2>3, <2>4 DEF LooksRight, world
<1>6. QdiscsAreInjected'
  BY <1>1, <1>2, <1>3 DEF TypeOK, QdiscsAreInjected, OwnContainers, DeviceOf, world
<1>7. InjectedHaveQdiscs'
  <2>1. Misdirected => Misdirected'
    BY <1>1, <1>3 DEF Misdirected, DeviceOf, world
  <2>2. ASSUME NEW g \in Fault \ {f}, NEW l \in Link, qdisc[l] = g
        PROVE  qdisc'[l] = g
    BY <1>1, <1>3, <2>2
  <2>3. ASSUME shaken = {}, ~Misdirected', NEW g \in Fault, Network(g),
               pc'[g] \in {"in", "refind", "reapply"}
        PROVE  \E l \in Link : qdisc'[l] = g
    <3>1. CASE g = f
      BY <1>2, <1>3, <3>1
    <3>2. CASE g # f
      BY <1>3, <2>1, <2>2, <2>3, <3>2 DEF InjectedHaveQdiscs
    <3>3. QED
      BY <3>1, <3>2
  <2>4. QED
    BY <1>1, <2>3 DEF InjectedHaveQdiscs, world
<1>8. OwnContainers' /\ RecoverUndoesInject'
  BY <1>1, <1>2, <1>3 DEF TypeOK, OwnContainers, RecoverUndoesInject, DeviceOf, world
<1>9. StopsAreKept'
  BY <1>1, <1>3 DEF TypeOK, StopsAreKept
<1>10. QED
  BY <1>3, <1>4, <1>5, <1>6, <1>7, <1>8, <1>9

\* recover takes the qdisc of the newest pod's eth0.  As long as every pod stays it is
\* its own, if it is a fault of eth0.
LEMMA DelQdiscTakesItsOwn ==
    ASSUME InjectorInv, NEW f \in Fault, DelQdisc(f), NEW l \in Link, qdisc'[l] # qdisc[l]
    PROVE  /\ l = <<hold[f][1], Eth0>> /\ qdisc'[l] = NoFault
           /\ shaken = {} /\ ~Misdirected' => qdisc[l] = f
<1> USE DEF InjectorInv
<1>1. /\ qdisc' = [qdisc EXCEPT ![<<hold[f][1], Eth0>>] = NoFault]
      /\ pc[f] = "reapply" /\ pc' = [pc EXCEPT ![f] = "over"]
      /\ hold[f] # Gone /\ configured' = configured
  BY DEF DelQdisc, HasPid, Returns, Goes, world
<1>2. l = <<hold[f][1], Eth0>> /\ qdisc'[l] = NoFault
  BY <1>1 DEF TypeOK
<1>3. ASSUME shaken = {}, ~Misdirected' PROVE qdisc[l] = f
  <2>1. Network(f)
    BY <1>1 DEF OnlyNetworkLooksAgain
  <2>2. \A g \in Fault : pc'[g] = IF g = f THEN "over" ELSE pc[g]
    BY <1>1 DEF TypeOK
  <2>3. ~Misdirected /\ DeviceOf(f) = Eth0
    BY <1>1, <1>3, <2>1, <2>2 DEF Misdirected, DeviceOf
  <2>4. PICK k \in Link : qdisc[k] = f
    BY <1>1, <1>3, <2>1, <2>3 DEF InjectedHaveQdiscs
  <2>5. k[1] \in Pod /\ k = <<k[1], k[2]>> /\ k[2] = Eth0
    BY <2>3, <2>4, PodAssumption DEF Link, QdiscsAreInjected
  <2>6. PICK y \in Pod : Newest(f, y) /\ hold[f] = Pause(y)
    BY <1>1, <1>3, <2>1 DEF LooksRight
  <2>7. Newest(f, k[1])
    BY <1>3, <2>1, <2>4 DEF LooksRight
  <2>8. k[1] = y
    BY <2>5, <2>6, <2>7, NewestIsOne
  <2>9. l = k
    BY <1>2, <2>5, <2>6, <2>8 DEF Pause
  <2>10. QED
    BY <2>4, <2>9
<1>4. QED
  BY <1>2, <1>3

LEMMA DelQdiscKeeps == ASSUME InjectorInv, NEW f \in Fault, DelQdisc(f) PROVE InjectorInv'
<1> USE PodAssumption, GoneAssumption, OneType DEF InjectorInv
<1>1. /\ pc[f] = "reapply" /\ pc' = [pc EXCEPT ![f] = "over"]
      /\ on' = [on EXCEPT ![f] = Nowhere] /\ hold' = [hold EXCEPT ![f] = Gone]
      /\ UNCHANGED <<stopped, world, halted, host>>
      /\ \/ /\ hold[f] # Gone /\ blind' = blind
            /\ qdisc' = [qdisc EXCEPT ![<<hold[f][1], Eth0>>] = NoFault]
         \/ qdisc' = qdisc /\ blind' = blind \cup {f}
  BY DEF DelQdisc, HasPid, Returns, Goes
<1>2. /\ pc'[f] = "over" /\ \A g \in Fault \ {f} : pc'[g] = pc[g]
      /\ hold'[f] = Gone /\ \A g \in Fault \ {f} : hold'[g] = hold[g]
      /\ \A g \in Fault \ {f} : on'[g] = on[g]
      /\ TypeOK' /\ Network(f) /\ blind \subseteq blind'
  BY <1>1 DEF TypeOK, OnlyNetworkLooksAgain, world
<1>3. \A l \in Link : qdisc'[l] = qdisc[l] \/ qdisc'[l] = NoFault
  BY DelQdiscTakesItsOwn
<1>4. CreationTimes' /\ Replacements' /\ OnlyNetworkLooksAgain'
  BY <1>1, <1>2 DEF TypeOK, CreationTimes, Replacements, OnlyNetworkLooksAgain, world
<1>5. LooksRight'
  BY <1>1, <1>2, <1>3 DEF LooksRight, Newest, world
<1>6. QdiscsAreInjected'
  BY <1>1, <1>2, <1>3 DEF TypeOK, QdiscsAreInjected, DeviceOf, world
<1>7. InjectedHaveQdiscs'
  <2>1. shaken = {} /\ ~Misdirected' =>
           \A l \in Link : qdisc'[l] = qdisc[l] \/ qdisc[l] = f
    BY DelQdiscTakesItsOwn
  <2>2. Misdirected => Misdirected'
    BY <1>1, <1>2 DEF Misdirected, DeviceOf, world
  <2>3. ASSUME shaken = {}, ~Misdirected', NEW g \in Fault, Network(g),
               pc'[g] \in {"in", "refind", "reapply"}
        PROVE  \E l \in Link : qdisc'[l] = g
    <3>1. g # f /\ pc'[g] = pc[g]
      BY <1>2, <2>3
    <3>2. PICK l \in Link : qdisc[l] = g
      BY <2>2, <2>3, <3>1 DEF InjectedHaveQdiscs
    <3>3. QED
      BY <2>1, <2>3, <3>1, <3>2
  <2>4. QED
    BY <1>1, <2>3 DEF InjectedHaveQdiscs, world
<1>8. OwnContainers'
  BY <1>1, <1>2 DEF TypeOK, OwnContainers
<1>9. RecoverUndoesInject'
  <2>1. ASSUME f \notin shaken \cup blind', DeviceOf(f) = Eth0, NEW l \in Link PROVE qdisc'[l] # f
    <3>1. PICK y \in Pod : Newest(f, y) /\ hold[f] = Pause(y)
      BY <1>1, <1>2, <2>1 DEF LooksRight
    <3>2. qdisc' = [qdisc EXCEPT ![<<y, Eth0>>] = NoFault]
      BY <1>1, <2>1, <3>1 DEF Pause
    <3>3. CASE l = <<y, Eth0>>
      BY <3>2, <3>3 DEF TypeOK
    <3>4. CASE l # <<y, Eth0>>
      <4>1. SUFFICES ASSUME qdisc[l] = f PROVE FALSE
        BY <3>2, <3>4 DEF TypeOK
      <4>2. l[1] \in Pod /\ l = <<l[1], l[2]>> /\ l[2] = Eth0
        BY <2>1, <4>1 DEF Link, QdiscsAreInjected
      <4>3. Newest(f, l[1])
        BY <1>2, <2>1, <4>1 DEF LooksRight
      <4>4. l[1] = y
        BY <3>1, <4>2, <4>3, NewestIsOne
      <4>5. QED
        BY <3>4, <4>2, <4>4
    <3>5. QED
      BY <3>3, <3>4
  <2>2. QED
    BY <1>1, <1>2, <1>3, <2>1 DEF TypeOK, RecoverUndoesInject, DeviceOf, world
<1>10. StopsAreKept'
  BY <1>1, <1>2 DEF TypeOK, StopsAreKept, OwnContainers
<1>11. QED
  BY <1>2, <1>4, <1>5, <1>6, <1>7, <1>8, <1>9, <1>10

\* A stop lists the one container it stopped.
LEMMA StopContainerKeeps ==
    ASSUME InjectorInv, NEW f \in Fault, StopContainer(f) PROVE InjectorInv'
<1> USE PodAssumption, GoneAssumption, OneType DEF InjectorInv, world
<1>1. /\ pc[f] = "apply" /\ Stop(f) /\ hold[f] \in Container
      /\ pc'[f] \in {"in", "false"} /\ \A g \in Fault \ {f} : pc'[g] = pc[g]
      /\ hold'[f] = Gone /\ \A g \in Fault \ {f} : hold'[g] = hold[g]
      /\ \A g \in Fault \ {f} : on'[g] = on[g]
      /\ UNCHANGED <<world, qdisc>>
      /\ TypeOK'
  BY DEF StopContainer, Exists, Returns, Goes, TypeOK
<1>2. /\ stopped[f] = {} /\ hold[f][1] = Target[f]
      /\ \A g \in Fault \ {f} : stopped'[g] = stopped[g]
      /\ \/ stopped'[f] = {hold[f]} /\ pc'[f] = "in"
         \/ stopped'[f] = {} /\ f \in blind'
      /\ halted' = halted \cup {hold[f]} /\ blind \subseteq blind'
  BY DEF StopContainer, Exists, Returns, Goes, TypeOK, OwnContainers
<1>3. CreationTimes' /\ Replacements' /\ OnlyNetworkLooksAgain' /\ OwnContainers'
  BY <1>1, <1>2 DEF CreationTimes, Replacements, OnlyNetworkLooksAgain, OwnContainers
<1>4. LooksRight' /\ QdiscsAreInjected' /\ RecoverUndoesInject'
  BY <1>1, <1>2 DEF TypeOK, LooksRight, Newest, QdiscsAreInjected, RecoverUndoesInject, DeviceOf
<1>9. InjectedHaveQdiscs'
  <2>1. Misdirected => Misdirected'
    BY <1>1 DEF Misdirected, DeviceOf
  <2>2. QED
    BY <1>1, <2>1 DEF InjectedHaveQdiscs
<1>5. ASSUME NEW g \in Fault, pc'[g] = "in", Stop(g), NEW c \in stopped'[g]
      PROVE  \/ c \in halted' \cup {Gone}
             \/ \E h \in Fault \ {g} : Stop(h) /\ Target[h] = Target[g] /\ pc'[h] = "over"
  <2>1. CASE g = f
    BY <1>1, <1>2, <1>5, <2>1
  <2>2. CASE g # f
    <3>1. \/ c \in halted \cup {Gone}
          \/ \E h \in Fault \ {g} : Stop(h) /\ Target[h] = Target[g] /\ pc[h] = "over"
      BY <1>1, <1>2, <1>5, <2>2 DEF StopsAreKept
    <3>2. QED
      BY <1>1, <1>2, <3>1
  <2>3. QED
    BY <2>1, <2>2
<1>6. ASSUME NEW c \in halted'
      PROVE  \/ \E g \in Fault : c \in stopped'[g]
             \/ \E g \in blind' : Stop(g) /\ Target[g] = c[1]
  <2>1. CASE c = hold[f]
    BY <1>1, <1>2, <2>1
  <2>2. CASE c \in halted
    BY <1>2, <2>2 DEF StopsAreKept
  <2>3. QED
    BY <1>2, <1>6, <2>1, <2>2
<1>7. StopsAreKept'
  BY <1>5, <1>6 DEF StopsAreKept, Stop
<1>8. QED
  BY <1>1, <1>3, <1>4, <1>7, <1>9

\* docker start of what is listed: of containers of the target only.
LEMMA StartContainersKeeps ==
    ASSUME InjectorInv, NEW f \in Fault, StartContainers(f) PROVE InjectorInv'
<1> USE PodAssumption, GoneAssumption, OneType DEF InjectorInv, world
<1>1. /\ pc[f] = "in" /\ Stop(f) /\ stopped'[f] = {}
      /\ pc'[f] = "over" /\ \A g \in Fault \ {f} : pc'[g] = pc[g]
      /\ hold'[f] = Gone /\ \A g \in Fault \ {f} : hold'[g] = hold[g]
      /\ \A g \in Fault \ {f} : on'[g] = on[g]
      /\ \A g \in Fault \ {f} : stopped'[g] = stopped[g]
      /\ UNCHANGED <<world, qdisc>>
      /\ TypeOK'
  BY DEF StartContainers, Returns, Goes, TypeOK
<1>2. /\ blind \subseteq blind'
      /\ \/ Gone \notin stopped[f] /\ halted' = halted \ stopped[f]
         \/ halted' = halted /\ f \in blind'
      /\ \A c \in stopped[f] : c # Gone => c[1] = Target[f]
  BY DEF StartContainers, OwnContainers
<1>3. CreationTimes' /\ Replacements' /\ OnlyNetworkLooksAgain' /\ OwnContainers'
  BY <1>1 DEF CreationTimes, Replacements, OnlyNetworkLooksAgain, OwnContainers
<1>4. LooksRight' /\ QdiscsAreInjected' /\ RecoverUndoesInject'
  BY <1>1, <1>2 DEF TypeOK, LooksRight, Newest, QdiscsAreInjected, RecoverUndoesInject, DeviceOf
<1>9. InjectedHaveQdiscs'
  <2>1. Misdirected => Misdirected'
    BY <1>1 DEF Misdirected, DeviceOf
  <2>2. QED
    BY <1>1, <2>1 DEF InjectedHaveQdiscs
<1>5. StopsAreKept'
  BY <1>1, <1>2 DEF TypeOK, StopsAreKept, OwnContainers
<1>6. QED
  BY <1>1, <1>3, <1>4, <1>5, <1>9

\* A pod is created: whoever looked for one of its family is shaken.
LEMMA CreateKeeps == ASSUME InjectorInv, NEW p \in Pod, Create(p) PROVE InjectorInv'
<1> USE PodAssumption, GoneAssumption, PodsAreCounted DEF InjectorInv, Create, damage
<1>1. TypeOK' /\ CreationTimes' /\ Replacements' /\ OnlyNetworkLooksAgain'
  BY DEF TypeOK, CreationTimes, Replacements, OnlyNetworkLooksAgain
<1>2. LooksRight'
  <2>1. ASSUME NEW g \in Fault, g \notin shaken', pc[g] # "inject", NEW x \in Pod, Newest(g, x)
        PROVE  Newest(g, x)'
    BY <2>1 DEF TypeOK, Newest
  <2>2. \A l \in Link : l[1] \in Pod
    BY DEF Link
  <2>3. QED
    BY <2>1, <2>2 DEF TypeOK, LooksRight, QdiscsAreInjected
<1>3. QdiscsAreInjected' /\ InjectedHaveQdiscs' /\ RecoverUndoesInject'
  BY DEF TypeOK, QdiscsAreInjected, InjectedHaveQdiscs, RecoverUndoesInject, Misdirected, DeviceOf
<1>4. OwnContainers' /\ StopsAreKept'
  BY DEF TypeOK, OwnContainers, StopsAreKept
<1>5. QED
  BY <1>1, <1>2, <1>3, <1>4

\* A container takes the place of one that was stopped.
LEMMA ReplaceKeeps == ASSUME InjectorInv, NEW p \in Pod, Replace(p) PROVE InjectorInv'
<1> USE PodAssumption, PodsAreCounted DEF InjectorInv, Replace, damage
<1>1. TypeOK' /\ Replacements'
  BY DEF TypeOK, Replacements
<1>2. CreationTimes' /\ OnlyNetworkLooksAgain'
  BY DEF TypeOK, CreationTimes, OnlyNetworkLooksAgain
<1>3. LooksRight' /\ QdiscsAreInjected' /\ InjectedHaveQdiscs' /\ RecoverUndoesInject'
  BY DEF LooksRight, Newest, QdiscsAreInjected, InjectedHaveQdiscs, RecoverUndoesInject,
         Misdirected, DeviceOf
<1>4. OwnContainers' /\ StopsAreKept'
  BY DEF OwnContainers, StopsAreKept
<1>5. QED
  BY <1>1, <1>2, <1>3, <1>4

-----------------------------------------------------------------------------
(* The pod injectors: the theorems *)

LEMMA InjectorsStep == ASSUME InjectorInv, [Next]_vars PROVE InjectorInv'
<1>1. ASSUME NEW f \in Fault,
             \/ Locate(f) \/ FindPause(f) \/ FindMain(f) \/ InjectFails(f)
             \/ FallBack(f) \/ RecoverRaises(f) \/ RecoverDelete(f)
      PROVE  InjectorInv'
  BY <1>1, QuietKeeps DEF Quietly
<1>2. ASSUME NEW f \in Fault, Delete(f) PROVE InjectorInv'
  <2>1. churn \in 0 .. MaxChurn /\ MaxChurn \in Nat
    BY PodAssumption DEF InjectorInv, TypeOK
  <2>2. churn' \in {churn, churn + 1} /\ churn' <= MaxChurn
    BY <1>2, <2>1 DEF Delete
  <2>3. QED
    BY <1>2, <2>2, VanishKeeps, PodAssumption DEF Delete
<1>3. ASSUME NEW p \in Pod, Evict(p) PROVE InjectorInv'
  <2>1. churn \in 0 .. MaxChurn /\ MaxChurn \in Nat
    BY PodAssumption DEF InjectorInv, TypeOK
  <2>2. churn' \in {churn, churn + 1} /\ churn' <= MaxChurn
    BY <1>3, <2>1 DEF Evict
  <2>3. QED
    BY <1>3, <2>2, VanishKeeps DEF Evict
<1>4. CASE UNCHANGED vars
  BY <1>4 DEF vars, InjectorInv, TypeOK, CreationTimes, Replacements, LooksRight, Newest,
     QdiscsAreInjected, InjectedHaveQdiscs, OnlyNetworkLooksAgain, OwnContainers,
     RecoverUndoesInject, StopsAreKept, Misdirected, DeviceOf
<1>5. QED
  BY <1>1, <1>2, <1>3, <1>4, AddQdiscKeeps, StopContainerKeeps, DelQdiscKeeps,
     StartContainersKeeps, CreateKeeps, ReplaceKeeps DEF Next, Terminated

LEMMA InjectorInvariant == Spec => []InjectorInv
  BY InjectorsInit, InjectorsStep, PTL DEF Spec

\* Every variable of the pod injectors keeps its type.
THEOREM InjectorTypes == Spec => []TypeOK
<1>1. InjectorInv => TypeOK
  BY DEF InjectorInv
<1>2. QED
  BY <1>1, InjectorInvariant, PTL

\* recover, which looks for the pod anew, takes a fault on eth0 from where inject put it,
\* whatever the names of the pods contain and whoever else acts on them, unless a pod
\* of the family came or went or a step of the recover failed (NetworkFaultInjector.
\* recover, _get_pause_container_id_and_executor).
THEOREM RecoverUndoes == Spec => []RecoverUndoesInject
<1>1. InjectorInv => RecoverUndoesInject
  BY DEF InjectorInv
<1>2. QED
  BY <1>1, InjectorInvariant, PTL

\* A pod stop lasts until a recover of a stop of the same pod, or the end of the pod,
\* and no container stays stopped that nobody is to start (PodFaultInjector._stop_pod,
\* recover).
THEOREM StopsLast == Spec => []StopsAreKept
<1>1. InjectorInv => StopsAreKept
  BY DEF InjectorInv
<1>2. QED
  BY <1>1, InjectorInvariant, PTL

\* A qdisc that goes while every pod stays, and no recover goes to a wrong device, goes by
\* the recover of its own fault.
LEMMA WhoEndsAFault ==
    ASSUME InjectorInv, [Next]_vars, shaken' = {}, ~Misdirected', NEW l \in Link,
           qdisc[l] # NoFault, qdisc'[l] # qdisc[l]
    PROVE  pc[qdisc[l]] = "reapply" /\ pc'[qdisc[l]] = "over"
<1> USE DEF InjectorInv
<1>1. shaken = {}
  BY DEF Next, vars, world, Locate, FindPause, FindMain, InjectFails, AddQdisc, StopContainer,
         Delete, Vanish, DelQdisc, FallBack, RecoverRaises, StartContainers, RecoverDelete,
         Evict, Create, Replace, Terminated
<1>2. ~\E p \in Pod : Vanish(p)
  <2>1. ASSUME NEW p \in Pod, Vanish(p) PROVE FALSE
    <3>1. l[1] = p /\ shaken' = shaken \cup {f \in Fault : p \in Family[Target[f]]
                                                          /\ pc[f] # "inject"}
      BY <2>1 DEF Vanish
    <3>2. /\ qdisc[l] \in Fault /\ l[1] \in Family[Target[qdisc[l]]]
          /\ pc[qdisc[l]] # "inject"
      BY DEF QdiscsAreInjected, TypeOK
    <3>3. QED
      BY <3>1, <3>2
  <2>2. QED
    BY <2>1
<1>3. PICK f \in Fault : AddQdisc(f) \/ DelQdisc(f)
  BY <1>2, PodAssumption DEF Next, vars, damage, Locate, FindPause, FindMain, InjectFails,
         StopContainer, Delete, FallBack, RecoverRaises, StartContainers, RecoverDelete,
         Evict, Create, Replace, Terminated
<1>4. ~AddQdisc(f)
  BY DEF AddQdisc, TypeOK
<1>5. DelQdisc(f) /\ qdisc[l] = f
  BY <1>1, <1>3, <1>4, DelQdiscTakesItsOwn
<1>6. QED
  BY <1>5 DEF DelQdisc, Returns, Goes, TypeOK

\* Faults that meet on a device of a pod exclude each other: while no pod comes or goes
\* under a fault, and no recover goes to another device than its inject, each one ends
\* by its own recover only (tc qdisc add, tc qdisc del dev eth0).
THEOREM EndsByTheirOwn == Spec => FaultsEndByTheirOwn
<1>1. InjectorInv /\ [Next]_vars =>
        [\A l \in Link :
            qdisc[l] # NoFault /\ qdisc'[l] # qdisc[l] /\ shaken' = {} /\ ~Misdirected'
                => pc[qdisc[l]] = "reapply" /\ pc'[qdisc[l]] = "over"]_vars
  BY WhoEndsAFault
<1>2. QED
  BY <1>1, InjectorInvariant, PTL DEF Spec, FaultsEndByTheirOwn

-----------------------------------------------------------------------------
(* The pod manager: what holds between the steps *)

\* A query that filters by role, and of which kind, is where its commands are.
Places ==
    /\ at = "service" => Filtered /\ query.kind \in {"ddb", "etcd", "rc"}
    /\ at = "cluster" => Filtered /\ query.kind \in {"etcd", "rc"}
    /\ at = "probe" => Filtered /\ query.kind \in {"ddb", "sdb", "upc"}
    /\ at \notin {"probe", "done"} => answer = {}

RolesAreHeld == \A x \in Pod : role[x] \in held[x]

ListIsDone == at = "probe" \/ (at \in {"service", "cluster"} /\ query.kind = "rc")

\* Addresses are those of one pod; that of a pod that stayed is the one listed.
ListedOnce ==
    /\ Injective(addr)
    /\ ListIsDone =>
           \A x \in Pod : listed[x] # NoAddress /\ (x \notin moved => listed[x] = addr[x])

\* A group has one leader at most, also while it elects one.
OneLeads ==
    \A x \in Pod : \A y, z \in Voters(x) : role[y] = "lead" /\ role[z] = "lead" => y = z

\* Nothing has happened to the pod since the query began.
Calm(x) == x \notin moved \cup mute /\ held[x] = {role[x]}

\* What the cluster of etcd said: true of every pod then, and of a calm one still.
NamedRightly ==
    at = "list" /\ query.kind = "etcd" /\ Filtered =>
        \A x \in Pod : /\ x \in named => query.want \in held[x]
                       /\ Calm(x) => (x \in named <=> role[x] = query.want)

Asked == IF query.kind = "upc" THEN Pod \ Balancer ELSE Pod

\* Why a pod may be in the answer: the disjuncts of RoleWasHeld.
Justified(x) ==
    \/ query.want \in held[x]
    \/ query.kind \in {"ddb", "upc"} /\ x \in moved
    \/ query = [kind |-> "upc", want |-> "follow"] /\ x \in mute

\* The search for the master of sdb is over early.
FoundMaster == query = [kind |-> "sdb", want |-> "lead"] /\ answer # {}

\* The answers so far: exact about every calm pod that was asked.
AnsweredRightly ==
    at = "probe" =>
        /\ todo \subseteq Asked /\ answer \subseteq Asked /\ answer \cap todo = {}
        /\ \A x \in answer : Justified(x)
        /\ \A x \in Asked \ todo : Calm(x) =>
              /\ x \in answer => role[x] = query.want
              /\ role[x] = query.want => x \in answer \/ FoundMaster

RolesInv ==
    /\ RolesTypeOK /\ Places /\ RolesAreHeld /\ ListedOnce /\ OneLeads
    /\ NamedRightly /\ AnsweredRightly /\ RoleWasHeld /\ QuietGroupsAreExact

\* A query says what it asks about and which role.
LEMMA QueryFields ==
    ASSUME RolesTypeOK PROVE query.kind \in Kinds /\ query.want \in Want
  BY QueryAssumption DEF RolesTypeOK

\* A group is that of each of its voters.
LEMMA GroupsAreShared ==
    ASSUME NEW x \in Pod, NEW y \in Voters(x)
    PROVE  y \in Pod /\ Voters(y) = Voters(x) /\ y \in Voters(y)
  BY DEF Voters, Group

LEMMA RolesInitially == RolesInit => RolesInv
<1> SUFFICES ASSUME RolesInit PROVE RolesInv
  OBVIOUS
<1> USE QueryAssumption DEF RolesInit
<1>1. RolesTypeOK
  <2>1. role \in [Pod -> Role] /\ held \in [Pod -> SUBSET Role]
    OBVIOUS
  <2>2. addr \in [Pod -> Address] /\ listed \in [Pod -> Address \cup {NoAddress}]
    OBVIOUS
  <2>3. elections \in 0..MaxElections /\ restarts \in 0..MaxRestarts
    OBVIOUS
  <2>4. QED
    BY <2>1, <2>2, <2>3 DEF RolesTypeOK
<1>2. Places /\ RolesAreHeld /\ ListedOnce
  BY DEF Places, RolesAreHeld, ListedOnce, ListIsDone
<1>3. OneLeads
  <2> SUFFICES ASSUME NEW x \in Pod, NEW y \in Voters(x), NEW z \in Voters(x),
                      role[y] = "lead", role[z] = "lead"
               PROVE  y = z
    BY DEF OneLeads
  <2> DEFINE Leaders == {q \in Voters(x) : role[q] = "lead"}
  <2>1. Cardinality(Leaders) = 1
    OBVIOUS
  <2>2. IsFiniteSet(Leaders)
    BY PodsAreFinite, FS_Subset DEF Voters, Group
  <2>3. PICK w : Leaders = {w}
    BY <2>1, <2>2, FS_Singleton
  <2>4. QED
    BY <2>3
<1>4. NamedRightly /\ AnsweredRightly /\ RoleWasHeld /\ QuietGroupsAreExact
  BY DEF NamedRightly, AnsweredRightly, RoleWasHeld, QuietGroupsAreExact
<1>5. QED
  BY <1>1, <1>2, <1>3, <1>4 DEF RolesInv

-----------------------------------------------------------------------------
(* The pod manager: the services move *)

\* What an election or a restart may do to a query that is under way.
ServicesMove ==
    /\ UNCHANGED <<query, at, listed, named, todo, answer, mute, down>> /\ Busy
    /\ RolesTypeOK' /\ RolesAreHeld' /\ OneLeads' /\ Injective(addr)' /\ moved \subseteq moved'
    /\ \A x \in Pod : held[x] \subseteq held'[x] /\ (x \notin moved' => addr'[x] = addr[x])

LEMMA StepDownMoves ==
    ASSUME RolesInv, NEW p \in Pod, StepDown(p) PROVE ServicesMove
<1> USE DEF RolesInv, StepDown, ServicesMove
<1>1. RolesTypeOK' /\ RolesAreHeld'
  BY QueryAssumption DEF RolesTypeOK, RolesAreHeld, Role
<1>2. OneLeads'
  BY DEF RolesTypeOK, OneLeads, Voters, Group
<1>3. QED
  BY <1>1, <1>2 DEF ListedOnce, Injective, RolesTypeOK

LEMMA TakeOverMoves ==
    ASSUME RolesInv, NEW p \in Pod, TakeOver(p) PROVE ServicesMove
<1> USE DEF RolesInv, TakeOver, ServicesMove
<1>1. RolesTypeOK' /\ RolesAreHeld'
  BY QueryAssumption DEF RolesTypeOK, RolesAreHeld, Role
<1>2. OneLeads'
  <2> SUFFICES ASSUME NEW x \in Pod, NEW y \in Voters(x), NEW z \in Voters(x),
                      role'[y] = "lead", role'[z] = "lead"
               PROVE  y = z
    BY DEF OneLeads, Voters, Group
  <2>1. \A w \in Pod \ {p} : role'[w] = role[w]
    BY DEF RolesTypeOK
  <2>2. CASE p \in Voters(x)
    BY <2>1, <2>2, GroupsAreShared
  <2>3. CASE p \notin Voters(x)
    BY <2>1, <2>3, GroupsAreShared DEF OneLeads
  <2>4. QED
    BY <2>2, <2>3
<1>3. QED
  BY <1>1, <1>2 DEF ListedOnce, Injective, RolesTypeOK

LEMMA RestartMoves ==
    ASSUME RolesInv, NEW p \in Pod, Restart(p) PROVE ServicesMove
<1> USE DEF RolesInv, Restart, ServicesMove
<1>1. RolesTypeOK' /\ RolesAreHeld'
  BY QueryAssumption DEF RolesTypeOK, RolesAreHeld
<1>2. OneLeads'
  BY DEF OneLeads, Voters, Group
<1>3. Injective(addr)'
  BY DEF RolesTypeOK, ListedOnce, Injective
<1>4. QED
  BY <1>1, <1>2, <1>3 DEF RolesTypeOK

\* Such a step leaves what is known about a calm pod true, and makes no pod calm.
LEMMA MovesKeep == ASSUME RolesInv, ServicesMove PROVE RolesInv'
<1> USE DEF RolesInv, ServicesMove
<1>1. \A x \in Pod : Calm(x)' => Calm(x) /\ role'[x] = role[x]
  BY DEF Calm, RolesTypeOK, RolesAreHeld
<1>2. Places' /\ ListedOnce'
  BY DEF Places, Filtered, ListedOnce, ListIsDone
<1>3. NamedRightly'
  BY <1>1 DEF NamedRightly, Filtered
<1>4. AnsweredRightly'
  BY <1>1 DEF AnsweredRightly, Asked, Justified, FoundMaster
<1>5. RoleWasHeld' /\ QuietGroupsAreExact'
  BY DEF Busy, RoleWasHeld, QuietGroupsAreExact
<1>6. QED
  BY <1>2, <1>3, <1>4, <1>5

-----------------------------------------------------------------------------
(* The pod manager: the commands about all pods *)

\* A query that ends with an empty answer because a command failed.
LEMMA FailKeeps == ASSUME RolesInv, Fail PROVE RolesInv'
  BY DEF RolesInv, Fail, Answers, cluster, RolesTypeOK, Places, RolesAreHeld, ListedOnce,
     ListIsDone, Injective, OneLeads, Voters, Group, NamedRightly, Filtered, AnsweredRightly,
     RoleWasHeld, QuietGroupsAreExact

\* What was found about the services is not touched by a step of the query.
LEMMA ClusterStays ==
    ASSUME RolesInv, UNCHANGED <<query, cluster>> PROVE RolesAreHeld' /\ OneLeads'
  BY DEF RolesInv, cluster, RolesAreHeld, OneLeads, Voters, Group

LEMMA AskKeeps == ASSUME RolesInv, Ask PROVE RolesInv'
<1> USE QueryFields DEF RolesInv, Ask, cluster, Filtered
<1>1. RolesTypeOK' /\ Places'
  BY DEF RolesTypeOK, Places, Kinds
<1>2. ListedOnce' /\ NamedRightly' /\ AnsweredRightly' /\ RoleWasHeld' /\ QuietGroupsAreExact'
  BY DEF ListedOnce, ListIsDone, Injective, NamedRightly, AnsweredRightly, RoleWasHeld,
         QuietGroupsAreExact
<1>3. QED
  BY <1>1, <1>2, ClusterStays

LEMMA ServiceKeeps == ASSUME RolesInv, Service PROVE RolesInv'
<1> USE QueryFields DEF RolesInv, Service, cluster
<1>1. RolesTypeOK' /\ Places'
  BY DEF RolesTypeOK, Places, Filtered
<1>2. ListedOnce' /\ NamedRightly' /\ AnsweredRightly' /\ RoleWasHeld' /\ QuietGroupsAreExact'
  BY DEF Places, ListedOnce, ListIsDone, Injective, NamedRightly, AnsweredRightly, RoleWasHeld,
         QuietGroupsAreExact
<1>3. QED
  BY <1>1, <1>2, ClusterStays

\* What etcd says is true of every pod when it is said.
LEMMA EtcdClusterKeeps == ASSUME RolesInv, EtcdCluster PROVE RolesInv'
<1> USE QueryFields DEF RolesInv, EtcdCluster, cluster
<1>1. RolesTypeOK' /\ Places'
  BY DEF RolesTypeOK, Places, Filtered
<1>2. NamedRightly'
  BY DEF NamedRightly, Calm, RolesAreHeld
<1>3. ListedOnce' /\ AnsweredRightly' /\ RoleWasHeld' /\ QuietGroupsAreExact'
  BY DEF ListedOnce, ListIsDone, Injective, AnsweredRightly, RoleWasHeld, QuietGroupsAreExact
<1>4. QED
  BY <1>1, <1>2, <1>3, ClusterStays

\* What rc says becomes the answer: every pod has an address in the list made before.
LEMMA RcClusterKeeps == ASSUME RolesInv, RcCluster PROVE RolesInv'
<1> USE QueryFields DEF RolesInv, RcCluster, Answers, cluster
<1>1. answer' = {p \in Pod : role[p] = query.want} /\ query.want \in Role /\ query.kind = "rc"
  BY DEF ListedOnce, ListIsDone, Places, Filtered, Want
<1>2. RolesTypeOK' /\ Places'
  BY DEF RolesTypeOK, Places, Filtered
<1>3. RoleWasHeld'
  BY <1>1 DEF RoleWasHeld, RolesAreHeld
<1>4. QuietGroupsAreExact'
  BY <1>1 DEF QuietGroupsAreExact, Expected, Group, Voters, Role
<1>5. ListedOnce' /\ NamedRightly' /\ AnsweredRightly'
  BY DEF ListedOnce, ListIsDone, Injective, NamedRightly, AnsweredRightly
<1>6. QED
  BY <1>2, <1>3, <1>4, <1>5, ClusterStays

\* A query that needs no role is answered by the list alone.
LEMMA ListAnswers ==
    ASSUME RolesInv, List, at' = "done", query.want = "all" \/ query.kind \in {"upu", "name"}
    PROVE  /\ answer' \subseteq Pod /\ RoleWasHeld'
           /\ \A p \in Pod : answer' \cap Group(p) = Expected(p)
<1> USE QueryFields, QueryAssumption DEF RolesInv
<1>1. RoleWasHeld'
  BY DEF List, RoleWasHeld, Role
<1>2. \A p \in Pod : Group(p) = Pod \/ (query.kind = "ddb" /\ Group(p) \subseteq Pod)
  BY DEF Group
<1>3. CASE query.kind = "upu"
  <2>1. answer' = UpuPods
    BY <1>3 DEF List, Answers
  <2>2. UpuPods \subseteq Pod /\ (query.want = "all" => UpuPods = Pod)
    BY DEF UpuPods, Want, Role
  <2>3. ASSUME NEW p \in Pod PROVE Expected(p) = UpuPods /\ Group(p) = Pod
    BY <1>3, <2>2 DEF Expected, Group, Want, Role
  <2>4. QED
    BY <1>1, <2>1, <2>2, <2>3
<1>4. CASE query.kind = "name"
  <2>1. answer' = Matching
    BY <1>4 DEF List, Answers, NamedPods
  <2>2. QED
    BY <1>1, <1>4, <2>1 DEF Expected, Group
<1>5. CASE query.kind \notin {"upu", "name"} /\ query.want = "all"
  <2>1. answer' = Pod
    BY <1>5 DEF List, Answers, Filtered
  <2>2. \A p \in Pod : Expected(p) = Group(p)
    BY <1>5 DEF Expected, Role
  <2>3. QED
    BY <1>1, <1>2, <2>1, <2>2
<1>6. QED
  BY <1>3, <1>4, <1>5

\* The list of the pods: the answer, what is left of it, or the start of the questions.
LEMMA ListKeeps == ASSUME RolesInv, List PROVE RolesInv'
<1> USE QueryFields, QueryAssumption DEF RolesInv
<1>0. /\ listed' = addr /\ at = "list" /\ answer = {}
      /\ UNCHANGED <<query, cluster, named, mute, down>>
  BY DEF List, Places
<1>1. RolesAreHeld' /\ OneLeads'
  BY <1>0, ClusterStays
<1>2. ListedOnce'
  BY <1>0 DEF ListedOnce, Injective, cluster, RolesTypeOK
<1>3. CASE query.want = "all" \/ query.kind \in {"upu", "name"}
  <2>1. at' = "done" /\ todo' = todo
    BY <1>3 DEF List, Answers, Filtered
  <2>2. /\ answer' \subseteq Pod /\ RoleWasHeld'
        /\ \A p \in Pod : answer' \cap Group(p) = Expected(p)
    BY <1>3, <2>1, ListAnswers
  <2>3. QuietGroupsAreExact'
    BY <1>0, <2>2 DEF QuietGroupsAreExact, Group, Expected, Voters, UpuPods, cluster
  <2>4. RolesTypeOK' /\ Places' /\ NamedRightly' /\ AnsweredRightly'
    BY <1>0, <2>1, <2>2 DEF RolesTypeOK, Places, NamedRightly, AnsweredRightly, cluster
  <2>5. QED
    BY <1>1, <1>2, <2>2, <2>3, <2>4
<1>4. CASE query.want # "all" /\ query.kind = "etcd"
  <2>1. at' = "done" /\ todo' = todo /\ answer' = named
    BY <1>4 DEF List, Answers, Filtered
  <2>2. RoleWasHeld'
    BY <1>0, <1>4, <2>1 DEF RoleWasHeld, NamedRightly, Filtered, RolesTypeOK, cluster
  <2>3. QuietGroupsAreExact'
    <3> SUFFICES ASSUME NEW p \in Pod, Quiet(p)' PROVE (answer \cap Group(p) = Expected(p))'
      BY DEF QuietGroupsAreExact
    <3>1. \A x \in Pod : Calm(x)
      BY <1>0, <1>4 DEF Quiet, Calm, Group, cluster
    <3>2. named = {x \in Pod : role[x] = query.want}
      BY <1>0, <1>4, <3>1 DEF NamedRightly, Filtered, RolesTypeOK
    <3>3. QED
      BY <1>0, <1>4, <2>1, <3>2 DEF Expected, Group, Voters, Want, cluster
  <2>4. RolesTypeOK' /\ Places' /\ NamedRightly' /\ AnsweredRightly'
    BY <1>0, <2>1 DEF RolesTypeOK, Places, NamedRightly, AnsweredRightly, cluster
  <2>5. QED
    BY <1>1, <1>2, <2>2, <2>3, <2>4
<1>5. CASE query.want # "all" /\ query.kind = "rc"
  <2>1. at' = "service" /\ todo' = todo /\ answer' = answer
    BY <1>5 DEF List, Answers, Filtered
  <2>2. QED
    BY <1>0, <1>1, <1>2, <1>5, <2>1
       DEF RolesTypeOK, Places, Filtered, NamedRightly, AnsweredRightly, RoleWasHeld,
           QuietGroupsAreExact, cluster
<1>6. CASE query.want # "all" /\ query.kind \in {"ddb", "sdb", "upc"}
  <2>1. at' = "probe" /\ todo' = Asked /\ answer' = answer
    BY <1>6 DEF List, Answers, Filtered, Asked
  <2>2. QED
    BY <1>0, <1>1, <1>2, <1>6, <2>1
       DEF RolesTypeOK, Places, Filtered, NamedRightly, AnsweredRightly, RoleWasHeld,
           QuietGroupsAreExact, Asked, cluster
<1>7. QED
  BY <1>3, <1>4, <1>5, <1>6 DEF Kinds

-----------------------------------------------------------------------------
(* The pod manager: the questions, pod by pod *)

\* Asked about a pod that kept its address, the service answers with its role now.
LEMMA AnswerIsTrue ==
    ASSUME RolesInv, at = "probe", NEW p \in Pod, p \notin moved \/ query.kind = "sdb",
           NEW r \in Roles(p)
    PROVE  r = role[p]
<1> USE DEF RolesInv
<1>1. /\ query.kind \in {"ddb", "sdb", "upc"}
      /\ p \notin moved => \A q \in Pod : addr[q] = listed[p] <=> q = p
  BY DEF Places, ListedOnce, ListIsDone, Injective
<1>2. CASE query.kind = "ddb"
  <2>1. PICK records \in {{p}, Group(p)} : r = DdbRole(p, records)
    BY <1>2 DEF Roles
  <2>2. p \in records /\ records \subseteq Pod
    BY DEF Group
  <2>3. QED
    BY <1>1, <1>2, <2>1, <2>2 DEF DdbRole
<1>3. CASE query.kind = "sdb"
  BY <1>3 DEF Roles, SdbRole
<1>4. CASE query.kind = "upc"
  <2>1. r = UpcRole(p)
    BY <1>4 DEF Roles
  <2>2. QED
    BY <1>1, <1>4, <2>1 DEF UpcRole
<1>5. QED
  BY <1>1, <1>2, <1>3, <1>4

\* A question that was answered, or failed, keeps the answers so far right.
LEMMA CollectKeeps ==
    ASSUME RolesInv, at = "probe", NEW p \in todo, NEW r, Collect(p, r),
           UNCHANGED <<query, at, cluster, listed, named, down>>, mute' \in {mute, mute \cup {p}},
           r = query.want => Justified(p)',
           p \notin moved \cup mute' => r = role[p]
    PROVE  RolesInv'
<1> USE DEF RolesInv, cluster
<1>1. /\ todo \subseteq Asked /\ answer \subseteq Asked /\ answer \cap todo = {}
      /\ Asked \subseteq Pod
      /\ \A x \in answer : Justified(x)
      /\ \A x \in Asked \ todo : Calm(x) =>
              /\ x \in answer => role[x] = query.want
              /\ role[x] = query.want => x \in answer \/ FoundMaster
  BY DEF AnsweredRightly, Asked
<1>2. /\ answer' = IF r = query.want THEN answer \cup {p} ELSE answer
      /\ todo' = IF r = query.want /\ query = [kind |-> "sdb", want |-> "lead"]
                 THEN {} ELSE todo \ {p}
  BY DEF Collect
<1>3. RolesTypeOK'
  BY <1>1, <1>2 DEF RolesTypeOK
<1>4. Places' /\ ListedOnce' /\ NamedRightly' /\ RoleWasHeld' /\ QuietGroupsAreExact'
  BY DEF Places, Filtered, ListedOnce, ListIsDone, Injective, NamedRightly, RoleWasHeld,
         QuietGroupsAreExact
<1>5. AnsweredRightly'
  <2>1. /\ todo' \subseteq Asked' /\ answer' \subseteq Asked' /\ (answer \cap todo)' = {}
        /\ Asked' = Asked
    BY <1>1, <1>2 DEF Asked
  <2>2. \A x \in answer' : Justified(x)'
    BY <1>1, <1>2 DEF Justified
  <2>3. \A x \in Pod : /\ Calm(x)' => Calm(x)
                       /\ Calm(x)' /\ x = p => r = role[p]
    BY DEF Calm
  <2>4. r = query.want /\ query = [kind |-> "sdb", want |-> "lead"] => FoundMaster'
    BY <1>2 DEF FoundMaster
  <2>5. FoundMaster => FoundMaster'
    BY <1>2 DEF FoundMaster
  <2>6. ASSUME NEW x \in (Asked \ todo)', Calm(x)'
        PROVE  /\ x \in answer' => role[x] = query.want
               /\ role[x] = query.want => x \in answer' \/ FoundMaster'
    BY <1>1, <1>2, <2>1, <2>3, <2>4, <2>5, <2>6
  <2>7. QED
    BY <2>1, <2>2, <2>6 DEF AnsweredRightly
<1>6. QED
  BY <1>3, <1>4, <1>5, ClusterStays

LEMMA ProbeKeeps == ASSUME RolesInv, Probe PROVE RolesInv'
<1>1. PICK p \in todo : \E r \in Roles(p) : Collect(p, r)
  BY DEF Probe
<1>2. PICK r \in Roles(p) : Collect(p, r)
  BY <1>1
<1>3. p \in Pod /\ at = "probe" /\ query.kind \in {"ddb", "sdb", "upc"}
  BY DEF Probe, RolesInv, RolesTypeOK, Places
<1>4. p \notin moved \/ query.kind = "sdb" => r = role[p]
  BY <1>3, AnswerIsTrue
<1>5. r = query.want => Justified(p)'
  BY <1>3, <1>4 DEF Justified, Probe, cluster, RolesInv, RolesAreHeld
<1>6. QED
  BY <1>2, <1>3, <1>4, <1>5, CollectKeeps DEF Probe

\* A question that failed makes nobody's role known.
LEMMA ProbeFailsKeeps == ASSUME RolesInv, ProbeFails PROVE RolesInv'
<1>1. PICK p \in todo :
        /\ Collect(p, IF query.kind = "upc" THEN "follow" ELSE "unknown")
        /\ mute' = mute \cup {p}
  BY DEF ProbeFails
<1>2. query.want \in Want /\ query.want # "unknown" /\ query \in [kind : Kinds, want : Want]
  BY QueryFields, QueryAssumption DEF Want, Role, RolesInv, RolesTypeOK
<1>3. query.kind = "upc" /\ query.want = "follow" => Justified(p)'
  BY <1>1, <1>2 DEF Justified, ProbeFails
<1>4. QED
  BY <1>1, <1>2, <1>3, CollectKeeps DEF ProbeFails

LEMMA ProbeEndsKeeps == ASSUME RolesInv, ProbeEnds PROVE RolesInv'
<1> USE QueryFields DEF RolesInv
<1>1. /\ at = "probe" /\ todo = {} /\ at' = "done" /\ answer' = answer
      /\ UNCHANGED <<query, cluster, listed, named, todo, mute, down>>
  BY DEF ProbeEnds, Answers
<1>2. RolesTypeOK' /\ Places' /\ ListedOnce' /\ NamedRightly' /\ AnsweredRightly'
  BY <1>1 DEF RolesTypeOK, Places, Filtered, ListedOnce, ListIsDone, Injective, NamedRightly,
              AnsweredRightly, cluster
<1>3. RoleWasHeld'
  BY <1>1 DEF RoleWasHeld, AnsweredRightly, Justified, cluster
<1>4. QuietGroupsAreExact'
  <2> SUFFICES ASSUME NEW p \in Pod, Quiet(p) PROVE answer \cap Group(p) = Expected(p)
    BY <1>1 DEF QuietGroupsAreExact, Quiet, Group, Expected, Voters, UpuPods, cluster
  <2>1. query.kind \in {"ddb", "sdb", "upc"} /\ query.want \in Role
    BY <1>1 DEF Places, Filtered, Want
  <2>2. Expected(p) = {q \in Voters(p) : role[q] = query.want}
    BY <2>1 DEF Expected, Role
  <2>3. answer \subseteq Asked /\ Asked \cap Group(p) = Voters(p) /\ Asked \subseteq Pod
    BY <1>1, <2>1 DEF AnsweredRightly, Asked, Voters, Group
  <2>4. \A x \in Voters(p) : /\ x \in answer => role[x] = query.want
                             /\ role[x] = query.want => x \in answer \/ FoundMaster
    BY <1>1, <2>3 DEF AnsweredRightly, Quiet, Calm
  <2>5. ASSUME FoundMaster, NEW x \in Voters(p), role[x] = query.want PROVE x \in answer
    <3>1. PICK y \in answer : TRUE
      BY <2>5 DEF FoundMaster
    <3>2. query.kind = "sdb" /\ query.want = "lead" /\ Voters(p) = Pod
      BY <2>5 DEF FoundMaster, Voters, Group
    <3>3. y \in Voters(p) /\ role[y] = "lead"
      BY <2>3, <2>4, <3>1, <3>2
    <3>4. QED
      BY <2>5, <3>1, <3>2, <3>3 DEF OneLeads
  <2>6. QED
    BY <2>2, <2>3, <2>4, <2>5
<1>5. QED
  BY <1>1, <1>2, <1>3, <1>4, ClusterStays

-----------------------------------------------------------------------------
(* The pod manager: the theorems *)

LEMMA RolesStep == ASSUME RolesInv, [RolesNext]_rolesVars PROVE RolesInv'
<1>1. ASSUME NEW p \in Pod, StepDown(p) \/ TakeOver(p) \/ Restart(p) PROVE RolesInv'
  BY <1>1, StepDownMoves, TakeOverMoves, RestartMoves, MovesKeep
<1>2. CASE UNCHANGED rolesVars
  <2>1. RolesTypeOK' /\ Places' /\ RolesAreHeld' /\ ListedOnce' /\ OneLeads'
    BY <1>2 DEF rolesVars, RolesInv, RolesTypeOK, Places, Filtered, RolesAreHeld, ListedOnce,
       ListIsDone, Injective, OneLeads, Voters, Group
  <2>2. NamedRightly' /\ AnsweredRightly' /\ RoleWasHeld'
    BY <1>2 DEF rolesVars, RolesInv, NamedRightly, Filtered, Calm, AnsweredRightly, Asked,
       Justified, FoundMaster, RoleWasHeld
  <2>3. QuietGroupsAreExact'
    BY <1>2 DEF rolesVars, RolesInv, QuietGroupsAreExact, Quiet, Group, Expected, Voters,
       UpuPods
  <2>4. QED
    BY <2>1, <2>2, <2>3 DEF RolesInv
<1>3. QED
  BY <1>1, <1>2, AskKeeps, FailKeeps, ServiceKeeps, EtcdClusterKeeps, RcClusterKeeps, ListKeeps,
     ProbeKeeps, ProbeFailsKeeps, ProbeEndsKeeps DEF RolesNext, RolesTerminated

LEMMA RolesInvariant == RolesSpec => []RolesInv
  BY RolesInitially, RolesStep, PTL DEF RolesSpec

\* A pod that is answered has had the role at some moment of the query, whatever was
\* elected meanwhile, but for a pod that came back with another address and a upc pod
\* that did not answer (PodManager._check_ddb_role, _check_upc_talker).
THEOREM RolesWereHeld == RolesSpec => []RoleWasHeld
<1>1. RolesInv => RoleWasHeld
  BY DEF RolesInv
<1>2. QED
  BY <1>1, RolesInvariant, PTL

\* The answer about a group to which nothing happens during the query is exact,
\* whatever happens to the other groups (PodManager.get_ddb_master and the queries
\* beside it).
THEOREM QuietIsExact == RolesSpec => []QuietGroupsAreExact
<1>1. RolesInv => QuietGroupsAreExact
  BY DEF RolesInv
<1>2. QED
  BY <1>1, RolesInvariant, PTL

=============================================================================
