----------------------------- MODULE PodManager -----------------------------
(***************************************************************************)
(* chaos/utils/pod.py: PodManager, asked for the pods of a service that    *)
(* have a role, as the filters of POD_FILTER_RULES ask it.  A query takes  *)
(* several commands: the address of a service, the list of the pods, and   *)
(* one question per pod or one about them all.  Meanwhile the service may  *)
(* elect another leader and pods may come back with another address.       *)
(***************************************************************************)
EXTENDS Naturals, FiniteSets, Pods

CONSTANTS Shard,       \* [Pod -> ...]: ddb has a master for each
          Balancer,    \* SUBSET Pod: the upc-lb pods
          Address, NoAddress,
          Query,       \* what may be asked: records of kind and want
          UpuFilter,   \* [Want -> SUBSET Pod]: pods the lists of config.yaml match;
                       \* none if there is no list
          Matching,    \* SUBSET Pod: those a name pattern matches
          MaxElections, MaxRestarts \* bounds while a query lasts

Role == {"lead", "follow"} \* master, leader, talker; slave, follower, nontalker
Want == Role \cup {"all"}
Kinds == {"ddb", "sdb", "etcd", "rc", "upc", "upu", "name"}

ASSUME QueryAssumption ==
    /\ Balancer \subseteq Pod /\ Matching \subseteq Pod
    /\ NoAddress \notin Address /\ Cardinality(Address) > Cardinality(Pod)
    /\ Query \subseteq [kind : Kinds, want : Want]
    /\ UpuFilter \in [Role -> SUBSET Pod]
    /\ MaxElections \in Nat /\ MaxRestarts \in Nat

VARIABLES query,
          at,
          role,    \* the roles the pods have
          addr,    \* the addresses they have
          listed,  \* the addresses the list of the query gave
          named,   \* the pods the cluster said have the role
          todo,    \* pods still to be asked
          answer,
          elections, restarts,
          held,    \* history: the roles a pod has had since the query began
          moved,   \* history: pods with another address since
          mute,    \* history: pods whose question failed
          down     \* history: a command about them all failed

rolesVars == <<query, at, role, addr, listed, named, todo, answer, elections, restarts,
               held, moved, mute, down>>

cluster == <<role, addr, elections, restarts, held, moved>>

\* The pods among which one leads.
Group(p) == IF query.kind = "ddb" THEN {q \in Pod : Shard[q] = Shard[p]} ELSE Pod

\* upc-lb pods have no role.
Voters(p) == IF query.kind = "upc" THEN Group(p) \ Balancer ELSE Group(p)

Injective(f) == \A p, q \in Pod : f[p] = f[q] => p = q

RolesInit ==
    /\ query \in Query
    /\ at = "asked"
    /\ role \in {r \in [Pod -> Role] : \A p \in Pod :
                    Cardinality({q \in Voters(p) : r[q] = "lead"}) = 1}
    /\ addr \in {a \in [Pod -> Address] : Injective(a)}
    /\ listed = [p \in Pod |-> NoAddress]
    /\ named = {} /\ todo = {} /\ answer = {}
    /\ elections = 0 /\ restarts = 0
    /\ held = [p \in Pod |-> {role[p]}]
    /\ moved = {} /\ mute = {} /\ down = FALSE

Filtered == query.want # "all"
Answers(pods) == at' = "done" /\ answer' = pods

-----------------------------------------------------------------------------
(* The commands about all pods *)

\* ddb and etcd look for the service first.
Ask ==
    /\ at = "asked"
    /\ at' = IF query.kind \in {"ddb", "etcd"} /\ Filtered THEN "service" ELSE "list"
    /\ UNCHANGED <<query, cluster, listed, named, todo, answer, mute, down>>

\* A command fails or says nothing: no pods.
Fail ==
    /\ at \in {"service", "list", "cluster"}
    /\ Answers({}) /\ down' = TRUE
    /\ UNCHANGED <<query, cluster, listed, named, todo, mute>>

\* get_db_service_ip, the registry-center of etcd, _get_rc_service_ip.
Service ==
    /\ at = "service"
    /\ at' = IF query.kind = "ddb" THEN "list" ELSE "cluster"
    /\ UNCHANGED <<query, cluster, listed, named, todo, answer, mute, down>>

\* etcd: the endpoints jq selects; the list comes after it.
EtcdCluster ==
    /\ at = "cluster" /\ query.kind = "etcd"
    /\ named' = {p \in Pod : role[p] = query.want}
    /\ at' = "list"
    /\ UNCHANGED <<query, cluster, listed, todo, answer, mute, down>>

\* rc: the leader or the others from rc_cluster_info; the list came before it.
RcCluster ==
    /\ at = "cluster" /\ query.kind = "rc"
    /\ named' = {p \in Pod : role[p] = query.want}
    /\ Answers({p \in named' : listed[p] # NoAddress})
    /\ UNCHANGED <<query, cluster, listed, todo, mute, down>>

\* Without a list of masters in config.yaml every pod is one, without a list of
\* slaves no pod is.
UpuPods ==
    CASE query.want = "all" -> Pod
      [] query.want = "lead" /\ UpuFilter["lead"] = {} -> Pod
      [] OTHER -> UpuFilter[query.want]

\* A wildcard, the name without its last parts, or a part of the name.
NamedPods == Matching

\* kubectl get pod -o wide.
List ==
    /\ at = "list"
    /\ listed' = addr
    /\ CASE query.kind = "upu" -> Answers(UpuPods) /\ UNCHANGED todo
         [] query.kind = "name" -> Answers(NamedPods) /\ UNCHANGED todo
         [] query.kind \notin {"upu", "name"} /\ ~Filtered -> Answers(Pod) /\ UNCHANGED todo
         [] query.kind = "etcd" /\ Filtered -> Answers(named) /\ UNCHANGED todo
         [] query.kind = "rc" /\ Filtered -> at' = "service" /\ UNCHANGED <<answer, todo>>
         [] query.kind \in {"ddb", "sdb", "upc"} /\ Filtered ->
               /\ todo' = IF query.kind = "upc" THEN Pod \ Balancer ELSE Pod
               /\ at' = "probe" /\ UNCHANGED answer
    /\ UNCHANGED <<query, cluster, named, mute, down>>

-----------------------------------------------------------------------------
(* The questions, pod by pod *)

\* Mutant: the record is not looked for by its address.
AnyRecord(p, records) ==
    IF \E q \in records : role[q] = "lead" THEN "lead" ELSE "follow"

\* _check_ddb_role: the record with the address listed; without one, any master in
\* the text makes the pod a master.
DdbRole(p, records) ==
    IF \E q \in records : addr[q] = listed[p]
    THEN role[CHOOSE q \in records : addr[q] = listed[p]]
    ELSE IF \E q \in records : role[q] = "lead" THEN "lead" ELSE "follow"

\* _check_sdb_role: redis-cli in the pod.
SdbRole(p) == role[p]

\* _check_upc_talker: whoever has the address now; nobody is no talker.
UpcRole(p) ==
    IF \E q \in Pod : addr[q] = listed[p]
    THEN role[CHOOSE q \in Pod : addr[q] = listed[p]]
    ELSE "follow"

\* What a question about p may be answered.  The operator of ddb answers with the
\* record of the pod or with those of its shard.
Roles(p) ==
    CASE query.kind = "ddb" -> {DdbRole(p, records) : records \in {{p}, Group(p)}}
      [] query.kind = "sdb" -> {SdbRole(p)}
      [] query.kind = "upc" -> {UpcRole(p)}

\* Mutant: the search for masters ends with the first one.
CollectFirst(p, r) ==
    IF r = query.want THEN /\ answer' = answer \cup {p}
                           /\ todo' = {}
                      ELSE UNCHANGED answer /\ todo' = todo \ {p}

\* sdb has one master; the search ends with it.
Collect(p, r) ==
    /\ answer' = IF r = query.want THEN answer \cup {p} ELSE answer
    /\ todo' = IF r = query.want /\ query = [kind |-> "sdb", want |-> "lead"]
               THEN {} ELSE todo \ {p}

Probe ==
    /\ at = "probe"
    /\ \E p \in todo : \E r \in Roles(p) : Collect(p, r)
    /\ UNCHANGED <<query, at, cluster, listed, named, mute, down>>

\* The question fails: "unknown", which is nobody's role, but no talker for upc.
ProbeFails ==
    /\ at = "probe"
    /\ \E p \in todo :
          /\ Collect(p, IF query.kind = "upc" THEN "follow" ELSE "unknown")
          /\ mute' = mute \cup {p}
    /\ UNCHANGED <<query, at, cluster, listed, named, down>>

ProbeEnds ==
    /\ at = "probe" /\ todo = {}
    /\ Answers(answer)
    /\ UNCHANGED <<query, cluster, listed, named, todo, mute, down>>

-----------------------------------------------------------------------------
(* The services *)

Busy == at # "done"

\* An election: a leader steps down, and later one of its group takes over.
StepDown(p) ==
    /\ Busy /\ elections < MaxElections
    /\ p \in Voters(p) /\ role[p] = "lead" /\ Voters(p) # {p}
    /\ role' = [role EXCEPT ![p] = "follow"]
    /\ held' = [held EXCEPT ![p] = @ \cup {"follow"}]
    /\ elections' = elections + 1
    /\ UNCHANGED <<query, at, addr, listed, named, todo, answer, restarts, moved, mute, down>>

TakeOver(p) ==
    /\ Busy /\ p \in Voters(p)
    /\ \A q \in Voters(p) : role[q] = "follow"
    /\ role' = [role EXCEPT ![p] = "lead"]
    /\ held' = [held EXCEPT ![p] = @ \cup {"lead"}]
    /\ UNCHANGED <<query, at, addr, listed, named, todo, answer, elections, restarts,
                   moved, mute, down>>

\* A pod comes back under its name, with an address that is free.
Restart(p) ==
    /\ Busy /\ restarts < MaxRestarts
    /\ \E a \in Address \ {addr[q] : q \in Pod} : addr' = [addr EXCEPT ![p] = a]
    /\ restarts' = restarts + 1
    /\ moved' = moved \cup {p}
    /\ UNCHANGED <<query, at, role, listed, named, todo, answer, elections, held, mute, down>>

RolesTerminated == at = "done" /\ UNCHANGED rolesVars

RolesNext ==
    \/ Ask \/ Fail \/ Service \/ EtcdCluster \/ RcCluster \/ List
    \/ Probe \/ ProbeFails \/ ProbeEnds
    \/ \E p \in Pod : StepDown(p) \/ TakeOver(p) \/ Restart(p)
    \/ RolesTerminated

RolesSpec == RolesInit /\ [][RolesNext]_rolesVars

-----------------------------------------------------------------------------
(* Properties *)

RolesTypeOK ==
    /\ query \in Query
    /\ at \in {"asked", "service", "cluster", "list", "probe", "done"}
    /\ role \in [Pod -> Role] /\ held \in [Pod -> SUBSET Role]
    /\ addr \in [Pod -> Address] /\ listed \in [Pod -> Address \cup {NoAddress}]
    /\ named \subseteq Pod /\ todo \subseteq Pod /\ answer \subseteq Pod
    /\ elections \in 0..MaxElections /\ restarts \in 0..MaxRestarts
    /\ moved \subseteq Pod /\ mute \subseteq Pod /\ down \in BOOLEAN

\* A pod that is answered has had the role at some moment of the query, whatever was
\* elected meanwhile, but for a pod whose address had changed when it was asked
\* about, and a upc pod that did not answer, which passes for no talker
\* (pod.py:388, 661).
RoleWasHeld ==
    at = "done" /\ query.want \in Role /\ query.kind \notin {"upu", "name"} =>
        \A p \in answer :
            \/ query.want \in held[p]
            \/ query.kind \in {"ddb", "upc"} /\ p \in moved
            \/ query = [kind |-> "upc", want |-> "follow"] /\ p \in mute

\* What a query is to answer about the group of p.
Expected(p) ==
    CASE query.want = "all" /\ query.kind # "name" -> Group(p)
      [] query.kind = "name" -> Matching
      [] query.kind = "upu" -> UpuPods
      [] query.kind \notin {"upu", "name"} /\ query.want \in Role ->
            {q \in Voters(p) : role[q] = query.want}

Quiet(p) == \A q \in Group(p) : q \notin moved \cup mute /\ held[q] = {role[q]}

\* Trouble stays where it is: the answer about a group in which nothing was elected,
\* no pod moved and no question failed is exact, whatever happens to the others
\* meanwhile (pod.py:311).
QuietGroupsAreExact ==
    at = "done" /\ ~down => \A p \in Pod : Quiet(p) => answer \cap Group(p) = Expected(p)
=============================================================================
