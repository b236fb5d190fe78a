------------------------ MODULE CommandInjectorsProofs ------------------------
(***************************************************************************)
(* Proofs about CommandInjectors and the singleton it takes its pool from, *)
(* for any number of calls, targets and commands.                          *)
(***************************************************************************)
EXTENDS CommandInjectors, TLAPS

\* The steps before command k of target t, of C commands for each of T targets.
Passed(T, C, t, k) ==
    {s \in (1..T) \X (1..C) : s[1] < t \/ (s[1] = t /\ s[2] < k)}

\* Going through the commands in order, each step passes one more.
LEMMA PassCommand ==
    ASSUME NEW T \in Nat, NEW C \in Nat, NEW t \in 1..T, NEW k \in 1..C
    PROVE  /\ <<t, k>> \in (1..T) \X (1..C) /\ <<t, k>> \notin Passed(T, C, t, k)
           /\ Passed(T, C, t, k + 1) = Passed(T, C, t, k) \cup {<<t, k>>}
           /\ k = C => Passed(T, C, t + 1, 1) = Passed(T, C, t, k) \cup {<<t, k>>}
           /\ k = C /\ t = T => (1..T) \X (1..C) = Passed(T, C, t, k) \cup {<<t, k>>}
  BY DEF Passed

\* A target passed over is passed with all its commands.
LEMMA PassTarget ==
    ASSUME NEW T \in Nat, NEW C \in Nat, NEW t \in 1..T
    PROVE  /\ \A s \in Passed(T, C, t, 1) : s[1] # t
           /\ Passed(T, C, t, 1) = {s \in Passed(T, C, t + 1, 1) : s[1] # t}
           /\ t = T => Passed(T, C, t, 1) = {s \in (1..T) \X (1..C) : s[1] # t}
  BY DEF Passed

LEMMA PassNothing ==
    ASSUME NEW T \in Nat, NEW C \in Nat
    PROVE  Passed(T, C, 1, 1) = {}
  BY DEF Passed

-----------------------------------------------------------------------------
(* The pool *)

\* What InitOnce rests on: __init__ is counted once for the instance in _instances,
\* and nobody is in it, or has its result, before that.
PoolInv ==
    /\ at \in [Call -> {"out", "wait", "init", "got"}]
    /\ made \in BOOLEAN /\ ready \in BOOLEAN /\ broken \in BOOLEAN
    /\ inits = IF made THEN 1 ELSE 0
    /\ \A c \in Call : at[c] \in {"init", "got"} => made
    /\ made /\ ~ready => Pool!Locked \/ broken

PoolStep(c) ==
    \/ Pool!Look(c) \/ Pool!Enter(c) \/ Pool!InitReturns(c) \/ Pool!InitRaises(c)
    \/ Pool!Leave(c)

LEMMA PoolOnce == PoolInv => Pool!InitOnce
  BY DEF PoolInv, Pool!InitOnce

\* Every step of a caller through __call__ keeps it.
LEMMA PoolKept ==
    ASSUME PoolInv, NEW c \in Call, PoolStep(c)
    PROVE  PoolInv'
<1> USE DEF PoolInv, Pool!Locked, Pool!Moves
<1>1. CASE Pool!Look(c)
  BY <1>1 DEF Pool!Look
<1>2. CASE Pool!Enter(c)
  <2>1. CASE made
    BY <1>2, <2>1 DEF Pool!Enter
  <2>2. CASE ~made
    <3>1. at' = [at EXCEPT ![c] = "init"] /\ made' /\ inits' = 1 /\ UNCHANGED <<ready, broken>>
      BY <1>2, <2>2 DEF Pool!Enter
    <3>2. at'[c] = "init"
      BY <3>1
    <3>3. QED
      BY <1>2, <2>2, <3>1, <3>2 DEF Pool!Enter
  <2>3. QED
    BY <2>1, <2>2
<1>3. CASE Pool!InitReturns(c)
  BY <1>3 DEF Pool!InitReturns
<1>4. CASE Pool!InitRaises(c)
  BY <1>4 DEF Pool!InitRaises
<1>5. CASE Pool!Leave(c)
  BY <1>5 DEF Pool!Leave
<1>6. QED
  BY <1>1, <1>2, <1>3, <1>4, <1>5 DEF PoolStep

LEMMA PoolSame == ASSUME PoolInv, UNCHANGED poolVars PROVE PoolInv'
  BY DEF PoolInv, poolVars, Pool!Locked

-----------------------------------------------------------------------------
(* The calls *)

Types ==
    /\ job \in [Call -> Job \cup {NoJob}]
    /\ pc \in [Call -> {"idle", "refused", "reach", "send", "threads", "hung", "true", "false"}]
    /\ target \in [Call -> Nat] /\ command \in [Call -> Nat]
    /\ failed \in [Call -> BOOLEAN]
    /\ running \in [Call -> SUBSET Nat] /\ missed \in [Call -> SUBSET Nat]
    /\ tried \in [Call -> SUBSET (Nat \X Nat)] /\ carried \in [Call -> SUBSET (Nat \X Nat)]
    /\ presumed \in [Call -> SUBSET (Nat \X Nat)]

Behind(c) == Passed(Targets[job[c]], Commands[job[c]], target[c], command[c])

\* A call that has not begun.
Idle(c) ==
    pc[c] = "idle" =>
        /\ target[c] = 1 /\ command[c] = 1 /\ ~failed[c]
        /\ missed[c] = {} /\ tried[c] = {}

\* A call on its way through targets and commands, one by one: the steps behind it
\* were tried, except on the targets passed over, and as long as the verdict is good
\* nothing was passed over and all of them took effect.
Walking(c) ==
    pc[c] \in {"reach", "send"} =>
        /\ job[c] \in Job
        /\ target[c] \in TargetsOf(c) /\ command[c] \in 1..Commands[job[c]]
        /\ pc[c] = "reach" => command[c] = 1
        /\ missed[c] \subseteq 1..(target[c] - 1)
        /\ tried[c] = {s \in Behind(c) : s[1] \notin missed[c]}
        /\ ~failed[c] => missed[c] = {} /\ Behind(c) \subseteq carried[c] \cup presumed[c]

\* A call whose threads run: the same of those that have ended.
Racing(c) ==
    pc[c] = "threads" =>
        /\ job[c] \in Job /\ Commands[job[c]] = 1
        /\ running[c] \subseteq TargetsOf(c) /\ missed[c] \subseteq TargetsOf(c) \ running[c]
        /\ tried[c] = {s \in Steps(c) : s[1] \notin running[c] \cup missed[c]}
        /\ ~failed[c] => /\ missed[c] = {}
                         /\ {s \in Steps(c) : s[1] \notin running[c]} \subseteq carried[c]

\* A call with its verdict.
Done(c) ==
    /\ pc[c] = "true" => missed[c] = {} /\ Steps(c) \subseteq carried[c] \cup presumed[c]
    /\ pc[c] \in {"true", "false"} => tried[c] = {s \in Steps(c) : s[1] \notin missed[c]}

CallInv(c) == Idle(c) /\ Walking(c) /\ Racing(c) /\ Done(c)

CInv == PoolInv /\ Types /\ \A c \in Call : CallInv(c)

LEMMA CallsInit == Init => CInv
<1> SUFFICES ASSUME Init PROVE CInv
  OBVIOUS
<1>1. PoolInv
  BY Zenon DEF Init, Pool!Init, PoolInv
<1>2. Types
  BY DEF Init, Types
<1>3. ASSUME NEW c \in Call PROVE CallInv(c)
  BY DEF Init, CallInv, Idle, Walking, Racing, Done
<1>4. QED
  BY <1>1, <1>2, <1>3 DEF CInv

\* A step of one call leaves the others as they are.
Local(c) ==
    \A d \in Call \ {c} :
        /\ job'[d] = job[d] /\ pc'[d] = pc[d] /\ target'[d] = target[d]
        /\ command'[d] = command[d] /\ failed'[d] = failed[d] /\ running'[d] = running[d]
        /\ missed'[d] = missed[d] /\ tried'[d] = tried[d] /\ carried'[d] = carried[d]
        /\ presumed'[d] = presumed[d]

LEMMA OthersKept ==
    ASSUME CInv, NEW c \in Call, Local(c)
    PROVE  \A d \in Call \ {c} : CallInv(d)'
  BY DEF Local, CInv, CallInv, Idle, Walking, Racing, Done, Behind, Steps, TargetsOf

\* LeaveTarget, from the last command of a target or over it: what holds on arrival at
\* the next target, or of the verdict.
LEMMA Leaving ==
    ASSUME NEW c \in Call, NEW fails \in BOOLEAN,
           Types, Types', job'[c] = job[c], job[c] \in Job,
           target[c] \in TargetsOf(c), LeaveTarget(c, fails),
           LET T == Targets[job[c]]
               C == Commands[job[c]]
           IN  /\ missed'[c] \subseteq 1..target[c]
               /\ tried'[c] = {s \in Passed(T, C, target[c] + 1, 1) : s[1] \notin missed'[c]}
               /\ ~fails =>
                     /\ missed'[c] = {}
                     /\ Passed(T, C, target[c] + 1, 1) \subseteq carried'[c] \cup presumed'[c]
    PROVE  CallInv(c)'
<1> DEFINE T == Targets[job[c]]
           C == Commands[job[c]]
<1>1. T \in Nat \ {0} /\ C \in Nat \ {0}
  BY CommandAssumption
<1>2. CASE target[c] < T
  BY <1>1, <1>2
     DEF LeaveTarget, Goes, Types, CallInv, Idle, Walking, Racing, Done, Behind, TargetsOf
<1>3. CASE target[c] = T
  <2>1. Passed(T, C, target[c] + 1, 1) = (1..T) \X (1..C)
    BY <1>1, <1>3 DEF Passed
  <2>2. pc'[c] = IF fails THEN "false" ELSE "true"
    BY <1>3 DEF LeaveTarget, Goes, Verdict, Types
  <2>3. QED
    BY <2>1, <2>2 DEF CallInv, Idle, Walking, Racing, Done, Steps, TargetsOf, Types
<1>4. QED
  BY <1>1, <1>2, <1>3 DEF TargetsOf

LEMMA Marked ==
    ASSUME failed \in [Call -> BOOLEAN], NEW c \in Call,
           failed' = failed \/ failed' = [failed EXCEPT ![c] = TRUE]
    PROVE  failed' \in [Call -> BOOLEAN]
<1>1. CASE failed' = failed
  BY <1>1, Zenon
<1>2. CASE failed' = [failed EXCEPT ![c] = TRUE]
  BY <1>2, Zenon
<1>3. QED
  BY <1>1, <1>2

LEMMA Assembled ==
    ASSUME CInv, NEW c \in Call, PoolInv', Types', Local(c), CallInv(c)'
    PROVE  CInv'
  BY OthersKept DEF CInv

\* The steps to the target.
LEMMA ReachStep ==
    ASSUME CInv, NEW c \in Call,
           \/ Start(c) \/ Refuse(c)
           \/ Unknown(c) \/ GetPool(c) \/ PoolRaises(c) \/ NoConnection(c) \/ Connect(c)
    PROVE  CInv'
<1> USE CommandAssumption DEF Goes, history, position
<1> Types /\ PoolInv /\ CallInv(c)
  BY DEF CInv
<1>1. CASE Start(c)
  <2>1. PICK j \in Job :
          /\ job' = [job EXCEPT ![c] = j]
          /\ running' = [running EXCEPT ![c] = IF Kind[j] = "ipmitool" THEN 1..Targets[j] ELSE {}]
          /\ pc' = [pc EXCEPT ![c] = CASE Kind[j] = "ipmitool" -> "threads"
                                      [] Kind[j] = "process" -> "send"
                                      [] OTHER -> "reach"]
    BY <1>1 DEF Start
  <2>2. pc[c] = "idle" /\ UNCHANGED <<poolVars, position, failed, missed, history>>
    BY <1>1 DEF Start
  <2>3. PoolInv'
    BY <2>2, PoolSame
  <2>4. Types' /\ Local(c)
    BY <2>1, <2>2 DEF Types, Local
  <2>5. /\ job'[c] = j /\ target'[c] = 1 /\ command'[c] = 1
        /\ missed'[c] = {} /\ tried'[c] = {}
        /\ pc'[c] \in {"threads", "send", "reach"}
        /\ pc'[c] = "threads" => Kind[j] = "ipmitool" /\ running'[c] = 1..Targets[j]
    BY <2>1, <2>2 DEF Types, CallInv, Idle
  <2>6. Targets[j] \in Nat \ {0} /\ Commands[j] \in Nat \ {0}
    OBVIOUS
  <2>7. Passed(Targets[j], Commands[j], 1, 1) = {}
    BY <2>6, PassNothing
  <2>8. CallInv(c)'
    BY <2>5, <2>6, <2>7
       DEF CallInv, Idle, Walking, Racing, Done, Behind, Steps, TargetsOf
  <2>9. QED
    BY <2>3, <2>4, <2>8, Assembled
<1>2. CASE Refuse(c)
  <2>1. PoolInv'
    BY <1>2, PoolSame DEF Refuse
  <2>2. Types' /\ Local(c) /\ CallInv(c)'
    BY <1>2 DEF Refuse, Types, Local, CallInv, Idle, Walking, Racing, Done
  <2>3. QED
    BY <2>1, <2>2, Assembled
<1>3. CASE GetPool(c)
  <2>1. PoolInv'
    BY <1>3, PoolKept DEF GetPool, PoolStep
  <2>2. Types' /\ Local(c)
    BY <1>3 DEF GetPool, Types, Local
  <2>3. CallInv(c)'
    BY <1>3 DEF GetPool, CallInv, Idle, Walking, Racing, Done, Behind, Steps, TargetsOf
  <2>4. QED
    BY <2>1, <2>2, <2>3, Assembled
<1>4. CASE Connect(c)
  <2>1. PoolInv'
    BY <1>4, PoolKept, PoolSame DEF Connect, PoolStep
  <2>2. Types' /\ Local(c)
    BY <1>4 DEF Connect, Types, Local
  <2>3. /\ UNCHANGED <<job, target, command, failed, running, missed, tried, carried, presumed>>
        /\ pc[c] = "reach" /\ pc'[c] = "send"
    BY <1>4 DEF Connect, Types
  <2>4. CallInv(c)'
    BY <2>3 DEF CallInv, Idle, Walking, Racing, Done, Behind, Steps, TargetsOf
  <2>5. QED
    BY <2>1, <2>2, <2>4, Assembled
<1>5. ASSUME Miss(c), pc[c] = "reach", PoolInv' PROVE CInv'
  <2> DEFINE T == Targets[job[c]]
             C == Commands[job[c]]
             t == target[c]
  <2>1. /\ job[c] \in Job /\ t \in 1..T /\ T \in Nat /\ C \in Nat \ {0}
        /\ command[c] = 1 /\ missed[c] \subseteq 1..(t - 1)
        /\ tried[c] = {s \in Passed(T, C, t, 1) : s[1] \notin missed[c]}
    BY <1>5 DEF CallInv, Walking, Behind, TargetsOf
  <2>2. /\ missed' = [missed EXCEPT ![c] = @ \cup {t}]
        /\ UNCHANGED <<job, running, tried, carried, presumed>>
        /\ LeaveTarget(c, TRUE)
    BY <1>5 DEF Miss
  <2>3. Types' /\ Local(c)
    BY <2>1, <2>2 DEF LeaveTarget, Verdict, Types, Local
  <2>4. missed'[c] = missed[c] \cup {t}
    BY <2>2 DEF Types
  <2>5. tried'[c] = {s \in Passed(T, C, t + 1, 1) : s[1] \notin missed'[c]}
    BY <2>1, <2>2, <2>4, PassTarget
  <2>6. missed'[c] \subseteq 1..t
    BY <2>1, <2>4
  <2>7. CallInv(c)'
    BY <2>1, <2>2, <2>3, <2>5, <2>6, Leaving DEF TargetsOf
  <2>8. QED
    BY <1>5, <2>3, <2>7, Assembled
<1>6. CASE Unknown(c)
  BY <1>6, <1>5, PoolSame DEF Unknown
<1>7. CASE PoolRaises(c)
  BY <1>7, <1>5, PoolKept DEF PoolRaises, PoolStep
<1>8. CASE NoConnection(c)
  BY <1>8, <1>5, PoolKept, PoolSame DEF NoConnection, PoolStep
<1>9. QED
  BY <1>1, <1>2, <1>3, <1>4, <1>6, <1>7, <1>8

\* A command that was given and answered, whatever the answer: in the list of its
\* target, or the last of it.
LEMMA Answered ==
    ASSUME CInv, NEW c \in Call, NEW fails \in BOOLEAN,
           pc[c] = "send", NextCommand(c, fails), Types',
           UNCHANGED <<job, running, missed>>,
           tried'[c] = tried[c] \cup {Step(c)},
           carried[c] \cup presumed[c] \subseteq carried'[c] \cup presumed'[c],
           ~fails => ~failed[c] /\ Step(c) \in carried'[c] \cup presumed'[c]
    PROVE  CallInv(c)'
<1> DEFINE T == Targets[job[c]]
           C == Commands[job[c]]
           t == target[c]
           k == command[c]
<1>1. /\ job[c] \in Job /\ T \in Nat /\ C \in Nat /\ t \in 1..T /\ k \in 1..C
      /\ missed[c] \subseteq 1..(t - 1)
      /\ tried[c] = {s \in Passed(T, C, t, k) : s[1] \notin missed[c]}
      /\ ~failed[c] => missed[c] = {} /\ Passed(T, C, t, k) \subseteq carried[c] \cup presumed[c]
  BY CommandAssumption DEF CInv, Types, CallInv, Walking, Behind, TargetsOf
<1> DEFINE P == Passed(T, C, t, k) \cup {<<t, k>>}
<1>2. t \notin missed[c] /\ Step(c) = <<t, k>> /\ missed'[c] = missed[c]
  BY <1>1 DEF Step
<1>3. tried'[c] = {s \in P : s[1] \notin missed'[c]}
  BY <1>1, <1>2
<1>4. ~fails => missed'[c] = {} /\ P \subseteq carried'[c] \cup presumed'[c]
  BY <1>1, <1>2
<1>5. CASE k < C
  <2>1. /\ pc' = pc /\ target' = target /\ command'[c] = k + 1 /\ failed'[c] = fails
    BY <1>5, <1>1 DEF NextCommand, CInv, Types
  <2>2. Passed(T, C, t, k + 1) = P
    BY <1>1, PassCommand
  <2>3. QED
    BY <1>1, <1>2, <1>3, <1>4, <1>5, <2>1, <2>2
       DEF CallInv, Idle, Walking, Racing, Done, Behind, TargetsOf
<1>6. CASE k = C
  <2>1. LeaveTarget(c, fails) /\ job'[c] = job[c] /\ Types
    BY <1>6, <1>1 DEF NextCommand, CInv
  <2>2. Passed(T, C, t + 1, 1) = P
    BY <1>1, <1>6, PassCommand
  <2>3. QED
    BY <1>1, <1>2, <1>3, <1>4, <2>1, <2>2, Leaving DEF TargetsOf
<1>7. QED
  BY <1>1, <1>5, <1>6

\* The commands.
LEMMA SendStep ==
    ASSUME CInv, NEW c \in Call, Succeed(c) \/ Fail(c) \/ Presume(c) \/ Hang(c)
    PROVE  CInv'
<1> USE CommandAssumption DEF Goes
<1> Types /\ PoolInv /\ CallInv(c)
  BY DEF CInv
<1>1. Step(c) \in Nat \X Nat
  BY DEF Step, Types
<1>2. PoolInv'
  BY PoolSame DEF Succeed, Fail, Presume, Hang
<1>3. CASE Succeed(c)
  <2>1. Types' /\ Local(c)
    BY <1>1, <1>3
       DEF Succeed, Gives, NextCommand, LeaveTarget, Verdict, position, Types, Local
  <2>2. /\ tried'[c] = tried[c] \cup {Step(c)} /\ carried'[c] = carried[c] \cup {Step(c)}
        /\ presumed' = presumed
    BY <1>3 DEF Succeed, Gives, Types
  <2>3. QED
    BY <1>2, <1>3, <2>1, <2>2, Answered, Assembled DEF Succeed, Types
<1>4. CASE Fail(c)
  <2>1. PICK effect \in BOOLEAN : Gives(c, Step(c), effect)
    BY <1>4 DEF Fail
  <2>2. Types'
    <3>1. /\ tried' \in [Call -> SUBSET (Nat \X Nat)]
          /\ carried' \in [Call -> SUBSET (Nat \X Nat)]
      BY <1>1, <2>1 DEF Gives, Types
    <3>2. failed' = [failed EXCEPT ![c] = TRUE]
      BY <1>4 DEF Fail, NextCommand, LeaveTarget
    <3> failed' \in [Call -> BOOLEAN]
      BY <3>2, Marked DEF Types
    <3>3. target' \in [Call -> Nat] /\ command' \in [Call -> Nat]
      <4>1. target' = target \/ target' = [target EXCEPT ![c] = @ + 1]
        BY <1>4 DEF Fail, NextCommand, LeaveTarget, position
      <4>2. \/ command' = command \/ command' = [command EXCEPT ![c] = @ + 1]
            \/ command' = [command EXCEPT ![c] = 1]
        BY <1>4 DEF Fail, NextCommand, LeaveTarget, position
      <4>3. QED
        BY <4>1, <4>2 DEF Types
    <3>4. QED
      BY <1>4, <3>1, <3>2, <3>3 DEF Fail, NextCommand, LeaveTarget, Verdict, Types
  <2> Local(c)
    BY <1>4, <2>1, <2>2
       DEF Fail, Gives, NextCommand, LeaveTarget, Verdict, position, Types, Local
  <2>3. /\ tried'[c] = tried[c] \cup {Step(c)} /\ carried[c] \subseteq carried'[c]
        /\ presumed' = presumed
    BY <1>4, <2>1 DEF Fail, Gives, Types
  <2>4. QED
    BY <1>2, <1>4, <2>2, <2>3, Answered, Assembled DEF Fail, Types
<1>5. CASE Presume(c)
  <2>1. PICK effect \in BOOLEAN : Gives(c, Step(c), effect)
    BY <1>5 DEF Presume
  <2>2. Types' /\ Local(c)
    BY <1>1, <1>5, <2>1
       DEF Presume, Gives, NextCommand, LeaveTarget, Verdict, position, Types, Local
  <2>3. /\ tried'[c] = tried[c] \cup {Step(c)} /\ carried[c] \subseteq carried'[c]
        /\ presumed'[c] = presumed[c] \cup {Step(c)}
    BY <1>5, <2>1 DEF Presume, Gives, Types
  <2>4. QED
    BY <1>2, <1>5, <2>2, <2>3, Answered, Assembled DEF Presume, Types
<1>6. CASE Hang(c)
  <2>1. PICK effect \in BOOLEAN : Gives(c, Step(c), effect)
    BY <1>6 DEF Hang
  <2>2. Types' /\ Local(c)
    BY <1>1, <1>6, <2>1 DEF Hang, Gives, position, Types, Local
  <2>3. pc'[c] = "hung"
    BY <1>6 DEF Hang, Types
  <2>4. CallInv(c)'
    BY <2>3 DEF CallInv, Idle, Walking, Racing, Done
  <2>5. QED
    BY <1>2, <2>2, <2>4, Assembled
<1>7. QED
  BY <1>3, <1>4, <1>5, <1>6

\* The threads of ipmitool.
LEMMA ToolStep ==
    ASSUME CInv, NEW c \in Call, Tool(c) \/ ToolsEnd(c)
    PROVE  CInv'
<1> USE CommandAssumption DEF Goes
<1> Types /\ PoolInv /\ CallInv(c)
  BY DEF CInv
<1>1. PoolInv'
  BY PoolSame DEF Tool, ToolsEnd
<1>2. CASE Tool(c)
  <2>1. PICK t \in running[c] :
          /\ running' = [running EXCEPT ![c] = @ \ {t}]
          /\ \/ /\ Gives(c, <<t, 1>>, TRUE)
                /\ UNCHANGED <<failed, missed>>
             \/ /\ \E effect \in BOOLEAN : Gives(c, <<t, 1>>, effect)
                /\ failed' = [failed EXCEPT ![c] = TRUE]
                /\ UNCHANGED missed
             \/ /\ missed' = [missed EXCEPT ![c] = @ \cup {t}]
                /\ failed' = [failed EXCEPT ![c] = TRUE]
                /\ UNCHANGED <<tried, carried>>
    BY <1>2 DEF Tool
  <2>2. pc[c] = "threads" /\ UNCHANGED <<poolVars, job, pc, target, command, presumed>>
    BY <1>2 DEF Tool, position
  <2>0. pc'[c] = "threads"
    BY <2>2
  <2>3. /\ job[c] \in Job /\ Commands[job[c]] = 1
        /\ running[c] \subseteq TargetsOf(c) /\ missed[c] \subseteq TargetsOf(c) \ running[c]
        /\ tried[c] = {s \in Steps(c) : s[1] \notin running[c] \cup missed[c]}
        /\ ~failed[c] => /\ missed[c] = {}
                         /\ {s \in Steps(c) : s[1] \notin running[c]} \subseteq carried[c]
    BY <2>2 DEF CallInv, Racing
  <2>4. t \in Nat /\ t \in TargetsOf(c) /\ t \notin missed[c]
    BY <2>3 DEF TargetsOf
  <2>5. Types' /\ Local(c)
    <3>1. <<t, 1>> \in Nat \X Nat
      BY <2>4
    <3>2. /\ tried' \in [Call -> SUBSET (Nat \X Nat)]
          /\ carried' \in [Call -> SUBSET (Nat \X Nat)]
      BY <2>1, <3>1 DEF Gives, Types
    <3>3. running' \in [Call -> SUBSET Nat] /\ missed' \in [Call -> SUBSET Nat]
      <4>1. missed' = missed \/ missed' = [missed EXCEPT ![c] = @ \cup {t}]
        BY <2>1
      <4>2. QED
        BY <2>1, <2>4, <4>1 DEF Types
    <3>4. failed' \in [Call -> BOOLEAN]
      BY <2>1, Marked DEF Types
    <3>5. Types'
      BY <2>2, <3>2, <3>3, <3>4 DEF Types
    <3>6. Local(c)
      BY <2>1, <2>2, <3>5 DEF Gives, Types, Local
    <3>7. QED
      BY <3>5, <3>6
  <2>6. /\ Steps(c)' = Steps(c) /\ TargetsOf(c)' = TargetsOf(c)
        /\ Steps(c) = TargetsOf(c) \X {1}
        /\ running'[c] = running[c] \ {t}
    BY <2>1, <2>2, <2>3 DEF Steps, TargetsOf, Types
  <2>7. CASE missed'[c] = missed[c] /\ tried'[c] = tried[c] \cup {<<t, 1>>}
    <3>1. tried'[c] = {s \in Steps(c) : s[1] \notin running'[c] \cup missed'[c]}
      BY <2>3, <2>4, <2>6, <2>7
    <3>2. ~failed'[c] => /\ missed'[c] = {}
                         /\ {s \in Steps(c) : s[1] \notin running'[c]} \subseteq carried'[c]
      BY <2>1, <2>3, <2>4, <2>6, <2>7 DEF Gives, Types
    <3>3. Racing(c)'
      BY <2>2, <2>3, <2>4, <2>6, <2>7, <3>1, <3>2 DEF Racing
    <3>4. CallInv(c)'
      BY <2>0, <3>3 DEF CallInv, Idle, Walking, Done
    <3>5. QED
      BY <1>1, <2>5, <3>4, Assembled
  <2>8. CASE missed'[c] = missed[c] \cup {t} /\ tried' = tried /\ failed'[c]
    <3>1. tried'[c] = {s \in Steps(c) : s[1] \notin running'[c] \cup missed'[c]}
      BY <2>3, <2>4, <2>6, <2>8
    <3>2. Racing(c)'
      BY <2>2, <2>3, <2>4, <2>6, <2>8, <3>1 DEF Racing
    <3>3. CallInv(c)'
      BY <2>0, <3>2 DEF CallInv, Idle, Walking, Done
    <3>4. QED
      BY <1>1, <2>5, <3>3, Assembled
  <2>9. \/ missed'[c] = missed[c] /\ tried'[c] = tried[c] \cup {<<t, 1>>}
        \/ missed'[c] = missed[c] \cup {t} /\ tried' = tried /\ failed'[c]
    BY <2>1 DEF Gives, Types
  <2>10. QED
    BY <2>7, <2>8, <2>9
<1>3. CASE ToolsEnd(c)
  <2>1. Types' /\ Local(c)
    BY <1>3 DEF ToolsEnd, Verdict, position, history, Types, Local
  <2>2. /\ pc'[c] = IF failed[c] THEN "false" ELSE "true"
        /\ running[c] = {} /\ pc[c] = "threads"
        /\ UNCHANGED <<job, target, command, failed, running, missed, tried, carried, presumed>>
    BY <1>3 DEF ToolsEnd, Verdict, position, history, Types
  <2>3. Done(c)'
    BY <2>2 DEF CallInv, Racing, Done, Steps, TargetsOf
  <2>4. CallInv(c)'
    BY <2>2, <2>3 DEF CallInv, Idle, Walking, Racing
  <2>5. QED
    BY <1>1, <2>1, <2>4, Assembled
<1>4. QED
  BY <1>2, <1>3

LEMMA CallsStep == CInv /\ [Next]_vars => CInv'
<1> SUFFICES ASSUME CInv, [Next]_vars PROVE CInv'
  OBVIOUS
<1>1. ASSUME UNCHANGED vars PROVE CInv'
  BY <1>1 DEF vars, poolVars, position, history, CInv, PoolInv, Pool!Locked, Types, CallInv,
     Idle, Walking, Racing, Done, Behind, Steps, TargetsOf
<1>2. CASE Terminated
  BY <1>1, <1>2 DEF Terminated
<1>3. ASSUME NEW c \in Call,
             \/ Start(c) \/ Refuse(c)
             \/ Unknown(c) \/ GetPool(c) \/ PoolRaises(c) \/ NoConnection(c) \/ Connect(c)
      PROVE  CInv'
  BY <1>3, ReachStep
<1>4. ASSUME NEW c \in Call, Succeed(c) \/ Fail(c) \/ Presume(c) \/ Hang(c) PROVE CInv'
  BY <1>4, SendStep
<1>5. ASSUME NEW c \in Call, Tool(c) \/ ToolsEnd(c) PROVE CInv'
  BY <1>5, ToolStep
<1>6. QED
  BY <1>1, <1>2, <1>3, <1>4, <1>5 DEF Next

LEMMA CallsInvariant == Spec => []CInv
  BY CallsInit, CallsStep, PTL DEF Spec

-----------------------------------------------------------------------------
(* Theorems *)

\* Type correctness.
THEOREM CallTypes == Spec => []TypeOK
<1>1. CInv => TypeOK
  BY PoolOnce DEF CInv, PoolInv, Types, TypeOK
<1>2. QED
  BY <1>1, CallsInvariant, PTL

\* A verdict of True is about every command on every target.
THEOREM TrueIsDone == Spec => []TrueMeansDone
<1>1. CInv => TrueMeansDone
  BY DEF CInv, CallInv, Done, TrueMeansDone
<1>2. QED
  BY <1>1, CallsInvariant, PTL

\* What fails on a target or in a command keeps no other from being given.
THEOREM FailuresAreLocal == Spec => []FailureIsLocal
<1>1. CInv => FailureIsLocal
  BY DEF CInv, CallInv, Done, FailureIsLocal
<1>2. QED
  BY <1>1, CallsInvariant, PTL

\* __init__ of the pool runs once, however many threads ask for it.
THEOREM OnePool == Spec => []PoolMadeOnce
<1>1. CInv => PoolMadeOnce
  BY PoolOnce DEF CInv, PoolMadeOnce
<1>2. QED
  BY <1>1, CallsInvariant, PTL
=============================================================================
