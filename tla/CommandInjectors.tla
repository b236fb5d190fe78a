-------------------------- MODULE CommandInjectors --------------------------
(***************************************************************************)
(* chaos/fault/base.py: the injectors that carry commands to hosts and     *)
(* have nothing to recover: reboot (computer), cmd, ipmitool, process and  *)
(* sw.  An injection goes through its targets and through the commands for *)
(* each, gathers one verdict, and goes on where a target or a command      *)
(* fails; ipmitool runs its targets in threads.  The injections of         *)
(* parallel tasks meet in get_ssh_pool (Singleton).                        *)
(***************************************************************************)
EXTENDS Naturals

CONSTANTS Call, NoJob,
          Job,       \* what there is to inject
          Kind,      \* [Job -> {"reboot", "cmd", "ipmitool", "process", "sw"}]
          Targets,   \* [Job -> Nat]: the targets, counted
          Commands   \* [Job -> Nat]: commands for each; for sw, in all its loops

ASSUME CommandAssumption ==
    /\ NoJob \notin Job
    /\ Kind \in [Job -> {"reboot", "cmd", "ipmitool", "process", "sw"}]
    /\ Targets \in [Job -> Nat \ {0}] /\ Commands \in [Job -> Nat \ {0}]
    /\ \A j \in Job : Kind[j] \in {"process", "sw"} => Targets[j] = 1
    /\ \A j \in Job : Kind[j] \in {"reboot", "ipmitool", "process"} => Commands[j] = 1

VARIABLES at, made, ready, inits, broken, \* the pool singleton
          job,     \* what a call injects
          pc,
          target, command, \* the ones it is at
          failed,  \* ~all_success
          running, \* targets whose ipmitool thread has not ended
          missed,  \* targets passed over: unknown, not connected, no pool
          tried,   \* history: steps whose command was given to the host
          carried, \* history: steps whose command took effect there
          presumed \* history: steps counted as success on the host's answer

poolVars == <<at, made, ready, inits, broken>>
position == <<target, command>>
history == <<tried, carried, presumed>>
vars == <<poolVars, job, pc, position, failed, running, missed, history>>

Pool == INSTANCE Singleton WITH Thread <- Call

TargetsOf(c) == 1..Targets[job[c]]
Steps(c) == TargetsOf(c) \X (1..Commands[job[c]])

Init ==
    /\ Pool!Init
    /\ job = [c \in Call |-> NoJob]
    /\ pc = [c \in Call |-> "idle"]
    /\ target = [c \in Call |-> 1] /\ command = [c \in Call |-> 1]
    /\ failed = [c \in Call |-> FALSE]
    /\ running = [c \in Call |-> {}]
    /\ missed = [c \in Call |-> {}]
    /\ tried = [c \in Call |-> {}]
    /\ carried = [c \in Call |-> {}]
    /\ presumed = [c \in Call |-> {}]

Goes(c, there) == pc' = [pc EXCEPT ![c] = there]
KindOf(c) == Kind[job[c]]
UsesPool(c) == KindOf(c) \in {"reboot", "cmd"}
Verdict(fails) == IF fails THEN "false" ELSE "true"

\* process gets its connection from the case; the others look for theirs.
Start(c) ==
    /\ pc[c] = "idle"
    /\ \E j \in Job :
          /\ job' = [job EXCEPT ![c] = j]
          /\ running' = [running EXCEPT ![c] = IF Kind[j] = "ipmitool" THEN 1..Targets[j] ELSE {}]
          /\ Goes(c, CASE Kind[j] = "ipmitool" -> "threads"
                       [] Kind[j] = "process" -> "send"
                       [] OTHER -> "reach")
    /\ UNCHANGED <<poolVars, position, failed, missed, history>>

\* The fault type is not known, or sw has no commands.
Refuse(c) ==
    /\ pc[c] = "idle"
    /\ Goes(c, "refused")
    /\ UNCHANGED <<poolVars, job, position, failed, running, missed, history>>

\* Mutant: all_success is set again for every target.
LeaveFresh(c, fails) ==
    IF target[c] < Targets[job[c]]
    THEN /\ target' = [target EXCEPT ![c] = @ + 1] /\ command' = [command EXCEPT ![c] = 1]
         /\ failed' = [failed EXCEPT ![c] = FALSE]
         /\ Goes(c, "reach")
    ELSE /\ failed' = [failed EXCEPT ![c] = fails]
         /\ Goes(c, Verdict(fails))
         /\ UNCHANGED position

\* The next target, or the verdict.
LeaveTarget(c, fails) ==
    /\ failed' = [failed EXCEPT ![c] = fails]
    /\ IF target[c] < Targets[job[c]]
       THEN /\ target' = [target EXCEPT ![c] = @ + 1] /\ command' = [command EXCEPT ![c] = 1]
            /\ Goes(c, "reach")
       ELSE Goes(c, Verdict(fails)) /\ UNCHANGED position

-----------------------------------------------------------------------------
(* To the target *)

\* The environment does not exist, or there is no connection: the target is passed
\* over, and sw gives up.
Miss(c) ==
    /\ missed' = [missed EXCEPT ![c] = @ \cup {target[c]}]
    /\ LeaveTarget(c, TRUE)
    /\ UNCHANGED <<job, running, history>>

Unknown(c) ==
    /\ pc[c] = "reach" /\ at[c] = "out"
    /\ Miss(c)
    /\ UNCHANGED poolVars

\* get_ssh_pool, inside the try of the target.
GetPool(c) ==
    /\ pc[c] = "reach" /\ UsesPool(c)
    /\ Pool!Look(c) \/ Pool!Enter(c) \/ Pool!InitReturns(c)
    /\ UNCHANGED <<job, pc, position, failed, running, missed, history>>

PoolRaises(c) ==
    /\ pc[c] = "reach" /\ Pool!InitRaises(c)
    /\ Miss(c)

\* get_connection raises: no connection, or a pool without its attributes.
NoConnection(c) ==
    /\ pc[c] = "reach"
    /\ IF UsesPool(c) THEN Pool!Leave(c) ELSE UNCHANGED poolVars
    /\ Miss(c)

Connect(c) ==
    /\ pc[c] = "reach"
    /\ IF UsesPool(c) THEN Pool!Leave(c) ELSE UNCHANGED poolVars
    /\ Goes(c, "send")
    /\ UNCHANGED <<job, position, failed, running, missed, history>>

-----------------------------------------------------------------------------
(* The commands *)

\* Mutant: a command that fails ends the commands of its target.
NextCommandBreaks(c, fails) ==
    IF command[c] < Commands[job[c]] /\ ~fails
    THEN /\ command' = [command EXCEPT ![c] = @ + 1]
         /\ UNCHANGED <<target, failed, pc>>
    ELSE LeaveTarget(c, fails)

NextCommand(c, fails) ==
    IF command[c] < Commands[job[c]]
    THEN /\ command' = [command EXCEPT ![c] = @ + 1]
         /\ failed' = [failed EXCEPT ![c] = fails]
         /\ UNCHANGED <<target, pc>>
    ELSE LeaveTarget(c, fails)

Step(c) == <<target[c], command[c]>>

\* The command of step s was given to its host, which may have carried it out.
Gives(c, s, effect) ==
    /\ tried' = [tried EXCEPT ![c] = @ \cup {s}]
    /\ carried' = [carried EXCEPT ![c] = IF effect THEN @ \cup {s} ELSE @]

\* Exit status 0.  sw has no status: what was typed counts as done.
Succeed(c) ==
    /\ pc[c] = "send" /\ KindOf(c) # "sw"
    /\ Gives(c, Step(c), TRUE)
    /\ NextCommand(c, failed[c])
    /\ UNCHANGED <<poolVars, job, running, missed, presumed>>

\* Another status, an exception: with effect or without.
Fail(c) ==
    /\ pc[c] = "send"
    /\ \E effect \in BOOLEAN : Gives(c, Step(c), effect)
    /\ NextCommand(c, TRUE)
    /\ UNCHANGED <<poolVars, job, running, missed, presumed>>

\* _is_reboot_success on the answer, "No such process", or a switch, whose answers
\* are not looked at and whose [Y/N] is answered N.
Presume(c) ==
    /\ pc[c] = "send" /\ KindOf(c) \in {"reboot", "process", "sw"}
    /\ \E effect \in BOOLEAN : Gives(c, Step(c), effect)
    /\ presumed' = [presumed EXCEPT ![c] = @ \cup {Step(c)}]
    /\ NextCommand(c, failed[c])
    /\ UNCHANGED <<poolVars, job, running, missed>>

\* execute lost the connection and waits for itself (SSHExecutor).
Hang(c) ==
    /\ pc[c] = "send" /\ KindOf(c) # "sw"
    /\ \E effect \in BOOLEAN : Gives(c, Step(c), effect)
    /\ Goes(c, "hung")
    /\ UNCHANGED <<poolVars, job, position, failed, running, missed, presumed>>

-----------------------------------------------------------------------------
(* ipmitool *)

\* A future is done: the tool ran; it failed, or did not end within 30 s; or the
\* BMC or the fault type is not known.
Tool(c) ==
    /\ pc[c] = "threads"
    /\ \E t \in running[c] :
          /\ running' = [running EXCEPT ![c] = @ \ {t}]
          /\ \/ /\ Gives(c, <<t, 1>>, TRUE)
                /\ UNCHANGED <<failed, missed>>
             \/ /\ \E effect \in BOOLEAN : Gives(c, <<t, 1>>, effect)
                /\ failed' = [failed EXCEPT ![c] = TRUE]
                /\ UNCHANGED missed
             \/ /\ missed' = [missed EXCEPT ![c] = @ \cup {t}]
                /\ failed' = [failed EXCEPT ![c] = TRUE]
                /\ UNCHANGED <<tried, carried>>
    /\ UNCHANGED <<poolVars, job, pc, position, presumed>>

\* as_completed and the with block have seen them all.
ToolsEnd(c) ==
    /\ pc[c] = "threads" /\ running[c] = {}
    /\ Goes(c, Verdict(failed[c]))
    /\ UNCHANGED <<poolVars, job, position, failed, running, missed, history>>

Terminated ==
    /\ \A c \in Call : pc[c] \in {"refused", "hung", "true", "false"}
    /\ UNCHANGED vars

Next ==
    \/ \E c \in Call :
          \/ Start(c) \/ Refuse(c)
          \/ Unknown(c) \/ GetPool(c) \/ PoolRaises(c) \/ NoConnection(c) \/ Connect(c)
          \/ Succeed(c) \/ Fail(c) \/ Presume(c) \/ Hang(c)
          \/ Tool(c) \/ ToolsEnd(c)
    \/ Terminated

Spec == Init /\ [][Next]_vars

-----------------------------------------------------------------------------
(* Properties *)

TypeOK ==
    /\ Pool!InitOnce /\ made \in BOOLEAN /\ ready \in BOOLEAN /\ broken \in BOOLEAN
    /\ at \in [Call -> {"out", "wait", "init", "got"}] /\ inits \in Nat
    /\ job \in [Call -> Job \cup {NoJob}]
    /\ pc \in [Call -> {"idle", "refused", "reach", "send", "threads", "hung", "true", "false"}]
    /\ target \in [Call -> Nat] /\ command \in [Call -> Nat]
    /\ failed \in [Call -> BOOLEAN]
    /\ running \in [Call -> SUBSET Nat] /\ missed \in [Call -> SUBSET Nat]
    /\ tried \in [Call -> SUBSET (Nat \X Nat)] /\ carried \in [Call -> SUBSET (Nat \X Nat)]
    /\ presumed \in [Call -> SUBSET (Nat \X Nat)]

\* True says that every command took effect on every target, but for the steps
\* counted as done on the word of the host: no failure on the way, in whatever
\* order the threads end, is forgotten in the verdict (fault/base.py:1497, 1663,
\* 1685, 1809, 2208).
TrueMeansDone ==
    \A c \in Call : pc[c] = "true" =>
        /\ missed[c] = {}
        /\ Steps(c) \subseteq carried[c] \cup presumed[c]

\* What fails on one target, or in one command, costs the others nothing: when the
\* verdict is there, every target that was not passed over was given all its
\* commands, and no other was given any (fault/base.py:1659, 1704, 1817, 2227).
FailureIsLocal ==
    \A c \in Call : pc[c] \in {"true", "false"} =>
        tried[c] = {s \in Steps(c) : s[1] \notin missed[c]}

\* The tasks get one pool.  See Singleton.
PoolMadeOnce == Pool!InitOnce
=============================================================================
