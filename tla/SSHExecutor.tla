------------------------------ MODULE SSHExecutor ------------------------------
(***************************************************************************)
(* chaos/utils/remote.py: SSHExecutor, one SSH connection that the threads *)
(* of a run share through the connection pool, with its circuit breaker    *)
(* and its keepalive thread.                                               *)
(*                                                                         *)
(* _lock is a threading.Lock, which is not reentrant.  connect, execute,   *)
(* the file transfers and disconnect hold it for their whole body, sleeps  *)
(* and network calls included; is_alive, get_status and the keepalive      *)
(* thread do not take it.  A paramiko transport is a member of Transport;  *)
(* "alive" is what transport.is_active() says of it.                       *)
(***************************************************************************)
EXTENDS Naturals, FiniteSets

CONSTANTS Thread, NoThread, \* threads that use the executor, and nobody
          Transport,        \* transports, a bound on the successful dials
          NoTransport,
          Keeper,           \* keepalive threads, a bound on their number
          NoKeeper,
          Operation,        \* the methods the threads call
          Unreliable,       \* connections drop and commands raise
          SlowBeat,         \* a heartbeat may take longer than disconnect waits
          FailureThreshold, RecoveryTimeout, HalfOpenMaxCalls

ASSUME ExecutorAssumption ==
    /\ NoThread \notin Thread /\ NoTransport \notin Transport /\ NoKeeper \notin Keeper
    /\ Operation \subseteq {"connect", "execute", "transfer", "disconnect", "reconnect"}
    /\ Unreliable \in BOOLEAN /\ SlowBeat \in BOOLEAN
    /\ FailureThreshold \in Nat \ {0} /\ RecoveryTimeout \in Nat /\ HalfOpenMaxCalls \in Nat \ {0}

VARIABLES state, failures, age, probes, call, streak, \* the circuit breaker
          lock,      \* owner of _lock
          pc,        \* what each thread is doing
          connected, \* _connected
          client,    \* transport of _client
          alive,     \* transports that are active
          dialled,   \* transports that have been established
          downs,     \* history: dials that failed since one succeeded
          quiet,     \* history: time since the last of them
          keeper,    \* _keepalive_thread
          keeping,   \* what each keepalive thread is doing
          beatOn,    \* transport a keepalive thread read from _client
          stopEvent, \* _keepalive_stop_event
          forgotten  \* history: keepalive threads disconnect did not see end

breakerVars == <<state, failures, age, probes, call, streak>>
keeperVars == <<keeper, keeping, beatOn, stopEvent, forgotten>>
linkVars == <<connected, client, alive, dialled, downs, quiet>>
vars == <<breakerVars, keeperVars, linkVars, lock, pc>>

Breaker == INSTANCE CircuitBreaker WITH Caller <- Thread

Init ==
    /\ Breaker!Init
    /\ lock = NoThread /\ pc = [t \in Thread |-> "idle"]
    /\ connected = FALSE /\ client = NoTransport /\ alive = {} /\ dialled = {}
    /\ downs = 0 /\ quiet = 0
    /\ keeper = NoKeeper /\ keeping = [k \in Keeper |-> "none"]
    /\ beatOn = [k \in Keeper |-> NoTransport] /\ stopEvent = FALSE
    /\ forgotten = {}

IsAlive == connected /\ client \in alive

Goes(t, place) == pc' = [pc EXCEPT ![t] = place]

Acquire(t) == lock = NoThread /\ lock' = t

Release(t) == lock = t /\ lock' = NoThread

-----------------------------------------------------------------------------
(* Calls.  The pool hands an executor out once it has been connected, so only *)
(* connect is called on one that never was.                                   *)

Call(t, op) ==
    /\ pc[t] = "idle"
    /\ op = "connect" \/ dialled # {}
    /\ Goes(t, op)
    /\ UNCHANGED <<breakerVars, keeperVars, linkVars, lock>>

ConnectReuses(t) ==
    /\ pc[t] = "connect" /\ lock = NoThread /\ IsAlive
    /\ Goes(t, "idle")
    /\ UNCHANGED <<breakerVars, keeperVars, linkVars, lock>>

ConnectRefused(t) ==
    /\ pc[t] = "connect" /\ lock = NoThread /\ ~IsAlive
    /\ Breaker!Refuse(t)
    /\ Goes(t, "idle")
    /\ UNCHANGED <<keeperVars, linkVars, lock>>

\* Mutant: connect does not ask the breaker.
ConnectDialsUnasked(t) ==
    /\ pc[t] = "connect" /\ Acquire(t) /\ ~IsAlive
    /\ call' = [call EXCEPT ![t] = "out"]
    /\ Goes(t, "dial")
    /\ UNCHANGED <<state, failures, age, probes, streak, keeperVars, linkVars>>

ConnectDials(t) ==
    /\ pc[t] = "connect" /\ Acquire(t) /\ ~IsAlive
    /\ Breaker!Admit(t)
    /\ Goes(t, "dial")
    /\ UNCHANGED <<keeperVars, linkVars>>

Ended(k) == k \in Keeper => keeping[k] = "ended"

\* Mutant: no look at is_alive() of the thread that is there.
StartKeepaliveAlways ==
    \E k \in Keeper :
        /\ keeping[k] \in {"none", "ended"}
        /\ keeper' = k /\ keeping' = [keeping EXCEPT ![k] = "loop"]
        /\ stopEvent' = FALSE /\ forgotten' = forgotten \ {k}
        /\ UNCHANGED beatOn

\* _start_keepalive: a keepalive thread that still runs is kept, stop event and all.
StartKeepalive ==
    IF Ended(keeper)
    THEN \E k \in Keeper :
            /\ keeping[k] \in {"none", "ended"}
            /\ keeper' = k /\ keeping' = [keeping EXCEPT ![k] = "loop"]
            /\ stopEvent' = FALSE /\ forgotten' = forgotten \ {k}
            /\ UNCHANGED beatOn
    ELSE UNCHANGED keeperVars

DialSucceeds(t) ==
    /\ pc[t] = "dial" /\ Release(t)
    /\ \E g \in Transport \ dialled :
          /\ client' = g /\ alive' = alive \cup {g} /\ dialled' = dialled \cup {g}
    /\ connected' = TRUE
    /\ downs' = 0 /\ UNCHANGED quiet
    /\ Breaker!RecordSuccess(t)
    /\ StartKeepalive
    /\ Goes(t, "idle")

\* The history of the host, which no part of the executor keeps: both counters stop
\* at the limits the property compares them with.
DialFailed ==
    /\ downs' = (IF downs < FailureThreshold THEN downs + 1 ELSE downs)
    /\ quiet' = 0

\* Mutant: the early return for an unreachable port skips _handle_connect_failure.
DialFailsUnreported(t) ==
    /\ pc[t] = "dial" /\ Release(t)
    /\ DialFailed
    /\ Goes(t, "idle")
    /\ UNCHANGED <<breakerVars, keeperVars, connected, client, alive, dialled>>

\* _handle_connect_failure: an unreachable port leaves the old client in place, a
\* failed handshake leaves a new one that has no transport.
DialFails(t) ==
    /\ pc[t] = "dial" /\ Release(t)
    /\ client' \in {client, NoTransport}
    /\ connected' = FALSE
    /\ DialFailed
    /\ Breaker!RecordFailure(t)
    /\ Goes(t, "idle")
    /\ UNCHANGED <<keeperVars, alive, dialled>>

\* With the lock held, a connection that is not usable leads to self.connect(),
\* which waits for the very lock the thread holds.
ExecuteBegins(t) ==
    /\ pc[t] = "execute" /\ Acquire(t)
    /\ Goes(t, IF IsAlive THEN "command" ELSE "own_lock")
    /\ UNCHANGED <<breakerVars, keeperVars, linkVars>>

\* Mutant: the lock is not released when the command returns.
CommandKeepsLock(t) ==
    /\ pc[t] = "command"
    /\ Goes(t, "idle")
    /\ UNCHANGED <<breakerVars, keeperVars, linkVars, lock>>

CommandReturns(t) ==
    /\ pc[t] = "command" /\ Release(t)
    /\ Goes(t, "idle")
    /\ UNCHANGED <<breakerVars, keeperVars, linkVars>>

\* The command raised: after the retry delay execute calls self.connect(), again
\* with the lock held.  No caller asks for fewer than the three default attempts.
CommandRaises(t) ==
    /\ Unreliable
    /\ pc[t] = "command"
    /\ connected' = FALSE
    /\ Goes(t, "own_lock")
    /\ UNCHANGED <<breakerVars, keeperVars, client, alive, dialled, downs, quiet, lock>>

\* upload_file and download_file.
TransferBegins(t) ==
    /\ pc[t] = "transfer" /\ Acquire(t)
    /\ Goes(t, IF IsAlive THEN "copy" ELSE "own_lock")
    /\ UNCHANGED <<breakerVars, keeperVars, linkVars>>

\* Mutant: a transfer that fails marks the connection as lost.
TransferMarksLost(t) ==
    /\ pc[t] = "copy" /\ Release(t)
    /\ connected' \in {connected, FALSE}
    /\ Goes(t, "idle")
    /\ UNCHANGED <<breakerVars, keeperVars, client, alive, dialled, downs, quiet>>

\* Done or failed: an exception here does not mark the connection as lost.
TransferReturns(t) ==
    /\ pc[t] = "copy" /\ Release(t)
    /\ Goes(t, "idle")
    /\ UNCHANGED <<breakerVars, keeperVars, linkVars>>

-----------------------------------------------------------------------------
(* disconnect, and reconnect, which is disconnect followed by connect *)

Join(op) == IF op = "disconnect" THEN "join" ELSE "rejoin"

DisconnectBegins(t) ==
    /\ pc[t] \in {"disconnect", "reconnect"} /\ Acquire(t)
    /\ stopEvent' = (stopEvent \/ keeper # NoKeeper)
    /\ Goes(t, Join(pc[t]))
    /\ UNCHANGED <<breakerVars, keeper, keeping, beatOn, forgotten, linkVars>>

\* The keepalive thread ended, or the two seconds of the join are over; the client
\* is closed.
DisconnectEnds(t) ==
    /\ pc[t] \in {"join", "rejoin"} /\ Release(t)
    /\ \/ Ended(keeper) /\ UNCHANGED forgotten
       \/ /\ SlowBeat /\ keeper # NoKeeper /\ keeping[keeper] = "beat"
          /\ forgotten' = forgotten \cup {keeper}
    /\ keeper' = NoKeeper
    /\ alive' = alive \ {client} /\ client' = NoTransport /\ connected' = FALSE
    /\ Goes(t, IF pc[t] = "join" THEN "idle" ELSE "connect")
    /\ UNCHANGED <<breakerVars, keeping, beatOn, stopEvent, dialled, downs, quiet>>

-----------------------------------------------------------------------------
(* _keepalive_loop, without the lock *)

KeeperStops(k) ==
    /\ keeping[k] = "loop" /\ stopEvent
    /\ keeping' = [keeping EXCEPT ![k] = "ended"]
    /\ UNCHANGED <<breakerVars, linkVars, lock, pc, keeper, beatOn, stopEvent, forgotten>>

\* The transport is read from _client and its heartbeat sent; an inactive
\* transport is passed over.
KeeperBeats(k) ==
    /\ keeping[k] = "loop" /\ ~stopEvent
    /\ IF IsAlive
       THEN keeping' = [keeping EXCEPT ![k] = "beat"] /\ beatOn' = [beatOn EXCEPT ![k] = client]
       ELSE keeping' = [keeping EXCEPT ![k] = "wait"] /\ UNCHANGED beatOn
    /\ UNCHANGED <<breakerVars, linkVars, lock, pc, keeper, stopEvent, forgotten>>

BeatSent(k) ==
    /\ keeping[k] = "beat"
    /\ keeping' = [keeping EXCEPT ![k] = "wait"]
    /\ UNCHANGED <<breakerVars, linkVars, lock, pc, keeper, beatOn, stopEvent, forgotten>>

\* send_ignore raised on a transport that went away: whatever _client is now, it
\* is marked as lost, and the keepalive thread ends.
BeatRaises(k) ==
    /\ keeping[k] = "beat" /\ beatOn[k] \notin alive
    /\ keeping' = [keeping EXCEPT ![k] = "ended"]
    /\ connected' = FALSE
    /\ UNCHANGED <<breakerVars, client, alive, dialled, downs, quiet, lock, pc>>
    /\ UNCHANGED <<keeper, beatOn, stopEvent, forgotten>>

\* The interval is over or the stop event has been set.
KeeperWakes(k) ==
    /\ keeping[k] = "wait"
    /\ keeping' = [keeping EXCEPT ![k] = "loop"]
    /\ UNCHANGED <<breakerVars, linkVars, lock, pc, keeper, beatOn, stopEvent, forgotten>>

-----------------------------------------------------------------------------
\* The remote end or the network closes a transport.
Drop ==
    /\ Unreliable
    /\ \E g \in alive : alive' = alive \ {g}
    /\ UNCHANGED <<breakerVars, keeperVars, connected, client, dialled, downs, quiet, lock, pc>>

\* get_status, from the pool's health check, which does not hold _lock.
GetStatus ==
    /\ Breaker!Observe
    /\ UNCHANGED <<keeperVars, linkVars, lock, pc>>

Tick ==
    /\ Breaker!Tick
    /\ quiet' = (IF quiet < RecoveryTimeout THEN quiet + 1 ELSE quiet)
    /\ UNCHANGED <<keeperVars, connected, client, alive, dialled, downs, lock, pc>>

Returns(t) ==
    \/ ConnectReuses(t) \/ ConnectRefused(t) \/ ConnectDials(t)
    \/ DialSucceeds(t) \/ DialFails(t)
    \/ ExecuteBegins(t) \/ CommandReturns(t)
    \/ TransferBegins(t) \/ TransferReturns(t)
    \/ DisconnectBegins(t) \/ DisconnectEnds(t)

Keepalive(k) ==
    KeeperStops(k) \/ KeeperBeats(k) \/ BeatSent(k) \/ BeatRaises(k) \/ KeeperWakes(k)

Next ==
    \/ \E t \in Thread : Returns(t) \/ CommandRaises(t) \/ \E op \in Operation : Call(t, op)
    \/ \E k \in Keeper : Keepalive(k)
    \/ Drop \/ GetStatus \/ Tick

Spec == Init /\ [][Next]_vars

\* Threads that can go on do; a thread waiting for the lock gets it if it is free
\* again and again; keepalive threads are scheduled.
FairSpec ==
    /\ Spec
    /\ \A t \in Thread : SF_vars(Returns(t))
    /\ \A k \in Keeper : WF_vars(Keepalive(k))

-----------------------------------------------------------------------------
(* Properties *)

TypeOK ==
    /\ Breaker!TypeOK
    /\ lock \in Thread \cup {NoThread}
    /\ pc \in [Thread -> {"idle", "connect", "execute", "transfer", "disconnect", "reconnect",
                          "dial", "command", "copy", "own_lock", "join", "rejoin"}]
    /\ connected \in BOOLEAN
    /\ client \in Transport \cup {NoTransport}
    /\ alive \subseteq dialled /\ dialled \subseteq Transport
    /\ downs \in 0 .. FailureThreshold /\ quiet \in 0 .. RecoveryTimeout
    /\ keeper \in Keeper \cup {NoKeeper}
    /\ keeping \in [Keeper -> {"none", "loop", "beat", "wait", "ended"}]
    /\ keeper # NoKeeper => keeping[keeper] # "none"
    /\ beatOn \in [Keeper -> Transport \cup {NoTransport}]
    /\ stopEvent \in BOOLEAN
    /\ forgotten \subseteq Keeper

\* The breaker hears of every dial while it lasts: a caller it let through holds
\* the lock and is dialling, so reports never come late or get lost (connect).
ReportsAreTimely ==
    \A t \in Thread : call[t] = "out" <=> pc[t] = "dial" /\ lock = t

\* A keepalive thread that runs is the executor's own, or one whose heartbeat
\* outlasted the two seconds disconnect waits: no interleaving of connects,
\* disconnects and lost heartbeats starts two (_start_keepalive, disconnect).
OneKeeper ==
    \A k \in Keeper : keeping[k] \in {"loop", "beat", "wait"} => k = keeper \/ k \in forgotten

\* A host on which FailureThreshold dials in a row have failed is not dialled again
\* before RecoveryTimeout has passed since the last of them, although get_status moves
\* the breaker without the executor's lock and any thread may connect or reconnect at
\* any time (connect, CircuitBreaker docstring).
LeavesFailingHostAlone ==
    [][\A t \in Thread : pc[t] # "dial" /\ pc'[t] = "dial" =>
          downs < FailureThreshold \/ quiet >= RecoveryTimeout]_vars

\* A thread dials over a live connection only if a heartbeat sent on an earlier
\* transport failed and marked it as lost: no failed dial, command or transfer,
\* and no other thread's disconnect, wastes a connection that works.
RedialsOnlyAfterStaleBeat ==
    [][\A t \in Thread : pc[t] = "connect" /\ pc'[t] = "dial" /\ client \in alive =>
          \E k \in Keeper : /\ keeping[k] = "ended"
                            /\ beatOn[k] \notin alive
                            /\ beatOn[k] # client]_vars

\* README.md:821: lost connections are re-established by themselves.  No thread
\* waits for a lock it holds itself.
NeverWaitsForItself ==
    \A t \in Thread : ~(pc[t] = "own_lock" /\ lock = t)

\* Every call returns, the ones that wait for the lock behind dials, heartbeats and
\* disconnects included, unless some thread waits for the lock it holds itself.
CallsReturn ==
    \A t \in Thread : pc[t] # "idle" ~> pc[t] = "idle" \/ \E u \in Thread : pc[u] = "own_lock"
=============================================================================
