---------------------------- MODULE ConnectionPool ----------------------------
(***************************************************************************)
(* chaos/utils/remote.py: SSHConnectionPool, which the main thread, the    *)
(* case threads and the health-check thread share, and what its callers do *)
(* with the executors it hands out.                                        *)
(*                                                                         *)
(* get_connection looks under _pool_lock and dials without it; eviction,   *)
(* the health check and the close methods disconnect executors while they  *)
(* hold it.  An executor is reduced to whether it is up and who holds its  *)
(* lock: module SSHExecutor has the rest.                                  *)
(***************************************************************************)
EXTENDS Naturals, FiniteSets

CONSTANTS Thread, Sweeper, Nobody, \* callers, the health-check thread, no owner
          Key, NoKey,              \* user@host:port
          Executor, NoExecutor,    \* a bound on the executors in use at a time
          MaxConnections,          \* _max_connections
          Unreliable               \* connections drop and commands raise

ASSUME PoolAssumption ==
    /\ IsFiniteSet(Thread) /\ IsFiniteSet(Key)
    /\ Sweeper \notin Thread /\ Nobody \notin Thread \cup {Sweeper}
    /\ NoExecutor \notin Executor /\ NoKey \notin Key
    /\ MaxConnections \in Nat \ {0} /\ Unreliable \in BOOLEAN

VARIABLES pool,     \* _connections: what is under each key
          poolLock, \* owner of _pool_lock
          up,       \* executors whose is_alive() holds
          busy,     \* owner of each executor's _lock
          pc,       \* where each caller is
          want,     \* the key it asked for
          mine,     \* the executor it has in hand
          closing,  \* keys a sweep will still disconnect
          shut,     \* keys a sweep has disconnected and will delete
          orphaned, \* history: live executors the pool lost sight of
          late      \* history: an executor was made after its entry had gone

callVars == <<pc, want, mine>>
sweepVars == <<closing, shut>>
history == <<orphaned, late>>
poolVars == <<pool, poolLock, up, busy, callVars, sweepVars, history>>

PoolInit ==
    /\ pool = [k \in Key |-> NoExecutor] /\ poolLock = Nobody
    /\ up = {} /\ busy = [e \in Executor |-> Nobody]
    /\ pc = [t \in Thread |-> "idle"]
    /\ want = [t \in Thread |-> NoKey] /\ mine = [t \in Thread |-> NoExecutor]
    /\ closing = {} /\ shut = {}
    /\ orphaned = {} /\ late = FALSE

Occupied == {k \in Key : pool[k] # NoExecutor}

Pooled == {pool[k] : k \in Occupied}

\* Mutant: the comparison lets one connection too many through.
FullTooLate == Cardinality(Occupied) > MaxConnections

Full == Cardinality(Occupied) >= MaxConnections

Goes(t, place, e) ==
    /\ pc' = [pc EXCEPT ![t] = place]
    /\ mine' = [mine EXCEPT ![t] = e]
    /\ UNCHANGED want

Leaves(t) ==
    /\ pc' = [pc EXCEPT ![t] = "idle"]
    /\ mine' = [mine EXCEPT ![t] = NoExecutor]
    /\ want' = [want EXCEPT ![t] = NoKey]

Disconnects(e) == up' = up \ {e} /\ orphaned' = orphaned \ {e}

Connects(e) ==
    /\ up' = up \cup {e}
    /\ orphaned' = orphaned \cup ({e} \ Pooled)

\* Deleting an entry does not disconnect what is under it.
Deletes(k) ==
    /\ pool' = [pool EXCEPT ![k] = NoExecutor]
    /\ orphaned' = orphaned \cup ({pool[k]} \cap up)

-----------------------------------------------------------------------------
(* get_connection *)

Ask(t, k) ==
    /\ pc[t] = "idle"
    /\ pc' = [pc EXCEPT ![t] = "get"] /\ want' = [want EXCEPT ![t] = k]
    /\ UNCHANGED <<pool, poolLock, up, busy, mine, sweepVars, history>>

\* Mutant: the key leaves out the host.
GetReusesAny(t) ==
    /\ pc[t] = "get" /\ poolLock = Nobody
    /\ \E k \in Occupied : pool[k] \in up /\ Goes(t, "using", pool[k])
    /\ UNCHANGED <<pool, poolLock, up, busy, sweepVars, history>>

GetReuses(t) ==
    /\ pc[t] = "get" /\ poolLock = Nobody
    /\ pool[want[t]] \in up
    /\ Goes(t, "using", pool[want[t]])
    /\ UNCHANGED <<pool, poolLock, up, busy, sweepVars, history>>

GetFindsDead(t) ==
    /\ pc[t] = "get" /\ poolLock = Nobody
    /\ want[t] \in Occupied /\ pool[want[t]] \notin up
    /\ Goes(t, "close", pool[want[t]])
    /\ UNCHANGED <<pool, poolLock, up, busy, sweepVars, history>>

GetCreates(t) ==
    /\ pc[t] = "get" /\ poolLock = Nobody
    /\ want[t] \notin Occupied /\ ~Full
    /\ Goes(t, "dial", NoExecutor)
    /\ UNCHANGED <<pool, poolLock, up, busy, sweepVars, history>>

\* _cleanup_oldest.  Any executor may be the one whose last command ended first,
\* the ones in the middle of a command included.
GetEvicts(t) ==
    /\ pc[t] = "get" /\ poolLock = Nobody
    /\ want[t] \notin Occupied /\ Full
    /\ poolLock' = t
    /\ \E e \in Pooled : Goes(t, "evict", e)
    /\ UNCHANGED <<pool, up, busy, sweepVars, history>>

\* Mutant: the victim is closed without waiting for its lock.
EvictCuts(t) ==
    /\ pc[t] = "evict"
    /\ Disconnects(mine[t])
    /\ Goes(t, "evicted", mine[t])
    /\ UNCHANGED <<pool, poolLock, busy, sweepVars, late>>

EvictDisconnects(t) ==
    /\ pc[t] = "evict" /\ busy[mine[t]] = Nobody
    /\ Disconnects(mine[t])
    /\ Goes(t, "evicted", mine[t])
    /\ UNCHANGED <<pool, poolLock, busy, sweepVars, late>>

EvictDeletes(t) ==
    /\ pc[t] = "evicted"
    /\ \E k \in Key : pool[k] = mine[t] /\ Deletes(k)
    /\ poolLock' = Nobody
    /\ Goes(t, "dial", NoExecutor)
    /\ UNCHANGED <<up, busy, sweepVars, late>>

-----------------------------------------------------------------------------
(* executor.reconnect() outside the pool lock: disconnect, then connect *)

ReconnectCloses(t) ==
    /\ pc[t] = "close" /\ busy[mine[t]] = Nobody
    /\ Disconnects(mine[t])
    /\ Goes(t, "connect", mine[t])
    /\ UNCHANGED <<pool, poolLock, busy, sweepVars, late>>

\* Another caller's reconnect, or a holder's connect, came first.
ReconnectFindsLive(t) ==
    /\ pc[t] = "connect" /\ busy[mine[t]] = Nobody /\ mine[t] \in up
    /\ Goes(t, "using", mine[t])
    /\ UNCHANGED <<pool, poolLock, up, busy, sweepVars, history>>

ReconnectDials(t) ==
    /\ pc[t] = "connect" /\ busy[mine[t]] = Nobody /\ mine[t] \notin up
    /\ busy' = [busy EXCEPT ![mine[t]] = t]
    /\ Goes(t, "redial", mine[t])
    /\ UNCHANGED <<pool, poolLock, up, sweepVars, history>>

RedialSucceeds(t) ==
    /\ pc[t] = "redial"
    /\ busy' = [busy EXCEPT ![mine[t]] = Nobody]
    /\ Connects(mine[t])
    /\ Goes(t, "using", mine[t])
    /\ UNCHANGED <<pool, poolLock, sweepVars, late>>

\* Mutant: a failed dial leaves the executor locked.
RedialKeepsLock(t) ==
    /\ pc[t] = "redial"
    /\ Goes(t, "forget", mine[t])
    /\ UNCHANGED <<pool, poolLock, up, busy, sweepVars, history>>

RedialFails(t) ==
    /\ pc[t] = "redial"
    /\ busy' = [busy EXCEPT ![mine[t]] = Nobody]
    /\ Goes(t, "forget", mine[t])
    /\ UNCHANGED <<pool, poolLock, up, sweepVars, history>>

\* The entry goes, whichever executor is under it by now; a caller that finds none
\* goes on to create one, without a look at the limit.
Forget(t) ==
    /\ pc[t] = "forget" /\ poolLock = Nobody
    /\ Deletes(want[t])
    /\ late' = (late \/ want[t] \notin Occupied)
    /\ Goes(t, "dial", NoExecutor)
    /\ UNCHANGED <<poolLock, up, busy, sweepVars>>

-----------------------------------------------------------------------------
(* _create_new_connection *)

\* Executors that are no more; a new one takes the place of one of them.
Free == {e \in Executor \ (Pooled \cup up) : \A t \in Thread : mine[t] # e}

DialSucceeds(t) ==
    /\ pc[t] = "dial"
    /\ \E e \in Free : up' = up \cup {e} /\ Goes(t, "insert", e)
    /\ UNCHANGED <<pool, poolLock, busy, sweepVars, history>>

\* The caller gets an exception.
DialFails(t) ==
    /\ pc[t] = "dial"
    /\ Leaves(t)
    /\ UNCHANGED <<pool, poolLock, up, busy, sweepVars, history>>

InsertNew(t) ==
    /\ pc[t] = "insert" /\ poolLock = Nobody
    /\ want[t] \notin Occupied
    /\ pool' = [pool EXCEPT ![want[t]] = mine[t]]
    /\ Goes(t, "using", mine[t])
    /\ UNCHANGED <<poolLock, up, busy, sweepVars, history>>

\* Mutant: the connection that came second is not closed.
InsertYieldsLive(t) ==
    /\ pc[t] = "insert" /\ poolLock = Nobody
    /\ want[t] \in Occupied
    /\ Goes(t, "using", pool[want[t]])
    /\ UNCHANGED <<pool, poolLock, up, busy, sweepVars, history>>

\* Another caller was first: its executor is returned, alive or not.
InsertYields(t) ==
    /\ pc[t] = "insert" /\ poolLock = Nobody
    /\ want[t] \in Occupied
    /\ Disconnects(mine[t])
    /\ Goes(t, "using", pool[want[t]])
    /\ UNCHANGED <<pool, poolLock, busy, sweepVars, late>>

-----------------------------------------------------------------------------
(* The callers, with an executor in hand *)

\* On an executor that is not up, execute waits for the lock it has just taken
\* (SSHExecutor, ExecuteBegins).
Command(t) ==
    /\ pc[t] = "using" /\ busy[mine[t]] = Nobody
    /\ busy' = [busy EXCEPT ![mine[t]] = t]
    /\ Goes(t, IF mine[t] \in up THEN "command" ELSE "own_lock", mine[t])
    /\ UNCHANGED <<pool, poolLock, up, sweepVars, history>>

CommandEnds(t) ==
    /\ pc[t] = "command"
    /\ busy' = [busy EXCEPT ![mine[t]] = Nobody]
    /\ Goes(t, "using", mine[t])
    /\ UNCHANGED <<pool, poolLock, up, sweepVars, history>>

CommandRaises(t) ==
    /\ Unreliable
    /\ pc[t] = "command"
    /\ Disconnects(mine[t])
    /\ Goes(t, "own_lock", mine[t])
    /\ UNCHANGED <<pool, poolLock, busy, sweepVars, late>>

\* if not executor.is_alive() and not executor.connect(), in the injectors, the
\* handlers and the log collector.
HolderDials(t) ==
    /\ pc[t] = "using" /\ busy[mine[t]] = Nobody /\ mine[t] \notin up
    /\ busy' = [busy EXCEPT ![mine[t]] = t]
    /\ Goes(t, "reopen", mine[t])
    /\ UNCHANGED <<pool, poolLock, up, sweepVars, history>>

HolderConnected(t) ==
    /\ pc[t] = "reopen"
    /\ busy' = [busy EXCEPT ![mine[t]] = Nobody]
    /\ Connects(mine[t])
    /\ Goes(t, "using", mine[t])
    /\ UNCHANGED <<pool, poolLock, sweepVars, late>>

HolderGivesUp(t) ==
    /\ pc[t] = "reopen"
    /\ busy' = [busy EXCEPT ![mine[t]] = Nobody]
    /\ Leaves(t)
    /\ UNCHANGED <<pool, poolLock, up, sweepVars, history>>

\* The end of auto_clear, of a case and of a workflow.
HolderDisconnects(t) ==
    /\ pc[t] = "using" /\ busy[mine[t]] = Nobody
    /\ Disconnects(mine[t])
    /\ Leaves(t)
    /\ UNCHANGED <<pool, poolLock, busy, sweepVars, late>>

HolderLeaves(t) ==
    /\ pc[t] = "using"
    /\ Leaves(t)
    /\ UNCHANGED <<pool, poolLock, up, busy, sweepVars, history>>

-----------------------------------------------------------------------------
(* health_check, cleanup_idle, close_connection and close_all: they choose keys *)
(* under the pool lock and keep it until the last one is disconnected.          *)

\* The health check takes dead executors, those with more than three errors.
Dead == {k \in Occupied : pool[k] \notin up}

SweepBegins(keys) ==
    /\ poolLock = Nobody
    /\ keys # {} /\ keys \subseteq Occupied
    /\ poolLock' = Sweeper /\ closing' = keys
    /\ UNCHANGED <<pool, up, busy, callVars, shut, history>>

HealthCheck == \E keys \in SUBSET Dead : SweepBegins(keys)

\* The idle ones, a given one, or all.
CloseSome == \E keys \in SUBSET Occupied : SweepBegins(keys)

SweepDisconnects(k) ==
    /\ k \in closing /\ busy[pool[k]] = Nobody
    /\ Disconnects(pool[k])
    /\ closing' = closing \ {k} /\ shut' = shut \cup {k}
    /\ UNCHANGED <<pool, poolLock, busy, callVars, late>>

\* At once, or after the last disconnect in close_all.
SweepDeletes(k) ==
    /\ k \in shut
    /\ Deletes(k)
    /\ shut' = shut \ {k}
    /\ poolLock' = IF closing \cup shut = {k} THEN Nobody ELSE Sweeper
    /\ UNCHANGED <<up, busy, callVars, closing, late>>

\* The remote end or the network closes a connection.
Drop ==
    /\ Unreliable
    /\ \E e \in up : Disconnects(e)
    /\ UNCHANGED <<pool, poolLock, busy, callVars, sweepVars, late>>

-----------------------------------------------------------------------------
Get(t) ==
    \/ GetReuses(t) \/ GetFindsDead(t) \/ GetCreates(t) \/ GetEvicts(t)
    \/ EvictDisconnects(t) \/ EvictDeletes(t)
    \/ ReconnectCloses(t) \/ ReconnectFindsLive(t) \/ ReconnectDials(t)
    \/ RedialSucceeds(t) \/ RedialFails(t) \/ Forget(t)
    \/ DialSucceeds(t) \/ DialFails(t) \/ InsertNew(t) \/ InsertYields(t)

Answers(t) == CommandEnds(t) \/ HolderConnected(t) \/ HolderGivesUp(t)

Holder(t) ==
    \/ Answers(t) \/ Command(t) \/ CommandRaises(t) \/ HolderDials(t)
    \/ HolderDisconnects(t) \/ HolderLeaves(t)

Sweep == \E k \in Key : SweepDisconnects(k) \/ SweepDeletes(k)

PoolNext ==
    \/ \E t \in Thread : Get(t) \/ Holder(t) \/ \E k \in Key : Ask(t, k)
    \/ HealthCheck \/ CloseSome \/ Sweep \/ Drop

PoolSpec == PoolInit /\ [][PoolNext]_poolVars

\* Dials and commands end; a thread that waits for a lock gets it if it is free
\* again and again; nothing makes a caller ask, use or give back.
PoolFairSpec ==
    /\ PoolSpec
    /\ \A t \in Thread : SF_poolVars(Get(t) \/ Answers(t))
    /\ SF_poolVars(Sweep)

-----------------------------------------------------------------------------
(* Properties *)

Evicting == {"evict", "evicted"}
Creating == {"dial", "insert"}
Getting == {"get", "close", "connect", "redial", "forget"} \cup Evicting \cup Creating

Makers == {t \in Thread : pc[t] \in Creating}

PoolTypeOK ==
    /\ pool \in [Key -> Executor \cup {NoExecutor}]
    /\ poolLock \in Thread \cup {Sweeper, Nobody}
    /\ up \subseteq Executor /\ orphaned \subseteq up
    /\ busy \in [Executor -> Thread \cup {Nobody}]
    /\ pc \in [Thread -> Getting \cup {"idle", "using", "command", "own_lock", "reopen"}]
    /\ want \in [Thread -> Key \cup {NoKey}]
    /\ mine \in [Thread -> Executor \cup {NoExecutor}]
    /\ closing \subseteq Occupied /\ shut \subseteq Occupied /\ closing \cap shut = {}
    /\ late \in BOOLEAN
    /\ \A t \in Thread :
          /\ want[t] = NoKey <=> pc[t] = "idle"
          /\ mine[t] = NoExecutor <=> pc[t] \in {"idle", "get", "dial"}
          /\ poolLock = t <=> pc[t] \in Evicting
    /\ poolLock = Sweeper <=> closing \cup shut # {}

\* A caller never works on another host's connection: an executor is under one key,
\* whoever has it asked for that key, and so did everyone else who has it, however
\* reconnects, evictions and insertions interleave (get_connection).
RightHost ==
    /\ \A k, l \in Occupied : pool[k] = pool[l] => k = l
    /\ \A t \in Thread : mine[t] # NoExecutor /\ pc[t] \notin Evicting =>
          /\ \A k \in Occupied : pool[k] = mine[t] => k = want[t]
          /\ \A u \in Thread : mine[u] = mine[t] /\ pc[u] \notin Evicting => want[u] = want[t]

\* The limit is looked at under one acquisition of the lock and the new entry made
\* under another: entries, and callers that are about to make one, exceed the limit
\* by at most one for each other caller, unless a caller whose reconnect failed makes
\* one after its entry had gone (get_connection, lines 813 and 827).
BoundedSize ==
    ~late => Cardinality(Occupied) + Cardinality(Makers) < MaxConnections + Cardinality(Thread)

\* A live connection is in the pool, or about to be: callers that create one for the
\* same key at the same time leave one.  The pool loses sight of one only where it
\* forgets an entry, or where a caller reconnects what the pool has dropped.
NoLeak ==
    \A e \in up \ orphaned : e \in Pooled \/ \E t \in Thread : pc[t] = "insert" /\ mine[t] = e

\* Evictions, sweeps, reconnects and auto_clear take connections away from their
\* users, but never in the middle of a command: only the network does.
CommandsAreNotCut ==
    [][pc' # pc \/ closing' # closing =>
          \A t \in Thread :
              pc[t] = "command" /\ pc'[t] = "command" => mine[t] \notin up \ up']_poolVars

\* get_connection returns or raises, although evictions and sweeps hold the pool
\* lock while they wait for an executor, unless some thread waits for its own lock.
GetReturns ==
    \A t \in Thread : pc[t] \in Getting ~>
        pc[t] \in {"idle", "using"} \/ \E u \in Thread : pc[u] = "own_lock"
=============================================================================
