----------------------------- MODULE RemoteProofs -----------------------------
(***************************************************************************)
(* Proofs about two classes of chaos/utils/remote.py.  CircuitBreaker, for *)
(* every set of callers, threshold, recovery timeout and number of         *)
(* half-open probes; ConnectionPool, for every set of callers and keys and *)
(* every limit on the connections.                                         *)
(***************************************************************************)
EXTENDS CircuitBreaker, ConnectionPool, FiniteSetTheorems, TLAPS

-----------------------------------------------------------------------------
(* The circuit breaker *)

\* A breaker that is half open got there by waiting the timeout out.
HalfOpenWaited == state = "half_open" => age >= RecoveryTimeout

BInv == TypeOK /\ CountsConsecutive /\ HalfOpenWaited /\ ProbeIsOut

\* The breaker starts out closed, with nothing counted.
LEMMA BreakerInit == Init => BInv
  BY BreakerAssumption DEF Init, BInv, TypeOK, CircuitState, CountsConsecutive,
     HalfOpenWaited, ProbeIsOut

\* Every method of the breaker, and time, preserve the invariant.
LEMMA BreakerStep == ASSUME BInv, [Next]_vars PROVE BInv'
<1> USE BreakerAssumption DEF BInv, TypeOK, CircuitState, CountsConsecutive,
        HalfOpenWaited, ProbeIsOut
<1>1. CASE Observe
  BY <1>1 DEF Observe, Observed, ObservedProbes, Expired
<1>2. ASSUME NEW c \in Caller, Admit(c) PROVE BInv'
  <2>1. call' \in [Caller -> {"idle", "out"}] /\ call'[c] = "out"
    BY <1>2 DEF Admit
  <2>2. probes' \in 0 .. HalfOpenMaxCalls
    BY <1>2 DEF Admit, Admits, Observed, ObservedProbes, Expired
  <2>3. QED
    BY <1>2, <2>1, <2>2 DEF Admit, Observed, Expired
<1>3. ASSUME NEW c \in Caller, Refuse(c) PROVE BInv'
  BY <1>1, <1>3 DEF Refuse
<1>4. ASSUME NEW c \in Caller, RecordSuccess(c) PROVE BInv'
  BY <1>4 DEF RecordSuccess
<1>5. ASSUME NEW c \in Caller, RecordFailure(c) PROVE BInv'
  <2>1. /\ failures' \in 0 .. FailureThreshold
        /\ streak' \in 0 .. FailureThreshold
        /\ failures = streak => failures' = streak'
    BY <1>5 DEF RecordFailure, Saturated
  <2>2. /\ call' \in [Caller -> {"idle", "out"}]
        /\ state' \in CircuitState /\ state' # "half_open"
        /\ age' \in 0 .. RecoveryTimeout /\ probes' \in 0 .. HalfOpenMaxCalls
        /\ state' = "closed" => state = "closed" /\ ~(failures' >= FailureThreshold)
    BY <1>5 DEF RecordFailure
  <2>3. QED
    BY <2>1, <2>2
<1>6. CASE Reset
  BY <1>6 DEF Reset
<1>7. CASE Tick
  BY <1>7 DEF Tick
<1>8. CASE UNCHANGED vars
  BY <1>8 DEF vars
<1>9. QED
  BY <1>1, <1>2, <1>3, <1>4, <1>5, <1>6, <1>7, <1>8 DEF Next

\* The invariant holds in every state of every behaviour.
LEMMA BreakerInvariant == Spec => []BInv
  BY BreakerInit, BreakerStep, PTL DEF Spec

\* Who is let through is let through by a breaker that is closed, or that has
\* waited.
LEMMA AdmittedRightly ==
    ASSUME BInv, [Next]_vars, NEW c \in Caller, call[c] = "idle", call'[c] = "out"
    PROVE  streak < FailureThreshold \/ age >= RecoveryTimeout
<1>1. Admit(c)
  BY DEF Next, vars, BInv, TypeOK, Admit, Refuse, Observe, RecordSuccess, RecordFailure,
         Reset, Tick
<1>2. QED
  BY <1>1 DEF Admit, Admits, Observed, Expired, BInv, CountsConsecutive, HalfOpenWaited

\* Every variable of the breaker keeps its type.
THEOREM BreakerTypes == Spec => []TypeOK
<1>1. BInv => TypeOK
  BY DEF BInv
<1>2. QED
  BY <1>1, BreakerInvariant, PTL

\* The half-open state cannot get stuck: a probe that is counted is still out.
THEOREM ProbesAreOut == Spec => []ProbeIsOut
<1>1. BInv => ProbeIsOut
  BY DEF BInv
<1>2. QED
  BY <1>1, BreakerInvariant, PTL

\* The failure count of a closed breaker is the number of consecutive failures.
THEOREM ConsecutiveOnly == Spec => []CountsConsecutive
<1>1. BInv => CountsConsecutive
  BY DEF BInv
<1>2. QED
  BY <1>1, BreakerInvariant, PTL

\* The breaker shields a failing service (CircuitBreaker, can_execute), for every
\* number of callers and however late they report.
THEOREM Shields == Spec => ShieldsFailingService
<1>1. BInv /\ [Next]_vars =>
        [\A c \in Caller : call[c] = "idle" /\ call'[c] = "out" =>
            streak < FailureThreshold \/ age >= RecoveryTimeout]_vars
  BY AdmittedRightly
<1>2. QED
  BY <1>1, BreakerInvariant, PTL DEF Spec, ShieldsFailingService

-----------------------------------------------------------------------------
(* The connection pool *)

\* A connection that has just been made is in nobody else's hands.
NewIsUnshared ==
    \A t \in Thread : pc[t] = "insert" =>
        mine[t] \notin Pooled /\ \A u \in Thread : mine[u] = mine[t] => u = t

\* Whoever runs a command or dials owns the executor's lock.
HoldsLock ==
    \A t \in Thread : pc[t] \in {"command", "own_lock", "redial", "reopen"} => busy[mine[t]] = t

PInv == PoolTypeOK /\ RightHost /\ NewIsUnshared /\ HoldsLock /\ NoLeak

-----------------------------------------------------------------------------
(* The invariant *)

\* The pool starts empty, with every caller outside.
LEMMA PoolInitially == PoolInit => PInv
  BY PoolAssumption DEF PoolInit, PInv, PoolTypeOK, RightHost, NewIsUnshared, HoldsLock, NoLeak,
     Occupied, Pooled, Getting, Evicting, Creating

\* Every step of get_connection keeps it.
LEMMA GetStep == ASSUME PInv, NEW t \in Thread, Get(t) PROVE PInv'
<1> USE PoolAssumption
    DEF PInv, PoolTypeOK, RightHost, NewIsUnshared, HoldsLock, NoLeak, Occupied, Pooled,
        Getting, Evicting, Creating, Goes, Leaves, Disconnects, Connects, Deletes,
        callVars, sweepVars, history
<1>1. CASE GetReuses(t)
  BY <1>1 DEF GetReuses
<1>2. CASE GetFindsDead(t)
  BY <1>2 DEF GetFindsDead
<1>3. CASE GetCreates(t)
  BY <1>3 DEF GetCreates
<1>4. CASE GetEvicts(t)
  BY <1>4 DEF GetEvicts
<1>5. CASE EvictDisconnects(t)
  BY <1>5 DEF EvictDisconnects
<1>6. CASE EvictDeletes(t)
  BY <1>6 DEF EvictDeletes
<1>7. CASE ReconnectCloses(t)
  BY <1>7 DEF ReconnectCloses
<1>8. CASE ReconnectFindsLive(t)
  BY <1>8 DEF ReconnectFindsLive
<1>9. CASE ReconnectDials(t)
  BY <1>9 DEF ReconnectDials
<1>10. CASE RedialSucceeds(t)
  BY <1>10 DEF RedialSucceeds
<1>11. CASE RedialFails(t)
  BY <1>11 DEF RedialFails
<1>12. CASE Forget(t)
  BY <1>12 DEF Forget
<1>13. CASE DialSucceeds(t)
  BY <1>13 DEF DialSucceeds, Free
<1>14. CASE DialFails(t)
  BY <1>14 DEF DialFails
<1>15. CASE InsertNew(t)
  BY <1>15 DEF InsertNew
<1>16. CASE InsertYields(t)
  BY <1>16 DEF InsertYields
<1>17. QED
  BY <1>1, <1>2, <1>3, <1>4, <1>5, <1>6, <1>7, <1>8, <1>9, <1>10, <1>11, <1>12,
     <1>13, <1>14, <1>15, <1>16 DEF Get

\* So does everything a caller does with the executor it has in hand.
LEMMA HolderStep == ASSUME PInv, NEW t \in Thread, Holder(t) PROVE PInv'
<1> USE PoolAssumption
    DEF PInv, PoolTypeOK, RightHost, NewIsUnshared, HoldsLock, NoLeak, Occupied, Pooled,
        Getting, Evicting, Creating, Goes, Leaves, Disconnects, Connects, Deletes,
        callVars, sweepVars, history
<1>1. CASE CommandEnds(t)
  BY <1>1 DEF CommandEnds
<1>2. CASE HolderConnected(t)
  BY <1>2 DEF HolderConnected
<1>3. CASE HolderGivesUp(t)
  BY <1>3 DEF HolderGivesUp
<1>4. CASE Command(t)
  BY <1>4 DEF Command
<1>5. CASE CommandRaises(t)
  BY <1>5 DEF CommandRaises
<1>6. CASE HolderDials(t)
  BY <1>6 DEF HolderDials
<1>7. CASE HolderDisconnects(t)
  BY <1>7 DEF HolderDisconnects
<1>8. CASE HolderLeaves(t)
  BY <1>8 DEF HolderLeaves
<1>9. QED
  BY <1>1, <1>2, <1>3, <1>4, <1>5, <1>6, <1>7, <1>8 DEF Holder, Answers

\* So do the health check, the close methods, the network and new callers.
LEMMA OtherStep ==
    ASSUME PInv,
           \/ \E t \in Thread, k \in Key : Ask(t, k)
           \/ HealthCheck \/ CloseSome \/ Sweep \/ Drop \/ UNCHANGED poolVars
    PROVE  PInv'
<1> USE PoolAssumption
    DEF PInv, PoolTypeOK, RightHost, NewIsUnshared, HoldsLock, NoLeak, Occupied, Pooled,
        Getting, Evicting, Creating, Goes, Leaves, Disconnects, Connects, Deletes,
        callVars, sweepVars, history
<1>1. ASSUME NEW t \in Thread, NEW k \in Key, Ask(t, k) PROVE PInv'
  BY <1>1 DEF Ask
<1>2. CASE HealthCheck
  BY <1>2 DEF HealthCheck, SweepBegins, Dead
<1>3. CASE CloseSome
  BY <1>3 DEF CloseSome, SweepBegins
<1>4. ASSUME NEW k \in Key, SweepDisconnects(k) PROVE PInv'
  BY <1>4 DEF SweepDisconnects
<1>5. ASSUME NEW k \in Key, SweepDeletes(k) PROVE PInv'
  BY <1>5 DEF SweepDeletes
<1>6. CASE Drop
  BY <1>6 DEF Drop
<1>7. CASE UNCHANGED poolVars
  BY <1>7 DEF poolVars
<1>8. QED
  BY <1>1, <1>2, <1>3, <1>4, <1>5, <1>6, <1>7 DEF Sweep

\* The invariant holds in every state of every behaviour.
LEMMA PoolInvariant == PoolSpec => []PInv
<1>1. PInv /\ [PoolNext]_poolVars => PInv'
  BY GetStep, HolderStep, OtherStep DEF PoolNext
<1>2. QED
  BY PoolInitially, <1>1, PTL DEF PoolSpec

-----------------------------------------------------------------------------
(* The theorems *)

\* Every variable of the pool keeps its type, and the pool lock is held by the
\* caller that evicts or by the sweep.
THEOREM PoolTypes == PoolSpec => []PoolTypeOK
<1>1. PInv => PoolTypeOK
  BY DEF PInv
<1>2. QED
  BY <1>1, PoolInvariant, PTL

\* A caller never works on another host's connection (get_connection).
THEOREM NeverAnotherHost == PoolSpec => []RightHost
<1>1. PInv => RightHost
  BY DEF PInv
<1>2. QED
  BY <1>1, PoolInvariant, PTL

\* A live connection is in the pool or about to be, unless the pool forgot its
\* entry or a caller reconnected what the pool had dropped.
THEOREM NothingLeaks == PoolSpec => []NoLeak
<1>1. PInv => NoLeak
  BY DEF PInv
<1>2. QED
  BY <1>1, PoolInvariant, PTL

\* Which executor a step of the pool or of a caller takes down: one whose lock is
\* free, one's own, or a new one.
LEMMA WhatGoesDown ==
    ASSUME PInv, [PoolNext]_poolVars, pc' # pc \/ closing' # closing,
           NEW u \in Thread, pc[u] = "command", pc'[u] = "command"
    PROVE  mine[u] \notin up \ up'
<1> USE DEF PInv, PoolTypeOK, NewIsUnshared, HoldsLock, Pooled, Getting, Evicting, Creating,
        Goes, Leaves,
        Disconnects, Connects, callVars, sweepVars, history
<1>1. ASSUME NEW t \in Thread, Get(t) PROVE mine[u] \notin up \ up'
  <2>1. CASE InsertYields(t)
    BY <2>1 DEF InsertYields
  <2>2. CASE EvictDisconnects(t) \/ ReconnectCloses(t)
    BY <2>2, PoolAssumption DEF EvictDisconnects, ReconnectCloses
  <2>3. QED
    BY <1>1, <2>1, <2>2 DEF Get, GetReuses, GetFindsDead, GetCreates, GetEvicts, EvictDeletes,
       ReconnectFindsLive, ReconnectDials, RedialSucceeds, RedialFails, Forget,
       DialSucceeds, DialFails, InsertNew
<1>2. ASSUME NEW t \in Thread, Holder(t) PROVE mine[u] \notin up \ up'
  BY <1>2, PoolAssumption DEF Holder, Answers, CommandEnds, HolderConnected, HolderGivesUp,
     Command, CommandRaises, HolderDials, HolderDisconnects, HolderLeaves
<1>3. ASSUME NEW t \in Thread, NEW k \in Key, Ask(t, k) PROVE mine[u] \notin up \ up'
  BY <1>3 DEF Ask
<1>4. CASE HealthCheck \/ CloseSome
  BY <1>4 DEF HealthCheck, CloseSome, SweepBegins
<1>5. CASE Sweep
  BY <1>5, PoolAssumption DEF Sweep, SweepDisconnects, SweepDeletes
<1>6. CASE Drop \/ UNCHANGED poolVars
  BY <1>6 DEF Drop, poolVars
<1>7. QED
  BY <1>1, <1>2, <1>3, <1>4, <1>5, <1>6 DEF PoolNext

\* Nobody loses the connection in the middle of a command but to the network
\* (_cleanup_oldest, health_check, reconnect, auto_clear).
THEOREM NoCommandIsCut == PoolSpec => CommandsAreNotCut
<1>1. PInv /\ [PoolNext]_poolVars =>
        [pc' # pc \/ closing' # closing =>
          \A t \in Thread :
              pc[t] = "command" /\ pc'[t] = "command" => mine[t] \notin up \ up']_poolVars
  BY WhatGoesDown
<1>2. QED
  BY <1>1, PoolInvariant, PTL DEF PoolSpec, CommandsAreNotCut

-----------------------------------------------------------------------------
(* The size of the pool *)

\* Entries and makers can be counted, and there are no more makers than callers.
LEMMA Counts ==
    ASSUME PoolTypeOK
    PROVE  /\ IsFiniteSet(Occupied) /\ IsFiniteSet(Makers)
           /\ Cardinality(Occupied) \in Nat /\ Cardinality(Makers) \in Nat
           /\ Cardinality(Thread) \in Nat /\ Cardinality(Makers) <= Cardinality(Thread)
<1>1. Occupied \subseteq Key /\ Makers \subseteq Thread
  BY DEF Occupied, Makers
<1>2. QED
  BY <1>1, PoolAssumption, FS_Subset, FS_CardinalityType

\* Steps that add neither an entry nor a maker.
LEMMA NoMore ==
    ASSUME PoolTypeOK, PoolTypeOK', BoundedSize,
           Occupied' \subseteq Occupied, Makers' \subseteq Makers,
           late' = late
    PROVE  BoundedSize'
<1>1. /\ Cardinality(Occupied') <= Cardinality(Occupied)
      /\ Cardinality(Makers') <= Cardinality(Makers)
  BY Counts, FS_Subset
<1>2. /\ Cardinality(Occupied') \in Nat /\ Cardinality(Makers') \in Nat
      /\ Cardinality(Thread) \in Nat
      /\ Cardinality(Occupied) \in Nat /\ Cardinality(Makers) \in Nat
  BY Counts, FS_Subset, FS_CardinalityType
<1>3. QED
  BY <1>1, <1>2, PoolAssumption DEF BoundedSize

\* A caller trades an entry for the right to make one.
LEMMA Trade ==
    ASSUME PoolTypeOK, PoolTypeOK', BoundedSize, NEW k \in Occupied, NEW t \in Thread,
           Occupied' = Occupied \ {k}, Makers' = Makers \cup {t}, late' = late
    PROVE  BoundedSize'
<1>1. Cardinality(Occupied') = Cardinality(Occupied) - 1
  BY Counts, FS_RemoveElement
<1>2. Cardinality(Makers') = IF t \in Makers THEN Cardinality(Makers) ELSE Cardinality(Makers) + 1
  BY Counts, FS_AddElement
<1>3. QED
  BY <1>1, <1>2, Counts, PoolAssumption DEF BoundedSize

\* A caller makes its entry.
LEMMA Entry ==
    ASSUME PoolTypeOK, BoundedSize, NEW k \in Key, NEW t \in Makers,
           Occupied' = Occupied \cup {k}, Makers' = Makers \ {t}, late' = late
    PROVE  BoundedSize'
<1>1. Cardinality(Occupied') = IF k \in Occupied THEN Cardinality(Occupied)
                                                 ELSE Cardinality(Occupied) + 1
  BY Counts, FS_AddElement
<1>2. Cardinality(Makers') = Cardinality(Makers) - 1
  BY Counts, FS_RemoveElement
<1>3. QED
  BY <1>1, <1>2, Counts, PoolAssumption DEF BoundedSize

\* A step of get_connection keeps the bound.
LEMMA GetSize ==
    ASSUME PInv, PInv', BoundedSize, NEW t \in Thread, Get(t) PROVE BoundedSize'
<1> USE DEF Goes, Leaves, Deletes, Creating, history
<1>0. /\ PoolTypeOK /\ PoolTypeOK'
      /\ pc \in [Thread -> Getting \cup {"idle", "using", "command", "own_lock", "reopen"}]
      /\ pool \in [Key -> Executor \cup {NoExecutor}]
      /\ want[t] \in Key \/ pc[t] = "idle"
  BY DEF PInv, PoolTypeOK
<1>1. CASE GetCreates(t)
  <2>1. Occupied' = Occupied /\ late' = late
    BY <1>1 DEF GetCreates, Occupied
  <2>2. Cardinality(Occupied) < MaxConnections
    BY <1>0, <1>1, Counts, PoolAssumption DEF GetCreates, Full
  <2>3. Makers' \subseteq Thread
    BY DEF Makers
  <2>4. /\ Cardinality(Makers') <= Cardinality(Thread) /\ Cardinality(Makers') \in Nat
        /\ Cardinality(Thread) \in Nat /\ Cardinality(Occupied) \in Nat
    BY <1>0, <2>3, Counts, PoolAssumption, FS_Subset, FS_CardinalityType
  <2>5. QED
    BY <2>1, <2>2, <2>4, PoolAssumption DEF BoundedSize
<1>2. CASE EvictDeletes(t)
  <2>1. PICK k \in Key : pool[k] = mine[t] /\ Deletes(k)
    BY <1>2 DEF EvictDeletes
  <2>2. k \in Occupied /\ Occupied' = Occupied \ {k}
    BY <1>0, <1>2, <2>1 DEF EvictDeletes, Occupied, PoolTypeOK
  <2>3. Makers' = Makers \cup {t} /\ late' = late
    BY <1>0, <1>2 DEF EvictDeletes, Makers
  <2>4. QED
    BY <1>0, <2>2, <2>3, Trade
<1>3. CASE Forget(t)
  <2>1. CASE want[t] \in Occupied
    <3>1. Occupied' = Occupied \ {want[t]}
      BY <1>0, <1>3 DEF Forget, Occupied
    <3>2. Makers' = Makers \cup {t} /\ late' = late
      BY <1>0, <1>3, <2>1 DEF Forget, Makers, PInv, PoolTypeOK
    <3>3. QED
      BY <1>0, <2>1, <3>1, <3>2, Trade
  <2>2. CASE want[t] \notin Occupied
    BY <1>3, <2>2 DEF Forget, BoundedSize
  <2>3. QED
    BY <2>1, <2>2
<1>4. CASE InsertNew(t)
  <2>1. t \in Makers /\ Makers' = Makers \ {t} /\ late' = late
    BY <1>0, <1>4 DEF InsertNew, Makers
  <2>2. want[t] \in Key /\ Occupied' = Occupied \cup {want[t]}
    BY <1>0, <1>4 DEF InsertNew, Occupied, PInv, PoolTypeOK
  <2>3. QED
    BY <1>0, <2>1, <2>2, Entry
<1>5. CASE DialSucceeds(t) \/ DialFails(t) \/ InsertYields(t)
  <2>1. Occupied' \subseteq Occupied /\ Makers' \subseteq Makers /\ late' = late
    BY <1>0, <1>5 DEF DialSucceeds, DialFails, InsertYields, Makers, Occupied
  <2>2. QED
    BY <1>0, <2>1, NoMore
<1>6. CASE \/ GetReuses(t) \/ GetFindsDead(t) \/ GetEvicts(t) \/ EvictDisconnects(t)
           \/ ReconnectCloses(t) \/ ReconnectFindsLive(t) \/ ReconnectDials(t)
           \/ RedialSucceeds(t) \/ RedialFails(t)
  <2>1. Occupied' \subseteq Occupied /\ Makers' \subseteq Makers /\ late' = late
    BY <1>0, <1>6 DEF GetReuses, GetFindsDead, GetEvicts, EvictDisconnects, ReconnectCloses,
       ReconnectFindsLive, ReconnectDials, RedialSucceeds, RedialFails, Makers, Occupied
  <2>2. QED
    BY <1>0, <2>1, NoMore
<1>7. QED
  BY <1>1, <1>2, <1>3, <1>4, <1>5, <1>6 DEF Get

\* Every step keeps the bound: no other one makes an entry or a maker.
LEMMA SizeStep == ASSUME PInv, PInv', BoundedSize, [PoolNext]_poolVars PROVE BoundedSize'
<1>1. ASSUME NEW t \in Thread, Get(t) PROVE BoundedSize'
  BY <1>1, GetSize
<1>2. CASE ~ \E t \in Thread : Get(t)
  <2>1. PoolTypeOK /\ PoolTypeOK'
    BY DEF PInv
  <2>2. Occupied' \subseteq Occupied
    BY <1>2, <2>1 DEF PoolNext, Holder, Answers, CommandEnds, HolderConnected, HolderGivesUp,
       Command,
       CommandRaises, HolderDials, HolderDisconnects, HolderLeaves, Ask, HealthCheck, CloseSome,
       SweepBegins, Sweep, SweepDisconnects, SweepDeletes, Deletes, Drop, Occupied, PoolTypeOK,
       poolVars
  <2>3. Makers' \subseteq Makers
    BY <1>2, <2>1 DEF PoolNext, Holder, Answers, CommandEnds, HolderConnected, HolderGivesUp,
       Command,
       CommandRaises, HolderDials, HolderDisconnects, HolderLeaves, Goes, Leaves, Ask, HealthCheck,
       CloseSome, SweepBegins, Sweep, SweepDisconnects, SweepDeletes, Drop, Makers, Creating,
       PoolTypeOK, callVars, poolVars
  <2>4. late' = late
    BY <1>2 DEF PoolNext, Holder, Answers, CommandEnds, HolderConnected, HolderGivesUp,
       Command,
       CommandRaises, HolderDials, HolderDisconnects, HolderLeaves, Ask, HealthCheck, CloseSome,
       SweepBegins, Sweep, SweepDisconnects, SweepDeletes, Drop, history, poolVars
  <2>5. QED
    BY <2>1, <2>2, <2>3, <2>4, NoMore
<1>3. QED
  BY <1>1, <1>2

\* Entries and callers about to make one exceed the limit by at most one for each
\* other caller, unless one was made after its entry had gone (get_connection).
THEOREM SizeIsBounded == PoolSpec => []BoundedSize
<1>1. PoolInit => BoundedSize
  <2>1. ASSUME PoolInit PROVE Occupied = {} /\ Makers = {}
    BY <2>1 DEF PoolInit, Occupied, Makers, Creating
  <2>2. Cardinality({}) = 0 /\ Cardinality(Thread) \in Nat
    BY PoolAssumption, FS_EmptySet, FS_CardinalityType
  <2>3. QED
    BY <2>1, <2>2, PoolAssumption DEF BoundedSize
<1>2. PInv /\ PInv' /\ BoundedSize /\ [PoolNext]_poolVars => BoundedSize'
  BY SizeStep
<1>3. QED
  BY <1>1, <1>2, PoolInvariant, PTL DEF PoolSpec
=============================================================================
