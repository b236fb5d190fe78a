--------------------------- MODULE SSHExecutorProofs ---------------------------
(***************************************************************************)
(* Proofs about SSHExecutor, for every set of threads, transports and      *)
(* keepalive threads, with connections that drop and heartbeats that hang, *)
(* and whichever methods the threads call.                                 *)
(***************************************************************************)
EXTENDS SSHExecutor, TLAPS

Place == {"idle", "connect", "execute", "transfer", "disconnect", "reconnect",
          "dial", "command", "copy", "own_lock", "join", "rejoin"}

KeeperState == {"none", "loop", "beat", "wait", "ended"}

\* The part of TypeOK the proofs need; the breaker keeps its own types.
Types ==
    /\ call \in [Thread -> {"idle", "out"}]
    /\ lock \in Thread \cup {NoThread}
    /\ pc \in [Thread -> Place]
    /\ connected \in BOOLEAN
    /\ client \in Transport \cup {NoTransport}
    /\ alive \subseteq Transport
    /\ keeper \in Keeper \cup {NoKeeper}
    /\ keeping \in [Keeper -> KeeperState]
    /\ beatOn \in [Keeper -> Transport \cup {NoTransport}]

\* Whoever is inside connect, execute, a transfer or a disconnect owns the lock, and
\* so does for ever who waits for the lock it owns.
Inside == {"dial", "command", "copy", "own_lock", "join", "rejoin"}

InsideOwnsLock == \A t \in Thread : pc[t] \in Inside => lock = t

\* A dial begins on a connection that is down, and nobody else can bring it up.
DialsWhenDown == \A t \in Thread : pc[t] = "dial" => ~IsAlive

StaleBeat ==
    \E k \in Keeper : /\ keeping[k] = "ended"
                      /\ beatOn[k] \notin alive
                      /\ beatOn[k] # client

\* A live connection is marked as lost only by a heartbeat on an earlier transport or
\* by a thread that now waits for itself.
LostOnlyByBeat ==
    client \in alive /\ ~connected =>
        StaleBeat \/ \E t \in Thread : pc[t] = "own_lock" /\ lock = t

EInv ==
    /\ Types /\ InsideOwnsLock /\ ReportsAreTimely /\ OneKeeper
    /\ DialsWhenDown /\ LostOnlyByBeat

-----------------------------------------------------------------------------
(* What each group of steps leaves alone *)

\* A step of thread t moves t only.
ThreadMoves(t) ==
    /\ \E place \in Place : pc' = [pc EXCEPT ![t] = place]
    /\ \A u \in Thread : u # t => call'[u] = call[u]
    /\ call' \in [Thread -> {"idle", "out"}]

\* A step of a keepalive thread, of the network, of get_status or of the clock.
Beside ==
    /\ pc' = pc /\ lock' = lock /\ call' = call /\ client' = client /\ keeper' = keeper
    /\ alive' \subseteq alive /\ connected' \in {connected, FALSE}
    /\ forgotten' = forgotten

LEMMA KeepaliveBeside == ASSUME NEW k \in Keeper, Keepalive(k) PROVE Beside
  BY DEF Keepalive, KeeperStops, KeeperBeats, BeatSent, BeatRaises, KeeperWakes, Beside,
         breakerVars, linkVars

\* The breaker's lazy transition and the clock do not touch its callers.
LEMMA OutsideBeside ==
    ASSUME Drop \/ GetStatus \/ Tick PROVE Beside /\ UNCHANGED <<keeping, beatOn>>
  BY DEF Drop, GetStatus, Tick, Breaker!Observe, Breaker!Tick, Beside,
         breakerVars, linkVars, keeperVars

-----------------------------------------------------------------------------
(* Types *)

\* Initially nobody does anything and no connection has been made.
LEMMA ExecutorInit == Init => EInv
<1> SUFFICES ASSUME Init PROVE EInv
  OBVIOUS
<1>1. Types
  BY ExecutorAssumption DEF Init, Breaker!Init, Types, Place, KeeperState
<1>2. InsideOwnsLock /\ ReportsAreTimely /\ OneKeeper /\ DialsWhenDown /\ LostOnlyByBeat
  BY DEF Init, Breaker!Init, InsideOwnsLock, Inside, ReportsAreTimely, OneKeeper,
         DialsWhenDown, LostOnlyByBeat, IsAlive
<1>3. QED
  BY <1>1, <1>2 DEF EInv

\* A method's step moves its own thread, and reports only for itself.
LEMMA ReturnsMoves ==
    ASSUME Types, NEW t \in Thread,
           Returns(t) \/ CommandRaises(t) \/ \E op \in Operation : Call(t, op)
    PROVE  ThreadMoves(t)
<1> USE DEF Types, Goes, breakerVars, ThreadMoves, Place
<1>1. CASE ConnectReuses(t) BY <1>1 DEF ConnectReuses
<1>2. CASE ConnectRefused(t)
  BY <1>2 DEF ConnectRefused, Breaker!Refuse, Breaker!Observe
<1>3. CASE ConnectDials(t)
  BY <1>3 DEF ConnectDials, Breaker!Admit
<1>4. CASE DialSucceeds(t)
  BY <1>4 DEF DialSucceeds, Breaker!RecordSuccess
<1>5. CASE DialFails(t)
  BY <1>5 DEF DialFails, Breaker!RecordFailure
<1>6. CASE ExecuteBegins(t) BY <1>6 DEF ExecuteBegins
<1>7. CASE CommandReturns(t) BY <1>7 DEF CommandReturns
<1>8. CASE TransferBegins(t) BY <1>8 DEF TransferBegins
<1>9. CASE TransferReturns(t) BY <1>9 DEF TransferReturns
<1>10. CASE DisconnectBegins(t) BY <1>10 DEF DisconnectBegins, Join
<1>11. CASE DisconnectEnds(t) BY <1>11 DEF DisconnectEnds
<1>12. CASE CommandRaises(t) BY <1>12 DEF CommandRaises
<1>13. ASSUME NEW op \in Operation, Call(t, op) PROVE ThreadMoves(t)
  BY <1>13, ExecutorAssumption DEF Call
<1>14. QED
  BY <1>1, <1>2, <1>3, <1>4, <1>5, <1>6, <1>7, <1>8, <1>9, <1>10, <1>11, <1>12, <1>13 DEF Returns

\* What changes the connection: a dial that ends, a disconnect, a command that raises.
Hangs(t) == \/ DialSucceeds(t) \/ DialFails(t) \/ DisconnectEnds(t) \/ CommandRaises(t)

\* Every other step of a method leaves the connection and the keepalive thread alone.
LEMMA OtherwiseSame ==
    ASSUME NEW t \in Thread, ~Hangs(t),
           Returns(t) \/ \E op \in Operation : Call(t, op)
    PROVE  UNCHANGED <<linkVars, keeper, keeping, beatOn, forgotten>>
  BY DEF Hangs, Returns, Call, ConnectReuses, ConnectRefused, ConnectDials, ExecuteBegins,
         CommandReturns, TransferBegins, TransferReturns, DisconnectBegins, keeperVars

\* The keepalive thread that a successful dial leaves in charge.
LEMMA KeepaliveStarted ==
    ASSUME Types, OneKeeper, StartKeepalive
    PROVE  /\ keeper' \in Keeper \cup {NoKeeper} /\ keeping' \in [Keeper -> KeeperState]
           /\ beatOn' = beatOn /\ OneKeeper'
<1> USE DEF Types, KeeperState
<1>1. CASE Ended(keeper)
  <2>1. PICK k \in Keeper :
          /\ keeping[k] \in {"none", "ended"}
          /\ keeper' = k /\ keeping' = [keeping EXCEPT ![k] = "loop"]
          /\ forgotten' = forgotten \ {k} /\ beatOn' = beatOn
    BY <1>1 DEF StartKeepalive
  <2>2. OneKeeper'
    BY <1>1, <2>1 DEF OneKeeper, Ended
  <2>3. QED
    BY <2>1, <2>2
<1>2. CASE ~Ended(keeper)
  <2>1. UNCHANGED <<keeper, keeping, beatOn, forgotten>>
    BY <1>2 DEF StartKeepalive, keeperVars
  <2>2. QED
    BY <2>1 DEF OneKeeper
<1>3. QED
  BY <1>1, <1>2

\* The types after a step of a method.
LEMMA ReturnsType ==
    ASSUME Types, OneKeeper, NEW t \in Thread,
           Returns(t) \/ CommandRaises(t) \/ \E op \in Operation : Call(t, op)
    PROVE  Types'
<1>1. ThreadMoves(t)
  BY ReturnsMoves
<1>2. call' \in [Thread -> {"idle", "out"}] /\ pc' \in [Thread -> Place]
  BY <1>1 DEF ThreadMoves, Types
<1>3. lock' \in Thread \cup {NoThread}
  BY DEF Types, Returns, CommandRaises, Call, ConnectReuses, ConnectRefused, ConnectDials,
         DialSucceeds, DialFails, ExecuteBegins, CommandReturns, TransferBegins,
         TransferReturns, DisconnectBegins, DisconnectEnds, Acquire, Release
<1>4. CASE DialSucceeds(t)
  <2>1. /\ keeper' \in Keeper \cup {NoKeeper}
        /\ keeping' \in [Keeper -> KeeperState] /\ beatOn' = beatOn
    BY <1>4, KeepaliveStarted DEF DialSucceeds
  <2>2. connected' = TRUE /\ client' \in Transport /\ alive' \subseteq Transport
    BY <1>4 DEF DialSucceeds, Types
  <2>3. QED
    BY <1>2, <1>3, <2>1, <2>2 DEF Types
<1>5. CASE DialFails(t)
  BY <1>2, <1>3, <1>5 DEF DialFails, keeperVars, Types
<1>6. CASE DisconnectEnds(t)
  BY <1>2, <1>3, <1>6 DEF DisconnectEnds, Types
<1>7. CASE CommandRaises(t)
  BY <1>2, <1>3, <1>7 DEF CommandRaises, keeperVars, Types
<1>8. CASE ~Hangs(t)
  <2>1. UNCHANGED <<connected, client, alive, keeper, keeping, beatOn>>
    BY <1>8, OtherwiseSame DEF Hangs, linkVars
  <2>2. QED
    BY <1>2, <1>3, <2>1 DEF Types
<1>9. QED
  BY <1>4, <1>5, <1>6, <1>7, <1>8 DEF Hangs

\* The types after any other step.
LEMMA BesideType ==
    ASSUME Types, Drop \/ GetStatus \/ Tick \/ \E k \in Keeper : Keepalive(k)
    PROVE  Types'
<1>1. Beside
  BY KeepaliveBeside, OutsideBeside
<1>2. keeping' \in [Keeper -> KeeperState] /\ beatOn' \in [Keeper -> Transport \cup {NoTransport}]
  <2>1. ASSUME NEW k \in Keeper, Keepalive(k)
        PROVE  /\ keeping' \in [Keeper -> KeeperState]
               /\ beatOn' \in [Keeper -> Transport \cup {NoTransport}]
    BY <2>1 DEF Keepalive, KeeperStops, KeeperBeats, BeatSent, BeatRaises, KeeperWakes, Types,
           KeeperState
  <2>2. QED
    BY <2>1, OutsideBeside DEF Types
<1>3. connected' \in BOOLEAN
  BY <1>1 DEF Beside, Types
<1>4. alive' \subseteq Transport
  BY <1>1 DEF Beside, Types
<1>5. QED
  BY <1>1, <1>2, <1>3, <1>4 DEF Beside, Types

-----------------------------------------------------------------------------
(* The lock and the reports *)

\* One step of a method: the lock passes from nobody to the thread, from the thread to
\* nobody, or stays, and the report goes with it.
LEMMA ReturnsLock ==
    ASSUME EInv, NEW t \in Thread,
           Returns(t) \/ CommandRaises(t) \/ \E op \in Operation : Call(t, op)
    PROVE  /\ lock' = lock \/ (lock = NoThread /\ lock' = t) \/ (lock = t /\ lock' = NoThread)
           /\ pc'[t] \in Inside => lock' = t
           /\ call'[t] = "out" <=> pc'[t] = "dial"
           /\ pc[t] \notin {"idle", "connect"} => pc'[t] # "dial"
<1> USE DEF EInv, Types, Inside, InsideOwnsLock, ReportsAreTimely, Goes, Acquire, Release,
            breakerVars
<1>1. CASE ConnectReuses(t) BY <1>1 DEF ConnectReuses
<1>2. CASE ConnectRefused(t) BY <1>2 DEF ConnectRefused, Breaker!Refuse, Breaker!Observe
<1>3. CASE ConnectDials(t) BY <1>3 DEF ConnectDials, Breaker!Admit
<1>4. CASE DialSucceeds(t) BY <1>4 DEF DialSucceeds, Breaker!RecordSuccess
<1>5. CASE DialFails(t) BY <1>5 DEF DialFails, Breaker!RecordFailure
<1>6. CASE ExecuteBegins(t) BY <1>6 DEF ExecuteBegins
<1>7. CASE CommandReturns(t) BY <1>7 DEF CommandReturns
<1>8. CASE TransferBegins(t) BY <1>8 DEF TransferBegins
<1>9. CASE TransferReturns(t) BY <1>9 DEF TransferReturns
<1>10. CASE DisconnectBegins(t) BY <1>10 DEF DisconnectBegins, Join
<1>11. CASE DisconnectEnds(t) BY <1>11 DEF DisconnectEnds
<1>12. CASE CommandRaises(t) BY <1>12 DEF CommandRaises
<1>13. ASSUME NEW op \in Operation, Call(t, op)
       PROVE  /\ lock' = lock
              /\ pc'[t] \notin Inside
              /\ call'[t] # "out"
  BY <1>13, ExecutorAssumption DEF Call
<1>14. QED
  BY <1>1, <1>2, <1>3, <1>4, <1>5, <1>6, <1>7, <1>8, <1>9, <1>10, <1>11, <1>12, <1>13 DEF Returns

\* So a thread inside a method owns the lock, and owes a report just while it dials.
LEMMA ReturnsKeepsLock ==
    ASSUME EInv, NEW t \in Thread,
           Returns(t) \/ CommandRaises(t) \/ \E op \in Operation : Call(t, op)
    PROVE  InsideOwnsLock' /\ ReportsAreTimely'
<1>1. /\ lock' = lock \/ (lock = NoThread /\ lock' = t) \/ (lock = t /\ lock' = NoThread)
      /\ pc'[t] \in Inside => lock' = t
      /\ call'[t] = "out" <=> pc'[t] = "dial"
  BY ReturnsLock
<1>2. \A u \in Thread : u # t => pc'[u] = pc[u] /\ call'[u] = call[u]
  BY ReturnsMoves DEF ThreadMoves, EInv, Types
<1>3. InsideOwnsLock'
  BY <1>1, <1>2, ExecutorAssumption DEF EInv, InsideOwnsLock
<1>4. ReportsAreTimely'
  BY <1>1, <1>2, <1>3, ExecutorAssumption DEF EInv, ReportsAreTimely, InsideOwnsLock, Inside
<1>5. QED
  BY <1>3, <1>4

-----------------------------------------------------------------------------
(* The keepalive thread *)

\* A disconnect that gives up the keepalive thread has seen it end, or remembers it.
LEMMA KeeperKept == ASSUME EInv, Next PROVE OneKeeper'
<1> USE DEF EInv
<1>1. ASSUME NEW t \in Thread,
             Returns(t) \/ CommandRaises(t) \/ \E op \in Operation : Call(t, op)
      PROVE  OneKeeper'
  <2>1. CASE DialSucceeds(t)
    BY <2>1, KeepaliveStarted DEF DialSucceeds
  <2>2. CASE DisconnectEnds(t)
    BY <2>2, ExecutorAssumption DEF DisconnectEnds, Ended, OneKeeper, Types
  <2>3. CASE DialFails(t) \/ CommandRaises(t)
    BY <2>3 DEF DialFails, CommandRaises, keeperVars, OneKeeper
  <2>4. CASE ~Hangs(t)
    BY <1>1, <2>4, OtherwiseSame DEF OneKeeper, Hangs
  <2>5. QED
    BY <2>1, <2>2, <2>3, <2>4 DEF Hangs
<1>2. ASSUME NEW k \in Keeper, Keepalive(k) PROVE OneKeeper'
  BY <1>2 DEF Keepalive, KeeperStops, KeeperBeats, BeatSent, BeatRaises, KeeperWakes,
         OneKeeper, Types
<1>3. CASE Drop \/ GetStatus \/ Tick
  BY <1>3, OutsideBeside DEF Beside, OneKeeper
<1>4. QED
  BY <1>1, <1>2, <1>3 DEF Next

-----------------------------------------------------------------------------
(* Why a dial begins *)

\* While a thread dials the connection stays down: nobody else holds the lock.
LEMMA DownKept ==
    ASSUME EInv, NEW t \in Thread,
           Returns(t) \/ CommandRaises(t) \/ \E op \in Operation : Call(t, op)
    PROVE  DialsWhenDown'
<1> USE DEF EInv
<1>1. \A u \in Thread : u # t => pc'[u] = pc[u]
  BY ReturnsMoves DEF ThreadMoves, Types
<1>2. CASE Hangs(t)
  <2>1. pc[t] \in Inside /\ lock = t
    BY <1>2 DEF Hangs, DialSucceeds, DialFails, DisconnectEnds, CommandRaises, Inside,
           InsideOwnsLock
  <2>2. \A u \in Thread : u # t => pc'[u] # "dial"
    BY <1>1, <2>1 DEF InsideOwnsLock, Inside
  <2>3. pc'[t] # "dial"
    BY <2>1, ReturnsLock DEF Inside
  <2>4. QED
    BY <2>2, <2>3 DEF DialsWhenDown
<1>3. CASE ~Hangs(t)
  <2>1. IsAlive' <=> IsAlive
    BY <1>3, OtherwiseSame DEF linkVars, IsAlive, Hangs
  <2>2. CASE ConnectDials(t)
    BY <1>1, <2>1, <2>2 DEF ConnectDials, DialsWhenDown
  <2>3. CASE ~ConnectDials(t)
    <3>1. pc'[t] # "dial"
      BY <1>3, <2>3, ExecutorAssumption DEF Returns, Hangs, Call, ConnectReuses, ConnectRefused,
           ExecuteBegins, CommandReturns, TransferBegins, TransferReturns, DisconnectBegins,
           Goes, Join, Types
    <3>2. QED
      BY <1>1, <2>1, <3>1 DEF DialsWhenDown
  <2>4. QED
    BY <2>2, <2>3
<1>4. QED
  BY <1>2, <1>3

\* A thread that waits for its own lock waits for ever.
LEMMA SelfWaitStays ==
    ASSUME EInv, NEW t \in Thread,
           Returns(t) \/ CommandRaises(t) \/ \E op \in Operation : Call(t, op),
           NEW u \in Thread, pc[u] = "own_lock"
    PROVE  pc'[u] = "own_lock" /\ lock' = u
<1>1. t # u
  BY DEF Returns, Call, CommandRaises, ConnectReuses, ConnectRefused, ConnectDials, DialSucceeds,
         DialFails, ExecuteBegins, CommandReturns, TransferBegins, TransferReturns,
         DisconnectBegins, DisconnectEnds
<1>2. pc'[u] = pc[u]
  BY <1>1, ReturnsMoves DEF ThreadMoves, EInv, Types
<1>3. lock = u
  BY DEF EInv, InsideOwnsLock, Inside
<1>4. lock' = lock
  BY <1>1, <1>3, ReturnsLock, ExecutorAssumption DEF EInv, Types
<1>5. QED
  BY <1>2, <1>3, <1>4

\* A live connection is marked as lost in no other way.
LEMMA LostKept ==
    ASSUME EInv, NEW t \in Thread,
           Returns(t) \/ CommandRaises(t) \/ \E op \in Operation : Call(t, op)
    PROVE  LostOnlyByBeat'
<1> USE DEF EInv
<1>1. \A u \in Thread : pc[u] = "own_lock" => pc'[u] = "own_lock" /\ lock' = u
  BY SelfWaitStays
<1>2. CASE DialSucceeds(t)
  BY <1>2 DEF DialSucceeds, LostOnlyByBeat
<1>3. CASE DisconnectEnds(t)
  BY <1>3, ExecutorAssumption DEF DisconnectEnds, LostOnlyByBeat, Types
<1>4. CASE DialFails(t)
  <2>1. /\ client' \in {client, NoTransport} /\ alive' = alive
        /\ UNCHANGED <<keeping, beatOn>> /\ pc[t] = "dial"
    BY <1>4 DEF DialFails, keeperVars
  <2>2. client \in alive => ~connected
    BY <2>1 DEF DialsWhenDown, IsAlive
  <2>3. NoTransport \notin alive
    BY ExecutorAssumption DEF Types
  <2>4. QED
    BY <1>1, <2>1, <2>2, <2>3 DEF LostOnlyByBeat, StaleBeat
<1>5. CASE CommandRaises(t)
  <2>1. pc'[t] = "own_lock" /\ lock' = lock /\ lock = t
    BY <1>5 DEF CommandRaises, Goes, Types, InsideOwnsLock, Inside
  <2>2. QED
    BY <2>1 DEF LostOnlyByBeat
<1>6. CASE ~Hangs(t)
  <2>1. UNCHANGED <<connected, client, alive, keeping, beatOn>>
    BY <1>6, OtherwiseSame DEF linkVars, Hangs
  <2>2. QED
    BY <1>1, <2>1 DEF LostOnlyByBeat, StaleBeat
<1>7. QED
  BY <1>2, <1>3, <1>4, <1>5, <1>6 DEF Hangs

\* A heartbeat that raises is the stale one; the other keepalive steps spare those that
\* have ended.
LEMMA BesideLost ==
    ASSUME EInv, Drop \/ GetStatus \/ Tick \/ \E k \in Keeper : Keepalive(k)
    PROVE  LostOnlyByBeat'
<1> USE DEF EInv
<1>1. Beside
  BY KeepaliveBeside, OutsideBeside
<1>2. CASE Drop \/ GetStatus \/ Tick
  <2>1. UNCHANGED <<keeping, beatOn, connected>>
    BY <1>2, OutsideBeside DEF Drop, GetStatus, Tick, linkVars
  <2>2. QED
    BY <1>1, <2>1 DEF Beside, LostOnlyByBeat, StaleBeat
<1>3. ASSUME NEW k \in Keeper, Keepalive(k) PROVE LostOnlyByBeat'
  <2>1. CASE BeatRaises(k)
    <3>1. keeping'[k] = "ended" /\ beatOn[k] \notin alive /\ alive' = alive /\ beatOn' = beatOn
      BY <2>1 DEF BeatRaises, Types
    <3>2. QED
      BY <1>1, <3>1 DEF Beside, LostOnlyByBeat, StaleBeat
  <2>2. CASE ~BeatRaises(k)
    <3>1. UNCHANGED <<connected, client, alive, pc, lock>> /\ keeping[k] # "ended"
      BY <1>3, <2>2 DEF Keepalive, KeeperStops, KeeperBeats, BeatSent, KeeperWakes, linkVars
    <3>2. \A j \in Keeper : j # k => keeping'[j] = keeping[j] /\ beatOn'[j] = beatOn[j]
      BY <1>3, <2>2 DEF Keepalive, KeeperStops, KeeperBeats, BeatSent, KeeperWakes, Types
    <3>3. QED
      BY <3>1, <3>2 DEF LostOnlyByBeat, StaleBeat
  <2>3. QED
    BY <2>1, <2>2
<1>4. QED
  BY <1>2, <1>3

-----------------------------------------------------------------------------
(* The invariant *)

\* Every step keeps the invariant.
LEMMA ExecutorStep == ASSUME EInv, [Next]_vars PROVE EInv'
<1> USE DEF EInv
<1>1. ASSUME NEW t \in Thread,
             Returns(t) \/ CommandRaises(t) \/ \E op \in Operation : Call(t, op)
      PROVE  EInv'
  <2>1. Types'
    BY <1>1, ReturnsType
  <2>2. InsideOwnsLock' /\ ReportsAreTimely'
    BY <1>1, ReturnsKeepsLock
  <2>3. OneKeeper'
    BY <1>1, KeeperKept DEF Next
  <2>4. DialsWhenDown' /\ LostOnlyByBeat'
    BY <1>1, DownKept, LostKept
  <2>5. QED
    BY <2>1, <2>2, <2>3, <2>4
<1>2. ASSUME Drop \/ GetStatus \/ Tick \/ \E k \in Keeper : Keepalive(k)
      PROVE  EInv'
  <2>1. Types' /\ LostOnlyByBeat'
    BY <1>2, BesideType, BesideLost
  <2>2. OneKeeper'
    BY <1>2, KeeperKept DEF Next
  <2>3. Beside
    BY <1>2, KeepaliveBeside, OutsideBeside
  <2>4. InsideOwnsLock' /\ ReportsAreTimely'
    BY <2>3 DEF Beside, InsideOwnsLock, ReportsAreTimely
  <2>5. DialsWhenDown'
    BY <2>3 DEF Beside, DialsWhenDown, IsAlive, Types
  <2>6. QED
    BY <2>1, <2>2, <2>4, <2>5
<1>3. CASE UNCHANGED vars
  <2>1. UNCHANGED <<call, lock, pc, connected, client, alive, keeper, keeping, beatOn, forgotten>>
    BY <1>3 DEF vars, breakerVars, keeperVars, linkVars
  <2>2. Types' /\ OneKeeper'
    BY <2>1 DEF Types, OneKeeper
  <2>3. InsideOwnsLock' /\ ReportsAreTimely' /\ DialsWhenDown'
    BY <2>1 DEF InsideOwnsLock, ReportsAreTimely, DialsWhenDown, IsAlive
  <2>4. LostOnlyByBeat'
    BY <2>1 DEF LostOnlyByBeat, StaleBeat
  <2>5. QED
    BY <2>2, <2>3, <2>4
<1>4. QED
  BY <1>1, <1>2, <1>3 DEF Next

\* The invariant holds in every reachable state.
LEMMA ExecutorInvariant == Spec => []EInv
  BY ExecutorInit, ExecutorStep, PTL DEF Spec

\* A dial that begins on a live connection finds it marked by a stale heartbeat.
LEMMA DialsRightly ==
    ASSUME EInv, [Next]_vars, NEW t \in Thread, pc[t] = "connect", pc'[t] = "dial", client \in alive
    PROVE  StaleBeat
<1>1. ~UNCHANGED pc
  OBVIOUS
<1>2. PICK u \in Thread : Returns(u) \/ CommandRaises(u) \/ \E op \in Operation : Call(u, op)
  BY <1>1, KeepaliveBeside, OutsideBeside DEF Next, vars, Beside
<1>3. u = t
  BY <1>2, ReturnsMoves DEF ThreadMoves, EInv, Types
<1>4. ConnectDials(t)
  BY <1>2, <1>3 DEF EInv, Types, Returns, CommandRaises, Call, ConnectReuses, ConnectRefused,
     DialSucceeds, DialFails, ExecuteBegins, CommandReturns, TransferBegins, TransferReturns,
     DisconnectBegins, DisconnectEnds, Goes
<1>5. ~connected /\ lock = NoThread
  BY <1>4 DEF ConnectDials, IsAlive, Acquire
<1>6. QED
  BY <1>5, ExecutorAssumption DEF EInv, LostOnlyByBeat

\* What the executor does to its breaker is one of the breaker's own methods.
LEMMA BreakerUsed == ASSUME [Next]_vars PROVE [Breaker!Next]_(Breaker!vars)
<1>1. ASSUME NEW t \in Thread,
             ConnectRefused(t) \/ ConnectDials(t) \/ DialSucceeds(t) \/ DialFails(t)
      PROVE  Breaker!Next
  BY <1>1 DEF ConnectRefused, ConnectDials, DialSucceeds, DialFails, Breaker!Next
<1>2. ASSUME GetStatus \/ Tick PROVE Breaker!Next
  BY <1>2 DEF GetStatus, Tick, Breaker!Next
<1>3. ASSUME NEW t \in Thread,
             \/ ConnectReuses(t) \/ ExecuteBegins(t) \/ CommandReturns(t) \/ TransferBegins(t)
             \/ TransferReturns(t) \/ DisconnectBegins(t) \/ DisconnectEnds(t) \/ CommandRaises(t)
             \/ \E op \in Operation : Call(t, op)
      PROVE  UNCHANGED Breaker!vars
  BY <1>3 DEF ConnectReuses, ExecuteBegins, CommandReturns, TransferBegins, TransferReturns,
     DisconnectBegins, DisconnectEnds, CommandRaises, Call, breakerVars, Breaker!vars
<1>4. ASSUME NEW k \in Keeper, Keepalive(k) PROVE UNCHANGED Breaker!vars
  BY <1>4 DEF Keepalive, KeeperStops, KeeperBeats, BeatSent, BeatRaises, KeeperWakes,
     breakerVars, Breaker!vars
<1>5. CASE Drop \/ UNCHANGED vars
  BY <1>5 DEF Drop, vars, breakerVars, Breaker!vars
<1>6. QED
  BY <1>1, <1>2, <1>3, <1>4, <1>5 DEF Next, Returns

-----------------------------------------------------------------------------
(* The breaker inside the executor *)

\* The breaker's inductive invariant, with the executor's threads as its callers.
BreakerInv ==
    /\ Breaker!TypeOK /\ Breaker!CountsConsecutive
    /\ state = "half_open" => age >= RecoveryTimeout

\* The executor starts with a breaker that is closed.
LEMMA BreakerStarts == Init => BreakerInv
  BY ExecutorAssumption
     DEF Init, BreakerInv, Breaker!Init, Breaker!TypeOK, Breaker!CircuitState,
         Breaker!CountsConsecutive

\* can_execute, the reports, get_status and time, called by the executor, preserve it.
LEMMA BreakerKept == ASSUME BreakerInv, [Breaker!Next]_(Breaker!vars) PROVE BreakerInv'
<1> USE ExecutorAssumption
    DEF BreakerInv, Breaker!TypeOK, Breaker!CircuitState, Breaker!CountsConsecutive
<1>1. CASE Breaker!Observe
  BY <1>1 DEF Breaker!Observe, Breaker!Observed, Breaker!ObservedProbes, Breaker!Expired
<1>2. ASSUME NEW t \in Thread, Breaker!Admit(t) PROVE BreakerInv'
  <2>1. call' \in [Thread -> {"idle", "out"}]
    BY <1>2 DEF Breaker!Admit
  <2>2. probes' \in 0 .. HalfOpenMaxCalls
    BY <1>2 DEF Breaker!Admit, Breaker!Admits, Breaker!Observed, Breaker!ObservedProbes,
       Breaker!Expired
  <2>3. QED
    BY <1>2, <2>1, <2>2 DEF Breaker!Admit, Breaker!Observed, Breaker!Expired
<1>3. ASSUME NEW t \in Thread, Breaker!Refuse(t) PROVE BreakerInv'
  BY <1>1, <1>3 DEF Breaker!Refuse
<1>4. ASSUME NEW t \in Thread, Breaker!RecordSuccess(t) PROVE BreakerInv'
  BY <1>4 DEF Breaker!RecordSuccess
<1>5. ASSUME NEW t \in Thread, Breaker!RecordFailure(t) PROVE BreakerInv'
  <2>1. /\ failures' \in 0 .. FailureThreshold /\ streak' \in 0 .. FailureThreshold
        /\ failures = streak => failures' = streak'
    BY <1>5 DEF Breaker!RecordFailure, Breaker!Saturated
  <2>2. /\ call' \in [Thread -> {"idle", "out"}]
        /\ state' \in Breaker!CircuitState /\ state' # "half_open"
        /\ age' \in 0 .. RecoveryTimeout /\ probes' \in 0 .. HalfOpenMaxCalls
        /\ state' = "closed" => state = "closed" /\ ~(failures' >= FailureThreshold)
    BY <1>5 DEF Breaker!RecordFailure
  <2>3. QED
    BY <2>1, <2>2
<1>6. CASE Breaker!Reset
  BY <1>6 DEF Breaker!Reset
<1>7. CASE Breaker!Tick
  BY <1>7 DEF Breaker!Tick
<1>8. CASE UNCHANGED Breaker!vars
  BY <1>8 DEF Breaker!vars
<1>9. QED
  BY <1>1, <1>2, <1>3, <1>4, <1>5, <1>6, <1>7, <1>8 DEF Breaker!Next

\* The breaker has heard of every dial: its history is that of the host.
HearsAll == downs = streak /\ quiet = age

\* Every dial that ends is reported, by the step that ends it, and nothing else is.
LEMMA HearsAllKept == ASSUME BreakerInv, HearsAll, [Next]_vars PROVE HearsAll'
<1> USE DEF HearsAll
<1>1. ASSUME NEW t \in Thread, ConnectRefused(t) \/ ConnectDials(t) PROVE HearsAll'
  BY <1>1
     DEF ConnectRefused, ConnectDials, Breaker!Refuse, Breaker!Observe, Breaker!Admit, linkVars
<1>2. ASSUME NEW t \in Thread, DialSucceeds(t) PROVE HearsAll'
  BY <1>2 DEF DialSucceeds, Breaker!RecordSuccess
<1>3. ASSUME NEW t \in Thread, DialFails(t) PROVE HearsAll'
  <2>1. streak \in 0 .. FailureThreshold
    BY DEF BreakerInv, Breaker!TypeOK
  <2>2. /\ streak' = (IF streak < FailureThreshold THEN streak + 1 ELSE FailureThreshold)
        /\ age' = 0
    BY <1>3 DEF DialFails, Breaker!RecordFailure, Breaker!Saturated
  <2>3. QED
    BY <1>3, <2>1, <2>2, ExecutorAssumption DEF DialFails, DialFailed
<1>4. ASSUME NEW t \in Thread,
             \/ ConnectReuses(t) \/ ExecuteBegins(t) \/ CommandReturns(t) \/ TransferBegins(t)
             \/ TransferReturns(t) \/ DisconnectBegins(t) \/ DisconnectEnds(t) \/ CommandRaises(t)
             \/ \E op \in Operation : Call(t, op)
      PROVE  HearsAll'
  BY <1>4 DEF ConnectReuses, ExecuteBegins, CommandReturns, TransferBegins, TransferReturns,
     DisconnectBegins, DisconnectEnds, CommandRaises, Call, breakerVars, linkVars
<1>5. ASSUME NEW k \in Keeper, Keepalive(k) PROVE HearsAll'
  BY <1>5 DEF Keepalive, KeeperStops, KeeperBeats, BeatSent, BeatRaises, KeeperWakes,
     breakerVars, linkVars
<1>6. CASE GetStatus
  BY <1>6 DEF GetStatus, Breaker!Observe, linkVars
<1>7. CASE Tick
  BY <1>7 DEF Tick, Breaker!Tick
<1>8. CASE Drop \/ UNCHANGED vars
  BY <1>8 DEF Drop, vars, breakerVars, linkVars
<1>9. QED
  BY <1>1, <1>2, <1>3, <1>4, <1>5, <1>6, <1>7, <1>8 DEF Next, Returns

\* What holds of the executor, of its breaker and of the history holds in every state.
LEMMA ShieldInvariant == Spec => [](EInv /\ BreakerInv /\ HearsAll)
<1>1. Init => EInv /\ BreakerInv /\ HearsAll
  BY ExecutorInit, BreakerStarts DEF Init, Breaker!Init, HearsAll
<1>2. (EInv /\ BreakerInv /\ HearsAll) /\ [Next]_vars => (EInv /\ BreakerInv /\ HearsAll)'
  BY ExecutorStep, BreakerUsed, BreakerKept, HearsAllKept
<1>3. QED
  BY <1>1, <1>2, PTL DEF Spec

\* A thread that starts to dial was let through by a breaker that is closed or has
\* waited, and the breaker knows the host's history.
LEMMA DialsAdmitted ==
    ASSUME EInv, BreakerInv, HearsAll, [Next]_vars,
           NEW t \in Thread, pc[t] # "dial", pc'[t] = "dial"
    PROVE  downs < FailureThreshold \/ quiet >= RecoveryTimeout
<1>1. ~UNCHANGED pc
  OBVIOUS
<1>2. PICK u \in Thread : Returns(u) \/ CommandRaises(u) \/ \E op \in Operation : Call(u, op)
  BY <1>1, KeepaliveBeside, OutsideBeside DEF Next, vars, Beside
<1>3. u = t
  BY <1>2, ReturnsMoves DEF ThreadMoves, EInv, Types
<1>4. ConnectDials(t)
  BY <1>2, <1>3, ExecutorAssumption DEF EInv, Types, Returns, CommandRaises, Call, ConnectReuses,
     ConnectRefused, DialSucceeds, DialFails, ExecuteBegins, CommandReturns, TransferBegins,
     TransferReturns, DisconnectBegins, DisconnectEnds, Goes, Join
<1>5. Breaker!Admits
  BY <1>4 DEF ConnectDials, Breaker!Admit
<1>6. QED
  BY <1>5 DEF Breaker!Admits, Breaker!Observed, Breaker!Expired, BreakerInv,
     Breaker!CountsConsecutive, HearsAll

-----------------------------------------------------------------------------
(* Theorems *)

\* The breaker's reports are never late and never lost (SSHExecutor.connect), for every
\* number of threads.
THEOREM TimelyReports == Spec => []ReportsAreTimely
<1>1. EInv => ReportsAreTimely
  BY DEF EInv
<1>2. QED
  BY <1>1, ExecutorInvariant, PTL

\* No more than one keepalive thread runs, but for those disconnect did not see end
\* (_start_keepalive, _stop_keepalive_thread).
THEOREM KeepersAreKnown == Spec => []OneKeeper
<1>1. EInv => OneKeeper
  BY DEF EInv
<1>2. QED
  BY <1>1, ExecutorInvariant, PTL

\* A connection that works is dialled over only after a stale heartbeat (_keepalive_loop,
\* connect).
THEOREM DialsAreNeeded == Spec => RedialsOnlyAfterStaleBeat
<1>1. EInv /\ [Next]_vars =>
        [\A t \in Thread :
             pc[t] = "connect" /\ pc'[t] = "dial" /\ client \in alive => StaleBeat]_vars
  BY DialsRightly
<1>2. QED
  BY <1>1, ExecutorInvariant, PTL DEF Spec, RedialsOnlyAfterStaleBeat, StaleBeat

\* After FailureThreshold failed dials in a row nobody dials the host until the recovery
\* timeout has passed (SSHExecutor.connect, CircuitBreaker), for every number of threads,
\* whatever get_status and the keepalive threads do meanwhile.  It needs that every dial
\* is reported to the breaker and that nobody dials without asking it.
THEOREM DialsAreShielded == Spec => LeavesFailingHostAlone
<1>1. (EInv /\ BreakerInv /\ HearsAll) /\ [Next]_vars =>
        [\A t \in Thread : pc[t] # "dial" /\ pc'[t] = "dial" =>
            downs < FailureThreshold \/ quiet >= RecoveryTimeout]_vars
  BY DialsAdmitted
<1>2. QED
  BY <1>1, ShieldInvariant, PTL DEF Spec, LeavesFailingHostAlone
=============================================================================
