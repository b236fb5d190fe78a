------------------------------ MODULE Singleton ------------------------------
(***************************************************************************)
(* chaos/utils/singleton.py: SingletonMeta.__call__, by which the threads  *)
(* of the parallel tasks get the one SSHConnectionPool.  The instance is   *)
(* put into _instances before its __init__ runs, so the first check, which *)
(* takes no lock, may hand out an instance that is not ready.              *)
(***************************************************************************)
EXTENDS Naturals

CONSTANTS Thread

VARIABLES at,    \* [Thread -> {"out", "wait", "init", "got"}]
          made,  \* the class is in _instances
          ready, \* its __init__ has returned
          inits, \* the calls of __init__
          broken \* history: __init__ raised

singletonVars == <<at, made, ready, inits, broken>>

Init ==
    /\ at = [t \in Thread |-> "out"]
    /\ made = FALSE /\ ready = FALSE /\ inits = 0 /\ broken = FALSE

Moves(t, there) == at' = [at EXCEPT ![t] = there]

\* _lock is held by the thread that runs __init__, and by nobody else for long.
Locked == \E t \in Thread : at[t] = "init"

\* The first check.
Look(t) ==
    /\ at[t] = "out"
    /\ Moves(t, IF made THEN "got" ELSE "wait")
    /\ UNCHANGED <<made, ready, inits, broken>>

\* Mutant: no second check under the lock.
EnterUnchecked(t) ==
    /\ at[t] = "wait" /\ ~Locked
    /\ made' = TRUE /\ inits' = inits + 1
    /\ Moves(t, "init")
    /\ UNCHANGED <<ready, broken>>

\* The lock, the second check, and the instance without its __init__.
Enter(t) ==
    /\ at[t] = "wait" /\ ~Locked
    /\ IF made THEN Moves(t, "got") /\ UNCHANGED <<made, inits>>
               ELSE made' = TRUE /\ inits' = inits + 1 /\ Moves(t, "init")
    /\ UNCHANGED <<ready, broken>>

InitReturns(t) ==
    /\ at[t] = "init"
    /\ ready' = TRUE
    /\ Moves(t, "got")
    /\ UNCHANGED <<made, inits, broken>>

\* __init__ raises, into the caller's hands; the instance stays in _instances.
InitRaises(t) ==
    /\ at[t] = "init"
    /\ broken' = TRUE
    /\ Moves(t, "out")
    /\ UNCHANGED <<made, ready, inits>>

\* The caller goes on with what it was given.
Leave(t) ==
    /\ at[t] = "got"
    /\ Moves(t, "out")
    /\ UNCHANGED <<made, ready, inits, broken>>

-----------------------------------------------------------------------------
(* Properties *)

\* However many threads ask at once, __init__ runs once (singleton.py:3), and an
\* instance that is not ready is handed out only while a thread is in __init__,
\* or once __init__ has raised (singleton.py:38).
InitOnce ==
    /\ inits <= 1
    /\ made /\ ~ready => Locked \/ broken
    /\ \A t \in Thread : at[t] = "got" => made
=============================================================================
