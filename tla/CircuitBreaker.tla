---------------------------- MODULE CircuitBreaker ----------------------------
(***************************************************************************)
(* chaos/utils/remote.py: CircuitBreaker.  Every method runs under the     *)
(* breaker's own lock, so each is one step.  A caller asks can_execute,    *)
(* works without the lock, and reports the outcome later, possibly long    *)
(* after the breaker has changed its state: late reports are part of the   *)
(* model.                                                                  *)
(*                                                                         *)
(* Two counters saturate where the code stops telling values apart: "age"  *)
(* at the recovery timeout and "failures" at the threshold.                *)
(***************************************************************************)
EXTENDS Naturals

CONSTANTS Caller,           \* threads that use the breaker
          FailureThreshold, \* _failure_threshold
          RecoveryTimeout,  \* _recovery_timeout, in clock ticks
          HalfOpenMaxCalls  \* _half_open_max_calls

ASSUME BreakerAssumption ==
    /\ FailureThreshold \in Nat \ {0}
    /\ RecoveryTimeout \in Nat
    /\ HalfOpenMaxCalls \in Nat \ {0}

VARIABLES state,     \* _state
          failures,  \* _failure_count
          age,       \* time since _last_failure_time
          probes,    \* _half_open_calls
          call,      \* callers that were let through and have not reported yet
          streak     \* history: failures reported since the last success or reset

vars == <<state, failures, age, probes, call, streak>>

CircuitState == {"closed", "open", "half_open"}

Saturated(n, limit) == IF n < limit THEN n + 1 ELSE limit

Init ==
    /\ state = "closed" /\ failures = 0 /\ age = 0 /\ probes = 0
    /\ call = [c \in Caller |-> "idle"]
    /\ streak = 0

-----------------------------------------------------------------------------
\* Mutant: the recovery timeout is not waited for.
ExpiresAtOnce == state = "open"

Expired == state = "open" /\ age >= RecoveryTimeout

\* _check_state_transition: what the state and the probe count become when any
\* method looks at them.
Observed == IF Expired THEN "half_open" ELSE state
ObservedProbes == IF Expired THEN 0 ELSE probes

\* The state property and get_status.
Observe ==
    /\ state' = Observed /\ probes' = ObservedProbes
    /\ UNCHANGED <<failures, age, call, streak>>

\* Mutant: can_execute without _check_state_transition.
AdmitsUnobserved == \/ state = "closed"
                    \/ state = "half_open" /\ probes < HalfOpenMaxCalls

Admits == \/ Observed = "closed"
          \/ Observed = "half_open" /\ ObservedProbes < HalfOpenMaxCalls

\* can_execute returned True.
Admit(c) ==
    /\ call[c] = "idle" /\ Admits
    /\ call' = [call EXCEPT ![c] = "out"]
    /\ state' = Observed
    /\ probes' = IF Observed = "half_open" THEN ObservedProbes + 1 ELSE ObservedProbes
    /\ UNCHANGED <<failures, age, streak>>

\* can_execute returned False.
Refuse(c) ==
    /\ call[c] = "idle" /\ ~Admits
    /\ Observe

\* record_success: ignored while the breaker is open.
RecordSuccess(c) ==
    /\ call[c] = "out"
    /\ call' = [call EXCEPT ![c] = "idle"]
    /\ state' = IF state = "half_open" THEN "closed" ELSE state
    /\ failures' = IF state = "open" THEN failures ELSE 0
    /\ probes' = IF state = "half_open" THEN 0 ELSE probes
    /\ streak' = 0
    /\ UNCHANGED age

\* Mutant: a failed probe leaves the breaker half-open.
RecordFailureStaysHalfOpen(c) ==
    /\ call[c] = "out"
    /\ call' = [call EXCEPT ![c] = "idle"]
    /\ failures' = Saturated(failures, FailureThreshold)
    /\ streak' = Saturated(streak, FailureThreshold)
    /\ age' = 0
    /\ state' = IF state = "closed" /\ failures' >= FailureThreshold THEN "open" ELSE state
    /\ UNCHANGED probes

RecordFailure(c) ==
    /\ call[c] = "out"
    /\ call' = [call EXCEPT ![c] = "idle"]
    /\ failures' = Saturated(failures, FailureThreshold)
    /\ streak' = Saturated(streak, FailureThreshold)
    /\ age' = 0
    /\ state' = IF \/ state = "half_open"
                   \/ state = "closed" /\ failures' >= FailureThreshold
                THEN "open" ELSE state
    /\ probes' = IF state = "half_open" THEN 0 ELSE probes

Reset ==
    /\ state' = "closed" /\ failures' = 0 /\ age' = 0 /\ probes' = 0 /\ streak' = 0
    /\ UNCHANGED call

\* Time passes.
Tick ==
    /\ age < RecoveryTimeout
    /\ age' = age + 1
    /\ UNCHANGED <<state, failures, probes, call, streak>>

Next ==
    \/ \E c \in Caller : Admit(c) \/ Refuse(c) \/ RecordSuccess(c) \/ RecordFailure(c)
    \/ Observe \/ Reset \/ Tick

Spec == Init /\ [][Next]_vars

\* Time passes, callers report, and somebody asks again.
FairSpec ==
    /\ Spec
    /\ WF_vars(Tick)
    /\ \A c \in Caller : /\ WF_vars(RecordSuccess(c) \/ RecordFailure(c))
                         /\ WF_vars(Admit(c))

-----------------------------------------------------------------------------
(* Properties *)

TypeOK ==
    /\ state \in CircuitState
    /\ failures \in 0 .. FailureThreshold
    /\ streak \in 0 .. FailureThreshold
    /\ age \in 0 .. RecoveryTimeout
    /\ probes \in 0 .. HalfOpenMaxCalls
    /\ call \in [Caller -> {"idle", "out"}]

\* After "threshold" failures in a row nobody is let through until the recovery
\* timeout has passed since the last of them, whichever states the breaker went
\* through and however late the failures were reported (CircuitBreaker docstring:
\* it keeps requests away from a service that fails).
ShieldsFailingService ==
    [][\A c \in Caller : call[c] = "idle" /\ call'[c] = "out" =>
          streak < FailureThreshold \/ age >= RecoveryTimeout]_vars

\* The half-open state never uses up its probes for good: while one is counted, a
\* caller still owes its report, which will open or close the breaker.
ProbeIsOut ==
    state = "half_open" /\ probes > 0 => \E c \in Caller : call[c] = "out"

\* In CLOSED the failure count is the number of consecutive failures, so that a
\* success between two failures always starts the count over, and it stays below
\* the threshold (docstring: CLOSED -> OPEN on consecutive failures).
CountsConsecutive ==
    state = "closed" => failures = streak /\ streak < FailureThreshold

\* A breaker that opened is tried again: eventually a probe is let through, or it
\* has been closed.
TriedAgain ==
    state = "open" ~> \/ state = "half_open" /\ probes > 0
                      \/ state = "closed"
=============================================================================
