------------------------------- MODULE FaultLog -------------------------------
(***************************************************************************)
(* What a store of fault records promises: a record appears when its fault *)
(* is recorded, changes only when somebody settles it, and is never        *)
(* dropped, except that a crash or a failed write may cost the whole log   *)
(* at the moment it happens.                                               *)
(***************************************************************************)
EXTENDS Naturals

CONSTANT Fault

VARIABLES log,    \* the status of each fault, "none" if it has no record
          mishaps \* crashes and failed writes so far

vars == <<log, mishaps>>

Empty == [f \in Fault |-> "none"]

Init == log = Empty /\ mishaps = 0

Record(f) ==
    /\ log[f] = "none"
    /\ log' = [log EXCEPT ![f] = "running"]
    /\ UNCHANGED mishaps

Settle(f, s) ==
    /\ log[f] # "none"
    /\ log' = [log EXCEPT ![f] = s]
    /\ UNCHANGED mishaps

Mishap ==
    /\ mishaps' = mishaps + 1
    /\ log' \in {log, Empty}

Next ==
    \/ \E f \in Fault : Record(f)
    \/ \E f \in Fault, s \in {"recovered", "failed"} : Settle(f, s)
    \/ Mishap

Spec == Init /\ [][Next]_vars
=============================================================================
