----------------------------- MODULE MCFaultStore -----------------------------
(* Instances of FaultStore for TLC. *)
EXTENDS FaultStore

CONSTANTS f1, f2, q1
=============================================================================
