---------------------------- MODULE MCSSHExecutor ----------------------------
(* Instances of SSHExecutor for TLC. *)
EXTENDS SSHExecutor

CONSTANTS a, b, g1, g2, k1, k2
=============================================================================
