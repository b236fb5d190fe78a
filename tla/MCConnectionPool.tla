--------------------------- MODULE MCConnectionPool ---------------------------
(* Instances of ConnectionPool for TLC. *)
EXTENDS ConnectionPool

CONSTANTS a, b, h1, h2, h3, e1, e2
=============================================================================
