---------------------------- MODULE MCPodManager ----------------------------
(* Instances of PodManager for TLC. *)
EXTENDS PodManager, TLC

CONSTANTS p, q, r

\* Two pods in a shard, and a third that is one of its own; it is the
\* balancer when upc is asked about.
ShardPairs == (p :> 1) @@ (q :> 1) @@ (r :> 2)
QueryAll == [kind : Kinds, want : Want]
FilterMasters == ("lead" :> {p}) @@ ("follow" :> {})
=============================================================================
