--------------------------- MODULE MCPodInjectors ---------------------------
(* Instances of PodInjectors for TLC. *)
EXTENDS PodInjectors, TLC

CONSTANTS n1, n2, s1, s2, d, p, q, eth0

\* Network faults on two pods, two stops that meet on one of them, and a delete.
TypeMixed == (n1 :> "delay") @@ (n2 :> "loss") @@ (s1 :> "stop") @@ (s2 :> "stop")
             @@ (d :> "delete")
GivenMixed == (n1 :> "ranges") @@ (n2 :> "reversed") @@ (s1 :> "none") @@ (s2 :> "none")
              @@ (d :> "none")

\* The first names its device, the second has that of config.yaml.
NamedFirst == (n1 :> eth0) @@ (n2 :> NoDevice) @@ (s1 :> NoDevice) @@ (s2 :> NoDevice)
              @@ (d :> NoDevice)

\* The name of q contains the name of p.
TargetMixed == (n1 :> p) @@ (n2 :> q) @@ (s1 :> p) @@ (s2 :> p) @@ (d :> p)
FamilyMixed == (p :> {p, q}) @@ (q :> {q})

Stops == Permutations({s1, s2})
=============================================================================
