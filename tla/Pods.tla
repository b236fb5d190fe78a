-------------------------------- MODULE Pods --------------------------------
(* The pods of the clusters that PodManager asks and the pod injectors act on. *)
EXTENDS FiniteSets

CONSTANT Pod

ASSUME PodsAreFinite == IsFiniteSet(Pod)
=============================================================================
