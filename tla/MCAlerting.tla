----------------------------- MODULE MCAlerting -----------------------------
(* Instances of Alerting for TLC. *)
EXTENDS AlertingRefinement, TLC

Symmetry == Permutations(Consumers) \cup Permutations(Regions)
=============================================================================
