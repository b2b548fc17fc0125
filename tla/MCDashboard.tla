---------------------------- MODULE MCDashboard ----------------------------
(* Shells and clusters are interchangeable. *)
EXTENDS Dashboard, TLC

MCSymmetry == Permutations(Shells) \cup Permutations(Clusters)
=============================================================================
