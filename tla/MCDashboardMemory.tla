-------------------------- MODULE MCDashboardMemory --------------------------
(* Instances of DashboardMemory for TLC. *)
EXTENDS DashboardMemory, TLC

Symmetry == Permutations(Devs) \cup Permutations(Workers)
=============================================================================
