-------------------------- MODULE MCDashboardCaches --------------------------
(* Instances of DashboardCaches for TLC. *)
EXTENDS DashboardCaches, TLC

Symmetry == Permutations(Threads) \cup Permutations(Gateways)
=============================================================================
