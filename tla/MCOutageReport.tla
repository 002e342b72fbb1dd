---------------------------- MODULE MCOutageReport ----------------------------
(* Instances of OutageReport for TLC. *)
EXTENDS OutageReport, TLC
=============================================================================
