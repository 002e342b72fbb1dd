----------------------------- MODULE MCEventFeed -----------------------------
(* Instances of EventFeed for TLC. *)
EXTENDS EventFeed, TLC
=============================================================================
