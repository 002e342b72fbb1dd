-------------------------- MODULE MCGatewayRecorder --------------------------
(* Instances of GatewayRecorder for TLC. *)
EXTENDS GatewayRecorder
=============================================================================
