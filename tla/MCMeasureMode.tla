---------------------------- MODULE MCMeasureMode ----------------------------
(* Instances of MeasureMode for TLC. *)
EXTENDS MeasureMode
=============================================================================
