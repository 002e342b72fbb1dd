------------------------------ MODULE MCFirstHop ------------------------------
(* Instances of FirstHop for TLC. *)
EXTENDS FirstHop

(* The two pollers meet in logq alone, where PutOther stands in for either: *)
(* long behaviours of both at once show nothing more.                       *)
NotBothLong == sent = 0 \/ (boot = 1 /\ current = 0)
=============================================================================
