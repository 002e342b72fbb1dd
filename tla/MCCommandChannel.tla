-------------------------- MODULE MCCommandChannel --------------------------
(* Instances of CommandChannel for TLC. *)
EXTENDS CommandChannel, TLC

CONSTANTS r1, m1

KindOf == (r1 :> "reset") @@ (m1 :> "measure_off")

MCKind == [c \in Cmds |-> KindOf[c]]
=============================================================================
