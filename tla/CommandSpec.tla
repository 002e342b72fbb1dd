---------------------------- MODULE CommandSpec ----------------------------
(***************************************************************************)
(* What the control command channel promises, without files, databases,    *)
(* caches or datagrams.  The server gives every command a place in one     *)
(* order; the gateway takes commands in that order, possibly skipping one  *)
(* that was replaced before it arrived, and takes none twice; the latest   *)
(* command is withdrawn only once the gateway has durably taken it.        *)
(***************************************************************************)
EXTENDS Naturals

CONSTANT Cmds          \* the identities of the commands ever issued

VARIABLES
    pos,               \* place of each command in the order, 0 before it has one
    nreg,              \* number of commands that have a place
    taken,             \* place of the last command the gateway has taken
    open               \* is the latest command still being delivered?

vars == <<pos, nreg, taken, open>>

Init ==
    /\ pos = [c \in Cmds |-> 0]
    /\ nreg = 0
    /\ taken = 0
    /\ open = FALSE

(* A command gets its place; it replaces the one being delivered. *)
Register(c) ==
    /\ pos[c] = 0
    /\ pos' = [pos EXCEPT ![c] = nreg + 1]
    /\ nreg' = nreg + 1
    /\ open' = TRUE
    /\ UNCHANGED taken

(* The gateway takes a command that comes after the last one it took. *)
Take(c) ==
    /\ pos[c] > taken
    /\ taken' = pos[c]
    /\ UNCHANGED <<pos, nreg, open>>

(* The latest command is withdrawn: the gateway has taken it. *)
Withdraw ==
    /\ open
    /\ taken = nreg
    /\ open' = FALSE
    /\ UNCHANGED <<pos, nreg, taken>>

Next ==
    \/ \E c \in Cmds : Register(c) \/ Take(c)
    \/ Withdraw

Spec == Init /\ [][Next]_vars
=============================================================================
