------------------------------ MODULE Listings ------------------------------
(***************************************************************************)
(* Sets put in order and sequences filtered.  Each operator is the set of  *)
(* its possible results, which has one member where the order is total.    *)
(***************************************************************************)
EXTENDS Naturals, SequencesExt

InOrder(S, Below(_, _)) ==
    {q \in SetToSeqs(S) : \A i, j \in DOMAIN q : i < j => Below(q[i], q[j])}

Filtered(s, Keeps(_)) ==
    LET kept == {i \in DOMAIN s : Keeps(s[i])}
    IN  {[k \in DOMAIN at |-> s[at[k]]] : at \in InOrder(kept, LAMBDA i, j : i < j)}
=============================================================================
