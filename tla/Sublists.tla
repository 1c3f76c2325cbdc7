------------------------------ MODULE Sublists ------------------------------
(* A part of a list, in the order of the list: what the loops that copy or   *)
(* move some of the entries of an array or of a queue leave.                 *)
EXTENDS Naturals, FiniteSets, Sequences

\* The entries of the list that are in S.
Sublist(list, S) ==
    LET kept == {i \in DOMAIN list : list[i] \in S}
        Rank(i) == Cardinality({j \in kept : j <= i})
    IN  [k \in 1 .. Cardinality(kept) |-> list[CHOOSE i \in kept : Rank(i) = k]]
=============================================================================
