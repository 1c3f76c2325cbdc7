--------------------------- MODULE MCAbortSignals ---------------------------
(* The instance of AbortSignals for TLC.  Signals and nodes are only compared *)
(* with each other, so that their names may be exchanged.                     *)
EXTENDS AbortSignals, TLC

OneOrTwo == {S \in SUBSET Signals : Cardinality(S) \in 1 .. 2}

Symmetric == Permutations(Signals) \cup Permutations(Nodes)
=============================================================================
