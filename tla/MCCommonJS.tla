----------------------------- MODULE MCCommonJS -----------------------------
(* CommonJS on a small instance.  The modules may be exchanged; who was     *)
(* given a partial object is history that no property looks at.             *)
EXTENDS CommonJS, TLC

Symmetry == Permutations(Modules)

View == <<loading, frames, cache, runs, reloaded,
          [m \in Modules |-> {v \in given[m] : v.kind = "exports"}]>>
=============================================================================
