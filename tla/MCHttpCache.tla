---------------------------- MODULE MCHttpCache ----------------------------
(* Instances of HttpCache.                                                 *)
EXTENDS HttpCache, TLC

CONSTANTS u1, u2, u3, u4, b1, b2, b3, b4

\* u1 and u2 have the same hash.
Colliding == u1 :> b1 @@ u2 :> b1 @@ u3 :> b2 @@ u4 :> b3

\* Every url has its own bucket.
Separate == u1 :> b1 @@ u2 :> b2 @@ u3 :> b3 @@ u4 :> b4

Symmetry == Permutations(Nodes)
=============================================================================
