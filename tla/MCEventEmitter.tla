--------------------------- MODULE MCEventEmitter ---------------------------
(* EventEmitter on a small instance.  What an unreachable array holds, and   *)
(* whether a wrapper that is gone was called, is not part of the state that  *)
(* matters: the view leaves it out.                                          *)
EXTENDS EventEmitter, TLC

Symmetry == Permutations(Arrays) \cup Permutations(Wrappers)

View == <<events, stack,
          [a \in Arrays |-> IF a \in Reachable THEN content[a] ELSE <<>>],
          {w \in called : ~Unused(w)}>>
=============================================================================
