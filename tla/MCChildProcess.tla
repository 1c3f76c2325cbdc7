--------------------------- MODULE MCChildProcess ---------------------------
(***************************************************************************)
(* Two children without a channel, or one that is forked.                  *)
(***************************************************************************)
EXTENDS ChildProcess

CONSTANTS c1, c2

Pairs ==
    {[c \in {c1, c2} |-> IF c = c1 THEN "exec" ELSE "spawn"],
     [c \in {c1, c2} |-> IF c = c1 THEN "unused" ELSE "fork"]}
=============================================================================
