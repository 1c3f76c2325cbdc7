----------------------------- MODULE LruService -----------------------------
(***************************************************************************)
(* What a cache with LRU eviction promises: it holds at most MaxEntries    *)
(* entries in the order of their last use.  An entry that is used comes to *)
(* the front; a new one pushes out the last one if there is no room, and   *)
(* no other; any other entry that goes is one that has expired.            *)
(***************************************************************************)
EXTENDS Sequences, SequencesExt

CONSTANTS Urls, MaxEntries, None

VARIABLES
    order,  \* the keys of the entries, last used first
    served, \* the key last used, or None
    stale   \* which places in order hold expired entries: the clock says

vars == <<order, served>>

Init == order = <<>> /\ served = None

\* An entry that is found, though it may turn out to have just expired.
Used(i) ==
    /\ served' \in {order[i], served}
    /\ order' = <<order[i]>> \o RemoveAt(order, i)

Expired(i) ==
    /\ i \in stale
    /\ order' = RemoveAt(order, i)
    /\ UNCHANGED served

\* A key is added, in the place of an expired entry or after an eviction.
AddedTo(old, u) ==
    /\ served' = u
    /\ order' = <<u>> \o (IF Len(old) < MaxEntries THEN old ELSE Front(old))

Next ==
    \/ \E i \in DOMAIN order : Used(i) \/ Expired(i)
    \/ \E u \in Urls : AddedTo(order, u)
    \/ \E u \in Urls, i \in stale : AddedTo(RemoveAt(order, i), u)

Spec == Init /\ [][Next]_vars
=============================================================================
