--------------------------- MODULE EmitterService ---------------------------
(***************************************************************************)
(* What an event emitter promises: emit calls the listeners the event has  *)
(* when the call begins, each once and in order, whatever the listeners do *)
(* to the lists meanwhile, also to the list being emitted.  A listener may *)
(* emit in turn, so emissions form a stack; each has its listeners still   *)
(* to be called.                                                           *)
(***************************************************************************)
EXTENDS Sequences, Sublists

CONSTANTS
    Events,
    Entries,     \* what a list may hold
    OneTime      \* the entries that leave their list when they have been called

VARIABLES
    lists,       \* lists[e]: the entries of event e, first to be called first
    emissions    \* the emissions under way, innermost first

vars == <<lists, emissions>>

\* An emission of event e: the entries still to be called, and the one that is
\* being called, if any.
Emission(e, rest, calling) == [event |-> e, rest |-> rest, calling |-> calling]

Init == /\ lists = [e \in Events |-> <<>>]
        /\ emissions = <<>>

Top == Head(emissions)

\* Script runs when no emission is under way, and in the called listener.
ScriptRuns == emissions # <<>> => Top.calling # <<>>

Without(list, x) == Sublist(list, Entries \ {x})

\* An entry is added to a list at either end.
Add(e, x) == /\ ScriptRuns
             /\ \/ lists' = [lists EXCEPT ![e] = Append(@, x)]
                \/ lists' = [lists EXCEPT ![e] = <<x>> \o @]
             /\ UNCHANGED emissions

Remove(e, x) == /\ ScriptRuns
                /\ lists' = [lists EXCEPT ![e] = Without(@, x)]
                /\ UNCHANGED emissions

RemoveAll(es) == /\ ScriptRuns
                 /\ lists' = [e \in Events |-> IF e \in es THEN <<>> ELSE lists[e]]
                 /\ UNCHANGED emissions

Begin(e) == /\ ScriptRuns
            /\ lists[e] # <<>>
            /\ emissions' = <<Emission(e, lists[e], <<>>)>> \o emissions
            /\ UNCHANGED lists

Call == /\ emissions # <<>> /\ Top.calling = <<>> /\ Top.rest # <<>>
        /\ emissions' = [emissions EXCEPT ![1] =
                            Emission(Top.event, Tail(Top.rest), <<Head(Top.rest)>>)]
        /\ UNCHANGED lists

\* The listener is back; if it threw, an emission of another event may begin.
Return == /\ emissions # <<>> /\ Top.calling # <<>>
          /\ lists' = IF Head(Top.calling) \in OneTime
                      THEN [lists EXCEPT ![Top.event] = Without(@, Head(Top.calling))]
                      ELSE lists
          /\ LET back == [emissions EXCEPT ![1].calling = <<>>]
             IN  \/ emissions' = back
                 \/ \E e \in Events \ {Top.event} :
                       emissions' = <<Emission(e, lists'[e], <<>>)>> \o back

Finish == /\ emissions # <<>> /\ Top.calling = <<>> /\ Top.rest = <<>>
          /\ emissions' = Tail(emissions)
          /\ UNCHANGED lists

Next == \/ \E e \in Events, x \in Entries : Add(e, x) \/ Remove(e, x)
        \/ \E es \in SUBSET Events : RemoveAll(es)
        \/ \E e \in Events : Begin(e)
        \/ Call
        \/ Return
        \/ Finish

Spec == Init /\ [][Next]_vars
=============================================================================
