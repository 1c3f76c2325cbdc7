---------------------------- MODULE EventEmitter ----------------------------
(***************************************************************************)
(* The EventEmitter of src/node/events.  The listeners of an event are a   *)
(* JavaScript array that emit reads while the listeners it calls change    *)
(* it: on() appends to the array in place, prependListener, removeListener *)
(* and the removal of a once wrapper put a new array in its stead, and     *)
(* removeAllListeners drops it.  emit holds on to the array it found and   *)
(* to the length it had.                                                   *)
(*                                                                         *)
(* Arrays are identities with contents, so that two emissions and _events  *)
(* may share one.  An entry is a listener function or a once wrapper; a    *)
(* wrapper has an identity of its own.  The global current_once_wrapper is *)
(* not modelled: emit sets it immediately before the call that reads it.   *)
(***************************************************************************)
EXTENDS Naturals, SequencesExt, Sublists

CONSTANTS
    Events,      \* event names; "error" is one of them
    Listeners,   \* the functions a script registers
    Wrappers,    \* identities of once wrappers
    Arrays,      \* identities of listener arrays
    NoArray,     \* _events has no property of that name
    MaxLength,   \* bound: entries of an array
    MaxDepth     \* bound: nesting of emissions

ASSUME EmitterAssumption ==
    /\ "error" \in Events
    /\ NoArray \notin Arrays
    /\ "none" \notin Wrappers
    /\ MaxLength \in Nat /\ MaxDepth \in Nat

VARIABLES
    events,    \* events[e]: the array of event e in _events, or NoArray
    content,   \* content[a]: the entries of array a
    stack,     \* the emissions under way, innermost first
    called     \* wrappers that have called their listener (history)

vars == <<events, content, stack, called>>

Entries == [listener : Listeners, wrapper : {"none"}]
             \cup [listener : Listeners, wrapper : Wrappers]
IsOnce(x) == x.wrapper # "none"

Frames == [event : Events, array : Arrays, length : Nat, next : Nat,
           calling : BOOLEAN]

\* The arrays reachable from _events and from the emissions.
Reachable == {events[e] : e \in Events} \cup {stack[k].array : k \in DOMAIN stack}
Free == Arrays \ Reachable

\* Frames and lists are of the right shape, and no emission reads beyond the
\* array it holds.
TypeOK ==
    /\ events \in [Events -> Arrays \cup {NoArray}]
    /\ content \in [Arrays -> Seq(Entries)]
    /\ stack \in Seq(Frames) /\ Len(stack) <= MaxDepth
    /\ called \subseteq Wrappers
    /\ \A k \in DOMAIN stack :
          stack[k].next <= stack[k].length
          /\ stack[k].length <= Len(content[stack[k].array])

Init ==
    /\ events = [e \in Events |-> NoArray]
    /\ content = [a \in Arrays |-> <<>>]
    /\ stack = <<>>
    /\ called = {}

Top == Head(stack)
ScriptRuns == stack # <<>> => Top.calling
List(e) == IF events[e] = NoArray THEN <<>> ELSE content[events[e]]

\* A wrapper that no array holds and that no running listener belongs to.
Unused(w) ==
    /\ \A a \in Reachable \ {NoArray}, l \in Listeners :
          [listener |-> l, wrapper |-> w] \notin ToSet(content[a])

\* A new array takes the place of the event's old one.
Replace(e, list) ==
    \E a \in Free :
        /\ events' = [events EXCEPT ![e] = a]
        /\ content' = [content EXCEPT ![a] = list]

-----------------------------------------------------------------------------
(* Registration.                                                           *)

\* js_event_emitter_on: append in place, to a new array if there is none.
AddAtEnd(e, x) ==
    /\ Len(List(e)) < MaxLength
    /\ IF events[e] = NoArray
       THEN Replace(e, <<x>>)
       ELSE /\ content' = [content EXCEPT ![events[e]] = Append(@, x)]
            /\ UNCHANGED events

\* Mutant of AddAtFront: the entries are shifted in place.
ShiftInPlace(e, x) ==
    /\ Len(List(e)) < MaxLength
    /\ IF events[e] = NoArray
       THEN Replace(e, <<x>>)
       ELSE /\ content' = [content EXCEPT ![events[e]] = <<x>> \o @]
            /\ UNCHANGED events

\* js_event_emitter_prepend_listener: always a new array.
AddAtFront(e, x) ==
    /\ Len(List(e)) < MaxLength
    /\ Replace(e, <<x>> \o List(e))

On(e, l) ==
    /\ ScriptRuns
    /\ AddAtEnd(e, [listener |-> l, wrapper |-> "none"])
    /\ UNCHANGED <<stack, called>>

PrependListener(e, l) ==
    /\ ScriptRuns
    /\ AddAtFront(e, [listener |-> l, wrapper |-> "none"])
    /\ UNCHANGED <<stack, called>>

\* once and prependOnceListener make a wrapper and add that.
WithWrapper(e, l, Add(_, _)) ==
    /\ ScriptRuns
    /\ \E w \in Wrappers :
          /\ Unused(w)
          /\ Add(e, [listener |-> l, wrapper |-> w])
          /\ called' = called \ {w}
    /\ UNCHANGED stack

Once(e, l) == WithWrapper(e, l, AddAtEnd)
PrependOnceListener(e, l) == WithWrapper(e, l, AddAtFront)

\* js_event_emitter_remove_listener drops every entry that is x itself.
RemoveEntry(e, x) ==
    IF events[e] = NoArray
    THEN UNCHANGED <<events, content>>
    ELSE Replace(e, Sublist(List(e), Entries \ {x}))

\* The script removes a function: a once wrapper around it is no match.
RemoveListener(e, l) ==
    /\ ScriptRuns
    /\ events[e] # NoArray
    /\ RemoveEntry(e, [listener |-> l, wrapper |-> "none"])
    /\ UNCHANGED <<stack, called>>

\* js_event_emitter_remove_all_listeners, of one event or of all.
RemoveAllListeners(es) ==
    /\ ScriptRuns
    /\ events' = [e \in Events |-> IF e \in es THEN NoArray ELSE events[e]]
    /\ UNCHANGED <<content, stack, called>>

-----------------------------------------------------------------------------
(* emit.                                                                   *)

Frame(e) == [event |-> e, array |-> events[e], length |-> Len(List(e)),
             next |-> 0, calling |-> FALSE]

\* js_event_emitter_emit finds the array and its length; with no listener it
\* returns false.
Emit(e) ==
    /\ ScriptRuns
    /\ Len(stack) < MaxDepth
    /\ List(e) # <<>>
    /\ stack' = <<Frame(e)>> \o stack
    /\ UNCHANGED <<events, content, called>>

\* The next listener of the innermost emission is called.
CallNext ==
    /\ stack # <<>> /\ ~Top.calling
    /\ Top.next < Top.length
    /\ stack' = [stack EXCEPT ![1].next = @ + 1, ![1].calling = TRUE]
    /\ LET x == content[Top.array][Top.next + 1]
       IN  called' = called \cup IF IsOnce(x) THEN {x.wrapper} ELSE {}
    /\ UNCHANGED <<events, content>>

Called == content[Top.array][Top.next]

\* once_wrapper_function removes the wrapper when the listener is back.
Unwrap == IF IsOnce(Called)
          THEN RemoveEntry(Top.event, Called)
          ELSE UNCHANGED <<events, content>>

ListenerReturns ==
    /\ stack # <<>> /\ Top.calling
    /\ Unwrap
    /\ stack' = [stack EXCEPT ![1].calling = FALSE]
    /\ UNCHANGED called

\* Mutant of ListenerThrows: the exception leaves the wrapper in its list.
ThrowsPastRemoval ==
    /\ stack # <<>> /\ Top.calling
    /\ Top.event # "error"
    /\ Len(stack) < MaxDepth \/ List("error") = <<>>
    /\ LET back == [stack EXCEPT ![1].calling = FALSE]
       IN  stack' = IF List("error") = <<>> THEN back ELSE <<Frame("error")>> \o back
    /\ UNCHANGED <<events, content, called>>

\* A listener that throws makes emit emit "error" before it goes on, unless
\* it is "error" that is being emitted.
ListenerThrows ==
    /\ stack # <<>> /\ Top.calling
    /\ Top.event # "error"
    /\ Unwrap
    /\ Len(stack) < MaxDepth \/ List("error")' = <<>>
    /\ LET back == [stack EXCEPT ![1].calling = FALSE]
       IN  stack' = IF List("error")' = <<>> THEN back ELSE <<Frame("error")'>> \o back
    /\ UNCHANGED called

EmitReturns ==
    /\ stack # <<>> /\ ~Top.calling
    /\ Top.next = Top.length
    /\ stack' = Tail(stack)
    /\ UNCHANGED <<events, content, called>>

Next ==
    \/ \E e \in Events, l \in Listeners :
          \/ On(e, l) \/ PrependListener(e, l)
          \/ Once(e, l) \/ PrependOnceListener(e, l)
          \/ RemoveListener(e, l)
    \/ \E es \in {{e} : e \in Events} \cup {Events} : RemoveAllListeners(es)
    \/ \E e \in Events : Emit(e)
    \/ CallNext
    \/ ListenerReturns
    \/ ListenerThrows
    \/ EmitReturns

Spec == Init /\ [][Next]_vars

-----------------------------------------------------------------------------
(* Properties.                                                             *)

\* A once wrapper that has been called, and whose listener is back, is no
\* longer on any list: not when the listener threw, not when it changed the
\* list itself, not when another emission removed entries meanwhile.
BeingCalled(w) ==
    \E k \in DOMAIN stack :
        stack[k].calling /\ content[stack[k].array][stack[k].next].wrapper = w

OnceRemoved ==
    \A w \in called : ~BeingCalled(w) =>
        \A e \in Events : \A x \in ToSet(List(e)) : x.wrapper # w

\* What the service sees: the lists, and what each emission has still to call.
Lists == [e \in Events |-> List(e)]

Emissions ==
    [k \in DOMAIN stack |->
       LET f == stack[k]
           a == content[f.array]
       IN  [event |-> f.event,
            rest |-> SubSeq(a, f.next + 1, f.length),
            calling |-> IF f.calling THEN <<a[f.next]>> ELSE <<>>]]

Service == INSTANCE EmitterService
              WITH OneTime <- {x \in Entries : IsOnce(x)},
                   lists <- Lists,
                   emissions <- Emissions

\* Each emission calls exactly the entries its event had when it began, in
\* order, although it reads an array that others append to and replace.
ImplementsEmitterService == Service!Spec
=============================================================================
