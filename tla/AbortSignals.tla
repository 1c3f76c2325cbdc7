---------------------------- MODULE AbortSignals ----------------------------
(***************************************************************************)
(* AbortController, AbortSignal and the EventTarget under them             *)
(* (src/std/abort.c, src/std/event.c).  abort() marks the signal and all   *)
(* signals AbortSignal.any() made from it, then calls their listeners in   *)
(* four steps that read the arrays of dependents again and again, while    *)
(* the listeners abort other signals, combine them and change the listener *)
(* list that is being walked.                                              *)
(*                                                                         *)
(* The C stack is a sequence of frames, innermost first: a frame is what   *)
(* is left to do by one call.  A node is one JSRT_EventListener; the walk  *)
(* of a list holds a pointer to its node during the call.  A listener that *)
(* is added twice is added once, so that a node stands for its callback.   *)
(* Events of other types are left out: the walk passes over their nodes.   *)
(***************************************************************************)
EXTENDS Naturals, FiniteSets, SequencesExt

CONSTANTS
    Signals,       \* identities of AbortSignals
    Reasons,       \* what scripts give to abort()
    Nodes,         \* identities of listener nodes
    TimeoutError,  \* the reason of AbortSignal.timeout()
    Undefined,     \* the reason of a signal that is not aborted
    OnAbort,       \* the walk is at the onabort property
    Inputs,        \* sets of signals that scripts give to AbortSignal.any()
    Script,        \* a listener is the script's, not one that any() added
    Freed,         \* the walk is at a node that was freed
    MaxWalks       \* bound: dispatches under way at once

ASSUME SignalsAssumption ==
    /\ Undefined \notin Reasons \cup {TimeoutError}
    /\ Inputs \subseteq SUBSET Signals
    /\ Script \notin Signals
    /\ OnAbort \notin Nodes /\ Freed \notin Nodes /\ OnAbort # Freed
    /\ MaxWalks \in Nat

VARIABLES
    kind,        \* kind[s]: how the signal was made, "none" if it was not
    aborted,     \* aborted[s]
    reason,      \* reason[s]
    dependents,  \* dependents[s]: what any() made from s, in that order
    fired,       \* fired[s]: event_fired
    armed,       \* armed[s]: the timer of AbortSignal.timeout() runs
    list,        \* list[s]: the nodes of the signal's EventTarget
    node,        \* node[n]: what the listener does, and whether it is a once one
    stack,       \* the calls under way
    broken       \* freed memory has been used: what follows is undefined

signalVars == <<kind, aborted, reason, dependents, fired, armed>>
listVars == <<list, node>>
vars == <<signalVars, listVars, stack, broken>>

Kinds == {"none", "controller", "any", "timeout", "aborted"}

\* calls: the signal whose controller an internal listener aborts, or Script.
Blank == [calls |-> Script, once |-> FALSE]
Listeners == [calls : Signals \cup {Script}, once : BOOLEAN]

\* fire(s): FireEvent.  deps(s, i), nested(s, i): steps 3 and 4 of DoAbort from
\* the i-th dependent on.  tree(s, i): the loop of FireEventsRecursive.
Agenda == [op : {"fire", "deps", "nested", "tree"}, sig : Signals, i : Nat]

\* A dispatch: the node it is at, and whether that has been called.
Walks == [op : {"walk"}, sig : Signals, at : Nodes \cup {OnAbort, Freed},
          called : BOOLEAN]

Reason == Reasons \cup {TimeoutError, Undefined}

\* The variables have their types.
TypeOK ==
    /\ kind \in [Signals -> Kinds]
    /\ aborted \in [Signals -> BOOLEAN]
    /\ reason \in [Signals -> Reason]
    /\ dependents \in [Signals -> Seq(Signals)]
    /\ fired \in [Signals -> BOOLEAN]
    /\ armed \in [Signals -> BOOLEAN]
    /\ list \in [Signals -> Seq(Nodes)]
    /\ node \in [Nodes -> Listeners]
    /\ stack \in Seq(Agenda \cup Walks)
    /\ broken \in BOOLEAN

Init ==
    /\ kind = [s \in Signals |-> "none"]
    /\ aborted = [s \in Signals |-> FALSE]
    /\ reason = [s \in Signals |-> Undefined]
    /\ dependents = [s \in Signals |-> <<>>]
    /\ fired = [s \in Signals |-> FALSE]
    /\ armed = [s \in Signals |-> FALSE]
    /\ list = [s \in Signals |-> <<>>]
    /\ node = [n \in Nodes |-> Blank]
    /\ stack = <<>>
    /\ broken = FALSE

Top == Head(stack)
Rest == Tail(stack)
Item(op, s, i) == [op |-> op, sig |-> s, i |-> i]
Made == {s \in Signals : kind[s] # "none"}
Listed == UNION {ToSet(list[s]) : s \in Signals}

\* A loop that has come to the end of the array, and a FireEvent with nothing
\* to fire, return to their callers.
Through(f) ==
    \/ f.op \in {"deps", "nested", "tree"} /\ f.i > Len(dependents[f.sig])
    \/ f.op = "fire" /\ (~aborted[f.sig] \/ fired[f.sig])

Settled(frames) ==
    LET through == {k \in DOMAIN frames : \A j \in 1 .. k : Through(frames[j])}
    IN  SubSeq(frames, Cardinality(through) + 1, Len(frames))

\* What is left to do when the innermost call has returned.
Below == Settled(Rest)

AtScript(f) == f.at \in Nodes => node[f.at].calls = Script

\* Script is in control: at the top level, or in a listener.
ScriptRuns ==
    /\ ~broken
    /\ stack # <<>> => Top.op = "walk" /\ Top.called /\ AtScript(Top)

-----------------------------------------------------------------------------
(* The lists of listeners.                                                 *)

\* The walk f comes to node n; if that is one of the script's, script runs.
WalkAt(f, n) == [f EXCEPT !.at = n, !.called = node[n].calls = Script]

\* A walk over the list of s begins with onabort, or at its first node.
Walk(s) == [op |-> "walk", sig |-> s, at |-> OnAbort, called |-> TRUE]
WalkIfAny(s) == IF list[s] = <<>> THEN <<>> ELSE <<WalkAt(Walk(s), Head(list[s]))>>

\* free(): walks that are at node n are left with a dangling pointer.
FreeNode(frames, n) ==
    [k \in DOMAIN frames |->
        IF frames[k].op # "walk" THEN frames[k]
        ELSE [frames[k] EXCEPT !.at = IF @ = n THEN Freed ELSE @]]

\* Node n is unlinked from the list of s and freed.
Unlink(s, n) ==
    /\ list' = [list EXCEPT ![s] = RemoveFirst(@, n)]
    /\ node' = [node EXCEPT ![n] = Blank]

\* JSRT_EventTargetAddEventListener: at the end of the list.
AddListener(s, n, once) ==
    /\ ScriptRuns
    /\ s \in Made /\ n \in Nodes \ Listed
    /\ list' = [list EXCEPT ![s] = Append(@, n)]
    /\ node' = [node EXCEPT ![n] = [calls |-> Script, once |-> once]]
    /\ UNCHANGED <<signalVars, stack, broken>>

\* JSRT_EventTargetRemoveEventListener.  Script has no reference to the
\* listeners that any() adds.
RemoveListener(s, n) ==
    /\ ScriptRuns
    /\ n \in ToSet(list[s]) /\ node[n].calls = Script
    /\ Unlink(s, n)
    /\ stack' = FreeNode(stack, n)
    /\ UNCHANGED <<signalVars, broken>>

\* dispatchEvent called by script.
DispatchEvent(s) ==
    /\ ScriptRuns
    /\ s \in Made
    /\ Len(SelectSeq(stack, LAMBDA f : f.op = "walk")) < MaxWalks
    /\ stack' = WalkIfAny(s) \o stack
    /\ UNCHANGED <<signalVars, listVars, broken>>

-----------------------------------------------------------------------------
(* Making signals.                                                         *)

Make(s, k, isAborted, r) ==
    /\ ScriptRuns
    /\ kind[s] = "none"
    /\ kind' = [kind EXCEPT ![s] = k]
    /\ aborted' = [aborted EXCEPT ![s] = isAborted]
    /\ reason' = [reason EXCEPT ![s] = r]

\* new AbortController.
NewController(s) ==
    /\ Make(s, "controller", FALSE, Undefined)
    /\ UNCHANGED <<dependents, fired, armed, listVars, stack, broken>>

\* AbortSignal.abort(): aborted, and its event never fires.
NewAborted(s, r) ==
    /\ Make(s, "aborted", TRUE, r)
    /\ UNCHANGED <<dependents, fired, armed, listVars, stack, broken>>

\* AbortSignal.timeout(): a delay of zero starts no timer.
NewTimeout(s, isArmed) ==
    /\ Make(s, "timeout", FALSE, Undefined)
    /\ armed' = [armed EXCEPT ![s] = isArmed]
    /\ UNCHANGED <<dependents, fired, listVars, stack, broken>>

\* AbortSignal.any() of an array with an aborted signal: the signal of a new
\* controller that is aborted with the first such reason, nobody listening.
AnyAborted(s, inputs) ==
    /\ \E t \in inputs : aborted[t] /\ Make(s, "any", TRUE, reason[t])
    /\ fired' = [fired EXCEPT ![s] = TRUE]
    /\ UNCHANGED <<dependents, armed, listVars, stack, broken>>

\* Else a dependent of every input, which gets a listener that aborts the
\* controller of the result.
AnyPending(s, inputs) ==
    /\ \A t \in inputs : ~aborted[t]
    /\ Make(s, "any", FALSE, Undefined)
    /\ dependents' = [t \in Signals |->
          IF t \in inputs THEN Append(dependents[t], s) ELSE dependents[t]]
    /\ \E added \in [inputs -> Nodes \ Listed] :
          /\ IsInjective(added)
          /\ list' = [t \in Signals |->
                IF t \in inputs THEN Append(list[t], added[t]) ELSE list[t]]
          /\ node' = [n \in Nodes |->
                IF \E t \in inputs : added[t] = n THEN [calls |-> s, once |-> FALSE] ELSE node[n]]
    /\ UNCHANGED <<fired, armed, stack, broken>>

AnyOf(s, inputs) ==
    /\ inputs \subseteq Made
    /\ AnyAborted(s, inputs) \/ AnyPending(s, inputs)

-----------------------------------------------------------------------------
(* Aborting.                                                               *)

\* The signals that MarkAbortedRecursive marks from s on: it turns back at one
\* that is aborted already.
Spread(s) ==
    LET Closed(C) == \A c \in C : \A d \in ToSet(dependents[c]) : aborted[d] \/ d \in C
    IN  {d \in Signals : \A C \in SUBSET Signals : s \in C /\ Closed(C) => d \in C}

\* Mutant of Mark: only the direct dependents are marked.
MarkDirect(s, r) ==
    LET marked == {s} \cup {d \in ToSet(dependents[s]) : ~aborted[d]}
    IN  /\ aborted' = [d \in Signals |-> aborted[d] \/ d \in marked]
        /\ reason' = [d \in Signals |-> IF d \in marked THEN r ELSE reason[d]]

Mark(s, r) ==
    /\ aborted' = [d \in Signals |-> aborted[d] \/ d \in Spread(s)]
    /\ reason' = [d \in Signals |-> IF d \in Spread(s) THEN r ELSE reason[d]]

\* Mutants of DoAbort: step 4 is missing; step 4 comes before step 3.
DoAbortFlat(s, r, frames) ==
    /\ Mark(s, r)
    /\ stack' = <<Item("fire", s, 0), Item("deps", s, 1)>> \o frames

DoAbortDeepFirst(s, r, frames) ==
    /\ Mark(s, r)
    /\ stack' = <<Item("fire", s, 0), Item("nested", s, 1), Item("deps", s, 1)>> \o frames

\* DoAbort of a signal that is not aborted: everything is marked before the
\* first listener is called; frames is what is on the stack below.
DoAbort(s, r, frames) ==
    /\ Mark(s, r)
    /\ stack' = <<Item("fire", s, 0), Item("deps", s, 1), Item("nested", s, 1)>> \o frames

\* JSRT_AbortControllerAbort; on an aborted signal it does nothing.
Abort(s, r) ==
    /\ ScriptRuns
    /\ kind[s] = "controller" /\ ~aborted[s]
    /\ DoAbort(s, r, stack)
    /\ UNCHANGED <<kind, dependents, fired, armed, listVars, broken>>

\* jsrt_timeout_callback, called by the loop; the timer is closed.
TimeoutFires(s) ==
    /\ stack = <<>> /\ ~broken
    /\ armed[s]
    /\ armed' = [armed EXCEPT ![s] = FALSE]
    /\ DoAbort(s, TimeoutError, stack)
    /\ UNCHANGED <<kind, dependents, fired, listVars, broken>>

\* FireEvent: at most once, with onabort (if there is one) before the list.
FireEvent ==
    /\ stack # <<>> /\ Top.op = "fire"
    /\ LET s == Top.sig
       IN  IF Through(Top)
           THEN stack' = Below /\ UNCHANGED fired
           ELSE /\ fired' = [fired EXCEPT ![s] = TRUE]
                /\ \/ stack' = <<Walk(s)>> \o Rest
                   \/ stack' = Settled(WalkIfAny(s) \o Rest)
    /\ UNCHANGED <<kind, aborted, reason, dependents, armed, listVars, broken>>

\* Steps 3 and 4 of DoAbort and the loop of FireEventsRecursive: the count and
\* the array are read anew each time.
NextDependent ==
    /\ stack # <<>> /\ Top.op \in {"deps", "nested", "tree"}
    /\ LET d == dependents[Top.sig][Top.i]
           more == <<Item(Top.op, Top.sig, Top.i + 1)>>
           fire == <<Item("fire", d, 0)>>
           tree == <<Item("tree", d, 1)>>
       IN  stack' = CASE Through(Top) -> Below
                      [] OTHER -> Settled((CASE Top.op = "deps" -> fire
                                             [] Top.op = "nested" -> tree
                                             [] Top.op = "tree" -> IF aborted[d] THEN fire \o tree ELSE <<>>)
                                           \o more \o Rest)
    /\ UNCHANGED <<signalVars, listVars, broken>>

-----------------------------------------------------------------------------
(* JSRT_EventTargetDispatchEvent.                                          *)

\* The listener of any(): controller.abort(inputSignal.reason).
CallInternal ==
    /\ stack # <<>> /\ Top.op = "walk" /\ ~Top.called
    /\ Top.at \in Nodes /\ node[Top.at].calls # Script
    /\ LET d == node[Top.at].calls
           below == <<[Top EXCEPT !.called = TRUE]>> \o Rest
       IN  IF aborted[d]
           THEN stack' = below /\ UNCHANGED <<aborted, reason>>
           ELSE DoAbort(d, reason[Top.sig], below)
    /\ UNCHANGED <<kind, dependents, fired, armed, listVars, broken>>

\* The walk goes to the next node of the list as it is now, if there is one.
Onward(f) ==
    LET l == list[f.sig]
    IN  {WalkAt(f, l[k]) : k \in {j \in 2 .. Len(l) : l[j - 1] = f.at}}

\* The listener returns.  The next node is read from the node the walk is at;
\* then a once listener leaves the list.  stopImmediatePropagation() ends
\* the walk instead.
ListenerReturns(stop) ==
    /\ stack # <<>> /\ Top.op = "walk" /\ Top.called
    /\ Top.at \in Nodes
    /\ stop => AtScript(Top)
    /\ LET next == IF stop THEN {} ELSE Onward(Top)
           left == IF next = {} THEN Below ELSE <<CHOOSE f \in next : TRUE>> \o Rest
       IN  IF node[Top.at].once
           THEN /\ Unlink(Top.sig, Top.at)
                /\ stack' = FreeNode(left, Top.at)
           ELSE /\ stack' = left
                /\ UNCHANGED listVars
    /\ UNCHANGED <<signalVars, broken>>

\* The onabort handler is back, or has thrown, which is ignored.
HandlerReturns ==
    /\ stack # <<>> /\ Top.op = "walk" /\ Top.at = OnAbort
    /\ stack' = Settled(WalkIfAny(Top.sig) \o Rest)
    /\ UNCHANGED <<signalVars, listVars, broken>>

\* A listener throws: dispatchEvent returns at once, and a once listener stays.
ListenerThrows ==
    /\ stack # <<>> /\ Top.op = "walk" /\ Top.called
    /\ Top.at \in Nodes /\ AtScript(Top)
    /\ stack' = Below
    /\ UNCHANGED <<signalVars, listVars, broken>>

\* The listener's node has been freed during the call.  If it throws, nothing
\* is read; if it returns, its fields are.
FreedReturns ==
    /\ stack # <<>> /\ Top.op = "walk" /\ Top.at = Freed
    /\ \/ broken' = TRUE /\ UNCHANGED stack
       \/ stack' = Below /\ UNCHANGED broken
    /\ UNCHANGED <<signalVars, listVars>>

ScriptStep ==
    \E s \in Signals :
        \/ NewController(s)
        \/ \E b \in BOOLEAN : NewTimeout(s, b)
        \/ \E r \in Reasons : NewAborted(s, r) \/ Abort(s, r)
        \/ \E inputs \in Inputs : AnyOf(s, inputs)
        \/ DispatchEvent(s)
        \/ \E n \in Nodes : \/ RemoveListener(s, n)
                            \/ \E once \in BOOLEAN : AddListener(s, n, once)

NativeStep ==
    \/ \E s \in Signals : TimeoutFires(s)
    \/ FireEvent
    \/ NextDependent
    \/ CallInternal
    \/ \E stop \in BOOLEAN : ListenerReturns(stop)
    \/ HandlerReturns
    \/ ListenerThrows
    \/ FreedReturns

Next == ~broken /\ (ScriptStep \/ NativeStep)

Spec == Init /\ [][Next]_vars

-----------------------------------------------------------------------------
(* Properties.                                                             *)

\* Whatever script sees, at any point of any walk: when a signal is aborted,
\* so are all that any() made from it.
DependentsAborted ==
    \A s \in Signals : aborted[s] => \A d \in ToSet(dependents[s]) : aborted[d]

\* The signals that s was made from and is still linked with.
Sources(s) == {t \in Signals : s \in ToSet(dependents[t])}

\* When abort() is back, every signal that was aborted has had its event, though
\* listeners threw, aborted others or stopped the event.
AllFired ==
    stack = <<>> =>
        \A s \in Signals : aborted[s] /\ kind[s] # "aborted" => fired[s]

\* A dependent has its event only after one of its sources has.
SourceFirst ==
    \A d \in Signals :
        fired[d] /\ reason[d] # Undefined /\ Sources(d) # {} =>
            \E s \in Sources(d) : fired[s]
=============================================================================
