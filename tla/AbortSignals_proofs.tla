------------------------- MODULE AbortSignals_proofs -------------------------
(***************************************************************************)
(* Proofs about AbortSignals, for any set of signals and any nesting of    *)
(* dispatches: what any() made from an aborted signal is aborted, also in  *)
(* the middle of an abort() of many signals, and the first abort decides;  *)
(* no event is lost; and a dependent has its event after a source has.     *)
(*                                                                         *)
(* The first two rest on the marking of all signals before the first       *)
(* listener is called (DoAbort), and on what is not a dependent: signals   *)
(* that are yet to be made, and those of timers.  The other two rest on    *)
(* what each call on the stack is still to do: AllDue says that every      *)
(* event that is missing is due from one of them, Ordered that those that  *)
(* are above a call do all that it waits for.                              *)
(***************************************************************************)
EXTENDS AbortSignals, SequenceTheorems, FiniteSetTheorems, WellFoundedInduction,
        NaturalsInduction, TLAPS

\* The types of what the proofs are about.
SignalTypes ==
    /\ kind \in [Signals -> Kinds]
    /\ aborted \in [Signals -> BOOLEAN]
    /\ dependents \in [Signals -> Seq(Signals)]
    /\ armed \in [Signals -> BOOLEAN]
    /\ node \in [Nodes -> Listeners]

\* A signal that was not made is not aborted, and nothing depends on it.
Unmade == \A s \in Signals : kind[s] = "none" => ~aborted[s] /\ dependents[s] = <<>>

\* Dependents, and what internal listeners abort, were made by any().
OnlyAny ==
    /\ \A s \in Signals : \A d \in ToSet(dependents[s]) : kind[d] = "any"
    /\ \A n \in Nodes : node[n].calls # Script => kind[node[n].calls] = "any"

\* The timer of a signal runs until it aborts it.
TimersPending == \A s \in Signals : armed[s] => kind[s] = "timeout" /\ ~aborted[s]

IInv == SignalTypes /\ Unmade /\ OnlyAny /\ TimersPending /\ DependentsAborted

\* What is aborted stays so, with its reason.
ReasonKept == \A d \in Signals : aborted[d] => aborted'[d] /\ reason'[d] = reason[d]

-----------------------------------------------------------------------------

LEMMA SetOfAppended ==
    ASSUME NEW q \in Seq(Signals), NEW e \in Signals
    PROVE  ToSet(Append(q, e)) = ToSet(q) \cup {e}
<1>1. /\ Append(q, e) \in Seq(Signals) /\ Len(Append(q, e)) = Len(q) + 1
      /\ \A i \in 1 .. Len(q) : Append(q, e)[i] = q[i]
      /\ Append(q, e)[Len(q) + 1] = e
      /\ Len(q) \in Nat
  BY AppendProperties, LenProperties
<1>2. DOMAIN Append(q, e) = 1 .. Len(q) + 1 /\ DOMAIN q = 1 .. Len(q)
  BY <1>1, LenProperties
<1>3. 1 .. Len(q) + 1 = (1 .. Len(q)) \cup {Len(q) + 1}
  BY <1>1
<1> QED BY <1>1, <1>2, <1>3 DEF ToSet

LEMMA SetInSignals ==
    ASSUME NEW q \in Seq(Signals)
    PROVE  ToSet(q) \subseteq Signals
BY ElementOfSeq, LenProperties DEF ToSet

\* From s on, abort() marks nothing else but signals that any() made, and not
\* those that are aborted already.
LEMMA SpreadWhere ==
    ASSUME IInv, NEW s \in Signals, NEW d \in Spread(s)
    PROVE  d = s \/ (kind[d] = "any" /\ ~aborted[d])
<1> DEFINE C == {c \in Signals : c = s \/ (kind[c] = "any" /\ ~aborted[c])}
<1>1. ASSUME NEW c \in C, NEW e \in ToSet(dependents[c]) PROVE aborted[e] \/ e \in C
  <2>1. e \in Signals
    BY <1>1, SetInSignals DEF IInv, SignalTypes
  <2> QED BY <1>1, <2>1 DEF IInv, OnlyAny
<1>2. C \in SUBSET Signals /\ s \in C
  OBVIOUS
<1>3. d \in C
  BY <1>1, <1>2 DEF Spread
<1> QED BY <1>3

\* Marking what depends on a signal that was made and is not aborted.
LEMMA MarkKeeps ==
    ASSUME IInv, NEW s \in Signals, NEW r, Mark(s, r), UNCHANGED <<kind, dependents, node>>,
           kind[s] # "none", ~aborted[s],
           \/ UNCHANGED armed /\ kind[s] # "timeout"
           \/ armed' = [armed EXCEPT ![s] = FALSE]
    PROVE  IInv' /\ ReasonKept
<1>1. aborted' \in [Signals -> BOOLEAN] /\ armed' \in [Signals -> BOOLEAN]
  BY DEF Mark, IInv, SignalTypes
<1>2. SignalTypes'
  BY <1>1 DEF IInv, SignalTypes
<1>3. Unmade'
  <2> SUFFICES ASSUME NEW t \in Signals, kind[t] = "none" PROVE ~aborted'[t]
    BY DEF IInv, Unmade
  <2>1. t \notin Spread(s)
    BY SpreadWhere
  <2> QED BY <2>1 DEF Mark, IInv, Unmade
<1>4. OnlyAny'
  BY DEF IInv, OnlyAny
<1>5. TimersPending'
  <2> SUFFICES ASSUME NEW t \in Signals, armed'[t] PROVE kind[t] = "timeout" /\ ~aborted'[t]
    BY DEF TimersPending
  <2>1. armed[t] /\ t # s /\ kind[t] = "timeout" /\ ~aborted[t]
    BY DEF IInv, TimersPending, SignalTypes
  <2>2. t \notin Spread(s)
    BY <2>1, SpreadWhere
  <2> QED BY <2>1, <2>2 DEF Mark
<1>6. DependentsAborted'
  <2> SUFFICES ASSUME NEW t \in Signals, aborted'[t], NEW d \in ToSet(dependents[t])
               PROVE  aborted'[d]
    BY DEF DependentsAborted
  <2>1. d \in Signals
    BY SetInSignals DEF IInv, SignalTypes
  <2>2. aborted[t] \/ t \in Spread(s)
    BY DEF Mark
  <2>3. CASE aborted[t]
    <3>1. aborted[d]
      BY <2>3 DEF IInv, DependentsAborted
    <3> QED BY <2>1, <3>1 DEF Mark
  <2>4. CASE t \in Spread(s)
    <3>1. aborted[d] \/ d \in Spread(s)
      BY <2>1, <2>4 DEF Spread
    <3> QED BY <2>1, <3>1 DEF Mark
  <2> QED BY <2>2, <2>3, <2>4
<1>7. ReasonKept
  <2> SUFFICES ASSUME NEW d \in Signals, aborted[d] PROVE aborted'[d] /\ reason'[d] = reason[d]
    BY DEF ReasonKept
  <2>1. d \notin Spread(s)
    BY SpreadWhere
  <2> QED BY <2>1 DEF Mark
<1> QED BY <1>2, <1>3, <1>4, <1>5, <1>6, <1>7 DEF IInv

\* A signal is made that nothing depends on.
LEMMA MakeKeeps ==
    ASSUME IInv, NEW s \in Signals, NEW k \in Kinds \ {"none"}, NEW b \in BOOLEAN, NEW r,
           Make(s, k, b, r), UNCHANGED <<dependents, node>>,
           armed' = armed \/ (k = "timeout" /\ ~b /\ \E x \in BOOLEAN : armed' = [armed EXCEPT ![s] = x])
    PROVE  IInv' /\ ReasonKept
<1>1. kind[s] = "none" /\ ~aborted[s] /\ dependents[s] = <<>>
  BY DEF Make, IInv, Unmade
<1>2. SignalTypes'
  BY DEF Make, IInv, SignalTypes
<1>3. \A t \in Signals : t # s => kind'[t] = kind[t] /\ aborted'[t] = aborted[t] /\ reason'[t] = reason[t]
  BY DEF Make, IInv, SignalTypes
<1>4. kind'[s] = k /\ aborted'[s] = b
  BY DEF Make, IInv, SignalTypes
<1>5. Unmade'
  BY <1>3, <1>4 DEF IInv, Unmade
<1>6. \A t \in Signals : \A d \in ToSet(dependents[t]) : d \in Signals /\ d # s
  BY <1>1, SetInSignals DEF IInv, SignalTypes, OnlyAny
<1>7. \A n \in Nodes : node[n].calls # Script => node[n].calls \in Signals /\ node[n].calls # s
  BY <1>1 DEF IInv, SignalTypes, OnlyAny, Listeners
<1>8. OnlyAny'
  BY <1>3, <1>6, <1>7 DEF IInv, OnlyAny
<1>9. TimersPending'
  <2> SUFFICES ASSUME NEW t \in Signals, armed'[t] PROVE kind'[t] = "timeout" /\ ~aborted'[t]
    BY DEF TimersPending
  <2>1. CASE t = s
    BY <1>1, <1>4, <2>1 DEF IInv, TimersPending
  <2>2. CASE t # s
    BY <1>3, <2>2 DEF IInv, TimersPending, SignalTypes
  <2> QED BY <2>1, <2>2
<1>10. DependentsAborted'
  <2> SUFFICES ASSUME NEW t \in Signals, aborted'[t], NEW d \in ToSet(dependents[t])
               PROVE  aborted'[d]
    BY DEF DependentsAborted
  <2>1. t # s
    BY <1>1 DEF ToSet
  <2>2. aborted[d]
    BY <1>3, <2>1 DEF IInv, DependentsAborted
  <2> QED BY <1>3, <1>6, <2>2
<1>11. ReasonKept
  BY <1>1, <1>3 DEF ReasonKept
<1> QED BY <1>2, <1>5, <1>8, <1>9, <1>10, <1>11 DEF IInv

\* any() of signals that are not aborted: they get a new dependent.
LEMMA PendingKeeps ==
    ASSUME IInv, NEW s \in Signals, NEW inputs \in SUBSET Signals, inputs \subseteq Made, AnyPending(s, inputs)
    PROVE  IInv' /\ ReasonKept
<1>1. kind[s] = "none" /\ ~aborted[s] /\ dependents[s] = <<>> /\ s \notin inputs
  BY DEF AnyPending, Make, IInv, Unmade, Made
<1>2. kind' = [kind EXCEPT ![s] = "any"] /\ aborted' = aborted /\ armed' = armed
  <2>1. aborted' = [aborted EXCEPT ![s] = FALSE]
    BY DEF AnyPending, Make
  <2>2. aborted' = aborted
    BY <1>1, <2>1 DEF IInv, SignalTypes
  <2> QED BY <2>2 DEF AnyPending, Make
<1>3. \A t \in Signals : dependents'[t] = IF t \in inputs THEN Append(dependents[t], s) ELSE dependents[t]
  BY DEF AnyPending
<1>4. \A t \in Signals : ToSet(dependents'[t]) = IF t \in inputs THEN ToSet(dependents[t]) \cup {s} ELSE ToSet(dependents[t])
  BY <1>3, SetOfAppended DEF IInv, SignalTypes
<1>5. \A n \in Nodes : node'[n] = node[n] \/ node'[n] = [calls |-> s, once |-> FALSE]
  BY DEF AnyPending
<1>6. SignalTypes'
  <2>1. kind' \in [Signals -> Kinds]
    BY <1>2 DEF IInv, SignalTypes, Kinds
  <2>2. dependents' \in [Signals -> Seq(Signals)]
    <3>1. \A t \in Signals : Append(dependents[t], s) \in Seq(Signals)
      BY AppendProperties DEF IInv, SignalTypes
    <3> QED BY <3>1 DEF AnyPending, IInv, SignalTypes
  <2>3. node' \in [Nodes -> Listeners]
    <3>1. [calls |-> s, once |-> FALSE] \in Listeners
      BY DEF Listeners
    <3> QED BY <3>1 DEF AnyPending, IInv, SignalTypes
  <2> QED BY <1>2, <2>1, <2>2, <2>3 DEF IInv, SignalTypes
<1>7. \A t \in Signals : kind'[t] = IF t = s THEN "any" ELSE kind[t]
  BY <1>2 DEF IInv, SignalTypes
<1>8. Unmade'
  <2> SUFFICES ASSUME NEW t \in Signals, kind'[t] = "none" PROVE ~aborted'[t] /\ dependents'[t] = <<>>
    BY DEF Unmade
  <2>1. kind[t] = "none" /\ t \notin inputs
    BY <1>7 DEF Made
  <2> QED BY <1>2, <1>3, <2>1 DEF IInv, Unmade
<1>9. OnlyAny'
  <2>1. ASSUME NEW t \in Signals, NEW d \in ToSet(dependents'[t]) PROVE kind'[d] = "any"
    <3>1. d = s \/ d \in ToSet(dependents[t])
      BY <1>4, <2>1
    <3>2. d \in ToSet(dependents[t]) => d \in Signals /\ kind[d] = "any"
      BY SetInSignals DEF IInv, SignalTypes, OnlyAny
    <3> QED BY <1>7, <3>1, <3>2
  <2>2. ASSUME NEW n \in Nodes, node'[n].calls # Script PROVE kind'[node'[n].calls] = "any"
    <3>1. CASE node'[n] = node[n]
      BY <1>7, <2>2, <3>1 DEF IInv, OnlyAny, SignalTypes, Listeners
    <3>2. CASE node'[n] = [calls |-> s, once |-> FALSE]
      BY <1>7, <3>2
    <3> QED BY <1>5, <3>1, <3>2
  <2> QED BY <2>1, <2>2 DEF OnlyAny
<1>10. TimersPending'
  BY <1>1, <1>2, <1>7 DEF IInv, TimersPending
<1>11. DependentsAborted'
  <2> SUFFICES ASSUME NEW t \in Signals, aborted[t], NEW d \in ToSet(dependents'[t]) PROVE aborted[d]
    BY <1>2 DEF DependentsAborted
  <2>1. t \notin inputs
    BY DEF AnyPending
  <2> QED BY <1>4, <2>1 DEF IInv, DependentsAborted
<1>12. ReasonKept
  BY <1>1, <1>2 DEF ReasonKept, AnyPending, Make
<1> QED BY <1>6, <1>8, <1>9, <1>10, <1>11, <1>12 DEF IInv

\* The list of listeners changes, or only the stack.
LEMMA ListKeeps ==
    ASSUME IInv, UNCHANGED <<kind, aborted, reason, dependents, armed>>,
           \/ UNCHANGED node
           \/ \E n \in Nodes : node' = [node EXCEPT ![n] = Blank]
           \/ \E n \in Nodes, b \in BOOLEAN : node' = [node EXCEPT ![n] = [calls |-> Script, once |-> b]]
    PROVE  IInv' /\ ReasonKept
<1>1. \A b \in BOOLEAN : [calls |-> Script, once |-> b] \in Listeners /\ Blank \in Listeners
  BY DEF Listeners, Blank
<1>2. node' \in [Nodes -> Listeners]
  BY <1>1 DEF IInv, SignalTypes
<1>3. \A n \in Nodes : node'[n] = node[n] \/ node'[n].calls = Script
  BY DEF IInv, SignalTypes, Blank
<1>4. SignalTypes' /\ Unmade' /\ TimersPending' /\ DependentsAborted' /\ ReasonKept
  BY <1>2 DEF IInv, SignalTypes, Unmade, TimersPending, DependentsAborted, ReasonKept
<1>5. OnlyAny'
  BY <1>3 DEF IInv, OnlyAny
<1> QED BY <1>4, <1>5 DEF IInv

-----------------------------------------------------------------------------

LEMMA InitInv == Init => IInv
<1> SUFFICES ASSUME Init PROVE IInv
  OBVIOUS
<1>1. SignalTypes
  BY EmptySeq DEF Init, SignalTypes, Kinds, Listeners, Blank
<1>2. \A s \in Signals : ToSet(dependents[s]) = {}
  BY DEF Init, ToSet
<1>3. OnlyAny /\ DependentsAborted
  BY <1>2 DEF Init, OnlyAny, DependentsAborted, Blank
<1> QED BY <1>1, <1>3 DEF Init, IInv, Unmade, TimersPending

\* Every step keeps the invariant, and what is aborted with its reason.
LEMMA StepInv == IInv /\ [Next]_vars => IInv' /\ ReasonKept
<1> SUFFICES ASSUME IInv, [Next]_vars PROVE IInv' /\ ReasonKept
  OBVIOUS
<1>1. CASE UNCHANGED vars
  BY <1>1, ListKeeps DEF vars, signalVars, listVars
<1>2. ASSUME NEW s \in Signals, NewController(s) PROVE IInv' /\ ReasonKept
  BY <1>2, MakeKeeps DEF NewController, listVars, Kinds
<1>3. ASSUME NEW s \in Signals, NEW b \in BOOLEAN, NewTimeout(s, b) PROVE IInv' /\ ReasonKept
  BY <1>3, MakeKeeps DEF NewTimeout, listVars, Kinds
<1>4. ASSUME NEW s \in Signals, NEW r \in Reasons, NewAborted(s, r) PROVE IInv' /\ ReasonKept
  BY <1>4, MakeKeeps DEF NewAborted, listVars, Kinds
<1>5. ASSUME NEW s \in Signals, NEW r \in Reasons, Abort(s, r) PROVE IInv' /\ ReasonKept
  BY <1>5, MarkKeeps DEF Abort, DoAbort, listVars
<1>6. ASSUME NEW s \in Signals, NEW inputs \in Inputs, AnyOf(s, inputs) PROVE IInv' /\ ReasonKept
  <2>1. inputs \in SUBSET Signals /\ inputs \subseteq Made
    BY <1>6, SignalsAssumption DEF AnyOf
  <2>2. CASE AnyAborted(s, inputs)
    BY <2>2, MakeKeeps DEF AnyAborted, listVars, Kinds
  <2>3. CASE AnyPending(s, inputs)
    BY <2>1, <2>3, PendingKeeps
  <2> QED BY <1>6, <2>2, <2>3 DEF AnyOf
<1>7. ASSUME NEW s \in Signals,
             \/ DispatchEvent(s)
             \/ \E n \in Nodes : RemoveListener(s, n) \/ \E once \in BOOLEAN : AddListener(s, n, once)
      PROVE  IInv' /\ ReasonKept
  <2>1. CASE DispatchEvent(s)
    BY <2>1, ListKeeps DEF DispatchEvent, signalVars, listVars
  <2>2. ASSUME NEW n \in Nodes, RemoveListener(s, n) PROVE IInv' /\ ReasonKept
    BY <2>2, ListKeeps DEF RemoveListener, Unlink, signalVars
  <2>3. ASSUME NEW n \in Nodes, NEW once \in BOOLEAN, AddListener(s, n, once) PROVE IInv' /\ ReasonKept
    BY <2>3, ListKeeps DEF AddListener, signalVars
  <2> QED BY <1>7, <2>1, <2>2, <2>3
<1>8. ASSUME NEW s \in Signals, TimeoutFires(s) PROVE IInv' /\ ReasonKept
  <2>1. kind[s] = "timeout" /\ ~aborted[s]
    BY <1>8 DEF TimeoutFires, IInv, TimersPending
  <2> QED BY <1>8, <2>1, MarkKeeps DEF TimeoutFires, DoAbort, listVars
<1>9. CASE FireEvent \/ NextDependent \/ HandlerReturns \/ ListenerThrows \/ FreedReturns
  BY <1>9, ListKeeps DEF FireEvent, NextDependent, HandlerReturns, ListenerThrows, FreedReturns,
     signalVars, listVars
<1>10. CASE CallInternal
  <2> DEFINE d == node[Top.at].calls
  <2>1. d \in Signals /\ kind[d] = "any"
    BY <1>10 DEF CallInternal, IInv, SignalTypes, OnlyAny, Listeners
  <2>2. CASE aborted[d]
    BY <1>10, <2>2, ListKeeps DEF CallInternal, listVars
  <2>3. CASE ~aborted[d]
    BY <1>10, <2>1, <2>3, MarkKeeps DEF CallInternal, DoAbort, listVars
  <2> QED BY <2>2, <2>3
<1>11. ASSUME NEW stop \in BOOLEAN, ListenerReturns(stop) PROVE IInv' /\ ReasonKept
  BY <1>11, ListKeeps DEF ListenerReturns, Unlink, signalVars, listVars
<1> QED
  BY <1>1, <1>2, <1>3, <1>4, <1>5, <1>6, <1>7, <1>8, <1>9, <1>10, <1>11
  DEF Next, ScriptStep, NativeStep

\* At any point of any walk, whatever listeners do, the dependents of an
\* aborted signal are aborted (JSRT_AbortSignal_MarkAbortedRecursive).
THEOREM AllDependentsAborted == Spec => []DependentsAborted
<1>1. Init => IInv
  BY InitInv
<1>2. IInv /\ [Next]_vars => IInv'
  BY StepInv
<1>3. IInv => DependentsAborted
  BY DEF IInv
<1> QED BY <1>1, <1>2, <1>3, PTL DEF Spec

\* An aborted signal stays so, with the reason it got first (the guards of
\* JSRT_AbortSignal_DoAbort and JSRT_AbortSignal_MarkAbortedRecursive).
THEOREM FirstReasonKept == Spec => [][ReasonKept]_vars
<1>1. Init => IInv
  BY InitInv
<1>2. IInv /\ [Next]_vars => IInv'
  BY StepInv
<1>3. IInv /\ [Next]_vars => [ReasonKept]_vars
  BY StepInv
<1> QED BY <1>1, <1>2, <1>3, PTL DEF Spec

-----------------------------------------------------------------------------
(* Every event is due.                                                     *)

\* The dependents of t from the i-th on, and those of the signals in A.
Deps(t, i) == {dependents[t][k] : k \in {j \in DOMAIN dependents[t] : i <= j}}
DepsOf(A) == UNION {ToSet(dependents[t]) : t \in A}

\* All that depend on signals of A, with those of A.
Closed(C) == DepsOf(C) \subseteq C
Tree(A) == {d \in Signals : \A C \in SUBSET Signals : A \subseteq C /\ Closed(C) => d \in C}

Loops == {"deps", "nested", "tree"}

\* The signals that get their event from what is left to do by one call.
Due(f) ==
    CASE f.op = "fire" -> {f.sig}
      [] f.op = "deps" -> Deps(f.sig, f.i)
      [] f.op = "nested" -> Tree(DepsOf(Deps(f.sig, f.i)))
      [] f.op = "tree" -> Tree(Deps(f.sig, f.i))
      [] OTHER -> {}

\* The calls under way are those of dispatches, and of aborted signals.
StackTypes ==
    /\ list \in [Signals -> Seq(Nodes)] /\ fired \in [Signals -> BOOLEAN]
    /\ stack \in Seq(Agenda \cup Walks)
    /\ \A f \in ToSet(stack) : f.op # "walk" => aborted[f.sig] /\ (f.op \in Loops => 1 <= f.i)

\* Whoever is aborted and has not had its event gets it from one of the calls.
Waiting(s) == aborted[s] /\ kind[s] # "aborted" /\ ~fired[s]
AllDue == \A s \in Signals : Waiting(s) => \E f \in ToSet(stack) : s \in Due(f)

LEMMA LeastNat ==
    ASSUME NEW T \in SUBSET Nat, T # {}
    PROVE  \E x \in T : \A y \in T : x <= y
<1>1. IsWellFoundedOn(OpToRel(<, Nat), Nat)
  BY NatLessThanWellFounded
<1>2. PICK x \in T : \A y \in T : ~(<<y, x>> \in OpToRel(<, Nat))
  BY <1>1, WFMin
<1>3. \A y \in T : ~(y < x)
  BY <1>2 DEF OpToRel
<1> QED BY <1>3

LEMMA SetOfOne == \A f : ToSet(<<f>>) = {f} /\ ToSet(<<>>) = {}
BY DEF ToSet

LEMMA OneCall ==
    ASSUME NEW S, NEW f \in S
    PROVE  <<f>> \in Seq(S) /\ ToSet(<<f>>) = {f}
<1>1. ToSet(<<f>>) = {f}
  BY SetOfOne
<1>2. <<f>> \in Seq(S)
  OBVIOUS
<1> QED BY <1>1, <1>2

LEMMA SetOfConcat ==
    ASSUME NEW S, NEW p \in Seq(S), NEW q \in Seq(S)
    PROVE  p \o q \in Seq(S) /\ ToSet(p \o q) = ToSet(p) \cup ToSet(q)
<1>1. PICK m \in Nat, n \in Nat : m = Len(p) /\ n = Len(q)
  BY LenProperties
<1>0. PICK r : r = p \o q
  OBVIOUS
<1>2. DOMAIN p = 1 .. m /\ DOMAIN q = 1 .. n /\ DOMAIN r = 1 .. m + n /\ r \in Seq(S)
  BY <1>0, <1>1, ConcatProperties, LenProperties
<1>3. \A i \in 1 .. m + n : (i <= m => r[i] = p[i]) /\ (~(i <= m) => r[i] = q[i - m])
  BY <1>0, <1>1, ConcatProperties
<1> HIDE <1>0
<1>4. \A i \in 1 .. m : i \in 1 .. m + n /\ r[i] = p[i]
  BY <1>3
<1>5. ASSUME NEW i \in 1 .. n PROVE m + i \in 1 .. m + n /\ r[m + i] = q[i]
  <2>1. m + i \in 1 .. m + n /\ ~(m + i <= m) /\ (m + i) - m = i
    OBVIOUS
  <2>2. r[m + i] = q[(m + i) - m]
    BY <1>3, <2>1
  <2> QED BY <2>1, <2>2
<1>6. \A i \in 1 .. m + n : i \in 1 .. m \/ (i - m \in 1 .. n /\ r[i] = q[i - m])
  BY <1>3
<1>7. \A x \in ToSet(r) : x \in ToSet(p) \cup ToSet(q)
  BY <1>2, <1>4, <1>6 DEF ToSet
<1>8. \A x \in ToSet(p) \cup ToSet(q) : x \in ToSet(r)
  BY <1>2, <1>4, <1>5 DEF ToSet
<1> QED BY <1>0, <1>2, <1>7, <1>8

LEMMA SetOfTail ==
    ASSUME NEW S, NEW q \in Seq(S), q # <<>>
    PROVE  /\ Head(q) \in S /\ Tail(q) \in Seq(S)
           /\ ToSet(q) = {Head(q)} \cup ToSet(Tail(q))
<1>1. Head(q) \in S /\ Tail(q) \in Seq(S) /\ <<Head(q)>> \o Tail(q) = q /\ <<Head(q)>> \in Seq(S)
  BY HeadTailProperties, ConcatSimplifications
<1>2. ToSet(<<Head(q)>> \o Tail(q)) = ToSet(<<Head(q)>>) \cup ToSet(Tail(q))
  BY <1>1, SetOfConcat
<1> QED BY <1>1, <1>2, SetOfOne

\* A call that goes on with something, or a walk of a list.
Goes(f) == f.op # "walk" /\ ~Through(f)
Going(q) == {f \in ToSet(q) : Goes(f)}

\* Settled takes from the front what is through.
LEMMA SettledFront ==
    ASSUME NEW S, NEW q \in Seq(S)
    PROVE  \E m \in Nat : /\ m <= Len(q) /\ Settled(q) = SubSeq(q, m + 1, Len(q))
                          /\ \A k \in 1 .. m : Through(q[k])
<1> DEFINE T == {k \in DOMAIN q : \A j \in 1 .. k : Through(q[j])}
           B == {k \in DOMAIN q : ~Through(q[k])}
<1>1. PICK n \in Nat : n = Len(q) /\ DOMAIN q = 1 .. n
  BY LenProperties
<1>2. \E m \in Nat : m <= n /\ T = 1 .. m
  <2>1. CASE B = {}
    <3>1. T = 1 .. n
      BY <1>1, <2>1
    <3> QED BY <3>1
  <2>2. CASE B # {}
    <3>1. B \in SUBSET Nat
      BY <1>1
    <3> HIDE DEF B
    <3>2. PICK x \in B : \A y \in B : x <= y
      BY <2>2, <3>1, LeastNat
    <3> USE DEF B
    <3>3. x \in Nat /\ x - 1 \in Nat /\ x - 1 <= n /\ x \in 1 .. n /\ ~Through(q[x])
      BY <1>1, <3>2
    <3>4. \A k \in 1 .. x - 1 : k \in DOMAIN q /\ Through(q[k])
      BY <1>1, <3>2, <3>3
    <3>5. \A k \in T : k \in 1 .. x - 1
      BY <1>1, <3>3
    <3>6. \A k \in 1 .. x - 1 : \A j \in 1 .. k : j \in 1 .. x - 1
      BY <3>3
    <3>7. \A k \in 1 .. x - 1 : k \in T
      BY <3>4, <3>6
    <3>8. T = 1 .. x - 1
      BY <3>5, <3>7
    <3> QED BY <3>3, <3>8
  <2> QED BY <2>1, <2>2
<1>3. PICK m \in Nat : m <= n /\ T = 1 .. m
  BY <1>2
<1>4. Cardinality(T) = m
  <2>1. Cardinality(1 .. m) = m
    BY FS_Interval
  <2> QED BY <1>3, <2>1
<1>5. Settled(q) = SubSeq(q, m + 1, Len(q))
  BY <1>4 DEF Settled
<1>6. \A k \in 1 .. m : k \in T /\ k \in 1 .. k
  BY <1>3
<1> QED BY <1>1, <1>3, <1>5, <1>6

\* The elements of q from one place to another.
Between(q, from, to) == {q[i] : i \in from .. to}

\* What SubSeq leaves out at the front, and at the end.
LEMMA SliceAt ==
    ASSUME NEW S, NEW q \in Seq(S), NEW m \in Nat, NEW n \in Nat, m <= n, n <= Len(q)
    PROVE  /\ SubSeq(q, m + 1, n) \in Seq(S)
           /\ DOMAIN SubSeq(q, m + 1, n) = 1 .. n - m
           /\ \A i \in 1 .. n - m : m + i \in DOMAIN q /\ SubSeq(q, m + 1, n)[i] = q[m + i]
<1>1. PICK h \in Nat : h = Len(q) /\ DOMAIN q = 1 .. h
  BY LenProperties
<1>2. PICK r : r = SubSeq(q, m + 1, n)
  OBVIOUS
<1>3. r \in Seq(S) /\ DOMAIN r = 1 .. n - m /\ \A i \in 1 .. n - m : r[i] = q[m + i]
  <2>1. m + 1 \in 1 .. h + 1 /\ n \in m + 1 - 1 .. h
    BY <1>1
  <2>2. /\ SubSeq(q, m + 1, n) \in Seq(S)
        /\ Len(SubSeq(q, m + 1, n)) = (IF m + 1 <= n THEN n - (m + 1) + 1 ELSE 0)
        /\ \A i \in 1 .. n - (m + 1) + 1 : SubSeq(q, m + 1, n)[i] = q[m + 1 + i - 1]
    BY <1>1, <2>1, SubSeqProperties
  <2>3. Len(r) = n - m
    BY <1>2, <2>2
  <2>4. \A i \in 1 .. n - m : i \in 1 .. n - (m + 1) + 1 /\ m + 1 + i - 1 = m + i
    OBVIOUS
  <2> QED BY <1>2, <2>2, <2>3, <2>4, LenProperties
<1>4. \A i \in 1 .. n - m : m + i \in DOMAIN q
  BY <1>1
<1> QED BY <1>2, <1>3, <1>4

LEMMA SliceIs ==
    ASSUME NEW S, NEW q \in Seq(S), NEW m \in Nat, NEW n \in Nat, m <= n, n <= Len(q)
    PROVE  SubSeq(q, m + 1, n) \in Seq(S) /\ ToSet(SubSeq(q, m + 1, n)) = Between(q, m + 1, n)
<1>0. PICK r : r = SubSeq(q, m + 1, n)
  OBVIOUS
<1>1. r \in Seq(S) /\ DOMAIN r = 1 .. n - m /\ \A i \in 1 .. n - m : r[i] = q[m + i]
  BY <1>0, SliceAt
<1>2. \A i \in 1 .. n - m : m + i \in m + 1 .. n
  OBVIOUS
<1>3. \A k \in m + 1 .. n : k - m \in 1 .. n - m /\ m + (k - m) = k
  OBVIOUS
<1>4. \A i \in 1 .. n - m : r[i] \in {q[k] : k \in m + 1 .. n}
  BY <1>1, <1>2
<1>5. \A k \in m + 1 .. n : q[k] \in {r[i] : i \in 1 .. n - m}
  BY <1>1, <1>3
<1>6. ToSet(r) = {q[k] : k \in m + 1 .. n}
  BY <1>1, <1>4, <1>5 DEF ToSet
<1> QED BY <1>0, <1>1, <1>6 DEF Between

LEMMA SettledGoing ==
    ASSUME NEW S, NEW q \in Seq(S)
    PROVE  Settled(q) \in Seq(S) /\ ToSet(Settled(q)) \subseteq ToSet(q) /\ Going(Settled(q)) = Going(q)
<1>1. PICK n \in Nat : n = Len(q) /\ DOMAIN q = 1 .. n
  BY LenProperties
<1>2. PICK m \in Nat : m <= n /\ Settled(q) = SubSeq(q, m + 1, n) /\ \A k \in 1 .. m : Through(q[k])
  BY <1>1, SettledFront
<1>a. Settled(q) \in Seq(S) /\ ToSet(Settled(q)) = Between(q, m + 1, n)
  <2>1. n <= Len(q)
    BY <1>1
  <2> QED BY <1>2, <2>1, SliceIs
<1>3. Settled(q) \in Seq(S) /\ ToSet(Settled(q)) = {q[i] : i \in m + 1 .. n}
  BY <1>a DEF Between
<1>4. ToSet(Settled(q)) \subseteq ToSet(q)
  BY <1>1, <1>2, <1>3 DEF ToSet
<1>5. \A k \in 1 .. n : k \in 1 .. m \/ k \in m + 1 .. n
  BY <1>2
<1>6. \A x \in ToSet(q) : Through(x) \/ x \in ToSet(Settled(q))
  BY <1>1, <1>2, <1>3, <1>5 DEF ToSet
<1> QED BY <1>3, <1>4, <1>6 DEF Going, Goes

\* free() of a node touches only the walks.
LEMMA FreedWalks ==
    ASSUME NEW q \in Seq(Agenda \cup Walks), NEW n \in Nodes
    PROVE  /\ FreeNode(q, n) \in Seq(Agenda \cup Walks) /\ Len(FreeNode(q, n)) = Len(q)
           /\ \A k \in DOMAIN q : IF q[k].op # "walk" THEN FreeNode(q, n)[k] = q[k]
                                   ELSE /\ FreeNode(q, n)[k].op = "walk"
                                        /\ FreeNode(q, n)[k].sig = q[k].sig
                                        /\ FreeNode(q, n)[k].at # n
                                        /\ FreeNode(q, n)[k].at \in Nodes => FreeNode(q, n)[k].at = q[k].at
           /\ Going(FreeNode(q, n)) = Going(q)
           /\ \A f \in ToSet(FreeNode(q, n)) : f.op # "walk" => f \in ToSet(q)
<1>1. DOMAIN q = 1 .. Len(q) /\ Len(q) \in Nat /\ \A k \in DOMAIN q : q[k] \in Agenda \cup Walks
  BY LenProperties, ElementOfSeq
<1>2. PICK p : p = FreeNode(q, n)
  OBVIOUS
<1>3. DOMAIN p = DOMAIN q
  BY <1>2 DEF FreeNode
<1>4. ASSUME NEW k \in DOMAIN q, q[k].op # "walk" PROVE p[k] = q[k]
  BY <1>2, <1>4 DEF FreeNode
<1>5. ASSUME NEW k \in DOMAIN q, q[k].op = "walk"
      PROVE  /\ p[k] \in Walks /\ p[k].op = "walk" /\ p[k].sig = q[k].sig
             /\ p[k].at # n /\ (p[k].at \in Nodes => p[k].at = q[k].at)
  <2>1. q[k] \in Walks
    BY <1>1, <1>5 DEF Agenda, Walks
  <2>2. p[k] = [q[k] EXCEPT !.at = IF q[k].at = n THEN Freed ELSE q[k].at]
    BY <1>2, <1>5 DEF FreeNode
  <2>3. PICK a : a = IF q[k].at = n THEN Freed ELSE q[k].at
    OBVIOUS
  <2>4. a \in Nodes \cup {OnAbort, Freed} /\ a # n /\ (a \in Nodes => a = q[k].at)
    BY <2>1, <2>3, SignalsAssumption DEF Walks
  <2>5. p[k] = [q[k] EXCEPT !.at = a]
    BY <2>2, <2>3
  <2> QED BY <2>1, <2>4, <2>5 DEF Walks
<1>6. p \in Seq(Agenda \cup Walks) /\ Len(p) = Len(q)
  <2>1. \A k \in 1 .. Len(q) : p[k] \in Agenda \cup Walks
    BY <1>1, <1>4, <1>5
  <2>2. p = [k \in 1 .. Len(q) |-> p[k]]
    BY <1>1, <1>2 DEF FreeNode
  <2>3. p \in Seq(Agenda \cup Walks)
    BY <1>1, <2>1, <2>2, IsASeq
  <2> QED BY <1>1, <1>3, <2>3, LenProperties
<1>7. \A f \in ToSet(p) : f.op # "walk" => f \in ToSet(q)
  BY <1>3, <1>4, <1>5 DEF ToSet
<1>8. \A f \in ToSet(q) : f.op # "walk" => f \in ToSet(p)
  BY <1>3, <1>4 DEF ToSet
<1>9. Going(p) = Going(q)
  BY <1>7, <1>8 DEF Going, Goes
<1> QED BY <1>2, <1>4, <1>5, <1>6, <1>7, <1>9

-----------------------------------------------------------------------------

LEMMA TreeClosed ==
    ASSUME NEW A \in SUBSET Signals, SignalTypes
    PROVE  A \subseteq Tree(A) /\ Closed(Tree(A)) /\ Tree(A) \in SUBSET Signals
<1>1. ASSUME NEW t \in Tree(A), NEW d \in ToSet(dependents[t]) PROVE d \in Tree(A)
  <2>1. t \in Signals /\ d \in Signals
    BY SetInSignals DEF Tree, SignalTypes
  <2>2. ASSUME NEW C \in SUBSET Signals, A \subseteq C, Closed(C) PROVE d \in C
    <3>1. t \in C
      BY <2>2 DEF Tree
    <3> QED BY <2>2, <3>1 DEF Closed, DepsOf
  <2> QED BY <2>1, <2>2 DEF Tree
<1>2. A \subseteq Tree(A) /\ Tree(A) \in SUBSET Signals
  BY DEF Tree
<1> QED BY <1>1, <1>2 DEF Closed, DepsOf

LEMMA TreeLeast ==
    ASSUME NEW A, NEW C \in SUBSET Signals, A \subseteq C, Closed(C)
    PROVE  Tree(A) \subseteq C
BY DEF Tree

LEMMA TreeOfNone == Tree({}) = {}
<1>1. Closed({})
  BY DEF Closed, DepsOf
<1> QED BY <1>1, TreeLeast

LEMMA TreeOfUnion ==
    ASSUME NEW A \in SUBSET Signals, NEW B \in SUBSET Signals, SignalTypes
    PROVE  Tree(A \cup B) \subseteq Tree(A) \cup Tree(B)
<1>1. Closed(Tree(A) \cup Tree(B))
  BY TreeClosed DEF Closed, DepsOf
<1>2. A \cup B \subseteq Tree(A) \cup Tree(B) /\ Tree(A) \cup Tree(B) \in SUBSET Signals
  BY TreeClosed
<1> QED BY <1>1, <1>2, TreeLeast

LEMMA DepsInSignals ==
    ASSUME NEW A \in SUBSET Signals, SignalTypes
    PROVE  DepsOf(A) \in SUBSET Signals
BY SetInSignals DEF SignalTypes, DepsOf

\* The signals of A come first, then what depends on them.
LEMMA TreeOfRoots ==
    ASSUME NEW A \in SUBSET Signals, SignalTypes
    PROVE  Tree(A) \subseteq A \cup Tree(DepsOf(A))
<1>1. /\ DepsOf(A) \subseteq Tree(DepsOf(A)) /\ Closed(Tree(DepsOf(A)))
      /\ Tree(DepsOf(A)) \in SUBSET Signals
  BY DepsInSignals, TreeClosed
<1>2. Closed(A \cup Tree(DepsOf(A)))
  BY <1>1 DEF Closed, DepsOf
<1> QED BY <1>1, <1>2, TreeLeast

LEMMA DepsParts ==
    ASSUME NEW t \in Signals, SignalTypes
    PROVE  /\ Deps(t, 1) = ToSet(dependents[t]) /\ DepsOf({t}) = ToSet(dependents[t])
           /\ \A i \in Nat : Deps(t, i) \in SUBSET Signals
           /\ \A i \in Nat : i > Len(dependents[t]) => Deps(t, i) = {}
           /\ \A i \in Nat \ {0} : i <= Len(dependents[t]) =>
                 /\ dependents[t][i] \in ToSet(dependents[t])
                 /\ dependents[t][i] \in Signals
                 /\ Deps(t, i) = {dependents[t][i]} \cup Deps(t, i + 1)
<1>1. PICK n \in Nat : n = Len(dependents[t]) /\ DOMAIN dependents[t] = 1 .. n
  BY LenProperties DEF SignalTypes
<1>2. ToSet(dependents[t]) \subseteq Signals
  BY SetInSignals DEF SignalTypes
<1>3. Deps(t, 1) = ToSet(dependents[t]) /\ DepsOf({t}) = ToSet(dependents[t])
  BY <1>1 DEF Deps, DepsOf, ToSet
<1>4. ASSUME NEW i \in Nat PROVE Deps(t, i) \in SUBSET Signals
  BY <1>2 DEF Deps, ToSet
<1>5. ASSUME NEW i \in Nat, i > n PROVE Deps(t, i) = {}
  BY <1>1, <1>5 DEF Deps
<1>6. ASSUME NEW i \in Nat \ {0}, i <= n
      PROVE  /\ dependents[t][i] \in ToSet(dependents[t])
             /\ Deps(t, i) = {dependents[t][i]} \cup Deps(t, i + 1)
  <2>1. i \in 1 .. n /\ \A j \in 1 .. n : i <= j <=> j = i \/ i + 1 <= j
    BY <1>6
  <2> QED BY <1>1, <2>1 DEF Deps, ToSet
<1> QED BY <1>1, <1>2, <1>3, <1>4, <1>5, <1>6

\* abort() of s: what it marks gets its event from one of its three steps.
LEMMA SpreadDue ==
    ASSUME NEW s \in Signals, NEW d \in Spread(s), SignalTypes
    PROVE  d = s \/ d \in Deps(s, 1) \/ d \in Tree(DepsOf(Deps(s, 1)))
<1>1. d \in Tree({s})
  <2> SUFFICES ASSUME NEW C \in SUBSET Signals, s \in C, Closed(C) PROVE d \in C
    BY DEF Tree, Spread
  <2>1. \A c \in C : \A e \in ToSet(dependents[c]) : e \in C
    BY DEF Closed, DepsOf
  <2> QED BY <2>1 DEF Spread
<1>2. DepsOf({s}) = Deps(s, 1)
  BY DepsParts
<1>3. DepsOf({s}) \in SUBSET Signals
  BY DepsInSignals
<1>4. d = s \/ d \in Tree(DepsOf({s}))
  BY <1>1, TreeOfRoots
<1>5. Tree(DepsOf({s})) \subseteq DepsOf({s}) \cup Tree(DepsOf(DepsOf({s})))
  BY <1>3, TreeOfRoots
<1> QED BY <1>2, <1>4, <1>5

\* One round of the loops: what it calls, with what is left of the loop, covers
\* what was due.
LEMMA RoundDue ==
    ASSUME NEW t \in Signals, NEW i \in Nat \ {0}, i <= Len(dependents[t]), SignalTypes,
           NEW d, d = dependents[t][i]
    PROVE  /\ Due(Item("deps", t, i)) \subseteq Due(Item("fire", d, 0)) \cup Due(Item("deps", t, i + 1))
           /\ Due(Item("nested", t, i)) \subseteq Due(Item("tree", d, 1)) \cup Due(Item("nested", t, i + 1))
           /\ Due(Item("tree", t, i)) \subseteq
                 Due(Item("fire", d, 0)) \cup Due(Item("tree", d, 1)) \cup Due(Item("tree", t, i + 1))
<1>1. /\ d \in Signals /\ Deps(t, i) = {d} \cup Deps(t, i + 1)
      /\ Deps(t, i + 1) \in SUBSET Signals
  BY DepsParts
<1>2. DepsOf({d}) = Deps(d, 1) /\ Deps(d, 1) \in SUBSET Signals
  BY <1>1, DepsParts
<1>3. DepsOf({d} \cup Deps(t, i + 1)) = Deps(d, 1) \cup DepsOf(Deps(t, i + 1))
  BY <1>2 DEF DepsOf
<1>4. DepsOf(Deps(t, i + 1)) \in SUBSET Signals
  BY <1>1, DepsInSignals
<1>5. Tree(DepsOf(Deps(t, i))) \subseteq Tree(Deps(d, 1)) \cup Tree(DepsOf(Deps(t, i + 1)))
  BY <1>1, <1>2, <1>3, <1>4, TreeOfUnion
<1>6. Tree(Deps(t, i)) \subseteq Tree({d}) \cup Tree(Deps(t, i + 1))
  BY <1>1, TreeOfUnion
<1>7. Tree({d}) \subseteq {d} \cup Tree(Deps(d, 1))
  BY <1>1, <1>2, TreeOfRoots
<1> QED BY <1>1, <1>5, <1>6, <1>7 DEF Due, Item

\* What is due stays so when signals get more dependents.
LEMMA DueGrows ==
    ASSUME NEW f \in Agenda \cup Walks, SignalTypes, SignalTypes',
           \A t \in Signals : Len(dependents[t]) <= Len(dependents'[t])
                              /\ \A k \in DOMAIN dependents[t] : dependents'[t][k] = dependents[t][k]
    PROVE  Due(f) \subseteq Due(f)'
<1>1. \A t \in Signals : DOMAIN dependents[t] \subseteq DOMAIN dependents'[t]
  <2> SUFFICES ASSUME NEW t \in Signals PROVE DOMAIN dependents[t] \subseteq DOMAIN dependents'[t]
    OBVIOUS
  <2>1. /\ DOMAIN dependents[t] = 1 .. Len(dependents[t]) /\ Len(dependents[t]) \in Nat
        /\ DOMAIN dependents'[t] = 1 .. Len(dependents'[t]) /\ Len(dependents'[t]) \in Nat
    BY LenProperties DEF SignalTypes
  <2> QED BY <2>1
<1>2. \A t \in Signals : \A i : Deps(t, i) \subseteq Deps(t, i)'
  BY <1>1 DEF Deps
<1>3. \A t \in Signals : ToSet(dependents[t]) \subseteq ToSet(dependents'[t])
  BY <1>1 DEF ToSet
<1>4. ASSUME NEW A \in SUBSET Signals, NEW B, A \subseteq B
      PROVE  DepsOf(A) \subseteq DepsOf(B)'
  BY <1>3, <1>4 DEF DepsOf
<1>5. ASSUME NEW C \in SUBSET Signals, Closed(C)' PROVE Closed(C)
  BY <1>3, <1>5 DEF Closed, DepsOf
<1>6. ASSUME NEW A, NEW B, A \subseteq B PROVE Tree(A) \subseteq Tree(B)'
  BY <1>5, <1>6 DEF Tree
<1>7. CASE f.op = "walk"
  BY <1>7 DEF Due
<1>8. CASE f \in Agenda
  <2>1. f.sig \in Signals /\ f.i \in Nat /\ f.op \in {"fire", "deps", "nested", "tree"}
    BY <1>8 DEF Agenda
  <2>2. Deps(f.sig, f.i) \in SUBSET Signals /\ Deps(f.sig, f.i) \subseteq Deps(f.sig, f.i)'
    BY <1>2, <2>1, DepsParts
  <2>3. DepsOf(Deps(f.sig, f.i)) \subseteq DepsOf(Deps(f.sig, f.i))'
    BY <1>4, <2>2
  <2> QED BY <1>6, <2>1, <2>2, <2>3 DEF Due
<1> QED BY <1>7, <1>8 DEF Walks

\* A node leaves a list: the others stay.
LEMMA RemovedFirst ==
    ASSUME NEW q \in Seq(Nodes), NEW n
    PROVE  /\ RemoveFirst(q, n) \in Seq(Nodes)
           /\ ToSet(RemoveFirst(q, n)) \subseteq ToSet(q)
           /\ ToSet(q) \subseteq ToSet(RemoveFirst(q, n)) \cup {n}
<1>1. PICK m \in Nat : m = Len(q) /\ DOMAIN q = 1 .. m
  BY LenProperties
<1>2. CASE \A i \in 1 .. m : q[i] # n
  BY <1>1, <1>2 DEF RemoveFirst
<1>3. CASE \E i \in 1 .. m : q[i] = n
  <2> DEFINE T == {i \in 1 .. Len(q) : q[i] = n}
  <2>1. SelectInSeq(q, LAMBDA v : v = n) = (IF T # {} THEN Min(T) ELSE 0)
    BY DEF SelectInSeq
  <2>2. T # {} /\ T \in SUBSET Nat
    BY <1>1, <1>3
  <2>3. \E x \in T : \A y \in T : x <= y
    BY <2>2, LeastNat
  <2>4. Min(T) \in T
    BY <2>3 DEF Min
  <2>5. PICK k \in 1 .. m : q[k] = n /\ SelectInSeq(q, LAMBDA v : v = n) = k
    BY <1>1, <2>1, <2>2, <2>4
  <2>6. RemoveFirst(q, n) = SubSeq(q, 1, k - 1) \o SubSeq(q, k + 1, Len(q))
    BY <1>1, <1>3, <2>5 DEF RemoveFirst, RemoveAt
  <2>7. PICK a : a = SubSeq(q, 1, k - 1)
    OBVIOUS
  <2>8. PICK b : b = SubSeq(q, k + 1, m)
    OBVIOUS
  <2>a. a \in Seq(Nodes) /\ ToSet(a) = Between(q, 1, k - 1)
    <3>1. k - 1 \in Nat /\ 0 \in Nat /\ 0 <= k - 1 /\ k - 1 <= Len(q) /\ 1 = 0 + 1
      BY <1>1
    <3>2. SubSeq(q, 0 + 1, k - 1) \in Seq(Nodes) /\ ToSet(SubSeq(q, 0 + 1, k - 1)) = Between(q, 0 + 1, k - 1)
      BY <3>1, SliceIs, Zenon
    <3> QED BY <2>7, <3>1, <3>2
  <2>b. b \in Seq(Nodes) /\ ToSet(b) = Between(q, k + 1, m)
    <3>1. k \in Nat /\ k <= m /\ m <= Len(q)
      BY <1>1
    <3> QED BY <2>8, <3>1, SliceIs
  <2>9. /\ RemoveFirst(q, n) \in Seq(Nodes)
        /\ ToSet(RemoveFirst(q, n)) = {q[i] : i \in 1 .. k - 1} \cup {q[i] : i \in k + 1 .. m}
    <3>1. RemoveFirst(q, n) = a \o b
      BY <1>1, <2>6, <2>7, <2>8
    <3>2. RemoveFirst(q, n) \in Seq(Nodes) /\ ToSet(RemoveFirst(q, n)) = ToSet(a) \cup ToSet(b)
      BY <2>a, <2>b, <3>1, SetOfConcat
    <3> QED BY <2>a, <2>b, <3>2 DEF Between
  <2>10. \A i \in 1 .. m : i \in 1 .. k - 1 \/ i = k \/ i \in k + 1 .. m
    BY <2>5
  <2>11. \A i \in (1 .. k - 1) \cup (k + 1 .. m) : i \in 1 .. m
    BY <2>5
  <2> QED BY <1>1, <2>5, <2>9, <2>10, <2>11 DEF ToSet
<1> QED BY <1>1, <1>2, <1>3

-----------------------------------------------------------------------------
(* Every step keeps AllDue.                                                *)

\* What waits is due from a call that goes on.
LEMMA DueGoes ==
    ASSUME SignalTypes, NEW f \in Agenda \cup Walks, NEW s \in Due(f), Waiting(s)
    PROVE  Goes(f)
<1>1. CASE f \in Walks
  BY <1>1 DEF Walks, Due
<1>2. CASE f \in Agenda
  <2>1. f.sig \in Signals /\ f.i \in Nat /\ f.op \in {"fire", "deps", "nested", "tree"}
    BY <1>2 DEF Agenda
  <2>2. CASE f.op = "fire"
    BY <2>2 DEF Due, Goes, Through, Waiting
  <2>3. CASE f.op # "fire" /\ Through(f)
    <3>1. f.op \in {"deps", "nested", "tree"} /\ f.i > Len(dependents[f.sig])
      BY <2>1, <2>3 DEF Through
    <3>2. Deps(f.sig, f.i) = {}
      BY <2>1, <3>1, DepsParts
    <3>3. DepsOf({}) = {}
      BY DEF DepsOf
    <3> QED BY <3>1, <3>2, <3>3, TreeOfNone DEF Due
  <2> QED BY <2>1, <2>2, <2>3 DEF Goes
<1> QED BY <1>1, <1>2

\* A call that may be under way: a dispatch, or one of an aborted signal.
FrameOK(f) == f.op # "walk" => aborted[f.sig] /\ (f.op \in Loops => 1 <= f.i)

\* The calls change, and what is fired and aborted.
LEMMA CallsKept ==
    ASSUME SignalTypes, StackTypes, AllDue, UNCHANGED <<kind, dependents>>, ReasonKept,
           list' \in [Signals -> Seq(Nodes)], fired' \in [Signals -> BOOLEAN], stack' \in Seq(Agenda \cup Walks),
           \A f \in ToSet(stack') : f \in ToSet(stack) \/ FrameOK(f)',
           \A s \in Signals : Waiting(s)' /\ aborted[s] =>
              /\ ~fired[s]
              /\ \A f \in Going(stack) : s \in Due(f) => \E g \in ToSet(stack') : s \in Due(g),
           \A s \in Signals : Waiting(s)' /\ ~aborted[s] => \E g \in ToSet(stack') : s \in Due(g)
    PROVE  StackTypes' /\ AllDue'
<1>1. ToSet(stack) \subseteq Agenda \cup Walks
  BY ElementOfSeq, LenProperties DEF StackTypes, ToSet
<1>2. \A f : Due(f)' = Due(f)
  BY DEF Due, Deps, DepsOf, Tree, Closed
<1>3. ASSUME NEW f \in ToSet(stack') PROVE FrameOK(f)'
  <2>1. CASE FrameOK(f)'
    BY <2>1
  <2>2. CASE f \in ToSet(stack)
    <3>1. FrameOK(f) /\ f \in Agenda \cup Walks
      BY <1>1, <2>2 DEF StackTypes, FrameOK
    <3>2. f.op # "walk" => f.sig \in Signals /\ aborted'[f.sig]
      BY <3>1 DEF Agenda, Walks, FrameOK, ReasonKept
    <3> QED BY <3>1, <3>2 DEF FrameOK
  <2> QED BY <1>3, <2>1, <2>2
<1>4. StackTypes'
  BY <1>3 DEF StackTypes, FrameOK
<1>5. ASSUME NEW s \in Signals, Waiting(s)' PROVE \E g \in ToSet(stack') : s \in Due(g)
  <2>1. CASE ~aborted[s]
    BY <1>5, <2>1
  <2>2. CASE aborted[s]
    <3>1. Waiting(s)
      BY <1>5, <2>2 DEF Waiting
    <3>2. PICK f \in ToSet(stack) : s \in Due(f)
      BY <3>1 DEF AllDue
    <3>3. f \in Going(stack)
      BY <1>1, <3>1, <3>2, DueGoes DEF Going
    <3> QED BY <1>5, <2>2, <3>2, <3>3
  <2> QED BY <2>1, <2>2
<1>6. AllDue'
  BY <1>2, <1>5 DEF AllDue
<1> QED BY <1>4, <1>6

\* The calls stay, while signals and listeners are made.
LEMMA SignalsKept ==
    ASSUME SignalTypes, SignalTypes', StackTypes, AllDue, ReasonKept, UNCHANGED stack,
           list' \in [Signals -> Seq(Nodes)], fired' \in [Signals -> BOOLEAN],
           \A s \in Signals : Waiting(s)' => Waiting(s),
           \A t \in Signals : Len(dependents[t]) <= Len(dependents'[t])
                              /\ \A k \in DOMAIN dependents[t] : dependents'[t][k] = dependents[t][k]
    PROVE  StackTypes' /\ AllDue'
<1>1. ToSet(stack) \subseteq Agenda \cup Walks
  BY ElementOfSeq, LenProperties DEF StackTypes, ToSet
<1>2. ASSUME NEW f \in ToSet(stack) PROVE FrameOK(f)'
  <2>1. FrameOK(f) /\ f \in Agenda \cup Walks
    BY <1>1 DEF StackTypes, FrameOK
  <2> QED BY <2>1 DEF Agenda, Walks, FrameOK, ReasonKept
<1>3. StackTypes'
  BY <1>2 DEF StackTypes, FrameOK
<1>4. \A f \in ToSet(stack) : Due(f) \subseteq Due(f)'
  BY <1>1, DueGrows
<1> QED BY <1>3, <1>4 DEF AllDue

\* The calls below the one that runs.
LEMMA TopAndRest ==
    ASSUME StackTypes, stack # <<>>
    PROVE  /\ Top \in Agenda \cup Walks /\ Rest \in Seq(Agenda \cup Walks) /\ FrameOK(Top)
           /\ Top \in ToSet(stack) /\ ToSet(Rest) \subseteq ToSet(stack)
           /\ \A f \in Going(stack) : f = Top \/ f \in Going(Rest)
           /\ Below \in Seq(Agenda \cup Walks)
           /\ ToSet(Below) \subseteq ToSet(stack) /\ Going(Rest) \subseteq ToSet(Below)
           /\ Going(Rest) \subseteq ToSet(Rest)
<1>1. /\ Top \in Agenda \cup Walks /\ Rest \in Seq(Agenda \cup Walks)
      /\ ToSet(stack) = {Top} \cup ToSet(Rest)
  BY SetOfTail DEF StackTypes, Top, Rest
<1>2. /\ Below \in Seq(Agenda \cup Walks) /\ ToSet(Below) \subseteq ToSet(Rest)
      /\ Going(Below) = Going(Rest)
  BY <1>1, SettledGoing DEF Below
<1>3. FrameOK(Top)
  BY <1>1 DEF StackTypes, FrameOK
<1> QED BY <1>1, <1>2, <1>3 DEF Going

\* The first step of a dispatch.
LEMMA WalkStarts ==
    ASSUME StackTypes, NEW s \in Signals
    PROVE  /\ WalkIfAny(s) \in Seq(Agenda \cup Walks) /\ <<Walk(s)>> \in Seq(Agenda \cup Walks)
           /\ \A f \in ToSet(WalkIfAny(s)) \cup {Walk(s)} :
                 f.op = "walk" /\ f.sig = s /\ (f.at \in Nodes => f.at \in ToSet(list[s]))
<1>1. Walk(s) \in Walks /\ Walk(s).at = OnAbort /\ Walk(s).op = "walk" /\ Walk(s).sig = s
  BY DEF Walk, Walks
<1>2. \A n \in Nodes : WalkAt(Walk(s), n) \in Walks /\ WalkAt(Walk(s), n).op = "walk"
                       /\ WalkAt(Walk(s), n).sig = s /\ WalkAt(Walk(s), n).at = n
  BY DEF Walk, WalkAt, Walks
<1>3. CASE list[s] = <<>>
  BY <1>1, <1>3, SetOfOne, EmptySeq, SignalsAssumption DEF WalkIfAny
<1>4. CASE list[s] # <<>>
  <2>1. Head(list[s]) \in Nodes /\ Head(list[s]) \in ToSet(list[s])
    BY <1>4, SetOfTail DEF StackTypes
  <2>2. PICK w \in Walks : /\ w = WalkAt(Walk(s), Head(list[s])) /\ w.op = "walk" /\ w.sig = s
                           /\ w.at \in ToSet(list[s])
    BY <1>2, <2>1
  <2>3. WalkIfAny(s) = <<w>>
    BY <1>4, <2>2 DEF WalkIfAny
  <2>4. ToSet(WalkIfAny(s)) = {w}
    BY <2>3, SetOfOne
  <2> QED BY <1>1, <2>2, <2>3, <2>4, SignalsAssumption
<1> QED BY <1>3, <1>4

\* The steps of script, but for abort().
LEMMA ScriptDue ==
    ASSUME IInv, IInv', ReasonKept, StackTypes, AllDue, NEW s \in Signals,
           \/ NewController(s) \/ \E b \in BOOLEAN : NewTimeout(s, b)
           \/ \E r \in Reasons : NewAborted(s, r)
           \/ \E inputs \in Inputs : AnyOf(s, inputs)
           \/ DispatchEvent(s)
           \/ \E n \in Nodes : RemoveListener(s, n) \/ \E once \in BOOLEAN : AddListener(s, n, once)
    PROVE  StackTypes' /\ AllDue'
<1>1. /\ SignalTypes /\ SignalTypes' /\ list \in [Signals -> Seq(Nodes)]
      /\ fired \in [Signals -> BOOLEAN]
  BY DEF IInv, StackTypes
<1>2. \A t \in Signals : UNCHANGED dependents =>
          Len(dependents[t]) <= Len(dependents'[t])
          /\ \A k \in DOMAIN dependents[t] : dependents'[t][k] = dependents[t][k]
  BY <1>1, LenProperties DEF SignalTypes
<1>3. ASSUME NEW k \in Kinds, NEW b, NEW r, Make(s, k, b, r), k = "aborted" \/ ~b,
             UNCHANGED <<dependents, fired, list, stack>>
      PROVE  StackTypes' /\ AllDue'
  <2>1. \A t \in Signals : Waiting(t)' => Waiting(t)
    <3>1. kind'[s] = k /\ aborted'[s] = b
      BY <1>1, <1>3 DEF Make, SignalTypes
    <3>2. \A t \in Signals : t # s => kind'[t] = kind[t] /\ aborted'[t] = aborted[t]
      BY <1>1, <1>3 DEF Make, SignalTypes
    <3> QED BY <1>3, <3>1, <3>2 DEF Waiting
  <2> QED BY <1>1, <1>2, <1>3, <2>1, SignalsKept
<1>4. CASE NewController(s) \/ \E b \in BOOLEAN : NewTimeout(s, b)
  BY <1>3, <1>4 DEF NewController, NewTimeout, listVars, Kinds
<1>5. CASE \E r \in Reasons : NewAborted(s, r)
  BY <1>3, <1>5 DEF NewAborted, listVars, Kinds
<1>6. ASSUME NEW inputs \in Inputs, AnyAborted(s, inputs) PROVE StackTypes' /\ AllDue'
  <2>1. \A t \in Signals : Waiting(t)' => Waiting(t)
    <3>1. \A t \in Signals : t # s => kind'[t] = kind[t] /\ aborted'[t] = aborted[t] /\ fired'[t] = fired[t]
      BY <1>1, <1>6 DEF AnyAborted, Make, SignalTypes
    <3>2. fired'[s]
      BY <1>1, <1>6 DEF AnyAborted
    <3> QED BY <3>1, <3>2 DEF Waiting
  <2>2. fired' \in [Signals -> BOOLEAN]
    BY <1>1, <1>6 DEF AnyAborted
  <2> QED BY <1>1, <1>2, <1>6, <2>1, <2>2, SignalsKept DEF AnyAborted, listVars
<1>7. ASSUME NEW inputs \in Inputs, AnyPending(s, inputs) PROVE StackTypes' /\ AllDue'
  <2>1. \A t \in Signals : Waiting(t)' => Waiting(t)
    <3>1. ~aborted'[s]
      BY <1>1, <1>7 DEF AnyPending, Make, SignalTypes
    <3>2. \A t \in Signals : t # s => kind'[t] = kind[t] /\ aborted'[t] = aborted[t]
      BY <1>1, <1>7 DEF AnyPending, Make, SignalTypes
    <3> QED BY <1>7, <3>1, <3>2 DEF Waiting, AnyPending
  <2>2. ASSUME NEW t \in Signals
        PROVE  /\ Len(dependents[t]) <= Len(dependents'[t])
               /\ \A k \in DOMAIN dependents[t] : dependents'[t][k] = dependents[t][k]
    <3>1. CASE t \in inputs
      <4>1. PICK q \in Seq(Signals) : q = dependents[t]
        BY <1>1 DEF SignalTypes
      <4>2. dependents'[t] = Append(q, s)
        BY <1>7, <3>1, <4>1 DEF AnyPending
      <4>3. /\ Len(q) \in Nat /\ DOMAIN q = 1 .. Len(q) /\ Len(Append(q, s)) = Len(q) + 1
            /\ \A k \in 1 .. Len(q) : Append(q, s)[k] = q[k]
        BY AppendProperties, LenProperties
      <4> QED BY <4>1, <4>2, <4>3
    <3>2. CASE t \notin inputs
      <4>1. dependents'[t] = dependents[t] /\ Len(dependents[t]) \in Nat
        BY <1>1, <1>7, <3>2, LenProperties DEF AnyPending, SignalTypes
      <4> QED BY <4>1
    <3> QED BY <3>1, <3>2
  <2>3. list' \in [Signals -> Seq(Nodes)]
    <3>1. PICK added \in [inputs -> Nodes \ Listed] :
              list' = [t \in Signals |-> IF t \in inputs THEN Append(list[t], added[t]) ELSE list[t]]
      BY <1>7 DEF AnyPending
    <3>2. \A t \in inputs : t \in Signals => Append(list[t], added[t]) \in Seq(Nodes)
      BY <1>1, AppendProperties
    <3> QED BY <1>1, <3>1, <3>2
  <2>4. stack' = stack /\ fired' = fired
    BY <1>7 DEF AnyPending
  <2> QED BY <1>1, <2>1, <2>2, <2>3, <2>4, SignalsKept
<1>8. ASSUME UNCHANGED signalVars,
             list' \in [Signals -> Seq(Nodes)], stack' \in Seq(Agenda \cup Walks),
             Going(stack) \subseteq ToSet(stack'),
             \A f \in ToSet(stack') : f \in ToSet(stack) \/ f.op = "walk"
      PROVE  StackTypes' /\ AllDue'
  <2>1. \A f \in ToSet(stack') : f \in ToSet(stack) \/ FrameOK(f)'
    BY <1>8 DEF FrameOK
  <2>2. fired' \in [Signals -> BOOLEAN] /\ \A t \in Signals : Waiting(t)' => aborted[t] /\ ~fired[t]
    BY <1>1, <1>8 DEF Waiting, signalVars
  <2> QED BY <1>1, <1>8, <2>1, <2>2, CallsKept DEF signalVars
<1>9. Going(stack) \subseteq ToSet(stack) /\ stack \in Seq(Agenda \cup Walks)
  BY DEF Going, StackTypes
<1>10. CASE DispatchEvent(s)
  <2>1. stack' = WalkIfAny(s) \o stack /\ UNCHANGED <<signalVars, list>>
    BY <1>10 DEF DispatchEvent, listVars
  <2>2. WalkIfAny(s) \in Seq(Agenda \cup Walks) /\ \A f \in ToSet(WalkIfAny(s)) : f.op = "walk"
    BY WalkStarts
  <2>3. stack' \in Seq(Agenda \cup Walks) /\ ToSet(stack') = ToSet(WalkIfAny(s)) \cup ToSet(stack)
    BY <1>9, <2>1, <2>2, SetOfConcat
  <2> QED BY <1>1, <1>8, <1>9, <2>1, <2>2, <2>3
<1>11. ASSUME NEW n \in Nodes, RemoveListener(s, n) PROVE StackTypes' /\ AllDue'
  <2>1. /\ stack' = FreeNode(stack, n) /\ UNCHANGED signalVars
        /\ list' = [list EXCEPT ![s] = RemoveFirst(list[s], n)]
    BY <1>11 DEF RemoveListener, Unlink
  <2>2. list' \in [Signals -> Seq(Nodes)]
    BY <1>1, <2>1, RemovedFirst
  <2>3. /\ stack' \in Seq(Agenda \cup Walks) /\ Going(stack) = Going(FreeNode(stack, n))
        /\ \A f \in ToSet(stack') : f.op # "walk" => f \in ToSet(stack)
    BY <1>9, <2>1, FreedWalks
  <2>4. Going(stack) \subseteq ToSet(stack')
    BY <2>1, <2>3 DEF Going
  <2> QED BY <1>8, <2>1, <2>2, <2>3, <2>4
<1>12. ASSUME NEW n \in Nodes, NEW once \in BOOLEAN, AddListener(s, n, once) PROVE StackTypes' /\ AllDue'
  <2>1. UNCHANGED <<signalVars, stack>> /\ list' = [list EXCEPT ![s] = Append(list[s], n)]
    BY <1>12 DEF AddListener
  <2>2. list' \in [Signals -> Seq(Nodes)]
    BY <1>1, <2>1, AppendProperties
  <2> QED BY <1>8, <1>9, <2>1, <2>2
<1> QED
  BY <1>4, <1>5, <1>6, <1>7, <1>10, <1>11, <1>12 DEF AnyOf

\* abort() of a signal that is not aborted.
LEMMA AbortDue ==
    ASSUME IInv, ReasonKept, StackTypes, AllDue, UNCHANGED <<kind, dependents, fired, list>>,
           NEW s \in Signals, NEW r, NEW frames, DoAbort(s, r, frames),
           frames \in Seq(Agenda \cup Walks), Going(stack) \subseteq ToSet(frames),
           \A f \in ToSet(frames) : f \in ToSet(stack) \/ f.op = "walk"
    PROVE  StackTypes' /\ AllDue'
<1>1. SignalTypes /\ list' \in [Signals -> Seq(Nodes)] /\ fired' \in [Signals -> BOOLEAN]
  BY DEF IInv, StackTypes
<1>2. PICK a \in Agenda, b \in Agenda, c \in Agenda :
          a = Item("fire", s, 0) /\ b = Item("deps", s, 1) /\ c = Item("nested", s, 1)
  BY DEF Item, Agenda
<1>3. PICK p : p = <<a, b, c>>
  OBVIOUS
<1>4. p \in Seq(Agenda \cup Walks) /\ ToSet(p) = {a, b, c}
  BY <1>3 DEF ToSet
<1>5. stack' \in Seq(Agenda \cup Walks) /\ ToSet(stack') = {a, b, c} \cup ToSet(frames)
  <2>1. stack' = p \o frames
    BY <1>2, <1>3 DEF DoAbort
  <2> QED BY <1>4, <2>1, SetOfConcat
<1>6. s \in Spread(s)
  BY DEF Spread
<1>7. FrameOK(a)' /\ FrameOK(b)' /\ FrameOK(c)'
  <2>1. aborted'[s]
    BY <1>6 DEF DoAbort, Mark
  <2> QED BY <1>2, <2>1 DEF FrameOK, Item, Loops
<1>8. \A f \in ToSet(stack') : f \in ToSet(stack) \/ FrameOK(f)'
  BY <1>5, <1>7 DEF FrameOK
<1>9. ASSUME NEW t \in Signals, aborted'[t], ~aborted[t] PROVE \E g \in ToSet(stack') : t \in Due(g)
  <2>1. t \in Spread(s)
    BY <1>9 DEF DoAbort, Mark
  <2>2. t \in Due(a) \/ t \in Due(b) \/ t \in Due(c)
    BY <1>1, <1>2, <2>1, SpreadDue DEF Due, Item
  <2> QED BY <1>5, <2>2
<1>10. \A t \in Signals : Waiting(t)' => aborted'[t] /\ ~fired[t]
  BY DEF Waiting
<1>11. Going(stack) \subseteq ToSet(stack')
  BY <1>5
<1> QED BY <1>1, <1>5, <1>8, <1>9, <1>10, <1>11, CallsKept

\* A dispatch goes on, or is over: the other calls stay.
LEMMA WalkDue ==
    ASSUME IInv, ReasonKept, StackTypes, AllDue, UNCHANGED signalVars, stack # <<>>, Top.op = "walk",
           list' \in [Signals -> Seq(Nodes)], stack' \in Seq(Agenda \cup Walks),
           Going(Rest) \subseteq ToSet(stack'),
           \A f \in ToSet(stack') : f \in ToSet(stack) \/ f.op = "walk"
    PROVE  StackTypes' /\ AllDue'
<1>1. SignalTypes /\ fired' \in [Signals -> BOOLEAN]
  BY DEF IInv, StackTypes, signalVars
<1>2. Going(stack) \subseteq ToSet(stack')
  BY TopAndRest DEF Going, Goes
<1>3. \A f \in ToSet(stack') : f \in ToSet(stack) \/ FrameOK(f)'
  BY DEF FrameOK
<1>4. \A t \in Signals : Waiting(t)' => aborted[t] /\ ~fired[t]
  BY DEF Waiting, signalVars
<1> QED BY <1>1, <1>2, <1>3, <1>4, CallsKept DEF signalVars

LEMMA FireEventDue ==
    ASSUME IInv, ReasonKept, StackTypes, AllDue, FireEvent
    PROVE  StackTypes' /\ AllDue'
<1>1. SignalTypes /\ list \in [Signals -> Seq(Nodes)] /\ fired \in [Signals -> BOOLEAN]
  BY DEF IInv, StackTypes
<1>2. /\ stack # <<>> /\ Top.op = "fire"
      /\ UNCHANGED <<kind, aborted, reason, dependents, list>>
  BY DEF FireEvent, listVars
<1>3. Top \in Agenda /\ Top.sig \in Signals
  BY <1>2, TopAndRest DEF Agenda, Walks
<1>4. ASSUME fired' \in [Signals -> BOOLEAN], \A t \in Signals : fired[t] => fired'[t],
             stack' \in Seq(Agenda \cup Walks), Going(Rest) \subseteq ToSet(stack'),
             \A f \in ToSet(stack') : f \in ToSet(stack) \/ f.op = "walk",
             Through(Top) \/ fired'[Top.sig]
      PROVE  StackTypes' /\ AllDue'
  <2>1. \A f \in ToSet(stack') : f \in ToSet(stack) \/ FrameOK(f)'
    BY <1>4 DEF FrameOK
  <2>2. \A t \in Signals : Waiting(t)' => aborted[t] /\ ~fired[t]
    BY <1>2, <1>4 DEF Waiting
  <2>3. ASSUME NEW t \in Signals, Waiting(t)', NEW f \in Going(stack), t \in Due(f)
        PROVE  \E g \in ToSet(stack') : t \in Due(g)
    <3>1. CASE f = Top
      <4>1. t = Top.sig /\ ~Through(Top)
        BY <1>2, <2>3, <3>1 DEF Due, Going, Goes
      <4> QED BY <1>4, <2>3, <4>1 DEF Waiting
    <3>2. CASE f \in Going(Rest)
      BY <1>4, <2>3, <3>2
    <3> QED BY <1>2, <3>1, <3>2, TopAndRest
  <2> QED BY <1>1, <1>2, <1>4, <2>1, <2>2, <2>3, CallsKept
<1>5. CASE Through(Top)
  <2>1. stack' = Below /\ fired' = fired
    BY <1>5 DEF FireEvent
  <2> QED BY <1>1, <1>2, <1>4, <1>5, <2>1, TopAndRest
<1>6. CASE ~Through(Top)
  <2>1. PICK s \in Signals : s = Top.sig
    BY <1>3
  <2>2. /\ fired' = [fired EXCEPT ![s] = TRUE]
        /\ stack' = <<Walk(s)>> \o Rest \/ stack' = Settled(WalkIfAny(s) \o Rest)
    BY <1>6, <2>1 DEF FireEvent
  <2>3. fired' \in [Signals -> BOOLEAN] /\ fired'[Top.sig] /\ \A t \in Signals : fired[t] => fired'[t]
    BY <1>1, <2>1, <2>2
  <2>4. /\ stack' \in Seq(Agenda \cup Walks) /\ Going(Rest) \subseteq ToSet(stack')
        /\ \A f \in ToSet(stack') : f \in ToSet(stack) \/ f.op = "walk"
    <3>1. /\ Rest \in Seq(Agenda \cup Walks) /\ ToSet(Rest) \subseteq ToSet(stack)
          /\ Going(Rest) \subseteq ToSet(Rest)
      BY <1>2, TopAndRest
    <3>2. /\ WalkIfAny(s) \in Seq(Agenda \cup Walks) /\ <<Walk(s)>> \in Seq(Agenda \cup Walks)
          /\ \A f \in ToSet(WalkIfAny(s)) \cup ToSet(<<Walk(s)>>) : f.op = "walk"
      BY WalkStarts, SetOfOne
    <3>3. PICK p \in Seq(Agenda \cup Walks) :
              /\ \A f \in ToSet(p) : f.op = "walk"
              /\ stack' = p \o Rest \/ stack' = Settled(p \o Rest)
      BY <2>2, <3>2
    <3>4. p \o Rest \in Seq(Agenda \cup Walks) /\ ToSet(p \o Rest) = ToSet(p) \cup ToSet(Rest)
      BY <3>1, SetOfConcat
    <3>5. /\ Settled(p \o Rest) \in Seq(Agenda \cup Walks)
          /\ ToSet(Settled(p \o Rest)) \subseteq ToSet(p \o Rest)
          /\ Going(p \o Rest) \subseteq ToSet(Settled(p \o Rest))
      BY <3>4, SettledGoing DEF Going
    <3>6. Going(Rest) \subseteq Going(p \o Rest)
      BY <3>4 DEF Going
    <3> QED BY <3>1, <3>3, <3>4, <3>5, <3>6
  <2> QED BY <1>4, <2>3, <2>4
<1> QED BY <1>5, <1>6

LEMMA NextDependentDue ==
    ASSUME IInv, ReasonKept, StackTypes, AllDue, NextDependent
    PROVE  StackTypes' /\ AllDue'
<1>1. SignalTypes /\ list \in [Signals -> Seq(Nodes)] /\ fired \in [Signals -> BOOLEAN]
  BY DEF IInv, StackTypes
<1>2. /\ stack # <<>> /\ Top.op \in {"deps", "nested", "tree"}
      /\ UNCHANGED <<kind, aborted, reason, dependents, fired, list>>
  BY DEF NextDependent, signalVars, listVars
<1>3. PICK s \in Signals, i \in Nat \ {0} : s = Top.sig /\ i = Top.i /\ Top = Item(Top.op, s, i) /\ aborted[s]
  BY <1>2, TopAndRest DEF Agenda, Walks, FrameOK, Loops, Item
<1>4. ASSUME stack' \in Seq(Agenda \cup Walks), Going(Rest) \subseteq ToSet(stack'),
             \A f \in ToSet(stack') : f \in ToSet(stack) \/ FrameOK(f),
             \A t \in Signals : t \in Due(Top) /\ Waiting(t) /\ ~Through(Top) =>
                \E g \in ToSet(stack') : t \in Due(g)
      PROVE  StackTypes' /\ AllDue'
  <2>1. \A f \in ToSet(stack') : f \in ToSet(stack) \/ FrameOK(f)'
    BY <1>2, <1>4 DEF FrameOK
  <2>2. \A t \in Signals : Waiting(t)' => Waiting(t) /\ aborted[t] /\ ~fired[t]
    BY <1>2, <1>4 DEF Waiting
  <2>3. ASSUME NEW t \in Signals, Waiting(t)', NEW f \in Going(stack), t \in Due(f)
        PROVE  \E g \in ToSet(stack') : t \in Due(g)
    <3>1. CASE f = Top
      BY <1>4, <2>2, <2>3, <3>1 DEF Going, Goes
    <3>2. CASE f \in Going(Rest)
      BY <1>4, <2>3, <3>2
    <3> QED BY <1>2, <3>1, <3>2, TopAndRest
  <2> QED BY <1>1, <1>2, <1>4, <2>1, <2>2, <2>3, CallsKept
<1>5. CASE Through(Top)
  <2>1. stack' = Below
    BY <1>5 DEF NextDependent
  <2> QED BY <1>2, <1>4, <1>5, <2>1, TopAndRest
<1>6. CASE ~Through(Top)
  <2>1. i <= Len(dependents[s]) /\ Len(dependents[s]) \in Nat
    BY <1>1, <1>2, <1>3, <1>6, LenProperties DEF Through, SignalTypes
  <2>2. PICK d \in Signals : d = dependents[s][i] /\ d \in ToSet(dependents[s])
    BY <1>1, <2>1, DepsParts
  <2>3. aborted[d]
    BY <1>3, <2>2 DEF IInv, DependentsAborted
  <2>4. PICK more, fire, tree :
            more = Item(Top.op, s, i + 1) /\ fire = Item("fire", d, 0) /\ tree = Item("tree", d, 1)
    OBVIOUS
  <2>5. more \in Agenda /\ fire \in Agenda /\ tree \in Agenda
    <3>1. i + 1 \in Nat /\ 0 \in Nat /\ 1 \in Nat
      OBVIOUS
    <3> QED BY <1>2, <2>4, <3>1 DEF Item, Agenda
  <2>o. FrameOK(more) /\ FrameOK(fire) /\ FrameOK(tree)
    <3>1. 1 <= i + 1 /\ 1 <= 1
      OBVIOUS
    <3> QED BY <1>3, <2>3, <2>4, <3>1 DEF Item, FrameOK, Loops
  <2>p. PICK m, a, b : m = <<more>> /\ a = <<fire>> /\ b = <<tree>>
    OBVIOUS
  <2>c. m \in Seq(Agenda \cup Walks) /\ a \in Seq(Agenda \cup Walks) /\ b \in Seq(Agenda \cup Walks)
    BY <2>5, <2>p
  <2>s. ToSet(m) = {more} /\ ToSet(a) = {fire} /\ ToSet(b) = {tree}
    BY <2>p, SetOfOne
  <2>q. a \o b \in Seq(Agenda \cup Walks) /\ ToSet(a \o b) = {fire, tree}
    <3>1. a \o b \in Seq(Agenda \cup Walks) /\ ToSet(a \o b) = ToSet(a) \cup ToSet(b)
      BY <2>c, SetOfConcat
    <3> QED BY <2>s, <3>1
  <2>7. PICK p \in Seq(Agenda \cup Walks) :
            /\ p = CASE Top.op = "deps" -> a [] Top.op = "nested" -> b [] Top.op = "tree" -> a \o b
            /\ ToSet(p) \subseteq {fire, tree}
            /\ Top.op \in {"deps", "tree"} => fire \in ToSet(p)
            /\ Top.op \in {"nested", "tree"} => tree \in ToSet(p)
    <3>1. PICK p : p = CASE Top.op = "deps" -> a [] Top.op = "nested" -> b [] Top.op = "tree" -> a \o b
      OBVIOUS
    <3>2. p \in {a, b, a \o b}
      BY <1>2, <3>1
    <3>3. p \in Seq(Agenda \cup Walks) /\ ToSet(p) \subseteq {fire, tree}
      BY <2>c, <2>s, <2>q, <3>2
    <3>4. /\ Top.op \in {"deps", "tree"} => fire \in ToSet(p)
          /\ Top.op \in {"nested", "tree"} => tree \in ToSet(p)
      BY <2>s, <2>q, <3>1
    <3> QED BY <3>1, <3>3, <3>4
  <2>6. stack' = Settled((p \o m) \o Rest)
    <3>1. stack' = Settled(((CASE Top.op = "deps" -> <<fire>>
                               [] Top.op = "nested" -> <<tree>>
                               [] Top.op = "tree" -> IF aborted[d] THEN <<fire>> \o <<tree>> ELSE <<>>)
                             \o <<more>>) \o Rest)
      BY <1>3, <1>6, <2>2, <2>4 DEF NextDependent
    <3> QED BY <1>2, <2>3, <2>p, <2>7, <3>1
  <2>8. PICK q : q = (p \o m) \o Rest
    OBVIOUS
  <2>9. /\ q \in Seq(Agenda \cup Walks) /\ ToSet(q) = ToSet(p) \cup {more} \cup ToSet(Rest)
    <3>2. p \o m \in Seq(Agenda \cup Walks) /\ ToSet(p \o m) = ToSet(p) \cup {more}
      <4>1. p \o m \in Seq(Agenda \cup Walks) /\ ToSet(p \o m) = ToSet(p) \cup ToSet(m)
        BY <2>c, SetOfConcat
      <4> QED BY <2>s, <4>1
    <3>3. Rest \in Seq(Agenda \cup Walks)
      BY <1>2, TopAndRest
    <3>4. PICK l \in Seq(Agenda \cup Walks), n \in Seq(Agenda \cup Walks) : l = p \o m /\ n = Rest
      BY <3>2, <3>3
    <3>5. l \o n \in Seq(Agenda \cup Walks) /\ ToSet(l \o n) = ToSet(l) \cup ToSet(n)
      BY SetOfConcat
    <3> QED BY <2>8, <3>2, <3>4, <3>5
  <2>10. /\ stack' \in Seq(Agenda \cup Walks) /\ ToSet(stack') \subseteq ToSet(q)
         /\ Going(q) \subseteq ToSet(stack')
    <3>1. stack' = Settled(q)
      BY <2>6, <2>8
    <3>2. Going(Settled(q)) \subseteq ToSet(Settled(q))
      BY DEF Going
    <3> QED BY <2>9, <3>1, <3>2, SettledGoing
  <2>11. Going(Rest) \subseteq ToSet(stack')
    <3>1. Going(Rest) \subseteq ToSet(Rest) /\ \A f \in Going(Rest) : Goes(f)
      BY DEF Going
    <3> QED BY <2>9, <2>10, <3>1 DEF Going
  <2>12. \A f \in ToSet(stack') : f \in ToSet(stack) \/ FrameOK(f)
    <3>1. ToSet(Rest) \subseteq ToSet(stack)
      BY <1>2, TopAndRest
    <3> QED BY <2>o, <2>7, <2>9, <2>10, <3>1
  <2>13. ASSUME NEW t \in Signals, t \in Due(Top), Waiting(t) PROVE \E g \in ToSet(stack') : t \in Due(g)
    <3>1. PICK g \in ToSet(p) \cup {more} : t \in Due(g)
      <4>1. /\ Due(Item("deps", s, i)) \subseteq Due(fire) \cup Due(Item("deps", s, i + 1))
            /\ Due(Item("nested", s, i)) \subseteq Due(tree) \cup Due(Item("nested", s, i + 1))
            /\ Due(Item("tree", s, i)) \subseteq Due(fire) \cup Due(tree) \cup Due(Item("tree", s, i + 1))
        BY <1>1, <2>1, <2>2, <2>4, RoundDue
      <4>2. t \in Due(Item(Top.op, s, i))
        BY <1>3, <2>13
      <4> QED BY <1>2, <2>4, <2>7, <4>1, <4>2
    <3>2. g \in Agenda \cup Walks /\ g \in ToSet(q)
      BY <2>5, <2>7, <2>9, <3>1
    <3>3. g \in Going(q)
      BY <1>1, <2>13, <3>1, <3>2, DueGoes DEF Going
    <3> QED BY <2>10, <3>1, <3>3
  <2> QED BY <1>4, <2>10, <2>11, <2>12, <2>13
<1> QED BY <1>5, <1>6

LEMMA ReturnsDue ==
    ASSUME IInv, ReasonKept, StackTypes, AllDue,
           \/ HandlerReturns \/ ListenerThrows \/ FreedReturns
           \/ \E stop \in BOOLEAN : ListenerReturns(stop)
    PROVE  StackTypes' /\ AllDue'
<1>1. stack # <<>> /\ Top.op = "walk" /\ UNCHANGED signalVars
  BY DEF HandlerReturns, ListenerThrows, FreedReturns, ListenerReturns, Top, listVars
<1>2. /\ list \in [Signals -> Seq(Nodes)] /\ stack \in Seq(Agenda \cup Walks)
      /\ Top \in Walks /\ Top.sig \in Signals /\ Top \in ToSet(stack)
  BY <1>1, TopAndRest DEF StackTypes, Agenda, Walks
<1>3. /\ Rest \in Seq(Agenda \cup Walks) /\ ToSet(Rest) \subseteq ToSet(stack)
      /\ Going(Rest) \subseteq ToSet(Rest)
      /\ Below \in Seq(Agenda \cup Walks) /\ ToSet(Below) \subseteq ToSet(stack)
      /\ Going(Rest) \subseteq ToSet(Below)
  BY <1>1, TopAndRest
<1>4. CASE HandlerReturns
  <2>1. PICK p \in Seq(Agenda \cup Walks), r \in Seq(Agenda \cup Walks) :
            /\ p = WalkIfAny(Top.sig) /\ r = Rest /\ \A f \in ToSet(p) : f.op = "walk"
    BY <1>2, <1>3, WalkStarts
  <2>2. p \o r \in Seq(Agenda \cup Walks) /\ ToSet(p \o r) = ToSet(p) \cup ToSet(r)
    BY SetOfConcat
  <2>3. stack' = Settled(p \o r) /\ list' = list
    BY <1>4, <2>1 DEF HandlerReturns, listVars
  <2>4. /\ stack' \in Seq(Agenda \cup Walks) /\ ToSet(stack') \subseteq ToSet(p \o r)
        /\ Going(p \o r) \subseteq ToSet(stack')
    <3>1. PICK q \in Seq(Agenda \cup Walks) : q = p \o r
      BY <2>2
    <3>2. /\ Settled(q) \in Seq(Agenda \cup Walks) /\ ToSet(Settled(q)) \subseteq ToSet(q)
          /\ Going(Settled(q)) = Going(q)
      BY SettledGoing
    <3>3. Going(Settled(q)) \subseteq ToSet(Settled(q))
      BY DEF Going
    <3> QED BY <2>3, <3>1, <3>2, <3>3
  <2>5. Going(r) \subseteq Going(p \o r)
    BY <2>2 DEF Going
  <2> QED BY <1>1, <1>2, <1>3, <2>1, <2>2, <2>3, <2>4, <2>5, WalkDue
<1>5. CASE ListenerThrows
  BY <1>1, <1>2, <1>3, <1>5, WalkDue DEF ListenerThrows, listVars
<1>6. CASE FreedReturns
  <2>1. list' = list /\ (stack' = stack \/ stack' = Below)
    BY <1>6 DEF FreedReturns, listVars
  <2>2. Going(Rest) \subseteq ToSet(stack)
    BY <1>3
  <2> QED BY <1>1, <1>2, <1>3, <2>1, <2>2, WalkDue
<1>7. ASSUME NEW stop \in BOOLEAN, ListenerReturns(stop) PROVE StackTypes' /\ AllDue'
  <2>1. PICK next, left :
            /\ next = IF stop THEN {} ELSE Onward(Top)
            /\ left = IF next = {} THEN Below ELSE <<CHOOSE f \in next : TRUE>> \o Rest
    OBVIOUS
  <2>2. /\ Top.at \in Nodes
        /\ \/ list' = [list EXCEPT ![Top.sig] = RemoveFirst(list[Top.sig], Top.at)]
              /\ stack' = FreeNode(left, Top.at)
           \/ list' = list /\ stack' = left
    BY <1>7, <2>1 DEF ListenerReturns, Unlink, listVars
  <2>3. \A f \in next : f \in Walks /\ f.op = "walk"
    <3>1. \A f \in Onward(Top) : \E n \in Nodes : f = WalkAt(Top, n)
      BY <1>2, LenProperties, ElementOfSeq DEF Onward
    <3>2. \A n \in Nodes : WalkAt(Top, n) \in Walks /\ WalkAt(Top, n).op = "walk"
      BY <1>1, <1>2 DEF WalkAt, Walks
    <3> QED BY <2>1, <3>1, <3>2
  <2>4. /\ left \in Seq(Agenda \cup Walks) /\ Going(Rest) \subseteq Going(left)
        /\ \A f \in ToSet(left) : f \in ToSet(stack) \/ f.op = "walk"
    <3>1. CASE next = {}
      BY <1>3, <2>1, <3>1 DEF Going
    <3>2. CASE next # {}
      <4>1. PICK f \in next : f = CHOOSE g \in next : TRUE
        BY <3>2
      <4>2. f \in Agenda \cup Walks /\ f.op = "walk"
        BY <2>3
      <4>3. PICK p \in Seq(Agenda \cup Walks), r \in Seq(Agenda \cup Walks) :
                p = <<f>> /\ r = Rest /\ ToSet(p) = {f}
        BY <1>3, <4>2, OneCall
      <4>4. p \o r \in Seq(Agenda \cup Walks) /\ ToSet(p \o r) = ToSet(p) \cup ToSet(r)
        BY SetOfConcat
      <4>5. left = p \o r
        BY <2>1, <3>2, <4>1, <4>3
      <4> QED BY <1>3, <4>2, <4>3, <4>4, <4>5 DEF Going
    <3> QED BY <3>1, <3>2
  <2>5. /\ FreeNode(left, Top.at) \in Seq(Agenda \cup Walks)
        /\ Going(FreeNode(left, Top.at)) = Going(left)
        /\ \A f \in ToSet(FreeNode(left, Top.at)) : f.op # "walk" => f \in ToSet(left)
    BY <2>2, <2>4, FreedWalks
  <2>6. list' \in [Signals -> Seq(Nodes)]
    BY <1>2, <2>2, RemovedFirst
  <2>7. stack' \in Seq(Agenda \cup Walks) /\ Going(Rest) \subseteq ToSet(stack')
    BY <2>2, <2>4, <2>5 DEF Going
  <2>8. \A f \in ToSet(stack') : f \in ToSet(stack) \/ f.op = "walk"
    BY <2>2, <2>4, <2>5
  <2> QED BY <1>1, <2>6, <2>7, <2>8, WalkDue
<1> QED BY <1>4, <1>5, <1>6, <1>7

LEMMA CallInternalDue ==
    ASSUME IInv, ReasonKept, StackTypes, AllDue, CallInternal
    PROVE  StackTypes' /\ AllDue'
<1>1. /\ stack # <<>> /\ Top.op = "walk" /\ list \in [Signals -> Seq(Nodes)]
      /\ UNCHANGED <<kind, dependents, fired, armed, list>>
  BY DEF CallInternal, listVars, StackTypes
<1>2. Top \in Walks /\ Rest \in Seq(Agenda \cup Walks)
  BY <1>1, TopAndRest DEF Agenda
<1>3. PICK d \in Signals : d = node[Top.at].calls
  BY DEF CallInternal, IInv, SignalTypes, Listeners
<1>4. PICK f \in Agenda \cup Walks : f = [Top EXCEPT !.called = TRUE] /\ f.op = "walk"
  <2>1. PICK f : f = [Top EXCEPT !.called = TRUE]
    OBVIOUS
  <2>2. f \in Walks /\ f.op = "walk"
    BY <1>1, <1>2, <2>1 DEF Walks
  <2> QED BY <2>1, <2>2
<1>5. PICK p \in Seq(Agenda \cup Walks), r \in Seq(Agenda \cup Walks) :
          p = <<f>> /\ r = Rest /\ ToSet(p) = {f}
  BY <1>2, OneCall
<1>6. p \o r \in Seq(Agenda \cup Walks) /\ ToSet(p \o r) = ToSet(p) \cup ToSet(r)
  BY SetOfConcat
<1>7. /\ Going(Rest) \subseteq ToSet(p \o r)
      /\ \A g \in ToSet(p \o r) : g \in ToSet(stack) \/ g.op = "walk"
      /\ Going(stack) \subseteq ToSet(p \o r)
  <2>1. Going(Rest) \subseteq ToSet(Rest) /\ ToSet(Rest) \subseteq ToSet(stack)
    BY <1>1, TopAndRest
  <2>2. Going(stack) \subseteq Going(Rest)
    BY <1>1, TopAndRest DEF Going, Goes
  <2> QED BY <1>4, <1>5, <1>6, <2>1, <2>2
<1>8. CASE aborted[d]
  <2>1. stack' = p \o r /\ UNCHANGED signalVars
    BY <1>1, <1>3, <1>4, <1>5, <1>8 DEF CallInternal, signalVars
  <2> QED BY <1>1, <1>6, <1>7, <2>1, WalkDue
<1>9. CASE ~aborted[d]
  <2>1. DoAbort(d, reason[Top.sig], p \o r)
    BY <1>3, <1>4, <1>5, <1>9 DEF CallInternal
  <2> QED BY <1>1, <1>6, <1>7, <2>1, AbortDue
<1> QED BY <1>8, <1>9

LEMMA InitDue == Init => StackTypes /\ AllDue
BY EmptySeq, SetOfOne DEF Init, StackTypes, AllDue, Waiting

LEMMA NextDue == IInv /\ StackTypes /\ AllDue /\ [Next]_vars => StackTypes' /\ AllDue'
<1> SUFFICES ASSUME IInv, StackTypes, AllDue, [Next]_vars PROVE StackTypes' /\ AllDue'
  OBVIOUS
<1>1. IInv' /\ ReasonKept
  BY StepInv
<1>2. stack \in Seq(Agenda \cup Walks) /\ Going(stack) \subseteq ToSet(stack)
  BY DEF StackTypes, Going
<1>3. CASE UNCHANGED vars
  <2>1. UNCHANGED <<aborted, kind, fired, dependents, list, stack>>
    BY <1>3 DEF vars, signalVars, listVars
  <2>2. StackTypes'
    BY <2>1 DEF StackTypes
  <2>3. \A f : Due(f)' = Due(f)
    BY <2>1 DEF Due, Deps, DepsOf, Tree, Closed
  <2> QED BY <2>1, <2>2, <2>3 DEF AllDue, Waiting
<1>4. ASSUME NEW s \in Signals, NEW r \in Reasons, Abort(s, r) PROVE StackTypes' /\ AllDue'
  BY <1>1, <1>2, <1>4, AbortDue DEF Abort, listVars
<1>5. ASSUME NEW s \in Signals, TimeoutFires(s) PROVE StackTypes' /\ AllDue'
  BY <1>1, <1>2, <1>5, AbortDue DEF TimeoutFires, listVars
<1> QED
  BY <1>1, <1>3, <1>4, <1>5, ScriptDue, FireEventDue, NextDependentDue, CallInternalDue, ReturnsDue
  DEF Next, ScriptStep, NativeStep

\* When abort() is back, every signal that was aborted has had its event, also
\* one that a listener aborted meanwhile, and whatever listeners threw.
THEOREM AbortsFire == Spec => []AllFired
<1>1. Init => IInv /\ StackTypes /\ AllDue
  BY InitInv, InitDue
<1>2. IInv /\ StackTypes /\ AllDue /\ [Next]_vars => (IInv /\ StackTypes /\ AllDue)'
  BY StepInv, NextDue
<1>3. AllDue => AllFired
  BY SetOfOne DEF AllDue, AllFired, Waiting
<1> QED BY <1>1, <1>2, <1>3, PTL DEF Spec

-----------------------------------------------------------------------------
(* Sources first.                                                          *)

\* What has its event before a call of the stack that follows on f.
Gives(f) ==
    CASE f.op = "fire" -> {f.sig}
      [] f.op = "deps" -> Deps(f.sig, f.i)
      [] OTHER -> {}
GivesAll(q) == UNION {Gives(f) : f \in ToSet(q)}
Before(q, k) == UNION {Gives(q[j]) : j \in 1 .. k - 1}

\* A signal whose event may come once those of F have had theirs.
Follower(d, F) == reason[d] = Undefined \/ Sources(d) = {} \/ Sources(d) \cap F # {}

\* The call f comes late enough when those of F have had their events.
InOrder(f, F) ==
    /\ f.op = "fire" => Follower(f.sig, F)
    /\ f.op \in {"deps", "tree"} => f.sig \in F
    /\ f.op = "nested" => Deps(f.sig, f.i) \subseteq F

\* So do all calls of q, each when those before it are back.
OrderedFrom(q, F) == \A k \in DOMAIN q : InOrder(q[k], F \cup Before(q, k))

Fired == {s \in Signals : fired[s]}
Ordered == OrderedFrom(stack, Fired)

\* The listener of any() is with a source of what it aborts; a walk is at a node
\* of the list it walks; only an aborted signal has a reason, and its event.
Listening == \A t \in Signals : \A n \in ToSet(list[t]) :
                node[n].calls # Script => node[n].calls \in ToSet(dependents[t])
InList(f) == f.op = "walk" /\ f.at \in Nodes => f.at \in ToSet(list[f.sig])
Walking == \A f \in ToSet(stack) : InList(f)
Pending ==
    /\ DOMAIN reason = Signals
    /\ \A s \in Signals : ~aborted[s] => reason[s] = Undefined /\ ~fired[s]

FirstInv == Ordered /\ Listening /\ Walking /\ Pending /\ SourceFirst

-----------------------------------------------------------------------------

LEMMA InOrderMore ==
    ASSUME NEW f, NEW F, NEW G, F \subseteq G, InOrder(f, F)
    PROVE  InOrder(f, G)
BY DEF InOrder, Follower

LEMMA OrderedMore ==
    ASSUME NEW q, NEW F, NEW G, F \subseteq G, OrderedFrom(q, F)
    PROVE  OrderedFrom(q, G)
<1>1. ASSUME NEW k \in DOMAIN q PROVE InOrder(q[k], G \cup Before(q, k))
  <2>1. InOrder(q[k], F \cup Before(q, k)) /\ F \cup Before(q, k) \subseteq G \cup Before(q, k)
    BY DEF OrderedFrom
  <2> QED BY <2>1, InOrderMore
<1> QED BY <1>1 DEF OrderedFrom

\* p runs before q.
LEMMA OrderedConcat ==
    ASSUME NEW S, NEW p \in Seq(S), NEW q \in Seq(S), NEW F,
           OrderedFrom(p, F), OrderedFrom(q, F \cup GivesAll(p))
    PROVE  OrderedFrom(p \o q, F)
<1>1. PICK m \in Nat, n \in Nat : m = Len(p) /\ n = Len(q)
  BY LenProperties
<1>0. PICK r : r = p \o q
  OBVIOUS
<1>2. DOMAIN p = 1 .. m /\ DOMAIN q = 1 .. n /\ DOMAIN r = 1 .. m + n
  BY <1>0, <1>1, ConcatProperties, LenProperties
<1>3. \A i \in 1 .. m + n : (i <= m => r[i] = p[i]) /\ (~(i <= m) => r[i] = q[i - m])
  BY <1>0, <1>1, ConcatProperties
<1> HIDE <1>0
<1>4. ASSUME NEW k \in 1 .. m PROVE InOrder(r[k], F \cup Before(r, k))
  <2>1. k \in 1 .. m + n /\ r[k] = p[k] /\ \A j \in 1 .. k - 1 : j \in 1 .. m + n /\ r[j] = p[j]
    BY <1>3
  <2>2. Before(r, k) = Before(p, k)
    BY <2>1 DEF Before
  <2> QED BY <1>2, <2>1, <2>2 DEF OrderedFrom
<1>5. ASSUME NEW k \in 1 .. n PROVE InOrder(r[m + k], F \cup Before(r, m + k))
  <2>1. m + k \in 1 .. m + n /\ ~(m + k <= m) /\ (m + k) - m = k
    OBVIOUS
  <2>2. r[m + k] = q[k]
    BY <1>3, <2>1
  <2>3. InOrder(q[k], (F \cup GivesAll(p)) \cup Before(q, k))
    BY <1>2 DEF OrderedFrom
  <2>4. ASSUME NEW i \in 1 .. m PROVE i \in 1 .. (m + k) - 1 /\ r[i] = p[i]
    BY <1>3
  <2>5. ASSUME NEW j \in 1 .. k - 1 PROVE m + j \in 1 .. (m + k) - 1 /\ r[m + j] = q[j]
    <3>1. m + j \in 1 .. m + n /\ ~(m + j <= m) /\ (m + j) - m = j /\ m + j \in 1 .. (m + k) - 1
      OBVIOUS
    <3> QED BY <1>3, <3>1
  <2>6. GivesAll(p) \subseteq Before(r, m + k)
    BY <1>2, <2>4 DEF GivesAll, ToSet, Before
  <2>7. Before(q, k) \subseteq Before(r, m + k)
    BY <2>5 DEF Before
  <2>8. (F \cup GivesAll(p)) \cup Before(q, k) \subseteq F \cup Before(r, m + k)
    BY <2>6, <2>7
  <2> QED BY <2>2, <2>3, <2>8, InOrderMore
<1>6. ASSUME NEW k \in 1 .. m + n PROVE InOrder(r[k], F \cup Before(r, k))
  <2>1. CASE k <= m
    <3>1. k \in 1 .. m
      BY <2>1
    <3> QED BY <1>4, <3>1
  <2>2. CASE ~(k <= m)
    <3>1. k - m \in 1 .. n /\ m + (k - m) = k
      BY <2>2
    <3> QED BY <1>5, <3>1
  <2> QED BY <2>1, <2>2
<1> QED BY <1>0, <1>2, <1>6 DEF OrderedFrom

\* The first m calls are back.
LEMMA OrderedSlice ==
    ASSUME NEW S, NEW q \in Seq(S), NEW m \in Nat, NEW n \in Nat, n = Len(q), m <= n, NEW F, NEW G,
           OrderedFrom(q, F), F \subseteq G, \A k \in 1 .. m : Gives(q[k]) \subseteq G
    PROVE  OrderedFrom(SubSeq(q, m + 1, n), G)
<1>1. DOMAIN q = 1 .. n
  BY LenProperties
<1>2. PICK r : r = SubSeq(q, m + 1, n)
  OBVIOUS
<1>3. DOMAIN r = 1 .. n - m /\ \A i \in 1 .. n - m : m + i \in 1 .. n /\ r[i] = q[m + i]
  BY <1>1, <1>2, SliceAt
<1> HIDE <1>2
<1>4. ASSUME NEW k \in 1 .. n - m PROVE InOrder(r[k], G \cup Before(r, k))
  <2>1. m + k \in 1 .. n /\ r[k] = q[m + k]
    BY <1>3
  <2>2. InOrder(q[m + k], F \cup Before(q, m + k))
    BY <1>1, <2>1 DEF OrderedFrom
  <2>3. ASSUME NEW j \in 1 .. (m + k) - 1 PROVE Gives(q[j]) \subseteq G \cup Before(r, k)
    <3>1. CASE j <= m
      BY <3>1
    <3>2. CASE ~(j <= m)
      <4>1. j - m \in 1 .. k - 1 /\ j - m \in 1 .. n - m /\ m + (j - m) = j
        BY <3>2
      <4>2. r[j - m] = q[j]
        BY <1>3, <4>1
      <4> QED BY <4>1, <4>2 DEF Before
    <3> QED BY <3>1, <3>2
  <2>4. F \cup Before(q, m + k) \subseteq G \cup Before(r, k)
    BY <2>3 DEF Before
  <2> QED BY <2>1, <2>2, <2>4, InOrderMore
<1> QED BY <1>2, <1>3, <1>4 DEF OrderedFrom

\* What is through gives nothing new.
LEMMA OrderedSettled ==
    ASSUME SignalTypes, NEW q \in Seq(Agenda \cup Walks), \A f \in ToSet(q) : FrameOK(f),
           NEW F, Fired \subseteq F, OrderedFrom(q, F)
    PROVE  OrderedFrom(Settled(q), F)
<1>1. PICK n \in Nat : n = Len(q) /\ DOMAIN q = 1 .. n
  BY LenProperties
<1>2. PICK m \in Nat : m <= n /\ Settled(q) = SubSeq(q, m + 1, n) /\ \A k \in 1 .. m : Through(q[k])
  BY <1>1, SettledFront
<1>3. ASSUME NEW k \in 1 .. m PROVE Gives(q[k]) \subseteq F
  <2>1. PICK f \in Agenda \cup Walks : f = q[k] /\ f \in ToSet(q) /\ FrameOK(f) /\ Through(f)
    <3>1. k \in 1 .. n
      BY <1>2
    <3> QED BY <1>1, <1>2, <3>1, ElementOfSeq DEF ToSet
  <2>2. CASE f.op = "walk"
    BY <2>1, <2>2 DEF Gives
  <2>3. CASE f.op # "walk"
    <3>1. f.sig \in Signals /\ f.i \in Nat
      BY <2>1, <2>3 DEF Agenda, Walks
    <3>2. CASE f.op = "fire"
      BY <2>1, <3>1, <3>2 DEF Gives, FrameOK, Through, Fired
    <3>3. CASE f.op = "deps"
      <4>1. f.i > Len(dependents[f.sig])
        BY <2>1, <3>3 DEF Through
      <4>2. Deps(f.sig, f.i) = {}
        BY <3>1, <4>1, DepsParts
      <4> QED BY <2>1, <3>3, <4>2 DEF Gives
    <3> QED BY <2>1, <3>2, <3>3 DEF Gives
  <2> QED BY <2>2, <2>3
<1>4. OrderedFrom(SubSeq(q, m + 1, n), F)
  BY <1>1, <1>2, <1>3, OrderedSlice
<1> QED BY <1>2, <1>4

\* The first call is back, or goes on as others do.
LEMMA OrderedTail ==
    ASSUME NEW S, NEW q \in Seq(S), q # <<>>, NEW F, OrderedFrom(q, F)
    PROVE  InOrder(Head(q), F) /\ OrderedFrom(Tail(q), F \cup Gives(Head(q)))
<1>1. PICK n \in Nat : n = Len(q) /\ DOMAIN q = 1 .. n /\ 1 <= n /\ q[1] = Head(q)
  <2>1. Len(q) # 0
    BY LenProperties, EmptySeq
  <2> QED BY <2>1, LenProperties, HeadTailProperties
<1>2. Before(q, 1) = {}
  BY DEF Before
<1>3. InOrder(Head(q), F)
  <2>1. InOrder(q[1], F \cup Before(q, 1))
    <3>1. 1 \in DOMAIN q
      BY <1>1
    <3> QED BY <3>1 DEF OrderedFrom
  <2> QED BY <1>1, <1>2, <2>1
<1>4. Tail(q) = SubSeq(q, 1 + 1, n)
  BY <1>1, TailIsSubSeq
<1>5. OrderedFrom(SubSeq(q, 1 + 1, n), F \cup Gives(Head(q)))
  <2>1. \A k \in 1 .. 1 : Gives(q[k]) \subseteq F \cup Gives(Head(q))
    BY <1>1
  <2> QED BY <1>1, <2>1, OrderedSlice, Zenon
<1> QED BY <1>3, <1>4, <1>5

LEMMA OrderedOne ==
    ASSUME NEW f, NEW F, InOrder(f, F)
    PROVE  OrderedFrom(<<f>>, F) /\ GivesAll(<<f>>) = Gives(f)
<1>1. PICK p : p = <<f>>
  OBVIOUS
<1>2. DOMAIN p = {1} /\ p[1] = f /\ ToSet(p) = {f}
  BY <1>1, SetOfOne
<1> HIDE <1>1
<1>3. Before(p, 1) = {}
  BY DEF Before
<1>4. OrderedFrom(p, F) /\ GivesAll(p) = Gives(f)
  BY <1>2, <1>3, InOrderMore DEF OrderedFrom, GivesAll
<1> QED BY <1>1, <1>4

LEMMA OrderedCons ==
    ASSUME NEW S, NEW f \in S, NEW q \in Seq(S), NEW F, InOrder(f, F), OrderedFrom(q, F \cup Gives(f))
    PROVE  OrderedFrom(<<f>> \o q, F)
<1>1. PICK p \in Seq(S) : p = <<f>>
  BY OneCall
<1>2. OrderedFrom(p, F) /\ GivesAll(p) = Gives(f)
  BY <1>1, OrderedOne
<1>3. OrderedFrom(p \o q, F)
  BY <1>2, OrderedConcat
<1> QED BY <1>1, <1>3

\* Dispatches give nothing, and wait for nothing.
LEMMA OrderedWalks ==
    ASSUME NEW q, NEW F, \A f \in ToSet(q) : f.op = "walk"
    PROVE  OrderedFrom(q, F) /\ GivesAll(q) = {}
<1>1. \A k \in DOMAIN q : q[k].op = "walk"
  BY DEF ToSet
<1>2. \A f \in ToSet(q) : Gives(f) = {}
  BY DEF Gives
<1> QED BY <1>1, <1>2 DEF OrderedFrom, InOrder, GivesAll

LEMMA OrderedFreed ==
    ASSUME NEW q \in Seq(Agenda \cup Walks), NEW n \in Nodes, NEW F, OrderedFrom(q, F)
    PROVE  OrderedFrom(FreeNode(q, n), F)
<1>1. PICK p : p = FreeNode(q, n)
  OBVIOUS
<1>2. /\ DOMAIN p = DOMAIN q /\ DOMAIN q = 1 .. Len(q) /\ Len(q) \in Nat
      /\ \A k \in DOMAIN q : IF q[k].op # "walk" THEN p[k] = q[k] ELSE p[k].op = "walk"
  BY <1>1, FreedWalks, LenProperties
<1>3. \A k \in DOMAIN q : Gives(p[k]) = Gives(q[k]) /\ \A G : InOrder(q[k], G) => InOrder(p[k], G)
  BY <1>2 DEF Gives, InOrder
<1>4. ASSUME NEW k \in DOMAIN q PROVE Before(p, k) = Before(q, k)
  <2>1. \A j \in 1 .. k - 1 : j \in DOMAIN q
    BY <1>2
  <2> QED BY <1>3, <2>1 DEF Before
<1>5. OrderedFrom(p, F)
  BY <1>2, <1>3, <1>4 DEF OrderedFrom
<1> QED BY <1>1, <1>5

\* A signal that is made, or aborted, leaves the calls that are under way as
\* they are.
Steady(f) ==
    f.op # "walk" =>
        /\ dependents'[f.sig] = dependents[f.sig] /\ Sources(f.sig)' = Sources(f.sig)
        /\ reason'[f.sig] \in {reason[f.sig], Undefined} \/ Sources(f.sig) = {}

LEMMA OrderedKept ==
    ASSUME NEW q \in Seq(Agenda \cup Walks), \A f \in ToSet(q) : Steady(f), NEW F, OrderedFrom(q, F)
    PROVE  OrderedFrom(q, F)'
<1>1. DOMAIN q = 1 .. Len(q) /\ Len(q) \in Nat
  BY LenProperties
<1>2. ASSUME NEW k \in DOMAIN q, NEW G
      PROVE  Gives(q[k])' = Gives(q[k]) /\ (InOrder(q[k], G) => InOrder(q[k], G)')
  <2>1. PICK f \in Agenda \cup Walks : f = q[k] /\ Steady(f)
    BY <1>1, ElementOfSeq DEF ToSet
  <2>2. CASE f.op = "walk"
    BY <2>1, <2>2 DEF Gives, InOrder
  <2>3. CASE f.op # "walk"
    <3>1. Deps(f.sig, f.i)' = Deps(f.sig, f.i)
      BY <2>1, <2>3 DEF Deps, Steady
    <3>2. Follower(f.sig, G) => Follower(f.sig, G)'
      BY <2>1, <2>3 DEF Follower, Steady
    <3> QED BY <2>1, <3>1, <3>2 DEF Gives, InOrder
  <2> QED BY <2>2, <2>3
<1>3. ASSUME NEW k \in DOMAIN q PROVE Before(q, k)' = Before(q, k)
  <2>1. \A j \in 1 .. k - 1 : j \in DOMAIN q
    BY <1>1
  <2> QED BY <1>2, <2>1 DEF Before
<1> QED BY <1>2, <1>3 DEF OrderedFrom

LEMMA OrderedNext ==
    ASSUME stack' \in Seq(Agenda \cup Walks), \A f \in ToSet(stack') : Steady(f),
           NEW F, F \subseteq Fired', OrderedFrom(stack', F)
    PROVE  Ordered'
<1>1. PICK q \in Seq(Agenda \cup Walks) : q = stack'
  OBVIOUS
<1>2. PICK G : G = Fired'
  OBVIOUS
<1>3. OrderedFrom(q, G)
  BY <1>1, <1>2, OrderedMore
<1>4. OrderedFrom(q, G)'
  BY <1>1, <1>3, OrderedKept
<1> QED BY <1>1, <1>2, <1>4 DEF Ordered

\* Whoever had its event still has it after a source's.
LEMMA SourceKept ==
    ASSUME ReasonKept, Pending, SourceFirst, UNCHANGED fired,
           \A t \in Signals : aborted[t] => Sources(t)' = Sources(t)
    PROVE  SourceFirst'
BY DEF ReasonKept, Pending, SourceFirst

LEMMA FiredGrows ==
    ASSUME \A t \in Signals : fired[t] => fired'[t]
    PROVE  Fired \subseteq Fired'
BY DEF Fired

\* The calls under way, when only signals are made or aborted.
LEMMA SteadyCalls ==
    ASSUME StackTypes, ReasonKept, NEW f \in ToSet(stack),
           \A t \in Signals : aborted[t] => dependents'[t] = dependents[t] /\ Sources(t)' = Sources(t)
    PROVE  Steady(f)
<1>1. FrameOK(f) /\ f \in Agenda \cup Walks
  BY ElementOfSeq, LenProperties DEF StackTypes, ToSet, FrameOK
<1> QED BY <1>1 DEF Agenda, Walks, FrameOK, Steady, ReasonKept

\* When no signal gets a dependent, or a reason, all calls are steady.
LEMMA SteadyAll ==
    ASSUME UNCHANGED <<dependents, reason>>
    PROVE  \A f : Steady(f)
BY DEF Steady, Sources

LEMMA MakeFirst ==
    ASSUME IInv, ReasonKept, StackTypes, FirstInv,
           NEW s \in Signals, NEW k \in Kinds, NEW b \in BOOLEAN, NEW r, Make(s, k, b, r),
           ~b => r = Undefined, UNCHANGED <<dependents, list, node, stack>>,
           UNCHANGED fired \/ (b /\ fired' = [fired EXCEPT ![s] = TRUE])
    PROVE  FirstInv'
<1>1. /\ aborted \in [Signals -> BOOLEAN] /\ fired \in [Signals -> BOOLEAN]
      /\ stack \in Seq(Agenda \cup Walks)
  BY DEF IInv, SignalTypes, StackTypes
<1>2. \A t \in Signals : Sources(t)' = Sources(t)
  BY DEF Sources
<1>3. aborted'[s] = b /\ reason'[s] = r /\ DOMAIN reason' = Signals
  BY <1>1 DEF Make, FirstInv, Pending
<1>4. \A t \in Signals : t # s => aborted'[t] = aborted[t] /\ reason'[t] = reason[t] /\ fired'[t] = fired[t]
  BY <1>1 DEF Make, FirstInv, Pending
<1>5. ~aborted[s] /\ ~fired[s] /\ Sources(s) = {}
  <2>1. kind[s] = "none"
    BY DEF Make
  <2> QED BY <2>1 DEF IInv, Unmade, OnlyAny, FirstInv, Pending, Sources
<1>7. Ordered'
  <2>1. \A f \in ToSet(stack') : Steady(f)
    BY <1>2, SteadyCalls
  <2>2. Fired \subseteq Fired'
    BY <1>1, FiredGrows
  <2> QED BY <1>1, <2>1, <2>2, OrderedNext DEF FirstInv, Ordered
<1>8. Listening' /\ Walking'
  BY DEF FirstInv, Listening, Walking, InList
<1>9. Pending'
  <2>1. ASSUME NEW t \in Signals, ~aborted'[t] PROVE reason'[t] = Undefined /\ ~fired'[t]
    <3>1. CASE t = s
      BY <1>3, <1>5, <2>1, <3>1
    <3>2. CASE t # s
      BY <1>4, <2>1, <3>2 DEF FirstInv, Pending
    <3> QED BY <3>1, <3>2
  <2> QED BY <1>3, <2>1 DEF Pending
<1>10. SourceFirst'
  <2>1. \A t \in Signals : fired[t] => fired'[t]
    BY <1>4, <1>5
  <2>2. ASSUME NEW d \in Signals, fired'[d], reason'[d] # Undefined, Sources(d) # {}
        PROVE  \E t \in Sources(d) : fired'[t]
    <3>1. d # s
      BY <1>5, <2>2
    <3>2. PICK t \in Sources(d) : fired[t]
      BY <1>4, <2>2, <3>1 DEF FirstInv, SourceFirst
    <3> QED BY <2>1, <3>2 DEF Sources
  <2> QED BY <1>2, <2>2 DEF SourceFirst
<1> QED BY <1>7, <1>8, <1>9, <1>10 DEF FirstInv

LEMMA PendingFirst ==
    ASSUME IInv, ReasonKept, StackTypes, FirstInv,
           NEW s \in Signals, NEW inputs \in SUBSET Signals, AnyPending(s, inputs)
    PROVE  FirstInv'
<1>1. /\ aborted \in [Signals -> BOOLEAN] /\ dependents \in [Signals -> Seq(Signals)]
      /\ list \in [Signals -> Seq(Nodes)] /\ stack \in Seq(Agenda \cup Walks)
      /\ DOMAIN reason = Signals
  BY DEF IInv, SignalTypes, StackTypes, FirstInv, Pending
<1>2. PICK added \in [inputs -> Nodes \ Listed] :
          /\ list' = [t \in Signals |-> IF t \in inputs THEN Append(list[t], added[t]) ELSE list[t]]
          /\ node' = [n \in Nodes |-> IF \E t \in inputs : added[t] = n
                                       THEN [calls |-> s, once |-> FALSE] ELSE node[n]]
  BY DEF AnyPending
<1>3. /\ aborted'[s] = FALSE /\ reason'[s] = Undefined /\ DOMAIN reason' = Signals
      /\ UNCHANGED <<fired, stack>> /\ \A t \in inputs : ~aborted[t]
      /\ ~aborted[s]
  BY <1>1 DEF AnyPending, Make, IInv, Unmade
<1>4. \A t \in Signals : t # s => aborted'[t] = aborted[t] /\ reason'[t] = reason[t]
  BY <1>1 DEF AnyPending, Make
<1>5. \A t \in Signals : ToSet(dependents'[t]) = IF t \in inputs THEN ToSet(dependents[t]) \cup {s} ELSE ToSet(dependents[t])
  BY <1>1, SetOfAppended DEF AnyPending
<1>6. ASSUME NEW t \in Signals, aborted[t] PROVE dependents'[t] = dependents[t] /\ Sources(t)' = Sources(t)
  <2>1. t \notin inputs /\ t # s
    BY <1>3, <1>6
  <2>2. dependents'[t] = dependents[t]
    BY <1>1, <2>1 DEF AnyPending
  <2>3. \A u \in Signals : t \in ToSet(dependents'[u]) <=> t \in ToSet(dependents[u])
    BY <1>5, <2>1
  <2> QED BY <2>2, <2>3 DEF Sources
<1>7. Ordered'
  <2>1. \A f \in ToSet(stack') : Steady(f)
    BY <1>3, <1>6, SteadyCalls
  <2>2. Fired \subseteq Fired'
    BY <1>3, FiredGrows
  <2> QED BY <1>1, <1>3, <2>1, <2>2, OrderedNext DEF FirstInv, Ordered
<1>8. SourceFirst'
  BY <1>3, <1>6, SourceKept DEF FirstInv
<1>9. Pending'
  <2>1. ASSUME NEW t \in Signals, ~aborted'[t] PROVE reason'[t] = Undefined /\ ~fired'[t]
    BY <1>3, <1>4, <2>1 DEF FirstInv, Pending
  <2> QED BY <1>3, <2>1 DEF Pending
<1>10. ASSUME NEW t \in Signals
       PROVE  ToSet(list'[t]) = IF t \in inputs THEN ToSet(list[t]) \cup {added[t]} ELSE ToSet(list[t])
  <2>1. CASE t \in inputs
    <3>1. PICK l \in Seq(Nodes), n \in Nodes : l = list[t] /\ n = added[t]
      BY <1>1, <2>1
    <3>2. /\ Append(l, n) \in Seq(Nodes) /\ DOMAIN Append(l, n) = 1 .. Len(l) + 1
          /\ DOMAIN l = 1 .. Len(l) /\ Len(l) \in Nat
          /\ \A i \in 1 .. Len(l) : Append(l, n)[i] = l[i]
          /\ Append(l, n)[Len(l) + 1] = n
      BY AppendProperties, LenProperties
    <3>3. \A i \in 1 .. Len(l) + 1 : i \in 1 .. Len(l) \/ i = Len(l) + 1
      BY <3>2
    <3>4. ToSet(Append(l, n)) = ToSet(l) \cup {n}
      BY <3>2, <3>3 DEF ToSet
    <3> QED BY <1>2, <2>1, <3>1, <3>4
  <2>2. CASE t \notin inputs
    BY <1>2, <2>2
  <2> QED BY <2>1, <2>2
<1>11. Listening'
  <2> SUFFICES ASSUME NEW t \in Signals, NEW n \in ToSet(list'[t]), node'[n].calls # Script
               PROVE  node'[n].calls \in ToSet(dependents'[t])
    BY DEF Listening
  <2>1. CASE n \in ToSet(list[t])
    <3>1. n \in Listed /\ n \in Nodes
      BY <1>1, <2>1, ElementOfSeq, LenProperties DEF Listed, ToSet
    <3>2. node'[n] = node[n]
      BY <1>2, <3>1
    <3> QED BY <1>5, <2>1, <3>2 DEF FirstInv, Listening
  <2>2. CASE n \notin ToSet(list[t])
    <3>1. t \in inputs /\ n = added[t] /\ n \in Nodes
      BY <1>10, <2>2
    <3>2. node'[n] = [calls |-> s, once |-> FALSE]
      BY <1>2, <3>1
    <3>3. s \in ToSet(dependents'[t]) /\ node'[n].calls = s
      <4>1. ToSet(dependents'[t]) = ToSet(dependents[t]) \cup {s}
        BY <1>5, <3>1
      <4>2. node'[n].calls = s
        BY <3>2
      <4> QED BY <4>1, <4>2
    <3> QED BY <3>3
  <2> QED BY <2>1, <2>2
<1>12. Walking'
  <2>1. \A t \in Signals : ToSet(list[t]) \subseteq ToSet(list'[t])
    BY <1>10
  <2>2. \A f \in ToSet(stack) : f.sig \in Signals
    <3>1. \A f \in ToSet(stack) : f \in Agenda \cup Walks
      BY <1>1, ElementOfSeq, LenProperties DEF ToSet
    <3> QED BY <3>1 DEF Agenda, Walks
  <2> QED BY <1>3, <2>1, <2>2 DEF FirstInv, Walking, InList
<1> QED BY <1>7, <1>8, <1>9, <1>11, <1>12 DEF FirstInv

\* Dispatches begin, go on or end, and nodes leave their lists.
LEMMA WalksFirst ==
    ASSUME IInv, StackTypes, FirstInv, UNCHANGED signalVars,
           stack' \in Seq(Agenda \cup Walks), OrderedFrom(stack', Fired), Walking', Listening'
    PROVE  FirstInv'
<1>1. Ordered'
  <2>1. \A f : Steady(f)
    BY SteadyAll DEF signalVars
  <2>2. Fired \subseteq Fired'
    BY FiredGrows DEF signalVars
  <2> QED BY <2>1, <2>2, OrderedNext
<1>2. Pending' /\ SourceFirst'
  BY DEF FirstInv, Pending, SourceFirst, Sources, signalVars
<1> QED BY <1>1, <1>2 DEF FirstInv

LEMMA ListedNodes ==
    ASSUME list \in [Signals -> Seq(Nodes)], NEW t \in Signals
    PROVE  ToSet(list[t]) \subseteq Nodes
<1>1. PICK l \in Seq(Nodes) : l = list[t]
  OBVIOUS
<1>2. ToSet(l) \subseteq Nodes
  BY ElementOfSeq, LenProperties DEF ToSet
<1> QED BY <1>1, <1>2

\* A node is unlinked and freed.
LEMMA UnlinkFirst ==
    ASSUME IInv, StackTypes, FirstInv, UNCHANGED dependents, NEW s \in Signals, NEW n \in Nodes, Unlink(s, n),
           NEW q \in Seq(Agenda \cup Walks), \A f \in ToSet(q) : InList(f), stack' = FreeNode(q, n)
    PROVE  Walking' /\ Listening'
<1>1. /\ list \in [Signals -> Seq(Nodes)] /\ node \in [Nodes -> Listeners]
      /\ list' = [list EXCEPT ![s] = RemoveFirst(list[s], n)]
      /\ node' = [node EXCEPT ![n] = Blank]
  BY DEF IInv, SignalTypes, StackTypes, Unlink
<1>2. ASSUME NEW t \in Signals
      PROVE  ToSet(list'[t]) \subseteq ToSet(list[t]) /\ ToSet(list[t]) \subseteq ToSet(list'[t]) \cup {n}
  <2>1. CASE t = s
    <3>1. PICK l \in Seq(Nodes) : l = list[t]
      BY <1>1
    <3>2. list'[t] = RemoveFirst(l, n)
      BY <1>1, <2>1, <3>1
    <3> QED BY <3>1, <3>2, RemovedFirst
  <2>2. CASE t # s
    BY <1>1, <2>2
  <2> QED BY <2>1, <2>2
<1>3. Listening'
  <2> SUFFICES ASSUME NEW t \in Signals, NEW m \in ToSet(list'[t]), node'[m].calls # Script
               PROVE  node'[m].calls \in ToSet(dependents[t])
    BY DEF Listening
  <2>1. m \in ToSet(list[t]) /\ m \in Nodes
    <3>1. m \in ToSet(list[t])
      BY <1>2
    <3> QED BY <1>1, <3>1, ListedNodes
  <2>2. m # n
    BY <1>1, <2>1 DEF Blank
  <2>3. node'[m] = node[m]
    BY <1>1, <2>1, <2>2
  <2> QED BY <2>1, <2>3 DEF FirstInv, Listening
<1>4. Walking'
  <2>1. PICK p : p = FreeNode(q, n)
    OBVIOUS
  <2>2. /\ DOMAIN p = DOMAIN q /\ DOMAIN q = 1 .. Len(q)
        /\ \A k \in DOMAIN q : q[k] \in Agenda \cup Walks /\ q[k] \in ToSet(q)
        /\ \A k \in DOMAIN q : IF q[k].op # "walk" THEN p[k] = q[k]
                               ELSE /\ p[k].op = "walk" /\ p[k].sig = q[k].sig /\ p[k].at # n
                                    /\ p[k].at \in Nodes => p[k].at = q[k].at
    BY <2>1, FreedWalks, LenProperties, ElementOfSeq DEF ToSet
  <2>3. ASSUME NEW k \in DOMAIN p, p[k].op = "walk", p[k].at \in Nodes PROVE p[k].at \in ToSet(list'[p[k].sig])
    <3>1. q[k].op = "walk" /\ p[k].sig = q[k].sig /\ p[k].at # n /\ p[k].at = q[k].at
      BY <2>2, <2>3
    <3>2. q[k].sig \in Signals /\ q[k].at \in ToSet(list[q[k].sig])
      BY <2>2, <2>3, <3>1 DEF InList, Agenda, Walks
    <3> QED BY <1>2, <3>1, <3>2
  <2>4. stack' = p
    BY <2>1
  <2> QED BY <2>3, <2>4 DEF Walking, InList, ToSet
<1> QED BY <1>3, <1>4

LEMMA ScriptFirst ==
    ASSUME IInv, ReasonKept, StackTypes, FirstInv, NEW s \in Signals,
           \/ NewController(s) \/ \E b \in BOOLEAN : NewTimeout(s, b)
           \/ \E r \in Reasons : NewAborted(s, r)
           \/ \E inputs \in Inputs : AnyOf(s, inputs)
           \/ DispatchEvent(s)
           \/ \E n \in Nodes : RemoveListener(s, n) \/ \E once \in BOOLEAN : AddListener(s, n, once)
    PROVE  FirstInv'
<1>1. /\ list \in [Signals -> Seq(Nodes)] /\ node \in [Nodes -> Listeners]
      /\ stack \in Seq(Agenda \cup Walks)
  BY DEF IInv, SignalTypes, StackTypes
<1>2. OrderedFrom(stack, Fired) /\ Walking /\ Listening
  BY DEF FirstInv, Ordered
<1>3. CASE NewController(s) \/ \E b \in BOOLEAN : NewTimeout(s, b)
  BY <1>3, MakeFirst DEF NewController, NewTimeout, listVars, Kinds
<1>4. CASE \E r \in Reasons : NewAborted(s, r)
  BY <1>4, MakeFirst DEF NewAborted, listVars, Kinds
<1>5. ASSUME NEW inputs \in Inputs, AnyAborted(s, inputs) PROVE FirstInv'
  BY <1>5, MakeFirst DEF AnyAborted, listVars, Kinds
<1>6. ASSUME NEW inputs \in Inputs, AnyPending(s, inputs) PROVE FirstInv'
  BY <1>6, PendingFirst, SignalsAssumption
<1>7. CASE DispatchEvent(s)
  <2>1. UNCHANGED <<signalVars, listVars>>
    BY <1>7 DEF DispatchEvent
  <2>2. PICK p \in Seq(Agenda \cup Walks) :
            p = WalkIfAny(s) /\ \A f \in ToSet(p) : f.op = "walk" /\ InList(f)
    BY WalkStarts DEF InList
  <2>3. stack' = p \o stack
    BY <1>7, <2>2 DEF DispatchEvent
  <2>4. stack' \in Seq(Agenda \cup Walks) /\ ToSet(stack') = ToSet(p) \cup ToSet(stack)
    BY <1>1, <2>3, SetOfConcat
  <2>5. OrderedFrom(stack', Fired)
    <3>1. OrderedFrom(p, Fired) /\ GivesAll(p) = {}
      BY <2>2, OrderedWalks
    <3>2. OrderedFrom(stack, Fired \cup GivesAll(p))
      BY <1>2, <3>1
    <3> QED BY <1>1, <2>3, <3>1, <3>2, OrderedConcat
  <2>6. Walking' /\ Listening'
    BY <1>2, <2>1, <2>2, <2>4 DEF Walking, Listening, InList, signalVars, listVars
  <2> QED BY <2>1, <2>4, <2>5, <2>6, WalksFirst
<1>8. ASSUME NEW n \in Nodes, RemoveListener(s, n) PROVE FirstInv'
  <2>1. UNCHANGED signalVars /\ Unlink(s, n) /\ stack' = FreeNode(stack, n)
    BY <1>8 DEF RemoveListener
  <2>2. Walking' /\ Listening'
    BY <1>1, <1>2, <2>1, UnlinkFirst DEF Walking, signalVars
  <2>3. stack' \in Seq(Agenda \cup Walks) /\ OrderedFrom(stack', Fired)
    BY <1>1, <1>2, <2>1, FreedWalks, OrderedFreed
  <2> QED BY <2>1, <2>2, <2>3, WalksFirst
<1>9. ASSUME NEW n \in Nodes, NEW once \in BOOLEAN, AddListener(s, n, once) PROVE FirstInv'
  <2>1. /\ UNCHANGED <<signalVars, stack>> /\ list' = [list EXCEPT ![s] = Append(list[s], n)]
        /\ node' = [node EXCEPT ![n] = [calls |-> Script, once |-> once]]
    BY <1>9 DEF AddListener
  <2>2. ASSUME NEW t \in Signals
        PROVE  ToSet(list[t]) \subseteq ToSet(list'[t]) /\ ToSet(list'[t]) \subseteq ToSet(list[t]) \cup {n}
    <3>1. CASE t = s
      <4>1. PICK l \in Seq(Nodes) : l = list[t]
        BY <1>1
      <4>2. list'[t] = Append(l, n)
        BY <1>1, <2>1, <3>1, <4>1
      <4>3. /\ DOMAIN Append(l, n) = 1 .. Len(l) + 1 /\ DOMAIN l = 1 .. Len(l) /\ Len(l) \in Nat
            /\ \A i \in 1 .. Len(l) : Append(l, n)[i] = l[i]
            /\ Append(l, n)[Len(l) + 1] = n
        BY AppendProperties, LenProperties
      <4>4. \A i \in 1 .. Len(l) + 1 : i \in 1 .. Len(l) \/ i = Len(l) + 1
        BY <4>3
      <4>5. ToSet(Append(l, n)) = ToSet(l) \cup {n}
        BY <4>3, <4>4 DEF ToSet
      <4> QED BY <4>1, <4>2, <4>5
    <3>2. CASE t # s
      BY <1>1, <2>1, <3>2
    <3> QED BY <3>1, <3>2
  <2>3. Walking'
    <3>1. \A f \in ToSet(stack) : f \in Agenda \cup Walks
      BY <1>1, ElementOfSeq, LenProperties DEF ToSet
    <3>2. \A f \in ToSet(stack) : f.sig \in Signals
      BY <3>1 DEF Agenda, Walks
    <3> QED BY <1>2, <2>1, <2>2, <3>2 DEF Walking, InList
  <2>4. Listening'
    <3> SUFFICES ASSUME NEW t \in Signals, NEW m \in ToSet(list'[t]), node'[m].calls # Script
                 PROVE  node'[m].calls \in ToSet(dependents'[t])
      BY DEF Listening
    <3>1. m \in ToSet(list[t]) \/ m = n
      BY <2>2
    <3>2. m # n
      BY <1>1, <2>1
    <3>3. m \in ToSet(list[t]) /\ m \in Nodes
      BY <1>1, <3>1, <3>2, ElementOfSeq, LenProperties DEF ToSet
    <3>4. node'[m] = node[m] /\ dependents' = dependents
      BY <1>1, <2>1, <3>2, <3>3 DEF signalVars
    <3> QED BY <1>2, <3>3, <3>4 DEF Listening
  <2> QED BY <1>1, <1>2, <2>1, <2>3, <2>4, WalksFirst
<1> QED BY <1>3, <1>4, <1>5, <1>6, <1>7, <1>8, <1>9 DEF AnyOf

\* abort() of a signal that is no dependent, or without a reason.
LEMMA AbortFirst ==
    ASSUME IInv, ReasonKept, StackTypes, FirstInv, UNCHANGED <<kind, dependents, fired, list, node>>,
           NEW s \in Signals, NEW r, NEW frames \in Seq(Agenda \cup Walks), DoAbort(s, r, frames),
           ~aborted[s], kind[s] # "any" \/ r = Undefined,
           \A f \in ToSet(frames) : (FrameOK(f) \/ f.op = "walk") /\ InList(f),
           OrderedFrom(frames, Fired)
    PROVE  FirstInv'
<1>1. SignalTypes /\ DOMAIN reason = Signals
  BY DEF IInv, FirstInv, Pending
<1>2. PICK a \in Agenda, b \in Agenda, c \in Agenda :
          a = Item("fire", s, 0) /\ b = Item("deps", s, 1) /\ c = Item("nested", s, 1)
  BY DEF Item, Agenda
<1>3. Sources(s) = {} \/ r = Undefined
  BY DEF IInv, OnlyAny, Sources
<1>4. PICK p : p = <<a, b, c>>
  OBVIOUS
<1>5. /\ p \in Seq(Agenda \cup Walks) /\ ToSet(p) = {a, b, c}
      /\ DOMAIN p = 1 .. 3 /\ p[1] = a /\ p[2] = b /\ p[3] = c
  BY <1>4 DEF ToSet
<1>6. stack' = p \o frames
  BY <1>2, <1>4 DEF DoAbort
<1> HIDE <1>4
<1>7. stack' \in Seq(Agenda \cup Walks) /\ ToSet(stack') = {a, b, c} \cup ToSet(frames)
  BY <1>5, <1>6, SetOfConcat
<1>8. reason[s] = Undefined
  BY DEF FirstInv, Pending
<1>9. OrderedFrom(p, Fired)
  <2>1. InOrder(a, Fired)
    BY <1>2, <1>8 DEF InOrder, Follower, Item
  <2>2. Before(p, 1) = {} /\ a.sig \in Before(p, 2) /\ Before(p, 3) = Gives(a) \cup Gives(b)
    <3>1. 1 .. 0 = {} /\ 1 .. 1 = {1} /\ 1 .. 2 = {1, 2} /\ 1 - 1 = 0 /\ 2 - 1 = 1 /\ 3 - 1 = 2
      OBVIOUS
    <3> QED BY <1>2, <1>5, <3>1 DEF Before, Gives, Item
  <2>3. InOrder(b, Fired \cup Before(p, 2))
    BY <1>2, <2>2 DEF InOrder, Item
  <2>4. InOrder(c, Fired \cup Before(p, 3))
    BY <1>2, <2>2 DEF InOrder, Item, Gives
  <2>5. \A k \in DOMAIN p : k = 1 \/ k = 2 \/ k = 3
    BY <1>5
  <2> QED BY <1>5, <2>1, <2>2, <2>3, <2>4, <2>5 DEF OrderedFrom
<1>10. OrderedFrom(stack', Fired)
  <2>1. OrderedFrom(frames, Fired \cup GivesAll(p))
    BY OrderedMore
  <2> QED BY <1>5, <1>6, <1>9, <2>1, OrderedConcat
<1>11. \A t \in Signals : Sources(t)' = Sources(t)
  BY DEF Sources
<1>12. ASSUME NEW f \in ToSet(stack') PROVE Steady(f)
  <2>1. CASE f \in {a, b, c}
    <3>1. f.sig = s /\ (reason'[s] = r \/ reason'[s] = reason[s])
      BY <1>1, <1>2, <2>1 DEF Item, DoAbort, Mark
    <3> QED BY <1>3, <1>11, <3>1 DEF Steady
  <2>2. CASE f \in ToSet(frames)
    <3>1. f \in Agenda \cup Walks
      BY <2>2, ElementOfSeq, LenProperties DEF ToSet
    <3> QED BY <1>11, <2>2, <3>1 DEF Agenda, Walks, FrameOK, Steady, ReasonKept
  <2> QED BY <1>7, <1>12, <2>1, <2>2
<1>13. Ordered'
  BY <1>7, <1>10, <1>12, FiredGrows, OrderedNext
<1>14. Walking'
  <2>1. InList(a) /\ InList(b) /\ InList(c)
    BY <1>2 DEF InList, Item
  <2>2. \A f \in ToSet(stack') : InList(f)
    BY <1>7, <2>1
  <2> QED BY <2>2 DEF Walking, InList
<1>15. Listening'
  BY DEF FirstInv, Listening
<1>16. Pending'
  <2>1. DOMAIN reason' = Signals
    BY DEF DoAbort, Mark
  <2>2. \A t \in Signals : ~aborted'[t] => ~aborted[t] /\ reason'[t] = reason[t]
    BY <1>1 DEF DoAbort, Mark
  <2> QED BY <2>1, <2>2 DEF FirstInv, Pending
<1>17. SourceFirst'
  BY <1>11, SourceKept DEF FirstInv
<1> QED BY <1>13, <1>14, <1>15, <1>16, <1>17 DEF FirstInv

\* The calls below the one that runs come after what it gives.
LEMMA RestFirst ==
    ASSUME SignalTypes, StackTypes, FirstInv, stack # <<>>
    PROVE  /\ InOrder(Top, Fired) /\ InList(Top)
           /\ OrderedFrom(Rest, Fired \cup Gives(Top))
           /\ \A f \in ToSet(Rest) : FrameOK(f) /\ InList(f)
           /\ \A f \in ToSet(Below) : FrameOK(f) /\ InList(f)
           /\ Gives(Top) \subseteq Fired => OrderedFrom(Below, Fired) /\ OrderedFrom(Rest, Fired)
<1>1. /\ Top \in ToSet(stack) /\ ToSet(Rest) \subseteq ToSet(stack) /\ ToSet(Below) \subseteq ToSet(stack)
      /\ Rest \in Seq(Agenda \cup Walks)
  BY TopAndRest
<1>2. \A f \in ToSet(stack) : FrameOK(f) /\ InList(f)
  BY DEF StackTypes, FrameOK, FirstInv, Walking
<1>3. InOrder(Top, Fired) /\ OrderedFrom(Rest, Fired \cup Gives(Top))
  BY OrderedTail DEF StackTypes, FirstInv, Ordered, Top, Rest
<1>4. ASSUME Gives(Top) \subseteq Fired PROVE OrderedFrom(Below, Fired) /\ OrderedFrom(Rest, Fired)
  <2>1. Fired \cup Gives(Top) = Fired
    BY <1>4
  <2>2. OrderedFrom(Rest, Fired)
    BY <1>3, <2>1
  <2>3. OrderedFrom(Settled(Rest), Fired)
    BY <1>1, <1>2, <2>2, OrderedSettled
  <2> QED BY <2>2, <2>3 DEF Below
<1> QED BY <1>1, <1>2, <1>3, <1>4

\* What runs first, and what is below it.
LEMMA SettledFirst ==
    ASSUME SignalTypes, NEW p \in Seq(Agenda \cup Walks), NEW r \in Seq(Agenda \cup Walks),
           NEW F, Fired \subseteq F, OrderedFrom(p, F), OrderedFrom(r, F \cup GivesAll(p)),
           \A f \in ToSet(p) \cup ToSet(r) : FrameOK(f) /\ InList(f),
           stack' = p \o r \/ stack' = Settled(p \o r)
    PROVE  /\ stack' \in Seq(Agenda \cup Walks) /\ OrderedFrom(stack', F)
           /\ \A f \in ToSet(stack') : InList(f)
<1>1. PICK q \in Seq(Agenda \cup Walks) : q = p \o r /\ ToSet(q) = ToSet(p) \cup ToSet(r)
  <2>1. p \o r \in Seq(Agenda \cup Walks) /\ ToSet(p \o r) = ToSet(p) \cup ToSet(r)
    BY SetOfConcat, Zenon
  <2> QED BY <2>1
<1>2. OrderedFrom(q, F)
  BY <1>1, OrderedConcat
<1>3. Settled(q) \in Seq(Agenda \cup Walks) /\ ToSet(Settled(q)) \subseteq ToSet(q)
  BY SettledGoing
<1>4. OrderedFrom(Settled(q), F)
  BY <1>1, <1>2, OrderedSettled
<1> QED BY <1>1, <1>2, <1>3, <1>4

LEMMA FireEventFirst ==
    ASSUME IInv, StackTypes, FirstInv, FireEvent
    PROVE  FirstInv'
<1>1. /\ stack # <<>> /\ Top.op = "fire" /\ SignalTypes /\ fired \in [Signals -> BOOLEAN]
      /\ UNCHANGED <<kind, aborted, reason, dependents, armed, list, node>>
  BY DEF FireEvent, listVars, IInv, StackTypes
<1>2. PICK s \in Signals : s = Top.sig /\ aborted[s] /\ Gives(Top) = {s}
  BY <1>1, TopAndRest DEF Agenda, Walks, FrameOK, Gives
<1>3. CASE Through(Top)
  <2>1. stack' = Below /\ UNCHANGED signalVars
    BY <1>1, <1>3 DEF FireEvent, signalVars
  <2>2. Gives(Top) \subseteq Fired
    BY <1>1, <1>2, <1>3 DEF Through, Fired
  <2>3. /\ stack' \in Seq(Agenda \cup Walks) /\ OrderedFrom(stack', Fired)
        /\ \A f \in ToSet(stack') : InList(f)
    BY <1>1, <2>1, <2>2, RestFirst, TopAndRest
  <2>4. Walking' /\ Listening'
    BY <1>1, <2>3 DEF Walking, Listening, InList, FirstInv
  <2> QED BY <2>1, <2>3, <2>4, WalksFirst
<1>4. CASE ~Through(Top)
  <2>1. /\ fired' = [fired EXCEPT ![s] = TRUE]
        /\ stack' = <<Walk(s)>> \o Rest \/ stack' = Settled(WalkIfAny(s) \o Rest)
    BY <1>2, <1>4 DEF FireEvent
  <2>2. PICK p \in Seq(Agenda \cup Walks), r \in Seq(Agenda \cup Walks) :
            /\ r = Rest /\ (stack' = p \o r \/ stack' = Settled(p \o r))
            /\ \A f \in ToSet(p) : f.op = "walk" /\ InList(f)
    <3>1. /\ WalkIfAny(s) \in Seq(Agenda \cup Walks) /\ <<Walk(s)>> \in Seq(Agenda \cup Walks)
          /\ \A f \in ToSet(WalkIfAny(s)) : f.op = "walk" /\ InList(f)
          /\ \A f \in ToSet(<<Walk(s)>>) : f.op = "walk" /\ InList(f)
      BY WalkStarts, SetOfOne DEF InList
    <3> QED BY <1>1, <2>1, <3>1, TopAndRest
  <2>3. PICK F : F = Fired \cup {s}
    OBVIOUS
  <2>4. OrderedFrom(r, F) /\ \A f \in ToSet(r) : FrameOK(f) /\ InList(f)
    <3>1. OrderedFrom(Rest, Fired \cup Gives(Top)) /\ \A f \in ToSet(Rest) : FrameOK(f) /\ InList(f)
      BY <1>1, RestFirst
    <3> QED BY <1>2, <2>2, <2>3, <3>1
  <2>5. OrderedFrom(p, F) /\ GivesAll(p) = {}
    BY <2>2, OrderedWalks
  <2>6. OrderedFrom(r, F \cup GivesAll(p)) /\ Fired \subseteq F
    BY <2>3, <2>4, <2>5
  <2>7. \A f \in ToSet(p) \cup ToSet(r) : FrameOK(f) /\ InList(f)
    BY <2>2, <2>4 DEF FrameOK
  <2>9. /\ stack' \in Seq(Agenda \cup Walks) /\ OrderedFrom(stack', F)
        /\ \A f \in ToSet(stack') : InList(f)
    BY <1>1, <2>2, <2>5, <2>6, <2>7, SettledFirst
  <2>10. F \subseteq Fired'
    BY <1>1, <2>1, <2>3 DEF Fired
  <2>11. Ordered'
    <3>1. \A f : Steady(f)
      BY <1>1, SteadyAll
    <3> QED BY <2>9, <2>10, <3>1, OrderedNext
  <2>12. Walking' /\ Listening'
    BY <1>1, <2>9 DEF Walking, Listening, InList, FirstInv
  <2>13. Pending'
    BY <1>1, <1>2, <2>1 DEF FirstInv, Pending
  <2>14. SourceFirst'
    <3>1. Follower(s, Fired)
      BY <1>1, <1>2, RestFirst DEF InOrder
    <3>2. \A t \in Signals : fired[t] => fired'[t]
      BY <1>1, <2>1
    <3>3. \A t \in Signals : Sources(t)' = Sources(t)
      BY <1>1 DEF Sources
    <3>4. ASSUME NEW d \in Signals, fired'[d], reason[d] # Undefined, Sources(d) # {}
          PROVE  \E t \in Sources(d) : fired[t]
      <4>1. CASE d = s
        BY <3>1, <3>4, <4>1 DEF Follower, Fired
      <4>2. CASE d # s
        BY <1>1, <2>1, <3>4, <4>2 DEF FirstInv, SourceFirst
      <4> QED BY <4>1, <4>2
    <3> QED BY <1>1, <3>2, <3>3, <3>4 DEF SourceFirst, Sources
  <2> QED BY <2>11, <2>12, <2>13, <2>14 DEF FirstInv
<1> QED BY <1>3, <1>4

LEMMA NextDependentFirst ==
    ASSUME IInv, StackTypes, FirstInv, NextDependent
    PROVE  FirstInv'
<1>1. /\ stack # <<>> /\ Top.op \in {"deps", "nested", "tree"} /\ SignalTypes
      /\ UNCHANGED <<signalVars, list, node>>
  BY DEF NextDependent, listVars, IInv
<1>2. PICK s \in Signals, i \in Nat \ {0} : s = Top.sig /\ i = Top.i /\ aborted[s]
  BY <1>1, TopAndRest DEF Agenda, Walks, FrameOK, Loops
<1>3. ASSUME stack' \in Seq(Agenda \cup Walks), OrderedFrom(stack', Fired),
             \A f \in ToSet(stack') : InList(f)
      PROVE  FirstInv'
  <2>1. Walking' /\ Listening'
    BY <1>1, <1>3 DEF Walking, Listening, InList, FirstInv, signalVars
  <2> QED BY <1>1, <1>3, <2>1, WalksFirst
<1>4. CASE Through(Top)
  <2>1. stack' = Below
    BY <1>4 DEF NextDependent
  <2>2. Deps(s, i) = {}
    BY <1>1, <1>2, <1>4, DepsParts DEF Through
  <2>3. Gives(Top) \subseteq Fired
    BY <1>1, <1>2, <2>2 DEF Gives
  <2> QED BY <1>1, <1>3, <2>1, <2>3, RestFirst, TopAndRest
<1>5. CASE ~Through(Top)
  <2>1. i <= Len(dependents[s]) /\ Len(dependents[s]) \in Nat
    BY <1>1, <1>2, <1>5, LenProperties DEF Through, SignalTypes
  <2>2. PICK d \in Signals : /\ d = dependents[s][i] /\ d \in ToSet(dependents[s])
                             /\ Deps(s, i) = {d} \cup Deps(s, i + 1)
    BY <1>1, <2>1, DepsParts
  <2>3. aborted[d] /\ s \in Sources(d)
    BY <1>2, <2>2 DEF IInv, DependentsAborted, Sources
  <2>4. PICK more, fire, tree :
            more = Item(Top.op, s, i + 1) /\ fire = Item("fire", d, 0) /\ tree = Item("tree", d, 1)
    OBVIOUS
  <2>5. more \in Agenda /\ fire \in Agenda /\ tree \in Agenda
    <3>1. i + 1 \in Nat /\ 0 \in Nat /\ 1 \in Nat
      OBVIOUS
    <3> QED BY <1>1, <2>4, <3>1 DEF Item, Agenda
  <2>6. /\ FrameOK(more) /\ FrameOK(fire) /\ FrameOK(tree)
        /\ InList(more) /\ InList(fire) /\ InList(tree)
    <3>1. 1 <= i + 1 /\ 1 <= 1
      OBVIOUS
    <3> QED BY <1>1, <1>2, <2>3, <2>4, <3>1 DEF Item, FrameOK, Loops, InList
  <2>7. /\ more.op = Top.op /\ more.sig = s /\ more.i = i + 1
        /\ fire.op = "fire" /\ fire.sig = d /\ tree.op = "tree" /\ tree.sig = d
        /\ Gives(fire) = {d} /\ Gives(tree) = {}
    BY <2>4 DEF Item, Gives
  <2>8. InOrder(Top, Fired) /\ OrderedFrom(Rest, Fired \cup Gives(Top)) /\ Rest \in Seq(Agenda \cup Walks)
    BY <1>1, RestFirst, TopAndRest
  <2>9. \A F : (s \in F => Follower(d, F))
    BY <2>3 DEF Follower
  <2>10. PICK c \in Seq(Agenda \cup Walks), a \in Seq(Agenda \cup Walks), b \in Seq(Agenda \cup Walks) :
            /\ c = <<more>> /\ a = <<fire>> /\ b = <<tree>>
            /\ ToSet(c) = {more} /\ ToSet(a) = {fire} /\ ToSet(b) = {tree}
    <3>1. PICK c \in Seq(Agenda \cup Walks) : c = <<more>> /\ ToSet(c) = {more}
      BY <2>5, OneCall
    <3>2. PICK a \in Seq(Agenda \cup Walks) : a = <<fire>> /\ ToSet(a) = {fire}
      BY <2>5, OneCall
    <3>3. PICK b \in Seq(Agenda \cup Walks) : b = <<tree>> /\ ToSet(b) = {tree}
      BY <2>5, OneCall
    <3> QED BY <3>1, <3>2, <3>3
  <2>11. PICK p \in Seq(Agenda \cup Walks) :
            /\ stack' = Settled((p \o c) \o Rest) /\ ToSet(p) \subseteq {fire, tree}
            /\ OrderedFrom(p, Fired) /\ InOrder(more, Fired \cup GivesAll(p))
            /\ Gives(Top) \subseteq GivesAll(p) \cup Gives(more)
    <3>1. stack' = Settled(((CASE Top.op = "deps" -> <<fire>>
                               [] Top.op = "nested" -> <<tree>>
                               [] Top.op = "tree" -> IF aborted[d] THEN <<fire>> \o <<tree>> ELSE <<>>)
                             \o <<more>>) \o Rest)
      BY <1>2, <1>5, <2>2, <2>4 DEF NextDependent
    <3>2. CASE Top.op = "deps"
      <4>1. stack' = Settled((a \o c) \o Rest)
        BY <2>10, <3>1, <3>2
      <4>2. s \in Fired
        BY <1>2, <2>8, <3>2 DEF InOrder
      <4>3. InOrder(fire, Fired) /\ InOrder(more, Fired \cup GivesAll(a))
        BY <2>7, <2>9, <3>2, <4>2 DEF InOrder
      <4>4. OrderedFrom(a, Fired) /\ GivesAll(a) = {d}
        BY <2>7, <2>10, <4>3, OrderedOne
      <4>5. Gives(Top) \subseteq GivesAll(a) \cup Gives(more)
        BY <1>2, <2>2, <2>7, <3>2, <4>4 DEF Gives
      <4> QED BY <2>10, <4>1, <4>3, <4>4, <4>5
    <3>3. CASE Top.op = "nested"
      <4>1. stack' = Settled((b \o c) \o Rest)
        BY <2>10, <3>1, <3>3
      <4>2. Deps(s, i) \subseteq Fired
        BY <1>2, <2>8, <3>3 DEF InOrder
      <4>3. InOrder(tree, Fired) /\ InOrder(more, Fired \cup GivesAll(b))
        BY <2>2, <2>7, <3>3, <4>2 DEF InOrder
      <4>4. OrderedFrom(b, Fired)
        BY <2>10, <4>3, OrderedOne
      <4>5. Gives(Top) = {}
        BY <3>3 DEF Gives
      <4> QED BY <2>10, <4>1, <4>3, <4>4, <4>5
    <3>4. CASE Top.op = "tree"
      <4>0. PICK p \in Seq(Agenda \cup Walks) : p = a \o b /\ ToSet(p) = {fire, tree}
        <5>1. a \o b \in Seq(Agenda \cup Walks) /\ ToSet(a \o b) = ToSet(a) \cup ToSet(b)
          BY SetOfConcat
        <5> QED BY <2>10, <5>1
      <4>1. stack' = Settled((p \o c) \o Rest)
        BY <2>3, <2>10, <3>1, <3>4, <4>0
      <4>2. s \in Fired
        BY <1>2, <2>8, <3>4 DEF InOrder
      <4>3. InOrder(fire, Fired) /\ InOrder(more, Fired \cup GivesAll(p)) /\ InOrder(tree, Fired \cup {d})
        BY <2>7, <2>9, <3>4, <4>2 DEF InOrder
      <4>4. OrderedFrom(a, Fired) /\ GivesAll(a) = {d}
        BY <2>7, <2>10, <4>3, OrderedOne
      <4>5. OrderedFrom(b, Fired \cup GivesAll(a))
        BY <2>10, <4>3, <4>4, OrderedOne
      <4>6. OrderedFrom(p, Fired)
        BY <4>0, <4>4, <4>5, OrderedConcat
      <4>7. Gives(Top) = {}
        BY <3>4 DEF Gives
      <4> QED BY <4>0, <4>1, <4>3, <4>6, <4>7
    <3> QED BY <1>1, <3>2, <3>3, <3>4
  <2>12. PICK m \in Seq(Agenda \cup Walks), r \in Seq(Agenda \cup Walks) :
            m = p \o c /\ r = Rest /\ ToSet(m) = ToSet(p) \cup {more}
    <3>1. p \o c \in Seq(Agenda \cup Walks) /\ ToSet(p \o c) = ToSet(p) \cup ToSet(c)
      BY SetOfConcat
    <3> QED BY <2>8, <2>10, <3>1
  <2>13. OrderedFrom(m, Fired) /\ GivesAll(m) = GivesAll(p) \cup Gives(more)
    <3>1. OrderedFrom(c, Fired \cup GivesAll(p))
      BY <2>10, <2>11, OrderedOne
    <3>2. OrderedFrom(m, Fired)
      BY <2>11, <2>12, <3>1, OrderedConcat
    <3> QED BY <2>12, <3>2 DEF GivesAll
  <2>14. OrderedFrom(r, Fired \cup GivesAll(m))
    <3>1. Fired \cup Gives(Top) \subseteq Fired \cup GivesAll(m)
      BY <2>11, <2>13
    <3> QED BY <2>8, <2>12, <3>1, OrderedMore
  <2>15. \A f \in ToSet(m) \cup ToSet(r) : FrameOK(f) /\ InList(f)
    <3>1. \A f \in ToSet(Rest) : FrameOK(f) /\ InList(f)
      BY <1>1, RestFirst
    <3> QED BY <2>6, <2>11, <2>12, <3>1
  <2>16. stack' = Settled(m \o r)
    BY <2>11, <2>12
  <2>17. /\ stack' \in Seq(Agenda \cup Walks) /\ OrderedFrom(stack', Fired)
         /\ \A f \in ToSet(stack') : InList(f)
    BY <1>1, <2>13, <2>14, <2>15, <2>16, SettledFirst
  <2> QED BY <1>3, <2>17
<1> QED BY <1>4, <1>5

\* The listener of any() aborts what was made from the signal, if it is not
\* aborted: the signal is not aborted either, so that the reason is undefined.
LEMMA CallInternalFirst ==
    ASSUME IInv, ReasonKept, StackTypes, FirstInv, CallInternal
    PROVE  FirstInv'
<1>1. /\ stack # <<>> /\ Top.op = "walk" /\ list \in [Signals -> Seq(Nodes)] /\ SignalTypes
      /\ UNCHANGED <<kind, dependents, fired, armed, list, node>>
  BY DEF CallInternal, listVars, StackTypes, IInv
<1>2. Top \in Walks /\ Rest \in Seq(Agenda \cup Walks) /\ Top.sig \in Signals
  BY <1>1, TopAndRest DEF Agenda, Walks
<1>3. PICK d \in Signals : d = node[Top.at].calls /\ Top.at \in Nodes /\ node[Top.at].calls # Script
  BY DEF CallInternal, IInv, SignalTypes, Listeners
<1>4. PICK f \in Agenda \cup Walks : /\ f = [Top EXCEPT !.called = TRUE]
                                     /\ f.op = "walk" /\ f.sig = Top.sig /\ f.at = Top.at
  <2>1. PICK f : f = [Top EXCEPT !.called = TRUE]
    OBVIOUS
  <2>2. f \in Walks /\ f.op = "walk" /\ f.sig = Top.sig /\ f.at = Top.at
    BY <1>1, <1>2, <2>1 DEF Walks
  <2> QED BY <2>1, <2>2
<1>5. PICK p \in Seq(Agenda \cup Walks), r \in Seq(Agenda \cup Walks) :
          p = <<f>> /\ r = Rest /\ ToSet(p) = {f}
  BY <1>2, OneCall
<1>6. p \o r \in Seq(Agenda \cup Walks) /\ ToSet(p \o r) = ToSet(p) \cup ToSet(r)
  BY SetOfConcat
<1>7. /\ InList(Top) /\ InList(f) /\ \A g \in ToSet(r) : FrameOK(g) /\ InList(g)
      /\ OrderedFrom(r, Fired)
  <2>1. /\ InList(Top) /\ \A g \in ToSet(Rest) : FrameOK(g) /\ InList(g)
        /\ OrderedFrom(Rest, Fired \cup Gives(Top))
    BY <1>1, RestFirst
  <2>2. Gives(Top) = {}
    BY <1>1 DEF Gives
  <2> QED BY <1>1, <1>4, <1>5, <2>1, <2>2 DEF InList
<1>8. OrderedFrom(p \o r, Fired)
  <2>1. OrderedFrom(p, Fired) /\ GivesAll(p) = {}
    BY <1>4, <1>5, OrderedWalks
  <2>2. OrderedFrom(r, Fired \cup GivesAll(p))
    BY <1>7, <2>1
  <2> QED BY <2>1, <2>2, OrderedConcat
<1>9. CASE aborted[d]
  <2>1. stack' = p \o r /\ UNCHANGED signalVars
    BY <1>1, <1>3, <1>4, <1>5, <1>9 DEF CallInternal, signalVars
  <2>2. Walking' /\ Listening'
    <3>1. \A g \in ToSet(p \o r) : InList(g)
      BY <1>5, <1>6, <1>7
    <3> QED BY <1>1, <2>1, <3>1 DEF Walking, Listening, InList, FirstInv
  <2> QED BY <1>6, <1>8, <2>1, <2>2, WalksFirst
<1>10. CASE ~aborted[d]
  <2>1. DoAbort(d, reason[Top.sig], p \o r)
    BY <1>3, <1>4, <1>5, <1>10 DEF CallInternal
  <2>2. d \in ToSet(dependents[Top.sig])
    <3>1. Top.at \in ToSet(list[Top.sig])
      BY <1>1, <1>3, <1>7 DEF InList
    <3> QED BY <1>2, <1>3, <3>1 DEF FirstInv, Listening
  <2>3. reason[Top.sig] = Undefined
    BY <1>2, <1>10, <2>2 DEF IInv, DependentsAborted, FirstInv, Pending
  <2>4. \A g \in ToSet(p \o r) : (FrameOK(g) \/ g.op = "walk") /\ InList(g)
    BY <1>4, <1>5, <1>6, <1>7
  <2>5. PICK q \in Seq(Agenda \cup Walks), u \in {reason[Top.sig]} : q = p \o r
    BY <1>6
  <2> QED BY <1>1, <1>8, <1>10, <2>1, <2>3, <2>4, <2>5, AbortFirst
<1> QED BY <1>9, <1>10

\* A listener, or the handler, is back.
LEMMA ReturnsFirst ==
    ASSUME IInv, StackTypes, FirstInv,
           \/ HandlerReturns \/ ListenerThrows \/ FreedReturns
           \/ \E stop \in BOOLEAN : ListenerReturns(stop)
    PROVE  FirstInv'
<1>1. stack # <<>> /\ Top.op = "walk" /\ UNCHANGED signalVars /\ SignalTypes
  BY DEF HandlerReturns, ListenerThrows, FreedReturns, ListenerReturns, Top, listVars, IInv
<1>2. /\ list \in [Signals -> Seq(Nodes)] /\ stack \in Seq(Agenda \cup Walks)
      /\ Top \in Walks /\ Top.sig \in Signals
  BY <1>1, TopAndRest DEF StackTypes, Agenda, Walks
<1>3. /\ Rest \in Seq(Agenda \cup Walks) /\ Below \in Seq(Agenda \cup Walks)
      /\ OrderedFrom(Rest, Fired) /\ OrderedFrom(Below, Fired)
      /\ \A f \in ToSet(Rest) \cup ToSet(Below) : FrameOK(f) /\ InList(f)
  <2>1. Gives(Top) = {}
    BY <1>1 DEF Gives
  <2> QED BY <1>1, <2>1, RestFirst, TopAndRest
<1>4. ASSUME UNCHANGED <<list, node>>, stack' \in Seq(Agenda \cup Walks), OrderedFrom(stack', Fired),
             \A f \in ToSet(stack') : InList(f)
      PROVE  FirstInv'
  <2>1. Walking' /\ Listening'
    BY <1>1, <1>4 DEF Walking, Listening, InList, FirstInv, signalVars
  <2> QED BY <1>1, <1>4, <2>1, WalksFirst
<1>5. CASE HandlerReturns
  <2>1. PICK p \in Seq(Agenda \cup Walks), r \in Seq(Agenda \cup Walks) :
            /\ p = WalkIfAny(Top.sig) /\ r = Rest
            /\ \A f \in ToSet(p) : f.op = "walk" /\ InList(f)
    BY <1>2, <1>3, WalkStarts DEF InList
  <2>2. OrderedFrom(p, Fired) /\ GivesAll(p) = {}
    BY <2>1, OrderedWalks
  <2>3. OrderedFrom(r, Fired \cup GivesAll(p))
    BY <1>3, <2>1, <2>2
  <2>4. \A f \in ToSet(p) \cup ToSet(r) : FrameOK(f) /\ InList(f)
    BY <1>3, <2>1 DEF FrameOK
  <2>5. stack' = Settled(p \o r) /\ UNCHANGED <<list, node>>
    BY <1>5, <2>1 DEF HandlerReturns, listVars
  <2>6. /\ stack' \in Seq(Agenda \cup Walks) /\ OrderedFrom(stack', Fired)
        /\ \A f \in ToSet(stack') : InList(f)
    BY <1>1, <2>2, <2>3, <2>4, <2>5, SettledFirst
  <2> QED BY <1>4, <2>5, <2>6
<1>6. CASE ListenerThrows
  BY <1>3, <1>4, <1>6 DEF ListenerThrows, listVars
<1>7. CASE FreedReturns
  <2>1. UNCHANGED <<list, node>> /\ (stack' = stack \/ stack' = Below)
    BY <1>7 DEF FreedReturns, listVars
  <2> QED BY <1>2, <1>3, <1>4, <2>1 DEF FirstInv, Ordered, Walking
<1>8. ASSUME NEW stop \in BOOLEAN, ListenerReturns(stop) PROVE FirstInv'
  <2>1. PICK next, left :
            /\ next = IF stop THEN {} ELSE Onward(Top)
            /\ left = IF next = {} THEN Below ELSE <<CHOOSE f \in next : TRUE>> \o Rest
    OBVIOUS
  <2>2. /\ Top.at \in Nodes
        /\ \/ Unlink(Top.sig, Top.at) /\ stack' = FreeNode(left, Top.at)
           \/ UNCHANGED <<list, node>> /\ stack' = left
    BY <1>8, <2>1 DEF ListenerReturns, listVars
  <2>3. \A f \in next : f \in Walks /\ f.op = "walk" /\ InList(f)
    <3>1. \A f \in Onward(Top) : \E n \in ToSet(list[Top.sig]) : f = WalkAt(Top, n) /\ n \in Nodes
      BY <1>2, LenProperties, ElementOfSeq DEF Onward, ToSet
    <3>2. \A n \in Nodes : /\ WalkAt(Top, n) \in Walks /\ WalkAt(Top, n).op = "walk"
                           /\ WalkAt(Top, n).sig = Top.sig /\ WalkAt(Top, n).at = n
      BY <1>1, <1>2 DEF WalkAt, Walks
    <3> QED BY <2>1, <3>1, <3>2 DEF InList
  <2>4. /\ left \in Seq(Agenda \cup Walks) /\ OrderedFrom(left, Fired)
        /\ \A f \in ToSet(left) : InList(f)
    <3>1. CASE next = {}
      BY <1>3, <2>1, <3>1
    <3>2. CASE next # {}
      <4>1. PICK f \in next : f = CHOOSE g \in next : TRUE
        BY <3>2
      <4>2. f \in Agenda \cup Walks /\ f.op = "walk" /\ InList(f)
        BY <2>3
      <4>3. PICK p \in Seq(Agenda \cup Walks), r \in Seq(Agenda \cup Walks) :
                p = <<f>> /\ r = Rest /\ ToSet(p) = {f}
        BY <1>3, <4>2, OneCall
      <4>4. p \o r \in Seq(Agenda \cup Walks) /\ ToSet(p \o r) = ToSet(p) \cup ToSet(r)
        BY SetOfConcat
      <4>5. OrderedFrom(p, Fired) /\ GivesAll(p) = {}
        BY <4>2, <4>3, OrderedWalks
      <4>6. OrderedFrom(r, Fired \cup GivesAll(p))
        BY <1>3, <4>3, <4>5
      <4>7. OrderedFrom(p \o r, Fired)
        BY <4>5, <4>6, OrderedConcat
      <4>8. left = p \o r
        BY <2>1, <3>2, <4>1, <4>3
      <4>9. \A g \in ToSet(p \o r) : InList(g)
        BY <1>3, <4>2, <4>3, <4>4
      <4> QED BY <4>4, <4>7, <4>8, <4>9
    <3> QED BY <3>1, <3>2
  <2>5. CASE UNCHANGED <<list, node>> /\ stack' = left
    BY <1>4, <2>4, <2>5
  <2>6. CASE Unlink(Top.sig, Top.at) /\ stack' = FreeNode(left, Top.at)
    <3>1. PICK n \in Nodes, q \in Seq(Agenda \cup Walks), s \in Signals :
              n = Top.at /\ q = left /\ s = Top.sig
      BY <1>2, <2>2, <2>4
    <3>2. UNCHANGED dependents /\ Unlink(s, n) /\ stack' = FreeNode(q, n)
      BY <1>1, <2>6, <3>1 DEF signalVars
    <3>3. Walking' /\ Listening'
      BY <2>4, <3>1, <3>2, UnlinkFirst
    <3>4. stack' \in Seq(Agenda \cup Walks) /\ OrderedFrom(stack', Fired)
      BY <2>4, <3>1, <3>2, FreedWalks, OrderedFreed
    <3> QED BY <1>1, <3>3, <3>4, WalksFirst
  <2> QED BY <2>2, <2>5, <2>6
<1> QED BY <1>5, <1>6, <1>7, <1>8

LEMMA InitFirst == Init => FirstInv
<1> SUFFICES ASSUME Init PROVE FirstInv
  OBVIOUS
<1>1. ToSet(stack) = {} /\ DOMAIN stack = {}
  BY SetOfOne DEF Init
<1>2. \A t \in Signals : ToSet(list[t]) = {}
  BY SetOfOne DEF Init
<1> QED BY <1>1, <1>2 DEF Init, FirstInv, Ordered, OrderedFrom, Listening, Walking, Pending, SourceFirst

LEMMA NextFirst == IInv /\ StackTypes /\ FirstInv /\ [Next]_vars => FirstInv'
<1> SUFFICES ASSUME IInv, StackTypes, FirstInv, [Next]_vars PROVE FirstInv'
  OBVIOUS
<1>1. IInv' /\ ReasonKept
  BY StepInv
<1>2. /\ stack \in Seq(Agenda \cup Walks) /\ OrderedFrom(stack, Fired)
      /\ \A f \in ToSet(stack) : (FrameOK(f) \/ f.op = "walk") /\ InList(f)
  BY DEF StackTypes, FirstInv, Ordered, Walking, FrameOK
<1>3. CASE UNCHANGED vars
  <2>1. UNCHANGED <<signalVars, list, node, stack>>
    BY <1>3 DEF vars, listVars
  <2>2. Walking' /\ Listening'
    BY <2>1 DEF FirstInv, Walking, Listening, InList, signalVars
  <2> QED BY <1>2, <2>1, <2>2, WalksFirst
<1>4. ASSUME NEW s \in Signals, NEW r \in Reasons, Abort(s, r) PROVE FirstInv'
  <2>1. /\ UNCHANGED <<kind, dependents, fired, list, node>> /\ DoAbort(s, r, stack)
        /\ ~aborted[s] /\ kind[s] # "any"
    BY <1>4 DEF Abort, listVars
  <2> QED BY <1>1, <1>2, <2>1, AbortFirst
<1>5. ASSUME NEW s \in Signals, TimeoutFires(s) PROVE FirstInv'
  <2>1. /\ UNCHANGED <<kind, dependents, fired, list, node>> /\ DoAbort(s, TimeoutError, stack)
    BY <1>5 DEF TimeoutFires, listVars
  <2>2. ~aborted[s] /\ kind[s] # "any"
    BY <1>5 DEF TimeoutFires, IInv, TimersPending
  <2> QED BY <1>1, <1>2, <2>1, <2>2, AbortFirst
<1> QED
  BY <1>1, <1>3, <1>4, <1>5, ScriptFirst, FireEventFirst, NextDependentFirst, CallInternalFirst, ReturnsFirst
  DEF Next, ScriptStep, NativeStep

\* A signal that any() made has its event only after one of those it was made
\* from, in whatever order the four steps of the aborts under way read the
\* arrays of dependents.
THEOREM SourcesFirst == Spec => []SourceFirst
<1>1. Init => IInv /\ StackTypes /\ AllDue /\ FirstInv
  BY InitInv, InitDue, InitFirst
<1>2. IInv /\ StackTypes /\ AllDue /\ FirstInv /\ [Next]_vars => (IInv /\ StackTypes /\ AllDue /\ FirstInv)'
  BY StepInv, NextDue, NextFirst
<1>3. FirstInv => SourceFirst
  BY DEF FirstInv
<1> QED BY <1>1, <1>2, <1>3, PTL DEF Spec
=============================================================================
