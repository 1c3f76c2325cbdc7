------------------------- MODULE TimerHandles_proofs -------------------------
(***************************************************************************)
(* Proofs about TimerHandles, for any set of timers and any bound on jobs. *)
(* IInv ties what the properties mention (opaque pointers, close calls,    *)
(* freed memory) to the one thing that decides them, the state of the      *)
(* libuv handle, and to the callback on the C stack.                       *)
(*                                                                         *)
(* The second part is about Immediates, the third about RunLoop, the loop  *)
(* that both are a part of.                                                *)
(***************************************************************************)
EXTENDS TimerHandles, SequencesExt, SequenceTheorems, TLAPS

\* What the state of handle t says about everything else that is kept of t.
Consistent(t) ==
    /\ mem[t] = "unused" <=> handle[t] = "none"
    /\ mem[t] = "freed" <=> handle[t] = "closed"
    /\ opaque[t] <=> handle[t] \in {"armed", "idle"}
    /\ closes[t] = IF handle[t] \in {"closing", "closed"} THEN 1 ELSE 0
    /\ handle[t] = "idle" => callback = t /\ ~interval[t]
    /\ handle[t] = "armed" /\ callback = t => interval[t]

\* A timer callback is on the stack exactly when one of its stages runs, and
\* its structure has not been freed.
ControlOK ==
    /\ stage = "loop" => callback = NoTimer
    /\ stage \in {"job", "drain", "broken"} => callback # NoTimer
    /\ callback # NoTimer => mem[callback] = "live"

IInv == TypeOK /\ (\A t \in Timers : Consistent(t)) /\ ControlOK

\* The initial state is consistent: no structure exists yet.
LEMMA InitIInv == Init => IInv
BY NoTimerAssumption, MaxJobsAssumption
   DEF Init, IInv, TypeOK, Consistent, ControlOK, Memory, Handles, Objects, Stages

\* Every step keeps the invariant, action by action.
LEMMA NextIInv == IInv /\ [Next]_vars => IInv'
<1> SUFFICES ASSUME IInv, [Next]_vars PROVE IInv'
  OBVIOUS
<1> USE NoTimerAssumption, MaxJobsAssumption
        DEF IInv, TypeOK, Consistent, ControlOK, Memory, Handles, Objects, Stages
<1>1. ASSUME NEW t \in Timers, NEW itv \in BOOLEAN, SetTimer(t, itv) PROVE IInv'
  BY <1>1 DEF SetTimer, ScriptRuns
<1>2. ASSUME NEW t \in Timers, ClearTimer(t) PROVE IInv'
  BY <1>2 DEF ClearTimer, CloseTimer, ScriptRuns
<1>3. ASSUME NEW t \in Timers, DropObject(t) PROVE IInv'
  BY <1>3 DEF DropObject, ScriptRuns
<1>4. ASSUME NEW t \in Timers, Finalize(t) PROVE IInv'
  BY <1>4 DEF Finalize, Collectable, CloseTimer, IsClosing
<1>5. ASSUME NEW t \in Timers, Fire(t) PROVE IInv'
  BY <1>5 DEF Fire
<1>6. ASSUME NEW t \in Timers, CloseCallback(t) PROVE IInv'
  BY <1>6 DEF CloseCallback
<1>7. CASE EnqueueJob
  BY <1>7 DEF EnqueueJob, ScriptRuns, timerVars
<1>8. CASE CallReturns
  BY <1>8 DEF CallReturns, timerVars
<1>9. CASE DrainJob
  BY <1>9 DEF DrainJob, timerVars
<1>10. CASE JobReturns
  BY <1>10 DEF JobReturns, timerVars
<1>11. CASE CallbackEnds
  <2>1. CASE Expired(callback)
    <3>1. callback \in Timers /\ mem[callback] = "live"
      BY <1>11 DEF CallbackEnds
    <3>2. handle[callback] = "idle"
      BY <2>1, <3>1 DEF Expired, IsClosing
    <3>3. TypeOK'
      <4>1. closes' \in [Timers -> Nat]
        BY <1>11, <2>1, <3>1 DEF CallbackEnds, CloseTimer
      <4> QED BY <1>11, <2>1, <3>1, <4>1 DEF CallbackEnds, CloseTimer
    <3>4. ASSUME NEW t \in Timers PROVE Consistent(t)'
      <4>1. CASE t = callback
        BY <1>11, <2>1, <3>1, <3>2, <4>1 DEF CallbackEnds, CloseTimer
      <4>2. CASE t # callback
        BY <1>11, <2>1, <3>1, <4>2 DEF CallbackEnds, CloseTimer
      <4> QED BY <4>1, <4>2
    <3>5. ControlOK'
      BY <1>11, <2>1 DEF CallbackEnds
    <3> QED BY <3>3, <3>4, <3>5
  <2>2. CASE ~Expired(callback)
    BY <1>11, <2>2 DEF CallbackEnds, Expired, IsClosing
  <2> QED BY <2>1, <2>2
<1>12. CASE EnterScript
  BY <1>12 DEF EnterScript, timerVars
<1>13. CASE LeaveScript
  BY <1>13 DEF LeaveScript, timerVars
<1>14. CASE UNCHANGED vars
  BY <1>14 DEF vars
<1> QED
  BY <1>1, <1>2, <1>3, <1>4, <1>5, <1>6, <1>7, <1>8, <1>9, <1>10, <1>11,
     <1>12, <1>13, <1>14 DEF Next

\* The inductive invariant holds in every reachable state.
THEOREM Invariance == Spec => []IInv
BY InitIInv, NextIInv, PTL DEF Spec

\* Type correctness.
THEOREM TypeCorrect == Spec => []TypeOK
BY Invariance, PTL DEF IInv

\* The opaque pointer is set exactly while the timer may still run.
THEOREM OpaqueIsExact == Spec => []OpaqueExact
<1>1. IInv => OpaqueExact
  BY DEF IInv, OpaqueExact, TypeOK, Handles, Memory, Consistent
<1> QED BY <1>1, Invariance, PTL

\* uv_close is called at most once on every handle.
THEOREM HandlesClosedOnce == Spec => []ClosedOnce
<1>1. IInv => ClosedOnce
  <2> SUFFICES ASSUME IInv, NEW t \in Timers PROVE closes[t] <= 1
    BY DEF ClosedOnce
  <2>1. Consistent(t)
    BY DEF IInv
  <2> QED BY <2>1, SMT DEF Consistent
<1> QED BY <1>1, Invariance, PTL

\* No structure is freed while libuv or the running callback uses it.
THEOREM StructuresOutliveUse == Spec => []NoUseAfterFree
<1>1. IInv => NoUseAfterFree
  BY DEF IInv, NoUseAfterFree, TypeOK, Memory, Handles, Consistent, ControlOK
<1> QED BY <1>1, Invariance, PTL

-----------------------------------------------------------------------------
(* The action property.                                                    *)

DisarmedByScriptOrLoop ==
    \A t \in Timers :
        handle[t] = "armed" /\ handle'[t] # "armed" =>
            (stage = "loop" /\ callback' = t) \/ ScriptRuns

\* One step disarms a timer only by a script's call or by firing it.
LEMMA StepDisarms == IInv /\ [Next]_vars => DisarmedByScriptOrLoop
<1> SUFFICES ASSUME IInv, [Next]_vars, NEW u \in Timers, handle[u] = "armed",
                    handle'[u] # "armed", ~ScriptRuns
             PROVE  stage = "loop" /\ callback' = u
  BY DEF DisarmedByScriptOrLoop
<1>1. TypeOK /\ Consistent(u)
  BY DEF IInv
<1> USE DEF TypeOK
<1>2. ASSUME NEW t \in Timers, Finalize(t) PROVE FALSE
  <2>1. ~opaque[t]
    <3>1. Consistent(t) /\ mem[t] # "live" /\ mem[t] \in Memory
      BY <1>2 DEF Finalize, Collectable, IInv
    <3> QED BY <3>1 DEF Memory, Consistent
  <2> QED BY <1>2, <2>1 DEF Finalize
<1>3. ASSUME NEW t \in Timers, Fire(t) PROVE stage = "loop" /\ callback' = u
  BY <1>3 DEF Fire
<1>4. ASSUME NEW t \in Timers, CloseCallback(t) PROVE FALSE
  BY <1>4 DEF CloseCallback
<1>5. CASE CallbackEnds
  <2>1. CASE callback = u
    <3>1. ~Expired(callback)
      BY <1>1, <2>1 DEF Consistent, Expired
    <3> QED BY <1>5, <3>1 DEF CallbackEnds
  <2>2. CASE callback # u
    BY <1>1, <1>5, <2>2 DEF CallbackEnds, CloseTimer
  <2> QED BY <2>1, <2>2
<1>6. CASE \E t \in Timers : (\E itv \in BOOLEAN : SetTimer(t, itv)) \/ ClearTimer(t)
                             \/ DropObject(t)
  BY <1>6 DEF SetTimer, ClearTimer, DropObject
<1>7. CASE EnqueueJob \/ CallReturns \/ DrainJob \/ JobReturns \/ EnterScript \/ LeaveScript
  BY <1>7 DEF EnqueueJob, CallReturns, DrainJob, JobReturns, EnterScript, LeaveScript, timerVars
<1>8. CASE UNCHANGED vars
  BY <1>8 DEF vars
<1> QED BY <1>2, <1>3, <1>4, <1>5, <1>6, <1>7, <1>8 DEF Next

\* The collector never takes an armed timer away, whoever dropped its object.
THEOREM CollectorSparesTimers == Spec => OnlyClearedOrFired
<1>1. IInv /\ [Next]_vars => [DisarmedByScriptOrLoop]_vars
  BY StepDisarms
<1> QED
  BY <1>1, Invariance, PTL DEF Spec, OnlyClearedOrFired, DisarmedByScriptOrLoop

-----------------------------------------------------------------------------
(* The refinement.                                                         *)

(* Before the script starts no timer exists, in the C structures or in the
   service. *)
LEMMA InitRefines == Init => Service!Init
BY NoTimerAssumption DEF Init, Service!Init, Promised

\* A step that leaves everything Promised reads alone is a stutter.
LEMMA Stutters ==
    ASSUME UNCHANGED <<mem, opaque, callback, interval>>
    PROVE  UNCHANGED Service!vars
BY DEF Service!vars, Promised

\* A change of one timer's phase only, in the form TimerService gives it.
LEMMA OnePhase ==
    ASSUME NEW t \in Timers, NEW to,
           Promised(t)' = to,
           \A u \in Timers \ {t} : Promised(u)' = Promised(u)
    PROVE  Service!Moves(t, to)
<1> DEFINE ph == [u \in Timers |-> Promised(u)]
<1>1. ph' = [u \in Timers |-> Promised(u)']
  OBVIOUS
<1>2. [ph EXCEPT ![t] = to] = [u \in Timers |-> IF u = t THEN to ELSE ph[u]]
  OBVIOUS
<1>3. ph' = [ph EXCEPT ![t] = to]
  BY <1>1, <1>2
<1> QED BY <1>3 DEF Service!Moves

\* Each step of TimerHandles is a step of TimerService or a stutter.
LEMMA NextRefines == IInv /\ [Next]_vars => [Service!Next]_(Service!vars)
<1> SUFFICES ASSUME IInv, [Next]_vars PROVE [Service!Next]_(Service!vars)
  OBVIOUS
<1>0. TypeOK /\ ControlOK /\ \A t \in Timers : Consistent(t)
  BY DEF IInv
<1> USE <1>0, NoTimerAssumption DEF TypeOK, Consistent, Promised
<1>1. ASSUME NEW t \in Timers, NEW itv \in BOOLEAN, SetTimer(t, itv)
      PROVE  Service!Next
  <2>0. callback # t
    BY <1>1 DEF SetTimer, ControlOK
  <2>1. Promised(t) = "unset" /\ Promised(t)' = "waiting"
    BY <1>1, <2>0 DEF SetTimer
  <2>2. \A u \in Timers \ {t} : Promised(u)' = Promised(u)
    BY <1>1 DEF SetTimer
  <2>3. Service!Moves(t, "waiting")
    BY <2>1, <2>2, OnePhase
  <2> QED BY <1>1, <2>1, <2>3 DEF Service!Next, Service!Set, SetTimer
<1>2. ASSUME NEW t \in Timers, ClearTimer(t) PROVE Service!Next
  <2>1. mem[t] = "live"
    <3>1. Consistent(t) /\ opaque[t] /\ mem[t] \in Memory
      BY <1>2 DEF ClearTimer
    <3> QED BY <3>1 DEF Memory
  <2>2. \A u \in Timers \ {t} : Promised(u)' = Promised(u)
    BY <1>2 DEF ClearTimer, CloseTimer
  <2>3. CASE callback = t
    <3>1. Promised(t) = "running" /\ Promised(t)' = "ending"
      BY <1>2, <2>1, <2>3 DEF ClearTimer, CloseTimer
    <3>2. Service!Moves(t, "ending")
      BY <3>1, <2>2, OnePhase
    <3> QED BY <1>2, <3>1, <3>2 DEF Service!Next, Service!Cancel, ClearTimer
  <2>4. CASE callback # t
    <3>1. Promised(t) = "waiting" /\ Promised(t)' = "over"
      BY <1>2, <2>1, <2>4 DEF ClearTimer, CloseTimer
    <3>2. Service!Moves(t, "over")
      BY <3>1, <2>2, OnePhase
    <3> QED BY <1>2, <3>1, <3>2 DEF Service!Next, Service!Cancel, ClearTimer
  <2> QED BY <2>3, <2>4
<1>3. ASSUME NEW t \in Timers, Fire(t) PROVE Service!Next
  <2>1. callback = NoTimer /\ mem[t] = "live" /\ opaque[t]
    BY <1>3 DEF Fire, ControlOK, Memory
  <2>2. Promised(t) = "waiting" /\ Promised(t)' = "running"
    BY <1>3, <2>1 DEF Fire
  <2>3. \A u \in Timers \ {t} : Promised(u)' = Promised(u)
    BY <1>3, <2>1 DEF Fire
  <2>4. \A u \in Timers : Promised(u) \notin {"running", "ending"}
    BY <2>1
  <2>5. Service!Moves(t, "running")
    BY <2>2, <2>3, OnePhase
  <2> QED BY <1>3, <2>2, <2>4, <2>5 DEF Service!Next, Service!Begin, Fire
<1>4. CASE CallbackEnds
  <2>0. PICK t \in Timers : callback = t
    BY <1>4 DEF CallbackEnds
  <2> USE <2>0
  <2>1. t \in Timers /\ mem[t] = "live" /\ callback' = NoTimer
    BY <1>4 DEF CallbackEnds, ControlOK
  <2>2. UNCHANGED <<mem, interval>>
    BY <1>4 DEF CallbackEnds, CloseTimer
  <2>3. \A u \in Timers \ {t} : Promised(u)' = Promised(u)
    BY <1>4, <2>1, <2>2 DEF CallbackEnds, CloseTimer
  <2>4. CASE Expired(t)
    <3>1. opaque[t] /\ ~opaque'[t] /\ ~interval[t]
      <4>1. handle[t] \in Handles /\ Consistent(t)
        BY <2>1
      <4>2. handle[t] \in {"armed", "idle"}
        BY <2>1, <2>4, <4>1 DEF Handles, Expired, IsClosing
      <4> QED BY <1>4, <2>1, <2>4, <4>2 DEF CallbackEnds, CloseTimer, Expired
    <3>2. Promised(t) = "running" /\ Promised(t)' = "over"
      BY <2>1, <2>2, <3>1
    <3>3. Service!Moves(t, "over")
      BY <2>1, <2>3, <3>2, OnePhase
    <3> QED BY <2>1, <2>2, <3>1, <3>2, <3>3 DEF Service!Next, Service!End
  <2>5. CASE ~Expired(t) /\ opaque[t]
    <3>1. interval[t] /\ opaque'[t]
      <4>1. ~IsClosing(t)
        BY <2>1, <2>5 DEF IsClosing
      <4> QED BY <1>4, <2>5, <4>1 DEF CallbackEnds, Expired
    <3>2. Promised(t) = "running" /\ Promised(t)' = "waiting"
      BY <2>1, <2>2, <2>5, <3>1
    <3>3. Service!Moves(t, "waiting")
      BY <2>1, <2>3, <3>2, OnePhase
    <3> QED BY <2>1, <2>2, <3>1, <3>2, <3>3 DEF Service!Next, Service!End
  <2>6. CASE ~Expired(t) /\ ~opaque[t]
    <3>1. Promised(t) = "ending" /\ Promised(t)' = "over"
      BY <1>4, <2>1, <2>2, <2>6 DEF CallbackEnds
    <3>2. Service!Moves(t, "over")
      BY <2>1, <2>3, <3>1, OnePhase
    <3> QED BY <2>1, <2>2, <3>1, <3>2 DEF Service!Next, Service!End
  <2> QED BY <2>4, <2>5, <2>6
<1>5. ASSUME NEW t \in Timers, Finalize(t) PROVE UNCHANGED Service!vars
  <2>1. ~opaque[t]
    <3>1. Consistent(t) /\ mem[t] # "live" /\ mem[t] \in Memory
      BY <1>5 DEF Finalize, Collectable
    <3> QED BY <3>1 DEF Memory
  <2> QED BY <1>5, <2>1, Stutters DEF Finalize
<1>6. ASSUME NEW t \in Timers, CloseCallback(t) PROVE UNCHANGED Service!vars
  <2>1. mem[t] = "live" /\ ~opaque[t] /\ callback = NoTimer
    <3>1. Consistent(t) /\ mem[t] \in Memory /\ handle[t] = "closing"
      BY <1>6 DEF CloseCallback
    <3> QED BY <1>6, <3>1 DEF CloseCallback, ControlOK, Memory
  <2>2. \A u \in Timers : Promised(u)' = Promised(u)
    BY <1>6, <2>1 DEF CloseCallback
  <2>3. UNCHANGED interval
    BY <1>6 DEF CloseCallback
  <2> QED BY <2>2, <2>3 DEF Service!vars
<1>7. CASE \/ \E t \in Timers : DropObject(t)
           \/ EnqueueJob \/ CallReturns \/ DrainJob \/ JobReturns
           \/ EnterScript \/ LeaveScript \/ UNCHANGED vars
  BY <1>7, Stutters DEF DropObject, EnqueueJob, CallReturns, DrainJob, JobReturns,
                        EnterScript, LeaveScript, timerVars, vars
<1> QED
  BY <1>1, <1>2, <1>3, <1>4, <1>5, <1>6, <1>7 DEF Next

\* The detailed timers implement the promised ones.
THEOREM Refinement == Spec => ImplementsTimerService
BY InitRefines, NextRefines, Invariance, PTL DEF Spec, ImplementsTimerService, Service!Spec

-----------------------------------------------------------------------------
(* The immediates, Immediates, for any number of them.  Its variables have *)
(* the names they have there, but for those that TimerHandles has as well. *)
(*                                                                         *)
(* ImmInv says of each structure what the state of its handle implies, and *)
(* of the two lists (libuv's own and the one the check phase walks) that   *)
(* together they hold the active handles, each once.  The list that is     *)
(* walked is empty whenever no check phase is under way.                   *)

CONSTANTS Imms, NoImm
VARIABLES immMem, immHandle, tracked, cleared, queue, walk, running, immStage, immPolled

I == INSTANCE Immediates
        WITH mem <- immMem, handle <- immHandle, stage <- immStage, polled <- immPolled

\* What NoImmAssumption says.
ImmAssumed == NoImm \notin Imms

\* What the state of handle i says about everything else kept of i.
ImmConsistent(i) ==
    /\ immMem[i] = "unused" <=> immHandle[i] = "none"
    /\ immHandle[i] = "active" => immMem[i] = "live"
    /\ tracked[i] => immMem[i] = "live"
    /\ cleared[i] => immHandle[i] \in {"closing", "closed"}
    /\ running = i => immMem[i] = "live"

Lists ==
    /\ IsInjective(queue) /\ IsInjective(walk)
    /\ ToSet(queue) \cap ToSet(walk) = {}
    /\ \A i \in Imms : immHandle[i] = "active" <=> i \in ToSet(queue) \cup ToSet(walk)

\* The second list is in use only from the beginning to the end of a phase.
WalkOK ==
    /\ immStage \in {"loop", "poll", "left"} => walk = <<>>
    /\ immStage = "js" /\ running = NoImm => walk = <<>>

ImmInv == ImmAssumed /\ I!TypeOK /\ (\A i \in Imms : ImmConsistent(i)) /\ Lists /\ WalkOK

-----------------------------------------------------------------------------
(* Lists of handles.                                                       *)

\* The elements of a list, by their places.
LEMMA Places ==
    ASSUME NEW S, NEW s \in Seq(S)
    PROVE  /\ Len(s) \in Nat /\ DOMAIN s = 1 .. Len(s)
           /\ \A k \in 1 .. Len(s) : s[k] \in S
BY LenProperties, ElementOfSeq

\* An element put before a list.
LEMMA PutFirst ==
    ASSUME NEW S, NEW e \in S, NEW s \in Seq(S), IsInjective(s), e \notin ToSet(s)
    PROVE  /\ <<e>> \o s \in Seq(S)
           /\ IsInjective(<<e>> \o s)
           /\ ToSet(<<e>> \o s) = ToSet(s) \cup {e}
<1> DEFINE t == <<e>> \o s
<1>1. <<e>> \in Seq(S) /\ Len(<<e>>) = 1 /\ <<e>>[1] = e
  OBVIOUS
<1>2. /\ t \in Seq(S) /\ Len(t) = 1 + Len(s)
      /\ \A k \in 1 .. 1 + Len(s) : t[k] = IF k <= 1 THEN <<e>>[k] ELSE s[k - 1]
  BY <1>1, ConcatProperties
<1>3. Len(s) \in Nat /\ DOMAIN s = 1 .. Len(s) /\ DOMAIN t = 1 .. 1 + Len(s)
  BY <1>2, Places
<1> HIDE DEF t
<1>4. t[1] = e /\ \A k \in 2 .. 1 + Len(s) : k - 1 \in DOMAIN s /\ t[k] = s[k - 1]
  BY <1>1, <1>2, <1>3
<1>5. \A k \in DOMAIN s : s[k] # e
  BY DEF ToSet
<1>6. IsInjective(t)
  BY <1>3, <1>4, <1>5 DEF IsInjective
<1>7. ToSet(t) \subseteq ToSet(s) \cup {e}
  BY <1>3, <1>4 DEF ToSet
<1>8. ASSUME NEW x \in ToSet(s) \cup {e} PROVE x \in ToSet(t)
  <2>1. CASE x = e
    BY <1>3, <1>4, <2>1 DEF ToSet
  <2>2. CASE x # e
    <3>1. PICK k \in DOMAIN s : x = s[k]
      BY <1>8, <2>2 DEF ToSet
    <3>2. k + 1 \in 2 .. 1 + Len(s) /\ (k + 1) - 1 = k
      BY <1>3
    <3>3. t[k + 1] = x /\ k + 1 \in DOMAIN t
      BY <1>3, <1>4, <3>1, <3>2
    <3> QED BY <3>3 DEF ToSet
  <2> QED BY <2>1, <2>2
<1> QED BY <1>2, <1>6, <1>7, <1>8 DEF t

\* An element put after a list.
LEMMA PutLast ==
    ASSUME NEW S, NEW e \in S, NEW s \in Seq(S), IsInjective(s), e \notin ToSet(s)
    PROVE  /\ Append(s, e) \in Seq(S)
           /\ IsInjective(Append(s, e))
           /\ ToSet(Append(s, e)) = ToSet(s) \cup {e}
<1> DEFINE t == Append(s, e)
<1>1. /\ t \in Seq(S) /\ Len(t) = Len(s) + 1
      /\ \A k \in 1 .. Len(s) : t[k] = s[k]
      /\ t[Len(s) + 1] = e
  BY AppendProperties
<1>2. Len(s) \in Nat /\ DOMAIN s = 1 .. Len(s) /\ DOMAIN t = 1 .. Len(s) + 1
  BY <1>1, Places
<1> HIDE DEF t
<1>3. \A k \in DOMAIN s : s[k] # e
  BY DEF ToSet
<1>4. IsInjective(t)
  BY <1>1, <1>2, <1>3 DEF IsInjective
<1>5. ToSet(t) = ToSet(s) \cup {e}
  BY <1>1, <1>2 DEF ToSet
<1> QED BY <1>1, <1>4, <1>5 DEF t

\* The first element taken from a list.
LEMMA TakeFirst ==
    ASSUME NEW S, NEW s \in Seq(S), s # <<>>, IsInjective(s)
    PROVE  /\ Head(s) \in S /\ Tail(s) \in Seq(S)
           /\ IsInjective(Tail(s))
           /\ Head(s) \notin ToSet(Tail(s))
           /\ ToSet(s) = ToSet(Tail(s)) \cup {Head(s)}
<1>1. /\ Head(s) \in S /\ Tail(s) \in Seq(S) /\ Len(Tail(s)) = Len(s) - 1
      /\ \A k \in 1 .. Len(Tail(s)) : Tail(s)[k] = s[k + 1]
  BY HeadTailProperties
<1>2. /\ Len(s) \in Nat \ {0} /\ DOMAIN s = 1 .. Len(s)
      /\ DOMAIN Tail(s) = 1 .. Len(s) - 1
  BY <1>1, EmptySeq, Places
<1>3. s[1] = Head(s) /\ 1 \in DOMAIN s
  BY <1>2
<1> DEFINE t == Tail(s)
           h == Head(s)
<1>4. /\ s[1] = h /\ 1 \in DOMAIN s
      /\ \A k \in DOMAIN t : k \in Nat /\ k # 0 /\ k + 1 \in DOMAIN s /\ t[k] = s[k + 1]
      /\ \A k \in DOMAIN s : k = 1 \/ (k \in Nat /\ k - 1 \in DOMAIN t /\ s[k] = t[k - 1])
  BY <1>1, <1>2, <1>3
<1> HIDE DEF t, h
<1>5. IsInjective(t)
  BY <1>4 DEF IsInjective
<1>6. h \notin ToSet(t)
  <2> SUFFICES ASSUME NEW k \in DOMAIN t, t[k] = h PROVE FALSE
    BY DEF ToSet
  <2>1. s[k + 1] = s[1] /\ k + 1 # 1
    BY <1>4
  <2> QED BY <1>4, <2>1 DEF IsInjective
<1>7. ASSUME NEW x \in ToSet(s) PROVE x \in ToSet(t) \cup {h}
  <2>1. PICK k \in DOMAIN s : x = s[k]
    BY DEF ToSet
  <2> QED BY <1>4, <2>1 DEF ToSet
<1>8. ASSUME NEW x \in ToSet(t) \cup {h} PROVE x \in ToSet(s)
  BY <1>4 DEF ToSet
<1> QED BY <1>1, <1>5, <1>6, <1>7, <1>8 DEF t, h

\* An element taken out of a list, as uv__queue_remove takes out a handle.
LEMMA TakeOut ==
    ASSUME NEW S, NEW s \in Seq(S), NEW e, IsInjective(s)
    PROVE  /\ RemoveFirst(s, e) \in Seq(S)
           /\ IsInjective(RemoveFirst(s, e))
           /\ ToSet(RemoveFirst(s, e)) = ToSet(s) \ {e}
<1>1. Len(s) \in Nat /\ DOMAIN s = 1 .. Len(s) /\ \A k \in 1 .. Len(s) : s[k] \in S
  BY Places
<1>2. CASE ~\E k \in 1 .. Len(s) : s[k] = e
  BY <1>1, <1>2 DEF RemoveFirst, ToSet
<1>3. CASE \E k \in 1 .. Len(s) : s[k] = e
  <2>1. PICK p \in 1 .. Len(s) : s[p] = e
    BY <1>3
  <2>2. {k \in 1 .. Len(s) : s[k] = e} = {p}
    BY <1>1, <2>1 DEF IsInjective
  <2>3. Min({p}) = p
    BY <2>1 DEF Min
  <2>4. RemoveFirst(s, e) = RemoveAt(s, p)
    BY <1>3, <2>2, <2>3 DEF RemoveFirst, SelectInSeq
  <2> DEFINE a == SubSeq(s, 1, p - 1)
             b == SubSeq(s, p + 1, Len(s))
             r == RemoveAt(s, p)
  <2>5. /\ a \in Seq(S) /\ Len(a) = p - 1 /\ \A k \in 1 .. p - 1 : a[k] = s[k]
    <3>1. \A k \in 1 .. p - 1 : s[k] \in S
      BY <1>1, <2>1
    <3> QED BY <1>1, <2>1, <3>1, SubSeqProperties
  <2>6. /\ b \in Seq(S) /\ Len(b) = Len(s) - p
        /\ \A k \in 1 .. Len(s) - p : b[k] = s[k + p]
    <3>1. \A k \in p + 1 .. Len(s) : s[k] \in S
      BY <1>1, <2>1
    <3>2. /\ b \in Seq(S)
          /\ Len(b) = IF p + 1 <= Len(s) THEN Len(s) - (p + 1) + 1 ELSE 0
          /\ \A k \in 1 .. Len(s) - (p + 1) + 1 : b[k] = s[(p + 1) + k - 1]
      BY <1>1, <2>1, <3>1, SubSeqProperties
    <3> HIDE DEF b
    <3>3. Len(b) = Len(s) - p /\ Len(s) - (p + 1) + 1 = Len(s) - p
      <4>1. \A n \in Nat : \A m \in 1 .. n :
               /\ n - (m + 1) + 1 = n - m
               /\ (IF m + 1 <= n THEN n - (m + 1) + 1 ELSE 0) = n - m
        OBVIOUS
      <4> QED BY <1>1, <2>1, <3>2, <4>1
    <3>4. ASSUME NEW k \in 1 .. Len(s) - p PROVE b[k] = s[k + p]
      <4>1. (p + 1) + k - 1 = k + p
        BY <1>1, <2>1
      <4> QED BY <3>2, <3>3, <4>1
    <3> QED BY <3>2, <3>3, <3>4
  <2>7. /\ r \in Seq(S) /\ Len(r) = Len(a) + Len(b)
        /\ \A k \in 1 .. Len(a) + Len(b) : r[k] = IF k <= Len(a) THEN a[k] ELSE b[k - Len(a)]
    BY <2>5, <2>6, ConcatProperties DEF RemoveAt
  <2> HIDE DEF a, b, r
  <2>8. Len(a) + Len(b) = Len(s) - 1 /\ DOMAIN r = 1 .. Len(s) - 1
    <3>1. Len(a) + Len(b) = Len(s) - 1
      BY <1>1, <2>1, <2>5, <2>6
    <3> QED BY <2>7, <3>1, Places
  <2>9. ASSUME NEW k \in 1 .. Len(s) - 1 PROVE r[k] = IF k < p THEN s[k] ELSE s[k + 1]
    <3>1. r[k] = IF k <= p - 1 THEN a[k] ELSE b[k - (p - 1)]
      BY <2>5, <2>7, <2>8
    <3>2. CASE k < p
      <4>1. k <= p - 1 /\ k \in 1 .. p - 1
        BY <1>1, <2>1, <3>2
      <4> QED BY <2>5, <3>1, <3>2, <4>1
    <3>3. CASE ~(k < p)
      <4>1. ~(k <= p - 1) /\ k - (p - 1) \in 1 .. Len(s) - p /\ k - (p - 1) + p = k + 1
        BY <1>1, <2>1, <3>3
      <4> QED BY <2>6, <3>1, <3>3, <4>1
    <3> QED BY <3>2, <3>3
  <2>10. IsInjective(r)
    <3>1. \A k \in 1 .. Len(s) - 1 :
             \E j \in DOMAIN s : r[k] = s[j] /\ j = (IF k < p THEN k ELSE k + 1)
      BY <1>1, <2>1, <2>9
    <3> QED BY <1>1, <2>1, <2>8, <3>1 DEF IsInjective
  <2>11. ASSUME NEW x \in ToSet(r) PROVE x \in ToSet(s) \ {e}
    <3>1. PICK k \in 1 .. Len(s) - 1 : x = r[k]
      BY <2>8 DEF ToSet
    <3>2. PICK j \in 1 .. Len(s) : x = s[j] /\ j # p
      BY <1>1, <2>1, <2>9, <3>1
    <3> QED BY <1>1, <2>1, <3>2 DEF ToSet, IsInjective
  <2>12. ASSUME NEW x \in ToSet(s) \ {e} PROVE x \in ToSet(r)
    <3>1. PICK k \in 1 .. Len(s) : x = s[k] /\ k # p
      BY <1>1, <2>1 DEF ToSet
    <3>2. CASE k < p
      BY <1>1, <2>1, <2>8, <2>9, <3>1, <3>2 DEF ToSet
    <3>3. CASE k > p
      <4>1. k - 1 \in 1 .. Len(s) - 1 /\ ~(k - 1 < p) /\ (k - 1) + 1 = k
        BY <1>1, <2>1, <3>1, <3>3
      <4>2. r[k - 1] = x
        BY <2>9, <3>1, <4>1
      <4> QED BY <2>8, <4>1, <4>2 DEF ToSet
    <3> QED BY <1>1, <2>1, <3>1, <3>2, <3>3
  <2> QED BY <2>4, <2>7, <2>10, <2>11, <2>12 DEF r
<1> QED BY <1>2, <1>3

-----------------------------------------------------------------------------
(* The invariant.                                                          *)

\* The entry script starts without immediates.
LEMMA InitImmInv == ImmAssumed /\ I!Init => ImmInv
<1> SUFFICES ASSUME ImmAssumed, I!Init PROVE ImmInv
  OBVIOUS
<1> USE DEF ImmAssumed, I!Init
<1>1. <<>> \in Seq(Imms) /\ ToSet(<<>>) = {} /\ DOMAIN queue = {} /\ DOMAIN walk = {}
  BY EmptySeq DEF ToSet
<1>2. I!TypeOK
  BY <1>1 DEF I!TypeOK, I!Memory, I!Handles, I!Stages
<1>3. Lists /\ WalkOK
  BY <1>1 DEF Lists, WalkOK, IsInjective
<1>4. \A i \in Imms : ImmConsistent(i)
  BY DEF ImmConsistent
<1> QED BY <1>2, <1>3, <1>4 DEF ImmInv

\* An instance has operators of its own on lists.
LEMMA SameLists ==
    ASSUME NEW s, NEW e
    PROVE  /\ I!RemoveFirst(s, e) = RemoveFirst(s, e)
           /\ I!ToSet(s) = ToSet(s)
           /\ I!IsInjective(s) <=> IsInjective(s)
BY DEF RemoveFirst, I!RemoveFirst, SelectInSeq, I!SelectInSeq, Min, I!Min, RemoveAt, I!RemoveAt,
       ToSet, I!ToSet, IsInjective, I!IsInjective

\* A handle is stopped and closed: it leaves whichever list it is on.
LEMMA StopKeepsLists ==
    ASSUME ImmInv, NEW i \in Imms, NEW next, I!StopAndClose(i, next)
    PROVE  Lists' /\ queue' \in Seq(Imms) /\ walk' \in Seq(Imms)
           /\ (walk = <<>> => walk' = <<>>)
<1>1. /\ queue \in Seq(Imms) /\ walk \in Seq(Imms) /\ immHandle \in [Imms -> I!Handles]
      /\ Lists
  BY DEF ImmInv, I!TypeOK
<1>2. /\ queue' \in Seq(Imms) /\ IsInjective(queue') /\ ToSet(queue') = ToSet(queue) \ {i}
  BY <1>1, TakeOut, SameLists DEF I!StopAndClose, Lists
<1>3. /\ walk' \in Seq(Imms) /\ IsInjective(walk') /\ ToSet(walk') = ToSet(walk) \ {i}
  BY <1>1, TakeOut, SameLists DEF I!StopAndClose, Lists
<1>4. \A j \in Imms : immHandle'[j] = IF j = i THEN "closing" ELSE immHandle[j]
  BY <1>1 DEF I!StopAndClose
<1>5. walk = <<>> => walk' = <<>>
  BY DEF I!StopAndClose, I!RemoveFirst
<1> QED BY <1>1, <1>2, <1>3, <1>4, <1>5 DEF Lists

\* Every step keeps the invariant.
LEMMA NextImmInv == ImmInv /\ [I!Next]_(I!vars) => ImmInv'
<1> SUFFICES ASSUME ImmInv, [I!Next]_(I!vars) PROVE ImmInv'
  OBVIOUS
<1>0. ImmAssumed /\ I!TypeOK /\ Lists /\ WalkOK /\ \A i \in Imms : ImmConsistent(i)
  BY DEF ImmInv
<1> USE <1>0 DEF ImmAssumed, I!TypeOK, I!Memory, I!Handles, I!Stages
<1>1. ASSUME NEW i \in Imms, I!SetImmediate(i) PROVE ImmInv'
  <2>1. immHandle[i] = "none" /\ i \notin ToSet(queue) \cup ToSet(walk)
    BY <1>1 DEF I!SetImmediate, ImmConsistent, Lists
  <2>2. /\ queue' \in Seq(Imms) /\ IsInjective(queue')
        /\ ToSet(queue') = ToSet(queue) \cup {i}
    BY <1>1, <2>1, PutFirst DEF I!SetImmediate, Lists
  <2>3. Lists'
    BY <1>1, <2>1, <2>2 DEF I!SetImmediate, Lists
  <2>4. I!TypeOK'
    BY <1>1, <2>2 DEF I!SetImmediate
  <2>5. WalkOK' /\ \A j \in Imms : ImmConsistent(j)'
    BY <1>1, <2>1 DEF I!SetImmediate, ImmConsistent, WalkOK
  <2> QED BY <2>3, <2>4, <2>5 DEF ImmInv
<1>2. ASSUME NEW i \in Imms, I!ClearImmediate(i) PROVE ImmInv'
  <2>1. I!StopAndClose(i, immStage) /\ immStage = "js" /\ tracked[i]
    BY <1>2 DEF I!ClearImmediate, I!ScriptRuns
  <2>2. Lists' /\ queue' \in Seq(Imms) /\ walk' \in Seq(Imms) /\ (walk = <<>> => walk' = <<>>)
    BY <2>1, StopKeepsLists
  <2>3. I!TypeOK'
    BY <1>2, <2>1, <2>2 DEF I!ClearImmediate, I!StopAndClose
  <2>4. \A j \in Imms : ImmConsistent(j)'
    BY <1>2, <2>1 DEF I!ClearImmediate, I!StopAndClose, ImmConsistent
  <2>5. WalkOK'
    BY <1>2, <2>1, <2>2 DEF I!ClearImmediate, I!StopAndClose, WalkOK
  <2> QED BY <2>2, <2>3, <2>4, <2>5 DEF ImmInv
<1>3. CASE I!EndCheck
  <2>1. /\ immHandle' = [i \in Imms |-> IF immHandle[i] = "closing" THEN "closed" ELSE immHandle[i]]
        /\ walk = <<>> /\ UNCHANGED <<immMem, tracked, cleared, queue, walk, running>>
    BY <1>3 DEF I!EndCheck
  <2>2. I!TypeOK' /\ WalkOK'
    BY <1>3, <2>1 DEF I!EndCheck, WalkOK
  <2>3. \A j \in Imms : ImmConsistent(j)'
    BY <2>1 DEF ImmConsistent
  <2>4. Lists'
    BY <2>1 DEF Lists
  <2> QED BY <2>2, <2>3, <2>4 DEF ImmInv
<1>4. CASE I!BeginCheck
  <2>1. walk = <<>> /\ queue' = <<>> /\ walk' = queue /\ immStage' = "check"
    BY <1>4 DEF I!BeginCheck, WalkOK
  <2>2. ToSet(<<>>) = {} /\ IsInjective(<<>>) /\ <<>> \in Seq(Imms)
    BY EmptySeq DEF ToSet, IsInjective
  <2>3. Lists'
    BY <1>4, <2>1, <2>2 DEF I!BeginCheck, Lists
  <2>4. I!TypeOK' /\ WalkOK' /\ \A j \in Imms : ImmConsistent(j)'
    BY <1>4, <2>1, <2>2 DEF I!BeginCheck, ImmConsistent, WalkOK
  <2> QED BY <2>3, <2>4 DEF ImmInv
<1>5. CASE I!RunImmediate
  <2> DEFINE h == Head(walk)
  <2>1. /\ immStage = "check" /\ walk # <<>> /\ walk' = Tail(walk) /\ queue' = Append(queue, h)
        /\ UNCHANGED <<immMem, immHandle, tracked, cleared, immPolled>>
    BY <1>5 DEF I!RunImmediate
  <2>2. /\ h \in Imms /\ walk' \in Seq(Imms) /\ IsInjective(walk')
        /\ h \notin ToSet(walk') /\ ToSet(walk) = ToSet(walk') \cup {h}
    BY <2>1, TakeFirst DEF Lists
  <2>3. h \notin ToSet(queue)
    BY <2>2 DEF Lists
  <2>4. /\ queue' \in Seq(Imms) /\ IsInjective(queue')
        /\ ToSet(queue') = ToSet(queue) \cup {h}
    BY <2>1, <2>2, <2>3, PutLast DEF Lists
  <2> HIDE DEF h
  <2>5. Lists'
    BY <2>1, <2>2, <2>3, <2>4 DEF Lists
  <2>6. immHandle[h] = "active"
    BY <2>2 DEF Lists
  <2>7. running' = h /\ immStage' = "js"
    <3>1. ~cleared[h]
      BY <2>2, <2>6 DEF ImmConsistent
    <3> QED BY <1>5, <3>1 DEF I!RunImmediate, h
  <2>8. I!TypeOK'
    BY <2>1, <2>2, <2>4, <2>7
  <2>9. WalkOK'
    BY <2>2, <2>7 DEF WalkOK
  <2>10. \A j \in Imms : ImmConsistent(j)'
    BY <2>1, <2>2, <2>6, <2>7 DEF ImmConsistent
  <2> QED BY <2>5, <2>8, <2>9, <2>10 DEF ImmInv
<1>6. CASE I!ImmediateReturns
  <2>1. PICK i \in Imms : running = i
    BY <1>6 DEF I!ImmediateReturns
  <2>2. I!StopAndClose(i, "check") /\ immStage = "js" /\ running' = NoImm
    BY <1>6, <2>1 DEF I!ImmediateReturns
  <2>3. Lists' /\ queue' \in Seq(Imms) /\ walk' \in Seq(Imms)
    BY <2>2, StopKeepsLists
  <2>4. I!TypeOK'
    BY <1>6, <2>1, <2>2, <2>3 DEF I!ImmediateReturns, I!StopAndClose
  <2>5. \A j \in Imms : ImmConsistent(j)'
    BY <1>6, <2>1, <2>2 DEF I!ImmediateReturns, I!StopAndClose, ImmConsistent
  <2>6. WalkOK'
    BY <2>2 DEF I!StopAndClose, WalkOK
  <2> QED BY <2>3, <2>4, <2>5, <2>6 DEF ImmInv
<1>7. CASE I!Poll \/ I!PollReturns \/ I!Leave \/ I!EnterScript \/ I!LeaveScript
  <2>1. UNCHANGED <<immMem, immHandle, tracked, cleared, queue, walk, running>>
    BY <1>7 DEF I!Poll, I!PollReturns, I!Leave, I!EnterScript, I!LeaveScript, I!immVars
  <2>2. I!TypeOK' /\ WalkOK'
    BY <1>7, <2>1 DEF I!Poll, I!PollReturns, I!Leave, I!EnterScript, I!LeaveScript, WalkOK
  <2>3. Lists' /\ \A j \in Imms : ImmConsistent(j)'
    BY <2>1 DEF Lists, ImmConsistent
  <2> QED BY <2>2, <2>3 DEF ImmInv
<1>8. CASE UNCHANGED I!vars
  BY <1>8 DEF I!vars, ImmInv, Lists, ImmConsistent, WalkOK
<1> QED BY <1>1, <1>2, <1>3, <1>4, <1>5, <1>6, <1>7, <1>8 DEF I!Next

\* The invariant holds throughout.
THEOREM ImmInvariance == ASSUME ImmAssumed PROVE I!Spec => []ImmInv
<1> QED BY InitImmInv, NextImmInv, PTL DEF I!Spec

\* Structures, handles and lists keep the shape the C code gives them.
THEOREM ImmediateTypes == ASSUME ImmAssumed PROVE I!Spec => []I!TypeOK
<1>1. ImmInv => I!TypeOK
  BY DEF ImmInv
<1> QED BY <1>1, ImmInvariance, PTL

\* libuv's lists hold exactly the started handles, each once.
THEOREM ListsAreExact == ASSUME ImmAssumed PROVE I!Spec => []I!ListsExact
<1>1. ASSUME ImmInv PROVE I!ListsExact
  <2>1. queue \in Seq(Imms) /\ walk \in Seq(Imms) /\ Lists
    BY <1>1 DEF ImmInv, I!TypeOK
  <2> DEFINE both == queue \o walk
  <2>2. /\ both \in Seq(Imms) /\ Len(both) = Len(queue) + Len(walk)
        /\ \A k \in 1 .. Len(queue) + Len(walk) :
              both[k] = IF k <= Len(queue) THEN queue[k] ELSE walk[k - Len(queue)]
    BY <2>1, ConcatProperties
  <2>3. /\ Len(queue) \in Nat /\ DOMAIN queue = 1 .. Len(queue)
        /\ Len(walk) \in Nat /\ DOMAIN walk = 1 .. Len(walk)
        /\ DOMAIN both = 1 .. Len(queue) + Len(walk)
    BY <2>1, <2>2, Places
  <2>4. ToSet(both) = ToSet(queue) \cup ToSet(walk)
    <3>1. /\ ToSet(both) = Range(both)
          /\ ToSet(queue) = Range(queue) /\ ToSet(walk) = Range(walk)
      BY DEF ToSet, Range
    <3>2. Range(both) = Range(queue) \cup Range(walk)
      BY <2>1, RangeConcatenation
    <3> QED BY <3>1, <3>2
  <2> HIDE DEF both
  <2>5. ASSUME NEW j \in DOMAIN both, NEW k \in DOMAIN both, both[j] = both[k]
        PROVE  j = k
    <3>1. CASE j <= Len(queue) /\ k <= Len(queue)
      BY <2>1, <2>2, <2>3, <2>5, <3>1 DEF Lists, IsInjective
    <3>2. CASE j > Len(queue) /\ k > Len(queue)
      <4>1. /\ j - Len(queue) \in DOMAIN walk /\ k - Len(queue) \in DOMAIN walk
            /\ ~(j <= Len(queue)) /\ ~(k <= Len(queue))
        BY <2>3, <3>2
      <4>2. walk[j - Len(queue)] = walk[k - Len(queue)]
        BY <2>2, <2>3, <2>5, <4>1
      <4>3. j - Len(queue) = k - Len(queue)
        BY <2>1, <4>1, <4>2 DEF Lists, IsInjective
      <4> QED BY <2>3, <4>3
    <3>3. ASSUME NEW m \in DOMAIN both, NEW n \in DOMAIN both,
                 m <= Len(queue), n > Len(queue)
          PROVE  both[m] # both[n]
      <4>1. m \in DOMAIN queue /\ both[m] = queue[m]
        BY <2>2, <2>3, <3>3
      <4>2. n - Len(queue) \in DOMAIN walk /\ ~(n <= Len(queue))
        BY <2>3, <3>3
      <4>3. both[n] = walk[n - Len(queue)]
        BY <2>2, <2>3, <4>2
      <4>4. both[m] \in ToSet(queue) /\ both[n] \in ToSet(walk)
        BY <4>1, <4>2, <4>3 DEF ToSet
      <4> QED BY <2>1, <4>4 DEF Lists
    <3> QED BY <2>3, <2>5, <3>1, <3>2, <3>3
  <2>6. IsInjective(both)
    BY <2>5 DEF IsInjective
  <2>7. I!IsInjective(both) /\ I!ToSet(both) = ToSet(both)
    BY <2>6, SameLists
  <2> QED BY <2>1, <2>4, <2>7 DEF Lists, I!ListsExact, both
<1> QED BY <1>1, ImmInvariance, PTL

\* The table of ids and the callback on the stack point to allocated memory.
THEOREM TableIsLive == ASSUME ImmAssumed PROVE I!Spec => []I!TableLive
<1>1. ImmInv => I!TableLive
  BY DEF ImmInv, I!TypeOK, ImmConsistent, I!TableLive
<1> QED BY <1>1, ImmInvariance, PTL

-----------------------------------------------------------------------------
(* The refinement.                                                         *)

\* Before the script starts no immediate exists, here or in the service.
LEMMA ImmInitRefines == ImmAssumed /\ I!Init => I!Service!Init
BY DEF ImmAssumed, I!Init, I!Service!Init, I!Promised

\* A step that leaves each phase alone is a stutter.
LEMMA ImmStutters ==
    ASSUME \A i \in Imms : I!Promised(i)' = I!Promised(i)
    PROVE  UNCHANGED I!Service!vars
BY DEF I!Service!vars

\* A change of one immediate's phase only, in the form TimerService gives it.
LEMMA ImmOnePhase ==
    ASSUME NEW i \in Imms, NEW to, I!Promised(i)' = to,
           \A j \in Imms \ {i} : I!Promised(j)' = I!Promised(j)
    PROVE  I!Service!Moves(i, to)
<1> DEFINE ph == [j \in Imms |-> I!Promised(j)]
<1>1. ph' = [j \in Imms |-> I!Promised(j)']
  OBVIOUS
<1>2. [ph EXCEPT ![i] = to] = [j \in Imms |-> IF j = i THEN to ELSE ph[j]]
  OBVIOUS
<1>3. ph' = [ph EXCEPT ![i] = to]
  BY <1>1, <1>2
<1> QED BY <1>3 DEF I!Service!Moves

\* Each step of Immediates is a step of TimerService or a stutter.
LEMMA ImmNextRefines == ImmInv /\ [I!Next]_(I!vars) => [I!Service!Next]_(I!Service!vars)
<1> SUFFICES ASSUME ImmInv, [I!Next]_(I!vars) PROVE [I!Service!Next]_(I!Service!vars)
  OBVIOUS
<1>0. ImmAssumed /\ I!TypeOK /\ Lists /\ WalkOK /\ \A i \in Imms : ImmConsistent(i)
  BY DEF ImmInv
<1> USE <1>0 DEF ImmAssumed, I!TypeOK, I!Memory, I!Handles, I!Stages, I!Promised, ImmConsistent
<1>a. [i \in Imms |-> FALSE]' = [i \in Imms |-> FALSE]
  OBVIOUS
<1>1. ASSUME NEW i \in Imms, I!SetImmediate(i) PROVE I!Service!Next
  <2>1. running # i
    BY <1>1 DEF I!SetImmediate
  <2>2. I!Promised(i) = "unset" /\ I!Promised(i)' = "waiting"
    BY <1>1, <2>1 DEF I!SetImmediate
  <2>3. \A j \in Imms \ {i} : I!Promised(j)' = I!Promised(j)
    BY <1>1 DEF I!SetImmediate
  <2>4. I!Service!Moves(i, "waiting")
    BY <2>2, <2>3, ImmOnePhase
  <2>5. [[j \in Imms |-> FALSE] EXCEPT ![i] = FALSE] = [j \in Imms |-> FALSE]
    OBVIOUS
  <2> QED BY <1>a, <2>2, <2>4, <2>5 DEF I!Service!Next, I!Service!Set
<1>2. ASSUME NEW i \in Imms, I!ClearImmediate(i) PROVE [I!Service!Next]_(I!Service!vars)
  <2>1. /\ immMem[i] = "live" /\ UNCHANGED <<immMem, running>>
        /\ immHandle' = [immHandle EXCEPT ![i] = "closing"]
    BY <1>2 DEF I!ClearImmediate, I!StopAndClose
  <2>2. \A j \in Imms \ {i} : I!Promised(j)' = I!Promised(j)
    BY <2>1
  <2>3. CASE immHandle[i] = "active" /\ running = i
    <3>1. I!Promised(i) = "running" /\ I!Promised(i)' = "ending"
      BY <2>1, <2>3
    <3>2. I!Service!Moves(i, "ending")
      BY <2>2, <3>1, ImmOnePhase
    <3> QED BY <1>a, <3>1, <3>2 DEF I!Service!Next, I!Service!Cancel
  <2>4. CASE immHandle[i] = "active" /\ running # i
    <3>1. I!Promised(i) = "waiting" /\ I!Promised(i)' = "over"
      BY <2>1, <2>4
    <3>2. I!Service!Moves(i, "over")
      BY <2>2, <3>1, ImmOnePhase
    <3> QED BY <1>a, <3>1, <3>2 DEF I!Service!Next, I!Service!Cancel
  <2>5. CASE immHandle[i] # "active"
    <3>1. immHandle[i] \in {"closing", "closed"}
      BY <2>1, <2>5
    <3>2. I!Promised(i)' = I!Promised(i)
      BY <2>1, <3>1
    <3> QED BY <2>2, <3>2, ImmStutters
  <2> QED BY <2>3, <2>4, <2>5
<1>3. CASE I!RunImmediate
  <2>1. PICK i \in Imms : i = Head(walk) /\ i \in ToSet(walk)
    <3>1. walk # <<>> /\ walk \in Seq(Imms) /\ IsInjective(walk)
      BY <1>3 DEF I!RunImmediate, Lists
    <3> QED BY <3>1, TakeFirst
  <2>2. immHandle[i] = "active" /\ immMem[i] = "live" /\ running = NoImm /\ ~cleared[i]
    BY <1>3, <2>1 DEF I!RunImmediate, Lists
  <2>3. running' = i /\ UNCHANGED <<immMem, immHandle>>
    BY <1>3, <2>1, <2>2 DEF I!RunImmediate
  <2>4. I!Promised(i) = "waiting" /\ I!Promised(i)' = "running"
    BY <2>2, <2>3
  <2>5. \A j \in Imms \ {i} : I!Promised(j)' = I!Promised(j)
    BY <2>2, <2>3
  <2>6. \A j \in Imms : I!Promised(j) \notin {"running", "ending"}
    BY <2>2
  <2>7. I!Service!Moves(i, "running")
    BY <2>4, <2>5, ImmOnePhase
  <2> QED BY <1>a, <2>4, <2>6, <2>7 DEF I!Service!Next, I!Service!Begin
<1>4. CASE I!ImmediateReturns
  <2>1. PICK i \in Imms : running = i
    BY <1>4 DEF I!ImmediateReturns
  <2>2. /\ immMem[i] = "live" /\ running' = NoImm
        /\ immMem' = [immMem EXCEPT ![i] = "freed"]
        /\ immHandle' = [immHandle EXCEPT ![i] = "closing"]
    BY <1>4, <2>1 DEF I!ImmediateReturns, I!StopAndClose
  <2>3. immHandle[i] \in {"active", "closing", "closed"}
    BY <2>2
  <2>4. \A j \in Imms \ {i} : I!Promised(j)' = I!Promised(j)
    BY <2>1, <2>2
  <2>5. I!Promised(i) \in {"running", "ending"} /\ I!Promised(i)' = "over"
    BY <2>1, <2>2, <2>3
  <2>6. I!Service!Moves(i, "over")
    BY <2>4, <2>5, ImmOnePhase
  <2>7. ~[j \in Imms |-> FALSE][i]
    OBVIOUS
  <2> QED BY <1>a, <2>5, <2>6, <2>7 DEF I!Service!Next, I!Service!End
<1>5. CASE I!EndCheck
  <2>1. /\ running = NoImm /\ UNCHANGED <<immMem, running>>
        /\ immHandle' = [i \in Imms |-> IF immHandle[i] = "closing" THEN "closed" ELSE immHandle[i]]
    BY <1>5 DEF I!EndCheck
  <2>2. \A j \in Imms : I!Promised(j)' = I!Promised(j)
    BY <2>1
  <2> QED BY <2>2, ImmStutters
<1>6. CASE \/ I!BeginCheck \/ I!Poll \/ I!PollReturns \/ I!Leave
           \/ I!EnterScript \/ I!LeaveScript \/ UNCHANGED I!vars
  <2>1. UNCHANGED <<immMem, immHandle, running>>
    BY <1>6 DEF I!BeginCheck, I!Poll, I!PollReturns, I!Leave, I!EnterScript, I!LeaveScript,
               I!immVars, I!vars
  <2>2. \A j \in Imms : I!Promised(j)' = I!Promised(j)
    BY <2>1
  <2> QED BY <2>2, ImmStutters
<1> QED BY <1>1, <1>2, <1>3, <1>4, <1>5, <1>6 DEF I!Next

\* The C structures of immediates implement the service that RunLoop uses.
THEOREM ImmediatesRefine == ASSUME ImmAssumed PROVE I!Spec => I!ImplementsTimerService
<1> QED BY ImmInitRefines, ImmNextRefines, ImmInvariance, PTL
        DEF I!Spec, I!ImplementsTimerService, I!Service!Spec

-----------------------------------------------------------------------------
(* The loop that the timers are part of, RunLoop: JSRT_RuntimeRun leaves   *)
(* nothing undone, for any number of timers, immediates, jobs and requests *)
(* and any bounds of the two job loops.  Its variables have the names they *)
(* have there, but for the length of the job queue.                        *)
(*                                                                         *)
(* What Report looks at are the handles libuv counts; a timer that was     *)
(* cleared by its own callback is no longer one of them although its       *)
(* callback is still on the stack.  LoopInv says where in the C code       *)
(* script may be running, and so that no callback is on the stack there.   *)

CONSTANTS None, MaxRequests, HasServer, EvalBound, AwaitBound
VARIABLES timer, periodic, imm, due, batch, queued, requests, server, closing, errors,
          pc, mode, polled, count, kind, script, current, madeJobs, madeRequests

L == INSTANCE RunLoop WITH jobs <- queued

\* What RunLoopAssumption says.
LoopAssumed ==
    /\ None \notin Timers \cup Imms
    /\ {MaxJobs, MaxRequests, EvalBound, AwaitBound} \subseteq Nat
    /\ HasServer \in BOOLEAN

\* The scripts that run inside the callback of a timer.
InTimer ==
    \/ script \in {"timer", "drain", "broken"}
    \/ script = "job" /\ pc = "timers"

\* Script runs only at the places of the C code that call it.
ScriptsInPlace ==
    /\ script = "entry" => pc = "eval"
    /\ script = "job" => pc \in {"evalJobs", "await", "timers", "ticket"}
    /\ script \in {"timer", "drain", "broken"} => pc = "timers"
    /\ script = "immediate" => pc = "check"
    /\ script = "io" => pc = "poll"

\* The timer or immediate that runs is the one on the stack.
OneCallback ==
    /\ \A t \in Timers : timer[t] \in {"running", "ending"} => InTimer /\ current = t
    /\ \A i \in Imms : imm[i] \in {"running", "ending"} =>
                          script = "immediate" /\ current = i
    /\ InTimer => current \in Timers
    /\ script = "immediate" => current \in Imms

\* The bounds of the model count what was made, so the queues are bounded too.
Counted == queued <= madeJobs /\ requests <= madeRequests

LoopInv == LoopAssumed /\ L!TypeOK /\ Counted /\ ScriptsInPlace /\ OneCallback /\ L!NoWorkLost

\* The entry script is about to be run, and nothing else has been set up.
LEMMA InitLoopInv == LoopAssumed /\ L!Init => LoopInv
<1> SUFFICES ASSUME LoopAssumed, L!Init PROVE LoopInv
  OBVIOUS
<1> USE DEF LoopAssumed, L!Init
<1>1. timer \in [Timers -> L!Timer!Phases] /\ imm \in [Imms -> L!Timer!Phases]
  BY DEF L!Timer!Init, L!Immediate!Init, L!Timer!Phases
<1>2. periodic \in [Timers -> BOOLEAN]
  BY DEF L!Timer!Init
<1>3. L!TypeOK
  <2>1. MaxJobs \in Nat /\ MaxRequests \in Nat
    OBVIOUS
  <2>2. closing \in BOOLEAN /\ errors \in BOOLEAN
    OBVIOUS
  <2>3. queued \in 0 .. MaxJobs /\ madeJobs \in 0 .. MaxJobs
    BY <2>1
  <2>4. requests \in 0 .. MaxRequests /\ madeRequests \in 0 .. MaxRequests
    BY <2>1
  <2>5. pc \in L!Places /\ script \in L!Scripts
    BY DEF L!Places, L!Ended, L!Scripts
  <2>6. count \in Nat /\ current \in Timers \cup Imms \cup {None}
    OBVIOUS
  <2> QED BY <1>1, <1>2, <2>2, <2>3, <2>4, <2>5, <2>6 DEF L!TypeOK
<1>4. Counted /\ ScriptsInPlace /\ OneCallback /\ L!NoWorkLost
  BY DEF Counted, ScriptsInPlace, OneCallback, InTimer, L!NoWorkLost, L!Timer!Init, L!Immediate!Init
<1> QED BY <1>3, <1>4 DEF LoopInv

\* A call of the API happens while script runs, so not after the end.
LEMMA ApiCallLoopInv == LoopInv /\ L!ApiCall => LoopInv'
<1> SUFFICES ASSUME LoopInv, L!ApiCall PROVE LoopInv'
  OBVIOUS
<1> USE DEF LoopAssumed, LoopInv, L!TypeOK, Counted, ScriptsInPlace, OneCallback, InTimer,
        L!NoWorkLost, L!ScriptRuns, L!Scripts, L!Places, L!Ended, L!Timer!Phases,
        L!services, L!io, L!queues, L!control, L!stack
<1>1. ASSUME NEW t \in Timers, NEW p \in BOOLEAN, L!SetTimer(t, p) PROVE LoopInv'
  BY <1>1 DEF L!SetTimer, L!Timer!Set, L!Timer!Moves
<1>2. ASSUME NEW t \in Timers, L!ClearTimer(t) PROVE LoopInv'
  BY <1>2 DEF L!ClearTimer, L!Timer!Cancel, L!Timer!Moves
<1>3. ASSUME NEW i \in Imms, L!SetImmediate(i) PROVE LoopInv'
  BY <1>3 DEF L!SetImmediate, L!Immediate!Set, L!Immediate!Moves
<1>4. ASSUME NEW i \in Imms, L!ClearImmediate(i) PROVE LoopInv'
  BY <1>4 DEF L!ClearImmediate, L!Immediate!Cancel, L!Immediate!Moves
<1>5. CASE L!EnqueueJob
  BY <1>5 DEF L!EnqueueJob
<1>6. CASE L!StartRequest
  BY <1>6 DEF L!StartRequest
<1>7. CASE L!OpenServer
  BY <1>7 DEF L!OpenServer
<1>8. CASE L!CloseServer
  BY <1>8 DEF L!CloseServer
<1> QED BY <1>1, <1>2, <1>3, <1>4, <1>5, <1>6, <1>7, <1>8 DEF L!ApiCall

\* The steps of the entry script and of the two bounded loops of queued.
LEMMA EvalLoopInv ==
    /\ LoopInv
    /\ L!EntryReturns \/ L!BoundedJob \/ L!BoundedJobReturns \/ L!BoundedLoopEnds
    => LoopInv'
<1> SUFFICES ASSUME LoopInv,
                    L!EntryReturns \/ L!BoundedJob \/ L!BoundedJobReturns \/ L!BoundedLoopEnds
             PROVE LoopInv'
  OBVIOUS
<1> USE DEF LoopAssumed, LoopInv, L!TypeOK, Counted, ScriptsInPlace, OneCallback, InTimer,
        L!NoWorkLost, L!Scripts, L!Places, L!Ended, L!services, L!io, L!queues, L!control, L!stack
<1>1. CASE L!EntryReturns
  BY <1>1 DEF L!EntryReturns, L!Goto
<1>2. CASE L!BoundedJob
  BY <1>2 DEF L!BoundedJob, L!InBoundedLoop, L!RunJob
<1>3. CASE L!BoundedJobReturns
  <2>1. CASE count' = count + 1 /\ UNCHANGED <<pc, mode, polled, kind>>
    BY <1>3, <2>1 DEF L!BoundedJobReturns, L!InBoundedLoop
  <2>2. CASE L!LeaveBoundedLoop
    BY <1>3, <2>2 DEF L!BoundedJobReturns, L!InBoundedLoop, L!LeaveBoundedLoop, L!AfterLoop
  <2> QED BY <1>3, <2>1, <2>2 DEF L!BoundedJobReturns
<1>4. CASE L!BoundedLoopEnds
  BY <1>4 DEF L!BoundedLoopEnds, L!InBoundedLoop, L!LeaveBoundedLoop, L!AfterLoop
<1> QED BY <1>1, <1>2, <1>3, <1>4

\* The timers phase of uv_run, down to the end of a timer's callback.
LEMMA TimersLoopInv ==
    /\ LoopInv
    /\ \/ \E t \in Timers : L!Fire(t) \/ L!Elapse(t)
       \/ L!TimerReturns \/ L!DrainJob \/ L!DrainJobReturns \/ L!TimerEnds \/ L!EndTimers
    => LoopInv'
<1> SUFFICES ASSUME LoopInv,
                    \/ \E t \in Timers : L!Fire(t) \/ L!Elapse(t)
                    \/ L!TimerReturns \/ L!DrainJob \/ L!DrainJobReturns
                    \/ L!TimerEnds \/ L!EndTimers
             PROVE LoopInv'
  OBVIOUS
<1> USE DEF LoopAssumed, LoopInv, L!TypeOK, Counted, ScriptsInPlace, OneCallback, InTimer,
        L!NoWorkLost, L!Scripts, L!Places, L!Ended, L!Timer!Phases,
        L!services, L!io, L!queues, L!control, L!stack
<1>1. ASSUME NEW t \in Timers, L!Fire(t) PROVE LoopInv'
  BY <1>1 DEF L!Fire, L!Timer!Begin, L!Timer!Moves
<1>2. ASSUME NEW t \in Timers, L!Elapse(t) PROVE LoopInv'
  BY <1>2 DEF L!Elapse
<1>3. CASE L!TimerReturns
  BY <1>3 DEF L!TimerReturns
<1>4. CASE L!DrainJob
  BY <1>4 DEF L!DrainJob, L!RunJob
<1>5. CASE L!DrainJobReturns
  BY <1>5 DEF L!DrainJobReturns
<1>6. CASE L!TimerEnds
  BY <1>6 DEF L!TimerEnds, L!Timer!End, L!Timer!Moves
<1>7. CASE L!EndTimers
  BY <1>7 DEF L!EndTimers, L!Goto
<1> QED BY <1>1, <1>2, <1>3, <1>4, <1>5, <1>6, <1>7

\* The other phases of uv_run: poll, check and closing.
LEMMA PollLoopInv ==
    /\ LoopInv
    /\ \/ L!StartUvRun \/ L!CompleteRequest \/ L!ServerEvent \/ L!IoReturns \/ L!PollReturns
       \/ \E i \in Imms : L!RunImmediate(i)
       \/ L!ImmediateReturns \/ L!EndCheck \/ L!EndClosing
    => LoopInv'
<1> SUFFICES ASSUME LoopInv,
                    \/ L!StartUvRun \/ L!CompleteRequest \/ L!ServerEvent
                    \/ L!IoReturns \/ L!PollReturns
                    \/ \E i \in Imms : L!RunImmediate(i)
                    \/ L!ImmediateReturns \/ L!EndCheck \/ L!EndClosing
             PROVE LoopInv'
  OBVIOUS
<1> USE DEF LoopAssumed, LoopInv, L!TypeOK, Counted, ScriptsInPlace, OneCallback, InTimer,
        L!NoWorkLost, L!Scripts, L!Places, L!Ended, L!Timer!Phases,
        L!services, L!io, L!queues, L!control, L!stack
<1>1. CASE L!StartUvRun
  BY <1>1 DEF L!StartUvRun
<1>2. CASE L!CompleteRequest
  BY <1>2 DEF L!CompleteRequest, L!Deliver
<1>3. CASE L!ServerEvent
  BY <1>3 DEF L!ServerEvent, L!Deliver
<1>4. CASE L!IoReturns
  BY <1>4 DEF L!IoReturns
<1>5. CASE L!PollReturns
  BY <1>5 DEF L!PollReturns
<1>6. ASSUME NEW i \in Imms, L!RunImmediate(i) PROVE LoopInv'
  BY <1>6 DEF L!RunImmediate, L!Immediate!Begin, L!Immediate!Moves
<1>7. CASE L!ImmediateReturns
  BY <1>7 DEF L!ImmediateReturns, L!Immediate!End, L!Immediate!Moves
<1>8. CASE L!EndCheck
  BY <1>8 DEF L!EndCheck, L!Goto
<1>9. CASE L!EndClosing
  BY <1>9 DEF L!EndClosing, L!Goto
<1> QED BY <1>1, <1>2, <1>3, <1>4, <1>5, <1>6, <1>7, <1>8, <1>9

\* After uv_run: the ticket, and the report that may end the program.
LEMMA ReportLoopInv ==
    LoopInv /\ (L!Ticket \/ L!NoTicket \/ L!TicketReturns \/ L!Report) => LoopInv'
<1> SUFFICES ASSUME LoopInv, L!Ticket \/ L!NoTicket \/ L!TicketReturns \/ L!Report
             PROVE LoopInv'
  OBVIOUS
<1> USE DEF LoopAssumed, LoopInv, L!TypeOK, Counted, ScriptsInPlace, OneCallback, InTimer,
        L!NoWorkLost, L!Scripts, L!Places, L!Ended, L!services, L!io, L!queues, L!control, L!stack
<1>1. CASE L!Ticket
  BY <1>1 DEF L!Ticket, L!RunJob
<1>2. CASE L!NoTicket
  BY <1>2 DEF L!NoTicket, L!Goto
<1>3. CASE L!TicketReturns
  BY <1>3 DEF L!TicketReturns, L!Goto
<1>4. CASE L!Report
  <2>1. L!TypeOK' /\ Counted' /\ ScriptsInPlace' /\ OneCallback'
    BY <1>4 DEF L!Report, L!Goto, L!Timer!Phases
  <2>2. CASE queued > 0 \/ L!Alive
    BY <1>4, <2>1, <2>2 DEF L!Report, L!Goto
  <2>3. CASE ~(queued > 0 \/ L!Alive)
    <3>1. queued = 0 /\ requests = 0 /\ server # "open" /\ ~closing
      BY <2>3 DEF L!Alive
    <3>2. ASSUME NEW t \in Timers PROVE timer[t] \in {"unset", "over"}
      BY <1>4, <2>3 DEF L!Report, L!Alive, L!Timer!Phases
    <3>3. ASSUME NEW i \in Imms PROVE imm[i] \in {"unset", "over"}
      BY <1>4, <2>3 DEF L!Report, L!Alive, L!Timer!Phases
    <3> QED BY <1>4, <2>1, <3>1, <3>2, <3>3 DEF L!Report
  <2> QED BY <2>2, <2>3
<1> QED BY <1>1, <1>2, <1>3, <1>4

\* Every step keeps the invariant.
LEMMA NextLoopInv == LoopInv /\ [L!Next]_(L!vars) => LoopInv'
<1> SUFFICES ASSUME LoopInv, [L!Next]_(L!vars) PROVE LoopInv'
  OBVIOUS
<1>1. CASE L!Next
  BY <1>1, ApiCallLoopInv, EvalLoopInv, TimersLoopInv, PollLoopInv, ReportLoopInv DEF L!Next, L!Advance
<1>2. CASE UNCHANGED L!vars
  BY <1>2 DEF L!vars, LoopInv, L!TypeOK, Counted, ScriptsInPlace, OneCallback, InTimer,
              L!NoWorkLost, L!Timer!Phases
<1> QED BY <1>1, <1>2

\* The invariant holds throughout.
THEOREM LoopInvariance == ASSUME LoopAssumed PROVE L!Spec => []LoopInv
<1> QED BY InitLoopInv, NextLoopInv, PTL DEF L!Spec

\* The variables keep their types, whatever the script calls and in whatever
\* order libuv calls back.
THEOREM LoopTypes == ASSUME LoopAssumed PROVE L!Spec => []L!TypeOK
<1>1. LoopInv => L!TypeOK
  BY DEF LoopInv
<1> QED BY <1>1, LoopInvariance, PTL

\* JSRT_RuntimeRun returns true only when no job, timer, immediate, request,
\* server or unreported exception is left.
THEOREM NothingLost == ASSUME LoopAssumed PROVE L!Spec => []L!NoWorkLost
<1>1. LoopInv => L!NoWorkLost
  BY DEF LoopInv
<1> QED BY <1>1, LoopInvariance, PTL
=============================================================================
