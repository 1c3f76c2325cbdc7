------------------------ MODULE WritableStream_proofs ------------------------
(***************************************************************************)
(* Proofs about WritableStream, for any number of callbacks and nested     *)
(* calls: every callback is called, and all before 'finish'.  Script runs  *)
(* in the middle of the loop that calls the queued callbacks, so IInv says *)
(* of every state which of the queue's callbacks a loop on the stack has   *)
(* passed, and that those not called yet have a loop to call them.         *)
(*                                                                         *)
(* Then of EventEmitter, which streams emit with: a once listener that was *)
(* called is on no list, and the emitter implements EmitterService.  Both  *)
(* need that no two events share an array, that a wrapper is an entry of   *)
(* one event only, and that an emission reads within the array it holds.   *)
(***************************************************************************)
EXTENDS WritableStream, Sublists, SequenceTheorems, FiniteSetTheorems, WellFoundedInduction, TLAPS

\* The frame f is a loop of process_write_callbacks that has called its i-th.
Looping(f) == f.at = "queued"
HasLoop(s) == \E k \in DOMAIN s : Looping(s[k])

WritableTypes ==
    /\ queue \in Seq(Callbacks) /\ stack \in Seq(Frames)
    /\ given \subseteq Callbacks /\ calls \in [Callbacks -> Nat]
    /\ corked \in Nat

\* What the C functions on the stack s may be at.
Fits(s, isEnding) ==
    \A k \in DOMAIN s :
        /\ Looping(s[k]) => s[k].op \in {"uncork", "end"}
        /\ s[k].op = "endWrite" => s[k].at = "callback"
        /\ s[k].op = "end" => isEnding

\* One loop at most goes over the queue q: a second would call the first callback
\* again.  What the loop has passed has been called, and is still there.
OneLoop(s) == \A j, k \in DOMAIN s : Looping(s[j]) /\ Looping(s[k]) => j = k
Passed(s, q, c) ==
    \A k \in DOMAIN s : Looping(s[k]) =>
        s[k].i \in 1 .. Len(q) /\ \A j \in 1 .. s[k].i : c[q[j]] = 1

\* Whoever was given has been called or is in the queue.
AllKept(g, q, c) == \A x \in g : c[x] = 1 \/ x \in ToSet(q)

IInv ==
    /\ WritableTypes
    /\ Fits(stack, ending)
    /\ finished => ending
    /\ Defined =>
          /\ OneLoop(stack) /\ Passed(stack, queue, calls) /\ AllKept(given, queue, calls)
          /\ corked = 0 /\ queue # <<>> => HasLoop(stack)
          /\ finished => queue = <<>>

\* The stack after a call into script, and when that is back.
LEMMA PushedCall ==
    ASSUME NEW S, NEW f \in S, NEW q \in Seq(S)
    PROVE  /\ <<f>> \o q \in Seq(S) /\ DOMAIN (<<f>> \o q) = 1 .. Len(q) + 1 /\ DOMAIN q = 1 .. Len(q)
           /\ (<<f>> \o q)[1] = f /\ Len(q) \in Nat
           /\ \A k \in 1 .. Len(q) : (<<f>> \o q)[k + 1] = q[k]
           /\ \A k \in 1 .. Len(q) + 1 : k = 1 \/ (k - 1 \in 1 .. Len(q) /\ k = (k - 1) + 1)
<1>1. <<f>> \in Seq(S) /\ Len(<<f>>) = 1 /\ <<f>>[1] = f
  OBVIOUS
<1> QED BY <1>1, ConcatProperties, LenProperties

LEMMA PoppedCall ==
    ASSUME NEW S, NEW q \in Seq(S), q # <<>>
    PROVE  /\ Head(q) \in S /\ Head(q) = q[1] /\ 1 \in DOMAIN q /\ Tail(q) \in Seq(S)
           /\ DOMAIN q = 1 .. Len(q) /\ DOMAIN Tail(q) = 1 .. Len(q) - 1 /\ Len(q) \in Nat
           /\ \A k \in 1 .. Len(q) - 1 : Tail(q)[k] = q[k + 1] /\ k + 1 \in 1 .. Len(q)
<1>1. Len(q) # 0
  BY EmptySeq, LenProperties
<1> QED BY <1>1, HeadTailProperties, LenProperties

\* A call that is no loop changes nothing for the loop below it.
LEMMA PushFits ==
    ASSUME NEW s \in Seq(Frames), NEW f \in Frames, ~Looping(f), NEW e, NEW q, NEW c,
           f.op = "endWrite" => f.at = "callback", f.op = "end" => e,
           NEW t, t = <<f>> \o s
    PROVE  /\ t \in Seq(Frames)
           /\ Fits(s, e) => Fits(t, e)
           /\ OneLoop(s) => OneLoop(t)
           /\ Passed(s, q, c) => Passed(t, q, c)
           /\ HasLoop(s) => HasLoop(t)
<1>1. PICK n \in Nat : n = Len(s)
  BY LenProperties
<1>2. /\ t \in Seq(Frames) /\ DOMAIN t = 1 .. n + 1 /\ DOMAIN s = 1 .. n /\ t[1] = f
      /\ \A k \in 1 .. n : t[k + 1] = s[k]
      /\ \A k \in 1 .. n + 1 : k = 1 \/ (k - 1 \in 1 .. n /\ k = (k - 1) + 1)
  BY <1>1, PushedCall
<1>3. \A k \in DOMAIN t : k = 1 \/ (k - 1 \in DOMAIN s /\ t[k] = s[k - 1] /\ k - 1 \in Nat /\ k \in Nat)
  BY <1>2
<1>4. \A k \in DOMAIN s : k + 1 \in DOMAIN t /\ t[k + 1] = s[k]
  BY <1>2
<1>5. Fits(s, e) => Fits(t, e)
  BY <1>2, <1>3 DEF Fits
<1>6. ASSUME OneLoop(s) PROVE OneLoop(t)
  <2>1. ASSUME NEW j \in DOMAIN t, NEW k \in DOMAIN t, Looping(t[j]), Looping(t[k]) PROVE j = k
    <3>1. j # 1 /\ k # 1
      BY <1>2, <2>1
    <3>2. j - 1 \in DOMAIN s /\ k - 1 \in DOMAIN s /\ Looping(s[j - 1]) /\ Looping(s[k - 1])
          /\ j \in Nat /\ k \in Nat
      BY <1>3, <2>1, <3>1
    <3>3. j - 1 = k - 1
      BY <1>6, <3>2 DEF OneLoop
    <3> QED BY <3>2, <3>3
  <2> QED BY <2>1 DEF OneLoop
<1>7. Passed(s, q, c) => Passed(t, q, c)
  BY <1>2, <1>3 DEF Passed
<1>8. HasLoop(s) => HasLoop(t)
  BY <1>4 DEF HasLoop
<1> QED BY <1>2, <1>5, <1>6, <1>7, <1>8

LEMMA PopFits ==
    ASSUME NEW s \in Seq(Frames), s # <<>>, NEW e, NEW q, NEW c, NEW t, t = Tail(s)
    PROVE  /\ t \in Seq(Frames)
           /\ Fits(s, e) => Fits(t, e)
           /\ OneLoop(s) => OneLoop(t) /\ (Looping(Head(s)) => ~HasLoop(t))
           /\ Passed(s, q, c) => Passed(t, q, c)
           /\ ~Looping(Head(s)) /\ HasLoop(s) => HasLoop(t)
<1>1. PICK n \in Nat : n = Len(s) - 1 /\ n + 1 = Len(s)
  <2>1. Len(s) \in Nat /\ Len(s) # 0
    BY EmptySeq, LenProperties
  <2> QED BY <2>1
<1>2. /\ t \in Seq(Frames) /\ Head(s) = s[1] /\ 1 \in DOMAIN s
      /\ DOMAIN s = 1 .. n + 1 /\ DOMAIN t = 1 .. n /\ \A k \in 1 .. n : t[k] = s[k + 1]
  BY <1>1, PoppedCall
<1>3. \A k \in DOMAIN t : k + 1 \in DOMAIN s /\ t[k] = s[k + 1] /\ k + 1 # 1 /\ k \in Nat
  BY <1>2
<1>4. \A k \in DOMAIN s : k = 1 \/ (k - 1 \in DOMAIN t /\ t[k - 1] = s[k])
  <2>1. \A k \in 1 .. n + 1 : k = 1 \/ (k - 1 \in 1 .. n /\ (k - 1) + 1 = k)
    OBVIOUS
  <2> QED BY <1>2, <2>1
<1>5. Fits(s, e) => Fits(t, e)
  BY <1>3 DEF Fits
<1>6. ASSUME OneLoop(s) PROVE OneLoop(t) /\ (Looping(Head(s)) => ~HasLoop(t))
  <2>1. ASSUME NEW j \in DOMAIN t, NEW k \in DOMAIN t, Looping(t[j]), Looping(t[k]) PROVE j = k
    <3>1. j + 1 = k + 1
      BY <1>3, <1>6, <2>1 DEF OneLoop
    <3> QED BY <1>3, <3>1
  <2> QED BY <1>2, <1>3, <1>6, <2>1 DEF OneLoop, HasLoop
<1>7. Passed(s, q, c) => Passed(t, q, c)
  BY <1>3 DEF Passed
<1>8. ~Looping(Head(s)) /\ HasLoop(s) => HasLoop(t)
  BY <1>2, <1>4 DEF HasLoop
<1> QED BY <1>2, <1>5, <1>6, <1>7, <1>8

\* A callback that is called, for the first time as long as what follows is defined.
LEMMA CalledOnce ==
    ASSUME calls \in [Callbacks -> Nat], NEW c \in Callbacks,
           calls' = [calls EXCEPT ![c] = calls[c] + 1]
    PROVE  /\ calls' \in [Callbacks -> Nat]
           /\ Defined' => /\ calls[c] = 0 /\ calls'[c] = 1
                            /\ \A x \in Callbacks : calls[x] = 1 => calls'[x] = 1
<1>1. calls' \in [Callbacks -> Nat] /\ calls'[c] = calls[c] + 1
      /\ \A x \in Callbacks : x # c => calls'[x] = calls[x]
  OBVIOUS
<1>2. ASSUME Defined' PROVE calls[c] = 0 /\ calls'[c] = 1
  <2>1. calls'[c] <= 1 /\ calls[c] \in Nat
    BY <1>2 DEF Defined
  <2> QED BY <1>1, <2>1
<1> QED BY <1>1, <1>2

\* The loop over q starts, goes on with its k-th callback, or is over.
LEMMA LoopStep ==
    ASSUME NEW op \in {"uncork", "end"}, NEW q \in Seq(Callbacks), NEW k \in Nat \ {0}, k <= Len(q) + 1,
           NEW s \in Seq(Frames), calls \in [Callbacks -> Nat], Process(op, q, k, s),
           NEW g \in SUBSET Callbacks, NEW e, Fits(s, e), op = "end" => e,
           Passed(s, q, calls), HasLoop(s) => k = 1,
           \A j \in 1 .. k - 1 : calls[q[j]] = 1, AllKept(g, q, calls), finished => q = <<>>
    PROVE  /\ queue' \in Seq(Callbacks) /\ stack' \in Seq(Frames) /\ calls' \in [Callbacks -> Nat]
           /\ Fits(stack', e) /\ (finished' => finished \/ op = "end")
           /\ Defined' =>
                 /\ OneLoop(stack') /\ Passed(stack', queue', calls') /\ AllKept(g, queue', calls')
                 /\ queue' # <<>> => HasLoop(stack')
                 /\ finished' => queue' = <<>>
<1>1. PICK n \in Nat : n = Len(q) /\ DOMAIN q = 1 .. n /\ (n = 0 <=> q = <<>>)
  BY LenProperties, EmptySeq
<1>2. \A j \in 1 .. n : q[j] \in Callbacks
  BY <1>1, ElementOfSeq
<1>3. CASE k <= n
  <2>1. PICK f : f = [op |-> op, at |-> "queued", i |-> k]
    OBVIOUS
  <2>2. f \in Frames /\ Looping(f) /\ f.op = op /\ f.i = k /\ f.at = "queued"
    BY <2>1 DEF Frames, Looping
  <2>3. /\ stack' = <<f>> \o s /\ calls' = [calls EXCEPT ![q[k]] = calls[q[k]] + 1]
        /\ queue' = q /\ finished' = finished
    BY <1>1, <1>3, <2>1 DEF Process, Invoke
  <2>4. PICK c \in Callbacks : c = q[k] /\ k \in 1 .. n
    BY <1>2, <1>3
  <2>5. /\ calls' \in [Callbacks -> Nat]
        /\ Defined' => /\ calls[c] = 0 /\ calls'[c] = 1
                         /\ \A x \in Callbacks : calls[x] = 1 => calls'[x] = 1
    BY <2>3, <2>4, CalledOnce
  <2>6. PICK m \in Nat : m = Len(s)
    BY LenProperties
  <2>13. PICK t : t = <<f>> \o s
    OBVIOUS
  <2>7. /\ t \in Seq(Frames) /\ DOMAIN t = 1 .. m + 1 /\ DOMAIN s = 1 .. m /\ t[1] = f
        /\ \A j \in 1 .. m : t[j + 1] = s[j]
        /\ \A j \in 1 .. m + 1 : j = 1 \/ (j - 1 \in 1 .. m /\ j = (j - 1) + 1)
    BY <2>2, <2>6, <2>13, PushedCall
  <2>8. \A j \in DOMAIN t : j = 1 \/ (j - 1 \in DOMAIN s /\ t[j] = s[j - 1])
    BY <2>7
  <2>9. Fits(t, e)
    <3>1. Looping(f) /\ f.op = op /\ f.at = "queued" /\ op \in {"uncork", "end"}
      BY <2>2
    <3>2. \A j \in DOMAIN t : t[j] = f \/ (j - 1 \in DOMAIN s /\ t[j] = s[j - 1])
      BY <2>7, <2>8
    <3> QED BY <3>1, <3>2 DEF Fits
  <2>10. ASSUME Defined' PROVE ~HasLoop(s)
    <3>1. SUFFICES ASSUME HasLoop(s) PROVE FALSE
      OBVIOUS
    <3>2. PICK j \in DOMAIN s : Looping(s[j])
      BY <3>1 DEF HasLoop
    <3>3. s[j].i \in 1 .. n /\ \A h \in 1 .. s[j].i : calls[q[h]] = 1
      BY <1>1, <3>2 DEF Passed
    <3>4. 1 \in 1 .. s[j].i
      BY <3>3
    <3>5. calls[q[1]] = 1 /\ k = 1
      BY <3>1, <3>3, <3>4
    <3> QED BY <2>4, <2>5, <2>10, <3>5
  <2>11. ASSUME Defined' PROVE OneLoop(t) /\ Passed(t, q, calls') /\ AllKept(g, q, calls') /\ HasLoop(t)
    <3>1. \A j \in DOMAIN t : Looping(t[j]) => j = 1
      BY <2>8, <2>10, <2>11 DEF HasLoop
    <3>2. \A j \in 1 .. k : calls'[q[j]] = 1
      <4>1. \A j \in 1 .. k : j = k \/ (j \in 1 .. k - 1 /\ j \in 1 .. n)
        BY <1>3
      <4> QED BY <1>2, <2>4, <2>5, <2>11, <4>1
    <3>3. Passed(t, q, calls')
      BY <1>1, <2>2, <2>4, <2>7, <3>1, <3>2 DEF Passed
    <3>4. 1 \in DOMAIN t
      BY <2>7
    <3> QED BY <2>2, <2>5, <2>7, <2>11, <3>1, <3>3, <3>4 DEF OneLoop, AllKept, HasLoop
  <2>12. ~finished
    BY <1>1, <1>3
  <2> QED BY <2>3, <2>5, <2>7, <2>9, <2>11, <2>12, <2>13
<1>4. CASE ~(k <= n)
  <2>1. queue' = <<>> /\ calls' = calls
    BY <1>1, <1>4 DEF Process, Processed, Emit, Done
  <2>2. ~HasLoop(s)
    <3>1. SUFFICES ASSUME HasLoop(s) PROVE FALSE
      OBVIOUS
    <3>2. PICK j \in DOMAIN s : s[j].i \in 1 .. n
      BY <1>1, <3>1 DEF Passed, HasLoop
    <3> QED BY <1>4, <3>1, <3>2
  <2>3. \A x \in g : calls[x] = 1
    <3>1. \A j \in DOMAIN q : calls[q[j]] = 1
      BY <1>1, <1>4
    <3> QED BY <3>1 DEF AllKept, ToSet
  <2>4. /\ stack' \in Seq(Frames) /\ Fits(stack', e) /\ OneLoop(stack') /\ ~HasLoop(stack')
        /\ (finished' => finished \/ op = "end")
    <3>1. OneLoop(s)
      BY <2>2 DEF OneLoop, HasLoop
    <3>2. CASE op = "end"
      <4>1. PICK f : f = Frame("end", "finish")
        OBVIOUS
      <4>2. f \in Frames /\ ~Looping(f) /\ f.op = "end"
        BY <4>1 DEF Frame, Frames, Looping
      <4>3. stack' = <<f>> \o s
        BY <1>1, <1>4, <3>2, <4>1 DEF Process, Processed, Emit
      <4>4. stack' \in Seq(Frames) /\ Fits(stack', e)
        BY <3>2, <4>2, <4>3, PushFits
      <4>5. ~HasLoop(stack')
        <5>1. /\ DOMAIN (<<f>> \o s) = 1 .. Len(s) + 1 /\ DOMAIN s = 1 .. Len(s)
              /\ (<<f>> \o s)[1] = f /\ Len(s) \in Nat
              /\ \A j \in 1 .. Len(s) : (<<f>> \o s)[j + 1] = s[j]
              /\ \A j \in 1 .. Len(s) + 1 : j = 1 \/ (j - 1 \in 1 .. Len(s) /\ j = (j - 1) + 1)
          BY <4>2, PushedCall
        <5> QED BY <2>2, <4>2, <4>3, <5>1 DEF HasLoop
      <4> QED BY <3>2, <4>4, <4>5 DEF OneLoop, HasLoop
    <3>3. CASE op # "end"
      <4>1. stack' = s /\ finished' = finished
        BY <1>1, <1>4, <3>3 DEF Process, Processed, Done
      <4> QED BY <2>2, <3>1, <4>1
    <3> QED BY <3>2, <3>3
  <2>5. Passed(stack', queue', calls')
    BY <2>4 DEF Passed, HasLoop
  <2>6. AllKept(g, queue', calls')
    BY <2>1, <2>3 DEF AllKept
  <2>7. queue' \in Seq(Callbacks)
    BY <2>1
  <2> QED BY <2>1, <2>4, <2>5, <2>6, <2>7
<1> QED BY <1>3, <1>4

\* A callback that joins the queue, at its end.
LEMMA Joins ==
    ASSUME queue \in Seq(Callbacks), NEW c \in Callback, NEW g, given \subseteq Callbacks,
           g = given \cup ({c} \ {NoCallback})
    PROVE  /\ Queued(c) \in Seq(Callbacks) /\ g \subseteq Callbacks
           /\ AllKept(given, queue, calls) => AllKept(g, Queued(c), calls)
           /\ \A s : Passed(s, queue, calls) => Passed(s, Queued(c), calls)
<1>1. CASE c = NoCallback
  BY <1>1 DEF Queued
<1>2. CASE c # NoCallback
  <2>1. c \in Callbacks
    BY <1>2 DEF Callback
  <2>2. PICK n \in Nat, q \in Seq(Callbacks) : n = Len(queue) /\ q = Append(queue, c)
    BY <2>1, LenProperties, AppendProperties
  <2>3. /\ Len(q) = n + 1 /\ DOMAIN q = 1 .. n + 1 /\ DOMAIN queue = 1 .. n
        /\ \A i \in 1 .. n : q[i] = queue[i]
        /\ q[n + 1] = c
    BY <2>1, <2>2, LenProperties, AppendProperties
  <2>4. ToSet(queue) \subseteq ToSet(q) /\ c \in ToSet(q)
    <3>1. \A i \in 1 .. n : i \in 1 .. n + 1
      OBVIOUS
    <3>2. n + 1 \in 1 .. n + 1
      OBVIOUS
    <3> QED BY <2>3, <3>1, <3>2 DEF ToSet
  <2>5. AllKept(given, queue, calls) => AllKept(g, q, calls)
    BY <2>4 DEF AllKept
  <2>6. ASSUME NEW s, Passed(s, queue, calls) PROVE Passed(s, q, calls)
    <3>1. ASSUME NEW k \in DOMAIN s, Looping(s[k])
          PROVE  s[k].i \in 1 .. n + 1 /\ \A j \in 1 .. s[k].i : calls[q[j]] = 1
      <4>1. s[k].i \in 1 .. n /\ \A j \in 1 .. s[k].i : calls[queue[j]] = 1
        BY <2>2, <2>6, <3>1 DEF Passed
      <4>2. \A j \in 1 .. s[k].i : q[j] = queue[j]
        BY <2>3, <4>1
      <4> QED BY <4>1, <4>2
    <3> QED BY <2>3, <3>1 DEF Passed
  <2> QED BY <1>2, <2>1, <2>2, <2>5, <2>6 DEF Queued
<1> QED BY <1>1, <1>2

\* What the methods rely on while script runs.
Normal ==
    /\ WritableTypes /\ Fits(stack, ending) /\ (finished => ending) /\ Defined
    /\ OneLoop(stack) /\ Passed(stack, queue, calls) /\ AllKept(given, queue, calls)
    /\ corked = 0 /\ queue # <<>> => HasLoop(stack)
    /\ finished => queue = <<>>

\* write() of a corked stream.
LEMMA WriteCorkedInv ==
    ASSUME Normal, NEW c \in Callback, WriteCorked(c)
    PROVE  IInv'
<1>1. /\ corked > 0 /\ queue' = Queued(c) /\ given' = given \cup ({c} \ {NoCallback})
      /\ UNCHANGED <<ending, finished, corked, stack, calls>> /\ ~ending
  BY DEF WriteCorked, Open, Accept, Done
<1>2. PICK q \in Seq(Callbacks) :
          /\ q = Queued(c) /\ given' \subseteq Callbacks
          /\ AllKept(given', q, calls) /\ Passed(stack, q, calls)
  BY <1>1, Joins DEF Normal, WritableTypes
<1>3. WritableTypes'
  BY <1>1, <1>2 DEF Normal, WritableTypes
<1> QED BY <1>1, <1>2, <1>3 DEF Normal, IInv

\* An event is emitted, or the listeners of one are back: no callback moves.
LEMMA EmitInv ==
    ASSUME Normal, UNCHANGED <<ending, finished, corked, queue, given, calls>>,
           NEW f \in Frames, ~Looping(f), f.op \notin {"end", "endWrite"},
           stack' = <<f>> \o stack
    PROVE  IInv'
<1>0. PICK s \in Seq(Frames) : s = stack
  BY DEF Normal, WritableTypes
<1>1. PICK t : t = <<f>> \o s
  OBVIOUS
<1>2. /\ t \in Seq(Frames)
      /\ Fits(s, ending) => Fits(t, ending)
      /\ OneLoop(s) => OneLoop(t)
      /\ Passed(s, queue, calls) => Passed(t, queue, calls)
      /\ HasLoop(s) => HasLoop(t)
  BY <1>1, PushFits
<1>3. stack' = t
  BY <1>0, <1>1
<1>4. WritableTypes'
  BY <1>2, <1>3 DEF Normal, WritableTypes
<1> QED BY <1>0, <1>2, <1>3, <1>4 DEF Normal, IInv

\* write() that calls back at once, also that of end().
LEMMA WriteThroughInv ==
    ASSUME Normal, UNCHANGED <<ending, finished, corked, queue>>, ~ending,
           NEW c \in Callbacks, NEW op \in {"write", "endWrite"}, WriteThrough(op, c),
           given' = given \cup ({c} \ {NoCallback})
    PROVE  IInv'
<1>1. PICK f : f = Frame(op, "callback")
  OBVIOUS
<1>2. f \in Frames /\ ~Looping(f) /\ f.op = op /\ f.at = "callback"
  BY <1>1 DEF Frame, Frames, Looping
<1>3. PICK s \in Seq(Frames) : s = stack
  BY DEF Normal, WritableTypes
<1>10. PICK t : t = <<f>> \o s
  OBVIOUS
<1>4. stack' = t /\ calls' = [calls EXCEPT ![c] = calls[c] + 1]
  BY <1>1, <1>3, <1>10 DEF WriteThrough, Invoke
<1>5. /\ t \in Seq(Frames)
      /\ Fits(s, ending) => Fits(t, ending)
      /\ OneLoop(s) => OneLoop(t)
      /\ Passed(s, queue, calls) => Passed(t, queue, calls)
      /\ HasLoop(s) => HasLoop(t)
  BY <1>2, <1>10, PushFits
<1>6. /\ calls' \in [Callbacks -> Nat]
      /\ Defined' => calls'[c] = 1 /\ \A x \in Callbacks : calls[x] = 1 => calls'[x] = 1
  BY <1>4, CalledOnce DEF Normal, WritableTypes
<1>7. WritableTypes'
  BY <1>4, <1>5, <1>6 DEF Normal, WritableTypes
<1>8. ASSUME Defined' PROVE AllKept(given', queue, calls') /\ Passed(t, queue, calls')
  <2>1. AllKept(given', queue, calls')
    BY <1>6, <1>8 DEF Normal, AllKept, WritableTypes
  <2>2. \A j \in 1 .. Len(queue) : queue[j] \in Callbacks
    BY ElementOfSeq DEF Normal, WritableTypes
  <2>3. ASSUME NEW k \in DOMAIN t, Looping(t[k])
        PROVE  t[k].i \in 1 .. Len(queue) /\ \A j \in 1 .. t[k].i : calls'[queue[j]] = 1
    <3>1. t[k].i \in 1 .. Len(queue) /\ \A j \in 1 .. t[k].i : calls[queue[j]] = 1
      BY <1>3, <1>5, <2>3 DEF Normal, Passed
    <3>2. \A j \in 1 .. t[k].i : j \in 1 .. Len(queue)
      BY <3>1, LenProperties DEF Normal, WritableTypes
    <3> QED BY <1>6, <1>8, <2>2, <3>1, <3>2
  <2> QED BY <2>1, <2>3 DEF Passed
<1> QED BY <1>3, <1>4, <1>5, <1>7, <1>8 DEF Normal, IInv

\* The loop starts over the queue q, from uncork() or from end().
LEMMA LoopStarts ==
    ASSUME Normal, NEW op \in {"uncork", "end"}, NEW q \in Seq(Callbacks),
           NEW s \in Seq(Frames), Process(op, q, 1, s), given' \in SUBSET Callbacks,
           corked' \in Nat, ending => ending', op = "end" => ending', Fits(s, ending),
           Passed(s, q, calls), AllKept(given', q, calls), finished => q = <<>>
    PROVE  IInv'
<1>1. PICK g \in SUBSET Callbacks : g = given'
  OBVIOUS
<1>2. PICK e : e = ending'
  OBVIOUS
<1>3. Fits(s, e) /\ (op = "end" => e)
  BY <1>2 DEF Fits
<1>4. /\ calls \in [Callbacks -> Nat] /\ Passed(s, q, calls) /\ AllKept(g, q, calls)
      /\ Process(op, q, 1, s)
  BY <1>1 DEF Normal, WritableTypes
<1>5. 1 <= Len(q) + 1 /\ 1 \in Nat \ {0} /\ \A j \in 1 .. 1 - 1 : calls[q[j]] = 1
  BY LenProperties
<1>6. /\ queue' \in Seq(Callbacks) /\ stack' \in Seq(Frames) /\ calls' \in [Callbacks -> Nat]
      /\ Fits(stack', e) /\ (finished' => finished \/ op = "end")
      /\ Defined' =>
            /\ OneLoop(stack') /\ Passed(stack', queue', calls') /\ AllKept(g, queue', calls')
            /\ queue' # <<>> => HasLoop(stack')
            /\ finished' => queue' = <<>>
  BY <1>3, <1>4, <1>5, LoopStep
<1>7. WritableTypes' /\ (finished' => ending')
  BY <1>6 DEF Normal, WritableTypes
<1> QED BY <1>1, <1>2, <1>6, <1>7 DEF IInv

\* The entry of a call that goes over no queue.
LEMMA FrameFits ==
    ASSUME NEW op \in {"write", "endWrite", "uncork", "end", "destroy"},
           NEW at \in {"callback", "error", "finish", "close"}
    PROVE  \E f \in Frames : /\ f = Frame(op, at) /\ ~Looping(f) /\ f.op = op /\ f.at = at
<1>1. [op |-> op, at |-> at, i |-> 0] \in Frames
  BY DEF Frames
<1> QED BY <1>1 DEF Frame, Looping

LEMMA EndInv ==
    ASSUME Normal, NEW c \in Callback, End(c) \/ EndWithChunk(c)
    PROVE  IInv'
<1>1. /\ queue \in Seq(Callbacks) /\ stack \in Seq(Frames) /\ given \in SUBSET Callbacks
      /\ corked \in Nat /\ Fits(stack, ending) /\ Passed(stack, queue, calls)
      /\ AllKept(given, queue, calls) /\ ~ending /\ ~finished
  BY DEF Normal, WritableTypes, End, EndWithChunk
<1>2. ASSUME UNCHANGED corked, Accept(c), Close(Queued(c), stack) PROVE IInv'
  <2>1. given' = given \cup ({c} \ {NoCallback})
    BY <1>2 DEF Accept
  <2>2. PICK q \in Seq(Callbacks) :
            /\ q = Queued(c) /\ given' \subseteq Callbacks
            /\ AllKept(given', q, calls) /\ Passed(stack, q, calls)
    BY <1>1, <2>1, Joins
  <2>3. Process("end", q, 1, stack) /\ ending' = TRUE
    BY <1>2, <2>2 DEF Close
  <2> QED BY <1>1, <1>2, <2>2, <2>3, LoopStarts
<1>3. ASSUME UNCHANGED <<corked, given>>, Close(queue, stack) PROVE IInv'
  <2>1. Process("end", queue, 1, stack) /\ ending' = TRUE
    BY <1>3 DEF Close
  <2> QED BY <1>1, <1>3, <2>1, LoopStarts
<1>4. CASE End(c)
  BY <1>2, <1>4 DEF End
<1>5. CASE EndWithChunk(c)
  <2>1. \/ UNCHANGED <<corked, given>> /\ Close(queue, stack)
        \/ UNCHANGED corked /\ Accept(c) /\ Close(Queued(c), stack)
        \/ /\ c # NoCallback /\ Accept(c) /\ WriteThrough("endWrite", c)
           /\ UNCHANGED <<corked, ending, finished, queue>>
    BY <1>5 DEF EndWithChunk
  <2>2. ASSUME c # NoCallback, Accept(c), WriteThrough("endWrite", c),
               UNCHANGED <<corked, ending, finished, queue>>
        PROVE  IInv'
    <3>1. c \in Callbacks /\ given' = given \cup ({c} \ {NoCallback})
      BY <2>2 DEF Callback, Accept
    <3> QED BY <1>1, <2>2, <3>1, WriteThroughInv
  <2> QED BY <1>2, <1>3, <2>1, <2>2
<1> QED BY <1>4, <1>5

LEMMA WriteInv ==
    ASSUME Normal, NEW c \in Callback, Write(c)
    PROVE  IInv'
<1>1. /\ ~ending /\ given' = given \cup ({c} \ {NoCallback})
      /\ UNCHANGED <<ending, finished, corked, queue>>
  BY DEF Write, Open, Accept
<1>2. CASE c = NoCallback
  <2>1. UNCHANGED <<stack, calls, given>>
    BY <1>1, <1>2 DEF Write, Done
  <2> QED BY <1>1, <2>1 DEF Normal, IInv, WritableTypes
<1>3. CASE c # NoCallback
  <2>1. c \in Callbacks /\ WriteThrough("write", c)
    BY <1>3 DEF Write, Callback
  <2> QED BY <1>1, <2>1, WriteThroughInv
<1> QED BY <1>2, <1>3

LEMMA CorksInv ==
    ASSUME Normal, Cork \/ Uncork
    PROVE  IInv'
<1>1. /\ queue \in Seq(Callbacks) /\ stack \in Seq(Frames) /\ given \in SUBSET Callbacks
      /\ corked \in Nat /\ Fits(stack, ending) /\ Passed(stack, queue, calls)
      /\ AllKept(given, queue, calls) /\ ending \in {ending}
  BY DEF Normal, WritableTypes
<1>2. CASE Cork
  <2>1. corked' = corked + 1 /\ UNCHANGED <<ending, finished, queue, given, stack, calls>>
    BY <1>2 DEF Cork, Done
  <2>2. corked' \in Nat /\ corked' # 0
    BY <1>1, <2>1
  <2> QED BY <2>1, <2>2 DEF Normal, IInv, WritableTypes
<1>3. CASE Uncork
  <2>1. corked > 0 /\ corked' = corked - 1 /\ UNCHANGED <<ending, given>> /\ corked' \in Nat
    BY <1>1, <1>3 DEF Uncork
  <2>2. CASE corked = 1 /\ queue # <<>>
    <3>1. Process("uncork", queue, 1, stack)
      BY <1>3, <2>2 DEF Uncork
    <3>2. /\ given' \in SUBSET Callbacks /\ AllKept(given', queue, calls) /\ (finished => queue = <<>>)
          /\ (ending => ending') /\ "uncork" \in {"uncork", "end"} /\ "uncork" # "end"
      BY <1>1, <2>1 DEF Normal
    <3> QED BY <1>1, <2>1, <3>1, <3>2, LoopStarts
  <2>3. CASE ~(corked = 1 /\ queue # <<>>)
    <3>1. UNCHANGED <<stack, calls, queue, finished>>
      BY <1>3, <2>3 DEF Uncork, Done
    <3>2. corked' = 0 => queue = <<>>
      BY <1>1, <2>1, <2>3
    <3> QED BY <2>1, <3>1, <3>2 DEF Normal, IInv, WritableTypes
  <2> QED BY <2>2, <2>3
<1> QED BY <1>2, <1>3

\* A function of the script is back.
LEMMA ReturnsInv ==
    ASSUME Normal, Returns
    PROVE  IInv'
<1>1. PICK f \in Frames, s \in Seq(Frames) :
          /\ f = Head(stack) /\ s = Tail(stack) /\ f = stack[1] /\ 1 \in DOMAIN stack
          /\ stack # <<>>
  <2>1. stack \in Seq(Frames) /\ stack # <<>>
    BY DEF Returns, Normal, WritableTypes
  <2> QED BY <2>1, PoppedCall
<1>2. /\ Fits(s, ending) /\ OneLoop(s) /\ (Looping(f) => ~HasLoop(s)) /\ Passed(s, queue, calls)
      /\ (~Looping(f) /\ HasLoop(stack) => HasLoop(s))
  BY <1>1, PopFits DEF Normal, WritableTypes
<1>3. /\ Looping(f) => f.op \in {"uncork", "end"}
      /\ f.op = "endWrite" => f.at = "callback"
      /\ f.op = "end" => ending
  BY <1>1 DEF Normal, Fits
<1>4. /\ UNCHANGED <<corked, given>> /\ corked \in Nat /\ given \in SUBSET Callbacks
      /\ queue \in Seq(Callbacks) /\ AllKept(given, queue, calls) /\ (finished => queue = <<>>)
      /\ calls \in [Callbacks -> Nat]
  BY DEF Returns, Normal, WritableTypes
<1>5. CASE EndGoesOn
  <2>1. ending' = TRUE /\ Process("end", queue, 1, s)
    BY <1>1, <1>5 DEF EndGoesOn, Close
  <2> QED BY <1>2, <1>4, <2>1, LoopStarts
<1>6. CASE f.at = "queued" /\ Process(f.op, queue, f.i + 1, s) /\ UNCHANGED ending
  <2>1. f.op \in {"uncork", "end"} /\ ~HasLoop(s) /\ Looping(f)
    BY <1>2, <1>3, <1>6 DEF Looping
  <2>2. PICK n \in Nat : n = Len(queue)
    BY <1>4, LenProperties
  <2>3. PICK i \in 1 .. n : i = f.i /\ \A j \in 1 .. i : calls[queue[j]] = 1
    BY <1>1, <2>1, <2>2 DEF Normal, Passed
  <2>4. PICK k \in Nat \ {0} : k = f.i + 1 /\ k <= n + 1 /\ k - 1 = i
    BY <2>3
  <2>5. PICK op \in {"uncork", "end"}, g \in SUBSET Callbacks, e \in {ending}, q \in Seq(Callbacks) :
            op = f.op /\ g = given /\ q = queue
    BY <1>4, <2>1
  <2>6. Process(op, q, k, s) /\ Fits(s, e) /\ (op = "end" => e) /\ Passed(s, q, calls)
        /\ AllKept(g, q, calls) /\ (finished => q = <<>>)
    BY <1>2, <1>3, <1>4, <1>6, <2>4, <2>5
  <2>7. \A j \in 1 .. k - 1 : calls[q[j]] = 1
    BY <2>3, <2>4, <2>5
  <2>8. k <= Len(q) + 1
    BY <2>2, <2>4, <2>5
  <2>9. /\ queue' \in Seq(Callbacks) /\ stack' \in Seq(Frames) /\ calls' \in [Callbacks -> Nat]
        /\ Fits(stack', e) /\ (finished' => finished \/ op = "end")
        /\ Defined' =>
              /\ OneLoop(stack') /\ Passed(stack', queue', calls') /\ AllKept(g, queue', calls')
              /\ queue' # <<>> => HasLoop(stack')
              /\ finished' => queue' = <<>>
    BY <1>4, <2>1, <2>6, <2>7, <2>8, LoopStep
  <2>10. WritableTypes' /\ (finished' => ending') /\ ending' = e /\ given' = g
    BY <1>3, <1>4, <1>6, <2>5, <2>9 DEF Normal, WritableTypes
  <2> QED BY <2>9, <2>10 DEF IInv
<1>7. ASSUME UNCHANGED <<ending, finished, queue, calls>>, stack' = s, ~Looping(f) PROVE IInv'
  <2>1. WritableTypes'
    BY <1>4, <1>7 DEF WritableTypes
  <2> QED BY <1>2, <1>4, <1>7, <2>1 DEF Normal, IInv
<1>8. CASE /\ f.op = "destroy" /\ f.at = "error" /\ Emit("destroy", "close", s)
           /\ UNCHANGED <<ending, finished, queue>>
  <2>1. PICK d \in Frames : d = Frame("destroy", "close") /\ ~Looping(d) /\ d.op = "destroy"
    BY FrameFits
  <2>5. PICK t : t = <<d>> \o s
    OBVIOUS
  <2>2. stack' = t /\ UNCHANGED calls /\ ~Looping(f)
    BY <1>8, <2>1, <2>5 DEF Emit, Looping
  <2>3. /\ t \in Seq(Frames) /\ Fits(t, ending) /\ OneLoop(t) /\ Passed(t, queue, calls)
        /\ HasLoop(s) => HasLoop(t)
    BY <1>2, <2>1, <2>5, PushFits
  <2>4. WritableTypes'
    BY <1>4, <1>8, <2>2, <2>3 DEF WritableTypes
  <2> QED BY <1>2, <1>4, <1>8, <2>2, <2>3, <2>4 DEF Normal, IInv
<1>9. CASE f.at # "queued" /\ Done(s) /\ UNCHANGED <<ending, finished, queue>>
  BY <1>7, <1>9 DEF Done, Looping
<1> QED BY <1>1, <1>5, <1>6, <1>8, <1>9 DEF Returns

LEMMA WritableInit == Init => IInv
<1> SUFFICES ASSUME Init PROVE IInv
  OBVIOUS
<1>1. DOMAIN stack = {} /\ stack \in Seq(Frames)
  BY DEF Init
<1> QED BY <1>1 DEF Init, IInv, WritableTypes, Fits, OneLoop, Passed, AllKept

LEMMA WritableNext == IInv /\ [Next]_(vars) => IInv'
<1> SUFFICES ASSUME IInv, [Next]_(vars) PROVE IInv'
  OBVIOUS
<1>1. Defined => Normal
  BY DEF IInv, Normal
<1>2. CASE UNCHANGED vars
  <2>1. UNCHANGED <<ending, finished, corked, queue, stack, given, calls>>
    BY <1>2 DEF vars
  <2> QED BY <2>1 DEF IInv, WritableTypes, Defined
<1>3. ASSUME NEW c \in Callback, WriteCorked(c) \/ Write(c) \/ End(c) \/ EndWithChunk(c)
      PROVE  IInv'
  <2>1. Normal
    BY <1>1, <1>3 DEF WriteCorked, Write, End, EndWithChunk, Open, ScriptCalls
  <2> QED BY <1>3, <2>1, WriteCorkedInv, WriteInv, EndInv
<1>4. CASE WriteAfterEnd
  <2>1. PICK f \in Frames : f = Frame("write", "error") /\ ~Looping(f) /\ f.op = "write"
    BY FrameFits
  <2>2. Normal /\ UNCHANGED <<ending, finished, corked, queue, given, calls>> /\ stack' = <<f>> \o stack
    BY <1>1, <1>4, <2>1 DEF WriteAfterEnd, ScriptCalls, Emit
  <2> QED BY <2>1, <2>2, EmitInv
<1>5. CASE Cork \/ Uncork
  BY <1>1, <1>5, CorksInv DEF Cork, Uncork, ScriptCalls
<1>6. ASSUME NEW event \in {"error", "close"}, Destroy(event) PROVE IInv'
  <2>1. PICK f \in Frames : f = Frame("destroy", event) /\ ~Looping(f) /\ f.op = "destroy"
    BY FrameFits
  <2>2. Normal /\ UNCHANGED <<ending, finished, corked, queue, given, calls>> /\ stack' = <<f>> \o stack
    BY <1>1, <1>6, <2>1 DEF Destroy, ScriptCalls, Emit
  <2> QED BY <2>1, <2>2, EmitInv
<1>7. CASE Returns
  BY <1>1, <1>7, ReturnsInv DEF Returns
<1> QED BY <1>2, <1>3, <1>4, <1>5, <1>6, <1>7 DEF Next

LEMMA InductiveWritable == Spec => []IInv
BY WritableInit, WritableNext, PTL DEF Spec

\* A callback waits only for uncork(): once all calls are back, none is left in
\* the queue of a stream that is not corked, or that has finished.
THEOREM NoCallbackWaits == Spec => []NoneWaits
<1>1. IInv => NoneWaits
  BY DEF IInv, NoneWaits, HasLoop
<1> QED BY <1>1, InductiveWritable, PTL

\* 'finish' comes after the callbacks of all writes, however write(), cork() and
\* end() are called inside each other's callbacks.
THEOREM FinishIsLast == Spec => []FinishedAll
<1>1. IInv => FinishedAll
  <2> SUFFICES ASSUME IInv, finished, Defined, NEW c \in given PROVE calls[c] = 1
    BY DEF FinishedAll
  <2>1. queue = <<>> /\ AllKept(given, queue, calls)
    BY DEF IInv
  <2>2. ToSet(queue) = {}
    BY <2>1 DEF ToSet
  <2> QED BY <2>1, <2>2 DEF AllKept
<1> QED BY <1>1, InductiveWritable, PTL

-----------------------------------------------------------------------------
(* The emitter.  A stream emits through the EventEmitter that it holds in  *)
(* _emitter (stream_emit); what is proved here is of EventEmitter, for any *)
(* events, listeners, arrays and nesting of emissions.                     *)

CONSTANTS Events, Listeners, Wrappers, Arrays, NoArray, MaxEntries, MaxNesting
VARIABLES events, content, emitting, called

E == INSTANCE EventEmitter
        WITH MaxLength <- MaxEntries, MaxDepth <- MaxNesting, stack <- emitting

\* What EmitterAssumption says.
EmitterAssumed ==
    /\ "error" \in Events
    /\ NoArray \notin Arrays
    /\ "none" \notin Wrappers
    /\ MaxEntries \in Nat /\ MaxNesting \in Nat

-----------------------------------------------------------------------------
(* Parts of lists.                                                         *)

\* The natural numbers are well founded, as a set of pairs.
Below == {p \in Nat \X Nat : p[1] < p[2]}

LEMMA BelowIsWellFounded == IsWellFoundedOn(Below, Nat)
BY NatLessThanWellFounded, Zenon DEF OpToRel, Below

\* A set of natural numbers that is not empty has a least one.
LEMMA Least ==
    ASSUME NEW S \in SUBSET Nat, S # {}
    PROVE  \E m \in S : \A n \in S : m <= n
<1>1. \A m, n \in Nat : ~(<<n, m>> \in Below) => m <= n
  BY DEF Below
<1>2. \E m \in S : \A n \in S : ~(<<n, m>> \in Below)
  BY WFMin, BelowIsWellFounded
<1> QED BY <1>1, <1>2, Zenon

\* What is kept of a list are entries of it that are in S.
LEMMA SublistIsPart ==
    ASSUME NEW X, NEW list \in Seq(X), NEW S
    PROVE  /\ Sublist(list, S) \in Seq(X \cap S)
           /\ \A k \in DOMAIN Sublist(list, S) :
                 \E i \in DOMAIN list : Sublist(list, S)[k] = list[i]
<1> DEFINE kept == {i \in DOMAIN list : list[i] \in S}
           Rank(i) == Cardinality({j \in kept : j <= i})
           n == Len(list)
<1>1. n \in Nat /\ DOMAIN list = 1 .. n /\ kept \subseteq 1 .. n
  OBVIOUS
<1>2. IsFiniteSet(kept) /\ Cardinality(kept) \in Nat
  <2>1. IsFiniteSet(1 .. n)
    BY <1>1, FS_Interval
  <2> QED BY <1>1, <2>1, FS_Subset, FS_CardinalityType
<1>3. ASSUME NEW i \in 0 .. n
      PROVE  IsFiniteSet({j \in kept : j <= i}) /\ Rank(i) \in Nat
  BY <1>2, FS_Subset, FS_CardinalityType
<1>4. Rank(0) = 0
  <2>1. {j \in kept : j <= 0} = {}
    BY <1>1
  <2> QED BY <2>1, FS_EmptySet
<1>5. Rank(n) = Cardinality(kept)
  <2>1. {j \in kept : j <= n} = kept
    BY <1>1
  <2> QED BY <2>1
<1>6. ASSUME NEW i \in 1 .. n
      PROVE  Rank(i) = IF i \in kept THEN Rank(i - 1) + 1 ELSE Rank(i - 1)
  <2> DEFINE before == {j \in kept : j <= i - 1}
  <2>1. IsFiniteSet(before) /\ i \notin before
    BY <1>1, <1>3
  <2>2. CASE i \in kept
    <3>1. {j \in kept : j <= i} = before \cup {i}
      BY <1>1, <2>2
    <3>2. Cardinality(before \cup {i}) = Cardinality(before) + 1
      BY <2>1, FS_AddElement
    <3> QED BY <2>2, <3>1, <3>2
  <2>3. CASE i \notin kept
    <3>1. {j \in kept : j <= i} = before
      BY <1>1, <2>3
    <3> QED BY <2>3, <3>1
  <2> QED BY <2>2, <2>3
<1>7. ASSUME NEW k \in 1 .. Cardinality(kept)
      PROVE  \E i \in kept : Rank(i) = k
  <2> DEFINE reached == {i \in 0 .. n : k <= Rank(i)}
  <2> HIDE DEF kept, Rank
  <2>1. n \in reached /\ reached \subseteq Nat
    BY <1>1, <1>5
  <2>2. PICK m \in reached : \A i \in reached : m <= i
    BY <2>1, Least
  <2>3. m \in 1 .. n
    <3>1. m \in 0 .. n /\ k <= Rank(m) /\ k \in Nat /\ 1 <= k
      BY <1>2, <2>2
    <3>2. m # 0
      BY <1>4, <3>1
    <3> QED BY <1>1, <3>1, <3>2
  <2>4. Rank(m - 1) \in Nat /\ Rank(m - 1) < k /\ Rank(m) \in Nat /\ k <= Rank(m)
    <3>1. m - 1 \in 0 .. n /\ m \in 0 .. n /\ ~(m <= m - 1)
      BY <1>1, <2>3
    <3>2. m - 1 \notin reached
      BY <2>2, <3>1
    <3>3. Rank(m - 1) \in Nat /\ Rank(m) \in Nat
      BY <1>3, <3>1, Zenon
    <3>4. k \in Nat
      BY <1>2
    <3> QED BY <2>2, <3>1, <3>2, <3>3, <3>4
  <2> QED BY <1>6, <2>3, <2>4
<1> DEFINE At(k) == CHOOSE i \in kept : Rank(i) = k
<1>8. \A k \in 1 .. Cardinality(kept) : At(k) \in kept
  BY <1>7
<1>9. Sublist(list, S) = [k \in 1 .. Cardinality(kept) |-> list[At(k)]]
  BY DEF Sublist
<1> HIDE DEF kept, Rank, At
<1>10. \A k \in 1 .. Cardinality(kept) : At(k) \in DOMAIN list /\ list[At(k)] \in X \cap S
  BY <1>8 DEF kept
<1>11. Sublist(list, S) \in Seq(X \cap S)
  BY <1>2, <1>9, <1>10, IsASeq
<1> QED BY <1>9, <1>10, <1>11
\* The emitter and its service use the same operator on lists.
LEMMA SameSublist == ASSUME NEW q, NEW S PROVE E!Sublist(q, S) = Sublist(q, S)
<1>1. \A T : E!Cardinality(T) = Cardinality(T)
  BY DEF E!Cardinality, Cardinality
<1> DEFINE kept == {i \in DOMAIN q : q[i] \in S}
           There(i) == E!Cardinality({j \in kept : j <= i})
           Here(i) == Cardinality({j \in kept : j <= i})
           AtThere(k) == CHOOSE i \in kept : There(i) = k
           AtHere(k) == CHOOSE i \in kept : Here(i) = k
<1>2. E!Sublist(q, S) = [k \in 1 .. E!Cardinality(kept) |-> q[AtThere(k)]]
  BY DEF E!Sublist
<1>3. Sublist(q, S) = [k \in 1 .. Cardinality(kept) |-> q[AtHere(k)]]
  BY DEF Sublist
<1>4. \A i : There(i) = Here(i)
  BY <1>1
<1>5. E!Cardinality(kept) = Cardinality(kept)
  BY <1>1
<1> HIDE DEF kept, There, Here
<1>6. \A k : AtThere(k) = AtHere(k)
  BY <1>4
<1> HIDE DEF AtThere, AtHere
<1> QED BY <1>2, <1>3, <1>5, <1>6

LEMMA SameInService == ASSUME NEW q, NEW S PROVE E!Service!Sublist(q, S) = Sublist(q, S)
<1>1. \A T : E!Service!Cardinality(T) = Cardinality(T)
  BY DEF E!Service!Cardinality, Cardinality
<1> DEFINE kept == {i \in DOMAIN q : q[i] \in S}
           There(i) == E!Service!Cardinality({j \in kept : j <= i})
           Here(i) == Cardinality({j \in kept : j <= i})
           AtThere(k) == CHOOSE i \in kept : There(i) = k
           AtHere(k) == CHOOSE i \in kept : Here(i) = k
<1>2. E!Service!Sublist(q, S) = [k \in 1 .. E!Service!Cardinality(kept) |-> q[AtThere(k)]]
  BY DEF E!Service!Sublist
<1>3. Sublist(q, S) = [k \in 1 .. Cardinality(kept) |-> q[AtHere(k)]]
  BY DEF Sublist
<1>4. \A i : There(i) = Here(i)
  BY <1>1
<1>5. E!Service!Cardinality(kept) = Cardinality(kept)
  BY <1>1
<1> HIDE DEF kept, There, Here
<1>6. \A k : AtThere(k) = AtHere(k)
  BY <1>4
<1> HIDE DEF AtThere, AtHere
<1> QED BY <1>2, <1>3, <1>5, <1>6


-----------------------------------------------------------------------------
(* The emitter: what is known of its arrays.                               *)

\* Array a is the list of event e, or an emission of e reads it.
Belongs(a, e) ==
    \/ events[e] = a
    \/ \E k \in DOMAIN emitting : emitting[k].array = a /\ emitting[k].event = e

\* Events do not share arrays.
OneOwner ==
    \A a \in Arrays : \A e, d \in Events : Belongs(a, e) /\ Belongs(a, d) => e = d

\* An array of event e has the entry x.
Holds(e, x) == \E a \in Arrays : Belongs(a, e) /\ x \in E!ToSet(content[a])

\* A wrapper is one entry, of one event.
OneHolder ==
    \A e, d \in Events : \A x, y \in E!Entries :
        Holds(e, x) /\ Holds(d, y) /\ E!IsOnce(x) /\ x.wrapper = y.wrapper => e = d /\ x = y

\* Who calls a listener has taken it from its array.
HasTaken == \A k \in DOMAIN emitting : emitting[k].calling => 1 <= emitting[k].next

EmitterInv == EmitterAssumed /\ E!TypeOK /\ HasTaken /\ OneOwner /\ OneHolder /\ E!OnceRemoved

\* A step on the arrays of event e that adds the entries Y, if any.
Shrinks ==
    /\ content' = content
    /\ events' \in [Events -> Arrays \cup {NoArray}]
    /\ \A d \in Events : events'[d] \in {events[d], NoArray}

Replaces(e, Y) ==
    \E a \in E!Free, list \in Seq(E!Entries) :
        /\ events' = [events EXCEPT ![e] = a]
        /\ content' = [content EXCEPT ![a] = list]
        /\ E!ToSet(list) \subseteq E!ToSet(E!List(e)) \cup Y

Extends(e, Y) ==
    \E y \in Y :
        /\ events[e] \in Arrays /\ events' = events
        /\ content' = [content EXCEPT ![events[e]] = Append(@, y)]

Edits(e, Y) == Shrinks \/ Replaces(e, Y) \/ Extends(e, Y)

\* At most one entry is added, whose wrapper is nowhere else.
New(Y) ==
    /\ Y \subseteq E!Entries
    /\ \A x, y \in Y : x = y
    /\ \A y \in Y : E!IsOnce(y) => E!Unused(y.wrapper)

\* Frames stay, go, or are made for the list that an event has now.
FramesFrom ==
    \A k \in DOMAIN emitting' :
        \/ \E j \in DOMAIN emitting : emitting'[k].array = emitting[j].array /\ emitting'[k].event = emitting[j].event
        \/ emitting'[k].event \in Events /\ emitting'[k].array = events'[emitting'[k].event]

LEMMA Assumed ==
    ASSUME EmitterInv
    PROVE  EmitterAssumed /\ "error" \in Events /\ NoArray \notin Arrays /\ "none" \notin Wrappers /\ MaxNesting \in Nat
BY DEF EmitterInv, EmitterAssumed

LEMMA EntryTypes ==
    ASSUME EmitterAssumed, NEW x \in E!Entries
    PROVE  /\ x.listener \in Listeners /\ x.wrapper \in Wrappers \cup {"none"}
           /\ x = [listener |-> x.listener, wrapper |-> x.wrapper]
           /\ E!IsOnce(x) <=> x.wrapper \in Wrappers
BY DEF EmitterAssumed, E!Entries, E!IsOnce

\* What an array has are entries.
LEMMA ContentTypes ==
    ASSUME E!TypeOK, NEW a \in Arrays
    PROVE  content[a] \in Seq(E!Entries) /\ E!ToSet(content[a]) \subseteq E!Entries
BY DEF E!TypeOK, E!ToSet

LEMMA ListTypes ==
    ASSUME E!TypeOK, NEW e \in Events
    PROVE  E!List(e) \in Seq(E!Entries) /\ E!ToSet(E!List(e)) \subseteq E!Entries
<1>1. <<>> \in Seq(E!Entries) /\ E!ToSet(<<>>) = {}
  BY DEF E!ToSet
<1> QED BY <1>1, ContentTypes DEF E!TypeOK, E!List

\* What belongs to an event is in use.
LEMMA BelongsReachable ==
    ASSUME NEW a, NEW e \in Events, Belongs(a, e)
    PROVE  a \in E!Reachable
BY DEF Belongs, E!Reachable

LEMMA ToSetAppend ==
    ASSUME NEW X, NEW s \in Seq(X), NEW y \in X
    PROVE  E!ToSet(Append(s, y)) = E!ToSet(s) \cup {y}
<1>1. /\ DOMAIN Append(s, y) = 1 .. Len(s) + 1
      /\ \A i \in 1 .. Len(s) : Append(s, y)[i] = s[i]
      /\ Append(s, y)[Len(s) + 1] = y
  OBVIOUS
<1>2. DOMAIN s = 1 .. Len(s) /\ Len(s) \in Nat
  OBVIOUS
<1>3. ASSUME NEW z \in E!ToSet(Append(s, y)) PROVE z \in E!ToSet(s) \cup {y}
  <2>1. PICK i \in 1 .. Len(s) + 1 : z = Append(s, y)[i]
    BY <1>1 DEF E!ToSet
  <2>2. CASE i = Len(s) + 1
    BY <1>1, <2>1, <2>2
  <2>3. CASE i # Len(s) + 1
    <3>1. i \in 1 .. Len(s)
      BY <1>2, <2>1, <2>3
    <3> QED BY <1>1, <1>2, <2>1, <3>1 DEF E!ToSet
  <2> QED BY <2>2, <2>3
<1>4. ASSUME NEW z \in E!ToSet(s) \cup {y} PROVE z \in E!ToSet(Append(s, y))
  <2>1. CASE z = y
    <3>1. Len(s) + 1 \in 1 .. Len(s) + 1
      BY <1>2
    <3> QED BY <1>1, <2>1, <3>1 DEF E!ToSet
  <2>2. CASE z \in E!ToSet(s)
    <3>1. PICK i \in 1 .. Len(s) : z = s[i]
      BY <1>2, <2>2 DEF E!ToSet
    <3>2. i \in 1 .. Len(s) + 1
      BY <1>2
    <3> QED BY <1>1, <3>1, <3>2 DEF E!ToSet
  <2> QED BY <2>1, <2>2
<1> QED BY <1>3, <1>4

\* An edit of arrays of e gives no array to another event, and no event another
\* entry than Y, to e.
LEMMA EditedArrays ==
    ASSUME EmitterInv, NEW e \in Events, NEW Y, New(Y), Edits(e, Y), FramesFrom
    PROVE  /\ \A a \in Arrays, d \in Events :
                 Belongs(a, d)' => Belongs(a, d) \/ (d = e /\ a \in E!Free)
           /\ \A d \in Events, x \in E!Entries :
                 Holds(d, x)' => Holds(d, x) \/ (d = e /\ x \in Y)
<1>1. ASSUME NEW a \in Arrays, NEW d \in Events, Belongs(a, d)'
      PROVE  Belongs(a, d) \/ events'[d] = a
  <2>1. CASE \E k \in DOMAIN emitting' : emitting'[k].array = a /\ emitting'[k].event = d
    BY <2>1 DEF FramesFrom, Belongs
  <2> QED BY <1>1, <2>1 DEF Belongs
<1>2. ASSUME NEW d \in Events
      PROVE  events'[d] \in {events[d], NoArray} \/ (d = e /\ events'[d] \in E!Free)
  BY DEF Edits, Shrinks, Replaces, Extends, EmitterInv, E!TypeOK
<1>3. ASSUME NEW a \in Arrays, NEW d \in Events, Belongs(a, d)'
      PROVE  Belongs(a, d) \/ (d = e /\ a \in E!Free)
  BY <1>1, <1>2, <1>3, Assumed DEF Belongs
<1>4. ASSUME NEW d \in Events, NEW x \in E!Entries, Holds(d, x)'
      PROVE  Holds(d, x) \/ (d = e /\ x \in Y)
  <2>1. PICK a \in Arrays : Belongs(a, d)' /\ x \in E!ToSet(content'[a])
    BY <1>4 DEF Holds
  <2>2. CASE Shrinks
    <3>1. Belongs(a, d)
      BY <1>1, <2>1, <2>2, Assumed DEF Shrinks, Belongs
    <3> QED BY <2>1, <2>2, <3>1 DEF Shrinks, Holds
  <2>3. CASE Replaces(e, Y)
    <3>1. PICK b \in E!Free, list \in Seq(E!Entries) :
             /\ events' = [events EXCEPT ![e] = b]
             /\ content' = [content EXCEPT ![b] = list]
             /\ E!ToSet(list) \subseteq E!ToSet(E!List(e)) \cup Y
      BY <2>3 DEF Replaces
    <3>2. CASE a = b
      <4>1. ~Belongs(a, d)
        BY <3>2, BelongsReachable DEF E!Free
      <4>2. d = e
        BY <1>3, <2>1, <4>1
      <4>3. x \in E!ToSet(E!List(e)) \cup Y
        BY <2>1, <3>1, <3>2 DEF EmitterInv, E!TypeOK
      <4>4. CASE x \in E!ToSet(E!List(e))
        <5>1. events[e] # NoArray
          BY <4>4 DEF E!List, E!ToSet
        <5>2. events[e] \in Arrays /\ E!List(e) = content[events[e]] /\ Belongs(events[e], e)
          BY <5>1 DEF E!List, EmitterInv, E!TypeOK, Belongs
        <5> QED BY <4>2, <4>4, <5>2 DEF Holds
      <4> QED BY <4>2, <4>3, <4>4
    <3>3. CASE a # b
      <4>1. content'[a] = content[a]
        BY <3>1, <3>3 DEF EmitterInv, E!TypeOK
      <4>2. Belongs(a, d)
        <5>1. events'[d] = a => events[d] = a
          BY <3>1, <3>3 DEF EmitterInv, E!TypeOK
        <5> QED BY <1>1, <2>1, <5>1 DEF Belongs
      <4> QED BY <2>1, <4>1, <4>2 DEF Holds
    <3> QED BY <3>2, <3>3
  <2>4. CASE Extends(e, Y)
    <3>1. PICK y \in Y :
             /\ events[e] \in Arrays /\ events' = events
             /\ content' = [content EXCEPT ![events[e]] = Append(@, y)]
      BY <2>4 DEF Extends
    <3>2. Belongs(a, d)
      BY <1>1, <2>1, <3>1 DEF Belongs
    <3>3. CASE a = events[e]
      <4>1. d = e
        BY <3>2, <3>3 DEF EmitterInv, OneOwner, Belongs
      <4>2. content'[a] = Append(content[a], y)
        BY <3>1, <3>3 DEF EmitterInv, E!TypeOK
      <4>3. E!ToSet(content'[a]) = E!ToSet(content[a]) \cup {y}
        BY <3>1, <4>2, ContentTypes, ToSetAppend DEF New, EmitterInv
      <4> QED BY <2>1, <3>1, <3>2, <4>1, <4>3 DEF Holds
    <3>4. CASE a # events[e]
      <4>1. content'[a] = content[a]
        BY <3>1, <3>4 DEF EmitterInv, E!TypeOK
      <4> QED BY <2>1, <3>2, <4>1 DEF Holds
    <3> QED BY <3>3, <3>4
  <2> QED BY <2>2, <2>3, <2>4 DEF Edits
<1> QED BY <1>3, <1>4

LEMMA OwnersKept ==
    ASSUME EmitterInv, NEW e \in Events, NEW Y, New(Y), Edits(e, Y), FramesFrom
    PROVE  OneOwner' /\ OneHolder'
<1>1. OneOwner'
  <2> SUFFICES ASSUME NEW a \in Arrays, NEW c \in Events, NEW d \in Events, Belongs(a, c)', Belongs(a, d)'
               PROVE  c = d
    BY DEF OneOwner
  <2>1. (Belongs(a, c) \/ (c = e /\ a \in E!Free)) /\ (Belongs(a, d) \/ (d = e /\ a \in E!Free))
    BY EditedArrays
  <2>2. a \in E!Free => ~Belongs(a, c) /\ ~Belongs(a, d)
    BY BelongsReachable DEF E!Free
  <2> QED BY <2>1, <2>2 DEF EmitterInv, OneOwner
<1>2. OneHolder'
  <2> SUFFICES ASSUME NEW c \in Events, NEW d \in Events, NEW x \in E!Entries, NEW y \in E!Entries,
                      Holds(c, x)', Holds(d, y)', E!IsOnce(x), x.wrapper = y.wrapper
               PROVE  c = d /\ x = y
    BY DEF OneHolder
  <2>1. (Holds(c, x) \/ (c = e /\ x \in Y)) /\ (Holds(d, y) \/ (d = e /\ y \in Y))
    BY EditedArrays
  <2>2. E!IsOnce(y)
    BY DEF E!IsOnce
  <2>3. ASSUME NEW z \in Y, NEW v \in E!Entries, NEW b \in Events, E!IsOnce(z), z.wrapper = v.wrapper
        PROVE  ~Holds(b, v)
    <3>1. E!Unused(z.wrapper) /\ z \in E!Entries
      BY <2>3 DEF New
    <3>2. v = [listener |-> v.listener, wrapper |-> z.wrapper] /\ v.listener \in Listeners
      BY <2>3, Assumed, EntryTypes
    <3>3. \A a \in E!Reachable \ {NoArray} : v \notin E!ToSet(content[a])
      BY <3>1, <3>2 DEF E!Unused
    <3> QED BY <3>3, BelongsReachable, Assumed DEF Holds
  <2>4. x \in Y => ~Holds(d, y)
    BY <2>3
  <2>5. y \in Y => ~Holds(c, x)
    BY <2>2, <2>3
  <2> QED BY <2>1, <2>4, <2>5 DEF EmitterInv, OneHolder, New
<1> QED BY <1>1, <1>2

-----------------------------------------------------------------------------
(* What the lists are after an edit, and what emissions read.              *)

LEMMA ReplacedList ==
    ASSUME EmitterInv, NEW e \in Events, NEW a \in E!Free, NEW list,
           events' = [events EXCEPT ![e] = a], content' = [content EXCEPT ![a] = list]
    PROVE  E!Lists' = [E!Lists EXCEPT ![e] = list]
<1>1. a \in Arrays /\ a # NoArray /\ \A d \in Events : events[d] # a
  BY Assumed DEF E!Free, E!Reachable
<1>2. ASSUME NEW d \in Events PROVE E!List(d)' = IF d = e THEN list ELSE E!List(d)
  BY <1>1 DEF EmitterInv, E!TypeOK, E!List
<1> QED BY <1>2 DEF E!Lists

LEMMA ExtendedList ==
    ASSUME EmitterInv, NEW e \in Events, NEW y, events[e] \in Arrays, events' = events,
           content' = [content EXCEPT ![events[e]] = Append(@, y)]
    PROVE  E!Lists' = [E!Lists EXCEPT ![e] = Append(@, y)]
<1>1. \A d \in Events : events[d] = events[e] => d = e
  BY DEF EmitterInv, OneOwner, Belongs
<1>2. ASSUME NEW d \in Events PROVE E!List(d)' = IF d = e THEN Append(E!List(e), y) ELSE E!List(d)
  BY <1>1, Assumed DEF EmitterInv, E!TypeOK, E!List
<1> QED BY <1>2 DEF E!Lists

\* No list has other entries than before but for Y, in that of e.
LEMMA EditedLists ==
    ASSUME EmitterInv, NEW e \in Events, NEW Y, New(Y), Edits(e, Y), NEW d \in Events
    PROVE  E!ToSet(E!List(d)') \subseteq E!ToSet(E!List(d)) \cup (IF d = e THEN Y ELSE {})
<1>1. E!Lists'[d] = E!List(d)' /\ E!Lists[d] = E!List(d)
  BY DEF E!Lists
<1>2. CASE Shrinks
  <2>1. E!ToSet(<<>>) = {}
    BY DEF E!ToSet
  <2> QED BY <1>2, <2>1 DEF Shrinks, E!List
<1>3. CASE Replaces(e, Y)
  <2>1. PICK a \in E!Free, list \in Seq(E!Entries) :
           /\ events' = [events EXCEPT ![e] = a]
           /\ content' = [content EXCEPT ![a] = list]
           /\ E!ToSet(list) \subseteq E!ToSet(E!List(e)) \cup Y
    BY <1>3 DEF Replaces
  <2>2. E!Lists' = [E!Lists EXCEPT ![e] = list]
    BY <2>1, ReplacedList
  <2>3. E!List(d)' = IF d = e THEN list ELSE E!List(d)
    BY <1>1, <2>2 DEF E!Lists
  <2> QED BY <2>1, <2>3
<1>4. CASE Extends(e, Y)
  <2>1. PICK y \in Y :
           /\ events[e] \in Arrays /\ events' = events
           /\ content' = [content EXCEPT ![events[e]] = Append(@, y)]
    BY <1>4 DEF Extends
  <2>2. E!Lists' = [E!Lists EXCEPT ![e] = Append(@, y)]
    BY <2>1, ExtendedList
  <2>3. E!List(d)' = IF d = e THEN Append(E!List(e), y) ELSE E!List(d)
    BY <1>1, <2>2 DEF E!Lists
  <2>4. E!ToSet(Append(E!List(e), y)) = E!ToSet(E!List(e)) \cup {y}
    BY <2>1, ListTypes, ToSetAppend DEF New, EmitterInv
  <2> QED BY <2>1, <2>3, <2>4
<1> QED BY <1>2, <1>3, <1>4 DEF Edits

LEMMA EditedTypes ==
    ASSUME EmitterInv, NEW e \in Events, NEW Y, New(Y), Edits(e, Y)
    PROVE  events' \in [Events -> Arrays \cup {NoArray}] /\ content' \in [Arrays -> Seq(E!Entries)]
<1> USE DEF EmitterInv, E!TypeOK
<1>1. CASE Shrinks
  BY <1>1 DEF Shrinks
<1>2. CASE Replaces(e, Y)
  BY <1>2 DEF Replaces, E!Free
<1>3. CASE Extends(e, Y)
  <2>1. PICK y \in E!Entries : events' = events /\ events[e] \in Arrays
                               /\ content' = [content EXCEPT ![events[e]] = Append(@, y)]
    BY <1>3 DEF Extends, New
  <2>2. Append(content[events[e]], y) \in Seq(E!Entries)
    BY <2>1
  <2> QED BY <2>1, <2>2
<1> QED BY <1>1, <1>2, <1>3 DEF Edits

\* An array in use is at most appended to.
LEMMA ReadsOn ==
    ASSUME EmitterInv, NEW e \in Events, NEW Y, New(Y), Edits(e, Y),
           NEW a \in Arrays, a \notin E!Free
    PROVE  /\ Len(content[a]) \in Nat /\ Len(content'[a]) \in Nat
           /\ Len(content[a]) <= Len(content'[a])
           /\ \A i \in 1 .. Len(content[a]) : content'[a][i] = content[a][i]
<1>0. content[a] \in Seq(E!Entries)
  BY DEF EmitterInv, E!TypeOK
<1>1. CASE content'[a] = content[a]
  BY <1>0, <1>1
<1>2. CASE Extends(e, Y) /\ a = events[e]
  <2>1. PICK y \in E!Entries : content'[a] = Append(content[a], y)
    BY <1>2 DEF Extends, New, EmitterInv, E!TypeOK
  <2> QED BY <1>0, <2>1
<1>3. content'[a] = content[a] \/ (Extends(e, Y) /\ a = events[e])
  BY DEF Edits, Shrinks, Replaces, Extends, EmitterInv, E!TypeOK
<1> QED BY <1>1, <1>2, <1>3

\* A frame that reads within its array.
GoodFrame(f) ==
    /\ f \in E!Frames
    /\ f.next <= f.length /\ f.length <= Len(content[f.array])
    /\ f.calling => 1 <= f.next

GoodStack(q) == q \in Seq(E!Frames) /\ Len(q) <= MaxNesting /\ \A k \in DOMAIN q : GoodFrame(q[k])

LEMMA GoodStacks == E!TypeOK /\ HasTaken => GoodStack(emitting)
BY DEF E!TypeOK, HasTaken, GoodStack, GoodFrame

\* What an emission has still to call, and what it calls.
EmIn(f, c) ==
    [event |-> f.event,
     rest |-> SubSeq(c[f.array], f.next + 1, f.length),
     calling |-> IF f.calling THEN <<c[f.array][f.next]>> ELSE <<>>]
Em(f) == EmIn(f, content)

\* An edit is nothing to an emission under way.
LEMMA FrameKept ==
    ASSUME EmitterInv, NEW e \in Events, NEW Y, New(Y), Edits(e, Y),
           NEW f, GoodFrame(f), f.array \notin E!Free
    PROVE  /\ GoodFrame(f)'
           /\ Em(f)' = Em(f)
           /\ f.calling => content'[f.array][f.next] = content[f.array][f.next]
<1>1. /\ f.array \in Arrays /\ f.next \in Nat /\ f.length \in Nat
      /\ f.next <= f.length /\ f.length <= Len(content[f.array])
      /\ f.calling => 1 <= f.next
  BY DEF GoodFrame, E!Frames
<1>2. PICK old \in Seq(E!Entries), new \in Seq(E!Entries) :
         old = content[f.array] /\ new = content'[f.array]
  BY <1>1, EditedTypes DEF EmitterInv, E!TypeOK
<1>3. Len(old) <= Len(new) /\ \A i \in 1 .. Len(old) : new[i] = old[i]
  BY <1>1, <1>2, ReadsOn
<1>4. GoodFrame(f)'
  BY <1>1, <1>2, <1>3 DEF GoodFrame
<1>5. f.calling => new[f.next] = old[f.next]
  BY <1>1, <1>2, <1>3
<1>6. SubSeq(new, f.next + 1, f.length) = SubSeq(old, f.next + 1, f.length)
  <2> DEFINE m == f.next + 1
             n == f.length
  <2>1. m \in Int /\ n \in Int /\ \A i \in m .. n : i \in 1 .. Len(old) /\ new[i] = old[i] /\ old[i] \in E!Entries
    BY <1>1, <1>2, <1>3
  <2>2. \A i \in 1 .. n - m + 1 : m + i - 1 \in m .. n
    BY <2>1
  <2> HIDE DEF m, n
  <2>3. /\ SubSeq(old, m, n) \in Seq(E!Entries) /\ SubSeq(new, m, n) \in Seq(E!Entries)
        /\ Len(SubSeq(old, m, n)) = IF m <= n THEN n - m + 1 ELSE 0
        /\ Len(SubSeq(new, m, n)) = IF m <= n THEN n - m + 1 ELSE 0
        /\ \A i \in 1 .. n - m + 1 :
              SubSeq(old, m, n)[i] = old[m + i - 1] /\ SubSeq(new, m, n)[i] = new[m + i - 1]
    BY <2>1, SubSeqProperties
  <2>4. SubSeq(new, m, n) = SubSeq(old, m, n)
    <3>1. \A i \in 1 .. Len(SubSeq(new, m, n)) : SubSeq(new, m, n)[i] = SubSeq(old, m, n)[i]
      BY <2>1, <2>2, <2>3
    <3> QED BY <2>3, <3>1, SeqEqual
  <2> QED BY <2>4 DEF m, n
<1> QED BY <1>2, <1>4, <1>5, <1>6 DEF Em, EmIn

LEMMA StackInUse ==
    ASSUME EmitterInv, NEW k \in DOMAIN emitting
    PROVE  /\ GoodFrame(emitting[k]) /\ emitting[k].array \notin E!Free
           /\ emitting[k] \in E!Frames /\ emitting[k].event \in Events /\ emitting[k].array \in Arrays
<1>1. GoodFrame(emitting[k])
  BY GoodStacks DEF EmitterInv, GoodStack
<1>2. emitting[k] \in E!Frames
  BY <1>1 DEF GoodFrame
<1>3. emitting[k].array \in E!Reachable
  BY DEF E!Reachable
<1> QED BY <1>1, <1>2, <1>3 DEF E!Frames, E!Free

\* A list with an entry in front.
LEMMA InFront ==
    ASSUME NEW X, NEW q \in Seq(X), NEW f \in X
    PROVE  /\ <<f>> \o q \in Seq(X) /\ Len(<<f>> \o q) = Len(q) + 1
           /\ DOMAIN (<<f>> \o q) = 1 .. Len(q) + 1
           /\ (<<f>> \o q)[1] = f
           /\ \A k \in DOMAIN q : k + 1 \in 1 .. Len(q) + 1 /\ (<<f>> \o q)[k + 1] = q[k]
           /\ \A k \in 1 .. Len(q) + 1 : k # 1 => k - 1 \in DOMAIN q /\ (<<f>> \o q)[k] = q[k - 1]
<1>1. DOMAIN q = 1 .. Len(q) /\ Len(q) \in Nat
  OBVIOUS
<1>2. /\ <<f>> \o q \in Seq(X) /\ Len(<<f>> \o q) = Len(q) + 1
      /\ \A k \in 1 .. Len(q) + 1 : (<<f>> \o q)[k] = IF k = 1 THEN f ELSE q[k - 1]
  OBVIOUS
<1>3. DOMAIN (<<f>> \o q) = 1 .. Len(q) + 1
  BY <1>1, <1>2
<1>4. \A k \in 1 .. Len(q) : k + 1 \in 1 .. Len(q) + 1 /\ k + 1 # 1 /\ (k + 1) - 1 = k
  BY <1>1
<1>5. \A k \in 1 .. Len(q) + 1 : k # 1 => k - 1 \in 1 .. Len(q)
  BY <1>1
<1>6. 1 \in 1 .. Len(q) + 1
  BY <1>1
<1> QED BY <1>1, <1>2, <1>3, <1>4, <1>5, <1>6

\* The rest of a list.
LEMMA Behind ==
    ASSUME NEW X, NEW q \in Seq(X), q # <<>>
    PROVE  /\ Tail(q) \in Seq(X) /\ Len(Tail(q)) = Len(q) - 1 /\ Head(q) = q[1] /\ 1 \in DOMAIN q
           /\ DOMAIN Tail(q) = 1 .. Len(q) - 1
           /\ \A k \in DOMAIN Tail(q) : k + 1 \in DOMAIN q /\ Tail(q)[k] = q[k + 1]
<1>1. DOMAIN q = 1 .. Len(q) /\ Len(q) \in Nat /\ Len(q) # 0
  OBVIOUS
<1>2. Tail(q) \in Seq(X) /\ Len(Tail(q)) = Len(q) - 1 /\ Head(q) = q[1]
  OBVIOUS
<1>3. \A k \in 1 .. Len(q) - 1 : Tail(q)[k] = q[k + 1]
  OBVIOUS
<1> QED BY <1>1, <1>2, <1>3

\* A step that edits arrays and goes on with good frames keeps the types.
LEMMA GoodAgain ==
    ASSUME EmitterInv, NEW e \in Events, NEW Y, New(Y), Edits(e, Y),
           called' \subseteq Wrappers, GoodStack(emitting)'
    PROVE  E!TypeOK' /\ HasTaken'
<1>1. events' \in [Events -> Arrays \cup {NoArray}] /\ content' \in [Arrays -> Seq(E!Entries)]
  BY EditedTypes
<1> QED BY <1>1 DEF E!TypeOK, HasTaken, GoodStack, GoodFrame

LEMMA SameStack ==
    ASSUME EmitterInv, NEW e \in Events, NEW Y, New(Y), Edits(e, Y), emitting' = emitting
    PROVE  /\ GoodStack(emitting)' /\ FramesFrom
           /\ \A w : E!BeingCalled(w)' <=> E!BeingCalled(w)
<1>1. \A k \in DOMAIN emitting : GoodFrame(emitting[k])'
  BY StackInUse, FrameKept
<1>2. GoodStack(emitting)'
  BY <1>1, GoodStacks DEF GoodStack, EmitterInv
<1>3. FramesFrom
  BY DEF FramesFrom
<1>4. ASSUME NEW w PROVE E!BeingCalled(w)' <=> E!BeingCalled(w)
  <2>1. ASSUME NEW k \in DOMAIN emitting, emitting[k].calling
        PROVE  content'[emitting[k].array][emitting[k].next] = content[emitting[k].array][emitting[k].next]
    BY <2>1, StackInUse, FrameKept
  <2> QED BY <2>1 DEF E!BeingCalled
<1> QED BY <1>2, <1>3, <1>4

-----------------------------------------------------------------------------
(* The invariant.                                                          *)

LEMMA EmptySublist == ASSUME NEW S PROVE Sublist(<<>>, S) = <<>>
<1>1. <<>> \in Seq({})
  BY EmptySeq
<1>2. Sublist(<<>>, S) \in Seq({} \cap S)
  BY <1>1, SublistIsPart
<1>3. \A q \in Seq({} \cap S) : q = <<>>
  <2>1. ASSUME NEW q \in Seq({} \cap S) PROVE q = <<>>
    <3>1. Len(q) # 0 => q[1] \in {} \cap S
      OBVIOUS
    <3> QED BY <3>1
  <2> QED BY <2>1
<1> QED BY <1>2, <1>3

\* No edit, to do with a step that calls or returns.
LEMMA NoEdit ==
    ASSUME E!TypeOK, UNCHANGED <<events, content>>, NEW e \in Events
    PROVE  Edits(e, {}) /\ New({})
BY DEF Edits, Shrinks, New, E!TypeOK

LEMMA AddEdits ==
    ASSUME EmitterInv, NEW e \in Events, NEW x \in E!Entries, E!AddAtEnd(e, x) \/ E!AddAtFront(e, x),
           E!IsOnce(x) => E!Unused(x.wrapper)
    PROVE  /\ Edits(e, {x}) /\ New({x})
           /\ E!Lists' \in {[E!Lists EXCEPT ![e] = Append(@, x)], [E!Lists EXCEPT ![e] = <<x>> \o @]}
<1>1. New({x})
  BY DEF New
<1>2. E!List(e) \in Seq(E!Entries) /\ E!List(e) = E!Lists[e]
  BY ListTypes DEF EmitterInv, E!Lists
<1>3. ASSUME NEW list \in Seq(E!Entries), E!Replace(e, list), E!ToSet(list) \subseteq E!ToSet(E!List(e)) \cup {x}
      PROVE  Edits(e, {x}) /\ E!Lists' = [E!Lists EXCEPT ![e] = list]
  <2>1. PICK a \in E!Free : events' = [events EXCEPT ![e] = a] /\ content' = [content EXCEPT ![a] = list]
    BY <1>3 DEF E!Replace
  <2> QED BY <1>3, <2>1, ReplacedList DEF Edits, Replaces
<1>4. CASE E!AddAtEnd(e, x) /\ events[e] = NoArray
  <2>1. E!List(e) = <<>> /\ E!Replace(e, <<x>>)
    BY <1>4 DEF E!AddAtEnd, E!List
  <2>2. <<x>> \in Seq(E!Entries) /\ E!ToSet(<<x>>) \subseteq E!ToSet(E!List(e)) \cup {x}
    BY DEF E!ToSet
  <2>3. Edits(e, {x}) /\ E!Lists' = [E!Lists EXCEPT ![e] = <<x>>]
    BY <1>3, <2>1, <2>2
  <2>4. Append(E!Lists[e], x) = <<x>>
    BY <1>2, <2>1
  <2> QED BY <1>1, <2>3, <2>4
<1>5. CASE E!AddAtEnd(e, x) /\ events[e] # NoArray
  <2>1. events[e] \in Arrays /\ events' = events /\ content' = [content EXCEPT ![events[e]] = Append(@, x)]
    BY <1>5 DEF E!AddAtEnd, EmitterInv, E!TypeOK
  <2>2. Edits(e, {x})
    BY <2>1 DEF Edits, Extends
  <2>3. E!Lists' = [E!Lists EXCEPT ![e] = Append(@, x)]
    BY <2>1, ExtendedList
  <2> QED BY <1>1, <2>2, <2>3
<1>6. CASE E!AddAtFront(e, x)
  <2>1. E!Replace(e, <<x>> \o E!List(e))
    BY <1>6 DEF E!AddAtFront
  <2>2. <<x>> \o E!List(e) \in Seq(E!Entries)
    BY <1>2, InFront
  <2>3. E!ToSet(<<x>> \o E!List(e)) \subseteq E!ToSet(E!List(e)) \cup {x}
    BY <1>2, InFront DEF E!ToSet
  <2>4. Edits(e, {x}) /\ E!Lists' = [E!Lists EXCEPT ![e] = <<x>> \o E!List(e)]
    BY <1>3, <2>1, <2>2, <2>3
  <2> QED BY <1>1, <1>2, <2>4
<1> QED BY <1>4, <1>5, <1>6

LEMMA RemoveEdits ==
    ASSUME EmitterInv, NEW e \in Events, NEW x, E!RemoveEntry(e, x)
    PROVE  /\ Edits(e, {}) /\ New({})
           /\ E!Lists' = [E!Lists EXCEPT ![e] = Sublist(@, E!Entries \ {x})]
           /\ \A y \in E!ToSet(E!List(e)') : y # x
<1>1. E!List(e) \in Seq(E!Entries) /\ E!List(e) = E!Lists[e]
  BY ListTypes DEF EmitterInv, E!Lists
<1>2. CASE events[e] = NoArray
  <2>1. UNCHANGED <<events, content>>
    BY <1>2 DEF E!RemoveEntry
  <2>2. E!List(e) = <<>> /\ E!List(e)' = <<>> /\ E!Lists' = E!Lists
    BY <1>2, <2>1 DEF E!List, E!Lists
  <2>3. E!Lists[e] = Sublist(E!Lists[e], E!Entries \ {x})
    BY <1>1, <2>2, EmptySublist
  <2>4. E!Lists = [E!Lists EXCEPT ![e] = Sublist(@, E!Entries \ {x})]
    BY <2>3 DEF E!Lists
  <2> QED BY <2>1, <2>2, <2>4, NoEdit DEF E!ToSet, EmitterInv
<1>3. CASE events[e] # NoArray
  <2> DEFINE list == Sublist(E!List(e), E!Entries \ {x})
  <2>1. PICK a \in E!Free : events' = [events EXCEPT ![e] = a] /\ content' = [content EXCEPT ![a] = list]
    BY <1>3, SameSublist DEF E!RemoveEntry, E!Replace
  <2>2. /\ list \in Seq(E!Entries \cap (E!Entries \ {x}))
        /\ \A k \in DOMAIN list : \E i \in DOMAIN E!List(e) : list[k] = E!List(e)[i]
    <3>1. ASSUME NEW q \in Seq(E!Entries)
          PROVE  /\ Sublist(q, E!Entries \ {x}) \in Seq(E!Entries \cap (E!Entries \ {x}))
                 /\ \A k \in DOMAIN Sublist(q, E!Entries \ {x}) :
                       \E i \in DOMAIN q : Sublist(q, E!Entries \ {x})[k] = q[i]
      <4>1. ASSUME NEW S
            PROVE  /\ Sublist(q, S) \in Seq(E!Entries \cap S)
                   /\ \A k \in DOMAIN Sublist(q, S) : \E i \in DOMAIN q : Sublist(q, S)[k] = q[i]
        BY SublistIsPart
      <4> QED BY <4>1, Zenon
    <3> QED BY <1>1, <3>1, Zenon
  <2> HIDE DEF list
  <2>3. list \in Seq(E!Entries) /\ E!ToSet(list) \subseteq E!ToSet(E!List(e)) \cup {} /\ \A y \in E!ToSet(list) : y # x
    BY <2>2 DEF E!ToSet
  <2>4. Edits(e, {}) /\ New({})
    BY <2>1, <2>3 DEF Edits, Replaces, New
  <2>5. E!Lists' = [E!Lists EXCEPT ![e] = list]
    BY <2>1, ReplacedList
  <2>6. E!List(e)' = list
    <3>1. E!List(e)' = E!Lists'[e]
      BY DEF E!Lists
    <3> QED BY <2>5, <3>1 DEF E!Lists
  <2> QED BY <1>1, <2>3, <2>4, <2>5, <2>6 DEF list
<1> QED BY <1>2, <1>3

\* Who has been called and is back is on no list, if it was on none before, or
\* has been removed.
LEMMA StaysRemoved ==
    ASSUME EmitterInv, NEW e \in Events, NEW Y, New(Y), Edits(e, Y),
           \A w \in called' : ~E!BeingCalled(w)' =>
               \/ w \in called /\ ~E!BeingCalled(w) /\ \A y \in Y : y.wrapper # w
               \/ \A d \in Events : \A x \in E!ToSet(E!List(d)') : x.wrapper # w
    PROVE  E!OnceRemoved'
<1> SUFFICES ASSUME NEW w \in called', ~E!BeingCalled(w)', NEW d \in Events, NEW x \in E!ToSet(E!List(d)')
             PROVE  x.wrapper # w
  BY DEF E!OnceRemoved
<1>1. CASE w \in called /\ ~E!BeingCalled(w) /\ \A y \in Y : y.wrapper # w
  <2>1. x \in E!ToSet(E!List(d)) \/ x \in Y
    BY EditedLists
  <2> QED BY <1>1, <2>1 DEF EmitterInv, E!OnceRemoved
<1> QED BY <1>1

\* Scripts register and remove listeners between the steps of emissions.
LEMMA ScriptKeeps ==
    ASSUME EmitterInv, NEW e \in Events, NEW Y, New(Y), Edits(e, Y), emitting' = emitting,
           called' \subseteq called, \A y \in Y : y.wrapper \notin called'
    PROVE  EmitterInv'
<1>1. FramesFrom /\ GoodStack(emitting)' /\ \A w : E!BeingCalled(w)' <=> E!BeingCalled(w)
  BY SameStack
<1>2. E!TypeOK' /\ HasTaken'
  BY <1>1, GoodAgain DEF EmitterInv, E!TypeOK
<1>3. OneOwner' /\ OneHolder'
  BY <1>1, OwnersKept
<1>4. E!OnceRemoved'
  BY <1>1, StaysRemoved
<1> QED BY <1>2, <1>3, <1>4 DEF EmitterInv

LEMMA PlainEntry ==
    ASSUME EmitterAssumed, NEW l \in Listeners
    PROVE  LET x == [listener |-> l, wrapper |-> "none"]
           IN  x \in E!Entries /\ ~E!IsOnce(x) /\ (E!TypeOK => x.wrapper \notin called)
BY DEF EmitterAssumed, E!Entries, E!IsOnce, E!TypeOK

LEMMA OnceEntry ==
    ASSUME EmitterAssumed, NEW l \in Listeners, NEW w \in Wrappers
    PROVE  LET x == [listener |-> l, wrapper |-> w]
           IN  x \in E!Entries /\ E!IsOnce(x) /\ x.wrapper = w
BY DEF EmitterAssumed, E!Entries, E!IsOnce

LEMMA AddKeeps ==
    ASSUME EmitterInv, NEW e \in Events, NEW l \in Listeners,
           E!On(e, l) \/ E!PrependListener(e, l) \/ E!Once(e, l) \/ E!PrependOnceListener(e, l)
    PROVE  EmitterInv'
<1>1. CASE E!On(e, l) \/ E!PrependListener(e, l)
  <2>1. PICK x \in E!Entries : /\ E!AddAtEnd(e, x) \/ E!AddAtFront(e, x)
                               /\ ~E!IsOnce(x) /\ x.wrapper \notin called
                               /\ UNCHANGED <<emitting, called>>
    BY <1>1, PlainEntry DEF E!On, E!PrependListener, EmitterInv
  <2>2. Edits(e, {x}) /\ New({x})
    BY <2>1, AddEdits
  <2> QED BY <2>1, <2>2, ScriptKeeps
<1>2. CASE E!Once(e, l) \/ E!PrependOnceListener(e, l)
  <2>1. PICK w \in Wrappers : /\ E!Unused(w) /\ called' = called \ {w} /\ emitting' = emitting
                              /\ \/ E!AddAtEnd(e, [listener |-> l, wrapper |-> w])
                                 \/ E!AddAtFront(e, [listener |-> l, wrapper |-> w])
    BY <1>2 DEF E!Once, E!PrependOnceListener, E!WithWrapper
  <2>2. PICK x \in E!Entries : x.wrapper = w /\ (E!AddAtEnd(e, x) \/ E!AddAtFront(e, x))
    BY <2>1, Assumed, OnceEntry
  <2>3. Edits(e, {x}) /\ New({x})
    BY <2>1, <2>2, AddEdits
  <2> QED BY <2>1, <2>2, <2>3, ScriptKeeps
<1> QED BY <1>1, <1>2

LEMMA RemoveKeeps ==
    ASSUME EmitterInv,
           \/ \E e \in Events, l \in Listeners : E!RemoveListener(e, l)
           \/ \E es \in SUBSET Events : E!RemoveAllListeners(es)
           \/ UNCHANGED E!vars
    PROVE  EmitterInv'
<1>1. ASSUME NEW e \in Events, NEW l \in Listeners, E!RemoveListener(e, l) PROVE EmitterInv'
  <2>1. PICK x : E!RemoveEntry(e, x) /\ UNCHANGED <<emitting, called>>
    BY <1>1 DEF E!RemoveListener
  <2> QED BY <2>1, RemoveEdits, ScriptKeeps
<1>2. PICK e \in Events : TRUE
  BY Assumed
<1>3. ASSUME NEW es \in SUBSET Events, E!RemoveAllListeners(es) PROVE EmitterInv'
  <2>1. Shrinks /\ UNCHANGED <<emitting, called>>
    BY <1>3 DEF E!RemoveAllListeners, Shrinks, EmitterInv, E!TypeOK
  <2>2. Edits(e, {}) /\ New({})
    BY <2>1 DEF Edits, New
  <2> QED BY <2>1, <2>2, ScriptKeeps
<1>4. CASE UNCHANGED E!vars
  BY <1>2, <1>4, NoEdit, ScriptKeeps DEF E!vars, EmitterInv
<1> QED BY <1>1, <1>3, <1>4

-----------------------------------------------------------------------------
(* Emissions.                                                              *)

\* The frame f reads on in the array of g.
GoesOn(f, g) ==
    /\ f.event = g.event /\ f.array = g.array /\ f.length = g.length
    /\ f.next \in Nat /\ f.next <= f.length
    /\ f.calling => 1 <= f.next

LEMMA BegunFrame ==
    ASSUME E!TypeOK, NEW d \in Events, E!List(d) # <<>>
    PROVE  /\ E!Frame(d) \in E!Frames /\ GoodFrame(E!Frame(d)) /\ ~E!Frame(d).calling
           /\ Em(E!Frame(d)) = [event |-> d, rest |-> E!List(d), calling |-> <<>>]
<1>1. events[d] \in Arrays /\ E!List(d) = content[events[d]]
  BY DEF E!TypeOK, E!List
<1>2. PICK q \in Seq(E!Entries) : q = E!List(d)
  BY ListTypes
<1>3. Len(q) \in Nat /\ SubSeq(q, 0 + 1, Len(q)) = q
  OBVIOUS
<1> QED BY <1>1, <1>2, <1>3 DEF E!Frame, E!Frames, GoodFrame, Em, EmIn

LEMMA StackKept ==
    ASSUME EmitterInv, NEW e \in Events, NEW Y, New(Y), Edits(e, Y),
           emitting' \in Seq(E!Frames), Len(emitting') <= MaxNesting,
           \A k \in DOMAIN emitting' :
               \/ \E j \in DOMAIN emitting : GoesOn(emitting'[k], emitting[j])
               \/ \E d \in Events : emitting'[k] = E!Frame(d)' /\ E!List(d)' # <<>>
    PROVE  GoodStack(emitting)' /\ FramesFrom
<1>1. FramesFrom
  BY DEF FramesFrom, GoesOn, E!Frame
<1>2. ASSUME NEW k \in DOMAIN emitting' PROVE GoodFrame(emitting[k])'
  <2>1. emitting'[k] \in E!Frames
    OBVIOUS
  <2>2. ASSUME NEW j \in DOMAIN emitting, GoesOn(emitting'[k], emitting[j])
        PROVE  GoodFrame(emitting[k])'
    <3>1. PICK f : f = emitting[j]
      OBVIOUS
    <3>2. GoodFrame(f)'
      BY <3>1, StackInUse, FrameKept
    <3>3. f.length <= Len(content'[f.array])
      BY <3>2 DEF GoodFrame
    <3> QED BY <2>1, <2>2, <3>1, <3>3 DEF GoesOn, GoodFrame
  <2>3. ASSUME NEW d \in Events, emitting'[k] = E!Frame(d)', E!List(d)' # <<>>
        PROVE  GoodFrame(emitting[k])'
    <3>1. /\ emitting'[k].array = events'[d] /\ emitting'[k].length = Len(E!List(d)')
          /\ emitting'[k].next = 0 /\ emitting'[k].calling = FALSE
      BY <2>3 DEF E!Frame
    <3>2. E!List(d)' = content'[events'[d]]
      BY <2>3 DEF E!List
    <3> QED BY <2>1, <3>1, <3>2 DEF GoodFrame, E!Frames
  <2> QED BY <2>2, <2>3
<1> QED BY <1>1, <1>2 DEF GoodStack

\* A step of an emission keeps the invariant when it keeps OnceRemoved.
LEMMA EmissionKeeps ==
    ASSUME EmitterInv, NEW e \in Events, NEW Y, New(Y), Edits(e, Y),
           called' \subseteq Wrappers, GoodStack(emitting)', FramesFrom, E!OnceRemoved'
    PROVE  EmitterInv'
BY GoodAgain, OwnersKept DEF EmitterInv

LEMMA TopFrame ==
    ASSUME EmitterInv, emitting # <<>>
    PROVE  /\ emitting \in Seq(E!Frames) /\ Len(emitting) \in Nat /\ Len(emitting) <= MaxNesting
           /\ DOMAIN emitting = 1 .. Len(emitting)
           /\ 1 \in DOMAIN emitting /\ E!Top = emitting[1] /\ GoodFrame(E!Top)
           /\ E!Top \in E!Frames /\ E!Top.event \in Events /\ E!Top.array \in Arrays \ E!Free
           /\ E!Top.next \in Nat /\ E!Top.length \in Nat /\ E!Top.calling \in BOOLEAN
           /\ content[E!Top.array] \in Seq(E!Entries)
<1>1. emitting \in Seq(E!Frames) /\ Len(emitting) <= MaxNesting
  BY DEF EmitterInv, E!TypeOK
<1>2. 1 \in DOMAIN emitting /\ E!Top = emitting[1] /\ Len(emitting) \in Nat /\ DOMAIN emitting = 1 .. Len(emitting)
  BY <1>1, Behind DEF E!Top
<1>3. GoodFrame(E!Top) /\ E!Top \in E!Frames /\ E!Top.event \in Events /\ E!Top.array \in Arrays \ E!Free
  BY <1>2, StackInUse
<1> QED BY <1>1, <1>2, <1>3 DEF E!Frames, EmitterInv, E!TypeOK

\* The entry that the innermost emission calls is on its array.
LEMMA CalledEntry ==
    ASSUME EmitterInv, emitting # <<>>, E!Top.calling
    PROVE  /\ E!Called \in E!Entries /\ Holds(E!Top.event, E!Called)
           /\ E!Top.next \in 1 .. Len(content[E!Top.array])
<1>1. E!Top.next \in 1 .. Len(content[E!Top.array])
  BY TopFrame DEF GoodFrame
<1>2. E!Called \in E!ToSet(content[E!Top.array]) /\ E!Called \in E!Entries
  <2>1. PICK a \in Seq(E!Entries) : a = content[E!Top.array]
    BY TopFrame
  <2>2. a[E!Top.next] \in E!ToSet(a) /\ a[E!Top.next] \in E!Entries
    BY <1>1, <2>1 DEF E!ToSet
  <2> QED BY <2>1, <2>2 DEF E!Called
<1>3. Belongs(E!Top.array, E!Top.event)
  BY TopFrame DEF Belongs
<1> QED BY <1>1, <1>2, <1>3, TopFrame DEF Holds

\* The wrapper of a listener that is back is on no list.
LEMMA Unwraps ==
    ASSUME EmitterInv, emitting # <<>>, E!Top.calling, E!Unwrap
    PROVE  /\ Edits(E!Top.event, {}) /\ New({})
           /\ E!Lists' = IF E!IsOnce(E!Called)
                         THEN [E!Lists EXCEPT ![E!Top.event] = Sublist(@, E!Entries \ {E!Called})]
                         ELSE E!Lists
           /\ E!IsOnce(E!Called) =>
                 \A d \in Events : \A x \in E!ToSet(E!List(d)') : x.wrapper # E!Called.wrapper
<1>1. CASE E!IsOnce(E!Called)
  <2>1. PICK e \in Events, y \in E!Entries : e = E!Top.event /\ y = E!Called
    BY TopFrame, CalledEntry
  <2>2. E!RemoveEntry(e, y)
    BY <1>1, <2>1 DEF E!Unwrap
  <2>3. /\ Edits(e, {}) /\ New({})
        /\ E!Lists' = [E!Lists EXCEPT ![e] = Sublist(@, E!Entries \ {y})]
        /\ \A x \in E!ToSet(E!List(e)') : x # y
    BY <2>2, RemoveEdits
  <2>4. ASSUME NEW d \in Events, NEW x \in E!ToSet(E!List(d)'), x.wrapper = y.wrapper
        PROVE  FALSE
    <3>1. x \in E!ToSet(E!List(d))
      BY <2>3, EditedLists
    <3>2. E!List(d) # <<>> /\ x \in E!Entries
      BY <3>1, ListTypes DEF EmitterInv, E!ToSet
    <3>3. events[d] \in Arrays /\ Belongs(events[d], d) /\ E!List(d) = content[events[d]]
      BY <3>2 DEF EmitterInv, E!TypeOK, E!List, Belongs
    <3>4. Holds(d, x)
      BY <3>1, <3>3 DEF Holds
    <3>5. y \in E!Entries /\ Holds(e, y) /\ E!IsOnce(y)
      BY <1>1, <2>1, CalledEntry
    <3>6. d = e /\ x = y
      BY <2>4, <3>2, <3>4, <3>5 DEF EmitterInv, OneHolder, E!IsOnce
    <3> QED BY <2>3, <2>4, <3>6
  <2> QED BY <1>1, <2>1, <2>3, <2>4
<1>2. CASE ~E!IsOnce(E!Called)
  <2>1. UNCHANGED <<events, content>>
    BY <1>2 DEF E!Unwrap
  <2>2. E!Lists' = E!Lists
    BY <2>1 DEF E!Lists, E!List
  <2> QED BY <1>2, <2>1, <2>2, NoEdit, TopFrame DEF EmitterInv
<1> QED BY <1>1, <1>2

LEMMA EmitKeeps == ASSUME EmitterInv, NEW e \in Events, E!Emit(e) PROVE EmitterInv'
<1>1. Edits(e, {}) /\ New({}) /\ UNCHANGED <<events, content, called>>
  BY NoEdit DEF E!Emit, EmitterInv
<1>2. emitting \in Seq(E!Frames) /\ Len(emitting) < MaxNesting /\ emitting' = <<E!Frame(e)>> \o emitting /\ E!List(e) # <<>>
  BY DEF E!Emit, EmitterInv, E!TypeOK
<1>3. E!Frame(e) \in E!Frames /\ ~E!Frame(e).calling
  BY <1>2, BegunFrame DEF EmitterInv
<1>4. /\ emitting' \in Seq(E!Frames) /\ Len(emitting') = Len(emitting) + 1 /\ DOMAIN emitting' = 1 .. Len(emitting) + 1
      /\ emitting'[1] = E!Frame(e)
      /\ \A k \in DOMAIN emitting : k + 1 \in DOMAIN emitting' /\ emitting'[k + 1] = emitting[k]
      /\ \A k \in DOMAIN emitting' : k # 1 => k - 1 \in DOMAIN emitting /\ emitting'[k] = emitting[k - 1]
  BY <1>2, <1>3, InFront
<1>5. GoodStack(emitting)' /\ FramesFrom
  <2>1. E!Frame(e)' = E!Frame(e) /\ E!List(e)' = E!List(e)
    BY <1>1 DEF E!Frame, E!List
  <2>2. ASSUME NEW k \in DOMAIN emitting', k # 1
        PROVE  \E j \in DOMAIN emitting : GoesOn(emitting'[k], emitting[j])
    BY <1>4, <2>2, StackInUse DEF GoesOn, GoodFrame, E!Frames
  <2>3. Len(emitting') <= MaxNesting
    BY <1>2, <1>4, Assumed
  <2> QED BY <1>1, <1>2, <1>4, <2>1, <2>2, <2>3, StackKept
<1>6. \A w : E!BeingCalled(w) => E!BeingCalled(w)'
  BY <1>1, <1>4 DEF E!BeingCalled
<1>7. E!OnceRemoved'
  BY <1>1, <1>6, StaysRemoved
<1> QED BY <1>1, <1>5, <1>7, EmissionKeeps DEF EmitterInv, E!TypeOK

\* The stack with another frame on top.
LEMMA OtherTop ==
    ASSUME NEW X, NEW q \in Seq(X), q # <<>>, NEW g \in X
    PROVE  /\ [q EXCEPT ![1] = g] \in Seq(X) /\ Len([q EXCEPT ![1] = g]) = Len(q)
           /\ DOMAIN [q EXCEPT ![1] = g] = DOMAIN q
           /\ [q EXCEPT ![1] = g][1] = g
           /\ \A k \in DOMAIN q : k # 1 => [q EXCEPT ![1] = g][k] = q[k]
<1>1. 1 \in DOMAIN q /\ DOMAIN q = 1 .. Len(q)
  OBVIOUS
<1> QED BY <1>1

LEMMA CallNextKeeps == ASSUME EmitterInv, E!CallNext PROVE EmitterInv'
<1> DEFINE g == [E!Top EXCEPT !.next = @ + 1, !.calling = TRUE]
           x == content[E!Top.array][E!Top.next + 1]
<1>1. /\ emitting # <<>> /\ ~E!Top.calling /\ E!Top.next < E!Top.length
      /\ emitting' = [emitting EXCEPT ![1].next = @ + 1, ![1].calling = TRUE]
      /\ called' = called \cup IF E!IsOnce(x) THEN {x.wrapper} ELSE {}
      /\ UNCHANGED <<events, content>>
  BY DEF E!CallNext
<1>2. Edits(E!Top.event, {}) /\ New({})
  BY <1>1, NoEdit, TopFrame DEF EmitterInv
<1>3. /\ g \in E!Frames /\ g.event = E!Top.event /\ g.array = E!Top.array /\ g.length = E!Top.length
      /\ g.next = E!Top.next + 1 /\ g.calling = TRUE
  BY <1>1, TopFrame DEF E!Frames
<1>4. emitting' = [emitting EXCEPT ![1] = g]
  BY <1>1, TopFrame DEF E!Frames
<1> HIDE DEF g
<1>5. /\ emitting' \in Seq(E!Frames) /\ Len(emitting') = Len(emitting) /\ DOMAIN emitting' = DOMAIN emitting
      /\ emitting'[1] = g /\ \A k \in DOMAIN emitting : k # 1 => emitting'[k] = emitting[k]
  <2>1. PICK q \in Seq(E!Frames) : q = emitting /\ q # <<>>
    BY <1>1, TopFrame
  <2> QED BY <1>3, <1>4, <2>1, OtherTop
<1>6. GoodStack(emitting)' /\ FramesFrom
  <2>1. GoesOn(emitting'[1], emitting[1])
    BY <1>1, <1>3, <1>5, TopFrame DEF GoesOn
  <2>2. ASSUME NEW k \in DOMAIN emitting', k # 1
        PROVE  GoesOn(emitting'[k], emitting[k])
    BY <1>5, <2>2, StackInUse DEF GoesOn, GoodFrame, E!Frames
  <2> QED BY <1>1, <1>2, <1>5, <2>1, <2>2, StackKept, TopFrame
<1>7. x \in E!Entries
  <2>1. E!Top.next + 1 \in 1 .. Len(content[E!Top.array])
    BY <1>1, TopFrame DEF GoodFrame
  <2>2. PICK q \in Seq(E!Entries) : q = content[E!Top.array]
    BY <1>1, TopFrame
  <2> QED BY <2>1, <2>2
<1>8. \A w : E!BeingCalled(w) => E!BeingCalled(w)'
  BY <1>1, <1>5, TopFrame DEF E!BeingCalled
<1>9. ASSUME NEW w, w = x.wrapper PROVE E!BeingCalled(w)'
  <2>1. /\ 1 \in DOMAIN emitting' /\ emitting'[1].calling
        /\ emitting'[1].array = E!Top.array /\ emitting'[1].next = E!Top.next + 1
    BY <1>1, <1>3, <1>5, TopFrame
  <2>2. content'[emitting'[1].array][emitting'[1].next] = x
    BY <1>1, <2>1
  <2> QED BY <1>9, <2>1, <2>2 DEF E!BeingCalled
<1> HIDE DEF x
<1>10. called' \subseteq Wrappers
  BY <1>1, <1>7, EntryTypes DEF EmitterInv, E!TypeOK
<1>11. E!OnceRemoved'
  <2>1. \A w \in called' : ~E!BeingCalled(w)' => w \in called /\ ~E!BeingCalled(w)
    BY <1>1, <1>8, <1>9
  <2> QED BY <1>1, <1>2, <2>1, StaysRemoved, TopFrame
<1> QED BY <1>1, <1>2, <1>6, <1>10, <1>11, EmissionKeeps, TopFrame

\* A listener is back: its emission goes on, and one of another event may begin
\* before it does.
Back == [emitting EXCEPT ![1].calling = FALSE]

LEMMA BackFrames ==
    ASSUME EmitterInv, emitting # <<>>, E!Top.calling
    PROVE  /\ Back \in Seq(E!Frames) /\ Len(Back) = Len(emitting) /\ DOMAIN Back = DOMAIN emitting
           /\ Back = [emitting EXCEPT ![1] = [E!Top EXCEPT !.calling = FALSE]]
           /\ \A k \in DOMAIN emitting :
                 /\ GoesOn(Back[k], emitting[k])
                 /\ Back[k].next = emitting[k].next
                 /\ Back[k].calling <=> k # 1 /\ emitting[k].calling
<1> DEFINE g == [E!Top EXCEPT !.calling = FALSE]
<1>1. /\ g \in E!Frames /\ g.event = E!Top.event /\ g.array = E!Top.array /\ g.length = E!Top.length
      /\ g.next = E!Top.next /\ g.calling = FALSE
  BY TopFrame DEF E!Frames
<1>2. Back = [emitting EXCEPT ![1] = g]
  BY TopFrame DEF Back, E!Frames
<1>3. PICK q \in Seq(E!Frames) : q = emitting /\ q # <<>>
  BY TopFrame
<1> HIDE DEF g
<1>4. /\ Back \in Seq(E!Frames) /\ Len(Back) = Len(emitting) /\ DOMAIN Back = DOMAIN emitting
      /\ Back[1] = g /\ \A k \in DOMAIN emitting : k # 1 => Back[k] = emitting[k]
  BY <1>1, <1>2, <1>3, OtherTop
<1>5. GoesOn(g, emitting[1]) /\ g.next = emitting[1].next /\ ~g.calling
  BY <1>1, TopFrame DEF GoesOn, GoodFrame
<1>6. ASSUME NEW k \in DOMAIN emitting, k # 1 PROVE GoesOn(emitting[k], emitting[k]) /\ emitting[k].calling \in BOOLEAN
  BY StackInUse DEF GoesOn, GoodFrame, E!Frames
<1> QED BY <1>2, <1>4, <1>5, <1>6 DEF g

\* Who is called before and not after is the wrapper of the listener that is back.
LEMMA BackCalls ==
    ASSUME EmitterInv, emitting # <<>>, E!Top.calling, E!Unwrap,
           \A k \in DOMAIN Back : \E j \in DOMAIN emitting' : emitting'[j] = Back[k],
           called' = called
    PROVE  E!OnceRemoved'
<1>1. /\ Edits(E!Top.event, {}) /\ New({})
      /\ E!IsOnce(E!Called) => \A d \in Events : \A x \in E!ToSet(E!List(d)') : x.wrapper # E!Called.wrapper
  BY Unwraps
<1>2. ASSUME NEW w, E!BeingCalled(w), ~E!BeingCalled(w)' PROVE w = E!Called.wrapper
  <2>1. PICK k \in DOMAIN emitting : emitting[k].calling /\ content[emitting[k].array][emitting[k].next].wrapper = w
    BY <1>2 DEF E!BeingCalled
  <2>2. PICK j \in DOMAIN emitting' : emitting'[j] = Back[k]
    BY BackFrames
  <2>3. content'[emitting[k].array][emitting[k].next] = content[emitting[k].array][emitting[k].next]
    <3>1. PICK f : f = emitting[k]
      OBVIOUS
    <3>2. GoodFrame(f) /\ f.array \notin E!Free /\ f.calling
      BY <2>1, <3>1, StackInUse
    <3> QED BY <1>1, <3>1, <3>2, FrameKept, TopFrame
  <2>4. k # 1 => E!BeingCalled(w)'
    BY <2>1, <2>2, <2>3, BackFrames DEF E!BeingCalled, GoesOn
  <2> QED BY <1>2, <2>1, <2>4, TopFrame DEF E!Called
<1>3. \A w \in called' : ~E!BeingCalled(w)' =>
          \/ w \in called /\ ~E!BeingCalled(w)
          \/ \A d \in Events : \A x \in E!ToSet(E!List(d)') : x.wrapper # w
  <2> SUFFICES ASSUME NEW w \in called', ~E!BeingCalled(w)', E!BeingCalled(w)
               PROVE  \A d \in Events : \A x \in E!ToSet(E!List(d)') : x.wrapper # w
    OBVIOUS
  <2>1. w = E!Called.wrapper /\ w \in Wrappers
    BY <1>2 DEF EmitterInv, E!TypeOK
  <2>2. E!IsOnce(E!Called)
    BY <2>1, Assumed DEF E!IsOnce
  <2> QED BY <1>1, <2>1, <2>2
<1>4. PICK e \in Events : e = E!Top.event
  BY TopFrame
<1> QED BY <1>1, <1>3, <1>4, StaysRemoved

LEMMA ListenerReturnsKeeps == ASSUME EmitterInv, E!ListenerReturns PROVE EmitterInv'
<1>1. emitting # <<>> /\ E!Top.calling /\ E!Unwrap /\ emitting' = Back /\ called' = called
  BY DEF E!ListenerReturns, Back
<1>2. PICK e \in Events : e = E!Top.event
  BY <1>1, TopFrame
<1>3. Edits(e, {}) /\ New({})
  BY <1>1, <1>2, Unwraps
<1>4. emitting' \in Seq(E!Frames) /\ Len(emitting') <= MaxNesting /\ DOMAIN emitting' = DOMAIN emitting
      /\ \A k \in DOMAIN emitting' : GoesOn(emitting'[k], emitting[k])
  BY <1>1, BackFrames, TopFrame
<1>5. GoodStack(emitting)' /\ FramesFrom
  BY <1>3, <1>4, StackKept
<1>6. E!OnceRemoved'
  BY <1>1, BackCalls
<1> QED BY <1>1, <1>3, <1>5, <1>6, EmissionKeeps DEF EmitterInv, E!TypeOK

LEMMA ListenerThrowsKeeps == ASSUME EmitterInv, E!ListenerThrows PROVE EmitterInv'
<1>1. /\ emitting # <<>> /\ E!Top.calling /\ E!Unwrap /\ called' = called
      /\ Len(emitting) < MaxNesting \/ E!List("error")' = <<>>
      /\ emitting' = IF E!List("error")' = <<>> THEN Back ELSE <<E!Frame("error")'>> \o Back
  BY DEF E!ListenerThrows, Back
<1>2. PICK e \in Events : e = E!Top.event
  BY <1>1, TopFrame
<1>3. Edits(e, {}) /\ New({})
  BY <1>1, <1>2, Unwraps
<1>4. PICK back : /\ back = Back /\ back \in Seq(E!Frames) /\ Len(back) = Len(emitting)
                  /\ DOMAIN back = DOMAIN emitting /\ \A k \in DOMAIN back : GoesOn(back[k], emitting[k])
  BY <1>1, BackFrames
<1>5. CASE E!List("error")' = <<>>
  <2>1. emitting' = Back
    BY <1>1, <1>5
  <2>2. GoodStack(emitting)' /\ FramesFrom
    BY <1>1, <1>3, <1>4, <2>1, StackKept, TopFrame
  <2>3. E!OnceRemoved'
    BY <1>1, <2>1, BackCalls
  <2> QED BY <1>1, <1>3, <2>2, <2>3, EmissionKeeps DEF EmitterInv, E!TypeOK
<1>6. CASE E!List("error")' # <<>>
  <2>1. PICK f : f = E!Frame("error")'
    OBVIOUS
  <2>2. f \in E!Frames
    <3>1. events'["error"] \in Arrays /\ E!List("error")' = content'[events'["error"]]
      BY <1>3, <1>6, EditedTypes, Assumed DEF E!List
    <3>2. f = [event |-> "error", array |-> events'["error"], length |-> Len(E!List("error")'),
               next |-> 0, calling |-> FALSE]
      BY <2>1 DEF E!Frame
    <3>3. E!List("error")' \in Seq(E!Entries)
      BY <1>3, <3>1, EditedTypes
    <3> QED BY <3>1, <3>2, <3>3, Assumed DEF E!Frames
  <2>3. emitting' = <<f>> \o back
    BY <1>1, <1>4, <1>6, <2>1
  <2>4. /\ emitting' \in Seq(E!Frames) /\ Len(emitting') = Len(back) + 1 /\ emitting'[1] = f
        /\ \A k \in DOMAIN back : k + 1 \in DOMAIN emitting' /\ emitting'[k + 1] = back[k]
        /\ \A k \in DOMAIN emitting' : k # 1 => k - 1 \in DOMAIN back /\ emitting'[k] = back[k - 1]
    BY <1>4, <2>2, <2>3, InFront
  <2>5. Len(emitting') <= MaxNesting
    BY <1>1, <1>4, <1>6, <2>4, TopFrame, Assumed
  <2>6. ASSUME NEW k \in DOMAIN emitting'
        PROVE  \/ \E j \in DOMAIN emitting : GoesOn(emitting'[k], emitting[j])
               \/ \E d \in Events : emitting'[k] = E!Frame(d)' /\ E!List(d)' # <<>>
    <3>1. CASE k = 1
      <4>1. emitting'[k] = E!Frame("error")'
        BY <2>1, <2>4, <3>1
      <4> QED BY <1>6, <4>1, Assumed
    <3>2. CASE k # 1
      BY <1>4, <2>4, <3>2
    <3> QED BY <3>1, <3>2
  <2>7. GoodStack(emitting)' /\ FramesFrom
    BY <1>3, <2>4, <2>5, <2>6, StackKept
  <2>8. E!OnceRemoved'
    BY <1>1, <1>4, <2>4, BackCalls
  <2> QED BY <1>1, <1>3, <2>7, <2>8, EmissionKeeps DEF EmitterInv, E!TypeOK
<1> QED BY <1>5, <1>6

LEMMA EmitReturnsKeeps == ASSUME EmitterInv, E!EmitReturns PROVE EmitterInv'
<1>1. emitting # <<>> /\ ~E!Top.calling /\ emitting' = Tail(emitting) /\ UNCHANGED <<events, content, called>>
  BY DEF E!EmitReturns
<1>2. PICK e \in Events : e = E!Top.event
  BY <1>1, TopFrame
<1>3. Edits(e, {}) /\ New({})
  BY <1>1, NoEdit DEF EmitterInv
<1>4. /\ emitting' \in Seq(E!Frames) /\ Len(emitting') = Len(emitting) - 1 /\ DOMAIN emitting' = 1 .. Len(emitting) - 1
      /\ \A k \in DOMAIN emitting' : k + 1 \in DOMAIN emitting /\ emitting'[k] = emitting[k + 1]
  BY <1>1, TopFrame, Behind
<1>5. GoodStack(emitting)' /\ FramesFrom
  <2>1. ASSUME NEW k \in DOMAIN emitting' PROVE GoesOn(emitting'[k], emitting[k + 1])
    BY <1>4, StackInUse DEF GoesOn, GoodFrame, E!Frames
  <2>2. Len(emitting') <= MaxNesting
    BY <1>1, <1>4, TopFrame, Assumed
  <2> QED BY <1>3, <1>4, <2>1, <2>2, StackKept
<1>6. ASSUME NEW w, E!BeingCalled(w) PROVE E!BeingCalled(w)'
  <2>1. PICK k \in DOMAIN emitting : emitting[k].calling /\ content[emitting[k].array][emitting[k].next].wrapper = w
    BY <1>6 DEF E!BeingCalled
  <2>2. k # 1 /\ k \in 1 .. Len(emitting) /\ Len(emitting) \in Nat
    BY <1>1, <2>1, TopFrame
  <2>3. k - 1 \in DOMAIN emitting' /\ emitting'[k - 1] = emitting[k]
    BY <1>4, <2>2
  <2> QED BY <1>1, <2>1, <2>3 DEF E!BeingCalled
<1>7. E!OnceRemoved'
  BY <1>1, <1>3, <1>6, StaysRemoved
<1> QED BY <1>1, <1>3, <1>5, <1>7, EmissionKeeps DEF EmitterInv, E!TypeOK

LEMMA InitEmitterInv == EmitterAssumed /\ E!Init => EmitterInv
<1> SUFFICES ASSUME EmitterAssumed, E!Init PROVE EmitterInv
  OBVIOUS
<1>1. emitting = <<>> /\ DOMAIN emitting = {} /\ Len(emitting) = 0 /\ emitting \in Seq(E!Frames)
  BY DEF E!Init
<1>2. <<>> \in Seq(E!Entries)
  OBVIOUS
<1>3. E!TypeOK /\ HasTaken
  BY <1>1, <1>2 DEF EmitterAssumed, E!Init, E!TypeOK, HasTaken
<1>4. \A a \in Arrays, e \in Events : ~Belongs(a, e)
  BY <1>1 DEF EmitterAssumed, E!Init, Belongs
<1>5. OneOwner /\ OneHolder
  BY <1>4 DEF OneOwner, OneHolder, Holds
<1>6. E!OnceRemoved
  BY DEF E!Init, E!OnceRemoved
<1> QED BY <1>3, <1>5, <1>6 DEF EmitterInv

LEMMA NextEmitterInv == EmitterInv /\ [E!Next]_E!vars => EmitterInv'
<1> SUFFICES ASSUME EmitterInv, [E!Next]_E!vars PROVE EmitterInv'
  OBVIOUS
<1>1. ASSUME NEW e \in Events, NEW l \in Listeners,
             E!On(e, l) \/ E!PrependListener(e, l) \/ E!Once(e, l) \/ E!PrependOnceListener(e, l)
      PROVE  EmitterInv'
  BY <1>1, AddKeeps
<1>2. ASSUME NEW e \in Events, NEW l \in Listeners, E!RemoveListener(e, l) PROVE EmitterInv'
  BY <1>2, RemoveKeeps
<1>3. ASSUME NEW es \in {{e} : e \in Events} \cup {Events}, E!RemoveAllListeners(es) PROVE EmitterInv'
  <2>1. es \in SUBSET Events
    OBVIOUS
  <2> QED BY <1>3, <2>1, RemoveKeeps
<1>4. CASE \E e \in Events : E!Emit(e)
  BY <1>4, EmitKeeps
<1>5. CASE E!CallNext
  BY <1>5, CallNextKeeps
<1>6. CASE E!ListenerReturns
  BY <1>6, ListenerReturnsKeeps
<1>7. CASE E!ListenerThrows
  BY <1>7, ListenerThrowsKeeps
<1>8. CASE E!EmitReturns
  BY <1>8, EmitReturnsKeeps
<1>9. CASE UNCHANGED E!vars
  BY <1>9, RemoveKeeps
<1> QED BY <1>1, <1>2, <1>3, <1>4, <1>5, <1>6, <1>7, <1>8, <1>9 DEF E!Next

LEMMA EmitterInvariant == ASSUME EmitterAssumed PROVE E!Spec => []EmitterInv
BY InitEmitterInv, NextEmitterInv, PTL DEF E!Spec

\* A once wrapper whose listener has been called and is back is on no list,
\* although the listener, or another emission's, changed the lists meanwhile.
THEOREM OnceIsRemoved == ASSUME EmitterAssumed PROVE E!Spec => []E!OnceRemoved
<1>1. EmitterInv => E!OnceRemoved
  BY DEF EmitterInv
<1> QED BY <1>1, EmitterInvariant, PTL

-----------------------------------------------------------------------------
(* The emitter implements its service.                                     *)

EmsIn(q, c) == [k \in DOMAIN q |-> EmIn(q[k], c)]

LEMMA EmissionsAre ==
    E!Emissions = EmsIn(emitting, content) /\ E!Emissions' = EmsIn(emitting', content')
BY DEF E!Emissions, EmsIn, EmIn

\* What the sequence operators do to the frames they do to the emissions.
LEMMA EmsOf ==
    ASSUME NEW X, NEW q \in Seq(X), NEW c
    PROVE  /\ EmsIn(q, c) \in Seq({EmIn(f, c) : f \in X})
           /\ Len(EmsIn(q, c)) = Len(q) /\ DOMAIN EmsIn(q, c) = 1 .. Len(q)
           /\ Len(q) \in Nat
           /\ EmsIn(q, c) = <<>> <=> q = <<>>
           /\ \A k \in 1 .. Len(q) : EmsIn(q, c)[k] = EmIn(q[k], c)
           /\ q # <<>> => Head(EmsIn(q, c)) = EmIn(Head(q), c)
<1>1. DOMAIN q = 1 .. Len(q) /\ Len(q) \in Nat /\ \A k \in 1 .. Len(q) : q[k] \in X
  OBVIOUS
<1>2. EmsIn(q, c) = [k \in 1 .. Len(q) |-> EmIn(q[k], c)]
  BY <1>1 DEF EmsIn
<1>3. EmsIn(q, c) \in Seq({EmIn(f, c) : f \in X})
  <2>1. \A k \in 1 .. Len(q) : EmIn(q[k], c) \in {EmIn(f, c) : f \in X}
    BY <1>1
  <2> QED BY <1>1, <1>2, <2>1, IsASeq
<1>4. /\ DOMAIN EmsIn(q, c) = 1 .. Len(q)
      /\ \A k \in 1 .. Len(q) : EmsIn(q, c)[k] = EmIn(q[k], c)
  BY <1>2
<1>5. Len(EmsIn(q, c)) = Len(q)
  BY <1>1, <1>3, <1>4, LenProperties
<1>6. EmsIn(q, c) = <<>> <=> q = <<>>
  <2>1. q = <<>> <=> Len(q) = 0
    OBVIOUS
  <2>2. EmsIn(q, c) = <<>> <=> Len(EmsIn(q, c)) = 0
    BY <1>3
  <2> QED BY <1>5, <2>1, <2>2
<1>7. q # <<>> => Head(EmsIn(q, c)) = EmIn(Head(q), c)
  <2>1. q # <<>> => Head(q) = q[1] /\ 1 \in 1 .. Len(q)
    OBVIOUS
  <2>2. q # <<>> => Head(EmsIn(q, c)) = EmsIn(q, c)[1]
    BY <1>3, <1>6
  <2> QED BY <1>4, <2>1, <2>2
<1> QED BY <1>1, <1>3, <1>4, <1>5, <1>6, <1>7

LEMMA EmsInFront ==
    ASSUME NEW X, NEW q \in Seq(X), NEW f \in X, NEW c
    PROVE  EmsIn(<<f>> \o q, c) = <<EmIn(f, c)>> \o EmsIn(q, c)
<1> DEFINE Z == {EmIn(g, c) : g \in X}
           longer == <<f>> \o q
           ems == EmsIn(q, c)
           more == <<EmIn(f, c)>> \o ems
<1>1. /\ longer \in Seq(X) /\ Len(longer) = Len(q) + 1 /\ longer[1] = f
      /\ \A k \in 1 .. Len(q) + 1 : k # 1 => k - 1 \in DOMAIN q /\ longer[k] = q[k - 1]
  BY InFront
<1>2. EmIn(f, c) \in Z /\ ems \in Seq(Z) /\ Len(ems) = Len(q) /\ DOMAIN ems = 1 .. Len(q)
      /\ \A k \in 1 .. Len(q) : ems[k] = EmIn(q[k], c)
  BY EmsOf
<1> HIDE DEF longer, ems, Z
<1>3. /\ more \in Seq(Z) /\ Len(more) = Len(ems) + 1 /\ more[1] = EmIn(f, c)
      /\ \A k \in 1 .. Len(ems) + 1 : k # 1 => k - 1 \in DOMAIN ems /\ more[k] = ems[k - 1]
  BY <1>2, InFront
<1>4. /\ EmsIn(longer, c) \in Seq(Z) /\ Len(EmsIn(longer, c)) = Len(q) + 1
      /\ \A k \in 1 .. Len(q) + 1 : EmsIn(longer, c)[k] = EmIn(longer[k], c)
  BY <1>1, EmsOf DEF Z
<1>5. ASSUME NEW k \in 1 .. Len(EmsIn(longer, c)) PROVE EmsIn(longer, c)[k] = more[k]
  <2>1. k \in 1 .. Len(q) + 1
    BY <1>4
  <2>2. CASE k = 1
    BY <1>1, <1>3, <1>4, <2>1, <2>2
  <2>3. CASE k # 1
    <3>1. k - 1 \in 1 .. Len(q) /\ longer[k] = q[k - 1] /\ more[k] = ems[k - 1]
      BY <1>1, <1>2, <1>3, <2>1, <2>3
    <3> QED BY <1>2, <1>4, <2>1, <3>1
  <2> QED BY <2>2, <2>3
<1> HIDE DEF more
<1>6. EmsIn(longer, c) = more
  BY <1>2, <1>3, <1>4, <1>5, SeqEqual
<1> QED BY <1>6 DEF longer, more, ems

LEMMA EmsOtherTop ==
    ASSUME NEW X, NEW q \in Seq(X), q # <<>>, NEW g \in X, NEW c
    PROVE  EmsIn([q EXCEPT ![1] = g], c) = [EmsIn(q, c) EXCEPT ![1] = EmIn(g, c)]
<1>1. /\ DOMAIN [q EXCEPT ![1] = g] = DOMAIN q /\ [q EXCEPT ![1] = g][1] = g
      /\ \A k \in DOMAIN q : k # 1 => [q EXCEPT ![1] = g][k] = q[k]
  BY OtherTop
<1> QED BY <1>1 DEF EmsIn

LEMMA EmsTail ==
    ASSUME NEW X, NEW q \in Seq(X), q # <<>>, NEW c
    PROVE  EmsIn(Tail(q), c) = Tail(EmsIn(q, c))
<1> DEFINE Z == {EmIn(g, c) : g \in X}
           ems == EmsIn(q, c)
<1>1. /\ Tail(q) \in Seq(X) /\ Len(Tail(q)) = Len(q) - 1 /\ Len(q) \in Nat /\ Len(q) # 0
      /\ DOMAIN Tail(q) = 1 .. Len(q) - 1 /\ DOMAIN q = 1 .. Len(q)
      /\ \A k \in DOMAIN Tail(q) : k + 1 \in DOMAIN q /\ Tail(q)[k] = q[k + 1]
  BY Behind
<1>2. /\ ems \in Seq(Z) /\ ems # <<>> /\ Len(ems) = Len(q) /\ DOMAIN ems = 1 .. Len(q)
      /\ \A k \in 1 .. Len(q) : ems[k] = EmIn(q[k], c)
  <2> HIDE DEF Z
  <2>1. EmsIn(q, c) \in Seq(Z)
    BY EmsOf DEF Z
  <2>2. /\ Len(EmsIn(q, c)) = Len(q) /\ DOMAIN EmsIn(q, c) = 1 .. Len(q)
        /\ \A k \in 1 .. Len(q) : EmsIn(q, c)[k] = EmIn(q[k], c)
    BY EmsOf
  <2>3. EmsIn(q, c) # <<>>
    BY EmsOf
  <2> QED BY <2>1, <2>2, <2>3
<1>3. /\ EmsIn(Tail(q), c) \in Seq(Z) /\ Len(EmsIn(Tail(q), c)) = Len(q) - 1
      /\ \A k \in 1 .. Len(q) - 1 : EmsIn(Tail(q), c)[k] = EmIn(Tail(q)[k], c)
  <2>1. PICK r \in Seq(X) : r = Tail(q)
    BY <1>1
  <2>2. EmsIn(r, c) \in Seq({EmIn(g, c) : g \in X}) /\ Len(EmsIn(r, c)) = Len(r)
        /\ \A k \in 1 .. Len(r) : EmsIn(r, c)[k] = EmIn(r[k], c)
    BY EmsOf
  <2> QED BY <1>1, <2>1, <2>2
<1> HIDE DEF ems, Z
<1>4. /\ Tail(ems) \in Seq(Z) /\ Len(Tail(ems)) = Len(q) - 1
      /\ DOMAIN Tail(ems) = 1 .. Len(q) - 1
      /\ \A k \in DOMAIN Tail(ems) : k + 1 \in DOMAIN ems /\ Tail(ems)[k] = ems[k + 1]
  BY <1>2, Behind
<1>5. \A k \in 1 .. Len(q) - 1 : EmsIn(Tail(q), c)[k] = Tail(ems)[k]
  BY <1>1, <1>2, <1>3, <1>4
<1>6. EmsIn(Tail(q), c) = Tail(ems)
  BY <1>3, <1>4, <1>5, SeqEqual
<1> QED BY <1>6 DEF ems

\* Frames that read arrays in use read the same after an edit.
LEMMA EmsKept ==
    ASSUME EmitterInv, NEW e \in Events, NEW Y, New(Y), Edits(e, Y),
           NEW q, \A k \in DOMAIN q : GoodFrame(q[k]) /\ q[k].array \notin E!Free
    PROVE  EmsIn(q, content') = EmsIn(q, content)
<1>1. ASSUME NEW k \in DOMAIN q PROVE EmIn(q[k], content') = EmIn(q[k], content)
  <2>1. PICK f : f = q[k]
    OBVIOUS
  <2>2. Em(f)' = Em(f)
    BY <1>1, <2>1, FrameKept
  <2> QED BY <2>1, <2>2 DEF Em
<1> QED BY <1>1 DEF EmsIn

LEMMA SameEmissions ==
    ASSUME EmitterInv, NEW e \in Events, NEW Y, New(Y), Edits(e, Y), emitting' = emitting
    PROVE  E!Emissions' = E!Emissions
<1>1. PICK q : q = emitting
  OBVIOUS
<1>2. EmsIn(q, content') = EmsIn(q, content)
  BY <1>1, StackInUse, EmsKept
<1> QED BY <1>1, <1>2, EmissionsAre

LEMMA TopEmission ==
    ASSUME EmitterInv
    PROVE  /\ E!Emissions = <<>> <=> emitting = <<>>
           /\ emitting # <<>> => /\ Head(E!Emissions) = Em(E!Top)
                                 /\ Em(E!Top).calling = <<>> <=> ~E!Top.calling
<1>1. emitting \in Seq(E!Frames)
  BY DEF EmitterInv, E!TypeOK
<1>2. emitting # <<>> => Head(E!Emissions) = Em(E!Top)
  BY <1>1, EmsOf, EmissionsAre DEF E!Top, Em
<1>3. emitting # <<>> => (Em(E!Top).calling = <<>> <=> ~E!Top.calling)
  BY TopFrame DEF Em, EmIn
<1>4. E!Emissions = <<>> <=> emitting = <<>>
  BY <1>1, EmsOf, EmissionsAre
<1> QED BY <1>2, <1>3, <1>4

LEMMA ScriptServes ==
    ASSUME EmitterInv, E!ScriptRuns
    PROVE  E!Emissions # <<>> => Head(E!Emissions).calling # <<>>
BY TopEmission DEF E!ScriptRuns

LEMMA AddServes ==
    ASSUME EmitterInv, NEW e \in Events, NEW l \in Listeners,
           E!On(e, l) \/ E!PrependListener(e, l) \/ E!Once(e, l) \/ E!PrependOnceListener(e, l)
    PROVE  E!Service!Next
<1>1. PICK x \in E!Entries : /\ E!AddAtEnd(e, x) \/ E!AddAtFront(e, x)
                             /\ E!IsOnce(x) => E!Unused(x.wrapper)
                             /\ E!ScriptRuns /\ emitting' = emitting
  <2>1. CASE E!On(e, l) \/ E!PrependListener(e, l)
    BY <2>1, Assumed, PlainEntry DEF E!On, E!PrependListener
  <2>2. CASE E!Once(e, l) \/ E!PrependOnceListener(e, l)
    <3>1. PICK w \in Wrappers : /\ E!Unused(w) /\ E!ScriptRuns /\ emitting' = emitting
                                /\ \/ E!AddAtEnd(e, [listener |-> l, wrapper |-> w])
                                   \/ E!AddAtFront(e, [listener |-> l, wrapper |-> w])
      BY <2>2 DEF E!Once, E!PrependOnceListener, E!WithWrapper
    <3> QED BY <3>1, Assumed, OnceEntry
  <2> QED BY <2>1, <2>2
<1>2. /\ Edits(e, {x}) /\ New({x})
      /\ E!Lists' \in {[E!Lists EXCEPT ![e] = Append(@, x)], [E!Lists EXCEPT ![e] = <<x>> \o @]}
  BY <1>1, AddEdits
<1>3. E!Emissions' = E!Emissions
  BY <1>1, <1>2, SameEmissions
<1>4. E!Emissions # <<>> => Head(E!Emissions).calling # <<>>
  BY <1>1, ScriptServes
<1>5. E!Service!Add(e, x)
  BY <1>2, <1>3, <1>4 DEF E!Service!Add, E!Service!ScriptRuns, E!Service!Top
<1> QED BY <1>5 DEF E!Service!Next

LEMMA RemoveServes ==
    ASSUME EmitterInv, NEW e \in Events, NEW l \in Listeners, E!RemoveListener(e, l)
    PROVE  E!Service!Next
<1>1. PICK x \in E!Entries : E!RemoveEntry(e, x) /\ E!ScriptRuns /\ emitting' = emitting
  BY PlainEntry DEF E!RemoveListener, EmitterInv
<1>2. Edits(e, {}) /\ New({}) /\ E!Lists' = [E!Lists EXCEPT ![e] = Sublist(@, E!Entries \ {x})]
  BY <1>1, RemoveEdits
<1>3. E!Emissions' = E!Emissions
  BY <1>1, <1>2, SameEmissions
<1>4. E!Emissions # <<>> => Head(E!Emissions).calling # <<>>
  BY <1>1, ScriptServes
<1>5. Sublist(E!Lists[e], E!Entries \ {x}) = E!Service!Without(E!Lists[e], x)
  BY SameInService DEF E!Service!Without
<1>6. E!Service!Remove(e, x)
  BY <1>2, <1>3, <1>4, <1>5 DEF E!Service!Remove, E!Service!ScriptRuns, E!Service!Top
<1> QED BY <1>6 DEF E!Service!Next

LEMMA RemoveAllServes ==
    ASSUME EmitterInv, NEW es \in SUBSET Events, E!RemoveAllListeners(es)
    PROVE  E!Service!Next
<1>1. E!ScriptRuns /\ emitting' = emitting /\ content' = content
      /\ events' = [e \in Events |-> IF e \in es THEN NoArray ELSE events[e]]
  BY DEF E!RemoveAllListeners
<1>2. E!Emissions' = E!Emissions
  BY <1>1, EmissionsAre
<1>3. E!Emissions # <<>> => Head(E!Emissions).calling # <<>>
  BY <1>1, ScriptServes
<1>4. E!Lists' = [e \in Events |-> IF e \in es THEN <<>> ELSE E!Lists[e]]
  BY <1>1 DEF E!Lists, E!List
<1>5. E!Service!RemoveAll(es)
  BY <1>2, <1>3, <1>4 DEF E!Service!RemoveAll, E!Service!ScriptRuns, E!Service!Top
<1> QED BY <1>5 DEF E!Service!Next

LEMMA EmitServes == ASSUME EmitterInv, NEW e \in Events, E!Emit(e) PROVE E!Service!Next
<1>1. /\ E!ScriptRuns /\ E!List(e) # <<>> /\ emitting' = <<E!Frame(e)>> \o emitting
      /\ events' = events /\ content' = content
  BY DEF E!Emit
<1>2. E!Frame(e) \in E!Frames /\ Em(E!Frame(e)) = [event |-> e, rest |-> E!List(e), calling |-> <<>>]
  BY <1>1, BegunFrame DEF EmitterInv
<1>3. emitting \in Seq(E!Frames)
  BY DEF EmitterInv, E!TypeOK
<1>4. E!Emissions' = <<Em(E!Frame(e))>> \o E!Emissions
  BY <1>1, <1>2, <1>3, EmsInFront, EmissionsAre DEF Em
<1>5. E!Emissions # <<>> => Head(E!Emissions).calling # <<>>
  BY <1>1, ScriptServes
<1>6. E!Lists' = E!Lists /\ E!Lists[e] = E!List(e)
  BY <1>1 DEF E!Lists, E!List
<1>7. E!Service!Begin(e)
  BY <1>1, <1>2, <1>4, <1>5, <1>6
     DEF E!Service!Begin, E!Service!ScriptRuns, E!Service!Top, E!Service!Emission
<1> QED BY <1>7 DEF E!Service!Next

LEMMA CallNextServes == ASSUME EmitterInv, E!CallNext PROVE E!Service!Next
<1> DEFINE g == [E!Top EXCEPT !.next = @ + 1, !.calling = TRUE]
<1>1. /\ emitting # <<>> /\ ~E!Top.calling /\ E!Top.next < E!Top.length
      /\ emitting' = [emitting EXCEPT ![1].next = @ + 1, ![1].calling = TRUE]
      /\ events' = events /\ content' = content
  BY DEF E!CallNext
<1>2. /\ g \in E!Frames /\ g.event = E!Top.event /\ g.array = E!Top.array /\ g.length = E!Top.length
      /\ g.next = E!Top.next + 1 /\ g.calling = TRUE
  BY <1>1, TopFrame DEF E!Frames
<1>3. emitting' = [emitting EXCEPT ![1] = g]
  BY <1>1, TopFrame DEF E!Frames
<1> HIDE DEF g
<1>4. E!Emissions' = [E!Emissions EXCEPT ![1] = EmIn(g, content)]
  <2>1. PICK q \in Seq(E!Frames) : q = emitting /\ q # <<>>
    BY <1>1, TopFrame
  <2>2. EmsIn([q EXCEPT ![1] = g], content) = [EmsIn(q, content) EXCEPT ![1] = EmIn(g, content)]
    BY <1>2, <2>1, EmsOtherTop
  <2> QED BY <1>1, <1>3, <2>1, <2>2, EmissionsAre
<1>5. PICK a \in Seq(E!Entries) : a = content[E!Top.array]
  BY <1>1, TopFrame
<1>6. /\ E!Top.next + 1 \in 1 .. Len(a) /\ E!Top.length \in E!Top.next + 1 .. Len(a)
      /\ E!Top.next \in Nat /\ E!Top.length \in Nat
  BY <1>1, <1>5, TopFrame DEF GoodFrame
<1>7. /\ Head(SubSeq(a, E!Top.next + 1, E!Top.length)) = a[E!Top.next + 1]
      /\ Tail(SubSeq(a, E!Top.next + 1, E!Top.length)) = SubSeq(a, E!Top.next + 1 + 1, E!Top.length)
  BY <1>6, HeadTailOfSubSeq
<1>8. SubSeq(a, E!Top.next + 1, E!Top.length) # <<>>
  <2>1. \A i \in E!Top.next + 1 .. E!Top.length : a[i] \in E!Entries
    BY <1>5, <1>6
  <2>2. Len(SubSeq(a, E!Top.next + 1, E!Top.length)) = E!Top.length - (E!Top.next + 1) + 1
    BY <1>6, <2>1, SubSeqProperties
  <2>3. PICK r : r = SubSeq(a, E!Top.next + 1, E!Top.length)
    OBVIOUS
  <2>4. Len(r) # 0
    BY <1>6, <2>2, <2>3
  <2>5. r # <<>>
    BY <2>4
  <2> QED BY <2>3, <2>5
<1>9. /\ Em(E!Top).rest # <<>>
      /\ EmIn(g, content) = [event |-> Em(E!Top).event, rest |-> Tail(Em(E!Top).rest),
                             calling |-> <<Head(Em(E!Top).rest)>>]
  BY <1>2, <1>5, <1>7, <1>8 DEF Em, EmIn
<1>10. E!Lists' = E!Lists
  BY <1>1 DEF E!Lists, E!List
<1>11. E!Emissions # <<>> /\ Head(E!Emissions) = Em(E!Top) /\ Em(E!Top).calling = <<>>
  BY <1>1, TopEmission
<1>12. E!Service!Call
  BY <1>4, <1>9, <1>10, <1>11 DEF E!Service!Call, E!Service!Top, E!Service!Emission
<1> QED BY <1>12 DEF E!Service!Next

\* What the emissions are when the listener is back.
LEMMA BackEmissions ==
    ASSUME EmitterInv, emitting # <<>>, E!Top.calling, E!Unwrap
    PROVE  /\ EmsIn(Back, content') = [E!Emissions EXCEPT ![1].calling = <<>>]
           /\ E!Emissions # <<>> /\ Head(E!Emissions).calling # <<>>
           /\ Head(E!Emissions).event = E!Top.event
           /\ E!Lists' = IF Head(Head(E!Emissions).calling) \in {x \in E!Entries : E!IsOnce(x)}
                         THEN [E!Lists EXCEPT ![E!Top.event] = E!Service!Without(@, Head(Head(E!Emissions).calling))]
                         ELSE E!Lists
<1>1. PICK e \in Events : e = E!Top.event
  BY TopFrame
<1>2. Edits(e, {}) /\ New({})
  BY <1>1, Unwraps
<1>3. PICK back : back = Back /\ back \in Seq(E!Frames) /\ DOMAIN back = DOMAIN emitting
                  /\ \A k \in DOMAIN back : GoesOn(back[k], emitting[k])
  BY BackFrames
<1>4. EmsIn(Back, content') = EmsIn(Back, content)
  <2>1. ASSUME NEW k \in DOMAIN back PROVE GoodFrame(back[k]) /\ back[k].array \notin E!Free
    BY <1>3, StackInUse DEF GoesOn, GoodFrame
  <2> QED BY <1>2, <1>3, <2>1, EmsKept
<1>5. EmsIn(Back, content) = [E!Emissions EXCEPT ![1] = EmIn([E!Top EXCEPT !.calling = FALSE], content)]
  <2>1. PICK q \in Seq(E!Frames) : q = emitting /\ q # <<>>
    BY TopFrame
  <2>2. PICK g \in E!Frames : g = [E!Top EXCEPT !.calling = FALSE]
    BY TopFrame DEF E!Frames
  <2>3. Back = [q EXCEPT ![1] = g]
    BY <2>1, <2>2, BackFrames
  <2>4. EmsIn([q EXCEPT ![1] = g], content) = [EmsIn(q, content) EXCEPT ![1] = EmIn(g, content)]
    BY <2>1, EmsOtherTop
  <2> QED BY <2>1, <2>2, <2>3, <2>4, EmissionsAre
<1>6. EmIn([E!Top EXCEPT !.calling = FALSE], content) = [Em(E!Top) EXCEPT !.calling = <<>>]
  <2>1. PICK g : g = [E!Top EXCEPT !.calling = FALSE]
    OBVIOUS
  <2>2. /\ g.event = E!Top.event /\ g.array = E!Top.array /\ g.length = E!Top.length
        /\ g.next = E!Top.next /\ g.calling = FALSE
    BY <2>1, TopFrame DEF E!Frames
  <2>3. \A ev, re, ca : [[event |-> ev, rest |-> re, calling |-> ca] EXCEPT !.calling = <<>>]
                       = [event |-> ev, rest |-> re, calling |-> <<>>]
    OBVIOUS
  <2>4. PICK re : re = SubSeq(content[E!Top.array], E!Top.next + 1, E!Top.length)
    OBVIOUS
  <2>5. EmIn(g, content) = [event |-> E!Top.event, rest |-> re, calling |-> <<>>]
    BY <2>2, <2>4 DEF EmIn
  <2>6. PICK ca : Em(E!Top) = [event |-> E!Top.event, rest |-> re, calling |-> ca]
    BY <2>4 DEF Em, EmIn
  <2> QED BY <2>1, <2>3, <2>5, <2>6
<1>7. /\ E!Emissions # <<>> /\ Head(E!Emissions) = Em(E!Top) /\ Em(E!Top).calling # <<>>
      /\ E!Emissions[1] = Em(E!Top)
  BY TopEmission, TopFrame, EmissionsAre DEF EmsIn, Em
<1>8. Em(E!Top).calling = <<E!Called>> /\ Em(E!Top).event = E!Top.event
  BY DEF Em, EmIn, E!Called
<1>9. Head(Em(E!Top).calling) = E!Called
  BY <1>8
<1>10. E!Called \in E!Entries
  BY CalledEntry
<1>11. E!Lists' = IF E!IsOnce(E!Called)
                  THEN [E!Lists EXCEPT ![E!Top.event] = E!Service!Without(@, E!Called)]
                  ELSE E!Lists
  BY Unwraps, SameInService DEF E!Service!Without
<1>12. EmsIn(Back, content') = [E!Emissions EXCEPT ![1].calling = <<>>]
  BY <1>4, <1>5, <1>6, <1>7
<1> QED BY <1>7, <1>8, <1>9, <1>10, <1>11, <1>12

LEMMA ReturnServes == ASSUME EmitterInv, E!ListenerReturns PROVE E!Service!Next
<1>1. emitting # <<>> /\ E!Top.calling /\ E!Unwrap /\ emitting' = Back
  BY DEF E!ListenerReturns, Back
<1>2. E!Emissions' = [E!Emissions EXCEPT ![1].calling = <<>>]
  BY <1>1, BackEmissions, EmissionsAre
<1>3. E!Service!Return
  BY <1>1, <1>2, BackEmissions DEF E!Service!Return, E!Service!Top
<1> QED BY <1>3 DEF E!Service!Next

LEMMA ThrowServes == ASSUME EmitterInv, E!ListenerThrows PROVE E!Service!Next
<1>1. /\ emitting # <<>> /\ E!Top.calling /\ E!Unwrap /\ E!Top.event # "error"
      /\ emitting' = IF E!List("error")' = <<>> THEN Back ELSE <<E!Frame("error")'>> \o Back
  BY DEF E!ListenerThrows, Back
<1>2. CASE E!List("error")' = <<>>
  <2>1. E!Emissions' = [E!Emissions EXCEPT ![1].calling = <<>>]
    BY <1>1, <1>2, BackEmissions, EmissionsAre
  <2>2. E!Service!Return
    BY <1>1, <2>1, BackEmissions DEF E!Service!Return, E!Service!Top
  <2> QED BY <2>2 DEF E!Service!Next
<1>3. CASE E!List("error")' # <<>>
  <2>1. "error" \in Events \ {E!Top.event}
    BY <1>1, Assumed
  <2>2. E!TypeOK'
    BY ListenerThrowsKeeps DEF EmitterInv
  <2>3. PICK f : f = E!Frame("error")'
    OBVIOUS
  <2>4. /\ events'["error"] \in Arrays /\ E!List("error")' = content'[events'["error"]]
        /\ E!List("error")' \in Seq(E!Entries)
    BY <1>3, <2>1, <2>2 DEF E!TypeOK, E!List
  <2>5. f = [event |-> "error", array |-> events'["error"], length |-> Len(E!List("error")'),
             next |-> 0, calling |-> FALSE]
    BY <2>3 DEF E!Frame
  <2>6. f \in E!Frames
    BY <2>1, <2>4, <2>5 DEF E!Frames
  <2>7. EmIn(f, content') = [event |-> "error", rest |-> E!List("error")', calling |-> <<>>]
    <3>1. PICK a \in Seq(E!Entries) : a = E!List("error")'
      BY <2>4
    <3>2. SubSeq(a, 0 + 1, Len(a)) = a
      OBVIOUS
    <3> QED BY <2>4, <2>5, <3>1, <3>2 DEF EmIn
  <2>8. PICK back \in Seq(E!Frames) : back = Back
    BY <1>1, BackFrames
  <2>9. E!Emissions' = <<EmIn(f, content')>> \o EmsIn(back, content')
    <3>1. emitting' = <<f>> \o back
      BY <1>1, <1>3, <2>3, <2>8
    <3> QED BY <2>6, <3>1, EmsInFront, EmissionsAre
  <2>10. E!Lists'["error"] = E!List("error")'
    BY <2>1 DEF E!Lists
  <2>11. E!Service!Return
    BY <1>1, <2>1, <2>7, <2>8, <2>9, <2>10, BackEmissions
       DEF E!Service!Return, E!Service!Top, E!Service!Emission
  <2> QED BY <2>11 DEF E!Service!Next
<1> QED BY <1>2, <1>3

LEMMA EmitReturnsServes == ASSUME EmitterInv, E!EmitReturns PROVE E!Service!Next
<1>1. /\ emitting # <<>> /\ ~E!Top.calling /\ E!Top.next = E!Top.length
      /\ emitting' = Tail(emitting) /\ events' = events /\ content' = content
  BY DEF E!EmitReturns
<1>2. E!Emissions' = Tail(E!Emissions)
  <2>1. PICK q \in Seq(E!Frames) : q = emitting /\ q # <<>>
    BY <1>1, TopFrame
  <2> QED BY <1>1, <2>1, EmsTail, EmissionsAre
<1>3. Em(E!Top).rest = <<>>
  <2>1. E!Top.next + 1 \in Int /\ E!Top.length \in Int /\ E!Top.length < E!Top.next + 1
    BY <1>1, TopFrame
  <2> QED BY <2>1, SubSeqEmpty DEF Em, EmIn
<1>4. E!Lists' = E!Lists
  BY <1>1 DEF E!Lists, E!List
<1>5. E!Emissions # <<>> /\ Head(E!Emissions) = Em(E!Top) /\ Em(E!Top).calling = <<>>
  BY <1>1, TopEmission
<1>6. E!Service!Finish
  BY <1>2, <1>3, <1>4, <1>5 DEF E!Service!Finish, E!Service!Top
<1> QED BY <1>6 DEF E!Service!Next

LEMMA InitServes == E!Init => E!Service!Init
<1> SUFFICES ASSUME E!Init PROVE E!Service!Init
  OBVIOUS
<1>1. E!Lists = [e \in Events |-> <<>>]
  BY DEF E!Init, E!Lists, E!List
<1>2. E!Emissions = <<>>
  <2>1. <<>> \in Seq(E!Frames)
    BY EmptySeq
  <2> QED BY <2>1, EmsOf, EmissionsAre DEF E!Init
<1> QED BY <1>1, <1>2 DEF E!Service!Init

LEMMA NextServes == EmitterInv /\ [E!Next]_E!vars => [E!Service!Next]_E!Service!vars
<1> SUFFICES ASSUME EmitterInv, [E!Next]_E!vars PROVE [E!Service!Next]_E!Service!vars
  OBVIOUS
<1>1. ASSUME NEW e \in Events, NEW l \in Listeners,
             E!On(e, l) \/ E!PrependListener(e, l) \/ E!Once(e, l) \/ E!PrependOnceListener(e, l)
      PROVE  E!Service!Next
  BY <1>1, AddServes
<1>2. ASSUME NEW e \in Events, NEW l \in Listeners, E!RemoveListener(e, l) PROVE E!Service!Next
  BY <1>2, RemoveServes
<1>3. ASSUME NEW es \in {{e} : e \in Events} \cup {Events}, E!RemoveAllListeners(es) PROVE E!Service!Next
  <2>1. es \in SUBSET Events
    OBVIOUS
  <2> QED BY <1>3, <2>1, RemoveAllServes
<1>4. CASE \E e \in Events : E!Emit(e)
  BY <1>4, EmitServes
<1>5. CASE E!CallNext
  BY <1>5, CallNextServes
<1>6. CASE E!ListenerReturns
  BY <1>6, ReturnServes
<1>7. CASE E!ListenerThrows
  BY <1>7, ThrowServes
<1>8. CASE E!EmitReturns
  BY <1>8, EmitReturnsServes
<1>9. CASE UNCHANGED E!vars
  <2>1. E!Lists' = E!Lists /\ E!Emissions' = E!Emissions
    BY <1>9, EmissionsAre DEF E!vars, E!Lists, E!List
  <2>2. UNCHANGED E!Service!vars
    BY <2>1 DEF E!Service!vars
  <2> QED BY <2>2
<1> QED BY <1>1, <1>2, <1>3, <1>4, <1>5, <1>6, <1>7, <1>8, <1>9 DEF E!Next

\* emit calls exactly the listeners its event had when it began, in order,
\* although it reads an array that others append to and replace.
THEOREM EmitterServes == ASSUME EmitterAssumed PROVE E!Spec => E!ImplementsEmitterService
<1>1. E!Spec => E!Service!Spec
  BY InitServes, NextServes, EmitterInvariant, PTL DEF E!Spec, E!Service!Spec
<1> QED BY <1>1 DEF E!ImplementsEmitterService
=============================================================================
