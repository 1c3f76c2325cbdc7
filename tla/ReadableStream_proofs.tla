------------------------ MODULE ReadableStream_proofs ------------------------
(***************************************************************************)
(* Proofs about ReadableStream, for any number of chunks, destinations and *)
(* nested calls.  The C functions re-enter each other through the script   *)
(* they call, so what holds of the stream when all calls are back depends  *)
(* on who is still on the stack: as long as a call is there that goes on   *)
(* with the drain loop (Draining), the buffer may hold chunks in flowing   *)
(* mode and 'end' may be due.  The invariant says so of every state.       *)
(* A second invariant, built on the first, follows each chunk from place   *)
(* to place: between two steps it is in the array, emitted, read, or in    *)
(* the frame of a write that is under way, at one of them and once.        *)
(***************************************************************************)
EXTENDS ReadableStream, SequenceTheorems, TLAPS

\* A chunk is known to the frame that writes it.
GoodFrames == {f \in Frames : f.call = "write" => f.chunk \in Chunks}
FramesOK == stack \in Seq(GoodFrames)

\* 'end' has been emitted exactly when the flag says so.
EndCounted == ends = IF endedEmitted THEN 1 ELSE 0

\* A call on the stack that goes on with the drain loop when it is back.
Drains(f) == f.call \in {"write", "data", "resume"}
Draining(s) == \E k \in DOMAIN s : Drains(s[k])

DrainsFlowing == flowing /\ buffer # <<>> => Draining(stack)
DrainsEnd == ~piped /\ ended /\ buffer = <<>> /\ ~endedEmitted => Draining(stack)

\* Without pipe() nothing is written to a destination.
Plain(f) == f.op # "pipe" /\ f.call # "write"
AllPlain(s) == \A k \in DOMAIN s : Plain(s[k])
Unpiped == ~piped => dests = <<>> /\ AllPlain(stack)

\* Without pipe() no chunk is lost on its way, and each is behind the earlier.
Ordered(s) == \A j, k \in DOMAIN s : j < k => s[j] < s[k]
InOrder(b, d) ==
    /\ Ordered(b) /\ Ordered(d)
    /\ \A x \in ToSet(d), y \in ToSet(b) : x < y
Kept ==
    /\ eof <= pushed
    /\ ~piped => /\ ToSet(buffer) \cup ToSet(data) \cup ToSet(reads) = 1 .. pushed
                 /\ endedEmitted => 1 .. eof \subseteq ToSet(data) \cup ToSet(reads)
                 /\ InOrder(buffer, data)

IInv == /\ TypeOK /\ FramesOK
        /\ EndCounted /\ DrainsFlowing /\ DrainsEnd /\ Unpiped /\ Kept

-----------------------------------------------------------------------------
(* The stack.                                                              *)

\* A frame put on a stack of frames.
LEMMA OnTop ==
    ASSUME NEW S, NEW f \in S, NEW rest \in Seq(S)
    PROVE  /\ <<f>> \o rest \in Seq(S)
           /\ Len(<<f>> \o rest) = Len(rest) + 1
           /\ (<<f>> \o rest)[1] = f
           /\ \A k \in DOMAIN rest : /\ k + 1 \in DOMAIN (<<f>> \o rest)
                                     /\ (<<f>> \o rest)[k + 1] = rest[k]
           /\ \A k \in DOMAIN (<<f>> \o rest) :
                 (<<f>> \o rest)[k] = f
                 \/ (k - 1 \in DOMAIN rest /\ (<<f>> \o rest)[k] = rest[k - 1])
<1>1. <<f>> \in Seq(S) /\ Len(<<f>>) = 1 /\ <<f>>[1] = f
  OBVIOUS
<1>2. /\ <<f>> \o rest \in Seq(S)
      /\ Len(<<f>> \o rest) = 1 + Len(rest)
      /\ \A i \in 1 .. 1 + Len(rest) :
            (<<f>> \o rest)[i] = IF i <= 1 THEN <<f>>[i] ELSE rest[i - 1]
  BY <1>1, ConcatProperties
<1>3. DOMAIN rest = 1 .. Len(rest) /\ DOMAIN (<<f>> \o rest) = 1 .. Len(rest) + 1
      /\ Len(rest) \in Nat
  BY <1>2, LenProperties
<1>4. (<<f>> \o rest)[1] = f
  <2>1. 1 \in 1 .. 1 + Len(rest) /\ 1 <= 1
    BY <1>3
  <2> QED BY <1>1, <1>2, <2>1
<1>5. ASSUME NEW k \in DOMAIN rest
      PROVE  /\ k + 1 \in DOMAIN (<<f>> \o rest)
             /\ (<<f>> \o rest)[k + 1] = rest[k]
  <2>1. k \in 1 .. Len(rest) /\ k + 1 \in 1 .. 1 + Len(rest) /\ ~(k + 1 <= 1) /\ (k + 1) - 1 = k
    BY <1>3
  <2> QED BY <1>2, <1>3, <2>1
<1>6. ASSUME NEW k \in DOMAIN (<<f>> \o rest)
      PROVE  (<<f>> \o rest)[k] = f
             \/ (k - 1 \in DOMAIN rest /\ (<<f>> \o rest)[k] = rest[k - 1])
  <2>1. k \in 1 .. 1 + Len(rest)
    BY <1>3
  <2>2. CASE k = 1
    BY <1>4, <2>2
  <2>3. CASE k # 1
    <3>1. k - 1 \in 1 .. Len(rest) /\ ~(k <= 1)
      BY <1>3, <2>1, <2>3
    <3> QED BY <1>2, <1>3, <2>1, <3>1
  <2> QED BY <2>2, <2>3
<1>7. Len(<<f>> \o rest) = Len(rest) + 1
  BY <1>2, <1>3
<1> QED BY <1>2, <1>4, <1>5, <1>6, <1>7

\* A stack without its first frame.
LEMMA Below ==
    ASSUME NEW S, NEW s \in Seq(S), s # <<>>
    PROVE  /\ Head(s) \in S /\ Tail(s) \in Seq(S)
           /\ Len(Tail(s)) = Len(s) - 1
           /\ 1 \in DOMAIN s /\ s[1] = Head(s)
           /\ \A k \in DOMAIN Tail(s) : k + 1 \in DOMAIN s /\ Tail(s)[k] = s[k + 1]
           /\ \A k \in DOMAIN s : k = 1 \/ (k - 1 \in DOMAIN Tail(s) /\ s[k] = Tail(s)[k - 1])
<1>1. /\ Head(s) \in S /\ Tail(s) \in Seq(S) /\ Len(Tail(s)) = Len(s) - 1
      /\ \A i \in 1 .. Len(Tail(s)) : Tail(s)[i] = s[i + 1]
  BY HeadTailProperties
<1>2. Len(s) \in Nat \ {0} /\ DOMAIN s = 1 .. Len(s) /\ DOMAIN Tail(s) = 1 .. Len(Tail(s))
  BY <1>1, EmptySeq, LenProperties
<1>3. s[1] = Head(s) /\ 1 \in DOMAIN s
  BY <1>2
<1>4. ASSUME NEW k \in DOMAIN Tail(s) PROVE k + 1 \in DOMAIN s /\ Tail(s)[k] = s[k + 1]
  <2>1. k \in 1 .. Len(Tail(s)) /\ k + 1 \in 1 .. Len(s)
    BY <1>1, <1>2
  <2> QED BY <1>1, <1>2, <2>1
<1>5. ASSUME NEW k \in DOMAIN s, k # 1
      PROVE  k - 1 \in DOMAIN Tail(s) /\ s[k] = Tail(s)[k - 1]
  <2>1. k - 1 \in 1 .. Len(Tail(s)) /\ (k - 1) + 1 = k
    BY <1>1, <1>2, <1>5
  <2> QED BY <1>1, <1>2, <2>1
<1>6. \A k \in DOMAIN s : k = 1 \/ (k - 1 \in DOMAIN Tail(s) /\ s[k] = Tail(s)[k - 1])
  BY <1>5
<1>7. \A k \in DOMAIN Tail(s) : k + 1 \in DOMAIN s /\ Tail(s)[k] = s[k + 1]
  BY <1>4
<1> QED BY <1>1, <1>3, <1>6, <1>7

\* The frames a call is made in.
LEMMA FramesGood ==
    /\ \A op \in Ops, call \in Calls \ {"write"} : Frame(op, call) \in GoodFrames
    /\ \A op \in Ops, d \in Dests \cup {NoDest}, c \in Chunks :
          dests \in Seq(Dests) => FirstCall(op, d, c) \in GoodFrames
<1> USE DEF GoodFrames, Frames
<1>1. ASSUME NEW op \in Ops, NEW call \in Calls \ {"write"}
      PROVE  Frame(op, call) \in GoodFrames
  BY DEF Frame
<1>2. ASSUME NEW op \in Ops, NEW d \in Dests \cup {NoDest}, NEW c \in Chunks,
             dests \in Seq(Dests)
      PROVE  FirstCall(op, d, c) \in GoodFrames
  <2>1. CASE op = "push" /\ dests # <<>>
    <3>1. dests[1] \in Dests
      BY <1>2, <2>1, Below
    <3> QED BY <2>1, <3>1 DEF FirstCall, Calls
  <2>2. CASE ~(op = "push" /\ dests # <<>>)
    BY <2>2 DEF FirstCall, Calls
  <2> QED BY <2>1, <2>2
<1> QED BY <1>1, <1>2

\* Who drains, and who is plain, on a stack with one frame more.
LEMMA StackOnTop ==
    ASSUME NEW f \in GoodFrames, NEW rest \in Seq(GoodFrames)
    PROVE  /\ Draining(<<f>> \o rest) <=> Drains(f) \/ Draining(rest)
           /\ AllPlain(<<f>> \o rest) <=> Plain(f) /\ AllPlain(rest)
<1>1. /\ \A k \in DOMAIN rest : /\ k + 1 \in DOMAIN (<<f>> \o rest)
                                /\ (<<f>> \o rest)[k + 1] = rest[k]
      /\ \A k \in DOMAIN (<<f>> \o rest) :
            \/ (<<f>> \o rest)[k] = f
            \/ (k - 1 \in DOMAIN rest /\ (<<f>> \o rest)[k] = rest[k - 1])
  BY OnTop
<1>2. 1 \in DOMAIN (<<f>> \o rest) /\ (<<f>> \o rest)[1] = f
  <2>1. /\ <<f>> \o rest \in Seq(GoodFrames) /\ Len(<<f>> \o rest) = Len(rest) + 1
        /\ (<<f>> \o rest)[1] = f
    BY OnTop
  <2>2. Len(rest) \in Nat /\ DOMAIN (<<f>> \o rest) = 1 .. Len(<<f>> \o rest)
    BY <2>1, LenProperties
  <2> QED BY <2>1, <2>2
<1>3. Draining(<<f>> \o rest) <=> Drains(f) \/ Draining(rest)
  BY <1>1, <1>2, Zenon DEF Draining
<1>4. AllPlain(<<f>> \o rest) <=> Plain(f) /\ AllPlain(rest)
  BY <1>1, <1>2, Zenon DEF AllPlain
<1> QED BY <1>3, <1>4

\* The same of a stack's first frame and the rest.
LEMMA StackBelow ==
    ASSUME NEW s \in Seq(GoodFrames), s # <<>>
    PROVE  /\ Draining(s) <=> Drains(Head(s)) \/ Draining(Tail(s))
           /\ AllPlain(s) <=> Plain(Head(s)) /\ AllPlain(Tail(s))
<1>1. /\ 1 \in DOMAIN s /\ s[1] = Head(s)
      /\ \A k \in DOMAIN Tail(s) : k + 1 \in DOMAIN s /\ Tail(s)[k] = s[k + 1]
      /\ \A k \in DOMAIN s : k = 1 \/ (k - 1 \in DOMAIN Tail(s) /\ s[k] = Tail(s)[k - 1])
  BY Below
<1>2. Draining(s) <=> Drains(Head(s)) \/ Draining(Tail(s))
  BY <1>1, Zenon DEF Draining
<1>3. AllPlain(s) <=> Plain(Head(s)) /\ AllPlain(Tail(s))
  BY <1>1, Zenon DEF AllPlain
<1> QED BY <1>2, <1>3

-----------------------------------------------------------------------------
(* The chunks.                                                             *)

\* Chunks are numbers.
LEMMA ChunksAreNumbers == \A s \in Seq(Chunks) : s \in Seq(Nat)
<1>1. Chunks \subseteq Nat
  BY DEF Chunks
<1> QED BY <1>1, SeqMonotonic

\* The elements of a sequence with one more, or one less, element.
LEMMA Elements ==
    ASSUME NEW s \in Seq(Nat)
    PROVE  /\ \A e \in Nat : ToSet(Append(s, e)) = ToSet(s) \cup {e}
           /\ s # <<>> => ToSet(s) = {Head(s)} \cup ToSet(Tail(s))
<1>1. ASSUME NEW e \in Nat PROVE ToSet(Append(s, e)) = ToSet(s) \cup {e}
  <2>1. /\ Append(s, e) \in Seq(Nat) /\ Len(Append(s, e)) = Len(s) + 1
        /\ \A i \in 1 .. Len(s) : Append(s, e)[i] = s[i]
        /\ Append(s, e)[Len(s) + 1] = e
    BY AppendProperties
  <2>2. /\ Len(s) \in Nat /\ DOMAIN s = 1 .. Len(s)
        /\ DOMAIN Append(s, e) = 1 .. Len(s) + 1
    BY <2>1, LenProperties
  <2> QED BY <2>1, <2>2 DEF ToSet
<1>2. ASSUME s # <<>> PROVE ToSet(s) = {Head(s)} \cup ToSet(Tail(s))
  <2>1. /\ 1 \in DOMAIN s /\ s[1] = Head(s)
        /\ \A k \in DOMAIN Tail(s) : k + 1 \in DOMAIN s /\ Tail(s)[k] = s[k + 1]
        /\ \A k \in DOMAIN s : k = 1 \/ (k - 1 \in DOMAIN Tail(s) /\ s[k] = Tail(s)[k - 1])
    BY <1>2, Below
  <2>2. ASSUME NEW x \in ToSet(s) PROVE x \in {Head(s)} \cup ToSet(Tail(s))
    <3>1. PICK k \in DOMAIN s : x = s[k]
      BY DEF ToSet
    <3> QED BY <2>1, <3>1 DEF ToSet
  <2>3. ASSUME NEW x \in ToSet(Tail(s)) PROVE x \in ToSet(s)
    <3>1. PICK k \in DOMAIN Tail(s) : x = Tail(s)[k]
      BY DEF ToSet
    <3> QED BY <2>1, <3>1 DEF ToSet
  <2>4. Head(s) \in ToSet(s)
    BY <2>1 DEF ToSet
  <2> QED BY <2>2, <2>3, <2>4
<1> QED BY <1>1, <1>2

\* A number larger than all goes to the end of an increasing sequence.
LEMMA OrderedAppend ==
    ASSUME NEW s \in Seq(Nat), NEW e \in Nat, Ordered(s), \A x \in ToSet(s) : x < e
    PROVE  Ordered(Append(s, e))
<1>1. /\ Append(s, e) \in Seq(Nat) /\ Len(Append(s, e)) = Len(s) + 1
      /\ \A i \in 1 .. Len(s) : Append(s, e)[i] = s[i]
      /\ Append(s, e)[Len(s) + 1] = e
  BY AppendProperties
<1>2. /\ Len(s) \in Nat /\ DOMAIN s = 1 .. Len(s)
      /\ DOMAIN Append(s, e) = 1 .. Len(s) + 1
  BY <1>1, LenProperties
<1>3. \A i \in DOMAIN s : s[i] < e
  BY DEF ToSet
<1> QED BY <1>1, <1>2, <1>3 DEF Ordered

\* The rest of an increasing sequence is increasing, and larger than its head.
LEMMA OrderedTail ==
    ASSUME NEW s \in Seq(Nat), s # <<>>, Ordered(s)
    PROVE  Ordered(Tail(s)) /\ \A x \in ToSet(Tail(s)) : Head(s) < x
<1>1. /\ Tail(s) \in Seq(Nat) /\ 1 \in DOMAIN s /\ s[1] = Head(s)
      /\ \A k \in DOMAIN Tail(s) : k + 1 \in DOMAIN s /\ Tail(s)[k] = s[k + 1]
  BY Below
<1>2. Len(Tail(s)) \in Nat /\ DOMAIN Tail(s) = 1 .. Len(Tail(s))
  BY <1>1, LenProperties
<1>3. ASSUME NEW j \in DOMAIN Tail(s), NEW k \in DOMAIN Tail(s), j < k
      PROVE  Tail(s)[j] < Tail(s)[k]
  <2>1. j + 1 < k + 1
    BY <1>2, <1>3
  <2> QED BY <1>1, <2>1 DEF Ordered
<1>4. ASSUME NEW k \in DOMAIN Tail(s) PROVE Head(s) < Tail(s)[k]
  <2>1. 1 < k + 1
    BY <1>2
  <2> QED BY <1>1, <2>1 DEF Ordered
<1> QED BY <1>3, <1>4 DEF Ordered, ToSet

\* A chunk is pushed, taken from the buffer, or moved on to be emitted.
LEMMA OrderKept ==
    ASSUME NEW b \in Seq(Nat), NEW d \in Seq(Nat), InOrder(b, d)
    PROVE  /\ \A e \in Nat : (\A x \in ToSet(b) \cup ToSet(d) : x < e) => InOrder(Append(b, e), d)
           /\ b # <<>> => /\ InOrder(Tail(b), d)
                          /\ InOrder(Tail(b), Append(d, Head(b)))
<1>1. ASSUME NEW e \in Nat, \A x \in ToSet(b) \cup ToSet(d) : x < e
      PROVE  InOrder(Append(b, e), d)
  <2>1. ToSet(Append(b, e)) = ToSet(b) \cup {e}
    BY Elements
  <2>2. Ordered(Append(b, e))
    BY <1>1, OrderedAppend DEF InOrder
  <2> QED BY <1>1, <2>1, <2>2 DEF InOrder
<1>2. ASSUME b # <<>>
      PROVE  InOrder(Tail(b), d) /\ InOrder(Tail(b), Append(d, Head(b)))
  <2>1. ToSet(b) = {Head(b)} \cup ToSet(Tail(b)) /\ Head(b) \in Nat
    BY <1>2, Elements, Below
  <2>2. Ordered(Tail(b)) /\ \A x \in ToSet(Tail(b)) : Head(b) < x
    BY <1>2, OrderedTail DEF InOrder
  <2>3. Ordered(Append(d, Head(b))) /\ ToSet(Append(d, Head(b))) = ToSet(d) \cup {Head(b)}
    BY <2>1, OrderedAppend, Elements DEF InOrder
  <2> QED BY <2>1, <2>2, <2>3 DEF InOrder
<1> QED BY <1>1, <1>2

-----------------------------------------------------------------------------
(* What calling out, looking for the end and the loop do.                  *)

StackOK == /\ FramesOK /\ Len(stack) <= MaxDepth
           /\ stack \in Seq(Frames)
           /\ data \in Seq(Chunks) /\ ends \in Nat

\* Script is called in frame f.
LEMMA CallOutEffect ==
    ASSUME TypeOK, NEW f \in GoodFrames, NEW rest \in Seq(GoodFrames),
           Len(rest) < MaxDepth, f.call = "data" => f.chunk \in Chunks,
           CallOut(f, rest)
    PROVE  /\ StackOK'
           /\ Draining(stack') <=> Drains(f) \/ Draining(rest)
           /\ AllPlain(stack') <=> Plain(f) /\ AllPlain(rest)
<1>1. stack' \in Seq(GoodFrames) /\ Len(stack') = Len(rest) + 1 /\ Len(rest) \in Nat
  BY OnTop, LenProperties DEF CallOut
<1>2. stack' \in Seq(Frames)
  BY <1>1, SeqMonotonic DEF GoodFrames
<1>3. data' \in Seq(Chunks)
  BY AppendProperties DEF CallOut, TypeOK
<1>4. ends' \in Nat
  BY DEF CallOut, TypeOK
<1>5. Len(stack') <= MaxDepth
  BY <1>1, ReadableAssumption
<1> QED BY <1>1, <1>2, <1>3, <1>4, <1>5, StackOnTop DEF CallOut, StackOK, FramesOK

\* A C function is done.
LEMMA DoneEffect ==
    ASSUME TypeOK, NEW rest \in Seq(GoodFrames), Len(rest) <= MaxDepth, Done(rest)
    PROVE  StackOK' /\ stack' = rest /\ data' = data /\ ends' = ends
<1>1. rest \in Seq(Frames)
  BY SeqMonotonic DEF GoodFrames
<1> QED BY <1>1 DEF Done, history, StackOK, FramesOK, TypeOK

\* 'end' is emitted if nothing is left in the buffer b, and then only once.
LEMMA EndEffect ==
    ASSUME TypeOK, EndCounted, NEW op \in {"push", "read", "resume"},
           NEW b, NEW rest \in Seq(GoodFrames), Len(rest) < MaxDepth,
           ended' \in BOOLEAN, ended => ended', EndIfDrained(op, b, rest)
    PROVE  /\ StackOK' /\ EndCounted' /\ data' = data
           /\ endedEmitted' \in BOOLEAN /\ (endedEmitted' => ended')
           /\ ended' /\ b = <<>> => endedEmitted'
           /\ endedEmitted' /\ ~endedEmitted => b = <<>>
           /\ endedEmitted => endedEmitted'
           /\ Draining(stack') <=> Draining(rest)
           /\ AllPlain(stack') <=> AllPlain(rest)
<1>1. CASE ended' /\ b = <<>> /\ ~endedEmitted
  <2>1. endedEmitted' = TRUE /\ CallOut(Frame(op, "end"), rest)
    BY <1>1 DEF EndIfDrained
  <2>2. Frame(op, "end") \in GoodFrames
    BY FramesGood DEF Ops, Calls
  <2>3. /\ Frame(op, "end").call = "end" /\ Frame(op, "end").op = op
        /\ ~Drains(Frame(op, "end")) /\ Plain(Frame(op, "end"))
    BY DEF Frame, Drains, Plain
  <2>4. ends' = ends + 1 /\ data' = data
    BY <2>1, <2>3 DEF CallOut
  <2> QED BY <1>1, <2>1, <2>2, <2>3, <2>4, CallOutEffect DEF EndCounted
<1>2. CASE ~(ended' /\ b = <<>> /\ ~endedEmitted)
  <2>1. endedEmitted' = endedEmitted /\ Done(rest)
    BY <1>2 DEF EndIfDrained
  <2>2. Len(rest) <= MaxDepth
    BY LenProperties, ReadableAssumption
  <2>3. StackOK' /\ stack' = rest /\ data' = data /\ ends' = ends
    BY <2>1, <2>2, DoneEffect
  <2> QED BY <1>2, <2>1, <2>3 DEF EndCounted, TypeOK
<1> QED BY <1>1, <1>2

\* The head of the drain loop, with b in the buffer.  It takes a chunk, and is
\* then on the stack, or finds the buffer empty or the stream paused.
LEMMA LoopEffect ==
    ASSUME TypeOK, EndCounted, NEW op \in {"push", "pipe", "resume"},
           NEW d \in Dests \cup {NoDest},
           NEW b \in Seq(Chunks), NEW rest \in Seq(GoodFrames), Len(rest) < MaxDepth,
           flowing' \in BOOLEAN, ended' = ended, Loop(op, d, b, rest)
    PROVE  /\ StackOK' /\ EndCounted' /\ DrainsFlowing'
           /\ buffer' \in Seq(Chunks)
           /\ endedEmitted' \in BOOLEAN /\ (endedEmitted' => ended')
           /\ op # "pipe" /\ ended' /\ buffer' = <<>> /\ ~endedEmitted' => Draining(stack')
           /\ endedEmitted' /\ ~endedEmitted => buffer' = <<>>
           /\ endedEmitted => endedEmitted'
           /\ op # "pipe" /\ dests = <<>> =>
                 /\ AllPlain(stack') <=> AllPlain(rest)
                 /\ \/ buffer' = b /\ data' = data
                    \/ b # <<>> /\ buffer' = Tail(b) /\ data' = Append(data, Head(b))
<1>1. CASE b # <<>> /\ flowing'
  <2> DEFINE f == FirstCall(op, d, Head(b))
  <2>1. buffer' = Tail(b) /\ CallOut(f, rest) /\ endedEmitted' = endedEmitted
    BY <1>1 DEF Loop
  <2>2. Head(b) \in Chunks /\ Tail(b) \in Seq(Chunks)
    BY <1>1, HeadTailProperties
  <2>3. f \in GoodFrames
    BY <2>2, FramesGood DEF TypeOK, Ops
  <2>4. f.call \in {"write", "data"} /\ f.chunk = Head(b) /\ f.op = op
    BY DEF FirstCall
  <2>5. op # "pipe" /\ dests = <<>> => f.call = "data"
    BY DEF FirstCall
  <2>6. /\ StackOK' /\ Draining(stack')
        /\ AllPlain(stack') <=> Plain(f) /\ AllPlain(rest)
    BY <2>1, <2>2, <2>3, <2>4, CallOutEffect DEF Drains
  <2>7. ends' = ends
    BY <2>1, <2>4 DEF CallOut
  <2>8. f.call = "data" => data' = Append(data, Head(b))
    BY <2>1, <2>4 DEF CallOut
  <2> QED BY <1>1, <2>1, <2>2, <2>4, <2>5, <2>6, <2>7, <2>8
          DEF EndCounted, DrainsFlowing, TypeOK, Plain
<1>2. CASE ~(b # <<>> /\ flowing') /\ op = "pipe"
  <2>1. buffer' = b /\ endedEmitted' = endedEmitted /\ Done(rest)
    BY <1>2 DEF Loop, LoopEnds
  <2>2. Len(rest) <= MaxDepth
    BY LenProperties, ReadableAssumption
  <2>3. StackOK' /\ stack' = rest /\ data' = data /\ ends' = ends
    BY <2>1, <2>2, DoneEffect
  <2> QED BY <1>2, <2>1, <2>3 DEF EndCounted, DrainsFlowing, TypeOK
<1>3. CASE ~(b # <<>> /\ flowing') /\ op # "pipe"
  <2>1. buffer' = b /\ EndIfDrained(op, b, rest)
    BY <1>3 DEF Loop, LoopEnds
  <2>2. /\ StackOK' /\ EndCounted' /\ data' = data
        /\ endedEmitted' \in BOOLEAN /\ (endedEmitted' => ended')
        /\ ended' /\ b = <<>> => endedEmitted'
        /\ endedEmitted' /\ ~endedEmitted => b = <<>>
        /\ endedEmitted => endedEmitted'
        /\ AllPlain(stack') <=> AllPlain(rest)
    BY <1>3, <2>1, EndEffect DEF TypeOK
  <2> QED BY <1>3, <2>1, <2>2 DEF DrainsFlowing
<1> QED BY <1>1, <1>2, <1>3

\* What is kept of the chunks when b was put in the buffer and at most one
\* chunk has moved on from there.
LEMMA KeptLoop ==
    ASSUME TypeOK, NEW b \in Seq(Chunks), reads' \in Seq(Chunks), eof' <= pushed',
           pushed' \in Nat, eof' \in Nat,
           ~piped' => /\ ToSet(b) \cup ToSet(data) \cup ToSet(reads') = 1 .. pushed'
                      /\ endedEmitted => 1 .. eof' \subseteq ToSet(data) \cup ToSet(reads')
                      /\ InOrder(b, data),
           ~piped' => \/ buffer' = b /\ data' = data
                      \/ b # <<>> /\ buffer' = Tail(b) /\ data' = Append(data, Head(b)),
           endedEmitted' /\ ~endedEmitted => buffer' = <<>>
    PROVE  Kept'
<1> SUFFICES ASSUME ~piped'
             PROVE  /\ ToSet(buffer') \cup ToSet(data') \cup ToSet(reads') = 1 .. pushed'
                    /\ endedEmitted' => 1 .. eof' \subseteq ToSet(data') \cup ToSet(reads')
                    /\ InOrder(buffer', data')
  BY DEF Kept, InOrder, Ordered, ToSet
<1>1. b \in Seq(Nat) /\ data \in Seq(Nat)
  BY ChunksAreNumbers DEF TypeOK
<1>2. /\ ToSet(buffer') \cup ToSet(data') = ToSet(b) \cup ToSet(data)
      /\ ToSet(data) \subseteq ToSet(data')
      /\ InOrder(buffer', data')
  <2>1. CASE buffer' = b /\ data' = data
    BY <2>1
  <2>2. CASE b # <<>> /\ buffer' = Tail(b) /\ data' = Append(data, Head(b))
    <3>1. Head(b) \in Nat
      BY <1>1, <2>2, Below
    <3>2. /\ ToSet(data') = ToSet(data) \cup {Head(b)}
          /\ ToSet(b) = {Head(b)} \cup ToSet(buffer')
      BY <1>1, <2>2, <3>1, Elements
    <3>3. InOrder(buffer', data')
      BY <1>1, <2>2, OrderKept
    <3> QED BY <3>2, <3>3
  <2> QED BY <2>1, <2>2
<1>3. ASSUME endedEmitted' PROVE 1 .. eof' \subseteq ToSet(data') \cup ToSet(reads')
  <2>1. CASE endedEmitted
    BY <1>2, <2>1
  <2>2. CASE ~endedEmitted
    <3>1. ToSet(buffer') = {}
      BY <1>3, <2>2, EmptySeq DEF ToSet
    <3>2. 1 .. pushed' = ToSet(data') \cup ToSet(reads')
      BY <1>2, <3>1
    <3>3. 1 .. eof' \subseteq 1 .. pushed'
      OBVIOUS
    <3> QED BY <3>2, <3>3
  <2> QED BY <2>1, <2>2
<1> QED BY <1>2, <1>3

-----------------------------------------------------------------------------
(* The methods.                                                            *)

\* push(chunk).
LEMMA PushIInv == IInv /\ Push => IInv'
<1> SUFFICES ASSUME IInv, Push PROVE IInv'
  OBVIOUS
<1> USE ReadableAssumption
<1> DEFINE b == Append(buffer, pushed')
<1>1. /\ pushed' = pushed + 1 /\ pushed < MaxPushes /\ Len(stack) < MaxDepth
      /\ UNCHANGED <<flowing, ended, dests, refs, eof, reads, piped>>
  BY DEF Push, ScriptCalls, pipes
<1>2. /\ pushed' \in Chunks /\ pushed' \in 0 .. MaxPushes /\ pushed' \in Nat /\ eof \in Nat
      /\ eof' <= pushed'
  BY <1>1 DEF IInv, TypeOK, Chunks, Kept
<1>3. b \in Seq(Chunks) /\ b # <<>>
  <2>1. buffer \in Seq(Chunks)
    BY DEF IInv, TypeOK
  <2> QED BY <1>2, <2>1, AppendProperties
<1>4. /\ StackOK' /\ EndCounted' /\ DrainsFlowing'
      /\ buffer' \in Seq(Chunks) /\ readableEmitted' \in BOOLEAN
      /\ endedEmitted' \in BOOLEAN /\ (endedEmitted' => ended')
      /\ ended' /\ buffer' = <<>> /\ ~endedEmitted' => Draining(stack')
      /\ endedEmitted' /\ ~endedEmitted => buffer' = <<>>
      /\ dests = <<>> =>
            /\ AllPlain(stack') <=> AllPlain(stack)
            /\ \/ buffer' = b /\ data' = data
               \/ b # <<>> /\ buffer' = Tail(b) /\ data' = Append(data, Head(b))
  <2>1. CASE flowing
    <3>1. Loop("push", NoDest, b, stack) /\ readableEmitted' = readableEmitted
      BY <2>1 DEF Push
    <3> QED BY <1>1, <1>3, <3>1, LoopEffect DEF IInv, FramesOK, TypeOK
  <2>2. CASE ~flowing /\ readableEmitted
    <3>1. /\ Done(stack) /\ buffer' = b
          /\ endedEmitted' = endedEmitted /\ readableEmitted' = TRUE
      BY <2>2 DEF Push
    <3>2. StackOK' /\ stack' = stack /\ data' = data /\ ends' = ends
      BY <3>1, DoneEffect DEF IInv, FramesOK, TypeOK
    <3> QED BY <1>1, <1>3, <2>2, <3>1, <3>2
            DEF IInv, EndCounted, DrainsFlowing, TypeOK
  <2>3. CASE ~flowing /\ ~readableEmitted
    <3> DEFINE f == Frame("push", "readable")
    <3>1. /\ CallOut(f, stack) /\ buffer' = b
          /\ endedEmitted' = endedEmitted /\ readableEmitted' = TRUE
      BY <2>3 DEF Push
    <3>2. f \in GoodFrames
      BY FramesGood DEF Ops, Calls
    <3>3. f.call = "readable" /\ Plain(f)
      BY DEF Frame, Plain
    <3>4. StackOK' /\ (AllPlain(stack') <=> AllPlain(stack))
      BY <1>1, <3>1, <3>2, <3>3, CallOutEffect DEF IInv, FramesOK
    <3>5. data' = data /\ ends' = ends
      BY <3>1, <3>3 DEF CallOut
    <3> QED BY <1>1, <1>3, <2>3, <3>1, <3>4, <3>5
            DEF IInv, EndCounted, DrainsFlowing, TypeOK
  <2> QED BY <2>1, <2>2, <2>3
<1>5. ASSUME ~piped
      PROVE  /\ ToSet(b) \cup ToSet(data) \cup ToSet(reads') = 1 .. pushed'
             /\ InOrder(b, data)
  <2>1. buffer \in Seq(Nat) /\ data \in Seq(Nat)
    BY ChunksAreNumbers DEF IInv, TypeOK
  <2>2. ToSet(b) = ToSet(buffer) \cup {pushed'}
    BY <1>2, <2>1, Elements
  <2>3. ToSet(buffer) \cup ToSet(data) \cup ToSet(reads) = 1 .. pushed /\ InOrder(buffer, data)
    BY <1>5 DEF IInv, Kept
  <2>4. \A x \in ToSet(buffer) \cup ToSet(data) : x < pushed'
    BY <1>1, <2>3 DEF IInv, TypeOK
  <2>5. 1 .. pushed' = 1 .. pushed \cup {pushed'}
    BY <1>1 DEF IInv, TypeOK
  <2> QED BY <1>1, <1>2, <2>1, <2>2, <2>3, <2>4, <2>5, OrderKept
<1>6. Kept'
  BY <1>1, <1>2, <1>3, <1>4, <1>5, KeptLoop DEF IInv, TypeOK, Kept, Unpiped
<1>7. TypeOK' /\ FramesOK'
  BY <1>1, <1>2, <1>4 DEF IInv, TypeOK, StackOK
<1> QED BY <1>1, <1>4, <1>6, <1>7 DEF IInv, Unpiped, DrainsEnd

\* push(null).
LEMMA PushNullIInv == IInv /\ PushNull => IInv'
<1> SUFFICES ASSUME IInv, PushNull PROVE IInv'
  OBVIOUS
<1>1. /\ ended' = TRUE /\ eof' = (IF ended THEN eof ELSE pushed)
      /\ Len(stack) < MaxDepth /\ EndIfDrained("push", buffer, stack)
      /\ UNCHANGED <<buffer, flowing, readableEmitted, dests, refs, pushed, reads, piped>>
  BY DEF PushNull, ScriptCalls, pipes
<1>2. stack \in Seq(GoodFrames) /\ ended' \in BOOLEAN
  BY <1>1 DEF IInv, FramesOK
<1>3. /\ StackOK' /\ EndCounted' /\ data' = data
      /\ endedEmitted' \in BOOLEAN /\ (endedEmitted' => ended')
      /\ ended' /\ buffer = <<>> => endedEmitted'
      /\ endedEmitted' /\ ~endedEmitted => buffer = <<>>
      /\ Draining(stack') <=> Draining(stack)
      /\ AllPlain(stack') <=> AllPlain(stack)
  BY <1>1, <1>2, EndEffect DEF IInv, TypeOK
<1>4. /\ eof' \in 0 .. MaxPushes /\ eof' \in Nat /\ pushed' \in Nat /\ eof' <= pushed'
  BY <1>1, ReadableAssumption DEF IInv, TypeOK, Kept
<1>5. ~piped' /\ endedEmitted => 1 .. eof' \subseteq ToSet(data) \cup ToSet(reads')
  BY <1>1 DEF IInv, TypeOK, Kept
<1>6. Kept'
  BY <1>1, <1>3, <1>4, <1>5, KeptLoop DEF IInv, TypeOK, Kept
<1>7. TypeOK' /\ FramesOK'
  BY <1>1, <1>3, <1>4 DEF IInv, TypeOK, StackOK
<1> QED BY <1>1, <1>3, <1>6, <1>7 DEF IInv, Unpiped, DrainsEnd, DrainsFlowing

\* read().
LEMMA ReadIInv == IInv /\ Read => IInv'
<1> SUFFICES ASSUME IInv, Read PROVE IInv'
  OBVIOUS
<1>1. /\ buffer # <<>> /\ buffer' = Tail(buffer) /\ reads' = Append(reads, Head(buffer))
      /\ readableEmitted' = FALSE
      /\ Len(stack) < MaxDepth /\ EndIfDrained("read", Tail(buffer), stack)
      /\ UNCHANGED <<flowing, ended, dests, refs, pushed, eof, piped>>
  BY DEF Read, ScriptCalls, pipes
<1>2. /\ stack \in Seq(GoodFrames) /\ ended' \in BOOLEAN
      /\ buffer \in Seq(Chunks) /\ reads \in Seq(Chunks)
  BY <1>1 DEF IInv, FramesOK, TypeOK
<1>3. /\ StackOK' /\ EndCounted' /\ data' = data
      /\ endedEmitted' \in BOOLEAN /\ (endedEmitted' => ended')
      /\ ended' /\ buffer' = <<>> => endedEmitted'
      /\ endedEmitted' /\ ~endedEmitted => buffer' = <<>>
      /\ Draining(stack') <=> Draining(stack)
      /\ AllPlain(stack') <=> AllPlain(stack)
  BY <1>1, <1>2, EndEffect DEF IInv, TypeOK
<1>4. Head(buffer) \in Chunks /\ buffer' \in Seq(Chunks)
  BY <1>1, <1>2, Below
<1>5. reads' \in Seq(Chunks)
  BY <1>1, <1>2, <1>4, AppendProperties
<1>6. ASSUME ~piped
      PROVE  /\ ToSet(buffer') \cup ToSet(data) \cup ToSet(reads') = 1 .. pushed
             /\ endedEmitted => 1 .. eof \subseteq ToSet(data) \cup ToSet(reads')
             /\ InOrder(buffer', data)
  <2>1. buffer \in Seq(Nat) /\ data \in Seq(Nat) /\ reads \in Seq(Nat) /\ Head(buffer) \in Nat
    BY <1>1, <1>2, ChunksAreNumbers, Below DEF IInv, TypeOK
  <2>2. /\ ToSet(reads') = ToSet(reads) \cup {Head(buffer)}
        /\ ToSet(buffer) = {Head(buffer)} \cup ToSet(buffer')
    BY <1>1, <2>1, Elements
  <2>3. InOrder(buffer', data)
    BY <1>1, <1>6, <2>1, OrderKept DEF IInv, Kept
  <2> QED BY <1>6, <2>2, <2>3 DEF IInv, Kept
<1>7. Kept'
  <2>1. eof' \in Nat /\ pushed' \in Nat /\ eof' <= pushed'
    BY <1>1 DEF IInv, TypeOK, Kept
  <2> QED BY <1>1, <1>3, <1>4, <1>5, <1>6, <2>1, KeptLoop DEF IInv
<1>8. TypeOK' /\ FramesOK'
  BY <1>1, <1>3, <1>4, <1>5 DEF IInv, TypeOK, StackOK
<1> QED BY <1>1, <1>3, <1>7, <1>8 DEF IInv, Unpiped, DrainsEnd, DrainsFlowing

\* The other methods call a listener before they do anything else.
LEMMA CallIInv ==
    ASSUME IInv, NEW f \in GoodFrames, Len(stack) < MaxDepth, CallOut(f, stack),
           f.call \notin {"data", "end", "write"}, f.op # "pipe" \/ piped',
           flowing' \in BOOLEAN, flowing' => flowing \/ f.call = "resume",
           dests' \in Seq(Dests), refs' \in [Dests -> Int],
           piped' \in BOOLEAN, piped => piped', piped' \/ dests' = dests,
           UNCHANGED <<buffer, ended, endedEmitted, readableEmitted, pushed, eof, reads>>
    PROVE  IInv'
<1>1. /\ StackOK'
      /\ Draining(stack') <=> Drains(f) \/ Draining(stack)
      /\ AllPlain(stack') <=> Plain(f) /\ AllPlain(stack)
  BY CallOutEffect DEF IInv, FramesOK
<1>2. data' = data /\ ends' = ends
  BY DEF CallOut
<1>3. TypeOK' /\ FramesOK'
  BY <1>1 DEF IInv, TypeOK, StackOK
<1>4. Kept'
  BY <1>2 DEF IInv, Kept
<1> QED BY <1>1, <1>2, <1>3, <1>4
        DEF IInv, EndCounted, DrainsFlowing, DrainsEnd, Unpiped, Drains, Plain

\* pause(), resume(), pipe() and unpipe(), up to their first listener.
LEMMA MethodIInv ==
    /\ IInv
    /\ \/ Pause \/ Resume \/ UnpipeAll
       \/ \E d \in Dests : Pipe(d) \/ Unpipe(d)
    => IInv'
<1> SUFFICES ASSUME IInv,
                    \/ Pause \/ Resume \/ UnpipeAll
                    \/ \E d \in Dests : Pipe(d) \/ Unpipe(d)
             PROVE IInv'
  OBVIOUS
<1> USE DEF ScriptCalls, flags, pipes
<1>1. CASE Pause
  <2> DEFINE f == Frame("pause", "pause")
  <2>1. f \in GoodFrames /\ f.op = "pause" /\ f.call = "pause"
    BY FramesGood DEF Ops, Calls, Frame
  <2>2. /\ CallOut(f, stack) /\ Len(stack) < MaxDepth /\ flowing' = FALSE
        /\ UNCHANGED <<buffer, ended, endedEmitted, readableEmitted, dests, refs,
                       pushed, eof, reads, piped>>
    BY <1>1 DEF Pause
  <2> QED BY <2>1, <2>2, CallIInv DEF IInv, TypeOK
<1>2. CASE Resume
  <2> DEFINE f == Frame("resume", "resume")
  <2>1. f \in GoodFrames /\ f.op = "resume" /\ f.call = "resume"
    BY FramesGood DEF Ops, Calls, Frame
  <2>2. /\ CallOut(f, stack) /\ Len(stack) < MaxDepth /\ flowing' = TRUE
        /\ UNCHANGED <<buffer, ended, endedEmitted, readableEmitted, dests, refs,
                       pushed, eof, reads, piped>>
    BY <1>2 DEF Resume
  <2> QED BY <2>1, <2>2, CallIInv DEF IInv, TypeOK
<1>3. ASSUME NEW op \in {"unpipe", "unpipeAll"}, NEW k \in DOMAIN dests,
             Len(stack) < MaxDepth, UnpipeFrom(op, k)
      PROVE  IInv'
  <2> DEFINE f == [Frame(op, "unpipe") EXCEPT !.dest = dests[k], !.i = k]
  <2>1. dests[k] \in Dests /\ k \in Nat
    BY ElementOfSeq, LenProperties DEF IInv, TypeOK
  <2>2. Frame(op, "unpipe") \in GoodFrames
    BY FramesGood DEF Ops, Calls
  <2>3. f \in GoodFrames /\ f.op = op /\ f.call = "unpipe"
    BY <2>1, <2>2 DEF GoodFrames, Frames, Frame
  <2>4. /\ CallOut(f, stack)
        /\ UNCHANGED <<buffer, flowing, ended, endedEmitted, readableEmitted, dests, refs,
                       pushed, eof, reads, piped>>
    BY <1>3 DEF UnpipeFrom
  <2> QED BY <1>3, <2>3, <2>4, CallIInv DEF IInv, TypeOK
<1>4. CASE UnpipeAll
  <2>1. dests # <<>> /\ Len(stack) < MaxDepth /\ UnpipeFrom("unpipeAll", 1)
    BY <1>4 DEF UnpipeAll
  <2>2. 1 \in DOMAIN dests
    BY <2>1, Below DEF IInv, TypeOK
  <2> QED BY <1>3, <2>1, <2>2
<1>5. ASSUME NEW d \in Dests, Unpipe(d) PROVE IInv'
  BY <1>3, <1>5 DEF Unpipe
<1>6. ASSUME NEW d \in Dests, Pipe(d) PROVE IInv'
  <2> DEFINE f == [Frame("pipe", "pipe") EXCEPT !.dest = d]
  <2>1. Frame("pipe", "pipe") \in GoodFrames
    BY FramesGood DEF Ops, Calls
  <2>2. f \in GoodFrames /\ f.op = "pipe" /\ f.call = "pipe"
    BY <2>1 DEF GoodFrames, Frames, Frame
  <2>3. /\ CallOut(f, stack) /\ Len(stack) < MaxDepth /\ piped' = TRUE
        /\ dests' = Append(dests, d) /\ refs' = [refs EXCEPT ![d] = @ + 1]
        /\ UNCHANGED <<buffer, flowing, ended, endedEmitted, readableEmitted,
                       pushed, eof, reads>>
    BY <1>6 DEF Pipe
  <2>4. dests' \in Seq(Dests) /\ refs' \in [Dests -> Int]
    BY <2>3, AppendProperties DEF IInv, TypeOK
  <2> QED BY <2>2, <2>3, <2>4, CallIInv DEF IInv, TypeOK
<1> QED BY <1>1, <1>2, <1>4, <1>5, <1>6

-----------------------------------------------------------------------------
(* The script function is back.                                            *)

\* The innermost call and those around it.
LEMMA TopAndRest ==
    ASSUME IInv, stack # <<>>
    PROVE  /\ Top \in GoodFrames /\ Rest \in Seq(GoodFrames) /\ Len(Rest) < MaxDepth
           /\ Draining(stack) <=> Drains(Top) \/ Draining(Rest)
           /\ AllPlain(stack) <=> Plain(Top) /\ AllPlain(Rest)
<1>1. stack \in Seq(GoodFrames) /\ Len(stack) <= MaxDepth
  BY DEF IInv, FramesOK, TypeOK
<1>2. /\ Head(stack) \in GoodFrames /\ Tail(stack) \in Seq(GoodFrames)
      /\ Len(Tail(stack)) = Len(stack) - 1
  BY <1>1, Below
<1>3. Len(Tail(stack)) < MaxDepth
  BY <1>1, <1>2, LenProperties, ReadableAssumption
<1> QED BY <1>1, <1>2, <1>3, StackBelow DEF Top, Rest

\* The drain loop, entered again from a call of it that is back.
LEMMA LoopReturnsIInv ==
    ASSUME IInv, stack # <<>>, Top.op \in {"push", "pipe", "resume"}, Drains(Top),
           Loop(Top.op, Top.dest, buffer, Rest),
           UNCHANGED <<flowing, ended, readableEmitted, dests, refs, pushed, eof, reads, piped>>
    PROVE  IInv'
<1>1. /\ Top \in GoodFrames /\ Rest \in Seq(GoodFrames) /\ Len(Rest) < MaxDepth
      /\ AllPlain(stack) <=> Plain(Top) /\ AllPlain(Rest)
  BY TopAndRest
<1>2. Top.dest \in Dests \cup {NoDest}
  BY <1>1 DEF GoodFrames, Frames
<1>3. /\ StackOK' /\ EndCounted' /\ DrainsFlowing'
      /\ buffer' \in Seq(Chunks)
      /\ endedEmitted' \in BOOLEAN /\ (endedEmitted' => ended')
      /\ Top.op # "pipe" /\ ended' /\ buffer' = <<>> /\ ~endedEmitted' => Draining(stack')
      /\ endedEmitted' /\ ~endedEmitted => buffer' = <<>>
      /\ Top.op # "pipe" /\ dests = <<>> =>
            /\ AllPlain(stack') <=> AllPlain(Rest)
            /\ \/ buffer' = buffer /\ data' = data
               \/ buffer # <<>> /\ buffer' = Tail(buffer) /\ data' = Append(data, Head(buffer))
  BY <1>1, <1>2, LoopEffect DEF IInv, TypeOK
<1>4. ~piped => Top.op # "pipe" /\ dests = <<>> /\ AllPlain(Rest)
  BY <1>1 DEF IInv, Unpiped, Plain
<1>5. Kept'
  <2>1. /\ reads' \in Seq(Chunks) /\ eof' <= pushed' /\ pushed' \in Nat /\ eof' \in Nat
        /\ buffer \in Seq(Chunks)
    BY DEF IInv, TypeOK, Kept
  <2>2. ~piped' => /\ ToSet(buffer) \cup ToSet(data) \cup ToSet(reads') = 1 .. pushed'
                   /\ endedEmitted => 1 .. eof' \subseteq ToSet(data) \cup ToSet(reads')
                   /\ InOrder(buffer, data)
    BY DEF IInv, Kept
  <2> QED BY <1>3, <1>4, <2>1, <2>2, KeptLoop DEF IInv
<1>6. TypeOK' /\ FramesOK'
  BY <1>3 DEF IInv, TypeOK, StackOK
<1> QED BY <1>3, <1>4, <1>5, <1>6 DEF IInv, Unpiped, DrainsEnd

\* A function that is done with one call, and makes the next (f) or returns.
LEMMA NextCallIInv ==
    ASSUME IInv, stack # <<>>,
           \/ /\ Done(Rest) /\ ~Drains(Top)
           \/ \E f \in GoodFrames :
                 /\ CallOut(f, Rest) /\ f.op = Top.op /\ f.call # "end"
                 /\ Drains(Top) \/ flowing' # flowing => Drains(f)
                 /\ f.call = "data" => f.chunk \in Chunks /\ ~Plain(Top)
                 /\ f.call = "write" => ~Plain(Top),
           flowing' \in BOOLEAN, flowing' # flowing => Top.op = "pipe" /\ ~Done(Rest),
           dests' \in Seq(Dests), dests = <<>> => dests' = <<>>, refs' \in [Dests -> Int],
           UNCHANGED <<buffer, ended, endedEmitted, readableEmitted, pushed, eof, reads, piped>>
    PROVE  IInv'
<1>1. /\ Rest \in Seq(GoodFrames) /\ Len(Rest) < MaxDepth
      /\ Draining(stack) <=> Drains(Top) \/ Draining(Rest)
      /\ AllPlain(stack) <=> Plain(Top) /\ AllPlain(Rest)
  BY TopAndRest
<1>2. ~piped => dests' = <<>> /\ Plain(Top) /\ AllPlain(Rest)
  BY <1>1 DEF IInv, Unpiped
<1>3. ~piped => data' = data
  BY <1>2 DEF CallOut, Done, history
<1>4. ends' = ends
  BY DEF CallOut, Done, history
<1>5. CASE Done(Rest) /\ ~Drains(Top)
  <2>1. Len(Rest) <= MaxDepth
    BY <1>1, LenProperties, ReadableAssumption
  <2>2. StackOK' /\ stack' = Rest /\ data' = data /\ flowing' = flowing
    BY <1>1, <1>5, <2>1, DoneEffect DEF IInv
  <2>3. TypeOK' /\ FramesOK'
    BY <2>2 DEF IInv, TypeOK, StackOK
  <2>4. Kept'
    BY <2>2 DEF IInv, Kept
  <2> QED BY <1>1, <1>2, <1>4, <1>5, <2>2, <2>3, <2>4
          DEF IInv, EndCounted, DrainsFlowing, DrainsEnd, Unpiped
<1>6. ASSUME NEW f \in GoodFrames, CallOut(f, Rest), f.op = Top.op,
             Drains(Top) \/ flowing' # flowing => Drains(f),
             f.call = "data" => f.chunk \in Chunks /\ ~Plain(Top),
             f.call = "write" => ~Plain(Top)
      PROVE  IInv'
  <2>1. /\ StackOK'
        /\ Draining(stack') <=> Drains(f) \/ Draining(Rest)
        /\ AllPlain(stack') <=> Plain(f) /\ AllPlain(Rest)
    BY <1>1, <1>6, CallOutEffect DEF IInv
  <2>2. TypeOK' /\ FramesOK'
    BY <2>1 DEF IInv, TypeOK, StackOK
  <2>3. Kept'
    BY <1>3 DEF IInv, Kept
  <2>4. ~piped => Plain(f)
    BY <1>2, <1>6 DEF Plain
  <2> QED BY <1>1, <1>2, <1>4, <1>6, <2>1, <2>2, <2>3, <2>4
          DEF IInv, EndCounted, DrainsFlowing, DrainsEnd, Unpiped
<1> QED BY <1>5, <1>6

\* The same call, for another destination.
LEMMA NextDest ==
    ASSUME NEW f \in GoodFrames, NEW i \in Nat, NEW d \in Dests
    PROVE  /\ [f EXCEPT !.i = i, !.dest = d] \in GoodFrames
           /\ [f EXCEPT !.i = i, !.dest = d].op = f.op
           /\ [f EXCEPT !.i = i, !.dest = d].call = f.call
BY DEF GoodFrames, Frames

\* An array of destinations with a gap closed.
LEMMA GapClosed ==
    ASSUME NEW s \in Seq(Dests), NEW i \in Nat
    PROVE  /\ i <= Len(s) => /\ RemoveAt(s, i) \in Seq(Dests)
                             /\ s = <<>> => RemoveAt(s, i) = <<>>
           /\ SubSeq(s, 1, Len(s) - 1) \in Seq(Dests)
           /\ s = <<>> => SubSeq(s, 1, Len(s) - 1) = <<>>
<1>1. Len(s) \in Nat /\ \A j \in 1 .. Len(s) : s[j] \in Dests
  BY LenProperties, ElementOfSeq
<1>2. ASSUME NEW m \in Nat \ {0}, NEW n \in Int, n <= Len(s)
      PROVE  SubSeq(s, m, n) \in Seq(Dests)
  <2>1. \A j \in m .. n : s[j] \in Dests
    BY <1>1, <1>2
  <2> QED BY <2>1, SubSeqProperties
<1>3. SubSeq(s, 1, Len(s) - 1) \in Seq(Dests)
  BY <1>1, <1>2
<1>4. ASSUME i <= Len(s) PROVE RemoveAt(s, i) \in Seq(Dests)
  <2>1. SubSeq(s, 1, i - 1) \in Seq(Dests) /\ SubSeq(s, i + 1, Len(s)) \in Seq(Dests)
    BY <1>1, <1>2, <1>4
  <2> QED BY <2>1, ConcatProperties DEF RemoveAt
<1>5. ASSUME s = <<>>
      PROVE  /\ SubSeq(s, 1, Len(s) - 1) = <<>>
             /\ i <= Len(s) => RemoveAt(s, i) = <<>>
  <2>1. Len(s) = 0
    BY <1>5
  <2>2. SubSeq(s, 1, Len(s) - 1) = <<>>
    BY <2>1, SubSeqEmpty
  <2>3. i <= Len(s) => SubSeq(s, 1, i - 1) = <<>> /\ SubSeq(s, i + 1, Len(s)) = <<>>
    BY <2>1, SubSeqEmpty
  <2>4. <<>> \o <<>> = <<>>
    BY ConcatEmptySeq, EmptySeq
  <2> QED BY <2>2, <2>3, <2>4 DEF RemoveAt
<1> QED BY <1>3, <1>4, <1>5

\* The function goes on when the script it called is back.
LEMMA ReturnsIInv == IInv /\ Returns => IInv'
<1> SUFFICES ASSUME IInv, Returns PROVE IInv'
  OBVIOUS
<1>1. UNCHANGED <<pushed, eof, reads, piped>>
  BY DEF Returns
<1>2. dests \in Seq(Dests) /\ refs \in [Dests -> Int] /\ flowing \in BOOLEAN
  BY DEF IInv, TypeOK
<1>3. ASSUME stack # <<>>, Top.i < Len(dests)
      PROVE  Top.i + 1 \in Nat /\ dests[Top.i + 1] \in Dests
  <2>1. Top.i \in Nat
    BY <1>3, TopAndRest DEF GoodFrames, Frames
  <2>2. Top.i + 1 \in 1 .. Len(dests)
    BY <1>2, <1>3, <2>1, LenProperties
  <2> QED BY <1>2, <2>1, <2>2, ElementOfSeq
<1>4. CASE WriteReturns
  <2>1. /\ stack # <<>> /\ Top.op \in {"push", "pipe"} /\ Top.call = "write"
        /\ UNCHANGED <<buffer, flowing, ended, endedEmitted, readableEmitted, dests, refs>>
    BY <1>4 DEF WriteReturns, Returning, flags, pipes
  <2>2. Top \in GoodFrames /\ Top.chunk \in Chunks /\ ~Plain(Top)
    BY <2>1, TopAndRest DEF GoodFrames, Plain
  <2>3. CASE Top.op = "push" /\ Top.i < Len(dests)
    <3> DEFINE f == [Top EXCEPT !.i = Top.i + 1, !.dest = dests[Top.i + 1]]
    <3>1. CallOut(f, Rest)
      BY <1>4, <2>3 DEF WriteReturns
    <3>2. f \in GoodFrames /\ f.op = Top.op /\ f.call = "write"
      BY <1>3, <2>1, <2>2, <2>3, NextDest
    <3>3. Drains(f)
      BY <3>2 DEF Drains
    <3> QED BY <1>1, <1>2, <2>1, <2>2, <3>1, <3>2, <3>3, NextCallIInv
  <2>4. CASE ~(Top.op = "push" /\ Top.i < Len(dests))
    <3> DEFINE f == [Top EXCEPT !.call = "data"]
    <3>1. CallOut(f, Rest)
      BY <1>4, <2>4 DEF WriteReturns
    <3>2. f \in GoodFrames /\ f.op = Top.op /\ f.call = "data" /\ f.chunk = Top.chunk
      BY <2>2 DEF GoodFrames, Frames, Calls
    <3>3. Drains(f)
      BY <3>2 DEF Drains
    <3> QED BY <1>1, <1>2, <2>1, <2>2, <3>1, <3>2, <3>3, NextCallIInv
  <2> QED BY <2>3, <2>4
<1>5. CASE DataReturns
  <2>1. /\ stack # <<>> /\ Top.op \in {"push", "pipe", "resume"} /\ Drains(Top)
        /\ UNCHANGED <<flowing, ended, readableEmitted, dests, refs>>
        /\ Loop(Top.op, Top.dest, buffer, Rest)
    BY <1>5 DEF DataReturns, Returning, Drains, pipes
  <2> QED BY <1>1, <2>1, LoopReturnsIInv
<1>6. CASE ResumeReturns
  <2>1. /\ stack # <<>> /\ Top.op \in {"push", "pipe", "resume"} /\ Drains(Top)
        /\ UNCHANGED <<flowing, ended, readableEmitted, dests, refs>>
        /\ Loop(Top.op, Top.dest, buffer, Rest)
    BY <1>6 DEF ResumeReturns, Returning, Drains, pipes
  <2> QED BY <1>1, <2>1, LoopReturnsIInv
<1>7. CASE PipeReturns
  <2>1. /\ stack # <<>> /\ Top.op = "pipe" /\ Top.call = "pipe" /\ flowing' = TRUE
        /\ UNCHANGED <<buffer, ended, endedEmitted, readableEmitted, dests, refs>>
    BY <1>7 DEF PipeReturns, Returning, pipes
  <2>2. Top \in GoodFrames /\ ~Drains(Top)
    BY <2>1, TopAndRest DEF Drains
  <2>3. CASE flowing
    <3>1. Done(Rest) /\ flowing' = flowing
      BY <1>7, <2>1, <2>3 DEF PipeReturns
    <3> QED BY <1>1, <1>2, <2>1, <2>2, <3>1, NextCallIInv
  <2>4. CASE ~flowing
    <3> DEFINE f == [Top EXCEPT !.call = "resume"]
    <3>1. CallOut(f, Rest)
      BY <1>7, <2>4 DEF PipeReturns
    <3>2. f \in GoodFrames /\ f.op = Top.op /\ f.call = "resume"
      BY <2>2 DEF GoodFrames, Frames, Calls
    <3>3. Drains(f)
      BY <3>2 DEF Drains
    <3>4. ~Done(Rest)
      <4>1. stack' = <<f>> \o Rest /\ Rest \in Seq(GoodFrames)
        BY <2>1, <3>1, TopAndRest DEF CallOut
      <4>2. Len(stack') = Len(Rest) + 1 /\ Len(Rest) \in Nat
        BY <3>2, <4>1, OnTop, LenProperties
      <4> QED BY <4>2 DEF Done
    <3> QED BY <1>1, <1>2, <2>1, <2>2, <3>1, <3>2, <3>3, <3>4, NextCallIInv
  <2> QED BY <2>3, <2>4
<1>8. CASE UnpipeReturns
  <2>1. /\ stack # <<>> /\ Top.op \in {"unpipe", "unpipeAll"} /\ Top.call = "unpipe"
        /\ refs' = [refs EXCEPT ![Top.dest] = @ - 1]
        /\ UNCHANGED <<buffer, flowing, ended, endedEmitted, readableEmitted>>
    BY <1>8 DEF UnpipeReturns, Returning, flags
  <2>2. Top \in GoodFrames /\ ~Drains(Top) /\ Top.i \in Nat
    BY <2>1, TopAndRest DEF Drains, GoodFrames, Frames
  <2>3. refs' \in [Dests -> Int]
    <3>1. CASE Top.dest \in Dests
      BY <1>2, <2>1, <3>1
    <3>2. CASE Top.dest \notin Dests
      BY <1>2, <2>1, <3>2
    <3> QED BY <3>1, <3>2
  <2>4. CASE Top.op = "unpipeAll" /\ Top.i < Len(dests)
    <3> DEFINE f == [Top EXCEPT !.i = Top.i + 1, !.dest = dests[Top.i + 1]]
    <3>1. CallOut(f, Rest) /\ dests' = dests
      BY <1>2, <1>8, <2>2, <2>4, LenProperties DEF UnpipeReturns
    <3>2. f \in GoodFrames /\ f.op = Top.op /\ f.call = "unpipe"
      BY <1>3, <2>1, <2>2, <2>4, NextDest
    <3> QED BY <1>1, <1>2, <2>1, <2>2, <2>3, <3>1, <3>2, NextCallIInv
  <2>5. CASE Top.op = "unpipeAll" /\ Top.i >= Len(dests)
    <3>1. dests' = <<>> /\ Done(Rest)
      BY <1>2, <1>8, <2>2, <2>5, LenProperties DEF UnpipeReturns
    <3> QED BY <1>1, <1>2, <2>1, <2>2, <2>3, <3>1, EmptySeq, NextCallIInv
  <2>6. CASE Top.op = "unpipe"
    <3>1. /\ Done(Rest)
          /\ dests' = IF Top.i <= Len(dests) THEN RemoveAt(dests, Top.i)
                      ELSE SubSeq(dests, 1, Len(dests) - 1)
      BY <1>8, <2>6 DEF UnpipeReturns
    <3>2. dests' \in Seq(Dests) /\ (dests = <<>> => dests' = <<>>)
      BY <1>2, <2>2, <3>1, GapClosed
    <3> QED BY <1>1, <1>2, <2>1, <2>2, <2>3, <3>1, <3>2, NextCallIInv
  <2> QED BY <1>2, <2>1, <2>2, <2>4, <2>5, <2>6, LenProperties
<1>9. CASE LastCallReturns
  <2>1. /\ stack # <<>> /\ Top.call \in {"end", "readable", "pause"} /\ Done(Rest)
        /\ UNCHANGED <<buffer, flowing, ended, endedEmitted, readableEmitted, dests, refs>>
    BY <1>9 DEF LastCallReturns, flags, pipes
  <2>2. ~Drains(Top)
    BY <2>1 DEF Drains
  <2> QED BY <1>1, <1>2, <2>1, <2>2, NextCallIInv
<1> QED BY <1>4, <1>5, <1>6, <1>7, <1>8, <1>9 DEF Returns

-----------------------------------------------------------------------------
(* The theorems.                                                           *)

\* A new stream is empty, paused and not being called.
LEMMA InitIInv == Init => IInv
<1> SUFFICES ASSUME Init PROVE IInv
  OBVIOUS
<1> USE ReadableAssumption DEF Init
<1>1. \A S : <<>> \in Seq(S)
  BY EmptySeq
<1>2. Len(stack) = 0 /\ DOMAIN stack = {} /\ ToSet(<<>>) = {} /\ DOMAIN data = {} /\ DOMAIN buffer = {}
  BY DEF ToSet
<1>3. MaxPushes \in Nat /\ MaxDepth \in Nat
  OBVIOUS
<1>4. TypeOK
  <2>1. refs \in [Dests -> Int]
    OBVIOUS
  <2>2. pushed \in 0 .. MaxPushes /\ eof \in 0 .. MaxPushes /\ Len(stack) <= MaxDepth
    BY <1>2, <1>3
  <2>3. /\ flowing \in BOOLEAN /\ ended \in BOOLEAN /\ endedEmitted \in BOOLEAN
        /\ readableEmitted \in BOOLEAN /\ piped \in BOOLEAN
    OBVIOUS
  <2>4. /\ buffer \in Seq(Chunks) /\ data \in Seq(Chunks) /\ reads \in Seq(Chunks)
        /\ dests \in Seq(Dests) /\ stack \in Seq(Frames)
    BY <1>1
  <2>5. ends \in Nat /\ (endedEmitted => ended)
    OBVIOUS
  <2> QED BY <2>1, <2>2, <2>3, <2>4, <2>5 DEF TypeOK
<1>5. FramesOK /\ EndCounted /\ DrainsFlowing /\ DrainsEnd /\ Unpiped
  BY <1>1, <1>2 DEF FramesOK, EndCounted, DrainsFlowing, DrainsEnd, Unpiped, AllPlain
<1>6. Kept
  <2>1. 1 .. pushed = {} /\ eof <= pushed
    OBVIOUS
  <2> QED BY <1>2, <2>1 DEF Kept, InOrder, Ordered
<1> QED BY <1>4, <1>5, <1>6 DEF IInv

\* Every step keeps the invariant.
LEMMA NextIInv == IInv /\ [Next]_vars => IInv'
<1> SUFFICES ASSUME IInv, [Next]_vars PROVE IInv'
  OBVIOUS
<1>1. CASE Next
  BY <1>1, PushIInv, PushNullIInv, ReadIInv, MethodIInv, ReturnsIInv DEF Next
<1>2. CASE UNCHANGED vars
  BY <1>2 DEF vars, IInv, TypeOK, FramesOK, EndCounted, DrainsFlowing, DrainsEnd,
              Unpiped, Kept
<1> QED BY <1>1, <1>2

\* The invariant holds throughout.
THEOREM Invariance == Spec => []IInv
<1> QED BY InitIInv, NextIInv, PTL DEF Spec

\* The fields keep the shape of the C structure, however the calls nest.
THEOREM TypeCorrect == Spec => []TypeOK
<1>1. IInv => TypeOK
  BY DEF IInv
<1> QED BY <1>1, Invariance, PTL

\* 'end' is emitted at most once: by whichever of the nested calls finds the
\* buffer empty first (readable.c marks it before it emits).
THEOREM EndsOnce == Spec => []EndOnce
<1>1. IInv => EndOnce
  BY DEF IInv, EndCounted, EndOnce
<1> QED BY <1>1, Invariance, PTL

\* Once all calls are back a flowing stream has nothing in its buffer.
THEOREM NothingStuck == Spec => []FlowingDrained
<1>1. IInv => FlowingDrained
  BY DEF IInv, DrainsFlowing, Draining, FlowingDrained
<1> QED BY <1>1, Invariance, PTL

\* Once all calls are back an ended, empty stream has emitted 'end', if it was
\* never piped.
THEOREM EndIsReached == Spec => []EndReached
<1>1. IInv => EndReached
  BY DEF IInv, DrainsEnd, Draining, EndReached
<1> QED BY <1>1, Invariance, PTL

\* 'end' comes after every chunk pushed before push(null).
THEOREM EndComesLast == Spec => []EndLast
<1>1. ASSUME IInv PROVE EndLast
  <2>1. data \in Seq(Nat) /\ reads \in Seq(Nat)
    BY <1>1, ChunksAreNumbers DEF IInv, TypeOK
  <2>2. ToSet(data \o reads) = ToSet(data) \cup ToSet(reads)
    <3>1. /\ ToSet(data \o reads) = Range(data \o reads)
          /\ ToSet(data) = Range(data) /\ ToSet(reads) = Range(reads)
      BY DEF ToSet, Range
    <3>2. Range(data \o reads) = Range(data) \cup Range(reads)
      BY <2>1, RangeConcatenation
    <3> QED BY <3>1, <3>2
  <2>3. ends > 0 => endedEmitted
    BY <1>1 DEF IInv, EndCounted
  <2> QED BY <1>1, <2>2, <2>3 DEF IInv, Kept, EndLast
<1> QED BY <1>1, Invariance, PTL

\* 'data' events come in the order of the pushes.
THEOREM DataComesInOrder == Spec => []DataInOrder
<1>1. IInv => DataInOrder
  BY DEF IInv, Kept, InOrder, Ordered, DataInOrder
<1> QED BY <1>1, Invariance, PTL

-----------------------------------------------------------------------------
(* Each chunk is at one place.                                             *)

Once(s) == \A j, k \in DOMAIN s : s[j] = s[k] => j = k

\* The chunks that calls of s have taken to a destination, and that no two of
\* them have the same.
Writes(s) == {s[k].chunk : k \in {j \in DOMAIN s : s[j].call = "write"}}
WriteOnce(s) ==
    \A j, k \in DOMAIN s : s[j].call = "write" /\ s[k].call = "write" /\ s[j].chunk = s[k].chunk => j = k

\* The first n chunks are in the buffer b, emitted (d), read (r), with the calls
\* of s, or in hand (X), and each is at one of these places, once.
Placed(b, d, r, s, n, X) ==
    /\ Once(b) /\ Once(d) /\ Once(r) /\ WriteOnce(s)
    /\ ToSet(b) \cap ToSet(d) = {} /\ ToSet(b) \cap ToSet(r) = {} /\ ToSet(d) \cap ToSet(r) = {}
    /\ Writes(s) \cap (ToSet(b) \cup ToSet(d) \cup ToSet(r)) = {}
    /\ X \cap (ToSet(b) \cup ToSet(d) \cup ToSet(r) \cup Writes(s)) = {}
    /\ ToSet(b) \cup ToSet(d) \cup ToSet(r) \cup Writes(s) \cup X = 1 .. n

\* Between steps no chunk is in hand.
AllPlaced == Placed(buffer, data, reads, stack, pushed, {})

LEMMA OnceAppend ==
    ASSUME NEW s \in Seq(Nat), NEW e \in Nat, Once(s), e \notin ToSet(s)
    PROVE  Once(Append(s, e))
<1>1. /\ Append(s, e) \in Seq(Nat) /\ Len(Append(s, e)) = Len(s) + 1
      /\ \A i \in 1 .. Len(s) : Append(s, e)[i] = s[i]
      /\ Append(s, e)[Len(s) + 1] = e
  BY AppendProperties
<1>2. /\ Len(s) \in Nat /\ DOMAIN s = 1 .. Len(s)
      /\ DOMAIN Append(s, e) = 1 .. Len(s) + 1
  BY <1>1, LenProperties
<1>3. \A i \in DOMAIN s : s[i] # e
  BY DEF ToSet
<1>4. \A i \in DOMAIN Append(s, e) : i \in DOMAIN s \/ i = Len(s) + 1
  BY <1>2
<1> QED BY <1>1, <1>2, <1>3, <1>4 DEF Once

LEMMA OnceTail ==
    ASSUME NEW s \in Seq(Nat), s # <<>>, Once(s)
    PROVE  Once(Tail(s)) /\ Head(s) \notin ToSet(Tail(s))
<1>1. /\ Tail(s) \in Seq(Nat) /\ 1 \in DOMAIN s /\ s[1] = Head(s)
      /\ \A k \in DOMAIN Tail(s) : k + 1 \in DOMAIN s /\ Tail(s)[k] = s[k + 1]
  BY Below
<1>2. \A k \in DOMAIN Tail(s) : k \in Nat /\ k >= 1
  BY <1>1, LenProperties
<1>3. ASSUME NEW j \in DOMAIN Tail(s), NEW k \in DOMAIN Tail(s), Tail(s)[j] = Tail(s)[k] PROVE j = k
  <2>1. j + 1 = k + 1
    BY <1>1, <1>3 DEF Once
  <2> QED BY <1>2, <2>1
<1>4. ASSUME NEW k \in DOMAIN Tail(s) PROVE Tail(s)[k] # Head(s)
  <2>1. k + 1 # 1
    BY <1>2
  <2> QED BY <1>1, <2>1 DEF Once
<1> QED BY <1>3, <1>4 DEF Once, ToSet

\* Injective parts with nothing in common.
LEMMA OnceConcat ==
    ASSUME NEW s \in Seq(Nat), NEW t \in Seq(Nat), Once(s), Once(t), ToSet(s) \cap ToSet(t) = {}
    PROVE  s \o t \in Seq(Nat) /\ Once(s \o t) /\ ToSet(s \o t) = ToSet(s) \cup ToSet(t)
<1>1. /\ s \o t \in Seq(Nat) /\ Len(s \o t) = Len(s) + Len(t)
      /\ \A i \in 1 .. Len(s) + Len(t) : (s \o t)[i] = IF i <= Len(s) THEN s[i] ELSE t[i - Len(s)]
  BY ConcatProperties
<1>2. /\ Len(s) \in Nat /\ Len(t) \in Nat /\ DOMAIN s = 1 .. Len(s) /\ DOMAIN t = 1 .. Len(t)
      /\ DOMAIN (s \o t) = 1 .. Len(s) + Len(t)
  BY <1>1, LenProperties
<1>3. ToSet(s \o t) = ToSet(s) \cup ToSet(t)
  <2>1. ToSet(s \o t) = Range(s \o t) /\ ToSet(s) = Range(s) /\ ToSet(t) = Range(t)
    BY DEF ToSet, Range
  <2> QED BY <2>1, RangeConcatenation
<1>4. PICK m \in Nat : m = Len(s)
  BY <1>2
<1>5. \A i \in DOMAIN (s \o t) : \/ i \in DOMAIN s /\ (s \o t)[i] = s[i]
                                 \/ i \in Nat /\ i - m \in DOMAIN t /\ (s \o t)[i] = t[i - m]
  BY <1>1, <1>2, <1>4
<1>6. \A i \in DOMAIN s, j \in DOMAIN t : s[i] # t[j]
  BY DEF ToSet
<1>7. ASSUME NEW i \in DOMAIN (s \o t), NEW j \in DOMAIN (s \o t), (s \o t)[i] = (s \o t)[j] PROVE i = j
  <2>1. CASE i \in DOMAIN s /\ (s \o t)[i] = s[i] /\ j \in DOMAIN s /\ (s \o t)[j] = s[j]
    BY <1>7, <2>1 DEF Once
  <2>2. CASE /\ i \in Nat /\ i - m \in DOMAIN t /\ (s \o t)[i] = t[i - m]
             /\ j \in Nat /\ j - m \in DOMAIN t /\ (s \o t)[j] = t[j - m]
    <3>1. i - m = j - m
      BY <1>7, <2>2 DEF Once
    <3> QED BY <2>2, <3>1
  <2> QED BY <1>5, <1>6, <1>7, <2>1, <2>2
<1> QED BY <1>1, <1>3, <1>7 DEF Once

\* What is written by a stack with one frame more.
LEMMA WritesOnTop ==
    ASSUME NEW f \in GoodFrames, NEW rest \in Seq(GoodFrames)
    PROVE  /\ f.call = "write" => Writes(<<f>> \o rest) = Writes(rest) \cup {f.chunk}
           /\ f.call # "write" => Writes(<<f>> \o rest) = Writes(rest)
           /\ WriteOnce(<<f>> \o rest) <=> WriteOnce(rest) /\ (f.call = "write" => f.chunk \notin Writes(rest))
<1>1. PICK s : s = <<f>> \o rest
  OBVIOUS
<1>2. /\ s \in Seq(GoodFrames) /\ s[1] = f /\ Len(s) = Len(rest) + 1
      /\ \A k \in DOMAIN rest : k + 1 \in DOMAIN s /\ s[k + 1] = rest[k]
  BY <1>1, OnTop
<1>3. /\ 1 \in DOMAIN s /\ \A k \in DOMAIN s : k = 1 \/ (k - 1 \in DOMAIN rest /\ (k - 1) + 1 = k)
      /\ \A k \in DOMAIN rest : k \in Nat /\ k + 1 # 1
      /\ \A k \in DOMAIN s : k \in Nat
  BY <1>2, LenProperties
<1>4. \A k \in DOMAIN s : k = 1 \/ \E j \in DOMAIN rest : k = j + 1 /\ s[k] = rest[j]
  BY <1>2, <1>3
<1>5. \A x : x \in Writes(s) <=> (f.call = "write" /\ x = f.chunk) \/ x \in Writes(rest)
  <2>1. ASSUME NEW x \in Writes(s) PROVE (f.call = "write" /\ x = f.chunk) \/ x \in Writes(rest)
    <3>1. PICK k \in DOMAIN s : s[k].call = "write" /\ x = s[k].chunk
      BY DEF Writes
    <3> QED BY <1>2, <1>4, <3>1 DEF Writes
  <2>2. ASSUME NEW x \in Writes(rest) PROVE x \in Writes(s)
    <3>1. PICK k \in DOMAIN rest : rest[k].call = "write" /\ x = rest[k].chunk
      BY DEF Writes
    <3> QED BY <1>2, <3>1 DEF Writes
  <2>3. f.call = "write" => f.chunk \in Writes(s)
    BY <1>2, <1>3 DEF Writes
  <2> QED BY <2>1, <2>2, <2>3
<1>6. ASSUME WriteOnce(s) PROVE WriteOnce(rest) /\ (f.call = "write" => f.chunk \notin Writes(rest))
  <2>1. ASSUME NEW j \in DOMAIN rest, NEW k \in DOMAIN rest,
               rest[j].call = "write" /\ rest[k].call = "write" /\ rest[j].chunk = rest[k].chunk
        PROVE  j = k
    <3>1. j + 1 = k + 1
      BY <1>2, <1>6, <2>1 DEF WriteOnce
    <3> QED BY <1>3, <3>1
  <2>2. ASSUME f.call = "write", NEW k \in DOMAIN rest, rest[k].call = "write"
        PROVE  rest[k].chunk # f.chunk
    BY <1>2, <1>3, <1>6, <2>2 DEF WriteOnce
  <2> QED BY <2>1, <2>2 DEF WriteOnce, Writes
<1>7. ASSUME WriteOnce(rest), f.call = "write" => f.chunk \notin Writes(rest) PROVE WriteOnce(s)
  <2> SUFFICES ASSUME NEW j \in DOMAIN s, NEW k \in DOMAIN s,
                      s[j].call = "write" /\ s[k].call = "write" /\ s[j].chunk = s[k].chunk
               PROVE  j = k
    BY DEF WriteOnce
  <2>1. CASE j = 1 /\ k # 1
    BY <1>2, <1>4, <1>7, <2>1 DEF Writes
  <2>2. CASE j # 1 /\ k = 1
    BY <1>2, <1>4, <1>7, <2>2 DEF Writes
  <2>3. CASE j # 1 /\ k # 1
    <3>1. PICK a \in DOMAIN rest, c \in DOMAIN rest : j = a + 1 /\ k = c + 1 /\ s[j] = rest[a] /\ s[k] = rest[c]
      BY <1>4, <2>3
    <3>2. a = c
      BY <1>7, <3>1 DEF WriteOnce
    <3> QED BY <3>1, <3>2
  <2> QED BY <2>1, <2>2, <2>3
<1> QED BY <1>1, <1>5, <1>6, <1>7

LEMMA WritesBelow ==
    ASSUME NEW s \in Seq(GoodFrames), s # <<>>
    PROVE  /\ Head(s) \in GoodFrames /\ Tail(s) \in Seq(GoodFrames)
           /\ Head(s).call = "write" => Writes(s) = Writes(Tail(s)) \cup {Head(s).chunk}
           /\ Head(s).call # "write" => Writes(s) = Writes(Tail(s))
           /\ WriteOnce(s) <=> WriteOnce(Tail(s)) /\ (Head(s).call = "write" => Head(s).chunk \notin Writes(Tail(s)))
<1>1. Head(s) \in GoodFrames /\ Tail(s) \in Seq(GoodFrames)
  BY Below
<1>2. s = <<Head(s)>> \o Tail(s)
  OBVIOUS
<1> QED BY <1>1, <1>2, WritesOnTop

-----------------------------------------------------------------------------
(* Chunks change their place.                                              *)

\* The next chunk is pushed.
LEMMA PushPlaces ==
    ASSUME NEW b \in Seq(Nat), NEW d, NEW r, NEW s, NEW n \in Nat, Placed(b, d, r, s, n, {})
    PROVE  Placed(Append(b, n + 1), d, r, s, n + 1, {})
<1>1. n + 1 \in Nat /\ n + 1 \notin 1 .. n /\ 1 .. n + 1 = 1 .. n \cup {n + 1}
  OBVIOUS
<1>2. n + 1 \notin ToSet(b) \cup ToSet(d) \cup ToSet(r) \cup Writes(s)
  BY <1>1 DEF Placed
<1>3. ToSet(Append(b, n + 1)) = ToSet(b) \cup {n + 1}
  BY <1>1, Elements
<1>4. Once(Append(b, n + 1))
  BY <1>1, <1>2, OnceAppend DEF Placed
<1>5. PICK m, a, M, N : m = n + 1 /\ a = Append(b, n + 1) /\ M = 1 .. n /\ N = 1 .. n + 1
  OBVIOUS
<1>6. ToSet(a) = ToSet(b) \cup {m} /\ N = M \cup {m} /\ Once(a)
  BY <1>1, <1>3, <1>4, <1>5
<1>7. Placed(a, d, r, s, m, {})
  BY <1>2, <1>5, <1>6 DEF Placed
<1> QED BY <1>5, <1>7

\* The first chunk is taken out of the buffer.
LEMMA TakePlaces ==
    ASSUME NEW b \in Seq(Nat), b # <<>>, NEW d, NEW r, NEW s, NEW n, Placed(b, d, r, s, n, {})
    PROVE  Placed(Tail(b), d, r, s, n, {Head(b)})
<1>1. ToSet(b) = {Head(b)} \cup ToSet(Tail(b)) /\ Once(Tail(b)) /\ Head(b) \notin ToSet(Tail(b))
  BY Elements, OnceTail DEF Placed
<1>2. PICK a, x : a = Tail(b) /\ x = Head(b)
  OBVIOUS
<1>3. Placed(a, d, r, s, n, {x})
  BY <1>1, <1>2 DEF Placed
<1> QED BY <1>2, <1>3

\* It is returned by read().
LEMMA ReadPlaces ==
    ASSUME NEW r \in Seq(Nat), NEW x \in Nat, NEW b, NEW d, NEW s, NEW n, Placed(b, d, r, s, n, {x})
    PROVE  Placed(b, d, Append(r, x), s, n, {})
<1>1. x \notin ToSet(r) /\ Once(r)
  BY DEF Placed
<1>2. ToSet(Append(r, x)) = ToSet(r) \cup {x} /\ Once(Append(r, x))
  BY <1>1, Elements, OnceAppend
<1>3. PICK a : a = Append(r, x)
  OBVIOUS
<1>4. Placed(b, d, a, s, n, {})
  BY <1>2, <1>3 DEF Placed
<1> QED BY <1>3, <1>4

\* A call is back, and the chunk it was given, if it was one of a destination,
\* is in hand again.
LEMMA ReturnPlaces ==
    ASSUME NEW s \in Seq(GoodFrames), s # <<>>, NEW b, NEW d, NEW r, NEW n, Placed(b, d, r, s, n, {})
    PROVE  /\ Head(s).call = "write" => Placed(b, d, r, Tail(s), n, {Head(s).chunk})
           /\ Head(s).call # "write" => Placed(b, d, r, Tail(s), n, {})
<1>1. PICK f, t : f = Head(s) /\ t = Tail(s)
  OBVIOUS
<1>2. /\ f.call = "write" => Writes(s) = Writes(t) \cup {f.chunk}
      /\ f.call # "write" => Writes(s) = Writes(t)
      /\ WriteOnce(s) <=> WriteOnce(t) /\ (f.call = "write" => f.chunk \notin Writes(t))
  BY <1>1, WritesBelow
<1>3. f.call = "write" => Placed(b, d, r, t, n, {f.chunk})
  BY <1>2 DEF Placed
<1>4. f.call # "write" => Placed(b, d, r, t, n, {})
  BY <1>2 DEF Placed
<1> QED BY <1>1, <1>3, <1>4

\* Script is called, and is given what is in hand, if it is given a chunk.
LEMMA CallPlaces ==
    ASSUME NEW f \in GoodFrames, NEW rest \in Seq(GoodFrames), CallOut(f, rest), data \in Seq(Nat),
           NEW b, NEW r, NEW n, NEW X, Placed(b, data, r, rest, n, X),
           f.call \in {"write", "data"} => f.chunk \in Nat /\ X = {f.chunk},
           f.call \notin {"write", "data"} => X = {}
    PROVE  Placed(b, data', r, stack', n, {})
<1>1. stack' = <<f>> \o rest
  BY DEF CallOut
<1>2. /\ f.call = "write" => Writes(stack') = Writes(rest) \cup {f.chunk}
      /\ f.call # "write" => Writes(stack') = Writes(rest)
      /\ WriteOnce(stack') <=> WriteOnce(rest) /\ (f.call = "write" => f.chunk \notin Writes(rest))
  BY <1>1, WritesOnTop
<1>3. CASE f.call = "write"
  <2>1. data' = data /\ X = {f.chunk}
    BY <1>3 DEF CallOut
  <2> QED BY <1>2, <1>3, <2>1 DEF Placed
<1>4. CASE f.call = "data"
  <2>1. data' = Append(data, f.chunk) /\ X = {f.chunk} /\ f.chunk \in Nat
    BY <1>4 DEF CallOut
  <2>2. f.chunk \notin ToSet(data) /\ Once(data)
    BY <2>1 DEF Placed
  <2>3. ToSet(data') = ToSet(data) \cup {f.chunk} /\ Once(data')
    BY <2>1, <2>2, Elements, OnceAppend
  <2> QED BY <1>2, <1>4, <2>1, <2>3 DEF Placed
<1>5. CASE f.call \notin {"write", "data"}
  <2>1. data' = data /\ X = {}
    BY <1>5 DEF CallOut
  <2> QED BY <1>2, <1>5, <2>1 DEF Placed
<1> QED BY <1>3, <1>4, <1>5



\* A function calls no script.
LEMMA DonePlaces ==
    ASSUME NEW rest, NEW b, NEW r, NEW n, Done(rest), Placed(b, data, r, rest, n, {})
    PROVE  Placed(b, data', r, stack', n, {})
<1>1. stack' = rest /\ data' = data
  BY DEF Done, history
<1> QED BY <1>1

\* Nothing that script gets is a chunk.
LEMMA EventPlaces ==
    ASSUME NEW f \in GoodFrames, f.call \notin {"write", "data"}, NEW rest \in Seq(GoodFrames),
           CallOut(f, rest), data \in Seq(Nat), NEW b, NEW r, NEW n, Placed(b, data, r, rest, n, {})
    PROVE  Placed(b, data', r, stack', n, {})
BY CallPlaces

\* 'end' is emitted, or not.
LEMMA EndPlaces ==
    ASSUME NEW op \in Ops, NEW rest \in Seq(GoodFrames), NEW c, EndIfDrained(op, c, rest),
           data \in Seq(Nat), NEW b, NEW r, NEW n, Placed(b, data, r, rest, n, {})
    PROVE  Placed(b, data', r, stack', n, {})
<1>1. CASE CallOut(Frame(op, "end"), rest)
  <2>1. Frame(op, "end") \in GoodFrames /\ Frame(op, "end").call = "end"
    BY FramesGood DEF Frame, Calls
  <2> QED BY <1>1, <2>1, EventPlaces
<1>2. CASE Done(rest)
  BY <1>2, DonePlaces
<1> QED BY <1>1, <1>2 DEF EndIfDrained

\* The head of the drain loop: at most one chunk goes on.
LEMMA LoopPlaces ==
    ASSUME NEW op \in {"push", "pipe", "resume"}, NEW dest \in Dests \cup {NoDest},
           NEW b \in Seq(Chunks), NEW rest \in Seq(GoodFrames), Loop(op, dest, b, rest),
           TypeOK, NEW r, NEW n, Placed(b, data, r, rest, n, {})
    PROVE  Placed(buffer', data', r, stack', n, {})
<1>1. op \in Ops /\ data \in Seq(Nat) /\ b \in Seq(Nat)
  BY ChunksAreNumbers DEF Ops, TypeOK
<1>2. CASE b # <<>> /\ flowing'
  <2>1. PICK f : f = FirstCall(op, dest, Head(b))
    OBVIOUS
  <2>2. buffer' = Tail(b) /\ CallOut(f, rest)
    BY <1>2, <2>1 DEF Loop
  <2>3. Head(b) \in Chunks /\ Head(b) \in Nat
    BY <1>1, <1>2, Below
  <2>4. f \in GoodFrames /\ f.call \in {"write", "data"} /\ f.chunk = Head(b)
    <3>1. f \in GoodFrames
      BY <1>1, <2>1, <2>3, FramesGood DEF TypeOK
    <3> QED BY <2>1, <3>1 DEF FirstCall
  <2>5. Placed(Tail(b), data, r, rest, n, {Head(b)})
    BY <1>1, <1>2, TakePlaces
  <2>6. Placed(Tail(b), data', r, stack', n, {})
    BY <1>1, <2>2, <2>3, <2>4, <2>5, CallPlaces
  <2> QED BY <2>2, <2>6
<1>3. CASE ~(b # <<>> /\ flowing')
  <2>1. buffer' = b /\ (Done(rest) \/ EndIfDrained(op, b, rest))
    BY <1>3 DEF Loop, LoopEnds
  <2>2. Placed(b, data', r, stack', n, {})
    BY <1>1, <2>1, DonePlaces, EndPlaces
  <2> QED BY <2>1, <2>2
<1> QED BY <1>2, <1>3

-----------------------------------------------------------------------------
(* The steps.                                                              *)

LEMMA SequenceTypes ==
    ASSUME IInv
    PROVE  /\ buffer \in Seq(Nat) /\ data \in Seq(Nat) /\ reads \in Seq(Nat)
           /\ buffer \in Seq(Chunks) /\ stack \in Seq(GoodFrames) /\ pushed \in Nat /\ dests \in Seq(Dests)
BY ChunksAreNumbers DEF IInv, TypeOK, FramesOK

LEMMA MethodPlaces ==
    ASSUME IInv, AllPlaced,
           \/ Push \/ PushNull \/ Read \/ Pause \/ Resume \/ UnpipeAll
           \/ \E d \in Dests : Pipe(d) \/ Unpipe(d)
    PROVE  AllPlaced'
<1> USE SequenceTypes
<1>0. /\ "push" \in Ops /\ "read" \in Ops /\ TypeOK
      /\ Placed(buffer, data, reads, stack, pushed, {})
  BY DEF Ops, IInv, AllPlaced
<1>1. CASE Push
  <2>1. PICK n, b : n = pushed + 1 /\ b = Append(buffer, n)
    OBVIOUS
  <2>2. pushed' = n /\ reads' = reads /\ pushed < MaxPushes
    BY <1>1, <2>1 DEF Push
  <2>3. b \in Seq(Chunks)
    <3>1. n \in Chunks
      BY <2>1, <2>2, ReadableAssumption DEF Chunks
    <3> QED BY <2>1, <3>1, AppendProperties
  <2>4. Placed(b, data, reads, stack, n, {})
    BY <1>0, <2>1, PushPlaces
  <2>5. CASE flowing
    <3>1. Loop("push", NoDest, b, stack)
      BY <1>1, <2>1, <2>2, <2>5 DEF Push
    <3>2. Placed(buffer', data', reads, stack', n, {})
      BY <1>0, <2>3, <2>4, <3>1, LoopPlaces
    <3> QED BY <2>2, <3>2 DEF AllPlaced
  <2>6. CASE ~flowing
    <3>1. buffer' = b /\ (Done(stack) \/ CallOut(Frame("push", "readable"), stack))
      BY <1>1, <2>1, <2>2, <2>6 DEF Push
    <3>2. Frame("push", "readable") \in GoodFrames /\ Frame("push", "readable").call = "readable"
      BY FramesGood DEF Frame, Ops, Calls
    <3>3. Placed(b, data', reads, stack', n, {})
      BY <2>4, <3>1, <3>2, DonePlaces, EventPlaces
    <3> QED BY <2>2, <3>1, <3>3 DEF AllPlaced
  <2> QED BY <2>5, <2>6
<1>2. CASE PushNull
  <2>1. EndIfDrained("push", buffer, stack) /\ UNCHANGED <<buffer, pushed, reads>>
    BY <1>2 DEF PushNull
  <2>2. Placed(buffer, data', reads, stack', pushed, {})
    BY <1>0, <2>1, EndPlaces
  <2> QED BY <2>1, <2>2 DEF AllPlaced
<1>3. CASE Read
  <2>1. PICK b, x, r : b = Tail(buffer) /\ x = Head(buffer) /\ r = Append(reads, x)
    OBVIOUS
  <2>2. /\ buffer # <<>> /\ buffer' = b /\ reads' = r /\ pushed' = pushed
        /\ EndIfDrained("read", b, stack)
    BY <1>3, <2>1 DEF Read
  <2>3. Placed(b, data, reads, stack, pushed, {x})
    BY <1>0, <2>1, <2>2, TakePlaces
  <2>4. x \in Nat
    BY <2>1, <2>2, Below
  <2>5. Placed(b, data, r, stack, pushed, {})
    BY <2>1, <2>3, <2>4, ReadPlaces
  <2>6. Placed(b, data', r, stack', pushed, {})
    BY <1>0, <2>2, <2>5, EndPlaces
  <2> QED BY <2>2, <2>6 DEF AllPlaced
<1>4. ASSUME NEW f \in GoodFrames, f.call \notin {"write", "data"}, CallOut(f, stack),
             UNCHANGED <<buffer, reads, pushed>>
      PROVE  AllPlaced'
  <2>1. Placed(buffer, data', reads, stack', pushed, {})
    BY <1>0, <1>4, EventPlaces
  <2> QED BY <1>4, <2>1 DEF AllPlaced
<1>5. CASE Pause
  <2>1. Frame("pause", "pause") \in GoodFrames /\ Frame("pause", "pause").call = "pause"
    BY FramesGood DEF Frame, Ops, Calls
  <2> QED BY <1>4, <1>5, <2>1 DEF Pause
<1>6. CASE Resume
  <2>1. Frame("resume", "resume") \in GoodFrames /\ Frame("resume", "resume").call = "resume"
    BY FramesGood DEF Frame, Ops, Calls
  <2> QED BY <1>4, <1>6, <2>1 DEF Resume
<1>7. ASSUME NEW d \in Dests, Pipe(d) PROVE AllPlaced'
  <2>1. PICK f : f = [Frame("pipe", "pipe") EXCEPT !.dest = d]
    OBVIOUS
  <2>2. Frame("pipe", "pipe") \in GoodFrames
    BY FramesGood DEF Ops, Calls
  <2>3. f \in GoodFrames /\ f.call = "pipe"
    BY <2>1, <2>2 DEF Frame, GoodFrames, Frames
  <2> QED BY <1>4, <1>7, <2>1, <2>3 DEF Pipe
<1>8. ASSUME NEW op \in {"unpipe", "unpipeAll"}, NEW k \in DOMAIN dests, UnpipeFrom(op, k) PROVE AllPlaced'
  <2>1. PICK f : f = [Frame(op, "unpipe") EXCEPT !.dest = dests[k], !.i = k]
    OBVIOUS
  <2>2. dests[k] \in Dests /\ k \in Nat
    BY ElementOfSeq, LenProperties
  <2>3. Frame(op, "unpipe") \in GoodFrames
    BY FramesGood DEF Ops, Calls
  <2>4. f \in GoodFrames /\ f.call = "unpipe"
    BY <2>1, <2>2, <2>3 DEF Frame, GoodFrames, Frames
  <2> QED BY <1>4, <1>8, <2>1, <2>4 DEF UnpipeFrom
<1>9. ASSUME NEW d \in Dests, Unpipe(d) PROVE AllPlaced'
  BY <1>8, <1>9 DEF Unpipe
<1>10. CASE UnpipeAll
  <2>1. 1 \in DOMAIN dests
    BY <1>10, Below DEF UnpipeAll
  <2> QED BY <1>8, <1>10, <2>1 DEF UnpipeAll
<1> QED BY <1>1, <1>2, <1>3, <1>5, <1>6, <1>7, <1>9, <1>10

LEMMA ReturnsPlaces ==
    ASSUME IInv, AllPlaced, Returns
    PROVE  AllPlaced'
<1> USE SequenceTypes
<1>0. /\ stack # <<>> /\ UNCHANGED <<pushed, reads>> /\ TypeOK
      /\ Placed(buffer, data, reads, stack, pushed, {})
  BY DEF Returns, WriteReturns, DataReturns, ResumeReturns, PipeReturns, UnpipeReturns,
         LastCallReturns, Returning, IInv, AllPlaced
<1>1. /\ Top \in GoodFrames /\ Rest \in Seq(GoodFrames)
      /\ Top.call = "write" => Placed(buffer, data, reads, Rest, pushed, {Top.chunk})
      /\ Top.call # "write" => Placed(buffer, data, reads, Rest, pushed, {})
  BY <1>0, ReturnPlaces, WritesBelow DEF Top, Rest
<1>2. Top.dest \in Dests \cup {NoDest} /\ (Top.call = "write" => Top.chunk \in Nat)
  BY <1>1 DEF GoodFrames, Frames, Chunks
<1>3. CASE WriteReturns
  <2>1. Top.call = "write" /\ buffer' = buffer
    BY <1>3 DEF WriteReturns, Returning
  <2>2. PICK f : /\ CallOut(f, Rest)
                 /\ \/ /\ Top.i < Len(dests)
                       /\ f = [Top EXCEPT !.i = @ + 1, !.dest = dests[Top.i + 1]]
                    \/ f = [Top EXCEPT !.call = "data"]
    BY <1>3 DEF WriteReturns
  <2>3. f \in GoodFrames /\ f.call \in {"write", "data"} /\ f.chunk = Top.chunk
    <3>1. CASE Top.i < Len(dests) /\ f = [Top EXCEPT !.i = @ + 1, !.dest = dests[Top.i + 1]]
      <4>1. Top.i \in Nat
        BY <1>1 DEF GoodFrames, Frames
      <4>2. Top.i + 1 \in 1 .. Len(dests)
        BY <3>1, <4>1, LenProperties
      <4>3. dests[Top.i + 1] \in Dests /\ Top.i + 1 \in Nat
        BY <4>1, <4>2, ElementOfSeq
      <4> QED BY <1>1, <2>1, <3>1, <4>3 DEF GoodFrames, Frames
    <3>2. CASE f = [Top EXCEPT !.call = "data"]
      BY <1>1, <3>2 DEF GoodFrames, Frames, Calls
    <3> QED BY <2>2, <3>1, <3>2
  <2>4. Placed(buffer, data', reads, stack', pushed, {})
    BY <1>1, <1>2, <2>1, <2>2, <2>3, CallPlaces
  <2> QED BY <1>0, <2>1, <2>4 DEF AllPlaced
<1>4. CASE DataReturns \/ ResumeReturns
  <2>1. Top.op \in {"push", "pipe", "resume"} /\ Top.call # "write" /\ Loop(Top.op, Top.dest, buffer, Rest)
    BY <1>4 DEF DataReturns, ResumeReturns, Returning
  <2>2. Placed(buffer', data', reads, stack', pushed, {})
    BY <1>0, <1>1, <1>2, <2>1, LoopPlaces
  <2> QED BY <1>0, <2>2 DEF AllPlaced
<1>5. ASSUME Top.call # "write", buffer' = buffer,
             Done(Rest) \/ \E f \in GoodFrames : f.call \notin {"write", "data"} /\ CallOut(f, Rest)
      PROVE  AllPlaced'
  <2>1. Placed(buffer, data', reads, stack', pushed, {})
    BY <1>1, <1>5, DonePlaces, EventPlaces
  <2> QED BY <1>0, <1>5, <2>1 DEF AllPlaced
<1>6. CASE PipeReturns
  <2>1. [Top EXCEPT !.call = "resume"] \in GoodFrames /\ [Top EXCEPT !.call = "resume"].call = "resume"
    BY <1>1 DEF GoodFrames, Frames, Calls
  <2>2. Top.call = "pipe" /\ buffer' = buffer /\ (Done(Rest) \/ CallOut([Top EXCEPT !.call = "resume"], Rest))
    BY <1>6 DEF PipeReturns, Returning
  <2> QED BY <1>5, <2>1, <2>2
<1>7. CASE UnpipeReturns
  <2>1. Top.call = "unpipe" /\ buffer' = buffer
    BY <1>7 DEF UnpipeReturns, Returning, flags
  <2>2. CASE Top.i < Len(dests) /\ CallOut([Top EXCEPT !.i = @ + 1, !.dest = dests[Top.i + 1]], Rest)
    <3>1. PICK f : f = [Top EXCEPT !.i = @ + 1, !.dest = dests[Top.i + 1]]
      OBVIOUS
    <3>2. Top.i \in Nat
      BY <1>1 DEF GoodFrames, Frames
    <3>3. Top.i + 1 \in 1 .. Len(dests)
      BY <2>2, <3>2, LenProperties
    <3>4. dests[Top.i + 1] \in Dests /\ Top.i + 1 \in Nat
      BY <3>2, <3>3, ElementOfSeq
    <3>5. f \in GoodFrames /\ f.call = "unpipe"
      BY <1>1, <2>1, <3>1, <3>4 DEF GoodFrames, Frames
    <3> QED BY <1>5, <2>1, <2>2, <3>1, <3>5
  <2>3. CASE Done(Rest)
    BY <1>5, <2>1, <2>3
  <2> QED BY <1>7, <2>2, <2>3 DEF UnpipeReturns
<1>8. CASE LastCallReturns
  BY <1>5, <1>8 DEF LastCallReturns
<1> QED BY <1>3, <1>4, <1>6, <1>7, <1>8 DEF Returns

LEMMA InitPlaced == Init => AllPlaced
<1> SUFFICES ASSUME Init PROVE AllPlaced
  OBVIOUS
<1>1. buffer = <<>> /\ data = <<>> /\ reads = <<>> /\ stack = <<>> /\ pushed = 0
  BY DEF Init
<1>2. DOMAIN (<<>>) = {} /\ 1 .. 0 = {}
  OBVIOUS
<1>3. ToSet(<<>>) = {} /\ Writes(<<>>) = {} /\ Once(<<>>) /\ WriteOnce(<<>>)
  BY <1>2 DEF ToSet, Writes, Once, WriteOnce
<1> QED BY <1>1, <1>2, <1>3 DEF AllPlaced, Placed

LEMMA NextPlaced == IInv /\ AllPlaced /\ [Next]_vars => AllPlaced'
<1>1. ASSUME UNCHANGED vars, AllPlaced PROVE AllPlaced'
  BY <1>1 DEF vars, AllPlaced
<1> QED BY <1>1, MethodPlaces, ReturnsPlaces DEF Next

\* No chunk is lost or emitted twice, although the script that is called for
\* one may push, read, pipe or start the drain loop again.
THEOREM ChunksConserved == Spec => []Conserved
<1>1. ASSUME IInv, AllPlaced PROVE Conserved
  <2>1. buffer \in Seq(Nat) /\ data \in Seq(Nat) /\ reads \in Seq(Nat)
    BY <1>1, SequenceTypes
  <2>2. PICK s : s = buffer \o data
    OBVIOUS
  <2>3. s \in Seq(Nat) /\ Once(s) /\ ToSet(s) = ToSet(buffer) \cup ToSet(data)
    BY <1>1, <2>1, <2>2, OnceConcat DEF AllPlaced, Placed
  <2>4. PICK t : t = s \o reads
    OBVIOUS
  <2>5. ToSet(s) \cap ToSet(reads) = {} /\ Once(reads)
    BY <1>1, <2>3 DEF AllPlaced, Placed
  <2>6. t \in Seq(Nat) /\ Once(t) /\ ToSet(t) = ToSet(buffer) \cup ToSet(data) \cup ToSet(reads)
    BY <2>1, <2>3, <2>4, <2>5, OnceConcat
  <2>7. t = buffer \o data \o reads
    BY <2>2, <2>4
  <2>8. IsInjective(buffer \o data \o reads)
    BY <2>6, <2>7 DEF IsInjective, Once
  <2>9. InFlight = Writes(stack)
    BY DEF InFlight, Writes
  <2>10. /\ InFlight \cap ToSet(t) = {}
         /\ InFlight \cup ToSet(t) = 1 .. pushed
    BY <1>1, <2>6, <2>9 DEF AllPlaced, Placed
  <2> QED BY <2>7, <2>8, <2>10 DEF Conserved
<1> QED BY <1>1, InitIInv, NextIInv, InitPlaced, NextPlaced, PTL DEF Spec

=============================================================================
