---------------------------- MODULE ReadableStream ----------------------------
(***************************************************************************)
(* A Readable of src/node/stream/readable.c.  Every event is emitted       *)
(* synchronously in the middle of the C function, and so is the write of a *)
(* piped destination: the script that is called there may call any method  *)
(* of the same stream before the C function goes on with what it reads     *)
(* from the structure then.                                                *)
(*                                                                         *)
(* The C code between two such calls is one step.  The state between steps *)
(* is therefore that of some script function running, inside the calls on  *)
(* the stack.  A chunk is its number in the order of the pushes.           *)
(***************************************************************************)
EXTENDS Integers, SequencesExt

CONSTANTS
    Dests,       \* destinations of pipe()
    NoDest,      \* a call that has no destination
    MaxPushes,   \* bound: chunks pushed
    MaxPipes,    \* bound: length of pipe_destinations
    MaxDepth     \* bound: nesting of calls

ASSUME ReadableAssumption ==
    /\ NoDest \notin Dests
    /\ {MaxPushes, MaxPipes, MaxDepth} \subseteq Nat

VARIABLES
    buffer,           \* buffered_data
    flowing,
    ended,            \* push(null) was called
    endedEmitted,     \* ended_emitted
    readableEmitted,  \* readable_emitted
    dests,            \* pipe_destinations
    refs,             \* refs[d]: references to d the stream holds
    stack,            \* the calls into script under way, innermost first
    pushed,           \* number of chunks pushed (history)
    eof,              \* how many were pushed before push(null) (history)
    data,             \* chunks emitted as 'data', in order (history)
    reads,            \* chunks returned by read(), in order (history)
    piped,            \* pipe() was called (history)
    ends              \* how often 'end' was emitted (history)

flags == <<flowing, ended, endedEmitted, readableEmitted>>
pipes == <<dests, refs>>
history == <<data, ends>>
vars == <<buffer, flowing, ended, endedEmitted, readableEmitted, dests, refs,
          stack, pushed, eof, data, reads, piped, ends>>

Chunks == 1 .. MaxPushes
Ops == {"push", "read", "pause", "resume", "pipe", "unpipe", "unpipeAll"}
Calls == {"write", "data", "end", "readable", "pause", "resume", "pipe", "unpipe"}
Frames == [op : Ops, call : Calls, chunk : {0} \cup Chunks, i : Nat,
           dest : Dests \cup {NoDest}]

\* The flags and the array are those of a stream, and the stack is bounded.
TypeOK ==
    /\ buffer \in Seq(Chunks) /\ data \in Seq(Chunks) /\ reads \in Seq(Chunks)
    /\ flowing \in BOOLEAN /\ ended \in BOOLEAN
    /\ endedEmitted \in BOOLEAN /\ readableEmitted \in BOOLEAN
    /\ endedEmitted => ended
    /\ dests \in Seq(Dests) /\ refs \in [Dests -> Int]
    /\ stack \in Seq(Frames) /\ Len(stack) <= MaxDepth
    /\ pushed \in 0 .. MaxPushes /\ eof \in 0 .. MaxPushes
    /\ piped \in BOOLEAN /\ ends \in Nat

Init ==
    /\ buffer = <<>> /\ dests = <<>> /\ stack = <<>>
    /\ flowing = FALSE /\ ended = FALSE
    /\ endedEmitted = FALSE /\ readableEmitted = FALSE
    /\ refs = [d \in Dests |-> 0]
    /\ pushed = 0 /\ eof = 0 /\ ends = 0
    /\ data = <<>> /\ reads = <<>> /\ piped = FALSE

-----------------------------------------------------------------------------
(* Calling script from C, and going on afterwards.                         *)

Frame(op, call) == [op |-> op, call |-> call, chunk |-> 0, i |-> 0, dest |-> NoDest]

\* stream_emit, or a call of a destination's write: script runs in frame f.
CallOut(f, rest) ==
    /\ stack' = <<f>> \o rest
    /\ data' = IF f.call = "data" THEN Append(data, f.chunk) ELSE data
    /\ ends' = IF f.call = "end" THEN ends + 1 ELSE ends

Done(rest) == stack' = rest /\ UNCHANGED history

\* Mutants of EndIfDrained: 'end' is emitted only while flowing, or without
\* push(null).
EndIfFlowing(op, b, rest) ==
    IF ended' /\ flowing /\ b = <<>> /\ ~endedEmitted
    THEN endedEmitted' = TRUE /\ CallOut(Frame(op, "end"), rest)
    ELSE UNCHANGED endedEmitted /\ Done(rest)

EndIfEnded(op, b, rest) ==
    IF ended' /\ ~endedEmitted
    THEN endedEmitted' = TRUE /\ CallOut(Frame(op, "end"), rest)
    ELSE UNCHANGED endedEmitted /\ Done(rest)

\* 'end' is emitted when the stream has ended and the buffer b is empty.
EndIfDrained(op, b, rest) ==
    IF ended' /\ b = <<>> /\ ~endedEmitted
    THEN endedEmitted' = TRUE /\ CallOut(Frame(op, "end"), rest)
    ELSE UNCHANGED endedEmitted /\ Done(rest)

\* What is called first with a chunk that leaves the buffer: push() writes to
\* every destination, pipe() to its own, resume() to none.
FirstCall(op, dest, c) ==
    CASE op = "push" /\ dests # <<>> -> [op |-> op, call |-> "write", chunk |-> c,
                                         i |-> 1, dest |-> dests[1]]
      [] op = "pipe" -> [op |-> op, call |-> "write", chunk |-> c, i |-> 0, dest |-> dest]
      [] OTHER       -> [op |-> op, call |-> "data", chunk |-> c, i |-> 0, dest |-> dest]

\* The head of the drain loop, with b in the buffer.  Only push() and resume()
\* look for the end afterwards.
LoopEnds(op, b, rest) ==
    /\ buffer' = b
    /\ IF op = "pipe"
       THEN UNCHANGED endedEmitted /\ Done(rest)
       ELSE EndIfDrained(op, b, rest)

\* Mutants of Loop: the chunk stays in the buffer, or the newest goes first.
LoopKeeps(op, dest, b, rest) ==
    IF b # <<>> /\ flowing'
    THEN /\ buffer' = b
         /\ CallOut(FirstCall(op, dest, Head(b)), rest)
         /\ UNCHANGED endedEmitted
    ELSE LoopEnds(op, b, rest)

LoopNewest(op, dest, b, rest) ==
    IF b # <<>> /\ flowing'
    THEN /\ buffer' = Front(b)
         /\ CallOut(FirstCall(op, dest, Last(b)), rest)
         /\ UNCHANGED endedEmitted
    ELSE LoopEnds(op, b, rest)

Loop(op, dest, b, rest) ==
    IF b # <<>> /\ flowing'
    THEN /\ buffer' = Tail(b)
         /\ CallOut(FirstCall(op, dest, Head(b)), rest)
         /\ UNCHANGED endedEmitted
    ELSE LoopEnds(op, b, rest)

-----------------------------------------------------------------------------
(* The methods.  A reference given back once too often ends the model: what *)
(* the program does then is undefined.                                      *)

ScriptCalls == Len(stack) < MaxDepth /\ \A d \in Dests : refs[d] >= 0

Push ==
    /\ ScriptCalls
    /\ pushed < MaxPushes
    /\ pushed' = pushed + 1
    /\ UNCHANGED <<flowing, ended, pipes, eof, reads, piped>>
    /\ LET b == Append(buffer, pushed')
       IN  IF flowing
           THEN UNCHANGED readableEmitted /\ Loop("push", NoDest, b, stack)
           ELSE /\ buffer' = b
                /\ readableEmitted' = TRUE
                /\ UNCHANGED endedEmitted
                /\ IF readableEmitted THEN Done(stack)
                   ELSE CallOut(Frame("push", "readable"), stack)

PushNull ==
    /\ ScriptCalls
    /\ ended' = TRUE
    /\ eof' = IF ended THEN eof ELSE pushed
    /\ EndIfDrained("push", buffer, stack)
    /\ UNCHANGED <<buffer, flowing, readableEmitted, pipes, pushed, reads, piped>>

\* read() takes one chunk; with an empty buffer it returns null.
Read ==
    /\ ScriptCalls
    /\ buffer # <<>>
    /\ buffer' = Tail(buffer)
    /\ reads' = Append(reads, Head(buffer))
    /\ readableEmitted' = FALSE
    /\ UNCHANGED <<flowing, ended, pipes, pushed, eof, piped>>
    /\ EndIfDrained("read", Tail(buffer), stack)

Pause ==
    /\ ScriptCalls
    /\ flowing
    /\ flowing' = FALSE
    /\ CallOut(Frame("pause", "pause"), stack)
    /\ UNCHANGED <<buffer, ended, endedEmitted, readableEmitted, pipes, pushed, eof, reads, piped>>

Resume ==
    /\ ScriptCalls
    /\ ~flowing
    /\ flowing' = TRUE
    /\ CallOut(Frame("resume", "resume"), stack)
    /\ UNCHANGED <<buffer, ended, endedEmitted, readableEmitted, pipes, pushed, eof, reads, piped>>

Pipe(d) ==
    /\ ScriptCalls
    /\ Len(dests) < MaxPipes
    /\ dests' = Append(dests, d)
    /\ refs' = [refs EXCEPT ![d] = @ + 1]
    /\ CallOut([Frame("pipe", "pipe") EXCEPT !.dest = d], stack)
    /\ piped' = TRUE
    /\ UNCHANGED <<buffer, flags, pushed, eof, reads>>

\* unpipe(d) finds the first entry, unpipe() walks over all.
UnpipeFrom(op, k) ==
    /\ CallOut([Frame(op, "unpipe") EXCEPT !.dest = dests[k], !.i = k], stack)
    /\ UNCHANGED <<buffer, flags, pipes, pushed, eof, reads, piped>>

Unpipe(d) ==
    /\ ScriptCalls
    /\ \E k \in DOMAIN dests :
          /\ dests[k] = d /\ \A j \in 1 .. k - 1 : dests[j] # d
          /\ UnpipeFrom("unpipe", k)

UnpipeAll ==
    /\ ScriptCalls
    /\ dests # <<>>
    /\ UnpipeFrom("unpipeAll", 1)

-----------------------------------------------------------------------------
(* The script function is back: the C function goes on to its next call.   *)

Top == Head(stack)
Rest == Tail(stack)
Returning(op, call) == stack # <<>> /\ Top.op \in op /\ Top.call = call

WriteReturns ==
    /\ Returning({"push", "pipe"}, "write")
    /\ IF Top.op = "push" /\ Top.i < Len(dests)
       THEN CallOut([Top EXCEPT !.i = @ + 1, !.dest = dests[Top.i + 1]], Rest)
       ELSE CallOut([Top EXCEPT !.call = "data"], Rest)
    /\ UNCHANGED <<buffer, flags, pipes>>

\* Mutant of DataReturns: the loop is left after one chunk.
DataOnce ==
    /\ Returning({"push", "pipe", "resume"}, "data")
    /\ UNCHANGED <<flowing, ended, readableEmitted, pipes>>
    /\ LoopEnds(Top.op, buffer, Rest)

DataReturns ==
    /\ Returning({"push", "pipe", "resume"}, "data")
    /\ UNCHANGED <<flowing, ended, readableEmitted, pipes>>
    /\ Loop(Top.op, Top.dest, buffer, Rest)

ResumeReturns ==
    /\ Returning({"pipe", "resume"}, "resume")
    /\ UNCHANGED <<flowing, ended, readableEmitted, pipes>>
    /\ Loop(Top.op, Top.dest, buffer, Rest)

\* pipe() switches to flowing mode.
PipeReturns ==
    /\ Returning({"pipe"}, "pipe")
    /\ flowing' = TRUE
    /\ IF flowing THEN Done(Rest) ELSE CallOut([Top EXCEPT !.call = "resume"], Rest)
    /\ UNCHANGED <<buffer, ended, endedEmitted, readableEmitted, pipes>>

\* unpipe() frees the reference; unpipe(d) then closes the gap, at the place
\* where it found the entry before the listeners ran.
UnpipeReturns ==
    /\ Returning({"unpipe", "unpipeAll"}, "unpipe")
    /\ refs' = [refs EXCEPT ![Top.dest] = @ - 1]
    /\ \/ /\ Top.op = "unpipeAll" /\ Top.i < Len(dests)
          /\ CallOut([Top EXCEPT !.i = @ + 1, !.dest = dests[Top.i + 1]], Rest)
          /\ UNCHANGED dests
       \/ /\ Top.op = "unpipeAll" /\ Top.i >= Len(dests)
          /\ dests' = <<>>
          /\ Done(Rest)
       \/ /\ Top.op = "unpipe"
          /\ dests' = IF Top.i <= Len(dests) THEN RemoveAt(dests, Top.i)
                      ELSE SubSeq(dests, 1, Len(dests) - 1)
          /\ Done(Rest)
    /\ UNCHANGED <<buffer, flags>>

\* The last call of a function.
LastCallReturns ==
    /\ stack # <<>>
    /\ Top.call \in {"end", "readable", "pause"}
    /\ Done(Rest)
    /\ UNCHANGED <<buffer, flags, pipes>>

Returns ==
    /\ \A d \in Dests : refs[d] >= 0
    /\ \/ WriteReturns \/ DataReturns \/ ResumeReturns \/ PipeReturns
       \/ UnpipeReturns \/ LastCallReturns
    /\ UNCHANGED <<pushed, eof, reads, piped>>

Next ==
    \/ Push \/ PushNull \/ Read \/ Pause \/ Resume
    \/ \E d \in Dests : Pipe(d) \/ Unpipe(d)
    \/ UnpipeAll
    \/ Returns

Spec == Init /\ [][Next]_vars

-----------------------------------------------------------------------------
(* Properties.                                                             *)

\* A chunk that left the buffer for the destinations and is not yet 'data'.
InFlight == {stack[k].chunk : k \in {j \in DOMAIN stack : stack[j].call = "write"}}

\* Each chunk is at exactly one place: in the buffer, emitted as 'data', read,
\* or with a destination on its way to being emitted, however the calls that
\* drain the buffer are nested.
Conserved ==
    /\ IsInjective(buffer \o data \o reads)
    /\ InFlight \cap ToSet(buffer \o data \o reads) = {}
    /\ InFlight \cup ToSet(buffer \o data \o reads) = 1 .. pushed

\* A stream in flowing mode leaves nothing in its buffer once the last call is
\* back: no later event would emit it.
FlowingDrained == stack = <<>> /\ flowing => buffer = <<>>

\* 'end' is emitted at most once, from whichever of the calls.
EndOnce == ends <= 1

\* When the stream has ended and its buffer is empty 'end' has been emitted:
\* "Emit when no more data".  pipe() drains the buffer without looking for the
\* end, so a stream that was piped may never emit it.
EndReached ==
    ~piped /\ stack = <<>> /\ ended /\ buffer = <<>> => endedEmitted

\* 'end' comes after every chunk pushed before push(null), unless one of them
\* is on its way to a destination.
EndLast == ends > 0 /\ ~piped => 1 .. eof \subseteq ToSet(data \o reads)

\* 'data' events come in the order of the pushes: "Ensure correct event order",
\* unless a destination's write has pushed before the chunk it was given was
\* emitted.
DataInOrder ==
    ~piped => \A j, k \in DOMAIN data : j < k => data[j] < data[k]
=============================================================================
