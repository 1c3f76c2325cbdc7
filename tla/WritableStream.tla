---------------------------- MODULE WritableStream ----------------------------
(***************************************************************************)
(* A Writable of src/node/stream/writable.c: write, cork, uncork, end and  *)
(* destroy.  Write callbacks and events are called in the middle of the C  *)
(* function, and the script may call the stream again there.  As in        *)
(* ReadableStream the C code between two such calls is one step.           *)
(*                                                                         *)
(* There is no _write and no sink: a chunk that is accepted stays in the   *)
(* buffer, so only the length of the buffer is kept.  A callback queued    *)
(* while the stream is corked is freed after it has been called; to call   *)
(* it again is undefined, and the model stops there.                       *)
(***************************************************************************)
EXTENDS Naturals, SequencesExt, FiniteSetsExt

CONSTANTS
    Callbacks,      \* the callbacks of write() and end(), each given once
    NoCallback,     \* a call without one
    HighWaterMark,  \* options.highWaterMark
    MaxLength,      \* bound: chunks accepted
    MaxCorks,       \* bound: nesting of cork()
    MaxDepth        \* bound: nesting of calls into script

ASSUME WritableAssumption ==
    /\ NoCallback \notin Callbacks
    /\ {HighWaterMark, MaxLength, MaxCorks, MaxDepth} \subseteq Nat

VARIABLES
    length,      \* buffer_size
    ending,      \* writable_ended; writable is its negation
    finished,    \* writable_finished
    destroyed,
    corked,      \* writable_corked
    needDrain,   \* need_drain
    queue,       \* write_callbacks[0 .. write_callback_count - 1]
    stack,       \* the calls into script under way, innermost first
    given,       \* callbacks of calls that were accepted (history)
    calls        \* calls[c]: how often callback c was called (history)

vars == <<length, ending, finished, destroyed, corked, needDrain, queue, stack,
          given, calls>>

Callback == Callbacks \cup {NoCallback}
\* op: the C function; at: what it has called; i: its index into the queue.
Frames == [op : {"write", "endWrite", "uncork", "end", "destroy"},
           at : {"callback", "queued", "error", "finish", "close"},
           i : Nat]

\* The fields hold what the structure can hold.
TypeOK ==
    /\ length \in 0 .. MaxLength
    /\ {ending, finished, destroyed, needDrain} \subseteq BOOLEAN
    /\ finished => ending
    /\ corked \in 0 .. MaxCorks
    /\ queue \in Seq(Callbacks)
    /\ stack \in Seq(Frames)
    /\ given \subseteq Callbacks
    /\ calls \in [Callbacks -> Nat]

Init ==
    /\ length = 0 /\ corked = 0 /\ queue = <<>> /\ stack = <<>> /\ given = {}
    /\ ending = FALSE /\ finished = FALSE /\ destroyed = FALSE
    /\ needDrain = FALSE
    /\ calls = [c \in Callbacks |-> 0]

-----------------------------------------------------------------------------
(* Calling script from C.                                                  *)

Frame(op, at) == [op |-> op, at |-> at, i |-> 0]

Emit(op, event, rest) ==
    /\ stack' = <<Frame(op, event)>> \o rest
    /\ UNCHANGED calls

Invoke(c, f, rest) ==
    /\ stack' = <<f>> \o rest
    /\ calls' = [calls EXCEPT ![c] = @ + 1]

Done(rest) == stack' = rest /\ UNCHANGED calls

\* After the callbacks, end() emits 'finish'.
Processed(op, rest) ==
    IF op = "end"
    THEN finished' = TRUE /\ Emit("end", "finish", rest)
    ELSE Done(rest) /\ UNCHANGED finished

\* Mutant of Process: the loop stops before the last callback.
ProcessButLast(op, q, k, rest) ==
    IF k < Len(q)
    THEN /\ Invoke(q[k], [op |-> op, at |-> "queued", i |-> k], rest)
         /\ queue' = q
         /\ UNCHANGED finished
    ELSE queue' = <<>> /\ Processed(op, rest)

\* The loop of process_write_callbacks over the queue q, from index k on.  The
\* queue keeps its entries, and may grow, until the loop is over.
Process(op, q, k, rest) ==
    IF k <= Len(q)
    THEN /\ Invoke(q[k], [op |-> op, at |-> "queued", i |-> k], rest)
         /\ queue' = q
         /\ UNCHANGED finished
    ELSE queue' = <<>> /\ Processed(op, rest)

\* end() closes the stream before it calls the pending callbacks.
Close(q, rest) == ending' = TRUE /\ Process("end", q, 1, rest)

-----------------------------------------------------------------------------
(* The methods.                                                            *)

Defined == \A c \in Callbacks : calls[c] <= 1
ScriptCalls == Defined /\ Len(stack) < MaxDepth
Accept(c) == c \notin given /\ given' = given \cup ({c} \ {NoCallback})
Queued(c) == IF c = NoCallback THEN queue ELSE Append(queue, c)
Keep == length < MaxLength /\ length' = length + 1
Open == ScriptCalls /\ ~ending /\ ~destroyed

\* A corked stream keeps the chunk and the callback.
WriteCorked(c) ==
    /\ Open /\ corked > 0
    /\ Accept(c) /\ Keep
    /\ queue' = Queued(c)
    /\ Done(stack)
    /\ UNCHANGED <<ending, finished, destroyed, corked, needDrain>>

\* write() otherwise calls back at once; so does the write of end(chunk).
WriteThrough(op, c) ==
    /\ Keep
    /\ needDrain' = (needDrain \/ length' > HighWaterMark)
    /\ Invoke(c, Frame(op, "callback"), stack)

Write(c) ==
    /\ Open /\ corked = 0
    /\ Accept(c)
    /\ IF c = NoCallback
       THEN /\ Keep /\ Done(stack)
            /\ needDrain' = (needDrain \/ length' > HighWaterMark)
       ELSE WriteThrough("write", c)
    /\ UNCHANGED <<ending, finished, destroyed, corked, queue>>

\* After end() a write only emits 'error'; on a destroyed stream it does nothing.
WriteAfterEnd ==
    /\ ScriptCalls /\ ending
    /\ Emit("write", "error", stack)
    /\ UNCHANGED <<length, ending, finished, destroyed, corked, needDrain, queue, given>>

Cork ==
    /\ ScriptCalls
    /\ corked < MaxCorks
    /\ corked' = corked + 1
    /\ Done(stack)
    /\ UNCHANGED <<length, ending, finished, destroyed, needDrain, queue, given>>

\* Mutant of Uncork: only the outermost of nested corks is looked at.
UncorkNested ==
    /\ ScriptCalls
    /\ corked > 0
    /\ corked' = corked - 1
    /\ UNCHANGED <<length, ending, destroyed, needDrain, given>>
    /\ IF corked = MaxCorks /\ queue # <<>>
       THEN Process("uncork", queue, 1, stack)
       ELSE Done(stack) /\ UNCHANGED <<queue, finished>>

Uncork ==
    /\ ScriptCalls
    /\ corked > 0
    /\ corked' = corked - 1
    /\ UNCHANGED <<length, ending, destroyed, needDrain, given>>
    /\ IF corked = 1 /\ queue # <<>>
       THEN Process("uncork", queue, 1, stack)
       ELSE Done(stack) /\ UNCHANGED <<queue, finished>>

\* end() without a chunk queues its callback.
End(c) ==
    /\ ScriptCalls /\ ~ending
    /\ Accept(c)
    /\ Close(Queued(c), stack)
    /\ UNCHANGED <<length, destroyed, corked, needDrain>>

\* end(chunk, c) writes the chunk first, and the callback is that write's.
EndWithChunk(c) ==
    /\ ScriptCalls /\ ~ending
    /\ UNCHANGED <<corked, destroyed>>
    /\ \/ /\ destroyed
          /\ Close(queue, stack)
          /\ UNCHANGED <<length, needDrain, given>>
       \/ /\ ~destroyed /\ corked > 0
          /\ Accept(c) /\ Keep
          /\ Close(Queued(c), stack)
          /\ UNCHANGED needDrain
       \/ /\ ~destroyed /\ corked = 0 /\ c = NoCallback
          /\ Keep
          /\ needDrain' = (needDrain \/ length' > HighWaterMark)
          /\ Close(queue, stack)
          /\ UNCHANGED given
       \/ /\ ~destroyed /\ corked = 0 /\ c # NoCallback
          /\ Accept(c)
          /\ WriteThrough("endWrite", c)
          /\ UNCHANGED <<ending, finished, queue>>

\* The write of end(chunk, c) is back.  Nothing is looked at again.
EndGoesOn ==
    /\ Head(stack).op = "endWrite"
    /\ Close(queue, Tail(stack))

\* js_stream_destroy, with or without an error.
Destroy(event) ==
    /\ ScriptCalls
    /\ ~destroyed
    /\ destroyed' = TRUE
    /\ Emit("destroy", event, stack)
    /\ UNCHANGED <<length, ending, finished, corked, needDrain, queue, given>>

-----------------------------------------------------------------------------
(* The script function is back.                                            *)

Returns ==
    /\ Defined
    /\ stack # <<>>
    /\ LET f == Head(stack)
           rest == Tail(stack)
       IN  \/ EndGoesOn
           \/ /\ f.at = "queued"
              /\ Process(f.op, queue, f.i + 1, rest)
              /\ UNCHANGED ending
           \/ /\ f.op = "destroy" /\ f.at = "error"
              /\ Emit("destroy", "close", rest)
              /\ UNCHANGED <<ending, finished, queue>>
           \/ /\ f.op \notin {"endWrite", "destroy"} \/ f.at = "close"
              /\ f.at # "queued"
              /\ Done(rest)
              /\ UNCHANGED <<ending, finished, queue>>
    /\ UNCHANGED <<length, destroyed, corked, needDrain, given>>

Next ==
    \/ \E c \in Callback : WriteCorked(c) \/ Write(c) \/ End(c) \/ EndWithChunk(c)
    \/ WriteAfterEnd
    \/ Cork \/ Uncork
    \/ \E event \in {"error", "close"} : Destroy(event)
    \/ Returns

Spec == Init /\ [][Next]_vars

-----------------------------------------------------------------------------
(* Properties.                                                             *)

\* A callback waits only for uncork(): none is left in the queue of a stream
\* that is not corked, or that has ended, once every call is back.
NoneWaits ==
    stack = <<>> /\ (corked = 0 \/ finished) /\ Defined => queue = <<>>

\* 'finish' comes when all writes are complete: from then on every callback
\* that was given to the stream has been called, also when end() was called
\* inside another callback.
FinishedAll == finished /\ Defined => \A c \in given : calls[c] = 1
=============================================================================
