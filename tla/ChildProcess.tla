---------------------------- MODULE ChildProcess ----------------------------
(***************************************************************************)
(* node:child_process: spawn(), exec() and fork() (src/node/child_process) *)
(* with the channel between a forked child and its parent, whose other end *)
(* is src/node/process/process_ipc.c.                                      *)
(*                                                                         *)
(* The parent's C stack is a sequence of frames, innermost first: a frame  *)
(* is a call of listeners, after which Return goes on with what the code   *)
(* does next.  The loop acts when the stack is empty.  uv_spawn's handler  *)
(* of SIGCHLD waits for every child that has ended before it calls the     *)
(* first exit callback: these children are the batch.                      *)
(*                                                                         *)
(* Bytes are counted.  A message is four units on the wire, two of its     *)
(* header and two of its body, so that a read, which returns any part of   *)
(* what is there, may end within either.                                   *)
(***************************************************************************)
EXTENDS Naturals, FiniteSets, SequencesExt, Sublists

CONSTANTS
    Children,     \* identities of ChildProcess objects
    Streams,      \* stdout and stderr
    Scenarios,    \* how the children of a run are started
    Victims,      \* bound: children that scripts kill
    MaxBuffer,    \* the option maxBuffer of exec()
    MaxBytes,     \* bound: bytes in one pipe
    MaxMessages   \* bound: messages that the two ends send

Modes == {"unused", "spawn", "exec", "fork"}

ASSUME ChildrenAssumption ==
    /\ IsFiniteSet(Children)
    /\ Scenarios \subseteq [Children -> Modes]
    /\ Victims \subseteq Children
    /\ \A f \in Scenarios : \A c, d \in Children : f[c] = "fork" /\ f[d] = "fork" => c = d
    /\ MaxBuffer \in Nat /\ MaxBytes \in Nat /\ MaxMessages \in Nat

VARIABLES
    mode,      \* mode[c]: which function starts the child
    os,        \* os[c]: the process, as the operating system sees it
    doomed,    \* doomed[c]: a SIGKILL is on its way
    heir,      \* heir[c]: a descendant holds the child's descriptors as well
    own,       \* own[c][s]: unread bytes that the child wrote
    late,      \* late[c][s]: unread bytes that descendants wrote after its end
    order,     \* the handles of running processes, in libuv's order
    ended,     \* processes that have ended and are not waited for, first to last
    batch,     \* children that have been waited for, exit callback to come
    exited,    \* exited[c]
    killed,    \* killed[c]
    armed,     \* armed[c]: timeout_timer is running
    callback,  \* callback[c]: exec_callback is set
    reading,   \* reading[c]: stdout_pipe and stderr_pipe are read
    size,      \* size[c][s]: stdout_size and stderr_size
    failing,   \* failing[c]: the timer that emits 'error' is running
    stack,     \* calls of listeners under way in the parent
    link,      \* link[e]: the state of the channel's ends
    ref,       \* ipc_channel is not NULL
    queue,     \* the write queue of the parent's end
    writing,   \* a write of the parent is under way
    out,       \* out[e]: units given to uv_write, not yet on the wire
    wire,      \* wire[e]: units on their way to e
    inbuf,     \* inbuf[e]: read_buffer
    body,      \* body[e]: reading_header is false
    busy,      \* the forked child is in a listener of 'message'
    sent,      \* sent[e][n]: the text of the n-th message from the scripts of e
               \* is JSON (history)
    tried,     \* tried[e]: calls of process_ipc_message (history)
    got,       \* got[e]: texts of messages given to scripts (history)
    parted,    \* parted[e]: how often 'disconnect' was emitted (history)
    dropped,   \* dropped[c]: output was thrown away (history)
    dead,      \* the program has sent a signal to its own process group
    broken     \* the freed state of the channel was used

processVars == <<mode, os, doomed, heir, own, late, order, ended, batch>>
childVars == <<exited, killed, armed, callback, reading, size, failing, dropped>>
channelVars == <<link, ref, queue, writing, out, wire, inbuf, body, busy, sent, tried, got, parted>>
harmVars == <<dead, broken>>
vars == <<processVars, childVars, stack, channelVars, harmVars>>

Ends == {"parent", "kid"}
Other(e) == IF e = "parent" THEN "kid" ELSE "parent"

\* A unit is its place in the sequence of all that an end sends.
Units == Nat \ {0}
Body(n) == <<4 * n - 1, 4 * n>>
Message(n) == <<4 * n - 3, 4 * n - 2, 4 * n - 1, 4 * n>>

\* "unopened": the pipe of a fork() that has failed.  "eof": the end has read
\* the end of the stream.  "closing": uv_close was called.  "held": the child
\* is gone, but a descendant has its descriptor.
Links == {"none", "unopened", "open", "eof", "closing", "freed", "held", "closed"}

Events == {"callback", "exit", "close", "data", "error", "message", "sent", "disconnect"}
Frame(event, c) == [event |-> event, child |-> c]

\* The variables have their types.
TypeOK ==
    /\ mode \in [Children -> Modes]
    /\ os \in [Children -> {"none", "running", "zombie", "reaped", "failed"}]
    /\ \A f \in {doomed, heir, exited, killed, armed, callback, reading, failing, dropped} :
          f \in [Children -> BOOLEAN]
    /\ \A f \in {own, late, size} : f \in [Children -> [Streams -> Nat]]
    /\ order \in Seq(Children) /\ ended \in Seq(Children) /\ batch \in Seq(Children)
    /\ stack \in Seq([event : Events, child : Children])
    /\ link \in [Ends -> Links]
    /\ queue \in Seq(Nat)
    /\ \A f \in {out, wire, inbuf} : f \in [Ends -> Seq(Units)]
    /\ got \in [Ends -> Seq(Units \X Units)]
    /\ body \in [Ends -> BOOLEAN]
    /\ sent \in [Ends -> Seq(BOOLEAN)]
    /\ \A f \in {tried, parted} : f \in [Ends -> Nat]
    /\ {ref, writing, busy, dead, broken} \subseteq BOOLEAN

None == [c \in Children |-> FALSE]
Zero == [c \in Children |-> [s \in Streams |-> 0]]
Empty == [e \in Ends |-> <<>>]

Init ==
    /\ mode \in Scenarios
    /\ os = [c \in Children |-> "none"]
    /\ doomed = None /\ heir = None /\ own = Zero /\ late = Zero
    /\ order = <<>> /\ ended = <<>> /\ batch = <<>>
    /\ exited = None /\ killed = None /\ armed = None /\ callback = None
    /\ reading = None /\ size = Zero /\ failing = None /\ dropped = None
    /\ stack = <<>>
    /\ link = [e \in Ends |-> "none"]
    /\ ref = FALSE /\ queue = <<>> /\ writing = FALSE
    /\ out = Empty /\ wire = Empty /\ inbuf = Empty /\ got = Empty
    /\ body = [e \in Ends |-> FALSE]
    /\ busy = FALSE
    /\ sent = Empty /\ tried = [e \in Ends |-> 0] /\ parted = [e \in Ends |-> 0]
    /\ dead = FALSE /\ broken = FALSE

Top == Head(stack)
Rest == Tail(stack)

Alive == ~dead /\ ~broken

\* Script is in control: in a listener, or in some turn of the loop.
ScriptRuns == Alive /\ (stack # <<>> \/ batch = <<>>)
LoopRuns == Alive /\ stack = <<>> /\ batch = <<>>

Forked == {c \in Children : mode[c] = "fork"}
TheFork == CHOOSE c \in Forked : TRUE

-----------------------------------------------------------------------------
(* The processes.                                                          *)

\* uv_process_kill: the pid of a process that was never started is 0; that of one
\* that has been waited for may belong to nobody, or to anybody.
Signal(c, sig) ==
    /\ doomed' = [doomed EXCEPT ![c] = @ \/ (sig = "SIGKILL" /\ os[c] = "running")]
    /\ dead' = (dead \/ os[c] = "failed")
    /\ UNCHANGED broken

\* The child, or what has inherited its pipe, writes a byte.
Writes(c, s) ==
    /\ Alive /\ reading[c] /\ own[c][s] + late[c][s] < MaxBytes
    /\ \/ os[c] = "running" /\ own' = [own EXCEPT ![c][s] = @ + 1] /\ UNCHANGED late
       \/ os[c] # "running" /\ heir[c] /\ late' = [late EXCEPT ![c][s] = @ + 1] /\ UNCHANGED own
    /\ UNCHANGED <<mode, os, doomed, heir, order, ended, batch, childVars, stack, channelVars, harmVars>>

\* The process ends, of itself or by a signal.  Its end of the channel is
\* closed, and what it had not yet written is gone.
Dies(c) ==
    /\ Alive /\ os[c] = "running"
    /\ os' = [os EXCEPT ![c] = "zombie"]
    /\ ended' = Append(ended, c)
    /\ IF c \in Forked
       THEN /\ link' = [link EXCEPT !["kid"] = IF heir[c] /\ @ # "closed" THEN "held" ELSE "closed"]
            /\ out' = [out EXCEPT !["kid"] = <<>>]
            /\ busy' = FALSE
       ELSE UNCHANGED <<link, out, busy>>
    /\ UNCHANGED <<mode, doomed, heir, own, late, order, batch, childVars, stack, harmVars,
                   ref, queue, writing, wire, inbuf, body, sent, tried, got, parted>>

\* What the child had written has been read by the loop, which serves its
\* descriptors in the order of their events and SIGCHLD last.
Drained(c) ==
    /\ \A s \in Streams : own[c][s] = 0
    /\ c \in Forked /\ link["parent"] = "open" => wire["parent"] = <<>> /\ link["kid"] = "held"

Zombies == {c \in Children : os[c] = "zombie"}

\* SIGCHLD: every process that has ended by now is waited for, also those that
\* have ended since the loop polled for the first one's events.
Reap ==
    /\ LoopRuns
    /\ ended # <<>> /\ Drained(Head(ended))
    /\ batch' = Sublist(order, Zombies)
    /\ order' = Sublist(order, Children \ Zombies)
    /\ os' = [c \in Children |-> IF os[c] = "zombie" THEN "reaped" ELSE os[c]]
    /\ ended' = <<>>
    /\ UNCHANGED <<mode, doomed, heir, own, late, childVars, stack, channelVars, harmVars>>

-----------------------------------------------------------------------------
(* Starting and killing children.                                          *)

\* js_child_process_exec and exec_file: the callback, if there is one, and the
\* timer, which is started also when there is no process.
Exec(c) ==
    \E b, t \in BOOLEAN :
        /\ callback' = [callback EXCEPT ![c] = b /\ mode[c] = "exec"]
        /\ armed' = [armed EXCEPT ![c] = t /\ mode[c] = "exec"]

\* js_child_process_fork: the channel, which is connected even if there is no
\* process.
Fork(c, ok) ==
    IF c \in Forked
    THEN /\ link' = [parent |-> IF ok THEN "open" ELSE "unopened",
                     kid |-> IF ok THEN "open" ELSE "closed"]
         /\ ref' = TRUE
    ELSE UNCHANGED <<link, ref>>

\* js_child_process_spawn, from spawn(), exec() or fork().  If it fails, the
\* child object is returned all the same, with 'error' to be emitted by a timer.
Start(c, ok) ==
    /\ ScriptRuns
    /\ os[c] = "none" /\ mode[c] # "unused"
    /\ os' = [os EXCEPT ![c] = IF ok THEN "running" ELSE "failed"]
    /\ order' = IF ok THEN Append(order, c) ELSE order
    /\ \E b \in BOOLEAN : heir' = [heir EXCEPT ![c] = b /\ ok]
    /\ failing' = [failing EXCEPT ![c] = ~ok]
    /\ reading' = [reading EXCEPT ![c] = ok /\ mode[c] # "fork"]
    /\ Exec(c)
    /\ Fork(c, ok)
    /\ UNCHANGED <<mode, doomed, own, late, ended, batch, exited, killed, size, dropped, stack, harmVars,
                   queue, writing, out, wire, inbuf, body, busy, sent, tried, got, parted>>

\* The timer of emit_event_async.
ErrorEvent(c) ==
    /\ LoopRuns
    /\ failing[c]
    /\ failing' = [failing EXCEPT ![c] = FALSE]
    /\ stack' = <<Frame("error", c)>>
    /\ UNCHANGED <<processVars, exited, killed, armed, callback, reading, size, dropped,
                   channelVars, harmVars>>

\* ChildProcess.kill().  A process that is gone may have a successor of the
\* same pid, so that the call may succeed.
Kill(c, sig) ==
    /\ ScriptRuns
    /\ c \in Victims /\ os[c] # "none" /\ ~exited[c]
    /\ Signal(c, sig)
    /\ \E b \in {TRUE} \cup (IF os[c] = "reaped" THEN {killed[c]} ELSE {}) :
          killed' = [killed EXCEPT ![c] = b]
    /\ UNCHANGED <<mode, os, heir, own, late, order, ended, batch, exited, armed, callback, reading,
                   size, failing, dropped, stack, channelVars>>

\* Mutant of OnTimeout: the signal is one that can be ignored.
OnTimeoutAsks(c) ==
    /\ LoopRuns
    /\ armed[c]
    /\ armed' = [armed EXCEPT ![c] = FALSE]
    /\ Signal(c, "SIGTERM")
    /\ killed' = [killed EXCEPT ![c] = TRUE]
    /\ UNCHANGED <<mode, os, heir, own, late, order, ended, batch, exited, callback, reading,
                   size, failing, dropped, stack, channelVars>>

\* The timer of exec().
OnTimeout(c) ==
    /\ LoopRuns
    /\ armed[c]
    /\ armed' = [armed EXCEPT ![c] = FALSE]
    /\ Signal(c, "SIGKILL")
    /\ killed' = [killed EXCEPT ![c] = TRUE]
    /\ UNCHANGED <<mode, os, heir, own, late, order, ended, batch, exited, callback, reading,
                   size, failing, dropped, stack, channelVars>>

-----------------------------------------------------------------------------
(* Output.                                                                 *)

Lower(a, b) == IF a < b THEN a ELSE b

Taken(c, s, n) ==
    LET first == Lower(n, own[c][s])
    IN  /\ own' = [own EXCEPT ![c][s] = @ - first]
        /\ late' = [late EXCEPT ![c][s] = @ - (n - first)]

\* Mutant of Exceeds: the chunk is thrown away, nothing else is done.
ExceedsQuietly(c) ==
    /\ dropped' = [dropped EXCEPT ![c] = TRUE]
    /\ UNCHANGED <<killed, doomed, harmVars>>

\* A chunk does not fit into the buffer: the child is killed, and the buffer
\* stays as it is, so that a smaller chunk may still fit.
Exceeds(c) ==
    /\ Signal(c, "SIGKILL")
    /\ killed' = [killed EXCEPT ![c] = TRUE]
    /\ dropped' = [dropped EXCEPT ![c] = TRUE]

\* on_stdout_read and on_stderr_read, for n bytes.  The end of the stream is
\* ignored.
OnRead(c, s, n) ==
    /\ LoopRuns /\ reading[c]
    /\ n \in 1 .. own[c][s] + late[c][s]
    /\ Taken(c, s, n)
    /\ \/ /\ mode[c] = "exec" /\ size[c][s] + n > MaxBuffer
          /\ Exceeds(c)
          /\ UNCHANGED <<size, stack>>
       \/ /\ mode[c] = "exec" /\ size[c][s] + n <= MaxBuffer
          /\ size' = [size EXCEPT ![c][s] = @ + n]
          /\ UNCHANGED <<killed, dropped, doomed, stack, harmVars>>
       \/ /\ mode[c] = "spawn"
          /\ stack' = <<Frame("data", c)>>
          /\ UNCHANGED <<killed, dropped, doomed, size, harmVars>>
    /\ UNCHANGED <<mode, os, heir, order, ended, batch, exited, armed, callback, reading, failing,
                   channelVars>>

-----------------------------------------------------------------------------
(* The channel.                                                            *)

Connected == link["parent"] \in {"unopened", "open"}

\* The end has a descriptor.
HasPipe(e) == link[e] \in {"open", "eof", "held"}

\* flush_ipc_queue, with queue q and no write under way: the first message
\* goes to uv_write, which fails if there is no descriptor, and then its
\* callback is called, if it has one.
Flush(q, below) ==
    IF q = <<>> THEN stack' = below /\ queue' = q /\ writing' = FALSE /\ UNCHANGED out
    ELSE /\ queue' = Tail(q)
         /\ writing' = HasPipe("parent")
         /\ out' = [out EXCEPT !["parent"] = IF HasPipe("parent") THEN @ \o Message(Head(q)) ELSE @]
         /\ stack' \in {below, <<Frame("sent", TheFork)>> \o below}

\* The tail of send_ipc_message.
Enqueue(n) ==
    IF writing THEN queue' = Append(queue, n) /\ UNCHANGED <<stack, writing, out>>
    ELSE Flush(Append(queue, n), stack)

MaySend == Len(sent["parent"]) + Len(sent["kid"]) < MaxMessages

\* ChildProcess.send(), when it returns true.  serialize_message makes of
\* undefined, and of a function, a text that is not JSON.
Send ==
    /\ ScriptRuns
    /\ ref /\ Connected /\ MaySend
    /\ \E json \in BOOLEAN : sent' = [sent EXCEPT !["parent"] = Append(@, json)]
    /\ Enqueue(Len(sent["parent"]) + 1)
    /\ UNCHANGED <<processVars, childVars, link, ref, wire, inbuf, body, busy, tried, got, parted, harmVars>>

\* The kernel takes a unit.
Transmit(e) ==
    /\ Alive /\ out[e] # <<>> /\ HasPipe(e) /\ HasPipe(Other(e))
    /\ out' = [out EXCEPT ![e] = Tail(@)]
    /\ wire' = [wire EXCEPT ![Other(e)] = Append(@, Head(out[e]))]
    /\ UNCHANGED <<processVars, childVars, stack, link, ref, queue, writing, inbuf, body, busy,
                   sent, tried, got, parted, harmVars>>

\* Mutant of Written: the queue is left alone.
WrittenOnly == writing' = FALSE /\ UNCHANGED <<queue, out, stack>>

Written == Flush(queue, stack)

\* on_ipc_write: the write is complete, also when the pipe has been closed
\* since; or it has failed, or is cancelled by the closing, and the queue waits.
OnIpcWrite ==
    /\ LoopRuns /\ writing
    /\ \/ /\ out["parent"] = <<>>
          /\ Written
       \/ /\ out["parent"] # <<>> /\ ~(HasPipe("parent") /\ HasPipe("kid"))
          /\ out' = [out EXCEPT !["parent"] = <<>>]
          /\ writing' = FALSE
          /\ UNCHANGED <<queue, stack>>
    /\ UNCHANGED <<processVars, childVars, link, ref, wire, inbuf, body, busy, sent, tried, got, parted, harmVars>>

\* JS_ParseJSON takes what e has read for the text of a message.
Parses(e, text) == \E n \in DOMAIN sent[Other(e)] : sent[Other(e)][n] /\ text = Body(n)

\* process_ipc_message, for a text that parses, behind j that do not: the
\* listeners of 'message' are called at end e.
Deliver(e, j, text, below) ==
    /\ tried' = [tried EXCEPT ![e] = @ + j + 1]
    /\ got' = [got EXCEPT ![e] = Append(@, text)]
    /\ IF e = "parent"
       THEN stack' = <<Frame("message", TheFork)>> \o below /\ UNCHANGED busy
       ELSE busy' = TRUE /\ stack' = below

\* process_ipc_message, for j texts that do not parse: nobody is told.
Drop(e, j, below) ==
    /\ tried' = [tried EXCEPT ![e] = @ + j]
    /\ busy' = (busy /\ e # "kid")
    /\ stack' = below
    /\ UNCHANGED got

\* How many units are ahead of the (j + 1)-st body.
Ahead(j, inBody) == 4 * j + (IF inBody THEN 0 ELSE 2)

\* The body that comes behind n units of buf.
Text(buf, n) == <<buf[n + 1], buf[n + 2]>>
Whole(buf, n) == n + 2 <= Len(buf)

Leave(e, buf, n, inBody) ==
    /\ inbuf' = [inbuf EXCEPT ![e] = SubSeq(buf, n + 1, Len(buf))]
    /\ body' = [body EXCEPT ![e] = inBody]

\* The loop over read_buffer, with content buf.  It waits for a header and
\* removes it, waits for the body and has it processed.  Bodies that do not
\* parse are removed at once, j of them, until one does, which stays while
\* the listeners run, or until not enough is there.
Process(e, buf, inBody, below) ==
    \E j \in 0 .. Len(buf) :
        LET n == Ahead(j, inBody)
        IN  /\ \A i \in 0 .. j - 1 :
                  Whole(buf, Ahead(i, inBody)) /\ ~Parses(e, Text(buf, Ahead(i, inBody)))
            /\ \/ /\ Whole(buf, n) /\ Parses(e, Text(buf, n))
                  /\ Leave(e, buf, n, TRUE)
                  /\ Deliver(e, j, Text(buf, n), below)
               \/ /\ ~Whole(buf, n)
                  /\ IF n <= Len(buf) THEN Leave(e, buf, n, TRUE) ELSE Leave(e, buf, n - 2, FALSE)
                  /\ Drop(e, j, below)

\* The end's loop runs, and reads the channel.
Reads(e) ==
    /\ link[e] = "open"
    /\ IF e = "parent" THEN LoopRuns ELSE Alive /\ ~busy /\ os[TheFork] = "running"

\* on_ipc_read, for n units.
OnIpcRead(e, n) ==
    /\ Reads(e)
    /\ n \in 1 .. Len(wire[e])
    /\ wire' = [wire EXCEPT ![e] = SubSeq(@, n + 1, Len(@))]
    /\ Process(e, inbuf[e] \o SubSeq(wire[e], 1, n), body[e], stack)
    /\ UNCHANGED <<processVars, childVars, link, ref, queue, writing, out, sent, parted, harmVars>>

Behind(e) == SubSeq(inbuf[e], 3, Len(inbuf[e]))

\* Mutant of Continue: the state of the parser is not reset.
ContinueInBody(e) == Process(e, Behind(e), TRUE, IF e = "parent" THEN Rest ELSE stack)

\* The listeners are back, and the message is removed from the buffer.  That
\* they have disconnected meanwhile does not end the loop.
Continue(e) == Process(e, Behind(e), FALSE, IF e = "parent" THEN Rest ELSE stack)

Part(e, state) ==
    /\ link' = [link EXCEPT ![e] = state]
    /\ parted' = [parted EXCEPT ![e] = @ + 1]
    /\ stack' = IF e = "parent" THEN <<Frame("disconnect", TheFork)>> \o stack ELSE stack

\* on_ipc_read at the end of the stream: the pipe stays open, and is not
\* read any more.
OnIpcEof(e) ==
    /\ Reads(e)
    /\ wire[e] = <<>> /\ ~HasPipe(Other(e))
    /\ Part(e, "eof")
    /\ UNCHANGED <<processVars, childVars, ref, queue, writing, out, wire, inbuf, body, busy,
                   sent, tried, got, harmVars>>

\* Mutant of Disconnect: whether it is connected is not asked.
DisconnectAgain ==
    /\ ScriptRuns
    /\ ref
    /\ Part("parent", "closing")
    /\ UNCHANGED <<processVars, childVars, ref, queue, writing, out, wire, inbuf, body, busy,
                   sent, tried, got, harmVars>>

\* ChildProcess.disconnect(): disconnect_ipc_channel and the event.
Disconnect ==
    /\ ScriptRuns
    /\ ref /\ Connected
    /\ Part("parent", "closing")
    /\ UNCHANGED <<processVars, childVars, ref, queue, writing, out, wire, inbuf, body, busy,
                   sent, tried, got, harmVars>>

\* Mutant of OnIpcClose: the pointer to the channel is kept.
OnIpcCloseKeeps ==
    /\ LoopRuns
    /\ link["parent"] = "closing" /\ ~writing
    /\ link' = [link EXCEPT !["parent"] = "freed"]
    /\ queue' = <<>> /\ inbuf' = [inbuf EXCEPT !["parent"] = <<>>]
    /\ UNCHANGED <<processVars, childVars, stack, ref, writing, out, wire, body, busy, sent, tried, got,
                   parted, harmVars>>

\* on_ipc_close: what is queued is freed, its callbacks are not called.
OnIpcClose ==
    /\ LoopRuns
    /\ link["parent"] = "closing" /\ ~writing
    /\ link' = [link EXCEPT !["parent"] = "freed"]
    /\ queue' = <<>> /\ inbuf' = [inbuf EXCEPT !["parent"] = <<>>]
    /\ ref' = FALSE
    /\ UNCHANGED <<processVars, childVars, stack, writing, out, wire, body, busy, sent, tried, got,
                   parted, harmVars>>

\* process.send() and process.disconnect() in the child.
KidSend ==
    /\ Alive /\ Forked # {} /\ os[TheFork] = "running"
    /\ link["kid"] = "open" /\ MaySend
    /\ \E json \in BOOLEAN : sent' = [sent EXCEPT !["kid"] = Append(@, json)]
    /\ out' = [out EXCEPT !["kid"] = @ \o Message(Len(sent["kid"]) + 1)]
    /\ UNCHANGED <<processVars, childVars, stack, link, ref, queue, writing, wire, inbuf, body,
                   busy, tried, got, parted, harmVars>>

KidDisconnect ==
    /\ Alive /\ Forked # {} /\ os[TheFork] = "running"
    /\ link["kid"] = "open"
    /\ Part("kid", "closed")
    /\ out' = [out EXCEPT !["kid"] = <<>>]
    /\ UNCHANGED <<processVars, childVars, ref, queue, writing, wire, inbuf, body, busy, sent,
                   tried, got, harmVars>>

\* A listener of 'message' in the child returns.
KidReturns ==
    /\ Alive /\ busy
    /\ Continue("kid")
    /\ UNCHANGED <<processVars, childVars, link, ref, queue, writing, out, wire, sent, parted, harmVars>>

-----------------------------------------------------------------------------
(* The end of a child.                                                     *)

\* on_process_exit, for the next child of the batch, up to its first call of a
\* listener: exec's callback, if it has one, or that of 'exit'.
OnProcessExit(c) ==
    /\ Alive /\ stack = <<>> /\ batch # <<>> /\ c = Head(batch)
    /\ batch' = Tail(batch)
    /\ exited' = [exited EXCEPT ![c] = TRUE]
    /\ armed' = [armed EXCEPT ![c] = FALSE]
    /\ stack' = <<Frame(IF callback[c] THEN "callback" ELSE "exit", c)>>
    /\ UNCHANGED <<mode, os, doomed, heir, own, late, order, ended, killed, callback, reading, size,
                   failing, dropped, channelVars, harmVars>>

\* close_stdio_pipes: also the channel, of which 'disconnect' does not tell.
CloseStdioPipes(c) ==
    /\ reading' = [reading EXCEPT ![c] = FALSE]
    /\ IF c \in Forked /\ ref
       THEN /\ broken' = (link["parent"] = "freed")
            /\ link' = [link EXCEPT !["parent"] = IF Connected THEN "closing" ELSE @]
            /\ ref' = FALSE
       ELSE UNCHANGED <<broken, link, ref>>

CallbackReturns ==
    /\ Alive /\ stack # <<>> /\ Top.event = "callback"
    /\ callback' = [callback EXCEPT ![Top.child] = FALSE]
    /\ stack' = <<Frame("exit", Top.child)>> \o Rest
    /\ UNCHANGED <<processVars, exited, killed, armed, reading, size, failing, dropped,
                   channelVars, harmVars>>

ExitReturns ==
    /\ Alive /\ stack # <<>> /\ Top.event = "exit"
    /\ CloseStdioPipes(Top.child)
    /\ stack' = <<Frame("close", Top.child)>> \o Rest
    /\ UNCHANGED <<processVars, exited, killed, armed, callback, size, failing, dropped,
                   queue, writing, out, wire, inbuf, body, busy, sent, tried, got, parted, dead>>

MessageReturns ==
    /\ Alive /\ stack # <<>> /\ Top.event = "message"
    /\ Continue("parent")
    /\ UNCHANGED <<processVars, childVars, link, ref, queue, writing, out, wire, sent, parted, harmVars>>

\* Nothing is left to do after listeners of the other events.
OtherReturns ==
    /\ Alive /\ stack # <<>> /\ Top.event \notin {"callback", "exit", "message"}
    /\ stack' = Rest
    /\ UNCHANGED <<processVars, childVars, channelVars, harmVars>>

Returns == CallbackReturns \/ ExitReturns \/ MessageReturns \/ OtherReturns

ScriptStep ==
    \/ \E c \in Children : \/ \E ok \in BOOLEAN : Start(c, ok)
                           \/ \E sig \in {"SIGTERM", "SIGKILL"} : Kill(c, sig)
    \/ Send
    \/ Disconnect

LoopStep ==
    \/ \E c \in Children :
          \/ ErrorEvent(c)
          \/ OnTimeout(c)
          \/ OnProcessExit(c)
          \/ \E s \in Streams, n \in 1 .. MaxBytes : OnRead(c, s, n)
    \/ \E n \in 1 .. 4 * MaxMessages : OnIpcRead("parent", n)
    \/ OnIpcEof("parent")
    \/ OnIpcWrite
    \/ OnIpcClose
    \/ Reap

ChildStep ==
    \/ \E c \in Children : Dies(c) \/ \E s \in Streams : Writes(c, s)
    \/ \E e \in Ends : Transmit(e)
    \/ \E n \in 1 .. 4 * MaxMessages : OnIpcRead("kid", n)
    \/ OnIpcEof("kid")
    \/ KidReturns
    \/ KidSend
    \/ KidDisconnect

Next == ScriptStep \/ LoopStep \/ ChildStep \/ Returns

\* What is left of the output of a child that has ended is read.
ReadRest(c, s) == own[c][s] > 0 /\ os[c] = "zombie" /\ \E n \in 1 .. MaxBytes : OnRead(c, s, n)

ChannelStep ==
    \/ OnIpcWrite
    \/ \E e \in Ends : Transmit(e) \/ OnIpcEof(e) \/ \E n \in 1 .. 4 * MaxMessages : OnIpcRead(e, n)
    \/ KidReturns

\* Listeners return; the loop goes round its phases again and again, so that
\* no source of events is put off for ever by another; SIGKILL ends a process;
\* the channel is served at both ends.
Fairness ==
    /\ WF_vars(Returns \/ \E c \in Children : OnProcessExit(c))
    /\ SF_vars(\E c \in Children : OnTimeout(c))
    /\ SF_vars(Reap)
    /\ SF_vars(\E c \in Children, s \in Streams : ReadRest(c, s))
    /\ WF_vars(\E c \in Children : doomed[c] /\ Dies(c))
    /\ WF_vars(ChannelStep)

Spec == Init /\ [][Next]_vars /\ Fairness

-----------------------------------------------------------------------------
(* Properties.                                                             *)

\* A child that has no sibling and is not killed loses no output: all that it
\* wrote has been read when exec's callback, 'exit' and 'close' are called.
AloneWhole ==
    \A k \in DOMAIN stack :
        LET c == stack[k].child
        IN  /\ stack[k].event \in {"callback", "exit", "close"}
            /\ ~killed[c]
            /\ \A d \in Children \ {c} : os[d] \in {"none", "failed"}
            => ~dropped[c] /\ \A s \in Streams : own[c][s] = 0

\* exec() calls back when the process has ended, been killed or run out of
\* time, whoever else holds its pipes; unless the program has killed itself
\* before, through a child that never started.
ExecAnswered ==
    \A c \in Children :
        callback[c] /\ (os[c] = "zombie" \/ doomed[c] \/ (armed[c] /\ os[c] = "running"))
            ~> ~callback[c] \/ ~Alive

\* Of n messages with these texts, those that are JSON have been heard, whole,
\* once and in their order, and nothing else.
Exact(heard, text, n) ==
    /\ n <= Len(text)
    /\ \A m \in 1 .. n : text[m] <=> \E k \in DOMAIN heard : heard[k] = Body(m)
    /\ \A k \in DOMAIN heard : \E m \in 1 .. n : heard[k] = Body(m)
    /\ \A k, l \in DOMAIN heard : k < l => heard[k][2] < heard[l][2]

\* Messages arrive whole, once and in the order in which they were sent, and
\* those that never reach a listener of 'message' are those that are not JSON.
InOrder == \A e \in Ends : Exact(got[e], sent[Other(e)], tried[e])

\* 'disconnect' comes once at each end that is no longer connected, but for a
\* parent whose child has exited.
PartedOnce ==
    /\ parted["parent"] = 0 => link["parent"] = "none" \/ Connected \/ \E c \in Forked : exited[c]
    /\ parted["parent"] > 0 => ~Connected
    /\ \A e \in Ends : parted[e] <= 1

\* The state of the channel is not used after it was freed.
NoUseAfterFree == ~broken

\* A message that was sent, and is JSON, comes to a listener, or the channel
\* goes.
Delivered ==
    \A n \in 1 .. MaxMessages :
        n \in DOMAIN sent["parent"] /\ sent["parent"][n] ~>
            \/ \E k \in DOMAIN got["kid"] : got["kid"][k] = Body(n)
            \/ link["parent"] # "open" \/ link["kid"] # "open" \/ ~Alive
=============================================================================
