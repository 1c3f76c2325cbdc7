----------------------------- MODULE NetSockets -----------------------------
(***************************************************************************)
(* node:net (src/node/net): a socket that connects, the server it connects *)
(* to, and the socket the server makes of the connection.  Both ends are   *)
(* in one program, as in the tests; to each, the other is the network.     *)
(*                                                                         *)
(* The C stack is a sequence of frames, innermost first: a frame is a call *)
(* of the listeners of an event, from the function that emits it, which    *)
(* goes on when they return.  The loop acts when the stack is empty.       *)
(*                                                                         *)
(* A chunk is the number of the write() that took it.                      *)
(***************************************************************************)
EXTENDS Integers, SequencesExt

CONSTANT
    Scenarios  \* bound: which calls, and how many, scripts make in a run

Sockets == {"client", "peer"}
Other(s) == IF s = "client" THEN "peer" ELSE "client"

\* writes[s] calls of write() on s, and connects calls of connect(); calls of
\* the other operations where calls has them, names where dns.
Calls == {"end", "pause", "destroy"} \X Sockets \cup {<<"close", "server">>}

ASSUME ScenariosAssumption ==
    Scenarios \subseteq [writes : [Sockets -> Nat], connects : Nat, calls : SUBSET Calls, dns : BOOLEAN]

VARIABLES
    scenario,   \* the bounds of this run
    sock,       \* sock[s]: the flags of JSNetConnection
    uv,         \* uv[s]: what libuv knows of the socket's handle
    pending,    \* pending[s]: pending_writes, to be sent when connected
    queue,      \* queue[s]: writes that libuv has not given to the kernel
    wire,       \* wire[s]: chunks on their way to s
    fin,        \* fin[s]: behind them, s will read the end of the stream
    reset,      \* reset[s]: a RST is on its way to s
    tcp,        \* the connection, as the server's kernel sees it
    srv,        \* the server
    listenCb,   \* listen_callback and its timer
    closeCb,    \* close_callback
    stack,      \* calls of listeners under way
    broken,     \* libuv was given a handle or a request it must not be given
    connects,   \* calls of connect() (bound)
    written,    \* written[s]: calls of write() that were accepted (bound)
    accepted,   \* accepted[s]: their chunks, but for those reported lost (history)
    got,        \* got[s]: chunks given to listeners of 'data' (history)
    closes      \* closes[s]: how often 'close' was emitted (history)

dataVars == <<pending, queue, wire, fin, reset>>
serverVars == <<tcp, srv, listenCb, closeCb>>
historyVars == <<scenario, connects, written, accepted, got, closes>>
vars == <<sock, uv, dataVars, serverVars, stack, broken, historyVars>>

Flags == [connected : BOOLEAN, connecting : BOOLEAN, destroyed : BOOLEAN, paused : BOOLEAN,
          endAfter : BOOLEAN, ended : BOOLEAN]

\* creq and dns: the requests of uv_tcp_connect and uv_getaddrinfo are under
\* way.  shut: that of uv_shutdown.  done: writes whose callback is to come.
Handles == [handle : {"none", "open", "closing", "closed"}, reading : BOOLEAN, writable : BOOLEAN,
            creq : BOOLEAN, dns : BOOLEAN, shut : {"no", "asked", "done"}, done : Nat]

SocketFrames ==
    [event : {"connect", "ready", "data", "drain", "end", "error", "close"},
     from : {"on_connect", "on_getaddrinfo", "on_socket_read", "on_socket_write_complete",
             "js_socket_destroy"},
     of : Sockets, late : BOOLEAN]

ServerFrames ==
    [event : {"connection", "listening", "close", "callback"},
     from : {"on_connection", "js_server_listen", "js_server_close", "on_server_close_complete",
             "on_listen_callback_timer"},
     of : {"server"}, late : {FALSE}]

\* The variables have their types.
TypeOK ==
    /\ scenario \in Scenarios
    /\ sock \in [Sockets -> Flags]
    /\ uv \in [Sockets -> Handles]
    /\ pending \in [Sockets -> Seq(Nat)] /\ queue \in [Sockets -> Seq(Nat)]
    /\ wire \in [Sockets -> Seq(Nat)]
    /\ fin \in [Sockets -> BOOLEAN] /\ reset \in [Sockets -> BOOLEAN]
    /\ tcp \in {"none", "backlog", "accepted", "lost"}
    /\ srv \in {"idle", "failed", "listening", "closing", "closed"}
    /\ listenCb \in {"none", "set", "called"} /\ closeCb \in {"none", "set", "called"}
    /\ stack \in Seq(SocketFrames \cup ServerFrames)
    /\ broken \in BOOLEAN
    /\ connects \in Nat
    /\ written \in [Sockets -> Nat] /\ closes \in [Sockets -> Nat]
    /\ accepted \in [Sockets -> Seq(Nat)] /\ got \in [Sockets -> Seq(Nat)]

Unconnected ==
    [connected |-> FALSE, connecting |-> FALSE, destroyed |-> FALSE, paused |-> FALSE,
     endAfter |-> FALSE, ended |-> FALSE]

Fresh(h) ==
    [handle |-> h, reading |-> FALSE, writable |-> FALSE, creq |-> FALSE, dns |-> FALSE,
     shut |-> "no", done |-> 0]

Nothing == [s \in Sockets |-> <<>>]

\* new net.Socket() has been called: uv_tcp_init has made the client's handle.
Init ==
    /\ scenario \in Scenarios
    /\ sock = [s \in Sockets |-> Unconnected]
    /\ uv = [client |-> Fresh("open"), peer |-> Fresh("none")]
    /\ pending = Nothing /\ queue = Nothing /\ wire = Nothing
    /\ fin = [s \in Sockets |-> FALSE] /\ reset = [s \in Sockets |-> FALSE]
    /\ tcp = "none" /\ srv = "idle" /\ listenCb = "none" /\ closeCb = "none"
    /\ stack = <<>> /\ broken = FALSE
    /\ connects = 0 /\ written = [s \in Sockets |-> 0]
    /\ accepted = Nothing /\ got = Nothing
    /\ closes = [s \in Sockets |-> 0]

\* Script may run in a listener, and in any turn of the loop.
ScriptRuns == ~broken
LoopRuns == ~broken /\ stack = <<>>

Open(s) == uv[s].handle = "open"
Top == Head(stack)
Below == Tail(stack)

\* Listeners are called; late tells whether 'close' had been emitted before.
Emit(event, from, s, below) ==
    /\ stack' = <<[event |-> event, from |-> from, of |-> s,
                   late |-> s \in Sockets /\ closes[s] > 0]>> \o below
    /\ closes' = IF event = "close" /\ s \in Sockets THEN [closes EXCEPT ![s] = @ + 1] ELSE closes

-----------------------------------------------------------------------------
(* The network.                                                            *)

\* The kernel's side of close(): the other end reads the end of the stream, or
\* an error if it has sent what was not read.
Hangup(s) ==
    LET o == Other(s)
        up == tcp \in {"backlog", "accepted"}
    IN  /\ wire' = [wire EXCEPT ![s] = <<>>]
        /\ reset' = [reset EXCEPT ![o] = @ \/ (up /\ wire[s] # <<>>)]
        /\ fin' = [fin EXCEPT ![o] = @ \/ (up /\ wire[s] = <<>>)]

\* uv_close(), which stops reading; the callbacks of what is under way come
\* later.
Closing(s) == [uv EXCEPT ![s].handle = "closing", ![s].reading = FALSE]

\* The handshake is completed by the server's kernel.
Handshake ==
    /\ srv = "listening" /\ tcp = "none"
    /\ Open("client") /\ uv["client"].creq
    /\ tcp' = "backlog"
    /\ UNCHANGED <<sock, uv, dataVars, srv, listenCb, closeCb, stack, broken, historyVars>>

\* A write reaches the kernel.  If the other end is gone, it is lost, and
\* answered by a RST.
Transmit(s) ==
    LET o == Other(s)
        up == uv[o].handle \in {"none", "open"} /\ ~reset[s] /\ tcp # "lost"
    IN  /\ Open(s) /\ queue[s] # <<>>
        /\ queue' = [queue EXCEPT ![s] = Tail(@)]
        /\ uv' = [uv EXCEPT ![s].done = @ + 1]
        /\ wire' = IF up THEN [wire EXCEPT ![o] = Append(@, Head(queue[s]))] ELSE wire
        /\ reset' = [reset EXCEPT ![s] = @ \/ ~up]
        /\ UNCHANGED <<sock, pending, fin, serverVars, stack, broken, historyVars>>

-----------------------------------------------------------------------------
(* Connecting.                                                             *)

\* js_net_connection_clear_pending_writes: what was accepted will not be sent.
ClearPending(s) ==
    /\ pending' = [pending EXCEPT ![s] = <<>>]
    /\ accepted' = [accepted EXCEPT ![s] = SubSeq(@, 1, Len(@) - Len(pending[s]))]

\* uv_tcp_connect fails at once: there is a connection, or one in the making.
Busy(s) == uv[s].creq \/ tcp # "none"

\* js_socket_connect with an address or, if dns, with a name.  If it fails at
\* once, it closes the handle and throws; on a handle that is being closed, or
\* with a request under way, it has libuv do what libuv does not check.
Connect(s, dns, ok) ==
    /\ ScriptRuns /\ uv[s].handle # "none" /\ ~sock[s].destroyed
    /\ connects < scenario.connects /\ connects' = connects + 1
    /\ dns => scenario.dns
    /\ ~dns /\ Busy(s) => ~ok
    /\ sock' = [sock EXCEPT ![s].connecting = ok, ![s].connected = FALSE, ![s].endAfter = FALSE]
    /\ ClearPending(s)
    /\ IF ok
       THEN /\ uv' = IF dns THEN [uv EXCEPT ![s].dns = TRUE] ELSE [uv EXCEPT ![s].creq = TRUE]
            /\ broken' = IF dns THEN uv[s].dns ELSE ~Open(s)
            /\ UNCHANGED <<wire, fin, reset>>
       ELSE /\ uv' = Closing(s)
            /\ broken' = ~Open(s)
            /\ Hangup(s)
    /\ UNCHANGED <<queue, serverVars, stack, scenario, written, got, closes>>

\* An attempt has failed: 'error' is emitted, and nothing is closed.
ConnectError(s, from) ==
    /\ sock' = [sock EXCEPT ![s].connecting = FALSE]
    /\ ClearPending(s)
    /\ Emit("error", from, s, stack)

\* Mutant of OnGetaddrinfo: a failure leaves the socket connecting.
OnGetaddrinfoKeeps(s, ok) ==
    /\ LoopRuns /\ uv[s].dns
    /\ IF sock[s].destroyed \/ ~Open(s)
       THEN /\ uv' = [uv EXCEPT ![s].dns = FALSE]
            /\ UNCHANGED <<sock, pending, accepted, stack, closes>>
       ELSE IF ok /\ ~Busy(s)
       THEN /\ uv' = [uv EXCEPT ![s].dns = FALSE, ![s].creq = TRUE]
            /\ UNCHANGED <<sock, pending, accepted, stack, closes>>
       ELSE /\ uv' = [uv EXCEPT ![s].dns = FALSE]
            /\ ClearPending(s)
            /\ Emit("error", "on_getaddrinfo", s, stack)
            /\ UNCHANGED sock
    /\ UNCHANGED <<queue, wire, fin, reset, serverVars, broken, scenario, connects, written, got>>

\* on_getaddrinfo.
OnGetaddrinfo(s, ok) ==
    /\ LoopRuns /\ uv[s].dns
    /\ IF sock[s].destroyed \/ ~Open(s)
       THEN /\ uv' = [uv EXCEPT ![s].dns = FALSE]
            /\ UNCHANGED <<sock, pending, accepted, stack, closes>>
       ELSE IF ok /\ ~Busy(s)
       THEN /\ uv' = [uv EXCEPT ![s].dns = FALSE, ![s].creq = TRUE]
            /\ UNCHANGED <<sock, pending, accepted, stack, closes>>
       ELSE /\ uv' = [uv EXCEPT ![s].dns = FALSE]
            /\ ConnectError(s, "on_getaddrinfo")
    /\ UNCHANGED <<queue, wire, fin, reset, serverVars, broken, scenario, connects, written, got>>

\* Mutants of Flush: what is pending is sent last to first; or the first only.
FlushBackwards(s) ==
    /\ queue' = [queue EXCEPT ![s] = @ \o Reverse(pending[s])]
    /\ pending' = [pending EXCEPT ![s] = <<>>]

FlushFirst(s) ==
    /\ queue' = [queue EXCEPT ![s] = IF pending[s] = <<>> THEN @ ELSE Append(@, Head(pending[s]))]
    /\ pending' = [pending EXCEPT ![s] = <<>>]

\* on_connect gives the pending writes to libuv.  On a stream that has just
\* been connected uv_write does not fail.
Flush(s) ==
    /\ queue' = [queue EXCEPT ![s] = @ \o pending[s]]
    /\ pending' = [pending EXCEPT ![s] = <<>>]

\* on_connect, status 0.
OnConnect(s) ==
    /\ LoopRuns /\ uv[s].creq /\ Open(s) /\ tcp # "none"
    /\ uv' = [uv EXCEPT ![s].creq = FALSE, ![s].reading = TRUE, ![s].writable = TRUE]
    /\ sock' = [sock EXCEPT ![s].connected = TRUE, ![s].connecting = FALSE]
    /\ Flush(s)
    /\ Emit("connect", "on_connect", s, stack)
    /\ UNCHANGED <<wire, fin, reset, serverVars, broken, scenario, connects, written, accepted, got>>

\* Mutant of OnConnectFails: destroyed is not asked.
OnConnectFailsAlways(s) ==
    /\ LoopRuns /\ uv[s].creq
    /\ Open(s) => tcp = "none" \/ reset[s]
    /\ uv' = [uv EXCEPT ![s].creq = FALSE]
    /\ sock' = [sock EXCEPT ![s].connecting = FALSE, ![s].endAfter = FALSE]
    /\ ClearPending(s)
    /\ Emit("error", "on_connect", s, stack)
    /\ UNCHANGED <<queue, wire, fin, reset, serverVars, broken, scenario, connects, written, got>>

\* on_connect, any other status: also when the handle is closed meanwhile.
OnConnectFails(s) ==
    /\ LoopRuns /\ uv[s].creq
    /\ Open(s) => tcp = "none" \/ reset[s]
    /\ uv' = [uv EXCEPT ![s].creq = FALSE]
    /\ IF sock[s].destroyed
       THEN UNCHANGED <<sock, pending, accepted, stack, closes>>
       ELSE /\ sock' = [sock EXCEPT ![s].connecting = FALSE, ![s].endAfter = FALSE]
            /\ ClearPending(s)
            /\ Emit("error", "on_connect", s, stack)
    /\ UNCHANGED <<queue, wire, fin, reset, serverVars, broken, scenario, connects, written, got>>

\* The listeners of 'connect' have returned; those of 'ready' are called, also
\* if the socket is destroyed by now.
ConnectReturns ==
    /\ stack # <<>> /\ Top.event = "connect"
    /\ Emit("ready", "on_connect", Top.of, Below)
    /\ UNCHANGED <<sock, uv, dataVars, serverVars, broken, scenario, connects, written, accepted, got>>

\* uv_shutdown, which does nothing on a handle that is being closed.
Shutdown(s) ==
    IF Open(s) /\ uv[s].writable
    THEN [uv EXCEPT ![s].shut = "asked", ![s].writable = FALSE]
    ELSE uv

\* Mutant of ReadyReturns: that end() has been called is forgotten.
ReadyForgetsEnd ==
    /\ stack # <<>> /\ Top.event = "ready"
    /\ stack' = Below
    /\ UNCHANGED <<sock, uv, dataVars, serverVars, broken, historyVars>>

\* The rest of on_connect.
ReadyReturns ==
    /\ stack # <<>> /\ Top.event = "ready"
    /\ stack' = Below
    /\ IF sock[Top.of].endAfter
       THEN /\ uv' = Shutdown(Top.of)
            /\ sock' = [sock EXCEPT ![Top.of].connected = FALSE, ![Top.of].endAfter = FALSE]
       ELSE UNCHANGED <<sock, uv>>
    /\ UNCHANGED <<dataVars, serverVars, broken, historyVars>>

-----------------------------------------------------------------------------
(* Writing.                                                                *)

\* js_socket_write, when it does not throw.
Write(s) ==
    /\ ScriptRuns /\ written[s] < scenario.writes[s]
    /\ written' = [written EXCEPT ![s] = @ + 1]
    /\ accepted' = [accepted EXCEPT ![s] = Append(@, written[s] + 1)]
    /\ \/ /\ sock[s].connected /\ Open(s) /\ uv[s].writable
          /\ queue' = [queue EXCEPT ![s] = Append(@, written[s] + 1)]
          /\ UNCHANGED pending
       \/ /\ ~sock[s].connected /\ sock[s].connecting
          /\ pending' = [pending EXCEPT ![s] = Append(@, written[s] + 1)]
          /\ UNCHANGED queue
    /\ UNCHANGED <<sock, uv, wire, fin, reset, serverVars, stack, broken, scenario, connects, got, closes>>

\* on_socket_write_complete, which does not look at the status: 'drain' is
\* emitted when nothing is queued, also if the write was lost.
OnWriteComplete(s) ==
    /\ LoopRuns
    /\ \/ /\ uv[s].done > 0
          /\ uv' = [uv EXCEPT ![s].done = @ - 1]
          /\ UNCHANGED queue
       \/ /\ uv[s].handle = "closing" /\ uv[s].done = 0 /\ ~uv[s].creq /\ queue[s] # <<>>
          /\ queue' = [queue EXCEPT ![s] = Tail(@)]
          /\ UNCHANGED uv
    /\ IF ~sock[s].destroyed /\ queue'[s] = <<>>
       THEN Emit("drain", "on_socket_write_complete", s, stack)
       ELSE UNCHANGED <<stack, closes>>
    /\ UNCHANGED <<sock, pending, wire, fin, reset, serverVars, broken, scenario, connects, written, accepted, got>>

\* js_socket_end.
End(s) ==
    /\ ScriptRuns /\ <<"end", s>> \in scenario.calls /\ ~sock[s].destroyed
    /\ \/ /\ sock[s].connected
          /\ uv' = Shutdown(s)
          /\ sock' = [sock EXCEPT ![s].connected = FALSE]
       \/ /\ ~sock[s].connected /\ sock[s].connecting
          /\ sock' = [sock EXCEPT ![s].endAfter = TRUE]
          /\ UNCHANGED uv
    /\ UNCHANGED <<dataVars, serverVars, stack, broken, historyVars>>

\* libuv has sent what was queued and shuts the connection down; on_shutdown.
OnShutdown(s) ==
    /\ LoopRuns /\ Open(s) /\ uv[s].shut = "asked" /\ queue[s] = <<>>
    /\ uv' = [uv EXCEPT ![s].shut = "done"]
    /\ sock' = [sock EXCEPT ![s].connected = FALSE]
    /\ fin' = [fin EXCEPT ![Other(s)] = @ \/ ~reset[s]]
    /\ UNCHANGED <<pending, queue, wire, reset, serverVars, stack, broken, historyVars>>

-----------------------------------------------------------------------------
(* Reading and closing.                                                    *)

\* js_socket_pause and js_socket_resume.
Pause(s) ==
    /\ ScriptRuns /\ <<"pause", s>> \in scenario.calls
    /\ ~sock[s].destroyed /\ ~sock[s].paused /\ sock[s].connected
    /\ sock' = [sock EXCEPT ![s].paused = TRUE]
    /\ uv' = [uv EXCEPT ![s].reading = FALSE]
    /\ UNCHANGED <<dataVars, serverVars, stack, broken, historyVars>>

Resume(s) ==
    /\ ScriptRuns /\ ~sock[s].destroyed /\ sock[s].paused /\ sock[s].connected
    /\ sock' = [sock EXCEPT ![s].paused = FALSE]
    /\ uv' = [uv EXCEPT ![s].reading = Open(s)]
    /\ UNCHANGED <<dataVars, serverVars, stack, broken, historyVars>>

\* js_socket_destroy.
Destroy(s) ==
    /\ ScriptRuns /\ <<"destroy", s>> \in scenario.calls
    /\ uv[s].handle # "none" /\ ~sock[s].destroyed
    /\ sock' = [sock EXCEPT ![s].destroyed = TRUE, ![s].connected = FALSE,
                            ![s].connecting = FALSE, ![s].endAfter = FALSE]
    /\ ClearPending(s)
    /\ IF Open(s) THEN uv' = Closing(s) /\ Hangup(s) ELSE UNCHANGED <<uv, wire, fin, reset>>
    /\ Emit("close", "js_socket_destroy", s, stack)
    /\ UNCHANGED <<queue, serverVars, broken, scenario, connects, written, got>>

\* on_socket_read: a chunk; the end of the stream; an error.
OnData(s) ==
    /\ LoopRuns /\ uv[s].reading /\ wire[s] # <<>>
    /\ wire' = [wire EXCEPT ![s] = Tail(@)]
    /\ got' = [got EXCEPT ![s] = Append(@, Head(wire[s]))]
    /\ Emit("data", "on_socket_read", s, stack)
    /\ UNCHANGED <<sock, uv, pending, queue, fin, reset, serverVars, broken, scenario, connects, written, accepted>>

OnEof(s) ==
    /\ LoopRuns /\ uv[s].reading /\ wire[s] = <<>> /\ fin[s]
    /\ uv' = [uv EXCEPT ![s].reading = FALSE]
    /\ sock' = [sock EXCEPT ![s].ended = TRUE]
    /\ Emit("end", "on_socket_read", s, stack)
    /\ UNCHANGED <<dataVars, serverVars, broken, scenario, connects, written, accepted, got>>

OnReadError(s) ==
    /\ LoopRuns /\ uv[s].reading /\ reset[s]
    /\ uv' = [uv EXCEPT ![s].reading = FALSE, ![s].writable = FALSE]
    /\ Emit("error", "on_socket_read", s, stack)
    /\ UNCHANGED <<sock, dataVars, serverVars, broken, scenario, connects, written, accepted, got>>

\* The listeners of 'end' or 'error' have returned.
EndReturns ==
    /\ stack # <<>> /\ Top.from = "on_socket_read" /\ Top.event \in {"end", "error"}
    /\ Emit("close", "on_socket_read", Top.of, Below)
    /\ UNCHANGED <<sock, uv, dataVars, serverVars, broken, scenario, connects, written, accepted, got>>

\* The rest of on_socket_read: the handle is closed, whatever is queued.
CloseReturns ==
    /\ stack # <<>> /\ Top.from = "on_socket_read" /\ Top.event = "close"
    /\ stack' = Below
    /\ sock' = [sock EXCEPT ![Top.of].connected = FALSE]
    /\ IF Open(Top.of) THEN uv' = Closing(Top.of) /\ Hangup(Top.of) ELSE UNCHANGED <<uv, wire, fin, reset>>
    /\ UNCHANGED <<pending, queue, serverVars, broken, historyVars>>

\* socket_close_callback, after the callbacks of what was under way.
OnClosed(s) ==
    /\ LoopRuns /\ uv[s].handle = "closing"
    /\ ~uv[s].creq /\ queue[s] = <<>> /\ uv[s].done = 0
    /\ uv' = [uv EXCEPT ![s].handle = "closed"]
    /\ UNCHANGED <<sock, dataVars, serverVars, stack, broken, historyVars>>

-----------------------------------------------------------------------------
(* The server.                                                             *)

\* js_server_listen, called once and with a callback.  If it fails it throws,
\* and the server is as if listen() had not been called.
Listen(ok) ==
    /\ ScriptRuns /\ srv = "idle"
    /\ srv' = IF ok THEN "listening" ELSE "failed"
    /\ IF ok THEN Emit("listening", "js_server_listen", "server", stack) ELSE UNCHANGED <<stack, closes>>
    /\ UNCHANGED <<sock, uv, dataVars, tcp, listenCb, closeCb, broken, scenario, connects, written, accepted, got>>

\* The timer of the callback is started, also if the server is closed by now.
ListeningReturns ==
    /\ stack # <<>> /\ Top.event = "listening"
    /\ stack' = Below
    /\ listenCb' = "set"
    /\ UNCHANGED <<sock, uv, dataVars, tcp, srv, closeCb, broken, historyVars>>

OnListenCallbackTimer ==
    /\ LoopRuns /\ listenCb = "set"
    /\ listenCb' = "called"
    /\ Emit("callback", "on_listen_callback_timer", "server", stack)
    /\ UNCHANGED <<sock, uv, dataVars, tcp, srv, closeCb, broken, scenario, connects, written, accepted, got>>

\* on_connection.
OnConnection ==
    /\ LoopRuns /\ srv = "listening" /\ tcp = "backlog"
    /\ tcp' = "accepted"
    /\ sock' = [sock EXCEPT !["peer"].connected = TRUE]
    /\ uv' = [uv EXCEPT !["peer"] = [Fresh("open") EXCEPT !.reading = TRUE, !.writable = TRUE]]
    /\ Emit("connection", "on_connection", "server", stack)
    /\ UNCHANGED <<dataVars, srv, listenCb, closeCb, broken, scenario, connects, written, accepted, got>>

\* js_server_close, with a callback.  The kernel resets a connection that is
\* not accepted yet.
ServerClose ==
    /\ ScriptRuns /\ <<"close", "server">> \in scenario.calls
    /\ srv \in {"idle", "failed", "listening"}
    /\ closeCb' = "set"
    /\ \/ /\ srv = "listening"
          /\ srv' = "closing"
          /\ tcp' = IF tcp = "backlog" THEN "lost" ELSE tcp
          /\ reset' = [reset EXCEPT !["client"] = @ \/ tcp = "backlog"]
          /\ UNCHANGED <<stack, closes>>
       \/ /\ srv # "listening"
          /\ srv' = "closed"
          /\ Emit("close", "js_server_close", "server", stack)
          /\ UNCHANGED <<tcp, reset>>
    /\ UNCHANGED <<sock, uv, pending, queue, wire, fin, listenCb, broken, scenario, connects, written, accepted, got>>

OnServerCloseComplete ==
    /\ LoopRuns /\ srv = "closing"
    /\ srv' = "closed"
    /\ Emit("close", "on_server_close_complete", "server", stack)
    /\ UNCHANGED <<sock, uv, dataVars, tcp, listenCb, closeCb, broken, scenario, connects, written, accepted, got>>

\* The listeners of the server's 'close' have returned.
ServerCloseReturns ==
    /\ stack # <<>> /\ Top.event = "close" /\ Top.of = "server"
    /\ closeCb' = "called"
    /\ Emit("callback", Top.from, "server", Below)
    /\ UNCHANGED <<sock, uv, dataVars, tcp, srv, listenCb, broken, scenario, connects, written, accepted, got>>

-----------------------------------------------------------------------------
\* Nothing is left to do after the listeners of the other events.
OtherReturns ==
    /\ stack # <<>>
    /\ \/ Top.event \in {"data", "drain", "connection", "callback"}
       \/ Top.from \in {"on_getaddrinfo", "js_socket_destroy"}
       \/ Top.from = "on_connect" /\ Top.event = "error"
    /\ stack' = Below
    /\ UNCHANGED <<sock, uv, dataVars, serverVars, broken, historyVars>>

Returns ==
    /\ ~broken
    /\ \/ ConnectReturns
       \/ ReadyReturns
       \/ EndReturns
       \/ CloseReturns
       \/ ListeningReturns
       \/ ServerCloseReturns
       \/ OtherReturns

ScriptStep ==
    \/ \E s \in Sockets :
          \/ \E dns, ok \in BOOLEAN : Connect(s, dns, ok)
          \/ Write(s)
          \/ End(s)
          \/ Pause(s)
          \/ Resume(s)
          \/ Destroy(s)
    \/ \E ok \in BOOLEAN : Listen(ok)
    \/ ServerClose

LoopStep ==
    \/ \E s \in Sockets :
          \/ \E ok \in BOOLEAN : OnGetaddrinfo(s, ok)
          \/ OnConnect(s)
          \/ OnConnectFails(s)
          \/ OnWriteComplete(s)
          \/ OnShutdown(s)
          \/ OnData(s)
          \/ OnEof(s)
          \/ OnReadError(s)
          \/ OnClosed(s)
    \/ OnListenCallbackTimer
    \/ OnConnection
    \/ OnServerCloseComplete

NetworkStep == ~broken /\ (Handshake \/ \E s \in Sockets : Transmit(s))

Next == Returns \/ ScriptStep \/ LoopStep \/ NetworkStep

\* Listeners return, the loop goes on, the network delivers.
Fairness == WF_vars(Returns) /\ WF_vars(LoopStep) /\ WF_vars(NetworkStep)

Spec == Init /\ [][Next]_vars /\ Fairness

-----------------------------------------------------------------------------
(* Properties.                                                             *)

Alive == ~broken

\* As long as neither end has closed its handle or been reset, what write()
\* accepted is, in its order and once, with the other's listeners, on the way,
\* or waiting; and afterwards the listeners have had the first part of it.
Conserved ==
    \A s \in Sockets :
        LET o == Other(s)
        IN  /\ IsPrefix(got[o], accepted[s])
            /\ Open(s) /\ uv[o].handle \in {"none", "open"} /\ ~reset[s] /\ tcp # "lost"
               => accepted[s] = got[o] \o wire[o] \o queue[s] \o pending[s]

\* 'end' comes after everything the other socket accepted, also while it was
\* connecting, unless that one has closed its handle or lost writes by a reset;
\* what it accepts later, in an attempt to connect anew, is never sent.
EndIsWhole ==
    \A s \in Sockets :
        sock[Other(s)].ended /\ Open(s) /\ ~reset[s] => accepted[s] = got[Other(s)] \o pending[s]

\* After 'close' there is no 'connect', 'data', 'end' or 'error'; and 'close'
\* comes a second time only because of destroy().
CloseIsLast ==
    /\ \A k \in DOMAIN stack :
          stack[k].late => stack[k].event \notin {"connect", "data", "end", "error"}
    /\ \A s \in Sockets : closes[s] <= IF sock[s].destroyed THEN 2 ELSE 1

\* An attempt to connect ends, unless connect() was called for a handle that
\* was about to be closed; the callbacks given to listen() and close() of the
\* server are called.
Answered ==
    /\ \A s \in Sockets : sock[s].connecting ~> ~sock[s].connecting \/ ~Open(s) \/ ~Alive
    /\ listenCb = "set" ~> listenCb = "called" \/ ~Alive
    /\ closeCb = "set" ~> closeCb = "called" \/ ~Alive

\* end() is followed by the other's 'end', whether it was called before or after
\* the connection was made; unless the attempt fails or is made anew, or an end
\* is closed, paused or reset.
EndArrives ==
    \A s \in Sockets :
        LET o == Other(s)
        IN  sock[s].endAfter \/ uv[s].shut = "asked"
                ~> \/ sock[o].ended
                   \/ ~Open(s) \/ uv[o].handle \in {"closing", "closed"} \/ reset[s] \/ reset[o]
                   \/ sock[o].paused
                   \/ uv[s].shut = "no" /\ (sock[s].endAfter => ~sock[s].connecting /\ ~sock[s].connected)
                   \/ ~Alive

=============================================================================
