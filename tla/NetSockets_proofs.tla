-------------------------- MODULE NetSockets_proofs --------------------------
(***************************************************************************)
(* Proofs about NetSockets, for any number of writes and of attempts to    *)
(* connect.  What write() has accepted is always, in this order, with the  *)
(* listeners of the other socket, on the wire, lost, and pending (Carried);*)
(* nothing is lost and nothing but the queue is in between as long as both *)
(* handles are open and there was no reset.  Why the pieces stay in order  *)
(* needs what the flags say of them: a connected socket has nothing        *)
(* pending, and one that has been shut down has nothing queued (Settled).  *)
(* 'close' is the last event of a socket (Ending): what was under way when *)
(* it is emitted is over, or asks the flags before it calls listeners.     *)
(***************************************************************************)
EXTENDS NetSockets, SequenceTheorems, TLAPS

\* What the flags say of a socket and of what it has sent.
SettledAt(s) ==
    /\ sock[s].connected => pending[s] = <<>>
    /\ uv[s].reading => uv[s].handle = "open"
    /\ uv[s].handle = "open" /\ uv[s].creq => ~uv[s].writable /\ uv[s].shut = "no"
    /\ uv[s].shut # "no" => ~uv[s].writable
    /\ uv[s].shut = "done" /\ uv[s].handle = "open" => queue[s] = <<>>
    /\ fin[Other(s)] /\ uv[s].handle = "open" => uv[s].shut = "done"
    /\ sock[s].ended => fin[s] /\ wire[s] = <<>>
    /\ tcp = "none" => /\ ~uv[s].writable /\ uv[s].shut = "no"
                       /\ ~fin[s] /\ wire[s] = <<>> /\ queue[s] = <<>>

Settled == \A s \in Sockets : SettledAt(s)

\* There is a peer when its connection has been accepted.
PeerMade ==
    /\ uv["client"].handle # "none"
    /\ uv["peer"].handle = "none" <=> tcp # "accepted"
    /\ uv["peer"].handle = "none" =>
          /\ uv["peer"] = Fresh("none") /\ sock["peer"] = Unconnected
          /\ pending["peer"] = <<>> /\ queue["peer"] = <<>> /\ accepted["peer"] = <<>>
          /\ got["client"] = <<>> /\ wire["client"] = <<>> /\ ~fin["client"] /\ got["peer"] = <<>>

\* Nothing that s has sent was lost.
Sound(s) ==
    /\ uv[s].handle = "open" /\ uv[Other(s)].handle \in {"none", "open"}
    /\ ~reset[s] /\ tcp # "lost"

CarriedFrom(s) ==
    \E lost \in Seq(Nat) :
        /\ accepted[s] = (got[Other(s)] \o wire[Other(s)]) \o (lost \o pending[s])
        /\ Sound(s) => lost = queue[s]

Carried == \A s \in Sockets : CarriedFrom(s)

\* EndIsWhole, of one socket.
WholeFrom(s) ==
    sock[Other(s)].ended /\ uv[s].handle = "open" /\ ~reset[s] => accepted[s] = got[Other(s)] \o pending[s]

Whole == \A s \in Sockets : WholeFrom(s)

IInv == TypeOK /\ Settled /\ PeerMade /\ Carried /\ Whole

-----------------------------------------------------------------------------
(* Sequences.                                                              *)

\* The last part of a sequence is cut off.
LEMMA CutOff ==
    ASSUME NEW a \in Seq(Nat), NEW b \in Seq(Nat)
    PROVE  SubSeq(a \o b, 1, Len(a \o b) - Len(b)) = a
<1> DEFINE c == SubSeq(a \o b, 1, Len(a))
<1>1. a \o b \in Seq(Nat) /\ Len(a \o b) = Len(a) + Len(b) /\ Len(a) \in Nat /\ Len(b) \in Nat
      /\ \A i \in 1 .. Len(a) + Len(b) : (a \o b)[i] = IF i <= Len(a) THEN a[i] ELSE b[i - Len(a)]
  BY ConcatProperties, LenProperties
<1>2. \A i \in 1 .. Len(a) : (a \o b)[i] \in Nat /\ (a \o b)[i] = a[i]
  BY <1>1, ElementOfSeq
<1>3. c \in Seq(Nat) /\ Len(c) = Len(a) /\ \A i \in 1 .. Len(a) : c[i] = a[i]
  BY <1>1, <1>2
<1>4. c = a
  BY <1>3, SeqEqual
<1>5. Len(a \o b) - Len(b) = Len(a)
  BY <1>1
<1> QED BY <1>4, <1>5

\* The first part of a sequence is a prefix of it.
LEMMA FirstIsPrefix ==
    ASSUME NEW a \in Seq(Nat), NEW b \in Seq(Nat)
    PROVE  IsPrefix(a, a \o b)
<1>1. Len(a \o b) = Len(a) + Len(b) /\ Len(a) \in Nat /\ Len(b) \in Nat
      /\ \A i \in 1 .. Len(a) + Len(b) : (a \o b)[i] = IF i <= Len(a) THEN a[i] ELSE b[i - Len(a)]
  BY ConcatProperties, LenProperties
<1>2. \A i \in 1 .. Len(a) : (a \o b)[i] = a[i]
  BY <1>1
<1> QED BY <1>1, <1>2 DEF IsPrefix

\* An element moves from the head of one sequence to the end of another.
LEMMA Moves ==
    ASSUME NEW a \in Seq(Nat), NEW b \in Seq(Nat), b # <<>>
    PROVE  /\ Head(b) \in Nat /\ Tail(b) \in Seq(Nat) /\ Append(a, Head(b)) \in Seq(Nat)
           /\ Append(a, Head(b)) \o Tail(b) = a \o b
<1>1. Head(b) \in Nat /\ Tail(b) \in Seq(Nat) /\ Append(a, Head(b)) \in Seq(Nat)
  BY HeadTailProperties, AppendProperties
<1>2. b = <<Head(b)>> \o Tail(b)
  <2>1. Len(b) \in Nat \ {0} /\ SubSeq(b, 1, Len(b)) = b /\ Tail(b) = SubSeq(b, 2, Len(b)) /\ Head(b) = b[1]
    BY EmptySeq, SubSeqFull, TailIsSubSeq
  <2>2. SubSeq(b, 1, Len(b)) = <<b[1]>> \o SubSeq(b, 1 + 1, Len(b))
    BY <2>1, SubSeqRecursiveFirst
  <2> QED BY <2>1, <2>2
<1>3. Append(a, Head(b)) = a \o <<Head(b)>> /\ <<Head(b)>> \in Seq(Nat)
  BY <1>1, AppendIsConcat
<1>4. (a \o <<Head(b)>>) \o Tail(b) = a \o (<<Head(b)>> \o Tail(b))
  BY <1>1, <1>3, ConcatAssociative
<1> QED BY <1>1, <1>2, <1>3, <1>4

\* Sequences may be joined in any order.
LEMMA Associative ==
    ASSUME NEW a \in Seq(Nat), NEW b \in Seq(Nat), NEW c \in Seq(Nat)
    PROVE  (a \o b) \o c = a \o (b \o c)
BY ConcatAssociative

Regroups(a, b, c, d) ==
    /\ (a \o b) \o (c \o d) = ((a \o b) \o c) \o d
    /\ (a \o b) \o (c \o d) = a \o ((b \o c) \o d)

LEMMA Joined ==
    ASSUME NEW a \in Seq(Nat), NEW b \in Seq(Nat), NEW c \in Seq(Nat), NEW d \in Seq(Nat)
    PROVE  Regroups(a, b, c, d)
<1>1. ASSUME NEW x \in Seq(Nat) PROVE (a \o b) \o x = a \o (b \o x)
  BY Associative, Zenon
<1>2. ASSUME NEW x \in Seq(Nat) PROVE (x \o c) \o d = x \o (c \o d)
  BY Associative, Zenon
<1>3. (b \o c) \o d = b \o (c \o d)
  BY Associative, Zenon
<1>4. a \o b \in Seq(Nat) /\ c \o d \in Seq(Nat)
  BY ConcatProperties
<1>5. (a \o b) \o (c \o d) = a \o (b \o (c \o d))
  BY <1>1, <1>4, Zenon
<1>6. ((a \o b) \o c) \o d = (a \o b) \o (c \o d)
  BY <1>2, <1>4, Zenon
<1> QED BY <1>3, <1>5, <1>6, Zenon DEF Regroups

\* An element is added to the end of joined sequences.
LEMMA AddedLast ==
    ASSUME NEW a \in Seq(Nat), NEW b \in Seq(Nat), NEW c \in Nat
    PROVE  Append(a \o b, c) = a \o Append(b, c)
<1>1. a \o b \in Seq(Nat) /\ <<c>> \in Seq(Nat)
  BY ConcatProperties
<1>2. Append(a \o b, c) = (a \o b) \o <<c>> /\ Append(b, c) = b \o <<c>>
  BY <1>1, AppendIsConcat
<1>3. (a \o b) \o <<c>> = a \o (b \o <<c>>)
  BY <1>1, ConcatAssociative
<1> QED BY <1>2, <1>3

-----------------------------------------------------------------------------
(* Type correctness.                                                       *)

\* A call of listeners keeps the types, for a socket and for the server.
LEMMA EmitType ==
    ASSUME TypeOK, NEW event, NEW from, NEW s, NEW below \in Seq(SocketFrames \cup ServerFrames),
           Emit(event, from, s, below),
           \/ /\ s \in Sockets
              /\ event \in {"connect", "ready", "data", "drain", "end", "error", "close"}
              /\ from \in {"on_connect", "on_getaddrinfo", "on_socket_read",
                           "on_socket_write_complete", "js_socket_destroy"}
           \/ /\ s = "server"
              /\ event \in {"connection", "listening", "close", "callback"}
              /\ from \in {"on_connection", "js_server_listen", "js_server_close",
                           "on_server_close_complete", "on_listen_callback_timer"}
    PROVE  stack' \in Seq(SocketFrames \cup ServerFrames) /\ closes' \in [Sockets -> Nat]
<1> DEFINE f == [event |-> event, from |-> from, of |-> s, late |-> s \in Sockets /\ closes[s] > 0]
<1>1. f \in SocketFrames \cup ServerFrames
  BY DEF SocketFrames, ServerFrames, Sockets
<1>2. <<f>> \in Seq(SocketFrames \cup ServerFrames)
  BY <1>1
<1>3. stack' = <<f>> \o below
  BY DEF Emit
<1>4. stack' \in Seq(SocketFrames \cup ServerFrames)
  BY <1>2, <1>3, ConcatProperties
<1>5. closes' \in [Sockets -> Nat]
  BY DEF Emit, TypeOK
<1> QED BY <1>4, <1>5

\* The frame on top, and the stack without it.
LEMMA TopType ==
    ASSUME TypeOK, stack # <<>>
    PROVE  /\ Top \in SocketFrames \cup ServerFrames /\ Below \in Seq(SocketFrames \cup ServerFrames)
           /\ Top.event \in {"connect", "ready", "data", "drain", "end", "error"} => Top.of \in Sockets
           /\ Top.from \in {"on_connect", "on_getaddrinfo", "on_socket_read",
                            "on_socket_write_complete", "js_socket_destroy"} => Top.of \in Sockets
           /\ Top.of = "server" => Top.from \in {"on_connection", "js_server_listen", "js_server_close",
                            "on_server_close_complete", "on_listen_callback_timer"}
<1>1. Top \in SocketFrames \cup ServerFrames /\ Below \in Seq(SocketFrames \cup ServerFrames)
  BY HeadTailProperties DEF TypeOK, Top, Below
<1> QED BY <1>1 DEF SocketFrames, ServerFrames, Sockets

\* Pending writes are thrown away.
LEMMA ClearType ==
    ASSUME TypeOK, NEW s \in Sockets, ClearPending(s)
    PROVE  pending' \in [Sockets -> Seq(Nat)] /\ accepted' \in [Sockets -> Seq(Nat)]
<1>1. accepted[s] \in Seq(Nat) /\ pending[s] \in Seq(Nat)
  BY DEF TypeOK
<1>2. Len(accepted[s]) \in Nat /\ Len(pending[s]) \in Nat
  BY <1>1, LenProperties
<1>3. SubSeq(accepted[s], 1, Len(accepted[s]) - Len(pending[s])) \in Seq(Nat)
  <2>1. \A i \in 1 .. Len(accepted[s]) - Len(pending[s]) : accepted[s][i] \in Nat
    BY <1>1, <1>2, ElementOfSeq
  <2>2. 1 \in Int /\ Len(accepted[s]) - Len(pending[s]) \in Int
    BY <1>2
  <2> QED BY <2>1, <2>2, SubSeqProperties, Zenon
<1>4. <<>> \in Seq(Nat)
  BY EmptySeq
<1> QED BY <1>3, <1>4 DEF ClearPending, TypeOK

LEMMA HangupType ==
    ASSUME TypeOK, NEW s \in Sockets, Hangup(s)
    PROVE  /\ wire' \in [Sockets -> Seq(Nat)]
           /\ fin' \in [Sockets -> BOOLEAN] /\ reset' \in [Sockets -> BOOLEAN]
<1>1. <<>> \in Seq(Nat)
  BY EmptySeq
<1>2. Other(s) \in Sockets /\ Other(s) # s
  BY DEF Other, Sockets
<1> QED BY <1>1, <1>2 DEF Hangup, TypeOK

LEMMA ClosingType ==
    ASSUME TypeOK, NEW s \in Sockets
    PROVE  Closing(s) \in [Sockets -> Handles]
<1>1. uv[s] \in Handles
  BY DEF TypeOK
<1>2. [uv[s] EXCEPT !.handle = "closing", !.reading = FALSE] \in Handles
  BY <1>1 DEF Handles
<1>3. Closing(s) = [uv EXCEPT ![s] = [uv[s] EXCEPT !.handle = "closing", !.reading = FALSE]]
  BY DEF Closing, TypeOK
<1> QED BY <1>2, <1>3 DEF TypeOK

\* One socket's flags, one socket's handle: how actions change them.
LEMMA FlagsOf ==
    ASSUME NEW f \in Flags, NEW b \in BOOLEAN
    PROVE  /\ [f EXCEPT !.connecting = b, !.connected = FALSE, !.endAfter = FALSE] \in Flags
           /\ [f EXCEPT !.connecting = FALSE] \in Flags
           /\ [f EXCEPT !.connected = FALSE] \in Flags
           /\ [f EXCEPT !.connected = TRUE] \in Flags
           /\ [f EXCEPT !.endAfter = TRUE] \in Flags
           /\ [f EXCEPT !.paused = b] \in Flags
           /\ [f EXCEPT !.ended = TRUE] \in Flags
           /\ [f EXCEPT !.connected = TRUE, !.connecting = FALSE] \in Flags
           /\ [f EXCEPT !.connected = FALSE, !.endAfter = FALSE] \in Flags
           /\ [f EXCEPT !.connecting = FALSE, !.endAfter = FALSE] \in Flags
           /\ [f EXCEPT !.destroyed = TRUE, !.connected = FALSE, !.connecting = FALSE, !.endAfter = FALSE] \in Flags
BY DEF Flags

LEMMA SockType ==
    ASSUME TypeOK, NEW s \in Sockets, NEW f \in Flags, sock' = [sock EXCEPT ![s] = f]
    PROVE  sock' \in [Sockets -> Flags]
BY DEF TypeOK

\* The initial states have the types.
LEMMA InitType == Init => TypeOK
<1> SUFFICES ASSUME Init PROVE TypeOK
  OBVIOUS
<1>1. <<>> \in Seq(Nat) /\ <<>> \in Seq(SocketFrames \cup ServerFrames)
  BY EmptySeq
<1>2. sock \in [Sockets -> Flags]
  BY DEF Init, Unconnected, Flags
<1>3. uv \in [Sockets -> Handles]
  <2>1. Fresh("open") \in Handles /\ Fresh("none") \in Handles
    BY DEF Fresh, Handles
  <2> QED BY <2>1 DEF Init, Sockets
<1>4. Nothing \in [Sockets -> Seq(Nat)]
  BY <1>1 DEF Nothing
<1> QED BY <1>1, <1>2, <1>3, <1>4 DEF Init, TypeOK

\* Every step keeps the types.
LEMMA StepType == TypeOK /\ [Next]_vars => TypeOK'
<1> SUFFICES ASSUME TypeOK, [Next]_vars PROVE TypeOK'
  OBVIOUS
<1> USE DEF Sockets
<1>0. <<>> \in Seq(Nat) /\ stack \in Seq(SocketFrames \cup ServerFrames)
  BY EmptySeq DEF TypeOK
<1>1. CASE UNCHANGED vars
  BY <1>1 DEF vars, dataVars, serverVars, historyVars, TypeOK
<1>2. ASSUME NEW s \in Sockets, NEW dns \in BOOLEAN, NEW ok \in BOOLEAN, Connect(s, dns, ok)
      PROVE TypeOK'
  <2>1. sock' \in [Sockets -> Flags]
    <3>1. sock[s] \in Flags
      BY DEF TypeOK
    <3>2. sock' = [sock EXCEPT ![s] = [sock[s] EXCEPT !.connecting = ok, !.connected = FALSE, !.endAfter = FALSE]]
      BY <1>2 DEF Connect, TypeOK
    <3> QED BY <3>1, <3>2, FlagsOf, SockType
  <2>2. pending' \in [Sockets -> Seq(Nat)] /\ accepted' \in [Sockets -> Seq(Nat)]
    BY <1>2, ClearType DEF Connect
  <2>3. uv' \in [Sockets -> Handles] /\ broken' \in BOOLEAN
        /\ wire' \in [Sockets -> Seq(Nat)] /\ fin' \in [Sockets -> BOOLEAN] /\ reset' \in [Sockets -> BOOLEAN]
    <3>1. CASE ok
      <4>1. uv[s] \in Handles
        BY DEF TypeOK
      <4>2. [uv[s] EXCEPT !.dns = TRUE] \in Handles /\ [uv[s] EXCEPT !.creq = TRUE] \in Handles
        BY <4>1 DEF Handles
      <4>3. uv' = [uv EXCEPT ![s] = [uv[s] EXCEPT !.dns = TRUE]]
            \/ uv' = [uv EXCEPT ![s] = [uv[s] EXCEPT !.creq = TRUE]]
        BY <1>2, <3>1 DEF Connect, TypeOK
      <4>4. uv' \in [Sockets -> Handles]
        BY <4>2, <4>3 DEF TypeOK
      <4>5. uv[s].dns \in BOOLEAN /\ Open(s) \in BOOLEAN
        BY <4>1 DEF Handles, Open
      <4> QED BY <1>2, <3>1, <4>4, <4>5 DEF Connect, TypeOK
    <3>2. CASE ~ok
      <4>1. Open(s) \in BOOLEAN
        BY DEF Open
      <4> QED BY <1>2, <3>2, <4>1, ClosingType, HangupType DEF Connect
    <3> QED BY <3>1, <3>2
  <2>4. connects' \in Nat /\ closes' = closes /\ got' = got /\ written' = written /\ scenario' = scenario
        /\ queue' = queue /\ stack' = stack /\ UNCHANGED serverVars
    BY <1>2 DEF Connect, TypeOK
  <2> QED BY <2>1, <2>2, <2>3, <2>4 DEF serverVars, TypeOK
<1>3. ASSUME NEW s \in Sockets, Write(s) PROVE TypeOK'
  <2>1. written[s] + 1 \in Nat
    BY DEF TypeOK
  <2>2. Append(accepted[s], written[s] + 1) \in Seq(Nat) /\ Append(queue[s], written[s] + 1) \in Seq(Nat)
        /\ Append(pending[s], written[s] + 1) \in Seq(Nat)
    BY <2>1, AppendProperties DEF TypeOK
  <2>3. written' \in [Sockets -> Nat] /\ accepted' \in [Sockets -> Seq(Nat)]
    BY <1>3, <2>1, <2>2 DEF Write, TypeOK
  <2>4. queue' \in [Sockets -> Seq(Nat)] /\ pending' \in [Sockets -> Seq(Nat)]
    BY <1>3, <2>2 DEF Write, TypeOK
  <2> QED BY <1>3, <2>3, <2>4 DEF Write, serverVars, TypeOK
<1>4. ASSUME NEW s \in Sockets, End(s) PROVE TypeOK'
  <2>1. uv' \in [Sockets -> Handles]
    <3>1. uv[s] \in Handles
      BY DEF TypeOK
    <3>2. [uv[s] EXCEPT !.shut = "asked", !.writable = FALSE] \in Handles
      BY <3>1 DEF Handles
    <3>3. uv' = uv \/ uv' = [uv EXCEPT ![s] = [uv[s] EXCEPT !.shut = "asked", !.writable = FALSE]]
      BY <1>4 DEF End, Shutdown, TypeOK
    <3> QED BY <3>2, <3>3 DEF TypeOK
  <2>2. sock' \in [Sockets -> Flags]
    <3>1. sock[s] \in Flags
      BY DEF TypeOK
    <3>2. \/ sock' = [sock EXCEPT ![s] = [sock[s] EXCEPT !.connected = FALSE]]
          \/ sock' = [sock EXCEPT ![s] = [sock[s] EXCEPT !.endAfter = TRUE]]
      BY <1>4 DEF End, TypeOK
    <3> QED BY <3>1, <3>2, FlagsOf, SockType
  <2> QED BY <1>4, <2>1, <2>2 DEF End, dataVars, serverVars, historyVars, TypeOK
<1>5. ASSUME NEW s \in Sockets, Pause(s) \/ Resume(s) PROVE TypeOK'
  <2>1. sock' \in [Sockets -> Flags]
    <3>1. sock[s] \in Flags
      BY DEF TypeOK
    <3>2. \/ sock' = [sock EXCEPT ![s] = [sock[s] EXCEPT !.paused = TRUE]]
          \/ sock' = [sock EXCEPT ![s] = [sock[s] EXCEPT !.paused = FALSE]]
      BY <1>5 DEF Pause, Resume, TypeOK
    <3> QED BY <3>1, <3>2, FlagsOf, SockType
  <2>2. uv' \in [Sockets -> Handles]
    <3>1. uv[s] \in Handles /\ Open(s) \in BOOLEAN
      BY DEF TypeOK, Open
    <3>2. [uv[s] EXCEPT !.reading = FALSE] \in Handles /\ [uv[s] EXCEPT !.reading = Open(s)] \in Handles
      BY <3>1 DEF Handles
    <3>3. uv' = [uv EXCEPT ![s] = [uv[s] EXCEPT !.reading = FALSE]]
          \/ uv' = [uv EXCEPT ![s] = [uv[s] EXCEPT !.reading = Open(s)]]
      BY <1>5 DEF Pause, Resume, TypeOK
    <3> QED BY <3>2, <3>3 DEF TypeOK
  <2> QED BY <1>5, <2>1, <2>2 DEF Pause, Resume, dataVars, serverVars, historyVars, TypeOK
<1>6. ASSUME NEW s \in Sockets, Destroy(s) PROVE TypeOK'
  <2>1. sock' \in [Sockets -> Flags]
    <3>1. sock[s] \in Flags
      BY DEF TypeOK
    <3>2. sock' = [sock EXCEPT ![s] = [sock[s] EXCEPT !.destroyed = TRUE, !.connected = FALSE, !.connecting = FALSE, !.endAfter = FALSE]]
      BY <1>6 DEF Destroy, TypeOK
    <3> QED BY <3>1, <3>2, FlagsOf, SockType
  <2>2. pending' \in [Sockets -> Seq(Nat)] /\ accepted' \in [Sockets -> Seq(Nat)]
    BY <1>6, ClearType DEF Destroy
  <2>3. uv' \in [Sockets -> Handles] /\ wire' \in [Sockets -> Seq(Nat)]
        /\ fin' \in [Sockets -> BOOLEAN] /\ reset' \in [Sockets -> BOOLEAN]
    <3>1. CASE Open(s)
      BY <1>6, <3>1, ClosingType, HangupType DEF Destroy
    <3>2. CASE ~Open(s)
      BY <1>6, <3>2 DEF Destroy, TypeOK
    <3> QED BY <3>1, <3>2
  <2>4. stack' \in Seq(SocketFrames \cup ServerFrames) /\ closes' \in [Sockets -> Nat]
    BY <1>0, <1>6, EmitType DEF Destroy
  <2> QED BY <1>6, <2>1, <2>2, <2>3, <2>4 DEF Destroy, serverVars, TypeOK
<1>7. ASSUME NEW ok \in BOOLEAN, Listen(ok) PROVE TypeOK'
  <2>1. stack' \in Seq(SocketFrames \cup ServerFrames) /\ closes' \in [Sockets -> Nat]
    <3>1. CASE ok
      BY <1>0, <1>7, <3>1, EmitType DEF Listen
    <3>2. CASE ~ok
      BY <1>0, <1>7, <3>2 DEF Listen, TypeOK
    <3> QED BY <3>1, <3>2
  <2> QED BY <1>7, <2>1 DEF Listen, dataVars, TypeOK
<1>8. CASE ServerClose
  <2>1. stack' \in Seq(SocketFrames \cup ServerFrames) /\ closes' \in [Sockets -> Nat]
    <3>1. CASE srv = "listening"
      BY <1>0, <1>8, <3>1 DEF ServerClose, TypeOK
    <3>2. CASE srv # "listening"
      BY <1>0, <1>8, <3>2, EmitType DEF ServerClose
    <3> QED BY <3>1, <3>2
  <2> QED BY <1>8, <2>1 DEF ServerClose, TypeOK
<1>9. ASSUME NEW s \in Sockets, NEW ok \in BOOLEAN, OnGetaddrinfo(s, ok) PROVE TypeOK'
  <2>1. uv' \in [Sockets -> Handles]
    <3>1. uv[s] \in Handles
      BY DEF TypeOK
    <3>2. [uv[s] EXCEPT !.dns = FALSE] \in Handles /\ [uv[s] EXCEPT !.dns = FALSE, !.creq = TRUE] \in Handles
      BY <3>1 DEF Handles
    <3>3. uv' = [uv EXCEPT ![s] = [uv[s] EXCEPT !.dns = FALSE]]
          \/ uv' = [uv EXCEPT ![s] = [uv[s] EXCEPT !.dns = FALSE, !.creq = TRUE]]
      BY <1>9 DEF OnGetaddrinfo, TypeOK
    <3> QED BY <3>2, <3>3 DEF TypeOK
  <2>2. CASE UNCHANGED <<sock, pending, accepted, stack, closes>>
    BY <1>9, <2>1, <2>2 DEF OnGetaddrinfo, serverVars, TypeOK
  <2>3. CASE ConnectError(s, "on_getaddrinfo")
    <3>1. sock' \in [Sockets -> Flags]
      <4>1. sock[s] \in Flags
        BY DEF TypeOK
      <4>2. sock' = [sock EXCEPT ![s] = [sock[s] EXCEPT !.connecting = FALSE]]
        BY <2>3 DEF ConnectError, TypeOK
      <4> QED BY <4>1, <4>2, FlagsOf, SockType
    <3>2. pending' \in [Sockets -> Seq(Nat)] /\ accepted' \in [Sockets -> Seq(Nat)]
      BY <2>3, ClearType DEF ConnectError
    <3>3. stack' \in Seq(SocketFrames \cup ServerFrames) /\ closes' \in [Sockets -> Nat]
      BY <1>0, <2>3, EmitType DEF ConnectError
    <3> QED BY <1>9, <2>1, <3>1, <3>2, <3>3 DEF OnGetaddrinfo, serverVars, TypeOK
  <2> QED BY <1>9, <2>2, <2>3 DEF OnGetaddrinfo
<1>10. ASSUME NEW s \in Sockets, OnConnect(s) PROVE TypeOK'
  <2>1. uv' \in [Sockets -> Handles]
    <3>1. uv[s] \in Handles
      BY DEF TypeOK
    <3>2. [uv[s] EXCEPT !.creq = FALSE, !.reading = TRUE, !.writable = TRUE] \in Handles
      BY <3>1 DEF Handles
    <3>3. uv' = [uv EXCEPT ![s] = [uv[s] EXCEPT !.creq = FALSE, !.reading = TRUE, !.writable = TRUE]]
      BY <1>10 DEF OnConnect, TypeOK
    <3> QED BY <3>2, <3>3 DEF TypeOK
  <2>2. sock' \in [Sockets -> Flags]
    <3>1. sock[s] \in Flags
      BY DEF TypeOK
    <3>2. sock' = [sock EXCEPT ![s] = [sock[s] EXCEPT !.connected = TRUE, !.connecting = FALSE]]
      BY <1>10 DEF OnConnect, TypeOK
    <3> QED BY <3>1, <3>2, FlagsOf, SockType
  <2>3. queue[s] \o pending[s] \in Seq(Nat)
    BY ConcatProperties DEF TypeOK
  <2>4. queue' \in [Sockets -> Seq(Nat)] /\ pending' \in [Sockets -> Seq(Nat)]
    BY <1>0, <1>10, <2>3 DEF OnConnect, Flush, TypeOK
  <2>5. stack' \in Seq(SocketFrames \cup ServerFrames) /\ closes' \in [Sockets -> Nat]
    BY <1>0, <1>10, EmitType DEF OnConnect
  <2> QED BY <1>10, <2>1, <2>2, <2>4, <2>5 DEF OnConnect, serverVars, TypeOK
<1>11. ASSUME NEW s \in Sockets, OnConnectFails(s) PROVE TypeOK'
  <2>1. uv' \in [Sockets -> Handles]
    <3>1. [uv[s] EXCEPT !.creq = FALSE] \in Handles
      <4>1. uv[s] \in Handles
        BY DEF TypeOK
      <4> QED BY <4>1 DEF Handles
    <3>2. uv' = [uv EXCEPT ![s] = [uv[s] EXCEPT !.creq = FALSE]]
      BY <1>11 DEF OnConnectFails, TypeOK
    <3> QED BY <3>1, <3>2 DEF TypeOK
  <2>2. CASE sock[s].destroyed
    BY <1>11, <2>1, <2>2 DEF OnConnectFails, serverVars, TypeOK
  <2>3. CASE ~sock[s].destroyed
    <3>1. sock' \in [Sockets -> Flags]
      <4>1. sock[s] \in Flags
        BY DEF TypeOK
      <4>2. sock' = [sock EXCEPT ![s] = [sock[s] EXCEPT !.connecting = FALSE, !.endAfter = FALSE]]
        BY <1>11, <2>3 DEF OnConnectFails, TypeOK
      <4> QED BY <4>1, <4>2, FlagsOf, SockType
    <3>2. pending' \in [Sockets -> Seq(Nat)] /\ accepted' \in [Sockets -> Seq(Nat)]
      BY <1>11, <2>3, ClearType DEF OnConnectFails
    <3>3. stack' \in Seq(SocketFrames \cup ServerFrames) /\ closes' \in [Sockets -> Nat]
      BY <1>0, <1>11, <2>3, EmitType DEF OnConnectFails
    <3> QED BY <1>11, <2>1, <3>1, <3>2, <3>3 DEF OnConnectFails, serverVars, TypeOK
  <2> QED BY <2>2, <2>3
<1>12. ASSUME NEW s \in Sockets, OnWriteComplete(s) PROVE TypeOK'
  <2>1. uv' \in [Sockets -> Handles]
    <3>1. uv[s] \in Handles
      BY DEF TypeOK
    <3>2. uv[s].done > 0 => [uv[s] EXCEPT !.done = uv[s].done - 1] \in Handles
      BY <3>1 DEF Handles
    <3>3. uv' = uv \/ (uv[s].done > 0 /\ uv' = [uv EXCEPT ![s] = [uv[s] EXCEPT !.done = uv[s].done - 1]])
      BY <1>12 DEF OnWriteComplete, TypeOK
    <3> QED BY <3>2, <3>3 DEF TypeOK
  <2>2. queue' \in [Sockets -> Seq(Nat)]
    <3>1. queue[s] # <<>> => Tail(queue[s]) \in Seq(Nat)
      BY HeadTailProperties DEF TypeOK
    <3> QED BY <1>12, <3>1 DEF OnWriteComplete, TypeOK
  <2>3. stack' \in Seq(SocketFrames \cup ServerFrames) /\ closes' \in [Sockets -> Nat]
    <3>1. CASE UNCHANGED <<stack, closes>>
      BY <1>0, <3>1 DEF TypeOK
    <3>2. CASE Emit("drain", "on_socket_write_complete", s, stack)
      BY <1>0, <3>2, EmitType
    <3> QED BY <1>12, <3>1, <3>2 DEF OnWriteComplete
  <2> QED BY <1>12, <2>1, <2>2, <2>3 DEF OnWriteComplete, serverVars, TypeOK
<1>13. ASSUME NEW s \in Sockets, OnShutdown(s) PROVE TypeOK'
  <2>1. uv' \in [Sockets -> Handles]
    <3>1. [uv[s] EXCEPT !.shut = "done"] \in Handles
      <4>1. uv[s] \in Handles
        BY DEF TypeOK
      <4> QED BY <4>1 DEF Handles
    <3>2. uv' = [uv EXCEPT ![s] = [uv[s] EXCEPT !.shut = "done"]]
      BY <1>13 DEF OnShutdown, TypeOK
    <3> QED BY <3>1, <3>2 DEF TypeOK
  <2>2. sock' \in [Sockets -> Flags]
    <3>1. sock[s] \in Flags
      BY DEF TypeOK
    <3>2. sock' = [sock EXCEPT ![s] = [sock[s] EXCEPT !.connected = FALSE]]
      BY <1>13 DEF OnShutdown, TypeOK
    <3> QED BY <3>1, <3>2, FlagsOf, SockType
  <2>3. fin' \in [Sockets -> BOOLEAN]
    BY <1>13 DEF OnShutdown, TypeOK, Other
  <2> QED BY <1>13, <2>1, <2>2, <2>3 DEF OnShutdown, serverVars, historyVars, TypeOK
<1>14. ASSUME NEW s \in Sockets, OnData(s) PROVE TypeOK'
  <2>1. Tail(wire[s]) \in Seq(Nat) /\ Append(got[s], Head(wire[s])) \in Seq(Nat)
    <3>1. wire[s] \in Seq(Nat) /\ got[s] \in Seq(Nat) /\ wire[s] # <<>>
      BY <1>14 DEF OnData, TypeOK
    <3> QED BY <3>1, Moves
  <2>2. stack' \in Seq(SocketFrames \cup ServerFrames) /\ closes' \in [Sockets -> Nat]
    BY <1>0, <1>14, EmitType DEF OnData
  <2> QED BY <1>14, <2>1, <2>2 DEF OnData, serverVars, TypeOK
<1>15. ASSUME NEW s \in Sockets, OnEof(s) \/ OnReadError(s) PROVE TypeOK'
  <2>1. uv' \in [Sockets -> Handles]
    <3>1. uv[s] \in Handles
      BY DEF TypeOK
    <3>2. [uv[s] EXCEPT !.reading = FALSE] \in Handles
          /\ [uv[s] EXCEPT !.reading = FALSE, !.writable = FALSE] \in Handles
      BY <3>1 DEF Handles
    <3>3. uv' = [uv EXCEPT ![s] = [uv[s] EXCEPT !.reading = FALSE]]
          \/ uv' = [uv EXCEPT ![s] = [uv[s] EXCEPT !.reading = FALSE, !.writable = FALSE]]
      BY <1>15 DEF OnEof, OnReadError, TypeOK
    <3> QED BY <3>2, <3>3 DEF TypeOK
  <2>2. sock' \in [Sockets -> Flags]
    <3>1. sock[s] \in Flags
      BY DEF TypeOK
    <3>2. \/ sock' = [sock EXCEPT ![s] = [sock[s] EXCEPT !.ended = TRUE]]
          \/ sock' = sock
      BY <1>15 DEF OnEof, OnReadError, TypeOK
    <3> QED BY <3>1, <3>2, FlagsOf, SockType DEF TypeOK
  <2>3. stack' \in Seq(SocketFrames \cup ServerFrames) /\ closes' \in [Sockets -> Nat]
    BY <1>0, <1>15, EmitType DEF OnEof, OnReadError
  <2> QED BY <1>15, <2>1, <2>2, <2>3 DEF OnEof, OnReadError, dataVars, serverVars, TypeOK
<1>16. ASSUME NEW s \in Sockets, OnClosed(s) PROVE TypeOK'
  <2>1. [uv[s] EXCEPT !.handle = "closed"] \in Handles
    <3>1. uv[s] \in Handles
      BY DEF TypeOK
    <3> QED BY <3>1 DEF Handles
  <2>2. uv' = [uv EXCEPT ![s] = [uv[s] EXCEPT !.handle = "closed"]]
    BY <1>16 DEF OnClosed, TypeOK
  <2> QED BY <1>16, <2>1, <2>2 DEF OnClosed, dataVars, serverVars, historyVars, TypeOK
<1>17. CASE OnListenCallbackTimer
  <2>1. stack' \in Seq(SocketFrames \cup ServerFrames) /\ closes' \in [Sockets -> Nat]
    BY <1>0, <1>17, EmitType DEF OnListenCallbackTimer
  <2> QED BY <1>17, <2>1 DEF OnListenCallbackTimer, dataVars, TypeOK
<1>18. CASE OnConnection
  <2>1. stack' \in Seq(SocketFrames \cup ServerFrames) /\ closes' \in [Sockets -> Nat]
    BY <1>0, <1>18, EmitType DEF OnConnection
  <2>2. [Fresh("open") EXCEPT !.reading = TRUE, !.writable = TRUE] \in Handles
    BY DEF Fresh, Handles
  <2>3. uv' \in [Sockets -> Handles]
    BY <1>18, <2>2 DEF OnConnection, TypeOK
  <2>4. sock' \in [Sockets -> Flags]
    <3>1. sock["peer"] \in Flags
      BY DEF TypeOK
    <3>2. sock' = [sock EXCEPT !["peer"] = [sock["peer"] EXCEPT !.connected = TRUE]]
      BY <1>18 DEF OnConnection, TypeOK
    <3> QED BY <3>1, <3>2, FlagsOf, SockType
  <2> QED BY <1>18, <2>1, <2>3, <2>4 DEF OnConnection, dataVars, TypeOK
<1>19. CASE OnServerCloseComplete
  <2>1. stack' \in Seq(SocketFrames \cup ServerFrames) /\ closes' \in [Sockets -> Nat]
    BY <1>0, <1>19, EmitType DEF OnServerCloseComplete
  <2> QED BY <1>19, <2>1 DEF OnServerCloseComplete, dataVars, TypeOK
<1>20. CASE Handshake
  BY <1>20 DEF Handshake, dataVars, historyVars, TypeOK
<1>21. ASSUME NEW s \in Sockets, Transmit(s) PROVE TypeOK'
  <2>1. uv' \in [Sockets -> Handles]
    <3>1. [uv[s] EXCEPT !.done = uv[s].done + 1] \in Handles
      <4>1. uv[s] \in Handles
        BY DEF TypeOK
      <4> QED BY <4>1 DEF Handles
    <3>2. uv' = [uv EXCEPT ![s] = [uv[s] EXCEPT !.done = uv[s].done + 1]]
      BY <1>21 DEF Transmit, TypeOK
    <3> QED BY <3>1, <3>2 DEF TypeOK
  <2>2. Other(s) \in Sockets
    BY DEF Other
  <2>3. Tail(queue[s]) \in Seq(Nat) /\ Append(wire[Other(s)], Head(queue[s])) \in Seq(Nat)
    <3>1. queue[s] \in Seq(Nat) /\ wire[Other(s)] \in Seq(Nat) /\ queue[s] # <<>>
      BY <1>21, <2>2 DEF Transmit, TypeOK
    <3> QED BY <3>1, Moves
  <2>4. queue' \in [Sockets -> Seq(Nat)] /\ wire' \in [Sockets -> Seq(Nat)] /\ reset' \in [Sockets -> BOOLEAN]
    BY <1>21, <2>2, <2>3 DEF Transmit, TypeOK
  <2> QED BY <1>21, <2>1, <2>4 DEF Transmit, serverVars, historyVars, TypeOK
<1>22. ASSUME ConnectReturns \/ EndReturns \/ ServerCloseReturns PROVE TypeOK'
  <2>1. stack # <<>>
    BY <1>22 DEF ConnectReturns, EndReturns, ServerCloseReturns
  <2>2. stack' \in Seq(SocketFrames \cup ServerFrames) /\ closes' \in [Sockets -> Nat]
    <3>1. CASE ConnectReturns
      BY <2>1, <3>1, TopType, EmitType DEF ConnectReturns
    <3>2. CASE EndReturns
      BY <2>1, <3>2, TopType, EmitType DEF EndReturns
    <3>3. CASE ServerCloseReturns
      BY <2>1, <3>3, TopType, EmitType DEF ServerCloseReturns
    <3> QED BY <1>22, <3>1, <3>2, <3>3
  <2> QED BY <1>22, <2>2 DEF ConnectReturns, EndReturns, ServerCloseReturns, dataVars, serverVars, TypeOK
<1>23. CASE ReadyReturns
  <2>1. Top.of \in Sockets /\ Below \in Seq(SocketFrames \cup ServerFrames)
    BY <1>23, TopType DEF ReadyReturns
  <2>2. uv' \in [Sockets -> Handles]
    <3>1. uv[Top.of] \in Handles
      BY <2>1 DEF TypeOK
    <3>2. [uv[Top.of] EXCEPT !.shut = "asked", !.writable = FALSE] \in Handles
      BY <3>1 DEF Handles
    <3>3. uv' = uv \/ uv' = [uv EXCEPT ![Top.of] = [uv[Top.of] EXCEPT !.shut = "asked", !.writable = FALSE]]
      BY <1>23, <2>1 DEF ReadyReturns, Shutdown, TypeOK
    <3> QED BY <2>1, <3>2, <3>3 DEF TypeOK
  <2>3. sock' \in [Sockets -> Flags]
    <3>1. sock[Top.of] \in Flags
      BY <2>1 DEF TypeOK
    <3>2. \/ sock' = [sock EXCEPT ![Top.of] = [sock[Top.of] EXCEPT !.connected = FALSE, !.endAfter = FALSE]]
          \/ sock' = sock
      BY <1>23, <2>1, <2>1, <3>1 DEF ReadyReturns, TypeOK
    <3> QED BY <2>1, <3>1, <3>2, FlagsOf, SockType DEF TypeOK
  <2> QED BY <1>23, <2>1, <2>2, <2>3 DEF ReadyReturns, dataVars, serverVars, historyVars, TypeOK
<1>24. CASE CloseReturns
  <2>1. Top.of \in Sockets /\ Below \in Seq(SocketFrames \cup ServerFrames)
    BY <1>24, TopType DEF CloseReturns
  <2>2. sock' \in [Sockets -> Flags]
    <3>1. sock[Top.of] \in Flags
      BY <2>1 DEF TypeOK
    <3>2. sock' = [sock EXCEPT ![Top.of] = [sock[Top.of] EXCEPT !.connected = FALSE]]
      BY <1>24, <2>1, <2>1, <3>1 DEF CloseReturns, TypeOK
    <3> QED BY <2>1, <3>1, <3>2, FlagsOf, SockType
  <2>3. uv' \in [Sockets -> Handles] /\ wire' \in [Sockets -> Seq(Nat)]
        /\ fin' \in [Sockets -> BOOLEAN] /\ reset' \in [Sockets -> BOOLEAN]
    <3>1. CASE Open(Top.of)
      BY <1>24, <2>1, <3>1, ClosingType, HangupType DEF CloseReturns
    <3>2. CASE ~Open(Top.of)
      BY <1>24, <3>2 DEF CloseReturns, TypeOK
    <3> QED BY <3>1, <3>2
  <2> QED BY <1>24, <2>1, <2>2, <2>3 DEF CloseReturns, serverVars, historyVars, TypeOK
<1>25. ASSUME ListeningReturns \/ OtherReturns PROVE TypeOK'
  <2>1. Below \in Seq(SocketFrames \cup ServerFrames)
    BY <1>25, TopType DEF ListeningReturns, OtherReturns
  <2> QED BY <1>25, <2>1 DEF ListeningReturns, OtherReturns, dataVars, serverVars, historyVars, TypeOK
<1> QED
  BY <1>1, <1>2, <1>3, <1>4, <1>5, <1>6, <1>7, <1>8, <1>9, <1>10, <1>11, <1>12, <1>13, <1>14, <1>15,
     <1>16, <1>17, <1>18, <1>19, <1>20, <1>21, <1>22, <1>23, <1>24, <1>25
  DEF Next, Returns, ScriptStep, LoopStep, NetworkStep

\* The variables keep their types.
THEOREM TypeCorrect == Spec => []TypeOK
<1>1. Init => TypeOK
  BY InitType
<1>2. TypeOK /\ [Next]_vars => TypeOK'
  BY StepType
<1> QED BY <1>1, <1>2, PTL DEF Spec

-----------------------------------------------------------------------------
(* What the flags say.                                                     *)

\* Steps that change no flag, and nothing on the way, except that the
\* connection goes on.
Idle ==
    /\ UNCHANGED <<sock, uv, pending, queue, wire, fin, accepted, got>>
    /\ \A s \in Sockets : reset[s] => reset'[s]
    /\ tcp' # tcp => tcp \in {"none", "backlog"} /\ tcp' \in {"backlog", "lost"}

LEMMA IdleSteps ==
    ASSUME TypeOK,
           \/ UNCHANGED vars \/ \E ok \in BOOLEAN : Listen(ok)
           \/ ServerClose \/ OnListenCallbackTimer \/ OnServerCloseComplete
           \/ ConnectReturns \/ EndReturns \/ ListeningReturns \/ ServerCloseReturns \/ OtherReturns
           \/ Handshake
    PROVE  Idle
<1>1. CASE UNCHANGED vars
  BY <1>1 DEF vars, dataVars, serverVars, historyVars, Idle
<1>2. ASSUME NEW ok \in BOOLEAN, Listen(ok) PROVE Idle
  BY <1>2 DEF Listen, dataVars, Idle
<1>3. CASE ServerClose
  <2>1. \A s \in Sockets : reset[s] => reset'[s]
    BY <1>3 DEF ServerClose, TypeOK, Sockets
  <2>2. tcp' # tcp => tcp \in {"none", "backlog"} /\ tcp' \in {"backlog", "lost"}
    BY <1>3 DEF ServerClose
  <2> QED BY <1>3, <2>1, <2>2 DEF ServerClose, Idle
<1>4. CASE OnListenCallbackTimer \/ OnServerCloseComplete
  BY <1>4 DEF OnListenCallbackTimer, OnServerCloseComplete, dataVars, Idle
<1>5. CASE ConnectReturns \/ EndReturns \/ ServerCloseReturns
  BY <1>5 DEF ConnectReturns, EndReturns, ServerCloseReturns, dataVars, serverVars, Idle
<1>6. CASE ListeningReturns \/ OtherReturns
  BY <1>6 DEF ListeningReturns, OtherReturns, dataVars, serverVars, historyVars, Idle
<1>7. CASE Handshake
  BY <1>7 DEF Handshake, dataVars, historyVars, Idle
<1> QED BY <1>1, <1>2, <1>3, <1>4, <1>5, <1>6, <1>7

\* Pending writes are thrown away, and what was accepted before them is kept.
LEMMA ClearEffect ==
    ASSUME TypeOK, NEW s \in Sockets, ClearPending(s), NEW q \in Sockets
    PROVE  /\ pending'[q] = IF q = s THEN <<>> ELSE pending[q]
           /\ q # s => accepted'[q] = accepted[q]
           /\ \A a \in Seq(Nat) : accepted[s] = a \o pending[s] => accepted'[s] = a
<1>1. pending'[q] = IF q = s THEN <<>> ELSE pending[q]
  BY DEF ClearPending, TypeOK
<1>2. q # s => accepted'[q] = accepted[q]
  BY DEF ClearPending, TypeOK
<1>3. ASSUME NEW a \in Seq(Nat), accepted[s] = a \o pending[s] PROVE accepted'[s] = a
  <2>1. accepted'[s] = SubSeq(accepted[s], 1, Len(accepted[s]) - Len(pending[s]))
    BY DEF ClearPending, TypeOK
  <2>2. pending[s] \in Seq(Nat)
    BY DEF TypeOK
  <2> QED BY <1>3, <2>1, <2>2, CutOff
<1> QED BY <1>1, <1>2, <1>3

\* A handle is closed.
LEMMA HangsUp ==
    ASSUME TypeOK, NEW s \in Sockets, NEW q \in Sockets, SettledAt(q),
           Hangup(s), uv' = Closing(s), UNCHANGED <<queue, tcp>>,
           pending'[q] = pending[q] \/ pending'[q] = <<>>,
           (sock'[q].connected => sock[q].connected) /\ sock'[q].ended = sock[q].ended
    PROVE  SettledAt(q)'
<1>1. Other(s) \in Sockets /\ Other(s) # s /\ (q # s => q = Other(s)) /\ Other(q) \in Sockets
      /\ (q # s => Other(q) = s) /\ (q = s => Other(q) = Other(s))
  BY DEF Other, Sockets
<1>2. uv[q] \in Handles
  BY DEF TypeOK
<1>3. /\ q # s => uv'[q] = uv[q]
      /\ q = s => /\ uv'[q].handle = "closing" /\ ~uv'[q].reading
                  /\ uv'[q].writable = uv[q].writable /\ uv'[q].shut = uv[q].shut
  BY <1>2 DEF Closing, TypeOK, Handles
<1>4. /\ fin'[s] = fin[s] /\ wire'[q] = (IF q = s THEN <<>> ELSE wire[q])
      /\ (fin[q] => fin'[q]) /\ (fin'[q] => fin[q] \/ tcp # "none")
  BY <1>1 DEF Hangup, TypeOK
<1> QED BY <1>1, <1>3, <1>4 DEF SettledAt

\* A connection is to be shut down.
LEMMA ShutsDown ==
    ASSUME TypeOK, NEW s \in Sockets, NEW q \in Sockets, SettledAt(q),
           uv' = uv \/ uv' = Shutdown(s), UNCHANGED <<dataVars, tcp>>,
           (sock'[q].connected => sock[q].connected) /\ sock'[q].ended = sock[q].ended
    PROVE  SettledAt(q)'
<1>1. uv[q] \in Handles /\ uv[s] \in Handles
  BY DEF TypeOK
<1>2. /\ uv'[q].handle = uv[q].handle /\ uv'[q].reading = uv[q].reading /\ uv'[q].creq = uv[q].creq
      /\ \/ uv'[q].writable = uv[q].writable /\ uv'[q].shut = uv[q].shut
         \/ /\ uv[q].handle = "open" /\ uv[q].writable
            /\ ~uv'[q].writable /\ uv'[q].shut = "asked"
  <2>1. \/ uv' = uv
        \/ /\ uv[s].handle = "open" /\ uv[s].writable
           /\ uv' = [uv EXCEPT ![s].shut = "asked", ![s].writable = FALSE]
    BY DEF Shutdown, Open
  <2>2. CASE uv' = uv
    BY <2>2
  <2>3. CASE /\ uv[s].handle = "open" /\ uv[s].writable
             /\ uv' = [uv EXCEPT ![s].shut = "asked", ![s].writable = FALSE]
    BY <1>1, <2>3 DEF TypeOK, Handles
  <2> QED BY <2>1, <2>2, <2>3
<1>3. UNCHANGED <<pending, queue, wire, fin, tcp>>
  BY DEF dataVars
<1> QED BY <1>2, <1>3 DEF SettledAt

\* Every step leaves the sockets as their flags say.
LEMMA SettledStep == TypeOK /\ Settled /\ PeerMade /\ [Next]_vars => Settled'
<1> SUFFICES ASSUME TypeOK, Settled, PeerMade, [Next]_vars, NEW q \in Sockets PROVE SettledAt(q)'
  BY DEF Settled
<1>a. SettledAt(q) /\ Other(q) \in Sockets /\ Other(q) # q /\ Other(Other(q)) = q
  BY DEF Settled, Other, Sockets
<1>b. sock[q] \in Flags /\ uv[q] \in Handles
  BY DEF TypeOK
<1>1. CASE Idle
  BY <1>a, <1>1 DEF Idle, SettledAt
<1>2. ASSUME NEW s \in Sockets, NEW dns \in BOOLEAN, NEW ok \in BOOLEAN, Connect(s, dns, ok)
      PROVE SettledAt(q)'
  <2>1. sock[s] \in Flags /\ uv[s] \in Handles
    BY DEF TypeOK
  <2>2. pending'[q] = IF q = s THEN <<>> ELSE pending[q]
    BY <1>2, ClearEffect DEF Connect
  <2>3. (sock'[q].connected => sock[q].connected) /\ sock'[q].ended = sock[q].ended
    BY <1>2, <1>b, <2>1 DEF Connect, TypeOK, Flags
  <2>4. CASE ok
    <3>1. /\ uv'[q].handle = uv[q].handle /\ uv'[q].reading = uv[q].reading
          /\ uv'[q].writable = uv[q].writable /\ uv'[q].shut = uv[q].shut
          /\ uv'[q].creq => uv[q].creq \/ tcp = "none"
      <4>1. \/ uv' = [uv EXCEPT ![s].dns = TRUE]
            \/ tcp = "none" /\ uv' = [uv EXCEPT ![s].creq = TRUE]
        BY <1>2, <2>4 DEF Connect, Busy
      <4>2. CASE uv' = [uv EXCEPT ![s].dns = TRUE]
        BY <1>b, <2>1, <4>2 DEF TypeOK, Handles
      <4>3. CASE tcp = "none" /\ uv' = [uv EXCEPT ![s].creq = TRUE]
        BY <1>b, <2>1, <4>3 DEF TypeOK, Handles
      <4> QED BY <4>1, <4>2, <4>3
    <3>2. UNCHANGED <<queue, wire, fin, tcp>>
      BY <1>2, <2>4 DEF Connect, serverVars
    <3> QED BY <1>a, <2>2, <2>3, <3>1, <3>2 DEF SettledAt
  <2>5. CASE ~ok
    <3>1. uv' = Closing(s) /\ Hangup(s) /\ UNCHANGED <<queue, tcp>>
      BY <1>2, <2>5 DEF Connect, serverVars
    <3> QED BY <1>a, <2>2, <2>3, <3>1, HangsUp
  <2> QED BY <2>4, <2>5
<1>3. ASSUME NEW s \in Sockets, Write(s) PROVE SettledAt(q)'
  BY <1>3, <1>a, <1>b DEF Write, Open, SettledAt, serverVars, TypeOK
<1>4. ASSUME NEW s \in Sockets, End(s) PROVE SettledAt(q)'
  <2>1. (sock'[q].connected => sock[q].connected) /\ sock'[q].ended = sock[q].ended
    <3>1. \/ sock' = [sock EXCEPT ![s].connected = FALSE]
          \/ sock' = [sock EXCEPT ![s].endAfter = TRUE]
      BY <1>4 DEF End
    <3>2. CASE sock' = [sock EXCEPT ![s].connected = FALSE]
      BY <1>b, <3>2 DEF TypeOK, Flags
    <3>3. CASE sock' = [sock EXCEPT ![s].endAfter = TRUE]
      BY <1>b, <3>3 DEF TypeOK, Flags
    <3> QED BY <3>1, <3>2, <3>3
  <2>2. uv' = uv \/ uv' = Shutdown(s)
    BY <1>4 DEF End
  <2>3. UNCHANGED <<dataVars, tcp>>
    BY <1>4 DEF End, serverVars
  <2> QED BY <1>a, <2>1, <2>2, <2>3, ShutsDown
<1>5. ASSUME NEW s \in Sockets, Pause(s) PROVE SettledAt(q)'
  BY <1>5, <1>a, <1>b DEF Pause, SettledAt, dataVars, serverVars, TypeOK, Flags, Handles
<1>6. ASSUME NEW s \in Sockets, Resume(s) PROVE SettledAt(q)'
  BY <1>6, <1>a, <1>b DEF Resume, Open, SettledAt, dataVars, serverVars, TypeOK, Flags, Handles
<1>7. ASSUME NEW s \in Sockets, Destroy(s) PROVE SettledAt(q)'
  <2>3. pending'[q] = IF q = s THEN <<>> ELSE pending[q]
    BY <1>7, ClearEffect DEF Destroy
  <2>4. (sock'[q].connected => sock[q].connected) /\ sock'[q].ended = sock[q].ended
    BY <1>7, <1>b DEF Destroy, TypeOK, Flags
  <2>1. CASE Open(s)
    <3>1. uv' = Closing(s) /\ Hangup(s) /\ UNCHANGED <<queue, tcp>>
      BY <1>7, <2>1 DEF Destroy, serverVars
    <3> QED BY <1>a, <2>3, <2>4, <3>1, HangsUp
  <2>2. CASE ~Open(s)
    <3>1. UNCHANGED <<uv, wire, fin, queue, tcp>>
      BY <1>7, <2>2 DEF Destroy, serverVars
    <3> QED BY <1>a, <2>3, <2>4, <3>1 DEF SettledAt
  <2> QED BY <2>1, <2>2
<1>8. ASSUME NEW s \in Sockets, NEW ok \in BOOLEAN, OnGetaddrinfo(s, ok) PROVE SettledAt(q)'
  <2>1. pending'[q] = pending[q] \/ pending'[q] = <<>>
    BY <1>8, ClearEffect DEF OnGetaddrinfo, ConnectError
  <2>2. sock'[q].connected = sock[q].connected /\ sock'[q].ended = sock[q].ended
    <3>1. \/ sock' = sock
          \/ sock' = [sock EXCEPT ![s].connecting = FALSE]
      BY <1>8 DEF OnGetaddrinfo, ConnectError
    <3>2. CASE sock' = sock
      BY <1>b, <3>2 DEF TypeOK, Flags
    <3>3. CASE sock' = [sock EXCEPT ![s].connecting = FALSE]
      BY <1>b, <3>3 DEF TypeOK, Flags
    <3> QED BY <3>1, <3>2, <3>3
  <2>3. uv[s] \in Handles
    BY DEF TypeOK
  <2>4. /\ uv'[q].handle = uv[q].handle /\ uv'[q].reading = uv[q].reading
        /\ uv'[q].writable = uv[q].writable /\ uv'[q].shut = uv[q].shut
        /\ uv'[q].creq => uv[q].creq \/ tcp = "none"
    <3>1. \/ uv' = [uv EXCEPT ![s].dns = FALSE]
          \/ tcp = "none" /\ uv' = [uv EXCEPT ![s].dns = FALSE, ![s].creq = TRUE]
      BY <1>8 DEF OnGetaddrinfo, Busy
    <3>2. CASE uv' = [uv EXCEPT ![s].dns = FALSE]
      BY <1>b, <2>3, <3>2 DEF TypeOK, Handles
    <3>3. CASE tcp = "none" /\ uv' = [uv EXCEPT ![s].dns = FALSE, ![s].creq = TRUE]
      BY <1>b, <2>3, <3>3 DEF TypeOK, Handles
    <3> QED BY <3>1, <3>2, <3>3
  <2>5. UNCHANGED <<queue, wire, fin, tcp>>
    BY <1>8 DEF OnGetaddrinfo, serverVars
  <2> QED BY <1>a, <2>1, <2>2, <2>4, <2>5 DEF SettledAt
<1>9. ASSUME NEW s \in Sockets, OnConnect(s) PROVE SettledAt(q)'
  BY <1>9, <1>a, <1>b DEF OnConnect, Flush, Open, SettledAt, serverVars, TypeOK, Flags, Handles
<1>10. ASSUME NEW s \in Sockets, OnConnectFails(s) PROVE SettledAt(q)'
  <2>1. pending'[q] = pending[q] \/ pending'[q] = <<>>
    BY <1>10, ClearEffect DEF OnConnectFails
  <2>2. sock'[q].connected = sock[q].connected /\ sock'[q].ended = sock[q].ended
    <3>1. \/ sock' = sock
          \/ sock' = [sock EXCEPT ![s].connecting = FALSE, ![s].endAfter = FALSE]
      BY <1>10 DEF OnConnectFails
    <3>2. CASE sock' = sock
      BY <1>b, <3>2 DEF TypeOK, Flags
    <3>3. CASE sock' = [sock EXCEPT ![s].connecting = FALSE, ![s].endAfter = FALSE]
      BY <1>b, <3>3 DEF TypeOK, Flags
    <3> QED BY <3>1, <3>2, <3>3
  <2>3. uv[s] \in Handles
    BY DEF TypeOK
  <2>4. /\ uv'[q].handle = uv[q].handle /\ uv'[q].reading = uv[q].reading
        /\ uv'[q].writable = uv[q].writable /\ uv'[q].shut = uv[q].shut
        /\ uv'[q].creq => uv[q].creq
    BY <1>10, <1>b, <2>3 DEF OnConnectFails, TypeOK, Handles
  <2>5. UNCHANGED <<queue, wire, fin, tcp>>
    BY <1>10 DEF OnConnectFails, serverVars
  <2> QED BY <1>a, <2>1, <2>2, <2>4, <2>5 DEF SettledAt
<1>11. ASSUME NEW s \in Sockets, OnWriteComplete(s) PROVE SettledAt(q)'
  <2>1. uv[s] \in Handles
    BY DEF TypeOK
  <2>2. /\ uv'[q].handle = uv[q].handle /\ uv'[q].reading = uv[q].reading
        /\ uv'[q].writable = uv[q].writable /\ uv'[q].shut = uv[q].shut /\ uv'[q].creq = uv[q].creq
    <3>1. \/ uv' = uv
          \/ uv' = [uv EXCEPT ![s].done = @ - 1]
      BY <1>11 DEF OnWriteComplete
    <3>2. CASE uv' = uv
      BY <1>b, <2>1, <3>2 DEF TypeOK, Handles
    <3>3. CASE uv' = [uv EXCEPT ![s].done = @ - 1]
      BY <1>b, <2>1, <3>3 DEF TypeOK, Handles
    <3> QED BY <3>1, <3>2, <3>3
  <2>3. queue'[q] = queue[q] \/ (queue[q] # <<>> /\ uv[q].handle = "closing")
    BY <1>11 DEF OnWriteComplete, TypeOK
  <2>4. UNCHANGED <<sock, pending, wire, fin, tcp>>
    BY <1>11 DEF OnWriteComplete, serverVars
  <2> QED BY <1>a, <2>2, <2>3, <2>4 DEF SettledAt
<1>12. ASSUME NEW s \in Sockets, OnShutdown(s) PROVE SettledAt(q)'
  <2>1. SettledAt(s) /\ uv[s] \in Handles /\ sock[s] \in Flags
    BY DEF Settled, TypeOK
  <2>2. (sock'[q].connected => sock[q].connected) /\ sock'[q].ended = sock[q].ended
    BY <1>12, <1>b, <2>1 DEF OnShutdown, TypeOK, Flags
  <2>3. /\ uv'[q].handle = uv[q].handle /\ uv'[q].reading = uv[q].reading
        /\ uv'[q].writable = uv[q].writable /\ uv'[q].creq = uv[q].creq
        /\ uv'[q].shut = IF q = s THEN "done" ELSE uv[q].shut
    BY <1>12, <1>b, <2>1 DEF OnShutdown, TypeOK, Handles
  <2>4. UNCHANGED <<pending, queue, wire, tcp>>
    BY <1>12 DEF OnShutdown, serverVars
  <2>5. Other(s) \in Sockets /\ (q # s => q = Other(s))
    BY DEF Other, Sockets
  <2>6. fin'[q] = (fin[q] \/ (q = Other(s) /\ ~reset[s])) /\ (fin'[Other(q)] => fin[Other(q)] \/ q = s)
    BY <1>12, <1>a, <2>5 DEF OnShutdown, TypeOK
  <2>7. uv[s].shut = "asked" /\ queue[s] = <<>> /\ uv[s].handle = "open"
    BY <1>12 DEF OnShutdown, Open
  <2> QED BY <1>a, <2>1, <2>2, <2>3, <2>4, <2>5, <2>6, <2>7 DEF SettledAt
<1>13. ASSUME NEW s \in Sockets, OnData(s) PROVE SettledAt(q)'
  BY <1>13, <1>a, <1>b DEF OnData, SettledAt, serverVars, TypeOK
<1>14. ASSUME NEW s \in Sockets, OnEof(s) PROVE SettledAt(q)'
  BY <1>14, <1>a, <1>b DEF OnEof, SettledAt, dataVars, serverVars, TypeOK, Flags, Handles
<1>15. ASSUME NEW s \in Sockets, OnReadError(s) PROVE SettledAt(q)'
  BY <1>15, <1>a, <1>b DEF OnReadError, SettledAt, dataVars, serverVars, TypeOK, Handles
<1>16. ASSUME NEW s \in Sockets, OnClosed(s) PROVE SettledAt(q)'
  BY <1>16, <1>a, <1>b DEF OnClosed, SettledAt, dataVars, serverVars, TypeOK, Handles
<1>17. CASE OnConnection
  BY <1>17, <1>a, <1>b DEF OnConnection, SettledAt, PeerMade, Fresh, Other, Sockets, dataVars, TypeOK, Flags, Handles
<1>18. ASSUME NEW s \in Sockets, Transmit(s) PROVE SettledAt(q)'
  <2>1. SettledAt(s) /\ Other(s) \in Sockets /\ Other(Other(s)) = s
    BY DEF Settled, Other, Sockets
  <2>2. SettledAt(Other(s))
    BY <2>1 DEF Settled
  <2> QED BY <1>18, <1>a, <1>b, <2>1, <2>2 DEF Transmit, Open, SettledAt, serverVars, TypeOK, Handles
<1>19. CASE ReadyReturns
  <2>1. Top.of \in Sockets
    BY <1>19, TopType DEF ReadyReturns
  <2>2. (sock'[q].connected => sock[q].connected) /\ sock'[q].ended = sock[q].ended
    <3>1. \/ sock' = sock
          \/ sock' = [sock EXCEPT ![Top.of].connected = FALSE, ![Top.of].endAfter = FALSE]
      BY <1>19 DEF ReadyReturns
    <3>2. CASE sock' = sock
      BY <1>b, <2>1, <3>2 DEF TypeOK, Flags
    <3>3. CASE sock' = [sock EXCEPT ![Top.of].connected = FALSE, ![Top.of].endAfter = FALSE]
      BY <1>b, <2>1, <3>3 DEF TypeOK, Flags
    <3> QED BY <3>1, <3>2, <3>3
  <2>3. uv' = uv \/ uv' = Shutdown(Top.of)
    BY <1>19 DEF ReadyReturns
  <2>4. UNCHANGED <<dataVars, tcp>>
    BY <1>19 DEF ReadyReturns, serverVars
  <2> QED BY <1>a, <2>1, <2>2, <2>3, <2>4, ShutsDown
<1>20. CASE CloseReturns
  <2>1. Top.of \in Sockets
    BY <1>20, TopType DEF CloseReturns
  <2>4. (sock'[q].connected => sock[q].connected) /\ sock'[q].ended = sock[q].ended
    BY <1>20, <1>b, <2>1 DEF CloseReturns, TypeOK, Flags
  <2>2. CASE Open(Top.of)
    <3>1. uv' = Closing(Top.of) /\ Hangup(Top.of) /\ UNCHANGED <<pending, queue, tcp>>
      BY <1>20, <2>2 DEF CloseReturns, serverVars
    <3> QED BY <1>a, <2>1, <2>4, <3>1, HangsUp
  <2>3. CASE ~Open(Top.of)
    <3>1. UNCHANGED <<uv, wire, fin, pending, queue, tcp>>
      BY <1>20, <2>3 DEF CloseReturns, serverVars
    <3> QED BY <1>a, <2>4, <3>1 DEF SettledAt
  <2> QED BY <2>2, <2>3
<1> QED
  BY <1>1, <1>2, <1>3, <1>4, <1>5, <1>6, <1>7, <1>8, <1>9, <1>10, <1>11, <1>12, <1>13, <1>14, <1>15,
     <1>16, <1>17, <1>18, <1>19, <1>20, IdleSteps
  DEF Next, Returns, ScriptStep, LoopStep, NetworkStep

-----------------------------------------------------------------------------
(* Handles are closed, connections lost, and not the other way round.      *)

LEMMA Ages ==
    ASSUME TypeOK, [Next]_vars, ~OnConnection, NEW r \in Sockets
    PROVE  /\ uv'[r].handle = "open" => uv[r].handle = "open"
           /\ uv'[r].handle = "none" <=> uv[r].handle = "none"
           /\ reset[r] => reset'[r]
           /\ tcp = "lost" => tcp' = "lost"
           /\ tcp' = "accepted" <=> tcp = "accepted"
<1> DEFINE Handle == /\ uv'[r].handle = "open" => uv[r].handle = "open"
                     /\ uv'[r].handle = "none" <=> uv[r].handle = "none"
           Reset == reset[r] => reset'[r]
<1>a. uv[r] \in Handles /\ Other(r) \in Sockets
  BY DEF TypeOK, Other, Sockets
<1>b. ASSUME NEW s \in Sockets, uv[s].handle \in {"open", "closing"}, uv' = Closing(s), Hangup(s)
      PROVE  Handle /\ Reset
  BY <1>a, <1>b DEF Closing, Hangup, TypeOK, Handles
<1>c. ASSUME NEW s \in Sockets, uv' = uv \/ uv' = Shutdown(s) PROVE Handle
  <2>1. \/ uv' = uv
        \/ uv' = [uv EXCEPT ![s].shut = "asked", ![s].writable = FALSE]
    BY <1>c DEF Shutdown
  <2>2. CASE uv' = uv
    BY <2>2
  <2>3. CASE uv' = [uv EXCEPT ![s].shut = "asked", ![s].writable = FALSE]
    BY <1>a, <2>3 DEF TypeOK, Handles
  <2> QED BY <2>1, <2>2, <2>3
<1>1. CASE Idle
  BY <1>1 DEF Idle, Sockets
<1>2. ASSUME NEW s \in Sockets, NEW dns \in BOOLEAN, NEW ok \in BOOLEAN, Connect(s, dns, ok)
      PROVE Handle /\ Reset /\ tcp' = tcp
  <2>1. tcp' = tcp /\ uv[s].handle # "none"
    BY <1>2 DEF Connect, serverVars
  <2>2. CASE ok
    <3>1. uv' = [uv EXCEPT ![s].dns = TRUE] \/ uv' = [uv EXCEPT ![s].creq = TRUE]
      BY <1>2, <2>2 DEF Connect
    <3>2. CASE uv' = [uv EXCEPT ![s].dns = TRUE]
      BY <1>2, <1>a, <2>1, <2>2, <3>2 DEF Connect, TypeOK, Handles
    <3>3. CASE uv' = [uv EXCEPT ![s].creq = TRUE]
      BY <1>2, <1>a, <2>1, <2>2, <3>3 DEF Connect, TypeOK, Handles
    <3> QED BY <3>1, <3>2, <3>3
  <2>3. CASE ~ok
    <3>1. uv' = [uv EXCEPT ![s].handle = "closing", ![s].reading = FALSE] /\ Hangup(s)
      BY <1>2, <2>3 DEF Connect, Closing
    <3>2. Handle
      BY <1>a, <2>1, <3>1 DEF TypeOK, Handles
    <3>3. Reset
      BY <1>a, <3>1 DEF Hangup, TypeOK
    <3> QED BY <2>1, <3>2, <3>3
  <2> QED BY <2>2, <2>3
<1>3. ASSUME NEW s \in Sockets, Write(s) PROVE Handle /\ Reset /\ tcp' = tcp
  BY <1>3 DEF Write, serverVars
<1>4. ASSUME NEW s \in Sockets, End(s) PROVE Handle /\ Reset /\ tcp' = tcp
  BY <1>4, <1>c DEF End, dataVars, serverVars
<1>5. ASSUME NEW s \in Sockets, Pause(s) \/ Resume(s) PROVE Handle /\ Reset /\ tcp' = tcp
  <2>1. \/ uv' = [uv EXCEPT ![s].reading = FALSE]
        \/ uv' = [uv EXCEPT ![s].reading = Open(s)]
    BY <1>5 DEF Pause, Resume
  <2>2. CASE uv' = [uv EXCEPT ![s].reading = FALSE]
    BY <1>a, <1>5, <2>2 DEF Pause, Resume, dataVars, serverVars, TypeOK, Handles
  <2>3. CASE uv' = [uv EXCEPT ![s].reading = Open(s)]
    BY <1>a, <1>5, <2>3 DEF Pause, Resume, dataVars, serverVars, TypeOK, Handles
  <2> QED BY <2>1, <2>2, <2>3
<1>6. ASSUME NEW s \in Sockets, Destroy(s) PROVE Handle /\ Reset /\ tcp' = tcp
  <2>1. CASE Open(s)
    <3>1. uv[s].handle = "open" /\ uv' = Closing(s) /\ Hangup(s) /\ tcp' = tcp
      BY <1>6, <2>1 DEF Destroy, Open, serverVars
    <3> QED BY <3>1, <1>b
  <2>2. CASE ~Open(s)
    BY <1>6, <2>2 DEF Destroy, serverVars
  <2> QED BY <2>1, <2>2
<1>7. ASSUME NEW s \in Sockets, NEW ok \in BOOLEAN, OnGetaddrinfo(s, ok) PROVE Handle /\ Reset /\ tcp' = tcp
  <2>1. \/ uv' = [uv EXCEPT ![s].dns = FALSE]
        \/ uv' = [uv EXCEPT ![s].dns = FALSE, ![s].creq = TRUE]
    BY <1>7 DEF OnGetaddrinfo
  <2>2. CASE uv' = [uv EXCEPT ![s].dns = FALSE]
    BY <1>7, <1>a, <2>2 DEF OnGetaddrinfo, serverVars, TypeOK, Handles
  <2>3. CASE uv' = [uv EXCEPT ![s].dns = FALSE, ![s].creq = TRUE]
    BY <1>7, <1>a, <2>3 DEF OnGetaddrinfo, serverVars, TypeOK, Handles
  <2> QED BY <2>1, <2>2, <2>3
<1>8. ASSUME NEW s \in Sockets, OnConnect(s) PROVE Handle /\ Reset /\ tcp' = tcp
  BY <1>8, <1>a DEF OnConnect, serverVars, TypeOK, Handles
<1>9. ASSUME NEW s \in Sockets, OnConnectFails(s) PROVE Handle /\ Reset /\ tcp' = tcp
  <2>1. uv' = [uv EXCEPT ![s].creq = FALSE] /\ reset' = reset /\ tcp' = tcp
    BY <1>9 DEF OnConnectFails, serverVars
  <2> QED BY <1>a, <2>1 DEF TypeOK, Handles
<1>10. ASSUME NEW s \in Sockets, OnWriteComplete(s) PROVE Handle /\ Reset /\ tcp' = tcp
  <2>1. uv' = uv \/ uv' = [uv EXCEPT ![s].done = @ - 1]
    BY <1>10 DEF OnWriteComplete
  <2>2. reset' = reset /\ tcp' = tcp
    BY <1>10 DEF OnWriteComplete, serverVars
  <2>3. CASE uv' = uv
    BY <2>2, <2>3
  <2>4. CASE uv' = [uv EXCEPT ![s].done = @ - 1]
    BY <1>a, <2>2, <2>4 DEF TypeOK, Handles
  <2> QED BY <2>1, <2>3, <2>4
<1>11. ASSUME NEW s \in Sockets, OnShutdown(s) PROVE Handle /\ Reset /\ tcp' = tcp
  <2>1. uv' = [uv EXCEPT ![s].shut = "done"] /\ reset' = reset /\ tcp' = tcp
    BY <1>11 DEF OnShutdown, serverVars
  <2> QED BY <1>a, <2>1 DEF TypeOK, Handles
<1>12. ASSUME NEW s \in Sockets, OnData(s) PROVE Handle /\ Reset /\ tcp' = tcp
  BY <1>12 DEF OnData, serverVars
<1>13. ASSUME NEW s \in Sockets, OnEof(s) PROVE Handle /\ Reset /\ tcp' = tcp
  BY <1>13, <1>a DEF OnEof, dataVars, serverVars, TypeOK, Handles
<1>14. ASSUME NEW s \in Sockets, OnReadError(s) PROVE Handle /\ Reset /\ tcp' = tcp
  BY <1>14, <1>a DEF OnReadError, dataVars, serverVars, TypeOK, Handles
<1>15. ASSUME NEW s \in Sockets, OnClosed(s) PROVE Handle /\ Reset /\ tcp' = tcp
  BY <1>15, <1>a DEF OnClosed, dataVars, serverVars, TypeOK, Handles
<1>16. ASSUME NEW s \in Sockets, Transmit(s) PROVE Handle /\ Reset /\ tcp' = tcp
  <2>1. uv' = [uv EXCEPT ![s].done = @ + 1] /\ tcp' = tcp
    BY <1>16 DEF Transmit, serverVars
  <2>2. Handle
    BY <1>a, <2>1 DEF TypeOK, Handles
  <2>3. Reset
    BY <1>16, <1>a DEF Transmit, TypeOK
  <2> QED BY <2>1, <2>2, <2>3
<1>17. CASE ReadyReturns
  <2>1. Top.of \in Sockets
    BY <1>17, TopType DEF ReadyReturns
  <2>2. uv' = uv \/ uv' = Shutdown(Top.of)
    BY <1>17 DEF ReadyReturns
  <2>3. reset' = reset /\ tcp' = tcp
    BY <1>17 DEF ReadyReturns, dataVars, serverVars
  <2> QED BY <1>c, <2>1, <2>2, <2>3
<1>18. CASE CloseReturns
  <2>1. Top.of \in Sockets
    BY <1>18, TopType DEF CloseReturns
  <2>2. CASE Open(Top.of)
    <3>1. uv[Top.of].handle = "open" /\ uv' = Closing(Top.of) /\ Hangup(Top.of) /\ tcp' = tcp
      BY <1>18, <2>2 DEF CloseReturns, Open, serverVars
    <3> QED BY <1>b, <2>1, <3>1
  <2>3. CASE ~Open(Top.of)
    BY <1>18, <2>3 DEF CloseReturns, serverVars
  <2> QED BY <2>2, <2>3
<1> QED
  BY <1>1, <1>2, <1>3, <1>4, <1>5, <1>6, <1>7, <1>8, <1>9, <1>10, <1>11, <1>12, <1>13, <1>14, <1>15,
     <1>16, <1>17, <1>18, IdleSteps
  DEF Next, Returns, ScriptStep, LoopStep, NetworkStep

\* A step that is not the making of the peer keeps what PeerMade says of it.
\* While there is none, the calls and callbacks are the client's.
LEMMA PeerStep == TypeOK /\ Settled /\ PeerMade /\ [Next]_vars => PeerMade'
<1> SUFFICES ASSUME TypeOK, Settled, PeerMade, [Next]_vars PROVE PeerMade'
  OBVIOUS
<1> DEFINE Nobody == uv["peer"].handle = "none"
           Kept == /\ uv'["peer"] = uv["peer"] /\ sock'["peer"] = sock["peer"]
                   /\ pending'["peer"] = pending["peer"] /\ queue'["peer"] = queue["peer"]
                   /\ accepted'["peer"] = accepted["peer"]
                   /\ got' = got /\ wire'["client"] = <<>> /\ fin'["client"] = fin["client"]
<1>a. "client" \in Sockets /\ "peer" \in Sockets /\ Other("client") = "peer"
  BY DEF Sockets, Other
<1>b. SettledAt("client") /\ SettledAt("peer")
  BY <1>a DEF Settled
<1>c. ASSUME ~OnConnection, Nobody => Kept PROVE PeerMade'
  <2>1. uv'["client"].handle # "none" /\ (uv'["peer"].handle = "none" <=> uv["peer"].handle = "none")
        /\ (tcp' = "accepted" <=> tcp = "accepted")
    BY <1>a, <1>c, Ages DEF PeerMade
  <2> QED BY <1>c, <2>1 DEF PeerMade, Fresh, Unconnected
<1>d. ASSUME Nobody
      PROVE  /\ uv["peer"] = Fresh("none") /\ sock["peer"] = Unconnected /\ queue["peer"] = <<>>
             /\ wire["client"] = <<>> /\ wire["peer"] \in Seq(Nat) /\ ~fin["client"]
  BY <1>d, <1>a DEF PeerMade, TypeOK
<1>e. ASSUME NEW s \in Sockets, ClearPending(s), s # "peer"
      PROVE  pending'["peer"] = pending["peer"] /\ accepted'["peer"] = accepted["peer"]
  BY <1>a, <1>e, ClearEffect
<1>1. CASE OnConnection
  <2>1. uv'["peer"].handle = "open" /\ uv'["client"] = uv["client"]
    BY <1>a, <1>1 DEF OnConnection, Fresh, TypeOK
  <2> QED BY <1>1, <2>1 DEF OnConnection, PeerMade
<1>2. ASSUME Idle, Nobody PROVE Kept
  BY <1>2, <1>d DEF Idle
<1>3. ASSUME NEW s \in Sockets, NEW dns \in BOOLEAN, NEW ok \in BOOLEAN, Connect(s, dns, ok), Nobody PROVE Kept
  <2>1. s = "client"
    BY <1>3 DEF Connect, Sockets
  <2>2. sock'["peer"] = sock["peer"] /\ queue' = queue /\ got' = got
        /\ pending'["peer"] = pending["peer"] /\ accepted'["peer"] = accepted["peer"]
    BY <1>3, <1>a, <1>e, <2>1 DEF Connect, TypeOK
  <2>3. CASE ok
    <3>0. uv' = [uv EXCEPT !["client"].dns = TRUE] \/ uv' = [uv EXCEPT !["client"].creq = TRUE]
      BY <1>3, <2>1, <2>3 DEF Connect
    <3>1. uv'["peer"] = uv["peer"] /\ UNCHANGED <<wire, fin>>
      BY <1>3, <1>a, <2>3, <3>0 DEF Connect, TypeOK
    <3> QED BY <1>3, <1>d, <2>2, <3>1
  <2>4. CASE ~ok
    <3>1. uv'["peer"] = uv["peer"] /\ Hangup(s)
      BY <1>3, <1>a, <2>1, <2>4 DEF Connect, Closing, TypeOK
    <3>2. wire'["client"] = <<>> /\ fin'["client"] = fin["client"]
      BY <1>a, <2>1, <3>1 DEF Hangup, TypeOK
    <3> QED BY <2>2, <3>1, <3>2
  <2> QED BY <2>3, <2>4
<1>4. ASSUME NEW s \in Sockets, Write(s), Nobody PROVE Kept
  <2>1. s = "client"
    BY <1>4, <1>d DEF Write, Unconnected, Sockets
  <2> QED BY <1>4, <1>a, <1>d, <2>1 DEF Write, TypeOK
<1>5. ASSUME NEW s \in Sockets, End(s), Nobody PROVE Kept
  <2>1. s = "client"
    BY <1>5, <1>d DEF End, Unconnected, Sockets
  <2>2. uv'["peer"] = uv["peer"] /\ sock'["peer"] = sock["peer"]
    BY <1>5, <1>a, <2>1 DEF End, Shutdown, TypeOK
  <2> QED BY <1>5, <1>d, <2>2 DEF End, dataVars, historyVars
<1>6. ASSUME NEW s \in Sockets, Pause(s) \/ Resume(s), Nobody PROVE Kept
  <2>1. s = "client"
    BY <1>6, <1>d DEF Pause, Resume, Unconnected, Sockets
  <2>2. uv'["peer"] = uv["peer"] /\ sock'["peer"] = sock["peer"]
    BY <1>6, <1>a, <2>1 DEF Pause, Resume, TypeOK
  <2> QED BY <1>6, <1>d, <2>2 DEF Pause, Resume, dataVars, historyVars
<1>7. ASSUME NEW s \in Sockets, Destroy(s), Nobody PROVE Kept
  <2>1. s = "client"
    BY <1>7 DEF Destroy, Sockets
  <2>2. sock'["peer"] = sock["peer"] /\ queue' = queue /\ got' = got
        /\ pending'["peer"] = pending["peer"] /\ accepted'["peer"] = accepted["peer"]
    BY <1>7, <1>a, <1>e, <2>1 DEF Destroy, TypeOK
  <2>3. CASE Open(s)
    <3>1. uv'["peer"] = uv["peer"] /\ Hangup(s)
      BY <1>7, <1>a, <2>1, <2>3 DEF Destroy, Closing, TypeOK
    <3>2. wire'["client"] = <<>> /\ fin'["client"] = fin["client"]
      BY <1>a, <2>1, <3>1 DEF Hangup, TypeOK
    <3> QED BY <2>2, <3>1, <3>2
  <2>4. CASE ~Open(s)
    BY <1>7, <1>d, <2>2, <2>4 DEF Destroy
  <2> QED BY <2>3, <2>4
<1>8. ASSUME NEW s \in Sockets, NEW ok \in BOOLEAN, OnGetaddrinfo(s, ok), Nobody PROVE Kept
  <2>1. s = "client"
    BY <1>8, <1>d DEF OnGetaddrinfo, Fresh, Sockets
  <2>2. uv'["peer"] = uv["peer"]
    BY <1>8, <1>a, <2>1 DEF OnGetaddrinfo, TypeOK
  <2>3. pending'["peer"] = pending["peer"] /\ accepted'["peer"] = accepted["peer"] /\ sock'["peer"] = sock["peer"]
    BY <1>8, <1>a, <1>e, <2>1 DEF OnGetaddrinfo, ConnectError, TypeOK
  <2> QED BY <1>8, <1>d, <2>2, <2>3 DEF OnGetaddrinfo
<1>9. ASSUME NEW s \in Sockets, OnConnect(s), Nobody PROVE Kept
  <2>1. s = "client"
    BY <1>9, <1>d DEF OnConnect, Fresh, Sockets
  <2> QED BY <1>9, <1>a, <1>d, <2>1 DEF OnConnect, Flush, TypeOK
<1>10. ASSUME NEW s \in Sockets, OnConnectFails(s), Nobody PROVE Kept
  <2>1. s = "client"
    BY <1>10, <1>d DEF OnConnectFails, Fresh, Sockets
  <2>2. uv'["peer"] = uv["peer"]
    BY <1>10, <1>a, <2>1 DEF OnConnectFails, TypeOK
  <2>3. pending'["peer"] = pending["peer"] /\ accepted'["peer"] = accepted["peer"] /\ sock'["peer"] = sock["peer"]
    BY <1>10, <1>a, <1>e, <2>1 DEF OnConnectFails, TypeOK
  <2> QED BY <1>10, <1>d, <2>2, <2>3 DEF OnConnectFails
<1>11. ASSUME NEW s \in Sockets, OnWriteComplete(s), Nobody PROVE Kept
  <2>1. s = "client"
    BY <1>11, <1>d DEF OnWriteComplete, Fresh, Sockets
  <2>2. uv'["peer"] = uv["peer"] /\ queue'["peer"] = queue["peer"]
    BY <1>11, <1>a, <2>1 DEF OnWriteComplete, TypeOK
  <2> QED BY <1>11, <1>d, <2>2 DEF OnWriteComplete
<1>12. ASSUME NEW s \in Sockets, OnShutdown(s), Nobody PROVE Kept
  <2>1. s = "client"
    BY <1>12, <1>d DEF OnShutdown, Open, Sockets
  <2> QED BY <1>12, <1>a, <1>d, <2>1 DEF OnShutdown, historyVars, TypeOK
<1>13. ASSUME NEW s \in Sockets, OnData(s), Nobody PROVE Kept
  BY <1>13, <1>d DEF OnData, Fresh, Sockets
<1>14. ASSUME NEW s \in Sockets, OnEof(s) \/ OnReadError(s), Nobody PROVE Kept
  <2>1. s = "client"
    BY <1>14, <1>d DEF OnEof, OnReadError, Fresh, Sockets
  <2>2. uv'["peer"] = uv["peer"] /\ sock'["peer"] = sock["peer"]
    BY <1>14, <1>a, <2>1 DEF OnEof, OnReadError, TypeOK
  <2> QED BY <1>14, <1>d, <2>2 DEF OnEof, OnReadError, dataVars
<1>15. ASSUME NEW s \in Sockets, OnClosed(s), Nobody PROVE Kept
  <2>1. s = "client"
    BY <1>15, <1>d DEF OnClosed, Sockets
  <2> QED BY <1>15, <1>a, <1>d, <2>1 DEF OnClosed, dataVars, historyVars, TypeOK
<1>16. ASSUME NEW s \in Sockets, Transmit(s), Nobody PROVE Kept
  <2>1. s = "client"
    BY <1>16, <1>d DEF Transmit, Open, Sockets
  <2> QED BY <1>16, <1>a, <1>d, <2>1 DEF Transmit, historyVars, TypeOK
<1>17. ASSUME ReadyReturns, Nobody PROVE Kept
  <2>1. Top.of \in Sockets
    BY <1>17, TopType DEF ReadyReturns
  <2>2. CASE Top.of = "peer"
    BY <1>17, <1>d, <2>2 DEF ReadyReturns, Unconnected, dataVars, historyVars
  <2>3. CASE Top.of = "client"
    <3>1. uv'["peer"] = uv["peer"] /\ sock'["peer"] = sock["peer"]
      BY <1>17, <1>a, <2>3 DEF ReadyReturns, Shutdown, TypeOK
    <3> QED BY <1>17, <1>d, <3>1 DEF ReadyReturns, dataVars, historyVars
  <2> QED BY <2>1, <2>2, <2>3 DEF Sockets
<1>18. ASSUME CloseReturns, Nobody PROVE Kept
  <2>1. Top.of \in Sockets
    BY <1>18, TopType DEF CloseReturns
  <2>2. sock'["peer"] = sock["peer"]
    <3>1. sock["peer"] \in Flags /\ ~sock["peer"].connected
      BY <1>18, <1>a, <1>d DEF TypeOK, Unconnected
    <3>2. [sock["peer"] EXCEPT !.connected = FALSE] = sock["peer"]
      BY <3>1 DEF Flags
    <3> QED BY <1>18, <1>a, <2>1, <3>2 DEF CloseReturns, TypeOK
  <2>3. CASE Open(Top.of)
    <3>1. Top.of = "client"
      BY <1>18, <2>1, <2>3 DEF Open, Sockets
    <3>2. uv'["peer"] = uv["peer"] /\ Hangup("client")
      BY <1>18, <1>a, <2>3, <3>1 DEF CloseReturns, Closing, TypeOK
    <3>3. wire'["client"] = <<>> /\ fin'["client"] = fin["client"]
      BY <1>a, <3>2 DEF Hangup, TypeOK
    <3> QED BY <1>18, <2>2, <3>2, <3>3 DEF CloseReturns, historyVars
  <2>4. CASE ~Open(Top.of)
    BY <1>18, <1>d, <2>2, <2>4 DEF CloseReturns, historyVars
  <2> QED BY <2>3, <2>4
<1>19. OnConnection \/ (Nobody => Kept)
  BY <1>1, <1>2, <1>3, <1>4, <1>5, <1>6, <1>7, <1>8, <1>9, <1>10, <1>11, <1>12, <1>13, <1>14, <1>15,
     <1>16, <1>17, <1>18, IdleSteps
  DEF Next, Returns, ScriptStep, LoopStep, NetworkStep
<1> QED BY <1>1, <1>c, <1>19

-----------------------------------------------------------------------------
(* What was accepted.                                                      *)

\* Every step keeps what was accepted where it belongs.
LEMMA CarriedStep == TypeOK /\ Settled /\ PeerMade /\ Carried /\ [Next]_vars => Carried'
<1> SUFFICES ASSUME TypeOK, Settled, PeerMade, Carried, [Next]_vars, NEW q \in Sockets
             PROVE  CarriedFrom(q)'
  BY DEF Carried
<1> DEFINE o == Other(q)
<1>a. o \in Sockets /\ o # q /\ Other(o) = q /\ \A s \in Sockets : (s = q \/ s = o) /\ (s = o => Other(s) = q)
  BY DEF Sockets, Other
<1>b. /\ accepted[q] \in Seq(Nat) /\ got[o] \in Seq(Nat) /\ wire[o] \in Seq(Nat)
      /\ queue[q] \in Seq(Nat) /\ pending[q] \in Seq(Nat) /\ uv[q] \in Handles /\ uv[o] \in Handles
  BY <1>a DEF TypeOK
<1>c. PICK lost \in Seq(Nat) : /\ accepted[q] = (got[o] \o wire[o]) \o (lost \o pending[q])
                               /\ Sound(q) => lost = queue[q]
  BY DEF Carried, CarriedFrom
<1>j. ASSUME NEW w \in Seq(Nat), NEW l \in Seq(Nat)
      PROVE  /\ (got[o] \o w) \o (l \o pending[q]) = ((got[o] \o w) \o l) \o pending[q]
             /\ (got[o] \o w) \o (l \o pending[q]) = got[o] \o ((w \o l) \o pending[q])
  <2>1. Regroups(got[o], w, l, pending[q])
    BY <1>b, <1>j, Joined
  <2> QED BY <2>1 DEF Regroups
<1>e. got[o] \o wire[o] \in Seq(Nat) /\ lost \o pending[q] \in Seq(Nat) /\ <<>> \in Seq(Nat)
  BY <1>b, ConcatProperties, EmptySeq
<1>s. ASSUME ~OnConnection PROVE Sound(q)' => Sound(q)
  BY <1>a, <1>s, Ages DEF Sound
<1>k. ASSUME ~OnConnection, accepted'[q] = accepted[q], got'[o] = got[o], wire'[o] = wire[o],
             pending'[q] = pending[q], Sound(q)' => queue'[q] = queue[q]
      PROVE  CarriedFrom(q)'
  BY <1>c, <1>k, <1>s DEF CarriedFrom
<1>d. ASSUME ~OnConnection, ClearPending(q), got'[o] = got[o], wire'[o] = wire[o], queue'[q] = queue[q]
      PROVE  CarriedFrom(q)'
  <2>1. accepted[q] = ((got[o] \o wire[o]) \o lost) \o pending[q]
    BY <1>b, <1>c, <1>j
  <2>2. (got[o] \o wire[o]) \o lost \in Seq(Nat)
    BY <1>e, ConcatProperties
  <2>3. accepted'[q] = (got[o] \o wire[o]) \o lost /\ pending'[q] = <<>>
    BY <1>d, <2>1, <2>2, ClearEffect
  <2>4. lost \o <<>> = lost
    BY ConcatEmptySeq
  <2> QED BY <1>c, <1>d, <1>s, <2>3, <2>4 DEF CarriedFrom
<1>l. ASSUME ~Sound(q)', accepted'[q] = accepted[q], got'[o] = got[o], wire'[o] = <<>>, pending'[q] = pending[q]
      PROVE  CarriedFrom(q)'
  <2>1. accepted[q] = (got[o] \o <<>>) \o ((wire[o] \o lost) \o pending[q])
    <3>1. accepted[q] = got[o] \o ((wire[o] \o lost) \o pending[q])
      BY <1>b, <1>c, <1>j
    <3>2. got[o] \o <<>> = got[o]
      BY <1>b, ConcatEmptySeq
    <3> QED BY <3>1, <3>2
  <2>2. wire[o] \o lost \in Seq(Nat)
    BY <1>b, <1>c, ConcatProperties
  <2> QED BY <1>l, <2>1, <2>2 DEF CarriedFrom
<1>h. ASSUME ~OnConnection, NEW s \in Sockets, uv' = Closing(s), Hangup(s), got' = got, queue' = queue,
             q # s => accepted'[q] = accepted[q] /\ pending'[q] = pending[q],
             q = s => ClearPending(s) \/ (accepted'[q] = accepted[q] /\ pending'[q] = pending[q])
      PROVE  CarriedFrom(q)'
  <2>1. CASE s = q
    <3>1. wire'[o] = wire[o]
      BY <1>a, <1>h, <2>1 DEF Hangup, TypeOK
    <3> QED BY <1>d, <1>h, <1>k, <2>1, <3>1
  <2>2. CASE s = o
    <3>1. wire'[o] = <<>> /\ uv'[o].handle = "closing"
      BY <1>a, <1>b, <1>h, <2>2 DEF Hangup, Closing, TypeOK, Handles
    <3>2. ~Sound(q)'
      BY <3>1 DEF Sound
    <3> QED BY <1>a, <1>h, <1>l, <2>2, <3>1, <3>2
  <2> QED BY <1>a, <2>1, <2>2
<1>z. ~OnConnection \/ OnConnection
  OBVIOUS
<1>1. CASE OnConnection
  <2>1. CASE q = "client"
    <3>1. o = "peer" /\ uv["peer"].handle = "none" /\ uv'["client"] = uv["client"] /\ tcp # "lost"
      BY <1>1, <2>1 DEF OnConnection, PeerMade, Other, Sockets, TypeOK
    <3>2. Sound(q)' => Sound(q)
      BY <1>1, <2>1, <3>1 DEF OnConnection, dataVars, Sound
    <3> QED BY <1>1, <1>c, <3>2 DEF OnConnection, dataVars, CarriedFrom
  <2>2. CASE q = "peer"
    <3>1. o = "client" /\ uv["peer"].handle = "none"
      BY <1>1, <2>2 DEF OnConnection, PeerMade, Other
    <3>2. /\ accepted'[q] = <<>> /\ got'[o] = <<>> /\ wire'[o] = <<>>
          /\ pending'[q] = <<>> /\ queue'[q] = <<>>
      BY <1>1, <2>2, <3>1 DEF OnConnection, dataVars, PeerMade
    <3>3. (<<>> \o <<>>) \o (<<>> \o <<>>) = <<>>
      BY <1>e, ConcatEmptySeq
    <3> QED BY <1>e, <3>2, <3>3 DEF CarriedFrom
  <2> QED BY <2>1, <2>2 DEF Sockets
<1>2. ASSUME Idle, ~OnConnection PROVE CarriedFrom(q)'
  BY <1>2, <1>k DEF Idle
<1>3. ASSUME NEW s \in Sockets, NEW dns \in BOOLEAN, NEW ok \in BOOLEAN, Connect(s, dns, ok), ~OnConnection
      PROVE CarriedFrom(q)'
  <2>1. ClearPending(s) /\ got' = got /\ queue' = queue
    BY <1>3 DEF Connect
  <2>2. CASE ok
    <3>1. wire' = wire
      BY <1>3, <2>2 DEF Connect
    <3>2. s # q => accepted'[q] = accepted[q] /\ pending'[q] = pending[q]
      BY <2>1, ClearEffect
    <3> QED BY <1>3, <1>d, <1>k, <2>1, <3>1, <3>2
  <2>3. CASE ~ok
    <3>1. uv' = Closing(s) /\ Hangup(s)
      BY <1>3, <2>3 DEF Connect
    <3>2. s # q => accepted'[q] = accepted[q] /\ pending'[q] = pending[q]
      BY <2>1, ClearEffect
    <3> QED BY <1>3, <1>h, <2>1, <3>1, <3>2
  <2> QED BY <2>2, <2>3
<1>4. ASSUME NEW s \in Sockets, Write(s), ~OnConnection PROVE CarriedFrom(q)'
  <2> DEFINE c == written[s] + 1
  <2>1. CASE s # q
    <3>1. accepted'[q] = accepted[q] /\ queue'[q] = queue[q] /\ pending'[q] = pending[q]
      BY <1>4, <2>1 DEF Write, TypeOK
    <3> QED BY <1>4, <1>k, <3>1 DEF Write
  <2>2. CASE s = q
    <3>1. c \in Nat /\ got' = got /\ wire' = wire /\ accepted'[q] = Append(accepted[q], c)
      BY <1>4, <2>2 DEF Write, TypeOK
    <3>2. accepted'[q] = (got[o] \o wire[o]) \o Append(lost \o pending[q], c)
      <4>1. \A a, b \in Seq(Nat) : Append(a \o b, c) = a \o Append(b, c)
        BY <3>1, AddedLast, Zenon
      <4>2. Append((got[o] \o wire[o]) \o (lost \o pending[q]), c)
               = (got[o] \o wire[o]) \o Append(lost \o pending[q], c)
        BY <1>e, <4>1, Zenon
      <4> QED BY <1>c, <3>1, <4>2
    <3>3. Append(lost \o pending[q], c) = lost \o Append(pending[q], c)
      BY <1>b, <1>c, <3>1, AddedLast
    <3>4. CASE queue' = [queue EXCEPT ![s] = Append(@, c)] /\ pending' = pending /\ sock[s].connected
      <4>1. pending[q] = <<>> /\ pending'[q] = <<>> /\ queue'[q] = Append(queue[q], c)
        BY <2>2, <3>4 DEF Settled, SettledAt, TypeOK
      <4>2. Append(lost \o pending[q], c) = Append(lost, c) /\ Append(lost, c) \in Seq(Nat)
        BY <1>c, <3>1, <4>1, ConcatEmptySeq, AppendProperties
      <4>3. Append(lost, c) \o <<>> = Append(lost, c)
        BY <4>2, ConcatEmptySeq
      <4> QED BY <1>4, <1>c, <1>s, <3>1, <3>2, <4>1, <4>2, <4>3 DEF CarriedFrom
    <3>5. CASE pending' = [pending EXCEPT ![s] = Append(@, c)] /\ queue' = queue
      <4>1. pending'[q] = Append(pending[q], c)
        BY <2>2, <3>5 DEF TypeOK
      <4> QED BY <1>4, <1>c, <1>s, <3>1, <3>2, <3>3, <3>5, <4>1 DEF CarriedFrom
    <3> QED BY <1>4, <3>4, <3>5 DEF Write
  <2> QED BY <2>1, <2>2
<1>5. ASSUME ~OnConnection,
             \/ \E s \in Sockets : \/ End(s) \/ Pause(s) \/ Resume(s) \/ OnShutdown(s)
                                   \/ OnEof(s) \/ OnReadError(s) \/ OnClosed(s)
             \/ ReadyReturns
      PROVE  CarriedFrom(q)'
  <2>1. UNCHANGED <<accepted, got, wire, pending, queue>>
    BY <1>5 DEF End, Pause, Resume, OnShutdown, OnEof, OnReadError, OnClosed, ReadyReturns, dataVars, historyVars
  <2> QED BY <1>5, <1>k, <2>1
<1>6. ASSUME NEW s \in Sockets, Destroy(s), ~OnConnection PROVE CarriedFrom(q)'
  <2>1. ClearPending(s) /\ got' = got /\ queue' = queue
    BY <1>6 DEF Destroy
  <2>2. s # q => accepted'[q] = accepted[q] /\ pending'[q] = pending[q]
    BY <2>1, ClearEffect
  <2>3. CASE Open(s)
    <3>1. uv' = Closing(s) /\ Hangup(s)
      BY <1>6, <2>3 DEF Destroy
    <3> QED BY <1>6, <1>h, <2>1, <2>2, <3>1
  <2>4. CASE ~Open(s)
    <3>1. wire' = wire
      BY <1>6, <2>4 DEF Destroy
    <3> QED BY <1>6, <1>d, <1>k, <2>1, <2>2, <3>1
  <2> QED BY <2>3, <2>4
<1>7. ASSUME NEW s \in Sockets, NEW ok \in BOOLEAN, OnGetaddrinfo(s, ok) \/ OnConnectFails(s), ~OnConnection
      PROVE CarriedFrom(q)'
  <2>1. UNCHANGED <<got, wire, queue>>
    BY <1>7 DEF OnGetaddrinfo, OnConnectFails
  <2>2. CASE UNCHANGED <<pending, accepted>>
    BY <1>7, <1>k, <2>1, <2>2
  <2>3. CASE ClearPending(s)
    <3>1. s # q => accepted'[q] = accepted[q] /\ pending'[q] = pending[q]
      BY <2>3, ClearEffect
    <3> QED BY <1>7, <1>d, <1>k, <2>1, <2>3, <3>1
  <2> QED BY <1>7, <2>2, <2>3 DEF OnGetaddrinfo, OnConnectFails, ConnectError
<1>8. ASSUME NEW s \in Sockets, OnConnect(s), ~OnConnection PROVE CarriedFrom(q)'
  <2>1. UNCHANGED <<accepted, got, wire>>
    BY <1>8 DEF OnConnect
  <2>2. CASE s # q
    <3>1. queue'[q] = queue[q] /\ pending'[q] = pending[q]
      BY <1>8, <2>2 DEF OnConnect, Flush, TypeOK
    <3> QED BY <1>8, <1>k, <2>1, <3>1
  <2>3. CASE s = q
    <3>1. queue'[q] = queue[q] \o pending[q] /\ pending'[q] = <<>>
      BY <1>8, <2>3 DEF OnConnect, Flush, TypeOK
    <3>2. (lost \o pending[q]) \o <<>> = lost \o pending[q]
      BY <1>e, ConcatEmptySeq
    <3> QED BY <1>8, <1>c, <1>e, <1>s, <2>1, <3>1, <3>2 DEF CarriedFrom
  <2> QED BY <2>2, <2>3
<1>9. ASSUME NEW s \in Sockets, OnWriteComplete(s), ~OnConnection PROVE CarriedFrom(q)'
  <2>1. UNCHANGED <<accepted, got, wire, pending>>
    BY <1>9 DEF OnWriteComplete
  <2>2. queue'[q] = queue[q] \/ uv'[q].handle = "closing"
    BY <1>9 DEF OnWriteComplete, TypeOK
  <2> QED BY <1>9, <1>k, <2>1, <2>2 DEF Sound
<1>10. ASSUME NEW s \in Sockets, OnData(s), ~OnConnection PROVE CarriedFrom(q)'
  <2>1. UNCHANGED <<accepted, pending, queue>>
    BY <1>10 DEF OnData
  <2>2. CASE s = q
    <3>1. got'[o] = got[o] /\ wire'[o] = wire[o]
      BY <1>10, <1>a, <2>2 DEF OnData, TypeOK
    <3> QED BY <1>10, <1>k, <2>1, <3>1
  <2>3. CASE s = o
    <3>1. wire[o] # <<>> /\ got'[o] = Append(got[o], Head(wire[o])) /\ wire'[o] = Tail(wire[o])
      BY <1>10, <1>a, <2>3 DEF OnData, TypeOK
    <3>2. got'[o] \o wire'[o] = got[o] \o wire[o]
      BY <1>b, <3>1, Moves
    <3> QED BY <1>10, <1>c, <1>s, <2>1, <3>2 DEF CarriedFrom
  <2> QED BY <1>a, <2>2, <2>3
<1>11. ASSUME NEW s \in Sockets, Transmit(s), ~OnConnection PROVE CarriedFrom(q)'
  <2>1. UNCHANGED <<accepted, got, pending>>
    BY <1>11 DEF Transmit, historyVars
  <2>2. CASE s = o
    <3>1. queue'[q] = queue[q] /\ wire'[o] = wire[o]
      BY <1>11, <1>a, <2>2 DEF Transmit, TypeOK
    <3> QED BY <1>11, <1>k, <2>1, <3>1
  <2>3. CASE s = q
    <3>1. queue[q] # <<>> /\ queue'[q] = Tail(queue[q])
      BY <1>11, <2>3 DEF Transmit, TypeOK
    <3>2. CASE Sound(q)
      <4>1. wire'[o] = Append(wire[o], Head(queue[q]))
        BY <1>11, <1>a, <2>3, <3>2 DEF Transmit, Sound, TypeOK
      <4>2. /\ lost = queue[q] /\ Tail(lost) \in Seq(Nat) /\ wire'[o] \in Seq(Nat)
            /\ wire'[o] \o Tail(lost) = wire[o] \o lost
        <5>1. lost = queue[q] /\ lost # <<>>
          BY <1>c, <3>1, <3>2
        <5>2. /\ Tail(lost) \in Seq(Nat) /\ Append(wire[o], Head(lost)) \in Seq(Nat)
              /\ Append(wire[o], Head(lost)) \o Tail(lost) = wire[o] \o lost
          BY <1>b, <1>c, <5>1, Moves
        <5> QED BY <4>1, <5>1, <5>2
      <4>3. (got[o] \o wire[o]) \o (lost \o pending[q]) = got[o] \o ((wire[o] \o lost) \o pending[q])
        BY <1>b, <1>c, <1>j
      <4>4. (got[o] \o wire'[o]) \o (Tail(lost) \o pending[q]) = got[o] \o ((wire'[o] \o Tail(lost)) \o pending[q])
        BY <4>2, <1>j
      <4> QED BY <1>c, <2>1, <3>1, <4>2, <4>3, <4>4 DEF CarriedFrom
    <3>3. CASE ~Sound(q)
      <4>1. wire'[o] = wire[o]
        BY <1>11, <1>a, <2>3, <3>3 DEF Transmit, Open, Sound
      <4> QED BY <1>11, <1>k, <1>s, <2>1, <3>3, <4>1
    <3> QED BY <3>2, <3>3
  <2> QED BY <1>a, <2>2, <2>3
<1>12. ASSUME CloseReturns, ~OnConnection PROVE CarriedFrom(q)'
  <2>1. Top.of \in Sockets
    BY <1>12, TopType DEF CloseReturns
  <2>2. UNCHANGED <<accepted, got, pending, queue>>
    BY <1>12 DEF CloseReturns, historyVars
  <2>3. CASE Open(Top.of)
    <3>1. uv' = Closing(Top.of) /\ Hangup(Top.of)
      BY <1>12, <2>3 DEF CloseReturns
    <3> QED BY <1>12, <1>h, <2>1, <2>2, <3>1
  <2>4. CASE ~Open(Top.of)
    BY <1>12, <1>k, <2>2, <2>4 DEF CloseReturns
  <2> QED BY <2>3, <2>4
<1> QED
  BY <1>z, <1>1, <1>2, <1>3, <1>4, <1>5, <1>6, <1>7, <1>8, <1>9, <1>10, <1>11, <1>12, IdleSteps
  DEF Next, Returns, ScriptStep, LoopStep, NetworkStep

\* Only on_socket_read says that a socket has ended.
LEMMA EndedKept ==
    ASSUME TypeOK, NEW s \in Sockets, NEW r \in Sockets, NEW b \in BOOLEAN,
           \/ sock' = sock
           \/ sock' = [sock EXCEPT ![s].connecting = b, ![s].connected = FALSE, ![s].endAfter = FALSE]
           \/ sock' = [sock EXCEPT ![s].connecting = FALSE]
           \/ sock' = [sock EXCEPT ![s].connecting = FALSE, ![s].endAfter = FALSE]
           \/ sock' = [sock EXCEPT ![s].destroyed = TRUE, ![s].connected = FALSE,
                                   ![s].connecting = FALSE, ![s].endAfter = FALSE]
           \/ sock' = [sock EXCEPT ![s].connected = TRUE, ![s].connecting = FALSE]
           \/ sock' = [sock EXCEPT ![s].connected = FALSE]
           \/ sock' = [sock EXCEPT ![s].connected = FALSE, ![s].endAfter = FALSE]
           \/ sock' = [sock EXCEPT ![s].endAfter = TRUE]
           \/ sock' = [sock EXCEPT ![s].paused = b]
    PROVE  sock'[r].ended = sock[r].ended
<1>1. sock[r] \in Flags /\ sock[s] \in Flags
  BY DEF TypeOK
<1>2. CASE sock' = sock
  BY <1>2
<1>3. CASE sock' = [sock EXCEPT ![s].connecting = b, ![s].connected = FALSE, ![s].endAfter = FALSE]
  BY <1>1, <1>3 DEF TypeOK, Flags
<1>4. CASE sock' = [sock EXCEPT ![s].connecting = FALSE]
  BY <1>1, <1>4 DEF TypeOK, Flags
<1>5. CASE sock' = [sock EXCEPT ![s].connecting = FALSE, ![s].endAfter = FALSE]
  BY <1>1, <1>5 DEF TypeOK, Flags
<1>6. CASE sock' = [sock EXCEPT ![s].destroyed = TRUE, ![s].connected = FALSE,
                              ![s].connecting = FALSE, ![s].endAfter = FALSE]
  BY <1>1, <1>6 DEF TypeOK, Flags
<1>7. CASE sock' = [sock EXCEPT ![s].connected = TRUE, ![s].connecting = FALSE]
  BY <1>1, <1>7 DEF TypeOK, Flags
<1>8. CASE sock' = [sock EXCEPT ![s].connected = FALSE]
  BY <1>1, <1>8 DEF TypeOK, Flags
<1>9. CASE sock' = [sock EXCEPT ![s].connected = FALSE, ![s].endAfter = FALSE]
  BY <1>1, <1>9 DEF TypeOK, Flags
<1>10. CASE sock' = [sock EXCEPT ![s].endAfter = TRUE]
  BY <1>1, <1>10 DEF TypeOK, Flags
<1>11. CASE sock' = [sock EXCEPT ![s].paused = b]
  BY <1>1, <1>11 DEF TypeOK, Flags
<1> QED BY <1>2, <1>3, <1>4, <1>5, <1>6, <1>7, <1>8, <1>9, <1>10, <1>11

\* When 'end' has been emitted nothing that was accepted before is under way.
LEMMA WholeStep == TypeOK /\ Settled /\ PeerMade /\ Carried /\ Whole /\ [Next]_vars => Whole'
<1> SUFFICES ASSUME TypeOK, Settled, PeerMade, Carried, Whole, [Next]_vars, NEW q \in Sockets
             PROVE  WholeFrom(q)'
  BY DEF Whole
<1> DEFINE o == Other(q)
<1>a. o \in Sockets /\ o # q /\ Other(o) = q /\ \A s \in Sockets : s = q \/ s = o
  BY DEF Sockets, Other
<1>b. /\ accepted[q] \in Seq(Nat) /\ got[o] \in Seq(Nat) /\ wire[o] \in Seq(Nat)
      /\ queue[q] \in Seq(Nat) /\ pending[q] \in Seq(Nat)
      /\ uv[q] \in Handles /\ uv[o] \in Handles /\ sock[o] \in Flags
  BY <1>a DEF TypeOK
<1>c. WholeFrom(q) /\ SettledAt(q) /\ SettledAt(o)
  BY <1>a DEF Whole, Settled
<1>k. ASSUME ~OnConnection, accepted'[q] = accepted[q], got'[o] = got[o], pending'[q] = pending[q],
             sock'[o].ended = sock[o].ended
      PROVE  WholeFrom(q)'
  BY <1>a, <1>c, <1>k, Ages DEF WholeFrom
<1>d. ASSUME ~OnConnection, ClearPending(q), got'[o] = got[o], sock'[o].ended = sock[o].ended
      PROVE  WholeFrom(q)'
  <2>1. pending'[q] = <<>> /\ (accepted[q] = got[o] \o pending[q] => accepted'[q] = got[o])
    BY <1>b, <1>d, ClearEffect
  <2>2. got[o] \o <<>> = got[o]
    BY <1>b, ConcatEmptySeq
  <2> QED BY <1>a, <1>c, <1>d, <2>1, <2>2, Ages DEF WholeFrom
\* The other has ended, so this one can write no more.
<1>e. ASSUME sock[o].ended, uv[q].handle = "open"
      PROVE  uv[q].shut = "done" /\ ~uv[q].writable /\ ~uv[q].creq /\ queue[q] = <<>>
  BY <1>a, <1>c, <1>e DEF SettledAt
<1>1. CASE OnConnection
  <2>1. got' = got /\ accepted' = accepted /\ pending' = pending /\ reset' = reset
    BY <1>1 DEF OnConnection, dataVars
  <2>2. sock'[o].ended = sock[o].ended
    BY <1>1, <1>b DEF OnConnection, TypeOK, Flags
  <2>3. CASE q = "client"
    <3>1. uv'[q] = uv[q]
      BY <1>1, <2>3 DEF OnConnection, TypeOK
    <3> QED BY <1>c, <2>1, <2>2, <3>1 DEF WholeFrom
  <2>4. CASE q = "peer"
    <3>1. o = "client" /\ ~fin["client"]
      BY <1>1, <2>4 DEF OnConnection, PeerMade, Other
    <3>2. ~sock[o].ended
      BY <1>c, <3>1 DEF SettledAt
    <3> QED BY <2>2, <3>2 DEF WholeFrom
  <2> QED BY <2>3, <2>4 DEF Sockets
<1>2. ASSUME ~OnConnection,
             \/ Idle
             \/ \E s \in Sockets : OnWriteComplete(s) \/ OnReadError(s) \/ OnClosed(s) \/ Transmit(s)
      PROVE  WholeFrom(q)'
  <2>1. UNCHANGED <<sock, accepted, got, pending>>
    BY <1>2 DEF Idle, OnWriteComplete, OnReadError, OnClosed, Transmit, dataVars, historyVars
  <2> QED BY <1>2, <1>k, <2>1
<1>3. ASSUME NEW s \in Sockets, NEW dns \in BOOLEAN, NEW ok \in BOOLEAN, ~OnConnection,
             \/ Connect(s, dns, ok) \/ OnGetaddrinfo(s, ok) \/ OnConnectFails(s) \/ Destroy(s)
      PROVE  WholeFrom(q)'
  <2>1. got' = got
    BY <1>3 DEF Connect, OnGetaddrinfo, OnConnectFails, Destroy
  <2>2. sock'[o].ended = sock[o].ended
    <3>1. CASE Connect(s, dns, ok)
      BY <1>a, <3>1, EndedKept DEF Connect
    <3>2. CASE OnGetaddrinfo(s, ok)
      BY <1>a, <3>2, EndedKept DEF OnGetaddrinfo, ConnectError
    <3>3. CASE OnConnectFails(s)
      BY <1>a, <3>3, EndedKept DEF OnConnectFails
    <3>4. CASE Destroy(s)
      BY <1>a, <3>4, EndedKept DEF Destroy
    <3> QED BY <1>3, <3>1, <3>2, <3>3, <3>4
  <2>3. CASE UNCHANGED <<pending, accepted>>
    BY <1>3, <1>k, <2>1, <2>2, <2>3
  <2>4. CASE ClearPending(s)
    <3>1. s # q => accepted'[q] = accepted[q] /\ pending'[q] = pending[q]
      BY <2>4, ClearEffect
    <3> QED BY <1>3, <1>d, <1>k, <2>1, <2>2, <2>4, <3>1
  <2> QED BY <1>3, <2>3, <2>4 DEF Connect, OnGetaddrinfo, OnConnectFails, Destroy, ConnectError
<1>4. ASSUME NEW s \in Sockets, Write(s), ~OnConnection PROVE WholeFrom(q)'
  <2>1. UNCHANGED <<sock, uv, got, reset>>
    BY <1>4 DEF Write
  <2>2. CASE s # q
    <3>1. accepted'[q] = accepted[q] /\ pending'[q] = pending[q]
      BY <1>4, <2>2 DEF Write, TypeOK
    <3> QED BY <1>4, <1>k, <2>1, <3>1
  <2>3. CASE s = q /\ uv[s].writable
    BY <1>e, <2>1, <2>3 DEF WholeFrom
  <2>4. CASE s = q /\ pending' = [pending EXCEPT ![s] = Append(@, written[s] + 1)]
    <3>1. /\ written[q] + 1 \in Nat /\ pending'[q] = Append(pending[q], written[q] + 1)
          /\ accepted'[q] = Append(accepted[q], written[q] + 1)
      BY <1>4, <2>4 DEF Write, TypeOK
    <3>2. Append(got[o] \o pending[q], written[q] + 1) = got[o] \o Append(pending[q], written[q] + 1)
      BY <1>b, <3>1, AddedLast
    <3> QED BY <1>c, <2>1, <3>1, <3>2 DEF WholeFrom
  <2> QED BY <1>4, <2>2, <2>3, <2>4 DEF Write
<1>5. ASSUME NEW s \in Sockets, ~OnConnection, End(s) \/ Pause(s) \/ Resume(s) \/ OnShutdown(s)
      PROVE WholeFrom(q)'
  <2>1. UNCHANGED <<accepted, got, pending>>
    BY <1>5 DEF End, Pause, Resume, OnShutdown, dataVars, historyVars
  <2>2. sock'[o].ended = sock[o].ended
    BY <1>5, <1>a, EndedKept DEF End, Pause, Resume, OnShutdown
  <2> QED BY <1>5, <1>k, <2>1, <2>2
<1>6. ASSUME NEW s \in Sockets, OnConnect(s), ~OnConnection PROVE WholeFrom(q)'
  <2>1. UNCHANGED <<accepted, got, reset>> /\ uv[s].handle = "open" /\ uv[s].creq
    BY <1>6 DEF OnConnect, Open
  <2>2. sock'[o].ended = sock[o].ended
    BY <1>6, <1>a, EndedKept DEF OnConnect
  <2>3. CASE s # q
    <3>1. pending'[q] = pending[q]
      BY <1>6, <2>3 DEF OnConnect, Flush, TypeOK
    <3> QED BY <1>6, <1>k, <2>1, <2>2, <3>1
  <2>4. CASE s = q
    <3>1. ~sock[o].ended
      BY <1>e, <2>1, <2>4
    <3> QED BY <2>2, <3>1 DEF WholeFrom
  <2> QED BY <2>3, <2>4
<1>7. ASSUME NEW s \in Sockets, OnData(s), ~OnConnection PROVE WholeFrom(q)'
  <2>1. UNCHANGED <<sock, accepted, pending>> /\ wire[s] # <<>>
    BY <1>7 DEF OnData
  <2>2. CASE s = q
    <3>1. got'[o] = got[o]
      BY <1>7, <1>a, <2>2 DEF OnData, TypeOK
    <3> QED BY <1>7, <1>k, <2>1, <3>1
  <2>3. CASE s = o
    <3>1. ~sock[o].ended
      BY <1>c, <2>1, <2>3 DEF SettledAt
    <3> QED BY <2>1, <3>1 DEF WholeFrom
  <2> QED BY <1>a, <2>2, <2>3
<1>8. ASSUME NEW s \in Sockets, OnEof(s), ~OnConnection PROVE WholeFrom(q)'
  <2>1. UNCHANGED <<accepted, got, pending, reset>>
    BY <1>8 DEF OnEof, dataVars
  <2>2. CASE s = q
    <3>1. sock'[o].ended = sock[o].ended
      BY <1>8, <1>a, <2>2 DEF OnEof, TypeOK
    <3> QED BY <1>8, <1>k, <2>1, <3>1
  <2>3. CASE s = o
    <3>1. uv[o].handle = "open" /\ wire[o] = <<>> /\ fin[o]
      BY <1>8, <1>c, <2>3 DEF OnEof, SettledAt
    <3>2. SUFFICES ASSUME uv'[q].handle = "open", ~reset'[q] PROVE accepted[q] = got[o] \o pending[q]
      BY <2>1 DEF WholeFrom
    <3>3. uv[q].handle = "open" /\ ~reset[q]
      BY <1>8, <2>1, <3>2, Ages
    <3>4. queue[q] = <<>>
      BY <1>c, <3>1, <3>3 DEF SettledAt
    <3>5. tcp = "accepted"
      BY <1>a, <3>1, <3>3 DEF PeerMade, Sockets
    <3>6. Sound(q)
      BY <3>1, <3>3, <3>5 DEF Sound
    <3>7. accepted[q] = (got[o] \o <<>>) \o (<<>> \o pending[q])
      BY <3>1, <3>4, <3>6 DEF Carried, CarriedFrom
    <3>8. got[o] \o <<>> = got[o] /\ <<>> \o pending[q] = pending[q]
      BY <1>b, ConcatEmptySeq
    <3> QED BY <3>7, <3>8
  <2> QED BY <1>a, <2>2, <2>3
<1>9. ASSUME ReadyReturns \/ CloseReturns, ~OnConnection PROVE WholeFrom(q)'
  <2>1. UNCHANGED <<accepted, got, pending>>
    BY <1>9 DEF ReadyReturns, CloseReturns, dataVars, historyVars
  <2>2. Top.of \in Sockets
    BY <1>9, TopType DEF ReadyReturns, CloseReturns
  <2>3. sock'[o].ended = sock[o].ended
    BY <1>9, <1>a, <2>2, EndedKept DEF ReadyReturns, CloseReturns
  <2> QED BY <1>9, <1>k, <2>1, <2>3
<1> QED
  BY <1>1, <1>2, <1>3, <1>4, <1>5, <1>6, <1>7, <1>8, <1>9, IdleSteps
  DEF Next, Returns, ScriptStep, LoopStep, NetworkStep

-----------------------------------------------------------------------------
(* The theorems.                                                           *)

LEMMA InitInv == Init => IInv
<1> SUFFICES ASSUME Init PROVE IInv
  OBVIOUS
<1>1. TypeOK
  BY InitType
<1>2. Settled
  BY DEF Init, Settled, SettledAt, Unconnected, Fresh, Nothing, Sockets, Other
<1>3. PeerMade
  BY DEF Init, PeerMade, Unconnected, Fresh, Nothing, Sockets
<1>4. <<>> \in Seq(Nat) /\ <<>> \o <<>> = <<>>
  BY EmptySeq, ConcatEmptySeq
<1>5. ASSUME NEW s \in Sockets PROVE CarriedFrom(s)
  <2>1. /\ accepted[s] = <<>> /\ got[Other(s)] = <<>> /\ wire[Other(s)] = <<>>
        /\ queue[s] = <<>> /\ pending[s] = <<>>
    BY <1>5 DEF Init, Nothing, Sockets, Other
  <2> QED BY <1>4, <2>1 DEF CarriedFrom
<1>6. Whole
  BY DEF Init, Whole, WholeFrom, Unconnected, Sockets, Other
<1> QED BY <1>1, <1>2, <1>3, <1>5, <1>6 DEF IInv, Carried

LEMMA StepInv == IInv /\ [Next]_vars => IInv'
BY StepType, SettledStep, PeerStep, CarriedStep, WholeStep DEF IInv

LEMMA Inductive == Spec => []IInv
<1>1. Init => IInv
  BY InitInv
<1>2. IInv /\ [Next]_vars => IInv'
  BY StepInv
<1> QED BY <1>1, <1>2, PTL DEF Spec

\* Nothing that was accepted is lost, doubled or reordered between two sockets
\* that are open and have not been reset (on_connect's flush, uv_write, the
\* read callback), and never before what the listeners have had.
THEOREM AllConserved == Spec => []Conserved
<1>1. IInv => Conserved
  <2> SUFFICES ASSUME IInv, NEW s \in Sockets
               PROVE  /\ IsPrefix(got[Other(s)], accepted[s])
                      /\ Open(s) /\ uv[Other(s)].handle \in {"none", "open"} /\ ~reset[s] /\ tcp # "lost"
                         => accepted[s] = got[Other(s)] \o wire[Other(s)] \o queue[s] \o pending[s]
    BY DEF Conserved
  <2>1. Other(s) \in Sockets
    BY DEF Other, Sockets
  <2>2. /\ got[Other(s)] \in Seq(Nat) /\ wire[Other(s)] \in Seq(Nat)
        /\ pending[s] \in Seq(Nat) /\ queue[s] \in Seq(Nat)
    BY <2>1 DEF IInv, TypeOK
  <2>3. PICK lost \in Seq(Nat) :
           /\ accepted[s] = (got[Other(s)] \o wire[Other(s)]) \o (lost \o pending[s])
           /\ Sound(s) => lost = queue[s]
    BY DEF IInv, Carried, CarriedFrom
  <2>4. Regroups(got[Other(s)], wire[Other(s)], lost, pending[s])
    BY <2>2, <2>3, Joined
  <2>5. IsPrefix(got[Other(s)], accepted[s])
    <3>1. (wire[Other(s)] \o lost) \o pending[s] \in Seq(Nat)
      BY <2>2, <2>3, ConcatProperties
    <3>2. accepted[s] = got[Other(s)] \o ((wire[Other(s)] \o lost) \o pending[s])
      BY <2>3, <2>4 DEF Regroups
    <3> QED BY <2>2, <3>1, <3>2, FirstIsPrefix
  <2>6. ASSUME Open(s), uv[Other(s)].handle \in {"none", "open"}, ~reset[s], tcp # "lost"
        PROVE  accepted[s] = got[Other(s)] \o wire[Other(s)] \o queue[s] \o pending[s]
    <3>1. lost = queue[s]
      BY <2>3, <2>6 DEF Sound, Open
    <3> QED BY <2>3, <2>4, <3>1 DEF Regroups
  <2> QED BY <2>5, <2>6
<1> QED BY <1>1, Inductive, PTL

\* 'end' is emitted when everything accepted before has been given to listeners.
THEOREM EndsWhole == Spec => []EndIsWhole
<1>1. IInv => EndIsWhole
  BY DEF IInv, Whole, WholeFrom, EndIsWhole, Open
<1> QED BY <1>1, Inductive, PTL

-----------------------------------------------------------------------------
(* 'close' is the last event.                                              *)

\* A frame of on_socket_read that ends in closing the handle.
Closer(f) == f.from = "on_socket_read" /\ f.event \in {"end", "error", "close"}

\* The loop begins it, so there is one, and it is the outermost frame.
Outermost == \A k \in DOMAIN stack : Closer(stack[k]) => k = Len(stack)

\* How far on_socket_read has come in ending s.
Stage(s) ==
    IF stack # <<>> /\ Closer(stack[Len(stack)]) /\ stack[Len(stack)].of = s
    THEN stack[Len(stack)].event
    ELSE "none"

Destroyed(s) == IF sock[s].destroyed THEN 1 ELSE 0

\* 'close' is emitted by destroy(), which closes the handle before, and by
\* on_socket_read, which closes it afterwards: until then nothing but that call
\* tells that it was emitted.  A request to connect, which is answered also when
\* the handle is closed, is not under way then: the connection was made.
EndingAt(s) ==
    /\ uv[s].handle = "none" => closes[s] = 0 /\ Stage(s) = "none" /\ ~sock[s].destroyed
    /\ sock[s].destroyed => uv[s].handle # "open"
    /\ uv[s].reading \/ sock[s].connected \/ Stage(s) # "none" \/ closes[s] > Destroyed(s)
          => tcp # "none" /\ ~uv[s].creq
    /\ closes[s] <= 1 + Destroyed(s)
    /\ Stage(s) \in {"end", "error"} => closes[s] <= Destroyed(s)
    /\ closes[s] > 0 /\ uv[s].handle = "open" => Stage(s) = "close"

Ending == Outermost /\ \A s \in Sockets : EndingAt(s)

\* No call of listeners that began after 'close' is one of these events.
NoneLate ==
    \A k \in DOMAIN stack :
        stack[k].late => stack[k].event \notin {"connect", "data", "end", "error"}

Frames == SocketFrames \cup ServerFrames

\* The outermost frame, when one is added, removed, or replaced.
LEMMA FrameAdded ==
    ASSUME NEW below \in Seq(Frames), NEW f \in Frames
    PROVE  LET st == <<f>> \o below
           IN  /\ st \in Seq(Frames) /\ st # <<>> /\ Len(st) = Len(below) + 1 /\ Len(below) \in Nat
               /\ \A k \in DOMAIN st : IF k = 1 THEN st[k] = f ELSE k - 1 \in DOMAIN below /\ st[k] = below[k - 1]
               /\ IF below = <<>> THEN Len(st) = 1 /\ st[1] = f
                  ELSE Len(below) \in DOMAIN below /\ st[Len(st)] = below[Len(below)]
<1> DEFINE st == <<f>> \o below
<1>1. <<f>> \in Seq(Frames) /\ Len(<<f>>) = 1 /\ <<f>>[1] = f
  OBVIOUS
<1>2. /\ st \in Seq(Frames) /\ Len(st) = 1 + Len(below)
      /\ \A i \in 1 .. 1 + Len(below) : st[i] = IF i <= 1 THEN <<f>>[i] ELSE below[i - 1]
  BY <1>1, ConcatProperties
<1>3. Len(below) \in Nat /\ DOMAIN below = 1 .. Len(below) /\ DOMAIN st = 1 .. Len(st)
  BY <1>2, LenProperties
<1>4. below = <<>> <=> Len(below) = 0
  BY EmptySeq
<1>5. st # <<>>
  BY <1>2, <1>3, EmptySeq
<1>6. ASSUME NEW k \in DOMAIN st
      PROVE  IF k = 1 THEN st[k] = f ELSE k - 1 \in DOMAIN below /\ st[k] = below[k - 1]
  BY <1>1, <1>2, <1>3, <1>6
<1>7. IF below = <<>> THEN Len(st) = 1 /\ st[1] = f
      ELSE Len(below) \in DOMAIN below /\ st[Len(st)] = below[Len(below)]
  BY <1>1, <1>2, <1>3, <1>4
<1> QED BY <1>2, <1>3, <1>5, <1>6, <1>7

LEMMA FrameRemoved ==
    ASSUME NEW st \in Seq(Frames), st # <<>>
    PROVE  LET below == Tail(st)
           IN  /\ below \in Seq(Frames) /\ Len(st) = Len(below) + 1 /\ Len(below) \in Nat
               /\ 1 \in DOMAIN st /\ Head(st) = st[1] /\ Head(st) \in Frames
               /\ \A k \in DOMAIN below : k + 1 \in DOMAIN st /\ below[k] = st[k + 1]
               /\ Len(st) \in DOMAIN st
               /\ below = <<>> => Len(st) = 1
               /\ below # <<>> => Len(below) \in DOMAIN below /\ st[Len(st)] = below[Len(below)]
<1> DEFINE below == Tail(st)
<1>1. below \in Seq(Frames) /\ Len(below) = Len(st) - 1 /\ Head(st) = st[1] /\ Head(st) \in Frames
      /\ \A i \in 1 .. Len(below) : below[i] = st[i + 1]
  BY HeadTailProperties
<1>2. Len(st) \in Nat /\ Len(st) # 0 /\ DOMAIN st = 1 .. Len(st) /\ Len(below) \in Nat
      /\ DOMAIN below = 1 .. Len(below) /\ (below = <<>> <=> Len(below) = 0)
  BY <1>1, EmptySeq, LenProperties
<1> QED BY <1>1, <1>2

\* Listeners are called by a function other than on_socket_read.
LEMMA OthersCalled ==
    ASSUME TypeOK, Outermost, NoneLate, NEW f \in Frames, ~Closer(f), stack' = <<f>> \o stack,
           f.late => f.event \notin {"connect", "data", "end", "error"}
    PROVE  Outermost' /\ NoneLate' /\ \A s \in Sockets : Stage(s)' = Stage(s)
<1>1. stack \in Seq(Frames)
  BY DEF TypeOK, Frames
<1>2. /\ stack' # <<>> /\ Len(stack') = Len(stack) + 1 /\ Len(stack) \in Nat
      /\ \A k \in DOMAIN stack' :
            IF k = 1 THEN stack'[k] = f ELSE k - 1 \in DOMAIN stack /\ stack'[k] = stack[k - 1]
      /\ IF stack = <<>> THEN Len(stack') = 1 /\ stack'[1] = f
         ELSE Len(stack) \in DOMAIN stack /\ stack'[Len(stack')] = stack[Len(stack)]
  BY <1>1, FrameAdded
<1>3. DOMAIN stack = 1 .. Len(stack) /\ DOMAIN stack' = 1 .. Len(stack')
  BY <1>1, <1>2, FrameAdded, LenProperties
<1>4. Outermost'
  BY <1>2, <1>3 DEF Outermost
<1>5. NoneLate'
  BY <1>2 DEF NoneLate
<1>6. ASSUME NEW s \in Sockets PROVE Stage(s)' = Stage(s)
  BY <1>2 DEF Stage
<1> QED BY <1>4, <1>5, <1>6

\* Listeners are called and nothing is under way.
LEMMA FirstCalled ==
    ASSUME NEW f \in Frames, stack' = <<f>> \o <<>>,
           f.late => f.event \notin {"connect", "data", "end", "error"}
    PROVE  /\ Outermost' /\ NoneLate'
           /\ \A s \in Sockets : Stage(s)' = IF Closer(f) /\ f.of = s THEN f.event ELSE "none"
<1>1. stack' = <<f>>
  OBVIOUS
<1> QED BY <1>1 DEF Outermost, NoneLate, Stage

\* Listeners have returned to a function other than on_socket_read.
LEMMA OthersReturned ==
    ASSUME TypeOK, Outermost, NoneLate, stack # <<>>, ~Closer(Top), stack' = Below
    PROVE  Outermost' /\ NoneLate' /\ \A s \in Sockets : Stage(s)' = Stage(s)
<1>1. stack \in Seq(Frames)
  BY DEF TypeOK, Frames
<1>2. /\ stack' \in Seq(Frames) /\ Len(stack) = Len(stack') + 1 /\ Len(stack') \in Nat
      /\ Top = stack[1] /\ Len(stack) \in DOMAIN stack
      /\ \A k \in DOMAIN stack' : k + 1 \in DOMAIN stack /\ stack'[k] = stack[k + 1]
      /\ stack' = <<>> => Len(stack) = 1
      /\ stack' # <<>> => Len(stack') \in DOMAIN stack' /\ stack[Len(stack)] = stack'[Len(stack')]
  BY <1>1, FrameRemoved DEF Top, Below
<1>3. DOMAIN stack' = 1 .. Len(stack')
  BY <1>2, LenProperties
<1>4. Outermost'
  BY <1>2, <1>3 DEF Outermost
<1>5. NoneLate'
  BY <1>2 DEF NoneLate
<1>6. ASSUME NEW s \in Sockets PROVE Stage(s)' = Stage(s)
  BY <1>2 DEF Stage
<1> QED BY <1>4, <1>5, <1>6

\* Listeners have returned to such a function, and it calls others.
LEMMA OthersReplaced ==
    ASSUME TypeOK, Outermost, NoneLate, stack # <<>>, ~Closer(Top),
           NEW f \in Frames, ~Closer(f), stack' = <<f>> \o Below,
           f.late => f.event \notin {"connect", "data", "end", "error"}
    PROVE  Outermost' /\ NoneLate' /\ \A s \in Sockets : Stage(s)' = Stage(s)
<1>1. stack \in Seq(Frames)
  BY DEF TypeOK, Frames
<1>2. /\ Below \in Seq(Frames) /\ Len(stack) = Len(Below) + 1 /\ Len(Below) \in Nat
      /\ Top = stack[1] /\ Len(stack) \in DOMAIN stack
      /\ \A k \in DOMAIN Below : k + 1 \in DOMAIN stack /\ Below[k] = stack[k + 1]
      /\ Below = <<>> => Len(stack) = 1
      /\ Below # <<>> => Len(Below) \in DOMAIN Below /\ stack[Len(stack)] = Below[Len(Below)]
  BY <1>1, FrameRemoved DEF Top, Below
<1>3. /\ stack' \in Seq(Frames) /\ stack' # <<>> /\ Len(stack') = Len(Below) + 1
      /\ \A k \in DOMAIN stack' :
            IF k = 1 THEN stack'[k] = f ELSE k - 1 \in DOMAIN Below /\ stack'[k] = Below[k - 1]
      /\ IF Below = <<>> THEN Len(stack') = 1 /\ stack'[1] = f
         ELSE Len(Below) \in DOMAIN Below /\ stack'[Len(stack')] = Below[Len(Below)]
  BY <1>2, FrameAdded
<1>4. /\ DOMAIN stack' = 1 .. Len(stack')
      /\ \A k \in DOMAIN stack' : k # 1 => k \in DOMAIN stack /\ stack'[k] = stack[k]
  <2>1. DOMAIN stack' = 1 .. Len(stack')
    BY <1>3, LenProperties
  <2>2. ASSUME NEW k \in DOMAIN stack', k # 1 PROVE k \in DOMAIN stack /\ stack'[k] = stack[k]
    <3>1. k \in Nat /\ k - 1 \in DOMAIN Below /\ stack'[k] = Below[k - 1] /\ (k - 1) + 1 = k
      BY <1>3, <2>1, <2>2
    <3> QED BY <1>2, <3>1
  <2> QED BY <2>1, <2>2
<1>5. Outermost'
  BY <1>2, <1>3, <1>4 DEF Outermost
<1>6. NoneLate'
  BY <1>3, <1>4 DEF NoneLate
<1>7. ASSUME NEW s \in Sockets PROVE Stage(s)' = Stage(s)
  BY <1>2, <1>3 DEF Stage
<1> QED BY <1>5, <1>6, <1>7

\* on_socket_read is the only function under way when its listeners return.
LEMMA CloserAlone ==
    ASSUME TypeOK, Outermost, stack # <<>>, Closer(Top)
    PROVE  /\ Below = <<>>
           /\ \A s \in Sockets : Stage(s) = IF Top.of = s THEN Top.event ELSE "none"
<1>1. stack \in Seq(Frames)
  BY DEF TypeOK, Frames
<1>2. /\ Below \in Seq(Frames) /\ Len(stack) = Len(Below) + 1 /\ Len(Below) \in Nat
      /\ Top = stack[1] /\ 1 \in DOMAIN stack
  BY <1>1, FrameRemoved DEF Top, Below
<1>3. Len(stack) = 1
  BY <1>2 DEF Outermost
<1>4. Below = <<>>
  <2>1. Below \in Seq(Frames) /\ Len(Below) = 0
    BY <1>2, <1>3
  <2> QED BY <2>1, EmptySeq
<1> QED BY <1>2, <1>3, <1>4 DEF Stage

\* What a step may change of r, besides its handle.  A request to connect is
\* made only when there is no connection; a socket is connected, and reads,
\* because of on_connect, or because it was connected.
LEMMA FlagSteps ==
    ASSUME TypeOK, [Next]_vars, ~OnConnection, NEW r \in Sockets
    PROVE  /\ uv'[r].creq => uv[r].creq \/ tcp = "none"
           /\ uv'[r].reading => uv[r].reading \/ sock[r].connected \/ OnConnect(r)
           /\ sock'[r].connected => sock[r].connected \/ OnConnect(r)
           /\ Destroy(r) \/ sock'[r].destroyed = sock[r].destroyed
           /\ tcp # "none" => tcp' # "none"
<1> DEFINE Creq == uv'[r].creq => uv[r].creq \/ tcp = "none"
           Reads == uv'[r].reading => uv[r].reading \/ sock[r].connected \/ OnConnect(r)
           Connects == sock'[r].connected => sock[r].connected \/ OnConnect(r)
           Destroys == Destroy(r) \/ sock'[r].destroyed = sock[r].destroyed
           Up == tcp # "none" => tcp' # "none"
           All == Creq /\ Reads /\ Connects /\ Destroys /\ Up
<1>a. uv[r] \in Handles /\ sock[r] \in Flags
  BY DEF TypeOK
<1>b. ASSUME NEW s \in Sockets, uv' = Closing(s) PROVE Creq /\ Reads
  BY <1>a, <1>b DEF Closing, TypeOK, Handles
<1>c. ASSUME NEW s \in Sockets, uv' = uv \/ uv' = Shutdown(s) PROVE Creq /\ Reads
  <2>1. \/ uv' = uv
        \/ uv' = [uv EXCEPT ![s].shut = "asked", ![s].writable = FALSE]
    BY <1>c DEF Shutdown
  <2>2. CASE uv' = uv
    BY <2>2
  <2>3. CASE uv' = [uv EXCEPT ![s].shut = "asked", ![s].writable = FALSE]
    BY <1>a, <2>3 DEF TypeOK, Handles
  <2> QED BY <2>1, <2>2, <2>3
<1>d. ASSUME NEW s \in Sockets,
             \/ sock' = sock
             \/ sock' = [sock EXCEPT ![s].connected = FALSE]
             \/ sock' = [sock EXCEPT ![s].endAfter = TRUE]
             \/ sock' = [sock EXCEPT ![s].connecting = FALSE]
             \/ sock' = [sock EXCEPT ![s].connecting = FALSE, ![s].endAfter = FALSE]
             \/ sock' = [sock EXCEPT ![s].connected = FALSE, ![s].endAfter = FALSE]
      PROVE  Connects /\ Destroys
  <2>1. CASE sock' = sock
    BY <2>1
  <2>2. CASE sock' = [sock EXCEPT ![s].connected = FALSE]
    BY <1>a, <2>2 DEF TypeOK, Flags
  <2>3. CASE sock' = [sock EXCEPT ![s].endAfter = TRUE]
    BY <1>a, <2>3 DEF TypeOK, Flags
  <2>4. CASE sock' = [sock EXCEPT ![s].connecting = FALSE]
    BY <1>a, <2>4 DEF TypeOK, Flags
  <2>5. CASE sock' = [sock EXCEPT ![s].connecting = FALSE, ![s].endAfter = FALSE]
    BY <1>a, <2>5 DEF TypeOK, Flags
  <2>6. CASE sock' = [sock EXCEPT ![s].connected = FALSE, ![s].endAfter = FALSE]
    BY <1>a, <2>6 DEF TypeOK, Flags
  <2> QED BY <1>d, <2>1, <2>2, <2>3, <2>4, <2>5, <2>6
<1>1. CASE Idle
  BY <1>1 DEF Idle
<1>2. ASSUME NEW s \in Sockets, NEW dns \in BOOLEAN, NEW ok \in BOOLEAN, Connect(s, dns, ok) PROVE All
  <2>1. tcp' = tcp /\ Connects /\ Destroys
    BY <1>2, <1>a DEF Connect, serverVars, TypeOK, Flags
  <2>2. CASE ok /\ dns
    <3>1. uv' = [uv EXCEPT ![s].dns = TRUE]
      BY <1>2, <2>2 DEF Connect
    <3> QED BY <1>a, <2>1, <3>1 DEF TypeOK, Handles
  <2>3. CASE ok /\ ~dns
    <3>1. uv' = [uv EXCEPT ![s].creq = TRUE] /\ tcp = "none"
      BY <1>2, <2>3 DEF Connect, Busy
    <3> QED BY <1>a, <2>1, <3>1 DEF TypeOK, Handles
  <2>4. CASE ~ok
    <3>1. uv' = Closing(s)
      BY <1>2, <2>4 DEF Connect
    <3> QED BY <1>b, <2>1, <3>1
  <2> QED BY <2>2, <2>3, <2>4
<1>3. ASSUME NEW s \in Sockets, Write(s) PROVE All
  BY <1>3 DEF Write, serverVars
<1>4. ASSUME NEW s \in Sockets, End(s) PROVE All
  <2>1. Connects /\ Destroys
    BY <1>4, <1>d DEF End
  <2> QED BY <1>4, <1>c, <2>1 DEF End, serverVars
<1>5. ASSUME NEW s \in Sockets, Pause(s) PROVE All
  BY <1>5, <1>a DEF Pause, serverVars, TypeOK, Handles, Flags
<1>6. ASSUME NEW s \in Sockets, Resume(s) PROVE All
  BY <1>6, <1>a DEF Resume, serverVars, TypeOK, Handles, Flags
<1>7. ASSUME NEW s \in Sockets, Destroy(s) PROVE All
  <2>1. Connects /\ Destroys
    BY <1>7, <1>a DEF Destroy, TypeOK, Flags
  <2>2. uv' = uv \/ uv' = Closing(s)
    BY <1>7 DEF Destroy
  <2> QED BY <1>7, <1>b, <1>c, <2>1, <2>2 DEF Destroy, serverVars
<1>8. ASSUME NEW s \in Sockets, NEW ok \in BOOLEAN, OnGetaddrinfo(s, ok) PROVE All
  <2>1. tcp' = tcp /\ (sock' = sock \/ sock' = [sock EXCEPT ![s].connecting = FALSE])
    BY <1>8 DEF OnGetaddrinfo, ConnectError, serverVars
  <2>2. Connects /\ Destroys
    BY <1>d, <2>1
  <2>3. \/ uv' = [uv EXCEPT ![s].dns = FALSE]
        \/ uv' = [uv EXCEPT ![s].dns = FALSE, ![s].creq = TRUE] /\ tcp = "none"
    BY <1>8 DEF OnGetaddrinfo, Busy
  <2>4. CASE uv' = [uv EXCEPT ![s].dns = FALSE]
    BY <1>a, <2>1, <2>2, <2>4 DEF TypeOK, Handles
  <2>5. CASE uv' = [uv EXCEPT ![s].dns = FALSE, ![s].creq = TRUE] /\ tcp = "none"
    BY <1>a, <2>1, <2>2, <2>5 DEF TypeOK, Handles
  <2> QED BY <2>3, <2>4, <2>5
<1>9. ASSUME NEW s \in Sockets, OnConnect(s) PROVE All
  BY <1>9, <1>a DEF OnConnect, serverVars, TypeOK, Handles, Flags
<1>10. ASSUME NEW s \in Sockets, OnConnectFails(s) PROVE All
  <2>1. /\ tcp' = tcp /\ uv' = [uv EXCEPT ![s].creq = FALSE]
        /\ sock' = sock \/ sock' = [sock EXCEPT ![s].connecting = FALSE, ![s].endAfter = FALSE]
    BY <1>10 DEF OnConnectFails, serverVars
  <2>2. Connects /\ Destroys
    BY <1>d, <2>1
  <2> QED BY <1>a, <2>1, <2>2 DEF TypeOK, Handles
<1>11. ASSUME NEW s \in Sockets, OnWriteComplete(s) PROVE All
  <2>1. UNCHANGED <<sock, tcp>> /\ (uv' = uv \/ uv' = [uv EXCEPT ![s].done = @ - 1])
    BY <1>11 DEF OnWriteComplete, serverVars
  <2>2. CASE uv' = uv
    BY <2>1, <2>2
  <2>3. CASE uv' = [uv EXCEPT ![s].done = @ - 1]
    BY <1>a, <2>1, <2>3 DEF TypeOK, Handles
  <2> QED BY <2>1, <2>2, <2>3
<1>12. ASSUME NEW s \in Sockets, OnShutdown(s) PROVE All
  <2>1. tcp' = tcp /\ uv' = [uv EXCEPT ![s].shut = "done"] /\ sock' = [sock EXCEPT ![s].connected = FALSE]
    BY <1>12 DEF OnShutdown, serverVars
  <2> QED BY <1>a, <2>1 DEF TypeOK, Handles, Flags
<1>13. ASSUME NEW s \in Sockets, OnData(s) PROVE All
  BY <1>13 DEF OnData, serverVars
<1>14. ASSUME NEW s \in Sockets, OnEof(s) PROVE All
  BY <1>14, <1>a DEF OnEof, serverVars, TypeOK, Handles, Flags
<1>15. ASSUME NEW s \in Sockets, OnReadError(s) PROVE All
  BY <1>15, <1>a DEF OnReadError, serverVars, TypeOK, Handles
<1>16. ASSUME NEW s \in Sockets, OnClosed(s) PROVE All
  BY <1>16, <1>a DEF OnClosed, serverVars, TypeOK, Handles
<1>17. ASSUME NEW s \in Sockets, Transmit(s) PROVE All
  <2>1. UNCHANGED <<sock, tcp>> /\ uv' = [uv EXCEPT ![s].done = @ + 1]
    BY <1>17 DEF Transmit, serverVars
  <2> QED BY <1>a, <2>1 DEF TypeOK, Handles
<1>18. CASE ReadyReturns
  <2>1. Top.of \in Sockets /\ tcp' = tcp
    BY <1>18, TopType DEF ReadyReturns, serverVars
  <2>2. uv' = uv \/ uv' = Shutdown(Top.of)
    BY <1>18 DEF ReadyReturns
  <2>3. sock' = sock \/ sock' = [sock EXCEPT ![Top.of].connected = FALSE, ![Top.of].endAfter = FALSE]
    BY <1>18 DEF ReadyReturns
  <2>4. Connects /\ Destroys
    BY <1>d, <2>1, <2>3
  <2> QED BY <1>c, <2>1, <2>2, <2>4
<1>19. CASE CloseReturns
  <2>1. Top.of \in Sockets /\ tcp' = tcp /\ sock' = [sock EXCEPT ![Top.of].connected = FALSE]
    BY <1>19, TopType DEF CloseReturns, serverVars
  <2>2. uv' = uv \/ uv' = Closing(Top.of)
    BY <1>19 DEF CloseReturns
  <2>3. Connects /\ Destroys
    BY <1>a, <2>1 DEF TypeOK, Flags
  <2> QED BY <1>b, <1>c, <2>1, <2>2, <2>3
<1> QED
  BY <1>1, <1>2, <1>3, <1>4, <1>5, <1>6, <1>7, <1>8, <1>9, <1>10, <1>11, <1>12, <1>13, <1>14, <1>15,
     <1>16, <1>17, <1>18, <1>19, IdleSteps
  DEF Next, Returns, ScriptStep, LoopStep, NetworkStep

\* What a step does to the calls that end q, and how often it emits 'close'.
CallsOf(q) ==
    \/ Stage(q)' = Stage(q) /\ closes'[q] = closes[q]
    \/ /\ ~sock[q].destroyed /\ sock'[q].destroyed
       /\ Stage(q)' = Stage(q) /\ closes'[q] = closes[q] + 1
    \/ /\ uv[q].reading
       /\ Stage(q) = "none" /\ Stage(q)' \in {"end", "error"} /\ closes'[q] = closes[q]
    \/ Stage(q) \in {"end", "error"} /\ Stage(q)' = "close" /\ closes'[q] = closes[q] + 1
    \/ Stage(q) = "close" /\ Stage(q)' = "none" /\ closes'[q] = closes[q] /\ uv'[q].handle # "open"

CallsKept == Outermost' /\ NoneLate' /\ \A q \in Sockets : CallsOf(q)

\* A function other than on_socket_read emits an event other than a socket's
\* 'close', which is not one that comes too late.
LEMMA OthersEmit ==
    ASSUME TypeOK, Outermost, NoneLate, NEW event, NEW from, NEW s, NEW below, Emit(event, from, s, below),
           \/ below = stack
           \/ stack # <<>> /\ ~Closer(Top) /\ below = Below,
           \/ /\ s \in Sockets
              /\ event \in {"connect", "ready", "drain", "error"}
              /\ from \in {"on_connect", "on_getaddrinfo", "on_socket_write_complete"}
           \/ /\ s \in Sockets /\ event = "data" /\ from = "on_socket_read"
           \/ /\ s = "server"
              /\ event \in {"connection", "listening", "close", "callback"}
              /\ from \in {"on_connection", "js_server_listen", "js_server_close",
                           "on_server_close_complete", "on_listen_callback_timer"},
           event \in {"connect", "data", "error"} => closes[s] = 0
    PROVE  CallsKept
<1> DEFINE f == [event |-> event, from |-> from, of |-> s, late |-> s \in Sockets /\ closes[s] > 0]
<1>1. f \in Frames
  BY DEF Frames, SocketFrames, ServerFrames, Sockets
<1>2. ~Closer(f) /\ (f.late => f.event \notin {"connect", "data", "end", "error"})
  <2>1. ~Closer(f)
    BY DEF Closer
  <2>2. f.event = event /\ event # "end" /\ (f.late => s \in Sockets /\ closes[s] > 0)
    BY DEF Sockets
  <2> QED BY <2>1, <2>2
<1>3. stack' = <<f>> \o below /\ closes' = closes
  BY DEF Emit, Sockets
<1>4. Outermost' /\ NoneLate' /\ \A q \in Sockets : Stage(q)' = Stage(q)
  <2>1. CASE below = stack
    BY <1>1, <1>2, <1>3, <2>1, OthersCalled
  <2>2. CASE stack # <<>> /\ ~Closer(Top) /\ below = Below
    BY <1>1, <1>2, <1>3, <2>2, OthersReplaced
  <2> QED BY <2>1, <2>2
<1> QED BY <1>3, <1>4 DEF CallsKept, CallsOf

\* Each step, of the calls of listeners.
LEMMA CallSteps ==
    ASSUME TypeOK, Settled, Ending, NoneLate, [Next]_vars
    PROVE  CallsKept
<1>a. Outermost /\ \A s \in Sockets : EndingAt(s) /\ SettledAt(s)
  BY DEF Ending, Settled
<1>b. ASSUME UNCHANGED <<stack, closes>> PROVE CallsKept
  BY <1>a, <1>b DEF CallsKept, CallsOf, Outermost, NoneLate, Stage
<1>c. ASSUME stack = <<>>, NEW s \in Sockets, Open(s) PROVE closes[s] = 0
  BY <1>a, <1>c DEF EndingAt, Stage, Open, TypeOK
<1>d. ASSUME UNCHANGED closes, stack # <<>>, ~Closer(Top), stack' = Below PROVE CallsKept
  BY <1>a, <1>d, OthersReturned DEF CallsKept, CallsOf
<1>1. CASE UNCHANGED vars \/ Handshake
  BY <1>b, <1>1 DEF vars, historyVars, Handshake
<1>17. ASSUME NEW s \in Sockets, NEW dns \in BOOLEAN, NEW ok \in BOOLEAN, Connect(s, dns, ok) PROVE CallsKept
  BY <1>b, <1>17 DEF Connect
<1>18. ASSUME NEW s \in Sockets,
              Write(s) \/ End(s) \/ Pause(s) \/ Resume(s) \/ OnShutdown(s) \/ OnClosed(s) \/ Transmit(s)
       PROVE  CallsKept
  BY <1>b, <1>18 DEF historyVars, Write, End, Pause, Resume, OnShutdown, OnClosed, Transmit
<1>2. ASSUME NEW s \in Sockets, Destroy(s) PROVE CallsKept
  <2> DEFINE f == [event |-> "close", from |-> "js_socket_destroy", of |-> s, late |-> s \in Sockets /\ closes[s] > 0]
  <2>1. f \in Frames /\ ~Closer(f) /\ f.event \notin {"connect", "data", "end", "error"}
    BY DEF Frames, SocketFrames, Closer
  <2>2. stack' = <<f>> \o stack /\ closes' = [closes EXCEPT ![s] = @ + 1]
    BY <1>2 DEF Destroy, Emit
  <2>3. Outermost' /\ NoneLate' /\ \A q \in Sockets : Stage(q)' = Stage(q)
    BY <1>a, <2>1, <2>2, OthersCalled
  <2>4. \A q \in Sockets : closes'[q] = IF q = s THEN closes[q] + 1 ELSE closes[q]
    BY <2>2 DEF TypeOK
  <2>5. ~sock[s].destroyed /\ sock'[s].destroyed
    BY <1>2 DEF Destroy, TypeOK, Flags
  <2> QED BY <2>3, <2>4, <2>5 DEF CallsKept, CallsOf
<1>3. ASSUME NEW s \in Sockets, NEW ok \in BOOLEAN, OnGetaddrinfo(s, ok) PROVE CallsKept
  <2>1. \/ UNCHANGED <<stack, closes>>
        \/ Open(s) /\ stack = <<>> /\ Emit("error", "on_getaddrinfo", s, stack)
    BY <1>3 DEF OnGetaddrinfo, ConnectError, LoopRuns
  <2>2. CASE Open(s) /\ stack = <<>> /\ Emit("error", "on_getaddrinfo", s, stack)
    BY <1>a, <1>c, <2>2, OthersEmit
  <2> QED BY <1>b, <2>1, <2>2
<1>4. ASSUME NEW s \in Sockets, OnConnect(s) PROVE CallsKept
  <2>1. Open(s) /\ stack = <<>> /\ Emit("connect", "on_connect", s, stack)
    BY <1>4 DEF OnConnect, LoopRuns
  <2> QED BY <1>a, <1>c, <2>1, OthersEmit
<1>5. ASSUME NEW s \in Sockets, OnConnectFails(s) PROVE CallsKept
  <2>1. CASE sock[s].destroyed
    BY <1>b, <1>5, <2>1 DEF OnConnectFails
  <2>2. CASE ~sock[s].destroyed
    <3>1. uv[s].creq /\ Emit("error", "on_connect", s, stack)
      BY <1>5, <2>2 DEF OnConnectFails
    <3>2. closes[s] \in Nat /\ ~(closes[s] > 0)
      BY <1>a, <2>2, <3>1 DEF EndingAt, Destroyed, TypeOK
    <3>3. closes[s] = 0
      BY <3>2
    <3> QED BY <1>a, <3>1, <3>3, OthersEmit
  <2> QED BY <2>1, <2>2
<1>6. ASSUME NEW s \in Sockets, OnWriteComplete(s) PROVE CallsKept
  <2>1. UNCHANGED <<stack, closes>> \/ Emit("drain", "on_socket_write_complete", s, stack)
    BY <1>6 DEF OnWriteComplete
  <2>2. CASE Emit("drain", "on_socket_write_complete", s, stack)
    BY <1>a, <2>2, OthersEmit
  <2> QED BY <1>b, <2>1, <2>2
<1>7. ASSUME NEW s \in Sockets, OnData(s) PROVE CallsKept
  <2>1. Open(s) /\ stack = <<>> /\ Emit("data", "on_socket_read", s, stack)
    BY <1>a, <1>7 DEF OnData, LoopRuns, SettledAt, Open
  <2> QED BY <1>a, <1>c, <2>1, OthersEmit
<1>8. ASSUME NEW s \in Sockets, OnEof(s) \/ OnReadError(s) PROVE CallsKept
  <2>1. PICK event \in {"end", "error"} : Emit(event, "on_socket_read", s, <<>>)
    BY <1>8 DEF OnEof, OnReadError, LoopRuns
  <2>2. Open(s) /\ stack = <<>>
    BY <1>a, <1>8 DEF OnEof, OnReadError, LoopRuns, SettledAt, Open
  <2> DEFINE f == [event |-> event, from |-> "on_socket_read", of |-> s, late |-> s \in Sockets /\ closes[s] > 0]
  <2>3. f \in Frames /\ ~f.late /\ Closer(f) /\ f.of = s /\ f.event = event
    <3>1. f \in Frames /\ Closer(f) /\ f.of = s /\ f.event = event /\ (f.late => closes[s] > 0)
      BY DEF Frames, SocketFrames, Closer
    <3>2. closes[s] = 0
      BY <1>c, <2>2
    <3> QED BY <3>1, <3>2
  <2>4. stack' = <<f>> \o <<>> /\ closes' = closes
    BY <2>1 DEF Emit
  <2>5. Outermost' /\ NoneLate'
        /\ \A q \in Sockets : Stage(q)' = IF Closer(f) /\ f.of = q THEN f.event ELSE "none"
    BY <2>3, <2>4, FirstCalled
  <2>6. \A q \in Sockets : Stage(q) = "none"
    BY <2>2 DEF Stage
  <2>7. ASSUME NEW q \in Sockets PROVE CallsOf(q)
    BY <1>8, <2>3, <2>4, <2>5, <2>6 DEF CallsOf, OnEof, OnReadError
  <2> QED BY <2>5, <2>7 DEF CallsKept
<1>9. CASE EndReturns
  <2> DEFINE s == Top.of
             f == [event |-> "close", from |-> "on_socket_read", of |-> s, late |-> s \in Sockets /\ closes[s] > 0]
  <2>1. stack # <<>> /\ Closer(Top) /\ Top.event \in {"end", "error"} /\ s \in Sockets
    BY <1>9, TopType DEF EndReturns, Closer
  <2>2. Below = <<>> /\ \A q \in Sockets : Stage(q) = IF s = q THEN Top.event ELSE "none"
    BY <1>a, <2>1, CloserAlone
  <2>3. stack' = <<f>> \o <<>> /\ closes' = [closes EXCEPT ![s] = @ + 1]
    BY <1>9, <2>1, <2>2 DEF EndReturns, Emit
  <2>4. f \in Frames /\ Closer(f) /\ f.of = s /\ f.event = "close"
    BY <2>1 DEF Frames, SocketFrames, Closer
  <2>5. Outermost' /\ NoneLate'
        /\ \A q \in Sockets : Stage(q)' = IF Closer(f) /\ f.of = q THEN f.event ELSE "none"
    BY <2>3, <2>4, FirstCalled
  <2>6. \A q \in Sockets : closes'[q] = IF q = s THEN closes[q] + 1 ELSE closes[q]
    BY <2>1, <2>3 DEF TypeOK
  <2>7. ASSUME NEW q \in Sockets PROVE CallsOf(q)
    BY <2>1, <2>2, <2>4, <2>5, <2>6 DEF CallsOf
  <2> QED BY <2>5, <2>7 DEF CallsKept
<1>10. CASE CloseReturns
  <2>1. stack # <<>> /\ Closer(Top) /\ Top.event = "close" /\ Top.of \in Sockets /\ stack' = Below /\ closes' = closes
    BY <1>10, TopType DEF CloseReturns, Closer, historyVars
  <2>2. Below = <<>> /\ \A q \in Sockets : Stage(q) = IF Top.of = q THEN Top.event ELSE "none"
    BY <1>a, <2>1, CloserAlone
  <2>3. Outermost' /\ NoneLate' /\ \A q \in Sockets : Stage(q)' = "none"
    BY <2>1, <2>2 DEF Outermost, NoneLate, Stage
  <2>4. uv'[Top.of].handle # "open"
    <3>1. CASE Open(Top.of)
      BY <1>10, <2>1, <3>1 DEF CloseReturns, Closing, TypeOK, Handles
    <3>2. CASE ~Open(Top.of)
      BY <1>10, <3>2 DEF CloseReturns, Open
    <3> QED BY <3>1, <3>2
  <2> QED BY <1>10, <2>1, <2>2, <2>3, <2>4 DEF CallsKept, CallsOf
<1>11. CASE ConnectReturns
  <2>1. /\ stack # <<>> /\ ~Closer(Top) /\ Top.of \in Sockets
        /\ Emit("ready", "on_connect", Top.of, Below)
    BY <1>11, TopType DEF ConnectReturns, Closer
  <2> QED BY <1>a, <2>1, OthersEmit
<1>12. CASE ReadyReturns \/ ListeningReturns \/ OtherReturns
  <2>1. stack # <<>> /\ stack' = Below /\ closes' = closes /\ ~Closer(Top)
    BY <1>12 DEF ReadyReturns, ListeningReturns, OtherReturns, Closer, historyVars
  <2> QED BY <1>d, <2>1
<1>13. CASE ServerCloseReturns
  <2>1. /\ stack # <<>> /\ Emit("callback", Top.from, "server", Below)
        /\ Top.from \in {"on_connection", "js_server_listen", "js_server_close",
                         "on_server_close_complete", "on_listen_callback_timer"}
    BY <1>13, TopType DEF ServerCloseReturns
  <2>2. ~Closer(Top)
    BY <2>1 DEF Closer
  <2> QED BY <1>a, <2>1, <2>2, OthersEmit
<1>14. CASE ServerClose
  <2>1. UNCHANGED <<stack, closes>> \/ Emit("close", "js_server_close", "server", stack)
    BY <1>14 DEF ServerClose
  <2>2. CASE Emit("close", "js_server_close", "server", stack)
    BY <1>a, <2>2, OthersEmit
  <2> QED BY <1>b, <2>1, <2>2
<1>15. ASSUME NEW ok \in BOOLEAN, Listen(ok) PROVE CallsKept
  <2>1. UNCHANGED <<stack, closes>> \/ Emit("listening", "js_server_listen", "server", stack)
    BY <1>15 DEF Listen
  <2>2. CASE Emit("listening", "js_server_listen", "server", stack)
    BY <1>a, <2>2, OthersEmit
  <2> QED BY <1>b, <2>1, <2>2
<1>16. CASE OnListenCallbackTimer \/ OnConnection \/ OnServerCloseComplete
  <2>1. \/ Emit("callback", "on_listen_callback_timer", "server", stack)
        \/ Emit("connection", "on_connection", "server", stack)
        \/ Emit("close", "on_server_close_complete", "server", stack)
    BY <1>16 DEF OnListenCallbackTimer, OnConnection, OnServerCloseComplete
  <2> QED BY <1>a, <2>1, OthersEmit
<1> QED
  BY <1>1, <1>2, <1>3, <1>4, <1>5, <1>6, <1>7, <1>8, <1>9, <1>10, <1>11, <1>12, <1>13, <1>14, <1>15, <1>16,
     <1>17, <1>18
  DEF Next, Returns, ScriptStep, LoopStep, NetworkStep

\* A step keeps what Ending says.
LEMMA EndingStep ==
    ASSUME TypeOK, Settled, PeerMade, Ending, NoneLate, [Next]_vars
    PROVE  Ending' /\ NoneLate'
<1>a. CallsKept
  BY CallSteps
<1> SUFFICES ASSUME NEW q \in Sockets PROVE EndingAt(q)'
  BY <1>a DEF Ending, CallsKept
<1>b. EndingAt(q) /\ SettledAt(q) /\ CallsOf(q) /\ closes[q] \in Nat /\ Stage(q) \in {"none", "end", "error", "close"}
  BY <1>a DEF Ending, Settled, CallsKept, TypeOK, Stage, Closer
<1>c. SettledAt(q)'
  BY SettledStep DEF Settled
<1>1. CASE OnConnection
  <2>1. stack = <<>> /\ tcp' = "accepted" /\ tcp # "none" /\ uv["peer"].handle = "none"
    BY <1>1 DEF OnConnection, LoopRuns, PeerMade
  <2>2. Stage(q) = "none"
    BY <2>1 DEF Stage
  <2>3. CASE q = "peer"
    <3>1. /\ uv'[q].handle = "open" /\ ~uv'[q].creq
          /\ sock'[q].destroyed = sock[q].destroyed
      BY <1>1, <2>3 DEF OnConnection, Fresh, TypeOK, Flags
    <3>2. ~sock[q].destroyed /\ closes[q] = 0 /\ ~uv[q].reading
      BY <1>b, <2>1, <2>3 DEF EndingAt, SettledAt
    <3>3. Stage(q)' = "none" /\ closes'[q] = 0
      BY <1>b, <2>2, <3>1, <3>2 DEF CallsOf
    <3> QED BY <2>1, <3>1, <3>2, <3>3 DEF EndingAt, Destroyed
  <2>4. CASE q # "peer"
    <3>1. uv'[q] = uv[q] /\ sock'[q] = sock[q]
      BY <1>1, <2>4 DEF OnConnection, TypeOK
    <3> QED BY <1>b, <2>1, <2>2, <3>1 DEF EndingAt, SettledAt, Destroyed, CallsOf
  <2> QED BY <2>3, <2>4
<1>2. CASE ~OnConnection
  <2>1. /\ uv'[q].handle = "open" => uv[q].handle = "open"
        /\ uv'[q].handle = "none" <=> uv[q].handle = "none"
    BY <1>2, Ages
  <2>2. /\ uv'[q].creq => uv[q].creq \/ tcp = "none"
        /\ uv'[q].reading => uv[q].reading \/ sock[q].connected \/ OnConnect(q)
        /\ sock'[q].connected => sock[q].connected \/ OnConnect(q)
        /\ Destroy(q) \/ sock'[q].destroyed = sock[q].destroyed
        /\ tcp # "none" => tcp' # "none"
    BY <1>2, FlagSteps
  <2>3. CASE OnConnect(q)
    <3>1. /\ stack = <<>> /\ uv[q].handle = "open" /\ uv[q].creq /\ tcp' # "none" /\ ~uv'[q].creq
          /\ sock'[q].destroyed = sock[q].destroyed
      BY <2>3 DEF OnConnect, LoopRuns, Open, serverVars, TypeOK, Handles, Flags
    <3>2. Stage(q) = "none" /\ ~uv[q].reading
      BY <1>b, <3>1 DEF Stage, EndingAt
    <3>3. Stage(q)' = "none" /\ closes'[q] = closes[q]
      BY <1>b, <3>1, <3>2 DEF CallsOf
    <3> QED BY <1>b, <2>1, <3>1, <3>2, <3>3 DEF EndingAt, Destroyed
  <2>4. CASE Destroy(q)
    <3>1. /\ sock'[q].destroyed /\ ~sock[q].destroyed /\ uv[q].handle # "none" /\ ~sock'[q].connected
          /\ uv'[q].handle # "open"
      <4>1. CASE Open(q)
        BY <2>4, <4>1 DEF Destroy, Closing, TypeOK, Handles, Flags
      <4>2. CASE ~Open(q)
        BY <2>4, <4>2 DEF Destroy, Open, TypeOK, Flags
      <4> QED BY <4>1, <4>2
    <3>2. ~uv'[q].reading
      BY <1>c, <3>1 DEF SettledAt
    <3> QED BY <1>b, <2>1, <2>2, <3>1, <3>2 DEF EndingAt, Destroyed, CallsOf
  <2>5. CASE ~OnConnect(q) /\ ~Destroy(q)
    BY <1>b, <1>c, <2>1, <2>2, <2>5 DEF EndingAt, Destroyed, CallsOf, SettledAt
  <2> QED BY <2>3, <2>4, <2>5
<1> QED BY <1>1, <1>2

LEMMA InductiveEnding == Spec => [](IInv /\ Ending /\ NoneLate)
<1>1. ASSUME Init PROVE IInv /\ Ending /\ NoneLate
  <2>1. IInv
    BY <1>1, InitInv
  <2>2. stack = <<>> /\ DOMAIN stack = {}
    BY <1>1 DEF Init
  <2>3. Outermost /\ NoneLate
    BY <2>2 DEF Outermost, NoneLate
  <2>4. ASSUME NEW s \in Sockets PROVE EndingAt(s)
    BY <1>1, <2>2 DEF Init, EndingAt, Stage, Destroyed, Fresh, Unconnected, Sockets
  <2> QED BY <2>1, <2>3, <2>4 DEF Ending
<1>2. IInv /\ Ending /\ NoneLate /\ [Next]_vars => (IInv /\ Ending /\ NoneLate)'
  BY StepInv, EndingStep DEF IInv
<1> QED BY <1>1, <1>2, PTL DEF Spec

\* After the 'close' of a socket there is no 'connect', 'data', 'end' or 'error',
\* and 'close' is emitted once, or twice if destroy() was called while
\* on_socket_read was about to close the handle, or afterwards.
THEOREM NothingAfterClose == Spec => []CloseIsLast
<1>1. IInv /\ Ending /\ NoneLate => CloseIsLast
  <2> SUFFICES ASSUME Ending, NoneLate PROVE CloseIsLast
    OBVIOUS
  <2>1. \A s \in Sockets : closes[s] <= IF sock[s].destroyed THEN 2 ELSE 1
    BY DEF Ending, EndingAt, Destroyed
  <2> QED BY <2>1 DEF CloseIsLast, NoneLate
<1> QED BY <1>1, InductiveEnding, PTL

=============================================================================
