------------------------- MODULE ChildProcess_proofs -------------------------
(***************************************************************************)
(* What is proved of ChildProcess: for any number of children, streams and *)
(* messages, 'disconnect' comes once at each end of the channel, and the   *)
(* state of the channel is not used after it was freed.  Both depend on    *)
(* what link["parent"], ref and the frames of exit callbacks say of each   *)
(* other while calls of listeners nest.                                    *)
(*                                                                         *)
(* Then, that messages arrive whole, once and in order, but for those that *)
(* are not JSON.  All that an end sends is one sequence of units; the      *)
(* invariant says which part of it was taken out of the buffer, is in the  *)
(* buffer, on the wire, in a write and in the queue, and that no part is   *)
(* missing while both ends have descriptors.                               *)
(*                                                                         *)
(* Last, that a child without siblings loses no output.                    *)
(***************************************************************************)
EXTENDS ChildProcess, SequenceTheorems, FiniteSetTheorems, WellFoundedInduction, TLAPS

Processes == {"none", "running", "zombie", "reaped", "failed"}
Frames == [event : Events, child : Children \cup {TheFork}]

\* The types that the arguments need.
PartialTypes ==
    /\ mode \in Scenarios
    /\ os \in [Children -> Processes]
    /\ exited \in [Children -> BOOLEAN]
    /\ link \in [Ends -> Links]
    /\ parted \in [Ends -> Nat]
    /\ stack \in Seq(Frames)

\* Who waits for listeners of 'exit', or for exec's callback, has exited.
ExitFrame(f) == f.event \in {"callback", "exit"} => f.child \in Children /\ exited[f.child]
ExitFrames == \A k \in DOMAIN stack : ExitFrame(stack[k])

\* Before fork() there is no channel.
Unforked ==
    \A c \in Forked : os[c] = "none" => \A e \in Ends : link[e] = "none" /\ parted[e] = 0

\* The child is connected until it emits 'disconnect'.
KidParted == link["kid"] = "open" => parted["kid"] = 0

\* on_ipc_close, which frees the state, is the last that refers to it.
RefLive == ref => link["parent"] # "freed"

IInv ==
    /\ PartialTypes
    /\ ExitFrames
    /\ Unforked
    /\ KidParted
    /\ RefLive
    /\ PartedOnce
    /\ NoUseAfterFree

-----------------------------------------------------------------------------
(* Frames.                                                                 *)

\* A step that starts no child leaves the forked one as it is.
LEMMA SameFork ==
    ASSUME mode' = mode
    PROVE  Forked' = Forked /\ TheFork' = TheFork
  BY DEF Forked, TheFork

\* A call of listeners, the return of one, or both, keeps the frames exact.
LEMMA CallAndReturn ==
    ASSUME IInv, mode' = mode, NEW f \in Frames,
           \A c \in Children : exited[c] => exited'[c], ExitFrame(f)',
           \/ stack' \in {stack, <<f>> \o stack}
           \/ stack # <<>> /\ stack' \in {Rest, <<f>> \o Rest}
    PROVE  stack' \in Seq(Frames') /\ ExitFrames'
<1> DEFINE After(g) == g.event \in {"callback", "exit"} => g.child \in Children /\ exited'[g.child]
<1> DEFINE Good(q) == q \in Seq(Frames) /\ \A k \in DOMAIN q : After(q[k])
<1>1. Frames' = Frames
  BY SameFork DEF Frames
<1>2. After(f)
  BY DEF ExitFrame
<1>3. Good(stack)
  BY DEF IInv, PartialTypes, ExitFrames, ExitFrame
<1>4. ASSUME stack # <<>> PROVE Good(Rest)
  <2>1. Rest \in Seq(Frames) /\ \A k \in DOMAIN Rest : k + 1 \in DOMAIN stack /\ Rest[k] = stack[k + 1]
    BY <1>3, <1>4 DEF Rest
  <2> QED BY <2>1, <1>3
<1>5. ASSUME NEW q, Good(q) PROVE Good(<<f>> \o q)
  <2>1. <<f>> \o q \in Seq(Frames)
    BY <1>5
  <2>2. ASSUME NEW k \in DOMAIN (<<f>> \o q) PROVE After((<<f>> \o q)[k])
    <3>1. CASE k = 1
      <4>1. (<<f>> \o q)[k] = f
        BY <3>1, <1>5
      <4> QED BY <4>1, <1>2
    <3>2. CASE k # 1
      <4>1. k - 1 \in DOMAIN q /\ (<<f>> \o q)[k] = q[k - 1]
        BY <3>2, <1>5, <2>2
      <4> QED BY <4>1, <1>5
    <3> QED BY <3>1, <3>2
  <2> QED BY <2>1, <2>2
<1>6. stack' \in {stack, <<f>> \o stack, Rest, <<f>> \o Rest} /\ Good(stack')
  <2>1. CASE stack' \in {stack, <<f>> \o stack}
    <3>1. Good(stack) /\ Good(<<f>> \o stack)
      BY <1>3, <1>5
    <3> QED BY <2>1, <3>1
  <2>2. CASE stack # <<>> /\ stack' \in {Rest, <<f>> \o Rest}
    <3>1. Good(Rest) /\ Good(<<f>> \o Rest)
      BY <2>2, <1>4, <1>5
    <3> QED BY <2>2, <3>1
  <2> QED BY <2>1, <2>2
<1> QED BY <1>1, <1>6 DEF ExitFrames, ExitFrame

-----------------------------------------------------------------------------
(* The steps.                                                              *)

\* What the invariant is about but for the frames.
watched == <<mode, os, exited, link, ref, parted, broken>>

\* A step that only calls listeners, or returns from them, keeps the invariant.
LEMMA CallOnly ==
    ASSUME IInv, UNCHANGED watched, NEW f \in Frames, f.event \notin {"callback", "exit"},
           \/ stack' \in {stack, <<f>> \o stack}
           \/ stack # <<>> /\ stack' \in {Rest, <<f>> \o Rest}
    PROVE  IInv'
<1>1. mode' = mode /\ exited' = exited /\ ExitFrame(f)'
  BY DEF watched, ExitFrame
<1>2. stack' \in Seq(Frames') /\ ExitFrames'
  BY <1>1, CallAndReturn
<1>3. PartialTypes'
  BY <1>2 DEF IInv, PartialTypes, watched
<1>4. Unforked' /\ KidParted' /\ RefLive' /\ NoUseAfterFree'
  BY SameFork DEF IInv, Unforked, KidParted, RefLive, NoUseAfterFree, watched
<1>5. PartedOnce'
  BY SameFork DEF IInv, PartedOnce, Connected, watched
<1> QED BY <1>2, <1>3, <1>4, <1>5 DEF IInv

\* The frames of calls that the channel and the pipes make.
LEMMA OtherFrames ==
    ASSUME NEW c \in Children \cup {TheFork}, NEW ev \in Events \ {"callback", "exit"}
    PROVE  Frame(ev, c) \in Frames /\ Frame(ev, c).event \notin {"callback", "exit"}
  BY DEF Frame, Frames

\* ... and steps that call nothing.
LEMMA Quietly ==
    ASSUME IInv, UNCHANGED watched, UNCHANGED stack
    PROVE  IInv'
<1>1. Frame("sent", TheFork) \in Frames /\ Frame("sent", TheFork).event \notin {"callback", "exit"}
  BY OtherFrames DEF Events
<1> QED BY <1>1, CallOnly

\* The actions that open, close or free nothing.
LEMMA Elsewhere ==
    ASSUME IInv,
           \/ \E c \in Children :
                 \/ ErrorEvent(c) \/ OnTimeout(c)
                 \/ \E sig \in {"SIGTERM", "SIGKILL"} : Kill(c, sig)
                 \/ \E s \in Streams : Writes(c, s) \/ \E n \in 1 .. MaxBytes : OnRead(c, s, n)
           \/ \E e \in Ends : Transmit(e)
           \/ KidSend
    PROVE  IInv'
<1>1. ASSUME NEW c \in Children, ErrorEvent(c) PROVE IInv'
  <2>1. UNCHANGED watched /\ stack' = <<Frame("error", c)>> \o stack
    BY <1>1 DEF ErrorEvent, LoopRuns, watched, processVars, channelVars, harmVars
  <2> QED BY <2>1, OtherFrames, CallOnly DEF Events
<1>2. ASSUME NEW c \in Children, OnTimeout(c) PROVE IInv'
  BY <1>2, Quietly DEF OnTimeout, Signal, watched, channelVars
<1>3. ASSUME NEW c \in Children, NEW sig, Kill(c, sig) PROVE IInv'
  BY <1>3, Quietly DEF Kill, Signal, watched, channelVars
<1>4. ASSUME NEW c \in Children, NEW s, Writes(c, s) PROVE IInv'
  BY <1>4, Quietly DEF Writes, watched, childVars, channelVars, harmVars
<1>5. ASSUME NEW c \in Children, NEW s, NEW n, OnRead(c, s, n) PROVE IInv'
  <2>1. UNCHANGED watched
    BY <1>5 DEF OnRead, Exceeds, Signal, watched, channelVars, harmVars
  <2>2. stack' = stack \/ stack' = <<Frame("data", c)>> \o stack
    BY <1>5 DEF OnRead, LoopRuns
  <2> QED BY <2>1, <2>2, OtherFrames, CallOnly DEF Events
<1>6. ASSUME NEW e \in Ends, Transmit(e) PROVE IInv'
  BY <1>6, Quietly DEF Transmit, watched, processVars, childVars, harmVars
<1>7. ASSUME KidSend PROVE IInv'
  BY <1>7, Quietly DEF KidSend, watched, processVars, childVars, harmVars
<1> QED BY <1>1, <1>2, <1>3, <1>4, <1>5, <1>6, <1>7

\* Writing to the channel and reading from it.
LEMMA Messages ==
    ASSUME IInv,
           \/ Send \/ OnIpcWrite \/ KidReturns \/ MessageReturns
           \/ \E e \in Ends, n \in Nat : OnIpcRead(e, n)
    PROVE  IInv'
<1>1. \A ev \in {"sent", "message"} :
         /\ Frame(ev, TheFork) \in Frames
         /\ Frame(ev, TheFork).event \notin {"callback", "exit"}
  BY OtherFrames DEF Events
<1> USE DEF watched, processVars, childVars, harmVars
<1>2. CASE Send
  <2>1. UNCHANGED watched
    BY <1>2 DEF Send
  <2>2. stack' \in {stack, <<Frame("sent", TheFork)>> \o stack}
    BY <1>2 DEF Send, Enqueue, Flush
  <2> QED BY <1>1, <2>1, <2>2, CallOnly
<1>3. CASE OnIpcWrite
  <2>1. UNCHANGED watched
    BY <1>3 DEF OnIpcWrite
  <2>2. stack' \in {stack, <<Frame("sent", TheFork)>> \o stack}
    BY <1>3 DEF OnIpcWrite, Written, Flush
  <2> QED BY <1>1, <2>1, <2>2, CallOnly
<1>4. CASE KidReturns
  <2>1. UNCHANGED watched /\ UNCHANGED stack
    BY <1>4 DEF KidReturns, Continue, Process, Deliver, Drop, Leave
  <2> QED BY <2>1, Quietly
<1>5. CASE MessageReturns
  <2>1. UNCHANGED watched
    BY <1>5 DEF MessageReturns
  <2>2. stack # <<>> /\ stack' \in {Rest, <<Frame("message", TheFork)>> \o Rest}
    BY <1>5 DEF MessageReturns, Continue, Process, Deliver, Drop, Leave
  <2> QED BY <1>1, <2>1, <2>2, CallOnly
<1>6. ASSUME NEW e \in Ends, NEW n, OnIpcRead(e, n) PROVE IInv'
  <2>1. UNCHANGED watched
    BY <1>6 DEF OnIpcRead
  <2>2. stack' \in {stack, <<Frame("message", TheFork)>> \o stack}
    BY <1>6 DEF OnIpcRead, Process, Deliver, Drop, Leave
  <2> QED BY <1>1, <2>1, <2>2, CallOnly
<1> QED BY <1>2, <1>3, <1>4, <1>5, <1>6

\* spawn() by fork() opens the channel, of which there was nothing before.
LEMMA Starts ==
    ASSUME IInv, NEW c \in Children, NEW ok \in BOOLEAN, Start(c, ok)
    PROVE  IInv'
<1> USE DEF Start, Exec, Fork, processVars, childVars, harmVars
<1>1. mode' = mode /\ exited' = exited /\ parted' = parted /\ broken' = broken /\ stack' = stack
  OBVIOUS
<1>2. stack' \in Seq(Frames') /\ ExitFrames'
  <2>1. Frames' = Frames
    BY <1>1, SameFork DEF Frames
  <2> QED BY <1>1, <2>1 DEF IInv, PartialTypes, ExitFrames, ExitFrame
<1>3. os' \in [Children -> Processes] /\ os' = [os EXCEPT ![c] = IF ok THEN "running" ELSE "failed"]
  BY DEF IInv, PartialTypes, Processes
<1>4. link' \in [Ends -> Links]
  BY DEF IInv, PartialTypes, Ends, Links
<1>5. CASE c \in Forked
  <2>1. link["parent"] = "none" /\ \A e \in Ends : parted[e] = 0
    BY <1>5 DEF IInv, Unforked, Ends
  <2>2. link'["parent"] \in {"open", "unopened"} /\ link'["kid"] \in {"open", "closed"}
    BY <1>5
  <2>3. Unforked'
    <3>1. \A d \in Forked : d = c
      BY <1>5, ChildrenAssumption DEF IInv, PartialTypes, Forked
    <3>2. os'[c] # "none"
      BY <1>3 DEF IInv, PartialTypes
    <3> QED BY <3>1, <3>2, <1>1, SameFork DEF Unforked
  <2>4. PartedOnce'
    BY <2>1, <2>2, <1>1, SameFork DEF PartedOnce, Connected, Ends
  <2>5. KidParted' /\ RefLive' /\ NoUseAfterFree'
    BY <2>1, <2>2, <1>1 DEF IInv, KidParted, RefLive, NoUseAfterFree, Ends
  <2> QED BY <1>1, <1>2, <1>3, <1>4, <2>3, <2>4, <2>5 DEF IInv, PartialTypes
<1>6. CASE c \notin Forked
  <2>1. link' = link /\ ref' = ref
    BY <1>6
  <2>2. \A d \in Forked : os'[d] = os[d]
    BY <1>3, <1>6 DEF IInv, PartialTypes, Forked
  <2>3. Unforked'
    BY <2>1, <2>2, <1>1, SameFork DEF IInv, Unforked
  <2>4. PartedOnce'
    BY <2>1, <1>1, SameFork DEF IInv, PartedOnce, Connected
  <2>5. KidParted' /\ RefLive' /\ NoUseAfterFree'
    BY <2>1, <1>1 DEF IInv, KidParted, RefLive, NoUseAfterFree
  <2> QED BY <1>1, <1>2, <1>3, <1>4, <2>3, <2>4, <2>5 DEF IInv, PartialTypes
<1> QED BY <1>5, <1>6

\* The child ends, with its end of the channel; the parent learns of it when
\* the loop has time for it.
LEMMA Ended ==
    ASSUME IInv, Reap \/ \E c \in Children : Dies(c)
    PROVE  IInv'
<1>1. /\ mode' = mode /\ exited' = exited /\ parted' = parted /\ broken' = broken
      /\ stack' = stack /\ ref' = ref
  BY DEF Reap, Dies, childVars, channelVars, harmVars
<1>2. stack' \in Seq(Frames') /\ ExitFrames'
  <2>1. Frames' = Frames
    BY <1>1, SameFork DEF Frames
  <2> QED BY <1>1, <2>1 DEF IInv, PartialTypes, ExitFrames, ExitFrame
<1>3. os' \in [Children -> Processes] /\ \A c \in Children : os'[c] = "none" => os[c] = "none"
  <2>1. CASE Reap
    BY <2>1 DEF Reap, IInv, PartialTypes, Processes
  <2>2. ASSUME NEW c \in Children, Dies(c) PROVE <1>3!:
    BY <2>2 DEF Dies, IInv, PartialTypes, Processes
  <2> QED BY <2>1, <2>2
<1>4. /\ link' \in [Ends -> Links] /\ link'["parent"] = link["parent"]
      /\ link'["kid"] \in {link["kid"], "held", "closed"}
      /\ link' = link \/ \E c \in Forked : os[c] = "running"
  <2>1. CASE Reap
    BY <2>1 DEF Reap, channelVars, IInv, PartialTypes
  <2>2. ASSUME NEW c \in Children, Dies(c) PROVE <1>4!:
    BY <2>2 DEF Dies, IInv, PartialTypes, Ends, Links
  <2> QED BY <2>1, <2>2
<1>5. Unforked'
  <2>1. \A c, d \in Forked : c = d
    BY ChildrenAssumption DEF IInv, PartialTypes, Forked
  <2>2. Forked' = Forked /\ Forked \subseteq Children
    BY <1>1, SameFork DEF Forked
  <2> QED BY <1>1, <1>3, <1>4, <2>1, <2>2 DEF IInv, Unforked
<1>6. PartedOnce'
  BY <1>1, <1>4, SameFork DEF IInv, PartedOnce, Connected
<1>7. KidParted' /\ RefLive' /\ NoUseAfterFree'
  BY <1>1, <1>4 DEF IInv, KidParted, RefLive, NoUseAfterFree
<1> QED BY <1>1, <1>2, <1>3, <1>4, <1>5, <1>6, <1>7 DEF IInv, PartialTypes

\* Either end lets go of the channel, and 'disconnect' is emitted there.
LEMMA Parts ==
    ASSUME IInv, Disconnect \/ KidDisconnect \/ \E e \in Ends : OnIpcEof(e)
    PROVE  IInv'
<1>1. UNCHANGED <<mode, os, exited, ref, broken>>
  BY DEF Disconnect, KidDisconnect, OnIpcEof, processVars, childVars, harmVars
<1>2. PICK e \in Ends, state \in {"closing", "closed", "eof"} :
         Part(e, state) /\ (e = "parent" => Connected /\ state # "closed")
                        /\ (e = "kid" => link["kid"] = "open" /\ state # "closing")
  BY DEF Disconnect, KidDisconnect, OnIpcEof, Reads, Connected, Ends
<1>3. /\ link' = [link EXCEPT ![e] = state]
      /\ parted' = [parted EXCEPT ![e] = @ + 1]
      /\ stack' \in {stack, <<Frame("disconnect", TheFork)>> \o stack}
  BY <1>2 DEF Part
<1>4. stack' \in Seq(Frames') /\ ExitFrames'
  <2>1. /\ Frame("disconnect", TheFork) \in Frames
        /\ Frame("disconnect", TheFork).event \notin {"callback", "exit"}
    BY OtherFrames DEF Events
  <2>2. mode' = mode /\ \A c \in Children : exited[c] => exited'[c]
    BY <1>1
  <2>3. PICK f \in Frames : f = Frame("disconnect", TheFork)
    BY <2>1
  <2>4. ExitFrame(f)'
    BY <2>1, <2>3 DEF ExitFrame
  <2> QED BY <1>3, <2>2, <2>3, <2>4, CallAndReturn
<1>5. link[e] # "none" /\ parted[e] = 0
  BY <1>2 DEF Connected, Ends, IInv, PartedOnce, KidParted, PartialTypes
<1>6. link' \in [Ends -> Links] /\ parted' \in [Ends -> Nat]
  BY <1>2, <1>3 DEF IInv, PartialTypes, Links
<1>7. Unforked'
  BY <1>1, <1>5, SameFork DEF IInv, Unforked
<1>8. PartedOnce' /\ KidParted'
  <2>1. CASE e = "parent"
    BY <2>1, <1>1, <1>2, <1>3, <1>5, SameFork DEF IInv, PartialTypes, PartedOnce, KidParted, Connected, Ends
  <2>2. CASE e = "kid"
    BY <2>2, <1>1, <1>2, <1>3, <1>5, SameFork DEF IInv, PartialTypes, PartedOnce, KidParted, Connected, Ends
  <2> QED BY <2>1, <2>2 DEF Ends
<1>9. RefLive' /\ NoUseAfterFree'
  BY <1>1, <1>2, <1>3 DEF IInv, PartialTypes, RefLive, NoUseAfterFree, Ends
<1> QED BY <1>1, <1>4, <1>6, <1>7, <1>8, <1>9 DEF IInv, PartialTypes

\* The close callback frees what nobody refers to any more.
LEMMA Closed ==
    ASSUME IInv, OnIpcClose
    PROVE  IInv'
<1>1. /\ UNCHANGED <<mode, os, exited, parted, stack, broken>>
      /\ link["parent"] = "closing" /\ link' = [link EXCEPT !["parent"] = "freed"] /\ ref' = FALSE
  BY DEF OnIpcClose, processVars, childVars, harmVars
<1>2. stack' \in Seq(Frames') /\ ExitFrames'
  <2>1. Frames' = Frames
    BY <1>1, SameFork DEF Frames
  <2> QED BY <1>1, <2>1 DEF IInv, PartialTypes, ExitFrames, ExitFrame
<1>3. link' \in [Ends -> Links] /\ link'["parent"] = "freed" /\ link'["kid"] = link["kid"]
  BY <1>1 DEF IInv, PartialTypes, Links, Ends
<1>4. Unforked'
  BY <1>1, SameFork DEF IInv, Unforked, Ends
<1>5. PartedOnce'
  BY <1>1, <1>3, SameFork DEF IInv, PartedOnce, Connected
<1>6. KidParted' /\ RefLive' /\ NoUseAfterFree'
  BY <1>1, <1>3 DEF IInv, KidParted, RefLive, NoUseAfterFree
<1> QED BY <1>1, <1>2, <1>3, <1>4, <1>5, <1>6 DEF IInv, PartialTypes

\* The exit callback begins: from now on 'disconnect' may stay out.
LEMMA Exits ==
    ASSUME IInv, NEW c \in Children, OnProcessExit(c)
    PROVE  IInv'
<1>1. /\ UNCHANGED <<mode, os, link, ref, parted, broken>>
      /\ exited' = [exited EXCEPT ![c] = TRUE]
      /\ stack' = <<Frame(IF callback[c] THEN "callback" ELSE "exit", c)>> \o stack
  BY DEF OnProcessExit, channelVars, harmVars
<1>2. exited' \in [Children -> BOOLEAN] /\ exited'[c] /\ \A d \in Children : exited[d] => exited'[d]
  BY <1>1 DEF IInv, PartialTypes
<1>3. stack' \in Seq(Frames') /\ ExitFrames'
  <2> DEFINE f == Frame(IF callback[c] THEN "callback" ELSE "exit", c)
  <2>1. f \in Frames
    BY DEF Frame, Frames, Events
  <2>2. PICK g \in Frames : g = f
    BY <2>1
  <2>3. g.child = c
    BY <2>2 DEF Frame
  <2>4. ExitFrame(g)'
    BY <2>3, <1>2 DEF ExitFrame
  <2> QED BY <1>1, <1>2, <2>2, <2>4, CallAndReturn
<1>4. Unforked' /\ KidParted' /\ RefLive' /\ NoUseAfterFree'
  BY <1>1, SameFork DEF IInv, Unforked, KidParted, RefLive, NoUseAfterFree
<1>5. PartedOnce'
  BY <1>1, <1>2, SameFork DEF IInv, PartedOnce, Connected, Forked
<1> QED BY <1>1, <1>2, <1>3, <1>4, <1>5 DEF IInv, PartialTypes

\* Listeners return to the exit callback, which may close the channel.
LEMMA ReturnsToExit ==
    ASSUME IInv, CallbackReturns \/ ExitReturns
    PROVE  IInv'
<1>1. stack # <<>> /\ Top \in Frames /\ ExitFrame(Top) /\ Top.event \in {"callback", "exit"}
  BY DEF CallbackReturns, ExitReturns, IInv, PartialTypes, ExitFrames, Top
<1>2. Top.child \in Children /\ exited[Top.child]
  BY <1>1 DEF ExitFrame
<1>3. PICK c \in Children : c = Top.child
  BY <1>2
<1>4. CASE CallbackReturns
  <2>1. UNCHANGED watched /\ UNCHANGED exited /\ UNCHANGED mode
    BY <1>4 DEF CallbackReturns, watched, processVars, channelVars, harmVars
  <2>2. Frame("exit", c) \in Frames /\ ExitFrame(Frame("exit", c))'
    BY <1>2, <1>3, <2>1 DEF Frame, Frames, Events, ExitFrame
  <2>3. stack' \in Seq(Frames') /\ ExitFrames'
    <3>1. stack # <<>> /\ stack' = <<Frame("exit", c)>> \o Rest
      BY <1>3, <1>4 DEF CallbackReturns
    <3> QED BY <3>1, <2>1, <2>2, CallAndReturn
  <2>4. Unforked' /\ KidParted' /\ RefLive' /\ NoUseAfterFree'
    BY <2>1, SameFork DEF IInv, Unforked, KidParted, RefLive, NoUseAfterFree, watched
  <2>5. PartedOnce'
    BY <2>1, SameFork DEF IInv, PartedOnce, Connected, watched
  <2> QED BY <2>1, <2>3, <2>4, <2>5 DEF IInv, PartialTypes, watched
<1>5. CASE ExitReturns
  <2>1. UNCHANGED <<mode, os, exited, parted>> /\ CloseStdioPipes(c)
    BY <1>3, <1>5 DEF ExitReturns, processVars
  <2>2. Frame("close", c) \in Frames /\ ExitFrame(Frame("close", c))'
    BY OtherFrames DEF Events, ExitFrame
  <2>3. stack' \in Seq(Frames') /\ ExitFrames'
    <3>1. stack # <<>> /\ stack' = <<Frame("close", c)>> \o Rest
      BY <1>3, <1>5 DEF ExitReturns
    <3> QED BY <3>1, <2>1, <2>2, CallAndReturn
  <2>4. CASE c \in Forked /\ ref
    <3>1. ref' = FALSE /\ link["parent"] # "freed" /\ ~broken'
      BY <2>1, <2>4 DEF CloseStdioPipes, IInv, RefLive
    <3>2. link' = [link EXCEPT !["parent"] = IF Connected THEN "closing" ELSE @]
      BY <2>1, <2>4 DEF CloseStdioPipes
    <3>3. /\ link' \in [Ends -> Links] /\ link'["kid"] = link["kid"]
          /\ link'["parent"] = IF Connected THEN "closing" ELSE link["parent"]
      BY <3>2 DEF IInv, PartialTypes, Links, Ends
    <3>4. Unforked'
      BY <3>3, <2>1, SameFork DEF IInv, Unforked, Ends, Connected
    <3>5. PartedOnce'
      BY <3>3, <2>1, <2>4, <1>2, <1>3, SameFork DEF IInv, PartedOnce, Connected
    <3>6. KidParted' /\ RefLive' /\ NoUseAfterFree'
      BY <3>1, <3>3, <2>1 DEF IInv, KidParted, RefLive, NoUseAfterFree
    <3> QED BY <2>1, <2>3, <3>3, <3>4, <3>5, <3>6 DEF IInv, PartialTypes
  <2>5. CASE ~(c \in Forked /\ ref)
    <3>1. UNCHANGED <<link, ref, broken>>
      BY <2>1, <2>5 DEF CloseStdioPipes
    <3>2. Unforked' /\ KidParted' /\ RefLive' /\ NoUseAfterFree'
      BY <2>1, <3>1, SameFork DEF IInv, Unforked, KidParted, RefLive, NoUseAfterFree
    <3>3. PartedOnce'
      BY <2>1, <3>1, SameFork DEF IInv, PartedOnce, Connected
    <3> QED BY <2>1, <2>3, <3>1, <3>2, <3>3 DEF IInv, PartialTypes
  <2> QED BY <2>4, <2>5
<1> QED BY <1>4, <1>5

-----------------------------------------------------------------------------
(* The theorems.                                                           *)

LEMMA InitIInv == Init => IInv
<1> SUFFICES ASSUME Init PROVE IInv
  OBVIOUS
<1>1. PartialTypes
  BY DEF Init, PartialTypes, Processes, Links, None
<1>2. ExitFrames /\ Unforked /\ KidParted /\ RefLive /\ NoUseAfterFree
  BY DEF Init, ExitFrames, Unforked, KidParted, RefLive, NoUseAfterFree, Forked, Ends
<1>3. PartedOnce
  BY DEF Init, PartedOnce, Connected, Ends
<1> QED BY <1>1, <1>2, <1>3 DEF IInv

LEMMA NextIInv == IInv /\ [Next]_vars => IInv'
<1> SUFFICES ASSUME IInv, [Next]_vars PROVE IInv'
  OBVIOUS
<1>1. CASE UNCHANGED vars
  BY <1>1, Quietly DEF vars, watched, processVars, childVars, channelVars, harmVars
<1>2. CASE ScriptStep
  BY <1>2, Starts, Elsewhere, Messages, Parts DEF ScriptStep
<1>3. CASE LoopStep
  <2>1. \A n \in 1 .. 4 * MaxMessages : n \in Nat
    OBVIOUS
  <2>2. "parent" \in Ends
    BY DEF Ends
  <2> QED BY <1>3, <2>1, <2>2, Elsewhere, Exits, Messages, Parts, Closed, Ended DEF LoopStep
<1>4. CASE ChildStep
  <2>1. \A n \in 1 .. 4 * MaxMessages : n \in Nat
    OBVIOUS
  <2>2. "kid" \in Ends
    BY DEF Ends
  <2> QED BY <1>4, <2>1, <2>2, Ended, Elsewhere, Messages, Parts DEF ChildStep
<1>5. CASE CallbackReturns \/ ExitReturns
  BY <1>5, ReturnsToExit
<1>6. CASE MessageReturns
  BY <1>6, Messages
<1>7. CASE OtherReturns
  <2>1. UNCHANGED watched /\ stack # <<>> /\ stack' = Rest
    BY <1>7 DEF OtherReturns, watched, processVars, childVars, channelVars, harmVars
  <2>2. Frame("sent", TheFork) \in Frames /\ Frame("sent", TheFork).event \notin {"callback", "exit"}
    BY OtherFrames DEF Events
  <2> QED BY <2>1, <2>2, CallOnly
<1> QED BY <1>1, <1>2, <1>3, <1>4, <1>5, <1>6, <1>7 DEF Next, Returns

\* 'disconnect' comes once at each end of the channel: whichever of
\* disconnect(), the end of the stream and the exit callback comes first, and
\* whatever listeners do meanwhile.
THEOREM DisconnectsOnce == Spec => []PartedOnce
<1>1. IInv => PartedOnce
  BY DEF IInv
<1> QED BY <1>1, InitIInv, NextIInv, PTL DEF Spec

\* close_stdio_pipes, the only place that looks into the channel without
\* being called for it, finds it alive or no reference to it.
THEOREM ChannelOutlivesUse == Spec => []NoUseAfterFree
<1>1. IInv => NoUseAfterFree
  BY DEF IInv
<1> QED BY <1>1, InitIInv, NextIInv, PTL DEF Spec

-----------------------------------------------------------------------------
(* Messages arrive in order.                                               *)

\* q is a part of the sequence of all that an end sends, behind k units.
Follows(k, q) == \A i \in DOMAIN q : q[i] = k + i

\* The body of a message stays in the buffer while listeners have it.
Held(e) == inbuf[e] # <<>> /\ inbuf[e][1] = 4 * tried[e] - 1

\* How many units e has removed from its buffer.
Removed(e) == IF Held(e) THEN 4 * tried[e] - 2 ELSE IF body[e] THEN 4 * tried[e] + 2 ELSE 4 * tried[e]

\* How many it has read.
HasRead(e) == Removed(e) + Len(inbuf[e])

\* How many have left the other end.
Reached(e) == HasRead(e) + Len(wire[e])

\* What is written at one end can still reach the other.
Piped == HasPipe("parent") /\ HasPipe("kid")

\* The child was started, with the channel.
Opened == \E c \in Forked : os[c] # "none"

Freed(e) == e = "parent" /\ link["parent"] = "freed"

\* What e has received is, in its order, with the listeners, in the buffer, and
\* on the wire; and it has all been sent.
Received(e) ==
    /\ Exact(got[e], sent[Other(e)], tried[e])
    /\ Held(e) => Len(inbuf[e]) >= 2
    /\ IF Freed(e)
       THEN inbuf[e] = <<>>
       ELSE /\ Follows(Removed(e), inbuf[e]) /\ Follows(HasRead(e), wire[e])
            /\ Reached(e) <= 4 * Len(sent[Other(e)])

\* Behind k units come those of a write, o, and the messages of the queue q, of
\* which the last is s.
Numbered(k, s, q, o, underWay) ==
    /\ Follows(k, o)
    /\ k + Len(o) = 4 * (s - Len(q))
    /\ \A i \in DOMAIN q : q[i] = s - Len(q) + i
    /\ ~underWay => o = <<>>

\* What the other end has not written follows, and nothing is missing.
SentOn ==
    Piped =>
        /\ Numbered(Reached("kid"), Len(sent["parent"]), queue, out["parent"], writing)
        /\ Follows(Reached("parent"), out["kid"])
        /\ IF os[TheFork] = "running"
           THEN Reached("parent") + Len(out["kid"]) = 4 * Len(sent["kid"])
           ELSE out["kid"] = <<>>

\* The outermost call, by the loop, is of listeners of 'message'.
Listening == stack # <<>> /\ stack[Len(stack)].event = "message"

LoopListens == \A k \in DOMAIN stack : stack[k].event = "message" => k = Len(stack)

\* Listeners of 'message' run, at either end, while they have what is in its
\* buffer.
Serving ==
    /\ LoopListens
    /\ Held("parent") <=> Listening
    /\ Opened /\ os[TheFork] = "running" => (Held("kid") <=> busy)
    /\ busy => Opened /\ os[TheFork] = "running"

\* Nothing is in a channel that is not open yet.
Unused ==
    ~Opened =>
        /\ queue = <<>> /\ ~writing /\ ~ref
        /\ \A e \in Ends : /\ link[e] = "none" /\ sent[e] = <<>> /\ ~body[e] /\ tried[e] = 0
                           /\ out[e] = <<>> /\ wire[e] = <<>> /\ inbuf[e] = <<>> /\ got[e] = <<>>

ChannelTypes ==
    /\ queue \in Seq(Nat \ {0})
    /\ out \in [Ends -> Seq(Units)] /\ wire \in [Ends -> Seq(Units)]
    /\ inbuf \in [Ends -> Seq(Units)] /\ got \in [Ends -> Seq(Units \X Units)]
    /\ body \in [Ends -> BOOLEAN] /\ sent \in [Ends -> Seq(BOOLEAN)] /\ tried \in [Ends -> Nat]
    /\ ref \in BOOLEAN /\ writing \in BOOLEAN /\ busy \in BOOLEAN

\* The child's end, once it is made.
KidLinked == Opened => link["kid"] \in {"open", "eof", "held", "closed"}

OrderInv ==
    /\ ChannelTypes
    /\ KidLinked
    /\ \A e \in Ends : Received(e)
    /\ SentOn
    /\ Serving
    /\ Unused

-----------------------------------------------------------------------------
(* Parts of the sequence of units.                                         *)

\* The first unit is taken off.
LEMMA FollowsTail ==
    ASSUME NEW q \in Seq(Units), q # <<>>, NEW k \in Nat, Follows(k, q)
    PROVE  /\ Head(q) \in Units /\ Head(q) = k + 1
           /\ Tail(q) \in Seq(Units) /\ Len(Tail(q)) = Len(q) - 1 /\ Follows(k + 1, Tail(q))
<1>1. /\ Head(q) = q[1] /\ 1 \in DOMAIN q /\ Head(q) \in Units /\ Tail(q) \in Seq(Units)
      /\ Len(Tail(q)) = Len(q) - 1
  OBVIOUS
<1>2. Head(q) = k + 1
  BY <1>1 DEF Follows
<1>3. ASSUME NEW i \in DOMAIN Tail(q) PROVE Tail(q)[i] = k + 1 + i
  <2>1. i \in Nat /\ i + 1 \in DOMAIN q /\ Tail(q)[i] = q[i + 1]
    BY <1>3
  <2>2. q[i + 1] = k + (i + 1)
    BY <2>1 DEF Follows
  <2> QED BY <2>1, <2>2
<1> QED BY <1>1, <1>2, <1>3 DEF Follows

\* It is cut after n units.
LEMMA FollowsCut ==
    ASSUME NEW q \in Seq(Units), NEW k \in Nat, Follows(k, q), NEW n \in 0 .. Len(q)
    PROVE  /\ SubSeq(q, 1, n) \in Seq(Units) /\ Len(SubSeq(q, 1, n)) = n
           /\ SubSeq(q, n + 1, Len(q)) \in Seq(Units) /\ Len(SubSeq(q, n + 1, Len(q))) = Len(q) - n
           /\ Follows(k, SubSeq(q, 1, n)) /\ Follows(k + n, SubSeq(q, n + 1, Len(q)))
<1> DEFINE a == SubSeq(q, 1, n)
           b == SubSeq(q, n + 1, Len(q))
<1>1. a \in Seq(Units) /\ Len(a) = n /\ \A i \in 1 .. n : a[i] = q[i]
  OBVIOUS
<1>2. b \in Seq(Units) /\ Len(b) = Len(q) - n /\ \A i \in 1 .. Len(q) - n : b[i] = q[n + i]
  OBVIOUS
<1>3. \A i \in 1 .. Len(q) : q[i] = k + i
  BY DEF Follows
<1>4. Follows(k, a)
  BY <1>1, <1>3 DEF Follows
<1>5. ASSUME NEW i \in DOMAIN b PROVE b[i] = k + n + i
  <2>1. i \in 1 .. Len(q) - n /\ n + i \in 1 .. Len(q)
    BY <1>2, <1>5
  <2>2. b[i] = q[n + i] /\ q[n + i] = k + (n + i)
    BY <1>2, <1>3, <2>1
  <2> QED BY <2>1, <2>2
<1> QED BY <1>1, <1>2, <1>4, <1>5 DEF Follows

\* A part is followed by another, or by a unit.
LEMMA FollowsConcat ==
    ASSUME NEW q \in Seq(Units), NEW r \in Seq(Units), NEW k \in Nat, Follows(k, q), Follows(k + Len(q), r)
    PROVE  q \o r \in Seq(Units) /\ Len(q \o r) = Len(q) + Len(r) /\ Follows(k, q \o r)
<1>1. /\ q \o r \in Seq(Units) /\ Len(q \o r) = Len(q) + Len(r) /\ Len(q) \in Nat
      /\ \A i \in 1 .. Len(q) + Len(r) : (q \o r)[i] = IF i <= Len(q) THEN q[i] ELSE r[i - Len(q)]
  OBVIOUS
<1>2. ASSUME NEW i \in 1 .. Len(q) + Len(r) PROVE (q \o r)[i] = k + i
  <2>1. CASE i <= Len(q)
    BY <1>1, <1>2, <2>1 DEF Follows
  <2>2. CASE ~(i <= Len(q))
    <3>1. i - Len(q) \in DOMAIN r /\ (q \o r)[i] = r[i - Len(q)]
      BY <1>1, <1>2, <2>2
    <3>2. r[i - Len(q)] = (k + Len(q)) + (i - Len(q))
      BY <3>1 DEF Follows
    <3> QED BY <1>1, <1>2, <3>1, <3>2
  <2> QED BY <2>1, <2>2
<1> QED BY <1>1, <1>2 DEF Follows

LEMMA FollowsAppend ==
    ASSUME NEW q \in Seq(Units), NEW u \in Units, NEW k \in Nat, Follows(k, q), u = k + Len(q) + 1
    PROVE  /\ Append(q, u) \in Seq(Units) /\ Len(Append(q, u)) = Len(q) + 1
           /\ Follows(k, Append(q, u))
<1>1. /\ Append(q, u) \in Seq(Units) /\ Len(Append(q, u)) = Len(q) + 1 /\ Len(q) \in Nat
      /\ \A i \in 1 .. Len(q) + 1 : Append(q, u)[i] = IF i <= Len(q) THEN q[i] ELSE u
  OBVIOUS
<1>2. ASSUME NEW i \in 1 .. Len(q) + 1 PROVE Append(q, u)[i] = k + i
  <2>1. CASE i <= Len(q)
    BY <1>1, <1>2, <2>1 DEF Follows
  <2>2. CASE ~(i <= Len(q))
    <3>1. i = Len(q) + 1 /\ Append(q, u)[i] = u
      BY <1>1, <1>2, <2>2
    <3> QED BY <1>1, <3>1
  <2> QED BY <2>1, <2>2
<1> QED BY <1>1, <1>2 DEF Follows

\* The units of a message.
LEMMA MessageFollows ==
    ASSUME NEW m \in Nat \ {0}
    PROVE  Message(m) \in Seq(Units) /\ Len(Message(m)) = 4 /\ Follows(4 * m - 4, Message(m))
<1>1. 4 * m - 3 \in Units /\ 4 * m - 2 \in Units /\ 4 * m - 1 \in Units /\ 4 * m \in Units
  BY DEF Units
<1>2. Message(m) = <<4 * m - 3, 4 * m - 2, 4 * m - 1, 4 * m>>
  BY DEF Message
<1>3. DOMAIN Message(m) = 1 .. 4 /\ Message(m) \in Seq(Units) /\ Len(Message(m)) = 4
  BY <1>1, <1>2
<1> QED BY <1>2, <1>3 DEF Follows

\* Nothing follows anything.
LEMMA NothingFollows == ASSUME NEW k PROVE Follows(k, <<>>)
BY DEF Follows

-----------------------------------------------------------------------------
(* What has been heard.                                                    *)

LEMMA Bodies ==
    /\ \A m \in Nat \ {0} : Body(m) \in Units \X Units
    /\ \A m, n \in Nat : Body(m) = Body(n) => m = n
    /\ \A m \in Nat : Body(m)[2] = 4 * m
BY DEF Body, Units

\* Messages that are not JSON make no difference.
LEMMA ExactDropped ==
    ASSUME NEW g \in Seq(Units \X Units), NEW s \in Seq(BOOLEAN), NEW t \in Nat, Exact(g, s, t),
           NEW j \in Nat, t + j <= Len(s), \A n \in t + 1 .. t + j : ~s[n]
    PROVE  Exact(g, s, t + j)
<1>1. ASSUME NEW m \in 1 .. t + j PROVE s[m] <=> \E k \in DOMAIN g : g[k] = Body(m)
  <2>1. CASE m <= t
    BY <2>1 DEF Exact
  <2>2. CASE m > t
    <3>1. m \in t + 1 .. t + j
      BY <2>2
    <3>2. ASSUME NEW k \in DOMAIN g, g[k] = Body(m) PROVE FALSE
      <4>1. PICK n \in 1 .. t : g[k] = Body(n)
        BY DEF Exact
      <4>2. m \in Nat /\ n \in Nat /\ Body(m) = Body(n)
        BY <3>2, <4>1
      <4>3. m = n
        BY <4>2, Bodies
      <4> QED BY <2>2, <4>3
    <3> QED BY <3>1, <3>2
  <2> QED BY <2>1, <2>2
<1>2. \A k \in DOMAIN g : \E m \in 1 .. t + j : g[k] = Body(m)
  BY DEF Exact
<1> QED BY <1>1, <1>2 DEF Exact

\* Before the first there is nothing.
LEMMA NothingHeard == Exact(<<>>, <<>>, 0)
BY DEF Exact

\* The next one is heard.
LEMMA ExactHeard ==
    ASSUME NEW g \in Seq(Units \X Units), NEW s \in Seq(BOOLEAN), NEW t \in Nat, Exact(g, s, t),
           t + 1 <= Len(s), s[t + 1]
    PROVE  /\ Append(g, Body(t + 1)) \in Seq(Units \X Units)
           /\ Exact(Append(g, Body(t + 1)), s, t + 1)
<1>a. t + 1 \in Nat \ {0}
  OBVIOUS
<1>0. PICK b \in Units \X Units : b = Body(t + 1)
  BY <1>a, Bodies
<1>1. PICK h : h = Append(g, b)
  OBVIOUS
<1>2. /\ h \in Seq(Units \X Units) /\ DOMAIN h = 1 .. Len(g) + 1 /\ DOMAIN g = 1 .. Len(g) /\ Len(g) \in Nat
      /\ h[Len(g) + 1] = b /\ \A k \in 1 .. Len(g) : h[k] = g[k]
  BY <1>1
<1>3. ASSUME NEW m \in 1 .. t + 1 PROVE s[m] <=> \E k \in DOMAIN h : h[k] = Body(m)
  <2>1. CASE m = t + 1
    <3>1. Len(g) + 1 \in DOMAIN h /\ h[Len(g) + 1] = Body(m)
      BY <1>0, <1>2, <2>1
    <3> QED BY <2>1, <3>1
  <2>2. CASE m # t + 1
    <3>1. m \in 1 .. t
      BY <2>2
    <3>2. s[m] <=> \E k \in DOMAIN g : g[k] = Body(m)
      BY <3>1 DEF Exact
    <3>3. b # Body(m)
      BY <1>0, <1>a, <2>2, Bodies
    <3>4. ASSUME NEW k \in DOMAIN h, h[k] = Body(m) PROVE k \in DOMAIN g /\ g[k] = Body(m)
      <4>1. k # Len(g) + 1
        BY <1>2, <3>3, <3>4
      <4>2. k \in 1 .. Len(g)
        BY <1>2, <4>1
      <4> QED BY <1>2, <3>4, <4>2
    <3>5. ASSUME NEW k \in DOMAIN g, g[k] = Body(m) PROVE k \in DOMAIN h /\ h[k] = Body(m)
      BY <1>2, <3>5
    <3> QED BY <3>2, <3>4, <3>5
  <2> QED BY <2>1, <2>2
<1>4. ASSUME NEW k \in DOMAIN h PROVE \E m \in 1 .. t + 1 : h[k] = Body(m)
  <2>1. CASE k = Len(g) + 1
    <3>1. t + 1 \in 1 .. t + 1 /\ h[k] = Body(t + 1)
      BY <1>0, <1>2, <2>1
    <3> QED BY <3>1
  <2>2. CASE k # Len(g) + 1
    <3>1. k \in DOMAIN g /\ h[k] = g[k]
      BY <1>2, <2>2
    <3>2. PICK m \in 1 .. t : g[k] = Body(m)
      BY <3>1 DEF Exact
    <3>3. m \in 1 .. t + 1
      OBVIOUS
    <3> QED BY <3>1, <3>2, <3>3
  <2> QED BY <2>1, <2>2
<1>5. ASSUME NEW k \in DOMAIN h, NEW l \in DOMAIN h, k < l PROVE h[k][2] < h[l][2]
  <2>1. k \in DOMAIN g /\ h[k] = g[k]
    BY <1>2, <1>5
  <2>2. CASE l = Len(g) + 1
    <3>1. PICK m \in 1 .. t : g[k] = Body(m)
      BY <2>1 DEF Exact
    <3>2. h[l][2] = 4 * (t + 1)
      BY <1>0, <1>2, <1>a, <2>2, Bodies
    <3>3. h[k][2] = 4 * m
      <4>1. m \in Nat /\ Body(m)[2] = 4 * m
        BY Bodies
      <4> QED BY <2>1, <3>1, <4>1
    <3> QED BY <3>2, <3>3
  <2>3. CASE l # Len(g) + 1
    <3>1. l \in DOMAIN g /\ h[l] = g[l]
      BY <1>2, <2>3
    <3> QED BY <1>5, <2>1, <3>1 DEF Exact
  <2> QED BY <2>2, <2>3
<1>6. Exact(h, s, t + 1)
  BY <1>3, <1>4, <1>5 DEF Exact
<1> QED BY <1>0, <1>1, <1>2, <1>6

\* One more is sent.
LEMMA ExactSent ==
    ASSUME NEW g, NEW s \in Seq(BOOLEAN), NEW t \in Nat, Exact(g, s, t), NEW json \in BOOLEAN
    PROVE  /\ Append(s, json) \in Seq(BOOLEAN) /\ Len(Append(s, json)) = Len(s) + 1
           /\ Exact(g, Append(s, json), t)
<1>1. /\ Append(s, json) \in Seq(BOOLEAN) /\ Len(Append(s, json)) = Len(s) + 1 /\ Len(s) \in Nat
      /\ \A m \in 1 .. Len(s) : Append(s, json)[m] = s[m]
  OBVIOUS
<1>2. t <= Len(s) /\ t <= Len(s) + 1 /\ \A m \in 1 .. t : m \in 1 .. Len(s)
  BY <1>1 DEF Exact
<1> QED BY <1>1, <1>2 DEF Exact

-----------------------------------------------------------------------------
(* The loop over the buffer.                                               *)

\* Behind the header of a message comes its body.
LEMMA TextIsBody ==
    ASSUME NEW buf \in Seq(Units), NEW k \in Nat, Follows(k, buf), NEW n \in Nat, Whole(buf, n),
           NEW m \in Nat, k + n = 4 * m + 2
    PROVE  Text(buf, n) = Body(m + 1) /\ k + Len(buf) >= 4 * (m + 1)
<1>1. n + 2 <= Len(buf) /\ n + 1 \in DOMAIN buf /\ n + 2 \in DOMAIN buf
  BY DEF Whole
<1>2. buf[n + 1] = k + (n + 1) /\ buf[n + 2] = k + (n + 2)
  BY <1>1 DEF Follows
<1>3. k + (n + 1) = 4 * (m + 1) - 1 /\ k + (n + 2) = 4 * (m + 1)
  OBVIOUS
<1> QED BY <1>1, <1>2, <1>3 DEF Text, Body

\* What is left in the buffer, and how much of it was removed.
LEMMA Left ==
    ASSUME ChannelTypes, NEW e \in Ends, NEW buf \in Seq(Units), NEW n \in 0 .. Len(buf), NEW inBody \in BOOLEAN,
           Leave(e, buf, n, inBody), NEW k \in Nat, Follows(k, buf)
    PROVE  /\ inbuf' \in [Ends -> Seq(Units)] /\ body' \in [Ends -> BOOLEAN]
           /\ inbuf'[Other(e)] = inbuf[Other(e)] /\ body'[Other(e)] = body[Other(e)]
           /\ body'[e] = inBody /\ Len(inbuf'[e]) = Len(buf) - n /\ Follows(k + n, inbuf'[e])
           /\ inbuf'[e] # <<>> => inbuf'[e][1] = k + n + 1
           /\ n < Len(buf) => inbuf'[e] # <<>>
<1>1. PICK r : r = SubSeq(buf, n + 1, Len(buf))
  OBVIOUS
<1>2. r \in Seq(Units) /\ Len(r) = Len(buf) - n /\ Follows(k + n, r)
  BY <1>1, FollowsCut
<1>3. inbuf' = [inbuf EXCEPT ![e] = r] /\ body' = [body EXCEPT ![e] = inBody] /\ Other(e) \in Ends /\ Other(e) # e
  BY <1>1 DEF Leave, Ends, Other
<1>4. /\ inbuf' \in [Ends -> Seq(Units)] /\ body' \in [Ends -> BOOLEAN] /\ inbuf'[e] = r /\ body'[e] = inBody
      /\ inbuf'[Other(e)] = inbuf[Other(e)] /\ body'[Other(e)] = body[Other(e)]
  BY <1>2, <1>3 DEF ChannelTypes
<1>5. r # <<>> => r[1] = k + n + 1
  <2>1. r # <<>> => 1 \in DOMAIN r
    BY <1>2
  <2> QED BY <1>2, <2>1 DEF Follows
<1>6. n < Len(buf) => r # <<>>
  BY <1>2
<1> QED BY <1>2, <1>4, <1>5, <1>6

\* What is left when n units are taken off.
LEMMA TakenOff ==
    ASSUME NEW k \in Nat, NEW n \in Nat, NEW l \in Nat, n + 2 <= l
    PROVE  k + n + (l - n) = k + l /\ l - n >= 2
OBVIOUS

\* What process_ipc_message's loop leaves, when what e has read is in place.
LEMMA Processed ==
    ASSUME ChannelTypes, NEW e \in Ends, NEW buf \in Seq(Units), NEW inBody \in BOOLEAN, NEW below,
           Exact(got[e], sent[Other(e)], tried[e]), Process(e, buf, inBody, below),
           NEW k \in Nat, inBody => k = 4 * tried[e] + 2, ~inBody => k = 4 * tried[e],
           Follows(k, buf), k + Len(buf) <= 4 * Len(sent[Other(e)])
    PROVE  /\ inbuf' \in [Ends -> Seq(Units)] /\ got' \in [Ends -> Seq(Units \X Units)]
           /\ body' \in [Ends -> BOOLEAN] /\ tried' \in [Ends -> Nat] /\ busy' \in BOOLEAN
           /\ inbuf'[Other(e)] = inbuf[Other(e)] /\ got'[Other(e)] = got[Other(e)]
           /\ body'[Other(e)] = body[Other(e)] /\ tried'[Other(e)] = tried[Other(e)]
           /\ Exact(got'[e], sent[Other(e)], tried'[e])
           /\ Held(e)' => Len(inbuf'[e]) >= 2
           /\ Follows(Removed(e)', inbuf'[e])
           /\ HasRead(e)' = k + Len(buf)
           /\ IF e = "parent"
              THEN /\ busy' = busy
                   /\ stack' = IF Held(e)' THEN <<Frame("message", TheFork)>> \o below ELSE below
              ELSE stack' = below /\ busy' = Held(e)'
<1>a. Other(e) \in Ends /\ Other(e) # e
  BY DEF Ends, Other
<1>b. PICK t \in Nat, s \in Seq(BOOLEAN), g \in Seq(Units \X Units) :
         t = tried[e] /\ s = sent[Other(e)] /\ g = got[e]
  BY <1>a DEF ChannelTypes
<1>c. /\ Exact(g, s, t) /\ Len(buf) \in Nat /\ Len(s) \in Nat /\ DOMAIN s = 1 .. Len(s)
      /\ k + Len(buf) <= 4 * Len(s) /\ (inBody => k = 4 * t + 2) /\ (~inBody => k = 4 * t) /\ t <= Len(s)
  BY <1>b DEF Exact
<1>1. PICK j \in 0 .. Len(buf) :
         /\ \A i \in 0 .. j - 1 :
               Whole(buf, Ahead(i, inBody)) /\ ~Parses(e, Text(buf, Ahead(i, inBody)))
         /\ \/ /\ Whole(buf, Ahead(j, inBody)) /\ Parses(e, Text(buf, Ahead(j, inBody)))
               /\ Leave(e, buf, Ahead(j, inBody), TRUE)
               /\ Deliver(e, j, Text(buf, Ahead(j, inBody)), below)
            \/ /\ ~Whole(buf, Ahead(j, inBody))
               /\ IF Ahead(j, inBody) <= Len(buf) THEN Leave(e, buf, Ahead(j, inBody), TRUE)
                                                  ELSE Leave(e, buf, Ahead(j, inBody) - 2, FALSE)
               /\ Drop(e, j, below)
  BY DEF Process
<1>2. ASSUME NEW i \in 0 .. j PROVE Ahead(i, inBody) \in Nat /\ k + Ahead(i, inBody) = 4 * (t + i) + 2
  <2>1. i \in Nat
    OBVIOUS
  <2>2. CASE inBody
    <3>1. k = 4 * t + 2 /\ Ahead(i, inBody) = 4 * i
      BY <1>c, <2>1, <2>2 DEF Ahead
    <3> QED BY <2>1, <3>1
  <2>3. CASE ~inBody
    <3>1. k = 4 * t /\ Ahead(i, inBody) = 4 * i + 2
      BY <1>c, <2>1, <2>3 DEF Ahead
    <3> QED BY <2>1, <3>1
  <2> QED BY <2>2, <2>3
<1>3. ASSUME NEW i \in 0 .. j - 1 PROVE t + i + 1 \in DOMAIN s /\ ~s[t + i + 1]
  <2>1. i \in 0 .. j /\ t + i \in Nat
    OBVIOUS
  <2>2. Text(buf, Ahead(i, inBody)) = Body(t + i + 1) /\ k + Len(buf) >= 4 * (t + i + 1)
    BY <1>1, <1>2, <2>1, TextIsBody
  <2>3. t + i + 1 \in DOMAIN s
    <3>0. t + i + 1 \in Nat \ {0}
      OBVIOUS
    <3>1. PICK m \in Nat \ {0}, l \in Nat : m = t + i + 1 /\ l = Len(s)
      BY <1>c, <3>0
    <3>2. 4 * m <= 4 * l
      BY <1>c, <2>2, <3>1
    <3>3. m <= l
      BY <3>2
    <3> QED BY <1>c, <3>1, <3>3
  <2>4. s[t + i + 1] => Parses(e, Text(buf, Ahead(i, inBody)))
    BY <1>b, <2>2, <2>3 DEF Parses
  <2> QED BY <1>1, <2>3, <2>4
<1>4. t + j <= Len(s) /\ Exact(g, s, t + j)
  <2>1. t + j <= Len(s)
    <3>1. CASE j = 0
      BY <1>c, <3>1
    <3>2. CASE j # 0
      <4>1. j - 1 \in 0 .. j - 1
        BY <3>2
      <4>2. t + (j - 1) + 1 \in DOMAIN s
        BY <1>3, <4>1
      <4> QED BY <1>c, <4>2
    <3> QED BY <3>1, <3>2
  <2>2. ASSUME NEW m \in t + 1 .. t + j PROVE ~s[m]
    <3>1. PICK i \in 0 .. j - 1 : m = t + i + 1
      <4>1. m - t - 1 \in 0 .. j - 1 /\ m = t + (m - t - 1) + 1
        OBVIOUS
      <4> QED BY <4>1
    <3> QED BY <1>3, <3>1
  <2>3. j \in Nat
    OBVIOUS
  <2> QED BY <1>c, <2>1, <2>2, <2>3, ExactDropped
<1>5. PICK n \in Nat : n = Ahead(j, inBody) /\ k + n = 4 * (t + j) + 2
  <2>1. j \in 0 .. j
    OBVIOUS
  <2> QED BY <1>2, <2>1
<1>6. CASE /\ Whole(buf, n) /\ Parses(e, Text(buf, n))
           /\ Leave(e, buf, n, TRUE) /\ Deliver(e, j, Text(buf, n), below)
  <2>1. n + 2 <= Len(buf) /\ n \in 0 .. Len(buf)
    BY <1>c, <1>6 DEF Whole
  <2>2. Text(buf, n) = Body(t + j + 1) /\ k + Len(buf) >= 4 * (t + j + 1)
    <3>1. PICK m \in Nat : m = t + j
      OBVIOUS
    <3>2. k + n = 4 * m + 2
      BY <1>5, <3>1
    <3>3. Text(buf, n) = Body(m + 1) /\ k + Len(buf) >= 4 * (m + 1)
      BY <1>6, <3>2, TextIsBody
    <3> QED BY <3>1, <3>3
  <2>3. t + j + 1 <= Len(s) /\ s[t + j + 1]
    <3>1. t + j + 1 <= Len(s)
      BY <1>c, <2>2
    <3>2. PICK m \in DOMAIN s : s[m] /\ Body(t + j + 1) = Body(m)
      BY <1>b, <1>6, <2>2 DEF Parses
    <3>3. m \in Nat /\ t + j + 1 \in Nat
      BY <1>c
    <3>4. m = t + j + 1
      BY <3>2, <3>3, Bodies
    <3> QED BY <3>1, <3>2, <3>4
  <2>4. Append(g, Body(t + j + 1)) \in Seq(Units \X Units) /\ Exact(Append(g, Body(t + j + 1)), s, t + j + 1)
    <3>1. t + j \in Nat
      OBVIOUS
    <3> QED BY <1>4, <2>3, <3>1, ExactHeard
  <2>5. /\ inbuf' \in [Ends -> Seq(Units)] /\ body' \in [Ends -> BOOLEAN]
        /\ inbuf'[Other(e)] = inbuf[Other(e)] /\ body'[Other(e)] = body[Other(e)]
        /\ Len(inbuf'[e]) = Len(buf) - n /\ Follows(k + n, inbuf'[e])
        /\ inbuf'[e] # <<>> /\ inbuf'[e][1] = k + n + 1
    <3>1. n < Len(buf)
      BY <2>1, <1>c
    <3>2. PICK r \in 0 .. Len(buf), b \in BOOLEAN : r = n /\ b = TRUE
      BY <2>1
    <3>3. Leave(e, buf, r, b)
      BY <1>6, <3>2
    <3>4. /\ inbuf' \in [Ends -> Seq(Units)] /\ body' \in [Ends -> BOOLEAN]
          /\ inbuf'[Other(e)] = inbuf[Other(e)] /\ body'[Other(e)] = body[Other(e)]
          /\ Len(inbuf'[e]) = Len(buf) - r /\ Follows(k + r, inbuf'[e])
          /\ inbuf'[e] # <<>> => inbuf'[e][1] = k + r + 1
          /\ r < Len(buf) => inbuf'[e] # <<>>
      BY <3>3, Left
    <3> QED BY <3>1, <3>2, <3>4
  <2>6. /\ tried' = [tried EXCEPT ![e] = t + j + 1]
        /\ got' = [got EXCEPT ![e] = Append(g, Body(t + j + 1))]
        /\ IF e = "parent" THEN stack' = <<Frame("message", TheFork)>> \o below /\ UNCHANGED busy
           ELSE busy' = TRUE /\ stack' = below
    BY <1>b, <1>6, <2>2 DEF Deliver
  <2>7. /\ tried' \in [Ends -> Nat] /\ tried'[e] = t + j + 1 /\ tried'[Other(e)] = tried[Other(e)]
        /\ got' \in [Ends -> Seq(Units \X Units)] /\ got'[e] = Append(g, Body(t + j + 1))
        /\ got'[Other(e)] = got[Other(e)]
    <3>0. t + j + 1 \in Nat
      OBVIOUS
    <3>1. PICK h \in Seq(Units \X Units), m \in Nat : h = Append(g, Body(t + j + 1)) /\ m = t + j + 1
      BY <2>4, <3>0
    <3>2. tried' = [tried EXCEPT ![e] = m] /\ got' = [got EXCEPT ![e] = h]
      BY <2>6, <3>1
    <3>3. tried' \in [Ends -> Nat] /\ tried'[e] = m /\ tried'[Other(e)] = tried[Other(e)]
      BY <1>a, <3>2 DEF ChannelTypes
    <3>4. got' \in [Ends -> Seq(Units \X Units)] /\ got'[e] = h /\ got'[Other(e)] = got[Other(e)]
      BY <1>a, <3>2 DEF ChannelTypes
    <3> QED BY <3>1, <3>3, <3>4
  <2>8. Held(e)' /\ Removed(e)' = k + n
    <3>1. 4 * (t + j + 1) - 1 = k + n + 1 /\ 4 * (t + j + 1) - 2 = k + n
      BY <1>5
    <3> QED BY <2>5, <2>7, <3>1 DEF Held, Removed
  <2>9. HasRead(e)' = k + Len(buf) /\ Len(inbuf'[e]) >= 2
    <3>1. Len(buf) \in Nat /\ n + 2 <= Len(buf)
      BY <1>c, <2>1
    <3>2. k + n + (Len(buf) - n) = k + Len(buf) /\ Len(buf) - n >= 2
      BY <3>1, TakenOff
    <3>3. HasRead(e)' = k + n + (Len(buf) - n)
      BY <2>5, <2>8 DEF HasRead
    <3> QED BY <2>5, <3>2, <3>3
  <2>10. busy' \in BOOLEAN
    BY <2>6 DEF ChannelTypes
  <2> QED BY <1>b, <2>4, <2>5, <2>6, <2>7, <2>8, <2>9, <2>10
<1>7. CASE /\ ~Whole(buf, n)
           /\ IF n <= Len(buf) THEN Leave(e, buf, n, TRUE) ELSE Leave(e, buf, n - 2, FALSE)
           /\ Drop(e, j, below)
  <2>1. PICK r \in 0 .. Len(buf), b \in BOOLEAN :
           Leave(e, buf, r, b) /\ (b => r = n) /\ (~b => r = n - 2)
    <3>1. CASE n <= Len(buf)
      <4>1. n \in 0 .. Len(buf)
        BY <1>c, <3>1
      <4> QED BY <1>7, <3>1, <4>1
    <3>2. CASE ~(n <= Len(buf))
      <4>1. n - 2 \in 0 .. Len(buf)
        <5>1. CASE j = 0
          BY <1>c, <1>5, <3>2, <5>1 DEF Ahead
        <5>2. CASE j # 0
          <6>1. j - 1 \in 0 .. j - 1 /\ j - 1 \in 0 .. j
            BY <5>2
          <6>2. Ahead(j - 1, inBody) + 2 <= Len(buf)
            BY <1>1, <6>1 DEF Whole
          <6>3. Ahead(j - 1, inBody) + 2 = n - 2 /\ Ahead(j - 1, inBody) \in Nat
            <7>1. PICK a : a = Ahead(j - 1, inBody)
              OBVIOUS
            <7>2. a \in Nat /\ k + a = 4 * (t + (j - 1)) + 2
              BY <1>2, <6>1, <7>1
            <7>3. a + 2 = n - 2
              <8>1. j \in Nat /\ n \in Nat /\ k + n = 4 * (t + j) + 2
                BY <1>5
              <8> QED BY <7>2, <8>1
            <7> QED BY <7>1, <7>2, <7>3
          <6> QED BY <1>c, <6>2, <6>3
        <5> QED BY <5>1, <5>2
      <4> QED BY <1>7, <3>2, <4>1
    <3> QED BY <3>1, <3>2
  <2>2. /\ inbuf' \in [Ends -> Seq(Units)] /\ body' \in [Ends -> BOOLEAN]
        /\ inbuf'[Other(e)] = inbuf[Other(e)] /\ body'[Other(e)] = body[Other(e)]
        /\ body'[e] = b /\ Len(inbuf'[e]) = Len(buf) - r /\ Follows(k + r, inbuf'[e])
        /\ inbuf'[e] # <<>> => inbuf'[e][1] = k + r + 1
    BY <2>1, Left
  <2>3. /\ tried' = [tried EXCEPT ![e] = t + j] /\ got' = got
        /\ busy' = (busy /\ e # "kid") /\ stack' = below
    BY <1>b, <1>7 DEF Drop
  <2>4. tried' \in [Ends -> Nat] /\ tried'[e] = t + j /\ tried'[Other(e)] = tried[Other(e)]
    BY <1>a, <2>3 DEF ChannelTypes
  <2>5. (b => k + r = 4 * (t + j) + 2) /\ (~b => k + r = 4 * (t + j))
    BY <1>5, <2>1
  <2>6. ~Held(e)'
    <3>1. k + r + 1 # 4 * (t + j) - 1
      BY <2>5
    <3> QED BY <2>2, <2>4, <3>1 DEF Held
  <2>7. Removed(e)' = k + r
    BY <2>2, <2>4, <2>5, <2>6 DEF Removed
  <2>8. HasRead(e)' = k + Len(buf)
    BY <1>c, <2>2, <2>7 DEF HasRead
  <2>9. busy' \in BOOLEAN /\ (e = "parent" => busy' = busy) /\ (e # "parent" => busy' = FALSE)
    BY <2>3 DEF ChannelTypes, Ends
  <2>10. Exact(got'[e], s, tried'[e]) /\ got' \in [Ends -> Seq(Units \X Units)]
    BY <1>b, <1>4, <2>3, <2>4 DEF ChannelTypes
  <2>11. Follows(Removed(e)', inbuf'[e])
    BY <2>2, <2>7
  <2>12. IF e = "parent" THEN busy' = busy /\ stack' = below ELSE stack' = below /\ busy' = FALSE
    BY <2>3, <2>9
  <2>13. got'[Other(e)] = got[Other(e)] /\ Exact(got'[e], sent[Other(e)], tried'[e])
    BY <1>b, <2>3, <2>10
  <2>14. tried' \in [Ends -> Nat] /\ tried'[Other(e)] = tried[Other(e)]
    BY <2>4
  <2>15. Held(e)' = FALSE
    BY <2>6 DEF Held
  <2> QED BY <2>2, <2>8, <2>9, <2>10, <2>11, <2>12, <2>13, <2>14, <2>15
<1> QED BY <1>1, <1>5, <1>6, <1>7

-----------------------------------------------------------------------------
(* Steps that leave what is in the channel alone.                          *)

\* Calls of other listeners, and their returns, leave 'message' outermost.
LEMMA OtherCalls ==
    ASSUME stack \in Seq(Frames), LoopListens, NEW f \in Frames, f.event # "message",
           \/ stack' \in {stack, <<f>> \o stack}
           \/ stack # <<>> /\ Top.event # "message" /\ stack' \in {Rest, <<f>> \o Rest}
    PROVE  LoopListens' /\ Listening' = Listening
<1> DEFINE LL(q) == \A k \in DOMAIN q : q[k].event = "message" => k = Len(q)
           Li(q) == q # <<>> /\ q[Len(q)].event = "message"
<1>1. LL(stack)
  BY DEF LoopListens
<1>2. ASSUME NEW q \in Seq(Frames), LL(q) PROVE LL(<<f>> \o q) /\ Li(<<f>> \o q) = Li(q)
  <2> DEFINE st == <<f>> \o q
  <2>1. /\ st \in Seq(Frames) /\ Len(st) = Len(q) + 1 /\ Len(q) \in Nat /\ st # <<>>
        /\ DOMAIN st = 1 .. Len(q) + 1 /\ DOMAIN q = 1 .. Len(q) /\ (q = <<>> <=> Len(q) = 0)
        /\ st[1] = f /\ \A i \in 1 .. Len(q) : st[i + 1] = q[i]
    OBVIOUS
  <2>2. LL(st)
    <3> SUFFICES ASSUME NEW k \in DOMAIN st, st[k].event = "message" PROVE k = Len(st)
      OBVIOUS
    <3>1. k # 1 /\ k - 1 \in DOMAIN q /\ (k - 1) + 1 = k
      BY <2>1
    <3>2. q[k - 1].event = "message"
      BY <2>1, <3>1
    <3>3. k - 1 = Len(q)
      BY <1>2, <3>1, <3>2
    <3> QED BY <2>1, <3>1, <3>3
  <2>3. Li(st) = Li(q)
    <3>1. CASE q = <<>>
      BY <2>1, <3>1
    <3>2. CASE q # <<>>
      <4>1. st[Len(st)] = q[Len(q)]
        BY <2>1, <3>2
      <4> QED BY <2>1, <3>2, <4>1
    <3> QED BY <3>1, <3>2
  <2> QED BY <2>2, <2>3
<1>3. ASSUME stack # <<>>, Top.event # "message" PROVE Rest \in Seq(Frames) /\ LL(Rest) /\ Li(Rest) = Li(stack)
  <2>1. /\ Rest \in Seq(Frames) /\ Len(stack) = Len(Rest) + 1 /\ Len(Rest) \in Nat
        /\ DOMAIN Rest = 1 .. Len(Rest) /\ DOMAIN stack = 1 .. Len(Rest) + 1 /\ (Rest = <<>> <=> Len(Rest) = 0)
        /\ Top = stack[1] /\ \A i \in 1 .. Len(Rest) : Rest[i] = stack[i + 1]
    <3>1. /\ Rest \in Seq(Frames) /\ Len(Rest) = Len(stack) - 1 /\ Top = stack[1] /\ Len(stack) \in Nat
          /\ \A i \in 1 .. Len(stack) - 1 : Rest[i] = stack[i + 1]
      BY <1>3 DEF Rest, Top
    <3>2. Len(Rest) \in Nat /\ DOMAIN Rest = 1 .. Len(Rest) /\ (Rest = <<>> <=> Len(Rest) = 0)
      BY <3>1
    <3>3. Len(stack) = Len(Rest) + 1 /\ DOMAIN stack = 1 .. Len(stack)
      BY <3>1, <3>2
    <3> QED BY <3>1, <3>2, <3>3
  <2>2. LL(Rest)
    <3> SUFFICES ASSUME NEW k \in DOMAIN Rest, Rest[k].event = "message" PROVE k = Len(Rest)
      OBVIOUS
    <3>1. k + 1 \in DOMAIN stack /\ stack[k + 1].event = "message"
      BY <2>1
    <3>2. k + 1 = Len(stack)
      BY <1>1, <3>1
    <3> QED BY <2>1, <3>2
  <2>3. Li(Rest) = Li(stack)
    <3>1. CASE Rest = <<>>
      <4>1. Len(stack) = 1 /\ stack[Len(stack)] = Top
        BY <2>1, <3>1
      <4> QED BY <1>3, <3>1, <4>1
    <3>2. CASE Rest # <<>>
      <4>1. stack[Len(stack)] = Rest[Len(Rest)]
        BY <2>1, <3>2
      <4> QED BY <1>3, <3>2, <4>1
    <3> QED BY <3>1, <3>2
  <2> QED BY <2>1, <2>2, <2>3
<1> HIDE DEF LL, Li
<1>4. LL(stack') /\ Li(stack') = Li(stack)
  <2>1. CASE stack' = stack
    BY <1>1, <2>1
  <2>2. CASE stack' = <<f>> \o stack
    BY <1>1, <1>2, <2>2
  <2>3. CASE stack # <<>> /\ Top.event # "message" /\ stack' = Rest
    BY <1>3, <2>3
  <2>4. CASE stack # <<>> /\ Top.event # "message" /\ stack' = <<f>> \o Rest
    BY <1>2, <1>3, <2>4
  <2> QED BY <2>1, <2>2, <2>3, <2>4
<1> USE DEF LL, Li
<1> QED BY <1>4 DEF LoopListens, Listening

\* The fork is one of the children, once there is one.
LEMMA OpenedFork ==
    ASSUME mode \in Scenarios, Opened
    PROVE  TheFork \in Forked /\ Forked = {TheFork} /\ TheFork \in Children /\ os[TheFork] # "none"
<1>1. PICK c \in Forked : os[c] # "none"
  BY DEF Opened
<1>2. TheFork \in Forked
  BY <1>1 DEF TheFork
<1>3. \A d \in Forked : d = TheFork
  BY <1>2, ChildrenAssumption DEF Forked
<1> QED BY <1>1, <1>2, <1>3 DEF Forked

\* What is in the channel, and what says who has it.
content == <<queue, writing, out, wire, inbuf, body, busy, sent, tried, got>>

LEMMA ContentKept ==
    ASSUME IInv, OrderInv, UNCHANGED content, mode' = mode, ref' \in BOOLEAN,
           Opened' <=> Opened, Opened => (os'[TheFork] = "running" <=> os[TheFork] = "running"),
           KidLinked',
           ~Opened => ref' = ref /\ \A e \in Ends : link'[e] = link[e],
           link'["parent"] = "freed" <=> link["parent"] = "freed", Piped' => Piped,
           NEW f \in Frames, f.event # "message",
           \/ stack' \in {stack, <<f>> \o stack}
           \/ stack # <<>> /\ Top.event # "message" /\ stack' \in {Rest, <<f>> \o Rest}
    PROVE  OrderInv'
<1>1. ChannelTypes'
  BY DEF OrderInv, ChannelTypes, content
<1>2. ASSUME NEW e \in Ends PROVE Received(e)'
  <2>1. Received(e) /\ Freed(e)' = Freed(e)
    BY DEF OrderInv, Freed
  <2> QED BY <2>1 DEF Received, Reached, HasRead, Removed, Held, content
<1>3. TheFork' = TheFork
  BY SameFork
<1>4. SentOn'
  <2>1. Piped' => Opened
    BY DEF Piped, HasPipe, OrderInv, Unused, Ends
  <2> QED BY <1>3, <2>1 DEF OrderInv, SentOn, Reached, HasRead, Removed, Held, content
<1>5. Serving'
  <2>1. LoopListens' /\ Listening' = Listening
    BY OtherCalls DEF IInv, PartialTypes, OrderInv, Serving
  <2>2. Held("parent")' = Held("parent") /\ Held("kid")' = Held("kid")
    BY DEF Held, content
  <2> QED BY <1>3, <2>1, <2>2 DEF OrderInv, Serving, content
<1>6. Unused'
  BY DEF OrderInv, Unused, content
<1> QED BY <1>1, <1>2, <1>4, <1>5, <1>6 DEF OrderInv

\* The actions that do so.
LEMMA ContentSteps ==
    ASSUME IInv, OrderInv,
           \/ UNCHANGED vars
           \/ \E c \in Children :
                 \/ ErrorEvent(c) \/ OnTimeout(c) \/ OnProcessExit(c)
                 \/ \E sig \in {"SIGTERM", "SIGKILL"} : Kill(c, sig)
                 \/ \E s \in Streams : Writes(c, s) \/ \E n \in 1 .. MaxBytes : OnRead(c, s, n)
                 \/ c \notin Forked /\ (Dies(c) \/ \E ok \in BOOLEAN : Start(c, ok))
           \/ Reap \/ CallbackReturns \/ ExitReturns \/ OtherReturns
           \/ Disconnect \/ \E e \in Ends : OnIpcEof(e)
    PROVE  OrderInv'
<1> DEFINE Called == \E f \in Frames :
                        /\ f.event # "message"
                        /\ \/ stack' \in {stack, <<f>> \o stack}
                           \/ stack # <<>> /\ Top.event # "message" /\ stack' \in {Rest, <<f>> \o Rest}
<1>a. \A c \in Children \cup {TheFork}, ev \in Events : Frame(ev, c) \in Frames /\ Frame(ev, c).event = ev
  BY DEF Frame, Frames
<1>b. ASSUME stack' = stack PROVE Called
  BY <1>a, <1>b DEF Events
<1>c. ASSUME UNCHANGED <<mode, os, content, link, ref>>, Called PROVE OrderInv'
  <2>1. (Opened' <=> Opened) /\ (Piped' <=> Piped) /\ ref' \in BOOLEAN /\ KidLinked'
    BY <1>c DEF Opened, Piped, HasPipe, Forked, OrderInv, ChannelTypes, KidLinked
  <2> QED BY <1>c, <2>1, ContentKept
<1>d. ASSUME UNCHANGED <<mode, os, content>>, Called, Opened, ref' \in BOOLEAN,
             \A e \in Ends : HasPipe(e)' => HasPipe(e), link'["kid"] \in {"open", "eof", "held", "closed"},
             link'["parent"] = "freed" <=> link["parent"] = "freed"
      PROVE  OrderInv'
  <2>1. (Opened' <=> Opened) /\ (Piped' => Piped) /\ KidLinked'
    BY <1>d DEF Opened, Piped, Forked, Ends, KidLinked
  <2> QED BY <1>d, <2>1, ContentKept
<1>e. ASSUME UNCHANGED <<mode, content, link, ref, stack>>, \A c \in Forked : os'[c] = "none" <=> os[c] = "none",
             \A c \in Forked : os'[c] = "running" <=> os[c] = "running"
      PROVE  OrderInv'
  <2>1. (Opened' <=> Opened) /\ (Piped' <=> Piped) /\ ref' \in BOOLEAN /\ KidLinked'
    BY <1>e DEF Opened, Piped, HasPipe, Forked, OrderInv, ChannelTypes, KidLinked
  <2>2. Opened => (os'[TheFork] = "running" <=> os[TheFork] = "running")
    BY <1>e, OpenedFork DEF IInv, PartialTypes
  <2> QED BY <1>b, <1>e, <2>1, <2>2, ContentKept
<1> USE DEF content, processVars, childVars, channelVars, harmVars
<1>1. CASE UNCHANGED vars
  BY <1>1, <1>b, <1>c DEF vars
<1>2. ASSUME NEW c \in Children, ErrorEvent(c) PROVE OrderInv'
  <2>1. stack' = <<Frame("error", c)>> \o stack
    BY <1>2 DEF ErrorEvent, LoopRuns
  <2>2. Called
    BY <1>a, <2>1 DEF Events
  <2> QED BY <1>2, <1>c, <2>2 DEF ErrorEvent
<1>3. ASSUME NEW c \in Children, OnTimeout(c) PROVE OrderInv'
  BY <1>3, <1>b, <1>c DEF OnTimeout
<1>4. ASSUME NEW c \in Children, OnProcessExit(c) PROVE OrderInv'
  <2>1. PICK ev \in {"callback", "exit"} : stack' = <<Frame(ev, c)>> \o stack
    BY <1>4 DEF OnProcessExit
  <2>2. Called
    BY <1>a, <2>1 DEF Events
  <2> QED BY <1>4, <1>c, <2>2 DEF OnProcessExit
<1>5. ASSUME NEW c \in Children, NEW sig, Kill(c, sig) PROVE OrderInv'
  BY <1>5, <1>b, <1>c DEF Kill
<1>6. ASSUME NEW c \in Children, NEW s, Writes(c, s) PROVE OrderInv'
  BY <1>6, <1>b, <1>c DEF Writes
<1>7. ASSUME NEW c \in Children, NEW s, NEW n, OnRead(c, s, n) PROVE OrderInv'
  <2>1. stack' = stack \/ stack' = <<Frame("data", c)>> \o stack
    BY <1>7 DEF OnRead, LoopRuns
  <2>2. Called
    BY <1>a, <1>b, <2>1 DEF Events
  <2> QED BY <1>7, <1>c, <2>2 DEF OnRead
<1>8. ASSUME NEW c \in Children, c \notin Forked, Dies(c) PROVE OrderInv'
  <2>1. \A d \in Forked : os'[d] = os[d]
    BY <1>8 DEF Dies, Forked, IInv, PartialTypes
  <2> QED BY <1>8, <1>e, <2>1 DEF Dies
<1>9. ASSUME NEW c \in Children, c \notin Forked, NEW ok \in BOOLEAN, Start(c, ok) PROVE OrderInv'
  <2>1. \A d \in Forked : os'[d] = os[d]
    BY <1>9 DEF Start, Forked, IInv, PartialTypes
  <2> QED BY <1>9, <1>e, <2>1 DEF Start, Fork
<1>10. CASE Reap
  <2>1. \A d \in Children : os'[d] = IF os[d] = "zombie" THEN "reaped" ELSE os[d]
    BY <1>10 DEF Reap
  <2>2. \A d \in Forked : (os'[d] = "none" <=> os[d] = "none") /\ (os'[d] = "running" <=> os[d] = "running")
    BY <2>1 DEF Forked
  <2> QED BY <1>10, <1>e, <2>2 DEF Reap
<1>11. CASE CallbackReturns
  <2>1. stack # <<>> /\ Top.event # "message" /\ Top \in Frames /\ stack' = <<Frame("exit", Top.child)>> \o Rest
    BY <1>11 DEF CallbackReturns, Top, IInv, PartialTypes
  <2>2. Called
    BY <1>a, <2>1 DEF Events, Frames
  <2> QED BY <1>11, <1>c, <2>2 DEF CallbackReturns
<1>12. CASE ExitReturns
  <2>1. stack # <<>> /\ Top.event # "message" /\ Top \in Frames /\ stack' = <<Frame("close", Top.child)>> \o Rest
    BY <1>12 DEF ExitReturns, Top, IInv, PartialTypes
  <2>2. Called
    BY <1>a, <2>1 DEF Events, Frames
  <2>3. CASE Top.child \in Forked /\ ref
    <3>1. Opened
      BY <2>3 DEF OrderInv, Unused
    <3>2. ref' = FALSE /\ link' = [link EXCEPT !["parent"] = IF Connected THEN "closing" ELSE @]
      BY <1>12, <2>3 DEF ExitReturns, CloseStdioPipes
    <3>3. /\ \A e \in Ends : HasPipe(e)' => HasPipe(e)
          /\ link'["parent"] = "freed" <=> link["parent"] = "freed"
          /\ link'["kid"] \in {"open", "eof", "held", "closed"}
      BY <3>1, <3>2 DEF HasPipe, Connected, Ends, IInv, PartialTypes, OrderInv, KidLinked
    <3> QED BY <1>12, <1>d, <2>2, <3>1, <3>2, <3>3 DEF ExitReturns
  <2>4. CASE ~(Top.child \in Forked /\ ref)
    BY <1>12, <1>c, <2>2, <2>4 DEF ExitReturns, CloseStdioPipes
  <2> QED BY <2>3, <2>4
<1>13. CASE OtherReturns
  <2>1. stack # <<>> /\ Top.event # "message" /\ stack' = Rest
    BY <1>13 DEF OtherReturns
  <2>2. Called
    BY <1>a, <2>1 DEF Events
  <2> QED BY <1>13, <1>c, <2>2 DEF OtherReturns
<1>14. ASSUME Disconnect \/ \E e \in Ends : OnIpcEof(e) PROVE OrderInv'
  <2>1. PICK e \in Ends, state \in {"closing", "eof"} :
           /\ Part(e, state) /\ link[e] \in {"unopened", "open"}
           /\ state = "eof" => link[e] = "open"
           /\ e = "kid" => state = "eof"
    BY <1>14 DEF Disconnect, OnIpcEof, Reads, Connected, Ends
  <2>2. /\ link' = [link EXCEPT ![e] = state]
        /\ stack' \in {stack, <<Frame("disconnect", TheFork)>> \o stack}
    BY <2>1 DEF Part
  <2>3. Called
    BY <1>a, <2>2 DEF Events
  <2>4. Opened
    BY <2>1 DEF OrderInv, Unused
  <2>5. /\ \A d \in Ends : HasPipe(d)' => HasPipe(d)
        /\ link'["parent"] = "freed" <=> link["parent"] = "freed"
        /\ link'["kid"] \in {"open", "eof", "held", "closed"}
    <3>1. link["kid"] \in {"open", "eof", "held", "closed"}
      BY <2>4 DEF OrderInv, KidLinked
    <3> QED BY <2>1, <2>2, <3>1 DEF HasPipe, Ends, IInv, PartialTypes
  <2>6. UNCHANGED <<mode, os, content, ref>>
    BY <1>14 DEF Disconnect, OnIpcEof
  <2> QED BY <1>d, <2>3, <2>4, <2>5, <2>6 DEF OrderInv, ChannelTypes
<1> QED
  BY <1>1, <1>2, <1>3, <1>4, <1>5, <1>6, <1>7, <1>8, <1>9, <1>10, <1>11, <1>12, <1>13, <1>14


-----------------------------------------------------------------------------
(* Steps that move what is in the channel.                                 *)

LEMMA ReadNat ==
    ASSUME OrderInv, NEW e \in Ends
    PROVE  /\ Removed(e) \in Nat /\ HasRead(e) \in Nat /\ Len(wire[e]) \in Nat
           /\ Reached(e) \in Nat
<1>1. inbuf[e] \in Seq(Units) /\ wire[e] \in Seq(Units) /\ tried[e] \in Nat
  BY DEF OrderInv, ChannelTypes
<1>2. Len(inbuf[e]) \in Nat /\ Len(wire[e]) \in Nat
  BY <1>1
<1>3. Held(e) => tried[e] >= 1
  <2>1. inbuf[e] # <<>> => inbuf[e][1] \in Units
    BY <1>1
  <2> QED BY <1>1, <2>1 DEF Held, Units
<1>4. Removed(e) \in Nat
  BY <1>1, <1>3 DEF Removed
<1> QED BY <1>2, <1>4 DEF HasRead, Reached

\* flush_ipc_queue, with the messages from b + 1 on in the queue and nothing
\* under way.
LEMMA Flushed ==
    ASSUME ChannelTypes, NEW b \in Nat, NEW q \in Seq(Nat \ {0}), NEW below, Flush(q, below)
    PROVE  /\ queue' \in Seq(Nat \ {0}) /\ writing' \in BOOLEAN /\ out' \in [Ends -> Seq(Units)]
           /\ out'["kid"] = out["kid"]
           /\ stack' \in {below, <<Frame("sent", TheFork)>> \o below}
           /\ HasPipe("parent") /\ out["parent"] = <<>> /\ (\A i \in DOMAIN q : q[i] = b + i) =>
                 Numbered(4 * b, b + Len(q), queue', out'["parent"], writing')
<1>a. "parent" \in Ends /\ "kid" \in Ends
  BY DEF Ends
<1>1. CASE q = <<>>
  <2>1. stack' = below /\ queue' = <<>> /\ writing' = FALSE /\ out' = out
    BY <1>1 DEF Flush
  <2>2. Len(q) = 0 /\ Len(<<>>) = 0 /\ DOMAIN (<<>>) = {}
    BY <1>1
  <2>3. Follows(4 * b, <<>>)
    BY NothingFollows
  <2>4. 4 * b + 0 = 4 * ((b + 0) - 0)
    OBVIOUS
  <2>5. Numbered(4 * b, b + Len(q), <<>>, <<>>, writing')
    BY <2>2, <2>3, <2>4 DEF Numbered
  <2> QED BY <1>1, <2>1, <2>5 DEF ChannelTypes
<1>2. CASE q # <<>>
  <2>1. /\ queue' = Tail(q)
        /\ writing' = HasPipe("parent")
        /\ out' = [out EXCEPT !["parent"] = IF HasPipe("parent") THEN @ \o Message(Head(q)) ELSE @]
        /\ stack' \in {below, <<Frame("sent", TheFork)>> \o below}
    BY <1>2 DEF Flush
  <2>2. /\ Head(q) \in Nat \ {0} /\ Head(q) = q[1] /\ 1 \in DOMAIN q
        /\ Tail(q) \in Seq(Nat \ {0}) /\ Len(Tail(q)) = Len(q) - 1 /\ Len(q) \in Nat
        /\ \A i \in DOMAIN Tail(q) : i \in Nat /\ i + 1 \in DOMAIN q /\ Tail(q)[i] = q[i + 1]
    BY <1>2
  <2>3. Message(Head(q)) \in Seq(Units) /\ Len(Message(Head(q))) = 4 /\ Follows(4 * Head(q) - 4, Message(Head(q)))
    BY <2>2, MessageFollows
  <2>4. out' \in [Ends -> Seq(Units)] /\ out'["kid"] = out["kid"]
        /\ (HasPipe("parent") /\ out["parent"] = <<>> => out'["parent"] = Message(Head(q)))
    <3>1. PICK o \in Seq(Units), m \in Seq(Units) : o = out["parent"] /\ m = Message(Head(q))
      BY <1>a, <2>3 DEF ChannelTypes
    <3>2. o \o m \in Seq(Units) /\ (o = <<>> => o \o m = m)
      OBVIOUS
    <3>3. out' = [out EXCEPT !["parent"] = IF HasPipe("parent") THEN o \o m ELSE o]
      BY <2>1, <3>1
    <3> QED BY <1>a, <3>1, <3>2, <3>3 DEF ChannelTypes
  <2>5. writing' \in BOOLEAN
    BY <2>1 DEF HasPipe
  <2>6. ASSUME HasPipe("parent"), out["parent"] = <<>>, \A i \in DOMAIN q : q[i] = b + i
        PROVE  Numbered(4 * b, b + Len(q), queue', out'["parent"], writing')
    <3>1. Head(q) = b + 1 /\ 4 * Head(q) - 4 = 4 * b
      BY <2>2, <2>6
    <3>2. Follows(4 * b, out'["parent"]) /\ Len(out'["parent"]) = 4
      <4>1. out'["parent"] = Message(Head(q))
        BY <2>4, <2>6
      <4> QED BY <2>3, <3>1, <4>1
    <3>3. 4 * b + 4 = 4 * ((b + Len(q)) - Len(queue'))
      BY <2>1, <2>2
    <3>4. ASSUME NEW i \in DOMAIN queue' PROVE queue'[i] = (b + Len(q)) - Len(queue') + i
      <4>1. i \in Nat /\ queue'[i] = q[i + 1] /\ q[i + 1] = b + (i + 1)
        BY <2>1, <2>2, <2>6
      <4> QED BY <2>1, <2>2, <4>1
    <3> QED BY <2>1, <2>6, <3>2, <3>3, <3>4 DEF Numbered
  <2>7. HasPipe("parent") /\ out["parent"] = <<>> /\ (\A i \in DOMAIN q : q[i] = b + i) =>
           Numbered(4 * b, b + Len(q), queue', out'["parent"], writing')
    BY <2>6
  <2>8. queue' \in Seq(Nat \ {0})
    BY <2>1, <2>2
  <2> QED BY <2>1, <2>4, <2>5, <2>7, <2>8
<1> QED BY <1>1, <1>2

\* The number of the first message in the queue.
LEMMA FirstQueued ==
    ASSUME NEW k \in Nat, NEW s \in Nat, NEW q \in Seq(Nat \ {0}), NEW o \in Seq(Units), NEW w,
           Numbered(k, s, q, o, w)
    PROVE  /\ s - Len(q) \in Nat
           /\ ~w => o = <<>> /\ k = 4 * (s - Len(q))
<1>1. k + Len(o) = 4 * (s - Len(q)) /\ Len(o) \in Nat /\ Len(q) \in Nat /\ (~w => o = <<>>)
  BY DEF Numbered
<1>2. s - Len(q) \in Int /\ 4 * (s - Len(q)) >= 0
  BY <1>1
<1>3. s - Len(q) \in Nat
  BY <1>2
<1>4. o = <<>> => Len(o) = 0
  OBVIOUS
<1> QED BY <1>1, <1>3, <1>4

\* One more message.
LEMMA NumberedAppend ==
    ASSUME NEW k, NEW s \in Nat, NEW q \in Seq(Nat \ {0}), NEW o, NEW w, Numbered(k, s, q, o, w)
    PROVE  /\ Numbered(k, s + 1, Append(q, s + 1), o, w)
           /\ \A i \in DOMAIN Append(q, s + 1) : Append(q, s + 1)[i] = (s - Len(q)) + i
<1>0. PICK p : p = Append(q, s + 1)
  OBVIOUS
<1>1. /\ p \in Seq(Nat \ {0}) /\ Len(p) = Len(q) + 1 /\ Len(q) \in Nat /\ DOMAIN p = 1 .. Len(q) + 1
      /\ DOMAIN q = 1 .. Len(q)
      /\ \A i \in 1 .. Len(q) + 1 : p[i] = IF i <= Len(q) THEN q[i] ELSE s + 1
  BY <1>0
<1>2. PICK n \in Nat : n = Len(q)
  BY <1>1
<1>3. \A i \in 1 .. n : q[i] = s - n + i
  BY <1>1, <1>2 DEF Numbered
<1>4. ASSUME NEW i \in 1 .. n + 1 PROVE p[i] = (s - n) + i
  <2>1. CASE i <= n
    <3>1. i \in 1 .. n /\ p[i] = q[i]
      BY <1>1, <1>2, <1>4, <2>1
    <3> QED BY <1>3, <3>1
  <2>2. CASE i = n + 1
    <3>1. p[i] = s + 1
      BY <1>1, <1>2, <1>4, <2>2
    <3>2. s + 1 = (s - n) + (n + 1)
      OBVIOUS
    <3> QED BY <2>2, <3>1, <3>2
  <2>3. i <= n \/ i = n + 1
    BY <1>4
  <2> QED BY <2>1, <2>2, <2>3
<1>5. (s + 1) - Len(p) = s - Len(q)
  BY <1>1
<1>6. ASSUME NEW i \in DOMAIN p PROVE p[i] = (s + 1) - Len(p) + i
  BY <1>1, <1>2, <1>4, <1>5
<1>7. Numbered(k, s + 1, p, o, w)
  BY <1>5, <1>6 DEF Numbered
<1>8. ASSUME NEW i \in DOMAIN p PROVE p[i] = (s - Len(q)) + i
  BY <1>1, <1>2, <1>4
<1> QED BY <1>0, <1>7, <1>8

\* Nothing is received while messages are sent.
LEMMA StillReceived ==
    ASSUME OrderInv, NEW e \in Ends, UNCHANGED <<link, wire, inbuf, body, tried, got>>,
           \/ sent'[Other(e)] = sent[Other(e)]
           \/ \E json \in BOOLEAN : sent'[Other(e)] = Append(sent[Other(e)], json)
    PROVE  Received(e)'
<1>1. Received(e) /\ tried[e] \in Nat /\ sent[Other(e)] \in Seq(BOOLEAN) /\ Reached(e) \in Nat
  BY ReadNat DEF OrderInv, ChannelTypes, Ends, Other
<1>2. Exact(got[e], sent'[Other(e)], tried[e]) /\ Len(sent'[Other(e)]) >= Len(sent[Other(e)])
  <2>1. CASE sent'[Other(e)] = sent[Other(e)]
    <3>1. Len(sent[Other(e)]) \in Nat
      BY <1>1
    <3> QED BY <1>1, <2>1, <3>1 DEF Received
  <2>2. CASE \E json \in BOOLEAN : sent'[Other(e)] = Append(sent[Other(e)], json)
    <3>1. PICK json \in BOOLEAN : sent'[Other(e)] = Append(sent[Other(e)], json)
      BY <2>2
    <3>2. Exact(got[e], sent[Other(e)], tried[e])
      BY <1>1 DEF Received
    <3>3. Len(sent'[Other(e)]) = Len(sent[Other(e)]) + 1 /\ Exact(got[e], sent'[Other(e)], tried[e])
      BY <1>1, <3>1, <3>2, ExactSent
    <3>4. Len(sent[Other(e)]) \in Nat
      BY <1>1
    <3> QED BY <3>3, <3>4
  <2> QED BY <2>1, <2>2
<1>3. /\ Held(e)' = Held(e) /\ Removed(e)' = Removed(e) /\ HasRead(e)' = HasRead(e)
      /\ Reached(e)' = Reached(e) /\ Freed(e)' = Freed(e)
  BY DEF Held, Removed, HasRead, Reached, Freed
<1>4. Reached(e) <= 4 * Len(sent[Other(e)]) => Reached(e) <= 4 * Len(sent'[Other(e)])
  <2>1. Len(sent[Other(e)]) \in Nat /\ Len(sent'[Other(e)]) \in Nat
    BY <1>1, ExactSent DEF Received
  <2> QED BY <1>1, <1>2, <2>1
<1> QED BY <1>1, <1>2, <1>3, <1>4 DEF Received

\* Messages are queued and given to uv_write.
LEMMA WriteSteps ==
    ASSUME IInv, OrderInv, Send \/ OnIpcWrite
    PROVE  OrderInv'
<1>a. "parent" \in Ends /\ "kid" \in Ends
  BY DEF Ends
<1>b. Opened
  BY DEF Send, OnIpcWrite, OrderInv, Unused
<1>c. UNCHANGED <<mode, os, link, ref, wire, inbuf, body, busy, tried, got>>
  BY DEF Send, OnIpcWrite, processVars
<1>d. Opened' /\ Forked' = Forked /\ TheFork' = TheFork
  BY <1>b, <1>c, SameFork DEF Opened
<1>e. /\ sent["parent"] \in Seq(BOOLEAN) /\ Len(sent["parent"]) \in Nat /\ queue \in Seq(Nat \ {0}) /\ Len(queue) \in Nat
      /\ out["parent"] \in Seq(Units) /\ Reached("kid") \in Nat
  <2>1. sent["parent"] \in Seq(BOOLEAN) /\ queue \in Seq(Nat \ {0}) /\ out["parent"] \in Seq(Units)
    BY <1>a DEF OrderInv, ChannelTypes
  <2>2. Len(sent["parent"]) \in Nat /\ Len(queue) \in Nat
    BY <2>1
  <2>3. Reached("kid") \in Nat
    BY <1>a, ReadNat
  <2> QED BY <2>1, <2>2, <2>3
<1>f. PICK r \in Nat : r = Reached("kid")
  BY <1>e
<1>g. Piped => Numbered(r, Len(sent["parent"]), queue, out["parent"], writing) /\ HasPipe("parent")
  BY <1>f DEF OrderInv, SentOn, Piped
<1>h. Piped' = Piped /\ r = Reached("kid")'
  BY <1>c, <1>f DEF Piped, HasPipe, Reached, HasRead, Removed, Held
\* What is left to show, of the writer's side.
<1> DEFINE Sides ==
      /\ queue' \in Seq(Nat \ {0}) /\ writing' \in BOOLEAN /\ out' \in [Ends -> Seq(Units)]
      /\ sent' \in [Ends -> Seq(BOOLEAN)] /\ sent'["kid"] = sent["kid"]
      /\ \/ sent'["parent"] = sent["parent"]
         \/ \E json \in BOOLEAN : sent'["parent"] = Append(sent["parent"], json)
      /\ stack' \in {stack, <<Frame("sent", TheFork)>> \o stack}
      /\ Piped => /\ out'["kid"] = out["kid"]
                  /\ Numbered(r, Len(sent'["parent"]), queue', out'["parent"], writing')
<1>1. ASSUME Sides PROVE OrderInv'
  <2>1. ChannelTypes' /\ KidLinked'
    BY <1>1, <1>b, <1>c DEF OrderInv, ChannelTypes, KidLinked
  <2>2. ASSUME NEW e \in Ends PROVE Received(e)'
    <3>1. e = "parent" \/ e = "kid"
      BY DEF Ends
    <3>2. sent'[Other(e)] = sent[Other(e)] \/ \E json \in BOOLEAN : sent'[Other(e)] = Append(sent[Other(e)], json)
      BY <1>1, <3>1 DEF Other
    <3> QED BY <1>c, <3>2, StillReceived
  <2>3. SentOn'
    <3>1. ASSUME Piped
          PROVE  /\ Follows(Reached("parent")', out'["kid"])
                 /\ IF os'[TheFork'] = "running"
                    THEN Reached("parent")' + Len(out'["kid"]) = 4 * Len(sent'["kid"])
                    ELSE out'["kid"] = <<>>
      BY <1>1, <1>c, <1>d, <3>1 DEF OrderInv, SentOn, Reached, HasRead, Removed, Held
    <3>2. ASSUME Piped
          PROVE  Numbered(Reached("kid")', Len(sent'["parent"]), queue', out'["parent"], writing')
      BY <1>1, <1>h, <3>2
    <3> QED BY <1>h, <3>1, <3>2 DEF SentOn
  <2>4. Serving'
    <3>1. Frame("sent", TheFork) \in Frames /\ Frame("sent", TheFork).event # "message"
      BY DEF Frame, Frames, Events
    <3>2. LoopListens' /\ Listening' = Listening
      BY <1>1, <3>1, OtherCalls DEF IInv, PartialTypes, OrderInv, Serving
    <3>3. Held("parent")' = Held("parent") /\ Held("kid")' = Held("kid")
      BY <1>c DEF Held
    <3> QED BY <1>b, <1>c, <1>d, <3>2, <3>3 DEF OrderInv, Serving
  <2>5. Unused'
    BY <1>d DEF Unused
  <2> QED BY <2>1, <2>2, <2>3, <2>4, <2>5 DEF OrderInv
<1>t. ChannelTypes
  BY DEF OrderInv
<1>2. CASE Send
  <2>0. PICK m : m = Len(sent["parent"]) + 1
    OBVIOUS
  <2>1. /\ m = Len(sent["parent"]) + 1 /\ m \in Nat \ {0} /\ Enqueue(m)
        /\ \E json \in BOOLEAN : sent' = [sent EXCEPT !["parent"] = Append(@, json)]
    <3>1. m \in Nat \ {0}
      BY <1>e, <2>0
    <3> QED BY <1>2, <2>0, <3>1 DEF Send
  <2>2. /\ sent' \in [Ends -> Seq(BOOLEAN)] /\ sent'["kid"] = sent["kid"]
        /\ \E json \in BOOLEAN : sent'["parent"] = Append(sent["parent"], json)
        /\ Len(sent'["parent"]) = m
    <3>0. PICK json \in BOOLEAN : sent' = [sent EXCEPT !["parent"] = Append(@, json)]
      BY <2>1
    <3>1. PICK p : p = Append(sent["parent"], json) /\ sent' = [sent EXCEPT !["parent"] = p]
      BY <3>0
    <3>2. p \in Seq(BOOLEAN) /\ Len(p) = m
      BY <1>e, <2>1, <3>1
    <3> QED BY <1>a, <3>1, <3>2 DEF OrderInv, ChannelTypes
  <2>3. PICK q : q = Append(queue, m)
    OBVIOUS
  <2>4. q \in Seq(Nat \ {0}) /\ Len(q) = Len(queue) + 1
    BY <1>e, <2>1, <2>3
  <2>5. ASSUME Piped
        PROVE  /\ Numbered(r, m, q, out["parent"], writing)
               /\ \A i \in DOMAIN q : q[i] = (Len(sent["parent"]) - Len(queue)) + i
    <3>1. Numbered(r, Len(sent["parent"]), queue, out["parent"], writing)
      BY <1>g, <2>5
    <3>2. q = Append(queue, Len(sent["parent"]) + 1)
      BY <2>1, <2>3
    <3> HIDE <2>0, <2>1, <2>3
    <3>3. /\ Numbered(r, Len(sent["parent"]) + 1, q, out["parent"], writing)
          /\ \A i \in DOMAIN q : q[i] = (Len(sent["parent"]) - Len(queue)) + i
      BY <1>e, <3>1, <3>2, NumberedAppend
    <3> QED BY <2>1, <3>3
  <2>6. CASE writing
    <3>1. queue' = q /\ UNCHANGED <<stack, writing, out>>
      BY <2>1, <2>3, <2>6 DEF Enqueue
    <3>2. queue' \in Seq(Nat \ {0}) /\ writing' \in BOOLEAN /\ out' \in [Ends -> Seq(Units)]
      BY <2>4, <3>1 DEF OrderInv, ChannelTypes
    <3>3. Piped => Numbered(r, Len(sent'["parent"]), queue', out'["parent"], writing')
      BY <2>2, <2>5, <3>1
    <3> QED BY <1>1, <2>2, <3>1, <3>2, <3>3
  <2>7. CASE ~writing
    <3>1. Flush(q, stack)
      BY <2>1, <2>3, <2>7 DEF Enqueue
    <3>2. CASE Piped
      <4>0. Numbered(r, Len(sent["parent"]), queue, out["parent"], writing)
        BY <1>g, <3>2
      <4>c. /\ ~writing => out["parent"] = <<>>
            /\ r + Len(out["parent"]) = 4 * (Len(sent["parent"]) - Len(queue))
        BY <4>0 DEF Numbered
      <4>e. out["parent"] = <<>> /\ Len(out["parent"]) = 0
        BY <2>7, <4>c
      <4>f. Len(sent["parent"]) - Len(queue) \in Nat
        BY <1>e, <4>0, FirstQueued, Zenon
      <4>1. PICK b \in Nat : b = Len(sent["parent"]) - Len(queue) /\ out["parent"] = <<>> /\ r = 4 * b
        <5>1. PICK b \in Nat : b = Len(sent["parent"]) - Len(queue)
          BY <4>f
        <5>2. r + 0 = 4 * b
          BY <4>c, <4>e, <5>1
        <5> QED BY <4>e, <5>1, <5>2
      <4>2. HasPipe("parent") /\ out["parent"] = <<>> /\ \A i \in DOMAIN q : q[i] = b + i
        BY <1>g, <2>5, <3>2, <4>1
      <4>3. /\ queue' \in Seq(Nat \ {0}) /\ writing' \in BOOLEAN /\ out' \in [Ends -> Seq(Units)]
            /\ out'["kid"] = out["kid"]
            /\ stack' \in {stack, <<Frame("sent", TheFork)>> \o stack}
            /\ Numbered(4 * b, b + Len(q), queue', out'["parent"], writing')
        BY <1>t, <2>4, <3>1, <4>2, Flushed
      <4>4. b + Len(q) = m
        <5>1. PICK n \in Nat, s \in Nat : n = Len(queue) /\ s = Len(sent["parent"])
          BY <1>e
        <5>2. b = s - n /\ Len(q) = n + 1 /\ m = s + 1
          BY <2>1, <2>4, <4>1, <5>1
        <5>3. b + (n + 1) = s + 1
          BY <5>2
        <5> QED BY <5>2, <5>3
      <4>5. Numbered(r, Len(sent'["parent"]), queue', out'["parent"], writing')
        BY <2>2, <4>1, <4>3, <4>4
      <4> QED BY <1>1, <2>2, <4>3, <4>5
    <3>3. CASE ~Piped
      <4>1. /\ queue' \in Seq(Nat \ {0}) /\ writing' \in BOOLEAN /\ out' \in [Ends -> Seq(Units)]
            /\ stack' \in {stack, <<Frame("sent", TheFork)>> \o stack}
        BY <1>t, <1>f, <2>4, <3>1, Flushed
      <4> QED BY <1>1, <2>2, <3>3, <4>1
    <3> QED BY <3>2, <3>3
  <2> QED BY <2>6, <2>7
<1>3. CASE OnIpcWrite
  <2>1. sent' = sent /\ sent \in [Ends -> Seq(BOOLEAN)]
    BY <1>3 DEF OnIpcWrite, OrderInv, ChannelTypes
  <2>2. CASE out["parent"] = <<>> /\ Written
    <3>1. Flush(queue, stack) /\ Len(out["parent"]) = 0
      BY <2>2 DEF Written
    <3>2. CASE Piped
      <4>0. Numbered(r, Len(sent["parent"]), queue, out["parent"], writing)
        BY <1>g, <3>2
      <4>f. Len(sent["parent"]) - Len(queue) \in Nat
        BY <1>e, <4>0, FirstQueued, Zenon
      <4>1. PICK b \in Nat : b = Len(sent["parent"]) - Len(queue)
        BY <4>f
      <4>2. r = 4 * b /\ HasPipe("parent") /\ \A i \in DOMAIN queue : queue[i] = b + i
        BY <1>f, <1>g, <3>1, <3>2, <4>1 DEF Numbered
      <4>3. /\ queue' \in Seq(Nat \ {0}) /\ writing' \in BOOLEAN /\ out' \in [Ends -> Seq(Units)]
            /\ out'["kid"] = out["kid"]
            /\ stack' \in {stack, <<Frame("sent", TheFork)>> \o stack}
            /\ Numbered(4 * b, b + Len(queue), queue', out'["parent"], writing')
        BY <1>t, <1>e, <2>2, <3>1, <4>2, Flushed
      <4>4. b + Len(queue) = Len(sent'["parent"])
        BY <1>e, <2>1, <4>1
      <4>5. Numbered(r, Len(sent'["parent"]), queue', out'["parent"], writing')
        BY <4>2, <4>3, <4>4
      <4> QED BY <1>1, <2>1, <4>3, <4>5
    <3>3. CASE ~Piped
      <4>1. /\ queue' \in Seq(Nat \ {0}) /\ writing' \in BOOLEAN /\ out' \in [Ends -> Seq(Units)]
            /\ stack' \in {stack, <<Frame("sent", TheFork)>> \o stack}
        BY <1>t, <1>e, <1>f, <3>1, Flushed
      <4> QED BY <1>1, <2>1, <3>3, <4>1
    <3> QED BY <3>2, <3>3
  <2>3. CASE ~(out["parent"] = <<>> /\ Written)
    <3>1. out' = [out EXCEPT !["parent"] = <<>>] /\ writing' = FALSE /\ UNCHANGED <<queue, stack>> /\ ~Piped
      BY <1>3, <2>3 DEF OnIpcWrite, Piped
    <3>2. out' \in [Ends -> Seq(Units)] /\ queue' \in Seq(Nat \ {0})
      BY <1>a, <3>1 DEF OrderInv, ChannelTypes
    <3> QED BY <1>1, <2>1, <3>1, <3>2
  <2> QED BY <2>2, <2>3
<1> QED BY <1>2, <1>3

LEMMA Pair == "parent" \in Ends /\ "kid" \in Ends /\ Other("parent") = "kid" /\ Other("kid") = "parent"
              /\ \A e \in Ends : e = "parent" \/ e = "kid"
BY DEF Ends, Other

\* The kernel takes a unit.
LEMMA TransmitStep ==
    ASSUME IInv, OrderInv, NEW e \in Ends, Transmit(e)
    PROVE  OrderInv'
<1>1. PICK d \in Ends : d = Other(e) /\ e = Other(d) /\ d # e
  BY DEF Ends, Other
<1>2. UNCHANGED <<mode, os, stack, link, ref, queue, writing, inbuf, body, busy, sent, tried, got>>
  BY DEF Transmit, processVars
<1>3. /\ Piped /\ out[e] # <<>> /\ HasPipe(d)
      /\ out' = [out EXCEPT ![e] = Tail(@)] /\ wire' = [wire EXCEPT ![d] = Append(@, Head(out[e]))]
  BY <1>1, Pair DEF Transmit, Piped
<1>4. Opened /\ Opened' /\ Forked' = Forked /\ TheFork' = TheFork
  BY <1>2, <1>3, SameFork DEF Opened, OrderInv, Unused
<1>5. PICK k \in Nat : k = Reached(d)
  BY ReadNat
<1>6. /\ out[e] \in Seq(Units) /\ wire[d] \in Seq(Units) /\ HasRead(d) \in Nat /\ k = HasRead(d) + Len(wire[d])
      /\ Follows(k, out[e]) /\ Follows(HasRead(d), wire[d])
  <2>1. ~Freed(d)
    BY <1>3 DEF Freed, HasPipe
  <2>2. Follows(HasRead(d), wire[d])
    BY <2>1 DEF OrderInv, Received
  <2>3. Follows(k, out[e])
    BY <1>1, <1>3, <1>5, Pair DEF OrderInv, SentOn, Numbered
  <2> QED BY <1>5, <2>2, <2>3, ReadNat DEF OrderInv, ChannelTypes, Reached
<1>7. /\ Head(out[e]) \in Units /\ Head(out[e]) = k + 1
      /\ Tail(out[e]) \in Seq(Units) /\ Len(Tail(out[e])) = Len(out[e]) - 1 /\ Follows(k + 1, Tail(out[e]))
  BY <1>3, <1>6, FollowsTail
<1>8. /\ Append(wire[d], Head(out[e])) \in Seq(Units)
      /\ Len(Append(wire[d], Head(out[e]))) = Len(wire[d]) + 1
      /\ Follows(HasRead(d), Append(wire[d], Head(out[e])))
  <2>1. Head(out[e]) = HasRead(d) + Len(wire[d]) + 1
    BY <1>6, <1>7
  <2> QED BY <1>6, <1>7, <2>1, FollowsAppend
<1>9. /\ out' \in [Ends -> Seq(Units)] /\ out'[e] = Tail(out[e]) /\ out'[d] = out[d]
      /\ wire' \in [Ends -> Seq(Units)] /\ wire'[d] = Append(wire[d], Head(out[e])) /\ wire'[e] = wire[e]
  BY <1>1, <1>3, <1>7, <1>8 DEF OrderInv, ChannelTypes
<1>10. ChannelTypes' /\ KidLinked'
  BY <1>2, <1>4, <1>9 DEF OrderInv, ChannelTypes, KidLinked
<1>11. /\ Reached(d)' = k + 1 /\ Reached(e)' = Reached(e)
       /\ (k + 1) + Len(out'[e]) = k + Len(out[e])
  <2>1. HasRead(d)' = HasRead(d) /\ HasRead(e)' = HasRead(e)
    BY <1>2 DEF HasRead, Removed, Held
  <2>l. Len(wire[d]) \in Nat /\ Len(out[e]) \in Nat
    BY <1>6, LenProperties
  <2>t. Len(out'[e]) = Len(out[e]) - 1
    <3>1. Len(out'[e]) = Len(Tail(out[e]))
      BY <1>9
    <3> QED BY <1>7, <3>1
  <2>2. Len(wire[d]) \in Nat /\ Len(out[e]) \in Nat /\ Len(out'[e]) = Len(out[e]) - 1
    BY <2>l, <2>t
  <2>3. Len(wire'[d]) = Len(wire[d]) + 1
    BY <1>8, <1>9
  <2>4. Reached(d)' = k + 1
    BY <1>6, <2>1, <2>2, <2>3 DEF Reached
  <2>5. Reached(e)' = Reached(e)
    BY <1>9, <2>1 DEF Reached
  <2>6. (k + 1) + Len(out'[e]) = k + Len(out[e])
    <3>1. PICK m \in Nat : m = Len(out[e])
      BY <2>2
    <3>2. (k + 1) + (m - 1) = k + m
      OBVIOUS
    <3> QED BY <2>2, <3>1, <3>2
  <2> QED BY <2>4, <2>5, <2>6
<1>12. k + 1 <= 4 * Len(sent[e])
  <2>1. Len(out[e]) \in Nat /\ Len(out[e]) >= 1
    BY <1>3, <1>6
  <2>2. CASE e = "parent"
    <3>1. /\ Numbered(k, Len(sent["parent"]), queue, out["parent"], writing)
          /\ Len(sent["parent"]) \in Nat /\ Len(queue) \in Nat
      <4>1. sent["parent"] \in Seq(BOOLEAN) /\ queue \in Seq(Nat \ {0})
        BY Pair DEF OrderInv, ChannelTypes
      <4>2. Len(sent["parent"]) \in Nat /\ Len(queue) \in Nat
        BY <4>1
      <4> QED BY <1>1, <1>3, <1>5, <2>2, <4>2, Pair DEF OrderInv, SentOn
    <3>2. k + Len(out["parent"]) = 4 * (Len(sent["parent"]) - Len(queue))
      BY <3>1 DEF Numbered
    <3> QED BY <2>1, <2>2, <3>1, <3>2
  <2>3. CASE e = "kid"
    <3>1. k + Len(out["kid"]) = 4 * Len(sent["kid"])
      BY <1>1, <1>3, <1>5, <2>3, Pair DEF OrderInv, SentOn
    <3>2. Len(sent["kid"]) \in Nat
      <4>1. sent["kid"] \in Seq(BOOLEAN)
        BY Pair DEF OrderInv, ChannelTypes
      <4> QED BY <4>1
    <3> QED BY <2>1, <2>3, <3>1, <3>2
  <2> QED BY <2>2, <2>3, Pair
<1>13. ASSUME NEW c \in Ends PROVE Received(c)'
  <2>1. Received(c) /\ HasRead(c)' = HasRead(c) /\ Freed(c)' = Freed(c) /\ Removed(c)' = Removed(c) /\ Held(c)' = Held(c)
    BY <1>2 DEF OrderInv, HasRead, Removed, Held, Freed
  <2>2. CASE c = e
    BY <1>2, <1>9, <1>11, <2>1, <2>2 DEF Received
  <2>3. CASE c = d
    <3>1. Follows(HasRead(c)', wire'[c])
      BY <1>8, <1>9, <2>1, <2>3
    <3>2. Reached(c)' <= 4 * Len(sent'[Other(c)])
      BY <1>1, <1>2, <1>11, <1>12, <2>3
    <3> QED BY <1>2, <2>1, <3>1, <3>2 DEF Received
  <2> QED BY <1>1, <2>2, <2>3, Pair
<1>14. SentOn'
  <2>1. CASE e = "parent"
    <3>0. d = "kid"
      BY <1>1, <2>1, Pair
    <3>1. Numbered(k, Len(sent["parent"]), queue, out["parent"], writing)
      BY <1>3, <1>5, <3>0 DEF OrderInv, SentOn
    <3>2. Numbered(k + 1, Len(sent["parent"]), queue, out'["parent"], writing)
      BY <1>3, <1>7, <1>9, <1>11, <2>1, <3>1 DEF Numbered
    <3>3. Numbered(Reached("kid"), Len(sent["parent"]), queue, out["parent"], writing)'
      BY <1>2, <1>11, <3>0, <3>2
    <3>4. /\ Follows(Reached("parent")', out'["kid"])
          /\ IF os'[TheFork'] = "running"
             THEN Reached("parent")' + Len(out'["kid"]) = 4 * Len(sent'["kid"])
             ELSE out'["kid"] = <<>>
      <4>1. Reached("parent")' = Reached("parent") /\ out'["kid"] = out["kid"]
        BY <1>9, <1>11, <2>1, <3>0
      <4> QED BY <1>2, <1>3, <1>4, <4>1 DEF OrderInv, SentOn
    <3> QED BY <3>3, <3>4 DEF SentOn
  <2>2. CASE e = "kid"
    <3>0. d = "parent"
      BY <1>1, <2>2, Pair
    <3>1. Reached("kid")' = Reached("kid") /\ out'["parent"] = out["parent"]
      BY <1>9, <1>11, <2>2, <3>0
    <3>2. Numbered(Reached("kid"), Len(sent["parent"]), queue, out["parent"], writing)'
      BY <1>2, <1>3, <3>1 DEF OrderInv, SentOn
    <3>3. Follows(Reached("parent")', out'["kid"])
      BY <1>7, <1>9, <1>11, <2>2, <3>0
    <3>4. os'[TheFork'] = "running" /\ Reached("parent")' + Len(out'["kid"]) = 4 * Len(sent'["kid"])
      <4>1. os[TheFork] = "running" /\ k + Len(out["kid"]) = 4 * Len(sent["kid"])
        BY <1>3, <1>5, <2>2, <3>0 DEF OrderInv, SentOn
      <4> QED BY <1>2, <1>4, <1>11, <2>2, <3>0, <4>1
    <3> QED BY <3>2, <3>3, <3>4 DEF SentOn
  <2> QED BY <2>1, <2>2, Pair
<1>15. Serving'
  BY <1>2, <1>4 DEF OrderInv, Serving, LoopListens, Listening, Held
<1> QED BY <1>4, <1>10, <1>13, <1>14, <1>15 DEF OrderInv, Unused

\* The loop over the buffer, wherever it is entered.
LEMMA ProcessStep ==
    ASSUME OrderInv, NEW e \in Ends, NEW buf \in Seq(Units), NEW inBody \in BOOLEAN, NEW below,
           Process(e, buf, inBody, below), Opened, ~Freed(e),
           UNCHANGED <<mode, os, link, ref, queue, writing, out, sent>>,
           NEW k \in Nat, inBody => k = 4 * tried[e] + 2, ~inBody => k = 4 * tried[e],
           Follows(k, buf),
           wire' \in [Ends -> Seq(Units)], wire'[Other(e)] = wire[Other(e)],
           Follows(k + Len(buf), wire'[e]), k + Len(buf) + Len(wire'[e]) = Reached(e),
           e = "parent" => below = <<>>,
           e = "kid" => below = stack /\ os[TheFork] = "running"
    PROVE  OrderInv'
<1>1. PICK d \in Ends : d = Other(e) /\ d # e
  BY DEF Ends, Other
<1>a. ChannelTypes /\ Received(e) /\ Received(d) /\ Reached(e) <= 4 * Len(sent[d])
  BY <1>1 DEF OrderInv, Received
<1>b. k + Len(buf) <= 4 * Len(sent[d])
  <2>1. PICK b \in Nat, w \in Nat, n \in Nat : b = Len(buf) /\ w = Len(wire'[e]) /\ n = Len(sent[d])
    <3>1. wire'[e] \in Seq(Units) /\ sent[d] \in Seq(BOOLEAN)
      BY <1>a DEF ChannelTypes
    <3> QED BY <3>1
  <2> QED BY <1>a, <2>1
<1>2. /\ inbuf' \in [Ends -> Seq(Units)] /\ got' \in [Ends -> Seq(Units \X Units)]
      /\ body' \in [Ends -> BOOLEAN] /\ tried' \in [Ends -> Nat] /\ busy' \in BOOLEAN
      /\ inbuf'[d] = inbuf[d] /\ got'[d] = got[d] /\ body'[d] = body[d] /\ tried'[d] = tried[d]
      /\ Exact(got'[e], sent[d], tried'[e])
      /\ Held(e)' => Len(inbuf'[e]) >= 2
      /\ Follows(Removed(e)', inbuf'[e])
      /\ HasRead(e)' = k + Len(buf)
      /\ IF e = "parent"
         THEN /\ busy' = busy
              /\ stack' = IF Held(e)' THEN <<Frame("message", TheFork)>> \o below ELSE below
         ELSE stack' = below /\ busy' = Held(e)'
  <2>1. /\ Exact(got[e], sent[Other(e)], tried[e])
        /\ k + Len(buf) <= 4 * Len(sent[Other(e)])
    BY <1>1, <1>a, <1>b DEF Received
  <2>2. /\ inbuf' \in [Ends -> Seq(Units)] /\ got' \in [Ends -> Seq(Units \X Units)]
        /\ body' \in [Ends -> BOOLEAN] /\ tried' \in [Ends -> Nat] /\ busy' \in BOOLEAN
        /\ inbuf'[Other(e)] = inbuf[Other(e)] /\ got'[Other(e)] = got[Other(e)]
        /\ body'[Other(e)] = body[Other(e)] /\ tried'[Other(e)] = tried[Other(e)]
        /\ Exact(got'[e], sent[Other(e)], tried'[e])
        /\ Held(e)' => Len(inbuf'[e]) >= 2
        /\ Follows(Removed(e)', inbuf'[e])
        /\ HasRead(e)' = k + Len(buf)
        /\ IF e = "parent"
           THEN /\ busy' = busy
                /\ stack' = IF Held(e)' THEN <<Frame("message", TheFork)>> \o below ELSE below
           ELSE stack' = below /\ busy' = Held(e)'
    BY <1>a, <2>1, Processed
  <2> QED BY <1>1, <2>2
<1>3. Opened' /\ Forked' = Forked /\ TheFork' = TheFork
  BY SameFork DEF Opened
<1>4. ChannelTypes' /\ KidLinked'
  BY <1>2, <1>3 DEF OrderInv, ChannelTypes, KidLinked
<1>5. Held(d)' = Held(d) /\ Removed(d)' = Removed(d) /\ HasRead(d)' = HasRead(d) /\ Freed(d)' = Freed(d)
  BY <1>2 DEF Held, Removed, HasRead, Freed
<1>6. Reached(e)' = Reached(e) /\ Reached(d)' = Reached(d)
  <2>1. wire'[d] = wire[d]
    BY <1>1
  <2> QED BY <1>2, <1>5, <2>1 DEF Reached
<1>7. Received(e)'
  <2>1. ~Freed(e)'
    BY DEF Freed
  <2>2. Follows(HasRead(e)', wire'[e])
    BY <1>2
  <2>3. Reached(e)' <= 4 * Len(sent'[Other(e)])
    BY <1>1, <1>6, <1>a
  <2> QED BY <1>1, <1>2, <2>1, <2>2, <2>3 DEF Received
<1>8. Received(d)'
  <2>1. Received(d) /\ wire'[d] = wire[d]
    BY <1>1, <1>a
  <2> QED BY <1>2, <1>5, <1>6, <2>1 DEF Received
<1>9. SentOn'
  <2>1. Reached("parent")' = Reached("parent") /\ Reached("kid")' = Reached("kid") /\ Piped' = Piped
    BY <1>1, <1>6, Pair DEF Piped, HasPipe
  <2>2. /\ Piped => Numbered(Reached("kid"), Len(sent["parent"]), queue, out["parent"], writing)'
        /\ Piped => /\ Follows(Reached("parent")', out'["kid"])
                    /\ IF os'[TheFork'] = "running"
                       THEN Reached("parent")' + Len(out'["kid"]) = 4 * Len(sent'["kid"])
                       ELSE out'["kid"] = <<>>
    BY <1>3, <2>1 DEF OrderInv, SentOn
  <2> QED BY <2>1, <2>2 DEF SentOn
<1>10. Serving'
  <2>1. CASE e = "parent"
    <3>1. /\ busy' = busy /\ d = "kid" /\ Held("kid")' = Held("kid")
          /\ stack' = IF Held("parent")' THEN <<Frame("message", TheFork)>> ELSE <<>>
      BY <1>1, <1>2, <1>5, <2>1, Pair
    <3>2. LoopListens' /\ (Held("parent")' <=> Listening')
      BY <3>1 DEF LoopListens, Listening, Frame
    <3> QED BY <1>3, <3>1, <3>2 DEF OrderInv, Serving
  <2>2. CASE e = "kid"
    <3>1. stack' = stack /\ busy' = Held("kid")' /\ d = "parent" /\ Held("parent")' = Held("parent")
      BY <1>1, <1>2, <1>5, <2>2, Pair
    <3>2. LoopListens' = LoopListens /\ Listening' = Listening
      BY <3>1 DEF LoopListens, Listening
    <3> QED BY <1>3, <2>2, <3>1, <3>2 DEF OrderInv, Serving
  <2> QED BY <2>1, <2>2, Pair
<1>11. \A c \in Ends : Received(c)'
  BY <1>1, <1>7, <1>8, Pair
<1> QED BY <1>3, <1>4, <1>9, <1>10, <1>11 DEF OrderInv, Unused

\* Bytes are read, at either end, while no listener has what is in the buffer.
LEMMA ReadStep ==
    ASSUME IInv, OrderInv, NEW e \in Ends, NEW n \in Nat, OnIpcRead(e, n)
    PROVE  OrderInv'
<1>1. /\ link[e] = "open" /\ n \in 1 .. Len(wire[e])
      /\ wire' = [wire EXCEPT ![e] = SubSeq(@, n + 1, Len(@))]
      /\ UNCHANGED <<mode, os, link, ref, queue, writing, out, sent>>
  BY DEF OnIpcRead, Reads, processVars
<1>2. Opened /\ ~Freed(e)
  BY <1>1 DEF OrderInv, Unused, Freed
<1>3. ~Held(e) /\ (e = "parent" => stack = <<>>) /\ (e = "kid" => os[TheFork] = "running")
  <2>1. CASE e = "parent"
    BY <2>1 DEF OnIpcRead, Reads, LoopRuns, OrderInv, Serving, Listening
  <2>2. CASE e = "kid"
    BY <1>2, <2>2 DEF OnIpcRead, Reads, OrderInv, Serving
  <2> QED BY <2>1, <2>2, Pair
<1>4. /\ wire[e] \in Seq(Units) /\ wire \in [Ends -> Seq(Units)] /\ inbuf[e] \in Seq(Units)
      /\ body[e] \in BOOLEAN /\ tried[e] \in Nat
  BY DEF OrderInv, ChannelTypes
<1>5. PICK k \in Nat : k = Removed(e)
  BY ReadNat
<1>6. /\ body[e] => k = 4 * tried[e] + 2
      /\ ~body[e] => k = 4 * tried[e]
      /\ HasRead(e) = k + Len(inbuf[e])
  BY <1>3, <1>5 DEF Removed, HasRead
<1>7. /\ Follows(k, inbuf[e]) /\ Follows(k + Len(inbuf[e]), wire[e])
      /\ k + Len(inbuf[e]) + Len(wire[e]) = Reached(e)
  BY <1>2, <1>5, <1>6 DEF OrderInv, Received, Reached
<1>8. PICK read, left : read = SubSeq(wire[e], 1, n) /\ left = SubSeq(wire[e], n + 1, Len(wire[e]))
  OBVIOUS
<1>9. /\ Len(inbuf[e]) \in Nat /\ Len(wire[e]) \in Nat /\ k + Len(inbuf[e]) \in Nat
      /\ n \in 0 .. Len(wire[e])
  BY <1>1, <1>4
<1>10. /\ read \in Seq(Units) /\ Len(read) = n /\ left \in Seq(Units) /\ Len(left) = Len(wire[e]) - n
       /\ Follows(k + Len(inbuf[e]), read) /\ Follows(k + Len(inbuf[e]) + n, left)
  BY <1>4, <1>7, <1>8, <1>9, FollowsCut
<1>11. PICK buf : buf = inbuf[e] \o read
  OBVIOUS
<1>12. buf \in Seq(Units) /\ Len(buf) = Len(inbuf[e]) + n /\ Follows(k, buf)
  BY <1>4, <1>7, <1>10, <1>11, FollowsConcat
<1>13. Process(e, buf, body[e], stack)
  BY <1>8, <1>11 DEF OnIpcRead
<1>14. wire' \in [Ends -> Seq(Units)] /\ wire'[e] = left /\ wire'[Other(e)] = wire[Other(e)]
  <2>1. wire' = [wire EXCEPT ![e] = left] /\ Other(e) # e /\ Other(e) \in Ends
    BY <1>1, <1>8 DEF Ends, Other
  <2> QED BY <1>4, <1>10, <2>1
<1>15. Follows(k + Len(buf), wire'[e]) /\ k + Len(buf) + Len(wire'[e]) = Reached(e)
  <2>1. PICK i \in Nat, w \in Nat : i = Len(inbuf[e]) /\ w = Len(wire[e])
    BY <1>9
  <2>2. Len(buf) = i + n /\ Len(wire'[e]) = w - n /\ k + i + w = Reached(e)
    BY <1>7, <1>10, <1>12, <1>14, <2>1
  <2>3. k + Len(buf) = k + Len(inbuf[e]) + n
    BY <2>1, <2>2
  <2>4. k + Len(buf) + Len(wire'[e]) = Reached(e)
    <3>1. k + (i + n) + (w - n) = k + i + w
      OBVIOUS
    <3> QED BY <2>2, <3>1
  <2> QED BY <1>10, <1>14, <2>3, <2>4
<1> QED BY <1>1, <1>2, <1>3, <1>4, <1>6, <1>12, <1>13, <1>14, <1>15, ProcessStep

\* Listeners of 'message' return, at either end.
LEMMA ContinueStep ==
    ASSUME IInv, OrderInv, KidReturns \/ MessageReturns
    PROVE  OrderInv'
<1>1. PICK e \in Ends : /\ Continue(e)
                        /\ e = "parent" => MessageReturns
                        /\ e = "kid" => KidReturns
  BY Pair DEF KidReturns, MessageReturns
<1>2. UNCHANGED <<mode, os, link, ref, queue, writing, out, wire, sent>>
  BY DEF KidReturns, MessageReturns, processVars
<1>3. /\ Held(e)
      /\ e = "parent" => Rest = <<>>
      /\ e = "kid" => os[TheFork] = "running"
  <2>1. CASE e = "parent"
    <3>1. stack # <<>> /\ stack \in Seq(Frames) /\ stack[1].event = "message"
      BY <1>1, <2>1 DEF MessageReturns, Top, IInv, PartialTypes
    <3>2. 1 \in DOMAIN stack
      BY <3>1
    <3>3. Len(stack) = 1
      BY <3>1, <3>2 DEF OrderInv, Serving, LoopListens
    <3>4. Listening
      BY <3>1, <3>3 DEF Listening
    <3>5. Rest = <<>>
      <4>1. Rest \in Seq(Frames) /\ Len(Rest) = 0
        BY <3>1, <3>3 DEF Rest
      <4> QED BY <4>1
    <3> QED BY <2>1, <3>4, <3>5 DEF OrderInv, Serving
  <2>2. CASE e = "kid"
    BY <1>1, <2>2 DEF KidReturns, OrderInv, Serving
  <2> QED BY <2>1, <2>2, Pair
<1>4. inbuf[e] # <<>> /\ Opened /\ ~Freed(e)
  BY <1>3 DEF Held, OrderInv, Unused, Received
<1>5. /\ inbuf[e] \in Seq(Units) /\ wire \in [Ends -> Seq(Units)] /\ tried[e] \in Nat
      /\ Len(inbuf[e]) \in Nat /\ Len(inbuf[e]) >= 2
      /\ Follows(Removed(e), inbuf[e]) /\ Follows(HasRead(e), wire[e]) /\ Removed(e) \in Nat
  <2>1. inbuf[e] \in Seq(Units) /\ wire \in [Ends -> Seq(Units)] /\ tried[e] \in Nat
    BY DEF OrderInv, ChannelTypes
  <2>2. Len(inbuf[e]) \in Nat
    BY <2>1
  <2> QED BY <1>3, <1>4, <2>1, <2>2, ReadNat DEF OrderInv, Received
<1>6. PICK k \in Nat : k = 4 * tried[e]
  BY <1>5
<1>7. Removed(e) = k - 2 /\ Removed(e) + 2 = k /\ HasRead(e) = (k - 2) + Len(inbuf[e])
  <2>1. Removed(e) = k - 2
    BY <1>3, <1>6 DEF Removed
  <2> QED BY <1>5, <1>6, <2>1 DEF HasRead
<1>8. PICK buf : buf = Behind(e)
  OBVIOUS
<1>9. buf \in Seq(Units) /\ Len(buf) = Len(inbuf[e]) - 2 /\ Follows(k, buf)
  <2>1. 2 \in 0 .. Len(inbuf[e]) /\ 2 + 1 = 3
    BY <1>5
  <2>2. /\ SubSeq(inbuf[e], 2 + 1, Len(inbuf[e])) \in Seq(Units)
        /\ Len(SubSeq(inbuf[e], 2 + 1, Len(inbuf[e]))) = Len(inbuf[e]) - 2
        /\ Follows(Removed(e) + 2, SubSeq(inbuf[e], 2 + 1, Len(inbuf[e])))
    BY <1>5, <2>1, FollowsCut
  <2>3. buf = SubSeq(inbuf[e], 2 + 1, Len(inbuf[e]))
    BY <1>8, <2>1 DEF Behind
  <2> QED BY <1>7, <2>2, <2>3
<1>10. k + Len(buf) = HasRead(e)
  BY <1>5, <1>7, <1>9
<1>11. Follows(k + Len(buf), wire'[e]) /\ k + Len(buf) + Len(wire'[e]) = Reached(e)
  BY <1>2, <1>5, <1>10 DEF Reached
<1>12. PICK below : below = IF e = "parent" THEN Rest ELSE stack
  OBVIOUS
<1>13. Process(e, buf, FALSE, below)
  BY <1>1, <1>8, <1>12 DEF Continue
<1>14. wire' \in [Ends -> Seq(Units)] /\ wire'[Other(e)] = wire[Other(e)]
  BY <1>2, <1>5
<1> QED BY <1>2, <1>3, <1>4, <1>6, <1>9, <1>11, <1>12, <1>13, <1>14, ProcessStep

\* on_ipc_close.
LEMMA CloseStep ==
    ASSUME IInv, OrderInv, OnIpcClose
    PROVE  OrderInv'
<1>1. /\ stack = <<>> /\ link["parent"] = "closing"
      /\ link' = [link EXCEPT !["parent"] = "freed"]
      /\ queue' = <<>> /\ inbuf' = [inbuf EXCEPT !["parent"] = <<>>] /\ ref' = FALSE
      /\ UNCHANGED <<mode, os, stack, writing, out, wire, body, busy, sent, tried, got>>
  BY DEF OnIpcClose, LoopRuns, processVars
<1>2. Opened /\ Opened' /\ Forked' = Forked /\ TheFork' = TheFork
  BY <1>1, Pair, SameFork DEF Opened, OrderInv, Unused
<1>3. /\ link' \in [Ends -> Links] /\ link'["parent"] = "freed" /\ link'["kid"] = link["kid"]
      /\ inbuf' \in [Ends -> Seq(Units)] /\ inbuf'["parent"] = <<>> /\ inbuf'["kid"] = inbuf["kid"]
  BY <1>1, Pair DEF IInv, PartialTypes, OrderInv, ChannelTypes, Links
<1>4. ChannelTypes' /\ KidLinked'
  <2>1. queue' \in Seq(Nat \ {0})
    <3>1. <<>> \in Seq(Nat \ {0})
      OBVIOUS
    <3> QED BY <1>1, <3>1
  <2>2. ref' \in BOOLEAN
    BY <1>1
  <2> QED BY <1>1, <1>2, <1>3, <2>1, <2>2 DEF OrderInv, ChannelTypes, KidLinked
<1>5. Received("parent")'
  BY <1>1, <1>3, Pair DEF OrderInv, Received, Freed, Held
<1>6. Received("kid")'
  <2>1. /\ Received("kid") /\ Freed("kid")' = Freed("kid") /\ Held("kid")' = Held("kid")
        /\ Removed("kid")' = Removed("kid") /\ HasRead("kid")' = HasRead("kid") /\ Reached("kid")' = Reached("kid")
    BY <1>1, <1>3, Pair DEF OrderInv, Freed, Reached, HasRead, Removed, Held
  <2> QED BY <1>1, <1>3, <2>1 DEF Received
<1>7. ~Piped'
  BY <1>3 DEF Piped, HasPipe
<1>8. Serving'
  <2>1. ~Held("parent")' /\ Held("kid")' = Held("kid") /\ ~Listening' /\ LoopListens'
    BY <1>1, <1>3 DEF Held, Listening, LoopListens
  <2> QED BY <1>1, <1>2, <2>1 DEF OrderInv, Serving
<1>9. \A e \in Ends : Received(e)'
  BY <1>5, <1>6, Pair
<1> QED BY <1>2, <1>4, <1>7, <1>8, <1>9 DEF OrderInv, SentOn, Unused

\* process.send() in the child.
LEMMA KidSendStep ==
    ASSUME IInv, OrderInv, KidSend
    PROVE  OrderInv'
<1>1. /\ Forked # {} /\ os[TheFork] = "running"
      /\ \E json \in BOOLEAN : sent' = [sent EXCEPT !["kid"] = Append(@, json)]
      /\ out' = [out EXCEPT !["kid"] = @ \o Message(Len(sent["kid"]) + 1)]
      /\ UNCHANGED <<mode, os, stack, link, ref, queue, writing, wire, inbuf, body, busy, tried, got>>
  BY DEF KidSend, processVars
<1>2. Opened /\ Opened' /\ Forked' = Forked /\ TheFork' = TheFork
  BY <1>1, SameFork DEF Opened, TheFork
<1>3. /\ out["kid"] \in Seq(Units) /\ sent["kid"] \in Seq(BOOLEAN) /\ Len(sent["kid"]) \in Nat
      /\ sent \in [Ends -> Seq(BOOLEAN)]
  <2>1. out["kid"] \in Seq(Units) /\ sent["kid"] \in Seq(BOOLEAN) /\ sent \in [Ends -> Seq(BOOLEAN)]
    BY Pair DEF OrderInv, ChannelTypes
  <2>2. Len(sent["kid"]) \in Nat
    BY <2>1
  <2> QED BY <2>1, <2>2
<1>4. PICK m \in Nat \ {0} : m = Len(sent["kid"]) + 1 /\ 4 * m - 4 = 4 * Len(sent["kid"])
  BY <1>3
<1>5. PICK q : q = out["kid"] \o Message(m)
  OBVIOUS
<1>6. Message(m) \in Seq(Units) /\ Len(Message(m)) = 4 /\ Follows(4 * m - 4, Message(m))
  BY MessageFollows
<1>7. q \in Seq(Units) /\ Len(q) = Len(out["kid"]) + 4 /\ Len(out["kid"]) \in Nat
  <2>1. PICK a, b : a = out["kid"] /\ b = Message(m)
    OBVIOUS
  <2>2. a \in Seq(Units) /\ b \in Seq(Units) /\ q = a \o b
    BY <1>3, <1>5, <1>6, <2>1
  <2>3. q \in Seq(Units) /\ Len(q) = Len(a) + Len(b) /\ Len(a) \in Nat
    BY <2>2
  <2> QED BY <1>6, <2>1, <2>3
<1>8. /\ out' \in [Ends -> Seq(Units)] /\ out'["kid"] = q /\ out'["parent"] = out["parent"]
      /\ sent' \in [Ends -> Seq(BOOLEAN)] /\ Len(sent'["kid"]) = m /\ sent'["parent"] = sent["parent"]
      /\ \E json \in BOOLEAN : sent'["kid"] = Append(sent["kid"], json)
  <2>1. out' = [out EXCEPT !["kid"] = q]
    BY <1>1, <1>4, <1>5
  <2>a. PICK json \in BOOLEAN : sent' = [sent EXCEPT !["kid"] = Append(@, json)]
    BY <1>1
  <2>2. PICK p : p = Append(sent["kid"], json) /\ sent' = [sent EXCEPT !["kid"] = p]
    BY <2>a
  <2>3. p \in Seq(BOOLEAN) /\ Len(p) = m
    BY <1>3, <1>4, <2>2
  <2> QED BY <1>3, <1>7, <2>1, <2>2, <2>3, Pair DEF OrderInv, ChannelTypes
<1>9. ChannelTypes' /\ KidLinked'
  BY <1>1, <1>2, <1>8 DEF OrderInv, ChannelTypes, KidLinked
<1>10. ASSUME NEW e \in Ends PROVE Received(e)'
  <2>1. sent'[Other(e)] = sent[Other(e)] \/ \E json \in BOOLEAN : sent'[Other(e)] = Append(sent[Other(e)], json)
    BY <1>8, Pair
  <2> QED BY <1>1, <2>1, StillReceived
<1>11. SentOn'
  <2>1. ASSUME Piped
        PROVE  /\ Numbered(Reached("kid"), Len(sent["parent"]), queue, out["parent"], writing)'
               /\ Follows(Reached("parent")', out'["kid"])
               /\ Reached("parent")' + Len(out'["kid"]) = 4 * Len(sent'["kid"])
    <3>1. Reached("kid")' = Reached("kid") /\ Reached("parent")' = Reached("parent")
      BY <1>1 DEF Reached, HasRead, Removed, Held
    <3>2. Numbered(Reached("kid"), Len(sent["parent"]), queue, out["parent"], writing)'
      BY <1>1, <1>8, <2>1, <3>1 DEF OrderInv, SentOn
    <3>3. PICK k \in Nat : k = Reached("parent")
      BY ReadNat, Pair
    <3>4. Follows(k, out["kid"]) /\ k + Len(out["kid"]) = 4 * Len(sent["kid"])
      BY <1>1, <2>1, <3>3 DEF OrderInv, SentOn
    <3>5. Follows(k + Len(out["kid"]), Message(m))
      BY <1>4, <1>6, <3>4
    <3>6. Follows(k, q)
      BY <1>3, <1>5, <1>6, <3>4, <3>5, FollowsConcat
    <3>7. k + Len(q) = 4 * m
      <4>1. PICK n \in Nat : n = Len(out["kid"])
        BY <1>7
      <4>2. Len(q) = n + 4 /\ k + n = 4 * Len(sent["kid"])
        BY <1>7, <3>4, <4>1
      <4>3. 4 * m - 4 = 4 * Len(sent["kid"])
        BY <1>4
      <4> HIDE <1>4
      <4> QED BY <1>3, <4>2, <4>3
    <3> QED BY <1>8, <3>1, <3>2, <3>3, <3>6, <3>7
  <2>2. Piped' = Piped
    BY <1>1 DEF Piped, HasPipe
  <2> QED BY <1>1, <1>2, <2>1, <2>2 DEF SentOn
<1>12. Serving'
  BY <1>1, <1>2 DEF OrderInv, Serving, LoopListens, Listening, Held
<1> QED BY <1>2, <1>9, <1>10, <1>11, <1>12 DEF OrderInv, Unused

\* The child's end is closed, by the child or because it has ended.
LEMMA KidCloses ==
    ASSUME IInv, OrderInv, KidDisconnect \/ \E c \in Forked : Dies(c)
    PROVE  OrderInv'
<1>1. /\ Forked # {} /\ os[TheFork] = "running"
      /\ out' = [out EXCEPT !["kid"] = <<>>]
      /\ UNCHANGED <<mode, stack, ref, queue, writing, wire, inbuf, body, sent, tried, got>>
  <2>1. CASE KidDisconnect
    BY <2>1 DEF KidDisconnect, Part, processVars
  <2>2. CASE \E c \in Forked : Dies(c)
    <3>1. PICK c \in Forked : Dies(c)
      BY <2>2
    <3>2. c = TheFork
      <4>1. Opened
        BY <3>1 DEF Opened, Dies
      <4> QED BY <3>1, <4>1, OpenedFork DEF IInv, PartialTypes
    <3> QED BY <3>1, <3>2 DEF Dies
  <2> QED BY <2>1, <2>2
<1>2. Opened /\ TheFork \in Forked /\ Forked' = Forked /\ TheFork' = TheFork
  BY <1>1, SameFork DEF Opened, TheFork
<1>3. \/ link' = [link EXCEPT !["kid"] = "closed"] /\ UNCHANGED <<os, busy>>
      \/ /\ os' = [os EXCEPT ![TheFork] = "zombie"] /\ busy' = FALSE
         /\ \/ link' = [link EXCEPT !["kid"] = "closed"]
            \/ link' = [link EXCEPT !["kid"] = "held"] /\ link["kid"] # "closed"
  <2>1. CASE KidDisconnect
    BY <2>1 DEF KidDisconnect, Part, processVars
  <2>2. CASE \E c \in Forked : Dies(c)
    <3>1. PICK c \in Forked : Dies(c)
      BY <2>2
    <3>2. c = TheFork
      BY <1>2, <3>1, OpenedFork DEF IInv, PartialTypes
    <3>3. os' = [os EXCEPT ![TheFork] = "zombie"] /\ busy' = FALSE
      BY <3>1, <3>2 DEF Dies
    <3>4. link' = [link EXCEPT !["kid"] = IF heir[c] /\ @ # "closed" THEN "held" ELSE "closed"]
      BY <3>1 DEF Dies
    <3>5. CASE heir[c] /\ link["kid"] # "closed"
      BY <3>3, <3>4, <3>5
    <3>6. CASE ~(heir[c] /\ link["kid"] # "closed")
      BY <3>3, <3>4, <3>6
    <3> QED BY <3>5, <3>6
  <2> QED BY <2>1, <2>2
<1>4. /\ link'["parent"] = link["parent"] /\ link'["kid"] \in {"held", "closed"}
      /\ link'["kid"] = "held" => link["kid"] # "closed"
      /\ busy' \in BOOLEAN
      /\ os'[TheFork] # "none"
      /\ os'[TheFork] = "running" => busy' = busy /\ link'["kid"] = "closed"
      /\ busy' => os'[TheFork] = "running" /\ busy
  <2>1. link \in [Ends -> Links] /\ os \in [Children -> Processes] /\ TheFork \in Children /\ busy \in BOOLEAN
    BY <1>2 DEF IInv, PartialTypes, OrderInv, ChannelTypes, Forked
  <2>2. CASE link' = [link EXCEPT !["kid"] = "closed"] /\ UNCHANGED <<os, busy>>
    <3>1. busy => os[TheFork] = "running"
      BY DEF OrderInv, Serving
    <3> QED BY <1>1, <2>1, <2>2, <3>1, Pair
  <2>3. CASE os' = [os EXCEPT ![TheFork] = "zombie"] /\ busy' = FALSE /\ link' = [link EXCEPT !["kid"] = "closed"]
    BY <2>1, <2>3, Pair
  <2>4. CASE os' = [os EXCEPT ![TheFork] = "zombie"] /\ busy' = FALSE
             /\ link' = [link EXCEPT !["kid"] = "held"] /\ link["kid"] # "closed"
    BY <2>1, <2>4, Pair
  <2> QED BY <1>3, <2>2, <2>3, <2>4
<1>5. Opened' /\ KidLinked'
  BY <1>2, <1>4 DEF Opened, KidLinked
<1>6. out' \in [Ends -> Seq(Units)] /\ out'["kid"] = <<>> /\ out'["parent"] = out["parent"]
  BY <1>1, Pair DEF OrderInv, ChannelTypes
<1>7. ChannelTypes'
  BY <1>1, <1>4, <1>6 DEF OrderInv, ChannelTypes
<1>8. ASSUME NEW e \in Ends PROVE Received(e)'
  <2>1. /\ Received(e) /\ Freed(e)' = Freed(e) /\ Held(e)' = Held(e) /\ Removed(e)' = Removed(e)
        /\ HasRead(e)' = HasRead(e) /\ Reached(e)' = Reached(e)
    BY <1>1, <1>4 DEF OrderInv, Freed, Reached, HasRead, Removed, Held
  <2> QED BY <1>1, <2>1 DEF Received
<1>9. SentOn'
  <2>1. Piped' => Piped /\ os'[TheFork] # "running"
    <3>1. link["kid"] \in {"open", "eof", "held", "closed"}
      BY <1>2 DEF OrderInv, KidLinked
    <3> QED BY <1>4, <3>1 DEF Piped, HasPipe
  <2>2. Reached("kid")' = Reached("kid")
    BY <1>1 DEF Reached, HasRead, Removed, Held
  <2>3. Piped => Numbered(Reached("kid"), Len(sent["parent"]), queue, out["parent"], writing)'
    BY <1>1, <1>6, <2>2 DEF OrderInv, SentOn
  <2>4. Follows(Reached("parent")', out'["kid"])
    BY <1>6, NothingFollows
  <2> QED BY <1>2, <1>6, <2>1, <2>3, <2>4 DEF SentOn
<1>10. Serving'
  <2>1. LoopListens' = LoopListens /\ Listening' = Listening /\ \A e \in Ends : Held(e)' = Held(e)
    BY <1>1 DEF LoopListens, Listening, Held
  <2> QED BY <1>1, <1>2, <1>4, <1>5, <2>1, Pair DEF OrderInv, Serving
<1> QED BY <1>5, <1>7, <1>8, <1>9, <1>10 DEF OrderInv, Unused

\* fork().
LEMMA ForkStep ==
    ASSUME IInv, OrderInv, NEW c \in Forked, NEW ok \in BOOLEAN, Start(c, ok)
    PROVE  OrderInv'
<1>1. c \in Children /\ os[c] = "none"
  BY DEF Forked, Start
<1>2. ~Opened /\ c = TheFork
  <2>1. \A d \in Forked : d = c
    BY ChildrenAssumption DEF Forked, IInv, PartialTypes
  <2> QED BY <1>1, <2>1 DEF Opened, TheFork
<1>3. /\ queue = <<>> /\ ~writing
      /\ \A e \in Ends : /\ sent[e] = <<>> /\ ~body[e] /\ tried[e] = 0
                         /\ out[e] = <<>> /\ wire[e] = <<>> /\ inbuf[e] = <<>> /\ got[e] = <<>>
  BY <1>2 DEF OrderInv, Unused
<1>4. /\ UNCHANGED <<mode, stack, queue, writing, out, wire, inbuf, body, busy, sent, tried, got>>
      /\ os' = [os EXCEPT ![c] = IF ok THEN "running" ELSE "failed"]
      /\ ref' = TRUE
      /\ link' = [parent |-> IF ok THEN "open" ELSE "unopened", kid |-> IF ok THEN "open" ELSE "closed"]
  BY DEF Start, Fork
<1>5. Forked' = Forked /\ TheFork' = TheFork
  BY <1>4, SameFork
<1>6. os'[TheFork] # "none"
  BY <1>1, <1>2, <1>4 DEF IInv, PartialTypes
<1>7. Opened'
  BY <1>2, <1>5, <1>6 DEF Opened
<1>8. ChannelTypes' /\ KidLinked'
  BY <1>4 DEF OrderInv, ChannelTypes, KidLinked
<1>9. ASSUME NEW e \in Ends PROVE Received(e)' /\ Reached(e)' = 0
  <2>1. /\ wire'[e] = <<>> /\ inbuf'[e] = <<>> /\ got'[e] = <<>> /\ ~body'[e] /\ tried'[e] = 0
        /\ sent'[Other(e)] = <<>> /\ Len(<<>>) = 0
    BY <1>3, <1>4, Pair
  <2>2. Reached(e)' = 0 /\ ~Held(e)'
    BY <2>1 DEF Reached, HasRead, Removed, Held
  <2> QED BY <2>1, <2>2, NothingFollows, NothingHeard DEF Received
<1>10. SentOn'
  <2>1. queue' = <<>> /\ out'["parent"] = <<>> /\ out'["kid"] = <<>> /\ Len(sent'["parent"]) = 0 /\ Len(sent'["kid"]) = 0
        /\ Len(<<>>) = 0 /\ DOMAIN (<<>>) = {} /\ ~writing'
    BY <1>3, <1>4, Pair
  <2>2. Numbered(0, 0, <<>>, <<>>, writing')
    BY <2>1, NothingFollows DEF Numbered
  <2>3. Reached("kid")' = 0 /\ Reached("parent")' = 0
    BY <1>9, Pair
  <2>4. Numbered(Reached("kid"), Len(sent["parent"]), queue, out["parent"], writing)'
    BY <2>1, <2>2, <2>3
  <2>5. Follows(Reached("parent")', out'["kid"]) /\ Reached("parent")' + Len(out'["kid"]) = 4 * Len(sent'["kid"])
    BY <2>1, <2>3, NothingFollows
  <2> QED BY <2>1, <2>4, <2>5 DEF SentOn
<1>11. Serving'
  <2>1. ~busy
    BY <1>2 DEF OrderInv, Serving
  <2>2. LoopListens' = LoopListens /\ Listening' = Listening /\ Held("parent")' = Held("parent") /\ ~Held("kid")'
    BY <1>3, <1>4, Pair DEF LoopListens, Listening, Held
  <2> QED BY <1>4, <2>1, <2>2 DEF OrderInv, Serving
<1> QED BY <1>7, <1>8, <1>9, <1>10, <1>11 DEF OrderInv, Unused

-----------------------------------------------------------------------------
LEMMA InitOrder == Init => OrderInv
<1> SUFFICES ASSUME Init PROVE OrderInv
  OBVIOUS
<1>1. ~Opened
  BY DEF Init, Opened, Forked
<1>2. /\ stack = <<>> /\ queue = <<>> /\ ~writing /\ ~ref /\ ~busy
      /\ \A e \in Ends : /\ link[e] = "none" /\ sent[e] = <<>> /\ ~body[e] /\ tried[e] = 0
                         /\ out[e] = <<>> /\ wire[e] = <<>> /\ inbuf[e] = <<>> /\ got[e] = <<>>
  BY DEF Init, Empty
<1>3. ChannelTypes
  <2>1. /\ <<>> \in Seq(Units) /\ <<>> \in Seq(Nat \ {0}) /\ <<>> \in Seq(Units \X Units)
        /\ <<>> \in Seq(BOOLEAN)
    OBVIOUS
  <2>2. Empty \in [Ends -> Seq(Units)] /\ Empty \in [Ends -> Seq(Units \X Units)] /\ Empty \in [Ends -> Seq(BOOLEAN)]
    BY <2>1 DEF Empty
  <2>3. out = Empty /\ wire = Empty /\ inbuf = Empty /\ got = Empty /\ sent = Empty
    BY DEF Init
  <2>4. body \in [Ends -> BOOLEAN] /\ tried \in [Ends -> Nat] /\ ref = FALSE /\ writing = FALSE /\ busy = FALSE
    BY DEF Init
  <2> QED BY <1>2, <2>1, <2>2, <2>3, <2>4 DEF ChannelTypes
<1>4. ASSUME NEW e \in Ends PROVE Received(e)
  <2>1. /\ wire[e] = <<>> /\ inbuf[e] = <<>> /\ got[e] = <<>> /\ ~body[e] /\ tried[e] = 0
        /\ sent[Other(e)] = <<>> /\ Len(<<>>) = 0
    BY <1>2, Pair
  <2>2. Reached(e) = 0 /\ ~Held(e)
    BY <2>1 DEF Reached, HasRead, Removed, Held
  <2> QED BY <2>1, <2>2, NothingFollows, NothingHeard DEF Received
<1>5. ~Piped
  BY <1>2, Pair DEF Piped, HasPipe
<1>6. Serving
  BY <1>1, <1>2, Pair DEF Serving, LoopListens, Listening, Held
<1> QED BY <1>1, <1>2, <1>3, <1>4, <1>5, <1>6 DEF OrderInv, KidLinked, SentOn, Unused

LEMMA NextOrder == IInv /\ OrderInv /\ [Next]_vars => OrderInv'
<1> SUFFICES ASSUME IInv, OrderInv, [Next]_vars PROVE OrderInv'
  OBVIOUS
<1>1. CASE UNCHANGED vars
  BY <1>1, ContentSteps
<1>2. CASE ScriptStep
  <2>1. ASSUME NEW c \in Children, NEW ok \in BOOLEAN, Start(c, ok) PROVE OrderInv'
    BY <2>1, ForkStep, ContentSteps
  <2>2. ASSUME NEW c \in Children, NEW sig \in {"SIGTERM", "SIGKILL"}, Kill(c, sig) PROVE OrderInv'
    BY <2>2, ContentSteps
  <2>3. CASE Send
    BY <2>3, WriteSteps
  <2>4. CASE Disconnect
    BY <2>4, ContentSteps
  <2> QED BY <1>2, <2>1, <2>2, <2>3, <2>4 DEF ScriptStep
<1>3. CASE LoopStep
  <2>1. ASSUME NEW c \in Children, ErrorEvent(c) \/ OnTimeout(c) \/ OnProcessExit(c) PROVE OrderInv'
    BY <2>1, ContentSteps
  <2>2. ASSUME NEW c \in Children, NEW s \in Streams, NEW n \in 1 .. MaxBytes, OnRead(c, s, n) PROVE OrderInv'
    BY <2>2, ContentSteps
  <2>3. ASSUME NEW n \in 1 .. 4 * MaxMessages, OnIpcRead("parent", n) PROVE OrderInv'
    <3>1. n \in Nat
      OBVIOUS
    <3> QED BY <2>3, <3>1, Pair, ReadStep
  <2>4. CASE OnIpcEof("parent") \/ Reap
    BY <2>4, Pair, ContentSteps
  <2>5. CASE OnIpcWrite
    BY <2>5, WriteSteps
  <2>6. CASE OnIpcClose
    BY <2>6, CloseStep
  <2> QED BY <1>3, <2>1, <2>2, <2>3, <2>4, <2>5, <2>6 DEF LoopStep
<1>4. CASE ChildStep
  <2>1. ASSUME NEW c \in Children, Dies(c) PROVE OrderInv'
    BY <2>1, KidCloses, ContentSteps
  <2>2. ASSUME NEW c \in Children, NEW s \in Streams, Writes(c, s) PROVE OrderInv'
    BY <2>2, ContentSteps
  <2>3. ASSUME NEW e \in Ends, Transmit(e) PROVE OrderInv'
    BY <2>3, TransmitStep
  <2>4. ASSUME NEW n \in 1 .. 4 * MaxMessages, OnIpcRead("kid", n) PROVE OrderInv'
    <3>1. n \in Nat
      OBVIOUS
    <3> QED BY <2>4, <3>1, Pair, ReadStep
  <2>5. CASE OnIpcEof("kid")
    BY <2>5, Pair, ContentSteps
  <2>6. CASE KidReturns
    BY <2>6, ContinueStep
  <2>7. CASE KidSend
    BY <2>7, KidSendStep
  <2>8. CASE KidDisconnect
    BY <2>8, KidCloses
  <2> QED BY <1>4, <2>1, <2>2, <2>3, <2>4, <2>5, <2>6, <2>7, <2>8 DEF ChildStep
<1>5. CASE Returns
  BY <1>5, ContinueStep, ContentSteps DEF Returns
<1> QED BY <1>1, <1>2, <1>3, <1>4, <1>5 DEF Next

\* At both ends, listeners hear exactly those of the messages tried so far whose
\* text is JSON: whole, once, and in the order in which they were sent.  However
\* the kernel splits what is written, also within a header or a body, whatever
\* is queued during a write, and although a message stays in the buffer while
\* its listeners run.
THEOREM MessagesInOrder == Spec => []InOrder
<1>1. OrderInv => InOrder
  BY DEF OrderInv, Received, InOrder
<1> QED BY <1>1, InitIInv, NextIInv, InitOrder, NextOrder, PTL DEF Spec

-----------------------------------------------------------------------------
(* Parts of lists.                                                         *)

\* The natural numbers are well founded, as a set of pairs.
Below == {p \in Nat \X Nat : p[1] < p[2]}

LEMMA BelowIsWellFounded == IsWellFoundedOn(Below, Nat)
BY NatLessThanWellFounded, Zenon DEF OpToRel, Below

\* A set of natural numbers that is not empty has a least one.
LEMMA Least ==
    ASSUME NEW S \in SUBSET Nat, S # {}
    PROVE  \E m \in S : \A n \in S : m <= n
<1>1. \A m, n \in Nat : ~(<<n, m>> \in Below) => m <= n
  BY DEF Below
<1>2. \E m \in S : \A n \in S : ~(<<n, m>> \in Below)
  BY WFMin, BelowIsWellFounded
<1> QED BY <1>1, <1>2, Zenon

\* What is kept of a list are entries of it that are in S.
LEMMA SublistIsPart ==
    ASSUME NEW X, NEW list \in Seq(X), NEW S
    PROVE  /\ Sublist(list, S) \in Seq(X \cap S)
           /\ \A k \in DOMAIN Sublist(list, S) :
                 \E i \in DOMAIN list : Sublist(list, S)[k] = list[i]
<1> DEFINE kept == {i \in DOMAIN list : list[i] \in S}
           Rank(i) == Cardinality({j \in kept : j <= i})
           n == Len(list)
<1>1. n \in Nat /\ DOMAIN list = 1 .. n /\ kept \subseteq 1 .. n
  OBVIOUS
<1>2. IsFiniteSet(kept) /\ Cardinality(kept) \in Nat
  <2>1. IsFiniteSet(1 .. n)
    BY <1>1, FS_Interval
  <2> QED BY <1>1, <2>1, FS_Subset, FS_CardinalityType
<1>3. ASSUME NEW i \in 0 .. n
      PROVE  IsFiniteSet({j \in kept : j <= i}) /\ Rank(i) \in Nat
  BY <1>2, FS_Subset, FS_CardinalityType
<1>4. Rank(0) = 0
  <2>1. {j \in kept : j <= 0} = {}
    BY <1>1
  <2> QED BY <2>1, FS_EmptySet
<1>5. Rank(n) = Cardinality(kept)
  <2>1. {j \in kept : j <= n} = kept
    BY <1>1
  <2> QED BY <2>1
<1>6. ASSUME NEW i \in 1 .. n
      PROVE  Rank(i) = IF i \in kept THEN Rank(i - 1) + 1 ELSE Rank(i - 1)
  <2> DEFINE before == {j \in kept : j <= i - 1}
  <2>1. IsFiniteSet(before) /\ i \notin before
    BY <1>1, <1>3
  <2>2. CASE i \in kept
    <3>1. {j \in kept : j <= i} = before \cup {i}
      BY <1>1, <2>2
    <3>2. Cardinality(before \cup {i}) = Cardinality(before) + 1
      BY <2>1, FS_AddElement
    <3> QED BY <2>2, <3>1, <3>2
  <2>3. CASE i \notin kept
    <3>1. {j \in kept : j <= i} = before
      BY <1>1, <2>3
    <3> QED BY <2>3, <3>1
  <2> QED BY <2>2, <2>3
<1>7. ASSUME NEW k \in 1 .. Cardinality(kept)
      PROVE  \E i \in kept : Rank(i) = k
  <2> DEFINE reached == {i \in 0 .. n : k <= Rank(i)}
  <2> HIDE DEF kept, Rank
  <2>1. n \in reached /\ reached \subseteq Nat
    BY <1>1, <1>5
  <2>2. PICK m \in reached : \A i \in reached : m <= i
    BY <2>1, Least
  <2>3. m \in 1 .. n
    <3>1. m \in 0 .. n /\ k <= Rank(m) /\ k \in Nat /\ 1 <= k
      BY <1>2, <2>2
    <3>2. m # 0
      BY <1>4, <3>1
    <3> QED BY <1>1, <3>1, <3>2
  <2>4. Rank(m - 1) \in Nat /\ Rank(m - 1) < k /\ Rank(m) \in Nat /\ k <= Rank(m)
    <3>1. m - 1 \in 0 .. n /\ m \in 0 .. n /\ ~(m <= m - 1)
      BY <1>1, <2>3
    <3>2. m - 1 \notin reached
      BY <2>2, <3>1
    <3>3. Rank(m - 1) \in Nat /\ Rank(m) \in Nat
      BY <1>3, <3>1, Zenon
    <3>4. k \in Nat
      BY <1>2
    <3> QED BY <2>2, <3>1, <3>2, <3>3, <3>4
  <2> QED BY <1>6, <2>3, <2>4
<1> DEFINE At(k) == CHOOSE i \in kept : Rank(i) = k
<1>8. \A k \in 1 .. Cardinality(kept) : At(k) \in kept
  BY <1>7
<1>9. Sublist(list, S) = [k \in 1 .. Cardinality(kept) |-> list[At(k)]]
  BY DEF Sublist
<1> HIDE DEF kept, Rank, At
<1>10. \A k \in 1 .. Cardinality(kept) : At(k) \in DOMAIN list /\ list[At(k)] \in X \cap S
  BY <1>8 DEF kept
<1>11. Sublist(list, S) \in Seq(X \cap S)
  BY <1>2, <1>9, <1>10, IsASeq
<1> QED BY <1>9, <1>10, <1>11

-----------------------------------------------------------------------------
(* The output of a child without siblings.                                 *)

\* No other child was ever running.
Alone(c) == \A d \in Children \ {c} : os[d] \in {"none", "failed"}

\* Whoever has been waited for, alone, has been read to the end: SIGCHLD is
\* served last.
ReadToEnd ==
    \A c \in Children : os[c] = "reaped" /\ Alone(c) => \A s \in Streams : own[c][s] = 0

\* Output is thrown away only when the child is killed for it.
ThrownAway == \A c \in Children : dropped[c] => killed[c]

\* An exit callback comes after the wait: it is for a child in the batch, or
\* calls its listeners.
OfExit(f) == f.event \in {"callback", "exit", "close"}
Waited(f) == OfExit(f) => f.child \in Children /\ os[f.child] = "reaped"

AllWaited == \A k \in DOMAIN stack : Waited(stack[k])

WaitedFor ==
    /\ \A k \in DOMAIN ended : os[ended[k]] = "zombie"
    /\ \A k \in DOMAIN batch : os[batch[k]] = "reaped"
    /\ AllWaited

OutputTypes ==
    /\ order \in Seq(Children) /\ ended \in Seq(Children) /\ batch \in Seq(Children)
    /\ own \in [Children -> [Streams -> Nat]]
    /\ killed \in [Children -> BOOLEAN] /\ dropped \in [Children -> BOOLEAN]

AloneInv == OutputTypes /\ ReadToEnd /\ ThrownAway /\ WaitedFor

\* Calls of listeners and returns keep what is known of the frames, if the
\* new one is right and nobody who was waited for changes.
LEMMA WaitedCalls ==
    ASSUME IInv, AloneInv, NEW f, Waited(f)',
           \A c \in Children : os[c] = "reaped" => os'[c] = "reaped",
           \/ stack' \in {stack, <<f>> \o stack}
           \/ stack # <<>> /\ stack' \in {Rest, <<f>> \o Rest}
    PROVE  AllWaited'
<1> DEFINE After(g) == OfExit(g) => g.child \in Children /\ os'[g.child] = "reaped"
           Good(q) == \A k \in DOMAIN q : After(q[k])
<1>1. stack \in Seq(Frames) /\ Good(stack) /\ After(f)
  BY DEF IInv, PartialTypes, AloneInv, WaitedFor, AllWaited, Waited, OfExit
<1>2. ASSUME stack # <<>> PROVE Rest \in Seq(Frames) /\ Good(Rest)
  <2>1. Rest \in Seq(Frames) /\ \A k \in DOMAIN Rest : k + 1 \in DOMAIN stack /\ Rest[k] = stack[k + 1]
    BY <1>1, <1>2 DEF Rest
  <2> QED BY <2>1, <1>1
<1>3. ASSUME NEW q \in Seq(Frames), Good(q) PROVE Good(<<f>> \o q)
  <2> SUFFICES ASSUME NEW k \in DOMAIN (<<f>> \o q) PROVE After((<<f>> \o q)[k])
    OBVIOUS
  <2>1. k \in 1 .. 1 + Len(q) /\ (<<f>> \o q)[k] = IF k = 1 THEN f ELSE q[k - 1]
    BY <1>3
  <2>2. k # 1 => k - 1 \in DOMAIN q
    BY <1>3, <2>1
  <2> QED BY <1>1, <1>3, <2>1, <2>2
<1>4. Good(stack')
  <2>1. CASE stack' \in {stack, <<f>> \o stack}
    BY <2>1, <1>1, <1>3
  <2>2. CASE stack # <<>> /\ stack' \in {Rest, <<f>> \o Rest}
    BY <2>2, <1>2, <1>3
  <2> QED BY <2>1, <2>2
<1> QED BY <1>4 DEF AllWaited, Waited, OfExit

\* What the invariant is about but for the frames and what is read.
processes == <<os, order, ended, batch>>

\* A step that calls listeners or returns from them, reads, kills and throws
\* away, but starts and ends no process.
LEMMA ReadsAndCalls ==
    ASSUME IInv, AloneInv, UNCHANGED processes,
           OutputTypes',
           \A c \in Children, s \in Streams : os[c] = "reaped" /\ own[c][s] = 0 => own'[c][s] = 0,
           ThrownAway',
           NEW f, Waited(f)',
           \/ stack' \in {stack, <<f>> \o stack}
           \/ stack # <<>> /\ stack' \in {Rest, <<f>> \o Rest}
    PROVE  AloneInv'
<1>1. os' = os /\ ended' = ended /\ batch' = batch
  BY DEF processes
<1>2. AllWaited'
  BY <1>1, WaitedCalls
<1>3. WaitedFor'
  BY <1>1, <1>2 DEF AloneInv, WaitedFor
<1>4. ReadToEnd'
  BY <1>1 DEF AloneInv, ReadToEnd, Alone
<1> QED BY <1>3, <1>4 DEF AloneInv

\* ... or only calls listeners and returns.
outputs == <<processes, own, killed, dropped>>

LEMMA CallsAlone ==
    ASSUME IInv, AloneInv, UNCHANGED outputs, NEW f, Waited(f),
           \/ stack' \in {stack, <<f>> \o stack}
           \/ stack # <<>> /\ stack' \in {Rest, <<f>> \o Rest}
    PROVE  AloneInv'
<1>1. UNCHANGED processes /\ OutputTypes' /\ ThrownAway' /\ own' = own
  BY DEF outputs, processes, AloneInv, OutputTypes, ThrownAway
<1>2. Waited(f)'
  BY <1>1 DEF processes, Waited
<1> QED BY <1>1, <1>2, ReadsAndCalls

\* Frames of other calls.
LEMMA NotOfExit ==
    ASSUME NEW c, NEW ev \in Events \ {"callback", "exit", "close"}
    PROVE  Waited(Frame(ev, c)) /\ Waited(Frame(ev, c))'
BY DEF Waited, OfExit, Frame

\* Kills.
LEMMA KillsAlone ==
    ASSUME IInv, AloneInv, NEW c \in Children,
           OnTimeout(c) \/ \E sig \in {"SIGTERM", "SIGKILL"} : Kill(c, sig)
    PROVE  AloneInv'
<1>1. UNCHANGED processes /\ own' = own /\ dropped' = dropped /\ stack' = stack
  BY DEF OnTimeout, Kill, processes
<1>2. PICK b \in {TRUE, killed[c]} : killed' = [killed EXCEPT ![c] = b]
  BY DEF OnTimeout, Kill
<1>3. OutputTypes'
  BY <1>1, <1>2 DEF AloneInv, OutputTypes, processes
<1>4. ThrownAway'
  BY <1>1, <1>2 DEF AloneInv, OutputTypes, ThrownAway
<1>5. Waited(Frame("data", c))'
  BY NotOfExit DEF Events
<1> QED BY <1>1, <1>3, <1>4, <1>5, ReadsAndCalls

\* Output is read, and perhaps thrown away.
LEMMA ReadAlone ==
    ASSUME IInv, AloneInv, NEW c \in Children, NEW s \in Streams, NEW n \in 1 .. MaxBytes,
           OnRead(c, s, n)
    PROVE  AloneInv'
<1>1. UNCHANGED processes /\ n \in Nat
  BY ChildrenAssumption DEF OnRead, processes
<1>2. own' = [own EXCEPT ![c][s] = @ - Lower(n, own[c][s])]
  BY DEF OnRead, Taken
<1>3. own[c][s] \in Nat
  BY DEF AloneInv, OutputTypes
<1>4. own[c][s] - Lower(n, own[c][s]) \in Nat /\ (own[c][s] = 0 => own[c][s] - Lower(n, own[c][s]) = 0)
  BY <1>1, <1>3 DEF Lower
<1>5. /\ own' \in [Children -> [Streams -> Nat]]
      /\ \A d \in Children, t \in Streams : own[d][t] = 0 => own'[d][t] = 0
  BY <1>2, <1>4 DEF AloneInv, OutputTypes
<1>6. \/ killed' = [killed EXCEPT ![c] = TRUE] /\ dropped' = [dropped EXCEPT ![c] = TRUE]
      \/ killed' = killed /\ dropped' = dropped
  BY DEF OnRead, Exceeds
<1>7. OutputTypes' /\ ThrownAway'
  BY <1>1, <1>5, <1>6 DEF AloneInv, OutputTypes, ThrownAway, processes
<1>8. stack' \in {stack, <<Frame("data", c)>> \o stack}
  BY DEF OnRead, LoopRuns
<1>9. Waited(Frame("data", c))'
  BY NotOfExit DEF Events
<1> QED BY <1>1, <1>5, <1>7, <1>8, <1>9, ReadsAndCalls

\* A child that writes is running.
LEMMA WritesAlone ==
    ASSUME IInv, AloneInv, NEW c \in Children, NEW s \in Streams, Writes(c, s)
    PROVE  AloneInv'
<1>1. UNCHANGED processes /\ killed' = killed /\ dropped' = dropped /\ stack' = stack
  BY DEF Writes, processes, childVars
<1>2. own' = own \/ (os[c] = "running" /\ own' = [own EXCEPT ![c][s] = @ + 1])
  BY DEF Writes
<1>3. OutputTypes' /\ ThrownAway'
  <2>1. own' \in [Children -> [Streams -> Nat]]
    <3>1. own \in [Children -> [Streams -> Nat]]
      BY DEF AloneInv, OutputTypes
    <3>2. [own EXCEPT ![c][s] = @ + 1] \in [Children -> [Streams -> Nat]]
      BY <3>1
    <3> QED BY <1>2, <3>1, <3>2
  <2>2. UNCHANGED <<order, ended, batch, killed, dropped>>
    BY <1>1 DEF processes
  <2> QED BY <2>1, <2>2 DEF AloneInv, OutputTypes, ThrownAway
<1>4. \A d \in Children, t \in Streams : os[d] = "reaped" /\ own[d][t] = 0 => own'[d][t] = 0
  BY <1>2 DEF AloneInv, OutputTypes
<1>5. Waited(Frame("data", c))'
  BY NotOfExit DEF Events
<1> QED BY <1>1, <1>3, <1>4, <1>5, ReadsAndCalls

\* A child starts, or fails to.  Who was alone and is no longer had no sibling
\* that ran.
LEMMA StartsAlone ==
    ASSUME IInv, AloneInv, NEW c \in Children, NEW ok \in BOOLEAN, Start(c, ok)
    PROVE  AloneInv'
<1>1. /\ UNCHANGED <<own, ended, batch, killed, dropped, stack>>
      /\ order' \in {order, Append(order, c)}
      /\ os[c] = "none" /\ os' = [os EXCEPT ![c] = IF ok THEN "running" ELSE "failed"]
  BY DEF Start
<1>2. os \in [Children -> Processes]
  BY DEF IInv, PartialTypes
<1>3. OutputTypes' /\ ThrownAway'
  <2>1. order' \in Seq(Children)
    <3>1. order \in Seq(Children)
      BY DEF AloneInv, OutputTypes
    <3>2. Append(order, c) \in Seq(Children)
      BY <3>1
    <3> QED BY <1>1, <3>1, <3>2
  <2> QED BY <1>1, <2>1 DEF AloneInv, OutputTypes, ThrownAway
<1>4. \A d \in Children : os'[d] # os[d] => os[d] = "none" /\ os'[d] \in {"running", "failed"}
  BY <1>1, <1>2
<1>5. ReadToEnd'
  <2> SUFFICES ASSUME NEW d \in Children, os'[d] = "reaped", Alone(d)' PROVE \A s \in Streams : own[d][s] = 0
    BY <1>1 DEF ReadToEnd
  <2>1. os[d] = "reaped" /\ Alone(d)
    BY <1>4 DEF Alone
  <2> QED BY <2>1 DEF AloneInv, ReadToEnd
<1>6. WaitedFor'
  <2>1. \A k \in DOMAIN ended : ended[k] \in Children
    BY DEF AloneInv, OutputTypes
  <2>2. \A k \in DOMAIN batch : batch[k] \in Children
    BY DEF AloneInv, OutputTypes
  <2>3. \A d \in Children : os[d] \in {"zombie", "reaped"} => os'[d] = os[d]
    BY <1>4
  <2>4. AllWaited'
    BY <1>1, <2>3 DEF AloneInv, WaitedFor, AllWaited, Waited
  <2> QED BY <1>1, <2>1, <2>2, <2>3, <2>4 DEF AloneInv, WaitedFor
<1> QED BY <1>3, <1>5, <1>6 DEF AloneInv

\* A child ends.
LEMMA DiesAlone ==
    ASSUME IInv, AloneInv, NEW c \in Children, Dies(c)
    PROVE  AloneInv'
<1>1. /\ UNCHANGED <<own, order, batch, killed, dropped, stack>>
      /\ ended' = Append(ended, c)
      /\ os[c] = "running" /\ os' = [os EXCEPT ![c] = "zombie"]
  BY DEF Dies, childVars
<1>2. os \in [Children -> Processes]
  BY DEF IInv, PartialTypes
<1>3. OutputTypes' /\ ThrownAway'
  BY <1>1 DEF AloneInv, OutputTypes, ThrownAway
<1>4. os'[c] = "zombie" /\ \A d \in Children : os'[d] # os[d] => d = c
  BY <1>1, <1>2
<1>5. ReadToEnd'
  <2> SUFFICES ASSUME NEW d \in Children, os'[d] = "reaped", Alone(d)' PROVE \A s \in Streams : own[d][s] = 0
    BY <1>1 DEF ReadToEnd
  <2>1. FALSE
    BY <1>4 DEF Alone
  <2> QED BY <2>1
<1>6. WaitedFor'
  <2>1. \A k \in DOMAIN ended' : ended'[k] \in Children /\ os'[ended'[k]] = "zombie"
    <3> SUFFICES ASSUME NEW k \in DOMAIN ended' PROVE ended'[k] \in Children /\ os'[ended'[k]] = "zombie"
      OBVIOUS
    <3>1. ended'[k] = c \/ (k \in DOMAIN ended /\ ended'[k] = ended[k])
      BY <1>1 DEF AloneInv, OutputTypes
    <3>2. k \in DOMAIN ended => ended[k] \in Children /\ os[ended[k]] = "zombie"
      BY DEF AloneInv, OutputTypes, WaitedFor
    <3> QED BY <1>4, <3>1, <3>2
  <2>2. \A k \in DOMAIN batch : batch[k] \in Children
    BY DEF AloneInv, OutputTypes
  <2>3. \A d \in Children : os[d] = "reaped" => os'[d] = "reaped"
    BY <1>1, <1>4
  <2>4. AllWaited'
    BY <1>1, <2>3 DEF AloneInv, WaitedFor, AllWaited, Waited
  <2> QED BY <1>1, <2>1, <2>2, <2>3, <2>4 DEF AloneInv, WaitedFor
<1> QED BY <1>3, <1>5, <1>6 DEF AloneInv

\* The handler of SIGCHLD waits for all that have ended.  If one of them is
\* alone it is the first, whose output has been read.
LEMMA ReapAlone ==
    ASSUME IInv, AloneInv, Reap
    PROVE  AloneInv'
<1>1. /\ UNCHANGED <<own, killed, dropped, stack>>
      /\ ended # <<>> /\ Drained(Head(ended)) /\ ended' = <<>>
      /\ batch' = Sublist(order, Zombies) /\ order' = Sublist(order, Children \ Zombies)
      /\ os' = [c \in Children |-> IF os[c] = "zombie" THEN "reaped" ELSE os[c]]
  BY DEF Reap, childVars
<1>2. /\ batch' \in Seq(Children \cap Zombies)
      /\ order' \in Seq(Children \cap (Children \ Zombies))
  BY <1>1, SublistIsPart DEF AloneInv, OutputTypes
<1>3. OutputTypes' /\ ThrownAway'
  <2>1. batch' \in Seq(Children) /\ order' \in Seq(Children) /\ ended' \in Seq(Children)
    BY <1>1, <1>2
  <2> QED BY <1>1, <2>1 DEF AloneInv, OutputTypes, ThrownAway
<1>4. Head(ended) \in Children /\ os[Head(ended)] = "zombie"
  <2>1. 1 \in DOMAIN ended /\ Head(ended) = ended[1] /\ ended[1] \in Children
    BY <1>1 DEF AloneInv, OutputTypes
  <2> QED BY <2>1 DEF AloneInv, WaitedFor
<1>5. ReadToEnd'
  <2> SUFFICES ASSUME NEW d \in Children, os'[d] = "reaped", Alone(d)' PROVE \A s \in Streams : own[d][s] = 0
    BY <1>1 DEF ReadToEnd
  <2>1. os'[Head(ended)] = "reaped"
    BY <1>1, <1>4
  <2>2. d = Head(ended)
    BY <1>4, <2>1 DEF Alone
  <2> QED BY <1>1, <2>2 DEF Drained
<1>6. WaitedFor'
  <2>1. \A k \in DOMAIN batch' : batch'[k] \in Zombies
    BY <1>2
  <2>2. \A k \in DOMAIN batch' : os'[batch'[k]] = "reaped"
    BY <1>1, <2>1 DEF Zombies
  <2>3. DOMAIN ended' = {}
    BY <1>1
  <2>4. \A d \in Children : os[d] = "reaped" => os'[d] = "reaped"
    BY <1>1
  <2>5. AllWaited'
    BY <1>1, <2>4 DEF AloneInv, WaitedFor, AllWaited, Waited
  <2> QED BY <2>2, <2>3, <2>5 DEF WaitedFor
<1> QED BY <1>3, <1>5, <1>6 DEF AloneInv

\* Exit callbacks, from the batch to the listeners of 'close'.
LEMMA ExitsAlone ==
    ASSUME IInv, AloneInv,
           CallbackReturns \/ ExitReturns \/ \E c \in Children : OnProcessExit(c)
    PROVE  AloneInv'
<1>1. ASSUME NEW c \in Children, OnProcessExit(c) PROVE AloneInv'
  <2>0. PICK f : f = Frame(IF callback[c] THEN "callback" ELSE "exit", c)
    OBVIOUS
  <2>1. /\ UNCHANGED <<os, own, order, ended, killed, dropped>> /\ batch # <<>>
        /\ c = Head(batch) /\ batch' = Tail(batch) /\ stack' = <<f>> \o stack
    BY <1>1, <2>0 DEF OnProcessExit
  <2>2. batch \in Seq(Children)
    BY DEF AloneInv, OutputTypes
  <2>3. os[c] = "reaped"
    <3>1. 1 \in DOMAIN batch /\ c = batch[1]
      BY <2>1, <2>2
    <3> QED BY <3>1 DEF AloneInv, WaitedFor
  <2>4. batch' \in Seq(Children) /\ \A k \in DOMAIN batch' : k + 1 \in DOMAIN batch /\ batch'[k] = batch[k + 1]
    BY <2>1, <2>2
  <2>5. Waited(f)'
    BY <2>0, <2>1, <2>3 DEF Waited, Frame
  <2>6. AllWaited'
    BY <2>1, <2>5, WaitedCalls
  <2>7. WaitedFor'
    BY <2>1, <2>4, <2>6 DEF AloneInv, WaitedFor
  <2> QED BY <2>1, <2>4, <2>7 DEF AloneInv, OutputTypes, ReadToEnd, Alone, ThrownAway
<1>2. ASSUME CallbackReturns \/ ExitReturns PROVE AloneInv'
  <2>1. UNCHANGED outputs /\ stack # <<>>
    BY <1>2 DEF CallbackReturns, ExitReturns, outputs, processes, processVars
  <2>2. PICK ev \in {"exit", "close"} : stack' = <<Frame(ev, Top.child)>> \o Rest
    BY <1>2 DEF CallbackReturns, ExitReturns
  <2>3. Top.event \in {"callback", "exit"} /\ Top = stack[1] /\ 1 \in DOMAIN stack
    BY <1>2, <2>1 DEF CallbackReturns, ExitReturns, Top, IInv, PartialTypes
  <2>4. Top.child \in Children /\ os[Top.child] = "reaped"
    BY <2>3 DEF AloneInv, WaitedFor, AllWaited, Waited, OfExit
  <2>5. Waited(Frame(ev, Top.child))
    BY <2>4 DEF Waited, Frame
  <2> QED BY <2>1, <2>2, <2>5, CallsAlone
<1> QED BY <1>1, <1>2

\* The channel, errors, and what returns to no more calls.
LEMMA ElseAlone ==
    ASSUME IInv, AloneInv,
           \/ \E c \in Children : ErrorEvent(c)
           \/ Send \/ Disconnect \/ OnIpcWrite \/ OnIpcClose
           \/ \E e \in Ends : OnIpcEof(e) \/ Transmit(e) \/ \E n \in Nat : OnIpcRead(e, n)
           \/ KidReturns \/ KidSend \/ KidDisconnect \/ MessageReturns \/ OtherReturns
           \/ UNCHANGED vars
    PROVE  AloneInv'
<1>1. UNCHANGED outputs
  BY DEF ErrorEvent, Send, Disconnect, OnIpcWrite, OnIpcClose, OnIpcEof, Transmit, OnIpcRead,
         KidReturns, KidSend, KidDisconnect, MessageReturns, OtherReturns, vars,
         outputs, processes, processVars, childVars
<1>2. PICK c \in Children \cup {TheFork}, ev \in {"error", "sent", "message", "disconnect"} :
         \/ stack' \in {stack, <<Frame(ev, c)>> \o stack}
         \/ stack # <<>> /\ stack' \in {Rest, <<Frame(ev, c)>> \o Rest}
  <2>1. CASE \E c \in Children : ErrorEvent(c)
    BY <2>1 DEF ErrorEvent, LoopRuns
  <2>2. CASE Send \/ OnIpcWrite
    BY <2>2 DEF Send, OnIpcWrite, Enqueue, Written, Flush
  <2>3. CASE Disconnect \/ KidDisconnect \/ \E e \in Ends : OnIpcEof(e)
    BY <2>3 DEF Disconnect, KidDisconnect, OnIpcEof, Part
  <2>4. CASE \/ OnIpcClose \/ KidSend \/ (\E e \in Ends : Transmit(e)) \/ UNCHANGED vars
    BY <2>4 DEF OnIpcClose, KidSend, Transmit, vars
  <2>5. CASE MessageReturns \/ KidReturns
    BY <2>5 DEF MessageReturns, KidReturns, Continue, Process, Deliver, Drop, Leave
  <2>6. CASE \E e \in Ends : \E n \in Nat : OnIpcRead(e, n)
    <3>1. PICK e \in Ends, n \in Nat : OnIpcRead(e, n)
      BY <2>6
    <3>2. stack' \in {stack, <<Frame("message", TheFork)>> \o stack}
      BY <3>1 DEF OnIpcRead, Process, Deliver, Drop, Leave
    <3> QED BY <3>2
  <2>7. CASE OtherReturns
    BY <2>7 DEF OtherReturns
  <2> QED BY <2>1, <2>2, <2>3, <2>4, <2>5, <2>6, <2>7
<1>3. Waited(Frame(ev, c))
  BY NotOfExit DEF Events
<1> QED BY <1>1, <1>2, <1>3, CallsAlone

LEMMA InitAlone == Init => AloneInv
<1> SUFFICES ASSUME Init PROVE AloneInv
  OBVIOUS
<1>1. OutputTypes
  BY DEF Init, OutputTypes, None, Zero
<1>2. ReadToEnd /\ ThrownAway /\ WaitedFor
  BY DEF Init, ReadToEnd, ThrownAway, WaitedFor, AllWaited, None, Zero
<1> QED BY <1>1, <1>2 DEF AloneInv

LEMMA NextAlone == IInv /\ AloneInv /\ [Next]_vars => AloneInv'
<1> SUFFICES ASSUME IInv, AloneInv, [Next]_vars PROVE AloneInv'
  OBVIOUS
<1>1. CASE UNCHANGED vars
  BY <1>1, ElseAlone
<1>2. CASE ScriptStep
  BY <1>2, StartsAlone, KillsAlone, ElseAlone DEF ScriptStep
<1>3. CASE LoopStep
  <2>1. (\A n \in 1 .. 4 * MaxMessages : n \in Nat) /\ "parent" \in Ends
    BY DEF Ends
  <2> QED BY <1>3, <2>1, ElseAlone, KillsAlone, ExitsAlone, ReadAlone, ReapAlone DEF LoopStep
<1>4. CASE ChildStep
  <2>1. (\A n \in 1 .. 4 * MaxMessages : n \in Nat) /\ "kid" \in Ends
    BY DEF Ends
  <2> QED BY <1>4, <2>1, DiesAlone, WritesAlone, ElseAlone DEF ChildStep
<1>5. CASE Returns
  BY <1>5, ExitsAlone, ElseAlone DEF Returns
<1> QED BY <1>1, <1>2, <1>3, <1>4, <1>5 DEF Next

\* A child without siblings that is not killed loses no output: when exec's
\* callback and the listeners of 'exit' and 'close' are called, everything
\* that the child wrote has been read and nothing was thrown away.  It has no
\* other reason than that SIGCHLD is served last; that handler waits for every
\* child, so that with siblings it is not so.
THEOREM AloneLosesNothing == Spec => []AloneWhole
<1>1. IInv /\ AloneInv => AloneWhole
  <2> SUFFICES ASSUME IInv, AloneInv, NEW k \in DOMAIN stack, NEW c, c = stack[k].child,
                      OfExit(stack[k]), ~killed[c],
                      \A d \in Children \ {c} : os[d] \in {"none", "failed"}
               PROVE  ~dropped[c] /\ \A s \in Streams : own[c][s] = 0
    BY DEF AloneWhole, OfExit
  <2>1. c \in Children /\ os[c] = "reaped"
    BY DEF AloneInv, WaitedFor, AllWaited, Waited
  <2>2. ~dropped[c]
    BY <2>1 DEF AloneInv, ThrownAway
  <2>3. \A s \in Streams : own[c][s] = 0
    BY <2>1 DEF AloneInv, ReadToEnd, Alone
  <2> QED BY <2>2, <2>3
<1> QED BY <1>1, InitIInv, NextIInv, InitAlone, NextAlone, PTL DEF Spec
=============================================================================
