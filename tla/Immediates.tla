----------------------------- MODULE Immediates -----------------------------
(***************************************************************************)
(* setImmediate and clearImmediate of src/node/node_timers.c.  A           *)
(* NodeImmediate embeds a uv_check_t; a process-wide table maps ids to the *)
(* structures.  libuv calls the check handles once in every turn of the    *)
(* loop, in the check phase that follows the poll, and afterwards ends the *)
(* closing of handles.  A check handle does not make the poll return: it   *)
(* may block for ever, unless a handle is closing.                         *)
(*                                                                         *)
(* The memory of a NodeImmediate is also the memory of its handle.  What   *)
(* happens after a second uv_close of one handle is undefined (an abort    *)
(* where libuv's assertions are compiled in, a corrupt list of closing     *)
(* handles elsewhere), so the model stops there.  Memory that is freed     *)
(* while libuv still holds the handle is recorded, and the behaviour goes  *)
(* on as if the allocator had not reused it yet, the only outcome in which *)
(* the program survives.                                                   *)
(***************************************************************************)
EXTENDS Naturals, SequencesExt

CONSTANTS
    Imms,     \* the structures malloc'ed by js_set_immediate, one id each
    NoImm     \* no immediate callback is on the stack

ASSUME NoImmAssumption == NoImm \notin Imms

VARIABLES
    mem,        \* mem[i]: the NodeImmediate structure
    handle,     \* handle[i]: its uv_check_t, as libuv sees it
    tracked,    \* tracked[i]: the table immediates[] still finds the id
    cleared,    \* cleared[i]: is_cleared
    queue,      \* loop->check_handles, first to be called first
    walk,       \* the handles the running check phase has still to call
    running,    \* the immediate whose callback is on the stack, or NoImm
    stage,      \* what the thread runs
    polled      \* this turn's poll is over, the check phase is to come

vars == <<mem, handle, tracked, cleared, queue, walk, running, stage, polled>>
immVars == <<mem, handle, tracked, cleared, queue, walk>>

Memory  == {"unused", "live", "freed"}
Handles == {"none", "active", "closing", "closed"}

\* "poll": the thread is in the kernel.  "loop": anywhere else in C, but for the
\* check phase.  "left": JSRT_RuntimeRun has returned.
Stages  == {"loop", "poll", "check", "js", "left", "undefined"}

\* The state is of the shape the C structures allow.
TypeOK ==
    /\ mem \in [Imms -> Memory]
    /\ handle \in [Imms -> Handles]
    /\ tracked \in [Imms -> BOOLEAN]
    /\ cleared \in [Imms -> BOOLEAN]
    /\ queue \in Seq(Imms) /\ walk \in Seq(Imms)
    /\ running \in Imms \cup {NoImm}
    /\ stage \in {"loop", "poll", "check", "left"} => running = NoImm
    /\ stage \in Stages
    /\ polled \in BOOLEAN

Init ==
    /\ mem = [i \in Imms |-> "unused"]
    /\ handle = [i \in Imms |-> "none"]
    /\ tracked = [i \in Imms |-> FALSE]
    /\ cleared = [i \in Imms |-> FALSE]
    /\ queue = <<>> /\ walk = <<>>
    /\ running = NoImm
    /\ stage = "js"
    /\ polled = FALSE

ScriptRuns == stage = "js"

\* uv_check_stop and uv_close(handle, NULL), then on to the given stage.
StopAndClose(i, next) ==
    /\ queue' = RemoveFirst(queue, i)
    /\ walk' = RemoveFirst(walk, i)
    /\ handle' = [handle EXCEPT ![i] = "closing"]
    /\ stage' = IF handle[i] = "active" THEN next ELSE "undefined"

\* js_set_immediate; uv_check_start puts the handle at the head of the list.
SetImmediate(i) ==
    /\ ScriptRuns
    /\ mem[i] = "unused"
    /\ mem' = [mem EXCEPT ![i] = "live"]
    /\ handle' = [handle EXCEPT ![i] = "active"]
    /\ tracked' = [tracked EXCEPT ![i] = TRUE]
    /\ queue' = <<i>> \o queue
    /\ UNCHANGED <<cleared, walk, running, stage, polled>>

\* js_clear_immediate: an id that the table does not hold is ignored.
ClearImmediate(i) ==
    /\ ScriptRuns
    /\ tracked[i]
    /\ cleared' = [cleared EXCEPT ![i] = TRUE]
    /\ StopAndClose(i, stage)
    /\ UNCHANGED <<mem, tracked, running, polled>>

\* uv__io_poll is entered, once in a turn of the loop.
Poll ==
    /\ stage = "loop" /\ ~polled
    /\ stage' = "poll"
    /\ UNCHANGED <<immVars, running, polled>>

\* It comes back: something has happened, or it was not to wait.
PollReturns ==
    /\ stage = "poll"
    /\ stage' = "loop"
    /\ polled' = TRUE
    /\ UNCHANGED <<immVars, running>>

\* uv__backend_timeout is 0 when a handle is closing.
Hurried == \E i \in Imms : handle[i] = "closing"

\* uv__run_check moves the whole list aside and calls the handles on it one
\* by one, putting each back at the tail of the loop's list first.
BeginCheck ==
    /\ stage = "loop" /\ polled
    /\ walk' = queue
    /\ queue' = <<>>
    /\ stage' = "check"
    /\ polled' = FALSE
    /\ UNCHANGED <<mem, handle, tracked, cleared, running>>

\* Mutant of RunImmediate: every callback is taken for a cleared one.
RunSkips ==
    /\ stage = "check"
    /\ walk # <<>>
    /\ walk' = Tail(walk)
    /\ queue' = Append(queue, Head(walk))
    /\ UNCHANGED <<mem, handle, tracked, cleared, running, stage, polled>>

\* immediate_check_callback up to JS_Call.
RunImmediate ==
    /\ stage = "check"
    /\ walk # <<>>
    /\ walk' = Tail(walk)
    /\ queue' = Append(queue, Head(walk))
    /\ IF cleared[Head(walk)]
       THEN UNCHANGED <<running, stage>>
       ELSE running' = Head(walk) /\ stage' = "js"
    /\ UNCHANGED <<mem, handle, tracked, cleared, polled>>

\* Mutant of ImmediateReturns: the handle is left started.
ReturnsWithoutStop ==
    /\ stage = "js"
    /\ running # NoImm
    /\ stage' = "check"
    /\ tracked' = [tracked EXCEPT ![running] = FALSE]
    /\ mem' = [mem EXCEPT ![running] = "freed"]
    /\ running' = NoImm
    /\ UNCHANGED <<handle, cleared, queue, walk, polled>>

\* The rest of it: stop, close without a close callback, remove from the
\* table, free.
ImmediateReturns ==
    /\ stage = "js"
    /\ running # NoImm
    /\ StopAndClose(running, "check")
    /\ tracked' = [tracked EXCEPT ![running] = FALSE]
    /\ mem' = [mem EXCEPT ![running] = "freed"]
    /\ running' = NoImm
    /\ UNCHANGED <<cleared, polled>>

\* The check phase is over, and uv__run_closing_handles follows: there are no
\* close callbacks.
EndCheck ==
    /\ stage = "check"
    /\ walk = <<>>
    /\ stage' = "loop"
    /\ handle' = [i \in Imms |-> IF handle[i] = "closing" THEN "closed" ELSE handle[i]]
    /\ UNCHANGED <<mem, tracked, cleared, queue, walk, running, polled>>

\* uv_run does not go on: nothing is alive any more, or JSRT_RuntimeRun has
\* returned because a job threw.
Leave ==
    /\ stage = "loop" /\ ~polled
    /\ stage' = "left"
    /\ UNCHANGED <<immVars, running, polled>>

\* Script entered from anywhere but an immediate: a timer, a job, an event
\* that the poll has found.
EnterScript ==
    /\ stage = "loop"
    /\ stage' = "js"
    /\ UNCHANGED <<immVars, running, polled>>

LeaveScript ==
    /\ stage = "js"
    /\ running = NoImm
    /\ stage' = "loop"
    /\ UNCHANGED <<immVars, running, polled>>

Next ==
    \/ \E i \in Imms : SetImmediate(i) \/ ClearImmediate(i)
    \/ Poll
    \/ PollReturns
    \/ Leave
    \/ BeginCheck
    \/ RunImmediate
    \/ ImmediateReturns
    \/ EndCheck
    \/ EnterScript
    \/ LeaveScript

Spec == Init /\ [][Next]_vars

\* Script returns, and the loop goes through its phases, however often script
\* is entered from them.  Of the poll nothing is assumed, unless a handle is
\* closing.
Fairness ==
    /\ WF_vars(LeaveScript) /\ WF_vars(ImmediateReturns)
    /\ WF_vars(RunImmediate) /\ WF_vars(EndCheck)
    /\ SF_vars(BeginCheck) /\ SF_vars(Poll)
    /\ WF_vars(Hurried /\ PollReturns)

FairSpec == Spec /\ Fairness

-----------------------------------------------------------------------------
(* Properties.                                                             *)

\* The loop's lists hold exactly the handles that are started, each once: a
\* handle on a list twice would be called twice, one that is lost never.
ListsExact ==
    /\ IsInjective(queue \o walk)
    /\ \A i \in Imms : handle[i] = "active" <=> i \in ToSet(queue \o walk)

\* Each id in the table and the callback on the stack have a structure that is
\* still allocated, although a callback may clear itself or any other: both
\* clearImmediate and the rest of the callback go through these pointers.
TableLive ==
    /\ \A i \in Imms : tracked[i] => mem[i] = "live"
    /\ running # NoImm => mem[running] = "live"

\* Every immediate is run or cleared in the end, whatever the others set and
\* clear, unless the program is undefined, leaves its loop, or comes to a poll
\* that blocks for ever.
NoneForgotten ==
    \/ <>[](stage = "poll")
    \/ \A i \in Imms :
           (handle[i] = "active") ~> (handle[i] # "active" \/ stage \in {"left", "undefined"})

\* What setImmediate promises: the timer service, with nothing periodic.
Promised(i) ==
    CASE mem[i] = "unused"                 -> "unset"
      [] handle[i] = "active" /\ running # i -> "waiting"
      [] handle[i] = "active" /\ running = i -> "running"
      [] handle[i] \in {"closing", "closed"} /\ running = i -> "ending"
      [] OTHER                             -> "over"

Service == INSTANCE TimerService
              WITH Timers   <- Imms,
                   phase    <- [i \in Imms |-> Promised(i)],
                   periodic <- [i \in Imms |-> FALSE]

\* A cleared immediate never runs, none runs twice, none overlap.
ImplementsTimerService == Service!Spec
=============================================================================
