------------------------------- MODULE RunLoop -------------------------------
(***************************************************************************)
(* The run loop of src/runtime.c: JSRT_RuntimeEval,                        *)
(* JSRT_RuntimeAwaitEvalResult and JSRT_RuntimeRun, with libuv's uv_run    *)
(* inside it, and everything that feeds it: the entry script, the job      *)
(* queue of QuickJS (promise reactions, queueMicrotask), timers with the   *)
(* drain loop at the end of their callback, immediates, and I/O.           *)
(*                                                                         *)
(* Timers and immediates appear as two instances of TimerService, which    *)
(* TimerHandles and Immediates implement; of their handles only the fact   *)
(* that some are still closing matters here, because it keeps the loop     *)
(* alive and the poll from blocking.  I/O is two kinds of source: requests,*)
(* which complete once, and a server, which keeps the loop alive until it  *)
(* is closed and calls the script an unbounded number of times.  Time      *)
(* passes at any moment libuv may read the clock.                          *)
(***************************************************************************)
EXTENDS Naturals, FiniteSets

CONSTANTS
    Timers, Imms,   \* timers and immediates the script may set
    None,           \* no timer or immediate callback is on the stack
    MaxJobs,        \* bound: jobs enqueued in a behaviour
    MaxRequests,    \* bound: I/O requests started in a behaviour
    HasServer,      \* the script may open a server
    EvalBound,      \* jobs JSRT_RuntimeEval runs for a module (10)
    AwaitBound      \* jobs JSRT_RuntimeAwaitEvalResult runs (3)

ASSUME RunLoopAssumption ==
    /\ None \notin Timers \cup Imms
    /\ {MaxJobs, MaxRequests, EvalBound, AwaitBound} \subseteq Nat
    /\ HasServer \in BOOLEAN

VARIABLES
    timer, periodic,  \* the timers, as TimerService has them
    imm,              \* the immediates, as TimerService has them
    due,              \* timers whose time has come
    batch,            \* immediates the running check phase has still to call
    jobs,             \* length of the job queue
    requests,         \* I/O requests in flight
    server,           \* "none", "open" or "closed"
    closing,          \* some handle is closing
    errors,           \* exceptions of timer callbacks not yet reported
    pc,               \* where the C code is
    mode,             \* the mode of this uv_run
    polled,           \* the sources this poll has delivered an event of
    count,            \* jobs run by the bounded loop before JSRT_RuntimeRun
    kind,             \* the kind of the entry script
    script,           \* what script function runs, "none" or the C "drain"
    current,          \* the timer or immediate whose callback is on the stack
    madeJobs, madeRequests

services  == <<timer, periodic, imm, due, batch>>
io        == <<requests, server, closing>>
queues    == <<jobs, errors, madeJobs, madeRequests>>
control   == <<pc, mode, polled, count, kind>>
stack     == <<script, current>>
vars == <<timer, periodic, imm, due, batch, jobs, requests, server, closing,
          errors, pc, mode, polled, count, kind, script, current,
          madeJobs, madeRequests>>

Timer == INSTANCE TimerService WITH phase <- timer
Immediate == INSTANCE TimerService
                WITH Timers <- Imms, phase <- imm,
                     periodic <- [i \in Imms |-> FALSE]

Ended == {"done", "failed"}
Places == {"eval", "evalJobs", "await", "top", "timers", "poll", "check",
           "closing", "ticket", "report"} \cup Ended
Scripts == {"none", "entry", "job", "timer", "immediate", "io", "drain", "broken"}

\* Every variable keeps its type.
TypeOK ==
    /\ timer \in [Timers -> Timer!Phases] /\ periodic \in [Timers -> BOOLEAN]
    /\ imm \in [Imms -> Timer!Phases]
    /\ due \subseteq Timers /\ batch \subseteq Imms
    /\ jobs \in 0 .. MaxJobs /\ madeJobs \in 0 .. MaxJobs
    /\ requests \in 0 .. MaxRequests /\ madeRequests \in 0 .. MaxRequests
    /\ server \in {"none", "open", "closed"}
    /\ closing \in BOOLEAN /\ errors \in BOOLEAN
    /\ polled \subseteq {"request", "server"}
    /\ pc \in Places /\ mode \in {"default", "nowait"}
    /\ count \in Nat /\ kind \in {"module", "script", "commonjs"}
    /\ script \in Scripts
    /\ current \in Timers \cup Imms \cup {None}

Init ==
    /\ Timer!Init /\ Immediate!Init
    /\ due = {} /\ batch = {}
    /\ jobs = 0 /\ madeJobs = 0 /\ requests = 0 /\ madeRequests = 0
    /\ server = "none" /\ closing = FALSE /\ errors = FALSE
    /\ pc = "eval" /\ mode = "default" /\ polled = {} /\ count = 0
    /\ kind \in {"module", "script", "commonjs"}
    /\ script = "entry" /\ current = None

-----------------------------------------------------------------------------
(* What a script function may do while it runs.                            *)

ScriptRuns == script \in {"entry", "job", "timer", "immediate", "io"}

SetTimer(t, p) ==
    /\ ScriptRuns
    /\ Timer!Set(t, p)
    /\ UNCHANGED <<imm, due, batch, io, queues, control, stack>>

\* clearTimeout: the handle is stopped and closing.
ClearTimer(t) ==
    /\ ScriptRuns
    /\ Timer!Cancel(t)
    /\ due' = due \ {t}
    /\ closing' = TRUE
    /\ UNCHANGED <<imm, batch, requests, server, queues, control, stack>>

SetImmediate(i) ==
    /\ ScriptRuns
    /\ Immediate!Set(i, FALSE)
    /\ UNCHANGED <<timer, periodic, due, batch, io, queues, control, stack>>

ClearImmediate(i) ==
    /\ ScriptRuns
    /\ imm[i] = "waiting"     \* a second close is outside this model
    /\ Immediate!Cancel(i)
    /\ batch' = batch \ {i}
    /\ closing' = TRUE
    /\ UNCHANGED <<timer, periodic, due, requests, server, queues, control, stack>>

EnqueueJob ==
    /\ ScriptRuns
    /\ madeJobs < MaxJobs
    /\ jobs' = jobs + 1
    /\ madeJobs' = madeJobs + 1
    /\ UNCHANGED <<services, io, errors, madeRequests, control, stack>>

StartRequest ==
    /\ ScriptRuns
    /\ madeRequests < MaxRequests
    /\ requests' = requests + 1
    /\ madeRequests' = madeRequests + 1
    /\ UNCHANGED <<services, server, closing, jobs, errors, madeJobs, control, stack>>

OpenServer ==
    /\ ScriptRuns
    /\ HasServer
    /\ server = "none"
    /\ server' = "open"
    /\ UNCHANGED <<services, requests, closing, queues, control, stack>>

CloseServer ==
    /\ ScriptRuns
    /\ server = "open"
    /\ server' = "closed"
    /\ closing' = TRUE
    /\ UNCHANGED <<services, requests, queues, control, stack>>

ApiCall ==
    \/ \E t \in Timers : (\E p \in BOOLEAN : SetTimer(t, p)) \/ ClearTimer(t)
    \/ \E i \in Imms : SetImmediate(i) \/ ClearImmediate(i)
    \/ EnqueueJob
    \/ StartRequest
    \/ OpenServer
    \/ CloseServer

-----------------------------------------------------------------------------
(* Before the loop: JSRT_RuntimeEval and JSRT_RuntimeAwaitEvalResult.      *)

Goto(place) == pc' = place /\ UNCHANGED <<mode, polled, count, kind>>

\* One job of the queue is run; what follows depends on where from.
RunJob ==
    /\ jobs > 0
    /\ jobs' = jobs - 1
    /\ script' = "job"
    /\ UNCHANGED <<services, io, errors, madeJobs, madeRequests, control, current>>

\* The entry script ends.  An exception makes the command skip the loop.
EntryReturns ==
    /\ pc = "eval" /\ script = "entry"
    /\ \/ Goto(CASE kind = "module" -> "evalJobs"
                 [] kind = "script" -> "await"
                 [] OTHER -> "top")
       \/ Goto("failed")
    /\ script' = "none"
    /\ UNCHANGED <<services, io, queues, current>>

InBoundedLoop == pc \in {"evalJobs", "await"}
LoopBound == IF pc = "evalJobs" THEN EvalBound ELSE AwaitBound
AfterLoop == IF pc = "evalJobs" THEN "await" ELSE "top"

\* The next round of either loop.
BoundedJob ==
    /\ InBoundedLoop /\ script = "none"
    /\ count < LoopBound
    /\ RunJob

LeaveBoundedLoop ==
    /\ pc' = AfterLoop
    /\ count' = 0
    /\ UNCHANGED <<mode, polled, kind>>

\* A job that throws ends the loop, but not the program.
BoundedJobReturns ==
    /\ InBoundedLoop /\ script = "job"
    /\ \/ count' = count + 1 /\ UNCHANGED <<pc, mode, polled, kind>>
       \/ LeaveBoundedLoop
    /\ script' = "none"
    /\ UNCHANGED <<services, io, queues, current>>

BoundedLoopEnds ==
    /\ InBoundedLoop /\ script = "none"
    /\ jobs = 0 \/ count = LoopBound
    /\ LeaveBoundedLoop
    /\ UNCHANGED <<services, io, queues, stack>>

-----------------------------------------------------------------------------
(* uv_run.                                                                 *)

\* uv_loop_alive.
Alive ==
    \/ closing
    \/ requests > 0
    \/ server = "open"
    \/ \E t \in Timers : timer[t] \in {"waiting", "running"}
    \/ \E i \in Imms : imm[i] \in {"waiting", "running"}

\* JSRT_RuntimeRun chooses the mode.  In mode DEFAULT libuv runs the timers
\* before the first poll; with nothing alive uv_run returns at once.
StartUvRun ==
    /\ pc = "top"
    /\ mode' = IF jobs > 0 THEN "nowait" ELSE "default"
    /\ pc' = CASE ~Alive -> "ticket"
               [] Alive /\ jobs > 0 -> "poll"
               [] OTHER -> "timers"
    /\ UNCHANGED <<polled, count, kind, services, io, queues, stack>>

\* Time passes until timer t is due.
Elapse(t) ==
    /\ pc \in {"top", "poll", "closing"} /\ script = "none"
    /\ timer[t] = "waiting" /\ t \notin due
    /\ due' = due \cup {t}
    /\ UNCHANGED <<timer, periodic, imm, batch, io, queues, control, stack>>

\* uv__run_timers calls jsrt_on_timer_callback for a due timer.
Fire(t) ==
    /\ pc = "timers" /\ script = "none"
    /\ t \in due
    /\ Timer!Begin(t)
    /\ due' = due \ {t}
    /\ script' = "timer" /\ current' = t
    /\ UNCHANGED <<imm, batch, io, queues, control>>

\* The script's callback is back; an exception is put on the list.
TimerReturns ==
    /\ script = "timer"
    /\ errors' \in {errors, TRUE}
    /\ script' = "drain"
    /\ UNCHANGED <<services, io, jobs, madeJobs, madeRequests, control, current>>

\* The drain loop of jsrt_on_timer_callback.
DrainJob == script = "drain" /\ RunJob

DrainJobReturns ==
    /\ pc = "timers" /\ script = "job"
    /\ script' \in {"drain", "broken"}
    /\ UNCHANGED <<services, io, queues, control, current>>

\* Its end: a timeout still open is closed.
TimerEnds ==
    /\ (script = "drain" /\ jobs = 0) \/ script = "broken"
    /\ Timer!End(current)
    /\ closing' = (closing \/ timer'[current] = "over")
    /\ script' = "none" /\ current' = None
    /\ UNCHANGED <<imm, due, batch, requests, server, queues, control>>

\* All due timers were called: the end of a turn of the loop.  NOWAIT makes
\* one turn, DEFAULT as many as it takes until nothing is alive.
EndTimers ==
    /\ pc = "timers" /\ script = "none"
    /\ due = {}
    /\ Goto(IF Alive /\ mode = "default" THEN "poll" ELSE "ticket")
    /\ UNCHANGED <<services, io, queues, stack>>

\* The poll delivers an event: the callback runs script, and whatever jobs
\* that enqueues stay in the queue.
Deliver(source) ==
    /\ pc = "poll" /\ script = "none"
    /\ polled' = polled \cup {source}
    /\ script' = "io"
    /\ UNCHANGED <<services, server, closing, queues, pc, mode, count, kind, current>>

CompleteRequest ==
    /\ requests > 0
    /\ requests' = requests - 1
    /\ Deliver("request")

\* One poll reports a descriptor once, however busy it is.
ServerEvent ==
    /\ server = "open"
    /\ "server" \notin polled
    /\ UNCHANGED requests
    /\ Deliver("server")

IoReturns ==
    /\ script = "io"
    /\ script' = "none"
    /\ UNCHANGED <<services, io, queues, control, current>>

\* uv__backend_timeout is 0 in mode NOWAIT and when a handle is closing; else
\* the poll waits for an event or for the next timer, without a limit when
\* no timer waits.
PollReturns ==
    /\ pc = "poll" /\ script = "none"
    /\ mode = "nowait" \/ closing \/ polled # {} \/ due # {}
    /\ pc' = "check"
    /\ polled' = {}
    /\ batch' = {i \in Imms : imm[i] = "waiting"}
    /\ UNCHANGED <<mode, count, kind, timer, periodic, imm, due, io, queues, stack>>

RunImmediate(i) ==
    /\ pc = "check" /\ script = "none"
    /\ i \in batch
    /\ Immediate!Begin(i)
    /\ batch' = batch \ {i}
    /\ script' = "immediate" /\ current' = i
    /\ UNCHANGED <<timer, periodic, due, io, queues, control>>

\* No job is run after an immediate, and its exception is dropped.
ImmediateReturns ==
    /\ script = "immediate"
    /\ Immediate!End(current)
    /\ closing' = TRUE
    /\ script' = "none" /\ current' = None
    /\ UNCHANGED <<timer, periodic, due, batch, requests, server, queues, control>>

EndCheck ==
    /\ pc = "check" /\ script = "none"
    /\ batch = {}
    /\ Goto("closing")
    /\ UNCHANGED <<services, io, queues, stack>>

\* uv__run_closing_handles, and the clock is read again.
EndClosing ==
    /\ pc = "closing"
    /\ closing' = FALSE
    /\ Goto("timers")
    /\ UNCHANGED <<services, requests, server, queues, stack>>

-----------------------------------------------------------------------------
(* After uv_run.                                                           *)

\* JSRT_RuntimeRunTicket runs one job, if there is one.
Ticket ==
    /\ pc = "ticket" /\ script = "none"
    /\ RunJob

NoTicket ==
    /\ pc = "ticket" /\ script = "none"
    /\ jobs = 0
    /\ Goto("report")
    /\ UNCHANGED <<services, io, queues, stack>>

\* A job that throws makes JSRT_RuntimeRun return false.
TicketReturns ==
    /\ pc = "ticket" /\ script = "job"
    /\ Goto("report") \/ Goto("failed")
    /\ script' = "none"
    /\ UNCHANGED <<services, io, queues, current>>

\* Mutants of Report: the queue is not looked at, the loop never
\* ends, the exceptions stay on the list.
ReportAnd(leave) ==
    /\ pc = "report"
    /\ Goto(IF leave THEN "done" ELSE "top")
    /\ UNCHANGED <<services, io, jobs, madeJobs, madeRequests, stack>>

ReportIgnoresJobs == ReportAnd(~Alive) /\ errors' = FALSE
ReportForEver     == ReportAnd(FALSE) /\ errors' = FALSE
ReportKeepsErrors == ReportAnd(jobs = 0 /\ ~Alive) /\ UNCHANGED errors

\* JSRT_RuntimeProcessUnhandledExceptionValues, then the two continues.
Report ==
    /\ pc = "report"
    /\ errors' = FALSE
    /\ Goto(IF jobs > 0 \/ Alive THEN "top" ELSE "done")
    /\ UNCHANGED <<services, io, jobs, madeJobs, madeRequests, stack>>

-----------------------------------------------------------------------------
Advance ==
    \/ EntryReturns \/ BoundedJob \/ BoundedJobReturns \/ BoundedLoopEnds
    \/ StartUvRun
    \/ (\E t \in Timers : Fire(t)) \/ TimerReturns \/ DrainJob
    \/ DrainJobReturns \/ TimerEnds \/ EndTimers
    \/ IoReturns \/ PollReturns
    \/ (\E i \in Imms : RunImmediate(i)) \/ ImmediateReturns \/ EndCheck
    \/ EndClosing
    \/ Ticket \/ NoTicket \/ TicketReturns \/ Report

Next ==
    \/ ApiCall
    \/ Advance
    \/ CompleteRequest
    \/ ServerEvent
    \/ \E t \in Timers : Elapse(t)

Spec == Init /\ [][Next]_vars

\* The thread runs on whenever it can, requests complete, time passes.
Fairness ==
    /\ WF_vars(Advance)
    /\ SF_vars(CompleteRequest)
    /\ \A t \in Timers : SF_vars(Elapse(t))

FairSpec == Spec /\ Fairness

-----------------------------------------------------------------------------
(* Properties.                                                             *)

\* JSRT_RuntimeRun returns true only when nothing is left to run or report:
\* no job, timer, immediate, request, server or unreported exception.
NoWorkLost ==
    pc = "done" =>
        /\ jobs = 0
        /\ requests = 0
        /\ server # "open"
        /\ ~closing
        /\ ~errors
        /\ \A t \in Timers : timer[t] \in {"unset", "over"}
        /\ \A i \in Imms : imm[i] \in {"unset", "over"}

\* From some moment on no server is open and no immediate waits: the two ways
\* in which uv_run may block for ever.  IntervalsCleared is the third reason
\* why it may not return.
Unblocked == <>[](server # "open" /\ \A i \in Imms : imm[i] # "waiting")
IntervalsCleared ==
    <>[](\A t \in Timers : periodic[t] => timer[t] \in {"ending", "over"})

\* The program ends when nothing of what keeps it alive is left open.
Ends == Unblocked /\ IntervalsCleared => <>(pc \in Ended)

\* An exception of a timer callback is reported, though only after uv_run has
\* returned: an interval or a server left open puts the report off for ever.
ErrorsReported ==
    Unblocked /\ IntervalsCleared => (errors ~> (~errors \/ pc = "failed"))
=============================================================================
