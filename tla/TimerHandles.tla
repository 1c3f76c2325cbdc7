---------------------------- MODULE TimerHandles ----------------------------
(***************************************************************************)
(* Life cycle of the timers of src/std/timer.c: the JSRT_Timer structure,  *)
(* the uv_timer_t inside it, and the Timer object the script holds, whose  *)
(* opaque pointer is the only way clearTimeout finds the structure.        *)
(*                                                                         *)
(* The runtime has one thread.  Either libuv runs (stage "loop"), or a     *)
(* script function runs (stages "js" and "job"), or the C code of          *)
(* jsrt_on_timer_callback runs between the two ("drain", "broken").  Any   *)
(* script function may call the timer API, also the callback of the timer  *)
(* it clears.  libuv fires an armed timer and calls a pending close        *)
(* callback only from the loop: no code of src/ runs rt->uv_loop from      *)
(* inside a callback.                                                      *)
(***************************************************************************)
EXTENDS Naturals

CONSTANTS
    Timers,    \* the structures malloc'ed by jsrt_start_timer
    NoTimer,   \* no timer callback is on the C stack
    MaxJobs    \* bound: jobs enqueued in a behaviour

ASSUME NoTimerAssumption == NoTimer \notin Timers
ASSUME MaxJobsAssumption == MaxJobs \in Nat

VARIABLES
    mem,       \* mem[t]: the JSRT_Timer structure
    handle,    \* handle[t]: its uv_timer_t, as libuv sees it
    interval,  \* interval[t]: is_interval
    opaque,    \* opaque[t]: the opaque pointer of timer_obj is t, not NULL
    object,    \* object[t]: the Timer object, as the script sees it
    closes,    \* closes[t]: how many times uv_close was called (history)
    callback,  \* the timer whose jsrt_on_timer_callback is on the stack
    stage,     \* what the thread runs
    jobs,      \* length of QuickJS' job queue
    enqueued   \* jobs enqueued so far (bounded by MaxJobs)

timerVars == <<mem, handle, interval, opaque, object, closes>>
vars == <<mem, handle, interval, opaque, object, closes,
          callback, stage, jobs, enqueued>>

Memory  == {"unused", "live", "freed"}
Handles == {"none", "armed", "idle", "closing", "closed"}
Objects == {"none", "held", "dropped", "collected"}
Stages  == {"loop", "js", "drain", "job", "broken"}

\* The state is of the shape the C structures allow.
TypeOK ==
    /\ mem \in [Timers -> Memory]
    /\ handle \in [Timers -> Handles]
    /\ interval \in [Timers -> BOOLEAN]
    /\ opaque \in [Timers -> BOOLEAN]
    /\ object \in [Timers -> Objects]
    /\ closes \in [Timers -> Nat]
    /\ callback \in Timers \cup {NoTimer}
    /\ stage \in Stages
    /\ jobs \in Nat
    /\ enqueued \in 0 .. MaxJobs

Init ==
    /\ mem = [t \in Timers |-> "unused"]
    /\ handle = [t \in Timers |-> "none"]
    /\ interval = [t \in Timers |-> FALSE]
    /\ opaque = [t \in Timers |-> FALSE]
    /\ object = [t \in Timers |-> "none"]
    /\ closes = [t \in Timers |-> 0]
    /\ callback = NoTimer
    /\ stage = "js"               \* the entry script is being evaluated
    /\ jobs = 0
    /\ enqueued = 0

ScriptRuns == stage \in {"js", "job"}

-----------------------------------------------------------------------------
(* The script's calls.                                                     *)

\* jsrt_start_timer: a fresh structure, armed, and its object handed out.
SetTimer(t, itv) ==
    /\ ScriptRuns
    /\ mem[t] = "unused"
    /\ mem' = [mem EXCEPT ![t] = "live"]
    /\ handle' = [handle EXCEPT ![t] = "armed"]
    /\ interval' = [interval EXCEPT ![t] = itv]
    /\ opaque' = [opaque EXCEPT ![t] = TRUE]
    /\ object' = [object EXCEPT ![t] = "held"]
    /\ UNCHANGED <<closes, callback, stage, jobs, enqueued>>

\* Mutants of CloseTimer: the pointer is kept, or the structure freed at once.
CloseKeepsPointer(t) ==
    /\ handle' = [handle EXCEPT ![t] = "closing"]
    /\ closes' = [closes EXCEPT ![t] = @ + 1]
    /\ UNCHANGED <<mem, opaque>>

CloseFreesAtOnce(t) ==
    /\ opaque' = [opaque EXCEPT ![t] = FALSE]
    /\ handle' = [handle EXCEPT ![t] = "closing"]
    /\ closes' = [closes EXCEPT ![t] = @ + 1]
    /\ mem' = [mem EXCEPT ![t] = "freed"]

\* jsrt_timer_free: uv_timer_stop and uv_close; the structure stays until
\* the close callback.  The caller has cleared the opaque pointer.
CloseTimer(t) ==
    /\ opaque' = [opaque EXCEPT ![t] = FALSE]
    /\ handle' = [handle EXCEPT ![t] = "closing"]
    /\ closes' = [closes EXCEPT ![t] = @ + 1]
    /\ UNCHANGED mem

\* Mutant of ClearTimer: the handle is left running.
ClearLeavesHandle(t) ==
    /\ ScriptRuns
    /\ object[t] = "held"
    /\ opaque[t]
    /\ opaque' = [opaque EXCEPT ![t] = FALSE]
    /\ UNCHANGED <<mem, handle, closes, interval, object, callback,
                   stage, jobs, enqueued>>

\* jsrt_stop_timer.  A NULL opaque pointer makes the call do nothing.
ClearTimer(t) ==
    /\ ScriptRuns
    /\ object[t] = "held"
    /\ opaque[t]
    /\ CloseTimer(t)
    /\ UNCHANGED <<interval, object, callback, stage, jobs, enqueued>>

\* The script loses its last reference to the Timer object.
DropObject(t) ==
    /\ ScriptRuns
    /\ object[t] = "held"
    /\ object' = [object EXCEPT ![t] = "dropped"]
    /\ UNCHANGED <<mem, handle, interval, opaque, closes,
                   callback, stage, jobs, enqueued>>

\* A promise reaction or queueMicrotask.
EnqueueJob ==
    /\ ScriptRuns
    /\ enqueued < MaxJobs
    /\ jobs' = jobs + 1
    /\ enqueued' = enqueued + 1
    /\ UNCHANGED <<timerVars, callback, stage>>

-----------------------------------------------------------------------------
(* The collector.                                                          *)

\* uv_is_closing: true from uv_close on, and still after the close callback.
IsClosing(t) == handle[t] \in {"closing", "closed"}

\* timer_obj is a reference of its own, given back in the close callback.
Collectable(t) == object[t] = "dropped" /\ mem[t] # "live"

\* jsrt_timer_finalizer: closes the handle if the opaque pointer is set.
Finalize(t) ==
    /\ Collectable(t)
    /\ object' = [object EXCEPT ![t] = "collected"]
    /\ IF opaque[t] /\ ~IsClosing(t)
       THEN CloseTimer(t)
       ELSE UNCHANGED <<opaque, handle, closes, mem>>
    /\ UNCHANGED <<interval, callback, stage, jobs, enqueued>>

-----------------------------------------------------------------------------
(* The loop and the timer callback.                                        *)

\* uv__run_timers stops the handle, re-arms it when it repeats, and calls
\* jsrt_on_timer_callback, which calls the script's function.
Fire(t) ==
    /\ stage = "loop"
    /\ handle[t] = "armed"
    /\ handle' = [handle EXCEPT ![t] = IF interval[t] THEN "armed" ELSE "idle"]
    /\ callback' = t
    /\ stage' = "js"
    /\ UNCHANGED <<mem, interval, opaque, object, closes, jobs, enqueued>>

\* JS_Call is back: a return or an exception that is recorded.
CallReturns ==
    /\ stage = "js"
    /\ callback # NoTimer
    /\ stage' = "drain"
    /\ UNCHANGED <<timerVars, callback, jobs, enqueued>>

\* The drain loop: one job for each JSRT_RuntimeRunTicket.
DrainJob ==
    /\ stage = "drain"
    /\ jobs > 0
    /\ jobs' = jobs - 1
    /\ stage' = "job"
    /\ UNCHANGED <<timerVars, callback, enqueued>>

\* The job is over; one that throws makes JSRT_RuntimeRunTicket return false
\* and ends the loop with the rest of the queue left.
JobReturns ==
    /\ stage = "job"
    /\ stage' \in {"drain", "broken"}
    /\ UNCHANGED <<timerVars, callback, jobs, enqueued>>

\* Mutant of Expired: an inactive handle is taken for one that is closing.
ExpiredIfArmed(t) == ~interval[t] /\ handle[t] = "armed"

\* The tail of jsrt_on_timer_callback: a timeout that nobody cleared
\* meanwhile is closed here.
Expired(t) == ~interval[t] /\ ~IsClosing(t)

CallbackEnds ==
    /\ callback # NoTimer
    /\ (stage = "drain" /\ jobs = 0) \/ stage = "broken"
    /\ IF Expired(callback)
       THEN CloseTimer(callback)
       ELSE UNCHANGED <<opaque, handle, closes, mem>>
    /\ callback' = NoTimer
    /\ stage' = "loop"
    /\ UNCHANGED <<interval, object, jobs, enqueued>>

\* jsrt_timer_close_callback, from uv__run_closing_handles: the structure
\* gives back its JS values and is freed.
CloseCallback(t) ==
    /\ stage = "loop"
    /\ handle[t] = "closing"
    /\ handle' = [handle EXCEPT ![t] = "closed"]
    /\ mem' = [mem EXCEPT ![t] = "freed"]
    /\ UNCHANGED <<interval, opaque, object, closes,
                   callback, stage, jobs, enqueued>>

\* Any other entry into script: the callback of another handle or a job run
\* by JSRT_RuntimeRun.
EnterScript ==
    /\ stage = "loop"
    /\ stage' = "js"
    /\ jobs' \in {jobs} \cup (IF jobs > 0 THEN {jobs - 1} ELSE {})
    /\ UNCHANGED <<timerVars, callback, enqueued>>

LeaveScript ==
    /\ stage = "js"
    /\ callback = NoTimer
    /\ stage' = "loop"
    /\ UNCHANGED <<timerVars, callback, jobs, enqueued>>

-----------------------------------------------------------------------------
Next ==
    \/ \E t \in Timers :
          \/ \E itv \in BOOLEAN : SetTimer(t, itv)
          \/ ClearTimer(t)
          \/ DropObject(t)
          \/ Finalize(t)
          \/ Fire(t)
          \/ CloseCallback(t)
    \/ EnqueueJob
    \/ CallReturns
    \/ DrainJob
    \/ JobReturns
    \/ CallbackEnds
    \/ EnterScript
    \/ LeaveScript

Spec == Init /\ [][Next]_vars

\* Script functions and jobs end, and the loop keeps turning: it fires each
\* armed timer and calls each close callback.  libuv's heap orders timers by
\* due time, so none is passed over for ever.
Fairness ==
    /\ WF_vars(CallReturns) /\ WF_vars(LeaveScript)
    /\ WF_vars(DrainJob) /\ WF_vars(JobReturns) /\ WF_vars(CallbackEnds)
    /\ \A t \in Timers : SF_vars(Fire(t)) /\ SF_vars(CloseCallback(t))

FairSpec == Spec /\ Fairness

-----------------------------------------------------------------------------
(* Properties.                                                             *)

\* The script can reach the structure through its Timer object exactly while
\* the timer can still fire or is firing uncleared: a pointer that outlives
\* this is a use after free (timer.c:157 and :197 clear it first), one that
\* is cleared earlier is a timer that clearTimeout can no longer stop.
OpaqueExact ==
    \A t \in Timers :
        opaque[t] <=> /\ mem[t] = "live"
                      /\ \/ handle[t] = "armed"
                         \/ handle[t] = "idle" /\ callback = t

\* uv_close is called at most once on a handle, although clearTimeout, the
\* end of the callback and the finalizer may each want to close it.
ClosedOnce == \A t \in Timers : closes[t] <= 1

\* libuv and the C callback on the stack only see a structure that is still
\* allocated: a timer cleared by its own callback, or by a job drained after
\* it, must outlive that callback (timer.c:195 reads it).
NoUseAfterFree ==
    /\ \A t \in Timers : handle[t] \in {"armed", "idle", "closing"} => mem[t] = "live"
    /\ callback # NoTimer => mem[callback] = "live"

\* An armed timer is only disarmed by clearTimeout or by firing, never by the
\* collector: a script may throw away the object setTimeout returned.
OnlyClearedOrFired ==
    [][\A t \in Timers :
          handle[t] = "armed" /\ handle'[t] # "armed" =>
             (stage = "loop" /\ callback' = t) \/ ScriptRuns]_vars

\* Every timeout is over in the end and its structure freed, and so is every
\* interval that was cleared: nothing leaks and nothing is forgotten.
EventuallyFreed ==
    \A t \in Timers :
        (mem[t] = "live" /\ (~interval[t] \/ ~opaque[t])) ~> (mem[t] = "freed")

-----------------------------------------------------------------------------
(* The timer service this implements.                                      *)

Promised(t) ==
    CASE mem[t] = "unused"           -> "unset"
      [] opaque[t] /\ callback # t   -> "waiting"
      [] opaque[t] /\ callback = t   -> "running"
      [] mem[t] # "unused" /\ ~opaque[t] /\ callback = t -> "ending"
      [] OTHER                       -> "over"

Service == INSTANCE TimerService
              WITH phase    <- [t \in Timers |-> Promised(t)],
                   periodic <- interval

\* Timers behave as TimerService says: a cleared timer never runs again, a
\* timeout runs at most once, callbacks never overlap.
ImplementsTimerService == Service!Spec
=============================================================================
