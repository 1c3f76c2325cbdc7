---------------------------- MODULE TimerService ----------------------------
(***************************************************************************)
(* What setTimeout, setInterval, clearTimeout and clearInterval promise to *)
(* a script, without the C structures, libuv handles or garbage collector  *)
(* behind them.  A timer waits, runs, and either waits again (an interval) *)
(* or is over; once over it never runs again.  At most one timer callback  *)
(* runs at a time.                                                         *)
(***************************************************************************)
CONSTANT Timers

VARIABLES
    phase,     \* phase[t]: what the script may still expect of timer t
    periodic   \* periodic[t]: t was made by setInterval

vars == <<phase, periodic>>

Phases == {"unset", "waiting", "running", "ending", "over"}

Init == /\ phase = [t \in Timers |-> "unset"]
        /\ periodic = [t \in Timers |-> FALSE]

Moves(t, to) == phase' = [phase EXCEPT ![t] = to]

Set(t, p) == /\ phase[t] = "unset"
             /\ Moves(t, "waiting")
             /\ periodic' = [periodic EXCEPT ![t] = p]

Cancel(t) == /\ \/ phase[t] = "waiting" /\ Moves(t, "over")
                \/ phase[t] = "running" /\ Moves(t, "ending")
             /\ UNCHANGED periodic

Begin(t) == /\ phase[t] = "waiting"
            /\ \A u \in Timers : phase[u] \notin {"running", "ending"}
            /\ Moves(t, "running")
            /\ UNCHANGED periodic

End(t) == /\ \/ phase[t] = "running" /\ periodic[t] /\ Moves(t, "waiting")
             \/ phase[t] = "running" /\ ~periodic[t] /\ Moves(t, "over")
             \/ phase[t] = "ending" /\ Moves(t, "over")
          /\ UNCHANGED periodic

Next == \E t \in Timers : \/ \E p \in BOOLEAN : Set(t, p)
                          \/ Cancel(t)
                          \/ Begin(t)
                          \/ End(t)

Spec == Init /\ [][Next]_vars
=============================================================================
