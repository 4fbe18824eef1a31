-------------------------------- MODULE Timer --------------------------------
(***************************************************************************)
(* Timer (src/src/timer.cpp).  A timer is its m_pTimer: NULL, idle, active *)
(* or, after start() on NULL, crashed.                                     *)
(***************************************************************************)
CONSTANT NULL

NewTimer == "idle"

TimerState == {NULL, "idle", "active", "crashed"}

\* uv_timer_start and uv_timer_stop do not look at the pointer.
start(t) == IF t = NULL THEN "crashed" ELSE "active"

stop(t) == IF t = NULL THEN "crashed" ELSE "idle"

\* close() and the destructor: uv_close stops the timer.
close(t) == NULL

\* The handler is called at the next turn of the loop and at every interval.
Due(t) == t = "active"
=============================================================================
