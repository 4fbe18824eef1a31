------------------------------- MODULE UvTcp -------------------------------
(***************************************************************************)
(* External: the part of libuv's stream API that TcpLink relies on.  libuv *)
(* is vendored as a library (src/3rd); what is written here is how src/    *)
(* uses it.  The operators transform a record `s' that has at least        *)
(*   tcp     : what each uv_tcp_t is doing,                                *)
(*   reading : the handles uv_read_start was called on,                    *)
(*   pending : the uv_write requests of a handle whose callback is due,    *)
(*   crashed : the process died (NULL dereference, assertion of uv_close). *)
(*                                                                         *)
(* State of a handle:                                                      *)
(*   none        not allocated           connecting  connect request out   *)
(*   nofd        uv_tcp_init, no socket  open        connected             *)
(*   failed      socket, connect failed  eof         reading stopped by an *)
(*   closing     uv_close called                     error or by EOF       *)
(*   cancelling  uv_close called with the connect request still out        *)
(***************************************************************************)
EXTENDS Naturals, FiniteSets

CONSTANTS Handles,     \* the uv_tcp_t objects the process can have at a time
          NULL

ASSUME HandlesAssumption == NULL \notin Handles /\ IsFiniteSet(Handles)

HandleState == {"none", "nofd", "failed", "connecting", "open", "eof",
                "closing", "cancelling"}

Closing == {"closing", "cancelling"}

\* What uv_tcp_connect can leave behind: no socket (EMFILE), a socket whose
\* connect failed at once (ENETUNREACH), or a request in flight.
ConnectOutcome == {"nofd", "failed", "connecting"}

uv_tcp_connect(s, h, outcome) == [s EXCEPT !.tcp[h] = outcome]

\* NULL is dereferenced; a handle that is closing (EINVAL) or has no socket
\* (ENOTCONN) is refused.
uv_read_start(s, h) ==
    IF h = NULL THEN [s EXCEPT !.crashed = TRUE]
    ELSE IF s.tcp[h] \in Closing \cup {"nofd"} THEN s
    ELSE [s EXCEPT !.reading = @ \cup {h}]

\* The callback of a write is always deferred; without a socket: EBADF.
uv_write(s, h) ==
    IF s.tcp[h] = "nofd" THEN s ELSE [s EXCEPT !.pending[h] = @ + 1]

\* Closing a handle twice trips an assertion.  The callbacks of the handle's
\* outstanding requests come later, with ECANCELED.
uv_close(s, h) ==
    IF s.tcp[h] \in Closing THEN [s EXCEPT !.crashed = TRUE]
    ELSE [s EXCEPT !.tcp[h] = IF @ = "connecting" THEN "cancelling" ELSE "closing",
                   !.reading = @ \ {h}]

uv_read_stop(s, h) == [s EXCEPT !.tcp[h] = "eof", !.reading = @ \ {h}]

FreeHandles(s) == {h \in Handles : s.tcp[h] = "none"}
=============================================================================
