------------------------------- MODULE TcpLink -------------------------------
(***************************************************************************)
(* The life of one TcpLink (src/src/tcplink.cpp): a client link, which     *)
(* connects and reconnects by itself, or a peer link, which a TcpServer    *)
(* made from an accepted connection.  Received bytes are in TcpBuffer.     *)
(*                                                                         *)
(* The code runs on one thread.  A callback of libuv runs to its end, with *)
(* the calls the application makes inside it, so each is one action; what  *)
(* interleaves is the order of callbacks, timers and calls.  The methods   *)
(* call each other, so each is an operator on the record `link' and an     *)
(* action applies the one libuv or the application calls.                  *)
(***************************************************************************)
EXTENDS UvTcp

CONSTANTS
    PeerLink,          \* m_bPeerLink: made by the server from a connection
    ConnectReactions,  \* what the handler may do inside on_connected
    Reactions,         \* what it may do inside on_data and on_close
    MayReconnect,      \* the application calls connect() again after close()
    SyncErrors,        \* uv_tcp_connect may fail before it returns
    WriteErrors,       \* a write may fail on a handle that is not closed
    MaxPending,        \* bound: writes in flight on one handle
    MaxFaults          \* bound: network failures in a behaviour

ASSUME TcpLinkAssumption ==
    /\ PeerLink \in BOOLEAN /\ MayReconnect \in BOOLEAN
    /\ SyncErrors \in BOOLEAN /\ WriteErrors \in BOOLEAN
    /\ ConnectReactions \subseteq {"none", "send", "close"}
    /\ Reactions \subseteq {"none", "send", "close"}
    /\ MaxPending \in Nat /\ MaxFaults \in Nat

VARIABLES
    link,    \* the fields of the object and of its libuv handles
    app,     \* what the application asked for last: idle, open, closed
    dirty,   \* writes were in flight when the application called close()
    told,    \* the last on_connected / on_close the handler got: none, up, down
    faults,  \* network failures so far
    refused  \* a uv_tcp_connect failed before it returned

vars == <<link, app, dirty, told, faults, refused>>

LinkState == [pTcp : Handles \cup {NULL}, connected : BOOLEAN,
              connecting : BOOLEAN, timer : BOOLEAN,
              tcp : [Handles -> HandleState], reading : SUBSET Handles,
              pending : [Handles -> Nat], crashed : BOOLEAN]

\* A peer link has no timer and no connect request: it never comes back.
TypeOK ==
    /\ link \in LinkState
    /\ PeerLink => ~link.timer /\ ~link.connecting
    /\ app \in {"idle", "open", "closed"}
    /\ dirty \in BOOLEAN
    /\ told \in {"none", "up", "down"}
    /\ faults \in 0..MaxFaults /\ refused \in BOOLEAN

\* A client link before connect(), and a peer link on its accepted connection.
Blank == [pTcp |-> NULL, connected |-> FALSE, connecting |-> FALSE,
          timer |-> FALSE, tcp |-> [h \in Handles |-> "none"], reading |-> {},
          pending |-> [h \in Handles |-> 0], crashed |-> FALSE]

Accepted(h) == uv_read_start([Blank EXCEPT !.pTcp = h, !.connected = TRUE,
                                           !.tcp[h] = "open"], h)

Init ==
    /\ IF PeerLink
       THEN \E h \in Handles : link = Accepted(h) /\ app = "open" /\ told = "up"
       ELSE link = Blank /\ app = "idle" /\ told = "none"
    /\ dirty = FALSE
    /\ faults = 0 /\ refused = FALSE

-----------------------------------------------------------------------------
(* The methods.                                                            *)

\* The handle of an earlier connection is overwritten, not closed; when
\* uv_tcp_connect fails at once the timer is not started.
connect(s, h, outcome) ==
    LET t == uv_tcp_connect([s EXCEPT !.pTcp = h, !.connecting = TRUE,
                                      !.connected = FALSE], h, outcome)
    IN  IF outcome = "connecting" THEN [t EXCEPT !.timer = TRUE] ELSE t

send(s) ==
    IF s.pTcp = NULL \/ s.connecting \/ ~s.connected THEN s
    ELSE uv_write(s, s.pTcp)

CanSend(s) == s.pTcp # NULL => s.pending[s.pTcp] < MaxPending

\* Mutants: m_pTcp is not cleared; the timer is not stopped.
closeTcp_Dangling(s) ==
    [(IF s.pTcp = NULL THEN s ELSE uv_close(s, s.pTcp))
        EXCEPT !.connected = FALSE, !.timer = FALSE]

closeTcp_TimerRuns(s) ==
    [(IF s.pTcp = NULL THEN s ELSE uv_close(s, s.pTcp))
        EXCEPT !.connected = FALSE, !.pTcp = NULL]

closeTcp(s) ==
    LET t == [s EXCEPT !.connected = FALSE]
        u == IF s.pTcp = NULL THEN t
             ELSE [uv_close(t, s.pTcp) EXCEPT !.pTcp = NULL]
    IN  [u EXCEPT !.timer = FALSE]

close(s) == closeTcp(s)

\* A handler that calls the link back from inside a callback.
react(s, r) ==
    CASE r = "none"  -> s
      [] r = "send"  -> send(s)
      [] r = "close" -> close(s)

\* Mutant: no uv_close.
closeError_Leaks(s, r) == [react(s, r) EXCEPT !.connected = FALSE, !.timer = FALSE]

\* on_close is called before the link is marked closed.
closeError(s, r) == closeTcp(react(s, r))

\* Mutant: the timer is not stopped.
on_connect_ok_TimerRuns(s, r) ==
    LET t == react([s EXCEPT !.connecting = FALSE, !.connected = TRUE], r)
    IN  uv_read_start(t, t.pTcp)

on_connect_ok(s, r) ==
    LET t == react([s EXCEPT !.connecting = FALSE, !.connected = TRUE], r)
    IN  uv_read_start([t EXCEPT !.timer = FALSE], t.pTcp)

on_connect_failed(s) == [s EXCEPT !.connecting = FALSE, !.connected = FALSE]

\* Mutants: the timer is not started; the handle is closed and kept in m_pTcp.
on_read_failed_NoTimer(s, r) ==
    IF PeerLink THEN closeError(s, r) ELSE [s EXCEPT !.connected = FALSE]

on_read_failed_Closes(s, r) ==
    IF PeerLink THEN closeError(s, r)
    ELSE [uv_close(s, s.pTcp) EXCEPT !.connected = FALSE, !.timer = TRUE]

on_read_failed(s, r) ==
    IF PeerLink THEN closeError(s, r)
    ELSE [s EXCEPT !.connected = FALSE, !.timer = TRUE]

\* Mutants: the handle is not closed; the timer is not started, or for a peer
\* link too; the link reconnects at once.
on_write_failed_NotClosed(s) == [s EXCEPT !.connected = FALSE, !.timer = ~PeerLink]
on_write_failed_NoTimer(s) == close(s)
on_write_failed_AnyLink(s) == [close(s) EXCEPT !.timer = TRUE]
on_write_failed_AtOnce(s) ==
    connect(close(s), CHOOSE h \in FreeHandles(s) : TRUE, "connecting")

on_write_failed(s) ==
    IF PeerLink THEN close(s) ELSE [close(s) EXCEPT !.timer = TRUE]

\* The write queue of a handle is flushed: on_write(ECANCELED) for each.
flush(s, h) ==
    IF s.pending[h] = 0 THEN s
    ELSE on_write_failed([s EXCEPT !.pending[h] = 0])

-----------------------------------------------------------------------------
(* The application.                                                        *)

Unsent(s) == \E h \in Handles : s.pending[h] > 0

\* The application's side of a callback in which the handler did r.
Handler(r) ==
    /\ r = "send" => CanSend(link)
    /\ app' = IF r = "close" THEN "closed" ELSE app
    /\ dirty' = IF r = "close" THEN Unsent(link) ELSE dirty

Fault == faults < MaxFaults /\ faults' = faults + 1

\* What a uv_tcp_connect made of the request at once.
Attempted(outcome) ==
    /\ IF outcome = "connecting" THEN UNCHANGED faults ELSE SyncErrors /\ Fault
    /\ refused' = (refused \/ outcome # "connecting")

Connect ==
    /\ ~PeerLink
    /\ app = "idle" \/ (MayReconnect /\ app = "closed")
    /\ \E h \in FreeHandles(link), outcome \in ConnectOutcome :
         /\ link' = connect(link, h, outcome)
         /\ Attempted(outcome)
    /\ app' = "open"
    /\ UNCHANGED <<dirty, told>>

Send ==
    /\ app = "open"
    /\ CanSend(link)
    /\ link' = send(link)
    /\ UNCHANGED <<app, dirty, told, faults, refused>>

Close ==
    /\ app # "idle"
    /\ link' = close(link)
    /\ app' = "closed"
    /\ dirty' = Unsent(link)
    /\ UNCHANGED <<told, faults, refused>>

-----------------------------------------------------------------------------
(* The callbacks of libuv.                                                 *)

OnConnectOk(h) ==
    /\ link.tcp[h] = "connecting"
    /\ \E r \in ConnectReactions :
         /\ Handler(r)
         /\ link' = on_connect_ok([link EXCEPT !.tcp[h] = "open"], r)
    /\ told' = "up"
    /\ UNCHANGED <<faults, refused>>

OnConnectFail(h) ==
    /\ link.tcp[h] = "connecting"
    /\ Fault
    /\ link' = flush(on_connect_failed([link EXCEPT !.tcp[h] = "failed"]), h)
    /\ UNCHANGED <<app, dirty, told, refused>>

OnReadData(h) ==
    /\ h \in link.reading
    /\ link.tcp[h] = "open"
    /\ \E r \in Reactions : Handler(r) /\ link' = react(link, r)
    /\ UNCHANGED <<told, faults, refused>>

\* The last the handler hears when a read fails: closeError calls on_close, a
\* client link starts its timer without a word.
HearsOfLoss == IF PeerLink THEN "down" ELSE told

OnReadError(h) ==
    /\ h \in link.reading
    /\ link.tcp[h] \in {"open", "failed"}
    /\ Fault
    /\ \E r \in (IF PeerLink THEN Reactions ELSE {"none"}) :
         /\ Handler(r)
         /\ link' = on_read_failed(uv_read_stop(link, h), r)
    /\ told' = HearsOfLoss
    /\ UNCHANGED refused

OnWriteOk(h) ==
    /\ link.pending[h] > 0
    /\ link.tcp[h] \in {"open", "eof"}
    /\ link' = [link EXCEPT !.pending[h] = @ - 1]
    /\ UNCHANGED <<app, dirty, told, faults, refused>>

OnWriteFail(h) ==
    /\ WriteErrors
    /\ link.pending[h] > 0
    /\ link.tcp[h] \in {"open", "eof", "failed"}
    /\ Fault
    /\ link' = on_write_failed([link EXCEPT !.pending[h] = @ - 1])
    /\ UNCHANGED <<app, dirty, told, refused>>

\* Mutant: m_bConnecting is not looked at.
OnTimer_WhileConnecting ==
    /\ link.timer /\ ~link.connected
    /\ \A h \in Handles : link.tcp[h] \notin Closing
    /\ \E h \in FreeHandles(link) : link' = connect(link, h, "connecting")
    /\ UNCHANGED <<app, dirty, told, faults, refused>>

\* The timer is due a second after it was started.  A handle is closing only
\* until the end of its iteration of the loop, and every uv_close of the code
\* comes with the timer stopped or started anew, so none is closing by then.
OnTimer ==
    /\ link.timer
    /\ \A h \in Handles : link.tcp[h] \notin Closing
    /\ IF link.connected \/ link.connecting
       THEN UNCHANGED <<link, faults, refused>>
       ELSE \E h \in FreeHandles(link), outcome \in ConnectOutcome :
              link' = connect(link, h, outcome) /\ Attempted(outcome)
    /\ UNCHANGED <<app, dirty, told>>

\* The end of the loop's iteration: the outstanding requests of a closed
\* handle are called back with ECANCELED, the connect request first.
FinishClose(h) ==
    /\ link.tcp[h] \in Closing
    /\ LET s == [link EXCEPT !.tcp[h] = "none"]
       IN  link' = flush(IF link.tcp[h] = "cancelling" THEN on_connect_failed(s) ELSE s, h)
    /\ UNCHANGED <<app, dirty, told, faults, refused>>

-----------------------------------------------------------------------------
User == Connect \/ Send \/ Close

Loop(h) ==
    \/ OnConnectOk(h) \/ OnConnectFail(h)
    \/ OnReadData(h)  \/ OnReadError(h)
    \/ OnWriteOk(h)   \/ OnWriteFail(h)
    \/ FinishClose(h)

Next == ~link.crashed /\ (User \/ OnTimer \/ \E h \in Handles : Loop(h))

Spec == Init /\ [][Next]_vars

\* The loop keeps running: a connect request ends, a timer that is due fires
\* and a handle that is closing is closed.  The application owes nothing.
Fairness ==
    /\ WF_vars(~link.crashed /\ OnTimer)
    /\ \A h \in Handles :
         /\ WF_vars(~link.crashed /\ (OnConnectOk(h) \/ OnConnectFail(h)))
         /\ WF_vars(~link.crashed /\ FinishClose(h))

FairSpec == Spec /\ Fairness

-----------------------------------------------------------------------------
(* Properties.  See the README for the runs that check them.               *)

Orphans == {h \in Handles : h # link.pTcp /\ link.tcp[h] \notin Closing \cup {"none"}}

\* The link never dereferences a NULL m_pTcp in uv_read_start and never calls
\* uv_close twice on a handle: m_pTcp is cleared by every close.
NoCrash == ~link.crashed

\* m_pTcp never dangles: while it is set its handle is allocated and not closing,
\* so a later close() of the user or of an error path may call uv_close on it.
CurrentIsLive ==
    link.pTcp # NULL => link.tcp[link.pTcp] \notin Closing \cup {"none"}

\* Only the current connection is read, and only while the link says it is
\* connected: no on_data of a connection that was closed, lost or replaced.
ReadingIsCurrent ==
    \A h \in link.reading : h = link.pTcp /\ link.connected

\* m_bConnected tells the truth: m_pTcp is an open connection that is read,
\* and the reconnect timer is off.
ConnectedIsOpen ==
    link.connected => /\ link.pTcp # NULL
                      /\ link.tcp[link.pTcp] = "open"
                      /\ link.pTcp \in link.reading
                      /\ ~link.timer

\* At most one connect request is out, m_bConnecting says so, and it is either
\* the request of m_pTcp or the cancelled one of a handle that was just closed.
OneAttempt ==
    /\ \A h, g \in Handles : {link.tcp[h], link.tcp[g]} \subseteq {"connecting", "cancelling"}
                              => h = g
    /\ \A h \in Handles : link.tcp[h] \in {"connecting", "cancelling"} => link.connecting
    /\ \A h \in Handles : link.tcp[h] = "connecting" => h = link.pTcp

\* The comment "start a timer to check connected!!!" (tcplink.cpp:124): a link the
\* user opened and did not close is connected or its timer is running.  After a
\* uv_tcp_connect that failed at once nothing is: connect() returns with
\* m_bConnecting set and the timer not started (tcplink.cpp:119).
ReconnectArmed == app = "open" => link.connected \/ link.timer \/ refused

\* Every reconnect abandons the handle of the connection before it: the handles
\* that nobody will ever close are at most as many as the failures.
OrphansBounded == Cardinality(Orphans) <= faults

\* Once the failures stop, an open client link gets connected, whatever was lost or
\* cancelled before, and whatever connect requests failed, but for those that failed
\* at once.
Recovers == app = "open" ~> link.connected \/ app = "closed" \/ refused

\* A closed link lets go of everything: the handle is closed, no connect request
\* or read goes on and the timer is off, unless writes were in flight when the
\* user closed it (their ECANCELED restarts the timer).
CloseIsFinal ==
    app = "closed" /\ ~dirty => /\ link.pTcp = NULL /\ ~link.connected
                                /\ ~link.timer /\ link.reading = {}

\* An established connection is given up only because some connection failed
\* or because the user closes the link: never because a handle that was closed
\* earlier comes to its end and has its writes cancelled.
LossHasCause ==
    [][(\E h \in Handles : link.tcp[h] = "open" /\ link'.tcp[h] # "open")
         => \/ faults' > faults
            \/ /\ app' = "closed"
               /\ \A h \in Handles : link.tcp[h] \in Closing => link'.tcp[h] = link.tcp[h]]_vars

\* A peer link that is not connected any more holds no handle, so no descriptor,
\* besides those that are closing: a server does not leak its connections.
PeerReleases == ~link.connected => link.pTcp = NULL /\ Orphans = {}

\* include/isnet.h:56: the handler is the "callback to app when data come, link
\* connected or link closed".  A peer link that its application still uses and
\* that lost its connection has said so.
LossIsTold == PeerLink /\ app = "open" /\ ~link.connected => told = "down"

\* The link as the application sees it.
Phase ==
    CASE app = "idle" -> "idle"
      [] app # "idle" /\ link.connected -> "up"
      [] app = "closed" /\ ~link.connected /\ (link.pTcp = NULL /\ ~link.timer) -> "closed"
      [] OTHER -> IF PeerLink THEN "gone" ELSE "trying"

Session == INSTANCE LinkSession WITH phase <- Phase, Reconnects <- ~PeerLink

\* The link implements LinkSession: callbacks come in its order, a link the user
\* closed is revived only by writes in flight, a peer link that is lost has called
\* on_close and stays lost.  For a peer link that takes WriteErrors = FALSE, and is
\* proved (LinkImplementsSession): the loss that on_write finds is not told (LossIsTold).
Implements == Session!Spec
=============================================================================
