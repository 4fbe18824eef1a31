--------------------------- MODULE TcpLinkProofs ---------------------------
(***************************************************************************)
(* Theorems about TcpLink, for every set of handles and every bound.       *)
(*                                                                         *)
(* The first part needs no assumption on the application: every method of  *)
(* the link maps a record whose m_pTcp is live to one whose m_pTcp is live *)
(* (Live), one lemma per method, so every callback does.  The second part  *)
(* adds what holds between two callbacks when the application is plain in  *)
(* its use (PlainUse): Sound.  A method called in the middle of another    *)
(* one may find the link half updated: Closable is what is left of Sound   *)
(* then, and what closeTcp needs.                                          *)
(***************************************************************************)
EXTENDS TcpLink, FiniteSetTheorems, TLAPS

\* The object is well typed and m_pTcp does not dangle.
Live(s) ==
    /\ s \in LinkState
    /\ s.pTcp # NULL => s.tcp[s.pTcp] \notin Closing \cup {"none"}

\* uv_close on a handle that is not closing touches that handle only.
LEMMA UvClose ==
    ASSUME NEW s \in LinkState, NEW h \in Handles, s.tcp[h] \notin Closing
    PROVE  LET t == uv_close(s, h)
           IN  /\ t \in LinkState
               /\ t.tcp = [s.tcp EXCEPT ![h] = IF @ = "connecting" THEN "cancelling" ELSE "closing"]
               /\ t.reading = s.reading \ {h}
               /\ t.pTcp = s.pTcp /\ t.connected = s.connected /\ t.connecting = s.connecting
               /\ t.timer = s.timer /\ t.pending = s.pending /\ t.crashed = s.crashed
BY DEF uv_close, LinkState, HandleState, Closing

\* t is s after closeTcp.
ClosedFrom(s, t) ==
    /\ t \in LinkState
    /\ t.pTcp = NULL /\ t.connected = FALSE /\ t.connecting = s.connecting
    /\ t.timer = FALSE /\ t.pending = s.pending /\ t.crashed = s.crashed
    /\ t.reading = s.reading \ {s.pTcp}
    /\ s.pTcp # NULL => t.tcp = [s.tcp EXCEPT ![s.pTcp] = IF @ = "connecting" THEN "cancelling" ELSE "closing"]
    /\ s.pTcp = NULL => t.tcp = s.tcp

\* t is s but for the requests that are pending.
Queued(s, t) ==
    /\ t \in LinkState
    /\ t.pTcp = s.pTcp /\ t.connected = s.connected /\ t.connecting = s.connecting
    /\ t.timer = s.timer /\ t.tcp = s.tcp /\ t.reading = s.reading
    /\ t.crashed = s.crashed

\* closeTcp of a live link never closes a handle twice, and leaves no m_pTcp.
LEMMA CloseTcp ==
    ASSUME NEW s, Live(s)
    PROVE  ClosedFrom(s, closeTcp(s))
<1> DEFINE c == [s EXCEPT !.connected = FALSE]
           u == uv_close(c, s.pTcp)
<1>1. /\ s \in LinkState /\ c \in LinkState /\ c.connected = FALSE
      /\ c.tcp = s.tcp /\ c.reading = s.reading
      /\ c.pTcp = s.pTcp /\ c.connecting = s.connecting
      /\ c.timer = s.timer /\ c.pending = s.pending /\ c.crashed = s.crashed
  BY DEF Live, LinkState
<1>2. CASE s.pTcp = NULL
  <2>1. closeTcp(s) = [c EXCEPT !.timer = FALSE]
    BY <1>2 DEF closeTcp
  <2> HIDE DEF c
  <2>2. s.reading = s.reading \ {NULL}
    BY <1>1, HandlesAssumption DEF LinkState
  <2>3. /\ closeTcp(s) \in LinkState /\ closeTcp(s).timer = FALSE
        /\ closeTcp(s).tcp = s.tcp /\ closeTcp(s).reading = s.reading
        /\ closeTcp(s).pTcp = NULL /\ closeTcp(s).connecting = s.connecting
        /\ closeTcp(s).connected = FALSE
        /\ closeTcp(s).pending = s.pending /\ closeTcp(s).crashed = s.crashed
    BY <1>1, <1>2, <2>1 DEF LinkState
  <2> QED BY <1>2, <2>2, <2>3 DEF ClosedFrom
<1>3. CASE s.pTcp # NULL
  <2>1. closeTcp(s) = [[u EXCEPT !.pTcp = NULL] EXCEPT !.timer = FALSE]
    BY <1>3 DEF closeTcp
  <2>2. s.pTcp \in Handles /\ s.tcp[s.pTcp] \notin Closing
    BY <1>3 DEF Live, LinkState
  <2> HIDE DEF c
  <2>3. /\ u \in LinkState
        /\ u.tcp = [c.tcp EXCEPT ![s.pTcp] = IF @ = "connecting" THEN "cancelling" ELSE "closing"]
        /\ u.reading = c.reading \ {s.pTcp}
        /\ u.pTcp = c.pTcp /\ u.connected = c.connected /\ u.connecting = c.connecting
        /\ u.timer = c.timer /\ u.pending = c.pending /\ u.crashed = c.crashed
    BY <1>1, <2>2, UvClose
  <2> HIDE DEF u
  <2> QED BY <1>1, <1>3, <2>1, <2>3 DEF LinkState, ClosedFrom
<1> QED BY <1>2, <1>3

\* A change of one handle's write queue.
LEMMA SetPending ==
    ASSUME NEW s \in LinkState, NEW h \in Handles, NEW n \in Nat
    PROVE  Queued(s, [s EXCEPT !.pending[h] = n])
BY DEF LinkState, Queued
\* send() adds a request to a write queue, or does nothing.
LEMMA SendQueues ==
    ASSUME NEW s \in LinkState
    PROVE  Queued(s, send(s))
<1> DEFINE ready == s.pTcp # NULL /\ s.tcp[s.pTcp] # "nofd" /\ ~s.connecting /\ s.connected
<1>1. CASE ready
  <2>1. s.pTcp \in Handles /\ s.pending[s.pTcp] + 1 \in Nat
    BY <1>1 DEF LinkState
  <2>2. send(s) = [s EXCEPT !.pending[s.pTcp] = s.pending[s.pTcp] + 1]
    BY <1>1 DEF send, uv_write
  <2> QED BY <2>1, <2>2, SetPending
<1>2. CASE ~ready
  <2>1. send(s) = s
    BY <1>2 DEF send, uv_write
  <2> QED BY <2>1 DEF Queued
<1> QED BY <1>1, <1>2

\* A closed link is live.
LEMMA ClosedIsLive ==
    ASSUME NEW s, Live(s), NEW t, ClosedFrom(s, t)
    PROVE  Live(t)
BY DEF Live, ClosedFrom

\* A link is live whatever its write queues hold.
LEMMA QueuedIsLive ==
    ASSUME NEW s, Live(s), NEW t, Queued(s, t)
    PROVE  Live(t)
BY DEF Live, Queued

\* A handler that calls back sends or closes.
LEMMA React ==
    ASSUME NEW s, Live(s), NEW r \in {"none", "send", "close"}
    PROVE  /\ Live(react(s, r))
           /\ r = "close" => ClosedFrom(s, react(s, r))
           /\ r # "close" => Queued(s, react(s, r))
<1>1. CASE r = "none"
  <2>1. react(s, r) = s
    BY <1>1 DEF react
  <2> QED BY <1>1, <2>1 DEF Live, Queued
<1>2. CASE r = "send"
  <2>1. react(s, r) = send(s)
    BY <1>2 DEF react
  <2>2. s \in LinkState
    BY DEF Live
  <2>3. Queued(s, send(s))
    BY <2>2, SendQueues
  <2> QED BY <1>2, <2>1, <2>3, QueuedIsLive
<1>3. CASE r = "close"
  <2>1. react(s, r) = closeTcp(s)
    BY <1>3 DEF react, close
  <2> QED BY <1>3, <2>1, CloseTcp, ClosedIsLive
<1> QED BY <1>1, <1>2, <1>3

\* uv_read_start crashes on NULL only, and reads an open handle.
LEMMA ReadStart ==
    ASSUME NEW s \in LinkState, NEW h \in Handles \cup {NULL}
    PROVE  LET t == uv_read_start(s, h)
           IN  /\ t \in LinkState
               /\ t.pTcp = s.pTcp /\ t.connected = s.connected
               /\ t.connecting = s.connecting /\ t.timer = s.timer
               /\ t.tcp = s.tcp /\ t.pending = s.pending
               /\ h # NULL => t.crashed = s.crashed
               /\ h # NULL /\ s.tcp[h] = "open" => t.reading = s.reading \cup {h}
BY DEF uv_read_start, LinkState, Closing

\* A change of one handle's state.
LEMMA SetTcp ==
    ASSUME NEW s \in LinkState, NEW h \in Handles, NEW x \in HandleState
    PROVE  LET t == [s EXCEPT !.tcp[h] = x]
           IN  /\ t \in LinkState /\ t.tcp = [s.tcp EXCEPT ![h] = x]
               /\ t.pTcp = s.pTcp /\ t.connected = s.connected
               /\ t.connecting = s.connecting /\ t.timer = s.timer
               /\ t.reading = s.reading /\ t.pending = s.pending
               /\ t.crashed = s.crashed
BY DEF LinkState

\* connect() replaces m_pTcp and, with a request out, starts the timer.
LEMMA ConnectLive ==
    ASSUME NEW s, Live(s), NEW h \in Handles, NEW outcome \in ConnectOutcome
    PROVE  LET t == connect(s, h, outcome)
           IN  /\ Live(t)
               /\ t.pTcp = h /\ t.connected = FALSE /\ t.connecting = TRUE
               /\ t.tcp = [s.tcp EXCEPT ![h] = outcome]
               /\ t.reading = s.reading /\ t.pending = s.pending
               /\ t.crashed = s.crashed
               /\ outcome = "connecting" => t.timer = TRUE
<1> DEFINE c == [s EXCEPT !.pTcp = h, !.connecting = TRUE, !.connected = FALSE]
           u == [c EXCEPT !.tcp[h] = outcome]
<1>1. /\ c \in LinkState /\ c.pTcp = h /\ c.connecting = TRUE /\ c.connected = FALSE
      /\ c.tcp = s.tcp /\ c.reading = s.reading /\ c.pending = s.pending
      /\ c.crashed = s.crashed
  BY DEF Live, LinkState
<1>2. outcome \in HandleState /\ outcome \notin Closing \cup {"none"} /\ h # NULL
  BY HandlesAssumption DEF ConnectOutcome, HandleState, Closing
<1>3. connect(s, h, outcome) = IF outcome = "connecting" THEN [u EXCEPT !.timer = TRUE] ELSE u
  BY DEF connect, uv_tcp_connect
<1> HIDE DEF c
<1>4. /\ u \in LinkState /\ u.tcp = [c.tcp EXCEPT ![h] = outcome]
      /\ u.pTcp = c.pTcp /\ u.connected = c.connected
      /\ u.connecting = c.connecting /\ u.timer = c.timer
      /\ u.reading = c.reading /\ u.pending = c.pending
      /\ u.crashed = c.crashed
  BY <1>1, <1>2, SetTcp
<1> HIDE DEF u
<1>5. u.tcp[h] = outcome
  BY <1>1, <1>4 DEF LinkState
<1>6. CASE outcome = "connecting"
  <2> DEFINE v == [u EXCEPT !.timer = TRUE]
  <2>1. /\ v \in LinkState /\ v.timer = TRUE /\ v.tcp = u.tcp /\ v.pTcp = u.pTcp
        /\ v.connected = u.connected /\ v.connecting = u.connecting
        /\ v.reading = u.reading /\ v.pending = u.pending /\ v.crashed = u.crashed
    BY <1>4 DEF LinkState
  <2>2. connect(s, h, outcome) = v
    BY <1>3, <1>6
  <2> HIDE DEF v
  <2> QED BY <1>1, <1>2, <1>4, <1>5, <2>1, <2>2 DEF Live
<1>7. CASE outcome # "connecting"
  BY <1>1, <1>2, <1>3, <1>4, <1>5, <1>7 DEF Live
<1> QED BY <1>6, <1>7

\* on_connect(0) keeps m_pTcp live and starts to read it.
LEMMA ConnectOkLive ==
    ASSUME NEW s, Live(s), NEW r \in {"none", "send", "close"}
    PROVE  LET t == on_connect_ok(s, r)
           IN  /\ Live(t)
               /\ r # "close" =>
                    /\ t.pTcp = s.pTcp /\ t.tcp = s.tcp
                    /\ t.connected = TRUE /\ t.connecting = FALSE /\ t.timer = FALSE
                    /\ s.pTcp # NULL => t.crashed = s.crashed
                    /\ s.pTcp # NULL /\ s.tcp[s.pTcp] = "open"
                         => t.reading = s.reading \cup {s.pTcp}
<1> DEFINE c == [s EXCEPT !.connecting = FALSE, !.connected = TRUE]
           u == react(c, r)
           v == [u EXCEPT !.timer = FALSE]
<1>1. /\ Live(c) /\ c.pTcp = s.pTcp /\ c.connecting = FALSE /\ c.connected = TRUE
      /\ c.tcp = s.tcp /\ c.reading = s.reading /\ c.crashed = s.crashed
  BY DEF Live, LinkState
<1>2. on_connect_ok(s, r) = uv_read_start(v, u.pTcp)
  BY DEF on_connect_ok
<1> HIDE DEF c
<1>3. Live(u) /\ (r # "close" => Queued(c, u))
  BY <1>1, React
<1> HIDE DEF u
<1>4. /\ Live(v) /\ v.timer = FALSE /\ v.pTcp = u.pTcp /\ v.connecting = u.connecting
      /\ v.connected = u.connected
      /\ v.tcp = u.tcp /\ v.reading = u.reading /\ v.crashed = u.crashed
  BY <1>3 DEF Live, LinkState
<1> HIDE DEF v
<1> DEFINE t == uv_read_start(v, u.pTcp)
<1>5. v \in LinkState /\ u.pTcp \in Handles \cup {NULL}
  BY <1>3, <1>4 DEF Live, LinkState
<1>6. /\ t \in LinkState
      /\ t.pTcp = v.pTcp /\ t.connected = v.connected
      /\ t.connecting = v.connecting /\ t.timer = v.timer
      /\ t.tcp = v.tcp /\ t.pending = v.pending
      /\ u.pTcp # NULL => t.crashed = v.crashed
      /\ u.pTcp # NULL /\ v.tcp[u.pTcp] = "open" => t.reading = v.reading \cup {u.pTcp}
  BY <1>5, ReadStart
<1> HIDE DEF t
<1>7. Live(t)
  BY <1>4, <1>6 DEF Live
<1>8. ASSUME r # "close"
      PROVE  /\ u.pTcp = s.pTcp /\ u.tcp = s.tcp /\ u.connected = TRUE
             /\ u.connecting = FALSE /\ u.reading = s.reading /\ u.crashed = s.crashed
  BY <1>1, <1>3, <1>8 DEF Queued
<1> QED BY <1>2, <1>4, <1>6, <1>7, <1>8 DEF t

\* on_connect(error) clears the two flags.
LEMMA ConnectFailedLive ==
    ASSUME NEW s, Live(s)
    PROVE  LET t == on_connect_failed(s)
           IN  /\ Live(t) /\ t.connected = FALSE /\ t.connecting = FALSE
               /\ t.pTcp = s.pTcp /\ t.tcp = s.tcp /\ t.timer = s.timer
               /\ t.reading = s.reading /\ t.pending = s.pending /\ t.crashed = s.crashed
BY DEF on_connect_failed, Live, LinkState

\* closeError is a close, whatever the handler does in on_close.
LEMMA CloseErrorLive ==
    ASSUME NEW s, Live(s), NEW r \in {"none", "send", "close"}
    PROVE  Live(closeError(s, r)) /\ ClosedFrom(react(s, r), closeError(s, r))
BY React, CloseTcp, ClosedIsLive DEF closeError

\* The error path of on_read keeps m_pTcp live.
LEMMA ReadFailedLive ==
    ASSUME NEW s, Live(s), NEW r \in {"none", "send", "close"}
    PROVE  Live(on_read_failed(s, r))
<1>1. CASE PeerLink
  BY <1>1, CloseErrorLive DEF on_read_failed
<1>2. CASE ~PeerLink
  <2>1. on_read_failed(s, r) = [s EXCEPT !.connected = FALSE, !.timer = TRUE]
    BY <1>2 DEF on_read_failed
  <2> QED BY <2>1 DEF Live, LinkState
<1> QED BY <1>1, <1>2

\* The error path of on_write is a close, with the timer on for a client.
LEMMA WriteFailedLive ==
    ASSUME NEW s, Live(s)
    PROVE  LET t == on_write_failed(s)
           IN  /\ Live(t)
               /\ PeerLink => ClosedFrom(s, t)
               /\ ~PeerLink => ClosedFrom(s, [t EXCEPT !.timer = FALSE]) /\ t.timer = TRUE
<1> DEFINE c == closeTcp(s)
<1>1. ClosedFrom(s, c) /\ Live(c)
  BY CloseTcp, ClosedIsLive
<1>2. on_write_failed(s) = IF PeerLink THEN c ELSE [c EXCEPT !.timer = TRUE]
  BY DEF on_write_failed, close
<1> HIDE DEF c
<1>3. CASE PeerLink
  BY <1>1, <1>2, <1>3
<1>4. CASE ~PeerLink
  <2>1. [[c EXCEPT !.timer = TRUE] EXCEPT !.timer = FALSE] = c
    BY <1>1 DEF ClosedFrom, LinkState
  <2>2. Live([c EXCEPT !.timer = TRUE]) /\ [c EXCEPT !.timer = TRUE].timer = TRUE
    BY <1>1 DEF Live, LinkState
  <2> QED BY <1>1, <1>2, <1>4, <2>1, <2>2
<1> QED BY <1>3, <1>4

\* Flushing a write queue is nothing or the error path of on_write.
LEMMA FlushLive ==
    ASSUME NEW s, Live(s), NEW h \in Handles
    PROVE  /\ Live(flush(s, h))
           /\ s.pending[h] = 0 => flush(s, h) = s
           /\ s.pending[h] # 0 => \E q : /\ Queued(s, q) /\ Live(q)
                                         /\ flush(s, h) = on_write_failed(q)
<1>1. CASE s.pending[h] = 0
  BY <1>1 DEF flush
<1>2. CASE s.pending[h] # 0
  <2> DEFINE q == [s EXCEPT !.pending[h] = 0]
  <2>1. flush(s, h) = on_write_failed(q)
    BY <1>2 DEF flush
  <2>2. s \in LinkState /\ 0 \in Nat
    BY DEF Live
  <2>3. Queued(s, q)
    BY <2>2, SetPending
  <2> HIDE DEF q
  <2>4. Live(q)
    BY <2>3, QueuedIsLive
  <2>5. Live(on_write_failed(q))
    BY <2>4, WriteFailedLive
  <2> QED BY <1>2, <2>1, <2>3, <2>4, <2>5
<1> QED BY <1>1, <1>2

-----------------------------------------------------------------------------

\* TypeOK without what it says of peer links alone.
Typed ==
    /\ link \in LinkState
    /\ app \in {"idle", "open", "closed"}
    /\ dirty \in BOOLEAN
    /\ told \in {"none", "up", "down"}
    /\ faults \in 0..MaxFaults

\* The first invariant.
Correct == Typed /\ Live(link)

\* A new client link and an accepted peer link are well typed and live.
LEMMA InitCorrect == Init => Correct
<1> SUFFICES ASSUME Init PROVE Correct
  OBVIOUS
<1>1. Blank \in LinkState /\ Blank.pTcp = NULL
  BY DEF Blank, LinkState, HandleState
<1>2. ASSUME NEW h \in Handles PROVE Live(Accepted(h))
  <2> DEFINE a == [Blank EXCEPT !.pTcp = h, !.connected = TRUE, !.tcp[h] = "open"]
  <2>1. a \in LinkState /\ a.pTcp = h /\ a.tcp[h] = "open"
    BY DEF Blank, LinkState, HandleState
  <2>2. Accepted(h) = uv_read_start(a, h)
    BY DEF Accepted
  <2> HIDE DEF a
  <2> QED BY <2>1, <2>2, ReadStart DEF Live, Closing
<1>3. Live(link)
  BY <1>1, <1>2 DEF Init, Live
<1>4. /\ app \in {"idle", "open", "closed"} /\ told \in {"none", "up", "down"}
      /\ dirty \in BOOLEAN /\ faults \in 0..MaxFaults
  <2>1. app \in {"idle", "open", "closed"} /\ told \in {"none", "up", "down"}
    BY DEF Init
  <2>2. dirty \in BOOLEAN
    BY DEF Init
  <2>3. faults = 0
    BY DEF Init
  <2>4. faults \in 0..MaxFaults
    BY <2>3, TcpLinkAssumption
  <2> QED BY <2>1, <2>2, <2>4
<1> QED BY <1>3, <1>4 DEF Correct, Typed, Live

\* The count of failures stays in its bound.
LEMMA FaultTyped ==
    ASSUME faults \in 0..MaxFaults, Fault \/ UNCHANGED faults
    PROVE  faults' \in 0..MaxFaults
BY TcpLinkAssumption DEF Fault

\* A handler leaves the application's variables typed.
LEMMA HandlerTyped ==
    ASSUME Typed, NEW r, Handler(r)
    PROVE  app' \in {"idle", "open", "closed"} /\ dirty' \in BOOLEAN
BY DEF Handler, Typed, Unsent

\* The reactions are those react() knows.
LEMMA ReactionTyped ==
    ASSUME NEW r \in ConnectReactions \cup Reactions
    PROVE  r \in {"none", "send", "close"}
BY TcpLinkAssumption

\* Every callback and every call keeps the link typed and live.
LEMMA NextCorrect == Correct /\ [Next]_vars => Correct'
<1> SUFFICES ASSUME Correct, [Next]_vars PROVE Live(link)' /\ Typed'
  BY DEF Correct
<1> USE DEF Correct
<1>0. link \in LinkState
  BY DEF Live
<1>a. ASSUME NEW h \in Handles, NEW x \in HandleState \ (Closing \cup {"none"})
      PROVE  Live([link EXCEPT !.tcp[h] = x])
  <2> DEFINE t == [link EXCEPT !.tcp[h] = x]
  <2>1. t \in LinkState /\ t.tcp = [link.tcp EXCEPT ![h] = x] /\ t.pTcp = link.pTcp
    BY <1>0, SetTcp
  <2> HIDE DEF t
  <2>2. Live(t)
    BY <1>0, <2>1 DEF Live, LinkState
  <2> QED BY <2>2 DEF t
<1>b. ASSUME Live(link'), app' \in {"idle", "open", "closed"}, told' \in {"none", "up", "down"},
             dirty' \in BOOLEAN, Fault \/ UNCHANGED faults
      PROVE  Live(link)' /\ Typed'
  BY <1>b, FaultTyped DEF Live, Typed
<1>1. CASE Connect
  <2>1. PICK h \in Handles, outcome \in ConnectOutcome : link' = connect(link, h, outcome)
    BY <1>1 DEF Connect, FreeHandles
  <2>2. Live(link')
    BY <2>1, ConnectLive
  <2> QED BY <1>1, <1>b, <2>2 DEF Connect, Attempted, Typed
<1>2. CASE Send
  BY <1>0, <1>2, <1>b, SendQueues, QueuedIsLive DEF Send, Typed
<1>3. CASE Close
  BY <1>3, <1>b, CloseTcp, ClosedIsLive DEF Close, close, Unsent, Typed
<1>4. CASE OnTimer
  <2>1. Live(link')
    <3>1. CASE UNCHANGED link
      BY <3>1
    <3>2. CASE \E h \in Handles, outcome \in ConnectOutcome : link' = connect(link, h, outcome)
      <4>1. PICK h \in Handles, outcome \in ConnectOutcome : link' = connect(link, h, outcome)
        BY <3>2
      <4> QED BY <4>1, ConnectLive
    <3> QED BY <1>4, <3>1, <3>2 DEF OnTimer, FreeHandles
  <2> QED BY <1>4, <1>b, <2>1 DEF OnTimer, Attempted, Typed
<1>5. ASSUME NEW h \in Handles, OnConnectOk(h)
      PROVE  Live(link)' /\ Typed'
  <2>1. Live([link EXCEPT !.tcp[h] = "open"])
    BY <1>a DEF HandleState, Closing
  <2>2. PICK r \in {"none", "send", "close"} :
          Handler(r) /\ link' = on_connect_ok([link EXCEPT !.tcp[h] = "open"], r)
    BY <1>5, ReactionTyped DEF OnConnectOk
  <2>3. Live(link')
    BY <2>1, <2>2, ConnectOkLive
  <2> QED BY <1>5, <1>b, <2>2, <2>3, HandlerTyped DEF OnConnectOk
<1>6. ASSUME NEW h \in Handles, OnConnectFail(h)
      PROVE  Live(link)' /\ Typed'
  <2>1. Live([link EXCEPT !.tcp[h] = "failed"])
    BY <1>a DEF HandleState, Closing
  <2>2. Live(on_connect_failed([link EXCEPT !.tcp[h] = "failed"]))
    BY <2>1, ConnectFailedLive
  <2> QED BY <1>6, <1>b, <2>2, FlushLive DEF OnConnectFail, Typed
<1>7. ASSUME NEW h \in Handles, OnReadData(h)
      PROVE  Live(link)' /\ Typed'
  BY <1>7, <1>b, React, HandlerTyped, ReactionTyped DEF OnReadData, Typed
<1>8. ASSUME NEW h \in Handles, OnReadError(h)
      PROVE  Live(link)' /\ Typed'
  <2>1. PICK r \in {"none", "send", "close"} :
          Handler(r) /\ link' = on_read_failed(uv_read_stop(link, h), r)
    BY <1>8, ReactionTyped DEF OnReadError
  <2>2. Live(uv_read_stop(link, h))
    <3> DEFINE t == [link EXCEPT !.tcp[h] = "eof"]
    <3>1. Live(t)
      BY <1>a DEF HandleState, Closing
    <3>2. uv_read_stop(link, h) = [t EXCEPT !.reading = link.reading \ {h}]
      BY DEF uv_read_stop
    <3> HIDE DEF t
    <3> QED BY <1>0, <3>1, <3>2 DEF Live, LinkState
  <2>3. Live(link')
    BY <2>1, <2>2, ReadFailedLive
  <2> QED BY <1>8, <1>b, <2>1, <2>3, HandlerTyped DEF OnReadError, HearsOfLoss, Typed
<1>9. ASSUME NEW h \in Handles, OnWriteOk(h) \/ OnWriteFail(h)
      PROVE  Live(link)' /\ Typed'
  <2>1. link.pending[h] > 0 /\ link.pending[h] - 1 \in Nat
    BY <1>0, <1>9 DEF OnWriteOk, OnWriteFail, LinkState
  <2>2. Live([link EXCEPT !.pending[h] = link.pending[h] - 1])
    BY <1>0, <2>1, SetPending, QueuedIsLive
  <2>3. Live(link')
    BY <1>9, <2>2, WriteFailedLive DEF OnWriteOk, OnWriteFail
  <2> QED BY <1>9, <1>b, <2>3 DEF OnWriteOk, OnWriteFail, Typed
<1>10. ASSUME NEW h \in Handles, FinishClose(h)
       PROVE  Live(link)' /\ Typed'
  <2> DEFINE t == [link EXCEPT !.tcp[h] = "none"]
  <2>1. t \in LinkState /\ t.tcp = [link.tcp EXCEPT ![h] = "none"] /\ t.pTcp = link.pTcp
    BY <1>0, SetTcp DEF HandleState
  <2>2. link' = flush(IF link.tcp[h] = "cancelling" THEN on_connect_failed(t) ELSE t, h)
    BY <1>10 DEF FinishClose
  <2> HIDE DEF t
  <2>3. link.pTcp # h
    BY <1>10, HandlesAssumption DEF FinishClose, Live
  <2>4. Live(t)
    BY <1>0, <2>1, <2>3 DEF Live, LinkState
  <2>5. Live(link')
    BY <2>2, <2>4, ConnectFailedLive, FlushLive
  <2> QED BY <1>10, <1>b, <2>5 DEF FinishClose, Typed
<1>11. CASE UNCHANGED vars
  BY <1>11, <1>b DEF vars, Typed
<1> QED BY <1>1, <1>2, <1>3, <1>4, <1>5, <1>6, <1>7, <1>8, <1>9, <1>10, <1>11
        DEF Next, User, Loop

\* A peer link has no timer and no connect request, on no handle.
Passive(s) ==
    /\ ~s.timer /\ ~s.connecting
    /\ \A h \in Handles : s.tcp[h] \notin {"connecting", "cancelling"}

\* Closing the link and filling its write queues keep it so.
LEMMA ClosedIsPassive ==
    ASSUME NEW s, Live(s), Passive(s), NEW t, ClosedFrom(s, t) \/ Queued(s, t)
    PROVE  Passive(t)
<1>1. CASE ClosedFrom(s, t)
  <2>1. s.tcp \in [Handles -> HandleState] /\ s.pTcp \in Handles \cup {NULL}
    BY DEF Live, LinkState
  <2> QED BY <1>1, <2>1 DEF ClosedFrom, Passive
<1>2. CASE Queued(s, t)
  BY <1>2 DEF Queued, Passive
<1> QED BY <1>1, <1>2

\* So do all the callbacks of a peer link.
LEMMA PassiveStep ==
    ASSUME PeerLink, Correct, Passive(link), Next
    PROVE  Passive(link')
<1>0. link \in LinkState /\ Live(link)
  BY DEF Correct, Live
<1>a. ASSUME NEW s, Live(s), Passive(s)
      PROVE  Passive(on_write_failed(s))
  <2>1. on_write_failed(s) = closeTcp(s)
    BY DEF on_write_failed, close
  <2> QED BY <1>a, <2>1, CloseTcp, ClosedIsPassive
<1>b. ASSUME NEW s, Live(s), Passive(s), NEW r \in {"none", "send", "close"}
      PROVE  Passive(react(s, r)) /\ Live(react(s, r))
  BY <1>b, React, ClosedIsPassive
<1>1. CASE Send
  BY <1>0, <1>1, SendQueues, ClosedIsPassive DEF Send
<1>2. CASE Close
  BY <1>0, <1>2, CloseTcp, ClosedIsPassive DEF Close, close
<1>3. ASSUME NEW h \in Handles, OnReadData(h) PROVE Passive(link')
  BY <1>0, <1>3, <1>b, ReactionTyped DEF OnReadData
<1>4. ASSUME NEW h \in Handles, OnReadError(h) PROVE Passive(link')
  <2> DEFINE s == uv_read_stop(link, h)
  <2>1. PICK r \in {"none", "send", "close"} : link' = closeError(s, r)
    BY <1>4, ReactionTyped DEF OnReadError, on_read_failed
  <2>2. Live(s) /\ Passive(s)
    <3>1. /\ s \in LinkState /\ s.tcp = [link.tcp EXCEPT ![h] = "eof"]
          /\ s.pTcp = link.pTcp /\ s.timer = link.timer /\ s.connecting = link.connecting
      BY <1>0 DEF uv_read_stop, LinkState, HandleState
    <3>2. link.tcp \in [Handles -> HandleState]
      BY <1>0 DEF LinkState
    <3> HIDE DEF s
    <3>3. Live(s)
      BY <1>0, <3>1, <3>2 DEF Live, Closing
    <3> QED BY <3>1, <3>2, <3>3 DEF Passive
  <2> HIDE DEF s
  <2> QED BY <1>b, <2>1, <2>2, CloseTcp, ClosedIsPassive DEF closeError
<1>5. ASSUME NEW h \in Handles, OnWriteOk(h) \/ OnWriteFail(h) PROVE Passive(link')
  <2> DEFINE q == [link EXCEPT !.pending[h] = link.pending[h] - 1]
  <2>1. link.pending[h] - 1 \in Nat
    BY <1>0, <1>5 DEF OnWriteOk, OnWriteFail, LinkState
  <2>2. Queued(link, q)
    BY <1>0, <2>1, SetPending
  <2>3. link' = q \/ link' = on_write_failed(q)
    BY <1>5 DEF OnWriteOk, OnWriteFail
  <2> HIDE DEF q
  <2> QED BY <1>0, <1>a, <2>2, <2>3, QueuedIsLive, ClosedIsPassive
<1>6. ASSUME NEW h \in Handles, FinishClose(h) PROVE Passive(link')
  <2> DEFINE t == [link EXCEPT !.tcp[h] = "none"]
  <2>1. /\ t \in LinkState /\ t.tcp = [link.tcp EXCEPT ![h] = "none"] /\ t.pTcp = link.pTcp
        /\ t.timer = link.timer /\ t.connecting = link.connecting
        /\ link.tcp \in [Handles -> HandleState]
    BY <1>0 DEF LinkState, HandleState
  <2>2. link' = flush(t, h) /\ link.tcp[h] \in Closing
    BY <1>6 DEF FinishClose, Passive
  <2> HIDE DEF t
  <2>3. Live(t) /\ Passive(t)
    BY <1>0, <2>1, <2>2, HandlesAssumption DEF Live, Passive
  <2>4. CASE t.pending[h] = 0
    BY <2>2, <2>3, <2>4 DEF flush
  <2>5. CASE t.pending[h] # 0
    <3> DEFINE q == [t EXCEPT !.pending[h] = 0]
    <3>1. Queued(t, q)
      <4>1. 0 \in Nat
        OBVIOUS
      <4> QED BY <2>1, <4>1, SetPending
    <3>2. link' = on_write_failed(q)
      BY <2>2, <2>5 DEF flush
    <3> HIDE DEF q
    <3> QED BY <1>a, <2>3, <3>1, <3>2, QueuedIsLive, ClosedIsPassive
  <2> QED BY <2>4, <2>5
<1> QED BY <1>0, <1>1, <1>2, <1>3, <1>4, <1>5, <1>6
        DEF Next, User, Loop, Connect, OnTimer, OnConnectOk, OnConnectFail, Passive

\* `refused' stays a Boolean.
LEMMA RefusedTyped == ASSUME refused \in BOOLEAN, [Next]_vars PROVE refused' \in BOOLEAN
BY DEF Next, User, Loop, Connect, Send, Close, OnTimer, Attempted, OnConnectOk, OnConnectFail,
       OnReadData, OnReadError, OnWriteOk, OnWriteFail, FinishClose, vars

\* TypeOK for every value of the constants: nothing a peer link's callbacks and
\* its application do starts its timer or a connect request.
THEOREM TypeCorrect == Spec => []TypeOK
<1> DEFINE Inv == Correct /\ refused \in BOOLEAN /\ (PeerLink => Passive(link))
<1>1. Init => Inv
  <2> SUFFICES ASSUME Init, PeerLink PROVE Passive(link)
    BY InitCorrect DEF Init
  <2>1. PICK h \in Handles : link = Accepted(h)
    BY DEF Init
  <2> QED BY <2>1 DEF Accepted, uv_read_start, Blank, Passive, Closing
<1>2. Inv /\ [Next]_vars => Inv'
  <2> SUFFICES ASSUME Inv, [Next]_vars PROVE Inv'
    OBVIOUS
  <2>1. Correct' /\ refused' \in BOOLEAN
    BY NextCorrect, RefusedTyped
  <2>2. CASE Next
    BY <2>1, <2>2, PassiveStep
  <2>3. CASE UNCHANGED vars
    BY <2>1, <2>3 DEF vars
  <2> QED BY <2>2, <2>3
<1>3. Inv => TypeOK
  BY DEF Correct, Typed, TypeOK, Passive
<1> QED BY <1>1, <1>2, <1>3, PTL DEF Spec

\* CurrentIsLive for every value of the constants.
THEOREM NoDangling == Spec => []CurrentIsLive
<1>1. Correct => CurrentIsLive
  BY DEF Correct, Live, CurrentIsLive
<1> QED BY <1>1, InitCorrect, NextCorrect, PTL DEF Spec

-----------------------------------------------------------------------------
(* The second part: plain use, and the reconnecting link's own state.      *)

\* The application does not call connect() again after close(), nor close()
\* inside on_connected.
PlainUse == ~MayReconnect /\ "close" \notin ConnectReactions

\* A connect request is out.
Trying == {"connecting", "cancelling"}

\* There is one connect request at most, of m_pTcp or of a closed handle.
Attempts(s) ==
    /\ \A h \in Handles : s.tcp[h] \in Trying => s.connecting
    /\ \A h \in Handles : s.tcp[h] = "connecting" => h = s.pTcp
    /\ \A h, g \in Handles : s.tcp[h] \in Trying /\ s.tcp[g] \in Trying => h = g

\* What every method may assume, in the middle of another one too.
Closable(s) ==
    /\ Live(s) /\ ~s.crashed /\ Attempts(s)
    /\ s.reading \subseteq {s.pTcp}

\* What holds between two callbacks.
Sound(s) ==
    /\ Closable(s)
    /\ s.reading # {} => s.connected
    /\ s.connected => /\ s.pTcp # NULL /\ s.tcp[s.pTcp] = "open"
                      /\ s.pTcp \in s.reading /\ ~s.timer /\ ~s.connecting

\* Write queues do not matter to Closable and Sound.
LEMMA QueuedIsSound ==
    ASSUME NEW s, NEW t, Queued(s, t)
    PROVE  (Closable(s) => Closable(t)) /\ (Sound(s) => Sound(t))
BY QueuedIsLive DEF Queued, Closable, Sound, Attempts

\* closeTcp makes a half updated link sound.
LEMMA ClosedIsSound ==
    ASSUME NEW s, Closable(s), NEW t, ClosedFrom(s, t)
    PROVE  Sound(t)
<1>1. Live(t) /\ ~t.crashed /\ t.reading = {} /\ ~t.connected /\ t.pTcp = NULL
  BY ClosedIsLive DEF ClosedFrom, Closable
<1>2. \A h \in Handles : /\ t.tcp[h] \in Trying <=> s.tcp[h] \in Trying
                         /\ t.tcp[h] # "connecting"
  <2> TAKE h \in Handles
  <2>1. CASE s.pTcp = NULL
    BY <2>1, HandlesAssumption DEF ClosedFrom, Closable, Attempts
  <2>2. CASE s.pTcp # NULL
    <3>1. s.tcp \in [Handles -> HandleState] /\ s.pTcp \in Handles
      BY <2>2 DEF Closable, Live, LinkState
    <3>2. t.tcp = [s.tcp EXCEPT ![s.pTcp] = IF @ = "connecting" THEN "cancelling" ELSE "closing"]
      BY <2>2 DEF ClosedFrom
    <3>3. s.tcp[s.pTcp] \notin Closing /\ (s.tcp[h] = "connecting" => h = s.pTcp)
      BY <2>2 DEF Closable, Live, Attempts
    <3>4. CASE h = s.pTcp
      BY <3>1, <3>2, <3>3, <3>4 DEF Trying, Closing
    <3>5. CASE h # s.pTcp
      BY <3>1, <3>2, <3>3, <3>5 DEF Trying, Closing
    <3> QED BY <3>4, <3>5
  <2> QED BY <2>1, <2>2
<1>3. t.connecting = s.connecting
  BY DEF ClosedFrom
<1>4. Attempts(t)
  BY <1>2, <1>3 DEF Attempts, Closable
<1> QED BY <1>1, <1>4 DEF Sound, Closable

\* A handler that calls back keeps Closable and Sound.
LEMMA ReactSound ==
    ASSUME NEW s, NEW r \in {"none", "send", "close"}
    PROVE  /\ Closable(s) => Closable(react(s, r))
           /\ Sound(s) => Sound(react(s, r))
<1>1. Sound(s) => Closable(s)
  BY DEF Sound
<1> SUFFICES ASSUME Closable(s)
             PROVE  Closable(react(s, r)) /\ (Sound(s) => Sound(react(s, r)))
  BY <1>1
<1>2. Live(s)
  BY DEF Closable
<1>3. CASE r = "close"
  <2>1. ClosedFrom(s, react(s, r))
    BY <1>2, <1>3, React
  <2>2. Sound(react(s, r))
    BY <2>1, ClosedIsSound
  <2> QED BY <2>2 DEF Sound
<1>4. CASE r # "close"
  <2>1. Queued(s, react(s, r))
    BY <1>2, <1>4, React
  <2> QED BY <2>1, QueuedIsSound
<1> QED BY <1>3, <1>4

\* The error path of on_write makes a half updated link sound.
LEMMA WriteFailedSound ==
    ASSUME NEW s, Closable(s)
    PROVE  Sound(on_write_failed(s))
<1> DEFINE t == on_write_failed(s)
           u == [t EXCEPT !.timer = FALSE]
<1>1. Live(s)
  BY DEF Closable
<1>2. Live(t) /\ (PeerLink => ClosedFrom(s, t)) /\ (~PeerLink => ClosedFrom(s, u))
  BY <1>1, WriteFailedLive
<1> HIDE DEF t
<1>3. CASE PeerLink
  BY <1>2, <1>3, ClosedIsSound DEF t
<1>4. CASE ~PeerLink
  <2>1. Sound(u) /\ u.connected = FALSE
    BY <1>2, <1>4, ClosedIsSound DEF ClosedFrom
  <2>2. /\ u.pTcp = t.pTcp /\ u.connected = t.connected /\ u.connecting = t.connecting
        /\ u.tcp = t.tcp /\ u.reading = t.reading /\ u.crashed = t.crashed
    BY <1>2 DEF Live, LinkState
  <2>3. Sound(t)
    BY <1>2, <2>1, <2>2 DEF Sound, Closable, Attempts
  <2> QED BY <2>3 DEF t
<1> QED BY <1>3, <1>4

\* So does flushing a write queue.
LEMMA FlushSound ==
    ASSUME NEW s, Sound(s), NEW h \in Handles
    PROVE  Sound(flush(s, h))
<1>1. Live(s) /\ Closable(s)
  BY DEF Sound, Closable
<1>2. CASE s.pending[h] = 0
  BY <1>1, <1>2, FlushLive
<1>3. CASE s.pending[h] # 0
  <2>1. PICK q : Queued(s, q) /\ flush(s, h) = on_write_failed(q)
    BY <1>1, <1>3, FlushLive
  <2>2. Closable(q)
    BY <1>1, <2>1, QueuedIsSound
  <2> QED BY <2>1, <2>2, WriteFailedSound
<1> QED BY <1>2, <1>3

\* When the link is not connecting, no connect request is out.
LEMMA ConnectSound ==
    ASSUME NEW s, Sound(s), ~s.connected, ~s.connecting,
           NEW h \in Handles, NEW outcome \in ConnectOutcome
    PROVE  Sound(connect(s, h, outcome))
<1> DEFINE t == connect(s, h, outcome)
<1>1. Live(s) /\ s.reading = {} /\ ~s.crashed /\ Attempts(s)
  BY DEF Sound, Closable
<1>2. /\ Live(t) /\ t.pTcp = h /\ t.connected = FALSE /\ t.connecting = TRUE
      /\ t.tcp = [s.tcp EXCEPT ![h] = outcome]
      /\ t.reading = s.reading /\ t.crashed = s.crashed
  <2>1. Live(s)
    BY <1>1
  <2>2. /\ Live(t)
        /\ t.pTcp = h /\ t.connected = FALSE /\ t.connecting = TRUE
        /\ t.tcp = [s.tcp EXCEPT ![h] = outcome]
        /\ t.reading = s.reading /\ t.pending = s.pending
        /\ t.crashed = s.crashed
        /\ outcome = "connecting" => t.timer = TRUE
    BY <2>1, ConnectLive
  <2> QED BY <2>2
<1> HIDE DEF t
<1>3. s.tcp \in [Handles -> HandleState] /\ \A g \in Handles : s.tcp[g] \notin Trying
  BY <1>1 DEF Live, LinkState, Attempts
<1>4. \A g \in Handles : t.tcp[g] \in Trying => g = h
  BY <1>2, <1>3
<1>5. Attempts(t)
  BY <1>2, <1>4 DEF Attempts, Trying
<1>6. Sound(t)
  BY <1>1, <1>2, <1>5 DEF Sound, Closable
<1> QED BY <1>6 DEF t

\* A connect request that succeeds is m_pTcp's, and makes the link connected.
LEMMA ConnectOkSound ==
    ASSUME NEW h \in Handles, Sound(link), link.tcp[h] = "connecting",
           NEW r \in {"none", "send"}
    PROVE  LET t == on_connect_ok([link EXCEPT !.tcp[h] = "open"], r)
           IN  Sound(t) /\ t.connected = TRUE
<1> DEFINE s == [link EXCEPT !.tcp[h] = "open"]
           t == on_connect_ok(s, r)
<1>1. Live(link) /\ ~link.crashed /\ Attempts(link) /\ h = link.pTcp /\ h # NULL
  BY HandlesAssumption DEF Sound, Closable, Attempts
<1>2. ~link.connected /\ link.reading = {}
  BY <1>1 DEF Sound
<1>3. link \in LinkState /\ link.tcp \in [Handles -> HandleState]
  BY <1>1 DEF Live, LinkState
<1>4. /\ s \in LinkState /\ s.tcp = [link.tcp EXCEPT ![h] = "open"]
      /\ s.pTcp = link.pTcp /\ s.reading = link.reading /\ s.crashed = link.crashed
  BY <1>3, SetTcp DEF HandleState
<1> HIDE DEF s
<1>5. s.tcp[h] = "open" /\ \A g \in Handles : g # h => s.tcp[g] = link.tcp[g]
  BY <1>3, <1>4
<1>6. Live(s)
  BY <1>1, <1>4, <1>5 DEF Live, Closing
<1>7. /\ Live(t) /\ t.pTcp = h /\ t.tcp = s.tcp /\ t.crashed = s.crashed
      /\ t.connected = TRUE /\ t.connecting = FALSE /\ t.timer = FALSE
      /\ t.reading = s.reading \cup {h}
  <2>1. r \in {"none", "send", "close"} /\ r # "close" /\ s.pTcp # NULL /\ s.tcp[s.pTcp] = "open"
    BY <1>1, <1>4, <1>5
  <2>2. /\ Live(t) /\ t.pTcp = s.pTcp /\ t.tcp = s.tcp /\ t.crashed = s.crashed
        /\ t.connected = TRUE /\ t.connecting = FALSE /\ t.timer = FALSE
        /\ t.reading = s.reading \cup {s.pTcp}
    BY <1>6, <2>1, ConnectOkLive
  <2> QED BY <1>1, <1>4, <2>2
<1> HIDE DEF t
<1>8. \A g \in Handles : t.tcp[g] \notin Trying
  BY <1>1, <1>5, <1>7 DEF Attempts, Trying
<1>9. Attempts(t)
  BY <1>8 DEF Attempts, Trying
<1>10. Sound(t)
  BY <1>1, <1>2, <1>4, <1>5, <1>7, <1>9 DEF Sound, Closable
<1> QED BY <1>7, <1>10 DEF s, t

\* A connect request that fails leaves no request and the timer as it was.
LEMMA ConnectFailSound ==
    ASSUME NEW h \in Handles, Sound(link), link.tcp[h] = "connecting"
    PROVE  LET t == on_connect_failed([link EXCEPT !.tcp[h] = "failed"])
           IN  Sound(t) /\ t.timer = link.timer
<1> DEFINE s == [link EXCEPT !.tcp[h] = "failed"]
           t == on_connect_failed(s)
<1>1. Live(link) /\ ~link.crashed /\ Attempts(link) /\ h = link.pTcp /\ h # NULL
  BY HandlesAssumption DEF Sound, Closable, Attempts
<1>2. ~link.connected /\ link.reading = {}
  BY <1>1 DEF Sound
<1>3. link \in LinkState /\ link.tcp \in [Handles -> HandleState]
  BY <1>1 DEF Live, LinkState
<1>4. /\ s \in LinkState /\ s.tcp = [link.tcp EXCEPT ![h] = "failed"]
      /\ s.pTcp = link.pTcp /\ s.reading = link.reading /\ s.crashed = link.crashed
      /\ s.timer = link.timer
  BY <1>3, SetTcp DEF HandleState
<1> HIDE DEF s
<1>5. s.tcp[h] = "failed" /\ \A g \in Handles : g # h => s.tcp[g] = link.tcp[g]
  BY <1>3, <1>4
<1>6. Live(s)
  BY <1>1, <1>4, <1>5 DEF Live, Closing
<1>7. /\ Live(t) /\ t.pTcp = s.pTcp /\ t.tcp = s.tcp /\ t.crashed = s.crashed
      /\ t.connected = FALSE /\ t.connecting = FALSE /\ t.timer = s.timer
      /\ t.reading = s.reading
  BY <1>6, ConnectFailedLive
<1> HIDE DEF t
<1>8. \A g \in Handles : t.tcp[g] \notin Trying
  BY <1>1, <1>5, <1>7 DEF Attempts, Trying
<1>9. Attempts(t)
  BY <1>8 DEF Attempts, Trying
<1>10. Sound(t)
  BY <1>1, <1>2, <1>4, <1>7, <1>9 DEF Sound, Closable
<1> QED BY <1>4, <1>7, <1>10 DEF s, t

\* The connection that is read is m_pTcp: its loss leaves the link sound.
LEMMA ReadFailedSound ==
    ASSUME NEW h \in Handles, Sound(link), h \in link.reading,
           NEW r \in {"none", "send", "close"}
    PROVE  Sound(on_read_failed(uv_read_stop(link, h), r))
<1> DEFINE s == uv_read_stop(link, h)
<1>1. /\ Live(link) /\ ~link.crashed /\ Attempts(link) /\ h = link.pTcp /\ h # NULL
      /\ link.reading = {h} /\ link.connected /\ link.tcp[h] = "open" /\ ~link.connecting
  BY HandlesAssumption DEF Sound, Closable
<1>2. link \in LinkState /\ link.tcp \in [Handles -> HandleState]
  BY <1>1 DEF Live, LinkState
<1>3. /\ s \in LinkState /\ s.tcp = [link.tcp EXCEPT ![h] = "eof"]
      /\ s.pTcp = link.pTcp /\ s.reading = {} /\ s.crashed = link.crashed
      /\ s.connecting = link.connecting
  BY <1>1, <1>2 DEF uv_read_stop, LinkState, HandleState
<1> HIDE DEF s
<1>4. s.tcp[h] = "eof" /\ \A g \in Handles : s.tcp[g] \notin Trying
  BY <1>1, <1>2, <1>3 DEF Attempts, Trying
<1>5. Closable(s)
  BY <1>1, <1>3, <1>4 DEF Closable, Live, Attempts, Closing, Trying
<1>6. CASE PeerLink
  <2>1. on_read_failed(s, r) = closeError(s, r)
    BY <1>6 DEF on_read_failed
  <2>2. Live(s) /\ Closable(react(s, r))
    BY <1>5, ReactSound DEF Closable
  <2>3. ClosedFrom(react(s, r), closeError(s, r))
    BY <2>2, CloseErrorLive
  <2>4. Sound(closeError(s, r))
    BY <2>2, <2>3, ClosedIsSound
  <2> QED BY <2>1, <2>4 DEF s
<1>7. CASE ~PeerLink
  <2> DEFINE t == [s EXCEPT !.connected = FALSE, !.timer = TRUE]
  <2>1. on_read_failed(s, r) = t
    BY <1>7 DEF on_read_failed
  <2>2. /\ t \in LinkState /\ t.connected = FALSE /\ t.pTcp = s.pTcp /\ t.tcp = s.tcp
        /\ t.reading = s.reading /\ t.crashed = s.crashed /\ t.connecting = s.connecting
    BY <1>3 DEF LinkState
  <2> HIDE DEF t
  <2>3. Sound(t)
    BY <1>3, <1>5, <2>2 DEF Sound, Closable, Live, Attempts
  <2> QED BY <2>1, <2>3 DEF s
<1> QED BY <1>6, <1>7

\* The end of a closing handle touches neither m_pTcp nor the flags it needs.
LEMMA FinishSound ==
    ASSUME NEW h \in Handles, Sound(link), link.tcp[h] \in Closing,
           NEW t, t = [link EXCEPT !.tcp[h] = "none"],
           NEW u, u = IF link.tcp[h] = "cancelling" THEN on_connect_failed(t) ELSE t
    PROVE  Sound(u) /\ u.connected = link.connected /\ u.timer = link.timer
           /\ u.pTcp = link.pTcp /\ u.reading = link.reading /\ u.pending = link.pending
<1>1. Live(link) /\ ~link.crashed /\ Attempts(link) /\ h # link.pTcp
  BY HandlesAssumption DEF Sound, Closable, Live
<1>2. link \in LinkState /\ link.tcp \in [Handles -> HandleState]
  BY <1>1 DEF Live, LinkState
<1>3. /\ t \in LinkState /\ t.tcp = [link.tcp EXCEPT ![h] = "none"]
      /\ t.pTcp = link.pTcp /\ t.connected = link.connected
      /\ t.connecting = link.connecting /\ t.timer = link.timer
      /\ t.reading = link.reading /\ t.pending = link.pending
      /\ t.crashed = link.crashed
  BY <1>2, SetTcp DEF HandleState
<1>4. t.tcp[h] = "none" /\ \A g \in Handles : g # h => t.tcp[g] = link.tcp[g]
  BY <1>2, <1>3
<1>5. Live(t)
  BY <1>1, <1>2, <1>3, <1>4 DEF Live, LinkState
<1>6. CASE link.tcp[h] = "cancelling"
  <2>1. u = on_connect_failed(t)
    BY <1>6
  <2>2. /\ Live(u) /\ u.connected = FALSE /\ u.connecting = FALSE
        /\ u.pTcp = t.pTcp /\ u.tcp = t.tcp /\ u.timer = t.timer
        /\ u.reading = t.reading /\ u.pending = t.pending /\ u.crashed = t.crashed
    <3> DEFINE v == on_connect_failed(t)
    <3>1. /\ Live(v) /\ v.connected = FALSE /\ v.connecting = FALSE
          /\ v.pTcp = t.pTcp /\ v.tcp = t.tcp /\ v.timer = t.timer
          /\ v.reading = t.reading /\ v.pending = t.pending /\ v.crashed = t.crashed
      BY <1>5, ConnectFailedLive
    <3> HIDE DEF v
    <3> QED BY <2>1, <3>1 DEF v
  <2>3. link.connecting /\ ~link.connected /\ link.reading = {}
    BY <1>1, <1>6 DEF Sound, Attempts, Trying
  <2>4. \A g \in Handles : u.tcp[g] \notin Trying
    BY <1>1, <1>4, <1>6, <2>2 DEF Attempts, Trying
  <2>5. Attempts(u)
    BY <2>4 DEF Attempts, Trying
  <2>6. u.connected = link.connected
    BY <1>2, <2>2, <2>3 DEF LinkState
  <2> QED BY <1>1, <1>3, <2>2, <2>3, <2>5, <2>6 DEF Sound, Closable
<1>7. CASE link.tcp[h] # "cancelling"
  <2>1. u = t
    BY <1>7
  <2>2. \A g \in Handles : t.tcp[g] \in Trying \cup {"open"} => link.tcp[g] = t.tcp[g]
    BY <1>4 DEF Trying
  <2>3. Attempts(t)
    BY <1>1, <1>3, <2>2 DEF Attempts, Trying
  <2>4. link.connected => t.tcp[link.pTcp] = link.tcp[link.pTcp]
    BY <1>1, <1>2, <1>4 DEF Sound, LinkState
  <2>5. Sound(t)
    BY <1>1, <1>3, <1>5, <2>3, <2>4 DEF Sound, Closable
  <2> QED BY <1>3, <2>1, <2>5
<1> QED BY <1>6, <1>7

-----------------------------------------------------------------------------

\* The second invariant.
Inductive ==
    /\ Typed
    /\ Sound(link)
    /\ app = "idle" => link = Blank

\* The initial states are sound.
LEMMA InitInductive == Init => Inductive
<1> SUFFICES ASSUME Init PROVE Inductive
  OBVIOUS
<1>1. Typed /\ link \in LinkState /\ Live(link)
  BY InitCorrect DEF Correct, Typed
<1>2. /\ Blank.tcp = [h \in Handles |-> "none"] /\ Blank.reading = {}
      /\ ~Blank.crashed /\ ~Blank.connected /\ Blank.pTcp = NULL /\ ~Blank.timer
      /\ ~Blank.connecting
  BY DEF Blank
<1>3. CASE link = Blank
  BY <1>1, <1>2, <1>3 DEF Inductive, Sound, Closable, Attempts, Trying
<1>4. ASSUME NEW h \in Handles, link = Accepted(h), app = "open"
      PROVE  Inductive
  <2>1. /\ link.tcp = [Blank.tcp EXCEPT ![h] = "open"] /\ link.pTcp = h
        /\ link.connected = TRUE /\ ~link.connecting /\ ~link.timer
        /\ link.reading = {h} /\ ~link.crashed
    BY <1>4, HandlesAssumption DEF Accepted, uv_read_start, Closing, Blank
  <2>2. link.tcp[h] = "open" /\ \A g \in Handles : link.tcp[g] \notin Trying
    BY <1>2, <2>1 DEF Trying
  <2>3. Attempts(link)
    BY <2>2 DEF Attempts, Trying
  <2> QED BY <1>1, <1>4, <2>1, <2>2, <2>3, HandlesAssumption DEF Inductive, Sound, Closable
<1> QED BY <1>3, <1>4 DEF Init

\* Before connect() nothing but connect() can happen to a client link.
LEMMA IdleIsQuiet ==
    ASSUME link = Blank, app = "idle", Next
    PROVE  Connect
<1>1. /\ \A h \in Handles : Blank.tcp[h] = "none" /\ Blank.pending[h] = 0
      /\ Blank.reading = {} /\ ~Blank.timer
  BY DEF Blank
<1>2. ~Send /\ ~Close
  BY DEF Send, Close
<1>3. ~OnTimer
  BY <1>1 DEF OnTimer
<1>4. \A h \in Handles : ~Loop(h)
  BY <1>1 DEF Loop, OnConnectOk, OnConnectFail, OnReadData, OnReadError,
              OnWriteOk, OnWriteFail, FinishClose, Closing
<1> QED BY <1>2, <1>3, <1>4 DEF Next, User

\* Every callback and every call keeps the link sound.
LEMMA SoundStep ==
    ASSUME PlainUse, Inductive, Next
    PROVE  Sound(link') /\ app' # "idle"
<1>0. Sound(link) /\ Live(link) /\ Closable(link) /\ link \in LinkState
  BY DEF Inductive, Sound, Closable, Live
<1>a. ASSUME app # "idle", NEW r, Handler(r) PROVE app' # "idle"
  BY <1>a DEF Handler
<1>1. CASE Connect
  <2>1. link = Blank
    BY <1>1 DEF Connect, PlainUse, Inductive
  <2>2. ~link.connected /\ ~link.connecting
    BY <2>1 DEF Blank
  <2>3. PICK h \in Handles, outcome \in ConnectOutcome : link' = connect(link, h, outcome)
    BY <1>1 DEF Connect, FreeHandles
  <2>4. Sound(link')
    BY <1>0, <2>2, <2>3, ConnectSound
  <2> QED BY <1>1, <2>4 DEF Connect
<1>2. CASE app = "idle"
  BY <1>1, <1>2, IdleIsQuiet DEF Inductive
<1> SUFFICES ASSUME app # "idle" PROVE Sound(link') /\ app' # "idle"
  BY <1>2
<1>3. CASE Send
  <2>1. Sound(send(link))
    BY <1>0, SendQueues, QueuedIsSound
  <2> QED BY <1>3, <2>1 DEF Send
<1>4. CASE Close
  <2>1. Sound(closeTcp(link))
    BY <1>0, CloseTcp, ClosedIsSound
  <2> QED BY <1>4, <2>1 DEF Close, close
<1>5. CASE OnTimer
  <2>1. CASE UNCHANGED link
    BY <1>0, <1>5, <2>1 DEF OnTimer
  <2>2. CASE /\ ~link.connected /\ ~link.connecting
             /\ \E h \in Handles, outcome \in ConnectOutcome : link' = connect(link, h, outcome)
    <3>1. PICK h \in Handles, outcome \in ConnectOutcome : link' = connect(link, h, outcome)
      BY <2>2
    <3>2. Sound(link')
      BY <1>0, <2>2, <3>1, ConnectSound
    <3> QED BY <1>5, <3>2 DEF OnTimer
  <2> QED BY <1>5, <2>1, <2>2 DEF OnTimer, FreeHandles
<1>6. ASSUME NEW h \in Handles, OnConnectOk(h)
      PROVE  Sound(link') /\ app' # "idle"
  <2>1. PICK r \in {"none", "send"} :
          Handler(r) /\ link' = on_connect_ok([link EXCEPT !.tcp[h] = "open"], r)
    BY <1>6, ReactionTyped DEF OnConnectOk, PlainUse
  <2>2. link.tcp[h] = "connecting"
    BY <1>6 DEF OnConnectOk
  <2> QED BY <1>0, <1>a, <2>1, <2>2, ConnectOkSound
<1>7. ASSUME NEW h \in Handles, OnConnectFail(h)
      PROVE  Sound(link') /\ app' # "idle"
  <2>1. /\ link.tcp[h] = "connecting" /\ app' = app
        /\ link' = flush(on_connect_failed([link EXCEPT !.tcp[h] = "failed"]), h)
    BY <1>7 DEF OnConnectFail
  <2> QED BY <1>0, <2>1, ConnectFailSound, FlushSound
<1>8. ASSUME NEW h \in Handles, OnReadData(h)
      PROVE  Sound(link') /\ app' # "idle"
  <2>1. PICK r \in {"none", "send", "close"} : Handler(r) /\ link' = react(link, r)
    BY <1>8, ReactionTyped DEF OnReadData
  <2> QED BY <1>0, <1>a, <2>1, ReactSound
<1>9. ASSUME NEW h \in Handles, OnReadError(h)
      PROVE  Sound(link') /\ app' # "idle"
  <2>1. PICK r \in {"none", "send", "close"} :
          Handler(r) /\ link' = on_read_failed(uv_read_stop(link, h), r)
    BY <1>9, ReactionTyped DEF OnReadError
  <2>2. h \in link.reading
    BY <1>9 DEF OnReadError
  <2> QED BY <1>0, <1>a, <2>1, <2>2, ReadFailedSound
<1>10. ASSUME NEW h \in Handles, OnWriteOk(h) \/ OnWriteFail(h)
       PROVE  Sound(link') /\ app' # "idle"
  <2> DEFINE q == [link EXCEPT !.pending[h] = link.pending[h] - 1]
  <2>1. link.pending[h] - 1 \in Nat
    BY <1>0, <1>10 DEF OnWriteOk, OnWriteFail, LinkState
  <2>2. (link' = q \/ link' = on_write_failed(q)) /\ app' = app
    BY <1>10 DEF OnWriteOk, OnWriteFail
  <2>3. Queued(link, q)
    BY <1>0, <2>1, SetPending
  <2> HIDE DEF q
  <2>4. Sound(q) /\ Closable(q)
    BY <1>0, <2>3, QueuedIsSound
  <2> QED BY <2>2, <2>4, WriteFailedSound
<1>11. ASSUME NEW h \in Handles, FinishClose(h)
       PROVE  Sound(link') /\ app' # "idle"
  <2> DEFINE t == [link EXCEPT !.tcp[h] = "none"]
             u == IF link.tcp[h] = "cancelling" THEN on_connect_failed(t) ELSE t
  <2>1. link.tcp[h] \in Closing /\ link' = flush(u, h) /\ app' = app
    BY <1>11 DEF FinishClose
  <2>2. Sound(u)
    BY <1>0, <2>1, FinishSound
  <2> HIDE DEF u
  <2> QED BY <2>1, <2>2, FlushSound
<1> QED BY <1>1, <1>3, <1>4, <1>5, <1>6, <1>7, <1>8, <1>9, <1>10, <1>11
        DEF Next, User, Loop

\* Inductive is inductive.
LEMMA NextInductive == PlainUse /\ Inductive /\ [Next]_vars => Inductive'
<1> SUFFICES ASSUME PlainUse, Inductive, [Next]_vars PROVE Inductive'
  OBVIOUS
<1>1. Typed'
  BY NextCorrect DEF Inductive, Sound, Closable, Correct
<1>2. CASE Next
  BY <1>1, <1>2, SoundStep DEF Inductive
<1>3. CASE UNCHANGED vars
  BY <1>1, <1>3 DEF Inductive, vars
<1> QED BY <1>2, <1>3

\* So it always holds.
LEMMA InductiveAlways == PlainUse => (Spec => []Inductive)
<1> SUFFICES ASSUME PlainUse PROVE Spec => []Inductive
  OBVIOUS
<1>1. Inductive /\ [Next]_vars => Inductive'
  BY NextInductive
<1> QED BY <1>1, InitInductive, PTL DEF Spec

\* NoCrash, for every application that uses the link plainly.
THEOREM NeverCrashes == PlainUse => (Spec => []NoCrash)
<1>1. Inductive => NoCrash
  BY DEF Inductive, Sound, Closable, NoCrash
<1> QED BY <1>1, InductiveAlways, PTL

\* ReadingIsCurrent: no on_data of a connection that is not the link's.
THEOREM ReadsOnlyCurrent == PlainUse => (Spec => []ReadingIsCurrent)
<1>1. Inductive => ReadingIsCurrent
  BY DEF Inductive, Sound, Closable, ReadingIsCurrent
<1> QED BY <1>1, InductiveAlways, PTL

\* ConnectedIsOpen: m_bConnected tells the truth.
THEOREM ConnectedTellsTruth == PlainUse => (Spec => []ConnectedIsOpen)
<1>1. Inductive => ConnectedIsOpen
  BY DEF Inductive, Sound, ConnectedIsOpen
<1> QED BY <1>1, InductiveAlways, PTL

\* OneAttempt: the reconnect timer never starts a second connect request.
THEOREM OneAttemptAtATime == PlainUse => (Spec => []OneAttempt)
<1>1. ASSUME Inductive PROVE OneAttempt
  <2>1. Attempts(link)
    BY <1>1 DEF Inductive, Sound, Closable
  <2> QED BY <2>1 DEF Attempts, OneAttempt, Trying
<1> QED BY <1>1, InductiveAlways, PTL

-----------------------------------------------------------------------------
(* The reconnect timer.                                                    *)

\* That a uv_tcp_connect failed at once is never forgotten.
LEMMA RefusedStays == ASSUME Next, refused PROVE refused'
BY DEF Next, User, Loop, Connect, Send, Close, OnTimer, Attempted, OnConnectOk, OnConnectFail,
       OnReadData, OnReadError, OnWriteOk, OnWriteFail, FinishClose

\* Every callback and every call keeps the timer on while it is needed.
LEMMA ArmedStep ==
    ASSUME PlainUse, ~PeerLink, Inductive, ReconnectArmed, Next
    PROVE  ReconnectArmed'
<1> SUFFICES ASSUME ~refused' PROVE ReconnectArmed'
  BY DEF ReconnectArmed
<1>r. ~refused
  BY RefusedStays
<1>0. Sound(link) /\ Live(link) /\ Closable(link) /\ link \in LinkState
  BY DEF Inductive, Sound, Closable, Live
<1>a. ASSUME NEW h \in Handles, link' = connect(link, h, "connecting")
      PROVE  ReconnectArmed'
  <2>1. "connecting" \in ConnectOutcome
    BY DEF ConnectOutcome
  <2>2. connect(link, h, "connecting").timer = TRUE
    BY <1>0, <2>1, ConnectLive
  <2> QED BY <1>a, <2>2 DEF ReconnectArmed
<1>b. ASSUME NEW q, Queued(link, q), link' = q \/ link' = on_write_failed(q), app' = app
      PROVE  ReconnectArmed'
  <2>1. CASE link' = q
    BY <1>b, <2>1, <1>r DEF Queued, ReconnectArmed
  <2>2. CASE link' = on_write_failed(q)
    <3>1. Live(q)
      BY <1>0, <1>b, QueuedIsLive
    <3>2. on_write_failed(q).timer = TRUE
      BY <3>1, WriteFailedLive
    <3> QED BY <2>2, <3>2 DEF ReconnectArmed
  <2> QED BY <1>b, <2>1, <2>2
<1>c. ASSUME NEW s, Live(s), NEW h \in Handles, link' = flush(s, h),
             s.connected = link.connected \/ ~link.connected, s.timer = link.timer, app' = app
      PROVE  ReconnectArmed'
  <2>1. CASE s.pending[h] = 0
    <3>1. link' = s
      BY <1>c, <2>1, FlushLive
    <3> QED BY <1>c, <3>1, <1>r DEF ReconnectArmed
  <2>2. CASE s.pending[h] # 0
    <3>1. PICK q : Live(q) /\ flush(s, h) = on_write_failed(q)
      BY <1>c, <2>2, FlushLive
    <3>2. on_write_failed(q).timer = TRUE
      BY <3>1, WriteFailedLive
    <3> QED BY <1>c, <3>1, <3>2 DEF ReconnectArmed
  <2> QED BY <2>1, <2>2
<1>d. ASSUME NEW r \in {"none", "send", "close"}, Handler(r), link' = react(link, r)
      PROVE  ReconnectArmed'
  <2>1. CASE r = "close"
    BY <1>d, <2>1 DEF Handler, ReconnectArmed
  <2>2. CASE r # "close"
    <3>1. Queued(link, link')
      BY <1>0, <1>d, <2>2, React
    <3>2. app' = app
      BY <1>d, <2>2 DEF Handler
    <3> QED BY <3>1, <3>2, <1>r DEF Queued, ReconnectArmed
  <2> QED BY <2>1, <2>2
<1>1. CASE Connect
  <2>1. PICK h \in Handles : link' = connect(link, h, "connecting")
    BY <1>1 DEF Connect, Attempted, FreeHandles
  <2> QED BY <1>a, <2>1
<1>2. CASE Send
  <2>1. Queued(link, link') /\ app' = app
    BY <1>0, <1>2, SendQueues DEF Send
  <2> QED BY <2>1, <1>r DEF Queued, ReconnectArmed
<1>3. CASE Close
  BY <1>3 DEF Close, ReconnectArmed
<1>4. CASE OnTimer
  <2>1. CASE UNCHANGED link
    BY <1>4, <2>1, <1>r DEF OnTimer, ReconnectArmed
  <2>2. CASE \E h \in Handles : link' = connect(link, h, "connecting")
    BY <1>a, <2>2
  <2> QED BY <1>4, <2>1, <2>2 DEF OnTimer, Attempted, FreeHandles
<1>5. ASSUME NEW h \in Handles, OnConnectOk(h)
      PROVE  ReconnectArmed'
  <2>1. PICK r \in {"none", "send"} :
          Handler(r) /\ link' = on_connect_ok([link EXCEPT !.tcp[h] = "open"], r)
    BY <1>5, ReactionTyped DEF OnConnectOk, PlainUse
  <2>2. link.tcp[h] = "connecting"
    BY <1>5 DEF OnConnectOk
  <2>3. link'.connected = TRUE
    BY <1>0, <2>1, <2>2, ConnectOkSound
  <2> QED BY <2>3 DEF ReconnectArmed
<1>6. ASSUME NEW h \in Handles, OnConnectFail(h)
      PROVE  ReconnectArmed'
  <2> DEFINE s == on_connect_failed([link EXCEPT !.tcp[h] = "failed"])
  <2>1. link.tcp[h] = "connecting" /\ app' = app /\ link' = flush(s, h)
    BY <1>6 DEF OnConnectFail
  <2>2. Sound(s) /\ s.timer = link.timer
    BY <1>0, <2>1, ConnectFailSound
  <2>3. ~link.connected
    BY <1>0, <2>1 DEF Sound, Closable, Attempts, Trying
  <2> HIDE DEF s
  <2>4. Live(s)
    BY <2>2 DEF Sound, Closable
  <2> QED BY <1>c, <2>1, <2>2, <2>3, <2>4
<1>7. ASSUME NEW h \in Handles, OnReadData(h)
      PROVE  ReconnectArmed'
  BY <1>7, <1>d, ReactionTyped DEF OnReadData
<1>8. ASSUME NEW h \in Handles, OnReadError(h)
      PROVE  ReconnectArmed'
  <2> DEFINE s == uv_read_stop(link, h)
  <2>1. link' = [s EXCEPT !.connected = FALSE, !.timer = TRUE]
    BY <1>8 DEF OnReadError, on_read_failed
  <2>2. s \in LinkState
    BY <1>0 DEF uv_read_stop, LinkState, HandleState
  <2> HIDE DEF s
  <2>3. link'.timer = TRUE
    BY <2>1, <2>2 DEF LinkState
  <2> QED BY <2>3 DEF ReconnectArmed
<1>9. ASSUME NEW h \in Handles, OnWriteOk(h) \/ OnWriteFail(h)
       PROVE  ReconnectArmed'
  <2> DEFINE q == [link EXCEPT !.pending[h] = link.pending[h] - 1]
  <2>1. link.pending[h] - 1 \in Nat
    BY <1>0, <1>9 DEF OnWriteOk, OnWriteFail, LinkState
  <2>2. (link' = q \/ link' = on_write_failed(q)) /\ app' = app
    BY <1>9 DEF OnWriteOk, OnWriteFail
  <2>3. Queued(link, q)
    BY <1>0, <2>1, SetPending
  <2> HIDE DEF q
  <2> QED BY <1>b, <2>2, <2>3
<1>10. ASSUME NEW h \in Handles, FinishClose(h)
       PROVE  ReconnectArmed'
  <2> DEFINE t == [link EXCEPT !.tcp[h] = "none"]
             u == IF link.tcp[h] = "cancelling" THEN on_connect_failed(t) ELSE t
  <2>1. link.tcp[h] \in Closing /\ link' = flush(u, h) /\ app' = app
    BY <1>10 DEF FinishClose
  <2>2. Sound(u) /\ u.connected = link.connected /\ u.timer = link.timer
    BY <1>0, <2>1, FinishSound
  <2> HIDE DEF u
  <2>3. Live(u)
    BY <2>2 DEF Sound, Closable
  <2> QED BY <1>c, <2>1, <2>2, <2>3
<1> QED BY <1>1, <1>2, <1>3, <1>4, <1>5, <1>6, <1>7, <1>8, <1>9, <1>10
        DEF Next, User, Loop

\* ReconnectArmed: a client link does not forget to reconnect, unless a
\* uv_tcp_connect failed at once, which a machine short of descriptors or of a
\* route makes happen.
THEOREM NeverForgets == PlainUse /\ ~PeerLink => (Spec => []ReconnectArmed)
<1> SUFFICES ASSUME PlainUse, ~PeerLink PROVE Spec => []ReconnectArmed
  OBVIOUS
<1>1. Init => ReconnectArmed
  BY DEF Init, ReconnectArmed
<1>2. Inductive /\ ReconnectArmed /\ [Next]_vars => ReconnectArmed'
  <2> SUFFICES ASSUME Inductive, ReconnectArmed, [Next]_vars PROVE ReconnectArmed'
    OBVIOUS
  <2>1. CASE Next
    BY <2>1, ArmedStep
  <2>2. CASE UNCHANGED vars
    BY <2>2 DEF vars, ReconnectArmed
  <2> QED BY <2>1, <2>2
<1>3. Spec => []Inductive
  BY InductiveAlways
<1> QED BY <1>1, <1>2, <1>3, PTL DEF Spec

-----------------------------------------------------------------------------
(* After close().                                                          *)

\* Nothing of the link is in use any more.
Released(s) == s.pTcp = NULL /\ ~s.connected /\ ~s.timer /\ s.reading = {}

\* CloseIsFinal, with the writes that could revive the link.
Final == app = "closed" /\ ~dirty => Released(link) /\ ~Unsent(link)

\* closeTcp releases the handle, the read and the timer.
LEMMA ClosedIsReleased ==
    ASSUME NEW s, Closable(s), NEW t, ClosedFrom(s, t)
    PROVE  Released(t) /\ t.pending = s.pending
BY DEF ClosedFrom, Closable, Released

\* A close() from inside a callback, or from the application's own code.
LEMMA CloseInHandler ==
    ASSUME Sound(link), NEW r \in {"none", "send", "close"}, Handler(r), app # "closed" \/ dirty
    PROVE  LET t == react(link, r)
           IN  app' = "closed" /\ ~dirty' => Released(t) /\ t.pending = link.pending /\ ~Unsent(link)
<1>1. CASE r = "close"
  <2>1. Closable(link) /\ Live(link)
    BY DEF Sound, Closable
  <2>2. ClosedFrom(link, react(link, r))
    BY <1>1, <2>1, React
  <2>3. dirty' = Unsent(link)
    BY <1>1 DEF Handler
  <2> QED BY <2>1, <2>2, <2>3, ClosedIsReleased
<1>2. CASE r # "close"
  BY <1>2 DEF Handler
<1> QED BY <1>1, <1>2

\* When the link is finally closed, only the end of a closing handle is left.
LEMMA FinalStays ==
    ASSUME PlainUse, Inductive, Next, app = "closed", ~dirty,
           Released(link), ~Unsent(link)
    PROVE  Final'
<1>0. Sound(link) /\ Live(link) /\ Closable(link) /\ Attempts(link) /\ link \in LinkState
  BY DEF Inductive, Sound, Closable, Live
<1>1. \A h \in Handles : link.pending[h] = 0 /\ link.tcp[h] # "connecting"
  BY <1>0, HandlesAssumption DEF Unsent, Released, Attempts, LinkState
<1>2. ~Connect /\ ~Send /\ ~OnTimer
  BY DEF Connect, PlainUse, Send, OnTimer, Released
<1>3. \A h \in Handles : /\ ~OnConnectOk(h) /\ ~OnConnectFail(h) /\ ~OnReadData(h)
                         /\ ~OnReadError(h) /\ ~OnWriteOk(h) /\ ~OnWriteFail(h)
  BY <1>1 DEF OnConnectOk, OnConnectFail, OnReadData, OnReadError,
              OnWriteOk, OnWriteFail, Released
<1>4. CASE Close
  <2>1. ClosedFrom(link, link')
    BY <1>0, <1>4, CloseTcp DEF Close, close
  <2>2. Released(link') /\ link'.pending = link.pending
    BY <1>0, <2>1, ClosedIsReleased
  <2>3. ~Unsent(link')
    BY <2>2 DEF Unsent
  <2> QED BY <2>2, <2>3 DEF Final
<1>5. ASSUME NEW h \in Handles, FinishClose(h)
      PROVE  Final'
  <2> DEFINE t == [link EXCEPT !.tcp[h] = "none"]
             u == IF link.tcp[h] = "cancelling" THEN on_connect_failed(t) ELSE t
  <2>1. link.tcp[h] \in Closing /\ link' = flush(u, h)
    BY <1>5 DEF FinishClose
  <2>2. /\ Sound(u) /\ u.connected = link.connected /\ u.timer = link.timer
        /\ u.pTcp = link.pTcp /\ u.reading = link.reading /\ u.pending = link.pending
    BY <1>0, <2>1, FinishSound
  <2> HIDE DEF u
  <2>3. Live(u)
    BY <2>2 DEF Sound, Closable
  <2>4. link' = u
    BY <1>1, <2>1, <2>2, <2>3, FlushLive
  <2>5. Released(link') /\ ~Unsent(link')
    BY <2>2, <2>4 DEF Released, Unsent
  <2> QED BY <2>5 DEF Final
<1> QED BY <1>2, <1>3, <1>4, <1>5 DEF Next, User, Loop

\* Every callback and every call keeps Final.
LEMMA FinalStep ==
    ASSUME PlainUse, Inductive, Final, Next
    PROVE  Final'
<1>0. Sound(link) /\ Live(link) /\ Closable(link) /\ link \in LinkState
  BY DEF Inductive, Sound, Closable, Live
<1>1. CASE app = "closed" /\ ~dirty
  BY <1>1, FinalStays DEF Final
<1> SUFFICES ASSUME app # "closed" \/ dirty PROVE Final'
  BY <1>1
<1>a. ASSUME UNCHANGED <<app, dirty>> PROVE Final'
  BY <1>a DEF Final
<1>2. CASE Connect \/ Send \/ OnTimer
  BY <1>2, <1>a DEF Connect, Send, OnTimer, Final
<1>3. CASE Close
  <2>1. ClosedFrom(link, link') /\ dirty' = Unsent(link)
    BY <1>0, <1>3, CloseTcp DEF Close, close
  <2>2. Released(link') /\ link'.pending = link.pending
    BY <1>0, <2>1, ClosedIsReleased
  <2> QED BY <2>1, <2>2 DEF Final, Unsent
<1>4. ASSUME NEW h \in Handles, OnConnectOk(h)
      PROVE  Final'
  <2>1. PICK r \in ConnectReactions : Handler(r) /\ r # "close"
    BY <1>4 DEF OnConnectOk, PlainUse
  <2> QED BY <1>a, <2>1 DEF Handler
<1>5. ASSUME NEW h \in Handles, OnReadData(h)
      PROVE  Final'
  <2>1. PICK r \in {"none", "send", "close"} : Handler(r) /\ link' = react(link, r)
    BY <1>5, ReactionTyped DEF OnReadData
  <2>2. app' = "closed" /\ ~dirty' => /\ Released(link') /\ link'.pending = link.pending
                                      /\ ~Unsent(link)
    BY <1>0, <2>1, CloseInHandler
  <2> QED BY <2>2 DEF Final, Unsent
<1>6. ASSUME NEW h \in Handles, OnReadError(h)
      PROVE  Final'
  <2> DEFINE s == uv_read_stop(link, h)
  <2>1. PICK r \in (IF PeerLink THEN Reactions ELSE {"none"}) :
          Handler(r) /\ link' = on_read_failed(s, r)
    BY <1>6 DEF OnReadError
  <2>2. CASE r # "close"
    BY <1>a, <2>1, <2>2 DEF Handler
  <2>3. CASE r = "close"
    <3>1. PeerLink /\ link' = closeTcp(closeTcp(s)) /\ dirty' = Unsent(link)
      BY <2>1, <2>3 DEF on_read_failed, closeError, react, close, Handler
    <3>2. s.pending = link.pending /\ s.pTcp = link.pTcp /\ Live(s) /\ s.reading = {}
      <4>1. /\ s \in LinkState /\ s.tcp = [link.tcp EXCEPT ![h] = "eof"]
            /\ s.pTcp = link.pTcp /\ s.pending = link.pending /\ s.reading = link.reading \ {h}
        BY <1>0 DEF uv_read_stop, LinkState, HandleState
      <4>2. link.reading = {h} /\ h = link.pTcp
        BY <1>0, <1>6 DEF OnReadError, Closable
      <4> HIDE DEF s
      <4>3. s.tcp[h] = "eof"
        BY <1>0, <4>1 DEF LinkState
      <4> QED BY <4>1, <4>2, <4>3 DEF Live, Closing
    <3> HIDE DEF s
    <3> DEFINE c == closeTcp(s)
    <3>3. ClosedFrom(s, c) /\ Live(c)
      BY <3>2, CloseTcp, ClosedIsLive
    <3>4. ClosedFrom(c, link')
      BY <3>1, <3>3, CloseTcp
    <3> HIDE DEF c
    <3>5. Released(link') /\ link'.pending = link.pending
      BY <3>2, <3>3, <3>4 DEF Released, ClosedFrom
    <3> QED BY <3>1, <3>5 DEF Final, Unsent
  <2> QED BY <2>2, <2>3
<1>7. ASSUME NEW h \in Handles, OnConnectFail(h) \/ OnWriteOk(h) \/ OnWriteFail(h) \/ FinishClose(h)
      PROVE  Final'
  BY <1>7, <1>a DEF OnConnectFail, OnWriteOk, OnWriteFail, FinishClose
<1> QED BY <1>2, <1>3, <1>4, <1>5, <1>6, <1>7 DEF Next, User, Loop

\* CloseIsFinal: a link that is closed with no write in flight lets go of its
\* handle, its connect request and its timer, and stays so.
THEOREM ClosesForGood == PlainUse => (Spec => []CloseIsFinal)
<1> SUFFICES ASSUME PlainUse PROVE Spec => []CloseIsFinal
  OBVIOUS
<1>1. Init => Final
  BY DEF Init, Final
<1>2. Inductive /\ Final /\ [Next]_vars => Final'
  <2> SUFFICES ASSUME Inductive, Final, [Next]_vars PROVE Final'
    OBVIOUS
  <2>1. CASE Next
    BY <2>1, FinalStep
  <2>2. CASE UNCHANGED vars
    BY <2>2 DEF vars, Final, Released, Unsent
  <2> QED BY <2>1, <2>2
<1>3. Final => CloseIsFinal
  BY DEF Final, Released, CloseIsFinal
<1>4. Spec => []Inductive
  BY InductiveAlways
<1> QED BY <1>1, <1>2, <1>3, <1>4, PTL DEF Spec

-----------------------------------------------------------------------------
(* What a link does to its connections over time, with an application that *)
(* is plain in its use: why it gives one up, how many handles it abandons, *)
(* and that it implements LinkSession.  All of that is read off one lemma, *)
(* Shape: whatever a callback or a call does in detail, a step is of one   *)
(* of seven kinds.                                                         *)

\* What Sound leaves open.  A handle that is closing is not replaced before it is
\* gone, an open m_pTcp is connected, and a peer link has no handle but a
\* connected one, no timer and no connect request.
Calm(s) ==
    /\ (\E h \in Handles : s.tcp[h] \in Closing) => s.pTcp = NULL
    /\ s.pTcp # NULL /\ s.tcp[s.pTcp] = "open" => s.connected
    /\ PeerLink => /\ ~s.timer /\ ~s.connecting
                   /\ s.pTcp # NULL => s.connected
                   /\ \A h \in Handles : h = s.pTcp \/ s.tcp[h] \in Closing \cup {"none"}

\* A peer link is open, or closed for good.
PeerApp == PeerLink => app # "idle" /\ (app = "closed" => ~link.connected)

Strong == Inductive /\ Final /\ Calm(link) /\ PeerApp

-----------------------------------------------------------------------------
(* The kinds of steps.                                                     *)

\* t is s without m_pTcp, which is closing.
LetGo(s, t) ==
    /\ t.pTcp = NULL /\ ~t.connected
    /\ PeerLink => t.connecting = s.connecting
    /\ \A h \in Handles : IF h = s.pTcp THEN t.tcp[h] \in Closing ELSE t.tcp[h] = s.tcp[h]

\* Write queues only.
Idles == Queued(link, link') /\ UNCHANGED <<app, dirty, told, faults>>

\* By the user, perhaps from inside on_close of a peer link that is lost.
Closes ==
    /\ app # "idle" /\ LetGo(link, link') /\ ~link'.timer
    /\ app' = "closed"
    /\ \/ told' = told /\ faults' = faults
       \/ PeerLink /\ link.connected /\ told' = "down" /\ faults' = faults + 1

\* connect(), by the user or the timer.
Tries(h, outcome) ==
    /\ ~PeerLink /\ ~link.connected /\ ~link.connecting /\ link.tcp[h] = "none"
    /\ \A g \in Handles : link.tcp[g] \notin Closing
    /\ link'.pTcp = h /\ ~link'.connected /\ link'.tcp = [link.tcp EXCEPT ![h] = outcome]
    /\ faults' = IF outcome = "connecting" THEN faults ELSE faults + 1
    /\ \/ app = "idle" /\ app' = "open"
       \/ app # "idle" /\ app' = app /\ link.timer
    /\ UNCHANGED <<dirty, told>>

\* The connect request succeeds.
Opens(h) ==
    /\ ~PeerLink /\ h = link.pTcp /\ link.tcp[h] = "connecting" /\ ~link.connected
    /\ link'.pTcp = h /\ link'.connected /\ link'.tcp = [link.tcp EXCEPT ![h] = "open"]
    /\ app # "idle" /\ told' = "up"
    /\ UNCHANGED <<app, dirty, faults>>

\* The request or the connection of a client fails: the handle is kept.
Breaks(h) ==
    /\ ~PeerLink /\ h = link.pTcp /\ link'.pTcp = h /\ ~link'.connected
    /\ \E x \in {"failed", "eof"} : link'.tcp = [link.tcp EXCEPT ![h] = x]
    /\ app # "idle" /\ faults' = faults + 1
    /\ UNCHANGED <<app, dirty, told>>

\* The connection fails and is closed.
Drops ==
    /\ LetGo(link, link') /\ link'.timer = ~PeerLink
    /\ app # "idle" /\ faults' = faults + 1
    /\ \/ told' = told /\ Unsent(link) /\ (PeerLink => WriteErrors)
       \/ PeerLink /\ link.connected /\ told' = "down"
    /\ UNCHANGED <<app, dirty>>

\* A handle that was closed is gone, and with it the writes it had.
Ends(h) ==
    /\ link.tcp[h] \in Closing /\ link.pTcp = NULL /\ ~link.connected
    /\ link'.pTcp = NULL /\ ~link'.connected /\ link'.tcp = [link.tcp EXCEPT ![h] = "none"]
    /\ link'.timer = link.timer \/ (link'.timer = ~PeerLink /\ Unsent(link))
    /\ PeerLink => ~link'.connecting
    /\ app # "idle"
    /\ UNCHANGED <<app, dirty, told, faults>>

Steps ==
    \/ Idles \/ Closes \/ Drops
    \/ \E h \in Handles : Opens(h) \/ Breaks(h) \/ Ends(h)
    \/ \E h \in Handles, outcome \in ConnectOutcome : Tries(h, outcome)

-----------------------------------------------------------------------------
(* What the methods do, in these terms.                                    *)

\* closeTcp lets go of m_pTcp.
LEMMA ClosedLetsGo ==
    ASSUME NEW s, Live(s), NEW t, ClosedFrom(s, t)
    PROVE  LetGo(s, t) /\ ~t.timer
<1>1. s.tcp \in [Handles -> HandleState] /\ s.pTcp \in Handles \cup {NULL}
  BY DEF Live, LinkState
<1>2. CASE s.pTcp = NULL
  BY <1>2, HandlesAssumption DEF ClosedFrom, LetGo
<1>3. CASE s.pTcp # NULL
  <2>1. t.tcp = [s.tcp EXCEPT ![s.pTcp] = IF @ = "connecting" THEN "cancelling" ELSE "closing"]
    BY <1>3 DEF ClosedFrom
  <2>2. \A h \in Handles : IF h = s.pTcp THEN t.tcp[h] \in Closing ELSE t.tcp[h] = s.tcp[h]
    BY <1>1, <2>1 DEF Closing
  <2> QED BY <2>2 DEF ClosedFrom, LetGo
<1> QED BY <1>2, <1>3

\* The error path of on_write lets go of m_pTcp and starts a client's timer.
LEMMA WriteFailedLetsGo ==
    ASSUME NEW s, Live(s)
    PROVE  LetGo(s, on_write_failed(s)) /\ on_write_failed(s).timer = ~PeerLink
<1> DEFINE t == on_write_failed(s)
           u == [t EXCEPT !.timer = FALSE]
<1>1. /\ Live(t) /\ (PeerLink => ClosedFrom(s, t))
      /\ (~PeerLink => ClosedFrom(s, u) /\ t.timer = TRUE)
  BY WriteFailedLive
<1> HIDE DEF t
<1>2. u.pTcp = t.pTcp /\ u.connected = t.connected /\ u.connecting = t.connecting /\ u.tcp = t.tcp
  BY <1>1 DEF Live, LinkState
<1>3. CASE PeerLink
  <2>1. t.timer = FALSE
    BY <1>1, <1>3 DEF ClosedFrom
  <2> QED BY <1>1, <1>3, <2>1, ClosedLetsGo DEF t
<1>4. CASE ~PeerLink
  <2>1. LetGo(s, u)
    BY <1>1, <1>4, ClosedLetsGo
  <2>2. LetGo(s, t)
    BY <1>2, <2>1 DEF LetGo
  <2> QED BY <1>1, <1>4, <2>2 DEF t
<1> QED BY <1>3, <1>4

\* Flushing a write queue does nothing, or is the error path of on_write.
LEMMA FlushLetsGo ==
    ASSUME NEW s, Live(s), NEW h \in Handles
    PROVE  \/ flush(s, h) = s
           \/ /\ s.pending[h] # 0 /\ LetGo(s, flush(s, h))
              /\ flush(s, h).timer = ~PeerLink
              /\ flush(s, h).connecting = s.connecting \/ ~PeerLink
<1>1. CASE s.pending[h] = 0
  BY <1>1, FlushLive
<1>2. CASE s.pending[h] # 0
  <2>1. PICK q : Queued(s, q) /\ Live(q) /\ flush(s, h) = on_write_failed(q)
    BY <1>2, FlushLive
  <2>2. LetGo(q, flush(s, h)) /\ flush(s, h).timer = ~PeerLink
    BY <2>1, WriteFailedLetsGo
  <2>3. LetGo(s, flush(s, h))
    BY <2>1, <2>2 DEF LetGo, Queued
  <2> QED BY <1>2, <2>2, <2>3 DEF LetGo
<1> QED BY <1>1, <1>2

-----------------------------------------------------------------------------
(* Every step is one of Steps.                                             *)

\* A handler that calls back from inside a callback.
LEMMA ReactShape ==
    ASSUME Live(link), app # "idle", NEW r \in {"none", "send", "close"}, Handler(r),
           link' = react(link, r), UNCHANGED <<told, faults>>
    PROVE  Idles \/ Closes
<1>1. CASE r = "close"
  <2>1. LetGo(link, link') /\ ~link'.timer
    BY <1>1, React, ClosedLetsGo
  <2> QED BY <1>1, <2>1 DEF Handler, Closes
<1>2. CASE r # "close"
  <2>1. Queued(link, link')
    BY <1>2, React
  <2> QED BY <1>2, <2>1 DEF Handler, Idles
<1> QED BY <1>1, <1>2

\* A connect request that is out is one of a client whose link has m_pTcp for it.
LEMMA RequestIsCurrent ==
    ASSUME Strong, NEW h \in Handles, link.tcp[h] = "connecting"
    PROVE  ~PeerLink /\ h = link.pTcp /\ link.pTcp # NULL /\ ~link.connected /\ app # "idle"
<1>1. Sound(link) /\ Attempts(link) /\ Calm(link) /\ (app = "idle" => link = Blank)
  BY DEF Strong, Inductive, Sound, Closable
<1>2. h = link.pTcp /\ link.connecting /\ h # NULL
  BY <1>1, HandlesAssumption DEF Attempts, Trying
<1>3. ~link.connected
  BY <1>1, <1>2 DEF Sound
<1>4. app # "idle"
  BY <1>1 DEF Blank
<1> QED BY <1>1, <1>2, <1>3, <1>4 DEF Calm

\* connect() from Connect and from the timer.
LEMMA ConnectShape ==
    ASSUME Strong, Live(link), ~PeerLink, ~link.connected, ~link.connecting,
           \A g \in Handles : link.tcp[g] \notin Closing,
           NEW h \in FreeHandles(link), NEW outcome \in ConnectOutcome,
           link' = connect(link, h, outcome),
           IF outcome = "connecting" THEN UNCHANGED faults ELSE SyncErrors /\ Fault,
           \/ app = "idle" /\ app' = "open"
           \/ app # "idle" /\ app' = app /\ link.timer,
           UNCHANGED <<dirty, told>>
    PROVE  Tries(h, outcome)
<1>1. h \in Handles /\ link.tcp[h] = "none"
  BY DEF FreeHandles
<1>2. /\ link'.pTcp = h /\ link'.connected = FALSE
      /\ link'.tcp = [link.tcp EXCEPT ![h] = outcome]
  <2> DEFINE t == connect(link, h, outcome)
  <2>1. /\ Live(t)
        /\ t.pTcp = h /\ t.connected = FALSE /\ t.connecting = TRUE
        /\ t.tcp = [link.tcp EXCEPT ![h] = outcome]
        /\ t.reading = link.reading /\ t.pending = link.pending
        /\ t.crashed = link.crashed
        /\ outcome = "connecting" => t.timer = TRUE
    BY <1>1, ConnectLive
  <2> QED BY <2>1
<1>3. faults' = IF outcome = "connecting" THEN faults ELSE faults + 1
  BY DEF Fault
<1> QED BY <1>1, <1>2, <1>3 DEF Tries

\* A connect request that succeeds.
LEMMA ConnectOkShape ==
    ASSUME PlainUse, Strong, NEW h \in Handles, OnConnectOk(h)
    PROVE  Opens(h)
<1> DEFINE s == [link EXCEPT !.tcp[h] = "open"]
<1>1. link.tcp[h] = "connecting" /\ Live(link) /\ link \in LinkState
  BY DEF OnConnectOk, Strong, Inductive, Sound, Closable, Live
<1>2. /\ h = link.pTcp /\ ~PeerLink /\ link.pTcp # NULL /\ ~link.connected /\ app # "idle"
  BY <1>1, RequestIsCurrent
<1>3. PICK r \in {"none", "send"} : Handler(r) /\ link' = on_connect_ok(s, r)
  BY ReactionTyped DEF OnConnectOk, PlainUse
<1>4. /\ s \in LinkState /\ s.tcp = [link.tcp EXCEPT ![h] = "open"] /\ s.pTcp = link.pTcp
  BY <1>1, SetTcp DEF HandleState
<1> HIDE DEF s
<1>5. s.tcp[h] = "open"
  BY <1>1, <1>4 DEF LinkState
<1>6. Live(s)
  BY <1>2, <1>4, <1>5 DEF Live, Closing
<1>7. link'.pTcp = h /\ link'.tcp = s.tcp /\ link'.connected = TRUE
  <2> DEFINE t == on_connect_ok(s, r)
  <2>1. r \in {"none", "send", "close"} /\ r # "close" /\ s.pTcp = h
    BY <1>2, <1>4
  <2>2. t.pTcp = s.pTcp /\ t.tcp = s.tcp /\ t.connected = TRUE
    BY <1>6, <2>1, ConnectOkLive
  <2> QED BY <1>3, <2>1, <2>2
<1>8. told' = "up" /\ UNCHANGED <<app, dirty, faults>>
  BY <1>3 DEF OnConnectOk, Handler
<1> QED BY <1>1, <1>2, <1>4, <1>7, <1>8 DEF Opens

\* A connect request that fails.
LEMMA ConnectFailShape ==
    ASSUME Strong, NEW h \in Handles, OnConnectFail(h)
    PROVE  Breaks(h) \/ Drops
<1> DEFINE s == [link EXCEPT !.tcp[h] = "failed"]
           t == on_connect_failed(s)
<1>1. link.tcp[h] = "connecting" /\ Live(link) /\ link \in LinkState
  BY DEF OnConnectFail, Strong, Inductive, Sound, Closable, Live
<1>2. /\ h = link.pTcp /\ ~PeerLink /\ link.pTcp # NULL /\ ~link.connected /\ app # "idle"
  BY <1>1, RequestIsCurrent
<1>3. faults' = faults + 1 /\ link' = flush(t, h) /\ UNCHANGED <<app, dirty, told>>
  BY DEF OnConnectFail, Fault
<1>4. /\ s \in LinkState /\ s.tcp = [link.tcp EXCEPT ![h] = "failed"] /\ s.pTcp = link.pTcp
      /\ s.pending = link.pending
  BY <1>1, SetTcp DEF HandleState
<1> HIDE DEF s
<1>5. s.tcp[h] = "failed" /\ \A g \in Handles : g # h => s.tcp[g] = link.tcp[g]
  BY <1>1, <1>4 DEF LinkState
<1>6. Live(s)
  BY <1>2, <1>4, <1>5 DEF Live, Closing
<1>7. /\ Live(t) /\ t.connected = FALSE /\ t.pTcp = h /\ t.tcp = s.tcp /\ t.pending = link.pending
  BY <1>2, <1>4, <1>6, ConnectFailedLive
<1> HIDE DEF t
<1>8. CASE link' = t
  BY <1>2, <1>3, <1>4, <1>7, <1>8 DEF Breaks
<1>9. CASE link' # t
  <2>1. t.pending[h] # 0 /\ LetGo(t, link') /\ link'.timer = ~PeerLink
    BY <1>3, <1>7, <1>9, FlushLetsGo
  <2>2. LetGo(link, link')
    BY <1>2, <1>5, <1>7, <2>1 DEF LetGo
  <2>3. Unsent(link)
    BY <1>1, <1>7, <2>1 DEF Unsent, LinkState
  <2> QED BY <1>2, <1>3, <2>1, <2>2, <2>3 DEF Drops
<1> QED BY <1>8, <1>9

\* What uv_read_stop leaves of the connection that is read.
LEMMA ReadStopped ==
    ASSUME Strong, NEW h \in Handles, h \in link.reading,
           NEW s, s = uv_read_stop(link, h)
    PROVE  /\ Live(s) /\ s.pTcp = h /\ s.tcp = [link.tcp EXCEPT ![h] = "eof"]
           /\ s.connecting = link.connecting /\ h = link.pTcp /\ link.connected
           /\ \A g \in Handles : g # h => s.tcp[g] = link.tcp[g]
           /\ app # "idle"
<1>1. Sound(link) /\ link \in LinkState /\ (app = "idle" => link = Blank)
  BY DEF Strong, Inductive, Sound, Closable, Live
<1>2. h = link.pTcp /\ link.connected
  BY <1>1 DEF Sound, Closable
<1>3. /\ s \in LinkState /\ s.tcp = [link.tcp EXCEPT ![h] = "eof"] /\ s.pTcp = link.pTcp
      /\ s.connecting = link.connecting
  BY <1>1 DEF uv_read_stop, LinkState, HandleState
<1>4. s.tcp[h] = "eof" /\ \A g \in Handles : g # h => s.tcp[g] = link.tcp[g]
  BY <1>1, <1>3 DEF LinkState
<1>5. Live(s)
  BY <1>2, <1>3, <1>4 DEF Live, Closing
<1>6. app # "idle"
  BY <1>1 DEF Blank
<1> QED BY <1>2, <1>3, <1>4, <1>5, <1>6

\* The connection is lost: a client keeps the handle, a peer closes it.
LEMMA ReadErrorShape ==
    ASSUME Strong, NEW h \in Handles, OnReadError(h)
    PROVE  Breaks(h) \/ Drops \/ Closes
<1> DEFINE s == uv_read_stop(link, h)
<1>1. PICK r \in (IF PeerLink THEN Reactions ELSE {"none"}) :
        Handler(r) /\ link' = on_read_failed(s, r)
  BY DEF OnReadError
<1>2. /\ h \in link.reading /\ faults' = faults + 1
      /\ told' = IF PeerLink THEN "down" ELSE told
  BY DEF OnReadError, HearsOfLoss, Fault
<1>3. /\ Live(s) /\ s.pTcp = h /\ s.tcp = [link.tcp EXCEPT ![h] = "eof"]
      /\ s.connecting = link.connecting /\ h = link.pTcp /\ link.connected
      /\ \A g \in Handles : g # h => s.tcp[g] = link.tcp[g]
      /\ app # "idle"
  BY <1>2, ReadStopped
<1> HIDE DEF s
<1>4. CASE ~PeerLink
  <2>1. link' = [s EXCEPT !.connected = FALSE, !.timer = TRUE] /\ r = "none"
    BY <1>1, <1>4 DEF on_read_failed
  <2>2. link'.pTcp = h /\ ~link'.connected /\ link'.tcp = [link.tcp EXCEPT ![h] = "eof"]
    BY <1>3, <2>1 DEF Live, LinkState
  <2>3. UNCHANGED <<app, dirty, told>>
    BY <1>1, <1>2, <1>4, <2>1 DEF Handler
  <2> QED BY <1>2, <1>3, <1>4, <2>2, <2>3 DEF Breaks
<1>5. CASE PeerLink
  <2> DEFINE c == react(s, r)
  <2>1. r \in {"none", "send", "close"} /\ link' = closeError(s, r)
    BY <1>1, <1>5, ReactionTyped DEF on_read_failed
  <2>2. ClosedFrom(c, link') /\ Live(c)
    BY <1>3, <2>1, CloseErrorLive, React
  <2>3. LetGo(c, link') /\ ~link'.timer
    BY <2>2, ClosedLetsGo
  <2>4. CASE r = "close"
    <3>1. LetGo(s, c)
      BY <1>3, <2>1, <2>4, React, ClosedLetsGo
    <3> HIDE DEF c
    <3>2. LetGo(link, link')
      BY <1>3, <2>3, <3>1, HandlesAssumption DEF LetGo
    <3> QED BY <1>1, <1>2, <1>3, <1>5, <2>3, <2>4, <3>2 DEF Handler, Closes
  <2>5. CASE r # "close"
    <3>1. Queued(s, c)
      BY <1>3, <2>1, <2>5, React
    <3> HIDE DEF c
    <3>2. LetGo(link, link')
      BY <1>3, <2>3, <3>1 DEF LetGo, Queued
    <3>3. UNCHANGED <<app, dirty>>
      BY <1>1, <2>5 DEF Handler
    <3>4. link'.timer = ~PeerLink
      <4>1. link'.timer = FALSE
        BY <2>2 DEF ClosedFrom
      <4> QED BY <1>5, <4>1
    <3> QED BY <1>2, <1>3, <1>5, <3>2, <3>3, <3>4 DEF Drops
  <2> QED BY <2>4, <2>5
<1> QED BY <1>4, <1>5

\* A write is called back.
LEMMA WriteShape ==
    ASSUME Strong, NEW h \in Handles, OnWriteOk(h) \/ OnWriteFail(h)
    PROVE  Idles \/ Drops
<1> DEFINE q == [link EXCEPT !.pending[h] = link.pending[h] - 1]
<1>1. Live(link) /\ link \in LinkState /\ (app = "idle" => link = Blank)
  BY DEF Strong, Inductive, Sound, Closable, Live
<1>2. link.pending[h] > 0 /\ link.pending[h] - 1 \in Nat
  BY <1>1 DEF OnWriteOk, OnWriteFail, LinkState
<1>3. Queued(link, q)
  BY <1>1, <1>2, SetPending
<1>4. CASE OnWriteOk(h)
  BY <1>3, <1>4 DEF OnWriteOk, Idles
<1>5. CASE OnWriteFail(h)
  <2>1. /\ link' = on_write_failed(q) /\ faults' = faults + 1 /\ WriteErrors
        /\ UNCHANGED <<app, dirty, told>>
    BY <1>5 DEF OnWriteFail, Fault
  <2> HIDE DEF q
  <2>2. Live(q)
    BY <1>1, <1>3, QueuedIsLive
  <2>3. LetGo(q, link') /\ link'.timer = ~PeerLink
    BY <2>1, <2>2, WriteFailedLetsGo
  <2>4. LetGo(link, link')
    BY <1>3, <2>3 DEF LetGo, Queued
  <2>5. app # "idle" /\ Unsent(link)
    BY <1>1, <1>2 DEF Blank, Unsent
  <2> QED BY <2>1, <2>3, <2>4, <2>5 DEF Drops
<1> QED BY <1>4, <1>5

\* A handle that was closed comes to its end.
LEMMA FinishShape ==
    ASSUME PlainUse, Strong, Next, NEW h \in Handles, FinishClose(h)
    PROVE  Ends(h)
<1> DEFINE t == [link EXCEPT !.tcp[h] = "none"]
           u == IF link.tcp[h] = "cancelling" THEN on_connect_failed(t) ELSE t
<1>1. /\ Sound(link) /\ link \in LinkState /\ (app = "idle" => link = Blank) /\ Calm(link)
  BY DEF Strong, Inductive, Sound, Closable, Live
<1>2. /\ link.tcp[h] \in Closing /\ link' = flush(u, h) /\ UNCHANGED <<app, dirty, told, faults>>
  BY DEF FinishClose
<1>3. link.pTcp = NULL /\ ~link.connected
  BY <1>1, <1>2 DEF Calm, Sound
<1>4. /\ Sound(u) /\ u.connected = link.connected /\ u.timer = link.timer
      /\ u.pTcp = link.pTcp /\ u.pending = link.pending
  BY <1>1, <1>2, FinishSound
<1>5. u.tcp = [link.tcp EXCEPT ![h] = "none"] /\ (~link.connecting => ~u.connecting)
  <2>1. /\ t \in LinkState /\ t.tcp = [link.tcp EXCEPT ![h] = "none"]
        /\ t.connecting = link.connecting
    BY <1>1, SetTcp DEF HandleState
  <2> HIDE DEF t
  <2>2. on_connect_failed(t).tcp = t.tcp /\ ~on_connect_failed(t).connecting
    BY <2>1 DEF on_connect_failed, LinkState
  <2> QED BY <2>1, <2>2
<1>6. link' \in LinkState
  BY NextInductive DEF Strong, Inductive, Typed
<1>7. Live(u)
  BY <1>4 DEF Sound, Closable
<1>8. app # "idle"
  BY <1>1, <1>2 DEF Blank, Closing
<1> HIDE DEF u
<1>9. CASE link' = u
  BY <1>1, <1>2, <1>3, <1>4, <1>5, <1>8, <1>9 DEF Ends, Calm
<1>10. CASE link' # u
  <2>1. /\ u.pending[h] # 0 /\ LetGo(u, link') /\ link'.timer = ~PeerLink
        /\ link'.connecting = u.connecting \/ ~PeerLink
    BY <1>2, <1>7, <1>10, FlushLetsGo
  <2>2. \A g \in Handles : link'.tcp[g] = u.tcp[g]
    BY <1>3, <1>4, <2>1, HandlesAssumption DEF LetGo
  <2>3. link'.tcp = [link.tcp EXCEPT ![h] = "none"]
    BY <1>1, <1>5, <1>6, <2>2 DEF LinkState
  <2>4. Unsent(link)
    BY <1>1, <1>4, <2>1 DEF Unsent, LinkState
  <2>5. link'.pTcp = NULL /\ ~link'.connected
    BY <2>1 DEF LetGo
  <2> QED BY <1>1, <1>2, <1>3, <1>5, <1>8, <2>1, <2>3, <2>4, <2>5 DEF Ends, Calm
<1> QED BY <1>9, <1>10

\* connect(), called by the user for the first time.
LEMMA UserConnectShape ==
    ASSUME PlainUse, Strong, Connect
    PROVE  \E h \in Handles, outcome \in ConnectOutcome : Tries(h, outcome)
<1>1. Live(link) /\ link = Blank /\ app = "idle" /\ ~PeerLink
  BY DEF Connect, PlainUse, Strong, Inductive, Sound, Closable
<1>2. /\ ~link.connected /\ ~link.connecting
      /\ \A g \in Handles : link.tcp[g] \notin Closing
  BY <1>1 DEF Blank, Closing
<1>3. PICK h \in FreeHandles(link), outcome \in ConnectOutcome :
        /\ link' = connect(link, h, outcome)
        /\ IF outcome = "connecting" THEN UNCHANGED faults ELSE SyncErrors /\ Fault
  BY DEF Connect, Attempted
<1>4. app' = "open" /\ UNCHANGED <<dirty, told>>
  BY DEF Connect
<1>5. Tries(h, outcome)
  BY <1>1, <1>2, <1>3, <1>4, ConnectShape
<1> QED BY <1>3, <1>5 DEF FreeHandles

\* The reconnect timer.
LEMMA TimerShape ==
    ASSUME Strong, OnTimer
    PROVE  Idles \/ \E h \in Handles, outcome \in ConnectOutcome : Tries(h, outcome)
<1>1. /\ Live(link) /\ link \in LinkState /\ Calm(link) /\ (app = "idle" => link = Blank)
  BY DEF Strong, Inductive, Sound, Closable, Live
<1>2. /\ link.timer /\ \A g \in Handles : link.tcp[g] \notin Closing
      /\ UNCHANGED <<app, dirty, told>>
  BY DEF OnTimer
<1>3. ~PeerLink /\ app # "idle"
  BY <1>1, <1>2 DEF Calm, Blank
<1>4. CASE link.connected \/ link.connecting
  BY <1>1, <1>2, <1>4 DEF OnTimer, Idles, Queued
<1>5. CASE ~link.connected /\ ~link.connecting
  <2>1. PICK h \in FreeHandles(link), outcome \in ConnectOutcome :
          /\ link' = connect(link, h, outcome)
          /\ IF outcome = "connecting" THEN UNCHANGED faults ELSE SyncErrors /\ Fault
    BY <1>5 DEF OnTimer, Attempted
  <2>2. Tries(h, outcome)
    BY <1>1, <1>2, <1>3, <1>5, <2>1, ConnectShape
  <2> QED BY <2>1, <2>2 DEF FreeHandles
<1> QED BY <1>4, <1>5

\* Whatever a callback or a call does, it is a step of one of the seven kinds.
LEMMA Shape ==
    ASSUME PlainUse, Strong, Next
    PROVE  Steps
<1>1. /\ Live(link) /\ link \in LinkState /\ (app = "idle" => link = Blank)
  BY DEF Strong, Inductive, Sound, Closable, Live
<1>2. CASE Connect
  BY <1>2, UserConnectShape DEF Steps
<1>3. CASE Send
  BY <1>1, <1>3, SendQueues DEF Send, Idles, Steps
<1>4. CASE Close
  <2>1. LetGo(link, link') /\ ~link'.timer
    BY <1>1, <1>4, CloseTcp, ClosedLetsGo DEF Close, close
  <2> QED BY <1>4, <2>1 DEF Close, Closes, Steps
<1>5. CASE OnTimer
  BY <1>5, TimerShape DEF Steps
<1>6. ASSUME NEW h \in Handles, OnConnectOk(h) PROVE Steps
  BY <1>6, ConnectOkShape DEF Steps
<1>7. ASSUME NEW h \in Handles, OnConnectFail(h) PROVE Steps
  BY <1>7, ConnectFailShape DEF Steps
<1>8. ASSUME NEW h \in Handles, OnReadData(h) PROVE Steps
  <2>1. PICK r \in {"none", "send", "close"} : Handler(r) /\ link' = react(link, r)
    BY <1>8, ReactionTyped DEF OnReadData
  <2>2. app # "idle" /\ UNCHANGED <<told, faults>>
    BY <1>1, <1>8 DEF OnReadData, Blank
  <2> QED BY <1>1, <2>1, <2>2, ReactShape DEF Steps
<1>9. ASSUME NEW h \in Handles, OnReadError(h) PROVE Steps
  BY <1>9, ReadErrorShape DEF Steps
<1>10. ASSUME NEW h \in Handles, OnWriteOk(h) \/ OnWriteFail(h) PROVE Steps
  BY <1>10, WriteShape DEF Steps
<1>11. ASSUME NEW h \in Handles, FinishClose(h) PROVE Steps
  BY <1>11, FinishShape DEF Steps
<1> QED BY <1>2, <1>3, <1>4, <1>5, <1>6, <1>7, <1>8, <1>9, <1>10, <1>11
        DEF Next, User, Loop

-----------------------------------------------------------------------------
(* The invariant.                                                          *)

\* Strong holds at first: a client link has no handle, a peer link its own.
LEMMA InitStrong == Init => Strong
<1> SUFFICES ASSUME Init PROVE Strong
  OBVIOUS
<1>1. Inductive
  BY InitInductive
<1>2. /\ Blank.tcp = [h \in Handles |-> "none"] /\ Blank.pTcp = NULL
      /\ ~Blank.timer /\ ~Blank.connecting
  BY DEF Blank
<1>3. CASE ~PeerLink
  BY <1>1, <1>2, <1>3 DEF Init, Strong, Final, Calm, PeerApp, Closing
<1>4. CASE PeerLink
  <2>1. PICK h \in Handles : link = Accepted(h) /\ app = "open"
    BY <1>4 DEF Init
  <2>2. /\ link.tcp = [Blank.tcp EXCEPT ![h] = "open"] /\ link.pTcp = h
        /\ link.connected = TRUE /\ ~link.connecting /\ ~link.timer
    BY <2>1, HandlesAssumption DEF Accepted, uv_read_start, Closing, Blank
  <2> QED BY <1>1, <1>2, <2>1, <2>2 DEF Strong, Final, Calm, PeerApp, Closing
<1> QED BY <1>3, <1>4

\* Each kind of step keeps Calm and PeerApp.
LEMMA StepsCalm ==
    ASSUME Strong, Steps
    PROVE  Calm(link') /\ PeerApp'
<1>1. /\ link \in LinkState /\ Live(link) /\ Calm(link) /\ PeerApp
      /\ link.tcp \in [Handles -> HandleState]
  BY DEF Strong, Inductive, Sound, Closable, Live, LinkState
<1>2. CASE Idles
  BY <1>1, <1>2 DEF Idles, Queued, Calm, PeerApp
<1>3. CASE Closes
  BY <1>1, <1>3 DEF Closes, LetGo, Calm, PeerApp
<1>4. CASE Drops
  BY <1>1, <1>4 DEF Drops, LetGo, Calm, PeerApp
<1>5. ASSUME NEW h \in Handles, Opens(h) PROVE Calm(link') /\ PeerApp'
  BY <1>1, <1>5, HandlesAssumption DEF Opens, Calm, PeerApp, Closing
<1>6. ASSUME NEW h \in Handles, Breaks(h) PROVE Calm(link') /\ PeerApp'
  BY <1>1, <1>6, HandlesAssumption DEF Breaks, Calm, PeerApp, Closing
<1>7. ASSUME NEW h \in Handles, Ends(h) PROVE Calm(link') /\ PeerApp'
  BY <1>1, <1>7, HandlesAssumption DEF Ends, Calm, PeerApp, Closing
<1>8. ASSUME NEW h \in Handles, NEW outcome \in ConnectOutcome, Tries(h, outcome)
      PROVE  Calm(link') /\ PeerApp'
  BY <1>1, <1>8 DEF Tries, Calm, PeerApp, Closing, ConnectOutcome
<1> QED BY <1>2, <1>3, <1>4, <1>5, <1>6, <1>7, <1>8 DEF Steps

\* Strong is inductive.
LEMMA NextStrong == PlainUse /\ Strong /\ [Next]_vars => Strong'
<1> SUFFICES ASSUME PlainUse, Strong, [Next]_vars PROVE Strong'
  OBVIOUS
<1>1. CASE Next
  <2>1. Inductive' /\ Final'
    BY <1>1, NextInductive, FinalStep DEF Strong
  <2>2. Calm(link') /\ PeerApp'
    BY <1>1, Shape, StepsCalm
  <2> QED BY <2>1, <2>2 DEF Strong
<1>2. CASE UNCHANGED vars
  <2>1. Inductive'
    BY NextInductive DEF Strong
  <2> QED BY <1>2, <2>1 DEF vars, Strong, Final, Released, Unsent, PeerApp
<1> QED BY <1>1, <1>2

\* So it always holds.
LEMMA StrongAlways == PlainUse => (Spec => []Strong)
<1> SUFFICES ASSUME PlainUse PROVE Spec => []Strong
  OBVIOUS
<1>1. Strong /\ [Next]_vars => Strong'
  BY NextStrong
<1> QED BY <1>1, InitStrong, PTL DEF Spec

-----------------------------------------------------------------------------
(* Connections.                                                            *)

\* PeerReleases: a server's link that is lost or closed keeps no descriptor.
THEOREM PeerKeepsNothing == PlainUse /\ PeerLink => (Spec => []PeerReleases)
<1> SUFFICES ASSUME PlainUse, PeerLink PROVE Spec => []PeerReleases
  OBVIOUS
<1>1. Strong => PeerReleases
  BY DEF Strong, Calm, PeerReleases, Orphans
<1> QED BY <1>1, StrongAlways, PTL

\* An open handle changes only with a failure or with the user's close().
LEMMA LossStep ==
    ASSUME Strong, Steps, NEW h \in Handles, link.tcp[h] = "open", link'.tcp[h] # "open"
    PROVE  \/ faults' > faults
           \/ /\ app' = "closed"
              /\ \A g \in Handles : link.tcp[g] \in Closing => link'.tcp[g] = link.tcp[g]
<1>1. /\ link \in LinkState /\ Live(link) /\ link.tcp \in [Handles -> HandleState]
      /\ faults \in Nat
  BY TcpLinkAssumption DEF Strong, Inductive, Typed, Sound, Closable, Live, LinkState
<1>2. CASE Idles
  BY <1>2 DEF Idles, Queued
<1>3. CASE Closes
  <2>1. \A g \in Handles : link.tcp[g] \in Closing => g # link.pTcp
    BY <1>1, HandlesAssumption DEF Live
  <2> QED BY <1>1, <1>3, <2>1 DEF Closes, LetGo
<1>4. CASE Drops
  BY <1>1, <1>4 DEF Drops
<1>5. ASSUME NEW g \in Handles, Opens(g) PROVE FALSE
  BY <1>1, <1>5 DEF Opens
<1>6. ASSUME NEW g \in Handles, Breaks(g) PROVE faults' > faults
  BY <1>1, <1>6 DEF Breaks
<1>7. ASSUME NEW g \in Handles, Ends(g) PROVE FALSE
  BY <1>1, <1>7 DEF Ends, Closing
<1>8. ASSUME NEW g \in Handles, NEW outcome \in ConnectOutcome, Tries(g, outcome) PROVE FALSE
  BY <1>1, <1>8 DEF Tries
<1> QED BY <1>2, <1>3, <1>4, <1>5, <1>6, <1>7, <1>8 DEF Steps

\* LossHasCause: nothing but a failure or the user takes a connection down.
THEOREM LossIsCaused == PlainUse => (Spec => LossHasCause)
<1> SUFFICES ASSUME PlainUse PROVE Spec => LossHasCause
  OBVIOUS
<1> DEFINE A == (\E h \in Handles : link.tcp[h] = "open" /\ link'.tcp[h] # "open")
                  => \/ faults' > faults
                     \/ /\ app' = "closed"
                        /\ \A h \in Handles : link.tcp[h] \in Closing => link'.tcp[h] = link.tcp[h]
<1>1. Strong /\ [Next]_vars => [A]_vars
  <2> SUFFICES ASSUME Strong, Next PROVE A
    BY DEF vars
  <2>1. Steps
    BY Shape
  <2> QED BY <2>1, LossStep
<1>2. Spec => []Strong
  BY StrongAlways
<1> QED BY <1>1, <1>2, PTL DEF Spec, LossHasCause

\* The handles that are of no use any more, that of m_pTcp when its attempt or
\* its connection failed included.
Spent == {h \in Handles : /\ link.tcp[h] \notin Closing \cup {"none"}
                          /\ ~(h = link.pTcp /\ link.tcp[h] \in {"connecting", "open"})}

\* One handle more is one failure more.
LEMMA OneMore ==
    ASSUME NEW S, NEW T, NEW h, IsFiniteSet(S), T \subseteq S \cup {h}
    PROVE  IsFiniteSet(T) /\ Cardinality(T) <= Cardinality(S) + 1
<1>1. /\ IsFiniteSet(S \cup {h})
      /\ Cardinality(S \cup {h}) = IF h \in S THEN Cardinality(S) ELSE Cardinality(S) + 1
  BY FS_AddElement
<1>2. Cardinality(S) \in Nat
  BY FS_CardinalityType
<1>3. /\ IsFiniteSet(T) /\ Cardinality(T) <= Cardinality(S \cup {h})
  BY <1>1, FS_Subset
<1>4. Cardinality(T) \in Nat
  BY <1>3, FS_CardinalityType
<1> QED BY <1>1, <1>2, <1>3, <1>4

\* Each kind of step spends a handle at most, and then a failure is counted.
LEMMA SpentStep ==
    ASSUME Strong, Steps, Cardinality(Spent) <= faults
    PROVE  Cardinality(Spent)' <= faults'
<1>1. /\ link \in LinkState /\ Live(link) /\ Calm(link) /\ Attempts(link) /\ Sound(link)
      /\ link.tcp \in [Handles -> HandleState] /\ faults \in Nat
  BY TcpLinkAssumption DEF Strong, Inductive, Typed, Sound, Closable, Live, LinkState
<1>2. IsFiniteSet(Spent) /\ Cardinality(Spent) \in Nat
  <2>1. Spent \subseteq Handles
    BY DEF Spent
  <2> QED BY <2>1, HandlesAssumption, FS_Subset, FS_CardinalityType
<1>a. ASSUME Spent' \subseteq Spent, faults' \in {faults, faults + 1}
      PROVE  Cardinality(Spent)' <= faults'
  <2>1. IsFiniteSet(Spent') /\ Cardinality(Spent') <= Cardinality(Spent)
    BY <1>2, <1>a, FS_Subset
  <2>2. Cardinality(Spent') \in Nat
    BY <2>1, FS_CardinalityType
  <2> QED BY <1>1, <1>2, <1>a, <2>1, <2>2
<1>b. ASSUME NEW h, Spent' \subseteq Spent \cup {h}, faults' = faults + 1
      PROVE  Cardinality(Spent)' <= faults'
  <2>1. IsFiniteSet(Spent') /\ Cardinality(Spent') <= Cardinality(Spent) + 1
    BY <1>2, <1>b, OneMore
  <2>2. Cardinality(Spent') \in Nat
    BY <2>1, FS_CardinalityType
  <2> QED BY <1>1, <1>2, <1>b, <2>1, <2>2
<1>3. CASE Idles
  BY <1>3, <1>a DEF Idles, Queued, Spent
<1>4. ASSUME LetGo(link, link') PROVE Spent' \subseteq Spent
  BY <1>4 DEF LetGo, Spent
<1>5. CASE Closes
  BY <1>a, <1>4, <1>5 DEF Closes
<1>6. CASE Drops
  BY <1>a, <1>4, <1>6 DEF Drops
<1>7. ASSUME NEW h \in Handles, Opens(h) PROVE Cardinality(Spent)' <= faults'
  <2>1. Spent' \subseteq Spent
    BY <1>1, <1>7 DEF Opens, Spent
  <2> QED BY <1>7, <1>a, <2>1 DEF Opens
<1>8. ASSUME NEW h \in Handles, Breaks(h) PROVE Cardinality(Spent)' <= faults'
  <2>1. Spent' \subseteq Spent \cup {h}
    BY <1>1, <1>8 DEF Breaks, Spent
  <2> QED BY <1>8, <1>b, <2>1 DEF Breaks
<1>9. ASSUME NEW h \in Handles, Ends(h) PROVE Cardinality(Spent)' <= faults'
  <2>1. Spent' \subseteq Spent
    BY <1>1, <1>9 DEF Ends, Spent
  <2> QED BY <1>9, <1>a, <2>1 DEF Ends
<1>10. ASSUME NEW h \in Handles, NEW outcome \in ConnectOutcome, Tries(h, outcome)
       PROVE  Cardinality(Spent)' <= faults'
  <2>1. link.pTcp # NULL => link.tcp[link.pTcp] \notin {"connecting", "open"}
    BY <1>1, <1>10 DEF Tries, Calm, Attempts, Trying, LinkState
  <2>2. \A g \in Handles \ {h} : g \in Spent' => g \in Spent
    BY <1>1, <1>10, <2>1, HandlesAssumption DEF Tries, Spent
  <2>3. Spent' \subseteq Spent \cup {h}
    BY <2>2 DEF Spent
  <2>4. outcome = "connecting" => h \notin Spent'
    BY <1>1, <1>10 DEF Tries, Spent
  <2>5. CASE outcome = "connecting"
    <3>1. faults' = faults
      BY <1>10, <2>5 DEF Tries
    <3> QED BY <1>a, <2>3, <2>4, <2>5, <3>1
  <2>6. CASE outcome # "connecting"
    <3>1. faults' = faults + 1
      BY <1>10, <2>6 DEF Tries
    <3> QED BY <1>b, <2>3, <3>1
  <2> QED BY <2>5, <2>6
<1> QED BY <1>3, <1>5, <1>6, <1>7, <1>8, <1>9, <1>10 DEF Steps

\* OrphansBounded: a handle that nobody will ever close is paid for by a failure
\* of its own.
THEOREM AbandonsOnePerFailure == PlainUse => (Spec => []OrphansBounded)
<1> SUFFICES ASSUME PlainUse PROVE Spec => []OrphansBounded
  OBVIOUS
<1> DEFINE Paid == Cardinality(Spent) <= faults
<1>1. Init => Paid
  <2> SUFFICES ASSUME Init PROVE Paid
    OBVIOUS
  <2>1. Spent = {}
    <3>1. Blank.tcp = [h \in Handles |-> "none"]
      BY DEF Blank
    <3>2. CASE link = Blank
      BY <3>1, <3>2 DEF Spent
    <3>3. ASSUME NEW h \in Handles, link = Accepted(h) PROVE Spent = {}
      <4>1. link.tcp = [Blank.tcp EXCEPT ![h] = "open"] /\ link.pTcp = h
        BY <3>3, HandlesAssumption DEF Accepted, uv_read_start, Closing, Blank
      <4> QED BY <3>1, <4>1 DEF Spent
    <3> QED BY <3>2, <3>3 DEF Init
  <2>2. faults = 0
    BY DEF Init
  <2> QED BY <2>1, <2>2, FS_EmptySet
<1>2. Strong /\ Paid /\ [Next]_vars => Paid'
  <2> SUFFICES ASSUME Strong, Paid, [Next]_vars PROVE Paid'
    OBVIOUS
  <2>1. CASE Next
    BY <2>1, Shape, SpentStep
  <2>2. CASE UNCHANGED vars
    BY <2>2 DEF vars, Spent
  <2> QED BY <2>1, <2>2
<1>3. Strong /\ Paid => OrphansBounded
  <2> SUFFICES ASSUME Strong, Paid PROVE OrphansBounded
    OBVIOUS
  <2>1. Orphans \subseteq Spent /\ Spent \subseteq Handles
    BY DEF Orphans, Spent
  <2>2. IsFiniteSet(Spent) /\ IsFiniteSet(Orphans)
    BY <2>1, HandlesAssumption, FS_Subset
  <2>3. Cardinality(Orphans) <= Cardinality(Spent)
    BY <2>1, <2>2, FS_Subset
  <2>4. Cardinality(Orphans) \in Nat /\ Cardinality(Spent) \in Nat /\ faults \in Nat
    BY <2>2, FS_CardinalityType, TcpLinkAssumption DEF Strong, Inductive, Typed
  <2> QED BY <2>3, <2>4 DEF OrphansBounded
<1>4. Spec => []Strong
  BY StrongAlways
<1> QED BY <1>1, <1>2, <1>3, <1>4, PTL DEF Spec

-----------------------------------------------------------------------------
(* The link implements LinkSession: each kind of step is a step of the     *)
(* session, or none.                                                       *)

\* A link that is up, closing or trying to open still has work to do.
Wanted == app = "open" \/ (app = "closed" /\ dirty)

\* Phase, case by case.
LEMMA PhaseCases ==
    /\ app = "idle" => Phase = "idle"
    /\ app # "idle" /\ link.connected => Phase = "up"
    /\ app = "closed" /\ ~link.connected /\ link.pTcp = NULL /\ ~link.timer => Phase = "closed"
    /\ app # "idle" /\ ~link.connected /\ ~(app = "closed" /\ link.pTcp = NULL /\ ~link.timer)
         => Phase = IF PeerLink THEN "gone" ELSE "trying"
BY DEF Phase

\* The same of the next state.
LEMMA NextPhaseCases ==
    /\ app' = "idle" => Phase' = "idle"
    /\ app' # "idle" /\ link'.connected => Phase' = "up"
    /\ app' = "closed" /\ ~link'.connected /\ link'.pTcp = NULL /\ ~link'.timer => Phase' = "closed"
    /\ app' # "idle" /\ ~link'.connected /\ ~(app' = "closed" /\ link'.pTcp = NULL /\ ~link'.timer)
         => Phase' = IF PeerLink THEN "gone" ELSE "trying"
BY DEF Phase

\* A link in use, or with writes to be called back, is wanted.
LEMMA InUseIsWanted ==
    ASSUME Strong, app # "idle", link.connected \/ link.pTcp # NULL \/ link.timer \/ Unsent(link)
    PROVE  Wanted
BY DEF Strong, Final, Released, Wanted, Inductive, Typed

\* Every step maps to a step of the session or to a stuttering one.
LEMMA SessionStep ==
    ASSUME PeerLink => ~WriteErrors, Strong, Strong', Steps
    PROVE  Session!Next \/ UNCHANGED Session!vars
<1>1. /\ link \in LinkState /\ Calm(link) /\ PeerApp /\ Sound(link)
      /\ app \in {"idle", "open", "closed"} /\ app' \in {"idle", "open", "closed"}
      /\ dirty' \in BOOLEAN /\ NULL \notin Handles
  BY HandlesAssumption DEF Strong, Inductive, Typed
<1>2. link.connected => link.pTcp # NULL /\ ~link.timer
  BY <1>1 DEF Sound
<1>3. CASE Idles
  BY <1>3, PhaseCases, NextPhaseCases, <1>1 DEF Idles, Queued, Session!vars
<1>4. CASE Closes
  <2>1. Phase' = "closed" /\ Phase # "idle"
    BY <1>1, <1>4, PhaseCases, NextPhaseCases DEF Closes, LetGo
  <2>2. told' = told \/ (PeerLink /\ Phase = "up" /\ told' = "down")
    BY <1>4, PhaseCases DEF Closes
  <2> QED BY <1>1, <1>4, <2>1, <2>2 DEF Closes, Session!Next, Session!Close
<1>5. CASE Drops
  <2>1. /\ app # "idle" /\ app' = app /\ ~link'.connected /\ link'.pTcp = NULL
        /\ link'.timer = ~PeerLink /\ dirty' = dirty
        /\ \/ told' = told /\ Unsent(link) /\ ~PeerLink
           \/ PeerLink /\ link.connected /\ told' = "down"
    BY <1>5 DEF Drops, LetGo
  <2>2. CASE link.connected
    <3>1. Wanted /\ Phase = "up"
      BY <2>1, <2>2, InUseIsWanted, PhaseCases
    <3>2. Phase' = IF PeerLink THEN "gone" ELSE "trying"
      BY <1>1, <2>1, <2>2, NextPhaseCases DEF PeerApp
    <3>3. told' = IF PeerLink THEN "down" ELSE told
      BY <2>1
    <3> QED BY <2>1, <3>1, <3>2, <3>3 DEF Wanted, Session!Next, Session!Lost, Session!Wanted
  <2>3. CASE ~link.connected /\ PeerLink
    <3>1. link.pTcp = NULL /\ ~link.timer
      BY <1>1, <2>3 DEF Calm
    <3>2. ~link'.timer
      BY <2>1, <2>3
    <3>3. Phase' = Phase
      BY <1>1, <2>1, <2>3, <3>1, <3>2, PhaseCases, NextPhaseCases
    <3> QED BY <2>1, <2>3, <3>3 DEF Session!vars
  <2>4. CASE ~link.connected /\ ~PeerLink
    <3>1. Phase' = "trying" /\ told' = told /\ Wanted
      BY <2>1, <2>4, NextPhaseCases, InUseIsWanted
    <3>2. Phase \in {"trying", "closed"}
      BY <2>1, <2>4, PhaseCases
    <3> QED BY <2>1, <2>4, <3>1, <3>2
            DEF Wanted, Session!Next, Session!Revive, Session!Wanted, Session!vars
  <2> QED BY <2>2, <2>3, <2>4
<1>6. ASSUME NEW h \in Handles, Opens(h) PROVE Session!Next
  <2>1. /\ ~PeerLink /\ link.pTcp # NULL /\ ~link.connected /\ link'.connected
        /\ app # "idle" /\ told' = "up" /\ UNCHANGED <<app, dirty>>
    BY <1>1, <1>6 DEF Opens
  <2>2. Phase = "trying" /\ Phase' = "up" /\ Wanted
    BY <2>1, PhaseCases, NextPhaseCases, InUseIsWanted
  <2> QED BY <2>1, <2>2 DEF Wanted, Session!Next, Session!Established, Session!Wanted
<1>7. ASSUME NEW h \in Handles, Breaks(h) PROVE Session!Next \/ UNCHANGED Session!vars
  <2>1. /\ ~PeerLink /\ link.pTcp # NULL /\ link'.pTcp # NULL /\ ~link'.connected
        /\ app # "idle" /\ UNCHANGED <<app, dirty, told>>
    BY <1>1, <1>7 DEF Breaks
  <2>2. Phase' = "trying" /\ Wanted
    BY <2>1, NextPhaseCases, InUseIsWanted
  <2>3. Phase \in {"up", "trying"}
    BY <2>1, PhaseCases
  <2> QED BY <2>1, <2>2, <2>3
          DEF Wanted, Session!Next, Session!Lost, Session!Wanted, Session!vars
<1>8. ASSUME NEW h \in Handles, Ends(h) PROVE Session!Next \/ UNCHANGED Session!vars
  <2>1. /\ link.pTcp = NULL /\ ~link.connected /\ link'.pTcp = NULL /\ ~link'.connected
        /\ app # "idle" /\ UNCHANGED <<app, dirty, told>>
        /\ link'.timer = link.timer \/ (link'.timer = ~PeerLink /\ Unsent(link))
    BY <1>8 DEF Ends
  <2>2. CASE link'.timer = link.timer
    <3>1. Phase' = Phase
      BY <2>1, <2>2, PhaseCases, NextPhaseCases
    <3> QED BY <2>1, <3>1 DEF Session!vars
  <2>3. CASE link'.timer # link.timer
    <3>1. ~PeerLink /\ link'.timer /\ Unsent(link)
      BY <1>1, <2>1, <2>3 DEF Calm, LinkState
    <3>2. Wanted /\ Phase' = "trying"
      BY <2>1, <3>1, InUseIsWanted, NextPhaseCases
    <3>3. Phase \in {"trying", "closed"}
      BY <2>1, <3>1, PhaseCases
    <3> QED BY <2>1, <3>1, <3>2, <3>3
            DEF Wanted, Session!Next, Session!Revive, Session!Wanted, Session!vars
  <2> QED BY <2>2, <2>3
<1>9. ASSUME NEW h \in Handles, NEW outcome \in ConnectOutcome, Tries(h, outcome)
      PROVE  Session!Next \/ UNCHANGED Session!vars
  <2>1. /\ ~PeerLink /\ ~link.connected /\ ~link'.connected /\ link'.pTcp # NULL
        /\ UNCHANGED <<dirty, told>>
        /\ \/ app = "idle" /\ app' = "open"
           \/ app # "idle" /\ app' = app /\ link.timer
    BY <1>1, <1>9 DEF Tries
  <2>2. Phase' = "trying"
    BY <2>1, NextPhaseCases
  <2>3. CASE app = "idle"
    BY <2>1, <2>2, <2>3, PhaseCases DEF Session!Next, Session!Open
  <2>4. CASE app # "idle"
    <3>1. Phase = "trying"
      BY <2>1, <2>4, PhaseCases
    <3> QED BY <2>1, <2>2, <2>4, <3>1 DEF Session!vars
  <2> QED BY <2>3, <2>4
<1> QED BY <1>3, <1>4, <1>5, <1>6, <1>7, <1>8, <1>9 DEF Steps

\* A new link is a new session.
LEMMA SessionInit == Init => Session!Init
<1> SUFFICES ASSUME Init PROVE Session!Init
  OBVIOUS
<1>1. CASE ~PeerLink
  BY <1>1, PhaseCases DEF Init, Session!Init
<1>2. CASE PeerLink
  <2>1. PICK h \in Handles : link = Accepted(h) /\ app = "open" /\ told = "up" /\ ~dirty
    BY <1>2 DEF Init
  <2>2. link.connected
    BY <2>1, HandlesAssumption DEF Accepted, uv_read_start, Closing, Blank
  <2>3. Phase = "up" /\ dirty = FALSE
    BY <2>1, <2>2, PhaseCases DEF Init
  <2> QED BY <1>2, <2>1, <2>3 DEF Session!Init
<1> QED BY <1>1, <1>2

\* Implements: for every application that uses the link plainly, whatever the
\* order of callbacks, failures and calls, the application sees a LinkSession: a
\* client link always, a peer link as long as writes fail only when it is closed.
THEOREM LinkImplementsSession ==
    PlainUse /\ (PeerLink => ~WriteErrors) => (Spec => Implements)
<1> SUFFICES ASSUME PlainUse, PeerLink => ~WriteErrors PROVE Spec => Implements
  OBVIOUS
<1>1. Strong /\ Strong' /\ [Next]_vars => [Session!Next]_(Session!vars)
  <2> SUFFICES ASSUME Strong, Strong', [Next]_vars
               PROVE  Session!Next \/ UNCHANGED Session!vars
    OBVIOUS
  <2>1. CASE Next
    BY <2>1, Shape, SessionStep
  <2>2. CASE UNCHANGED vars
    BY <2>2 DEF vars, Phase, Session!vars
  <2> QED BY <2>1, <2>2
<1>2. Spec => []Strong
  BY StrongAlways
<1> QED BY <1>1, <1>2, SessionInit, PTL DEF Spec, Implements, Session!Spec
=============================================================================
