------------------------------- MODULE UdpLink -------------------------------
(***************************************************************************)
(* The methods and callbacks of UdpLink (src/src/udplink.cpp), a client of *)
(* one server.  A link is its m_pUdp; `io' is libuv's side, see UvUdp.     *)
(***************************************************************************)
EXTENDS UvUdp

\* m_pUdp is overwritten: the socket of an earlier connect goes on reading.  That
\* uv_udp_connect failed is not looked at.
connect(io, h, ok) == uv_udp_recv_start(uv_udp_connect(io, h, ok), h)

\* Whether uv_udp_try_send sends: it may fail (EAGAIN, ECONNREFUSED), and never
\* overtakes queued requests.
TryOutcomes(io, h, addressed) ==
    {FALSE} \cup IF Accepts(io, h, addressed) /\ Queued(io, h) = {} THEN {TRUE} ELSE {}

\* Whether uv_udp_send queues: it may fail (ENOMEM) on any socket.
SendOutcomes(io, h, addressed) ==
    {FALSE} \cup IF Accepts(io, h, addressed) THEN {TRUE} ELSE {}

\* Both forms of send, without and with an address, on a socket that accepts it or
\* not: a datagram is sent at once, or queued when that failed.  When queueing fails
\* too (ok is FALSE), the item is not freed.
send(io, h, d, item, tried, ok) ==
    LET t == get(io, item)
    IN  IF h = NULL THEN io
        ELSE IF tried THEN free(transmit(t, d), item)
        ELSE uv_udp_send(t, h, d, item, ok)

\* close() tells the handler each time, and lets go of m_pUdp.
LinkClose(io, h) == IF h = NULL THEN io ELSE uv_close(io, h)

\* Mutant: a send that failed keeps its item.
on_send_KeepsFailed(io, r, ok) ==
    LET t == [io EXCEPT !.requests = @ \ {r}]
    IN  IF ok THEN free(transmit(t, r.datagram), r.item) ELSE t

\* The same for UdpServer: whatever became of the datagram, the item is freed.
on_send(io, r, ok) ==
    LET t == [io EXCEPT !.requests = @ \ {r}]
    IN  free(IF ok THEN transmit(t, r.datagram) ELSE t, r.item)

\* The end of a socket: on_send for each of its requests.
on_send_all(io, h) ==
    LET due == Queued(io, h)
        items == {r.item : r \in due}
    IN  [io EXCEPT !.state[h] = "gone", !.requests = @ \ due, !.inUse = @ \ items,
            !.crashed = @ \/ ~(items \subseteq io.inUse)
                          \/ \E r, q \in due : r # q /\ r.item = q.item]
=============================================================================
