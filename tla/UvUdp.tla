-------------------------------- MODULE UvUdp --------------------------------
(***************************************************************************)
(* External: libuv's datagram sockets and the network, as src/ uses them.  *)
(* The operators transform a record `io':                                  *)
(*   state    : what each socket is doing: none, reading, closing or gone, *)
(*   connected : the sockets whose uv_udp_connect succeeded,               *)
(*   requests : the uv_udp_send requests whose callback is due,            *)
(*   net      : the datagrams ever sent: any may arrive, at any time, again *)
(*              or never,                                                  *)
(*   inUse    : the items taken from the MemPool,                          *)
(*   leaked   : those of them that nobody will give back (history),        *)
(*   crashed  : a NULL handle, a handle closed twice, an item freed twice. *)
(* A socket stands for its address as well.                                *)
(***************************************************************************)
EXTENDS Naturals, Sequences, FiniteSets

CONSTANTS
    Sockets,     \* the uv_udp_t objects
    Items,       \* bound: items of the MemPool in use at a time
    NULL

ASSUME UvUdpAssumption == NULL \notin Sockets

SocketState == {"none", "reading", "closing", "gone"}

Quiet == [state |-> [h \in Sockets |-> "none"], connected |-> {}, requests |-> {},
          net |-> {}, inUse |-> {}, leaked |-> {}, crashed |-> FALSE]

Crash(io) == [io EXCEPT !.crashed = TRUE]

Queued(io, h) == {r \in io.requests : r.socket = h}
FreeSockets(io) == {h \in Sockets : io.state[h] = "none"}
FreeItems(io) == Items \ io.inUse

uv_udp_connect(io, h, ok) == IF ok THEN [io EXCEPT !.connected = @ \cup {h}] ELSE io

\* A connected socket refuses an address (EISCONN), any other needs one (EDESTADDRREQ).
Accepts(io, h, addressed) == addressed # (h \in io.connected)

\* uv_udp_init, bind, and uv_udp_recv_start.
uv_udp_recv_start(io, h) ==
    IF h = NULL THEN Crash(io) ELSE [io EXCEPT !.state[h] = "reading"]

uv_close(io, h) ==
    IF io.state[h] = "closing" THEN Crash(io) ELSE [io EXCEPT !.state[h] = "closing"]

transmit(io, d) == [io EXCEPT !.net = @ \cup {d}]

\* With ok the callback is due later; without, it never comes.
uv_udp_send(io, h, d, item, ok) ==
    IF ok
    THEN [io EXCEPT !.requests = @ \cup {[socket |-> h, datagram |-> d, item |-> item]}]
    ELSE [io EXCEPT !.leaked = @ \cup {item}]

\* MemPool::get and free.
get(io, item) == [io EXCEPT !.inUse = @ \cup {item}]

free(io, item) ==
    [io EXCEPT !.inUse = @ \ {item}, !.crashed = @ \/ item \notin io.inUse]
=============================================================================
