------------------------------ MODULE UdpServer ------------------------------
(***************************************************************************)
(* The methods of UdpServer and of the UdpPeerLinks it makes               *)
(* (src/src/udpserver.cpp, udppeerlink.cpp), as operators on the server's  *)
(* record and on libuv's side `io', see UvUdp.  UdpServer::on_timer, which  *)
(* would take silent peers out of the map, has no caller: the constructor  *)
(* makes m_pTimer, and nothing gives it a handler or starts it.  It is     *)
(* left out, with the stamps that nothing else reads.                      *)
(***************************************************************************)
EXTENDS UdpLink, LinkidAllocator

\* mapLink: for the node of a peer, its UdpPeerLink.  `allocated' is the counter of
\* LinkidAllocator.
NewServer(h, allocated) == [pUdp |-> h, mapLink |-> <<>>, lastId |-> allocated]

\* That uv_udp_bind failed is not looked at.
listen(io, s) == uv_udp_recv_start(io, s.pUdp)

close_handle(io, s) == IF s.pUdp = NULL THEN io ELSE uv_close(io, s.pUdp)

\* The links live on, and answer nothing.
close(s) == [s EXCEPT !.pUdp = NULL]

\* UdpPeerLink::send is this, to the peer of the link.  What uv_udp_send says is not
\* looked at: when it fails, the item is not freed.
answer(io, s, d, item, ok) ==
    IF s.pUdp = NULL THEN io ELSE uv_udp_send(get(io, item), s.pUdp, d, item, ok)

\* Mutant: the port is left out.
create_node_SamePort(peer) == "ip"

\* The key of a peer: its address, both parts of it.
create_node(peer) == peer

\* f[x] = y, on a std::map.
Put(f, x, y) == [z \in DOMAIN f \cup {x} |-> IF z = x THEN y ELSE f[z]]

\* A new UdpPeerLink.
NewPeerLink(s, peer) ==
    [s EXCEPT !.mapLink = Put(@, create_node(peer), [id |-> s.lastId, peer |-> peer]),
              !.lastId = next(@)]

\* Mutant: a known peer gets a new link.
add_node_Anew(s, peer) == NewPeerLink(s, peer)

\* Nothing takes a peer out again.
add_node(s, peer) ==
    IF create_node(peer) \in DOMAIN s.mapLink THEN s ELSE NewPeerLink(s, peer)
=============================================================================
