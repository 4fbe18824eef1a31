-------------------------------- MODULE UdpNet --------------------------------
(***************************************************************************)
(* A UdpServer and the UdpLinks that send to it, over a network that       *)
(* loses, repeats and reorders datagrams: what was sent stays in io.net,   *)
(* and is read when it pleases.  An empty datagram, which on_read ignores  *)
(* on both sides, is left out.  The client application sends from a Timer, *)
(* as src/test/udpclient/main.cpp does; the application of the server      *)
(* answers through the links it is given, at any time.  An action is a     *)
(* callback of libuv or a call of an application: on_read does nothing     *)
(* after on_data, so that a call from inside on_data is the same as one    *)
(* that follows.                                                           *)
(***************************************************************************)
EXTENDS UdpServer

CONSTANTS
    ServerSocket,
    Links,         \* the UdpLinks
    PlainUse,      \* listen once; connect a link when it has no handle
    MaxSends       \* bound: datagrams the clients send

ASSUME UdpNetAssumption ==
    /\ ServerSocket \in Sockets
    /\ IsFiniteSet(Links) /\ NULL \notin Links \cup {"idle", "active", "crashed"}
    /\ PlainUse \in BOOLEAN /\ MaxSends \in Nat

App == INSTANCE Timer

VARIABLES
    io,       \* libuv, the network and the pool
    server,   \* the UdpServer
    pUdp,     \* m_pUdp of each UdpLink
    data,     \* handle->data: the UdpLink of a socket
    timer,    \* the client application's Timer
    sender,   \* the UdpLink and socket that sent each datagram
    held,     \* links of the server's application, each with the last datagram
              \* it was given: from on_data to on_close
    got       \* the datagrams whose answers each UdpLink's handler was given

vars == <<io, server, pUdp, data, timer, sender, held, got>>

Init ==
    /\ io = Quiet
    /\ server = NewServer(ServerSocket, First + Cardinality(Links))
    /\ pUdp = [l \in Links |-> NULL]
    /\ data = [h \in Sockets |-> NULL]
    /\ timer = App!NewTimer
    /\ sender = <<>>
    /\ held = <<>>
    /\ got = [l \in Links |-> {}]

Runs == ~io.crashed /\ timer # "crashed"

Server == <<server, held>>
Client == <<pUdp, data, timer, sender, got>>

-----------------------------------------------------------------------------
(* The client: connect, close and the timer.                               *)

Connect(l) ==
    /\ Runs
    /\ PlainUse => pUdp[l] = NULL
    /\ \E h \in FreeSockets(io) \ {ServerSocket}, ok \in BOOLEAN :
         /\ io' = connect(io, h, ok)
         /\ pUdp' = [pUdp EXCEPT ![l] = h]
         /\ data' = [data EXCEPT ![h] = l]
    /\ UNCHANGED <<Server, timer, sender, got>>

\* Mutant: the pointer to the socket is kept.
Close_Keeps(l) ==
    /\ Runs
    /\ io' = LinkClose(io, pUdp[l])
    /\ UNCHANGED <<Server, Client>>

\* uv_close first of all stops the reading, the callback comes in FinishClose.
Close(l) ==
    /\ Runs
    /\ io' = LinkClose(io, pUdp[l])
    /\ pUdp' = [pUdp EXCEPT ![l] = NULL]
    /\ UNCHANGED <<Server, data, timer, sender, got>>

Control ==
    /\ Runs
    /\ \/ (PlainUse => timer # NULL) /\ timer' \in {App!start(timer), App!stop(timer)}
       \/ timer' = App!close(timer)
    /\ UNCHANGED <<io, Server, pUdp, data, sender, got>>

\* The application's on_timer, which sends a datagram on one of its links, by
\* either form of send.
OnTimer(l) ==
    /\ Runs /\ App!Due(timer)
    /\ Len(sender) < MaxSends
    /\ \E item \in FreeItems(io), addressed \in BOOLEAN :
       \E tried \in TryOutcomes(io, pUdp[l], addressed),
          ok \in SendOutcomes(io, pUdp[l], addressed) :
         io' = send(io, pUdp[l], [from |-> pUdp[l], to |-> ServerSocket, id |-> Len(sender) + 1],
                    item, tried, ok)
    /\ sender' = IF pUdp[l] = NULL THEN sender
                 ELSE Append(sender, [link |-> l, socket |-> pUdp[l]])
    /\ UNCHANGED <<Server, pUdp, data, timer, got>>

\* on_read of a UdpLink.
OnReadClient(d) ==
    /\ Runs /\ d.to # ServerSocket /\ io.state[d.to] = "reading"
    /\ got' = [got EXCEPT ![data[d.to]] = @ \cup {d.id}]
    /\ UNCHANGED <<io, Server, pUdp, data, timer, sender>>

-----------------------------------------------------------------------------
(* The server and its application.                                         *)

Listen ==
    /\ Runs
    /\ PlainUse => server.pUdp # NULL
    /\ io' = listen(io, server)
    /\ UNCHANGED <<Server, Client>>

CloseServer ==
    /\ Runs
    /\ io' = close_handle(io, server)
    /\ server' = close(server)
    /\ UNCHANGED <<Client, held>>

\* on_read of the UdpServer: the application gets the datagram and a link to answer.
OnReadServer(d) ==
    /\ Runs /\ d.to = ServerSocket /\ io.state[ServerSocket] = "reading"
    /\ server' = add_node(server, d.from)
    /\ held' = Put(held, server'.mapLink[create_node(d.from)].id, d.id)
    /\ UNCHANGED <<io, Client>>

\* The application answers the last datagram of a link it holds.
Answer(i) ==
    /\ Runs
    /\ \E item \in FreeItems(io), ok \in BOOLEAN, n \in DOMAIN server.mapLink :
         /\ server.mapLink[n].id = i
         /\ io' = answer(io, server, [from |-> ServerSocket, to |-> server.mapLink[n].peer,
                                      id |-> held[i]], item, ok)
    /\ UNCHANGED <<Server, Client>>

\* UdpPeerLink::close only calls on_close: the link stays in the map.
ClosePeer(i) ==
    /\ Runs
    /\ held' = [j \in DOMAIN held \ {i} |-> held[j]]
    /\ UNCHANGED <<io, server, Client>>

-----------------------------------------------------------------------------
(* The end of requests and of sockets.                                     *)

OnSend(r) ==
    /\ Runs /\ io.state[r.socket] # "closing"
    /\ \E ok \in BOOLEAN : io' = on_send(io, r, ok)
    /\ UNCHANGED <<Server, Client>>

\* What is queued on a socket that closes ends with ECANCELED.
FinishClose(h) ==
    /\ Runs /\ io.state[h] = "closing"
    /\ io' = on_send_all(io, h)
    /\ UNCHANGED <<Server, Client>>

Next ==
    \/ \E l \in Links : Connect(l) \/ Close(l) \/ OnTimer(l)
    \/ Control \/ Listen \/ CloseServer
    \/ \E d \in io.net : OnReadClient(d) \/ OnReadServer(d)
    \/ \E i \in DOMAIN held : Answer(i) \/ ClosePeer(i)
    \/ \E r \in io.requests : OnSend(r)
    \/ \E h \in Sockets : FinishClose(h)

Spec == Init /\ [][Next]_vars

-----------------------------------------------------------------------------
(* Properties.                                                             *)

Datagram == [from : Sockets, to : Sockets, id : 1..MaxSends]

\* The types; and m_pUdp of a link is a socket of its own, open and reading: it leads
\* back to the link, through connects over an open socket and closes that are repeated.
TypeOK ==
    /\ io.state \in [Sockets -> SocketState]
    /\ io.connected \subseteq Sockets
    /\ io.requests \subseteq [socket : Sockets, datagram : Datagram, item : Items]
    /\ io.net \subseteq Datagram
    /\ io.inUse \subseteq Items /\ io.leaked \subseteq Items
    /\ server.pUdp \in {NULL, ServerSocket} /\ server.lastId \in Nat
    /\ \A n \in DOMAIN server.mapLink :
            server.mapLink[n] \in [id : 1..server.lastId, peer : Sockets]
    /\ pUdp \in [Links -> Sockets \cup {NULL}]
    /\ data \in [Sockets -> Links \cup {NULL}]
    /\ \A l \in Links : pUdp[l] # NULL => io.state[pUdp[l]] = "reading" /\ data[pUdp[l]] = l
    /\ timer \in App!TimerState
    /\ got \in [Links -> SUBSET (1..MaxSends)]

\* A link that the application holds, because on_data gave it and on_close was not
\* called for it, exists, and is that of the peer whose datagram came with it: the
\* server deletes no link behind the application's back, and has one for each peer.
HeldIsAlive ==
    \A i \in DOMAIN held : \E n \in DOMAIN server.mapLink :
        server.mapLink[n].id = i /\ sender[held[i]].socket = server.mapLink[n].peer

\* However datagrams are lost, repeated and reordered, and sockets come and go: the
\* handler of a UdpLink is given answers to what that link sent only.
AnswersAreMine == \A l \in Links : \A n \in got[l] : sender[n].link = l

\* Each item in use belongs to one request whose callback is due, or was lost when
\* uv_udp_send failed: none is freed twice, none while libuv reads it, and none stays
\* behind when a socket closes.
ItemsAccounted ==
    /\ ~io.crashed /\ timer # "crashed"
    /\ \A r, q \in io.requests : r # q => r.item # q.item
    /\ io.inUse = {r.item : r \in io.requests} \cup io.leaked
    /\ io.leaked \cap {r.item : r \in io.requests} = {}
=============================================================================
