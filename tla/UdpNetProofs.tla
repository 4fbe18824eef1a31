---------------------------- MODULE UdpNetProofs ----------------------------
(***************************************************************************)
(* Theorems about UdpNet, for every number of sockets, links, items and    *)
(* datagrams, and for every use of the links.  The first part follows the  *)
(* datagrams and the items through the methods, one lemma per method.  The *)
(* second part relates what the server, its application and the clients    *)
(* know of each other: who sent a datagram decides where its answers go.   *)
(***************************************************************************)
EXTENDS UdpNet, SequenceTheorems, FiniteSetTheorems, TLAPS

Request == [socket : Sockets, datagram : Datagram, item : Items]

IoState == [state : [Sockets -> SocketState], connected : SUBSET Sockets,
            requests : SUBSET Request, net : SUBSET Datagram, inUse : SUBSET Items,
            leaked : SUBSET Items, crashed : BOOLEAN]

\* Each item in use has one owner: a request, or nobody for ever.
Accounted(s) ==
    /\ \A r, q \in s.requests : r # q => r.item # q.item
    /\ \A i \in Items : i \in s.inUse <=> i \in s.leaked \/ \E r \in s.requests : r.item = i
    /\ \A r \in s.requests : r.item \notin s.leaked

Sane(s) == s \in IoState /\ Accounted(s)

\* The datagrams that can still be sent or read.
Carried(s) == s.net \cup {r.datagram : r \in s.requests}


\* t is s after a method that may have sent the datagrams of D.
Moves(s, t, D) ==
    Sane(t) /\ Carried(t) \subseteq Carried(s) \cup D /\ t.crashed = s.crashed

-----------------------------------------------------------------------------
(* The methods, on libuv's side.                                           *)

\* A socket changes its state: neither items nor datagrams are concerned.
LEMMA SetState ==
    ASSUME NEW s, Sane(s), NEW h \in Sockets, NEW x \in SocketState
    PROVE  LET t == [s EXCEPT !.state[h] = x]
           IN  Moves(s, t, {}) /\ t.state = [s.state EXCEPT ![h] = x]
<1> DEFINE t == [s EXCEPT !.state[h] = x]
<1>1. s \in IoState
  BY DEF Sane
<1>2. /\ t \in IoState /\ t.state = [s.state EXCEPT ![h] = x]
      /\ t.requests = s.requests /\ t.net = s.net /\ t.inUse = s.inUse
      /\ t.leaked = s.leaked /\ t.crashed = s.crashed
  BY <1>1 DEF IoState
<1> HIDE DEF t
<1>3. Accounted(t)
  BY <1>2 DEF Accounted, Sane
<1>4. Carried(t) = Carried(s)
  BY <1>2 DEF Carried
<1> QED BY <1>2, <1>3, <1>4 DEF Sane, Moves, t

\* connect() lets a socket read, whether it is connected or not.
LEMMA ConnectState ==
    ASSUME NEW s, Sane(s), NEW h \in Sockets, NEW ok \in BOOLEAN
    PROVE  LET t == connect(s, h, ok)
           IN  Moves(s, t, {}) /\ t.state = [s.state EXCEPT ![h] = "reading"]
<1> DEFINE u == uv_udp_connect(s, h, ok)
<1>1. s \in IoState
  BY DEF Sane
<1>2. /\ u \in IoState /\ u.state = s.state
      /\ u.requests = s.requests /\ u.net = s.net /\ u.inUse = s.inUse
      /\ u.leaked = s.leaked /\ u.crashed = s.crashed
  BY <1>1 DEF IoState, uv_udp_connect
<1> HIDE DEF u
<1>3. Sane(u) /\ Carried(u) = Carried(s)
  BY <1>2 DEF Accounted, Sane, Carried
<1>4. connect(s, h, ok) = [u EXCEPT !.state[h] = "reading"]
  BY UvUdpAssumption DEF connect, uv_udp_recv_start, u
<1>5. "reading" \in SocketState
  BY DEF SocketState
<1>6. /\ Moves(u, connect(s, h, ok), {})
      /\ connect(s, h, ok).state = [u.state EXCEPT ![h] = "reading"]
  BY <1>3, <1>4, <1>5, SetState
<1> QED BY <1>2, <1>3, <1>6 DEF Moves

\* A datagram that is sent at once: the item is taken and given back.
LEMMA SendNow ==
    ASSUME NEW s, Sane(s), NEW d \in Datagram, NEW item \in FreeItems(s)
    PROVE  LET t == free(transmit(get(s, item), d), item)
           IN  Moves(s, t, {d}) /\ t.state = s.state
<1> DEFINE t == free(transmit(get(s, item), d), item)
<1>1. s \in IoState /\ item \in Items /\ item \notin s.inUse
  BY DEF Sane, FreeItems
<1>2. /\ t \in IoState /\ t.state = s.state /\ t.requests = s.requests
      /\ t.net = s.net \cup {d} /\ t.inUse = s.inUse
      /\ t.leaked = s.leaked /\ t.crashed = s.crashed
  BY <1>1 DEF IoState, free, transmit, get
<1> HIDE DEF t
<1>3. Accounted(t)
  BY <1>2 DEF Accounted, Sane
<1>4. Carried(t) \subseteq Carried(s) \cup {d}
  BY <1>2 DEF Carried
<1> QED BY <1>2, <1>3, <1>4 DEF Sane, Moves, t

\* An item that was taken and is owed to nobody.
LEMMA Leak ==
    ASSUME NEW s, Sane(s), NEW item \in FreeItems(s)
    PROVE  LET t == [get(s, item) EXCEPT !.leaked = @ \cup {item}]
           IN  Moves(s, t, {}) /\ t.state = s.state
<1> DEFINE t == [get(s, item) EXCEPT !.leaked = @ \cup {item}]
<1>1. s \in IoState /\ item \in Items /\ item \notin s.inUse
  BY DEF Sane, FreeItems
<1>2. /\ t \in IoState /\ t.state = s.state /\ t.requests = s.requests
      /\ t.net = s.net /\ t.inUse = s.inUse \cup {item}
      /\ t.leaked = s.leaked \cup {item} /\ t.crashed = s.crashed
  BY <1>1 DEF IoState, get
<1> HIDE DEF t
<1>3. \A r \in s.requests : r.item # item /\ r.item \in Items
  BY <1>1 DEF Accounted, Sane, IoState, Request
<1>4. Accounted(t)
  BY <1>2, <1>3 DEF Accounted, Sane
<1>5. Carried(t) = Carried(s)
  BY <1>2 DEF Carried
<1> QED BY <1>2, <1>4, <1>5 DEF Sane, Moves, t

\* uv_udp_send of an item just taken: a request owns it, or nobody does.
LEMMA SendLater ==
    ASSUME NEW s, Sane(s), NEW h \in Sockets, NEW d \in Datagram,
           NEW item \in FreeItems(s), NEW ok \in BOOLEAN
    PROVE  LET t == uv_udp_send(get(s, item), h, d, item, ok)
           IN  Moves(s, t, {d}) /\ t.state = s.state
<1>1. CASE ~ok
  <2>1. uv_udp_send(get(s, item), h, d, item, ok) = [get(s, item) EXCEPT !.leaked = @ \cup {item}]
    BY <1>1 DEF uv_udp_send
  <2> QED BY <2>1, Leak DEF Moves
<1>2. CASE ok
  <2> DEFINE t == uv_udp_send(get(s, item), h, d, item, ok)
             q == [socket |-> h, datagram |-> d, item |-> item]
  <2>1. s \in IoState /\ item \in Items /\ item \notin s.inUse /\ q \in Request
    BY DEF Sane, FreeItems, Request
  <2>2. /\ t \in IoState /\ t.state = s.state /\ t.requests = s.requests \cup {q}
        /\ t.net = s.net /\ t.inUse = s.inUse \cup {item}
        /\ t.leaked = s.leaked /\ t.crashed = s.crashed
    BY <1>2, <2>1 DEF IoState, get, uv_udp_send
  <2> HIDE DEF t
  <2>3. /\ \A r \in s.requests : r.item # item /\ r.item \in Items
        /\ item \notin s.leaked /\ q.item = item /\ q.datagram = d
    BY <2>1 DEF Accounted, Sane, IoState, Request
  <2> HIDE DEF q
  <2>4. Accounted(t)
    BY <2>2, <2>3 DEF Accounted, Sane
  <2>5. Carried(t) \subseteq Carried(s) \cup {d}
    BY <2>2, <2>3 DEF Carried
  <2> QED BY <2>2, <2>4, <2>5 DEF Sane, Moves, t
<1> QED BY <1>1, <1>2

\* on_send frees the item of its request, once.
LEMMA OnSendFrees ==
    ASSUME NEW s, Sane(s), NEW r \in s.requests, NEW ok \in BOOLEAN
    PROVE  LET t == on_send(s, r, ok)
           IN  Moves(s, t, {}) /\ t.state = s.state
<1> DEFINE t == on_send(s, r, ok)
<1>1. s \in IoState /\ r \in Request /\ r.item \in Items /\ r.datagram \in Datagram
  BY DEF Sane, IoState, Request
<1>2. r.item \in s.inUse
  BY <1>1 DEF Sane, Accounted
<1>3. /\ t \in IoState /\ t.state = s.state /\ t.requests = s.requests \ {r}
      /\ t.net = IF ok THEN s.net \cup {r.datagram} ELSE s.net
      /\ t.inUse = s.inUse \ {r.item}
      /\ t.leaked = s.leaked /\ t.crashed = s.crashed
  <2>1. CASE ok
    BY <1>1, <1>2, <2>1 DEF IoState, on_send, free, transmit
  <2>2. CASE ~ok
    BY <1>1, <1>2, <2>2 DEF IoState, on_send, free
  <2> QED BY <2>1, <2>2
<1> HIDE DEF t
<1>4. \A q \in s.requests : q # r => q.item # r.item
  BY DEF Accounted, Sane
<1>5. r.item \notin s.leaked
  BY DEF Accounted, Sane
<1>6. Accounted(t)
  BY <1>3, <1>4, <1>5 DEF Accounted, Sane
<1>7. Carried(t) \subseteq Carried(s)
  BY <1>3 DEF Carried
<1> QED BY <1>3, <1>6, <1>7 DEF Sane, Moves, t

\* The end of a socket frees the items of its requests, each once.
LEMMA OnSendAllFrees ==
    ASSUME NEW s, Sane(s), NEW h \in Sockets
    PROVE  LET t == on_send_all(s, h)
           IN  Moves(s, t, {}) /\ t.state = [s.state EXCEPT ![h] = "gone"]
<1> DEFINE t == on_send_all(s, h)
           due == Queued(s, h)
           items == {r.item : r \in due}
<1>1. s \in IoState /\ due \subseteq s.requests /\ \A r \in s.requests : r.item \in Items
  BY DEF Sane, IoState, Request, Queued
<1>2. items \subseteq s.inUse
  BY <1>1 DEF Sane, Accounted
<1>3. ~\E r, q \in due : r # q /\ r.item = q.item
  BY <1>1 DEF Sane, Accounted
<1>4. t = [s EXCEPT !.state[h] = "gone", !.requests = @ \ due, !.inUse = @ \ items,
               !.crashed = @ \/ ~(items \subseteq s.inUse)
                             \/ \E r, q \in due : r # q /\ r.item = q.item]
  BY DEF on_send_all
<1> HIDE DEF t, due
<1>5. /\ t \in IoState /\ t.state = [s.state EXCEPT ![h] = "gone"]
      /\ t.requests = s.requests \ due /\ t.net = s.net
      /\ t.inUse = s.inUse \ items
      /\ t.leaked = s.leaked /\ t.crashed = s.crashed
  <2> HIDE DEF items
  <2>1. "gone" \in SocketState
    BY DEF SocketState
  <2> QED BY <1>1, <1>2, <1>3, <1>4, <2>1 DEF IoState
<1>6. \A i \in Items : i \in t.inUse <=> i \in t.leaked \/ \E r \in t.requests : r.item = i
  <2> TAKE i \in Items
  <2>1. i \in s.inUse <=> i \in s.leaked \/ \E r \in s.requests : r.item = i
    BY DEF Sane, Accounted
  <2>2. CASE i \in items
    <3>1. PICK q \in due : q.item = i
      BY <2>2
    <3>2. i \notin s.leaked /\ \A r \in s.requests : r.item = i => r = q
      BY <1>1, <3>1 DEF Sane, Accounted
    <3> QED BY <1>5, <2>2, <3>1, <3>2
  <2>3. CASE i \notin items
    BY <1>1, <1>5, <2>1, <2>3
  <2> QED BY <2>2, <2>3
<1>7. Accounted(t)
  BY <1>1, <1>5, <1>6 DEF Accounted, Sane
<1>8. Carried(t) \subseteq Carried(s)
  BY <1>1, <1>5 DEF Carried
<1> QED BY <1>5, <1>7, <1>8 DEF Sane, Moves, t

\* Every form of sending, by a client or by the server, on a socket there is.
LEMMA SendMoves ==
    ASSUME NEW s, Sane(s), NEW h \in Sockets, NEW d \in Datagram,
           NEW item \in FreeItems(s), NEW tried \in BOOLEAN, NEW ok \in BOOLEAN
    PROVE  LET t == send(s, h, d, item, tried, ok)
           IN  Moves(s, t, {d}) /\ t.state = s.state
<1>1. h # NULL
  BY UvUdpAssumption
<1>2. CASE tried
  <2>1. send(s, h, d, item, tried, ok) = free(transmit(get(s, item), d), item)
    BY <1>1, <1>2 DEF send
  <2> QED BY <2>1, SendNow
<1>3. CASE ~tried
  <2>1. send(s, h, d, item, tried, ok) = uv_udp_send(get(s, item), h, d, item, ok)
    BY <1>1, <1>3 DEF send
  <2> QED BY <2>1, SendLater
<1> QED BY <1>2, <1>3

-----------------------------------------------------------------------------
(* What the server, its application and the clients know of each other.    *)

PeerEntry == [id : Nat, peer : Sockets]

\* The server's sockets and its map: one link for each peer, each with an
\* identifier of its own.
ServerInv ==
    /\ server = [pUdp |-> server.pUdp, mapLink |-> server.mapLink, lastId |-> server.lastId]
    /\ server.pUdp \in {NULL, ServerSocket} /\ server.lastId \in Nat \ {0}
    /\ server.mapLink \in [DOMAIN server.mapLink -> PeerEntry]
    /\ \A n \in DOMAIN server.mapLink :
         /\ n \in Sockets \ {ServerSocket} /\ server.mapLink[n].peer = n
         /\ server.mapLink[n].id >= 1 /\ server.mapLink[n].id < server.lastId
    /\ \A n, m \in DOMAIN server.mapLink :
         server.mapLink[n].id = server.mapLink[m].id => n = m

\* The clients: m_pUdp is the link's own socket, and reads.
ClientInv ==
    /\ pUdp \in [Links -> Sockets \cup {NULL}]
    /\ data \in [Sockets -> Links \cup {NULL}]
    /\ \A l \in Links : pUdp[l] # NULL => /\ pUdp[l] # ServerSocket
                                          /\ io.state[pUdp[l]] = "reading"
                                          /\ data[pUdp[l]] = l

\* The sockets of senders belong to the same link for ever.
SenderInv ==
    /\ sender \in Seq([link : Links, socket : Sockets])
    /\ Len(sender) <= MaxSends
    /\ \A k \in 1..Len(sender) : /\ sender[k].socket # ServerSocket
                                 /\ io.state[sender[k].socket] # "none"
                                 /\ data[sender[k].socket] = sender[k].link

\* A datagram goes from its sender's socket to the server or back.
NetInv ==
    \A d \in Carried(io) :
        /\ d.id \in 1..Len(sender)
        /\ sender[d.id].socket = IF d.to = ServerSocket THEN d.from ELSE d.to

HeldInv ==
    /\ held \in [DOMAIN held -> Nat]
    /\ \A i \in DOMAIN held :
         /\ held[i] \in 1..Len(sender)
         /\ \E n \in DOMAIN server.mapLink :
              server.mapLink[n].id = i /\ sender[held[i]].socket = n

GotInv ==
    /\ got \in [Links -> SUBSET Nat]
    /\ \A l \in Links : \A n \in got[l] : n \in 1..Len(sender) /\ sender[n].link = l

\* While the server has its socket, that was not closed.
SocketInv == server.pUdp # NULL => io.state[ServerSocket] \in {"none", "reading"}

TimerInv == timer \in App!TimerState

IInv ==
    /\ Sane(io) /\ ServerInv /\ ClientInv /\ SenderInv /\ NetInv /\ HeldInv
    /\ GotInv /\ SocketInv /\ TimerInv

\* IInv, and no crash that was not there: what a step must keep.
Kept == IInv' /\ (PlainUse => io'.crashed = io.crashed)

-----------------------------------------------------------------------------
(* One lemma per action.                                                   *)

\* What IInv says of types.
LEMMA Typed ==
    ASSUME IInv
    PROVE  /\ Sane(io) /\ io \in IoState /\ io.state \in [Sockets -> SocketState]
           /\ pUdp \in [Links -> Sockets \cup {NULL}] /\ data \in [Sockets -> Links \cup {NULL}]
           /\ NULL \notin Sockets /\ NULL \notin Links /\ ServerSocket \in Sockets
           /\ Len(sender) \in Nat
           /\ \A k \in 1..Len(sender) : sender[k].link \in Links /\ sender[k].socket \in Sockets
<1>1. sender \in Seq([link : Links, socket : Sockets])
  BY DEF IInv, SenderInv
<1>2. /\ Len(sender) \in Nat
      /\ \A k \in 1..Len(sender) : sender[k] \in [link : Links, socket : Sockets]
  BY <1>1, LenProperties, ElementOfSeq
<1> QED BY <1>2, UvUdpAssumption, UdpNetAssumption DEF IInv, Sane, IoState, ClientInv

\* A step that moves datagrams and closes or opens sockets that no link has.
LEMMA IoStep ==
    ASSUME IInv, NEW D, Moves(io, io', D) \/ (~PlainUse /\ Sane(io') /\ Carried(io') \subseteq Carried(io)),
           \A d \in D : /\ d.id \in 1..Len(sender)
                        /\ sender[d.id].socket = IF d.to = ServerSocket THEN d.from ELSE d.to,
           \A h \in Sockets : io.state[h] # "none" => io'.state[h] # "none",
           \A l \in Links : pUdp[l] # NULL => io'.state[pUdp[l]] = "reading",
           ServerInv', server'.mapLink = server.mapLink, SocketInv',
           UNCHANGED <<pUdp, data, timer, sender, held, got>>
    PROVE  Kept
<1>1. /\ Sane(io') /\ Carried(io') \subseteq Carried(io) \cup D
      /\ PlainUse => io'.crashed = io.crashed
  BY DEF Moves
<1>2. ClientInv'
  BY DEF IInv, ClientInv
<1>3. SenderInv'
  BY Typed DEF IInv, SenderInv
<1>4. NetInv'
  BY <1>1 DEF IInv, NetInv
<1>5. HeldInv' /\ GotInv' /\ TimerInv'
  BY DEF IInv, HeldInv, GotInv, TimerInv
<1> QED BY <1>1, <1>2, <1>3, <1>4, <1>5 DEF IInv, Kept

\* connect() of a client gives the link a fresh socket.
LEMMA ConnectKeeps ==
    ASSUME IInv, NEW l \in Links, Connect(l)
    PROVE  Kept
<1>1. PICK h \in FreeSockets(io) \ {ServerSocket}, ok \in BOOLEAN :
        /\ io' = connect(io, h, ok)
        /\ pUdp' = [pUdp EXCEPT ![l] = h]
        /\ data' = [data EXCEPT ![h] = l]
  BY DEF Connect
<1>2. h \in Sockets /\ io.state[h] = "none" /\ h # ServerSocket /\ h # NULL
  BY <1>1, UvUdpAssumption DEF FreeSockets
<1>4. Moves(io, io', {}) /\ io'.state = [io.state EXCEPT ![h] = "reading"]
  BY <1>1, <1>2, Typed, ConnectState
<1>5. UNCHANGED <<server, held, timer, sender, got>>
  BY DEF Connect, Server
<1>6. ClientInv'
  <2>1. ASSUME NEW m \in Links, pUdp'[m] # NULL
        PROVE  pUdp'[m] # ServerSocket /\ io'.state[pUdp'[m]] = "reading" /\ data'[pUdp'[m]] = m
    <3>1. CASE m = l
      BY <1>1, <1>2, <1>4, <3>1, Typed
    <3>2. CASE m # l
      <4>1. pUdp'[m] = pUdp[m] /\ pUdp[m] \in Sockets
        BY <1>1, <2>1, <3>2, Typed
      <4>2. pUdp[m] # ServerSocket /\ io.state[pUdp[m]] = "reading" /\ data[pUdp[m]] = m
        BY <2>1, <4>1 DEF IInv, ClientInv
      <4> QED BY <1>1, <1>2, <1>4, <4>1, <4>2, Typed
    <3> QED BY <3>1, <3>2
  <2> QED BY <1>1, <1>2, <2>1, Typed DEF ClientInv
<1>7. SenderInv'
  <2>1. \A k \in 1..Len(sender) : /\ sender[k].socket # h
                                  /\ io'.state[sender[k].socket] = io.state[sender[k].socket]
                                  /\ data'[sender[k].socket] = data[sender[k].socket]
    BY <1>1, <1>2, <1>4, Typed DEF IInv, SenderInv
  <2> QED BY <1>5, <2>1 DEF IInv, SenderInv
<1>8. NetInv' /\ HeldInv' /\ GotInv' /\ ServerInv' /\ TimerInv'
  BY <1>4, <1>5 DEF Moves, IInv, NetInv, HeldInv, GotInv, ServerInv, TimerInv
<1>9. SocketInv'
  BY <1>2, <1>4, <1>5, Typed DEF IInv, SocketInv
<1> QED BY <1>4, <1>6, <1>7, <1>8, <1>9 DEF IInv, Kept, Moves

\* close() of a client closes the link's own socket, that no other link has.
LEMMA CloseKeeps ==
    ASSUME IInv, NEW l \in Links, Close(l)
    PROVE  Kept
<1>1. /\ io' = LinkClose(io, pUdp[l]) /\ pUdp' = [pUdp EXCEPT ![l] = NULL]
      /\ UNCHANGED <<server, held, data, timer, sender, got>>
  BY DEF Close, Server
<1>2. Moves(io, io', {}) /\ (pUdp[l] = NULL => io'.state = io.state)
      /\ (pUdp[l] # NULL => io'.state = [io.state EXCEPT ![pUdp[l]] = "closing"])
  <2>1. CASE pUdp[l] = NULL
    BY <1>1, <2>1, Typed DEF LinkClose, Moves
  <2>2. CASE pUdp[l] # NULL
    <3>1. pUdp[l] \in Sockets /\ io.state[pUdp[l]] = "reading"
      BY <2>2, Typed DEF IInv, ClientInv
    <3>2. io' = [io EXCEPT !.state[pUdp[l]] = "closing"]
      BY <1>1, <2>2, <3>1 DEF LinkClose, uv_close
    <3> QED BY <2>2, <3>1, <3>2, Typed, SetState DEF SocketState
  <2> QED BY <2>1, <2>2
<1>3. \A h \in Sockets : io.state[h] # "none" => io'.state[h] # "none"
  BY <1>2, Typed
<1>4. ClientInv'
  <2>1. ASSUME NEW m \in Links, pUdp'[m] # NULL
        PROVE  pUdp'[m] # ServerSocket /\ io'.state[pUdp'[m]] = "reading" /\ data'[pUdp'[m]] = m
    <3>1. m # l /\ pUdp'[m] = pUdp[m] /\ pUdp[m] \in Sockets
      BY <1>1, <2>1, Typed
    <3>2. pUdp[m] # ServerSocket /\ io.state[pUdp[m]] = "reading" /\ data[pUdp[m]] = m
      BY <2>1, <3>1 DEF IInv, ClientInv
    <3>3. pUdp[l] # NULL => pUdp[l] # pUdp[m]
      BY <3>1, <3>2 DEF IInv, ClientInv
    <3> QED BY <1>1, <1>2, <3>1, <3>2, <3>3, Typed
  <2> QED BY <1>1, <2>1, Typed DEF ClientInv
<1>5. SenderInv'
  BY <1>1, <1>3, Typed DEF IInv, SenderInv
<1>6. NetInv' /\ HeldInv' /\ GotInv' /\ ServerInv' /\ TimerInv'
  BY <1>1, <1>2 DEF Moves, IInv, NetInv, HeldInv, GotInv, ServerInv, TimerInv
<1>7. SocketInv'
  <2>1. pUdp[l] # NULL => pUdp[l] # ServerSocket
    BY DEF IInv, ClientInv
  <2> QED BY <1>1, <1>2, <2>1, Typed DEF IInv, SocketInv
<1> QED BY <1>2, <1>4, <1>5, <1>6, <1>7 DEF IInv, Kept, Moves

\* The application's timer sends a datagram of its own.
LEMMA OnTimerKeeps ==
    ASSUME IInv, NEW l \in Links, OnTimer(l)
    PROVE  Kept
<1> DEFINE h == pUdp[l]
           d == [from |-> h, to |-> ServerSocket, id |-> Len(sender) + 1]
<1>1. PICK item \in FreeItems(io), tried \in BOOLEAN, ok \in BOOLEAN :
        io' = send(io, h, d, item, tried, ok)
  BY DEF OnTimer, TryOutcomes, SendOutcomes
<1>2. /\ sender' = IF h = NULL THEN sender ELSE Append(sender, [link |-> l, socket |-> h])
      /\ Len(sender) < MaxSends
      /\ UNCHANGED <<server, held, pUdp, data, timer, got>>
  BY DEF OnTimer, Server
<1>3. CASE h = NULL
  <2>1. io' = io
    BY <1>1, <1>3 DEF send
  <2>2. UNCHANGED <<io, server, held, pUdp, data, timer, sender, got>>
    BY <1>2, <1>3, <2>1
  <2> QED BY <2>2 DEF Kept, IInv, ServerInv, ClientInv, SenderInv, NetInv, HeldInv, GotInv,
                      SocketInv, TimerInv
<1>4. CASE h # NULL
  <2>1. h \in Sockets /\ h # ServerSocket /\ io.state[h] = "reading" /\ data[h] = l
    BY <1>4, Typed DEF IInv, ClientInv
  <2>2. d \in Datagram /\ MaxSends \in Nat
    BY <1>2, <2>1, Typed, UdpNetAssumption DEF Datagram
  <2>3. Moves(io, io', {d}) /\ io'.state = io.state
    <3> HIDE DEF d, h
    <3> QED BY <1>1, <2>1, <2>2, SendMoves, Typed
  <2> DEFINE e == [link |-> l, socket |-> h]
  <2>4. /\ sender' \in Seq([link : Links, socket : Sockets])
        /\ Len(sender') = Len(sender) + 1
        /\ \A k \in 1..Len(sender) : sender'[k] = sender[k]
        /\ sender'[Len(sender) + 1] = e
    <3>1. e \in [link : Links, socket : Sockets] /\ sender' = Append(sender, e)
      BY <1>2, <1>4, <2>1
    <3>2. sender \in Seq([link : Links, socket : Sockets])
      BY DEF IInv, SenderInv
    <3> HIDE DEF e
    <3> QED BY <3>1, <3>2, AppendProperties
  <2>5. \A k \in 1..Len(sender') : k \in 1..Len(sender) \/ k = Len(sender) + 1
    BY <2>4, Typed
  <2>6. \A k \in 1..Len(sender) : k \in 1..Len(sender')
    BY <2>4, Typed
  <2>7. SenderInv'
    <3>1. Len(sender') <= MaxSends
      BY <1>2, <2>2, <2>4, Typed
    <3>2. ASSUME NEW k \in 1..Len(sender')
          PROVE  /\ sender'[k].socket # ServerSocket
                 /\ io'.state[sender'[k].socket] # "none"
                 /\ data'[sender'[k].socket] = sender'[k].link
      <4>1. CASE k \in 1..Len(sender)
        BY <1>2, <2>3, <2>4, <4>1 DEF IInv, SenderInv
      <4>2. CASE k = Len(sender) + 1
        BY <1>2, <2>1, <2>3, <2>4, <4>2
      <4> QED BY <2>5, <4>1, <4>2
    <3> QED BY <2>4, <3>1, <3>2 DEF SenderInv
  <2>8. NetInv'
    <3>1. ASSUME NEW x \in Carried(io')
          PROVE  /\ x.id \in 1..Len(sender')
                 /\ sender'[x.id].socket = IF x.to = ServerSocket THEN x.from ELSE x.to
      <4>1. CASE x \in Carried(io)
        BY <2>4, <2>6, <4>1 DEF IInv, NetInv
      <4>2. CASE x = d
        <5>1. Len(sender) + 1 \in 1..Len(sender')
          BY <2>4, Typed
        <5> QED BY <2>4, <4>2, <5>1
      <4> QED BY <2>3, <4>1, <4>2 DEF Moves
    <3> QED BY <3>1 DEF NetInv
  <2>9. HeldInv' /\ GotInv'
    <3>1. \A i \in DOMAIN held : held[i] \in 1..Len(sender') /\ sender'[held[i]] = sender[held[i]]
      BY <2>4, <2>6 DEF IInv, HeldInv
    <3>2. HeldInv'
      BY <1>2, <3>1 DEF IInv, HeldInv
    <3>3. GotInv'
      BY <1>2, <2>4, <2>6 DEF IInv, GotInv
    <3> QED BY <3>2, <3>3
  <2>10. ClientInv' /\ ServerInv' /\ SocketInv' /\ TimerInv'
    BY <1>2, <2>3 DEF IInv, ClientInv, ServerInv, SocketInv, TimerInv
  <2> QED BY <2>3, <2>7, <2>8, <2>9, <2>10 DEF IInv, Kept, Moves
<1> QED BY <1>3, <1>4

\* A client reads: who sent the question owns the socket of the answer.
LEMMA OnReadClientKeeps ==
    ASSUME IInv, NEW d \in io.net, OnReadClient(d)
    PROVE  Kept
<1>1. /\ d.to # ServerSocket /\ got' = [got EXCEPT ![data[d.to]] = @ \cup {d.id}]
      /\ UNCHANGED <<io, server, held, pUdp, data, timer, sender>>
  BY DEF OnReadClient, Server
<1>2. d.id \in 1..Len(sender) /\ sender[d.id].socket = d.to
  BY <1>1 DEF IInv, NetInv, Carried
<1>3. data[d.to] = sender[d.id].link /\ sender[d.id].link \in Links /\ d.id \in Nat
  BY <1>2, Typed DEF IInv, SenderInv
<1>4. GotInv'
  BY <1>1, <1>2, <1>3 DEF IInv, GotInv
<1> QED BY <1>1, <1>4 DEF Kept, IInv, ServerInv, ClientInv, SenderInv, NetInv, HeldInv,
                          SocketInv, TimerInv

\* start and stop use the handle: the application calls them while there is one.
LEMMA ControlKeeps ==
    ASSUME IInv, Control
    PROVE  Kept
<1>1. timer' \in App!TimerState
  BY DEF Control, App!start, App!stop, App!close, App!TimerState
<1>2. UNCHANGED <<io, server, held, pUdp, data, sender, got>>
  BY DEF Control, Server
<1> QED BY <1>1, <1>2 DEF Kept, IInv, ServerInv, ClientInv, SenderInv, NetInv, HeldInv, GotInv,
                          SocketInv, TimerInv

\* listen() on a closed server passes NULL to libuv; else the socket reads.
LEMMA ListenKeeps ==
    ASSUME IInv, Listen
    PROVE  Kept
<1>1. /\ io' = listen(io, server) /\ (PlainUse => server.pUdp # NULL)
      /\ UNCHANGED <<server, held, pUdp, data, timer, sender, got>>
  BY DEF Listen, Server, Client
<1>2. ServerInv'
  BY <1>1 DEF IInv, ServerInv
<1>3. CASE server.pUdp = NULL
  <2>1. io' = [io EXCEPT !.crashed = TRUE]
    BY <1>1, <1>3 DEF listen, uv_udp_recv_start, Crash
  <2>2. /\ io' \in IoState /\ io'.state = io.state /\ io'.requests = io.requests
        /\ io'.net = io.net /\ io'.inUse = io.inUse /\ io'.leaked = io.leaked
    BY <2>1, Typed DEF IoState
  <2>3. Sane(io') /\ Carried(io') = Carried(io)
    BY <2>2, Typed DEF Sane, Accounted, Carried
  <2>4. SocketInv'
    BY <1>1, <1>3 DEF SocketInv
  <2>5. \A l \in Links : pUdp[l] # NULL => io'.state[pUdp[l]] = "reading"
    BY <2>2 DEF IInv, ClientInv
  <2>6. \/ Moves(io, io', {})
        \/ ~PlainUse /\ Sane(io') /\ Carried(io') \subseteq Carried(io)
    BY <1>1, <1>3, <2>3
  <2>7. \A h \in Sockets : io.state[h] # "none" => io'.state[h] # "none"
    BY <2>2
  <2> QED BY <1>1, <1>2, <2>4, <2>5, <2>6, <2>7, IoStep
<1>4. CASE server.pUdp # NULL
  <2>1. server.pUdp = ServerSocket
    BY <1>4 DEF IInv, ServerInv
  <2>2. io' = [io EXCEPT !.state[ServerSocket] = "reading"]
    BY <1>1, <1>4, <2>1 DEF listen, uv_udp_recv_start
  <2>3. Moves(io, io', {}) /\ io'.state = [io.state EXCEPT ![ServerSocket] = "reading"]
    BY <2>2, Typed, SetState DEF SocketState
  <2>4. SocketInv'
    BY <2>3, Typed DEF SocketInv
  <2>5. \A l \in Links : pUdp[l] # NULL => io'.state[pUdp[l]] = "reading"
    BY <2>3, Typed DEF IInv, ClientInv
  <2>6. \A h \in Sockets : io.state[h] # "none" => io'.state[h] # "none"
    BY <2>3, Typed
  <2> QED BY <1>1, <1>2, <2>3, <2>4, <2>5, <2>6, IoStep
<1> QED BY <1>3, <1>4

\* close() of the server closes its socket once: the pointer is reset.
LEMMA CloseServerKeeps ==
    ASSUME IInv, CloseServer
    PROVE  Kept
<1>1. /\ io' = close_handle(io, server) /\ server' = [server EXCEPT !.pUdp = NULL]
      /\ UNCHANGED <<held, pUdp, data, timer, sender, got>>
  BY DEF CloseServer, close, Client
<1>2. /\ server' = [pUdp |-> NULL, mapLink |-> server.mapLink, lastId |-> server.lastId]
      /\ server'.pUdp = NULL /\ server'.mapLink = server.mapLink
      /\ server'.lastId = server.lastId
  BY <1>1 DEF IInv, ServerInv
<1>3. ServerInv'
  BY <1>1, <1>2 DEF IInv, ServerInv
<1>4. SocketInv'
  BY <1>2 DEF SocketInv
<1>5. CASE server.pUdp = NULL
  <2>1. io' = io
    BY <1>1, <1>5 DEF close_handle
  <2>2. Moves(io, io', {})
    BY <2>1, Typed DEF Moves
  <2>3. \A l \in Links : pUdp[l] # NULL => io'.state[pUdp[l]] = "reading"
    BY <2>1 DEF IInv, ClientInv
  <2> QED BY <1>1, <1>2, <1>3, <1>4, <2>1, <2>2, <2>3, IoStep
<1>6. CASE server.pUdp # NULL
  <2>1. server.pUdp = ServerSocket /\ io.state[ServerSocket] # "closing"
    BY <1>6 DEF IInv, ServerInv, SocketInv
  <2>2. io' = [io EXCEPT !.state[ServerSocket] = "closing"]
    BY <1>1, <1>6, <2>1 DEF close_handle, uv_close
  <2>3. Moves(io, io', {}) /\ io'.state = [io.state EXCEPT ![ServerSocket] = "closing"]
    BY <2>2, Typed, SetState DEF SocketState
  <2>4. \A l \in Links : pUdp[l] # NULL => io'.state[pUdp[l]] = "reading"
    BY <2>3, Typed DEF IInv, ClientInv
  <2>5. \A h \in Sockets : io.state[h] # "none" => io'.state[h] # "none"
    BY <2>3, Typed
  <2> QED BY <1>1, <1>2, <1>3, <1>4, <2>3, <2>4, <2>5, IoStep
<1> QED BY <1>5, <1>6

\* A request ends, one way or the other.
LEMMA OnSendKeeps ==
    ASSUME IInv, NEW r \in io.requests, OnSend(r)
    PROVE  Kept
<1>1. PICK ok \in BOOLEAN : io' = on_send(io, r, ok)
  BY DEF OnSend
<1>2. UNCHANGED <<server, held, pUdp, data, timer, sender, got>>
  BY DEF OnSend, Server, Client
<1>3. Moves(io, io', {}) /\ io'.state = io.state
  BY <1>1, OnSendFrees, Typed
<1>4. ServerInv' /\ SocketInv'
  BY <1>2, <1>3 DEF IInv, ServerInv, SocketInv
<1>5. \A l \in Links : pUdp[l] # NULL => io'.state[pUdp[l]] = "reading"
  BY <1>3 DEF IInv, ClientInv
<1> QED BY <1>2, <1>3, <1>4, <1>5, IoStep

\* A socket that is gone was nobody's: who closed it had let go of it.
LEMMA FinishCloseKeeps ==
    ASSUME IInv, NEW h \in Sockets, FinishClose(h)
    PROVE  Kept
<1>1. /\ io.state[h] = "closing" /\ io' = on_send_all(io, h)
      /\ UNCHANGED <<server, held, pUdp, data, timer, sender, got>>
  BY DEF FinishClose, Server, Client
<1>2. Moves(io, io', {}) /\ io'.state = [io.state EXCEPT ![h] = "gone"]
  BY <1>1, OnSendAllFrees, Typed
<1>3. ServerInv'
  BY <1>1 DEF IInv, ServerInv
<1>4. SocketInv'
  BY <1>1, <1>2, Typed DEF IInv, SocketInv
<1>5. \A l \in Links : pUdp[l] # NULL => io'.state[pUdp[l]] = "reading"
  BY <1>1, <1>2, Typed DEF IInv, ClientInv
<1>6. \A g \in Sockets : io.state[g] # "none" => io'.state[g] # "none"
  BY <1>2, Typed
<1> QED BY <1>1, <1>2, <1>3, <1>4, <1>5, <1>6, IoStep

\* The application answers a peer by the link it holds: the answer goes to the sender
\* of the datagram, whatever was read since.
LEMMA AnswerKeeps ==
    ASSUME IInv, NEW i \in DOMAIN held, Answer(i)
    PROVE  Kept
<1>1. PICK item \in FreeItems(io), ok \in BOOLEAN, n \in DOMAIN server.mapLink :
        /\ server.mapLink[n].id = i
        /\ io' = answer(io, server, [from |-> ServerSocket, to |-> server.mapLink[n].peer,
                                     id |-> held[i]], item, ok)
  BY DEF Answer
<1>2. UNCHANGED <<server, held, pUdp, data, timer, sender, got>>
  BY DEF Answer, Server, Client
<1>3. n \in Sockets /\ n # ServerSocket /\ server.mapLink[n].peer = n
  BY DEF IInv, ServerInv
<1>4. held[i] \in 1..Len(sender) /\ sender[held[i]].socket = n
  BY <1>1 DEF IInv, ServerInv, HeldInv
<1> DEFINE d == [from |-> ServerSocket, to |-> n, id |-> held[i]]
<1>5. d \in Datagram
  <2>1. Len(sender) <= MaxSends /\ MaxSends \in Nat
    BY UdpNetAssumption DEF IInv, SenderInv
  <2>2. held[i] \in 1..MaxSends
    BY <1>4, <2>1, Typed
  <2> QED BY <1>3, <2>2, Typed DEF Datagram
<1>6. Moves(io, io', {d}) /\ io'.state = io.state
  <2>1. io' = answer(io, server, d, item, ok)
    BY <1>1, <1>3
  <2> HIDE DEF d
  <2>2. CASE server.pUdp = NULL
    <3>1. io' = io
      BY <2>1, <2>2 DEF answer
    <3> QED BY <3>1, Typed DEF Moves
  <2>3. CASE server.pUdp # NULL
    <3>1. server.pUdp \in Sockets
      BY <2>3, Typed DEF IInv, ServerInv
    <3>2. io' = uv_udp_send(get(io, item), server.pUdp, d, item, ok)
      BY <2>1, <2>3 DEF answer
    <3> DEFINE t == uv_udp_send(get(io, item), server.pUdp, d, item, ok)
    <3>3. Sane(io) /\ item \in FreeItems(io) /\ ok \in BOOLEAN
      BY Typed
    <3>4. Moves(io, t, {d}) /\ t.state = io.state
      BY <1>5, <3>1, <3>3, SendLater
    <3> QED BY <3>2, <3>4
  <2> QED BY <2>2, <2>3
<1>7. \A x \in {d} : /\ x.id \in 1..Len(sender)
                     /\ sender[x.id].socket = IF x.to = ServerSocket THEN x.from ELSE x.to
  BY <1>3, <1>4
<1>8. ServerInv' /\ SocketInv'
  BY <1>2, <1>6 DEF IInv, ServerInv, SocketInv
<1>9. \A l \in Links : pUdp[l] # NULL => io'.state[pUdp[l]] = "reading"
  BY <1>6 DEF IInv, ClientInv
<1> HIDE DEF d
<1> QED BY <1>2, <1>6, <1>7, <1>8, <1>9, IoStep

\* The application lets go of a link: the others stay held.
LEMMA ClosePeerKeeps ==
    ASSUME IInv, NEW i \in DOMAIN held, ClosePeer(i)
    PROVE  Kept
<1>1. /\ held' = [j \in DOMAIN held \ {i} |-> held[j]]
      /\ UNCHANGED <<io, server, pUdp, data, timer, sender, got>>
  BY DEF ClosePeer, Client
<1>2. HeldInv'
  BY <1>1 DEF IInv, HeldInv
<1> QED BY <1>1, <1>2 DEF Kept, IInv, ServerInv, ClientInv, SenderInv, NetInv, GotInv,
                          SocketInv, TimerInv

\* The map after add_node: the peer has a link, and every link its identifier.
LEMMA AddNode ==
    ASSUME IInv, NEW p \in Sockets \ {ServerSocket}, server' = add_node(server, p)
    PROVE  /\ ServerInv' /\ server'.pUdp = server.pUdp
           /\ DOMAIN server'.mapLink = DOMAIN server.mapLink \cup {p}
           /\ \A n \in DOMAIN server.mapLink : server'.mapLink[n].id = server.mapLink[n].id
<1>1. ServerInv
  BY DEF IInv
<1>2. CASE p \in DOMAIN server.mapLink
  <2>1. server' = server
    BY <1>2 DEF add_node, create_node
  <2>2. ServerInv'
    BY <1>1, <2>1 DEF ServerInv
  <2> QED BY <1>2, <2>1, <2>2
<1>3. CASE p \notin DOMAIN server.mapLink
  <2> DEFINE e == [id |-> server.lastId, peer |-> p]
  <2>1. server' = [server EXCEPT !.mapLink = Put(@, p, e), !.lastId = @ + 1]
    BY <1>3 DEF add_node, create_node, NewPeerLink, next
  <2>2. /\ server' = [pUdp |-> server.pUdp, mapLink |-> server'.mapLink, lastId |-> server.lastId + 1]
        /\ server'.mapLink = Put(server.mapLink, p, e)
        /\ server'.pUdp = server.pUdp /\ server'.lastId = server.lastId + 1
    BY <1>1, <2>1 DEF ServerInv
  <2>3. e \in PeerEntry /\ e.id = server.lastId /\ e.peer = p
    BY <1>1 DEF PeerEntry, ServerInv
  <2> HIDE DEF e
  <2>4. /\ DOMAIN server'.mapLink = DOMAIN server.mapLink \cup {p}
        /\ server'.mapLink[p] = e
        /\ \A n \in DOMAIN server.mapLink : server'.mapLink[n] = server.mapLink[n]
        /\ server'.mapLink \in [DOMAIN server'.mapLink -> PeerEntry]
    <3>1. \A n \in DOMAIN server.mapLink : server.mapLink[n] \in PeerEntry
      BY <1>1 DEF ServerInv
    <3> QED BY <1>3, <2>2, <2>3, <3>1 DEF Put
  <2>6. ASSUME NEW n \in DOMAIN server'.mapLink
        PROVE  /\ n \in Sockets \ {ServerSocket} /\ server'.mapLink[n].peer = n
               /\ server'.mapLink[n].id >= 1 /\ server'.mapLink[n].id < server'.lastId
    <3>1. CASE n = p
      BY <1>1, <2>2, <2>3, <2>4, <3>1 DEF ServerInv
    <3>2. CASE n # p
      <4>1. n \in DOMAIN server.mapLink /\ server.mapLink[n] \in PeerEntry
        BY <1>1, <2>4, <3>2 DEF ServerInv
      <4>2. server.mapLink[n].id \in Nat /\ server.lastId \in Nat
        BY <1>1, <4>1 DEF ServerInv, PeerEntry
      <4> QED BY <1>1, <2>2, <2>4, <3>2, <4>1, <4>2 DEF ServerInv
    <3> QED BY <3>1, <3>2
  <2>7. ASSUME NEW n \in DOMAIN server'.mapLink, NEW m \in DOMAIN server'.mapLink,
               server'.mapLink[n].id = server'.mapLink[m].id
        PROVE  n = m
    <3>1. \A k \in DOMAIN server.mapLink : server.mapLink[k].id # server.lastId
      <4> TAKE k \in DOMAIN server.mapLink
      <4>1. server.mapLink[k] \in PeerEntry /\ server.lastId \in Nat
        BY <1>1 DEF ServerInv
      <4> QED BY <1>1, <4>1 DEF ServerInv, PeerEntry
    <3> QED BY <1>1, <2>3, <2>4, <2>7, <3>1 DEF ServerInv
  <2>8. ServerInv'
    <3>1. server'.lastId \in Nat \ {0} /\ server'.pUdp \in {NULL, ServerSocket}
      BY <1>1, <2>2 DEF ServerInv
    <3>2. server' = [pUdp |-> server'.pUdp, mapLink |-> server'.mapLink, lastId |-> server'.lastId]
      BY <2>2
    <3> QED BY <2>4, <2>6, <2>7, <3>1, <3>2 DEF ServerInv
  <2> QED BY <2>2, <2>4, <2>8
<1> QED BY <1>2, <1>3

\* The server reads: the link that the application is given is that of the sender.
LEMMA OnReadServerKeeps ==
    ASSUME IInv, NEW d \in io.net, OnReadServer(d)
    PROVE  Kept
<1> DEFINE p == d.from
<1>1. /\ d.to = ServerSocket /\ server' = add_node(server, p)
      /\ held' = Put(held, server'.mapLink[p].id, d.id)
      /\ UNCHANGED <<io, pUdp, data, timer, sender, got>>
  BY DEF OnReadServer, Client, create_node
<1>2. d.id \in 1..Len(sender) /\ sender[d.id].socket = p
  BY <1>1 DEF IInv, NetInv, Carried
<1>3. p \in Sockets \ {ServerSocket}
  BY <1>2, Typed DEF IInv, SenderInv
<1> HIDE DEF p
<1>4. /\ ServerInv' /\ server'.pUdp = server.pUdp
      /\ DOMAIN server'.mapLink = DOMAIN server.mapLink \cup {p}
      /\ \A n \in DOMAIN server.mapLink : server'.mapLink[n].id = server.mapLink[n].id
  BY <1>1, <1>3, AddNode
<1>5. HeldInv'
  <2> DEFINE j == server'.mapLink[p].id
  <2>1. /\ DOMAIN held' = DOMAIN held \cup {j} /\ held'[j] = d.id
        /\ \A i \in DOMAIN held : i # j => held'[i] = held[i]
    BY <1>1 DEF Put
  <2>2. ASSUME NEW i \in DOMAIN held'
        PROVE  /\ held'[i] \in 1..Len(sender)
               /\ \E n \in DOMAIN server'.mapLink :
                    server'.mapLink[n].id = i /\ sender[held'[i]].socket = n
    <3>1. CASE i = j
      BY <1>2, <1>4, <2>1, <3>1
    <3>2. CASE i # j
      <4> HIDE DEF j
      <4>1. i \in DOMAIN held /\ held'[i] = held[i]
        BY <2>1, <3>2
      <4>2. PICK n \in DOMAIN server.mapLink :
              server.mapLink[n].id = i /\ sender[held[i]].socket = n
        BY <4>1 DEF IInv, HeldInv
      <4> QED BY <1>4, <4>1, <4>2 DEF IInv, HeldInv
    <3> QED BY <3>1, <3>2
  <2>3. held' = [i \in DOMAIN held' |-> held'[i]]
    BY <1>1 DEF Put
  <2>4. \A i \in DOMAIN held' : held'[i] \in Nat
    BY <2>2, Typed
  <2>5. held' \in [DOMAIN held' -> Nat]
    BY <2>3, <2>4
  <2> QED BY <1>1, <2>2, <2>5 DEF HeldInv
<1>6. SocketInv'
  BY <1>1, <1>4 DEF IInv, SocketInv
<1> QED BY <1>1, <1>4, <1>5, <1>6 DEF Kept, IInv, ClientInv, SenderInv, NetInv, GotInv, TimerInv

-----------------------------------------------------------------------------
(* The inductive invariant.                                                *)

\* It holds of a server that has its socket and links that have none.
LEMMA InitInv == Init => IInv
<1> SUFFICES ASSUME Init PROVE IInv
  OBVIOUS
<1>1. Cardinality(Links) \in Nat
  BY FS_CardinalityType, UdpNetAssumption
<1>2. Sane(io) /\ Carried(io) = {}
  BY DEF Init, Quiet, Sane, IoState, SocketState, Accounted, Carried
<1>3. ServerInv
  <2>1. First + Cardinality(Links) \in Nat \ {0}
    BY <1>1 DEF First
  <2> QED BY <2>1 DEF Init, NewServer, ServerInv
<1>4. ClientInv
  BY DEF Init, ClientInv
<1>5. SenderInv
  <2>1. sender \in Seq([link : Links, socket : Sockets]) /\ Len(sender) = 0
    BY DEF Init
  <2> QED BY <2>1, UdpNetAssumption DEF SenderInv
<1>6. NetInv /\ HeldInv /\ GotInv
  BY <1>2 DEF Init, NetInv, HeldInv, GotInv
<1>7. SocketInv
  BY UdpNetAssumption DEF Init, Quiet, NewServer, SocketInv
<1>8. TimerInv
  BY UdpNetAssumption DEF Init, TimerInv, App!NewTimer, App!TimerState
<1> QED BY <1>2, <1>3, <1>4, <1>5, <1>6, <1>7, <1>8 DEF IInv

\* Every step keeps it, and crashes nothing that is used plainly.
LEMMA NextInv == IInv /\ [Next]_vars => Kept
<1> SUFFICES ASSUME IInv, [Next]_vars PROVE Kept
  OBVIOUS
<1>1. CASE UNCHANGED vars
  BY <1>1 DEF vars, Kept, IInv, ServerInv, ClientInv, SenderInv, NetInv, HeldInv, GotInv,
              SocketInv, TimerInv
<1>2. ASSUME NEW l \in Links, Connect(l) \/ Close(l) \/ OnTimer(l)
      PROVE  Kept
  BY <1>2, ConnectKeeps, CloseKeeps, OnTimerKeeps
<1>3. CASE Control \/ Listen \/ CloseServer
  BY <1>3, ControlKeeps, ListenKeeps, CloseServerKeeps
<1>4. ASSUME NEW d \in io.net, OnReadClient(d) \/ OnReadServer(d)
      PROVE  Kept
  BY <1>4, OnReadClientKeeps, OnReadServerKeeps
<1>5. ASSUME NEW i \in DOMAIN held, Answer(i) \/ ClosePeer(i)
      PROVE  Kept
  BY <1>5, AnswerKeeps, ClosePeerKeeps
<1>6. ASSUME NEW r \in io.requests, OnSend(r)
      PROVE  Kept
  BY <1>6, OnSendKeeps
<1>7. ASSUME NEW h \in Sockets, FinishClose(h)
      PROVE  Kept
  BY <1>7, FinishCloseKeeps
<1> QED BY <1>1, <1>2, <1>3, <1>4, <1>5, <1>6, <1>7 DEF Next

LEMMA Invariant == Spec => []IInv
<1>1. IInv /\ [Next]_vars => IInv'
  BY NextInv DEF Kept
<1> QED BY InitInv, <1>1, PTL DEF Spec

-----------------------------------------------------------------------------
(* The theorems.                                                           *)

\* Every variable stays in its type, whatever the use: the identifiers of the links in
\* the server's map are below its counter, and the socket that a UdpLink points to is open, reads, and
\* leads back to that link alone.
THEOREM TypeCorrect == Spec => []TypeOK
<1>1. IInv => TypeOK
  <2> SUFFICES ASSUME IInv PROVE TypeOK
    OBVIOUS
  <2>1. io \in IoState
    BY Typed
  <2>2. /\ timer \in App!TimerState
        /\ \A l \in Links : pUdp[l] # NULL => io.state[pUdp[l]] = "reading" /\ data[pUdp[l]] = l
    BY DEF IInv, TimerInv, ClientInv
  <2>3. ASSUME NEW n \in DOMAIN server.mapLink
        PROVE  server.mapLink[n] \in [id : 1..server.lastId, peer : Sockets]
    <3>1. server.mapLink[n] \in PeerEntry /\ server.lastId \in Nat
      BY DEF IInv, ServerInv
    <3>2. server.mapLink[n].id >= 1 /\ server.mapLink[n].id < server.lastId
      BY DEF IInv, ServerInv
    <3>3. server.mapLink[n].id \in 1..server.lastId
      BY <3>1, <3>2 DEF PeerEntry
    <3> QED BY <3>1, <3>3 DEF PeerEntry
  <2>4. got \in [Links -> SUBSET (1..MaxSends)]
    <3>1. ASSUME NEW l \in Links, NEW k \in got[l]
          PROVE  k \in 1..MaxSends
      <4>1. k \in 1..Len(sender) /\ Len(sender) <= MaxSends
        BY DEF IInv, GotInv, SenderInv
      <4> QED BY <4>1, Typed, UdpNetAssumption
    <3> QED BY <3>1 DEF IInv, GotInv
  <2>5. server.pUdp \in {NULL, ServerSocket} /\ server.lastId \in Nat
    BY DEF IInv, ServerInv
  <2> QED BY <2>1, <2>2, <2>3, <2>4, <2>5, Typed DEF TypeOK, IoState, Request
<1> QED BY <1>1, Invariant, PTL

\* A link that the server's application holds exists, and is that of the peer whose
\* datagram came with it: from the identifiers, which are not used again, and from the
\* map, in which a peer has one link.
THEOREM LinksAreAlive == Spec => []HeldIsAlive
<1>1. IInv => HeldIsAlive
  BY DEF IInv, HeldInv, ServerInv, HeldIsAlive
<1> QED BY <1>1, Invariant, PTL

\* Over a network that loses, repeats and reorders, and with sockets that come and go,
\* a UdpLink's handler is given answers to its own datagrams only: a socket stays that
\* of the link that opened it, and an answer goes to the socket of its question.
THEOREM AnswersReachAsker == Spec => []AnswersAreMine
<1>1. IInv => AnswersAreMine
  BY DEF IInv, GotInv, AnswersAreMine
<1> QED BY <1>1, Invariant, PTL

\* Under plain use nothing crashes, and every item in use is owed by one request, or
\* was leaked by a uv_udp_send that failed.
THEOREM ItemsHaveOneOwner == PlainUse => (Spec => []ItemsAccounted)
<1> SUFFICES ASSUME PlainUse PROVE Spec => []ItemsAccounted
  OBVIOUS
<1> DEFINE Safe == ~io.crashed /\ timer # "crashed"
<1>1. Init => Safe
  BY DEF Init, Quiet, App!NewTimer
<1>2. IInv /\ Safe /\ [Next]_vars => Safe'
  <2> SUFFICES ASSUME IInv, Safe, [Next]_vars PROVE Safe'
    OBVIOUS
  <2>1. ~io'.crashed
    BY NextInv DEF Kept
  <2>2. timer' # "crashed"
    <3>1. CASE Control
      BY <3>1, UdpNetAssumption DEF Control, App!start, App!stop, App!close
    <3>2. CASE UNCHANGED timer
      BY <3>2
    <3> QED BY <3>1, <3>2 DEF Next, vars, Connect, Close, OnTimer, OnReadClient, Listen, CloseServer,
                              OnReadServer, Answer, ClosePeer, OnSend,
                              FinishClose, Client
  <2> QED BY <2>1, <2>2
<1>3. IInv /\ Safe => ItemsAccounted
  <2> SUFFICES ASSUME IInv, Safe PROVE ItemsAccounted
    OBVIOUS
  <2> DEFINE owed == {r.item : r \in io.requests}
  <2>1. io.inUse \subseteq Items /\ io.leaked \subseteq Items /\ owed \subseteq Items
    BY Typed DEF IoState, Request
  <2>2. Accounted(io)
    BY Typed DEF Sane
  <2>3. io.inUse = owed \cup io.leaked /\ io.leaked \cap owed = {}
    BY <2>1, <2>2 DEF Accounted
  <2> QED BY <2>2, <2>3 DEF ItemsAccounted, Accounted
<1> HIDE DEF Safe
<1> QED BY <1>1, <1>2, <1>3, Invariant, PTL DEF Spec
=============================================================================
