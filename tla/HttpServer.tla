----------------------------- MODULE HttpServer -----------------------------
(***************************************************************************)
(* HttpServer (src/src/httpserver.cpp) with the TcpServer it owns, the     *)
(* peer TcpLinks that server accepts and an HttpPeerLink for each of them. *)
(* A client writes its requests and the reads of the link cut what it      *)
(* wrote anywhere.  A callback of libuv is an action, with everything the  *)
(* code does in it.                                                        *)
(***************************************************************************)
EXTENDS HttpPeerLink

CONSTANTS
    NULL, Socket,    \* the one handle of a peer link
    Conns,           \* the connections that clients make
    Scripts,         \* what the clients write: requests of each connection
    Sizes,           \* how large a response may be: a set of Size
    PlainUse,        \* the application calls nothing once close() was called
    MaxClients       \* bound: connections, failed ones too, of one TcpServer

\* The socket takes all of it at once, or not all; it is above 512K.
Size == {"small", "long", "large"}

ASSUME HttpServerAssumption ==
    /\ Conns # {} /\ Sizes \subseteq Size /\ Sizes # {}
    /\ PlainUse \in BOOLEAN /\ MaxClients \in Nat
    /\ NULL \notin {Socket, "live", "deleted", "idle", "listening"}

VARIABLES
    server,   \* the HttpServer, its m_pTcpServer and LinkidAllocator's s_nLastId, and
              \* the connections that were open when it was deleted
    entry,    \* m_mapLink: the HttpPeerLink for a link id
    ids,      \* the link id of each connection, 0 before it is accepted
    links,    \* its peer TcpLink
    client,   \* requests of each connection, bytes read, whether the
              \* first read had the whole of the first request
    calls,    \* what the application was called with, for each connection
    replies,  \* the responses sent on each connection, and what became of them
    spoiled,  \* connections on which a callback seemed to fail
    dropped   \* connections with a response of more than 512K

vars == <<server, entry, ids, links, client, calls, replies, spoiled, dropped>>

Tcp == INSTANCE TcpServer
Link == INSTANCE TcpLink WITH
    Handles <- {Socket}, PeerLink <- TRUE, ConnectReactions <- {}, Reactions <- {},
    MayReconnect <- FALSE, SyncErrors <- FALSE, WriteErrors <- FALSE, MaxPending <- 1, MaxFaults <- 0,
    link <- NULL, app <- NULL, dirty <- NULL, told <- NULL, faults <- NULL,
    refused <- NULL

Init ==
    /\ server = [alive |-> TRUE, pTcpServer |-> NULL, tcp |-> Tcp!NewServer,
                 lastId |-> Tcp!First, crashed |-> FALSE, left |-> {}]
    /\ entry = <<>>
    /\ ids = [c \in Conns |-> 0]
    /\ links = [c \in Conns |-> Link!Blank]
    /\ client \in {[c \in Conns |-> [requests |-> s[c], read |-> 0, whole |-> FALSE]] : s \in Scripts}
    /\ calls = [c \in Conns |-> <<>>]
    /\ replies = [c \in Conns |-> <<>>]
    /\ spoiled = {} /\ dropped = {}

-----------------------------------------------------------------------------
(* The methods.                                                            *)

Crash(s) == [s EXCEPT !.crashed = TRUE]

\* HttpServer::close: m_pTcpServer is deleted and keeps its value.
close(s) ==
    CASE s.pTcpServer = NULL -> s
      [] s.pTcpServer = "deleted" -> Crash(s)
      [] OTHER -> [s EXCEPT !.pTcpServer = "deleted", !.tcp = Tcp!delete(@)]

listen(s, ok) ==
    LET t == close(s)
    IN  [t EXCEPT !.pTcpServer = "live", !.tcp = Tcp!listen(Tcp!NewServer, ok)]

destroy(s) == [close(s) EXCEPT !.alive = FALSE]

on_connected(m, id, c) ==
    IF id \in DOMAIN m THEN m
    ELSE [i \in DOMAIN m \cup {id} |-> IF i = id THEN [link |-> c, request |-> NewRequest] ELSE m[i]]

\* Mutant: the entry stays.
on_close_Keeps(m, id) == m

on_close(m, id) == [i \in DOMAIN m \ {id} |-> m[i]]

\* The end of on_complete: the answer to a call of the application is formatted
\* by HttpResponse and sent, and the link closed.  The format says
\* "Connection: close" and no length.  uv_write gives the socket what it takes at
\* once; the rest waits in the write queue of the handle, which is closed next.
Response(k, size) ==
    [status |-> 200, framing |-> "close", body |-> k,
     fate |-> IF size = "small" THEN "taken" ELSE "waiting"]

\* Mutants: the link is not closed; it is closed first.
answer_KeepAlive(s, k, size) ==
    LET l == IF size = "large" THEN s.link ELSE Link!send(s.link)
    IN  [link |-> l,
         replies |-> IF l = s.link THEN s.replies ELSE Append(s.replies, Response(k, size))]

answer_ClosesFirst(s, k, size) ==
    LET l == IF size = "large" THEN s.link ELSE Link!send(Link!close(s.link))
    IN  [link |-> Link!close(l), replies |-> s.replies]

\* A response for which there is no MemItem is dropped by TcpLink::send.
answer(s, k, size) ==
    LET l == IF size = "large" THEN s.link ELSE Link!send(s.link)
    IN  [link |-> Link!close(l),
         replies |-> IF l = s.link THEN s.replies ELSE Append(s.replies, Response(k, size))]

\* The answers to the calls of one read.
answer_all(s, ks, size) == FoldLeft(LAMBDA t, k : answer(t, k, size), s, ks)

\* on_write: what the socket had taken is called back without an error, what
\* waited with ECANCELED, and is lost.
on_write(r) ==
    [r EXCEPT !.fate = IF @ = "taken" THEN "sent" ELSE IF @ = "waiting" THEN "cut" ELSE @]

-----------------------------------------------------------------------------
(* The connections.                                                        *)

Accepted == {c \in Conns : ids[c] # 0}
IsOpen(c) == Socket \in links[c].reading

Text(requests) == FlattenSeq([i \in DOMAIN requests |-> requests[i].text])
Bytes(c) == Text(client[c].requests)
End(c, j) == Len(Text(SubSeq(client[c].requests, 1, j)))

ASSUME ScriptsAssumption ==
    \A s \in Scripts : \A c \in Conns : Text(s[c]) \in Seq(STRING)

-----------------------------------------------------------------------------
(* The application.                                                        *)

May == /\ ~server.crashed /\ server.alive
       /\ PlainUse => server.pTcpServer # "deleted"

Unconnected == <<entry, ids, links, client, calls, replies, spoiled, dropped>>

Listen ==
    /\ May
    /\ \E ok \in BOOLEAN : server' = listen(server, ok)
    /\ UNCHANGED Unconnected

Close ==
    /\ May
    /\ server' = close(server)
    /\ UNCHANGED Unconnected

\* The links keep the HttpServer as their handler: what is open is left with one
\* that is gone.
Destroy ==
    /\ May
    /\ server' = [destroy(server) EXCEPT !.left = {c \in Conns : IsOpen(c)}]
    /\ UNCHANGED Unconnected

-----------------------------------------------------------------------------
(* The callbacks of libuv.  A link calls its handler, which may be gone.   *)

Listening ==
    /\ ~server.crashed
    /\ server.pTcpServer = "live" /\ server.tcp.pTcp = "listening"
    /\ server.tcp.nClients < MaxClients

Handled == IF server.alive THEN server ELSE Crash(server)

OnAcceptFailed ==
    /\ Listening
    /\ server' = [server EXCEPT !.tcp = Tcp!on_accept_failed(@)]
    /\ UNCHANGED Unconnected

OnAccept(c) ==
    /\ Listening /\ c \notin Accepted /\ client[c].requests # <<>>
    /\ LET id == server.lastId
       IN  /\ server' = [server EXCEPT !.lastId = Tcp!next(@),
                                       !.tcp = Tcp!on_accept(@, id, c)]
           /\ ids' = [ids EXCEPT ![c] = id]
           /\ links' = [links EXCEPT ![c] = Link!Accepted(Socket)]
           /\ entry' = on_connected(entry, id, c)
    /\ UNCHANGED <<client, calls, replies, spoiled, dropped>>

\* What HttpServer::on_data makes of a read: nothing, if it does not know the link.
Outcomes(c, data) ==
    IF ids[c] \in DOMAIN entry THEN on_data(entry[ids[c]].request, data)
    ELSE {Result([request |-> NewRequest, calls |-> <<>>], TRUE)}

OnReadData(c) ==
    /\ ~server.crashed /\ IsOpen(c)
    /\ \E n \in 1..(Len(Bytes(c)) - client[c].read) :
         LET data == SubSeq(Bytes(c), client[c].read + 1, client[c].read + n)
         IN  /\ client' = [client EXCEPT ![c].read = @ + n,
                    ![c].whole = @ \/ (client[c].read = 0 /\ n >= End(c, 1))]
             /\ \E x \in Outcomes(c, data), size \in Sizes :
                  LET s == answer_all([link |-> links[c], replies |-> replies[c]],
                                [k \in DOMAIN x.calls |-> Len(calls[c]) + k], size)
                  IN  /\ entry' = [entry EXCEPT ![ids[c]].request = x.request]
                      /\ calls' = [calls EXCEPT ![c] = @ \o [k \in DOMAIN x.calls |->
                            [x.calls[k] EXCEPT !.at = @ + client[c].read]]]
                      /\ links' = [links EXCEPT ![c] = s.link]
                      /\ replies' = [replies EXCEPT ![c] = s.replies]
                      /\ spoiled' = IF x.ok THEN spoiled ELSE spoiled \cup {c}
                      /\ dropped' = IF size = "large" /\ x.calls # <<>> THEN dropped \cup {c}
                                    ELSE dropped
    /\ server' = Handled
    /\ UNCHANGED ids

\* An error, or the end of what the client has to say.
OnReadError(c) ==
    /\ ~server.crashed /\ IsOpen(c)
    /\ links' = [links EXCEPT ![c] =
            Link!on_read_failed(Link!uv_read_stop(@, Socket), "none")]
    /\ entry' = on_close(entry, ids[c])
    /\ server' = Handled
    /\ UNCHANGED <<ids, client, calls, replies, spoiled, dropped>>

\* The link was closed by answer, with its write in flight, or by closeError.  What
\* on_write does to a link that is closed is the same with an error and without.
FinishClose(c) ==
    /\ ~server.crashed
    /\ links[c].tcp[Socket] \in Link!Closing
    /\ links' = [links EXCEPT ![c] =
            Link!flush([@ EXCEPT !.tcp[Socket] = "none"], Socket)]
    /\ replies' = [replies EXCEPT ![c] = [k \in DOMAIN @ |-> on_write(@[k])]]
    /\ UNCHANGED <<server, entry, ids, client, calls, spoiled, dropped>>

-----------------------------------------------------------------------------
Next ==
    \/ Listen \/ Close \/ Destroy \/ OnAcceptFailed
    \/ \E c \in Conns : OnAccept(c) \/ OnReadData(c) \/ OnReadError(c) \/ FinishClose(c)

Spec == Init /\ [][Next]_vars

\* The loop ends what is closing.  Nothing is asked of clients.
Fairness == \A c \in Conns : WF_vars(FinishClose(c))

FairSpec == Spec /\ Fairness

-----------------------------------------------------------------------------
(* Properties.                                                             *)

TypeOK ==
    /\ server.alive \in BOOLEAN /\ server.crashed \in BOOLEAN
    /\ server.pTcpServer \in {NULL, "live", "deleted"}
    /\ server.tcp.pTcp \in {NULL, "idle", "listening"}
    /\ server.tcp.bListen \in BOOLEAN /\ server.tcp.nClients \in 0..MaxClients
    /\ ids \in [Conns -> 0..server.lastId]
    /\ links \in [Conns -> Link!LinkState]
    /\ \A i \in DOMAIN entry : entry[i].link \in Conns
    /\ \A c \in Conns : client[c].read \in 0..Len(Bytes(c))
    /\ spoiled \subseteq Conns /\ dropped \subseteq Conns /\ server.left \subseteq Conns

\* A connection that is read has the HttpPeerLink made for it: its bytes are never
\* dropped, nor given to the request of another.  A HttpPeerLink outlives its
\* connection only when that was closed by an answer, and then for good: on_close never
\* comes.  And an application that listens, perhaps again, and closes or deletes the
\* server once deletes nothing twice, resets no NULL handle and closes no handle twice;
\* a link calls a handler that is gone only if it was open when the server was deleted.
EntryPerLink ==
    /\ \A c \in Conns : IsOpen(c) =>
            ids[c] \in DOMAIN entry /\ entry[ids[c]].link = c
    /\ \A i \in DOMAIN entry :
            LET c == entry[i].link
            IN  ids[c] = i /\ (IsOpen(c) \/ calls[c] # <<>>)
    /\ server.crashed => server.left # {}
    /\ ~server.tcp.crashed /\ \A c \in Conns : ~links[c].crashed

Handler(r) == IF r.method = "GET" THEN "on_get" ELSE "on_post"

\* Wherever the reads cut what the client wrote, and whichever callbacks seem to
\* fail: the application is called only with the url of a request that it wrote,
\* by on_get for a GET and by on_post for a POST, after the last byte of that
\* request, in the order of requests and once for each.
CallsAreRequests ==
    \A c \in Conns : \A k \in DOMAIN calls[c] :
        LET call == calls[c][k]
        IN  /\ k > 1 => calls[c][k - 1].at < call.at
            /\ \E j \in DOMAIN client[c].requests :
                 LET r == client[c].requests[j]
                 IN  /\ call.at \in (End(c, j - 1) + 1)..End(c, j)
                     /\ call.url = r.url
                     /\ r.method \in {"GET", "POST"} =>
                            call.to = Handler(r) /\ call.at = End(c, j)

\* The first of the calls cs is that of r, with its headers and the last of its body.
Serves(cs, r) ==
    /\ cs # <<>>
    /\ LET call == cs[1]
       IN  /\ call.to = Handler(r) /\ call.url = r.url /\ call.headers = r.headers
           /\ r.method = "POST" => call.body = r.lastPart

\* A request that comes whole in the first read is handled as it was written: its
\* method, url and headers, and of its body what came last.
WholeReadServed ==
    \A c \in Conns :
        /\ client[c].whole /\ c \notin spoiled
        /\ client[c].requests[1].method \in {"GET", "POST"}
        => Serves(calls[c], client[c].requests[1])

\* src/src/httpserver.h:22: "handles the request from http client, and callback to
\* client with ISNHttpServerHandler".  A request that was read to its end was handled.
RequestServed ==
    \A c \in Conns :
        /\ client[c].requests # <<>> /\ c \notin spoiled
        /\ client[c].read >= End(c, 1)
        /\ client[c].requests[1].method \in {"GET", "POST"}
        => calls[c] # <<>>

Exchange(c) == INSTANCE HttpExchange WITH
    handled <- Len(calls[c]),
    reply <- IF replies[c] = <<>> THEN 0 ELSE Last(replies[c]).body,
    fate <- IF replies[c] # <<>> THEN Last(replies[c]).fate
            ELSE IF c \in dropped THEN "dropped" ELSE "none",
    open <- c \notin Accepted \/ IsOpen(c)

\* Each connection implements HttpExchange: the first request is answered, unless the
\* answer is too large, and ends it; nothing is read or answered afterwards.  The
\* answer is sent to its end when the socket took it at once, and else is cut.
Exchanges ==
    /\ \A c \in Conns : Exchange(c)!Init
    /\ [][\A c \in Conns : [Exchange(c)!Next]_(Exchange(c)!vars)]_vars

\* src/src/httpserver.h:116: "simple http server with on "GET" and "POST" support".  A
\* response that was sent is not cut before its end.
AnswerSent == \A c \in Conns : \A k \in DOMAIN replies[c] : replies[c][k].fate # "cut"

\* The client knows the end of a response by the end of the connection only: a
\* connection whose request was handled is closed, whatever became of the answer,
\* unless the process died on a deleted HttpServer.
Ends == \A c \in Conns :
            calls[c] # <<>> ~> links[c].tcp[Socket] = "none" \/ server.crashed
=============================================================================
