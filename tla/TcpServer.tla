------------------------------ MODULE TcpServer ------------------------------
(***************************************************************************)
(* TcpServer (src/src/tcpserver.cpp): the listening handle and the map of  *)
(* the links it made.  As the server is used by its owner (HttpServer, or  *)
(* an application) its methods are operators on its record.                *)
(***************************************************************************)
EXTENDS LinkidAllocator

CONSTANT NULL

\* m_pTcp and its state: idle (not listening), listening, or NULL.
NewServer ==
    [pTcp |-> "idle", bListen |-> FALSE, nClients |-> 0, mapLinks |-> <<>>,
     crashed |-> FALSE]

\* That uv_listen failed is logged only.
listen(s, ok) ==
    IF s.pTcp = NULL THEN [s EXCEPT !.crashed = TRUE]
    ELSE [s EXCEPT !.pTcp = IF ok THEN "listening" ELSE @, !.bListen = TRUE]

close(s) == [s EXCEPT !.bListen = FALSE, !.pTcp = NULL]

\* The destructor resets m_pTcp without a look at it; the links live on.
delete(s) == [s EXCEPT !.pTcp = NULL, !.crashed = @ \/ s.pTcp = NULL]

get_link(s, id) == IF id \in DOMAIN s.mapLinks THEN s.mapLinks[id] ELSE NULL

\* on_accept with an error, or with a connection that uv_accept refuses.
on_accept_failed(s) == [s EXCEPT !.nClients = @ + 1]

\* Mutant: a connection is counted when it comes and when it is accepted.
on_accept_Twice(s, id, link) ==
    [s EXCEPT !.nClients = @ + 2, !.mapLinks =
        [i \in DOMAIN @ \cup {id} |-> IF i = id THEN link ELSE @[i]]]

\* on_accept: the link is entered under its identifier, and never taken out.
on_accept(s, id, link) ==
    [s EXCEPT !.nClients = @ + 1, !.mapLinks =
        [i \in DOMAIN @ \cup {id} |-> IF i = id THEN link ELSE @[i]]]
=============================================================================
