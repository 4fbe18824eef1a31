---------------------------- MODULE MCHttpServer ----------------------------
(* HttpServer with two connections: one that writes one or two requests of *)
(* any kind, and one that writes a short one, at the same time.            *)
EXTENDS HttpServer, HttpGrammar

CONSTANTS c1, c2

HTTP(minor) == <<" ", "H", "T", "T", "P", "/", "1", ".", minor, "LF">>
Length == <<"c", "on", "tent-length">>

Get(url) ==
    [method |-> "GET", url |-> url, headers |-> <<>>, lastPart |-> <<>>,
     text |-> <<"G", "ET", " ">> \o url \o <<"LF", "LF">>]
GetKept ==
    [method |-> "GET", url |-> <<"/">>, headers |-> <<"x">> :> <<"1">>,
     lastPart |-> <<>>,
     text |-> <<"G", "ET", " ", "/">> \o HTTP("1") \o <<"x", ":", "1", "CR", "LF", "CR", "LF">>]
Post ==
    [method |-> "POST", url |-> <<"/", "x">>, headers |-> Length :> <<"2">>,
     lastPart |-> <<"x", "x">>,
     text |-> <<"P", "OST", " ", "/", "x", "LF">> \o Length \o <<":", "2", "LF", "LF", "x", "x">>]
PostChunks ==
    [method |-> "POST", url |-> <<"/">>,
     headers |-> <<"t", "ransfer-encoding">> :> <<"c", "hunked">>, lastPart |-> <<"x">>,
     text |-> <<"P", "OST", " ", "/">> \o HTTP("1")
        \o <<"t", "ransfer-encoding", ":", "c", "hunked", "LF", "LF", "1", "CR", "LF", "x",
             "CR", "LF", "1", "CR", "LF", "x", "CR", "LF", "0", "CR", "LF", "CR", "LF">>]
Put ==
    [method |-> "PUT", url |-> <<"/", "c">>, headers |-> <<>>, lastPart |-> <<>>,
     text |-> <<"P", "UT", " ", "/", "c">> \o HTTP("1") \o <<"LF">>]

\* What the clients of c1 and of c2 write.
Texts ==
    {(c1 :> s) @@ (c2 :> <<>>) : s \in
        {<<GetKept, Post>>, <<GetKept, GetKept>>, <<Post, Get(<<"/">>)>>, <<Put, Post>>,
         <<PostChunks, Get(<<"/">>)>>}}
    \cup {(c1 :> <<Post>>) @@ (c2 :> <<Get(<<"/">>)>>)}

\* They write requests, which is what CallsRight of HttpServerProofs asks of them.
ASSUME TextsAssumption == \A s \in Texts : \A c \in {c1, c2} : Written(s[c])
=============================================================================
