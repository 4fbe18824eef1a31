---------------------------- MODULE HttpPeerLink ----------------------------
(***************************************************************************)
(* HttpPeerLink (src/src/httpserver.cpp): what a connection of the HTTP    *)
(* server does with the bytes of one read.  The parser is started anew for *)
(* each read; the HttpRequest its callbacks fill in is kept for the life   *)
(* of the connection and never cleared.                                    *)
(***************************************************************************)
EXTENDS HttpParser

CONSTANT Garbage   \* a callback without a return statement may seem to fail

ASSUME HttpPeerLinkAssumption == Garbage \in BOOLEAN

\* HttpRequest.  A text is a sequence of symbols, `headers' a function.
NewRequest == [method |-> "", url |-> <<>>, headers |-> <<>>, body |-> <<>>]

\* strncmp over the length of m_strMethod: no method at all counts as GET.
IsGet(r) == r.method \in {"", "GET"}

\* Mutant: the url is added to.
on_url_Appends(r, method, text) == [r EXCEPT !.url = @ \o text, !.method =
                                    IF method \in {"GET", "POST"} THEN method ELSE @]

on_url(r, method, text) ==
    [r EXCEPT !.url = text,
              !.method = IF method \in {"GET", "POST"} THEN method ELSE @]

on_header_value(r, field, text) ==
    [r EXCEPT !.headers = [f \in DOMAIN @ \cup {field} |-> IF f = field THEN text ELSE @[f]]]

\* Mutant: the body of every request is skipped.
on_header_complete_Always(r) == 1

on_header_complete(r) == IF IsGet(r) THEN 1 ELSE 0

\* A body that comes in chunks is the last of them.
on_body(r, text) == [r EXCEPT !.body = text]

\* What on_complete calls the application with; `at' is where the message ends.
on_complete(r, at) ==
    [to |-> IF IsGet(r) THEN "on_get" ELSE "on_post", url |-> r.url,
     headers |-> r.headers, body |-> IF IsGet(r) THEN <<>> ELSE r.body, at |-> at]

-----------------------------------------------------------------------------
(* A read.  `x' is the parser, the request, the field of the next value,   *)
(* the calls of the application so far, and what there was of these after  *)
(* each callback that ends without a return.                               *)

NoReturn == {"url", "header_field", "header_value", "body", "message_complete"}

Result(x, ok) == [request |-> x.request, calls |-> x.calls, ok |-> ok]

\* The callbacks of the parser that HttpPeerLink registers.
deliver(x, e, data, i) ==
    LET end == i - 1 + e.extra
        text == SubSeq(data, end - e.n + 1, end)
        y == CASE e.cb = "url" ->
                    [x EXCEPT !.request = on_url(@, x.parser.method, text)]
               [] e.cb = "header_field" -> [x EXCEPT !.field = text]
               [] e.cb = "header_value" ->
                    [x EXCEPT !.request = on_header_value(@, x.field, text)]
               [] e.cb = "body" -> [x EXCEPT !.request = on_body(@, text)]
               [] e.cb = "message_complete" ->
                    [x EXCEPT !.calls = Append(@, on_complete(x.request, i))]
               [] OTHER -> x
    IN  IF e.cb \in NoReturn THEN [y EXCEPT !.left = @ \cup {Result(y, FALSE)}] ELSE y

\* The callbacks of one symbol, in their order.
deliver_all(x, out, data, i) == FoldLeft(LAMBDA y, e : deliver(y, e, data, i), x, out)

\* A symbol, or after the last one what is still marked.
parse(x, data, i) ==
    LET a == [AllOK EXCEPT !["headers_complete"] = on_header_complete(x.request)]
        p == IF i > Len(data) THEN flush(x.parser, a) ELSE step(x.parser, data[i], a)
    IN  IF Failed(x.parser) \/ x.parser.exited THEN x
        ELSE deliver_all([x EXCEPT !.parser = [p EXCEPT !.out = <<>>]], p.out, data, i)

\* A new parser reads it all.
NewReading(request) ==
    [parser |-> begin(http_parser_init("REQUEST")), request |-> request,
     field |-> <<>>, calls |-> <<>>, left |-> {}]

sn_http_parser_execute(request, data) ==
    FoldLeft(LAMBDA y, i : parse(y, data, i), NewReading(request),
             [i \in 1..(Len(data) + 1) |-> i])

\* The results a read can have.
on_data(request, data) ==
    LET x == sn_http_parser_execute(request, data)
    IN  {Result(x, TRUE)} \cup IF Garbage THEN x.left ELSE {}
=============================================================================
