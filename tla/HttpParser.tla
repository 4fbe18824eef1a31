----------------------------- MODULE HttpParser -----------------------------
(***************************************************************************)
(* The HTTP parser of src/src/httpparser.cpp, for requests, the only type  *)
(* HttpPeerLink asks for, for responses, and for either.                   *)
(* sn_http_parser_execute is called once per buffer; it looks at a byte at *)
(* a time, and keeps its state for the next buffer, except for the         *)
(* `marks', pointers to where the url, status, field, value or body it is  *)
(* reading began, which do not outlive the buffer.                         *)
(*                                                                         *)
(* A symbol of the input stands for a byte, or for a run of bytes that the *)
(* parser compares with a literal: "t" and "ransfer-encoding" are the name *)
(* of a header in two symbols, so buffers can end inside a name.           *)
(*                                                                         *)
(* Each state is an operator on the record of the parser, named after it;  *)
(* where the code says REEXECUTE it calls the operator of the next state.  *)
(***************************************************************************)
EXTENDS Integers, SequencesExt

CONSTANT ULLONG_MAX   \* the largest uint64_t; as content_length: none given

DataCallbacks == {"header_field", "header_value", "url", "body", "status"}
Callbacks == DataCallbacks \cup {"message_begin", "headers_complete",
                "message_complete", "chunk_header", "chunk_complete"}

AllOK == [c \in Callbacks |-> 0]

ASSUME HttpParserAssumption == ULLONG_MAX \in Nat /\ ULLONG_MAX > 16

-----------------------------------------------------------------------------
(* Symbols.                                                                *)

Blank == " "
CR == "CR"
LF == "LF"
Num == {"0", "1", "2"}
Digit == [d \in Num |-> CASE d = "0" -> 0 [] d = "1" -> 1 [] d = "2" -> 2]
Hex == Num \cup {"c", "C"}
unhex == [d \in Hex |-> IF d \in Num THEN Digit[d] ELSE 12]

\* Runs of letters; those of Hyphened have a "-" in them.
Hyphened == {"tent-length", "ransfer-encoding", "eep-alive", "roxy-connection"}
Letters == {"G", "ET", "P", "OST", "UT", "C", "ONNECT", "H", "T", "c", "on",
            "nection", "p", "t", "u", "pgrade", "k", "lose", "hunked", "x", "EAD"}

Token(ch) == ch \in Letters \cup Hyphened \cup Num \cup {".", "*", "#"}
IsUrlChar(ch) == ch \notin {"?", "#", "bad", Blank, CR, LF}
IsUserinfo(ch) == ch \in Letters \cup Hyphened \cup Num \cup {".", "*", ";", ":", ","}
Lower(ch) == CASE ch = "C" -> "c" [] ch = "P" -> "p" [] ch = "T" -> "t" [] OTHER -> ch

\* The methods by their first letter, and the rest of their names.
FirstLetter == [G |-> "GET", P |-> "POST", C |-> "CONNECT", H |-> "HEAD", T |-> "TRACE"]
method_strings == [GET |-> "ET", POST |-> "OST", PUT |-> "UT", HEAD |-> "EAD",
                   CONNECT |-> "ONNECT", TRACE |-> "RACE"]

-----------------------------------------------------------------------------
(* The parser and its macros.                                              *)

States == {"s_dead", "s_start_req_or_res", "s_res_or_resp_H", "s_start_res",
    "s_res_H", "s_res_HT", "s_res_HTT", "s_res_HTTP", "s_res_http_major",
    "s_res_http_dot", "s_res_http_minor", "s_res_http_end",
    "s_res_first_status_code", "s_res_status_code", "s_res_status_start",
    "s_res_status", "s_res_line_almost_done",
    "s_start_req", "s_req_method", "s_req_spaces_before_url",
    "s_req_schema", "s_req_schema_slash", "s_req_schema_slash_slash",
    "s_req_server_start", "s_req_server", "s_req_server_with_at", "s_req_path",
    "s_req_query_string_start", "s_req_query_string", "s_req_fragment_start",
    "s_req_fragment", "s_req_http_start", "s_req_http_H", "s_req_http_HT",
    "s_req_http_HTT", "s_req_http_HTTP", "s_req_http_major", "s_req_http_dot",
    "s_req_http_minor", "s_req_http_end", "s_req_line_almost_done",
    "s_header_field_start", "s_header_field", "s_header_value_discard_ws",
    "s_header_value_discard_ws_almost_done", "s_header_value_discard_lws",
    "s_header_value", "s_header_value_lws", "s_header_almost_done",
    "s_chunk_size_start", "s_chunk_size", "s_chunk_parameters",
    "s_chunk_size_almost_done", "s_headers_almost_done", "s_chunk_data",
    "s_chunk_data_almost_done", "s_chunk_data_done", "s_body_identity",
    "s_body_identity_eof"}

UrlStates == {"s_req_schema", "s_req_schema_slash", "s_req_schema_slash_slash",
    "s_req_server_start", "s_req_server", "s_req_server_with_at", "s_req_path",
    "s_req_query_string_start", "s_req_query_string", "s_req_fragment_start",
    "s_req_fragment"}

\* What header_state says of the header being read.
HeaderStates == {"general", "C", "CON", "proxy", "te", "up", "connection",
    "content_length", "content_length_num", "content_length_ws",
    "transfer_encoding", "upgrade", "te_token_start", "te_chunked", "te_token",
    "chunked", "conn_token_start", "conn_keep_alive", "conn_close",
    "conn_upgrade", "conn_token", "keep_alive", "close", "conn_upgraded"}

Flags == {"CHUNKED", "CONNECTION_KEEP_ALIVE", "CONNECTION_CLOSE",
    "CONNECTION_UPGRADE", "TRAILING", "UPGRADE", "SKIPBODY", "CONTENTLENGTH",
    "TRANSFER_ENCODING"}

Errors == {"OK", "CB", "INVALID_METHOD", "INVALID_URL", "INVALID_CONSTANT",
    "STRICT", "INVALID_VERSION", "LF_EXPECTED", "INVALID_HEADER_TOKEN",
    "INVALID_CONTENT_LENGTH", "UNEXPECTED_CONTENT_LENGTH",
    "INVALID_TRANSFER_ENCODING", "INVALID_CHUNK_SIZE", "CLOSED_CONNECTION",
    "INVALID_STATUS", "INVALID_EOF_STATE",
    "ASSERT"}

Start == [REQUEST |-> "s_start_req", RESPONSE |-> "s_start_res", BOTH |-> "s_start_req_or_res"]

\* `marks' counts the symbols since each mark, -1 when it is not set; `out'
\* holds the callbacks of the step, `exited' says that it ended with RETURN.
http_parser_init(type) ==
    [type |-> type, state |-> Start[type], header |-> "general", flags |-> {},
     method |-> "DELETE", index |-> 0, status_code |-> 0, content_length |-> 0,
     http_major |-> 0, http_minor |-> 0, upgrade |-> FALSE, errno |-> "OK",
     marks |-> [c \in DataCallbacks |-> -1], exited |-> FALSE, out |-> <<>>]

Goto(p, s) == [p EXCEPT !.state = s]
Fail(p, e) == [p EXCEPT !.errno = e]
Failed(p) == p.errno # "OK"
MARK(p, cb) == IF p.marks[cb] = -1 THEN [p EXCEPT !.marks[cb] = 0] ELSE p
Call(p, cb, n, extra, a) ==
    [p EXCEPT !.out = Append(@, [cb |-> cb, n |-> n + extra, extra |-> extra]),
              !.errno = IF a[cb] = 0 THEN "OK" ELSE "CB"]
CALLBACK_NOTIFY(p, cb, a) == Call(p, cb, 0, 0, a)

\* `extra' is 1 when the current symbol belongs to the data.
CALLBACK_DATA_(p, cb, extra, a) ==
    IF p.marks[cb] = -1 THEN p
    ELSE LET q == Call(p, cb, p.marks[cb], extra, a)
         IN  IF Failed(q) THEN q ELSE [q EXCEPT !.marks[cb] = -1]
CALLBACK_DATA(p, cb, a) == CALLBACK_DATA_(p, cb, 0, a)

\* Only the end of the connection ends the body of this response.
http_message_needs_eof(p) ==
    /\ p.type # "REQUEST"
    /\ p.status_code \div 100 # 1 /\ p.status_code \notin {204, 304}
    /\ {"SKIPBODY", "CHUNKED"} \cap p.flags = {}
    /\ "TRANSFER_ENCODING" \in p.flags \/ p.content_length = ULLONG_MAX

http_should_keep_alive(p) ==
    /\ IF p.http_major > 0 /\ p.http_minor > 0
       THEN "CONNECTION_CLOSE" \notin p.flags
       ELSE "CONNECTION_KEEP_ALIVE" \in p.flags
    /\ ~http_message_needs_eof(p)

NEW_MESSAGE(p) ==
    IF ~http_should_keep_alive(p) THEN "s_dead"
    ELSE IF p.type = "REQUEST" THEN "s_start_req" ELSE "s_start_res"

\* The next state after one more symbol of a url.
parse_url_char(s, ch) ==
    CASE ch \in {Blank, CR, LF} -> "s_dead"
      [] s = "s_req_spaces_before_url" /\ ch \in {"/", "*"} -> "s_req_path"
      [] s \in {"s_req_spaces_before_url", "s_req_schema"} /\ ch \in Letters
            -> "s_req_schema"
      [] s = "s_req_schema" /\ ch = ":" -> "s_req_schema_slash"
      [] s = "s_req_schema_slash" /\ ch = "/" -> "s_req_schema_slash_slash"
      [] s = "s_req_schema_slash_slash" /\ ch = "/" -> "s_req_server_start"
      [] s = "s_req_server_with_at" /\ ch = "@" -> "s_dead"
      [] s \in {"s_req_server_start", "s_req_server", "s_req_server_with_at"} ->
            CASE ch = "/" -> "s_req_path"
              [] ch = "?" -> "s_req_query_string_start"
              [] ch = "@" -> "s_req_server_with_at"
              [] IsUserinfo(ch) -> "s_req_server"
              [] OTHER -> "s_dead"
      [] s = "s_req_path" /\ IsUrlChar(ch) -> s
      [] s = "s_req_path" /\ ch = "?" -> "s_req_query_string_start"
      [] s \in {"s_req_query_string_start", "s_req_query_string"}
            /\ (IsUrlChar(ch) \/ ch = "?") -> "s_req_query_string"
      [] s \in {"s_req_path", "s_req_query_string_start", "s_req_query_string"}
            /\ ch = "#" -> "s_req_fragment_start"
      [] s = "s_req_fragment_start" /\ ch = "#" -> s
      [] s \in {"s_req_fragment_start", "s_req_fragment"}
            /\ (IsUrlChar(ch) \/ ch \in {"?", "#"}) -> "s_req_fragment"
      [] OTHER -> "s_dead"

-----------------------------------------------------------------------------
(* The request line and the status line.                                   *)

s_dead(p, ch) == IF ch \in {CR, LF} THEN p ELSE Fail(p, "CLOSED_CONNECTION")

s_start_req(p, ch, a) ==
    LET q == [p EXCEPT !.flags = {}, !.content_length = ULLONG_MAX]
    IN  IF ch \in {CR, LF} THEN p
        ELSE IF ch \notin DOMAIN FirstLetter THEN Fail(q, "INVALID_METHOD")
        ELSE CALLBACK_NOTIFY([q EXCEPT !.method = FirstLetter[ch], !.index = 1,
                                       !.state = "s_req_method"], "message_begin", a)

s_start_res(p, ch, a) ==
    LET q == [p EXCEPT !.flags = {}, !.content_length = ULLONG_MAX]
    IN  IF ch \in {CR, LF} THEN p
        ELSE IF ch # "H" THEN Fail(q, "INVALID_CONSTANT")
        ELSE CALLBACK_NOTIFY(Goto(q, "s_res_H"), "message_begin", a)

\* A message that begins with H may be a HEAD request or a response.
s_start_req_or_res(p, ch, a) ==
    LET q == [p EXCEPT !.flags = {}, !.content_length = ULLONG_MAX]
    IN  CASE ch \in {CR, LF} -> p
          [] ch = "H" -> CALLBACK_NOTIFY(Goto(q, "s_res_or_resp_H"), "message_begin", a)
          [] OTHER -> s_start_req([q EXCEPT !.type = "REQUEST", !.state = "s_start_req"], ch, a)

s_res_or_resp_H(p, ch) ==
    CASE ch = "T" -> [p EXCEPT !.type = "RESPONSE", !.state = "s_res_HT"]
      [] ch = "EAD" -> [p EXCEPT !.type = "REQUEST", !.method = "HEAD", !.index = 2,
                                 !.state = "s_req_method"]
      [] OTHER -> Fail(p, "INVALID_CONSTANT")

\* `index' is 1 after the first letter and 2 at the end of the name.
s_req_method(p, ch) ==
    CASE p.index = 2 /\ ch = Blank -> Goto(p, "s_req_spaces_before_url")
      [] p.index = 1 /\ ch = method_strings[p.method] -> [p EXCEPT !.index = 2]
      [] p.index = 1 /\ p.method = "POST" /\ ch = "UT"
            -> [p EXCEPT !.method = "PUT", !.index = 2]
      [] OTHER -> Fail(p, "INVALID_METHOD")

url_char(p, ch) ==
    LET s == parse_url_char(p.state, ch)
    IN  IF s = "s_dead" THEN Fail(Goto(p, s), "INVALID_URL") ELSE Goto(p, s)

s_req_spaces_before_url(p, ch) ==
    LET q == MARK(p, "url")
    IN  IF ch = Blank THEN p
        ELSE url_char(IF p.method = "CONNECT" THEN Goto(q, "s_req_server_start") ELSE q, ch)

\* A url ends with a blank, or with the line (HTTP/0.9), once it has got far enough.
s_req_url(p, ch, a) ==
    LET whole == p.state \notin {"s_req_schema", "s_req_schema_slash",
                                 "s_req_schema_slash_slash", "s_req_server_start"}
    IN  CASE ch = Blank /\ whole -> CALLBACK_DATA(Goto(p, "s_req_http_start"), "url", a)
          [] ch \in {CR, LF} /\ whole ->
                CALLBACK_DATA([p EXCEPT !.http_major = 0, !.http_minor = 9,
                    !.state = IF ch = CR THEN "s_req_line_almost_done"
                              ELSE "s_header_field_start"], "url", a)
          [] ch \in {Blank, CR, LF} /\ ~whole -> Fail(p, "INVALID_URL")
          [] OTHER -> url_char(p, ch)

s_req_http_start(p, ch) ==
    CASE ch = Blank -> p
      [] ch = "H" -> Goto(p, "s_req_http_H")
      [] OTHER -> Fail(p, "INVALID_CONSTANT")

\* The literals of the version and of the ends of lines: the symbol a state
\* wants, the state after it, and the error of any other symbol.
ReqLiteral ==
    [s_req_http_H    |-> <<"T", "s_req_http_HT", "STRICT">>,
     s_req_http_HT   |-> <<"T", "s_req_http_HTT", "STRICT">>,
     s_req_http_HTT  |-> <<"P", "s_req_http_HTTP", "STRICT">>,
     s_req_http_HTTP |-> <<"/", "s_req_http_major", "STRICT">>,
     s_req_http_dot  |-> <<".", "s_req_http_minor", "INVALID_VERSION">>,
     s_req_line_almost_done |-> <<LF, "s_header_field_start", "LF_EXPECTED">>,
     s_header_almost_done |-> <<LF, "s_header_value_lws", "LF_EXPECTED">>,
     s_header_value_discard_ws_almost_done |->
        <<LF, "s_header_value_discard_lws", "STRICT">>]

ResLiteral ==
    [s_res_H         |-> <<"T", "s_res_HT", "STRICT">>,
     s_res_HT        |-> <<"T", "s_res_HTT", "STRICT">>,
     s_res_HTT       |-> <<"P", "s_res_HTTP", "STRICT">>,
     s_res_HTTP      |-> <<"/", "s_res_http_major", "STRICT">>,
     s_res_http_dot  |-> <<".", "s_res_http_minor", "INVALID_VERSION">>,
     s_res_http_end  |-> <<Blank, "s_res_first_status_code", "INVALID_VERSION">>,
     s_res_line_almost_done |-> <<LF, "s_header_field_start", "STRICT">>]

Literals == DOMAIN ReqLiteral \cup DOMAIN ResLiteral

literal(p, ch) ==
    LET l == IF p.state \in DOMAIN ReqLiteral THEN ReqLiteral[p.state] ELSE ResLiteral[p.state]
    IN  IF ch = l[1] THEN Goto(p, l[2]) ELSE Fail(p, l[3])

http_major(p, ch) ==
    IF ch \notin Num THEN Fail(p, "INVALID_VERSION")
    ELSE [p EXCEPT !.http_major = Digit[ch], !.state =
            IF @ = "s_req_http_major" THEN "s_req_http_dot" ELSE "s_res_http_dot"]

http_minor(p, ch) ==
    IF ch \notin Num THEN Fail(p, "INVALID_VERSION")
    ELSE [p EXCEPT !.http_minor = Digit[ch], !.state =
            IF @ = "s_req_http_minor" THEN "s_req_http_end" ELSE "s_res_http_end"]

s_req_http_end(p, ch) ==
    CASE ch = CR -> Goto(p, "s_req_line_almost_done")
      [] ch = LF -> Goto(p, "s_header_field_start")
      [] OTHER -> Fail(p, "INVALID_VERSION")

s_res_first_status_code(p, ch) ==
    CASE ch \in Num -> [p EXCEPT !.status_code = Digit[ch], !.state = "s_res_status_code"]
      [] ch = Blank -> p
      [] OTHER -> Fail(p, "INVALID_STATUS")

\* The reason may be empty, and is then handed over as such.
s_res_status(p, ch, a) ==
    CASE ch = CR -> CALLBACK_DATA(Goto(p, "s_res_line_almost_done"), "status", a)
      [] ch = LF -> CALLBACK_DATA(Goto(p, "s_header_field_start"), "status", a)
      [] OTHER -> p

s_res_status_start(p, ch, a) ==
    s_res_status([MARK(p, "status") EXCEPT !.state = "s_res_status"], ch, a)

s_res_status_code(p, ch, a) ==
    LET code == p.status_code * 10 + Digit[ch]
    IN  CASE ch \in Num -> IF code > 999 THEN Fail(p, "INVALID_STATUS")
                           ELSE [p EXCEPT !.status_code = code]
          [] ch = Blank -> Goto(p, "s_res_status_start")
          [] ch \in {CR, LF} -> s_res_status_start(p, ch, a)
          [] OTHER -> Fail(p, "INVALID_STATUS")

-----------------------------------------------------------------------------
(* The body.  The end of a message may be found at the end of the headers. *)

\* What follows in another protocol is not read: the call returns.
message_complete(p, a) ==
    LET q == CALLBACK_NOTIFY(Goto(p, NEW_MESSAGE(p)), "message_complete", a)
    IN  [q EXCEPT !.exited = p.upgrade]

s_body_identity(p, ch, a) ==
    LET q == [MARK(p, "body") EXCEPT !.content_length = @ - 1]
        d == CALLBACK_DATA_(q, "body", 1, a)
    IN  IF q.content_length > 0 THEN q
        ELSE IF Failed(d) THEN d ELSE message_complete(d, a)

s_body_identity_eof(p) == MARK(p, "body")

s_chunk_size_start(p, ch) ==
    IF ch \notin Hex THEN Fail(p, "INVALID_CHUNK_SIZE")
    ELSE [p EXCEPT !.content_length = unhex[ch], !.state = "s_chunk_size"]

\* Mutant: no test against the limit.
Digits_Wrap(p, base, d) ==
    [p EXCEPT !.content_length = (@ * base + d) % (ULLONG_MAX + 1)]

\* One more digit of a length, unless it might not fit; `base' is 10 or 16.
Digits(p, base, d) ==
    IF (ULLONG_MAX - base) \div base < p.content_length
    THEN Fail(p, "INVALID_CONTENT_LENGTH")
    ELSE [p EXCEPT !.content_length = (@ * base + d) % (ULLONG_MAX + 1)]

s_chunk_size(p, ch) ==
    CASE ch = CR -> Goto(p, "s_chunk_size_almost_done")
      [] ch \in Hex -> Digits(p, 16, unhex[ch])
      [] ch \in {";", Blank} -> Goto(p, "s_chunk_parameters")
      [] OTHER -> Fail(p, "INVALID_CHUNK_SIZE")

s_chunk_parameters(p, ch) ==
    IF ch = CR THEN Goto(p, "s_chunk_size_almost_done") ELSE p

\* Mutant: no chunk is the last one.
s_chunk_size_almost_done_NoLast(p, ch, a) ==
    IF ch # LF THEN Fail(p, "STRICT")
    ELSE CALLBACK_NOTIFY(Goto(p, "s_chunk_data"), "chunk_header", a)

\* The chunk of length 0 is the last one: trailing headers follow.
s_chunk_size_almost_done(p, ch, a) ==
    LET last == p.content_length = 0
        q == [p EXCEPT !.flags = IF last THEN @ \cup {"TRAILING"} ELSE @,
                       !.state = IF last THEN "s_header_field_start" ELSE "s_chunk_data"]
    IN  IF ch # LF THEN Fail(p, "STRICT") ELSE CALLBACK_NOTIFY(q, "chunk_header", a)

s_chunk_data(p, ch) ==
    LET q == [MARK(p, "body") EXCEPT !.content_length = @ - 1]
    IN  IF q.content_length = 0 THEN Goto(q, "s_chunk_data_almost_done") ELSE q

s_chunk_data_almost_done(p, ch, a) ==
    IF ch # CR THEN Fail(p, "STRICT")
    ELSE CALLBACK_DATA(Goto(p, "s_chunk_data_done"), "body", a)

s_chunk_data_done(p, ch, a) ==
    IF ch # LF THEN Fail(p, "STRICT")
    ELSE CALLBACK_NOTIFY(Goto(p, "s_chunk_size_start"), "chunk_complete", a)

-----------------------------------------------------------------------------
(* The end of the headers.                                                 *)

\* Mutant: a length of 0 is a length like any other.
s_headers_done_ZeroLength(p, a) ==
    IF p.upgrade \/ "SKIPBODY" \in p.flags THEN message_complete(p, a)
    ELSE IF "CHUNKED" \in p.flags THEN Goto(p, "s_chunk_size_start")
    ELSE IF "TRANSFER_ENCODING" \in p.flags
    THEN IF p.type = "REQUEST" THEN Fail(p, "INVALID_TRANSFER_ENCODING")
         ELSE Goto(p, "s_body_identity_eof")
    ELSE IF p.content_length # ULLONG_MAX THEN Goto(p, "s_body_identity")
    ELSE IF http_message_needs_eof(p) THEN Goto(p, "s_body_identity_eof")
    ELSE message_complete(p, a)

\* on_headers_complete may say that there is no body (1), or that another
\* protocol follows (2).
s_headers_done(p, a) ==
    LET hasBody == "CHUNKED" \in p.flags \/ p.content_length \in 1..(ULLONG_MAX - 1)
    IN  IF \/ p.upgrade /\ (p.method = "CONNECT" \/ "SKIPBODY" \in p.flags \/ ~hasBody)
           \/ "SKIPBODY" \in p.flags
        THEN message_complete(p, a)
        ELSE IF "CHUNKED" \in p.flags THEN Goto(p, "s_chunk_size_start")
        ELSE IF "TRANSFER_ENCODING" \in p.flags
        THEN IF p.type = "REQUEST" THEN Fail(p, "INVALID_TRANSFER_ENCODING")
             ELSE Goto(p, "s_body_identity_eof")
        ELSE IF hasBody THEN Goto(p, "s_body_identity")
        ELSE IF p.content_length = ULLONG_MAX /\ http_message_needs_eof(p)
        THEN Goto(p, "s_body_identity_eof")
        ELSE message_complete(p, a)

\* A response upgrades with 101 only.
Upgrades(p) ==
    IF {"UPGRADE", "CONNECTION_UPGRADE"} \subseteq p.flags
    THEN p.type = "REQUEST" \/ p.status_code = 101
    ELSE p.method = "CONNECT"

s_headers_almost_done(p, ch, a) ==
    LET t == CALLBACK_NOTIFY(p, "chunk_complete", a)
        answer == a["headers_complete"]
        c == CALLBACK_NOTIFY([p EXCEPT !.upgrade = Upgrades(p)], "headers_complete",
                             [a EXCEPT !["headers_complete"] = IF @ \in 1..2 THEN 0 ELSE @])
        h == [c EXCEPT !.upgrade = @ \/ answer = 2,
                       !.flags = IF answer \in 1..2 THEN @ \cup {"SKIPBODY"} ELSE @]
    IN  CASE ch # LF -> Fail(p, "STRICT")
          [] ch = LF /\ "TRAILING" \in p.flags ->
                IF Failed(t) THEN t ELSE message_complete(t, a)
          [] ch = LF /\ "TRAILING" \notin p.flags
                /\ {"TRANSFER_ENCODING", "CONTENTLENGTH"} \subseteq p.flags ->
                Fail(p, "UNEXPECTED_CONTENT_LENGTH")
          [] OTHER -> IF Failed(h) THEN h ELSE s_headers_done(h, a)

-----------------------------------------------------------------------------
(* The headers.                                                            *)

FirstOfField == [c |-> "C", p |-> "proxy", t |-> "te", u |-> "up"]

s_header_field_start(p, ch, a) ==
    LET c == Lower(ch)
    IN  CASE ch = CR -> Goto(p, "s_headers_almost_done")
          [] ch = LF -> s_headers_almost_done(p, ch, a)
          [] Token(ch) -> [MARK(p, "header_field") EXCEPT !.state = "s_header_field",
                !.header = IF c \in DOMAIN FirstOfField THEN FirstOfField[c] ELSE "general"]
          [] OTHER -> Fail(p, "INVALID_HEADER_TOKEN")

\* The names the parser knows, as they are matched.
Name(h, ch) ==
    CASE h = "C" /\ ch = "on" -> "CON"
      [] h = "CON" /\ ch = "nection" -> "connection"
      [] h = "CON" /\ ch = "tent-length" -> "content_length"
      [] h = "proxy" /\ ch = "roxy-connection" -> "connection"
      [] h = "te" /\ ch = "ransfer-encoding" -> "transfer_encoding"
      [] h = "up" /\ ch = "pgrade" -> "upgrade"
      [] OTHER -> "general"

s_header_field(p, ch, a) ==
    LET h == Name(p.header, ch)
    IN  CASE Token(ch) -> [p EXCEPT !.header = h, !.flags =
                IF h = "transfer_encoding" THEN @ \cup {"TRANSFER_ENCODING"} ELSE @]
          [] ch = ":" -> CALLBACK_DATA(Goto(p, "s_header_value_discard_ws"), "header_field", a)
          [] OTHER -> Fail(p, "INVALID_HEADER_TOKEN")

\* The values the parser knows, by their first letter and the rest.
ConnectionValue == [k |-> "conn_keep_alive", c |-> "conn_close", u |-> "conn_upgrade"]
ConnectionRest(h, c) ==
    CASE h = "conn_keep_alive" /\ c = "eep-alive" -> "keep_alive"
      [] h = "conn_close" /\ c = "lose" -> "close"
      [] h = "conn_upgrade" /\ c = "pgrade" -> "conn_upgraded"
      [] OTHER -> "conn_token"

Connection(c, otherwise) ==
    IF c \in DOMAIN ConnectionValue THEN ConnectionValue[c] ELSE otherwise

s_header_value_start(p, ch) ==
    LET q == [MARK(p, "header_value") EXCEPT !.state = "s_header_value"]
        c == Lower(ch)
    IN  CASE p.header = "upgrade" ->
                [q EXCEPT !.flags = @ \cup {"UPGRADE"}, !.header = "general"]
          [] p.header = "transfer_encoding" ->
                [q EXCEPT !.header = IF c = "c" THEN "te_chunked" ELSE "te_token"]
          [] p.header = "content_length" ->
                CASE ch \notin Num -> Fail(q, "INVALID_CONTENT_LENGTH")
                  [] ch \in Num /\ "CONTENTLENGTH" \in p.flags ->
                        Fail(q, "UNEXPECTED_CONTENT_LENGTH")
                  [] OTHER -> [q EXCEPT !.flags = @ \cup {"CONTENTLENGTH"},
                        !.content_length = Digit[ch], !.header = "content_length_num"]
          [] p.header = "connection" -> [q EXCEPT !.header = Connection(c, "conn_token")]
          [] p.header \in {"te_token_start", "conn_token_start", "content_length_ws"} -> q
          [] OTHER -> [q EXCEPT !.header = "general"]

s_header_value_discard_ws(p, ch) ==
    CASE ch = Blank -> p
      [] ch = CR -> Goto(p, "s_header_value_discard_ws_almost_done")
      [] ch = LF -> Goto(p, "s_header_value_discard_lws")
      [] OTHER -> s_header_value_start(p, ch)

ConnectionFlag == [keep_alive |-> "CONNECTION_KEEP_ALIVE", close |-> "CONNECTION_CLOSE",
                   conn_upgraded |-> "CONNECTION_UPGRADE"]
ValueFlag == [keep_alive |-> "CONNECTION_KEEP_ALIVE", close |-> "CONNECTION_CLOSE",
              conn_upgraded |-> "CONNECTION_UPGRADE", chunked |-> "CHUNKED"]

\* header_state after one more symbol of the value.
NextInValue(h, ch) ==
    LET c == Lower(ch)
    IN  CASE h = "te_token_start" ->
                CASE c = "c" -> "te_chunked"
                  [] c # "c" /\ Token(c) -> "te_token"
                  [] OTHER -> IF ch = Blank THEN h ELSE "general"
          [] h = "te_chunked" -> IF c = "hunked" THEN "chunked" ELSE "te_token"
          [] h = "te_token" -> IF ch = "," THEN "te_token_start" ELSE h
          [] h = "chunked" -> IF ch = Blank THEN h ELSE "te_token"
          [] h = "conn_token_start" ->
                Connection(c, IF Token(c) THEN "conn_token" ELSE IF ch = Blank THEN h ELSE "general")
          [] h \in {"conn_keep_alive", "conn_close", "conn_upgrade"} -> ConnectionRest(h, c)
          [] h = "conn_token" -> IF ch = "," THEN "conn_token_start" ELSE h
          [] h \in DOMAIN ConnectionFlag ->
                CASE ch = "," -> "conn_token_start" [] ch = Blank -> h [] OTHER -> "conn_token"
          [] OTHER -> "general"

\* A symbol of the value that does not end it.
in_value(p, ch) ==
    IF ch = "bad" THEN Fail(p, "INVALID_HEADER_TOKEN")
    ELSE CASE p.header \in {"connection", "transfer_encoding"} -> Fail(p, "ASSERT")
           [] p.header = "content_length_num" ->
                CASE ch = Blank -> [p EXCEPT !.header = "content_length_ws"]
                  [] ch \in Num -> Digits(p, 10, Digit[ch])
                  [] OTHER -> Fail(p, "INVALID_CONTENT_LENGTH")
           [] p.header = "content_length_ws" ->
                IF ch = Blank THEN p ELSE Fail(p, "INVALID_CONTENT_LENGTH")
           [] OTHER -> [p EXCEPT !.header = NextInValue(@, ch), !.flags =
                IF p.header \in DOMAIN ConnectionFlag /\ ch = ","
                THEN @ \cup {ConnectionFlag[p.header]} ELSE @]

s_header_value(p, ch, a) ==
    LET d == CALLBACK_DATA(Goto(p, "s_header_almost_done"), "header_value", a)
    IN  CASE ch = CR -> d
          [] ch = LF -> IF Failed(d) THEN d ELSE literal(d, ch)
          [] OTHER -> in_value(p, ch)

\* At the end of the line the value is known, if no continuation line follows.
flag_value(p) ==
    [p EXCEPT !.flags = IF p.header \in DOMAIN ValueFlag
                        THEN @ \cup {ValueFlag[p.header]} ELSE @]

s_header_value_lws(p, ch, a) ==
    IF ch = Blank
    THEN s_header_value_start([p EXCEPT !.header =
            IF @ = "content_length_num" THEN "content_length_ws" ELSE @], ch)
    ELSE s_header_field_start(flag_value(p), ch, a)

\* Mutant: an empty value is not handed over.
s_header_value_discard_lws_Silent(p, ch, a) ==
    CASE ch = Blank -> Goto(p, "s_header_value_discard_ws")
      [] ch # Blank /\ p.header = "content_length" -> Fail(p, "INVALID_CONTENT_LENGTH")
      [] OTHER -> s_header_field_start(flag_value(p), ch, a)

s_header_value_discard_lws(p, ch, a) ==
    LET d == CALLBACK_DATA(Goto(MARK(flag_value(p), "header_value"),
                                "s_header_field_start"), "header_value", a)
    IN  CASE ch = Blank -> Goto(p, "s_header_value_discard_ws")
          [] ch # Blank /\ p.header = "content_length" -> Fail(p, "INVALID_CONTENT_LENGTH")
          [] OTHER -> IF Failed(d) THEN d ELSE s_header_field_start(d, ch, a)

-----------------------------------------------------------------------------
(* sn_http_parser_execute: a call is begin, a step per symbol until one    *)
(* fails or exits, and flush.                                              *)

Transition(p, ch, a) ==
    CASE p.state = "s_header_field" -> s_header_field(p, ch, a)
      [] p.state = "s_header_value" -> s_header_value(p, ch, a)
      [] p.state \in UrlStates -> s_req_url(p, ch, a)
      [] p.state \in Literals -> literal(p, ch)
      [] p.state = "s_dead" -> s_dead(p, ch)
      [] p.state = "s_start_req" -> s_start_req(p, ch, a)
      [] p.state = "s_start_req_or_res" -> s_start_req_or_res(p, ch, a)
      [] p.state = "s_res_or_resp_H" -> s_res_or_resp_H(p, ch)
      [] p.state = "s_start_res" -> s_start_res(p, ch, a)
      [] p.state = "s_res_first_status_code" -> s_res_first_status_code(p, ch)
      [] p.state = "s_res_status_code" -> s_res_status_code(p, ch, a)
      [] p.state = "s_res_status_start" -> s_res_status_start(p, ch, a)
      [] p.state = "s_res_status" -> s_res_status(p, ch, a)
      [] p.state = "s_body_identity_eof" -> s_body_identity_eof(p)
      [] p.state = "s_req_method" -> s_req_method(p, ch)
      [] p.state = "s_req_spaces_before_url" -> s_req_spaces_before_url(p, ch)
      [] p.state = "s_req_http_start" -> s_req_http_start(p, ch)
      [] p.state \in {"s_req_http_major", "s_res_http_major"} -> http_major(p, ch)
      [] p.state \in {"s_req_http_minor", "s_res_http_minor"} -> http_minor(p, ch)
      [] p.state = "s_req_http_end" -> s_req_http_end(p, ch)
      [] p.state = "s_header_field_start" -> s_header_field_start(p, ch, a)
      [] p.state = "s_header_value_discard_ws" -> s_header_value_discard_ws(p, ch)
      [] p.state = "s_header_value_discard_lws" -> s_header_value_discard_lws(p, ch, a)
      [] p.state = "s_header_value_lws" -> s_header_value_lws(p, ch, a)
      [] p.state = "s_headers_almost_done" -> s_headers_almost_done(p, ch, a)
      [] p.state = "s_body_identity" -> s_body_identity(p, ch, a)
      [] p.state = "s_chunk_size_start" -> s_chunk_size_start(p, ch)
      [] p.state = "s_chunk_size" -> s_chunk_size(p, ch)
      [] p.state = "s_chunk_parameters" -> s_chunk_parameters(p, ch)
      [] p.state = "s_chunk_size_almost_done" -> s_chunk_size_almost_done(p, ch, a)
      [] p.state = "s_chunk_data" -> s_chunk_data(p, ch)
      [] p.state = "s_chunk_data_almost_done" -> s_chunk_data_almost_done(p, ch, a)
      [] p.state = "s_chunk_data_done" -> s_chunk_data_done(p, ch, a)

\* One turn of the loop over the buffer.
step(p, ch, a) ==
    LET q == Transition(p, ch, a)
    IN  IF Failed(q) THEN q
        ELSE [q EXCEPT !.marks = [c \in DataCallbacks |-> IF @[c] = -1 THEN -1 ELSE @[c] + 1]]

\* Mutant: the url of a query string does not go on.
Resumed_NotInQuery(s) == CASE s = "s_header_field" -> {"header_field"}
                [] s = "s_header_value" -> {"header_value"}
                [] s \in UrlStates \ {"s_req_query_string"} -> {"url"}
                [] s = "s_res_status" -> {"status"}
                [] OTHER -> {}

\* A call begins: what was being read goes on at the start of the buffer.
Resumed(s) == CASE s = "s_header_field" -> {"header_field"}
                [] s = "s_header_value" -> {"header_value"}
                [] s \in UrlStates -> {"url"}
                [] s = "s_res_status" -> {"status"}
                [] OTHER -> {}

begin(p) ==
    [p EXCEPT !.exited = FALSE, !.out = <<>>,
              !.marks = [c \in DataCallbacks |-> IF c \in Resumed(p.state) THEN 0 ELSE -1]]

\* The end of the buffer: what is marked is handed over.
hand_over(p, cb, a) == IF Failed(p) THEN p ELSE CALLBACK_DATA(p, cb, a)

flush(p, a) ==
    hand_over(hand_over(hand_over(hand_over(hand_over(p,
        "header_field", a), "header_value", a), "url", a), "body", a), "status", a)

\* A call with an empty buffer says that the connection has ended.
eof(p, a) ==
    CASE p.state = "s_body_identity_eof" -> CALLBACK_NOTIFY(p, "message_complete", a)
      [] p.state \in {"s_dead", "s_start_req_or_res", "s_start_res", "s_start_req"} -> p
      [] OTHER -> Fail(p, "INVALID_EOF_STATE")
=============================================================================
