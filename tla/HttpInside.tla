----------------------------- MODULE HttpInside -----------------------------
(***************************************************************************)
(* Where a parser that reads a request from its start can be in it.        *)
(***************************************************************************)
EXTENDS HttpGrammar

LineStates == {"s_header_field_start", "s_header_value_lws", "s_header_value_discard_lws"}

ValueStates == {"s_header_value_discard_ws", "s_header_value_discard_ws_almost_done",
    "s_header_value_discard_lws", "s_header_value", "s_header_value_lws",
    "s_header_almost_done"}

HeadStates == ValueStates \cup {"s_header_field_start", "s_header_field",
                                "s_headers_almost_done"}

VersionStates == {"s_req_http_start", "s_req_http_H", "s_req_http_HT", "s_req_http_HTT",
    "s_req_http_HTTP", "s_req_http_major", "s_req_http_dot", "s_req_http_minor",
    "s_req_http_end", "s_req_line_almost_done"}

TransferValues == {"transfer_encoding", "te_token_start", "te_chunked", "te_token", "chunked"}

\* A request g, with its parts: the url ends at u, the head at h, and chunks begin
\* at C, which is empty when the body has a length.
Parsed(g) ==
    /\ g.text \in Seq(STRING) /\ Len(g.text) >= 5
    /\ g.method \in DOMAIN Spelling /\ Spelling[g.method] = <<g.text[1], g.text[2]>>
    /\ g.text[3] = Blank
    /\ Parts(g, g.u, g.h)
    /\ g.method = "GET" => g.h = Len(g.text)
    /\ g.C = {} => LengthGiven(g.text, g.u, g.h)
    /\ g.C # {} => /\ g.method # "GET"
                   /\ \A k \in (g.u + 2)..(g.h - 1) : ~IsLength(g.text, k)
                   /\ \E k \in (g.u + 2)..(g.h - 1), a \in (g.u + 2)..(g.h - 1),
                         l \in (g.u + 2)..(g.h - 1) : SaysChunked(g.text, k, a, l)
                   /\ Chunked(g.text, g.h, g.C)

InHead(g) == (g.u + 2)..(g.h - 1)
HasTransfer(g) == \E k \in InHead(g) : IsTransfer(g.text, k)

-----------------------------------------------------------------------------
(* The headers; o is the position of the last symbol read.                 *)

Lines(p, t, o) ==
    /\ p.state \in HeadStates
    /\ p.state \in LineStates <=> t[o] = LF
    /\ p.state = "s_headers_almost_done" <=> t[o] = CR /\ t[o - 1] = LF

InName(p, h) == p.state = "s_header_field" /\ p.header = h

Names(p, t, o) ==
    /\ InName(p, "C") <=> t[o - 1] = LF /\ Lower(t[o]) = "c"
    /\ InName(p, "CON") <=> t[o - 2] = LF /\ Lower(t[o - 1]) = "c" /\ t[o] = "on"
    /\ InName(p, "content_length") <=>
          t[o - 3] = LF /\ Lower(t[o - 2]) = "c" /\ t[o - 1] = "on" /\ t[o] = "tent-length"
    /\ InName(p, "te") <=> t[o - 1] = LF /\ Lower(t[o]) = "t"
    /\ InName(p, "transfer_encoding") <=>
          t[o - 2] = LF /\ Lower(t[o - 1]) = "t" /\ t[o] = "ransfer-encoding"

\* The value of a Content-Length is awaited, its number has begun.
Awaited(g, o) == \E k \in InHead(g) :
    IsLength(g.text, k) /\ k + 3 <= o /\ Blanks(g.text, k + 4, o)

Begun(g, o) == \E k \in InHead(g), a \in InHead(g) :
    IsLength(g.text, k) /\ k + 4 <= a /\ a <= o /\ Blanks(g.text, k + 4, a - 1)
    /\ g.text[a] \in Num

InNumber(p) == p.state = "s_header_value" /\ p.header = "content_length_num"

NumberRead(p, g, o) == \E k \in InHead(g), a \in InHead(g), z \in InHead(g) :
    /\ IsLength(g.text, k) /\ Declares(g.text, k, a, z, Len(g.text) - g.h)
    /\ a <= o /\ o <= z /\ p.content_length = Number(g.text, a, o, Digit, 10)

LengthRead(p, g, o) ==
    /\ p.state = "s_header_value_discard_ws" /\ p.header = "content_length" <=> Awaited(g, o)
    /\ p.state \in ValueStates \ {"s_header_value_discard_ws"} => p.header # "content_length"
    /\ "CONTENTLENGTH" \in p.flags <=> Begun(g, o)
    /\ "CONTENTLENGTH" \notin p.flags => p.content_length = ULLONG_MAX /\ ~InNumber(p)
    /\ "CONTENTLENGTH" \in p.flags =>
         /\ p.content_length # ULLONG_MAX
         /\ ~InNumber(p) => p.content_length = Len(g.text) - g.h
    /\ InNumber(p) => NumberRead(p, g, o)

\* A Transfer-Encoding that says chunked.
TransferRead(p, g, o) ==
    /\ p.state = "s_header_field" => p.header \notin TransferValues \ {"transfer_encoding"}
    /\ p.state \in ValueStates /\ p.header \in TransferValues => HasTransfer(g)
    /\ "CHUNKED" \in p.flags => HasTransfer(g)
    /\ \A k \in InHead(g), a \in InHead(g), l \in InHead(g) : SaysChunked(g.text, k, a, l) =>
         /\ o \in (k + 2)..(a - 1) =>
              p.state = "s_header_value_discard_ws" /\ p.header = "transfer_encoding"
         /\ o = a => p.state = "s_header_value" /\ p.header = "te_chunked"
         /\ o = a + 1 => p.state = "s_header_value" /\ p.header = "chunked"
         /\ o \in (a + 2)..(l - 1) => p.state = "s_header_almost_done" /\ p.header = "chunked"
         /\ o = l => p.state = "s_header_value_lws" /\ p.header = "chunked"
         /\ o > l => "CHUNKED" \in p.flags

-----------------------------------------------------------------------------
(* The parts of a request.                                                 *)

InMethod(p, g, o) ==
    /\ p.flags = {} /\ p.content_length = ULLONG_MAX
    /\ \/ o = 1 /\ p.state = "s_req_method" /\ p.index = 1 /\ p.method = FirstLetter[g.text[1]]
       \/ o = 2 /\ p.state = "s_req_method" /\ p.index = 2 /\ p.method = g.method
       \/ o = 3 /\ p.state = "s_req_spaces_before_url" /\ p.method = g.method

InUrl(p, g, o) ==
    /\ p.flags = {} /\ p.content_length = ULLONG_MAX /\ p.method = g.method
    /\ o \in 4..g.u /\ p.state \in UrlStates

InVersion(p, g, o) ==
    /\ p.flags = {} /\ p.content_length = ULLONG_MAX /\ p.method = g.method
    /\ g.u < o /\ o < g.h
    /\ p.state \in VersionStates /\ \A k \in 4..o : g.text[k] # LF

InHeaders(p, g, o) ==
    /\ p.method = g.method
    /\ g.u < o /\ o < g.h
    /\ {"TRAILING", "SKIPBODY"} \cap p.flags = {}
    /\ Lines(p, g.text, o) /\ Names(p, g.text, o)
    /\ LengthRead(p, g, o) /\ TransferRead(p, g, o)

InBody(p, g, o) ==
    /\ g.h <= o /\ o < Len(g.text)
    /\ p.state = "s_body_identity" /\ g.C = {} /\ p.content_length = Len(g.text) - o

\* What follows the size v of a chunk, the line of which ends at e: bytes and another
\* chunk, or trailers.
Continues(g, e, v) ==
    \/ v = 0 /\ FirstEmpty(g.text, e, Len(g.text))
    \/ v > 0 /\ e + v + 3 \in g.C /\ g.text[e + v + 1] = CR /\ g.text[e + v + 2] = LF

InSize(p, g, o, c, d, e, v) ==
    \/ p.state = "s_chunk_size" /\ o \in c..d /\ p.content_length = Number(g.text, c, o, unhex, 16)
    \/ p.state = "s_chunk_parameters" /\ o \in (d + 1)..(e - 2) /\ p.content_length = v
    \/ p.state = "s_chunk_size_almost_done" /\ o = e - 1 /\ p.content_length = v

InData(p, o, e, v) ==
    \/ p.state = "s_chunk_data" /\ o \in e..(e + v - 1) /\ p.content_length = e + v - o
    \/ p.state = "s_chunk_data_almost_done" /\ o = e + v
    \/ p.state = "s_chunk_data_done" /\ o = e + v + 1

InTrailer(p, g, o, e) ==
    e <= o /\ o < Len(g.text) /\ "TRAILING" \in p.flags /\ Lines(p, g.text, o)

\* The chunk begins at c, its size v ends at d and the line with it at e.
InPart(p, g, o, c, d, e, v) ==
    /\ Chunk(g.text, c, d, e) /\ v = Number(g.text, c, d, unhex, 16) /\ Continues(g, e, v)
    /\ \/ InSize(p, g, o, c, d, e, v) \/ (v > 0 /\ InData(p, o, e, v))
       \/ (v = 0 /\ InTrailer(p, g, o, e))

InChunk(p, g, o) ==
    /\ g.h <= o /\ o < Len(g.text) /\ g.C # {}
    /\ \/ p.state = "s_chunk_size_start" /\ o + 1 \in g.C
       \/ \E c \in g.C : \E d \in c..Len(g.text), e \in c..Len(g.text) :
            InPart(p, g, o, c, d, e, Number(g.text, c, d, unhex, 16))

\* After o symbols; the url was marked when its first one was read.
Inside(p, g, o) ==
    /\ p.type = "REQUEST"
    /\ \/ InMethod(p, g, o) \/ (InUrl(p, g, o) /\ p.marks["url"] = o - 3)
       \/ InVersion(p, g, o) \/ InHeaders(p, g, o) \/ InBody(p, g, o) \/ InChunk(p, g, o)
=============================================================================
