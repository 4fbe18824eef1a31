-------------------------- MODULE HttpRequestProofs --------------------------
(***************************************************************************)
(* What the parser does with a request (HttpGrammar), one symbol at a      *)
(* time.  InsideStep: a parser that is o symbols inside a request          *)
(* (HttpInside) fails, or is o + 1 symbols inside it, or has its message   *)
(* complete, which for a GET and a POST is at the last symbol.  And        *)
(* FirstStep, NameStep: outside of a request it is brought into one by the *)
(* first two symbols of a method only.                                     *)
(***************************************************************************)
EXTENDS HttpInside, HttpParserProofs

-----------------------------------------------------------------------------
(* What a symbol does to a parser in a header.                             *)

\* No callback that matters to the calls of the application.
Quiet(out) == \A k \in DOMAIN out : out[k].cb \notin {"url", "message_complete"}

LEMMA QuietGrows ==
    ASSUME NEW out \in Seq(Event), Quiet(out), NEW e \in Event,
           e.cb \notin {"url", "message_complete"}
    PROVE  Quiet(Append(out, e))
<1>1. /\ DOMAIN out = 1..Len(out) /\ DOMAIN Append(out, e) = 1..(Len(out) + 1)
      /\ \A k \in 1..Len(out) : Append(out, e)[k] = out[k]
      /\ Append(out, e)[Len(out) + 1] = e
  OBVIOUS
<1> QED BY <1>1 DEF Quiet

LEMMA QuietEmpty == Quiet(<<>>)
BY DEF Quiet

\* What is kept.
Same(q, p) ==
    /\ q.type = p.type /\ q.method = p.method /\ p.flags \subseteq q.flags
    /\ \A f \in {"TRAILING", "SKIPBODY"} : f \in q.flags => f \in p.flags
    /\ Quiet(q.out)

SameLength(q, p) ==
    q.content_length = p.content_length /\ ("CONTENTLENGTH" \in q.flags <=> "CONTENTLENGTH" \in p.flags)

SameChunked(q, p) == "CHUNKED" \in q.flags <=> "CHUNKED" \in p.flags

\* A line begins, with a name or an empty one.
FirstName(ch) == IF Lower(ch) \in DOMAIN FirstOfField THEN FirstOfField[Lower(ch)] ELSE "general"

Begins(q, ch) ==
    /\ ch # Blank
    /\ \/ ch = CR /\ q.state = "s_headers_almost_done"
       \/ Token(ch) /\ q.state = "s_header_field" /\ q.header = FirstName(ch)

LineBegins(q, p, ch) ==
    /\ p.state \in LineStates /\ Begins(q, ch) /\ SameLength(q, p)
    /\ "CHUNKED" \in q.flags <=>
          "CHUNKED" \in p.flags \/ (p.state # "s_header_field_start" /\ p.header = "chunked")

NameGoes(q, p, ch) ==
    /\ p.state = "s_header_field" /\ Token(ch) /\ q.state = "s_header_field"
    /\ q.header = Name(p.header, ch) /\ SameLength(q, p) /\ SameChunked(q, p)

NameEnds(q, p, ch) ==
    /\ p.state = "s_header_field" /\ ch = ":" /\ q.state = "s_header_value_discard_ws"
    /\ q.header = p.header /\ SameLength(q, p) /\ SameChunked(q, p)

\* A blank before the value; a line before it has ended without one.
ValueWaits(q, p, ch) ==
    /\ p.state \in {"s_header_value_discard_ws", "s_header_value_discard_lws"} /\ ch = Blank
    /\ q.state = "s_header_value_discard_ws"
    /\ q.header = p.header /\ SameLength(q, p) /\ SameChunked(q, p)

NumberBegins(q, p, ch) ==
    /\ p.header = "content_length" /\ ch \in Num /\ "CONTENTLENGTH" \notin p.flags
    /\ q.header = "content_length_num" /\ "CONTENTLENGTH" \in q.flags
    /\ q.content_length = Digit[ch]

OtherBegins(q, p, ch) ==
    /\ p.header # "content_length" /\ q.header \notin {"content_length", "content_length_num"}
    /\ q.header \in TransferValues => p.header \in TransferValues
    /\ p.header = "transfer_encoding" =>
          q.header = IF Lower(ch) = "c" THEN "te_chunked" ELSE "te_token"
    /\ SameLength(q, p)

ValueBegins(q, p, ch) ==
    /\ \/ p.state = "s_header_value_discard_ws" /\ ch \notin {Blank, CR, LF}
       \/ p.state = "s_header_value_lws" /\ ch = Blank
    /\ q.state = "s_header_value" /\ SameChunked(q, p)
    /\ NumberBegins(q, p, ch) \/ OtherBegins(q, p, ch)

ValueGoes(q, p, ch) ==
    /\ p.state = "s_header_value" /\ ch \notin {CR, LF} /\ q.state = "s_header_value"
    /\ SameChunked(q, p) /\ ("CONTENTLENGTH" \in q.flags <=> "CONTENTLENGTH" \in p.flags)
    /\ \/ /\ p.header = "content_length_num" /\ q.header = "content_length_num" /\ ch \in Num
          /\ q.content_length = p.content_length * 10 + Digit[ch]
          /\ q.content_length # ULLONG_MAX
       \/ /\ p.header = "content_length_num" /\ q.header = "content_length_ws" /\ ch \notin Num
          /\ q.content_length = p.content_length
       \/ /\ p.header # "content_length_num"
          /\ q.header \notin {"content_length", "content_length_num"}
          /\ q.header \in TransferValues => p.header \in TransferValues
          /\ p.header = "te_chunked" /\ Lower(ch) = "hunked" => q.header = "chunked"
          /\ q.content_length = p.content_length

LineEnd ==
    {<<"s_header_value", CR, "s_header_almost_done">>, <<"s_header_value", LF, "s_header_value_lws">>,
     <<"s_header_almost_done", LF, "s_header_value_lws">>,
     <<"s_header_value_discard_ws", CR, "s_header_value_discard_ws_almost_done">>,
     <<"s_header_value_discard_ws", LF, "s_header_value_discard_lws">>,
     <<"s_header_value_discard_ws_almost_done", LF, "s_header_value_discard_lws">>}

ValueEnds(q, p, ch) ==
    /\ <<p.state, ch, q.state>> \in LineEnd
    /\ q.header = p.header /\ SameLength(q, p) /\ SameChunked(q, p)

HeadMove(q, p, ch) ==
    /\ Same(q, p)
    /\ Failed(q) \/ LineBegins(q, p, ch) \/ NameGoes(q, p, ch) \/ NameEnds(q, p, ch)
       \/ ValueWaits(q, p, ch) \/ ValueBegins(q, p, ch) \/ ValueGoes(q, p, ch)
       \/ ValueEnds(q, p, ch)

LEMMA GotoKeeps ==
    ASSUME NEW p, Typed(p), Quiet(p.out), NEW s
    PROVE  LET q == Goto(p, s)
           IN  /\ Same(q, p) /\ SameLength(q, p) /\ SameChunked(q, p)
               /\ q.state = s /\ q.header = p.header /\ q.flags = p.flags
BY DEF Goto, Typed, Fields, Same, SameLength, SameChunked

LEMMA FailKeeps ==
    ASSUME NEW p, Typed(p), Quiet(p.out), NEW e \in Errors \ {"OK"}
    PROVE  Same(Fail(p, e), p) /\ Failed(Fail(p, e))
BY DEF Fail, Failed, Typed, Fields, Same

\* The data of a field or a value is handed over.
LEMMA DataKeeps ==
    ASSUME NEW p, Typed(p), Quiet(p.out), NEW c \in {"header_field", "header_value", "body"},
           NEW x \in {0, 1}, NEW a, NEW q, IsData(q, p, c, x, a)
    PROVE  /\ Same(q, p) /\ SameLength(q, p) /\ SameChunked(q, p)
           /\ q.state = p.state /\ q.header = p.header /\ q.flags = p.flags
<1>1. Quiet(q.out)
  <2>1. CASE Marked(p, c)
    <3> DEFINE e == [cb |-> c, n |-> p.marks[c] + x, extra |-> x]
    <3>1. p.marks[c] \in Nat /\ c \in Callbacks
      BY <2>1 DEF Marked, Typed, DataCallbacks, Callbacks
    <3>2. e \in Event /\ e.cb \notin {"url", "message_complete"} /\ q.out = Append(p.out, e)
      BY <2>1, <3>1 DEF IsData, Event
    <3> HIDE DEF e
    <3> QED BY <3>2, QuietGrows DEF Typed
  <2>2. CASE ~Marked(p, c)
    BY <2>2 DEF IsData
  <2> QED BY <2>1, <2>2
<1> QED BY <1>1 DEF IsData, Kept, Same, SameLength, SameChunked

\* The beginning of a line that is not empty.
LEMMA FieldStartMove ==
    ASSUME NEW p, Steady(p), Quiet(p.out), NEW ch, ch # LF, NEW a
    PROVE  LET q == s_header_field_start(p, ch, a)
           IN  Same(q, p) /\ (Failed(q) \/ (Begins(q, ch) /\ SameLength(q, p) /\ SameChunked(q, p)))
<1> DEFINE m == MARK(p, "header_field")
           q == [m EXCEPT !.state = "s_header_field", !.header = FirstName(ch)]
           s == s_header_field_start(p, ch, a)
<1>1. "header_field" \in DataCallbacks /\ "INVALID_HEADER_TOKEN" \in Errors \ {"OK"} /\ CR # Blank
  BY DEF DataCallbacks, Errors, CR, Blank
<1>2. s = CASE ch = CR -> Goto(p, "s_headers_almost_done")
            [] ch # CR /\ Token(ch) -> q
            [] OTHER -> Fail(p, "INVALID_HEADER_TOKEN")
  BY DEF s_header_field_start, FirstName
<1>3. IsMark(m, p, "header_field")
  BY <1>1, MarkEffect DEF Steady, OnlyMark, NoMark
<1> HIDE DEF m
<1>4. /\ Same(q, p) /\ SameLength(q, p) /\ SameChunked(q, p)
      /\ q.state = "s_header_field" /\ q.header = FirstName(ch)
  BY <1>3 DEF IsMark, Kept, Typed, Fields, Same, SameLength, SameChunked
<1> HIDE DEF q
<1>5. Typed(p)
  BY DEF Steady
<1>6. CASE ch = CR
  <2> DEFINE r == Goto(p, "s_headers_almost_done")
  <2>1. s = r
    BY <1>2, <1>6
  <2>2. Same(r, p) /\ SameLength(r, p) /\ SameChunked(r, p) /\ r.state = "s_headers_almost_done"
    BY <1>5, GotoKeeps
  <2> QED BY <1>1, <1>6, <2>1, <2>2 DEF Begins
<1>7. CASE ch # CR /\ Token(ch)
  <2>1. ch # Blank
    BY <1>7 DEF Token, Letters, Hyphened, Num, Blank
  <2> QED BY <1>2, <1>4, <1>7, <2>1 DEF Begins
<1>8. CASE ch # CR /\ ~Token(ch)
  BY <1>1, <1>2, <1>5, <1>8, FailKeeps
<1> QED BY <1>6, <1>7, <1>8

LEMMA FieldMove ==
    ASSUME NEW p, Ready(p), p.state = "s_header_field", NEW ch, NEW a
    PROVE  HeadMove(s_header_field(p, ch, a), p, ch)
<1> DEFINE h == Name(p.header, ch)
           f == IF h = "transfer_encoding" THEN p.flags \cup {"TRANSFER_ENCODING"} ELSE p.flags
           q == [p EXCEPT !.header = h, !.flags = f]
           r == Goto(p, "s_header_value_discard_ws")
           d == CALLBACK_DATA(r, "header_field", a)
           s == s_header_field(p, ch, a)
<1>1. /\ "header_field" \in DataCallbacks /\ "INVALID_HEADER_TOKEN" \in Errors \ {"OK"}
      /\ "s_header_value_discard_ws" \in States
  BY DEF DataCallbacks, Errors, States
<1>2. Typed(p) /\ Quiet(p.out) /\ p.errno = "OK"
  BY ReadyTyped, QuietEmpty
<1>3. s = CASE Token(ch) -> q [] ch = ":" -> d [] OTHER -> Fail(p, "INVALID_HEADER_TOKEN")
  BY DEF s_header_field
<1>4. ~Token(":")
  BY DEF Token, Letters, Hyphened, Num
<1>5. CASE Token(ch)
  <2>1. /\ Same(q, p) /\ q.state = "s_header_field" /\ q.header = h
        /\ SameLength(q, p) /\ SameChunked(q, p)
    <3> HIDE DEF h
    <3> QED BY <1>2 DEF Typed, Fields, Same, SameLength, SameChunked
  <2> HIDE DEF q
  <2> QED BY <1>3, <1>4, <1>5, <2>1 DEF NameGoes, HeadMove
<1>6. CASE ch = ":"
  <2>1. Resumed(p.state) = {"header_field"}
    BY DEF Resumed, UrlStates
  <2>2. OnlyMark(p, "header_field")
    BY <1>1, <2>1, MarkedReady DEF Reading
  <2>3. /\ Same(r, p) /\ SameLength(r, p) /\ SameChunked(r, p) /\ r.flags = p.flags
        /\ r.state = "s_header_value_discard_ws" /\ r.header = p.header
    BY <1>2, GotoKeeps
  <2>4. Typed(r) /\ r.marks = p.marks /\ r.errno = "OK" /\ r.out = p.out
    BY <1>1, <1>2 DEF Goto, Typed, Fields
  <2> HIDE DEF r
  <2>5. IsData(d, r, "header_field", 0, a)
    <3>1. OnlyMark(r, "header_field") /\ 0 \in {0, 1}
      BY <2>2, <2>4 DEF OnlyMark, Marked
    <3> QED BY <1>1, <2>4, <3>1, DataEffect DEF CALLBACK_DATA
  <2> HIDE DEF d
  <2>6. /\ Same(d, r) /\ SameLength(d, r) /\ SameChunked(d, r)
        /\ d.state = r.state /\ d.header = r.header
    BY <1>2, <2>4, <2>5, DataKeeps
  <2>7. NameEnds(d, p, ch) /\ Same(d, p)
    BY <1>6, <2>3, <2>6 DEF NameEnds, SameLength, SameChunked, Same
  <2> QED BY <1>3, <1>4, <1>6, <2>7 DEF HeadMove
<1>7. CASE ~Token(ch) /\ ch # ":"
  BY <1>1, <1>2, <1>3, <1>7, FailKeeps DEF HeadMove
<1> QED BY <1>5, <1>6, <1>7

LEMMA ValueStartMove ==
    ASSUME NEW p, Steady(p), Quiet(p.out), NEW ch
    PROVE  LET q == s_header_value_start(p, ch)
           IN  /\ Same(q, p)
               /\ \/ Failed(q)
                  \/ /\ q.state = "s_header_value" /\ SameChunked(q, p)
                     /\ NumberBegins(q, p, ch) \/ OtherBegins(q, p, ch)
<1> DEFINE m == MARK(p, "header_value")
           q == [m EXCEPT !.state = "s_header_value"]
           c == Lower(ch)
           x == IF c = "c" THEN "te_chunked" ELSE "te_token"
           y == Connection(c, "conn_token")
           s == s_header_value_start(p, ch)
           Fine(t) == /\ Same(t, p)
                      /\ \/ Failed(t)
                         \/ /\ t.state = "s_header_value" /\ SameChunked(t, p)
                            /\ NumberBegins(t, p, ch) \/ OtherBegins(t, p, ch)
<1> SUFFICES Fine(s)
  OBVIOUS
<1>1. /\ "header_value" \in DataCallbacks /\ "s_header_value" \in States
      /\ {"INVALID_CONTENT_LENGTH", "UNEXPECTED_CONTENT_LENGTH"} \subseteq Errors \ {"OK"}
  BY DEF States, Errors, DataCallbacks
<1>2. y \notin TransferValues \cup {"content_length", "content_length_num"}
  BY DEF Connection, ConnectionValue, TransferValues
<1>3. s = CASE p.header = "upgrade" ->
                [q EXCEPT !.flags = @ \cup {"UPGRADE"}, !.header = "general"]
          [] p.header = "transfer_encoding" -> [q EXCEPT !.header = x]
          [] p.header = "content_length" ->
                CASE ch \notin Num -> Fail(q, "INVALID_CONTENT_LENGTH")
                  [] ch \in Num /\ "CONTENTLENGTH" \in p.flags ->
                        Fail(q, "UNEXPECTED_CONTENT_LENGTH")
                  [] OTHER -> [q EXCEPT !.flags = @ \cup {"CONTENTLENGTH"},
                        !.content_length = Digit[ch], !.header = "content_length_num"]
          [] p.header = "connection" -> [q EXCEPT !.header = y]
          [] p.header \in {"te_token_start", "conn_token_start", "content_length_ws"} -> q
          [] OTHER -> [q EXCEPT !.header = "general"]
  BY DEF s_header_value_start
<1>4. IsMark(m, p, "header_value")
  BY <1>1, MarkEffect DEF Steady, OnlyMark, NoMark
<1> HIDE DEF m
<1>5. /\ Typed(q) /\ q.state = "s_header_value" /\ q.header = p.header
      /\ q.flags = p.flags /\ q.content_length = p.content_length
      /\ q.type = p.type /\ q.method = p.method /\ q.out = p.out /\ q.errno = "OK"
  BY <1>1, <1>4 DEF IsMark, Kept, Steady, Typed, Fields
<1> HIDE DEF q, x, y
<1>6. Same(q, p) /\ SameLength(q, p) /\ SameChunked(q, p)
  BY <1>5 DEF Same, SameLength, SameChunked
<1>7. ASSUME NEW h \in HeaderStates, h \notin {"content_length", "content_length_num"},
             p.header # "content_length", h \in TransferValues => p.header \in TransferValues,
             p.header = "transfer_encoding" => h = x
      PROVE  Fine([q EXCEPT !.header = h])
  <2> DEFINE r == [q EXCEPT !.header = h]
  <2>1. /\ r.state = q.state /\ r.header = h /\ r.flags = q.flags
        /\ r.content_length = q.content_length
        /\ r.type = q.type /\ r.method = q.method /\ r.out = q.out
    BY <1>5 DEF Typed, Fields
  <2> HIDE DEF r
  <2>2. Same(r, p) /\ SameLength(r, p) /\ SameChunked(r, p)
    BY <1>5, <2>1 DEF Same, SameLength, SameChunked
  <2>3. OtherBegins(r, p, ch)
    BY <1>7, <2>1, <2>2 DEF OtherBegins, x
  <2> QED BY <1>5, <2>1, <2>2, <2>3 DEF r
<1>8. CASE p.header = "upgrade"
  <2> DEFINE r == [q EXCEPT !.flags = @ \cup {"UPGRADE"}, !.header = "general"]
  <2>1. /\ r.state = q.state /\ r.header = "general" /\ r.flags = q.flags \cup {"UPGRADE"}
        /\ r.content_length = q.content_length
        /\ r.type = q.type /\ r.method = q.method /\ r.out = q.out
    BY <1>5 DEF Typed, Fields
  <2> HIDE DEF r
  <2>2. Same(r, p) /\ SameLength(r, p) /\ SameChunked(r, p)
    BY <1>5, <2>1 DEF Same, SameLength, SameChunked
  <2>3. OtherBegins(r, p, ch)
    BY <1>8, <2>1, <2>2 DEF OtherBegins, TransferValues
  <2>4. Fine(r)
    BY <1>5, <2>1, <2>2, <2>3
  <2>5. s = r
    BY <1>3, <1>8 DEF r
  <2> HIDE DEF s
  <2> QED BY <2>4, <2>5
<1>9. CASE p.header = "transfer_encoding"
  <2>1. x \in HeaderStates /\ x \notin {"content_length", "content_length_num"}
        /\ p.header \in TransferValues
    BY <1>9 DEF x, HeaderStates, TransferValues
  <2>2. Fine([q EXCEPT !.header = x])
    BY <1>7, <1>9, <2>1
  <2>3. s = [q EXCEPT !.header = x]
    BY <1>3, <1>9
  <2> HIDE DEF s
  <2> QED BY <2>2, <2>3
<1>10. CASE p.header = "content_length"
  <2>1. CASE ch \in Num /\ "CONTENTLENGTH" \notin p.flags
    <3> DEFINE r == [q EXCEPT !.flags = @ \cup {"CONTENTLENGTH"},
                        !.content_length = Digit[ch], !.header = "content_length_num"]
    <3>1. /\ r.state = q.state /\ r.header = "content_length_num"
          /\ r.flags = q.flags \cup {"CONTENTLENGTH"} /\ r.content_length = Digit[ch]
          /\ r.type = q.type /\ r.method = q.method /\ r.out = q.out
      BY <1>5 DEF Typed, Fields
    <3> HIDE DEF r
    <3>2. Same(r, p) /\ SameChunked(r, p) /\ NumberBegins(r, p, ch)
      BY <1>5, <1>10, <2>1, <3>1 DEF Same, SameChunked, NumberBegins
    <3>3. Fine(r)
      BY <1>5, <3>1, <3>2
    <3>4. s = r
      BY <1>3, <1>10, <2>1 DEF r
    <3> HIDE DEF s
    <3> QED BY <3>3, <3>4
  <2>2. CASE ~(ch \in Num /\ "CONTENTLENGTH" \notin p.flags)
    <3>1. s \in {Fail(q, "INVALID_CONTENT_LENGTH"), Fail(q, "UNEXPECTED_CONTENT_LENGTH")}
      BY <1>3, <1>10, <2>2
    <3>2. \A e \in {"INVALID_CONTENT_LENGTH", "UNEXPECTED_CONTENT_LENGTH"} :
             Same(Fail(q, e), q) /\ Failed(Fail(q, e))
      BY <1>1, <1>5, <1>6, FailKeeps DEF Same
    <3>3. Same(s, q) /\ Failed(s)
      BY <3>1, <3>2
    <3> QED BY <1>6, <3>3 DEF Same
  <2> QED BY <2>1, <2>2
<1>11. CASE p.header = "connection"
  <2>1. y \in HeaderStates
    BY DEF y, Connection, ConnectionValue, HeaderStates
  <2>2. Fine([q EXCEPT !.header = y])
    BY <1>2, <1>7, <1>11, <2>1
  <2>3. s = [q EXCEPT !.header = y]
    BY <1>3, <1>11
  <2> HIDE DEF s
  <2> QED BY <2>2, <2>3
<1>12. CASE p.header \in {"te_token_start", "conn_token_start", "content_length_ws"}
  <2>1. s = q
    BY <1>3, <1>12
  <2>2. OtherBegins(q, p, ch)
    BY <1>5, <1>6, <1>12 DEF OtherBegins, TransferValues
  <2>3. Fine(q)
    BY <1>5, <1>6, <2>2
  <2> HIDE DEF s
  <2> QED BY <2>1, <2>3
<1>13. CASE p.header \notin {"upgrade", "transfer_encoding", "content_length", "connection",
                             "te_token_start", "conn_token_start", "content_length_ws"}
  <2>1. Fine([q EXCEPT !.header = "general"])
    BY <1>7, <1>13 DEF HeaderStates, TransferValues
  <2>2. s = [q EXCEPT !.header = "general"]
    BY <1>3, <1>13
  <2> HIDE DEF s
  <2> QED BY <2>1, <2>2
<1> QED BY <1>8, <1>9, <1>10, <1>11, <1>12, <1>13

LEMMA NextHeader ==
    ASSUME NEW h \in HeaderStates, h # "content_length_num", NEW ch
    PROVE  LET n == NextInValue(h, ch)
           IN  /\ n \notin {"content_length", "content_length_num"}
               /\ n \in TransferValues => h \in TransferValues
               /\ h = "te_chunked" /\ Lower(ch) = "hunked" => n = "chunked"
<1> DEFINE c == Lower(ch)
           n == NextInValue(h, ch)
           Fine == /\ n \notin {"content_length", "content_length_num"}
                   /\ n \in TransferValues => h \in TransferValues
                   /\ h = "te_chunked" /\ Lower(ch) = "hunked" => n = "chunked"
<1> SUFFICES Fine
  OBVIOUS
<1>1. \A d : ConnectionRest(h, d) \in {"keep_alive", "close", "conn_upgraded", "conn_token"}
  BY DEF ConnectionRest
<1>2. \A d, o : Connection(d, o) \in {o, "conn_keep_alive", "conn_close", "conn_upgrade"}
  BY DEF Connection, ConnectionValue
<1> DEFINE ws == IF ch = Blank THEN h ELSE "general"
           o == IF Token(c) THEN "conn_token" ELSE ws
<1>3. n = CASE h = "te_token_start" ->
                CASE c = "c" -> "te_chunked" [] c # "c" /\ Token(c) -> "te_token" [] OTHER -> ws
          [] h = "te_chunked" -> IF c = "hunked" THEN "chunked" ELSE "te_token"
          [] h = "te_token" -> IF ch = "," THEN "te_token_start" ELSE h
          [] h = "chunked" -> IF ch = Blank THEN h ELSE "te_token"
          [] h = "conn_token_start" -> Connection(c, o)
          [] h \in {"conn_keep_alive", "conn_close", "conn_upgrade"} -> ConnectionRest(h, c)
          [] h = "conn_token" -> IF ch = "," THEN "conn_token_start" ELSE h
          [] h \in DOMAIN ConnectionFlag ->
                CASE ch = "," -> "conn_token_start" [] ch = Blank -> h [] OTHER -> "conn_token"
          [] OTHER -> "general"
  BY DEF NextInValue
<1>4. DOMAIN ConnectionFlag = {"keep_alive", "close", "conn_upgraded"}
  BY DEF ConnectionFlag
<1>5. ws \in {h, "general"} /\ o \in {h, "general", "conn_token"}
  OBVIOUS
<1>6. Connection(c, o) \in {h, "general", "conn_token", "conn_keep_alive", "conn_close", "conn_upgrade"}
  BY <1>2, <1>5
<1> HIDE DEF n, c, ws, o
<1>7. CASE h \in {"te_token_start", "te_chunked", "te_token", "chunked"}
  <2>1. n \in {"te_chunked", "te_token", "te_token_start", "general", "chunked"}
    BY <1>3, <1>4, <1>5, <1>7
  <2>2. h = "te_chunked" /\ c = "hunked" => n = "chunked"
    BY <1>3, <1>4, <1>7
  <2> QED BY <1>7, <2>1, <2>2 DEF TransferValues, c
<1>8. CASE h = "conn_token_start"
  <2>1. n = Connection(c, o)
    BY <1>3, <1>4, <1>8
  <2> QED BY <1>6, <1>8, <2>1 DEF TransferValues
<1>9. CASE h \in {"conn_keep_alive", "conn_close", "conn_upgrade"}
  <2>1. n = ConnectionRest(h, c)
    BY <1>3, <1>4, <1>9
  <2>2. n \in {"keep_alive", "close", "conn_upgraded", "conn_token"}
    BY <1>1, <2>1
  <2> QED BY <1>9, <2>2 DEF TransferValues
<1>10. CASE h \notin {"te_token_start", "te_chunked", "te_token", "chunked", "conn_token_start",
                     "conn_keep_alive", "conn_close", "conn_upgrade"}
  <2>1. n \in {"conn_token_start", "conn_token", "general", "keep_alive", "close", "conn_upgraded"}
    BY <1>3, <1>4, <1>10
  <2> QED BY <1>10, <2>1 DEF TransferValues
<1> QED BY <1>7, <1>8, <1>9, <1>10

LEMMA InValueMove ==
    ASSUME NEW p, Ready(p), p.state = "s_header_value", NEW ch, ch \notin {CR, LF}
    PROVE  HeadMove(in_value(p, ch), p, ch)
<1> DEFINE t == Digits(p, 10, Digit[ch])
           u == [p EXCEPT !.header = "content_length_ws"]
           f == IF p.header \in DOMAIN ConnectionFlag /\ ch = ","
                THEN p.flags \cup {ConnectionFlag[p.header]} ELSE p.flags
           h == NextInValue(p.header, ch)
           v == [p EXCEPT !.header = h, !.flags = f]
           s == in_value(p, ch)
<1> SUFFICES HeadMove(s, p, ch)
  OBVIOUS
<1>1. {"INVALID_HEADER_TOKEN", "INVALID_CONTENT_LENGTH"} \subseteq Errors \ {"OK"}
  BY DEF Errors
<1>2. Typed(p) /\ Quiet(p.out) /\ p.errno = "OK" /\ p.header \in HeaderStates
  BY ReadyTyped, QuietEmpty DEF Typed
<1>3. p.header \notin {"connection", "transfer_encoding"}
  BY DEF Ready, Control, KnownValue
<1>4. s = CASE ch = "bad" -> Fail(p, "INVALID_HEADER_TOKEN")
          [] ch # "bad" /\ p.header = "content_length_num" ->
                CASE ch = Blank -> u
                  [] ch \in Num -> t
                  [] OTHER -> Fail(p, "INVALID_CONTENT_LENGTH")
          [] ch # "bad" /\ p.header = "content_length_ws" ->
                IF ch = Blank THEN p ELSE Fail(p, "INVALID_CONTENT_LENGTH")
          [] OTHER -> v
  BY <1>3 DEF in_value
<1> HIDE DEF s
<1>5. \A e \in {"INVALID_HEADER_TOKEN", "INVALID_CONTENT_LENGTH"} : HeadMove(Fail(p, e), p, ch)
  BY <1>1, <1>2, FailKeeps DEF HeadMove
<1>6. CASE ch = "bad"
  BY <1>4, <1>5, <1>6
<1>7. CASE ch # "bad" /\ p.header = "content_length_num" /\ ch \in Num
  <2>1. Digit[ch] \in 0..(10 - 1) /\ ch # Blank
    <3>1. Digit[ch] \in 0..(10 - 1)
      BY <1>7 DEF Num, Digit
    <3>2. ch # Blank
      BY <1>7 DEF Num, Blank
    <3> QED BY <3>1, <3>2
  <2>2. IsDigits(t, p, 10, Digit[ch])
    BY <1>2, <2>1, DigitsEffect
  <2>3. t.method = p.method
    BY <1>2 DEF Digits, Fail, Typed, Fields
  <2> HIDE DEF t
  <2>4. Same(t, p) /\ SameChunked(t, p) /\ ("CONTENTLENGTH" \in t.flags <=> "CONTENTLENGTH" \in p.flags)
    BY <1>2, <2>2, <2>3 DEF IsDigits, IsQuiet, Same, SameChunked
  <2>5. CASE t.errno = "INVALID_CONTENT_LENGTH"
    BY <1>4, <1>7, <2>1, <2>4, <2>5 DEF Failed, HeadMove
  <2>6. CASE t.errno # "INVALID_CONTENT_LENGTH"
    <3>1. t.content_length = p.content_length * 10 + Digit[ch] /\ t.content_length # ULLONG_MAX
      BY <2>2, <2>6, HttpParserAssumption DEF IsDigits
    <3>2. t.state = p.state /\ t.header = p.header
      BY <2>2 DEF IsDigits
    <3>3. ValueGoes(t, p, ch)
      BY <1>7, <2>4, <3>1, <3>2 DEF ValueGoes
    <3> QED BY <1>4, <1>7, <2>1, <2>4, <3>3 DEF HeadMove
  <2> QED BY <2>5, <2>6
<1>8. CASE ch # "bad" /\ p.header = "content_length_num" /\ ch = Blank
  <2>1. /\ Same(u, p) /\ SameLength(u, p) /\ SameChunked(u, p) /\ u.state = p.state
        /\ u.header = "content_length_ws"
    BY <1>2 DEF Typed, Fields, Same, SameLength, SameChunked
  <2> HIDE DEF u
  <2>2. ch \notin Num
    BY <1>8 DEF Num, Blank
  <2>3. ValueGoes(u, p, ch)
    BY <1>8, <2>1, <2>2 DEF ValueGoes, SameLength
  <2> QED BY <1>4, <1>8, <2>1, <2>2, <2>3 DEF HeadMove
<1>9. CASE ch # "bad" /\ p.header = "content_length_num" /\ ch # Blank /\ ch \notin Num
  BY <1>4, <1>5, <1>9
<1>10. CASE ch # "bad" /\ p.header = "content_length_ws"
  <2>1. Same(p, p) /\ SameLength(p, p) /\ SameChunked(p, p)
    BY <1>2 DEF Same, SameLength, SameChunked
  <2>2. ValueGoes(p, p, ch)
    BY <1>10, <2>1 DEF ValueGoes, SameLength, TransferValues
  <2>3. HeadMove(p, p, ch)
    BY <2>1, <2>2 DEF HeadMove
  <2> QED BY <1>4, <1>5, <1>10, <2>3
<1>11. CASE ch # "bad" /\ p.header \notin {"content_length_num", "content_length_ws"}
  <2>1. /\ h \notin {"content_length", "content_length_num"}
        /\ h \in TransferValues => p.header \in TransferValues
        /\ p.header = "te_chunked" /\ Lower(ch) = "hunked" => h = "chunked"
    BY <1>2, <1>11, NextHeader
  <2>2. p.flags \subseteq f /\ f \ p.flags \subseteq {"CONNECTION_KEEP_ALIVE", "CONNECTION_CLOSE",
                                                      "CONNECTION_UPGRADE"}
    <3>1. \A g \in DOMAIN ConnectionFlag : ConnectionFlag[g] \in
             {"CONNECTION_KEEP_ALIVE", "CONNECTION_CLOSE", "CONNECTION_UPGRADE"}
      BY DEF ConnectionFlag
    <3> QED BY <3>1
  <2> HIDE DEF f, h
  <2>3. /\ v.state = p.state /\ v.header = h /\ v.flags = f /\ v.out = p.out
        /\ v.content_length = p.content_length /\ v.type = p.type /\ v.method = p.method
    BY <1>2 DEF Typed, Fields
  <2>4. s = v
    BY <1>4, <1>11
  <2> HIDE DEF v
  <2>5. Same(v, p) /\ SameLength(v, p) /\ SameChunked(v, p)
    BY <1>2, <2>2, <2>3 DEF Same, SameLength, SameChunked
  <2>6. ValueGoes(v, p, ch)
    BY <1>11, <2>1, <2>3, <2>5 DEF ValueGoes, SameLength
  <2> QED BY <2>4, <2>5, <2>6 DEF HeadMove
<1> QED BY <1>6, <1>7, <1>8, <1>9, <1>10, <1>11

LEMMA ValueMove ==
    ASSUME NEW p, Ready(p), p.state = "s_header_value", NEW ch, NEW a
    PROVE  HeadMove(s_header_value(p, ch, a), p, ch)
<1> DEFINE r == Goto(p, "s_header_almost_done")
           d == CALLBACK_DATA(r, "header_value", a)
           l == Goto(d, "s_header_value_lws")
           s == s_header_value(p, ch, a)
<1> SUFFICES HeadMove(s, p, ch)
  OBVIOUS
<1>1. /\ "header_value" \in DataCallbacks /\ "s_header_almost_done" \in States
      /\ CR # LF /\ Resumed(p.state) = {"header_value"}
  BY DEF DataCallbacks, States, CR, LF, Resumed, UrlStates
<1>2. Typed(p) /\ Quiet(p.out) /\ p.errno = "OK"
  BY ReadyTyped, QuietEmpty
<1>3. OnlyMark(p, "header_value")
  BY <1>1, MarkedReady DEF Reading
<1>4. /\ Same(r, p) /\ SameLength(r, p) /\ SameChunked(r, p) /\ r.flags = p.flags
      /\ r.state = "s_header_almost_done" /\ r.header = p.header
  BY <1>2, GotoKeeps
<1>5. Typed(r) /\ r.marks = p.marks /\ r.errno = "OK" /\ r.out = p.out
  BY <1>1, <1>2 DEF Goto, Typed, Fields
<1>6. literal(d, LF) = IF d.state = "s_header_almost_done" THEN l ELSE literal(d, LF)
  BY DEF literal, ReqLiteral
<1>7. s = CASE ch = CR -> d
            [] ch = LF -> IF Failed(d) THEN d ELSE literal(d, LF)
            [] OTHER -> in_value(p, ch)
  BY DEF s_header_value
<1> HIDE DEF r, s
<1>8. IsData(d, r, "header_value", 0, a)
  <2>1. OnlyMark(r, "header_value") /\ 0 \in {0, 1}
    BY <1>3, <1>5 DEF OnlyMark, Marked
  <2> QED BY <1>1, <1>5, <2>1, DataEffect DEF CALLBACK_DATA
<1> HIDE DEF d
<1>9. /\ Same(d, r) /\ SameLength(d, r) /\ SameChunked(d, r)
      /\ d.state = r.state /\ d.header = r.header
  BY <1>2, <1>5, <1>8, DataKeeps
<1>10. Same(d, p) /\ SameLength(d, p) /\ SameChunked(d, p) /\ d.header = p.header
       /\ d.state = "s_header_almost_done"
  BY <1>4, <1>9 DEF Same, SameLength, SameChunked
<1>11. /\ Same(l, d) /\ SameLength(l, d) /\ SameChunked(l, d)
       /\ l.state = "s_header_value_lws" /\ l.header = d.header
  <2>1. Typed(d) /\ Quiet(d.out)
    BY <1>8, <1>10 DEF IsData, Same
  <2> QED BY <2>1, GotoKeeps
<1> HIDE DEF l
<1>12. Same(l, p) /\ SameLength(l, p) /\ SameChunked(l, p) /\ l.header = p.header
  BY <1>10, <1>11 DEF Same, SameLength, SameChunked
<1>13. CASE ch = CR
  <2>1. ValueEnds(d, p, ch)
    BY <1>10, <1>13 DEF ValueEnds, LineEnd
  <2> QED BY <1>1, <1>7, <1>10, <1>13, <2>1 DEF HeadMove
<1>14. CASE ch = LF
  <2>1. s \in {d, l} /\ (s = d => Failed(d))
    BY <1>1, <1>6, <1>7, <1>10, <1>11, <1>14
  <2>2. ValueEnds(l, p, ch)
    BY <1>11, <1>12, <1>14 DEF ValueEnds, LineEnd
  <2> QED BY <1>10, <1>12, <2>1, <2>2 DEF HeadMove
<1>15. CASE ch \notin {CR, LF}
  BY <1>7, <1>15, InValueMove
<1> QED BY <1>13, <1>14, <1>15

LEMMA FlagKeeps ==
    ASSUME NEW p, Steady(p), Quiet(p.out)
    PROVE  LET q == flag_value(p)
           IN  /\ Steady(q) /\ Same(q, p) /\ SameLength(q, p) /\ q.out = p.out
               /\ "CHUNKED" \in q.flags <=> "CHUNKED" \in p.flags \/ p.header = "chunked"
<1> DEFINE f == IF p.header \in DOMAIN ValueFlag THEN p.flags \cup {ValueFlag[p.header]} ELSE p.flags
           q == flag_value(p)
<1>1. /\ \A h \in DOMAIN ValueFlag : ValueFlag[h] \in {"CONNECTION_KEEP_ALIVE", "CONNECTION_CLOSE",
                                                       "CONNECTION_UPGRADE", "CHUNKED"}
      /\ \A h \in DOMAIN ValueFlag : ValueFlag[h] = "CHUNKED" <=> h = "chunked"
      /\ "chunked" \in DOMAIN ValueFlag
  BY DEF ValueFlag
<1>2. /\ p.flags \subseteq f
      /\ \A x \in {"TRAILING", "SKIPBODY", "CONTENTLENGTH"} : x \in f <=> x \in p.flags
      /\ "CHUNKED" \in f <=> "CHUNKED" \in p.flags \/ p.header = "chunked"
  BY <1>1
<1>3. q = [p EXCEPT !.flags = f]
  BY DEF flag_value
<1> HIDE DEF f
<1>4. /\ q.flags = f /\ q.content_length = p.content_length /\ q.type = p.type
      /\ q.method = p.method /\ q.out = p.out
  BY <1>3 DEF Steady, Typed, Fields
<1>5. Steady(q)
  BY FlagSteady
<1> HIDE DEF q
<1>6. Same(q, p) /\ SameLength(q, p)
  BY <1>2, <1>4 DEF Same, SameLength
<1> QED BY <1>2, <1>4, <1>5, <1>6 DEF q

LEMMA LwsMove ==
    ASSUME NEW p, Ready(p), p.state = "s_header_value_lws", NEW ch, ch # LF, NEW a
    PROVE  HeadMove(s_header_value_lws(p, ch, a), p, ch)
<1> DEFINE h == IF p.header = "content_length_num" THEN "content_length_ws" ELSE p.header
           g == [p EXCEPT !.header = h]
           b == s_header_value_start(g, ch)
           f == flag_value(p)
           l == s_header_field_start(f, ch, a)
           s == s_header_value_lws(p, ch, a)
<1> SUFFICES HeadMove(s, p, ch)
  OBVIOUS
<1>1. p.state \in Plain
  BY DEF Plain, States, BodyStates, ChunkStates, SizeStates, UrlStates, Undecided
<1>2. Steady(p) /\ Quiet(p.out)
  BY <1>1, PlainSteady, ReadyTyped, QuietEmpty
<1>3. s = IF ch = Blank THEN b ELSE l
  BY DEF s_header_value_lws
<1> HIDE DEF s
<1>4. CASE ch = Blank
  <2>1. h \in HeaderStates
    BY <1>2 DEF Steady, Typed, HeaderStates
  <2>2. /\ h \in TransferValues <=> p.header \in TransferValues
        /\ h = "transfer_encoding" <=> p.header = "transfer_encoding"
        /\ h = "content_length" <=> p.header = "content_length"
    BY DEF TransferValues
  <2> HIDE DEF h
  <2>3. Steady(g) /\ g.out = p.out /\ g.header = h /\ Same(g, p) /\ g.flags = p.flags
        /\ g.content_length = p.content_length
    BY <1>2, <2>1 DEF Steady, Typed, Fields, NoMark, Marked, Same
  <2> HIDE DEF g
  <2>4. /\ Same(b, g)
        /\ \/ Failed(b)
           \/ /\ b.state = "s_header_value" /\ SameChunked(b, g)
              /\ NumberBegins(b, g, ch) \/ OtherBegins(b, g, ch)
    BY <1>2, <2>3, ValueStartMove
  <2> HIDE DEF b
  <2>5. Same(b, p)
    BY <2>3, <2>4 DEF Same
  <2>6. ASSUME ~Failed(b) PROVE ValueBegins(b, p, ch)
    <3>1. NumberBegins(b, p, ch) \/ OtherBegins(b, p, ch)
      BY <2>2, <2>3, <2>4, <2>6 DEF NumberBegins, OtherBegins, SameLength
    <3> QED BY <1>4, <2>3, <2>4, <2>6, <3>1 DEF ValueBegins, SameChunked
  <2> QED BY <1>3, <1>4, <2>5, <2>6 DEF HeadMove
<1>5. CASE ch # Blank
  <2>1. /\ Steady(f) /\ Same(f, p) /\ SameLength(f, p) /\ f.out = p.out
        /\ "CHUNKED" \in f.flags <=> "CHUNKED" \in p.flags \/ p.header = "chunked"
    BY <1>2, FlagKeeps
  <2> HIDE DEF f
  <2>2. Same(l, f) /\ (Failed(l) \/ (Begins(l, ch) /\ SameLength(l, f) /\ SameChunked(l, f)))
    BY <1>2, <2>1, FieldStartMove
  <2> HIDE DEF l
  <2>3. Same(l, p)
    BY <2>1, <2>2 DEF Same
  <2>4. ASSUME ~Failed(l) PROVE LineBegins(l, p, ch)
    BY <2>1, <2>2, <2>4 DEF LineBegins, SameLength, SameChunked, LineStates
  <2> QED BY <1>3, <1>5, <2>3, <2>4 DEF HeadMove
<1> QED BY <1>4, <1>5

LEMMA DiscardMove ==
    ASSUME NEW p, Ready(p), p.state = "s_header_value_discard_ws", NEW ch
    PROVE  HeadMove(s_header_value_discard_ws(p, ch), p, ch)
<1> DEFINE b == s_header_value_start(p, ch)
           c == Goto(p, "s_header_value_discard_ws_almost_done")
           l == Goto(p, "s_header_value_discard_lws")
           s == s_header_value_discard_ws(p, ch)
<1> SUFFICES HeadMove(s, p, ch)
  OBVIOUS
<1>1. p.state \in Plain /\ Blank # CR /\ Blank # LF /\ CR # LF
  BY DEF Plain, States, BodyStates, ChunkStates, SizeStates, UrlStates, Undecided, Blank, CR, LF
<1>2. Steady(p) /\ Quiet(p.out) /\ Typed(p)
  BY <1>1, PlainSteady, ReadyTyped, QuietEmpty
<1>3. s = CASE ch = Blank -> p [] ch = CR -> c [] ch = LF -> l [] OTHER -> b
  BY DEF s_header_value_discard_ws
<1> HIDE DEF s
<1>4. CASE ch = Blank
  <2>1. Same(p, p) /\ SameLength(p, p) /\ SameChunked(p, p)
    BY <1>2 DEF Same, SameLength, SameChunked
  <2>2. ValueWaits(p, p, ch)
    BY <1>4, <2>1 DEF ValueWaits
  <2> QED BY <1>1, <1>3, <1>4, <2>1, <2>2 DEF HeadMove
<1>5. CASE ch = CR
  <2>1. /\ Same(c, p) /\ SameLength(c, p) /\ SameChunked(c, p) /\ c.header = p.header
        /\ c.state = "s_header_value_discard_ws_almost_done"
    BY <1>2, GotoKeeps
  <2> HIDE DEF c
  <2>2. ValueEnds(c, p, ch)
    BY <1>5, <2>1 DEF ValueEnds, LineEnd
  <2> QED BY <1>1, <1>3, <1>5, <2>1, <2>2 DEF HeadMove
<1>6. CASE ch = LF
  <2>1. /\ Same(l, p) /\ SameLength(l, p) /\ SameChunked(l, p) /\ l.header = p.header
        /\ l.state = "s_header_value_discard_lws"
    BY <1>2, GotoKeeps
  <2> HIDE DEF l
  <2>2. ValueEnds(l, p, ch)
    BY <1>6, <2>1 DEF ValueEnds, LineEnd
  <2> QED BY <1>1, <1>3, <1>6, <2>1, <2>2 DEF HeadMove
<1>7. CASE ch \notin {Blank, CR, LF}
  <2>1. /\ Same(b, p)
        /\ \/ Failed(b)
           \/ /\ b.state = "s_header_value" /\ SameChunked(b, p)
              /\ NumberBegins(b, p, ch) \/ OtherBegins(b, p, ch)
    BY <1>2, ValueStartMove
  <2> HIDE DEF b
  <2>2. ASSUME ~Failed(b) PROVE ValueBegins(b, p, ch)
    BY <1>7, <2>1, <2>2 DEF ValueBegins
  <2> QED BY <1>3, <1>7, <2>1, <2>2 DEF HeadMove
<1> QED BY <1>4, <1>5, <1>6, <1>7

\* The end of an empty value: it is handed over.
LEMMA EmptyValue ==
    ASSUME NEW p, Ready(p), p.state = "s_header_value_discard_lws", NEW a, NEW d,
           d = CALLBACK_DATA(Goto(MARK(flag_value(p), "header_value"), "s_header_field_start"),
                             "header_value", a)
    PROVE  /\ Same(d, p) /\ SameLength(d, p)
           /\ "CHUNKED" \in d.flags <=> "CHUNKED" \in p.flags \/ p.header = "chunked"
           /\ ~Failed(d) => Steady(d)
<1> DEFINE g == flag_value(p)
           m == MARK(g, "header_value")
           r == Goto(m, "s_header_field_start")
<1>1. /\ p.state \in Plain /\ "s_header_field_start" \in Plain
      /\ "header_value" \in DataCallbacks
  BY DEF Plain, States, BodyStates, ChunkStates, SizeStates, UrlStates, Undecided, DataCallbacks
<1>2. Steady(p) /\ Quiet(p.out) /\ Typed(p)
  BY <1>1, PlainSteady, ReadyTyped, QuietEmpty
<1>3. /\ Steady(g) /\ Same(g, p) /\ SameLength(g, p) /\ g.out = p.out
      /\ "CHUNKED" \in g.flags <=> "CHUNKED" \in p.flags \/ p.header = "chunked"
  BY <1>2, FlagKeeps
<1>4. d = CALLBACK_DATA(r, "header_value", a)
  OBVIOUS
<1> HIDE DEF g
<1>5. IsMark(m, g, "header_value")
  BY <1>1, <1>3, MarkEffect DEF Steady, OnlyMark, NoMark
<1> HIDE DEF m
<1>6. /\ Typed(r) /\ r.marks = m.marks /\ r.state = "s_header_field_start"
      /\ r.type = m.type /\ r.errno = m.errno
      /\ Same(r, g) /\ r.flags = g.flags /\ r.content_length = g.content_length /\ Quiet(r.out)
  <2>1. Typed(m) /\ Kept(m, g) /\ m.out = g.out /\ Quiet(m.out)
    BY <1>2, <1>3, <1>5 DEF IsMark
  <2>2. /\ Same(r, m) /\ r.flags = m.flags /\ SameLength(r, m)
        /\ r.state = "s_header_field_start"
    BY <2>1, GotoKeeps
  <2>3. Typed(r) /\ r.marks = m.marks /\ r.errno = m.errno
    BY <1>1, <2>1, PlainStates DEF Goto, Typed, Fields
  <2> HIDE DEF r
  <2> QED BY <2>1, <2>2, <2>3 DEF Kept, Same, SameLength
<1> HIDE DEF r
<1>7. OnlyMark(r, "header_value") /\ r.type # "BOTH" /\ r.errno = "OK"
  BY <1>3, <1>5, <1>6 DEF IsMark, Kept, Steady, OnlyMark, Marked
<1>8. IsData(d, r, "header_value", 0, a)
  BY <1>1, <1>4, <1>6, <1>7, DataPlain
<1>9. Same(d, r) /\ SameLength(d, r) /\ SameChunked(d, r)
  BY <1>6, <1>8, DataKeeps
<1>10. ~Failed(d) => Steady(d)
  BY <1>1, <1>6, <1>7, <1>8 DEF IsData, Kept, Steady, Failed
<1> QED BY <1>3, <1>6, <1>9, <1>10 DEF Same, SameLength, SameChunked

LEMMA DiscardLwsMove ==
    ASSUME NEW p, Ready(p), p.state = "s_header_value_discard_lws", NEW ch, ch # LF, NEW a
    PROVE  HeadMove(s_header_value_discard_lws(p, ch, a), p, ch)
<1> DEFINE d == CALLBACK_DATA(Goto(MARK(flag_value(p), "header_value"), "s_header_field_start"),
                              "header_value", a)
           l == s_header_field_start(d, ch, a)
           w == Goto(p, "s_header_value_discard_ws")
           s == s_header_value_discard_lws(p, ch, a)
<1> SUFFICES HeadMove(s, p, ch)
  OBVIOUS
<1>1. "INVALID_CONTENT_LENGTH" \in Errors \ {"OK"}
  BY DEF Errors
<1>2. Quiet(p.out) /\ Typed(p)
  BY ReadyTyped, QuietEmpty
<1>3. s = CASE ch = Blank -> w
            [] ch # Blank /\ p.header = "content_length" -> Fail(p, "INVALID_CONTENT_LENGTH")
            [] OTHER -> IF Failed(d) THEN d ELSE l
  BY DEF s_header_value_discard_lws
<1> HIDE DEF s
<1>4. CASE ch = Blank
  <2>1. /\ Same(w, p) /\ SameLength(w, p) /\ SameChunked(w, p) /\ w.header = p.header
        /\ w.state = "s_header_value_discard_ws"
    BY <1>2, GotoKeeps
  <2> HIDE DEF w
  <2>2. ValueWaits(w, p, ch)
    BY <1>4, <2>1 DEF ValueWaits
  <2> QED BY <1>3, <1>4, <2>1, <2>2 DEF HeadMove
<1>5. CASE ch # Blank /\ p.header = "content_length"
  BY <1>1, <1>2, <1>3, <1>5, FailKeeps DEF HeadMove
<1>6. CASE ch # Blank /\ p.header # "content_length"
  <2>1. /\ Same(d, p) /\ SameLength(d, p) /\ (~Failed(d) => Steady(d))
        /\ "CHUNKED" \in d.flags <=> "CHUNKED" \in p.flags \/ p.header = "chunked"
    BY EmptyValue
  <2> HIDE DEF d
  <2>2. ASSUME ~Failed(d)
        PROVE  Same(l, d) /\ (Failed(l) \/ (Begins(l, ch) /\ SameLength(l, d) /\ SameChunked(l, d)))
    <3>1. Steady(d) /\ Quiet(d.out)
      BY <2>1, <2>2 DEF Same
    <3> QED BY <3>1, FieldStartMove
  <2> HIDE DEF l
  <2>3. ASSUME ~Failed(d) PROVE Same(l, p) /\ (Failed(l) \/ LineBegins(l, p, ch))
    <3>1. Same(l, p)
      BY <2>1, <2>2, <2>3 DEF Same
    <3>2. ASSUME ~Failed(l) PROVE LineBegins(l, p, ch)
      BY <2>1, <2>2, <2>3, <3>2 DEF LineBegins, SameLength, SameChunked, LineStates
    <3> QED BY <3>1, <3>2
  <2> QED BY <1>3, <1>6, <2>1, <2>3 DEF HeadMove
<1> QED BY <1>4, <1>5, <1>6

LEMMA LineEndMove ==
    ASSUME NEW p, Ready(p), NEW ch,
           p.state \in {"s_header_almost_done", "s_header_value_discard_ws_almost_done"}
    PROVE  HeadMove(literal(p, ch), p, ch)
<1> DEFINE next == IF p.state = "s_header_almost_done" THEN "s_header_value_lws"
                   ELSE "s_header_value_discard_lws"
           q == Goto(p, next)
<1>1. Typed(p) /\ Quiet(p.out)
  BY ReadyTyped, QuietEmpty
<1>2. \E e \in Errors \ {"OK"} : literal(p, ch) = IF ch = LF THEN q ELSE Fail(p, e)
  BY DEF literal, ReqLiteral, Errors
<1>3. /\ Same(q, p) /\ SameLength(q, p) /\ SameChunked(q, p) /\ q.header = p.header
      /\ q.state = next
  BY <1>1, GotoKeeps
<1> HIDE DEF q
<1>4. CASE ch = LF
  <2>1. ValueEnds(q, p, ch)
    BY <1>3, <1>4 DEF ValueEnds, LineEnd
  <2> QED BY <1>2, <1>3, <1>4, <2>1 DEF HeadMove
<1>5. CASE ch # LF
  BY <1>1, <1>2, <1>5, FailKeeps DEF HeadMove
<1> QED BY <1>4, <1>5

LEMMA Transitions ==
    ASSUME NEW p, NEW ch, NEW a
    PROVE  LET q == Transition(p, ch, a)
           IN  /\ p.state = "s_header_field" => q = s_header_field(p, ch, a)
               /\ p.state = "s_header_value" => q = s_header_value(p, ch, a)
               /\ p.state \in UrlStates => q = s_req_url(p, ch, a)
               /\ p.state \in Literals => q = literal(p, ch)
               /\ p.state = "s_dead" => q = s_dead(p, ch)
               /\ p.state = "s_start_req" => q = s_start_req(p, ch, a)
               /\ p.state = "s_req_method" => q = s_req_method(p, ch)
               /\ p.state = "s_req_spaces_before_url" => q = s_req_spaces_before_url(p, ch)
               /\ p.state = "s_req_http_start" => q = s_req_http_start(p, ch)
               /\ p.state = "s_req_http_major" => q = http_major(p, ch)
               /\ p.state = "s_req_http_minor" => q = http_minor(p, ch)
               /\ p.state = "s_req_http_end" => q = s_req_http_end(p, ch)
               /\ p.state = "s_header_field_start" => q = s_header_field_start(p, ch, a)
               /\ p.state = "s_header_value_discard_ws" => q = s_header_value_discard_ws(p, ch)
               /\ p.state = "s_header_value_discard_lws" => q = s_header_value_discard_lws(p, ch, a)
               /\ p.state = "s_header_value_lws" => q = s_header_value_lws(p, ch, a)
               /\ p.state = "s_headers_almost_done" => q = s_headers_almost_done(p, ch, a)
               /\ p.state = "s_body_identity" => q = s_body_identity(p, ch, a)
               /\ p.state = "s_chunk_size_start" => q = s_chunk_size_start(p, ch)
               /\ p.state = "s_chunk_size" => q = s_chunk_size(p, ch)
               /\ p.state = "s_chunk_parameters" => q = s_chunk_parameters(p, ch)
               /\ p.state = "s_chunk_size_almost_done" => q = s_chunk_size_almost_done(p, ch, a)
               /\ p.state = "s_chunk_data" => q = s_chunk_data(p, ch)
               /\ p.state = "s_chunk_data_almost_done" => q = s_chunk_data_almost_done(p, ch, a)
               /\ p.state = "s_chunk_data_done" => q = s_chunk_data_done(p, ch, a)
BY DEF Transition, UrlStates, Literals, ReqLiteral, ResLiteral

\* A symbol of the headers, unless it ends an empty line.
LEMMA HeadTransition ==
    ASSUME NEW p, Ready(p), p.state \in HeadStates, NEW ch, NEW a,
           ch = LF => p.state \notin LineStates \cup {"s_headers_almost_done"}
    PROVE  HeadMove(Transition(p, ch, a), p, ch)
<1>1. CASE p.state = "s_header_field"
  BY <1>1, FieldMove, Transitions
<1>2. CASE p.state = "s_header_value"
  BY <1>2, ValueMove, Transitions
<1>3. CASE p.state = "s_header_field_start"
  <2>1. p.state \in Plain
    BY <1>3 DEF Plain, States, BodyStates, ChunkStates, SizeStates, UrlStates, Undecided
  <2> DEFINE q == s_header_field_start(p, ch, a)
  <2>2. Same(q, p) /\ (Failed(q) \/ (Begins(q, ch) /\ SameLength(q, p) /\ SameChunked(q, p)))
    <3>1. ch # LF
      BY <1>3 DEF LineStates
    <3> QED BY <2>1, <3>1, PlainSteady, ReadyTyped, QuietEmpty, FieldStartMove
  <2>3. Transition(p, ch, a) = q
    BY <1>3, Transitions
  <2> HIDE DEF q
  <2>4. HeadMove(q, p, ch)
    BY <1>3, <2>2 DEF HeadMove, LineBegins, SameChunked, LineStates
  <2> QED BY <2>3, <2>4
<1>4. CASE p.state = "s_header_value_lws"
  <2>1. Transition(p, ch, a) = s_header_value_lws(p, ch, a) /\ ch # LF
    BY <1>4, Transitions DEF LineStates
  <2> QED BY <1>4, <2>1, LwsMove
<1>5. CASE p.state = "s_header_value_discard_ws"
  <2>1. Transition(p, ch, a) = s_header_value_discard_ws(p, ch)
    BY <1>5, Transitions
  <2> QED BY <1>5, <2>1, DiscardMove
<1>6. CASE p.state = "s_header_value_discard_lws"
  <2>1. Transition(p, ch, a) = s_header_value_discard_lws(p, ch, a) /\ ch # LF
    BY <1>6, Transitions DEF LineStates
  <2> QED BY <1>6, <2>1, DiscardLwsMove
<1>7. CASE p.state \in {"s_header_almost_done", "s_header_value_discard_ws_almost_done"}
  <2>1. Transition(p, ch, a) = literal(p, ch)
    BY <1>7, Transitions DEF Literals, ReqLiteral
  <2> QED BY <1>7, <2>1, LineEndMove
<1>8. CASE p.state = "s_headers_almost_done"
  <2>1. Transition(p, ch, a) = s_headers_almost_done(p, ch, a) /\ ch # LF
    BY <1>8, Transitions
  <2>2. s_headers_almost_done(p, ch, a) = Fail(p, "STRICT")
    BY <2>1 DEF s_headers_almost_done
  <2>3. "STRICT" \in Errors \ {"OK"}
    BY DEF Errors
  <2> QED BY <2>1, <2>2, <2>3, ReadyTyped, QuietEmpty, FailKeeps DEF HeadMove
<1> QED BY <1>1, <1>2, <1>3, <1>4, <1>5, <1>6, <1>7, <1>8 DEF HeadStates, ValueStates

-----------------------------------------------------------------------------
(* Positions in the head of a request.                                     *)

LEMMA Symbols ==
    /\ LF # CR /\ LF # Blank /\ CR # Blank
    /\ {LF, CR, Blank, ":"} \cap Num = {}
    /\ ~Token(LF) /\ ~Token(CR) /\ ~Token(Blank) /\ ~Token(":")
<1>1. /\ LF # CR /\ LF # Blank /\ CR # Blank
      /\ {LF, CR, Blank, ":"} \cap Num = {}
  BY DEF LF, CR, Blank, Num
<1>2. {LF, CR, Blank, ":"} \cap (Letters \cup Hyphened \cup Num \cup {".", "*", "#"}) = {}
  <2>1. {LF, CR, Blank, ":"} \cap Letters = {}
    BY DEF LF, CR, Blank, Letters
  <2>2. {LF, CR, Blank, ":"} \cap Hyphened = {}
    BY DEF LF, CR, Blank, Hyphened
  <2>3. {LF, CR, Blank, ":"} \cap {".", "*", "#"} = {}
    BY DEF LF, CR, Blank
  <2> QED BY <1>1, <2>1, <2>2, <2>3
<1> QED BY <1>1, <1>2 DEF Token

LEMMA LowerCase ==
    ASSUME NEW ch
    PROVE  /\ Lower(ch) = "c" <=> ch \in {"c", "C"}
           /\ Lower(ch) = "t" <=> ch \in {"t", "T"}
           /\ Lower("hunked") = "hunked"
BY DEF Lower

\* Letters that names begin with, and the rests of names.
LEMMA LetterTokens ==
    /\ \A ch : Lower(ch) \in {"c", "t"} => Token(ch)
    /\ Token("on") /\ Token("tent-length") /\ Token("ransfer-encoding")
    /\ \A ch : Lower(ch) \in {"c", "t"} => ch \notin {Blank, CR, LF} \cup Num
<1>1. {"c", "C", "t", "T", "on"} \subseteq Letters
  BY DEF Letters
<1>2. {"tent-length", "ransfer-encoding"} \subseteq Hyphened
  BY DEF Hyphened
<1>3. {"c", "C", "t", "T"} \cap ({Blank, CR, LF} \cup Num) = {}
  BY DEF Blank, CR, LF, Num
<1> QED BY <1>1, <1>2, <1>3, LowerCase DEF Token

\* The name of the header, from its first symbol on.
LEMMA FirstNames ==
    ASSUME NEW ch
    PROVE  /\ FirstName(ch) \in {"C", "proxy", "te", "up", "general"}
           /\ FirstName(ch) = "C" <=> Lower(ch) = "c"
           /\ FirstName(ch) = "te" <=> Lower(ch) = "t"
<1>1. DOMAIN FirstOfField = {"c", "p", "t", "u"} /\ FirstOfField["c"] = "C"
      /\ FirstOfField["p"] = "proxy" /\ FirstOfField["t"] = "te" /\ FirstOfField["u"] = "up"
  BY DEF FirstOfField
<1> HIDE DEF FirstOfField
<1> QED BY <1>1 DEF FirstName

LEMMA NextNames ==
    ASSUME NEW h, NEW ch
    PROVE  LET n == Name(h, ch)
           IN  /\ n \in {"CON", "connection", "content_length", "transfer_encoding", "upgrade",
                         "general"}
               /\ n = "CON" <=> h = "C" /\ ch = "on"
               /\ n = "content_length" <=> h = "CON" /\ ch = "tent-length"
               /\ n = "transfer_encoding" <=> h = "te" /\ ch = "ransfer-encoding"
BY DEF Name

\* What a symbol of the headers leaves, if it is not the end of an empty line.
LEMMA Emptied ==
    ASSUME NEW p, NEW t, NEW o \in Nat, Lines(p, t, o), t[o + 1] = LF
    PROVE  EmptyLine(t, o + 1) <=> p.state \in LineStates \cup {"s_headers_almost_done"}
BY Symbols DEF EmptyLine, Lines

LEMMA LinesMove ==
    ASSUME NEW p, NEW t, NEW o \in Nat, Lines(p, t, o), ~EmptyLine(t, o + 1),
           NEW q, HeadMove(q, p, t[o + 1]), ~Failed(q)
    PROVE  Lines(q, t, o + 1)
<1> DEFINE ch == t[o + 1]
<1>1. /\ p.state \in LineStates <=> t[o] = LF
      /\ p.state \in HeadStates
      /\ ch = LF => p.state \notin LineStates
  BY Emptied DEF Lines
<1>2. SUFFICES /\ q.state \in HeadStates
               /\ q.state \in LineStates <=> ch = LF
               /\ q.state = "s_headers_almost_done" <=> ch = CR /\ t[o] = LF
  BY DEF Lines
<1> HIDE DEF ch
<1>3. CASE LineBegins(q, p, ch)
  BY <1>1, <1>3, Symbols DEF LineBegins, Begins, HeadStates, LineStates
<1>4. CASE NameGoes(q, p, ch) \/ NameEnds(q, p, ch)
  <2>1. ch # CR /\ ch # LF
    <3>1. ":" # CR /\ ":" # LF
      BY DEF CR, LF
    <3> QED BY <1>4, <3>1, Symbols DEF NameGoes, NameEnds
  <2> QED BY <1>1, <1>4, <2>1 DEF NameGoes, NameEnds, HeadStates, ValueStates, LineStates
<1>5. CASE ValueWaits(q, p, ch) \/ ValueBegins(q, p, ch) \/ ValueGoes(q, p, ch)
  <2>1. ch # CR /\ ch # LF
    BY <1>5, Symbols DEF ValueWaits, ValueBegins, ValueGoes
  <2>2. q.state \in {"s_header_value", "s_header_value_discard_ws"}
    BY <1>5 DEF ValueWaits, ValueBegins, ValueGoes
  <2> QED BY <2>1, <2>2 DEF HeadStates, ValueStates, LineStates
<1>6. CASE ValueEnds(q, p, ch)
  <2>1. p.state \notin LineStates /\ ch \in {CR, LF} /\ CR # LF
    BY <1>6, Symbols DEF ValueEnds, LineEnd, LineStates
  <2>2. /\ ch = LF => q.state \in {"s_header_value_lws", "s_header_value_discard_lws"}
        /\ ch = CR => q.state \in {"s_header_almost_done", "s_header_value_discard_ws_almost_done"}
    BY <1>6, <2>1 DEF ValueEnds, LineEnd
  <2> QED BY <1>1, <2>1, <2>2 DEF HeadStates, ValueStates, LineStates
<1> QED BY <1>3, <1>4, <1>5, <1>6 DEF HeadMove, ch

\* There is no line before the end of the url.
LEMMA FirstLine ==
    ASSUME NEW g, Parsed(g)
    PROVE  /\ g.u \in Nat /\ g.h \in Nat /\ g.u >= 4 /\ g.u + 1 < g.h /\ g.h <= Len(g.text)
           /\ Len(g.text) \in Nat
           /\ \A k \in 1..g.u : g.text[k] # LF
           /\ EmptyLine(g.text, g.h)
           /\ \A k \in (g.u + 1)..(g.h - 1) : ~EmptyLine(g.text, k)
<1> DEFINE t == g.text
<1>1. /\ Len(t) \in Nat /\ g.u \in 4..(Len(t) - 1) /\ FirstEmpty(t, g.u, g.h)
      /\ \A k \in 4..g.u : t[k] \notin {Blank, CR, LF}
  BY DEF Parsed, Parts
<1>2. t[1] # LF /\ t[2] # LF /\ t[3] # LF
  <2>1. \A m \in DOMAIN Spelling : Spelling[m][1] # LF /\ Spelling[m][2] # LF
    BY DEF Spelling, LF
  <2>2. \E m \in DOMAIN Spelling : t[1] = Spelling[m][1] /\ t[2] = Spelling[m][2]
    <3>1. g.method \in DOMAIN Spelling /\ Spelling[g.method] = <<t[1], t[2]>>
      BY DEF Parsed
    <3> QED BY <3>1
  <2>3. t[3] = Blank
    BY DEF Parsed
  <2> QED BY <2>1, <2>2, <2>3, Symbols
<1> HIDE DEF t
<1>3. \A k \in 1..g.u : t[k] # LF
  <2> TAKE k \in 1..g.u
  <2>1. CASE k \in 4..g.u
    BY <1>1, <2>1
  <2>2. CASE k \notin 4..g.u
    <3>1. k \in {1, 2, 3}
      BY <1>1, <2>2
    <3> QED BY <1>2, <3>1
  <2> QED BY <2>1, <2>2
<1>4. /\ g.h \in (g.u + 1)..Len(t) /\ EmptyLine(t, g.h)
      /\ \A k \in (g.u + 1)..(g.h - 1) : ~EmptyLine(t, k)
  BY <1>1 DEF FirstEmpty
<1>5. g.h # g.u + 1
  <2>1. ~EmptyLine(t, g.u + 1)
    <3>1. g.u \in 1..g.u /\ g.u - 1 \in 1..g.u /\ g.u + 1 - 1 = g.u /\ g.u + 1 - 2 = g.u - 1
      BY <1>1
    <3> QED BY <1>3, <3>1 DEF EmptyLine
  <2> QED BY <1>4, <2>1
<1> QED BY <1>1, <1>3, <1>4, <1>5 DEF t

\* A name begins a line of the head.
LEMMA NameInHead ==
    ASSUME NEW g, Parsed(g), NEW k \in Nat, 2 <= k, k < g.h, g.text[k - 1] = LF
    PROVE  k \in InHead(g)
<1>1. k - 1 \notin 1..g.u
  BY FirstLine
<1> QED BY <1>1, FirstLine DEF InHead

LEMMA NamesMove ==
    ASSUME NEW p, NEW t, NEW o \in Nat, Lines(p, t, o), Names(p, t, o), ~EmptyLine(t, o + 1),
           NEW q, HeadMove(q, p, t[o + 1]), ~Failed(q)
    PROVE  Names(q, t, o + 1)
<1> DEFINE ch == t[o + 1]
<1>1. /\ p.state \in LineStates <=> t[o] = LF
      /\ o + 1 - 1 = o /\ o + 1 - 2 = o - 1 /\ o + 1 - 3 = o - 2
  BY DEF Lines
<1>2. SUFFICES
        /\ InName(q, "C") <=> p.state \in LineStates /\ Lower(ch) = "c"
        /\ InName(q, "CON") <=> InName(p, "C") /\ ch = "on"
        /\ InName(q, "content_length") <=> InName(p, "CON") /\ ch = "tent-length"
        /\ InName(q, "te") <=> p.state \in LineStates /\ Lower(ch) = "t"
        /\ InName(q, "transfer_encoding") <=> InName(p, "te") /\ ch = "ransfer-encoding"
  BY <1>1 DEF Names
<1> HIDE DEF ch
<1>3. CASE LineBegins(q, p, ch)
  <2>1. p.state \in LineStates /\ p.state # "s_header_field" /\ Begins(q, ch)
    BY <1>3 DEF LineBegins, LineStates
  <2>2. CASE q.state = "s_header_field"
    <3>1. q.header = FirstName(ch)
      BY <2>1, <2>2 DEF Begins
    <3> QED BY <2>1, <2>2, <3>1, FirstNames DEF InName
  <2>3. CASE q.state # "s_header_field"
    BY <2>1, <2>3, LetterTokens DEF Begins, InName
  <2> QED BY <2>2, <2>3
<1>4. CASE NameGoes(q, p, ch)
  <2>1. p.state \notin LineStates /\ InName(q, Name(p.header, ch)) /\ p.state = "s_header_field"
    BY <1>4 DEF NameGoes, LineStates, InName
  <2>2. q.header = Name(p.header, ch)
    BY <1>4 DEF NameGoes
  <2> QED BY <2>1, <2>2, NextNames DEF InName
<1>5. CASE NameEnds(q, p, ch)
  <2>1. p.state \notin LineStates /\ q.state # "s_header_field" /\ ch = ":"
    BY <1>5 DEF NameEnds, LineStates
  <2> QED BY <2>1 DEF InName
<1>6. CASE ValueWaits(q, p, ch) \/ ValueBegins(q, p, ch)
  <2>1. q.state # "s_header_field" /\ p.state # "s_header_field"
    BY <1>6 DEF ValueWaits, ValueBegins
  <2>2. p.state \in LineStates => ch = Blank
    BY <1>6 DEF ValueWaits, ValueBegins, LineStates
  <2> QED BY <2>1, <2>2, LetterTokens DEF InName
<1>7. CASE ValueGoes(q, p, ch) \/ ValueEnds(q, p, ch)
  <2>1. q.state # "s_header_field" /\ p.state # "s_header_field" /\ p.state \notin LineStates
    BY <1>7 DEF ValueGoes, ValueEnds, LineEnd, LineStates
  <2> QED BY <2>1 DEF InName
<1> QED BY <1>3, <1>4, <1>5, <1>6, <1>7 DEF HeadMove, ch

-----------------------------------------------------------------------------
(* A Transfer-Encoding.                                                    *)

LEMMA TransferMove ==
    ASSUME NEW g, Parsed(g), NEW p, NEW o \in Nat, g.u < o, o + 1 < g.h,
           Lines(p, g.text, o), Names(p, g.text, o), TransferRead(p, g, o),
           NEW q, HeadMove(q, p, g.text[o + 1]), ~Failed(q)
    PROVE  TransferRead(q, g, o + 1)
<1> DEFINE t == g.text
           ch == t[o + 1]
<1>1. /\ g.u \in Nat /\ g.h \in Nat /\ g.u >= 4 /\ InHead(g) \subseteq Nat
      /\ \A k \in InHead(g) : k \in Int /\ k >= g.u + 2 /\ k <= g.h - 1
  BY FirstLine DEF InHead
<1>2. q.state = "s_header_field" => q.header \notin TransferValues \ {"transfer_encoding"}
  <2>1. CASE LineBegins(q, p, ch)
    BY <2>1, FirstNames DEF LineBegins, Begins, TransferValues
  <2>2. CASE NameGoes(q, p, ch)
    <3>1. q.header = Name(p.header, ch)
      BY <2>2 DEF NameGoes
    <3> QED BY <3>1, NextNames DEF TransferValues
  <2>3. CASE ~LineBegins(q, p, ch) /\ ~NameGoes(q, p, ch)
    BY <2>3 DEF HeadMove, NameEnds, ValueWaits, ValueBegins, ValueGoes, ValueEnds, LineEnd
  <2> QED BY <2>1, <2>2, <2>3
<1>3. q.state \in ValueStates /\ q.header \in TransferValues => HasTransfer(g)
  <2> SUFFICES ASSUME q.state \in ValueStates, q.header \in TransferValues
               PROVE  HasTransfer(g)
    OBVIOUS
  <2>1. CASE NameEnds(q, p, ch)
    <3>1. p.state = "s_header_field" /\ p.header \in TransferValues /\ ch = ":"
      BY <2>1 DEF NameEnds
    <3>2. InName(p, "transfer_encoding")
      BY <3>1 DEF TransferRead, InName
    <3>3. t[o - 2] = LF /\ Lower(t[o - 1]) = "t" /\ t[o] = "ransfer-encoding"
      BY <3>2 DEF Names
    <3>4. o - 1 \in InHead(g)
      <4>1. o - 1 \in Nat /\ 2 <= o - 1 /\ o - 1 < g.h /\ o - 1 - 1 = o - 2
        BY <1>1
      <4> QED BY <3>3, <4>1, NameInHead
    <3>5. o - 1 - 1 = o - 2 /\ o - 1 + 1 = o /\ o - 1 + 2 = o + 1
      OBVIOUS
    <3> QED BY <3>1, <3>3, <3>4, <3>5 DEF HasTransfer, IsTransfer
  <2>2. CASE ~NameEnds(q, p, ch)
    <3>1. p.state \in ValueStates /\ p.header \in TransferValues
      <4>1. CASE LineBegins(q, p, ch) \/ NameGoes(q, p, ch)
        BY <4>1 DEF LineBegins, Begins, NameGoes, ValueStates
      <4>2. CASE ValueWaits(q, p, ch)
        BY <4>2 DEF ValueWaits, ValueStates
      <4>3. CASE ValueBegins(q, p, ch)
        <5>1. p.state \in ValueStates
          BY <4>3 DEF ValueBegins, ValueStates
        <5>2. ~NumberBegins(q, p, ch)
          BY DEF NumberBegins, TransferValues
        <5>3. p.header \in TransferValues
          BY <4>3, <5>2 DEF ValueBegins, OtherBegins
        <5> QED BY <5>1, <5>3
      <4>4. CASE ValueGoes(q, p, ch)
        <5>1. p.state \in ValueStates
          BY <4>4 DEF ValueGoes, ValueStates
        <5>2. q.header \notin {"content_length_num", "content_length_ws"}
          BY DEF TransferValues
        <5>3. p.header \in TransferValues
          BY <4>4, <5>2 DEF ValueGoes
        <5> QED BY <5>1, <5>3
      <4>5. CASE ValueEnds(q, p, ch)
        BY <4>5 DEF ValueEnds, LineEnd, ValueStates
      <4> QED BY <2>2, <4>1, <4>2, <4>3, <4>4, <4>5 DEF HeadMove
    <3> QED BY <3>1 DEF TransferRead
  <2> QED BY <2>1, <2>2
<1>4. "CHUNKED" \in q.flags => HasTransfer(g)
  <2>1. CASE LineBegins(q, p, ch) /\ p.state # "s_header_field_start" /\ p.header = "chunked"
    <3>1. p.state \in ValueStates /\ p.header \in TransferValues
      BY <2>1 DEF LineBegins, LineStates, ValueStates, TransferValues
    <3> QED BY <3>1 DEF TransferRead
  <2>2. CASE ~(LineBegins(q, p, ch) /\ p.state # "s_header_field_start" /\ p.header = "chunked")
    <3>1. "CHUNKED" \in q.flags <=> "CHUNKED" \in p.flags
      BY <2>2 DEF HeadMove, LineBegins, NameGoes, NameEnds, ValueWaits, ValueBegins, ValueGoes,
                  ValueEnds, SameChunked
    <3> QED BY <3>1 DEF TransferRead
  <2> QED BY <2>1, <2>2
<1>5. ASSUME NEW k \in InHead(g), NEW a \in InHead(g), NEW l \in InHead(g),
             SaysChunked(t, k, a, l)
      PROVE  /\ o + 1 \in (k + 2)..(a - 1) =>
                  q.state = "s_header_value_discard_ws" /\ q.header = "transfer_encoding"
             /\ o + 1 = a => q.state = "s_header_value" /\ q.header = "te_chunked"
             /\ o + 1 = a + 1 => q.state = "s_header_value" /\ q.header = "chunked"
             /\ o + 1 \in (a + 2)..(l - 1) => q.state = "s_header_almost_done" /\ q.header = "chunked"
             /\ o + 1 = l => q.state = "s_header_value_lws" /\ q.header = "chunked"
             /\ o + 1 > l => "CHUNKED" \in q.flags
  <2>1. /\ t[k - 1] = LF /\ Lower(t[k]) = "t" /\ t[k + 1] = "ransfer-encoding" /\ t[k + 2] = ":"
        /\ k + 3 <= a /\ a + 2 <= l /\ \A m \in (k + 3)..(a - 1) : t[m] = Blank
        /\ Lower(t[a]) = "c" /\ t[a + 1] = "hunked"
        /\ l = a + 2 \/ (l = a + 3 /\ t[a + 2] = CR)
        /\ t[l] = LF /\ t[l + 1] # Blank
    BY <1>5 DEF SaysChunked, IsTransfer, Blanks
  <2>2. /\ k \in Int /\ a \in Int /\ l \in Int /\ k >= g.u + 2
    BY <1>1
  <2>3. /\ o \in (k + 2)..(a - 1) =>
              p.state = "s_header_value_discard_ws" /\ p.header = "transfer_encoding"
        /\ o = a => p.state = "s_header_value" /\ p.header = "te_chunked"
        /\ o = a + 1 => p.state = "s_header_value" /\ p.header = "chunked"
        /\ o \in (a + 2)..(l - 1) => p.state = "s_header_almost_done" /\ p.header = "chunked"
        /\ o = l => p.state = "s_header_value_lws" /\ p.header = "chunked"
        /\ o > l => "CHUNKED" \in p.flags
    BY <1>5 DEF TransferRead
  <2> HIDE DEF t
  <2>4. CASE o + 1 = k + 2
    <3>1. o = k + 1 /\ o - 1 = k /\ o - 2 = k - 1
      BY <2>2, <2>4
    <3>2. InName(p, "transfer_encoding") /\ ch = ":"
      BY <2>1, <2>4, <3>1 DEF Names, t
    <3>3. NameEnds(q, p, ch)
      BY <3>2, Symbols DEF HeadMove, LineBegins, LineStates, NameGoes, ValueWaits, ValueBegins,
            ValueGoes, ValueEnds, LineEnd, InName, t
    <3>4. q.state = "s_header_value_discard_ws" /\ q.header = "transfer_encoding"
      BY <3>2, <3>3 DEF NameEnds, InName
    <3> QED BY <2>1, <2>2, <3>1, <3>4
  <2>5. CASE o + 1 \in (k + 3)..(a - 1)
    <3>1. p.state = "s_header_value_discard_ws" /\ p.header = "transfer_encoding" /\ ch = Blank
      BY <2>1, <2>2, <2>3, <2>5
    <3>2. ValueWaits(q, p, ch)
      BY <3>1, Symbols DEF HeadMove, LineBegins, LineStates, NameGoes, NameEnds, ValueBegins,
            ValueGoes, ValueEnds, LineEnd, t
    <3> QED BY <2>1, <2>2, <2>5, <3>1, <3>2 DEF ValueWaits
  <2>6. CASE o + 1 = a
    <3>1. p.state = "s_header_value_discard_ws" /\ p.header = "transfer_encoding"
      <4>1. o \in (k + 2)..(a - 1)
        BY <2>1, <2>2, <2>6
      <4> QED BY <2>3, <4>1
    <3>2. Lower(ch) = "c" /\ ch \notin {Blank, CR, LF}
      BY <2>1, <2>6, LetterTokens
    <3>3. ValueBegins(q, p, ch)
      BY <3>1, <3>2 DEF HeadMove, LineBegins, LineStates, NameGoes, NameEnds, ValueWaits,
            ValueGoes, ValueEnds, LineEnd, t
    <3>4. q.state = "s_header_value" /\ q.header = "te_chunked"
      BY <3>1, <3>2, <3>3 DEF ValueBegins, NumberBegins, OtherBegins
    <3> QED BY <2>1, <2>2, <2>6, <3>4
  <2>7. CASE o + 1 = a + 1
    <3>1. p.state = "s_header_value" /\ p.header = "te_chunked"
      BY <2>2, <2>3, <2>7
    <3>2. ch = "hunked" /\ Lower(ch) = "hunked" /\ ch \notin {CR, LF}
      BY <2>1, <2>7, LowerCase DEF CR, LF
    <3>3. ValueGoes(q, p, ch)
      BY <3>1, <3>2 DEF HeadMove, LineBegins, LineStates, NameGoes, NameEnds, ValueWaits,
            ValueBegins, ValueEnds, LineEnd, t
    <3>4. q.state = "s_header_value" /\ q.header = "chunked"
      BY <3>1, <3>2, <3>3 DEF ValueGoes
    <3> QED BY <2>1, <2>2, <2>7, <3>4
  <2>8. CASE o + 1 \in (a + 2)..(l - 1)
    <3>1. o = a + 1 /\ ch = CR
      BY <2>1, <2>2, <2>8
    <3>2. p.state = "s_header_value" /\ p.header = "chunked"
      BY <2>3, <3>1
    <3>3. ValueEnds(q, p, ch)
      BY <3>1, <3>2 DEF HeadMove, LineBegins, LineStates, NameGoes, NameEnds, ValueWaits,
            ValueBegins, ValueGoes, t
    <3>4. q.state = "s_header_almost_done" /\ q.header = "chunked"
      BY <3>1, <3>2, <3>3, Symbols DEF ValueEnds, LineEnd
    <3> QED BY <2>1, <2>2, <2>8, <3>4
  <2>9. CASE o + 1 = l
    <3>1. ch = LF /\ p.header = "chunked" /\ p.state \in {"s_header_value", "s_header_almost_done"}
      BY <2>1, <2>2, <2>3, <2>9
    <3>2. ValueEnds(q, p, ch)
      BY <3>1, Symbols DEF HeadMove, LineBegins, LineStates, NameGoes, NameEnds, ValueWaits,
            ValueBegins, ValueGoes, t
    <3>3. q.state = "s_header_value_lws" /\ q.header = "chunked"
      BY <3>1, <3>2, Symbols DEF ValueEnds, LineEnd
    <3> QED BY <2>1, <2>2, <2>9, <3>3
  <2>10. CASE o = l
    <3>1. ch # Blank /\ p.state = "s_header_value_lws" /\ p.header = "chunked"
      BY <2>1, <2>3, <2>10
    <3>2. LineBegins(q, p, ch)
      BY <3>1 DEF HeadMove, LineStates, NameGoes, NameEnds, ValueWaits, ValueBegins,
            ValueGoes, ValueEnds, LineEnd, t
    <3> QED BY <2>1, <2>2, <2>10, <3>1, <3>2 DEF LineBegins
  <2>11. CASE o > l
    <3>1. "CHUNKED" \in q.flags
      BY <2>3, <2>11 DEF HeadMove, Same
    <3> QED BY <2>1, <2>2, <2>11, <3>1
  <2>12. CASE o + 1 < k + 2
    BY <2>1, <2>2, <2>12
  <2> QED BY <2>2, <2>4, <2>5, <2>6, <2>7, <2>8, <2>9, <2>10, <2>11, <2>12
<1> QED BY <1>2, <1>3, <1>4, <1>5 DEF TransferRead, t

-----------------------------------------------------------------------------
(* Numbers.                                                                *)

\* The values of the numerals that begin at a.
IsNumbers(f, n, t, a, value, base) ==
    /\ f \in [0..n -> Nat] /\ f[0] = 0
    /\ \A k \in 1..n : f[k] = f[k - 1] * base + value[t[a + k - 1]]

Bases == {10, 16}

Valued(t, a, z, value) == \A i \in a..z : value[t[i]] \in Nat

IsNumber(v, n, t, a, value, base) == \E f : IsNumbers(f, n, t, a, value, base) /\ v = f[n]

LEMMA NumberIs ==
    ASSUME NEW t \in Seq(STRING), NEW a \in 1..Len(t), NEW z \in a..Len(t), NEW value,
           NEW base \in Bases, Valued(t, a, z, value), NEW n, n = z - a + 1
    PROVE  IsNumber(Number(t, a, z, value, base), n, t, a, value, base)
<1> DEFINE s == SubSeq(t, a, z)
           D == SUBSET (1..n)
           F == [p \in (1..n) \X Nat |-> p[2] * base + value[s[p[1]]]]
           Is(g) == g = [S \in D |-> IF S = {} THEN 0
                            ELSE g[S \ {Max(S)}] * base + value[s[Max(S)]]]
           h == CHOOSE g : Is(g)
<1>1. n \in Nat /\ DOMAIN s = 1..n /\ \A k \in 1..n : s[k] = t[a + k - 1] /\ value[s[k]] \in Nat
  <2>1. n \in Nat /\ Len(s) = n /\ DOMAIN s = 1..n /\ \A k \in 1..n : s[k] = t[a + k - 1]
    OBVIOUS
  <2>2. \A k \in 1..n : a + k - 1 \in a..z
    OBVIOUS
  <2> HIDE DEF s
  <2> QED BY <2>1, <2>2 DEF Valued
<1> HIDE DEF s
<1>2. F \in [(1..n) \X Nat -> Nat]
  <2>1. \A p \in (1..n) \X Nat : p[2] * base + value[s[p[1]]] \in Nat
    BY <1>1 DEF Bases
  <2> QED BY <2>1
<1>3. \E g \in [D -> Nat] : IsFold(g, n, 0, F)
  <2> HIDE DEF F
  <2> QED BY <1>1, <1>2, FoldExists
<1>4. \E g : Is(g)
  <2>1. PICK g \in [D -> Nat] : \A S \in D :
           g[S] = IF S = {} THEN 0 ELSE F[<<Max(S), g[S \ {Max(S)}]>>]
    BY <1>3 DEF IsFold
  <2>2. ASSUME NEW S \in D, S # {}
        PROVE  g[S] = g[S \ {Max(S)}] * base + value[s[Max(S)]]
    <3>1. Max(S) \in S
      BY <1>1, <2>2, MaxOf
    <3>2. Max(S) \in 1..n /\ S \ {Max(S)} \in D
      BY <3>1
    <3>3. g[S \ {Max(S)}] \in Nat
      BY <3>2
    <3> QED BY <2>1, <2>2, <3>2, <3>3
  <2> QED BY <2>1, <2>2
<1>5. Is(h)
  BY <1>4
<1>6. Number(t, a, z, value, base) = h[1..n]
  <2>1. SubSeq(t, a, z) = s
    BY DEF s
  <2> QED BY <1>1, <2>1 DEF Number, FoldLeft, MapThenFoldSet
<1> HIDE DEF h
<1>7. h[{}] = 0
  BY <1>5
<1>8. \A S \in D : S # {} /\ h[S \ {Max(S)}] \in Nat
         => h[S] = F[<<Max(S), h[S \ {Max(S)}]>>]
  <2> TAKE S \in D
  <2> HAVE S # {} /\ h[S \ {Max(S)}] \in Nat
  <2>1. Max(S) \in S
    BY <1>1, MaxOf
  <2>2. Max(S) \in 1..n
    BY <2>1
  <2> QED BY <1>5, <2>2
<1>9. IsLast(h[1..n], n, Nat, 0, F)
  <2> HIDE DEF F
  <2>1. Unfolds(h, n, Nat, 0, F)
    BY <1>7, <1>8 DEF Unfolds
  <2> QED BY <1>1, <1>2, <2>1, FoldValue
<1>10. PICK f \in [0..n -> Nat] : IsSeries(f, n, 0, F) /\ h[1..n] = f[n]
  BY <1>9 DEF IsLast
<1>11. ASSUME NEW k \in 1..n PROVE f[k] = f[k - 1] * base + value[t[a + k - 1]]
  <2>1. k - 1 \in 0..n
    BY <1>1
  <2>2. f[k - 1] \in Nat /\ f[k] = F[<<k, f[k - 1]>>]
    BY <1>10, <2>1 DEF IsSeries
  <2>3. F[<<k, f[k - 1]>>] = f[k - 1] * base + value[s[k]]
    BY <2>2
  <2> QED BY <1>1, <2>2, <2>3
<1>12. f[0] = 0
  BY <1>10 DEF IsSeries
<1>13. IsNumbers(f, n, t, a, value, base) /\ Number(t, a, z, value, base) = f[n]
  BY <1>6, <1>10, <1>11, <1>12 DEF IsNumbers
<1> QED BY <1>13 DEF IsNumber

\* A numeral has one value.
LEMMA NumbersAgree ==
    ASSUME NEW m \in Nat, NEW n \in Nat, m <= n, NEW t, NEW a \in Nat, NEW value,
           NEW base \in Bases,
           NEW f, IsNumbers(f, m, t, a, value, base), NEW g, IsNumbers(g, n, t, a, value, base)
    PROVE  f[m] = g[m]
<1> DEFINE T == {k \in Nat : k <= m => f[k] = g[k]}
<1>1. 0 \in T
  BY DEF IsNumbers
<1>2. ASSUME NEW k \in Nat, k \in T PROVE k + 1 \in T
  <2> SUFFICES ASSUME k + 1 <= m PROVE f[k + 1] = g[k + 1]
    OBVIOUS
  <2>1. k + 1 \in 1..m /\ k + 1 \in 1..n /\ (k + 1) - 1 = k /\ f[k] = g[k]
    BY <1>2
  <2> DEFINE v == value[t[a + (k + 1) - 1]]
  <2>2. f[k + 1] = f[k] * base + v /\ g[k + 1] = g[k] * base + v
    BY <2>1 DEF IsNumbers
  <2> QED BY <2>1, <2>2
<1>3. Nat \subseteq T
  <2> HIDE DEF T
  <2> QED BY <1>1, <1>2, Induction
<1> QED BY <1>3

LEMMA NumberGrows ==
    ASSUME NEW t \in Seq(STRING), NEW a \in 1..Len(t), NEW z \in a..Len(t), NEW value,
           NEW base \in Bases, Valued(t, a, z, value)
    PROVE  /\ Number(t, a, z, value, base) \in Nat
           /\ Number(t, a, a, value, base) = value[t[a]]
           /\ a < z => Number(t, a, z, value, base)
                       = Number(t, a, z - 1, value, base) * base + value[t[z]]
<1> PICK n \in Nat : n = z - a + 1
  OBVIOUS
<1>1. n \in 1..n /\ a + n - 1 = z /\ n - 1 = z - a /\ a \in Nat
  OBVIOUS
<1>2. PICK f : IsNumbers(f, n, t, a, value, base) /\ Number(t, a, z, value, base) = f[n]
  BY NumberIs DEF IsNumber
<1>3. Number(t, a, z, value, base) \in Nat
  BY <1>1, <1>2 DEF IsNumbers
<1>4. Number(t, a, a, value, base) = value[t[a]]
  <2>1. a \in a..Len(t) /\ Valued(t, a, a, value) /\ value[t[a]] \in Nat
    BY DEF Valued
  <2>2. 1 = a - a + 1 /\ 1 \in 1..1 /\ 1 - 1 = 0 /\ a + 1 - 1 = a
    OBVIOUS
  <2>3. PICK g : IsNumbers(g, 1, t, a, value, base) /\ Number(t, a, a, value, base) = g[1]
    BY <2>1, <2>2, NumberIs DEF IsNumber
  <2>4. g[1] = g[0] * base + value[t[a]] /\ g[0] = 0 /\ value[t[a]] \in Nat
    BY <2>1, <2>2, <2>3 DEF IsNumbers
  <2> QED BY <2>3, <2>4 DEF Bases
<1>5. ASSUME a < z
      PROVE  Number(t, a, z, value, base) = Number(t, a, z - 1, value, base) * base + value[t[z]]
  <2> PICK y \in Nat : y = z - 1
    BY <1>5
  <2> PICK m \in Nat : m = n - 1
    BY <1>1
  <2>1. y \in a..Len(t) /\ Valued(t, a, y, value)
    BY <1>5 DEF Valued
  <2>2. m = y - a + 1 /\ m <= n
    BY <1>1
  <2>3. PICK g : IsNumbers(g, m, t, a, value, base) /\ Number(t, a, y, value, base) = g[m]
    BY <2>1, <2>2, NumberIs DEF IsNumber
  <2>4. g[m] = f[m]
    <3>1. m <= n /\ a \in Nat
      BY <1>1, <2>2
    <3>2. IsNumbers(g, m, t, a, value, base) /\ IsNumbers(f, n, t, a, value, base)
      BY <1>2, <2>3
    <3> QED BY <3>1, <3>2, NumbersAgree
  <2>5. f[n] = f[m] * base + value[t[z]]
    BY <1>1, <1>2 DEF IsNumbers
  <2> QED BY <1>2, <2>3, <2>4, <2>5
<1> QED BY <1>3, <1>4, <1>5

-----------------------------------------------------------------------------
(* A Content-Length.                                                       *)

\* All of them say the length of the body, which is not in chunks.
LEMMA LengthSays ==
    ASSUME NEW g, Parsed(g), NEW k \in InHead(g), IsLength(g.text, k)
    PROVE  /\ g.C = {}
           /\ \E a \in k..(g.h - 1), z \in k..(g.h - 1) :
                Declares(g.text, k, a, z, Len(g.text) - g.h)
BY DEF Parsed, InHead, LengthGiven

LEMMA Digits10 ==
    /\ DOMAIN Digit = Num /\ \A d \in Num : Digit[d] \in Nat /\ Digit[d] <= 2
BY DEF Digit, Num

\* Where its number is, as long as only blanks are read after its name.
LEMMA AwaitedNext ==
    ASSUME NEW g, Parsed(g), NEW o \in Nat, o + 1 < g.h,
           NEW k \in InHead(g), IsLength(g.text, k), k + 3 <= o, Blanks(g.text, k + 4, o)
    PROVE  \/ g.text[o + 1] = Blank
           \/ /\ g.text[o + 1] \in Num
              /\ \E z \in InHead(g) : z >= o + 1
                    /\ Declares(g.text, k, o + 1, z, Len(g.text) - g.h)
<1> DEFINE t == g.text
           v == Len(t) - g.h
<1>1. /\ g.u \in Nat /\ g.h \in Nat /\ k \in Int /\ k >= g.u + 2
  BY FirstLine DEF InHead
<1>2. PICK a \in k..(g.h - 1), z \in k..(g.h - 1) : Declares(t, k, a, z, v)
  BY LengthSays
<1>3. /\ k + 4 <= a /\ a <= z /\ t[a] \in Num
      /\ \A m \in (k + 4)..(a - 1) : t[m] = Blank
  BY <1>1, <1>2, Digits10 DEF Declares, Blanks, Numeral
<1>4. \A m \in (k + 4)..o : t[m] = Blank
  BY DEF Blanks
<1>5. o < a
  <2>1. a \notin (k + 4)..o
    BY <1>3, <1>4, Symbols
  <2> QED BY <1>1, <1>3, <2>1
<1>6. CASE o + 1 = a
  <2>1. z \in InHead(g) /\ z >= o + 1
    BY <1>1, <1>3, <1>6 DEF InHead
  <2> QED BY <1>2, <1>3, <1>6, <2>1
<1>7. CASE o + 1 # a
  <2>1. o + 1 \in (k + 4)..(a - 1)
    BY <1>1, <1>5, <1>7
  <2> QED BY <1>3, <2>1
<1> QED BY <1>6, <1>7

\* The name and the colon, or one blank more.
LEMMA AwaitedMove ==
    ASSUME NEW g, Parsed(g), NEW o \in Nat, g.u < o, o + 1 < g.h, NEW p, Names(p, g.text, o)
    PROVE  Awaited(g, o + 1) <=> \/ InName(p, "content_length") /\ g.text[o + 1] = ":"
                                 \/ Awaited(g, o) /\ g.text[o + 1] = Blank
<1> DEFINE t == g.text
           ch == t[o + 1]
<1>1. /\ g.u \in Nat /\ g.h \in Nat /\ g.u >= 4
      /\ \A k \in InHead(g) : k \in Int /\ k >= g.u + 2
  BY FirstLine DEF InHead
<1>2. ASSUME InName(p, "content_length"), ch = ":" PROVE Awaited(g, o + 1)
  <2> PICK k \in Nat : k = o - 2
    BY <1>1
  <2>1. k - 1 = o - 3 /\ k + 1 = o - 1 /\ k + 2 = o /\ k + 3 = o + 1 /\ 2 <= k /\ k < g.h
    BY <1>1
  <2>2. t[k - 1] = LF /\ Lower(t[k]) = "c" /\ t[k + 1] = "on" /\ t[k + 2] = "tent-length"
    BY <1>2, <2>1 DEF Names
  <2>3. k \in InHead(g)
    BY <2>1, <2>2, NameInHead
  <2>4. IsLength(t, k)
    BY <1>2, <2>1, <2>2 DEF IsLength
  <2>5. k + 3 <= o + 1 /\ Blanks(t, k + 4, o + 1)
    BY <2>1 DEF Blanks
  <2> QED BY <2>3, <2>4, <2>5 DEF Awaited
<1>3. ASSUME Awaited(g, o), ch = Blank PROVE Awaited(g, o + 1)
  <2>1. PICK k \in InHead(g) : IsLength(t, k) /\ k + 3 <= o /\ Blanks(t, k + 4, o)
    BY <1>3 DEF Awaited
  <2>2. k + 3 <= o + 1 /\ Blanks(t, k + 4, o + 1)
    <3>1. \A m \in (k + 4)..(o + 1) : m \in (k + 4)..o \/ m = o + 1
      BY <1>1
    <3> QED BY <1>1, <1>3, <2>1, <3>1 DEF Blanks
  <2> QED BY <2>1, <2>2 DEF Awaited
<1>4. ASSUME Awaited(g, o + 1)
      PROVE  \/ InName(p, "content_length") /\ ch = ":"
             \/ Awaited(g, o) /\ ch = Blank
  <2>1. PICK k \in InHead(g) : IsLength(t, k) /\ k + 3 <= o + 1 /\ Blanks(t, k + 4, o + 1)
    BY <1>4 DEF Awaited
  <2>2. CASE k + 3 = o + 1
    <3>1. k - 1 = o - 3 /\ k = o - 2 /\ k + 1 = o - 1 /\ k + 2 = o
      BY <1>1, <2>2
    <3>2. t[o - 3] = LF /\ Lower(t[o - 2]) = "c" /\ t[o - 1] = "on" /\ t[o] = "tent-length" /\ ch = ":"
      BY <2>1, <2>2, <3>1 DEF IsLength
    <3> QED BY <3>2 DEF Names
  <2>3. CASE k + 3 # o + 1
    <3>1. k + 3 <= o /\ o + 1 \in (k + 4)..(o + 1) /\ \A m \in (k + 4)..o : m \in (k + 4)..(o + 1)
      BY <1>1, <2>1, <2>3
    <3> QED BY <2>1, <3>1 DEF Awaited, Blanks
  <2> QED BY <2>2, <2>3
<1> QED BY <1>2, <1>3, <1>4

LEMMA BegunMove ==
    ASSUME NEW g, Parsed(g), NEW o \in Nat, g.u < o, o + 1 < g.h
    PROVE  Begun(g, o + 1) <=> Begun(g, o) \/ (Awaited(g, o) /\ g.text[o + 1] \in Num)
<1> DEFINE t == g.text
           Begins_(k, a, b) == IsLength(t, k) /\ k + 4 <= a /\ a <= b /\ Blanks(t, k + 4, a - 1)
                               /\ t[a] \in Num
<1>1. /\ g.u \in Nat /\ g.h \in Nat /\ g.u >= 4
      /\ \A k \in InHead(g) : k \in Int /\ k >= g.u + 2
  BY FirstLine DEF InHead
<1>2. ASSUME Begun(g, o) PROVE Begun(g, o + 1)
  <2>1. PICK k \in InHead(g), a \in InHead(g) : Begins_(k, a, o)
    BY <1>2 DEF Begun
  <2>2. a <= o + 1
    BY <1>1, <2>1
  <2> QED BY <2>1, <2>2 DEF Begun
<1>3. ASSUME Awaited(g, o), t[o + 1] \in Num PROVE Begun(g, o + 1)
  <2>1. PICK k \in InHead(g) : IsLength(t, k) /\ k + 3 <= o /\ Blanks(t, k + 4, o)
    BY <1>3 DEF Awaited
  <2>2. o + 1 \in InHead(g) /\ k + 4 <= o + 1 /\ o + 1 <= o + 1 /\ (o + 1) - 1 = o
    BY <1>1, <2>1 DEF InHead
  <2> QED BY <1>3, <2>1, <2>2 DEF Begun
<1>4. ASSUME Begun(g, o + 1) PROVE Begun(g, o) \/ (Awaited(g, o) /\ t[o + 1] \in Num)
  <2>1. PICK k \in InHead(g), a \in InHead(g) : Begins_(k, a, o + 1)
    BY <1>4 DEF Begun
  <2>2. CASE a <= o
    BY <2>1, <2>2 DEF Begun
  <2>3. CASE ~(a <= o)
    <3>1. a = o + 1 /\ a - 1 = o /\ k + 3 <= o
      BY <1>1, <2>1, <2>3
    <3> QED BY <2>1, <3>1 DEF Awaited
  <2> QED BY <2>2, <2>3
<1> QED BY <1>2, <1>3, <1>4

\* A number that is read.
LEMMA NumberMove ==
    ASSUME NEW g, Parsed(g), NEW o \in Nat, g.u < o, o + 1 < g.h,
           NEW p, NumberRead(p, g, o)
    PROVE  /\ g.text[o + 1] \in Num =>
                \A q : q.content_length = p.content_length * 10 + Digit[g.text[o + 1]]
                            => NumberRead(q, g, o + 1)
           /\ g.text[o + 1] \notin Num => p.content_length = Len(g.text) - g.h
<1> DEFINE t == g.text
           v == Len(t) - g.h
<1>1. /\ g.u \in Nat /\ g.h \in Nat /\ g.h <= Len(t) /\ Len(t) \in Nat /\ t \in Seq(STRING)
      /\ \A k \in InHead(g) : k \in 1..Len(t)
  BY FirstLine, SMTT(20) DEF InHead, Parsed
<1>2. PICK k \in InHead(g), a \in InHead(g), z \in InHead(g) :
            /\ IsLength(t, k) /\ Declares(t, k, a, z, v)
            /\ a <= o /\ o <= z /\ p.content_length = Number(t, a, o, Digit, 10)
  BY DEF NumberRead
<1>3. /\ \A i \in a..z : t[i] \in Num
      /\ t[z + 1] \notin Num /\ Number(t, a, z, Digit, 10) = v
  BY <1>2, Digits10 DEF Declares, Numeral
<1>4. ASSUME t[o + 1] \in Num, NEW q, q.content_length = p.content_length * 10 + Digit[t[o + 1]]
      PROVE  NumberRead(q, g, o + 1)
  <2>1. o + 1 <= z
    BY <1>1, <1>2, <1>3, <1>4
  <2>2. Number(t, a, o + 1, Digit, 10) = Number(t, a, o, Digit, 10) * 10 + Digit[t[o + 1]]
    <3> PICK y \in Nat : y = o + 1
      OBVIOUS
    <3>1. a \in 1..Len(t) /\ y \in a..Len(t) /\ a < y /\ y - 1 = o
      BY <1>1, <1>2, <2>1
    <3>2. Valued(t, a, y, Digit)
      BY <1>1, <1>2, <1>3, <2>1, Digits10 DEF Valued
    <3>3. 10 \in Bases
      BY DEF Bases
    <3>4. Number(t, a, y, Digit, 10) = Number(t, a, y - 1, Digit, 10) * 10 + Digit[t[y]]
      BY <1>1, <3>1, <3>2, <3>3, NumberGrows
    <3> QED BY <3>1, <3>4
  <2>3. a <= o + 1
    BY <1>1, <1>2
  <2>4. q.content_length = Number(t, a, o + 1, Digit, 10)
    BY <1>2, <1>4, <2>2
  <2> QED BY <1>2, <2>1, <2>3, <2>4 DEF NumberRead
<1>5. ASSUME t[o + 1] \notin Num PROVE p.content_length = v
  <2>1. o = z
    <3>1. ~(o + 1 \in a..z)
      BY <1>3, <1>5
    <3> QED BY <1>1, <1>2, <3>1
  <2> QED BY <1>2, <1>3, <2>1
<1> QED BY <1>4, <1>5

\* A number that begins.
LEMMA NumberFirst ==
    ASSUME NEW g, Parsed(g), NEW o \in Nat, g.u < o, o + 1 < g.h,
           Awaited(g, o), g.text[o + 1] \in Num, NEW q, q.content_length = Digit[g.text[o + 1]]
    PROVE  NumberRead(q, g, o + 1)
<1> DEFINE t == g.text
           v == Len(t) - g.h
<1>1. /\ g.u \in Nat /\ g.h \in Nat /\ g.h <= Len(t) /\ Len(t) \in Nat /\ t \in Seq(STRING)
  BY FirstLine DEF Parsed
<1>2. PICK k \in InHead(g) : IsLength(t, k) /\ k + 3 <= o /\ Blanks(t, k + 4, o)
  BY DEF Awaited
<1>3. PICK z \in InHead(g) : z >= o + 1 /\ Declares(t, k, o + 1, z, v)
  BY <1>2, AwaitedNext, Symbols
<1>4. Number(t, o + 1, o + 1, Digit, 10) = Digit[t[o + 1]]
  <2> PICK y \in Nat : y = o + 1
    OBVIOUS
  <2>1. y \in 1..Len(t) /\ y \in y..Len(t)
    BY <1>1
  <2>2. Valued(t, y, y, Digit)
    BY Digits10 DEF Valued
  <2>3. 10 \in Bases
    BY DEF Bases
  <2> QED BY <1>1, <2>1, <2>2, <2>3, NumberGrows
<1>5. o + 1 \in InHead(g) /\ o + 1 <= o + 1 /\ o + 1 <= z
  BY <1>1, <1>3 DEF InHead
<1> QED BY <1>2, <1>3, <1>4, <1>5 DEF NumberRead

LEMMA LengthMove ==
    ASSUME NEW g, Parsed(g), NEW p, NEW o \in Nat, g.u < o, o + 1 < g.h,
           Names(p, g.text, o), LengthRead(p, g, o),
           NEW q, HeadMove(q, p, g.text[o + 1]), ~Failed(q)
    PROVE  LengthRead(q, g, o + 1)
<1> DEFINE t == g.text
           ch == t[o + 1]
           Begun_(x) == "CONTENTLENGTH" \in x.flags
           Waits(x) == x.state = "s_header_value_discard_ws" /\ x.header = "content_length"
<1>1. /\ Waits(p) <=> Awaited(g, o)
      /\ p.state \in ValueStates \ {"s_header_value_discard_ws"} => p.header # "content_length"
      /\ Begun_(p) <=> Begun(g, o)
      /\ ~Begun_(p) => p.content_length = ULLONG_MAX /\ ~InNumber(p)
      /\ Begun_(p) => /\ p.content_length # ULLONG_MAX
                      /\ ~InNumber(p) => p.content_length = Len(t) - g.h
      /\ InNumber(p) => NumberRead(p, g, o)
  BY DEF LengthRead
<1>2. Waits(p) => ch = Blank \/ ch \in Num
  BY <1>1, AwaitedNext DEF Awaited
<1> DEFINE Goal1 == Waits(q) <=> \/ InName(p, "content_length") /\ ch = ":"
                                 \/ Awaited(g, o) /\ ch = Blank
           Goal2 == q.state \in ValueStates \ {"s_header_value_discard_ws"} => q.header # "content_length"
           Goal3 == Begun_(q) <=> Begun_(p) \/ (Awaited(g, o) /\ ch \in Num)
           Goal4 == ~Begun_(q) => q.content_length = ULLONG_MAX /\ ~InNumber(q)
           Goal5 == Begun_(q) => /\ q.content_length # ULLONG_MAX
                                 /\ ~InNumber(q) => q.content_length = Len(t) - g.h
           Goal6 == InNumber(q) => NumberRead(q, g, o + 1)
<1>3. SUFFICES Goal1 /\ Goal2 /\ Goal3 /\ Goal4 /\ Goal5 /\ Goal6
  <2>1. Awaited(g, o + 1) <=> \/ InName(p, "content_length") /\ ch = ":"
                              \/ Awaited(g, o) /\ ch = Blank
    BY AwaitedMove
  <2>2. Begun(g, o + 1) <=> Begun(g, o) \/ (Awaited(g, o) /\ ch \in Num)
    BY BegunMove
  <2> QED BY <1>1, <2>1, <2>2 DEF LengthRead
<1>4. ch \in Num => Digit[ch] \in Nat /\ Digit[ch] # ULLONG_MAX
  BY Digits10, HttpParserAssumption
<1>5. /\ ch \in Num =>
            \A x : x.content_length = p.content_length * 10 + Digit[ch] /\ NumberRead(p, g, o)
                            => NumberRead(x, g, o + 1)
      /\ ch \notin Num /\ NumberRead(p, g, o) => p.content_length = Len(t) - g.h
      /\ Awaited(g, o) /\ ch \in Num => \A x : x.content_length = Digit[ch] => NumberRead(x, g, o + 1)
  BY NumberMove, NumberFirst
<1> HIDE DEF ch, t
\* The length stays, and no number is read.
<1>6. ASSUME SameLength(q, p), ~InNumber(p), ~InNumber(q) PROVE Goal4 /\ Goal5 /\ Goal6
  BY <1>1, <1>6 DEF SameLength
<1>7. CASE LineBegins(q, p, ch)
  <2>1. /\ q.state \in {"s_headers_almost_done", "s_header_field"} /\ SameLength(q, p)
        /\ p.state \in LineStates
    BY <1>7 DEF LineBegins, Begins
  <2>2. ~InNumber(p) /\ ~InNumber(q) /\ ~Waits(p) /\ ~Waits(q) /\ ~InName(p, "content_length")
        /\ q.state \notin ValueStates
    BY <2>1 DEF InNumber, InName, LineStates, ValueStates
  <2> QED BY <1>1, <1>6, <2>1, <2>2 DEF SameLength
<1>8. CASE NameGoes(q, p, ch)
  <2>1. q.state = "s_header_field" /\ SameLength(q, p) /\ p.state = "s_header_field" /\ ch # ":"
    BY <1>8, Symbols DEF NameGoes
  <2>2. ~InNumber(p) /\ ~InNumber(q) /\ ~Waits(p) /\ ~Waits(q) /\ q.state \notin ValueStates
    BY <2>1 DEF InNumber, ValueStates
  <2> QED BY <1>1, <1>6, <2>1, <2>2 DEF SameLength
<1>9. CASE NameEnds(q, p, ch)
  <2>1. /\ q.state = "s_header_value_discard_ws" /\ SameLength(q, p) /\ p.state = "s_header_field"
        /\ q.header = p.header /\ ch = ":"
    BY <1>9 DEF NameEnds
  <2>2. ~InNumber(p) /\ ~InNumber(q) /\ ~Waits(p) /\ (Waits(q) <=> InName(p, "content_length"))
    BY <2>1 DEF InNumber, InName
  <2> QED BY <1>1, <1>6, <2>1, <2>2 DEF SameLength
<1>10. CASE ValueWaits(q, p, ch)
  <2>1. /\ q.state = "s_header_value_discard_ws" /\ SameLength(q, p) /\ ch = Blank
        /\ p.state \in {"s_header_value_discard_ws", "s_header_value_discard_lws"}
        /\ q.header = p.header
    BY <1>10 DEF ValueWaits
  <2>2. p.state = "s_header_value_discard_lws" => p.header # "content_length"
    BY <1>1 DEF ValueStates
  <2>3. ~InNumber(p) /\ ~InNumber(q) /\ (Waits(q) <=> Waits(p)) /\ ~InName(p, "content_length")
    BY <2>1, <2>2 DEF InNumber, InName
  <2>4. ch \notin Num
    BY <2>1, Symbols
  <2> QED BY <1>1, <1>6, <2>1, <2>3, <2>4 DEF SameLength
<1>11. CASE ValueBegins(q, p, ch)
  <2>1. /\ p.state \in {"s_header_value_discard_ws", "s_header_value_lws"}
        /\ p.state = "s_header_value_discard_ws" => ch # Blank
        /\ p.state = "s_header_value_lws" => ch = Blank
        /\ q.state = "s_header_value" /\ (NumberBegins(q, p, ch) \/ OtherBegins(q, p, ch))
    BY <1>11 DEF ValueBegins
  <2>2. ~InNumber(p) /\ ~InName(p, "content_length") /\ ~Waits(q)
    BY <2>1 DEF InNumber, InName
  <2>3. CASE NumberBegins(q, p, ch)
    <3>1. /\ p.header = "content_length" /\ ch \in Num /\ ~Begun_(p) /\ Begun_(q)
          /\ q.header = "content_length_num" /\ q.content_length = Digit[ch]
      BY <2>3 DEF NumberBegins
    <3>2. p.state = "s_header_value_discard_ws" /\ ch # Blank
      BY <2>1, <3>1, Symbols
    <3>3. Waits(p) /\ Awaited(g, o) /\ InNumber(q)
      BY <1>1, <2>1, <3>1, <3>2 DEF InNumber
    <3>4. Goal6 /\ Goal5 /\ Goal4
      BY <1>4, <1>5, <3>1, <3>3
    <3> QED BY <2>2, <3>1, <3>2, <3>3, <3>4
  <2>4. CASE OtherBegins(q, p, ch)
    <3>1. /\ p.header # "content_length" /\ SameLength(q, p)
          /\ q.header \notin {"content_length", "content_length_num"}
      BY <2>4 DEF OtherBegins
    <3>2. ~InNumber(q) /\ ~Waits(p)
      BY <3>1 DEF InNumber
    <3> QED BY <1>1, <1>6, <2>2, <3>1, <3>2 DEF SameLength
  <2> QED BY <2>1, <2>3, <2>4
<1>12. CASE ValueGoes(q, p, ch)
  <2>1. /\ p.state = "s_header_value" /\ q.state = "s_header_value"
        /\ Begun_(q) <=> Begun_(p)
    BY <1>12 DEF ValueGoes
  <2>2. ~Waits(p) /\ ~Waits(q) /\ ~InName(p, "content_length")
    BY <2>1 DEF InName
  <2>3. CASE p.header = "content_length_num" /\ ch \in Num /\ q.header = "content_length_num"
    <3>1. q.content_length = p.content_length * 10 + Digit[ch] /\ q.content_length # ULLONG_MAX
      BY <1>12, <2>3 DEF ValueGoes
    <3>2. InNumber(p) /\ InNumber(q)
      BY <2>1, <2>3 DEF InNumber
    <3> QED BY <1>1, <1>5, <2>1, <2>2, <2>3, <3>1, <3>2
  <2>4. CASE p.header = "content_length_num" /\ ~(ch \in Num /\ q.header = "content_length_num")
    <3>1. ch \notin Num /\ q.header = "content_length_ws" /\ q.content_length = p.content_length
      BY <1>12, <2>4 DEF ValueGoes
    <3>2. InNumber(p) /\ ~InNumber(q)
      BY <2>1, <2>4, <3>1 DEF InNumber
    <3> QED BY <1>1, <1>5, <2>1, <2>2, <3>1, <3>2
  <2>5. CASE p.header # "content_length_num"
    <3>1. /\ q.header \notin {"content_length", "content_length_num"}
          /\ q.content_length = p.content_length
      BY <1>12, <2>5 DEF ValueGoes
    <3>2. ~InNumber(p) /\ ~InNumber(q)
      BY <2>5, <3>1 DEF InNumber
    <3> QED BY <1>1, <2>1, <2>2, <3>1, <3>2
  <2> QED BY <2>3, <2>4, <2>5
<1>13. CASE ValueEnds(q, p, ch)
  <2>1. ch \in {CR, LF} /\ q.header = p.header /\ SameLength(q, p)
        /\ q.state \in ValueStates \ {"s_header_value", "s_header_value_discard_ws"}
        /\ p.state \in ValueStates
    BY <1>13 DEF ValueEnds, LineEnd, ValueStates
  <2>2. ch \notin Num /\ ch # Blank /\ ch # ":"
    <3>1. ":" # CR /\ ":" # LF
      BY DEF CR, LF
    <3> QED BY <2>1, <3>1, Symbols
  <2>3. ~Waits(p) /\ ~Waits(q) /\ ~InNumber(q) /\ p.header # "content_length"
    BY <1>1, <1>2, <2>1, <2>2 DEF InNumber, ValueStates
  <2>4. InNumber(p) => p.content_length = Len(t) - g.h
    BY <1>1, <1>5, <2>2
  <2> QED BY <1>1, <2>1, <2>2, <2>3, <2>4 DEF SameLength
<1> QED BY <1>7, <1>8, <1>9, <1>10, <1>11, <1>12, <1>13 DEF HeadMove, ch, t

-----------------------------------------------------------------------------
(* The head of a request.                                                  *)

\* A symbol of it, before its end.
LEMMA HeadersMove ==
    ASSUME NEW g, Parsed(g), NEW p, Ready(p), NEW o \in Nat, InHeaders(p, g, o), o + 1 # g.h,
           NEW a
    PROVE  LET q == Transition(p, g.text[o + 1], a)
           IN  Same(q, p) /\ (Failed(q) \/ InHeaders(q, g, o + 1))
<1> DEFINE ch == g.text[o + 1]
           q == Transition(p, ch, a)
<1> SUFFICES Same(q, p) /\ (Failed(q) \/ InHeaders(q, g, o + 1))
  OBVIOUS
<1>1. /\ g.u < o /\ o + 1 < g.h /\ g.u < o + 1 /\ ~EmptyLine(g.text, o + 1)
  <2>1. g.u \in Nat /\ g.h \in Nat /\ g.u < o /\ o < g.h
    BY FirstLine DEF InHeaders
  <2>2. o + 1 \in (g.u + 1)..(g.h - 1)
    BY <2>1
  <2> QED BY <2>1, <2>2, FirstLine
<1>2. /\ p.method = g.method /\ {"TRAILING", "SKIPBODY"} \cap p.flags = {}
      /\ Lines(p, g.text, o) /\ Names(p, g.text, o)
      /\ LengthRead(p, g, o) /\ TransferRead(p, g, o)
  BY DEF InHeaders
<1>3. ch = LF => p.state \notin LineStates \cup {"s_headers_almost_done"}
  BY <1>1, <1>2, Emptied
<1>4. p.state \in HeadStates
  BY <1>2 DEF Lines
<1>5. HeadMove(q, p, ch)
  BY <1>3, <1>4, HeadTransition
<1> HIDE DEF q
<1>6. Same(q, p)
  BY <1>5 DEF HeadMove
<1>7. ASSUME ~Failed(q) PROVE InHeaders(q, g, o + 1)
  <2>1. Lines(q, g.text, o + 1)
    BY <1>1, <1>2, <1>5, <1>7, LinesMove
  <2>2. Names(q, g.text, o + 1)
    BY <1>1, <1>2, <1>5, <1>7, NamesMove
  <2>3. LengthRead(q, g, o + 1)
    BY <1>1, <1>2, <1>5, <1>7, LengthMove
  <2>4. TransferRead(q, g, o + 1)
    BY <1>1, <1>2, <1>5, <1>7, TransferMove
  <2>5. q.method = g.method /\ {"TRAILING", "SKIPBODY"} \cap q.flags = {}
    BY <1>2, <1>6 DEF Same
  <2> QED BY <1>1, <2>1, <2>2, <2>3, <2>4, <2>5 DEF InHeaders
<1> QED BY <1>6, <1>7

\* Its first line begins after the line of the request.
LEMMA HeadersBegin ==
    ASSUME NEW g, Parsed(g), NEW o \in Nat, g.u < o, o < g.h, g.text[o] = LF,
           \A k \in 4..(o - 1) : g.text[k] # LF,
           NEW p, p.state = "s_header_field_start", p.method = g.method, p.flags = {},
           p.content_length = ULLONG_MAX
    PROVE  InHeaders(p, g, o)
<1> DEFINE t == g.text
<1>1. /\ g.u \in Nat /\ g.h \in Nat /\ g.u >= 4
      /\ \A k \in InHead(g) : k \in Int /\ k >= g.u + 2
  BY FirstLine DEF InHead
<1>2. \A k \in 1..(o - 1) : t[k] # LF
  <2> TAKE k \in 1..(o - 1)
  <2>1. k \in 1..g.u \/ k \in 4..(o - 1)
    BY <1>1
  <2> QED BY <2>1, FirstLine
<1>3. t[o - 1] # LF /\ t[o - 2] # LF /\ t[o - 3] # LF /\ t[o] # CR
  BY <1>1, <1>2, Symbols
<1>4. Lines(p, t, o)
  BY <1>3 DEF Lines, HeadStates, LineStates
<1>5. Names(p, t, o)
  BY <1>3 DEF Names, InName
<1>6. \A k \in InHead(g) : IsLength(t, k) \/ IsTransfer(t, k) => o < k
  <2> TAKE k \in InHead(g)
  <2> HAVE IsLength(t, k) \/ IsTransfer(t, k)
  <2>1. t[k - 1] = LF
    BY DEF IsLength, IsTransfer
  <2>2. k - 1 \notin 1..(o - 1)
    BY <1>2, <2>1
  <2> QED BY <1>1, <2>2
<1>7. ~Awaited(g, o) /\ ~Begun(g, o)
  BY <1>1, <1>6 DEF Awaited, Begun
<1>8. p.state \notin ValueStates /\ ~InNumber(p)
  BY DEF ValueStates, InNumber
<1>9. LengthRead(p, g, o)
  BY <1>7, <1>8 DEF LengthRead
<1>10. ASSUME NEW k \in InHead(g), NEW a \in InHead(g), NEW l \in InHead(g),
              SaysChunked(t, k, a, l)
       PROVE  o \notin (k + 2)..(a - 1) /\ o # a /\ o # a + 1 /\ o \notin (a + 2)..(l - 1)
              /\ o # l /\ ~(o > l)
  <2>1. o < k /\ k + 3 <= a /\ a + 2 <= l
    BY <1>6, <1>10 DEF SaysChunked
  <2> QED BY <1>1, <2>1
<1>11. TransferRead(p, g, o)
  BY <1>8, <1>10 DEF TransferRead
<1> QED BY <1>4, <1>5, <1>9, <1>11 DEF InHeaders

\* The end of an empty line: the value before it is over.
Emptying(e, p) ==
    /\ Steady(e) /\ Same(e, p) /\ SameLength(e, p)
    /\ "CHUNKED" \in e.flags <=>
          \/ "CHUNKED" \in p.flags
          \/ p.state \in {"s_header_value_lws", "s_header_value_discard_lws"} /\ p.header = "chunked"

LEMMA HeadEnd ==
    ASSUME NEW p, Ready(p), p.state \in LineStates \cup {"s_headers_almost_done"}, NEW a
    PROVE  LET q == Transition(p, LF, a)
           IN  \/ Failed(q) /\ Same(q, p)
               \/ \E e : Emptying(e, p) /\ q = s_headers_almost_done(e, LF, a)
<1> DEFINE q == Transition(p, LF, a)
           Goal(x) == \/ Failed(x) /\ Same(x, p)
                      \/ \E e : Emptying(e, p) /\ x = s_headers_almost_done(e, LF, a)
<1> SUFFICES Goal(q)
  OBVIOUS
<1>1. Quiet(p.out) /\ Typed(p) /\ LF # CR /\ LF # Blank /\ ~Token(LF)
  BY ReadyTyped, QuietEmpty, Symbols
<1>2. p.state \in Plain
  BY DEF LineStates, Plain, States, BodyStates, ChunkStates, SizeStates, UrlStates, Undecided
<1>3. Steady(p)
  BY <1>2, PlainSteady
<1>4. \A e : s_header_field_start(e, LF, a) = s_headers_almost_done(e, LF, a)
  BY <1>1 DEF s_header_field_start
<1> HIDE DEF q
<1>5. CASE p.state \in {"s_header_field_start", "s_headers_almost_done"}
  <2>1. q = s_headers_almost_done(p, LF, a)
    BY <1>4, <1>5, Transitions DEF q
  <2>2. Emptying(p, p)
    BY <1>1, <1>3, <1>5 DEF Emptying, Same, SameLength
  <2> QED BY <2>1, <2>2
<1>6. CASE p.state = "s_header_value_lws"
  <2> DEFINE e == flag_value(p)
  <2>1. q = s_headers_almost_done(e, LF, a)
    <3>1. q = s_header_value_lws(p, LF, a)
      BY <1>6, Transitions DEF q
    <3>2. s_header_value_lws(p, LF, a) = s_header_field_start(e, LF, a)
      BY <1>1 DEF s_header_value_lws
    <3> QED BY <1>4, <3>1, <3>2
  <2>2. /\ Steady(e) /\ Same(e, p) /\ SameLength(e, p)
        /\ "CHUNKED" \in e.flags <=> "CHUNKED" \in p.flags \/ p.header = "chunked"
    BY <1>1, <1>3, FlagKeeps
  <2> HIDE DEF e
  <2>3. Emptying(e, p)
    BY <1>6, <2>2 DEF Emptying
  <2> QED BY <2>1, <2>3
<1>7. CASE p.state = "s_header_value_discard_lws"
  <2> DEFINE d == CALLBACK_DATA(Goto(MARK(flag_value(p), "header_value"), "s_header_field_start"),
                                "header_value", a)
  <2>1. q = IF p.header = "content_length" THEN Fail(p, "INVALID_CONTENT_LENGTH")
            ELSE IF Failed(d) THEN d ELSE s_headers_almost_done(d, LF, a)
    <3>1. q = s_header_value_discard_lws(p, LF, a)
      BY <1>7, Transitions DEF q
    <3> QED BY <1>1, <1>4, <3>1 DEF s_header_value_discard_lws
  <2>2. /\ Same(d, p) /\ SameLength(d, p) /\ (~Failed(d) => Steady(d))
        /\ "CHUNKED" \in d.flags <=> "CHUNKED" \in p.flags \/ p.header = "chunked"
    BY <1>7, EmptyValue
  <2>3. ~Failed(d) => Emptying(d, p)
    BY <1>7, <2>2 DEF Emptying
  <2>4. Same(Fail(p, "INVALID_CONTENT_LENGTH"), p) /\ Failed(Fail(p, "INVALID_CONTENT_LENGTH"))
    <3>1. "INVALID_CONTENT_LENGTH" \in Errors \ {"OK"}
      BY DEF Errors
    <3> QED BY <1>1, <3>1, FailKeeps
  <2> HIDE DEF d
  <2> QED BY <2>1, <2>2, <2>3, <2>4
<1> QED BY <1>5, <1>6, <1>7 DEF LineStates

-----------------------------------------------------------------------------
(* What a symbol may make of a parser in a request: it fails, it is o      *)
(* symbols in it, or the message is over, for a GET and a POST at its end. *)

\* The callbacks of HttpPeerLink; only on_headers_complete may say something.
NoFailure(a) ==
    a \in [Callbacks -> {0, 1}] /\ \A c \in Callbacks \ {"headers_complete"} : a[c] = 0

OverEvent == [cb |-> "message_complete", n |-> 0, extra |-> 0]

Fails(q) == Failed(q) /\ Quiet(q.out)

Goes(q, g, o) == Inside(q, g, o) /\ Quiet(q.out)

Completes(q, g, o) ==
    /\ q.type = "REQUEST" /\ q.state \in {"s_start_req", "s_dead"}
    /\ \E w \in Seq(Event) : Quiet(w) /\ q.out = Append(w, OverEvent)
    /\ g.method \in {"GET", "POST"} => o = Len(g.text)

Outcome(q, g, o) == Fails(q) \/ Goes(q, g, o) \/ Completes(q, g, o)

LEMMA MessageCompletes ==
    ASSUME NEW p, Typed(p), p.type = "REQUEST", Quiet(p.out), NEW a,
           NEW g, NEW o, g.method \in {"GET", "POST"} => o = Len(g.text)
    PROVE  Completes(message_complete(p, a), g, o)
<1> DEFINE s == NEW_MESSAGE(p)
           r == Goto(p, s)
           n == CALLBACK_NOTIFY(r, "message_complete", a)
           q == [n EXCEPT !.exited = p.upgrade]
<1>1. s \in {"s_dead", "s_start_req"}
  BY DEF NEW_MESSAGE
<1>2. "message_complete" \in Callbacks /\ {"s_dead", "s_start_req"} \subseteq States
  BY DEF Callbacks, States
<1>3. message_complete(p, a) = q
  BY DEF message_complete
<1> HIDE DEF s
<1>4. Typed(r) /\ r.out = p.out /\ r.state = s /\ r.type = "REQUEST"
  BY <1>1, <1>2 DEF Goto, Typed, Fields
<1> HIDE DEF r
<1>5. IsCall(n, r, "message_complete", 0, 0, a)
  BY <1>2, <1>4, NotifyEffect
<1> HIDE DEF n
<1>6. DOMAIN n = Fields /\ n.state = s /\ n.type = "REQUEST" /\ n.out = Append(p.out, OverEvent)
  BY <1>4, <1>5 DEF IsCall, Kept, Typed, OverEvent
<1>7. q.state = s /\ q.type = "REQUEST" /\ q.out = Append(p.out, OverEvent)
  BY <1>6 DEF Fields
<1> HIDE DEF q
<1>8. p.out \in Seq(Event)
  BY DEF Typed
<1> QED BY <1>1, <1>3, <1>7, <1>8 DEF Completes

\* Once on_headers_complete has answered.
LEMMA AnsweredIs ==
    ASSUME NEW p, Typed(p), NEW a, NoFailure(a)
    PROVE  LET x == Answered(p, a)
           IN  /\ x.errno = "OK" /\ x.method = p.method /\ x.upgrade = Upgrades(p)
               /\ x.flags = IF a["headers_complete"] = 1 THEN p.flags \cup {"SKIPBODY"} ELSE p.flags
<1> DEFINE answer == a["headers_complete"]
           u == [p EXCEPT !.upgrade = Upgrades(p)]
           b == [a EXCEPT !["headers_complete"] = IF @ \in 1..2 THEN 0 ELSE @]
           c == CALLBACK_NOTIFY(u, "headers_complete", b)
           x == c.upgrade \/ answer = 2
           f == IF answer \in 1..2 THEN c.flags \cup {"SKIPBODY"} ELSE c.flags
           h == [c EXCEPT !.upgrade = x, !.flags = f]
<1>1. "headers_complete" \in Callbacks /\ answer \in {0, 1}
  BY DEF Callbacks, NoFailure
<1>2. b["headers_complete"] = 0
  BY <1>1 DEF NoFailure
<1>3. Upgrades(p) \in BOOLEAN
  BY DEF Upgrades
<1>4. /\ Typed(u) /\ u.method = p.method /\ u.flags = p.flags /\ u.upgrade = Upgrades(p)
  BY <1>3 DEF Typed, Fields
<1>5. Answered(p, a) = h
  BY DEF Answered
<1> HIDE DEF u, b
<1>6. IsCall(c, u, "headers_complete", 0, 0, b)
  BY <1>1, <1>4, NotifyEffect
<1> HIDE DEF c
<1>7. /\ DOMAIN c = Fields /\ c.errno = "OK" /\ c.method = p.method /\ c.flags = p.flags
      /\ c.upgrade = Upgrades(p)
  BY <1>2, <1>4, <1>6 DEF IsCall, Kept, Typed
<1>8. x = Upgrades(p) /\ f = IF answer = 1 THEN p.flags \cup {"SKIPBODY"} ELSE p.flags
  BY <1>1, <1>3, <1>7
<1> HIDE DEF x, f, answer
<1>9. h.errno = c.errno /\ h.method = c.method /\ h.upgrade = x /\ h.flags = f
  BY <1>7 DEF Fields
<1> HIDE DEF h
<1> QED BY <1>5, <1>7, <1>8, <1>9 DEF answer

\* What the head of a request says of its body.
HeadRead(x, g) ==
    /\ x.type = "REQUEST" /\ x.method = g.method /\ Quiet(x.out)
    /\ "CHUNKED" \in x.flags <=> g.C # {}
    /\ x.content_length # ULLONG_MAX => x.content_length = Len(g.text) - g.h
    /\ x.content_length = ULLONG_MAX /\ g.C = {} => Len(g.text) = g.h

LEMMA HeadersDoneGoes ==
    ASSUME NEW g, Parsed(g), NEW x, Steady(x), HeadRead(x, g), NEW a,
           g.method = "POST" => "SKIPBODY" \notin x.flags
    PROVE  Outcome(s_headers_done(x, a), g, g.h)
<1> DEFINE c == message_complete(x, a)
           hasBody == "CHUNKED" \in x.flags \/ x.content_length \in 1..(ULLONG_MAX - 1)
           over == \/ x.upgrade /\ (x.method = "CONNECT" \/ "SKIPBODY" \in x.flags \/ ~hasBody)
                   \/ "SKIPBODY" \in x.flags
           q == s_headers_done(x, a)
<1>1. /\ g.h \in Nat /\ Len(g.text) \in Nat /\ g.h <= Len(g.text) /\ g.u < g.h
      /\ g.method = "GET" => g.h = Len(g.text)
  BY FirstLine DEF Parsed
<1>2. Typed(x) /\ x.content_length \in 0..ULLONG_MAX /\ x.errno = "OK"
  BY DEF Steady, Typed
<1>3. ASSUME over \/ ~hasBody PROVE Completes(c, g, g.h)
  <2>1. ASSUME g.method = "POST" PROVE g.h = Len(g.text)
    <3>1. ~hasBody
      BY <1>3, <2>1 DEF HeadRead
    <3>2. g.C = {}
      BY <3>1 DEF HeadRead
    <3>3. x.content_length = 0 \/ x.content_length = ULLONG_MAX
      BY <1>2, <3>1, HttpParserAssumption
    <3> QED BY <1>1, <3>2, <3>3, HttpParserAssumption DEF HeadRead
  <2>2. x.type = "REQUEST" /\ Quiet(x.out)
    BY DEF HeadRead
  <2> HIDE DEF c
  <2> QED BY <1>1, <1>2, <2>1, <2>2, MessageCompletes DEF c
<1>4. ~http_message_needs_eof(x) /\ x.type = "REQUEST"
  BY DEF http_message_needs_eof, HeadRead
<1>5. q = IF over THEN c
          ELSE IF "CHUNKED" \in x.flags THEN Goto(x, "s_chunk_size_start")
          ELSE IF "TRANSFER_ENCODING" \in x.flags THEN Fail(x, "INVALID_TRANSFER_ENCODING")
          ELSE IF hasBody THEN Goto(x, "s_body_identity") ELSE c
  BY <1>4 DEF s_headers_done
<1>6. ASSUME "CHUNKED" \in x.flags PROVE Goes(Goto(x, "s_chunk_size_start"), g, g.h)
  <2> DEFINE r == Goto(x, "s_chunk_size_start")
  <2>1. r.state = "s_chunk_size_start" /\ r.type = "REQUEST" /\ Quiet(r.out)
    BY <1>2 DEF Goto, Typed, Fields, HeadRead
  <2> HIDE DEF r
  <2>2. g.C # {} /\ g.h + 1 \in g.C /\ g.h + 1 <= Len(g.text)
    <3>1. g.C # {}
      BY <1>6 DEF HeadRead
    <3>2. Chunked(g.text, g.h, g.C)
      BY <3>1 DEF Parsed
    <3> QED BY <1>1, <3>1, <3>2 DEF Chunked
  <2>3. InChunk(r, g, g.h)
    BY <1>1, <2>1, <2>2 DEF InChunk
  <2> QED BY <2>1, <2>3 DEF Goes, Inside, r
<1>7. ASSUME hasBody, "CHUNKED" \notin x.flags PROVE Goes(Goto(x, "s_body_identity"), g, g.h)
  <2> DEFINE r == Goto(x, "s_body_identity")
  <2>1. /\ r.state = "s_body_identity" /\ r.type = "REQUEST" /\ Quiet(r.out)
        /\ r.content_length = x.content_length
    BY <1>2 DEF Goto, Typed, Fields, HeadRead
  <2> HIDE DEF r
  <2>2. x.content_length >= 1 /\ x.content_length # ULLONG_MAX
    BY <1>7, HttpParserAssumption
  <2>3. g.C = {} /\ x.content_length = Len(g.text) - g.h
    BY <1>7, <2>2 DEF HeadRead
  <2>4. InBody(r, g, g.h)
    BY <1>1, <2>1, <2>2, <2>3 DEF InBody
  <2> QED BY <2>1, <2>4 DEF Goes, Inside, r
<1>8. Fails(Fail(x, "INVALID_TRANSFER_ENCODING"))
  BY <1>2 DEF Fails, Fail, Failed, Typed, Fields, HeadRead
<1> HIDE DEF over, hasBody, c, q
<1> SUFFICES Outcome(q, g, g.h)
  BY DEF q
<1> QED BY <1>3, <1>5, <1>6, <1>7, <1>8 DEF Outcome

-----------------------------------------------------------------------------
(* The end of the head.                                                    *)

\* All lengths of it are read.
LEMMA LengthOver ==
    ASSUME NEW g, Parsed(g), NEW p, NEW o \in Nat, o + 1 = g.h, g.u < o, LengthRead(p, g, o),
           p.state # "s_header_value"
    PROVE  /\ p.content_length # ULLONG_MAX => p.content_length = Len(g.text) - g.h
           /\ p.content_length = ULLONG_MAX /\ g.C = {} => Len(g.text) = g.h
<1>1. /\ g.u \in Nat /\ g.h \in Nat /\ Len(g.text) \in Nat /\ g.h <= Len(g.text)
      /\ InHead(g) = (g.u + 2)..(g.h - 1)
  BY FirstLine DEF InHead
<1>2. ~InNumber(p)
  BY DEF InNumber
<1>3. p.content_length # ULLONG_MAX => p.content_length = Len(g.text) - g.h
  BY <1>2 DEF LengthRead
<1>4. ASSUME p.content_length = ULLONG_MAX, g.C = {}, Len(g.text) # g.h PROVE FALSE
  <2>1. LengthGiven(g.text, g.u, g.h) /\ Len(g.text) > g.h
    BY <1>1, <1>4 DEF Parsed
  <2>2. PICK k \in InHead(g) : IsLength(g.text, k)
    BY <1>1, <2>1 DEF LengthGiven
  <2>3. PICK a \in k..(g.h - 1), z \in k..(g.h - 1) :
           Declares(g.text, k, a, z, Len(g.text) - g.h)
    BY <2>2, LengthSays
  <2>4. k + 4 <= a /\ Blanks(g.text, k + 4, a - 1) /\ g.text[a] \in Num /\ a \in InHead(g) /\ a <= o
    <3>1. a \in a..z
      BY <1>1, <2>3 DEF Declares, Numeral
    <3> QED BY <1>1, <2>3, <3>1, Digits10, SMTT(20) DEF Declares, Numeral
  <2>5. Begun(g, o)
    BY <2>2, <2>4 DEF Begun
  <2> QED BY <1>4, <2>5 DEF LengthRead
<1> QED BY <1>3, <1>4

\* So are all encodings, but for the last, the line of which has ended.
LEMMA TransferOver ==
    ASSUME NEW g, Parsed(g), NEW p, NEW o \in Nat, o + 1 = g.h, g.u < o, TransferRead(p, g, o)
    PROVE  g.C # {} <=> \/ "CHUNKED" \in p.flags
                        \/ /\ p.state \in {"s_header_value_lws", "s_header_value_discard_lws"}
                           /\ p.header = "chunked"
<1>1. /\ g.u \in Nat /\ g.h \in Nat /\ InHead(g) = (g.u + 2)..(g.h - 1)
  BY FirstLine DEF InHead
<1>2. ASSUME \/ "CHUNKED" \in p.flags
             \/ /\ p.state \in {"s_header_value_lws", "s_header_value_discard_lws"}
                /\ p.header = "chunked"
      PROVE  g.C # {}
  <2>1. HasTransfer(g)
    BY <1>2 DEF TransferRead, ValueStates, TransferValues
  <2> QED BY <1>1, <2>1 DEF HasTransfer, Parsed, LengthGiven
<1>3. ASSUME g.C # {}
      PROVE  \/ "CHUNKED" \in p.flags
             \/ p.state = "s_header_value_lws" /\ p.header = "chunked"
  <2>1. PICK k \in InHead(g), a \in InHead(g), l \in InHead(g) : SaysChunked(g.text, k, a, l)
    BY <1>1, <1>3 DEF Parsed
  <2>2. o = l \/ o > l
    BY <1>1
  <2> QED BY <2>1, <2>2 DEF TransferRead
<1> QED BY <1>2, <1>3

LEMMA HeadersEnd ==
    ASSUME NEW g, Parsed(g), NEW p, Ready(p), p.type = "REQUEST", NEW o \in Nat,
           InHeaders(p, g, o), o + 1 = g.h, NEW a, NoFailure(a),
           g.method = "POST" => a["headers_complete"] = 0
    PROVE  Outcome(Transition(p, g.text[o + 1], a), g, o + 1)
<1> DEFINE q == Transition(p, g.text[o + 1], a)
<1> SUFFICES Outcome(q, g, o + 1)
  OBVIOUS
<1>1. EmptyLine(g.text, o + 1) /\ g.text[o + 1] = LF
  BY FirstLine DEF EmptyLine
<1>2. /\ Lines(p, g.text, o) /\ LengthRead(p, g, o) /\ TransferRead(p, g, o)
      /\ p.method = g.method /\ {"TRAILING", "SKIPBODY"} \cap p.flags = {} /\ g.u < o
  BY DEF InHeaders
<1>3. p.state \in LineStates \cup {"s_headers_almost_done"}
  BY <1>1, <1>2, Emptied
<1>4. Quiet(p.out)
  BY ReadyTyped, QuietEmpty
<1>5. \/ Failed(q) /\ Same(q, p)
      \/ \E e : Emptying(e, p) /\ q = s_headers_almost_done(e, LF, a)
  BY <1>1, <1>3, HeadEnd
<1> HIDE DEF q
<1>6. CASE Failed(q) /\ Same(q, p)
  BY <1>6 DEF Same, Outcome, Fails
<1>7. ASSUME NEW e, Emptying(e, p), q = s_headers_almost_done(e, LF, a)
      PROVE  Outcome(q, g, o + 1)
  <2> DEFINE x == Answered(e, a)
             d == s_headers_done(x, a)
             f == Fail(e, "UNEXPECTED_CONTENT_LENGTH")
  <2>1. /\ Steady(e) /\ Typed(e) /\ Quiet(e.out) /\ e.type = "REQUEST" /\ e.method = g.method
        /\ {"TRAILING", "SKIPBODY"} \cap e.flags = {} /\ e.content_length = p.content_length
    BY <1>2, <1>7 DEF Emptying, Same, SameLength, Steady
  <2>2. "CHUNKED" \in e.flags <=> g.C # {}
    <3>1. (p.state \in {"s_header_value_lws", "s_header_value_discard_lws"} /\ p.header = "chunked")
          \/ "CHUNKED" \in p.flags <=> g.C # {}
      BY <1>2, TransferOver
    <3> QED BY <1>7, <3>1 DEF Emptying
  <2>3. p.state # "s_header_value"
    BY <1>3 DEF LineStates
  <2>4. q = IF {"TRANSFER_ENCODING", "CONTENTLENGTH"} \subseteq e.flags THEN f
            ELSE IF Failed(x) THEN x ELSE d
    BY <1>7, <2>1 DEF s_headers_almost_done, Answered
  <2>5. /\ IsAnswered(x, e) /\ x.errno = "OK" /\ x.method = e.method
        /\ x.flags = IF a["headers_complete"] = 1 THEN e.flags \cup {"SKIPBODY"} ELSE e.flags
    BY <2>1, AnsweredEffect, AnsweredIs
  <2> HIDE DEF x
  <2>6. Steady(x)
    BY <2>1, <2>5 DEF Steady, IsAnswered, NoMark, Marked
  <2>7. HeadRead(x, g)
    <3>1. x.type = "REQUEST" /\ x.method = g.method /\ ("CHUNKED" \in x.flags <=> g.C # {})
      BY <2>1, <2>2, <2>5 DEF IsAnswered
    <3>2. Quiet(x.out)
      <4> DEFINE v == [cb |-> "headers_complete", n |-> 0, extra |-> 0]
      <4>1. v \in Event /\ v.cb \notin {"url", "message_complete"}
        BY DEF Event, Callbacks
      <4>2. x.out = Append(e.out, v)
        BY <2>5 DEF IsAnswered
      <4> HIDE DEF v
      <4> QED BY <2>1, <4>1, <4>2, QuietGrows DEF Typed
    <3>3. x.content_length = p.content_length
      BY <2>1, <2>5 DEF IsAnswered
    <3>4. /\ p.content_length # ULLONG_MAX => p.content_length = Len(g.text) - g.h
          /\ p.content_length = ULLONG_MAX /\ g.C = {} => Len(g.text) = g.h
      BY <1>2, <2>3, LengthOver
    <3> QED BY <3>1, <3>2, <3>3, <3>4 DEF HeadRead
  <2>8. g.method = "POST" => "SKIPBODY" \notin x.flags
    BY <2>1, <2>5
  <2>9. Outcome(d, g, o + 1)
    BY <2>6, <2>7, <2>8, HeadersDoneGoes
  <2>10. Fails(f)
    BY <2>1 DEF Fails, Fail, Failed, Typed, Fields
  <2>11. ~Failed(x)
    BY <2>5 DEF Failed
  <2> HIDE DEF f, d
  <2> QED BY <2>4, <2>9, <2>10, <2>11 DEF Outcome
<1> QED BY <1>5, <1>6, <1>7

-----------------------------------------------------------------------------
(* The body of a request.                                                  *)

\* A symbol that no callback follows.
LEMMA FailsQuiet ==
    ASSUME NEW p, Ready(p), NEW e \in Errors \ {"OK"}
    PROVE  Fails(Fail(p, e))
BY ReadyTyped, QuietEmpty DEF Fails, Fail, Failed, Typed, Fields

\* Bytes of a body that has a length.
LEMMA BodyStep ==
    ASSUME NEW g, Parsed(g), NEW p, Ready(p), p.type = "REQUEST", NEW o \in Nat,
           InBody(p, g, o), NEW a, NoFailure(a)
    PROVE  Outcome(Transition(p, g.text[o + 1], a), g, o + 1)
<1> DEFINE m == MARK(p, "body")
           q == [m EXCEPT !.content_length = @ - 1]
           d == CALLBACK_DATA_(q, "body", 1, a)
           c == message_complete(d, a)
           t == Transition(p, g.text[o + 1], a)
<1> SUFFICES Outcome(t, g, o + 1)
  OBVIOUS
<1>1. /\ p.state = "s_body_identity" /\ g.C = {} /\ p.content_length = Len(g.text) - o
      /\ g.h <= o /\ o < Len(g.text) /\ g.h \in Nat /\ Len(g.text) \in Nat
  BY FirstLine DEF InBody
<1>2. p.state \in BodyStates /\ "body" \in DataCallbacks /\ "body" \in Callbacks \ {"headers_complete"}
  BY <1>1 DEF BodyStates, DataCallbacks, Callbacks
<1>3. OnlyMark(p, "body") /\ Typed(p) /\ p.errno = "OK" /\ Quiet(p.out)
  BY <1>2, BodyReady, ReadyTyped, QuietEmpty
<1>4. p.content_length \in 1..(ULLONG_MAX - 1)
  BY <1>1 DEF Ready, Control, BodyLeft
<1>5. IsMark(m, p, "body")
  BY <1>2, <1>3, MarkEffect
<1>6. t = IF q.content_length > 0 THEN q ELSE IF Failed(d) THEN d ELSE c
  BY <1>1, Transitions DEF s_body_identity
<1> HIDE DEF m, t
<1>7. m.content_length = p.content_length /\ m.content_length - 1 \in 0..ULLONG_MAX
  BY <1>4, <1>5, HttpParserAssumption DEF IsMark, Kept
<1>8. /\ Typed(q) /\ q.marks = m.marks /\ q.state = p.state /\ q.type = "REQUEST"
      /\ q.errno = "OK" /\ q.content_length = p.content_length - 1 /\ q.out = p.out
  BY <1>3, <1>5, <1>7 DEF IsMark, Kept, Typed, Fields
<1> HIDE DEF q
<1>9. CASE q.content_length > 0
  <2>1. InBody(q, g, o + 1)
    BY <1>1, <1>4, <1>8, <1>9 DEF InBody
  <2> QED BY <1>3, <1>6, <1>8, <1>9, <2>1 DEF Outcome, Goes, Inside
<1>10. CASE ~(q.content_length > 0)
  <2>1. o + 1 = Len(g.text)
    BY <1>1, <1>4, <1>8, <1>10
  <2>2. OnlyMark(q, "body")
    BY <1>5, <1>8 DEF IsMark, OnlyMark, Marked
  <2>3. IsData(d, q, "body", 1, a)
    BY <1>2, <1>8, <2>2, DataEffect
  <2> HIDE DEF d
  <2>4. Typed(d) /\ d.type = "REQUEST" /\ ~Failed(d)
    BY <1>2, <1>8, <2>3 DEF IsData, Kept, NoFailure
  <2>5. Quiet(d.out)
    BY <1>3, <1>8, <2>3, DataKeeps DEF Same
  <2>6. Completes(c, g, o + 1)
    BY <2>1, <2>4, <2>5, MessageCompletes
  <2> QED BY <1>6, <1>10, <2>4, <2>6 DEF Outcome
<1> QED BY <1>9, <1>10

\* Trailers.
LEMMA TrailerStep ==
    ASSUME NEW g, Parsed(g), NEW p, Ready(p), p.type = "REQUEST", NEW o \in Nat,
           NEW e \in Nat, InTrailer(p, g, o, e), FirstEmpty(g.text, e, Len(g.text)),
           NEW a, NoFailure(a)
    PROVE  LET q == Transition(p, g.text[o + 1], a)
           IN  \/ Fails(q) \/ Completes(q, g, o + 1)
               \/ ~Failed(q) /\ Same(q, p) /\ InTrailer(q, g, o + 1, e)
<1> DEFINE q == Transition(p, g.text[o + 1], a)
           Goal(x) == \/ Fails(x) \/ Completes(x, g, o + 1)
                      \/ ~Failed(x) /\ Same(x, p) /\ InTrailer(x, g, o + 1, e)
<1> SUFFICES Goal(q)
  OBVIOUS
<1>1. /\ e <= o /\ o < Len(g.text) /\ "TRAILING" \in p.flags /\ Lines(p, g.text, o)
      /\ Len(g.text) \in Nat /\ p.state \in HeadStates /\ Quiet(p.out)
  BY FirstLine, ReadyTyped, QuietEmpty DEF InTrailer, Lines
<1> HIDE DEF q
<1>2. CASE o + 1 = Len(g.text)
  <2>1. EmptyLine(g.text, o + 1) /\ g.text[o + 1] = LF
    BY <1>2 DEF FirstEmpty, EmptyLine
  <2>2. p.state \in LineStates \cup {"s_headers_almost_done"}
    BY <1>1, <2>1, Emptied
  <2>3. CASE Failed(q) /\ Same(q, p)
    BY <2>3 DEF Same, Fails
  <2>4. ASSUME NEW v, Emptying(v, p), q = s_headers_almost_done(v, LF, a)
        PROVE  Completes(q, g, o + 1)
    <3> DEFINE n == CALLBACK_NOTIFY(v, "chunk_complete", a)
               c == message_complete(n, a)
    <3>1. Typed(v) /\ Quiet(v.out) /\ v.type = "REQUEST" /\ "TRAILING" \in v.flags
      BY <1>1, <2>4 DEF Emptying, Same, Steady
    <3>2. "chunk_complete" \in Callbacks \ {"headers_complete"}
      BY DEF Callbacks
    <3>3. IsCall(n, v, "chunk_complete", 0, 0, a)
      BY <3>1, <3>2, NotifyEffect
    <3>4. q = IF Failed(n) THEN n ELSE c
      BY <2>4, <3>1 DEF s_headers_almost_done
    <3> HIDE DEF n
    <3>5. Typed(n) /\ n.type = "REQUEST" /\ ~Failed(n)
      BY <3>1, <3>2, <3>3 DEF IsCall, Kept, Failed, NoFailure
    <3>6. Quiet(n.out)
      <4> DEFINE w == [cb |-> "chunk_complete", n |-> 0, extra |-> 0]
      <4>1. w \in Event /\ w.cb \notin {"url", "message_complete"}
        BY DEF Event, Callbacks
      <4>2. n.out = Append(v.out, w)
        BY <3>3 DEF IsCall
      <4> HIDE DEF w
      <4> QED BY <3>1, <4>1, <4>2, QuietGrows DEF Typed
    <3>7. Completes(c, g, o + 1)
      BY <1>2, <3>5, <3>6, MessageCompletes
    <3> QED BY <3>4, <3>5, <3>7
  <2>5. \/ Failed(q) /\ Same(q, p)
        \/ \E v : Emptying(v, p) /\ q = s_headers_almost_done(v, LF, a)
    BY <2>1, <2>2, HeadEnd DEF q
  <2> QED BY <2>3, <2>4, <2>5
<1>3. CASE o + 1 # Len(g.text)
  <2>1. o + 1 \in (e + 1)..(Len(g.text) - 1)
    BY <1>1, <1>3
  <2>2. ~EmptyLine(g.text, o + 1)
    BY <2>1 DEF FirstEmpty
  <2>3. g.text[o + 1] = LF => p.state \notin LineStates \cup {"s_headers_almost_done"}
    BY <1>1, <2>2, Emptied
  <2>4. HeadMove(q, p, g.text[o + 1])
    BY <1>1, <2>3, HeadTransition DEF q
  <2>5. Same(q, p)
    BY <2>4 DEF HeadMove
  <2>6. ASSUME ~Failed(q) PROVE InTrailer(q, g, o + 1, e)
    <3>1. Lines(q, g.text, o + 1)
      BY <1>1, <2>2, <2>4, <2>6, LinesMove
    <3> QED BY <1>1, <2>1, <2>5, <3>1 DEF InTrailer, Same
  <2> QED BY <2>5, <2>6 DEF Fails, Same
<1> QED BY <1>2, <1>3

-----------------------------------------------------------------------------
(* A body in chunks.                                                       *)

LEMMA Digits16 ==
    /\ DOMAIN unhex = Hex /\ \A d \in Hex : unhex[d] \in 0..15
    /\ {CR, LF, Blank, ";"} \cap Hex = {}
<1>1. \A d \in Hex : unhex[d] = IF d \in Num THEN Digit[d] ELSE 12
  BY DEF unhex
<1>2. \A d \in Num : Digit[d] \in 0..15
  BY Digits10
<1>3. {CR, LF, Blank, ";"} \cap Hex = {}
  BY DEF Hex, Num, CR, LF, Blank
<1>4. DOMAIN unhex = Hex
  BY DEF unhex
<1>5. \A d \in Hex : unhex[d] \in 0..15
  BY <1>1, <1>2
<1> QED BY <1>3, <1>4, <1>5

\* A chunk that begins at c, with its size v at d and its line at e.
AtChunk(g, c, d, e, v) ==
    /\ g.C # {} /\ c \in g.C /\ d \in c..Len(g.text) /\ e \in c..Len(g.text)
    /\ Chunk(g.text, c, d, e) /\ v = Number(g.text, c, d, unhex, 16) /\ Continues(g, e, v)

LEMMA ChunkIs ==
    ASSUME NEW g, Parsed(g), NEW c, NEW d, NEW e, NEW v, AtChunk(g, c, d, e, v)
    PROVE  /\ g.h \in Nat /\ Len(g.text) \in Nat /\ c \in Nat /\ d \in Nat /\ e \in Nat
           /\ g.h < c /\ c <= d /\ d + 2 <= e /\ e < Len(g.text) /\ v \in Nat
           /\ v > 0 => e + v + 3 <= Len(g.text)
           /\ \A z \in c..d : /\ g.text[z] \in Hex /\ Valued(g.text, c, z, unhex)
                              /\ Number(g.text, c, z, unhex, 16) \in Nat
<1>1. g.h \in Nat /\ Len(g.text) \in Nat /\ g.text \in Seq(STRING)
  BY FirstLine DEF Parsed
<1>2. /\ Chunked(g.text, g.h, g.C) /\ Chunk(g.text, c, d, e) /\ Continues(g, e, v)
      /\ c \in (g.h + 1)..Len(g.text) /\ d \in c..Len(g.text) /\ e \in c..Len(g.text)
  BY DEF AtChunk, Parsed, Chunked
<1>3. c \in Nat /\ d \in Nat /\ e \in Nat /\ g.h < c /\ c <= d /\ d + 2 <= e /\ c >= 1
  BY <1>1, <1>2 DEF Chunk
<1>4. ASSUME NEW z \in c..d
      PROVE  /\ g.text[z] \in Hex /\ Valued(g.text, c, z, unhex)
             /\ Number(g.text, c, z, unhex, 16) \in Nat
  <2>1. \A i \in c..d : g.text[i] \in Hex
    BY <1>2, Digits16 DEF Chunk, Numeral
  <2>2. Valued(g.text, c, z, unhex)
    <3>1. \A i \in c..z : i \in c..d
      BY <1>3
    <3>2. \A x \in Hex : unhex[x] \in Nat
      <4> TAKE x \in Hex
      <4>1. unhex[x] \in 0..15
        BY Digits16
      <4> QED BY <4>1
    <3> QED BY <2>1, <3>1, <3>2 DEF Valued
  <2>3. c \in 1..Len(g.text) /\ z \in c..Len(g.text) /\ 16 \in Bases
    BY <1>1, <1>2, <1>3 DEF Bases
  <2> QED BY <1>1, <2>1, <2>2, <2>3, NumberGrows
<1>5. d \in c..d /\ v = Number(g.text, c, d, unhex, 16)
  BY <1>3 DEF AtChunk
<1>6. v \in Nat
  BY <1>4, <1>5
<1>7. v > 0 => e + v + 3 <= Len(g.text)
  BY <1>2 DEF Continues, Chunked
<1>8. e < Len(g.text)
  <2>1. CASE v = 0
    BY <1>1, <1>2, <1>3, <2>1 DEF Continues, FirstEmpty
  <2>2. CASE v > 0
    BY <1>1, <1>3, <1>6, <1>7, <2>2
  <2> QED BY <1>6, <2>1, <2>2
<1> QED BY <1>1, <1>3, <1>4, <1>6, <1>7, <1>8

LEMMA ChunkGoes ==
    ASSUME NEW g, Parsed(g), NEW c, NEW d, NEW e, NEW v, AtChunk(g, c, d, e, v),
           NEW q, q.type = "REQUEST", Quiet(q.out), NEW o \in Nat, g.h <= o, o < Len(g.text),
           InSize(q, g, o, c, d, e, v) \/ (v > 0 /\ InData(q, o, e, v))
             \/ (v = 0 /\ InTrailer(q, g, o, e))
    PROVE  Goes(q, g, o)
<1>1. v = Number(g.text, c, d, unhex, 16)
  BY DEF AtChunk
<1>2. InPart(q, g, o, c, d, e, v)
  BY DEF AtChunk, InPart
<1>3. InChunk(q, g, o)
  BY <1>1, <1>2 DEF InChunk, AtChunk
<1> QED BY <1>3 DEF Goes, Inside

LEMMA ChunkBegins ==
    ASSUME NEW g, Parsed(g), NEW p, Ready(p), p.type = "REQUEST", NEW o \in Nat,
           g.C # {}, o + 1 \in g.C, p.state = "s_chunk_size_start", NEW a
    PROVE  Outcome(Transition(p, g.text[o + 1], a), g, o + 1)
<1> DEFINE c == o + 1
           n == unhex[g.text[c]]
           q == [p EXCEPT !.content_length = n, !.state = "s_chunk_size"]
<1>1. Chunked(g.text, g.h, g.C)
  BY DEF Parsed
<1>2. PICK d \in c..Len(g.text), e \in c..Len(g.text) :
         /\ Chunk(g.text, c, d, e)
         /\ LET v == Number(g.text, c, d, unhex, 16)
            IN  \/ v = 0 /\ FirstEmpty(g.text, e, Len(g.text))
                \/ v > 0 /\ e + v + 3 \in g.C /\ g.text[e + v + 1] = CR /\ g.text[e + v + 2] = LF
  BY <1>1 DEF Chunked
<1>3. PICK v : v = Number(g.text, c, d, unhex, 16)
  OBVIOUS
<1>4. AtChunk(g, c, d, e, v)
  BY <1>2, <1>3 DEF AtChunk, Continues
<1>5. /\ g.h \in Nat /\ Len(g.text) \in Nat /\ c \in Nat /\ d \in Nat /\ e \in Nat
      /\ g.h < c /\ c <= d /\ d + 2 <= e /\ e < Len(g.text)
      /\ g.text[c] \in Hex /\ Valued(g.text, c, c, unhex)
  <2>1. c \in c..d
    BY <1>2
  <2> HIDE DEF c
  <2> QED BY <1>4, <2>1, ChunkIs
<1>6. n = Number(g.text, c, c, unhex, 16)
  <2>1. c \in 1..Len(g.text) /\ c \in c..Len(g.text) /\ 16 \in Bases /\ g.text \in Seq(STRING)
    BY <1>5 DEF Bases, Parsed
  <2> HIDE DEF c
  <2> QED BY <1>5, <2>1, NumberGrows
<1>7. Transition(p, g.text[c], a) = q
  <2>1. Transition(p, g.text[c], a) = s_chunk_size_start(p, g.text[c])
    BY Transitions
  <2> QED BY <1>5, <2>1 DEF s_chunk_size_start
<1>8. /\ q.type = "REQUEST" /\ Quiet(q.out) /\ q.state = "s_chunk_size" /\ q.content_length = n
  <2> HIDE DEF n
  <2> QED BY ReadyTyped, QuietEmpty DEF Typed, Fields
<1> HIDE DEF q, n
<1>9. InSize(q, g, c, c, d, e, v)
  <2>1. c \in c..d
    BY <1>5
  <2> HIDE DEF c
  <2> QED BY <1>6, <1>8, <2>1 DEF InSize
<1>10. Goes(q, g, c)
  <2>1. g.h <= c /\ c < Len(g.text)
    BY <1>5
  <2> HIDE DEF c
  <2> QED BY <1>4, <1>5, <1>8, <1>9, <2>1, ChunkGoes
<1> QED BY <1>7, <1>10 DEF Outcome

\* The digits of the size.
LEMMA SizeStep ==
    ASSUME NEW g, Parsed(g), NEW c, NEW d, NEW e, NEW v, AtChunk(g, c, d, e, v),
           NEW p, Ready(p), p.type = "REQUEST", NEW o \in Nat, o \in c..d,
           p.state = "s_chunk_size", p.content_length = Number(g.text, c, o, unhex, 16), NEW a
    PROVE  Outcome(Transition(p, g.text[o + 1], a), g, o + 1)
<1> DEFINE ch == g.text[o + 1]
           q == Transition(p, ch, a)
           x == Digits(p, 16, unhex[ch])
<1> SUFFICES Outcome(q, g, o + 1)
  OBVIOUS
<1>1. /\ g.h \in Nat /\ Len(g.text) \in Nat /\ c \in Nat /\ d \in Nat /\ e \in Nat
      /\ g.h < c /\ c <= d /\ d + 2 <= e /\ e < Len(g.text)
  BY ChunkIs
<1>2. /\ g.h <= o + 1 /\ o + 1 < Len(g.text) /\ o + 1 \in Nat /\ o <= d /\ c <= o
  BY <1>1
<1>3. Typed(p) /\ p.errno = "OK" /\ Quiet(p.out)
  BY ReadyTyped, QuietEmpty
<1>4. q = CASE ch = CR -> Goto(p, "s_chunk_size_almost_done")
            [] ch \in Hex -> x
            [] ch \in {";", Blank} -> Goto(p, "s_chunk_parameters")
            [] OTHER -> Fail(p, "INVALID_CHUNK_SIZE")
  <2>1. q = s_chunk_size(p, ch)
    BY Transitions
  <2> QED BY <2>1 DEF s_chunk_size
<1>5. CR \notin Hex /\ ";" \notin Hex /\ Blank \notin Hex /\ CR # ";" /\ CR # Blank
  <2>1. CR \notin Hex /\ ";" \notin Hex /\ Blank \notin Hex
    BY Digits16
  <2> QED BY <2>1 DEF CR, Blank
<1> HIDE DEF q
<1>6. CASE o < d
  <2>1. o + 1 \in c..d
    BY <1>1, <1>2, <1>6
  <2>2. ch \in Hex /\ Valued(g.text, c, o + 1, unhex)
    BY <2>1, ChunkIs
  <2>3. unhex[ch] \in 0..(16 - 1) /\ 16 \in {10, 16}
    <3>1. unhex[ch] \in 0..15
      BY <2>2, Digits16
    <3> QED BY <3>1
  <2>4. IsDigits(x, p, 16, unhex[ch])
    BY <1>3, <2>3, DigitsEffect
  <2>5. q = x
    BY <1>4, <1>5, <2>2
  <2>6. Number(g.text, c, o + 1, unhex, 16) = p.content_length * 16 + unhex[ch]
    <3>1. PICK z \in Nat : z = o + 1
      BY <1>2
    <3>2. c \in 1..Len(g.text) /\ z \in c..Len(g.text) /\ 16 \in Bases /\ g.text \in Seq(STRING)
          /\ c < z /\ z - 1 = o /\ Valued(g.text, c, z, unhex)
      BY <1>1, <1>2, <2>2, <3>1 DEF Bases, Parsed
    <3>3. Number(g.text, c, z, unhex, 16)
            = Number(g.text, c, z - 1, unhex, 16) * 16 + unhex[g.text[z]]
      BY <3>2, NumberGrows
    <3> QED BY <3>1, <3>2, <3>3
  <2> HIDE DEF x
  <2>7. Quiet(x.out) /\ x.type = "REQUEST" /\ x.state = "s_chunk_size"
    BY <1>3, <2>4 DEF IsDigits, IsQuiet
  <2>8. CASE x.errno = "INVALID_CONTENT_LENGTH"
    BY <2>5, <2>7, <2>8 DEF Outcome, Fails, Failed
  <2>9. CASE x.content_length = p.content_length * 16 + unhex[ch]
    <3>1. InSize(x, g, o + 1, c, d, e, v)
      BY <2>1, <2>6, <2>7, <2>9 DEF InSize
    <3>2. Goes(x, g, o + 1)
      BY <1>2, <2>7, <3>1, ChunkGoes
    <3> QED BY <2>5, <3>2 DEF Outcome
  <2> QED BY <2>4, <2>8, <2>9 DEF IsDigits
<1>7. CASE o = d
  <2>1. /\ ch \notin Hex /\ \A k \in (d + 1)..(e - 2) : g.text[k] # CR
        /\ g.text[e - 1] = CR
    BY <1>7 DEF AtChunk, Chunk
  <2>2. p.content_length = v
    BY <1>7 DEF AtChunk
  <2>3. CASE ch = CR
    <3> DEFINE r == Goto(p, "s_chunk_size_almost_done")
    <3>1. o + 1 = e - 1
      <4>1. d + 1 \notin (d + 1)..(e - 2)
        BY <1>7, <2>1, <2>3
      <4> QED BY <1>1, <1>7, <4>1
    <3>2. r.state = "s_chunk_size_almost_done" /\ r.type = "REQUEST" /\ Quiet(r.out)
          /\ r.content_length = v
      BY <1>3, <2>2 DEF Goto, Typed, Fields
    <3>3. q = r
      BY <1>4, <1>5, <2>3
    <3> HIDE DEF r
    <3>4. InSize(r, g, o + 1, c, d, e, v)
      BY <3>1, <3>2 DEF InSize
    <3> QED BY <1>2, <3>2, <3>3, <3>4, ChunkGoes DEF Outcome
  <2>4. CASE ch \in {";", Blank}
    <3> DEFINE r == Goto(p, "s_chunk_parameters")
    <3>1. o + 1 \in (d + 1)..(e - 2)
      <4>1. d + 1 # e - 1
        BY <1>5, <1>7, <2>1, <2>4
      <4> QED BY <1>1, <1>7, <4>1
    <3>2. r.state = "s_chunk_parameters" /\ r.type = "REQUEST" /\ Quiet(r.out)
          /\ r.content_length = v
      BY <1>3, <2>2 DEF Goto, Typed, Fields
    <3>3. q = r
      BY <1>4, <1>5, <2>1, <2>4
    <3> HIDE DEF r
    <3>4. InSize(r, g, o + 1, c, d, e, v)
      BY <3>1, <3>2 DEF InSize
    <3> QED BY <1>2, <3>2, <3>3, <3>4, ChunkGoes DEF Outcome
  <2>5. CASE ch \notin {CR, ";", Blank}
    <3>1. q = Fail(p, "INVALID_CHUNK_SIZE") /\ "INVALID_CHUNK_SIZE" \in Errors \ {"OK"}
      BY <1>4, <2>1, <2>5 DEF Errors
    <3> QED BY <3>1, FailsQuiet DEF Outcome
  <2> QED BY <2>3, <2>4, <2>5
<1> QED BY <1>1, <1>2, <1>6, <1>7

\* What follows the size in its line.
LEMMA ParametersStep ==
    ASSUME NEW g, Parsed(g), NEW c, NEW d, NEW e, NEW v, AtChunk(g, c, d, e, v),
           NEW p, Ready(p), p.type = "REQUEST", NEW o \in Nat, o \in (d + 1)..(e - 2),
           p.state = "s_chunk_parameters", p.content_length = v, NEW a
    PROVE  Outcome(Transition(p, g.text[o + 1], a), g, o + 1)
<1> DEFINE ch == g.text[o + 1]
           r == Goto(p, "s_chunk_size_almost_done")
<1>1. /\ g.h \in Nat /\ Len(g.text) \in Nat /\ c \in Nat /\ d \in Nat /\ e \in Nat
      /\ g.h < c /\ c <= d /\ d + 2 <= e /\ e < Len(g.text)
  BY ChunkIs
<1>2. /\ g.h <= o + 1 /\ o + 1 < Len(g.text) /\ o + 1 \in Nat /\ o + 1 \in (d + 1)..(e - 1)
  BY <1>1
<1>3. Typed(p) /\ Quiet(p.out)
  BY ReadyTyped, QuietEmpty
<1>4. Transition(p, ch, a) = IF ch = CR THEN r ELSE p
  <2>1. Transition(p, ch, a) = s_chunk_parameters(p, ch)
    BY Transitions
  <2> QED BY <2>1 DEF s_chunk_parameters
<1>5. /\ \A k \in (d + 1)..(e - 2) : g.text[k] # CR
      /\ g.text[e - 1] = CR
  BY DEF AtChunk, Chunk
<1>6. CASE ch = CR
  <2>1. o + 1 = e - 1
    BY <1>1, <1>2, <1>5, <1>6
  <2>2. r.state = "s_chunk_size_almost_done" /\ r.type = "REQUEST" /\ Quiet(r.out)
        /\ r.content_length = v
    BY <1>3 DEF Goto, Typed, Fields
  <2> HIDE DEF r
  <2>3. InSize(r, g, o + 1, c, d, e, v)
    BY <2>1, <2>2 DEF InSize
  <2> QED BY <1>2, <1>4, <1>6, <2>2, <2>3, ChunkGoes DEF Outcome
<1>7. CASE ch # CR
  <2>1. o + 1 \in (d + 1)..(e - 2)
    BY <1>1, <1>2, <1>5, <1>7
  <2>2. InSize(p, g, o + 1, c, d, e, v)
    BY <2>1 DEF InSize
  <2> QED BY <1>2, <1>3, <1>4, <1>7, <2>2, ChunkGoes DEF Outcome
<1> QED BY <1>6, <1>7

\* The end of the line of the size: bytes follow, or trailers.
LEMMA SizeEnds ==
    ASSUME NEW g, Parsed(g), NEW c, NEW d, NEW e, NEW v, AtChunk(g, c, d, e, v),
           NEW p, Ready(p), p.type = "REQUEST", NEW o \in Nat, o = e - 1,
           p.state = "s_chunk_size_almost_done", p.content_length = v, NEW a, NoFailure(a)
    PROVE  Outcome(Transition(p, g.text[o + 1], a), g, o + 1)
<1> DEFINE last == p.content_length = 0
           f == IF last THEN p.flags \cup {"TRAILING"} ELSE p.flags
           s == IF last THEN "s_header_field_start" ELSE "s_chunk_data"
           r == [p EXCEPT !.flags = f, !.state = s]
           n == CALLBACK_NOTIFY(r, "chunk_header", a)
           w == [cb |-> "chunk_header", n |-> 0, extra |-> 0]
<1>1. /\ g.h \in Nat /\ Len(g.text) \in Nat /\ e \in Nat /\ v \in Nat
      /\ g.h <= e /\ e < Len(g.text) /\ o + 1 = e
  BY ChunkIs
<1>2. g.text[e] = LF /\ Continues(g, e, v)
  BY DEF AtChunk, Chunk
<1>3. Typed(p) /\ Quiet(p.out)
  BY ReadyTyped, QuietEmpty
<1>4. Transition(p, LF, a) = n
  <2>1. Transition(p, LF, a) = s_chunk_size_almost_done(p, LF, a)
    BY Transitions
  <2> QED BY <2>1 DEF s_chunk_size_almost_done
<1>5. /\ f \in SUBSET Flags /\ s \in States
      /\ "chunk_header" \in Callbacks \ {"headers_complete"}
  BY <1>3 DEF Typed, Flags, States, Callbacks
<1>6. w \in Event /\ w.cb \notin {"url", "message_complete"}
  BY DEF Event, Callbacks
<1>7. (last => "TRAILING" \in f /\ s = "s_header_field_start") /\ (~last => s = "s_chunk_data")
  OBVIOUS
<1> HIDE DEF f, s
<1>8. /\ Typed(r) /\ r.type = "REQUEST" /\ r.out = p.out /\ r.flags = f /\ r.state = s
      /\ r.content_length = v
  BY <1>3, <1>5 DEF Typed, Fields
<1> HIDE DEF r
<1>9. IsCall(n, r, "chunk_header", 0, 0, a)
  BY <1>5, <1>8, NotifyEffect
<1> HIDE DEF n
<1>10. /\ n.type = "REQUEST" /\ n.flags = f /\ n.state = s /\ n.content_length = v
       /\ n.out = Append(p.out, w)
  BY <1>8, <1>9 DEF IsCall, Kept
<1> HIDE DEF w
<1>11. Quiet(n.out)
  BY <1>3, <1>6, <1>10, QuietGrows DEF Typed
<1>12. CASE v = 0
  <2>1. n.state = "s_header_field_start" /\ "TRAILING" \in n.flags
    BY <1>7, <1>10, <1>12
  <2>2. Lines(n, g.text, e)
    BY <1>2, <2>1, Symbols DEF Lines, HeadStates, LineStates
  <2>3. InTrailer(n, g, e, e)
    BY <1>1, <2>1, <2>2 DEF InTrailer
  <2>4. Goes(n, g, e)
    BY <1>1, <1>10, <1>11, <1>12, <2>3, ChunkGoes
  <2> QED BY <1>1, <1>2, <1>4, <2>4 DEF Outcome
<1>13. CASE v # 0
  <2>1. n.state = "s_chunk_data" /\ e \in e..(e + v - 1) /\ n.content_length = e + v - e /\ v > 0
    BY <1>1, <1>7, <1>10, <1>13
  <2>2. InData(n, e, e, v)
    BY <2>1 DEF InData
  <2>3. Goes(n, g, e)
    BY <1>1, <1>10, <1>11, <2>1, <2>2, ChunkGoes
  <2> QED BY <1>1, <1>2, <1>4, <2>3 DEF Outcome
<1> QED BY <1>12, <1>13

\* The bytes of a chunk, and the end of the line after them.
LEMMA DataStep ==
    ASSUME NEW g, Parsed(g), NEW c, NEW d, NEW e, NEW v, AtChunk(g, c, d, e, v), v > 0,
           NEW p, Ready(p), p.type = "REQUEST", NEW o \in Nat, InData(p, o, e, v),
           NEW a, NoFailure(a)
    PROVE  Outcome(Transition(p, g.text[o + 1], a), g, o + 1)
<1> DEFINE t == Transition(p, g.text[o + 1], a)
<1> SUFFICES Outcome(t, g, o + 1)
  OBVIOUS
<1>1. /\ g.h \in Nat /\ Len(g.text) \in Nat /\ e \in Nat /\ v \in Nat
      /\ g.h <= e /\ e + v + 3 <= Len(g.text)
  BY ChunkIs
<1>2. /\ e + v + 3 \in g.C /\ g.text[e + v + 1] = CR /\ g.text[e + v + 2] = LF /\ g.C # {}
  BY <1>1 DEF AtChunk, Continues
<1>3. Typed(p) /\ Quiet(p.out) /\ p.errno = "OK" /\ "body" \in DataCallbacks
  BY ReadyTyped, QuietEmpty DEF DataCallbacks
<1>4. CASE p.state = "s_chunk_data" /\ o \in e..(e + v - 1) /\ p.content_length = e + v - o
  <2> DEFINE m == MARK(p, "body")
             q == [m EXCEPT !.content_length = @ - 1]
             r == Goto(q, "s_chunk_data_almost_done")
  <2>1. p.state \in BodyStates
    BY <1>4 DEF BodyStates
  <2>2. OnlyMark(p, "body")
    BY <2>1, BodyReady
  <2>3. IsMark(m, p, "body")
    BY <1>3, <2>2, MarkEffect
  <2>4. t = IF q.content_length = 0 THEN r ELSE q
    <3>1. t = s_chunk_data(p, g.text[o + 1])
      BY <1>4, Transitions
    <3> QED BY <3>1 DEF s_chunk_data
  <2> HIDE DEF m, t
  <2>5. /\ DOMAIN m = Fields /\ m.content_length = e + v - o /\ m.type = "REQUEST"
        /\ m.out = p.out /\ m.state = "s_chunk_data"
    BY <1>4, <2>3 DEF IsMark, Kept, Typed
  <2>6. /\ DOMAIN q = Fields /\ q.content_length = e + v - o - 1 /\ q.type = "REQUEST"
        /\ q.out = p.out /\ q.state = "s_chunk_data"
    <3> DEFINE k == m.content_length - 1
    <3>1. k = e + v - o - 1
      BY <1>1, <2>5
    <3> HIDE DEF k
    <3> QED BY <2>5, <3>1 DEF Fields, k
  <2> HIDE DEF q
  <2>7. r.type = "REQUEST" /\ r.out = p.out /\ r.state = "s_chunk_data_almost_done"
    BY <2>6 DEF Goto, Fields
  <2> HIDE DEF r
  <2>8. g.h <= o + 1 /\ o + 1 < Len(g.text) /\ o + 1 \in Nat
    BY <1>1, <1>4
  <2>9. CASE q.content_length = 0
    <3>1. q.content_length = e + v - o - 1
      BY <2>6
    <3>2. o + 1 = e + v
      BY <1>1, <2>9, <3>1
    <3>3. InData(r, o + 1, e, v)
      BY <2>7, <3>2 DEF InData
    <3> QED BY <1>3, <2>4, <2>7, <2>8, <2>9, <3>3, ChunkGoes DEF Outcome
  <2>10. CASE q.content_length # 0
    <3>1. o + 1 \in e..(e + v - 1) /\ q.content_length = e + v - (o + 1)
      <4>1. o >= e /\ o <= e + v - 1 /\ e + v - o - 1 # 0 /\ o + 1 \in Int /\ e + v - 1 \in Int
        BY <1>1, <1>4, <2>6, <2>10
      <4>2. o + 1 >= e /\ o + 1 <= e + v - 1 /\ e + v - o - 1 = e + v - (o + 1)
        BY <1>1, <4>1
      <4> QED BY <1>1, <2>6, <4>1, <4>2
    <3>2. InData(q, o + 1, e, v)
      BY <2>6, <3>1 DEF InData
    <3> QED BY <1>3, <2>4, <2>6, <2>8, <2>10, <3>2, ChunkGoes DEF Outcome
  <2> QED BY <2>9, <2>10
<1>5. CASE p.state = "s_chunk_data_almost_done" /\ o = e + v
  <2> DEFINE r == Goto(p, "s_chunk_data_done")
             q == CALLBACK_DATA(r, "body", a)
  <2>1. p.state \in BodyStates /\ "s_chunk_data_done" \in States /\ 0 \in {0, 1}
    BY <1>5 DEF BodyStates, States
  <2>2. /\ Typed(r) /\ r.marks = p.marks /\ r.errno = "OK" /\ r.type = "REQUEST"
        /\ r.out = p.out /\ r.state = "s_chunk_data_done"
    BY <1>3, <2>1 DEF Goto, Typed, Fields
  <2>3. t = q
    <3>1. t = s_chunk_data_almost_done(p, CR, a)
      BY <1>2, <1>5, Transitions
    <3> QED BY <3>1 DEF s_chunk_data_almost_done
  <2> HIDE DEF r, t
  <2>4. OnlyMark(r, "body")
    BY <2>1, <2>2, BodyReady DEF OnlyMark, Marked
  <2>5. IsData(q, r, "body", 0, a)
    BY <1>3, <2>1, <2>2, <2>4, DataEffect DEF CALLBACK_DATA
  <2> HIDE DEF q
  <2>6. Same(q, r)
    BY <1>3, <2>1, <2>2, <2>5, DataKeeps
  <2>7. Quiet(q.out) /\ q.type = "REQUEST" /\ q.state = "s_chunk_data_done"
    BY <2>2, <2>5, <2>6 DEF Same, IsData, Kept
  <2>8. InData(q, o + 1, e, v) /\ g.h <= o + 1 /\ o + 1 < Len(g.text)
    BY <1>1, <1>5, <2>7 DEF InData
  <2> QED BY <2>3, <2>7, <2>8, ChunkGoes DEF Outcome
<1>6. CASE p.state = "s_chunk_data_done" /\ o = e + v + 1
  <2> DEFINE r == Goto(p, "s_chunk_size_start")
             n == CALLBACK_NOTIFY(r, "chunk_complete", a)
             w == [cb |-> "chunk_complete", n |-> 0, extra |-> 0]
  <2>1. "s_chunk_size_start" \in States /\ "chunk_complete" \in Callbacks
    BY DEF Callbacks, States
  <2>2. w \in Event /\ w.cb \notin {"url", "message_complete"}
    BY DEF Event, Callbacks
  <2>3. /\ Typed(r) /\ r.type = "REQUEST" /\ r.out = p.out /\ r.state = "s_chunk_size_start"
    BY <1>3, <2>1 DEF Goto, Typed, Fields
  <2>4. t = n
    <3>1. g.text[o + 1] = LF
      BY <1>1, <1>2, <1>6
    <3>2. t = s_chunk_data_done(p, LF, a)
      BY <1>6, <3>1, Transitions
    <3> QED BY <3>2 DEF s_chunk_data_done
  <2> HIDE DEF r, t
  <2>5. IsCall(n, r, "chunk_complete", 0, 0, a)
    BY <2>1, <2>3, NotifyEffect
  <2> HIDE DEF n
  <2>6. n.type = "REQUEST" /\ n.state = "s_chunk_size_start" /\ n.out = Append(p.out, w)
    BY <2>3, <2>5 DEF IsCall, Kept
  <2> HIDE DEF w
  <2>7. Quiet(n.out)
    BY <1>3, <2>2, <2>6, QuietGrows DEF Typed
  <2>8. o + 1 + 1 \in g.C /\ g.h <= o + 1 /\ o + 1 < Len(g.text)
    BY <1>1, <1>2, <1>6
  <2>9. InChunk(n, g, o + 1)
    BY <1>2, <2>6, <2>8 DEF InChunk
  <2> QED BY <2>4, <2>6, <2>7, <2>9 DEF Outcome, Goes, Inside
<1> QED BY <1>4, <1>5, <1>6 DEF InData

LEMMA ChunkStep ==
    ASSUME NEW g, Parsed(g), NEW p, Ready(p), p.type = "REQUEST", NEW o \in Nat,
           InChunk(p, g, o), NEW a, NoFailure(a)
    PROVE  Outcome(Transition(p, g.text[o + 1], a), g, o + 1)
<1> DEFINE t == Transition(p, g.text[o + 1], a)
<1> SUFFICES Outcome(t, g, o + 1)
  OBVIOUS
<1>1. g.C # {}
  BY DEF InChunk
<1>2. CASE p.state = "s_chunk_size_start" /\ o + 1 \in g.C
  BY <1>1, <1>2, ChunkBegins
<1>3. ASSUME NEW c \in g.C, NEW d \in c..Len(g.text), NEW e \in c..Len(g.text), NEW v,
             InPart(p, g, o, c, d, e, v)
      PROVE  Outcome(t, g, o + 1)
  <2>1. AtChunk(g, c, d, e, v)
    BY <1>1, <1>3 DEF InPart, AtChunk
  <2>2. /\ c \in Nat /\ d \in Nat /\ e \in Nat /\ v \in Nat /\ g.h \in Nat /\ g.h < e
        /\ Len(g.text) \in Nat
    BY <2>1, ChunkIs
  <2>3. CASE InSize(p, g, o, c, d, e, v)
    BY <2>1, <2>3, SizeStep, ParametersStep, SizeEnds DEF InSize
  <2>4. CASE v > 0 /\ InData(p, o, e, v)
    BY <2>1, <2>4, DataStep
  <2>5. CASE v = 0 /\ InTrailer(p, g, o, e)
    <3>1. FirstEmpty(g.text, e, Len(g.text)) /\ g.h <= o /\ o < Len(g.text)
      BY <2>1, <2>2, <2>5 DEF AtChunk, Continues, InTrailer
    <3>2. \/ Fails(t) \/ Completes(t, g, o + 1)
          \/ ~Failed(t) /\ Same(t, p) /\ InTrailer(t, g, o + 1, e)
      BY <2>2, <2>5, <3>1, TrailerStep
    <3> HIDE DEF t
    <3>3. ASSUME Same(t, p), InTrailer(t, g, o + 1, e) PROVE Goes(t, g, o + 1)
      <4>1. t.type = "REQUEST" /\ Quiet(t.out) /\ g.h <= o + 1 /\ o + 1 < Len(g.text)
        BY <2>2, <3>1, <3>3 DEF Same, InTrailer
      <4> QED BY <2>1, <2>5, <3>3, <4>1, ChunkGoes
    <3> QED BY <3>2, <3>3 DEF Outcome
  <2> QED BY <1>3, <2>3, <2>4, <2>5 DEF InPart
<1> HIDE DEF t
<1> QED BY <1>2, <1>3 DEF InChunk

-----------------------------------------------------------------------------
(* The line of a request.                                                  *)

\* The name of the method, and the blank after it.
LEMMA MethodStep ==
    ASSUME NEW g, Parsed(g), NEW p, Ready(p), NEW o \in {1, 2}, InMethod(p, g, o), NEW a
    PROVE  LET q == Transition(p, g.text[o + 1], a)
           IN  InMethod(q, g, o + 1) /\ q.type = p.type /\ Quiet(q.out)
<1> DEFINE q == Transition(p, g.text[o + 1], a)
           Goal(x) == InMethod(x, g, o + 1) /\ x.type = p.type /\ Quiet(x.out)
<1> SUFFICES Goal(q)
  OBVIOUS
<1>1. /\ p.state = "s_req_method" /\ p.flags = {} /\ p.content_length = ULLONG_MAX
      /\ o = 1 => p.index = 1 /\ p.method = FirstLetter[g.text[1]]
      /\ o = 2 => p.index = 2 /\ p.method = g.method
  BY DEF InMethod
<1>2. Typed(p) /\ Quiet(p.out)
  BY ReadyTyped, QuietEmpty
<1>3. g.method \in DOMAIN Spelling /\ Spelling[g.method] = <<g.text[1], g.text[2]>>
      /\ g.text[3] = Blank
  BY DEF Parsed
<1>4. q = s_req_method(p, g.text[o + 1])
  BY <1>1, Transitions
<1> HIDE DEF q
<1>5. CASE o = 1
  <2> DEFINE r == [p EXCEPT !.index = 2]
             s == [p EXCEPT !.method = "PUT", !.index = 2]
  <2>1. \/ p.method = g.method /\ g.text[2] = method_strings[p.method]
        \/ p.method = "POST" /\ g.text[2] = "UT" /\ g.method = "PUT"
           /\ g.text[2] # method_strings[p.method]
    <3>1. g.method \in {"GET", "POST", "PUT", "HEAD", "CONNECT", "TRACE"}
      BY <1>3 DEF Spelling
    <3> QED BY <1>1, <1>3, <1>5, <3>1 DEF Spelling, FirstLetter, method_strings
  <2>2. p.index = 1
    BY <1>1, <1>5
  <2>3. q = IF g.text[2] = method_strings[p.method] THEN r ELSE s
    <3>1. method_strings["POST"] # "UT" /\ o + 1 = 2
      BY <1>5 DEF method_strings
    <3>2. q = s_req_method(p, g.text[2])
      BY <1>4, <3>1
    <3>3. s_req_method(p, g.text[2]) =
            CASE p.index = 2 /\ g.text[2] = Blank -> Goto(p, "s_req_spaces_before_url")
              [] p.index = 1 /\ g.text[2] = method_strings[p.method] -> r
              [] p.index = 1 /\ p.method = "POST" /\ g.text[2] = "UT" -> s
              [] OTHER -> Fail(p, "INVALID_METHOD")
      BY DEF s_req_method
    <3> HIDE DEF r, s
    <3> QED BY <2>1, <2>2, <3>1, <3>2, <3>3
  <2>4. /\ r.index = 2 /\ r.method = p.method /\ r.state = p.state /\ r.flags = p.flags
        /\ r.content_length = p.content_length /\ r.type = p.type /\ r.out = p.out
        /\ s.index = 2 /\ s.method = "PUT" /\ s.state = p.state /\ s.flags = p.flags
        /\ s.content_length = p.content_length /\ s.type = p.type /\ s.out = p.out
    BY <1>2 DEF Typed, Fields
  <2> HIDE DEF r, s
  <2>5. /\ q.index = 2 /\ q.method = g.method /\ q.state = "s_req_method" /\ q.flags = {}
        /\ q.content_length = ULLONG_MAX /\ q.type = p.type /\ q.out = p.out
    BY <1>1, <2>1, <2>3, <2>4
  <2>6. InMethod(q, g, o + 1)
    BY <1>5, <2>5 DEF InMethod
  <2> QED BY <1>2, <2>5, <2>6
<1>6. CASE o = 2
  <2> DEFINE r == Goto(p, "s_req_spaces_before_url")
  <2>1. q = r
    BY <1>1, <1>3, <1>4, <1>6 DEF s_req_method
  <2>2. /\ r.state = "s_req_spaces_before_url" /\ r.method = g.method /\ r.flags = {}
        /\ r.content_length = ULLONG_MAX /\ r.type = p.type /\ r.out = p.out
    BY <1>1, <1>2, <1>6 DEF Goto, Typed, Fields
  <2> HIDE DEF r
  <2>3. InMethod(q, g, o + 1)
    BY <1>6, <2>1, <2>2 DEF InMethod
  <2> QED BY <1>2, <2>1, <2>2, <2>3
<1> QED BY <1>5, <1>6

LEMMA VersionMove ==
    ASSUME NEW p, Ready(p), p.state \in VersionStates, NEW ch, NEW a
    PROVE  LET q == Transition(p, ch, a)
           IN  \/ Fails(q)
               \/ /\ \/ ch # LF /\ q.state \in VersionStates
                     \/ ch = LF /\ q.state = "s_header_field_start"
                  /\ q.type = p.type /\ q.method = p.method /\ q.flags = p.flags
                  /\ q.content_length = p.content_length /\ Quiet(q.out)
<1> DEFINE q == Transition(p, ch, a)
           Kept2(x) == /\ x.type = p.type /\ x.method = p.method /\ x.flags = p.flags
                       /\ x.content_length = p.content_length /\ Quiet(x.out)
           Goal(x) == \/ Fails(x)
                      \/ /\ \/ ch # LF /\ x.state \in VersionStates
                            \/ ch = LF /\ x.state = "s_header_field_start"
                         /\ Kept2(x)
<1> SUFFICES Goal(q)
  OBVIOUS
<1>1. Typed(p) /\ Quiet(p.out)
  BY ReadyTyped, QuietEmpty
<1>2. \A e \in Errors \ {"OK"} : Fails(Fail(p, e))
  BY FailsQuiet
<1>3. {"STRICT", "INVALID_VERSION", "LF_EXPECTED", "INVALID_CONSTANT"} \subseteq Errors \ {"OK"}
  BY DEF Errors
<1>4. \A s \in VersionStates \cup {"s_header_field_start"} : Goto(p, s).state = s /\ Kept2(Goto(p, s))
  BY <1>1 DEF Goto, Typed, Fields
<1>5. \A s \in VersionStates : ch # LF => Goal(Goto(p, s))
  BY <1>4
<1>6. ch = LF => Goal(Goto(p, "s_header_field_start"))
  BY <1>4
<1>7. /\ LF # Blank /\ LF # CR /\ LF \notin Num /\ LF \notin {"H", "T", "P", "/", "."} /\ CR # Blank
  BY DEF LF, Blank, CR, Num
<1> HIDE DEF q, Goal
<1>8. CASE p.state \in DOMAIN ReqLiteral
  <2> DEFINE l == ReqLiteral[p.state]
  <2>1. q = IF ch = l[1] THEN Goto(p, l[2]) ELSE Fail(p, l[3])
    <3>1. q = literal(p, ch)
      BY <1>8, Transitions DEF q, Literals
    <3> QED BY <1>8, <3>1 DEF literal
  <2>2. l[3] \in {"STRICT", "INVALID_VERSION", "LF_EXPECTED"}
    BY <1>8 DEF ReqLiteral
  <2>3. \/ l[1] \in {"T", "P", "/", "."} /\ l[2] \in VersionStates
        \/ l[1] = LF /\ l[2] = "s_header_field_start"
    BY <1>8 DEF ReqLiteral, VersionStates
  <2> HIDE DEF l
  <2>4. Fails(q) => Goal(q)
    BY DEF Goal
  <2> QED BY <1>2, <1>3, <1>5, <1>6, <1>7, <2>1, <2>2, <2>3, <2>4
<1>9. CASE p.state = "s_req_http_start"
  <2>1. q = CASE ch = Blank -> p [] ch = "H" -> Goto(p, "s_req_http_H")
              [] OTHER -> Fail(p, "INVALID_CONSTANT")
    <3>1. q = s_req_http_start(p, ch)
      BY <1>9, Transitions DEF q
    <3> QED BY <3>1 DEF s_req_http_start
  <2>2. ch = Blank => Goal(p)
    BY <1>1, <1>7 DEF Goal
  <2>3. "s_req_http_H" \in VersionStates /\ Blank # "H"
    BY DEF VersionStates, Blank
  <2>4. Fails(q) => Goal(q)
    BY DEF Goal
  <2> QED BY <1>2, <1>3, <1>5, <1>7, <2>1, <2>2, <2>3, <2>4
<1>10. CASE p.state \in {"s_req_http_major", "s_req_http_minor"}
  <2> DEFINE r == [p EXCEPT !.http_major = Digit[ch], !.state = "s_req_http_dot"]
             s == [p EXCEPT !.http_minor = Digit[ch], !.state = "s_req_http_end"]
  <2>1. /\ p.state = "s_req_http_major" =>
             q = IF ch \notin Num THEN Fail(p, "INVALID_VERSION") ELSE r
        /\ p.state = "s_req_http_minor" =>
             q = IF ch \notin Num THEN Fail(p, "INVALID_VERSION") ELSE s
    <3>1. /\ p.state = "s_req_http_major" => q = http_major(p, ch)
          /\ p.state = "s_req_http_minor" => q = http_minor(p, ch)
      BY Transitions DEF q
    <3> QED BY <3>1 DEF http_major, http_minor
  <2>2. r.state = "s_req_http_dot" /\ s.state = "s_req_http_end" /\ Kept2(r) /\ Kept2(s)
    BY <1>1 DEF Typed, Fields
  <2> HIDE DEF r, s, Kept2
  <2>3. ch \in Num => Goal(r) /\ Goal(s)
    BY <1>7, <2>2 DEF Goal, VersionStates
  <2>4. Fails(q) => Goal(q)
    BY DEF Goal
  <2> QED BY <1>2, <1>3, <1>10, <2>1, <2>3, <2>4
<1>11. CASE p.state = "s_req_http_end"
  <2>1. q = CASE ch = CR -> Goto(p, "s_req_line_almost_done")
              [] ch = LF -> Goto(p, "s_header_field_start")
              [] OTHER -> Fail(p, "INVALID_VERSION")
    <3>1. q = s_req_http_end(p, ch)
      BY <1>11, Transitions DEF q
    <3> QED BY <3>1 DEF s_req_http_end
  <2>2. "s_req_line_almost_done" \in VersionStates
    BY DEF VersionStates
  <2>3. Fails(q) => Goal(q)
    BY DEF Goal
  <2> QED BY <1>2, <1>3, <1>5, <1>6, <1>7, <2>1, <2>2, <2>3
<1> QED BY <1>8, <1>9, <1>10, <1>11 DEF VersionStates, ReqLiteral

\* The first symbol of a url: it is marked.
LEMMA UrlBegins ==
    ASSUME NEW g, Parsed(g), NEW p, Ready(p), p.type = "REQUEST", InMethod(p, g, 3), NEW a
    PROVE  LET q == Transition(p, g.text[4], a)
           IN  \/ Fails(q)
               \/ ~Failed(q) /\ InUrl(q, g, 4) /\ q.marks["url"] = 0 /\ q.type = p.type
                  /\ Quiet(q.out)
<1> DEFINE ch == g.text[4]
           q == Transition(p, ch, a)
           m == MARK(p, "url")
           r == IF p.method = "CONNECT" THEN Goto(m, "s_req_server_start") ELSE m
           Goal(x) == \/ Fails(x)
                      \/ ~Failed(x) /\ InUrl(x, g, 4) /\ x.marks["url"] = 0 /\ x.type = p.type
                         /\ Quiet(x.out)
<1> SUFFICES Goal(q)
  OBVIOUS
<1>1. /\ p.state = "s_req_spaces_before_url" /\ p.method = g.method /\ p.flags = {}
      /\ p.content_length = ULLONG_MAX
  BY DEF InMethod
<1>2. p.state \in Plain /\ "s_req_server_start" \in States /\ "url" \in DataCallbacks
  BY <1>1 DEF Plain, States, BodyStates, ChunkStates, SizeStates, UrlStates, Undecided,
     DataCallbacks
<1>3. NoMark(p) /\ Typed(p) /\ p.errno = "OK" /\ Quiet(p.out)
  BY <1>2, PlainReady, ReadyTyped, QuietEmpty
<1>4. IsMark(m, p, "url")
  BY <1>2, <1>3, MarkEffect DEF NoMark, OnlyMark
<1>5. 4 \in 4..g.u /\ ch # Blank
  <2>1. 4 \in 4..g.u
    BY FirstLine
  <2> QED BY <2>1 DEF Parsed, Parts
<1>6. q = url_char(r, ch)
  <2>1. q = s_req_spaces_before_url(p, ch)
    BY <1>1, Transitions
  <2> QED BY <1>5, <2>1 DEF s_req_spaces_before_url
<1> HIDE DEF m, q
<1>7. /\ Typed(r) /\ r.marks = m.marks /\ r.type = p.type /\ r.errno = "OK" /\ r.out = p.out
      /\ r.method = p.method /\ r.flags = p.flags /\ r.content_length = p.content_length
  BY <1>2, <1>3, <1>4 DEF IsMark, Kept, Goto, Typed, Fields
<1>8. r.marks["url"] = 0
  BY <1>2, <1>3, <1>4, <1>7 DEF IsMark, NoMark, Marked
<1>9. OnlyMark(r, "url") /\ Marked(r, "url")
  BY <1>4, <1>7 DEF IsMark, OnlyMark, Marked
<1> HIDE DEF r
<1>10. IsQuiet(q, r) /\ (~Failed(q) => q.state \in UrlStates)
  BY <1>6, <1>7, <1>9, UrlCharDone
<1>11. /\ q.type = r.type /\ q.method = r.method /\ q.flags = r.flags
       /\ q.content_length = r.content_length
  BY <1>6, <1>7 DEF url_char, Goto, Fail, Typed, Fields
<1>12. Quiet(q.out) /\ q.marks["url"] = 0
  BY <1>3, <1>7, <1>8, <1>10 DEF IsQuiet
<1>13. InUrl(q, g, 4) \/ Failed(q)
  BY <1>1, <1>5, <1>7, <1>10, <1>11 DEF InUrl
<1> QED BY <1>7, <1>11, <1>12, <1>13 DEF Fails

\* One more symbol of it.
LEMMA UrlGoes ==
    ASSUME NEW g, Parsed(g), NEW p, Ready(p), p.type = "REQUEST", NEW o \in Nat, InUrl(p, g, o),
           o + 1 <= g.u, NEW a
    PROVE  LET q == Transition(p, g.text[o + 1], a)
           IN  \/ Fails(q)
               \/ ~Failed(q) /\ InUrl(q, g, o + 1) /\ q.marks = p.marks /\ q.type = p.type
                  /\ Quiet(q.out)
<1> DEFINE ch == g.text[o + 1]
           q == Transition(p, ch, a)
           Goal(x) == \/ Fails(x)
                      \/ ~Failed(x) /\ InUrl(x, g, o + 1) /\ x.marks = p.marks /\ x.type = p.type
                         /\ Quiet(x.out)
<1> SUFFICES Goal(q)
  OBVIOUS
<1>1. /\ p.state \in UrlStates /\ p.method = g.method /\ p.flags = {}
      /\ p.content_length = ULLONG_MAX /\ o \in 4..g.u
  BY DEF InUrl
<1>2. Resumed(p.state) = {"url"} /\ "url" \in DataCallbacks
  BY <1>1 DEF Resumed, UrlStates, DataCallbacks
<1>3. OnlyMark(p, "url") /\ Marked(p, "url") /\ p.type # "BOTH" /\ Typed(p) /\ p.errno = "OK"
      /\ Quiet(p.out)
  BY <1>2, MarkedReady, ReadyTyped, QuietEmpty DEF Reading
<1>4. o + 1 \in 4..g.u /\ ch \notin {Blank, CR, LF}
  <2>1. o + 1 \in 4..g.u
    BY <1>1, FirstLine
  <2> QED BY <2>1 DEF Parsed, Parts
<1>5. q = url_char(p, ch)
  <2>1. q = s_req_url(p, ch, a)
    BY <1>1, Transitions
  <2> QED BY <1>4, <2>1 DEF s_req_url
<1> HIDE DEF q
<1>6. IsQuiet(q, p) /\ (~Failed(q) => q.state \in UrlStates)
  BY <1>3, <1>5, UrlCharDone
<1>7. /\ q.type = p.type /\ q.method = p.method /\ q.flags = p.flags
      /\ q.content_length = p.content_length
  BY <1>3, <1>5 DEF url_char, Goto, Fail, Typed, Fields
<1>8. InUrl(q, g, o + 1) \/ Failed(q)
  BY <1>1, <1>4, <1>6, <1>7 DEF InUrl
<1> QED BY <1>3, <1>6, <1>7, <1>8 DEF Fails, IsQuiet

LEMMA TypedGoto ==
    ASSUME NEW p, Typed(p), NEW s \in States
    PROVE  Typed(Goto(p, s))
BY DEF Goto, Typed, Fields

LEMMA TypedLine ==
    ASSUME NEW p, Typed(p), NEW s \in States
    PROVE  Typed([p EXCEPT !.http_major = 0, !.http_minor = 9, !.state = s])
BY DEF Typed, Fields

\* Its end: it is handed over.
UrlEvent(g) == [cb |-> "url", n |-> g.u - 3, extra |-> 0]

LEMMA UrlEnds ==
    ASSUME NEW g, Parsed(g), NEW p, Ready(p), p.type = "REQUEST", InUrl(p, g, g.u),
           p.marks["url"] = g.u - 3, NEW a, NoFailure(a)
    PROVE  LET q == Transition(p, g.text[g.u + 1], a)
           IN  \/ Fails(q)
               \/ /\ InVersion(q, g, g.u + 1) \/ InHeaders(q, g, g.u + 1)
                  /\ ~Failed(q) /\ q.type = p.type /\ q.out = <<UrlEvent(g)>>
<1> DEFINE ch == g.text[g.u + 1]
           q == Transition(p, ch, a)
           Goal(x) == \/ Fails(x)
                      \/ /\ InVersion(x, g, g.u + 1) \/ InHeaders(x, g, g.u + 1)
                         /\ ~Failed(x) /\ x.type = p.type /\ x.out = <<UrlEvent(g)>>
           r == Goto(p, "s_req_http_start")
           w == IF ch = CR THEN "s_req_line_almost_done" ELSE "s_header_field_start"
           t == [p EXCEPT !.http_major = 0, !.http_minor = 9, !.state = w]
           whole == p.state \notin {"s_req_schema", "s_req_schema_slash",
                                 "s_req_schema_slash_slash", "s_req_server_start"}
           Whole(y) == /\ Typed(y) /\ y.marks = p.marks /\ y.type = p.type /\ y.errno = "OK"
                      /\ y.out = p.out /\ y.method = p.method /\ y.flags = p.flags
                      /\ y.content_length = p.content_length
                      /\ \/ ch # LF /\ y.state \in VersionStates
                         \/ ch = LF /\ y.state = "s_header_field_start"
<1> SUFFICES Goal(q)
  OBVIOUS
<1>1. /\ p.state \in UrlStates /\ p.method = g.method /\ p.flags = {}
      /\ p.content_length = ULLONG_MAX
  BY DEF InUrl
<1>2. Resumed(p.state) = {"url"} /\ "url" \in DataCallbacks /\ 0 \in {0, 1}
      /\ "url" \in Callbacks \ {"headers_complete"}
  BY <1>1 DEF Resumed, UrlStates, DataCallbacks, Callbacks
<1>3. OnlyMark(p, "url") /\ Marked(p, "url") /\ Typed(p) /\ p.errno = "OK" /\ p.out = <<>>
  BY <1>2, MarkedReady, ReadyTyped DEF Reading
<1>4. ch \in {Blank, CR, LF} /\ Blank # CR /\ Blank # LF /\ CR # LF
  BY Symbols DEF Parsed, Parts
<1>5. q = CASE ch = Blank /\ whole -> CALLBACK_DATA(r, "url", a)
            [] ch \in {CR, LF} /\ whole -> CALLBACK_DATA(t, "url", a)
            [] ch \in {Blank, CR, LF} /\ ~whole -> Fail(p, "INVALID_URL")
            [] OTHER -> url_char(p, ch)
  <2>1. q = s_req_url(p, ch, a)
    BY <1>1, Transitions
  <2> QED BY <2>1 DEF s_req_url
<1>6. "s_req_http_start" \in States \cap VersionStates
      /\ "s_req_line_almost_done" \in States \cap VersionStates
      /\ "s_header_field_start" \in States /\ "INVALID_URL" \in Errors \ {"OK"}
  BY DEF States, VersionStates, Errors
<1>7. (ch = Blank => Whole(r)) /\ (ch \in {CR, LF} => Whole(t))
  <2>1. /\ r.marks = p.marks /\ r.type = p.type /\ r.errno = "OK" /\ r.out = p.out
        /\ r.method = p.method /\ r.flags = p.flags /\ r.content_length = p.content_length
        /\ r.state = "s_req_http_start"
    BY <1>3 DEF Goto, Typed, Fields
  <2>2. Typed(r)
    <3>1. "s_req_http_start" \in States
      BY <1>6
    <3> QED BY <1>3, <3>1, TypedGoto
  <2>3. w \in States /\ (ch = LF => w = "s_header_field_start")
        /\ (ch = CR => w = "s_req_line_almost_done")
    BY <1>4, <1>6
  <2> HIDE DEF w
  <2>4. /\ t.marks = p.marks /\ t.type = p.type /\ t.errno = "OK" /\ t.out = p.out
        /\ t.method = p.method /\ t.flags = p.flags /\ t.content_length = p.content_length
        /\ t.state = w
    BY <1>3 DEF Typed, Fields
  <2>5. Typed(t)
    BY <1>3, <2>3, TypedLine
  <2> HIDE DEF r, t
  <2>6. ch = Blank => Whole(r)
    BY <1>4, <1>6, <2>1, <2>2
  <2>7. ch \in {CR, LF} => Whole(t)
    BY <1>4, <1>6, <2>3, <2>4, <2>5
  <2> QED BY <2>6, <2>7
<1>8. Fails(Fail(p, "INVALID_URL"))
  BY <1>6, FailsQuiet
<1>9. ASSUME NEW y, Whole(y) PROVE Goal(CALLBACK_DATA(y, "url", a))
  <2> DEFINE d == CALLBACK_DATA(y, "url", a)
  <2>1. OnlyMark(y, "url") /\ Marked(y, "url")
    BY <1>3, <1>9 DEF OnlyMark, Marked
  <2>2. IsData(d, y, "url", 0, a)
    BY <1>2, <1>9, <2>1, DataEffect DEF CALLBACK_DATA
  <2> HIDE DEF d
  <2>3. ~Failed(d) /\ d.out = <<UrlEvent(g)>>
    <3>1. a["url"] = 0
      BY <1>2 DEF NoFailure
    <3>2. d.out = Append(y.out, [cb |-> "url", n |-> p.marks["url"] + 0, extra |-> 0])
      BY <1>9, <2>1, <2>2 DEF IsData
    <3>3. p.marks["url"] + 0 = g.u - 3
      BY FirstLine
    <3>4. ~Failed(d)
      BY <2>2, <3>1 DEF IsData
    <3> DEFINE event == UrlEvent(g)
    <3>5. d.out = Append(<<>>, event)
      BY <1>3, <1>9, <3>2, <3>3 DEF UrlEvent
    <3> HIDE DEF event
    <3>6. Append(<<>>, event) = <<event>>
      OBVIOUS
    <3>7. d.out = <<event>>
      BY <3>5, <3>6
    <3> QED BY <3>4, <3>7 DEF event
  <2>4. /\ d.state = y.state /\ d.type = p.type /\ d.method = g.method /\ d.flags = {}
        /\ d.content_length = ULLONG_MAX
    BY <1>1, <1>9, <2>2 DEF IsData, Kept
  <2>5. /\ g.u \in Nat /\ g.u >= 4 /\ g.u + 1 < g.h /\ g.h \in Nat
        /\ \A k \in 4..g.u : g.text[k] # LF
    BY FirstLine
  <2>6. CASE ch # LF
    <3>1. \A k \in 4..(g.u + 1) : g.text[k] # LF
      <4> TAKE k \in 4..(g.u + 1)
      <4>1. k \in 4..g.u \/ k = g.u + 1
        BY <2>5
      <4> QED BY <2>5, <2>6, <4>1
    <3>2. InVersion(d, g, g.u + 1)
      BY <1>9, <2>4, <2>5, <2>6, <3>1 DEF InVersion
    <3> QED BY <2>3, <2>4, <3>2 DEF d
  <2>7. CASE ch = LF
    <3>1. d.state = "s_header_field_start"
      BY <1>9, <2>4, <2>7
    <3>2. PICK o \in Nat : o = g.u + 1
      BY <2>5
    <3>3. g.u < o /\ o < g.h /\ g.text[o] = LF /\ \A k \in 4..(o - 1) : g.text[k] # LF
      BY <2>5, <2>7, <3>2
    <3>4. InHeaders(d, g, o)
      BY <2>4, <3>1, <3>3, HeadersBegin
    <3> QED BY <2>3, <2>4, <3>2, <3>4 DEF d
  <2> QED BY <2>6, <2>7
<1> HIDE DEF q, Goal, whole, r, t, w, Whole
<1>10. Fails(q) => Goal(q)
  BY DEF Goal
<1> QED BY <1>4, <1>5, <1>7, <1>8, <1>9, <1>10

\* The version, and the headers.
LEMMA VersionStep ==
    ASSUME NEW g, Parsed(g), NEW p, Ready(p), p.type = "REQUEST", NEW o \in Nat,
           InVersion(p, g, o), NEW a
    PROVE  Outcome(Transition(p, g.text[o + 1], a), g, o + 1)
<1> DEFINE t == g.text
           ch == t[o + 1]
           q == Transition(p, ch, a)
<1>1. /\ p.flags = {} /\ p.content_length = ULLONG_MAX /\ p.method = g.method
      /\ p.state \in VersionStates /\ g.u < o /\ o < g.h /\ \A k \in 4..o : t[k] # LF
  BY DEF InVersion
<1>2. g.u \in Nat /\ g.h \in Nat /\ g.u >= 4 /\ EmptyLine(t, g.h)
  BY FirstLine
<1>3. o + 1 # g.h
  <2>1. ASSUME o + 1 = g.h PROVE FALSE
    <3>1. t[o] = LF \/ (t[o] = CR /\ t[o - 1] = LF)
      <4>1. g.h - 1 = o /\ g.h - 2 = o - 1
        BY <1>2, <2>1
      <4> QED BY <1>2, <4>1 DEF EmptyLine
    <3>2. o \in 4..o /\ o - 1 \in 4..o
      BY <1>1, <1>2
    <3> QED BY <1>1, <3>1, <3>2
  <2> QED BY <2>1
<1>4. \/ Fails(q)
      \/ /\ \/ ch # LF /\ q.state \in VersionStates
            \/ ch = LF /\ q.state = "s_header_field_start"
         /\ q.type = p.type /\ q.method = p.method /\ q.flags = p.flags
         /\ q.content_length = p.content_length /\ Quiet(q.out)
  BY <1>1, VersionMove
<1> HIDE DEF q
<1>5. PICK n \in Nat : n = o + 1
  OBVIOUS
<1>6. g.u < n /\ n < g.h /\ \A k \in 4..(n - 1) : t[k] # LF
  BY <1>1, <1>2, <1>3, <1>5
<1>7. CASE Fails(q)
  BY <1>7 DEF Outcome, q
<1>8. CASE /\ ch # LF /\ q.state \in VersionStates
           /\ q.type = p.type /\ q.method = p.method /\ q.flags = p.flags
           /\ q.content_length = p.content_length /\ Quiet(q.out)
  <2>1. \A k \in 4..n : t[k] # LF
    <3> TAKE k \in 4..n
    <3>1. k \in 4..(n - 1) \/ k = n
      OBVIOUS
    <3> QED BY <1>5, <1>6, <1>8, <3>1
  <2>2. InVersion(q, g, n)
    BY <1>1, <1>6, <1>8, <2>1 DEF InVersion
  <2> QED BY <1>5, <1>8, <2>2 DEF Outcome, Goes, Inside, q
<1>9. CASE /\ ch = LF /\ q.state = "s_header_field_start"
           /\ q.type = p.type /\ q.method = p.method /\ q.flags = p.flags
           /\ q.content_length = p.content_length /\ Quiet(q.out)
  <2>1. t[n] = LF
    BY <1>5, <1>9
  <2>2. InHeaders(q, g, n)
    BY <1>1, <1>6, <1>9, <2>1, HeadersBegin
  <2> QED BY <1>5, <1>9, <2>2 DEF Outcome, Goes, Inside, q
<1> QED BY <1>4, <1>7, <1>8, <1>9

LEMMA HeadersStep ==
    ASSUME NEW g, Parsed(g), NEW p, Ready(p), p.type = "REQUEST", NEW o \in Nat,
           InHeaders(p, g, o), NEW a, NoFailure(a),
           g.method = "POST" => a["headers_complete"] = 0
    PROVE  Outcome(Transition(p, g.text[o + 1], a), g, o + 1)
<1>1. CASE o + 1 = g.h
  BY <1>1, HeadersEnd
<1>2. CASE o + 1 # g.h
  <2> DEFINE q == Transition(p, g.text[o + 1], a)
  <2>1. Same(q, p) /\ (Failed(q) \/ InHeaders(q, g, o + 1))
    BY <1>2, HeadersMove
  <2> HIDE DEF q
  <2>2. q.type = "REQUEST" /\ Quiet(q.out)
    BY <2>1 DEF Same
  <2> QED BY <2>1, <2>2 DEF Outcome, Fails, Goes, Inside, q
<1> QED BY <1>1, <1>2

-----------------------------------------------------------------------------
(* A symbol, and the marks with it.                                        *)

\* What Inside looks at, but for the marks.
Alike(r, q) ==
    /\ r.type = q.type /\ r.state = q.state /\ r.header = q.header /\ r.flags = q.flags
    /\ r.content_length = q.content_length /\ r.method = q.method /\ r.index = q.index

LEMMA AlikeInside ==
    ASSUME NEW g, NEW o, NEW q, NEW r, Alike(r, q)
    PROVE  /\ InMethod(q, g, o) => InMethod(r, g, o)
           /\ InUrl(q, g, o) => InUrl(r, g, o)
           /\ InVersion(q, g, o) => InVersion(r, g, o)
           /\ InHeaders(q, g, o) => InHeaders(r, g, o)
           /\ InBody(q, g, o) => InBody(r, g, o)
           /\ InChunk(q, g, o) => InChunk(r, g, o)
<1>1. /\ r.state = q.state /\ r.header = q.header /\ r.flags = q.flags
      /\ r.content_length = q.content_length /\ r.method = q.method /\ r.index = q.index
  BY DEF Alike
<1>2. InMethod(q, g, o) => InMethod(r, g, o)
  BY <1>1 DEF InMethod
<1>3. InUrl(q, g, o) => InUrl(r, g, o)
  BY <1>1 DEF InUrl
<1>4. InVersion(q, g, o) => InVersion(r, g, o)
  BY <1>1 DEF InVersion
<1>5. InBody(q, g, o) => InBody(r, g, o)
  BY <1>1 DEF InBody
<1>6. Lines(q, g.text, o) => Lines(r, g.text, o)
  BY <1>1 DEF Lines
<1>7. Names(q, g.text, o) => Names(r, g.text, o)
  BY <1>1 DEF Names, InName
<1>8. LengthRead(q, g, o) => LengthRead(r, g, o)
  <2>1. NumberRead(q, g, o) => NumberRead(r, g, o)
    BY <1>1 DEF NumberRead
  <2>2. InNumber(q) <=> InNumber(r)
    BY <1>1 DEF InNumber
  <2> QED BY <1>1, <2>1, <2>2 DEF LengthRead
<1>9. TransferRead(q, g, o) => TransferRead(r, g, o)
  BY <1>1 DEF TransferRead
<1>10. InHeaders(q, g, o) => InHeaders(r, g, o)
  BY <1>1, <1>6, <1>7, <1>8, <1>9 DEF InHeaders
<1>11. \A c, d, e, v : InPart(q, g, o, c, d, e, v) => InPart(r, g, o, c, d, e, v)
  <2> TAKE c, d, e, v
  <2>1. InSize(q, g, o, c, d, e, v) => InSize(r, g, o, c, d, e, v)
    BY <1>1 DEF InSize
  <2>2. InData(q, o, e, v) => InData(r, o, e, v)
    BY <1>1 DEF InData
  <2>3. InTrailer(q, g, o, e) => InTrailer(r, g, o, e)
    BY <1>1, <1>6 DEF InTrailer
  <2> QED BY <2>1, <2>2, <2>3 DEF InPart
<1>12. InChunk(q, g, o) => InChunk(r, g, o)
  BY <1>1, <1>11 DEF InChunk
<1> QED BY <1>2, <1>3, <1>4, <1>5, <1>10, <1>12

\* After a transition the marks move on, and nothing else.
LEMMA StepMoves ==
    ASSUME NEW p, Ready(p), NEW ch, NEW a
    PROVE  LET q == Transition(p, ch, a)
               r == step(p, ch, a)
           IN  /\ Done(q)
               /\ Failed(q) => r = q
               /\ ~Failed(q) => Alike(r, q) /\ r.marks = Moved(q.marks) /\ r.out = q.out
                                /\ ~Failed(r)
<1> DEFINE q == Transition(p, ch, a)
           r == step(p, ch, a)
           s == [q EXCEPT !.marks = Moved(q.marks)]
<1>1. Done(q)
  BY TransitionDone
<1>2. Typed(q)
  BY <1>1 DEF Done, Good
<1>3. r = IF Failed(q) THEN q ELSE s
  BY <1>2, StepIs
<1> HIDE DEF q, r
<1>4. SameMarks(s, q) /\ s.marks = Moved(q.marks) /\ s.out = q.out
  BY <1>2, MoveEffect
<1>5. s.method = q.method /\ s.index = q.index
  BY <1>2 DEF Typed, Fields
<1> HIDE DEF s
<1>6. Alike(s, q) /\ (~Failed(q) => ~Failed(s))
  BY <1>4, <1>5 DEF SameMarks, Alike, Failed
<1> QED BY <1>1, <1>3, <1>4, <1>6 DEF q, r

\* What a symbol makes of a parser that is o symbols in a request.
Steps(q, g, o) ==
    \/ Fails(q)
    \/ Inside(q, g, o) /\ o # g.u + 1 /\ Quiet(q.out)
    \/ Inside(q, g, o) /\ o = g.u + 1 /\ q.out = <<UrlEvent(g)>>
    \/ Completes(q, g, o) /\ o > g.u + 1

\* The same before the marks move.
Before(q, g, o) ==
    \/ Fails(q)
    \/ InUrl(q, g, o) /\ q.marks["url"] = o - 4 /\ q.type = "REQUEST" /\ Quiet(q.out)
    \/ Inside(q, g, o) /\ o \notin 4..(g.u + 1) /\ Quiet(q.out)
    \/ /\ InVersion(q, g, o) \/ InHeaders(q, g, o)
       /\ o = g.u + 1 /\ q.type = "REQUEST" /\ q.out = <<UrlEvent(g)>>
    \/ Completes(q, g, o) /\ o > g.u + 1

LEMMA InsideMoves ==
    ASSUME NEW g, Parsed(g), NEW p, Ready(p), NEW o \in Nat, Inside(p, g, o), NEW a, NoFailure(a),
           g.method = "POST" /\ o > g.u => a["headers_complete"] = 0
    PROVE  Before(Transition(p, g.text[o + 1], a), g, o + 1)
<1> DEFINE ch == g.text[o + 1]
           q == Transition(p, ch, a)
<1>1. PICK n \in Nat : n = o + 1
  OBVIOUS
<1>2. SUFFICES Before(q, g, n)
  BY <1>1
<1>3. p.type = "REQUEST"
  BY DEF Inside
<1>4. g.u \in Nat /\ g.h \in Nat /\ g.u >= 4 /\ g.u + 1 < g.h
  BY FirstLine
<1>5. ASSUME Outcome(q, g, o + 1), o > g.u PROVE Before(q, g, n)
  <2>1. n \notin 4..(g.u + 1) /\ n > g.u + 1
    BY <1>1, <1>4, <1>5
  <2>2. Fails(q) \/ Goes(q, g, n) \/ Completes(q, g, n)
    BY <1>1, <1>5 DEF Outcome
  <2> HIDE DEF q
  <2> QED BY <2>1, <2>2 DEF Before, Goes
<1>6. CASE InMethod(p, g, o)
  <2>1. o \in {1, 2, 3}
    BY <1>6 DEF InMethod
  <2>2. CASE o \in {1, 2}
    <3>1. InMethod(q, g, o + 1) /\ q.type = p.type /\ Quiet(q.out)
      BY <1>6, <2>2, MethodStep
    <3>2. n \notin 4..(g.u + 1)
      BY <1>1, <2>2
    <3>3. Inside(q, g, n)
      BY <1>1, <1>3, <3>1 DEF Inside
    <3> HIDE DEF q
    <3> QED BY <3>1, <3>2, <3>3 DEF Before
  <2>3. CASE o = 3
    <3>1. \/ Fails(q)
          \/ ~Failed(q) /\ InUrl(q, g, 4) /\ q.marks["url"] = 0 /\ q.type = p.type
             /\ Quiet(q.out)
      BY <1>3, <1>6, <2>3, UrlBegins
    <3>2. n = 4 /\ n - 4 = 0
      BY <1>1, <2>3
    <3> HIDE DEF q
    <3> QED BY <1>3, <3>1, <3>2 DEF Before
  <2> QED BY <2>1, <2>2, <2>3
<1>7. CASE InUrl(p, g, o) /\ p.marks["url"] = o - 3
  <2>1. o \in 4..g.u
    BY <1>7 DEF InUrl
  <2>2. CASE o = g.u
    <3>1. \/ Fails(q)
          \/ /\ InVersion(q, g, g.u + 1) \/ InHeaders(q, g, g.u + 1)
             /\ ~Failed(q) /\ q.type = p.type /\ q.out = <<UrlEvent(g)>>
      BY <1>3, <1>7, <2>2, UrlEnds
    <3>2. n = g.u + 1
      BY <1>1, <2>2
    <3> HIDE DEF q
    <3> QED BY <1>3, <3>1, <3>2 DEF Before
  <2>3. CASE o # g.u
    <3>1. o + 1 <= g.u
      BY <1>4, <2>1, <2>3
    <3>2. \/ Fails(q)
          \/ ~Failed(q) /\ InUrl(q, g, o + 1) /\ q.marks = p.marks /\ q.type = p.type
             /\ Quiet(q.out)
      BY <1>3, <1>7, <3>1, UrlGoes
    <3>3. n - 4 = o - 3
      BY <1>1
    <3> HIDE DEF q
    <3> QED BY <1>1, <1>3, <1>7, <3>2, <3>3 DEF Before
  <2> QED BY <2>2, <2>3
<1>8. CASE InVersion(p, g, o)
  <2>1. o > g.u
    BY <1>4, <1>8 DEF InVersion
  <2>2. Outcome(q, g, o + 1)
    BY <1>3, <1>8, VersionStep
  <2> QED BY <1>5, <2>1, <2>2
<1>9. CASE InHeaders(p, g, o)
  <2>1. o > g.u
    BY <1>4, <1>9 DEF InHeaders
  <2>2. Outcome(q, g, o + 1)
    BY <1>3, <1>9, <2>1, HeadersStep
  <2> QED BY <1>5, <2>1, <2>2
<1>10. CASE InBody(p, g, o)
  <2>1. o > g.u
    BY <1>4, <1>10 DEF InBody
  <2>2. Outcome(q, g, o + 1)
    BY <1>3, <1>10, BodyStep
  <2> QED BY <1>5, <2>1, <2>2
<1>11. CASE InChunk(p, g, o)
  <2>1. o > g.u
    BY <1>4, <1>11 DEF InChunk
  <2>2. Outcome(q, g, o + 1)
    BY <1>3, <1>11, ChunkStep
  <2> QED BY <1>5, <2>1, <2>2
<1> QED BY <1>6, <1>7, <1>8, <1>9, <1>10, <1>11 DEF Inside

LEMMA InsideStep ==
    ASSUME NEW g, Parsed(g), NEW p, Ready(p), NEW o \in Nat, Inside(p, g, o), NEW a, NoFailure(a),
           g.method = "POST" /\ o > g.u => a["headers_complete"] = 0
    PROVE  Steps(step(p, g.text[o + 1], a), g, o + 1)
<1> DEFINE ch == g.text[o + 1]
           q == Transition(p, ch, a)
           r == step(p, ch, a)
<1>1. PICK n \in Nat : n = o + 1
  OBVIOUS
<1>2. SUFFICES Steps(r, g, n)
  BY <1>1
<1>3. Before(q, g, n)
  BY <1>1, InsideMoves
<1>4. /\ Done(q)
      /\ Failed(q) => r = q
      /\ ~Failed(q) => Alike(r, q) /\ r.marks = Moved(q.marks) /\ r.out = q.out /\ ~Failed(r)
  BY StepMoves
<1> HIDE DEF q, r
<1>5. g.u \in Nat /\ g.h \in Nat /\ g.u >= 4 /\ g.u + 1 < g.h
  BY FirstLine
<1>6. Inside(q, g, n) /\ Alike(r, q) /\ n \notin 4..g.u => Inside(r, g, n)
  <2>1. n \notin 4..g.u => ~InUrl(q, g, n)
    BY DEF InUrl
  <2> QED BY <2>1, AlikeInside DEF Inside, Alike
<1>7. Fails(q) => Steps(r, g, n)
  BY <1>4 DEF Fails, Steps
<1>8. ASSUME ~Failed(q), InUrl(q, g, n), q.marks["url"] = n - 4, q.type = "REQUEST", Quiet(q.out)
      PROVE  Steps(r, g, n)
  <2>1. "url" \in DataCallbacks /\ n \in 4..g.u
    BY <1>8 DEF DataCallbacks, InUrl
  <2>2. r.marks["url"] = n - 3
    <3>1. r.marks["url"] = IF q.marks["url"] = -1 THEN -1 ELSE q.marks["url"] + 1
      BY <1>4, <1>8, <2>1 DEF Moved
    <3>2. n - 4 # -1 /\ (n - 4) + 1 = n - 3
      BY <2>1
    <3> QED BY <1>8, <3>1, <3>2
  <2>3. InUrl(r, g, n) /\ r.type = "REQUEST"
    BY <1>4, <1>8, AlikeInside DEF Alike
  <2>4. Inside(r, g, n) /\ n # g.u + 1
    BY <1>5, <2>1, <2>2, <2>3 DEF Inside
  <2> QED BY <1>4, <1>8, <2>4 DEF Steps
<1>9. ASSUME ~Failed(q), Inside(q, g, n), n \notin 4..(g.u + 1), Quiet(q.out)
      PROVE  Steps(r, g, n)
  <2>1. n \notin 4..g.u /\ n # g.u + 1
    BY <1>5, <1>9
  <2> QED BY <1>4, <1>6, <1>9, <2>1 DEF Steps
<1>10. ASSUME ~Failed(q), InVersion(q, g, n) \/ InHeaders(q, g, n), n = g.u + 1,
              q.type = "REQUEST", q.out = <<UrlEvent(g)>>
       PROVE  Steps(r, g, n)
  <2>1. InVersion(r, g, n) \/ InHeaders(r, g, n)
    BY <1>4, <1>10, AlikeInside
  <2>2. Inside(r, g, n)
    BY <1>4, <1>10, <2>1 DEF Inside, Alike
  <2> QED BY <1>4, <1>10, <2>2 DEF Steps
<1>11. ASSUME ~Failed(q), Completes(q, g, n), n > g.u + 1
       PROVE  Steps(r, g, n)
  <2>1. Completes(r, g, n)
    BY <1>4, <1>11 DEF Completes, Alike
  <2> QED BY <1>11, <2>1 DEF Steps
<1>12. ASSUME Failed(q), ~Fails(q) PROVE Steps(r, g, n)
  <2>1. r = q
    BY <1>4, <1>12
  <2>2. CASE Completes(q, g, n) /\ n > g.u + 1
    BY <2>1, <2>2 DEF Steps
  <2>3. CASE ~(Completes(q, g, n) /\ n > g.u + 1)
    <3>1. /\ InVersion(q, g, n) \/ InHeaders(q, g, n)
          /\ n = g.u + 1 /\ q.type = "REQUEST" /\ q.out = <<UrlEvent(g)>>
      BY <1>3, <1>12, <2>3 DEF Before, Fails
    <3>2. Inside(q, g, n)
      BY <3>1 DEF Inside
    <3> QED BY <2>1, <3>1, <3>2 DEF Steps
  <2> QED BY <2>2, <2>3
<1> QED BY <1>3, <1>7, <1>8, <1>9, <1>10, <1>11, <1>12 DEF Before

-----------------------------------------------------------------------------
(* Where no request is read: before one, or in what looked like the method *)
(* of one.                                                                 *)

\* The first symbol of a method was read, and both of them.
HasFirst(p, ch) ==
    /\ p.type = "REQUEST" /\ p.state = "s_req_method" /\ p.flags = {}
    /\ p.content_length = ULLONG_MAX
    /\ p.index = 1 /\ ch \in DOMAIN FirstLetter /\ p.method = FirstLetter[ch]

HasName(p, c, d) == p.state = "s_req_method" /\ p.index = 2 /\ Spells(c, d)

LEMMA TypedMethod ==
    ASSUME NEW p, Typed(p), NEW m \in DOMAIN method_strings, "s_req_method" \in States
    PROVE  Typed([p EXCEPT !.method = m, !.index = 1, !.state = "s_req_method"])
BY DEF Typed, Fields

LEMMA StartStep ==
    ASSUME NEW p, Ready(p), p.type = "REQUEST", p.state = "s_start_req", NEW ch, NEW a, NoFailure(a)
    PROVE  LET r == step(p, ch, a)
           IN  \/ Fails(r)
               \/ /\ Quiet(r.out) /\ r.type = "REQUEST"
                  /\ r.state = "s_start_req" \/ HasFirst(r, ch)
<1> DEFINE q == Transition(p, ch, a)
           r == step(p, ch, a)
           f == Fresh(p)
           m == FirstLetter[ch]
           n == [f EXCEPT !.method = m, !.index = 1, !.state = "s_req_method"]
           d == CALLBACK_NOTIFY(n, "message_begin", a)
           Goal(x) == \/ Fails(x)
                      \/ /\ Quiet(x.out) /\ x.type = "REQUEST"
                         /\ x.state = "s_start_req" \/ HasFirst(x, ch)
<1> SUFFICES Goal(r)
  OBVIOUS
<1>1. /\ q = s_start_req(p, ch, a)
  BY Transitions
<1>2. /\ Failed(q) => r = q
      /\ ~Failed(q) => Alike(r, q) /\ r.out = q.out
  BY StepMoves
<1>3. Typed(p) /\ p.errno = "OK" /\ p.out = <<>> /\ Quiet(<<>>)
  BY ReadyTyped, QuietEmpty
<1>4. /\ Typed(f) /\ f.out = p.out /\ f.type = p.type /\ f.flags = {}
      /\ f.content_length = ULLONG_MAX
  BY <1>3, FreshTyped
<1>5. q = CASE ch \in {CR, LF} -> p
            [] ch \notin {CR, LF} /\ ch \notin DOMAIN FirstLetter -> Fail(f, "INVALID_METHOD")
            [] OTHER -> d
  BY <1>1 DEF s_start_req, Fresh
<1> HIDE DEF q, r, f
<1>6. Goal(q) => Goal(r)
  <2>1. CASE Failed(q)
    BY <1>2, <2>1
  <2>2. CASE ~Failed(q)
    <3>1. HasFirst(q, ch) => HasFirst(r, ch)
      BY <1>2, <2>2 DEF Alike, HasFirst
    <3>2. ~Fails(q)
      BY <2>2 DEF Fails
    <3> QED BY <1>2, <2>2, <3>1, <3>2 DEF Alike
  <2> QED BY <2>1, <2>2
<1> SUFFICES Goal(q)
  BY <1>6
<1>7. CASE ch \in {CR, LF}
  <2>1. q = p
    BY <1>5, <1>7
  <2> QED BY <1>3, <2>1
<1>8. CASE ch \notin {CR, LF} /\ ch \notin DOMAIN FirstLetter
  <2>1. q = Fail(f, "INVALID_METHOD")
    BY <1>5, <1>8
  <2>2. "INVALID_METHOD" \in Errors \ {"OK"}
    BY DEF Errors
  <2>3. Same(q, f) /\ Failed(q)
    BY <1>3, <1>4, <2>1, <2>2, FailKeeps
  <2> QED BY <2>3 DEF Same, Fails
<1>9. CASE ch \notin {CR, LF} /\ ch \in DOMAIN FirstLetter
  <2>1. q = d
    BY <1>5, <1>9
  <2>2. m \in DOMAIN method_strings /\ "s_req_method" \in States
    BY <1>9 DEF FirstLetter, method_strings, States
  <2> HIDE DEF m
  <2>3. /\ Typed(n) /\ n.out = <<>> /\ n.type = "REQUEST" /\ n.state = "s_req_method"
        /\ n.flags = {} /\ n.content_length = ULLONG_MAX /\ n.index = 1 /\ n.method = m
    <3>1. /\ n.out = f.out /\ n.type = f.type /\ n.state = "s_req_method" /\ n.flags = f.flags
          /\ n.content_length = f.content_length /\ n.index = 1 /\ n.method = m
      BY <1>4 DEF Typed, Fields
    <3>2. Typed(n)
      BY <1>4, <2>2, TypedMethod
    <3> HIDE DEF n
    <3> QED BY <1>3, <1>4, <3>1, <3>2
  <2> HIDE DEF n
  <2>4. "message_begin" \in Callbacks
    BY DEF Callbacks
  <2>5. IsCall(d, n, "message_begin", 0, 0, a)
    BY <2>3, <2>4, NotifyEffect
  <2> HIDE DEF d
  <2>6. [cb |-> "message_begin", n |-> 0, extra |-> 0] \in Event
    BY <2>4 DEF Event
  <2> DEFINE e == [cb |-> "message_begin", n |-> 0, extra |-> 0]
  <2>7. e \in Event /\ e.cb \notin {"url", "message_complete"} /\ <<>> \in Seq(Event)
    BY <2>6
  <2>8. d.out = Append(<<>>, e)
    BY <2>3, <2>5 DEF IsCall
  <2> HIDE DEF e
  <2>9. Quiet(d.out)
    BY <1>3, <2>7, <2>8, QuietGrows
  <2>10. HasFirst(d, ch) /\ d.type = "REQUEST"
    BY <1>9, <2>3, <2>5 DEF IsCall, Kept, HasFirst, m
  <2> QED BY <2>1, <2>9, <2>10
<1> QED BY <1>7, <1>8, <1>9

LEMMA DeadStep ==
    ASSUME NEW p, Ready(p), p.state = "s_dead", NEW ch, NEW a
    PROVE  LET r == step(p, ch, a)
           IN  Fails(r) \/ (Quiet(r.out) /\ r.state = "s_dead")
<1> DEFINE q == Transition(p, ch, a)
           r == step(p, ch, a)
<1>1. q = IF ch \in {CR, LF} THEN p ELSE Fail(p, "CLOSED_CONNECTION")
  <2>1. q = s_dead(p, ch)
    BY Transitions
  <2> QED BY <2>1 DEF s_dead
<1>2. /\ Failed(q) => r = q
      /\ ~Failed(q) => Alike(r, q) /\ r.out = q.out
  BY StepMoves
<1> HIDE DEF q, r
<1>3. Quiet(p.out) /\ ~Failed(p)
  BY QuietEmpty DEF Ready
<1>4. "CLOSED_CONNECTION" \in Errors \ {"OK"}
  BY DEF Errors
<1>5. Fails(Fail(p, "CLOSED_CONNECTION"))
  BY <1>4, FailsQuiet
<1>6. CASE q = p
  BY <1>2, <1>3, <1>6 DEF Alike, r
<1>7. CASE Fails(q)
  BY <1>2, <1>7 DEF Fails, r
<1> QED BY <1>1, <1>5, <1>6, <1>7

LEMMA FirstStep ==
    ASSUME NEW p, Ready(p), NEW c, HasFirst(p, c), NEW ch, NEW a
    PROVE  LET r == step(p, ch, a)
           IN  Fails(r) \/ (Quiet(r.out) /\ HasName(r, c, ch))
<1> DEFINE q == Transition(p, ch, a)
           r == step(p, ch, a)
           u == [p EXCEPT !.method = "PUT", !.index = 2]
           v == [p EXCEPT !.index = 2]
<1>1. /\ p.state = "s_req_method" /\ p.index = 1 /\ c \in DOMAIN FirstLetter
      /\ p.method = FirstLetter[c]
  BY DEF HasFirst
<1>2. q = CASE ch = method_strings[p.method] -> v
            [] ch # method_strings[p.method] /\ p.method = "POST" /\ ch = "UT" -> u
            [] OTHER -> Fail(p, "INVALID_METHOD")
  <2>1. q = s_req_method(p, ch)
    BY <1>1, Transitions
  <2>2. method_strings["POST"] # "UT"
    BY DEF method_strings
  <2>3. p.index # 2
    BY <1>1
  <2> HIDE DEF q
  <2> QED BY <1>1, <2>1, <2>2, <2>3 DEF s_req_method
<1>3. /\ Failed(q) => r = q
      /\ ~Failed(q) => Alike(r, q) /\ r.out = q.out
  BY StepMoves
<1> HIDE DEF q, r
<1>4. Typed(p) /\ Quiet(p.out) /\ p.errno = "OK"
  BY ReadyTyped, QuietEmpty
<1>5. "INVALID_METHOD" \in Errors \ {"OK"}
  BY DEF Errors
<1>6. Fails(Fail(p, "INVALID_METHOD"))
  BY <1>5, FailsQuiet
<1>7. CASE Fails(q)
  BY <1>3, <1>7 DEF Fails, r
<1>8. Spells(c, method_strings[FirstLetter[c]]) /\ (FirstLetter[c] = "POST" => Spells(c, "UT"))
  <2>1. c \in {"G", "P", "C", "H", "T"}
    BY <1>1 DEF FirstLetter
  <2>2. \A m \in DOMAIN Spelling : Spells(Spelling[m][1], Spelling[m][2])
    <3> TAKE m \in DOMAIN Spelling
    <3>1. m \in {"GET", "POST", "PUT", "HEAD", "CONNECT", "TRACE"}
      BY DEF Spelling
    <3>2. Spelling[m] = <<Spelling[m][1], Spelling[m][2]>>
      BY <3>1 DEF Spelling
    <3> QED BY <3>2 DEF Spells
  <2>3. {"GET", "POST", "PUT", "HEAD", "CONNECT", "TRACE"} = DOMAIN Spelling
    BY DEF Spelling
  <2>4. /\ Spells("G", "ET") /\ Spells("P", "OST") /\ Spells("P", "UT") /\ Spells("H", "EAD")
        /\ Spells("C", "ONNECT") /\ Spells("T", "RACE")
    <3>1. /\ Spelling["GET"] = <<"G", "ET">> /\ Spelling["POST"] = <<"P", "OST">>
          /\ Spelling["PUT"] = <<"P", "UT">> /\ Spelling["HEAD"] = <<"H", "EAD">>
          /\ Spelling["CONNECT"] = <<"C", "ONNECT">> /\ Spelling["TRACE"] = <<"T", "RACE">>
      BY DEF Spelling
    <3> QED BY <2>3, <3>1 DEF Spells
  <2> QED BY <2>1, <2>4 DEF FirstLetter, method_strings
<1>9. CASE q = v /\ ch = method_strings[p.method]
  <2>1. q.state = p.state /\ q.index = 2 /\ q.out = p.out /\ q.errno = p.errno
    BY <1>4, <1>9 DEF Typed, Fields
  <2>2. HasName(q, c, ch) /\ ~Failed(q)
    BY <1>1, <1>4, <1>8, <1>9, <2>1 DEF HasName, Failed
  <2> QED BY <1>3, <1>4, <2>1, <2>2 DEF Alike, HasName, r
<1>10. CASE q = u /\ p.method = "POST" /\ ch = "UT"
  <2>1. q.state = p.state /\ q.index = 2 /\ q.out = p.out /\ q.errno = p.errno
    BY <1>4, <1>10 DEF Typed, Fields
  <2>2. HasName(q, c, ch) /\ ~Failed(q)
    BY <1>1, <1>4, <1>8, <1>10, <2>1 DEF HasName, Failed
  <2> QED BY <1>3, <1>4, <2>1, <2>2 DEF Alike, HasName, r
<1> HIDE DEF u, v
<1> QED BY <1>2, <1>6, <1>7, <1>9, <1>10

LEMMA NameStep ==
    ASSUME NEW p, Ready(p), NEW c, NEW d, HasName(p, c, d), NEW ch, ch # Blank, NEW a
    PROVE  Fails(step(p, ch, a))
<1> DEFINE q == Transition(p, ch, a)
           r == step(p, ch, a)
<1>1. p.state = "s_req_method" /\ p.index = 2
  BY DEF HasName
<1>2. q = Fail(p, "INVALID_METHOD")
  <2>1. q = s_req_method(p, ch)
    BY <1>1, Transitions
  <2>2. p.index # 1
    BY <1>1
  <2> HIDE DEF q
  <2> QED BY <2>1, <2>2 DEF s_req_method
<1>3. "INVALID_METHOD" \in Errors \ {"OK"}
  BY DEF Errors
<1>4. Fails(q)
  BY <1>2, <1>3, FailsQuiet
<1>5. Failed(q) => r = q
  BY StepMoves
<1> HIDE DEF q, r
<1> QED BY <1>4, <1>5 DEF Fails, r
=============================================================================
