--------------------------- MODULE HttpParserProofs ---------------------------
(***************************************************************************)
(* What one call into the parser does to its record, for every record that *)
(* the code can be in and for every answer of the callbacks: the effects   *)
(* of MARK, CALLBACK_DATA and CALLBACK_NOTIFY, of the end of a buffer and  *)
(* of the input, and of every arm of the switch in http_parser_execute.    *)
(* HttpStreamProofs reads the theorems about whole inputs off them.  Folds *)
(* come last: they are reasoned about through the prefixes of a sequence,  *)
(* as sets, with WFMin of WellFoundedInduction.                            *)
(*                                                                         *)
(*   Ready(p)   the parser may be given a character                        *)
(*   Done(q)    q is what the handling of one leaves: the fields have      *)
(*              their types, at most one mark is set and the marks, the    *)
(*              header state and the flags agree with the state, unless    *)
(*              an error was raised                                        *)
(***************************************************************************)
EXTENDS HttpParser, WellFoundedInduction, TLAPS

(* The record of the parser.                                               *)

Event == [cb : Callbacks, n : Nat, extra : {0, 1}]

Fields == {"type", "state", "header", "flags", "method", "index", "status_code",
    "content_length", "http_major", "http_minor", "upgrade", "errno", "marks",
    "exited", "out"}

Typed(p) ==
    /\ DOMAIN p = Fields
    /\ p.type \in DOMAIN Start /\ p.state \in States /\ p.header \in HeaderStates
    /\ p.flags \in SUBSET Flags /\ p.method \in {"DELETE"} \cup DOMAIN method_strings
    /\ p.index \in 0..2 /\ p.status_code \in 0..999
    /\ p.content_length \in 0..ULLONG_MAX
    /\ p.http_major \in 0..9 /\ p.http_minor \in 0..9 /\ p.upgrade \in BOOLEAN
    /\ p.errno \in Errors /\ p.marks \in [DataCallbacks -> Nat \cup {-1}]
    /\ p.exited \in BOOLEAN /\ p.out \in Seq(Event)

Marked(p, c) == p.marks[c] # -1
OnlyMark(p, c) == \A d \in DataCallbacks : Marked(p, d) => d = c
NoMark(p) == \A d \in DataCallbacks : ~Marked(p, d)
OneMark(p) == \E c \in DataCallbacks : OnlyMark(p, c)

BodyStates == {"s_body_identity", "s_body_identity_eof", "s_chunk_data",
               "s_chunk_data_almost_done"}

SizeStates == {"s_chunk_size", "s_chunk_parameters", "s_chunk_size_almost_done"}

ChunkStates == SizeStates \cup {"s_chunk_size_start", "s_chunk_data",
                  "s_chunk_data_almost_done", "s_chunk_data_done"}

\* What holds in every state, after a failure too.
InChunks(p) == p.state \in ChunkStates => "CHUNKED" \in p.flags

Good(p) == Typed(p) /\ OneMark(p) /\ InChunks(p) /\ p.errno # "ASSERT"

\* What holds while the parser has not failed.
BodyLeft(p) ==
    /\ p.state \in {"s_body_identity", "s_chunk_data"} => p.content_length \in 1..(ULLONG_MAX - 1)
    /\ p.state = "s_chunk_data_almost_done" => p.content_length = 0

SizeFits(p) == p.state \in SizeStates => p.content_length # ULLONG_MAX

KnownValue(p) ==
    p.state = "s_header_value" => p.header \notin {"connection", "transfer_encoding"}

Undecided == {"s_start_req_or_res", "s_res_or_resp_H"}

Kind(p) ==
    /\ p.type = "BOTH" => p.state \in Undecided
    /\ p.state = "s_body_identity_eof" => p.type = "RESPONSE"

Markable(s) == IF s \in BodyStates THEN {"body"} ELSE Resumed(s)

MarksFit(p) ==
    /\ \A c \in DataCallbacks : Marked(p, c) => c \in Markable(p.state)
    /\ \A c \in Resumed(p.state) : Marked(p, c)

Control(p) == BodyLeft(p) /\ SizeFits(p) /\ KnownValue(p) /\ Kind(p) /\ MarksFit(p)

Ready(p) == Good(p) /\ ~Failed(p) /\ Control(p) /\ p.out = <<>>

Done(p) == Good(p) /\ (~Failed(p) => Control(p))

\* Fields that no callback changes.
Kept(q, p) ==
    /\ q.type = p.type /\ q.state = p.state /\ q.header = p.header /\ q.flags = p.flags
    /\ q.method = p.method /\ q.index = p.index /\ q.status_code = p.status_code
    /\ q.content_length = p.content_length /\ q.http_major = p.http_major
    /\ q.http_minor = p.http_minor /\ q.upgrade = p.upgrade /\ q.exited = p.exited

\* What the macros do: the record q, from p.
IsMark(q, p, c) ==
    /\ Typed(q) /\ Kept(q, p) /\ q.errno = p.errno /\ q.out = p.out
    /\ OnlyMark(q, c) /\ Marked(q, c)
    /\ q.marks[c] = IF p.marks[c] = -1 THEN 0 ELSE p.marks[c]

IsCall(q, p, c, n, x, a) ==
    /\ Typed(q) /\ Kept(q, p) /\ q.marks = p.marks
    /\ q.errno = IF a[c] = 0 THEN "OK" ELSE "CB"
    /\ q.out = Append(p.out, [cb |-> c, n |-> n, extra |-> x])

IsData(q, p, c, x, a) ==
    /\ Typed(q) /\ Kept(q, p) /\ OnlyMark(q, c)
    /\ Failed(q) <=> Marked(p, c) /\ a[c] # 0
    /\ q.errno \in {"OK", "CB"}
    /\ Failed(q) => q.marks = p.marks
    /\ ~Failed(q) => NoMark(q)
    /\ q.out = IF Marked(p, c)
               THEN Append(p.out, [cb |-> c, n |-> p.marks[c] + x, extra |-> x])
               ELSE p.out

LEMMA MarkEffect ==
    ASSUME NEW p, Typed(p), NEW c \in DataCallbacks, OnlyMark(p, c)
    PROVE  IsMark(MARK(p, c), p, c)
<1>1. Typed(MARK(p, c)) /\ Kept(MARK(p, c), p)
  BY DEF MARK, Typed, Fields, Kept
<1>2. QED
  BY <1>1 DEF MARK, Typed, Fields, OnlyMark, Marked, IsMark

LEMMA CallEffect ==
    ASSUME NEW p, Typed(p), NEW c \in Callbacks, NEW n \in Nat, NEW x \in {0, 1}, NEW a
    PROVE  IsCall(Call(p, c, n, x, a), p, c, n + x, x, a)
<1>1. "OK" \in Errors /\ "CB" \in Errors
  BY DEF Errors
<1>2. [cb |-> c, n |-> n + x, extra |-> x] \in Event
  BY DEF Event
<1>3. Typed(Call(p, c, n, x, a)) /\ Kept(Call(p, c, n, x, a), p)
  BY <1>1, <1>2 DEF Call, Typed, Fields, Kept
<1> QED BY <1>3 DEF Call, Typed, Fields, IsCall

LEMMA NotifyEffect ==
    ASSUME NEW p, Typed(p), NEW c \in Callbacks, NEW a
    PROVE  IsCall(CALLBACK_NOTIFY(p, c, a), p, c, 0, 0, a)
<1>1. IsCall(Call(p, c, 0, 0, a), p, c, 0 + 0, 0, a)
  <2>1. 0 \in Nat /\ 0 \in {0, 1}
    OBVIOUS
  <2> QED BY <2>1, CallEffect
<1>2. 0 + 0 = 0
  OBVIOUS
<1> QED BY <1>1, <1>2 DEF CALLBACK_NOTIFY

LEMMA DataEffect ==
    ASSUME NEW p, Typed(p), NEW c \in DataCallbacks, NEW x \in {0, 1}, NEW a,
           OnlyMark(p, c), p.errno = "OK"
    PROVE  IsData(CALLBACK_DATA_(p, c, x, a), p, c, x, a)
<1>1. CASE ~Marked(p, c)
  BY <1>1 DEF CALLBACK_DATA_, Marked, OnlyMark, NoMark, Kept, Failed, IsData
<1>2. CASE Marked(p, c)
  <2> DEFINE r == Call(p, c, p.marks[c], x, a)
             q == [r EXCEPT !.marks[c] = -1]
  <2> HIDE DEF q
  <2>1. p.marks[c] \in Nat /\ c \in Callbacks
    BY <1>2 DEF Marked, Typed, Callbacks
  <2>2. IsCall(r, p, c, p.marks[c] + x, x, a)
    BY <2>1, CallEffect
  <2> HIDE DEF r
  <2>3. Typed(q)
    <3>1. Typed(r)
      BY <2>2 DEF IsCall
    <3> DEFINE m == [r.marks EXCEPT ![c] = -1]
    <3>2. m \in [DataCallbacks -> Nat \cup {-1}]
      BY <3>1 DEF Typed
    <3>3. q = [r EXCEPT !.marks = m]
      BY DEF q
    <3> HIDE DEF m
    <3> QED BY <3>1, <3>2, <3>3 DEF Typed, Fields
  <2>4. /\ Kept(q, p) /\ q.errno = r.errno /\ q.out = r.out
        /\ q.marks = [p.marks EXCEPT ![c] = -1]
    BY <2>2 DEF Typed, Fields, Kept, q, IsCall
  <2>5. CALLBACK_DATA_(p, c, x, a) = IF Failed(r) THEN r ELSE q
    BY <1>2 DEF CALLBACK_DATA_, Marked, r, q
  <2>6. CASE a[c] = 0
    <3>1. NoMark(q) /\ OnlyMark(q, c)
      BY <2>4 DEF NoMark, OnlyMark, Marked, Typed
    <3> QED BY <1>2, <2>2, <2>3, <2>4, <2>5, <2>6, <3>1 DEF Failed, IsCall, IsData
  <2>7. CASE a[c] # 0
    BY <1>2, <2>2, <2>5, <2>7 DEF Failed, OnlyMark, Marked, IsCall, IsData
  <2> QED BY <2>6, <2>7
<1> QED BY <1>1, <1>2

\* States in which nothing is marked and nothing is left to read of a body.
Plain == States \ (BodyStates \cup ChunkStates \cup UrlStates \cup Undecided
                   \cup {"s_header_field", "s_header_value", "s_res_status"})

LEMMA PlainDone ==
    ASSUME NEW q, Typed(q), NoMark(q), q.state \in Plain, q.type # "BOTH", q.errno # "ASSERT"
    PROVE  Done(q)
<1>1. "body" \in DataCallbacks
  BY DEF DataCallbacks
<1>2. q.state \notin BodyStates \cup ChunkStates \cup UrlStates \cup Undecided
                   \cup {"s_header_field", "s_header_value", "s_res_status"}
  BY DEF Plain
<1>3. Resumed(q.state) = {}
  BY <1>2 DEF Resumed
<1>4. OneMark(q) /\ InChunks(q)
  BY <1>1, <1>2 DEF OneMark, OnlyMark, NoMark, InChunks
<1>5. Control(q)
  BY <1>2, <1>3 DEF Control, BodyLeft, SizeFits, KnownValue, Kind, MarksFit, NoMark,
     BodyStates, ChunkStates, Undecided
<1> QED BY <1>4, <1>5 DEF Done, Good

\* In such a state nothing is marked.
LEMMA PlainReady ==
    ASSUME NEW p, Ready(p), p.state \in Plain
    PROVE  NoMark(p) /\ p.type # "BOTH"
<1>2. p.state \notin BodyStates \cup ChunkStates \cup UrlStates \cup Undecided
                   \cup {"s_header_field", "s_header_value", "s_res_status"}
  BY DEF Plain
<1>3. Resumed(p.state) = {}
  BY <1>2 DEF Resumed
<1>4. Markable(p.state) = {}
  BY <1>2, <1>3 DEF Markable
<1> QED BY <1>2, <1>4 DEF Ready, Control, MarksFit, NoMark, Kind

\* The record q is p with fields changed that no mark depends on.
IsQuiet(q, p) == Typed(q) /\ q.marks = p.marks /\ q.out = p.out /\ q.exited = p.exited

LEMMA QuietDone ==
    ASSUME NEW p, Ready(p), p.state \in Plain, NEW q, IsQuiet(q, p),
           q.state \in Plain, q.type = p.type, q.errno # "ASSERT"
    PROVE  Done(q)
<1>1. NoMark(p) /\ p.type # "BOTH"
  BY PlainReady
<1>2. NoMark(q)
  BY <1>1 DEF NoMark, Marked, IsQuiet
<1> QED BY <1>1, <1>2, PlainDone DEF IsQuiet

\* A failure changes nothing else.
LEMMA FailDone ==
    ASSUME NEW p, Good(p), NEW e \in Errors \ {"OK", "ASSERT"}
    PROVE  Done(Fail(p, e)) /\ Failed(Fail(p, e)) /\ IsQuiet(Fail(p, e), p)
<1>1. IsQuiet(Fail(p, e), p) /\ Fail(p, e).errno = e /\ Fail(p, e).state = p.state
      /\ Fail(p, e).flags = p.flags
  BY DEF Good, Typed, Fields, Fail, IsQuiet
<1> QED BY <1>1 DEF Done, Good, Failed, OneMark, OnlyMark, Marked, InChunks, IsQuiet

-----------------------------------------------------------------------------
(* The states of the first line in which nothing is marked.                *)

LEMMA PlainStates == Plain \subseteq States
BY DEF Plain

LEMMA ReadyTyped ==
    ASSUME NEW p, Ready(p)
    PROVE  Typed(p) /\ Good(p) /\ p.errno = "OK" /\ p.out = <<>>
BY DEF Ready, Good, Failed

LEMMA LiteralDone ==
    ASSUME NEW p, Ready(p), p.state \in Literals, NEW ch
    PROVE  Done(literal(p, ch)) /\ IsQuiet(literal(p, ch), p)
<1> DEFINE l == IF p.state \in DOMAIN ReqLiteral THEN ReqLiteral[p.state] ELSE ResLiteral[p.state]
           q == literal(p, ch)
<1>1. p.state \in Plain /\ l[2] \in Plain /\ l[3] \in Errors \ {"OK", "ASSERT"}
  BY DEF Literals, ReqLiteral, ResLiteral, Plain, States, BodyStates, ChunkStates,
     SizeStates, UrlStates, Undecided, Errors
<1> HIDE DEF l
<1>2. q = IF ch = l[1] THEN Goto(p, l[2]) ELSE Fail(p, l[3])
  BY DEF literal, l
<1> HIDE DEF q
<1>3. IsQuiet(q, p) /\ q.state \in Plain /\ q.type = p.type /\ q.errno # "ASSERT"
  BY <1>1, <1>2, PlainStates, ReadyTyped DEF Goto, Fail, Typed, Fields, IsQuiet
<1>4. Done(q)
  BY <1>1, <1>3, QuietDone
<1> QED BY <1>3, <1>4 DEF q

LEMMA MajorDone ==
    ASSUME NEW p, Ready(p), p.state \in {"s_req_http_major", "s_res_http_major"}, NEW ch
    PROVE  Done(http_major(p, ch)) /\ IsQuiet(http_major(p, ch), p)
<1> DEFINE q == http_major(p, ch)
<1>1. p.state \in Plain
  BY DEF Plain, States, BodyStates, ChunkStates, SizeStates, UrlStates, Undecided
<1>2. "s_req_http_dot" \in Plain /\ "s_res_http_dot" \in Plain /\ "INVALID_VERSION" \in Errors
  BY DEF Plain, States, BodyStates, ChunkStates, SizeStates, UrlStates, Undecided, Errors
<1>3. Typed(p) /\ p.errno = "OK"
  BY ReadyTyped
<1>4. ch \in Num => Digit[ch] \in 0..9
  BY DEF Num, Digit
<1>5. Typed(q)
  BY <1>2, <1>3, <1>4, PlainStates DEF http_major, Goto, Fail, Typed, Fields
<1>6. IsQuiet(q, p) /\ q.state \in Plain /\ q.type = p.type /\ q.errno # "ASSERT"
  BY <1>1, <1>2, <1>3, <1>5 DEF http_major, Goto, Fail, Typed, Fields, IsQuiet
<1> HIDE DEF q
<1>7. Done(q)
  BY <1>1, <1>6, QuietDone
<1> QED BY <1>6, <1>7 DEF q

LEMMA MinorDone ==
    ASSUME NEW p, Ready(p), p.state \in {"s_req_http_minor", "s_res_http_minor"}, NEW ch
    PROVE  Done(http_minor(p, ch)) /\ IsQuiet(http_minor(p, ch), p)
<1> DEFINE q == http_minor(p, ch)
<1>1. p.state \in Plain
  BY DEF Plain, States, BodyStates, ChunkStates, SizeStates, UrlStates, Undecided
<1>2. "s_req_http_end" \in Plain /\ "s_res_http_end" \in Plain /\ "INVALID_VERSION" \in Errors
  BY DEF Plain, States, BodyStates, ChunkStates, SizeStates, UrlStates, Undecided, Errors
<1>3. Typed(p) /\ p.errno = "OK"
  BY ReadyTyped
<1>4. ch \in Num => Digit[ch] \in 0..9
  BY DEF Num, Digit
<1>5. Typed(q)
  BY <1>2, <1>3, <1>4, PlainStates DEF http_minor, Goto, Fail, Typed, Fields
<1>6. IsQuiet(q, p) /\ q.state \in Plain /\ q.type = p.type /\ q.errno # "ASSERT"
  BY <1>1, <1>2, <1>3, <1>5 DEF http_minor, Goto, Fail, Typed, Fields, IsQuiet
<1> HIDE DEF q
<1>7. Done(q)
  BY <1>1, <1>6, QuietDone
<1> QED BY <1>6, <1>7 DEF q

LEMMA HttpEndDone ==
    ASSUME NEW p, Ready(p), p.state = "s_req_http_end", NEW ch
    PROVE  Done(s_req_http_end(p, ch)) /\ IsQuiet(s_req_http_end(p, ch), p)
<1> DEFINE q == s_req_http_end(p, ch)
<1>1. p.state \in Plain
  BY DEF Plain, States, BodyStates, ChunkStates, SizeStates, UrlStates, Undecided
<1>2. "s_req_line_almost_done" \in Plain /\ "s_header_field_start" \in Plain /\ "INVALID_VERSION" \in Errors
  BY DEF Plain, States, BodyStates, ChunkStates, SizeStates, UrlStates, Undecided, Errors
<1>3. Typed(p) /\ p.errno = "OK"
  BY ReadyTyped
<1>4. Typed(q)
  BY <1>2, <1>3, PlainStates DEF s_req_http_end, Goto, Fail, Typed, Fields
<1>5. IsQuiet(q, p) /\ q.state \in Plain /\ q.type = p.type /\ q.errno # "ASSERT"
  BY <1>1, <1>2, <1>3, <1>4 DEF s_req_http_end, Goto, Fail, Typed, Fields, IsQuiet
<1> HIDE DEF q
<1>6. Done(q)
  BY <1>1, <1>5, QuietDone
<1> QED BY <1>5, <1>6 DEF q

LEMMA HttpStartDone ==
    ASSUME NEW p, Ready(p), p.state = "s_req_http_start", NEW ch
    PROVE  Done(s_req_http_start(p, ch)) /\ IsQuiet(s_req_http_start(p, ch), p)
<1> DEFINE q == s_req_http_start(p, ch)
<1>1. p.state \in Plain
  BY DEF Plain, States, BodyStates, ChunkStates, SizeStates, UrlStates, Undecided
<1>2. "s_req_http_H" \in Plain /\ "INVALID_CONSTANT" \in Errors
  BY DEF Plain, States, BodyStates, ChunkStates, SizeStates, UrlStates, Undecided, Errors
<1>3. Typed(p) /\ p.errno = "OK"
  BY ReadyTyped
<1>4. Typed(q)
  BY <1>2, <1>3, PlainStates DEF s_req_http_start, Goto, Fail, Typed, Fields
<1>5. IsQuiet(q, p) /\ q.state \in Plain /\ q.type = p.type /\ q.errno # "ASSERT"
  BY <1>1, <1>2, <1>3, <1>4 DEF s_req_http_start, Goto, Fail, Typed, Fields, IsQuiet
<1> HIDE DEF q
<1>6. Done(q)
  BY <1>1, <1>5, QuietDone
<1> QED BY <1>5, <1>6 DEF q

LEMMA DeadDone ==
    ASSUME NEW p, Ready(p), p.state = "s_dead", NEW ch
    PROVE  Done(s_dead(p, ch)) /\ IsQuiet(s_dead(p, ch), p)
<1> DEFINE q == s_dead(p, ch)
<1>1. p.state \in Plain
  BY DEF Plain, States, BodyStates, ChunkStates, SizeStates, UrlStates, Undecided
<1>2. "s_dead" \in Plain /\ "CLOSED_CONNECTION" \in Errors
  BY DEF Plain, States, BodyStates, ChunkStates, SizeStates, UrlStates, Undecided, Errors
<1>3. Typed(p) /\ p.errno = "OK"
  BY ReadyTyped
<1>4. Typed(q)
  BY <1>2, <1>3, PlainStates DEF s_dead, Goto, Fail, Typed, Fields
<1>5. IsQuiet(q, p) /\ q.state \in Plain /\ q.type = p.type /\ q.errno # "ASSERT"
  BY <1>1, <1>2, <1>3, <1>4 DEF s_dead, Goto, Fail, Typed, Fields, IsQuiet
<1> HIDE DEF q
<1>6. Done(q)
  BY <1>1, <1>5, QuietDone
<1> QED BY <1>5, <1>6 DEF q

LEMMA FirstCodeDone ==
    ASSUME NEW p, Ready(p), p.state = "s_res_first_status_code", NEW ch
    PROVE  Done(s_res_first_status_code(p, ch)) /\ IsQuiet(s_res_first_status_code(p, ch), p)
<1> DEFINE q == s_res_first_status_code(p, ch)
<1>1. p.state \in Plain
  BY DEF Plain, States, BodyStates, ChunkStates, SizeStates, UrlStates, Undecided
<1>2. "s_res_status_code" \in Plain /\ "INVALID_STATUS" \in Errors
  BY DEF Plain, States, BodyStates, ChunkStates, SizeStates, UrlStates, Undecided, Errors
<1>3. Typed(p) /\ p.errno = "OK"
  BY ReadyTyped
<1>4. ch \in Num => Digit[ch] \in 0..9
  BY DEF Num, Digit
<1>5. Typed(q)
  BY <1>2, <1>3, <1>4, PlainStates DEF s_res_first_status_code, Goto, Fail, Typed, Fields
<1>6. IsQuiet(q, p) /\ q.state \in Plain /\ q.type = p.type /\ q.errno # "ASSERT"
  BY <1>1, <1>2, <1>3, <1>5 DEF s_res_first_status_code, Goto, Fail, Typed, Fields, IsQuiet
<1> HIDE DEF q
<1>7. Done(q)
  BY <1>1, <1>6, QuietDone
<1> QED BY <1>6, <1>7 DEF q

LEMMA MethodDone ==
    ASSUME NEW p, Ready(p), p.state = "s_req_method", NEW ch
    PROVE  Done(s_req_method(p, ch)) /\ IsQuiet(s_req_method(p, ch), p)
<1> DEFINE q == s_req_method(p, ch)
<1>1. p.state \in Plain
  BY DEF Plain, States, BodyStates, ChunkStates, SizeStates, UrlStates, Undecided
<1>2. "s_req_spaces_before_url" \in Plain /\ "INVALID_METHOD" \in Errors
  BY DEF Plain, States, BodyStates, ChunkStates, SizeStates, UrlStates, Undecided, Errors
<1>3. Typed(p) /\ p.errno = "OK"
  BY ReadyTyped
<1>4. "PUT" \in DOMAIN method_strings
  BY DEF method_strings
<1>5. Typed(q)
  BY <1>2, <1>3, <1>4, PlainStates DEF s_req_method, Goto, Fail, Typed, Fields
<1>6. IsQuiet(q, p) /\ q.state \in Plain /\ q.type = p.type /\ q.errno # "ASSERT"
  BY <1>1, <1>2, <1>3, <1>5 DEF s_req_method, Goto, Fail, Typed, Fields, IsQuiet
<1> HIDE DEF q
<1>7. Done(q)
  BY <1>1, <1>6, QuietDone
<1> QED BY <1>6, <1>7 DEF q

-----------------------------------------------------------------------------
(* The other states: what their marks, lengths and flags must be.          *)

LEMMA UndecidedDone ==
    ASSUME NEW q, Typed(q), NoMark(q), q.state \in Undecided, q.errno # "ASSERT"
    PROVE  Done(q)
<1>1. "body" \in DataCallbacks
  BY DEF DataCallbacks
<1>2. Resumed(q.state) = {}
  BY DEF Resumed, Undecided, UrlStates
<1>3. OneMark(q) /\ InChunks(q)
  BY <1>1 DEF OneMark, OnlyMark, NoMark, InChunks, Undecided, ChunkStates, SizeStates
<1>4. Control(q)
  BY <1>2 DEF Control, BodyLeft, SizeFits, KnownValue, Kind, MarksFit, NoMark,
     SizeStates, Undecided
<1> QED BY <1>3, <1>4 DEF Done, Good

LEMMA UndecidedReady ==
    ASSUME NEW p, Ready(p), p.state \in Undecided
    PROVE  NoMark(p)
<1>1. Markable(p.state) = {}
  BY DEF Markable, Resumed, Undecided, BodyStates, UrlStates
<1> QED BY <1>1 DEF Ready, Control, MarksFit, NoMark

\* States with a mark that a buffer resumes.
Reading(q, c) ==
    /\ Typed(q) /\ OnlyMark(q, c) /\ Marked(q, c) /\ Resumed(q.state) = {c}
    /\ q.type # "BOTH" /\ q.errno # "ASSERT" /\ KnownValue(q)

LEMMA MarkedDone ==
    ASSUME NEW c \in DataCallbacks, NEW q, Reading(q, c)
    PROVE  Done(q)
<1>1. q.state \in UrlStates \cup {"s_header_field", "s_header_value", "s_res_status"}
  BY DEF Resumed, Reading
<1>2. q.state \notin BodyStates \cup ChunkStates \cup {"s_body_identity_eof"}
  BY <1>1 DEF UrlStates, BodyStates, ChunkStates, SizeStates
<1>3. OneMark(q) /\ InChunks(q)
  BY <1>2 DEF OneMark, InChunks, Reading
<1>4. MarksFit(q)
  BY <1>2 DEF MarksFit, Markable, OnlyMark, Reading
<1>5. BodyLeft(q) /\ SizeFits(q) /\ Kind(q)
  BY <1>2 DEF BodyLeft, SizeFits, Kind, BodyStates, ChunkStates, Reading
<1> QED BY <1>3, <1>4, <1>5 DEF Done, Good, Control, Reading

LEMMA MarkedReady ==
    ASSUME NEW p, Ready(p), NEW c \in DataCallbacks, Resumed(p.state) = {c}
    PROVE  Reading(p, c)
<1>1. p.state \in UrlStates \cup {"s_header_field", "s_header_value", "s_res_status"}
  BY DEF Resumed
<1>2. p.state \notin BodyStates \cup Undecided
  BY <1>1 DEF UrlStates, BodyStates, Undecided
<1>3. Markable(p.state) = {c}
  BY <1>2 DEF Markable
<1>4. OnlyMark(p, c) /\ Marked(p, c)
  BY <1>3 DEF Ready, Control, MarksFit, OnlyMark
<1> QED BY <1>2, <1>4 DEF Ready, Control, Good, Kind, Failed, Reading

LEMMA BodyDone ==
    ASSUME NEW q, Typed(q), OnlyMark(q, "body"), q.state \in BodyStates, BodyLeft(q),
           InChunks(q), Kind(q), q.errno # "ASSERT"
    PROVE  Done(q)
<1>1. Resumed(q.state) = {} /\ Markable(q.state) = {"body"}
  BY DEF Resumed, Markable, BodyStates, UrlStates
<1>2. q.state \notin SizeStates /\ q.state # "s_header_value"
  BY DEF BodyStates, SizeStates
<1>3. MarksFit(q) /\ SizeFits(q) /\ KnownValue(q)
  BY <1>1, <1>2 DEF MarksFit, OnlyMark, SizeFits, KnownValue
<1>4. OneMark(q)
  BY DEF OneMark, DataCallbacks
<1> QED BY <1>3, <1>4 DEF Done, Good, Control

LEMMA BodyReady ==
    ASSUME NEW p, Ready(p), p.state \in BodyStates
    PROVE  OnlyMark(p, "body") /\ p.type # "BOTH"
<1>1. Markable(p.state) = {"body"} /\ p.state \notin Undecided
  BY DEF Markable, BodyStates, Undecided
<1> QED BY <1>1 DEF Ready, Control, MarksFit, OnlyMark, Kind

LEMMA ChunkDone ==
    ASSUME NEW q, Typed(q), NoMark(q), q.state \in ChunkStates \ BodyStates,
           "CHUNKED" \in q.flags, SizeFits(q), q.type # "BOTH", q.errno # "ASSERT"
    PROVE  Done(q)
<1>1. Resumed(q.state) = {}
  BY DEF Resumed, ChunkStates, SizeStates, BodyStates, UrlStates
<1>2. q.state \notin {"s_header_value", "s_body_identity_eof"} \cup BodyStates
  BY DEF ChunkStates, SizeStates, BodyStates
<1>3. MarksFit(q) /\ KnownValue(q) /\ Kind(q) /\ BodyLeft(q)
  BY <1>1, <1>2 DEF MarksFit, NoMark, KnownValue, Kind, BodyLeft, BodyStates
<1>4. OneMark(q) /\ InChunks(q)
  <2>1. "body" \in DataCallbacks
    BY DEF DataCallbacks
  <2> QED BY <2>1 DEF OneMark, OnlyMark, NoMark, InChunks
<1> QED BY <1>3, <1>4 DEF Done, Good, Control

LEMMA ChunkReady ==
    ASSUME NEW p, Ready(p), p.state \in ChunkStates \ BodyStates
    PROVE  NoMark(p) /\ p.type # "BOTH" /\ "CHUNKED" \in p.flags /\ SizeFits(p)
<1>1. Markable(p.state) = {} /\ p.state \notin Undecided
  BY DEF Markable, Resumed, ChunkStates, SizeStates, BodyStates, UrlStates, Undecided
<1> QED BY <1>1 DEF Ready, Control, Good, MarksFit, NoMark, Kind, InChunks

-----------------------------------------------------------------------------
(* Callbacks that lead to such states.                                     *)

\* A record at the end of something: what was marked is handed over.
LEMMA DataPlain ==
    ASSUME NEW p, Typed(p), NEW c \in DataCallbacks, OnlyMark(p, c), p.errno = "OK",
           p.state \in Plain, p.type # "BOTH", NEW a
    PROVE  Done(CALLBACK_DATA(p, c, a)) /\ IsData(CALLBACK_DATA(p, c, a), p, c, 0, a)
<1> DEFINE q == CALLBACK_DATA(p, c, a)
<1>1. IsData(q, p, c, 0, a)
  <2>1. 0 \in {0, 1}
    OBVIOUS
  <2> QED BY <2>1, DataEffect DEF CALLBACK_DATA
<1> HIDE DEF q
<1>2. q.state \in Plain /\ q.type # "BOTH" /\ q.errno # "ASSERT" /\ Typed(q)
  BY <1>1 DEF IsData, Kept
<1>3. CASE ~Failed(q)
  BY <1>1, <1>2, <1>3, PlainDone DEF IsData, q
<1>4. CASE Failed(q)
  <2>1. q.state \notin ChunkStates
    BY <1>2 DEF Plain
  <2> QED BY <1>1, <1>2, <1>4, <2>1 DEF Done, Good, InChunks, OneMark, IsData, q
<1> QED BY <1>3, <1>4

LEMMA NotifyPlain ==
    ASSUME NEW p, Typed(p), NoMark(p), p.state \in Plain, p.type # "BOTH",
           NEW c \in Callbacks, NEW a
    PROVE  Done(CALLBACK_NOTIFY(p, c, a)) /\ IsCall(CALLBACK_NOTIFY(p, c, a), p, c, 0, 0, a)
<1> DEFINE q == CALLBACK_NOTIFY(p, c, a)
<1>1. IsCall(q, p, c, 0, 0, a)
  BY NotifyEffect
<1> HIDE DEF q
<1>2. Done(q)
  <2>1. NoMark(q) /\ q.state \in Plain /\ q.type # "BOTH" /\ q.errno # "ASSERT" /\ Typed(q)
    BY <1>1 DEF IsCall, Kept, NoMark, Marked
  <2> QED BY <2>1, PlainDone
<1> QED BY <1>1, <1>2 DEF q
-----------------------------------------------------------------------------
(* The request line and the status line.                                   *)

Fresh(p) == [p EXCEPT !.flags = {}, !.content_length = ULLONG_MAX]

LEMMA FreshTyped ==
    ASSUME NEW p, Typed(p)
    PROVE  /\ Typed(Fresh(p)) /\ Fresh(p).marks = p.marks /\ Fresh(p).out = p.out
           /\ Fresh(p).exited = p.exited /\ Fresh(p).state = p.state /\ Fresh(p).type = p.type
           /\ Fresh(p).errno = p.errno
           /\ Fresh(p).flags = {} /\ Fresh(p).content_length = ULLONG_MAX
BY HttpParserAssumption DEF Fresh, Typed, Fields

LEMMA StartReqDone ==
    ASSUME NEW p, Typed(p), NoMark(p), p.state = "s_start_req", p.type # "BOTH", p.errno = "OK",
           NEW ch, NEW a
    PROVE  Done(s_start_req(p, ch, a))
<1> DEFINE f == Fresh(p)
           r == [f EXCEPT !.method = FirstLetter[ch], !.index = 1, !.state = "s_req_method"]
<1>1. p.state \in Plain /\ "s_req_method" \in Plain /\ "INVALID_METHOD" \in Errors \ {"OK", "ASSERT"}
      /\ "message_begin" \in Callbacks
  BY DEF Plain, States, BodyStates, ChunkStates, SizeStates, UrlStates, Undecided, Errors,
     Callbacks
<1>5. /\ Typed(f) /\ f.marks = p.marks /\ f.out = p.out /\ f.state = p.state
        /\ f.type = p.type /\ f.errno = p.errno
  BY FreshTyped
<1>6. NoMark(f)
  BY <1>5 DEF NoMark, Marked
<1> HIDE DEF f
<1>2. CASE ch \in {CR, LF}
  BY <1>1, <1>2, PlainDone DEF s_start_req
<1>3. CASE ch \notin {CR, LF} /\ ch \notin DOMAIN FirstLetter
  <2>2. Done(f)
    BY <1>1, <1>5, <1>6, PlainDone
  <2>3. Done(Fail(f, "INVALID_METHOD"))
    BY <1>1, <2>2, FailDone DEF Done
  <2> QED BY <1>3, <2>3 DEF s_start_req, Fresh, f
<1>4. CASE ch \notin {CR, LF} /\ ch \in DOMAIN FirstLetter
  <2>1. FirstLetter[ch] \in DOMAIN method_strings
    BY <1>4 DEF FirstLetter, method_strings
  <2>2. Typed(r)
    BY <1>1, <1>5, <2>1, PlainStates DEF Typed, Fields
  <2>3. NoMark(r) /\ r.state \in Plain /\ r.type # "BOTH"
    BY <1>1, <1>5, <1>6 DEF NoMark, Marked, Typed, Fields
  <2>4. s_start_req(p, ch, a) = CALLBACK_NOTIFY(r, "message_begin", a)
    BY <1>4 DEF s_start_req, Fresh, f
  <2> HIDE DEF r
  <2> QED BY <1>1, <2>2, <2>3, <2>4, NotifyPlain
<1> QED BY <1>2, <1>3, <1>4

LEMMA StartResDone ==
    ASSUME NEW p, Ready(p), p.state = "s_start_res", NEW ch, NEW a
    PROVE  Done(s_start_res(p, ch, a))
<1> DEFINE f == Fresh(p)
           r == Goto(f, "s_res_H")
<1>1. p.state \in Plain /\ "s_res_H" \in Plain /\ "INVALID_CONSTANT" \in Errors \ {"OK", "ASSERT"}
      /\ "message_begin" \in Callbacks
  BY DEF Plain, States, BodyStates, ChunkStates, SizeStates, UrlStates, Undecided, Errors,
     Callbacks
<1>2. Typed(p) /\ p.errno = "OK" /\ NoMark(p) /\ p.type # "BOTH"
  BY <1>1, ReadyTyped, PlainReady
<1>6. /\ Typed(f) /\ f.marks = p.marks /\ f.out = p.out /\ f.state = p.state
        /\ f.type = p.type /\ f.errno = p.errno
  BY <1>2, FreshTyped
<1>7. NoMark(f)
  BY <1>2, <1>6 DEF NoMark, Marked
<1> HIDE DEF f
<1>3. CASE ch \in {CR, LF}
  BY <1>1, <1>2, <1>3, PlainDone DEF s_start_res
<1>4. CASE ch \notin {CR, LF} /\ ch # "H"
  <2>2. Done(f)
    BY <1>1, <1>2, <1>6, <1>7, PlainDone
  <2>3. Done(Fail(f, "INVALID_CONSTANT"))
    BY <1>1, <2>2, FailDone DEF Done
  <2> QED BY <1>4, <2>3 DEF s_start_res, Fresh, f
<1>5. CASE ch = "H"
  <2>1. Typed(r) /\ NoMark(r) /\ r.state \in Plain /\ r.type # "BOTH"
    BY <1>1, <1>2, <1>6, <1>7, PlainStates DEF NoMark, Marked, Typed, Fields, Goto
  <2>2. s_start_res(p, ch, a) = CALLBACK_NOTIFY(r, "message_begin", a)
    BY <1>5 DEF s_start_res, Fresh, f, CR, LF
  <2> HIDE DEF r
  <2> QED BY <1>1, <2>1, <2>2, NotifyPlain
<1> QED BY <1>3, <1>4, <1>5

LEMMA StartReqOrResDone ==
    ASSUME NEW p, Ready(p), p.state = "s_start_req_or_res", NEW ch, NEW a
    PROVE  Done(s_start_req_or_res(p, ch, a))
<1> DEFINE f == Fresh(p)
           r == Goto(f, "s_res_or_resp_H")
           q == [f EXCEPT !.type = "REQUEST", !.state = "s_start_req"]
<1>1. p.state \in Undecided /\ "s_res_or_resp_H" \in Undecided \cap States
      /\ "s_start_req" \in States /\ "message_begin" \in Callbacks /\ "REQUEST" \in DOMAIN Start
  BY DEF Undecided, States, Callbacks, Start
<1>2. Typed(p) /\ p.errno = "OK" /\ NoMark(p)
  BY <1>1, ReadyTyped, UndecidedReady
<1>6. /\ Typed(f) /\ f.marks = p.marks /\ f.out = p.out /\ f.state = p.state
        /\ f.type = p.type /\ f.errno = p.errno
  BY <1>2, FreshTyped
<1>7. NoMark(f)
  BY <1>2, <1>6 DEF NoMark, Marked
<1> HIDE DEF f
<1>3. CASE ch \in {CR, LF}
  <2>1. s_start_req_or_res(p, ch, a) = p
    BY <1>3 DEF s_start_req_or_res, CR, LF
  <2> QED BY <1>1, <1>2, <2>1, UndecidedDone
<1>4. CASE ch = "H"
  <2> DEFINE n == CALLBACK_NOTIFY(r, "message_begin", a)
  <2>1. Typed(r) /\ NoMark(r) /\ r.state \in Undecided
    BY <1>1, <1>2, <1>6, <1>7 DEF NoMark, Marked, Typed, Fields, Goto
  <2>2. s_start_req_or_res(p, ch, a) = n
    BY <1>4 DEF s_start_req_or_res, Fresh, f, CR, LF
  <2> HIDE DEF r
  <2>3. IsCall(n, r, "message_begin", 0, 0, a)
    BY <1>1, <2>1, NotifyEffect
  <2> HIDE DEF n
  <2>4. Typed(n) /\ NoMark(n) /\ n.state \in Undecided /\ n.errno # "ASSERT"
    BY <2>1, <2>3 DEF IsCall, Kept, NoMark, Marked
  <2> QED BY <2>2, <2>4, UndecidedDone
<1>5. CASE ch \notin {CR, LF} /\ ch # "H"
  <2>1. Typed(q) /\ NoMark(q) /\ q.state = "s_start_req" /\ q.type # "BOTH" /\ q.errno = "OK"
    BY <1>1, <1>2, <1>6, <1>7 DEF NoMark, Marked, Typed, Fields
  <2>2. s_start_req_or_res(p, ch, a) = s_start_req(q, ch, a)
    BY <1>5 DEF s_start_req_or_res, Fresh, f
  <2> HIDE DEF q
  <2> QED BY <2>1, <2>2, StartReqDone
<1> QED BY <1>3, <1>4, <1>5

LEMMA ResOrRespDone ==
    ASSUME NEW p, Ready(p), p.state = "s_res_or_resp_H", NEW ch
    PROVE  Done(s_res_or_resp_H(p, ch)) /\ IsQuiet(s_res_or_resp_H(p, ch), p)
<1> DEFINE q == s_res_or_resp_H(p, ch)
<1>1. p.state \in Undecided /\ "s_res_HT" \in Plain /\ "s_req_method" \in Plain
      /\ "INVALID_CONSTANT" \in Errors \ {"OK", "ASSERT"} /\ "HEAD" \in DOMAIN method_strings
      /\ {"REQUEST", "RESPONSE"} \subseteq DOMAIN Start
  BY DEF Plain, States, BodyStates, ChunkStates, SizeStates, UrlStates, Undecided, Errors,
     method_strings, Start
<1>2. Typed(p) /\ p.errno = "OK" /\ NoMark(p) /\ Good(p)
  BY <1>1, ReadyTyped, UndecidedReady
<1>3. CASE ch \in {"T", "EAD"}
  <2>1. Typed(q) /\ q.marks = p.marks /\ q.out = p.out /\ q.exited = p.exited
        /\ q.state \in Plain /\ q.type # "BOTH" /\ q.errno = "OK"
    BY <1>1, <1>2, <1>3, PlainStates DEF s_res_or_resp_H, Typed, Fields
  <2> HIDE DEF q
  <2>2. NoMark(q)
    BY <1>2, <2>1 DEF NoMark, Marked
  <2> QED BY <2>1, <2>2, PlainDone DEF q, IsQuiet
<1>4. CASE ch \notin {"T", "EAD"}
  <2>1. q = Fail(p, "INVALID_CONSTANT")
    BY <1>4 DEF s_res_or_resp_H
  <2> QED BY <1>1, <1>2, <2>1, FailDone
<1> QED BY <1>3, <1>4
LEMMA UrlCharDone ==
    ASSUME NEW p, Typed(p), OnlyMark(p, "url"), Marked(p, "url"), p.type # "BOTH",
           p.errno = "OK", NEW ch
    PROVE  /\ Done(url_char(p, ch)) /\ IsQuiet(url_char(p, ch), p)
           /\ ~Failed(url_char(p, ch)) => url_char(p, ch).state \in UrlStates
<1> DEFINE s == parse_url_char(p.state, ch)
           q == url_char(p, ch)
<1>1. s \in UrlStates \cup {"s_dead"}
  BY DEF parse_url_char, UrlStates
<1>2. UrlStates \subseteq States /\ "s_dead" \in States /\ "s_dead" \notin UrlStates \cup ChunkStates
      /\ "INVALID_URL" \in Errors \ {"OK", "ASSERT"} /\ "url" \in DataCallbacks
  BY DEF UrlStates, States, Errors, DataCallbacks, ChunkStates, SizeStates
<1> HIDE DEF s
<1>3. q = IF s = "s_dead" THEN Fail(Goto(p, s), "INVALID_URL") ELSE Goto(p, s)
  BY DEF url_char, s
<1> HIDE DEF q
<1>4. /\ IsQuiet(q, p) /\ q.state = s /\ q.type = p.type
      /\ q.errno = IF s = "s_dead" THEN "INVALID_URL" ELSE "OK"
  BY <1>1, <1>2, <1>3 DEF Goto, Fail, Typed, Fields, IsQuiet
<1>5. OnlyMark(q, "url") /\ Marked(q, "url") /\ Typed(q)
  BY <1>4 DEF OnlyMark, Marked, IsQuiet
<1>6. CASE s = "s_dead"
  <2>1. Failed(q) /\ Good(q)
    BY <1>2, <1>4, <1>5, <1>6 DEF Failed, Good, OneMark, InChunks
  <2> QED BY <1>4, <2>1 DEF Done, q
<1>7. CASE s \in UrlStates
  <2>1. Resumed(s) = {"url"}
    BY <1>7 DEF Resumed, UrlStates
  <2>2. Reading(q, "url")
    BY <1>2, <1>4, <1>5, <1>7, <2>1 DEF Reading, KnownValue, UrlStates
  <2>3. Done(q)
    BY <1>2, <2>2, MarkedDone
  <2> QED BY <1>4, <1>7, <2>3 DEF q
<1> QED BY <1>1, <1>6, <1>7

LEMMA SpacesDone ==
    ASSUME NEW p, Ready(p), p.state = "s_req_spaces_before_url", NEW ch
    PROVE  Done(s_req_spaces_before_url(p, ch))
<1> DEFINE q == MARK(p, "url")
           r == IF p.method = "CONNECT" THEN Goto(q, "s_req_server_start") ELSE q
<1>1. p.state \in Plain /\ "s_req_server_start" \in States /\ "url" \in DataCallbacks
  BY DEF Plain, States, BodyStates, ChunkStates, SizeStates, UrlStates, Undecided, DataCallbacks
<1>2. NoMark(p) /\ p.type # "BOTH" /\ Typed(p) /\ p.errno = "OK"
  BY <1>1, PlainReady, ReadyTyped
<1>3. IsMark(q, p, "url")
  BY <1>1, <1>2, MarkEffect DEF NoMark, OnlyMark
<1>4. s_req_spaces_before_url(p, ch) = IF ch = Blank THEN p ELSE url_char(r, ch)
  BY DEF s_req_spaces_before_url
<1> HIDE DEF q
<1>5. Typed(r) /\ r.marks = q.marks /\ r.type = p.type /\ r.errno = "OK"
  BY <1>1, <1>2, <1>3 DEF IsMark, Kept, Goto, Typed, Fields
<1>6. OnlyMark(r, "url") /\ Marked(r, "url")
  BY <1>3, <1>5 DEF IsMark, OnlyMark, Marked
<1> HIDE DEF r
<1>7. Done(url_char(r, ch))
  BY <1>2, <1>5, <1>6, UrlCharDone
<1> QED BY <1>1, <1>2, <1>4, <1>7, PlainDone

LEMMA UrlDone ==
    ASSUME NEW p, Ready(p), p.state \in UrlStates, NEW ch, NEW a
    PROVE  Done(s_req_url(p, ch, a))
<1> DEFINE r == Goto(p, "s_req_http_start")
           t == [p EXCEPT !.http_major = 0, !.http_minor = 9,
                          !.state = IF ch = CR THEN "s_req_line_almost_done"
                                    ELSE "s_header_field_start"]
           whole == p.state \notin {"s_req_schema", "s_req_schema_slash",
                                 "s_req_schema_slash_slash", "s_req_server_start"}
<1>1. "s_req_http_start" \in Plain /\ "s_req_line_almost_done" \in Plain
      /\ "s_header_field_start" \in Plain /\ "url" \in DataCallbacks
      /\ "INVALID_URL" \in Errors \ {"OK", "ASSERT"}
  BY DEF Plain, States, BodyStates, ChunkStates, SizeStates, UrlStates, Undecided,
     DataCallbacks, Errors
<1>2. Resumed(p.state) = {"url"}
  BY DEF Resumed, UrlStates
<1>3. Reading(p, "url") /\ p.errno = "OK" /\ Good(p)
  BY <1>1, <1>2, MarkedReady, ReadyTyped
<1>4. Typed(p) /\ OnlyMark(p, "url") /\ Marked(p, "url") /\ p.type # "BOTH"
  BY <1>3 DEF Reading
<1>5. Typed(r) /\ r.marks = p.marks /\ r.state \in Plain /\ r.type = p.type /\ r.errno = "OK"
  BY <1>1, <1>3, <1>4, PlainStates DEF Goto, Typed, Fields
<1>6. Typed(t) /\ t.marks = p.marks /\ t.state \in Plain /\ t.type = p.type /\ t.errno = "OK"
  BY <1>1, <1>3, <1>4, PlainStates DEF Typed, Fields
<1>7. s_req_url(p, ch, a) =
        CASE ch = Blank /\ whole -> CALLBACK_DATA(r, "url", a)
          [] ch \in {CR, LF} /\ whole -> CALLBACK_DATA(t, "url", a)
          [] ch \in {Blank, CR, LF} /\ ~whole -> Fail(p, "INVALID_URL")
          [] OTHER -> url_char(p, ch)
  BY DEF s_req_url
<1> HIDE DEF r, t, whole
<1>8. Done(CALLBACK_DATA(r, "url", a)) /\ Done(CALLBACK_DATA(t, "url", a))
  <2>1. OnlyMark(r, "url") /\ OnlyMark(t, "url")
    BY <1>4, <1>5, <1>6 DEF OnlyMark, Marked
  <2> QED BY <1>1, <1>4, <1>5, <1>6, <2>1, DataPlain
<1>9. Done(url_char(p, ch)) /\ Done(Fail(p, "INVALID_URL"))
  BY <1>1, <1>3, <1>4, UrlCharDone, FailDone
<1> QED BY <1>7, <1>8, <1>9 DEF Blank, CR, LF

\* In the reason of a response, or at its start.
LEMMA StatusDone ==
    ASSUME NEW p, Typed(p), OnlyMark(p, "status"), Marked(p, "status"), p.type # "BOTH",
           p.errno = "OK", p.state = "s_res_status", NEW ch, NEW a
    PROVE  Done(s_res_status(p, ch, a))
<1> DEFINE r == Goto(p, "s_res_line_almost_done")
           t == Goto(p, "s_header_field_start")
<1>1. "s_res_line_almost_done" \in Plain /\ "s_header_field_start" \in Plain
      /\ "status" \in DataCallbacks
  BY DEF Plain, States, BodyStates, ChunkStates, SizeStates, UrlStates, Undecided,
     DataCallbacks
<1>2. Typed(r) /\ r.marks = p.marks /\ r.state \in Plain /\ r.type = p.type /\ r.errno = "OK"
  BY <1>1, PlainStates DEF Goto, Typed, Fields
<1>3. Typed(t) /\ t.marks = p.marks /\ t.state \in Plain /\ t.type = p.type /\ t.errno = "OK"
  BY <1>1, PlainStates DEF Goto, Typed, Fields
<1>4. s_res_status(p, ch, a) =
        CASE ch = CR -> CALLBACK_DATA(r, "status", a)
          [] ch = LF -> CALLBACK_DATA(t, "status", a)
          [] OTHER -> p
  BY DEF s_res_status
<1> HIDE DEF r, t
<1>5. Done(CALLBACK_DATA(r, "status", a)) /\ Done(CALLBACK_DATA(t, "status", a))
  <2>1. OnlyMark(r, "status") /\ OnlyMark(t, "status")
    BY <1>2, <1>3 DEF OnlyMark, Marked
  <2> QED BY <1>1, <1>2, <1>3, <2>1, DataPlain
<1>6. Done(p)
  <2>1. Resumed(p.state) = {"status"}
    BY DEF Resumed, UrlStates
  <2> QED BY <1>1, <2>1, MarkedDone DEF Reading, KnownValue
<1> QED BY <1>4, <1>5, <1>6 DEF CR, LF

LEMMA StatusStartDone ==
    ASSUME NEW p, Ready(p), p.state \in {"s_res_status_start", "s_res_status_code"},
           NEW ch, NEW a
    PROVE  Done(s_res_status_start(p, ch, a))
<1> DEFINE q == MARK(p, "status")
           r == [q EXCEPT !.state = "s_res_status"]
<1>1. p.state \in Plain /\ "s_res_status" \in States /\ "status" \in DataCallbacks
  BY DEF Plain, States, BodyStates, ChunkStates, SizeStates, UrlStates, Undecided, DataCallbacks
<1>2. NoMark(p) /\ p.type # "BOTH" /\ Typed(p) /\ p.errno = "OK"
  BY <1>1, PlainReady, ReadyTyped
<1>3. IsMark(q, p, "status")
  BY <1>1, <1>2, MarkEffect DEF NoMark, OnlyMark
<1>4. s_res_status_start(p, ch, a) = s_res_status(r, ch, a)
  BY DEF s_res_status_start
<1> HIDE DEF q
<1>5. Typed(r) /\ r.marks = q.marks /\ r.type = p.type /\ r.errno = "OK" /\ r.state = "s_res_status"
  BY <1>1, <1>2, <1>3 DEF IsMark, Kept, Typed, Fields
<1>6. OnlyMark(r, "status") /\ Marked(r, "status")
  BY <1>3, <1>5 DEF IsMark, OnlyMark, Marked
<1> HIDE DEF r
<1> QED BY <1>2, <1>4, <1>5, <1>6, StatusDone

LEMMA StatusCodeDone ==
    ASSUME NEW p, Ready(p), p.state = "s_res_status_code", NEW ch, NEW a
    PROVE  Done(s_res_status_code(p, ch, a))
<1> DEFINE code == p.status_code * 10 + Digit[ch]
           r == [p EXCEPT !.status_code = code]
           t == Goto(p, "s_res_status_start")
<1>1. p.state \in Plain /\ "s_res_status_start" \in Plain
      /\ "INVALID_STATUS" \in Errors \ {"OK", "ASSERT"}
  BY DEF Plain, States, BodyStates, ChunkStates, SizeStates, UrlStates, Undecided, Errors
<1>2. NoMark(p) /\ p.type # "BOTH" /\ Typed(p) /\ p.errno = "OK" /\ Good(p)
  BY <1>1, PlainReady, ReadyTyped
<1>3. s_res_status_code(p, ch, a) =
        CASE ch \in Num -> IF code > 999 THEN Fail(p, "INVALID_STATUS") ELSE r
          [] ch = Blank -> t
          [] ch \in {CR, LF} -> s_res_status_start(p, ch, a)
          [] OTHER -> Fail(p, "INVALID_STATUS")
  BY DEF s_res_status_code
<1>4. ASSUME ch \in Num, ~(code > 999) PROVE Done(r)
  <2>1. code \in 0..999
    <3>1. Digit[ch] \in 0..9 /\ p.status_code \in 0..999
      BY <1>2, <1>4 DEF Num, Digit, Typed
    <3>2. PICK x \in 0..999, d \in 0..9 : x = p.status_code /\ d = Digit[ch]
      BY <3>1
    <3>3. code = x * 10 + d /\ ~(code > 999)
      BY <1>4, <3>2
    <3> HIDE DEF code
    <3> QED BY <3>3
  <2> HIDE DEF code
  <2>2. IsQuiet(r, p) /\ r.state = p.state /\ r.type = p.type /\ r.errno = "OK"
    BY <1>2, <2>1 DEF Typed, Fields, IsQuiet
  <2> HIDE DEF r
  <2> QED BY <1>1, <2>2, QuietDone
<1>5. Done(t)
  <2>1. IsQuiet(t, p) /\ t.state \in Plain /\ t.type = p.type /\ t.errno = "OK"
    BY <1>1, <1>2, PlainStates DEF Typed, Fields, IsQuiet, Goto
  <2> HIDE DEF t
  <2> QED BY <1>1, <2>1, QuietDone
<1>6. Done(Fail(p, "INVALID_STATUS")) /\ Done(s_res_status_start(p, ch, a))
  BY <1>1, <1>2, FailDone, StatusStartDone
<1> HIDE DEF r, t, code
<1>7. CASE ch \in Num
  <2>1. s_res_status_code(p, ch, a) = IF code > 999 THEN Fail(p, "INVALID_STATUS") ELSE r
    <3>1. ch # Blank /\ ch \notin {CR, LF}
      BY <1>7 DEF Num, Blank, CR, LF
    <3> QED BY <1>3, <1>7, <3>1
  <2> QED BY <1>4, <1>6, <1>7, <2>1
<1>8. CASE ch \notin Num
  BY <1>3, <1>5, <1>6, <1>8
<1> QED BY <1>7, <1>8
-----------------------------------------------------------------------------
(* The body.                                                               *)

\* The record after a message; the state is one of a new message.
LEMMA CompleteDone ==
    ASSUME NEW p, Typed(p), NoMark(p), p.type # "BOTH", NEW a
    PROVE  LET q == message_complete(p, a)
           IN  /\ Done(q) /\ NoMark(q)
               /\ q.out = Append(p.out, [cb |-> "message_complete", n |-> 0, extra |-> 0])
               /\ q.state \in {"s_dead", "s_start_req", "s_start_res"}
               /\ q.exited = p.upgrade /\ q.upgrade = p.upgrade /\ q.flags = p.flags
               /\ q.errno \in {"OK", "CB"}
<1> DEFINE s == NEW_MESSAGE(p)
           r == Goto(p, s)
           n == CALLBACK_NOTIFY(r, "message_complete", a)
           q == [n EXCEPT !.exited = p.upgrade]
<1>1. s \in Plain /\ s \in {"s_dead", "s_start_req", "s_start_res"}
  <2>1. {"s_dead", "s_start_req", "s_start_res"} \subseteq Plain
    BY DEF Plain, States, BodyStates, ChunkStates, SizeStates, UrlStates, Undecided
  <2>2. s \in {"s_dead", "s_start_req", "s_start_res"}
    BY DEF NEW_MESSAGE
  <2> QED BY <2>1, <2>2
<1>2. "message_complete" \in Callbacks
  BY DEF Callbacks
<1> HIDE DEF s
<1>3. /\ Typed(r) /\ r.marks = p.marks /\ r.out = p.out /\ r.type = p.type /\ r.state = s
      /\ r.upgrade = p.upgrade /\ r.flags = p.flags
  BY <1>1, PlainStates DEF Goto, Typed, Fields
<1> HIDE DEF r
<1>4. IsCall(n, r, "message_complete", 0, 0, a)
  BY <1>2, <1>3, NotifyEffect
<1>5. message_complete(p, a) = q
  BY DEF message_complete, r, s
<1> HIDE DEF n
<1>6. p.upgrade \in BOOLEAN
  BY DEF Typed
<1>7. Typed(q)
  <2>1. Typed(n)
    BY <1>4 DEF IsCall
  <2> QED BY <1>6, <2>1 DEF Typed, Fields
<1>8. /\ q.marks = p.marks /\ q.type = p.type /\ q.state = s /\ q.exited = p.upgrade
      /\ q.upgrade = p.upgrade /\ q.flags = p.flags /\ q.errno \in {"OK", "CB"}
      /\ q.out = Append(p.out, [cb |-> "message_complete", n |-> 0, extra |-> 0])
  <2>1. DOMAIN n = Fields
    BY <1>4 DEF IsCall, Typed
  <2>2. /\ n.marks = p.marks /\ n.type = p.type /\ n.state = s
        /\ n.upgrade = p.upgrade /\ n.flags = p.flags /\ n.errno \in {"OK", "CB"}
        /\ n.out = Append(p.out, [cb |-> "message_complete", n |-> 0, extra |-> 0])
    BY <1>3, <1>4 DEF IsCall, Kept
  <2> QED BY <2>1, <2>2 DEF Fields
<1> HIDE DEF q
<1>9. NoMark(q)
  BY <1>8 DEF NoMark, Marked
<1>10. Done(q)
  BY <1>1, <1>7, <1>8, <1>9, PlainDone
<1> QED BY <1>1, <1>5, <1>8, <1>9, <1>10

LEMMA BodyIdentityDone ==
    ASSUME NEW p, Ready(p), p.state = "s_body_identity", NEW ch, NEW a
    PROVE  Done(s_body_identity(p, ch, a))
<1> DEFINE m == MARK(p, "body")
           q == [m EXCEPT !.content_length = @ - 1]
           d == CALLBACK_DATA_(q, "body", 1, a)
           c == message_complete(d, a)
<1>1. p.state \in BodyStates /\ "body" \in DataCallbacks /\ p.state \notin ChunkStates
  BY DEF BodyStates, DataCallbacks, ChunkStates, SizeStates
<1>2. OnlyMark(p, "body") /\ p.type # "BOTH" /\ Typed(p) /\ p.errno = "OK"
  BY <1>1, BodyReady, ReadyTyped
<1>3. p.content_length \in 1..(ULLONG_MAX - 1)
  BY DEF Ready, Control, BodyLeft
<1>4. IsMark(m, p, "body")
  BY <1>1, <1>2, MarkEffect
<1> HIDE DEF m
<1>5. m.content_length - 1 \in 0..ULLONG_MAX /\ m.content_length - 1 < ULLONG_MAX - 1
  BY <1>3, <1>4, HttpParserAssumption DEF IsMark, Kept
<1>6. /\ Typed(q) /\ q.marks = m.marks /\ q.state = p.state /\ q.type = p.type /\ q.errno = "OK"
      /\ q.content_length = m.content_length - 1
  BY <1>2, <1>4, <1>5 DEF IsMark, Kept, Typed, Fields
<1>7. s_body_identity(p, ch, a) = IF q.content_length > 0 THEN q ELSE IF Failed(d) THEN d ELSE c
  BY DEF s_body_identity, m
<1> HIDE DEF q
<1>8. OnlyMark(q, "body")
  BY <1>4, <1>6 DEF IsMark, OnlyMark, Marked
<1>9. IsData(d, q, "body", 1, a)
  BY <1>1, <1>6, <1>8, DataEffect
<1>10. ASSUME q.content_length > 0 PROVE Done(q)
  <2>1. q.content_length \in 1..(ULLONG_MAX - 1)
    BY <1>5, <1>6, <1>10, HttpParserAssumption
  <2>2. BodyLeft(q) /\ InChunks(q) /\ Kind(q)
    BY <1>1, <1>2, <1>6, <2>1 DEF BodyLeft, InChunks, Kind
  <2> QED BY <1>1, <1>6, <1>8, <2>2, BodyDone
<1> HIDE DEF d
<1>11. ASSUME Failed(d) PROVE Done(d)
  BY <1>1, <1>6, <1>9, <1>11 DEF IsData, Kept, Done, Good, OneMark, InChunks
<1>12. ASSUME ~Failed(d) PROVE Done(c)
  <2>1. Typed(d) /\ NoMark(d) /\ d.type # "BOTH"
    BY <1>2, <1>6, <1>9, <1>12 DEF IsData, Kept
  <2> QED BY <2>1, CompleteDone
<1> HIDE DEF c
<1> QED BY <1>7, <1>10, <1>11, <1>12

LEMMA BodyEofDone ==
    ASSUME NEW p, Ready(p), p.state = "s_body_identity_eof"
    PROVE  Done(s_body_identity_eof(p))
<1> DEFINE q == MARK(p, "body")
<1>1. p.state \in BodyStates /\ "body" \in DataCallbacks /\ p.state \notin ChunkStates
  BY DEF BodyStates, DataCallbacks, ChunkStates, SizeStates
<1>2. OnlyMark(p, "body") /\ p.type = "RESPONSE" /\ Typed(p) /\ p.errno = "OK"
  BY <1>1, BodyReady, ReadyTyped DEF Ready, Control, Kind
<1>3. IsMark(q, p, "body")
  BY <1>1, <1>2, MarkEffect
<1> HIDE DEF q
<1>4. BodyLeft(q) /\ InChunks(q) /\ Kind(q) /\ q.state \in BodyStates /\ q.errno # "ASSERT"
  BY <1>1, <1>2, <1>3 DEF IsMark, Kept, BodyLeft, InChunks, Kind
<1>5. Done(q)
  BY <1>3, <1>4, BodyDone DEF IsMark
<1> QED BY <1>5 DEF s_body_identity_eof, q

-----------------------------------------------------------------------------
(* Lengths.                                                                *)

\* A length and one more digit, of base 10 or 16.
Within(l, base, d) == ~((ULLONG_MAX - base) \div base < l)

LEMMA TenFits ==
    ASSUME NEW l \in 0..ULLONG_MAX, NEW d \in 0..9, Within(l, 10, d)
    PROVE  /\ l * 10 + d \in 0..(ULLONG_MAX - 1)
           /\ (l * 10 + d) % (ULLONG_MAX + 1) = l * 10 + d
<1>1. l * 10 + d \in 0..(ULLONG_MAX - 1)
  BY HttpParserAssumption DEF Within
<1> DEFINE x == l * 10 + d
<1> HIDE DEF x
<1>2. ASSUME x \in 0..(ULLONG_MAX - 1) PROVE x % (ULLONG_MAX + 1) = x
  BY <1>2, HttpParserAssumption
<1> QED BY <1>1, <1>2 DEF x

LEMMA SixteenFits ==
    ASSUME NEW l \in 0..ULLONG_MAX, NEW d \in 0..15, Within(l, 16, d)
    PROVE  /\ l * 16 + d \in 0..(ULLONG_MAX - 1)
           /\ (l * 16 + d) % (ULLONG_MAX + 1) = l * 16 + d
<1>1. l * 16 + d \in 0..(ULLONG_MAX - 1)
  BY HttpParserAssumption DEF Within
<1> DEFINE x == l * 16 + d
<1> HIDE DEF x
<1>2. ASSUME x \in 0..(ULLONG_MAX - 1) PROVE x % (ULLONG_MAX + 1) = x
  BY <1>2, HttpParserAssumption
<1> QED BY <1>1, <1>2 DEF x

IsDigits(q, p, base, d) ==
    /\ IsQuiet(q, p) /\ q.state = p.state /\ q.type = p.type /\ q.header = p.header
    /\ q.flags = p.flags
    /\ \/ q.errno = "INVALID_CONTENT_LENGTH"
       \/ /\ q.errno = "OK" /\ q.content_length = p.content_length * base + d
          /\ q.content_length \in 0..(ULLONG_MAX - 1)

LEMMA DigitsEffect ==
    ASSUME NEW p, Typed(p), p.errno = "OK", NEW base \in {10, 16}, NEW d \in 0..(base - 1)
    PROVE  IsDigits(Digits(p, base, d), p, base, d)
<1> DEFINE q == Digits(p, base, d)
           l == p.content_length
           x == (l * base + d) % (ULLONG_MAX + 1)
<1>1. "INVALID_CONTENT_LENGTH" \in Errors /\ l \in 0..ULLONG_MAX
  BY DEF Errors, Typed
<1>2. q = IF Within(l, base, d) THEN [p EXCEPT !.content_length = x]
          ELSE Fail(p, "INVALID_CONTENT_LENGTH")
  BY DEF Digits, Within
<1>3. ASSUME Within(l, base, d)
      PROVE  x \in 0..(ULLONG_MAX - 1) /\ x = l * base + d
  <2>1. CASE base = 10
    <3>1. d \in 0..9
      BY <2>1
    <3> QED BY <1>1, <1>3, <2>1, <3>1, TenFits
  <2>2. CASE base = 16
    <3>1. d \in 0..15
      BY <2>2
    <3> QED BY <1>1, <1>3, <2>2, <3>1, SixteenFits
  <2> QED BY <2>1, <2>2
<1> HIDE DEF q, x, l
<1>4. CASE Within(l, base, d)
  <2>1. q = [p EXCEPT !.content_length = x] /\ x \in 0..ULLONG_MAX
    BY <1>2, <1>3, <1>4, HttpParserAssumption
  <2>2. Typed(q)
    BY <2>1 DEF Typed, Fields
  <2>3. IsQuiet(q, p) /\ q.state = p.state /\ q.type = p.type /\ q.header = p.header
        /\ q.flags = p.flags /\ q.errno = "OK" /\ q.content_length = x
    BY <2>1, <2>2 DEF Typed, Fields, IsQuiet
  <2> QED BY <1>3, <1>4, <2>3 DEF IsDigits, q, l
<1>5. CASE ~Within(l, base, d)
  <2>1. IsQuiet(q, p) /\ q.state = p.state /\ q.type = p.type /\ q.header = p.header
        /\ q.flags = p.flags /\ q.errno = "INVALID_CONTENT_LENGTH"
    BY <1>1, <1>2, <1>5 DEF Fail, Typed, Fields, IsQuiet
  <2> QED BY <2>1 DEF IsDigits, q
<1> QED BY <1>4, <1>5

-----------------------------------------------------------------------------
(* Chunks.                                                                 *)

\* The record q is p in another state of a chunk, perhaps with another length.
LEMMA ChunkQuiet ==
    ASSUME NEW p, Ready(p), p.state \in ChunkStates \ BodyStates, NEW q, IsQuiet(q, p),
           q.state \in ChunkStates \ BodyStates, q.type = p.type, q.flags = p.flags,
           SizeFits(q), q.errno # "ASSERT"
    PROVE  Done(q)
<1>1. NoMark(p) /\ p.type # "BOTH" /\ "CHUNKED" \in p.flags
  BY ChunkReady
<1>2. NoMark(q)
  BY <1>1 DEF NoMark, Marked, IsQuiet
<1> QED BY <1>1, <1>2, ChunkDone DEF IsQuiet

LEMMA ChunkSizeStartDone ==
    ASSUME NEW p, Ready(p), p.state = "s_chunk_size_start", NEW ch
    PROVE  Done(s_chunk_size_start(p, ch)) /\ IsQuiet(s_chunk_size_start(p, ch), p)
<1> DEFINE q == [p EXCEPT !.content_length = unhex[ch], !.state = "s_chunk_size"]
<1>1. p.state \in ChunkStates \ BodyStates /\ "s_chunk_size" \in ChunkStates \ BodyStates
      /\ "s_chunk_size" \in States /\ "INVALID_CHUNK_SIZE" \in Errors \ {"OK", "ASSERT"}
  BY DEF ChunkStates, SizeStates, BodyStates, States, Errors
<1>2. Typed(p) /\ p.errno = "OK" /\ Good(p)
  BY ReadyTyped
<1>3. CASE ch \notin Hex
  BY <1>1, <1>2, <1>3, FailDone DEF s_chunk_size_start
<1>4. CASE ch \in Hex
  <2>1. unhex[ch] \in 0..12
    BY <1>4 DEF Hex, unhex, Num, Digit
  <2>2. unhex[ch] \in 0..(ULLONG_MAX - 1) /\ unhex[ch] \in 0..ULLONG_MAX
    BY <2>1, HttpParserAssumption
  <2>3. Typed(q)
    BY <1>1, <1>2, <2>2 DEF Typed, Fields
  <2>4. IsQuiet(q, p) /\ q.state = "s_chunk_size" /\ q.type = p.type /\ q.flags = p.flags
        /\ q.errno = "OK" /\ q.content_length = unhex[ch]
    BY <1>2, <2>3 DEF Typed, Fields, IsQuiet
  <2>5. s_chunk_size_start(p, ch) = q
    BY <1>4 DEF s_chunk_size_start
  <2> HIDE DEF q
  <2>6. SizeFits(q)
    BY <2>2, <2>4, HttpParserAssumption DEF SizeFits
  <2> QED BY <1>1, <2>4, <2>5, <2>6, ChunkQuiet
<1> QED BY <1>3, <1>4

LEMMA ChunkSizeDone ==
    ASSUME NEW p, Ready(p), p.state = "s_chunk_size", NEW ch
    PROVE  Done(s_chunk_size(p, ch)) /\ IsQuiet(s_chunk_size(p, ch), p)
<1> DEFINE q == Digits(p, 16, unhex[ch])
           r == Goto(p, "s_chunk_size_almost_done")
           t == Goto(p, "s_chunk_parameters")
<1>1. /\ p.state \in ChunkStates \ BodyStates
      /\ {"s_chunk_size_almost_done", "s_chunk_parameters"} \subseteq ChunkStates \ BodyStates
      /\ {"s_chunk_size_almost_done", "s_chunk_parameters"} \subseteq States
      /\ "INVALID_CHUNK_SIZE" \in Errors \ {"OK", "ASSERT"}
  BY DEF ChunkStates, SizeStates, BodyStates, States, Errors
<1>2. Typed(p) /\ p.errno = "OK" /\ Good(p) /\ p.content_length # ULLONG_MAX
  BY ReadyTyped DEF Ready, Control, SizeFits, SizeStates
<1>3. ASSUME ch \in Hex PROVE Done(q) /\ IsQuiet(q, p)
  <2>1. unhex[ch] \in 0..(16 - 1)
    BY <1>3 DEF Hex, unhex, Num, Digit
  <2>2. IsDigits(q, p, 16, unhex[ch])
    BY <1>2, <2>1, DigitsEffect
  <2> HIDE DEF q
  <2>3. CASE q.errno = "INVALID_CONTENT_LENGTH"
    <3>1. Good(q) /\ Failed(q)
      BY <1>2, <2>2, <2>3 DEF IsDigits, IsQuiet, Good, OneMark, OnlyMark, Marked, InChunks, Failed
    <3> QED BY <2>2, <3>1 DEF Done, IsDigits
  <2>4. CASE q.errno # "INVALID_CONTENT_LENGTH"
    <3>1. SizeFits(q) /\ q.errno = "OK"
      BY <2>2, <2>4, HttpParserAssumption DEF IsDigits, SizeFits
    <3> QED BY <1>1, <2>2, <3>1, ChunkQuiet DEF IsDigits
  <2> QED BY <2>3, <2>4
<1>4. /\ IsQuiet(r, p) /\ r.state = "s_chunk_size_almost_done" /\ r.type = p.type
      /\ r.flags = p.flags /\ r.errno = "OK" /\ r.content_length = p.content_length
  BY <1>1, <1>2 DEF Goto, Typed, Fields, IsQuiet
<1>5. /\ IsQuiet(t, p) /\ t.state = "s_chunk_parameters" /\ t.type = p.type
      /\ t.flags = p.flags /\ t.errno = "OK" /\ t.content_length = p.content_length
  BY <1>1, <1>2 DEF Goto, Typed, Fields, IsQuiet
<1> HIDE DEF q, r, t
<1>6. Done(r) /\ Done(t)
  BY <1>1, <1>2, <1>4, <1>5, ChunkQuiet DEF SizeFits
<1>7. Done(Fail(p, "INVALID_CHUNK_SIZE")) /\ IsQuiet(Fail(p, "INVALID_CHUNK_SIZE"), p)
  BY <1>1, <1>2, FailDone
<1>8. s_chunk_size(p, ch) =
        CASE ch = CR -> r
          [] ch \in Hex -> q
          [] ch \in {";", Blank} -> t
          [] OTHER -> Fail(p, "INVALID_CHUNK_SIZE")
  BY DEF s_chunk_size, q, r, t
<1> QED BY <1>3, <1>4, <1>5, <1>6, <1>7, <1>8 DEF Hex, Num, CR, Blank

LEMMA ChunkParametersDone ==
    ASSUME NEW p, Ready(p), p.state = "s_chunk_parameters", NEW ch
    PROVE  Done(s_chunk_parameters(p, ch)) /\ IsQuiet(s_chunk_parameters(p, ch), p)
<1> DEFINE r == Goto(p, "s_chunk_size_almost_done")
<1>1. /\ p.state \in ChunkStates \ BodyStates
      /\ "s_chunk_size_almost_done" \in (ChunkStates \ BodyStates) \cap States
  BY DEF ChunkStates, SizeStates, BodyStates, States
<1>2. Typed(p) /\ p.errno = "OK" /\ p.content_length # ULLONG_MAX
  BY ReadyTyped DEF Ready, Control, SizeFits, SizeStates
<1>3. /\ IsQuiet(r, p) /\ r.state = "s_chunk_size_almost_done" /\ r.type = p.type
      /\ r.flags = p.flags /\ r.errno = "OK" /\ r.content_length = p.content_length
  BY <1>1, <1>2 DEF Goto, Typed, Fields, IsQuiet
<1>4. s_chunk_parameters(p, ch) = IF ch = CR THEN r ELSE p
  BY DEF s_chunk_parameters
<1> HIDE DEF r
<1>5. Done(r) /\ Done(p)
  BY <1>1, <1>2, <1>3, ChunkQuiet DEF SizeFits, Ready, Done
<1>6. IsQuiet(p, p)
  BY <1>2 DEF IsQuiet
<1> QED BY <1>3, <1>4, <1>5, <1>6

LEMMA ChunkSizeAlmostDone ==
    ASSUME NEW p, Ready(p), p.state = "s_chunk_size_almost_done", NEW ch, NEW a
    PROVE  Done(s_chunk_size_almost_done(p, ch, a))
<1> DEFINE last == p.content_length = 0
           q == [p EXCEPT !.flags = IF last THEN @ \cup {"TRAILING"} ELSE @,
                          !.state = IF last THEN "s_header_field_start" ELSE "s_chunk_data"]
           n == CALLBACK_NOTIFY(q, "chunk_header", a)
<1>1. /\ p.state \in ChunkStates \ BodyStates
      /\ "s_header_field_start" \in Plain /\ "s_chunk_data" \in BodyStates \cap States
      /\ "TRAILING" \in Flags /\ "chunk_header" \in Callbacks
      /\ "STRICT" \in Errors \ {"OK", "ASSERT"}
  BY DEF ChunkStates, SizeStates, BodyStates, UrlStates, Undecided, Plain, States, Flags,
     Callbacks, Errors
<1>2. /\ Typed(p) /\ Good(p) /\ p.errno = "OK" /\ NoMark(p) /\ p.type # "BOTH"
      /\ "CHUNKED" \in p.flags /\ p.content_length # ULLONG_MAX
  BY <1>1, ReadyTyped, ChunkReady DEF SizeFits, SizeStates
<1>3. CASE ch # LF
  BY <1>1, <1>2, <1>3, FailDone DEF s_chunk_size_almost_done
<1>4. CASE ch = LF
  <2>1. Typed(q)
    BY <1>1, <1>2, PlainStates DEF Typed, Fields
  <2>2. /\ q.marks = p.marks /\ q.type = p.type /\ q.content_length = p.content_length
        /\ q.state = IF last THEN "s_header_field_start" ELSE "s_chunk_data"
        /\ "CHUNKED" \in q.flags
    BY <1>2 DEF Typed, Fields
  <2>3. s_chunk_size_almost_done(p, ch, a) = n
    BY <1>4 DEF s_chunk_size_almost_done
  <2> HIDE DEF q
  <2>4. NoMark(q)
    BY <1>2, <2>2 DEF NoMark, Marked
  <2>5. CASE last
    BY <1>1, <1>2, <2>1, <2>2, <2>3, <2>4, <2>5, NotifyPlain
  <2>6. CASE ~last
    <3>1. IsCall(n, q, "chunk_header", 0, 0, a)
      BY <1>1, <2>1, NotifyEffect
    <3> HIDE DEF n
    <3>2. /\ Typed(n) /\ n.state = "s_chunk_data" /\ n.type = p.type /\ n.flags = q.flags
          /\ n.marks = q.marks /\ n.content_length = p.content_length /\ n.errno # "ASSERT"
      BY <2>2, <2>6, <3>1 DEF IsCall, Kept
    <3>3. n.content_length \in 1..(ULLONG_MAX - 1)
      BY <1>2, <2>6, <3>2, HttpParserAssumption DEF Typed
    <3>4. OnlyMark(n, "body") /\ BodyLeft(n) /\ InChunks(n) /\ Kind(n)
      BY <1>2, <2>2, <2>4, <3>2, <3>3 DEF OnlyMark, NoMark, Marked, BodyLeft, InChunks, Kind
    <3> QED BY <1>1, <2>3, <3>2, <3>4, BodyDone
  <2> QED BY <2>5, <2>6
<1> QED BY <1>3, <1>4

LEMMA ChunkDataDone ==
    ASSUME NEW p, Ready(p), p.state = "s_chunk_data", NEW ch
    PROVE  Done(s_chunk_data(p, ch))
<1> DEFINE m == MARK(p, "body")
           q == [m EXCEPT !.content_length = @ - 1]
           r == Goto(q, "s_chunk_data_almost_done")
<1>1. /\ p.state \in BodyStates /\ "body" \in DataCallbacks
      /\ "s_chunk_data_almost_done" \in BodyStates \cap States
      /\ {"s_chunk_data", "s_chunk_data_almost_done"} \subseteq ChunkStates
  BY DEF BodyStates, DataCallbacks, ChunkStates, SizeStates, States
<1>2. OnlyMark(p, "body") /\ p.type # "BOTH" /\ Typed(p) /\ p.errno = "OK"
      /\ "CHUNKED" \in p.flags
  BY <1>1, BodyReady, ReadyTyped DEF Ready, Good, InChunks
<1>3. p.content_length \in 1..(ULLONG_MAX - 1)
  BY DEF Ready, Control, BodyLeft
<1>4. IsMark(m, p, "body")
  BY <1>1, <1>2, MarkEffect
<1> HIDE DEF m
<1>5. m.content_length - 1 \in 0..ULLONG_MAX /\ m.content_length - 1 < ULLONG_MAX - 1
  BY <1>3, <1>4, HttpParserAssumption DEF IsMark, Kept
<1>6. /\ Typed(q) /\ q.marks = m.marks /\ q.state = p.state /\ q.type = p.type /\ q.errno = "OK"
      /\ q.content_length = m.content_length - 1 /\ q.flags = p.flags
  BY <1>2, <1>4, <1>5 DEF IsMark, Kept, Typed, Fields
<1>7. s_chunk_data(p, ch) = IF q.content_length = 0 THEN r ELSE q
  BY DEF s_chunk_data, m
<1> HIDE DEF q
<1>8. OnlyMark(q, "body")
  BY <1>4, <1>6 DEF IsMark, OnlyMark, Marked
<1>9. ASSUME q.content_length # 0 PROVE Done(q)
  <2>3. q.content_length \in 0..ULLONG_MAX /\ q.content_length < ULLONG_MAX - 1
    BY <1>5, <1>6
  <2>1. q.content_length \in 1..(ULLONG_MAX - 1)
    BY <1>9, <2>3, HttpParserAssumption
  <2>2. BodyLeft(q) /\ InChunks(q) /\ Kind(q)
    BY <1>2, <1>6, <2>1 DEF BodyLeft, InChunks, Kind
  <2> QED BY <1>1, <1>6, <1>8, <2>2, BodyDone
<1>10. ASSUME q.content_length = 0 PROVE Done(r)
  <2>1. /\ Typed(r) /\ r.marks = q.marks /\ r.state = "s_chunk_data_almost_done"
        /\ r.type = p.type /\ r.errno = "OK" /\ r.flags = p.flags /\ r.content_length = 0
    BY <1>1, <1>6, <1>10 DEF Goto, Typed, Fields
  <2> HIDE DEF r
  <2>2. OnlyMark(r, "body") /\ BodyLeft(r) /\ InChunks(r) /\ Kind(r)
    BY <1>2, <1>8, <2>1 DEF OnlyMark, Marked, BodyLeft, InChunks, Kind
  <2> QED BY <1>1, <2>1, <2>2, BodyDone
<1> QED BY <1>7, <1>9, <1>10

LEMMA ChunkDataAlmostDone ==
    ASSUME NEW p, Ready(p), p.state = "s_chunk_data_almost_done", NEW ch, NEW a
    PROVE  Done(s_chunk_data_almost_done(p, ch, a))
<1> DEFINE r == Goto(p, "s_chunk_data_done")
           q == CALLBACK_DATA(r, "body", a)
<1>1. /\ p.state \in BodyStates /\ "body" \in DataCallbacks
      /\ "s_chunk_data_done" \in (ChunkStates \cap States) \ (BodyStates \cup SizeStates)
      /\ "s_chunk_data_almost_done" \in ChunkStates
      /\ "STRICT" \in Errors \ {"OK", "ASSERT"}
  BY DEF BodyStates, DataCallbacks, ChunkStates, SizeStates, States, Errors
<1>2. OnlyMark(p, "body") /\ p.type # "BOTH" /\ Typed(p) /\ p.errno = "OK"
      /\ "CHUNKED" \in p.flags /\ Good(p)
  BY <1>1, BodyReady, ReadyTyped DEF Ready, Good, InChunks
<1>3. CASE ch # CR
  BY <1>1, <1>2, <1>3, FailDone DEF s_chunk_data_almost_done
<1>4. CASE ch = CR
  <2>1. /\ Typed(r) /\ r.marks = p.marks /\ r.state = "s_chunk_data_done"
        /\ r.type = p.type /\ r.errno = "OK" /\ r.flags = p.flags
    BY <1>1, <1>2 DEF Goto, Typed, Fields
  <2>2. s_chunk_data_almost_done(p, ch, a) = q
    BY <1>4 DEF s_chunk_data_almost_done
  <2> HIDE DEF r
  <2>3. OnlyMark(r, "body")
    BY <1>2, <2>1 DEF OnlyMark, Marked
  <2>4. IsData(q, r, "body", 0, a)
    <3>1. 0 \in {0, 1}
      OBVIOUS
    <3> QED BY <1>1, <2>1, <2>3, <3>1, DataEffect DEF CALLBACK_DATA
  <2> HIDE DEF q
  <2>5. /\ Typed(q) /\ q.state = "s_chunk_data_done" /\ q.type # "BOTH" /\ "CHUNKED" \in q.flags
        /\ q.errno # "ASSERT" /\ OnlyMark(q, "body") /\ SizeFits(q)
    <3>1. q.errno # "ASSERT" /\ Typed(q) /\ OnlyMark(q, "body")
      BY <2>4 DEF IsData
    <3>2. q.state = r.state /\ q.type = r.type /\ q.flags = r.flags
      BY <2>4 DEF IsData, Kept
    <3> QED BY <1>1, <1>2, <2>1, <3>1, <3>2 DEF SizeFits
  <2>6. CASE Failed(q)
    BY <1>1, <2>2, <2>5, <2>6 DEF Done, Good, OneMark, InChunks
  <2>7. CASE ~Failed(q)
    BY <1>1, <2>2, <2>4, <2>5, <2>7, ChunkDone DEF IsData
  <2> QED BY <2>6, <2>7
<1> QED BY <1>3, <1>4

LEMMA ChunkDataDoneDone ==
    ASSUME NEW p, Ready(p), p.state = "s_chunk_data_done", NEW ch, NEW a
    PROVE  Done(s_chunk_data_done(p, ch, a))
<1> DEFINE r == Goto(p, "s_chunk_size_start")
           q == CALLBACK_NOTIFY(r, "chunk_complete", a)
<1>1. /\ p.state \in ChunkStates \ BodyStates /\ "chunk_complete" \in Callbacks
      /\ "s_chunk_size_start" \in (ChunkStates \cap States) \ (BodyStates \cup SizeStates)
      /\ "STRICT" \in Errors \ {"OK", "ASSERT"}
  BY DEF BodyStates, ChunkStates, SizeStates, States, Errors, Callbacks
<1>2. /\ Typed(p) /\ Good(p) /\ p.errno = "OK" /\ NoMark(p) /\ p.type # "BOTH"
      /\ "CHUNKED" \in p.flags
  BY <1>1, ReadyTyped, ChunkReady
<1>3. CASE ch # LF
  BY <1>1, <1>2, <1>3, FailDone DEF s_chunk_data_done
<1>4. CASE ch = LF
  <2>1. /\ Typed(r) /\ r.marks = p.marks /\ r.state = "s_chunk_size_start"
        /\ r.type = p.type /\ r.flags = p.flags
    BY <1>1, <1>2 DEF Goto, Typed, Fields
  <2>2. s_chunk_data_done(p, ch, a) = q
    BY <1>4 DEF s_chunk_data_done
  <2> HIDE DEF r
  <2>3. IsCall(q, r, "chunk_complete", 0, 0, a)
    BY <1>1, <2>1, NotifyEffect
  <2> HIDE DEF q
  <2>4. /\ Typed(q) /\ q.state = "s_chunk_size_start" /\ q.type # "BOTH" /\ "CHUNKED" \in q.flags
        /\ q.errno # "ASSERT" /\ NoMark(q) /\ SizeFits(q)
    BY <1>1, <1>2, <2>1, <2>3 DEF IsCall, Kept, SizeFits, NoMark, Marked
  <2> QED BY <1>1, <2>2, <2>4, ChunkDone
<1> QED BY <1>3, <1>4

-----------------------------------------------------------------------------
(* The end of the headers.                                                 *)

\* Between two lines of a message nothing is marked.
Steady(p) ==
    Typed(p) /\ NoMark(p) /\ p.state \in Plain /\ p.type # "BOTH" /\ p.errno = "OK"

LEMMA PlainSteady ==
    ASSUME NEW p, Ready(p), p.state \in Plain
    PROVE  Steady(p)
BY PlainReady, ReadyTyped DEF Steady

LEMMA SteadyDone ==
    ASSUME NEW p, Steady(p)
    PROVE  Done(p) /\ Good(p)
BY PlainDone DEF Steady, Done

LEMMA SteadyFails ==
    ASSUME NEW p, Steady(p), NEW e \in Errors \ {"OK", "ASSERT"}
    PROVE  Done(Fail(p, e))
BY SteadyDone, FailDone

LEMMA SteadyGoto ==
    ASSUME NEW p, Steady(p), NEW s \in Plain
    PROVE  Steady(Goto(p, s)) /\ Done(Goto(p, s))
<1>1. Steady(Goto(p, s))
  BY PlainStates DEF Goto, Steady, Typed, Fields, NoMark, Marked
<1> QED BY <1>1, SteadyDone

\* The states in which a body begins.
LEMMA BodyStarts ==
    ASSUME NEW p, Steady(p),
           NEW s \in {"s_chunk_size_start", "s_body_identity", "s_body_identity_eof"},
           s = "s_chunk_size_start" => "CHUNKED" \in p.flags,
           s = "s_body_identity" => p.content_length \in 1..(ULLONG_MAX - 1),
           s = "s_body_identity_eof" => p.type = "RESPONSE"
    PROVE  Done(Goto(p, s))
<1> DEFINE q == Goto(p, s)
<1>1. s \in States /\ "body" \in DataCallbacks
  BY DEF States, DataCallbacks
<1>2. /\ Typed(q) /\ q.marks = p.marks /\ q.state = s /\ q.type = p.type /\ q.flags = p.flags
      /\ q.content_length = p.content_length /\ q.errno = "OK"
  BY <1>1 DEF Goto, Steady, Typed, Fields
<1> HIDE DEF q
<1>3. NoMark(q) /\ q.type # "BOTH"
  BY <1>2 DEF Steady, NoMark, Marked
<1>4. ASSUME s = "s_chunk_size_start" PROVE Done(q)
  <2>1. q.state \in ChunkStates \ BodyStates /\ SizeFits(q)
    BY <1>2, <1>4 DEF ChunkStates, SizeStates, BodyStates, SizeFits
  <2> QED BY <1>2, <1>3, <1>4, <2>1, ChunkDone
<1>5. ASSUME s # "s_chunk_size_start" PROVE Done(q)
  <2>1. q.state \in BodyStates /\ q.state \notin ChunkStates
    BY <1>2, <1>5 DEF ChunkStates, SizeStates, BodyStates
  <2>2. BodyLeft(q) /\ InChunks(q) /\ Kind(q) /\ OnlyMark(q, "body")
    BY <1>2, <1>3, <1>5, <2>1 DEF BodyLeft, InChunks, Kind, OnlyMark, NoMark
  <2> QED BY <1>1, <1>2, <2>1, <2>2, BodyDone
<1> QED BY <1>4, <1>5 DEF q

LEMMA HeadersDoneDone ==
    ASSUME NEW p, Steady(p), NEW a
    PROVE  Done(s_headers_done(p, a))
<1> DEFINE c == message_complete(p, a)
<1>1. Done(c)
  BY CompleteDone DEF Steady
<1>2. "INVALID_TRANSFER_ENCODING" \in Errors \ {"OK", "ASSERT"}
  BY DEF Errors
<1>3. Done(Fail(p, "INVALID_TRANSFER_ENCODING"))
  BY <1>2, SteadyFails
<1> HIDE DEF c
<1>4. ASSUME "CHUNKED" \in p.flags PROVE Done(Goto(p, "s_chunk_size_start"))
  BY <1>4, BodyStarts
<1>5. ASSUME p.content_length \in 1..(ULLONG_MAX - 1) PROVE Done(Goto(p, "s_body_identity"))
  BY <1>5, BodyStarts
<1>6. ASSUME p.type # "REQUEST" PROVE Done(Goto(p, "s_body_identity_eof"))
  <2>1. p.type = "RESPONSE"
    BY <1>6 DEF Steady, Typed, Start
  <2> QED BY <2>1, BodyStarts
<1>7. http_message_needs_eof(p) => p.type # "REQUEST"
  BY DEF http_message_needs_eof
<1> DEFINE hasBody == "CHUNKED" \in p.flags \/ p.content_length \in 1..(ULLONG_MAX - 1)
           over == \/ p.upgrade /\ (p.method = "CONNECT" \/ "SKIPBODY" \in p.flags \/ ~hasBody)
                   \/ "SKIPBODY" \in p.flags
           needs == p.content_length = ULLONG_MAX /\ http_message_needs_eof(p)
<1>8. s_headers_done(p, a) =
        IF over THEN c
        ELSE IF "CHUNKED" \in p.flags THEN Goto(p, "s_chunk_size_start")
        ELSE IF "TRANSFER_ENCODING" \in p.flags
        THEN IF p.type = "REQUEST" THEN Fail(p, "INVALID_TRANSFER_ENCODING")
             ELSE Goto(p, "s_body_identity_eof")
        ELSE IF hasBody THEN Goto(p, "s_body_identity")
        ELSE IF needs THEN Goto(p, "s_body_identity_eof") ELSE c
  BY DEF s_headers_done, c
<1>9. needs => p.type # "REQUEST"
  BY <1>7
<1>10. hasBody => "CHUNKED" \in p.flags \/ p.content_length \in 1..(ULLONG_MAX - 1)
  OBVIOUS
<1> HIDE DEF over, needs, hasBody
<1>11. hasBody /\ "CHUNKED" \notin p.flags => Done(Goto(p, "s_body_identity"))
  BY <1>5, <1>10
<1> QED BY <1>1, <1>3, <1>4, <1>6, <1>8, <1>9, <1>11

\* The record at the end of the headers, once the user has answered.
Answered(p, a) ==
    LET answer == a["headers_complete"]
        c == CALLBACK_NOTIFY([p EXCEPT !.upgrade = Upgrades(p)], "headers_complete",
                             [a EXCEPT !["headers_complete"] = IF @ \in 1..2 THEN 0 ELSE @])
    IN  [c EXCEPT !.upgrade = @ \/ answer = 2,
                  !.flags = IF answer \in 1..2 THEN @ \cup {"SKIPBODY"} ELSE @]

IsAnswered(q, p) ==
    /\ Typed(q) /\ q.marks = p.marks /\ q.state = p.state /\ q.type = p.type
    /\ q.content_length = p.content_length /\ q.errno \in {"OK", "CB"}
    /\ q.flags \in {p.flags, p.flags \cup {"SKIPBODY"}}
    /\ q.out = Append(p.out, [cb |-> "headers_complete", n |-> 0, extra |-> 0])

LEMMA AnsweredEffect ==
    ASSUME NEW p, Typed(p), NEW a
    PROVE  IsAnswered(Answered(p, a), p)
<1> DEFINE answer == a["headers_complete"]
           u == [p EXCEPT !.upgrade = Upgrades(p)]
           b == [a EXCEPT !["headers_complete"] = IF @ \in 1..2 THEN 0 ELSE @]
           c == CALLBACK_NOTIFY(u, "headers_complete", b)
           x == c.upgrade \/ answer = 2
           f == IF answer \in 1..2 THEN c.flags \cup {"SKIPBODY"} ELSE c.flags
           h == [c EXCEPT !.upgrade = x, !.flags = f]
<1>1. "headers_complete" \in Callbacks /\ "SKIPBODY" \in Flags
  BY DEF Callbacks, Flags
<1>2. Upgrades(p) \in BOOLEAN
  BY DEF Upgrades
<1>3. /\ Typed(u) /\ u.marks = p.marks /\ u.state = p.state /\ u.type = p.type
      /\ u.content_length = p.content_length /\ u.flags = p.flags /\ u.out = p.out
  BY <1>2 DEF Typed, Fields
<1>4. Answered(p, a) = h
  BY DEF Answered
<1> HIDE DEF u, b
<1>5. IsCall(c, u, "headers_complete", 0, 0, b)
  BY <1>1, <1>3, NotifyEffect
<1> HIDE DEF c
<1>6. Typed(c) /\ x \in BOOLEAN /\ f \in SUBSET Flags
  BY <1>1, <1>5 DEF IsCall, Typed
<1>7. f \in {c.flags, c.flags \cup {"SKIPBODY"}}
  OBVIOUS
<1> HIDE DEF x, f
<1>8. /\ Typed(h) /\ h.marks = c.marks /\ h.state = c.state /\ h.type = c.type
      /\ h.content_length = c.content_length /\ h.errno = c.errno /\ h.flags = f
      /\ h.out = c.out
  BY <1>6 DEF Typed, Fields
<1> HIDE DEF h
<1>9. /\ c.marks = p.marks /\ c.state = p.state /\ c.type = p.type
      /\ c.content_length = p.content_length /\ c.errno \in {"OK", "CB"} /\ c.flags = p.flags
      /\ c.out = Append(p.out, [cb |-> "headers_complete", n |-> 0, extra |-> 0])
  BY <1>3, <1>5 DEF IsCall, Kept
<1> QED BY <1>4, <1>7, <1>8, <1>9 DEF IsAnswered

LEMMA HeadersAlmostDoneDone ==
    ASSUME NEW p, Steady(p), NEW ch, NEW a
    PROVE  Done(s_headers_almost_done(p, ch, a))
<1> DEFINE t == CALLBACK_NOTIFY(p, "chunk_complete", a)
           h == Answered(p, a)
           c == message_complete(t, a)
           d == s_headers_done(h, a)
<1>1. "STRICT" \in Errors \ {"OK", "ASSERT"} /\ "chunk_complete" \in Callbacks
      /\ "UNEXPECTED_CONTENT_LENGTH" \in Errors \ {"OK", "ASSERT"}
  BY DEF Errors, Callbacks
<1>2. Done(Fail(p, "STRICT")) /\ Done(Fail(p, "UNEXPECTED_CONTENT_LENGTH"))
  BY <1>1, SteadyFails
<1>3. Done(t) /\ IsCall(t, p, "chunk_complete", 0, 0, a)
  BY <1>1, NotifyPlain DEF Steady
<1>4. IsAnswered(h, p)
  BY AnsweredEffect DEF Steady
<1>5. s_headers_almost_done(p, ch, a) =
        CASE ch # LF -> Fail(p, "STRICT")
          [] ch = LF /\ "TRAILING" \in p.flags -> IF Failed(t) THEN t ELSE c
          [] ch = LF /\ "TRAILING" \notin p.flags
                /\ {"TRANSFER_ENCODING", "CONTENTLENGTH"} \subseteq p.flags ->
                Fail(p, "UNEXPECTED_CONTENT_LENGTH")
          [] OTHER -> IF Failed(h) THEN h ELSE d
  BY DEF s_headers_almost_done, Answered
<1> HIDE DEF t, h
<1>6. Done(c)
  <2>1. Typed(t) /\ NoMark(t) /\ t.type # "BOTH"
    BY <1>3 DEF Steady, IsCall, Kept, NoMark, Marked
  <2> QED BY <2>1, CompleteDone
<1>7. Typed(h) /\ NoMark(h) /\ h.state \in Plain /\ h.type # "BOTH" /\ h.errno # "ASSERT"
  BY <1>4 DEF Steady, IsAnswered, NoMark, Marked
<1>8. Done(h)
  BY <1>7, PlainDone
<1>9. ASSUME ~Failed(h) PROVE Done(d)
  <2>1. Steady(h)
    BY <1>7, <1>9 DEF Steady, Failed
  <2> QED BY <2>1, HeadersDoneDone
<1> HIDE DEF c, d
<1> QED BY <1>2, <1>3, <1>5, <1>6, <1>8, <1>9

-----------------------------------------------------------------------------
(* The names of the headers.                                               *)

LEMMA FieldStartDone ==
    ASSUME NEW p, Steady(p), NEW ch, NEW a
    PROVE  Done(s_header_field_start(p, ch, a))
<1> DEFINE m == MARK(p, "header_field")
           c == Lower(ch)
           x == IF c \in DOMAIN FirstOfField THEN FirstOfField[c] ELSE "general"
           q == [m EXCEPT !.state = "s_header_field", !.header = x]
<1>1. /\ "s_headers_almost_done" \in Plain
      /\ "INVALID_HEADER_TOKEN" \in Errors \ {"OK", "ASSERT"}
      /\ "header_field" \in DataCallbacks /\ "s_header_field" \in States
  BY DEF Plain, States, BodyStates, ChunkStates, SizeStates, UrlStates, Undecided, Errors,
     DataCallbacks
<1>2. x \in HeaderStates
  BY DEF FirstOfField, HeaderStates
<1>3. Done(Goto(p, "s_headers_almost_done")) /\ Done(Fail(p, "INVALID_HEADER_TOKEN"))
  BY <1>1, SteadyGoto, SteadyFails
<1>4. Done(s_headers_almost_done(p, ch, a))
  BY HeadersAlmostDoneDone
<1>5. s_header_field_start(p, ch, a) =
        CASE ch = CR -> Goto(p, "s_headers_almost_done")
          [] ch = LF -> s_headers_almost_done(p, ch, a)
          [] Token(ch) -> q
          [] OTHER -> Fail(p, "INVALID_HEADER_TOKEN")
  BY DEF s_header_field_start
<1>6. IsMark(m, p, "header_field")
  BY <1>1, MarkEffect DEF Steady, OnlyMark, NoMark
<1> HIDE DEF m, x
<1>7. /\ Typed(q) /\ q.marks = m.marks /\ q.state = "s_header_field" /\ q.type = m.type
      /\ q.errno = m.errno
  BY <1>1, <1>2, <1>6 DEF IsMark, Typed, Fields
<1> HIDE DEF q
<1>8. Resumed("s_header_field") = {"header_field"}
  BY DEF Resumed, UrlStates
<1>9. Reading(q, "header_field")
  BY <1>6, <1>7, <1>8 DEF Steady, IsMark, Kept, Reading, OnlyMark, Marked, KnownValue
<1>10. Done(q)
  BY <1>1, <1>9, MarkedDone
<1>11. ~Token(CR) /\ ~Token(LF) /\ CR # LF
  BY DEF Token, Letters, Hyphened, Num, CR, LF
<1> QED BY <1>3, <1>4, <1>5, <1>10, <1>11

LEMMA FieldDone ==
    ASSUME NEW p, Ready(p), p.state = "s_header_field", NEW ch, NEW a
    PROVE  Done(s_header_field(p, ch, a))
<1> DEFINE h == Name(p.header, ch)
           f == IF h = "transfer_encoding" THEN p.flags \cup {"TRANSFER_ENCODING"} ELSE p.flags
           q == [p EXCEPT !.header = h, !.flags = f]
           r == Goto(p, "s_header_value_discard_ws")
           d == CALLBACK_DATA(r, "header_field", a)
<1>1. /\ "s_header_value_discard_ws" \in Plain /\ "header_field" \in DataCallbacks
      /\ "INVALID_HEADER_TOKEN" \in Errors \ {"OK", "ASSERT"} /\ "TRANSFER_ENCODING" \in Flags
  BY DEF Plain, States, BodyStates, ChunkStates, SizeStates, UrlStates, Undecided, Errors,
     DataCallbacks, Flags
<1>2. h \in HeaderStates
  BY DEF Name, HeaderStates
<1>3. Resumed(p.state) = {"header_field"}
  BY DEF Resumed, UrlStates
<1>4. Reading(p, "header_field") /\ p.errno = "OK" /\ Good(p)
  BY <1>1, <1>3, MarkedReady, ReadyTyped
<1>5. f \in SUBSET Flags
  BY <1>1, <1>4 DEF Reading, Typed
<1>6. s_header_field(p, ch, a) =
        CASE Token(ch) -> q [] ch = ":" -> d [] OTHER -> Fail(p, "INVALID_HEADER_TOKEN")
  BY DEF s_header_field
<1> HIDE DEF h, f
<1>7. Done(q)
  <2>1. /\ Typed(q) /\ q.marks = p.marks /\ q.state = p.state /\ q.type = p.type
        /\ q.errno = p.errno
    BY <1>2, <1>4, <1>5 DEF Reading, Typed, Fields
  <2> HIDE DEF q
  <2>2. Reading(q, "header_field")
    BY <1>4, <2>1 DEF Reading, OnlyMark, Marked, KnownValue
  <2> QED BY <1>1, <2>2, MarkedDone
<1>8. Done(d)
  <2>1. /\ Typed(r) /\ r.marks = p.marks /\ r.state = "s_header_value_discard_ws"
        /\ r.type = p.type /\ r.errno = "OK"
    BY <1>1, <1>4, PlainStates DEF Goto, Reading, Typed, Fields
  <2> HIDE DEF r
  <2>2. OnlyMark(r, "header_field") /\ r.type # "BOTH"
    BY <1>4, <2>1 DEF Reading, OnlyMark, Marked
  <2> QED BY <1>1, <2>1, <2>2, DataPlain
<1>9. Done(Fail(p, "INVALID_HEADER_TOKEN"))
  BY <1>1, <1>4, FailDone
<1>10. ~Token(":")
  BY DEF Token, Letters, Hyphened, Num
<1> HIDE DEF q, d
<1> QED BY <1>6, <1>7, <1>8, <1>9, <1>10

-----------------------------------------------------------------------------
(* The values of the headers.                                              *)

\* In a value the header is never one whose value has not begun.
Known == HeaderStates \ {"connection", "transfer_encoding"}

InValue(q) == Reading(q, "header_value") /\ q.state = "s_header_value" /\ q.errno = "OK"

LEMMA InValueDone ==
    ASSUME NEW q, InValue(q)
    PROVE  Done(q) /\ Good(q)
<1>1. "header_value" \in DataCallbacks
  BY DEF DataCallbacks
<1> QED BY <1>1, MarkedDone DEF InValue, Done

LEMMA ValueStartDone ==
    ASSUME NEW p, Steady(p), NEW ch
    PROVE  Done(s_header_value_start(p, ch))
<1> DEFINE m == MARK(p, "header_value")
           q == [m EXCEPT !.state = "s_header_value"]
           c == Lower(ch)
           x == IF c = "c" THEN "te_chunked" ELSE "te_token"
           y == Connection(c, "conn_token")
<1>1. /\ "header_value" \in DataCallbacks /\ "s_header_value" \in States
      /\ {"INVALID_CONTENT_LENGTH", "UNEXPECTED_CONTENT_LENGTH"} \subseteq Errors \ {"OK", "ASSERT"}
      /\ {"UPGRADE", "CONTENTLENGTH"} \subseteq Flags
      /\ {"general", "content_length_num", "te_token_start", "conn_token_start",
          "content_length_ws"} \subseteq Known
  BY DEF States, Errors, DataCallbacks, Flags, Known, HeaderStates
<1>2. x \in Known /\ y \in Known
  BY DEF Connection, ConnectionValue, Known, HeaderStates
<1>3. IsMark(m, p, "header_value")
  BY <1>1, MarkEffect DEF Steady, OnlyMark, NoMark
<1>4. s_header_value_start(p, ch) =
        CASE p.header = "upgrade" ->
                [q EXCEPT !.flags = @ \cup {"UPGRADE"}, !.header = "general"]
          [] p.header = "transfer_encoding" -> [q EXCEPT !.header = x]
          [] p.header = "content_length" ->
                CASE ch \notin Num -> Fail(q, "INVALID_CONTENT_LENGTH")
                  [] ch \in Num /\ "CONTENTLENGTH" \in p.flags ->
                        Fail(q, "UNEXPECTED_CONTENT_LENGTH")
                  [] OTHER -> [q EXCEPT !.flags = @ \cup {"CONTENTLENGTH"},
                        !.content_length = Digit[ch], !.header = "content_length_num"]
          [] p.header = "connection" -> [q EXCEPT !.header = y]
          [] p.header \in {"te_token_start", "conn_token_start", "content_length_ws"} -> q
          [] OTHER -> [q EXCEPT !.header = "general"]
  BY DEF s_header_value_start
<1> HIDE DEF m, x, y
<1>5. /\ Typed(q) /\ q.marks = m.marks /\ q.state = "s_header_value" /\ q.type = p.type
      /\ q.errno = "OK" /\ q.header = p.header
  BY <1>1, <1>3 DEF IsMark, Kept, Steady, Typed, Fields
<1> HIDE DEF q
<1>6. Resumed("s_header_value") = {"header_value"}
  BY DEF Resumed, UrlStates
<1>7. ASSUME NEW r, Typed(r), r.marks = q.marks, r.state = q.state, r.type = q.type,
             r.errno = "OK", r.header \in Known
      PROVE  Done(r) /\ Good(r)
  <2>1. InValue(r)
    BY <1>3, <1>5, <1>6, <1>7
       DEF Steady, IsMark, Reading, OnlyMark, Marked, KnownValue, Known, InValue
  <2> QED BY <2>1, InValueDone
<1>8. ASSUME p.header = "upgrade"
      PROVE  Done([q EXCEPT !.flags = @ \cup {"UPGRADE"}, !.header = "general"])
  <2> DEFINE f == q.flags \cup {"UPGRADE"}
             r == [q EXCEPT !.flags = f, !.header = "general"]
  <2>1. f \in SUBSET Flags /\ "general" \in HeaderStates
    BY <1>1, <1>5 DEF Typed, HeaderStates
  <2> HIDE DEF f
  <2>2. Typed(r) /\ r.marks = q.marks /\ r.state = q.state /\ r.type = q.type
        /\ r.errno = "OK" /\ r.header = "general"
    BY <1>5, <2>1 DEF Typed, Fields
  <2> HIDE DEF r
  <2>3. Done(r)
    BY <1>1, <1>7, <2>2
  <2> QED BY <2>3 DEF r, f
<1>9. ASSUME NEW h \in Known PROVE Done([q EXCEPT !.header = h])
  <2> DEFINE r == [q EXCEPT !.header = h]
  <2>1. h \in HeaderStates
    BY DEF Known
  <2>2. Typed(r) /\ r.marks = q.marks /\ r.state = q.state /\ r.type = q.type
        /\ r.errno = "OK" /\ r.header = h
    BY <1>5, <2>1 DEF Typed, Fields
  <2> HIDE DEF r
  <2>3. Done(r)
    BY <1>7, <2>2
  <2> QED BY <2>3 DEF r
<1>10. ASSUME ch \in Num
       PROVE  Done([q EXCEPT !.flags = @ \cup {"CONTENTLENGTH"},
                     !.content_length = Digit[ch], !.header = "content_length_num"])
  <2> DEFINE f == q.flags \cup {"CONTENTLENGTH"}
             r == [q EXCEPT !.flags = f, !.content_length = Digit[ch],
                            !.header = "content_length_num"]
  <2>1. f \in SUBSET Flags /\ "content_length_num" \in HeaderStates
    BY <1>1, <1>5 DEF Typed, HeaderStates
  <2>2. Digit[ch] \in 0..ULLONG_MAX
    <3>1. Digit[ch] \in 0..2
      BY <1>10 DEF Num, Digit
    <3> QED BY <3>1, HttpParserAssumption
  <2> HIDE DEF f
  <2>3. Typed(r) /\ r.marks = q.marks /\ r.state = q.state /\ r.type = q.type
        /\ r.errno = "OK" /\ r.header = "content_length_num"
    BY <1>5, <2>1, <2>2 DEF Typed, Fields
  <2> HIDE DEF r
  <2>4. Done(r)
    BY <1>1, <1>7, <2>3
  <2> QED BY <2>4 DEF r, f
<1>11. Good(q)
  BY <1>1, <1>3, <1>5 DEF IsMark, Good, OneMark, OnlyMark, Marked, InChunks, ChunkStates, SizeStates
<1>12. Done(Fail(q, "INVALID_CONTENT_LENGTH")) /\ Done(Fail(q, "UNEXPECTED_CONTENT_LENGTH"))
  BY <1>1, <1>11, FailDone
<1>13. ASSUME p.header \in {"te_token_start", "conn_token_start", "content_length_ws"}
       PROVE  Done(q)
  BY <1>1, <1>5, <1>7, <1>13
<1>14. "general" \in Known
  BY <1>1
<1> QED BY <1>2, <1>4, <1>8, <1>9, <1>10, <1>12, <1>13, <1>14

LEMMA DiscardDone ==
    ASSUME NEW p, Ready(p), p.state = "s_header_value_discard_ws", NEW ch
    PROVE  Done(s_header_value_discard_ws(p, ch))
<1>1. p.state \in Plain /\ "s_header_value_discard_ws_almost_done" \in Plain
      /\ "s_header_value_discard_lws" \in Plain
  BY DEF Plain, States, BodyStates, ChunkStates, SizeStates, UrlStates, Undecided
<1>2. Steady(p)
  BY <1>1, PlainSteady
<1>3. Done(p) /\ Done(s_header_value_start(p, ch))
  BY <1>2, SteadyDone, ValueStartDone
<1>4. /\ Done(Goto(p, "s_header_value_discard_ws_almost_done"))
      /\ Done(Goto(p, "s_header_value_discard_lws"))
  BY <1>1, <1>2, SteadyGoto
<1> QED BY <1>3, <1>4 DEF s_header_value_discard_ws, Blank, CR, LF

LEMMA NextKnown ==
    ASSUME NEW h \in Known, NEW ch
    PROVE  NextInValue(h, ch) \in Known
<1> DEFINE c == Lower(ch)
           ws == IF ch = Blank THEN h ELSE "general"
<1>1. ws \in Known
  BY DEF Known, HeaderStates
<1>2. ASSUME NEW o \in Known PROVE Connection(c, o) \in Known
  BY DEF Connection, ConnectionValue, Known, HeaderStates
<1>3. ConnectionRest(h, c) \in Known
  BY DEF ConnectionRest, Known, HeaderStates
<1> DEFINE o == IF Token(c) THEN "conn_token" ELSE ws
<1>4. o \in Known
  BY <1>1 DEF Known, HeaderStates
<1>5. {"te_chunked", "te_token", "chunked", "te_token_start", "conn_token", "conn_token_start",
       "general"} \subseteq Known
  BY DEF Known, HeaderStates
<1>6. NextInValue(h, ch) =
        CASE h = "te_token_start" ->
                CASE c = "c" -> "te_chunked" [] c # "c" /\ Token(c) -> "te_token" [] OTHER -> ws
          [] h = "te_chunked" -> IF c = "hunked" THEN "chunked" ELSE "te_token"
          [] h = "te_token" -> IF ch = "," THEN "te_token_start" ELSE h
          [] h = "chunked" -> IF ch = Blank THEN h ELSE "te_token"
          [] h = "conn_token_start" -> Connection(c, o)
          [] h \in {"conn_keep_alive", "conn_close", "conn_upgrade"} -> ConnectionRest(h, c)
          [] h = "conn_token" -> IF ch = "," THEN "conn_token_start" ELSE h
          [] h \in DOMAIN ConnectionFlag ->
                CASE ch = "," -> "conn_token_start" [] ch = Blank -> h [] OTHER -> "conn_token"
          [] OTHER -> "general"
  BY DEF NextInValue
<1>7. DOMAIN ConnectionFlag = {"keep_alive", "close", "conn_upgraded"}
  BY DEF ConnectionFlag
<1>8. Connection(c, o) \in Known
  BY <1>2, <1>4
<1> HIDE DEF c, ws, o
<1> QED BY <1>1, <1>3, <1>5, <1>6, <1>7, <1>8 DEF Blank

LEMMA InValueStep ==
    ASSUME NEW p, InValue(p), NEW ch
    PROVE  Done(in_value(p, ch)) /\ IsQuiet(in_value(p, ch), p)
<1> DEFINE t == Digits(p, 10, Digit[ch])
           u == [p EXCEPT !.header = "content_length_ws"]
           f == IF p.header \in DOMAIN ConnectionFlag /\ ch = ","
                THEN p.flags \cup {ConnectionFlag[p.header]} ELSE p.flags
           h == NextInValue(p.header, ch)
           v == [p EXCEPT !.header = h, !.flags = f]
<1>1. /\ "content_length_ws" \in Known
      /\ {"INVALID_HEADER_TOKEN", "INVALID_CONTENT_LENGTH"} \subseteq Errors \ {"OK", "ASSERT"}
  BY DEF Known, HeaderStates, Errors
<1>2. /\ p.header \in Known /\ p.header \notin {"connection", "transfer_encoding"} /\ Typed(p)
      /\ p.errno = "OK" /\ Good(p) /\ Done(p)
  BY InValueDone DEF InValue, Reading, KnownValue, Typed, Known
<1>3. h \in Known
  BY <1>2, NextKnown
<1>4. f \in SUBSET Flags
  <2>1. \A g \in DOMAIN ConnectionFlag : ConnectionFlag[g] \in Flags
    BY DEF ConnectionFlag, Flags
  <2>2. p.flags \in SUBSET Flags
    BY <1>2 DEF Typed
  <2> QED BY <2>1, <2>2
<1>5. in_value(p, ch) =
        CASE ch = "bad" -> Fail(p, "INVALID_HEADER_TOKEN")
          [] ch # "bad" /\ p.header = "content_length_num" ->
                CASE ch = Blank -> u
                  [] ch \in Num -> t
                  [] OTHER -> Fail(p, "INVALID_CONTENT_LENGTH")
          [] ch # "bad" /\ p.header = "content_length_ws" ->
                IF ch = Blank THEN p ELSE Fail(p, "INVALID_CONTENT_LENGTH")
          [] OTHER -> v
  BY <1>2 DEF in_value
<1> HIDE DEF f, h
<1>6. ASSUME NEW r, Typed(r), r.marks = p.marks, r.state = p.state, r.type = p.type,
             r.errno = "OK", r.header \in Known
      PROVE  Done(r)
  <2>1. InValue(r)
    BY <1>6 DEF InValue, Reading, OnlyMark, Marked, KnownValue, Known
  <2> QED BY <2>1, InValueDone
<1>7. Done(u) /\ IsQuiet(u, p)
  <2>1. "content_length_ws" \in HeaderStates
    BY DEF HeaderStates
  <2>2. Typed(u) /\ u.marks = p.marks /\ u.state = p.state /\ u.type = p.type
        /\ u.errno = "OK" /\ u.header = "content_length_ws" /\ IsQuiet(u, p)
    BY <1>2, <2>1 DEF Typed, Fields, IsQuiet
  <2> HIDE DEF u
  <2> QED BY <1>1, <1>6, <2>2
<1>8. Done(v) /\ IsQuiet(v, p)
  <2>1. h \in HeaderStates
    BY <1>3 DEF Known
  <2>2. Typed(v) /\ v.marks = p.marks /\ v.state = p.state /\ v.type = p.type
        /\ v.errno = "OK" /\ v.header = h /\ IsQuiet(v, p)
    BY <1>2, <1>4, <2>1 DEF Typed, Fields, IsQuiet
  <2> HIDE DEF v
  <2> QED BY <1>3, <1>6, <2>2
<1>9. ASSUME ch \in Num PROVE Done(t) /\ IsQuiet(t, p)
  <2>1. Digit[ch] \in 0..(10 - 1)
    BY <1>9 DEF Num, Digit
  <2>2. IsDigits(t, p, 10, Digit[ch])
    BY <1>2, <2>1, DigitsEffect
  <2> HIDE DEF t
  <2>3. CASE t.errno = "INVALID_CONTENT_LENGTH"
    <3>1. Good(t) /\ Failed(t)
      BY <1>2, <2>2, <2>3 DEF IsDigits, IsQuiet, Good, OneMark, OnlyMark, Marked, InChunks, Failed
    <3> QED BY <2>2, <3>1 DEF Done, IsDigits
  <2>4. CASE t.errno # "INVALID_CONTENT_LENGTH"
    <3>1. Typed(t) /\ t.marks = p.marks /\ t.state = p.state /\ t.type = p.type
          /\ t.errno = "OK" /\ t.header \in Known
      BY <1>2, <2>2, <2>4 DEF IsDigits, IsQuiet
    <3> QED BY <1>6, <2>2, <3>1 DEF IsDigits
  <2> QED BY <2>3, <2>4
<1>10. \A e \in {"INVALID_HEADER_TOKEN", "INVALID_CONTENT_LENGTH"} :
          Done(Fail(p, e)) /\ IsQuiet(Fail(p, e), p)
  BY <1>1, <1>2, FailDone
<1>11. IsQuiet(p, p)
  BY <1>2 DEF IsQuiet
<1> HIDE DEF t, u, v
<1> QED BY <1>2, <1>5, <1>7, <1>8, <1>9, <1>10, <1>11 DEF Blank, Num

\* The end of a line that is not one of a message's first.
LEMMA LineEnds ==
    ASSUME NEW p, Steady(p), p.state = "s_header_almost_done"
    PROVE  Steady(literal(p, LF)) /\ Done(literal(p, LF))
<1>1. literal(p, LF) = Goto(p, "s_header_value_lws")
  BY DEF literal, ReqLiteral, ResLiteral, LF
<1>2. "s_header_value_lws" \in Plain
  BY DEF Plain, States, BodyStates, ChunkStates, SizeStates, UrlStates, Undecided
<1> QED BY <1>1, <1>2, SteadyGoto

LEMMA ValueDone ==
    ASSUME NEW p, Ready(p), p.state = "s_header_value", NEW ch, NEW a
    PROVE  Done(s_header_value(p, ch, a))
<1> DEFINE r == Goto(p, "s_header_almost_done")
           d == CALLBACK_DATA(r, "header_value", a)
<1>1. "s_header_almost_done" \in Plain /\ "header_value" \in DataCallbacks
  BY DEF Plain, States, BodyStates, ChunkStates, SizeStates, UrlStates, Undecided, DataCallbacks
<1>2. Resumed(p.state) = {"header_value"}
  BY DEF Resumed, UrlStates
<1>3. InValue(p)
  BY <1>1, <1>2, MarkedReady, ReadyTyped DEF InValue
<1>4. /\ Typed(r) /\ r.marks = p.marks /\ r.state = "s_header_almost_done"
      /\ r.type = p.type /\ r.errno = "OK"
  BY <1>1, <1>3, PlainStates DEF Goto, InValue, Reading, Typed, Fields
<1>5. s_header_value(p, ch, a) =
        CASE ch = CR -> d
          [] ch = LF -> IF Failed(d) THEN d ELSE literal(d, LF)
          [] OTHER -> in_value(p, ch)
  BY DEF s_header_value
<1> HIDE DEF r
<1>6. OnlyMark(r, "header_value") /\ r.type # "BOTH"
  BY <1>3, <1>4 DEF InValue, Reading, OnlyMark, Marked
<1>7. Done(d) /\ IsData(d, r, "header_value", 0, a)
  BY <1>1, <1>4, <1>6, DataPlain
<1> HIDE DEF d
<1>8. ASSUME ~Failed(d) PROVE Done(literal(d, LF))
  <2>1. Steady(d) /\ d.state = "s_header_almost_done"
    BY <1>1, <1>4, <1>6, <1>7, <1>8 DEF IsData, Kept, Steady, Failed
  <2> QED BY <2>1, LineEnds
<1>9. Done(in_value(p, ch))
  BY <1>3, InValueStep
<1>10. CR # LF
  BY DEF CR, LF
<1> QED BY <1>5, <1>7, <1>8, <1>9, <1>10

LEMMA FlagValue ==
    ASSUME NEW p, Typed(p)
    PROVE  LET q == flag_value(p)
           IN  /\ Typed(q) /\ q.marks = p.marks /\ q.state = p.state /\ q.type = p.type
               /\ q.errno = p.errno /\ q.out = p.out /\ q.exited = p.exited
               /\ q.content_length = p.content_length
               /\ p.flags \subseteq q.flags
<1> DEFINE f == IF p.header \in DOMAIN ValueFlag THEN p.flags \cup {ValueFlag[p.header]} ELSE p.flags
           q == [p EXCEPT !.flags = f]
<1>1. \A h \in DOMAIN ValueFlag : ValueFlag[h] \in Flags
  BY DEF ValueFlag, Flags
<1>2. f \in SUBSET Flags /\ p.flags \subseteq f
  BY <1>1 DEF Typed
<1>3. flag_value(p) = q
  BY DEF flag_value
<1> HIDE DEF f
<1>4. /\ Typed(q) /\ q.marks = p.marks /\ q.state = p.state /\ q.type = p.type
      /\ q.errno = p.errno /\ q.out = p.out /\ q.exited = p.exited
      /\ q.content_length = p.content_length /\ q.flags = f
  BY <1>2 DEF Typed, Fields
<1> HIDE DEF q
<1> QED BY <1>2, <1>3, <1>4

LEMMA FlagSteady ==
    ASSUME NEW p, Steady(p)
    PROVE  Steady(flag_value(p))
BY FlagValue DEF Steady, NoMark, Marked

LEMMA LwsDone ==
    ASSUME NEW p, Ready(p), p.state = "s_header_value_lws", NEW ch, NEW a
    PROVE  Done(s_header_value_lws(p, ch, a))
<1> DEFINE h == IF p.header = "content_length_num" THEN "content_length_ws" ELSE p.header
           q == [p EXCEPT !.header = h]
<1>1. p.state \in Plain
  BY DEF Plain, States, BodyStates, ChunkStates, SizeStates, UrlStates, Undecided
<1>2. Steady(p)
  BY <1>1, PlainSteady
<1>3. Done(s_header_field_start(flag_value(p), ch, a))
  BY <1>2, FlagSteady, FieldStartDone
<1>4. s_header_value_lws(p, ch, a) =
        IF ch = Blank THEN s_header_value_start(q, ch)
        ELSE s_header_field_start(flag_value(p), ch, a)
  BY DEF s_header_value_lws
<1>5. h \in HeaderStates
  BY <1>2 DEF Steady, Typed, HeaderStates
<1> HIDE DEF h
<1>6. Steady(q)
  BY <1>2, <1>5 DEF Steady, Typed, Fields, NoMark, Marked
<1> HIDE DEF q
<1>7. Done(s_header_value_start(q, ch))
  BY <1>6, ValueStartDone
<1> QED BY <1>3, <1>4, <1>7

LEMMA DiscardLwsDone ==
    ASSUME NEW p, Ready(p), p.state = "s_header_value_discard_lws", NEW ch, NEW a
    PROVE  Done(s_header_value_discard_lws(p, ch, a))
<1> DEFINE g == flag_value(p)
           m == MARK(g, "header_value")
           r == Goto(m, "s_header_field_start")
           d == CALLBACK_DATA(r, "header_value", a)
<1>1. /\ p.state \in Plain /\ "s_header_value_discard_ws" \in Plain
      /\ "s_header_field_start" \in Plain
      /\ "INVALID_CONTENT_LENGTH" \in Errors \ {"OK", "ASSERT"}
      /\ "header_value" \in DataCallbacks
  BY DEF Plain, States, BodyStates, ChunkStates, SizeStates, UrlStates, Undecided, Errors,
     DataCallbacks
<1>2. Steady(p)
  BY <1>1, PlainSteady
<1>3. Done(Goto(p, "s_header_value_discard_ws")) /\ Done(Fail(p, "INVALID_CONTENT_LENGTH"))
  BY <1>1, <1>2, SteadyGoto, SteadyFails
<1>4. s_header_value_discard_lws(p, ch, a) =
        CASE ch = Blank -> Goto(p, "s_header_value_discard_ws")
          [] ch # Blank /\ p.header = "content_length" -> Fail(p, "INVALID_CONTENT_LENGTH")
          [] OTHER -> IF Failed(d) THEN d ELSE s_header_field_start(d, ch, a)
  BY DEF s_header_value_discard_lws
<1>5. Steady(g)
  BY <1>2, FlagSteady
<1> HIDE DEF g
<1>6. IsMark(m, g, "header_value")
  BY <1>1, <1>5, MarkEffect DEF Steady, OnlyMark, NoMark
<1> HIDE DEF m
<1>7. /\ Typed(r) /\ r.marks = m.marks /\ r.state = "s_header_field_start"
      /\ r.type = m.type /\ r.errno = m.errno
  BY <1>1, <1>6, PlainStates DEF IsMark, Goto, Typed, Fields
<1> HIDE DEF r
<1>8. OnlyMark(r, "header_value") /\ r.type # "BOTH" /\ r.errno = "OK"
  BY <1>5, <1>6, <1>7 DEF IsMark, Kept, Steady, OnlyMark, Marked
<1>9. Done(d) /\ IsData(d, r, "header_value", 0, a)
  BY <1>1, <1>7, <1>8, DataPlain
<1> HIDE DEF d
<1>10. ASSUME ~Failed(d) PROVE Done(s_header_field_start(d, ch, a))
  <2>1. Steady(d)
    BY <1>1, <1>7, <1>8, <1>9, <1>10 DEF IsData, Kept, Steady, Failed
  <2> QED BY <2>1, FieldStartDone
<1> QED BY <1>3, <1>4, <1>9, <1>10

-----------------------------------------------------------------------------
(* A step of the loop.                                                     *)

LEMMA TransitionDone ==
    ASSUME NEW p, Ready(p), NEW ch, NEW a
    PROVE  Done(Transition(p, ch, a))
<1>1. /\ p.state = "s_header_field" => Done(s_header_field(p, ch, a))
      /\ p.state = "s_header_value" => Done(s_header_value(p, ch, a))
      /\ p.state \in UrlStates => Done(s_req_url(p, ch, a))
      /\ p.state \in Literals => Done(literal(p, ch))
      /\ p.state = "s_dead" => Done(s_dead(p, ch))
      /\ p.state = "s_start_req_or_res" => Done(s_start_req_or_res(p, ch, a))
      /\ p.state = "s_res_or_resp_H" => Done(s_res_or_resp_H(p, ch))
      /\ p.state = "s_start_res" => Done(s_start_res(p, ch, a))
  BY FieldDone, ValueDone, UrlDone, LiteralDone, DeadDone, StartReqOrResDone, ResOrRespDone,
     StartResDone
<1>2. ASSUME p.state = "s_start_req" PROVE Done(s_start_req(p, ch, a))
  <2>1. p.state \in Plain
    BY <1>2 DEF Plain, States, BodyStates, ChunkStates, SizeStates, UrlStates, Undecided
  <2> QED BY <1>2, <2>1, PlainSteady, StartReqDone DEF Steady
<1>3. ASSUME p.state = "s_res_status" PROVE Done(s_res_status(p, ch, a))
  <2>1. Resumed(p.state) = {"status"} /\ "status" \in DataCallbacks
    BY <1>3 DEF Resumed, UrlStates, DataCallbacks
  <2> QED BY <1>3, <2>1, MarkedReady, ReadyTyped, StatusDone DEF Reading
<1>4. /\ p.state = "s_res_first_status_code" => Done(s_res_first_status_code(p, ch))
      /\ p.state = "s_res_status_code" => Done(s_res_status_code(p, ch, a))
      /\ p.state = "s_res_status_start" => Done(s_res_status_start(p, ch, a))
      /\ p.state = "s_body_identity_eof" => Done(s_body_identity_eof(p))
      /\ p.state = "s_req_method" => Done(s_req_method(p, ch))
      /\ p.state = "s_req_spaces_before_url" => Done(s_req_spaces_before_url(p, ch))
      /\ p.state = "s_req_http_start" => Done(s_req_http_start(p, ch))
      /\ p.state \in {"s_req_http_major", "s_res_http_major"} => Done(http_major(p, ch))
      /\ p.state \in {"s_req_http_minor", "s_res_http_minor"} => Done(http_minor(p, ch))
      /\ p.state = "s_req_http_end" => Done(s_req_http_end(p, ch))
  BY FirstCodeDone, StatusCodeDone, StatusStartDone, BodyEofDone, MethodDone, SpacesDone,
     HttpStartDone, MajorDone, MinorDone, HttpEndDone
<1>5. ASSUME p.state \in {"s_header_field_start", "s_headers_almost_done"}
      PROVE  Done(s_header_field_start(p, ch, a)) /\ Done(s_headers_almost_done(p, ch, a))
  <2>1. p.state \in Plain
    BY <1>5 DEF Plain, States, BodyStates, ChunkStates, SizeStates, UrlStates, Undecided
  <2> QED BY <2>1, PlainSteady, FieldStartDone, HeadersAlmostDoneDone
<1>6. /\ p.state = "s_header_value_discard_ws" => Done(s_header_value_discard_ws(p, ch))
      /\ p.state = "s_header_value_discard_lws" => Done(s_header_value_discard_lws(p, ch, a))
      /\ p.state = "s_header_value_lws" => Done(s_header_value_lws(p, ch, a))
      /\ p.state = "s_body_identity" => Done(s_body_identity(p, ch, a))
      /\ p.state = "s_chunk_size_start" => Done(s_chunk_size_start(p, ch))
      /\ p.state = "s_chunk_size" => Done(s_chunk_size(p, ch))
      /\ p.state = "s_chunk_parameters" => Done(s_chunk_parameters(p, ch))
      /\ p.state = "s_chunk_size_almost_done" => Done(s_chunk_size_almost_done(p, ch, a))
      /\ p.state = "s_chunk_data" => Done(s_chunk_data(p, ch))
      /\ p.state = "s_chunk_data_almost_done" => Done(s_chunk_data_almost_done(p, ch, a))
      /\ p.state = "s_chunk_data_done" => Done(s_chunk_data_done(p, ch, a))
  BY DiscardDone, DiscardLwsDone, LwsDone, BodyIdentityDone, ChunkSizeStartDone, ChunkSizeDone,
     ChunkParametersDone, ChunkSizeAlmostDone, ChunkDataDone, ChunkDataAlmostDone,
     ChunkDataDoneDone
<1>7. p.state \in States
  BY ReadyTyped DEF Typed
<1> QED BY <1>1, <1>2, <1>3, <1>4, <1>5, <1>6, <1>7
        DEF Transition, States, UrlStates, Literals, ReqLiteral, ResLiteral

\* The record r is q with the same marks set, wherever they stand.
SameMarks(r, q) ==
    /\ Typed(r) /\ r.type = q.type /\ r.state = q.state /\ r.header = q.header
    /\ r.flags = q.flags /\ r.content_length = q.content_length /\ r.errno = q.errno
    /\ \A c \in DataCallbacks : Marked(r, c) <=> Marked(q, c)

LEMMA SameMarksDone ==
    ASSUME NEW q, Done(q), NEW r, SameMarks(r, q)
    PROVE  Done(r)
<1>1. Good(r)
  BY DEF Done, Good, SameMarks, OneMark, OnlyMark, InChunks
<1>2. ASSUME Control(q) PROVE Control(r)
  <2>1. BodyLeft(r) /\ SizeFits(r) /\ KnownValue(r) /\ Kind(r)
    BY <1>2 DEF Control, SameMarks, BodyLeft, SizeFits, KnownValue, Kind
  <2>2. MarksFit(r)
    <3>1. Resumed(q.state) \subseteq DataCallbacks
      BY DEF Resumed, DataCallbacks
    <3> QED BY <1>2, <3>1 DEF Control, SameMarks, MarksFit
  <2> QED BY <2>1, <2>2 DEF Control
<1> QED BY <1>1, <1>2 DEF Done, Failed, SameMarks

\* The marks after one more symbol.
Moved(marks) == [c \in DataCallbacks |-> IF marks[c] = -1 THEN -1 ELSE marks[c] + 1]

LEMMA MoveEffect ==
    ASSUME NEW q, Typed(q)
    PROVE  LET r == [q EXCEPT !.marks = Moved(q.marks)]
           IN  SameMarks(r, q) /\ r.marks = Moved(q.marks) /\ r.out = q.out /\ r.exited = q.exited
<1> DEFINE r == [q EXCEPT !.marks = Moved(q.marks)]
<1>1. \A c \in DataCallbacks : q.marks[c] \in Nat \cup {-1}
  BY DEF Typed
<1>2. Moved(q.marks) \in [DataCallbacks -> Nat \cup {-1}]
  BY <1>1 DEF Moved
<1>3. /\ Typed(r) /\ r.type = q.type /\ r.state = q.state /\ r.header = q.header
      /\ r.flags = q.flags /\ r.content_length = q.content_length /\ r.errno = q.errno
      /\ r.marks = Moved(q.marks) /\ r.out = q.out /\ r.exited = q.exited
  BY <1>2 DEF Typed, Fields
<1> HIDE DEF r
<1>4. \A c \in DataCallbacks : Marked(r, c) <=> Marked(q, c)
  BY <1>1, <1>3 DEF Marked, Moved
<1>5. SameMarks(r, q)
  BY <1>3, <1>4 DEF SameMarks
<1> QED BY <1>3, <1>5 DEF r

LEMMA StepIs ==
    ASSUME NEW p, NEW ch, NEW a, NEW q, q = Transition(p, ch, a), Typed(q)
    PROVE  step(p, ch, a) = IF Failed(q) THEN q ELSE [q EXCEPT !.marks = Moved(q.marks)]
BY DEF step, Moved

LEMMA StepDone ==
    ASSUME NEW p, Ready(p), NEW ch, NEW a
    PROVE  Done(step(p, ch, a))
<1> DEFINE q == Transition(p, ch, a)
           r == [q EXCEPT !.marks = Moved(q.marks)]
<1>1. Done(q)
  BY TransitionDone
<1>2. Typed(q)
  BY <1>1 DEF Done, Good
<1>3. step(p, ch, a) = IF Failed(q) THEN q ELSE r
  BY <1>2, StepIs
<1> HIDE DEF q
<1>4. SameMarks(r, q)
  BY <1>2, MoveEffect
<1> HIDE DEF r
<1>5. Done(r)
  BY <1>1, <1>4, SameMarksDone
<1> QED BY <1>1, <1>3, <1>5

-----------------------------------------------------------------------------
(* The end of a buffer.                                                    *)

LEMMA Unmarked ==
    ASSUME NEW p, NEW d, p.marks[d] = -1, NEW a
    PROVE  hand_over(p, d, a) = p
<1>1. CALLBACK_DATA_(p, d, 0, a) = p
  BY DEF CALLBACK_DATA_
<1> QED BY <1>1 DEF hand_over, CALLBACK_DATA

LEMMA FlushIs ==
    ASSUME NEW p, Typed(p), p.errno = "OK", NEW c \in DataCallbacks, OnlyMark(p, c), NEW a
    PROVE  flush(p, a) = CALLBACK_DATA(p, c, a)
<1> DEFINE q == CALLBACK_DATA(p, c, a)
<1>1. \A d \in DataCallbacks \ {c} : p.marks[d] = -1
  BY DEF OnlyMark, Marked
<1>2. \A d \in DataCallbacks \ {c} : hand_over(p, d, a) = p
  BY <1>1, Unmarked
<1>3. hand_over(p, c, a) = q
  BY DEF hand_over, Failed
<1>4. IsData(q, p, c, 0, a)
  <2>1. 0 \in {0, 1}
    OBVIOUS
  <2> QED BY <2>1, DataEffect DEF CALLBACK_DATA
<1> HIDE DEF q
<1>5. \A d \in DataCallbacks : hand_over(q, d, a) = q
  <2>1. CASE Failed(q)
    BY <2>1 DEF hand_over
  <2>2. CASE ~Failed(q)
    <3>1. \A d \in DataCallbacks : q.marks[d] = -1
      BY <1>4, <2>2 DEF IsData, NoMark, Marked
    <3> QED BY <3>1, Unmarked
  <2> QED BY <2>1, <2>2
<1>6. DataCallbacks = {"header_field", "header_value", "url", "body", "status"}
  BY DEF DataCallbacks
<1>7. flush(p, a) = q
  <2>1. CASE c = "header_field"
    BY <1>3, <1>5, <1>6, <2>1 DEF flush
  <2>2. CASE c = "header_value"
    BY <1>2, <1>3, <1>5, <1>6, <2>2 DEF flush
  <2>3. CASE c = "url"
    BY <1>2, <1>3, <1>5, <1>6, <2>3 DEF flush
  <2>4. CASE c = "body"
    BY <1>2, <1>3, <1>5, <1>6, <2>4 DEF flush
  <2>5. CASE c = "status"
    BY <1>2, <1>3, <1>5, <1>6, <2>5 DEF flush
  <2> QED BY <1>6, <2>1, <2>2, <2>3, <2>4, <2>5
<1> QED BY <1>7 DEF q

\* What is marked is handed over, and no more.
LEMMA FlushEffect ==
    ASSUME NEW p, Good(p), p.errno = "OK", NEW a
    PROVE  \E c \in DataCallbacks : OnlyMark(p, c) /\ IsData(flush(p, a), p, c, 0, a)
<1>1. PICK c \in DataCallbacks : OnlyMark(p, c)
  BY DEF Good, OneMark
<1>2. Typed(p) /\ 0 \in {0, 1}
  BY DEF Good
<1>3. flush(p, a) = CALLBACK_DATA_(p, c, 0, a)
  BY <1>1, <1>2, FlushIs DEF CALLBACK_DATA
<1>4. IsData(CALLBACK_DATA_(p, c, 0, a), p, c, 0, a)
  BY <1>1, <1>2, DataEffect
<1> QED BY <1>1, <1>3, <1>4

\* The next call begins where this one ends.
LEMMA BeginReady ==
    ASSUME NEW p, Ready(p), NEW q, Typed(q), Kept(q, p), q.errno = "OK"
    PROVE  Ready(begin(q))
<1> DEFINE m == [c \in DataCallbacks |-> IF c \in Resumed(q.state) THEN 0 ELSE -1]
           b == [q EXCEPT !.exited = FALSE, !.out = <<>>, !.marks = m]
<1>1. begin(q) = b
  BY DEF begin
<1>2. m \in [DataCallbacks -> Nat \cup {-1}] /\ <<>> \in Seq(Event)
  OBVIOUS
<1> HIDE DEF m
<1>3. /\ Typed(b) /\ b.type = q.type /\ b.state = q.state /\ b.header = q.header
      /\ b.flags = q.flags /\ b.content_length = q.content_length /\ b.errno = "OK"
      /\ b.marks = m /\ ~b.exited /\ b.out = <<>>
  BY <1>2 DEF Typed, Fields
<1> HIDE DEF b
<1>4. \A c \in DataCallbacks : Marked(b, c) <=> c \in Resumed(p.state)
  BY <1>3 DEF m, Marked, Kept
<1>5. OneMark(b)
  <2>1. \E c \in DataCallbacks : Resumed(p.state) \subseteq {c}
    BY DEF Resumed, DataCallbacks
  <2> QED BY <1>4, <2>1 DEF OneMark, OnlyMark
<1>6. Good(b)
  BY <1>3, <1>5 DEF Ready, Good, InChunks, Kept
<1>7. MarksFit(b)
  <2>1. Resumed(p.state) \subseteq DataCallbacks
    BY DEF Resumed, DataCallbacks
  <2>2. Resumed(p.state) \subseteq Markable(p.state)
    BY DEF Resumed, Markable, BodyStates, UrlStates
  <2> QED BY <1>3, <1>4, <2>1, <2>2 DEF MarksFit, Kept
<1>8. BodyLeft(b) /\ SizeFits(b) /\ KnownValue(b) /\ Kind(b)
  BY <1>3 DEF Ready, Control, BodyLeft, SizeFits, KnownValue, Kind, Kept
<1> QED BY <1>1, <1>3, <1>6, <1>7, <1>8 DEF Ready, Control, Failed

\* The end of the connection, after the end of the last buffer.
LEMMA EofDone ==
    ASSUME NEW p, Ready(p), NEW q, Typed(q), Kept(q, p), q.errno = "OK", NoMark(q), NEW a
    PROVE  Done(eof(q, a))
<1> DEFINE n == CALLBACK_NOTIFY(q, "message_complete", a)
<1>1. "message_complete" \in Callbacks /\ "INVALID_EOF_STATE" \in Errors \ {"OK", "ASSERT"}
      /\ "body" \in DataCallbacks
  BY DEF Callbacks, Errors, DataCallbacks
<1>2. Good(q)
  BY <1>1 DEF Ready, Good, OneMark, OnlyMark, NoMark, InChunks, Kept
<1>3. eof(q, a) =
        CASE q.state = "s_body_identity_eof" -> n
          [] q.state \in {"s_dead", "s_start_req_or_res", "s_start_res", "s_start_req"} -> q
          [] OTHER -> Fail(q, "INVALID_EOF_STATE")
  BY DEF eof
<1>4. IsCall(n, q, "message_complete", 0, 0, a)
  BY <1>1, NotifyEffect
<1> HIDE DEF n
<1>5. ASSUME NEW r, Typed(r), Kept(r, q), r.marks = q.marks, r.errno # "ASSERT",
             r.state \in {"s_body_identity_eof", "s_dead", "s_start_req_or_res", "s_start_res",
                          "s_start_req"}
      PROVE  Done(r)
  <2>1. NoMark(r)
    BY <1>5 DEF NoMark, Marked
  <2>2. OneMark(r) /\ InChunks(r)
    BY <1>1, <1>5, <2>1 DEF OneMark, OnlyMark, NoMark, InChunks, ChunkStates, SizeStates
  <2>3. Resumed(r.state) = {}
    BY <1>5 DEF Resumed, UrlStates
  <2>4. MarksFit(r)
    BY <2>1, <2>3 DEF MarksFit, NoMark
  <2>5. BodyLeft(r) /\ SizeFits(r) /\ KnownValue(r) /\ Kind(r)
    BY <1>5 DEF Ready, Control, BodyLeft, SizeFits, SizeStates, KnownValue, Kind, Kept
  <2> QED BY <1>5, <2>2, <2>4, <2>5 DEF Done, Good, Control
<1>6. Kept(q, q)
  BY DEF Kept
<1>7. Done(Fail(q, "INVALID_EOF_STATE"))
  BY <1>1, <1>2, FailDone
<1>8. q.state = "s_body_identity_eof" => Done(n)
  BY <1>4, <1>5 DEF IsCall, Kept
<1>9. q.state \in {"s_dead", "s_start_req_or_res", "s_start_res", "s_start_req"} => Done(q)
  BY <1>5, <1>6
<1> QED BY <1>3, <1>7, <1>8, <1>9

LEMMA InitReady ==
    ASSUME NEW t \in DOMAIN Start
    PROVE  Ready(begin(http_parser_init(t)))
<1> DEFINE i == http_parser_init(t)
           b == begin(i)
           m == [c \in DataCallbacks |-> IF c \in Resumed(Start[t]) THEN 0 ELSE -1]
<1>1. /\ Start[t] \in {"s_start_req", "s_start_res", "s_start_req_or_res"}
      /\ t = "BOTH" => Start[t] = "s_start_req_or_res"
  BY DEF Start
<1>2. Resumed(Start[t]) = {}
  BY <1>1 DEF Resumed, UrlStates
<1>3. /\ Start[t] \in States /\ "general" \in HeaderStates /\ "OK" \in Errors
      /\ 0 \in 0..ULLONG_MAX /\ <<>> \in Seq(Event) /\ "body" \in DataCallbacks
  BY <1>1, HttpParserAssumption DEF States, HeaderStates, Errors, DataCallbacks
<1>4. /\ DOMAIN i = Fields /\ i.type = t /\ i.state = Start[t] /\ i.header = "general"
      /\ i.flags = {} /\ i.method = "DELETE" /\ i.index = 0 /\ i.status_code = 0
      /\ i.content_length = 0 /\ i.http_major = 0 /\ i.http_minor = 0 /\ ~i.upgrade
      /\ i.upgrade \in BOOLEAN /\ i.errno = "OK"
  BY DEF http_parser_init, Fields
<1>5. b = [i EXCEPT !.exited = FALSE, !.out = <<>>, !.marks = m]
  BY <1>4 DEF begin
<1> HIDE DEF i, m
<1>6. /\ DOMAIN b = Fields /\ b.type = t /\ b.state = Start[t] /\ b.header = "general"
      /\ b.flags = {} /\ b.method = "DELETE" /\ b.index = 0 /\ b.status_code = 0
      /\ b.content_length = 0 /\ b.http_major = 0 /\ b.http_minor = 0
      /\ b.upgrade \in BOOLEAN /\ b.errno = "OK" /\ b.marks = m /\ b.exited = FALSE
      /\ b.out = <<>>
  BY <1>4, <1>5 DEF Fields
<1> HIDE DEF b
<1>7. m \in [DataCallbacks -> Nat \cup {-1}] /\ \A c \in DataCallbacks : m[c] = -1
  BY <1>2 DEF m
<1>8. Typed(b)
  <2>1. /\ b.state \in States /\ b.header \in HeaderStates /\ b.flags \in SUBSET Flags
        /\ b.index \in 0..2 /\ b.status_code \in 0..999 /\ b.content_length \in 0..ULLONG_MAX
        /\ b.http_major \in 0..9 /\ b.http_minor \in 0..9 /\ b.errno \in Errors
    BY <1>3, <1>6
  <2> QED BY <1>3, <1>6, <1>7, <2>1 DEF Typed
<1>9. NoMark(b)
  BY <1>6, <1>7 DEF NoMark, Marked
<1>10. Good(b)
  BY <1>1, <1>3, <1>6, <1>8, <1>9
     DEF Good, OneMark, OnlyMark, NoMark, InChunks, ChunkStates, SizeStates
<1>11. Control(b)
  BY <1>1, <1>2, <1>6, <1>9
     DEF Control, BodyLeft, SizeFits, SizeStates, KnownValue, Kind, Undecided, MarksFit, NoMark
<1> QED BY <1>6, <1>10, <1>11 DEF Ready, Failed, b, i

-----------------------------------------------------------------------------
(* What is marked, and what a callback is given, lies in the buffer, of    *)
(* which i symbols were read before this one.                              *)

InBuffer(p, i) ==
    /\ DOMAIN p = Fields
    /\ p.marks \in [DataCallbacks -> Nat \cup {-1}] /\ \A c \in DataCallbacks : p.marks[c] <= i
    /\ p.out \in Seq(Event) /\ \A k \in DOMAIN p.out : p.out[k].n <= i + p.out[k].extra

\* Other fields do not matter.
Changed(q, p) == DOMAIN q = Fields /\ q.marks = p.marks /\ q.out = p.out

LEMMA ChangedWithin ==
    ASSUME NEW p, NEW i, InBuffer(p, i), NEW q, Changed(q, p)
    PROVE  InBuffer(q, i)
BY DEF InBuffer, Changed

LEMMA GotoWithin ==
    ASSUME NEW p, NEW i, InBuffer(p, i), NEW s
    PROVE  InBuffer(Goto(p, s), i) /\ InBuffer(Fail(p, s), i)
<1>1. Changed(Goto(p, s), p) /\ Changed(Fail(p, s), p)
  BY DEF Changed, Goto, Fail, InBuffer, Fields
<1> QED BY <1>1, ChangedWithin

LEMMA MarkWithin ==
    ASSUME NEW p, NEW i \in Nat, InBuffer(p, i), NEW c \in DataCallbacks
    PROVE  InBuffer(MARK(p, c), i)
<1> DEFINE m == [p.marks EXCEPT ![c] = 0]
           q == [p EXCEPT !.marks = m]
<1>1. m \in [DataCallbacks -> Nat \cup {-1}] /\ \A d \in DataCallbacks : m[d] <= i
  BY DEF InBuffer
<1> HIDE DEF m
<1>2. DOMAIN q = Fields /\ q.marks = m /\ q.out = p.out
  BY DEF InBuffer, Fields
<1>3. [p EXCEPT !.marks[c] = 0] = q
  BY DEF m
<1> HIDE DEF q
<1>4. InBuffer(q, i)
  BY <1>1, <1>2 DEF InBuffer
<1> QED BY <1>3, <1>4 DEF MARK

LEMMA AppendWithin ==
    ASSUME NEW i \in Nat, NEW out \in Seq(Event),
           \A k \in DOMAIN out : out[k].n <= i + out[k].extra,
           NEW e \in Event, e.n <= i + e.extra
    PROVE  /\ Append(out, e) \in Seq(Event)
           /\ \A k \in DOMAIN Append(out, e) : Append(out, e)[k].n <= i + Append(out, e)[k].extra
<1>1. /\ DOMAIN out = 1..Len(out) /\ DOMAIN Append(out, e) = 1..(Len(out) + 1)
      /\ \A k \in 1..Len(out) : Append(out, e)[k] = out[k]
      /\ Append(out, e)[Len(out) + 1] = e /\ Append(out, e) \in Seq(Event) /\ Len(out) \in Nat
  OBVIOUS
<1> DEFINE n == Len(out)
           b == Append(out, e)
<1>2. \A k \in 1..(n + 1) : k \in 1..n \/ k = n + 1
  BY <1>1
<1> HIDE DEF n, b
<1> QED BY <1>1, <1>2 DEF n, b

LEMMA CallWithin ==
    ASSUME NEW p, NEW i \in Nat, InBuffer(p, i), NEW c \in Callbacks, NEW n \in Nat,
           NEW x \in {0, 1}, n <= i, NEW a
    PROVE  InBuffer(Call(p, c, n, x, a), i)
<1> DEFINE e == [cb |-> c, n |-> n + x, extra |-> x]
           q == Call(p, c, n, x, a)
<1>1. e \in Event /\ e.n <= i + e.extra
  BY DEF Event
<1> HIDE DEF e
<1>2. DOMAIN q = Fields /\ q.marks = p.marks /\ q.out = Append(p.out, e)
  BY DEF Call, InBuffer, Fields, e
<1> HIDE DEF q
<1>3. q.out \in Seq(Event) /\ \A k \in DOMAIN q.out : q.out[k].n <= i + q.out[k].extra
  <2>1. p.out \in Seq(Event) /\ \A k \in DOMAIN p.out : p.out[k].n <= i + p.out[k].extra
    BY DEF InBuffer
  <2> QED BY <1>1, <1>2, <2>1, AppendWithin
<1>4. InBuffer(q, i)
  BY <1>2, <1>3 DEF InBuffer
<1> QED BY <1>4 DEF q

LEMMA NotifyWithin ==
    ASSUME NEW p, NEW i \in Nat, InBuffer(p, i), NEW c \in Callbacks, NEW a
    PROVE  InBuffer(CALLBACK_NOTIFY(p, c, a), i)
<1>1. 0 \in Nat /\ 0 \in {0, 1} /\ 0 <= i
  OBVIOUS
<1> QED BY <1>1, CallWithin DEF CALLBACK_NOTIFY

LEMMA DataWithin ==
    ASSUME NEW p, NEW i \in Nat, InBuffer(p, i), NEW c \in DataCallbacks, NEW x \in {0, 1}, NEW a
    PROVE  InBuffer(CALLBACK_DATA_(p, c, x, a), i)
<1>1. CASE p.marks[c] = -1
  BY <1>1 DEF CALLBACK_DATA_
<1>2. CASE p.marks[c] # -1
  <2> DEFINE n == p.marks[c]
             r == Call(p, c, n, x, a)
             m == [r.marks EXCEPT ![c] = -1]
             q == [r EXCEPT !.marks[c] = -1]
  <2>1. n \in Nat /\ n <= i /\ c \in Callbacks
    BY <1>2 DEF InBuffer, Callbacks
  <2> HIDE DEF n
  <2>2. InBuffer(r, i)
    BY <2>1, CallWithin
  <2> HIDE DEF r
  <2>3. m \in [DataCallbacks -> Nat \cup {-1}] /\ \A d \in DataCallbacks : m[d] <= i
    BY <2>2 DEF InBuffer
  <2>4. q = [r EXCEPT !.marks = m]
    OBVIOUS
  <2> HIDE DEF m, q
  <2>5. DOMAIN q = Fields /\ q.marks = m /\ q.out = r.out
    BY <2>2, <2>4 DEF InBuffer, Fields
  <2>6. InBuffer(q, i)
    BY <2>2, <2>3, <2>5 DEF InBuffer
  <2>7. CALLBACK_DATA_(p, c, x, a) = IF Failed(r) THEN r ELSE q
    BY <1>2 DEF CALLBACK_DATA_, r, q, n
  <2> QED BY <2>2, <2>6, <2>7
<1> QED BY <1>1, <1>2

LEMMA Data0Within ==
    ASSUME NEW p, NEW i \in Nat, InBuffer(p, i), NEW c \in DataCallbacks, NEW a
    PROVE  InBuffer(CALLBACK_DATA(p, c, a), i)
<1>1. 0 \in {0, 1}
  OBVIOUS
<1> QED BY <1>1, DataWithin DEF CALLBACK_DATA

\* The states that mark nothing and call nothing.
LEMMA SilentWithin ==
    ASSUME NEW p, NEW i, InBuffer(p, i), NEW ch
    PROVE  /\ InBuffer(s_dead(p, ch), i) /\ InBuffer(s_res_or_resp_H(p, ch), i)
           /\ InBuffer(s_req_method(p, ch), i) /\ InBuffer(url_char(p, ch), i)
           /\ InBuffer(s_req_http_start(p, ch), i) /\ InBuffer(literal(p, ch), i)
           /\ InBuffer(http_major(p, ch), i) /\ InBuffer(http_minor(p, ch), i)
           /\ InBuffer(s_req_http_end(p, ch), i) /\ InBuffer(s_res_first_status_code(p, ch), i)
           /\ InBuffer(s_chunk_size_start(p, ch), i) /\ InBuffer(s_chunk_size(p, ch), i)
           /\ InBuffer(s_chunk_parameters(p, ch), i) /\ InBuffer(in_value(p, ch), i)
           /\ InBuffer(flag_value(p), i)
<1>1. DOMAIN p = Fields /\ Changed(p, p)
  BY DEF InBuffer, Changed
<1>2. \A s : Changed(Goto(p, s), p) /\ Changed(Fail(p, s), p) /\ Changed(Fail(Goto(p, s), "INVALID_URL"), p)
  BY <1>1 DEF Changed, Goto, Fail, Fields
<1>3. \A d : Changed(Digits(p, 10, d), p) /\ Changed(Digits(p, 16, d), p)
  BY <1>1, <1>2 DEF Changed, Digits, Fields
<1>4. Changed(s_dead(p, ch), p)
  BY <1>1, <1>2 DEF s_dead
<1>5. Changed(s_res_or_resp_H(p, ch), p)
  BY <1>1, <1>2 DEF s_res_or_resp_H, Changed, Fields
<1>6. Changed(s_req_method(p, ch), p)
  BY <1>1, <1>2 DEF s_req_method, Changed, Fields
<1>7. Changed(url_char(p, ch), p)
  BY <1>1, <1>2 DEF url_char
<1>8. Changed(s_req_http_start(p, ch), p) /\ Changed(s_req_http_end(p, ch), p)
  BY <1>1, <1>2 DEF s_req_http_start, s_req_http_end
<1>9. Changed(literal(p, ch), p)
  BY <1>1, <1>2 DEF literal
<1>10. Changed(http_major(p, ch), p) /\ Changed(http_minor(p, ch), p)
  BY <1>1, <1>2 DEF http_major, http_minor, Changed, Fields
<1>11. Changed(s_res_first_status_code(p, ch), p) /\ Changed(s_chunk_size_start(p, ch), p)
  BY <1>1, <1>2 DEF s_res_first_status_code, s_chunk_size_start, Changed, Fields
<1>12. Changed(s_chunk_size(p, ch), p) /\ Changed(s_chunk_parameters(p, ch), p)
  BY <1>1, <1>2, <1>3 DEF s_chunk_size, s_chunk_parameters
<1>13. Changed(flag_value(p), p)
  BY <1>1 DEF flag_value, Changed, Fields
<1>14. Changed(in_value(p, ch), p)
  <2>1. \A v : Changed([p EXCEPT !.header = v], p)
    BY <1>1 DEF Changed, Fields
  <2>2. \A h, f : Changed([p EXCEPT !.header = h, !.flags = f], p)
    BY <1>1 DEF Changed, Fields
  <2> QED BY <1>1, <1>2, <1>3, <2>1, <2>2 DEF in_value
<1> QED BY <1>4, <1>5, <1>6, <1>7, <1>8, <1>9, <1>10, <1>11, <1>12, <1>13, <1>14, ChangedWithin

\* The first line.
LEMMA StartsWithin ==
    ASSUME NEW p, NEW i \in Nat, InBuffer(p, i), NEW ch, NEW a
    PROVE  /\ InBuffer(s_start_req(p, ch, a), i) /\ InBuffer(s_start_res(p, ch, a), i)
           /\ InBuffer(s_start_req_or_res(p, ch, a), i)
<1>1. "message_begin" \in Callbacks
  BY DEF Callbacks
<1>2. ASSUME NEW r, InBuffer(r, i) PROVE InBuffer(s_start_req(r, ch, a), i)
  <2> DEFINE q == [r EXCEPT !.flags = {}, !.content_length = ULLONG_MAX]
             m == [q EXCEPT !.method = FirstLetter[ch], !.index = 1, !.state = "s_req_method"]
  <2>1. Changed(Fail(q, "INVALID_METHOD"), r) /\ Changed(m, r)
    BY <1>2 DEF InBuffer, Changed, Fail, Fields
  <2>2. InBuffer(Fail(q, "INVALID_METHOD"), i) /\ InBuffer(m, i)
    BY <1>2, <2>1, ChangedWithin
  <2>3. s_start_req(r, ch, a) \in {r, Fail(q, "INVALID_METHOD"), CALLBACK_NOTIFY(m, "message_begin", a)}
    BY DEF s_start_req
  <2> HIDE DEF m, q
  <2>4. InBuffer(CALLBACK_NOTIFY(m, "message_begin", a), i)
    BY <1>1, <2>2, NotifyWithin
  <2> QED BY <1>2, <2>2, <2>3, <2>4
<1> DEFINE q == [p EXCEPT !.flags = {}, !.content_length = ULLONG_MAX]
           r == [q EXCEPT !.type = "REQUEST", !.state = "s_start_req"]
<1>3. InBuffer(q, i) /\ InBuffer(r, i)
  <2>1. Changed(q, p) /\ Changed(r, p)
    BY DEF InBuffer, Changed, Fields
  <2> QED BY <2>1, ChangedWithin
<1>4. s_start_res(p, ch, a) \in {p, Fail(q, "INVALID_CONSTANT"),
                                 CALLBACK_NOTIFY(Goto(q, "s_res_H"), "message_begin", a)}
  BY DEF s_start_res
<1>5. s_start_req_or_res(p, ch, a) \in {p, s_start_req(r, ch, a),
                                 CALLBACK_NOTIFY(Goto(q, "s_res_or_resp_H"), "message_begin", a)}
  BY DEF s_start_req_or_res
<1> HIDE DEF q, r
<1>6. \A s : InBuffer(Goto(q, s), i) /\ InBuffer(Fail(q, s), i)
  BY <1>3, GotoWithin
<1>7. \A s : InBuffer(CALLBACK_NOTIFY(Goto(q, s), "message_begin", a), i)
  BY <1>1, <1>6, NotifyWithin
<1> QED BY <1>2, <1>3, <1>4, <1>5, <1>6, <1>7

LEMMA UrlWithin ==
    ASSUME NEW p, NEW i \in Nat, InBuffer(p, i), NEW ch, NEW a
    PROVE  /\ InBuffer(s_req_spaces_before_url(p, ch), i) /\ InBuffer(s_req_url(p, ch, a), i)
<1>1. "url" \in DataCallbacks
  BY DEF DataCallbacks
<1>2. InBuffer(s_req_spaces_before_url(p, ch), i)
  <2> DEFINE q == MARK(p, "url")
  <2>1. InBuffer(q, i)
    BY <1>1, MarkWithin
  <2> HIDE DEF q
  <2>2. InBuffer(Goto(q, "s_req_server_start"), i)
    BY <2>1, GotoWithin
  <2>3. InBuffer(url_char(q, ch), i) /\ InBuffer(url_char(Goto(q, "s_req_server_start"), ch), i)
    BY <2>1, <2>2, SilentWithin
  <2> QED BY <2>3 DEF s_req_spaces_before_url, q
<1>3. InBuffer(s_req_url(p, ch, a), i)
  <2> DEFINE v == [p EXCEPT !.http_major = 0, !.http_minor = 9,
                     !.state = IF ch = CR THEN "s_req_line_almost_done" ELSE "s_header_field_start"]
  <2>1. Changed(v, p)
    BY DEF InBuffer, Changed, Fields
  <2> HIDE DEF v
  <2>2. InBuffer(v, i)
    BY <2>1, ChangedWithin
  <2>3. InBuffer(CALLBACK_DATA(v, "url", a), i)
    BY <1>1, <2>2, Data0Within
  <2>4. InBuffer(CALLBACK_DATA(Goto(p, "s_req_http_start"), "url", a), i)
    <3>1. InBuffer(Goto(p, "s_req_http_start"), i)
      BY GotoWithin
    <3> QED BY <1>1, <3>1, Data0Within
  <2>5. InBuffer(Fail(p, "INVALID_URL"), i) /\ InBuffer(url_char(p, ch), i)
    BY GotoWithin, SilentWithin
  <2>6. s_req_url(p, ch, a) \in {Fail(p, "INVALID_URL"), url_char(p, ch),
               CALLBACK_DATA(Goto(p, "s_req_http_start"), "url", a), CALLBACK_DATA(v, "url", a)}
    BY DEF s_req_url, v
  <2> QED BY <2>3, <2>4, <2>5, <2>6
<1> QED BY <1>2, <1>3

LEMMA StatusWithin ==
    ASSUME NEW p, NEW i \in Nat, InBuffer(p, i), NEW ch, NEW a
    PROVE  /\ InBuffer(s_res_status(p, ch, a), i) /\ InBuffer(s_res_status_start(p, ch, a), i)
           /\ InBuffer(s_res_status_code(p, ch, a), i)
<1>1. "status" \in DataCallbacks
  BY DEF DataCallbacks
<1>2. ASSUME NEW r, InBuffer(r, i) PROVE InBuffer(s_res_status(r, ch, a), i)
  <2>1. \A s : InBuffer(Goto(r, s), i)
    BY <1>2, GotoWithin
  <2>2. \A s : InBuffer(CALLBACK_DATA(Goto(r, s), "status", a), i)
    BY <1>1, <2>1, Data0Within
  <2> QED BY <1>2, <2>2 DEF s_res_status
<1>3. InBuffer(s_res_status_start(p, ch, a), i)
  <2> DEFINE m == MARK(p, "status")
             q == [m EXCEPT !.state = "s_res_status"]
  <2>1. InBuffer(m, i)
    BY <1>1, MarkWithin
  <2> HIDE DEF m
  <2>2. Changed(q, m)
    BY <2>1 DEF InBuffer, Changed, Fields
  <2>3. InBuffer(q, i)
    BY <2>1, <2>2, ChangedWithin
  <2> QED BY <1>2, <2>3 DEF s_res_status_start, m
<1>4. InBuffer(s_res_status_code(p, ch, a), i)
  <2>1. \A v : Changed([p EXCEPT !.status_code = v], p)
    BY DEF InBuffer, Changed, Fields
  <2>2. \A v : InBuffer([p EXCEPT !.status_code = v], i)
    BY <2>1, ChangedWithin
  <2>3. \A s : InBuffer(Goto(p, s), i) /\ InBuffer(Fail(p, s), i)
    BY GotoWithin
  <2> QED BY <1>3, <2>2, <2>3 DEF s_res_status_code
<1> QED BY <1>2, <1>3, <1>4

\* The body.
LEMMA CompleteWithin ==
    ASSUME NEW p, NEW i \in Nat, InBuffer(p, i), NEW a
    PROVE  InBuffer(message_complete(p, a), i)
<1> DEFINE g == Goto(p, NEW_MESSAGE(p))
           q == CALLBACK_NOTIFY(g, "message_complete", a)
           r == [q EXCEPT !.exited = p.upgrade]
<1>1. InBuffer(g, i) /\ "message_complete" \in Callbacks
  BY GotoWithin DEF Callbacks
<1> HIDE DEF g
<1>2. InBuffer(q, i)
  BY <1>1, NotifyWithin
<1> HIDE DEF q
<1>3. Changed(r, q)
  BY <1>2 DEF InBuffer, Changed, Fields
<1>4. InBuffer(r, i)
  BY <1>2, <1>3, ChangedWithin
<1> QED BY <1>4 DEF message_complete, q, g

LEMMA BodyWithin ==
    ASSUME NEW p, NEW i \in Nat, InBuffer(p, i), NEW ch, NEW a
    PROVE  /\ InBuffer(s_body_identity(p, ch, a), i) /\ InBuffer(s_body_identity_eof(p), i)
           /\ InBuffer(s_chunk_data(p, ch), i)
<1> DEFINE m == MARK(p, "body")
           q == [m EXCEPT !.content_length = @ - 1]
           d == CALLBACK_DATA_(q, "body", 1, a)
           t == message_complete(d, a)
<1>1. "body" \in DataCallbacks /\ 1 \in {0, 1}
  BY DEF DataCallbacks
<1>2. InBuffer(m, i)
  BY <1>1, MarkWithin
<1>3. s_body_identity_eof(p) = m
  BY DEF s_body_identity_eof
<1> HIDE DEF m
<1>4. Changed(q, m)
  BY <1>2 DEF InBuffer, Changed, Fields
<1>5. s_chunk_data(p, ch) = IF q.content_length = 0 THEN Goto(q, "s_chunk_data_almost_done") ELSE q
  BY DEF s_chunk_data, m
<1>6. s_body_identity(p, ch, a) \in {q, d, t}
  BY DEF s_body_identity, m
<1> HIDE DEF q
<1>7. InBuffer(q, i)
  BY <1>2, <1>4, ChangedWithin
<1>8. InBuffer(d, i)
  BY <1>1, <1>7, DataWithin
<1> HIDE DEF d
<1>9. InBuffer(t, i)
  BY <1>8, CompleteWithin
<1>10. InBuffer(Goto(q, "s_chunk_data_almost_done"), i)
  BY <1>7, GotoWithin
<1> HIDE DEF t
<1> QED BY <1>2, <1>3, <1>5, <1>6, <1>7, <1>8, <1>9, <1>10

LEMMA ChunksWithin ==
    ASSUME NEW p, NEW i \in Nat, InBuffer(p, i), NEW ch, NEW a
    PROVE  /\ InBuffer(s_chunk_size_almost_done(p, ch, a), i)
           /\ InBuffer(s_chunk_data_almost_done(p, ch, a), i)
           /\ InBuffer(s_chunk_data_done(p, ch, a), i)
<1>1. "body" \in DataCallbacks /\ {"chunk_header", "chunk_complete"} \subseteq Callbacks
  BY DEF DataCallbacks, Callbacks
<1>2. \A s : InBuffer(Goto(p, s), i) /\ InBuffer(Fail(p, s), i)
  BY GotoWithin
<1>3. InBuffer(CALLBACK_DATA(Goto(p, "s_chunk_data_done"), "body", a), i)
  BY <1>1, <1>2, Data0Within
<1>4. InBuffer(CALLBACK_NOTIFY(Goto(p, "s_chunk_size_start"), "chunk_complete", a), i)
  BY <1>1, <1>2, NotifyWithin
<1>5. InBuffer(s_chunk_size_almost_done(p, ch, a), i)
  <2> DEFINE last == p.content_length = 0
             q == [p EXCEPT !.flags = IF last THEN @ \cup {"TRAILING"} ELSE @,
                            !.state = IF last THEN "s_header_field_start" ELSE "s_chunk_data"]
  <2>1. Changed(q, p)
    BY DEF InBuffer, Changed, Fields
  <2>2. s_chunk_size_almost_done(p, ch, a) \in {Fail(p, "STRICT"), CALLBACK_NOTIFY(q, "chunk_header", a)}
    BY DEF s_chunk_size_almost_done
  <2> HIDE DEF q
  <2>3. InBuffer(q, i)
    BY <2>1, ChangedWithin
  <2>4. InBuffer(CALLBACK_NOTIFY(q, "chunk_header", a), i)
    BY <1>1, <2>3, NotifyWithin
  <2> QED BY <1>2, <2>2, <2>4
<1> QED BY <1>2, <1>3, <1>4, <1>5 DEF s_chunk_data_almost_done, s_chunk_data_done

\* The headers.
LEMMA HeadersDoneWithin ==
    ASSUME NEW p, NEW i \in Nat, InBuffer(p, i), NEW a
    PROVE  InBuffer(s_headers_done(p, a), i)
<1>1. \A s : InBuffer(Goto(p, s), i) /\ InBuffer(Fail(p, s), i)
  BY GotoWithin
<1>2. InBuffer(message_complete(p, a), i)
  BY CompleteWithin
<1>3. \/ s_headers_done(p, a) = message_complete(p, a)
      \/ s_headers_done(p, a) = Goto(p, "s_chunk_size_start")
      \/ s_headers_done(p, a) = Goto(p, "s_body_identity")
      \/ s_headers_done(p, a) = Goto(p, "s_body_identity_eof")
      \/ s_headers_done(p, a) = Fail(p, "INVALID_TRANSFER_ENCODING")
  BY DEF s_headers_done
<1> QED BY <1>1, <1>2, <1>3

LEMMA HeadersWithin ==
    ASSUME NEW p, NEW i \in Nat, InBuffer(p, i), NEW ch, NEW a
    PROVE  InBuffer(s_headers_almost_done(p, ch, a), i)
<1> DEFINE t == CALLBACK_NOTIFY(p, "chunk_complete", a)
           answer == a["headers_complete"]
           b == [a EXCEPT !["headers_complete"] = IF @ \in 1..2 THEN 0 ELSE @]
           u == [p EXCEPT !.upgrade = Upgrades(p)]
           c == CALLBACK_NOTIFY(u, "headers_complete", b)
           h == [c EXCEPT !.upgrade = @ \/ answer = 2,
                          !.flags = IF answer \in 1..2 THEN @ \cup {"SKIPBODY"} ELSE @]
<1>1. {"headers_complete", "chunk_complete"} \subseteq Callbacks
  BY DEF Callbacks
<1>2. Changed(u, p)
  BY DEF InBuffer, Changed, Fields
<1>3. s_headers_almost_done(p, ch, a) \in {Fail(p, "STRICT"), Fail(p, "UNEXPECTED_CONTENT_LENGTH"),
          t, message_complete(t, a), h, s_headers_done(h, a)}
  BY DEF s_headers_almost_done
<1> HIDE DEF u
<1>4. InBuffer(u, i)
  BY <1>2, ChangedWithin
<1> HIDE DEF b
<1>5. InBuffer(c, i) /\ InBuffer(t, i)
  BY <1>1, <1>4, NotifyWithin
<1> HIDE DEF c, answer, t
<1>6. Changed(h, c)
  BY <1>5 DEF InBuffer, Changed, Fields
<1> HIDE DEF h
<1>7. InBuffer(h, i)
  BY <1>5, <1>6, ChangedWithin
<1>8. InBuffer(message_complete(t, a), i) /\ InBuffer(s_headers_done(h, a), i)
  BY <1>5, <1>7, CompleteWithin, HeadersDoneWithin
<1>9. \A s : InBuffer(Fail(p, s), i)
  BY GotoWithin
<1> QED BY <1>3, <1>5, <1>7, <1>8, <1>9

LEMMA FieldStartWithin ==
    ASSUME NEW p, NEW i \in Nat, InBuffer(p, i), NEW ch, NEW a
    PROVE  InBuffer(s_header_field_start(p, ch, a), i)
<1> DEFINE m == MARK(p, "header_field")
           v(x) == [m EXCEPT !.state = "s_header_field", !.header = x]
<1>1. InBuffer(m, i)
  <2>1. "header_field" \in DataCallbacks
    BY DEF DataCallbacks
  <2> QED BY <2>1, MarkWithin
<1>2. \/ s_header_field_start(p, ch, a) \in {Goto(p, "s_headers_almost_done"),
            s_headers_almost_done(p, ch, a), Fail(p, "INVALID_HEADER_TOKEN")}
      \/ \E x : s_header_field_start(p, ch, a) = v(x)
  <2>1. \/ s_header_field_start(p, ch, a) \in {Goto(p, "s_headers_almost_done"),
              s_headers_almost_done(p, ch, a), Fail(p, "INVALID_HEADER_TOKEN")}
        \/ s_header_field_start(p, ch, a) =
              v(IF Lower(ch) \in DOMAIN FirstOfField THEN FirstOfField[Lower(ch)] ELSE "general")
    BY DEF s_header_field_start
  <2> HIDE DEF v
  <2> QED BY <2>1
<1> HIDE DEF m
<1>3. \A x : Changed(v(x), m)
  BY <1>1 DEF InBuffer, Changed, Fields
<1> HIDE DEF v
<1>4. \A x : InBuffer(v(x), i)
  BY <1>1, <1>3, ChangedWithin
<1> QED BY <1>2, <1>4, GotoWithin, HeadersWithin

LEMMA FieldWithin ==
    ASSUME NEW p, NEW i \in Nat, InBuffer(p, i), NEW ch, NEW a
    PROVE  InBuffer(s_header_field(p, ch, a), i)
<1> DEFINE v(x, f) == [p EXCEPT !.header = x, !.flags = f]
           d == CALLBACK_DATA(Goto(p, "s_header_value_discard_ws"), "header_field", a)
<1>1. "header_field" \in DataCallbacks
  BY DEF DataCallbacks
<1>2. InBuffer(d, i) /\ InBuffer(Fail(p, "INVALID_HEADER_TOKEN"), i)
  BY <1>1, GotoWithin, Data0Within
<1>3. \A x, f : Changed(v(x, f), p)
  BY DEF InBuffer, Changed, Fields
<1>4. \/ s_header_field(p, ch, a) \in {d, Fail(p, "INVALID_HEADER_TOKEN")}
      \/ s_header_field(p, ch, a) = v(Name(p.header, ch),
            IF Name(p.header, ch) = "transfer_encoding" THEN p.flags \cup {"TRANSFER_ENCODING"} ELSE p.flags)
  BY DEF s_header_field
<1> HIDE DEF v, d
<1>5. \A x, f : InBuffer(v(x, f), i)
  BY <1>3, ChangedWithin
<1> QED BY <1>2, <1>4, <1>5

\* The value of a header.
LEMMA ValueStartWithin ==
    ASSUME NEW p, NEW i \in Nat, InBuffer(p, i), NEW ch
    PROVE  /\ InBuffer(s_header_value_start(p, ch), i)
           /\ InBuffer(s_header_value_discard_ws(p, ch), i)
<1> DEFINE m == MARK(p, "header_value")
           q == [m EXCEPT !.state = "s_header_value"]
           u(h) == [q EXCEPT !.header = h]
           v(h, f) == [q EXCEPT !.flags = f, !.header = h]
           w(h, f, n) == [q EXCEPT !.flags = f, !.content_length = n, !.header = h]
           r == s_header_value_start(p, ch)
<1>1. InBuffer(m, i)
  <2>1. "header_value" \in DataCallbacks
    BY DEF DataCallbacks
  <2> QED BY <2>1, MarkWithin
<1>2. r \in {q, Fail(q, "INVALID_CONTENT_LENGTH"), Fail(q, "UNEXPECTED_CONTENT_LENGTH"),
            v("general", q.flags \cup {"UPGRADE"}),
            u(IF Lower(ch) = "c" THEN "te_chunked" ELSE "te_token"),
            w("content_length_num", q.flags \cup {"CONTENTLENGTH"}, Digit[ch]),
            u(Connection(Lower(ch), "conn_token")), u("general")}
  BY DEF s_header_value_start
<1>3. InBuffer(q, i)
  <2> HIDE DEF m
  <2>1. Changed(q, m)
    BY <1>1 DEF InBuffer, Changed, Fields
  <2> QED BY <1>1, <2>1, ChangedWithin
<1> HIDE DEF q, r
<1>4. InBuffer(r, i)
  <2>1. /\ \A h : Changed(u(h), q)
        /\ \A h, f : Changed(v(h, f), q)
        /\ \A h, f, n : Changed(w(h, f, n), q)
    BY <1>3 DEF InBuffer, Changed, Fields
  <2> HIDE DEF u, v, w
  <2>2. /\ \A h : InBuffer(u(h), i)
        /\ \A h, f : InBuffer(v(h, f), i)
        /\ \A h, f, n : InBuffer(w(h, f, n), i)
    BY <1>3, <2>1, ChangedWithin
  <2>3. \A s : InBuffer(Fail(q, s), i)
    BY <1>3, GotoWithin
  <2> QED BY <1>2, <1>3, <2>2, <2>3
<1>5. s_header_value_discard_ws(p, ch) \in {p, Goto(p, "s_header_value_discard_ws_almost_done"),
                                            Goto(p, "s_header_value_discard_lws"), r}
  BY DEF s_header_value_discard_ws, r
<1> QED BY <1>4, <1>5, GotoWithin DEF r

LEMMA ValueWithin ==
    ASSUME NEW p, NEW i \in Nat, InBuffer(p, i), NEW ch, NEW a
    PROVE  /\ InBuffer(s_header_value(p, ch, a), i)
           /\ InBuffer(s_header_value_lws(p, ch, a), i)
           /\ InBuffer(s_header_value_discard_lws(p, ch, a), i)
<1>1. "header_value" \in DataCallbacks
  BY DEF DataCallbacks
<1>2. \A s : InBuffer(Goto(p, s), i) /\ InBuffer(Fail(p, s), i)
  BY GotoWithin
<1>3. InBuffer(flag_value(p), i) /\ InBuffer(in_value(p, ch), i)
  BY SilentWithin
<1>4. InBuffer(s_header_value(p, ch, a), i)
  <2> DEFINE d == CALLBACK_DATA(Goto(p, "s_header_almost_done"), "header_value", a)
  <2>1. InBuffer(d, i)
    BY <1>1, <1>2, Data0Within
  <2>2. s_header_value(p, ch, a) \in {d, literal(d, ch), in_value(p, ch)}
    BY DEF s_header_value
  <2> HIDE DEF d
  <2>3. InBuffer(literal(d, ch), i)
    BY <2>1, SilentWithin
  <2> QED BY <1>3, <2>1, <2>2, <2>3
<1>5. InBuffer(s_header_value_lws(p, ch, a), i)
  <2> DEFINE q == [p EXCEPT !.header = IF @ = "content_length_num" THEN "content_length_ws" ELSE @]
             f == flag_value(p)
  <2>1. Changed(q, p)
    BY DEF InBuffer, Changed, Fields
  <2>2. s_header_value_lws(p, ch, a) \in {s_header_value_start(q, ch), s_header_field_start(f, ch, a)}
    BY DEF s_header_value_lws
  <2> HIDE DEF q, f
  <2>3. InBuffer(q, i)
    BY <2>1, ChangedWithin
  <2>4. InBuffer(f, i)
    BY <1>3 DEF f
  <2>5. InBuffer(s_header_value_start(q, ch), i) /\ InBuffer(s_header_field_start(f, ch, a), i)
    BY <2>3, <2>4, ValueStartWithin, FieldStartWithin
  <2> QED BY <2>2, <2>5
<1>6. InBuffer(s_header_value_discard_lws(p, ch, a), i)
  <2> DEFINE f == flag_value(p)
             m == MARK(f, "header_value")
             d == CALLBACK_DATA(Goto(m, "s_header_field_start"), "header_value", a)
  <2>1. s_header_value_discard_lws(p, ch, a) \in {Goto(p, "s_header_value_discard_ws"),
            Fail(p, "INVALID_CONTENT_LENGTH"), d, s_header_field_start(d, ch, a)}
    BY DEF s_header_value_discard_lws
  <2>2. InBuffer(f, i)
    BY <1>3
  <2> HIDE DEF f
  <2>3. InBuffer(m, i)
    BY <1>1, <2>2, MarkWithin
  <2> HIDE DEF m
  <2>4. InBuffer(Goto(m, "s_header_field_start"), i)
    BY <2>3, GotoWithin
  <2>5. InBuffer(d, i)
    BY <1>1, <2>4, Data0Within
  <2> HIDE DEF d
  <2>6. InBuffer(s_header_field_start(d, ch, a), i)
    BY <2>5, FieldStartWithin
  <2> QED BY <1>2, <2>1, <2>5, <2>6
<1> QED BY <1>4, <1>5, <1>6

\* A symbol.
LEMMA TransitionWithin ==
    ASSUME NEW p, p.state \in States, NEW i \in Nat, InBuffer(p, i), NEW ch, NEW a
    PROVE  InBuffer(Transition(p, ch, a), i)
<1>1. /\ InBuffer(s_header_field(p, ch, a), i) /\ InBuffer(s_header_field_start(p, ch, a), i)
      /\ InBuffer(s_header_value(p, ch, a), i) /\ InBuffer(s_header_value_lws(p, ch, a), i)
      /\ InBuffer(s_header_value_discard_ws(p, ch), i)
      /\ InBuffer(s_header_value_discard_lws(p, ch, a), i)
      /\ InBuffer(s_headers_almost_done(p, ch, a), i)
  BY FieldWithin, FieldStartWithin, ValueWithin, ValueStartWithin, HeadersWithin
<1>2. /\ InBuffer(s_req_url(p, ch, a), i) /\ InBuffer(s_req_spaces_before_url(p, ch), i)
      /\ InBuffer(s_start_req(p, ch, a), i) /\ InBuffer(s_start_res(p, ch, a), i)
      /\ InBuffer(s_start_req_or_res(p, ch, a), i) /\ InBuffer(s_res_status(p, ch, a), i)
      /\ InBuffer(s_res_status_start(p, ch, a), i) /\ InBuffer(s_res_status_code(p, ch, a), i)
  BY UrlWithin, StartsWithin, StatusWithin
<1>3. /\ InBuffer(s_body_identity(p, ch, a), i) /\ InBuffer(s_body_identity_eof(p), i)
      /\ InBuffer(s_chunk_data(p, ch), i) /\ InBuffer(s_chunk_size_almost_done(p, ch, a), i)
      /\ InBuffer(s_chunk_data_almost_done(p, ch, a), i)
      /\ InBuffer(s_chunk_data_done(p, ch, a), i)
  BY BodyWithin, ChunksWithin
<1>4. /\ InBuffer(s_dead(p, ch), i) /\ InBuffer(s_res_or_resp_H(p, ch), i)
      /\ InBuffer(s_req_method(p, ch), i) /\ InBuffer(s_req_http_start(p, ch), i)
      /\ InBuffer(literal(p, ch), i) /\ InBuffer(http_major(p, ch), i)
      /\ InBuffer(http_minor(p, ch), i) /\ InBuffer(s_req_http_end(p, ch), i)
      /\ InBuffer(s_res_first_status_code(p, ch), i) /\ InBuffer(s_chunk_size_start(p, ch), i)
      /\ InBuffer(s_chunk_size(p, ch), i) /\ InBuffer(s_chunk_parameters(p, ch), i)
  BY SilentWithin
<1> QED BY <1>1, <1>2, <1>3, <1>4
        DEF Transition, States, UrlStates, Literals, ReqLiteral, ResLiteral

LEMMA StepWithin ==
    ASSUME NEW p, p.state \in States, NEW i \in Nat, InBuffer(p, i), NEW ch, NEW a
    PROVE  LET q == step(p, ch, a)
           IN  /\ q.out \in Seq(Event) /\ \A k \in DOMAIN q.out : q.out[k].n <= i + q.out[k].extra
               /\ InBuffer([q EXCEPT !.out = <<>>], i + 1)
<1> DEFINE t == Transition(p, ch, a)
           m == Moved(t.marks)
           q == step(p, ch, a)
           r == [q EXCEPT !.out = <<>>]
<1>1. InBuffer(t, i)
  BY TransitionWithin
<1>2. q = IF Failed(t) THEN t ELSE [t EXCEPT !.marks = m]
  BY DEF step, Moved
<1> HIDE DEF t, q
<1>3. \A c \in DataCallbacks : t.marks[c] \in Nat \cup {-1} /\ t.marks[c] <= i
  BY <1>1 DEF InBuffer
<1>4. m \in [DataCallbacks -> Nat \cup {-1}] /\ \A c \in DataCallbacks : m[c] <= i + 1
  BY <1>3 DEF Moved
<1> HIDE DEF m
<1>5. DOMAIN q = Fields /\ q.out = t.out /\ q.marks \in {t.marks, m}
  BY <1>1, <1>2 DEF InBuffer, Fields
<1>6. /\ q.marks \in [DataCallbacks -> Nat \cup {-1}]
      /\ \A c \in DataCallbacks : q.marks[c] <= i + 1
  <2>1. CASE q.marks = m
    BY <1>4, <2>1
  <2>2. CASE q.marks = t.marks
    <3>1. t.marks \in [DataCallbacks -> Nat \cup {-1}]
      BY <1>1 DEF InBuffer
    <3>2. \A c \in DataCallbacks : t.marks[c] <= i + 1
      BY <1>3
    <3> QED BY <2>2, <3>1, <3>2
  <2> QED BY <1>5, <2>1, <2>2
<1>7. DOMAIN r = Fields /\ r.marks = q.marks /\ r.out = <<>>
  BY <1>5 DEF Fields
<1>8. <<>> \in Seq(Event) /\ DOMAIN <<>> = {}
  OBVIOUS
<1> HIDE DEF r
<1>9. InBuffer(r, i + 1)
  BY <1>6, <1>7, <1>8 DEF InBuffer
<1>10. q.out \in Seq(Event) /\ \A k \in DOMAIN q.out : q.out[k].n <= i + q.out[k].extra
  BY <1>1, <1>5 DEF InBuffer
<1> QED BY <1>9, <1>10 DEF q, r

LEMMA BeginWithin ==
    ASSUME NEW p, DOMAIN p = Fields
    PROVE  InBuffer(begin(p), 0)
<1> DEFINE m == [c \in DataCallbacks |-> IF c \in Resumed(p.state) THEN 0 ELSE -1]
           q == [p EXCEPT !.exited = FALSE, !.out = <<>>, !.marks = m]
<1>1. m \in [DataCallbacks -> Nat \cup {-1}] /\ \A c \in DataCallbacks : m[c] <= 0
  OBVIOUS
<1>2. begin(p) = q
  BY DEF begin
<1> HIDE DEF m
<1>3. DOMAIN q = Fields /\ q.marks = m /\ q.out = <<>>
  BY DEF Fields
<1>4. <<>> \in Seq(Event) /\ DOMAIN <<>> = {}
  OBVIOUS
<1> HIDE DEF q
<1> QED BY <1>1, <1>2, <1>3, <1>4 DEF InBuffer

-----------------------------------------------------------------------------
(* Induction, and folds over the positions of a sequence.                  *)

\* Induction, for sets.
LEMMA Induction ==
    ASSUME NEW T, 0 \in T, \A n \in Nat : n \in T => n + 1 \in T
    PROVE  Nat \subseteq T
<1> DEFINE R == OpToRel(<, Nat)
           U == Nat \ T
<1>1. R = {p \in Nat \X Nat : p[1] < p[2]}
  BY DEF OpToRel
<1>2. IsWellFoundedOn(R, Nat)
  BY NatLessThanWellFounded
<1> HIDE DEF R
<1>3. SUFFICES ASSUME U # {} PROVE FALSE
  OBVIOUS
<1>4. \E x \in U : \A y \in U : ~(<<y, x>> \in R)
  <2> HIDE DEF U
  <2>1. U \subseteq Nat
    BY DEF U
  <2> QED BY <1>2, <1>3, <2>1, WFMin
<1>5. PICK n \in U : \A m \in U : ~(<<m, n>> \in R)
  BY <1>4
<1>6. n # 0 /\ n - 1 \in Nat
  BY <1>5
<1>7. n - 1 \in U
  BY <1>6
<1>8. <<n - 1, n>> \in R
  BY <1>1, <1>5, <1>6
<1> QED BY <1>5, <1>7, <1>8

\* The maximum of a bounded set of numbers is one of them.
LEMMA MaxOf ==
    ASSUME NEW n \in Nat, NEW S \in SUBSET (1..n), S # {}
    PROVE  Max(S) \in S /\ \A y \in S : Max(S) >= y
<1> DEFINE Has(m) == \A U \in SUBSET (1..m) : U # {} => \E x \in U : \A y \in U : x >= y
           T == {m \in Nat : Has(m)}
<1>1. 0 \in T
  <2>1. 1..0 = {}
    OBVIOUS
  <2> QED BY <2>1
<1>2. ASSUME NEW m \in Nat, m \in T PROVE m + 1 \in T
  <2>1. ASSUME NEW U \in SUBSET (1..(m + 1)), U # {}
        PROVE  \E x \in U : \A y \in U : x >= y
    <3>1. CASE m + 1 \in U
      BY <3>1
    <3>2. CASE m + 1 \notin U
      <4>1. U \in SUBSET (1..m)
        BY <3>2
      <4> QED BY <1>2, <2>1, <4>1
    <3> QED BY <3>1, <3>2
  <2> QED BY <2>1
<1> HIDE DEF T
<1>3. n \in T
  BY <1>1, <1>2, Induction
<1>4. \E x \in S : \A y \in S : x >= y
  BY <1>3 DEF T
<1> QED BY <1>4 DEF Max

\* The sets that a fold over 1..n goes through.
LEMMA Prefix ==
    ASSUME NEW n \in Nat \ {0}
    PROVE  Max(1..n) = n /\ (1..n) \ {Max(1..n)} = 1..(n - 1) /\ 1..n # {}
<1>1. 1..n # {} /\ 1..n \in SUBSET (1..n) /\ n \in 1..n
  OBVIOUS
<1>2. Max(1..n) \in 1..n /\ \A y \in 1..n : Max(1..n) >= y
  BY <1>1, MaxOf
<1>3. Max(1..n) = n
  BY <1>1, <1>2
<1> QED BY <1>1, <1>3

\* The values of a fold over subsets of 1..n.
IsFold(g, n, base, F) ==
    \A s \in SUBSET (1..n) : g[s] = IF s = {} THEN base ELSE F[<<Max(s), g[s \ {Max(s)}]>>]

\* A fold over 1..n has a value, when its operation, here a function, stays in a set.
LEMMA FoldExists ==
    ASSUME NEW n \in Nat, NEW A, NEW base \in A, NEW F \in [(1..n) \X A -> A]
    PROVE  \E g \in [SUBSET (1..n) -> A] : IsFold(g, n, base, F)
<1> DEFINE D == SUBSET (1..n)
           Step(g, s) == IF s = {} THEN base ELSE F[<<Max(s), g[s \ {Max(s)}]>>]
           Upto(m) == \E g \in [D -> A] : \A s \in D : s \subseteq 1..m => g[s] = Step(g, s)
           T == {m \in Nat : Upto(m)}
<1>1. \A s \in D : s # {} => /\ Max(s) \in s /\ Max(s) \in 1..n
                             /\ s \ {Max(s)} \in D
                             /\ \A m \in Nat : s \subseteq 1..(m + 1) => s \ {Max(s)} \subseteq 1..m
  <2> TAKE s \in D
  <2> HAVE s # {}
  <2>1. Max(s) \in s /\ \A y \in s : Max(s) >= y
    BY MaxOf
  <2>2. Max(s) \in 1..n /\ s \ {Max(s)} \in D
    BY <2>1
  <2>3. ASSUME NEW m \in Nat, s \subseteq 1..(m + 1), NEW y \in s \ {Max(s)}
        PROVE  y \in 1..m
    <3>1. Max(s) >= y /\ y # Max(s) /\ y \in 1..(m + 1) /\ Max(s) \in 1..(m + 1)
      BY <2>1, <2>3
    <3> QED BY <3>1
  <2> QED BY <2>1, <2>2, <2>3
<1>2. \A g \in [D -> A], s \in D : Step(g, s) \in A
  <2> TAKE g \in [D -> A], s \in D
  <2>1. CASE s = {}
    BY <2>1
  <2>2. CASE s # {}
    BY <1>1, <2>2
  <2> QED BY <2>1, <2>2
<1>3. 0 \in T
  <2> DEFINE g == [s \in D |-> base]
  <2>1. g \in [D -> A] /\ \A s \in D : s \subseteq 1..0 => g[s] = Step(g, s)
    OBVIOUS
  <2> QED BY <2>1
<1>4. ASSUME NEW m \in Nat, m \in T PROVE m + 1 \in T
  <2>1. PICK g \in [D -> A] : \A s \in D : s \subseteq 1..m => g[s] = Step(g, s)
    BY <1>4
  <2> DEFINE h == [s \in D |-> Step(g, s)]
  <2>2. h \in [D -> A]
    BY <1>2
  <2>3. ASSUME NEW s \in D, s \subseteq 1..(m + 1)
        PROVE  h[s] = Step(h, s)
    <3>1. CASE s = {}
      BY <3>1
    <3>2. CASE s # {}
      <4> DEFINE r == s \ {Max(s)}
      <4>1. r \in D /\ r \subseteq 1..m
        BY <1>1, <2>3, <3>2
      <4>2. h[r] = g[r]
        BY <2>1, <4>1
      <4> HIDE DEF h
      <4>3. h[s] = Step(g, s)
        BY DEF h
      <4> QED BY <3>2, <4>2, <4>3
    <3> QED BY <3>1, <3>2
  <2> HIDE DEF h, Step
  <2>4. Upto(m + 1)
    BY <2>2, <2>3
  <2> HIDE DEF Upto
  <2> QED BY <2>4
<1> HIDE DEF T
<1>5. n \in T
  BY <1>3, <1>4, Induction
<1> QED BY <1>5 DEF T, IsFold

\* h is a fold, where its values are in A.
Unfolds(h, n, A, base, F) ==
    /\ h[{}] = base
    /\ \A s \in SUBSET (1..n) : s # {} /\ h[s \ {Max(s)}] \in A
            => h[s] = F[<<Max(s), h[s \ {Max(s)}]>>]

IsSeries(f, n, base, F) ==
    f[0] = base /\ \A k \in 1..n : f[k] = F[<<k, f[k - 1]>>]

IsLast(v, n, A, base, F) == \E f \in [0..n -> A] : IsSeries(f, n, base, F) /\ v = f[n]

\* The value h[1..n] of a fold is the last of a series that starts at base.
LEMMA FoldValue ==
    ASSUME NEW n \in Nat, NEW A, NEW base \in A, NEW F \in [(1..n) \X A -> A],
           NEW h, Unfolds(h, n, A, base, F)
    PROVE  IsLast(h[1..n], n, A, base, F)
<1> DEFINE f == [k \in 0..n |-> h[1..k]]
           T == {k \in Nat : k <= n => h[1..k] \in A}
<1>1. h[1..0] = base
  <2>1. 1..0 = {}
    OBVIOUS
  <2> QED BY <2>1 DEF Unfolds
<1>2. ASSUME NEW k \in 1..n, h[1..(k - 1)] \in A
      PROVE  h[1..k] = F[<<k, h[1..(k - 1)]>>]
  <2>1. k \in Nat \ {0} /\ 1..k \in SUBSET (1..n)
    OBVIOUS
  <2>2. Max(1..k) = k /\ (1..k) \ {Max(1..k)} = 1..(k - 1) /\ 1..k # {}
    BY <2>1, Prefix
  <2> QED BY <1>2, <2>1, <2>2 DEF Unfolds
<1>3. 0 \in T
  BY <1>1
<1>4. ASSUME NEW k \in Nat, k \in T PROVE k + 1 \in T
  <2>1. ASSUME k + 1 <= n PROVE h[1..(k + 1)] \in A
    <3>1. k + 1 \in 1..n /\ (k + 1) - 1 = k /\ h[1..k] \in A
      BY <1>4, <2>1
    <3> QED BY <1>2, <3>1
  <2> QED BY <2>1
<1>5. Nat \subseteq T
  <2> HIDE DEF T
  <2> QED BY <1>3, <1>4, Induction
<1>6. f \in [0..n -> A]
  BY <1>5
<1>7. ASSUME NEW k \in 1..n PROVE f[k] = F[<<k, f[k - 1]>>]
  <2>1. k - 1 \in 0..n /\ k \in 0..n /\ f[k - 1] = h[1..(k - 1)] /\ f[k] = h[1..k]
    OBVIOUS
  <2> QED BY <1>2, <1>6, <2>1
<1>8. f[0] = base /\ h[1..n] = f[n]
  BY <1>1
<1> QED BY <1>6, <1>7, <1>8 DEF IsSeries, IsLast
===============================================================================
