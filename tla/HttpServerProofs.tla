---------------------------- MODULE HttpServerProofs ----------------------------
(***************************************************************************)
(* Theorems about HttpServer, whatever the clients write and wherever the  *)
(* reads cut it.  What a read makes of its bytes is a fold over symbols of *)
(* a fold over callbacks: of its type, where each call of the application  *)
(* comes from (HttpRequestProofs says where the parser is in a request),   *)
(* and that what follows a request does not change its call.  What it does *)
(* to the link is a fold over the calls of the application, and only the   *)
(* first of these counts.                                                  *)
(***************************************************************************)
EXTENDS HttpServer, HttpRequestProofs

-----------------------------------------------------------------------------
(* Types.  V has every symbol that was read.                               *)

Headers(V) == UNION {[D -> Seq(V)] : D \in SUBSET Seq(V)}

Requests(V) ==
    [method : {"", "GET", "POST"}, url : Seq(V), headers : Headers(V), body : Seq(V)]

AppCalls(V) ==
    [to : {"on_get", "on_post"}, url : Seq(V), headers : Headers(V), body : Seq(V), at : Nat]

Results(V) == [request : Requests(V), calls : Seq(AppCalls(V)), ok : BOOLEAN]

\* The parser between two symbols, before the end of the read.
Parsers ==
    {p \in [type : DOMAIN Start, status_code : 0..999, state : States,
            header : HeaderStates, flags : SUBSET Flags,
            method : {"DELETE"} \cup DOMAIN method_strings, index : 0..2,
            content_length : 0..ULLONG_MAX, http_major : 0..9, http_minor : 0..9,
            upgrade : BOOLEAN, errno : Errors, marks : [DataCallbacks -> Nat \cup {-1}],
            exited : BOOLEAN, out : {<<>>}] : Done(p)}

\* What is known in the course of a read, with the parser in P.
Readings(V, P) ==
    [parser : P, request : Requests(V), field : Seq(V), calls : Seq(AppCalls(V)),
     left : SUBSET Results(V)]

LEMMA RequestsGrow ==
    ASSUME NEW V, NEW W, V \subseteq W
    PROVE  Requests(V) \subseteq Requests(W)
<1>1. Seq(V) \subseteq Seq(W)
  OBVIOUS
<1>2. Headers(V) \subseteq Headers(W)
  <2>1. ASSUME NEW h \in Headers(V) PROVE h \in Headers(W)
    <3>1. PICK D \in SUBSET Seq(V) : h \in [D -> Seq(V)]
      BY DEF Headers
    <3>2. D \in SUBSET Seq(W) /\ h \in [D -> Seq(W)]
      BY <1>1, <3>1
    <3> QED BY <3>2 DEF Headers
  <2> QED BY <2>1
<1> QED BY <1>1, <1>2 DEF Requests

LEMMA NewRequestType == \A V : NewRequest \in Requests(V)
<1> TAKE V
<1>1. <<>> \in Seq(V)
  OBVIOUS
<1>2. <<>> \in Headers(V)
  <2>1. <<>> \in [{} -> Seq(V)] /\ {} \in SUBSET Seq(V)
    OBVIOUS
  <2> QED BY <2>1 DEF Headers
<1> QED BY <1>1, <1>2 DEF NewRequest, Requests

LEMMA QuietParser ==
    ASSUME NEW q, Done(q)
    PROVE  [q EXCEPT !.out = <<>>] \in Parsers
<1> DEFINE r == [q EXCEPT !.out = <<>>]
<1>1. Typed(q) /\ <<>> \in Seq(Event)
  BY DEF Done, Good
<1>2. /\ r.type = q.type /\ r.state = q.state /\ r.header = q.header /\ r.flags = q.flags
      /\ r.content_length = q.content_length /\ r.errno = q.errno /\ r.marks = q.marks
      /\ r.out = <<>> /\ Typed(r)
  BY <1>1 DEF Typed, Fields
<1>3. r = [type |-> r.type, status_code |-> r.status_code, state |-> r.state,
           header |-> r.header, flags |-> r.flags, method |-> r.method, index |-> r.index,
           content_length |-> r.content_length, http_major |-> r.http_major,
           http_minor |-> r.http_minor, upgrade |-> r.upgrade, errno |-> r.errno,
           marks |-> r.marks, exited |-> r.exited, out |-> r.out]
  BY <1>1 DEF Typed, Fields
<1> HIDE DEF r
<1>4. SameMarks(r, q)
  BY <1>2 DEF SameMarks, Marked
<1>5. Done(r)
  BY <1>4, SameMarksDone
<1>6. /\ r.type \in DOMAIN Start /\ r.status_code \in 0..999 /\ r.state \in States
      /\ r.header \in HeaderStates /\ r.flags \in SUBSET Flags
      /\ r.method \in {"DELETE"} \cup DOMAIN method_strings /\ r.index \in 0..2
      /\ r.content_length \in 0..ULLONG_MAX /\ r.http_major \in 0..9 /\ r.http_minor \in 0..9
      /\ r.upgrade \in BOOLEAN /\ r.errno \in Errors
      /\ r.marks \in [DataCallbacks -> Nat \cup {-1}]
      /\ r.exited \in BOOLEAN /\ r.out \in {<<>>}
  BY <1>2 DEF Typed
<1>7. r \in Parsers
  BY <1>3, <1>5, <1>6 DEF Parsers
<1> QED BY <1>7 DEF r

\* A parser that has not failed may be given a symbol.
LEMMA ParserReady ==
    ASSUME NEW p \in Parsers, ~Failed(p)
    PROVE  Ready(p)
BY DEF Parsers, Done, Ready, Good

-----------------------------------------------------------------------------
(* A read.                                                                 *)

LEMMA UrlType ==
    ASSUME NEW V, NEW r \in Requests(V), NEW m, NEW t \in Seq(V)
    PROVE  on_url(r, m, t) \in Requests(V)
BY DEF on_url, Requests

LEMMA HeaderType ==
    ASSUME NEW V, NEW r \in Requests(V), NEW f \in Seq(V), NEW t \in Seq(V)
    PROVE  on_header_value(r, f, t) \in Requests(V)
<1> DEFINE h == r.headers
           g == [k \in DOMAIN h \cup {f} |-> IF k = f THEN t ELSE h[k]]
<1>1. PICK D \in SUBSET Seq(V) : h \in [D -> Seq(V)]
  BY DEF Requests, Headers
<1>2. DOMAIN h \cup {f} \in SUBSET Seq(V) /\ g \in [DOMAIN h \cup {f} -> Seq(V)]
  BY <1>1
<1>3. g \in Headers(V)
  <2> HIDE DEF g, h
  <2> QED BY <1>2 DEF Headers
<1>4. on_header_value(r, f, t) = [r EXCEPT !.headers = g]
  BY DEF on_header_value
<1> HIDE DEF g
<1> QED BY <1>3, <1>4 DEF Requests

LEMMA BodyType ==
    ASSUME NEW V, NEW r \in Requests(V), NEW t \in Seq(V)
    PROVE  on_body(r, t) \in Requests(V)
BY DEF on_body, Requests

LEMMA CompleteType ==
    ASSUME NEW V, NEW r \in Requests(V), NEW i \in Nat
    PROVE  on_complete(r, i) \in AppCalls(V)
<1>1. <<>> \in Seq(V)
  OBVIOUS
<1> QED BY <1>1 DEF on_complete, Requests, AppCalls

\* A callback.
LEMMA DeliverType ==
    ASSUME NEW V, NEW P, NEW x \in Readings(V, P), NEW e \in Event,
           NEW data, \A j \in Int : data[j] \in V, NEW i \in Nat
    PROVE  deliver(x, e, data, i) \in Readings(V, P)
<1> DEFINE end == i - 1 + e.extra
           text == SubSeq(data, end - e.n + 1, end)
           y == CASE e.cb = "url" ->
                       [x EXCEPT !.request = on_url(@, x.parser.method, text)]
                  [] e.cb = "header_field" -> [x EXCEPT !.field = text]
                  [] e.cb = "header_value" ->
                       [x EXCEPT !.request = on_header_value(@, x.field, text)]
                  [] e.cb = "body" -> [x EXCEPT !.request = on_body(@, text)]
                  [] e.cb = "message_complete" ->
                       [x EXCEPT !.calls = Append(@, on_complete(x.request, i))]
                  [] OTHER -> x
<1>1. text \in Seq(V)
  <2>1. end \in Int /\ end - e.n + 1 \in Int
    BY DEF Event
  <2> DEFINE a == end - e.n + 1
             n == (1 + end) - a
  <2>2. n \in Int /\ a \in Int
    BY <2>1
  <2>3. text = [k \in 1..n |-> data[k + a - 1]]
    <3> HIDE DEF end
    <3>1. \A b, f \in Int : SubSeq(data, b, f) = [k \in 1..((1 + f) - b) |-> data[k + b - 1]]
      BY DEF SubSeq
    <3> QED BY <2>1, <3>1
  <2> HIDE DEF a, n, text
  <2>4. \A k \in 1..n : k + a - 1 \in Int
    BY <2>2
  <2>5. text \in [1..n -> V]
    BY <2>3, <2>4
  <2>6. CASE n >= 0
    BY <2>2, <2>5, <2>6
  <2>7. CASE n < 0
    <3>1. 1..n = 1..0
      BY <2>2, <2>7
    <3>2. \A f \in [1..0 -> V] : f \in Seq(V)
      OBVIOUS
    <3> HIDE DEF n
    <3>3. text \in [1..0 -> V]
      BY <2>5, <3>1
    <3> QED BY <3>2, <3>3
  <2> QED BY <2>2, <2>6, <2>7
<1> HIDE DEF text
<1>2. x.request \in Requests(V) /\ x.field \in Seq(V) /\ x.calls \in Seq(AppCalls(V))
      /\ x.left \in SUBSET Results(V)
  BY DEF Readings
<1>3. /\ on_url(x.request, x.parser.method, text) \in Requests(V)
      /\ on_header_value(x.request, x.field, text) \in Requests(V)
      /\ on_body(x.request, text) \in Requests(V)
      /\ on_complete(x.request, i) \in AppCalls(V)
  BY <1>1, <1>2, UrlType, HeaderType, BodyType, CompleteType
<1>4. Append(x.calls, on_complete(x.request, i)) \in Seq(AppCalls(V))
  BY <1>2, <1>3
<1>5. y \in Readings(V, P)
  <2>1. CASE e.cb = "url"
    BY <1>3, <2>1 DEF Readings
  <2>2. CASE e.cb = "header_field"
    BY <1>1, <2>2 DEF Readings
  <2>3. CASE e.cb = "header_value"
    BY <1>3, <2>3 DEF Readings
  <2>4. CASE e.cb = "body"
    BY <1>3, <2>4 DEF Readings
  <2>5. CASE e.cb = "message_complete"
    BY <1>4, <2>5 DEF Readings
  <2>6. CASE e.cb \notin {"url", "header_field", "header_value", "body", "message_complete"}
    BY <2>6
  <2> QED BY <2>1, <2>2, <2>3, <2>4, <2>5, <2>6
<1>6. deliver(x, e, data, i) =
        IF e.cb \in NoReturn THEN [y EXCEPT !.left = @ \cup {Result(y, FALSE)}] ELSE y
  BY DEF deliver, text
<1> HIDE DEF y
<1>7. Result(y, FALSE) \in Results(V)
  BY <1>5 DEF Readings, Result, Results
<1>8. [y EXCEPT !.left = @ \cup {Result(y, FALSE)}] \in Readings(V, P)
  <2>1. y.left \cup {Result(y, FALSE)} \in SUBSET Results(V)
    BY <1>5, <1>7 DEF Readings
  <2> QED BY <1>5, <2>1 DEF Readings
<1> QED BY <1>5, <1>6, <1>8

\* The callbacks of one symbol, each after the one before it.
IsRun(f, x, out, data, i) ==
    f[0] = x /\ \A k \in 1..Len(out) : f[k] = deliver(f[k - 1], out[k], data, i)

Runs(x, out, data, i, A) == \E f \in [0..Len(out) -> A] :
    IsRun(f, x, out, data, i) /\ deliver_all(x, out, data, i) = f[Len(out)]

LEMMA DeliverSeries ==
    ASSUME NEW V, NEW P, NEW x \in Readings(V, P), NEW out \in Seq(Event),
           NEW data, \A j \in Int : data[j] \in V, NEW i \in Nat
    PROVE  Runs(x, out, data, i, Readings(V, P))
<1> DEFINE n == Len(out)
           D == SUBSET (1..n)
           A == Readings(V, P)
           F == [p \in (1..n) \X A |-> deliver(p[2], out[p[1]], data, i)]
           Is(g) == g = [S \in D |-> IF S = {} THEN x
                            ELSE deliver(g[S \ {Max(S)}], out[Max(S)], data, i)]
           h == CHOOSE g : Is(g)
<1>1. n \in Nat /\ DOMAIN out = 1..n /\ \A k \in 1..n : out[k] \in Event
  OBVIOUS
<1>2. F \in [(1..n) \X A -> A]
  <2> HIDE DEF A
  <2>1. \A p \in (1..n) \X A : deliver(p[2], out[p[1]], data, i) \in A
    BY <1>1, DeliverType DEF A
  <2> QED BY <2>1
<1>3. \E g \in [D -> A] : IsFold(g, n, x, F)
  <2> HIDE DEF n, F, A
  <2>1. x \in A
    BY DEF A
  <2> QED BY <1>1, <1>2, <2>1, FoldExists
<1> HIDE DEF A
<1>4. \E g : Is(g)
  <2>1. PICK g \in [D -> A] : \A S \in D :
           g[S] = IF S = {} THEN x ELSE F[<<Max(S), g[S \ {Max(S)}]>>]
    BY <1>3 DEF IsFold
  <2>2. ASSUME NEW S \in D, S # {}
        PROVE  g[S] = deliver(g[S \ {Max(S)}], out[Max(S)], data, i)
    <3>1. Max(S) \in S
      BY <1>1, <2>2, MaxOf
    <3>2. Max(S) \in 1..n /\ S \ {Max(S)} \in D
      BY <3>1
    <3>3. g[S \ {Max(S)}] \in A
      BY <3>2
    <3> QED BY <2>1, <2>2, <3>2, <3>3
  <2> QED BY <2>1, <2>2
<1>5. Is(h)
  BY <1>4
<1>6. deliver_all(x, out, data, i) = h[1..n]
  BY <1>1 DEF deliver_all, FoldLeft, MapThenFoldSet
<1> HIDE DEF h
<1>7. h[{}] = x
  BY <1>5
<1>8. \A S \in D : S # {} /\ h[S \ {Max(S)}] \in A
                     => h[S] = F[<<Max(S), h[S \ {Max(S)}]>>]
  <2> TAKE S \in D
  <2> HAVE S # {} /\ h[S \ {Max(S)}] \in A
  <2>1. Max(S) \in 1..n
    BY <1>1, MaxOf
  <2> QED BY <1>5, <2>1
<1>9. PICK f \in [0..n -> A] : IsSeries(f, n, x, F) /\ h[1..n] = f[n]
  <2> HIDE DEF n, F
  <2>1. Unfolds(h, n, A, x, F)
    BY <1>7, <1>8 DEF Unfolds
  <2>2. n \in Nat /\ x \in A
    BY <1>1 DEF A
  <2>3. IsLast(h[1..n], n, A, x, F)
    BY <1>2, <2>1, <2>2, FoldValue
  <2> QED BY <2>3 DEF IsLast
<1>10. ASSUME NEW k \in 1..n PROVE f[k] = deliver(f[k - 1], out[k], data, i)
  <2>1. k - 1 \in 0..n
    BY <1>1
  <2>2. f[k - 1] \in A
    BY <2>1
  <2> HIDE DEF n
  <2>3. f[k] = F[<<k, f[k - 1]>>] /\ <<k, f[k - 1]>> \in (1..n) \X A
    BY <1>9, <2>2 DEF IsSeries
  <2> QED BY <2>2, <2>3
<1>11. f[0] = x
  BY <1>9 DEF IsSeries
<1> HIDE DEF F
<1>12. IsRun(f, x, out, data, i)
  BY <1>10, <1>11 DEF IsRun
<1> QED BY <1>6, <1>9, <1>12 DEF A, Runs

LEMMA DeliverAll ==
    ASSUME NEW V, NEW P, NEW x \in Readings(V, P), NEW out \in Seq(Event),
           NEW data, \A j \in Int : data[j] \in V, NEW i \in Nat
    PROVE  deliver_all(x, out, data, i) \in Readings(V, P)
<1> DEFINE A == Readings(V, P)
           n == Len(out)
<1>1. n \in Nat
  OBVIOUS
<1>2. PICK f \in [0..n -> A] : deliver_all(x, out, data, i) = f[n]
  BY DeliverSeries DEF Runs
<1> HIDE DEF n, A
<1>3. f[n] \in A
  BY <1>1
<1> QED BY <1>2, <1>3 DEF A

\* A symbol.
LEMMA SymbolType ==
    ASSUME NEW V, NEW x \in Readings(V, Parsers),
           NEW data, \A j \in Int : data[j] \in V, NEW i \in Nat, i <= Len(data), Len(data) \in Nat
    PROVE  parse(x, data, i) \in Readings(V, Parsers)
<1> DEFINE a == [AllOK EXCEPT !["headers_complete"] = on_header_complete(x.request)]
           q == IF i > Len(data) THEN flush(x.parser, a) ELSE step(x.parser, data[i], a)
           y == [x EXCEPT !.parser = [q EXCEPT !.out = <<>>]]
<1>1. CASE Failed(x.parser) \/ x.parser.exited
  BY <1>1 DEF parse
<1>2. CASE ~(Failed(x.parser) \/ x.parser.exited)
  <2>1. parse(x, data, i) = deliver_all(y, q.out, data, i)
    BY <1>2 DEF parse
  <2>2. Done(q)
    <3>1. x.parser \in Parsers
      BY DEF Readings
    <3>2. Ready(x.parser)
      BY <1>2, <3>1, ParserReady
    <3>3. Done(step(x.parser, data[i], a))
      BY <3>2, StepDone
    <3>4. ~(i > Len(data))
      OBVIOUS
    <3> HIDE DEF a
    <3> QED BY <3>3, <3>4
  <2> HIDE DEF q
  <2>3. q.out \in Seq(Event)
    BY <2>2 DEF Done, Good, Typed
  <2>4. y \in Readings(V, Parsers)
    BY <2>2, QuietParser DEF Readings
  <2> HIDE DEF y
  <2> QED BY <2>1, <2>3, <2>4, DeliverAll
<1> QED BY <1>1, <1>2

\* The end of the read: whatever parser it leaves is not used again.
LEMMA LastType ==
    ASSUME NEW V, NEW x \in Readings(V, Parsers),
           NEW data, \A j \in Int : data[j] \in V, Len(data) \in Nat
    PROVE  \E P : parse(x, data, Len(data) + 1) \in Readings(V, P)
<1> DEFINE i == Len(data) + 1
           a == [AllOK EXCEPT !["headers_complete"] = on_header_complete(x.request)]
           q == IF i > Len(data) THEN flush(x.parser, a) ELSE step(x.parser, data[i], a)
           r == [q EXCEPT !.out = <<>>]
           y == [x EXCEPT !.parser = r]
<1>1. CASE Failed(x.parser) \/ x.parser.exited
  BY <1>1 DEF parse
<1>2. CASE ~(Failed(x.parser) \/ x.parser.exited)
  <2>1. parse(x, data, i) = deliver_all(y, q.out, data, i)
    BY <1>2 DEF parse
  <2>2. i \in Nat
    OBVIOUS
  <2>3. Typed(q)
    <3>1. x.parser \in Parsers
      BY DEF Readings
    <3>2. Ready(x.parser)
      BY <1>2, <3>1, ParserReady
    <3> DEFINE f == flush(x.parser, a)
    <3>3. PICK c \in DataCallbacks : IsData(f, x.parser, c, 0, a)
      BY <3>2, ReadyTyped, FlushEffect
    <3> HIDE DEF f
    <3>4. Typed(f)
      BY <3>3 DEF IsData
    <3>5. i > Len(data)
      OBVIOUS
    <3> HIDE DEF a, i
    <3> QED BY <3>4, <3>5 DEF f
  <2> HIDE DEF q, i
  <2>4. q.out \in Seq(Event)
    BY <2>3 DEF Typed
  <2>5. y \in Readings(V, {r})
    <3> HIDE DEF r
    <3> QED BY DEF Readings
  <2> HIDE DEF y, r
  <2>6. parse(x, data, i) \in Readings(V, {r})
    BY <2>1, <2>2, <2>4, <2>5, DeliverAll
  <2> QED BY <2>6 DEF i
<1> QED BY <1>1, <1>2

\* A read is a fold over its symbols and its end, which comes last.
ReadRuns(request, data, A) == \E f \in [0..Len(data) -> A] :
    /\ f[0] = NewReading(request)
    /\ \A k \in 1..Len(data) : f[k] = parse(f[k - 1], data, k)
    /\ sn_http_parser_execute(request, data) = parse(f[Len(data)], data, Len(data) + 1)

LEMMA ReadSeries ==
    ASSUME NEW V, NEW request \in Requests(V), NEW data, \A j \in Int : data[j] \in V,
           Len(data) \in Nat
    PROVE  ReadRuns(request, data, Readings(V, Parsers))
<1> DEFINE n == Len(data)
           x == NewReading(request)
           D == SUBSET (1..n)
           seq == [i \in 1..(n + 1) |-> i]
           E == SUBSET DOMAIN seq
           A == Readings(V, Parsers)
           F == [p \in (1..n) \X A |-> parse(p[2], data, p[1])]
           Step(g, S) == IF S = {} THEN x ELSE parse(g[S \ {Max(S)}], data, seq[Max(S)])
           Is(g) == g = [S \in E |-> Step(g, S)]
           h == CHOOSE g : Is(g)
<1>1. /\ n \in Nat /\ n + 1 \in Nat
      /\ E = SUBSET (1..(n + 1)) /\ D \subseteq E /\ \A i \in 1..(n + 1) : seq[i] = i
  OBVIOUS
<1>2. F \in [(1..n) \X A -> A]
  <2>1. ASSUME NEW p \in (1..n) \X A PROVE parse(p[2], data, p[1]) \in A
    <3>1. p[1] \in Nat /\ p[1] <= Len(data) /\ p[2] \in Readings(V, Parsers)
      OBVIOUS
    <3> QED BY <3>1, SymbolType
  <2> HIDE DEF A
  <2> QED BY <2>1
<1>3. x \in A
  <2>1. NewReading(request).parser \in Parsers
    <3> DEFINE b == begin(http_parser_init("REQUEST"))
    <3>1. "REQUEST" \in DOMAIN Start
      BY DEF Start
    <3>2. Ready(b)
      BY <3>1, InitReady
    <3>3. Done(b) /\ b.out = <<>>
      BY <3>2 DEF Ready, Done
    <3>4. [b EXCEPT !.out = <<>>] = b
      <4>1. b = [begin(http_parser_init("REQUEST")) EXCEPT !.exited = FALSE]
        BY DEF begin, http_parser_init
      <4> QED BY <3>3, <4>1
    <3> HIDE DEF b
    <3>5. b \in Parsers
      BY <3>3, <3>4, QuietParser
    <3> QED BY <3>5 DEF NewReading, b
  <2>2. <<>> \in Seq(V) /\ <<>> \in Seq(AppCalls(V)) /\ {} \in SUBSET Results(V)
    OBVIOUS
  <2> QED BY <2>1, <2>2 DEF NewReading, Readings
<1>4. \E g \in [D -> A] : IsFold(g, n, x, F)
  <2> HIDE DEF n, F, A, x
  <2> QED BY <1>1, <1>2, <1>3, FoldExists
<1> HIDE DEF A, x
<1>5. PICK g \in [D -> A] : \A S \in D :
         g[S] = IF S = {} THEN x ELSE F[<<Max(S), g[S \ {Max(S)}]>>]
  BY <1>4 DEF IsFold
<1>6. \A S \in E : S # {} => Max(S) \in S /\ S \ {Max(S)} \in D
  <2> TAKE S \in E
  <2> HAVE S # {}
  <2>1. Max(S) \in S /\ \A y \in S : Max(S) >= y
    <3>1. n + 1 \in Nat /\ S \in SUBSET (1..(n + 1))
      BY <1>1
    <3> HIDE DEF n
    <3> QED BY <3>1, MaxOf
  <2>2. ASSUME NEW y \in S \ {Max(S)} PROVE y \in 1..n
    <3>1. Max(S) >= y /\ y # Max(S) /\ y \in 1..(n + 1) /\ Max(S) \in 1..(n + 1)
      BY <2>1
    <3> QED BY <3>1
  <2> HIDE DEF n
  <2> QED BY <1>1, <2>1, <2>2
<1>7. \A S \in D : g[S] = Step(g, S)
  <2> TAKE S \in D
  <2>1. CASE S = {}
    BY <1>5, <2>1
  <2>2. CASE S # {}
    <3>1. S \in E
      OBVIOUS
    <3>2. Max(S) \in 1..n /\ S \ {Max(S)} \in D
      BY <1>6, <2>2, <3>1
    <3>3. g[S \ {Max(S)}] \in A /\ seq[Max(S)] = Max(S)
      BY <1>1, <3>2
    <3> HIDE DEF seq
    <3> QED BY <1>5, <2>2, <3>2, <3>3
  <2> QED BY <2>1, <2>2
<1> DEFINE k == [S \in E |-> Step(g, S)]
<1>8. Is(k)
  <2>1. ASSUME NEW S \in E PROVE k[S] = Step(k, S)
    <3>1. CASE S = {}
      BY <3>1
    <3>2. CASE S # {}
      <4> DEFINE T == S \ {Max(S)}
      <4>1. T \in D /\ T \in E
        BY <1>6, <3>2
      <4>2. k[T] = g[T]
        <5> HIDE DEF T
        <5> QED BY <1>7, <4>1
      <4> HIDE DEF k
      <4>3. k[S] = Step(g, S)
        BY DEF k
      <4> QED BY <3>2, <4>2, <4>3
    <3> QED BY <3>1, <3>2
  <2>2. k = [S \in E |-> k[S]]
    OBVIOUS
  <2> HIDE DEF k, Step
  <2> QED BY <2>1, <2>2
<1>9. Is(h)
  <2> HIDE DEF k, Is
  <2> QED BY <1>8
<1>10. sn_http_parser_execute(request, data) = h[1..(n + 1)]
  <2>1. h[DOMAIN seq] = h[1..(n + 1)]
    <3> HIDE DEF h
    <3> QED OBVIOUS
  <2>2. sn_http_parser_execute(request, data) = h[DOMAIN seq]
    BY DEF sn_http_parser_execute, FoldLeft, MapThenFoldSet, x
  <2> QED BY <2>1, <2>2
<1> HIDE DEF h, k
<1>11. h[{}] = x
  BY <1>9
<1>12. \A S \in D : S # {} /\ h[S \ {Max(S)}] \in A
                      => h[S] = F[<<Max(S), h[S \ {Max(S)}]>>]
  <2> TAKE S \in D
  <2> HAVE S # {} /\ h[S \ {Max(S)}] \in A
  <2>1. Max(S) \in 1..n
    BY <1>1, MaxOf
  <2>2. S \in E /\ seq[Max(S)] = Max(S)
    BY <1>1, <2>1
  <2> HIDE DEF seq
  <2> QED BY <1>9, <2>1, <2>2
<1>13. PICK f \in [0..n -> A] : IsSeries(f, n, x, F) /\ h[1..n] = f[n]
  <2> HIDE DEF n, F
  <2>1. Unfolds(h, n, A, x, F)
    BY <1>11, <1>12 DEF Unfolds
  <2>2. IsLast(h[1..n], n, A, x, F)
    BY <1>1, <1>2, <1>3, <2>1, FoldValue
  <2> QED BY <2>2 DEF IsLast
<1>14. h[1..(n + 1)] = parse(h[1..n], data, n + 1)
  <2>1. n + 1 \in Nat \ {0} /\ (n + 1) - 1 = n /\ 1..(n + 1) \in E
    BY <1>1
  <2>2. Max(1..(n + 1)) = n + 1 /\ (1..(n + 1)) \ {n + 1} = 1..n /\ 1..(n + 1) # {}
    BY <2>1, Prefix
  <2>3. seq[n + 1] = n + 1
    BY <1>1
  <2> DEFINE T == 1..(n + 1)
  <2> HIDE DEF seq
  <2>4. T \in E /\ T # {} => h[T] = parse(h[T \ {Max(T)}], data, seq[Max(T)])
    <3> HIDE DEF T, E
    <3> QED BY <1>9
  <2> HIDE DEF n
  <2> QED BY <2>1, <2>2, <2>3, <2>4
<1>15. ASSUME NEW m \in 1..n PROVE f[m] = parse(f[m - 1], data, m)
  <2>1. m - 1 \in 0..n
    BY <1>1
  <2>2. f[m - 1] \in A
    BY <2>1
  <2> HIDE DEF n
  <2>3. f[m] = F[<<m, f[m - 1]>>] /\ <<m, f[m - 1]>> \in (1..n) \X A
    BY <1>13, <2>2 DEF IsSeries
  <2> QED BY <2>2, <2>3
<1>16. f[0] = x
  BY <1>13 DEF IsSeries
<1> HIDE DEF F
<1>17. sn_http_parser_execute(request, data) = parse(f[n], data, n + 1)
  BY <1>10, <1>13, <1>14
<1> QED BY <1>13, <1>15, <1>16, <1>17 DEF ReadRuns, A, x

LEMMA ReadType ==
    ASSUME NEW V, NEW request \in Requests(V), NEW data, \A j \in Int : data[j] \in V,
           Len(data) \in Nat
    PROVE  \E P : sn_http_parser_execute(request, data) \in Readings(V, P)
<1> DEFINE A == Readings(V, Parsers)
           n == Len(data)
<1>1. PICK f \in [0..n -> A] :
         sn_http_parser_execute(request, data) = parse(f[n], data, n + 1)
  BY ReadSeries DEF ReadRuns
<1>2. f[n] \in Readings(V, Parsers)
  <2> HIDE DEF n, A
  <2>1. n \in Nat
    BY DEF n
  <2>2. f[n] \in A
    BY <2>1
  <2> QED BY <2>2 DEF A
<1>3. \E P : parse(f[n], data, n + 1) \in Readings(V, P)
  BY <1>2, LastType
<1> QED BY <1>1, <1>3

LEMMA OnDataType ==
    ASSUME NEW V, NEW request \in Requests(V), NEW data, \A j \in Int : data[j] \in V,
           Len(data) \in Nat, NEW y \in on_data(request, data)
    PROVE  y \in Results(V)
<1> DEFINE x == sn_http_parser_execute(request, data)
<1>1. PICK P : x \in Readings(V, P)
  BY ReadType
<1>2. y = Result(x, TRUE) \/ y \in x.left
  BY DEF on_data
<1> HIDE DEF x
<1>3. x.request \in Requests(V) /\ x.calls \in Seq(AppCalls(V)) /\ x.left \in SUBSET Results(V)
  BY <1>1 DEF Readings
<1>4. Result(x, TRUE) \in Results(V)
  BY <1>3 DEF Result, Results
<1> QED BY <1>2, <1>3, <1>4

-----------------------------------------------------------------------------
(* The link of a connection.                                               *)

\* A peer link, by its handle, whether it is connected, the state of Socket, the
\* handles that are read and the writes in flight.
At(l, p, u, t, r, n) ==
    /\ l \in Link!LinkState
    /\ l.pTcp = p /\ l.connected = u /\ l.tcp[Socket] = t /\ l.reading = r
    /\ l.pending[Socket] = n
    /\ ~l.connecting /\ ~l.timer /\ ~l.crashed

\* The states of it that occur: not accepted or closed for good, accepted, closing.
Gone(l) == At(l, NULL, FALSE, "none", {}, 0)
Open(l) == At(l, Socket, TRUE, "open", {Socket}, 0)
Closing(l) == \E n \in {0, 1} : At(l, NULL, FALSE, "closing", {}, n)

LEMMA BlankIs == Gone(Link!Blank)
BY DEF Link!Blank, Gone, At, Link!LinkState, Link!HandleState

LEMMA AcceptedIs == Open(Link!Accepted(Socket))
<1> DEFINE s == [Link!Blank EXCEPT !.pTcp = Socket, !.connected = TRUE, !.tcp[Socket] = "open"]
<1>1. At(s, Socket, TRUE, "open", {}, 0)
  BY BlankIs DEF Gone, At, Link!LinkState, Link!HandleState
<1> HIDE DEF s
<1>2. Open(Link!uv_read_start(s, Socket))
  BY <1>1, HttpServerAssumption
     DEF At, Open, Link!LinkState, Link!uv_read_start, Link!Closing
<1> QED BY <1>2 DEF Link!Accepted, s

LEMMA SendOpen ==
    ASSUME NEW l, Open(l)
    PROVE  At(Link!send(l), Socket, TRUE, "open", {Socket}, 1)
<1>1. Link!send(l) = [l EXCEPT !.pending[Socket] = @ + 1]
  BY HttpServerAssumption DEF Open, At, Link!send, Link!uv_write
<1> QED BY <1>1 DEF Open, At, Link!LinkState

\* closeTcp, of a handle that is not closing yet.
LEMMA ClosesOnce ==
    ASSUME NEW l, NEW u \in BOOLEAN, NEW t \in {"open", "eof"}, NEW r \in SUBSET {Socket},
           NEW n \in {0, 1}, At(l, Socket, u, t, r, n)
    PROVE  At(Link!closeTcp(l), NULL, FALSE, "closing", {}, n)
<1> DEFINE s == [l EXCEPT !.connected = FALSE]
           v == Link!uv_close(s, Socket)
           w == [v EXCEPT !.pTcp = NULL]
<1>1. At(s, Socket, FALSE, t, r, n)
  BY DEF At, Link!LinkState
<1> HIDE DEF s
<1>2. At(v, Socket, FALSE, "closing", {}, n)
  BY <1>1, HttpServerAssumption
     DEF At, Link!LinkState, Link!HandleState, Link!uv_close, Link!Closing
<1> HIDE DEF v
<1>3. At(w, NULL, FALSE, "closing", {}, n)
  BY <1>2 DEF At, Link!LinkState
<1> HIDE DEF w
<1>4. At([w EXCEPT !.timer = FALSE], NULL, FALSE, "closing", {}, n)
  BY <1>3 DEF At, Link!LinkState
<1>5. Link!closeTcp(l) = [w EXCEPT !.timer = FALSE]
  BY HttpServerAssumption DEF At, Link!closeTcp, w, v, s
<1> QED BY <1>4, <1>5

\* closeTcp, when there is no handle.
LEMMA ClosesNothing ==
    ASSUME NEW l, NEW t \in {"none", "closing"}, NEW n \in {0, 1}, At(l, NULL, FALSE, t, {}, n)
    PROVE  /\ At(Link!closeTcp(l), NULL, FALSE, t, {}, n)
           /\ Link!send(l) = l
<1>1. Link!closeTcp(l) = [[l EXCEPT !.connected = FALSE] EXCEPT !.timer = FALSE]
  BY DEF At, Link!closeTcp
<1>2. At([[l EXCEPT !.connected = FALSE] EXCEPT !.timer = FALSE], NULL, FALSE, t, {}, n)
  BY DEF At, Link!LinkState
<1> QED BY <1>1, <1>2 DEF At, Link!send

LEMMA ReadFails ==
    ASSUME NEW l, Open(l)
    PROVE  Closing(Link!on_read_failed(Link!uv_read_stop(l, Socket), "none"))
<1> DEFINE s == Link!uv_read_stop(l, Socket)
<1>1. Link!on_read_failed(s, "none") = Link!closeTcp(s)
  BY DEF Link!on_read_failed, Link!closeError, Link!react
<1>2. At(s, Socket, TRUE, "eof", {}, 0)
  BY DEF Open, At, Link!uv_read_stop, Link!LinkState, Link!HandleState
<1> HIDE DEF s
<1>3. At(Link!closeTcp(s), NULL, FALSE, "closing", {}, 0)
  BY <1>2, ClosesOnce
<1> QED BY <1>1, <1>3 DEF Closing, s

LEMMA CloseEnds ==
    ASSUME NEW l, Closing(l)
    PROVE  Gone(Link!flush([l EXCEPT !.tcp[Socket] = "none"], Socket))
<1> DEFINE s == [l EXCEPT !.tcp[Socket] = "none"]
           q == [s EXCEPT !.pending[Socket] = 0]
<1>1. PICK n \in {0, 1} : At(l, NULL, FALSE, "closing", {}, n)
  BY DEF Closing
<1>2. At(s, NULL, FALSE, "none", {}, n)
  BY <1>1 DEF At, Link!LinkState, Link!HandleState
<1> HIDE DEF s
<1>3. At(q, NULL, FALSE, "none", {}, 0)
  BY <1>2 DEF At, Link!LinkState
<1> HIDE DEF q
<1>4. CASE n = 0
  BY <1>2, <1>4 DEF At, Link!flush, Gone, s
<1>5. CASE n = 1
  <2>1. Link!flush(s, Socket) = Link!closeTcp(q)
    BY <1>2, <1>5 DEF At, Link!flush, Link!on_write_failed, Link!close, q
  <2> QED BY <1>3, <2>1, ClosesNothing DEF Gone, s
<1> QED BY <1>4, <1>5

-----------------------------------------------------------------------------
(* The answers to the calls of a read.                                     *)

\* What there is before the answers, and what there may be after the first of them.
Unanswered(l) == [link |-> l, replies |-> <<>>]
Reply(k, size) == IF size = "large" THEN <<>> ELSE <<Response(k, size)>>
After(K, size) ==
    [link : {l \in Link!LinkState : Closing(l)}, replies : {Reply(k, size) : k \in K}]

\* The first answer is sent, unless it is too large, and closes the link.
LEMMA FirstAnswer ==
    ASSUME NEW l, Open(l), NEW k, NEW size \in Size
    PROVE  answer(Unanswered(l), k, size) \in After({k}, size)
<1> DEFINE s == Unanswered(l)
           m == IF size = "large" THEN s.link ELSE Link!send(s.link)
           n == IF size = "large" THEN 0 ELSE 1
           r == IF m = s.link THEN s.replies ELSE Append(s.replies, Response(k, size))
<1>1. s.link = l /\ s.replies = <<>>
  BY DEF Unanswered
<1>2. At(m, Socket, TRUE, "open", {Socket}, n)
  BY <1>1, SendOpen DEF Open
<1>3. l.pending[Socket] = 0
  BY DEF Open, At
<1>4. r = Reply(k, size)
  <2>1. CASE size = "large"
    BY <1>1, <2>1 DEF Reply
  <2>2. CASE size # "large"
    <3>1. m # l
      BY <1>2, <1>3, <2>2 DEF At
    <3>2. Append(<<>>, Response(k, size)) = <<Response(k, size)>>
      <4> DEFINE R == Response(k, size)
      <4> HIDE DEF R
      <4>1. Append(<<>>, R) = <<R>>
        OBVIOUS
      <4> QED BY <4>1 DEF R
    <3> HIDE DEF m, s
    <3> QED BY <1>1, <2>2, <3>1, <3>2 DEF Reply
  <2> QED BY <2>1, <2>2
<1>5. answer(s, k, size) = [link |-> Link!close(m), replies |-> r]
  BY DEF answer
<1> HIDE DEF m, r, s
<1>6. n \in {0, 1} /\ At(Link!closeTcp(m), NULL, FALSE, "closing", {}, n)
  BY <1>2, ClosesOnce
<1> HIDE DEF n
<1>7. Link!close(m) \in {x \in Link!LinkState : Closing(x)}
  <2>1. Closing(Link!close(m)) /\ Link!close(m) \in Link!LinkState
    BY <1>6 DEF Closing, Link!close, At
  <2> QED BY <2>1
<1> QED BY <1>4, <1>5, <1>7 DEF After, s

\* The others do nothing.
LEMMA LaterAnswer ==
    ASSUME NEW K, NEW size \in Size, NEW s \in After(K, size), NEW k
    PROVE  /\ answer(s, k, size) \in After(K, size)
           /\ answer(s, k, size).replies = s.replies
<1>1. PICK n \in {0, 1} : At(s.link, NULL, FALSE, "closing", {}, n)
  BY DEF After, Closing
<1>2. /\ At(Link!closeTcp(s.link), NULL, FALSE, "closing", {}, n)
      /\ Link!send(s.link) = s.link
  BY <1>1, ClosesNothing
<1>3. answer(s, k, size) = [link |-> Link!close(s.link), replies |-> s.replies]
  BY <1>2 DEF answer
<1>4. Link!close(s.link) \in {x \in Link!LinkState : Closing(x)}
  <2>1. Closing(Link!close(s.link)) /\ Link!close(s.link) \in Link!LinkState
    BY <1>2 DEF Closing, Link!close, At
  <2> QED BY <2>1
<1> QED BY <1>3, <1>4 DEF After

\* The answers of a read with calls.
LEMMA AnswerAll ==
    ASSUME NEW l, Open(l), NEW size \in Size, NEW ks, NEW n \in Nat \ {0},
           DOMAIN ks = 1..n, Len(ks) = n
    PROVE  answer_all(Unanswered(l), ks, size) \in After({ks[1]}, size)
<1> DEFINE s == Unanswered(l)
           D == SUBSET (1..n)
           K == {ks[k] : k \in 1..n}
           B == After(K, size)
           A == {s} \cup B
           F == [p \in (1..n) \X A |-> answer(p[2], ks[p[1]], size)]
           Step(g, S) == IF S = {} THEN s ELSE answer(g[S \ {Max(S)}], ks[Max(S)], size)
           Is(g) == g = [S \in D |-> Step(g, S)]
           h == CHOOSE g : Is(g)
<1>1. \A k \in K : After({k}, size) \subseteq B
  BY DEF After
<1>2. F \in [(1..n) \X A -> A]
  <2>1. ASSUME NEW p \in (1..n) \X A PROVE answer(p[2], ks[p[1]], size) \in A
    <3>1. ks[p[1]] \in K /\ p[2] \in A
      OBVIOUS
    <3>2. CASE p[2] = s
      <4> HIDE DEF s, B, K
      <4> QED BY <1>1, <3>1, <3>2, FirstAnswer DEF s
    <3>3. CASE p[2] \in B
      <4> HIDE DEF s, K
      <4> QED BY <3>3, LaterAnswer
    <3> QED BY <3>1, <3>2, <3>3
  <2> HIDE DEF A
  <2> QED BY <2>1
<1>3. \E g \in [D -> A] : IsFold(g, n, s, F)
  <2>1. s \in A
    OBVIOUS
  <2> HIDE DEF F, A, s
  <2> QED BY <1>2, <2>1, FoldExists
<1> HIDE DEF A, s, B, K
<1>4. \E g : Is(g)
  <2>1. PICK g \in [D -> A] : \A S \in D :
           g[S] = IF S = {} THEN s ELSE F[<<Max(S), g[S \ {Max(S)}]>>]
    BY <1>3 DEF IsFold
  <2>2. ASSUME NEW S \in D, S # {}
        PROVE  g[S] = answer(g[S \ {Max(S)}], ks[Max(S)], size)
    <3>1. Max(S) \in S
      BY <2>2, MaxOf
    <3>2. Max(S) \in 1..n /\ S \ {Max(S)} \in D
      BY <3>1
    <3>3. g[S \ {Max(S)}] \in A
      BY <3>2
    <3> QED BY <2>1, <2>2, <3>2, <3>3
  <2>3. \A S \in D : g[S] = Step(g, S)
    BY <2>1, <2>2
  <2>4. g = [S \in D |-> g[S]]
    OBVIOUS
  <2> HIDE DEF Step
  <2> QED BY <2>3, <2>4
<1>5. Is(h)
  <2> HIDE DEF Is
  <2> QED BY <1>4
<1>6. answer_all(s, ks, size) = h[1..n]
  BY DEF answer_all, FoldLeft, MapThenFoldSet
<1> HIDE DEF h
<1>7. h[{}] = s
  BY <1>5
<1>8. \A S \in D : S # {} /\ h[S \ {Max(S)}] \in A
                     => h[S] = F[<<Max(S), h[S \ {Max(S)}]>>]
  <2> TAKE S \in D
  <2> HAVE S # {} /\ h[S \ {Max(S)}] \in A
  <2>1. Max(S) \in 1..n
    BY MaxOf
  <2> QED BY <1>5, <2>1
<1>9. PICK f \in [0..n -> A] : IsSeries(f, n, s, F) /\ h[1..n] = f[n]
  <2> HIDE DEF F
  <2>1. Unfolds(h, n, A, s, F)
    BY <1>7, <1>8 DEF Unfolds
  <2>2. s \in A
    BY DEF A
  <2>3. IsLast(h[1..n], n, A, s, F)
    BY <1>2, <2>1, <2>2, FoldValue
  <2> QED BY <2>3 DEF IsLast
<1> DEFINE T == {k \in Nat : k < n => f[k + 1] \in After({ks[1]}, size)}
<1>10. \A k \in 1..n : f[k - 1] \in A /\ f[k] = answer(f[k - 1], ks[k], size)
  <2> TAKE k \in 1..n
  <2>1. f[k] = F[<<k, f[k - 1]>>] /\ f[k - 1] \in A
    <3>1. k - 1 \in 0..n
      OBVIOUS
    <3> HIDE DEF F
    <3> QED BY <1>9, <3>1 DEF IsSeries
  <2> QED BY <2>1
<1>11. 0 \in T
  <2>1. 1 \in 1..n /\ 1 - 1 = 0 /\ 0 + 1 = 1
    OBVIOUS
  <2>2. f[0] = s
    BY <1>9 DEF IsSeries
  <2>3. f[1] = answer(s, ks[1], size)
    BY <1>10, <2>1, <2>2
  <2>4. f[1] \in After({ks[1]}, size)
    BY <2>3, FirstAnswer DEF s
  <2> QED BY <2>1, <2>4
<1>12. ASSUME NEW k \in Nat, k \in T PROVE k + 1 \in T
  <2>1. ASSUME k + 1 < n PROVE f[(k + 1) + 1] \in After({ks[1]}, size)
    <3>1. (k + 1) + 1 \in 1..n /\ ((k + 1) + 1) - 1 = k + 1 /\ k < n
      BY <2>1
    <3>2. f[k + 1] \in After({ks[1]}, size)
      BY <1>12, <3>1
    <3>3. f[(k + 1) + 1] = answer(f[k + 1], ks[(k + 1) + 1], size)
      BY <1>10, <3>1
    <3> QED BY <3>2, <3>3, LaterAnswer
  <2> QED BY <2>1
<1>13. n - 1 \in T
  <2> HIDE DEF T
  <2>1. Nat \subseteq T
    BY <1>11, <1>12, Induction
  <2> QED BY <2>1
<1> QED BY <1>6, <1>9, <1>13 DEF s

\* A read without calls leaves the link as it is.
LEMMA AnswerNone ==
    ASSUME NEW s, NEW ks, DOMAIN ks = {}, Len(ks) = 0, NEW size
    PROVE  answer_all(s, ks, size) = s
<1> DEFINE Is(g) == g = [S \in SUBSET {} |-> IF S = {} THEN s
                            ELSE answer(g[S \ {Max(S)}], ks[Max(S)], size)]
           h == CHOOSE g : Is(g)
           g0 == [S \in SUBSET {} |-> s]
<1>1. Is(g0)
  BY Zenon
<1>2. Is(h)
  <2> HIDE DEF g0, Is
  <2> QED BY <1>1
<1>3. answer_all(s, ks, size) = h[{}]
  BY DEF answer_all, FoldLeft, MapThenFoldSet
<1> HIDE DEF h
<1>4. h[{}] = s
  BY <1>2
<1> QED BY <1>3, <1>4

-----------------------------------------------------------------------------
(* The server.                                                             *)

TcpServers ==
    [pTcp : {NULL, "idle", "listening"}, bListen : BOOLEAN, nClients : 0..MaxClients,
     mapLinks : UNION {[S -> Conns] : S \in SUBSET Nat}, crashed : BOOLEAN]

Servers ==
    [alive : BOOLEAN, pTcpServer : {NULL, "live", "deleted"}, tcp : TcpServers,
     lastId : Nat \ {0}, crashed : BOOLEAN, left : SUBSET Conns]

\* A TcpServer that is not deleted has its handle, and the HttpServer too is there.  One
\* that is gone is used only by what it left.
Sound(s) ==
    /\ (s.crashed => s.left # {}) /\ ~s.tcp.crashed
    /\ s.pTcpServer = "live" => s.alive /\ s.tcp.pTcp # NULL

LEMMA NewTcpServer ==
    ASSUME NEW ok \in BOOLEAN
    PROVE  LET t == Tcp!listen(Tcp!NewServer, ok)
           IN  t \in TcpServers /\ ~t.crashed /\ t.pTcp # NULL
<1>1. Tcp!NewServer \in TcpServers
  <2>1. <<>> \in [{} -> Conns] /\ {} \in SUBSET Nat /\ 0 \in 0..MaxClients
    BY HttpServerAssumption
  <2> QED BY <2>1 DEF Tcp!NewServer, TcpServers
<1>2. Tcp!NewServer.pTcp = "idle" /\ ~Tcp!NewServer.crashed /\ "idle" # NULL /\ "listening" # NULL
  BY HttpServerAssumption DEF Tcp!NewServer
<1> DEFINE v == Tcp!NewServer
<1> HIDE DEF v
<1>3. v \in TcpServers /\ v.pTcp = "idle" /\ ~v.crashed
  BY <1>1, <1>2 DEF v
<1>4. Tcp!listen(v, ok) = [v EXCEPT !.pTcp = IF ok THEN "listening" ELSE @, !.bListen = TRUE]
  BY <1>2, <1>3 DEF Tcp!listen
<1>5. /\ Tcp!listen(v, ok) \in TcpServers
      /\ ~Tcp!listen(v, ok).crashed /\ Tcp!listen(v, ok).pTcp # NULL
  BY <1>2, <1>3, <1>4 DEF TcpServers
<1> QED BY <1>5 DEF v

LEMMA CloseServer ==
    ASSUME NEW s \in Servers
    PROVE  /\ close(s) \in Servers /\ close(s).lastId = s.lastId
           /\ close(s).pTcpServer # "live" /\ close(s).alive = s.alive
           /\ close(s).left = s.left
           /\ s.pTcpServer # "deleted" => close(s).crashed = s.crashed
           /\ Sound(s) /\ s.pTcpServer # "deleted" => Sound(close(s))
<1>0. NULL # "live" /\ NULL # "deleted"
  BY HttpServerAssumption
<1>1. CASE s.pTcpServer = NULL
  BY <1>0, <1>1 DEF close
<1>2. CASE s.pTcpServer = "deleted"
  <2>1. close(s) = [s EXCEPT !.crashed = TRUE]
    BY <1>0, <1>2 DEF close, Crash
  <2> QED BY <1>2, <2>1 DEF Servers
<1>3. CASE s.pTcpServer = "live"
  <2> DEFINE t == Tcp!delete(s.tcp)
  <2>1. t \in TcpServers /\ (~s.tcp.crashed /\ s.tcp.pTcp # NULL => ~t.crashed)
    BY DEF Tcp!delete, Servers, TcpServers
  <2>2. close(s) = [s EXCEPT !.pTcpServer = "deleted", !.tcp = t]
    BY <1>0, <1>3 DEF close
  <2> HIDE DEF t
  <2> QED BY <1>3, <2>1, <2>2 DEF Servers, Sound
<1> QED BY <1>1, <1>2, <1>3 DEF Servers

LEMMA ListenServer ==
    ASSUME NEW s \in Servers, NEW ok \in BOOLEAN
    PROVE  /\ listen(s, ok) \in Servers /\ listen(s, ok).lastId = s.lastId
           /\ listen(s, ok).alive = s.alive /\ listen(s, ok).left = s.left
           /\ Sound(s) /\ s.alive /\ s.pTcpServer # "deleted" => Sound(listen(s, ok))
<1> DEFINE t == close(s)
           v == Tcp!listen(Tcp!NewServer, ok)
<1>1. /\ t \in Servers /\ t.lastId = s.lastId /\ t.alive = s.alive /\ t.left = s.left
      /\ Sound(s) /\ s.pTcpServer # "deleted" => Sound(t)
  BY CloseServer
<1>2. v \in TcpServers /\ ~v.crashed /\ v.pTcp # NULL
  BY NewTcpServer
<1>3. listen(s, ok) = [t EXCEPT !.pTcpServer = "live", !.tcp = v]
  BY DEF listen
<1> HIDE DEF t, v
<1> QED BY <1>1, <1>2, <1>3 DEF Servers, Sound

LEMMA DestroyServer ==
    ASSUME NEW s \in Servers, NEW C \in SUBSET Conns
    PROVE  LET d == [destroy(s) EXCEPT !.left = C]
           IN  /\ d \in Servers /\ d.lastId = s.lastId /\ d.left = C
               /\ Sound(s) /\ ~s.crashed /\ s.pTcpServer # "deleted" => Sound(d)
<1> DEFINE t == close(s)
<1>1. /\ t \in Servers /\ t.lastId = s.lastId /\ t.pTcpServer # "live"
      /\ s.pTcpServer # "deleted" => t.crashed = s.crashed
      /\ Sound(s) /\ s.pTcpServer # "deleted" => Sound(t)
  BY CloseServer
<1>2. destroy(s) = [t EXCEPT !.alive = FALSE]
  BY DEF destroy
<1> HIDE DEF t
<1> QED BY <1>1, <1>2 DEF Servers, Sound

LEMMA AcceptServer ==
    ASSUME NEW s \in Servers, s.tcp.nClients < MaxClients, NEW c \in Conns
    PROVE  LET t == [s EXCEPT !.lastId = Tcp!next(@), !.tcp = Tcp!on_accept(@, s.lastId, c)]
               v == [s EXCEPT !.tcp = Tcp!on_accept_failed(@)]
           IN  /\ t \in Servers /\ t.lastId = s.lastId + 1
               /\ t.alive = s.alive /\ t.left = s.left
               /\ v \in Servers /\ v.lastId = s.lastId
               /\ v.alive = s.alive /\ v.left = s.left
               /\ Sound(s) => Sound(t) /\ Sound(v)
<1> DEFINE m == s.tcp.mapLinks
           p == [i \in DOMAIN m \cup {s.lastId} |-> IF i = s.lastId THEN c ELSE m[i]]
           t == Tcp!on_accept(s.tcp, s.lastId, c)
           v == Tcp!on_accept_failed(s.tcp)
<1>1. p \in UNION {[S -> Conns] : S \in SUBSET Nat}
  <2>1. PICK S \in SUBSET Nat : m \in [S -> Conns]
    BY DEF Servers, TcpServers
  <2>2. s.lastId \in Nat /\ DOMAIN m = S /\ \A i \in S : m[i] \in Conns
    BY <2>1 DEF Servers
  <2>3. p \in [S \cup {s.lastId} -> Conns] /\ S \cup {s.lastId} \in SUBSET Nat
    <3> HIDE DEF m
    <3> QED BY <2>2
  <2> HIDE DEF p
  <2> QED BY <2>3
<1>2. s.tcp.nClients + 1 \in 0..MaxClients
  BY HttpServerAssumption DEF Servers, TcpServers
<1>3. t = [s.tcp EXCEPT !.nClients = @ + 1, !.mapLinks = p]
  BY DEF Tcp!on_accept
<1>4. v = [s.tcp EXCEPT !.nClients = @ + 1]
  BY DEF Tcp!on_accept_failed
<1> HIDE DEF p, t, v
<1>5. t \in TcpServers /\ t.crashed = s.tcp.crashed /\ t.pTcp = s.tcp.pTcp
  BY <1>1, <1>2, <1>3 DEF Servers, TcpServers
<1>6. v \in TcpServers /\ v.crashed = s.tcp.crashed /\ v.pTcp = s.tcp.pTcp
  BY <1>2, <1>4 DEF Servers, TcpServers
<1> DEFINE a == [s EXCEPT !.lastId = s.lastId + 1, !.tcp = t]
           b == [s EXCEPT !.tcp = v]
<1>7. s.lastId + 1 \in Nat \ {0}
  BY DEF Servers
<1>8. /\ a \in Servers /\ a.lastId = s.lastId + 1 /\ a.alive = s.alive
      /\ a.crashed = s.crashed /\ a.pTcpServer = s.pTcpServer /\ a.tcp = t
      /\ a.left = s.left
  BY <1>5, <1>7 DEF Servers
<1>9. /\ b \in Servers /\ b.lastId = s.lastId /\ b.alive = s.alive
      /\ b.crashed = s.crashed /\ b.pTcpServer = s.pTcpServer /\ b.tcp = v
      /\ b.left = s.left
  BY <1>6 DEF Servers
<1> HIDE DEF a, b
<1>10. Sound(s) => Sound(a) /\ Sound(b)
  BY <1>5, <1>6, <1>8, <1>9 DEF Sound
<1> QED BY <1>8, <1>9, <1>10 DEF a, b, t, v, Tcp!next

\* What calls the handler of a link finds the HttpServer, or was left by it.
LEMMA HandledServer ==
    ASSUME server \in Servers
    PROVE  /\ Handled \in Servers /\ Handled.lastId = server.lastId
           /\ Handled.alive = server.alive /\ Handled.left = server.left
           /\ Sound(server) /\ (server.alive \/ server.left # {}) => Sound(Handled)
BY DEF Handled, Crash, Servers, Sound

-----------------------------------------------------------------------------
(* The invariant.                                                          *)

Waiting(c) ==
    ids[c] = 0 /\ Gone(links[c]) /\ calls[c] = <<>> /\ replies[c] = <<>> /\ c \notin dropped

Running(c) ==
    /\ ids[c] # 0 /\ Open(links[c]) /\ calls[c] = <<>> /\ replies[c] = <<>> /\ c \notin dropped
    /\ ids[c] \in DOMAIN entry /\ entry[ids[c]].link = c

\* The one answer of a connection.
Answers == [status : {200}, framing : {"close"}, body : {1},
            fate : {"taken", "waiting", "sent", "cut"}]
MayAnswer(rs) == rs = <<>> \/ \E r \in Answers : rs = <<r>>

Over(c) == ids[c] # 0 /\ (Closing(links[c]) \/ Gone(links[c])) /\ MayAnswer(replies[c])

\* Link ids are not used twice.
IdsDiffer ==
    /\ \A c \in Conns : ids[c] < server.lastId
    /\ \A c, d \in Conns : ids[c] # 0 /\ ids[c] = ids[d] => c = d

Peers(V) == [link : Conns, request : Requests(V)]

\* A HttpPeerLink is entered under the id of its connection, and kept until the
\* connection ends without a call.
EntriesOK ==
    /\ \E V : entry \in [DOMAIN entry -> Peers(V)]
    /\ \A i \in DOMAIN entry :
            LET c == entry[i].link
            IN  i # 0 /\ ids[c] = i /\ (Open(links[c]) \/ calls[c] # <<>>)

Clients(R) == [requests : R, read : Nat, whole : BOOLEAN]

ClientsOK ==
    /\ \E R : client \in [Conns -> Clients(R)]
    /\ \A c \in Conns : Bytes(c) \in Seq(STRING) /\ client[c].read <= Len(Bytes(c))

\* What is known of each connection.
Shape ==
    /\ ids \in [Conns -> Nat] /\ links \in [Conns -> Link!LinkState]
    /\ calls = [c \in Conns |-> calls[c]] /\ replies = [c \in Conns |-> replies[c]]
    /\ spoiled \subseteq Conns /\ dropped \subseteq Conns

Stages == \A c \in Conns : Waiting(c) \/ Running(c) \/ Over(c)

ServerOK ==
    /\ server \in Servers
    /\ PlainUse => /\ Sound(server)
                   /\ server.alive \/ \A c \in Conns : Open(links[c]) => c \in server.left

IInv ==
    ServerOK /\ Shape /\ Stages /\ IdsDiffer /\ EntriesOK /\ ClientsOK

\* The states of a link tell whether it is read.
LEMMA OpenIsRead ==
    ASSUME NEW l
    PROVE  /\ Open(l) => Socket \in l.reading /\ ~l.crashed /\ l.tcp[Socket] = "open"
           /\ Closing(l) => Socket \notin l.reading /\ ~l.crashed
           /\ Gone(l) => /\ Socket \notin l.reading /\ ~l.crashed
                         /\ l.tcp[Socket] \notin Link!Closing
BY DEF Open, Closing, Gone, At, Link!Closing

LEMMA ReadIsRunning ==
    ASSUME Stages, NEW c \in Conns
    PROVE  /\ IsOpen(c) <=> Open(links[c])
           /\ IsOpen(c) => Running(c)
           /\ ids[c] = 0 => ~IsOpen(c) /\ Waiting(c)
BY OpenIsRead DEF Stages, Waiting, Running, Over, IsOpen

LEMMA InitInv == Init => IInv
<1> SUFFICES ASSUME Init PROVE IInv
  OBVIOUS
<1>1. ServerOK
  <2>1. Tcp!NewServer \in TcpServers /\ ~Tcp!NewServer.crashed
    <3>1. <<>> \in [{} -> Conns] /\ {} \in SUBSET Nat /\ 0 \in 0..MaxClients
      BY HttpServerAssumption
    <3> QED BY <3>1 DEF Tcp!NewServer, TcpServers
  <2>2. Tcp!First \in Nat \ {0}
    BY DEF Tcp!First
  <2> QED BY <2>1, <2>2, HttpServerAssumption DEF Init, ServerOK, Servers, Sound
<1>2. \A c \in Conns : links[c] = Link!Blank /\ Gone(links[c])
  BY BlankIs DEF Init
<1>3. Shape
  <2>1. Link!Blank \in Link!LinkState
    BY BlankIs DEF Gone, At
  <2> QED BY <2>1 DEF Init, Shape
<1>4. Stages
  BY <1>2 DEF Init, Stages, Waiting
<1>5. IdsDiffer
  BY DEF Init, IdsDiffer, Tcp!First
<1>6. EntriesOK
  <2>1. entry = <<>> /\ DOMAIN <<>> = {} /\ <<>> \in [{} -> Peers({})]
    BY DEF Init
  <2> QED BY <2>1 DEF EntriesOK
<1>7. ClientsOK
  <2>1. PICK s \in Scripts :
           client = [c \in Conns |-> [requests |-> s[c], read |-> 0, whole |-> FALSE]]
    BY DEF Init
  <2>2. client \in [Conns -> Clients({s[c] : c \in Conns})]
    BY <2>1 DEF Clients
  <2>3. \A c \in Conns : Bytes(c) \in Seq(STRING) /\ client[c].read = 0
    BY <2>1, ScriptsAssumption DEF Bytes
  <2>4. \A c \in Conns : client[c].read <= Len(Bytes(c))
    BY <2>3
  <2> QED BY <2>2, <2>3, <2>4 DEF ClientsOK
<1> QED BY <1>1, <1>3, <1>4, <1>5, <1>6, <1>7 DEF IInv

\* The part about the connections, when the methods leave them alone.
LEMMA ServerStep ==
    ASSUME IInv, UNCHANGED Unconnected, server' \in Servers, server'.lastId = server.lastId,
           PlainUse => /\ Sound(server')
                       /\ server'.alive \/ \A c \in Conns : Open(links[c]) => c \in server'.left
    PROVE  IInv'
<1> USE DEF Unconnected
<1>1. ServerOK'
  BY DEF ServerOK
<1>2. Shape' /\ Stages'
  BY DEF IInv, Shape, Stages, Waiting, Running, Over
<1>3. IdsDiffer' /\ EntriesOK'
  BY DEF IInv, IdsDiffer, EntriesOK
<1>4. ClientsOK'
  <2>1. \A c \in Conns : Bytes(c)' = Bytes(c)
    BY DEF Bytes
  <2> QED BY <2>1 DEF IInv, ClientsOK
<1> QED BY <1>1, <1>2, <1>3, <1>4 DEF IInv

\* The methods, and a connection that fails.
LEMMA MethodsInv ==
    ASSUME IInv, Listen \/ Close \/ Destroy \/ OnAcceptFailed
    PROVE  IInv'
<1>1. server \in Servers /\ (PlainUse => Sound(server))
  BY DEF IInv, ServerOK
<1>2. CASE Listen
  <2>1. PICK ok \in BOOLEAN : server' = listen(server, ok)
    BY <1>2 DEF Listen
  <2>2. UNCHANGED Unconnected /\ server.alive /\ (PlainUse => server.pTcpServer # "deleted")
    BY <1>2 DEF Listen, May
  <2> QED BY <1>1, <2>1, <2>2, ListenServer, ServerStep
<1>3. CASE Close
  <2>1. /\ server' = close(server) /\ UNCHANGED Unconnected /\ server.alive
        /\ PlainUse => server.pTcpServer # "deleted"
    BY <1>3 DEF Close, May
  <2> QED BY <1>1, <2>1, CloseServer, ServerStep
<1>4. CASE Destroy
  <2> DEFINE C == {c \in Conns : IsOpen(c)}
  <2>1. /\ server' = [destroy(server) EXCEPT !.left = C] /\ UNCHANGED Unconnected
        /\ ~server.crashed /\ (PlainUse => server.pTcpServer # "deleted")
    BY <1>4 DEF Destroy, May
  <2>2. C \in SUBSET Conns /\ \A c \in Conns : Open(links[c]) => c \in C
    BY ReadIsRunning DEF IInv
  <2> HIDE DEF C
  <2> QED BY <1>1, <2>1, <2>2, DestroyServer, ServerStep
<1>5. CASE OnAcceptFailed
  <2>1. /\ server' = [server EXCEPT !.tcp = Tcp!on_accept_failed(@)]
        /\ UNCHANGED Unconnected /\ server.tcp.nClients < MaxClients
    BY <1>5 DEF OnAcceptFailed, Listening
  <2>2. PICK c : c \in Conns
    BY HttpServerAssumption
  <2>3. /\ server' \in Servers /\ server'.lastId = server.lastId
        /\ server'.alive = server.alive /\ server'.left = server.left
        /\ Sound(server) => Sound(server')
    BY <1>1, <2>1, <2>2, AcceptServer
  <2> QED BY <1>1, <2>1, <2>3, ServerStep DEF IInv, ServerOK
<1> QED BY <1>2, <1>3, <1>4, <1>5

\* A connection is accepted: its id is new, and so is its HttpPeerLink.
LEMMA OnAcceptInv ==
    ASSUME IInv, NEW c \in Conns, OnAccept(c)
    PROVE  IInv'
<1> DEFINE id == server.lastId
           e == [link |-> c, request |-> NewRequest]
<1>1. /\ server.pTcpServer = "live" /\ server.tcp.nClients < MaxClients /\ ids[c] = 0
      /\ server' = [server EXCEPT !.lastId = Tcp!next(@), !.tcp = Tcp!on_accept(@, id, c)]
      /\ ids' = [ids EXCEPT ![c] = id]
      /\ links' = [links EXCEPT ![c] = Link!Accepted(Socket)]
      /\ entry' = on_connected(entry, id, c)
      /\ UNCHANGED <<client, calls, replies, spoiled, dropped>>
  BY DEF OnAccept, Listening, Accepted
<1>2. id \in Nat \ {0} /\ server \in Servers
  BY DEF IInv, ServerOK, Servers
<1>3. Open(Link!Accepted(Socket)) /\ Link!Accepted(Socket) \in Link!LinkState
  BY AcceptedIs DEF Open, At
<1>4. Waiting(c)
  BY <1>1, ReadIsRunning DEF IInv
<1>5. id \notin DOMAIN entry
  <2> SUFFICES ASSUME id \in DOMAIN entry PROVE FALSE
    OBVIOUS
  <2>1. entry[id].link \in Conns /\ ids[entry[id].link] = id
    BY DEF IInv, EntriesOK, Peers
  <2>2. ids[entry[id].link] < id
    BY <2>1 DEF IInv, IdsDiffer
  <2> QED BY <1>2, <2>1, <2>2
<1>6. entry' = [i \in DOMAIN entry \cup {id} |-> IF i = id THEN e ELSE entry[i]]
  BY <1>1, <1>5 DEF on_connected
<1> HIDE DEF e
<1>7. /\ DOMAIN entry' = DOMAIN entry \cup {id} /\ entry'[id] = e
      /\ \A i \in DOMAIN entry : entry'[i] = entry[i]
  BY <1>5, <1>6
<1>8. /\ ids'[c] = id /\ links'[c] = Link!Accepted(Socket)
      /\ \A d \in Conns \ {c} : ids'[d] = ids[d] /\ links'[d] = links[d]
  BY <1>1 DEF IInv, Shape
<1>9. ServerOK'
  <2>1. /\ server' \in Servers /\ server'.alive = server.alive
        /\ (Sound(server) => Sound(server'))
    BY <1>1, <1>2, AcceptServer
  <2> QED BY <1>1, <2>1 DEF IInv, ServerOK, Sound
<1>10. Shape'
  BY <1>1, <1>2, <1>3 DEF IInv, Shape
<1>11. Stages'
  <2>1. Running(c)'
    BY <1>1, <1>2, <1>3, <1>4, <1>7, <1>8 DEF Running, Waiting, e
  <2>2. ASSUME NEW d \in Conns \ {c} PROVE Waiting(d)' \/ Running(d)' \/ Over(d)'
    <3>1. Waiting(d) \/ Running(d) \/ Over(d)
      BY DEF IInv, Stages
    <3> QED BY <1>1, <1>7, <1>8, <3>1 DEF Waiting, Running, Over
  <2> QED BY <2>1, <2>2 DEF Stages
<1>12. IdsDiffer'
  <2>1. server'.lastId = id + 1
    BY <1>1, <1>2, AcceptServer
  <2>2. \A d \in Conns : ids[d] \in Nat /\ ids[d] < id
    BY DEF IInv, IdsDiffer, Shape
  <2>3. \A d \in Conns : ids'[d] < id + 1
    BY <1>2, <1>8, <2>2
  <2>4. \A d, f \in Conns : ids'[d] # 0 /\ ids'[d] = ids'[f] => d = f
    <3>1. \A d \in Conns \ {c} : ids'[d] # id
      BY <1>2, <1>8, <2>2
    <3> QED BY <1>8, <3>1 DEF IInv, IdsDiffer
  <2> QED BY <2>1, <2>3, <2>4 DEF IdsDiffer
<1>13. EntriesOK'
  <2>1. \E V : entry' \in [DOMAIN entry' -> Peers(V)]
    <3>1. PICK V : entry \in [DOMAIN entry -> Peers(V)]
      BY DEF IInv, EntriesOK
    <3>2. e \in Peers(V)
      BY NewRequestType DEF e, Peers
    <3>3. \A i \in DOMAIN entry \cup {id} :
             (IF i = id THEN e ELSE entry[i]) \in Peers(V)
      BY <3>1, <3>2
    <3>4. entry' \in [DOMAIN entry \cup {id} -> Peers(V)]
      BY <1>6, <3>3
    <3> QED BY <1>7, <3>4
  <2>2. ASSUME NEW i \in DOMAIN entry'
        PROVE  /\ i # 0 /\ ids'[entry'[i].link] = i
               /\ Open(links'[entry'[i].link]) \/ calls'[entry'[i].link] # <<>>
    <3>1. CASE i = id
      <4>1. entry'[i].link = c
        BY <1>7, <3>1 DEF e
      <4> QED BY <1>2, <1>3, <1>8, <3>1, <4>1
    <3>2. CASE i # id
      <4>1. i \in DOMAIN entry /\ entry'[i] = entry[i] /\ entry[i].link \in Conns
        BY <1>7, <3>2 DEF IInv, EntriesOK, Peers
      <4>2. /\ i # 0 /\ ids[entry[i].link] = i
            /\ Open(links[entry[i].link]) \/ calls[entry[i].link] # <<>>
        BY <4>1 DEF IInv, EntriesOK
      <4>3. entry[i].link # c
        BY <1>1, <4>2
      <4> QED BY <1>1, <1>8, <4>1, <4>2, <4>3
    <3> QED BY <3>1, <3>2
  <2> QED BY <2>1, <2>2 DEF EntriesOK
<1>14. ClientsOK'
  <2>1. \A d \in Conns : Bytes(d)' = Bytes(d)
    BY <1>1 DEF Bytes
  <2> QED BY <1>1, <2>1 DEF IInv, ClientsOK
<1> QED BY <1>9, <1>10, <1>11, <1>12, <1>13, <1>14 DEF IInv

\* A connection ends: its HttpPeerLink goes, before the link is closed.
LEMMA OnReadErrorInv ==
    ASSUME IInv, NEW c \in Conns, OnReadError(c)
    PROVE  IInv' /\ Running(c) /\ Over(c)'
<1> DEFINE l == Link!on_read_failed(Link!uv_read_stop(links[c], Socket), "none")
<1>1. /\ IsOpen(c) /\ links' = [links EXCEPT ![c] = l]
      /\ entry' = [i \in DOMAIN entry \ {ids[c]} |-> entry[i]]
      /\ server' = Handled
      /\ UNCHANGED <<ids, client, calls, replies, spoiled, dropped>>
  BY DEF OnReadError, on_close
<1>2. Running(c) /\ Open(links[c])
  BY <1>1, ReadIsRunning DEF IInv
<1>3. Closing(l) /\ l \in Link!LinkState
  <2>1. Closing(l)
    BY <1>2, ReadFails
  <2> QED BY <2>1 DEF Closing, At
<1> HIDE DEF l
<1>4. links'[c] = l /\ \A d \in Conns \ {c} : links'[d] = links[d]
  BY <1>1 DEF IInv, Shape
<1>5. /\ DOMAIN entry' = DOMAIN entry \ {ids[c]}
      /\ \A i \in DOMAIN entry \ {ids[c]} : entry'[i] = entry[i]
  BY <1>1
<1>6. \A d \in Conns \ {c} : Open(links[d]) => Open(links'[d]) /\ ids[d] # ids[c]
  <2> TAKE d \in Conns \ {c}
  <2> HAVE Open(links[d])
  <2>1. ids[c] # 0
    BY <1>2 DEF Running
  <2> QED BY <1>4, <2>1 DEF IInv, IdsDiffer
<1>7. ServerOK'
  <2>1. PlainUse => server.alive \/ server.left # {}
    BY <1>2 DEF IInv, ServerOK
  <2>2. /\ server' \in Servers /\ server'.alive = server.alive /\ server'.left = server.left
        /\ Sound(server) /\ (server.alive \/ server.left # {}) => Sound(server')
    BY <1>1, HandledServer DEF IInv, ServerOK
  <2>3. \A d \in Conns : Open(links'[d]) => Open(links[d])
    BY <1>2, <1>4
  <2> QED BY <2>1, <2>2, <2>3 DEF IInv, ServerOK
<1>8. Shape'
  BY <1>1, <1>3 DEF IInv, Shape
<1>9. Over(c)'
  BY <1>1, <1>2, <1>3, <1>4 DEF Running, Over, MayAnswer
<1>10. Stages'
  <2>1. ASSUME NEW d \in Conns \ {c} PROVE Waiting(d)' \/ Running(d)' \/ Over(d)'
    <3>1. Waiting(d) \/ Running(d) \/ Over(d)
      BY DEF IInv, Stages
    <3> QED BY <1>1, <1>4, <1>5, <1>6, <3>1 DEF Waiting, Running, Over
  <2> QED BY <1>9, <2>1 DEF Stages
<1>11. IdsDiffer'
  <2>1. server'.lastId = server.lastId
    BY <1>1, HandledServer DEF IInv, ServerOK
  <2> QED BY <1>1, <2>1 DEF IInv, IdsDiffer
<1>12. EntriesOK'
  <2>1. \E V : entry' \in [DOMAIN entry' -> Peers(V)]
    <3>1. PICK V : entry \in [DOMAIN entry -> Peers(V)]
      BY DEF IInv, EntriesOK
    <3>2. entry' \in [DOMAIN entry \ {ids[c]} -> Peers(V)]
      BY <1>1, <3>1
    <3> QED BY <1>5, <3>2
  <2>2. ASSUME NEW i \in DOMAIN entry'
        PROVE  /\ i # 0 /\ ids'[entry'[i].link] = i
               /\ Open(links'[entry'[i].link]) \/ calls'[entry'[i].link] # <<>>
    <3>1. i \in DOMAIN entry /\ i # ids[c] /\ entry'[i] = entry[i] /\ entry[i].link \in Conns
      BY <1>5 DEF IInv, EntriesOK, Peers
    <3>2. /\ i # 0 /\ ids[entry[i].link] = i
          /\ Open(links[entry[i].link]) \/ calls[entry[i].link] # <<>>
      BY <3>1 DEF IInv, EntriesOK
    <3>3. entry[i].link # c
      BY <3>1, <3>2
    <3> QED BY <1>1, <1>4, <3>1, <3>2, <3>3
  <2> QED BY <2>1, <2>2 DEF EntriesOK
<1>13. ClientsOK'
  <2>1. \A d \in Conns : Bytes(d)' = Bytes(d)
    BY <1>1 DEF Bytes
  <2> QED BY <1>1, <2>1 DEF IInv, ClientsOK
<1> QED BY <1>2, <1>7, <1>8, <1>9, <1>10, <1>11, <1>12, <1>13 DEF IInv

\* What on_write makes of the answer.
LEMMA WriteMay ==
    ASSUME NEW rs, MayAnswer(rs)
    PROVE  LET ws == [k \in DOMAIN rs |-> on_write(rs[k])]
           IN  /\ MayAnswer(ws) /\ (ws = <<>> <=> rs = <<>>)
               /\ \A r : rs = <<r>> => ws = <<on_write(r)>>
<1>1. CASE rs = <<>>
  BY <1>1 DEF MayAnswer
<1>2. ASSUME NEW r \in Answers, rs = <<r>>
      PROVE  /\ [k \in DOMAIN rs |-> on_write(rs[k])] = <<on_write(r)>>
             /\ on_write(r) \in Answers
  <2>1. on_write(r) \in Answers
    BY DEF on_write, Answers
  <2>2. DOMAIN rs = {1} /\ rs[1] = r
    BY <1>2
  <2> DEFINE w == on_write(r)
  <2>3. [k \in DOMAIN rs |-> on_write(rs[k])] = [k \in {1} |-> w]
    BY <2>2
  <2> HIDE DEF w
  <2>4. [k \in {1} |-> w] = <<w>>
    OBVIOUS
  <2> QED BY <2>1, <2>3, <2>4 DEF w
<1> QED BY <1>1, <1>2 DEF MayAnswer

\* The loop ends what is closing.
LEMMA FinishCloseInv ==
    ASSUME IInv, NEW c \in Conns, FinishClose(c)
    PROVE  IInv' /\ Over(c) /\ Over(c)'
<1> DEFINE l == Link!flush([links[c] EXCEPT !.tcp[Socket] = "none"], Socket)
<1>1. /\ links[c].tcp[Socket] \in Link!Closing /\ links' = [links EXCEPT ![c] = l]
      /\ replies' = [replies EXCEPT ![c] = [k \in DOMAIN @ |-> on_write(@[k])]]
      /\ UNCHANGED <<server, entry, ids, client, calls, spoiled, dropped>>
  BY DEF FinishClose
<1>2. Over(c) /\ Closing(links[c])
  <2>1. "open" \notin Link!Closing
    BY DEF Link!Closing
  <2> QED BY <1>1, <2>1, OpenIsRead DEF IInv, Stages, Waiting, Running, Over
<1>3. Gone(l) /\ l \in Link!LinkState
  <2>1. Gone(l)
    BY <1>2, CloseEnds
  <2> QED BY <2>1 DEF Gone, At
<1> HIDE DEF l
<1>4. links'[c] = l /\ \A d \in Conns \ {c} : links'[d] = links[d] /\ replies'[d] = replies[d]
  BY <1>1 DEF IInv, Shape
<1>5. ~Open(links[c]) /\ ~Open(links'[c])
  BY <1>2, <1>3, <1>4, OpenIsRead
<1>6. \A d \in Conns : Open(links'[d]) <=> Open(links[d])
  BY <1>4, <1>5
<1>7. ServerOK'
  BY <1>1, <1>6 DEF IInv, ServerOK
<1>8. Shape'
  BY <1>1, <1>3 DEF IInv, Shape
<1>9. Over(c)'
  <2>1. replies'[c] = [k \in DOMAIN replies[c] |-> on_write(replies[c][k])]
    BY <1>1 DEF IInv, Shape
  <2>2. MayAnswer(replies'[c])
    BY <1>2, <2>1, WriteMay DEF Over
  <2> QED BY <1>1, <1>2, <1>3, <1>4, <2>2 DEF Over
<1>10. Stages'
  <2>1. ASSUME NEW d \in Conns \ {c} PROVE Waiting(d)' \/ Running(d)' \/ Over(d)'
    <3>1. Waiting(d) \/ Running(d) \/ Over(d)
      BY DEF IInv, Stages
    <3> QED BY <1>1, <1>4, <3>1 DEF Waiting, Running, Over
  <2> QED BY <1>9, <2>1 DEF Stages
<1>11. IdsDiffer'
  BY <1>1 DEF IInv, IdsDiffer
<1>12. EntriesOK'
  <2>1. \A i \in DOMAIN entry : entry[i].link \in Conns
    BY DEF IInv, EntriesOK, Peers
  <2> QED BY <1>1, <1>6, <2>1 DEF IInv, EntriesOK
<1>13. ClientsOK'
  <2>1. \A d \in Conns : Bytes(d)' = Bytes(d)
    BY <1>1 DEF Bytes
  <2> QED BY <1>1, <2>1 DEF IInv, ClientsOK
<1> QED BY <1>2, <1>7, <1>8, <1>9, <1>10, <1>11, <1>12, <1>13 DEF IInv

-----------------------------------------------------------------------------
(* A read.                                                                 *)

\* Nothing of the exchange on d changes.
Untouched(d) ==
    links'[d] = links[d] /\ calls'[d] = calls[d] /\ replies'[d] = replies[d]
        /\ (d \in dropped' <=> d \in dropped)

\* The application was called n times, and its first response had that size.
ServedOnce(d, n, size) ==
    /\ Closing(links'[d]) /\ calls'[d] # <<>> /\ Len(calls'[d]) = n
    /\ replies'[d] = Reply(1, size) /\ (d \in dropped' <=> size = "large")

\* What a read does.
ReadDoes(c, V, r) ==
    /\ server' = Handled /\ ids' = ids
    /\ r \in Requests(V) /\ entry' = [entry EXCEPT ![ids[c]].request = r]
    /\ \E n \in 1..(Len(Bytes(c)) - client[c].read), w \in BOOLEAN :
            client' = [client EXCEPT ![c].read = @ + n, ![c].whole = w]
    /\ \E l, k, a : /\ links' = [links EXCEPT ![c] = l]
                    /\ calls' = [calls EXCEPT ![c] = k]
                    /\ replies' = [replies EXCEPT ![c] = a]
                    /\ l \in Link!LinkState
    /\ spoiled' \in {spoiled, spoiled \cup {c}} /\ dropped' \in {dropped, dropped \cup {c}}
    /\ \A d \in Conns \ {c} : Untouched(d)
    /\ Untouched(c) \/ \E n \in Nat \ {0}, size \in Size : ServedOnce(c, n, size)

LEMMA ReadEffect ==
    ASSUME IInv, NEW c \in Conns, OnReadData(c)
    PROVE  Running(c) /\ \E V, r : ReadDoes(c, V, r)
<1>1. /\ IsOpen(c) /\ server' = Handled /\ ids' = ids
  BY DEF OnReadData
<1>2. Running(c) /\ Open(links[c])
  BY <1>1, ReadIsRunning DEF IInv
<1>3. PICK n \in 1..(Len(Bytes(c)) - client[c].read) :
        LET data == SubSeq(Bytes(c), client[c].read + 1, client[c].read + n)
        IN  /\ client' = [client EXCEPT ![c].read = @ + n,
                   ![c].whole = @ \/ (client[c].read = 0 /\ n >= End(c, 1))]
            /\ \E x \in Outcomes(c, data), size \in Sizes :
                 LET s == answer_all([link |-> links[c], replies |-> replies[c]],
                               [k \in DOMAIN x.calls |-> Len(calls[c]) + k], size)
                 IN  /\ entry' = [entry EXCEPT ![ids[c]].request = x.request]
                     /\ calls' = [calls EXCEPT ![c] = @ \o [k \in DOMAIN x.calls |->
                           [x.calls[k] EXCEPT !.at = @ + client[c].read]]]
                     /\ links' = [links EXCEPT ![c] = s.link]
                     /\ replies' = [replies EXCEPT ![c] = s.replies]
                     /\ spoiled' = IF x.ok THEN spoiled ELSE spoiled \cup {c}
                     /\ dropped' = IF size = "large" /\ x.calls # <<>> THEN dropped \cup {c}
                                   ELSE dropped
  BY DEF OnReadData
<1> DEFINE data == SubSeq(Bytes(c), client[c].read + 1, client[c].read + n)
           w == client[c].whole \/ (client[c].read = 0 /\ n >= End(c, 1))
<1>4. PICK x \in Outcomes(c, data), size \in Sizes :
        LET s == answer_all([link |-> links[c], replies |-> replies[c]],
                      [k \in DOMAIN x.calls |-> Len(calls[c]) + k], size)
        IN  /\ entry' = [entry EXCEPT ![ids[c]].request = x.request]
            /\ calls' = [calls EXCEPT ![c] = @ \o [k \in DOMAIN x.calls |->
                  [x.calls[k] EXCEPT !.at = @ + client[c].read]]]
            /\ links' = [links EXCEPT ![c] = s.link]
            /\ replies' = [replies EXCEPT ![c] = s.replies]
            /\ spoiled' = IF x.ok THEN spoiled ELSE spoiled \cup {c}
            /\ dropped' = IF size = "large" /\ x.calls # <<>> THEN dropped \cup {c} ELSE dropped
  BY <1>3
<1>5. client' = [client EXCEPT ![c].read = @ + n, ![c].whole = w] /\ w \in BOOLEAN
  BY <1>3
<1> HIDE DEF w
<1>6. size \in Size
  BY HttpServerAssumption
<1>7. Len(data) \in Nat
  <2>1. client[c].read \in Nat /\ n \in Nat /\ Bytes(c) \in Seq(STRING)
        /\ client[c].read + n <= Len(Bytes(c))
    BY DEF IInv, ClientsOK, Clients
  <2> QED BY <2>1
<1>8. PICK V : x \in Results(V)
  <2>1. ids[c] \in DOMAIN entry /\ x \in on_data(entry[ids[c]].request, data)
    BY <1>2 DEF Running, Outcomes
  <2>2. PICK W : entry[ids[c]].request \in Requests(W)
    <3>1. PICK W : entry \in [DOMAIN entry -> Peers(W)]
      BY DEF IInv, EntriesOK
    <3> QED BY <2>1, <3>1 DEF Peers
  <2> DEFINE V == W \cup {data[j] : j \in Int}
  <2>3. entry[ids[c]].request \in Requests(V)
    BY <2>2, RequestsGrow
  <2>4. \A j \in Int : data[j] \in V
    <3> HIDE DEF data
    <3> QED OBVIOUS
  <2> HIDE DEF V, data
  <2>5. x \in Results(V)
    BY <1>7, <2>1, <2>3, <2>4, OnDataType
  <2> QED BY <2>5
<1> HIDE DEF data
<1>9. x.request \in Requests(V) /\ x.calls \in Seq(AppCalls(V)) /\ x.ok \in BOOLEAN
  BY <1>8 DEF Results
<1> DEFINE m == Len(x.calls)
           ks == [k \in DOMAIN x.calls |-> Len(calls[c]) + k]
           u == Unanswered(links[c])
           s == answer_all(u, ks, size)
           more == [k \in DOMAIN x.calls |-> [x.calls[k] EXCEPT !.at = @ + client[c].read]]
<1>10. m \in Nat /\ DOMAIN x.calls = 1..m
  BY <1>9
<1>11. calls[c] = <<>> /\ replies[c] = <<>> /\ c \notin dropped /\ Len(calls[c]) = 0
  <2>1. calls[c] = <<>> /\ Len(<<>>) = 0
    BY <1>2 DEF Running
  <2> QED BY <1>2, <2>1 DEF Running
<1>12. u = [link |-> links[c], replies |-> replies[c]]
  BY <1>11 DEF Unanswered
<1> HIDE DEF u
<1>13. DOMAIN ks = 1..m /\ Len(ks) = m /\ \A k \in 1..m : ks[k] = k
  <2>1. DOMAIN ks = 1..m /\ \A k \in 1..m : ks[k] = k
    BY <1>10, <1>11
  <2>2. ks \in Seq(Nat)
    <3>1. ks = [k \in 1..m |-> 0 + k]
      BY <1>10, <1>11
    <3> HIDE DEF m
    <3> QED BY <1>10, <3>1
  <2> HIDE DEF ks, m
  <2> QED BY <1>10, <2>1, <2>2
<1>14. /\ entry' = [entry EXCEPT ![ids[c]].request = x.request]
       /\ calls' = [calls EXCEPT ![c] = calls[c] \o more]
       /\ links' = [links EXCEPT ![c] = s.link]
       /\ replies' = [replies EXCEPT ![c] = s.replies]
       /\ spoiled' = IF x.ok THEN spoiled ELSE spoiled \cup {c}
       /\ dropped' = IF size = "large" /\ x.calls # <<>> THEN dropped \cup {c} ELSE dropped
  BY <1>4, <1>12
<1>15. more \in Seq({more[k] : k \in 1..m}) /\ Len(more) = m
  <2> DEFINE f(k) == [x.calls[k] EXCEPT !.at = @ + client[c].read]
  <2> HIDE DEF f
  <2>1. more = [k \in 1..m |-> f(k)]
    BY <1>10 DEF f
  <2> HIDE DEF more, m
  <2> QED BY <1>10, <2>1
<1> HIDE DEF ks, s, more
<1>16. <<>> \o more = more
  BY <1>15
<1>17. /\ calls'[c] = more /\ links'[c] = s.link /\ replies'[c] = s.replies
       /\ \A d \in Conns \ {c} : Untouched(d)
  <2>1. calls'[c] = calls[c] \o more /\ links'[c] = s.link /\ replies'[c] = s.replies
    BY <1>14 DEF IInv, Shape
  <2>2. \A d \in Conns \ {c} : Untouched(d)
    BY <1>14 DEF IInv, Shape, Untouched
  <2> QED BY <1>11, <1>16, <2>1, <2>2
<1>18. /\ s.link \in Link!LinkState
       /\ Untouched(c) \/ \E k \in Nat \ {0}, q \in Size : ServedOnce(c, k, q)
  <2>1. CASE m = 0
    <3>1. x.calls = <<>> /\ more = <<>>
      BY <1>9, <1>15, <2>1
    <3>2. DOMAIN ks = {} /\ Len(ks) = 0
      BY <1>13, <2>1
    <3>3. s = u
      BY <3>2, AnswerNone DEF s
    <3>4. s.link = links[c] /\ s.replies = <<>>
      BY <1>11, <1>12, <3>3
    <3>5. dropped' = dropped
      BY <1>14, <3>1
    <3>6. links[c] \in Link!LinkState
      BY DEF IInv, Shape
    <3> QED BY <1>11, <1>17, <3>1, <3>4, <3>5, <3>6 DEF Untouched
  <2>2. CASE m # 0
    <3>1. m \in Nat \ {0} /\ x.calls # <<>> /\ more # <<>>
      BY <1>9, <1>10, <1>15, <2>2
    <3>2. ks[1] = 1
      BY <1>10, <1>13, <2>2
    <3> HIDE DEF m
    <3>3. s \in After({ks[1]}, size)
      BY <1>2, <1>6, <1>13, <3>1, AnswerAll DEF s, u
    <3>4. s.link \in Link!LinkState /\ Closing(s.link) /\ s.replies = Reply(1, size)
      BY <3>2, <3>3 DEF After
    <3>5. c \in dropped' <=> size = "large"
      BY <1>11, <1>14, <3>1
    <3>6. ServedOnce(c, m, size)
      BY <1>15, <1>17, <3>1, <3>4, <3>5 DEF ServedOnce
    <3> QED BY <1>6, <3>1, <3>4, <3>6
  <2> QED BY <2>1, <2>2
<1>19. ReadDoes(c, V, x.request)
  BY <1>1, <1>5, <1>9, <1>14, <1>17, <1>18 DEF ReadDoes
<1> QED BY <1>2, <1>19

LEMMA ReplyMay ==
    ASSUME NEW size \in Size
    PROVE  MayAnswer(Reply(1, size))
BY DEF MayAnswer, Answers, Reply, Response

LEMMA OnReadDataInv ==
    ASSUME IInv, NEW c \in Conns, OnReadData(c)
    PROVE  IInv'
<1>1. Running(c) /\ \E V, r : ReadDoes(c, V, r)
  BY ReadEffect
<1>2. PICK V, r : ReadDoes(c, V, r)
  BY <1>1
<1> DEFINE id == ids[c]
<1>3. PICK W : entry \in [DOMAIN entry -> Peers(W)]
  BY DEF IInv, EntriesOK
<1>4. /\ id \in DOMAIN entry /\ entry[id].link = c
      /\ ids' = ids /\ DOMAIN entry' = DOMAIN entry
      /\ \A i \in DOMAIN entry : entry'[i].link = entry[i].link /\ entry'[i] \in Peers(W \cup V)
      /\ entry' = [i \in DOMAIN entry |-> entry'[i]]
  <2>1. id \in DOMAIN entry /\ entry[id].link = c
    BY <1>1 DEF Running
  <2>2. entry' = [entry EXCEPT ![id].request = r] /\ r \in Requests(V) /\ ids' = ids
    BY <1>2 DEF ReadDoes
  <2>3. Requests(V) \subseteq Requests(W \cup V) /\ Requests(W) \subseteq Requests(W \cup V)
    BY RequestsGrow
  <2>4. \A i \in DOMAIN entry \ {id} : entry'[i] = entry[i] /\ entry[i] \in Peers(W \cup V)
    BY <1>3, <2>2, <2>3 DEF Peers
  <2>5. entry'[id].link = entry[id].link /\ entry'[id] \in Peers(W \cup V)
    <3>1. entry'[id] = [entry[id] EXCEPT !.request = r]
      BY <1>3, <2>1, <2>2
    <3>2. r \in Requests(W \cup V) /\ entry[id] \in [link : Conns, request : Requests(W)]
      BY <1>3, <2>1, <2>2, <2>3 DEF Peers
    <3> HIDE DEF id
    <3> QED BY <3>1, <3>2 DEF Peers
  <2> QED BY <1>3, <2>1, <2>2, <2>4, <2>5
<1>5. \A d \in Conns \ {c} : Untouched(d)
  BY <1>2 DEF ReadDoes
<1>6. Untouched(c) \/ (Closing(links'[c]) /\ calls'[c] # <<>> /\ MayAnswer(replies'[c]))
  BY <1>2, ReplyMay DEF ReadDoes, ServedOnce
<1>7. \A d \in Conns : Open(links'[d]) => Open(links[d])
  BY <1>1, <1>5 DEF Untouched, Running
<1>8. ServerOK'
  <2>1. PlainUse => server.alive \/ server.left # {}
    BY <1>1 DEF IInv, ServerOK, Running
  <2>2. /\ server' \in Servers /\ server'.alive = server.alive /\ server'.left = server.left
        /\ Sound(server) /\ (server.alive \/ server.left # {}) => Sound(server')
    BY <1>2, HandledServer DEF IInv, ServerOK, ReadDoes
  <2> QED BY <1>7, <2>1, <2>2 DEF IInv, ServerOK
<1>9. Shape'
  <2>1. PICK l, k, a : /\ links' = [links EXCEPT ![c] = l]
                       /\ calls' = [calls EXCEPT ![c] = k]
                       /\ replies' = [replies EXCEPT ![c] = a]
                       /\ l \in Link!LinkState
    BY <1>2 DEF ReadDoes
  <2>2. links' \in [Conns -> Link!LinkState]
    BY <2>1 DEF IInv, Shape
  <2>3. calls' = [d \in Conns |-> calls'[d]] /\ replies' = [d \in Conns |-> replies'[d]]
    BY <2>1 DEF IInv, Shape
  <2>4. spoiled' \subseteq Conns /\ dropped' \subseteq Conns /\ ids' = ids
    BY <1>2 DEF ReadDoes, IInv, Shape
  <2> QED BY <2>2, <2>3, <2>4 DEF IInv, Shape
<1>10. Stages'
  <2>1. Running(c)' \/ Over(c)'
    <3>1. CASE Untouched(c)
      BY <1>1, <1>4, <3>1 DEF Untouched, Running
    <3>2. CASE Closing(links'[c]) /\ MayAnswer(replies'[c])
      BY <1>1, <1>4, <3>2 DEF Running, Over
    <3> QED BY <1>6, <3>1, <3>2
  <2>2. ASSUME NEW d \in Conns \ {c} PROVE Waiting(d)' \/ Running(d)' \/ Over(d)'
    <3>1. Waiting(d) \/ Running(d) \/ Over(d)
      BY DEF IInv, Stages
    <3>2. links'[d] = links[d] /\ calls'[d] = calls[d] /\ replies'[d] = replies[d]
          /\ (d \in dropped' <=> d \in dropped)
      BY <1>5 DEF Untouched
    <3> QED BY <1>4, <3>1, <3>2 DEF Waiting, Running, Over
  <2> QED BY <2>1, <2>2 DEF Stages
<1>11. IdsDiffer'
  <2>1. server'.lastId = server.lastId
    BY <1>2, HandledServer DEF IInv, ServerOK, ReadDoes
  <2> QED BY <1>4, <2>1 DEF IInv, IdsDiffer
<1>12. EntriesOK'
  <2>1. \E U : entry' \in [DOMAIN entry' -> Peers(U)]
    BY <1>4
  <2>2. ASSUME NEW i \in DOMAIN entry
        PROVE  /\ i # 0 /\ ids[entry[i].link] = i
               /\ Open(links'[entry[i].link]) \/ calls'[entry[i].link] # <<>>
    <3>1. /\ i # 0 /\ ids[entry[i].link] = i /\ entry[i].link \in Conns
          /\ Open(links[entry[i].link]) \/ calls[entry[i].link] # <<>>
      BY DEF IInv, EntriesOK, Peers
    <3> QED BY <1>5, <1>6, <3>1 DEF Untouched
  <2> QED BY <1>4, <2>1, <2>2 DEF EntriesOK
<1>13. ClientsOK'
  <2>1. PICK n \in 1..(Len(Bytes(c)) - client[c].read), w \in BOOLEAN :
           client' = [client EXCEPT ![c].read = @ + n, ![c].whole = w]
    BY <1>2 DEF ReadDoes
  <2>2. PICK R : client \in [Conns -> Clients(R)]
    BY DEF IInv, ClientsOK
  <2>3. \A d \in Conns : client[d].read \in Nat /\ Len(Bytes(d)) \in Nat
    BY <2>2 DEF IInv, ClientsOK, Clients
  <2>4. client' \in [Conns -> Clients(R)]
    <3>1. client[c].read + n \in Nat /\ client[c] \in Clients(R)
      BY <2>2, <2>3
    <3> DEFINE m == client[c].read + n
               p == [client[c] EXCEPT !.read = m, !.whole = w]
    <3>2. client' = [client EXCEPT ![c] = p]
      BY <2>1, <2>2
    <3>3. p \in Clients(R)
      BY <3>1 DEF Clients
    <3> HIDE DEF p
    <3> QED BY <2>2, <3>2, <3>3
  <2>5. /\ client'[c].requests = client[c].requests
        /\ client'[c].read = client[c].read + n
        /\ \A d \in Conns \ {c} : client'[d] = client[d]
    BY <2>1, <2>2 DEF Clients
  <2>6. \A d \in Conns : Bytes(d)' = Bytes(d)
    BY <2>5 DEF Bytes
  <2>7. client[c].read + n <= Len(Bytes(c))
    BY <2>3
  <2> QED BY <2>4, <2>5, <2>6, <2>7 DEF IInv, ClientsOK
<1> QED BY <1>8, <1>9, <1>10, <1>11, <1>12, <1>13 DEF IInv

-----------------------------------------------------------------------------
(* The theorems.                                                           *)

LEMMA NextInv == IInv /\ [Next]_vars => IInv'
<1> SUFFICES ASSUME IInv, [Next]_vars PROVE IInv'
  OBVIOUS
<1>1. CASE Listen \/ Close \/ Destroy \/ OnAcceptFailed
  BY <1>1, MethodsInv
<1>2. ASSUME NEW c \in Conns, OnAccept(c) PROVE IInv'
  BY <1>2, OnAcceptInv
<1>3. ASSUME NEW c \in Conns, OnReadData(c) PROVE IInv'
  BY <1>3, OnReadDataInv
<1>4. ASSUME NEW c \in Conns, OnReadError(c) PROVE IInv'
  BY <1>4, OnReadErrorInv
<1>5. ASSUME NEW c \in Conns, FinishClose(c) PROVE IInv'
  BY <1>5, FinishCloseInv
<1>6. CASE UNCHANGED vars
  BY <1>6, ServerStep DEF vars, Unconnected, IInv, ServerOK
<1> QED BY <1>1, <1>2, <1>3, <1>4, <1>5, <1>6 DEF Next

\* Every reachable state satisfies the invariant.
THEOREM Invariance == Spec => []IInv
<1>1. Init => IInv
  BY InitInv
<1>2. IInv /\ [Next]_vars => IInv'
  BY NextInv
<1> QED BY <1>1, <1>2, PTL DEF Spec

\* Type correctness: the states of HttpServer, its TcpServer and the peer links
\* stay in their types, every link id is below the next one, every HttpPeerLink is
\* of a connection, and no read goes beyond what the client wrote.
THEOREM TypeCorrect == Spec => []TypeOK
<1>1. IInv => TypeOK
  <2> SUFFICES ASSUME IInv PROVE TypeOK
    OBVIOUS
  <2>1. /\ server.alive \in BOOLEAN /\ server.crashed \in BOOLEAN
        /\ server.pTcpServer \in {NULL, "live", "deleted"}
        /\ server.tcp \in TcpServers /\ server.lastId \in Nat
    BY DEF IInv, ServerOK, Servers
  <2>2. /\ server.tcp.pTcp \in {NULL, "idle", "listening"}
        /\ server.tcp.bListen \in BOOLEAN /\ server.tcp.nClients \in 0..MaxClients
    BY <2>1 DEF TcpServers
  <2>3. ids \in [Conns -> 0..server.lastId]
    <3>1. \A c \in Conns : ids[c] \in 0..server.lastId
      BY <2>1 DEF IInv, Shape, IdsDiffer
    <3> QED BY <3>1 DEF IInv, Shape
  <2>4. \A i \in DOMAIN entry : entry[i].link \in Conns
    BY DEF IInv, EntriesOK, Peers
  <2>5. \A c \in Conns : client[c].read \in 0..Len(Bytes(c))
    <3> TAKE c \in Conns
    <3>1. client[c].read \in Nat /\ Len(Bytes(c)) \in Nat
      BY DEF IInv, ClientsOK, Clients
    <3> QED BY <3>1 DEF IInv, ClientsOK
  <2>6. server.left \subseteq Conns
    BY DEF IInv, ServerOK, Servers
  <2> QED BY <2>1, <2>2, <2>3, <2>4, <2>5, <2>6 DEF IInv, Shape, TypeOK
<1> QED BY <1>1, Invariance, PTL

\* A connection that is read has the HttpPeerLink made for it, which is entered under
\* its id alone; and with an application that calls nothing once close() was called or
\* the server deleted, the TcpServer and the links never use what is gone, and only a
\* link that was open when the server was deleted calls the handler that it was.
THEOREM OwnEntry ==
    ASSUME PlainUse
    PROVE  Spec => []EntryPerLink
<1>1. IInv => EntryPerLink
  <2> SUFFICES ASSUME IInv PROVE EntryPerLink
    OBVIOUS
  <2>1. ASSUME NEW c \in Conns, IsOpen(c)
        PROVE  ids[c] \in DOMAIN entry /\ entry[ids[c]].link = c
    BY <2>1, ReadIsRunning DEF IInv, Running
  <2>2. ASSUME NEW i \in DOMAIN entry
        PROVE  LET c == entry[i].link
               IN  ids[c] = i /\ (IsOpen(c) \/ calls[c] # <<>>)
    <3>1. entry[i].link \in Conns
      BY DEF IInv, EntriesOK, Peers
    <3> QED BY <3>1, ReadIsRunning DEF IInv, EntriesOK
  <2>3. (server.crashed => server.left # {}) /\ ~server.tcp.crashed
    BY PlainUse DEF IInv, ServerOK, Sound
  <2>4. ASSUME NEW c \in Conns PROVE ~links[c].crashed
    BY OpenIsRead DEF IInv, Stages, Waiting, Running, Over
  <2> QED BY <2>1, <2>2, <2>3, <2>4 DEF EntryPerLink
<1> QED BY <1>1, Invariance, PTL

-----------------------------------------------------------------------------
(* The refinement of HttpExchange.                                         *)

\* The exchange of a connection, as HttpExchange sees it.
Lasts(c) == c \notin Accepted \/ IsOpen(c)
Replied(c) == IF replies[c] = <<>> THEN 0 ELSE Last(replies[c]).body
Fated(c) == IF replies[c] # <<>> THEN Last(replies[c]).fate
            ELSE IF c \in dropped THEN "dropped" ELSE "none"

LEMMA NothingYet ==
    ASSUME NEW c \in Conns, Waiting(c) \/ Running(c)
    PROVE  Len(calls[c]) = 0 /\ Replied(c) = 0 /\ Fated(c) = "none" /\ Lasts(c)
<1>1. calls[c] = <<>> /\ replies[c] = <<>> /\ c \notin dropped
  BY DEF Waiting, Running
<1>2. Lasts(c)
  BY OpenIsRead DEF Waiting, Running, Lasts, Accepted, IsOpen
<1> QED BY <1>1, <1>2 DEF Replied, Fated

LEMMA NothingMore ==
    ASSUME NEW c \in Conns, Over(c)
    PROVE  ~Lasts(c)
BY OpenIsRead DEF Over, Lasts, Accepted, IsOpen

\* Nothing happens on a connection that is left alone, or is accepted.
LEMMA Stutters ==
    ASSUME NEW c \in Conns, calls'[c] = calls[c], replies'[c] = replies[c],
           c \in dropped' <=> c \in dropped, Lasts(c)' <=> Lasts(c)
    PROVE  [Exchange(c)!Next]_(Exchange(c)!vars)
BY DEF Exchange!vars, Lasts

\* A read is the end of reading with a response to the first call, or nothing.
LEMMA ReadServes ==
    ASSUME IInv, NEW c \in Conns, OnReadData(c), NEW d \in Conns
    PROVE  [Exchange(d)!Next]_(Exchange(d)!vars)
<1>1. Running(c) /\ \E V, r : ReadDoes(c, V, r)
  BY ReadEffect
<1>2. PICK V, r : ReadDoes(c, V, r)
  BY <1>1
<1>3. ids' = ids
  BY <1>2 DEF ReadDoes
<1>4. CASE Untouched(d)
  <2>1. Lasts(d)' <=> Lasts(d)
    BY <1>3, <1>4 DEF Untouched, Lasts, Accepted, IsOpen
  <2> QED BY <1>4, <2>1, Stutters DEF Untouched
<1>5. CASE ~Untouched(d)
  <2>1. d = c
    BY <1>2, <1>5 DEF ReadDoes
  <2>2. PICK n \in Nat \ {0}, size \in Size : ServedOnce(c, n, size)
    BY <1>2, <1>5, <2>1 DEF ReadDoes
  <2>3. Len(calls'[c]) = n /\ (c \in dropped' <=> size = "large")
    BY <2>2 DEF ServedOnce
  <2>4. \/ Replied(c)' = 1 /\ Fated(c)' \in {"taken", "waiting"}
        \/ Replied(c)' = 0 /\ Fated(c)' = "dropped"
    <3>1. CASE size = "large"
      BY <2>2, <2>3, <3>1 DEF ServedOnce, Reply, Replied, Fated
    <3>2. CASE size # "large"
      <4> DEFINE a == Response(1, size)
      <4>1. a.body = 1 /\ a.fate \in {"taken", "waiting"}
        BY DEF Response
      <4>2. replies'[c] = <<a>>
        BY <2>2, <3>2 DEF ServedOnce, Reply
      <4> HIDE DEF a
      <4>3. <<a>> # <<>> /\ Last(<<a>>) = a
        BY DEF Last
      <4> QED BY <4>1, <4>2, <4>3 DEF Replied, Fated
    <3> QED BY <3>1, <3>2
  <2>5. ~Lasts(c)'
    <3>1. Socket \notin links'[c].reading
      BY <2>2, OpenIsRead DEF ServedOnce
    <3>2. ids[c] # 0
      BY <1>1 DEF Running
    <3> QED BY <1>3, <3>1, <3>2 DEF Lasts, Accepted, IsOpen
  <2>6. Lasts(c)
    BY <1>1, NothingYet
  <2>7. Exchange(c)!Serve
    BY <2>3, <2>4, <2>5, <2>6 DEF Exchange!Serve, Replied, Fated, Lasts
  <2> QED BY <2>1, <2>7 DEF Exchange!Next
<1> QED BY <1>4, <1>5

\* The other callbacks: a connection is accepted, ends, or is closed for good.
LEMMA OtherSteps ==
    ASSUME IInv, NEW c \in Conns, OnAccept(c) \/ OnReadError(c) \/ FinishClose(c),
           NEW d \in Conns
    PROVE  [Exchange(d)!Next]_(Exchange(d)!vars)
<1>1. calls' = calls /\ dropped' = dropped /\ (OnAccept(c) \/ OnReadError(c) => replies' = replies)
  BY DEF OnAccept, OnReadError, FinishClose
<1>2. d # c => links'[d] = links[d] /\ ids'[d] = ids[d] /\ replies'[d] = replies[d]
  BY DEF OnAccept, OnReadError, FinishClose, IInv, Shape
<1>3. CASE d # c
  <2>1. Lasts(d)' <=> Lasts(d)
    BY <1>2, <1>3 DEF Lasts, Accepted, IsOpen
  <2> QED BY <1>1, <1>2, <1>3, <2>1, Stutters
<1>4. CASE d = c /\ OnAccept(c)
  <2>1. Lasts(c)
    BY <1>4 DEF OnAccept, Lasts
  <2>2. Lasts(c)'
    <3>1. links'[c] = Link!Accepted(Socket)
      BY <1>4 DEF OnAccept, IInv, Shape
    <3>2. Socket \in links'[c].reading
      BY <3>1, AcceptedIs, OpenIsRead
    <3> QED BY <3>2 DEF Lasts, IsOpen
  <2> QED BY <1>1, <1>4, <2>1, <2>2, Stutters
<1>5. CASE d = c /\ OnReadError(c)
  <2>1. Running(c) /\ Over(c)'
    BY <1>5, OnReadErrorInv
  <2>2. Lasts(c)
    BY <2>1, NothingYet
  <2>3. ~Lasts(c)'
    BY <2>1, OpenIsRead DEF Over, Lasts, Accepted, IsOpen
  <2>4. Exchange(c)!End
    BY <1>1, <1>5, <2>2, <2>3 DEF Exchange!End, Lasts
  <2> QED BY <1>5, <2>4 DEF Exchange!Next
<1>6. CASE d = c /\ FinishClose(c)
  <2>1. Over(c) /\ Over(c)'
    BY <1>6, FinishCloseInv
  <2>2. ~Lasts(c) /\ ~Lasts(c)'
    BY <2>1, OpenIsRead DEF Over, Lasts, Accepted, IsOpen
  <2>3. replies'[c] = [k \in DOMAIN replies[c] |-> on_write(replies[c][k])]
    BY <1>6 DEF FinishClose, IInv, Shape
  <2>4. MayAnswer(replies[c])
    BY <2>1 DEF Over
  <2>5. CASE replies[c] = <<>>
    <3>1. replies'[c] = replies[c]
      BY <2>3, <2>4, <2>5, WriteMay
    <3> QED BY <1>1, <1>6, <2>2, <3>1, Stutters
  <2>6. ASSUME NEW r \in Answers, replies[c] = <<r>>
        PROVE  [Exchange(c)!Next]_(Exchange(c)!vars)
    <3> DEFINE w == on_write(r)
    <3>1. /\ w.body = r.body
          /\ w.fate = IF r.fate = "taken" THEN "sent" ELSE IF r.fate = "waiting" THEN "cut"
                      ELSE r.fate
      BY DEF on_write, Answers
    <3>2. replies'[c] = <<w>>
      BY <2>3, <2>4, <2>6, WriteMay
    <3> HIDE DEF w
    <3>3. /\ <<r>> # <<>> /\ Last(<<r>>) = r
          /\ <<w>> # <<>> /\ Last(<<w>>) = w
      BY DEF Last
    <3>4. /\ Replied(c) = r.body /\ Replied(c)' = w.body
          /\ Fated(c) = r.fate /\ Fated(c)' = w.fate
      BY <2>6, <3>2, <3>3 DEF Replied, Fated
    <3>5. CASE r.fate \in {"taken", "waiting"}
      <4>1. /\ Fated(c) \in DOMAIN Exchange(c)!Fate
            /\ Fated(c)' = Exchange(c)!Fate[Fated(c)]
        BY <3>1, <3>4, <3>5 DEF Exchange!Fate
      <4>2. Exchange(c)!Finish
        BY <1>1, <2>2, <3>1, <3>4, <4>1 DEF Exchange!Finish, Replied, Fated, Lasts
      <4> QED BY <4>2 DEF Exchange!Next
    <3>6. CASE r.fate \notin {"taken", "waiting"}
      BY <1>1, <2>2, <3>1, <3>4, <3>6 DEF Exchange!vars, Replied, Fated, Lasts
    <3> QED BY <3>5, <3>6
  <2> QED BY <1>6, <2>4, <2>5, <2>6 DEF MayAnswer
<1> QED BY <1>3, <1>4, <1>5, <1>6

\* Each connection implements HttpExchange, however many requests a read ends: the
\* first of them is answered, unless the answer is too large, that ends the connection,
\* and nothing is read, handled or answered on it afterwards.  The answer is sent to its
\* end if the socket took it at once, and else is cut by the close that follows it.
THEOREM Exchanged == Spec => Exchanges
<1>1. Init => \A c \in Conns : Exchange(c)!Init
  <2> SUFFICES ASSUME Init, NEW c \in Conns PROVE Exchange(c)!Init
    OBVIOUS
  <2>1. Waiting(c)
    BY InitInv, ReadIsRunning DEF Init, IInv
  <2>2. Len(calls[c]) = 0 /\ Replied(c) = 0 /\ Fated(c) = "none" /\ Lasts(c)
    BY <2>1, NothingYet
  <2> QED BY <2>2 DEF Exchange!Init, Replied, Fated, Lasts
<1>2. IInv /\ [Next]_vars => \A d \in Conns : [Exchange(d)!Next]_(Exchange(d)!vars)
  <2> SUFFICES ASSUME IInv, [Next]_vars, NEW d \in Conns
               PROVE  [Exchange(d)!Next]_(Exchange(d)!vars)
    OBVIOUS
  <2>1. CASE Listen \/ Close \/ Destroy \/ OnAcceptFailed \/ UNCHANGED vars
    <3>1. UNCHANGED Unconnected
      BY <2>1 DEF Listen, Close, Destroy, OnAcceptFailed, vars, Unconnected
    <3>2. Lasts(d)' <=> Lasts(d)
      BY <3>1 DEF Unconnected, Lasts, Accepted, IsOpen
    <3> QED BY <3>1, <3>2, Stutters DEF Unconnected
  <2>2. ASSUME NEW c \in Conns, OnReadData(c)
        PROVE  [Exchange(d)!Next]_(Exchange(d)!vars)
    BY <2>2, ReadServes
  <2>3. ASSUME NEW c \in Conns, OnAccept(c) \/ OnReadError(c) \/ FinishClose(c)
        PROVE  [Exchange(d)!Next]_(Exchange(d)!vars)
    BY <2>3, OtherSteps
  <2> QED BY <2>1, <2>2, <2>3 DEF Next
<1> DEFINE P == \A c \in Conns : Exchange(c)!Init
           A == \A c \in Conns : [Exchange(c)!Next]_(Exchange(c)!vars)
<1>3. (Init => P) /\ (IInv /\ [Next]_vars => A)
  BY <1>1, <1>2
<1>4. Spec => P /\ [][A]_vars
  <2> HIDE DEF P, A
  <2> QED BY <1>3, Invariance, PTL DEF Spec
<1> QED BY <1>4 DEF Exchanges

-----------------------------------------------------------------------------
(* The requests of a connection, one after the other.                      *)

\* Request j ends at Ending(R, j).
Ending(R, j) == Len(Text(SubSeq(R, 1, j)))

Pieces(s, n) == Len(s) = n /\ s = [i \in 1..n |-> s[i]] /\ \A i \in 1..n : s[i] \in Seq(STRING)

IsText(f, s, n) == f[0] = <<>> /\ \A i \in 1..n : f[i] = f[i - 1] \o s[i]

LEMMA TextExists ==
    ASSUME NEW n \in Nat, NEW s, Pieces(s, n)
    PROVE  \E f \in [0..n -> Seq(STRING)] : IsText(f, s, n)
<1> DEFINE Has(m) == m <= n => \E f \in [0..m -> Seq(STRING)] : IsText(f, s, m)
           U == {m \in Nat : Has(m)}
<1>1. 0 \in U
  <2> DEFINE f == [i \in 0..0 |-> <<>>]
  <2>1. f \in [0..0 -> Seq(STRING)] /\ f[0] = <<>> /\ 1..0 = {}
    OBVIOUS
  <2> HIDE DEF f
  <2> QED BY <2>1 DEF IsText
<1>2. ASSUME NEW m \in Nat, m \in U PROVE m + 1 \in U
  <2>1. ASSUME m + 1 <= n PROVE \E f \in [0..(m + 1) -> Seq(STRING)] : IsText(f, s, m + 1)
    <3>1. PICK f \in [0..m -> Seq(STRING)] : IsText(f, s, m)
      BY <1>2, <2>1
    <3>2. s[m + 1] \in Seq(STRING) /\ f[m] \in Seq(STRING)
      BY <2>1 DEF Pieces
    <3> DEFINE next == f[m] \o s[m + 1]
               h == [i \in 0..(m + 1) |-> IF i = m + 1 THEN next ELSE f[i]]
    <3>3. next \in Seq(STRING)
      BY <3>2
    <3> HIDE DEF next
    <3>4. h \in [0..(m + 1) -> Seq(STRING)]
      <4>1. \A i \in 0..(m + 1) : i # m + 1 => i \in 0..m
        OBVIOUS
      <4> QED BY <3>3, <4>1
    <3>5. h[0] = <<>>
      BY <3>1 DEF IsText
    <3>6. ASSUME NEW i \in 1..(m + 1) PROVE h[i] = h[i - 1] \o s[i]
      <4>1. h[i - 1] = f[i - 1]
        OBVIOUS
      <4>2. CASE i = m + 1
        <5>1. h[i] = next /\ i - 1 = m
          BY <4>2
        <5> QED BY <4>1, <4>2, <5>1 DEF next
      <4>3. CASE i # m + 1
        <5>1. i \in 1..m /\ h[i] = f[i]
          BY <4>3
        <5> QED BY <3>1, <4>1, <5>1 DEF IsText
      <4> QED BY <4>2, <4>3
    <3> HIDE DEF h
    <3> QED BY <3>4, <3>5, <3>6 DEF IsText
  <2> QED BY <2>1
<1> HIDE DEF U
<1>3. n \in U
  BY <1>1, <1>2, Induction
<1> QED BY <1>3 DEF U

\* FlattenSeq is the last of them.
LEMMA FlattenIs ==
    ASSUME NEW n \in Nat, NEW s, Pieces(s, n), NEW f \in [0..n -> Seq(STRING)], IsText(f, s, n)
    PROVE  FlattenSeq(s) = f[n]
<1>1. CASE n = 0
  <2>1. s = <<>>
    BY <1>1 DEF Pieces
  <2>2. Len(s) = 0
    BY <1>1 DEF Pieces
  <2> QED BY <1>1, <2>1, <2>2 DEF FlattenSeq, IsText
<1>2. CASE n # 0
  <2> DEFINE Is(g) == g = [i \in 1..n |-> IF i = 1 THEN s[i] ELSE g[i - 1] \o s[i]]
             h == CHOOSE g : Is(g)
             k == [i \in 1..n |-> f[i]]
  <2>1. Is(k)
    <3>1. ASSUME NEW i \in 1..n PROVE k[i] = IF i = 1 THEN s[i] ELSE k[i - 1] \o s[i]
      <4>1. k[i] = f[i - 1] \o s[i]
        BY DEF IsText
      <4>2. CASE i = 1
        <5>1. f[0] = <<>> /\ s[i] \in Seq(STRING) /\ i - 1 = 0
          BY <4>2 DEF IsText, Pieces
        <5>2. <<>> \o s[i] = s[i]
          BY <5>1
        <5> QED BY <4>1, <4>2, <5>1, <5>2
      <4>3. CASE i # 1
        <5>1. k[i - 1] = f[i - 1]
          BY <4>3
        <5> QED BY <4>1, <4>3, <5>1
      <4> QED BY <4>2, <4>3
    <3>2. k = [i \in 1..n |-> k[i]]
      OBVIOUS
    <3> HIDE DEF k
    <3> QED BY <3>1, <3>2
  <2>2. Is(h)
    <3> HIDE DEF k, Is
    <3> QED BY <2>1
  <2>3. FlattenSeq(s) = h[n]
    BY <1>2 DEF FlattenSeq, Pieces
  <2> HIDE DEF h
  <2> DEFINE U == {m \in Nat : m \in 1..n => h[m] = f[m]}
  <2>4. 0 \in U
    OBVIOUS
  <2>5. ASSUME NEW m \in Nat, m \in U PROVE m + 1 \in U
    <3>1. ASSUME m + 1 \in 1..n PROVE h[m + 1] = f[m + 1]
      <4>1. h[m + 1] = IF m + 1 = 1 THEN s[m + 1] ELSE h[m] \o s[m + 1]
        <5>1. (m + 1) - 1 = m
          OBVIOUS
        <5> QED BY <2>2, <3>1, <5>1
      <4>2. k[m + 1] = IF m + 1 = 1 THEN s[m + 1] ELSE k[m] \o s[m + 1]
        <5>1. (m + 1) - 1 = m
          OBVIOUS
        <5> HIDE DEF k
        <5> QED BY <2>1, <3>1, <5>1
      <4>3. m + 1 # 1 => h[m] = f[m] /\ k[m] = f[m]
        BY <2>5, <3>1
      <4>4. k[m + 1] = f[m + 1]
        BY <3>1
      <4> HIDE DEF k
      <4> QED BY <4>1, <4>2, <4>3, <4>4
    <3> QED BY <3>1
  <2> HIDE DEF U
  <2>6. n \in U
    BY <2>4, <2>5, Induction
  <2> QED BY <1>2, <2>3, <2>6 DEF U
<1> QED BY <1>1, <1>2

LEMMA ConcatIs ==
    ASSUME NEW a \in Seq(STRING), NEW b \in Seq(STRING)
    PROVE  /\ a \o b \in Seq(STRING) /\ Len(a \o b) = Len(a) + Len(b)
           /\ \A k \in 1..Len(a) : (a \o b)[k] = a[k]
           /\ \A k \in 1..Len(b) : (a \o b)[Len(a) + k] = b[k]
<1>1. Len(a) \in Nat /\ Len(b) \in Nat
  OBVIOUS
<1>2. a \o b \in Seq(STRING) /\ Len(a \o b) = Len(a) + Len(b)
  OBVIOUS
<1>3. \A k \in 1..Len(a) : (a \o b)[k] = a[k]
  OBVIOUS
<1>4. \A k \in 1..Len(b) : (a \o b)[Len(a) + k] = b[k]
  OBVIOUS
<1> QED BY <1>2, <1>3, <1>4

\* What is written stays where it is.
LEMMA TextGrows ==
    ASSUME NEW n \in Nat, NEW s, Pieces(s, n), NEW f \in [0..n -> Seq(STRING)], IsText(f, s, n),
           NEW j \in 0..n
    PROVE  Len(f[j]) <= Len(f[n]) /\ \A k \in 1..Len(f[j]) : f[n][k] = f[j][k]
<1> DEFINE Stays(m) == Len(f[j]) <= Len(f[m]) /\ \A k \in 1..Len(f[j]) : f[m][k] = f[j][k]
           U == {m \in Nat : m \in j..n => Stays(m)}
<1>1. 0 \in U
  OBVIOUS
<1>2. ASSUME NEW m \in Nat, m \in U PROVE m + 1 \in U
  <2>1. ASSUME m + 1 \in j..n PROVE Stays(m + 1)
    <3>1. CASE m + 1 = j
      BY <3>1
    <3>2. CASE m + 1 # j
      <4>1. m \in j..n /\ m + 1 \in 1..n /\ (m + 1) - 1 = m
        BY <2>1, <3>2
      <4>2. Stays(m)
        BY <1>2, <4>1
      <4>3. f[m] \in Seq(STRING) /\ s[m + 1] \in Seq(STRING) /\ f[j] \in Seq(STRING)
        BY <4>1 DEF Pieces
      <4>4. f[m + 1] = f[m] \o s[m + 1]
        BY <4>1 DEF IsText
      <4>5. Len(f[m]) <= Len(f[m + 1]) /\ \A k \in 1..Len(f[m]) : f[m + 1][k] = f[m][k]
        <5> DEFINE x == f[m]
                   y == s[m + 1]
        <5>1. x \in Seq(STRING) /\ y \in Seq(STRING) /\ f[m + 1] = x \o y
          BY <4>3, <4>4
        <5> HIDE DEF x, y
        <5>2. Len(x) \in Nat /\ Len(y) \in Nat
          BY <5>1
        <5>3. Len(x \o y) = Len(x) + Len(y) /\ \A k \in 1..Len(x) : (x \o y)[k] = x[k]
          BY <5>1, ConcatIs
        <5>4. Len(x) <= Len(f[m + 1]) /\ \A k \in 1..Len(x) : f[m + 1][k] = x[k]
          BY <5>1, <5>2, <5>3
        <5> QED BY <5>4 DEF x
      <4>6. \A k \in 1..Len(f[j]) : k \in 1..Len(f[m])
        BY <4>2, <4>3
      <4>7. Len(f[j]) \in Nat /\ Len(f[m]) \in Nat /\ f[m + 1] \in Seq(STRING)
        BY <2>1, <4>3, <4>4
      <4> QED BY <4>2, <4>5, <4>6, <4>7
    <3> QED BY <3>1, <3>2
  <2> HIDE DEF Stays
  <2> QED BY <2>1
<1> HIDE DEF U, Stays
<1>3. n \in U
  BY <1>1, <1>2, Induction
<1> QED BY <1>3 DEF U, Stays

LEMMA TextCovers ==
    ASSUME NEW n \in Nat, NEW s, Pieces(s, n), NEW f \in [0..n -> Seq(STRING)], IsText(f, s, n),
           NEW k \in 1..Len(f[n])
    PROVE  \E j \in 1..n : k > Len(f[j - 1]) /\ k <= Len(f[j])
<1> DEFINE Found(m) == k <= Len(f[m]) => \E j \in 1..n : k > Len(f[j - 1]) /\ k <= Len(f[j])
           U == {m \in Nat : m <= n => Found(m)}
<1>1. 0 \in U
  <2>1. Len(f[0]) = 0
    BY DEF IsText
  <2> QED BY <2>1
<1>2. ASSUME NEW m \in Nat, m \in U PROVE m + 1 \in U
  <2>1. ASSUME m + 1 <= n PROVE Found(m + 1)
    <3>1. Found(m) /\ m + 1 \in 1..n /\ (m + 1) - 1 = m
      BY <1>2, <2>1
    <3>2. f[m] \in Seq(STRING)
      BY <2>1
    <3>3. Len(f[m]) \in Nat
      BY <3>2
    <3> QED BY <3>1, <3>3
  <2> HIDE DEF Found
  <2> QED BY <2>1
<1> HIDE DEF U, Found
<1>3. n \in U
  BY <1>1, <1>2, Induction
<1> QED BY <1>3 DEF U, Found

\* The texts of requests, one after the other: where each of them is.
Layout(R) ==
    /\ Text(R) \in Seq(STRING) /\ Ending(R, 0) = 0
    /\ \A j \in 1..Len(R) :
         /\ Ending(R, j - 1) \in Nat /\ Ending(R, j) \in Nat
         /\ Ending(R, j) = Ending(R, j - 1) + Len(R[j].text) /\ Ending(R, j) <= Len(Text(R))
         /\ \A o \in 1..Len(R[j].text) : Text(R)[Ending(R, j - 1) + o] = R[j].text[o]
    /\ \A k \in 1..Len(Text(R)) : \E j \in 1..Len(R) : \E o \in 1..Len(R[j].text) :
         k = Ending(R, j - 1) + o

LEMMA WrittenLayout ==
    ASSUME NEW R, Written(R)
    PROVE  Layout(R)
<1> DEFINE n == Len(R)
           s == [i \in DOMAIN R |-> R[i].text]
<1>1. n \in Nat /\ DOMAIN R = 1..n /\ \A j \in 1..n : R[j].text \in Seq(STRING)
  <2>1. R \in Seq(Range(R))
    BY DEF Written
  <2> HIDE DEF n
  <2>2. Len(R) \in Nat /\ DOMAIN R = 1..Len(R)
    BY <2>1
  <2> QED BY <2>2 DEF n, Written, Request
<1>2. Pieces(s, n)
  <2>1. s = [i \in 1..n |-> R[i].text]
    BY <1>1
  <2> HIDE DEF s, n
  <2>2. Len(s) = n /\ s = [i \in 1..n |-> s[i]] /\ \A i \in 1..n : s[i] = R[i].text
    BY <1>1, <2>1
  <2> QED BY <1>1, <2>2 DEF Pieces
<1>3. PICK f \in [0..n -> Seq(STRING)] : IsText(f, s, n)
  <2> HIDE DEF n, s
  <2> QED BY <1>1, <1>2, TextExists
<1>4. Text(R) = f[n]
  <2> HIDE DEF n
  <2>1. Text(R) = FlattenSeq(s)
    BY DEF Text
  <2> HIDE DEF s
  <2> QED BY <1>1, <1>2, <1>3, <2>1, FlattenIs
<1>5. ASSUME NEW j \in 0..n PROVE Ending(R, j) = Len(f[j])
  <2> DEFINE r == SubSeq(R, 1, j)
             u == [i \in DOMAIN r |-> r[i].text]
  <2>1. DOMAIN r = 1..j /\ \A i \in 1..j : r[i] = R[i]
    <3>1. r = [i \in 1..j |-> R[i]]
      BY <1>1 DEF SubSeq
    <3> HIDE DEF r
    <3> QED BY <3>1
  <2> HIDE DEF r
  <2>2. Pieces(u, j)
    <3>1. u = [i \in 1..j |-> R[i].text]
      BY <2>1
    <3> HIDE DEF u
    <3>2. Len(u) = j /\ u = [i \in 1..j |-> u[i]] /\ \A i \in 1..j : u[i] = R[i].text
      BY <3>1
    <3>3. \A i \in 1..j : R[i].text \in Seq(STRING)
      BY <1>1
    <3> HIDE DEF n
    <3> QED BY <3>2, <3>3 DEF Pieces
  <2>3. j \in Nat /\ \A i \in 1..j : u[i] = s[i]
    BY <1>1, <2>1
  <2> HIDE DEF u
  <2> HIDE DEF s, n
  <2> DEFINE g == [i \in 0..j |-> f[i]]
  <2>4. g \in [0..j -> Seq(STRING)] /\ g[j] = f[j]
    <3>1. \A i \in 0..j : i \in 0..n
      BY <1>1
    <3> QED BY <1>1, <3>1
  <2>5. IsText(g, u, j)
    <3>1. g[0] = f[0]
      BY <1>1
    <3>2. ASSUME NEW i \in 1..j PROVE g[i] = g[i - 1] \o u[i]
      <4>1. i \in 0..j /\ i - 1 \in 0..j /\ i \in 1..n
        BY <1>1
      <4>2. g[i] = f[i] /\ g[i - 1] = f[i - 1]
        BY <4>1
      <4>3. f[i] = f[i - 1] \o s[i]
        BY <1>3, <4>1 DEF IsText
      <4> HIDE DEF g
      <4> QED BY <2>3, <4>2, <4>3
    <3> HIDE DEF g
    <3> QED BY <1>3, <3>1, <3>2 DEF IsText
  <2> HIDE DEF g
  <2>6. FlattenSeq(u) = g[j]
    BY <2>2, <2>3, <2>4, <2>5, FlattenIs
  <2> QED BY <2>4, <2>6 DEF Ending, Text, u, r
<1>6. ASSUME NEW j \in 1..n
      PROVE  /\ Ending(R, j - 1) \in Nat /\ Ending(R, j) \in Nat
             /\ Ending(R, j) = Ending(R, j - 1) + Len(R[j].text) /\ Ending(R, j) <= Len(Text(R))
             /\ \A o \in 1..Len(R[j].text) : Text(R)[Ending(R, j - 1) + o] = R[j].text[o]
  <2>1. j - 1 \in 0..n /\ j \in 0..n
    BY <1>1
  <2>2. Ending(R, j - 1) = Len(f[j - 1]) /\ Ending(R, j) = Len(f[j])
    BY <1>5, <2>1
  <2>3. s[j] = R[j].text /\ R[j].text \in Seq(STRING)
    BY <1>1
  <2> HIDE DEF n, s
  <2>4. f[j - 1] \in Seq(STRING) /\ f[j] \in Seq(STRING) /\ f[j] = f[j - 1] \o R[j].text
    BY <1>3, <2>1, <2>3 DEF IsText
  <2>5. Len(f[j]) <= Len(f[n]) /\ \A k \in 1..Len(f[j]) : f[n][k] = f[j][k]
    BY <1>1, <1>2, <1>3, <2>1, TextGrows
  <2> DEFINE x == f[j - 1]
             y == R[j].text
             z == f[j]
  <2>6. x \in Seq(STRING) /\ y \in Seq(STRING) /\ z = x \o y
    BY <2>3, <2>4
  <2>7. Len(z) <= Len(f[n]) /\ \A k \in 1..Len(z) : f[n][k] = z[k]
    BY <2>5
  <2> HIDE DEF x, y, z
  <2>8. Len(x) \in Nat /\ Len(y) \in Nat
    BY <2>6
  <2>9. /\ Len(z) = Len(x) + Len(y)
        /\ \A k \in 1..Len(y) : z[Len(x) + k] = y[k]
    BY <2>6, ConcatIs
  <2>10. ASSUME NEW o \in 1..Len(y) PROVE f[n][Len(x) + o] = y[o]
    <3>1. Len(x) + o \in 1..Len(z)
      BY <2>8, <2>9
    <3> QED BY <2>7, <2>9, <3>1
  <2>11. Ending(R, j - 1) = Len(x) /\ Ending(R, j) = Len(z)
    BY <2>2 DEF x, z
  <2>12. /\ Len(x) \in Nat /\ Len(z) \in Nat /\ Len(z) = Len(x) + Len(y)
         /\ Len(z) <= Len(Text(R)) /\ \A o \in 1..Len(y) : Text(R)[Len(x) + o] = y[o]
    BY <1>4, <2>7, <2>8, <2>9, <2>10
  <2> QED BY <2>11, <2>12 DEF y
<1>7. ASSUME NEW k \in 1..Len(Text(R))
      PROVE  \E j \in 1..n : \E o \in 1..Len(R[j].text) : k = Ending(R, j - 1) + o
  <2>1. k \in 1..Len(f[n])
    BY <1>4
  <2>2. PICK j \in 1..n : k > Len(f[j - 1]) /\ k <= Len(f[j])
    <3> HIDE DEF n, s
    <3> QED BY <1>1, <1>2, <1>3, <2>1, TextCovers
  <2>3. j - 1 \in 0..n /\ j \in 0..n
    BY <1>1
  <2>4. Ending(R, j - 1) = Len(f[j - 1]) /\ Ending(R, j) = Len(f[j])
    BY <1>5, <2>3
  <2>5. R[j].text \in Seq(STRING)
    BY <1>1
  <2> HIDE DEF n
  <2>6. Ending(R, j - 1) \in Nat /\ Ending(R, j) = Ending(R, j - 1) + Len(R[j].text)
        /\ Len(R[j].text) \in Nat
    BY <1>6, <2>5
  <2> DEFINE o == k - Ending(R, j - 1)
  <2>7. o \in 1..Len(R[j].text) /\ k = Ending(R, j - 1) + o
    BY <2>2, <2>4, <2>6
  <2> QED BY <2>7
<1>8. Text(R) \in Seq(STRING)
  BY <1>1, <1>3, <1>4
<1>9. Ending(R, 0) = 0
  <2>1. Ending(R, 0) = Len(f[0])
    BY <1>1, <1>5
  <2>2. f[0] = <<>>
    BY <1>3 DEF IsText
  <2> QED BY <2>1, <2>2
<1> HIDE DEF n
<1> QED BY <1>6, <1>7, <1>8, <1>9 DEF Layout, n

-----------------------------------------------------------------------------
(* A read of a connection that writes the requests R: it begins after b    *)
(* symbols of them.                                                        *)

\* The calls of the application, after i symbols of the read.
CallOK(R, call, b) ==
    \E j \in DOMAIN R :
        /\ call.at + b \in (Ending(R, j - 1) + 1)..Ending(R, j)
        /\ call.url = R[j].url
        /\ R[j].method \in {"GET", "POST"} =>
              call.to = Handler(R[j]) /\ call.at + b = Ending(R, j)

CallsOK(R, cs, b, i) ==
    /\ \A k \in DOMAIN cs : cs[k].at \in 1..i /\ CallOK(R, cs[k], b)
    /\ \A k \in DOMAIN cs : k > 1 => cs[k - 1].at < cs[k].at

\* What is known of the request of a connection after o symbols of g.
Asked(req, g, o) ==
    o > g.u => req.url = g.url /\ (g.method \in {"GET", "POST"} => req.method = g.method)

IsOf(g, r) == g.text = r.text /\ g.method = r.method /\ g.url = r.url

\* The parser reads request j, of which o symbols end at k.
ReadsIn(x, R, k, i, j, g, o) ==
    /\ Parsed(g) /\ IsOf(g, R[j]) /\ o < Len(g.text) /\ o <= i
    /\ k = Ending(R, j - 1) + o
    /\ Inside(x.parser, g, o) /\ Asked(x.request, g, o)

Reads(x, R, k, i) == \E g : \E j \in 1..Len(R), o \in Nat \ {0} : ReadsIn(x, R, k, i, j, g, o)

\* It reads what looks like the method of a request, in the middle of one.
NoStart(R, k) == \A j \in 1..Len(R) : k # Ending(R, j - 1) + 1

Strays(p, R, k) ==
    LET T == Text(R)
    IN  \/ k \in 1..Len(T) /\ HasFirst(p, T[k]) /\ NoStart(R, k)
        \/ k \in 2..Len(T) /\ HasName(p, T[k - 1], T[k]) /\ NoStart(R, k - 1)

\* It reads no request.
Idle(p) ==
    \/ Failed(p) \/ p.exited \/ p.state = "s_dead"
    \/ p.type = "REQUEST" /\ p.state = "s_start_req"

LeftOK(x, R, b, i) == \A l \in x.left : CallsOK(R, l.calls, b, i)

\* The symbols of the read.
IsPart(data, R, b) ==
    /\ Len(data) \in Nat /\ b \in Nat
    /\ \A k \in 1..Len(data) : b + k \in 1..Len(Text(R)) /\ data[k] = Text(R)[b + k]

-----------------------------------------------------------------------------
(* What a request is made of.                                              *)

LEMMA RequestParsed ==
    ASSUME NEW r, Request(r)
    PROVE  \E g : Parsed(g) /\ IsOf(g, r)
<1> DEFINE t == r.text
<1>1. PICK u \in 1..Len(t), h \in 1..Len(t) :
        /\ Parts(r, u, h)
        /\ r.method = "GET" => h = Len(t)
        /\ LengthGiven(t, u, h) \/ (r.method # "GET" /\ InChunksGiven(t, u, h))
  BY DEF Request
<1>2. /\ t \in Seq(STRING) /\ Len(t) >= 5
      /\ r.method \in DOMAIN Spelling /\ Spelling[r.method] = <<t[1], t[2]>>
      /\ t[3] = Blank
  BY DEF Request
<1>3. ASSUME NEW C,
             C = {} => LengthGiven(t, u, h),
             C # {} => /\ r.method # "GET"
                       /\ \A k \in (u + 2)..(h - 1) : ~IsLength(t, k)
                       /\ \E k \in (u + 2)..(h - 1), a \in (u + 2)..(h - 1),
                             l \in (u + 2)..(h - 1) : SaysChunked(t, k, a, l)
                       /\ Chunked(t, h, C)
      PROVE  \E g : Parsed(g) /\ IsOf(g, r)
  <2> DEFINE g == [text |-> t, method |-> r.method, url |-> r.url, u |-> u, h |-> h, C |-> C]
  <2>1. g.text = t /\ g.method = r.method /\ g.url = r.url /\ g.u = u /\ g.h = h /\ g.C = C
    OBVIOUS
  <2> HIDE DEF g
  <2>2. Parts(g, g.u, g.h)
    BY <1>1, <2>1 DEF Parts
  <2>3. Parsed(g)
    BY <1>1, <1>2, <1>3, <2>1, <2>2 DEF Parsed
  <2>4. IsOf(g, r)
    BY <2>1 DEF IsOf
  <2> QED BY <2>3, <2>4
<1>4. CASE LengthGiven(t, u, h)
  BY <1>3, <1>4
<1>5. CASE r.method # "GET" /\ InChunksGiven(t, u, h)
  <2>1. PICK C \in SUBSET {k \in (h + 1)..Len(t) : t[k - 1] = LF} : Chunked(t, h, C)
    BY <1>5 DEF InChunksGiven
  <2>2. C # {}
    BY <2>1 DEF Chunked
  <2>3. /\ \A k \in (u + 2)..(h - 1) : ~IsLength(t, k)
        /\ \E k \in (u + 2)..(h - 1), a \in (u + 2)..(h - 1),
              l \in (u + 2)..(h - 1) : SaysChunked(t, k, a, l)
    BY <1>5 DEF InChunksGiven
  <2> QED BY <1>3, <1>5, <2>1, <2>2, <2>3
<1> QED BY <1>1, <1>4, <1>5

\* The first two symbols of a request are no blank.
LEMMA SpellingIs ==
    ASSUME NEW m \in DOMAIN Spelling, NEW a, NEW b, Spelling[m] = <<a, b>>
    PROVE  a # Blank /\ b # Blank
<1>1. Spelling[m] \in {<<"G", "ET">>, <<"P", "OST">>, <<"P", "UT">>, <<"H", "EAD">>,
                       <<"C", "ONNECT">>, <<"T", "RACE">>}
  BY DEF Spelling
<1>2. <<a, b>> \in {<<"G", "ET">>, <<"P", "OST">>, <<"P", "UT">>, <<"H", "EAD">>,
                    <<"C", "ONNECT">>, <<"T", "RACE">>}
  BY <1>1
<1>3. a \in {"G", "P", "H", "C", "T"} /\ b \in {"ET", "OST", "UT", "EAD", "ONNECT", "RACE"}
  BY <1>2
<1> QED BY <1>3 DEF Blank

\* A blank is never where the method of a request that is none would end.
LEMMA NoMethod ==
    ASSUME NEW R, Written(R), NEW k \in Nat, k >= 2, k + 1 <= Len(Text(R)),
           Spells(Text(R)[k - 1], Text(R)[k]), NoStart(R, k - 1)
    PROVE  Text(R)[k + 1] # Blank
<1> DEFINE T == Text(R)
<1>1. Layout(R)
  BY WrittenLayout
<1>2. T \in Seq(STRING) /\ k + 1 \in 1..Len(T)
  BY <1>1 DEF Layout
<1>3. PICK j \in 1..Len(R) : \E o \in 1..Len(R[j].text) : k + 1 = Ending(R, j - 1) + o
  BY <1>1, <1>2 DEF Layout
<1>4. PICK o \in 1..Len(R[j].text) : k + 1 = Ending(R, j - 1) + o
  BY <1>3
<1> DEFINE t == R[j].text
           e == Ending(R, j - 1)
<1>5. e \in Nat /\ \A m \in 1..Len(t) : T[e + m] = t[m]
  BY <1>1 DEF Layout
<1>6. Request(R[j])
  <2>1. DOMAIN R = 1..Len(R)
    BY DEF Written
  <2> QED BY <2>1 DEF Written
<1>7. Len(t) \in Nat /\ Len(t) >= 5 /\ Single(t)
  BY <1>6 DEF Request
<1>8. PICK m \in DOMAIN Spelling : Spelling[m] = <<t[1], t[2]>>
  BY <1>6 DEF Request
<1>9. k + 1 = e + o /\ o \in 1..Len(t) /\ k # e + 2
  <2>1. k - 1 # e + 1
    BY DEF NoStart
  <2> QED BY <1>4, <1>5, <2>1
<1> HIDE DEF T, t, e
<1>10. CASE o = 1
  <2>1. T[k + 1] = t[1]
    BY <1>5, <1>9, <1>10
  <2> QED BY <1>8, <2>1, SpellingIs DEF T
<1>11. CASE o = 2
  <2>1. T[k + 1] = t[2]
    BY <1>5, <1>9, <1>11
  <2> QED BY <1>8, <2>1, SpellingIs DEF T
<1>12. CASE o > 2
  <2>1. o - 2 \in 2..(Len(t) - 2) /\ o - 2 \in 1..Len(t) /\ o - 1 \in 1..Len(t)
    <3>1. o \in Nat /\ o <= Len(t) /\ e \in Nat /\ k + 1 = e + o /\ k # e + 2 /\ Len(t) \in Nat
      BY <1>5, <1>7, <1>9
    <3>2. o # 3
      BY <3>1
    <3> QED BY <1>12, <3>1, <3>2
  <2>2. k - 1 = e + (o - 2) /\ k = e + (o - 1) /\ k + 1 = e + o
    BY <1>5, <1>9
  <2>3. T[k - 1] = t[o - 2] /\ T[k] = t[o - 1] /\ T[k + 1] = t[o]
    BY <1>5, <1>9, <2>1, <2>2
  <2>4. (o - 2) + 1 = o - 1 /\ (o - 2) + 2 = o
    BY <1>9
  <2>5. Spells(t[o - 2], t[o - 1])
    BY <2>3 DEF T
  <2>6. ~(Spells(t[o - 2], t[o - 1]) /\ t[o] = Blank)
    BY <1>7, <2>1, <2>4 DEF Single
  <2> QED BY <2>3, <2>5, <2>6 DEF T
<1> QED BY <1>9, <1>10, <1>11, <1>12

-----------------------------------------------------------------------------
(* The callbacks of a symbol, for the calls.                               *)

NoCalls(out) == \A k \in DOMAIN out : out[k].cb # "message_complete"

\* What is left alone.
Stays(y, x) ==
    y.parser = x.parser /\ y.calls = x.calls /\ \A l \in y.left : l \in x.left \/ l.calls = x.calls

AsksSame(y, x) == y.request.url = x.request.url /\ y.request.method = x.request.method

LEMMA DeliverOne ==
    ASSUME NEW V, NEW P, NEW x \in Readings(V, P), NEW e \in Event, e.cb # "message_complete",
           NEW data, NEW i
    PROVE  /\ Stays(deliver(x, e, data, i), x)
           /\ e.cb # "url" => AsksSame(deliver(x, e, data, i), x)
<1> DEFINE end == i - 1 + e.extra
           text == SubSeq(data, end - e.n + 1, end)
           y == CASE e.cb = "url" ->
                       [x EXCEPT !.request = on_url(@, x.parser.method, text)]
                  [] e.cb = "header_field" -> [x EXCEPT !.field = text]
                  [] e.cb = "header_value" ->
                       [x EXCEPT !.request = on_header_value(@, x.field, text)]
                  [] e.cb = "body" -> [x EXCEPT !.request = on_body(@, text)]
                  [] e.cb = "message_complete" ->
                       [x EXCEPT !.calls = Append(@, on_complete(x.request, i))]
                  [] OTHER -> x
<1>1. deliver(x, e, data, i) =
        IF e.cb \in NoReturn THEN [y EXCEPT !.left = @ \cup {Result(y, FALSE)}] ELSE y
  BY DEF deliver
<1> HIDE DEF text
<1>2. /\ DOMAIN y = {"parser", "request", "field", "calls", "left"}
      /\ y.parser = x.parser /\ y.calls = x.calls /\ y.left = x.left
      /\ e.cb # "url" => AsksSame(y, x)
  <2>1. x = [parser |-> x.parser, request |-> x.request, field |-> x.field,
             calls |-> x.calls, left |-> x.left]
    BY DEF Readings
  <2>2. DOMAIN x = {"parser", "request", "field", "calls", "left"} /\ x.request \in Requests(V)
    BY DEF Readings
  <2>3. CASE e.cb = "url"
    BY <2>2, <2>3
  <2>4. CASE e.cb = "header_field"
    BY <2>2, <2>4 DEF AsksSame
  <2>5. CASE e.cb = "header_value"
    BY <2>2, <2>5 DEF AsksSame, on_header_value, Requests
  <2>6. CASE e.cb = "body"
    BY <2>2, <2>6 DEF AsksSame, on_body, Requests
  <2>7. CASE e.cb \notin {"url", "header_field", "header_value", "body", "message_complete"}
    BY <2>2, <2>7 DEF AsksSame
  <2> QED BY <2>3, <2>4, <2>5, <2>6, <2>7
<1> HIDE DEF y
<1> DEFINE r == Result(y, FALSE)
           z == [y EXCEPT !.left = @ \cup {r}]
<1>3. r.calls = y.calls
  BY DEF Result
<1> HIDE DEF r
<1>4. /\ z.parser = y.parser /\ z.calls = y.calls /\ z.request = y.request
      /\ z.left = y.left \cup {r}
  BY <1>2
<1> HIDE DEF z
<1>5. deliver(x, e, data, i) \in {y, z}
  BY <1>1 DEF z, r
<1>6. Stays(z, x) /\ (e.cb # "url" => AsksSame(z, x))
  BY <1>2, <1>3, <1>4 DEF Stays, AsksSame
<1>7. Stays(y, x)
  BY <1>2 DEF Stays
<1> QED BY <1>2, <1>5, <1>6, <1>7

\* The first n callbacks of a symbol.
LEMMA RunStays ==
    ASSUME NEW V, NEW P, NEW x, NEW out \in Seq(Event), NEW data, NEW i,
           NEW f \in [0..Len(out) -> Readings(V, P)], IsRun(f, x, out, data, i),
           NEW n \in 0..Len(out), \A k \in 1..n : out[k].cb # "message_complete"
    PROVE  /\ Stays(f[n], x)
           /\ (\A k \in 1..n : out[k].cb # "url") => AsksSame(f[n], x)
<1> DEFINE U == {m \in Nat : m <= n => /\ Stays(f[m], x)
                                       /\ (\A k \in 1..n : out[k].cb # "url") => AsksSame(f[m], x)}
<1>1. 0 \in U
  BY DEF IsRun, Stays, AsksSame
<1>2. ASSUME NEW m \in Nat, m \in U PROVE m + 1 \in U
  <2>1. ASSUME m + 1 <= n
        PROVE  /\ Stays(f[m + 1], x)
               /\ (\A k \in 1..n : out[k].cb # "url") => AsksSame(f[m + 1], x)
    <3>1. m + 1 \in 1..n /\ m + 1 \in 1..Len(out) /\ m \in 0..Len(out) /\ (m + 1) - 1 = m
      BY <2>1
    <3>2. /\ out[m + 1] \in Event /\ out[m + 1].cb # "message_complete"
          /\ f[m] \in Readings(V, P) /\ f[m + 1] = deliver(f[m], out[m + 1], data, i)
      BY <3>1 DEF IsRun
    <3>3. /\ Stays(f[m + 1], f[m])
          /\ out[m + 1].cb # "url" => AsksSame(f[m + 1], f[m])
      BY <3>2, DeliverOne
    <3>4. /\ Stays(f[m], x)
          /\ (\A k \in 1..n : out[k].cb # "url") => AsksSame(f[m], x)
      BY <1>2, <2>1
    <3>5. Stays(f[m + 1], x)
      BY <3>3, <3>4 DEF Stays
    <3>6. ASSUME \A k \in 1..n : out[k].cb # "url" PROVE AsksSame(f[m + 1], x)
      BY <3>1, <3>3, <3>4, <3>6 DEF AsksSame
    <3> QED BY <3>5, <3>6
  <2> QED BY <2>1
<1> HIDE DEF U
<1>3. n \in U
  BY <1>1, <1>2, Induction
<1> QED BY <1>3 DEF U

\* All of them, when none ends a message.
LEMMA DeliverKeeps ==
    ASSUME NEW V, NEW P, NEW x \in Readings(V, P), NEW out \in Seq(Event),
           NEW data, \A j \in Int : data[j] \in V, NEW i \in Nat, NoCalls(out)
    PROVE  /\ Stays(deliver_all(x, out, data, i), x)
           /\ Quiet(out) => AsksSame(deliver_all(x, out, data, i), x)
<1>1. PICK f \in [0..Len(out) -> Readings(V, P)] :
        IsRun(f, x, out, data, i) /\ deliver_all(x, out, data, i) = f[Len(out)]
  BY DeliverSeries DEF Runs
<1>2. Len(out) \in 0..Len(out) /\ DOMAIN out = 1..Len(out)
  OBVIOUS
<1>3. /\ Stays(f[Len(out)], x)
      /\ (\A k \in 1..Len(out) : out[k].cb # "url") => AsksSame(f[Len(out)], x)
  BY <1>1, <1>2, RunStays DEF NoCalls
<1> QED BY <1>1, <1>2, <1>3 DEF Quiet

\* All of them, when the last one ends a message.
LEMMA DeliverOver ==
    ASSUME NEW V, NEW P, NEW x \in Readings(V, P), NEW w \in Seq(Event), Quiet(w),
           NEW data, \A j \in Int : data[j] \in V, NEW i \in Nat
    PROVE  \E y \in Readings(V, P) :
              /\ Stays(y, x) /\ AsksSame(y, x)
              /\ deliver_all(x, Append(w, OverEvent), data, i) = deliver(y, OverEvent, data, i)
<1> DEFINE e == OverEvent
           n == Len(w)
           out == Append(w, e)
<1>1. e \in Event
  BY DEF OverEvent, Event, Callbacks
<1> HIDE DEF e
<1>2. n \in Nat /\ out \in Seq(Event) /\ Len(out) = n + 1 /\ out[n + 1] = e
      /\ \A k \in 1..n : out[k] = w[k]
  BY <1>1
<1> HIDE DEF out, n
<1>3. PICK f \in [0..Len(out) -> Readings(V, P)] :
        IsRun(f, x, out, data, i) /\ deliver_all(x, out, data, i) = f[Len(out)]
  <2>1. out \in Seq(Event)
    BY <1>2
  <2>2. Runs(x, out, data, i, Readings(V, P))
    BY <2>1, DeliverSeries
  <2> QED BY <2>2 DEF Runs
<1>4. n \in 0..Len(out) /\ n + 1 \in 1..Len(out) /\ (n + 1) - 1 = n
  BY <1>2
<1>5. \A k \in 1..n : out[k].cb \notin {"url", "message_complete"}
  <2>1. DOMAIN w = 1..n
    BY DEF n
  <2> QED BY <1>2, <2>1 DEF Quiet
<1>6. Stays(f[n], x) /\ AsksSame(f[n], x)
  BY <1>2, <1>3, <1>4, <1>5, RunStays
<1>7. f[n + 1] = deliver(f[n], e, data, i)
  BY <1>2, <1>3, <1>4 DEF IsRun
<1>8. f[n] \in Readings(V, P)
  BY <1>4
<1> QED BY <1>2, <1>3, <1>6, <1>7, <1>8 DEF out, e

LEMMA DeliverSingle ==
    ASSUME NEW V, NEW P, NEW x \in Readings(V, P), NEW e \in Event,
           NEW data, \A j \in Int : data[j] \in V, NEW i \in Nat
    PROVE  deliver_all(x, <<e>>, data, i) = deliver(x, e, data, i)
<1> DEFINE out == <<e>>
<1>1. out \in Seq(Event) /\ Len(out) = 1 /\ out[1] = e
  OBVIOUS
<1> HIDE DEF out
<1>2. PICK f \in [0..Len(out) -> Readings(V, P)] :
        IsRun(f, x, out, data, i) /\ deliver_all(x, out, data, i) = f[Len(out)]
  <2>1. Runs(x, out, data, i, Readings(V, P))
    BY <1>1, DeliverSeries
  <2> QED BY <2>1 DEF Runs
<1>3. f[0] = x /\ 1 \in 1..Len(out) /\ 1 - 1 = 0
  BY <1>1, <1>2 DEF IsRun
<1>4. f[1] = deliver(f[0], e, data, i)
  BY <1>1, <1>2, <1>3 DEF IsRun
<1> QED BY <1>1, <1>2, <1>3, <1>4 DEF out

\* The end of a message calls the application.
LEMMA OverDoes ==
    ASSUME NEW V, NEW P, NEW x \in Readings(V, P), NEW data, NEW i
    PROVE  LET z == deliver(x, OverEvent, data, i)
               cs == Append(x.calls, on_complete(x.request, i))
           IN  /\ z.parser = x.parser /\ z.calls = cs
               /\ \A l \in z.left : l \in x.left \/ l.calls = cs
<1> DEFINE cs == Append(x.calls, on_complete(x.request, i))
           y == [x EXCEPT !.calls = cs]
           r == Result(y, FALSE)
           z == [y EXCEPT !.left = @ \cup {r}]
<1>1. OverEvent.cb = "message_complete"
  BY DEF OverEvent
<1>2. deliver(x, OverEvent, data, i) = z
  BY <1>1 DEF deliver, NoReturn
<1> HIDE DEF cs
<1>3. DOMAIN y = {"parser", "request", "field", "calls", "left"} /\ y.parser = x.parser
      /\ y.calls = cs /\ y.left = x.left
  BY DEF Readings
<1> HIDE DEF y
<1>4. r.calls = cs
  BY <1>3 DEF Result
<1> HIDE DEF r
<1>5. z.parser = y.parser /\ z.calls = y.calls /\ z.left = y.left \cup {r}
  BY <1>3
<1> HIDE DEF z
<1> QED BY <1>2, <1>3, <1>4, <1>5 DEF cs

\* The url that the last symbols before i spell.
LEMMA UrlDoes ==
    ASSUME NEW V, NEW P, NEW x \in Readings(V, P), NEW g, NEW data, NEW i \in Int, g.u \in Int
    PROVE  deliver(x, UrlEvent(g), data, i).request =
             on_url(x.request, x.parser.method, SubSeq(data, (i - 1) - (g.u - 3) + 1, i - 1))
<1> DEFINE e == UrlEvent(g)
           end == i - 1 + e.extra
           text == SubSeq(data, end - e.n + 1, end)
           q == on_url(x.request, x.parser.method, text)
           y == [x EXCEPT !.request = q]
           r == Result(y, FALSE)
           z == [y EXCEPT !.left = @ \cup {r}]
<1>1. e.cb = "url" /\ e.n = g.u - 3 /\ e.extra = 0
  BY DEF UrlEvent
<1> HIDE DEF e
<1>2. deliver(x, e, data, i) = z
  BY <1>1 DEF deliver, NoReturn
<1>3. end = i - 1
  BY <1>1
<1>4. q = on_url(x.request, x.parser.method, SubSeq(data, (i - 1) - (g.u - 3) + 1, i - 1))
  BY <1>1, <1>3
<1> HIDE DEF q
<1>5. DOMAIN y = {"parser", "request", "field", "calls", "left"} /\ y.request = q
  BY DEF Readings
<1> HIDE DEF y, r
<1>6. z.request = q
  BY <1>5
<1> HIDE DEF z
<1> QED BY <1>2, <1>4, <1>6 DEF e

-----------------------------------------------------------------------------
(* The calls of a read.                                                    *)

LEMMA CallsGrow ==
    ASSUME NEW R, NEW cs, NEW b, NEW i \in Nat, CallsOK(R, cs, b, i)
    PROVE  CallsOK(R, cs, b, i + 1)
<1>1. 1..i \subseteq 1..(i + 1)
  OBVIOUS
<1> QED BY <1>1 DEF CallsOK

\* One more, later than all.
LEMMA CallsAdd ==
    ASSUME NEW R, NEW S, NEW cs \in Seq(S), NEW b, NEW i \in Nat, CallsOK(R, cs, b, i),
           NEW call \in S, call.at = i + 1, CallOK(R, call, b)
    PROVE  CallsOK(R, Append(cs, call), b, i + 1)
<1> DEFINE n == Len(cs)
           t == Append(cs, call)
<1>1. n \in Nat /\ DOMAIN cs = 1..n /\ DOMAIN t = 1..(n + 1) /\ t[n + 1] = call
      /\ \A k \in 1..n : t[k] = cs[k]
  OBVIOUS
<1> HIDE DEF t, n
<1>2. ASSUME NEW k \in 1..(n + 1)
      PROVE  /\ t[k].at \in 1..(i + 1) /\ CallOK(R, t[k], b)
             /\ k > 1 => t[k - 1].at < t[k].at
  <2>1. CASE k = n + 1
    <3>1. t[k] = call
      BY <1>1, <2>1
    <3>2. ASSUME k > 1 PROVE t[k - 1].at < t[k].at
      <4>1. k - 1 \in 1..n
        BY <1>1, <2>1, <3>2
      <4>2. t[k - 1] = cs[k - 1] /\ cs[k - 1].at \in 1..i
        BY <1>1, <4>1 DEF CallsOK
      <4> QED BY <3>1, <4>2
    <3> QED BY <3>1, <3>2
  <2>2. CASE k # n + 1
    <3>1. k \in 1..n
      BY <1>1, <2>2
    <3>2. t[k] = cs[k] /\ cs[k].at \in 1..i /\ CallOK(R, cs[k], b)
      BY <1>1, <3>1 DEF CallsOK
    <3>3. k > 1 => k - 1 \in 1..n
      BY <1>1, <3>1
    <3>4. k > 1 => t[k - 1].at < t[k].at
      BY <1>1, <3>1, <3>2, <3>3 DEF CallsOK
    <3> QED BY <3>2, <3>4
  <2> QED BY <2>1, <2>2
<1> QED BY <1>1, <1>2 DEF CallsOK, t

LEMMA StaysOK ==
    ASSUME NEW x, NEW y, NEW z, NEW R, NEW b, NEW i \in Nat,
           CallsOK(R, x.calls, b, i), LeftOK(x, R, b, i),
           y.calls = x.calls, y.left = x.left, Stays(z, y)
    PROVE  CallsOK(R, z.calls, b, i + 1) /\ LeftOK(z, R, b, i + 1)
<1>1. CallsOK(R, z.calls, b, i + 1)
  BY CallsGrow DEF Stays
<1>2. ASSUME NEW l \in z.left PROVE CallsOK(R, l.calls, b, i + 1)
  <2>1. l \in x.left \/ l.calls = x.calls
    BY DEF Stays
  <2> QED BY <2>1, CallsGrow DEF LeftOK
<1> QED BY <1>1, <1>2 DEF LeftOK

\* Once its callbacks are gone, a parser is where it was.
LEMMA Muted ==
    ASSUME NEW q, Typed(q)
    PROVE  LET r == [q EXCEPT !.out = <<>>]
           IN  Alike(r, q) /\ r.marks = q.marks /\ r.errno = q.errno /\ r.exited = q.exited
BY DEF Typed, Fields, Alike

LEMMA MutedStays ==
    ASSUME NEW r, NEW q, Alike(r, q), r.marks = q.marks, r.errno = q.errno, r.exited = q.exited
    PROVE  /\ Idle(q) => Idle(r)
           /\ \A c : HasFirst(q, c) => HasFirst(r, c)
           /\ \A c, d : HasName(q, c, d) => HasName(r, c, d)
           /\ \A g, o : Inside(q, g, o) => Inside(r, g, o)
<1>1. Idle(q) => Idle(r)
  BY DEF Idle, Failed, Alike
<1>2. \A c : HasFirst(q, c) => HasFirst(r, c)
  BY DEF HasFirst, Alike
<1>3. \A c, d : HasName(q, c, d) => HasName(r, c, d)
  BY DEF HasName, Alike
<1>4. \A g, o : Inside(q, g, o) => Inside(r, g, o)
  BY AlikeInside DEF Inside, Alike
<1> QED BY <1>1, <1>2, <1>3, <1>4

-----------------------------------------------------------------------------
(* A symbol of the read.                                                   *)

\* What the callbacks of a symbol return, and the reading that is given them.
Asking(x) == [AllOK EXCEPT !["headers_complete"] = on_header_complete(x.request)]
Given(x, q) == [x EXCEPT !.parser = [q EXCEPT !.out = <<>>]]

LEMMA AskingOK ==
    ASSUME NEW V, NEW x, x.request \in Requests(V)
    PROVE  /\ NoFailure(Asking(x))
           /\ x.request.method = "POST" => Asking(x)["headers_complete"] = 0
<1> DEFINE v == on_header_complete(x.request)
           a == [AllOK EXCEPT !["headers_complete"] = v]
<1>1. v \in {0, 1} /\ (x.request.method = "POST" => v = 0)
  BY DEF on_header_complete, IsGet
<1>2. AllOK \in [Callbacks -> {0, 1}] /\ "headers_complete" \in Callbacks
      /\ \A c \in Callbacks : AllOK[c] = 0
  BY DEF AllOK, Callbacks
<1> HIDE DEF v
<1>3. a \in [Callbacks -> {0, 1}] /\ \A c \in Callbacks \ {"headers_complete"} : a[c] = 0
      /\ a["headers_complete"] = v
  BY <1>1, <1>2
<1> QED BY <1>1, <1>3 DEF Asking, NoFailure, v

LEMMA SymbolIs ==
    ASSUME NEW V, NEW x \in Readings(V, Parsers), ~(Failed(x.parser) \/ x.parser.exited),
           NEW data, Len(data) \in Nat, NEW n \in 1..Len(data)
    PROVE  LET q == step(x.parser, data[n], Asking(x))
           IN  /\ parse(x, data, n) = deliver_all(Given(x, q), q.out, data, n)
               /\ Typed(q) /\ Ready(x.parser) /\ q.out \in Seq(Event)
               /\ Given(x, q) \in Readings(V, Parsers)
               /\ Given(x, q).parser = [q EXCEPT !.out = <<>>]
               /\ Given(x, q).calls = x.calls /\ Given(x, q).left = x.left
               /\ Given(x, q).request = x.request
<1> DEFINE q == step(x.parser, data[n], Asking(x))
<1>1. x.parser \in Parsers
  BY DEF Readings
<1>2. Ready(x.parser)
  BY <1>1, ParserReady
<1>3. Done(q)
  BY <1>2, StepDone
<1>4. parse(x, data, n) = deliver_all(Given(x, q), q.out, data, n)
  <2>1. ~(n > Len(data))
    OBVIOUS
  <2> QED BY <2>1 DEF parse, Asking, Given
<1> HIDE DEF q
<1>5. Typed(q) /\ q.out \in Seq(Event)
  BY <1>3 DEF Done, Good, Typed
<1> DEFINE r == [q EXCEPT !.out = <<>>]
           y == [x EXCEPT !.parser = r]
<1>6. r \in Parsers
  BY <1>3, QuietParser
<1> HIDE DEF r
<1>7. /\ y \in Readings(V, Parsers) /\ y.parser = r /\ y.calls = x.calls /\ y.left = x.left
      /\ y.request = x.request
  BY <1>6 DEF Readings
<1>8. Given(x, q) = y
  BY DEF Given, r
<1> HIDE DEF y
<1> QED BY <1>2, <1>4, <1>5, <1>7, <1>8 DEF r, q

\* Where the calls are, after n symbols.
Right(z, R, b, n) == CallsOK(R, z.calls, b, n) /\ LeftOK(z, R, b, n)

Position(z, R, k, n) == Idle(z.parser) \/ Strays(z.parser, R, k) \/ Reads(z, R, k, n)

LEMMA QuietSymbol ==
    ASSUME NEW V, NEW x \in Readings(V, Parsers), ~(Failed(x.parser) \/ x.parser.exited),
           NEW data, Len(data) \in Nat, \A j \in Int : data[j] \in V,
           NEW i \in Nat, i + 1 <= Len(data), NEW R, NEW b, Right(x, R, b, i),
           NoCalls(step(x.parser, data[i + 1], Asking(x)).out)
    PROVE  LET q == step(x.parser, data[i + 1], Asking(x))
               z == parse(x, data, i + 1)
           IN  /\ Right(z, R, b, i + 1) /\ z.parser = [q EXCEPT !.out = <<>>]
               /\ Quiet(q.out) => AsksSame(z, x)
<1> DEFINE q == step(x.parser, data[i + 1], Asking(x))
           y == Given(x, q)
           z == deliver_all(y, q.out, data, i + 1)
<1>1. PICK n \in 1..Len(data) : n = i + 1
  OBVIOUS
<1>2. /\ parse(x, data, i + 1) = z
      /\ Typed(q) /\ q.out \in Seq(Event) /\ y \in Readings(V, Parsers)
      /\ y.parser = [q EXCEPT !.out = <<>>]
      /\ y.calls = x.calls /\ y.left = x.left /\ y.request = x.request
  BY <1>1, SymbolIs
<1> HIDE DEF y, q
<1>3. NoCalls(q.out)
  BY DEF q
<1>4. n \in Nat
  OBVIOUS
<1>5. Stays(z, y) /\ (Quiet(q.out) => AsksSame(z, y))
  BY <1>1, <1>2, <1>3, <1>4, DeliverKeeps
<1> HIDE DEF z
<1>6. CallsOK(R, z.calls, b, i + 1) /\ LeftOK(z, R, b, i + 1)
  BY <1>2, <1>5, StaysOK DEF Right
<1> QED BY <1>2, <1>5, <1>6 DEF Right, Stays, AsksSame, q

-----------------------------------------------------------------------------
(* Where the parser is after it.                                           *)

LEMMA FailsIdle ==
    ASSUME NEW q, Typed(q), Fails(q), NEW z, z.parser = [q EXCEPT !.out = <<>>]
    PROVE  Idle(z.parser)
BY DEF Typed, Fields, Fails, Failed, Idle

\* A method begins.
LEMMA FirstPosition ==
    ASSUME NEW R, Written(R), NEW k \in 1..Len(Text(R)), NEW n \in Nat, n >= 1, NEW z,
           HasFirst(z.parser, Text(R)[k])
    PROVE  Position(z, R, k, n)
<1> DEFINE T == Text(R)
<1>1. CASE NoStart(R, k)
  BY <1>1 DEF Position, Strays
<1>2. CASE ~NoStart(R, k)
  <2>1. PICK j \in 1..Len(R) : k = Ending(R, j - 1) + 1
    BY <1>2 DEF NoStart
  <2>2. Request(R[j])
    <3>1. DOMAIN R = 1..Len(R)
      BY DEF Written
    <3> QED BY <3>1 DEF Written
  <2>3. PICK g : Parsed(g) /\ IsOf(g, R[j])
    BY <2>2, RequestParsed
  <2>4. Layout(R)
    BY WrittenLayout
  <2>5. g.text = R[j].text /\ Len(g.text) >= 5 /\ Len(g.text) \in Nat
    BY <2>3 DEF IsOf, Parsed
  <2>6. 1 \in 1..Len(R[j].text)
    BY <2>5
  <2>7. T[k] = g.text[1]
    BY <2>1, <2>4, <2>5, <2>6 DEF Layout
  <2> HIDE DEF T
  <2>8. InMethod(z.parser, g, 1) /\ z.parser.type = "REQUEST"
    BY <2>7 DEF HasFirst, InMethod, T
  <2>9. Inside(z.parser, g, 1)
    BY <2>8 DEF Inside
  <2>10. g.u >= 4
    BY <2>3, FirstLine
  <2>11. Asked(z.request, g, 1)
    <3>1. g.u \in Nat /\ ~(1 > g.u)
      BY <2>3, <2>10, FirstLine
    <3> QED BY <3>1 DEF Asked
  <2>12. ReadsIn(z, R, k, n, j, g, 1)
    BY <2>1, <2>3, <2>5, <2>9, <2>11 DEF ReadsIn
  <2>13. Reads(z, R, k, n)
    BY <2>12 DEF Reads
  <2> QED BY <2>13 DEF Position
<1> QED BY <1>1, <1>2

\* Outside the requests: before one, or in what is none.
LEMMA StrayStep ==
    ASSUME NEW R, Written(R), NEW k \in Nat, k + 1 <= Len(Text(R)), NEW p, Ready(p),
           ~Failed(p), ~p.exited, Idle(p) \/ Strays(p, R, k), NEW a, NoFailure(a)
    PROVE  LET r == step(p, Text(R)[k + 1], a)
           IN  /\ Quiet(r.out)
               /\ Idle(r) \/ HasFirst(r, Text(R)[k + 1])
                  \/ (k \in 1..Len(Text(R)) /\ NoStart(R, k) /\ HasName(r, Text(R)[k], Text(R)[k + 1]))
<1> DEFINE T == Text(R)
           ch == T[k + 1]
           r == step(p, ch, a)
<1>0. \A q : Fails(q) => Quiet(q.out) /\ Idle(q)
  BY DEF Fails, Idle
<1>1. CASE p.state = "s_dead"
  <2>1. Fails(r) \/ (Quiet(r.out) /\ r.state = "s_dead")
    BY <1>1, DeadStep
  <2> HIDE DEF r
  <2> QED BY <1>0, <2>1 DEF Idle, r
<1>2. CASE p.type = "REQUEST" /\ p.state = "s_start_req"
  <2>1. \/ Fails(r)
        \/ /\ Quiet(r.out) /\ r.type = "REQUEST"
           /\ r.state = "s_start_req" \/ HasFirst(r, ch)
    BY <1>2, StartStep
  <2> HIDE DEF r, ch
  <2> QED BY <1>0, <2>1 DEF Idle, r, ch
<1>3. CASE k \in 1..Len(T) /\ HasFirst(p, T[k]) /\ NoStart(R, k)
  <2> HIDE DEF T
  <2>1. Fails(r) \/ (Quiet(r.out) /\ HasName(r, T[k], ch))
    BY <1>3, FirstStep
  <2> HIDE DEF r, ch
  <2> QED BY <1>0, <1>3, <2>1 DEF T, r, ch
<1>4. CASE k \in 2..Len(T) /\ HasName(p, T[k - 1], T[k]) /\ NoStart(R, k - 1)
  <2>1. Spells(T[k - 1], T[k])
    BY <1>4 DEF HasName
  <2>2. ch # Blank
    BY <1>4, <2>1, NoMethod
  <2> HIDE DEF T
  <2>3. Fails(r)
    BY <1>4, <2>2, NameStep
  <2> HIDE DEF r, ch
  <2> QED BY <1>0, <2>3 DEF r, ch, T
<1> QED BY <1>1, <1>2, <1>3, <1>4 DEF Idle, Strays

LEMMA StraySymbol ==
    ASSUME NEW R, Written(R), NEW V, NEW x \in Readings(V, Parsers),
           ~(Failed(x.parser) \/ x.parser.exited),
           NEW data, NEW b, IsPart(data, R, b), \A j \in Int : data[j] \in V,
           NEW i \in Nat, i + 1 <= Len(data), Right(x, R, b, i),
           Idle(x.parser) \/ Strays(x.parser, R, b + i)
    PROVE  /\ Right(parse(x, data, i + 1), R, b, i + 1)
           /\ Position(parse(x, data, i + 1), R, b + (i + 1), i + 1)
<1> DEFINE T == Text(R)
           a == Asking(x)
           q == step(x.parser, data[i + 1], a)
           z == parse(x, data, i + 1)
<1>1. b \in Nat /\ Len(data) \in Nat /\ i + 1 \in 1..Len(data)
  BY DEF IsPart
<1>2. PICK n \in 1..Len(data) : n = i + 1
  BY <1>1
<1>3. data[n] = T[b + n] /\ b + n \in 1..Len(T)
  BY DEF IsPart
<1>4. PICK k \in Nat : k = b + i
  BY <1>1
<1>5. b + n = k + 1 /\ k + 1 \in 1..Len(T) /\ k + 1 <= Len(T)
  BY <1>1, <1>2, <1>3, <1>4
<1>6. x.request \in Requests(V)
  BY DEF Readings
<1>7. NoFailure(a)
  BY <1>6, AskingOK
<1>8. Ready(x.parser) /\ Typed(q)
  BY <1>1, <1>2, SymbolIs
<1>9. q = step(x.parser, T[k + 1], a)
  BY <1>2, <1>3, <1>5
<1>10. /\ Quiet(q.out)
       /\ \/ Idle(q) \/ HasFirst(q, T[k + 1])
          \/ (k \in 1..Len(T) /\ NoStart(R, k) /\ HasName(q, T[k], T[k + 1]))
  <2>1. Idle(x.parser) \/ Strays(x.parser, R, k)
    BY <1>4
  <2> HIDE DEF a
  <2> QED BY <1>5, <1>7, <1>8, <1>9, <2>1, StrayStep
<1>11. NoCalls(step(x.parser, data[i + 1], Asking(x)).out)
  BY <1>10 DEF Quiet, NoCalls
<1>12. Right(z, R, b, i + 1) /\ z.parser = [q EXCEPT !.out = <<>>]
  BY <1>1, <1>11, QuietSymbol
<1> HIDE DEF q, z, T
<1> DEFINE r == [q EXCEPT !.out = <<>>]
<1>13. Alike(r, q) /\ r.marks = q.marks /\ r.errno = q.errno /\ r.exited = q.exited
  BY <1>8, Muted
<1>14. z.parser = r
  BY <1>12
<1> HIDE DEF r
<1>15. Position(z, R, k + 1, n)
  <2>1. CASE Idle(q)
    <3>1. Idle(z.parser)
      BY <1>13, <1>14, <2>1, MutedStays
    <3> QED BY <3>1 DEF Position
  <2>2. CASE HasFirst(q, T[k + 1])
    <3>1. HasFirst(z.parser, Text(R)[k + 1])
      BY <1>13, <1>14, <2>2, MutedStays DEF T
    <3>2. n \in Nat /\ n >= 1 /\ k + 1 \in 1..Len(Text(R))
      BY <1>1, <1>5 DEF T
    <3> QED BY <3>1, <3>2, FirstPosition
  <2>3. CASE k \in 1..Len(T) /\ NoStart(R, k) /\ HasName(q, T[k], T[k + 1])
    <3>1. HasName(z.parser, T[k], T[k + 1])
      BY <1>13, <1>14, <2>3, MutedStays
    <3>2. k + 1 \in 2..Len(T) /\ (k + 1) - 1 = k
      BY <1>5, <2>3
    <3>3. Strays(z.parser, R, k + 1)
      BY <2>3, <3>1, <3>2 DEF Strays, T
    <3> QED BY <3>3 DEF Position
  <2> QED BY <1>10, <2>1, <2>2, <2>3
<1>16. b + (i + 1) = k + 1
  BY <1>2, <1>5
<1> QED BY <1>2, <1>12, <1>15, <1>16 DEF z

-----------------------------------------------------------------------------
(* In a request.                                                           *)

LEMMA InsideShort ==
    ASSUME NEW g, Parsed(g), NEW p, NEW o \in Nat, Inside(p, g, o)
    PROVE  o < Len(g.text)
<1>1. g.u \in Nat /\ g.h \in Nat /\ g.u + 1 < g.h
  BY FirstLine
<1>2. Len(g.text) \in Nat /\ Len(g.text) >= 5 /\ g.h <= Len(g.text)
  BY FirstLine DEF Parsed, Parts, FirstEmpty
<1>3. InMethod(p, g, o) => o <= 3
  BY DEF InMethod
<1>4. InUrl(p, g, o) => o <= g.u
  BY DEF InUrl
<1>5. InVersion(p, g, o) \/ InHeaders(p, g, o) => o < g.h
  BY DEF InVersion, InHeaders
<1>6. InBody(p, g, o) \/ InChunk(p, g, o) => o < Len(g.text)
  BY DEF InBody, InChunk
<1> QED BY <1>1, <1>2, <1>3, <1>4, <1>5, <1>6 DEF Inside

\* The symbols of a url that ends before i.
LEMMA UrlText ==
    ASSUME NEW g, Parsed(g), NEW data, NEW i \in Nat, NEW e \in Int, i - 1 = e + g.u, 0 <= e + 1,
           \A m \in 4..g.u : data[e + m] = g.text[m]
    PROVE  SubSeq(data, (i - 1) - (g.u - 3) + 1, i - 1) = g.url
<1>1. g.u \in Nat /\ g.u >= 4 /\ g.url = SubSeq(g.text, 4, g.u)
  BY FirstLine DEF Parsed, Parts
<1>2. (i - 1) - (g.u - 3) + 1 = e + 4 /\ i - 1 = e + g.u
  BY <1>1
<1> DEFINE n == g.u - 3
<1>3. (1 + (e + g.u)) - (e + 4) = n /\ (1 + g.u) - 4 = n
  BY <1>1
<1>4. SubSeq(data, e + 4, e + g.u) = [k \in 1..n |-> data[k + (e + 4) - 1]]
  BY <1>3 DEF SubSeq
<1>5. SubSeq(g.text, 4, g.u) = [k \in 1..n |-> g.text[k + 4 - 1]]
  <2> DEFINE t == g.text
  <2> HIDE DEF t
  <2>1. \A a, u \in Int : SubSeq(t, a, u) = [k \in 1..((1 + u) - a) |-> t[k + a - 1]]
    BY DEF SubSeq
  <2>2. g.u \in Int /\ 4 \in Int
    BY <1>1
  <2>3. SubSeq(t, 4, g.u) = [k \in 1..((1 + g.u) - 4) |-> t[k + 4 - 1]]
    BY <2>1, <2>2
  <2> QED BY <1>3, <2>3 DEF t
<1>6. ASSUME NEW k \in 1..n PROVE data[k + (e + 4) - 1] = g.text[k + 4 - 1]
  <2>1. PICK m \in Int : m = k + 4 - 1
    BY <1>1
  <2>2. m \in 4..g.u /\ k + (e + 4) - 1 = e + m
    BY <1>1, <2>1
  <2> QED BY <2>1, <2>2
<1> HIDE DEF n
<1> QED BY <1>1, <1>2, <1>4, <1>5, <1>6

LEMMA InsideMethod ==
    ASSUME NEW g, Parsed(g), NEW p, Inside(p, g, g.u + 1)
    PROVE  p.method = g.method
<1>1. g.u \in Nat /\ g.h \in Nat /\ g.u >= 4 /\ g.u + 1 < g.h
  BY FirstLine
<1>2. InVersion(p, g, g.u + 1) \/ InHeaders(p, g, g.u + 1)
  <2>1. ~InMethod(p, g, g.u + 1)
    BY <1>1 DEF InMethod
  <2>2. ~InUrl(p, g, g.u + 1)
    BY <1>1 DEF InUrl
  <2>3. ~InBody(p, g, g.u + 1) /\ ~InChunk(p, g, g.u + 1)
    BY <1>1 DEF InBody, InChunk
  <2> QED BY <2>1, <2>2, <2>3 DEF Inside
<1> QED BY <1>2 DEF InVersion, InHeaders

\* The symbols of the request are those of the read.
LEMMA PartText ==
    ASSUME NEW R, Written(R), NEW data, NEW b, IsPart(data, R, b), NEW j \in 1..Len(R), NEW g,
           Parsed(g), IsOf(g, R[j]), NEW i \in Nat, i + 1 <= Len(data), NEW o \in Nat,
           b + i = Ending(R, j - 1) + o, NEW m \in 1..Len(g.text), m <= o + 1, o <= i
    PROVE  data[(i - o) + m] = g.text[m]
<1>1. Layout(R)
  BY WrittenLayout
<1>2. Ending(R, j - 1) \in Nat /\ Text(R)[Ending(R, j - 1) + m] = g.text[m]
  BY <1>1 DEF Layout, IsOf
<1>3. b \in Nat /\ Len(data) \in Nat /\ Len(g.text) \in Nat
  BY FirstLine DEF IsPart
<1>4. PICK k \in Int : k = (i - o) + m
  BY <1>3
<1>5. k \in 1..Len(data) /\ b + k = Ending(R, j - 1) + m
  <2> DEFINE e == Ending(R, j - 1)
             n == Len(data)
             l == Len(g.text)
  <2>1. e \in Nat /\ b + i = e + o /\ n \in Nat /\ i + 1 <= n /\ b \in Nat /\ l \in Nat
        /\ m \in 1..l
    BY <1>2, <1>3
  <2> HIDE DEF e, n, l
  <2>2. k \in 1..n /\ b + k = e + m
    BY <1>4, <2>1
  <2> QED BY <2>2 DEF e, n
<1>6. data[k] = Text(R)[b + k]
  BY <1>5 DEF IsPart
<1> QED BY <1>2, <1>4, <1>5, <1>6

\* The url of a request.
LEMMA UrlSymbol ==
    ASSUME NEW R, Written(R), NEW V, NEW P, NEW y \in Readings(V, P), NEW j \in 1..Len(R), NEW g,
           Parsed(g), IsOf(g, R[j]), NEW data, NEW b, IsPart(data, R, b), NEW i \in Nat,
           i + 1 <= Len(data), g.u <= i, b + i = Ending(R, j - 1) + g.u,
           y.parser.method = g.method
    PROVE  Asked(deliver(y, UrlEvent(g), data, i + 1).request, g, g.u + 1)
<1> DEFINE text == SubSeq(data, ((i + 1) - 1) - (g.u - 3) + 1, (i + 1) - 1)
           r == deliver(y, UrlEvent(g), data, i + 1).request
<1>1. g.u \in Nat /\ Len(g.text) \in Nat /\ g.u < Len(g.text)
  BY FirstLine
<1>2. r = on_url(y.request, y.parser.method, text)
  <2>1. PICK n \in Int : n = i + 1
    OBVIOUS
  <2>2. deliver(y, UrlEvent(g), data, n).request =
           on_url(y.request, y.parser.method, SubSeq(data, (n - 1) - (g.u - 3) + 1, n - 1))
    BY <1>1, UrlDoes
  <2> QED BY <2>1, <2>2
<1>3. text = g.url
  <2>1. PICK n \in Nat : n = i + 1
    OBVIOUS
  <2>2. PICK e \in Int : e = i - g.u
    BY <1>1
  <2>3. \A m \in 4..g.u : data[e + m] = g.text[m]
    <3> TAKE m \in 4..g.u
    <3>1. m \in 1..Len(g.text) /\ m <= g.u + 1
      BY <1>1
    <3> QED BY <1>1, <2>2, <3>1, PartText, SMTT(20)
  <2>4. n - 1 = e + g.u /\ 0 <= e + 1
    BY <1>1, <2>1, <2>2
  <2>5. SubSeq(data, (n - 1) - (g.u - 3) + 1, n - 1) = g.url
    BY <2>3, <2>4, UrlText
  <2> QED BY <2>1, <2>5
<1> HIDE DEF text, r
<1>4. y.request \in Requests(V)
  BY DEF Readings
<1>5. r.url = text /\ (g.method \in {"GET", "POST"} => r.method = g.method)
  BY <1>2, <1>4 DEF on_url, Requests
<1> QED BY <1>3, <1>5 DEF Asked, r

\* A message ends.
LEMMA OverSymbol ==
    ASSUME NEW R, Written(R), NEW j \in 1..Len(R), NEW g, Parsed(g), IsOf(g, R[j]),
           NEW o \in Nat, o + 1 > g.u + 1, o + 1 <= Len(g.text), NEW b \in Nat, NEW i \in Nat,
           b + i = Ending(R, j - 1) + o, NEW r, Asked(r, g, o),
           g.method \in {"GET", "POST"} => o + 1 = Len(g.text)
    PROVE  CallOK(R, on_complete(r, i + 1), b)
<1> DEFINE call == on_complete(r, i + 1)
<1>1. Layout(R)
  BY WrittenLayout
<1>2. /\ Ending(R, j - 1) \in Nat /\ Ending(R, j) \in Nat
      /\ Ending(R, j) = Ending(R, j - 1) + Len(R[j].text)
  BY <1>1 DEF Layout
<1>3. g.text = R[j].text /\ g.method = R[j].method /\ g.url = R[j].url
  BY DEF IsOf
<1>4. g.u \in Nat /\ Len(g.text) \in Nat
  BY FirstLine
<1>5. /\ call.at = i + 1 /\ call.url = r.url
      /\ r.method = "GET" => call.to = "on_get"
      /\ r.method = "POST" => call.to = "on_post"
  BY DEF on_complete, IsGet
<1> HIDE DEF call
<1>6. r.url = g.url /\ (g.method \in {"GET", "POST"} => r.method = g.method)
  <2>1. o > g.u
    BY <1>4
  <2> QED BY <2>1 DEF Asked
<1>7. call.at + b \in (Ending(R, j - 1) + 1)..Ending(R, j)
  BY <1>2, <1>3, <1>4, <1>5
<1>8. R[j].method \in {"GET", "POST"} =>
        call.to = Handler(R[j]) /\ call.at + b = Ending(R, j)
  <2>1. ASSUME R[j].method \in {"GET", "POST"} PROVE call.to = Handler(R[j])
    BY <1>3, <1>5, <1>6, <2>1 DEF Handler
  <2>2. ASSUME R[j].method \in {"GET", "POST"} PROVE call.at + b = Ending(R, j)
    <3>1. o + 1 = Len(R[j].text)
      BY <1>3, <2>2
    <3> QED BY <1>2, <1>5, <3>1
  <2> QED BY <2>1, <2>2
<1>9. j \in DOMAIN R
  BY DEF Written
<1> QED BY <1>3, <1>5, <1>6, <1>7, <1>8, <1>9 DEF CallOK, call

LEMMA ReadsSymbol ==
    ASSUME NEW R, Written(R), NEW V, NEW x \in Readings(V, Parsers),
           ~(Failed(x.parser) \/ x.parser.exited),
           NEW data, NEW b, IsPart(data, R, b), \A j \in Int : data[j] \in V,
           NEW i \in Nat, i + 1 <= Len(data), Right(x, R, b, i), Reads(x, R, b + i, i)
    PROVE  /\ Right(parse(x, data, i + 1), R, b, i + 1)
           /\ Position(parse(x, data, i + 1), R, b + (i + 1), i + 1)
<1> DEFINE a == Asking(x)
           q == step(x.parser, data[i + 1], a)
           z == parse(x, data, i + 1)
<1>1. b \in Nat /\ Len(data) \in Nat /\ i + 1 \in 1..Len(data)
  BY DEF IsPart
<1>2. PICK g : \E j \in 1..Len(R), o \in Nat \ {0} : ReadsIn(x, R, b + i, i, j, g, o)
  BY DEF Reads
<1>3. PICK j \in 1..Len(R), o \in Nat \ {0} : ReadsIn(x, R, b + i, i, j, g, o)
  BY <1>2
<1>4. /\ Parsed(g) /\ IsOf(g, R[j]) /\ o < Len(g.text) /\ o <= i
      /\ b + i = Ending(R, j - 1) + o
      /\ Inside(x.parser, g, o) /\ Asked(x.request, g, o)
  BY <1>3 DEF ReadsIn
<1>5. PICK n \in Nat : n = i + 1
  OBVIOUS
<1>6. PICK m \in Nat : m = o + 1
  OBVIOUS
<1>7. g.u \in Nat /\ g.u >= 4 /\ Len(g.text) \in Nat /\ m <= Len(g.text) /\ m \in 1..Len(g.text)
  BY <1>4, <1>6, FirstLine
<1>8. data[n] = g.text[m]
  <2>1. data[(i - o) + m] = g.text[m]
    BY <1>4, <1>6, <1>7, PartText
  <2>2. (i - o) + m = n
    BY <1>5, <1>6
  <2> QED BY <2>1, <2>2
<1>9. x.request \in Requests(V)
  BY DEF Readings
<1>10. NoFailure(a) /\ (g.method = "POST" /\ o > g.u => a["headers_complete"] = 0)
  <2>1. NoFailure(a) /\ (x.request.method = "POST" => a["headers_complete"] = 0)
    BY <1>9, AskingOK
  <2>2. g.method = "POST" /\ o > g.u => x.request.method = "POST"
    BY <1>4 DEF Asked
  <2> HIDE DEF a
  <2> QED BY <2>1, <2>2
<1>11. /\ z = deliver_all(Given(x, q), q.out, data, n)
       /\ Typed(q) /\ Ready(x.parser) /\ q.out \in Seq(Event)
       /\ Given(x, q) \in Readings(V, Parsers)
       /\ Given(x, q).parser = [q EXCEPT !.out = <<>>]
       /\ Given(x, q).calls = x.calls /\ Given(x, q).left = x.left
       /\ Given(x, q).request = x.request
  <2>1. n \in 1..Len(data)
    BY <1>1, <1>5
  <2> QED BY <1>1, <1>5, <2>1, SymbolIs
<1>12. Steps(q, g, m)
  <2> HIDE DEF a
  <2>1. Steps(step(x.parser, g.text[o + 1], a), g, o + 1)
    BY <1>4, <1>10, <1>11, InsideStep
  <2> QED BY <1>5, <1>6, <1>8, <2>1
<1>13. NoCalls(q.out) =>
         /\ Right(z, R, b, n) /\ z.parser = [q EXCEPT !.out = <<>>]
         /\ Quiet(q.out) => AsksSame(z, x)
  <2> SUFFICES ASSUME NoCalls(q.out)
               PROVE  /\ Right(z, R, b, n) /\ z.parser = [q EXCEPT !.out = <<>>]
                      /\ Quiet(q.out) => AsksSame(z, x)
    OBVIOUS
  <2>1. NoCalls(step(x.parser, data[i + 1], Asking(x)).out)
    OBVIOUS
  <2>2. Right(z, R, b, i + 1) /\ z.parser = [q EXCEPT !.out = <<>>]
        /\ (Quiet(q.out) => AsksSame(z, x))
    BY <1>1, <2>1, QuietSymbol
  <2> HIDE DEF z, q
  <2> QED BY <1>5, <2>2
<1> DEFINE y == Given(x, q)
           r == [q EXCEPT !.out = <<>>]
<1>14. Alike(r, q) /\ r.marks = q.marks /\ r.errno = q.errno /\ r.exited = q.exited
  BY <1>11, Muted
<1>15. y \in Readings(V, Parsers) /\ y.parser = r /\ y.calls = x.calls /\ y.left = x.left
       /\ y.request = x.request
  BY <1>11
<1>16. b + n = Ending(R, j - 1) + m /\ m <= n /\ m \in Nat \ {0}
  <2>1. Layout(R)
    BY WrittenLayout
  <2>2. Ending(R, j - 1) \in Nat
    BY <2>1 DEF Layout
  <2> DEFINE e == Ending(R, j - 1)
  <2>3. e \in Nat /\ b + i = e + o /\ o <= i
    BY <1>4, <2>2
  <2> HIDE DEF e
  <2>4. b + n = e + m /\ m <= n /\ m \in Nat \ {0}
    BY <1>1, <1>5, <1>6, <2>3
  <2> QED BY <2>4 DEF e
<1>17. z = deliver_all(y, q.out, data, n) /\ (NoCalls(q.out) => z.parser = r)
  BY <1>11, <1>13
<1> HIDE DEF z, q, y, r
<1>18. Inside(r, g, m) /\ z.parser = r /\ Asked(z.request, g, m) => Position(z, R, b + n, n)
  <2> SUFFICES ASSUME Inside(r, g, m), z.parser = r, Asked(z.request, g, m)
               PROVE  Position(z, R, b + n, n)
    OBVIOUS
  <2>1. m < Len(g.text)
    BY <1>4, <1>7, InsideShort
  <2>2. ReadsIn(z, R, b + n, n, j, g, m)
    BY <1>4, <1>16, <2>1 DEF ReadsIn
  <2>3. Reads(z, R, b + n, n)
    BY <1>16, <2>2 DEF Reads
  <2> QED BY <2>3 DEF Position
<1>19. Idle(r) /\ z.parser = r => Position(z, R, b + n, n)
  BY DEF Position
<1>20. (Idle(q) => Idle(r)) /\ (Inside(q, g, m) => Inside(r, g, m))
  BY <1>14, MutedStays
<1> SUFFICES Right(z, R, b, n) /\ Position(z, R, b + n, n)
  BY <1>5 DEF z
<1>21. CASE Fails(q)
  <2>1. NoCalls(q.out) /\ Idle(q)
    BY <1>21 DEF Fails, Quiet, NoCalls, Idle
  <2> QED BY <1>13, <1>17, <1>19, <1>20, <2>1
<1>22. CASE Inside(q, g, m) /\ m # g.u + 1 /\ Quiet(q.out)
  <2>1. NoCalls(q.out)
    BY <1>22 DEF Quiet, NoCalls
  <2>2. AsksSame(z, x)
    BY <1>13, <1>22, <2>1
  <2>3. m > g.u => o > g.u
    BY <1>6, <1>7, <1>22
  <2>4. Asked(z.request, g, m)
    BY <1>4, <2>2, <2>3 DEF Asked, AsksSame
  <2> QED BY <1>13, <1>17, <1>18, <1>20, <1>22, <2>1, <2>4
<1>23. CASE Inside(q, g, m) /\ m = g.u + 1 /\ q.out = <<UrlEvent(g)>>
  <2> DEFINE e == UrlEvent(g)
  <2>1. e \in Event /\ e.cb = "url"
    <3>1. g.u - 3 \in Nat /\ "url" \in Callbacks
      BY <1>7 DEF Callbacks, DataCallbacks
    <3> QED BY <3>1 DEF UrlEvent, Event
  <2> HIDE DEF e
  <2>2. NoCalls(q.out)
    <3>1. q.out = <<e>>
      BY <1>23 DEF e
    <3>2. DOMAIN q.out = {1} /\ q.out[1] = e
      BY <3>1
    <3> QED BY <2>1, <3>2 DEF NoCalls
  <2>3. z = deliver(y, e, data, n)
    BY <1>15, <1>17, <1>23, <2>1, DeliverSingle DEF e
  <2>4. q.method = g.method
    BY <1>4, <1>23, InsideMethod
  <2>5. y.parser.method = g.method
    BY <1>14, <1>15, <2>4 DEF Alike
  <2>6. o = g.u /\ g.u <= i
    BY <1>4, <1>6, <1>7, <1>23
  <2>7. Asked(z.request, g, m)
    <3>1. b + i = Ending(R, j - 1) + g.u
      BY <1>4, <2>6
    <3>2. Asked(deliver(y, UrlEvent(g), data, i + 1).request, g, g.u + 1)
      BY <1>4, <1>15, <2>5, <2>6, <3>1, UrlSymbol
    <3> QED BY <1>5, <1>23, <2>3, <3>2 DEF e
  <2> QED BY <1>13, <1>17, <1>18, <1>20, <1>23, <2>2, <2>7
<1>24. CASE Completes(q, g, m) /\ m > g.u + 1
  <2>1. PICK w \in Seq(Event) : Quiet(w) /\ q.out = Append(w, OverEvent)
    BY <1>24 DEF Completes
  <2>2. PICK v \in Readings(V, Parsers) :
           /\ Stays(v, y) /\ AsksSame(v, y)
           /\ deliver_all(y, Append(w, OverEvent), data, n) = deliver(v, OverEvent, data, n)
    BY <1>15, <2>1, DeliverOver
  <2>3. z = deliver(v, OverEvent, data, n)
    BY <1>17, <2>1, <2>2
  <2> DEFINE call == on_complete(v.request, n)
             cs == Append(v.calls, call)
  <2>4. /\ z.parser = v.parser /\ z.calls = cs
        /\ \A l \in z.left : l \in v.left \/ l.calls = cs
    BY <2>3, OverDoes
  <2>5. CallsOK(R, v.calls, b, i)
    BY <1>15, <2>2 DEF Stays, Right
  <2>6. Asked(v.request, g, o)
    BY <1>4, <1>15, <2>2 DEF Asked, AsksSame
  <2>7. CallOK(R, call, b)
    <3>1. o + 1 > g.u + 1 /\ o + 1 <= Len(g.text)
      BY <1>6, <1>7, <1>24
    <3>2. g.method \in {"GET", "POST"} => o + 1 = Len(g.text)
      BY <1>6, <1>24 DEF Completes
    <3>3. CallOK(R, on_complete(v.request, i + 1), b)
      BY <1>1, <1>4, <2>6, <3>1, <3>2, OverSymbol
    <3> QED BY <1>5, <3>3
  <2>8. v.calls \in Seq(AppCalls(V)) /\ call \in AppCalls(V) /\ call.at = i + 1
    <3>1. v.calls \in Seq(AppCalls(V)) /\ v.request \in Requests(V)
      BY DEF Readings
    <3>2. call \in AppCalls(V)
      BY <3>1, CompleteType
    <3>3. call.at = n
      BY DEF on_complete
    <3> QED BY <1>5, <3>1, <3>2, <3>3
  <2> HIDE DEF call
  <2>9. CallsOK(R, cs, b, n)
    BY <1>5, <2>5, <2>7, <2>8, CallsAdd
  <2> HIDE DEF cs
  <2>10. \A l \in v.left : CallsOK(R, l.calls, b, n)
    <3> TAKE l \in v.left
    <3>1. l \in x.left \/ l.calls = x.calls
      BY <1>15, <2>2 DEF Stays
    <3>2. CallsOK(R, l.calls, b, i)
      BY <3>1 DEF Right, LeftOK
    <3> QED BY <1>5, <3>2, CallsGrow
  <2>11. Right(z, R, b, n)
    BY <2>4, <2>9, <2>10 DEF Right, LeftOK
  <2>12. Idle(q)
    BY <1>24 DEF Completes, Idle
  <2>13. z.parser = r
    BY <1>15, <2>2, <2>4 DEF Stays
  <2> QED BY <1>19, <1>20, <2>11, <2>12, <2>13
<1> QED BY <1>12, <1>21, <1>22, <1>23, <1>24 DEF Steps

\* A symbol of a read keeps the calls right.
LEMMA ReachedStep ==
    ASSUME NEW R, Written(R), NEW V, NEW x \in Readings(V, Parsers),
           NEW data, NEW b, IsPart(data, R, b), \A j \in Int : data[j] \in V,
           NEW i \in Nat, i + 1 <= Len(data), Right(x, R, b, i), Position(x, R, b + i, i)
    PROVE  /\ Right(parse(x, data, i + 1), R, b, i + 1)
           /\ Position(parse(x, data, i + 1), R, b + (i + 1), i + 1)
<1>1. CASE Failed(x.parser) \/ x.parser.exited
  <2>1. parse(x, data, i + 1) = x
    BY <1>1 DEF parse
  <2>2. Idle(x.parser)
    BY <1>1 DEF Idle
  <2>3. Right(x, R, b, i + 1)
    BY CallsGrow DEF Right, LeftOK
  <2> QED BY <2>1, <2>2, <2>3 DEF Position
<1>2. CASE ~(Failed(x.parser) \/ x.parser.exited)
  <2>1. CASE Reads(x, R, b + i, i)
    BY <1>2, <2>1, ReadsSymbol
  <2>2. CASE Idle(x.parser) \/ Strays(x.parser, R, b + i)
    BY <1>2, <2>2, StraySymbol
  <2> QED BY <2>1, <2>2 DEF Position
<1> QED BY <1>1, <1>2

-----------------------------------------------------------------------------
(* What follows a request in a read.                                       *)

\* The texts have the same first i symbols; the text t is the first part of data.
SameStart(data, t, i) == \A k \in 1..i : data[k] = t[k]

StartsWith(data, t) ==
    Len(t) \in Nat /\ Len(data) \in Nat /\ Len(t) <= Len(data) /\ SameStart(data, t, Len(t))

\* What the callback is given is not longer than what was read, with the symbol i.
Reaches(e, i) == e.n <= (i - 1) + e.extra

LEMMA PartSame ==
    ASSUME NEW s, NEW t, NEW a \in Int, NEW e \in Int, \A k \in a..e : s[k] = t[k]
    PROVE  SubSeq(s, a, e) = SubSeq(t, a, e)
<1> DEFINE n == (1 + e) - a
<1>1. SubSeq(s, a, e) = [k \in 1..n |-> s[k + a - 1]] /\ SubSeq(t, a, e) = [k \in 1..n |-> t[k + a - 1]]
  BY DEF SubSeq
<1>2. \A k \in 1..n : k + a - 1 \in a..e
  OBVIOUS
<1> HIDE DEF n
<1> QED BY <1>1, <1>2

\* A callback is given nothing that comes after the symbol i.
LEMMA DeliverSame ==
    ASSUME NEW data, NEW t, NEW i \in Nat \ {0}, SameStart(data, t, i),
           NEW e \in Event, Reaches(e, i), NEW x
    PROVE  deliver(x, e, data, i) = deliver(x, e, t, i)
<1> DEFINE end == i - 1 + e.extra
           a == end - e.n + 1
<1>1. a \in Int /\ end \in Int /\ a..end \subseteq 1..i
  BY DEF Event, Reaches
<1>2. SubSeq(data, a, end) = SubSeq(t, a, end)
  <2> HIDE DEF a, end
  <2> QED BY <1>1, PartSame DEF SameStart
<1> DEFINE y(text) ==
             CASE e.cb = "url" -> [x EXCEPT !.request = on_url(@, x.parser.method, text)]
               [] e.cb = "header_field" -> [x EXCEPT !.field = text]
               [] e.cb = "header_value" ->
                    [x EXCEPT !.request = on_header_value(@, x.field, text)]
               [] e.cb = "body" -> [x EXCEPT !.request = on_body(@, text)]
               [] e.cb = "message_complete" ->
                    [x EXCEPT !.calls = Append(@, on_complete(x.request, i))]
               [] OTHER -> x
           z(text) == IF e.cb \in NoReturn
                      THEN [y(text) EXCEPT !.left = @ \cup {Result(y(text), FALSE)}] ELSE y(text)
<1>3. /\ deliver(x, e, data, i) = z(SubSeq(data, a, end))
      /\ deliver(x, e, t, i) = z(SubSeq(t, a, end))
  BY DEF deliver
<1> HIDE DEF a, end, z
<1> QED BY <1>2, <1>3

LEMMA DeliverAllSame ==
    ASSUME NEW V, NEW P, NEW x \in Readings(V, P), NEW out \in Seq(Event),
           NEW data, NEW t, \A j \in Int : data[j] \in V /\ t[j] \in V,
           NEW i \in Nat \ {0}, SameStart(data, t, i), \A k \in DOMAIN out : Reaches(out[k], i)
    PROVE  deliver_all(x, out, data, i) = deliver_all(x, out, t, i)
<1> DEFINE n == Len(out)
<1>1. i \in Nat /\ n \in Nat /\ DOMAIN out = 1..n /\ \A k \in 1..n : out[k] \in Event
  OBVIOUS
<1>2. PICK f \in [0..Len(out) -> Readings(V, P)] :
        IsRun(f, x, out, data, i) /\ deliver_all(x, out, data, i) = f[Len(out)]
  BY <1>1, DeliverSeries DEF Runs
<1>3. PICK g \in [0..Len(out) -> Readings(V, P)] :
        IsRun(g, x, out, t, i) /\ deliver_all(x, out, t, i) = g[Len(out)]
  BY <1>1, DeliverSeries DEF Runs
<1> DEFINE U == {k \in Nat : k <= n => f[k] = g[k]}
<1>4. 0 \in U
  BY <1>2, <1>3 DEF IsRun
<1>5. ASSUME NEW k \in Nat, k \in U PROVE k + 1 \in U
  <2>1. ASSUME k + 1 <= n PROVE f[k + 1] = g[k + 1]
    <3>1. k + 1 \in 1..n /\ (k + 1) - 1 = k /\ f[k] = g[k]
      BY <1>1, <1>5, <2>1
    <3>2. f[k + 1] = deliver(f[k], out[k + 1], data, i) /\ g[k + 1] = deliver(g[k], out[k + 1], t, i)
      BY <1>2, <1>3, <3>1 DEF IsRun
    <3>3. out[k + 1] \in Event /\ Reaches(out[k + 1], i)
      BY <1>1, <3>1
    <3>4. deliver(f[k], out[k + 1], data, i) = deliver(f[k], out[k + 1], t, i)
      BY <3>3, DeliverSame
    <3> QED BY <3>1, <3>2, <3>4
  <2> HIDE DEF n
  <2> QED BY <2>1
<1> HIDE DEF U
<1>6. n \in U
  BY <1>1, <1>4, <1>5, Induction
<1> QED BY <1>1, <1>2, <1>3, <1>6 DEF U

\* A symbol that both texts have leaves the same reading, with its marks in the buffer.
LEMMA SymbolSame ==
    ASSUME NEW V, NEW x \in Readings(V, Parsers), NEW data, NEW t, StartsWith(data, t),
           \A j \in Int : data[j] \in V /\ t[j] \in V,
           NEW i \in Nat, i + 1 <= Len(t), InBuffer(x.parser, i)
    PROVE  /\ parse(x, data, i + 1) = parse(x, t, i + 1)
           /\ InBuffer(parse(x, t, i + 1).parser, i + 1)
<1> DEFINE a == [AllOK EXCEPT !["headers_complete"] = on_header_complete(x.request)]
<1>1. PICK n \in Nat \ {0} : n = i + 1
  OBVIOUS
<1>2. n \in 1..Len(t) /\ data[n] = t[n] /\ ~(n > Len(t)) /\ ~(n > Len(data))
      /\ SameStart(data, t, n)
  BY <1>1 DEF StartsWith, SameStart
<1> DEFINE q == step(x.parser, t[n], a)
           r == [q EXCEPT !.out = <<>>]
           y == [x EXCEPT !.parser = r]
<1>3. CASE Failed(x.parser) \/ x.parser.exited
  <2>1. parse(x, data, n) = x /\ parse(x, t, n) = x
    BY <1>3 DEF parse
  <2>2. InBuffer(x.parser, i + 1)
    <3>1. \A c \in DataCallbacks : x.parser.marks[c] <= i + 1
      BY DEF InBuffer
    <3>2. \A k \in DOMAIN x.parser.out : x.parser.out[k].n <= (i + 1) + x.parser.out[k].extra
      BY DEF Readings, Parsers
    <3> QED BY <3>1, <3>2 DEF InBuffer
  <2> QED BY <1>1, <2>1, <2>2
<1>4. CASE ~(Failed(x.parser) \/ x.parser.exited)
  <2>1. /\ parse(x, data, n) = deliver_all(y, q.out, data, n)
        /\ parse(x, t, n) = deliver_all(y, q.out, t, n)
    BY <1>2, <1>4 DEF parse
  <2>2. x.parser.state \in States
    BY DEF Readings, Parsers
  <2> HIDE DEF a
  <2>3. /\ q.out \in Seq(Event) /\ \A k \in DOMAIN q.out : q.out[k].n <= i + q.out[k].extra
        /\ InBuffer(r, i + 1)
    BY <2>2, StepWithin
  <2> HIDE DEF q
  <2>4. y \in Readings(V, {r})
    <3> HIDE DEF r
    <3> QED BY DEF Readings
  <2> HIDE DEF r, y
  <2>5. n - 1 = i /\ \A j \in Int : t[j] \in V
    BY <1>1
  <2>6. deliver_all(y, q.out, data, n) = deliver_all(y, q.out, t, n)
    <3> DEFINE out == q.out
    <3>1. out \in Seq(Event) /\ \A k \in DOMAIN out : Reaches(out[k], n)
      BY <2>3, <2>5 DEF Reaches
    <3> HIDE DEF out
    <3>2. deliver_all(y, out, data, n) = deliver_all(y, out, t, n)
      BY <1>2, <2>4, <3>1, DeliverAllSame
    <3> QED BY <3>2 DEF out
  <2>7. deliver_all(y, q.out, t, n) \in Readings(V, {r})
    BY <2>3, <2>4, <2>5, DeliverAll
  <2>8. deliver_all(y, q.out, t, n).parser = r
    BY <2>7 DEF Readings
  <2> QED BY <1>1, <2>1, <2>3, <2>6, <2>8
<1> QED BY <1>3, <1>4

\* A callback keeps the first call, and only a callback that seems to fail ends the read.
Spoils(x) == \A l \in x.left : ~l.ok

Follows(z, x) ==
    /\ Spoils(x) => Spoils(z)
    /\ x.calls # <<>> => z.calls # <<>> /\ z.calls[1] = x.calls[1]

LEMMA DeliverFollows ==
    ASSUME NEW V, NEW P, NEW x \in Readings(V, P), NEW e \in Event, NEW data, NEW i
    PROVE  Follows(deliver(x, e, data, i), x)
<1> DEFINE end == i - 1 + e.extra
           text == SubSeq(data, end - e.n + 1, end)
           y == CASE e.cb = "url" ->
                       [x EXCEPT !.request = on_url(@, x.parser.method, text)]
                  [] e.cb = "header_field" -> [x EXCEPT !.field = text]
                  [] e.cb = "header_value" ->
                       [x EXCEPT !.request = on_header_value(@, x.field, text)]
                  [] e.cb = "body" -> [x EXCEPT !.request = on_body(@, text)]
                  [] e.cb = "message_complete" ->
                       [x EXCEPT !.calls = Append(@, on_complete(x.request, i))]
                  [] OTHER -> x
           r == Result(y, FALSE)
           z == [y EXCEPT !.left = @ \cup {r}]
<1>1. deliver(x, e, data, i) \in {y, z}
  BY DEF deliver, text
<1>2. r.ok = FALSE
  BY DEF Result
<1>3. /\ DOMAIN y = {"parser", "request", "field", "calls", "left"} /\ y.left = x.left
      /\ y.calls = x.calls \/ \E call : y.calls = Append(x.calls, call)
  <2> HIDE DEF text
  <2>1. DOMAIN x = {"parser", "request", "field", "calls", "left"}
    BY DEF Readings
  <2> QED BY <2>1
<1> HIDE DEF y, r
<1>4. z.left = y.left \cup {r} /\ z.calls = y.calls
  BY <1>3
<1> HIDE DEF z
<1>5. x.calls # <<>> => y.calls # <<>> /\ y.calls[1] = x.calls[1]
  <2>1. x.calls \in Seq(AppCalls(V))
    BY DEF Readings
  <2> SUFFICES ASSUME x.calls # <<>>, NEW call, y.calls = Append(x.calls, call)
               PROVE  y.calls # <<>> /\ y.calls[1] = x.calls[1]
    BY <1>3
  <2> DEFINE cs == x.calls
             n == Len(cs)
  <2>2. n \in Nat /\ n # 0 /\ DOMAIN cs = 1..n
    BY <2>1
  <2> HIDE DEF n
  <2>3. y.calls = [k \in 1..(n + 1) |-> IF k = n + 1 THEN call ELSE cs[k]]
    BY DEF Append, n
  <2> HIDE DEF cs
  <2>4. 1 \in 1..(n + 1) /\ 1 # n + 1
    BY <2>2
  <2>5. y.calls[1] = cs[1] /\ DOMAIN y.calls # {}
    BY <2>3, <2>4
  <2> QED BY <2>5 DEF cs
<1> QED BY <1>1, <1>2, <1>3, <1>4, <1>5 DEF Follows, Spoils

LEMMA DeliverAllFollows ==
    ASSUME NEW V, NEW P, NEW x \in Readings(V, P), NEW out \in Seq(Event),
           NEW data, \A j \in Int : data[j] \in V, NEW i \in Nat
    PROVE  Follows(deliver_all(x, out, data, i), x)
<1> DEFINE n == Len(out)
<1>1. n \in Nat /\ \A k \in 1..n : out[k] \in Event
  OBVIOUS
<1>2. PICK f \in [0..Len(out) -> Readings(V, P)] :
        IsRun(f, x, out, data, i) /\ deliver_all(x, out, data, i) = f[Len(out)]
  BY DeliverSeries DEF Runs
<1> DEFINE U == {k \in Nat : k <= n => Follows(f[k], x)}
<1>3. 0 \in U
  BY <1>2 DEF IsRun, Follows
<1>4. ASSUME NEW k \in Nat, k \in U PROVE k + 1 \in U
  <2>1. ASSUME k + 1 <= n PROVE Follows(f[k + 1], x)
    <3>1. k + 1 \in 1..n /\ (k + 1) - 1 = k /\ k \in 0..Len(out) /\ Follows(f[k], x)
      BY <1>1, <1>4, <2>1
    <3>2. f[k + 1] = deliver(f[k], out[k + 1], data, i) /\ f[k] \in Readings(V, P)
          /\ out[k + 1] \in Event
      BY <1>1, <1>2, <3>1 DEF IsRun
    <3>3. Follows(f[k + 1], f[k])
      BY <3>2, DeliverFollows
    <3> QED BY <3>1, <3>3 DEF Follows
  <2> HIDE DEF n
  <2> QED BY <2>1
<1> HIDE DEF U
<1>5. n \in U
  BY <1>1, <1>3, <1>4, Induction
<1> QED BY <1>1, <1>2, <1>5 DEF U

LEMMA ParseFollows ==
    ASSUME NEW V, NEW x \in Readings(V, Parsers), NEW data, \A j \in Int : data[j] \in V,
           Len(data) \in Nat, NEW i \in 1..Len(data)
    PROVE  Follows(parse(x, data, i), x)
<1> DEFINE a == [AllOK EXCEPT !["headers_complete"] = on_header_complete(x.request)]
           q == step(x.parser, data[i], a)
           r == [q EXCEPT !.out = <<>>]
           y == [x EXCEPT !.parser = r]
<1>1. CASE Failed(x.parser) \/ x.parser.exited
  <2>1. parse(x, data, i) = x
    BY <1>1 DEF parse
  <2> QED BY <2>1 DEF Follows
<1>2. CASE ~(Failed(x.parser) \/ x.parser.exited)
  <2>1. i \in Nat /\ ~(i > Len(data))
    OBVIOUS
  <2>2. parse(x, data, i) = deliver_all(y, q.out, data, i)
    BY <1>2, <2>1 DEF parse
  <2>3. q.out \in Seq(Event)
    <3>1. x.parser \in Parsers
      BY DEF Readings
    <3>2. Ready(x.parser)
      BY <1>2, <3>1, ParserReady
    <3> HIDE DEF a
    <3>3. Done(q)
      BY <3>2, StepDone
    <3> QED BY <3>3 DEF Done, Good, Typed
  <2> HIDE DEF q, a
  <2>4. y \in Readings(V, {r}) /\ y.calls = x.calls /\ y.left = x.left
    <3> HIDE DEF r
    <3> QED BY DEF Readings
  <2> HIDE DEF r, y
  <2>5. Follows(deliver_all(y, q.out, data, i), y)
    BY <2>1, <2>3, <2>4, DeliverAllFollows
  <2> QED BY <2>2, <2>4, <2>5 DEF Follows, Spoils
<1> QED BY <1>1, <1>2

\* The end of a read adds no call.
LEMMA LastFollows ==
    ASSUME NEW V, NEW x \in Readings(V, Parsers), NEW data, Len(data) \in Nat,
           \A j \in Int : data[j] \in V
    PROVE  LET z == parse(x, data, Len(data) + 1)
           IN  /\ z.calls = x.calls /\ (Spoils(x) => Spoils(z))
               /\ \A l \in z.left : l \in x.left \/ l.calls = x.calls
<1> DEFINE n == Len(data) + 1
           a == [AllOK EXCEPT !["headers_complete"] = on_header_complete(x.request)]
           q == flush(x.parser, a)
           r == [q EXCEPT !.out = <<>>]
           y == [x EXCEPT !.parser = r]
           z == parse(x, data, n)
<1>1. n \in Nat /\ n > Len(data)
  OBVIOUS
<1>2. CASE Failed(x.parser) \/ x.parser.exited
  BY <1>2 DEF parse
<1>3. CASE ~(Failed(x.parser) \/ x.parser.exited)
  <2>1. z = deliver_all(y, q.out, data, n)
    BY <1>1, <1>3 DEF parse
  <2>2. x.parser \in Parsers
    BY DEF Readings
  <2>3. Ready(x.parser)
    BY <1>3, <2>2, ParserReady
  <2>4. PICK c \in DataCallbacks : IsData(q, x.parser, c, 0, a)
    BY <2>3, ReadyTyped, FlushEffect
  <2>5. Typed(q) /\ q.out \in Seq(Event)
    BY <2>4 DEF IsData, Typed
  <2>6. x.parser.out = <<>> /\ c # "message_complete"
    BY <2>3, ReadyTyped DEF DataCallbacks
  <2> HIDE DEF q, n
  <2>7. NoCalls(q.out)
    <3> DEFINE e == [cb |-> c, n |-> x.parser.marks[c] + 0, extra |-> 0]
    <3>1. e.cb = c
      OBVIOUS
    <3>2. q.out = <<>> \/ q.out = Append(<<>>, e)
      BY <2>4, <2>6 DEF IsData
    <3> HIDE DEF e
    <3>3. DOMAIN Append(<<>>, e) = {1} /\ Append(<<>>, e)[1] = e /\ DOMAIN <<>> = {}
      OBVIOUS
    <3> QED BY <2>6, <3>1, <3>2, <3>3 DEF NoCalls
  <2> HIDE DEF r
  <2>8. y \in Readings(V, {r}) /\ y.calls = x.calls /\ y.left = x.left
    BY DEF Readings
  <2> HIDE DEF y, z
  <2>9. Stays(z, y)
    BY <1>1, <2>1, <2>5, <2>7, <2>8, DeliverKeeps
  <2>10. Follows(z, y)
    BY <1>1, <2>1, <2>5, <2>8, DeliverAllFollows
  <2> QED BY <2>8, <2>9, <2>10 DEF Stays, Follows, Spoils, z, n
<1> QED BY <1>2, <1>3

\* A read that starts with t makes first the call that t makes when it is read alone.
LEMMA ReadAlone ==
    ASSUME NEW V, NEW request \in Requests(V), NEW data, NEW t, StartsWith(data, t),
           \A j \in Int : data[j] \in V /\ t[j] \in V
    PROVE  LET z == sn_http_parser_execute(request, data)
               y == sn_http_parser_execute(request, t)
           IN  /\ Spoils(z) /\ Spoils(y)
               /\ y.calls # <<>> => z.calls # <<>> /\ z.calls[1] = y.calls[1]
<1> DEFINE n == Len(data)
           m == Len(t)
           A == Readings(V, Parsers)
           z == sn_http_parser_execute(request, data)
           y == sn_http_parser_execute(request, t)
<1>1. n \in Nat /\ m \in Nat /\ m <= n
  BY DEF StartsWith
<1>2. PICK f \in [0..n -> A] :
        /\ f[0] = NewReading(request)
        /\ \A k \in 1..n : f[k] = parse(f[k - 1], data, k)
        /\ z = parse(f[n], data, n + 1)
  BY <1>1, ReadSeries DEF ReadRuns
<1>3. PICK g \in [0..m -> A] :
        /\ g[0] = NewReading(request)
        /\ \A k \in 1..m : g[k] = parse(g[k - 1], t, k)
        /\ y = parse(g[m], t, m + 1)
  BY <1>1, ReadSeries DEF ReadRuns
<1> HIDE DEF y, z
<1>4. f[m] = g[m]
  <2> DEFINE U == {k \in Nat : k <= m => f[k] = g[k] /\ InBuffer(g[k].parser, k)}
  <2>1. 0 \in U
    <3>1. DOMAIN http_parser_init("REQUEST") = Fields
      BY DEF http_parser_init, Fields
    <3>2. InBuffer(begin(http_parser_init("REQUEST")), 0)
      BY <3>1, BeginWithin
    <3>3. NewReading(request).parser = begin(http_parser_init("REQUEST"))
      BY DEF NewReading
    <3> QED BY <1>2, <1>3, <3>2, <3>3
  <2>2. ASSUME NEW k \in Nat, k \in U PROVE k + 1 \in U
    <3>1. ASSUME k + 1 <= m PROVE f[k + 1] = g[k + 1] /\ InBuffer(g[k + 1].parser, k + 1)
      <4>1. k + 1 \in 1..m /\ k + 1 \in 1..n /\ (k + 1) - 1 = k /\ k \in 0..m
            /\ f[k] = g[k] /\ InBuffer(g[k].parser, k)
        BY <1>1, <2>2, <3>1
      <4>2. f[k + 1] = parse(g[k], data, k + 1) /\ g[k + 1] = parse(g[k], t, k + 1) /\ g[k] \in A
        BY <1>2, <1>3, <4>1
      <4>3. /\ parse(g[k], data, k + 1) = parse(g[k], t, k + 1)
            /\ InBuffer(parse(g[k], t, k + 1).parser, k + 1)
        BY <3>1, <4>1, <4>2, SymbolSame
      <4> QED BY <4>2, <4>3
    <3> HIDE DEF m
    <3> QED BY <3>1
  <2> HIDE DEF U
  <2>3. m \in U
    BY <1>1, <2>1, <2>2, Induction
  <2> QED BY <1>1, <2>3 DEF U
<1>5. \A k \in 0..n : Spoils(f[k])
  <2> DEFINE U == {k \in Nat : k <= n => Spoils(f[k])}
  <2>1. 0 \in U
    BY <1>2 DEF NewReading, Spoils
  <2>2. ASSUME NEW k \in Nat, k \in U PROVE k + 1 \in U
    <3>1. ASSUME k + 1 <= n PROVE Spoils(f[k + 1])
      <4>1. PICK l \in 1..n : l = k + 1 /\ l - 1 \in 0..n /\ Spoils(f[l - 1])
        BY <1>1, <2>2, <3>1
      <4>2. f[l] = parse(f[l - 1], data, l) /\ f[l - 1] \in A
        BY <1>2, <4>1
      <4>3. Follows(parse(f[l - 1], data, l), f[l - 1])
        BY <1>1, <4>2, ParseFollows
      <4> QED BY <4>1, <4>2, <4>3 DEF Follows
    <3> HIDE DEF n
    <3> QED BY <3>1
  <2> HIDE DEF U
  <2>3. \A k \in Nat : k \in U
    BY <2>1, <2>2, Induction
  <2> QED BY <1>1, <2>3 DEF U
<1>6. f[m].calls # <<>> => f[n].calls # <<>> /\ f[n].calls[1] = f[m].calls[1]
  <2> DEFINE Keeps(k) == f[m].calls # <<>> => f[k].calls # <<>> /\ f[k].calls[1] = f[m].calls[1]
             U == {k \in Nat : m + k <= n => Keeps(m + k)}
  <2>1. 0 \in U
    <3>1. m + 0 = m
      BY <1>1
    <3> QED BY <3>1
  <2>2. ASSUME NEW k \in Nat, k \in U PROVE k + 1 \in U
    <3>1. ASSUME m + (k + 1) <= n PROVE Keeps(m + (k + 1))
      <4>1. PICK l \in 1..n : l = m + (k + 1) /\ l - 1 = m + k /\ l - 1 \in 0..n /\ Keeps(l - 1)
        BY <1>1, <2>2, <3>1
      <4>2. f[l] = parse(f[l - 1], data, l) /\ f[l - 1] \in A
        BY <1>2, <4>1
      <4>3. Follows(parse(f[l - 1], data, l), f[l - 1])
        BY <1>1, <4>2, ParseFollows
      <4> QED BY <4>1, <4>2, <4>3 DEF Follows
    <3> HIDE DEF m, n, Keeps
    <3> QED BY <3>1
  <2> HIDE DEF U
  <2>3. n - m \in Nat /\ m + (n - m) = n
    BY <1>1
  <2>4. n - m \in U
    BY <2>1, <2>2, <2>3, Induction
  <2> HIDE DEF Keeps
  <2>5. Keeps(n)
    BY <1>1, <2>3, <2>4 DEF U
  <2> QED BY <2>5 DEF Keeps
<1>7. f[n] \in A /\ f[m] \in A /\ m \in 0..n /\ n \in 0..n
  BY <1>1
<1>8. z.calls = f[n].calls /\ Spoils(z)
  BY <1>1, <1>2, <1>5, <1>7, LastFollows
<1>9. y.calls = f[m].calls /\ Spoils(y)
  BY <1>1, <1>3, <1>4, <1>5, <1>7, LastFollows
<1> QED BY <1>6, <1>8, <1>9 DEF y, z

-----------------------------------------------------------------------------
(* A read.                                                                 *)

LEMMA LastRight ==
    ASSUME NEW V, NEW x \in Readings(V, Parsers), NEW data, Len(data) \in Nat,
           \A j \in Int : data[j] \in V, NEW R, NEW b, NEW i \in Nat, Right(x, R, b, i)
    PROVE  Right(parse(x, data, Len(data) + 1), R, b, i + 1)
<1> DEFINE z == parse(x, data, Len(data) + 1)
<1>1. z.calls = x.calls /\ \A l \in z.left : l \in x.left \/ l.calls = x.calls
  BY LastFollows
<1> HIDE DEF z
<1>2. CallsOK(R, x.calls, b, i + 1) /\ \A l \in x.left : CallsOK(R, l.calls, b, i + 1)
  BY CallsGrow DEF Right, LeftOK
<1> QED BY <1>1, <1>2 DEF Right, LeftOK, z

\* The parser is started anew.
LEMMA StartRight ==
    ASSUME NEW request, NEW R, NEW b
    PROVE  LET x == NewReading(request)
           IN  Right(x, R, b, 0) /\ Position(x, R, b, 0)
<1> DEFINE x == NewReading(request)
           p == begin(http_parser_init("REQUEST"))
<1>1. p.type = "REQUEST" /\ p.state = "s_start_req"
  <2>1. "REQUEST" \in DOMAIN Start /\ Start["REQUEST"] = "s_start_req"
    BY DEF Start
  <2> QED BY <2>1 DEF begin, http_parser_init
<1> HIDE DEF p
<1>2. x.parser = p /\ x.calls = <<>> /\ x.left = {}
  BY DEF NewReading, p
<1> HIDE DEF x
<1>3. Idle(x.parser)
  BY <1>1, <1>2 DEF Idle
<1>4. DOMAIN <<>> = {}
  OBVIOUS
<1> QED BY <1>2, <1>3, <1>4 DEF Right, LeftOK, CallsOK, Position, x

\* The calls of a read, whichever of its callbacks seems to fail.
LEMMA OnDataRight ==
    ASSUME NEW R, Written(R), NEW V, NEW request \in Requests(V), NEW data, NEW b,
           IsPart(data, R, b), \A j \in Int : data[j] \in V, NEW y \in on_data(request, data)
    PROVE  CallsOK(R, y.calls, b, Len(data) + 1)
<1> DEFINE n == Len(data)
           A == Readings(V, Parsers)
           x == sn_http_parser_execute(request, data)
<1>1. n \in Nat /\ b \in Nat
  BY DEF IsPart
<1>2. PICK f \in [0..n -> A] :
        /\ f[0] = NewReading(request)
        /\ \A k \in 1..n : f[k] = parse(f[k - 1], data, k)
        /\ x = parse(f[n], data, n + 1)
  BY <1>1, ReadSeries DEF ReadRuns
<1> HIDE DEF x
<1> DEFINE OK(k) == Right(f[k], R, b, k) /\ Position(f[k], R, b + k, k)
           U == {k \in Nat : k <= n => OK(k)}
<1>3. 0 \in U
  <2>1. b + 0 = b
    BY <1>1
  <2> QED BY <1>2, <2>1, StartRight
<1>4. ASSUME NEW k \in Nat, k \in U PROVE k + 1 \in U
  <2>1. ASSUME k + 1 <= n PROVE OK(k + 1)
    <3>1. k \in 0..n /\ k + 1 \in 1..n /\ (k + 1) - 1 = k /\ OK(k)
      BY <1>1, <1>4, <2>1
    <3>2. f[k] \in A /\ f[k + 1] = parse(f[k], data, k + 1)
      BY <1>2, <3>1
    <3>3. /\ Right(parse(f[k], data, k + 1), R, b, k + 1)
          /\ Position(parse(f[k], data, k + 1), R, b + (k + 1), k + 1)
      BY <2>1, <3>1, <3>2, ReachedStep
    <3> QED BY <3>2, <3>3
  <2> HIDE DEF OK
  <2> QED BY <2>1
<1> HIDE DEF U
<1>5. n \in U
  BY <1>1, <1>3, <1>4, Induction
<1>6. Right(f[n], R, b, n) /\ f[n] \in A
  BY <1>1, <1>5 DEF U
<1>7. Right(x, R, b, n + 1)
  <2>1. Right(parse(f[n], data, Len(data) + 1), R, b, n + 1)
    BY <1>1, <1>6, LastRight
  <2> QED BY <1>2, <2>1
<1>8. y = Result(x, TRUE) \/ y \in x.left
  BY DEF on_data, x
<1> QED BY <1>7, <1>8 DEF Right, LeftOK, Result

-----------------------------------------------------------------------------
(* The calls of a connection.                                              *)

\* Every client writes requests; what the connections are called with.
AllWritten == \A c \in Conns : Written(client[c].requests)

CallsKnown == \A c \in Conns : CallsOK(client[c].requests, calls[c], 0, Len(Bytes(c)) + 1)

\* The part of a client's text that a read has.
LEMMA PartOf ==
    ASSUME NEW R, Text(R) \in Seq(STRING), NEW b \in Nat, NEW n \in Nat, b + n <= Len(Text(R))
    PROVE  /\ IsPart(SubSeq(Text(R), b + 1, b + n), R, b)
           /\ Len(SubSeq(Text(R), b + 1, b + n)) = n
<1> DEFINE T == Text(R)
           d == SubSeq(T, b + 1, b + n)
<1>1. T \in Seq(STRING) /\ Len(T) \in Nat
  OBVIOUS
<1> HIDE DEF T
<1>2. d = [k \in 1..n |-> T[b + k]]
  <2>1. \A a, u \in Int : SubSeq(T, a, u) = [k \in 1..((1 + u) - a) |-> T[k + a - 1]]
    BY DEF SubSeq
  <2>2. PICK a \in Int, u \in Int : a = b + 1 /\ u = b + n
    OBVIOUS
  <2>3. (1 + u) - a = n /\ \A k \in 1..n : k + a - 1 = b + k
    BY <2>2
  <2>4. SubSeq(T, a, u) = [k \in 1..((1 + u) - a) |-> T[k + a - 1]]
    BY <2>1
  <2> QED BY <2>2, <2>3, <2>4
<1>3. b + n <= Len(T)
  BY DEF T
<1> HIDE DEF d
<1>4. \A k \in 1..n : b + k \in 1..Len(T)
  BY <1>1, <1>3
<1>5. Len(d) = n /\ \A k \in 1..n : d[k] = T[b + k]
  BY <1>2
<1> QED BY <1>4, <1>5 DEF IsPart, T, d

\* The calls of a read, counted from the first symbol of the connection.
Shifted(cs, b) == [k \in DOMAIN cs |-> [cs[k] EXCEPT !.at = @ + b]]

LEMMA ShiftedJoins ==
    ASSUME NEW S, NEW cs \in Seq(S), NEW b
    PROVE  /\ <<>> \o Shifted(cs, b) = Shifted(cs, b)
           /\ DOMAIN Shifted(cs, b) = DOMAIN cs
<1> DEFINE m == Len(cs)
           f(k) == [cs[k] EXCEPT !.at = @ + b]
           more == Shifted(cs, b)
<1>1. m \in Nat /\ DOMAIN cs = 1..m
  OBVIOUS
<1> HIDE DEF f
<1>2. more = [k \in 1..m |-> f(k)]
  BY <1>1 DEF f, Shifted
<1> HIDE DEF m, more
<1>3. more \in Seq({f(k) : k \in 1..m}) /\ DOMAIN more = 1..m
  BY <1>1, <1>2
<1>4. <<>> \o more = more
  BY <1>3
<1> QED BY <1>1, <1>3, <1>4 DEF more

LEMMA CallsMove ==
    ASSUME NEW R, NEW b \in Nat, NEW n \in Nat, NEW N \in Nat, b + n <= N,
           NEW S, NEW cs \in Seq(S), CallsOK(R, cs, b, n + 1), \A s \in S : s.at \in Nat /\ "at" \in DOMAIN s
    PROVE  CallsOK(R, Shifted(cs, b), 0, N + 1)
<1> DEFINE m == Len(cs)
           t == Shifted(cs, b)
<1>1. m \in Nat /\ DOMAIN cs = 1..m /\ \A k \in 1..m : cs[k] \in S
  OBVIOUS
<1> HIDE DEF m
<1>2. ASSUME NEW k \in 1..m
      PROVE  /\ t[k].at = cs[k].at + b /\ cs[k].at \in 1..(n + 1) /\ t[k].at \in 1..(N + 1)
             /\ CallOK(R, t[k], 0)
  <2> DEFINE v == cs[k]
             w == [v EXCEPT !.at = @ + b]
  <2>1. v.at \in 1..(n + 1) /\ CallOK(R, v, b) /\ "at" \in DOMAIN v
    BY <1>1 DEF CallsOK
  <2>2. t[k] = w
    BY <1>1 DEF Shifted
  <2> HIDE DEF v
  <2>3. w.at = v.at + b /\ w.url = v.url /\ w.to = v.to
    BY <2>1
  <2> HIDE DEF w
  <2>4. w.at \in 1..(N + 1) /\ w.at + 0 = v.at + b
    BY <2>1, <2>3
  <2>5. CallOK(R, w, 0)
    BY <2>1, <2>3, <2>4 DEF CallOK
  <2> HIDE DEF t
  <2> QED BY <2>1, <2>2, <2>3, <2>4, <2>5 DEF v
<1>3. DOMAIN t = 1..m
  BY <1>1 DEF Shifted
<1> HIDE DEF t
<1>4. ASSUME NEW k \in 1..m, k > 1 PROVE t[k - 1].at < t[k].at
  <2>1. k - 1 \in 1..m
    BY <1>1, <1>4
  <2>2. cs[k - 1].at < cs[k].at
    BY <1>1, <1>4 DEF CallsOK
  <2>3. t[k - 1].at = cs[k - 1].at + b /\ t[k].at = cs[k].at + b
    BY <1>2, <2>1
  <2>4. cs[k - 1].at \in Nat /\ cs[k].at \in Nat
    BY <1>2, <2>1
  <2> QED BY <2>2, <2>3, <2>4
<1> QED BY <1>2, <1>3, <1>4 DEF CallsOK, t

LEMMA ReadCalls ==
    ASSUME IInv, AllWritten, NEW c \in Conns, OnReadData(c)
    PROVE  /\ CallsOK(client[c].requests, calls'[c], 0, Len(Bytes(c)) + 1)
           /\ \A d \in Conns \ {c} : calls'[d] = calls[d]
<1> DEFINE R == client[c].requests
           b == client[c].read
<1>1. Running(c)
  <2>1. IsOpen(c)
    BY DEF OnReadData
  <2> QED BY <2>1, ReadIsRunning DEF IInv
<1>2. PICK n \in 1..(Len(Bytes(c)) - client[c].read) :
        \E x \in Outcomes(c, SubSeq(Bytes(c), client[c].read + 1, client[c].read + n)) :
           calls' = [calls EXCEPT ![c] = @ \o Shifted(x.calls, client[c].read)]
  BY DEF OnReadData, Shifted
<1> DEFINE data == SubSeq(Bytes(c), b + 1, b + n)
<1>3. PICK x \in Outcomes(c, data) :
         calls' = [calls EXCEPT ![c] = @ \o Shifted(x.calls, b)]
  BY <1>2
<1> DEFINE more == Shifted(x.calls, b)
<1>4. ids[c] \in DOMAIN entry /\ x \in on_data(entry[ids[c]].request, data) /\ calls[c] = <<>>
  BY <1>1 DEF Running, Outcomes
<1>5. /\ Written(R) /\ Text(R) = Bytes(c) /\ Bytes(c) \in Seq(STRING)
      /\ Len(Bytes(c)) \in Nat /\ b \in Nat /\ n \in Nat /\ b + n <= Len(Bytes(c))
  <2>1. Written(R) /\ Text(R) = Bytes(c) /\ Bytes(c) \in Seq(STRING) /\ b \in Nat
    BY DEF AllWritten, Bytes, IInv, ClientsOK, Clients
  <2>2. Len(Bytes(c)) \in Nat
    BY <2>1
  <2> HIDE DEF R
  <2> QED BY <2>1, <2>2
<1>6. calls'[c] = calls[c] \o more /\ \A d \in Conns \ {c} : calls'[d] = calls[d]
  BY <1>3 DEF IInv, Shape
<1> HIDE DEF R, b
<1>7. IsPart(data, R, b) /\ Len(data) = n
  <2>1. data = SubSeq(Text(R), b + 1, b + n)
    BY <1>5
  <2> HIDE DEF data
  <2>2. Text(R) \in Seq(STRING) /\ b + n <= Len(Text(R))
    BY <1>5
  <2>3. /\ IsPart(SubSeq(Text(R), b + 1, b + n), R, b)
        /\ Len(SubSeq(Text(R), b + 1, b + n)) = n
    BY <1>5, <2>2, PartOf
  <2> QED BY <2>1, <2>3
<1> HIDE DEF data
<1>8. PICK W : entry[ids[c]].request \in Requests(W)
  <2>1. PICK W : entry \in [DOMAIN entry -> Peers(W)]
    BY DEF IInv, EntriesOK
  <2> QED BY <1>4, <2>1 DEF Peers
<1> DEFINE V == W \cup {data[j] : j \in Int}
<1>9. entry[ids[c]].request \in Requests(V)
  BY <1>8, RequestsGrow
<1>10. \A j \in Int : data[j] \in V
  OBVIOUS
<1> HIDE DEF V
<1>11. CallsOK(R, x.calls, b, n + 1)
  <2>1. CallsOK(R, x.calls, b, Len(data) + 1)
    BY <1>4, <1>5, <1>7, <1>9, <1>10, OnDataRight
  <2> QED BY <1>7, <2>1
<1>12. x.calls \in Seq(AppCalls(V))
  <2>1. Len(data) \in Nat
    BY <1>5, <1>7
  <2>2. x \in Results(V)
    BY <1>4, <1>9, <1>10, <2>1, OnDataType
  <2> QED BY <2>2 DEF Results
<1>13. CallsOK(R, more, 0, Len(Bytes(c)) + 1)
  <2>1. \A s \in AppCalls(V) : s.at \in Nat /\ "at" \in DOMAIN s
    BY DEF AppCalls
  <2>2. PICK N \in Nat : N = Len(Bytes(c)) /\ b + n <= N
    BY <1>5
  <2> DEFINE cs == x.calls
             S == AppCalls(V)
  <2>3. cs \in Seq(S) /\ CallsOK(R, cs, b, n + 1) /\ \A s \in S : s.at \in Nat /\ "at" \in DOMAIN s
    BY <1>11, <1>12, <2>1
  <2> HIDE DEF cs, S
  <2>4. CallsOK(R, Shifted(cs, b), 0, N + 1)
    BY <1>5, <2>2, <2>3, CallsMove
  <2> QED BY <2>2, <2>4 DEF cs
<1>14. <<>> \o more = more
  BY <1>12, ShiftedJoins
<1> HIDE DEF more
<1>15. calls'[c] = more
  BY <1>4, <1>6, <1>14
<1> QED BY <1>6, <1>13, <1>15 DEF R

\* The requests of a client are what they were, and so are its calls but for a read.
LEMMA KnownInv ==
    ASSUME IInv, AllWritten, CallsKnown, [Next]_vars
    PROVE  AllWritten' /\ CallsKnown'
<1>1. CASE UNCHANGED <<client, calls>>
  BY <1>1 DEF AllWritten, CallsKnown, Bytes
<1>2. ASSUME NEW c \in Conns, OnReadData(c) PROVE AllWritten' /\ CallsKnown'
  <2>1. PICK n, w : client' = [client EXCEPT ![c].read = @ + n, ![c].whole = w]
    BY <1>2 DEF OnReadData
  <2>2. \A d \in Conns : client'[d].requests = client[d].requests
    BY <2>1 DEF IInv, ClientsOK, Clients
  <2>3. \A d \in Conns : CallsOK(client[d].requests, calls'[d], 0, Len(Bytes(d)) + 1)
    BY <1>2, ReadCalls DEF CallsKnown
  <2>4. \A d \in Conns : Bytes(d)' = Bytes(d)
    BY <2>2 DEF Bytes
  <2> QED BY <2>2, <2>3, <2>4 DEF AllWritten, CallsKnown
<1>3. ASSUME NEW c \in Conns, OnAccept(c) \/ OnReadError(c) \/ FinishClose(c)
      PROVE  UNCHANGED <<client, calls>>
  BY <1>3 DEF OnAccept, OnReadError, FinishClose
<1>4. CASE Listen \/ Close \/ Destroy \/ OnAcceptFailed
  BY <1>1, <1>4 DEF Listen, Close, Destroy, OnAcceptFailed, Unconnected
<1>5. CASE UNCHANGED vars
  BY <1>1, <1>5 DEF vars
<1> QED BY <1>1, <1>2, <1>3, <1>4, <1>5 DEF Next

\* When every client writes requests, the application is called, wherever the reads
\* cut what a client wrote and whichever callbacks seem to fail, only with the url of a
\* request of that client, by on_get for a GET and on_post for a POST once all of that
\* request was read, in the order of requests and at most once for each of them.
THEOREM CallsRight ==
    ASSUME \A s \in Scripts : \A c \in Conns : Written(s[c])
    PROVE  Spec => []CallsAreRequests
<1>1. Init => AllWritten /\ CallsKnown
  <2> SUFFICES ASSUME Init PROVE AllWritten /\ CallsKnown
    OBVIOUS
  <2>1. PICK s \in Scripts :
           client = [c \in Conns |-> [requests |-> s[c], read |-> 0, whole |-> FALSE]]
    BY DEF Init
  <2>2. \A c \in Conns : client[c].requests = s[c] /\ calls[c] = <<>>
    BY <2>1 DEF Init
  <2>3. DOMAIN <<>> = {}
    OBVIOUS
  <2> QED BY <2>2, <2>3 DEF AllWritten, CallsKnown, CallsOK
<1>2. IInv /\ AllWritten /\ CallsKnown /\ [Next]_vars => AllWritten' /\ CallsKnown'
  BY KnownInv
<1>3. AllWritten /\ CallsKnown => CallsAreRequests
  <2> SUFFICES ASSUME AllWritten, CallsKnown, NEW c \in Conns, NEW k \in DOMAIN calls[c]
               PROVE  LET call == calls[c][k]
                      IN  /\ k > 1 => calls[c][k - 1].at < call.at
                          /\ \E j \in DOMAIN client[c].requests :
                               LET r == client[c].requests[j]
                               IN  /\ call.at \in (End(c, j - 1) + 1)..End(c, j)
                                   /\ call.url = r.url
                                   /\ r.method \in {"GET", "POST"} =>
                                          call.to = Handler(r) /\ call.at = End(c, j)
    BY DEF CallsAreRequests
  <2> DEFINE R == client[c].requests
             call == calls[c][k]
  <2>1. CallsOK(R, calls[c], 0, Len(Bytes(c)) + 1)
    BY DEF CallsKnown
  <2>2. call.at \in Nat /\ CallOK(R, call, 0) /\ (k > 1 => calls[c][k - 1].at < call.at)
    BY <2>1 DEF CallsOK
  <2>3. call.at + 0 = call.at
    BY <2>2
  <2>4. \A j : End(c, j) = Ending(R, j)
    BY DEF End, Ending
  <2> HIDE DEF R, call
  <2>5. PICK j \in DOMAIN R :
        /\ call.at \in (Ending(R, j - 1) + 1)..Ending(R, j)
        /\ call.url = R[j].url
        /\ R[j].method \in {"GET", "POST"} => call.to = Handler(R[j]) /\ call.at = Ending(R, j)
    BY <2>2, <2>3 DEF CallOK
  <2> QED BY <2>2, <2>4, <2>5 DEF R, call
<1> QED BY <1>1, <1>2, <1>3, Invariance, PTL DEF Spec

-----------------------------------------------------------------------------
(* A request that is handled when it is read alone.                        *)

\* When it is read alone, the request r is handled as it was written.
ServedAlone(r) == \A y \in on_data(NewRequest, r.text) : y.ok => Serves(y.calls, r)

LEMMA WholeServes ==
    ASSUME NEW r, ServedAlone(r), NEW data, StartsWith(data, r.text),
           NEW y \in on_data(NewRequest, data), y.ok
    PROVE  Serves(y.calls, r)
<1> DEFINE t == r.text
           V == {data[j] : j \in Int} \cup {t[j] : j \in Int}
           z == sn_http_parser_execute(NewRequest, data)
           x == sn_http_parser_execute(NewRequest, t)
<1>1. \A j \in Int : data[j] \in V /\ t[j] \in V
  OBVIOUS
<1>2. /\ Spoils(z) /\ Spoils(x)
      /\ x.calls # <<>> => z.calls # <<>> /\ z.calls[1] = x.calls[1]
  <2> HIDE DEF V
  <2>1. NewRequest \in Requests(V) /\ StartsWith(data, t)
    BY NewRequestType
  <2> HIDE DEF t
  <2> QED BY <1>1, <2>1, ReadAlone
<1>3. Result(x, TRUE) \in on_data(NewRequest, t) /\ (y = Result(z, TRUE) \/ y \in z.left)
  BY DEF on_data
<1> HIDE DEF x, z, t
<1>4. y.calls = z.calls
  BY <1>2, <1>3 DEF Spoils, Result
<1>5. Serves(x.calls, r)
  <2> DEFINE w == Result(x, TRUE)
  <2>1. w.ok /\ w.calls = x.calls
    BY DEF Result
  <2> HIDE DEF w
  <2>2. w \in on_data(NewRequest, r.text)
    BY <1>3 DEF w, t
  <2> QED BY <2>1, <2>2 DEF ServedAlone
<1> QED BY <1>2, <1>4, <1>5 DEF Serves

\* A read of the first n symbols of R has the whole of the first request.
LEMMA FirstWhole ==
    ASSUME NEW R, Written(R), NEW n \in Nat \ {0}, n <= Len(Text(R)), n >= Ending(R, 1)
    PROVE  1 \in DOMAIN R /\ StartsWith(SubSeq(Text(R), 1, n), R[1].text)
<1> DEFINE T == Text(R)
           d == SubSeq(T, 1, n)
<1>1. Layout(R)
  BY WrittenLayout
<1>2. R \in Seq(Range(R)) /\ DOMAIN R = 1..Len(R) /\ Len(R) \in Nat
  <2>1. R \in Seq(Range(R))
    BY DEF Written
  <2> QED BY <2>1
<1>3. T \in Seq(STRING) /\ Len(T) \in Nat
  BY <1>1 DEF Layout
<1>4. 1 \in 1..Len(R)
  <2>1. 1 \in 1..Len(Text(R))
    BY <1>3
  <2>2. \E j \in 1..Len(R) : TRUE
    BY <1>1, <2>1 DEF Layout
  <2> QED BY <1>2, <2>2
<1>5. /\ Ending(R, 1) = Len(R[1].text) /\ Len(R[1].text) \in Nat
      /\ \A o \in 1..Len(R[1].text) : T[o] = R[1].text[o]
  <2>1. /\ Ending(R, 1 - 1) \in Nat /\ Ending(R, 1) \in Nat
        /\ Ending(R, 1) = Ending(R, 1 - 1) + Len(R[1].text)
        /\ \A o \in 1..Len(R[1].text) : T[Ending(R, 1 - 1) + o] = R[1].text[o]
    BY <1>1, <1>4 DEF Layout
  <2>2. Ending(R, 0) = 0
    BY <1>1 DEF Layout
  <2>3. R[1].text \in Seq(STRING)
    BY <1>2, <1>4 DEF Written, Request
  <2>4. Len(R[1].text) \in Nat
    BY <2>3
  <2> QED BY <2>1, <2>2, <2>4
<1>6. Len(d) = n /\ \A k \in 1..n : d[k] = T[k]
  <2>1. d = [k \in 1..n |-> T[k]]
    <3>1. \A a, u \in Int : SubSeq(T, a, u) = [k \in 1..((1 + u) - a) |-> T[k + a - 1]]
      BY DEF SubSeq
    <3>2. (1 + n) - 1 = n /\ \A k \in 1..n : k + 1 - 1 = k
      OBVIOUS
    <3> HIDE DEF T
    <3> QED BY <3>1, <3>2
  <2> HIDE DEF d
  <2> QED BY <2>1
<1> HIDE DEF d, T
<1>7. StartsWith(d, R[1].text)
  BY <1>5, <1>6 DEF StartsWith, SameStart
<1> QED BY <1>2, <1>4, <1>7 DEF d, T

-----------------------------------------------------------------------------
(* A request that comes whole in the first read.                           *)

\* A connection that was not read has the HttpRequest that its constructor made.
Unread == \A i \in DOMAIN entry : client[entry[i].link].read = 0 => entry[i].request = NewRequest

\* They are requests, and the first, when it is a GET or a POST, is handled when it is
\* read alone.
FirstServed(R) ==
    Written(R) /\ (R # <<>> /\ R[1].method \in {"GET", "POST"} => ServedAlone(R[1]))

FirstsServed == \A c \in Conns : FirstServed(client[c].requests)

LEMMA WholeRead ==
    ASSUME IInv, Unread, FirstsServed, WholeReadServed, NEW c \in Conns, OnReadData(c)
    PROVE  Unread' /\ FirstsServed' /\ WholeReadServed'
<1> DEFINE R == client[c].requests
           b == client[c].read
<1>1. Running(c)
  <2>1. IsOpen(c)
    BY DEF OnReadData
  <2> QED BY <2>1, ReadIsRunning DEF IInv
<1>2. PICK n \in 1..(Len(Bytes(c)) - client[c].read) :
        /\ client' = [client EXCEPT ![c].read = @ + n,
                   ![c].whole = @ \/ (client[c].read = 0 /\ n >= End(c, 1))]
        /\ \E x \in Outcomes(c, SubSeq(Bytes(c), client[c].read + 1, client[c].read + n)) :
             /\ entry' = [entry EXCEPT ![ids[c]].request = x.request]
             /\ calls' = [calls EXCEPT ![c] = @ \o Shifted(x.calls, client[c].read)]
             /\ spoiled' = IF x.ok THEN spoiled ELSE spoiled \cup {c}
  BY DEF OnReadData, Shifted
<1> DEFINE data == SubSeq(Bytes(c), b + 1, b + n)
<1>3. PICK x \in Outcomes(c, data) :
        /\ entry' = [entry EXCEPT ![ids[c]].request = x.request]
        /\ calls' = [calls EXCEPT ![c] = @ \o Shifted(x.calls, b)]
        /\ spoiled' = IF x.ok THEN spoiled ELSE spoiled \cup {c}
  BY <1>2
<1> DEFINE more == Shifted(x.calls, b)
           e == entry[ids[c]]
           w == client[c].whole \/ (b = 0 /\ n >= End(c, 1))
<1>4. ids[c] \in DOMAIN entry /\ x \in on_data(e.request, data) /\ calls[c] = <<>> /\ e.link = c
  BY <1>1 DEF Running, Outcomes
<1>5. /\ Written(R) /\ Text(R) = Bytes(c) /\ Bytes(c) \in Seq(STRING)
      /\ Len(Bytes(c)) \in Nat /\ b \in Nat /\ n \in Nat \ {0} /\ b + n <= Len(Bytes(c))
  <2>1. Written(R) /\ Text(R) = Bytes(c) /\ Bytes(c) \in Seq(STRING) /\ b \in Nat
    BY DEF FirstsServed, FirstServed, Bytes, IInv, ClientsOK, Clients
  <2>2. Len(Bytes(c)) \in Nat
    BY <2>1
  <2> HIDE DEF R
  <2> QED BY <2>1, <2>2
<1>6. /\ client'[c].requests = R /\ client'[c].read = b + n /\ client'[c].whole = w
      /\ \A d \in Conns \ {c} : client'[d] = client[d] /\ calls'[d] = calls[d]
      /\ calls'[c] = calls[c] \o more
      /\ spoiled \subseteq spoiled' /\ spoiled' \subseteq spoiled \cup {c}
  <2>1. /\ client'[c].requests = R /\ client'[c].read = b + n /\ client'[c].whole = w
        /\ \A d \in Conns \ {c} : client'[d] = client[d]
    BY <1>2 DEF IInv, ClientsOK, Clients
  <2>2. /\ \A d \in Conns \ {c} : calls'[d] = calls[d]
        /\ calls'[c] = calls[c] \o more
    BY <1>3 DEF IInv, Shape
  <2> QED BY <1>3, <2>1, <2>2
<1>7. Unread'
  <2>1. /\ DOMAIN entry' = DOMAIN entry
        /\ \A i \in DOMAIN entry : i # ids[c] => entry'[i] = entry[i]
        /\ \A i \in DOMAIN entry : entry'[i].link = entry[i].link
    BY <1>3 DEF IInv, EntriesOK, Peers
  <2>2. \A i \in DOMAIN entry : entry[i].link \in Conns /\ ids[entry[i].link] = i
    BY DEF IInv, EntriesOK, Peers
  <2>3. b + n # 0
    BY <1>5
  <2> HIDE DEF b, e
  <2>4. ASSUME NEW i \in DOMAIN entry, client'[entry[i].link].read = 0
        PROVE  entry'[i].request = NewRequest
    <3>1. entry[i].link # c
      BY <1>6, <2>3, <2>4
    <3>2. i # ids[c]
      BY <1>4, <3>1 DEF e
    <3>3. client[entry[i].link].read = 0
      BY <1>6, <2>2, <2>4, <3>1
    <3> QED BY <2>1, <3>2, <3>3 DEF Unread
  <2> QED BY <2>1, <2>4 DEF Unread
<1>8. FirstsServed'
  BY <1>6 DEF FirstsServed
<1>9. ASSUME client'[c].whole, c \notin spoiled', R[1].method \in {"GET", "POST"}
      PROVE  Serves(calls'[c], R[1])
  <2>1. ~client[c].whole
    <3>1. c \notin spoiled
      BY <1>6, <1>9
    <3> QED BY <1>4, <1>9, <3>1 DEF WholeReadServed, Serves
  <2>2. b = 0 /\ n >= End(c, 1)
    BY <1>6, <1>9, <2>1
  <2>3. e.request = NewRequest
    BY <1>4, <2>2 DEF Unread
  <2>4. x.ok
    BY <1>3, <1>9
  <2>5. 1 \in DOMAIN R /\ StartsWith(data, R[1].text)
    <3>1. End(c, 1) = Ending(R, 1)
      BY DEF End, Ending
    <3>2. b + 1 = 1 /\ b + n = n
      BY <1>5, <2>2
    <3>3. data = SubSeq(Text(R), 1, n)
      BY <1>5, <3>2
    <3>4. n <= Len(Text(R))
      BY <1>5, <3>2
    <3> HIDE DEF data, R
    <3> QED BY <1>5, <2>2, <3>1, <3>3, <3>4, FirstWhole
  <2>6. ServedAlone(R[1])
    <3>1. R # <<>>
      BY <2>5
    <3> QED BY <1>9, <3>1 DEF FirstsServed, FirstServed
  <2> HIDE DEF R, b, e, data
  <2>7. Serves(x.calls, R[1])
    BY <1>4, <2>3, <2>4, <2>5, <2>6, WholeServes
  <2>8. PICK V : x.calls \in Seq(AppCalls(V))
    <3> DEFINE V == {data[j] : j \in Int}
    <3>1. \A j \in Int : data[j] \in V
      OBVIOUS
    <3>2. Len(data) \in Nat /\ x \in on_data(NewRequest, data)
      BY <1>4, <2>3, <2>5 DEF StartsWith
    <3> HIDE DEF V
    <3>3. x \in Results(V)
      BY <3>1, <3>2, NewRequestType, OnDataType
    <3> QED BY <3>3 DEF Results
  <2>9. <<>> \o more = more /\ DOMAIN more = DOMAIN x.calls
    BY <2>8, ShiftedJoins
  <2>10. 1 \in DOMAIN x.calls
    <3>1. x.calls # <<>>
      BY <2>7 DEF Serves
    <3> QED BY <2>8, <3>1
  <2>11. more[1] = [x.calls[1] EXCEPT !.at = @ + b]
    BY <2>10 DEF Shifted
  <2>12. more # <<>>
    BY <2>9, <2>10
  <2>13. calls'[c] = more
    BY <1>4, <1>6, <2>9
  <2> HIDE DEF more
  <2>14. /\ more[1].to = x.calls[1].to /\ more[1].url = x.calls[1].url
         /\ more[1].headers = x.calls[1].headers /\ more[1].body = x.calls[1].body
    <3>1. x.calls[1] \in AppCalls(V)
      BY <2>8, <2>10
    <3> QED BY <2>11, <3>1 DEF AppCalls
  <2>15. Serves(more, R[1])
    BY <2>7, <2>12, <2>14 DEF Serves
  <2> QED BY <2>13, <2>15 DEF R
<1>10. WholeReadServed'
  <2>1. ASSUME NEW d \in Conns, client'[d].whole, d \notin spoiled',
               client'[d].requests[1].method \in {"GET", "POST"}
        PROVE  Serves(calls'[d], client'[d].requests[1])
    <3>1. CASE d = c
      BY <1>6, <1>9, <2>1, <3>1
    <3>2. CASE d # c
      BY <1>6, <2>1, <3>2 DEF WholeReadServed
    <3> QED BY <3>1, <3>2
  <2> QED BY <2>1 DEF WholeReadServed
<1> QED BY <1>7, <1>8, <1>10

\* No other step reads, or calls the application.
LEMMA WholeInv ==
    ASSUME IInv, Unread, FirstsServed, WholeReadServed, [Next]_vars
    PROVE  Unread' /\ FirstsServed' /\ WholeReadServed'
<1>1. CASE UNCHANGED <<client, calls, spoiled, entry>>
  BY <1>1 DEF Unread, FirstsServed, WholeReadServed
<1>2. ASSUME NEW c \in Conns, OnReadData(c) PROVE Unread' /\ FirstsServed' /\ WholeReadServed'
  BY <1>2, WholeRead
<1>3. ASSUME UNCHANGED <<client, calls, spoiled>>,
             \A i \in DOMAIN entry' : \/ i \in DOMAIN entry /\ entry'[i] = entry[i]
                                      \/ entry'[i].request = NewRequest
      PROVE  Unread' /\ FirstsServed' /\ WholeReadServed'
  BY <1>3 DEF Unread, FirstsServed, WholeReadServed
<1>4. ASSUME NEW c \in Conns, OnAccept(c) PROVE Unread' /\ FirstsServed' /\ WholeReadServed'
  <2>1. entry' = on_connected(entry, server.lastId, c) /\ UNCHANGED <<client, calls, spoiled>>
    BY <1>4 DEF OnAccept
  <2>2. ASSUME NEW i \in DOMAIN entry'
        PROVE  (i \in DOMAIN entry /\ entry'[i] = entry[i]) \/ entry'[i].request = NewRequest
    BY <2>1 DEF on_connected
  <2> QED BY <1>3, <2>1, <2>2
<1>5. ASSUME NEW c \in Conns, OnReadError(c) PROVE Unread' /\ FirstsServed' /\ WholeReadServed'
  <2>1. entry' = on_close(entry, ids[c]) /\ UNCHANGED <<client, calls, spoiled>>
    BY <1>5 DEF OnReadError
  <2>2. \A i \in DOMAIN entry' : i \in DOMAIN entry /\ entry'[i] = entry[i]
    BY <2>1 DEF on_close
  <2> QED BY <1>3, <2>1, <2>2
<1>6. ASSUME NEW c \in Conns, FinishClose(c) PROVE Unread' /\ FirstsServed' /\ WholeReadServed'
  BY <1>1, <1>6 DEF FinishClose
<1>7. CASE Listen \/ Close \/ Destroy \/ OnAcceptFailed
  BY <1>1, <1>7 DEF Listen, Close, Destroy, OnAcceptFailed, Unconnected
<1>8. CASE UNCHANGED vars
  BY <1>1, <1>8 DEF vars
<1> QED BY <1>2, <1>4, <1>5, <1>6, <1>7, <1>8 DEF Next

\* Clients write requests.  When the first one of a client is handled as it was written
\* if it is read alone, it is so whatever follows it in the first read, and whatever other
\* connections do: called for it is the handler of its method, with its url, its headers
\* and the last of its body.
THEOREM WholeRight ==
    ASSUME \A s \in Scripts : \A c \in Conns : FirstServed(s[c])
    PROVE  Spec => []WholeReadServed
<1>1. Init => Unread /\ FirstsServed /\ WholeReadServed
  <2> SUFFICES ASSUME Init PROVE Unread /\ FirstsServed /\ WholeReadServed
    OBVIOUS
  <2>1. PICK s \in Scripts :
           client = [c \in Conns |-> [requests |-> s[c], read |-> 0, whole |-> FALSE]]
    BY DEF Init
  <2>2. \A c \in Conns : client[c].requests = s[c] /\ ~client[c].whole
    BY <2>1
  <2>3. DOMAIN entry = {}
    BY DEF Init
  <2> QED BY <2>2, <2>3 DEF Unread, FirstsServed, WholeReadServed
<1>2. IInv /\ Unread /\ FirstsServed /\ WholeReadServed /\ [Next]_vars
         => Unread' /\ FirstsServed' /\ WholeReadServed'
  BY WholeInv
<1> QED BY <1>1, <1>2, Invariance, PTL DEF Spec
=============================================================================
