---------------------------- MODULE HttpStreamProofs ----------------------------
(***************************************************************************)
(* What two parsers make of one stream, whatever its characters, wherever  *)
(* its buffers end and whatever the callbacks answer.  The report of an    *)
(* application is a fold over the callbacks of a call, taken as the series *)
(* of its values (FoldValue of HttpParserProofs).                          *)
(***************************************************************************)
EXTENDS HttpStream, HttpParserProofs, FiniteSetTheorems

-----------------------------------------------------------------------------
(* Items.                                                                  *)

Names == Callbacks \cup {"none"}
Views == [cb : Names, n : Nat, ordered : BOOLEAN, after : [cb : Names, n : Nat]]

LEMMA AddType ==
    ASSUME NEW t \in Views, NEW e \in Event
    PROVE  Add(t, e) \in Views
<1>1. /\ e.cb \in Names /\ e.n \in Nat /\ t.cb \in Names /\ t.n \in Nat
      /\ t.ordered \in BOOLEAN
  BY DEF Event, Views, Names
<1>2. CASE e.cb = t.cb /\ e.cb \in DataCallbacks
  <2>1. t.n + e.n \in Nat
    BY <1>1
  <2>2. [t EXCEPT !.n = t.n + e.n] \in Views
    BY <2>1 DEF Views
  <2> QED BY <1>2, <2>2 DEF Add
<1>3. CASE ~(e.cb = t.cb /\ e.cb \in DataCallbacks)
  <2> DEFINE m == IF t.cb = "body" THEN t.n ELSE 0
             o == t.ordered /\ e.cb \in Follows[t.cb]
  <2>1. m \in Nat /\ o \in BOOLEAN
    BY <1>1
  <2>2. Add(t, e) = [cb |-> e.cb, n |-> e.n, ordered |-> o, after |-> [cb |-> t.cb, n |-> m]]
    BY <1>3 DEF Add
  <2> HIDE DEF m, o
  <2> QED BY <1>1, <2>1, <2>2 DEF Views
<1> QED BY <1>2, <1>3

LEMMA NothingType == Nothing \in Views
<1>1. "none" \in Names /\ 0 \in Nat /\ TRUE \in BOOLEAN
  BY DEF Names
<1> QED BY <1>1 DEF Nothing, Views

\* What is reported is the last of a series of items.
LEMMA ReportIs ==
    ASSUME NEW s \in Views, NEW out \in Seq(Event)
    PROVE  \E f \in [0..Len(out) -> Views] :
             /\ f[0] = s /\ Report(s, out) = f[Len(out)]
             /\ \A k \in 1..Len(out) : f[k] = Add(f[k - 1], out[k])
<1> DEFINE n == Len(out)
           D == SUBSET (1..n)
           F == [p \in (1..n) \X Views |-> Add(p[2], out[p[1]])]
           Is(g) == g = [S \in D |-> IF S = {} THEN s
                                     ELSE Add(g[S \ {Max(S)}], out[Max(S)])]
           h == CHOOSE g : Is(g)
<1>1. n \in Nat /\ DOMAIN out = 1..n /\ \A k \in 1..n : out[k] \in Event
  OBVIOUS
<1>2. F \in [(1..n) \X Views -> Views]
  BY <1>1, AddType
<1>3. \E g \in [D -> Views] : IsFold(g, n, s, F)
  <2> HIDE DEF n, F
  <2> QED BY <1>1, <1>2, FoldExists
<1>4. \E g : Is(g)
  <2>1. PICK g \in [D -> Views] : \A S \in D :
           g[S] = IF S = {} THEN s ELSE F[<<Max(S), g[S \ {Max(S)}]>>]
    BY <1>3 DEF IsFold
  <2>2. ASSUME NEW S \in D, S # {}
        PROVE  g[S] = Add(g[S \ {Max(S)}], out[Max(S)])
    <3>1. Max(S) \in S
      BY <1>1, <2>2, MaxOf
    <3>2. Max(S) \in 1..n /\ S \ {Max(S)} \in D
      BY <3>1
    <3>3. g[S \ {Max(S)}] \in Views
      BY <3>2
    <3>4. F[<<Max(S), g[S \ {Max(S)}]>>] = Add(g[S \ {Max(S)}], out[Max(S)])
      BY <3>2, <3>3
    <3> QED BY <2>1, <2>2, <3>4
  <2>3. Is(g)
    BY <2>1, <2>2
  <2> QED BY <2>3
<1>5. Is(h)
  BY <1>4
<1>6. Report(s, out) = h[1..n]
  BY <1>1 DEF Report, FoldLeft, MapThenFoldSet
<1> HIDE DEF h
<1>7. h[{}] = s
  BY <1>5
<1>8. \A S \in D : S # {} /\ h[S \ {Max(S)}] \in Views
                     => h[S] = F[<<Max(S), h[S \ {Max(S)}]>>]
  <2> TAKE S \in D
  <2> HAVE S # {} /\ h[S \ {Max(S)}] \in Views
  <2>1. Max(S) \in 1..n
    BY <1>1, MaxOf
  <2> QED BY <1>5, <2>1
<1>9. PICK f \in [0..n -> Views] : IsSeries(f, n, s, F) /\ h[1..n] = f[n]
  <2> HIDE DEF n, F
  <2>1. Unfolds(h, n, Views, s, F)
    BY <1>7, <1>8 DEF Unfolds
  <2>2. IsLast(h[1..n], n, Views, s, F)
    BY <1>1, <1>2, <2>1, FoldValue
  <2> QED BY <2>2 DEF IsLast
<1>10. \A k \in 1..n : f[k] = Add(f[k - 1], out[k])
  <2> TAKE k \in 1..n
  <2>1. k - 1 \in 0..n
    BY <1>1
  <2>2. f[k] = F[<<k, f[k - 1]>>] /\ f[k - 1] \in Views
    <3> HIDE DEF F
    <3> QED BY <1>9, <2>1 DEF IsSeries
  <2> QED BY <2>2
<1>11. f[0] = s /\ Report(s, out) = f[n]
  BY <1>6, <1>9 DEF IsSeries
<1> QED BY <1>10, <1>11

LEMMA ReportType ==
    ASSUME NEW s \in Views, NEW out \in Seq(Event)
    PROVE  Report(s, out) \in Views
<1>1. Len(out) \in 0..Len(out)
  OBVIOUS
<1> QED BY <1>1, ReportIs

LEMMA ReportNothing ==
    ASSUME NEW s \in Views
    PROVE  Report(s, <<>>) = s
<1> DEFINE o == <<>>
<1>1. o \in Seq(Event) /\ Len(o) = 0
  OBVIOUS
<1> HIDE DEF o
<1>2. \E f \in [0..Len(o) -> Views] :
        /\ f[0] = s /\ Report(s, o) = f[Len(o)]
        /\ \A k \in 1..Len(o) : f[k] = Add(f[k - 1], o[k])
  BY <1>1, ReportIs
<1> QED BY <1>1, <1>2 DEF o

LEMMA ReportOne ==
    ASSUME NEW s \in Views, NEW out \in Seq(Event), NEW e \in Event
    PROVE  Report(s, Append(out, e)) = Add(Report(s, out), e)
<1> DEFINE n == Len(out)
           more == Append(out, e)
<1>1. more \in Seq(Event) /\ Len(more) = n + 1 /\ n \in Nat /\ more[n + 1] = e
      /\ \A k \in 1..n : more[k] = out[k]
  OBVIOUS
<1>2. PICK f \in [0..n -> Views] :
        /\ f[0] = s /\ Report(s, out) = f[n]
        /\ \A k \in 1..n : f[k] = Add(f[k - 1], out[k])
  BY ReportIs
<1>3. PICK g \in [0..(n + 1) -> Views] :
        /\ g[0] = s /\ Report(s, more) = g[n + 1]
        /\ \A k \in 1..(n + 1) : g[k] = Add(g[k - 1], more[k])
  <2> HIDE DEF more
  <2>1. PICK g \in [0..Len(more) -> Views] :
          /\ g[0] = s /\ Report(s, more) = g[Len(more)]
          /\ \A k \in 1..Len(more) : g[k] = Add(g[k - 1], more[k])
    BY <1>1, ReportIs
  <2> QED BY <1>1, <2>1
<1> HIDE DEF more
<1> DEFINE T == {k \in Nat : k <= n => g[k] = f[k]}
<1>4. 0 \in T
  BY <1>2, <1>3
<1>5. ASSUME NEW k \in Nat, k \in T PROVE k + 1 \in T
  <2>1. ASSUME k + 1 <= n PROVE g[k + 1] = f[k + 1]
    <3>1. k + 1 \in 1..n /\ k + 1 \in 1..(n + 1) /\ (k + 1) - 1 = k /\ k <= n
      BY <1>1, <2>1
    <3>2. g[k] = f[k] /\ more[k + 1] = out[k + 1]
      BY <1>1, <1>5, <3>1
    <3>3. g[k + 1] = Add(g[k], more[k + 1]) /\ f[k + 1] = Add(f[k], out[k + 1])
      BY <1>2, <1>3, <3>1
    <3> QED BY <3>2, <3>3
  <2> QED BY <2>1
<1>6. Nat \subseteq T
  <2> HIDE DEF T
  <2> QED BY <1>4, <1>5, Induction
<1>7. g[n] = f[n]
  BY <1>1, <1>6
<1>8. g[n + 1] = Add(g[n], more[n + 1])
  <2>1. n + 1 \in 1..(n + 1) /\ (n + 1) - 1 = n
    BY <1>1
  <2> QED BY <1>3, <2>1
<1> QED BY <1>1, <1>2, <1>3, <1>7, <1>8 DEF more

-----------------------------------------------------------------------------
(* Types, and the assertions of the code.                                  *)

\* A record is known by its fields.
IsRecord(p) == p = [f \in Fields |-> p[f]]

Sound(p) == Done(p) /\ p.out = <<>> /\ IsRecord(p)

Base ==
    /\ Sound(parser) /\ Sound(whole) /\ seen \in Views /\ all \in Views /\ want \in Nat

LEMMA SilentEffect ==
    ASSUME NEW q, Typed(q)
    PROVE  /\ SameMarks(Silent(q), q) /\ Silent(q).marks = q.marks
           /\ Silent(q).exited = q.exited /\ Silent(q).out = <<>> /\ IsRecord(Silent(q))
<1>1. <<>> \in Seq(Event)
  OBVIOUS
<1>2. /\ Typed(Silent(q)) /\ Silent(q).type = q.type /\ Silent(q).state = q.state
      /\ Silent(q).header = q.header /\ Silent(q).flags = q.flags
      /\ Silent(q).content_length = q.content_length /\ Silent(q).errno = q.errno
      /\ Silent(q).marks = q.marks /\ Silent(q).exited = q.exited /\ Silent(q).out = <<>>
  BY <1>1 DEF Silent, Typed, Fields
<1>3. IsRecord(Silent(q))
  BY DEF Silent, Typed, IsRecord
<1> QED BY <1>2, <1>3 DEF SameMarks, Marked

LEMMA SilentSound ==
    ASSUME NEW q, Done(q)
    PROVE  Sound(Silent(q)) /\ Silent(q).errno = q.errno
<1>1. SameMarks(Silent(q), q) /\ Silent(q).out = <<>> /\ IsRecord(Silent(q))
  BY SilentEffect DEF Done, Good
<1>2. Done(Silent(q))
  BY <1>1, SameMarksDone
<1> QED BY <1>1, <1>2 DEF Sound, SameMarks

LEMMA SoundReady ==
    ASSUME NEW p, Sound(p), ~Failed(p)
    PROVE  Ready(p) /\ Typed(p) /\ p.errno = "OK"
BY DEF Sound, Done, Ready, Good, Failed

\* A buffer ends, and every callback is content.
LEMMA FlushOK ==
    ASSUME NEW p, Ready(p)
    PROVE  LET q == flush(p, AllOK)
           IN  Typed(q) /\ Kept(q, p) /\ q.errno = "OK" /\ NoMark(q)
<1> DEFINE q == flush(p, AllOK)
<1>1. PICK c \in DataCallbacks : OnlyMark(p, c) /\ IsData(q, p, c, 0, AllOK)
  BY ReadyTyped, FlushEffect
<1>2. AllOK[c] = 0
  BY DEF AllOK, Callbacks
<1> HIDE DEF q
<1> QED BY <1>1, <1>2 DEF IsData, Failed, q

LEMMA DigitsNat == /\ \A d \in Num : Digit[d] \in Nat
                   /\ \A d \in Hex : unhex[d] \in Nat
BY DEF Digit, unhex, Num, Hex

LEMMA DeclaredNat ==
    ASSUME want \in Nat, NEW p, NEW q, NEW ch
    PROVE  Declared(p, q, ch) \in Nat
<1>1. ASSUME ch \in Num
      PROVE  (IF p.header = "content_length" THEN 0 ELSE want) * 10 + Digit[ch] \in Nat
  <2>1. Digit[ch] \in Nat
    BY <1>1, DigitsNat
  <2> QED BY <2>1
<1>2. ASSUME ch \in Hex PROVE unhex[ch] \in Nat /\ want * 16 + unhex[ch] \in Nat
  <2>1. unhex[ch] \in Nat
    BY <1>2, DigitsNat
  <2> QED BY <2>1
<1> QED BY <1>1, <1>2 DEF Declared

LEMMA BaseInit == Init => Base
<1> SUFFICES ASSUME Init PROVE Base
  OBVIOUS
<1>1. PICK t \in Types : parser = begin(http_parser_init(t))
  BY DEF Init
<1>2. t \in DOMAIN Start
  BY <1>1, HttpStreamAssumption
<1>3. Ready(parser)
  BY <1>1, <1>2, InitReady
<1>4. IsRecord(parser)
  BY <1>1, <1>3 DEF begin, IsRecord, Ready, Good, Typed
<1>5. Sound(parser)
  BY <1>3, <1>4 DEF Ready, Sound, Done
<1> QED BY <1>5, NothingType DEF Init, Base

LEMMA BaseFeed == Base /\ Feed => Base'
<1> SUFFICES ASSUME Base, Feed PROVE Base'
  OBVIOUS
<1>1. Ready(parser) /\ Ready(whole)
  BY SoundReady DEF Base, Feed
<1>2. PICK ch, a : /\ parser' = Silent(step(parser, ch, a)) /\ whole' = Silent(step(whole, ch, a))
                   /\ seen' = Report(seen, step(parser, ch, a).out)
                   /\ all' = Report(all, step(whole, ch, a).out)
                   /\ want' = Declared(parser, step(parser, ch, a), ch)
  BY DEF Feed
<1>3. Done(step(parser, ch, a)) /\ Done(step(whole, ch, a))
  BY <1>1, StepDone
<1>4. step(parser, ch, a).out \in Seq(Event) /\ step(whole, ch, a).out \in Seq(Event)
  BY <1>3 DEF Done, Good, Typed
<1>5. Sound(parser') /\ Sound(whole')
  BY <1>2, <1>3, SilentSound
<1>6. seen' \in Views /\ all' \in Views
  BY <1>2, <1>4, ReportType DEF Base
<1>7. want' \in Nat
  BY <1>2, DeclaredNat DEF Base
<1> QED BY <1>5, <1>6, <1>7 DEF Base

LEMMA BaseSplit == Base /\ Split => Base'
<1> SUFFICES ASSUME Base, Split PROVE Base'
  OBVIOUS
<1> DEFINE p == flush(parser, AllOK)
<1>1. Ready(parser)
  BY SoundReady DEF Base, Split
<1>2. parser' = begin(p) /\ seen' = Report(seen, p.out) /\ UNCHANGED <<whole, all, want>>
  BY DEF Split
<1>3. Typed(p) /\ Kept(p, parser) /\ p.errno = "OK"
  BY <1>1, FlushOK
<1> HIDE DEF p
<1>4. Ready(parser')
  BY <1>1, <1>2, <1>3, BeginReady
<1>5. IsRecord(parser')
  BY <1>2, <1>3 DEF begin, IsRecord, Typed
<1>6. Sound(parser')
  BY <1>4, <1>5 DEF Ready, Sound, Done
<1>7. seen' \in Views
  BY <1>2, <1>3, ReportType DEF Base, Typed
<1> QED BY <1>2, <1>6, <1>7 DEF Base

LEMMA BaseEof == Base /\ Eof => Base'
<1> SUFFICES ASSUME Base, Eof PROVE Base'
  OBVIOUS
<1> DEFINE e(p) == eof(flush(p, AllOK), AllOK)
           x(p) == [Silent(p) EXCEPT !.exited = TRUE]
<1>1. Ready(parser) /\ Ready(whole)
  BY SoundReady DEF Base, Eof
<1>2. /\ parser' = x(e(parser)) /\ whole' = x(e(whole))
      /\ seen' = Report(seen, e(parser).out) /\ all' = Report(all, e(whole).out)
      /\ want' = want
  BY DEF Eof
<1>3. ASSUME NEW p, Ready(p) PROVE Done(e(p))
  <2>1. /\ Typed(flush(p, AllOK)) /\ Kept(flush(p, AllOK), p)
        /\ flush(p, AllOK).errno = "OK" /\ NoMark(flush(p, AllOK))
    BY <1>3, FlushOK
  <2> QED BY <1>3, <2>1, EofDone
<1>4. ASSUME NEW q, Done(q) PROVE Sound(x(q))
  <2> DEFINE s == Silent(q)
             r == [s EXCEPT !.exited = TRUE]
  <2>1. Sound(s)
    BY <1>4, SilentSound
  <2> HIDE DEF s
  <2>2. Typed(s)
    BY <2>1 DEF Sound, Done, Good
  <2>3. /\ Typed(r) /\ r.type = s.type /\ r.state = s.state /\ r.header = s.header
        /\ r.flags = s.flags /\ r.content_length = s.content_length /\ r.errno = s.errno
        /\ r.marks = s.marks /\ r.out = s.out
    BY <2>2 DEF Typed, Fields
  <2>4. IsRecord(r)
    BY <2>2 DEF Typed, IsRecord
  <2> HIDE DEF r
  <2>5. SameMarks(r, s)
    BY <2>3 DEF SameMarks, Marked
  <2>6. Sound(r)
    BY <2>1, <2>3, <2>5, <2>4, SameMarksDone DEF Sound
  <2> QED BY <2>6 DEF r, s
<1>5. Done(e(parser)) /\ Done(e(whole))
  BY <1>1, <1>3
<1>6. e(parser).out \in Seq(Event) /\ e(whole).out \in Seq(Event)
  BY <1>5 DEF Done, Good, Typed
<1> HIDE DEF e
<1>7. Sound(parser') /\ Sound(whole')
  BY <1>2, <1>4, <1>5
<1>8. seen' \in Views /\ all' \in Views
  BY <1>2, <1>6, ReportType DEF Base
<1> QED BY <1>2, <1>7, <1>8 DEF Base

LEMMA BaseStep == Base /\ [Next]_vars => Base'
<1>1. Base /\ UNCHANGED vars => Base'
  BY DEF Base, vars
<1> QED BY <1>1, BaseFeed, BaseSplit, BaseEof DEF Next

LEMMA BaseAlways == Spec => []Base
<1> QED BY BaseInit, BaseStep, PTL DEF Spec

LEMMA SoundState ==
    ASSUME NEW p, Sound(p)
    PROVE  p \in ParserState
<1>1. p = [type |-> p.type, status_code |-> p.status_code, state |-> p.state,
           header |-> p.header, flags |-> p.flags, method |-> p.method, index |-> p.index,
           content_length |-> p.content_length, http_major |-> p.http_major,
           http_minor |-> p.http_minor, upgrade |-> p.upgrade, errno |-> p.errno,
           marks |-> p.marks, exited |-> p.exited, out |-> p.out]
  BY DEF Sound, IsRecord, Fields
<1>2. /\ p.type \in DOMAIN Start /\ p.status_code \in 0..999 /\ p.state \in States
      /\ p.header \in HeaderStates /\ p.flags \in SUBSET Flags
      /\ p.method \in {"DELETE"} \cup DOMAIN method_strings /\ p.index \in 0..2
      /\ p.content_length \in 0..ULLONG_MAX /\ p.http_major \in Nat /\ p.http_minor \in Nat
      /\ p.upgrade \in BOOLEAN /\ p.errno \in Errors /\ p.marks \in [DataCallbacks -> Int]
      /\ p.exited \in BOOLEAN /\ p.out \in {<<>>}
  BY DEF Sound, Done, Good, Typed
<1> QED BY <1>1, <1>2 DEF ParserState

\* The fields of both parsers keep to their ranges, whatever is read: no step
\* makes a length or a code that the C types cannot hold.
THEOREM StreamTyped == Spec => []TypeOK
<1>1. Base => TypeOK
  <2> SUFFICES ASSUME Base PROVE TypeOK
    OBVIOUS
  <2>1. parser \in ParserState /\ whole \in ParserState
    BY SoundState DEF Base
  <2> QED BY <2>1 DEF Base, Views, Names, TypeOK
<1> QED BY <1>1, BaseAlways, PTL

LEMMA OneMarkSet ==
    ASSUME NEW p, OneMark(p)
    PROVE  Cardinality({c \in DataCallbacks : p.marks[c] # -1}) <= 1
<1> DEFINE S == {c \in DataCallbacks : p.marks[c] # -1}
<1>1. PICK c \in DataCallbacks : S \subseteq {c}
  BY DEF OneMark, OnlyMark, Marked
<1> HIDE DEF S
<1>2. IsFiniteSet({c}) /\ Cardinality({c}) = 1
  BY FS_Singleton
<1>3. Cardinality(S) <= Cardinality({c})
  BY <1>1, <1>2, FS_Subset
<1> QED BY <1>2, <1>3 DEF S

\* The assertions that AssertionsHold lists do not fail, on any input, in buffers of any
\* size and for any answers of the callbacks.
THEOREM NoAssertFails == Spec => []AssertionsHold
<1>1. Base => AssertionsHold
  <2> SUFFICES ASSUME Base PROVE AssertionsHold
    OBVIOUS
  <2>1. Good(parser) /\ (~Failed(parser) => Control(parser)) /\ Good(whole)
    BY DEF Base, Sound, Done
  <2>2. Cardinality({c \in DataCallbacks : whole.marks[c] # -1}) <= 1
    BY <2>1, OneMarkSet DEF Good
  <2>3. InBody /\ ~Failed(parser) => parser.content_length \in 1..(ULLONG_MAX - 1)
    BY <2>1 DEF InBody, Control, BodyLeft
  <2>4. parser.state = "s_chunk_data_almost_done" /\ ~Failed(parser) => parser.content_length = 0
    BY <2>1 DEF Control, BodyLeft
  <2> QED BY <2>1, <2>2, <2>3, <2>4
          DEF AssertionsHold, Good, InChunks, ChunkStates, SizeStates
<1> QED BY <1>1, BaseAlways, PTL

-----------------------------------------------------------------------------
(* What has been read of the current item, reported or only marked.        *)

With(t, c, n) == Add(t, [cb |-> c, n |-> n, extra |-> 0])

View(p, s) ==
    IF \E c \in DataCallbacks : Marked(p, c)
    THEN LET c == CHOOSE c \in DataCallbacks : Marked(p, c) IN With(s, c, p.marks[c])
    ELSE s

\* In the middle of a step, when some callbacks are not reported yet.
Look(p, s) == View(p, Report(s, p.out))

LEMMA WithType ==
    ASSUME NEW t \in Views, NEW c \in Callbacks, NEW n \in Nat
    PROVE  /\ With(t, c, n) \in Views /\ With(t, c, n).cb = c
           /\ With(t, c, n).ordered <=> t.ordered /\ ((c = t.cb /\ c \in DataCallbacks)
                                                      \/ c \in Follows[t.cb])
           /\ c \in DataCallbacks /\ c = t.cb => /\ With(t, c, n).n = t.n + n
                                                  /\ With(t, c, n).after = t.after
           /\ ~(c \in DataCallbacks /\ c = t.cb) =>
                /\ With(t, c, n).n = n /\ With(t, c, n).after.cb = t.cb
                /\ t.cb = "body" => With(t, c, n).after.n = t.n
<1> DEFINE e == [cb |-> c, n |-> n, extra |-> 0]
<1>1. e \in Event
  BY DEF Event
<1>2. Add(t, e) \in Views
  BY <1>1, AddType
<1>3. CASE c = t.cb /\ c \in DataCallbacks
  <2>1. Add(t, e) = [t EXCEPT !.n = @ + n]
    BY <1>3 DEF Add
  <2>2. t.ordered <=> t.ordered /\ ((c = t.cb /\ c \in DataCallbacks) \/ c \in Follows[t.cb])
    BY <1>3
  <2>3. t.cb = c /\ DOMAIN t = {"cb", "n", "ordered", "after"}
    BY <1>3 DEF Views
  <2> HIDE DEF e
  <2>4. Add(t, e).cb = t.cb /\ Add(t, e).ordered = t.ordered /\ Add(t, e).n = t.n + n
        /\ Add(t, e).after = t.after
    BY <2>1, <2>3
  <2> QED BY <1>2, <1>3, <2>2, <2>3, <2>4 DEF With, e
<1>4. CASE ~(c = t.cb /\ c \in DataCallbacks)
  <2> DEFINE m == IF t.cb = "body" THEN t.n ELSE 0
             o == t.ordered /\ c \in Follows[t.cb]
  <2>1. Add(t, e) = [cb |-> c, n |-> n, ordered |-> o, after |-> [cb |-> t.cb, n |-> m]]
    BY <1>4 DEF Add
  <2>2. o <=> t.ordered /\ ((c = t.cb /\ c \in DataCallbacks) \/ c \in Follows[t.cb])
    BY <1>4
  <2> HIDE DEF o, e
  <2>3. Add(t, e).cb = c /\ Add(t, e).n = n /\ Add(t, e).ordered = o
        /\ Add(t, e).after = [cb |-> t.cb, n |-> m]
    BY <2>1
  <2> QED BY <1>2, <1>4, <2>2, <2>3 DEF With, e
<1> QED BY <1>3, <1>4

LEMMA AddWith ==
    ASSUME NEW t, NEW c, NEW n, NEW x
    PROVE  Add(t, [cb |-> c, n |-> n, extra |-> x]) = With(t, c, n)
BY DEF Add, With

LEMMA WithTwice ==
    ASSUME NEW t \in Views, NEW c \in DataCallbacks, NEW m \in Nat, NEW n \in Nat
    PROVE  With(With(t, c, m), c, n) = With(t, c, m + n)
<1> DEFINE u == With(t, c, m)
<1>1. c \in Callbacks
  BY DEF Callbacks
<1>2. u \in Views /\ u.cb = c
  BY <1>1, WithType
<1>3. With(u, c, n) = [u EXCEPT !.n = @ + n]
  BY <1>2 DEF With, Add
<1>4. CASE c = t.cb
  <2>1. u = [t EXCEPT !.n = @ + m] /\ With(t, c, m + n) = [t EXCEPT !.n = @ + (m + n)]
    BY <1>4 DEF With, Add
  <2>2. t.n \in Nat /\ (t.n + m) + n = t.n + (m + n) /\ "n" \in DOMAIN t
    BY DEF Views
  <2>3. u.n = t.n + m
    BY <2>1, <2>2
  <2> HIDE DEF u
  <2>4. [u EXCEPT !.n = @ + n] = [t EXCEPT !.n = (t.n + m) + n]
    BY <2>1, <2>3
  <2> QED BY <1>3, <2>1, <2>2, <2>4 DEF u
<1>5. CASE c # t.cb
  <2> DEFINE o == t.ordered /\ c \in Follows[t.cb]
             f == [cb |-> t.cb, n |-> IF t.cb = "body" THEN t.n ELSE 0]
  <2>1. /\ u = [cb |-> c, n |-> m, ordered |-> o, after |-> f]
        /\ With(t, c, m + n) = [cb |-> c, n |-> m + n, ordered |-> o, after |-> f]
    BY <1>5 DEF With, Add
  <2> HIDE DEF o, f
  <2>2. [u EXCEPT !.n = @ + n] = [cb |-> c, n |-> m + n, ordered |-> o, after |-> f]
    BY <2>1
  <2> QED BY <1>3, <2>1, <2>2 DEF u
<1> QED BY <1>4, <1>5

LEMMA WithZero ==
    ASSUME NEW t \in Views, t.cb \in DataCallbacks
    PROVE  With(t, t.cb, 0) = t
<1>1. With(t, t.cb, 0) = [t EXCEPT !.n = @ + 0]
  BY DEF With, Add
<1>2. t.n + 0 = t.n
  BY DEF Views
<1>3. [t EXCEPT !.n = t.n] = t
  BY DEF Views
<1> QED BY <1>1, <1>2, <1>3

LEMMA ViewIs ==
    ASSUME NEW p, NEW s, NEW c \in DataCallbacks, OnlyMark(p, c)
    PROVE  View(p, s) = IF Marked(p, c) THEN With(s, c, p.marks[c]) ELSE s
<1>1. CASE Marked(p, c)
  <2>1. (CHOOSE d \in DataCallbacks : Marked(p, d)) = c
    BY <1>1 DEF OnlyMark
  <2> QED BY <1>1, <2>1 DEF View
<1>2. CASE ~Marked(p, c)
  BY <1>2 DEF OnlyMark, View
<1> QED BY <1>1, <1>2

LEMMA NoMarkView ==
    ASSUME NEW p, NEW s, NoMark(p)
    PROVE  View(p, s) = s
BY DEF View, NoMark

LEMMA ViewType ==
    ASSUME NEW p, Typed(p), OneMark(p), NEW s \in Views
    PROVE  View(p, s) \in Views
<1>1. PICK c \in DataCallbacks : OnlyMark(p, c)
  BY DEF OneMark
<1>2. c \in Callbacks
  BY DEF Callbacks
<1>3. CASE Marked(p, c)
  <2>1. p.marks[c] \in Nat /\ View(p, s) = With(s, c, p.marks[c])
    BY <1>1, <1>3, ViewIs DEF Marked, Typed
  <2> QED BY <1>2, <2>1, WithType
<1>4. CASE ~Marked(p, c)
  BY <1>1, <1>4, ViewIs
<1> QED BY <1>3, <1>4

\* The item as it is marked is the one that has been read.
LEMMA MarkedView ==
    ASSUME NEW p, Typed(p), NEW c \in DataCallbacks, OnlyMark(p, c), Marked(p, c), NEW s \in Views
    PROVE  View(p, s).cb = c /\ View(p, s) = With(s, c, p.marks[c])
<1>1. c \in Callbacks /\ p.marks[c] \in Nat
  BY DEF Callbacks, Marked, Typed
<1> QED BY <1>1, ViewIs, WithType

-----------------------------------------------------------------------------
(* What the macros do to it.                                               *)

LEMMA LookQuiet ==
    ASSUME NEW p, NEW q, q.marks = p.marks, q.out = p.out, NEW s
    PROVE  Look(q, s) = Look(p, s)
BY DEF Look, View, Marked

LEMMA LookMark ==
    ASSUME NEW p, Typed(p), NEW c \in DataCallbacks, OnlyMark(p, c), NEW q, IsMark(q, p, c),
           NEW s \in Views
    PROVE  Look(q, s) = With(Look(p, s), c, 0) /\ Look(q, s) \in Views
<1> DEFINE r == Report(s, p.out)
<1>1. q.out = p.out /\ Typed(q) /\ OnlyMark(q, c) /\ Marked(q, c)
  BY DEF IsMark
<1>2. r \in Views
  BY ReportType DEF Typed
<1>3. Look(q, s) = View(q, r) /\ Look(p, s) = View(p, r)
  BY <1>1 DEF Look
<1> HIDE DEF r
<1>4. View(q, r) = With(r, c, q.marks[c])
  BY <1>1, <1>2, MarkedView
<1>5. ASSUME Marked(p, c) PROVE Look(q, s) = With(Look(p, s), c, 0)
  <2>1. View(p, r) = With(r, c, p.marks[c]) /\ q.marks[c] = p.marks[c]
    BY <1>2, <1>5, MarkedView DEF IsMark, Marked
  <2>2. p.marks[c] \in Nat /\ 0 \in Nat /\ p.marks[c] + 0 = p.marks[c]
    BY <1>5 DEF Marked, Typed
  <2> QED BY <1>2, <1>3, <1>4, <2>1, <2>2, WithTwice
<1>6. ASSUME ~Marked(p, c) PROVE Look(q, s) = With(Look(p, s), c, 0)
  <2>1. View(p, r) = r /\ q.marks[c] = 0
    BY <1>6, ViewIs DEF IsMark, Marked
  <2> QED BY <1>3, <1>4, <2>1
<1>7. Look(q, s) \in Views
  <2>1. OneMark(q)
    BY <1>1 DEF OneMark
  <2> QED BY <1>1, <1>2, <1>3, <2>1, ViewType
<1> QED BY <1>5, <1>6, <1>7

LEMMA LookCall ==
    ASSUME NEW p, Typed(p), NoMark(p), NEW c \in Callbacks, NEW q, NEW a,
           IsCall(q, p, c, 0, 0, a), NEW s \in Views
    PROVE  /\ Look(p, s) = Report(s, p.out) /\ Look(q, s) = Report(s, q.out)
           /\ Look(q, s) = With(Look(p, s), c, 0) /\ Look(q, s) \in Views /\ NoMark(q)
<1>1. NoMark(q) /\ q.out = Append(p.out, [cb |-> c, n |-> 0, extra |-> 0])
  BY DEF IsCall, NoMark, Marked
<1>2. [cb |-> c, n |-> 0, extra |-> 0] \in Event
  BY DEF Event
<1>3. Report(s, q.out) = With(Report(s, p.out), c, 0)
  BY <1>1, <1>2, ReportOne DEF Typed, With
<1>4. Report(s, q.out) \in Views
  BY ReportType DEF IsCall, Typed
<1> QED BY <1>1, <1>3, <1>4, NoMarkView DEF Look

LEMMA LookData ==
    ASSUME NEW p, Typed(p), NEW c \in DataCallbacks, OnlyMark(p, c), NEW q, NEW x \in {0, 1},
           NEW a, IsData(q, p, c, x, a), NEW s \in Views
    PROVE  /\ Report(s, q.out) = IF Marked(p, c) THEN With(Look(p, s), c, x) ELSE Look(p, s)
           /\ ~Failed(q) => Look(q, s) = Report(s, q.out)
           /\ Report(s, q.out) \in Views /\ Look(p, s) \in Views
           /\ Marked(p, c) => Look(p, s).cb = c
<1> DEFINE r == Report(s, p.out)
<1>1. r \in Views
  BY ReportType DEF Typed
<1>2. Look(p, s) = View(p, r)
  BY DEF Look
<1>3. Report(s, q.out) \in Views
  BY ReportType DEF IsData, Typed
<1>4. ~Failed(q) => Look(q, s) = Report(s, q.out)
  BY NoMarkView DEF IsData, Look
<1>5. CASE Marked(p, c)
  <2>1. p.marks[c] \in Nat /\ c \in Callbacks /\ x \in Nat /\ p.marks[c] + x \in Nat
    BY <1>5 DEF Marked, Typed, Callbacks
  <2>2. [cb |-> c, n |-> p.marks[c] + x, extra |-> x] \in Event
    BY <2>1 DEF Event
  <2>3. q.out = Append(p.out, [cb |-> c, n |-> p.marks[c] + x, extra |-> x])
    BY <1>5 DEF IsData
  <2>4. Report(s, q.out) = With(r, c, p.marks[c] + x)
    BY <2>2, <2>3, ReportOne, AddWith DEF Typed
  <2> HIDE DEF r
  <2>5. View(p, r) = With(r, c, p.marks[c]) /\ View(p, r).cb = c
    BY <1>1, <1>5, MarkedView
  <2>6. With(View(p, r), c, x) = With(r, c, p.marks[c] + x)
    BY <1>1, <2>1, <2>5, WithTwice
  <2>7. OneMark(p)
    BY DEF OneMark
  <2> QED BY <1>1, <1>2, <1>3, <1>4, <1>5, <2>4, <2>5, <2>6, <2>7, ViewType
<1>6. CASE ~Marked(p, c)
  <2>1. View(p, r) = r /\ q.out = p.out
    BY <1>6, ViewIs DEF IsData
  <2> QED BY <1>1, <1>2, <1>3, <1>4, <1>6, <2>1
<1> QED BY <1>5, <1>6

\* What was marked is handed over: nothing more has been read.
LEMMA LookDataZero ==
    ASSUME NEW p, Typed(p), NEW c \in DataCallbacks, OnlyMark(p, c), NEW q,
           NEW a, IsData(q, p, c, 0, a), NEW s \in Views
    PROVE  Report(s, q.out) = Look(p, s) /\ (~Failed(q) => Look(q, s) = Look(p, s))
<1>1. 0 \in {0, 1}
  OBVIOUS
<1>2. /\ Report(s, q.out) = IF Marked(p, c) THEN With(Look(p, s), c, 0) ELSE Look(p, s)
      /\ ~Failed(q) => Look(q, s) = Report(s, q.out)
      /\ Look(p, s) \in Views
      /\ Marked(p, c) => Look(p, s).cb = c
  BY <1>1, LookData
<1> QED BY <1>2, WithZero

LEMMA LookMove ==
    ASSUME NEW q, Typed(q), NEW c \in DataCallbacks, OnlyMark(q, c), NEW r,
           r.marks = Moved(q.marks), r.out = q.out, NEW s \in Views
    PROVE  Look(r, s) = IF Marked(q, c) THEN With(Look(q, s), c, 1) ELSE Look(q, s)
<1> DEFINE t == Report(s, q.out)
<1>1. t \in Views
  BY ReportType DEF Typed
<1>2. \A d \in DataCallbacks : q.marks[d] \in Nat \cup {-1}
  BY DEF Typed
<1>3. \A d \in DataCallbacks : r.marks[d] = IF q.marks[d] = -1 THEN -1 ELSE q.marks[d] + 1
  BY DEF Moved
<1>4. OnlyMark(r, c) /\ (Marked(r, c) <=> Marked(q, c))
  BY <1>2, <1>3 DEF OnlyMark, Marked
<1>5. Look(r, s) = View(r, t) /\ Look(q, s) = View(q, t)
  BY DEF Look
<1> HIDE DEF t
<1>6. CASE Marked(q, c)
  <2>1. q.marks[c] \in Nat /\ r.marks[c] = q.marks[c] + 1 /\ 1 \in Nat
    BY <1>2, <1>3, <1>6 DEF Marked
  <2>2. View(r, t) = With(t, c, q.marks[c] + 1) /\ View(q, t) = With(t, c, q.marks[c])
    BY <1>4, <1>6, <2>1, ViewIs
  <2> QED BY <1>1, <1>5, <1>6, <2>1, <2>2, WithTwice
<1>7. CASE ~Marked(q, c)
  BY <1>4, <1>5, <1>7, ViewIs
<1> QED BY <1>6, <1>7

-----------------------------------------------------------------------------
(* What was heard last, and how long it is, for each state of the parser.  *)

Between == {"s_dead", "s_start_req", "s_start_res", "s_start_req_or_res"}

FirstLine == {"s_res_or_resp_H", "s_res_H", "s_res_HT", "s_res_HTT", "s_res_HTTP",
    "s_res_http_major", "s_res_http_dot", "s_res_http_minor", "s_res_http_end",
    "s_res_first_status_code", "s_res_status_code", "s_res_status_start",
    "s_req_method", "s_req_spaces_before_url"}

AfterUrl == {"s_req_http_start", "s_req_http_H", "s_req_http_HT", "s_req_http_HTT",
    "s_req_http_HTTP", "s_req_http_major", "s_req_http_dot", "s_req_http_minor",
    "s_req_http_end", "s_req_line_almost_done"}

Reason == {"s_res_status", "s_res_line_almost_done"}

LineStarts == {"s_header_field_start", "s_headers_almost_done"}

NameStates == {"s_header_field", "s_header_value_discard_ws",
    "s_header_value_discard_ws_almost_done", "s_header_value_discard_lws"}

ValueStates == {"s_header_value", "s_header_almost_done", "s_header_value_lws"}

Heads == LineStarts \cup NameStates \cup ValueStates

BeforeLine == FirstLine \cup UrlStates \cup AfterUrl \cup Reason

\* v is the last item, as far as it is read.
Heard(p, v) ==
    /\ p.state \in Between => v.cb \in {"none", "message_complete"}
    /\ p.state \in FirstLine => v.cb = "message_begin"
    /\ p.state \in UrlStates \cup AfterUrl => v.cb = "url"
    /\ p.state \in Reason => v.cb = "status"
    /\ p.state \in LineStarts => IF "TRAILING" \in p.flags
                                 THEN v.cb \in {"header_value", "chunk_header"}
                                 ELSE v.cb \in {"header_value", "url", "status"}
    /\ p.state \in NameStates => v.cb = "header_field"
    /\ p.state \in ValueStates => v.cb = "header_value"
    /\ p.state \in {"s_body_identity", "s_body_identity_eof"} =>
         v.cb \in {"headers_complete", "body"}
    /\ p.state \in SizeStates \cup {"s_chunk_size_start"} =>
         v.cb \in {"headers_complete", "chunk_complete"}
    /\ p.state = "s_chunk_data" => v.cb \in {"chunk_header", "body"}
    /\ p.state \in {"s_chunk_data_almost_done", "s_chunk_data_done"} => v.cb = "body"
    /\ "TRAILING" \in p.flags => p.state \in Heads \cup Between

Given(p) == IF p.content_length = ULLONG_MAX THEN 0 ELSE p.content_length

BodyRead(v) == IF v.cb = "body" THEN v.n ELSE 0

\* w is the length as it was written.
Length(p, v, w) ==
    /\ p.state \in BeforeLine \cup Heads /\ "TRAILING" \notin p.flags => w = Given(p)
    /\ p.state = "s_header_value" /\ p.header = "content_length_num"
         => p.content_length # ULLONG_MAX
    /\ p.state \in {"s_body_identity", "s_chunk_data"} => w = p.content_length + BodyRead(v)
    /\ p.state \in SizeStates => w = p.content_length
    /\ p.state \in {"s_chunk_data_almost_done", "s_chunk_data_done"} => v.n = w

Book(p, v, w) == Heard(p, v) /\ Length(p, v, w)

\* What BodyAsDeclared says, of the parser p and what it has reported.
Right(p, v, w) ==
    \/ v.cb = "chunk_complete" /\ p.state = "s_chunk_size_start"
    \/ v.cb = "message_complete" /\ ~Failed(p)
    =>
        IF p.state = "s_body_identity_eof" THEN p.type = "RESPONSE" /\ p.exited
        ELSE IF v.after.cb = "body" THEN v.after.n = w
        ELSE v.after.cb = "headers_complete" =>
                w = 0 \/ "SKIPBODY" \in p.flags \/ p.upgrade

\* The item when the marks have moved.
Ticked(q, v) == IF NoMark(q) THEN v ELSE With(v, v.cb, 1)

Tells(q, v, w) ==
    /\ v.ordered /\ Right(q, v, w)
    /\ ~Failed(q) /\ ~q.exited => Book(q, Ticked(q, v), w)

\* Before an operation of the parser, and after it.
Reads(p, s, w) ==
    /\ s \in Views /\ Look(p, s) \in Views /\ Look(p, s).ordered
    /\ Right(p, Look(p, s), w) /\ Book(p, Look(p, s), w)

Told(q, s, w) == Look(q, s) \in Views /\ Tells(q, Look(q, s), w)

-----------------------------------------------------------------------------
(* One lemma for each kind of states.                                      *)

LEMMA AtBetween ==
    ASSUME NEW q, NEW v, NEW w, q.state \in Between, v.cb \in {"none", "message_complete"}
    PROVE  Book(q, v, w)
BY DEF Book, Heard, Length, Between, FirstLine, AfterUrl, UrlStates, Reason, LineStarts,
   NameStates, ValueStates, SizeStates, Heads, BeforeLine

LEMMA AtFirstLine ==
    ASSUME NEW q, NEW v, NEW w, q.state \in FirstLine, v.cb = "message_begin",
           "TRAILING" \notin q.flags, w = Given(q)
    PROVE  Book(q, v, w)
BY DEF Book, Heard, Length, Between, FirstLine, AfterUrl, UrlStates, Reason, LineStarts,
   NameStates, ValueStates, SizeStates, Heads, BeforeLine

LEMMA AtUrl ==
    ASSUME NEW q, NEW v, NEW w, q.state \in UrlStates \cup AfterUrl, v.cb = "url",
           "TRAILING" \notin q.flags, w = Given(q)
    PROVE  Book(q, v, w)
BY DEF Book, Heard, Length, Between, FirstLine, AfterUrl, UrlStates, Reason, LineStarts,
   NameStates, ValueStates, SizeStates, Heads, BeforeLine

LEMMA AtReason ==
    ASSUME NEW q, NEW v, NEW w, q.state \in Reason, v.cb = "status",
           "TRAILING" \notin q.flags, w = Given(q)
    PROVE  Book(q, v, w)
BY DEF Book, Heard, Length, Between, FirstLine, AfterUrl, UrlStates, Reason, LineStarts,
   NameStates, ValueStates, SizeStates, Heads, BeforeLine

LEMMA AtLine ==
    ASSUME NEW q, NEW v, NEW w, q.state \in LineStarts,
           IF "TRAILING" \in q.flags THEN v.cb \in {"header_value", "chunk_header"}
           ELSE v.cb \in {"header_value", "url", "status"} /\ w = Given(q)
    PROVE  Book(q, v, w)
BY DEF Book, Heard, Length, Between, FirstLine, AfterUrl, UrlStates, Reason, LineStarts,
   NameStates, ValueStates, SizeStates, Heads, BeforeLine

LEMMA AtName ==
    ASSUME NEW q, NEW v, NEW w, q.state \in NameStates, v.cb = "header_field",
           "TRAILING" \notin q.flags => w = Given(q)
    PROVE  Book(q, v, w)
BY DEF Book, Heard, Length, Between, FirstLine, AfterUrl, UrlStates, Reason, LineStarts,
   NameStates, ValueStates, SizeStates, Heads, BeforeLine

LEMMA AtValue ==
    ASSUME NEW q, NEW v, NEW w, q.state \in ValueStates, v.cb = "header_value",
           "TRAILING" \notin q.flags => w = Given(q),
           q.header = "content_length_num" => q.content_length # ULLONG_MAX
    PROVE  Book(q, v, w)
BY DEF Book, Heard, Length, Between, FirstLine, AfterUrl, UrlStates, Reason, LineStarts,
   NameStates, ValueStates, SizeStates, Heads, BeforeLine

LEMMA AtBody ==
    ASSUME NEW q, NEW v, NEW w, q.state \in {"s_body_identity", "s_body_identity_eof"},
           v.cb \in {"headers_complete", "body"}, "TRAILING" \notin q.flags,
           q.state = "s_body_identity" => w = q.content_length + BodyRead(v)
    PROVE  Book(q, v, w)
BY DEF Book, Heard, Length, Between, FirstLine, AfterUrl, UrlStates, Reason, LineStarts,
   NameStates, ValueStates, SizeStates, Heads, BeforeLine

LEMMA AtSize ==
    ASSUME NEW q, NEW v, NEW w, q.state \in SizeStates \cup {"s_chunk_size_start"},
           v.cb \in {"headers_complete", "chunk_complete"}, "TRAILING" \notin q.flags,
           q.state \in SizeStates => w = q.content_length
    PROVE  Book(q, v, w)
BY DEF Book, Heard, Length, Between, FirstLine, AfterUrl, UrlStates, Reason, LineStarts,
   NameStates, ValueStates, SizeStates, Heads, BeforeLine

LEMMA AtChunk ==
    ASSUME NEW q, NEW v, NEW w, q.state = "s_chunk_data", v.cb \in {"chunk_header", "body"},
           "TRAILING" \notin q.flags, w = q.content_length + BodyRead(v)
    PROVE  Book(q, v, w)
BY DEF Book, Heard, Length, Between, FirstLine, AfterUrl, UrlStates, Reason, LineStarts,
   NameStates, ValueStates, SizeStates, Heads, BeforeLine

LEMMA AtChunkEnd ==
    ASSUME NEW q, NEW v, NEW w, q.state \in {"s_chunk_data_almost_done", "s_chunk_data_done"},
           v.cb = "body", "TRAILING" \notin q.flags, v.n = w
    PROVE  Book(q, v, w)
BY DEF Book, Heard, Length, Between, FirstLine, AfterUrl, UrlStates, Reason, LineStarts,
   NameStates, ValueStates, SizeStates, Heads, BeforeLine

\* States without a body.
Other == States \ (BodyStates \cup {"s_chunk_data_done"})

-----------------------------------------------------------------------------
(* What a callback, or none, makes of an item.                             *)

LEMMA RightElse ==
    ASSUME NEW q, NEW v, NEW w, v.cb \notin {"chunk_complete", "message_complete"}
    PROVE  Right(q, v, w)
BY DEF Right

LEMMA RightFailed ==
    ASSUME NEW q, NEW v, NEW w, Failed(q), q.state # "s_chunk_size_start"
    PROVE  Right(q, v, w)
BY DEF Right

LEMMA DataNames ==
    /\ DataCallbacks \subseteq Callbacks
    /\ "chunk_complete" \notin DataCallbacks /\ "message_complete" \notin DataCallbacks
    /\ "message_begin" \notin DataCallbacks /\ "headers_complete" \notin DataCallbacks
    /\ "chunk_header" \notin DataCallbacks
    /\ {"chunk_complete", "message_complete", "message_begin", "headers_complete",
        "chunk_header"} \subseteq Callbacks
    /\ {"url", "status", "header_field", "header_value", "body"} \subseteq DataCallbacks
BY DEF DataCallbacks, Callbacks

LEMMA TickedIs ==
    ASSUME NEW q, NEW v \in Views, ~NoMark(q), v.cb \in DataCallbacks
    PROVE  LET u == Ticked(q, v)
           IN  /\ u \in Views /\ u.cb = v.cb /\ u.ordered = v.ordered
               /\ u.n = v.n + 1 /\ u.after = v.after
<1>1. 1 \in Nat /\ v.cb \in Callbacks
  BY DataNames
<1> DEFINE u == With(v, v.cb, 1)
<1>2. /\ u \in Views /\ u.cb = v.cb /\ (u.ordered <=> v.ordered)
      /\ u.n = v.n + 1 /\ u.after = v.after
  BY <1>1, WithType
<1>3. u.ordered = v.ordered
  <2>1. u.ordered \in BOOLEAN /\ v.ordered \in BOOLEAN
    BY <1>2 DEF Views
  <2> QED BY <1>2, <2>1
<1> QED BY <1>2, <1>3 DEF Ticked

\* An item of data goes on, in a state that is not of a body.
LEMMA DataTells ==
    ASSUME NEW q, NEW v \in Views, v.cb \in DataCallbacks, v.ordered, NEW w,
           ~Failed(q) => q.state \in Other /\ Book(q, v, w)
    PROVE  Tells(q, v, w)
<1>1. Right(q, v, w)
  BY RightElse, DataNames
<1>2. ASSUME ~Failed(q) PROVE Book(q, Ticked(q, v), w)
  <2>1. CASE NoMark(q)
    BY <1>2, <2>1 DEF Ticked
  <2>2. CASE ~NoMark(q)
    <3> DEFINE u == Ticked(q, v)
    <3>1. u.cb = v.cb
      BY <2>2, TickedIs
    <3> HIDE DEF u
    <3>2. q.state \notin {"s_body_identity", "s_chunk_data", "s_chunk_data_almost_done",
                          "s_chunk_data_done"}
      BY <1>2 DEF Other, BodyStates
    <3>3. Book(q, v, w)
      BY <1>2
    <3>4. Heard(q, u)
      BY <3>1, <3>3 DEF Book, Heard
    <3>5. Length(q, u, w)
      BY <3>2, <3>3 DEF Book, Length
    <3> QED BY <3>4, <3>5 DEF Book, u
  <2> QED BY <2>1, <2>2
<1> QED BY <1>1, <1>2 DEF Tells

LEMMA PlainTells ==
    ASSUME NEW q, NoMark(q), NEW v, v.ordered, NEW w, Right(q, v, w),
           ~Failed(q) /\ ~q.exited => Book(q, v, w)
    PROVE  Tells(q, v, w)
BY DEF Tells, Ticked

LEMMA FailTold ==
    ASSUME NEW p, NEW s, NEW w, Reads(p, s, w), NEW e, e # "OK", NEW q, q = Fail(p, e), Typed(p)
    PROVE  Told(q, s, w)
<1>1. q.marks = p.marks /\ q.out = p.out /\ q.errno = e /\ q.state = p.state /\ q.type = p.type
      /\ q.flags = p.flags /\ q.upgrade = p.upgrade /\ q.exited = p.exited
  BY DEF Fail, Typed, Fields
<1>2. Look(q, s) = Look(p, s)
  BY <1>1, LookQuiet
<1>3. Right(q, Look(p, s), w)
  BY <1>1 DEF Reads, Right, Failed
<1> QED BY <1>1, <1>2, <1>3 DEF Told, Tells, Reads, Failed

\* Nothing is reported, and nothing is marked.
LEMMA QuietTold ==
    ASSUME NEW p, NEW s, NEW w, Reads(p, s, w), NoMark(p), NEW q, IsQuiet(q, p),
           NEW u, Right(q, Look(p, s), u), ~Failed(q) /\ ~q.exited => Book(q, Look(p, s), u)
    PROVE  Told(q, s, u)
<1>1. Look(q, s) = Look(p, s) /\ NoMark(q)
  BY LookQuiet DEF IsQuiet, NoMark, Marked
<1> QED BY <1>1, PlainTells DEF Told, Reads

-----------------------------------------------------------------------------
(* The states of a line in which nothing is heard.                         *)

SameHead(q, p) ==
    q.flags = p.flags /\ q.content_length = p.content_length /\ q.header = p.header

Discards == NameStates \ {"s_header_field"}

\* Steps from state to state in which nothing is heard.
Goes(t, u) ==
    \/ t \in FirstLine /\ u \in FirstLine
    \/ t \in AfterUrl /\ u \in AfterUrl \cup {"s_header_field_start"}
    \/ t \in Reason /\ u = "s_header_field_start"
    \/ t \in Discards /\ u \in Discards
    \/ t = "s_header_almost_done" /\ u = "s_header_value_lws"

LEMMA GoesBook ==
    ASSUME NEW p, NEW v, NEW w, Book(p, v, w), NEW q, SameHead(q, p), Goes(p.state, q.state)
    PROVE  Book(q, v, w)
<1>1. Given(q) = Given(p)
  BY DEF SameHead, Given
<1>2. CASE p.state \in FirstLine /\ q.state \in FirstLine
  <2>1. "TRAILING" \notin p.flags
    BY <1>2 DEF Book, Heard, FirstLine, Heads, Between, LineStarts, NameStates, ValueStates
  <2>2. v.cb = "message_begin" /\ w = Given(p)
    BY <1>2, <2>1 DEF Book, Heard, Length, BeforeLine
  <2> QED BY <1>1, <1>2, <2>1, <2>2, AtFirstLine DEF SameHead
<1>3. CASE p.state \in AfterUrl /\ q.state \in AfterUrl \cup {"s_header_field_start"}
  <2>1. "TRAILING" \notin p.flags
    BY <1>3 DEF Book, Heard, AfterUrl, Heads, Between, LineStarts, NameStates, ValueStates
  <2>2. v.cb = "url" /\ w = Given(p)
    BY <1>3, <2>1 DEF Book, Heard, Length, BeforeLine
  <2>3. CASE q.state \in AfterUrl
    BY <1>1, <2>1, <2>2, <2>3, AtUrl DEF SameHead
  <2>4. CASE q.state = "s_header_field_start"
    BY <1>1, <2>1, <2>2, <2>4, AtLine DEF SameHead, LineStarts
  <2> QED BY <1>3, <2>3, <2>4
<1>4. CASE p.state \in Reason /\ q.state = "s_header_field_start"
  <2>1. "TRAILING" \notin p.flags
    BY <1>4 DEF Book, Heard, Reason, Heads, Between, LineStarts, NameStates, ValueStates
  <2>2. v.cb = "status" /\ w = Given(p)
    BY <1>4, <2>1 DEF Book, Heard, Length, BeforeLine
  <2> QED BY <1>1, <1>4, <2>1, <2>2, AtLine DEF SameHead, LineStarts
<1>5. CASE p.state \in Discards /\ q.state \in Discards
  <2>1. v.cb = "header_field" /\ ("TRAILING" \notin p.flags => w = Given(p))
    BY <1>5 DEF Book, Heard, Length, Heads, Discards
  <2> QED BY <1>1, <1>5, <2>1, AtName DEF SameHead, Discards
<1>6. CASE p.state = "s_header_almost_done" /\ q.state = "s_header_value_lws"
  <2>1. v.cb = "header_value" /\ ("TRAILING" \notin p.flags => w = Given(p))
    BY <1>6 DEF Book, Heard, Length, Heads, ValueStates
  <2>2. Heard(q, v)
    BY <1>6, <2>1 DEF Heard, Between, FirstLine, AfterUrl, UrlStates, Reason, LineStarts,
       NameStates, ValueStates, SizeStates, Heads
  <2>3. Length(q, v, w)
    BY <1>1, <1>6, <2>1 DEF Length, SameHead, SizeStates
  <2> QED BY <2>2, <2>3 DEF Book
<1> QED BY <1>2, <1>3, <1>4, <1>5, <1>6 DEF Goes

LEMMA GoesTold ==
    ASSUME NEW p, NEW s, NEW w, Reads(p, s, w), NoMark(p), NEW q, IsQuiet(q, p),
           p.state \in FirstLine \cup AfterUrl \cup Reason \cup Discards
                       \cup {"s_header_almost_done"},
           ~Failed(q) => SameHead(q, p) /\ Goes(p.state, q.state)
    PROVE  Told(q, s, w)
<1> DEFINE v == Look(p, s)
<1>1. v.cb \notin {"chunk_complete", "message_complete"}
  BY DEF Reads, Book, Heard, Discards, ValueStates
<1>2. Right(q, v, w)
  BY <1>1, RightElse
<1>3. ~Failed(q) => Book(q, v, w)
  BY GoesBook DEF Reads
<1> QED BY <1>2, <1>3, QuietTold

LEMMA LiteralTold ==
    ASSUME NEW p, Ready(p), NEW s, NEW w, Reads(p, s, w), p.state \in Literals, NEW ch
    PROVE  Told(literal(p, ch), s, w)
<1> DEFINE q == literal(p, ch)
<1>1. p.state \in Plain
  BY DEF Literals, ReqLiteral, ResLiteral, Plain, States, BodyStates, ChunkStates, SizeStates,
     UrlStates, Undecided
<1>2. NoMark(p) /\ Typed(p)
  BY <1>1, PlainReady, ReadyTyped
<1>3. IsQuiet(q, p)
  BY LiteralDone
<1>4. p.state \in FirstLine \cup AfterUrl \cup Reason \cup Discards \cup {"s_header_almost_done"}
  BY DEF Literals, ReqLiteral, ResLiteral, FirstLine, AfterUrl, Reason, Discards, NameStates
<1>5. ASSUME ~Failed(q) PROVE SameHead(q, p) /\ Goes(p.state, q.state)
  <2> DEFINE l == IF p.state \in DOMAIN ReqLiteral THEN ReqLiteral[p.state]
                  ELSE ResLiteral[p.state]
  <2>1. q = IF ch = l[1] THEN Goto(p, l[2]) ELSE Fail(p, l[3])
    BY DEF literal
  <2>2. l[3] # "OK" /\ Goes(p.state, l[2])
    <3>1. CASE p.state \in DOMAIN ReqLiteral
      BY <3>1 DEF ReqLiteral, Goes, FirstLine, AfterUrl, Reason, Discards, NameStates
    <3>2. CASE p.state \in DOMAIN ResLiteral
      BY <3>2 DEF ReqLiteral, ResLiteral, Goes, FirstLine, AfterUrl, Reason, Discards,
         NameStates
    <3> QED BY <3>1, <3>2 DEF Literals
  <2> HIDE DEF l
  <2>3. q = Goto(p, l[2])
    BY <1>2, <1>5, <2>1, <2>2 DEF Failed, Fail, Typed, Fields
  <2> QED BY <1>2, <2>2, <2>3 DEF SameHead, Goto, Typed, Fields
<1> QED BY <1>2, <1>3, <1>4, <1>5, GoesTold

LEMMA MajorTold ==
    ASSUME NEW p, Ready(p), NEW s, NEW w, Reads(p, s, w),
           p.state \in {"s_req_http_major", "s_res_http_major"}, NEW ch
    PROVE  Told(http_major(p, ch), s, w)
<1> DEFINE q == http_major(p, ch)
<1>1. p.state \in Plain /\ p.state \in FirstLine \cup AfterUrl
      /\ Goes(p.state, IF p.state = "s_req_http_major" THEN "s_req_http_dot"
                       ELSE "s_res_http_dot")
  BY DEF Plain, States, BodyStates, ChunkStates, SizeStates, UrlStates, Undecided, FirstLine,
     AfterUrl, Goes
<1>2. NoMark(p) /\ Typed(p)
  BY <1>1, PlainReady, ReadyTyped
<1>3. IsQuiet(q, p)
  BY MajorDone
<1>4. ASSUME ~Failed(q) PROVE SameHead(q, p) /\ Goes(p.state, q.state)
  BY <1>1, <1>2, <1>4 DEF http_major, Failed, Fail, Typed, Fields, SameHead
<1> QED BY <1>1, <1>2, <1>3, <1>4, GoesTold

LEMMA MinorTold ==
    ASSUME NEW p, Ready(p), NEW s, NEW w, Reads(p, s, w),
           p.state \in {"s_req_http_minor", "s_res_http_minor"}, NEW ch
    PROVE  Told(http_minor(p, ch), s, w)
<1> DEFINE q == http_minor(p, ch)
<1>1. p.state \in Plain /\ p.state \in FirstLine \cup AfterUrl
      /\ Goes(p.state, IF p.state = "s_req_http_minor" THEN "s_req_http_end"
                       ELSE "s_res_http_end")
  BY DEF Plain, States, BodyStates, ChunkStates, SizeStates, UrlStates, Undecided, FirstLine,
     AfterUrl, Goes
<1>2. NoMark(p) /\ Typed(p)
  BY <1>1, PlainReady, ReadyTyped
<1>3. IsQuiet(q, p)
  BY MinorDone
<1>4. ASSUME ~Failed(q) PROVE SameHead(q, p) /\ Goes(p.state, q.state)
  BY <1>1, <1>2, <1>4 DEF http_minor, Failed, Fail, Typed, Fields, SameHead
<1> QED BY <1>1, <1>2, <1>3, <1>4, GoesTold

\* The states whose operation only goes on to others, or fails.
LEMMA GotoTold ==
    ASSUME NEW p, Ready(p), NEW s, NEW w, Reads(p, s, w), p.state \in Plain,
           p.state \in FirstLine \cup AfterUrl \cup Discards, NEW q, IsQuiet(q, p),
           \/ q = p /\ Goes(p.state, p.state)
           \/ \E t : Goes(p.state, t) /\ q = Goto(p, t)
           \/ \E e : e # "OK" /\ q = Fail(p, e)
    PROVE  Told(q, s, w)
<1>1. NoMark(p) /\ Typed(p)
  BY PlainReady, ReadyTyped
<1>2. ASSUME ~Failed(q) PROVE SameHead(q, p) /\ Goes(p.state, q.state)
  <2>1. CASE q = p /\ Goes(p.state, p.state)
    BY <2>1 DEF SameHead
  <2>2. CASE \E t : Goes(p.state, t) /\ q = Goto(p, t)
    BY <1>1, <2>2 DEF SameHead, Goto, Typed, Fields
  <2>3. CASE \E e : e # "OK" /\ q = Fail(p, e)
    BY <1>1, <1>2, <2>3 DEF Failed, Fail, Typed, Fields
  <2> QED BY <2>1, <2>2, <2>3
<1> QED BY <1>1, <1>2, GoesTold

LEMMA HttpStartTold ==
    ASSUME NEW p, Ready(p), NEW s, NEW w, Reads(p, s, w), p.state = "s_req_http_start", NEW ch
    PROVE  Told(s_req_http_start(p, ch), s, w)
<1> DEFINE q == s_req_http_start(p, ch)
<1>1. p.state \in Plain /\ p.state \in AfterUrl
      /\ Goes(p.state, p.state) /\ Goes(p.state, "s_req_http_H")
  BY DEF Plain, States, BodyStates, ChunkStates, SizeStates, UrlStates, Undecided, AfterUrl, Goes
<1>2. IsQuiet(q, p)
  BY HttpStartDone
<1>3. q = p \/ q = Goto(p, "s_req_http_H") \/ q = Fail(p, "INVALID_CONSTANT")
  BY DEF s_req_http_start, Blank
<1> HIDE DEF q
<1>4. Told(q, s, w)
  BY <1>1, <1>2, <1>3, GotoTold
<1> QED BY <1>4 DEF q

LEMMA HttpEndTold ==
    ASSUME NEW p, Ready(p), NEW s, NEW w, Reads(p, s, w), p.state = "s_req_http_end", NEW ch
    PROVE  Told(s_req_http_end(p, ch), s, w)
<1> DEFINE q == s_req_http_end(p, ch)
<1>1. p.state \in Plain /\ p.state \in AfterUrl
      /\ Goes(p.state, "s_req_line_almost_done") /\ Goes(p.state, "s_header_field_start")
  BY DEF Plain, States, BodyStates, ChunkStates, SizeStates, UrlStates, Undecided, AfterUrl, Goes
<1>2. IsQuiet(q, p)
  BY HttpEndDone
<1>3. q = Goto(p, "s_req_line_almost_done") \/ q = Goto(p, "s_header_field_start")
      \/ q = Fail(p, "INVALID_VERSION")
  BY DEF s_req_http_end, CR, LF
<1> HIDE DEF q
<1>4. Told(q, s, w)
  BY <1>1, <1>2, <1>3, GotoTold
<1> QED BY <1>4 DEF q

LEMMA FirstCodeTold ==
    ASSUME NEW p, Ready(p), NEW s, NEW w, Reads(p, s, w), p.state = "s_res_first_status_code",
           NEW ch
    PROVE  Told(s_res_first_status_code(p, ch), s, w)
<1> DEFINE q == s_res_first_status_code(p, ch)
<1>1. p.state \in Plain /\ p.state \in FirstLine
      /\ Goes(p.state, p.state) /\ Goes(p.state, "s_res_status_code")
  BY DEF Plain, States, BodyStates, ChunkStates, SizeStates, UrlStates, Undecided, FirstLine, Goes
<1>2. NoMark(p) /\ Typed(p)
  BY <1>1, PlainReady, ReadyTyped
<1>3. IsQuiet(q, p)
  BY FirstCodeDone
<1>4. ASSUME ~Failed(q) PROVE SameHead(q, p) /\ Goes(p.state, q.state)
  <2>1. CASE ch \in Num
    BY <1>1, <1>2, <2>1 DEF s_res_first_status_code, Typed, Fields, SameHead
  <2>2. CASE ch \notin Num
    <3>1. q = p \/ q = Fail(p, "INVALID_STATUS")
      BY <2>2 DEF s_res_first_status_code
    <3> QED BY <1>1, <1>2, <1>4, <3>1 DEF SameHead, Failed, Fail, Typed, Fields
  <2> QED BY <2>1, <2>2
<1> QED BY <1>1, <1>2, <1>3, <1>4, GoesTold

LEMMA MethodTold ==
    ASSUME NEW p, Ready(p), NEW s, NEW w, Reads(p, s, w), p.state = "s_req_method", NEW ch
    PROVE  Told(s_req_method(p, ch), s, w)
<1> DEFINE q == s_req_method(p, ch)
<1>1. p.state \in Plain /\ p.state \in FirstLine
      /\ Goes(p.state, p.state) /\ Goes(p.state, "s_req_spaces_before_url")
  BY DEF Plain, States, BodyStates, ChunkStates, SizeStates, UrlStates, Undecided, FirstLine, Goes
<1>2. NoMark(p) /\ Typed(p)
  BY <1>1, PlainReady, ReadyTyped
<1>3. IsQuiet(q, p)
  BY MethodDone
<1>4. ASSUME ~Failed(q) PROVE SameHead(q, p) /\ Goes(p.state, q.state)
  <2>1. \/ q = Goto(p, "s_req_spaces_before_url") \/ q = [p EXCEPT !.index = 2]
        \/ q = [p EXCEPT !.method = "PUT", !.index = 2] \/ q = Fail(p, "INVALID_METHOD")
    BY DEF s_req_method
  <2> HIDE DEF q
  <2> QED BY <1>1, <1>2, <1>4, <2>1 DEF SameHead, Failed, Fail, Goto, Typed, Fields
<1> QED BY <1>1, <1>2, <1>3, <1>4, GoesTold

LEMMA ResOrRespTold ==
    ASSUME NEW p, Ready(p), NEW s, NEW w, Reads(p, s, w), p.state = "s_res_or_resp_H", NEW ch
    PROVE  Told(s_res_or_resp_H(p, ch), s, w)
<1> DEFINE q == s_res_or_resp_H(p, ch)
<1>1. p.state \in Undecided /\ p.state \in FirstLine
      /\ Goes(p.state, "s_res_HT") /\ Goes(p.state, "s_req_method")
  BY DEF Undecided, FirstLine, Goes
<1>2. NoMark(p) /\ Typed(p)
  BY <1>1, UndecidedReady, ReadyTyped
<1>3. IsQuiet(q, p)
  BY ResOrRespDone
<1>4. ASSUME ~Failed(q) PROVE SameHead(q, p) /\ Goes(p.state, q.state)
  BY <1>1, <1>2, <1>4 DEF s_res_or_resp_H, SameHead, Failed, Fail, Typed, Fields
<1> QED BY <1>1, <1>2, <1>3, <1>4, GoesTold

-----------------------------------------------------------------------------
(* The first line of a message.                                            *)

\* A notification is the next item.
LEMMA CallHeard ==
    ASSUME NEW p, Typed(p), NoMark(p), NEW s \in Views, Look(p, s) \in Views, Look(p, s).ordered,
           NEW c \in Callbacks \ DataCallbacks, c \in Follows[Look(p, s).cb],
           NEW a, NEW q, IsCall(q, p, c, 0, 0, a)
    PROVE  /\ NoMark(q) /\ Look(q, s) \in Views /\ Look(q, s).cb = c /\ Look(q, s).ordered
           /\ Look(q, s).after.cb = Look(p, s).cb
           /\ Look(p, s).cb = "body" => Look(q, s).after.n = Look(p, s).n
<1> DEFINE v == Look(p, s)
<1>1. Look(q, s) = With(v, c, 0) /\ NoMark(q)
  BY LookCall
<1>2. 0 \in Nat
  OBVIOUS
<1> HIDE DEF v
<1>3. v \in Views /\ v.ordered /\ c \in Follows[v.cb]
  BY DEF v
<1>4. LET u == With(v, c, 0)
      IN  /\ u \in Views /\ u.cb = c /\ u.ordered /\ u.after.cb = v.cb
          /\ v.cb = "body" => u.after.n = v.n
  BY <1>2, <1>3, WithType
<1> QED BY <1>1, <1>4 DEF v

LEMMA Starting ==
    /\ "message_begin" \in Callbacks \ DataCallbacks
    /\ "message_begin" \in Follows["none"] /\ "message_begin" \in Follows["message_complete"]
BY DEF Callbacks, DataCallbacks, Follows

\* A message begins.
LEMMA BeginTold ==
    ASSUME NEW p, NEW s \in Views, Look(p, s) \in Views, Look(p, s).ordered,
           Look(p, s).cb \in {"none", "message_complete"},
           NEW r, Typed(r), NoMark(r), r.marks = p.marks, r.out = p.out,
           r.state \in FirstLine, r.flags = {}, r.content_length = ULLONG_MAX,
           NEW a, NEW q, q = CALLBACK_NOTIFY(r, "message_begin", a),
           NEW w, ~Failed(q) => w = 0
    PROVE  Told(q, s, w)
<1> DEFINE u == Look(q, s)
<1>1. Look(r, s) = Look(p, s)
  BY LookQuiet
<1>2. IsCall(q, r, "message_begin", 0, 0, a)
  BY Starting, NotifyEffect
<1>3. "message_begin" \in Follows[Look(r, s).cb]
  BY <1>1, Starting
<1>4. NoMark(q) /\ u \in Views /\ u.cb = "message_begin" /\ u.ordered
  BY <1>1, <1>2, <1>3, Starting, CallHeard
<1> HIDE DEF u
<1>5. Right(q, u, w)
  BY <1>4, RightElse
<1>6. ASSUME ~Failed(q) PROVE Book(q, u, w)
  <2>1. q.state \in FirstLine /\ q.flags = {} /\ q.content_length = ULLONG_MAX
    BY <1>2 DEF IsCall, Kept
  <2>2. w = Given(q)
    BY <1>6, <2>1 DEF Given
  <2> QED BY <1>4, <2>1, <2>2, AtFirstLine
<1>7. Tells(q, u, w)
  BY <1>4, <1>5, <1>6, PlainTells
<1> QED BY <1>4, <1>7 DEF Told, u

\* Before the first symbol of a message, w is of no message.
Waits(p, s) ==
    /\ Typed(p) /\ NoMark(p) /\ p.errno = "OK" /\ s \in Views /\ Look(p, s) \in Views
    /\ Look(p, s).ordered /\ Look(p, s).cb \in {"none", "message_complete"}

LEMMA StartsWait ==
    ASSUME NEW p, Ready(p), NEW s, NEW w, Reads(p, s, w), p.state \in Between
    PROVE  Waits(p, s) /\ (~p.exited => Told(p, s, w))
<1>1. p.state \in Plain \cup Undecided
  BY DEF Between, Plain, States, BodyStates, ChunkStates, SizeStates, UrlStates, Undecided
<1>2. NoMark(p) /\ Typed(p) /\ p.errno = "OK"
  BY <1>1, PlainReady, UndecidedReady, ReadyTyped
<1>3. Look(p, s).cb \in {"none", "message_complete"}
  BY DEF Reads, Book, Heard
<1>4. Tells(p, Look(p, s), w)
  BY <1>2, PlainTells DEF Reads
<1> QED BY <1>2, <1>3, <1>4 DEF Reads, Waits, Told

\* The first symbol is wrong: what is to be read is forgotten, the callbacks are not.
LEMMA StartFails ==
    ASSUME NEW p, NEW s, Waits(p, s), p.state # "s_chunk_size_start", NEW e, e # "OK",
           NEW f, Typed(f), f.marks = p.marks, f.out = p.out, f.state = p.state,
           NEW q, q = Fail(f, e), NEW w
    PROVE  Told(q, s, w)
<1>1. q.marks = p.marks /\ q.out = p.out /\ q.state = p.state /\ Failed(q)
  BY DEF Fail, Failed, Typed, Fields
<1>2. Look(q, s) = Look(p, s)
  BY <1>1, LookQuiet
<1>3. Right(q, Look(p, s), w)
  BY <1>1, RightFailed
<1> QED BY <1>1, <1>2, <1>3 DEF Told, Tells, Waits

LEMMA StartReqTold ==
    ASSUME NEW p, NEW s, Waits(p, s), p.state = "s_start_req", NEW ch, ch \notin {CR, LF},
           NEW a, NEW w, ~Failed(s_start_req(p, ch, a)) => w = 0
    PROVE  Told(s_start_req(p, ch, a), s, w) /\ s_start_req(p, ch, a).state \in
             {"s_req_method", "s_start_req"}
           /\ (~Failed(s_start_req(p, ch, a)) => s_start_req(p, ch, a).state = "s_req_method")
<1> DEFINE f == Fresh(p)
           r == [f EXCEPT !.method = FirstLetter[ch], !.index = 1, !.state = "s_req_method"]
           q == s_start_req(p, ch, a)
<1>1. /\ Typed(f) /\ f.marks = p.marks /\ f.out = p.out /\ f.state = p.state
      /\ f.flags = {} /\ f.content_length = ULLONG_MAX /\ f.errno = "OK"
  BY FreshTyped DEF Waits
<1> HIDE DEF f
<1>2. CASE ch \notin DOMAIN FirstLetter
  <2>1. q = Fail(f, "INVALID_METHOD")
    BY <1>2 DEF s_start_req, Fresh, f
  <2>2. q.state = "s_start_req" /\ Failed(q)
    BY <1>1, <2>1 DEF Fail, Failed, Typed, Fields
  <2> HIDE DEF q
  <2>3. Told(q, s, w)
    BY <1>1, <2>1, StartFails
  <2> QED BY <2>2, <2>3 DEF q
<1>3. CASE ch \in DOMAIN FirstLetter
  <2>1. q = CALLBACK_NOTIFY(r, "message_begin", a)
    BY <1>3 DEF s_start_req, Fresh, f
  <2>2. FirstLetter[ch] \in DOMAIN method_strings
    BY <1>3 DEF FirstLetter, method_strings
  <2>3. "s_req_method" \in States \cap FirstLine
    BY DEF States, FirstLine
  <2>4. /\ Typed(r) /\ r.marks = p.marks /\ r.out = p.out /\ r.state = "s_req_method"
        /\ r.flags = {} /\ r.content_length = ULLONG_MAX
    BY <1>1, <2>2, <2>3 DEF Typed, Fields
  <2> HIDE DEF r
  <2>5. NoMark(r)
    BY <2>4 DEF Waits, NoMark, Marked
  <2>6. ~Failed(q) => w = 0
    OBVIOUS
  <2> HIDE DEF q
  <2>7. Told(q, s, w)
    BY <2>1, <2>3, <2>4, <2>5, <2>6, BeginTold DEF Waits
  <2>8. IsCall(q, r, "message_begin", 0, 0, a)
    BY <2>1, <2>4, Starting, NotifyEffect
  <2> QED BY <2>4, <2>7, <2>8 DEF q, IsCall, Kept
<1> QED BY <1>2, <1>3

LEMMA StartResTold ==
    ASSUME NEW p, NEW s, Waits(p, s), p.state = "s_start_res", NEW ch, ch \notin {CR, LF},
           NEW a, NEW w, ~Failed(s_start_res(p, ch, a)) => w = 0
    PROVE  Told(s_start_res(p, ch, a), s, w)
           /\ (~Failed(s_start_res(p, ch, a)) => s_start_res(p, ch, a).state = "s_res_H")
<1> DEFINE f == Fresh(p)
           r == Goto(f, "s_res_H")
           q == s_start_res(p, ch, a)
<1>1. /\ Typed(f) /\ f.marks = p.marks /\ f.out = p.out /\ f.state = p.state
      /\ f.flags = {} /\ f.content_length = ULLONG_MAX /\ f.errno = "OK"
  BY FreshTyped DEF Waits
<1> HIDE DEF f
<1>2. CASE ch # "H"
  <2>1. q = Fail(f, "INVALID_CONSTANT")
    BY <1>2 DEF s_start_res, Fresh, f
  <2>2. Failed(q)
    BY <1>1, <2>1 DEF Fail, Failed, Typed, Fields
  <2> HIDE DEF q
  <2>3. Told(q, s, w)
    BY <1>1, <2>1, StartFails
  <2> QED BY <2>2, <2>3 DEF q
<1>3. CASE ch = "H"
  <2>1. q = CALLBACK_NOTIFY(r, "message_begin", a)
    BY <1>3 DEF s_start_res, Fresh, f
  <2>3. "s_res_H" \in States \cap FirstLine
    BY DEF States, FirstLine
  <2>4. /\ Typed(r) /\ r.marks = p.marks /\ r.out = p.out /\ r.state = "s_res_H"
        /\ r.flags = {} /\ r.content_length = ULLONG_MAX
    BY <1>1, <2>3 DEF Goto, Typed, Fields
  <2> HIDE DEF r
  <2>5. NoMark(r)
    BY <2>4 DEF Waits, NoMark, Marked
  <2>6. ~Failed(q) => w = 0
    OBVIOUS
  <2> HIDE DEF q
  <2>7. Told(q, s, w)
    BY <2>1, <2>3, <2>4, <2>5, <2>6, BeginTold DEF Waits
  <2>8. IsCall(q, r, "message_begin", 0, 0, a)
    BY <2>1, <2>4, Starting, NotifyEffect
  <2> QED BY <2>4, <2>7, <2>8 DEF q, IsCall, Kept
<1> QED BY <1>2, <1>3

LEMMA StartReqOrResTold ==
    ASSUME NEW p, NEW s, Waits(p, s), p.state = "s_start_req_or_res", NEW ch, ch \notin {CR, LF},
           NEW a, NEW w, ~Failed(s_start_req_or_res(p, ch, a)) => w = 0
    PROVE  Told(s_start_req_or_res(p, ch, a), s, w)
           /\ (~Failed(s_start_req_or_res(p, ch, a)) =>
                 s_start_req_or_res(p, ch, a).state \in {"s_res_or_resp_H", "s_req_method"})
<1> DEFINE f == Fresh(p)
           r == Goto(f, "s_res_or_resp_H")
           t == [f EXCEPT !.type = "REQUEST", !.state = "s_start_req"]
           q == s_start_req_or_res(p, ch, a)
<1>1. /\ Typed(f) /\ f.marks = p.marks /\ f.out = p.out /\ f.state = p.state
      /\ f.flags = {} /\ f.content_length = ULLONG_MAX /\ f.errno = "OK"
  BY FreshTyped DEF Waits
<1> HIDE DEF f
<1>2. CASE ch # "H"
  <2>1. q = s_start_req(t, ch, a)
    BY <1>2 DEF s_start_req_or_res, Fresh, f
  <2>2. "s_start_req" \in States /\ "REQUEST" \in DOMAIN Start
    BY DEF States, Start
  <2>3. /\ Typed(t) /\ t.marks = p.marks /\ t.out = p.out /\ t.state = "s_start_req"
        /\ t.errno = "OK"
    BY <1>1, <2>2 DEF Typed, Fields
  <2> HIDE DEF t
  <2>4. Look(t, s) = Look(p, s)
    BY <2>3, LookQuiet
  <2>5. Waits(t, s)
    BY <2>3, <2>4 DEF Waits, NoMark, Marked
  <2>6. ~Failed(q) => w = 0
    OBVIOUS
  <2> HIDE DEF q
  <2>7. Told(q, s, w) /\ (~Failed(q) => q.state = "s_req_method")
    BY <2>1, <2>3, <2>5, <2>6, StartReqTold
  <2> QED BY <2>7 DEF q
<1>3. CASE ch = "H"
  <2>1. q = CALLBACK_NOTIFY(r, "message_begin", a)
    BY <1>3 DEF s_start_req_or_res, Fresh, f
  <2>3. "s_res_or_resp_H" \in States \cap FirstLine
    BY DEF States, FirstLine
  <2>4. /\ Typed(r) /\ r.marks = p.marks /\ r.out = p.out /\ r.state = "s_res_or_resp_H"
        /\ r.flags = {} /\ r.content_length = ULLONG_MAX
    BY <1>1, <2>3 DEF Goto, Typed, Fields
  <2> HIDE DEF r
  <2>5. NoMark(r)
    BY <2>4 DEF Waits, NoMark, Marked
  <2>6. ~Failed(q) => w = 0
    OBVIOUS
  <2> HIDE DEF q
  <2>7. Told(q, s, w)
    BY <2>1, <2>3, <2>4, <2>5, <2>6, BeginTold DEF Waits
  <2>8. IsCall(q, r, "message_begin", 0, 0, a)
    BY <2>1, <2>4, Starting, NotifyEffect
  <2> QED BY <2>4, <2>7, <2>8 DEF q, IsCall, Kept
<1> QED BY <1>2, <1>3

-----------------------------------------------------------------------------
(* The url and the reason.                                                 *)

\* A mark begins the next item, or goes on with it.
LEMMA MarkHeard ==
    ASSUME NEW p, Typed(p), NEW c \in DataCallbacks, OnlyMark(p, c), NEW q, IsMark(q, p, c),
           NEW s \in Views, Look(p, s) \in Views, Look(p, s).ordered,
           c = Look(p, s).cb \/ c \in Follows[Look(p, s).cb]
    PROVE  /\ Look(q, s) \in Views /\ Look(q, s).cb = c /\ Look(q, s).ordered
           /\ c = Look(p, s).cb => Look(q, s).n = Look(p, s).n
           /\ c # Look(p, s).cb => Look(q, s).n = 0
<1> DEFINE v == Look(p, s)
<1>1. Look(q, s) = With(v, c, 0)
  BY LookMark
<1>2. 0 \in Nat /\ c \in Callbacks
  BY DataNames
<1> HIDE DEF v
<1>3. v \in Views /\ v.ordered /\ (c = v.cb \/ c \in Follows[v.cb])
  BY DEF v
<1>4. LET u == With(v, c, 0)
      IN  /\ u \in Views /\ u.cb = c /\ u.ordered
          /\ c = v.cb => u.n = v.n + 0
          /\ c # v.cb => u.n = 0
  BY <1>2, <1>3, WithType
<1>5. v.n + 0 = v.n
  BY <1>3 DEF Views
<1> QED BY <1>1, <1>4, <1>5 DEF v

\* The end of an item: what it is does not change.
LEMMA DataHeard ==
    ASSUME NEW p, Typed(p), NEW c \in DataCallbacks, OnlyMark(p, c), NEW a, NEW q,
           IsData(q, p, c, 0, a), NEW s \in Views, Look(p, s) \in Views, Look(p, s).ordered,
           Look(p, s).cb = c
    PROVE  /\ Look(q, s) \in Views /\ Look(q, s).cb = c /\ Look(q, s).ordered
           /\ ~Failed(q) => NoMark(q) /\ Look(q, s) = Look(p, s)
<1> DEFINE v == Look(p, s)
<1>1. Report(s, q.out) = v /\ (~Failed(q) => Look(q, s) = v)
  BY LookDataZero
<1>2. ASSUME Failed(q)
      PROVE  Look(q, s) \in Views /\ Look(q, s).cb = c /\ Look(q, s).ordered
  <2>1. Marked(p, c) /\ q.marks = p.marks /\ Typed(q) /\ OnlyMark(q, c)
    BY <1>2 DEF IsData
  <2>2. Marked(q, c) /\ q.marks[c] \in Nat /\ c \in Callbacks
    BY <2>1, DataNames DEF Marked, Typed
  <2>3. Look(q, s) = View(q, v)
    BY <1>1 DEF Look
  <2> HIDE DEF v
  <2>4. v \in Views /\ v.ordered /\ v.cb = c
    BY DEF v
  <2>5. View(q, v) = With(v, c, q.marks[c])
    BY <2>1, <2>2, <2>4, MarkedView
  <2>6. LET u == With(v, c, q.marks[c]) IN u \in Views /\ u.cb = c /\ u.ordered
    BY <2>2, <2>4, WithType
  <2> QED BY <2>3, <2>5, <2>6
<1>3. ~Failed(q) => NoMark(q)
  BY DEF IsData
<1> QED BY <1>1, <1>2, <1>3

Middle ==
    /\ "url" \in Follows["message_begin"] /\ "status" \in Follows["message_begin"]
    /\ \A c \in {"status", "url", "header_value", "chunk_header"} : "header_field" \in Follows[c]
    /\ "header_value" \in Follows["header_field"]
    /\ \A c \in {"status", "url", "header_value"} : "headers_complete" \in Follows[c]
    /\ \A c \in {"chunk_header", "header_value", "body"} : "chunk_complete" \in Follows[c]
    /\ \A c \in {"headers_complete", "body", "chunk_complete"} : "message_complete" \in Follows[c]
    /\ "body" \in Follows["headers_complete"] /\ "body" \in Follows["chunk_header"]
    /\ "chunk_header" \in Follows["headers_complete"]
    /\ "chunk_header" \in Follows["chunk_complete"]

LEMMA Order == Middle
BY DEF Middle, Follows

LEMMA InOther ==
    UrlStates \cup AfterUrl \cup FirstLine \cup Reason \cup Heads \cup Between
      \cup SizeStates \cup {"s_chunk_size_start"} \subseteq Other
BY DEF Other, States, BodyStates, UrlStates, AfterUrl, FirstLine, Reason, Heads, LineStarts,
   NameStates, ValueStates, Between, SizeStates

LEMMA FirstLineReads ==
    ASSUME NEW p, NEW s, NEW w, Reads(p, s, w), p.state \in FirstLine
    PROVE  /\ Look(p, s).cb = "message_begin" /\ "TRAILING" \notin p.flags /\ w = Given(p)
           /\ s \in Views /\ Look(p, s) \in Views /\ Look(p, s).ordered
<1>1. "TRAILING" \notin p.flags
  BY DEF Reads, Book, Heard, FirstLine, Heads, Between, LineStarts, NameStates, ValueStates
<1> QED BY <1>1 DEF Reads, Book, Heard, Length, BeforeLine

LEMMA UrlReads ==
    ASSUME NEW p, NEW s, NEW w, Reads(p, s, w), p.state \in UrlStates
    PROVE  /\ Look(p, s).cb = "url" /\ "TRAILING" \notin p.flags /\ w = Given(p)
           /\ s \in Views /\ Look(p, s) \in Views /\ Look(p, s).ordered
<1>1. "TRAILING" \notin p.flags
  BY DEF Reads, Book, Heard, UrlStates, Heads, Between, LineStarts, NameStates, ValueStates
<1> QED BY <1>1 DEF Reads, Book, Heard, Length, BeforeLine

LEMMA ReasonReads ==
    ASSUME NEW p, NEW s, NEW w, Reads(p, s, w), p.state \in Reason
    PROVE  /\ Look(p, s).cb = "status" /\ "TRAILING" \notin p.flags /\ w = Given(p)
           /\ s \in Views /\ Look(p, s) \in Views /\ Look(p, s).ordered
<1>1. "TRAILING" \notin p.flags
  BY DEF Reads, Book, Heard, Reason, Heads, Between, LineStarts, NameStates, ValueStates
<1> QED BY <1>1 DEF Reads, Book, Heard, Length, BeforeLine

\* In the middle of a url.
LEMMA UrlCharTold ==
    ASSUME NEW p, Typed(p), p.errno = "OK", NEW s, Look(p, s) \in Views,
           Look(p, s).ordered, Look(p, s).cb = "url", "TRAILING" \notin p.flags,
           NEW w, w = Given(p), NEW ch
    PROVE  Told(url_char(p, ch), s, w)
<1> DEFINE t == parse_url_char(p.state, ch)
           q == url_char(p, ch)
<1>1. t \in UrlStates \cup {"s_dead"}
  BY DEF parse_url_char, UrlStates
<1> HIDE DEF t
<1>2. q = IF t = "s_dead" THEN Fail(Goto(p, t), "INVALID_URL") ELSE Goto(p, t)
  BY DEF url_char, t
<1> HIDE DEF q
<1>3. /\ q.marks = p.marks /\ q.out = p.out /\ q.state = t /\ q.flags = p.flags
      /\ q.content_length = p.content_length
      /\ q.errno = IF t = "s_dead" THEN "INVALID_URL" ELSE "OK"
  BY <1>2 DEF Goto, Fail, Typed, Fields
<1>4. Look(q, s) = Look(p, s)
  BY <1>3, LookQuiet
<1>5. ASSUME ~Failed(q) PROVE q.state \in Other /\ Book(q, Look(p, s), w)
  <2>1. q.state \in UrlStates
    BY <1>1, <1>3, <1>5 DEF Failed
  <2>2. w = Given(q)
    BY <1>3 DEF Given
  <2> QED BY <1>3, <2>1, <2>2, AtUrl, InOther
<1>6. Tells(q, Look(p, s), w)
  BY <1>5, DataTells, DataNames
<1> QED BY <1>4, <1>6 DEF Told, q

LEMMA SpacesTold ==
    ASSUME NEW p, Ready(p), NEW s, NEW w, Reads(p, s, w), p.state = "s_req_spaces_before_url",
           NEW ch
    PROVE  Told(s_req_spaces_before_url(p, ch), s, w)
<1> DEFINE m == MARK(p, "url")
           r == IF p.method = "CONNECT" THEN Goto(m, "s_req_server_start") ELSE m
<1>1. p.state \in Plain /\ p.state \in FirstLine
  BY DEF Plain, States, BodyStates, ChunkStates, SizeStates, UrlStates, Undecided, FirstLine
<1>2. NoMark(p) /\ Typed(p) /\ p.errno = "OK"
  BY <1>1, PlainReady, ReadyTyped
<1>3. OnlyMark(p, "url") /\ "url" \in DataCallbacks
  BY <1>2, DataNames DEF NoMark, OnlyMark
<1>4. IsMark(m, p, "url")
  BY <1>2, <1>3, MarkEffect
<1>5. /\ Look(p, s).cb = "message_begin" /\ "TRAILING" \notin p.flags /\ w = Given(p)
      /\ s \in Views /\ Look(p, s) \in Views /\ Look(p, s).ordered
  BY <1>1, FirstLineReads
<1>6. s_req_spaces_before_url(p, ch) = IF ch = Blank THEN p ELSE url_char(r, ch)
  BY DEF s_req_spaces_before_url
<1> HIDE DEF m
<1>7. Look(m, s) \in Views /\ Look(m, s).cb = "url" /\ Look(m, s).ordered
  BY <1>2, <1>3, <1>4, <1>5, Order, MarkHeard DEF Middle
<1>8. /\ Typed(r) /\ r.errno = "OK" /\ r.marks = m.marks /\ r.out = m.out /\ r.flags = p.flags
      /\ r.content_length = p.content_length
  <2>1. "s_req_server_start" \in States
    BY DEF States
  <2> QED BY <1>2, <1>4, <2>1 DEF IsMark, Kept, Goto, Typed, Fields
<1> HIDE DEF r
<1>9. Look(r, s) = Look(m, s)
  BY <1>8, LookQuiet
<1>10. Told(url_char(r, ch), s, w)
  <2>1. w = Given(r)
    BY <1>5, <1>8 DEF Given
  <2> QED BY <1>5, <1>7, <1>8, <1>9, <2>1, UrlCharTold
<1>11. Told(p, s, w)
  <2>1. Tells(p, Look(p, s), w)
    BY <1>2, PlainTells DEF Reads
  <2> QED BY <1>5, <2>1 DEF Told
<1> QED BY <1>6, <1>10, <1>11

\* An item of the first line ends: the state t, with c handed over.
LEMMA FirstLineEnds ==
    ASSUME NEW p, Typed(p), p.errno = "OK", NEW c \in {"url", "status"}, OnlyMark(p, c),
           NEW s \in Views, Look(p, s) \in Views, Look(p, s).ordered, Look(p, s).cb = c,
           "TRAILING" \notin p.flags, NEW w, w = Given(p),
           \/ p.state = "s_header_field_start"
           \/ c = "url" /\ p.state \in AfterUrl
           \/ c = "status" /\ p.state \in Reason,
           NEW a, NEW q, q = CALLBACK_DATA(p, c, a)
    PROVE  Told(q, s, w)
<1>1. c \in DataCallbacks /\ 0 \in {0, 1}
  BY DataNames
<1>2. IsData(q, p, c, 0, a)
  BY <1>1, DataEffect DEF CALLBACK_DATA
<1> DEFINE u == Look(q, s)
<1>3. u \in Views /\ u.cb = c /\ u.ordered
  BY <1>1, <1>2, DataHeard
<1> HIDE DEF u
<1>4. /\ q.state = p.state /\ q.flags = p.flags /\ w = Given(q)
  BY <1>2 DEF IsData, Kept, Given
<1>5. q.state \in Other
  BY <1>4, InOther DEF Heads, LineStarts
<1>6. Book(q, u, w)
  <2>1. CASE p.state = "s_header_field_start"
    BY <1>3, <1>4, <2>1, AtLine DEF LineStarts
  <2>2. CASE c = "url" /\ p.state \in AfterUrl
    BY <1>3, <1>4, <2>2, AtUrl
  <2>3. CASE c = "status" /\ p.state \in Reason
    BY <1>3, <1>4, <2>3, AtReason
  <2> QED BY <2>1, <2>2, <2>3
<1>7. Tells(q, u, w)
  BY <1>1, <1>3, <1>5, <1>6, DataTells
<1> QED BY <1>3, <1>7 DEF Told, u

LEMMA UrlTold ==
    ASSUME NEW p, Ready(p), NEW s, NEW w, Reads(p, s, w), p.state \in UrlStates, NEW ch, NEW a
    PROVE  Told(s_req_url(p, ch, a), s, w)
<1> DEFINE r == Goto(p, "s_req_http_start")
           t == [p EXCEPT !.http_major = 0, !.http_minor = 9,
                          !.state = IF ch = CR THEN "s_req_line_almost_done"
                                    ELSE "s_header_field_start"]
           q == s_req_url(p, ch, a)
<1>1. Typed(p) /\ p.errno = "OK"
  BY ReadyTyped
<1>2. "url" \in DataCallbacks /\ Resumed(p.state) = {"url"}
  BY DataNames DEF Resumed, UrlStates
<1>3. OnlyMark(p, "url")
  BY <1>2, MarkedReady DEF Reading
<1>4. /\ Look(p, s).cb = "url" /\ "TRAILING" \notin p.flags /\ w = Given(p)
      /\ s \in Views /\ Look(p, s) \in Views /\ Look(p, s).ordered
  BY UrlReads
<1>5. \/ q = CALLBACK_DATA(r, "url", a) \/ q = CALLBACK_DATA(t, "url", a)
      \/ q = Fail(p, "INVALID_URL") \/ q = url_char(p, ch)
  BY DEF s_req_url
<1>6. "s_req_http_start" \in States \cap AfterUrl /\ "s_req_line_almost_done" \in States \cap AfterUrl
      /\ "s_header_field_start" \in States
  BY DEF States, AfterUrl
<1>7. ASSUME NEW x \in {r, t} PROVE Told(CALLBACK_DATA(x, "url", a), s, w)
  <2>1. /\ Typed(x) /\ x.marks = p.marks /\ x.out = p.out /\ x.errno = "OK"
        /\ x.flags = p.flags /\ x.content_length = p.content_length
        /\ x.state \in AfterUrl \cup {"s_header_field_start"}
    <3>1. CASE x = r
      BY <1>1, <1>6, <3>1 DEF Goto, Typed, Fields
    <3>2. CASE x = t
      BY <1>1, <1>6, <3>2 DEF Typed, Fields
    <3> QED BY <1>7, <3>1, <3>2
  <2> HIDE DEF r, t
  <2>2. Look(x, s) = Look(p, s) /\ OnlyMark(x, "url")
    BY <1>3, <2>1, LookQuiet DEF OnlyMark, Marked
  <2>3. w = Given(x)
    BY <1>4, <2>1 DEF Given
  <2> QED BY <1>4, <2>1, <2>2, <2>3, FirstLineEnds
<1>8. Told(url_char(p, ch), s, w)
  BY <1>1, <1>4, UrlCharTold
<1>9. Told(Fail(p, "INVALID_URL"), s, w)
  BY <1>1, FailTold
<1> HIDE DEF q, r, t
<1>10. Told(q, s, w)
  BY <1>5, <1>7, <1>8, <1>9
<1> QED BY <1>10 DEF q

\* In the reason of a response.
LEMMA StatusTold ==
    ASSUME NEW p, Typed(p), p.errno = "OK", OnlyMark(p, "status"), NEW s \in Views,
           Look(p, s) \in Views, Look(p, s).ordered, Look(p, s).cb = "status",
           "TRAILING" \notin p.flags, NEW w, w = Given(p), p.state = "s_res_status",
           NEW ch, NEW a
    PROVE  Told(s_res_status(p, ch, a), s, w)
<1> DEFINE r(t) == Goto(p, t)
           q == s_res_status(p, ch, a)
<1>1. \/ q = CALLBACK_DATA(r("s_res_line_almost_done"), "status", a)
      \/ q = CALLBACK_DATA(r("s_header_field_start"), "status", a) \/ q = p
  BY DEF s_res_status
<1>2. ASSUME NEW t \in {"s_res_line_almost_done", "s_header_field_start"}
      PROVE  Told(CALLBACK_DATA(r(t), "status", a), s, w)
  <2> DEFINE x == r(t)
  <2>1. t \in States /\ (t = "s_header_field_start" \/ t \in Reason)
    BY <1>2 DEF States, Reason
  <2>2. /\ Typed(x) /\ x.marks = p.marks /\ x.out = p.out /\ x.errno = "OK"
        /\ x.flags = p.flags /\ x.content_length = p.content_length /\ x.state = t
    BY <2>1 DEF Goto, Typed, Fields
  <2> HIDE DEF x
  <2>3. Look(x, s) = Look(p, s) /\ OnlyMark(x, "status")
    BY <2>2, LookQuiet DEF OnlyMark, Marked
  <2>4. w = Given(x)
    BY <2>2 DEF Given
  <2>5. Told(CALLBACK_DATA(x, "status", a), s, w)
    BY <2>1, <2>2, <2>3, <2>4, FirstLineEnds
  <2> QED BY <2>5 DEF x
<1>3. Told(p, s, w)
  <2>1. p.state \in Reason
    BY DEF Reason
  <2>2. Book(p, Look(p, s), w) /\ p.state \in Other
    BY <2>1, AtReason, InOther
  <2>3. Tells(p, Look(p, s), w)
    BY <2>2, DataTells, DataNames
  <2> QED BY <2>3 DEF Told
<1> HIDE DEF q, r
<1>4. Told(q, s, w)
  BY <1>1, <1>2, <1>3
<1> QED BY <1>4 DEF q

LEMMA StatusStartTold ==
    ASSUME NEW p, Ready(p), NEW s, NEW w, Reads(p, s, w),
           p.state \in {"s_res_status_start", "s_res_status_code"}, NEW ch, NEW a
    PROVE  Told(s_res_status_start(p, ch, a), s, w)
<1> DEFINE m == MARK(p, "status")
           r == [m EXCEPT !.state = "s_res_status"]
<1>1. p.state \in Plain /\ p.state \in FirstLine
  BY DEF Plain, States, BodyStates, ChunkStates, SizeStates, UrlStates, Undecided, FirstLine
<1>2. NoMark(p) /\ Typed(p) /\ p.errno = "OK"
  BY <1>1, PlainReady, ReadyTyped
<1>3. OnlyMark(p, "status") /\ "status" \in DataCallbacks
  BY <1>2, DataNames DEF NoMark, OnlyMark
<1>4. IsMark(m, p, "status")
  BY <1>2, <1>3, MarkEffect
<1>5. /\ Look(p, s).cb = "message_begin" /\ "TRAILING" \notin p.flags /\ w = Given(p)
      /\ s \in Views /\ Look(p, s) \in Views /\ Look(p, s).ordered
  BY <1>1, FirstLineReads
<1>6. s_res_status_start(p, ch, a) = s_res_status(r, ch, a)
  BY DEF s_res_status_start
<1> HIDE DEF m
<1>7. Look(m, s) \in Views /\ Look(m, s).cb = "status" /\ Look(m, s).ordered
  BY <1>2, <1>3, <1>4, <1>5, Order, MarkHeard DEF Middle
<1>8. /\ Typed(r) /\ r.errno = "OK" /\ r.marks = m.marks /\ r.out = m.out /\ r.flags = p.flags
      /\ r.content_length = p.content_length /\ r.state = "s_res_status"
  <2>1. "s_res_status" \in States
    BY DEF States
  <2> QED BY <1>2, <1>4, <2>1 DEF IsMark, Kept, Typed, Fields
<1> HIDE DEF r
<1>9. Look(r, s) = Look(m, s) /\ OnlyMark(r, "status")
  BY <1>4, <1>8, LookQuiet DEF IsMark, OnlyMark, Marked
<1>10. w = Given(r)
  BY <1>5, <1>8 DEF Given
<1>11. Told(s_res_status(r, ch, a), s, w)
  BY <1>5, <1>7, <1>8, <1>9, <1>10, StatusTold
<1> QED BY <1>6, <1>11

LEMMA InStatusTold ==
    ASSUME NEW p, Ready(p), NEW s, NEW w, Reads(p, s, w), p.state = "s_res_status", NEW ch, NEW a
    PROVE  Told(s_res_status(p, ch, a), s, w)
<1>1. Typed(p) /\ p.errno = "OK" /\ p.state \in Reason
  BY ReadyTyped DEF Reason
<1>2. "status" \in DataCallbacks /\ Resumed(p.state) = {"status"}
  BY DataNames DEF Resumed, UrlStates
<1>3. OnlyMark(p, "status")
  BY <1>2, MarkedReady DEF Reading
<1> QED BY <1>1, <1>3, ReasonReads, StatusTold

LEMMA StatusCodeTold ==
    ASSUME NEW p, Ready(p), NEW s, NEW w, Reads(p, s, w), p.state = "s_res_status_code",
           NEW ch, NEW a
    PROVE  Told(s_res_status_code(p, ch, a), s, w)
<1> DEFINE q == s_res_status_code(p, ch, a)
           code == p.status_code * 10 + Digit[ch]
           r == [p EXCEPT !.status_code = code]
           x == Goto(p, "s_res_status_start")
<1>1. p.state \in Plain /\ p.state \in FirstLine /\ Goes(p.state, p.state)
      /\ "s_res_status_start" \in States /\ Goes(p.state, "s_res_status_start")
  BY DEF Plain, States, BodyStates, ChunkStates, SizeStates, UrlStates, Undecided, FirstLine,
     Goes
<1>2. NoMark(p) /\ Typed(p) /\ p.errno = "OK"
  BY <1>1, PlainReady, ReadyTyped
<1>3. \/ (ch \in Num /\ code <= 999 /\ q = r) \/ q = x \/ q = Fail(p, "INVALID_STATUS")
      \/ q = s_res_status_start(p, ch, a)
  <2>1. CASE ch \in Num
    <3>1. Digit[ch] \in Nat
      BY <2>1, DigitsNat
    <3>2. p.status_code \in 0..999
      BY <1>2 DEF Typed
    <3>3. code \in Nat
      <4>1. \A i \in 0..999, d \in Nat : i * 10 + d \in Nat
        OBVIOUS
      <4> QED BY <3>1, <3>2, <4>1
    <3> QED BY <2>1, <3>3 DEF s_res_status_code
  <2>2. CASE ch \notin Num
    BY <2>2 DEF s_res_status_code
  <2> QED BY <2>1, <2>2
<1>4. ASSUME ch \in Num, code <= 999 PROVE Told(r, s, w)
  <2>1. code \in 0..999
    <3>1. Digit[ch] \in Nat
      BY <1>4, DigitsNat
    <3>2. p.status_code \in 0..999
      BY <1>2 DEF Typed
    <3>3. code \in Nat
      <4>1. \A i \in 0..999, d \in Nat : i * 10 + d \in Nat
        OBVIOUS
      <4> QED BY <3>1, <3>2, <4>1
    <3> QED BY <1>4, <3>3
  <2> HIDE DEF code
  <2>2. IsQuiet(r, p) /\ SameHead(r, p) /\ r.state = p.state
    BY <1>2, <2>1 DEF IsQuiet, SameHead, Typed, Fields
  <2> HIDE DEF r
  <2> QED BY <1>1, <1>2, <2>2, GoesTold
<1>5. Told(x, s, w)
  <2>1. IsQuiet(x, p) /\ SameHead(x, p) /\ x.state = "s_res_status_start"
    BY <1>1, <1>2 DEF Goto, IsQuiet, SameHead, Typed, Fields
  <2> HIDE DEF x
  <2> QED BY <1>1, <1>2, <2>1, GoesTold
<1>6. Told(Fail(p, "INVALID_STATUS"), s, w)
  BY <1>2, FailTold
<1>7. Told(s_res_status_start(p, ch, a), s, w)
  BY StatusStartTold
<1> HIDE DEF q, r, x, code
<1>8. Told(q, s, w)
  BY <1>3, <1>4, <1>5, <1>6, <1>7
<1> QED BY <1>8 DEF q

-----------------------------------------------------------------------------
(* Bodies and chunks.                                                      *)

LEMMA RightAway ==
    ASSUME NEW q, NEW v, NEW w, v.cb # "message_complete", q.state # "s_chunk_size_start"
    PROVE  Right(q, v, w)
BY DEF Right

\* Bodies come when the trailing headers have not begun.
LEMMA BodyReads ==
    ASSUME NEW p, NEW s, NEW w, Reads(p, s, w), p.state \in BodyStates \cup ChunkStates
    PROVE  /\ "TRAILING" \notin p.flags
           /\ s \in Views /\ Look(p, s) \in Views /\ Look(p, s).ordered
BY DEF Reads, Book, Heard, BodyStates, ChunkStates, SizeStates, Heads, Between, LineStarts,
   NameStates, ValueStates

\* The end of an item at the current symbol, which belongs to it.
LEMMA MoreHeard ==
    ASSUME NEW p, Typed(p), NEW c \in DataCallbacks, OnlyMark(p, c), Marked(p, c), NEW a, NEW q,
           IsData(q, p, c, 1, a), NEW s \in Views, Look(p, s) \in Views, Look(p, s).ordered
    PROVE  /\ Look(q, s) \in Views /\ Look(q, s).cb = c /\ Look(q, s).ordered
           /\ ~Failed(q) => NoMark(q) /\ Look(q, s).n = Look(p, s).n + 1
<1> DEFINE v == Look(p, s)
           r == Report(s, q.out)
<1>1. 1 \in {0, 1} /\ 1 \in Nat /\ c \in Callbacks
  BY DataNames
<1>2. r = With(v, c, 1) /\ (~Failed(q) => Look(q, s) = r) /\ v.cb = c
  BY <1>1, LookData
<1>3. Look(q, s) = View(q, r)
  BY DEF Look
<1>4. v \in Views /\ v.ordered
  OBVIOUS
<1> HIDE DEF v, r
<1>5. r \in Views /\ r.cb = c /\ r.ordered /\ r.n = v.n + 1
  BY <1>1, <1>2, <1>4, WithType
<1>6. ASSUME Failed(q)
      PROVE  Look(q, s) \in Views /\ Look(q, s).cb = c /\ Look(q, s).ordered
  <2>1. Typed(q) /\ OnlyMark(q, c) /\ Marked(q, c)
    BY <1>6 DEF IsData, Marked
  <2>2. q.marks[c] \in Nat
    BY <2>1 DEF Marked, Typed
  <2>3. View(q, r) = With(r, c, q.marks[c])
    BY <1>5, <2>1, MarkedView
  <2>4. LET u == With(r, c, q.marks[c]) IN u \in Views /\ u.cb = c /\ u.ordered
    <3> DEFINE m == q.marks[c]
    <3>1. m \in Nat /\ c \in Callbacks /\ r \in Views
      BY <1>1, <1>5, <2>2
    <3> HIDE DEF m
    <3>2. /\ With(r, c, m) \in Views /\ With(r, c, m).cb = c
          /\ r.ordered /\ c = r.cb => With(r, c, m).ordered
      BY <3>1, WithType
    <3> QED BY <1>5, <3>2 DEF m
  <2> QED BY <1>3, <2>3, <2>4
<1>7. ~Failed(q) => NoMark(q)
  BY DEF IsData
<1> QED BY <1>2, <1>5, <1>6, <1>7 DEF v

\* The end of a message.
LEMMA CompleteTold ==
    ASSUME NEW p, Typed(p), NoMark(p), NEW s \in Views, Look(p, s) \in Views,
           Look(p, s).ordered, Look(p, s).cb \in {"headers_complete", "body", "chunk_complete"},
           NEW w, Look(p, s).cb = "body" => Look(p, s).n = w,
           Look(p, s).cb = "headers_complete" =>
             w = 0 \/ "SKIPBODY" \in p.flags \/ p.upgrade,
           NEW a
    PROVE  Told(message_complete(p, a), s, w)
<1> DEFINE t == NEW_MESSAGE(p)
           r == Goto(p, t)
           n == CALLBACK_NOTIFY(r, "message_complete", a)
           q == [n EXCEPT !.exited = p.upgrade]
           u == Look(q, s)
<1>1. message_complete(p, a) = q
  BY DEF message_complete
<1>2. t \in Between \cap States
  BY DEF NEW_MESSAGE, Between, States
<1> HIDE DEF t
<1>3. /\ Typed(r) /\ r.marks = p.marks /\ r.out = p.out /\ r.state = t /\ r.flags = p.flags
      /\ r.upgrade = p.upgrade
  BY <1>2 DEF Goto, Typed, Fields
<1> HIDE DEF r
<1>4. NoMark(r) /\ Look(r, s) = Look(p, s)
  BY <1>3, LookQuiet DEF NoMark, Marked
<1>5. "message_complete" \in Callbacks \ DataCallbacks
  BY DataNames
<1>6. IsCall(n, r, "message_complete", 0, 0, a)
  BY <1>3, <1>5, NotifyEffect
<1>7. "message_complete" \in Follows[Look(r, s).cb]
  BY <1>4, Order DEF Middle
<1>8. /\ NoMark(n) /\ Look(n, s) \in Views /\ Look(n, s).cb = "message_complete"
      /\ Look(n, s).ordered /\ Look(n, s).after.cb = Look(p, s).cb
      /\ Look(p, s).cb = "body" => Look(n, s).after.n = Look(p, s).n
  BY <1>3, <1>4, <1>5, <1>6, <1>7, CallHeard
<1> HIDE DEF n
<1>9. /\ q.marks = n.marks /\ q.out = n.out /\ q.state = t /\ q.flags = p.flags
      /\ q.upgrade = p.upgrade /\ q.exited = p.upgrade
  BY <1>3, <1>6 DEF IsCall, Kept, Typed, Fields
<1> HIDE DEF q
<1>10. u = Look(n, s) /\ NoMark(q)
  BY <1>8, <1>9, LookQuiet DEF NoMark, Marked
<1> HIDE DEF u
<1>11. Right(q, u, w)
  <2>1. q.state # "s_body_identity_eof"
    BY <1>2, <1>9 DEF Between
  <2> QED BY <1>8, <1>9, <1>10, <2>1 DEF Right
<1>12. Book(q, u, w)
  BY <1>2, <1>8, <1>9, <1>10, AtBetween
<1>13. Tells(q, u, w)
  BY <1>8, <1>10, <1>11, <1>12, PlainTells
<1> QED BY <1>1, <1>8, <1>10, <1>13 DEF Told, u

\* A body goes on, up to its last byte or not.
LEMMA BodyMark ==
    ASSUME NEW p, Ready(p), NEW s, NEW w, Reads(p, s, w),
           p.state \in {"s_body_identity", "s_body_identity_eof", "s_chunk_data"}
    PROVE  LET m == MARK(p, "body")
           IN  /\ IsMark(m, p, "body") /\ Look(m, s) \in Views /\ Look(m, s).cb = "body"
               /\ Look(m, s).ordered /\ Look(m, s).n = BodyRead(Look(p, s))
               /\ s \in Views /\ "TRAILING" \notin p.flags /\ p.errno = "OK"
<1> DEFINE m == MARK(p, "body")
           v == Look(p, s)
<1>1. p.state \in BodyStates /\ "body" \in DataCallbacks
  BY DataNames DEF BodyStates
<1>2. Typed(p) /\ OnlyMark(p, "body") /\ p.errno = "OK"
  BY <1>1, ReadyTyped, BodyReady
<1>3. IsMark(m, p, "body")
  BY <1>1, <1>2, MarkEffect
<1> HIDE DEF m
<1>4. "TRAILING" \notin p.flags /\ s \in Views /\ v \in Views /\ v.ordered
  BY <1>1, BodyReads
<1>5. v.cb \in {"headers_complete", "chunk_header", "body"}
  BY DEF Reads, Book, Heard
<1>6. "body" = v.cb \/ "body" \in Follows[v.cb]
  BY <1>5, Order DEF Middle
<1>7. /\ Look(m, s) \in Views /\ Look(m, s).cb = "body" /\ Look(m, s).ordered
      /\ "body" = v.cb => Look(m, s).n = v.n
      /\ "body" # v.cb => Look(m, s).n = 0
  BY <1>1, <1>2, <1>3, <1>4, <1>6, MarkHeard
<1> QED BY <1>2, <1>3, <1>4, <1>7 DEF m, BodyRead

\* A byte of a body that is not the last one in its state.
LEMMA BodyTold ==
    ASSUME NEW m, NEW q, Typed(q), NEW s, Marked(m, "body"),
           q.marks = m.marks, q.out = m.out, "TRAILING" \notin q.flags,
           Look(m, s) \in Views, Look(m, s).cb = "body", Look(m, s).ordered,
           NEW w, NEW n \in Nat, Look(m, s).n = n,
           \/ q.state \in {"s_body_identity", "s_chunk_data"} /\ w = q.content_length + (n + 1)
           \/ q.state = "s_body_identity_eof"
           \/ q.state = "s_chunk_data_almost_done" /\ w = n + 1
    PROVE  Told(q, s, w)
<1> DEFINE v == Look(q, s)
           u == Ticked(q, v)
<1>1. v = Look(m, s)
  BY LookQuiet
<1> HIDE DEF v
<1>2. "body" \in DataCallbacks /\ ~NoMark(q)
  BY DataNames DEF NoMark, Marked
<1>3. u.cb = "body" /\ u.n = n + 1
  BY <1>1, <1>2, TickedIs
<1> HIDE DEF u
<1>4. BodyRead(u) = n + 1
  BY <1>3 DEF BodyRead
<1>5. Book(q, u, w)
  <2>1. CASE q.state \in {"s_body_identity", "s_body_identity_eof"}
    BY <1>3, <1>4, <2>1, AtBody
  <2>2. CASE q.state = "s_chunk_data"
    BY <1>3, <1>4, <2>2, AtChunk
  <2>3. CASE q.state = "s_chunk_data_almost_done"
    BY <1>3, <2>3, AtChunkEnd
  <2> QED BY <2>1, <2>2, <2>3
<1>6. Right(q, v, w)
  BY <1>1, RightElse
<1>7. Tells(q, v, w)
  BY <1>1, <1>5, <1>6 DEF Tells, u
<1> QED BY <1>1, <1>7 DEF Told, v

LEMMA BodyEofTold ==
    ASSUME NEW p, Ready(p), NEW s, NEW w, Reads(p, s, w), p.state = "s_body_identity_eof"
    PROVE  Told(s_body_identity_eof(p), s, w)
<1> DEFINE m == MARK(p, "body")
           n == BodyRead(Look(p, s))
<1>1. /\ IsMark(m, p, "body") /\ Look(m, s) \in Views /\ Look(m, s).cb = "body"
      /\ Look(m, s).ordered /\ Look(m, s).n = n /\ "TRAILING" \notin p.flags
  BY BodyMark
<1> HIDE DEF m
<1>2. Typed(m) /\ Marked(m, "body") /\ m.state = p.state /\ m.flags = p.flags
  BY <1>1 DEF IsMark, Kept
<1>3. n \in Nat
  BY DEF Reads, BodyRead, Views
<1> HIDE DEF n
<1>4. Told(m, s, w)
  BY <1>1, <1>2, <1>3, BodyTold
<1> QED BY <1>4 DEF s_body_identity_eof, m

LEMMA BodyIdentityTold ==
    ASSUME NEW p, Ready(p), NEW s, NEW w, Reads(p, s, w), p.state = "s_body_identity",
           NEW ch, NEW a
    PROVE  Told(s_body_identity(p, ch, a), s, w)
<1> DEFINE m == MARK(p, "body")
           n == BodyRead(Look(p, s))
           q == [m EXCEPT !.content_length = @ - 1]
           d == CALLBACK_DATA_(q, "body", 1, a)
           l == p.content_length
<1>1. /\ IsMark(m, p, "body") /\ Look(m, s) \in Views /\ Look(m, s).cb = "body"
      /\ Look(m, s).ordered /\ Look(m, s).n = n /\ "TRAILING" \notin p.flags
      /\ s \in Views /\ p.errno = "OK"
  BY BodyMark
<1>2. s_body_identity(p, ch, a) =
        IF q.content_length > 0 THEN q ELSE IF Failed(d) THEN d ELSE message_complete(d, a)
  BY DEF s_body_identity
<1> HIDE DEF m
<1>3. /\ Typed(m) /\ Marked(m, "body") /\ OnlyMark(m, "body") /\ m.state = p.state
      /\ m.flags = p.flags /\ m.content_length = l /\ m.errno = "OK"
  BY <1>1 DEF IsMark, Kept
<1>4. n \in Nat /\ w = l + n
  BY DEF Reads, Book, Length, BodyRead, Views
<1>5. l \in 1..(ULLONG_MAX - 1)
  BY DEF Ready, Control, BodyLeft
<1> HIDE DEF n, l
<1>6. l - 1 \in 0..ULLONG_MAX /\ l - 1 + (n + 1) = l + n /\ (~(l - 1 > 0) => n + 1 = l + n)
  BY <1>4, <1>5, HttpParserAssumption
<1>7. /\ Typed(q) /\ q.marks = m.marks /\ q.out = m.out /\ q.state = p.state
      /\ q.flags = p.flags /\ q.content_length = l - 1 /\ q.errno = "OK"
  BY <1>3, <1>6 DEF Typed, Fields
<1> HIDE DEF q
<1>8. CASE q.content_length > 0
  <2>1. Told(q, s, w)
    BY <1>1, <1>3, <1>4, <1>6, <1>7, BodyTold
  <2> QED BY <1>2, <1>8, <2>1
<1>9. CASE ~(q.content_length > 0)
  <2>1. OnlyMark(q, "body") /\ Marked(q, "body") /\ Look(q, s) = Look(m, s)
    BY <1>3, <1>7, LookQuiet DEF OnlyMark, Marked
  <2>2. 1 \in {0, 1} /\ "body" \in DataCallbacks
    BY DataNames
  <2>3. IsData(d, q, "body", 1, a)
    BY <1>7, <2>1, <2>2, DataEffect
  <2> HIDE DEF d
  <2>4. /\ Look(d, s) \in Views /\ Look(d, s).cb = "body" /\ Look(d, s).ordered
        /\ ~Failed(d) => NoMark(d) /\ Look(d, s).n = n + 1
    BY <1>1, <1>7, <2>1, <2>2, <2>3, MoreHeard
  <2>5. CASE Failed(d)
    <3>1. Right(d, Look(d, s), w)
      BY <2>4, RightElse
    <3>2. Told(d, s, w)
      BY <2>4, <2>5, <3>1 DEF Told, Tells
    <3> QED BY <1>2, <1>9, <2>5, <3>2
  <2>6. CASE ~Failed(d)
    <3>1. Typed(d)
      BY <2>3 DEF IsData
    <3>2. Look(d, s).n = w
      BY <1>4, <1>6, <1>7, <1>9, <2>4, <2>6
    <3>3. Told(message_complete(d, a), s, w)
      BY <1>1, <2>4, <2>6, <3>1, <3>2, CompleteTold
    <3> QED BY <1>2, <1>9, <2>6, <3>3
  <2> QED BY <2>5, <2>6
<1> QED BY <1>8, <1>9

-----------------------------------------------------------------------------
(* The size of a chunk.                                                    *)

LEMMA SizeReads ==
    ASSUME NEW p, Ready(p), NEW s, NEW w, Reads(p, s, w), p.state \in ChunkStates \ BodyStates
    PROVE  /\ Typed(p) /\ NoMark(p) /\ p.errno = "OK" /\ "TRAILING" \notin p.flags
           /\ s \in Views /\ Look(p, s) \in Views /\ Look(p, s).ordered
           /\ p.state # "s_chunk_data_done" =>
                Look(p, s).cb \in {"headers_complete", "chunk_complete"}
           /\ p.state = "s_chunk_data_done" => Look(p, s).cb = "body" /\ Look(p, s).n = w
           /\ p.state \in SizeStates => w = p.content_length
<1>1. Typed(p) /\ NoMark(p) /\ p.errno = "OK"
  BY ChunkReady, ReadyTyped
<1>2. /\ "TRAILING" \notin p.flags
      /\ s \in Views /\ Look(p, s) \in Views /\ Look(p, s).ordered
  BY BodyReads
<1>3. Heard(p, Look(p, s)) /\ Length(p, Look(p, s), w)
  BY DEF Reads, Book
<1>4. p.state # "s_chunk_data_done" => p.state \in SizeStates \cup {"s_chunk_size_start"}
  BY DEF ChunkStates, BodyStates
<1>5. p.state # "s_chunk_data_done" => Look(p, s).cb \in {"headers_complete", "chunk_complete"}
  BY <1>3, <1>4 DEF Heard
<1>6. p.state = "s_chunk_data_done" => Look(p, s).cb = "body" /\ Look(p, s).n = w
  BY <1>3 DEF Heard, Length
<1>7. p.state \in SizeStates => w = p.content_length
  BY <1>3 DEF Length
<1> QED BY <1>1, <1>2, <1>5, <1>6, <1>7

\* A symbol of the size, after which u is the length that was written.
LEMMA SizeTold ==
    ASSUME NEW p, Ready(p), NEW s, NEW w, Reads(p, s, w),
           p.state \in SizeStates \cup {"s_chunk_size_start"}, NEW q, IsQuiet(q, p),
           q.state \in SizeStates, q.flags = p.flags, NEW u, ~Failed(q) => u = q.content_length
    PROVE  Told(q, s, u)
<1> DEFINE v == Look(p, s)
<1>1. p.state \in ChunkStates \ BodyStates /\ p.state # "s_chunk_data_done"
  BY DEF ChunkStates, BodyStates, SizeStates
<1>2. /\ NoMark(p) /\ "TRAILING" \notin p.flags
      /\ v.cb \in {"headers_complete", "chunk_complete"}
  BY <1>1, SizeReads
<1> HIDE DEF v
<1>3. Right(q, v, u)
  BY <1>2, RightAway DEF SizeStates
<1>4. ~Failed(q) => Book(q, v, u)
  BY <1>2, AtSize
<1> QED BY <1>2, <1>3, <1>4, QuietTold DEF v

LEMMA ChunkSizeStartTold ==
    ASSUME NEW p, Ready(p), NEW s, NEW w, Reads(p, s, w), p.state = "s_chunk_size_start", NEW ch,
           NEW u, u = IF Failed(s_chunk_size_start(p, ch)) THEN w ELSE unhex[ch]
    PROVE  Told(s_chunk_size_start(p, ch), s, u)
<1> DEFINE q == s_chunk_size_start(p, ch)
<1>1. Typed(p) /\ p.errno = "OK" /\ IsQuiet(q, p)
  BY ReadyTyped, ChunkSizeStartDone
<1>2. CASE ch \notin Hex
  <2>1. q = Fail(p, "INVALID_CHUNK_SIZE")
    BY <1>2 DEF s_chunk_size_start
  <2>2. Failed(q)
    BY <1>1, <2>1 DEF Fail, Failed, Typed, Fields
  <2>3. u = w
    BY <2>2
  <2> HIDE DEF q
  <2> QED BY <1>1, <2>1, <2>3, FailTold DEF q
<1>3. CASE ch \in Hex
  <2>1. /\ q.content_length = unhex[ch] /\ q.state = "s_chunk_size" /\ q.errno = "OK"
        /\ q.flags = p.flags
    BY <1>1, <1>3 DEF s_chunk_size_start, Typed, Fields
  <2>2. u = unhex[ch]
    BY <2>1 DEF Failed
  <2>3. q.state \in SizeStates
    BY <2>1 DEF SizeStates
  <2> HIDE DEF q
  <2> QED BY <1>1, <2>1, <2>2, <2>3, SizeTold DEF q
<1> QED BY <1>2, <1>3

LEMMA ChunkSizeTold ==
    ASSUME NEW p, Ready(p), NEW s, NEW w, Reads(p, s, w), p.state = "s_chunk_size", NEW ch,
           NEW u, u = IF ch \in Hex /\ ~Failed(s_chunk_size(p, ch)) THEN w * 16 + unhex[ch]
                      ELSE w
    PROVE  Told(s_chunk_size(p, ch), s, u)
<1> DEFINE q == s_chunk_size(p, ch)
<1>1. Typed(p) /\ p.errno = "OK" /\ IsQuiet(q, p)
  BY ReadyTyped, ChunkSizeDone
<1>2. p.state \in SizeStates /\ p.state \in ChunkStates \ BodyStates
  BY DEF SizeStates, ChunkStates, BodyStates
<1>3. w = p.content_length
  BY <1>2, SizeReads
<1>4. CR \notin Hex /\ ";" \notin Hex /\ Blank \notin Hex /\ CR \notin {";", Blank}
  BY DEF Hex, Num, CR, Blank
<1>5. CASE ch \in Hex
  <2> DEFINE d == unhex[ch]
  <2>1. d \in 0..15
    BY <1>5 DEF unhex, Hex, Num, Digit
  <2>2. q = Digits(p, 16, d)
    BY <1>4, <1>5 DEF s_chunk_size
  <2>3. d \in 0..(16 - 1)
    BY <2>1
  <2>4. u = IF Failed(q) THEN w ELSE w * 16 + d
    BY <1>5
  <2> HIDE DEF q, d
  <2>5. IsDigits(q, p, 16, d)
    BY <1>1, <2>2, <2>3, DigitsEffect
  <2>6. q.state \in SizeStates /\ q.flags = p.flags /\ (~Failed(q) => u = q.content_length)
    BY <1>2, <1>3, <2>4, <2>5 DEF IsDigits, Failed
  <2> QED BY <1>1, <1>2, <2>6, SizeTold DEF q
<1>6. CASE ch \notin Hex
  <2>1. u = w
    BY <1>6
  <2>2. CASE ch \in {CR, ";", Blank}
    <3>1. \E t \in SizeStates : q = Goto(p, t)
      BY <1>4, <1>6, <2>2 DEF s_chunk_size, SizeStates
    <3> HIDE DEF q
    <3>2. q.state \in SizeStates /\ q.flags = p.flags /\ q.content_length = p.content_length
      BY <1>1, <3>1 DEF Goto, Typed, Fields
    <3> QED BY <1>1, <1>2, <1>3, <2>1, <3>2, SizeTold DEF q
  <2>3. CASE ch \notin {CR, ";", Blank}
    <3>1. q = Fail(p, "INVALID_CHUNK_SIZE")
      BY <1>6, <2>3 DEF s_chunk_size
    <3> HIDE DEF q
    <3> QED BY <1>1, <2>1, <3>1, FailTold DEF q
  <2> QED BY <2>2, <2>3
<1> QED BY <1>5, <1>6

LEMMA ChunkParametersTold ==
    ASSUME NEW p, Ready(p), NEW s, NEW w, Reads(p, s, w), p.state = "s_chunk_parameters", NEW ch
    PROVE  Told(s_chunk_parameters(p, ch), s, w)
<1> DEFINE q == s_chunk_parameters(p, ch)
<1>1. Typed(p) /\ IsQuiet(q, p)
  BY ReadyTyped, ChunkParametersDone
<1>2. p.state \in SizeStates /\ p.state \in ChunkStates \ BodyStates
  BY DEF SizeStates, ChunkStates, BodyStates
<1>3. w = p.content_length
  BY <1>2, SizeReads
<1>4. q.state \in SizeStates /\ q.flags = p.flags /\ q.content_length = p.content_length
  BY <1>1, <1>2 DEF s_chunk_parameters, Goto, Typed, Fields, SizeStates
<1> HIDE DEF q
<1> QED BY <1>1, <1>2, <1>3, <1>4, SizeTold DEF q

LEMMA ChunkHeaderTold ==
    ASSUME NEW p, Ready(p), NEW s, NEW w, Reads(p, s, w), p.state = "s_chunk_size_almost_done",
           NEW ch, NEW a
    PROVE  Told(s_chunk_size_almost_done(p, ch, a), s, w)
<1> DEFINE last == p.content_length = 0
           f == IF last THEN p.flags \cup {"TRAILING"} ELSE p.flags
           t == IF last THEN "s_header_field_start" ELSE "s_chunk_data"
           r == [p EXCEPT !.flags = f, !.state = t]
           q == CALLBACK_NOTIFY(r, "chunk_header", a)
           u == Look(q, s)
<1>1. p.state \in SizeStates /\ p.state \in ChunkStates \ BodyStates
      /\ p.state # "s_chunk_data_done"
  BY DEF SizeStates, ChunkStates, BodyStates
<1>2. /\ Typed(p) /\ NoMark(p) /\ p.errno = "OK" /\ "TRAILING" \notin p.flags
      /\ s \in Views /\ Look(p, s) \in Views /\ Look(p, s).ordered
      /\ Look(p, s).cb \in {"headers_complete", "chunk_complete"} /\ w = p.content_length
  BY <1>1, SizeReads
<1>3. s_chunk_size_almost_done(p, ch, a) = IF ch # LF THEN Fail(p, "STRICT") ELSE q
  BY DEF s_chunk_size_almost_done
<1>4. Told(Fail(p, "STRICT"), s, w)
  BY <1>2, FailTold
<1>5. f \in SUBSET Flags /\ t \in States /\ t \in {"s_header_field_start", "s_chunk_data"}
      /\ (t = "s_header_field_start" => "TRAILING" \in f)
      /\ (t = "s_chunk_data" => "TRAILING" \notin f)
  BY <1>2 DEF Flags, States, Typed
<1> HIDE DEF f, t
<1>6. /\ Typed(r) /\ r.marks = p.marks /\ r.out = p.out /\ r.state = t /\ r.flags = f
      /\ r.content_length = p.content_length
  BY <1>2, <1>5 DEF Typed, Fields
<1> HIDE DEF r
<1>7. NoMark(r) /\ Look(r, s) = Look(p, s)
  BY <1>2, <1>6, LookQuiet DEF NoMark, Marked
<1>8. "chunk_header" \in Callbacks \ DataCallbacks /\ "chunk_header" \in Follows[Look(r, s).cb]
  BY <1>2, <1>7, DataNames, Order DEF Middle
<1>9. IsCall(q, r, "chunk_header", 0, 0, a)
  BY <1>6, <1>8, NotifyEffect
<1> HIDE DEF q
<1>10. NoMark(q) /\ u \in Views /\ u.cb = "chunk_header" /\ u.ordered
  BY <1>2, <1>6, <1>7, <1>8, <1>9, CallHeard
<1>11. q.state = t /\ q.flags = f /\ q.content_length = p.content_length
  BY <1>6, <1>9 DEF IsCall, Kept
<1> HIDE DEF u
<1>12. Book(q, u, w)
  <2>1. CASE t = "s_header_field_start"
    BY <1>5, <1>10, <1>11, <2>1, AtLine DEF LineStarts
  <2>2. CASE t = "s_chunk_data"
    <3>1. BodyRead(u) = 0 /\ p.content_length + 0 = p.content_length
      BY <1>2, <1>10 DEF BodyRead, Typed
    <3> QED BY <1>2, <1>5, <1>10, <1>11, <2>2, <3>1, AtChunk
  <2> QED BY <1>5, <2>1, <2>2
<1>13. Right(q, u, w)
  BY <1>10, RightElse
<1>14. Told(q, s, w)
  BY <1>10, <1>12, <1>13, PlainTells DEF Told, u
<1> QED BY <1>3, <1>4, <1>14

-----------------------------------------------------------------------------
(* The data of a chunk.                                                    *)

LEMMA ChunkDataTold ==
    ASSUME NEW p, Ready(p), NEW s, NEW w, Reads(p, s, w), p.state = "s_chunk_data", NEW ch
    PROVE  Told(s_chunk_data(p, ch), s, w)
<1> DEFINE m == MARK(p, "body")
           n == BodyRead(Look(p, s))
           r == [m EXCEPT !.content_length = @ - 1]
           q == s_chunk_data(p, ch)
           l == p.content_length
<1>1. /\ IsMark(m, p, "body") /\ Look(m, s) \in Views /\ Look(m, s).cb = "body"
      /\ Look(m, s).ordered /\ Look(m, s).n = n /\ "TRAILING" \notin p.flags
  BY BodyMark
<1>2. q = IF r.content_length = 0 THEN Goto(r, "s_chunk_data_almost_done") ELSE r
  BY DEF s_chunk_data
<1> HIDE DEF m, q
<1>3. /\ Typed(m) /\ Marked(m, "body") /\ m.state = p.state /\ m.flags = p.flags
      /\ m.content_length = l
  BY <1>1 DEF IsMark, Kept
<1>4. n \in Nat /\ w = l + n
  BY DEF Reads, Book, Length, BodyRead, Views
<1>5. l \in 1..(ULLONG_MAX - 1)
  BY DEF Ready, Control, BodyLeft
<1> HIDE DEF n, l
<1>6. l - 1 \in 0..ULLONG_MAX /\ l - 1 + (n + 1) = l + n /\ (l - 1 = 0 => n + 1 = l + n)
  BY <1>4, <1>5, HttpParserAssumption
<1>7. /\ Typed(r) /\ r.marks = m.marks /\ r.out = m.out /\ r.state = p.state
      /\ r.flags = p.flags /\ r.content_length = l - 1
  BY <1>3, <1>6 DEF Typed, Fields
<1> HIDE DEF r
<1>8. CASE r.content_length = 0
  <2>1. "s_chunk_data_almost_done" \in States
    BY DEF States
  <2>2. q = Goto(r, "s_chunk_data_almost_done")
    BY <1>2, <1>8
  <2>3. /\ Typed(q) /\ q.marks = m.marks /\ q.out = m.out
        /\ q.state = "s_chunk_data_almost_done" /\ q.flags = p.flags
    BY <1>7, <2>1, <2>2 DEF Goto, Typed, Fields
  <2>4. w = n + 1
    BY <1>4, <1>6, <1>7, <1>8
  <2>5. Told(q, s, w)
    BY <1>1, <1>3, <1>4, <2>3, <2>4, BodyTold
  <2> QED BY <2>5 DEF q
<1>9. CASE r.content_length # 0
  <2>1. w = r.content_length + (n + 1)
    BY <1>4, <1>6, <1>7
  <2>2. Told(r, s, w)
    BY <1>1, <1>3, <1>4, <1>7, <2>1, BodyTold
  <2> QED BY <1>2, <1>9, <2>2 DEF q
<1> QED BY <1>8, <1>9

LEMMA ChunkDataEndTold ==
    ASSUME NEW p, Ready(p), NEW s, NEW w, Reads(p, s, w), p.state = "s_chunk_data_almost_done",
           NEW ch, NEW a
    PROVE  Told(s_chunk_data_almost_done(p, ch, a), s, w)
<1> DEFINE r == Goto(p, "s_chunk_data_done")
           q == CALLBACK_DATA(r, "body", a)
           v == Look(p, s)
<1>1. p.state \in BodyStates \cap ChunkStates /\ "body" \in DataCallbacks
      /\ "s_chunk_data_done" \in States
  BY DataNames DEF BodyStates, ChunkStates, States
<1>2. Typed(p) /\ OnlyMark(p, "body") /\ p.errno = "OK"
  BY <1>1, ReadyTyped, BodyReady
<1>3. "TRAILING" \notin p.flags /\ s \in Views /\ v \in Views /\ v.ordered
  BY <1>1, BodyReads
<1>4. v.cb = "body" /\ v.n = w
  BY DEF Reads, Book, Heard, Length
<1>5. s_chunk_data_almost_done(p, ch, a) = IF ch # CR THEN Fail(p, "STRICT") ELSE q
  BY DEF s_chunk_data_almost_done
<1>6. Told(Fail(p, "STRICT"), s, w)
  BY <1>2, FailTold
<1>7. /\ Typed(r) /\ r.marks = p.marks /\ r.out = p.out /\ r.errno = "OK"
      /\ r.state = "s_chunk_data_done" /\ r.flags = p.flags
  BY <1>1, <1>2 DEF Goto, Typed, Fields
<1> HIDE DEF r
<1>8. OnlyMark(r, "body") /\ Look(r, s) = v
  BY <1>2, <1>7, LookQuiet DEF OnlyMark, Marked
<1> HIDE DEF v
<1>9. IsData(q, r, "body", 0, a)
  <2>1. 0 \in {0, 1}
    OBVIOUS
  <2> QED BY <1>1, <1>7, <1>8, <2>1, DataEffect DEF CALLBACK_DATA
<1> HIDE DEF q
<1>10. /\ Look(q, s) \in Views /\ Look(q, s).cb = "body" /\ Look(q, s).ordered
       /\ ~Failed(q) => NoMark(q) /\ Look(q, s) = v
  BY <1>1, <1>3, <1>4, <1>7, <1>8, <1>9, DataHeard
<1>11. Right(q, Look(q, s), w)
  BY <1>10, RightElse
<1>12. ASSUME ~Failed(q) PROVE Tells(q, Look(q, s), w)
  <2>1. q.state = "s_chunk_data_done" /\ q.flags = p.flags
    BY <1>7, <1>9 DEF IsData, Kept
  <2>2. Book(q, Look(q, s), w)
    BY <1>3, <1>4, <1>10, <1>12, <2>1, AtChunkEnd
  <2> QED BY <1>10, <1>11, <1>12, <2>2, PlainTells
<1>13. Told(q, s, w)
  BY <1>10, <1>11, <1>12 DEF Told, Tells
<1> QED BY <1>5, <1>6, <1>13

LEMMA ChunkCompleteTold ==
    ASSUME NEW p, Ready(p), NEW s, NEW w, Reads(p, s, w), p.state = "s_chunk_data_done",
           NEW ch, NEW a
    PROVE  Told(s_chunk_data_done(p, ch, a), s, w)
<1> DEFINE r == Goto(p, "s_chunk_size_start")
           q == CALLBACK_NOTIFY(r, "chunk_complete", a)
           u == Look(q, s)
<1>1. p.state \in ChunkStates \ BodyStates /\ "s_chunk_size_start" \in States
  BY DEF ChunkStates, BodyStates, States
<1>2. /\ Typed(p) /\ NoMark(p) /\ p.errno = "OK" /\ "TRAILING" \notin p.flags
      /\ s \in Views /\ Look(p, s) \in Views /\ Look(p, s).ordered
      /\ Look(p, s).cb = "body" /\ Look(p, s).n = w
  BY <1>1, SizeReads
<1>3. s_chunk_data_done(p, ch, a) = IF ch # LF THEN Fail(p, "STRICT") ELSE q
  BY DEF s_chunk_data_done
<1>4. Told(Fail(p, "STRICT"), s, w)
  BY <1>2, FailTold
<1>5. /\ Typed(r) /\ r.marks = p.marks /\ r.out = p.out /\ r.state = "s_chunk_size_start"
      /\ r.flags = p.flags
  BY <1>1, <1>2 DEF Goto, Typed, Fields
<1> HIDE DEF r
<1>6. NoMark(r) /\ Look(r, s) = Look(p, s)
  BY <1>2, <1>5, LookQuiet DEF NoMark, Marked
<1>7. "chunk_complete" \in Callbacks \ DataCallbacks
      /\ "chunk_complete" \in Follows[Look(r, s).cb]
  BY <1>2, <1>6, DataNames, Order DEF Middle
<1>8. IsCall(q, r, "chunk_complete", 0, 0, a)
  BY <1>5, <1>7, NotifyEffect
<1> HIDE DEF q
<1>9. /\ NoMark(q) /\ u \in Views /\ u.cb = "chunk_complete" /\ u.ordered
      /\ u.after.cb = "body" /\ u.after.n = w
  BY <1>2, <1>5, <1>6, <1>7, <1>8, CallHeard
<1>10. q.state = "s_chunk_size_start" /\ q.flags = p.flags
  BY <1>5, <1>8 DEF IsCall, Kept
<1> HIDE DEF u
<1>11. Book(q, u, w)
  BY <1>2, <1>9, <1>10, AtSize DEF SizeStates
<1>12. Right(q, u, w)
  BY <1>9, <1>10 DEF Right
<1>13. Told(q, s, w)
  BY <1>9, <1>11, <1>12, PlainTells DEF Told, u
<1> QED BY <1>3, <1>4, <1>13

-----------------------------------------------------------------------------
(* The end of the headers.                                                 *)

\* An error after an item that ends nothing.
LEMMA FailElse ==
    ASSUME NEW p, Typed(p), NEW s, Look(p, s) \in Views, Look(p, s).ordered,
           Look(p, s).cb \notin {"chunk_complete", "message_complete"}, NEW w, NEW e, e # "OK"
    PROVE  Told(Fail(p, e), s, w)
<1> DEFINE q == Fail(p, e)
<1>1. q.marks = p.marks /\ q.out = p.out /\ Failed(q)
  BY DEF Fail, Failed, Typed, Fields
<1> HIDE DEF q
<1>2. Look(q, s) = Look(p, s)
  BY <1>1, LookQuiet
<1>3. Right(q, Look(q, s), w)
  BY <1>2, RightElse
<1> QED BY <1>1, <1>2, <1>3 DEF Told, Tells, q

\* A body begins.
LEMMA BodyBegins ==
    ASSUME NEW p, Typed(p), NoMark(p), NEW s, Look(p, s) \in Views, Look(p, s).ordered,
           Look(p, s).cb = "headers_complete", "TRAILING" \notin p.flags, NEW w,
           NEW t \in {"s_chunk_size_start", "s_body_identity", "s_body_identity_eof"},
           t = "s_body_identity" => w = p.content_length
    PROVE  Told(Goto(p, t), s, w)
<1> DEFINE q == Goto(p, t)
           v == Look(p, s)
<1>1. /\ q.marks = p.marks /\ q.out = p.out /\ q.flags = p.flags /\ q.state = t
      /\ q.content_length = p.content_length
  BY DEF Goto, Typed, Fields
<1> HIDE DEF q
<1>2. NoMark(q) /\ Look(q, s) = v
  BY <1>1, LookQuiet DEF NoMark, Marked
<1> HIDE DEF v
<1>3. v.cb = "headers_complete" /\ v \in Views /\ v.ordered
  BY DEF v
<1>4. Right(q, v, w)
  BY <1>3, RightElse
<1>5. Book(q, v, w)
  <2>1. CASE t = "s_chunk_size_start"
    BY <1>1, <1>3, <2>1, AtSize DEF SizeStates
  <2>2. CASE t \in {"s_body_identity", "s_body_identity_eof"}
    <3>1. BodyRead(v) = 0 /\ p.content_length + 0 = p.content_length
      BY <1>3 DEF BodyRead, Typed
    <3> QED BY <1>1, <1>3, <2>2, <3>1, AtBody
  <2> QED BY <2>1, <2>2
<1>6. Tells(q, v, w)
  BY <1>2, <1>3, <1>4, <1>5, PlainTells
<1> QED BY <1>2, <1>3, <1>6 DEF Told, q

LEMMA HeadersDoneTold ==
    ASSUME NEW p, Steady(p), NEW s \in Views, Look(p, s) \in Views, Look(p, s).ordered,
           Look(p, s).cb = "headers_complete", "TRAILING" \notin p.flags,
           NEW w, w = Given(p), NEW a
    PROVE  Told(s_headers_done(p, a), s, w)
<1> DEFINE c == message_complete(p, a)
           body == p.content_length \in 1..(ULLONG_MAX - 1)
           hasBody == "CHUNKED" \in p.flags \/ body
           over == \/ p.upgrade /\ (p.method = "CONNECT" \/ "SKIPBODY" \in p.flags \/ ~hasBody)
                   \/ "SKIPBODY" \in p.flags
           needs == p.content_length = ULLONG_MAX /\ http_message_needs_eof(p)
<1>1. Typed(p) /\ NoMark(p)
  BY DEF Steady
<1>2. s_headers_done(p, a) =
        IF over THEN c
        ELSE IF "CHUNKED" \in p.flags THEN Goto(p, "s_chunk_size_start")
        ELSE IF "TRANSFER_ENCODING" \in p.flags
        THEN IF p.type = "REQUEST" THEN Fail(p, "INVALID_TRANSFER_ENCODING")
             ELSE Goto(p, "s_body_identity_eof")
        ELSE IF hasBody THEN Goto(p, "s_body_identity")
        ELSE IF needs THEN Goto(p, "s_body_identity_eof") ELSE c
  BY DEF s_headers_done, c
<1>3. p.content_length \in 0..ULLONG_MAX
  BY <1>1 DEF Typed
<1>4. IF body THEN w = p.content_length ELSE w = 0
  <2>1. ULLONG_MAX \in Nat
    BY HttpParserAssumption
  <2> QED BY <1>3, <2>1 DEF Given
<1>5. ASSUME over \/ ~body PROVE Told(c, s, w)
  <2>1. w = 0 \/ "SKIPBODY" \in p.flags \/ p.upgrade
    BY <1>4, <1>5
  <2> QED BY <1>1, <2>1, CompleteTold
<1>6. Told(Goto(p, "s_chunk_size_start"), s, w) /\ Told(Goto(p, "s_body_identity_eof"), s, w)
  BY <1>1, BodyBegins
<1>7. ASSUME body PROVE Told(Goto(p, "s_body_identity"), s, w)
  BY <1>1, <1>4, <1>7, BodyBegins
<1>8. Told(Fail(p, "INVALID_TRANSFER_ENCODING"), s, w)
  BY <1>1, FailElse
<1>9. hasBody => "CHUNKED" \in p.flags \/ body
  OBVIOUS
<1>10. body => hasBody
  OBVIOUS
<1> HIDE DEF c, over, needs, hasBody, body
<1> QED BY <1>2, <1>5, <1>6, <1>7, <1>8, <1>9, <1>10

\* Where a line of the headers may begin.
Lines(p, s, w) ==
    /\ s \in Views /\ Look(p, s) \in Views /\ Look(p, s).ordered
    /\ IF "TRAILING" \in p.flags THEN Look(p, s).cb \in {"header_value", "chunk_header"}
       ELSE Look(p, s).cb \in {"header_value", "url", "status"} /\ w = Given(p)

LEMMA LinesElse ==
    ASSUME NEW p, NEW s, NEW w, Lines(p, s, w)
    PROVE  /\ s \in Views /\ Look(p, s) \in Views /\ Look(p, s).ordered
           /\ Look(p, s).cb \notin {"chunk_complete", "message_complete"}
           /\ "header_field" \in Follows[Look(p, s).cb] /\ Look(p, s).cb # "header_field"
BY Order DEF Lines, Middle

LEMMA AnsweredHeard ==
    ASSUME NEW p, Typed(p), NoMark(p), NEW s \in Views, Look(p, s) \in Views, Look(p, s).ordered,
           Look(p, s).cb \in {"header_value", "url", "status"}, NEW h, IsAnswered(h, p)
    PROVE  /\ NoMark(h) /\ Look(h, s) \in Views /\ Look(h, s).cb = "headers_complete"
           /\ Look(h, s).ordered
<1> DEFINE v == Look(p, s)
           c == "headers_complete"
           e == [cb |-> c, n |-> 0, extra |-> 0]
<1>1. NoMark(h) /\ h.out = Append(p.out, e)
  BY DEF IsAnswered, NoMark, Marked
<1>2. c \in Callbacks \ DataCallbacks /\ 0 \in Nat /\ c \in Follows[v.cb]
  BY DataNames, Order DEF Middle
<1>3. e \in Event
  BY <1>2 DEF Event
<1>4. Report(s, Append(p.out, e)) = Add(Report(s, p.out), e)
  BY <1>3, ReportOne DEF Typed
<1>5. v = Report(s, p.out) /\ Look(h, s) = Report(s, h.out)
  BY <1>1, NoMarkView DEF Look
<1>6. Look(h, s) = With(v, c, 0)
  BY <1>1, <1>4, <1>5 DEF With
<1> HIDE DEF v, c, e
<1>7. v \in Views /\ v.ordered
  BY DEF v
<1>8. With(v, c, 0) \in Views /\ With(v, c, 0).cb = c /\ With(v, c, 0).ordered
  BY <1>2, <1>7, WithType
<1> QED BY <1>1, <1>6, <1>8 DEF c

LEMMA HeadersEndTold ==
    ASSUME NEW p, Steady(p), NEW s, NEW w, Lines(p, s, w), NEW ch, NEW a
    PROVE  Told(s_headers_almost_done(p, ch, a), s, w)
<1> DEFINE t == CALLBACK_NOTIFY(p, "chunk_complete", a)
           h == Answered(p, a)
           c == message_complete(t, a)
           d == s_headers_done(h, a)
<1>1. Typed(p) /\ NoMark(p) /\ p.state \in Plain
  BY DEF Steady
<1>2. /\ s \in Views /\ Look(p, s) \in Views /\ Look(p, s).ordered
      /\ Look(p, s).cb \notin {"chunk_complete", "message_complete"}
  BY LinesElse
<1>3. Told(Fail(p, "STRICT"), s, w) /\ Told(Fail(p, "UNEXPECTED_CONTENT_LENGTH"), s, w)
  BY <1>1, <1>2, FailElse
<1>4. s_headers_almost_done(p, ch, a) =
        CASE ch # LF -> Fail(p, "STRICT")
          [] ch = LF /\ "TRAILING" \in p.flags -> IF Failed(t) THEN t ELSE c
          [] ch = LF /\ "TRAILING" \notin p.flags
                /\ {"TRANSFER_ENCODING", "CONTENTLENGTH"} \subseteq p.flags ->
                Fail(p, "UNEXPECTED_CONTENT_LENGTH")
          [] OTHER -> IF Failed(h) THEN h ELSE d
  BY DEF s_headers_almost_done, Answered
<1>5. "chunk_complete" \in Callbacks \ DataCallbacks
  BY DataNames
<1>6. IsCall(t, p, "chunk_complete", 0, 0, a)
  BY <1>1, <1>5, NotifyEffect
<1>7. IsAnswered(h, p)
  BY <1>1, AnsweredEffect
<1> HIDE DEF t, h
<1>8. ASSUME "TRAILING" \in p.flags
      PROVE  (Failed(t) => Told(t, s, w)) /\ (~Failed(t) => Told(c, s, w))
  <2>1. "chunk_complete" \in Follows[Look(p, s).cb]
    BY <1>8, Order DEF Lines, Middle
  <2>2. NoMark(t) /\ Look(t, s) \in Views /\ Look(t, s).cb = "chunk_complete" /\ Look(t, s).ordered
    BY <1>1, <1>2, <1>5, <1>6, <2>1, CallHeard
  <2>3. Typed(t) /\ t.state \in Plain
    BY <1>1, <1>6 DEF IsCall, Kept
  <2>4. t.state # "s_chunk_size_start"
    BY <2>3 DEF Plain, ChunkStates
  <2>5. Right(t, Look(t, s), w)
    BY <2>2, <2>4, RightAway
  <2>6. Failed(t) => Told(t, s, w)
    BY <2>2, <2>5 DEF Told, Tells
  <2>7. Told(c, s, w)
    BY <1>2, <2>2, <2>3, CompleteTold
  <2> QED BY <2>6, <2>7
<1>9. ASSUME "TRAILING" \notin p.flags
      PROVE  (Failed(h) => Told(h, s, w)) /\ (~Failed(h) => Told(d, s, w))
  <2>1. Look(p, s).cb \in {"header_value", "url", "status"} /\ w = Given(p)
    BY <1>9 DEF Lines
  <2>2. /\ NoMark(h) /\ Look(h, s) \in Views /\ Look(h, s).cb = "headers_complete"
        /\ Look(h, s).ordered
    BY <1>1, <1>2, <1>7, <2>1, AnsweredHeard
  <2>3. Right(h, Look(h, s), w)
    BY <2>2, RightElse
  <2>4. Failed(h) => Told(h, s, w)
    BY <2>2, <2>3 DEF Told, Tells
  <2>5. ASSUME ~Failed(h) PROVE Told(d, s, w)
    <3>1. Steady(h)
      BY <1>7, <2>2, <2>5 DEF Steady, IsAnswered, Failed
    <3>2. "TRAILING" \notin h.flags /\ w = Given(h)
      BY <1>7, <1>9, <2>1 DEF IsAnswered, Given
    <3> QED BY <1>2, <2>2, <3>1, <3>2, HeadersDoneTold
  <2> QED BY <2>4, <2>5
<1> HIDE DEF c, d
<1> QED BY <1>3, <1>4, <1>8, <1>9

-----------------------------------------------------------------------------
(* The names of the headers.                                               *)

LEMMA FieldStartTold ==
    ASSUME NEW p, Steady(p), NEW s, NEW w, Lines(p, s, w), NEW ch, NEW a
    PROVE  Told(s_header_field_start(p, ch, a), s, w)
<1> DEFINE m == MARK(p, "header_field")
           c == Lower(ch)
           x == IF c \in DOMAIN FirstOfField THEN FirstOfField[c] ELSE "general"
           q == [m EXCEPT !.state = "s_header_field", !.header = x]
           g == Goto(p, "s_headers_almost_done")
           f == Fail(p, "INVALID_HEADER_TOKEN")
           e == s_headers_almost_done(p, ch, a)
           v == Look(p, s)
<1>1. Typed(p) /\ NoMark(p) /\ p.errno = "OK" /\ OnlyMark(p, "header_field")
  BY DEF Steady, OnlyMark, NoMark
<1>2. /\ s \in Views /\ v \in Views /\ v.ordered /\ v.cb # "header_field"
      /\ v.cb \notin {"chunk_complete", "message_complete"} /\ "header_field" \in Follows[v.cb]
  BY LinesElse
<1>3. s_header_field_start(p, ch, a) =
        CASE ch = CR -> g [] ch = LF -> e [] Token(ch) -> q [] OTHER -> f
  BY DEF s_header_field_start
<1>4. Told(f, s, w)
  BY <1>1, <1>2, FailElse
<1>5. Told(e, s, w)
  BY HeadersEndTold
<1> HIDE DEF e, f
<1>6. Told(g, s, w)
  <2>1. /\ g.marks = p.marks /\ g.out = p.out /\ g.flags = p.flags
        /\ g.content_length = p.content_length /\ g.state = "s_headers_almost_done"
    BY <1>1 DEF Goto, Typed, Fields
  <2> HIDE DEF g
  <2>2. NoMark(g) /\ Look(g, s) = v
    BY <1>1, <2>1, LookQuiet DEF NoMark, Marked
  <2>3. IF "TRAILING" \in g.flags THEN v.cb \in {"header_value", "chunk_header"}
        ELSE v.cb \in {"header_value", "url", "status"} /\ w = Given(g)
    BY <2>1 DEF Lines, Given
  <2> HIDE DEF v
  <2>4. Book(g, v, w)
    BY <2>1, <2>3, AtLine DEF LineStarts
  <2>5. Right(g, v, w)
    BY <1>2, RightElse
  <2>6. Tells(g, v, w)
    BY <1>2, <2>2, <2>4, <2>5, PlainTells
  <2> QED BY <1>2, <2>2, <2>6 DEF Told
<1> HIDE DEF g
<1>7. Told(q, s, w)
  <2>1. "header_field" \in DataCallbacks
    BY DataNames
  <2>2. IsMark(m, p, "header_field")
    BY <1>1, <2>1, MarkEffect
  <2> HIDE DEF m, x
  <2>3. /\ Look(m, s) \in Views /\ Look(m, s).cb = "header_field" /\ Look(m, s).ordered
    BY <1>1, <1>2, <2>1, <2>2, MarkHeard
  <2>4. /\ q.marks = m.marks /\ q.out = m.out /\ q.state = "s_header_field"
        /\ q.flags = p.flags /\ q.content_length = p.content_length
    BY <2>2 DEF IsMark, Kept, Typed, Fields
  <2> HIDE DEF q
  <2>5. Look(q, s) = Look(m, s)
    BY <2>4, LookQuiet
  <2>6. "TRAILING" \notin q.flags => w = Given(q)
    BY <2>4 DEF Lines, Given
  <2>7. q.state \in NameStates /\ q.state \in Other
    BY <2>4 DEF NameStates, Other, States, BodyStates
  <2>8. Book(q, Look(q, s), w)
    BY <2>3, <2>5, <2>6, <2>7, AtName
  <2>9. Tells(q, Look(q, s), w)
    BY <2>1, <2>3, <2>5, <2>7, <2>8, DataTells
  <2> QED BY <2>3, <2>5, <2>9 DEF Told
<1> HIDE DEF q
<1> QED BY <1>3, <1>4, <1>5, <1>6, <1>7

\* In the lines of the headers.
LEMMA HeadReads ==
    ASSUME NEW p, NEW s, NEW w, Reads(p, s, w), p.state \in Heads
    PROVE  /\ s \in Views /\ Look(p, s) \in Views /\ Look(p, s).ordered
           /\ p.state \in LineStarts => Lines(p, s, w)
           /\ p.state \in NameStates => Look(p, s).cb = "header_field"
           /\ p.state \in ValueStates => Look(p, s).cb = "header_value"
           /\ "TRAILING" \notin p.flags => w = Given(p)
<1>1. Heard(p, Look(p, s)) /\ Length(p, Look(p, s), w)
  BY DEF Reads, Book
<1>2. /\ s \in Views /\ Look(p, s) \in Views /\ Look(p, s).ordered
  BY DEF Reads
<1>3. "TRAILING" \notin p.flags => w = Given(p)
  BY <1>1 DEF Length
<1>4. p.state \in NameStates => Look(p, s).cb = "header_field"
  BY <1>1 DEF Heard
<1>5. p.state \in ValueStates => Look(p, s).cb = "header_value"
  BY <1>1 DEF Heard
<1>6. p.state \in LineStarts => Lines(p, s, w)
  BY <1>1, <1>2, <1>3 DEF Heard, Lines
<1> QED BY <1>2, <1>3, <1>4, <1>5, <1>6

LEMMA FieldTold ==
    ASSUME NEW p, Ready(p), NEW s, NEW w, Reads(p, s, w), p.state = "s_header_field",
           NEW ch, NEW a
    PROVE  Told(s_header_field(p, ch, a), s, w)
<1> DEFINE h == Name(p.header, ch)
           f == IF h = "transfer_encoding" THEN p.flags \cup {"TRANSFER_ENCODING"} ELSE p.flags
           q == [p EXCEPT !.header = h, !.flags = f]
           r == Goto(p, "s_header_value_discard_ws")
           d == CALLBACK_DATA(r, "header_field", a)
           v == Look(p, s)
<1>1. /\ "s_header_value_discard_ws" \in States /\ "header_field" \in DataCallbacks
      /\ p.state \in Heads \cap NameStates /\ p.state \in Other
      /\ "s_header_value_discard_ws" \in NameStates
  BY DataNames DEF States, Heads, NameStates, Other, BodyStates
<1>2. Resumed(p.state) = {"header_field"}
  BY DEF Resumed, UrlStates
<1>3. Typed(p) /\ OnlyMark(p, "header_field") /\ p.errno = "OK"
  BY <1>1, <1>2, MarkedReady, ReadyTyped DEF Reading
<1>4. /\ s \in Views /\ v \in Views /\ v.ordered /\ v.cb = "header_field"
      /\ "TRAILING" \notin p.flags => w = Given(p)
  BY <1>1, HeadReads
<1>5. s_header_field(p, ch, a) =
        CASE Token(ch) -> q [] ch = ":" -> d [] OTHER -> Fail(p, "INVALID_HEADER_TOKEN")
  BY DEF s_header_field
<1>6. Told(Fail(p, "INVALID_HEADER_TOKEN"), s, w)
  BY <1>3, FailTold
<1>7. "TRAILING" \in f <=> "TRAILING" \in p.flags
  OBVIOUS
<1> HIDE DEF h, f
<1>8. Told(q, s, w)
  <2>1. /\ q.marks = p.marks /\ q.out = p.out /\ q.state = p.state /\ q.flags = f
        /\ q.content_length = p.content_length
    BY <1>3 DEF Typed, Fields
  <2> HIDE DEF q
  <2>2. Look(q, s) = v
    BY <2>1, LookQuiet
  <2> HIDE DEF v
  <2>3. "TRAILING" \notin q.flags => w = Given(q)
    BY <1>4, <1>7, <2>1 DEF Given
  <2>4. Book(q, v, w)
    BY <1>1, <1>4, <2>1, <2>3, AtName
  <2>5. Tells(q, v, w)
    BY <1>1, <1>4, <2>1, <2>4, DataTells
  <2> QED BY <1>4, <2>2, <2>5 DEF Told
<1> HIDE DEF q
<1>9. Told(d, s, w)
  <2>1. /\ Typed(r) /\ r.marks = p.marks /\ r.out = p.out /\ r.errno = "OK"
        /\ r.state = "s_header_value_discard_ws" /\ r.flags = p.flags
        /\ r.content_length = p.content_length
    BY <1>1, <1>3 DEF Goto, Typed, Fields
  <2> HIDE DEF r
  <2>2. OnlyMark(r, "header_field") /\ Look(r, s) = v
    BY <1>3, <2>1, LookQuiet DEF OnlyMark, Marked
  <2>3. IsData(d, r, "header_field", 0, a)
    <3>1. 0 \in {0, 1}
      OBVIOUS
    <3> QED BY <1>1, <2>1, <2>2, <3>1, DataEffect DEF CALLBACK_DATA
  <2> HIDE DEF d, v
  <2>4. /\ Look(d, s) \in Views /\ Look(d, s).cb = "header_field" /\ Look(d, s).ordered
        /\ ~Failed(d) => NoMark(d)
    BY <1>1, <1>4, <2>1, <2>2, <2>3, DataHeard
  <2>5. Right(d, Look(d, s), w)
    BY <2>4, RightElse
  <2>6. d.state \in NameStates /\ ("TRAILING" \notin d.flags => w = Given(d))
    BY <1>1, <1>4, <2>1, <2>3 DEF IsData, Kept, Given
  <2>7. Book(d, Look(d, s), w)
    <3>1. d.state \in NameStates
      BY <2>6
    <3> QED BY <2>4, <2>6, AtName
  <2>8. ~Failed(d) => Tells(d, Look(d, s), w)
    BY <2>4, <2>5, <2>7, PlainTells
  <2> QED BY <2>4, <2>5, <2>8 DEF Told, Tells
<1> HIDE DEF d
<1> QED BY <1>5, <1>6, <1>8, <1>9

-----------------------------------------------------------------------------
(* The values of the headers.                                              *)

\* The length as it is written, after a symbol of a value.
Valued(p, q, ch, w) ==
    IF /\ ~Failed(q) /\ q.state = "s_header_value" /\ q.header = "content_length_num"
       /\ ch \in Num /\ "TRAILING" \notin p.flags
    THEN (IF p.header = "content_length" THEN 0 ELSE w) * 10 + Digit[ch] ELSE w

\* A value goes on.
LEMMA ValueGoes ==
    ASSUME NEW m, NEW s, Look(m, s) \in Views, Look(m, s).ordered, Look(m, s).cb = "header_value",
           NEW q, q.marks = m.marks, q.out = m.out, NEW u,
           ~Failed(q) => /\ q.state \in ValueStates
                         /\ "TRAILING" \notin q.flags => u = Given(q)
                         /\ q.header = "content_length_num" => q.content_length # ULLONG_MAX
    PROVE  Told(q, s, u)
<1> DEFINE v == Look(q, s)
<1>1. v = Look(m, s)
  BY LookQuiet
<1> HIDE DEF v
<1>2. v \in Views /\ v.ordered /\ v.cb = "header_value" /\ v.cb \in DataCallbacks
  BY <1>1, DataNames
<1>3. ASSUME ~Failed(q) PROVE q.state \in Other /\ Book(q, v, u)
  <2>1. q.state \in ValueStates /\ ("TRAILING" \notin q.flags => u = Given(q))
        /\ (q.header = "content_length_num" => q.content_length # ULLONG_MAX)
    BY <1>3
  <2>2. q.state \in Other
    BY <2>1, InOther DEF Heads
  <2>3. Book(q, v, u)
    BY <1>2, <2>1, AtValue
  <2> QED BY <2>2, <2>3
<1>4. Tells(q, v, u)
  BY <1>2, <1>3, DataTells
<1> QED BY <1>2, <1>4 DEF Told, v

LEMMA DigitRange == \A ch \in Num : Digit[ch] \in 0..2 /\ Digit[ch] # ULLONG_MAX
<1>1. \A ch \in Num : Digit[ch] \in 0..2
  BY DEF Digit, Num
<1> QED BY <1>1, HttpParserAssumption

LEMMA ValueStartTold ==
    ASSUME NEW p, Steady(p), NEW s \in Views, Look(p, s) \in Views, Look(p, s).ordered,
           Look(p, s).cb \in {"header_field", "header_value"},
           NEW w, "TRAILING" \notin p.flags => w = Given(p), NEW ch, NEW u,
           u = Valued(p, s_header_value_start(p, ch), ch, w)
    PROVE  Told(s_header_value_start(p, ch), s, u)
<1> DEFINE m == MARK(p, "header_value")
           q == [m EXCEPT !.state = "s_header_value"]
           c == Lower(ch)
           x == IF c = "c" THEN "te_chunked" ELSE "te_token"
           y == Connection(c, "conn_token")
           up == [q EXCEPT !.flags = @ \cup {"UPGRADE"}, !.header = "general"]
           cl == [q EXCEPT !.flags = @ \cup {"CONTENTLENGTH"}, !.content_length = Digit[ch],
                           !.header = "content_length_num"]
           r == s_header_value_start(p, ch)
<1>1. "header_value" \in DataCallbacks /\ "header_value" \in Follows["header_field"]
  BY DataNames, Order DEF Middle
<1>2. x # "content_length_num" /\ y # "content_length_num"
  BY DEF Connection, ConnectionValue
<1>3. IsMark(m, p, "header_value") /\ Typed(p) /\ p.errno = "OK" /\ OnlyMark(p, "header_value")
  BY <1>1, MarkEffect DEF Steady, OnlyMark, NoMark
<1>4. r =
        CASE p.header = "upgrade" -> up
          [] p.header = "transfer_encoding" -> [q EXCEPT !.header = x]
          [] p.header = "content_length" ->
                CASE ch \notin Num -> Fail(q, "INVALID_CONTENT_LENGTH")
                  [] ch \in Num /\ "CONTENTLENGTH" \in p.flags ->
                        Fail(q, "UNEXPECTED_CONTENT_LENGTH")
                  [] OTHER -> cl
          [] p.header = "connection" -> [q EXCEPT !.header = y]
          [] p.header \in {"te_token_start", "conn_token_start", "content_length_ws"} -> q
          [] OTHER -> [q EXCEPT !.header = "general"]
  BY DEF s_header_value_start
<1> HIDE DEF m, x, y
<1>5. /\ DOMAIN q = Fields /\ q.marks = m.marks /\ q.out = m.out /\ q.state = "s_header_value"
      /\ q.flags = p.flags /\ q.content_length = p.content_length /\ q.header = p.header
      /\ q.errno = "OK"
  BY <1>3 DEF IsMark, Kept, Typed, Fields
<1>6. Look(m, s) \in Views /\ Look(m, s).cb = "header_value" /\ Look(m, s).ordered
  BY <1>1, <1>3, MarkHeard
<1> HIDE DEF q
<1> DEFINE Fits(t) ==
             /\ t.marks = m.marks /\ t.out = m.out
             /\ \/ Failed(t)
                \/ /\ t.state = "s_header_value"
                   /\ "TRAILING" \in t.flags <=> "TRAILING" \in p.flags
                   /\ \/ /\ t.header = "content_length_num" /\ t.content_length = Digit[ch]
                         /\ ch \in Num /\ p.header = "content_length"
                      \/ t.header # "content_length_num" /\ t.content_length = p.content_length
<1>7. Fits(up)
  BY <1>5 DEF Fields
<1>8. Fits(cl) \/ ch \notin Num \/ p.header # "content_length"
  BY <1>5 DEF Fields
<1>9. ASSUME NEW h, h # "content_length_num" PROVE Fits([q EXCEPT !.header = h])
  BY <1>5, <1>9 DEF Fields
<1>10. ASSUME NEW e, e # "OK" PROVE Fits(Fail(q, e))
  BY <1>5, <1>10 DEF Fields, Fail, Failed
<1>11. p.header # "content_length_num" => Fits(q)
  BY <1>5
<1> HIDE DEF Fits, up, cl, r
<1>12. Fits(r)
  <2>1. CASE p.header = "content_length"
    BY <1>4, <1>8, <1>10, <2>1
  <2>2. CASE p.header # "content_length"
    BY <1>2, <1>4, <1>7, <1>9, <1>11, <2>2
  <2> QED BY <2>1, <2>2
<1>13. u = Valued(p, r, ch, w)
  BY DEF r
<1>14. ASSUME ~Failed(r)
       PROVE  /\ r.state \in ValueStates
              /\ "TRAILING" \notin r.flags => u = Given(r)
              /\ r.header = "content_length_num" => r.content_length # ULLONG_MAX
  <2>1. /\ r.state = "s_header_value"
        /\ "TRAILING" \in r.flags <=> "TRAILING" \in p.flags
        /\ \/ /\ r.header = "content_length_num" /\ r.content_length = Digit[ch]
              /\ ch \in Num /\ p.header = "content_length"
           \/ r.header # "content_length_num" /\ r.content_length = p.content_length
    BY <1>12, <1>14 DEF Fits
  <2>2. CASE r.header = "content_length_num"
    <3>1. r.content_length = Digit[ch] /\ ch \in Num /\ p.header = "content_length"
      BY <2>1, <2>2
    <3>2. Digit[ch] \in 0..2 /\ Digit[ch] # ULLONG_MAX
      BY <3>1, DigitRange
    <3>3. ASSUME "TRAILING" \notin p.flags PROVE u = Digit[ch]
      <4>1. u = 0 * 10 + Digit[ch]
        BY <1>13, <1>14, <2>1, <2>2, <3>1, <3>3 DEF Valued
      <4> QED BY <3>2, <4>1
    <3> QED BY <2>1, <3>1, <3>2, <3>3 DEF Given, ValueStates
  <2>3. CASE r.header # "content_length_num"
    <3>1. u = w
      BY <1>13, <2>3 DEF Valued
    <3> QED BY <2>1, <2>3, <3>1 DEF Given, ValueStates
  <2> QED BY <2>2, <2>3
<1>15. r.marks = m.marks /\ r.out = m.out
  BY <1>12 DEF Fits
<1>16. Told(r, s, u)
  BY <1>6, <1>14, <1>15, ValueGoes
<1> QED BY <1>16 DEF r

\* Before a value: nothing is heard between the field and the value.
LEMMA DiscardGoto ==
    ASSUME NEW p, NEW s, NEW w, Reads(p, s, w), Steady(p), p.state \in Discards, NEW t \in Discards
    PROVE  Told(Goto(p, t), s, w) /\ Told(p, s, w)
<1> DEFINE q == Goto(p, t)
<1>1. t \in States
  BY DEF Discards, NameStates, States
<1>2. /\ IsQuiet(q, p) /\ q.state = t /\ q.flags = p.flags
      /\ q.content_length = p.content_length /\ q.header = p.header
  BY <1>1 DEF Steady, IsQuiet, Goto, Typed, Fields
<1>3. SameHead(q, p) /\ Goes(p.state, q.state) /\ SameHead(p, p) /\ Goes(p.state, p.state)
  BY <1>2 DEF SameHead, Goes
<1>4. IsQuiet(p, p) /\ NoMark(p)
  BY DEF Steady, IsQuiet
<1> HIDE DEF q
<1>5. Told(q, s, w)
  BY <1>2, <1>3, <1>4, GoesTold
<1>6. Told(p, s, w)
  BY <1>3, <1>4, GoesTold
<1> QED BY <1>5, <1>6 DEF q

LEMMA DiscardsSteady ==
    ASSUME NEW p, Ready(p), p.state \in Discards \cup LineStarts \cup {"s_header_value_lws"}
    PROVE  Steady(p) /\ p.state \in Heads /\ (p.state \in Discards => p.state \in NameStates)
<1>1. p.state \in Plain /\ p.state \in Heads /\ (p.state \in Discards => p.state \in NameStates)
  BY DEF Discards, NameStates, LineStarts, ValueStates, Heads, Plain, States, BodyStates,
     ChunkStates, SizeStates, UrlStates, Undecided
<1> QED BY <1>1, PlainSteady

LEMMA DiscardTold ==
    ASSUME NEW p, Ready(p), NEW s, NEW w, Reads(p, s, w), p.state = "s_header_value_discard_ws",
           NEW ch, NEW u, u = Valued(p, s_header_value_discard_ws(p, ch), ch, w)
    PROVE  Told(s_header_value_discard_ws(p, ch), s, u)
<1> DEFINE q == s_header_value_discard_ws(p, ch)
<1>1. /\ p.state \in Discards
      /\ {"s_header_value_discard_ws_almost_done", "s_header_value_discard_lws"} \subseteq Discards
  BY DEF Discards, NameStates
<1>2. Steady(p) /\ p.state \in Heads \cap NameStates
  BY <1>1, DiscardsSteady
<1>3. CASE ch \in {Blank, CR, LF}
  <2>1. q = p \/ \E t \in Discards : q = Goto(p, t)
    BY <1>1, <1>3 DEF s_header_value_discard_ws, Blank, CR, LF
  <2>2. ch \notin Num
    BY <1>3 DEF Blank, CR, LF, Num
  <2>3. u = w
    BY <2>2 DEF Valued
  <2> HIDE DEF q
  <2>4. Told(q, s, w)
    BY <1>1, <1>2, <2>1, DiscardGoto
  <2> QED BY <2>3, <2>4 DEF q
<1>4. CASE ch \notin {Blank, CR, LF}
  <2>1. q = s_header_value_start(p, ch)
    BY <1>4 DEF s_header_value_discard_ws
  <2>2. /\ s \in Views /\ Look(p, s) \in Views /\ Look(p, s).ordered
        /\ Look(p, s).cb = "header_field" /\ ("TRAILING" \notin p.flags => w = Given(p))
    BY <1>2, HeadReads
  <2> HIDE DEF q
  <2>3. u = Valued(p, s_header_value_start(p, ch), ch, w)
    BY <2>1 DEF q
  <2>4. Told(q, s, u)
    BY <1>2, <2>1, <2>2, <2>3, ValueStartTold
  <2> QED BY <2>4 DEF q
<1> QED BY <1>3, <1>4

\* In the middle of a value.
LEMMA NextPlain ==
    ASSUME NEW h, h # "content_length_num", NEW ch
    PROVE  NextInValue(h, ch) # "content_length_num"
<1> DEFINE c == Lower(ch)
           bad == "content_length_num"
           ws == IF ch = Blank THEN h ELSE "general"
<1>1. ws # bad
  OBVIOUS
<1>2. ASSUME NEW o, o # bad PROVE Connection(c, o) # bad
  BY <1>2 DEF Connection, ConnectionValue
<1>3. ConnectionRest(h, c) # bad
  BY DEF ConnectionRest
<1> DEFINE o == IF Token(c) THEN "conn_token" ELSE ws
<1>4. Connection(c, o) # bad
  BY <1>1, <1>2
<1>5. NextInValue(h, ch) =
        CASE h = "te_token_start" ->
                CASE c = "c" -> "te_chunked" [] c # "c" /\ Token(c) -> "te_token" [] OTHER -> ws
          [] h = "te_chunked" -> IF c = "hunked" THEN "chunked" ELSE "te_token"
          [] h = "te_token" -> IF ch = "," THEN "te_token_start" ELSE h
          [] h = "chunked" -> IF ch = Blank THEN h ELSE "te_token"
          [] h = "conn_token_start" -> Connection(c, o)
          [] h \in {"conn_keep_alive", "conn_close", "conn_upgrade"} -> ConnectionRest(h, c)
          [] h = "conn_token" -> IF ch = "," THEN "conn_token_start" ELSE h
          [] h \in DOMAIN ConnectionFlag ->
                CASE ch = "," -> "conn_token_start" [] ch = Blank -> h [] OTHER -> "conn_token"
          [] OTHER -> "general"
  BY DEF NextInValue
<1>6. DOMAIN ConnectionFlag = {"keep_alive", "close", "conn_upgraded"}
  BY DEF ConnectionFlag
<1> HIDE DEF c, ws, o
<1> QED BY <1>1, <1>3, <1>4, <1>5, <1>6

LEMMA InValueTold ==
    ASSUME NEW p, Ready(p), NEW s, NEW w, Reads(p, s, w), p.state = "s_header_value", NEW ch,
           NEW u, u = Valued(p, in_value(p, ch), ch, w)
    PROVE  Told(in_value(p, ch), s, u)
<1> DEFINE t == Digits(p, 10, Digit[ch])
           ws == [p EXCEPT !.header = "content_length_ws"]
           f == IF p.header \in DOMAIN ConnectionFlag /\ ch = ","
                THEN p.flags \cup {ConnectionFlag[p.header]} ELSE p.flags
           h == NextInValue(p.header, ch)
           v == [p EXCEPT !.header = h, !.flags = f]
           r == in_value(p, ch)
<1>1. Resumed(p.state) = {"header_value"} /\ "header_value" \in DataCallbacks
      /\ p.state \in Heads \cap ValueStates
  BY DataNames DEF Resumed, UrlStates, Heads, ValueStates
<1>2. Reading(p, "header_value") /\ p.errno = "OK" /\ Typed(p)
  BY <1>1, MarkedReady, ReadyTyped
<1>3. p.header \notin {"connection", "transfer_encoding"}
  BY <1>2 DEF Reading, KnownValue
<1>4. /\ Look(p, s) \in Views /\ Look(p, s).ordered /\ Look(p, s).cb = "header_value"
      /\ "TRAILING" \notin p.flags => w = Given(p)
  BY <1>1, HeadReads
<1>5. p.header = "content_length_num" => p.content_length # ULLONG_MAX
  BY DEF Reads, Book, Length
<1>6. p.header # "content_length_num" => h # "content_length_num"
  BY NextPlain
<1>7. "TRAILING" \in f <=> "TRAILING" \in p.flags
  <2>1. \A g \in DOMAIN ConnectionFlag : ConnectionFlag[g] # "TRAILING"
    BY DEF ConnectionFlag
  <2>2. CASE p.header \in DOMAIN ConnectionFlag /\ ch = ","
    BY <2>1, <2>2
  <2>3. CASE ~(p.header \in DOMAIN ConnectionFlag /\ ch = ",")
    BY <2>3
  <2> QED BY <2>2, <2>3
<1>8. r =
        CASE ch = "bad" -> Fail(p, "INVALID_HEADER_TOKEN")
          [] ch # "bad" /\ p.header = "content_length_num" ->
                CASE ch = Blank -> ws
                  [] ch \in Num -> t
                  [] OTHER -> Fail(p, "INVALID_CONTENT_LENGTH")
          [] ch # "bad" /\ p.header = "content_length_ws" ->
                IF ch = Blank THEN p ELSE Fail(p, "INVALID_CONTENT_LENGTH")
          [] OTHER -> v
  BY <1>3 DEF in_value
<1> HIDE DEF f, h
<1> DEFINE Fits(x) ==
             /\ x.marks = p.marks /\ x.out = p.out
             /\ \/ Failed(x)
                \/ /\ x.state = "s_header_value"
                   /\ "TRAILING" \in x.flags <=> "TRAILING" \in p.flags
                   /\ \/ /\ x.header = "content_length_num" /\ p.header = "content_length_num"
                         /\ x.content_length = p.content_length * 10 + Digit[ch]
                         /\ ch \in Num /\ x.content_length # ULLONG_MAX
                      \/ x.header # "content_length_num" /\ x.content_length = p.content_length
<1>9. ASSUME NEW e, e # "OK" PROVE Fits(Fail(p, e))
  BY <1>2, <1>9 DEF Fail, Failed, Typed, Fields
<1>10. Fits(ws)
  BY <1>2 DEF Typed, Fields
<1>11. p.header # "content_length_num" => Fits(v) /\ Fits(p)
  BY <1>2, <1>6, <1>7 DEF Typed, Fields
<1>12. ASSUME ch \in Num, p.header = "content_length_num" PROVE Fits(t)
  <2>1. Digit[ch] \in 0..(10 - 1)
    BY <1>12, DigitRange
  <2>2. IsDigits(t, p, 10, Digit[ch])
    BY <1>2, <2>1, DigitsEffect
  <2>3. \A n \in 0..(ULLONG_MAX - 1) : n # ULLONG_MAX
    BY HttpParserAssumption
  <2> HIDE DEF t
  <2>4. CASE t.errno = "INVALID_CONTENT_LENGTH"
    BY <2>2, <2>4 DEF IsDigits, IsQuiet, Failed
  <2>5. CASE t.errno # "INVALID_CONTENT_LENGTH"
    <3>1. t.content_length = p.content_length * 10 + Digit[ch]
          /\ t.content_length \in 0..(ULLONG_MAX - 1)
      BY <2>2, <2>5 DEF IsDigits
    <3> QED BY <1>12, <2>2, <2>3, <3>1 DEF IsDigits, IsQuiet
  <2> QED BY <2>4, <2>5
<1> HIDE DEF Fits, t, ws, v, r
<1>13. Fits(r)
  <2>1. CASE p.header = "content_length_num"
    BY <1>8, <1>9, <1>10, <1>12, <2>1
  <2>2. CASE p.header # "content_length_num"
    BY <1>8, <1>9, <1>11, <2>2
  <2> QED BY <2>1, <2>2
<1>14. u = Valued(p, r, ch, w)
  BY DEF r
<1>15. ASSUME ~Failed(r)
       PROVE  /\ r.state \in ValueStates
              /\ "TRAILING" \notin r.flags => u = Given(r)
              /\ r.header = "content_length_num" => r.content_length # ULLONG_MAX
  <2>1. /\ r.state = "s_header_value"
        /\ "TRAILING" \in r.flags <=> "TRAILING" \in p.flags
        /\ \/ /\ r.header = "content_length_num" /\ p.header = "content_length_num"
              /\ r.content_length = p.content_length * 10 + Digit[ch]
              /\ ch \in Num /\ r.content_length # ULLONG_MAX
           \/ r.header # "content_length_num" /\ r.content_length = p.content_length
    BY <1>13, <1>15 DEF Fits
  <2>2. CASE r.header = "content_length_num"
    <3>1. ASSUME "TRAILING" \notin p.flags PROVE u = Given(r)
      <4>1. u = w * 10 + Digit[ch]
        BY <1>14, <1>15, <2>1, <2>2, <3>1 DEF Valued
      <4>2. w = p.content_length
        BY <1>4, <1>5, <2>1, <2>2, <3>1 DEF Given
      <4> QED BY <2>1, <2>2, <4>1, <4>2 DEF Given
    <3> QED BY <2>1, <2>2, <3>1 DEF ValueStates
  <2>3. CASE r.header # "content_length_num"
    <3>1. u = w
      BY <1>14, <2>3 DEF Valued
    <3> QED BY <1>4, <2>1, <2>3, <3>1 DEF Given, ValueStates
  <2> QED BY <2>2, <2>3
<1>16. r.marks = p.marks /\ r.out = p.out
  BY <1>13 DEF Fits
<1>17. Told(r, s, u)
  BY <1>4, <1>15, <1>16, ValueGoes
<1> QED BY <1>17 DEF r

LEMMA ValueTold ==
    ASSUME NEW p, Ready(p), NEW s, NEW w, Reads(p, s, w), p.state = "s_header_value",
           NEW ch, NEW a, NEW u, u = Valued(p, s_header_value(p, ch, a), ch, w)
    PROVE  Told(s_header_value(p, ch, a), s, u)
<1> DEFINE r == Goto(p, "s_header_almost_done")
           d == CALLBACK_DATA(r, "header_value", a)
           l == literal(d, LF)
           q == s_header_value(p, ch, a)
           v == Look(p, s)
<1>1. /\ Resumed(p.state) = {"header_value"} /\ "header_value" \in DataCallbacks
      /\ p.state \in Heads \cap ValueStates /\ "s_header_almost_done" \in States
      /\ {"s_header_almost_done", "s_header_value_lws"} \subseteq ValueStates
  BY DataNames DEF Resumed, UrlStates, Heads, ValueStates, States
<1>2. OnlyMark(p, "header_value") /\ p.errno = "OK" /\ Typed(p)
  BY <1>1, MarkedReady, ReadyTyped DEF Reading
<1>3. /\ s \in Views /\ v \in Views /\ v.ordered /\ v.cb = "header_value"
      /\ "TRAILING" \notin p.flags => w = Given(p)
  BY <1>1, HeadReads
<1>4. p.header = "content_length_num" => p.content_length # ULLONG_MAX
  BY DEF Reads, Book, Length
<1>5. q = CASE ch = CR -> d
            [] ch = LF -> IF Failed(d) THEN d ELSE l
            [] OTHER -> in_value(p, ch)
  BY DEF s_header_value
<1>6. CR # LF /\ CR \notin Num /\ LF \notin Num
  BY DEF CR, LF, Num
<1>7. /\ Typed(r) /\ r.marks = p.marks /\ r.out = p.out /\ r.state = "s_header_almost_done"
      /\ r.flags = p.flags /\ r.content_length = p.content_length /\ r.header = p.header
      /\ r.errno = "OK"
  BY <1>1, <1>2 DEF Goto, Typed, Fields
<1> HIDE DEF r
<1>8. OnlyMark(r, "header_value") /\ Look(r, s) = v
  BY <1>2, <1>7, LookQuiet DEF OnlyMark, Marked
<1>9. IsData(d, r, "header_value", 0, a)
  <2>1. 0 \in {0, 1}
    OBVIOUS
  <2> QED BY <1>1, <1>7, <1>8, <2>1, DataEffect DEF CALLBACK_DATA
<1> HIDE DEF d
<1>10. /\ Look(d, s) \in Views /\ Look(d, s).cb = "header_value" /\ Look(d, s).ordered
       /\ Typed(d) /\ d.state = "s_header_almost_done" /\ d.flags = p.flags
       /\ d.content_length = p.content_length /\ d.header = p.header
  BY <1>1, <1>3, <1>7, <1>8, <1>9, DataHeard DEF IsData, Kept
<1>11. Told(d, s, w)
  <2>1. /\ "TRAILING" \notin d.flags => w = Given(d)
        /\ d.header = "content_length_num" => d.content_length # ULLONG_MAX
    BY <1>3, <1>4, <1>10 DEF Given
  <2> QED BY <1>1, <1>10, <2>1, ValueGoes
<1>12. Told(l, s, w)
  <2>1. l = Goto(d, "s_header_value_lws")
    BY <1>10 DEF literal, ReqLiteral, ResLiteral, LF
  <2> HIDE DEF l
  <2>2. /\ l.marks = d.marks /\ l.out = d.out /\ l.state = "s_header_value_lws"
        /\ l.flags = p.flags /\ l.content_length = p.content_length /\ l.header = p.header
    BY <1>10, <2>1 DEF Goto, Typed, Fields
  <2>3. /\ "TRAILING" \notin l.flags => w = Given(l)
        /\ l.header = "content_length_num" => l.content_length # ULLONG_MAX
    BY <1>3, <1>4, <2>2 DEF Given
  <2> QED BY <1>1, <1>10, <2>2, <2>3, ValueGoes
<1>13. CASE ch \in {CR, LF}
  <2>1. u = w
    BY <1>6, <1>13 DEF Valued
  <2>2. Told(q, s, w)
    <3> HIDE DEF q, l
    <3> QED BY <1>5, <1>6, <1>11, <1>12, <1>13
  <2> QED BY <2>1, <2>2
<1>14. CASE ch \notin {CR, LF}
  <2>1. q = in_value(p, ch)
    BY <1>5, <1>14
  <2> HIDE DEF q
  <2>2. u = Valued(p, in_value(p, ch), ch, w)
    BY <2>1 DEF q
  <2> QED BY <2>1, <2>2, InValueTold DEF q
<1> QED BY <1>13, <1>14

\* What the value says does not change what has been heard.
LEMMA FlagsLook ==
    ASSUME NEW p, Typed(p), NEW s
    PROVE  LET q == flag_value(p)
           IN  /\ Look(q, s) = Look(p, s) /\ Given(q) = Given(p)
               /\ "TRAILING" \in q.flags <=> "TRAILING" \in p.flags
<1> DEFINE f == IF p.header \in DOMAIN ValueFlag THEN p.flags \cup {ValueFlag[p.header]} ELSE p.flags
           q == flag_value(p)
<1>1. "TRAILING" \in f <=> "TRAILING" \in p.flags
  BY DEF ValueFlag
<1>2. q = [p EXCEPT !.flags = f]
  BY DEF flag_value
<1> HIDE DEF f, q
<1>3. q.flags = f
  BY <1>2 DEF Typed, Fields
<1>4. q.marks = p.marks /\ q.out = p.out /\ q.content_length = p.content_length
  BY <1>2 DEF Typed, Fields
<1>5. Look(q, s) = Look(p, s)
  BY <1>4, LookQuiet
<1> QED BY <1>1, <1>3, <1>4, <1>5 DEF Given, q

LEMMA LwsTold ==
    ASSUME NEW p, Ready(p), NEW s, NEW w, Reads(p, s, w), p.state = "s_header_value_lws",
           NEW ch, NEW a, NEW u, u = Valued(p, s_header_value_lws(p, ch, a), ch, w),
           ch # Blank => u = w
    PROVE  Told(s_header_value_lws(p, ch, a), s, u)
<1> DEFINE h == IF p.header = "content_length_num" THEN "content_length_ws" ELSE p.header
           r == [p EXCEPT !.header = h]
           g == flag_value(p)
           q == s_header_value_lws(p, ch, a)
           v == Look(p, s)
<1>1. Steady(p) /\ p.state \in Heads \cap ValueStates
  BY DiscardsSteady DEF ValueStates
<1>2. /\ s \in Views /\ v \in Views /\ v.ordered /\ v.cb = "header_value"
      /\ "TRAILING" \notin p.flags => w = Given(p)
  BY <1>1, HeadReads
<1>3. q = IF ch = Blank THEN s_header_value_start(r, ch) ELSE s_header_field_start(g, ch, a)
  BY DEF s_header_value_lws
<1>4. CASE ch = Blank
  <2>1. h \in HeaderStates
    BY <1>1 DEF Steady, Typed, HeaderStates
  <2> HIDE DEF h
  <2>2. /\ Steady(r) /\ r.marks = p.marks /\ r.out = p.out /\ r.flags = p.flags
        /\ r.content_length = p.content_length
    BY <1>1, <2>1 DEF Steady, Typed, Fields, NoMark, Marked
  <2> HIDE DEF r
  <2>3. Look(r, s) = v /\ ("TRAILING" \notin r.flags => w = Given(r))
    BY <1>2, <2>2, LookQuiet DEF Given
  <2>4. ch \notin Num
    BY <1>4 DEF Blank, Num
  <2>5. u = w
    BY <2>4 DEF Valued
  <2>6. u = Valued(r, s_header_value_start(r, ch), ch, w)
    BY <2>4, <2>5 DEF Valued
  <2> HIDE DEF v, q
  <2>7. Look(r, s).cb \in {"header_field", "header_value"}
    BY <1>2, <2>3
  <2>8. Told(s_header_value_start(r, ch), s, u)
    BY <1>2, <2>2, <2>3, <2>6, <2>7, ValueStartTold
  <2> QED BY <1>3, <1>4, <2>8 DEF q
<1>5. CASE ch # Blank
  <2>1. Steady(g)
    BY <1>1, FlagSteady
  <2>2. /\ Look(g, s) = v /\ Given(g) = Given(p)
        /\ "TRAILING" \in g.flags <=> "TRAILING" \in p.flags
    BY <1>1, FlagsLook DEF Steady
  <2> HIDE DEF g
  <2>3. Lines(g, s, w)
    BY <1>2, <2>2 DEF Lines
  <2>4. Told(s_header_field_start(g, ch, a), s, w)
    BY <2>1, <2>3, FieldStartTold
  <2>5. u = w
    BY <1>5
  <2> HIDE DEF q
  <2> QED BY <1>3, <1>5, <2>4, <2>5 DEF q
<1> QED BY <1>4, <1>5

\* A value without a symbol is reported too.
LEMMA DiscardLwsTold ==
    ASSUME NEW p, Ready(p), NEW s, NEW w, Reads(p, s, w), p.state = "s_header_value_discard_lws",
           NEW ch, NEW a
    PROVE  Told(s_header_value_discard_lws(p, ch, a), s, w)
<1> DEFINE g == flag_value(p)
           m == MARK(g, "header_value")
           r == Goto(m, "s_header_field_start")
           d == CALLBACK_DATA(r, "header_value", a)
           e == s_header_field_start(d, ch, a)
           v == Look(p, s)
<1>1. /\ p.state \in Discards /\ "s_header_value_discard_ws" \in Discards
      /\ "s_header_field_start" \in Plain
      /\ "header_value" \in DataCallbacks /\ "header_value" \in Follows["header_field"]
  BY DataNames, Order DEF Discards, NameStates, Plain, States, BodyStates, ChunkStates,
     SizeStates, UrlStates, Undecided, Middle
<1>2. Steady(p) /\ p.state \in Heads \cap NameStates
  BY <1>1, DiscardsSteady
<1>3. /\ s \in Views /\ v \in Views /\ v.ordered /\ v.cb = "header_field"
      /\ "TRAILING" \notin p.flags => w = Given(p)
  BY <1>2, HeadReads
<1>4. Told(Goto(p, "s_header_value_discard_ws"), s, w)
  BY <1>1, <1>2, DiscardGoto
<1>5. Told(Fail(p, "INVALID_CONTENT_LENGTH"), s, w)
  BY <1>2, FailTold DEF Steady
<1>6. s_header_value_discard_lws(p, ch, a) =
        CASE ch = Blank -> Goto(p, "s_header_value_discard_ws")
          [] ch # Blank /\ p.header = "content_length" -> Fail(p, "INVALID_CONTENT_LENGTH")
          [] OTHER -> IF Failed(d) THEN d ELSE e
  BY DEF s_header_value_discard_lws
<1>7. Steady(g)
  BY <1>2, FlagSteady
<1>8. /\ Look(g, s) = v /\ Given(g) = Given(p)
      /\ "TRAILING" \in g.flags <=> "TRAILING" \in p.flags
  BY <1>2, FlagsLook DEF Steady
<1> HIDE DEF g
<1>9. IsMark(m, g, "header_value") /\ OnlyMark(g, "header_value") /\ Typed(g) /\ g.errno = "OK"
  BY <1>1, <1>7, MarkEffect DEF Steady, OnlyMark, NoMark
<1> HIDE DEF m
<1>10. /\ Look(m, s) \in Views /\ Look(m, s).cb = "header_value" /\ Look(m, s).ordered
  <2> HIDE DEF v
  <2> QED BY <1>1, <1>3, <1>8, <1>9, MarkHeard
<1>11. /\ Typed(r) /\ r.marks = m.marks /\ r.out = m.out /\ r.state = "s_header_field_start"
       /\ r.type = g.type /\ r.errno = "OK" /\ r.flags = g.flags
       /\ r.content_length = g.content_length
  BY <1>1, <1>9, PlainStates DEF IsMark, Kept, Goto, Typed, Fields
<1> HIDE DEF r
<1>12. OnlyMark(r, "header_value") /\ r.type # "BOTH" /\ Look(r, s) = Look(m, s)
  BY <1>7, <1>9, <1>11, LookQuiet DEF IsMark, Steady, OnlyMark, Marked
<1>13. IsData(d, r, "header_value", 0, a)
  BY <1>1, <1>11, <1>12, DataPlain
<1> HIDE DEF d
<1>14. /\ Look(d, s) \in Views /\ Look(d, s).cb = "header_value" /\ Look(d, s).ordered
       /\ ~Failed(d) => NoMark(d)
  BY <1>1, <1>3, <1>10, <1>11, <1>12, <1>13, DataHeard
<1>15. Failed(d) => Told(d, s, w)
  <2>1. Right(d, Look(d, s), w)
    BY <1>14, RightElse
  <2> QED BY <1>14, <2>1 DEF Told, Tells
<1>16. ASSUME ~Failed(d) PROVE Told(e, s, w)
  <2>1. Steady(d)
    BY <1>1, <1>11, <1>12, <1>13, <1>14, <1>16 DEF IsData, Kept, Steady, Failed
  <2>2. d.flags = g.flags /\ Given(d) = Given(g)
    BY <1>11, <1>13 DEF IsData, Kept, Given
  <2>3. Lines(d, s, w)
    BY <1>3, <1>8, <1>14, <2>2 DEF Lines
  <2> QED BY <2>1, <2>3, FieldStartTold
<1> HIDE DEF e
<1> QED BY <1>4, <1>5, <1>6, <1>15, <1>16

LEMMA DeadTold ==
    ASSUME NEW p, Ready(p), NEW s, NEW w, Reads(p, s, w), p.state = "s_dead", ~p.exited, NEW ch
    PROVE  Told(s_dead(p, ch), s, w)
<1>1. Told(p, s, w)
  BY StartsWait DEF Between
<1>2. Told(Fail(p, "CLOSED_CONNECTION"), s, w)
  BY ReadyTyped, FailTold
<1> QED BY <1>1, <1>2 DEF s_dead

-----------------------------------------------------------------------------
(* Values are read after names and in continuation lines only.             *)

Outside(q) == DOMAIN q = Fields /\ q.state # "s_header_value"

LEMMA MacrosOutside ==
    ASSUME NEW p, Outside(p), NEW c, NEW x, NEW e, NEW a
    PROVE  /\ Outside(MARK(p, c)) /\ Outside(Fail(p, e)) /\ Outside(CALLBACK_DATA_(p, c, x, a))
           /\ Outside(CALLBACK_DATA(p, c, a)) /\ Outside(CALLBACK_NOTIFY(p, c, a))
<1>1. Outside(MARK(p, c)) /\ Outside(Fail(p, e))
  BY DEF Outside, MARK, Fail, Fields
<1>2. ASSUME NEW n, NEW z PROVE Outside(Call(p, c, n, z, a))
  BY DEF Outside, Call, Fields
<1> DEFINE d == Call(p, c, p.marks[c], x, a)
<1>3. ASSUME NEW d0, Outside(d0) PROVE Outside([d0 EXCEPT !.marks[c] = -1])
  BY <1>3 DEF Outside, Fields
<1>4. Outside(d)
  BY <1>2
<1>5. CALLBACK_DATA_(p, c, x, a) =
        IF p.marks[c] = -1 THEN p ELSE IF Failed(d) THEN d ELSE [d EXCEPT !.marks[c] = -1]
  BY DEF CALLBACK_DATA_
<1> HIDE DEF d
<1>6. Outside(CALLBACK_DATA_(p, c, x, a))
  BY <1>3, <1>4, <1>5
<1>7. ASSUME p.marks[c] # -1 PROVE Outside(CALLBACK_DATA(p, c, a))
  <2> DEFINE h == Call(p, c, p.marks[c], 0, a)
  <2>1. Outside(h)
    BY <1>2
  <2>2. CALLBACK_DATA(p, c, a) = IF Failed(h) THEN h ELSE [h EXCEPT !.marks[c] = -1]
    BY <1>7 DEF CALLBACK_DATA, CALLBACK_DATA_
  <2> HIDE DEF h
  <2> QED BY <1>3, <2>1, <2>2
<1>8. Outside(CALLBACK_DATA(p, c, a))
  BY <1>7 DEF CALLBACK_DATA, CALLBACK_DATA_
<1> QED BY <1>1, <1>2, <1>6, <1>8 DEF CALLBACK_NOTIFY

LEMMA GotoOutside ==
    ASSUME NEW p, DOMAIN p = Fields, NEW s, s # "s_header_value"
    PROVE  Outside(Goto(p, s)) /\ Goto(p, s).state = s
BY DEF Goto, Outside, Fields

LEMMA FirstLineOutside ==
    ASSUME NEW p, Outside(p), NEW ch, NEW a
    PROVE  /\ Outside(s_dead(p, ch)) /\ Outside(s_start_req(p, ch, a))
           /\ Outside(s_start_res(p, ch, a)) /\ Outside(s_res_or_resp_H(p, ch))
           /\ Outside(s_req_method(p, ch)) /\ Outside(s_req_http_start(p, ch))
           /\ Outside(http_major(p, ch)) /\ Outside(http_minor(p, ch))
           /\ Outside(s_req_http_end(p, ch)) /\ Outside(s_res_first_status_code(p, ch))
           /\ Outside(s_start_req_or_res(p, ch, a))
<1>1. Outside(s_dead(p, ch)) /\ Outside(s_req_http_start(p, ch)) /\ Outside(s_req_http_end(p, ch))
  BY DEF s_dead, s_req_http_start, s_req_http_end, Fail, Goto, Outside, Fields
<1>2. Outside(s_res_or_resp_H(p, ch))
  BY DEF s_res_or_resp_H, Fail, Outside, Fields
<1>3. Outside(s_req_method(p, ch))
  BY DEF s_req_method, Fail, Goto, Outside, Fields
<1>4. Outside(http_major(p, ch)) /\ Outside(http_minor(p, ch))
  BY DEF http_major, http_minor, Fail, Outside, Fields
<1>5. Outside(s_res_first_status_code(p, ch))
  BY DEF s_res_first_status_code, Fail, Goto, Outside, Fields
<1> DEFINE f == [p EXCEPT !.flags = {}, !.content_length = ULLONG_MAX]
<1>6. Outside(f)
  BY DEF Outside, Fields
<1>7. ASSUME NEW t, t # "s_header_value"
      PROVE  Outside(Goto(f, t))
  BY <1>6, <1>7, GotoOutside DEF Outside
<1>8. ASSUME NEW r, Outside(r) PROVE Outside(s_start_req(r, ch, a))
  <2> DEFINE g == [r EXCEPT !.flags = {}, !.content_length = ULLONG_MAX]
             m == [g EXCEPT !.method = FirstLetter[ch], !.index = 1, !.state = "s_req_method"]
  <2>1. Outside(g) /\ Outside(m)
    BY <1>8 DEF Outside, Fields
  <2>2. s_start_req(r, ch, a) = IF ch \in {CR, LF} THEN r
                                ELSE IF ch \notin DOMAIN FirstLetter THEN Fail(g, "INVALID_METHOD")
                                ELSE CALLBACK_NOTIFY(m, "message_begin", a)
    BY DEF s_start_req
  <2> HIDE DEF g, m
  <2>3. Outside(Fail(g, "INVALID_METHOD")) /\ Outside(CALLBACK_NOTIFY(m, "message_begin", a))
    BY <2>1, MacrosOutside
  <2> QED BY <1>8, <2>2, <2>3
<1> DEFINE g == [f EXCEPT !.type = "REQUEST", !.state = "s_start_req"]
<1>9. Outside(g)
  BY <1>6 DEF Outside, Fields
<1>10. s_start_res(p, ch, a) = IF ch \in {CR, LF} THEN p
                               ELSE IF ch # "H" THEN Fail(f, "INVALID_CONSTANT")
                               ELSE CALLBACK_NOTIFY(Goto(f, "s_res_H"), "message_begin", a)
  BY DEF s_start_res
<1>11. s_start_req_or_res(p, ch, a) =
        CASE ch \in {CR, LF} -> p
          [] ch = "H" -> CALLBACK_NOTIFY(Goto(f, "s_res_or_resp_H"), "message_begin", a)
          [] OTHER -> s_start_req(g, ch, a)
  BY DEF s_start_req_or_res
<1> HIDE DEF f, g
<1>12. /\ Outside(Fail(f, "INVALID_CONSTANT"))
       /\ Outside(CALLBACK_NOTIFY(Goto(f, "s_res_H"), "message_begin", a))
       /\ Outside(CALLBACK_NOTIFY(Goto(f, "s_res_or_resp_H"), "message_begin", a))
  BY <1>6, <1>7, MacrosOutside
<1>13. Outside(s_start_res(p, ch, a))
  BY <1>10, <1>12
<1>14. Outside(s_start_req_or_res(p, ch, a))
  BY <1>8, <1>9, <1>11, <1>12
<1> QED BY <1>1, <1>2, <1>3, <1>4, <1>5, <1>8, <1>13, <1>14

LEMMA LiteralOutside ==
    ASSUME NEW p, Outside(p), p.state \in Literals, NEW ch
    PROVE  Outside(literal(p, ch)) \/ p.state = "s_header_value"
<1> DEFINE l == IF p.state \in DOMAIN ReqLiteral THEN ReqLiteral[p.state] ELSE ResLiteral[p.state]
<1>1. l[2] # "s_header_value"
  BY DEF Literals, ReqLiteral, ResLiteral
<1>2. literal(p, ch) = IF ch = l[1] THEN Goto(p, l[2]) ELSE Fail(p, l[3])
  BY DEF literal
<1> HIDE DEF l
<1> QED BY <1>1, <1>2, GotoOutside, MacrosOutside DEF Outside

LEMMA UrlOutside ==
    ASSUME NEW p, Outside(p), p.state \in UrlStates \cup {"s_req_spaces_before_url"},
           NEW ch, NEW a
    PROVE  Outside(s_req_spaces_before_url(p, ch)) /\ Outside(s_req_url(p, ch, a))
<1>1. ASSUME NEW r, Outside(r), r.state \in UrlStates \cup {"s_req_spaces_before_url"}
      PROVE  Outside(url_char(r, ch))
  <2> DEFINE s == parse_url_char(r.state, ch)
  <2>1. s # "s_header_value"
    <3>1. s \in UrlStates \cup {"s_dead"}
      BY <1>1 DEF parse_url_char, UrlStates
    <3> QED BY <3>1 DEF UrlStates
  <2>2. url_char(r, ch) = IF s = "s_dead" THEN Fail(Goto(r, s), "INVALID_URL") ELSE Goto(r, s)
    BY DEF url_char
  <2> HIDE DEF s
  <2>3. Outside(Goto(r, s))
    BY <1>1, <2>1, GotoOutside DEF Outside
  <2>4. Outside(Fail(Goto(r, s), "INVALID_URL"))
    BY <2>3, MacrosOutside
  <2> QED BY <2>2, <2>3, <2>4
<1>2. Outside(s_req_spaces_before_url(p, ch))
  <2> DEFINE m == MARK(p, "url")
             g == IF p.method = "CONNECT" THEN Goto(m, "s_req_server_start") ELSE m
  <2>1. Outside(m) /\ m.state = p.state
    BY MacrosOutside DEF MARK, Outside, Fields
  <2>2. s_req_spaces_before_url(p, ch) = IF ch = Blank THEN p ELSE url_char(g, ch)
    BY DEF s_req_spaces_before_url
  <2> HIDE DEF m
  <2>3. Outside(g) /\ g.state \in UrlStates \cup {"s_req_spaces_before_url"}
    BY <2>1, GotoOutside DEF Outside, UrlStates
  <2> HIDE DEF g
  <2> QED BY <1>1, <2>2, <2>3
<1>3. Outside(s_req_url(p, ch, a))
  <2> DEFINE whole0 == p.state \notin {"s_req_schema", "s_req_schema_slash",
                                 "s_req_schema_slash_slash", "s_req_server_start"}
             e == [p EXCEPT !.http_major = 0, !.http_minor = 9,
                    !.state = IF ch = CR THEN "s_req_line_almost_done"
                              ELSE "s_header_field_start"]
             g == Goto(p, "s_req_http_start")
  <2>1. Outside(e)
    BY DEF Outside, Fields
  <2>2. Outside(g)
    BY GotoOutside DEF Outside
  <2>3. s_req_url(p, ch, a) =
          CASE ch = Blank /\ whole0 -> CALLBACK_DATA(g, "url", a)
            [] ch \in {CR, LF} /\ whole0 -> CALLBACK_DATA(e, "url", a)
            [] ch \in {Blank, CR, LF} /\ ~whole0 -> Fail(p, "INVALID_URL")
            [] OTHER -> url_char(p, ch)
    BY DEF s_req_url
  <2> HIDE DEF e, g, whole0
  <2>4. Outside(CALLBACK_DATA(g, "url", a)) /\ Outside(CALLBACK_DATA(e, "url", a))
        /\ Outside(Fail(p, "INVALID_URL"))
    BY <2>1, <2>2, MacrosOutside
  <2> QED BY <1>1, <2>3, <2>4
<1> QED BY <1>2, <1>3

LEMMA StatusOutside ==
    ASSUME NEW p, Outside(p), NEW ch, NEW a
    PROVE  /\ Outside(s_res_status(p, ch, a)) /\ Outside(s_res_status_start(p, ch, a))
           /\ Outside(s_res_status_code(p, ch, a))
<1>1. ASSUME NEW r, Outside(r) PROVE Outside(s_res_status(r, ch, a))
  <2>1. Outside(Goto(r, "s_res_line_almost_done")) /\ Outside(Goto(r, "s_header_field_start"))
    BY <1>1, GotoOutside DEF Outside
  <2>2. /\ Outside(CALLBACK_DATA(Goto(r, "s_res_line_almost_done"), "status", a))
        /\ Outside(CALLBACK_DATA(Goto(r, "s_header_field_start"), "status", a))
    BY <2>1, MacrosOutside
  <2> QED BY <1>1, <2>2 DEF s_res_status
<1>2. Outside(s_res_status_start(p, ch, a))
  <2> DEFINE m == MARK(p, "status")
             r == [m EXCEPT !.state = "s_res_status"]
  <2>1. Outside(m)
    BY MacrosOutside
  <2> HIDE DEF m
  <2>2. Outside(r)
    BY <2>1 DEF Outside, Fields
  <2>3. s_res_status_start(p, ch, a) = s_res_status(r, ch, a)
    BY DEF s_res_status_start, m
  <2> HIDE DEF r
  <2> QED BY <1>1, <2>2, <2>3
<1>3. Outside(s_res_status_code(p, ch, a))
  <2> DEFINE code == p.status_code * 10 + Digit[ch]
             g == [p EXCEPT !.status_code = code]
  <2>1. Outside(g)
    BY DEF Outside, Fields
  <2>2. Outside(Goto(p, "s_res_status_start")) /\ Outside(Fail(p, "INVALID_STATUS"))
    BY GotoOutside, MacrosOutside DEF Outside
  <2>3. s_res_status_code(p, ch, a) =
          CASE ch \in Num -> IF code > 999 THEN Fail(p, "INVALID_STATUS") ELSE g
            [] ch = Blank -> Goto(p, "s_res_status_start")
            [] ch \in {CR, LF} -> s_res_status_start(p, ch, a)
            [] OTHER -> Fail(p, "INVALID_STATUS")
    BY DEF s_res_status_code
  <2> HIDE DEF g, code
  <2> QED BY <1>2, <2>1, <2>2, <2>3
<1> QED BY <1>1, <1>2, <1>3

LEMMA CompleteOutside ==
    ASSUME NEW p, Outside(p), NEW a
    PROVE  Outside(message_complete(p, a))
<1> DEFINE q == CALLBACK_NOTIFY(Goto(p, NEW_MESSAGE(p)), "message_complete", a)
<1>1. NEW_MESSAGE(p) # "s_header_value"
  BY DEF NEW_MESSAGE
<1>2. Outside(q)
  BY <1>1, GotoOutside, MacrosOutside DEF Outside
<1>3. message_complete(p, a) = [q EXCEPT !.exited = p.upgrade]
  BY DEF message_complete
<1> HIDE DEF q
<1> QED BY <1>2, <1>3 DEF Outside, Fields

LEMMA BodyOutside ==
    ASSUME NEW p, Outside(p), NEW ch, NEW a
    PROVE  /\ Outside(s_body_identity(p, ch, a)) /\ Outside(s_body_identity_eof(p))
           /\ Outside(s_chunk_data(p, ch)) /\ Outside(s_chunk_data_almost_done(p, ch, a))
           /\ Outside(s_chunk_data_done(p, ch, a)) /\ Outside(s_chunk_parameters(p, ch))
           /\ Outside(s_chunk_size_almost_done(p, ch, a))
<1> DEFINE m == MARK(p, "body")
           q == [m EXCEPT !.content_length = @ - 1]
<1>1. Outside(m)
  BY MacrosOutside
<1>2. s_body_identity_eof(p) = m
  BY DEF s_body_identity_eof
<1>3. /\ s_body_identity(p, ch, a) =
           (IF q.content_length > 0 THEN q
            ELSE IF Failed(CALLBACK_DATA_(q, "body", 1, a)) THEN CALLBACK_DATA_(q, "body", 1, a)
            ELSE message_complete(CALLBACK_DATA_(q, "body", 1, a), a))
      /\ s_chunk_data(p, ch) =
           (IF q.content_length = 0 THEN Goto(q, "s_chunk_data_almost_done") ELSE q)
  BY DEF s_body_identity, s_chunk_data
<1> HIDE DEF m
<1>4. Outside(q)
  BY <1>1 DEF Outside, Fields
<1> HIDE DEF q
<1>5. Outside(s_body_identity(p, ch, a))
  <2>1. Outside(CALLBACK_DATA_(q, "body", 1, a))
    BY <1>4, MacrosOutside
  <2> QED BY <1>3, <1>4, <2>1, CompleteOutside
<1>6. Outside(s_chunk_data(p, ch))
  BY <1>3, <1>4, GotoOutside DEF Outside
<1>7. /\ Outside(Goto(p, "s_chunk_data_done")) /\ Outside(Goto(p, "s_chunk_size_start"))
      /\ Outside(Goto(p, "s_chunk_size_almost_done")) /\ Outside(Fail(p, "STRICT"))
  BY GotoOutside, MacrosOutside DEF Outside
<1>8. /\ Outside(s_chunk_data_almost_done(p, ch, a)) /\ Outside(s_chunk_data_done(p, ch, a))
      /\ Outside(s_chunk_parameters(p, ch))
  BY <1>7, MacrosOutside DEF s_chunk_data_almost_done, s_chunk_data_done, s_chunk_parameters
<1>9. Outside(s_chunk_size_almost_done(p, ch, a))
  <2> DEFINE last == p.content_length = 0
             r == [p EXCEPT !.flags = IF last THEN @ \cup {"TRAILING"} ELSE @,
                       !.state = IF last THEN "s_header_field_start" ELSE "s_chunk_data"]
  <2>1. Outside(r)
    BY DEF Outside, Fields
  <2>2. s_chunk_size_almost_done(p, ch, a) =
          IF ch # LF THEN Fail(p, "STRICT") ELSE CALLBACK_NOTIFY(r, "chunk_header", a)
    BY DEF s_chunk_size_almost_done
  <2> HIDE DEF r
  <2> QED BY <1>7, <2>1, <2>2, MacrosOutside
<1> QED BY <1>1, <1>2, <1>5, <1>6, <1>8, <1>9

LEMMA SizeOutside ==
    ASSUME NEW p, Outside(p), NEW ch
    PROVE  Outside(s_chunk_size_start(p, ch)) /\ Outside(s_chunk_size(p, ch))
<1>1. Outside(s_chunk_size_start(p, ch))
  BY DEF s_chunk_size_start, Outside, Fail, Fields
<1>2. Outside(Digits(p, 16, unhex[ch]))
  BY DEF Digits, Outside, Fail, Fields
<1>3. /\ Outside(Goto(p, "s_chunk_size_almost_done")) /\ Outside(Goto(p, "s_chunk_parameters"))
      /\ Outside(Fail(p, "INVALID_CHUNK_SIZE"))
  BY GotoOutside, MacrosOutside DEF Outside
<1> QED BY <1>1, <1>2, <1>3 DEF s_chunk_size

LEMMA HeadersEndOutside ==
    ASSUME NEW p, Outside(p), NEW ch, NEW a
    PROVE  Outside(s_headers_almost_done(p, ch, a))
<1> DEFINE t == CALLBACK_NOTIFY(p, "chunk_complete", a)
           h == Answered(p, a)
<1>1. ASSUME NEW r, Outside(r) PROVE Outside(s_headers_done(r, a))
  <2>1. /\ Outside(Goto(r, "s_chunk_size_start")) /\ Outside(Goto(r, "s_body_identity_eof"))
        /\ Outside(Goto(r, "s_body_identity")) /\ Outside(Fail(r, "INVALID_TRANSFER_ENCODING"))
        /\ Outside(message_complete(r, a))
    BY <1>1, GotoOutside, MacrosOutside, CompleteOutside DEF Outside
  <2> QED BY <2>1 DEF s_headers_done
<1>2. Outside(t)
  BY MacrosOutside
<1>3. Outside(h)
  <2> DEFINE b == [a EXCEPT !["headers_complete"] = IF @ \in 1..2 THEN 0 ELSE @]
             u == [p EXCEPT !.upgrade = Upgrades(p)]
             c == CALLBACK_NOTIFY(u, "headers_complete", b)
  <2>1. Outside(u)
    BY DEF Outside, Fields
  <2> HIDE DEF u, b
  <2>2. Outside(c)
    BY <2>1, MacrosOutside
  <2>3. h = [c EXCEPT !.upgrade = @ \/ a["headers_complete"] = 2,
                      !.flags = IF a["headers_complete"] \in 1..2 THEN @ \cup {"SKIPBODY"} ELSE @]
    BY DEF Answered, u, b
  <2> HIDE DEF c, h
  <2> QED BY <2>2, <2>3 DEF Outside, Fields
<1>4. s_headers_almost_done(p, ch, a) =
        CASE ch # LF -> Fail(p, "STRICT")
          [] ch = LF /\ "TRAILING" \in p.flags -> IF Failed(t) THEN t ELSE message_complete(t, a)
          [] ch = LF /\ "TRAILING" \notin p.flags
                /\ {"TRANSFER_ENCODING", "CONTENTLENGTH"} \subseteq p.flags ->
                Fail(p, "UNEXPECTED_CONTENT_LENGTH")
          [] OTHER -> IF Failed(h) THEN h ELSE s_headers_done(h, a)
  BY DEF s_headers_almost_done, Answered
<1> HIDE DEF t, h
<1>5. /\ Outside(message_complete(t, a)) /\ Outside(s_headers_done(h, a))
      /\ Outside(Fail(p, "STRICT")) /\ Outside(Fail(p, "UNEXPECTED_CONTENT_LENGTH"))
  BY <1>1, <1>2, <1>3, CompleteOutside, MacrosOutside
<1> QED BY <1>2, <1>3, <1>4, <1>5

LEMMA FieldOutside ==
    ASSUME NEW p, Outside(p), NEW ch, NEW a
    PROVE  Outside(s_header_field_start(p, ch, a)) /\ Outside(s_header_field(p, ch, a))
<1> DEFINE m == MARK(p, "header_field")
           o == IF Lower(ch) \in DOMAIN FirstOfField THEN FirstOfField[Lower(ch)] ELSE "general"
           f == [m EXCEPT !.state = "s_header_field", !.header = o]
           h == Name(p.header, ch)
           n == [p EXCEPT !.header = h, !.flags =
                  IF h = "transfer_encoding" THEN @ \cup {"TRANSFER_ENCODING"} ELSE @]
<1>1. Outside(m)
  BY MacrosOutside
<1>2. s_header_field_start(p, ch, a) =
        CASE ch = CR -> Goto(p, "s_headers_almost_done")
          [] ch = LF -> s_headers_almost_done(p, ch, a)
          [] Token(ch) -> f
          [] OTHER -> Fail(p, "INVALID_HEADER_TOKEN")
  BY DEF s_header_field_start
<1>3. s_header_field(p, ch, a) =
        CASE Token(ch) -> n
          [] ch = ":" -> CALLBACK_DATA(Goto(p, "s_header_value_discard_ws"), "header_field", a)
          [] OTHER -> Fail(p, "INVALID_HEADER_TOKEN")
  BY DEF s_header_field
<1> HIDE DEF m, o, h
<1>4. Outside(f) /\ Outside(n)
  BY <1>1 DEF Outside, Fields
<1>5. /\ Outside(Goto(p, "s_headers_almost_done")) /\ Outside(Fail(p, "INVALID_HEADER_TOKEN"))
      /\ Outside(Goto(p, "s_header_value_discard_ws"))
  BY GotoOutside, MacrosOutside DEF Outside
<1>6. Outside(CALLBACK_DATA(Goto(p, "s_header_value_discard_ws"), "header_field", a))
  BY <1>5, MacrosOutside
<1> HIDE DEF f, n
<1> QED BY <1>2, <1>3, <1>4, <1>5, <1>6, HeadersEndOutside

LEMMA LwsOutside ==
    ASSUME NEW p, Outside(p), NEW ch, NEW a
    PROVE  /\ ch # Blank => Outside(s_header_value_lws(p, ch, a))
           /\ Outside(s_header_value_discard_lws(p, ch, a))
<1> DEFINE f == flag_value(p)
           m == MARK(f, "header_value")
           g == Goto(m, "s_header_field_start")
           d == CALLBACK_DATA(g, "header_value", a)
<1>1. Outside(f)
  BY DEF flag_value, Outside, Fields
<1>2. /\ ch # Blank => s_header_value_lws(p, ch, a) = s_header_field_start(f, ch, a)
      /\ s_header_value_discard_lws(p, ch, a) =
           CASE ch = Blank -> Goto(p, "s_header_value_discard_ws")
             [] ch # Blank /\ p.header = "content_length" -> Fail(p, "INVALID_CONTENT_LENGTH")
             [] OTHER -> IF Failed(d) THEN d ELSE s_header_field_start(d, ch, a)
  BY DEF s_header_value_lws, s_header_value_discard_lws
<1> HIDE DEF f
<1>3. Outside(m)
  BY <1>1, MacrosOutside
<1> HIDE DEF m
<1>4. Outside(g)
  BY <1>3, GotoOutside DEF Outside
<1> HIDE DEF g
<1>5. Outside(d)
  BY <1>4, MacrosOutside
<1> HIDE DEF d
<1>6. /\ Outside(s_header_field_start(f, ch, a)) /\ Outside(s_header_field_start(d, ch, a))
      /\ Outside(Goto(p, "s_header_value_discard_ws"))
      /\ Outside(Fail(p, "INVALID_CONTENT_LENGTH"))
  BY <1>1, <1>5, FieldOutside, GotoOutside, MacrosOutside DEF Outside
<1> QED BY <1>2, <1>5, <1>6

-----------------------------------------------------------------------------
(* A step of the loop.                                                     *)

\* The states that read a length.
Measuring == {"s_chunk_size_start", "s_chunk_size", "s_header_value",
              "s_header_value_discard_ws", "s_header_value_lws"}

Starts == {"s_start_req", "s_start_res", "s_start_req_or_res"}

LEMMA StartStates == {Start[t] : t \in DOMAIN Start} = Starts
BY DEF Start, Starts

LEMMA DeclaredWant ==
    ASSUME NEW p, NEW q, NEW ch, Outside(q) \/ Failed(q), p.state \notin Measuring,
           p.state \in Starts => q.state = p.state
    PROVE  Declared(p, q, ch) = want
BY StartStates DEF Declared, Outside, Measuring, Starts

LEMMA DeclaredStart ==
    ASSUME NEW p, NEW q, NEW ch, p.state \in Starts
    PROVE  /\ ~Failed(q) /\ q.state # p.state => Declared(p, q, ch) = 0
           /\ Outside(q) /\ q.state = p.state => Declared(p, q, ch) = want
BY StartStates DEF Declared, Outside, Starts

LEMMA DeclaredValue ==
    ASSUME NEW p, NEW q, NEW ch,
           p.state \in {"s_header_value", "s_header_value_discard_ws", "s_header_value_lws"}
    PROVE  Declared(p, q, ch) = Valued(p, q, ch, want)
BY StartStates DEF Declared, Valued, Starts

LEMMA DeclaredChunk ==
    ASSUME NEW p, NEW q, NEW ch, Outside(q)
    PROVE  /\ p.state = "s_chunk_size_start" =>
                Declared(p, q, ch) = IF ch \in Hex /\ ~Failed(q) THEN unhex[ch] ELSE want
           /\ p.state = "s_chunk_size" =>
                Declared(p, q, ch) = IF ch \in Hex /\ ~Failed(q) THEN want * 16 + unhex[ch]
                                     ELSE want
BY StartStates DEF Declared, Outside, Starts

LEMMA StartTold ==
    ASSUME NEW p, Ready(p), NEW s, Reads(p, s, want), ~p.exited, p.state \in Starts, NEW ch,
           NEW a, NEW q, q = Transition(p, ch, a)
    PROVE  Told(q, s, Declared(p, q, ch))
<1>1. Waits(p, s) /\ Told(p, s, want)
  <2>1. p.state \in Between
    BY DEF Starts, Between
  <2> QED BY <2>1, StartsWait
<1>2. Outside(p)
  BY ReadyTyped DEF Outside, Typed, Starts
<1>3. q = CASE p.state = "s_start_req" -> s_start_req(p, ch, a)
            [] p.state = "s_start_res" -> s_start_res(p, ch, a)
            [] p.state = "s_start_req_or_res" -> s_start_req_or_res(p, ch, a)
  BY DEF Transition, Starts, UrlStates, Literals, ReqLiteral, ResLiteral
<1>4. CASE ch \in {CR, LF}
  <2>1. /\ s_start_req(p, ch, a) = p /\ s_start_res(p, ch, a) = p
        /\ s_start_req_or_res(p, ch, a) = p
    <3>1. s_start_req(p, ch, a) = p /\ s_start_res(p, ch, a) = p
      BY <1>4 DEF s_start_req, s_start_res
    <3>2. s_start_req_or_res(p, ch, a) = p
      BY <1>4 DEF s_start_req_or_res, CR, LF
    <3> QED BY <3>1, <3>2
  <2>2. q = p
    BY <1>3, <2>1 DEF Starts
  <2>3. Declared(p, q, ch) = want
    BY <1>2, <2>2, DeclaredStart
  <2> QED BY <1>1, <2>2, <2>3
<1>5. CASE ch \notin {CR, LF}
  <2> DEFINE u == Declared(p, q, ch)
  <2>1. CASE p.state = "s_start_req"
    <3>1. q = s_start_req(p, ch, a)
      BY <1>3, <2>1
    <3>2. \A w : (~Failed(q) => w = 0) =>
             Told(q, s, w) /\ (~Failed(q) => q.state = "s_req_method")
      BY <1>1, <1>5, <2>1, <3>1, StartReqTold
    <3>3. ~Failed(q) => q.state = "s_req_method"
      BY <3>2
    <3>4. ~Failed(q) => u = 0
      BY <2>1, <3>3, DeclaredStart
    <3> QED BY <3>2, <3>4
  <2>2. CASE p.state = "s_start_res"
    <3>1. q = s_start_res(p, ch, a)
      BY <1>3, <2>2
    <3>2. \A w : (~Failed(q) => w = 0) =>
             Told(q, s, w) /\ (~Failed(q) => q.state = "s_res_H")
      BY <1>1, <1>5, <2>2, <3>1, StartResTold
    <3>3. ~Failed(q) => q.state = "s_res_H"
      BY <3>2
    <3>4. ~Failed(q) => u = 0
      BY <2>2, <3>3, DeclaredStart
    <3> QED BY <3>2, <3>4
  <2>3. CASE p.state = "s_start_req_or_res"
    <3>1. q = s_start_req_or_res(p, ch, a)
      BY <1>3, <2>3
    <3>2. \A w : (~Failed(q) => w = 0) =>
             Told(q, s, w) /\ (~Failed(q) => q.state \in {"s_res_or_resp_H", "s_req_method"})
      BY <1>1, <1>5, <2>3, <3>1, StartReqOrResTold
    <3>3. ~Failed(q) => q.state \in {"s_res_or_resp_H", "s_req_method"}
      BY <3>2
    <3>4. ~Failed(q) => u = 0
      BY <2>3, <3>3, DeclaredStart
    <3> QED BY <3>2, <3>4
  <2> QED BY <2>1, <2>2, <2>3 DEF Starts
<1> QED BY <1>4, <1>5

LEMMA TransitionTold ==
    ASSUME NEW p, Ready(p), NEW s, Reads(p, s, want), ~p.exited, NEW ch, NEW a
    PROVE  Told(Transition(p, ch, a), s, Declared(p, Transition(p, ch, a), ch))
<1> DEFINE P(q) == Told(q, s, Declared(p, q, ch))
<1>1. p.state \in States /\ DOMAIN p = Fields
  BY ReadyTyped DEF Typed
<1>2. ASSUME NEW q, Outside(q), Told(q, s, want), p.state \notin Measuring \cup Starts
      PROVE  P(q)
  BY <1>2, DeclaredWant
<1>3. ASSUME p.state \notin Measuring \cup Starts PROVE Outside(p)
  BY <1>1, <1>3 DEF Outside, Measuring
<1> HIDE DEF P
<1>4. ASSUME p.state \in Starts PROVE P(Transition(p, ch, a))
  BY <1>4, StartTold DEF P
<1>5. p.state \in Literals => P(literal(p, ch))
  <2> SUFFICES ASSUME p.state \in Literals PROVE P(literal(p, ch))
    OBVIOUS
  <2>1. p.state \notin Measuring \cup Starts
    BY DEF Literals, ReqLiteral, ResLiteral, Measuring, Starts
  <2>2. Outside(literal(p, ch))
    BY <1>3, <2>1, LiteralOutside DEF Outside
  <2> QED BY <1>2, <2>1, <2>2, LiteralTold
<1>6. /\ p.state = "s_dead" => P(s_dead(p, ch))
      /\ p.state = "s_res_or_resp_H" => P(s_res_or_resp_H(p, ch))
      /\ p.state = "s_req_method" => P(s_req_method(p, ch))
      /\ p.state = "s_req_http_start" => P(s_req_http_start(p, ch))
      /\ p.state = "s_req_http_end" => P(s_req_http_end(p, ch))
      /\ p.state \in {"s_req_http_major", "s_res_http_major"} => P(http_major(p, ch))
      /\ p.state \in {"s_req_http_minor", "s_res_http_minor"} => P(http_minor(p, ch))
      /\ p.state = "s_res_first_status_code" => P(s_res_first_status_code(p, ch))
  BY <1>2, <1>3, FirstLineOutside, DeadTold, ResOrRespTold, MethodTold, HttpStartTold,
     HttpEndTold, MajorTold, MinorTold, FirstCodeTold DEF Measuring, Starts
<1>7. /\ p.state \in UrlStates => P(s_req_url(p, ch, a))
      /\ p.state = "s_req_spaces_before_url" => P(s_req_spaces_before_url(p, ch))
  <2>1. p.state \in UrlStates \cup {"s_req_spaces_before_url"} =>
          p.state \notin Measuring \cup Starts
    BY DEF UrlStates, Measuring, Starts
  <2> QED BY <1>2, <1>3, <2>1, UrlOutside, UrlTold, SpacesTold
<1>8. /\ p.state = "s_res_status" => P(s_res_status(p, ch, a))
      /\ p.state = "s_res_status_start" => P(s_res_status_start(p, ch, a))
      /\ p.state = "s_res_status_code" => P(s_res_status_code(p, ch, a))
  BY <1>2, <1>3, StatusOutside, InStatusTold, StatusStartTold, StatusCodeTold
     DEF Measuring, Starts
<1>9. /\ p.state = "s_body_identity" => P(s_body_identity(p, ch, a))
      /\ p.state = "s_body_identity_eof" => P(s_body_identity_eof(p))
      /\ p.state = "s_chunk_parameters" => P(s_chunk_parameters(p, ch))
      /\ p.state = "s_chunk_size_almost_done" => P(s_chunk_size_almost_done(p, ch, a))
      /\ p.state = "s_chunk_data" => P(s_chunk_data(p, ch))
      /\ p.state = "s_chunk_data_almost_done" => P(s_chunk_data_almost_done(p, ch, a))
      /\ p.state = "s_chunk_data_done" => P(s_chunk_data_done(p, ch, a))
  BY <1>2, <1>3, BodyOutside, BodyIdentityTold, BodyEofTold, ChunkParametersTold,
     ChunkHeaderTold, ChunkDataTold, ChunkDataEndTold, ChunkCompleteTold
     DEF Measuring, Starts
<1>10. /\ p.state = "s_header_field_start" => P(s_header_field_start(p, ch, a))
       /\ p.state = "s_headers_almost_done" => P(s_headers_almost_done(p, ch, a))
  <2> SUFFICES ASSUME p.state \in LineStarts
               PROVE  P(s_header_field_start(p, ch, a)) /\ P(s_headers_almost_done(p, ch, a))
    BY DEF LineStarts
  <2>1. Steady(p) /\ Lines(p, s, want)
    BY DiscardsSteady, HeadReads
  <2>2. p.state \notin Measuring \cup Starts
    BY DEF LineStarts, Measuring, Starts
  <2> QED BY <1>2, <1>3, <2>1, <2>2, FieldOutside, HeadersEndOutside, FieldStartTold,
             HeadersEndTold
<1>11. /\ p.state = "s_header_field" => P(s_header_field(p, ch, a))
       /\ p.state = "s_header_value_discard_lws" => P(s_header_value_discard_lws(p, ch, a))
  BY <1>2, <1>3, FieldOutside, LwsOutside, FieldTold, DiscardLwsTold DEF Measuring, Starts
<1>12. ASSUME p.state = "s_header_value" PROVE P(s_header_value(p, ch, a))
  BY <1>12, DeclaredValue, ValueTold DEF P
<1>13. ASSUME p.state = "s_header_value_discard_ws" PROVE P(s_header_value_discard_ws(p, ch))
  BY <1>13, DeclaredValue, DiscardTold DEF P
<1>14. ASSUME p.state = "s_header_value_lws" PROVE P(s_header_value_lws(p, ch, a))
  <2> DEFINE q == s_header_value_lws(p, ch, a)
  <2>1. Declared(p, q, ch) = Valued(p, q, ch, want)
    BY <1>14, DeclaredValue
  <2>2. Outside(p)
    BY <1>1, <1>14 DEF Outside
  <2>3. ch # Blank => Outside(q)
    BY <2>2, LwsOutside
  <2> HIDE DEF q
  <2>4. ch # Blank => Valued(p, q, ch, want) = want
    BY <2>3 DEF Outside, Valued
  <2> QED BY <1>14, <2>1, <2>4, LwsTold DEF P, q
<1>15. ASSUME p.state = "s_chunk_size_start" PROVE P(s_chunk_size_start(p, ch))
  <2> DEFINE q == s_chunk_size_start(p, ch)
  <2>1. Outside(q)
    BY <1>1, <1>15, SizeOutside DEF Outside
  <2>2. ~Failed(q) => ch \in Hex
    BY <1>1 DEF s_chunk_size_start, Fail, Failed, Fields
  <2> HIDE DEF q
  <2>3. Declared(p, q, ch) = IF Failed(q) THEN want ELSE unhex[ch]
    BY <1>15, <2>1, <2>2, DeclaredChunk
  <2> QED BY <1>15, <2>3, ChunkSizeStartTold DEF P, q
<1>16. ASSUME p.state = "s_chunk_size" PROVE P(s_chunk_size(p, ch))
  <2> DEFINE q == s_chunk_size(p, ch)
  <2>1. Outside(q)
    BY <1>1, <1>16, SizeOutside DEF Outside
  <2> HIDE DEF q
  <2>2. Declared(p, q, ch) = IF ch \in Hex /\ ~Failed(q) THEN want * 16 + unhex[ch] ELSE want
    BY <1>16, <2>1, DeclaredChunk
  <2> QED BY <1>16, <2>2, ChunkSizeTold DEF P, q
<1>17. ASSUME p.state \notin Starts PROVE P(Transition(p, ch, a))
  BY <1>1, <1>5, <1>6, <1>7, <1>8, <1>9, <1>10, <1>11, <1>12, <1>13, <1>14, <1>15, <1>16, <1>17
     DEF Transition, States, UrlStates, Literals, ReqLiteral, ResLiteral, Starts
<1> QED BY <1>4, <1>17 DEF P

-----------------------------------------------------------------------------
(* What holds of the parser between two steps.                             *)

Heed ==
    LET v == View(parser, seen)
    IN  /\ v.ordered /\ Right(parser, v, want)
        /\ ~Failed(parser) /\ ~parser.exited => Book(parser, v, want)

\* The fields that Right and Book look at.
LEMMA RightSame ==
    ASSUME NEW q, NEW v, NEW w, Right(q, v, w), NEW r,
           r.state = q.state, r.type = q.type, r.flags = q.flags, r.upgrade = q.upgrade,
           ~Failed(r) => ~Failed(q), r.state = "s_body_identity_eof" => r.exited = q.exited
    PROVE  Right(r, v, w)
BY DEF Right

LEMMA BookSame ==
    ASSUME NEW q, NEW v, NEW w, Book(q, v, w), NEW r, r.state = q.state, r.header = q.header,
           r.flags = q.flags, r.content_length = q.content_length
    PROVE  Book(r, v, w)
BY DEF Book, Heard, Length, Given

LEMMA ViewSame ==
    ASSUME NEW q, NEW r, r.marks = q.marks, NEW s
    PROVE  View(r, s) = View(q, s) /\ (NoMark(r) <=> NoMark(q))
BY DEF View, NoMark, Marked

LEMMA HeedReads ==
    ASSUME Base, Heed, ~Failed(parser), ~parser.exited
    PROVE  /\ Ready(parser) /\ Typed(parser) /\ Reads(parser, seen, want)
           /\ Look(parser, seen) = View(parser, seen)
<1>1. Ready(parser) /\ Typed(parser) /\ parser.out = <<>> /\ OneMark(parser) /\ seen \in Views
  BY SoundReady DEF Base, Ready, Good
<1>2. Look(parser, seen) = View(parser, seen)
  BY <1>1, ReportNothing DEF Look
<1>3. View(parser, seen) \in Views
  BY <1>1, ViewType
<1> QED BY <1>1, <1>2, <1>3 DEF Heed, Reads

LEMMA HeedInit == Init => Heed
<1> SUFFICES ASSUME Init PROVE Heed
  OBVIOUS
<1>1. PICK t \in Types : parser = begin(http_parser_init(t))
  BY DEF Init
<1>2. t \in DOMAIN Start
  BY <1>1, HttpStreamAssumption
<1>3. Typed(parser)
  BY <1>1, <1>2, InitReady, ReadyTyped
<1> DEFINE i == http_parser_init(t)
           m == [c \in DataCallbacks |-> IF c \in Resumed(i.state) THEN 0 ELSE -1]
<1>4. /\ i.state = Start[t] /\ DOMAIN i = Fields
  BY DEF http_parser_init, Fields
<1>5. parser = [i EXCEPT !.exited = FALSE, !.out = <<>>, !.marks = m]
  BY <1>1 DEF begin
<1> HIDE DEF i
<1>6. Start[t] \in Starts
  BY <1>2 DEF Start, Starts
<1>7. Resumed(i.state) = {}
  BY <1>4, <1>6 DEF Starts, Resumed, UrlStates
<1> HIDE DEF m
<1>8. parser.state \in Starts /\ parser.marks = m
  BY <1>4, <1>5, <1>6 DEF Fields
<1>9. NoMark(parser)
  BY <1>7, <1>8 DEF NoMark, Marked, m
<1>10. View(parser, seen) = Nothing
  BY <1>9, NoMarkView DEF Init
<1>11. Nothing.cb = "none" /\ Nothing.ordered
  BY DEF Nothing
<1>12. Right(parser, Nothing, want)
  BY <1>11, RightElse
<1>13. Book(parser, Nothing, want)
  BY <1>8, <1>11, AtBetween DEF Starts, Between
<1> QED BY <1>10, <1>11, <1>12, <1>13 DEF Heed

\* The step moves the marks: what is marked is one symbol longer.
LEMMA StepTold ==
    ASSUME NEW p, Ready(p), NEW ch, NEW a, NEW s \in Views, NEW w,
           Told(Transition(p, ch, a), s, w)
    PROVE  LET r == step(p, ch, a)
               v == Look(r, s)
           IN  /\ Typed(r) /\ v.ordered /\ Right(r, v, w)
               /\ ~Failed(r) /\ ~r.exited => Book(r, v, w)
<1> DEFINE q == Transition(p, ch, a)
           u == Look(q, s)
           r == step(p, ch, a)
<1>1. Done(q)
  BY TransitionDone
<1>2. Told(q, s, w)
  OBVIOUS
<1> HIDE DEF q
<1>3. Typed(q) /\ OneMark(q)
  BY <1>1 DEF Done, Good
<1>4. r = IF Failed(q) THEN q ELSE [q EXCEPT !.marks = Moved(q.marks)]
  BY <1>3, StepIs DEF q
<1> HIDE DEF r
<1>5. /\ u \in Views /\ u.ordered /\ Right(q, u, w)
      /\ ~Failed(q) /\ ~q.exited => Book(q, Ticked(q, u), w)
  BY <1>2 DEF Told, Tells
<1>6. CASE Failed(q)
  BY <1>3, <1>4, <1>5, <1>6 DEF r
<1>7. CASE ~Failed(q)
  <2>1. r = [q EXCEPT !.marks = Moved(q.marks)]
    BY <1>4, <1>7
  <2>2. /\ SameMarks(r, q) /\ r.marks = Moved(q.marks) /\ r.out = q.out /\ r.exited = q.exited
        /\ r.upgrade = q.upgrade
    BY <1>3, <2>1, MoveEffect DEF Typed, Fields
  <2>3. PICK c \in DataCallbacks : OnlyMark(q, c)
    BY <1>3 DEF OneMark
  <2>4. Look(r, s) = IF Marked(q, c) THEN With(u, c, 1) ELSE u
    BY <1>3, <2>2, <2>3, LookMove
  <2>5. /\ Typed(r) /\ r.state = q.state /\ r.type = q.type /\ r.flags = q.flags
        /\ r.upgrade = q.upgrade /\ r.exited = q.exited /\ r.errno = q.errno
        /\ r.header = q.header /\ r.content_length = q.content_length
    BY <2>2 DEF SameMarks
  <2>6. ASSUME NEW v, Right(q, v, w), v = Ticked(q, u)
        PROVE  Right(r, v, w) /\ (~Failed(r) /\ ~r.exited => Book(r, v, w))
    BY <1>5, <1>7, <2>5, <2>6, RightSame, BookSame DEF Failed
  <2>7. CASE Marked(q, c)
    <3> DEFINE v == With(u, c, 1)
    <3>1. u.cb = c
      <4>1. Report(s, q.out) \in Views
        BY <1>3, ReportType DEF Typed
      <4> QED BY <1>3, <2>3, <2>7, <4>1, MarkedView DEF Look
    <3>2. ~NoMark(q)
      BY <2>7 DEF NoMark
    <3>3. v = Ticked(q, u)
      BY <3>1, <3>2 DEF Ticked
    <3> HIDE DEF v, u
    <3>4. v.cb = c /\ v.ordered = u.ordered
      BY <1>5, <3>1, <3>2, <3>3, TickedIs
    <3>5. Right(q, v, w)
      BY <3>4, RightElse, DataNames
    <3> QED BY <1>5, <2>4, <2>5, <2>6, <2>7, <3>3, <3>4, <3>5 DEF r, v
  <2>8. CASE ~Marked(q, c)
    <3>1. NoMark(q)
      BY <2>3, <2>8 DEF NoMark, OnlyMark
    <3>2. u = Ticked(q, u)
      BY <3>1 DEF Ticked
    <3> HIDE DEF u
    <3> QED BY <1>5, <2>4, <2>5, <2>6, <2>8, <3>2 DEF r
  <2> QED BY <2>7, <2>8
<1> QED BY <1>6, <1>7

LEMMA HeedFeed == Base /\ Heed /\ Feed => Heed'
<1> SUFFICES ASSUME Base, Heed, Feed PROVE Heed'
  OBVIOUS
<1>1. PICK ch, a : /\ parser' = Silent(step(parser, ch, a))
                   /\ seen' = Report(seen, step(parser, ch, a).out)
                   /\ want' = Declared(parser, step(parser, ch, a), ch)
  BY DEF Feed
<1>2. /\ Ready(parser) /\ Reads(parser, seen, want) /\ seen \in Views /\ ~parser.exited
  BY HeedReads DEF Feed, Base
<1> DEFINE q == Transition(parser, ch, a)
           r == step(parser, ch, a)
           w == Declared(parser, r, ch)
           v == Look(r, seen)
<1>3. Told(q, seen, Declared(parser, q, ch))
  BY <1>2, TransitionTold
<1>4. Declared(parser, q, ch) = w
  <2>1. Typed(q)
    BY <1>2, TransitionDone DEF Done, Good
  <2>2. r = IF Failed(q) THEN q ELSE [q EXCEPT !.marks = Moved(q.marks)]
    BY <2>1, StepIs
  <2> HIDE DEF q, r
  <2>3. r.state = q.state /\ r.header = q.header /\ r.errno = q.errno
    BY <2>1, <2>2 DEF Typed, Fields
  <2> QED BY <2>3 DEF Declared, Failed
<1>5. Told(q, seen, w)
  BY <1>3, <1>4
<1> HIDE DEF w
<1>6. /\ Typed(r) /\ v.ordered /\ Right(r, v, w)
      /\ ~Failed(r) /\ ~r.exited => Book(r, v, w)
  BY <1>2, <1>5, StepTold
<1> HIDE DEF q, r
<1> DEFINE t == Silent(r)
<1>7. /\ SameMarks(t, r) /\ t.marks = r.marks /\ t.exited = r.exited
  BY <1>6, SilentEffect
<1>8. t.upgrade = r.upgrade
  BY <1>6 DEF Silent, Typed, Fields
<1> HIDE DEF t
<1>9. View(t, Report(seen, r.out)) = v
  BY <1>7, ViewSame DEF Look
<1> HIDE DEF v
<1>10. Right(t, v, w) /\ (~Failed(t) /\ ~t.exited => Book(t, v, w))
  BY <1>6, <1>7, <1>8, RightSame, BookSame DEF SameMarks, Failed
<1>11. parser' = t /\ seen' = Report(seen, r.out) /\ want' = w
  BY <1>1 DEF t, r, w
<1>12. View(parser', seen') = v
  BY <1>9, <1>11
<1> QED BY <1>6, <1>10, <1>11, <1>12 DEF Heed

\* What was marked has been handed over, and counts as read all the same.
LEMMA FlushTold ==
    ASSUME NEW p, Ready(p), NEW s \in Views
    PROVE  LET q == flush(p, AllOK)
               v == View(p, s)
           IN  /\ Typed(q) /\ Kept(q, p) /\ q.errno = "OK" /\ NoMark(q)
               /\ Report(s, q.out) = v /\ Look(q, s) = v /\ v \in Views
<1> DEFINE q == flush(p, AllOK)
           v == View(p, s)
<1>1. Typed(p) /\ OneMark(p) /\ p.out = <<>> /\ Good(p) /\ p.errno = "OK"
  BY ReadyTyped DEF Ready, Good
<1>2. v \in Views /\ Look(p, s) = v
  BY <1>1, ViewType, ReportNothing DEF Look
<1>3. Typed(q) /\ Kept(q, p) /\ q.errno = "OK" /\ NoMark(q)
  BY FlushOK
<1>4. PICK c \in DataCallbacks : OnlyMark(p, c) /\ IsData(q, p, c, 0, AllOK)
  BY <1>1, FlushEffect
<1> HIDE DEF q, v
<1>5. Report(s, q.out) = v /\ Look(q, s) = v
  BY <1>1, <1>2, <1>3, <1>4, LookDataZero DEF Failed
<1> QED BY <1>2, <1>3, <1>5 DEF q, v

\* The next buffer begins with the same item marked, as long as it was.
LEMMA SplitIs ==
    ASSUME Base, Split
    PROVE  /\ View(parser', seen') = View(parser, seen) /\ Kept(parser', parser)
           /\ parser'.errno = "OK" /\ want' = want /\ DOMAIN parser' = Fields
<1> DEFINE p == flush(parser, AllOK)
           v == View(parser, seen)
           m == [c \in DataCallbacks |-> IF c \in Resumed(p.state) THEN 0 ELSE -1]
           b == [p EXCEPT !.exited = FALSE, !.out = <<>>, !.marks = m]
<1>1. ~Failed(parser) /\ ~parser.exited /\ parser' = begin(p) /\ seen' = Report(seen, p.out)
      /\ want' = want
  BY DEF Split
<1>2. Ready(parser) /\ Typed(parser) /\ seen \in Views
  BY <1>1, SoundReady DEF Base
<1>3. /\ Typed(p) /\ Kept(p, parser) /\ p.errno = "OK" /\ Report(seen, p.out) = v /\ v \in Views
  BY <1>2, FlushTold
<1>4. begin(p) = b
  BY DEF begin
<1> HIDE DEF p, m
<1>5. parser.exited = FALSE
  BY <1>1, <1>2 DEF Typed
<1>6. b.marks = m /\ Kept(b, parser) /\ b.errno = "OK" /\ DOMAIN b = Fields
  BY <1>3, <1>5 DEF Typed, Fields, Kept
<1> HIDE DEF b
<1>7. m = [c \in DataCallbacks |-> IF c \in Resumed(parser.state) THEN 0 ELSE -1]
  BY <1>3 DEF m, Kept
<1>8. \A c \in DataCallbacks : /\ Marked(b, c) <=> c \in Resumed(parser.state)
                               /\ c \in Resumed(parser.state) => b.marks[c] = 0
  BY <1>6, <1>7 DEF Marked
<1>9. PICK c \in DataCallbacks : OnlyMark(parser, c)
  BY <1>2 DEF Ready, Good, OneMark
<1>10. \A d \in Resumed(parser.state) : Marked(parser, d) /\ d \in DataCallbacks
  <2>1. Resumed(parser.state) \subseteq DataCallbacks
    BY DEF Resumed, DataCallbacks
  <2> QED BY <1>2, <2>1 DEF Ready, Control, MarksFit
<1>11. OnlyMark(b, c)
  BY <1>8, <1>9, <1>10 DEF OnlyMark
<1>12. View(b, v) = IF Marked(b, c) THEN With(v, c, b.marks[c]) ELSE v
  BY <1>11, ViewIs
<1>13. ASSUME Marked(b, c) PROVE With(v, c, b.marks[c]) = v
  <2>1. Marked(parser, c) /\ b.marks[c] = 0
    BY <1>8, <1>10, <1>13
  <2>2. v.cb = c
    BY <1>2, <1>9, <2>1, MarkedView
  <2> HIDE DEF v
  <2> QED BY <1>3, <2>1, <2>2, WithZero
<1> HIDE DEF v
<1>14. View(b, v) = v
  BY <1>12, <1>13
<1>15. parser' = b /\ seen' = v
  BY <1>1, <1>3, <1>4 DEF p
<1> QED BY <1>1, <1>6, <1>14, <1>15 DEF v

LEMMA HeedSplit == Base /\ Heed /\ Split => Heed'
<1> SUFFICES ASSUME Base, Heed, Split PROVE Heed'
  OBVIOUS
<1> DEFINE v == View(parser, seen)
<1>1. ~Failed(parser) /\ ~parser.exited /\ v.ordered /\ Right(parser, v, want)
      /\ Book(parser, v, want)
  BY DEF Heed, Split
<1>2. View(parser', seen') = v /\ Kept(parser', parser) /\ want' = want
  BY SplitIs
<1> HIDE DEF v
<1>3. Right(parser', v, want) /\ Book(parser', v, want)
  BY <1>1, <1>2, RightSame, BookSame DEF Kept
<1> QED BY <1>1, <1>2, <1>3 DEF Heed

LEMMA HeedEof == Base /\ Heed /\ Eof => Heed'
<1> SUFFICES ASSUME Base, Heed, Eof PROVE Heed'
  OBVIOUS
<1> DEFINE f == flush(parser, AllOK)
           v == View(parser, seen)
           p == eof(f, AllOK)
           x == [Silent(p) EXCEPT !.exited = TRUE]
           u == Report(seen, p.out)
<1>1. ~Failed(parser) /\ ~parser.exited /\ parser' = x /\ seen' = u /\ want' = want
  BY DEF Eof
<1>2. /\ Ready(parser) /\ Typed(parser) /\ seen \in Views
  BY <1>1, HeedReads DEF Base
<1>3. /\ Typed(f) /\ Kept(f, parser) /\ f.errno = "OK" /\ NoMark(f)
      /\ Report(seen, f.out) = v /\ Look(f, seen) = v /\ v \in Views
  BY <1>2, FlushTold
<1>4. v.ordered /\ Right(parser, v, want) /\ Book(parser, v, want)
  BY <1>1 DEF Heed
<1> HIDE DEF f, v
<1> DEFINE n == CALLBACK_NOTIFY(f, "message_complete", AllOK)
           e == Fail(f, "INVALID_EOF_STATE")
<1>5. p = CASE f.state = "s_body_identity_eof" -> n
            [] f.state \in {"s_dead", "s_start_req_or_res", "s_start_res", "s_start_req"} -> f
            [] OTHER -> e
  BY DEF eof
<1> HIDE DEF p
<1>6. ASSUME Typed(p), NoMark(p)
      PROVE  /\ View(x, u) = u /\ x.state = p.state /\ x.type = p.type /\ x.flags = p.flags
             /\ x.upgrade = p.upgrade /\ x.errno = p.errno /\ x.exited
  <2>1. /\ x.state = p.state /\ x.type = p.type /\ x.flags = p.flags
        /\ x.upgrade = p.upgrade /\ x.errno = p.errno /\ x.exited /\ x.marks = p.marks
    BY <1>6 DEF Silent, Typed, Fields
  <2> HIDE DEF x, u
  <2>2. NoMark(x)
    BY <1>6, <2>1, ViewSame
  <2> QED BY <2>1, <2>2, NoMarkView
<1> HIDE DEF x
<1>7. ASSUME Typed(p), NoMark(p), u.ordered, Right(x, u, want) PROVE Heed'
  <2>1. View(parser', seen') = u /\ parser'.exited
    BY <1>1, <1>6, <1>7
  <2> HIDE DEF u
  <2> QED BY <1>1, <1>7, <2>1 DEF Heed
<1>8. CASE f.state = "s_body_identity_eof"
  <2>1. p = n
    BY <1>5, <1>8
  <2>2. v.cb \in {"headers_complete", "body"}
    BY <1>3, <1>4, <1>8 DEF Book, Heard, Kept
  <2>3. "message_complete" \in Callbacks \ DataCallbacks /\ "message_complete" \in Follows[v.cb]
    <3>1. "message_complete" \in Follows["headers_complete"]
          /\ "message_complete" \in Follows["body"]
      BY DEF Follows
    <3> QED BY <2>2, <3>1, DataNames
  <2>4. IsCall(n, f, "message_complete", 0, 0, AllOK)
    BY <1>3, <2>3, NotifyEffect
  <2> HIDE DEF n
  <2>5. NoMark(n) /\ Look(n, seen).ordered /\ Look(n, seen) = Report(seen, n.out)
    BY <1>2, <1>3, <1>4, <2>3, <2>4, CallHeard, LookCall
  <2>6. u.ordered
    BY <2>1, <2>5
  <2>7. Typed(p) /\ NoMark(p) /\ p.state = "s_body_identity_eof" /\ p.type = parser.type
    BY <1>3, <1>8, <2>1, <2>4, <2>5 DEF IsCall, Kept
  <2>8. parser.type = "RESPONSE"
    BY <1>2, <1>3, <1>8 DEF Ready, Control, Kind, Kept
  <2>9. x.state = "s_body_identity_eof" /\ x.type = "RESPONSE" /\ x.exited
    BY <1>6, <2>7, <2>8
  <2> HIDE DEF u
  <2>10. Right(x, u, want)
    BY <2>9 DEF Right
  <2> QED BY <1>7, <2>6, <2>7, <2>10
<1>9. CASE f.state # "s_body_identity_eof"
  <2>1. p \in {f, e}
    BY <1>5, <1>9
  <2>2. /\ Typed(e) /\ Kept(e, f) /\ e.marks = f.marks /\ e.out = f.out /\ Failed(e)
    <3>1. "INVALID_EOF_STATE" \in Errors /\ "INVALID_EOF_STATE" # "OK"
      BY DEF Errors
    <3>2. ASSUME NEW g, Typed(g), NEW z \in Errors, z # "OK"
          PROVE  LET h == Fail(g, z)
                 IN  Typed(h) /\ Kept(h, g) /\ h.marks = g.marks /\ h.out = g.out /\ Failed(h)
      <4> DEFINE h == Fail(g, z)
      <4>1. Kept(h, g) /\ h.marks = g.marks /\ h.out = g.out /\ h.errno = z /\ DOMAIN h = Fields
        BY <3>2 DEF Fail, Typed, Fields, Kept
      <4> HIDE DEF h
      <4>2. Typed(h)
        BY <3>2, <4>1 DEF Typed, Kept
      <4> QED BY <3>2, <4>1, <4>2 DEF Failed, h
    <3> QED BY <1>3, <3>1, <3>2
  <2>3. NoMark(e)
    BY <1>3, <2>2, ViewSame
  <2> HIDE DEF e
  <2>4. Typed(p) /\ NoMark(p) /\ Kept(p, f) /\ p.out = f.out
    BY <1>3, <2>1, <2>2, <2>3 DEF Kept
  <2>5. u = v
    BY <1>3, <2>4
  <2>6. /\ x.state = parser.state /\ x.type = parser.type /\ x.flags = parser.flags
        /\ x.upgrade = parser.upgrade /\ x.state # "s_body_identity_eof"
    BY <1>3, <1>6, <1>9, <2>4 DEF Kept
  <2> HIDE DEF u
  <2>7. Right(x, v, want)
    BY <1>1, <1>4, <2>6, RightSame
  <2> QED BY <1>4, <1>7, <2>4, <2>5, <2>7
<1> QED BY <1>8, <1>9

LEMMA HeedStep == Base /\ Heed /\ [Next]_vars => Heed'
<1>1. Heed /\ UNCHANGED vars => Heed'
  BY DEF Heed, vars
<1> QED BY <1>1, HeedFeed, HeedSplit, HeedEof DEF Next

LEMMA HeedAlways == Spec => [](Base /\ Heed)
<1> QED BY BaseInit, BaseStep, HeedInit, HeedStep, PTL DEF Spec

\* What has been reported is the item that is being read, or the one before it.
LEMMA SeenIs ==
    ASSUME Base, Heed
    PROVE  /\ seen.ordered
           /\ seen.cb \in {"chunk_complete", "message_complete"} => View(parser, seen) = seen
<1>1. Typed(parser) /\ OneMark(parser) /\ seen \in Views
  BY DEF Base, Sound, Done, Good
<1>2. PICK c \in DataCallbacks : OnlyMark(parser, c)
  BY <1>1 DEF OneMark
<1>3. CASE ~Marked(parser, c)
  BY <1>2, <1>3, ViewIs DEF Heed
<1>4. CASE Marked(parser, c)
  <2>1. View(parser, seen) = With(seen, c, parser.marks[c])
    BY <1>1, <1>2, <1>4, MarkedView
  <2>2. parser.marks[c] \in Nat /\ c \in Callbacks
    BY <1>1, <1>4, DataNames DEF Marked, Typed
  <2>3. With(seen, c, parser.marks[c]).ordered
    BY <2>1 DEF Heed
  <2>4. seen.ordered /\ ((c = seen.cb /\ c \in DataCallbacks) \/ c \in Follows[seen.cb])
    BY <1>1, <2>2, <2>3, WithType
  <2>5. seen.cb \notin {"chunk_complete", "message_complete"}
    BY <2>4 DEF Follows, DataCallbacks
  <2> QED BY <2>4, <2>5
<1> QED BY <1>3, <1>4

\* The callbacks of httpparser.cpp come in the order its users count on, whatever
\* is read, however it is cut, and whatever the callbacks return: a value after
\* its field, no body before the headers, one end for each message.
THEOREM CallbacksOrdered == Spec => []CallbackOrder
<1>1. Base /\ Heed => CallbackOrder
  BY SeenIs DEF CallbackOrder
<1> QED BY <1>1, HeedAlways, PTL

\* A chunk and a message end after exactly as many bytes as their length, digit
\* by digit as it was written, for any ULLONG_MAX and any input.
THEOREM BodiesAsDeclared == Spec => []BodyAsDeclared
<1>1. Base /\ Heed => BodyAsDeclared
  <2> SUFFICES ASSUME Base, Heed,
                      \/ seen.cb = "chunk_complete" /\ parser.state = "s_chunk_size_start"
                      \/ seen.cb = "message_complete" /\ ~Failed(parser)
               PROVE  CASE UntilEof -> parser.type = "RESPONSE" /\ parser.exited
                        [] ~UntilEof /\ seen.after.cb = "body" -> seen.after.n = want
                        [] ~UntilEof /\ seen.after.cb = "headers_complete" ->
                              want = 0 \/ "SKIPBODY" \in parser.flags \/ parser.upgrade
                        [] OTHER -> TRUE
    BY DEF BodyAsDeclared
  <2>1. View(parser, seen) = seen
    BY SeenIs
  <2>2. Right(parser, seen, want)
    BY <2>1 DEF Heed
  <2>3. IF UntilEof THEN parser.type = "RESPONSE" /\ parser.exited
        ELSE IF seen.after.cb = "body" THEN seen.after.n = want
        ELSE seen.after.cb = "headers_complete" =>
                want = 0 \/ "SKIPBODY" \in parser.flags \/ parser.upgrade
    BY <2>2 DEF Right, UntilEof
  <2> QED BY <2>3
<1> QED BY <1>1, HeedAlways, PTL

-----------------------------------------------------------------------------
(* Two parsers that read the same, in buffers that end in different places. *)

\* They differ in where their marks stand and in what they have reported.
Like(w, p) ==
    DOMAIN p = Fields /\ DOMAIN w = Fields /\ Kept(w, p) /\ w.errno = p.errno

Alike(w, p) == \A c \in DataCallbacks : Marked(w, c) <=> Marked(p, c)

\* They have read the same of the same item, s and t are what they reported before.
Even(p, w, s, t) ==
    /\ Typed(p) /\ Typed(w) /\ Like(w, p) /\ s \in Views /\ t \in Views
    /\ ~Failed(p) => Look(w, t) = Look(p, s)

Pair(p, w, s, t) == Even(p, w, s, t) /\ (~Failed(p) => Alike(w, p))

LEMMA LikeParts ==
    ASSUME NEW p, NEW w, Like(w, p)
    PROVE  /\ \A x : Like(Goto(w, x), Goto(p, x)) /\ Like(Fail(w, x), Fail(p, x))
           /\ Failed(w) <=> Failed(p)
<1>1. ASSUME NEW x PROVE Like(Goto(w, x), Goto(p, x))
  BY DEF Like, Kept, Goto, Fields
<1>2. ASSUME NEW x PROVE Like(Fail(w, x), Fail(p, x))
  BY DEF Like, Kept, Fail, Fields
<1> QED BY <1>1, <1>2 DEF Like, Failed

LEMMA TypedShape ==
    ASSUME NEW p, Typed(p)
    PROVE  DOMAIN p = Fields
BY DEF Typed

LEMMA PairParts ==
    ASSUME NEW p, NEW w, NEW s, NEW t, Pair(p, w, s, t), ~Failed(p)
    PROVE  /\ Typed(p) /\ Typed(w) /\ Like(w, p) /\ p.errno = "OK" /\ w.errno = "OK"
           /\ s \in Views /\ t \in Views /\ Look(w, t) = Look(p, s) /\ Even(p, w, s, t)
           /\ DOMAIN p = Fields /\ DOMAIN w = Fields
           /\ NoMark(p) => NoMark(w)
           /\ \A c : OnlyMark(p, c) => OnlyMark(w, c)
           /\ \A c \in DataCallbacks : Marked(p, c) => Marked(w, c)
BY DEF Pair, Even, Like, Failed, Alike, NoMark, OnlyMark

LEMMA PairQuiet ==
    ASSUME NEW p, NEW w, NEW s, NEW t, Pair(p, w, s, t), ~Failed(p),
           NEW q, NEW r, Typed(q), Typed(r), Like(r, q), q.marks = p.marks, q.out = p.out,
           r.marks = w.marks, r.out = w.out
    PROVE  Pair(q, r, s, t)
<1>1. Look(q, s) = Look(p, s) /\ Look(r, t) = Look(w, t)
  BY LookQuiet
<1> QED BY <1>1 DEF Pair, Even, Alike, Marked

LEMMA PairGoto ==
    ASSUME NEW p, NEW w, NEW s, NEW t, Pair(p, w, s, t), ~Failed(p), NEW x \in States
    PROVE  /\ Pair(Goto(p, x), Goto(w, x), s, t) /\ ~Failed(Goto(p, x))
           /\ Goto(p, x).marks = p.marks /\ Goto(p, x).state = x /\ Goto(p, x).type = p.type
           /\ Goto(w, x).marks = w.marks /\ Goto(p, x).errno = p.errno
<1>1. Typed(p) /\ Typed(w) /\ Like(w, p)
  BY PairParts
<1>2. ASSUME NEW g, Typed(g)
      PROVE  /\ Typed(Goto(g, x)) /\ Goto(g, x).marks = g.marks /\ Goto(g, x).out = g.out
             /\ Goto(g, x).errno = g.errno /\ Goto(g, x).state = x /\ Goto(g, x).type = g.type
  BY <1>2 DEF Goto, Typed, Fields
<1>3. Like(Goto(w, x), Goto(p, x))
  BY <1>1, LikeParts
<1>4. Pair(Goto(p, x), Goto(w, x), s, t)
  BY <1>1, <1>2, <1>3, PairQuiet
<1> QED BY <1>1, <1>2, <1>4 DEF Failed

LEMMA PairFail ==
    ASSUME NEW p, NEW w, NEW s, NEW t, Even(p, w, s, t), NEW e \in Errors, e # "OK"
    PROVE  Pair(Fail(p, e), Fail(w, e), s, t)
<1>1. ASSUME NEW g, Typed(g) PROVE Typed(Fail(g, e)) /\ Failed(Fail(g, e))
  BY <1>1 DEF Fail, Typed, Fields, Failed
<1> QED BY <1>1, LikeParts DEF Pair, Even

LEMMA PairMark ==
    ASSUME NEW p, NEW w, NEW s, NEW t, Even(p, w, s, t), ~Failed(p),
           NEW c \in DataCallbacks, OnlyMark(p, c), OnlyMark(w, c)
    PROVE  /\ Pair(MARK(p, c), MARK(w, c), s, t) /\ ~Failed(MARK(p, c))
           /\ OnlyMark(MARK(p, c), c) /\ Marked(MARK(p, c), c)
           /\ IsMark(MARK(p, c), p, c) /\ IsMark(MARK(w, c), w, c)
<1> DEFINE q == MARK(p, c)
           r == MARK(w, c)
<1>1. IsMark(q, p, c) /\ IsMark(r, w, c)
  BY MarkEffect DEF Even
<1> HIDE DEF q, r
<1>2. Look(q, s) = With(Look(p, s), c, 0) /\ Look(r, t) = With(Look(w, t), c, 0)
  BY <1>1, LookMark DEF Even
<1>3. Typed(q) /\ Typed(r) /\ Like(r, q)
  BY <1>1, TypedShape DEF IsMark, Kept, Even, Like
<1>4. Alike(r, q)
  BY <1>1 DEF IsMark, OnlyMark, Alike
<1>5. ~Failed(q)
  BY <1>1 DEF IsMark, Failed
<1>6. Pair(q, r, s, t)
  BY <1>2, <1>3, <1>4 DEF Pair, Even
<1> QED BY <1>1, <1>5, <1>6 DEF q, r, IsMark

LEMMA PairData ==
    ASSUME NEW p, NEW w, NEW s, NEW t, Even(p, w, s, t), ~Failed(p),
           NEW c \in DataCallbacks, OnlyMark(p, c), OnlyMark(w, c), NEW x \in {0, 1}, NEW a,
           Alike(w, p) \/ (x = 0 /\ a[c] = 0)
    PROVE  LET q == CALLBACK_DATA_(p, c, x, a)
               r == CALLBACK_DATA_(w, c, x, a)
           IN  /\ Pair(q, r, s, t) /\ IsData(q, p, c, x, a) /\ IsData(r, w, c, x, a)
               /\ ~Failed(q) => NoMark(q) /\ NoMark(r)
<1> DEFINE q == CALLBACK_DATA_(p, c, x, a)
           r == CALLBACK_DATA_(w, c, x, a)
<1>1. Typed(p) /\ Typed(w) /\ p.errno = "OK" /\ w.errno = "OK" /\ Look(w, t) = Look(p, s)
      /\ s \in Views /\ t \in Views
  BY DEF Even, Failed, Like
<1>2. IsData(q, p, c, x, a) /\ IsData(r, w, c, x, a)
  BY <1>1, DataEffect
<1> HIDE DEF q, r
<1>3. Typed(q) /\ Typed(r) /\ Kept(r, q)
  BY <1>2 DEF IsData, Kept, Even, Like
<1>4. r.errno = q.errno
  <2>1. Failed(r) <=> Failed(q)
    BY <1>2 DEF IsData, Alike
  <2> QED BY <1>2, <2>1 DEF IsData, Failed
<1>5. ASSUME ~Failed(q) PROVE Look(r, t) = Look(q, s) /\ NoMark(q) /\ NoMark(r) /\ Alike(r, q)
  <2>1. NoMark(q) /\ NoMark(r) /\ ~Failed(r)
    BY <1>2, <1>4, <1>5 DEF IsData, Failed
  <2>2. CASE x = 0
    <3>1. IsData(q, p, c, 0, a) /\ IsData(r, w, c, 0, a)
      BY <1>2, <2>2
    <3>2. Look(q, s) = Look(p, s) /\ Look(r, t) = Look(w, t)
      BY <1>1, <1>5, <2>1, <3>1, LookDataZero
    <3> QED BY <1>1, <2>1, <3>2 DEF NoMark, Alike
  <2>3. CASE x # 0
    <3>1. Marked(p, c) <=> Marked(w, c)
      BY <2>3 DEF Alike
    <3>2. /\ Look(q, s) = IF Marked(p, c) THEN With(Look(p, s), c, x) ELSE Look(p, s)
          /\ Look(r, t) = IF Marked(w, c) THEN With(Look(w, t), c, x) ELSE Look(w, t)
      BY <1>1, <1>2, <1>5, <2>1, LookData
    <3> QED BY <1>1, <2>1, <3>1, <3>2 DEF NoMark, Alike
  <2> QED BY <2>2, <2>3
<1>6. Like(r, q)
  BY <1>3, <1>4, TypedShape DEF Like
<1>7. Pair(q, r, s, t)
  BY <1>1, <1>3, <1>5, <1>6 DEF Pair, Even
<1> QED BY <1>2, <1>5, <1>7 DEF q, r

LEMMA PairCall ==
    ASSUME NEW p, NEW w, NEW s, NEW t, Pair(p, w, s, t), ~Failed(p), NoMark(p),
           NEW c \in Callbacks, NEW a
    PROVE  LET q == CALLBACK_NOTIFY(p, c, a)
               r == CALLBACK_NOTIFY(w, c, a)
           IN  /\ Pair(q, r, s, t) /\ NoMark(q) /\ NoMark(r)
               /\ IsCall(q, p, c, 0, 0, a) /\ IsCall(r, w, c, 0, 0, a)
<1> DEFINE q == CALLBACK_NOTIFY(p, c, a)
           r == CALLBACK_NOTIFY(w, c, a)
<1>1. /\ Typed(p) /\ Typed(w) /\ NoMark(w) /\ Look(w, t) = Look(p, s) /\ s \in Views /\ t \in Views
      /\ Like(w, p)
  BY PairParts
<1>2. IsCall(q, p, c, 0, 0, a) /\ IsCall(r, w, c, 0, 0, a)
  BY <1>1, NotifyEffect
<1> HIDE DEF q, r
<1>3. /\ Look(q, s) = With(Look(p, s), c, 0) /\ Look(r, t) = With(Look(w, t), c, 0)
      /\ NoMark(q) /\ NoMark(r)
  BY <1>1, <1>2, LookCall
<1>4. Typed(q) /\ Typed(r) /\ Like(r, q)
  BY <1>1, <1>2, TypedShape DEF IsCall, Kept, Like
<1>5. Pair(q, r, s, t)
  BY <1>1, <1>3, <1>4 DEF Pair, Even, Alike, NoMark
<1> QED BY <1>2, <1>3, <1>5 DEF q, r

\* Outside of bodies the states say what is marked.
Two(p, w, s, t) == Ready(p) /\ Ready(w) /\ Even(p, w, s, t)

LEMMA TwoPair ==
    ASSUME NEW p, NEW w, NEW s, NEW t, Two(p, w, s, t), p.state \notin BodyStates
    PROVE  Pair(p, w, s, t) /\ ~Failed(p)
<1>1. w.state = p.state
  BY DEF Two, Even, Like, Kept
<1>2. Markable(p.state) = Resumed(p.state)
  BY DEF Markable
<1>3. Alike(w, p)
  BY <1>1, <1>2 DEF Two, Ready, Control, MarksFit, Alike
<1> QED BY <1>3 DEF Two, Pair, Ready

LEMMA TwoParts ==
    ASSUME NEW p, NEW w, NEW s, NEW t, Two(p, w, s, t)
    PROVE  /\ Ready(p) /\ Ready(w) /\ Typed(p) /\ Typed(w) /\ Like(w, p) /\ w.state = p.state
           /\ p.errno = "OK" /\ w.errno = "OK" /\ s \in Views /\ t \in Views /\ w.type = p.type
           /\ Even(p, w, s, t) /\ ~Failed(p)
BY ReadyTyped DEF Two, Even, Like, Kept, Ready

LEMMA TwoQuiet ==
    ASSUME NEW p, NEW w, NEW s, NEW t, Two(p, w, s, t), p.state \notin BodyStates,
           NEW q, NEW r, IsQuiet(q, p), IsQuiet(r, w), Like(r, q)
    PROVE  Pair(q, r, s, t)
<1>1. Pair(p, w, s, t) /\ ~Failed(p)
  BY TwoPair
<1> QED BY <1>1, PairQuiet DEF IsQuiet

LEMMA NoBodies ==
    /\ Plain \cap BodyStates = {} /\ Literals \subseteq Plain /\ UrlStates \cap BodyStates = {}
    /\ Undecided \cap BodyStates = {} /\ (SizeStates \cup {"s_chunk_size_start"}) \cap BodyStates = {}
BY DEF Plain, States, Literals, ReqLiteral, ResLiteral, BodyStates, ChunkStates, SizeStates,
   UrlStates, Undecided

\* Where nothing is marked nor reported, the two parsers do the same.
LEMMA LiteralPair ==
    ASSUME NEW p, NEW w, NEW s, NEW t, Two(p, w, s, t), p.state \in Literals, NEW ch
    PROVE  Pair(literal(p, ch), literal(w, ch), s, t)
<1>1. Ready(p) /\ Ready(w) /\ w.state = p.state /\ Like(w, p) /\ p.state \notin BodyStates
  BY TwoParts, NoBodies
<1>2. IsQuiet(literal(p, ch), p) /\ IsQuiet(literal(w, ch), w)
  BY <1>1, LiteralDone
<1>3. Like(literal(w, ch), literal(p, ch))
  <2> DEFINE l == IF p.state \in DOMAIN ReqLiteral THEN ReqLiteral[p.state]
                  ELSE ResLiteral[p.state]
  <2>1. /\ literal(p, ch) = IF ch = l[1] THEN Goto(p, l[2]) ELSE Fail(p, l[3])
        /\ literal(w, ch) = IF ch = l[1] THEN Goto(w, l[2]) ELSE Fail(w, l[3])
    BY <1>1 DEF literal
  <2> HIDE DEF l
  <2> QED BY <1>1, <2>1, LikeParts
<1> QED BY <1>1, <1>2, <1>3, TwoQuiet

LEMMA LineQuietPair ==
    ASSUME NEW p, NEW w, NEW s, NEW t, Two(p, w, s, t), NEW ch
    PROVE  /\ p.state = "s_dead" => Pair(s_dead(p, ch), s_dead(w, ch), s, t)
           /\ p.state = "s_req_http_start" =>
                Pair(s_req_http_start(p, ch), s_req_http_start(w, ch), s, t)
           /\ p.state = "s_req_http_end" =>
                Pair(s_req_http_end(p, ch), s_req_http_end(w, ch), s, t)
           /\ p.state = "s_res_first_status_code" =>
                Pair(s_res_first_status_code(p, ch), s_res_first_status_code(w, ch), s, t)
           /\ p.state = "s_req_method" => Pair(s_req_method(p, ch), s_req_method(w, ch), s, t)
           /\ p.state = "s_res_or_resp_H" =>
                Pair(s_res_or_resp_H(p, ch), s_res_or_resp_H(w, ch), s, t)
<1>1. Ready(p) /\ Ready(w) /\ w.state = p.state /\ Like(w, p)
  BY TwoParts
<1>2. ASSUME p.state = "s_dead"
      PROVE  Pair(s_dead(p, ch), s_dead(w, ch), s, t)
  <2>1. Like(s_dead(w, ch), s_dead(p, ch))
    BY <1>1, LikeParts DEF s_dead
  <2>2. IsQuiet(s_dead(p, ch), p) /\ IsQuiet(s_dead(w, ch), w)
    BY <1>1, <1>2, DeadDone
  <2> QED BY <1>2, <2>1, <2>2, TwoQuiet DEF BodyStates
<1>3. ASSUME p.state = "s_req_http_start"
      PROVE  Pair(s_req_http_start(p, ch), s_req_http_start(w, ch), s, t)
  <2>1. Like(s_req_http_start(w, ch), s_req_http_start(p, ch))
    BY <1>1, LikeParts DEF s_req_http_start
  <2>2. IsQuiet(s_req_http_start(p, ch), p) /\ IsQuiet(s_req_http_start(w, ch), w)
    BY <1>1, <1>3, HttpStartDone
  <2> QED BY <1>3, <2>1, <2>2, TwoQuiet DEF BodyStates
<1>4. ASSUME p.state = "s_req_http_end"
      PROVE  Pair(s_req_http_end(p, ch), s_req_http_end(w, ch), s, t)
  <2>1. Like(s_req_http_end(w, ch), s_req_http_end(p, ch))
    BY <1>1, LikeParts DEF s_req_http_end
  <2>2. IsQuiet(s_req_http_end(p, ch), p) /\ IsQuiet(s_req_http_end(w, ch), w)
    BY <1>1, <1>4, HttpEndDone
  <2> QED BY <1>4, <2>1, <2>2, TwoQuiet DEF BodyStates
<1>5. ASSUME p.state = "s_res_first_status_code"
      PROVE  Pair(s_res_first_status_code(p, ch), s_res_first_status_code(w, ch), s, t)
  <2>1. Like(s_res_first_status_code(w, ch), s_res_first_status_code(p, ch))
    BY <1>1, LikeParts DEF s_res_first_status_code, Like, Kept, Fields
  <2>2. IsQuiet(s_res_first_status_code(p, ch), p) /\ IsQuiet(s_res_first_status_code(w, ch), w)
    BY <1>1, <1>5, FirstCodeDone
  <2> QED BY <1>5, <2>1, <2>2, TwoQuiet DEF BodyStates
<1>6. ASSUME p.state = "s_req_method"
      PROVE  Pair(s_req_method(p, ch), s_req_method(w, ch), s, t)
  <2>1. Like(s_req_method(w, ch), s_req_method(p, ch))
    <3>1. w.index = p.index /\ w.method = p.method
      BY <1>1 DEF Like, Kept
    <3> QED BY <1>1, <3>1, LikeParts DEF s_req_method, Like, Kept, Fields
  <2>2. IsQuiet(s_req_method(p, ch), p) /\ IsQuiet(s_req_method(w, ch), w)
    BY <1>1, <1>6, MethodDone
  <2> QED BY <1>6, <2>1, <2>2, TwoQuiet DEF BodyStates
<1>7. ASSUME p.state = "s_res_or_resp_H"
      PROVE  Pair(s_res_or_resp_H(p, ch), s_res_or_resp_H(w, ch), s, t)
  <2>1. Like(s_res_or_resp_H(w, ch), s_res_or_resp_H(p, ch))
    BY <1>1, LikeParts DEF s_res_or_resp_H, Like, Kept, Fields
  <2>2. IsQuiet(s_res_or_resp_H(p, ch), p) /\ IsQuiet(s_res_or_resp_H(w, ch), w)
    BY <1>1, <1>7, ResOrRespDone
  <2> QED BY <1>7, <2>1, <2>2, TwoQuiet DEF BodyStates
<1> QED BY <1>2, <1>3, <1>4, <1>5, <1>6, <1>7

LEMMA VersionPair ==
    ASSUME NEW p, NEW w, NEW s, NEW t, Two(p, w, s, t), NEW ch
    PROVE  /\ p.state \in {"s_req_http_major", "s_res_http_major"} =>
                Pair(http_major(p, ch), http_major(w, ch), s, t)
           /\ p.state \in {"s_req_http_minor", "s_res_http_minor"} =>
                Pair(http_minor(p, ch), http_minor(w, ch), s, t)
<1>1. Ready(p) /\ Ready(w) /\ w.state = p.state /\ Like(w, p)
  BY TwoParts
<1>2. ASSUME p.state \in {"s_req_http_major", "s_res_http_major"}
      PROVE  Pair(http_major(p, ch), http_major(w, ch), s, t)
  <2>1. Like(http_major(w, ch), http_major(p, ch))
    BY <1>1, LikeParts DEF http_major, Like, Kept, Fields
  <2>2. IsQuiet(http_major(p, ch), p) /\ IsQuiet(http_major(w, ch), w)
    BY <1>1, <1>2, MajorDone
  <2> QED BY <1>2, <2>1, <2>2, TwoQuiet DEF BodyStates
<1>3. ASSUME p.state \in {"s_req_http_minor", "s_res_http_minor"}
      PROVE  Pair(http_minor(p, ch), http_minor(w, ch), s, t)
  <2>1. Like(http_minor(w, ch), http_minor(p, ch))
    BY <1>1, LikeParts DEF http_minor, Like, Kept, Fields
  <2>2. IsQuiet(http_minor(p, ch), p) /\ IsQuiet(http_minor(w, ch), w)
    BY <1>1, <1>3, MinorDone
  <2> QED BY <1>3, <2>1, <2>2, TwoQuiet DEF BodyStates
<1> QED BY <1>2, <1>3

LEMMA LikeDigits ==
    ASSUME NEW p, NEW w, Like(w, p), NEW b, NEW d
    PROVE  Like(Digits(w, b, d), Digits(p, b, d))
<1> DEFINE n == (p.content_length * b + d) % (ULLONG_MAX + 1)
<1>1. w.content_length = p.content_length
  BY DEF Like, Kept
<1>2. /\ Digits(p, b, d) = IF (ULLONG_MAX - b) \div b < p.content_length
                           THEN Fail(p, "INVALID_CONTENT_LENGTH")
                           ELSE [p EXCEPT !.content_length = n]
      /\ Digits(w, b, d) = IF (ULLONG_MAX - b) \div b < p.content_length
                           THEN Fail(w, "INVALID_CONTENT_LENGTH")
                           ELSE [w EXCEPT !.content_length = n]
  BY <1>1 DEF Digits
<1> HIDE DEF n
<1>3. Like([w EXCEPT !.content_length = n], [p EXCEPT !.content_length = n])
  BY DEF Like, Kept, Fields
<1> QED BY <1>2, <1>3, LikeParts

LEMMA SizePair ==
    ASSUME NEW p, NEW w, NEW s, NEW t, Two(p, w, s, t), NEW ch
    PROVE  /\ p.state = "s_chunk_size_start" =>
                Pair(s_chunk_size_start(p, ch), s_chunk_size_start(w, ch), s, t)
           /\ p.state = "s_chunk_size" => Pair(s_chunk_size(p, ch), s_chunk_size(w, ch), s, t)
           /\ p.state = "s_chunk_parameters" =>
                Pair(s_chunk_parameters(p, ch), s_chunk_parameters(w, ch), s, t)
<1>1. Ready(p) /\ Ready(w) /\ w.state = p.state /\ Like(w, p)
  BY TwoParts
<1>2. ASSUME p.state = "s_chunk_size_start"
      PROVE  Pair(s_chunk_size_start(p, ch), s_chunk_size_start(w, ch), s, t)
  <2>1. Like(s_chunk_size_start(w, ch), s_chunk_size_start(p, ch))
    BY <1>1, LikeParts DEF s_chunk_size_start, Like, Kept, Fields
  <2>2. IsQuiet(s_chunk_size_start(p, ch), p) /\ IsQuiet(s_chunk_size_start(w, ch), w)
    BY <1>1, <1>2, ChunkSizeStartDone
  <2> QED BY <1>2, <2>1, <2>2, TwoQuiet DEF BodyStates
<1>3. ASSUME p.state = "s_chunk_size"
      PROVE  Pair(s_chunk_size(p, ch), s_chunk_size(w, ch), s, t)
  <2>1. Like(Digits(w, 16, unhex[ch]), Digits(p, 16, unhex[ch]))
    BY <1>1, LikeDigits
  <2>2. Like(s_chunk_size(w, ch), s_chunk_size(p, ch))
    <3>1. CASE ch = CR
      BY <1>1, <3>1, LikeParts DEF s_chunk_size, CR, Hex, Num, Blank
    <3>2. CASE ch \in Hex
      BY <2>1, <3>2 DEF s_chunk_size, CR, Hex, Num, Blank
    <3>3. CASE ch \in {";", Blank}
      BY <1>1, <3>3, LikeParts DEF s_chunk_size, CR, Hex, Num, Blank
    <3>4. CASE ch # CR /\ ch \notin Hex /\ ch \notin {";", Blank}
      BY <1>1, <3>4, LikeParts DEF s_chunk_size
    <3> QED BY <3>1, <3>2, <3>3, <3>4
  <2>3. IsQuiet(s_chunk_size(p, ch), p) /\ IsQuiet(s_chunk_size(w, ch), w)
    BY <1>1, <1>3, ChunkSizeDone
  <2> QED BY <1>3, <2>2, <2>3, TwoQuiet DEF BodyStates
<1>4. ASSUME p.state = "s_chunk_parameters"
      PROVE  Pair(s_chunk_parameters(p, ch), s_chunk_parameters(w, ch), s, t)
  <2>1. Like(s_chunk_parameters(w, ch), s_chunk_parameters(p, ch))
    BY <1>1, LikeParts DEF s_chunk_parameters
  <2>2. IsQuiet(s_chunk_parameters(p, ch), p) /\ IsQuiet(s_chunk_parameters(w, ch), w)
    BY <1>1, <1>4, ChunkParametersDone
  <2> QED BY <1>4, <2>1, <2>2, TwoQuiet DEF BodyStates
<1> QED BY <1>2, <1>3, <1>4

\* Where a message begins.
LEMMA FreshPair ==
    ASSUME NEW p, NEW w, NEW s, NEW t, Pair(p, w, s, t), ~Failed(p)
    PROVE  Pair(Fresh(p), Fresh(w), s, t) /\ ~Failed(Fresh(p)) /\ (NoMark(p) => NoMark(Fresh(p)))
<1>1. Typed(p) /\ Typed(w) /\ Like(w, p)
  BY PairParts
<1>2. /\ Typed(Fresh(p)) /\ Fresh(p).marks = p.marks /\ Fresh(p).out = p.out
      /\ Fresh(p).errno = p.errno
      /\ Typed(Fresh(w)) /\ Fresh(w).marks = w.marks /\ Fresh(w).out = w.out
  BY <1>1, FreshTyped
<1>3. Like(Fresh(w), Fresh(p))
  BY <1>1 DEF Fresh, Like, Kept, Fields
<1>4. Pair(Fresh(p), Fresh(w), s, t)
  BY <1>2, <1>3, PairQuiet
<1> QED BY <1>2, <1>4 DEF Failed, NoMark, Marked

LEMMA StartReqPair ==
    ASSUME NEW p, NEW w, NEW s, NEW t, Pair(p, w, s, t), ~Failed(p), NoMark(p), NEW ch, NEW a
    PROVE  Pair(s_start_req(p, ch, a), s_start_req(w, ch, a), s, t)
<1> DEFINE f == Fresh(p)
           g == Fresh(w)
           q == [f EXCEPT !.method = FirstLetter[ch], !.index = 1, !.state = "s_req_method"]
           r == [g EXCEPT !.method = FirstLetter[ch], !.index = 1, !.state = "s_req_method"]
<1>1. Pair(f, g, s, t) /\ ~Failed(f) /\ NoMark(f)
  BY FreshPair
<1>2. Typed(f) /\ Typed(g) /\ Like(g, f)
  BY <1>1, PairParts
<1>3. "s_req_method" \in States /\ "INVALID_METHOD" \in Errors \ {"OK"}
      /\ "message_begin" \in Callbacks
  BY DEF States, Errors, Callbacks
<1>4. CASE ch \in {CR, LF}
  BY <1>4 DEF s_start_req
<1>5. CASE ch \notin {CR, LF} /\ ch \notin DOMAIN FirstLetter
  <2>1. /\ s_start_req(p, ch, a) = Fail(f, "INVALID_METHOD")
        /\ s_start_req(w, ch, a) = Fail(g, "INVALID_METHOD")
    BY <1>5 DEF s_start_req, Fresh
  <2> HIDE DEF f, g
  <2> QED BY <1>1, <1>3, <2>1, PairFail DEF Pair
<1>6. CASE ch \notin {CR, LF} /\ ch \in DOMAIN FirstLetter
  <2>1. /\ s_start_req(p, ch, a) = CALLBACK_NOTIFY(q, "message_begin", a)
        /\ s_start_req(w, ch, a) = CALLBACK_NOTIFY(r, "message_begin", a)
    BY <1>6 DEF s_start_req, Fresh
  <2>2. FirstLetter[ch] \in DOMAIN method_strings
    BY <1>6 DEF FirstLetter, method_strings
  <2> HIDE DEF f, g
  <2>3. Typed(q) /\ q.marks = f.marks /\ q.out = f.out /\ q.errno = f.errno
    BY <1>2, <1>3, <2>2 DEF Typed, Fields
  <2>4. Typed(r) /\ r.marks = g.marks /\ r.out = g.out
    BY <1>2, <1>3, <2>2 DEF Typed, Fields
  <2>5. Like(r, q)
    BY <1>2 DEF Like, Kept, Fields
  <2> HIDE DEF q, r
  <2>6. Pair(q, r, s, t) /\ ~Failed(q) /\ NoMark(q)
    BY <1>1, <2>3, <2>4, <2>5, PairQuiet DEF Failed, NoMark, Marked
  <2> QED BY <1>3, <2>1, <2>6, PairCall
<1> QED BY <1>4, <1>5, <1>6

LEMMA StartResPair ==
    ASSUME NEW p, NEW w, NEW s, NEW t, Pair(p, w, s, t), ~Failed(p), NoMark(p), NEW ch, NEW a
    PROVE  Pair(s_start_res(p, ch, a), s_start_res(w, ch, a), s, t)
<1> DEFINE f == Fresh(p)
           g == Fresh(w)
           q == Goto(f, "s_res_H")
           r == Goto(g, "s_res_H")
<1>1. Pair(f, g, s, t) /\ ~Failed(f) /\ NoMark(f)
  BY FreshPair
<1>2. "s_res_H" \in States /\ "INVALID_CONSTANT" \in Errors \ {"OK"}
      /\ "message_begin" \in Callbacks
  BY DEF States, Errors, Callbacks
<1>3. CASE ch \in {CR, LF}
  BY <1>3 DEF s_start_res
<1>4. CASE ch \notin {CR, LF} /\ ch # "H"
  <2>1. /\ s_start_res(p, ch, a) = Fail(f, "INVALID_CONSTANT")
        /\ s_start_res(w, ch, a) = Fail(g, "INVALID_CONSTANT")
    BY <1>4 DEF s_start_res, Fresh
  <2> HIDE DEF f, g
  <2> QED BY <1>1, <1>2, <2>1, PairFail DEF Pair
<1>5. CASE ch \notin {CR, LF} /\ ch = "H"
  <2>1. /\ s_start_res(p, ch, a) = CALLBACK_NOTIFY(q, "message_begin", a)
        /\ s_start_res(w, ch, a) = CALLBACK_NOTIFY(r, "message_begin", a)
    BY <1>5 DEF s_start_res, Fresh
  <2> HIDE DEF f, g
  <2>2. Pair(q, r, s, t) /\ ~Failed(q) /\ q.marks = f.marks
    BY <1>1, <1>2, PairGoto
  <2> HIDE DEF q, r
  <2>3. NoMark(q)
    BY <1>1, <2>2 DEF NoMark, Marked
  <2> QED BY <1>2, <2>1, <2>2, <2>3, PairCall
<1> QED BY <1>3, <1>4, <1>5

LEMMA StartEitherPair ==
    ASSUME NEW p, NEW w, NEW s, NEW t, Pair(p, w, s, t), ~Failed(p), NoMark(p), NEW ch, NEW a
    PROVE  Pair(s_start_req_or_res(p, ch, a), s_start_req_or_res(w, ch, a), s, t)
<1> DEFINE f == Fresh(p)
           g == Fresh(w)
           h == Goto(f, "s_res_or_resp_H")
           i == Goto(g, "s_res_or_resp_H")
           q == [f EXCEPT !.type = "REQUEST", !.state = "s_start_req"]
           r == [g EXCEPT !.type = "REQUEST", !.state = "s_start_req"]
<1>1. Pair(f, g, s, t) /\ ~Failed(f) /\ NoMark(f)
  BY FreshPair
<1>2. {"s_res_or_resp_H", "s_start_req"} \subseteq States /\ "REQUEST" \in DOMAIN Start
      /\ "message_begin" \in Callbacks
  BY DEF States, Callbacks, Start
<1>3. Typed(f) /\ Typed(g) /\ Like(g, f)
  BY <1>1, PairParts
<1>4. CASE ch \in {CR, LF}
  <2>1. s_start_req_or_res(p, ch, a) = p /\ s_start_req_or_res(w, ch, a) = w
    BY <1>4 DEF s_start_req_or_res, CR, LF
  <2> QED BY <2>1
<1>5. CASE ch \notin {CR, LF} /\ ch = "H"
  <2>1. /\ s_start_req_or_res(p, ch, a) = CALLBACK_NOTIFY(h, "message_begin", a)
        /\ s_start_req_or_res(w, ch, a) = CALLBACK_NOTIFY(i, "message_begin", a)
    BY <1>5 DEF s_start_req_or_res, Fresh, CR, LF
  <2> HIDE DEF f, g
  <2>2. Pair(h, i, s, t) /\ ~Failed(h) /\ h.marks = f.marks
    BY <1>1, <1>2, PairGoto
  <2> HIDE DEF h, i
  <2>3. NoMark(h)
    BY <1>1, <2>2 DEF NoMark, Marked
  <2> QED BY <1>2, <2>1, <2>2, <2>3, PairCall
<1>6. CASE ch \notin {CR, LF} /\ ch # "H"
  <2>1. /\ s_start_req_or_res(p, ch, a) = s_start_req(q, ch, a)
        /\ s_start_req_or_res(w, ch, a) = s_start_req(r, ch, a)
    BY <1>6 DEF s_start_req_or_res, Fresh
  <2> HIDE DEF f, g
  <2>2. Typed(q) /\ q.marks = f.marks /\ q.out = f.out /\ q.errno = f.errno
    BY <1>2, <1>3 DEF Typed, Fields
  <2>3. Typed(r) /\ r.marks = g.marks /\ r.out = g.out
    BY <1>2, <1>3 DEF Typed, Fields
  <2>4. Like(r, q)
    BY <1>3 DEF Like, Kept, Fields
  <2> HIDE DEF q, r
  <2>5. Pair(q, r, s, t) /\ ~Failed(q) /\ NoMark(q)
    BY <1>1, <2>2, <2>3, <2>4, PairQuiet DEF Failed, NoMark, Marked
  <2> QED BY <2>1, <2>5, StartReqPair
<1> QED BY <1>4, <1>5, <1>6

LEMMA StartsPair ==
    ASSUME NEW p, NEW w, NEW s, NEW t, Two(p, w, s, t), NEW ch, NEW a
    PROVE  /\ p.state = "s_start_req" =>
                Pair(s_start_req(p, ch, a), s_start_req(w, ch, a), s, t)
           /\ p.state = "s_start_res" =>
                Pair(s_start_res(p, ch, a), s_start_res(w, ch, a), s, t)
           /\ p.state = "s_start_req_or_res" =>
                Pair(s_start_req_or_res(p, ch, a), s_start_req_or_res(w, ch, a), s, t)
<1> SUFFICES ASSUME p.state \in Starts
             PROVE  Pair(p, w, s, t) /\ ~Failed(p) /\ NoMark(p)
  BY StartReqPair, StartResPair, StartEitherPair DEF Starts
<1>1. p.state \in Plain \/ p.state \in Undecided
  BY DEF Starts, Plain, States, BodyStates, ChunkStates, SizeStates, UrlStates, Undecided
<1>2. NoMark(p)
  BY <1>1, TwoParts, PlainReady, UndecidedReady
<1> QED BY <1>2, TwoPair DEF Starts, BodyStates

-----------------------------------------------------------------------------
(* Urls and reasons.                                                       *)

LEMMA UrlCharPair ==
    ASSUME NEW p, NEW w, NEW s, NEW t, Pair(p, w, s, t), ~Failed(p),
           OnlyMark(p, "url"), Marked(p, "url"), p.type # "BOTH", NEW ch
    PROVE  Pair(url_char(p, ch), url_char(w, ch), s, t)
<1>1. "url" \in DataCallbacks
  BY DEF DataCallbacks
<1>2. /\ Typed(p) /\ Typed(w) /\ Like(w, p) /\ p.errno = "OK" /\ w.errno = "OK"
      /\ OnlyMark(w, "url") /\ Marked(w, "url")
  BY <1>1, PairParts
<1>3. w.type = p.type /\ w.state = p.state
  BY <1>2 DEF Like, Kept
<1>4. IsQuiet(url_char(p, ch), p) /\ IsQuiet(url_char(w, ch), w)
  BY <1>2, <1>3, UrlCharDone
<1>5. Like(url_char(w, ch), url_char(p, ch))
  <2> DEFINE x == parse_url_char(p.state, ch)
  <2>1. /\ url_char(p, ch) = IF x = "s_dead" THEN Fail(Goto(p, x), "INVALID_URL") ELSE Goto(p, x)
        /\ url_char(w, ch) = IF x = "s_dead" THEN Fail(Goto(w, x), "INVALID_URL") ELSE Goto(w, x)
    BY <1>3 DEF url_char
  <2> HIDE DEF x
  <2>2. Like(Goto(w, x), Goto(p, x))
    BY <1>2, LikeParts
  <2>3. Like(Fail(Goto(w, x), "INVALID_URL"), Fail(Goto(p, x), "INVALID_URL"))
    BY <2>2, LikeParts
  <2> QED BY <2>1, <2>2, <2>3
<1> QED BY <1>4, <1>5, PairQuiet DEF IsQuiet

LEMMA SpacesPair ==
    ASSUME NEW p, NEW w, NEW s, NEW t, Two(p, w, s, t), p.state = "s_req_spaces_before_url",
           NEW ch
    PROVE  Pair(s_req_spaces_before_url(p, ch), s_req_spaces_before_url(w, ch), s, t)
<1> DEFINE m == MARK(p, "url")
           n == MARK(w, "url")
           q == IF p.method = "CONNECT" THEN Goto(m, "s_req_server_start") ELSE m
           r == IF p.method = "CONNECT" THEN Goto(n, "s_req_server_start") ELSE n
<1>1. p.state \in Plain /\ "s_req_server_start" \in States /\ "url" \in DataCallbacks
  BY DEF Plain, States, BodyStates, ChunkStates, SizeStates, UrlStates, Undecided, DataCallbacks
<1>2. Pair(p, w, s, t) /\ ~Failed(p)
  BY <1>1, TwoPair, NoBodies
<1>3. NoMark(p) /\ p.type # "BOTH"
  BY <1>1, TwoParts, PlainReady
<1>4. Even(p, w, s, t) /\ OnlyMark(p, "url") /\ OnlyMark(w, "url") /\ w.method = p.method
  BY <1>2, <1>3, PairParts DEF NoMark, OnlyMark, Like, Kept
<1>5. Pair(m, n, s, t) /\ ~Failed(m) /\ OnlyMark(m, "url") /\ Marked(m, "url") /\ m.type = p.type
  <2>1. Pair(m, n, s, t) /\ ~Failed(m) /\ OnlyMark(m, "url") /\ Marked(m, "url")
        /\ IsMark(m, p, "url")
    BY <1>1, <1>2, <1>4, PairMark
  <2> HIDE DEF m, n
  <2> QED BY <2>1 DEF IsMark, Kept
<1>6. /\ s_req_spaces_before_url(p, ch) = IF ch = Blank THEN p ELSE url_char(q, ch)
      /\ s_req_spaces_before_url(w, ch) = IF ch = Blank THEN w ELSE url_char(r, ch)
  BY <1>4 DEF s_req_spaces_before_url
<1> HIDE DEF m, n
<1>7. Pair(q, r, s, t) /\ ~Failed(q) /\ q.marks = m.marks /\ q.type = p.type
  BY <1>1, <1>5, PairGoto
<1> HIDE DEF q, r
<1>8. OnlyMark(q, "url") /\ Marked(q, "url")
  BY <1>5, <1>7 DEF OnlyMark, Marked
<1>9. Pair(url_char(q, ch), url_char(r, ch), s, t)
  BY <1>3, <1>7, <1>8, UrlCharPair
<1> QED BY <1>2, <1>6, <1>9

LEMMA PairHands ==
    ASSUME NEW p, NEW w, NEW s, NEW t, Pair(p, w, s, t), ~Failed(p),
           NEW c \in DataCallbacks, OnlyMark(p, c), NEW a
    PROVE  LET q == CALLBACK_DATA(p, c, a)
               r == CALLBACK_DATA(w, c, a)
           IN  /\ Pair(q, r, s, t) /\ IsData(q, p, c, 0, a) /\ (~Failed(q) => NoMark(q))
<1> DEFINE z == 0
           q == CALLBACK_DATA_(p, c, z, a)
           r == CALLBACK_DATA_(w, c, z, a)
<1>1. Even(p, w, s, t) /\ OnlyMark(w, c) /\ Alike(w, p)
  BY PairParts DEF Pair
<1>2. z \in {0, 1}
  OBVIOUS
<1> HIDE DEF z
<1>3. Pair(q, r, s, t) /\ IsData(q, p, c, z, a) /\ (~Failed(q) => NoMark(q))
  BY <1>1, <1>2, PairData
<1> QED BY <1>3 DEF CALLBACK_DATA, z

\* The end of a url, of a reason, of a name or of a value.
LEMMA GotoHands ==
    ASSUME NEW p, NEW w, NEW s, NEW t, Pair(p, w, s, t), ~Failed(p),
           NEW c \in DataCallbacks, OnlyMark(p, c), NEW a, NEW x \in States
    PROVE  LET q == CALLBACK_DATA(Goto(p, x), c, a)
               r == CALLBACK_DATA(Goto(w, x), c, a)
           IN  Pair(q, r, s, t) /\ q.state = x /\ q.type = p.type /\ (~Failed(q) => NoMark(q))
<1> DEFINE g == Goto(p, x)
           h == Goto(w, x)
<1>1. Pair(g, h, s, t) /\ ~Failed(g) /\ g.marks = p.marks /\ g.state = x /\ g.type = p.type
  BY PairGoto
<1> HIDE DEF g, h
<1>2. OnlyMark(g, c)
  BY <1>1 DEF OnlyMark, Marked
<1> DEFINE q == CALLBACK_DATA(g, c, a)
           r == CALLBACK_DATA(h, c, a)
<1>3. Pair(q, r, s, t) /\ IsData(q, g, c, 0, a) /\ (~Failed(q) => NoMark(q))
  BY <1>1, <1>2, PairHands
<1> HIDE DEF q, r
<1>4. q.state = x /\ q.type = p.type
  BY <1>1, <1>3 DEF IsData, Kept
<1> QED BY <1>3, <1>4 DEF q, r, g, h

LEMMA UrlPair ==
    ASSUME NEW p, NEW w, NEW s, NEW t, Two(p, w, s, t), p.state \in UrlStates, NEW ch, NEW a
    PROVE  Pair(s_req_url(p, ch, a), s_req_url(w, ch, a), s, t)
<1> DEFINE x == IF ch = CR THEN "s_req_line_almost_done" ELSE "s_header_field_start"
           q == [p EXCEPT !.http_major = 0, !.http_minor = 9, !.state = x]
           r == [w EXCEPT !.http_major = 0, !.http_minor = 9, !.state = x]
           wide == p.state \notin {"s_req_schema", "s_req_schema_slash",
                                   "s_req_schema_slash_slash", "s_req_server_start"}
<1>1. {"s_req_http_start", "s_req_line_almost_done", "s_header_field_start"} \subseteq States
      /\ "url" \in DataCallbacks /\ "INVALID_URL" \in Errors \ {"OK"}
  BY DEF States, DataCallbacks, Errors
<1>2. Resumed(p.state) = {"url"}
  BY DEF Resumed, UrlStates
<1>3. /\ Ready(p) /\ Pair(p, w, s, t) /\ ~Failed(p) /\ Typed(p) /\ Typed(w) /\ Like(w, p)
      /\ w.state = p.state
  BY TwoParts, TwoPair, NoBodies
<1>4. OnlyMark(p, "url") /\ Marked(p, "url") /\ p.type # "BOTH"
  BY <1>1, <1>2, <1>3, MarkedReady DEF Reading
<1>5. /\ s_req_url(p, ch, a) =
           CASE ch = Blank /\ wide -> CALLBACK_DATA(Goto(p, "s_req_http_start"), "url", a)
             [] ch \in {CR, LF} /\ wide -> CALLBACK_DATA(q, "url", a)
             [] ch \in {Blank, CR, LF} /\ ~wide -> Fail(p, "INVALID_URL")
             [] OTHER -> url_char(p, ch)
      /\ s_req_url(w, ch, a) =
           CASE ch = Blank /\ wide -> CALLBACK_DATA(Goto(w, "s_req_http_start"), "url", a)
             [] ch \in {CR, LF} /\ wide -> CALLBACK_DATA(r, "url", a)
             [] ch \in {Blank, CR, LF} /\ ~wide -> Fail(w, "INVALID_URL")
             [] OTHER -> url_char(w, ch)
  BY <1>3 DEF s_req_url
<1>6. x \in States
  BY <1>1
<1> HIDE DEF wide, x
<1>7. Pair(q, r, s, t) /\ ~Failed(q) /\ OnlyMark(q, "url")
  <2>1. Typed(q) /\ q.marks = p.marks /\ q.out = p.out /\ q.errno = p.errno
    BY <1>3, <1>6 DEF Typed, Fields
  <2>2. Typed(r) /\ r.marks = w.marks /\ r.out = w.out
    BY <1>3, <1>6 DEF Typed, Fields
  <2>3. Like(r, q)
    BY <1>3 DEF Like, Kept, Fields
  <2> HIDE DEF q, r
  <2> QED BY <1>3, <1>4, <2>1, <2>2, <2>3, PairQuiet DEF Failed, OnlyMark, Marked
<1> HIDE DEF q, r
<1>8. CASE ch = Blank /\ wide
  <2>1. Pair(CALLBACK_DATA(Goto(p, "s_req_http_start"), "url", a),
             CALLBACK_DATA(Goto(w, "s_req_http_start"), "url", a), s, t)
    BY <1>1, <1>3, <1>4, GotoHands
  <2> QED BY <1>5, <1>8, <2>1 DEF Blank, CR, LF
<1>9. CASE ch \in {CR, LF} /\ wide
  <2>1. Pair(CALLBACK_DATA(q, "url", a), CALLBACK_DATA(r, "url", a), s, t)
    BY <1>1, <1>7, PairHands
  <2> QED BY <1>5, <1>9, <2>1 DEF Blank, CR, LF
<1>10. CASE ch \in {Blank, CR, LF} /\ ~wide
  <2>1. Pair(Fail(p, "INVALID_URL"), Fail(w, "INVALID_URL"), s, t)
    BY <1>1, <1>3, PairFail DEF Pair
  <2> QED BY <1>5, <1>10, <2>1
<1>11. CASE ch \notin {Blank, CR, LF}
  <2>1. Pair(url_char(p, ch), url_char(w, ch), s, t)
    BY <1>3, <1>4, UrlCharPair
  <2> QED BY <1>5, <1>11, <2>1
<1> QED BY <1>8, <1>9, <1>10, <1>11

LEMMA ReasonPair ==
    ASSUME NEW p, NEW w, NEW s, NEW t, Pair(p, w, s, t), ~Failed(p), OnlyMark(p, "status"),
           NEW ch, NEW a
    PROVE  Pair(s_res_status(p, ch, a), s_res_status(w, ch, a), s, t)
<1>1. {"s_res_line_almost_done", "s_header_field_start"} \subseteq States
      /\ "status" \in DataCallbacks
  BY DEF States, DataCallbacks
<1>2. ASSUME NEW x \in States
      PROVE  Pair(CALLBACK_DATA(Goto(p, x), "status", a), CALLBACK_DATA(Goto(w, x), "status", a),
                  s, t)
  BY <1>1, GotoHands
<1>3. CASE ch = CR
  BY <1>1, <1>2, <1>3 DEF s_res_status, CR, LF
<1>4. CASE ch = LF
  BY <1>1, <1>2, <1>4 DEF s_res_status, CR, LF
<1>5. CASE ch \notin {CR, LF}
  BY <1>5 DEF s_res_status
<1> QED BY <1>3, <1>4, <1>5

LEMMA ReasonStartPair ==
    ASSUME NEW p, NEW w, NEW s, NEW t, Pair(p, w, s, t), ~Failed(p), NoMark(p), NEW ch, NEW a
    PROVE  Pair(s_res_status_start(p, ch, a), s_res_status_start(w, ch, a), s, t)
<1> DEFINE m == MARK(p, "status")
           n == MARK(w, "status")
           q == Goto(m, "s_res_status")
           r == Goto(n, "s_res_status")
<1>1. "s_res_status" \in States /\ "status" \in DataCallbacks
  BY DEF States, DataCallbacks
<1>2. Even(p, w, s, t) /\ OnlyMark(p, "status") /\ OnlyMark(w, "status")
  BY PairParts DEF NoMark, OnlyMark
<1>3. Pair(m, n, s, t) /\ ~Failed(m) /\ OnlyMark(m, "status")
  BY <1>1, <1>2, PairMark
<1> HIDE DEF m, n
<1>4. Pair(q, r, s, t) /\ ~Failed(q) /\ q.marks = m.marks
  BY <1>1, <1>3, PairGoto
<1>5. s_res_status_start(p, ch, a) = s_res_status(q, ch, a)
      /\ s_res_status_start(w, ch, a) = s_res_status(r, ch, a)
  BY DEF s_res_status_start, Goto, m, n
<1> HIDE DEF q, r
<1>6. OnlyMark(q, "status")
  BY <1>3, <1>4 DEF OnlyMark, Marked
<1> QED BY <1>4, <1>5, <1>6, ReasonPair

LEMMA StatusCodePair ==
    ASSUME NEW p, NEW w, NEW s, NEW t, Two(p, w, s, t), p.state = "s_res_status_code",
           NEW ch, NEW a
    PROVE  Pair(s_res_status_code(p, ch, a), s_res_status_code(w, ch, a), s, t)
<1> DEFINE code == p.status_code * 10 + Digit[ch]
           q == [p EXCEPT !.status_code = code]
           r == [w EXCEPT !.status_code = code]
<1>1. p.state \in Plain /\ "s_res_status_start" \in States /\ "INVALID_STATUS" \in Errors \ {"OK"}
  BY DEF Plain, States, BodyStates, ChunkStates, SizeStates, UrlStates, Undecided, Errors
<1>2. /\ Ready(p) /\ Pair(p, w, s, t) /\ ~Failed(p) /\ Typed(p) /\ Typed(w) /\ Like(w, p)
      /\ Even(p, w, s, t)
  BY <1>1, TwoParts, TwoPair, NoBodies
<1>3. NoMark(p) /\ w.status_code = p.status_code
  BY <1>1, <1>2, PlainReady DEF Like, Kept
<1>4. Pair(Fail(p, "INVALID_STATUS"), Fail(w, "INVALID_STATUS"), s, t)
  BY <1>1, <1>2, PairFail
<1>5. CASE ch \in Num
  <2>1. /\ s_res_status_code(p, ch, a) = IF code > 999 THEN Fail(p, "INVALID_STATUS") ELSE q
        /\ s_res_status_code(w, ch, a) = IF code > 999 THEN Fail(w, "INVALID_STATUS") ELSE r
    <3>1. ch # Blank /\ ch \notin {CR, LF}
      BY <1>5 DEF Num, Blank, CR, LF
    <3> QED BY <1>3, <1>5, <3>1 DEF s_res_status_code
  <2>2. ASSUME ~(code > 999) PROVE code \in 0..999
    <3>1. Digit[ch] \in 0..9 /\ p.status_code \in 0..999
      BY <1>2, <1>5 DEF Num, Digit, Typed
    <3>2. PICK x \in 0..999, d \in 0..9 : x = p.status_code /\ d = Digit[ch]
      BY <3>1
    <3>3. code = x * 10 + d /\ ~(code > 999)
      BY <2>2, <3>2
    <3> HIDE DEF code
    <3> QED BY <3>3
  <2> HIDE DEF code
  <2>3. ASSUME code \in 0..999 PROVE Pair(q, r, s, t)
    <3>1. Typed(q) /\ q.marks = p.marks /\ q.out = p.out
      BY <1>2, <2>3 DEF Typed, Fields
    <3>2. Typed(r) /\ r.marks = w.marks /\ r.out = w.out
      BY <1>2, <2>3 DEF Typed, Fields
    <3>3. Like(r, q)
      BY <1>2 DEF Like, Kept, Fields
    <3> HIDE DEF q, r
    <3> QED BY <1>2, <3>1, <3>2, <3>3, PairQuiet
  <2> HIDE DEF q, r
  <2> QED BY <1>4, <2>1, <2>2, <2>3
<1> HIDE DEF code, q, r
<1>6. CASE ch = Blank
  <2>1. Pair(Goto(p, "s_res_status_start"), Goto(w, "s_res_status_start"), s, t)
    BY <1>1, <1>2, PairGoto
  <2> QED BY <1>6, <2>1 DEF s_res_status_code, Num, Blank, CR, LF
<1>7. CASE ch \in {CR, LF}
  <2>1. Pair(s_res_status_start(p, ch, a), s_res_status_start(w, ch, a), s, t)
    BY <1>2, <1>3, ReasonStartPair
  <2> QED BY <1>7, <2>1 DEF s_res_status_code, Num, Blank, CR, LF
<1>8. CASE ch \notin Num \cup {Blank, CR, LF}
  BY <1>4, <1>8 DEF s_res_status_code
<1> QED BY <1>5, <1>6, <1>7, <1>8

LEMMA StatusPair ==
    ASSUME NEW p, NEW w, NEW s, NEW t, Two(p, w, s, t), NEW ch, NEW a
    PROVE  /\ p.state = "s_res_status_start" =>
                Pair(s_res_status_start(p, ch, a), s_res_status_start(w, ch, a), s, t)
           /\ p.state = "s_res_status" =>
                Pair(s_res_status(p, ch, a), s_res_status(w, ch, a), s, t)
<1>1. ASSUME p.state = "s_res_status_start"
      PROVE  Pair(s_res_status_start(p, ch, a), s_res_status_start(w, ch, a), s, t)
  <2>1. p.state \in Plain
    BY <1>1 DEF Plain, States, BodyStates, ChunkStates, SizeStates, UrlStates, Undecided
  <2>2. Pair(p, w, s, t) /\ ~Failed(p) /\ NoMark(p)
    BY <2>1, TwoParts, TwoPair, NoBodies, PlainReady
  <2> QED BY <2>2, ReasonStartPair
<1>2. ASSUME p.state = "s_res_status"
      PROVE  Pair(s_res_status(p, ch, a), s_res_status(w, ch, a), s, t)
  <2>1. Resumed(p.state) = {"status"} /\ "status" \in DataCallbacks /\ p.state \notin BodyStates
    BY <1>2 DEF Resumed, UrlStates, DataCallbacks, BodyStates
  <2>2. Pair(p, w, s, t) /\ ~Failed(p) /\ OnlyMark(p, "status")
    BY <2>1, TwoParts, TwoPair, MarkedReady DEF Reading
  <2> QED BY <2>2, ReasonPair
<1> QED BY <1>1, <1>2

-----------------------------------------------------------------------------
(* Bodies, in which only one of the two may have a mark.                   *)

LEMMA PairSame ==
    ASSUME NEW p, NEW w, NEW s, NEW t, Pair(p, w, s, t), NEW q, NEW r, Typed(q), Typed(r),
           Like(r, q), q.marks = p.marks, q.out = p.out, q.errno = p.errno,
           r.marks = w.marks, r.out = w.out
    PROVE  Pair(q, r, s, t) /\ (NoMark(p) => NoMark(q)) /\ (Failed(q) <=> Failed(p))
<1>1. Look(q, s) = Look(p, s) /\ Look(r, t) = Look(w, t)
  BY LookQuiet
<1> QED BY <1>1 DEF Pair, Even, Alike, Marked, Failed, NoMark

LEMMA CompletePair ==
    ASSUME NEW p, NEW w, NEW s, NEW t, Pair(p, w, s, t), ~Failed(p), NoMark(p), NEW a
    PROVE  Pair(message_complete(p, a), message_complete(w, a), s, t)
<1> DEFINE x == NEW_MESSAGE(p)
           u == p.upgrade
           g == Goto(p, x)
           h == Goto(w, x)
           m == CALLBACK_NOTIFY(g, "message_complete", a)
           n == CALLBACK_NOTIFY(h, "message_complete", a)
           q == [m EXCEPT !.exited = u]
           r == [n EXCEPT !.exited = u]
<1>1. Typed(p) /\ Typed(w) /\ Like(w, p)
  BY PairParts
<1>2. NEW_MESSAGE(w) = x /\ w.upgrade = u /\ u \in BOOLEAN
  BY <1>1 DEF NEW_MESSAGE, http_should_keep_alive, http_message_needs_eof, Like, Kept, Typed
<1>3. x \in States /\ "message_complete" \in Callbacks
  BY DEF NEW_MESSAGE, States, Callbacks
<1>4. message_complete(p, a) = q /\ message_complete(w, a) = r
  BY <1>2 DEF message_complete
<1> HIDE DEF x, u
<1>5. Pair(g, h, s, t) /\ ~Failed(g) /\ g.marks = p.marks
  BY <1>3, PairGoto
<1> HIDE DEF g, h
<1>6. NoMark(g)
  BY <1>5 DEF NoMark, Marked
<1>7. Pair(m, n, s, t)
  BY <1>3, <1>5, <1>6, PairCall
<1> HIDE DEF m, n
<1>8. Typed(m) /\ Typed(n) /\ Like(n, m)
  BY <1>7 DEF Pair, Even
<1>9. /\ Typed(q) /\ q.marks = m.marks /\ q.out = m.out /\ q.errno = m.errno
      /\ Typed(r) /\ r.marks = n.marks /\ r.out = n.out
  BY <1>2, <1>8 DEF Typed, Fields
<1>10. Like(r, q)
  BY <1>8 DEF Like, Kept, Fields
<1> HIDE DEF q, r
<1> QED BY <1>4, <1>7, <1>9, <1>10, PairSame

\* One more byte of a body.
LEMMA BytePair ==
    ASSUME NEW p, NEW w, NEW s, NEW t, Two(p, w, s, t),
           p.state \in {"s_body_identity", "s_chunk_data"}
    PROVE  LET q == [MARK(p, "body") EXCEPT !.content_length = @ - 1]
               r == [MARK(w, "body") EXCEPT !.content_length = @ - 1]
           IN  /\ Pair(q, r, s, t) /\ ~Failed(q) /\ OnlyMark(q, "body")
               /\ r.content_length = q.content_length
<1> DEFINE m == MARK(p, "body")
           n == MARK(w, "body")
           q == [m EXCEPT !.content_length = @ - 1]
           r == [n EXCEPT !.content_length = @ - 1]
<1>1. p.state \in BodyStates /\ "body" \in DataCallbacks
  BY DEF BodyStates, DataCallbacks
<1>2. /\ Ready(p) /\ Ready(w) /\ w.state = p.state /\ Even(p, w, s, t) /\ ~Failed(p)
  BY TwoParts
<1>3. OnlyMark(p, "body") /\ OnlyMark(w, "body")
  BY <1>1, <1>2, BodyReady
<1>4. p.content_length \in 1..(ULLONG_MAX - 1)
  BY <1>2 DEF Ready, Control, BodyLeft
<1>5. /\ Pair(m, n, s, t) /\ ~Failed(m) /\ OnlyMark(m, "body") /\ IsMark(m, p, "body")
  BY <1>1, <1>2, <1>3, PairMark
<1> HIDE DEF m, n
<1>6. Typed(m) /\ Typed(n) /\ Like(n, m)
  BY <1>5, PairParts
<1>7. m.content_length = p.content_length /\ n.content_length = p.content_length
  BY <1>5, <1>6 DEF IsMark, Like, Kept
<1>8. p.content_length - 1 \in 0..ULLONG_MAX
  BY <1>4, HttpParserAssumption
<1>9. /\ Typed(q) /\ q.marks = m.marks /\ q.out = m.out /\ q.errno = m.errno
      /\ Typed(r) /\ r.marks = n.marks /\ r.out = n.out
      /\ q.content_length = p.content_length - 1 /\ r.content_length = p.content_length - 1
  BY <1>6, <1>7, <1>8 DEF Typed, Fields
<1>10. Like(r, q)
  BY <1>6, <1>7 DEF Like, Kept, Fields
<1> HIDE DEF q, r
<1>11. Pair(q, r, s, t) /\ ~Failed(q) /\ OnlyMark(q, "body")
  BY <1>5, <1>9, <1>10, PairSame DEF OnlyMark, Marked
<1> QED BY <1>9, <1>11 DEF q, r, m, n

LEMMA BodyIdentityPair ==
    ASSUME NEW p, NEW w, NEW s, NEW t, Two(p, w, s, t), p.state = "s_body_identity",
           NEW ch, NEW a
    PROVE  Pair(s_body_identity(p, ch, a), s_body_identity(w, ch, a), s, t)
<1> DEFINE one == 1
           q == [MARK(p, "body") EXCEPT !.content_length = @ - 1]
           r == [MARK(w, "body") EXCEPT !.content_length = @ - 1]
           d == CALLBACK_DATA_(q, "body", one, a)
           e == CALLBACK_DATA_(r, "body", one, a)
<1>1. /\ Pair(q, r, s, t) /\ ~Failed(q) /\ OnlyMark(q, "body")
      /\ r.content_length = q.content_length
  BY BytePair
<1>2. /\ s_body_identity(p, ch, a) =
           IF q.content_length > 0 THEN q ELSE IF Failed(d) THEN d ELSE message_complete(d, a)
      /\ s_body_identity(w, ch, a) =
           IF r.content_length > 0 THEN r ELSE IF Failed(e) THEN e ELSE message_complete(e, a)
  BY DEF s_body_identity
<1>3. one \in {0, 1} /\ "body" \in DataCallbacks
  BY DEF DataCallbacks
<1> HIDE DEF q, r, one
<1>4. Even(q, r, s, t) /\ OnlyMark(r, "body") /\ Alike(r, q)
  BY <1>1, PairParts DEF Pair
<1>5. Pair(d, e, s, t) /\ (~Failed(d) => NoMark(d))
  BY <1>1, <1>3, <1>4, PairData
<1> HIDE DEF d, e
<1>6. Failed(e) <=> Failed(d)
  BY <1>5, LikeParts DEF Pair, Even
<1>7. ASSUME ~Failed(d) PROVE Pair(message_complete(d, a), message_complete(e, a), s, t)
  BY <1>5, <1>7, CompletePair
<1> QED BY <1>1, <1>2, <1>5, <1>6, <1>7

LEMMA BodyEofPair ==
    ASSUME NEW p, NEW w, NEW s, NEW t, Two(p, w, s, t), p.state = "s_body_identity_eof"
    PROVE  Pair(s_body_identity_eof(p), s_body_identity_eof(w), s, t)
<1>1. p.state \in BodyStates /\ "body" \in DataCallbacks
  BY DEF BodyStates, DataCallbacks
<1>2. Ready(p) /\ Ready(w) /\ w.state = p.state /\ Even(p, w, s, t) /\ ~Failed(p)
  BY TwoParts
<1>3. OnlyMark(p, "body") /\ OnlyMark(w, "body")
  BY <1>1, <1>2, BodyReady
<1>4. Pair(MARK(p, "body"), MARK(w, "body"), s, t)
  BY <1>1, <1>2, <1>3, PairMark
<1> QED BY <1>4 DEF s_body_identity_eof

LEMMA ChunkDataPair ==
    ASSUME NEW p, NEW w, NEW s, NEW t, Two(p, w, s, t), p.state = "s_chunk_data", NEW ch
    PROVE  Pair(s_chunk_data(p, ch), s_chunk_data(w, ch), s, t)
<1> DEFINE q == [MARK(p, "body") EXCEPT !.content_length = @ - 1]
           r == [MARK(w, "body") EXCEPT !.content_length = @ - 1]
<1>1. Pair(q, r, s, t) /\ ~Failed(q) /\ r.content_length = q.content_length
  BY BytePair
<1>2. /\ s_chunk_data(p, ch) =
           IF q.content_length = 0 THEN Goto(q, "s_chunk_data_almost_done") ELSE q
      /\ s_chunk_data(w, ch) =
           IF r.content_length = 0 THEN Goto(r, "s_chunk_data_almost_done") ELSE r
  BY DEF s_chunk_data
<1>3. "s_chunk_data_almost_done" \in States
  BY DEF States
<1> HIDE DEF q, r
<1>4. Pair(Goto(q, "s_chunk_data_almost_done"), Goto(r, "s_chunk_data_almost_done"), s, t)
  BY <1>1, <1>3, PairGoto
<1> QED BY <1>1, <1>2, <1>4

LEMMA ChunkEndPair ==
    ASSUME NEW p, NEW w, NEW s, NEW t, Two(p, w, s, t), p.state = "s_chunk_data_almost_done",
           NEW ch, NEW a, a["body"] = 0
    PROVE  Pair(s_chunk_data_almost_done(p, ch, a), s_chunk_data_almost_done(w, ch, a), s, t)
<1> DEFINE z == 0
           q == Goto(p, "s_chunk_data_done")
           r == Goto(w, "s_chunk_data_done")
<1>1. /\ p.state \in BodyStates /\ "body" \in DataCallbacks /\ "s_chunk_data_done" \in States
      /\ "STRICT" \in Errors \ {"OK"}
  BY DEF BodyStates, DataCallbacks, States, Errors
<1>2. /\ Ready(p) /\ Ready(w) /\ w.state = p.state /\ Even(p, w, s, t) /\ ~Failed(p)
      /\ Typed(p) /\ Typed(w) /\ Like(w, p)
  BY TwoParts
<1>3. OnlyMark(p, "body") /\ OnlyMark(w, "body")
  BY <1>1, <1>2, BodyReady
<1>4. /\ Typed(q) /\ q.marks = p.marks /\ q.out = p.out /\ q.errno = p.errno
      /\ Typed(r) /\ r.marks = w.marks /\ r.out = w.out
  BY <1>1, <1>2 DEF Goto, Typed, Fields
<1>5. Like(r, q)
  BY <1>2, LikeParts
<1>6. /\ s_chunk_data_almost_done(p, ch, a) =
           IF ch # CR THEN Fail(p, "STRICT") ELSE CALLBACK_DATA_(q, "body", z, a)
      /\ s_chunk_data_almost_done(w, ch, a) =
           IF ch # CR THEN Fail(w, "STRICT") ELSE CALLBACK_DATA_(r, "body", z, a)
  BY DEF s_chunk_data_almost_done, CALLBACK_DATA
<1>7. z \in {0, 1} /\ z = 0
  OBVIOUS
<1> HIDE DEF q, r, z
<1>8. Look(q, s) = Look(p, s) /\ Look(r, t) = Look(w, t)
  BY <1>4, LookQuiet
<1>9. Even(q, r, s, t) /\ ~Failed(q)
  BY <1>2, <1>4, <1>5, <1>8 DEF Even, Failed
<1>10. OnlyMark(q, "body") /\ OnlyMark(r, "body")
  BY <1>3, <1>4 DEF OnlyMark, Marked
<1>11. Pair(CALLBACK_DATA_(q, "body", z, a), CALLBACK_DATA_(r, "body", z, a), s, t)
  BY <1>1, <1>7, <1>9, <1>10, PairData
<1>12. Pair(Fail(p, "STRICT"), Fail(w, "STRICT"), s, t)
  BY <1>1, <1>2, PairFail
<1> QED BY <1>6, <1>11, <1>12

LEMMA ChunkHeaderPair ==
    ASSUME NEW p, NEW w, NEW s, NEW t, Two(p, w, s, t), p.state = "s_chunk_size_almost_done",
           NEW ch, NEW a
    PROVE  Pair(s_chunk_size_almost_done(p, ch, a), s_chunk_size_almost_done(w, ch, a), s, t)
<1> DEFINE last == p.content_length = 0
           f == IF last THEN p.flags \cup {"TRAILING"} ELSE p.flags
           x == IF last THEN "s_header_field_start" ELSE "s_chunk_data"
           q == [p EXCEPT !.flags = f, !.state = x]
           r == [w EXCEPT !.flags = f, !.state = x]
<1>1. /\ p.state \in ChunkStates \ BodyStates /\ "chunk_header" \in Callbacks
      /\ "STRICT" \in Errors \ {"OK"} /\ x \in States /\ "TRAILING" \in Flags
  BY DEF ChunkStates, SizeStates, BodyStates, Callbacks, Errors, States, Flags
<1>2. /\ Ready(p) /\ Typed(p) /\ Typed(w) /\ Like(w, p) /\ Pair(p, w, s, t) /\ ~Failed(p)
      /\ Even(p, w, s, t)
  BY <1>1, TwoParts, TwoPair
<1>3. NoMark(p) /\ w.content_length = p.content_length /\ w.flags = p.flags
  BY <1>1, <1>2, ChunkReady DEF Like, Kept
<1>4. /\ s_chunk_size_almost_done(p, ch, a) =
           IF ch # LF THEN Fail(p, "STRICT") ELSE CALLBACK_NOTIFY(q, "chunk_header", a)
      /\ s_chunk_size_almost_done(w, ch, a) =
           IF ch # LF THEN Fail(w, "STRICT") ELSE CALLBACK_NOTIFY(r, "chunk_header", a)
  BY <1>3 DEF s_chunk_size_almost_done
<1>5. f \in SUBSET Flags
  BY <1>1, <1>2 DEF Typed
<1> HIDE DEF f, x, last
<1>6. /\ Typed(q) /\ q.marks = p.marks /\ q.out = p.out /\ q.errno = p.errno
      /\ Typed(r) /\ r.marks = w.marks /\ r.out = w.out
  BY <1>1, <1>2, <1>5 DEF Typed, Fields
<1>7. Like(r, q)
  BY <1>2 DEF Like, Kept, Fields
<1> HIDE DEF q, r
<1>8. Pair(q, r, s, t) /\ ~Failed(q) /\ NoMark(q)
  BY <1>2, <1>3, <1>6, <1>7, PairSame
<1>9. Pair(CALLBACK_NOTIFY(q, "chunk_header", a), CALLBACK_NOTIFY(r, "chunk_header", a), s, t)
  BY <1>1, <1>8, PairCall
<1>10. Pair(Fail(p, "STRICT"), Fail(w, "STRICT"), s, t)
  BY <1>1, <1>2, PairFail
<1> QED BY <1>4, <1>9, <1>10

LEMMA ChunkCompletePair ==
    ASSUME NEW p, NEW w, NEW s, NEW t, Two(p, w, s, t), p.state = "s_chunk_data_done",
           NEW ch, NEW a
    PROVE  Pair(s_chunk_data_done(p, ch, a), s_chunk_data_done(w, ch, a), s, t)
<1> DEFINE q == Goto(p, "s_chunk_size_start")
           r == Goto(w, "s_chunk_size_start")
<1>1. /\ p.state \in ChunkStates \ BodyStates /\ "chunk_complete" \in Callbacks
      /\ "STRICT" \in Errors \ {"OK"} /\ "s_chunk_size_start" \in States
  BY DEF ChunkStates, SizeStates, BodyStates, Callbacks, Errors, States
<1>2. Ready(p) /\ Pair(p, w, s, t) /\ ~Failed(p) /\ Even(p, w, s, t)
  BY <1>1, TwoParts, TwoPair
<1>3. NoMark(p)
  BY <1>1, <1>2, ChunkReady
<1>4. Pair(q, r, s, t) /\ ~Failed(q) /\ q.marks = p.marks
  BY <1>1, <1>2, PairGoto
<1>5. /\ s_chunk_data_done(p, ch, a) =
           IF ch # LF THEN Fail(p, "STRICT") ELSE CALLBACK_NOTIFY(q, "chunk_complete", a)
      /\ s_chunk_data_done(w, ch, a) =
           IF ch # LF THEN Fail(w, "STRICT") ELSE CALLBACK_NOTIFY(r, "chunk_complete", a)
  BY DEF s_chunk_data_done
<1> HIDE DEF q, r
<1>6. NoMark(q)
  BY <1>3, <1>4 DEF NoMark, Marked
<1>7. Pair(CALLBACK_NOTIFY(q, "chunk_complete", a), CALLBACK_NOTIFY(r, "chunk_complete", a), s, t)
  BY <1>1, <1>4, <1>6, PairCall
<1>8. Pair(Fail(p, "STRICT"), Fail(w, "STRICT"), s, t)
  BY <1>1, <1>2, PairFail
<1> QED BY <1>5, <1>7, <1>8

-----------------------------------------------------------------------------
(* The headers.                                                            *)

LEMMA SteadyPair ==
    ASSUME NEW p, NEW w, NEW s, NEW t, Pair(p, w, s, t), Steady(p)
    PROVE  /\ ~Failed(p) /\ NoMark(p) /\ Even(p, w, s, t) /\ Typed(p) /\ Typed(w) /\ Like(w, p)
           /\ \A c : OnlyMark(p, c) /\ OnlyMark(w, c)
           /\ \A e \in Errors : e # "OK" => Pair(Fail(p, e), Fail(w, e), s, t)
           /\ \A x \in States : Pair(Goto(p, x), Goto(w, x), s, t)
<1>1. ~Failed(p) /\ NoMark(p)
  BY DEF Steady, Failed
<1>2. Even(p, w, s, t) /\ Typed(p) /\ Typed(w) /\ Like(w, p) /\ NoMark(w)
  BY <1>1, PairParts
<1>3. \A e \in Errors : e # "OK" => Pair(Fail(p, e), Fail(w, e), s, t)
  BY <1>2, PairFail
<1>4. \A x \in States : Pair(Goto(p, x), Goto(w, x), s, t)
  BY <1>1, PairGoto
<1> QED BY <1>1, <1>2, <1>3, <1>4 DEF NoMark, OnlyMark

LEMMA HeadersDonePair ==
    ASSUME NEW p, NEW w, NEW s, NEW t, Pair(p, w, s, t), Steady(p), NEW a
    PROVE  Pair(s_headers_done(p, a), s_headers_done(w, a), s, t)
<1> DEFINE hasBody == "CHUNKED" \in p.flags \/ p.content_length \in 1..(ULLONG_MAX - 1)
           over == \/ p.upgrade /\ (p.method = "CONNECT" \/ "SKIPBODY" \in p.flags \/ ~hasBody)
                   \/ "SKIPBODY" \in p.flags
           needs == p.content_length = ULLONG_MAX /\ http_message_needs_eof(p)
           chunked == "CHUNKED" \in p.flags
           coded == "TRANSFER_ENCODING" \in p.flags
           asks == p.type = "REQUEST"
           e == "INVALID_TRANSFER_ENCODING"
           c == message_complete(p, a)
           d == message_complete(w, a)
<1>1. ~Failed(p) /\ NoMark(p) /\ Like(w, p)
  BY SteadyPair
<1>2. s_headers_done(p, a) =
        IF over THEN c
        ELSE IF chunked THEN Goto(p, "s_chunk_size_start")
        ELSE IF coded THEN IF asks THEN Fail(p, e) ELSE Goto(p, "s_body_identity_eof")
        ELSE IF hasBody THEN Goto(p, "s_body_identity")
        ELSE IF needs THEN Goto(p, "s_body_identity_eof") ELSE c
  BY DEF s_headers_done
<1>3. s_headers_done(w, a) =
        IF over THEN d
        ELSE IF chunked THEN Goto(w, "s_chunk_size_start")
        ELSE IF coded THEN IF asks THEN Fail(w, e) ELSE Goto(w, "s_body_identity_eof")
        ELSE IF hasBody THEN Goto(w, "s_body_identity")
        ELSE IF needs THEN Goto(w, "s_body_identity_eof") ELSE d
  <2>1. /\ w.flags = p.flags /\ w.content_length = p.content_length /\ w.upgrade = p.upgrade
        /\ w.method = p.method /\ w.type = p.type /\ w.status_code = p.status_code
    BY <1>1 DEF Like, Kept
  <2>2. http_message_needs_eof(w) <=> http_message_needs_eof(p)
    BY <2>1 DEF http_message_needs_eof
  <2> HIDE DEF c, d
  <2> QED BY <2>1, <2>2 DEF s_headers_done, d
<1>4. Pair(c, d, s, t)
  BY <1>1, CompletePair
<1>5. {"s_chunk_size_start", "s_body_identity_eof", "s_body_identity"} \subseteq States
      /\ e \in Errors /\ e # "OK"
  BY DEF States, Errors
<1>6. Pair(Fail(p, e), Fail(w, e), s, t)
  BY <1>5, SteadyPair
<1>7. \A x \in {"s_chunk_size_start", "s_body_identity_eof", "s_body_identity"} :
         Pair(Goto(p, x), Goto(w, x), s, t)
  BY <1>5, SteadyPair
<1> HIDE DEF over, needs, chunked, coded, asks, hasBody, c, d, e
<1> QED BY <1>2, <1>3, <1>4, <1>6, <1>7

LEMMA AnsweredPair ==
    ASSUME NEW p, NEW w, NEW s, NEW t, Pair(p, w, s, t), Steady(p), NEW a
    PROVE  Pair(Answered(p, a), Answered(w, a), s, t)
<1> DEFINE answer == a["headers_complete"]
           b == [a EXCEPT !["headers_complete"] = IF @ \in 1..2 THEN 0 ELSE @]
           y == Upgrades(p)
           g == [p EXCEPT !.upgrade = y]
           h == [w EXCEPT !.upgrade = y]
           m == CALLBACK_NOTIFY(g, "headers_complete", b)
           n == CALLBACK_NOTIFY(h, "headers_complete", b)
           x == m.upgrade \/ answer = 2
           f == IF answer \in 1..2 THEN m.flags \cup {"SKIPBODY"} ELSE m.flags
           q == [m EXCEPT !.upgrade = x, !.flags = f]
           r == [n EXCEPT !.upgrade = x, !.flags = f]
<1>1. ~Failed(p) /\ NoMark(p) /\ Like(w, p) /\ Typed(p) /\ Typed(w)
  BY SteadyPair
<1>2. Upgrades(w) = y /\ y \in BOOLEAN
  BY <1>1 DEF Upgrades, Like, Kept
<1>3. "headers_complete" \in Callbacks /\ "SKIPBODY" \in Flags
  BY DEF Callbacks, Flags
<1>4. Answered(p, a) = q
  BY DEF Answered
<1>5. Answered(w, a) = [n EXCEPT !.upgrade = n.upgrade \/ answer = 2,
                                 !.flags = IF answer \in 1..2 THEN n.flags \cup {"SKIPBODY"}
                                           ELSE n.flags]
  BY <1>2 DEF Answered
<1> HIDE DEF b, y
<1>6. /\ Typed(g) /\ g.marks = p.marks /\ g.out = p.out /\ g.errno = p.errno
      /\ Typed(h) /\ h.marks = w.marks /\ h.out = w.out
  BY <1>1, <1>2 DEF Typed, Fields
<1>7. Like(h, g)
  BY <1>1 DEF Like, Kept, Fields
<1> HIDE DEF g, h
<1>8. Pair(g, h, s, t) /\ ~Failed(g) /\ NoMark(g)
  BY <1>1, <1>6, <1>7, PairSame
<1>9. Pair(m, n, s, t)
  BY <1>3, <1>8, PairCall
<1> HIDE DEF m, n
<1>10. Typed(m) /\ Typed(n) /\ Like(n, m)
  BY <1>9 DEF Pair, Even
<1>11. n.upgrade = m.upgrade /\ n.flags = m.flags
  BY <1>10 DEF Like, Kept
<1>12. Answered(w, a) = r
  BY <1>5, <1>11
<1>13. x \in BOOLEAN /\ f \in SUBSET Flags
  BY <1>3, <1>10 DEF Typed
<1> HIDE DEF x, f
<1>14. /\ Typed(q) /\ q.marks = m.marks /\ q.out = m.out /\ q.errno = m.errno
       /\ Typed(r) /\ r.marks = n.marks /\ r.out = n.out
  BY <1>10, <1>13 DEF Typed, Fields
<1>15. Like(r, q)
  BY <1>10 DEF Like, Kept, Fields
<1> HIDE DEF q, r
<1> QED BY <1>4, <1>9, <1>12, <1>14, <1>15, PairSame

LEMMA HeadersEndPair ==
    ASSUME NEW p, NEW w, NEW s, NEW t, Pair(p, w, s, t), Steady(p), NEW ch, NEW a
    PROVE  Pair(s_headers_almost_done(p, ch, a), s_headers_almost_done(w, ch, a), s, t)
<1> DEFINE m == CALLBACK_NOTIFY(p, "chunk_complete", a)
           n == CALLBACK_NOTIFY(w, "chunk_complete", a)
           h == Answered(p, a)
           i == Answered(w, a)
           trailing == "TRAILING" \in p.flags
           both == {"TRANSFER_ENCODING", "CONTENTLENGTH"} \subseteq p.flags
           e == "UNEXPECTED_CONTENT_LENGTH"
<1>1. ~Failed(p) /\ NoMark(p) /\ Like(w, p) /\ Typed(p) /\ w.flags = p.flags
  BY SteadyPair DEF Like, Kept
<1>2. "chunk_complete" \in Callbacks /\ {"STRICT", e} \subseteq Errors \ {"OK"}
  BY DEF Callbacks, Errors
<1>3. /\ s_headers_almost_done(p, ch, a) =
           CASE ch # LF -> Fail(p, "STRICT")
             [] ch = LF /\ trailing -> IF Failed(m) THEN m ELSE message_complete(m, a)
             [] ch = LF /\ ~trailing /\ both -> Fail(p, e)
             [] OTHER -> IF Failed(h) THEN h ELSE s_headers_done(h, a)
      /\ s_headers_almost_done(w, ch, a) =
           CASE ch # LF -> Fail(w, "STRICT")
             [] ch = LF /\ trailing -> IF Failed(n) THEN n ELSE message_complete(n, a)
             [] ch = LF /\ ~trailing /\ both -> Fail(w, e)
             [] OTHER -> IF Failed(i) THEN i ELSE s_headers_done(i, a)
  BY <1>1 DEF s_headers_almost_done, Answered
<1>4. Pair(m, n, s, t) /\ NoMark(m)
  BY <1>1, <1>2, PairCall
<1>5. Pair(h, i, s, t)
  BY AnsweredPair
<1>6. IsAnswered(h, p)
  BY <1>1, AnsweredEffect
<1>7. Pair(Fail(p, "STRICT"), Fail(w, "STRICT"), s, t) /\ Pair(Fail(p, e), Fail(w, e), s, t)
  BY <1>2, SteadyPair
<1> HIDE DEF m, n, h, i, trailing, both, e
<1>8. (Failed(n) <=> Failed(m)) /\ (Failed(i) <=> Failed(h))
  BY <1>4, <1>5, LikeParts DEF Pair, Even
<1>9. ASSUME ~Failed(m) PROVE Pair(message_complete(m, a), message_complete(n, a), s, t)
  BY <1>4, <1>9, CompletePair
<1>10. ASSUME ~Failed(h) PROVE Pair(s_headers_done(h, a), s_headers_done(i, a), s, t)
  <2>1. Steady(h)
    BY <1>6, <1>10 DEF Steady, IsAnswered, NoMark, Marked, Failed
  <2> QED BY <1>5, <2>1, HeadersDonePair
<1> QED BY <1>3, <1>4, <1>5, <1>7, <1>8, <1>9, <1>10

LEMMA FieldStartPair ==
    ASSUME NEW p, NEW w, NEW s, NEW t, Pair(p, w, s, t), Steady(p), NEW ch, NEW a
    PROVE  Pair(s_header_field_start(p, ch, a), s_header_field_start(w, ch, a), s, t)
<1> DEFINE m == MARK(p, "header_field")
           n == MARK(w, "header_field")
           c == Lower(ch)
           x == IF c \in DOMAIN FirstOfField THEN FirstOfField[c] ELSE "general"
           q == [m EXCEPT !.state = "s_header_field", !.header = x]
           r == [n EXCEPT !.state = "s_header_field", !.header = x]
<1>1. /\ "s_headers_almost_done" \in States /\ "INVALID_HEADER_TOKEN" \in Errors \ {"OK"}
      /\ "header_field" \in DataCallbacks /\ "s_header_field" \in States /\ x \in HeaderStates
  BY DEF States, Errors, DataCallbacks, FirstOfField, HeaderStates
<1>2. ~Failed(p) /\ Even(p, w, s, t) /\ OnlyMark(p, "header_field") /\ OnlyMark(w, "header_field")
  BY SteadyPair
<1>3. /\ s_header_field_start(p, ch, a) =
           CASE ch = CR -> Goto(p, "s_headers_almost_done")
             [] ch = LF -> s_headers_almost_done(p, ch, a)
             [] Token(ch) -> q
             [] OTHER -> Fail(p, "INVALID_HEADER_TOKEN")
      /\ s_header_field_start(w, ch, a) =
           CASE ch = CR -> Goto(w, "s_headers_almost_done")
             [] ch = LF -> s_headers_almost_done(w, ch, a)
             [] Token(ch) -> r
             [] OTHER -> Fail(w, "INVALID_HEADER_TOKEN")
  BY DEF s_header_field_start
<1>4. Pair(m, n, s, t) /\ ~Failed(m)
  BY <1>1, <1>2, PairMark
<1> HIDE DEF m, n, x
<1>5. Typed(m) /\ Typed(n) /\ Like(n, m)
  BY <1>4, PairParts
<1>6. /\ Typed(q) /\ q.marks = m.marks /\ q.out = m.out /\ q.errno = m.errno
      /\ Typed(r) /\ r.marks = n.marks /\ r.out = n.out
  BY <1>1, <1>5 DEF Typed, Fields
<1>7. Like(r, q)
  BY <1>5 DEF Like, Kept, Fields
<1> HIDE DEF q, r
<1>8. Pair(q, r, s, t)
  BY <1>4, <1>6, <1>7, PairSame
<1>9. /\ Pair(Goto(p, "s_headers_almost_done"), Goto(w, "s_headers_almost_done"), s, t)
      /\ Pair(Fail(p, "INVALID_HEADER_TOKEN"), Fail(w, "INVALID_HEADER_TOKEN"), s, t)
  BY <1>1, SteadyPair
<1>10. Pair(s_headers_almost_done(p, ch, a), s_headers_almost_done(w, ch, a), s, t)
  BY HeadersEndPair
<1>11. ~Token(CR) /\ ~Token(LF) /\ CR # LF
  BY DEF Token, Letters, Hyphened, Num, CR, LF
<1> QED BY <1>3, <1>8, <1>9, <1>10, <1>11

LEMMA FieldPair ==
    ASSUME NEW p, NEW w, NEW s, NEW t, Two(p, w, s, t), p.state = "s_header_field", NEW ch, NEW a
    PROVE  Pair(s_header_field(p, ch, a), s_header_field(w, ch, a), s, t)
<1> DEFINE h == Name(p.header, ch)
           f == IF h = "transfer_encoding" THEN p.flags \cup {"TRANSFER_ENCODING"} ELSE p.flags
           q == [p EXCEPT !.header = h, !.flags = f]
           r == [w EXCEPT !.header = h, !.flags = f]
           d == CALLBACK_DATA(Goto(p, "s_header_value_discard_ws"), "header_field", a)
           e == CALLBACK_DATA(Goto(w, "s_header_value_discard_ws"), "header_field", a)
<1>1. /\ "s_header_value_discard_ws" \in States /\ "INVALID_HEADER_TOKEN" \in Errors \ {"OK"}
      /\ "header_field" \in DataCallbacks /\ "TRANSFER_ENCODING" \in Flags
      /\ p.state \notin BodyStates /\ Resumed(p.state) = {"header_field"}
  BY DEF States, Errors, DataCallbacks, Flags, BodyStates, Resumed, UrlStates
<1>2. /\ Ready(p) /\ Typed(p) /\ Typed(w) /\ Like(w, p) /\ Pair(p, w, s, t) /\ ~Failed(p)
      /\ Even(p, w, s, t)
  BY <1>1, TwoParts, TwoPair
<1>3. OnlyMark(p, "header_field") /\ w.header = p.header /\ w.flags = p.flags
  BY <1>1, <1>2, MarkedReady DEF Reading, Like, Kept
<1>4. h \in HeaderStates /\ f \in SUBSET Flags
  BY <1>1, <1>2 DEF Name, HeaderStates, Typed
<1>5. /\ s_header_field(p, ch, a) =
           CASE Token(ch) -> q [] ch = ":" -> d [] OTHER -> Fail(p, "INVALID_HEADER_TOKEN")
      /\ s_header_field(w, ch, a) =
           CASE Token(ch) -> r [] ch = ":" -> e [] OTHER -> Fail(w, "INVALID_HEADER_TOKEN")
  BY <1>3 DEF s_header_field
<1> HIDE DEF h, f
<1>6. /\ Typed(q) /\ q.marks = p.marks /\ q.out = p.out /\ q.errno = p.errno
      /\ Typed(r) /\ r.marks = w.marks /\ r.out = w.out
  BY <1>2, <1>4 DEF Typed, Fields
<1>7. Like(r, q)
  BY <1>2 DEF Like, Kept, Fields
<1> HIDE DEF q, r
<1>8. Pair(q, r, s, t)
  BY <1>2, <1>6, <1>7, PairSame
<1>9. Pair(d, e, s, t)
  BY <1>1, <1>2, <1>3, GotoHands
<1>10. Pair(Fail(p, "INVALID_HEADER_TOKEN"), Fail(w, "INVALID_HEADER_TOKEN"), s, t)
  BY <1>1, <1>2, PairFail
<1>11. ~Token(":")
  BY DEF Token, Letters, Hyphened, Num
<1> HIDE DEF d, e
<1> QED BY <1>5, <1>8, <1>9, <1>10, <1>11

-----------------------------------------------------------------------------
(* The values of the headers.                                              *)

LEMMA ValueStartPair ==
    ASSUME NEW p, NEW w, NEW s, NEW t, Pair(p, w, s, t), Steady(p), NEW ch
    PROVE  Pair(s_header_value_start(p, ch), s_header_value_start(w, ch), s, t)
<1> DEFINE m == MARK(p, "header_value")
           n == MARK(w, "header_value")
           q == [m EXCEPT !.state = "s_header_value"]
           r == [n EXCEPT !.state = "s_header_value"]
           x == IF Lower(ch) = "c" THEN "te_chunked" ELSE "te_token"
           y == Connection(Lower(ch), "conn_token")
           f == p.flags \cup {"UPGRADE"}
           g == p.flags \cup {"CONTENTLENGTH"}
           d == Digit[ch]
           fu == [q EXCEPT !.flags = f, !.header = "general"]
           gu == [r EXCEPT !.flags = f, !.header = "general"]
           fl == [q EXCEPT !.flags = g, !.content_length = d, !.header = "content_length_num"]
           gl == [r EXCEPT !.flags = g, !.content_length = d, !.header = "content_length_num"]
<1>1. /\ "header_value" \in DataCallbacks /\ "s_header_value" \in States
      /\ {"INVALID_CONTENT_LENGTH", "UNEXPECTED_CONTENT_LENGTH"} \subseteq Errors \ {"OK"}
      /\ {"UPGRADE", "CONTENTLENGTH"} \subseteq Flags
      /\ {x, y, "general", "content_length_num"} \subseteq HeaderStates
  BY DEF States, Errors, DataCallbacks, Flags, HeaderStates, Connection, ConnectionValue
<1>2. /\ ~Failed(p) /\ Even(p, w, s, t) /\ OnlyMark(p, "header_value")
      /\ OnlyMark(w, "header_value") /\ Typed(p) /\ w.header = p.header /\ w.flags = p.flags
  BY SteadyPair DEF Like, Kept
<1> HIDE DEF m, n, x, y
<1>3. /\ Pair(m, n, s, t) /\ ~Failed(m) /\ m.header = p.header /\ m.flags = p.flags
      /\ n.flags = p.flags
  BY <1>1, <1>2, PairMark DEF IsMark, Kept, m, n
<1>4. Typed(m) /\ Typed(n) /\ Like(n, m)
  BY <1>3, PairParts
<1>5. q.flags = p.flags /\ r.flags = p.flags
  BY <1>3, <1>4 DEF Typed, Fields
<1>6. /\ s_header_value_start(p, ch) =
           CASE p.header = "upgrade" -> fu
             [] p.header = "transfer_encoding" -> [q EXCEPT !.header = x]
             [] p.header = "content_length" ->
                   CASE ch \notin Num -> Fail(q, "INVALID_CONTENT_LENGTH")
                     [] ch \in Num /\ "CONTENTLENGTH" \in p.flags ->
                           Fail(q, "UNEXPECTED_CONTENT_LENGTH")
                     [] OTHER -> fl
             [] p.header = "connection" -> [q EXCEPT !.header = y]
             [] p.header \in {"te_token_start", "conn_token_start", "content_length_ws"} -> q
             [] OTHER -> [q EXCEPT !.header = "general"]
      /\ s_header_value_start(w, ch) =
           CASE p.header = "upgrade" -> gu
             [] p.header = "transfer_encoding" -> [r EXCEPT !.header = x]
             [] p.header = "content_length" ->
                   CASE ch \notin Num -> Fail(r, "INVALID_CONTENT_LENGTH")
                     [] ch \in Num /\ "CONTENTLENGTH" \in p.flags ->
                           Fail(r, "UNEXPECTED_CONTENT_LENGTH")
                     [] OTHER -> gl
             [] p.header = "connection" -> [r EXCEPT !.header = y]
             [] p.header \in {"te_token_start", "conn_token_start", "content_length_ws"} -> r
             [] OTHER -> [r EXCEPT !.header = "general"]
  <2> HIDE DEF f, g, d
  <2>1. /\ fu = [q EXCEPT !.flags = @ \cup {"UPGRADE"}, !.header = "general"]
        /\ gu = [r EXCEPT !.flags = @ \cup {"UPGRADE"}, !.header = "general"]
    BY <1>5 DEF f
  <2>2. /\ fl = [q EXCEPT !.flags = @ \cup {"CONTENTLENGTH"}, !.content_length = Digit[ch],
                          !.header = "content_length_num"]
        /\ gl = [r EXCEPT !.flags = @ \cup {"CONTENTLENGTH"}, !.content_length = Digit[ch],
                          !.header = "content_length_num"]
    BY <1>5 DEF g, d
  <2> HIDE DEF fu, gu, fl, gl
  <2>3. s_header_value_start(p, ch) =
           CASE p.header = "upgrade" -> fu
             [] p.header = "transfer_encoding" -> [q EXCEPT !.header = x]
             [] p.header = "content_length" ->
                   CASE ch \notin Num -> Fail(q, "INVALID_CONTENT_LENGTH")
                     [] ch \in Num /\ "CONTENTLENGTH" \in p.flags ->
                           Fail(q, "UNEXPECTED_CONTENT_LENGTH")
                     [] OTHER -> fl
             [] p.header = "connection" -> [q EXCEPT !.header = y]
             [] p.header \in {"te_token_start", "conn_token_start", "content_length_ws"} -> q
             [] OTHER -> [q EXCEPT !.header = "general"]
    BY <2>1, <2>2 DEF s_header_value_start, m, x, y
  <2>4. s_header_value_start(w, ch) =
           CASE p.header = "upgrade" -> gu
             [] p.header = "transfer_encoding" -> [r EXCEPT !.header = x]
             [] p.header = "content_length" ->
                   CASE ch \notin Num -> Fail(r, "INVALID_CONTENT_LENGTH")
                     [] ch \in Num /\ "CONTENTLENGTH" \in p.flags ->
                           Fail(r, "UNEXPECTED_CONTENT_LENGTH")
                     [] OTHER -> gl
             [] p.header = "connection" -> [r EXCEPT !.header = y]
             [] p.header \in {"te_token_start", "conn_token_start", "content_length_ws"} -> r
             [] OTHER -> [r EXCEPT !.header = "general"]
    BY <1>2, <2>1, <2>2 DEF s_header_value_start, n, x, y
  <2> QED BY <2>3, <2>4
<1>7. /\ Typed(q) /\ q.marks = m.marks /\ q.out = m.out /\ q.errno = m.errno
      /\ Typed(r) /\ r.marks = n.marks /\ r.out = n.out
  BY <1>1, <1>4 DEF Typed, Fields
<1>8. Like(r, q)
  BY <1>4 DEF Like, Kept, Fields
<1> HIDE DEF q, r
<1>9. Pair(q, r, s, t) /\ ~Failed(q)
  BY <1>3, <1>7, <1>8, PairSame
<1>10. ASSUME NEW h \in HeaderStates
       PROVE  Pair([q EXCEPT !.header = h], [r EXCEPT !.header = h], s, t)
  <2> DEFINE a == [q EXCEPT !.header = h]
             b == [r EXCEPT !.header = h]
  <2>1. /\ Typed(a) /\ a.marks = q.marks /\ a.out = q.out /\ a.errno = q.errno
        /\ Typed(b) /\ b.marks = r.marks /\ b.out = r.out
    BY <1>7 DEF Typed, Fields
  <2>2. Like(b, a)
    BY <1>8 DEF Like, Kept, Fields
  <2> HIDE DEF a, b
  <2>3. Pair(a, b, s, t)
    BY <1>9, <2>1, <2>2, PairSame
  <2> QED BY <2>3 DEF a, b
<1>11. Pair(fu, gu, s, t)
  <2>1. f \in SUBSET Flags /\ "general" \in HeaderStates
    BY <1>1, <1>2 DEF Typed
  <2> HIDE DEF f
  <2>2. /\ Typed(fu) /\ fu.marks = q.marks /\ fu.out = q.out /\ fu.errno = q.errno
        /\ Typed(gu) /\ gu.marks = r.marks /\ gu.out = r.out
    BY <1>7, <2>1 DEF Typed, Fields
  <2>3. Like(gu, fu)
    BY <1>8 DEF Like, Kept, Fields
  <2> HIDE DEF fu, gu
  <2> QED BY <1>9, <2>2, <2>3, PairSame
<1>12. ASSUME ch \in Num PROVE Pair(fl, gl, s, t)
  <2>1. g \in SUBSET Flags /\ "content_length_num" \in HeaderStates
    BY <1>1, <1>2 DEF Typed
  <2>2. d \in 0..ULLONG_MAX
    <3>1. Digit[ch] \in 0..2
      BY <1>12 DEF Num, Digit
    <3> QED BY <3>1, HttpParserAssumption
  <2> HIDE DEF g, d
  <2>3. /\ Typed(fl) /\ fl.marks = q.marks /\ fl.out = q.out /\ fl.errno = q.errno
        /\ Typed(gl) /\ gl.marks = r.marks /\ gl.out = r.out
    BY <1>7, <2>1, <2>2 DEF Typed, Fields
  <2>4. Like(gl, fl)
    BY <1>8 DEF Like, Kept, Fields
  <2> HIDE DEF fl, gl
  <2> QED BY <1>9, <2>3, <2>4, PairSame
<1>13. /\ Pair(Fail(q, "INVALID_CONTENT_LENGTH"), Fail(r, "INVALID_CONTENT_LENGTH"), s, t)
       /\ Pair(Fail(q, "UNEXPECTED_CONTENT_LENGTH"), Fail(r, "UNEXPECTED_CONTENT_LENGTH"), s, t)
  BY <1>1, <1>9, PairFail DEF Pair
<1>14. /\ Pair([q EXCEPT !.header = x], [r EXCEPT !.header = x], s, t)
       /\ Pair([q EXCEPT !.header = y], [r EXCEPT !.header = y], s, t)
       /\ Pair([q EXCEPT !.header = "general"], [r EXCEPT !.header = "general"], s, t)
  BY <1>1, <1>10
<1> HIDE DEF fu, gu, fl, gl
<1>15. CASE p.header = "content_length"
  BY <1>6, <1>12, <1>13, <1>15
<1>16. CASE p.header # "content_length"
  BY <1>6, <1>9, <1>11, <1>14, <1>16
<1> QED BY <1>15, <1>16

LEMMA DiscardPair ==
    ASSUME NEW p, NEW w, NEW s, NEW t, Two(p, w, s, t), p.state = "s_header_value_discard_ws",
           NEW ch
    PROVE  Pair(s_header_value_discard_ws(p, ch), s_header_value_discard_ws(w, ch), s, t)
<1>1. /\ p.state \in Plain /\ p.state \notin BodyStates
      /\ {"s_header_value_discard_ws_almost_done", "s_header_value_discard_lws"} \subseteq States
  BY DEF Plain, States, BodyStates, ChunkStates, SizeStates, UrlStates, Undecided
<1>2. Steady(p) /\ Pair(p, w, s, t)
  BY <1>1, TwoParts, TwoPair, PlainSteady
<1>3. Pair(s_header_value_start(p, ch), s_header_value_start(w, ch), s, t)
  BY <1>2, ValueStartPair
<1>4. \A x \in States : Pair(Goto(p, x), Goto(w, x), s, t)
  BY <1>2, SteadyPair
<1>5. CASE ch = Blank
  BY <1>2, <1>5 DEF s_header_value_discard_ws, Blank, CR, LF
<1>6. CASE ch = CR
  BY <1>1, <1>4, <1>6 DEF s_header_value_discard_ws, Blank, CR, LF
<1>7. CASE ch = LF
  BY <1>1, <1>4, <1>7 DEF s_header_value_discard_ws, Blank, CR, LF
<1>8. CASE ch \notin {Blank, CR, LF}
  BY <1>3, <1>8 DEF s_header_value_discard_ws
<1> QED BY <1>5, <1>6, <1>7, <1>8

\* In the middle of a value.
LEMMA InValuePair ==
    ASSUME NEW p, NEW w, NEW s, NEW t, Two(p, w, s, t), p.state = "s_header_value", NEW ch
    PROVE  Pair(in_value(p, ch), in_value(w, ch), s, t)
<1> DEFINE f == IF p.header \in DOMAIN ConnectionFlag /\ ch = ","
                THEN p.flags \cup {ConnectionFlag[p.header]} ELSE p.flags
           h == NextInValue(p.header, ch)
           v == [p EXCEPT !.header = h, !.flags = f]
           x == [w EXCEPT !.header = h, !.flags = f]
           u == [p EXCEPT !.header = "content_length_ws"]
           y == [w EXCEPT !.header = "content_length_ws"]
           e == Digits(p, 10, Digit[ch])
           k == Digits(w, 10, Digit[ch])
<1>1. Resumed(p.state) = {"header_value"} /\ "header_value" \in DataCallbacks
      /\ p.state \notin BodyStates
  BY DEF Resumed, UrlStates, DataCallbacks, BodyStates
<1>2. /\ Ready(p) /\ Ready(w) /\ w.state = p.state /\ Like(w, p) /\ w.header = p.header
      /\ w.flags = p.flags
  BY TwoParts DEF Like, Kept
<1>3. InValue(p) /\ InValue(w)
  BY <1>1, <1>2, MarkedReady, ReadyTyped DEF InValue
<1>4. IsQuiet(in_value(p, ch), p) /\ IsQuiet(in_value(w, ch), w)
  BY <1>3, InValueStep
<1>5. Like(k, e)
  BY <1>2, LikeDigits
<1>6. Like(y, u) /\ Like(x, v)
  BY <1>2 DEF Like, Kept, Fields
<1>7. p.header \notin {"connection", "transfer_encoding"}
  BY <1>3 DEF InValue, Reading, KnownValue
<1>8. in_value(p, ch) =
        IF ch = "bad" THEN Fail(p, "INVALID_HEADER_TOKEN")
        ELSE IF p.header = "content_length_num"
        THEN CASE ch = Blank -> u
               [] ch \in Num -> e
               [] OTHER -> Fail(p, "INVALID_CONTENT_LENGTH")
        ELSE IF p.header = "content_length_ws"
        THEN IF ch = Blank THEN p ELSE Fail(p, "INVALID_CONTENT_LENGTH")
        ELSE v
  BY <1>7 DEF in_value
<1>9. in_value(w, ch) =
        IF ch = "bad" THEN Fail(w, "INVALID_HEADER_TOKEN")
        ELSE IF p.header = "content_length_num"
        THEN CASE ch = Blank -> y
               [] ch \in Num -> k
               [] OTHER -> Fail(w, "INVALID_CONTENT_LENGTH")
        ELSE IF p.header = "content_length_ws"
        THEN IF ch = Blank THEN w ELSE Fail(w, "INVALID_CONTENT_LENGTH")
        ELSE x
  <2> HIDE DEF y, k
  <2>1. x = [w EXCEPT !.header = NextInValue(@, ch), !.flags =
                IF w.header \in DOMAIN ConnectionFlag /\ ch = ","
                THEN @ \cup {ConnectionFlag[w.header]} ELSE @]
    BY <1>2
  <2> HIDE DEF x
  <2> QED BY <1>2, <1>7, <2>1 DEF in_value, y, k
<1> HIDE DEF f, h, u, v, x, y, e, k
<1>10. \A z : Like(Fail(w, z), Fail(p, z))
  BY <1>2, LikeParts
<1>11. Like(in_value(w, ch), in_value(p, ch))
  BY <1>2, <1>5, <1>6, <1>8, <1>9, <1>10 DEF Blank, Num
<1> QED BY <1>1, <1>4, <1>11, TwoQuiet

LEMMA ValuePair ==
    ASSUME NEW p, NEW w, NEW s, NEW t, Two(p, w, s, t), p.state = "s_header_value", NEW ch, NEW a
    PROVE  Pair(s_header_value(p, ch, a), s_header_value(w, ch, a), s, t)
<1> DEFINE d == CALLBACK_DATA(Goto(p, "s_header_almost_done"), "header_value", a)
           e == CALLBACK_DATA(Goto(w, "s_header_almost_done"), "header_value", a)
<1>1. /\ Resumed(p.state) = {"header_value"} /\ "header_value" \in DataCallbacks
      /\ p.state \notin BodyStates
      /\ {"s_header_almost_done", "s_header_value_lws"} \subseteq States
  BY DEF Resumed, UrlStates, DataCallbacks, BodyStates, States
<1>2. Ready(p) /\ Pair(p, w, s, t) /\ ~Failed(p)
  BY <1>1, TwoParts, TwoPair
<1>3. OnlyMark(p, "header_value")
  BY <1>1, <1>2, MarkedReady DEF Reading
<1>4. Pair(d, e, s, t) /\ d.state = "s_header_almost_done"
  BY <1>1, <1>2, <1>3, GotoHands
<1>5. /\ s_header_value(p, ch, a) =
           CASE ch = CR -> d
             [] ch = LF -> IF Failed(d) THEN d ELSE literal(d, LF)
             [] OTHER -> in_value(p, ch)
      /\ s_header_value(w, ch, a) =
           CASE ch = CR -> e
             [] ch = LF -> IF Failed(e) THEN e ELSE literal(e, LF)
             [] OTHER -> in_value(w, ch)
  BY DEF s_header_value
<1>6. Pair(in_value(p, ch), in_value(w, ch), s, t)
  BY InValuePair
<1> HIDE DEF d, e
<1>7. (Failed(e) <=> Failed(d)) /\ e.state = d.state
  BY <1>4 DEF Pair, Even, Like, Kept, Failed
<1>8. ASSUME ~Failed(d) PROVE Pair(literal(d, LF), literal(e, LF), s, t)
  <2>1. /\ literal(d, LF) = Goto(d, "s_header_value_lws")
        /\ literal(e, LF) = Goto(e, "s_header_value_lws")
    BY <1>4, <1>7 DEF literal, ReqLiteral, ResLiteral, LF
  <2> QED BY <1>1, <1>4, <1>8, <2>1, PairGoto
<1>9. CR # LF
  BY DEF CR, LF
<1> QED BY <1>4, <1>5, <1>6, <1>7, <1>8, <1>9

LEMMA FlagPair ==
    ASSUME NEW p, NEW w, NEW s, NEW t, Pair(p, w, s, t), Steady(p)
    PROVE  Pair(flag_value(p), flag_value(w), s, t) /\ Steady(flag_value(p))
<1> DEFINE q == flag_value(p)
           r == flag_value(w)
<1>1. Typed(p) /\ Typed(w) /\ Like(w, p)
  BY SteadyPair
<1>2. /\ Typed(q) /\ q.marks = p.marks /\ q.out = p.out /\ q.errno = p.errno
      /\ Typed(r) /\ r.marks = w.marks /\ r.out = w.out
  BY <1>1, FlagValue
<1>3. Like(r, q)
  BY <1>1 DEF Like, Kept, Fields, flag_value
<1> HIDE DEF q, r
<1>4. Pair(q, r, s, t)
  BY <1>2, <1>3, PairSame
<1> QED BY <1>4, FlagSteady DEF q, r

LEMMA LwsPair ==
    ASSUME NEW p, NEW w, NEW s, NEW t, Two(p, w, s, t), p.state = "s_header_value_lws",
           NEW ch, NEW a
    PROVE  Pair(s_header_value_lws(p, ch, a), s_header_value_lws(w, ch, a), s, t)
<1> DEFINE h == IF p.header = "content_length_num" THEN "content_length_ws" ELSE p.header
           q == [p EXCEPT !.header = h]
           r == [w EXCEPT !.header = h]
           g == flag_value(p)
           i == flag_value(w)
<1>1. p.state \in Plain /\ p.state \notin BodyStates
  BY DEF Plain, States, BodyStates, ChunkStates, SizeStates, UrlStates, Undecided
<1>2. /\ Steady(p) /\ Pair(p, w, s, t) /\ Typed(p) /\ Typed(w) /\ Like(w, p)
      /\ w.header = p.header
  BY <1>1, TwoParts, TwoPair, PlainSteady DEF Like, Kept
<1>3. /\ s_header_value_lws(p, ch, a) =
           IF ch = Blank THEN s_header_value_start(q, ch) ELSE s_header_field_start(g, ch, a)
      /\ s_header_value_lws(w, ch, a) =
           IF ch = Blank THEN s_header_value_start(r, ch) ELSE s_header_field_start(i, ch, a)
  BY <1>2 DEF s_header_value_lws
<1>4. h \in HeaderStates
  BY <1>2 DEF Typed, HeaderStates
<1> HIDE DEF h
<1>5. /\ Typed(q) /\ q.marks = p.marks /\ q.out = p.out /\ q.errno = p.errno /\ Steady(q)
      /\ Typed(r) /\ r.marks = w.marks /\ r.out = w.out
  BY <1>2, <1>4 DEF Steady, Typed, Fields, NoMark, Marked
<1>6. Like(r, q)
  BY <1>2 DEF Like, Kept, Fields
<1> HIDE DEF q, r
<1>7. Pair(q, r, s, t)
  BY <1>2, <1>5, <1>6, PairSame
<1>8. Pair(s_header_value_start(q, ch), s_header_value_start(r, ch), s, t)
  BY <1>5, <1>7, ValueStartPair
<1>9. Pair(g, i, s, t) /\ Steady(g)
  BY <1>2, FlagPair
<1> HIDE DEF g, i
<1>10. Pair(s_header_field_start(g, ch, a), s_header_field_start(i, ch, a), s, t)
  BY <1>9, FieldStartPair
<1> QED BY <1>3, <1>8, <1>10

\* A value without a symbol is handed over too.
LEMMA DiscardLwsPair ==
    ASSUME NEW p, NEW w, NEW s, NEW t, Two(p, w, s, t), p.state = "s_header_value_discard_lws",
           NEW ch, NEW a
    PROVE  Pair(s_header_value_discard_lws(p, ch, a), s_header_value_discard_lws(w, ch, a), s, t)
<1> DEFINE g == flag_value(p)
           i == flag_value(w)
           m == MARK(g, "header_value")
           n == MARK(i, "header_value")
           x == "s_header_field_start"
           d == CALLBACK_DATA(Goto(m, x), "header_value", a)
           e == CALLBACK_DATA(Goto(n, x), "header_value", a)
<1>1. /\ p.state \in Plain /\ p.state \notin BodyStates
      /\ {"s_header_value_discard_ws", x} \subseteq States
      /\ "INVALID_CONTENT_LENGTH" \in Errors \ {"OK"} /\ "header_value" \in DataCallbacks
  BY DEF Plain, States, BodyStates, ChunkStates, SizeStates, UrlStates, Undecided, Errors,
     DataCallbacks
<1>2. Steady(p) /\ Pair(p, w, s, t) /\ w.header = p.header
  BY <1>1, TwoParts, TwoPair, PlainSteady DEF Like, Kept
<1>3. /\ Pair(Goto(p, "s_header_value_discard_ws"), Goto(w, "s_header_value_discard_ws"), s, t)
      /\ Pair(Fail(p, "INVALID_CONTENT_LENGTH"), Fail(w, "INVALID_CONTENT_LENGTH"), s, t)
  BY <1>1, <1>2, SteadyPair
<1>4. /\ s_header_value_discard_lws(p, ch, a) =
           CASE ch = Blank -> Goto(p, "s_header_value_discard_ws")
             [] ch # Blank /\ p.header = "content_length" -> Fail(p, "INVALID_CONTENT_LENGTH")
             [] OTHER -> IF Failed(d) THEN d ELSE s_header_field_start(d, ch, a)
      /\ s_header_value_discard_lws(w, ch, a) =
           CASE ch = Blank -> Goto(w, "s_header_value_discard_ws")
             [] ch # Blank /\ p.header = "content_length" -> Fail(w, "INVALID_CONTENT_LENGTH")
             [] OTHER -> IF Failed(e) THEN e ELSE s_header_field_start(e, ch, a)
  BY <1>2 DEF s_header_value_discard_lws
<1>5. Pair(g, i, s, t) /\ Steady(g)
  BY <1>2, FlagPair
<1> HIDE DEF g, i
<1>6. /\ ~Failed(g) /\ Even(g, i, s, t) /\ OnlyMark(g, "header_value")
      /\ OnlyMark(i, "header_value")
  BY <1>5, SteadyPair
<1>7. Pair(m, n, s, t) /\ ~Failed(m) /\ OnlyMark(m, "header_value") /\ m.type # "BOTH"
  BY <1>1, <1>5, <1>6, PairMark DEF IsMark, Kept, Steady
<1> HIDE DEF m, n
<1>8. /\ Pair(d, e, s, t) /\ d.state = x /\ d.type # "BOTH"
      /\ ~Failed(d) => NoMark(d)
  BY <1>1, <1>7, GotoHands
<1> HIDE DEF d, e
<1>9. Failed(e) <=> Failed(d)
  BY <1>8 DEF Pair, Even, Like, Failed
<1>10. ASSUME ~Failed(d)
       PROVE  Pair(s_header_field_start(d, ch, a), s_header_field_start(e, ch, a), s, t)
  <2>1. Steady(d)
    <3>1. x \in Plain
      BY DEF Plain, States, BodyStates, ChunkStates, SizeStates, UrlStates, Undecided
    <3> QED BY <1>8, <1>10, <3>1, PairParts DEF Steady
  <2> QED BY <1>8, <2>1, FieldStartPair
<1> QED BY <1>3, <1>4, <1>8, <1>9, <1>10

-----------------------------------------------------------------------------
(* A step of both.                                                         *)

LEMMA TransitionPair ==
    ASSUME NEW p, NEW w, NEW s, NEW t, Two(p, w, s, t), NEW ch, NEW a, a["body"] = 0
    PROVE  Pair(Transition(p, ch, a), Transition(w, ch, a), s, t)
<1> DEFINE P(q, r) == Pair(q, r, s, t)
<1>1. p.state \in States /\ w.state = p.state
  BY TwoParts DEF Typed
<1>2. /\ p.state = "s_header_field" => P(s_header_field(p, ch, a), s_header_field(w, ch, a))
      /\ p.state = "s_header_value" => P(s_header_value(p, ch, a), s_header_value(w, ch, a))
      /\ p.state \in UrlStates => P(s_req_url(p, ch, a), s_req_url(w, ch, a))
      /\ p.state \in Literals => P(literal(p, ch), literal(w, ch))
      /\ p.state = "s_req_spaces_before_url" =>
           P(s_req_spaces_before_url(p, ch), s_req_spaces_before_url(w, ch))
  BY FieldPair, ValuePair, UrlPair, LiteralPair, SpacesPair
<1>3. /\ p.state = "s_dead" => P(s_dead(p, ch), s_dead(w, ch))
      /\ p.state = "s_start_req" => P(s_start_req(p, ch, a), s_start_req(w, ch, a))
      /\ p.state = "s_start_res" => P(s_start_res(p, ch, a), s_start_res(w, ch, a))
      /\ p.state = "s_start_req_or_res" =>
           P(s_start_req_or_res(p, ch, a), s_start_req_or_res(w, ch, a))
      /\ p.state = "s_res_or_resp_H" => P(s_res_or_resp_H(p, ch), s_res_or_resp_H(w, ch))
      /\ p.state = "s_req_method" => P(s_req_method(p, ch), s_req_method(w, ch))
      /\ p.state = "s_req_http_start" => P(s_req_http_start(p, ch), s_req_http_start(w, ch))
      /\ p.state = "s_req_http_end" => P(s_req_http_end(p, ch), s_req_http_end(w, ch))
  BY StartsPair, LineQuietPair
<1>4. /\ p.state \in {"s_req_http_major", "s_res_http_major"} =>
           P(http_major(p, ch), http_major(w, ch))
      /\ p.state \in {"s_req_http_minor", "s_res_http_minor"} =>
           P(http_minor(p, ch), http_minor(w, ch))
      /\ p.state = "s_res_first_status_code" =>
           P(s_res_first_status_code(p, ch), s_res_first_status_code(w, ch))
      /\ p.state = "s_res_status_code" =>
           P(s_res_status_code(p, ch, a), s_res_status_code(w, ch, a))
      /\ p.state = "s_res_status_start" =>
           P(s_res_status_start(p, ch, a), s_res_status_start(w, ch, a))
      /\ p.state = "s_res_status" => P(s_res_status(p, ch, a), s_res_status(w, ch, a))
  BY VersionPair, LineQuietPair, StatusCodePair, StatusPair
<1>5. ASSUME p.state \in {"s_header_field_start", "s_headers_almost_done"}
      PROVE  /\ P(s_header_field_start(p, ch, a), s_header_field_start(w, ch, a))
             /\ P(s_headers_almost_done(p, ch, a), s_headers_almost_done(w, ch, a))
  <2>1. p.state \in Plain /\ p.state \notin BodyStates
    BY <1>5 DEF Plain, States, BodyStates, ChunkStates, SizeStates, UrlStates, Undecided
  <2>2. Steady(p) /\ Pair(p, w, s, t)
    BY <2>1, TwoParts, TwoPair, PlainSteady
  <2> QED BY <2>2, FieldStartPair, HeadersEndPair
<1>6. /\ p.state = "s_header_value_discard_ws" =>
           P(s_header_value_discard_ws(p, ch), s_header_value_discard_ws(w, ch))
      /\ p.state = "s_header_value_discard_lws" =>
           P(s_header_value_discard_lws(p, ch, a), s_header_value_discard_lws(w, ch, a))
      /\ p.state = "s_header_value_lws" =>
           P(s_header_value_lws(p, ch, a), s_header_value_lws(w, ch, a))
  BY DiscardPair, DiscardLwsPair, LwsPair
<1>7. /\ p.state = "s_body_identity" => P(s_body_identity(p, ch, a), s_body_identity(w, ch, a))
      /\ p.state = "s_body_identity_eof" => P(s_body_identity_eof(p), s_body_identity_eof(w))
      /\ p.state = "s_chunk_size_start" => P(s_chunk_size_start(p, ch), s_chunk_size_start(w, ch))
      /\ p.state = "s_chunk_size" => P(s_chunk_size(p, ch), s_chunk_size(w, ch))
      /\ p.state = "s_chunk_parameters" => P(s_chunk_parameters(p, ch), s_chunk_parameters(w, ch))
      /\ p.state = "s_chunk_size_almost_done" =>
           P(s_chunk_size_almost_done(p, ch, a), s_chunk_size_almost_done(w, ch, a))
      /\ p.state = "s_chunk_data" => P(s_chunk_data(p, ch), s_chunk_data(w, ch))
      /\ p.state = "s_chunk_data_almost_done" =>
           P(s_chunk_data_almost_done(p, ch, a), s_chunk_data_almost_done(w, ch, a))
      /\ p.state = "s_chunk_data_done" =>
           P(s_chunk_data_done(p, ch, a), s_chunk_data_done(w, ch, a))
  BY BodyIdentityPair, BodyEofPair, SizePair, ChunkHeaderPair, ChunkDataPair, ChunkEndPair,
     ChunkCompletePair
<1> HIDE DEF P
<1>8. P(Transition(p, ch, a), Transition(w, ch, a))
  BY <1>1, <1>2, <1>3, <1>4, <1>5, <1>6, <1>7
     DEF Transition, States, UrlStates, Literals, ReqLiteral, ResLiteral
<1> QED BY <1>8 DEF P

\* The marks move together, wherever they stand.
LEMMA StepPair ==
    ASSUME NEW p, NEW w, NEW s, NEW t, Two(p, w, s, t), NEW ch, NEW a, a["body"] = 0
    PROVE  Even(step(p, ch, a), step(w, ch, a), s, t)
<1> DEFINE q == Transition(p, ch, a)
           r == Transition(w, ch, a)
           m == [q EXCEPT !.marks = Moved(q.marks)]
           n == [r EXCEPT !.marks = Moved(r.marks)]
<1>1. Pair(q, r, s, t) /\ Done(q) /\ Done(r)
  BY TransitionPair, TransitionDone, TwoParts
<1>2. Typed(q) /\ Typed(r) /\ OneMark(q) /\ Even(q, r, s, t) /\ Like(r, q)
      /\ s \in Views /\ t \in Views
  BY <1>1 DEF Done, Good, Pair, Even
<1>3. /\ step(p, ch, a) = IF Failed(q) THEN q ELSE m
      /\ step(w, ch, a) = IF Failed(r) THEN r ELSE n
  BY <1>2, StepIs
<1> HIDE DEF q, r
<1>4. Failed(r) <=> Failed(q)
  BY <1>2, LikeParts
<1>5. ASSUME ~Failed(q) PROVE Even(m, n, s, t)
  <2>1. Look(r, t) = Look(q, s) /\ Alike(r, q)
    BY <1>1, <1>5 DEF Pair, Even
  <2>2. PICK c \in DataCallbacks : OnlyMark(q, c)
    BY <1>2 DEF OneMark
  <2>3. OnlyMark(r, c) /\ (Marked(r, c) <=> Marked(q, c))
    BY <2>1, <2>2 DEF OnlyMark, Alike
  <2>4. /\ SameMarks(m, q) /\ m.marks = Moved(q.marks) /\ m.out = q.out
        /\ SameMarks(n, r) /\ n.marks = Moved(r.marks) /\ n.out = r.out
    BY <1>2, MoveEffect
  <2>5. Like(n, m)
    BY <1>2 DEF Like, Kept, Fields
  <2> HIDE DEF m, n
  <2>6. /\ Look(m, s) = IF Marked(q, c) THEN With(Look(q, s), c, 1) ELSE Look(q, s)
        /\ Look(n, t) = IF Marked(r, c) THEN With(Look(r, t), c, 1) ELSE Look(r, t)
    BY <1>2, <2>2, <2>3, <2>4, LookMove
  <2>7. Typed(m) /\ Typed(n)
    BY <2>4 DEF SameMarks
  <2> QED BY <1>2, <2>1, <2>3, <2>5, <2>6, <2>7 DEF Even
<1> QED BY <1>2, <1>3, <1>4, <1>5

-----------------------------------------------------------------------------
(* The two parsers of one input.                                           *)

\* What on_body answers is heard at the CR after a chunk, or before it if a buffer
\* ends between them: only there could a refusal tell two cuts apart.
AcceptsBodies == \A a \in Answers : a["body"] = 0

Twins ==
    /\ Like(whole, parser)
    /\ ~Failed(parser) => View(whole, all) = View(parser, seen)

LEMMA TwinsTwo ==
    ASSUME Base, Twins, ~Failed(parser)
    PROVE  Two(parser, whole, seen, all) /\ ~Failed(whole)
<1>1. ~Failed(whole)
  BY LikeParts DEF Twins
<1>2. /\ Ready(parser) /\ Ready(whole) /\ Typed(parser) /\ Typed(whole)
      /\ parser.out = <<>> /\ whole.out = <<>> /\ seen \in Views /\ all \in Views
  BY <1>1, SoundReady DEF Base, Ready
<1>3. Look(parser, seen) = View(parser, seen) /\ Look(whole, all) = View(whole, all)
  BY <1>2, ReportNothing DEF Look
<1> QED BY <1>1, <1>2, <1>3 DEF Twins, Two, Even

LEMMA TwinsInit == Init => Twins
<1> SUFFICES ASSUME Init PROVE Twins
  OBVIOUS
<1>1. DOMAIN parser = Fields
  BY BaseInit DEF Base, Sound, Done, Good, Typed
<1> QED BY <1>1 DEF Init, Twins, Like, Kept

LEMMA TwinsFeed == AcceptsBodies /\ Base /\ Twins /\ Feed => Twins'
<1> SUFFICES ASSUME AcceptsBodies, Base, Twins, Feed PROVE Twins'
  OBVIOUS
<1>1. PICK ch, a : /\ a["body"] = 0
                   /\ parser' = Silent(step(parser, ch, a)) /\ whole' = Silent(step(whole, ch, a))
                   /\ seen' = Report(seen, step(parser, ch, a).out)
                   /\ all' = Report(all, step(whole, ch, a).out)
  <2>1. AllOK["body"] = 0
    BY DEF AllOK, Callbacks, DataCallbacks
  <2> QED BY <2>1 DEF Feed, AcceptsBodies
<1> DEFINE q == step(parser, ch, a)
           r == step(whole, ch, a)
<1>2. Two(parser, whole, seen, all)
  BY TwinsTwo DEF Feed
<1>3. Even(q, r, seen, all)
  BY <1>1, <1>2, StepPair
<1> HIDE DEF q, r
<1>4. Typed(q) /\ Typed(r) /\ Like(r, q)
  BY <1>3 DEF Even
<1> DEFINE m == Silent(q)
           n == Silent(r)
<1>5. Like(n, m) /\ (Failed(m) <=> Failed(q))
  BY <1>4 DEF Like, Kept, Silent, Failed, Fields
<1>6. m.marks = q.marks /\ n.marks = r.marks
  BY <1>4, SilentEffect
<1> HIDE DEF m, n
<1>7. /\ View(m, Report(seen, q.out)) = Look(q, seen)
      /\ View(n, Report(all, r.out)) = Look(r, all)
  BY <1>6, ViewSame DEF Look
<1>8. ~Failed(m) => View(n, Report(all, r.out)) = View(m, Report(seen, q.out))
  BY <1>3, <1>5, <1>7 DEF Even
<1>9. /\ parser' = m /\ whole' = n /\ seen' = Report(seen, q.out) /\ all' = Report(all, r.out)
  BY <1>1 DEF m, n, q, r
<1> QED BY <1>5, <1>8, <1>9 DEF Twins

LEMMA TwinsSplit == Base /\ Twins /\ Split => Twins'
<1> SUFFICES ASSUME Base, Twins, Split PROVE Twins'
  OBVIOUS
<1>1. /\ View(parser', seen') = View(parser, seen) /\ Kept(parser', parser)
      /\ parser'.errno = "OK" /\ DOMAIN parser' = Fields
  BY SplitIs
<1>2. ~Failed(parser) /\ whole' = whole /\ all' = all
  BY DEF Split
<1>3. Like(whole', parser')
  BY <1>1, <1>2 DEF Twins, Like, Kept, Failed
<1> QED BY <1>1, <1>2, <1>3 DEF Twins

LEMMA TwinsEof == Base /\ Twins /\ Eof => Twins'
<1> SUFFICES ASSUME Base, Twins, Eof PROVE Twins'
  OBVIOUS
<1> DEFINE f == flush(parser, AllOK)
           g == flush(whole, AllOK)
           q == eof(f, AllOK)
           r == eof(g, AllOK)
           m == [Silent(q) EXCEPT !.exited = TRUE]
           n == [Silent(r) EXCEPT !.exited = TRUE]
<1>1. /\ ~Failed(parser) /\ parser' = m /\ whole' = n
      /\ seen' = Report(seen, q.out) /\ all' = Report(all, r.out)
  BY DEF Eof
<1>2. /\ Ready(parser) /\ Ready(whole) /\ Like(whole, parser) /\ seen \in Views /\ all \in Views
      /\ View(whole, all) = View(parser, seen)
  BY <1>1, TwinsTwo DEF Two, Twins, Base
<1>3. /\ Typed(f) /\ Kept(f, parser) /\ f.errno = "OK" /\ NoMark(f)
      /\ Look(f, seen) = View(parser, seen)
  BY <1>2, FlushTold
<1>4. /\ Typed(g) /\ Kept(g, whole) /\ g.errno = "OK" /\ NoMark(g)
      /\ Look(g, all) = View(whole, all)
  BY <1>2, FlushTold
<1> HIDE DEF f, g
<1>5. Like(g, f)
  BY <1>2, <1>3, <1>4, TypedShape DEF Like, Kept
<1>6. Pair(f, g, seen, all) /\ ~Failed(f)
  BY <1>2, <1>3, <1>4, <1>5 DEF Pair, Even, Alike, NoMark, Failed
<1> DEFINE x == CALLBACK_NOTIFY(f, "message_complete", AllOK)
           y == CALLBACK_NOTIFY(g, "message_complete", AllOK)
           e == "INVALID_EOF_STATE"
<1>7. "message_complete" \in Callbacks /\ e \in Errors /\ e # "OK"
  BY DEF Callbacks, Errors
<1>8. Pair(x, y, seen, all) /\ NoMark(x) /\ NoMark(y)
  BY <1>3, <1>6, <1>7, PairCall
<1>9. Pair(Fail(f, e), Fail(g, e), seen, all) /\ Failed(Fail(f, e))
  <2>1. Failed(Fail(f, e))
    BY <1>3, <1>7 DEF Fail, Failed, Typed, Fields
  <2> QED BY <1>6, <1>7, <2>1, PairFail DEF Pair
<1>10. g.state = f.state
  BY <1>5 DEF Like, Kept
<1>11. /\ q = CASE f.state = "s_body_identity_eof" -> x
                [] f.state \in {"s_dead", "s_start_req_or_res", "s_start_res", "s_start_req"} -> f
                [] OTHER -> Fail(f, e)
       /\ r = CASE f.state = "s_body_identity_eof" -> y
                [] f.state \in {"s_dead", "s_start_req_or_res", "s_start_res", "s_start_req"} -> g
                [] OTHER -> Fail(g, e)
  BY <1>10 DEF eof
<1> HIDE DEF x, y, e, q, r
<1>12. Pair(q, r, seen, all) /\ (~Failed(q) => NoMark(q) /\ NoMark(r))
  BY <1>3, <1>4, <1>6, <1>8, <1>9, <1>11
<1>13. Typed(q) /\ Typed(r) /\ Like(r, q)
  BY <1>12 DEF Pair, Even
<1>14. Like(n, m) /\ (Failed(m) <=> Failed(q)) /\ m.marks = q.marks /\ n.marks = r.marks
  BY <1>13 DEF Like, Kept, Silent, Failed, Fields
<1> HIDE DEF m, n
<1>15. /\ View(m, Report(seen, q.out)) = Look(q, seen)
       /\ View(n, Report(all, r.out)) = Look(r, all)
  BY <1>14, ViewSame DEF Look
<1>16. ~Failed(m) => View(n, Report(all, r.out)) = View(m, Report(seen, q.out))
  BY <1>12, <1>14, <1>15 DEF Pair, Even
<1> QED BY <1>1, <1>14, <1>16 DEF Twins

LEMMA TwinsAlways == AcceptsBodies => (Spec => [](Base /\ Twins))
<1>1. AcceptsBodies /\ Base /\ Twins /\ [Next]_vars => Twins'
  <2>1. Twins /\ UNCHANGED vars => Twins'
    BY DEF Twins, vars
  <2> QED BY <2>1, TwinsFeed, TwinsSplit, TwinsEof DEF Next
<1> SUFFICES ASSUME AcceptsBodies PROVE Spec => [](Base /\ Twins)
  OBVIOUS
<1>2. Base /\ Twins /\ [Next]_vars => Twins'
  BY <1>1
<1> QED BY <1>2, BaseInit, BaseStep, TwinsInit, PTL DEF Spec

\* The item of HttpStream is the part of the view without its past.
LEMMA ItemIs ==
    ASSUME NEW p, Typed(p), OneMark(p), NEW s \in Views
    PROVE  Item(p, s) = [cb |-> View(p, s).cb, n |-> View(p, s).n]
<1> DEFINE marked == {c \in DataCallbacks : p.marks[c] # -1}
<1>1. PICK c \in DataCallbacks : OnlyMark(p, c)
  BY DEF OneMark
<1>2. CASE Marked(p, c)
  <2>1. marked = {c}
    BY <1>1, <1>2 DEF OnlyMark, Marked
  <2>2. (CHOOSE d \in marked : TRUE) = c /\ marked # {}
    BY <2>1
  <2>3. View(p, s) = With(s, c, p.marks[c]) /\ p.marks[c] \in Nat /\ c \in Callbacks
    BY <1>1, <1>2, MarkedView DEF Marked, Typed, Callbacks
  <2>4. /\ View(p, s).cb = c
        /\ View(p, s).n = IF s.cb = c THEN s.n + p.marks[c] ELSE p.marks[c]
    BY <2>3, WithType
  <2> HIDE DEF marked
  <2> QED BY <2>2, <2>4 DEF Item, marked
<1>3. CASE ~Marked(p, c)
  <2>1. marked = {} /\ NoMark(p)
    BY <1>1, <1>3 DEF OnlyMark, Marked, NoMark
  <2>2. View(p, s) = s
    BY <2>1, NoMarkView
  <2> HIDE DEF marked
  <2> QED BY <2>1, <2>2 DEF Item, marked
<1> QED BY <1>2, <1>3

\* Where the buffers end makes no difference, on any input and for any answers
\* of the callbacks that take the bodies they get: both parsers of httpparser.cpp
\* fail alike, or are in the same state and have read as much of the same item.
THEOREM SplitsAlike == AcceptsBodies => (Spec => []SplitInvariant)
<1>1. Base /\ Twins => SplitInvariant
  <2> SUFFICES ASSUME Base, Twins PROVE SplitInvariant
    OBVIOUS
  <2>1. /\ parser.errno = whole.errno /\ (Failed(whole) <=> Failed(parser))
        /\ \A f \in Framing : parser[f] = whole[f]
    BY DEF Twins, Like, Kept, Framing, Failed
  <2>2. ASSUME ~Failed(whole) PROVE Item(parser, seen) = Item(whole, all)
    <3>1. View(whole, all) = View(parser, seen)
      BY <2>1, <2>2 DEF Twins
    <3>2. /\ Item(parser, seen) = [cb |-> View(parser, seen).cb, n |-> View(parser, seen).n]
          /\ Item(whole, all) = [cb |-> View(whole, all).cb, n |-> View(whole, all).n]
      BY ItemIs DEF Base, Sound, Done, Good
    <3> QED BY <3>1, <3>2
  <2> QED BY <2>1, <2>2 DEF SplitInvariant
<1> QED BY <1>1, TwinsAlways, PTL
=============================================================================
