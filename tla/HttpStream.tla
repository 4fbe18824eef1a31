----------------------------- MODULE HttpStream -----------------------------
(***************************************************************************)
(* The parser of HttpParser on an input that comes in buffers.             *)
(***************************************************************************)
EXTENDS HttpParser

CONSTANTS
    Types,        \* what the application asked for: REQUEST, RESPONSE, BOTH
    Alphabet,     \* the symbols of the input, for each of them and of a HEAD request
    Statuses,     \* bound: the codes of responses
    Answers,      \* what the callbacks return: functions on Callbacks
    MaxItem,      \* bound, for each of them: symbols of a url, a reason, a field or a
                  \* value, and of a body without a length
    Lengths       \* bound: lengths of bodies and of chunks, of those that are in range

ASSUME HttpStreamAssumption ==
    /\ Answers \subseteq [Callbacks -> Nat] /\ AllOK \in Answers
    /\ Types \subseteq DOMAIN Start /\ MaxItem \in [Types -> Nat]
    /\ Statuses \subseteq Nat /\ Lengths \subseteq Nat

-----------------------------------------------------------------------------
(* Two parsers read the same input: `parser' in buffers that end anywhere, *)
(* `whole' in a single one.                                                *)

VARIABLES
    parser, whole,
    seen, all,   \* the last item each of them has reported, see Report
    want         \* the length of the body or chunk, as it was written

vars == <<parser, whole, seen, all, want>>

\* An item is one notification, or the data of consecutive callbacks.  `after'
\* is the item before it.
Nothing == [cb |-> "none", n |-> 0, after |-> [cb |-> "none", n |-> 0], ordered |-> TRUE]

\* The order of callbacks.
Follows ==
    [none |-> {"message_begin"}, message_begin |-> {"url", "status"},
     status |-> {"header_field", "headers_complete"},
     url |-> {"header_field", "headers_complete"}, header_field |-> {"header_value"},
     header_value |-> {"header_field", "headers_complete", "chunk_complete"},
     headers_complete |-> {"body", "chunk_header", "message_complete"},
     chunk_header |-> {"body", "header_field", "chunk_complete"},
     body |-> {"chunk_complete", "message_complete"},
     chunk_complete |-> {"chunk_header", "message_complete"},
     message_complete |-> {"message_begin"}]

\* The item after one more callback.
Add(t, e) ==
    IF e.cb = t.cb /\ e.cb \in DataCallbacks THEN [t EXCEPT !.n = @ + e.n]
    ELSE [cb |-> e.cb, n |-> e.n, ordered |-> t.ordered /\ e.cb \in Follows[t.cb],
          after |-> [cb |-> t.cb, n |-> IF t.cb = "body" THEN t.n ELSE 0]]

Report(s, out) == FoldLeft(Add, s, out)

\* What has been read of the current item: reported, or marked only.
Item(p, s) ==
    LET marked == {c \in DataCallbacks : p.marks[c] # -1}
        c == CHOOSE c \in marked : TRUE
    IN  CASE marked = {} -> [cb |-> s.cb, n |-> s.n]
          [] marked # {} /\ s.cb = c -> [cb |-> c, n |-> s.n + p.marks[c]]
          [] OTHER -> [cb |-> c, n |-> p.marks[c]]

Silent(p) == [p EXCEPT !.out = <<>>]

Declared(p, q, ch) ==
    IF Failed(q) THEN want
    ELSE IF p.state \in {Start[t] : t \in DOMAIN Start} /\ p.state # q.state THEN 0
    ELSE IF /\ q.state = "s_header_value" /\ q.header = "content_length_num"
            /\ ch \in Num /\ "TRAILING" \notin p.flags
    THEN (IF p.header = "content_length" THEN 0 ELSE want) * 10 + Digit[ch]
    ELSE IF p.state = "s_chunk_size_start" /\ ch \in Hex THEN unhex[ch]
    ELSE IF p.state = "s_chunk_size" /\ ch \in Hex THEN want * 16 + unhex[ch]
    ELSE want

Init ==
    /\ parser \in {begin(http_parser_init(t)) : t \in Types} /\ whole = parser
    /\ seen = Nothing /\ all = Nothing
    /\ want = 0

InBody == parser.state \in {"s_body_identity", "s_chunk_data"}

UntilEof == parser.state = "s_body_identity_eof"

\* The digits of a code that are read so far, as a number, for each of Statuses.
Codes == {n \div k : n \in Statuses, k \in {1, 10, 100, 1000}}

CodeWith(ch) ==
    (IF parser.state = "s_res_status_code" THEN parser.status_code * 10 ELSE 0) + Digit[ch]

Readable == Alphabet[IF parser.method = "HEAD" THEN "HEAD" ELSE parser.type]

\* Where the parser compares with no name, letters are alike.
Unnamed ==
    \/ parser.state \in UrlStates
    \/ parser.state \in {"s_header_field", "s_header_value"} /\ parser.header = "general"

\* All symbols of a body are alike.
Inputs ==
    CASE InBody \/ UntilEof -> {"x"}
      [] Unnamed -> Readable \ (Letters \ {"H"})
      [] parser.state \in {"s_res_first_status_code", "s_res_status_code"} ->
            {ch \in Readable : IF ch \in Num THEN CodeWith(ch) \in Codes
                ELSE parser.state = "s_res_status_code" => parser.status_code \in Statuses}
      [] OTHER -> Readable

InLine == Item(whole, all).cb \in {"url", "status", "header_field", "header_value"}

Feed ==
    /\ ~Failed(parser) /\ ~Failed(whole) /\ ~parser.exited
    /\ InLine \/ UntilEof => Item(whole, all).n < MaxItem[parser.type]
    /\ \E ch \in Inputs :
         LET quiet == step(whole, ch, AllOK).out = <<>> /\ step(parser, ch, AllOK).out = <<>>
         IN  \E a \in (IF quiet THEN {AllOK} ELSE Answers) :
               LET p == step(parser, ch, a)
                   w == step(whole, ch, a)
               IN  /\ parser' = Silent(p) /\ whole' = Silent(w)
                   /\ seen' = Report(seen, p.out) /\ all' = Report(all, w.out)
                   /\ want' = Declared(parser, p, ch)
                   /\ want' \in Lengths \/ want' > ULLONG_MAX

\* A buffer ends, the next one begins.  None is empty.  As a bound, a body is cut
\* after its first byte and before its last one only.
Split ==
    /\ ~Failed(parser) /\ ~Failed(whole) /\ ~parser.exited
    /\ \A c \in DataCallbacks : parser.marks[c] # 0
    /\ InBody => Item(parser, seen).n = 1 \/ parser.content_length = 1
    /\ LET p == flush(parser, AllOK)
       IN  parser' = begin(p) /\ seen' = Report(seen, p.out)
    /\ UNCHANGED <<whole, all, want>>

\* The connection ends after a buffer.  As a bound, not in the middle of a line.
Eof ==
    /\ ~Failed(parser) /\ ~Failed(whole) /\ ~parser.exited /\ ~InLine
    /\ \A c \in DataCallbacks : parser.marks[c] # 0
    /\ LET p == eof(flush(parser, AllOK), AllOK)
           w == eof(flush(whole, AllOK), AllOK)
       IN  /\ parser' = [Silent(p) EXCEPT !.exited = TRUE]
           /\ whole' = [Silent(w) EXCEPT !.exited = TRUE]
           /\ seen' = Report(seen, p.out) /\ all' = Report(all, w.out)
    /\ UNCHANGED want

Next == Feed \/ Split \/ Eof

Spec == Init /\ [][Next]_vars

-----------------------------------------------------------------------------
ParserState ==
    [type : DOMAIN Start, status_code : 0..999, state : States,
     header : HeaderStates, flags : SUBSET Flags,
     method : {"DELETE"} \cup DOMAIN method_strings, index : 0..2,
     content_length : 0..ULLONG_MAX, http_major : Nat, http_minor : Nat,
     upgrade : BOOLEAN, errno : Errors, marks : [DataCallbacks -> Int],
     exited : BOOLEAN, out : {<<>>}]

TypeOK ==
    /\ parser \in ParserState /\ whole \in ParserState
    /\ {seen.cb, all.cb} \subseteq Callbacks \cup {"none"}
    /\ want \in Nat

Framing == {"type", "status_code", "state",
            "header", "flags", "method", "content_length", "upgrade", "exited"}

\* How the input is cut into buffers makes no difference: the parser is in the
\* same state, and has handed over or marked the same bytes of the same item.
SplitInvariant ==
    /\ parser.errno = whole.errno
    /\ ~Failed(whole) => /\ \A f \in Framing : parser[f] = whole[f]
                         /\ Item(parser, seen) = Item(whole, all)

\* Callbacks come in the order of Follows: a value after its field, no body
\* before the headers are complete, one message_complete for each message_begin.
CallbackOrder == seen.ordered

\* A chunk or a message ends after exactly the bytes that its length, as it was
\* written, says, unless the headers made it end without a body.
BodyAsDeclared ==
    \/ seen.cb = "chunk_complete" /\ parser.state = "s_chunk_size_start"
    \/ seen.cb = "message_complete" /\ ~Failed(parser)
    =>
        CASE UntilEof -> parser.type = "RESPONSE" /\ parser.exited
          [] ~UntilEof /\ seen.after.cb = "body" -> seen.after.n = want
          [] ~UntilEof /\ seen.after.cb = "headers_complete" ->
                want = 0 \/ "SKIPBODY" \in parser.flags \/ parser.upgrade
          [] OTHER -> TRUE

\* Assertions of sn_http_parser_execute: at most one mark is set at its end, a body that
\* is read has bytes left, a chunk that is over has none, chunks are read in chunked
\* messages only, and a value of a header the parser knows is not read with
\* header_state still at its name.
AssertionsHold ==
    /\ parser.errno # "ASSERT"
    /\ Cardinality({c \in DataCallbacks : whole.marks[c] # -1}) <= 1
    /\ InBody /\ ~Failed(parser) => parser.content_length \in 1..(ULLONG_MAX - 1)
    /\ parser.state = "s_chunk_data_almost_done" /\ ~Failed(parser) =>
            parser.content_length = 0
    /\ parser.state \in {"s_chunk_size_start", "s_chunk_size", "s_chunk_parameters",
            "s_chunk_size_almost_done", "s_chunk_data", "s_chunk_data_almost_done",
            "s_chunk_data_done"} => "CHUNKED" \in parser.flags
=============================================================================
