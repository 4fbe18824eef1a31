----------------------------- MODULE HttpGrammar -----------------------------
(***************************************************************************)
(* What a request is, whoever reads it: the texts the theorems about       *)
(* HttpServer are for.  It says where the parts of a text end, and how     *)
(* the headers tell the length of the body.  It says nothing of parts that *)
(* do not matter to this: a version or a header may be nonsense.           *)
(***************************************************************************)
EXTENDS HttpParser

\* The names of the methods.
Spelling ==
    [GET |-> <<"G", "ET">>, POST |-> <<"P", "OST">>, PUT |-> <<"P", "UT">>,
     HEAD |-> <<"H", "EAD">>, CONNECT |-> <<"C", "ONNECT">>, TRACE |-> <<"T", "RACE">>]

Spells(a, b) == \E m \in DOMAIN Spelling : Spelling[m] = <<a, b>>

\* An empty line ends at k; k is the end of the first one after i.
EmptyLine(t, k) == t[k] = LF /\ (t[k - 1] = LF \/ (t[k - 1] = CR /\ t[k - 2] = LF))

FirstEmpty(t, i, k) ==
    k \in (i + 1)..Len(t) /\ EmptyLine(t, k) /\ \A m \in (i + 1)..(k - 1) : ~EmptyLine(t, m)

\* The digits from a to z, and the number they spell.
Numeral(t, a, z, value) == a <= z /\ \A i \in a..z : t[i] \in DOMAIN value

Number(t, a, z, value, base) ==
    FoldLeft(LAMBDA n, ch : n * base + value[ch], 0, SubSeq(t, a, z))

Blanks(t, i, k) == \A m \in i..k : t[m] = Blank

\* The name of a header begins at k: Content-Length, and its number is v;
\* Transfer-Encoding, and its line, which ends at l, says that the body is chunked.
IsLength(t, k) ==
    /\ t[k - 1] = LF /\ Lower(t[k]) = "c" /\ t[k + 1] = "on"
    /\ t[k + 2] = "tent-length" /\ t[k + 3] = ":"

Declares(t, k, a, z, v) ==
    /\ k + 4 <= a /\ Blanks(t, k + 4, a - 1) /\ Numeral(t, a, z, Digit)
    /\ t[z + 1] \notin Num /\ Number(t, a, z, Digit, 10) = v

IsTransfer(t, k) ==
    /\ t[k - 1] = LF /\ Lower(t[k]) = "t" /\ t[k + 1] = "ransfer-encoding" /\ t[k + 2] = ":"

SaysChunked(t, k, a, l) ==
    /\ IsTransfer(t, k) /\ k + 3 <= a /\ a + 2 <= l /\ Blanks(t, k + 3, a - 1)
    /\ Lower(t[a]) = "c" /\ t[a + 1] = "hunked"
    /\ l = a + 2 \/ (l = a + 3 /\ t[a + 2] = CR)
    /\ t[l] = LF /\ t[l + 1] # Blank

\* A chunk begins at c: its size ends at d, the line with the size at e.
Chunk(t, c, d, e) ==
    /\ Numeral(t, c, d, unhex) /\ d + 2 <= e /\ t[d + 1] \notin Hex
    /\ \A k \in (d + 1)..(e - 2) : t[k] # CR
    /\ t[e - 1] = CR /\ t[e] = LF

\* The body of a text begins after h and is in chunks: these begin at C.
Chunked(t, h, C) ==
    /\ h + 1 \in C /\ \A c \in C : c \in (h + 1)..Len(t)
    /\ \A c \in C : \E d \in c..Len(t), e \in c..Len(t) :
          /\ Chunk(t, c, d, e)
          /\ LET v == Number(t, c, d, unhex, 16)
             IN  \/ v = 0 /\ FirstEmpty(t, e, Len(t))
                 \/ v > 0 /\ e + v + 3 \in C /\ t[e + v + 1] = CR /\ t[e + v + 2] = LF

\* The body is as long as the headers say, all of them; without any it is empty.
\* A GET has no body.
LengthGiven(t, u, h) ==
    /\ \A k \in (u + 2)..(h - 1) : ~IsTransfer(t, k)
    /\ Len(t) > h => \E k \in (u + 2)..(h - 1) : IsLength(t, k)
    /\ \A k \in (u + 2)..(h - 1) : IsLength(t, k) =>
          \E a \in k..(h - 1), z \in k..(h - 1) : Declares(t, k, a, z, Len(t) - h)

InChunksGiven(t, u, h) ==
    /\ \A k \in (u + 2)..(h - 1) : ~IsLength(t, k)
    /\ \E k \in (u + 2)..(h - 1), a \in (u + 2)..(h - 1), l \in (u + 2)..(h - 1) :
          SaysChunked(t, k, a, l)
    /\ \E C \in SUBSET {k \in (h + 1)..Len(t) : t[k - 1] = LF} : Chunked(t, h, C)

\* The url of a request ends at u, its head at h.
Parts(r, u, h) ==
    /\ u \in 4..(Len(r.text) - 1) /\ r.url = SubSeq(r.text, 4, u)
    /\ \A k \in 4..u : r.text[k] \notin {Blank, CR, LF}
    /\ r.text[u + 1] \in {Blank, CR, LF}
    /\ FirstEmpty(r.text, u, h)

\* No request seems to begin in the middle of one.
Single(t) ==
    \A k \in 2..(Len(t) - 2) : ~(Spells(t[k], t[k + 1]) /\ t[k + 2] = Blank)

Request(r) ==
    /\ r.text \in Seq(STRING) /\ Len(r.text) >= 5
    /\ r.method \in DOMAIN Spelling /\ Spelling[r.method] = <<r.text[1], r.text[2]>>
    /\ r.text[3] = Blank
    /\ Single(r.text)
    /\ \E u \in 1..Len(r.text), h \in 1..Len(r.text) :
         /\ Parts(r, u, h)
         /\ r.method = "GET" => h = Len(r.text)
         /\ LengthGiven(r.text, u, h) \/ (r.method # "GET" /\ InChunksGiven(r.text, u, h))

\* What a client may write.
Written(R) == R \in Seq(Range(R)) /\ \A j \in DOMAIN R : Request(R[j])

===============================================================================
