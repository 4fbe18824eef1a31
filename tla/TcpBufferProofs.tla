-------------------------- MODULE TcpBufferProofs --------------------------
(***************************************************************************)
(* TcpBuffer for any capacities and any handler.  A buffer is taken apart  *)
(* into its fields; the arithmetic of the two memcpy's is in Behind and    *)
(* Moved, what memcpy does in Copy, and addData and removeData are shown   *)
(* to keep the invariant each on its own.  The last part shows that the    *)
(* buffer is the queue of ByteQueue: by the invariant its window is known  *)
(* from its length and the number of bytes received alone.                 *)
(***************************************************************************)
EXTENDS TcpBuffer, TLAPS, SequenceTheorems

Bytes(c) == [0..(c - 1) -> Nat]

\* The l bytes from p on are the last l of the first g bytes received.
Window(p, l, mem, g) == \A i \in 0..(l - 1) : mem[p + i] = g - l + 1 + i

\* m is dst, of c bytes, with n bytes of src copied over it.
Copied(m, c, dst, to, src, from, n) ==
    \A i \in 0..(c - 1) :
      m[i] = IF i < to \/ to + n <= i THEN dst[i] ELSE src[from + i - to]

\* TypeOK, WindowIsLatest and Bounded of the fields of a buffer.  The window holds
\* received bytes, so it is not longer than their number, and removeData keeps the
\* dead space before it shorter than it: an overflow needs that much unconsumed.
Fields(p, l, c, mem, g) ==
    /\ p \in Nat /\ l \in Nat /\ c \in Nat /\ mem \in Bytes(c)
    /\ p + l <= c
    /\ c < MaxCapacity + Chunk
    /\ p = 0 \/ p < l
    /\ l <= g
    /\ Window(p, l, mem, g)

BufInv(b, g) ==
    /\ b = Buf(b.pos, b.len, b.capacity, b.mem)
    /\ Fields(b.pos, b.len, b.capacity, b.mem, g)

\* A buffer whose fields satisfy the invariant satisfies it.
LEMMA Whole ==
    ASSUME NEW p, NEW l, NEW c, NEW mem, NEW g, Fields(p, l, c, mem, g)
    PROVE  BufInv(Buf(p, l, c, mem), g)
BY DEF Buf, BufInv

\* memcpy of n bytes that are there, without overlap, copies them.
LEMMA Copy ==
    ASSUME NEW c \in Nat, NEW d \in Nat, NEW to \in Nat, NEW from \in Nat, NEW n \in Nat,
           NEW dst \in Bytes(c), NEW src \in Bytes(d), from + n <= d,
           NEW same, ~same \/ to + n <= from
    PROVE  /\ memcpy(dst, to, src, from, n, same) \in Bytes(c)
           /\ Copied(memcpy(dst, to, src, from, n, same), c, dst, to, src, from, n)
<1>1. ~(same /\ from < to + n /\ to < from + n)
  OBVIOUS
<1>2. DOMAIN dst = 0..(c - 1)
  BY DEF Bytes
<1>3. memcpy(dst, to, src, from, n, same) =
        [i \in 0..(c - 1) |-> IF i < to \/ to + n <= i THEN dst[i] ELSE src[from + i - to]]
  BY <1>1, <1>2, Zenon DEF memcpy
<1>4. ASSUME NEW i \in 0..(c - 1), ~(i < to \/ to + n <= i)
      PROVE  src[from + i - to] \in Nat
  <2>1. from + i - to \in 0..(d - 1)
    BY <1>4
  <2> QED BY <2>1 DEF Bytes
<1>5. \A i \in 0..(c - 1) : dst[i] \in Nat
  BY DEF Bytes
<1> QED BY <1>3, <1>4, <1>5 DEF Bytes, Copied

\* n more bytes copied behind the window extend it.
LEMMA Behind ==
    ASSUME NEW p \in Nat, NEW l \in Nat, NEW c \in Nat, NEW n \in Nat, NEW g \in Nat,
           p + l + n <= c,
           NEW mem, Window(p, l, mem, g),
           NEW data, Window(0, n, data, g + n),
           NEW m, Copied(m, c, mem, p + l, data, 0, n)
    PROVE  Window(p, l + n, m, g + n)
<1>1. ASSUME NEW i \in 0..(l + n - 1) PROVE m[p + i] = (g + n) - (l + n) + 1 + i
  <2>1. p + i \in 0..(c - 1)
    OBVIOUS
  <2>2. m[p + i] = IF p + i < p + l \/ p + l + n <= p + i THEN mem[p + i]
                   ELSE data[0 + (p + i) - (p + l)]
    BY <2>1 DEF Copied
  <2>3. CASE i < l
    <3>1. mem[p + i] = g - l + 1 + i
      BY <2>3 DEF Window
    <3> QED BY <2>2, <2>3, <3>1
  <2>4. CASE l <= i
    <3>1. /\ 0 + (p + i) - (p + l) = 0 + (i - l)
          /\ i - l \in 0..(n - 1)
      BY <2>4
    <3>2. data[0 + (i - l)] = (g + n) - n + 1 + (i - l)
      BY <3>1 DEF Window
    <3> QED BY <2>2, <2>4, <3>1, <3>2
  <2> QED BY <2>3, <2>4
<1> QED BY <1>1 DEF Window

\* The window copied to the start of an array is the same window.
LEMMA Moved ==
    ASSUME NEW p \in Nat, NEW l \in Nat, NEW c \in Nat, NEW g \in Nat, l <= c,
           NEW mem, Window(p, l, mem, g),
           NEW dst, NEW m, Copied(m, c, dst, 0, mem, p, l)
    PROVE  Window(0, l, m, g)
<1>1. ASSUME NEW i \in 0..(l - 1) PROVE m[0 + i] = g - l + 1 + i
  <2>1. i \in 0..(c - 1) /\ 0 + i = i /\ p + i - 0 = p + i /\ ~(i < 0 \/ 0 + l <= i)
    OBVIOUS
  <2>2. m[i] = mem[p + i]
    BY <2>1 DEF Copied
  <2>3. mem[p + i] = g - l + 1 + i
    BY DEF Window
  <2> QED BY <2>1, <2>2, <2>3
<1> QED BY <1>1 DEF Window

\* Appending n bytes that fit keeps the invariant.
LEMMA AppendKeeps ==
    ASSUME NEW b, NEW g \in Nat, BufInv(b, g), NEW n \in 1..Chunk,
           b.pos + b.len + n <= b.capacity,
           NEW data \in Bytes(n), Window(0, n, data, g + n)
    PROVE  BufInv(append(b, data, n), g + n)
<1> DEFINE p == b.pos
           l == b.len
           c == b.capacity
           m == memcpy(b.mem, p + l, data, 0, n, FALSE)
<1>1. /\ p \in Nat /\ l \in Nat /\ c \in Nat /\ b.mem \in Bytes(c) /\ n \in Nat
      /\ p + l \in Nat /\ 0 + n <= n /\ 0 \in Nat
      /\ Fields(p, l, c, b.mem, g) /\ Window(p, l, b.mem, g) /\ p + l + n <= c
  BY TcpBufferAssumption DEF BufInv, Fields
<1>2. append(b, data, n) = Buf(p, l + n, c, m)
  BY DEF append
<1> HIDE DEF p, l, c
<1>3. m \in Bytes(c) /\ Copied(m, c, b.mem, p + l, data, 0, n)
  BY <1>1, Copy
<1> HIDE DEF m
<1>4. Window(p, l + n, m, g + n)
  BY <1>1, <1>3, Behind
<1>5. Fields(p, l + n, c, m, g + n)
  BY <1>1, <1>3, <1>4 DEF Fields
<1> QED BY <1>2, <1>5, Whole

\* Growing keeps the invariant and makes exactly the room that is needed.
LEMMA Grow ==
    ASSUME NEW b, NEW g \in Nat, BufInv(b, g), NEW n \in 1..Chunk,
           b.capacity < MaxCapacity
    PROVE  /\ BufInv(grow(b, n), g)
           /\ grow(b, n).pos + grow(b, n).len + n <= grow(b, n).capacity
<1> DEFINE p == b.pos
           l == b.len
           d == b.pos + b.len + n
           m == memcpy(new(d), 0, b.mem, b.pos, b.len, FALSE)
<1>1. /\ p \in Nat /\ l \in Nat /\ b.capacity \in Nat /\ b.mem \in Bytes(b.capacity)
      /\ n \in Nat /\ n <= Chunk /\ MaxCapacity \in Nat /\ Chunk \in Nat
      /\ p + l <= b.capacity /\ l <= g /\ Window(p, l, b.mem, g)
  BY TcpBufferAssumption DEF BufInv, Fields
<1>2. d \in Nat /\ l <= d /\ d < MaxCapacity + Chunk /\ 0 \in Nat /\ 0 + l + n <= d
  BY <1>1
<1>3. grow(b, n) = Buf(0, l, d, m)
  BY DEF grow
<1> HIDE DEF p, l, d
<1>4. new(d) \in Bytes(d)
  BY <1>2 DEF new, Junk, Bytes
<1>5. m \in Bytes(d) /\ Copied(m, d, new(d), 0, b.mem, p, l)
  BY <1>1, <1>2, <1>4, Copy DEF p, l
<1> HIDE DEF m
<1>6. Window(0, l, m, g)
  BY <1>1, <1>2, <1>5, Moved
<1>7. Fields(0, l, d, m, g)
  BY <1>1, <1>2, <1>5, <1>6 DEF Fields
<1>8. grow(b, n).pos = 0 /\ grow(b, n).len = l /\ grow(b, n).capacity = d
  BY <1>3 DEF Buf
<1> QED BY <1>2, <1>3, <1>7, <1>8, Whole

\* addData keeps the invariant, whichever way it goes.
LEMMA AddData ==
    ASSUME NEW b, NEW g \in Nat, BufInv(b, g), NEW n \in 1..Chunk
    PROVE  BufInv(addData(b, [i \in 0..(n - 1) |-> g + 1 + i], n), g + n)
<1>1. /\ b.pos \in Nat /\ b.len \in Nat /\ b.capacity \in Nat /\ b.mem \in Bytes(b.capacity)
      /\ n \in Nat /\ MaxCapacity \in Nat /\ Chunk \in Nat
      /\ b.capacity < MaxCapacity + Chunk
  BY TcpBufferAssumption DEF BufInv, Fields
<1> DEFINE data == [i \in 0..(n - 1) |-> g + 1 + i]
<1>2. data \in Bytes(n) /\ Window(0, n, data, g + n)
  BY <1>1 DEF Bytes, Window
<1> HIDE DEF data
<1>3. CASE b.pos + b.len + n < b.capacity
  <2>1. addData(b, data, n) = append(b, data, n)
    BY <1>3 DEF addData
  <2>2. b.pos + b.len + n <= b.capacity
    BY <1>1, <1>3
  <2> QED BY <1>2, <2>1, <2>2, AppendKeeps DEF data
<1>4. CASE ~(b.pos + b.len + n < b.capacity) /\ b.capacity >= MaxCapacity
  <2>1. addData(b, data, n) = Buf(0, 0, b.capacity, b.mem)
    BY <1>4 DEF addData
  <2>2. Window(0, 0, b.mem, g + n)
    BY DEF Window
  <2>3. Fields(0, 0, b.capacity, b.mem, g + n)
    BY <1>1, <2>2 DEF Fields
  <2> QED BY <2>1, <2>3, Whole DEF data
<1>5. CASE ~(b.pos + b.len + n < b.capacity) /\ ~(b.capacity >= MaxCapacity)
  <2>1. addData(b, data, n) = append(grow(b, n), data, n)
    BY <1>5 DEF addData
  <2>2. b.capacity < MaxCapacity
    BY <1>1, <1>5
  <2>3. /\ BufInv(grow(b, n), g)
        /\ grow(b, n).pos + grow(b, n).len + n <= grow(b, n).capacity
    BY <2>2, Grow
  <2> QED BY <1>2, <2>1, <2>3, AppendKeeps DEF data
<1> QED BY <1>3, <1>4, <1>5

\* removeData keeps the invariant, also when more is claimed than there is.
LEMMA RemoveData ==
    ASSUME NEW b, NEW g \in Nat, BufInv(b, g), NEW k \in Nat \ {0}
    PROVE  BufInv(removeData(b, k), g)
<1> DEFINE l == b.len
           c == b.capacity
           q == b.pos + k
           r == b.len - k
<1>1. /\ b.pos \in Nat /\ l \in Nat /\ c \in Nat /\ b.mem \in Bytes(c)
      /\ b.pos + l <= c /\ l <= g /\ c < MaxCapacity + Chunk
      /\ Window(b.pos, l, b.mem, g)
  BY DEF BufInv, Fields
<1>2. q \in Nat /\ r \in Int /\ l - k = r /\ q + r = b.pos + l
  BY <1>1
<1>3. removeData(b, k) =
        IF r <= 0 THEN Buf(0, 0, c, b.mem)
        ELSE IF q < r THEN Buf(q, r, c, b.mem)
        ELSE Buf(0, r, c, memcpy(b.mem, 0, b.mem, q, r, TRUE))
  BY DEF removeData
<1>4. CASE r <= 0
  <2>1. Window(0, 0, b.mem, g)
    BY DEF Window
  <2>2. Fields(0, 0, c, b.mem, g)
    BY <1>1, <2>1 DEF Fields
  <2>3. removeData(b, k) = Buf(0, 0, c, b.mem)
    BY <1>3, <1>4
  <2> QED BY <2>2, <2>3, Whole
<1>5. CASE ~(r <= 0)
  <2>1. r \in Nat /\ q + r <= c /\ r <= c /\ r <= g
    BY <1>1, <1>5
  <2>2. Window(q, r, b.mem, g)
    <3>1. ASSUME NEW i \in 0..(r - 1) PROVE b.mem[q + i] = g - r + 1 + i
      <4>1. k + i \in 0..(l - 1) /\ q + i = b.pos + (k + i)
        BY <1>1
      <4>2. b.mem[b.pos + (k + i)] = g - l + 1 + (k + i)
        BY <1>1, <4>1 DEF Window
      <4>3. g - l + 1 + (k + i) = g - r + 1 + i
        BY <1>1
      <4> QED BY <4>1, <4>2, <4>3
    <3> QED BY <3>1 DEF Window
  <2> HIDE DEF l, c, q, r
  <2>3. CASE q < r
    <3>1. removeData(b, k) = Buf(q, r, c, b.mem)
      BY <1>3, <1>5, <2>3
    <3>2. Fields(q, r, c, b.mem, g)
      BY <1>1, <1>2, <2>1, <2>2, <2>3 DEF Fields
    <3> QED BY <3>1, <3>2, Whole
  <2>4. CASE ~(q < r)
    <3> DEFINE m == memcpy(b.mem, 0, b.mem, q, r, TRUE)
    <3>1. removeData(b, k) = Buf(0, r, c, m)
      BY <1>3, <1>5, <2>4
    <3>2. 0 \in Nat /\ 0 + r <= q
      BY <1>2, <2>1, <2>4
    <3>3. m \in Bytes(c) /\ Copied(m, c, b.mem, 0, b.mem, q, r)
      BY <1>1, <1>2, <2>1, <3>2, Copy
    <3> HIDE DEF m
    <3>4. Window(0, r, m, g)
      BY <1>1, <1>2, <2>1, <2>2, <3>3, Moved
    <3>5. Fields(0, r, c, m, g)
      BY <1>1, <2>1, <3>3, <3>4 DEF Fields
    <3> QED BY <3>1, <3>5, Whole
  <2> QED BY <2>3, <2>4
<1> QED BY <1>4, <1>5

IInv == got \in Nat /\ honest \in BOOLEAN /\ taken \in Nat /\ BufInv(buf, got)

\* The invariant of the specification: the induction over on_read.
LEMMA Inductive == Spec => []IInv
<1>1. Init => IInv
  <2> SUFFICES ASSUME Init PROVE BufInv(buf, got)
    BY DEF Init, IInv
  <2>1. buf = Buf(0, 0, Default, new(Default)) /\ got = 0
    BY DEF Init
  <2>2. Fields(0, 0, Default, new(Default), 0)
    BY TcpBufferAssumption DEF Fields, Bytes, Window, new, Junk
  <2> QED BY <2>1, <2>2, Whole
<1>2. IInv /\ [Next]_vars => IInv'
  <2> SUFFICES ASSUME IInv, [Next]_vars PROVE IInv'
    OBVIOUS
  <2>1. ASSUME NEW n \in 1..Chunk, OnRead(n) PROVE IInv'
    <3> DEFINE b == addData(buf, [i \in 0..(n - 1) |-> got + 1 + i], n)
    <3>1. n \in Nat /\ got' = got + n /\ honest' = GivenUnconsumed(b)
      BY <2>1, TcpBufferAssumption DEF OnRead
    <3>2. PICK handled \in 0..(b.len + 1) :
            /\ buf' = IF handled > 0 THEN removeData(b, handled) ELSE b
            /\ taken' = handled
      BY <2>1 DEF OnRead
    <3>3. BufInv(b, got + n) /\ got + n \in Nat
      BY <3>1, AddData DEF IInv
    <3> HIDE DEF b
    <3>4. handled \in Nat
      <4>1. b.len \in Nat
        BY <3>3 DEF BufInv, Fields
      <4> QED BY <4>1
    <3>5. BufInv(buf', got + n)
      BY <3>2, <3>3, <3>4, RemoveData
    <3>6. (got \in Nat /\ honest \in BOOLEAN /\ taken \in Nat)'
      BY <3>1, <3>2, <3>3, <3>4 DEF GivenUnconsumed
    <3> QED BY <3>1, <3>5, <3>6 DEF IInv, BufInv
  <2>2. CASE UNCHANGED vars
    BY <2>2 DEF vars, IInv, BufInv
  <2> QED BY <2>1, <2>2 DEF Next
<1> QED BY <1>1, <1>2, PTL DEF Spec

\* The fields of the buffer stay in their types and the capacity in its range.
THEOREM TypeCorrect == Spec => []TypeOK
<1>1. IInv => TypeOK
  BY TcpBufferAssumption DEF IInv, BufInv, Buf, Fields, Bytes, TypeOK, BufState
<1> QED BY <1>1, Inductive, PTL

\* No byte is lost, repeated or moved inside the window.
THEOREM Latest == Spec => []WindowIsLatest
<1>1. IInv => WindowIsLatest
  BY DEF IInv, BufInv, Buf, Fields, Window, WindowIsLatest
<1> QED BY <1>1, Inductive, PTL

\* The window never leaves the buffer, and the buffer stays within its limit.
THEOREM InBounds == Spec => []Bounded
<1>1. IInv => Bounded
  BY DEF IInv, BufInv, Buf, Fields, Bounded
<1> QED BY <1>1, Inductive, PTL

-----------------------------------------------------------------------------
(* The buffer implements ByteQueue.                                        *)

\* The last l of the first g bytes received.
Newest(l, g) == [i \in 1..l |-> g - l + i]

\* Two sequences of length n with the same elements are equal.
LEMMA SameSeq ==
    ASSUME NEW n \in Nat, NEW s \in Seq(Int), NEW t \in Seq(Int), Len(s) = n, Len(t) = n,
           \A i \in 1..n : s[i] = t[i]
    PROVE  s = t
<1>1. Len(s) = Len(t) /\ \A i \in 1..Len(s) : s[i] = t[i]
  OBVIOUS
<1> QED BY <1>1, SeqEqual

\* They are a sequence of their length.
LEMMA LatestIsSeq ==
    ASSUME NEW l \in Nat, NEW g \in Int
    PROVE  /\ Newest(l, g) \in Seq(Int) /\ Len(Newest(l, g)) = l
           /\ \A i \in 1..l : Newest(l, g)[i] = g - l + i
<1>1. Newest(l, g) \in [1..l -> Int]
  BY DEF Newest
<1>2. Newest(l, g) \in Seq(Int)
  BY <1>1, SeqDef
<1>3. DOMAIN Newest(l, g) = 1..l
  BY DEF Newest
<1>4. Len(Newest(l, g)) = l
  BY <1>2, <1>3, LenProperties
<1> QED BY <1>2, <1>4 DEF Newest

\* n bytes more behind the last l are the last l + n.
LEMMA LatestGrows ==
    ASSUME NEW l \in Nat, NEW g \in Int, NEW n \in Nat
    PROVE  Newest(l, g) \o Newest(n, g + n) = Newest(l + n, g + n)
<1> DEFINE s == Newest(l, g)
           t == Newest(n, g + n)
           u == Newest(l + n, g + n)
<1>1. /\ s \in Seq(Int) /\ Len(s) = l /\ \A i \in 1..l : s[i] = g - l + i
      /\ t \in Seq(Int) /\ Len(t) = n /\ \A i \in 1..n : t[i] = (g + n) - n + i
      /\ u \in Seq(Int) /\ Len(u) = l + n
      /\ \A i \in 1..(l + n) : u[i] = (g + n) - (l + n) + i
  <2>1. l + n \in Nat /\ g + n \in Int
    OBVIOUS
  <2>2. s \in Seq(Int) /\ Len(s) = l /\ \A i \in 1..l : s[i] = g - l + i
    BY LatestIsSeq
  <2>3. t \in Seq(Int) /\ Len(t) = n /\ \A i \in 1..n : t[i] = (g + n) - n + i
    BY <2>1, LatestIsSeq
  <2>4. /\ u \in Seq(Int) /\ Len(u) = l + n
        /\ \A i \in 1..(l + n) : u[i] = (g + n) - (l + n) + i
    BY <2>1, LatestIsSeq
  <2> QED BY <2>2, <2>3, <2>4
<1> HIDE DEF s, t, u
<1>2. /\ s \o t \in Seq(Int) /\ Len(s \o t) = l + n
      /\ \A i \in 1..(l + n) : (s \o t)[i] = IF i <= l THEN s[i] ELSE t[i - l]
  <2>1. /\ s \o t \in Seq(Int) /\ Len(s \o t) = Len(s) + Len(t)
        /\ \A i \in 1..(Len(s) + Len(t)) :
             (s \o t)[i] = IF i <= Len(s) THEN s[i] ELSE t[i - Len(s)]
    <3>1. s \in Seq(Int) /\ t \in Seq(Int)
      BY <1>1
    <3> QED BY <3>1, ConcatProperties, Zenon
  <2>2. Len(s) = l /\ Len(t) = n
    BY <1>1
  <2> QED BY <2>1, <2>2, Zenon
<1>3. \A i \in 1..(l + n) : (s \o t)[i] = u[i]
  <2> SUFFICES ASSUME NEW i \in 1..(l + n) PROVE (s \o t)[i] = u[i]
    OBVIOUS
  <2>1. u[i] = g - l + i
    BY <1>1
  <2>2. CASE i <= l
    <3>1. i \in 1..l
      BY <2>2
    <3>2. s[i] = g - l + i
      BY <1>1, <3>1
    <3>3. (s \o t)[i] = s[i]
      BY <1>2, <2>2
    <3> QED BY <2>1, <3>2, <3>3
  <2>3. CASE ~(i <= l)
    <3>1. i - l \in 1..n
      BY <2>3
    <3>2. t[i - l] = g - l + i
      BY <1>1, <3>1
    <3>3. t[i - l] = (s \o t)[i]
      BY <1>2, <2>3
    <3> QED BY <2>1, <3>2, <3>3
  <2> QED BY <2>2, <2>3
<1>4. s \o t = u
  <2>1. l + n \in Nat
    OBVIOUS
  <2> QED BY <1>1, <1>2, <1>3, <2>1, SameSeq
<1> QED BY <1>4 DEF s, t, u

\* The last l without the oldest k of them are the last l - k.
LEMMA LatestShrinks ==
    ASSUME NEW l \in Nat, NEW g \in Int, NEW k \in 0..l
    PROVE  SubSeq(Newest(l, g), k + 1, l) = Newest(l - k, g)
<1> DEFINE s == Newest(l, g)
           u == Newest(l - k, g)
<1>1. /\ s \in Seq(Int) /\ Len(s) = l /\ \A i \in 1..l : s[i] = g - l + i
      /\ u \in Seq(Int) /\ Len(u) = l - k /\ \A i \in 1..(l - k) : u[i] = g - (l - k) + i
  <2>1. l - k \in Nat
    OBVIOUS
  <2>2. s \in Seq(Int) /\ Len(s) = l /\ \A i \in 1..l : s[i] = g - l + i
    BY LatestIsSeq
  <2>3. /\ u \in Seq(Int) /\ Len(u) = l - k
        /\ \A i \in 1..(l - k) : u[i] = g - (l - k) + i
    BY <2>1, LatestIsSeq
  <2> QED BY <2>2, <2>3
<1> HIDE DEF s, u
<1> DEFINE t == SubSeq(s, k + 1, l)
<1>2. /\ t \in Seq(Int) /\ Len(t) = IF k + 1 <= l THEN l - (k + 1) + 1 ELSE 0
      /\ \A i \in 1..(l - (k + 1) + 1) : t[i] = s[(k + 1) + i - 1]
  <2>1. k + 1 \in Int /\ l \in Int /\ \A i \in (k + 1)..l : s[i] \in Int
    BY <1>1
  <2> QED BY <2>1, SubSeqProperties
<1> HIDE DEF t
<1>3. Len(t) = l - k
  <2>1. Len(t) = IF k + 1 <= l THEN l - (k + 1) + 1 ELSE 0
    BY <1>2
  <2>2. (IF k + 1 <= l THEN l - (k + 1) + 1 ELSE 0) = l - k
    OBVIOUS
  <2> QED BY <2>1, <2>2
<1>4. \A i \in 1..(l - k) : t[i] = u[i]
  <2> SUFFICES ASSUME NEW i \in 1..(l - k) PROVE t[i] = u[i]
    OBVIOUS
  <2>1. /\ i \in 1..(l - (k + 1) + 1) /\ (k + 1) + i - 1 = k + i /\ k + i \in 1..l
    OBVIOUS
  <2>2. t[i] = s[k + i]
    BY <1>2, <2>1
  <2>3. s[k + i] = g - l + (k + i)
    BY <1>1, <2>1
  <2> QED BY <1>1, <2>2, <2>3
<1>5. t = u
  <2>1. l - k \in Nat
    OBVIOUS
  <2> QED BY <1>1, <1>2, <1>3, <1>4, <2>1, SameSeq
<1> QED BY <1>5 DEF s, t, u

\* The queue of a buffer that satisfies the invariant.
LEMMA QueueIsLatest ==
    ASSUME NEW b, NEW g \in Nat, BufInv(b, g)
    PROVE  [i \in 1..b.len |-> b.mem[b.pos + i - 1]] = Newest(b.len, g)
<1>1. b.pos \in Nat /\ b.len \in Nat /\ Window(b.pos, b.len, b.mem, g)
  BY DEF BufInv, Fields
<1>2. ASSUME NEW i \in 1..b.len PROVE b.mem[b.pos + i - 1] = g - b.len + i
  <2>1. i - 1 \in 0..(b.len - 1) /\ b.pos + i - 1 = b.pos + (i - 1)
    BY <1>1
  <2>2. b.mem[b.pos + (i - 1)] = g - b.len + 1 + (i - 1)
    BY <1>1, <2>1 DEF Window
  <2> QED BY <1>1, <2>1, <2>2
<1> QED BY <1>2 DEF Newest

\* addData appends, or drops everything when more than half of the limit is used.
LEMMA AddDataLength ==
    ASSUME NEW b, NEW g \in Nat, BufInv(b, g), NEW n \in 1..Chunk, NEW data
    PROVE  \/ addData(b, data, n).len = b.len + n
           \/ /\ addData(b, data, n).len = 0
              /\ 2 * b.len + n > MaxCapacity
<1>1. /\ b.pos \in Nat /\ b.len \in Nat /\ b.capacity \in Nat
      /\ b.pos = 0 \/ b.pos < b.len
      /\ n \in Nat \ {0} /\ MaxCapacity \in Nat /\ n < MaxCapacity
  BY TcpBufferAssumption DEF BufInv, Fields
<1>2. CASE b.pos + b.len + n < b.capacity
  BY <1>2 DEF addData, append, Buf
<1>3. CASE ~(b.pos + b.len + n < b.capacity) /\ b.capacity >= MaxCapacity
  <2>1. addData(b, data, n).len = 0
    BY <1>3 DEF addData, Buf
  <2>2. b.pos + b.len + n >= MaxCapacity
    BY <1>1, <1>3
  <2> QED BY <1>1, <2>1, <2>2
<1>4. CASE ~(b.pos + b.len + n < b.capacity) /\ ~(b.capacity >= MaxCapacity)
  BY <1>4 DEF addData, append, grow, Buf
<1> QED BY <1>2, <1>3, <1>4

\* removeData takes what the handler claims, or everything.
LEMMA RemoveDataLength ==
    ASSUME NEW b, b.len \in Nat, NEW k \in Nat
    PROVE  removeData(b, k).len = IF k >= b.len THEN 0 ELSE b.len - k
BY DEF removeData, Buf

\* on_read is a step of the queue.
LEMMA QueueStep ==
    ASSUME IInv, IInv', NEW n \in 1..Chunk, OnRead(n)
    PROVE  Queue!Next
<1> DEFINE l == buf.len
           b == addData(buf, [i \in 0..(n - 1) |-> got + 1 + i], n)
           q == [i \in 1..buf.len |-> buf.mem[buf.pos + i - 1]]
<1>1. /\ got \in Nat /\ BufInv(buf, got) /\ n \in Nat \ {0} /\ l \in Nat
      /\ BufInv(b, got + n) /\ b.len \in Nat
  <2>1. got \in Nat /\ BufInv(buf, got) /\ n \in Nat \ {0} /\ l \in Nat
    BY TcpBufferAssumption DEF IInv, BufInv, Fields
  <2>2. BufInv(b, got + n)
    BY <2>1, AddData
  <2> QED BY <2>1, <2>2 DEF BufInv, Fields
<1>2. /\ got' = got + n
      /\ \E handled \in 0..(b.len + 1) :
           buf' = (IF handled > 0 THEN removeData(b, handled) ELSE b) /\ taken' = handled
  BY DEF OnRead
<1>3. PICK k \in 0..(b.len + 1) :
        buf' = (IF k > 0 THEN removeData(b, k) ELSE b) /\ taken' = k
  BY <1>2
<1>4. b.len = l + n \/ (b.len = 0 /\ 2 * l + n > MaxCapacity)
  BY <1>1, AddDataLength
<1> HIDE DEF b
<1>5. buf'.len = IF k >= b.len THEN 0 ELSE b.len - k
  BY <1>1, <1>3, RemoveDataLength
<1>6. q = Newest(l, got)
  BY <1>1, QueueIsLatest
<1>7. q' = Newest(buf'.len, got + n)
  <2>1. got' \in Nat /\ BufInv(buf', got')
    BY DEF IInv
  <2> QED BY <1>2, <2>1, QueueIsLatest
<1>8. Queue!Received(n) = Newest(n, got + n)
  BY <1>1 DEF Queue!Received, Newest
<1> HIDE DEF l
<1>a. l + n \in Nat /\ got \in Int /\ got + n \in Int /\ n \in Nat
  BY <1>1
<1>9. q \o Queue!Received(n) = Newest(l + n, got + n)
  <2>1. Newest(l, got) \o Newest(n, got + n) = Newest(l + n, got + n)
    BY <1>1, <1>a, LatestGrows
  <2> QED BY <1>6, <1>8, <2>1 DEF l
<1>10. Len(q) = l /\ Len(Newest(l + n, got + n)) = l + n
  <2>1. Len(Newest(l, got)) = l /\ Len(Newest(l + n, got + n)) = l + n
    BY <1>1, <1>a, LatestIsSeq
  <2> QED BY <1>6, <2>1 DEF l
<1>11. Newest(0, got + n) = <<>>
  <2>1. Newest(0, got + n) \in Seq(Int) /\ Len(Newest(0, got + n)) = 0
    <3>1. 0 \in Nat
      OBVIOUS
    <3> QED BY <1>a, <3>1, LatestIsSeq
  <2> QED BY <2>1, EmptySeq
<1> HIDE DEF q
<1>b. taken' = k /\ k \in Nat
  BY <1>1, <1>3
<1>12. ASSUME q' = Queue!Rest(q \o Queue!Received(n), k)
       PROVE  Queue!Read(n)
  BY <1>2, <1>b, <1>12 DEF Queue!Read, q
<1>13. CASE b.len = l + n
  <2>1. CASE k = b.len + 1
    <3>1. q' = <<>>
      BY <1>1, <1>5, <1>7, <1>11, <2>1
    <3>2. Queue!Rest(q \o Queue!Received(n), k) = <<>>
      BY <1>1, <1>9, <1>10, <1>13, <2>1 DEF Queue!Rest
    <3>3. Queue!Read(n)
      BY <1>12, <3>1, <3>2
    <3> QED BY <3>3 DEF Queue!Next
  <2>2. CASE k # b.len + 1
    <3>1. k \in 0..(l + n) /\ buf'.len = (l + n) - k
      BY <1>1, <1>5, <1>13, <2>2
    <3>2. Queue!Rest(q \o Queue!Received(n), k) = SubSeq(Newest(l + n, got + n), k + 1, l + n)
      BY <1>1, <1>9, <1>10, <3>1 DEF Queue!Rest
    <3>a. SubSeq(Newest(l + n, got + n), k + 1, l + n) = Newest((l + n) - k, got + n)
      <4> DEFINE m == l + n
                 g == got + n
      <4>1. m \in Nat /\ g \in Int /\ k \in 0..m
        BY <1>a, <3>1
      <4> HIDE DEF m, g
      <4>2. SubSeq(Newest(m, g), k + 1, m) = Newest(m - k, g)
        BY <4>1, LatestShrinks
      <4> QED BY <4>2 DEF m, g
    <3>3. q' = Queue!Rest(q \o Queue!Received(n), k)
      BY <1>7, <3>1, <3>2, <3>a
    <3>4. Queue!Read(n)
      BY <1>12, <3>3
    <3> QED BY <3>4 DEF Queue!Next
  <2> QED BY <2>1, <2>2
<1>14. CASE b.len = 0
  <2>1. q' = <<>>
    BY <1>5, <1>7, <1>11, <1>14
  <2>2. 2 * l + n > MaxCapacity
    BY <1>1, <1>4, <1>14
  <2>3. Queue!Overflow(n)
    BY <1>2, <1>b, <1>10, <2>1, <2>2 DEF Queue!Overflow, q
  <2> QED BY <2>3 DEF Queue!Next
<1> QED BY <1>4, <1>13, <1>14

\* Implements: the receive buffer is a queue of the bytes that were received and
\* not taken by the handler, and loses bytes that were not taken only when more
\* than half of its limit is in use.
THEOREM BufferIsQueue == Spec => Implements
<1>1. Init => Queue!Init
  BY DEF Init, Buf, Queue!Init
<1>2. IInv /\ IInv' /\ [Next]_vars => [Queue!Next]_(Queue!vars)
  BY QueueStep DEF Next, vars, Queue!vars
<1>3. Spec => []IInv
  BY Inductive
<1> QED BY <1>1, <1>2, <1>3, PTL DEF Spec, Implements, Queue!Spec
=============================================================================
