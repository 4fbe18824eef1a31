----------------------------- MODULE TcpBuffer -----------------------------
(***************************************************************************)
(* The receive buffer of a TcpLink (src/src/tcplink.cpp): addData and      *)
(* removeData as on_read calls them around the handler's on_data.  The     *)
(* n-th byte the link ever received is the number n, so that a byte lost,  *)
(* repeated or moved shows.  An action is one on_read with nread > 0.      *)
(***************************************************************************)
EXTENDS Integers

CONSTANTS
    Default,       \* TCP_LINK_BUFFER_DEFAULT
    MaxCapacity,   \* TCP_LINK_BUFFER_MAX
    Chunk,         \* most bytes of a read: the size of s_pStaticBuf
    MaxBytes       \* bound: bytes received in a behaviour

ASSUME TcpBufferAssumption ==
    /\ Default \in Nat /\ MaxCapacity \in Nat /\ Chunk \in Nat /\ MaxBytes \in Nat
    /\ 0 < Chunk /\ Chunk <= Default /\ Default <= MaxCapacity /\ Chunk < MaxCapacity

VARIABLES
    buf,     \* m_nPos, m_nLen, m_nCapacity and the bytes of m_pBuffer
    got,     \* bytes received so far
    honest,  \* the last on_data was given the bytes not yet consumed
    taken    \* history: what the last on_data returned, the bytes it took

vars == <<buf, got, honest, taken>>

Junk == 0    \* uninitialised memory, or the target of a memcpy that overlaps

BufState(c) == [pos : Nat, len : Nat, capacity : {c}, mem : [0..(c - 1) -> Nat]]

TypeOK ==
    /\ \E c \in 0..(MaxCapacity + Chunk) : buf \in BufState(c)
    /\ got \in Nat
    /\ honest \in BOOLEAN
    /\ taken \in Nat

Buf(pos, len, capacity, mem) ==
    [pos |-> pos, len |-> len, capacity |-> capacity, mem |-> mem]

new(capacity) == [i \in 0..(capacity - 1) |-> Junk]

Init ==
    /\ buf = Buf(0, 0, Default, new(Default))
    /\ got = 0
    /\ honest = TRUE
    /\ taken = 0

\* memcpy of n bytes; `same' says that source and target are one array.
memcpy(dst, to, src, from, n, same) ==
    LET overlap == same /\ from < to + n /\ to < from + n
    IN  [i \in DOMAIN dst |-> IF i < to \/ to + n <= i THEN dst[i]
                              ELSE IF overlap THEN Junk ELSE src[from + i - to]]

-----------------------------------------------------------------------------
grow(b, n) ==
    LET c == b.pos + b.len + n
    IN  Buf(0, b.len, c, memcpy(new(c), 0, b.mem, b.pos, b.len, FALSE))

append(b, data, n) ==
    Buf(b.pos, b.len + n, b.capacity,
        memcpy(b.mem, b.pos + b.len, data, 0, n, FALSE))

\* Mutant: no limit.
addData_NoLimit(b, data, n) ==
    append(IF b.pos + b.len + n >= b.capacity THEN grow(b, n) ELSE b, data, n)

\* Mutant: the limit of a buffer that was never grown.
addData_Early(b, data, n) ==
    IF b.pos + b.len + n < b.capacity THEN append(b, data, n)
    ELSE IF b.capacity >= Default THEN Buf(0, 0, b.capacity, b.mem)
    ELSE append(grow(b, n), data, n)

\* Everything is dropped, the new bytes too, when a full-sized buffer is full.
addData(b, data, n) ==
    IF b.pos + b.len + n < b.capacity THEN append(b, data, n)
    ELSE IF b.capacity >= MaxCapacity THEN Buf(0, 0, b.capacity, b.mem)
    ELSE append(grow(b, n), data, n)

\* Mutant: m_nPos is moved back too early.
removeData_Eager(b, k) ==
    LET pos == b.pos + k
        len == b.len - k
    IN  IF len <= 0 THEN Buf(0, 0, b.capacity, b.mem)
        ELSE Buf(0, len, b.capacity, memcpy(b.mem, 0, b.mem, pos, len, TRUE))

removeData(b, k) ==
    LET pos == b.pos + k
        len == b.len - k
    IN  IF len <= 0 THEN Buf(0, 0, b.capacity, b.mem)
        ELSE IF pos < len THEN Buf(pos, len, b.capacity, b.mem)
        ELSE Buf(0, len, b.capacity, memcpy(b.mem, 0, b.mem, pos, len, TRUE))

\* What on_data is given: m_pBuffer, not m_pBuffer + m_nPos.
GivenUnconsumed(b) == \A i \in 0..(b.len - 1) : b.mem[i] = b.mem[b.pos + i]

\* The handler takes any number of bytes, or claims more than there are.
OnRead(n) ==
    /\ got + n <= MaxBytes
    /\ got' = got + n
    /\ LET b == addData(buf, [i \in 0..(n - 1) |-> got + 1 + i], n)
       IN  /\ honest' = GivenUnconsumed(b)
           /\ \E handled \in 0..(b.len + 1) :
                /\ buf' = IF handled > 0 THEN removeData(b, handled) ELSE b
                /\ taken' = handled

Next == \E n \in 1..Chunk : OnRead(n)

Spec == Init /\ [][Next]_vars

-----------------------------------------------------------------------------
(* Properties.                                                             *)

\* The bytes in the window are the last m_nLen bytes received, in order: growing,
\* shrinking and dropping never lose, repeat or overwrite a byte in between.
WindowIsLatest ==
    \A i \in 0..(buf.len - 1) : buf.mem[buf.pos + i] = got - buf.len + 1 + i

\* The window stays inside the buffer, and the buffer within TCP_LINK_BUFFER_MAX
\* and less than one read more, whatever the handler consumes.
Bounded ==
    /\ buf.pos + buf.len <= buf.capacity
    /\ buf.capacity < MaxCapacity + Chunk

\* README.md:19: "ISNLinkHandler.on_data will be called when data come".  What
\* on_data is shown are the bytes it did not consume yet.
GivenIsUnconsumed == honest

Queue == INSTANCE ByteQueue
         WITH q <- [i \in 1..buf.len |-> buf.mem[buf.pos + i - 1]],
              Limit <- MaxCapacity

\* The buffer is a queue of bytes: what a read leaves in it is what was there and
\* what came, without what the handler took.  All is lost only in an overflow,
\* and then more than half of TCP_LINK_BUFFER_MAX was in use: addData counts the
\* dead space before the window as used, but removeData keeps that below m_nLen.
Implements == Queue!Spec
=============================================================================
