----------------------------- MODULE ByteQueue -----------------------------
(***************************************************************************)
(* What the receive buffer of a TCP link promises: the bytes that were     *)
(* received and not yet consumed, in order.  Each read appends to them and *)
(* then takes from their front what the handler said it took, no more and  *)
(* no less.  Nothing else is lost but in an overflow, which throws all of  *)
(* the queue away and needs more than half of the limit in use.            *)
(***************************************************************************)
EXTENDS Naturals, Sequences

CONSTANTS Limit, Chunk

VARIABLES
    q,       \* the unconsumed bytes
    got,     \* how many were ever received
    taken    \* how many the handler said it took of the last read

vars == <<q, got, taken>>

Received(n) == [i \in 1..n |-> got + i]

Rest(s, k) == IF k > Len(s) THEN <<>> ELSE SubSeq(s, k + 1, Len(s))

Init == q = <<>> /\ got = 0 /\ taken = 0

Read(n) ==
    /\ got' = got + n
    /\ taken' \in Nat
    /\ q' = Rest(q \o Received(n), taken')

\* Never loses a message of less than (Limit - Chunk) / 2 bytes.
Overflow(n) ==
    /\ 2 * Len(q) + n > Limit
    /\ got' = got + n
    /\ taken' \in Nat
    /\ q' = <<>>

Next == \E n \in 1..Chunk : Read(n) \/ Overflow(n)

Spec == Init /\ [][Next]_vars
=============================================================================
