------------------------------ MODULE MemPool ------------------------------
(***************************************************************************)
(* The pool of packet buffers (src/src/mempool.cpp).  send() takes an item *)
(* for each packet and the completion callback of the write gives it back. *)
(* Sizes and capacities are the size classes of the code, 1 to 4 for 4K,   *)
(* 16K, 64K and 128K; 5 is up to MEM_ITEM_SIZE_MAX, 6 is beyond it.  A pool *)
(* is a set: which of its items is handed out makes no difference.         *)
(***************************************************************************)
EXTENDS Naturals, FiniteSets

CONSTANTS
    Items,       \* the MemItem objects that can exist at a time
    MaxCount     \* MEM_ITEM_COUNT_MAX

ASSUME MemPoolAssumption == MaxCount \in Nat /\ IsFiniteSet(Items)

Class == 1..4
Size == 1..6
None == 0        \* the capacity of an item that does not exist

VARIABLES
    pool,        \* m_arr4kPool, m_arr16kPool, m_arr64kPool, m_arr128kPool
    capacity,    \* the capacity of each item
    lent         \* the items handed out, with the size they were asked for

vars == <<pool, capacity, lent>>

Lent == {u.item : u \in lent}
Pooled == UNION {pool[c] : c \in Class}

TypeOK ==
    /\ pool \in [Class -> SUBSET Items]
    /\ capacity \in [Items -> 0..5]
    /\ lent \subseteq [item : Items, size : Size]

Init ==
    /\ pool = [c \in Class |-> {}]
    /\ capacity = [i \in Items |-> None]
    /\ lent = {}

Lend(i, size) == lent' = lent \cup {[item |-> i, size |-> size]}

\* Mutants: the item stays in the pool; the pool of the next smaller class is used.
GetPooled_NotPopped(size) ==
    /\ size \in Class
    /\ \E i \in pool[size] : Lend(i, size)
    /\ UNCHANGED <<pool, capacity>>

GetPooled_Smaller(size) ==
    /\ size - 1 \in Class
    /\ \E i \in pool[size - 1] :
         /\ pool' = [pool EXCEPT ![size - 1] = @ \ {i}]
         /\ Lend(i, size)
    /\ UNCHANGED capacity

GetPooled(size) ==
    /\ size \in Class
    /\ \E i \in pool[size] :
         /\ pool' = [pool EXCEPT ![size] = @ \ {i}]
         /\ Lend(i, size)
    /\ UNCHANGED capacity

\* Mutants: an item of the pool's class is allocated although one is free; any
\* size is allocated.
GetNew_Always(size) ==
    /\ size \in 1..5
    /\ \E i \in Items :
         /\ capacity[i] = None
         /\ capacity' = [capacity EXCEPT ![i] = size]
         /\ Lend(i, size)
    /\ UNCHANGED pool

GetNew_Unlimited(size) ==
    /\ size \in Class => pool[size] = {}
    /\ \E i \in Items :
         /\ capacity[i] = None
         /\ capacity' = [capacity EXCEPT ![i] = size]
         /\ Lend(i, size)
    /\ UNCHANGED pool

\* More than MEM_ITEM_SIZE_MAX gets NULL, which changes nothing.
GetNew(size) ==
    /\ size \in 1..5
    /\ size \in Class => pool[size] = {}
    /\ \E i \in Items :
         /\ capacity[i] = None
         /\ capacity' = [capacity EXCEPT ![i] = size]
         /\ Lend(i, size)
    /\ UNCHANGED pool

\* Where free() puts an item of a capacity: 128K goes to the pool of 64K.
Home(c) == IF c = 4 THEN 3 ELSE c

\* Mutant: the count is not looked at.
free_Unlimited(u) ==
    /\ lent' = lent \ {u}
    /\ IF capacity[u.item] \in Class
       THEN /\ pool' = [pool EXCEPT ![Home(capacity[u.item])] = @ \cup {u.item}]
            /\ UNCHANGED capacity
       ELSE /\ capacity' = [capacity EXCEPT ![u.item] = None]
            /\ UNCHANGED pool

free(u) ==
    LET c == capacity[u.item]
    IN  /\ lent' = lent \ {u}
        /\ IF c \in Class /\ Cardinality(pool[c]) <= MaxCount
           THEN /\ pool' = [pool EXCEPT ![Home(c)] = @ \cup {u.item}]
                /\ UNCHANGED capacity
           ELSE /\ capacity' = [capacity EXCEPT ![u.item] = None]
                /\ UNCHANGED pool

reset ==
    /\ pool' = [c \in Class |-> {}]
    /\ capacity' = [i \in Items |-> IF i \in Pooled THEN None ELSE capacity[i]]
    /\ UNCHANGED lent

Next ==
    \/ \E size \in Size : GetPooled(size) \/ GetNew(size)
    \/ \E u \in lent : free(u)
    \/ reset

Spec == Init /\ [][Next]_vars

-----------------------------------------------------------------------------
(* Properties.                                                             *)

\* An item has one owner: it is in one pool, or lent to one packet, and it is
\* gone when it is in neither.  Two writes in flight never share a buffer, and
\* no item is used after it was deleted.
OneOwner ==
    /\ \A u, v \in lent : u.item = v.item => u = v
    /\ \A c, d \in Class : c # d => pool[c] \cap pool[d] = {}
    /\ Pooled \cap Lent = {}
    /\ \A i \in Items : capacity[i] # None <=> i \in Pooled \cup Lent

\* An item is large enough for what it is lent for, although the pool of 64K
\* holds items of 128K: assign() never has to reallocate.
LargeEnough ==
    /\ \A u \in lent : capacity[u.item] >= u.size
    /\ \A c \in Class : \A i \in pool[c] : capacity[i] >= c

\* The pools whose items return to them hold at most one item more than
\* MEM_ITEM_COUNT_MAX, whatever the order of gets and frees.
OwnPoolsBounded ==
    \A c \in Class \ {3} : Cardinality(pool[c]) <= MaxCount + 1

\* mempool.cpp:14: "#define MEM_ITEM_COUNT_MAX 1000".  No pool grows beyond it
\* (and the one item that "size() > MEM_ITEM_COUNT_MAX" lets in).
PoolsBounded == \A c \in Class : Cardinality(pool[c]) <= MaxCount + 1

\* README.md:13: "memory pool for quick network packet copy".  No item is
\* allocated while a free one of that capacity waits in a pool; 128K is left out,
\* whose free items wait where get() does not look for them (mempool.cpp:119).
ReusedUpTo64K ==
    [][\A i \in Items : capacity[i] = None /\ capacity'[i] \in Class \ {4}
         => \A j \in Pooled : capacity[j] # capacity'[i]]_vars
=============================================================================
