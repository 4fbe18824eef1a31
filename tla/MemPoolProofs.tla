--------------------------- MODULE MemPoolProofs ---------------------------
(***************************************************************************)
(* MemPool for any set of items and any MEM_ITEM_COUNT_MAX.  OneOwner and  *)
(* LargeEnough are inductive together with the type invariant; that items  *)
(* are used again needs where each of them waits (AtHome).                 *)
(***************************************************************************)
EXTENDS MemPool, FiniteSetTheorems, TLAPS

\* Every variable stays in its type: capacities are those the code allocates
\* and pools and packets hold items.
THEOREM TypeCorrect == Spec => []TypeOK
<1>1. Init => TypeOK
  BY DEF Init, TypeOK, Class, None
<1>2. TypeOK /\ [Next]_vars => TypeOK'
  <2> SUFFICES ASSUME TypeOK, [Next]_vars PROVE TypeOK'
    OBVIOUS
  <2>1. ASSUME NEW size \in Size, GetPooled(size) PROVE TypeOK'
    BY <2>1 DEF TypeOK, GetPooled, Lend, Class, Size
  <2>2. ASSUME NEW size \in Size, GetNew(size) PROVE TypeOK'
    BY <2>2 DEF TypeOK, GetNew, Lend, Class, Size
  <2>3. ASSUME NEW u \in lent, free(u) PROVE TypeOK'
    BY <2>3 DEF TypeOK, free, Home, Class, None
  <2>4. CASE reset
    BY <2>4 DEF TypeOK, reset, Class, None
  <2>5. CASE UNCHANGED vars
    BY <2>5 DEF TypeOK, vars
  <2> QED BY <2>1, <2>2, <2>3, <2>4, <2>5 DEF Next
<1> QED BY <1>1, <1>2, PTL DEF Spec

\* Lending an item adds it to the lent ones.
LEMMA LendAdds ==
    ASSUME NEW i, NEW size, Lend(i, size) PROVE Lent' = Lent \cup {i}
<1> DEFINE r == [item |-> i, size |-> size]
<1>1. lent' = lent \cup {r} BY DEF Lend
<1>2. r.item = i OBVIOUS
<1> HIDE DEF r
<1> QED BY <1>1, <1>2 DEF Lent

\* No two packets in flight share a buffer and no deleted item is in use: every
\* existing item is in exactly one pool or lent to exactly one packet.
THEOREM Ownership == Spec => []OneOwner
<1>1. Init => OneOwner
  BY DEF Init, OneOwner, Class, Pooled, Lent, None
<1>2. TypeOK /\ OneOwner /\ [Next]_vars => OneOwner'
  <2> SUFFICES ASSUME TypeOK, OneOwner, [Next]_vars PROVE OneOwner'
    OBVIOUS
  <2>1. ASSUME NEW size \in Size, GetPooled(size) PROVE OneOwner'
    <3>1. size \in Class BY <2>1 DEF GetPooled
    <3>2. PICK i \in pool[size] : /\ pool' = [pool EXCEPT ![size] = @ \ {i}]
                                  /\ lent' = lent \cup {[item |-> i, size |-> size]}
      BY <2>1 DEF GetPooled, Lend
    <3>3. i \in Items /\ i \in Pooled /\ i \notin Lent
      BY <3>1 DEF TypeOK, OneOwner, Pooled
    <3>4. Lent' = Lent \cup {i}
      BY <3>2, LendAdds DEF Lend
    <3>5. Pooled' = Pooled \ {i}
      BY <3>1, <3>2 DEF Pooled, TypeOK, OneOwner
    <3>6. (\A u, v \in lent : u.item = v.item => u = v)'
      BY <3>2, <3>3 DEF Lent, OneOwner
    <3>7. (\A c, d \in Class : c # d => pool[c] \cap pool[d] = {})'
      BY <3>1, <3>2 DEF TypeOK, OneOwner
    <3> QED BY <2>1, <3>3, <3>4, <3>5, <3>6, <3>7 DEF OneOwner, GetPooled
  <2>2. ASSUME NEW size \in Size, GetNew(size) PROVE OneOwner'
    <3>1. PICK i \in Items : /\ capacity[i] = None
                             /\ capacity' = [capacity EXCEPT ![i] = size]
                             /\ lent' = lent \cup {[item |-> i, size |-> size]}
                             /\ size \in 1..5
      BY <2>2 DEF GetNew, Lend
    <3>2. i \notin Pooled /\ i \notin Lent
      BY <3>1 DEF OneOwner
    <3>3. Lent' = Lent \cup {i}
      BY <3>1, LendAdds DEF Lend
    <3>4. pool' = pool /\ Pooled' = Pooled
      BY <2>2 DEF GetNew, Pooled
    <3>5. (\A u, v \in lent : u.item = v.item => u = v)'
      BY <3>1, <3>2 DEF Lent, OneOwner
    <3>6. (\A j \in Items : capacity[j] # None <=> j \in Pooled \cup Lent)'
      BY <3>1, <3>3, <3>4 DEF OneOwner, TypeOK, None
    <3> QED BY <3>2, <3>3, <3>4, <3>5, <3>6 DEF OneOwner
  <2>3. ASSUME NEW u \in lent, free(u) PROVE OneOwner'
    <3> DEFINE i == u.item
               c == capacity[i]
    <3>1. i \in Items /\ i \in Lent /\ i \notin Pooled
      BY DEF TypeOK, Lent, OneOwner
    <3>2. Lent' = Lent \ {i}
      BY <2>3 DEF free, Lent, OneOwner
    <3>3. (\A v, w \in lent : v.item = w.item => v = w)'
      BY <2>3 DEF free, OneOwner
    <3>4. CASE /\ c \in Class
               /\ pool' = [pool EXCEPT ![Home(c)] = @ \cup {i}]
               /\ capacity' = capacity
      <4>1. Home(c) \in Class
        BY <3>4 DEF Home, Class
      <4>2. Pooled' = Pooled \cup {i}
        BY <3>4, <4>1 DEF Pooled, TypeOK
      <4>3. (\A d, e \in Class : d # e => pool[d] \cap pool[e] = {})'
        BY <3>1, <3>4, <4>1 DEF Pooled, TypeOK, OneOwner
      <4> QED BY <3>1, <3>2, <3>3, <3>4, <4>2, <4>3 DEF OneOwner
    <3>5. CASE /\ capacity' = [capacity EXCEPT ![i] = None]
               /\ pool' = pool
      <4>1. Pooled' = Pooled
        BY <3>5 DEF Pooled
      <4>2. (\A j \in Items : capacity[j] # None <=> j \in Pooled \cup Lent)'
        BY <3>1, <3>2, <3>5, <4>1 DEF OneOwner, TypeOK, None
      <4> QED BY <3>2, <3>3, <3>5, <4>1, <4>2 DEF OneOwner
    <3> QED BY <2>3, <3>4, <3>5 DEF free
  <2>4. CASE reset
    <3>1. Pooled' = {} /\ Lent' = Lent
      BY <2>4 DEF reset, Pooled, Lent
    <3> QED BY <2>4, <3>1 DEF reset, OneOwner, TypeOK
  <2>5. CASE UNCHANGED vars
    BY <2>5 DEF OneOwner, vars, Pooled, Lent
  <2> QED BY <2>1, <2>2, <2>3, <2>4, <2>5 DEF Next
<1> QED BY <1>1, <1>2, TypeCorrect, PTL DEF Spec

\* An item is never smaller than what it is lent for: assign() copies into memory
\* it owns and the write reads memory that was allocated.
THEOREM Capacity == Spec => []LargeEnough
<1>1. Init => LargeEnough
  BY DEF Init, LargeEnough
<1>2. TypeOK /\ OneOwner /\ LargeEnough /\ [Next]_vars => LargeEnough'
  <2> SUFFICES ASSUME TypeOK, OneOwner, LargeEnough, [Next]_vars PROVE LargeEnough'
    OBVIOUS
  <2>1. ASSUME NEW size \in Size, GetPooled(size) PROVE LargeEnough'
    BY <2>1 DEF GetPooled, Lend, LargeEnough, TypeOK, Class
  <2>2. ASSUME NEW size \in Size, GetNew(size) PROVE LargeEnough'
    <3>1. PICK i \in Items : /\ capacity[i] = None
                             /\ capacity' = [capacity EXCEPT ![i] = size]
                             /\ lent' = lent \cup {[item |-> i, size |-> size]}
                             /\ pool' = pool
      BY <2>2 DEF GetNew, Lend
    <3>2. i \notin Pooled /\ i \notin Lent
      BY <3>1 DEF OneOwner
    <3>3. size >= size
      BY DEF Size
    <3> QED BY <3>1, <3>2, <3>3 DEF LargeEnough, TypeOK, Pooled, Lent
  <2>3. ASSUME NEW u \in lent, free(u) PROVE LargeEnough'
    <3>1. u.item \in Items /\ u.item \notin Pooled
      BY DEF TypeOK, OneOwner, Lent
    <3>2. \A v \in lent' : v \in lent /\ v.item # u.item
      BY <2>3 DEF free, OneOwner
    <3>3. CASE /\ capacity[u.item] \in Class
               /\ pool' = [pool EXCEPT ![Home(capacity[u.item])] = @ \cup {u.item}]
               /\ capacity' = capacity
      BY <3>2, <3>3 DEF LargeEnough, TypeOK, Home, Class
    <3>4. CASE /\ capacity' = [capacity EXCEPT ![u.item] = None]
               /\ pool' = pool
      BY <3>1, <3>2, <3>4 DEF LargeEnough, TypeOK, Pooled
    <3> QED BY <2>3, <3>3, <3>4 DEF free
  <2>4. CASE reset
    BY <2>4 DEF reset, LargeEnough, TypeOK, OneOwner, Lent
  <2>5. CASE UNCHANGED vars
    BY <2>5 DEF LargeEnough, vars
  <2> QED BY <2>1, <2>2, <2>3, <2>4, <2>5 DEF Next
<1> QED BY <1>1, <1>2, TypeCorrect, Ownership, PTL DEF Spec

\* The pools that get their own items back hold at most MEM_ITEM_COUNT_MAX + 1:
\* free() looks at the pool it pushes to.
THEOREM Bound == Spec => []OwnPoolsBounded
<1>1. Init => OwnPoolsBounded
  BY FS_EmptySet, MemPoolAssumption DEF Init, OwnPoolsBounded, Class
<1>2. TypeOK /\ OwnPoolsBounded /\ [Next]_vars => OwnPoolsBounded'
  <2> SUFFICES ASSUME TypeOK, OwnPoolsBounded, [Next]_vars,
                      NEW c \in Class \ {3}
               PROVE  Cardinality(pool'[c]) <= MaxCount + 1
    BY DEF OwnPoolsBounded
  <2>1. /\ IsFiniteSet(pool[c]) /\ Cardinality(pool[c]) \in Nat
        /\ Cardinality(pool[c]) <= MaxCount + 1
    BY FS_Subset, FS_CardinalityType, MemPoolAssumption DEF TypeOK, OwnPoolsBounded
  <2>2. ASSUME pool'[c] \subseteq pool[c] PROVE Cardinality(pool'[c]) <= MaxCount + 1
    <3>1. /\ Cardinality(pool'[c]) <= Cardinality(pool[c])
          /\ IsFiniteSet(pool'[c])
      BY <2>1, <2>2, FS_Subset
    <3>2. Cardinality(pool'[c]) \in Nat
      BY <3>1, FS_CardinalityType
    <3> QED BY <2>1, <3>1, <3>2, MemPoolAssumption
  <2>3. ASSUME NEW size \in Size, GetPooled(size) PROVE pool'[c] \subseteq pool[c]
    BY <2>3 DEF GetPooled, TypeOK, Class
  <2>4. ASSUME NEW size \in Size, GetNew(size) PROVE pool'[c] \subseteq pool[c]
    BY <2>4 DEF GetNew
  <2>5. ASSUME NEW u \in lent, free(u) PROVE Cardinality(pool'[c]) <= MaxCount + 1
    <3> DEFINE k == capacity[u.item]
    <3>1. CASE pool'[c] \subseteq pool[c]
      BY <2>2, <3>1
    <3>2. CASE ~(pool'[c] \subseteq pool[c])
      <4>1. k \in Class /\ Cardinality(pool[k]) <= MaxCount /\ Home(k) = c
            /\ pool'[c] = pool[c] \cup {u.item}
        BY <2>5, <3>2 DEF free, TypeOK
      <4>2. k = c
        BY <4>1 DEF Home, Class
      <4>3. /\ IsFiniteSet(pool'[c])
            /\ Cardinality(pool'[c]) = IF u.item \in pool[c] THEN Cardinality(pool[c])
                                       ELSE Cardinality(pool[c]) + 1
        <5>1. /\ IsFiniteSet(pool[c] \cup {u.item})
              /\ Cardinality(pool[c] \cup {u.item}) =
                   IF u.item \in pool[c] THEN Cardinality(pool[c])
                   ELSE Cardinality(pool[c]) + 1
          BY <2>1, FS_AddElement, Zenon
        <5> QED BY <4>1, <5>1
      <4> QED BY <2>1, <4>1, <4>2, <4>3, MemPoolAssumption
    <3> QED BY <3>1, <3>2
  <2>6. CASE reset
    BY <2>2, <2>6 DEF reset
  <2>7. CASE UNCHANGED vars
    BY <2>1, <2>7 DEF vars
  <2> QED BY <2>2, <2>3, <2>4, <2>5, <2>6, <2>7 DEF Next
<1> QED BY <1>1, <1>2, TypeCorrect, PTL DEF Spec

\* A free item waits in the pool where free() puts items of its capacity; an item beyond
\* 128K is in no pool.
AtHome == \A c \in Class : \A i \in pool[c] : capacity[i] \in Class /\ Home(capacity[i]) = c

LEMMA AtHomeKept ==
    ASSUME TypeOK, OneOwner, AtHome, [Next]_vars PROVE AtHome'
<1>1. ASSUME NEW size \in Size, GetPooled(size) PROVE AtHome'
  BY <1>1 DEF AtHome, GetPooled, TypeOK
<1>2. ASSUME NEW size \in Size, GetNew(size) PROVE AtHome'
  <2>1. PICK i \in Items : /\ capacity[i] = None
                           /\ capacity' = [capacity EXCEPT ![i] = size]
                           /\ pool' = pool
    BY <1>2 DEF GetNew
  <2>2. i \notin Pooled
    BY <2>1 DEF OneOwner
  <2> QED BY <2>1, <2>2 DEF AtHome, Pooled, TypeOK
<1>3. ASSUME NEW u \in lent, free(u) PROVE AtHome'
  <2>1. u.item \in Items /\ u.item \notin Pooled
    BY DEF TypeOK, OneOwner, Lent
  <2>2. CASE /\ capacity[u.item] \in Class
             /\ pool' = [pool EXCEPT ![Home(capacity[u.item])] = @ \cup {u.item}]
             /\ capacity' = capacity
    BY <2>2 DEF AtHome, TypeOK
  <2>3. CASE /\ capacity' = [capacity EXCEPT ![u.item] = None]
             /\ pool' = pool
    BY <2>1, <2>3 DEF AtHome, Pooled, TypeOK
  <2> QED BY <1>3, <2>2, <2>3 DEF free
<1>4. CASE reset
  BY <1>4 DEF AtHome, reset
<1>5. CASE UNCHANGED vars
  BY <1>5 DEF AtHome, vars
<1> QED BY <1>1, <1>2, <1>3, <1>4, <1>5 DEF Next

\* Up to 64K no item is allocated while a free one of its capacity waits in any pool:
\* get() looks in one pool, which is the one where free() puts that capacity.
THEOREM Reuse == Spec => ReusedUpTo64K
<1>1. Init => AtHome
  BY DEF Init, AtHome
<1>2. TypeOK /\ OneOwner /\ AtHome /\ [Next]_vars => AtHome'
  BY AtHomeKept
<1>3. TypeOK /\ AtHome /\ [Next]_vars
        => [\A i \in Items : capacity[i] = None /\ capacity'[i] \in Class \ {4}
              => \A j \in Pooled : capacity[j] # capacity'[i]]_vars
  <2> SUFFICES ASSUME TypeOK, AtHome, Next, NEW i \in Items, capacity[i] = None,
                      capacity'[i] \in Class \ {4}, NEW j \in Pooled
               PROVE  capacity[j] # capacity'[i]
    OBVIOUS
  <2>1. capacity'[i] # None /\ Home(capacity'[i]) = capacity'[i]
    BY DEF Class, None, Home
  <2>2. PICK size \in Size : GetNew(size)
    <3>1. ASSUME NEW size \in Size, GetPooled(size) PROVE FALSE
      BY <2>1, <3>1 DEF GetPooled
    <3>2. ASSUME NEW u \in lent, free(u) PROVE FALSE
      BY <2>1, <3>2 DEF free, TypeOK
    <3>3. CASE reset
      BY <2>1, <3>3 DEF reset
    <3> QED BY <3>1, <3>2, <3>3 DEF Next
  <2>3. capacity'[i] = size /\ pool[size] = {}
    BY <2>1, <2>2 DEF GetNew, TypeOK
  <2>4. PICK c \in Class : j \in pool[c]
    BY DEF Pooled
  <2> QED BY <2>1, <2>3, <2>4 DEF AtHome
<1> QED BY <1>1, <1>2, <1>3, TypeCorrect, Ownership, PTL DEF Spec, ReusedUpTo64K
=============================================================================
