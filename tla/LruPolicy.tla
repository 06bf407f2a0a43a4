----------------------------- MODULE LruPolicy -----------------------------
(***************************************************************************)
(* What a least-recently-used cache promises: it holds at most Capacity    *)
(* keys, every get and put makes its key the most recent one, and a put    *)
(* that finds the cache full forgets the least recent key and no other.    *)
(* Each put that has failed with an exception may have taken up a place    *)
(* for good: a cache with that many keys fewer may forget a key, any key,  *)
(* to make room, but one only, and it never returns a wrong value.         *)
(***************************************************************************)
EXTENDS Naturals, FiniteSets

CONSTANTS Key, Value, None, Capacity

VARIABLES newer,    \* the pairs <<j, k>> of keys inside, j used after k
          value,    \* the values of the keys inside, None for the others
          faults    \* the puts that have thrown

vars == <<newer, value, faults>>

Inside == {k \in Key : value[k] # None}

Init == newer = {} /\ value = [k \in Key |-> None] /\ faults = 0

Oldest(k) == k \in Inside /\ \A j \in Inside \ {k} : <<j, k>> \in newer

IsFull == Cardinality(Inside) = Capacity

\* Each fault may have taken a place for good.
IsCrowded == Cardinality(Inside) + faults >= Capacity

\* What may be left of the keys when room is made for another one: a full
\* cache forgets its oldest key, one that faults have made smaller any key or
\* none, and one that has room none.
Left == IF IsFull
        THEN {Inside \ {k} : k \in {j \in Inside : Oldest(j)}}
        ELSE {Inside} \cup (IF IsCrowded THEN {Inside \ {k} : k \in Inside} ELSE {})

\* k with value v is the most recent key; of the others those of rest stay.
Front(k, v, rest) ==
  /\ value' = [j \in Key |-> IF j = k THEN v
                             ELSE IF j \in rest THEN value[j] ELSE None]
  /\ newer' = {k} \X rest \cup (newer \cap (rest \X rest))

Get(k) == /\ k \in Inside
          /\ Front(k, value[k], Inside \ {k})
          /\ UNCHANGED faults

Put(k, v) == /\ \/ k \in Inside /\ Front(k, v, Inside \ {k})
                \/ k \notin Inside /\ \E rest \in Left : Front(k, v, rest)
             /\ UNCHANGED faults

\* A put throws: nothing is inserted, but room may have been made.
Fault == /\ faults' = faults + 1
         /\ \E rest \in Left :
               /\ value' = [k \in Key |-> IF k \in rest THEN value[k] ELSE None]
               /\ newer' = newer \cap (rest \X rest)

Next == \/ \E k \in Key : Get(k) \/ \E v \in Value : Put(k, v)
        \/ Fault

Spec == Init /\ [][Next]_vars
=============================================================================
