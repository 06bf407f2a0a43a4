------------------------------ MODULE LruCache ------------------------------
(***************************************************************************)
(* null/lru_cache.h and null/concurrent_lru_cache.h: a cache made of a     *)
(* list of nodes, the most recently used one first, and a hash map from    *)
(* keys to list iterators.  The second class is the first one with a       *)
(* mutex held during each call, so that a call is one action whichever     *)
(* caller makes it; lru_cache is the case of one caller.                   *)
(*                                                                         *)
(* get returns a pointer into a node, which the caller may go on using     *)
(* while other calls are made.  A put may throw between its updates of the *)
(* two containers: push_front may fail to allocate, and so may the         *)
(* insertion into the map when the node is already in the list.            *)
(***************************************************************************)
EXTENDS Naturals, Sequences, FiniteSets

CONSTANTS Key, Value,
          Node,       \* places for list nodes, reused
          None,       \* no node; no value
          Caller,     \* threads that call get and put
          Capacity,   \* capacity_
          MaxThrows   \* bound: puts that throw

\* The constructor refuses a capacity of 0.
ASSUME CacheAssumption == /\ Capacity \in Nat \ {0}
                          /\ MaxThrows \in Nat
                          /\ None \notin Node /\ None \notin Value

VARIABLES list,       \* list_, as the sequence of its nodes
          map,        \* map_: the node an iterator points to, None if absent
          key, val,   \* first and second of the nodes
          ptr,        \* the node that each caller's last pointer points to
          age,        \* calls by anybody since that get (at most Capacity)
          dangling,   \* TRUE if that node has been deleted meanwhile
          throws      \* puts that have thrown

contents == <<list, map, key, val>>
pointers == <<ptr, age, dangling>>
vars     == <<contents, pointers, throws>>

InList == {list[i] : i \in DOMAIN list}

Init == /\ list = <<>>
        /\ map = [k \in Key |-> None]
        /\ key \in [Node -> Key]
        /\ val \in [Node -> Value]
        /\ ptr = [c \in Caller |-> None]
        /\ age = [c \in Caller |-> 0]
        /\ dangling = [c \in Caller |-> FALSE]
        /\ throws = 0

\* list_.splice (list_.begin (), list_, n): n is linked out and in again.
ToFront(n) == \E i \in DOMAIN list :
                 /\ list[i] = n
                 /\ list' = <<n>> \o SubSeq(list, 1, i - 1)
                                  \o SubSeq(list, i + 1, Len(list))

Older(n) == IF n < Capacity THEN n + 1 ELSE n

\* A call that returns no pointer ages the pointers that callers keep; those
\* into a node of gone dangle.
Ages(gone) == /\ age' = [c \in Caller |-> Older(age[c])]
              /\ dangling' = [c \in Caller |-> dangling[c] \/ ptr[c] \in gone]
              /\ UNCHANGED ptr

(***************************************************************************)
(* get                                                                     *)
(***************************************************************************)

\* The pointer replaces the caller's previous one.
GetKeepsOrder(c, k) ==                            \* bug: no splice
  /\ map[k] # None
  /\ ptr' = [ptr EXCEPT ![c] = map[k]]
  /\ age' = [d \in Caller |-> IF d = c THEN 0 ELSE Older(age[d])]
  /\ dangling' = [dangling EXCEPT ![c] = FALSE]
  /\ UNCHANGED <<contents, throws>>
Get(c, k) ==
  /\ map[k] # None
  /\ ToFront(map[k])
  /\ ptr' = [ptr EXCEPT ![c] = map[k]]
  /\ age' = [d \in Caller |-> IF d = c THEN 0 ELSE Older(age[d])]
  /\ dangling' = [dangling EXCEPT ![c] = FALSE]
  /\ UNCHANGED <<map, key, val, throws>>

(***************************************************************************)
(* put                                                                     *)
(***************************************************************************)

PutKeepsOrder(k, v) == /\ map[k] # None         \* bug: no splice
                       /\ val' = [val EXCEPT ![map[k]] = v]
                       /\ Ages({})
                       /\ UNCHANGED <<list, map, key, throws>>

\* The key is there: assign the value and move the node to the front.
PutExisting(k, v) == /\ map[k] # None
                     /\ val' = [val EXCEPT ![map[k]] = v]
                     /\ ToFront(map[k])
                     /\ Ages({})
                     /\ UNCHANGED <<map, key, throws>>

\* A full cache drops its last node, with the map entry of that node's key.
IsFull == Len(list) >= Capacity
Last == list[Len(list)]
Room == IF IsFull THEN SubSeq(list, 1, Len(list) - 1) ELSE list
Dropped == IF IsFull THEN {Last} ELSE {}
MapKept == map                               \* bug: the map entry stays
MapLess == IF IsFull THEN [map EXCEPT ![key[Last]] = None] ELSE map

\* The new node comes from the free store.
Fresh(n) == n \notin InList \/ n \in Dropped

PutNew(k, v) ==
  /\ map[k] = None
  /\ \E n \in Node :
        /\ Fresh(n)
        /\ list' = <<n>> \o Room
        /\ key' = [key EXCEPT ![n] = k]
        /\ val' = [val EXCEPT ![n] = v]
        /\ map' = [MapLess EXCEPT ![k] = n]
  /\ Ages(Dropped)
  /\ UNCHANGED throws

\* push_front throws.
PutThrowsInList(k) == /\ map[k] = None
                      /\ throws < MaxThrows
                      /\ throws' = throws + 1
                      /\ list' = Room
                      /\ map' = MapLess
                      /\ Ages(Dropped)
                      /\ UNCHANGED <<key, val>>

\* map_[key] throws: the new node stays in the list, without a map entry.
PutThrowsInMap(k, v) ==
  /\ map[k] = None
  /\ throws < MaxThrows
  /\ throws' = throws + 1
  /\ \E n \in Node :
        /\ Fresh(n)
        /\ list' = <<n>> \o Room
        /\ key' = [key EXCEPT ![n] = k]
        /\ val' = [val EXCEPT ![n] = v]
        /\ map' = MapLess
  /\ Ages(Dropped)

Put(k, v) == PutExisting(k, v) \/ PutNew(k, v) \/ PutThrowsInMap(k, v)

Next == \E k \in Key : \/ \E c \in Caller : Get(c, k)
                       \/ \E v \in Value : Put(k, v)
                       \/ PutThrowsInList(k)

Spec == Init /\ [][Next]_vars
-----------------------------------------------------------------------------
(* The variables have their types, and the list its bound.                 *)
TypeOK == /\ list \in Seq(Node) /\ Len(list) <= Capacity
          /\ map \in [Key -> Node \cup {None}]
          /\ key \in [Node -> Key]
          /\ val \in [Node -> Value]
          /\ ptr \in [Caller -> Node \cup {None}]
          /\ age \in [Caller -> 0 .. Capacity]
          /\ dangling \in [Caller -> BOOLEAN]
          /\ throws \in Nat

Orphans == {n \in InList : map[key[n]] # n}

(* Every iterator in the map points to a node that is in the list and has  *)
(* the key it is filed under, even after exceptions have left nodes        *)
(* without a map entry; no node is in the list twice, and an exception     *)
(* costs the cache at most one node.                                       *)
Sound == /\ \A k \in Key : map[k] # None => map[k] \in InList /\ key[map[k]] = k
         /\ \A i, j \in DOMAIN list : list[i] = list[j] => i = j
         /\ Cardinality(Orphans) <= throws

(* What every call preserves, whether it returns or throws.                *)
Inv == TypeOK /\ Sound

(* The pointer that get returns is good for the next Capacity - 1 calls,   *)
(* whoever makes them; and while it is good it points into its own node.   *)
PointerGood == \A c \in Caller :
                 /\ dangling[c] => age[c] >= Capacity
                 /\ ptr[c] # None /\ ~dangling[c] => ptr[c] \in InList

(* Each call moves a node by one place towards the end at most: the number *)
(* of calls bounds the place of the node that a pointer points into.       *)
Recent == \A c \in Caller :
             ptr[c] # None /\ ~dangling[c] =>
                \E i \in DOMAIN list : list[i] = ptr[c] /\ i <= age[c] + 1

\* Node m is in the list in front of node n.
Before(m, n) == \E i, j \in DOMAIN list : i < j /\ list[i] = m /\ list[j] = n

\* What a user sees of the cache: which of two keys was used later, and the
\* values.
Recency == {p \in Key \X Key : Before(map[p[1]], map[p[2]])}
Stored == [k \in Key |-> IF map[k] = None THEN None ELSE val[map[k]]]

(* The cache implements the least-recently-used policy: the keys that the  *)
(* map knows, in the order of their nodes in the list.                     *)
Policy == INSTANCE LruPolicy WITH
            newer <- Recency, value <- Stored, faults <- throws

PolicySpec == Policy!Spec
=============================================================================
