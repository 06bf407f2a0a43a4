--------------------------- MODULE LruCacheProofs ---------------------------
(***************************************************************************)
(* Theorems about LruCache, for every capacity and any keys, values, nodes *)
(* and callers.                                                            *)
(***************************************************************************)
EXTENDS LruCache, FiniteSetTheorems, FunctionTheorems, SequenceTheorems, TLAPS

\* The inductive invariant: the pointers that callers keep included.
IInv == Inv /\ PointerGood /\ Recent

NoTwice == \A i, j \in DOMAIN list : list[i] = list[j] => i = j

(***************************************************************************)
(* The list                                                                *)
(***************************************************************************)
LEMMA ListFacts ==
  ASSUME Inv
  PROVE  /\ list \in Seq(Node) /\ DOMAIN list = 1 .. Len(list)
         /\ Len(list) \in Nat /\ Len(list) <= Capacity
         /\ Capacity \in Nat \ {0}
         /\ \A i, j \in 1 .. Len(list) : list[i] = list[j] => i = j
         /\ \A i \in 1 .. Len(list) : list[i] \in Node
         /\ InList \subseteq Node /\ IsFiniteSet(InList)
         /\ None \notin Node
  <1>1. /\ list \in Seq(Node) /\ Len(list) <= Capacity
        /\ \A i, j \in DOMAIN list : list[i] = list[j] => i = j
    BY DEF Inv, TypeOK, Sound
  <1>2. /\ DOMAIN list = 1 .. Len(list) /\ Len(list) \in Nat
        /\ \A i \in DOMAIN list : list[i] \in Node
    BY <1>1
  <1>3. InList \subseteq Node
    BY <1>2 DEF InList
  <1>4. list \in Surjection(DOMAIN list, InList)
    <2>1. list \in [DOMAIN list -> InList]
      BY <1>1 DEF InList
    <2>2. \A x \in InList : \E i \in DOMAIN list : list[i] = x
      BY DEF InList
    <2>3. QED
      BY <2>1, <2>2, Fun_IsSurj
  <1>5. IsFiniteSet(DOMAIN list)
    BY <1>2, FS_Interval
  <1>6. IsFiniteSet(InList)
    BY <1>4, <1>5, FS_Surjection
  <1>7. QED
    BY <1>1, <1>2, <1>3, <1>6, CacheAssumption

\* A step that leaves a list of these elements, each at most one place
\* further than it was.
Shifts(kept) ==
  \A i \in DOMAIN list : list[i] \in kept =>
     \E j \in DOMAIN list' : list'[j] = list[i] /\ j <= i + 1

\* Where the elements of the list are after splice.
LEMMA FrontedElements ==
  ASSUME Inv, NEW n, ToFront(n)
  PROVE  \E k \in 1 .. Len(list) :
            /\ list[k] = n
            /\ list' \in Seq(Node) /\ Len(list') = Len(list)
            /\ list'[1] = n
            /\ \A i \in 2 .. k : list'[i] = list[i - 1]
            /\ \A i \in k + 1 .. Len(list) : list'[i] = list[i]
  <1>1. PICK k \in DOMAIN list :
          /\ list[k] = n
          /\ list' = <<n>> \o SubSeq(list, 1, k - 1)
                           \o SubSeq(list, k + 1, Len(list))
    BY DEF ToFront
  <1>2. /\ list \in Seq(Node) /\ Len(list) \in Nat /\ k \in 1 .. Len(list)
        /\ DOMAIN list = 1 .. Len(list) /\ n \in Node
        /\ Len(list) <= Capacity
        /\ \A i, j \in 1 .. Len(list) : list[i] = list[j] => i = j
    BY <1>1, ListFacts
  <1> DEFINE a == SubSeq(list, 1, k - 1)
             b == SubSeq(list, k + 1, Len(list))
             na == <<n>> \o a
  <1>3. /\ a \in Seq(Node) /\ Len(a) = k - 1
        /\ \A i \in 1 .. k - 1 : a[i] = list[i]
    BY <1>2
  <1>4. /\ b \in Seq(Node) /\ Len(b) = Len(list) - k
        /\ \A i \in 1 .. Len(list) - k : b[i] = list[k + i]
    BY <1>2
  <1>5. list' = (<<n>> \o a) \o b
    BY <1>1
  <1> HIDE DEF a, b
  <1>6. /\ na \in Seq(Node) /\ Len(na) = k /\ na[1] = n
        /\ \A i \in 2 .. k : na[i] = a[i - 1]
    <2>1. <<n>> \in Seq(Node) /\ Len(<<n>>) = 1 /\ <<n>>[1] = n
      BY <1>2
    <2>2. QED
      BY <2>1, <1>2, <1>3, ConcatProperties
  <1> HIDE DEF na
  <1>7. /\ list' \in Seq(Node) /\ Len(list') = Len(list)
        /\ \A i \in 1 .. k : list'[i] = na[i]
        /\ \A i \in k + 1 .. Len(list) : list'[i] = b[i - k]
    <2>1. /\ na \o b \in Seq(Node) /\ Len(na \o b) = k + (Len(list) - k)
          /\ \A i \in 1 .. k + (Len(list) - k) :
                (na \o b)[i] = IF i <= k THEN na[i] ELSE b[i - k]
      <3>1. Len(na) = k /\ Len(b) = Len(list) - k
            /\ na \in Seq(Node) /\ b \in Seq(Node)
        BY <1>4, <1>6
      <3>2. /\ na \o b \in Seq(Node) /\ Len(na \o b) = Len(na) + Len(b)
            /\ \A i \in 1 .. Len(na) + Len(b) :
                  (na \o b)[i] = IF i <= Len(na) THEN na[i] ELSE b[i - Len(na)]
        BY <3>1, ConcatProperties
      <3>3. QED
        BY <3>1, <3>2
    <2>2. list' = na \o b /\ k + (Len(list) - k) = Len(list)
      BY <1>2, <1>5 DEF na
    <2> DEFINE m == Len(list)
    <2>3. /\ list' \in Seq(Node) /\ Len(list') = m
          /\ \A i \in 1 .. m : list'[i] = IF i <= k THEN na[i] ELSE b[i - k]
          /\ m \in Nat /\ k \in 1 .. m
      BY <1>2, <2>1, <2>2
    <2> HIDE DEF m
    <2>4. /\ \A i \in 1 .. k : list'[i] = na[i]
          /\ \A i \in k + 1 .. m : list'[i] = b[i - k]
      BY <2>3
    <2>5. QED
      BY <2>3, <2>4 DEF m
  <1>8. /\ DOMAIN list' = 1 .. Len(list)
        /\ list'[1] = n /\ 1 \in DOMAIN list'
        /\ \A i \in 2 .. k : list'[i] = list[i - 1]
        /\ \A i \in k + 1 .. Len(list) : list'[i] = list[i]
    <2>1. DOMAIN list' = 1 .. Len(list)
      BY <1>7
    <2>2. list'[1] = n /\ 1 \in DOMAIN list'
      BY <2>1, <1>2, <1>6, <1>7
    <2>3. ASSUME NEW i \in 2 .. k
          PROVE  list'[i] = list[i - 1]
      <3>1. i \in 1 .. k /\ i - 1 \in 1 .. k - 1
        BY <1>2
      <3>2. QED
        BY <3>1, <1>3, <1>6, <1>7
    <2>4. ASSUME NEW i \in k + 1 .. Len(list)
          PROVE  list'[i] = list[i]
      <3>1. i - k \in 1 .. Len(list) - k /\ k + (i - k) = i
        BY <1>2
      <3>2. QED
        BY <3>1, <1>4, <1>7
    <2>5. QED
      BY <2>1, <2>2, <2>3, <2>4
  <1>9. QED
    BY <1>1, <1>2, <1>7, <1>8

LEMMA Fronted ==
  ASSUME Inv, NEW n, ToFront(n)
  PROVE  /\ list' \in Seq(Node) /\ Len(list') <= Capacity
         /\ NoTwice'
         /\ InList' = InList /\ n \in InList
         /\ 1 \in DOMAIN list' /\ list'[1] = n
         /\ Shifts(InList)
  <1>1. PICK k \in 1 .. Len(list) :
          /\ list[k] = n
          /\ list' \in Seq(Node) /\ Len(list') = Len(list)
          /\ list'[1] = n
          /\ \A i \in 2 .. k : list'[i] = list[i - 1]
          /\ \A i \in k + 1 .. Len(list) : list'[i] = list[i]
    BY FrontedElements
  <1>2. /\ list \in Seq(Node) /\ Len(list) \in Nat /\ k \in 1 .. Len(list)
        /\ DOMAIN list = 1 .. Len(list) /\ n \in Node
        /\ Len(list) <= Capacity
        /\ \A i, j \in 1 .. Len(list) : list[i] = list[j] => i = j
    BY <1>1, ListFacts
  <1>3. list' \in Seq(Node) /\ Len(list') = Len(list)
    BY <1>1
  <1>4. /\ DOMAIN list' = 1 .. Len(list)
        /\ list'[1] = n /\ 1 \in DOMAIN list'
        /\ \A i \in 2 .. k : list'[i] = list[i - 1]
        /\ \A i \in k + 1 .. Len(list) : list'[i] = list[i]
    <2>1. DOMAIN list' = 1 .. Len(list)
      BY <1>3
    <2>2. 1 \in DOMAIN list'
      BY <2>1, <1>2
    <2>3. QED
      BY <2>1, <2>2, <1>1
  <1>5. Shifts(InList)
    <2> SUFFICES ASSUME NEW i \in 1 .. Len(list)
                 PROVE  \E j \in DOMAIN list' : list'[j] = list[i] /\ j <= i + 1
      BY <1>2 DEF Shifts
    <2>1. CASE i < k
      <3>1. /\ i + 1 \in 2 .. k /\ i + 1 \in 1 .. Len(list)
            /\ (i + 1) - 1 = i
        BY <2>1, <1>2
      <3>2. list'[i + 1] = list[i]
        BY <3>1, <1>4
      <3>3. QED
        BY <3>1, <3>2, <1>4
    <2>2. CASE i = k
      <3>1. list'[1] = list[i] /\ 1 \in DOMAIN list' /\ 1 <= i + 1
        BY <2>2, <1>1, <1>2, <1>4
      <3>2. QED
        BY <3>1
    <2>3. CASE i > k
      BY <2>3, <1>2, <1>4
    <2>4. QED
      BY <2>1, <2>2, <2>3, <1>2
  <1>6. \A j \in 1 .. Len(list) :
            \/ j = 1 /\ list'[j] = list[k]
            \/ j \in 2 .. k /\ list'[j] = list[j - 1]
            \/ j \in k + 1 .. Len(list) /\ list'[j] = list[j]
    <2> TAKE j \in 1 .. Len(list)
    <2>1. j = 1 \/ j \in 2 .. k \/ j \in k + 1 .. Len(list)
      BY <1>2
    <2>2. QED
      BY <2>1, <1>1, <1>4
  <1>7. NoTwice'
    <2> SUFFICES ASSUME NEW i \in 1 .. Len(list), NEW j \in 1 .. Len(list),
                        list'[i] = list'[j]
                 PROVE  i = j
      BY <1>4 DEF NoTwice
    <2> DEFINE from(m) == IF m = 1 THEN k ELSE IF m <= k THEN m - 1 ELSE m
    <2>1. /\ from(i) \in 1 .. Len(list) /\ list'[i] = list[from(i)]
          /\ from(j) \in 1 .. Len(list) /\ list'[j] = list[from(j)]
      BY <1>2, <1>6
    <2>2. from(i) = from(j)
      BY <2>1, <1>2
    <2>3. QED
      BY <2>2, <1>2
  <1>8. InList' = InList
    <2>1. InList' = {list'[j] : j \in DOMAIN list'}
      BY DEF InList
    <2>2. \A j \in DOMAIN list' : list'[j] \in InList
      BY <1>2, <1>4, <1>6 DEF InList
    <2>3. \A i \in DOMAIN list : list[i] \in InList'
      BY <1>5, <2>1 DEF Shifts, InList
    <2>4. InList' \subseteq InList
      BY <2>1, <2>2
    <2>5. InList \subseteq InList'
      BY <2>3 DEF InList
    <2>6. QED
      BY <2>4, <2>5
  <1>9. n \in InList
    BY <1>1 DEF InList
  <1>10. QED
    BY <1>2, <1>3, <1>4, <1>5, <1>7, <1>8, <1>9

\* What is left of the list after a full one has dropped its last node.
LEMMA RoomFacts ==
  ASSUME Inv
  PROVE  /\ Room \in Seq(Node) /\ DOMAIN Room = 1 .. Len(Room)
         /\ Len(Room) \in Nat /\ Len(Room) < Capacity
         /\ Len(Room) <= Len(list)
         /\ \A i \in 1 .. Len(Room) : Room[i] = list[i]
         /\ \A i \in 1 .. Len(list) : list[i] \in InList \ Dropped <=>
               i \in 1 .. Len(Room)
         /\ Dropped \subseteq InList
         /\ IsFull => /\ Len(list) = Capacity
                      /\ Len(list) \in 1 .. Len(list)
                      /\ Last \in InList
  <1>1. /\ list \in Seq(Node) /\ DOMAIN list = 1 .. Len(list)
        /\ Len(list) \in Nat /\ Len(list) <= Capacity
        /\ Capacity \in Nat \ {0}
        /\ \A i, j \in 1 .. Len(list) : list[i] = list[j] => i = j
    BY ListFacts
  <1>2. CASE IsFull
    <2>1. /\ Len(list) = Capacity /\ Len(list) \in 1 .. Len(list)
          /\ Room = SubSeq(list, 1, Len(list) - 1)
          /\ Dropped = {list[Len(list)]}
      <3>1. Len(list) >= Capacity
        BY <1>2 DEF IsFull
      <3> DEFINE m == Len(list)
      <3>2. m \in Nat /\ m <= Capacity /\ m >= Capacity
            /\ Capacity \in Nat /\ Capacity > 0
        BY <3>1, <1>1
      <3> HIDE DEF m
      <3>3. m = Capacity /\ m \in 1 .. m
        BY <3>2
      <3>4. QED
        BY <3>3, <1>2 DEF Room, Dropped, Last, m
    <2>2. /\ Room \in Seq(Node) /\ Len(Room) = Len(list) - 1
          /\ \A i \in 1 .. Len(list) - 1 : Room[i] = list[i]
      BY <1>1, <2>1
    <2>3. Last \in InList
      BY <1>1, <2>1 DEF Last, InList
    <2>4. ASSUME NEW i \in 1 .. Len(list)
          PROVE  list[i] \in InList \ Dropped <=> i \in 1 .. Len(Room)
      <3>1. list[i] \in InList
        BY <1>1 DEF InList
      <3>2. list[i] \in Dropped <=> i = Len(list)
        BY <1>1, <2>1
      <3> DEFINE m == Len(list)
      <3>3. m \in Nat /\ i \in 1 .. m /\ Len(Room) = m - 1
        BY <1>1, <2>2
      <3> HIDE DEF m
      <3>4. i \in 1 .. Len(Room) <=> i # m
        BY <3>3
      <3>5. QED
        BY <3>1, <3>2, <3>4 DEF m
    <2>5. QED
      BY <1>1, <2>1, <2>2, <2>3, <2>4 DEF Last
  <1>3. CASE ~IsFull
    <2>1. Room = list /\ Dropped = {} /\ Len(list) < Capacity
      BY <1>1, <1>3 DEF IsFull, Room, Dropped
    <2>2. \A i \in 1 .. Len(list) : list[i] \in InList \ Dropped
      BY <1>1, <2>1 DEF InList
    <2>3. /\ Room \in Seq(Node) /\ DOMAIN Room = 1 .. Len(Room)
          /\ Len(Room) \in Nat /\ Len(Room) < Capacity
          /\ Len(Room) <= Len(list)
          /\ \A i \in 1 .. Len(Room) : Room[i] = list[i]
          /\ Dropped \subseteq InList
      BY <1>1, <2>1
    <2>4. \A i \in 1 .. Len(list) : list[i] \in InList \ Dropped <=>
             i \in 1 .. Len(Room)
      BY <2>1, <2>2
    <2>5. QED
      BY <1>3, <2>3, <2>4
  <1>4. QED
    BY <1>2, <1>3

\* push_front has failed.
LEMMA Roomed ==
  ASSUME Inv, list' = Room
  PROVE  /\ list' \in Seq(Node) /\ Len(list') <= Capacity
         /\ NoTwice'
         /\ InList' = InList \ Dropped
         /\ Shifts(InList \ Dropped)
  <1>1. /\ list' \in Seq(Node) /\ DOMAIN list' = 1 .. Len(list')
        /\ Len(list') \in Nat /\ Len(list') < Capacity
        /\ Len(list') <= Len(list)
        /\ \A i \in 1 .. Len(list') : list'[i] = list[i]
        /\ \A i \in 1 .. Len(list) : list[i] \in InList \ Dropped <=>
              i \in 1 .. Len(list')
    BY RoomFacts
  <1>2. /\ DOMAIN list = 1 .. Len(list) /\ Len(list) \in Nat
        /\ Capacity \in Nat
        /\ \A i, j \in 1 .. Len(list) : list[i] = list[j] => i = j
    BY ListFacts
  <1>3. NoTwice'
    BY <1>1, <1>2 DEF NoTwice
  <1>4. Shifts(InList \ Dropped)
    BY <1>1, <1>2 DEF Shifts
  <1>5. InList' = InList \ Dropped
    <2>1. InList' = {list'[j] : j \in DOMAIN list'}
      BY DEF InList
    <2>2. \A j \in DOMAIN list' : list'[j] \in InList \ Dropped
      BY <1>1, <1>2
    <2>3. \A i \in DOMAIN list : list[i] \in InList \ Dropped => list[i] \in InList'
      BY <1>1, <1>2, <2>1
    <2>4. InList' \subseteq InList \ Dropped
      BY <2>1, <2>2
    <2>5. InList \ Dropped \subseteq InList'
      BY <2>3 DEF InList
    <2>6. QED
      BY <2>4, <2>5
  <1>6. QED
    BY <1>1, <1>2, <1>3, <1>4, <1>5

\* A new node has been put in front.
LEMMA PushedElements ==
  ASSUME Inv, NEW n \in Node, Fresh(n), list' = <<n>> \o Room
  PROVE  /\ list' \in Seq(Node) /\ list'[1] = n
         /\ DOMAIN list' = 1 .. Len(Room) + 1 /\ Len(list') <= Capacity
         /\ \A j \in 2 .. Len(Room) + 1 : /\ list'[j] = list[j - 1]
                                          /\ j - 1 \in 1 .. Len(Room)
                                          /\ list'[j] # n
  <1> DEFINE R == Room
  <1>1. /\ R \in Seq(Node) /\ DOMAIN R = 1 .. Len(R)
        /\ Len(R) \in Nat /\ Len(R) < Capacity
        /\ Len(R) <= Len(list)
        /\ \A i \in 1 .. Len(R) : R[i] = list[i]
        /\ \A i \in 1 .. Len(list) : list[i] \in InList \ Dropped <=>
              i \in 1 .. Len(R)
    BY RoomFacts
  <1>2. /\ DOMAIN list = 1 .. Len(list) /\ Len(list) \in Nat
        /\ Capacity \in Nat
        /\ \A i, j \in 1 .. Len(list) : list[i] = list[j] => i = j
    BY ListFacts
  <1>3. n \notin InList \ Dropped
    BY DEF Fresh
  <1> HIDE DEF R
  <1>4. /\ list' \in Seq(Node) /\ Len(list') = Len(R) + 1
        /\ list'[1] = n
        /\ \A j \in 2 .. Len(R) + 1 : list'[j] = R[j - 1]
    <2>1. <<n>> \in Seq(Node) /\ Len(<<n>>) = 1 /\ <<n>>[1] = n
      OBVIOUS
    <2>2. list' = <<n>> \o R
      BY DEF R
    <2>3. /\ <<n>> \o R \in Seq(Node) /\ Len(<<n>> \o R) = 1 + Len(R)
          /\ \A j \in 1 .. 1 + Len(R) :
                (<<n>> \o R)[j] = IF j <= 1 THEN <<n>>[j] ELSE R[j - 1]
      BY <2>1, <1>1, ConcatProperties
    <2>4. /\ 1 \in 1 .. 1 + Len(R)
          /\ \A j \in 2 .. Len(R) + 1 : j \in 1 .. 1 + Len(R) /\ ~ (j <= 1)
      BY <1>1
    <2>5. list'[1] = n /\ \A j \in 2 .. Len(R) + 1 : list'[j] = R[j - 1]
      BY <2>1, <2>2, <2>3, <2>4
    <2>6. 1 + Len(R) = Len(R) + 1
      BY <1>1
    <2>7. QED
      BY <2>2, <2>3, <2>5, <2>6
  <1>5. /\ DOMAIN list' = 1 .. Len(R) + 1 /\ Len(list') <= Capacity
        /\ \A j \in 2 .. Len(R) + 1 : /\ list'[j] = list[j - 1]
                                      /\ j - 1 \in 1 .. Len(R)
                                      /\ list'[j] # n
    <2>1. DOMAIN list' = 1 .. Len(R) + 1 /\ Len(list') <= Capacity
      BY <1>1, <1>2, <1>4
    <2>2. ASSUME NEW j \in 2 .. Len(R) + 1
          PROVE  /\ list'[j] = list[j - 1] /\ j - 1 \in 1 .. Len(R)
                 /\ list'[j] # n
      <3>1. j - 1 \in 1 .. Len(R) /\ j - 1 \in 1 .. Len(list)
        BY <1>1, <1>2
      <3>2. list'[j] = list[j - 1]
        BY <3>1, <1>1, <1>4
      <3>3. list[j - 1] \in InList \ Dropped
        BY <3>1, <1>1
      <3>4. QED
        BY <3>1, <3>2, <3>3, <1>3
    <2>3. QED
      BY <2>1, <2>2
  <1>6. QED
    BY <1>4, <1>5 DEF R

LEMMA PushedFront ==
  ASSUME Inv, NEW n \in Node, Fresh(n), list' = <<n>> \o Room
  PROVE  /\ list' \in Seq(Node) /\ Len(list') <= Capacity
         /\ NoTwice'
         /\ InList' = (InList \ Dropped) \cup {n} /\ n \notin InList \ Dropped
         /\ Shifts(InList \ Dropped)
  <1> DEFINE R == Room
  <1>1. /\ R \in Seq(Node) /\ DOMAIN R = 1 .. Len(R)
        /\ Len(R) \in Nat /\ Len(R) < Capacity
        /\ Len(R) <= Len(list)
        /\ \A i \in 1 .. Len(R) : R[i] = list[i]
        /\ \A i \in 1 .. Len(list) : list[i] \in InList \ Dropped <=>
              i \in 1 .. Len(R)
    BY RoomFacts
  <1>2. /\ DOMAIN list = 1 .. Len(list) /\ Len(list) \in Nat
        /\ Capacity \in Nat
        /\ \A i, j \in 1 .. Len(list) : list[i] = list[j] => i = j
    BY ListFacts
  <1>3. n \notin InList \ Dropped
    BY DEF Fresh
  <1>4. list' \in Seq(Node) /\ list'[1] = n
    BY PushedElements
  <1>5. /\ DOMAIN list' = 1 .. Len(R) + 1 /\ Len(list') <= Capacity
        /\ \A j \in 2 .. Len(R) + 1 : /\ list'[j] = list[j - 1]
                                      /\ j - 1 \in 1 .. Len(R)
                                      /\ list'[j] # n
    BY PushedElements
  <1> HIDE DEF R
  <1>6. NoTwice'
    <2> SUFFICES ASSUME NEW i \in 1 .. Len(R) + 1, NEW j \in 1 .. Len(R) + 1,
                        list'[i] = list'[j]
                 PROVE  i = j
      BY <1>5 DEF NoTwice
    <2>1. CASE i = 1 \/ j = 1
      BY <2>1, <1>1, <1>4, <1>5
    <2>2. CASE i # 1 /\ j # 1
      <3>1. i \in 2 .. Len(R) + 1 /\ j \in 2 .. Len(R) + 1
        BY <2>2, <1>1
      <3>2. /\ list[i - 1] = list[j - 1]
            /\ i - 1 \in 1 .. Len(list) /\ j - 1 \in 1 .. Len(list)
        BY <3>1, <1>1, <1>2, <1>5
      <3>3. i - 1 = j - 1
        BY <3>2, <1>2
      <3>4. QED
        BY <3>3
    <2>3. QED
      BY <2>1, <2>2
  <1>7. Shifts(InList \ Dropped)
    <2> SUFFICES ASSUME NEW i \in 1 .. Len(list), list[i] \in InList \ Dropped
                 PROVE  \E j \in DOMAIN list' : list'[j] = list[i] /\ j <= i + 1
      BY <1>2 DEF Shifts
    <2>1. i \in 1 .. Len(R)
      BY <1>1
    <2>2. i + 1 \in 2 .. Len(R) + 1 /\ i + 1 \in DOMAIN list' /\ (i + 1) - 1 = i
      BY <2>1, <1>1, <1>5
    <2>3. list'[i + 1] = list[i]
      BY <2>2, <1>5
    <2>4. QED
      BY <2>2, <2>3
  <1>8. InList' = (InList \ Dropped) \cup {n}
    <2>1. InList' = {list'[j] : j \in DOMAIN list'}
      BY DEF InList
    <2>2. ASSUME NEW j \in DOMAIN list'
          PROVE  list'[j] \in (InList \ Dropped) \cup {n}
      <3>1. CASE j = 1
        BY <3>1, <1>4
      <3>2. CASE j # 1
        <4>1. j \in 2 .. Len(R) + 1
          BY <3>2, <1>1, <1>5
        <4>2. /\ list'[j] = list[j - 1] /\ j - 1 \in 1 .. Len(R)
              /\ j - 1 \in 1 .. Len(list)
          BY <4>1, <1>1, <1>2, <1>5
        <4>3. QED
          BY <4>2, <1>1
      <3>3. QED
        BY <3>1, <3>2
    <2>3. ASSUME NEW x \in InList \ Dropped
          PROVE  x \in InList'
      <3>1. PICK i \in DOMAIN list : list[i] = x
        BY DEF InList
      <3>2. QED
        BY <3>1, <1>7, <2>1 DEF Shifts
    <2>4. n \in InList'
      <3>1. 1 \in DOMAIN list'
        BY <1>1, <1>5
      <3>2. QED
        BY <3>1, <2>1, <1>4
    <2>5. InList' \subseteq (InList \ Dropped) \cup {n}
      BY <2>1, <2>2
    <2>6. QED
      BY <2>3, <2>4, <2>5
  <1>9. QED
    BY <1>3, <1>4, <1>5, <1>6, <1>7, <1>8

(***************************************************************************)
(* The map, and the nodes without an entry                                 *)
(***************************************************************************)
OrphansIn(S, m) == {n \in S : m[key[n]] # n}

\* Unmapping the key of the last node costs no more orphans than there were:
\* the node that the key was mapped to becomes one only if the last was one.
LEMMA DropLast ==
  ASSUME Inv
  PROVE  LET left == InList \ Dropped
         IN /\ MapLess \in [Key -> Node \cup {None}]
            /\ \A k \in Key : MapLess[k] # None =>
                  MapLess[k] \in left /\ key[MapLess[k]] = k
            /\ \A k \in Key : map[k] = None => MapLess[k] = None
            /\ IsFiniteSet(OrphansIn(left, MapLess))
            /\ Cardinality(OrphansIn(left, MapLess)) <= throws
  <1> DEFINE left == InList \ Dropped
             O == OrphansIn(left, MapLess)
  <1>1. /\ map \in [Key -> Node \cup {None}] /\ key \in [Node -> Key]
        /\ \A k \in Key : map[k] # None => map[k] \in InList /\ key[map[k]] = k
        /\ throws \in Nat /\ Cardinality(Orphans) <= throws
    BY DEF Inv, TypeOK, Sound
  <1>2. /\ InList \subseteq Node /\ IsFiniteSet(InList) /\ None \notin Node
    BY ListFacts
  <1>3. /\ Orphans = OrphansIn(InList, map) /\ IsFiniteSet(Orphans)
        /\ Cardinality(Orphans) \in Nat
    <2>1. Orphans = OrphansIn(InList, map) /\ Orphans \subseteq InList
      BY DEF Orphans, OrphansIn
    <2>2. QED
      BY <2>1, <1>2, FS_Subset, FS_CardinalityType
  <1>4. CASE IsFull
    <2> DEFINE l == Last
               g == map[key[l]]
    <2>1. l \in InList /\ l \in Node /\ key[l] \in Key
      BY <1>1, <1>2, <1>4, RoomFacts
    <2>2. /\ MapLess = [map EXCEPT ![key[l]] = None] /\ left = InList \ {l}
      BY <1>4 DEF MapLess, Dropped
    <2> HIDE DEF l
    <2>3. /\ MapLess \in [Key -> Node \cup {None}]
          /\ MapLess[key[l]] = None
          /\ \A k \in Key : k # key[l] => MapLess[k] = map[k]
      BY <1>1, <2>1, <2>2
    <2>4. \A k \in Key : MapLess[k] # None =>
             MapLess[k] \in left /\ key[MapLess[k]] = k
      BY <1>1, <2>2, <2>3
    <2> HIDE DEF left
    <2>5. O \subseteq (Orphans \ {l}) \cup {g}
      <3> SUFFICES ASSUME NEW n \in O, n # g
                   PROVE  n \in Orphans /\ n # l
        OBVIOUS
      <3>1. n \in InList /\ n # l /\ n \in Node /\ MapLess[key[n]] # n
        BY <1>2, <2>2 DEF OrphansIn
      <3>2. map[key[n]] # n
        BY <3>1, <1>1, <2>3
      <3>3. QED
        BY <3>1, <3>2 DEF Orphans
    <2>6. g \in {l} \/ l \in Orphans
      BY <2>1 DEF Orphans
    <2>7. /\ IsFiniteSet(O) /\ Cardinality(O) <= Cardinality(Orphans)
      <3>1. CASE l \in Orphans
        <4>1. /\ IsFiniteSet(Orphans \ {l})
              /\ Cardinality(Orphans \ {l}) = Cardinality(Orphans) - 1
          BY <3>1, <1>3, FS_RemoveElement
        <4>2. /\ IsFiniteSet((Orphans \ {l}) \cup {g})
              /\ Cardinality((Orphans \ {l}) \cup {g}) <= Cardinality(Orphans)
          <5> DEFINE P == Orphans \ {l}
          <5>1. IsFiniteSet(P) /\ Cardinality(P) \in Nat
            BY <4>1, FS_CardinalityType
          <5> HIDE DEF P, g
          <5>2. /\ IsFiniteSet(P \cup {g})
                /\ \/ Cardinality(P \cup {g}) = Cardinality(P)
                   \/ Cardinality(P \cup {g}) = Cardinality(P) + 1
            BY <5>1, FS_AddElement
          <5>3. QED
            BY <5>1, <5>2, <4>1, <1>3 DEF P
        <4>3. /\ IsFiniteSet(O) /\ Cardinality(O) \in Nat
              /\ Cardinality(O) <= Cardinality((Orphans \ {l}) \cup {g})
              /\ Cardinality((Orphans \ {l}) \cup {g}) \in Nat
          BY <4>2, <2>5, FS_Subset, FS_CardinalityType
        <4>4. QED
          BY <4>2, <4>3, <1>3
      <3>2. CASE l \notin Orphans
        <4>1. l \notin O
          BY <2>2 DEF OrphansIn
        <4>2. O \subseteq Orphans
          BY <3>2, <4>1, <2>5, <2>6
        <4>3. QED
          BY <4>2, <1>3, FS_Subset
      <3>3. QED
        BY <3>1, <3>2
    <2>8. Cardinality(O) <= throws
      BY <2>7, <1>1, <1>3, FS_CardinalityType
    <2>9. \A k \in Key : map[k] = None => MapLess[k] = None
      BY <2>3
    <2>10. QED
      BY <2>3, <2>4, <2>7, <2>8, <2>9 DEF left
  <1>5. CASE ~IsFull
    <2>1. MapLess = map /\ left = InList
      BY <1>5 DEF MapLess, Dropped
    <2>2. QED
      BY <2>1, <1>1, <1>3
  <1>6. QED
    BY <1>4, <1>5

(***************************************************************************)
(* The pointers that callers keep                                          *)
(***************************************************************************)
LEMMA PointerFacts ==
  ASSUME IInv, NEW c \in Caller
  PROVE  /\ ptr[c] \in Node \cup {None} /\ age[c] \in 0 .. Capacity
         /\ dangling[c] \in BOOLEAN
         /\ dangling[c] => age[c] >= Capacity
         /\ Older(age[c]) \in 0 .. Capacity
         /\ Older(age[c]) >= age[c]
         /\ age[c] < Capacity => Older(age[c]) = age[c] + 1
         /\ age[c] >= Capacity => Older(age[c]) = Capacity
  <1>1. /\ ptr[c] \in Node \cup {None} /\ age[c] \in 0 .. Capacity
        /\ dangling[c] \in BOOLEAN
        /\ dangling[c] => age[c] >= Capacity
    BY DEF IInv, Inv, TypeOK, PointerGood
  <1>2. Capacity \in Nat
    BY CacheAssumption
  <1>3. QED
    BY <1>1, <1>2 DEF Older

\* A pointer that its caller keeps during a call that shifts the list and
\* deletes the nodes of gone.
LEMMA Keeps ==
  ASSUME IInv, NEW c \in Caller, NEW gone,
         gone \subseteq {x \in {list[Len(list)]} : Len(list) = Capacity},
         list' \in Seq(Node), Len(list') <= Capacity, Shifts(InList \ gone),
         ptr'[c] = ptr[c], age'[c] = Older(age[c]),
         dangling'[c] = (dangling[c] \/ ptr[c] \in gone)
  PROVE  /\ dangling'[c] => age'[c] >= Capacity
         /\ ptr'[c] # None /\ ~dangling'[c] =>
               /\ ptr'[c] \in InList'
               /\ \E i \in DOMAIN list' : list'[i] = ptr'[c] /\ i <= age'[c] + 1
  <1>1. /\ Capacity \in Nat \ {0} /\ None \notin Node
        /\ DOMAIN list = 1 .. Len(list) /\ Len(list) \in Nat
        /\ \A i, j \in 1 .. Len(list) : list[i] = list[j] => i = j
        /\ \A i \in 1 .. Len(list) : list[i] \in Node
    BY ListFacts DEF IInv
  <1> DEFINE a == age[c]
             b == age'[c]
  <1>2. /\ a \in Nat /\ b \in Nat /\ Capacity \in Nat
        /\ dangling[c] => a >= Capacity
        /\ a < Capacity => b = a + 1
        /\ a >= Capacity => b = Capacity
    <2>1. /\ a \in 0 .. Capacity /\ b \in 0 .. Capacity
          /\ dangling[c] => a >= Capacity
          /\ a < Capacity => b = a + 1
          /\ a >= Capacity => b = Capacity
      BY PointerFacts
    <2> HIDE DEF a, b
    <2>2. Capacity \in Nat
      BY <1>1
    <2>3. a \in Nat /\ b \in Nat
      BY <2>1, <2>2
    <2>4. QED
      BY <2>1, <2>2, <2>3
  <1>3. ASSUME ptr[c] # None, ~dangling[c]
        PROVE  \E i \in 1 .. Len(list) : list[i] = ptr[c] /\ i <= a + 1
    BY <1>1, <1>3 DEF IInv, Recent
  <1> HIDE DEF a, b
  <1>4. ASSUME dangling'[c]
        PROVE  b >= Capacity
    <2>1. CASE dangling[c]
      BY <2>1, <1>2
    <2>2. CASE ~dangling[c]
      <3>1. /\ ptr[c] \in gone /\ Len(list) = Capacity
            /\ ptr[c] = list[Len(list)]
        BY <2>2, <1>4
      <3>2. Len(list) \in 1 .. Len(list)
        BY <3>1, <1>1
      <3>3. PICK i \in 1 .. Len(list) : list[i] = ptr[c] /\ i <= a + 1
        BY <2>2, <3>1, <3>2, <1>1, <1>3
      <3>4. i = Len(list)
        BY <3>1, <3>2, <3>3, <1>1
      <3>5. Capacity <= a + 1
        BY <3>1, <3>3, <3>4
      <3>6. QED
        BY <3>5, <1>2
    <2>3. QED
      BY <2>1, <2>2
  <1>5. ASSUME ptr'[c] # None, ~dangling'[c]
        PROVE  /\ ptr'[c] \in InList'
               /\ \E i \in DOMAIN list' : list'[i] = ptr'[c] /\ i <= b + 1
    <2>1. ptr[c] # None /\ ~dangling[c] /\ ptr[c] \notin gone
      BY <1>5
    <2>2. PICK i \in 1 .. Len(list) : list[i] = ptr[c] /\ i <= a + 1
      BY <2>1, <1>3
    <2>3. list[i] \in InList \ gone
      BY <2>1, <2>2, <1>1 DEF InList
    <2>4. PICK j \in DOMAIN list' : list'[j] = list[i] /\ j <= i + 1
      BY <2>3, <1>1 DEF Shifts
    <2>5. j \in Nat /\ j <= Capacity /\ i \in Nat
      <3>1. DOMAIN list' = 1 .. Len(list') /\ Len(list') \in Nat
        OBVIOUS
      <3>2. QED
        BY <3>1, <1>2
    <2>6. j <= b + 1
      BY <2>2, <2>4, <2>5, <1>2
    <2>7. list'[j] \in InList'
      BY DEF InList
    <2>8. QED
      BY <2>2, <2>4, <2>6, <2>7
  <1>6. QED
    BY <1>4, <1>5 DEF b

\* A call that returns no pointer.
LEMMA AgesKeeps ==
  ASSUME IInv, NEW gone, Ages(gone),
         gone \subseteq {x \in {list[Len(list)]} : Len(list) = Capacity},
         list' \in Seq(Node), Len(list') <= Capacity, Shifts(InList \ gone)
  PROVE  /\ ptr' \in [Caller -> Node \cup {None}]
         /\ age' \in [Caller -> 0 .. Capacity]
         /\ dangling' \in [Caller -> BOOLEAN]
         /\ PointerGood' /\ Recent'
  <1>1. /\ age' = [c \in Caller |-> Older(age[c])]
        /\ dangling' = [c \in Caller |-> dangling[c] \/ ptr[c] \in gone]
        /\ ptr' = ptr
    BY DEF Ages
  <1>2. ASSUME NEW c \in Caller
        PROVE  /\ dangling'[c] => age'[c] >= Capacity
               /\ ptr'[c] # None /\ ~dangling'[c] =>
                     /\ ptr'[c] \in InList'
                     /\ \E i \in DOMAIN list' :
                           list'[i] = ptr'[c] /\ i <= age'[c] + 1
    BY <1>1, Keeps
  <1>3. /\ ptr' \in [Caller -> Node \cup {None}]
        /\ age' \in [Caller -> 0 .. Capacity]
        /\ dangling' \in [Caller -> BOOLEAN]
    BY <1>1, PointerFacts DEF IInv, Inv, TypeOK
  <1>4. QED
    BY <1>2, <1>3 DEF PointerGood, Recent

LEMMA NoneGone ==
  /\ {} \subseteq {x \in {list[Len(list)]} : Len(list) = Capacity}
  /\ Inv => Dropped \subseteq {x \in {list[Len(list)]} : Len(list) = Capacity}
  BY RoomFacts DEF Dropped, Last

(***************************************************************************)
(* One lemma per call                                                      *)
(***************************************************************************)

\* Moving a node to the front changes nothing about the map.
LEMMA FrontedSound ==
  ASSUME Inv, NEW n, ToFront(n), map' = map, key' = key, throws' = throws
  PROVE  Sound'
  <1>1. NoTwice' /\ InList' = InList
    BY Fronted
  <1>2. Orphans' = Orphans
    BY <1>1 DEF Orphans
  <1>3. QED
    BY <1>1, <1>2 DEF Inv, Sound, NoTwice

LEMMA GetInv ==
  ASSUME IInv, NEW c \in Caller, NEW k \in Key, Get(c, k)
  PROVE  IInv'
  <1> DEFINE n == map[k]
  <1>1. /\ ToFront(n) /\ ptr' = [ptr EXCEPT ![c] = n]
        /\ age' = [d \in Caller |-> IF d = c THEN 0 ELSE Older(age[d])]
        /\ dangling' = [dangling EXCEPT ![c] = FALSE]
        /\ map' = map /\ key' = key /\ val' = val /\ throws' = throws
    BY DEF Get
  <1> HIDE DEF n
  <1>2. /\ list' \in Seq(Node) /\ Len(list') <= Capacity
        /\ InList' = InList /\ n \in InList /\ n \in Node
        /\ 1 \in DOMAIN list' /\ list'[1] = n
        /\ Shifts(InList)
    BY <1>1, Fronted, ListFacts DEF IInv
  <1>3. /\ ptr' \in [Caller -> Node \cup {None}]
        /\ age' \in [Caller -> 0 .. Capacity]
        /\ dangling' \in [Caller -> BOOLEAN]
    <2>1. Capacity \in Nat
      BY CacheAssumption
    <2>2. age' \in [Caller -> 0 .. Capacity]
      BY <1>1, <2>1, PointerFacts
    <2>3. QED
      BY <1>1, <1>2, <2>2 DEF IInv, Inv, TypeOK
  <1>4. TypeOK'
    BY <1>1, <1>2, <1>3 DEF IInv, Inv, TypeOK
  <1>5. Sound'
    BY <1>1, FrontedSound DEF IInv
  <1>6. ASSUME NEW d \in Caller
        PROVE  /\ dangling'[d] => age'[d] >= Capacity
               /\ ptr'[d] # None /\ ~dangling'[d] =>
                     /\ ptr'[d] \in InList'
                     /\ \E i \in DOMAIN list' :
                           list'[i] = ptr'[d] /\ i <= age'[d] + 1
    <2>1. CASE d = c
      <3>1. ptr'[d] = n /\ age'[d] = 0 /\ dangling'[d] = FALSE
        BY <2>1, <1>1 DEF IInv, Inv, TypeOK
      <3>2. 1 <= 0 + 1
        OBVIOUS
      <3>3. QED
        BY <3>1, <3>2, <1>2
    <2>2. CASE d # c
      <3>1. /\ ptr'[d] = ptr[d] /\ age'[d] = Older(age[d])
            /\ dangling'[d] = dangling[d]
        BY <2>2, <1>1 DEF IInv, Inv, TypeOK
      <3>2. dangling'[d] = (dangling[d] \/ ptr[d] \in {})
        BY <3>1, PointerFacts
      <3>3. InList \ {} = InList
        OBVIOUS
      <3>4. Shifts(InList \ {})
        BY <3>3, <1>2
      <3>5. QED
        BY <3>1, <3>2, <3>4, <1>2, Keeps, NoneGone
    <2>3. QED
      BY <2>1, <2>2
  <1>7. PointerGood' /\ Recent'
    BY <1>6 DEF PointerGood, Recent
  <1>8. QED
    BY <1>4, <1>5, <1>7 DEF IInv, Inv

LEMMA PutExistingInv ==
  ASSUME IInv, NEW k \in Key, NEW v \in Value, PutExisting(k, v)
  PROVE  IInv'
  <1>1. /\ ToFront(map[k]) /\ Ages({}) /\ val' = [val EXCEPT ![map[k]] = v]
        /\ map' = map /\ key' = key /\ throws' = throws
    BY DEF PutExisting
  <1>2. /\ list' \in Seq(Node) /\ Len(list') <= Capacity
        /\ Shifts(InList)
    BY <1>1, Fronted DEF IInv
  <1>3. InList \ {} = InList
    OBVIOUS
  <1>4. Shifts(InList \ {})
    BY <1>2, <1>3
  <1>5. /\ ptr' \in [Caller -> Node \cup {None}]
        /\ age' \in [Caller -> 0 .. Capacity]
        /\ dangling' \in [Caller -> BOOLEAN]
        /\ PointerGood' /\ Recent'
    BY <1>1, <1>2, <1>4, AgesKeeps, NoneGone
  <1>6. TypeOK'
    BY <1>1, <1>2, <1>5 DEF IInv, Inv, TypeOK
  <1>7. Sound'
    BY <1>1, FrontedSound DEF IInv
  <1>8. QED
    BY <1>5, <1>6, <1>7 DEF IInv, Inv

LEMMA PutNewInv ==
  ASSUME IInv, NEW k \in Key, NEW v \in Value, PutNew(k, v)
  PROVE  IInv'
  <1> DEFINE left == InList \ Dropped
             O == OrphansIn(left, MapLess)
  <1>1. PICK n \in Node :
          /\ Fresh(n) /\ list' = <<n>> \o Room
          /\ key' = [key EXCEPT ![n] = k] /\ val' = [val EXCEPT ![n] = v]
          /\ map' = [MapLess EXCEPT ![k] = n]
    BY DEF PutNew
  <1>2. map[k] = None /\ Ages(Dropped) /\ throws' = throws
    BY DEF PutNew
  <1>3. /\ list' \in Seq(Node) /\ Len(list') <= Capacity
        /\ NoTwice'
        /\ InList' = left \cup {n} /\ n \notin left
        /\ Shifts(left)
    BY <1>1, PushedFront DEF IInv
  <1>4. /\ ptr' \in [Caller -> Node \cup {None}]
        /\ age' \in [Caller -> 0 .. Capacity]
        /\ dangling' \in [Caller -> BOOLEAN]
        /\ PointerGood' /\ Recent'
    BY <1>2, <1>3, AgesKeeps, NoneGone DEF IInv
  <1>5. /\ MapLess \in [Key -> Node \cup {None}]
        /\ \A j \in Key : MapLess[j] # None =>
              MapLess[j] \in left /\ key[MapLess[j]] = j
        /\ MapLess[k] = None
        /\ Cardinality(O) <= throws
    BY <1>2, DropLast DEF IInv
  <1>6. left \subseteq Node /\ None \notin Node
    BY ListFacts DEF IInv
  <1> HIDE DEF left, O
  <1>7. /\ key' \in [Node -> Key] /\ val' \in [Node -> Value]
        /\ map' \in [Key -> Node \cup {None}]
        /\ key'[n] = k /\ map'[k] = n
        /\ \A m \in left : key'[m] = key[m]
        /\ \A j \in Key : j # k => map'[j] = MapLess[j]
    BY <1>1, <1>3, <1>5, <1>6 DEF IInv, Inv, TypeOK
  <1>8. TypeOK'
    BY <1>2, <1>3, <1>4, <1>7 DEF IInv, Inv, TypeOK
  <1>9. ASSUME NEW j \in Key, map'[j] # None
        PROVE  map'[j] \in InList' /\ key'[map'[j]] = j
    <2>1. CASE j = k
      BY <2>1, <1>3, <1>7
    <2>2. CASE j # k
      BY <2>2, <1>3, <1>5, <1>7, <1>9
    <2>3. QED
      BY <2>1, <2>2
  <1>10. Orphans' = O
    <2>1. Orphans' = {m \in left \cup {n} : map'[key'[m]] # m}
      BY <1>3 DEF Orphans
    <2>2. ASSUME NEW m \in left
          PROVE  map'[key'[m]] # m <=> MapLess[key[m]] # m
      <3>1. key'[m] = key[m] /\ key[m] \in Key /\ m # n /\ m # None
        BY <1>3, <1>6, <1>7 DEF IInv, Inv, TypeOK
      <3>2. CASE key[m] = k
        BY <3>1, <3>2, <1>5, <1>7
      <3>3. CASE key[m] # k
        BY <3>1, <3>3, <1>7
      <3>4. QED
        BY <3>2, <3>3
    <2>3. QED
      BY <2>1, <2>2, <1>7 DEF O, OrphansIn
  <1>11. Sound'
    BY <1>2, <1>3, <1>5, <1>9, <1>10 DEF Sound, NoTwice
  <1>12. QED
    BY <1>4, <1>8, <1>11 DEF IInv, Inv

LEMMA PutThrowsInListInv ==
  ASSUME IInv, NEW k \in Key, PutThrowsInList(k)
  PROVE  IInv'
  <1> DEFINE left == InList \ Dropped
             O == OrphansIn(left, MapLess)
  <1>1. /\ Ages(Dropped) /\ throws' = throws + 1
        /\ list' = Room /\ map' = MapLess /\ key' = key /\ val' = val
    BY DEF PutThrowsInList
  <1>2. /\ list' \in Seq(Node) /\ Len(list') <= Capacity
        /\ NoTwice' /\ InList' = left /\ Shifts(left)
    BY <1>1, Roomed DEF IInv
  <1>3. /\ ptr' \in [Caller -> Node \cup {None}]
        /\ age' \in [Caller -> 0 .. Capacity]
        /\ dangling' \in [Caller -> BOOLEAN]
        /\ PointerGood' /\ Recent'
    BY <1>1, <1>2, AgesKeeps, NoneGone DEF IInv
  <1>4. /\ MapLess \in [Key -> Node \cup {None}]
        /\ \A j \in Key : MapLess[j] # None =>
              MapLess[j] \in left /\ key[MapLess[j]] = j
        /\ IsFiniteSet(O) /\ Cardinality(O) <= throws
    BY DropLast DEF IInv
  <1>5. Orphans' = O
    BY <1>1, <1>2 DEF Orphans, OrphansIn
  <1> HIDE DEF left, O
  <1>6. Cardinality(Orphans') <= throws'
    <2>1. throws \in Nat /\ Cardinality(O) \in Nat
      BY <1>4, FS_CardinalityType DEF IInv, Inv, TypeOK
    <2>2. QED
      BY <2>1, <1>1, <1>4, <1>5
  <1>7. TypeOK'
    BY <1>1, <1>2, <1>3, <1>4 DEF IInv, Inv, TypeOK
  <1>8. Sound'
    BY <1>1, <1>2, <1>4, <1>6 DEF Sound, NoTwice
  <1>9. QED
    BY <1>3, <1>7, <1>8 DEF IInv, Inv

LEMMA PutThrowsInMapInv ==
  ASSUME IInv, NEW k \in Key, NEW v \in Value, PutThrowsInMap(k, v)
  PROVE  IInv'
  <1> DEFINE left == InList \ Dropped
             O == OrphansIn(left, MapLess)
  <1>1. PICK n \in Node :
          /\ Fresh(n) /\ list' = <<n>> \o Room
          /\ key' = [key EXCEPT ![n] = k] /\ val' = [val EXCEPT ![n] = v]
          /\ map' = MapLess
    BY DEF PutThrowsInMap
  <1>2. map[k] = None /\ Ages(Dropped) /\ throws' = throws + 1
    BY DEF PutThrowsInMap
  <1>3. /\ list' \in Seq(Node) /\ Len(list') <= Capacity
        /\ NoTwice'
        /\ InList' = left \cup {n} /\ n \notin left
        /\ Shifts(left)
    BY <1>1, PushedFront DEF IInv
  <1>4. /\ ptr' \in [Caller -> Node \cup {None}]
        /\ age' \in [Caller -> 0 .. Capacity]
        /\ dangling' \in [Caller -> BOOLEAN]
        /\ PointerGood' /\ Recent'
    BY <1>2, <1>3, AgesKeeps, NoneGone DEF IInv
  <1>5. /\ MapLess \in [Key -> Node \cup {None}]
        /\ \A j \in Key : MapLess[j] # None =>
              MapLess[j] \in left /\ key[MapLess[j]] = j
        /\ IsFiniteSet(O) /\ Cardinality(O) <= throws
    BY DropLast DEF IInv
  <1>6. left \subseteq Node
    BY ListFacts DEF IInv
  <1> HIDE DEF left, O
  <1>7. /\ key' \in [Node -> Key] /\ val' \in [Node -> Value]
        /\ \A m \in left : key'[m] = key[m]
    BY <1>1, <1>3, <1>6 DEF IInv, Inv, TypeOK
  <1>8. TypeOK'
    BY <1>1, <1>2, <1>3, <1>4, <1>5, <1>7 DEF IInv, Inv, TypeOK
  <1>9. \A j \in Key : map'[j] # None =>
           map'[j] \in InList' /\ key'[map'[j]] = j
    BY <1>1, <1>3, <1>5, <1>7
  <1>10. Orphans' \subseteq O \cup {n}
    <2>1. Orphans' = {m \in left \cup {n} : map'[key'[m]] # m}
      BY <1>3 DEF Orphans
    <2>2. QED
      BY <2>1, <1>1, <1>7 DEF O, OrphansIn
  <1>11. Cardinality(Orphans') <= throws'
    <2>1. /\ IsFiniteSet(O \cup {n})
          /\ \/ Cardinality(O \cup {n}) = Cardinality(O)
             \/ Cardinality(O \cup {n}) = Cardinality(O) + 1
      BY <1>5, FS_AddElement
    <2>2. Cardinality(O) \in Nat /\ Cardinality(O \cup {n}) \in Nat
      BY <1>5, <2>1, FS_CardinalityType
    <2>3. /\ IsFiniteSet(Orphans')
          /\ Cardinality(Orphans') <= Cardinality(O \cup {n})
      BY <1>10, <2>1, FS_Subset
    <2>4. Cardinality(Orphans') \in Nat
      BY <2>3, FS_CardinalityType
    <2>5. throws \in Nat
      BY DEF IInv, Inv, TypeOK
    <2>6. QED
      BY <2>1, <2>2, <2>3, <2>4, <2>5, <1>2, <1>5
  <1>12. Sound'
    BY <1>3, <1>9, <1>11 DEF Sound, NoTwice
  <1>13. QED
    BY <1>4, <1>8, <1>12 DEF IInv, Inv

(***************************************************************************)
(* The theorems                                                            *)
(***************************************************************************)
LEMMA InitInv == Init => IInv
  <1> SUFFICES ASSUME Init
               PROVE  IInv
    OBVIOUS
  <1>1. /\ list = <<>> /\ map = [k \in Key |-> None]
        /\ key \in [Node -> Key] /\ val \in [Node -> Value]
        /\ ptr = [c \in Caller |-> None] /\ age = [c \in Caller |-> 0]
        /\ dangling = [c \in Caller |-> FALSE] /\ throws = 0
    BY DEF Init
  <1>2. Capacity \in Nat
    BY CacheAssumption
  <1>3. TypeOK
    <2>1. list \in Seq(Node) /\ Len(list) <= Capacity
      BY <1>1, <1>2
    <2>2. age \in [Caller -> 0 .. Capacity]
      BY <1>1, <1>2
    <2>3. QED
      BY <1>1, <2>1, <2>2 DEF TypeOK
  <1>4. InList = {} /\ DOMAIN list = {}
    BY <1>1 DEF InList
  <1>5. Orphans = {}
    BY <1>4 DEF Orphans
  <1>6. Sound
    BY <1>1, <1>4, <1>5, FS_EmptySet DEF Sound
  <1>7. PointerGood /\ Recent
    BY <1>1 DEF PointerGood, Recent
  <1>8. QED
    BY <1>3, <1>6, <1>7 DEF IInv, Inv

LEMMA NextInv == IInv /\ [Next]_vars => IInv'
  <1> SUFFICES ASSUME IInv, [Next]_vars
               PROVE  IInv'
    OBVIOUS
  <1>1. ASSUME NEW k \in Key, NEW c \in Caller, Get(c, k)
        PROVE  IInv'
    BY <1>1, GetInv
  <1>2. ASSUME NEW k \in Key, NEW v \in Value, Put(k, v)
        PROVE  IInv'
    BY <1>2, PutExistingInv, PutNewInv, PutThrowsInMapInv DEF Put
  <1>3. ASSUME NEW k \in Key, PutThrowsInList(k)
        PROVE  IInv'
    BY <1>3, PutThrowsInListInv
  <1>4. CASE UNCHANGED vars
    <2>1. /\ list' = list /\ map' = map /\ key' = key /\ val' = val
          /\ ptr' = ptr /\ age' = age /\ dangling' = dangling
          /\ throws' = throws
      BY <1>4 DEF vars, contents, pointers
    <2>2. InList' = InList
      BY <2>1 DEF InList
    <2>3. Orphans' = Orphans
      BY <2>1, <2>2 DEF Orphans
    <2>4. TypeOK' /\ Sound'
      BY <2>1, <2>2, <2>3 DEF IInv, Inv, TypeOK, Sound
    <2>5. PointerGood' /\ Recent'
      BY <2>1, <2>2 DEF IInv, PointerGood, Recent
    <2>6. QED
      BY <2>4, <2>5 DEF IInv, Inv
  <1>5. QED
    BY <1>1, <1>2, <1>3, <1>4 DEF Next

(* What every call preserves, whether it returns or throws, for caches and *)
(* callers of any number.                                                  *)
THEOREM Invariance == Spec => []IInv
  BY InitInv, NextInv, PTL DEF Spec

(* The two containers agree: every iterator of the map is valid and leads  *)
(* to the key's own node, the list has no node twice and never more than   *)
(* Capacity, and exceptions leave at most one stale node each.             *)
THEOREM ContainersAgree == Spec => []Inv
  <1>1. IInv => Inv
    BY DEF IInv
  <1>2. QED
    BY <1>1, Invariance, PTL

(* A pointer from get lasts for Capacity - 1 further calls by anybody.     *)
THEOREM PointersLast == Spec => []PointerGood
  <1>1. IInv => PointerGood
    BY DEF IInv
  <1>2. QED
    BY <1>1, Invariance, PTL

(***************************************************************************)
(* The order of the list                                                   *)
(***************************************************************************)
InOrder(l, m, n) == \E i, j \in DOMAIN l : i < j /\ l[i] = m /\ l[j] = n

NoRepeat(l) == \A i, j \in DOMAIN l : l[i] = l[j] => i = j

In(l) == {l[i] : i \in DOMAIN l}

\* A list without repetitions orders its elements totally.
LEMMA TotalOrder ==
  ASSUME NEW S, NEW l \in Seq(S), NoRepeat(l), NEW a, NEW b
  PROVE  /\ InOrder(l, a, b) => a \in In(l) /\ b \in In(l) /\ a # b
         /\ InOrder(l, a, b) => ~InOrder(l, b, a)
         /\ a \in In(l) /\ b \in In(l) /\ a # b =>
               InOrder(l, a, b) \/ InOrder(l, b, a)
  <1>1. \A i \in DOMAIN l : i \in Nat
    OBVIOUS
  <1>2. ASSUME InOrder(l, a, b)
        PROVE  a \in In(l) /\ b \in In(l) /\ a # b /\ ~InOrder(l, b, a)
    <2>1. PICK i \in DOMAIN l, j \in DOMAIN l : i < j /\ l[i] = a /\ l[j] = b
      BY <1>2 DEF InOrder
    <2>2. i \in Nat /\ j \in Nat
      BY <1>1
    <2>3. a \in In(l) /\ b \in In(l)
      BY <2>1 DEF In
    <2>4. a # b
      BY <2>1, <2>2 DEF NoRepeat
    <2>5. ASSUME InOrder(l, b, a)
          PROVE  FALSE
      <3>1. PICK g \in DOMAIN l, h \in DOMAIN l :
               g < h /\ l[g] = b /\ l[h] = a
        BY <2>5 DEF InOrder
      <3>2. g = j /\ h = i
        BY <2>1, <3>1 DEF NoRepeat
      <3>3. QED
        BY <2>1, <2>2, <3>1, <3>2
    <2>6. QED
      BY <2>3, <2>4, <2>5
  <1>3. ASSUME a \in In(l), b \in In(l), a # b
        PROVE  InOrder(l, a, b) \/ InOrder(l, b, a)
    <2>1. PICK i \in DOMAIN l, j \in DOMAIN l : l[i] = a /\ l[j] = b
      BY <1>3 DEF In
    <2>2. i < j \/ j < i
      BY <1>1, <1>3, <2>1
    <2>3. QED
      BY <2>1, <2>2 DEF InOrder
  <1>4. QED
    BY <1>2, <1>3

\* The first element comes before all others.
LEMMA FirstOrder ==
  ASSUME NEW S, NEW l \in Seq(S), NoRepeat(l), 1 \in DOMAIN l, NEW b
  PROVE  /\ b \in In(l) /\ b # l[1] => InOrder(l, l[1], b)
         /\ ~InOrder(l, b, l[1])
  <1>1. DOMAIN l = 1 .. Len(l) /\ Len(l) \in Nat
    OBVIOUS
  <1>2. ASSUME b \in In(l), b # l[1]
        PROVE  InOrder(l, l[1], b)
    <2>1. PICK j \in DOMAIN l : l[j] = b
      BY <1>2 DEF In
    <2>2. 1 < j
      BY <1>1, <1>2, <2>1
    <2>3. QED
      BY <2>1, <2>2 DEF InOrder
  <1>3. ASSUME InOrder(l, b, l[1])
        PROVE  FALSE
    <2>1. PICK i \in DOMAIN l, j \in DOMAIN l : i < j /\ l[i] = b /\ l[j] = l[1]
      BY <1>3 DEF InOrder
    <2>2. j = 1
      BY <2>1 DEF NoRepeat
    <2>3. QED
      BY <1>1, <2>1, <2>2
  <1>4. QED
    BY <1>2, <1>3

KeepsOrder(kept) ==
  /\ kept \subseteq InList /\ kept \subseteq InList'
  /\ \A a, b \in kept : InOrder(list, a, b) => InOrder(list', a, b)

\* What keeps the order does not add to it either.
LEMMA SameOrder ==
  ASSUME Inv, Inv', NEW kept, KeepsOrder(kept), NEW a \in kept, NEW b \in kept
  PROVE  InOrder(list', a, b) <=> InOrder(list, a, b)
  <1>1. /\ list \in Seq(Node) /\ NoRepeat(list)
        /\ list' \in Seq(Node) /\ NoRepeat(list')
    BY DEF Inv, TypeOK, Sound, NoRepeat
  <1>2. /\ InList = In(list) /\ InList' = In(list')
    BY DEF InList, In
  <1>3. /\ a \in In(list) /\ b \in In(list)
        /\ InOrder(list, a, b) => InOrder(list', a, b)
        /\ InOrder(list, b, a) => InOrder(list', b, a)
    BY <1>2 DEF KeepsOrder
  <1>4. ASSUME InOrder(list', a, b)
        PROVE  InOrder(list, a, b)
    <2>1. a # b /\ ~InOrder(list', b, a)
      BY <1>1, <1>4, TotalOrder
    <2>2. ~InOrder(list, b, a)
      BY <2>1, <1>3
    <2>3. QED
      BY <2>1, <2>2, <1>1, <1>3, TotalOrder
  <1>5. QED
    BY <1>3, <1>4

LEMMA FrontedOrder ==
  ASSUME Inv, NEW n, ToFront(n)
  PROVE  KeepsOrder(InList \ {n})
  <1>1. PICK k \in 1 .. Len(list) :
          /\ list[k] = n
          /\ list' \in Seq(Node) /\ Len(list') = Len(list)
          /\ list'[1] = n
          /\ \A i \in 2 .. k : list'[i] = list[i - 1]
          /\ \A i \in k + 1 .. Len(list) : list'[i] = list[i]
    BY FrontedElements
  <1>2. /\ DOMAIN list = 1 .. Len(list) /\ Len(list) \in Nat
        /\ DOMAIN list' = 1 .. Len(list)
    BY <1>1, ListFacts
  <1>3. InList' = InList
    BY Fronted
  <1> DEFINE to(i) == IF i < k THEN i + 1 ELSE i
  <1>4. ASSUME NEW i \in 1 .. Len(list), i # k
        PROVE  to(i) \in 1 .. Len(list) /\ list'[to(i)] = list[i]
    <2>1. CASE i < k
      <3>1. /\ i + 1 \in 2 .. k /\ i + 1 \in 1 .. Len(list)
            /\ (i + 1) - 1 = i
        BY <2>1, <1>2
      <3>2. QED
        BY <3>1, <2>1, <1>1
    <2>2. CASE i > k
      <3>1. i \in k + 1 .. Len(list) /\ ~ (i < k)
        BY <2>2, <1>2
      <3>2. QED
        BY <3>1, <1>1
    <2>3. QED
      BY <2>1, <2>2, <1>2, <1>4
  <1>5. ASSUME NEW a \in InList \ {n}, NEW b \in InList \ {n},
               InOrder(list, a, b)
        PROVE  InOrder(list', a, b)
    <2>1. PICK i \in 1 .. Len(list), j \in 1 .. Len(list) :
             i < j /\ list[i] = a /\ list[j] = b
      BY <1>2, <1>5 DEF InOrder
    <2>2. i # k /\ j # k
      BY <2>1, <1>1
    <2>3. /\ list'[to(i)] = a /\ to(i) \in DOMAIN list'
          /\ list'[to(j)] = b /\ to(j) \in DOMAIN list'
      BY <2>1, <2>2, <1>2, <1>4
    <2>4. to(i) < to(j)
      BY <2>1, <2>2, <1>2
    <2> HIDE DEF to
    <2>5. QED
      BY <2>3, <2>4 DEF InOrder
  <1>6. QED
    BY <1>3, <1>5 DEF KeepsOrder

LEMMA PushedOrder ==
  ASSUME Inv, NEW n \in Node, Fresh(n), list' = <<n>> \o Room
  PROVE  KeepsOrder(InList \ Dropped)
  <1> DEFINE left == InList \ Dropped
             r == Len(Room)
  <1>1. /\ DOMAIN list' = 1 .. r + 1
        /\ \A j \in 2 .. r + 1 : list'[j] = list[j - 1]
    BY PushedElements
  <1>2. /\ DOMAIN list = 1 .. Len(list) /\ r \in Nat /\ Len(list) \in Nat
        /\ \A i \in 1 .. Len(list) : list[i] \in left <=> i \in 1 .. r
    BY RoomFacts, ListFacts
  <1>3. left \subseteq InList'
    BY PushedFront
  <1> HIDE DEF left, r
  <1>4. ASSUME NEW a \in left, NEW b \in left, InOrder(list, a, b)
        PROVE  InOrder(list', a, b)
    <2>1. PICK i \in 1 .. Len(list), j \in 1 .. Len(list) :
             i < j /\ list[i] = a /\ list[j] = b
      BY <1>2, <1>4 DEF InOrder
    <2>2. i \in 1 .. r /\ j \in 1 .. r
      BY <2>1, <1>2
    <2>3. /\ i + 1 \in 2 .. r + 1 /\ j + 1 \in 2 .. r + 1
          /\ i + 1 \in DOMAIN list' /\ j + 1 \in DOMAIN list'
          /\ (i + 1) - 1 = i /\ (j + 1) - 1 = j /\ i + 1 < j + 1
      BY <2>1, <2>2, <1>1, <1>2
    <2>4. list'[i + 1] = a /\ list'[j + 1] = b
      BY <2>1, <2>3, <1>1
    <2>5. QED
      BY <2>3, <2>4 DEF InOrder
  <1>5. QED
    BY <1>3, <1>4 DEF KeepsOrder, left

LEMMA RoomedOrder ==
  ASSUME Inv, list' = Room
  PROVE  KeepsOrder(InList \ Dropped)
  <1> DEFINE left == InList \ Dropped
  <1>1. /\ DOMAIN list = 1 .. Len(list)
        /\ DOMAIN list' = 1 .. Len(list')
        /\ \A i \in 1 .. Len(list') : list'[i] = list[i]
        /\ \A i \in 1 .. Len(list) : list[i] \in left <=> i \in 1 .. Len(list')
    BY RoomFacts, ListFacts
  <1>2. left \subseteq InList'
    BY Roomed
  <1> HIDE DEF left
  <1>3. ASSUME NEW a \in left, NEW b \in left, InOrder(list, a, b)
        PROVE  InOrder(list', a, b)
    BY <1>1, <1>3 DEF InOrder
  <1>4. QED
    BY <1>2, <1>3 DEF KeepsOrder, left

(***************************************************************************)
(* The keys that a user sees                                               *)
(***************************************************************************)
Known == {k \in Key : map[k] # None}

LEMMA InsideKnown ==
  ASSUME Inv
  PROVE  /\ Policy!Inside = Known
         /\ \A k \in Known : /\ Stored[k] = val[map[k]] /\ Stored[k] # None
                             /\ map[k] \in InList /\ map[k] \in Node
                             /\ key[map[k]] = k
         /\ \A k \in Key \ Known : Stored[k] = None
  <1>1. /\ map \in [Key -> Node \cup {None}] /\ val \in [Node -> Value]
        /\ \A k \in Key : map[k] # None => map[k] \in InList /\ key[map[k]] = k
    BY DEF Inv, TypeOK, Sound
  <1>2. None \notin Value /\ None \notin Node
    BY CacheAssumption
  <1>3. ASSUME NEW k \in Known
        PROVE  /\ Stored[k] = val[map[k]] /\ Stored[k] # None
               /\ map[k] \in InList /\ map[k] \in Node
               /\ key[map[k]] = k
    <2>1. k \in Key /\ map[k] # None /\ map[k] \in Node
      BY <1>1 DEF Known
    <2>2. Stored[k] = val[map[k]] /\ val[map[k]] \in Value
      BY <2>1, <1>1 DEF Stored
    <2>3. QED
      BY <2>1, <2>2, <1>1, <1>2
  <1>4. \A k \in Key \ Known : Stored[k] = None
    BY DEF Stored, Known
  <1>5. Policy!Inside = Known
    <2>1. \A k \in Known : k \in Key
      BY DEF Known
    <2>2. \A k \in Key : Stored[k] # None <=> k \in Known
      BY <1>3, <1>4
    <2>3. QED
      BY <2>1, <2>2 DEF Policy!Inside
  <1>6. QED
    BY <1>3, <1>4, <1>5

\* There are at most as many keys as nodes; if as many, every node is the
\* node of its key.
LEMMA KnownCount ==
  ASSUME Inv
  PROVE  /\ IsFiniteSet(Known) /\ Cardinality(Known) \in Nat
         /\ Cardinality(Known) <= Len(list)
         /\ Cardinality(Known) = Len(list) =>
               \A n \in InList : key[n] \in Known /\ map[key[n]] = n
         /\ Len(list) <= Cardinality(Known) + throws
  <1>1. /\ \A k \in Known : /\ map[k] \in InList /\ map[k] \in Node
                            /\ key[map[k]] = k
        /\ Known \subseteq Key
    BY InsideKnown DEF Known
  <1>2. /\ list \in Seq(Node) /\ DOMAIN list = 1 .. Len(list)
        /\ Len(list) \in Nat
        /\ \A i, j \in 1 .. Len(list) : list[i] = list[j] => i = j
        /\ IsFiniteSet(InList) /\ InList \subseteq Node /\ None \notin Node
    BY ListFacts
  <1>3. Cardinality(InList) = Len(list)
    <2>1. list \in [1 .. Len(list) -> InList]
      BY <1>2 DEF InList
    <2>2. \A x \in InList : \E i \in 1 .. Len(list) : list[i] = x
      BY <1>2 DEF InList
    <2>3. list \in Injection(1 .. Len(list), InList)
      BY <2>1, <1>2, Fun_IsInj
    <2>4. list \in Surjection(1 .. Len(list), InList)
      BY <2>1, <2>2, Fun_IsSurj
    <2>5. /\ IsFiniteSet(1 .. Len(list))
          /\ Cardinality(1 .. Len(list)) = Len(list)
      BY <1>2, FS_Interval
    <2>6. Cardinality(InList) = Cardinality(1 .. Len(list))
      BY <2>3, <2>4, <2>5, FS_Surjection
    <2>7. QED
      BY <2>5, <2>6
  <1> DEFINE f == [k \in Known |-> map[k]]
  <1>4. f \in Injection(Known, InList)
    <2>1. f \in [Known -> InList]
      BY <1>1
    <2>2. \A a, b \in Known : f[a] = f[b] => a = b
      BY <1>1
    <2> HIDE DEF f
    <2>3. QED
      BY <2>1, <2>2, Fun_IsInj
  <1>5. /\ IsFiniteSet(Known) /\ Cardinality(Known) <= Cardinality(InList)
        /\ Cardinality(Known) = Cardinality(InList) <=>
              f \in Surjection(Known, InList)
    <2> HIDE DEF f
    <2>1. QED
      BY <1>2, <1>4, FS_Injection
  <1>6. ASSUME Cardinality(Known) = Len(list), NEW n \in InList
        PROVE  key[n] \in Known /\ map[key[n]] = n
    <2>1. f \in Surjection(Known, InList)
      BY <1>3, <1>5, <1>6
    <2>2. PICK k \in Known : f[k] = n
      <3> HIDE DEF f
      <3>1. QED
        BY <2>1 DEF Surjection
    <2>3. map[k] = n
      BY <2>2
    <2>4. QED
      BY <2>3, <1>1
  <1>7. Len(list) <= Cardinality(Known) + throws
    <2> DEFINE good == InList \ Orphans
               g == [k \in Known |-> map[k]]
    <2>1. Orphans \subseteq InList /\ IsFiniteSet(Orphans) /\ Cardinality(Orphans) \in Nat
      <3>1. Orphans \subseteq InList
        BY DEF Orphans
      <3>2. QED
        BY <3>1, <1>2, FS_Subset, FS_CardinalityType
    <2>2. Cardinality(Orphans) <= throws /\ throws \in Nat
      BY DEF Inv, Sound, TypeOK
    <2>3. IsFiniteSet(good)
          /\ Cardinality(good) = Cardinality(InList) - Cardinality(Orphans)
      <3>1. InList \cap Orphans = Orphans
        BY <2>1
      <3>2. QED
        BY <3>1, <1>2, FS_Difference
    <2>4. g \in Surjection(Known, good)
      <3>1. \A k \in Known : g[k] \in good
        BY <1>1 DEF Orphans
      <3>2. ASSUME NEW n \in good
            PROVE  \E k \in Known : g[k] = n
        <4>1. map[key[n]] = n /\ n \in Node
          BY <1>2 DEF Orphans
        <4>2. key[n] \in Known
          BY <4>1, <1>2 DEF Inv, TypeOK, Known
        <4>3. QED
          BY <4>1, <4>2
      <3>3. g \in [Known -> good]
        BY <3>1
      <3> HIDE DEF g, good
      <3>4. QED
        BY <3>2, <3>3, Fun_IsSurj
    <2>5. IsFiniteSet(Known)
      BY <1>5
    <2> HIDE DEF g, good
    <2>6. Cardinality(good) <= Cardinality(Known)
      BY <2>4, <2>5, FS_Surjection
    <2>7. Cardinality(Known) \in Nat
      BY <2>5, FS_CardinalityType
    <2>8. QED
      BY <1>2, <1>3, <2>1, <2>2, <2>3, <2>6, <2>7
  <1>8. Cardinality(Known) \in Nat
    BY <1>5, FS_CardinalityType
  <1>9. QED
    BY <1>3, <1>5, <1>6, <1>7, <1>8

(* An exception costs the cache one place at most: the list never holds    *)
(* more nodes than there are keys to be found and puts that have thrown,   *)
(* so that a cache in which puts have thrown fewer times than it has       *)
(* places goes on remembering what it is given.                            *)
THEOREM ExceptionsCost ==
  Spec => [](/\ Cardinality(Known) <= Len(list)
             /\ Len(list) <= Cardinality(Known) + throws)
  <1>1. Inv => /\ Cardinality(Known) <= Len(list)
               /\ Len(list) <= Cardinality(Known) + throws
    BY KnownCount
  <1>2. QED
    BY <1>1, ContainersAgree, PTL

(***************************************************************************)
(* Each call is a call of the policy                                       *)
(***************************************************************************)
LEMMA RecencyFacts ==
  /\ Recency = {p \in Key \X Key : InOrder(list, map[p[1]], map[p[2]])}
  /\ Recency' = {p \in Key \X Key : InOrder(list', map'[p[1]], map'[p[2]])}
  <1>1. \A m, n : Before(m, n) = InOrder(list, m, n)
    BY DEF Before, InOrder
  <1>2. Recency = {p \in Key \X Key : InOrder(list, map[p[1]], map[p[2]])}
    BY <1>1 DEF Recency
  <1>3. \A m, n : Before(m, n)' = InOrder(list', m, n)
    BY DEF Before, InOrder
  <1>4. Recency' = {p \in Key \X Key : InOrder(list', map'[p[1]], map'[p[2]])}
    BY DEF Recency, Before, InOrder
  <1>5. QED
    BY <1>2, <1>4

\* The keys of rest stay, with their nodes, in their order.
Rests(rest, kept) ==
  /\ rest \subseteq Known
  /\ \A j \in rest : /\ map'[j] = map[j] /\ map[j] \in kept
                     /\ val'[map[j]] = val[map[j]]

LEMMA RestsFacts ==
  ASSUME Inv, Inv', NEW rest, NEW kept, KeepsOrder(kept), Rests(rest, kept)
  PROVE  /\ \A j \in rest : Stored'[j] = Stored[j]
         /\ \A a, b \in rest : InOrder(list', map'[a], map'[b])
                                  <=> InOrder(list, map[a], map[b])
  <1>1. ASSUME NEW j \in rest
        PROVE  Stored'[j] = Stored[j]
    <2>1. j \in Known /\ map'[j] = map[j] /\ val'[map[j]] = val[map[j]]
      BY DEF Rests
    <2>2. QED
      BY <2>1 DEF Stored, Known
  <1>2. ASSUME NEW a \in rest, NEW b \in rest
        PROVE  InOrder(list', map'[a], map'[b]) <=> InOrder(list, map[a], map[b])
    <2>1. /\ map'[a] = map[a] /\ map[a] \in kept
          /\ map'[b] = map[b] /\ map[b] \in kept
      BY DEF Rests
    <2>2. QED
      BY <2>1, SameOrder
  <1>3. QED
    BY <1>1, <1>2

LEMMA NoneInOrder ==
  ASSUME NEW l \in Seq(Node), NEW a
  PROVE  ~InOrder(l, None, a) /\ ~InOrder(l, a, None)
  <1>1. \A i \in DOMAIN l : l[i] # None
    BY CacheAssumption
  <1>2. QED
    BY <1>1 DEF InOrder

LEMMA FrontStep ==
  ASSUME Inv, Inv', NEW kept, KeepsOrder(kept), NEW rest, Rests(rest, kept),
         NEW k \in Key, k \notin rest, NEW n \in Node, n \notin kept,
         NEW v, map'[k] = n, val'[n] = v,
         1 \in DOMAIN list', list'[1] = n,
         \A j \in Key : j # k /\ j \notin rest => map'[j] = None
  PROVE  Policy!Front(k, v, rest)
  <1>1. rest \subseteq Key /\ None \notin Node
    BY CacheAssumption DEF Rests, Known
  <1>2. Stored' = [j \in Key |-> IF j = k THEN v
                                 ELSE IF j \in rest THEN Stored[j] ELSE None]
    <2>1. Stored' = [j \in Key |-> IF map'[j] = None THEN None ELSE val'[map'[j]]]
      BY DEF Stored
    <2> DEFINE S(j) == IF map'[j] = None THEN None ELSE val'[map'[j]]
    <2>2. S(k) = v
      BY <1>1
    <2>3. ASSUME NEW j \in rest
          PROVE  S(j) = Stored[j]
      <3>1. Stored'[j] = Stored[j]
        BY RestsFacts
      <3>2. Stored'[j] = S(j)
        BY <2>1, <1>1
      <3>3. QED
        BY <3>1, <3>2
    <2>4. ASSUME NEW j \in Key, j # k, j \notin rest
          PROVE  S(j) = None
      BY <2>4
    <2>5. Stored' = [j \in Key |-> S(j)]
      BY <2>1
    <2> HIDE DEF S
    <2>6. \A j \in Key : S(j) = IF j = k THEN v
                                ELSE IF j \in rest THEN Stored[j] ELSE None
      BY <2>2, <2>3, <2>4
    <2>7. QED
      BY <2>5, <2>6
  <1>3. ASSUME NEW x \in Key, NEW y \in Key
        PROVE  InOrder(list', map'[x], map'[y])
                 <=> \/ x = k /\ y \in rest
                     \/ /\ x \in rest /\ y \in rest
                        /\ InOrder(list, map[x], map[y])
    <2>1. list' \in Seq(Node) /\ NoRepeat(list') /\ InList' = In(list')
      BY DEF Inv, TypeOK, Sound, NoRepeat, InList, In
    <2>2. CASE y = k
      <3>1. ~InOrder(list', map'[x], list'[1])
        BY <2>1, FirstOrder
      <3>2. QED
        BY <2>2, <3>1
    <2>3. CASE y # k /\ y \notin rest
      <3>1. map'[y] = None
        BY <2>3
      <3>2. ~InOrder(list', map'[x], None)
        BY <2>1, NoneInOrder
      <3>3. QED
        BY <2>3, <3>1, <3>2
    <2>4. CASE y \in rest /\ x = k
      <3>1. map'[y] \in kept /\ kept \subseteq InList'
        BY <2>4 DEF Rests, KeepsOrder
      <3>2. map'[y] \in In(list') /\ map'[y] # list'[1]
        BY <3>1, <2>1
      <3>3. InOrder(list', list'[1], map'[y])
        BY <3>2, <2>1, FirstOrder
      <3>4. QED
        BY <2>4, <3>3
    <2>5. CASE y \in rest /\ x # k /\ x \notin rest
      <3>1. map'[x] = None
        BY <2>5
      <3>2. ~InOrder(list', None, map'[y])
        BY <2>1, NoneInOrder
      <3>3. QED
        BY <2>5, <3>1, <3>2
    <2>6. CASE y \in rest /\ x \in rest
      BY <2>6, RestsFacts
    <2>7. QED
      BY <2>2, <2>3, <2>4, <2>5, <2>6
  <1>4. Recency' = ({k} \X rest) \cup (Recency \cap (rest \X rest))
    <2>1. ASSUME NEW x \in Key, NEW y \in Key
          PROVE  <<x, y>> \in Recency' <=>
                    <<x, y>> \in ({k} \X rest) \cup (Recency \cap (rest \X rest))
      <3>1. <<x, y>> \in Recency' <=> InOrder(list', map'[x], map'[y])
        BY RecencyFacts
      <3>2. <<x, y>> \in Recency <=> InOrder(list, map[x], map[y])
        BY RecencyFacts
      <3>3. <<x, y>> \in {k} \X rest <=> x = k /\ y \in rest
        OBVIOUS
      <3>4. <<x, y>> \in rest \X rest <=> x \in rest /\ y \in rest
        OBVIOUS
      <3>5. QED
        BY <3>1, <3>2, <3>3, <3>4, <1>3
    <2>2. Recency' \subseteq Key \X Key /\ Recency \subseteq Key \X Key
      BY RecencyFacts
    <2>3. {k} \X rest \subseteq Key \X Key
      BY <1>1
    <2> DEFINE A == Recency'
               B == ({k} \X rest) \cup (Recency \cap (rest \X rest))
    <2>4. A \subseteq Key \X Key /\ B \subseteq Key \X Key
      BY <2>2, <2>3
    <2>5. \A x \in Key, y \in Key : <<x, y>> \in A <=> <<x, y>> \in B
      BY <2>1
    <2> HIDE DEF A, B
    <2>6. A = B
      BY <2>4, <2>5
    <2>7. QED
      BY <2>6 DEF A, B
  <1>5. QED
    BY <1>2, <1>4 DEF Policy!Front

LEMMA FaultStep ==
  ASSUME Inv, Inv', NEW kept, KeepsOrder(kept), NEW rest, Rests(rest, kept),
         \A j \in Key : j \notin rest => map'[j] = None,
         rest \in Policy!Left, throws' = throws + 1
  PROVE  Policy!Fault
  <1>1. rest \subseteq Key
    BY DEF Rests, Known
  <1>2. Stored' = [j \in Key |-> IF j \in rest THEN Stored[j] ELSE None]
    <2>1. Stored' = [j \in Key |-> IF map'[j] = None THEN None ELSE val'[map'[j]]]
      BY DEF Stored
    <2> DEFINE S(j) == IF map'[j] = None THEN None ELSE val'[map'[j]]
    <2>2. ASSUME NEW j \in rest
          PROVE  S(j) = Stored[j]
      <3>1. Stored'[j] = Stored[j]
        BY RestsFacts
      <3>2. Stored'[j] = S(j)
        BY <2>1, <1>1
      <3>3. QED
        BY <3>1, <3>2
    <2>3. ASSUME NEW j \in Key, j \notin rest
          PROVE  S(j) = None
      BY <2>3
    <2>4. Stored' = [j \in Key |-> S(j)]
      BY <2>1
    <2> HIDE DEF S
    <2>5. \A j \in Key : S(j) = IF j \in rest THEN Stored[j] ELSE None
      BY <2>2, <2>3
    <2>6. QED
      BY <2>4, <2>5
  <1>3. ASSUME NEW x \in Key, NEW y \in Key
        PROVE  InOrder(list', map'[x], map'[y])
                 <=> /\ x \in rest /\ y \in rest
                     /\ InOrder(list, map[x], map[y])
    <2>1. list' \in Seq(Node)
      BY DEF Inv, TypeOK
    <2>2. CASE x \in rest /\ y \in rest
      BY <2>2, RestsFacts
    <2>3. CASE x \notin rest
      <3>1. map'[x] = None
        BY <2>3
      <3>2. ~InOrder(list', None, map'[y])
        BY <2>1, NoneInOrder
      <3>3. QED
        BY <2>3, <3>1, <3>2
    <2>4. CASE y \notin rest
      <3>1. map'[y] = None
        BY <2>4
      <3>2. ~InOrder(list', map'[x], None)
        BY <2>1, NoneInOrder
      <3>3. QED
        BY <2>4, <3>1, <3>2
    <2>5. QED
      BY <2>2, <2>3, <2>4
  <1>4. Recency' = Recency \cap (rest \X rest)
    <2> DEFINE A == Recency'
               B == Recency \cap (rest \X rest)
    <2>1. ASSUME NEW x \in Key, NEW y \in Key
          PROVE  <<x, y>> \in A <=> <<x, y>> \in B
      <3>1. <<x, y>> \in Recency' <=> InOrder(list', map'[x], map'[y])
        BY RecencyFacts
      <3>2. <<x, y>> \in Recency <=> InOrder(list, map[x], map[y])
        BY RecencyFacts
      <3>3. <<x, y>> \in rest \X rest <=> x \in rest /\ y \in rest
        OBVIOUS
      <3>4. QED
        BY <3>1, <3>2, <3>3, <1>3
    <2>2. A \subseteq Key \X Key /\ B \subseteq Key \X Key
      BY RecencyFacts
    <2> HIDE DEF A, B
    <2>3. A = B
      BY <2>1, <2>2
    <2>4. QED
      BY <2>3 DEF A, B
  <1>5. QED
    BY <1>2, <1>4 DEF Policy!Fault

\* The node of k moves to the front, and gets the value v.
LEMMA FrontedStep ==
  ASSUME Inv, Inv', NEW k \in Known, ToFront(map[k]), map' = map,
         NEW v, val'[map[k]] = v,
         \A m \in Node : m # map[k] => val'[m] = val[m]
  PROVE  Policy!Front(k, v, Policy!Inside \ {k})
  <1> DEFINE n == map[k]
             kept == InList \ {n}
             rest == Known \ {k}
  <1>1. /\ k \in Key /\ n \in Node /\ key[n] = k
        /\ \A j \in Known : /\ map[j] \in InList /\ map[j] \in Node
                            /\ key[map[j]] = j
    BY InsideKnown DEF Known
  <1>2. KeepsOrder(kept)
    BY FrontedOrder
  <1>3. Rests(rest, kept)
    <2>1. ASSUME NEW j \in rest
          PROVE  /\ map'[j] = map[j] /\ map[j] \in kept
                 /\ val'[map[j]] = val[map[j]]
      <3>1. map[j] # n
        BY <1>1
      <3>2. QED
        BY <3>1, <1>1
    <2>2. QED
      BY <2>1 DEF Rests
  <1>4. 1 \in DOMAIN list' /\ list'[1] = n
    BY Fronted
  <1>5. \A j \in Key : j # k /\ j \notin rest => map'[j] = None
    BY DEF Known
  <1>6. n \notin kept /\ k \notin rest /\ map'[k] = n /\ val'[n] = v
    OBVIOUS
  <1> HIDE DEF n, kept
  <1>7. Policy!Front(k, v, rest)
    <2> HIDE DEF rest
    <2>1. QED
      BY <1>1, <1>2, <1>3, <1>4, <1>5, <1>6, FrontStep
  <1>8. Policy!Inside \ {k} = rest
    BY InsideKnown
  <1>9. QED
    BY <1>7, <1>8

LEMMA GetIsGet ==
  ASSUME Inv, Inv', NEW c \in Caller, NEW k \in Key, Get(c, k)
  PROVE  Policy!Get(k)
  <1>1. /\ map[k] # None /\ ToFront(map[k])
        /\ map' = map /\ val' = val /\ throws' = throws
    BY DEF Get
  <1>2. k \in Known
    BY <1>1 DEF Known
  <1>3. Stored[k] = val[map[k]] /\ k \in Policy!Inside
    BY <1>2, InsideKnown
  <1>4. /\ val'[map[k]] = Stored[k]
        /\ \A m \in Node : m # map[k] => val'[m] = val[m]
    BY <1>1, <1>3
  <1>5. Policy!Front(k, Stored[k], Policy!Inside \ {k})
    BY <1>1, <1>2, <1>4, FrontedStep
  <1>6. QED
    BY <1>1, <1>3, <1>5 DEF Policy!Get

LEMMA PutExistingIsPut ==
  ASSUME Inv, Inv', NEW k \in Key, NEW v \in Value, PutExisting(k, v)
  PROVE  Policy!Put(k, v)
  <1>1. /\ map[k] # None /\ ToFront(map[k])
        /\ val' = [val EXCEPT ![map[k]] = v]
        /\ map' = map /\ throws' = throws
    BY DEF PutExisting
  <1>2. k \in Known
    BY <1>1 DEF Known
  <1>3. map[k] \in Node /\ k \in Policy!Inside
    BY <1>2, InsideKnown
  <1>4. /\ val'[map[k]] = v
        /\ \A m \in Node : m # map[k] => val'[m] = val[m]
    BY <1>1, <1>3 DEF Inv, TypeOK
  <1>5. Policy!Front(k, v, Policy!Inside \ {k})
    BY <1>1, <1>2, <1>4, FrontedStep
  <1>6. QED
    BY <1>1, <1>3, <1>5 DEF Policy!Put

\* The keys left when a full cache has dropped its last node.
Spared == {j \in Key : MapLess[j] # None}

LEMMA SparedFacts ==
  ASSUME Inv
  PROVE  /\ Spared \subseteq Known
         /\ \A j \in Spared : MapLess[j] = map[j] /\ map[j] \in InList \ Dropped
         /\ \A j \in Key : j \notin Spared => MapLess[j] = None
         /\ ~IsFull => Spared = Known
         /\ IsFull => Spared = Known \ {key[Last]}
  <1>1. /\ map \in [Key -> Node \cup {None}] /\ key \in [Node -> Key]
        /\ InList \subseteq Node
    BY ListFacts DEF Inv, TypeOK
  <1>2. \A j \in Key : MapLess[j] # None => MapLess[j] \in InList \ Dropped
    BY DropLast
  <1>3. CASE IsFull
    <2>1. Last \in InList /\ Last \in Node /\ key[Last] \in Key
      BY <1>1, <1>3, RoomFacts
    <2>2. MapLess = [map EXCEPT ![key[Last]] = None]
      BY <1>3 DEF MapLess
    <2>3. /\ MapLess[key[Last]] = None
          /\ \A j \in Key : j # key[Last] => MapLess[j] = map[j]
      BY <2>1, <2>2, <1>1
    <2>4. Spared = Known \ {key[Last]}
      BY <2>3 DEF Spared, Known
    <2>5. \A j \in Spared : MapLess[j] = map[j] /\ MapLess[j] # None
      BY <2>3 DEF Spared
    <2>6. QED
      BY <1>2, <1>3, <2>4, <2>5 DEF Spared
  <1>4. CASE ~IsFull
    <2>1. MapLess = map
      BY <1>4 DEF MapLess
    <2>2. Spared = Known
      BY <2>1 DEF Spared, Known
    <2>3. QED
      BY <1>2, <1>4, <2>1, <2>2 DEF Spared
  <1>5. QED
    BY <1>3, <1>4

\* The two modules mean the same by the number of elements of a set.
LEMMA SameCardinality == \A S : Policy!Cardinality(S) = Cardinality(S)
  BY DEF Policy!Cardinality, Cardinality

\* A cache that holds Capacity keys has no other nodes, and the key of its
\* last node is the oldest.
LEMMA FullPolicy ==
  ASSUME Inv, Policy!IsFull
  PROVE  IsFull /\ Policy!Oldest(key[Last])
  <1>1. /\ Cardinality(Known) = Capacity /\ Cardinality(Known) <= Len(list)
        /\ Cardinality(Known) = Len(list) =>
              \A n \in InList : key[n] \in Known /\ map[key[n]] = n
    <2>1. Policy!Inside = Known
      BY InsideKnown
    <2>2. Cardinality(Known) = Capacity
      BY <2>1, SameCardinality DEF Policy!IsFull
    <2>3. QED
      BY <2>2, KnownCount
  <1>2. /\ Capacity \in Nat /\ Len(list) \in Nat /\ Len(list) <= Capacity
        /\ list \in Seq(Node) /\ DOMAIN list = 1 .. Len(list)
        /\ Capacity \in Nat \ {0}
    BY ListFacts
  <1>3. Len(list) = Capacity
    <2> DEFINE m == Len(list)
    <2>1. m \in Nat /\ Capacity \in Nat /\ m <= Capacity /\ Capacity <= m
      BY <1>1, <1>2
    <2> HIDE DEF m
    <2>2. m = Capacity
      BY <2>1
    <2>3. QED
      BY <2>2 DEF m
  <1>4. IsFull
    BY <1>2, <1>3 DEF IsFull
  <1>5. Last \in InList
    BY <1>4, RoomFacts
  <1>6. key[Last] \in Known /\ map[key[Last]] = Last
    BY <1>1, <1>3, <1>5
  <1>7. ASSUME NEW j \in Known \ {key[Last]}
        PROVE  <<j, key[Last]>> \in Recency
    <2>1. map[j] \in InList /\ key[map[j]] = j /\ j \in Key /\ key[Last] \in Key
      BY <1>6, InsideKnown DEF Known
    <2>2. map[j] # Last
      BY <2>1
    <2>3. PICK i \in 1 .. Len(list) : list[i] = map[j]
      BY <2>1, <1>2 DEF InList
    <2>4. i < Len(list) /\ Len(list) \in DOMAIN list
      BY <2>2, <2>3, <1>2, <1>3 DEF Last
    <2>5. InOrder(list, map[j], Last)
      BY <2>3, <2>4, <1>2 DEF InOrder, Last
    <2>6. QED
      BY <2>1, <2>5, <1>6, RecencyFacts
  <1>8. Policy!Oldest(key[Last])
    BY <1>6, <1>7, InsideKnown DEF Policy!Oldest
  <1>9. QED
    BY <1>4, <1>8

\* Dropping the last node leaves what the policy says.
LEMMA SparedLeft ==
  ASSUME Inv
  PROVE  Spared \in Policy!Left
  <1>1. Policy!Inside = Known
    BY InsideKnown
  <1>2. CASE Policy!IsFull
    <2>1. IsFull /\ Policy!Oldest(key[Last]) /\ key[Last] \in Known
      BY <1>1, <1>2, FullPolicy DEF Policy!Oldest
    <2>2. Spared = Known \ {key[Last]}
      BY <2>1, SparedFacts
    <2>3. QED
      BY <1>1, <1>2, <2>1, <2>2 DEF Policy!Left
  <1>3. CASE ~Policy!IsFull /\ Spared = Known
    BY <1>1, <1>3 DEF Policy!Left
  <1>4. CASE ~Policy!IsFull /\ Spared # Known
    <2>1. IsFull /\ Spared = Known \ {key[Last]} /\ key[Last] \in Known
      BY <1>4, SparedFacts
    <2>2. Policy!IsCrowded
      <3>1. Len(list) <= Cardinality(Known) + throws /\ Len(list) \in Nat
            /\ Cardinality(Known) \in Nat
        BY KnownCount, ListFacts
      <3>2. Capacity <= Len(list) /\ Capacity \in Nat /\ throws \in Nat
        BY <2>1, ListFacts DEF IsFull, Inv, TypeOK
      <3>3. Cardinality(Known) + throws >= Capacity
        BY <3>1, <3>2
      <3>4. QED
        BY <1>1, <3>3, SameCardinality DEF Policy!IsCrowded
    <2>3. QED
      BY <1>1, <1>4, <2>1, <2>2 DEF Policy!Left
  <1>5. QED
    BY <1>2, <1>3, <1>4

LEMMA PutThrowsInListIsFault ==
  ASSUME Inv, Inv', NEW k \in Key, PutThrowsInList(k)
  PROVE  Policy!Fault
  <1> DEFINE kept == InList \ Dropped
  <1>1. /\ list' = Room /\ map' = MapLess /\ val' = val
        /\ throws' = throws + 1
    BY DEF PutThrowsInList
  <1>2. KeepsOrder(kept)
    BY <1>1, RoomedOrder
  <1>3. Rests(Spared, kept)
    BY <1>1, SparedFacts DEF Rests
  <1>4. \A j \in Key : j \notin Spared => map'[j] = None
    BY <1>1, SparedFacts
  <1> HIDE DEF kept
  <1>5. QED
    BY <1>1, <1>2, <1>3, <1>4, SparedLeft, FaultStep

LEMMA PutThrowsInMapIsFault ==
  ASSUME Inv, Inv', NEW k \in Key, NEW v \in Value, PutThrowsInMap(k, v)
  PROVE  Policy!Fault
  <1> DEFINE kept == InList \ Dropped
  <1>1. PICK n \in Node :
          /\ Fresh(n) /\ list' = <<n>> \o Room
          /\ val' = [val EXCEPT ![n] = v]
    BY DEF PutThrowsInMap
  <1>2. /\ map' = MapLess
        /\ throws' = throws + 1
        /\ val \in [Node -> Value]
    BY DEF PutThrowsInMap, Inv, TypeOK
  <1>3. KeepsOrder(kept)
    BY <1>1, PushedOrder
  <1>4. n \notin kept /\ kept \subseteq Node
    BY <1>1, PushedFront, ListFacts
  <1>5. Rests(Spared, kept)
    <2>1. /\ Spared \subseteq Known
          /\ \A j \in Spared : map'[j] = map[j] /\ map[j] \in kept
      BY <1>2, SparedFacts
    <2> HIDE DEF kept
    <2>2. \A m \in kept : val'[m] = val[m]
      BY <1>1, <1>2, <1>4
    <2>3. QED
      BY <2>1, <2>2 DEF Rests
  <1>6. \A j \in Key : j \notin Spared => map'[j] = None
    BY <1>2, SparedFacts
  <1> HIDE DEF kept
  <1>7. QED
    BY <1>2, <1>3, <1>5, <1>6, SparedLeft, FaultStep

LEMMA PutNewIsPut ==
  ASSUME Inv, Inv', NEW k \in Key, NEW v \in Value, PutNew(k, v)
  PROVE  Policy!Put(k, v)
  <1> DEFINE kept == InList \ Dropped
  <1>1. PICK n \in Node :
          /\ Fresh(n) /\ list' = <<n>> \o Room
          /\ val' = [val EXCEPT ![n] = v]
          /\ map' = [MapLess EXCEPT ![k] = n]
    BY DEF PutNew
  <1>2. /\ map[k] = None /\ throws' = throws
        /\ val \in [Node -> Value]
    BY DEF PutNew, Inv, TypeOK
  <1>3. MapLess \in [Key -> Node \cup {None}]
    BY DropLast
  <1>4. KeepsOrder(kept)
    BY <1>1, PushedOrder
  <1>5. n \notin kept /\ kept \subseteq Node /\ list'[1] = n
    BY <1>1, PushedFront, PushedElements, ListFacts
  <1>6. 1 \in DOMAIN list'
    <2>1. DOMAIN list' = 1 .. Len(Room) + 1 /\ Len(Room) \in Nat
      BY <1>1, PushedElements, RoomFacts
    <2>2. QED
      BY <2>1
  <1>7. k \notin Known /\ k \notin Spared
    BY <1>2, SparedFacts DEF Known
  <1>8. Rests(Spared, kept)
    <2>1. /\ Spared \subseteq Known
          /\ \A j \in Spared : MapLess[j] = map[j] /\ map[j] \in kept
      BY SparedFacts
    <2>2. \A j \in Spared : map'[j] = MapLess[j]
      BY <2>1, <1>1, <1>3, <1>7 DEF Known
    <2> HIDE DEF kept
    <2>3. \A m \in kept : val'[m] = val[m]
      BY <1>1, <1>2, <1>5
    <2>4. QED
      BY <2>1, <2>2, <2>3 DEF Rests
  <1>9. \A j \in Key : j # k /\ j \notin Spared => map'[j] = None
    BY <1>1, <1>3, SparedFacts
  <1>10. map'[k] = n /\ val'[n] = v
    BY <1>1, <1>2, <1>3
  <1> HIDE DEF kept
  <1>11. Policy!Front(k, v, Spared)
    BY <1>4, <1>5, <1>6, <1>7, <1>8, <1>9, <1>10, FrontStep
  <1>12. Policy!Inside = Known
    BY InsideKnown
  <1>13. QED
    BY <1>2, <1>7, <1>11, <1>12, SparedLeft DEF Policy!Put

(* The cache, with its list, its iterators and whatever exceptions leave   *)
(* behind, implements the least-recently-used policy: every call that      *)
(* returns is a get or put of the policy, with the right key forgotten,    *)
(* and every call that throws is a fault of it, which costs at most one    *)
(* key at once and one place for later.                                    *)
THEOREM ImplementsPolicy == Spec => PolicySpec
  <1>1. Init => Policy!Init
    <2> SUFFICES ASSUME Init
                 PROVE  Policy!Init
      OBVIOUS
    <2>1. list = <<>> /\ map = [k \in Key |-> None] /\ throws = 0
      BY DEF Init
    <2>2. Recency = {}
      <3>1. \A m, o : ~Before(m, o)
        BY <2>1 DEF Before
      <3>2. QED
        BY <3>1 DEF Recency
    <2>3. Stored = [k \in Key |-> None]
      BY <2>1 DEF Stored
    <2>4. QED
      BY <2>1, <2>2, <2>3 DEF Policy!Init
  <1>2. IInv /\ IInv' /\ [Next]_vars => [Policy!Next]_(Policy!vars)
    <2> SUFFICES ASSUME IInv, IInv', [Next]_vars
                 PROVE  Policy!Next \/ UNCHANGED Policy!vars
      BY DEF Policy!vars
    <2>1. Inv /\ Inv'
      BY DEF IInv
    <2>2. ASSUME NEW k \in Key, NEW c \in Caller, Get(c, k)
          PROVE  Policy!Next
      BY <2>1, <2>2, GetIsGet DEF Policy!Next
    <2>3. ASSUME NEW k \in Key, NEW v \in Value, Put(k, v)
          PROVE  Policy!Next
      <3>1. CASE PutExisting(k, v)
        BY <2>1, <3>1, PutExistingIsPut DEF Policy!Next
      <3>2. CASE PutNew(k, v)
        BY <2>1, <3>2, PutNewIsPut DEF Policy!Next
      <3>3. CASE PutThrowsInMap(k, v)
        BY <2>1, <3>3, PutThrowsInMapIsFault DEF Policy!Next
      <3>4. QED
        BY <2>3, <3>1, <3>2, <3>3 DEF Put
    <2>4. ASSUME NEW k \in Key, PutThrowsInList(k)
          PROVE  Policy!Next
      BY <2>1, <2>4, PutThrowsInListIsFault DEF Policy!Next
    <2>5. CASE UNCHANGED vars
      <3>1. list' = list /\ map' = map /\ val' = val /\ throws' = throws
        BY <2>5 DEF vars, contents
      <3>2. Recency' = Recency /\ Stored' = Stored
        BY <3>1, RecencyFacts DEF Stored
      <3>3. QED
        BY <3>1, <3>2 DEF Policy!vars
    <2>6. QED
      BY <2>2, <2>3, <2>4, <2>5 DEF Next
  <1>3. QED
    BY <1>1, <1>2, Invariance, PTL DEF Spec, PolicySpec, Policy!Spec
=============================================================================
