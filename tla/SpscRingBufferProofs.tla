------------------------ MODULE SpscRingBufferProofs ------------------------
(***************************************************************************)
(* Theorems about SpscRingBuffer, for every capacity, every set of items   *)
(* and every interleaving and lag of the views.                            *)
(***************************************************************************)
EXTENDS SpscRingBuffer, Integers, TLAPS

(***************************************************************************)
(* Facts about a % n for a symbolic modulus n, which the provers do not    *)
(* know: slots are indexed modulo the size of the buffer.                  *)
(***************************************************************************)
\* The quotient and the remainder of a by n.
LEMMA DivMod ==
  ASSUME NEW a \in Nat, NEW n \in Nat \ {0}
  PROVE  /\ a \div n \in Nat
         /\ a % n \in 0 .. n - 1
         /\ a = n * (a \div n) + (a % n)
  OBVIOUS

\* A multiple of n that is not 0 is at least n away from 0.
LEMMA MultipleGap ==
  ASSUME NEW n \in Nat \ {0}, NEW d \in Int, d # 0
  PROVE  n * d >= n \/ n * d <= -n
  OBVIOUS

\* Quotient and remainder are unique.
LEMMA DivModUnique ==
  ASSUME NEW n \in Nat \ {0},
         NEW q1 \in Int, NEW r1 \in 0 .. n - 1,
         NEW q2 \in Int, NEW r2 \in 0 .. n - 1,
         n * q1 + r1 = n * q2 + r2
  PROVE  q1 = q2 /\ r1 = r2
  <1>1. n * (q1 - q2) = r2 - r1
    OBVIOUS
  <1>2. CASE q1 # q2
    BY <1>1, <1>2, MultipleGap
  <1>3. QED
    BY <1>1, <1>2

\* Two numbers less than n apart with the same remainder are the same.
LEMMA ModInjective ==
  ASSUME NEW n \in Nat \ {0}, NEW a \in Nat, NEW b \in Nat,
         a <= b, b - a < n, a % n = b % n
  PROVE  a = b
  <1> DEFINE p == a \div n
             q == b \div n
  <1>1. /\ p \in Nat /\ q \in Nat
        /\ a = n * p + (a % n) /\ b = n * q + (b % n)
    BY DivMod
  <1> HIDE DEF p, q
  <1>2. n * (q - p) = b - a
    BY <1>1, DivMod
  <1>3. CASE q # p
    BY <1>1, <1>2, <1>3, MultipleGap
  <1>4. QED
    BY <1>1, <1>2, <1>3

\* Adding the modulus does not change the remainder.
LEMMA ModPeriod ==
  ASSUME NEW n \in Nat \ {0}, NEW a \in Nat
  PROVE  (a + n) % n = a % n
  <1> DEFINE p == a \div n
             r == a % n
             q == (a + n) \div n
             s == (a + n) % n
  <1>1. /\ p \in Nat /\ r \in 0 .. n - 1 /\ a = n * p + r
        /\ q \in Nat /\ s \in 0 .. n - 1 /\ a + n = n * q + s
    <2>1. a + n \in Nat
      OBVIOUS
    <2>2. QED
      BY <2>1, DivMod
  <1> HIDE DEF p, r, q, s
  <1>2. n * (p + 1) + r = n * q + s
    BY <1>1
  <1>3. r = s
    BY <1>1, <1>2, DivModUnique
  <1>4. QED
    BY <1>3 DEF r, s

\* Advancing a remainder is taking the remainder of the successor.
LEMMA ModSuccessor ==
  ASSUME NEW n \in Nat \ {0}, NEW a \in Nat
  PROVE  ((a % n) + 1) % n = (a + 1) % n
  <1> DEFINE p == a \div n
             r == a % n
             q == (a + 1) \div n
             s == (a + 1) % n
  <1>1. /\ p \in Nat /\ r \in 0 .. n - 1 /\ a = n * p + r
        /\ q \in Nat /\ s \in 0 .. n - 1 /\ a + 1 = n * q + s
    <2>1. a + 1 \in Nat
      OBVIOUS
    <2>2. QED
      BY <2>1, DivMod
  <1> DEFINE u == (r + 1) \div n
             t == (r + 1) % n
  <1>2. u \in Nat /\ t \in 0 .. n - 1 /\ r + 1 = n * u + t
    <2>1. r + 1 \in Nat
      BY <1>1
    <2>2. QED
      BY <2>1, DivMod
  <1> HIDE DEF p, r, q, s, u, t
  <1>3. n * (p + u) + t = n * q + s
    BY <1>1, <1>2
  <1>4. t = s
    BY <1>1, <1>2, <1>3, DivModUnique
  <1>5. QED
    BY <1>4 DEF t, s, r

\* The distance of two numbers at most n - 1 apart, from their remainders.
LEMMA ModDistance ==
  ASSUME NEW n \in Nat \ {0}, NEW a \in Nat, NEW b \in Nat,
         a <= b, b - a < n
  PROVE  b - a = IF (b % n) >= (a % n) THEN (b % n) - (a % n)
                                   ELSE n - ((a % n) - (b % n))
  <1> DEFINE p == a \div n
             r == a % n
             q == b \div n
             s == b % n
  <1>1. /\ p \in Nat /\ r \in 0 .. n - 1 /\ a = n * p + r
        /\ q \in Nat /\ s \in 0 .. n - 1 /\ b = n * q + s
    BY DivMod
  <1> HIDE DEF p, r, q, s
  <1>2. b - a = n * (q - p) + (s - r)
    BY <1>1
  <1>3. CASE s >= r
    <2>1. q - p = 0 \/ n * (q - p) >= n \/ n * (q - p) <= -n
      BY <1>1, MultipleGap
    <2>2. ~(n * (q - p) >= n) /\ ~(n * (q - p) <= -n)
      BY <1>1, <1>2, <1>3
    <2>3. b - a = s - r
      BY <1>1, <1>2, <2>1, <2>2
    <2>4. QED
      BY <1>3, <2>3 DEF r, s
  <1>4. CASE s < r
    <2>1. n * (q - p) - n = n * (q - p - 1)
      BY <1>1
    <2>2. q - p - 1 = 0 \/ n * (q - p - 1) >= n \/ n * (q - p - 1) <= -n
      BY <1>1, MultipleGap
    <2>3. ~(n * (q - p - 1) >= n) /\ ~(n * (q - p - 1) <= -n)
      BY <1>1, <1>2, <1>4, <2>1
    <2>4. n * (q - p) = n
      BY <1>1, <2>1, <2>2, <2>3
    <2>5. b - a = n - (r - s)
      BY <1>1, <1>2, <2>4
    <2>6. ~(s >= r)
      BY <1>1, <1>4
    <2>7. QED
      BY <2>5, <2>6 DEF r, s
  <1>5. QED
    BY <1>1, <1>3, <1>4

(***************************************************************************)
(* Slots.  After these lemmas SlotOf, NextSlot and Size need not be        *)
(* expanded any more, and the rest of the proof is linear arithmetic.      *)
(***************************************************************************)
LEMMA CapacityType == Capacity \in Nat /\ Capacity + 1 \in Nat \ {0}
  BY SpscAssumption

LEMMA SlotType ==
  ASSUME NEW i \in Nat \ {0}
  PROVE  SlotOf(i) \in Slots
  <1>1. i - 1 \in Nat
    OBVIOUS
  <1>2. (i - 1) % (Capacity + 1) \in 0 .. (Capacity + 1) - 1
    BY <1>1, CapacityType, DivMod
  <1>3. QED
    BY <1>2, CapacityType DEF SlotOf, Slots

LEMMA SlotNext ==
  ASSUME NEW i \in Nat \ {0}
  PROVE  NextSlot(SlotOf(i)) = SlotOf(i + 1)
  <1>1. i - 1 \in Nat /\ (i - 1) + 1 = (i + 1) - 1
    OBVIOUS
  <1>2. (((i - 1) % (Capacity + 1)) + 1) % (Capacity + 1)
          = ((i - 1) + 1) % (Capacity + 1)
    BY <1>1, CapacityType, ModSuccessor
  <1>3. QED
    BY <1>1, <1>2 DEF SlotOf, NextSlot

LEMMA SlotInjective ==
  ASSUME NEW i \in Nat \ {0}, NEW j \in Nat \ {0},
         i <= j, j - i <= Capacity, SlotOf(i) = SlotOf(j)
  PROVE  i = j
  <1>1. /\ i - 1 \in Nat /\ j - 1 \in Nat
        /\ i - 1 <= j - 1 /\ (j - 1) - (i - 1) < Capacity + 1
    BY CapacityType
  <1>2. i - 1 = j - 1
    BY <1>1, CapacityType, ModInjective DEF SlotOf
  <1>3. QED
    BY <1>2

\* One lap of the buffer comes back to the same slot.
LEMMA SlotPeriod ==
  ASSUME NEW i \in Nat \ {0}
  PROVE  SlotOf(i + (Capacity + 1)) = SlotOf(i)
  <1>1. i - 1 \in Nat /\ (i + (Capacity + 1)) - 1 = (i - 1) + (Capacity + 1)
    BY CapacityType
  <1>2. ((i - 1) + (Capacity + 1)) % (Capacity + 1) = (i - 1) % (Capacity + 1)
    BY <1>1, CapacityType, ModPeriod
  <1>3. QED
    BY <1>1, <1>2 DEF SlotOf

\* size() of the indices of items i and j is their distance.
LEMMA SizeDistance ==
  ASSUME NEW i \in Nat \ {0}, NEW j \in Nat \ {0}, i <= j, j - i <= Capacity
  PROVE  Size(SlotOf(j), SlotOf(i)) = j - i
  <1>1. /\ i - 1 \in Nat /\ j - 1 \in Nat /\ (j - 1) - (i - 1) = j - i
        /\ i - 1 <= j - 1 /\ (j - 1) - (i - 1) < Capacity + 1
    BY CapacityType
  <1> DEFINE h == (j - 1) % (Capacity + 1)
             t == (i - 1) % (Capacity + 1)
  <1>2. j - i = IF h >= t THEN h - t ELSE (Capacity + 1) - (t - h)
    BY <1>1, CapacityType, ModDistance
  <1>3. QED
    BY <1>2 DEF SlotOf, Size

(***************************************************************************)
(* What the invariant says about the values a thread loads.                *)
(***************************************************************************)
LEMMA Indices ==
  ASSUME Inv
  PROVE  /\ Len(sent) \in Nat /\ Len(received) \in Nat
         /\ room \in Nat /\ stock \in Nat
         /\ headView \in 1 .. Len(sent) + 1
         /\ tailView \in 1 .. Len(received) + 1
         /\ head_ = SlotOf(Len(sent) + 1) /\ head_ \in Slots
         /\ tail_ = SlotOf(Len(received) + 1) /\ tail_ \in Slots
         /\ HeadSeen.index = SlotOf(headView)
         /\ HeadSeen.accesses = headView - 1
         /\ TailSeen.index = SlotOf(tailView)
         /\ TailSeen.accesses = tailView - 1
  <1>1. /\ Len(sent) \in Nat /\ Len(received) \in Nat
        /\ room \in Nat /\ stock \in Nat
        /\ headView \in 1 .. Len(sent) + 1
        /\ tailView \in 1 .. Len(received) + 1
    BY CapacityType DEF Inv, TypeOK, StoresCount, Slots
  <1>2. head_ = SlotOf(Len(sent) + 1) /\ tail_ = SlotOf(Len(received) + 1)
    BY <1>1 DEF Inv, StoresCount, head_, tail_
  <1>3. head_ \in Slots /\ tail_ \in Slots
    BY <1>1, <1>2, SlotType
  <1>4. /\ HeadSeen = [index |-> SlotOf(headView), accesses |-> headView - 1]
        /\ TailSeen = [index |-> SlotOf(tailView), accesses |-> tailView - 1]
    BY <1>1 DEF Inv, StoresCount, HeadSeen, TailSeen
  <1>5. QED
    BY <1>1, <1>2, <1>3, <1>4

\* The items inside fit, and neither thread overtakes the other.
LEMMA Distance ==
  ASSUME Inv
  PROVE  /\ Len(received) <= Len(sent)
         /\ Len(sent) <= Len(received) + Capacity
         /\ cpc # "idle" => Len(received) < Len(sent)
         /\ ppc # "idle" => Len(sent) < Len(received) + Capacity
  <1>1. /\ Len(sent) \in Nat /\ Len(received) \in Nat
        /\ room \in Nat /\ stock \in Nat
        /\ headView \in 1 .. Len(sent) + 1
        /\ tailView \in 1 .. Len(received) + 1
    BY Indices
  <1>2. QED
    BY <1>1, CapacityType DEF Inv, Window

\* A load of tail_ that does not show a full buffer shows a free slot.
LEMMA NotFull ==
  ASSUME Inv, NextSlot(head_) # TailSeen.index
  PROVE  Len(sent) < tailView - 1 + Capacity
  <1>1. /\ TailSeen.index = SlotOf(tailView) /\ tailView \in Nat \ {0}
        /\ head_ = SlotOf(Len(sent) + 1) /\ Len(sent) \in Nat /\ room \in Nat
    BY Indices
  <1>2. Len(sent) # tailView - 1 + Capacity
    \* otherwise the slot after head_ would be the tail_ that was loaded
    <2>1. SUFFICES ASSUME Len(sent) = tailView - 1 + Capacity PROVE FALSE
      OBVIOUS
    <2>2. NextSlot(head_) = SlotOf(Len(sent) + 2)
      BY <1>1, SlotNext
    <2>3. Len(sent) + 2 = tailView + (Capacity + 1)
      BY <1>1, <2>1, CapacityType
    <2>4. SlotOf(tailView + (Capacity + 1)) = SlotOf(tailView)
      BY <1>1, SlotPeriod
    <2>5. QED
      BY <1>1, <2>2, <2>3, <2>4
  <1>3. QED
    BY <1>1, <1>2, CapacityType DEF Inv, Window

\* A load of head_ that does not show an empty buffer shows an item.
LEMMA NotEmpty ==
  ASSUME Inv, tail_ # HeadSeen.index
  PROVE  Len(received) < headView - 1
  <1>1. /\ headView \in Nat \ {0} /\ HeadSeen.index = SlotOf(headView)
        /\ tail_ = SlotOf(Len(received) + 1)
        /\ Len(received) \in Nat /\ stock \in Nat
    BY Indices
  <1>2. Len(received) # headView - 1
    BY <1>1
  <1>3. QED
    BY <1>1, <1>2 DEF Inv, Window

-----------------------------------------------------------------------------
(***************************************************************************)
(* The invariant is inductive: one lemma for Init and one per action.      *)
(***************************************************************************)
LEMMA InitInv == Init => Inv
  <1> SUFFICES ASSUME Init PROVE Inv
    OBVIOUS
  <1> USE CapacityType
  <1>1. 0 \in Slots /\ SlotOf(1) = 0
    <2>1. SlotOf(1) = 0 % (Capacity + 1)
      BY DEF SlotOf
    <2>2. 0 % (Capacity + 1) = 0
      OBVIOUS
    <2>3. QED
      BY <2>1, <2>2 DEF Slots
  <1>2. TypeOK
    BY <1>1 DEF Init, TypeOK, Store
  <1>3. StoresCount
    BY <1>1 DEF Init, StoresCount
  <1>4. Window /\ Contents /\ Accesses
    BY DEF Init, Window, Contents, Accesses
  <1>5. QED
    BY <1>2, <1>3, <1>4 DEF Inv

LEMMA PushFullInv == Inv /\ PushFull => Inv'
  <1> SUFFICES ASSUME Inv, PushFull PROVE Inv'
    OBVIOUS
  <1>1. TailSeen.accesses \in Nat
    BY Indices
  <1>2. TypeOK'
    BY <1>1 DEF Inv, TypeOK, PushFull, memory, consumer, slots
  <1>3. StoresCount' /\ Window' /\ Contents'
    BY DEF Inv, StoresCount, Window, Contents, PushFull, memory, consumer, slots
  <1>4. Accesses'
    BY DEF Inv, Accesses, PushFull, memory, consumer, slots
  <1>5. QED
    BY <1>2, <1>3, <1>4 DEF Inv

LEMMA PushAcceptInv == ASSUME Inv, NEW x \in Item, PushAccept(x) PROVE Inv'
  <1>1. /\ TailSeen.accesses = tailView - 1 /\ tailView \in Nat \ {0}
        /\ TailSeen.index = SlotOf(tailView)
        /\ head_ = SlotOf(Len(sent) + 1) /\ Len(sent) \in Nat /\ room \in Nat
    BY Indices
  <1>2. TypeOK'
    BY <1>1 DEF Inv, TypeOK, PushAccept, memory, consumer, slots
  <1>3. StoresCount' /\ Contents'
    BY DEF Inv, StoresCount, Contents, PushAccept, memory, consumer, slots
  <1>5. Len(sent) < tailView - 1 + Capacity
    BY NotFull DEF PushAccept
  <1>6. Window'
    BY <1>5 DEF Inv, Window, PushAccept, memory, consumer
  <1>7. Accesses'
    BY <1>1, <1>5, CapacityType
       DEF Inv, Accesses, PushAccept, memory, consumer, slots
  <1>8. QED
    BY <1>2, <1>3, <1>6, <1>7 DEF Inv

\* The slot that push fills holds no item that is still to be taken.
LEMMA HeadSlotFree ==
  ASSUME Inv, ppc # "idle"
  PROVE  \A i \in Len(received) + 1 .. Len(sent) : SlotOf(i) # head_
  <1> SUFFICES ASSUME NEW i \in Len(received) + 1 .. Len(sent),
                      SlotOf(i) = SlotOf(Len(sent) + 1)
               PROVE  FALSE
    BY Indices
  <1>1. /\ Len(received) \in Nat /\ Len(sent) \in Nat
        /\ Len(sent) < Len(received) + Capacity
    BY Indices, Distance
  <1>2. /\ i \in Nat \ {0} /\ Len(sent) + 1 \in Nat \ {0}
        /\ i <= Len(sent) + 1 /\ (Len(sent) + 1) - i <= Capacity
    BY <1>1, CapacityType
  <1>3. i = Len(sent) + 1
    BY <1>2, SlotInjective
  <1>4. QED
    BY <1>1, <1>3

LEMMA PushWriteInv == Inv /\ PushWrite => Inv'
  <1> SUFFICES ASSUME Inv, PushWrite PROVE Inv'
    OBVIOUS
  <1>1. /\ Len(sent) \in Nat /\ Len(received) \in Nat /\ head_ \in Slots
        /\ head_ = SlotOf(Len(sent) + 1)
    BY Indices
  <1>2. ppc = "write" /\ pitem \in Item
    BY DEF PushWrite, Inv, Contents
  <1>3. TypeOK'
    BY <1>1 DEF Inv, TypeOK, PushWrite, memory, consumer
  <1>4. StoresCount' /\ Window'
    BY <1>2 DEF Inv, StoresCount, Window, PushWrite, memory, consumer
  <1>5. Contents'
    <2>1. buffer'[head_] = pitem /\ \A s \in Slots \ {head_} : buffer'[s] = buffer[s]
      BY <1>1 DEF PushWrite, Inv, TypeOK
    <2>2. \A i \in Len(received) + 1 .. Len(sent) :
            SlotOf(i) # head_ /\ SlotOf(i) \in Slots
      BY <1>1, <1>2, HeadSlotFree, SlotType
    <2>3. QED
      BY <1>1, <1>2, <2>1, <2>2
         DEF Inv, Contents, PushWrite, memory, consumer
  <1>6. Accesses'
    BY <1>1 DEF Inv, TypeOK, Accesses, PushWrite, memory, consumer
  <1>7. QED
    BY <1>3, <1>4, <1>5, <1>6 DEF Inv

LEMMA PushThrowInv == Inv /\ PushThrow => Inv'
  <1> SUFFICES ASSUME Inv, PushThrow PROVE Inv'
    OBVIOUS
  <1>1. /\ Len(sent) \in Nat /\ Len(received) \in Nat /\ head_ \in Slots
        /\ head_ = SlotOf(Len(sent) + 1)
    BY Indices
  <1>2. TypeOK'
    BY <1>1 DEF Inv, TypeOK, PushThrow, memory, consumer
  <1>3. StoresCount' /\ Window'
    BY DEF Inv, StoresCount, Window, PushThrow, memory, consumer
  <1>4. Contents'
    <2>1. \A s \in Slots \ {head_} : buffer'[s] = buffer[s]
      BY <1>1 DEF PushThrow, Inv, TypeOK
    <2>2. ppc # "idle"
      BY DEF PushThrow
    <2>3. \A i \in Len(received) + 1 .. Len(sent) :
            SlotOf(i) # head_ /\ SlotOf(i) \in Slots
      BY <1>1, <2>2, HeadSlotFree, SlotType
    <2>4. QED
      BY <1>1, <2>1, <2>3 DEF Inv, Contents, PushThrow, memory, consumer
  <1>5. Accesses'
    BY <1>1 DEF Inv, TypeOK, Accesses, PushThrow, memory, consumer
  <1>6. QED
    BY <1>2, <1>3, <1>4, <1>5 DEF Inv

LEMMA PushStoreInv == Inv /\ PushStore => Inv'
  <1> SUFFICES ASSUME Inv, PushStore PROVE Inv'
    OBVIOUS
  <1>1. /\ Len(sent) \in Nat /\ Len(received) \in Nat /\ room \in Nat
        /\ head_ = SlotOf(Len(sent) + 1)
        /\ headView \in 1 .. Len(sent) + 1
        /\ tailView \in 1 .. Len(received) + 1
    BY Indices
  <1>2. NextSlot(head_) = SlotOf(Len(sent) + 2) /\ NextSlot(head_) \in Slots
    BY <1>1, SlotNext, SlotType
  <1>3. ppc = "store" /\ pitem \in Item
    BY DEF PushStore, Inv, Contents
  <1> DEFINE st == [index |-> SlotOf(Len(sent) + 2), accesses |-> Len(sent) + 1]
  <1>4. headStores' = Append(headStores, st) /\ sent' = Append(sent, pitem)
    BY <1>2 DEF PushStore, ReleaseStore
  <1>5. /\ sent' \in Seq(Item) /\ Len(sent') = Len(sent) + 1
        /\ \A i \in 1 .. Len(sent) : sent'[i] = sent[i]
        /\ sent'[Len(sent) + 1] = pitem
    BY <1>3, <1>4 DEF Inv, TypeOK
  <1>6. /\ headStores' \in Seq(Store) /\ Len(headStores') = Len(sent) + 2
        /\ \A i \in 1 .. Len(sent) + 1 : headStores'[i] = headStores[i]
        /\ headStores'[Len(sent) + 2] = st
    <2>1. st \in Store
      BY <1>1, <1>2 DEF Store
    <2>2. headStores \in Seq(Store) /\ Len(headStores) = Len(sent) + 1
      BY DEF Inv, TypeOK, StoresCount
    <2> HIDE DEF st
    <2>3. QED
      BY <1>1, <1>4, <2>1, <2>2
  <1>7. /\ room' \in Slots
        /\ room = 0 => room' = 0
        /\ room # 0 => room' = room - 1
    <2>1. room \in 0 .. Capacity
      BY DEF Inv, TypeOK, Slots
    <2>2. room' = IF room = 0 THEN 0 ELSE room - 1
      BY DEF PushStore
    <2>3. QED
      BY <2>1, <2>2, CapacityType DEF Slots
  <1> HIDE DEF st
  <1>8. TypeOK'
    <2>1. headView \in 1 .. Len(headStores')
      BY <1>1, <1>6
    <2>2. QED
      BY <1>5, <1>6, <1>7, <2>1 DEF Inv, TypeOK, PushStore, consumer, slots
  <1>9. StoresCount'
    BY <1>1, <1>5, <1>6 DEF st, Inv, StoresCount, PushStore, consumer
  <1>10. Window'
    BY <1>1, <1>3, <1>5, <1>7, CapacityType
       DEF Inv, Window, PushStore, consumer
  <1>11. Contents'
    BY <1>1, <1>3, <1>5, Distance
       DEF Inv, Contents, PushStore, consumer, slots
  <1>12. Accesses'
    <2>1. /\ lastWrite' = lastWrite /\ lastRead' = lastRead
          /\ lastWrite \in [Slots -> Nat] /\ lastRead \in [Slots -> Nat]
          /\ ppc' = "idle" /\ UNCHANGED <<cpc, pushesKnown, received>>
      BY DEF Inv, TypeOK, PushStore, consumer, slots
    <2>2. QED
      BY <1>1, <1>5, <2>1 DEF Inv, Accesses
  <1>13. QED
    BY <1>8, <1>9, <1>10, <1>11, <1>12 DEF Inv

LEMMA PopEmptyInv == Inv /\ PopEmpty => Inv'
  <1> SUFFICES ASSUME Inv, PopEmpty PROVE Inv'
    OBVIOUS
  <1>1. HeadSeen.accesses \in Nat
    BY Indices
  <1>2. TypeOK'
    BY <1>1 DEF Inv, TypeOK, PopEmpty, memory, producer, slots
  <1>3. StoresCount' /\ Window' /\ Contents'
    BY DEF Inv, StoresCount, Window, Contents, PopEmpty, memory, producer, slots
  <1>4. Accesses'
    BY DEF Inv, Accesses, PopEmpty, memory, producer, slots
  <1>5. QED
    BY <1>2, <1>3, <1>4 DEF Inv

LEMMA PopAcceptInv == Inv /\ PopAccept => Inv'
  <1> SUFFICES ASSUME Inv, PopAccept PROVE Inv'
    OBVIOUS
  <1>1. /\ HeadSeen.accesses = headView - 1 /\ headView \in Nat \ {0}
        /\ HeadSeen.index = SlotOf(headView)
        /\ tail_ = SlotOf(Len(received) + 1)
        /\ Len(received) \in Nat /\ stock \in Nat
    BY Indices
  <1>2. TypeOK'
    BY <1>1 DEF Inv, TypeOK, PopAccept, memory, producer, slots
  <1>3. StoresCount' /\ Contents'
    BY DEF Inv, StoresCount, Contents, PopAccept, memory, producer, slots
  <1>5. Len(received) < headView - 1
    BY NotEmpty DEF PopAccept
  <1>6. Window'
    BY <1>5 DEF Inv, Window, PopAccept, memory, producer
  <1>7. Accesses'
    BY <1>1, <1>5 DEF Inv, Accesses, PopAccept, memory, producer, slots
  <1>8. QED
    BY <1>2, <1>3, <1>6, <1>7 DEF Inv

LEMMA PopReadInv == Inv /\ PopRead => Inv'
  <1> SUFFICES ASSUME Inv, PopRead PROVE Inv'
    OBVIOUS
  <1>1. /\ Len(sent) \in Nat /\ Len(received) \in Nat /\ tail_ \in Slots
        /\ tail_ = SlotOf(Len(received) + 1) /\ Len(received) < Len(sent)
    BY Indices, Distance DEF PopRead
  <1>2. celem' = sent[Len(received) + 1] /\ celem' \in Item \cup {NoItem}
    BY <1>1 DEF PopRead, Inv, TypeOK, Contents
  <1>3. TypeOK'
    BY <1>1, <1>2 DEF Inv, TypeOK, PopRead, memory, producer
  <1>4. StoresCount' /\ Window'
    BY DEF Inv, StoresCount, Window, PopRead, memory, producer
  <1>5. Contents'
    BY <1>2 DEF Inv, Contents, PopRead, memory, producer
  <1>6. Accesses'
    <2>1. /\ UNCHANGED <<lastWrite, sent, ppc, popsKnown>>
          /\ cpc' # "read"
          /\ lastRead \in [Slots -> Nat]
          /\ lastRead' = [lastRead EXCEPT ![tail_] = Len(received) + 1]
      BY DEF Inv, TypeOK, PopRead, memory, producer
    <2>2. ASSUME NEW s \in Slots, lastRead'[s] # 0
          PROVE  lastRead'[s] <= Len(sent) /\ SlotOf(lastRead'[s]) = s
      BY <1>1, <2>1, <2>2 DEF Inv, Accesses
    <2>3. QED
      BY <2>1, <2>2 DEF Inv, Accesses
  <1>7. QED
    BY <1>3, <1>4, <1>5, <1>6 DEF Inv

LEMMA PopThrowInv == Inv /\ PopThrow => Inv'
  <1> SUFFICES ASSUME Inv, PopThrow PROVE Inv'
    OBVIOUS
  <1>1. /\ Len(sent) \in Nat /\ Len(received) \in Nat /\ tail_ \in Slots
        /\ tail_ = SlotOf(Len(received) + 1) /\ Len(received) < Len(sent)
    BY Indices, Distance DEF PopThrow
  <1>2. TypeOK'
    BY <1>1 DEF Inv, TypeOK, PopThrow, memory, producer
  <1>3. StoresCount' /\ Window' /\ Contents'
    BY DEF Inv, StoresCount, Window, Contents, PopThrow, memory, producer
  <1>4. Accesses'
    <2>1. /\ lastRead' = [lastRead EXCEPT ![tail_] = Len(received) + 1]
          /\ lastRead \in [Slots -> Nat] /\ cpc' = "idle"
          /\ UNCHANGED <<lastWrite, ppc, popsKnown, sent, received>>
      BY DEF Inv, TypeOK, PopThrow, memory, producer
    <2>2. QED
      BY <1>1, <2>1 DEF Inv, Accesses
  <1>5. QED
    BY <1>2, <1>3, <1>4 DEF Inv

LEMMA PopStoreInv == Inv /\ PopStore => Inv'
  <1> SUFFICES ASSUME Inv, PopStore PROVE Inv'
    OBVIOUS
  <1>1. /\ Len(sent) \in Nat /\ Len(received) \in Nat /\ stock \in Nat
        /\ tail_ = SlotOf(Len(received) + 1)
        /\ headView \in 1 .. Len(sent) + 1
        /\ tailView \in 1 .. Len(received) + 1
        /\ Len(received) < Len(sent)
    BY Indices, Distance DEF PopStore
  <1>2. NextSlot(tail_) = SlotOf(Len(received) + 2) /\ NextSlot(tail_) \in Slots
    BY <1>1, SlotNext, SlotType
  <1>3. celem = sent[Len(received) + 1] /\ celem \in Item
    BY <1>1 DEF PopStore, Inv, TypeOK, Contents
  <1> DEFINE st == [index |-> SlotOf(Len(received) + 2),
                    accesses |-> Len(received) + 1]
  <1>4. tailStores' = Append(tailStores, st) /\ received' = Append(received, celem)
    BY <1>2 DEF PopStore, ReleaseStore
  <1>5. received' \in Seq(Item) /\ Len(received') = Len(received) + 1
    BY <1>3, <1>4 DEF Inv, TypeOK
  <1>6. /\ tailStores' \in Seq(Store) /\ Len(tailStores') = Len(received) + 2
        /\ \A i \in 1 .. Len(received) + 1 : tailStores'[i] = tailStores[i]
        /\ tailStores'[Len(received) + 2] = st
    <2>1. st \in Store
      BY <1>1, <1>2 DEF Store
    <2>2. tailStores \in Seq(Store) /\ Len(tailStores) = Len(received) + 1
      BY DEF Inv, TypeOK, StoresCount
    <2> HIDE DEF st
    <2>3. QED
      BY <1>1, <1>4, <2>1, <2>2
  <1>7. /\ stock' \in Slots
        /\ stock = 0 => stock' = 0
        /\ stock # 0 => stock' = stock - 1
    <2>1. stock \in 0 .. Capacity
      BY DEF Inv, TypeOK, Slots
    <2>2. stock' = IF stock = 0 THEN 0 ELSE stock - 1
      BY DEF PopStore
    <2>3. QED
      BY <2>1, <2>2, CapacityType DEF Slots
  <1> HIDE DEF st
  <1>8. TypeOK'
    <2>1. tailView \in 1 .. Len(tailStores')
      BY <1>1, <1>6
    <2>2. QED
      BY <1>5, <1>6, <1>7, <2>1 DEF Inv, TypeOK, PopStore, producer, slots
  <1>9. StoresCount'
    BY <1>1, <1>5, <1>6 DEF st, Inv, StoresCount, PopStore, producer
  <1>10. Window'
    BY <1>1, <1>5, <1>7, CapacityType DEF Inv, Window, PopStore, producer
  <1>11. Contents'
    BY <1>1, <1>5 DEF Inv, Contents, PopStore, producer, slots
  <1>12. Accesses'
    BY <1>1, <1>5 DEF Inv, TypeOK, Accesses, PopStore, producer, slots
  <1>13. QED
    BY <1>8, <1>9, <1>10, <1>11, <1>12 DEF Inv

LEMMA ProducerAsksInv == Inv /\ ProducerAsks => Inv'
  <1> SUFFICES ASSUME Inv, ProducerAsks PROVE Inv'
    OBVIOUS
  <1>1. /\ Len(sent) \in Nat /\ Len(received) \in Nat /\ room \in Slots
        /\ tailView \in 1 .. Len(received) + 1
        /\ TailSeen.index = SlotOf(tailView)
        /\ head_ = SlotOf(Len(sent) + 1)
        /\ Len(received) <= Len(sent)
        /\ Len(sent) <= tailView - 1 + Capacity
    <2>1. room \in Slots /\ room \in Nat
      BY Indices DEF Inv, TypeOK
    <2>2. Len(sent) <= tailView - 1 + Capacity
      BY <2>1, Indices, CapacityType DEF Inv, Window
    <2>3. QED
      BY <2>1, <2>2, Indices, Distance
  <1>2. /\ tailView \in Nat \ {0} /\ Len(sent) + 1 \in Nat \ {0}
        /\ tailView <= Len(sent) + 1 /\ (Len(sent) + 1) - tailView <= Capacity
    BY <1>1, CapacityType
  <1>3. /\ room' \in Slots
        /\ Len(sent) + room' <= tailView - 1 + Capacity
    <2>1. CASE room' = Capacity - Size(head_, TailSeen.index)
      <3>1. Size(head_, TailSeen.index) = (Len(sent) + 1) - tailView
        BY <1>1, <1>2, SizeDistance
      <3>2. QED
        BY <1>1, <1>2, <2>1, <3>1, CapacityType DEF Slots
    <2>2. CASE ~IsFull(head_, TailSeen.index) /\ room' = Larger(room, 1)
      <3>1. Len(sent) < tailView - 1 + Capacity
        BY <2>2, NotFull DEF IsFull, NextSlot
      <3>2. room \in 0 .. Capacity /\ room' = IF room > 1 THEN room ELSE 1
        BY <1>1, <2>2 DEF Larger, Slots
      <3>3. QED
        BY <1>1, <1>2, <3>1, <3>2, CapacityType DEF Slots, Inv, Window
    <2>3. CASE IsEmpty(head_, TailSeen.index) /\ room' = Capacity
      <3>1. tailView = Len(sent) + 1
        BY <1>1, <1>2, <2>3, SlotInjective DEF IsEmpty
      <3>2. QED
        BY <1>1, <2>3, <3>1, CapacityType DEF Slots
    <2>4. QED
      BY <2>1, <2>2, <2>3 DEF ProducerAsks
  <1>4. TypeOK'
    BY <1>3 DEF Inv, TypeOK, ProducerAsks, memory, consumer, slots
  <1>5. StoresCount' /\ Contents' /\ Accesses'
    BY DEF Inv, StoresCount, Contents, Accesses, ProducerAsks,
           memory, consumer, slots
  <1>6. Window'
    BY <1>3 DEF Inv, Window, ProducerAsks, memory, consumer
  <1>7. QED
    BY <1>4, <1>5, <1>6 DEF Inv

LEMMA ConsumerAsksInv == Inv /\ ConsumerAsks => Inv'
  <1> SUFFICES ASSUME Inv, ConsumerAsks PROVE Inv'
    OBVIOUS
  <1>1. /\ Len(sent) \in Nat /\ Len(received) \in Nat /\ stock \in Slots
        /\ headView \in 1 .. Len(sent) + 1
        /\ HeadSeen.index = SlotOf(headView)
        /\ tail_ = SlotOf(Len(received) + 1)
        /\ Len(received) <= headView - 1
        /\ Len(sent) <= Len(received) + Capacity
    <2>1. stock \in Slots /\ stock \in Nat
      BY Indices DEF Inv, TypeOK
    <2>2. Len(received) <= headView - 1
      BY <2>1, Indices DEF Inv, Window
    <2>3. QED
      BY <2>1, <2>2, Indices, Distance
  <1>2. /\ headView \in Nat \ {0} /\ Len(received) + 1 \in Nat \ {0}
        /\ Len(received) + 1 <= headView
        /\ headView - (Len(received) + 1) <= Capacity
    BY <1>1, CapacityType
  <1>3. stock' \in Slots /\ Len(received) + stock' <= headView - 1
    <2>1. CASE stock' = Size(HeadSeen.index, tail_)
      <3>1. Size(HeadSeen.index, tail_) = headView - (Len(received) + 1)
        BY <1>1, <1>2, SizeDistance
      <3>2. QED
        BY <1>1, <1>2, <2>1, <3>1, CapacityType DEF Slots
    <2>2. CASE ~IsEmpty(HeadSeen.index, tail_) /\ stock' = Larger(stock, 1)
      <3>1. Len(received) < headView - 1
        BY <2>2, NotEmpty DEF IsEmpty
      <3>2. stock \in 0 .. Capacity /\ stock' = IF stock > 1 THEN stock ELSE 1
        BY <1>1, <2>2 DEF Larger, Slots
      <3>3. QED
        BY <1>1, <1>2, <3>1, <3>2, CapacityType DEF Slots, Inv, Window
    <2>3. CASE IsFull(HeadSeen.index, tail_) /\ stock' = Capacity
      \* tail_ is the slot after the head_ that was loaded, a lap ahead
      <3>1. NextSlot(HeadSeen.index) = SlotOf(headView + 1)
        BY <1>1, <1>2, SlotNext
      <3>2. SlotOf((Len(received) + 1) + (Capacity + 1)) = tail_
        BY <1>1, <1>2, SlotPeriod
      <3>3. SlotOf(headView + 1) = SlotOf(Len(received) + Capacity + 2)
        <4>1. (Len(received) + 1) + (Capacity + 1) = Len(received) + Capacity + 2
          BY <1>1, CapacityType
        <4>2. QED
          BY <2>3, <3>1, <3>2, <4>1 DEF IsFull, NextSlot
      <3>4. /\ headView + 1 \in Nat \ {0}
            /\ Len(received) + Capacity + 2 \in Nat \ {0}
            /\ headView + 1 <= Len(received) + Capacity + 2
            /\ (Len(received) + Capacity + 2) - (headView + 1) <= Capacity
        BY <1>1, <1>2, CapacityType
      <3>5. headView + 1 = Len(received) + Capacity + 2
        BY <3>3, <3>4, SlotInjective
      <3>6. QED
        BY <1>1, <2>3, <3>5, CapacityType DEF Slots
    <2>4. QED
      BY <2>1, <2>2, <2>3 DEF ConsumerAsks
  <1>4. TypeOK'
    BY <1>3 DEF Inv, TypeOK, ConsumerAsks, memory, producer, slots
  <1>5. StoresCount' /\ Contents' /\ Accesses'
    BY DEF Inv, StoresCount, Contents, Accesses, ConsumerAsks,
           memory, producer, slots
  <1>6. Window'
    BY <1>3 DEF Inv, Window, ConsumerAsks, memory, producer
  <1>7. QED
    BY <1>4, <1>5, <1>6 DEF Inv

LEMMA HeadBecomesVisibleInv == Inv /\ HeadBecomesVisible => Inv'
  <1> SUFFICES ASSUME Inv, HeadBecomesVisible PROVE Inv'
    OBVIOUS
  <1>1. headView \in Nat /\ headView' = headView + 1
        /\ headView' \in 1 .. Len(headStores) /\ Len(received) \in Nat
        /\ stock \in Nat
    BY Indices DEF HeadBecomesVisible, Inv, TypeOK
  <1>2. TypeOK'
    BY <1>1 DEF Inv, TypeOK, HeadBecomesVisible, producer, consumer, slots
  <1>3. StoresCount' /\ Contents' /\ Accesses'
    BY DEF Inv, StoresCount, Contents, Accesses, HeadBecomesVisible,
           producer, consumer, slots
  <1>4. Window'
    BY <1>1 DEF Inv, Window, HeadBecomesVisible, producer, consumer
  <1>5. QED
    BY <1>2, <1>3, <1>4 DEF Inv

LEMMA TailBecomesVisibleInv == Inv /\ TailBecomesVisible => Inv'
  <1> SUFFICES ASSUME Inv, TailBecomesVisible PROVE Inv'
    OBVIOUS
  <1>1. /\ tailView \in Nat /\ tailView' = tailView + 1
        /\ tailView' \in 1 .. Len(tailStores) /\ Len(sent) \in Nat
        /\ room \in Nat
    BY Indices DEF TailBecomesVisible, Inv, TypeOK
  <1>2. TypeOK'
    BY <1>1 DEF Inv, TypeOK, TailBecomesVisible, producer, consumer, slots
  <1>3. StoresCount' /\ Contents' /\ Accesses'
    BY DEF Inv, StoresCount, Contents, Accesses, TailBecomesVisible,
           producer, consumer, slots
  <1>4. Window'
    BY <1>1, CapacityType DEF Inv, Window, TailBecomesVisible, producer, consumer
  <1>5. QED
    BY <1>2, <1>3, <1>4 DEF Inv

LEMMA StutterInv == Inv /\ UNCHANGED vars => Inv'
  BY DEF Inv, TypeOK, StoresCount, Window, Contents, Accesses, vars,
         memory, producer, consumer, slots, head_, tail_

LEMMA NextInv == Inv /\ [Next]_vars => Inv'
  BY PushFullInv, PushAcceptInv, PushWriteInv, PushThrowInv, PushStoreInv,
     PopEmptyInv, PopAcceptInv, PopReadInv, PopThrowInv, PopStoreInv,
     ProducerAsksInv, ConsumerAsksInv, HeadBecomesVisibleInv,
     TailBecomesVisibleInv, StutterInv DEF Next, Push, Pop

(* The inductive invariant holds in every reachable state, for every       *)
(* capacity, bound and interleaving.                                       *)
THEOREM Invariance == Spec => []Inv
  <1>1. Init => Inv
    BY InitInv
  <1>2. Inv /\ [Next]_vars => Inv'
    BY NextInv
  <1>3. QED
    BY <1>1, <1>2, PTL DEF Spec

-----------------------------------------------------------------------------
(***************************************************************************)
(* What follows from the invariant.                                        *)
(***************************************************************************)

(* The types of the variables.                                             *)
THEOREM TypeCorrect == Spec => []TypeOK
  <1>1. Inv => TypeOK
    BY DEF Inv
  <1>2. QED
    BY <1>1, Invariance, PTL

\* The slot push is about to fill was last read, if ever, by a pop that the
\* acquire load of tail_ has made known.
LEMMA ReadsKnown ==
  ASSUME Inv, ppc = "write"
  PROVE  lastRead[head_] <= popsKnown
  <1>1. /\ Len(sent) \in Nat /\ head_ \in Slots /\ head_ = SlotOf(Len(sent) + 1)
        /\ popsKnown \in Nat /\ Len(sent) < popsKnown + Capacity
    BY Indices DEF Inv, TypeOK, Accesses
  <1> DEFINE k == lastRead[head_]
  <1>2. k \in Nat /\ (k # 0 => k <= Len(sent) /\ SlotOf(k) = head_)
    BY <1>1 DEF Inv, TypeOK, Accesses
  <1> HIDE DEF k
  <1>3. CASE k # 0
    <2>1. k \in Nat \ {0} /\ Len(sent) + 1 \in Nat \ {0}
          /\ k <= Len(sent) /\ SlotOf(k) = SlotOf(Len(sent) + 1)
      BY <1>1, <1>2, <1>3
    <2>2. ~((Len(sent) + 1) - k <= Capacity)
      BY <1>1, <2>1, SlotInjective
    <2>3. k <= popsKnown
      BY <1>1, <2>1, <2>2, CapacityType
    <2>4. QED
      BY <2>3 DEF k
  <1>4. CASE k = 0
    BY <1>1, <1>4 DEF k
  <1>5. QED
    BY <1>3, <1>4

\* The slot pop is about to take was last written by a push that the acquire
\* load of head_ has made known.
LEMMA WritesKnown ==
  ASSUME Inv, cpc = "read"
  PROVE  lastWrite[tail_] <= pushesKnown
  <1>1. /\ Len(sent) \in Nat /\ Len(received) \in Nat
        /\ tail_ \in Slots /\ tail_ = SlotOf(Len(received) + 1)
        /\ pushesKnown \in Nat /\ Len(received) < pushesKnown
        /\ Len(sent) <= Len(received) + Capacity
    BY Indices, Distance DEF Inv, TypeOK, Accesses
  <1> DEFINE k == lastWrite[tail_]
  <1>2. k \in Nat /\ (k # 0 => k <= Len(sent) + 1 /\ SlotOf(k) = tail_)
    BY <1>1 DEF Inv, TypeOK, Accesses
  <1> HIDE DEF k
  <1>3. CASE k > Len(received) + 1
    <2>1. /\ k \in Nat \ {0} /\ Len(received) + 1 \in Nat \ {0}
          /\ Len(received) + 1 <= k /\ k - (Len(received) + 1) <= Capacity
          /\ SlotOf(k) = SlotOf(Len(received) + 1)
      BY <1>1, <1>2, <1>3, CapacityType
    <2>2. Len(received) + 1 = k
      BY <2>1, SlotInjective
    <2>3. QED
      BY <1>1, <1>3, <2>2
  <1>4. CASE k <= Len(received) + 1
    <2>1. k <= pushesKnown
      BY <1>1, <1>2, <1>4
    <2>2. QED
      BY <2>1 DEF k
  <1>5. QED
    BY <1>1, <1>2, <1>3, <1>4

\* The two threads are never at the same slot.
LEMMA SlotsApart ==
  ASSUME Inv, ppc = "write", cpc = "read"
  PROVE  head_ # tail_
  <1>1. /\ Len(sent) \in Nat /\ Len(received) \in Nat
        /\ head_ = SlotOf(Len(sent) + 1) /\ tail_ = SlotOf(Len(received) + 1)
        /\ Len(received) < Len(sent) /\ Len(sent) < Len(received) + Capacity
    BY Indices, Distance
  <1>2. /\ Len(received) + 1 \in Nat \ {0} /\ Len(sent) + 1 \in Nat \ {0}
        /\ Len(received) + 1 <= Len(sent) + 1
        /\ (Len(sent) + 1) - (Len(received) + 1) <= Capacity
        /\ Len(received) + 1 # Len(sent) + 1
    BY <1>1, CapacityType
  <1>3. SlotOf(Len(received) + 1) # SlotOf(Len(sent) + 1)
    BY <1>2, SlotInjective
  <1>4. QED
    BY <1>1, <1>3

(* The release and acquire orders of push and pop order all accesses to    *)
(* the slots: there is no data race, whatever the capacity.                *)
THEOREM RaceFreedom == Spec => []NoDataRace
  <1>1. Inv => NoDataRace
    BY ReadsKnown, WritesKnown, SlotsApart DEF NoDataRace
  <1>2. QED
    BY <1>1, Invariance, PTL

\* While a thread has room (stock), what it loads shows a free slot (item).
LEMMA InvHints == Inv => HintsHold
  <1> SUFFICES ASSUME Inv PROVE HintsHold
    OBVIOUS
  <1>1. /\ Len(sent) \in Nat /\ Len(received) \in Nat
        /\ room \in Nat /\ stock \in Nat
        /\ headView \in 1 .. Len(sent) + 1 /\ tailView \in 1 .. Len(received) + 1
        /\ head_ = SlotOf(Len(sent) + 1) /\ tail_ = SlotOf(Len(received) + 1)
        /\ HeadSeen.index = SlotOf(headView) /\ TailSeen.index = SlotOf(tailView)
        /\ Len(received) <= Len(sent) /\ Len(sent) <= Len(received) + Capacity
        /\ Len(sent) + room <= tailView - 1 + Capacity
        /\ Len(received) + stock <= headView - 1
    BY Indices, Distance DEF Inv, Window
  <1>2. ASSUME room > 0 PROVE NextSlot(head_) # TailSeen.index
    <2>1. /\ tailView \in Nat \ {0} /\ Len(sent) + 2 \in Nat \ {0}
          /\ tailView <= Len(sent) + 2 /\ (Len(sent) + 2) - tailView <= Capacity
          /\ tailView # Len(sent) + 2
      BY <1>1, <1>2, CapacityType
    <2>2. SlotOf(Len(sent) + 2) # SlotOf(tailView)
      BY <2>1, SlotInjective
    <2>3. NextSlot(head_) = SlotOf(Len(sent) + 2)
      BY <1>1, SlotNext
    <2>4. QED
      BY <1>1, <2>2, <2>3
  <1>3. ASSUME stock > 0 PROVE tail_ # HeadSeen.index
    <2>1. /\ Len(received) + 1 \in Nat \ {0} /\ headView \in Nat \ {0}
          /\ Len(received) + 1 <= headView
          /\ headView - (Len(received) + 1) <= Capacity
          /\ Len(received) + 1 # headView
      BY <1>1, <1>3, CapacityType
    <2>2. SlotOf(Len(received) + 1) # SlotOf(headView)
      BY <2>1, SlotInjective
    <2>3. QED
      BY <1>1, <2>2
  <1>4. QED
    BY <1>2, <1>3 DEF HintsHold

(* The answers of size, is_full and is_empty may be relied upon by the     *)
(* thread that asked, although they load with relaxed order.               *)
THEOREM HintsReliable == Spec => []HintsHold
  <1>1. QED
    BY InvHints, Invariance, PTL

(* The ring buffer is a first-in first-out queue of at most Capacity       *)
(* items that loses, duplicates and tears none.                            *)
THEOREM ImplementsFifo == Spec => FifoSpec
  <1>1. Init => Fifo!Init
    BY DEF Init, Fifo!Init
  <1>2. Inv /\ [Next]_vars => [Fifo!Next]_(Fifo!vars)
    <2> SUFFICES ASSUME Inv, [Next]_vars PROVE [Fifo!Next]_(Fifo!vars)
      OBVIOUS
    <2>1. CASE PushStore
      <3>1. /\ pitem \in Item /\ sent' = Append(sent, pitem)
            /\ received' = received
        BY <2>1 DEF PushStore, consumer, Inv, Contents
      <3>2. Len(sent) - Len(received) < Capacity
        BY <2>1, Indices, Distance, CapacityType DEF PushStore
      <3>3. Fifo!Push(pitem)
        BY <3>1, <3>2 DEF Fifo!Push
      <3>4. QED
        BY <3>1, <3>3 DEF Fifo!Next
    <2>2. CASE PopStore
      <3>1. /\ Len(received) < Len(sent) /\ sent' = sent
            /\ received' = Append(received, sent[Len(received) + 1])
        BY <2>2, Distance DEF PopStore, producer, Inv, Contents
      <3>2. Fifo!Pop
        BY <3>1 DEF Fifo!Pop
      <3>3. QED
        BY <3>2 DEF Fifo!Next
    <2>3. CASE UNCHANGED <<sent, received>>
      BY <2>3 DEF Fifo!vars
    <2>4. PushStore \/ PopStore \/ UNCHANGED <<sent, received>>
      BY DEF Next, Push, Pop, PushFull, PushAccept, PushWrite, PushThrow,
             PopEmpty, PopAccept, PopRead, PopThrow, ProducerAsks, ConsumerAsks,
             HeadBecomesVisible, TailBecomesVisible, vars, producer, consumer
    <2>5. QED
      BY <2>1, <2>2, <2>3, <2>4
  <1>3. QED
    BY <1>1, <1>2, Invariance, PTL DEF Spec, FifoSpec, Fifo!Spec
-----------------------------------------------------------------------------
(***************************************************************************)
(* The answers of size, is_full, is_empty, push and pop, in numbers of     *)
(* items, of which the indices show the remainders only.                   *)
(***************************************************************************)

\* The pops that the producer, and the pushes that the consumer has seen.
PopsSeen   == tailView - 1
PushesSeen == headView - 1

\* What the producer is told counts the items it has not seen popped, and what
\* the consumer is told those it has seen pushed.
AnswersExact ==
  /\ Size(head_, TailSeen.index) = Len(sent) - PopsSeen
  /\ IsFull(head_, TailSeen.index) <=> Len(sent) - PopsSeen = Capacity
  /\ IsEmpty(head_, TailSeen.index) <=> Len(sent) = PopsSeen
  /\ Size(HeadSeen.index, tail_) = PushesSeen - Len(received)
  /\ IsFull(HeadSeen.index, tail_) <=> PushesSeen - Len(received) = Capacity
  /\ IsEmpty(HeadSeen.index, tail_) <=> PushesSeen = Len(received)

\* So size is never too small for the producer nor too large for the consumer.
AnswersSafe ==
  /\ Size(head_, TailSeen.index) \in Len(sent) - Len(received) .. Capacity
  /\ Size(HeadSeen.index, tail_) \in 0 .. Len(sent) - Len(received)

\* Push and pop fail only if that is what has been seen.
RefusesRightly == /\ PushFull => Len(sent) - PopsSeen = Capacity
                  /\ PopEmpty => PushesSeen = Len(received)

\* Not both threads are refused, unless one has yet to see what the other did.
NeverStuck ==
  Capacity > 0 /\ IsFull(head_, TailSeen.index) /\ IsEmpty(HeadSeen.index, tail_)
    => headView < Len(headStores) \/ tailView < Len(tailStores)

\* is_empty() and is_full() of the indices of items i and j.
LEMMA EmptyFullDistance ==
  ASSUME NEW i \in Nat \ {0}, NEW j \in Nat \ {0}, i <= j, j - i <= Capacity
  PROVE  /\ IsEmpty(SlotOf(j), SlotOf(i)) <=> j = i
         /\ IsFull(SlotOf(j), SlotOf(i)) <=> j - i = Capacity
  <1>1. IsEmpty(SlotOf(j), SlotOf(i)) <=> j = i
    BY SlotInjective DEF IsEmpty
  <1>2. IsFull(SlotOf(j), SlotOf(i)) <=> SlotOf(j + 1) = SlotOf(i)
    BY SlotNext DEF IsFull, NextSlot
  <1>3. ASSUME j - i = Capacity PROVE SlotOf(j + 1) = SlotOf(i)
    <2>1. j + 1 = i + (Capacity + 1)
      BY <1>3, CapacityType
    <2>2. QED
      BY <2>1, SlotPeriod
  <1>4. ASSUME j - i # Capacity PROVE SlotOf(j + 1) # SlotOf(i)
    <2>1. /\ j + 1 \in Nat \ {0} /\ i <= j + 1 /\ (j + 1) - i <= Capacity
          /\ i # j + 1
      BY <1>4, CapacityType
    <2>2. QED
      BY <2>1, SlotInjective
  <1>5. QED
    BY <1>1, <1>2, <1>3, <1>4

LEMMA InvAnswers == Inv => AnswersExact /\ AnswersSafe
  <1> SUFFICES ASSUME Inv PROVE AnswersExact /\ AnswersSafe
    OBVIOUS
  <1>1. /\ Len(sent) \in Nat /\ Len(received) \in Nat
        /\ room \in Nat /\ stock \in Nat
        /\ headView \in 1 .. Len(sent) + 1 /\ tailView \in 1 .. Len(received) + 1
        /\ head_ = SlotOf(Len(sent) + 1) /\ tail_ = SlotOf(Len(received) + 1)
        /\ HeadSeen.index = SlotOf(headView) /\ TailSeen.index = SlotOf(tailView)
        /\ Len(received) <= Len(sent) /\ Len(sent) <= Len(received) + Capacity
        /\ Len(sent) + room <= tailView - 1 + Capacity
        /\ Len(received) + stock <= headView - 1
    BY Indices, Distance DEF Inv, Window
  <1>2. /\ tailView \in Nat \ {0} /\ Len(sent) + 1 \in Nat \ {0}
        /\ tailView <= Len(sent) + 1 /\ (Len(sent) + 1) - tailView <= Capacity
    BY <1>1, CapacityType
  <1>3. /\ Len(received) + 1 \in Nat \ {0} /\ headView \in Nat \ {0}
        /\ Len(received) + 1 <= headView
        /\ headView - (Len(received) + 1) <= Capacity
    BY <1>1, CapacityType
  <1>4. /\ Size(head_, TailSeen.index) = (Len(sent) + 1) - tailView
        /\ Size(HeadSeen.index, tail_) = headView - (Len(received) + 1)
    BY <1>1, <1>2, <1>3, SizeDistance
  <1>5. /\ Size(head_, TailSeen.index) = Len(sent) - PopsSeen
        /\ Size(HeadSeen.index, tail_) = PushesSeen - Len(received)
    BY <1>1, <1>4 DEF PopsSeen, PushesSeen
  <1>6. /\ IsEmpty(head_, TailSeen.index) <=> Len(sent) + 1 = tailView
        /\ IsFull(head_, TailSeen.index) <=> (Len(sent) + 1) - tailView = Capacity
    BY <1>1, <1>2, EmptyFullDistance
  <1>7. /\ IsEmpty(HeadSeen.index, tail_) <=> headView = Len(received) + 1
        /\ IsFull(HeadSeen.index, tail_) <=> headView - (Len(received) + 1) = Capacity
    <2>1. /\ IsEmpty(SlotOf(headView), SlotOf(Len(received) + 1))
               <=> headView = Len(received) + 1
          /\ IsFull(SlotOf(headView), SlotOf(Len(received) + 1))
               <=> headView - (Len(received) + 1) = Capacity
      BY <1>3, EmptyFullDistance
    <2>2. QED
      BY <1>1, <2>1
  <1>8. /\ Len(sent) + 1 = tailView <=> Len(sent) = PopsSeen
        /\ (Len(sent) + 1) - tailView = Len(sent) - PopsSeen
        /\ headView = Len(received) + 1 <=> PushesSeen = Len(received)
        /\ headView - (Len(received) + 1) = PushesSeen - Len(received)
    BY <1>1 DEF PopsSeen, PushesSeen
  <1>9. AnswersExact
    BY <1>5, <1>6, <1>7, <1>8 DEF AnswersExact
  <1>10. /\ Len(sent) - PopsSeen \in Len(sent) - Len(received) .. Capacity
         /\ PushesSeen - Len(received) \in 0 .. Len(sent) - Len(received)
    BY <1>1, CapacityType DEF PopsSeen, PushesSeen
  <1>11. AnswersSafe
    BY <1>5, <1>10 DEF AnswersSafe
  <1>12. QED
    BY <1>9, <1>11

(* size, is_full and is_empty count the items between the indices they     *)
(* load, through any number of laps of the buffer: the producer is told no *)
(* less and the consumer no more than what is inside.                      *)
THEOREM SizesRight == Spec => [](AnswersExact /\ AnswersSafe)
  <1>1. QED
    BY InvAnswers, Invariance, PTL

(* push returns false only when Capacity items are inside that it has not  *)
(* seen popped, and pop only when it has taken all it has seen pushed.     *)
THEOREM RefusalsRight == Spec => [][RefusesRightly]_vars
  <1>1. Inv => RefusesRightly
    <2> SUFFICES ASSUME Inv PROVE RefusesRightly
      OBVIOUS
    <2>1. PushFull => IsFull(head_, TailSeen.index)
      BY DEF PushFull, IsFull, NextSlot
    <2>2. PopEmpty => IsEmpty(HeadSeen.index, tail_)
      BY DEF PopEmpty, IsEmpty
    <2>3. QED
      BY <2>1, <2>2, InvAnswers DEF AnswersExact, RefusesRightly
  <1>2. QED
    BY <1>1, Invariance, PTL

(* The two threads never wait for each other: when the producer sees the   *)
(* buffer full and the consumer sees it empty, a store of one of them has  *)
(* not yet become visible to the other.                                    *)
THEOREM NotBothRefused == Spec => []NeverStuck
  <1>1. Inv => NeverStuck
    <2> SUFFICES ASSUME Inv, Capacity > 0, IsFull(head_, TailSeen.index),
                        IsEmpty(HeadSeen.index, tail_),
                        ~(headView < Len(headStores)), ~(tailView < Len(tailStores))
                 PROVE  FALSE
      BY DEF NeverStuck
    <2>1. /\ Len(headStores) = Len(sent) + 1 /\ Len(tailStores) = Len(received) + 1
          /\ Len(sent) \in Nat /\ Len(received) \in Nat
          /\ headView \in 1 .. Len(sent) + 1 /\ tailView \in 1 .. Len(received) + 1
      BY Indices DEF Inv, StoresCount
    <2>2. PushesSeen = Len(sent) /\ PopsSeen = Len(received)
      BY <2>1 DEF PushesSeen, PopsSeen
    <2>3. Len(sent) - PopsSeen = Capacity /\ PushesSeen = Len(received)
      BY InvAnswers DEF AnswersExact
    <2>4. QED
      BY <2>1, <2>2, <2>3, CapacityType
  <1>2. QED
    BY <1>1, Invariance, PTL
=============================================================================
