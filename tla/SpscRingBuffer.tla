--------------------------- MODULE SpscRingBuffer ---------------------------
(***************************************************************************)
(* null/spsc_ring_buffer.h: a lock-free queue for one producer thread and  *)
(* one consumer thread.  The buffer has Capacity + 1 slots; head_ is the   *)
(* next slot to fill and tail_ the next slot to empty, and the queue is    *)
(* full when advancing head_ would make it equal to tail_.                 *)
(*                                                                         *)
(* Memory model.  head_ and tail_ are std::atomic and each is stored to by *)
(* one thread only, so the model keeps the modification order of each: the *)
(* sequence of its stores.  A thread reads its own index exactly, but the  *)
(* index of the other thread through a view, the position in the           *)
(* modification order up to which stores have become visible to it; views  *)
(* only move forward (read-read coherence) and may lag behind.  A release  *)
(* store carries the number of slot accesses that precede it in its        *)
(* thread, and an acquire load that reads it learns that number: these are *)
(* the accesses that happen before whatever the loading thread does next.  *)
(***************************************************************************)
EXTENDS Naturals, Sequences

CONSTANTS Item,       \* the values of type T that are pushed
          NoItem,     \* content of a slot that holds no proper item
          Capacity,   \* the template parameter
          MaxSent,    \* bound: successful pushes
          MaxThrows   \* bound: assignments of T that throw

ASSUME SpscAssumption == /\ Capacity \in Nat
                         /\ MaxSent \in Nat
                         /\ MaxThrows \in Nat
                         /\ NoItem \notin Item

VARIABLES headStores,  \* modification order of head_
          tailStores,  \* modification order of tail_
          buffer,      \* the slots
          headView,    \* position in headStores visible to the consumer
          tailView,    \* position in tailStores visible to the producer
          ppc, pitem,  \* where the producer is in push, and its item
          cpc, celem,  \* where the consumer is in pop, and its elem
          popsKnown,   \* slot reads that happen before the producer's next step
          pushesKnown, \* slot writes that happen before the consumer's next step
          lastWrite,   \* number of the push that last wrote each slot
          lastRead,    \* number of the pop that last read each slot
          room,        \* free slots size() etc. promised to the producer
          stock,       \* items size() etc. promised to the consumer
          sent,        \* items whose push returned true, in order
          received,    \* items whose pop returned true, in order
          throws       \* assignments that have thrown

memory   == <<headStores, tailStores, headView, tailView>>
producer == <<ppc, pitem, popsKnown, room, sent>>
consumer == <<cpc, celem, pushesKnown, stock, received>>
slots    == <<buffer, lastWrite, lastRead>>
vars     == <<memory, producer, consumer, slots, throws>>

Slots == 0 .. Capacity

\* The index that follows i; both push and pop compute it.
NextSlotUnwrapped(i) == i + 1               \* bug: the modulo is forgotten
NextSlot(i) == (i + 1) % (Capacity + 1)

\* The number of accesses that a store publishes with memory_order_release.
RelaxedStore(accesses) == 0                 \* bug: memory_order_relaxed
ReleaseStore(accesses) == accesses

head_ == headStores[Len(headStores)].index         \* the producer's head_
tail_ == tailStores[Len(tailStores)].index         \* the consumer's tail_
HeadSeen == headStores[headView]                  \* what the consumer loads
TailSeenCached == tailStores[1]                   \* bug: loaded once and kept
TailSeen == tailStores[tailView]                  \* what the producer loads

\* size(), is_full() and is_empty() as functions of the two loaded indices.
SizeShort(h, t) == IF h >= t THEN h - t ELSE Capacity - (t - h)  \* bug: no + 1
Size(h, t)    == IF h >= t THEN h - t ELSE (Capacity + 1) - (t - h)
IsFull(h, t)  == (h + 1) % (Capacity + 1) = t
IsEmpty(h, t) == h = t

-----------------------------------------------------------------------------
Init == /\ headStores = <<[index |-> 0, accesses |-> 0]>>
        /\ tailStores = <<[index |-> 0, accesses |-> 0]>>
        /\ buffer = [s \in Slots |-> NoItem]
        /\ headView = 1
        /\ tailView = 1
        /\ ppc = "idle" /\ pitem = NoItem
        /\ cpc = "idle" /\ celem = NoItem
        /\ popsKnown = 0
        /\ pushesKnown = 0
        /\ lastWrite = [s \in Slots |-> 0]
        /\ lastRead = [s \in Slots |-> 0]
        /\ room = 0
        /\ stock = 0
        /\ sent = <<>>
        /\ received = <<>>
        /\ throws = 0

(***************************************************************************)
(* push                                                                    *)
(***************************************************************************)

\* The acquire load of tail_ shows a full buffer: push returns false.
PushFull == /\ ppc = "idle"
            /\ NextSlot(head_) = TailSeen.index
            /\ popsKnown' = TailSeen.accesses
            /\ UNCHANGED <<memory, ppc, pitem, room, sent, consumer, slots,
                           throws>>

\* bug: the full check is dropped
PushAcceptUnchecked(x) == /\ ppc = "idle"
                          /\ Len(sent) < MaxSent
                          /\ popsKnown' = TailSeen.accesses
                          /\ ppc' = "write"
                          /\ pitem' = x
                          /\ UNCHANGED <<memory, room, sent, consumer, slots,
                                         throws>>

\* The acquire load of tail_ shows a free slot.
PushAccept(x) == /\ ppc = "idle"
                 /\ Len(sent) < MaxSent
                 /\ NextSlot(head_) # TailSeen.index
                 /\ popsKnown' = TailSeen.accesses
                 /\ ppc' = "write"
                 /\ pitem' = x
                 /\ UNCHANGED <<memory, room, sent, consumer, slots, throws>>

\* buffer_[curr_head] = std::forward<U> (item)
PushWrite == /\ ppc = "write"
             /\ buffer' = [buffer EXCEPT ![head_] = pitem]
             /\ lastWrite' = [lastWrite EXCEPT ![head_] = Len(sent) + 1]
             /\ ppc' = "store"
             /\ UNCHANGED <<memory, pitem, popsKnown, room, sent, consumer,
                            lastRead, throws>>

\* That assignment throws: the exception leaves push, and the slot is left
\* with whatever the assignment made of it.
PushThrow == /\ ppc = "write"
             /\ throws < MaxThrows
             /\ throws' = throws + 1
             /\ buffer' = [buffer EXCEPT ![head_] = NoItem]
             /\ lastWrite' = [lastWrite EXCEPT ![head_] = Len(sent) + 1]
             /\ ppc' = "idle"
             /\ pitem' = NoItem
             /\ UNCHANGED <<memory, popsKnown, room, sent, consumer, lastRead>>

\* The release store of head_; push returns true.
PushStore == /\ ppc = "store"
             /\ headStores' = Append(headStores,
                                [index |-> NextSlot(head_),
                                 accesses |-> ReleaseStore(Len(sent) + 1)])
             /\ sent' = Append(sent, pitem)
             /\ room' = IF room = 0 THEN 0 ELSE room - 1
             /\ ppc' = "idle"
             /\ pitem' = NoItem
             /\ UNCHANGED <<tailStores, headView, tailView, popsKnown,
                            consumer, slots, throws>>

(***************************************************************************)
(* pop                                                                     *)
(***************************************************************************)

\* The acquire load of head_ shows an empty buffer: pop returns false.
PopEmpty == /\ cpc = "idle"
            /\ tail_ = HeadSeen.index
            /\ pushesKnown' = HeadSeen.accesses
            /\ UNCHANGED <<memory, cpc, celem, stock, received, producer,
                           slots, throws>>

\* The acquire load of head_ shows an item.
PopAccept == /\ cpc = "idle"
             /\ tail_ # HeadSeen.index
             /\ pushesKnown' = HeadSeen.accesses
             /\ cpc' = "read"
             /\ UNCHANGED <<memory, celem, stock, received, producer, slots,
                            throws>>

\* elem = buffer_[curr_tail]
PopRead == /\ cpc = "read"
           /\ celem' = buffer[tail_]
           /\ lastRead' = [lastRead EXCEPT ![tail_] = Len(received) + 1]
           /\ cpc' = "store"
           /\ UNCHANGED <<memory, pushesKnown, stock, received, producer,
                          buffer, lastWrite, throws>>

\* That assignment throws: the exception leaves pop, tail_ stays.
PopThrow == /\ cpc = "read"
            /\ throws < MaxThrows
            /\ throws' = throws + 1
            /\ lastRead' = [lastRead EXCEPT ![tail_] = Len(received) + 1]
            /\ cpc' = "idle"
            /\ UNCHANGED <<memory, celem, pushesKnown, stock, received,
                           producer, buffer, lastWrite>>

\* The release store of tail_; pop returns true.
PopStore == /\ cpc = "store"
            /\ tailStores' = Append(tailStores,
                               [index |-> NextSlot(tail_),
                                accesses |-> ReleaseStore(Len(received) + 1)])
            /\ received' = Append(received, celem)
            /\ stock' = IF stock = 0 THEN 0 ELSE stock - 1
            /\ cpc' = "idle"
            /\ celem' = NoItem
            /\ UNCHANGED <<headStores, headView, tailView, pushesKnown,
                           producer, slots, throws>>

(***************************************************************************)
(* size, is_full and is_empty, called by the producer or by the consumer.  *)
(* They load with memory_order_relaxed, which synchronises with nothing.   *)
(* Their caller may rely on the answer: room and stock record for how many *)
(* pushes (pops) of its own the caller has been told that there is room    *)
(* (stock).                                                                *)
(***************************************************************************)
Larger(a, b) == IF a > b THEN a ELSE b

ProducerAsks == /\ ppc = "idle"
                /\ \/ room' = Capacity - Size(head_, TailSeen.index)
                   \/ /\ ~IsFull(head_, TailSeen.index)
                      /\ room' = Larger(room, 1)
                   \/ /\ IsEmpty(head_, TailSeen.index)
                      /\ room' = Capacity
                /\ UNCHANGED <<memory, ppc, pitem, popsKnown, sent, consumer,
                               slots, throws>>

ConsumerAsks == /\ cpc = "idle"
                /\ \/ stock' = Size(HeadSeen.index, tail_)
                   \/ /\ ~IsEmpty(HeadSeen.index, tail_)
                      /\ stock' = Larger(stock, 1)
                   \/ /\ IsFull(HeadSeen.index, tail_)
                      /\ stock' = Capacity
                /\ UNCHANGED <<memory, cpc, celem, pushesKnown, received,
                               producer, slots, throws>>

(***************************************************************************)
(* The memory system: a store becomes visible to the other thread.         *)
(***************************************************************************)
HeadBecomesVisible == /\ headView < Len(headStores)
                      /\ headView' = headView + 1
                      /\ UNCHANGED <<headStores, tailStores, tailView,
                                     producer, consumer, slots, throws>>

TailBecomesVisible == /\ tailView < Len(tailStores)
                      /\ tailView' = tailView + 1
                      /\ UNCHANGED <<headStores, tailStores, headView,
                                     producer, consumer, slots, throws>>

-----------------------------------------------------------------------------
Push == \/ PushFull \/ (\E x \in Item : PushAccept(x))
        \/ PushWrite \/ PushThrow \/ PushStore

Pop == PopEmpty \/ PopAccept \/ PopRead \/ PopThrow \/ PopStore

Next == \/ Push \/ ProducerAsks
        \/ Pop \/ ConsumerAsks
        \/ HeadBecomesVisible \/ TailBecomesVisible

Spec == Init /\ [][Next]_vars

(***************************************************************************)
(* Both threads retry in a loop, as callers of a non-blocking queue do,    *)
(* and a store becomes visible to the other thread in finite time.         *)
(***************************************************************************)
Fairness == /\ WF_vars(HeadBecomesVisible)
            /\ WF_vars(TailBecomesVisible)
            /\ WF_vars((\E x \in Item : PushAccept(x)) \/ PushWrite \/ PushStore)
            /\ WF_vars(PopAccept \/ PopRead \/ PopStore)

FairSpec == Spec /\ Fairness

-----------------------------------------------------------------------------
Store == [index : Slots, accesses : Nat]

(* The variables have their types. *)
TypeOK == /\ headStores \in Seq(Store) /\ headView \in 1 .. Len(headStores)
          /\ tailStores \in Seq(Store) /\ tailView \in 1 .. Len(tailStores)
          /\ buffer \in [Slots -> Item \cup {NoItem}]
          /\ ppc \in {"idle", "write", "store"}
          /\ cpc \in {"idle", "read", "store"}
          /\ pitem \in Item \cup {NoItem}
          /\ celem \in Item \cup {NoItem}
          /\ popsKnown \in Nat
          /\ pushesKnown \in Nat
          /\ lastWrite \in [Slots -> Nat]
          /\ lastRead \in [Slots -> Nat]
          /\ room \in Slots
          /\ stock \in Slots
          /\ sent \in Seq(Item)
          /\ received \in Seq(Item)
          /\ throws \in Nat

(* Access to the slots is free of data races although nothing locks them:  *)
(* the two threads are never at the same slot at the same time, and the    *)
(* access a thread is about to make happens after the last access of the   *)
(* other thread to that slot, by a release store and an acquire load.      *)
NoDataRace ==
  /\ ~(ppc = "write" /\ cpc = "read" /\ head_ = tail_)
  /\ ppc = "write" => lastRead[head_] <= popsKnown
  /\ cpc = "read"  => lastWrite[tail_] <= pushesKnown

(* What size(), is_full() and is_empty() told a thread about the other     *)
(* side stays true for that thread: while its promised room (stock) lasts, *)
(* its own push (pop) does not return false.                               *)
HintsHold ==
  /\ room > 0 /\ ppc = "idle" => NextSlot(head_) # TailSeen.index
  /\ stock > 0 /\ cpc = "idle" => tail_ # HeadSeen.index

(* Items come out in the order they went in, none lost, duplicated or torn *)
(* by an assignment that threw, and never more than Capacity are inside:   *)
(* the ring buffer implements ClosableFifo.                                *)
Fifo == INSTANCE ClosableFifo WITH closed <- FALSE
FifoSpec == Fifo!Spec

(* With both sides retrying, everything the producer has to send arrives:  *)
(* neither a stale view nor a wrap of the indices can stop the queue.      *)
AllArrive == <>(Len(received) = MaxSent)
-----------------------------------------------------------------------------
(***************************************************************************)
(* The inductive invariant behind these properties.  With N = Capacity + 1 *)
(* slots, item number i lives in slot (i - 1) % N, and what is outstanding *)
(* always lies in a window of Capacity consecutive numbers, measured from  *)
(* what each thread SEES of the other, not from where the other really is. *)
(***************************************************************************)
SlotOf(i) == (i - 1) % (Capacity + 1)

\* Both modification orders count through the slots.
StoresCount ==
  /\ Len(headStores) = Len(sent) + 1
  /\ Len(tailStores) = Len(received) + 1
  /\ \A i \in 1 .. Len(sent) + 1 :
        headStores[i] = [index |-> SlotOf(i), accesses |-> i - 1]
  /\ \A i \in 1 .. Len(received) + 1 :
        tailStores[i] = [index |-> SlotOf(i), accesses |-> i - 1]

\* Neither thread overtakes what it has seen of the other.
Window ==
  /\ Len(sent) + room <= tailView - 1 + Capacity
  /\ Len(received) + stock <= headView - 1
  /\ ppc # "idle" => Len(sent) < tailView - 1 + Capacity
  /\ cpc # "idle" => Len(received) < headView - 1

\* The slots from tail_ to head_ hold the items not yet taken, in order.
Contents ==
  /\ \A i \in Len(received) + 1 .. Len(sent) : buffer[SlotOf(i)] = sent[i]
  /\ ppc # "idle" => pitem \in Item
  /\ ppc = "store" => buffer[SlotOf(Len(sent) + 1)] = pitem
  /\ cpc = "store" => celem = sent[Len(received) + 1]

\* The last accesses of a slot, and what each thread knows of the other's.
Accesses ==
  /\ \A s \in Slots :
        /\ lastWrite[s] # 0 => /\ lastWrite[s] <= Len(sent) + 1
                               /\ SlotOf(lastWrite[s]) = s
        /\ lastRead[s] # 0  => /\ lastRead[s] <= Len(sent)
                               /\ SlotOf(lastRead[s]) = s
  /\ ppc = "write" => Len(sent) < popsKnown + Capacity
  /\ cpc = "read" => Len(received) < pushesKnown

(* The inductive invariant.                                                *)
Inv == TypeOK /\ StoresCount /\ Window /\ Contents /\ Accesses
=============================================================================
