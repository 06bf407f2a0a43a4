------------------------ MODULE BlockingQueueProofs ------------------------
(***************************************************************************)
(* Theorems about BlockingQueue, for every finite set of threads, every    *)
(* capacity and every number of exceptions.                                *)
(***************************************************************************)
EXTENDS BlockingQueue, FiniteSetTheorems, TLAPS

(***************************************************************************)
(* How the sets of threads at a place change, and their sizes.             *)
(***************************************************************************)
LEMMA AtFinite ==
  \A p : IsFiniteSet(At(p)) /\ Cardinality(At(p)) \in Nat
  <1> TAKE p
  <1>1. At(p) \subseteq Thread
    BY DEF At
  <1>2. IsFiniteSet(At(p))
    BY <1>1, QueueAssumption, FS_Subset
  <1>3. QED
    BY <1>2, FS_CardinalityType

LEMMA GoesAt ==
  ASSUME pc \in [Thread -> Place], NEW t \in Thread,
         NEW p \in Place, NEW q \in Place, p # q, Goes(t, p, q)
  PROVE  /\ pc' \in [Thread -> Place]
         /\ t \in At(p)
         /\ At(p)' = At(p) \ {t}
         /\ At(q)' = At(q) \cup {t}
         /\ Cardinality(At(p)') = Cardinality(At(p)) - 1
         /\ Cardinality(At(q)') = Cardinality(At(q)) + 1
         /\ \A r \in Place \ {p, q} : At(r)' = At(r)
  <1>1. /\ pc' \in [Thread -> Place]
        /\ t \in At(p) /\ t \notin At(q)
        /\ At(p)' = At(p) \ {t}
        /\ At(q)' = At(q) \cup {t}
        /\ \A r \in Place \ {p, q} : At(r)' = At(r)
    BY DEF Goes, At
  <1>2. Cardinality(At(p) \ {t}) = Cardinality(At(p)) - 1
    BY <1>1, AtFinite, FS_RemoveElement
  <1>3. Cardinality(At(q) \cup {t}) = Cardinality(At(q)) + 1
    BY <1>1, AtFinite, FS_AddElement
  <1>4. QED
    BY <1>1, <1>2, <1>3

\* One thread less at p; and one more at back, unless nobody waits at cv.
LEMMA NotifiesAt ==
  ASSUME pc \in [Thread -> Place], NEW t \in Thread,
         NEW p \in Place, NEW cv \in Place, NEW back \in Place,
         p # cv, p # back, p # "idle", cv # back, cv # "idle", back # "idle",
         ReturnsAndNotifies(t, p, cv, back)
  PROVE  /\ pc' \in [Thread -> Place]
         /\ At(p)' = At(p) \ {t}
         /\ Cardinality(At(p)') = Cardinality(At(p)) - 1
         /\ \/ At(cv)' = {} /\ At(back)' = At(back)
            \/ /\ At(cv) # {} /\ At(cv)' \subseteq At(cv)
               /\ Cardinality(At(back)') = Cardinality(At(back)) + 1
         /\ At(back) \subseteq At(back)'
         /\ At(back)' \subseteq At(back) \cup At(cv)
         /\ \A r \in Place \ {p, cv, back, "idle"} : At(r)' = At(r)
  <1>1. t \in At(p)
    BY DEF ReturnsAndNotifies, At
  <1>2. Cardinality(At(p) \ {t}) = Cardinality(At(p)) - 1
    BY <1>1, AtFinite, FS_RemoveElement
  <1>3. CASE At(cv) = {} /\ pc' = [pc EXCEPT ![t] = "idle"]
    <2>1. /\ pc' \in [Thread -> Place]
          /\ At(p)' = At(p) \ {t}
          /\ \A r \in Place \ {p, "idle"} : At(r)' = At(r)
      BY <1>1, <1>3 DEF At, Place
    <2>2. QED
      BY <1>2, <1>3, <2>1
  <1>4. ASSUME NEW w \in At(cv), pc' = [pc EXCEPT ![t] = "idle", ![w] = back]
        PROVE  /\ pc' \in [Thread -> Place]
               /\ At(p)' = At(p) \ {t}
               /\ At(cv)' = At(cv) \ {w}
               /\ w \notin At(back)
               /\ At(back)' = At(back) \cup {w}
               /\ \A r \in Place \ {p, cv, back, "idle"} : At(r)' = At(r)
    <2>1. w # t /\ w \in Thread /\ pc[w] = cv
      BY <1>1 DEF At
    <2>2. /\ pc'[t] = "idle" /\ pc'[w] = back
          /\ \A u \in Thread \ {t, w} : pc'[u] = pc[u]
      BY <1>4, <2>1
    <2>3. QED
      BY <1>1, <1>4, <2>1, <2>2 DEF At, Place
  <1>5. ASSUME NEW w \in At(cv), w \notin At(back)
        PROVE  Cardinality(At(back) \cup {w}) = Cardinality(At(back)) + 1
    BY <1>5, AtFinite, FS_AddElement
  <1>6. QED
    BY <1>2, <1>3, <1>4, <1>5 DEF ReturnsAndNotifies

-----------------------------------------------------------------------------
(***************************************************************************)
(* The invariant is inductive: one lemma for Init and one per group of     *)
(* actions.                                                                *)
(***************************************************************************)
LEMMA InitInv == Init => Inv
  <1> SUFFICES ASSUME Init PROVE Inv
    OBVIOUS
  <1>1. TypeOK
    <2>1. <<>> \in Seq(Item)
      OBVIOUS
    <2>2. \A t \in Thread : pc[t] = "idle"
      BY DEF Init
    <2>3. QED
      BY <2>1, <2>2 DEF Init, TypeOK, Place
  <1>4. Contents /\ Closers /\ CloserAhead
    BY QueueAssumption DEF Init, Contents, Closers, CloserAhead
  <1>2. At("notEmpty") = {} /\ At("notFull") = {}
    BY DEF Init, At
  <1>3. NoLostWakeup
    BY <1>2 DEF NoLostWakeup
  <1>5. QED
    BY <1>1, <1>3, <1>4 DEF Inv

\* The sizes of the sets of threads that NoLostWakeup counts.
LEMMA Counts ==
  ASSUME Inv
  PROVE  /\ pc \in [Thread -> Place]
         /\ Len(queue) \in Nat /\ Capacity \in Nat /\ Len(queue) <= Capacity
         /\ pushThrows \in Nat /\ popThrows \in Nat
         /\ \A p \in Place : Cardinality(At(p)) \in Nat
  BY AtFinite, QueueAssumption DEF Inv, TypeOK, Contents

\* A call begins: one more thread is awake.
LEMMA CallInv ==
  ASSUME Inv, NEW t \in Thread, Calls(t)
  PROVE  Inv'
  <1>1. CASE \E tm \in BOOLEAN : \E x \in Item : PushCall(t, x, tm)
    <2> PICK tm \in BOOLEAN, x \in Item : PushCall(t, x, tm)
      BY <1>1
    <2>1. /\ pc' \in [Thread -> Place]
          /\ Cardinality(At("push")') = Cardinality(At("push")) + 1
          /\ \A r \in Place \ {"idle", "push"} : At(r)' = At(r)
      BY Counts, GoesAt DEF PushCall, Place
    <2>2. /\ pc' = [pc EXCEPT ![t] = "push"]
          /\ UNCHANGED <<queue, closed, sent, received, pushThrows, popThrows>>
      BY DEF PushCall, Goes, history, throws
    <2>3. TypeOK'
      BY <2>1, <2>2 DEF Inv, TypeOK, PushCall
    <2>4. Contents' /\ Closers'
      BY <2>2 DEF Inv, TypeOK, Contents, Closers
    <2>5. NoLostWakeup'
      BY <2>1, <2>2, Counts DEF Inv, NoLostWakeup, Place
    <2>6. CloserAhead'
      BY <2>1, <2>2 DEF Inv, CloserAhead, Place
    <2>7. QED
      BY <2>3, <2>4, <2>5, <2>6 DEF Inv
  <1>2. CASE \E tm \in BOOLEAN : PopCall(t, tm)
    <2> PICK tm \in BOOLEAN : PopCall(t, tm)
      BY <1>2
    <2>1. /\ pc' \in [Thread -> Place]
          /\ Cardinality(At("pop")') = Cardinality(At("pop")) + 1
          /\ \A r \in Place \ {"idle", "pop"} : At(r)' = At(r)
      BY Counts, GoesAt DEF PopCall, Place
    <2>2. /\ pc' = [pc EXCEPT ![t] = "pop"]
          /\ UNCHANGED <<queue, closed, sent, received, pushThrows, popThrows>>
      BY DEF PopCall, Goes, history, throws
    <2>3. TypeOK'
      BY <2>1, <2>2 DEF Inv, TypeOK, PopCall
    <2>4. Contents' /\ Closers'
      BY <2>2 DEF Inv, TypeOK, Contents, Closers
    <2>5. NoLostWakeup'
      BY <2>1, <2>2, Counts DEF Inv, NoLostWakeup, Place
    <2>6. CloserAhead'
      BY <2>1, <2>2 DEF Inv, CloserAhead, Place
    <2>7. QED
      BY <2>3, <2>4, <2>5, <2>6 DEF Inv
  <1>3. CASE Close(t)
    <2>1. /\ pc' \in [Thread -> Place]
          /\ At("closeNotEmpty")' = At("closeNotEmpty") \cup {t}
          /\ \A r \in Place \ {"idle", "closeNotEmpty"} : At(r)' = At(r)
      BY <1>3, Counts, GoesAt DEF Close, Place
    <2>2. /\ pc' = [pc EXCEPT ![t] = "closeNotEmpty"] /\ closed' = TRUE
          /\ UNCHANGED <<queue, sent, received, item, timed, expired,
                         pushThrows, popThrows>>
      BY <1>3 DEF Close, Goes, history, throws, calls
    <2>3. TypeOK'
      BY <2>1, <2>2 DEF Inv, TypeOK
    <2>4. Contents' /\ Closers'
      BY <2>2 DEF Inv, TypeOK, Contents, Closers
    <2>5. NoLostWakeup'
      BY <2>2 DEF NoLostWakeup
    <2>6. CloserAhead'
      BY <2>1 DEF CloserAhead
    <2>7. QED
      BY <2>3, <2>4, <2>5, <2>6 DEF Inv
  <1>4. QED
    BY <1>1, <1>2, <1>3 DEF Calls

\* A wait begins: the queue is open, and full (empty).
LEMMA WaitInv ==
  ASSUME Inv, NEW t \in Thread, PushWait(t) \/ PopWait(t)
  PROVE  Inv'
  <1>1. /\ ~closed
        /\ UNCHANGED <<queue, closed, sent, received, item, timed, expired,
                       pushThrows, popThrows>>
    BY DEF PushWait, PopWait, CanPush, CanPop, history, throws, calls
  <1>2. Contents'
    BY <1>1 DEF Inv, Contents
  <1>3. CloserAhead'
    BY <1>1 DEF CloserAhead
  <1>4. CASE PushWait(t)
    <2>1. /\ pc' \in [Thread -> Place]
          /\ Cardinality(At("push")') \in Nat
          /\ \A r \in Place \ {"push", "notFull"} : At(r)' = At(r)
      <3>1. /\ pc' \in [Thread -> Place]
            /\ At("push")' = At("push") \ {t}
            /\ \A r \in Place \ {"push", "notFull"} : At(r)' = At(r)
        BY <1>4, Counts, GoesAt DEF PushWait, Place
      <3>2. Cardinality(At("push") \ {t}) \in Nat
        BY AtFinite, FS_Difference, FS_CardinalityType, FS_RemoveElement
      <3>3. QED
        BY <3>1, <3>2
    <2>2. Capacity <= Len(queue) /\ pc' = [pc EXCEPT ![t] = "notFull"] /\ pc[t] = "push"
      BY <1>4, Counts DEF PushWait, CanPush, Goes
    <2>3. TypeOK' /\ Closers'
      BY <1>1, <2>1, <2>2 DEF Inv, TypeOK, Closers
    <2>4. NoLostWakeup'
      BY <1>1, <2>1, <2>2, Counts DEF Inv, NoLostWakeup, Place
    <2>5. QED
      BY <1>2, <1>3, <2>3, <2>4 DEF Inv
  <1>5. CASE PopWait(t)
    <2>1. /\ pc' \in [Thread -> Place]
          /\ Cardinality(At("pop")') \in Nat
          /\ \A r \in Place \ {"pop", "notEmpty"} : At(r)' = At(r)
      <3>1. /\ pc' \in [Thread -> Place]
            /\ At("pop")' = At("pop") \ {t}
            /\ \A r \in Place \ {"pop", "notEmpty"} : At(r)' = At(r)
        BY <1>5, Counts, GoesAt DEF PopWait, Place
      <3>2. Cardinality(At("pop") \ {t}) \in Nat
        BY AtFinite, FS_Difference, FS_CardinalityType, FS_RemoveElement
      <3>3. QED
        BY <3>1, <3>2
    <2>2. Len(queue) = 0 /\ pc' = [pc EXCEPT ![t] = "notEmpty"] /\ pc[t] = "pop"
      BY <1>5 DEF PopWait, CanPop, Goes
    <2>3. TypeOK' /\ Closers'
      BY <1>1, <2>1, <2>2 DEF Inv, TypeOK, Closers
    <2>4. NoLostWakeup'
      BY <1>1, <2>1, <2>2, Counts DEF Inv, NoLostWakeup, Place
    <2>5. QED
      BY <1>2, <1>3, <2>3, <2>4 DEF Inv
  <1>6. QED
    BY <1>4, <1>5

\* A call ends without an item: the thread that leaves claims nothing, because
\* it has just seen a full (empty) queue or pays with an exception.
LEMMA LeaveInv ==
  ASSUME Inv, NEW t \in Thread,
         PushFail(t) \/ PushThrow(t) \/ PopFail(t) \/ PopThrow(t)
  PROVE  Inv'
  <1>1. /\ UNCHANGED <<queue, closed, sent, received>>
        /\ item' = [item EXCEPT ![t] = NoItem]
        /\ timed' = [timed EXCEPT ![t] = FALSE]
        /\ expired' = [expired EXCEPT ![t] = FALSE]
    BY DEF PushFail, PushThrow, PopFail, PopThrow, Forget, history
  <1>2. pc' = [pc EXCEPT ![t] = "idle"]
    BY DEF PushFail, PushThrow, PopFail, PopThrow, Goes
  <1>3. /\ pushThrows' \in Nat /\ popThrows' \in Nat
        /\ pushThrows <= pushThrows' /\ popThrows <= popThrows'
    BY Counts DEF PushFail, PushThrow, PopFail, PopThrow, throws
  <1>4. TypeOK'
    BY <1>1, <1>2, <1>3 DEF Inv, TypeOK, Place
  <1>5. Contents' /\ Closers'
    BY <1>1, <1>2 DEF Inv, TypeOK, Contents, Closers
  <1>6. CASE PushFail(t) \/ PushThrow(t)
    <2>1. /\ Cardinality(At("push")') = Cardinality(At("push")) - 1
          /\ At("pop")' = At("pop")
          /\ At("notFull")' = At("notFull") /\ At("notEmpty")' = At("notEmpty")
          /\ At("closeNotEmpty")' = At("closeNotEmpty")
          /\ At("closeNotFull")' = At("closeNotFull")
      BY <1>6, Counts, GoesAt DEF PushFail, PushThrow, Place
    <2>2. closed \/ Capacity <= Len(queue) \/ pushThrows' = pushThrows + 1
      BY <1>6, Counts DEF PushFail, PushThrow, CanPush
    <2>3. Cardinality(At("push")') \in Nat
      <3>1. Cardinality(At("push") \ {t}) \in Nat
        BY AtFinite, FS_Difference, FS_CardinalityType, FS_RemoveElement
      <3>2. At("push")' = At("push") \ {t}
        BY <1>6, Counts, GoesAt DEF PushFail, PushThrow, Place
      <3>3. QED
        BY <3>1, <3>2
    <2>4. NoLostWakeup'
      <3> SUFFICES ASSUME ~closed PROVE NoLostWakeup'
        BY <1>1 DEF NoLostWakeup
      <3>1. /\ Cardinality(At("push")) \in Nat /\ Cardinality(At("pop")) \in Nat
            /\ Len(queue) \in Nat /\ Capacity \in Nat
            /\ pushThrows \in Nat /\ popThrows \in Nat
        BY Counts DEF Place
      <3>2. At("notFull") # {} =>
              Capacity <= Len(queue') + Cardinality(At("push")') + pushThrows'
        BY <1>1, <1>3, <2>1, <2>2, <2>3, <3>1 DEF Inv, NoLostWakeup
      <3>3. At("notEmpty") # {} =>
              Len(queue') <= Cardinality(At("pop")') + popThrows'
        BY <1>1, <1>3, <2>1, <3>1 DEF Inv, NoLostWakeup
      <3>4. QED
        BY <2>1, <3>2, <3>3 DEF NoLostWakeup
    <2>5. CloserAhead'
      BY <1>1, <2>1 DEF Inv, CloserAhead
    <2>6. QED
      BY <1>4, <1>5, <2>4, <2>5 DEF Inv
  <1>7. CASE PopFail(t) \/ PopThrow(t)
    <2>1. /\ Cardinality(At("pop")') = Cardinality(At("pop")) - 1
          /\ At("push")' = At("push")
          /\ At("notFull")' = At("notFull") /\ At("notEmpty")' = At("notEmpty")
          /\ At("closeNotEmpty")' = At("closeNotEmpty")
          /\ At("closeNotFull")' = At("closeNotFull")
      BY <1>7, Counts, GoesAt DEF PopFail, PopThrow, Place
    <2>2. Len(queue) = 0 \/ popThrows' = popThrows + 1
      BY <1>7 DEF PopFail, PopThrow
    <2>3. Cardinality(At("pop")') \in Nat
      <3>1. Cardinality(At("pop") \ {t}) \in Nat
        BY AtFinite, FS_Difference, FS_CardinalityType, FS_RemoveElement
      <3>2. At("pop")' = At("pop") \ {t}
        BY <1>7, Counts, GoesAt DEF PopFail, PopThrow, Place
      <3>3. QED
        BY <3>1, <3>2
    <2>4. NoLostWakeup'
      <3> SUFFICES ASSUME ~closed PROVE NoLostWakeup'
        BY <1>1 DEF NoLostWakeup
      <3>1. /\ Cardinality(At("push")) \in Nat /\ Cardinality(At("pop")) \in Nat
            /\ Len(queue) \in Nat /\ Capacity \in Nat
            /\ pushThrows \in Nat /\ popThrows \in Nat
        BY Counts DEF Place
      <3>2. At("notFull") # {} =>
              Capacity <= Len(queue') + Cardinality(At("push")') + pushThrows'
        BY <1>1, <1>3, <2>1, <3>1 DEF Inv, NoLostWakeup
      <3>3. At("notEmpty") # {} =>
              Len(queue') <= Cardinality(At("pop")') + popThrows'
        BY <1>1, <1>3, <2>1, <2>2, <2>3, <3>1 DEF Inv, NoLostWakeup
      <3>4. QED
        BY <2>1, <3>2, <3>3 DEF NoLostWakeup
    <2>5. CloserAhead'
      BY <1>1, <2>1 DEF Inv, CloserAhead
    <2>6. QED
      BY <1>4, <1>5, <2>4, <2>5 DEF Inv
  <1>8. QED
    BY <1>6, <1>7

\* push puts an item in and wakes somebody for it.
LEMMA PushDoneInv ==
  ASSUME Inv, NEW t \in Thread, PushDone(t)
  PROVE  Inv'
  <1>1. /\ ~closed /\ ~closed' /\ Len(queue) < Capacity
        /\ UNCHANGED <<closed, received, pushThrows, popThrows>>
        /\ item' = [item EXCEPT ![t] = NoItem]
        /\ timed' = [timed EXCEPT ![t] = FALSE]
        /\ expired' = [expired EXCEPT ![t] = FALSE]
    BY DEF PushDone, PushRoom, Forget, throws
  <1>2. pc[t] = "push" /\ item[t] \in Item
    BY DEF PushDone, ReturnsAndNotifies, Inv, TypeOK
  <1>3. /\ queue' = Append(queue, item[t]) /\ sent' = Append(sent, item[t])
        /\ queue' \in Seq(Item) /\ sent' \in Seq(Item)
        /\ Len(queue') = Len(queue) + 1 /\ Len(sent') = Len(sent) + 1
    BY <1>2 DEF PushDone, Inv, TypeOK
  <1>4. /\ pc' \in [Thread -> Place]
        /\ Cardinality(At("push")') = Cardinality(At("push")) - 1
        /\ \/ At("notEmpty")' = {}
           \/ /\ At("notEmpty") # {}
              /\ Cardinality(At("pop")') = Cardinality(At("pop")) + 1
        /\ At("notFull")' = At("notFull")
    <2>1. /\ ReturnsAndNotifies(t, "push", "notEmpty", "pop")
          /\ pc \in [Thread -> Place]
      BY Counts DEF PushDone
    <2>2. /\ {"push", "notEmpty", "pop"} \subseteq Place \ {"idle"}
          /\ "notFull" \in Place \ {"push", "notEmpty", "pop", "idle"}
      BY DEF Place
    <2>3. QED
      BY <2>1, <2>2, NotifiesAt
  <1>5. TypeOK'
    <2>1. \A u \in Thread : pc'[u] \in {"push", "notFull"} =>
                              u # t /\ pc[u] \in {"push", "notFull"}
      BY Counts DEF PushDone, ReturnsAndNotifies, At
    <2>2. QED
      BY <1>1, <1>3, <1>4, <2>1 DEF Inv, TypeOK
  <1>6. Contents'
    <2>1. Len(sent') = Len(received') + Len(queue') /\ Len(queue') <= Capacity
      BY <1>1, <1>3, Counts DEF Inv, TypeOK, Contents
    <2>2. ASSUME NEW i \in 1 .. Len(queue')
          PROVE  queue'[i] = sent'[Len(received) + i]
      <3>1. CASE i = Len(queue) + 1
        BY <1>3, <3>1 DEF Inv, TypeOK, Contents
      <3>2. CASE i \in 1 .. Len(queue)
        <4>1. Len(received) + i \in 1 .. Len(sent)
          BY <3>2 DEF Inv, TypeOK, Contents
        <4>2. QED
          BY <1>3, <3>2, <4>1 DEF Inv, TypeOK, Contents
      <3>3. i = Len(queue) + 1 \/ i \in 1 .. Len(queue)
        BY <1>3, Counts
      <3>4. QED
        BY <3>1, <3>2, <3>3
    <2>3. QED
      BY <1>1, <2>1, <2>2 DEF Contents
  <1>7. Closers'
    BY <1>1, Counts DEF Inv, Closers, PushDone, ReturnsAndNotifies, At
  <1>8. NoLostWakeup'
    <2> SUFFICES ASSUME ~closed PROVE NoLostWakeup'
      BY <1>1 DEF NoLostWakeup
    <2>1. /\ Cardinality(At("push")) \in Nat /\ Cardinality(At("pop")) \in Nat
          /\ Len(queue) \in Nat /\ Capacity \in Nat
          /\ pushThrows \in Nat /\ popThrows \in Nat
      BY Counts DEF Place
    <2>2. At("notFull")' # {} =>
            Capacity <= Len(queue') + Cardinality(At("push")') + pushThrows'
      BY <1>1, <1>3, <1>4, <2>1 DEF Inv, NoLostWakeup
    <2>3. At("notEmpty")' # {} =>
            Len(queue') <= Cardinality(At("pop")') + popThrows'
      BY <1>1, <1>3, <1>4, <2>1 DEF Inv, NoLostWakeup
    <2>4. QED
      BY <2>2, <2>3 DEF NoLostWakeup
  <1>9. CloserAhead'
    BY <1>1 DEF CloserAhead
  <1>10. QED
    BY <1>5, <1>6, <1>7, <1>8, <1>9 DEF Inv

\* pop takes an item out and wakes somebody for the free place.
LEMMA PopDoneInv ==
  ASSUME Inv, NEW t \in Thread, PopDone(t)
  PROVE  Inv'
  <1>1. /\ UNCHANGED <<closed, sent, pushThrows, popThrows>>
        /\ item' = [item EXCEPT ![t] = NoItem]
        /\ timed' = [timed EXCEPT ![t] = FALSE]
        /\ expired' = [expired EXCEPT ![t] = FALSE]
    BY DEF PopDone, Forget, throws
  <1>2. pc[t] = "pop" /\ queue # <<>> /\ queue \in Seq(Item)
    BY DEF PopDone, ReturnsAndNotifies, Inv, TypeOK
  <1>3. /\ received' = Append(received, Head(queue)) /\ received' \in Seq(Item)
        /\ Len(received') = Len(received) + 1
        /\ queue' = Tail(queue) /\ queue' \in Seq(Item)
        /\ Len(queue') = Len(queue) - 1
        /\ \A i \in 1 .. Len(queue') : queue'[i] = queue[i + 1]
    BY <1>2 DEF PopDone, Inv, TypeOK
  <1>4. /\ pc' \in [Thread -> Place]
        /\ Cardinality(At("pop")') = Cardinality(At("pop")) - 1
        /\ \/ At("notFull")' = {}
           \/ /\ At("notFull") # {}
              /\ Cardinality(At("push")') = Cardinality(At("push")) + 1
        /\ At("notFull")' \subseteq At("notFull")
        /\ \A r \in {"notEmpty", "closeNotEmpty", "closeNotFull"} : At(r)' = At(r)
    <2>1. /\ ReturnsAndNotifies(t, "pop", "notFull", "push")
          /\ pc \in [Thread -> Place]
      BY Counts DEF PopDone
    <2>2. /\ {"pop", "notFull", "push"} \subseteq Place \ {"idle"}
          /\ {"notEmpty", "closeNotEmpty", "closeNotFull"}
               \subseteq Place \ {"pop", "notFull", "push", "idle"}
      BY DEF Place
    <2>3. QED
      BY <2>1, <2>2, NotifiesAt
  <1>5. TypeOK'
    <2>1. \A u \in Thread : pc'[u] \in {"push", "notFull"} =>
                              u # t /\ pc[u] \in {"push", "notFull"}
      BY Counts DEF PopDone, ReturnsAndNotifies, At
    <2>2. \A u \in Thread : pc'[u] \in {"push", "notFull"} => item'[u] \in Item
      BY <1>1, <2>1 DEF Inv, TypeOK
    <2>3. /\ item' \in [Thread -> Item \cup {NoItem}]
          /\ timed' \in [Thread -> BOOLEAN]
          /\ expired' \in [Thread -> BOOLEAN]
      BY <1>1 DEF Inv, TypeOK
    <2>4. closed' \in BOOLEAN /\ sent' \in Seq(Item)
          /\ pushThrows' \in Nat /\ popThrows' \in Nat
      BY <1>1 DEF Inv, TypeOK
    <2>5. QED
      BY <1>3, <1>4, <2>2, <2>3, <2>4 DEF TypeOK
  <1>6. Contents'
    <2>1. Len(queue) \in Nat /\ Len(queue) >= 1 /\ Len(received) \in Nat
      BY <1>2 DEF Inv, TypeOK
    <2>2. Len(sent') = Len(received') + Len(queue') /\ Len(queue') <= Capacity
      <3>1. Len(sent') = Len(received) + Len(queue)
        BY <1>1 DEF Inv, Contents
      <3>2. Capacity \in Nat /\ Len(queue) <= Capacity
        BY Counts
      <3>3. Len(received') = Len(received) + 1 /\ Len(queue') = Len(queue) - 1
        BY <1>3
      <3>4. QED
        BY <2>1, <3>1, <3>2, <3>3
    <2>3. ASSUME NEW i \in 1 .. Len(queue')
          PROVE  queue'[i] = sent'[Len(received') + i]
      <3>1. i + 1 \in 1 .. Len(queue) /\ Len(received) + (i + 1) = Len(received') + i
        BY <1>3, <2>1
      <3>2. queue[i + 1] = sent[Len(received) + (i + 1)]
        BY <3>1 DEF Inv, Contents
      <3>3. QED
        BY <1>1, <1>3, <3>1, <3>2
    <2>4. QED
      BY <2>2, <2>3 DEF Contents
  <1>7. Closers'
    <2>1. /\ At("closeNotEmpty")' = At("closeNotEmpty")
          /\ At("closeNotFull")' = At("closeNotFull")
      BY <1>4
    <2>2. QED
      BY <1>1, <2>1 DEF Inv, Closers, At
  <1>8. NoLostWakeup'
    <2> SUFFICES ASSUME ~closed PROVE NoLostWakeup'
      BY <1>1 DEF NoLostWakeup
    <2>1. /\ Cardinality(At("push")) \in Nat /\ Cardinality(At("pop")) \in Nat
          /\ Len(queue) \in Nat /\ Capacity \in Nat
          /\ pushThrows \in Nat /\ popThrows \in Nat
      BY Counts DEF Place
    <2>2. At("notFull")' # {} =>
            Capacity <= Len(queue') + Cardinality(At("push")') + pushThrows'
      BY <1>1, <1>3, <1>4, <2>1 DEF Inv, NoLostWakeup
    <2>3. At("notEmpty")' # {} =>
            Len(queue') <= Cardinality(At("pop")') + popThrows'
      BY <1>1, <1>3, <1>4, <2>1 DEF Inv, NoLostWakeup
    <2>4. QED
      BY <2>2, <2>3 DEF NoLostWakeup
  <1>9. CloserAhead'
    BY <1>1, <1>4 DEF Inv, CloserAhead
  <1>10. QED
    BY <1>5, <1>6, <1>7, <1>8, <1>9 DEF Inv

\* A closer wakes everybody at one condition variable.
LEMMA NotifyAllInv ==
  ASSUME Inv, NEW t \in Thread, CloseNotEmpty(t) \/ CloseNotFull(t)
  PROVE  Inv'
  <1>1. /\ UNCHANGED <<queue, closed, sent, received, item, timed, expired,
                       pushThrows, popThrows>>
        /\ pc[t] \in {"closeNotEmpty", "closeNotFull"} /\ pc \in [Thread -> Place]
    BY Counts DEF CloseNotEmpty, CloseNotFull, NotifyAll, history, throws, calls
  <1>2. closed /\ closed'
    BY <1>1 DEF Inv, Closers
  <1>3. /\ pc' \in [Thread -> Place]
        /\ \A u \in Thread : pc'[u] \in {"push", "notFull"} =>
                              pc[u] \in {"push", "notFull"}
    BY <1>1 DEF CloseNotEmpty, CloseNotFull, NotifyAll, Place
  <1>4. TypeOK'
    BY <1>1, <1>3 DEF Inv, TypeOK
  <1>5. Contents'
    BY <1>1 DEF Inv, Contents
  <1>6. Closers' /\ NoLostWakeup'
    BY <1>2 DEF Closers, NoLostWakeup
  <1>7. CloserAhead'
    <2>1. CASE CloseNotEmpty(t)
      BY <1>1, <2>1 DEF CloseNotEmpty, NotifyAll, CloserAhead, At
    <2>2. CASE CloseNotFull(t)
      <3>1. /\ pc' = [u \in Thread |-> IF u = t THEN "idle"
                                      ELSE IF pc[u] = "notFull" THEN "push"
                                      ELSE pc[u]]
            /\ pc[t] = "closeNotFull"
        BY <2>2 DEF CloseNotFull, NotifyAll
      <3>2. /\ At("notFull")' = {}
            /\ At("notEmpty")' = At("notEmpty")
            /\ At("closeNotEmpty")' = At("closeNotEmpty")
        BY <3>1 DEF At
      <3>3. QED
        BY <1>2, <3>2 DEF Inv, CloserAhead
    <2>3. QED
      BY <2>1, <2>2
  <1>8. QED
    BY <1>4, <1>5, <1>6, <1>7 DEF Inv

\* A sleeper wakes up on its own: one claimant more, one sleeper less.
LEMMA WakesUpInv ==
  ASSUME Inv, NEW t \in Thread, SpuriousWakeup(t) \/ TimeoutPasses(t)
  PROVE  Inv'
  <1>1. /\ UNCHANGED <<queue, closed, sent, received, item, timed,
                       pushThrows, popThrows>>
        /\ expired' \in [Thread -> BOOLEAN]
        /\ pc \in [Thread -> Place]
    BY Counts DEF SpuriousWakeup, TimeoutPasses, history, throws, calls,
                  Inv, TypeOK
  <1>2. Contents'
    BY <1>1 DEF Inv, Contents
  <1>3. UNCHANGED pc \/ WakesUp(t)
    BY DEF SpuriousWakeup, TimeoutPasses
  <1>4. CASE UNCHANGED pc
    BY <1>1, <1>2, <1>4
       DEF Inv, TypeOK, Closers, NoLostWakeup, CloserAhead, At
  <1>5. CASE Goes(t, "notFull", "push")
    <2>1. pc' = [pc EXCEPT ![t] = "push"] /\ pc[t] = "notFull"
      BY <1>5 DEF Goes
    <2>2. /\ pc' \in [Thread -> Place]
          /\ At("notFull")' \subseteq At("notFull")
          /\ At("notEmpty")' = At("notEmpty") /\ At("pop")' = At("pop")
          /\ At("closeNotEmpty")' = At("closeNotEmpty")
          /\ At("closeNotFull")' = At("closeNotFull")
          /\ Cardinality(At("push")') = Cardinality(At("push")) + 1
      BY <1>1, <1>5, GoesAt DEF Place
    <2>3. TypeOK' /\ Closers'
      BY <1>1, <2>1, <2>2 DEF Inv, TypeOK, Closers
    <2>4. NoLostWakeup'
      <3>1. /\ Cardinality(At("push")) \in Nat /\ Len(queue) \in Nat
            /\ Capacity \in Nat /\ pushThrows \in Nat
        BY Counts DEF Place
      <3>2. QED
        BY <1>1, <2>2, <3>1 DEF Inv, NoLostWakeup
    <2>5. CloserAhead'
      BY <1>1, <2>2 DEF Inv, CloserAhead
    <2>6. QED
      BY <1>2, <2>3, <2>4, <2>5 DEF Inv
  <1>6. CASE Goes(t, "notEmpty", "pop")
    <2>1. pc' = [pc EXCEPT ![t] = "pop"] /\ pc[t] = "notEmpty"
      BY <1>6 DEF Goes
    <2>2. /\ pc' \in [Thread -> Place]
          /\ At("notEmpty")' \subseteq At("notEmpty")
          /\ At("notFull")' = At("notFull") /\ At("push")' = At("push")
          /\ At("closeNotEmpty")' = At("closeNotEmpty")
          /\ At("closeNotFull")' = At("closeNotFull")
          /\ Cardinality(At("pop")') = Cardinality(At("pop")) + 1
      BY <1>1, <1>6, GoesAt DEF Place
    <2>3. TypeOK' /\ Closers'
      BY <1>1, <2>1, <2>2 DEF Inv, TypeOK, Closers
    <2>4. NoLostWakeup'
      <3>1. /\ Cardinality(At("pop")) \in Nat /\ Len(queue) \in Nat
            /\ popThrows \in Nat
        BY Counts DEF Place
      <3>2. QED
        BY <1>1, <2>2, <3>1 DEF Inv, NoLostWakeup
    <2>5. CloserAhead'
      BY <1>1, <2>2 DEF Inv, CloserAhead
    <2>6. QED
      BY <1>2, <2>3, <2>4, <2>5 DEF Inv
  <1>7. QED
    BY <1>3, <1>4, <1>5, <1>6 DEF WakesUp

LEMMA StutterInv == Inv /\ UNCHANGED vars => Inv'
  BY DEF Inv, TypeOK, Contents, Closers, NoLostWakeup, CloserAhead, At,
         vars, calls, history, throws

LEMMA NextInv == Inv /\ [Next]_vars => Inv'
  BY CallInv, WaitInv, LeaveInv, PushDoneInv, PopDoneInv, NotifyAllInv,
     WakesUpInv, StutterInv DEF Next, Runs

(* The inductive invariant holds in every reachable state.                 *)
THEOREM Invariance == Spec => []Inv
  <1>1. QED
    BY InitInv, NextInv, PTL DEF Spec

(* The types of the variables.                                             *)
THEOREM TypeCorrect == Spec => []TypeOK
  <1>1. Inv => TypeOK
    BY DEF Inv
  <1>2. QED
    BY <1>1, Invariance, PTL

(* The single notify_one of push and pop is enough, for any number of      *)
(* threads, in spite of spurious wakeups and of timeouts that race with    *)
(* notifications; an exception costs at most one wakeup.                   *)
THEOREM WakeupsKept == Spec => []NoLostWakeup
  <1>1. Inv => NoLostWakeup
    BY DEF Inv
  <1>2. QED
    BY <1>1, Invariance, PTL

(* Nobody waits on a closed queue unless a closer is still to notify.      *)
THEOREM CloseReachesAll == Spec => []CloserAhead
  <1>1. Inv => CloserAhead
    BY DEF Inv
  <1>2. QED
    BY <1>1, Invariance, PTL

(* The queue is a first-in first-out container of at most Capacity items   *)
(* that accepts nothing after it has been closed.                          *)
THEOREM ImplementsFifo == Spec => FifoSpec
  <1>1. Init => Fifo!Init
    BY DEF Init, Fifo!Init
  <1>2. Inv /\ [Next]_vars => [Fifo!Next]_(Fifo!vars)
    <2> SUFFICES ASSUME Inv, [Next]_vars PROVE [Fifo!Next]_(Fifo!vars)
      OBVIOUS
    <2>1. ASSUME NEW t \in Thread, PushDone(t) PROVE Fifo!Next
      <3>1. item[t] \in Item
        BY <2>1 DEF PushDone, ReturnsAndNotifies, Inv, TypeOK
      <3>2. Len(sent) - Len(received) < Capacity
        BY <2>1 DEF PushDone, PushRoom, Inv, TypeOK, Contents
      <3>3. Fifo!Push(item[t])
        BY <2>1, <3>2 DEF PushDone, PushRoom, Fifo!Push
      <3>4. QED
        BY <3>1, <3>3 DEF Fifo!Next
    <2>2. ASSUME NEW t \in Thread, PopDone(t) PROVE Fifo!Next
      <3>1. queue # <<>> /\ received' = Append(received, Head(queue))
            /\ UNCHANGED <<closed, sent>> /\ queue \in Seq(Item)
        BY <2>2 DEF PopDone, Inv, TypeOK
      <3>2. Len(queue) \in Nat /\ Len(queue) >= 1 /\ Head(queue) = queue[1]
        BY <3>1
      <3>3. Len(received) < Len(sent) /\ queue[1] = sent[Len(received) + 1]
        BY <3>2 DEF Inv, TypeOK, Contents
      <3>4. Fifo!Pop
        BY <3>1, <3>2, <3>3 DEF Fifo!Pop
      <3>5. QED
        BY <3>4 DEF Fifo!Next
    <2>3. ASSUME NEW t \in Thread, Close(t) PROVE Fifo!Next
      BY <2>3 DEF Close, history, Fifo!Close, Fifo!Next
    <2>4. CASE UNCHANGED <<sent, received, closed>>
      BY <2>4 DEF Fifo!vars
    <2>5. \/ \E t \in Thread : PushDone(t) \/ PopDone(t) \/ Close(t)
          \/ UNCHANGED <<sent, received, closed>>
      BY DEF Next, Calls, Runs, PushCall, PushWait, PushFail, PushThrow,
             PopCall, PopWait, PopFail, PopThrow, CloseNotEmpty, CloseNotFull,
             NotifyAll, SpuriousWakeup, TimeoutPasses, vars, history
    <2>6. QED
      BY <2>1, <2>2, <2>3, <2>4, <2>5
  <1>3. QED
    BY <1>1, <1>2, Invariance, PTL DEF Spec, FifoSpec, Fifo!Spec
-----------------------------------------------------------------------------
(***************************************************************************)
(* What is left to do of the call of a thread: its timeout has to pass, it *)
(* has to be woken up, it has to look at the queue and return; a closer    *)
(* has two notifications to give.  The rank of a thread is 0 when it is    *)
(* idle, and at most 3.                                                    *)
(***************************************************************************)
Asleep == {"notFull", "notEmpty"}

Steps(p) == IF p = "idle" THEN 0
            ELSE IF p \in Asleep \cup {"closeNotEmpty"} THEN 2 ELSE 1

ToExpire(u) == IF timed[u] /\ ~expired[u] THEN 1 ELSE 0

Rank(u) == Steps(pc[u]) + ToExpire(u)

\* Only a call in push or pop has a timeout, and once that has passed nobody
\* finds its thread asleep.
Clocks == \A u \in Thread : /\ timed[u] => pc[u] \in {"push", "pop"} \cup Asleep
                            /\ expired[u] => pc[u] \in {"push", "pop"}

Ranked == \A u \in Thread : /\ Rank(u) \in 0 .. 3
                            /\ Rank(u) = 0 <=> pc[u] = "idle"

\* After close nobody falls asleep, no call gets longer, and everything that
\* happens, other than a new call, makes some call shorter.
RunsDown ==
  closed => /\ closed'
            /\ \A u \in Thread : \/ Rank(u)' <= Rank(u)
                                 \/ pc[u] = "idle" /\ Calls(u)
            /\ \E u \in Thread : Rank(u)' < Rank(u) \/ Calls(u)

\* The next thing a call does whose timeout has passed is to return.
GivesUp == \A u \in Thread :
             expired[u] => \/ pc'[u] = pc[u] /\ expired'[u]
                           \/ pc'[u] = "idle" /\ ~expired'[u]

\* A call returns; it may have woken somebody up.
Woken(u) == \/ pc[u] = "notFull" /\ pc'[u] = "push"
            \/ pc[u] = "notEmpty" /\ pc'[u] = "pop"

Returns(t) == /\ pc[t] \in {"push", "pop"} /\ pc'[t] = "idle"
              /\ timed' = [timed EXCEPT ![t] = FALSE]
              /\ expired' = [expired EXCEPT ![t] = FALSE]
              /\ \A u \in Thread \ {t} : pc'[u] = pc[u] \/ Woken(u)

LEMMA NotifiesWakes ==
  ASSUME TypeOK, NEW t \in Thread,
         \/ ReturnsAndNotifies(t, "push", "notEmpty", "pop")
         \/ ReturnsAndNotifies(t, "pop", "notFull", "push")
  PROVE  /\ pc[t] \in {"push", "pop"} /\ pc'[t] = "idle"
         /\ \A u \in Thread \ {t} : pc'[u] = pc[u] \/ Woken(u)
  <1>1. CASE pc' = [pc EXCEPT ![t] = "idle"]
    BY <1>1 DEF ReturnsAndNotifies, TypeOK
  <1>2. CASE /\ pc[t] = "push"
             /\ \E w \in At("notEmpty") :
                  pc' = [pc EXCEPT ![t] = "idle", ![w] = "pop"]
    <2>1. PICK w \in Thread : /\ pc[w] = "notEmpty"
                              /\ pc' = [pc EXCEPT ![t] = "idle", ![w] = "pop"]
      BY <1>2 DEF At
    <2>2. pc'[t] = "idle" /\ pc'[w] = "pop"
      BY <1>2, <2>1 DEF TypeOK
    <2>3. \A u \in Thread \ {t, w} : pc'[u] = pc[u]
      BY <2>1 DEF TypeOK
    <2>4. QED
      BY <1>2, <2>1, <2>2, <2>3 DEF Woken
  <1>3. CASE /\ pc[t] = "pop"
             /\ \E w \in At("notFull") :
                  pc' = [pc EXCEPT ![t] = "idle", ![w] = "push"]
    <2>1. PICK w \in Thread : /\ pc[w] = "notFull"
                              /\ pc' = [pc EXCEPT ![t] = "idle", ![w] = "push"]
      BY <1>3 DEF At
    <2>2. pc'[t] = "idle" /\ pc'[w] = "push"
      BY <1>3, <2>1 DEF TypeOK
    <2>3. \A u \in Thread \ {t, w} : pc'[u] = pc[u]
      BY <2>1 DEF TypeOK
    <2>4. QED
      BY <1>3, <2>1, <2>2, <2>3 DEF Woken
  <1>4. QED
    BY <1>1, <1>2, <1>3 DEF ReturnsAndNotifies

LEMMA CallsReturning ==
  ASSUME TypeOK, NEW t \in Thread,
         \/ PushFail(t) \/ PushDone(t) \/ PushThrow(t)
         \/ PopFail(t) \/ PopDone(t) \/ PopThrow(t)
  PROVE  Returns(t)
  <1>1. /\ timed' = [timed EXCEPT ![t] = FALSE]
        /\ expired' = [expired EXCEPT ![t] = FALSE]
    BY DEF PushFail, PushDone, PushThrow, PopFail, PopDone, PopThrow, Forget
  <1>2. CASE PushDone(t) \/ PopDone(t)
    BY <1>1, <1>2, NotifiesWakes DEF PushDone, PopDone, Returns
  <1>3. CASE PushFail(t) \/ PushThrow(t) \/ PopFail(t) \/ PopThrow(t)
    <2>1. pc[t] \in {"push", "pop"} /\ pc' = [pc EXCEPT ![t] = "idle"]
      BY <1>3 DEF PushFail, PushThrow, PopFail, PopThrow, Goes
    <2>2. QED
      BY <1>1, <2>1 DEF Returns, TypeOK
  <1>4. QED
    BY <1>2, <1>3

\* Every step begins or ends a call, sends a thread to sleep, wakes threads up
\* or makes a clock run out; t is the thread that takes it.
Begins(t) == /\ Calls(t) /\ pc[t] = "idle"
             /\ pc'[t] \in {"push", "pop", "closeNotEmpty"}
             /\ pc'[t] = "closeNotEmpty" => UNCHANGED timed
             /\ UNCHANGED expired
             /\ \A u \in Thread \ {t} : pc'[u] = pc[u] /\ timed'[u] = timed[u]

FallsAsleep(t) == /\ ~closed /\ ~expired[t]
                  /\ pc[t] \in {"push", "pop"} /\ pc'[t] \in Asleep
                  /\ UNCHANGED <<timed, expired>>
                  /\ \A u \in Thread \ {t} : pc'[u] = pc[u]

WakesAll(t) == /\ \/ pc[t] = "closeNotEmpty" /\ pc'[t] = "closeNotFull"
                  \/ pc[t] = "closeNotFull" /\ pc'[t] = "idle"
               /\ UNCHANGED <<timed, expired>>
               /\ \A u \in Thread \ {t} : pc'[u] = pc[u] \/ Woken(u)

Wakes(t) == /\ Woken(t)
            /\ UNCHANGED <<timed, expired>>
            /\ \A u \in Thread \ {t} : pc'[u] = pc[u]

Expires(t) == /\ timed[t] /\ ~expired[t]
              /\ Woken(t) \/ (pc[t] \in {"push", "pop"} /\ pc'[t] = pc[t])
              /\ expired' = [expired EXCEPT ![t] = TRUE] /\ UNCHANGED timed
              /\ \A u \in Thread \ {t} : pc'[u] = pc[u]

LEMMA StepKinds ==
  ASSUME TypeOK, Next
  PROVE  /\ closed => closed'
         /\ \E t \in Thread : \/ Begins(t) \/ Returns(t) \/ FallsAsleep(t)
                              \/ WakesAll(t) \/ Wakes(t) \/ Expires(t)
  <1> PICK t \in Thread : \/ Calls(t) \/ Runs(t)
                          \/ CloseNotEmpty(t) \/ CloseNotFull(t)
                          \/ SpuriousWakeup(t) \/ TimeoutPasses(t)
    BY DEF Next
  <1>1. CASE Calls(t)
    <2>1. CASE \E tm \in BOOLEAN : \E x \in Item : PushCall(t, x, tm)
      BY <1>1, <2>1 DEF PushCall, Goes, Begins, TypeOK
    <2>2. CASE \E tm \in BOOLEAN : PopCall(t, tm)
      BY <1>1, <2>2 DEF PopCall, Goes, Begins, TypeOK
    <2>3. CASE Close(t)
      BY <1>1, <2>3 DEF Close, Goes, Begins, TypeOK, calls
    <2>4. QED
      BY <1>1, <2>1, <2>2, <2>3 DEF Calls
  <1>2. CASE PushWait(t) \/ PopWait(t)
    <2>1. FallsAsleep(t) /\ UNCHANGED closed
      BY <1>2 DEF PushWait, PopWait, CanPush, CanPop, Goes, FallsAsleep, Asleep,
                  TypeOK, calls
    <2>2. QED
      BY <2>1
  <1>3. CASE Runs(t) /\ ~(PushWait(t) \/ PopWait(t))
    <2>1. UNCHANGED closed
      BY <1>3 DEF Runs, PushFail, PushDone, PushThrow, PopFail, PopDone, PopThrow
    <2>2. Returns(t)
      BY <1>3, CallsReturning DEF Runs
    <2>3. QED
      BY <2>1, <2>2
  <1>4. CASE CloseNotEmpty(t) \/ CloseNotFull(t)
    <2>1. WakesAll(t) /\ UNCHANGED closed
      BY <1>4 DEF CloseNotEmpty, CloseNotFull, NotifyAll, WakesAll, Woken,
                  TypeOK, calls
    <2>2. QED
      BY <2>1
  <1>5. CASE SpuriousWakeup(t)
    <2>1. Wakes(t) /\ UNCHANGED closed
      BY <1>5 DEF SpuriousWakeup, WakesUp, Goes, Wakes, Woken, TypeOK, calls
    <2>2. QED
      BY <2>1
  <1>6. CASE TimeoutPasses(t)
    <2>1. Expires(t) /\ UNCHANGED closed
      BY <1>6 DEF TimeoutPasses, WakesUp, Goes, Expires, Woken, TypeOK
    <2>2. QED
      BY <2>1
  <1>7. QED
    BY <1>1, <1>2, <1>3, <1>4, <1>5, <1>6

LEMMA ClocksInductive == TypeOK /\ Clocks /\ [Next]_vars => Clocks'
  <1> SUFFICES ASSUME TypeOK, Clocks, [Next]_vars PROVE Clocks'
    OBVIOUS
  <1>1. CASE UNCHANGED vars
    BY <1>1 DEF Clocks, vars, calls
  <1>2. CASE Next
    <2> PICK t \in Thread : \/ Begins(t) \/ Returns(t) \/ FallsAsleep(t)
                            \/ WakesAll(t) \/ Wakes(t) \/ Expires(t)
      BY <1>2, StepKinds
    <2>1. CASE Begins(t)
      BY <2>1 DEF Begins, Clocks, Asleep
    <2>2. CASE Returns(t)
      BY <2>2 DEF Returns, Woken, Clocks, Asleep, TypeOK
    <2>3. CASE FallsAsleep(t)
      BY <2>3 DEF FallsAsleep, Clocks, Asleep
    <2>4. CASE WakesAll(t)
      BY <2>4 DEF WakesAll, Woken, Clocks, Asleep
    <2>5. CASE Wakes(t)
      BY <2>5 DEF Wakes, Woken, Clocks, Asleep
    <2>6. CASE Expires(t)
      BY <2>6 DEF Expires, Woken, Clocks, Asleep, TypeOK
    <2>7. QED
      BY <2>1, <2>2, <2>3, <2>4, <2>5, <2>6
  <1>3. QED
    BY <1>1, <1>2

LEMMA ClocksKept == Spec => [](TypeOK /\ Clocks)
  <1>1. Init => Clocks
    BY DEF Init, Clocks
  <1>2. QED
    BY <1>1, ClocksInductive, TypeCorrect, PTL DEF Spec

\* A thread that another one does not touch, or wakes up, has no more to do.
LEMMA OthersRank ==
  ASSUME TypeOK, NEW u \in Thread,
         pc'[u] = pc[u] \/ Woken(u),
         timed'[u] = timed[u], expired'[u] = expired[u]
  PROVE  Rank(u)' <= Rank(u) /\ (Woken(u) => Rank(u)' < Rank(u))
  <1>1. ToExpire(u)' = ToExpire(u) /\ ToExpire(u) \in Nat
    BY DEF ToExpire
  <1>2. CASE pc'[u] = pc[u]
    <2>1. ~Woken(u)
      BY <1>2 DEF Woken
    <2>2. Rank(u)' = Rank(u) /\ Rank(u) \in Nat
      BY <1>1, <1>2 DEF Rank, Steps
    <2>3. QED
      BY <2>1, <2>2
  <1>3. CASE Woken(u)
    <2>1. Rank(u)' = 1 + ToExpire(u) /\ Rank(u) = 2 + ToExpire(u)
      BY <1>1, <1>3 DEF Woken, Rank, Steps, Asleep
    <2>2. QED
      BY <1>1, <2>1
  <1>4. QED
    BY <1>2, <1>3

LEMMA RanksFall ==
  ASSUME TypeOK, Clocks, closed, NEW t \in Thread,
         Returns(t) \/ WakesAll(t) \/ Wakes(t) \/ Expires(t)
  PROVE  /\ Rank(t)' < Rank(t)
         /\ \A u \in Thread : Rank(u)' <= Rank(u)
  <1>1. ASSUME NEW u \in Thread \ {t}
        PROVE  Rank(u)' <= Rank(u)
    <2>1. pc'[u] = pc[u] \/ Woken(u)
      BY DEF Returns, WakesAll, Wakes, Expires
    <2>2. timed'[u] = timed[u] /\ expired'[u] = expired[u]
      BY DEF Returns, WakesAll, Wakes, Expires, TypeOK
    <2>3. QED
      BY <2>1, <2>2, OthersRank
  <1>2. Rank(t)' < Rank(t) /\ Rank(t)' <= Rank(t)
    <2>1. CASE Returns(t)
      <3>1. ToExpire(t)' = 0 /\ ToExpire(t) \in Nat
        BY <2>1 DEF Returns, ToExpire, TypeOK
      <3>2. Rank(t)' = 0 /\ Rank(t) = 1 + ToExpire(t)
        BY <2>1, <3>1 DEF Returns, Rank, Steps, Asleep
      <3>3. QED
        BY <3>1, <3>2
    <2>2. CASE WakesAll(t)
      <3>1. ToExpire(t)' = ToExpire(t) /\ ToExpire(t) \in Nat
        BY <2>2 DEF WakesAll, ToExpire
      <3>2. \/ Rank(t)' = 1 + ToExpire(t) /\ Rank(t) = 2 + ToExpire(t)
            \/ Rank(t)' = 0 + ToExpire(t) /\ Rank(t) = 1 + ToExpire(t)
        BY <2>2, <3>1 DEF WakesAll, Rank, Steps, Asleep
      <3>3. QED
        BY <3>1, <3>2
    <2>3. CASE Wakes(t)
      <3>1. timed'[t] = timed[t] /\ expired'[t] = expired[t] /\ Woken(t)
        BY <2>3 DEF Wakes
      <3>2. QED
        BY <3>1, OthersRank
    <2>4. CASE Expires(t)
      <3>1. ToExpire(t)' = 0 /\ ToExpire(t) = 1
        BY <2>4 DEF Expires, ToExpire, TypeOK
      <3>2. /\ Steps(pc[t])' \in {1} /\ Steps(pc[t]) \in {1, 2}
        BY <2>4 DEF Expires, Woken, Steps, Asleep
      <3>3. QED
        BY <3>1, <3>2 DEF Rank
    <2>5. QED
      BY <2>1, <2>2, <2>3, <2>4
  <1>3. QED
    BY <1>1, <1>2

(* close releases everybody: from then on nobody falls asleep, no call     *)
(* gets longer and every step that does not begin a call brings some call  *)
(* nearer to its end, which a thread has reached when its rank is 0.       *)
THEOREM ClosedRunsDown ==
  Spec => /\ [][RunsDown]_vars
          /\ []Ranked
  <1>1. TypeOK /\ Clocks /\ [Next]_vars => [RunsDown]_vars
    <2> SUFFICES ASSUME TypeOK, Clocks, Next, closed PROVE RunsDown
      BY DEF RunsDown
    <2> PICK t \in Thread : \/ Begins(t) \/ Returns(t) \/ FallsAsleep(t)
                            \/ WakesAll(t) \/ Wakes(t) \/ Expires(t)
      BY StepKinds
    <2>1. closed'
      BY StepKinds
    <2>2. CASE Begins(t)
      <3>1. Calls(t) /\ pc[t] = "idle"
        BY <2>2 DEF Begins
      <3>2. ASSUME NEW u \in Thread \ {t}
            PROVE  Rank(u)' <= Rank(u)
        <4>1. pc'[u] = pc[u] /\ timed'[u] = timed[u] /\ expired'[u] = expired[u]
          BY <2>2 DEF Begins
        <4>2. QED
          BY <4>1, OthersRank
      <3>3. QED
        BY <2>1, <3>1, <3>2 DEF RunsDown
    <2>3. CASE FallsAsleep(t)
      BY <2>3 DEF FallsAsleep
    <2>4. CASE Returns(t) \/ WakesAll(t) \/ Wakes(t) \/ Expires(t)
      BY <2>1, <2>4, RanksFall DEF RunsDown
    <2>5. QED
      BY <2>2, <2>3, <2>4
  <1>2. TypeOK /\ Clocks => Ranked
    <2> SUFFICES ASSUME TypeOK, Clocks, NEW u \in Thread
                 PROVE  Rank(u) \in 0 .. 3 /\ (Rank(u) = 0 <=> pc[u] = "idle")
      BY DEF Ranked
    <2>1. ToExpire(u) \in 0 .. 1 /\ (pc[u] = "idle" => ToExpire(u) = 0)
      BY DEF ToExpire, Clocks, Asleep
    <2>2. Steps(pc[u]) \in 0 .. 2 /\ (Steps(pc[u]) = 0 <=> pc[u] = "idle")
      BY DEF Steps
    <2>3. QED
      BY <2>1, <2>2 DEF Rank
  <1>3. QED
    BY <1>1, <1>2, ClocksKept, PTL DEF Spec

(* A call whose timeout has passed is awake, and its next step of its own  *)
(* is its last: wait_for looks at the queue once more and does not wait    *)
(* again, open or closed, whatever the other threads do.                   *)
THEOREM TimeoutEnds == Spec => []Clocks /\ [][GivesUp]_vars
  <1>1. TypeOK /\ Clocks /\ [Next]_vars => [GivesUp]_vars
    <2> SUFFICES ASSUME TypeOK, Clocks, Next, NEW u \in Thread, expired[u]
                 PROVE  \/ pc'[u] = pc[u] /\ expired'[u]
                        \/ pc'[u] = "idle" /\ ~expired'[u]
      BY DEF GivesUp
    <2>1. pc[u] \in {"push", "pop"} /\ ~Woken(u)
      BY DEF Clocks, Woken
    <2> PICK t \in Thread : \/ Begins(t) \/ Returns(t) \/ FallsAsleep(t)
                            \/ WakesAll(t) \/ Wakes(t) \/ Expires(t)
      BY StepKinds
    <2>2. CASE Begins(t)
      BY <2>1, <2>2 DEF Begins
    <2>3. CASE Returns(t)
      BY <2>1, <2>3 DEF Returns, TypeOK
    <2>4. CASE FallsAsleep(t)
      BY <2>1, <2>4 DEF FallsAsleep
    <2>5. CASE WakesAll(t)
      BY <2>1, <2>5 DEF WakesAll
    <2>6. CASE Wakes(t) \/ Expires(t)
      BY <2>1, <2>6 DEF Wakes, Expires, TypeOK
    <2>7. QED
      BY <2>2, <2>3, <2>4, <2>5, <2>6
  <1>2. QED
    BY <1>1, ClocksKept, PTL DEF Spec
=============================================================================
