--------------------------- MODULE BlockingQueue ---------------------------
(***************************************************************************)
(* null/concurrent_blocking_queue.h: a bounded queue between any number of *)
(* threads, with one mutex and two condition variables.                    *)
(*                                                                         *)
(* What a thread does between locking the mutex and unlocking it, or       *)
(* releasing it in a wait, is one action: mutex_ admits nobody else, and   *)
(* a wait releases it and enters the wait set in one step.  A thread that  *)
(* is awake in push or pop ("push", "pop") is about to get the mutex and   *)
(* evaluate the predicate of the wait; a thread that waits ("notFull",     *)
(* "notEmpty") needs a notification, the end of its timeout or a spurious  *)
(* wakeup first.  close notifies after it has unlocked, so its two         *)
(* notify_all are steps of their own ("closeNotEmpty", "closeNotFull").    *)
(***************************************************************************)
EXTENDS Naturals, Sequences, FiniteSets

CONSTANTS Thread,     \* the threads that use the queue
          Item,       \* the values of type T
          NoItem,     \* a thread that is not in push has no item
          Capacity,   \* capacity_
          MaxSent,    \* bound: successful pushes
          MaxThrows   \* bound: constructions of T, or allocations, that throw

ASSUME QueueAssumption == /\ IsFiniteSet(Thread)
                          /\ Capacity \in Nat
                          /\ MaxSent \in Nat
                          /\ MaxThrows \in Nat
                          /\ NoItem \notin Item

VARIABLES queue,        \* queue_
          closed,       \* closed_
          pc,           \* where each thread is
          item,         \* the argument of its push
          timed,        \* TRUE in try_push and try_pop
          expired,      \* TRUE once the timeout of that call has passed
          sent,         \* items whose push returned true, in order
          received,     \* items that pop took out, in order
          pushThrows,   \* pushes that ended in an exception
          popThrows     \* pops that ended in an exception

calls   == <<item, timed, expired>>
history == <<sent, received>>
throws  == <<pushThrows, popThrows>>
vars    == <<queue, closed, pc, calls, history, throws>>

Place == {"idle", "push", "pop", "notFull", "notEmpty",
          "closeNotEmpty", "closeNotFull"}

At(p) == {t \in Thread : pc[t] = p}

\* The predicates of the two waits.
CanPush == Len(queue) < Capacity \/ closed
CanPopOpen == queue # <<>>                   \* bug: closed_ is forgotten
CanPop  == queue # <<>> \/ closed

\* t goes from p to q.
Goes(t, p, q) == /\ pc[t] = p
                 /\ pc' = [pc EXCEPT ![t] = q]

\* t returns, and cv.notify_one () wakes one of the threads waiting at cv, if
\* there is any, which goes back to place back.
ReturnsAndNotifiesNone(t, p, cv, back) == Goes(t, p, "idle") \* bug: not called
ReturnsAndNotifies(t, p, cv, back) ==
  /\ pc[t] = p
  /\ \/ /\ At(cv) = {}
        /\ pc' = [pc EXCEPT ![t] = "idle"]
     \/ \E w \in At(cv) : pc' = [pc EXCEPT ![t] = "idle", ![w] = back]

-----------------------------------------------------------------------------
Init == /\ queue = <<>>
        /\ closed = FALSE
        /\ pc = [t \in Thread |-> "idle"]
        /\ item = [t \in Thread |-> NoItem]
        /\ timed = [t \in Thread |-> FALSE]
        /\ expired = [t \in Thread |-> FALSE]
        /\ sent = <<>>
        /\ received = <<>>
        /\ pushThrows = 0
        /\ popThrows = 0

\* The call is over; its arguments and its clock are forgotten.
Forget(t) == /\ item' = [item EXCEPT ![t] = NoItem]
             /\ timed' = [timed EXCEPT ![t] = FALSE]
             /\ expired' = [expired EXCEPT ![t] = FALSE]

(***************************************************************************)
(* push and try_push                                                       *)
(***************************************************************************)

\* Thread t calls push (x), or try_push (x, timeout) when tm.
PushCall(t, x, tm) ==
  /\ Goes(t, "idle", "push")
  /\ Len(sent) + Cardinality(At("push") \cup At("notFull")) < MaxSent
  /\ item' = [item EXCEPT ![t] = x]
  /\ timed' = [timed EXCEPT ![t] = tm]
  /\ UNCHANGED <<queue, closed, expired, history, throws>>

\* The predicate is false and there is time left: wait.
PushWait(t) == /\ ~CanPush
               /\ ~expired[t]
               /\ Goes(t, "push", "notFull")
               /\ UNCHANGED <<queue, closed, calls, history, throws>>

\* wait_for gives up, or the queue is closed: return false.
PushFail(t) == /\ closed \/ (~CanPush /\ expired[t])
               /\ Goes(t, "push", "idle")
               /\ Forget(t)
               /\ UNCHANGED <<queue, closed, history, throws>>

\* The wait has succeeded and closed_ is not set.
PushRoomOffByOne == Len(queue) <= Capacity /\ ~closed   \* bug: one too many
PushRoomClosed == Len(queue) < Capacity                 \* bug: closed_ not seen
PushRoom == Len(queue) < Capacity /\ ~closed

\* There is room: push_back, notify_one, return true.
PushDone(t) == /\ PushRoom
               /\ queue' = Append(queue, item[t])
               /\ sent' = Append(sent, item[t])
               /\ ReturnsAndNotifies(t, "push", "notEmpty", "pop")
               /\ Forget(t)
               /\ UNCHANGED <<closed, received, throws>>

\* push_back throws (the allocation or the construction of the element): the
\* queue is as before, and nobody is notified.
PushThrow(t) == /\ PushRoom
                /\ pushThrows + popThrows < MaxThrows
                /\ pushThrows' = pushThrows + 1
                /\ Goes(t, "push", "idle")
                /\ Forget(t)
                /\ UNCHANGED <<queue, closed, history, popThrows>>

(***************************************************************************)
(* pop and try_pop                                                         *)
(***************************************************************************)

\* Thread t calls pop (), or try_pop (timeout) when tm.
PopCall(t, tm) == /\ Goes(t, "idle", "pop")
                  /\ timed' = [timed EXCEPT ![t] = tm]
                  /\ UNCHANGED <<queue, closed, item, expired, history, throws>>

PopWait(t) == /\ ~CanPop
              /\ ~expired[t]
              /\ Goes(t, "pop", "notEmpty")
              /\ UNCHANGED <<queue, closed, calls, history, throws>>

\* bug: a call whose timeout has passed gives up without looking again
PopFailStale(t) == /\ expired[t] \/ (closed /\ queue = <<>>)
                   /\ Goes(t, "pop", "idle")
                   /\ Forget(t)
                   /\ UNCHANGED <<queue, closed, history, throws>>

\* wait_for gives up, or the queue is closed and drained: return nullopt.
PopFail(t) == /\ queue = <<>>
              /\ closed \/ expired[t]
              /\ Goes(t, "pop", "idle")
              /\ Forget(t)
              /\ UNCHANGED <<queue, closed, history, throws>>

\* There is an item: move it out, pop_front, notify_one, return it.
PopDone(t) == /\ queue # <<>>
              /\ queue' = Tail(queue)
              /\ received' = Append(received, Head(queue))
              /\ ReturnsAndNotifies(t, "pop", "notFull", "push")
              /\ Forget(t)
              /\ UNCHANGED <<closed, sent, throws>>

\* Constructing elem from the front element throws: the element stays (the
\* construction that may throw is a copy), and nobody is notified.
PopThrow(t) == /\ queue # <<>>
               /\ pushThrows + popThrows < MaxThrows
               /\ popThrows' = popThrows + 1
               /\ Goes(t, "pop", "idle")
               /\ Forget(t)
               /\ UNCHANGED <<queue, closed, history, pushThrows>>

(***************************************************************************)
(* close                                                                   *)
(***************************************************************************)
Close(t) == /\ Goes(t, "idle", "closeNotEmpty")
            /\ closed' = TRUE
            /\ UNCHANGED <<queue, calls, history, throws>>

\* cv.notify_all () by thread t: everybody waiting at cv wakes up.
NotifyAll(t, p, q, cv, back) ==
  /\ pc[t] = p
  /\ pc' = [u \in Thread |-> IF u = t THEN q
                             ELSE IF pc[u] = cv THEN back ELSE pc[u]]
  /\ UNCHANGED <<queue, closed, calls, history, throws>>

CloseNotEmpty(t) == NotifyAll(t, "closeNotEmpty", "closeNotFull", "notEmpty", "pop")

CloseNotFull(t) == NotifyAll(t, "closeNotFull", "idle", "notFull", "push")

(***************************************************************************)
(* The condition variables: a wait may end without a notification, and the *)
(* timeout of a try_push or try_pop passes at any time during the call.    *)
(***************************************************************************)
WakesUp(t) == \/ Goes(t, "notFull", "push")
              \/ Goes(t, "notEmpty", "pop")

SpuriousWakeup(t) == /\ WakesUp(t)
                     /\ UNCHANGED <<queue, closed, calls, history, throws>>

TimeoutPasses(t) == /\ timed[t]
                    /\ ~expired[t]
                    /\ expired' = [expired EXCEPT ![t] = TRUE]
                    /\ \/ WakesUp(t)
                       \/ pc[t] \in {"push", "pop"} /\ UNCHANGED pc
                    /\ UNCHANGED <<queue, closed, item, timed, history, throws>>

-----------------------------------------------------------------------------
\* A thread that is awake inside a call gets the mutex.
Runs(t) == \/ PushWait(t) \/ PushFail(t) \/ PushDone(t) \/ PushThrow(t)
           \/ PopWait(t) \/ PopFail(t) \/ PopDone(t) \/ PopThrow(t)

Calls(t) == \/ \E tm \in BOOLEAN : \/ \E x \in Item : PushCall(t, x, tm)
                                   \/ PopCall(t, tm)
            \/ Close(t)

Next == \E t \in Thread : \/ Calls(t) \/ Runs(t)
                          \/ CloseNotEmpty(t) \/ CloseNotFull(t)
                          \/ SpuriousWakeup(t) \/ TimeoutPasses(t)

Spec == Init /\ [][Next]_vars

(***************************************************************************)
(* A thread that is awake inside a call goes on: it gets the mutex, which  *)
(* everybody holds for a bounded time only.  Time passes.  Nobody is       *)
(* obliged to call anything, and no spurious wakeup has to happen.         *)
(***************************************************************************)
Fairness == \A t \in Thread : /\ WF_vars(Runs(t))
                              /\ WF_vars(CloseNotEmpty(t))
                              /\ WF_vars(CloseNotFull(t))
                              /\ WF_vars(TimeoutPasses(t))

FairSpec == Spec /\ Fairness
-----------------------------------------------------------------------------
(* The variables have their types.                                         *)
TypeOK == /\ queue \in Seq(Item)
          /\ closed \in BOOLEAN
          /\ pc \in [Thread -> Place]
          /\ item \in [Thread -> Item \cup {NoItem}]
          /\ timed \in [Thread -> BOOLEAN]
          /\ expired \in [Thread -> BOOLEAN]
          /\ sent \in Seq(Item)
          /\ received \in Seq(Item)
          /\ pushThrows \in Nat
          /\ popThrows \in Nat
          /\ \A t \in Thread : pc[t] \in {"push", "notFull"} => item[t] \in Item

(* No wakeup is lost.  As long as the queue is open and somebody sleeps in *)
(* pop, every item inside is claimed by a thread that is awake in pop and  *)
(* will look at the queue again, except for one item per exception that    *)
(* left pop: pop does not pass on the notification it has consumed.  The   *)
(* same holds of free places and push.                                     *)
NoLostWakeup ==
  ~closed =>
    /\ At("notEmpty") # {} => Len(queue) <= Cardinality(At("pop")) + popThrows
    /\ At("notFull") # {} =>
         Capacity <= Len(queue) + Cardinality(At("push")) + pushThrows

(* Nobody sleeps through close: whoever still waits when the queue is      *)
(* closed is waiting where a closer has yet to notify.                     *)
CloserAhead ==
  closed => /\ At("notEmpty") # {} => At("closeNotEmpty") # {}
            /\ At("notFull") # {} => At("closeNotEmpty") \cup At("closeNotFull") # {}

(* Items come out in the order they went in, each once, never more than    *)
(* Capacity are inside, and none goes in after close.                      *)
Fifo == INSTANCE ClosableFifo
FifoSpec == Fifo!Spec

(* close releases everybody, and a call with a timeout returns whatever    *)
(* the other threads do.                                                   *)
CallsReturn ==
  \A t \in Thread : (closed \/ timed[t]) /\ pc[t] # "idle" ~> pc[t] = "idle"

(* An item and a thread sleeping in pop do not stay together, nor a free   *)
(* place and a thread sleeping in push; except that every exception that   *)
(* left a call may leave one sleeper behind, whose notification it took.   *)
SleepersServed ==
  /\ Len(queue) > popThrows /\ At("notEmpty") # {}
       ~> Len(queue) <= popThrows \/ At("notEmpty") = {}
  /\ Len(queue) + pushThrows < Capacity /\ At("notFull") # {}
       ~> Len(queue) + pushThrows >= Capacity \/ At("notFull") = {}
-----------------------------------------------------------------------------
(* The queue holds what has been sent and not yet received, in order.      *)
Contents == /\ Len(sent) = Len(received) + Len(queue)
            /\ Len(queue) <= Capacity
            /\ \A i \in 1 .. Len(queue) : queue[i] = sent[Len(received) + i]

Closers == \A t \in Thread : pc[t] \in {"closeNotEmpty", "closeNotFull"} => closed

(* The inductive invariant.                                                *)
Inv == TypeOK /\ Contents /\ Closers /\ NoLostWakeup /\ CloserAhead
=============================================================================
