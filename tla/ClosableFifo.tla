---------------------------- MODULE ClosableFifo ----------------------------
(***************************************************************************)
(* What a bounded first-in first-out container promises its users, without *)
(* threads, slots, locks or memory orders: items come out in the order in  *)
(* which they went in, each exactly once; at most Capacity items are       *)
(* inside; and once the container is closed nothing goes in any more,      *)
(* although what is inside can still be taken out.                         *)
(*                                                                         *)
(* SpscRingBuffer (never closed) and BlockingQueue implement it.           *)
(***************************************************************************)
EXTENDS Naturals, Sequences

CONSTANTS Item,      \* what can be put into the container
          Capacity   \* how many items fit

VARIABLES sent,      \* the items put in so far, in that order
          received,  \* the items taken out so far, in that order
          closed     \* TRUE once the container has been closed

vars == <<sent, received, closed>>

Init == /\ sent = <<>>
        /\ received = <<>>
        /\ closed = FALSE

Push(x) == /\ ~closed
           /\ Len(sent) - Len(received) < Capacity
           /\ sent' = Append(sent, x)
           /\ UNCHANGED <<received, closed>>

Pop == /\ Len(received) < Len(sent)
       /\ received' = Append(received, sent[Len(received) + 1])
       /\ UNCHANGED <<sent, closed>>

Close == /\ closed' = TRUE
         /\ UNCHANGED <<sent, received>>

Next == (\E x \in Item : Push(x)) \/ Pop \/ Close

Spec == Init /\ [][Next]_vars
=============================================================================
