----------------------------- MODULE SharedPtr -----------------------------
(***************************************************************************)
(* null/shared_ptr.h and null/weak_ptr.h: reference counting with a        *)
(* control block that several threads update without a lock.               *)
(*                                                                         *)
(* A handle is a variable of type shared_ptr (Strong) or weak_ptr (Weak);  *)
(* it is owned by one thread at a time, which may hand it to another (the  *)
(* program has to synchronise that, as for any object).  What the threads  *)
(* share are the blocks.  Each atomic operation on a count is a step of    *)
(* its own; everything between two of them (the temporary, the swap) is    *)
(* local to the thread and part of the step before.                        *)
(*                                                                         *)
(* Memory model.  A thread's last access to the managed object of a block, *)
(* and to the block itself, is an event.  known[t][b] holds the events on  *)
(* b that happen before what t does next; carried[b] holds, for each of    *)
(* the two counts, the events that the release sequence of that count      *)
(* publishes.  A relaxed load may return any value the count has had.      *)
(***************************************************************************)
EXTENDS Naturals, FiniteSets

CONSTANTS Thread, Strong, Weak,   \* threads, shared_ptrs, weak_ptrs
          Block,                  \* places for control blocks, reused
          None                    \* a null pb_; a thread not in a call

ASSUME PtrAssumption == /\ IsFiniteSet(Thread)
                        /\ IsFiniteSet(Strong)
                        /\ IsFiniteSet(Weak)
                        /\ Strong \cap Weak = {}
                        /\ None \notin Block

VARIABLES pb,       \* pb_ of every handle
          owner,    \* the thread that may touch the handle
          use,      \* use_count of every block
          weak,     \* weak_count of every block
          past,     \* the values use_count has had
          life,     \* "live", "disposed" (the object is gone) or "free"
          pc, at,   \* the pending call of each thread, and its block
          loaded,   \* n in lock_use_count
          done, known, carried    \* the memory model

handles == <<pb, owner>>
counts  == <<use, weak, past>>
calls   == <<pc, at, loaded>>
memory  == <<done, known, carried>>
vars    == <<handles, counts, life, calls, memory>>

Handle == Strong \cup Weak
Event  == {"object", "block"} \X Thread

-----------------------------------------------------------------------------
(***************************************************************************)
(* Happens-before.  e is the event of the access, ks the state of known    *)
(* and cs that of carried: an access is news to everybody but t.           *)
(***************************************************************************)
Access(t, b, what) ==
  LET e == <<what, t>>
  IN /\ done' = [done EXCEPT ![b] = @ \cup {e}]
     /\ known' = [u \in Thread |->
                    [known[u] EXCEPT ![b] = IF u = t THEN @ \cup {e} ELSE @ \ {e}]]
     /\ carried' = [carried EXCEPT ![b] = [c \in {"use", "weak"} |-> @[c] \ {e}]]

\* The memory orders of a read-modify-write of count c of b by t: what it
\* publishes (release) and what it learns (acquire).
RelaxedSub(t, b) == {}                          \* bug: no memory_order_release
Released(t, b) == known[t][b] \cup {<<"block", t>>}
Acquired(b, c) == carried[b][c]

Atomic(t, b, c, published, learnt) ==
  LET e == <<"block", t>>
  IN /\ done' = [done EXCEPT ![b] = @ \cup {e}]
     /\ known' = [u \in Thread |->
                    [known[u] EXCEPT ![b] =
                       IF u = t THEN @ \cup {e} \cup learnt ELSE @ \ {e}]]
     /\ carried' = [carried EXCEPT ![b] =
                      [d \in {"use", "weak"} |->
                         (@[d] \ {e}) \cup IF d = c THEN published ELSE {}]]

-----------------------------------------------------------------------------
\* Thread t, in no call, owns the handles hs.
Holds(t, hs) == pc[t] = "idle" /\ \A h \in hs : owner[h] = t

\* The destructor of the temporary that has been swapped with handle h, which
\* held the block old: nothing to do for a null one, otherwise count down.
DropNothing(t, h, old) == UNCHANGED calls       \* bug: the old block leaks
Drop(t, h, old) ==
  IF old = None
  THEN /\ pc' = [pc EXCEPT ![t] = "idle"]
       /\ at' = [at EXCEPT ![t] = None]
       /\ loaded' = [loaded EXCEPT ![t] = 0]
  ELSE /\ pc' = [pc EXCEPT ![t] = IF h \in Strong THEN "decUse" ELSE "decWeak"]
       /\ at' = [at EXCEPT ![t] = old]
       /\ loaded' = [loaded EXCEPT ![t] = 0]

Init == /\ pb = [h \in Handle |-> None]
        /\ owner \in [Handle -> Thread]
        /\ use = [b \in Block |-> 0]
        /\ weak = [b \in Block |-> 0]
        /\ past = [b \in Block |-> {}]
        /\ life = [b \in Block |-> "free"]
        /\ pc = [t \in Thread |-> "idle"]
        /\ at = [t \in Thread |-> None]
        /\ loaded = [t \in Thread |-> 0]
        /\ done = [b \in Block |-> {}]
        /\ known = [t \in Thread |-> [b \in Block |-> {}]]
        /\ carried = [b \in Block |-> [c \in {"use", "weak"} |-> {}]]

Counted(b, n) == /\ use' = [use EXCEPT ![b] = n]
                 /\ past' = [past EXCEPT ![b] = @ \cup {n}]

(***************************************************************************)
(* Calls on handles                                                        *)
(***************************************************************************)

\* h.reset (p), or construction from p: a new control block with both counts
\* 1, written by t alone.
Make(t, h, b) ==
  /\ Holds(t, {h})
  /\ life[b] = "free"
  /\ life' = [life EXCEPT ![b] = "live"]
  /\ use' = [use EXCEPT ![b] = 1]
  /\ weak' = [weak EXCEPT ![b] = 1]
  /\ past' = [past EXCEPT ![b] = {1}]
  /\ pb' = [pb EXCEPT ![h] = b]
  /\ done' = [done EXCEPT ![b] = {"object", "block"} \X {t}]
  /\ known' = [u \in Thread |->
                 [known[u] EXCEPT ![b] = IF u = t THEN {"object", "block"} \X {t}
                                         ELSE {}]]
  /\ carried' = [carried EXCEPT ![b] = [c \in {"use", "weak"} |-> {}]]
  /\ Drop(t, h, pb[h])
  /\ UNCHANGED owner

\* h = g, for shared_ptrs: inc_use_count, then swap.
CopyUncounted(t, h, g) == /\ Holds(t, {h, g})   \* bug: inc_use_count forgotten
                          /\ pb[g] # None
                          /\ pb' = [pb EXCEPT ![h] = pb[g]]
                          /\ Drop(t, h, pb[h])
                          /\ UNCHANGED <<owner, counts, life, memory>>
Copy(t, h, g) ==
  /\ Holds(t, {h, g})
  /\ pb[g] # None
  /\ Counted(pb[g], use[pb[g]] + 1)
  /\ pb' = [pb EXCEPT ![h] = pb[g]]
  /\ Atomic(t, pb[g], "use", {}, {})
  /\ Drop(t, h, pb[h])
  /\ UNCHANGED <<owner, weak, life>>

\* w = g, for a weak_ptr w and either kind of g: inc_weak_count, then swap.
CopyWeak(t, w, g) ==
  /\ Holds(t, {w, g})
  /\ pb[g] # None
  /\ weak' = [weak EXCEPT ![pb[g]] = @ + 1]
  /\ pb' = [pb EXCEPT ![w] = pb[g]]
  /\ Atomic(t, pb[g], "weak", {}, {})
  /\ Drop(t, w, pb[w])
  /\ UNCHANGED <<owner, use, past, life>>

\* bug: no temporary, so that h = std::move (h) drops what it keeps
MoveDropsSelf(t, h, g) ==
  /\ Holds(t, {h, g})
  /\ pb' = [pb EXCEPT ![g] = None, ![h] = pb[g]]
  /\ Drop(t, h, pb[h])
  /\ UNCHANGED <<owner, counts, life, memory>>

\* h = std::move (g), for two handles of a kind; also of null handles.  A
\* handle moved to itself comes back from the temporary.
Move(t, h, g) ==
  /\ Holds(t, {h, g})
  /\ pb' = [pb EXCEPT ![g] = None, ![h] = pb[g]]
  /\ Drop(t, h, IF h = g THEN None ELSE pb[h])
  /\ UNCHANGED <<owner, counts, life, memory>>

\* h = nullptr, the reset of a weak_ptr, and the destructor of h.
Reset(t, h) == /\ Holds(t, {h})
               /\ pb' = [pb EXCEPT ![h] = None]
               /\ Drop(t, h, pb[h])
               /\ UNCHANGED <<owner, counts, life, memory>>

\* Using the managed object through a shared_ptr.
Use(t, h) == /\ Holds(t, {h})
             /\ pb[h] # None
             /\ Access(t, pb[h], "object")
             /\ UNCHANGED <<handles, counts, life, calls>>

\* The program hands h to thread u, with whatever t knows.
HandOver(t, u, h) ==
  /\ Holds(t, {h})
  /\ owner' = [owner EXCEPT ![h] = u]
  /\ known' = [known EXCEPT ![u] = [b \in Block |-> known[u][b] \cup known[t][b]]]
  /\ UNCHANGED <<pb, counts, life, calls, done, carried>>

(***************************************************************************)
(* weak_ptr::lock                                                          *)
(***************************************************************************)

\* The relaxed load: any value the count has had.
LockLoad(t, w) ==
  /\ Holds(t, {w})
  /\ pb[w] # None
  /\ pc' = [pc EXCEPT ![t] = "lock"]
  /\ at' = [at EXCEPT ![t] = pb[w]]
  /\ \E n \in past[pb[w]] : loaded' = [loaded EXCEPT ![t] = n]
  /\ Access(t, pb[w], "block")
  /\ UNCHANGED <<handles, counts, life>>

\* n is 0: h = w.lock () makes h null.
LockFails(t, h) ==
  /\ pc[t] = "lock"
  /\ owner[h] = t
  /\ loaded[t] = 0
  /\ pb' = [pb EXCEPT ![h] = None]
  /\ Drop(t, h, pb[h])
  /\ UNCHANGED <<owner, counts, life, memory>>

\* bug: a failed compare_exchange is taken for an expired object
LockGivesUp(t) ==
  /\ pc[t] = "lock"
  /\ loaded[t] # 0
  /\ loaded' = [loaded EXCEPT ![t] = 0]
  /\ Access(t, at[t], "block")
  /\ UNCHANGED <<handles, counts, life, pc, at>>

\* The compare_exchange fails: the count differs from n, or for no reason.
LockRetry(t) ==
  /\ pc[t] = "lock"
  /\ loaded[t] # 0
  /\ \E n \in past[at[t]] : loaded' = [loaded EXCEPT ![t] = n]
  /\ Access(t, at[t], "block")
  /\ UNCHANGED <<handles, counts, life, pc, at>>

\* The compare_exchange succeeds: h = w.lock () shares the object.
LockBlindly(t, h) ==            \* bug: fetch_add instead of compare_exchange
  /\ pc[t] = "lock"
  /\ owner[h] = t
  /\ loaded[t] # 0
  /\ Counted(at[t], use[at[t]] + 1)
  /\ pb' = [pb EXCEPT ![h] = at[t]]
  /\ Atomic(t, at[t], "use", {}, Acquired(at[t], "use"))
  /\ Drop(t, h, pb[h])
  /\ UNCHANGED <<owner, weak, life>>
LockSucceeds(t, h) ==
  /\ pc[t] = "lock"
  /\ owner[h] = t
  /\ loaded[t] # 0
  /\ use[at[t]] = loaded[t]
  /\ Counted(at[t], loaded[t] + 1)
  /\ pb' = [pb EXCEPT ![h] = at[t]]
  /\ Atomic(t, at[t], "use", {}, Acquired(at[t], "use"))
  /\ Drop(t, h, pb[h])
  /\ UNCHANGED <<owner, weak, life>>

(***************************************************************************)
(* dec_use_count and dec_weak_count                                        *)
(***************************************************************************)

\* The call of t goes on at p, or is over.
GoesOn(t, p) == /\ pc' = [pc EXCEPT ![t] = p]
                /\ at' = IF p = "idle" THEN [at EXCEPT ![t] = None] ELSE at
                /\ UNCHANGED loaded

DecUse(t) ==
  LET b == at[t]
  IN /\ pc[t] = "decUse"
     /\ Counted(b, use[b] - 1)
     /\ Atomic(t, b, "use", Released(t, b),
               IF use[b] = 1 THEN Acquired(b, "use") ELSE {})
     /\ GoesOn(t, IF use[b] = 1 THEN "dispose" ELSE "idle")
     /\ UNCHANGED <<handles, weak, life>>

\* dispose () deletes the object.
Dispose(t) == /\ pc[t] = "dispose"
              /\ life' = [life EXCEPT ![at[t]] = "disposed"]
              /\ Access(t, at[t], "object")
              /\ GoesOn(t, "decWeak")
              /\ UNCHANGED <<handles, counts>>

DecWeak(t) ==
  LET b == at[t]
  IN /\ pc[t] = "decWeak"
     /\ weak' = [weak EXCEPT ![b] = @ - 1]
     /\ Atomic(t, b, "weak", Released(t, b),
               IF weak[b] = 1 THEN Acquired(b, "weak") ELSE {})
     /\ GoesOn(t, IF weak[b] = 1 THEN "destroy" ELSE "idle")
     /\ UNCHANGED <<handles, use, past, life>>

\* destroy () deletes the control block.
Destroy(t) == /\ pc[t] = "destroy"
              /\ life' = [life EXCEPT ![at[t]] = "free"]
              /\ use' = [use EXCEPT ![at[t]] = 0]
              /\ past' = [past EXCEPT ![at[t]] = {}]
              /\ done' = [done EXCEPT ![at[t]] = {}]
              /\ known' = [u \in Thread |-> [known[u] EXCEPT ![at[t]] = {}]]
              /\ carried' = [carried EXCEPT ![at[t]] =
                               [c \in {"use", "weak"} |-> {}]]
              /\ GoesOn(t, "idle")
              /\ UNCHANGED <<handles, weak>>

-----------------------------------------------------------------------------
Counting(t) == DecUse(t) \/ Dispose(t) \/ DecWeak(t) \/ Destroy(t)

Next ==
  \E t \in Thread :
     \/ \E h \in Strong : \/ \E b \in Block : Make(t, h, b)
                          \/ \E g \in Strong : Copy(t, h, g)
                          \/ Use(t, h)
                          \/ LockFails(t, h) \/ LockSucceeds(t, h)
     \/ \E w \in Weak : (\E g \in Handle : CopyWeak(t, w, g)) \/ LockLoad(t, w)
     \/ \E h, g \in Handle : (h \in Strong <=> g \in Strong) /\ Move(t, h, g)
     \/ \E h \in Handle : Reset(t, h) \/ \E u \in Thread \ {t} : HandOver(t, u, h)
     \/ LockRetry(t)
     \/ Counting(t)

Spec == Init /\ [][Next]_vars
-----------------------------------------------------------------------------
Place == {"idle", "lock", "decUse", "dispose", "decWeak", "destroy"}

(* The variables have their types.                                         *)
TypeOK == /\ pb \in [Handle -> Block \cup {None}]
          /\ owner \in [Handle -> Thread]
          /\ use \in [Block -> Nat]
          /\ weak \in [Block -> Nat]
          /\ past \in [Block -> SUBSET Nat]
          /\ life \in [Block -> {"live", "disposed", "free"}]
          /\ pc \in [Thread -> Place]
          /\ at \in [Thread -> Block \cup {None}]
          /\ \A t \in Thread : pc[t] # "idle" <=> at[t] # None
          /\ loaded \in [Thread -> Nat]
          /\ done \in [Block -> SUBSET Event]
          /\ known \in [Thread -> [Block -> SUBSET Event]]
          /\ carried \in [Block -> [{"use", "weak"} -> SUBSET Event]]

Pending(b, places) == {t \in Thread : at[t] = b /\ pc[t] \in places}
StrongOn(b) == {h \in Strong : pb[h] = b}
WeakOn(b)   == {w \in Weak : pb[w] = b}

(* A shared_ptr never outlives its object, no handle and no pending call   *)
(* refers to a block that has been deleted, and each of the object and the *)
(* block is deleted by one thread only.                                    *)
NoUseAfterFree ==
  /\ \A h \in Strong : pb[h] # None => life[pb[h]] = "live"
  /\ \A w \in Weak : pb[w] # None => life[pb[w]] # "free"
  /\ \A t \in Thread : pc[t] # "idle" => life[at[t]] # "free"
  /\ \A t \in Thread : pc[t] = "dispose" =>
        life[at[t]] = "live" /\ Pending(at[t], {"dispose"}) = {t}
  /\ \A t \in Thread : pc[t] = "destroy" =>
        life[at[t]] = "disposed" /\ Pending(at[t], {"lock", "destroy"}) = {t}

(* Nothing leaks: an object that lives has a shared_ptr, or a thread that  *)
(* is dropping one; a block has a handle, or a thread dropping one.        *)
NoLeak ==
  \A b \in Block :
     /\ life[b] = "live" =>
          StrongOn(b) # {} \/ Pending(b, {"decUse", "dispose"}) # {}
     /\ life[b] = "disposed" =>
          WeakOn(b) # {} \/ Pending(b, {"decWeak", "destroy"}) # {}

(* The memory orders suffice: all accesses to the object, by any thread,   *)
(* happen before its deletion, and all accesses to the block before its.   *)
DeletedLast ==
  \A t \in Thread :
     /\ pc[t] = "dispose" =>
          \A u \in Thread : <<"object", u>> \in done[at[t]] =>
                               <<"object", u>> \in known[t][at[t]]
     /\ pc[t] = "destroy" => done[at[t]] \subseteq known[t][at[t]]

(* lock () returns null only if the object is on its way out, in spite of  *)
(* stale loads.                                                            *)
LockHonest == \A t \in Thread : pc[t] = "lock" /\ loaded[t] = 0 => use[at[t]] = 0

-----------------------------------------------------------------------------
(* Both counts are exact.  use counts the shared_ptrs and the threads that *)
(* are about to count one down; weak counts the weak_ptrs, the threads     *)
(* about to count one down, and 1 for all the shared_ptrs together, which  *)
(* becomes the disposer's when the object is gone.                         *)
CountsExact ==
  \A b \in Block : life[b] # "free" =>
     /\ use[b] = Cardinality(StrongOn(b)) + Cardinality(Pending(b, {"decUse"}))
     /\ weak[b] = Cardinality(WeakOn(b)) + Cardinality(Pending(b, {"decWeak"}))
                   + IF life[b] = "live" THEN 1 ELSE 0

(* What use_count 0 means: the last dropper is at work, or has been; and    *)
(* likewise for weak_count.  A thread in lock () keeps its weak_ptr.        *)
Dying ==
  /\ \A t \in Thread :
        /\ pc[t] = "decUse" => life[at[t]] = "live"
        /\ pc[t] = "dispose" => use[at[t]] = 0
        /\ pc[t] = "destroy" => weak[at[t]] = 0
        /\ pc[t] = "lock" => \E w \in Weak : pb[w] = at[t] /\ owner[w] = t
  /\ \A b \in Block :
        /\ life[b] = "live" /\ use[b] = 0 => Pending(b, {"dispose"}) # {}
        /\ life[b] = "disposed" => use[b] = 0
        /\ life[b] = "disposed" /\ weak[b] = 0 => Pending(b, {"destroy"}) # {}

(* A count that has been 0 stays 0, and lock () has read a value it had.   *)
ZeroLasts ==
  /\ \A b \in Block : 0 \in past[b] => use[b] = 0
  /\ \A t \in Thread : pc[t] = "lock" => loaded[t] \in past[at[t]]

\* Event e on block b will be learnt by whoever drops the last shared_ptr: it
\* is published by use_count, or a thread knows it that has yet to drop one.
ReachesDisposer(b, e) ==
  \/ use[b] > 0 /\ e \in carried[b]["use"]
  \/ \E h \in StrongOn(b) : e \in known[owner[h]][b]
  \/ \E t \in Pending(b, {"decUse", "dispose"}) : e \in known[t][b]

\* Likewise for the last weak_ptr.
ReachesDestroyer(b, e) ==
  \/ weak[b] > 0 /\ e \in carried[b]["weak"]
  \/ \E w \in WeakOn(b) : e \in known[owner[w]][b]
  \/ \E t \in Pending(b, {"decWeak", "destroy"}) : e \in known[t][b]

(* No access gets lost on its way to the deletion it must happen before.   *)
OnItsWay ==
  \A b \in Block : \A e \in done[b] :
     /\ life[b] = "live" /\ e[1] = "object" => ReachesDisposer(b, e)
     /\ (life[b] = "live" /\ ReachesDisposer(b, e)) \/ ReachesDestroyer(b, e)

(* The inductive invariant.                                                *)
Inv == TypeOK /\ CountsExact /\ NoUseAfterFree /\ Dying /\ ZeroLasts /\ OnItsWay
=============================================================================
