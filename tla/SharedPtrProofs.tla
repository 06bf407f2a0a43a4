-------------------------- MODULE SharedPtrProofs --------------------------
(***************************************************************************)
(* Theorems about SharedPtr, for every finite number of threads and        *)
(* handles and any set of blocks.                                          *)
(*                                                                         *)
(* First the counts: an assignment adds one reference to what it puts into *)
(* the handle and moves the one to what was there from the handle to the   *)
(* thread, so that use and weak stay the numbers of references; the count  *)
(* that reaches 0 does so for one thread, and stays there.  Then the       *)
(* memory orders: an event that is known to a thread which has a reference *)
(* to drop stays known to one, or is published by the count when that      *)
(* thread drops it, and whoever drops the last reference learns it.        *)
(***************************************************************************)
EXTENDS SharedPtr, FiniteSetTheorems, TLAPS

\* What use_count and weak_count should be (but for the weak reference of all
\* the shared_ptrs together).
Uses(b)  == Cardinality(StrongOn(b)) + Cardinality(Pending(b, {"decUse"}))
Weaks(b) == Cardinality(WeakOn(b)) + Cardinality(Pending(b, {"decWeak"}))

\* Thread t puts x into its handle h and drops what h had: all calls that
\* assign to a handle, except for a move.
Swap(t, h, x) == /\ pc[t] \in {"idle", "lock"}
                 /\ owner[h] = t /\ owner' = owner
                 /\ pb' = [pb EXCEPT ![h] = x]
                 /\ Drop(t, h, pb[h])

(***************************************************************************)
(* How the sets of handles and of threads at a block change, and their     *)
(* sizes.                                                                  *)
(***************************************************************************)
LEMMA Sizes ==
  ASSUME NEW b
  PROVE  /\ IsFiniteSet(StrongOn(b)) /\ Cardinality(StrongOn(b)) \in Nat
         /\ IsFiniteSet(WeakOn(b)) /\ Cardinality(WeakOn(b)) \in Nat
         /\ \A P : /\ IsFiniteSet(Pending(b, P))
                   /\ Cardinality(Pending(b, P)) \in Nat
         /\ Uses(b) \in Nat /\ Weaks(b) \in Nat
  <1>1. /\ IsFiniteSet(StrongOn(b))
        /\ IsFiniteSet(WeakOn(b))
    <2>1. StrongOn(b) \subseteq Strong /\ WeakOn(b) \subseteq Weak
      BY DEF StrongOn, WeakOn
    <2>2. QED
      BY <2>1, PtrAssumption, FS_Subset
  <1>2. ASSUME NEW P
        PROVE  IsFiniteSet(Pending(b, P))
    <2>1. Pending(b, P) \subseteq Thread
      BY DEF Pending
    <2>2. QED
      BY <2>1, PtrAssumption, FS_Subset
  <1>3. /\ Cardinality(StrongOn(b)) \in Nat
        /\ Cardinality(WeakOn(b)) \in Nat
        /\ \A P : Cardinality(Pending(b, P)) \in Nat
    BY <1>1, <1>2, FS_CardinalityType
  <1>4. QED
    BY <1>1, <1>2, <1>3 DEF Uses, Weaks

\* A member more means a larger size, which is not 0.
LEMMA Grows ==
  ASSUME NEW S, IsFiniteSet(S), NEW x
  PROVE  /\ Cardinality(S \cup {x}) = Cardinality(S) + IF x \in S THEN 0 ELSE 1
         /\ Cardinality(S \ {x}) = Cardinality(S) - IF x \in S THEN 1 ELSE 0
         /\ x \in S => Cardinality(S) > 0
  <1>1. Cardinality(S) \in Nat /\ Cardinality(S \ {x}) \in Nat
    BY FS_RemoveElement, FS_CardinalityType
  <1>2. QED
    BY <1>1, FS_AddElement, FS_RemoveElement

LEMMA HandleMoves ==
  ASSUME TypeOK, NEW h \in Handle, NEW x, pb' = [pb EXCEPT ![h] = x],
         NEW b \in Block
  PROVE  /\ h \in Strong =>
              /\ StrongOn(b)' = IF x = b THEN StrongOn(b) \cup {h}
                                ELSE StrongOn(b) \ {h}
              /\ WeakOn(b)' = WeakOn(b)
         /\ h \in Weak =>
              /\ WeakOn(b)' = IF x = b THEN WeakOn(b) \cup {h}
                              ELSE WeakOn(b) \ {h}
              /\ StrongOn(b)' = StrongOn(b)
  BY PtrAssumption DEF TypeOK, Handle, StrongOn, WeakOn

LEMMA PendingMoves ==
  ASSUME TypeOK, NEW t \in Thread, NEW p, NEW c,
         pc' = [pc EXCEPT ![t] = p], at' = [at EXCEPT ![t] = c],
         NEW b \in Block, NEW P
  PROVE  Pending(b, P)' = IF c = b /\ p \in P THEN Pending(b, P) \cup {t}
                          ELSE Pending(b, P) \ {t}
  BY DEF TypeOK, Pending

\* Where the calls of a thread go on.
LEMMA DropMoves ==
  ASSUME TypeOK, NEW t \in Thread, NEW h \in Handle,
         NEW old \in Block \cup {None}, Drop(t, h, old)
  PROVE  /\ pc' = [pc EXCEPT ![t] = IF old = None THEN "idle"
                                    ELSE IF h \in Strong THEN "decUse"
                                    ELSE "decWeak"]
         /\ at' = [at EXCEPT ![t] = old]
         /\ loaded' = [loaded EXCEPT ![t] = 0]
  BY DEF Drop

LEMMA GoesOnMoves ==
  ASSUME TypeOK, NEW t \in Thread, NEW p, GoesOn(t, p)
  PROVE  /\ pc' = [pc EXCEPT ![t] = p]
         /\ at' = [at EXCEPT ![t] = IF p = "idle" THEN None ELSE at[t]]
         /\ loaded' = loaded
  BY DEF GoesOn, TypeOK

\* An assignment to a handle is one use more of what is put into it; the use
\* of what it had goes from the handle to the thread.
LEMMA SwapCounts ==
  ASSUME TypeOK, NEW t \in Thread, NEW h \in Handle,
         NEW x \in Block \cup {None}, Swap(t, h, x), NEW b \in Block
  PROVE  /\ Uses(b)' = Uses(b) + IF h \in Strong /\ x = b THEN 1 ELSE 0
         /\ Weaks(b)' = Weaks(b) + IF h \in Weak /\ x = b THEN 1 ELSE 0
         /\ \A P : P \cap {"idle", "lock", "decUse", "decWeak"} = {} =>
                      Pending(b, P)' = Pending(b, P)
  <1>1. PICK p : /\ p = IF pb[h] = None THEN "idle"
                        ELSE IF h \in Strong THEN "decUse" ELSE "decWeak"
                 /\ pc' = [pc EXCEPT ![t] = p]
                 /\ at' = [at EXCEPT ![t] = pb[h]]
    BY DropMoves DEF Swap, TypeOK
  <1>2. /\ pb' = [pb EXCEPT ![h] = x] /\ pb[h] \in Block \cup {None}
        /\ pc[t] \in {"idle", "lock"}
        /\ h \in Strong <=> h \notin Weak
        /\ b # None
    BY PtrAssumption DEF Swap, TypeOK, Handle
  <1>3. ASSUME NEW P, "idle" \notin P, "lock" \notin P
        PROVE  /\ t \notin Pending(b, P)
               /\ Pending(b, P)' = IF pb[h] = b /\ p \in P
                                   THEN Pending(b, P) \cup {t}
                                   ELSE Pending(b, P)
    <2>1. t \notin Pending(b, P)
      BY <1>2, <1>3 DEF Pending
    <2>2. Pending(b, P)' = IF pb[h] = b /\ p \in P THEN Pending(b, P) \cup {t}
                           ELSE Pending(b, P) \ {t}
      BY <1>1 DEF Pending, TypeOK
    <2>3. QED
      BY <2>1, <2>2
  <1>4. ASSUME NEW q \in {"decUse", "decWeak"}
        PROVE  Cardinality(Pending(b, {q})') =
                 Cardinality(Pending(b, {q})) + IF pb[h] = b /\ p = q THEN 1 ELSE 0
    <2>1. /\ t \notin Pending(b, {q})
          /\ Pending(b, {q})' = IF pb[h] = b /\ p \in {q}
                                THEN Pending(b, {q}) \cup {t}
                                ELSE Pending(b, {q})
      BY <1>3
    <2>2. Cardinality(Pending(b, {q}) \cup {t}) = Cardinality(Pending(b, {q})) + 1
      BY <2>1, Sizes, Grows
    <2>3. QED
      BY <2>1, <2>2, Sizes
  <1>5. /\ Cardinality(StrongOn(b) \cup {h}) =
             Cardinality(StrongOn(b)) + IF h \in StrongOn(b) THEN 0 ELSE 1
        /\ Cardinality(StrongOn(b) \ {h}) =
             Cardinality(StrongOn(b)) - IF h \in StrongOn(b) THEN 1 ELSE 0
        /\ Cardinality(WeakOn(b) \cup {h}) =
             Cardinality(WeakOn(b)) + IF h \in WeakOn(b) THEN 0 ELSE 1
        /\ Cardinality(WeakOn(b) \ {h}) =
             Cardinality(WeakOn(b)) - IF h \in WeakOn(b) THEN 1 ELSE 0
    BY Sizes, Grows
  <1>6. h \in Strong => /\ Cardinality(StrongOn(b)') =
                             Cardinality(StrongOn(b)) + (IF x = b THEN 1 ELSE 0)
                               - (IF pb[h] = b THEN 1 ELSE 0)
                        /\ WeakOn(b)' = WeakOn(b)
    <2> SUFFICES ASSUME h \in Strong
                 PROVE  /\ Cardinality(StrongOn(b)') =
                             Cardinality(StrongOn(b)) + (IF x = b THEN 1 ELSE 0)
                               - (IF pb[h] = b THEN 1 ELSE 0)
                        /\ WeakOn(b)' = WeakOn(b)
      OBVIOUS
    <2>1. h \in StrongOn(b) <=> pb[h] = b
      BY DEF StrongOn
    <2>2. /\ StrongOn(b)' = IF x = b THEN StrongOn(b) \cup {h}
                            ELSE StrongOn(b) \ {h}
          /\ WeakOn(b)' = WeakOn(b)
      BY <1>2, HandleMoves
    <2>3. QED
      BY <1>5, <2>1, <2>2, Sizes
  <1>7. h \in Weak => /\ Cardinality(WeakOn(b)') =
                           Cardinality(WeakOn(b)) + (IF x = b THEN 1 ELSE 0)
                             - (IF pb[h] = b THEN 1 ELSE 0)
                      /\ StrongOn(b)' = StrongOn(b)
    <2> SUFFICES ASSUME h \in Weak
                 PROVE  /\ Cardinality(WeakOn(b)') =
                             Cardinality(WeakOn(b)) + (IF x = b THEN 1 ELSE 0)
                               - (IF pb[h] = b THEN 1 ELSE 0)
                        /\ StrongOn(b)' = StrongOn(b)
      OBVIOUS
    <2>1. h \in WeakOn(b) <=> pb[h] = b
      BY DEF WeakOn
    <2>2. /\ WeakOn(b)' = IF x = b THEN WeakOn(b) \cup {h}
                          ELSE WeakOn(b) \ {h}
          /\ StrongOn(b)' = StrongOn(b)
      BY <1>2, HandleMoves
    <2>3. QED
      BY <1>5, <2>1, <2>2, Sizes
  <1>8. /\ Cardinality(Pending(b, {"decUse"})') =
             Cardinality(Pending(b, {"decUse"}))
               + IF h \in Strong /\ pb[h] = b THEN 1 ELSE 0
        /\ Cardinality(Pending(b, {"decWeak"})') =
             Cardinality(Pending(b, {"decWeak"}))
               + IF h \in Weak /\ pb[h] = b THEN 1 ELSE 0
    BY <1>1, <1>2, <1>4
  <1>9. /\ Uses(b)' = Uses(b) + IF h \in Strong /\ x = b THEN 1 ELSE 0
        /\ Weaks(b)' = Weaks(b) + IF h \in Weak /\ x = b THEN 1 ELSE 0
    BY <1>2, <1>6, <1>7, <1>8, Sizes DEF Uses, Weaks, Handle
  <1>10. ASSUME NEW P, P \cap {"idle", "lock", "decUse", "decWeak"} = {}
         PROVE  Pending(b, P)' = Pending(b, P)
    BY <1>1, <1>3, <1>10
  <1>11. QED
    BY <1>9, <1>10

\* A move is no use more: from handle to handle, and from handle to thread.
LEMMA MoveCounts ==
  ASSUME TypeOK, NEW t \in Thread, NEW h \in Handle, NEW g \in Handle,
         h \in Strong <=> g \in Strong, Move(t, h, g), NEW b \in Block
  PROVE  /\ Uses(b)' = Uses(b) /\ Weaks(b)' = Weaks(b)
         /\ \A P : P \cap {"idle", "decUse", "decWeak"} = {} =>
                      Pending(b, P)' = Pending(b, P)
  <1>1. CASE h = g
    <2>1. /\ pb' = pb /\ pc' = pc /\ at' = at
      BY <1>1, DropMoves DEF Move, Holds, TypeOK
    <2>2. QED
      BY <2>1 DEF Uses, Weaks, StrongOn, WeakOn, Pending
  <1>2. CASE h # g
    <2>1. PICK p : /\ p = IF pb[h] = None THEN "idle"
                          ELSE IF h \in Strong THEN "decUse" ELSE "decWeak"
                   /\ pc' = [pc EXCEPT ![t] = p]
                   /\ at' = [at EXCEPT ![t] = pb[h]]
      BY <1>2, DropMoves DEF Move, TypeOK
    <2>2. /\ pb' = [pb EXCEPT ![g] = None, ![h] = pb[g]]
          /\ pc[t] = "idle" /\ b # None
          /\ h \in Strong <=> h \notin Weak
          /\ g \in Strong <=> g \notin Weak
      BY PtrAssumption DEF Move, Holds, TypeOK, Handle
    <2>3. ASSUME NEW P, "idle" \notin P
          PROVE  /\ t \notin Pending(b, P)
                 /\ Pending(b, P)' = IF pb[h] = b /\ p \in P
                                     THEN Pending(b, P) \cup {t}
                                     ELSE Pending(b, P)
      BY <2>1, <2>2, <2>3 DEF TypeOK, Pending
    <2>4. ASSUME NEW q \in {"decUse", "decWeak"}
          PROVE  Cardinality(Pending(b, {q})') = Cardinality(Pending(b, {q}))
                   + IF pb[h] = b /\ p = q THEN 1 ELSE 0
      <3>1. /\ t \notin Pending(b, {q})
            /\ Pending(b, {q})' = IF pb[h] = b /\ p \in {q}
                                  THEN Pending(b, {q}) \cup {t}
                                  ELSE Pending(b, {q})
        BY <2>3
      <3>2. Cardinality(Pending(b, {q}) \cup {t}) = Cardinality(Pending(b, {q})) + 1
        BY <3>1, Sizes, Grows
      <3>3. QED
        BY <3>1, <3>2, Sizes
    <2>5. ASSUME NEW K \in {Strong, Weak}, h \in K, g \in K
          PROVE  Cardinality({k \in K : pb'[k] = b}) =
                   Cardinality({k \in K : pb[k] = b})
                     - IF pb[h] = b THEN 1 ELSE 0
      <3> DEFINE S == {k \in K : pb[k] = b}
      <3>1. /\ h \in S <=> pb[h] = b
            /\ g \in S <=> pb[g] = b
            /\ {k \in K : pb'[k] = b} = IF pb[g] = b THEN (S \cup {h}) \ {g}
                                        ELSE S \ {h}
        BY <1>2, <2>2, <2>5 DEF TypeOK, Handle
      <3>2. IsFiniteSet(S) /\ Cardinality(S) \in Nat
        BY PtrAssumption, FS_Subset, FS_CardinalityType
      <3> HIDE DEF S
      <3>3. /\ IsFiniteSet(S \cup {h}) /\ Cardinality(S \cup {h}) \in Nat
            /\ Cardinality(S \cup {h}) = Cardinality(S) + IF h \in S THEN 0 ELSE 1
        BY <3>2, FS_AddElement, FS_CardinalityType
      <3>4. Cardinality(S \ {h}) = Cardinality(S) - IF h \in S THEN 1 ELSE 0
        BY <3>2, Grows
      <3>5. g \in S => Cardinality((S \cup {h}) \ {g}) = Cardinality(S \cup {h}) - 1
        <4>1. Cardinality((S \cup {h}) \ {g}) =
                Cardinality(S \cup {h}) - IF g \in S \cup {h} THEN 1 ELSE 0
          BY <3>3, Grows
        <4>2. QED
          BY <4>1
      <3>6. CASE pb[g] = b
        <4>1. Cardinality({k \in K : pb'[k] = b}) = Cardinality(S \cup {h}) - 1
          BY <3>1, <3>5, <3>6
        <4>2. QED
          BY <3>1, <3>2, <3>3, <4>1 DEF S
      <3>7. CASE pb[g] # b
        BY <3>1, <3>2, <3>4, <3>7 DEF S
      <3>8. QED
        BY <3>6, <3>7
    <2>6. h \in Strong => /\ Cardinality(StrongOn(b)') =
                               Cardinality(StrongOn(b)) - IF pb[h] = b THEN 1 ELSE 0
                          /\ WeakOn(b)' = WeakOn(b)
      BY <2>2, <2>5 DEF TypeOK, Handle, StrongOn, WeakOn
    <2>7. h \in Weak => /\ Cardinality(WeakOn(b)') =
                             Cardinality(WeakOn(b)) - IF pb[h] = b THEN 1 ELSE 0
                        /\ StrongOn(b)' = StrongOn(b)
      BY <2>2, <2>5 DEF TypeOK, Handle, StrongOn, WeakOn
    <2>8. /\ Cardinality(Pending(b, {"decUse"})') =
               Cardinality(Pending(b, {"decUse"}))
                 + IF h \in Strong /\ pb[h] = b THEN 1 ELSE 0
          /\ Cardinality(Pending(b, {"decWeak"})') =
               Cardinality(Pending(b, {"decWeak"}))
                 + IF h \in Weak /\ pb[h] = b THEN 1 ELSE 0
      BY <2>1, <2>2, <2>4
    <2>9. Uses(b)' = Uses(b) /\ Weaks(b)' = Weaks(b)
      BY <2>2, <2>6, <2>7, <2>8, Sizes DEF Uses, Weaks, Handle
    <2>10. ASSUME NEW P, P \cap {"idle", "decUse", "decWeak"} = {}
           PROVE  Pending(b, P)' = Pending(b, P)
      BY <2>1, <2>3, <2>10
    <2>11. QED
      BY <2>9, <2>10
  <1>3. QED
    BY <1>1, <1>2

\* A thread that counts down leaves the threads that are about to.
LEMMA DownCounts ==
  ASSUME TypeOK, NEW t \in Thread, NEW q \in {"decUse", "decWeak"}, pc[t] = q,
         NEW p \in {"idle", "dispose", "destroy"}, GoesOn(t, p), pb' = pb,
         NEW b \in Block
  PROVE  /\ Uses(b)' = Uses(b) - IF b = at[t] /\ q = "decUse" THEN 1 ELSE 0
         /\ Weaks(b)' = Weaks(b) - IF b = at[t] /\ q = "decWeak" THEN 1 ELSE 0
         /\ at[t] = b /\ q = "decUse" => Uses(b) > 0
         /\ at[t] = b /\ q = "decWeak" => Weaks(b) > 0
  <1>1. /\ pc' = [pc EXCEPT ![t] = p]
        /\ at' = [at EXCEPT ![t] = IF p = "idle" THEN None ELSE at[t]]
    BY GoesOnMoves
  <1>2. ASSUME NEW r \in {"decUse", "decWeak"}
        PROVE  /\ Pending(b, {r})' = Pending(b, {r}) \ {t}
               /\ t \in Pending(b, {r}) <=> b = at[t] /\ q = r
    BY <1>1 DEF TypeOK, Pending
  <1>3. ASSUME NEW r \in {"decUse", "decWeak"}
        PROVE  /\ Cardinality(Pending(b, {r})') = Cardinality(Pending(b, {r}))
                    - IF b = at[t] /\ q = r THEN 1 ELSE 0
               /\ b = at[t] /\ q = r => Cardinality(Pending(b, {r})) > 0
    <2> DEFINE S == Pending(b, {r})
    <2>1. /\ S' = S \ {t}
          /\ t \in S <=> b = at[t] /\ q = r
      BY <1>2
    <2>2. IsFiniteSet(S) /\ Cardinality(S) \in Nat
      BY Sizes
    <2> HIDE DEF S
    <2>3. /\ Cardinality(S \ {t}) = Cardinality(S) - IF t \in S THEN 1 ELSE 0
          /\ t \in S => Cardinality(S) > 0
      BY <2>2, Grows
    <2>4. /\ Cardinality(S') = Cardinality(S) - IF b = at[t] /\ q = r THEN 1 ELSE 0
          /\ b = at[t] /\ q = r => Cardinality(S) > 0
      BY <2>1, <2>3
    <2>5. QED
      BY <2>4 DEF S
  <1>4. StrongOn(b)' = StrongOn(b) /\ WeakOn(b)' = WeakOn(b)
    BY DEF StrongOn, WeakOn
  <1>5. QED
    BY <1>3, <1>4, Sizes DEF Uses, Weaks

-----------------------------------------------------------------------------
(***************************************************************************)
(* The counts.  Safe is the part of the invariant that does not need the   *)
(* memory model, and Sound what is proved of it step by step.              *)
(***************************************************************************)
Sound == CountsExact /\ NoUseAfterFree /\ Dying /\ ZeroLasts
Safe  == TypeOK /\ Sound

\* What the provers have to know of a block.
LEMMA BlockFacts ==
  ASSUME Safe, NEW b \in Block
  PROVE  /\ b # None
         /\ use[b] \in Nat /\ weak[b] \in Nat
         /\ life[b] \in {"live", "disposed", "free"}
         /\ life[b] # "free" =>
              /\ use[b] = Uses(b)
              /\ weak[b] = Weaks(b) + IF life[b] = "live" THEN 1 ELSE 0
         /\ life[b] = "free" =>
              /\ StrongOn(b) = {} /\ WeakOn(b) = {}
              /\ \A P : Pending(b, P) = {}
              /\ Uses(b) = 0 /\ Weaks(b) = 0
         /\ StrongOn(b) # {} => use[b] > 0
         /\ WeakOn(b) # {} => weak[b] > 0
         /\ life[b] = "live" => weak[b] > 0
  <1>1. /\ b # None
        /\ use[b] \in Nat /\ weak[b] \in Nat
        /\ life[b] \in {"live", "disposed", "free"}
    BY PtrAssumption DEF Safe, TypeOK
  <1>2. life[b] # "free" =>
          /\ use[b] = Uses(b)
          /\ weak[b] = Weaks(b) + IF life[b] = "live" THEN 1 ELSE 0
    BY Sizes DEF Safe, Sound, CountsExact, Uses, Weaks
  <1>3. ASSUME life[b] = "free"
        PROVE  /\ StrongOn(b) = {} /\ WeakOn(b) = {}
               /\ \A P : Pending(b, P) = {}
    BY <1>1, <1>3 DEF Safe, Sound, NoUseAfterFree, TypeOK, StrongOn, WeakOn, Pending
  <1>4. life[b] = "free" => Uses(b) = 0 /\ Weaks(b) = 0
    BY <1>3, FS_EmptySet DEF Uses, Weaks
  <1>5. StrongOn(b) # {} => Uses(b) > 0
    <2>1. StrongOn(b) # {} => Cardinality(StrongOn(b)) # 0
      BY Sizes, FS_EmptySet
    <2>2. QED
      BY <2>1, Sizes DEF Uses
  <1>6. WeakOn(b) # {} => Weaks(b) > 0
    <2>1. WeakOn(b) # {} => Cardinality(WeakOn(b)) # 0
      BY Sizes, FS_EmptySet
    <2>2. QED
      BY <2>1, Sizes DEF Weaks
  <1>7. QED
    BY <1>1, <1>2, <1>3, <1>4, <1>5, <1>6, Sizes

\* What a handle that is not null says of its block, ...
LEMMA HandleFacts ==
  ASSUME Safe, NEW g \in Handle, pb[g] # None
  PROVE  /\ pb[g] \in Block /\ life[pb[g]] # "free" /\ weak[pb[g]] > 0
         /\ g \in Strong => life[pb[g]] = "live" /\ use[pb[g]] > 0
  <1>1. /\ pb[g] \in Block
        /\ g \in Strong => life[pb[g]] = "live"
        /\ g \in Weak => life[pb[g]] # "free"
    BY DEF Safe, Sound, NoUseAfterFree, TypeOK
  <1>2. /\ g \in Strong => StrongOn(pb[g]) # {}
        /\ g \in Weak => WeakOn(pb[g]) # {}
    BY DEF StrongOn, WeakOn
  <1>3. QED
    BY <1>1, <1>2, BlockFacts DEF Handle

\* ... the compare_exchange that succeeds: it cannot bring a disposed object
\* back to life, ...
LEMMA LockFacts ==
  ASSUME Safe, NEW t \in Thread, pc[t] = "lock", loaded[t] # 0,
         use[at[t]] = loaded[t]
  PROVE  at[t] \in Block /\ use[at[t]] > 0 /\ life[at[t]] = "live"
  <1>1. at[t] \in Block /\ life[at[t]] # "free"
    BY DEF Safe, Sound, NoUseAfterFree, TypeOK
  <1>2. QED
    BY <1>1 DEF Safe, Sound, Dying, TypeOK

\* ... and a thread that is about to count down.
LEMMA DropFacts ==
  ASSUME Safe, NEW t \in Thread
  PROVE  /\ pc[t] = "decUse" => /\ at[t] \in Block /\ life[at[t]] = "live"
                                /\ use[at[t]] \in Nat /\ use[at[t]] > 0
         /\ pc[t] = "decWeak" => /\ at[t] \in Block /\ life[at[t]] # "free"
                                 /\ weak[at[t]] \in Nat /\ weak[at[t]] > 0
  <1>1. ASSUME pc[t] = "decUse"
        PROVE  /\ at[t] \in Block /\ life[at[t]] = "live"
               /\ use[at[t]] \in Nat /\ use[at[t]] > 0
    <2>1. at[t] \in Block /\ life[at[t]] = "live" /\ t \in Pending(at[t], {"decUse"})
      BY <1>1 DEF Safe, Sound, Dying, TypeOK, Pending
    <2>2. Cardinality(Pending(at[t], {"decUse"})) > 0
      BY <2>1, Sizes, Grows
    <2>3. Uses(at[t]) > 0
      BY <2>2, Sizes DEF Uses
    <2>4. QED
      BY <2>1, <2>3, BlockFacts
  <1>2. ASSUME pc[t] = "decWeak"
        PROVE  /\ at[t] \in Block /\ life[at[t]] # "free"
               /\ weak[at[t]] \in Nat /\ weak[at[t]] > 0
    <2>1. at[t] \in Block /\ life[at[t]] # "free" /\ t \in Pending(at[t], {"decWeak"})
      BY <1>2 DEF Safe, Sound, NoUseAfterFree, TypeOK, Pending
    <2>2. Cardinality(Pending(at[t], {"decWeak"})) > 0
      BY <2>1, Sizes, Grows
    <2>3. Weaks(at[t]) > 0
      BY <2>2, Sizes DEF Weaks
    <2>4. QED
      BY <2>1, <2>3, BlockFacts, Sizes
  <1>3. QED
    BY <1>1, <1>2

\* What an assignment to h does to the counts of what it puts into h: a new
\* block, one more shared_ptr or one more weak_ptr on an old one, or null.
Fresh(h, x) == /\ h \in Strong
               /\ life[x] = "free"
               /\ life' = [life EXCEPT ![x] = "live"]
               /\ use' = [use EXCEPT ![x] = 1]
               /\ weak' = [weak EXCEPT ![x] = 1]
               /\ past' = [past EXCEPT ![x] = {1}]
Shared(h, x) == /\ h \in Strong
                /\ life[x] = "live" /\ use[x] > 0
                /\ Counted(x, use[x] + 1)
                /\ UNCHANGED <<life, weak>>
Watched(h, x) == /\ h \in Weak
                 /\ life[x] # "free" /\ weak[x] > 0
                 /\ weak' = [weak EXCEPT ![x] = @ + 1]
                 /\ UNCHANGED <<life, use, past>>
Nothing(x) == x = None /\ UNCHANGED <<counts, life>>

LEMMA SwapSound ==
  ASSUME Safe, NEW t \in Thread, NEW h \in Handle, NEW x \in Block \cup {None},
         Swap(t, h, x),
         \/ x \in Block /\ (Fresh(h, x) \/ Shared(h, x) \/ Watched(h, x))
         \/ Nothing(x)
  PROVE  Sound'
  <1>1. PICK p : /\ p = IF pb[h] = None THEN "idle"
                        ELSE IF h \in Strong THEN "decUse" ELSE "decWeak"
                 /\ pc' = [pc EXCEPT ![t] = p]
                 /\ at' = [at EXCEPT ![t] = pb[h]]
                 /\ loaded' = [loaded EXCEPT ![t] = 0]
    BY DropMoves DEF Swap, Safe, TypeOK
  <1>2. /\ pb' = [pb EXCEPT ![h] = x] /\ pb[h] \in Block \cup {None}
        /\ pc[t] \in {"idle", "lock"} /\ owner[h] = t /\ owner' = owner
        /\ h \in Strong <=> h \notin Weak
        /\ None \notin Block
    BY PtrAssumption DEF Swap, Safe, TypeOK, Handle
  <1>3. ASSUME NEW b \in Block
        PROVE  /\ b # x => /\ use'[b] = use[b] /\ weak'[b] = weak[b]
                           /\ past'[b] = past[b] /\ life'[b] = life[b]
               /\ life'[b] = life[b] \/ (b = x /\ life[b] = "free" /\ life'[b] = "live")
               /\ life[b] # "free" => /\ use[b] = 0 => use'[b] = 0
                                      /\ weak[b] = 0 => weak'[b] = 0
                                      /\ use'[b] \in Nat /\ use'[b] >= use[b]
                                      /\ weak'[b] \in Nat /\ weak'[b] >= weak[b]
                                      /\ past[b] \subseteq past'[b]
               /\ 0 \in past'[b] => 0 \in past[b]
    BY <1>2, BlockFacts DEF Fresh, Shared, Watched, Nothing, Counted, counts, Safe, TypeOK
  <1>4. CountsExact'
    <2> SUFFICES ASSUME NEW b \in Block, life'[b] # "free"
                 PROVE  /\ use'[b] = Uses(b)'
                        /\ weak'[b] = Weaks(b)' + IF life'[b] = "live" THEN 1 ELSE 0
      BY Sizes DEF CountsExact, Uses, Weaks
    <2>1. /\ Uses(b)' = Uses(b) + IF h \in Strong /\ x = b THEN 1 ELSE 0
          /\ Weaks(b)' = Weaks(b) + IF h \in Weak /\ x = b THEN 1 ELSE 0
      BY SwapCounts DEF Safe
    <2>2. CASE x = b
      <3>1. CASE Fresh(h, x)
        BY <1>2, <2>1, <2>2, <3>1, BlockFacts, Sizes DEF Fresh, Safe, TypeOK
      <3>2. CASE Shared(h, x)
        BY <1>2, <2>1, <2>2, <3>2, BlockFacts, Sizes DEF Shared, Counted, Safe, TypeOK
      <3>3. CASE Watched(h, x)
        BY <1>2, <2>1, <2>2, <3>3, BlockFacts, Sizes DEF Watched, Safe, TypeOK
      <3>4. QED
        BY <1>2, <2>2, <3>1, <3>2, <3>3 DEF Nothing
    <2>3. CASE x # b
      BY <1>3, <2>1, <2>3, BlockFacts, Sizes
    <2>4. QED
      BY <2>2, <2>3
  <1>5. ASSUME NEW u \in Thread, u # t
        PROVE  /\ pc'[u] = pc[u] /\ at'[u] = at[u] /\ loaded'[u] = loaded[u]
               /\ pc[u] # "idle" => at[u] \in Block /\ life[at[u]] # "free"
    BY <1>1, <1>5 DEF Safe, Sound, TypeOK, NoUseAfterFree
  <1>6. /\ pc'[t] = p /\ at'[t] = pb[h]
        /\ p = "decUse" => pb[h] \in Block /\ life[pb[h]] = "live"
        /\ p = "decWeak" => pb[h] \in Block /\ life[pb[h]] # "free"
        /\ p \in {"idle", "decUse", "decWeak"}
    BY <1>1, <1>2 DEF Safe, Sound, TypeOK, NoUseAfterFree, Handle
  <1>7. ASSUME NEW b \in Block, NEW P,
               P \cap {"idle", "lock", "decUse", "decWeak"} = {}
        PROVE  Pending(b, P)' = Pending(b, P)
    BY <1>7, SwapCounts DEF Safe
  <1>8. NoUseAfterFree'
    <2>1. \A k \in Strong : pb'[k] # None => life'[pb'[k]] = "live"
      <3> SUFFICES ASSUME NEW k \in Strong, pb'[k] # None
                   PROVE  life'[pb'[k]] = "live"
        OBVIOUS
      <3>1. CASE k = h
        BY <1>2, <1>3, <3>1 DEF Fresh, Shared, Watched, Nothing, Safe, TypeOK
      <3>2. CASE k # h
        BY <1>2, <1>3, <3>2 DEF Safe, Sound, NoUseAfterFree, TypeOK, Handle
      <3>3. QED
        BY <3>1, <3>2
    <2>2. \A w \in Weak : pb'[w] # None => life'[pb'[w]] # "free"
      <3> SUFFICES ASSUME NEW w \in Weak, pb'[w] # None
                   PROVE  life'[pb'[w]] # "free"
        OBVIOUS
      <3>1. CASE w = h
        BY <1>2, <1>3, <3>1 DEF Fresh, Shared, Watched, Nothing, Safe, TypeOK
      <3>2. CASE w # h
        BY <1>2, <1>3, <3>2 DEF Safe, Sound, NoUseAfterFree, TypeOK, Handle
      <3>3. QED
        BY <3>1, <3>2
    <2>3. \A u \in Thread : pc'[u] # "idle" => life'[at'[u]] # "free"
      BY <1>3, <1>5, <1>6
    <2>4. ASSUME NEW u \in Thread, pc'[u] = "dispose"
          PROVE  life'[at'[u]] = "live" /\ Pending(at[u], {"dispose"})' = {u}
      <3>1. PICK b \in Block : b = at[u] /\ b = at'[u] /\ life[b] = "live"
                               /\ Pending(b, {"dispose"}) = {u}
        BY <1>5, <1>6, <2>4 DEF Safe, Sound, NoUseAfterFree
      <3>2. life'[b] = "live" /\ Pending(b, {"dispose"})' = {u}
        BY <1>3, <1>7, <3>1
      <3>3. QED
        BY <3>1, <3>2 DEF Pending
    <2>5. ASSUME NEW u \in Thread, pc'[u] = "destroy"
          PROVE  /\ life'[at'[u]] = "disposed"
                 /\ Pending(at[u], {"lock", "destroy"})' = {u}
      <3>1. PICK b \in Block : b = at[u] /\ b = at'[u] /\ life[b] = "disposed"
                               /\ Pending(b, {"lock", "destroy"}) = {u}
        BY <1>5, <1>6, <2>5 DEF Safe, Sound, NoUseAfterFree
      <3>2. u # t /\ t \notin Pending(b, {"lock", "destroy"})
        BY <1>6, <2>5, <3>1
      <3>3. Pending(b, {"lock", "destroy"})' = {u}
        BY <1>5, <1>6, <3>1, <3>2 DEF Pending
      <3>4. QED
        BY <1>3, <3>1, <3>3 DEF Pending
    <2>6. QED
      BY <2>1, <2>2, <2>3, <2>4, <2>5 DEF NoUseAfterFree
  <1>9. Dying'
    <2>1. ASSUME NEW u \in Thread
          PROVE  /\ pc'[u] = "decUse" => life'[at'[u]] = "live"
                 /\ pc'[u] = "dispose" => use'[at'[u]] = 0
                 /\ pc'[u] = "destroy" => weak'[at'[u]] = 0
      BY <1>3, <1>5, <1>6 DEF Safe, Sound, Dying
    <2>2. ASSUME NEW u \in Thread, pc'[u] = "lock"
          PROVE  \E w \in Weak : pb'[w] = at'[u] /\ owner'[w] = u
      <3>1. u # t /\ pc[u] = "lock" /\ at'[u] = at[u]
        BY <1>5, <1>6, <2>2
      <3>2. PICK w \in Weak : pb[w] = at[u] /\ owner[w] = u
        BY <3>1 DEF Safe, Sound, Dying
      <3>3. w # h /\ w \in Handle
        BY <1>2, <3>1, <3>2 DEF Handle
      <3>4. QED
        BY <1>2, <3>1, <3>2, <3>3 DEF Safe, TypeOK
    <2>3. ASSUME NEW b \in Block
          PROVE  /\ life'[b] = "live" /\ use'[b] = 0 => Pending(b, {"dispose"})' # {}
                 /\ life'[b] = "disposed" => use'[b] = 0
                 /\ life'[b] = "disposed" /\ weak'[b] = 0 =>
                      Pending(b, {"destroy"})' # {}
      <3>1. /\ Pending(b, {"dispose"})' = Pending(b, {"dispose"})
            /\ Pending(b, {"destroy"})' = Pending(b, {"destroy"})
        BY <1>7
      <3>2. life'[b] = "live" /\ use'[b] = 0 => life[b] = "live" /\ use[b] = 0
        BY <1>2, <1>3, BlockFacts DEF Fresh, Shared, Watched, Nothing, Safe, TypeOK
      <3>3. QED
        BY <1>3, <3>1, <3>2, BlockFacts DEF Safe, Sound, Dying
    <2>4. QED
      BY <2>1, <2>2, <2>3 DEF Dying
  <1>10. ZeroLasts'
    <2>1. ASSUME NEW b \in Block, 0 \in past'[b]
          PROVE  use'[b] = 0
      BY <1>2, <1>3, <2>1, BlockFacts
         DEF Safe, Sound, ZeroLasts, Fresh, Shared, Watched, Nothing, Counted,
             counts, TypeOK
    <2>2. ASSUME NEW u \in Thread, pc'[u] = "lock"
          PROVE  loaded'[u] \in past'[at'[u]]
      BY <1>3, <1>5, <1>6, <2>2 DEF Safe, Sound, ZeroLasts
    <2>3. QED
      BY <2>1, <2>2 DEF ZeroLasts
  <1>11. QED
    BY <1>4, <1>8, <1>9, <1>10 DEF Sound

LEMMA MoveSound ==
  ASSUME Safe, NEW t \in Thread, NEW h \in Handle, NEW g \in Handle,
         h \in Strong <=> g \in Strong, Move(t, h, g)
  PROVE  Sound'
  <1>1. PICK p, c : /\ p \in {"idle", "decUse", "decWeak"}
                    /\ c \in {None, pb[h]}
                    /\ c = None <=> p = "idle"
                    /\ p = "decUse" => h \in Strong
                    /\ p = "decWeak" => h \in Weak
                    /\ pc' = [pc EXCEPT ![t] = p]
                    /\ at' = [at EXCEPT ![t] = c]
    <2>1. (IF h = g THEN None ELSE pb[h]) \in Block \cup {None}
      BY DEF Safe, TypeOK
    <2>2. QED
      BY <2>1, DropMoves DEF Move, Safe, TypeOK, Handle
  <1>2. /\ pb' = [pb EXCEPT ![g] = None, ![h] = pb[g]]
        /\ UNCHANGED <<owner, use, weak, past, life>>
        /\ pc[t] = "idle" /\ owner[h] = t /\ owner[g] = t
        /\ h \in Strong <=> h \notin Weak
        /\ g \in Strong <=> g \notin Weak
        /\ loaded' = [loaded EXCEPT ![t] = 0]
    BY PtrAssumption DEF Move, Drop, Holds, Handle, handles, counts
  <1>3. CountsExact'
    <2> SUFFICES ASSUME NEW b \in Block, life[b] # "free"
                 PROVE  /\ use[b] = Uses(b)'
                        /\ weak[b] = Weaks(b)' + IF life[b] = "live" THEN 1 ELSE 0
      BY <1>2, Sizes DEF CountsExact, Uses, Weaks
    <2>1. QED
      BY BlockFacts, MoveCounts DEF Safe
  <1>4. ASSUME NEW u \in Thread, u # t
        PROVE  pc'[u] = pc[u] /\ at'[u] = at[u] /\ loaded'[u] = loaded[u]
    BY <1>1, <1>2, <1>4 DEF Safe, TypeOK
  <1>5. /\ pc'[t] = p /\ at'[t] = c
        /\ p = "decUse" => c \in Block /\ life[c] = "live"
        /\ p = "decWeak" => c \in Block /\ life[c] # "free"
    BY <1>1, <1>2, BlockFacts DEF Safe, Sound, TypeOK, NoUseAfterFree, Handle
  <1>6. ASSUME NEW b \in Block, NEW P, P \cap {"idle", "decUse", "decWeak"} = {}
        PROVE  Pending(b, P)' = Pending(b, P)
    BY <1>6, MoveCounts DEF Safe
  <1>7. NoUseAfterFree'
    <2>1. /\ \A k \in Strong : pb'[k] # None => life[pb'[k]] = "live"
          /\ \A w \in Weak : pb'[w] # None => life[pb'[w]] # "free"
      BY <1>2 DEF Safe, Sound, NoUseAfterFree, TypeOK, Handle
    <2>2. \A u \in Thread : pc'[u] # "idle" => life[at'[u]] # "free"
      BY <1>1, <1>4, <1>5 DEF Safe, Sound, NoUseAfterFree
    <2>3. ASSUME NEW u \in Thread, pc'[u] = "dispose"
          PROVE  life[at'[u]] = "live" /\ Pending(at[u], {"dispose"})' = {u}
      <3>1. PICK b \in Block : b = at[u] /\ b = at'[u] /\ life[b] = "live"
                               /\ Pending(b, {"dispose"}) = {u}
        BY <1>1, <1>4, <1>5, <2>3 DEF Safe, Sound, NoUseAfterFree, TypeOK
      <3>2. Pending(b, {"dispose"})' = {u}
        BY <1>6, <3>1
      <3>3. QED
        BY <3>1, <3>2 DEF Pending
    <2>4. ASSUME NEW u \in Thread, pc'[u] = "destroy"
          PROVE  /\ life[at'[u]] = "disposed"
                 /\ Pending(at[u], {"lock", "destroy"})' = {u}
      <3>1. PICK b \in Block : b = at[u] /\ b = at'[u] /\ life[b] = "disposed"
                               /\ Pending(b, {"lock", "destroy"}) = {u}
        BY <1>1, <1>4, <1>5, <2>4 DEF Safe, Sound, NoUseAfterFree, TypeOK
      <3>2. Pending(b, {"lock", "destroy"})' = {u}
        BY <1>6, <3>1
      <3>3. QED
        BY <3>1, <3>2 DEF Pending
    <2>5. QED
      BY <1>2, <2>1, <2>2, <2>3, <2>4 DEF NoUseAfterFree
  <1>8. Dying'
    <2>1. ASSUME NEW u \in Thread
          PROVE  /\ pc'[u] = "decUse" => life[at'[u]] = "live"
                 /\ pc'[u] = "dispose" => use[at'[u]] = 0
                 /\ pc'[u] = "destroy" => weak[at'[u]] = 0
      BY <1>1, <1>4, <1>5 DEF Safe, Sound, Dying
    <2>2. ASSUME NEW u \in Thread, pc'[u] = "lock"
          PROVE  \E w \in Weak : pb'[w] = at'[u] /\ owner[w] = u
      <3>1. u # t /\ pc[u] = "lock" /\ at'[u] = at[u]
        BY <1>1, <1>4, <1>5, <2>2
      <3>2. PICK w \in Weak : pb[w] = at[u] /\ owner[w] = u
        BY <3>1 DEF Safe, Sound, Dying
      <3>3. w # h /\ w # g /\ w \in Handle
        BY <1>2, <3>1, <3>2 DEF Handle
      <3>4. QED
        BY <1>2, <3>1, <3>2, <3>3 DEF Safe, TypeOK
    <2>3. ASSUME NEW b \in Block
          PROVE  /\ life[b] = "live" /\ use[b] = 0 => Pending(b, {"dispose"})' # {}
                 /\ life[b] = "disposed" => use[b] = 0
                 /\ life[b] = "disposed" /\ weak[b] = 0 =>
                      Pending(b, {"destroy"})' # {}
      <3>1. /\ Pending(b, {"dispose"})' = Pending(b, {"dispose"})
            /\ Pending(b, {"destroy"})' = Pending(b, {"destroy"})
        BY <1>6
      <3>2. QED
        BY <3>1 DEF Safe, Sound, Dying
    <2>4. QED
      BY <1>2, <2>1, <2>2, <2>3 DEF Dying
  <1>9. ZeroLasts'
    BY <1>1, <1>2, <1>4, <1>5 DEF Safe, Sound, ZeroLasts
  <1>10. QED
    BY <1>3, <1>7, <1>8, <1>9 DEF Sound

\* The object is used, or a handle goes to another thread: no call changes.
LEMMA UseSound ==
  ASSUME Safe, NEW t \in Thread, NEW h \in Handle,
         \/ Use(t, h)
         \/ \E u \in Thread \ {t} : HandOver(t, u, h)
  PROVE  Sound'
  <1>1. /\ UNCHANGED <<pb, use, weak, past, life, pc, at, loaded>>
        /\ pc[t] = "idle" /\ owner[h] = t
        /\ owner' = owner \/ \E u \in Thread : owner' = [owner EXCEPT ![h] = u]
    BY DEF Use, HandOver, Holds, handles, counts, calls
  <1>2. CountsExact' /\ NoUseAfterFree' /\ ZeroLasts'
    <2>1. CountsExact'
      BY <1>1 DEF Safe, Sound, CountsExact, StrongOn, WeakOn, Pending
    <2>2. NoUseAfterFree'
      BY <1>1 DEF Safe, Sound, NoUseAfterFree, Pending
    <2>3. ZeroLasts'
      BY <1>1 DEF Safe, Sound, ZeroLasts
    <2>4. QED
      BY <2>1, <2>2, <2>3
  <1>3. ASSUME NEW u \in Thread, pc[u] = "lock"
        PROVE  \E w \in Weak : pb[w] = at[u] /\ owner'[w] = u
    <2>1. PICK w \in Weak : pb[w] = at[u] /\ owner[w] = u
      BY <1>3 DEF Safe, Sound, Dying
    <2>2. w # h /\ w \in Handle
      BY <1>1, <1>3, <2>1 DEF Handle
    <2>3. QED
      BY <1>1, <2>1, <2>2 DEF Safe, TypeOK
  <1>4. Dying'
    BY <1>1, <1>3 DEF Safe, Sound, Dying, Pending
  <1>5. QED
    BY <1>2, <1>4 DEF Sound

\* lock () loads use_count, for the first time or again: the counts do not
\* change, and no block that the thread has a weak_ptr to is being destroyed.
LEMMA LoadSound ==
  ASSUME Safe, NEW t \in Thread,
         LockRetry(t) \/ \E w \in Weak : LockLoad(t, w)
  PROVE  Sound'
  <1>1. PICK b \in Block :
          /\ \E w \in Weak : pb[w] = b /\ owner[w] = t
          /\ pc' = [pc EXCEPT ![t] = "lock"]
          /\ at' = [at EXCEPT ![t] = b]
          /\ \E n \in past[b] : loaded' = [loaded EXCEPT ![t] = n]
          /\ pc[t] = "idle" \/ (pc[t] = "lock" /\ at[t] = b)
    <2>1. CASE LockRetry(t)
      <3>1. /\ pc[t] = "lock" /\ pc' = pc /\ at' = at
            /\ \E n \in past[at[t]] : loaded' = [loaded EXCEPT ![t] = n]
        BY <2>1 DEF LockRetry
      <3>2. at[t] \in Block /\ \E w \in Weak : pb[w] = at[t] /\ owner[w] = t
        BY <3>1 DEF Safe, TypeOK, Sound, Dying
      <3>3. /\ pc' = [pc EXCEPT ![t] = "lock"]
            /\ at' = [at EXCEPT ![t] = at[t]]
        BY <3>1 DEF Safe, TypeOK
      <3>4. QED
        BY <3>1, <3>2, <3>3
    <2>2. CASE \E w \in Weak : LockLoad(t, w)
      <3>1. PICK w \in Weak : LockLoad(t, w)
        BY <2>2
      <3>2. w \in Handle
        BY DEF Handle
      <3>3. QED
        BY <3>1, <3>2 DEF LockLoad, Holds, Safe, TypeOK
    <2>3. QED
      BY <2>1, <2>2
  <1>2. UNCHANGED <<pb, owner, use, weak, past, life>>
    BY DEF LockRetry, LockLoad, handles, counts
  <1>3. WeakOn(b) # {} /\ weak[b] > 0 /\ life[b] # "free"
    <2>1. WeakOn(b) # {}
      BY <1>1 DEF WeakOn
    <2>2. QED
      BY <2>1, BlockFacts
  <1>4. ASSUME NEW P, NEW c \in Block
        PROVE  Pending(c, P)' = IF b = c /\ "lock" \in P THEN Pending(c, P) \cup {t}
                                ELSE Pending(c, P) \ {t}
    BY <1>1 DEF Safe, TypeOK, Pending
  <1>5. ASSUME NEW P, NEW c \in Block, P \cap {"idle", "lock"} = {}
        PROVE  Pending(c, P)' = Pending(c, P)
    <2>1. t \notin Pending(c, P)
      BY <1>1, <1>5 DEF Pending
    <2>2. QED
      BY <1>4, <1>5, <2>1
  <1>6. CountsExact'
    <2>1. \A c \in Block : /\ Pending(c, {"decUse"})' = Pending(c, {"decUse"})
                           /\ Pending(c, {"decWeak"})' = Pending(c, {"decWeak"})
      BY <1>5
    <2>2. QED
      BY <1>2, <2>1 DEF Safe, Sound, CountsExact, StrongOn, WeakOn
  <1>7. ASSUME NEW u \in Thread, u # t
        PROVE  pc'[u] = pc[u] /\ at'[u] = at[u] /\ loaded'[u] = loaded[u]
    BY <1>1, <1>7 DEF Safe, TypeOK
  <1>8. pc'[t] = "lock" /\ at'[t] = b /\ loaded'[t] \in past[b]
    BY <1>1 DEF Safe, TypeOK
  <1>9. NoUseAfterFree'
    <2>1. /\ \A k \in Strong : pb'[k] # None => life[pb'[k]] = "live"
          /\ \A w \in Weak : pb'[w] # None => life[pb'[w]] # "free"
          /\ \A u \in Thread : pc'[u] # "idle" => life[at'[u]] # "free"
      BY <1>2, <1>3, <1>7, <1>8 DEF Safe, Sound, NoUseAfterFree
    <2>2. ASSUME NEW u \in Thread, pc'[u] = "dispose"
          PROVE  life[at'[u]] = "live" /\ Pending(at[u], {"dispose"})' = {u}
      <3>1. PICK c \in Block : c = at[u] /\ c = at'[u] /\ life[c] = "live"
                               /\ Pending(c, {"dispose"}) = {u}
        BY <1>7, <1>8, <2>2 DEF Safe, Sound, NoUseAfterFree, TypeOK
      <3>2. Pending(c, {"dispose"})' = {u}
        BY <1>5, <3>1
      <3>3. QED
        BY <3>1, <3>2 DEF Pending
    <2>3. ASSUME NEW u \in Thread, pc'[u] = "destroy"
          PROVE  /\ life[at'[u]] = "disposed"
                 /\ Pending(at[u], {"lock", "destroy"})' = {u}
      <3>1. PICK c \in Block : /\ c = at[u] /\ c = at'[u] /\ life[c] = "disposed"
                               /\ weak[c] = 0 /\ u # t
                               /\ Pending(c, {"lock", "destroy"}) = {u}
        BY <1>7, <1>8, <2>3 DEF Safe, Sound, NoUseAfterFree, Dying, TypeOK
      <3>2. Pending(c, {"lock", "destroy"})' = {u}
        BY <1>3, <1>4, <3>1
      <3>3. QED
        BY <3>1, <3>2 DEF Pending
    <2>4. QED
      BY <1>2, <2>1, <2>2, <2>3 DEF NoUseAfterFree
  <1>10. Dying'
    <2>1. ASSUME NEW u \in Thread
          PROVE  /\ pc'[u] = "decUse" => life[at'[u]] = "live"
                 /\ pc'[u] = "dispose" => use[at'[u]] = 0
                 /\ pc'[u] = "destroy" => weak[at'[u]] = 0
                 /\ pc'[u] = "lock" => \E w \in Weak : pb[w] = at'[u] /\ owner[w] = u
      BY <1>1, <1>7, <1>8 DEF Safe, Sound, Dying
    <2>2. ASSUME NEW c \in Block
          PROVE  /\ Pending(c, {"dispose"})' = Pending(c, {"dispose"})
                 /\ Pending(c, {"destroy"})' = Pending(c, {"destroy"})
      BY <1>5
    <2>3. QED
      BY <1>2, <2>1, <2>2 DEF Safe, Sound, Dying
  <1>11. ZeroLasts'
    BY <1>2, <1>7, <1>8 DEF Safe, Sound, ZeroLasts
  <1>12. QED
    BY <1>6, <1>9, <1>10, <1>11 DEF Sound

\* A shared_ptr is counted down; the last one leads to the disposal.
LEMMA DecUseSound ==
  ASSUME Safe, NEW t \in Thread, DecUse(t)
  PROVE  Sound'
  <1>1. PICK b \in Block, p \in {"dispose", "idle"} :
          /\ b = at[t] /\ life[b] = "live" /\ pc[t] = "decUse"
          /\ use' = [use EXCEPT ![b] = use[b] - 1]
          /\ past' = [past EXCEPT ![b] = @ \cup {use[b] - 1}]
          /\ p = IF use[b] = 1 THEN "dispose" ELSE "idle"
          /\ GoesOn(t, p)
    <2>1. pc[t] = "decUse"
      BY DEF DecUse
    <2>2. at[t] \in Block /\ life[at[t]] = "live"
      BY <2>1 DEF Safe, Sound, TypeOK, Dying
    <2>3. QED
      BY <2>1, <2>2 DEF DecUse, Counted
  <1>2. /\ UNCHANGED <<pb, owner, weak, life, loaded>>
        /\ pc' = [pc EXCEPT ![t] = p]
        /\ at' = [at EXCEPT ![t] = IF p = "idle" THEN None ELSE b]
    BY <1>1, GoesOnMoves DEF DecUse, handles, Safe
  <1>3. \A c \in Block : /\ Uses(c)' = Uses(c) - IF c = b THEN 1 ELSE 0
                         /\ Weaks(c)' = Weaks(c)
                         /\ c = b => Uses(c) > 0
    <2>1. p \in {"idle", "dispose", "destroy"}
      BY <1>1
    <2>2. QED
      BY <1>1, <1>2, <2>1, DownCounts, Sizes DEF Safe
  <1>4. /\ use[b] \in Nat /\ use[b] > 0
        /\ use'[b] = use[b] - 1
        /\ \A c \in Block : c # b => use'[c] = use[c] /\ past'[c] = past[c]
        /\ past'[b] = past[b] \cup {use[b] - 1}
    BY <1>1, <1>3, BlockFacts DEF Safe, TypeOK
  <1>5. CountsExact'
    <2> SUFFICES ASSUME NEW c \in Block, life[c] # "free"
                 PROVE  /\ use'[c] = Uses(c)'
                        /\ weak[c] = Weaks(c)' + IF life[c] = "live" THEN 1 ELSE 0
      BY <1>2, Sizes DEF CountsExact, Uses, Weaks
    <2>1. QED
      BY <1>1, <1>3, <1>4, BlockFacts
  <1>6. ASSUME NEW u \in Thread, u # t
        PROVE  pc'[u] = pc[u] /\ at'[u] = at[u]
    BY <1>2, <1>6 DEF Safe, TypeOK
  <1>7. pc'[t] = p /\ (p = "dispose" => at'[t] = b)
    BY <1>2 DEF Safe, TypeOK
  <1>8. ASSUME NEW u \in Thread, pc[u] = "dispose"
        PROVE  at[u] # b /\ u # t
    BY <1>1, <1>4, <1>8 DEF Safe, Sound, Dying
  <1>9. Pending(b, {"dispose"})' = IF p = "dispose" THEN {t} ELSE {}
    BY <1>2, <1>6, <1>7, <1>8 DEF Pending
  <1>10. ASSUME NEW P, NEW c \in Block, t \notin Pending(c, P), c # b \/ p \notin P
         PROVE  Pending(c, P)' = Pending(c, P)
    <2>1. t \notin Pending(c, P)'
      <3>1. CASE p = "idle"
        <4>1. at'[t] = None /\ None # c
          BY <1>2, <3>1, BlockFacts DEF Safe, TypeOK
        <4>2. QED
          BY <4>1 DEF Pending
      <3>2. CASE p # "idle"
        BY <1>1, <1>7, <1>10, <3>2 DEF Pending
      <3>3. QED
        BY <3>1, <3>2
    <2>2. \A u \in Thread \ {t} : u \in Pending(c, P)' <=> u \in Pending(c, P)
      BY <1>6 DEF Pending
    <2>3. QED
      BY <1>10, <2>1, <2>2 DEF Pending
  <1>11. NoUseAfterFree'
    <2>1. ASSUME NEW u \in Thread, pc'[u] # "idle"
          PROVE  life[at'[u]] # "free"
      BY <1>1, <1>6, <1>7, <2>1 DEF Safe, Sound, NoUseAfterFree
    <2>2. ASSUME NEW u \in Thread, pc'[u] = "dispose"
          PROVE  life[at'[u]] = "live" /\ Pending(at[u], {"dispose"})' = {u}
      <3>1. CASE u = t
        BY <1>1, <1>7, <1>9, <2>2, <3>1 DEF Pending
      <3>2. CASE u # t
        <4>1. PICK c \in Block : /\ c = at[u] /\ c = at'[u] /\ life[c] = "live"
                                 /\ Pending(c, {"dispose"}) = {u} /\ c # b
          BY <1>6, <1>8, <2>2, <3>2 DEF Safe, Sound, NoUseAfterFree, TypeOK
        <4>2. Pending(c, {"dispose"})' = {u}
          BY <1>10, <3>2, <4>1
        <4>3. QED
          BY <4>1, <4>2 DEF Pending
      <3>3. QED
        BY <3>1, <3>2
    <2>3. ASSUME NEW u \in Thread, pc'[u] = "destroy"
          PROVE  /\ life[at'[u]] = "disposed"
                 /\ Pending(at[u], {"lock", "destroy"})' = {u}
      <3>1. u # t
        BY <1>1, <1>7, <2>3
      <3>2. PICK c \in Block : /\ c = at[u] /\ c = at'[u] /\ life[c] = "disposed"
                               /\ Pending(c, {"lock", "destroy"}) = {u}
        BY <1>6, <2>3, <3>1 DEF Safe, Sound, NoUseAfterFree, TypeOK
      <3>3. Pending(c, {"lock", "destroy"})' = {u}
        BY <1>1, <1>10, <3>1, <3>2
      <3>4. QED
        BY <3>2, <3>3 DEF Pending
    <2>4. QED
      BY <1>2, <2>1, <2>2, <2>3 DEF Safe, Sound, NoUseAfterFree
  <1>12. Dying'
    <2>1. ASSUME NEW u \in Thread
          PROVE  /\ pc'[u] = "decUse" => life[at'[u]] = "live"
                 /\ pc'[u] = "dispose" => use'[at'[u]] = 0
                 /\ pc'[u] = "destroy" => weak[at'[u]] = 0
                 /\ pc'[u] = "lock" => \E w \in Weak : pb[w] = at'[u] /\ owner[w] = u
      <3>1. CASE u = t
        BY <1>1, <1>4, <1>7, <3>1
      <3>2. CASE u # t
        BY <1>4, <1>6, <1>8, <3>2 DEF Safe, Sound, Dying, TypeOK
      <3>3. QED
        BY <3>1, <3>2
    <2>2. ASSUME NEW c \in Block
          PROVE  /\ life[c] = "live" /\ use'[c] = 0 => Pending(c, {"dispose"})' # {}
                 /\ life[c] = "disposed" => use'[c] = 0
                 /\ life[c] = "disposed" /\ weak[c] = 0 =>
                      Pending(c, {"destroy"})' # {}
      <3>1. t \notin Pending(c, {"dispose"}) /\ t \notin Pending(c, {"destroy"})
        BY <1>1 DEF Pending
      <3>2. CASE c = b
        BY <1>1, <1>4, <1>9, <3>2
      <3>3. CASE c # b
        <4>1. /\ Pending(c, {"dispose"})' = Pending(c, {"dispose"})
              /\ Pending(c, {"destroy"})' = Pending(c, {"destroy"})
          BY <1>10, <3>1, <3>3
        <4>2. QED
          BY <1>4, <3>3, <4>1 DEF Safe, Sound, Dying
      <3>4. QED
        BY <3>2, <3>3
    <2>3. QED
      BY <1>2, <2>1, <2>2 DEF Dying
  <1>13. ZeroLasts'
    <2>1. ASSUME NEW c \in Block, 0 \in past'[c]
          PROVE  use'[c] = 0
      BY <1>4, <2>1 DEF Safe, Sound, ZeroLasts
    <2>2. ASSUME NEW u \in Thread, pc'[u] = "lock"
          PROVE  loaded[u] \in past'[at'[u]]
      <3>1. u # t
        BY <1>1, <1>7, <2>2
      <3>2. pc[u] = "lock" /\ at'[u] = at[u] /\ at[u] \in Block
        BY <1>6, <2>2, <3>1 DEF Safe, Sound, TypeOK
      <3>3. loaded[u] \in past[at[u]]
        BY <3>2 DEF Safe, Sound, ZeroLasts
      <3>4. past[at[u]] \subseteq past'[at[u]]
        BY <1>4, <3>2
      <3>5. QED
        BY <3>2, <3>3, <3>4
    <2>3. QED
      BY <1>2, <2>1, <2>2 DEF ZeroLasts
  <1>14. QED
    BY <1>5, <1>11, <1>12, <1>13 DEF Sound

\* The object is deleted: the thread now holds the weak reference that all
\* the shared_ptrs have had together.
LEMMA DisposeSound ==
  ASSUME Safe, NEW t \in Thread, Dispose(t)
  PROVE  Sound'
  <1>1. PICK b \in Block :
          /\ b = at[t] /\ pc[t] = "dispose" /\ life[b] = "live" /\ use[b] = 0
          /\ Pending(b, {"dispose"}) = {t}
          /\ life' = [life EXCEPT ![b] = "disposed"]
    <2>1. pc[t] = "dispose"
      BY DEF Dispose
    <2>2. at[t] \in Block /\ life[at[t]] = "live" /\ use[at[t]] = 0
          /\ Pending(at[t], {"dispose"}) = {t}
      BY <2>1 DEF Safe, Sound, TypeOK, NoUseAfterFree, Dying
    <2>3. QED
      BY <2>1, <2>2 DEF Dispose
  <1>2. /\ UNCHANGED <<pb, owner, use, weak, past, loaded>>
        /\ pc' = [pc EXCEPT ![t] = "decWeak"]
        /\ at' = at
    BY DEF Dispose, GoesOn, handles, counts
  <1>3. /\ life'[b] = "disposed"
        /\ \A c \in Block : c # b => life'[c] = life[c]
    BY <1>1 DEF Safe, TypeOK
  <1>4. Uses(b) = 0 /\ StrongOn(b) = {} /\ Pending(b, {"decUse"}) = {}
    <2>1. Uses(b) = 0
      BY <1>1, BlockFacts
    <2>2. /\ Cardinality(StrongOn(b)) = 0
          /\ Cardinality(Pending(b, {"decUse"})) = 0
      BY <2>1, Sizes DEF Uses
    <2>3. QED
      BY <2>1, <2>2, Sizes, FS_EmptySet
  <1>5. ASSUME NEW u \in Thread, u # t
        PROVE  pc'[u] = pc[u]
    BY <1>2, <1>5 DEF Safe, TypeOK
  <1>6. pc'[t] = "decWeak"
    BY <1>2 DEF Safe, TypeOK
  <1>7. ASSUME NEW P, NEW c \in Block, "decWeak" \notin P, "dispose" \notin P \/ c # b
        PROVE  Pending(c, P)' = Pending(c, P)
    BY <1>1, <1>2, <1>5, <1>6, <1>7 DEF Pending
  <1>8. \A c \in Block : /\ Uses(c)' = Uses(c)
                         /\ Weaks(c)' = Weaks(c) + IF c = b THEN 1 ELSE 0
    <2> SUFFICES ASSUME NEW c \in Block
                 PROVE  /\ Uses(c)' = Uses(c)
                        /\ Weaks(c)' = Weaks(c) + IF c = b THEN 1 ELSE 0
      OBVIOUS
    <2>1. Pending(c, {"decUse"})' = Pending(c, {"decUse"})
      BY <1>7
    <2>2. /\ Pending(c, {"decWeak"})' = IF c = b THEN Pending(c, {"decWeak"}) \cup {t}
                                        ELSE Pending(c, {"decWeak"})
          /\ t \notin Pending(c, {"decWeak"})
      BY <1>1, <1>2, <1>5, <1>6 DEF Pending
    <2>3. Cardinality(Pending(c, {"decWeak"}) \cup {t})
            = Cardinality(Pending(c, {"decWeak"})) + 1
      BY <2>2, Sizes, Grows
    <2>4. StrongOn(c)' = StrongOn(c) /\ WeakOn(c)' = WeakOn(c)
      BY <1>2 DEF StrongOn, WeakOn
    <2>5. QED
      BY <2>1, <2>2, <2>3, <2>4, Sizes DEF Uses, Weaks
  <1>9. CountsExact'
    <2> SUFFICES ASSUME NEW c \in Block, life'[c] # "free"
                 PROVE  /\ use[c] = Uses(c)'
                        /\ weak[c] = Weaks(c)' + IF life'[c] = "live" THEN 1 ELSE 0
      BY <1>2, Sizes DEF CountsExact, Uses, Weaks
    <2>1. QED
      BY <1>1, <1>3, <1>8, BlockFacts, Sizes
  <1>10. NoUseAfterFree'
    <2>1. \A k \in Strong : pb[k] # None => life'[pb[k]] = "live"
      BY <1>3, <1>4 DEF Safe, Sound, NoUseAfterFree, TypeOK, Handle, StrongOn
    <2>2. \A w \in Weak : pb[w] # None => life'[pb[w]] # "free"
      BY <1>3 DEF Safe, Sound, NoUseAfterFree, TypeOK, Handle
    <2>3. ASSUME NEW u \in Thread, pc'[u] # "idle"
          PROVE  life'[at[u]] # "free"
      BY <1>1, <1>3, <1>5, <2>3 DEF Safe, Sound, NoUseAfterFree, TypeOK
    <2>4. ASSUME NEW u \in Thread, pc'[u] = "dispose"
          PROVE  life'[at[u]] = "live" /\ Pending(at[u], {"dispose"})' = {u}
      <3>1. PICK c \in Block : c = at[u] /\ life[c] = "live"
                               /\ Pending(c, {"dispose"}) = {u} /\ u # t
        BY <1>5, <1>6, <2>4 DEF Safe, Sound, NoUseAfterFree, TypeOK
      <3>2. c # b
        BY <1>1, <3>1
      <3>3. Pending(c, {"dispose"})' = {u} /\ life'[c] = "live"
        BY <1>3, <1>7, <3>1, <3>2
      <3>4. QED
        BY <1>2, <3>1, <3>3 DEF Pending
    <2>5. ASSUME NEW u \in Thread, pc'[u] = "destroy"
          PROVE  /\ life'[at[u]] = "disposed"
                 /\ Pending(at[u], {"lock", "destroy"})' = {u}
      <3>1. PICK c \in Block : c = at[u] /\ life[c] = "disposed"
                               /\ Pending(c, {"lock", "destroy"}) = {u}
        BY <1>5, <1>6, <2>5 DEF Safe, Sound, NoUseAfterFree, TypeOK
      <3>2. Pending(c, {"lock", "destroy"})' = {u} /\ life'[c] = "disposed"
        BY <1>3, <1>7, <3>1
      <3>3. QED
        BY <1>2, <3>1, <3>2 DEF Pending
    <2>6. QED
      BY <1>2, <2>1, <2>2, <2>3, <2>4, <2>5 DEF NoUseAfterFree
  <1>11. Dying'
    <2>1. ASSUME NEW u \in Thread
          PROVE  /\ pc'[u] = "decUse" => life'[at[u]] = "live"
                 /\ pc'[u] = "dispose" => use[at[u]] = 0
                 /\ pc'[u] = "destroy" => weak[at[u]] = 0
                 /\ pc'[u] = "lock" => \E w \in Weak : pb[w] = at[u] /\ owner[w] = u
      <3>1. pc'[u] = "decUse" => at[u] \in Block /\ at[u] # b
        BY <1>4, <1>5, <1>6 DEF Safe, TypeOK, Pending
      <3>2. QED
        BY <1>3, <1>5, <1>6, <3>1 DEF Safe, Sound, Dying
    <2>2. ASSUME NEW c \in Block
          PROVE  /\ life'[c] = "live" /\ use[c] = 0 => Pending(c, {"dispose"})' # {}
                 /\ life'[c] = "disposed" => use[c] = 0
                 /\ life'[c] = "disposed" /\ weak[c] = 0 =>
                      Pending(c, {"destroy"})' # {}
      <3>1. CASE c = b
        BY <1>1, <1>3, <3>1, BlockFacts
      <3>2. CASE c # b
        <4>1. /\ Pending(c, {"dispose"})' = Pending(c, {"dispose"})
              /\ Pending(c, {"destroy"})' = Pending(c, {"destroy"})
          BY <1>7, <3>2
        <4>2. QED
          BY <1>3, <3>2, <4>1 DEF Safe, Sound, Dying
      <3>3. QED
        BY <3>1, <3>2
    <2>3. QED
      BY <1>2, <2>1, <2>2 DEF Dying
  <1>12. ZeroLasts'
    BY <1>2, <1>5, <1>6 DEF Safe, Sound, ZeroLasts
  <1>13. QED
    BY <1>9, <1>10, <1>11, <1>12 DEF Sound

\* A weak_ptr is counted down; the last one leads to the destruction.
LEMMA DecWeakSound ==
  ASSUME Safe, NEW t \in Thread, DecWeak(t)
  PROVE  Sound'
  <1>1. PICK b \in Block, p \in {"destroy", "idle"} :
          /\ b = at[t] /\ life[b] # "free" /\ pc[t] = "decWeak"
          /\ weak' = [weak EXCEPT ![b] = @ - 1]
          /\ p = IF weak[b] = 1 THEN "destroy" ELSE "idle"
          /\ GoesOn(t, p)
    <2>1. pc[t] = "decWeak"
      BY DEF DecWeak
    <2>2. at[t] \in Block /\ life[at[t]] # "free"
      BY <2>1 DEF Safe, Sound, TypeOK, NoUseAfterFree
    <2>3. QED
      BY <2>1, <2>2 DEF DecWeak
  <1>2. /\ UNCHANGED <<pb, owner, use, past, life, loaded>>
        /\ pc' = [pc EXCEPT ![t] = p]
        /\ at' = [at EXCEPT ![t] = IF p = "idle" THEN None ELSE b]
    BY <1>1, GoesOnMoves DEF DecWeak, handles, Safe
  <1>3. \A c \in Block : /\ Uses(c)' = Uses(c)
                         /\ Weaks(c)' = Weaks(c) - IF c = b THEN 1 ELSE 0
                         /\ c = b => Weaks(c) > 0
    <2>1. p \in {"idle", "dispose", "destroy"}
      BY <1>1
    <2>2. QED
      BY <1>1, <1>2, <2>1, DownCounts, Sizes DEF Safe
  <1>4. /\ weak[b] \in Nat /\ weak[b] > 0
        /\ weak'[b] = weak[b] - 1
        /\ \A c \in Block : c # b => weak'[c] = weak[c]
    BY <1>1, <1>3, BlockFacts, Sizes DEF Safe, TypeOK
  <1>5. p = "destroy" => /\ life[b] = "disposed"
                         /\ WeakOn(b) = {}
    <2> SUFFICES ASSUME weak[b] = 1
                 PROVE  life[b] = "disposed" /\ WeakOn(b) = {}
      BY <1>1
    <2>1. Weaks(b) = 1 /\ life[b] = "disposed"
      BY <1>1, <1>3, BlockFacts, Sizes
    <2>2. t \in Pending(b, {"decWeak"})
      BY <1>1 DEF Pending
    <2>3. Cardinality(Pending(b, {"decWeak"})) > 0
      BY <2>2, Sizes, Grows
    <2>4. Cardinality(WeakOn(b)) = 0
      BY <2>1, <2>3, Sizes DEF Weaks
    <2>5. QED
      BY <2>1, <2>4, Sizes, FS_EmptySet
  <1>6. ASSUME NEW u \in Thread, u # t
        PROVE  pc'[u] = pc[u] /\ at'[u] = at[u]
    BY <1>2, <1>6 DEF Safe, TypeOK
  <1>7. pc'[t] = p /\ (p = "destroy" => at'[t] = b)
    BY <1>2 DEF Safe, TypeOK
  <1>8. ASSUME NEW u \in Thread, pc[u] = "destroy"
        PROVE  at[u] # b /\ u # t
    BY <1>1, <1>4, <1>8 DEF Safe, Sound, Dying
  <1>9. ASSUME NEW P, NEW c \in Block, t \notin Pending(c, P), c # b \/ p \notin P
        PROVE  Pending(c, P)' = Pending(c, P)
    <2>1. t \notin Pending(c, P)'
      <3>1. CASE p = "idle"
        <4>1. at'[t] = None /\ None # c
          BY <1>2, <3>1, BlockFacts DEF Safe, TypeOK
        <4>2. QED
          BY <4>1 DEF Pending
      <3>2. CASE p # "idle"
        BY <1>1, <1>7, <1>9, <3>2 DEF Pending
      <3>3. QED
        BY <3>1, <3>2
    <2>2. \A u \in Thread \ {t} : u \in Pending(c, P)' <=> u \in Pending(c, P)
      BY <1>6 DEF Pending
    <2>3. QED
      BY <1>9, <2>1, <2>2 DEF Pending
  <1>10. CountsExact'
    <2> SUFFICES ASSUME NEW c \in Block, life[c] # "free"
                 PROVE  /\ use[c] = Uses(c)'
                        /\ weak'[c] = Weaks(c)' + IF life[c] = "live" THEN 1 ELSE 0
      BY <1>2, Sizes DEF CountsExact, Uses, Weaks
    <2>1. QED
      BY <1>1, <1>3, <1>4, BlockFacts, Sizes
  <1>11. NoUseAfterFree'
    <2>1. ASSUME NEW u \in Thread, pc'[u] # "idle"
          PROVE  life[at'[u]] # "free"
      BY <1>1, <1>6, <1>7, <2>1 DEF Safe, Sound, NoUseAfterFree
    <2>2. ASSUME NEW u \in Thread, pc'[u] = "dispose"
          PROVE  life[at'[u]] = "live" /\ Pending(at[u], {"dispose"})' = {u}
      <3>1. u # t
        BY <1>1, <1>7, <2>2
      <3>2. PICK c \in Block : /\ c = at[u] /\ c = at'[u] /\ life[c] = "live"
                               /\ Pending(c, {"dispose"}) = {u}
        BY <1>6, <2>2, <3>1 DEF Safe, Sound, NoUseAfterFree, TypeOK
      <3>3. Pending(c, {"dispose"})' = {u}
        BY <1>1, <1>9, <3>1, <3>2
      <3>4. QED
        BY <3>2, <3>3 DEF Pending
    <2>3. ASSUME NEW u \in Thread, pc'[u] = "destroy"
          PROVE  /\ life[at'[u]] = "disposed"
                 /\ Pending(at[u], {"lock", "destroy"})' = {u}
      <3>1. CASE u = t
        <4>1. p = "destroy" /\ at'[t] = b
          BY <1>7, <2>3, <3>1
        <4>2. ASSUME NEW v \in Thread, v # t
              PROVE  ~(at'[v] = b /\ pc'[v] \in {"lock", "destroy"})
          BY <1>5, <1>6, <1>8, <4>1, <4>2 DEF Safe, Sound, Dying, WeakOn
        <4>3. QED
          BY <1>5, <2>3, <3>1, <4>1, <4>2 DEF Pending
      <3>2. CASE u # t
        <4>1. PICK c \in Block : /\ c = at[u] /\ c = at'[u] /\ life[c] = "disposed"
                                 /\ Pending(c, {"lock", "destroy"}) = {u} /\ c # b
          BY <1>6, <1>8, <2>3, <3>2 DEF Safe, Sound, NoUseAfterFree, TypeOK
        <4>2. Pending(c, {"lock", "destroy"})' = {u}
          BY <1>9, <3>2, <4>1
        <4>3. QED
          BY <4>1, <4>2 DEF Pending
      <3>3. QED
        BY <3>1, <3>2
    <2>4. QED
      BY <1>2, <2>1, <2>2, <2>3 DEF Safe, Sound, NoUseAfterFree
  <1>12. Dying'
    <2>1. ASSUME NEW u \in Thread
          PROVE  /\ pc'[u] = "decUse" => life[at'[u]] = "live"
                 /\ pc'[u] = "dispose" => use[at'[u]] = 0
                 /\ pc'[u] = "destroy" => weak'[at'[u]] = 0
                 /\ pc'[u] = "lock" => \E w \in Weak : pb[w] = at'[u] /\ owner[w] = u
      <3>1. CASE u = t
        BY <1>1, <1>4, <1>7, <3>1
      <3>2. CASE u # t
        BY <1>4, <1>6, <1>8, <3>2 DEF Safe, Sound, Dying, TypeOK
      <3>3. QED
        BY <3>1, <3>2
    <2>2. ASSUME NEW c \in Block
          PROVE  /\ life[c] = "live" /\ use[c] = 0 => Pending(c, {"dispose"})' # {}
                 /\ life[c] = "disposed" => use[c] = 0
                 /\ life[c] = "disposed" /\ weak'[c] = 0 =>
                      Pending(c, {"destroy"})' # {}
      <3>1. t \notin Pending(c, {"dispose"}) /\ t \notin Pending(c, {"destroy"})
        BY <1>1 DEF Pending
      <3>2. Pending(c, {"dispose"})' = Pending(c, {"dispose"})
        BY <1>1, <1>9, <3>1
      <3>3. life[c] = "disposed" /\ weak'[c] = 0 => Pending(c, {"destroy"})' # {}
        <4>1. CASE c = b
          BY <1>1, <1>4, <1>7, <4>1 DEF Pending
        <4>2. CASE c # b
          <5>1. Pending(c, {"destroy"})' = Pending(c, {"destroy"})
            BY <1>9, <3>1, <4>2
          <5>2. QED
            BY <1>4, <4>2, <5>1 DEF Safe, Sound, Dying
        <4>3. QED
          BY <4>1, <4>2
      <3>4. QED
        BY <3>2, <3>3 DEF Safe, Sound, Dying
    <2>3. QED
      BY <1>2, <2>1, <2>2 DEF Dying
  <1>13. ZeroLasts'
    BY <1>1, <1>2, <1>6, <1>7 DEF Safe, Sound, ZeroLasts
  <1>14. QED
    BY <1>10, <1>11, <1>12, <1>13 DEF Sound

\* The block is deleted: nobody refers to it.
LEMMA DestroySound ==
  ASSUME Safe, NEW t \in Thread, Destroy(t)
  PROVE  Sound'
  <1>1. PICK b \in Block :
          /\ b = at[t] /\ pc[t] = "destroy" /\ life[b] = "disposed"
          /\ weak[b] = 0 /\ use[b] = 0
          /\ Pending(b, {"lock", "destroy"}) = {t}
          /\ life' = [life EXCEPT ![b] = "free"]
          /\ use' = [use EXCEPT ![b] = 0]
          /\ past' = [past EXCEPT ![b] = {}]
    <2>1. pc[t] = "destroy"
      BY DEF Destroy
    <2>2. at[t] \in Block /\ life[at[t]] = "disposed" /\ weak[at[t]] = 0
          /\ Pending(at[t], {"lock", "destroy"}) = {t}
      BY <2>1 DEF Safe, Sound, TypeOK, NoUseAfterFree, Dying
    <2>3. use[at[t]] = 0
      BY <2>2 DEF Safe, Sound, Dying
    <2>4. QED
      BY <2>1, <2>2, <2>3 DEF Destroy
  <1>2. /\ UNCHANGED <<pb, owner, weak, loaded>>
        /\ pc' = [pc EXCEPT ![t] = "idle"]
        /\ at' = [at EXCEPT ![t] = None]
    BY <1>1, GoesOnMoves DEF Destroy, handles, Safe
  <1>3. /\ life'[b] = "free" /\ use' = use
        /\ past'[b] = {}
        /\ \A c \in Block : c # b => life'[c] = life[c] /\ past'[c] = past[c]
    BY <1>1 DEF Safe, TypeOK
  <1>4. StrongOn(b) = {} /\ WeakOn(b) = {} /\ Pending(b, {"decUse", "decWeak"}) = {}
    <2>1. Weaks(b) = 0 /\ b # None
      BY <1>1, BlockFacts, Sizes
    <2>2. Cardinality(Pending(b, {"decWeak"})) = 0 /\ Cardinality(WeakOn(b)) = 0
      BY <2>1, Sizes DEF Weaks
    <2>3. Pending(b, {"decWeak"}) = {} /\ WeakOn(b) = {}
      BY <2>2, Sizes, FS_EmptySet
    <2>4. StrongOn(b) = {} /\ Pending(b, {"decUse"}) = {}
      BY <1>1, <2>1 DEF Safe, Sound, NoUseAfterFree, Dying, StrongOn, Pending
    <2>5. QED
      BY <2>3, <2>4 DEF Pending
  <1>5. ASSUME NEW u \in Thread, u # t
        PROVE  pc'[u] = pc[u] /\ at'[u] = at[u] /\ (pc[u] # "idle" => at[u] # b)
    <2>1. pc'[u] = pc[u] /\ at'[u] = at[u]
      BY <1>2, <1>5 DEF Safe, TypeOK
    <2>2. u \notin Pending(b, {"lock", "destroy", "decUse", "decWeak"})
      BY <1>1, <1>4, <1>5 DEF Pending
    <2>3. pc[u] = "dispose" => at[u] # b
      BY <1>1 DEF Safe, Sound, NoUseAfterFree
    <2>4. QED
      BY <2>1, <2>2, <2>3 DEF Safe, TypeOK, Place, Pending
  <1>6. pc'[t] = "idle"
    BY <1>2 DEF Safe, TypeOK
  <1>7. ASSUME NEW P, NEW c \in Block, c # b, "idle" \notin P
        PROVE  Pending(c, P)' = Pending(c, P)
    BY <1>1, <1>5, <1>6, <1>7 DEF Pending
  <1>8. CountsExact'
    <2> SUFFICES ASSUME NEW c \in Block, c # b, life[c] # "free"
                 PROVE  /\ use[c] = Uses(c)'
                        /\ weak[c] = Weaks(c)' + IF life[c] = "live" THEN 1 ELSE 0
      BY <1>2, <1>3, Sizes DEF CountsExact, Uses, Weaks
    <2>1. /\ Pending(c, {"decUse"})' = Pending(c, {"decUse"})
          /\ Pending(c, {"decWeak"})' = Pending(c, {"decWeak"})
      BY <1>7
    <2>2. Uses(c)' = Uses(c) /\ Weaks(c)' = Weaks(c)
      BY <1>2, <2>1 DEF Uses, Weaks, StrongOn, WeakOn
    <2>3. QED
      BY <2>2, BlockFacts
  <1>9. NoUseAfterFree'
    <2>1. /\ \A k \in Strong : pb[k] # None => life'[pb[k]] = "live"
          /\ \A w \in Weak : pb[w] # None => life'[pb[w]] # "free"
      BY <1>3, <1>4 DEF Safe, Sound, NoUseAfterFree, TypeOK, Handle, StrongOn, WeakOn
    <2>2. ASSUME NEW u \in Thread, pc'[u] # "idle"
          PROVE  life'[at'[u]] # "free"
      BY <1>3, <1>5, <1>6, <2>2 DEF Safe, Sound, NoUseAfterFree, TypeOK
    <2>3. ASSUME NEW u \in Thread, pc'[u] = "dispose"
          PROVE  life'[at'[u]] = "live" /\ Pending(at[u], {"dispose"})' = {u}
      <3>1. PICK c \in Block : /\ c = at[u] /\ c = at'[u] /\ life[c] = "live" /\ c # b
                               /\ Pending(c, {"dispose"}) = {u}
        BY <1>5, <1>6, <2>3 DEF Safe, Sound, NoUseAfterFree, TypeOK
      <3>2. Pending(c, {"dispose"})' = {u} /\ life'[c] = "live"
        BY <1>3, <1>7, <3>1
      <3>3. QED
        BY <3>1, <3>2 DEF Pending
    <2>4. ASSUME NEW u \in Thread, pc'[u] = "destroy"
          PROVE  /\ life'[at'[u]] = "disposed"
                 /\ Pending(at[u], {"lock", "destroy"})' = {u}
      <3>1. PICK c \in Block : /\ c = at[u] /\ c = at'[u] /\ life[c] = "disposed"
                               /\ c # b
                               /\ Pending(c, {"lock", "destroy"}) = {u}
        BY <1>5, <1>6, <2>4 DEF Safe, Sound, NoUseAfterFree, TypeOK
      <3>2. Pending(c, {"lock", "destroy"})' = {u} /\ life'[c] = "disposed"
        BY <1>3, <1>7, <3>1
      <3>3. QED
        BY <3>1, <3>2 DEF Pending
    <2>5. QED
      BY <1>2, <2>1, <2>2, <2>3, <2>4 DEF NoUseAfterFree
  <1>10. Dying'
    <2>1. ASSUME NEW u \in Thread
          PROVE  /\ pc'[u] = "decUse" => life'[at'[u]] = "live"
                 /\ pc'[u] = "dispose" => use[at'[u]] = 0
                 /\ pc'[u] = "destroy" => weak[at'[u]] = 0
                 /\ pc'[u] = "lock" => \E w \in Weak : pb[w] = at'[u] /\ owner[w] = u
      BY <1>3, <1>5, <1>6 DEF Safe, Sound, Dying, TypeOK
    <2>2. ASSUME NEW c \in Block
          PROVE  /\ life'[c] = "live" /\ use[c] = 0 => Pending(c, {"dispose"})' # {}
                 /\ life'[c] = "disposed" => use[c] = 0
                 /\ life'[c] = "disposed" /\ weak[c] = 0 =>
                      Pending(c, {"destroy"})' # {}
      <3>1. CASE c = b
        BY <1>3, <3>1
      <3>2. CASE c # b
        <4>1. /\ Pending(c, {"dispose"})' = Pending(c, {"dispose"})
              /\ Pending(c, {"destroy"})' = Pending(c, {"destroy"})
          BY <1>7, <3>2
        <4>2. QED
          BY <1>3, <3>2, <4>1 DEF Safe, Sound, Dying
      <3>3. QED
        BY <3>1, <3>2
    <2>3. QED
      BY <1>2, <1>3, <2>1, <2>2 DEF Dying
  <1>11. ZeroLasts'
    <2>1. ASSUME NEW c \in Block, 0 \in past'[c]
          PROVE  use[c] = 0
      BY <1>3, <2>1 DEF Safe, Sound, ZeroLasts
    <2>2. ASSUME NEW u \in Thread, pc'[u] = "lock"
          PROVE  loaded[u] \in past'[at'[u]]
      <3>1. u # t
        BY <1>6, <2>2
      <3>2. pc[u] = "lock" /\ at'[u] = at[u] /\ at[u] \in Block
            /\ at[u] # b
        BY <1>5, <2>2, <3>1 DEF Safe, Sound, TypeOK
      <3>3. loaded[u] \in past[at[u]]
        BY <3>2 DEF Safe, Sound, ZeroLasts
      <3>4. QED
        BY <1>3, <3>2, <3>3
    <2>3. QED
      BY <1>2, <1>3, <2>1, <2>2 DEF ZeroLasts
  <1>12. QED
    BY <1>8, <1>9, <1>10, <1>11 DEF Sound

-----------------------------------------------------------------------------
(***************************************************************************)
(* Types.                                                                  *)
(***************************************************************************)
CallsTyped == /\ pc \in [Thread -> Place]
              /\ at \in [Thread -> Block \cup {None}]
              /\ \A t \in Thread : pc[t] # "idle" <=> at[t] # None
              /\ loaded \in [Thread -> Nat]
MemoryTyped == /\ done \in [Block -> SUBSET Event]
               /\ known \in [Thread -> [Block -> SUBSET Event]]
               /\ carried \in [Block -> [{"use", "weak"} -> SUBSET Event]]
CountsTyped == /\ use \in [Block -> Nat]
               /\ weak \in [Block -> Nat]
               /\ past \in [Block -> SUBSET Nat]

LEMMA DropTyped ==
  ASSUME TypeOK, NEW t \in Thread, NEW h \in Handle,
         NEW old \in Block \cup {None}, Drop(t, h, old)
  PROVE  CallsTyped'
  <1>1. PICK p \in Place : /\ p = "idle" <=> old = None
                           /\ pc' = [pc EXCEPT ![t] = p]
    BY DropMoves DEF Place
  <1>2. at' = [at EXCEPT ![t] = old] /\ loaded' = [loaded EXCEPT ![t] = 0]
    BY DropMoves
  <1>3. QED
    BY <1>1, <1>2 DEF TypeOK, CallsTyped

LEMMA GoesOnTyped ==
  ASSUME TypeOK, NEW t \in Thread, NEW p \in Place, pc[t] # "idle", GoesOn(t, p)
  PROVE  CallsTyped'
  <1>1. /\ pc' = [pc EXCEPT ![t] = p]
        /\ at' = [at EXCEPT ![t] = IF p = "idle" THEN None ELSE at[t]]
        /\ loaded' = loaded
    BY GoesOnMoves
  <1>2. QED
    BY <1>1 DEF TypeOK, CallsTyped

LEMMA AccessTyped ==
  ASSUME TypeOK, NEW t \in Thread, NEW b \in Block,
         NEW what \in {"object", "block"}, Access(t, b, what)
  PROVE  MemoryTyped'
  <1>1. <<what, t>> \in Event
    BY DEF Event
  <1>2. done' \in [Block -> SUBSET Event]
    BY <1>1 DEF TypeOK, Access
  <1>3. known' \in [Thread -> [Block -> SUBSET Event]]
    <2>1. ASSUME NEW u \in Thread
          PROVE  [known[u] EXCEPT ![b] = IF u = t THEN @ \cup {<<what, t>>}
                                         ELSE @ \ {<<what, t>>}]
                   \in [Block -> SUBSET Event]
      <3>1. /\ known[u] \in [Block -> SUBSET Event]
            /\ known[u][b] \cup {<<what, t>>} \in SUBSET Event
            /\ known[u][b] \ {<<what, t>>} \in SUBSET Event
        <4>1. known[u] \in [Block -> SUBSET Event]
          BY DEF TypeOK
        <4>2. known[u][b] \subseteq Event
          BY <4>1
        <4>3. QED
          BY <1>1, <4>1, <4>2
      <3>2. QED
        BY <3>1
    <2>2. QED
      BY <2>1 DEF Access
  <1>4. carried' \in [Block -> [{"use", "weak"} -> SUBSET Event]]
    BY DEF TypeOK, Access
  <1>5. QED
    BY <1>2, <1>3, <1>4 DEF MemoryTyped

LEMMA AtomicTyped ==
  ASSUME TypeOK, NEW t \in Thread, NEW b \in Block, NEW c \in {"use", "weak"},
         NEW published \in SUBSET Event, NEW learnt \in SUBSET Event,
         Atomic(t, b, c, published, learnt)
  PROVE  MemoryTyped'
  <1>1. <<"block", t>> \in Event
    BY DEF Event
  <1>2. done' \in [Block -> SUBSET Event]
    BY <1>1 DEF TypeOK, Atomic
  <1>3. known' \in [Thread -> [Block -> SUBSET Event]]
    <2>1. ASSUME NEW u \in Thread
          PROVE  [known[u] EXCEPT ![b] =
                    IF u = t THEN @ \cup {<<"block", t>>} \cup learnt
                    ELSE @ \ {<<"block", t>>}] \in [Block -> SUBSET Event]
      <3>1. /\ known[u] \in [Block -> SUBSET Event]
            /\ known[u][b] \cup {<<"block", t>>} \cup learnt \in SUBSET Event
            /\ known[u][b] \ {<<"block", t>>} \in SUBSET Event
        <4>1. known[u] \in [Block -> SUBSET Event]
          BY DEF TypeOK
        <4>2. known[u][b] \subseteq Event
          BY <4>1
        <4>3. QED
          BY <1>1, <4>1, <4>2
      <3>2. QED
        BY <3>1
    <2>2. QED
      BY <2>1 DEF Atomic
  <1>4. carried' \in [Block -> [{"use", "weak"} -> SUBSET Event]]
    <2>1. [d \in {"use", "weak"} |->
             (carried[b][d] \ {<<"block", t>>}) \cup IF d = c THEN published ELSE {}]
            \in [{"use", "weak"} -> SUBSET Event]
      BY DEF TypeOK
    <2>2. QED
      BY <2>1 DEF TypeOK, Atomic
  <1>5. QED
    BY <1>2, <1>3, <1>4 DEF MemoryTyped

\* The types of what is the same everywhere but at one block.
LEMMA TypesFrom ==
  ASSUME pb' \in [Handle -> Block \cup {None}], owner' \in [Handle -> Thread],
         CountsTyped', life' \in [Block -> {"live", "disposed", "free"}],
         CallsTyped', MemoryTyped'
  PROVE  TypeOK'
  BY DEF TypeOK, CountsTyped, CallsTyped, MemoryTyped

LEMMA TypesKept ==
  ASSUME TypeOK
  PROVE  /\ UNCHANGED counts => CountsTyped'
         /\ UNCHANGED calls => CallsTyped'
         /\ UNCHANGED memory => MemoryTyped'
  <1>1. UNCHANGED counts => CountsTyped'
    BY DEF TypeOK, counts, CountsTyped
  <1>2. UNCHANGED calls => CallsTyped'
    BY DEF TypeOK, calls, CallsTyped
  <1>3. UNCHANGED memory => MemoryTyped'
    BY DEF TypeOK, memory, MemoryTyped
  <1>4. QED
    BY <1>1, <1>2, <1>3

-----------------------------------------------------------------------------
(***************************************************************************)
(* Every step keeps the types and the counts.                              *)
(***************************************************************************)
LEMMA MakeSafe ==
  ASSUME Safe, NEW t \in Thread, NEW h \in Strong, NEW b \in Block, Make(t, h, b)
  PROVE  Safe'
  <1>1. h \in Handle
    BY DEF Handle
  <1>2. Sound'
    <2>1. Swap(t, h, b) /\ Fresh(h, b)
      BY DEF Make, Holds, Swap, Fresh
    <2>2. QED
      BY <1>1, <2>1, SwapSound
  <1>3. CallsTyped'
    BY <1>1, DropTyped DEF Make, Safe, TypeOK
  <1>4. MemoryTyped'
    <2> DEFINE new == {"object", "block"} \X {t}
    <2>1. new \subseteq Event
      BY DEF Event
    <2> HIDE DEF new
    <2>2. /\ done' = [done EXCEPT ![b] = new]
          /\ known' = [u \in Thread |->
                         [known[u] EXCEPT ![b] = IF u = t THEN new ELSE {}]]
          /\ carried' = [carried EXCEPT ![b] = [c \in {"use", "weak"} |-> {}]]
      BY DEF Make, new
    <2>3. ASSUME NEW u \in Thread
          PROVE  [known[u] EXCEPT ![b] = IF u = t THEN new ELSE {}]
                   \in [Block -> SUBSET Event]
      BY <2>1 DEF Safe, TypeOK
    <2>4. [c \in {"use", "weak"} |-> {}] \in [{"use", "weak"} -> SUBSET Event]
      OBVIOUS
    <2>5. QED
      BY <2>1, <2>2, <2>3, <2>4 DEF Safe, TypeOK, MemoryTyped
  <1>5. CountsTyped'
    BY DEF Make, Safe, TypeOK, CountsTyped
  <1>6. /\ pb' \in [Handle -> Block \cup {None}] /\ owner' \in [Handle -> Thread]
        /\ life' \in [Block -> {"live", "disposed", "free"}]
    BY DEF Make, Safe, TypeOK
  <1>7. QED
    BY <1>2, <1>3, <1>4, <1>5, <1>6, TypesFrom DEF Safe

LEMMA CopySafe ==
  ASSUME Safe, NEW t \in Thread, NEW h \in Strong, NEW g \in Strong, Copy(t, h, g)
  PROVE  Safe'
  <1>1. h \in Handle /\ g \in Handle
    BY DEF Handle
  <1>2. pb[g] \in Block /\ life[pb[g]] = "live" /\ use[pb[g]] > 0
    BY <1>1, HandleFacts DEF Copy
  <1>3. Sound'
    <2>1. Swap(t, h, pb[g]) /\ Shared(h, pb[g])
      BY <1>2 DEF Copy, Holds, Swap, Shared
    <2>2. QED
      BY <1>1, <1>2, <2>1, SwapSound
  <1>4. CallsTyped'
    BY <1>1, DropTyped DEF Copy, Safe, TypeOK
  <1>5. MemoryTyped'
    BY <1>2, AtomicTyped DEF Copy, Safe
  <1>6. CountsTyped'
    BY <1>2 DEF Copy, Counted, Safe, TypeOK, CountsTyped
  <1>7. /\ pb' \in [Handle -> Block \cup {None}] /\ owner' \in [Handle -> Thread]
        /\ life' \in [Block -> {"live", "disposed", "free"}]
    BY <1>2 DEF Copy, Safe, TypeOK
  <1>8. QED
    BY <1>3, <1>4, <1>5, <1>6, <1>7, TypesFrom DEF Safe

LEMMA CopyWeakSafe ==
  ASSUME Safe, NEW t \in Thread, NEW w \in Weak, NEW g \in Handle, CopyWeak(t, w, g)
  PROVE  Safe'
  <1>1. w \in Handle
    BY DEF Handle
  <1>2. pb[g] \in Block /\ life[pb[g]] # "free" /\ weak[pb[g]] > 0
    BY HandleFacts DEF CopyWeak
  <1>3. Sound'
    <2>1. Swap(t, w, pb[g]) /\ Watched(w, pb[g])
      BY <1>2 DEF CopyWeak, Holds, Swap, Watched
    <2>2. QED
      BY <1>1, <1>2, <2>1, SwapSound
  <1>4. CallsTyped'
    BY <1>1, DropTyped DEF CopyWeak, Safe, TypeOK
  <1>5. MemoryTyped'
    BY <1>2, AtomicTyped DEF CopyWeak, Safe
  <1>6. CountsTyped'
    BY <1>2 DEF CopyWeak, Safe, TypeOK, CountsTyped
  <1>7. /\ pb' \in [Handle -> Block \cup {None}] /\ owner' \in [Handle -> Thread]
        /\ life' \in [Block -> {"live", "disposed", "free"}]
    BY <1>2 DEF CopyWeak, Safe, TypeOK
  <1>8. QED
    BY <1>3, <1>4, <1>5, <1>6, <1>7, TypesFrom DEF Safe

LEMMA MoveSafe ==
  ASSUME Safe, NEW t \in Thread, NEW h \in Handle, NEW g \in Handle,
         h \in Strong <=> g \in Strong, Move(t, h, g)
  PROVE  Safe'
  <1>1. Sound'
    BY MoveSound
  <1>2. CallsTyped'
    <2>1. (IF h = g THEN None ELSE pb[h]) \in Block \cup {None}
      BY DEF Safe, TypeOK
    <2>2. QED
      BY <2>1, DropTyped DEF Move, Safe
  <1>3. MemoryTyped' /\ CountsTyped'
    BY TypesKept DEF Move, Safe
  <1>4. /\ pb' \in [Handle -> Block \cup {None}] /\ owner' \in [Handle -> Thread]
        /\ life' \in [Block -> {"live", "disposed", "free"}]
    BY DEF Move, Safe, TypeOK
  <1>5. QED
    BY <1>1, <1>2, <1>3, <1>4, TypesFrom DEF Safe

\* A handle becomes null, in a call of its own or as the result of lock ().
LEMMA ResetSafe ==
  ASSUME Safe, NEW t \in Thread, NEW h \in Handle,
         Reset(t, h) \/ LockFails(t, h)
  PROVE  Safe'
  <1>1. /\ Swap(t, h, None) /\ Nothing(None) /\ UNCHANGED memory
        /\ pb' = [pb EXCEPT ![h] = None] /\ owner' = owner
        /\ Drop(t, h, pb[h])
    BY DEF Reset, LockFails, Holds, Swap, Nothing
  <1>2. Sound'
    BY <1>1, SwapSound
  <1>3. CallsTyped'
    BY <1>1, DropTyped DEF Safe, TypeOK
  <1>4. MemoryTyped' /\ CountsTyped'
    BY <1>1, TypesKept DEF Nothing, Safe
  <1>5. /\ pb' \in [Handle -> Block \cup {None}] /\ owner' \in [Handle -> Thread]
        /\ life' \in [Block -> {"live", "disposed", "free"}]
    BY <1>1 DEF Nothing, Safe, TypeOK
  <1>6. QED
    BY <1>2, <1>3, <1>4, <1>5, TypesFrom DEF Safe

LEMMA UseSafe ==
  ASSUME Safe, NEW t \in Thread, NEW h \in Strong, Use(t, h)
  PROVE  Safe'
  <1>1. h \in Handle
    BY DEF Handle
  <1>2. Sound'
    BY <1>1, UseSound
  <1>3. pb[h] \in Block
    BY <1>1 DEF Use, Safe, TypeOK
  <1>4. MemoryTyped'
    BY <1>3, AccessTyped DEF Use, Safe
  <1>5. CallsTyped' /\ CountsTyped'
    BY TypesKept DEF Use, Safe
  <1>6. /\ pb' \in [Handle -> Block \cup {None}] /\ owner' \in [Handle -> Thread]
        /\ life' \in [Block -> {"live", "disposed", "free"}]
    BY DEF Use, Safe, TypeOK, handles
  <1>7. QED
    BY <1>2, <1>4, <1>5, <1>6, TypesFrom DEF Safe

LEMMA HandOverSafe ==
  ASSUME Safe, NEW t \in Thread, NEW u \in Thread \ {t}, NEW h \in Handle,
         HandOver(t, u, h)
  PROVE  Safe'
  <1>1. Sound'
    BY UseSound
  <1>2. MemoryTyped'
    <2>1. [b \in Block |-> known[u][b] \cup known[t][b]] \in [Block -> SUBSET Event]
      BY DEF Safe, TypeOK
    <2>2. QED
      BY <2>1 DEF HandOver, Safe, TypeOK, MemoryTyped
  <1>3. CallsTyped' /\ CountsTyped'
    BY TypesKept DEF HandOver, Safe
  <1>4. /\ pb' \in [Handle -> Block \cup {None}] /\ owner' \in [Handle -> Thread]
        /\ life' \in [Block -> {"live", "disposed", "free"}]
    BY DEF HandOver, Safe, TypeOK
  <1>5. QED
    BY <1>1, <1>2, <1>3, <1>4, TypesFrom DEF Safe

LEMMA LockLoadSafe ==
  ASSUME Safe, NEW t \in Thread, NEW w \in Weak, LockLoad(t, w)
  PROVE  Safe'
  <1>1. w \in Handle
    BY DEF Handle
  <1>2. Sound'
    BY LoadSound
  <1>3. pb[w] \in Block /\ pb[w] # None
    BY <1>1 DEF LockLoad, Safe, TypeOK
  <1>4. MemoryTyped'
    BY <1>3, AccessTyped DEF LockLoad, Safe
  <1>5. CallsTyped'
    BY <1>3 DEF LockLoad, Safe, TypeOK, CallsTyped, Place
  <1>6. CountsTyped'
    BY TypesKept DEF LockLoad, Safe
  <1>7. /\ pb' \in [Handle -> Block \cup {None}] /\ owner' \in [Handle -> Thread]
        /\ life' \in [Block -> {"live", "disposed", "free"}]
    BY DEF LockLoad, Safe, TypeOK, handles
  <1>8. QED
    BY <1>2, <1>4, <1>5, <1>6, <1>7, TypesFrom DEF Safe

LEMMA LockRetrySafe ==
  ASSUME Safe, NEW t \in Thread, LockRetry(t)
  PROVE  Safe'
  <1>1. Sound'
    BY LoadSound
  <1>2. at[t] \in Block
    BY DEF LockRetry, Safe, TypeOK
  <1>3. MemoryTyped'
    BY <1>2, AccessTyped DEF LockRetry, Safe
  <1>4. CallsTyped'
    BY <1>2 DEF LockRetry, Safe, TypeOK, CallsTyped
  <1>5. CountsTyped'
    BY TypesKept DEF LockRetry, Safe
  <1>6. /\ pb' \in [Handle -> Block \cup {None}] /\ owner' \in [Handle -> Thread]
        /\ life' \in [Block -> {"live", "disposed", "free"}]
    BY DEF LockRetry, Safe, TypeOK, handles
  <1>7. QED
    BY <1>1, <1>3, <1>4, <1>5, <1>6, TypesFrom DEF Safe

LEMMA LockSucceedsSafe ==
  ASSUME Safe, NEW t \in Thread, NEW h \in Strong, LockSucceeds(t, h)
  PROVE  Safe'
  <1>1. h \in Handle
    BY DEF Handle
  <1>2. /\ at[t] \in Block /\ use[at[t]] = loaded[t] /\ use[at[t]] > 0
        /\ life[at[t]] = "live"
    BY LockFacts DEF LockSucceeds
  <1>3. Sound'
    <2>1. Swap(t, h, at[t]) /\ Shared(h, at[t])
      BY <1>2 DEF LockSucceeds, Swap, Shared
    <2>2. QED
      BY <1>1, <1>2, <2>1, SwapSound
  <1>4. CallsTyped'
    BY <1>1, DropTyped DEF LockSucceeds, Safe, TypeOK
  <1>5. MemoryTyped'
    <2>1. Acquired(at[t], "use") \in SUBSET Event
      BY <1>2 DEF Acquired, Safe, TypeOK
    <2>2. QED
      BY <1>2, <2>1, AtomicTyped DEF LockSucceeds, Safe
  <1>6. CountsTyped'
    BY <1>2 DEF LockSucceeds, Counted, Safe, TypeOK, CountsTyped
  <1>7. /\ pb' \in [Handle -> Block \cup {None}] /\ owner' \in [Handle -> Thread]
        /\ life' \in [Block -> {"live", "disposed", "free"}]
    BY <1>2 DEF LockSucceeds, Safe, TypeOK
  <1>8. QED
    BY <1>3, <1>4, <1>5, <1>6, <1>7, TypesFrom DEF Safe

LEMMA DecUseSafe ==
  ASSUME Safe, NEW t \in Thread, DecUse(t)
  PROVE  Safe'
  <1>1. Sound'
    BY DecUseSound
  <1>2. at[t] \in Block /\ use[at[t]] > 0 /\ pc[t] = "decUse"
    BY DropFacts DEF DecUse
  <1>3. MemoryTyped'
    <2>1. /\ Released(t, at[t]) \in SUBSET Event
          /\ (IF use[at[t]] = 1 THEN Acquired(at[t], "use") ELSE {}) \in SUBSET Event
      BY <1>2 DEF Released, Acquired, Event, Safe, TypeOK
    <2>2. QED
      BY <1>2, <2>1, AtomicTyped DEF DecUse, Safe
  <1>4. CallsTyped'
    <2>1. (IF use[at[t]] = 1 THEN "dispose" ELSE "idle") \in Place
      BY DEF Place
    <2>2. QED
      BY <1>2, <2>1, GoesOnTyped DEF DecUse, Safe
  <1>5. CountsTyped'
    BY <1>2 DEF DecUse, Counted, Safe, TypeOK, CountsTyped
  <1>6. /\ pb' \in [Handle -> Block \cup {None}] /\ owner' \in [Handle -> Thread]
        /\ life' \in [Block -> {"live", "disposed", "free"}]
    BY DEF DecUse, handles, Safe, TypeOK
  <1>7. QED
    BY <1>1, <1>3, <1>4, <1>5, <1>6, TypesFrom DEF Safe

LEMMA DisposeSafe ==
  ASSUME Safe, NEW t \in Thread, Dispose(t)
  PROVE  Safe'
  <1>1. Sound'
    BY DisposeSound
  <1>2. at[t] \in Block /\ pc[t] = "dispose"
    BY DEF Dispose, Safe, TypeOK
  <1>3. MemoryTyped'
    BY <1>2, AccessTyped DEF Dispose, Safe
  <1>4. CallsTyped'
    BY <1>2, GoesOnTyped DEF Dispose, Safe, Place
  <1>5. CountsTyped'
    BY TypesKept DEF Dispose, Safe
  <1>6. /\ pb' \in [Handle -> Block \cup {None}] /\ owner' \in [Handle -> Thread]
        /\ life' \in [Block -> {"live", "disposed", "free"}]
    BY DEF Dispose, handles, Safe, TypeOK
  <1>7. QED
    BY <1>1, <1>3, <1>4, <1>5, <1>6, TypesFrom DEF Safe

LEMMA DecWeakSafe ==
  ASSUME Safe, NEW t \in Thread, DecWeak(t)
  PROVE  Safe'
  <1>1. Sound'
    BY DecWeakSound
  <1>2. at[t] \in Block /\ weak[at[t]] > 0 /\ pc[t] = "decWeak"
    BY DropFacts DEF DecWeak
  <1>3. MemoryTyped'
    <2>1. /\ Released(t, at[t]) \in SUBSET Event
          /\ (IF weak[at[t]] = 1 THEN Acquired(at[t], "weak") ELSE {}) \in SUBSET Event
      BY <1>2 DEF Released, Acquired, Event, Safe, TypeOK
    <2>2. QED
      BY <1>2, <2>1, AtomicTyped DEF DecWeak, Safe
  <1>4. CallsTyped'
    <2>1. (IF weak[at[t]] = 1 THEN "destroy" ELSE "idle") \in Place
      BY DEF Place
    <2>2. QED
      BY <1>2, <2>1, GoesOnTyped DEF DecWeak, Safe
  <1>5. CountsTyped'
    BY <1>2 DEF DecWeak, Safe, TypeOK, CountsTyped
  <1>6. /\ pb' \in [Handle -> Block \cup {None}] /\ owner' \in [Handle -> Thread]
        /\ life' \in [Block -> {"live", "disposed", "free"}]
    BY DEF DecWeak, handles, Safe, TypeOK
  <1>7. QED
    BY <1>1, <1>3, <1>4, <1>5, <1>6, TypesFrom DEF Safe

LEMMA DestroySafe ==
  ASSUME Safe, NEW t \in Thread, Destroy(t)
  PROVE  Safe'
  <1>1. Sound'
    BY DestroySound
  <1>2. at[t] \in Block /\ pc[t] = "destroy"
    BY DEF Destroy, Safe, TypeOK
  <1>3. MemoryTyped'
    <2>1. ASSUME NEW u \in Thread
          PROVE  [known[u] EXCEPT ![at[t]] = {}] \in [Block -> SUBSET Event]
      BY DEF Safe, TypeOK
    <2>2. QED
      BY <2>1 DEF Destroy, Safe, TypeOK, MemoryTyped
  <1>4. CallsTyped'
    BY <1>2, GoesOnTyped DEF Destroy, Safe, Place
  <1>5. CountsTyped'
    BY DEF Destroy, Safe, TypeOK, CountsTyped
  <1>6. /\ pb' \in [Handle -> Block \cup {None}] /\ owner' \in [Handle -> Thread]
        /\ life' \in [Block -> {"live", "disposed", "free"}]
    BY DEF Destroy, handles, Safe, TypeOK
  <1>7. QED
    BY <1>1, <1>3, <1>4, <1>5, <1>6, TypesFrom DEF Safe

LEMMA StepSafe ==
  ASSUME Safe, Next
  PROVE  Safe'
  <1>1. \A t \in Thread, h \in Strong, b \in Block : Make(t, h, b) => Safe'
    BY MakeSafe
  <1>2. \A t \in Thread, h, g \in Strong : Copy(t, h, g) => Safe'
    BY CopySafe
  <1>3. \A t \in Thread, h \in Strong : Use(t, h) \/ LockSucceeds(t, h) => Safe'
    BY UseSafe, LockSucceedsSafe
  <1>4. \A t \in Thread, h \in Handle : Reset(t, h) \/ LockFails(t, h) => Safe'
    BY ResetSafe
  <1>5. \A t \in Thread, w \in Weak, g \in Handle : CopyWeak(t, w, g) => Safe'
    BY CopyWeakSafe
  <1>6. \A t \in Thread, w \in Weak : LockLoad(t, w) => Safe'
    BY LockLoadSafe
  <1>7. \A t \in Thread, h, g \in Handle :
           (h \in Strong <=> g \in Strong) /\ Move(t, h, g) => Safe'
    BY MoveSafe
  <1>8. \A t \in Thread, h \in Handle :
           \A u \in Thread \ {t} : HandOver(t, u, h) => Safe'
    BY HandOverSafe
  <1>9. \A t \in Thread : LockRetry(t) => Safe'
    BY LockRetrySafe
  <1>10. \A t \in Thread : DecUse(t) => Safe'
    BY DecUseSafe
  <1>11. \A t \in Thread : Dispose(t) => Safe'
    BY DisposeSafe
  <1>12. \A t \in Thread : DecWeak(t) => Safe'
    BY DecWeakSafe
  <1>13. \A t \in Thread : Destroy(t) => Safe'
    BY DestroySafe
  <1>14. QED
    BY <1>1, <1>2, <1>3, <1>4, <1>5, <1>6, <1>7, <1>8, <1>9, <1>10, <1>11, <1>12,
       <1>13 DEF Next, Counting, Handle

-----------------------------------------------------------------------------
(***************************************************************************)
(* The memory orders.  Way (b, e): event e is on its way to the deletions  *)
(* it must happen before.                                                  *)
(***************************************************************************)
Way(b, e) == /\ life[b] = "live" /\ e[1] = "object" => ReachesDisposer(b, e)
             /\ (life[b] = "live" /\ ReachesDisposer(b, e)) \/ ReachesDestroyer(b, e)

\* The threads that have yet to drop a shared_ptr, or a weak_ptr, to b.
UseDroppers(b)  == {t \in Thread : \/ \E h \in StrongOn(b) : owner[h] = t
                                   \/ t \in Pending(b, {"decUse", "dispose"})}
WeakDroppers(b) == {t \in Thread : \/ \E w \in WeakOn(b) : owner[w] = t
                                   \/ t \in Pending(b, {"decWeak", "destroy"})}

LEMMA Reaching ==
  ASSUME TypeOK, NEW b \in Block, NEW e
  PROVE  /\ ReachesDisposer(b, e) <=>
              \/ use[b] > 0 /\ e \in carried[b]["use"]
              \/ \E t \in UseDroppers(b) : e \in known[t][b]
         /\ ReachesDestroyer(b, e) <=>
              \/ weak[b] > 0 /\ e \in carried[b]["weak"]
              \/ \E t \in WeakDroppers(b) : e \in known[t][b]
  <1>1. /\ \A h \in StrongOn(b) : owner[h] \in Thread
        /\ \A w \in WeakOn(b) : owner[w] \in Thread
        /\ \A P : Pending(b, P) \subseteq Thread
    BY DEF TypeOK, Handle, StrongOn, WeakOn, Pending
  <1>2. ReachesDisposer(b, e) <=>
          \/ use[b] > 0 /\ e \in carried[b]["use"]
          \/ \E t \in UseDroppers(b) : e \in known[t][b]
    BY <1>1 DEF ReachesDisposer, UseDroppers
  <1>3. ReachesDestroyer(b, e) <=>
          \/ weak[b] > 0 /\ e \in carried[b]["weak"]
          \/ \E t \in WeakDroppers(b) : e \in known[t][b]
    BY <1>1 DEF ReachesDestroyer, WeakDroppers
  <1>4. QED
    BY <1>2, <1>3

\* The thread that disposes, and the one that destroys, is the last dropper.
LEMMA LastDropper ==
  ASSUME Safe, NEW t \in Thread, NEW b \in Block, at[t] = b
  PROVE  /\ pc[t] = "dispose" => UseDroppers(b) = {t}
         /\ pc[t] = "destroy" => WeakDroppers(b) = {t}
  <1>1. ASSUME pc[t] = "dispose"
        PROVE  UseDroppers(b) = {t}
    <2>1. Pending(b, {"dispose"}) = {t} /\ Uses(b) = 0
      <3>1. /\ Pending(b, {"dispose"}) = {t}
            /\ life[b] = "live" /\ use[b] = 0
        BY <1>1 DEF Safe, Sound, NoUseAfterFree, Dying
      <3>2. QED
        BY <3>1, BlockFacts
    <2>2. /\ Cardinality(StrongOn(b)) = 0
          /\ Cardinality(Pending(b, {"decUse"})) = 0
      BY <2>1, Sizes DEF Uses
    <2>3. StrongOn(b) = {} /\ Pending(b, {"decUse"}) = {}
      BY <2>2, Sizes, FS_EmptySet
    <2>4. QED
      BY <2>1, <2>3 DEF UseDroppers, Pending
  <1>2. ASSUME pc[t] = "destroy"
        PROVE  WeakDroppers(b) = {t}
    <2>1. Pending(b, {"lock", "destroy"}) = {t} /\ Weaks(b) = 0
      <3>1. /\ Pending(b, {"lock", "destroy"}) = {t}
            /\ life[b] = "disposed" /\ weak[b] = 0
        BY <1>2 DEF Safe, Sound, NoUseAfterFree, Dying
      <3>2. weak[b] = Weaks(b) + 0 /\ Weaks(b) \in Nat
        BY <3>1, BlockFacts, Sizes
      <3>3. QED
        BY <3>1, <3>2
    <2>2. /\ Cardinality(WeakOn(b)) = 0
          /\ Cardinality(Pending(b, {"decWeak"})) = 0
      BY <2>1, Sizes DEF Weaks
    <2>3. WeakOn(b) = {} /\ Pending(b, {"decWeak"}) = {}
      BY <2>2, Sizes, FS_EmptySet
    <2>4. \A u \in Thread : u \in Pending(b, {"decWeak", "destroy"}) <=> u = t
      <3>1. \A u \in Thread : at[u] = b /\ pc[u] = "destroy" <=> u = t
        BY <1>2, <2>1 DEF Pending
      <3>2. \A u \in Thread : ~(at[u] = b /\ pc[u] = "decWeak")
        BY <2>3 DEF Pending
      <3>3. QED
        BY <3>1, <3>2 DEF Pending
    <2>5. QED
      BY <2>3, <2>4 DEF WeakDroppers
  <1>3. QED
    BY <1>1, <1>2

\* What an access e of t to block b leaves of everybody's knowledge, and what
\* an atomic operation on c publishes.
Effect(t, b, e) ==
  /\ \A c \in Block : done'[c] = IF c = b THEN done[c] \cup {e} ELSE done[c]
  /\ e \in known'[t][b]
  /\ \A f, c : c \in Block /\ (c # b \/ f # e) =>
        /\ \A u \in Thread : f \in known[u][c] => f \in known'[u][c]
        /\ \A d \in {"use", "weak"} : f \in carried[c][d] => f \in carried'[c][d]

LEMMA AccessEffect ==
  ASSUME TypeOK, NEW t \in Thread, NEW b \in Block,
         NEW what \in {"object", "block"}, Access(t, b, what)
  PROVE  Effect(t, b, <<what, t>>)
  <1> DEFINE e == <<what, t>>
  <1> HIDE DEF e
  <1>1. /\ done' = [done EXCEPT ![b] = @ \cup {e}]
        /\ known' = [u \in Thread |->
                       [known[u] EXCEPT ![b] = IF u = t THEN @ \cup {e} ELSE @ \ {e}]]
        /\ carried' = [carried EXCEPT ![b] = [c \in {"use", "weak"} |-> @[c] \ {e}]]
    BY DEF Access, e
  <1>2. \A c \in Block : done'[c] = IF c = b THEN done[c] \cup {e} ELSE done[c]
    BY <1>1 DEF TypeOK
  <1>3. ASSUME NEW u \in Thread, NEW c \in Block
        PROVE  known'[u][c] = IF c # b THEN known[u][c]
                              ELSE IF u = t THEN known[u][c] \cup {e}
                              ELSE known[u][c] \ {e}
    BY <1>1 DEF TypeOK
  <1>4. ASSUME NEW c \in Block, NEW d \in {"use", "weak"}
        PROVE  carried'[c][d] = IF c # b THEN carried[c][d] ELSE carried[c][d] \ {e}
    BY <1>1 DEF TypeOK
  <1>5. ASSUME NEW f, NEW c \in Block, c # b \/ f # e
        PROVE  /\ \A u \in Thread : f \in known[u][c] => f \in known'[u][c]
               /\ \A d \in {"use", "weak"} : f \in carried[c][d] => f \in carried'[c][d]
    <2>1. ASSUME NEW u \in Thread, f \in known[u][c]
          PROVE  f \in known'[u][c]
      BY <1>3, <1>5, <2>1
    <2>2. ASSUME NEW d \in {"use", "weak"}, f \in carried[c][d]
          PROVE  f \in carried'[c][d]
      BY <1>4, <1>5, <2>2
    <2>3. QED
      BY <2>1, <2>2
  <1>6. Effect(t, b, e)
    <2>1. e \in known'[t][b]
      BY <1>3
    <2>2. QED
      BY <1>2, <1>5, <2>1 DEF Effect
  <1>7. QED
    BY <1>6 DEF e

LEMMA AtomicEffect ==
  ASSUME TypeOK, NEW t \in Thread, NEW b \in Block, NEW c \in {"use", "weak"},
         NEW published, NEW learnt, Atomic(t, b, c, published, learnt)
  PROVE  /\ Effect(t, b, <<"block", t>>)
         /\ published \subseteq carried'[b][c]
         /\ learnt \subseteq known'[t][b]
  <1> DEFINE e == <<"block", t>>
  <1> HIDE DEF e
  <1>1. /\ done' = [done EXCEPT ![b] = @ \cup {e}]
        /\ known' = [u \in Thread |->
                       [known[u] EXCEPT ![b] =
                          IF u = t THEN @ \cup {e} \cup learnt ELSE @ \ {e}]]
        /\ carried' = [carried EXCEPT ![b] =
                         [d \in {"use", "weak"} |->
                            (@[d] \ {e}) \cup IF d = c THEN published ELSE {}]]
    BY DEF Atomic, e
  <1>2. \A a \in Block : done'[a] = IF a = b THEN done[a] \cup {e} ELSE done[a]
    BY <1>1 DEF TypeOK
  <1>3. ASSUME NEW u \in Thread, NEW a \in Block
        PROVE  known'[u][a] = IF a # b THEN known[u][a]
                              ELSE IF u = t THEN known[u][a] \cup {e} \cup learnt
                              ELSE known[u][a] \ {e}
    BY <1>1 DEF TypeOK
  <1>4. ASSUME NEW a \in Block, NEW d \in {"use", "weak"}
        PROVE  carried'[a][d] =
                 IF a # b THEN carried[a][d]
                 ELSE (carried[a][d] \ {e}) \cup IF d = c THEN published ELSE {}
    BY <1>1 DEF TypeOK
  <1>5. Effect(t, b, e)
    <2>1. e \in known'[t][b]
      BY <1>3
    <2>2. ASSUME NEW f, NEW a \in Block, a # b \/ f # e
          PROVE  /\ \A u \in Thread : f \in known[u][a] => f \in known'[u][a]
                 /\ \A d \in {"use", "weak"} : f \in carried[a][d] => f \in carried'[a][d]
      <3>1. ASSUME NEW u \in Thread, f \in known[u][a]
            PROVE  f \in known'[u][a]
        BY <1>3, <2>2, <3>1
      <3>2. ASSUME NEW d \in {"use", "weak"}, f \in carried[a][d]
            PROVE  f \in carried'[a][d]
        BY <1>4, <2>2, <3>2
      <3>3. QED
        BY <3>1, <3>2
    <2>3. QED
      BY <1>2, <2>1, <2>2 DEF Effect
  <1>6. published \subseteq carried'[b][c] /\ learnt \subseteq known'[t][b]
    BY <1>3, <1>4
  <1>7. QED
    BY <1>5, <1>6 DEF e

\* An assignment keeps the threads that have a reference to drop.
LEMMA SwapDroppers ==
  ASSUME TypeOK, NEW t \in Thread, NEW h \in Handle,
         NEW x \in Block \cup {None}, Swap(t, h, x), NEW b \in Block
  PROVE  /\ UseDroppers(b) \subseteq UseDroppers(b)'
         /\ WeakDroppers(b) \subseteq WeakDroppers(b)'
         /\ h \in Strong /\ x = b => t \in UseDroppers(b)'
         /\ h \in Weak /\ x = b => t \in WeakDroppers(b)'
  <1>1. PICK p : /\ p = IF pb[h] = None THEN "idle"
                        ELSE IF h \in Strong THEN "decUse" ELSE "decWeak"
                 /\ pc' = [pc EXCEPT ![t] = p]
                 /\ at' = [at EXCEPT ![t] = pb[h]]
    BY DropMoves DEF Swap, TypeOK
  <1>2. /\ pb' = [pb EXCEPT ![h] = x] /\ pc[t] \in {"idle", "lock"}
        /\ owner[h] = t /\ owner' = owner
        /\ h \in Strong <=> h \notin Weak
        /\ b # None
    BY PtrAssumption DEF Swap, TypeOK, Handle
  <1>3. ASSUME NEW k \in Handle, k # h
        PROVE  pb'[k] = pb[k]
    BY <1>2, <1>3 DEF TypeOK
  <1>4. pb'[h] = x
    BY <1>2 DEF TypeOK
  <1>5. ASSUME NEW u \in Thread, u # t
        PROVE  pc'[u] = pc[u] /\ at'[u] = at[u]
    BY <1>1, <1>5 DEF TypeOK
  <1>6. pc'[t] = p /\ at'[t] = pb[h]
    BY <1>1 DEF TypeOK
  <1>7. ASSUME NEW u \in UseDroppers(b)
        PROVE  u \in UseDroppers(b)'
    <2>1. CASE u \in Pending(b, {"decUse", "dispose"})
      BY <1>2, <1>5, <2>1 DEF UseDroppers, Pending
    <2>2. CASE \E k \in StrongOn(b) : owner[k] = u
      <3>1. PICK k \in Strong : pb[k] = b /\ owner[k] = u
        BY <2>2 DEF StrongOn
      <3>2. CASE k = h
        BY <1>1, <1>2, <1>6, <3>1, <3>2 DEF UseDroppers, Pending
      <3>3. CASE k # h
        BY <1>2, <1>3, <3>1, <3>3 DEF UseDroppers, StrongOn, Handle
      <3>4. QED
        BY <3>2, <3>3
    <2>3. QED
      BY <2>1, <2>2 DEF UseDroppers
  <1>8. ASSUME NEW u \in WeakDroppers(b)
        PROVE  u \in WeakDroppers(b)'
    <2>1. CASE u \in Pending(b, {"decWeak", "destroy"})
      BY <1>2, <1>5, <2>1 DEF WeakDroppers, Pending
    <2>2. CASE \E k \in WeakOn(b) : owner[k] = u
      <3>1. PICK k \in Weak : pb[k] = b /\ owner[k] = u
        BY <2>2 DEF WeakOn
      <3>2. CASE k = h
        BY <1>1, <1>2, <1>6, <3>1, <3>2 DEF WeakDroppers, Pending
      <3>3. CASE k # h
        BY <1>2, <1>3, <3>1, <3>3 DEF WeakDroppers, WeakOn, Handle
      <3>4. QED
        BY <3>2, <3>3
    <2>3. QED
      BY <2>1, <2>2 DEF WeakDroppers
  <1>9. /\ h \in Strong /\ x = b => t \in UseDroppers(b)'
        /\ h \in Weak /\ x = b => t \in WeakDroppers(b)'
    BY <1>2, <1>4 DEF UseDroppers, WeakDroppers, StrongOn, WeakOn
  <1>10. QED
    BY <1>7, <1>8, <1>9

LEMMA MoveDroppers ==
  ASSUME TypeOK, NEW t \in Thread, NEW h \in Handle, NEW g \in Handle,
         h \in Strong <=> g \in Strong, Move(t, h, g), NEW b \in Block
  PROVE  /\ UseDroppers(b) \subseteq UseDroppers(b)'
         /\ WeakDroppers(b) \subseteq WeakDroppers(b)'
  <1>1. CASE h = g
    <2>1. /\ pb' = pb /\ pc' = pc /\ at' = at /\ owner' = owner
      BY <1>1, DropMoves DEF Move, Holds, TypeOK
    <2>2. QED
      BY <2>1 DEF UseDroppers, WeakDroppers, StrongOn, WeakOn, Pending
  <1>2. CASE h # g
    <2>1. PICK p : /\ p = IF pb[h] = None THEN "idle"
                          ELSE IF h \in Strong THEN "decUse" ELSE "decWeak"
                   /\ pc' = [pc EXCEPT ![t] = p]
                   /\ at' = [at EXCEPT ![t] = pb[h]]
      BY <1>2, DropMoves DEF Move, TypeOK
    <2>2. /\ pb' = [pb EXCEPT ![g] = None, ![h] = pb[g]] /\ pc[t] = "idle"
          /\ owner[h] = t /\ owner[g] = t /\ owner' = owner
          /\ h \in Strong <=> h \notin Weak
          /\ g \in Strong <=> g \notin Weak
          /\ b # None
      BY PtrAssumption DEF Move, Holds, TypeOK, Handle
    <2>3. ASSUME NEW k \in Handle, k # h, k # g
          PROVE  pb'[k] = pb[k]
      BY <2>2, <2>3 DEF TypeOK
    <2>4. pb'[h] = pb[g]
      BY <1>2, <2>2 DEF TypeOK
    <2>5. ASSUME NEW u \in Thread, u # t
          PROVE  pc'[u] = pc[u] /\ at'[u] = at[u]
      BY <2>1, <2>5 DEF TypeOK
    <2>6. pc'[t] = p /\ at'[t] = pb[h]
      BY <2>1 DEF TypeOK
    <2>7. ASSUME NEW u \in UseDroppers(b)
          PROVE  u \in UseDroppers(b)'
      <3>1. CASE u \in Pending(b, {"decUse", "dispose"})
        BY <2>2, <2>5, <3>1 DEF UseDroppers, Pending
      <3>2. CASE \E k \in StrongOn(b) : owner[k] = u
        <4>1. PICK k \in Strong : pb[k] = b /\ owner[k] = u
          BY <3>2 DEF StrongOn
        <4>2. CASE k = h
          BY <2>1, <2>2, <2>6, <4>1, <4>2 DEF UseDroppers, Pending
        <4>3. CASE k = g
          BY <2>2, <2>4, <4>1, <4>3 DEF UseDroppers, StrongOn
        <4>4. CASE k # h /\ k # g
          BY <2>2, <2>3, <4>1, <4>4 DEF UseDroppers, StrongOn, Handle
        <4>5. QED
          BY <4>2, <4>3, <4>4
      <3>3. QED
        BY <3>1, <3>2 DEF UseDroppers
    <2>8. ASSUME NEW u \in WeakDroppers(b)
          PROVE  u \in WeakDroppers(b)'
      <3>1. CASE u \in Pending(b, {"decWeak", "destroy"})
        BY <2>2, <2>5, <3>1 DEF WeakDroppers, Pending
      <3>2. CASE \E k \in WeakOn(b) : owner[k] = u
        <4>1. PICK k \in Weak : pb[k] = b /\ owner[k] = u
          BY <3>2 DEF WeakOn
        <4>2. CASE k = h
          BY <2>1, <2>2, <2>6, <4>1, <4>2 DEF WeakDroppers, Pending
        <4>3. CASE k = g
          BY <2>2, <2>4, <4>1, <4>3 DEF WeakDroppers, WeakOn
        <4>4. CASE k # h /\ k # g
          BY <2>2, <2>3, <4>1, <4>4 DEF WeakDroppers, WeakOn, Handle
        <4>5. QED
          BY <4>2, <4>3, <4>4
      <3>3. QED
        BY <3>1, <3>2 DEF WeakDroppers
    <2>9. QED
      BY <2>7, <2>8
  <1>3. QED
    BY <1>1, <1>2

\* Who tells the deletion of an event, after the step.
LEMMA Arrives ==
  ASSUME NEW b, NEW e, NEW t
  PROVE  /\ (t \in UseDroppers(b))' /\ e \in known'[t][b] => ReachesDisposer(b, e)'
         /\ (t \in WeakDroppers(b))' /\ e \in known'[t][b] => ReachesDestroyer(b, e)'
         /\ use'[b] > 0 /\ e \in carried'[b]["use"] => ReachesDisposer(b, e)'
         /\ weak'[b] > 0 /\ e \in carried'[b]["weak"] => ReachesDestroyer(b, e)'
  BY DEF UseDroppers, WeakDroppers, ReachesDisposer, ReachesDestroyer

\* An event stays on its way if nobody forgets it and nobody who is to drop a
\* reference disappears.
LEMMA Stays ==
  ASSUME TypeOK, NEW b \in Block, NEW e, Way(b, e), life'[b] = life[b],
         UseDroppers(b) \subseteq UseDroppers(b)',
         WeakDroppers(b) \subseteq WeakDroppers(b)',
         \A u \in Thread : e \in known[u][b] => e \in known'[u][b],
         \A d \in {"use", "weak"} : e \in carried[b][d] => e \in carried'[b][d],
         use[b] > 0 => use'[b] > 0,
         weak[b] > 0 => weak'[b] > 0
  PROVE  Way(b, e)'
  <1>1. ReachesDisposer(b, e) => ReachesDisposer(b, e)'
    <2>1. CASE use[b] > 0 /\ e \in carried[b]["use"]
      BY <2>1, Arrives
    <2>2. CASE \E t \in UseDroppers(b) : e \in known[t][b]
      <3>1. PICK t \in UseDroppers(b) : e \in known[t][b]
        BY <2>2
      <3>2. t \in Thread
        BY DEF UseDroppers
      <3>3. (t \in UseDroppers(b))' /\ e \in known'[t][b]
        BY <3>1, <3>2
      <3>4. QED
        BY <3>3, Arrives
    <2>3. QED
      BY <2>1, <2>2, Reaching
  <1>2. ReachesDestroyer(b, e) => ReachesDestroyer(b, e)'
    <2>1. CASE weak[b] > 0 /\ e \in carried[b]["weak"]
      BY <2>1, Arrives
    <2>2. CASE \E t \in WeakDroppers(b) : e \in known[t][b]
      <3>1. PICK t \in WeakDroppers(b) : e \in known[t][b]
        BY <2>2
      <3>2. t \in Thread
        BY DEF WeakDroppers
      <3>3. (t \in WeakDroppers(b))' /\ e \in known'[t][b]
        BY <3>1, <3>2
      <3>4. QED
        BY <3>3, Arrives
    <2>3. QED
      BY <2>1, <2>2, Reaching
  <1>3. QED
    BY <1>1, <1>2 DEF Way

LEMMA Ways ==
  /\ OnItsWay <=> \A b \in Block : \A e \in done[b] : Way(b, e)
  /\ OnItsWay' <=> \A b \in Block : \A e \in done'[b] : Way(b, e)'
  BY DEF OnItsWay, Way

\* A new control block: its object and it are accessed by t, who has a handle.
LEMMA MakeWay ==
  ASSUME Safe, OnItsWay, NEW t \in Thread, NEW h \in Strong, NEW b \in Block,
         Make(t, h, b)
  PROVE  OnItsWay'
  <1> SUFFICES ASSUME NEW c \in Block, NEW e \in done'[c]
               PROVE  Way(c, e)'
    BY Ways
  <1>1. h \in Handle /\ Swap(t, h, b)
    BY DEF Make, Holds, Swap, Handle
  <1>2. CASE c = b
    <2>1. life'[b] = "live"
      BY DEF Make, Safe, TypeOK
    <2>2. done'[b] = {"object", "block"} \X {t} /\ known'[t][b] = {"object", "block"} \X {t}
      BY DEF Make, Safe, TypeOK
    <2>3. (t \in UseDroppers(b))'
      BY <1>1, SwapDroppers DEF Safe
    <2>4. ReachesDisposer(b, e)'
      BY <1>2, <2>2, <2>3, Arrives
    <2>5. QED
      BY <1>2, <2>1, <2>4 DEF Way
  <1>3. CASE c # b
    <2>1. /\ done'[c] = done[c] /\ life'[c] = life[c]
          /\ use'[c] = use[c] /\ weak'[c] = weak[c] /\ carried'[c] = carried[c]
      BY <1>3 DEF Make, Safe, TypeOK
    <2>2. \A u \in Thread : known'[u][c] = known[u][c]
      BY <1>3 DEF Make, Safe, TypeOK
    <2>3. /\ UseDroppers(c) \subseteq UseDroppers(c)'
          /\ WeakDroppers(c) \subseteq WeakDroppers(c)'
      BY <1>1, SwapDroppers DEF Safe
    <2>4. Way(c, e)
      BY <2>1, Ways
    <2>5. QED
      BY <2>1, <2>2, <2>3, <2>4, Stays DEF Safe
  <1>4. QED
    BY <1>2, <1>3

\* A handle shares x, and the access to x is known by t, who now owns that handle.
LEMMA ShareWay ==
  ASSUME Safe, OnItsWay, NEW t \in Thread, NEW h \in Handle, NEW x \in Block,
         Swap(t, h, x), Shared(h, x) \/ Watched(h, x),
         Effect(t, x, <<"block", t>>)
  PROVE  OnItsWay'
  <1> DEFINE new == <<"block", t>>
  <1>1. new[1] # "object" /\ Effect(t, x, new)
    OBVIOUS
  <1> HIDE DEF new
  <1> SUFFICES ASSUME NEW c \in Block, NEW e \in done'[c]
               PROVE  Way(c, e)'
    BY Ways
  <1>2. /\ UseDroppers(c) \subseteq UseDroppers(c)'
        /\ WeakDroppers(c) \subseteq WeakDroppers(c)'
        /\ h \in Strong /\ x = c => (t \in UseDroppers(c))'
        /\ h \in Weak /\ x = c => (t \in WeakDroppers(c))'
    BY SwapDroppers DEF Safe
  <1>3. life'[c] = life[c] /\ (h \in Strong /\ x = c => life[c] = "live")
    <2>1. (h \in Strong => h \notin Weak) /\ (h \in Weak => h \notin Strong)
      BY PtrAssumption
    <2>2. QED
      BY <2>1 DEF Shared, Watched
  <1>4. CASE c = x /\ e = new
    <2>1. e \in known'[t][c]
      BY <1>1, <1>4 DEF Effect
    <2>2. CASE h \in Strong
      BY <1>2, <1>3, <1>4, <2>1, <2>2, Arrives DEF Way
    <2>3. CASE h \in Weak
      BY <1>1, <1>2, <1>4, <2>1, <2>3, Arrives DEF Way
    <2>4. QED
      BY <2>2, <2>3 DEF Handle
  <1>5. CASE c # x \/ e # new
    <2>1. e \in done[c]
      <3>1. done'[c] = IF c = x THEN done[c] \cup {new} ELSE done[c]
        BY <1>1 DEF Effect
      <3>2. QED
        BY <1>5, <3>1
    <2>2. /\ \A u \in Thread : e \in known[u][c] => e \in known'[u][c]
          /\ \A d \in {"use", "weak"} : e \in carried[c][d] => e \in carried'[c][d]
      BY <1>1, <1>5 DEF Effect
    <2>3. /\ use[c] > 0 => use'[c] > 0
          /\ weak[c] > 0 => weak'[c] > 0
      BY DEF Shared, Watched, Counted, Safe, TypeOK
    <2>4. Way(c, e)
      BY <2>1, Ways
    <2>5. QED
      BY <1>2, <1>3, <2>2, <2>3, <2>4, Stays DEF Safe
  <1>6. QED
    BY <1>4, <1>5

LEMMA CopyWay ==
  ASSUME Safe, OnItsWay, NEW t \in Thread, NEW h \in Strong, NEW g \in Strong,
         Copy(t, h, g)
  PROVE  OnItsWay'
  <1>1. h \in Handle /\ g \in Handle
    BY DEF Handle
  <1>2. pb[g] \in Block /\ life[pb[g]] = "live" /\ use[pb[g]] > 0
    BY <1>1, HandleFacts DEF Copy
  <1>3. Swap(t, h, pb[g]) /\ Shared(h, pb[g])
    BY <1>2 DEF Copy, Holds, Swap, Shared
  <1>4. Effect(t, pb[g], <<"block", t>>)
    BY <1>2, AtomicEffect DEF Copy, Safe
  <1>5. QED
    BY <1>1, <1>2, <1>3, <1>4, ShareWay

LEMMA CopyWeakWay ==
  ASSUME Safe, OnItsWay, NEW t \in Thread, NEW w \in Weak, NEW g \in Handle,
         CopyWeak(t, w, g)
  PROVE  OnItsWay'
  <1>1. w \in Handle
    BY DEF Handle
  <1>2. pb[g] \in Block /\ life[pb[g]] # "free" /\ weak[pb[g]] > 0
    BY HandleFacts DEF CopyWeak
  <1>3. Swap(t, w, pb[g]) /\ Watched(w, pb[g])
    BY <1>2 DEF CopyWeak, Holds, Swap, Watched
  <1>4. Effect(t, pb[g], <<"block", t>>)
    BY <1>2, AtomicEffect DEF CopyWeak, Safe
  <1>5. QED
    BY <1>1, <1>2, <1>3, <1>4, ShareWay

LEMMA LockSucceedsWay ==
  ASSUME Safe, OnItsWay, NEW t \in Thread, NEW h \in Strong, LockSucceeds(t, h)
  PROVE  OnItsWay'
  <1>1. h \in Handle
    BY DEF Handle
  <1>2. /\ at[t] \in Block /\ use[at[t]] = loaded[t] /\ use[at[t]] > 0
        /\ life[at[t]] = "live"
    BY LockFacts DEF LockSucceeds
  <1>3. Swap(t, h, at[t]) /\ Shared(h, at[t])
    BY <1>2 DEF LockSucceeds, Swap, Shared
  <1>4. Effect(t, at[t], <<"block", t>>)
    BY <1>2, AtomicEffect DEF LockSucceeds, Safe
  <1>5. QED
    BY <1>1, <1>2, <1>3, <1>4, ShareWay

LEMMA MoveWay ==
  ASSUME Safe, OnItsWay, NEW t \in Thread, NEW h \in Handle, NEW g \in Handle,
         h \in Strong <=> g \in Strong, Move(t, h, g)
  PROVE  OnItsWay'
  <1> SUFFICES ASSUME NEW c \in Block, NEW e \in done'[c]
               PROVE  Way(c, e)'
    BY Ways
  <1>1. UNCHANGED <<use, weak, life, done, known, carried>>
    BY DEF Move, counts, memory
  <1>2. Way(c, e)
    BY <1>1, Ways
  <1>3. /\ UseDroppers(c) \subseteq UseDroppers(c)'
        /\ WeakDroppers(c) \subseteq WeakDroppers(c)'
    BY MoveDroppers DEF Safe
  <1>4. QED
    BY <1>1, <1>2, <1>3, Stays DEF Safe

LEMMA ResetWay ==
  ASSUME Safe, OnItsWay, NEW t \in Thread, NEW h \in Handle,
         Reset(t, h) \/ LockFails(t, h)
  PROVE  OnItsWay'
  <1> SUFFICES ASSUME NEW c \in Block, NEW e \in done'[c]
               PROVE  Way(c, e)'
    BY Ways
  <1>1. UNCHANGED <<use, weak, life, done, known, carried>> /\ Swap(t, h, None)
    BY DEF Reset, LockFails, Holds, Swap, counts, memory
  <1>2. Way(c, e)
    BY <1>1, Ways
  <1>3. /\ UseDroppers(c) \subseteq UseDroppers(c)'
        /\ WeakDroppers(c) \subseteq WeakDroppers(c)'
    BY <1>1, SwapDroppers DEF Safe
  <1>4. QED
    BY <1>1, <1>2, <1>3, Stays DEF Safe

\* A thread accesses a block to which it has a handle.
LEMMA AccessWay ==
  ASSUME Safe, OnItsWay, NEW t \in Thread, NEW b \in Block, NEW h \in Handle,
         NEW what \in {"object", "block"}, Access(t, b, what),
         pb[h] = b, owner[h] = t, life[b] # "free",
         h \in Strong \/ what = "block",
         UNCHANGED <<pb, owner, use, weak, life>>,
         \A c \in Block : /\ UseDroppers(c) \subseteq UseDroppers(c)'
                          /\ WeakDroppers(c) \subseteq WeakDroppers(c)'
  PROVE  OnItsWay'
  <1> DEFINE new == <<what, t>>
  <1>1. new[1] = what /\ Effect(t, b, new)
    BY AccessEffect DEF Safe
  <1> HIDE DEF new
  <1> SUFFICES ASSUME NEW c \in Block, NEW e \in done'[c]
               PROVE  Way(c, e)'
    BY Ways
  <1>2. CASE c = b /\ e = new
    <2>1. e \in known'[t][c]
      BY <1>1, <1>2 DEF Effect
    <2>2. CASE h \in Strong
      <3>1. (t \in UseDroppers(c))' /\ life'[c] = "live"
        BY <1>2, <2>2, BlockFacts
           DEF UseDroppers, StrongOn, Safe, Sound, NoUseAfterFree
      <3>2. QED
        BY <2>1, <3>1, Arrives DEF Way
    <2>3. CASE h \in Weak /\ what = "block"
      <3>1. (t \in WeakDroppers(c))' /\ e[1] # "object"
        BY <1>1, <1>2, <2>3 DEF WeakDroppers, WeakOn
      <3>2. QED
        BY <2>1, <3>1, Arrives DEF Way
    <2>4. QED
      BY <2>2, <2>3 DEF Handle
  <1>3. CASE c # b \/ e # new
    <2>1. e \in done[c]
      <3>1. done'[c] = IF c = b THEN done[c] \cup {new} ELSE done[c]
        BY <1>1 DEF Effect
      <3>2. QED
        BY <1>3, <3>1
    <2>2. /\ \A u \in Thread : e \in known[u][c] => e \in known'[u][c]
          /\ \A d \in {"use", "weak"} : e \in carried[c][d] => e \in carried'[c][d]
      BY <1>1, <1>3 DEF Effect
    <2>3. Way(c, e)
      BY <2>1, Ways
    <2>4. QED
      BY <2>2, <2>3, Stays DEF Safe
  <1>4. QED
    BY <1>2, <1>3

LEMMA UseWay ==
  ASSUME Safe, OnItsWay, NEW t \in Thread, NEW h \in Strong, Use(t, h)
  PROVE  OnItsWay'
  <1>1. h \in Handle
    BY DEF Handle
  <1>2. pb[h] \in Block /\ owner[h] = t /\ life[pb[h]] # "free"
    BY <1>1 DEF Use, Holds, Safe, Sound, NoUseAfterFree, TypeOK
  <1>3. UNCHANGED <<pb, owner, use, weak, life, pc, at>> /\ Access(t, pb[h], "object")
    BY DEF Use, handles, counts, calls
  <1>4. \A c \in Block : /\ UseDroppers(c) \subseteq UseDroppers(c)'
                         /\ WeakDroppers(c) \subseteq WeakDroppers(c)'
    BY <1>3 DEF UseDroppers, WeakDroppers, StrongOn, WeakOn, Pending
  <1>5. QED
    BY <1>1, <1>2, <1>3, <1>4, AccessWay

LEMMA LoadWay ==
  ASSUME Safe, OnItsWay, NEW t \in Thread,
         LockRetry(t) \/ \E w \in Weak : LockLoad(t, w)
  PROVE  OnItsWay'
  <1>1. PICK w \in Weak :
          /\ pb[w] \in Block /\ owner[w] = t
          /\ Access(t, pb[w], "block")
          /\ UNCHANGED <<pb, owner, use, weak, life>>
          /\ pc[t] \in {"idle", "lock"}
          /\ \A u \in Thread \ {t} : pc'[u] = pc[u] /\ at'[u] = at[u]
    <2>1. CASE LockRetry(t)
      <3>1. /\ at[t] \in Block /\ pc[t] = "lock" /\ pc' = pc /\ at' = at
            /\ Access(t, at[t], "block")
            /\ UNCHANGED <<pb, owner, use, weak, life>>
        BY <2>1 DEF LockRetry, handles, counts, Safe, TypeOK
      <3>2. PICK w \in Weak : pb[w] = at[t] /\ owner[w] = t
        BY <3>1 DEF Safe, Sound, Dying
      <3>3. QED
        BY <3>1, <3>2
    <2>2. CASE \E w \in Weak : LockLoad(t, w)
      <3>1. PICK w \in Weak : LockLoad(t, w)
        BY <2>2
      <3>2. w \in Handle
        BY DEF Handle
      <3>3. /\ pb[w] \in Block /\ owner[w] = t /\ pc[t] = "idle"
            /\ Access(t, pb[w], "block")
            /\ UNCHANGED <<pb, owner, use, weak, life>>
        BY <3>1, <3>2 DEF LockLoad, Holds, handles, counts, Safe, TypeOK
      <3>4. \A u \in Thread \ {t} : pc'[u] = pc[u] /\ at'[u] = at[u]
        BY <3>1 DEF LockLoad, Safe, TypeOK
      <3>5. QED
        BY <3>3, <3>4
    <2>3. QED
      BY <2>1, <2>2
  <1>2. w \in Handle /\ life[pb[w]] # "free"
    BY <1>1, PtrAssumption DEF Handle, Safe, Sound, NoUseAfterFree
  <1>3. ASSUME NEW c \in Block
        PROVE  /\ UseDroppers(c) \subseteq UseDroppers(c)'
               /\ WeakDroppers(c) \subseteq WeakDroppers(c)'
    <2>1. ASSUME NEW P, NEW u \in Pending(c, P), "idle" \notin P, "lock" \notin P
          PROVE  u \in Pending(c, P)'
      BY <1>1, <2>1 DEF Pending
    <2>2. StrongOn(c)' = StrongOn(c) /\ WeakOn(c)' = WeakOn(c) /\ owner' = owner
      BY <1>1 DEF StrongOn, WeakOn
    <2>3. /\ Pending(c, {"decUse", "dispose"}) \subseteq Pending(c, {"decUse", "dispose"})'
          /\ Pending(c, {"decWeak", "destroy"}) \subseteq Pending(c, {"decWeak", "destroy"})'
      BY <2>1
    <2>4. QED
      BY <2>2, <2>3 DEF UseDroppers, WeakDroppers
  <1>4. QED
    BY <1>1, <1>2, <1>3, AccessWay

\* The new owner of a handle knows whatever the old one knows.
LEMMA HandOverWay ==
  ASSUME Safe, OnItsWay, NEW t \in Thread, NEW u \in Thread \ {t}, NEW h \in Handle,
         HandOver(t, u, h)
  PROVE  OnItsWay'
  <1> SUFFICES ASSUME NEW c \in Block, NEW e \in done'[c]
               PROVE  Way(c, e)'
    BY Ways
  <1>1. /\ UNCHANGED <<pb, use, weak, life, pc, at, done, carried>>
        /\ owner' = [owner EXCEPT ![h] = u] /\ owner[h] = t
    BY DEF HandOver, Holds, counts, calls
  <1>2. ASSUME NEW v \in Thread, e \in known[v][c]
        PROVE  e \in known'[v][c] /\ (v = t => e \in known'[u][c])
    BY <1>2 DEF HandOver, Safe, TypeOK
  <1>3. ASSUME NEW k \in Handle, e \in known[owner[k]][c]
        PROVE  e \in known'[owner'[k]][c]
    <2>1. owner[k] \in Thread
      BY DEF Safe, TypeOK
    <2>2. CASE k = h
      BY <1>1, <1>2, <1>3, <2>2 DEF Safe, TypeOK
    <2>3. CASE k # h
      BY <1>1, <1>2, <1>3, <2>1, <2>3 DEF Safe, TypeOK
    <2>4. QED
      BY <2>2, <2>3
  <1>4. /\ StrongOn(c)' = StrongOn(c) /\ WeakOn(c)' = WeakOn(c)
        /\ \A P : Pending(c, P)' = Pending(c, P) /\ Pending(c, P) \subseteq Thread
        /\ StrongOn(c) \subseteq Handle /\ WeakOn(c) \subseteq Handle
    BY <1>1 DEF StrongOn, WeakOn, Pending, Handle
  <1>5. ReachesDisposer(c, e) => ReachesDisposer(c, e)'
    BY <1>1, <1>2, <1>3, <1>4 DEF ReachesDisposer
  <1>6. ReachesDestroyer(c, e) => ReachesDestroyer(c, e)'
    BY <1>1, <1>2, <1>3, <1>4 DEF ReachesDestroyer
  <1>7. Way(c, e)
    BY <1>1, Ways
  <1>8. QED
    BY <1>1, <1>5, <1>6, <1>7 DEF Way

\* A dropper publishes what it knows in use_count; the last one learns what
\* the others have published.
LEMMA DecUseWay ==
  ASSUME Safe, OnItsWay, NEW t \in Thread, DecUse(t)
  PROVE  OnItsWay'
  <1> DEFINE new == <<"block", t>>
  <1>1. PICK b \in Block : b = at[t] /\ pc[t] = "decUse" /\ use[b] > 0 /\ use[b] \in Nat
    BY DropFacts DEF DecUse
  <1>2. PICK p : /\ p = IF use[b] = 1 THEN "dispose" ELSE "idle"
                 /\ pc' = [pc EXCEPT ![t] = p]
                 /\ at' = [at EXCEPT ![t] = IF p = "idle" THEN None ELSE b]
    BY <1>1, GoesOnMoves DEF DecUse, Safe
  <1>3. /\ UNCHANGED <<pb, owner, weak, life>>
        /\ \A c \in Block : use'[c] = IF c = b THEN use[c] - 1 ELSE use[c]
    BY <1>1 DEF DecUse, Counted, handles, Safe, TypeOK
  <1>4. /\ Effect(t, b, new)
        /\ Released(t, b) \subseteq carried'[b]["use"]
        /\ p = "dispose" => Acquired(b, "use") \subseteq known'[t][b]
    <2>1. Atomic(t, b, "use", Released(t, b),
                 IF use[b] = 1 THEN Acquired(b, "use") ELSE {})
      BY <1>1 DEF DecUse
    <2>2. /\ Effect(t, b, new) /\ Released(t, b) \subseteq carried'[b]["use"]
          /\ (IF use[b] = 1 THEN Acquired(b, "use") ELSE {}) \subseteq known'[t][b]
      BY <2>1, AtomicEffect DEF Safe
    <2>3. QED
      BY <1>2, <2>2
  <1>5. new \in Released(t, b) /\ new[1] = "block"
    BY DEF Released
  <1> HIDE DEF new
  <1>6. ASSUME NEW u \in Thread, u # t
        PROVE  pc'[u] = pc[u] /\ at'[u] = at[u]
    BY <1>2, <1>6 DEF Safe, TypeOK
  <1>7. pc'[t] = p /\ (p = "dispose" => at'[t] = b)
    BY <1>2 DEF Safe, TypeOK
  <1>8. ASSUME NEW c \in Block
        PROVE  /\ WeakDroppers(c) \subseteq WeakDroppers(c)'
               /\ UseDroppers(c) \ {t} \subseteq UseDroppers(c)'
               /\ c # b => UseDroppers(c) \subseteq UseDroppers(c)'
               /\ c = b /\ p = "dispose" => (t \in UseDroppers(c))'
    <2>1. StrongOn(c)' = StrongOn(c) /\ WeakOn(c)' = WeakOn(c)
      BY <1>3 DEF StrongOn, WeakOn
    <2>2. ASSUME NEW P
          PROVE  Pending(c, P) \ {t} \subseteq Pending(c, P)'
      BY <1>6 DEF Pending
    <2>3. /\ t \notin Pending(c, {"decWeak", "destroy"})
          /\ c # b => t \notin Pending(c, {"decUse", "dispose"})
          /\ c = b /\ p = "dispose" => t \in Pending(c, {"decUse", "dispose"})'
      BY <1>1, <1>7 DEF Pending
    <2>4. /\ Pending(c, {"decUse", "dispose"}) \ {t}
               \subseteq Pending(c, {"decUse", "dispose"})'
          /\ Pending(c, {"decWeak", "destroy"}) \ {t}
               \subseteq Pending(c, {"decWeak", "destroy"})'
      BY <2>2
    <2>5. QED
      BY <1>3, <2>1, <2>3, <2>4 DEF UseDroppers, WeakDroppers
  <1> SUFFICES ASSUME NEW c \in Block, NEW e \in done'[c]
               PROVE  Way(c, e)'
    BY Ways
  <1>9. CASE c # b
    <2>1. e \in done[c]
      BY <1>4, <1>9 DEF Effect
    <2>2. /\ \A u \in Thread : e \in known[u][c] => e \in known'[u][c]
          /\ \A d \in {"use", "weak"} : e \in carried[c][d] => e \in carried'[c][d]
      BY <1>4, <1>9 DEF Effect
    <2>3. Way(c, e)
      BY <2>1, Ways
    <2>4. QED
      BY <1>3, <1>8, <1>9, <2>2, <2>3, Stays DEF Safe
  <1>10. CASE c = b
    <2>1. life'[c] = "live"
      BY <1>1, <1>3, <1>10 DEF Safe, Sound, Dying
    <2>2. p = "idle" => use'[c] > 0
      BY <1>1, <1>2, <1>3, <1>10
    <2>3. p \in {"idle", "dispose"}
      BY <1>2
    <2>4. e \in Released(t, b) \/ e = new => ReachesDisposer(c, e)'
      <3>1. CASE p = "idle"
        BY <1>4, <1>5, <1>10, <2>2, <3>1, Arrives
      <3>2. CASE p = "dispose"
        <4>1. e = new \/ e \in known[t][b] => e \in known'[t][c]
          BY <1>4, <1>10 DEF Effect
        <4>2. e \in Released(t, b) => e = new \/ e \in known[t][b]
          BY DEF Released, new
        <4>3. QED
          BY <1>8, <1>10, <3>2, <4>1, <4>2, Arrives
      <3>3. QED
        BY <2>3, <3>1, <3>2
    <2>5. CASE e = new
      BY <2>1, <2>4, <2>5 DEF Way
    <2>6. CASE e # new
      <3>1. e \in done[c]
        BY <1>4, <1>10, <2>6 DEF Effect
      <3>2. /\ \A u \in Thread : e \in known[u][c] => e \in known'[u][c]
            /\ \A d \in {"use", "weak"} : e \in carried[c][d] => e \in carried'[c][d]
        BY <1>4, <2>6 DEF Effect
      <3>3. ReachesDisposer(c, e) => ReachesDisposer(c, e)'
        <4>1. CASE e \in carried[c]["use"]
          <5>1. CASE p = "idle"
            BY <2>2, <3>2, <4>1, <5>1, Arrives
          <5>2. CASE p = "dispose"
            BY <1>4, <1>8, <1>10, <4>1, <5>2, Arrives DEF Acquired
          <5>3. QED
            BY <2>3, <5>1, <5>2
        <4>2. CASE \E u \in UseDroppers(c) : e \in known[u][c]
          <5>1. PICK u \in UseDroppers(c) : e \in known[u][c]
            BY <4>2
          <5>2. u \in Thread
            BY DEF UseDroppers
          <5>3. CASE u = t
            BY <1>10, <2>4, <5>1, <5>3 DEF Released
          <5>4. CASE u # t
            BY <1>8, <3>2, <5>1, <5>2, <5>4, Arrives
          <5>5. QED
            BY <5>3, <5>4
        <4>3. QED
          BY <4>1, <4>2, Reaching DEF Safe
      <3>4. ReachesDestroyer(c, e) => ReachesDestroyer(c, e)'
        <4>1. CASE weak[c] > 0 /\ e \in carried[c]["weak"]
          BY <1>3, <3>2, <4>1, Arrives
        <4>2. CASE \E u \in WeakDroppers(c) : e \in known[u][c]
          <5>1. PICK u \in WeakDroppers(c) : e \in known[u][c]
            BY <4>2
          <5>2. u \in Thread
            BY DEF WeakDroppers
          <5>3. QED
            BY <1>8, <3>2, <5>1, <5>2, Arrives
        <4>3. QED
          BY <4>1, <4>2, Reaching DEF Safe
      <3>5. Way(c, e)
        BY <3>1, Ways
      <3>6. QED
        BY <1>3, <3>3, <3>4, <3>5 DEF Way
    <2>7. QED
      BY <2>5, <2>6
  <1>11. QED
    BY <1>9, <1>10

\* The disposer knows everything that was on its way to it, and has a weak
\* reference to drop.
LEMMA DisposeWay ==
  ASSUME Safe, OnItsWay, NEW t \in Thread, Dispose(t)
  PROVE  OnItsWay'
  <1> DEFINE new == <<"object", t>>
  <1>1. PICK b \in Block :
          /\ b = at[t] /\ pc[t] = "dispose" /\ life[b] = "live" /\ use[b] = 0
          /\ Pending(b, {"dispose"}) = {t}
          /\ life' = [life EXCEPT ![b] = "disposed"]
    <2>1. pc[t] = "dispose"
      BY DEF Dispose
    <2>2. at[t] \in Block /\ life[at[t]] = "live" /\ use[at[t]] = 0
          /\ Pending(at[t], {"dispose"}) = {t}
      BY <2>1 DEF Safe, Sound, TypeOK, NoUseAfterFree, Dying
    <2>3. QED
      BY <2>1, <2>2 DEF Dispose
  <1>2. /\ UNCHANGED <<pb, owner, use, weak, at>>
        /\ pc' = [pc EXCEPT ![t] = "decWeak"]
    BY DEF Dispose, GoesOn, handles, counts
  <1>3. Effect(t, b, new)
    BY <1>1, AccessEffect DEF Dispose, Safe
  <1> HIDE DEF new
  <1>4. ASSUME NEW u \in Thread, u # t
        PROVE  pc'[u] = pc[u]
    BY <1>2, <1>4 DEF Safe, TypeOK
  <1>5. pc'[t] = "decWeak"
    BY <1>2 DEF Safe, TypeOK
  <1>6. UseDroppers(b) = {t}
    BY <1>1, LastDropper
  <1>7. ASSUME NEW c \in Block
        PROVE  /\ WeakDroppers(c) \subseteq WeakDroppers(c)'
               /\ c # b => UseDroppers(c) \subseteq UseDroppers(c)'
               /\ c = b => (t \in WeakDroppers(c))'
    <2>1. StrongOn(c)' = StrongOn(c) /\ WeakOn(c)' = WeakOn(c)
      BY <1>2 DEF StrongOn, WeakOn
    <2>2. /\ c # b => Pending(c, {"decUse", "dispose"})
                        \subseteq Pending(c, {"decUse", "dispose"})'
          /\ Pending(c, {"decWeak", "destroy"})
               \subseteq Pending(c, {"decWeak", "destroy"})'
          /\ c = b => t \in Pending(c, {"decWeak", "destroy"})'
      BY <1>1, <1>2, <1>4, <1>5 DEF Pending
    <2>3. QED
      BY <1>2, <2>1, <2>2 DEF UseDroppers, WeakDroppers
  <1> SUFFICES ASSUME NEW c \in Block, NEW e \in done'[c]
               PROVE  Way(c, e)'
    BY Ways
  <1>8. CASE c # b
    <2>1. e \in done[c]
      BY <1>3, <1>8 DEF Effect
    <2>2. /\ \A u \in Thread : e \in known[u][c] => e \in known'[u][c]
          /\ \A d \in {"use", "weak"} : e \in carried[c][d] => e \in carried'[c][d]
      BY <1>3, <1>8 DEF Effect
    <2>3. life'[c] = life[c]
      BY <1>1, <1>8 DEF Safe, TypeOK
    <2>4. Way(c, e)
      BY <2>1, Ways
    <2>5. QED
      BY <1>2, <1>7, <1>8, <2>2, <2>3, <2>4, Stays DEF Safe
  <1>9. CASE c = b
    <2>1. life'[c] = "disposed"
      BY <1>1, <1>9 DEF Safe, TypeOK
    <2>2. e \in known'[t][c] => ReachesDestroyer(c, e)'
      BY <1>7, <1>9, Arrives
    <2>3. CASE e = new
      <3>1. e \in known'[t][c]
        BY <1>3, <1>9, <2>3 DEF Effect
      <3>2. QED
        BY <2>1, <2>2, <3>1 DEF Way
    <2>4. CASE e # new
      <3>1. e \in done[c]
        BY <1>3, <1>9, <2>4 DEF Effect
      <3>2. /\ \A u \in Thread : e \in known[u][c] => e \in known'[u][c]
            /\ \A d \in {"use", "weak"} : e \in carried[c][d] => e \in carried'[c][d]
        BY <1>3, <2>4 DEF Effect
      <3>3. ReachesDisposer(c, e) => e \in known'[t][c]
        BY <1>1, <1>6, <1>9, <3>2, Reaching DEF Safe
      <3>4. ReachesDestroyer(c, e) => ReachesDestroyer(c, e)'
        <4>1. CASE weak[c] > 0 /\ e \in carried[c]["weak"]
          BY <1>2, <3>2, <4>1, Arrives
        <4>2. CASE \E u \in WeakDroppers(c) : e \in known[u][c]
          <5>1. PICK u \in WeakDroppers(c) : e \in known[u][c]
            BY <4>2
          <5>2. u \in Thread
            BY DEF WeakDroppers
          <5>3. QED
            BY <1>7, <3>2, <5>1, <5>2, Arrives
        <4>3. QED
          BY <4>1, <4>2, Reaching DEF Safe
      <3>5. Way(c, e)
        BY <3>1, Ways
      <3>6. QED
        BY <2>1, <2>2, <3>3, <3>4, <3>5 DEF Way
    <2>5. QED
      BY <2>3, <2>4
  <1>10. QED
    BY <1>8, <1>9

\* Likewise for weak_count and the destruction of the block.
LEMMA DecWeakWay ==
  ASSUME Safe, OnItsWay, NEW t \in Thread, DecWeak(t)
  PROVE  OnItsWay'
  <1> DEFINE new == <<"block", t>>
  <1>1. PICK b \in Block : b = at[t] /\ pc[t] = "decWeak" /\ weak[b] > 0 /\ weak[b] \in Nat
    BY DropFacts DEF DecWeak
  <1>2. PICK p : /\ p = IF weak[b] = 1 THEN "destroy" ELSE "idle"
                 /\ pc' = [pc EXCEPT ![t] = p]
                 /\ at' = [at EXCEPT ![t] = IF p = "idle" THEN None ELSE b]
    BY <1>1, GoesOnMoves DEF DecWeak, Safe
  <1>3. /\ UNCHANGED <<pb, owner, use, life>>
        /\ \A c \in Block : weak'[c] = IF c = b THEN weak[c] - 1 ELSE weak[c]
    BY <1>1 DEF DecWeak, handles, Safe, TypeOK
  <1>4. /\ Effect(t, b, new)
        /\ Released(t, b) \subseteq carried'[b]["weak"]
        /\ p = "destroy" => Acquired(b, "weak") \subseteq known'[t][b]
    <2>1. Atomic(t, b, "weak", Released(t, b),
                 IF weak[b] = 1 THEN Acquired(b, "weak") ELSE {})
      BY <1>1 DEF DecWeak
    <2>2. /\ Effect(t, b, new) /\ Released(t, b) \subseteq carried'[b]["weak"]
          /\ (IF weak[b] = 1 THEN Acquired(b, "weak") ELSE {}) \subseteq known'[t][b]
      BY <2>1, AtomicEffect DEF Safe
    <2>3. QED
      BY <1>2, <2>2
  <1>5. new \in Released(t, b) /\ new[1] = "block"
    BY DEF Released
  <1> HIDE DEF new
  <1>6. ASSUME NEW u \in Thread, u # t
        PROVE  pc'[u] = pc[u] /\ at'[u] = at[u]
    BY <1>2, <1>6 DEF Safe, TypeOK
  <1>7. pc'[t] = p /\ (p = "destroy" => at'[t] = b)
    BY <1>2 DEF Safe, TypeOK
  <1>8. ASSUME NEW c \in Block
        PROVE  /\ UseDroppers(c) \subseteq UseDroppers(c)'
               /\ WeakDroppers(c) \ {t} \subseteq WeakDroppers(c)'
               /\ c # b => WeakDroppers(c) \subseteq WeakDroppers(c)'
               /\ c = b /\ p = "destroy" => (t \in WeakDroppers(c))'
    <2>1. StrongOn(c)' = StrongOn(c) /\ WeakOn(c)' = WeakOn(c)
      BY <1>3 DEF StrongOn, WeakOn
    <2>2. ASSUME NEW P
          PROVE  Pending(c, P) \ {t} \subseteq Pending(c, P)'
      BY <1>6 DEF Pending
    <2>3. /\ t \notin Pending(c, {"decUse", "dispose"})
          /\ c # b => t \notin Pending(c, {"decWeak", "destroy"})
          /\ c = b /\ p = "destroy" => t \in Pending(c, {"decWeak", "destroy"})'
      BY <1>1, <1>7 DEF Pending
    <2>4. /\ Pending(c, {"decUse", "dispose"}) \ {t}
               \subseteq Pending(c, {"decUse", "dispose"})'
          /\ Pending(c, {"decWeak", "destroy"}) \ {t}
               \subseteq Pending(c, {"decWeak", "destroy"})'
      BY <2>2
    <2>5. QED
      BY <1>3, <2>1, <2>3, <2>4 DEF UseDroppers, WeakDroppers
  <1> SUFFICES ASSUME NEW c \in Block, NEW e \in done'[c]
               PROVE  Way(c, e)'
    BY Ways
  <1>9. CASE c # b
    <2>1. e \in done[c]
      BY <1>4, <1>9 DEF Effect
    <2>2. /\ \A u \in Thread : e \in known[u][c] => e \in known'[u][c]
          /\ \A d \in {"use", "weak"} : e \in carried[c][d] => e \in carried'[c][d]
      BY <1>4, <1>9 DEF Effect
    <2>3. Way(c, e)
      BY <2>1, Ways
    <2>4. QED
      BY <1>3, <1>8, <1>9, <2>2, <2>3, Stays DEF Safe
  <1>10. CASE c = b
    <2>1. p = "idle" => weak'[c] > 0
      BY <1>1, <1>2, <1>3, <1>10
    <2>2. p \in {"idle", "destroy"}
      BY <1>2
    <2>3. e \in Released(t, b) \/ e = new => ReachesDestroyer(c, e)'
      <3>1. CASE p = "idle"
        BY <1>4, <1>5, <1>10, <2>1, <3>1, Arrives
      <3>2. CASE p = "destroy"
        <4>1. e = new \/ e \in known[t][b] => e \in known'[t][c]
          BY <1>4, <1>10 DEF Effect
        <4>2. e \in Released(t, b) => e = new \/ e \in known[t][b]
          BY DEF Released, new
        <4>3. QED
          BY <1>8, <1>10, <3>2, <4>1, <4>2, Arrives
      <3>3. QED
        BY <2>2, <3>1, <3>2
    <2>4. CASE e = new
      BY <1>5, <2>3, <2>4 DEF Way
    <2>5. CASE e # new
      <3>1. e \in done[c]
        BY <1>4, <1>10, <2>5 DEF Effect
      <3>2. /\ \A u \in Thread : e \in known[u][c] => e \in known'[u][c]
            /\ \A d \in {"use", "weak"} : e \in carried[c][d] => e \in carried'[c][d]
        BY <1>4, <2>5 DEF Effect
      <3>3. ReachesDestroyer(c, e) => ReachesDestroyer(c, e)'
        <4>1. CASE e \in carried[c]["weak"]
          <5>1. CASE p = "idle"
            BY <2>1, <3>2, <4>1, <5>1, Arrives
          <5>2. CASE p = "destroy"
            BY <1>4, <1>8, <1>10, <4>1, <5>2, Arrives DEF Acquired
          <5>3. QED
            BY <2>2, <5>1, <5>2
        <4>2. CASE \E u \in WeakDroppers(c) : e \in known[u][c]
          <5>1. PICK u \in WeakDroppers(c) : e \in known[u][c]
            BY <4>2
          <5>2. u \in Thread
            BY DEF WeakDroppers
          <5>3. CASE u = t
            BY <1>10, <2>3, <5>1, <5>3 DEF Released
          <5>4. CASE u # t
            BY <1>8, <3>2, <5>1, <5>2, <5>4, Arrives
          <5>5. QED
            BY <5>3, <5>4
        <4>3. QED
          BY <4>1, <4>2, Reaching DEF Safe
      <3>4. ReachesDisposer(c, e) => ReachesDisposer(c, e)'
        <4>1. CASE use[c] > 0 /\ e \in carried[c]["use"]
          BY <1>3, <3>2, <4>1, Arrives
        <4>2. CASE \E u \in UseDroppers(c) : e \in known[u][c]
          <5>1. PICK u \in UseDroppers(c) : e \in known[u][c]
            BY <4>2
          <5>2. u \in Thread
            BY DEF UseDroppers
          <5>3. QED
            BY <1>8, <3>2, <5>1, <5>2, Arrives
        <4>3. QED
          BY <4>1, <4>2, Reaching DEF Safe
      <3>5. Way(c, e)
        BY <3>1, Ways
      <3>6. QED
        BY <1>3, <3>3, <3>4, <3>5 DEF Way
    <2>6. QED
      BY <2>4, <2>5
  <1>11. QED
    BY <1>9, <1>10

LEMMA DestroyWay ==
  ASSUME Safe, OnItsWay, NEW t \in Thread, Destroy(t)
  PROVE  OnItsWay'
  <1> SUFFICES ASSUME NEW c \in Block, NEW e \in done'[c]
               PROVE  Way(c, e)'
    BY Ways
  <1>1. /\ pc[t] = "destroy" /\ at[t] \in Block /\ UNCHANGED <<pb, owner, weak>>
        /\ pc' = [pc EXCEPT ![t] = "idle"]
        /\ at' = [at EXCEPT ![t] = None]
    BY GoesOnMoves DEF Destroy, handles, Safe, TypeOK
  <1>2. c # at[t]
    BY <1>1 DEF Destroy, Safe, TypeOK
  <1>3. /\ done'[c] = done[c] /\ life'[c] = life[c] /\ carried'[c] = carried[c]
        /\ use'[c] = use[c]
        /\ \A u \in Thread : known'[u][c] = known[u][c]
    BY <1>2 DEF Destroy, Safe, TypeOK
  <1>4. /\ UseDroppers(c) \subseteq UseDroppers(c)'
        /\ WeakDroppers(c) \subseteq WeakDroppers(c)'
    <2>1. ASSUME NEW P, NEW u \in Pending(c, P)
          PROVE  u \in Pending(c, P)'
      BY <1>1, <1>2, <2>1 DEF Pending, Safe, TypeOK
    <2>2. StrongOn(c)' = StrongOn(c) /\ WeakOn(c)' = WeakOn(c)
      BY <1>1 DEF StrongOn, WeakOn
    <2>3. QED
      BY <1>1, <2>1, <2>2 DEF UseDroppers, WeakDroppers
  <1>5. Way(c, e)
    BY <1>3, Ways
  <1>6. QED
    BY <1>1, <1>3, <1>4, <1>5, Stays DEF Safe

LEMMA StepOnItsWay ==
  ASSUME Safe, OnItsWay, Next
  PROVE  OnItsWay'
  <1>1. \A t \in Thread, h \in Strong, b \in Block : Make(t, h, b) => OnItsWay'
    BY MakeWay
  <1>2. \A t \in Thread, h, g \in Strong : Copy(t, h, g) => OnItsWay'
    BY CopyWay
  <1>3. \A t \in Thread, h \in Strong : Use(t, h) \/ LockSucceeds(t, h) => OnItsWay'
    BY UseWay, LockSucceedsWay
  <1>4. \A t \in Thread, h \in Handle : Reset(t, h) \/ LockFails(t, h) => OnItsWay'
    BY ResetWay
  <1>5. \A t \in Thread, w \in Weak, g \in Handle : CopyWeak(t, w, g) => OnItsWay'
    BY CopyWeakWay
  <1>6. \A t \in Thread, w \in Weak : LockLoad(t, w) => OnItsWay'
    BY LoadWay
  <1>7. \A t \in Thread, h, g \in Handle :
           (h \in Strong <=> g \in Strong) /\ Move(t, h, g) => OnItsWay'
    BY MoveWay
  <1>8. \A t \in Thread, h \in Handle :
           \A u \in Thread \ {t} : HandOver(t, u, h) => OnItsWay'
    BY HandOverWay
  <1>9. \A t \in Thread : LockRetry(t) => OnItsWay'
    BY LoadWay
  <1>10. \A t \in Thread : DecUse(t) => OnItsWay'
    BY DecUseWay
  <1>11. \A t \in Thread : Dispose(t) => OnItsWay'
    BY DisposeWay
  <1>12. \A t \in Thread : DecWeak(t) => OnItsWay'
    BY DecWeakWay
  <1>13. \A t \in Thread : Destroy(t) => OnItsWay'
    BY DestroyWay
  <1>14. QED
    BY <1>1, <1>2, <1>3, <1>4, <1>5, <1>6, <1>7, <1>8, <1>9, <1>10, <1>11, <1>12,
       <1>13 DEF Next, Counting, Handle

-----------------------------------------------------------------------------
(***************************************************************************)
(* The theorems.                                                           *)
(***************************************************************************)
LEMMA InitInv == Init => Inv
  <1> SUFFICES ASSUME Init
               PROVE  Inv
    OBVIOUS
  <1>1. TypeOK
    <2>1. [c \in {"use", "weak"} |-> {}] \in [{"use", "weak"} -> SUBSET Event]
      OBVIOUS
    <2>2. QED
      BY <2>1 DEF Init, TypeOK, Place
  <1>2. CountsExact /\ NoUseAfterFree /\ Dying /\ ZeroLasts /\ OnItsWay
    BY DEF Init, CountsExact, NoUseAfterFree, Dying, ZeroLasts, OnItsWay, Handle
  <1>3. QED
    BY <1>1, <1>2 DEF Inv

LEMMA StepInv == Inv /\ [Next]_vars => Inv'
  <1> SUFFICES ASSUME Inv, [Next]_vars
               PROVE  Inv'
    OBVIOUS
  <1>1. Safe /\ OnItsWay
    BY DEF Inv, Safe, Sound
  <1>2. CASE Next
    <2>1. Safe' /\ OnItsWay'
      BY <1>1, <1>2, StepSafe, StepOnItsWay
    <2>2. QED
      BY <2>1 DEF Inv, Safe, Sound
  <1>3. CASE UNCHANGED vars
    <2>1. UNCHANGED <<pb, owner, use, weak, past, life, pc, at, loaded, done, known,
                      carried>>
      BY <1>3 DEF vars, handles, counts, calls, memory
    <2>2. TypeOK' /\ CountsExact' /\ NoUseAfterFree'
      <3>1. TypeOK'
        BY <2>1 DEF Inv, TypeOK
      <3>2. CountsExact'
        BY <2>1 DEF Inv, CountsExact, Pending, StrongOn, WeakOn
      <3>3. NoUseAfterFree'
        BY <2>1 DEF Inv, NoUseAfterFree, Pending
      <3>4. QED
        BY <3>1, <3>2, <3>3
    <2>3. Dying' /\ ZeroLasts'
      BY <2>1 DEF Inv, Dying, ZeroLasts, Pending
    <2>4. OnItsWay'
      BY <2>1 DEF Inv, OnItsWay, ReachesDisposer, ReachesDestroyer, StrongOn, WeakOn,
                  Pending
    <2>5. QED
      BY <2>2, <2>3, <2>4 DEF Inv
  <1>4. QED
    BY <1>2, <1>3

(* The inductive invariant holds in every state.                           *)
THEOREM Invariance == Spec => []Inv
  <1>1. Init => Inv
    BY InitInv
  <1>2. Inv /\ [Next]_vars => Inv'
    BY StepInv
  <1>3. QED
    BY <1>1, <1>2, PTL DEF Spec

(* The variables have their types.                                         *)
THEOREM TypeCorrect == Spec => []TypeOK
  <1>1. Inv => TypeOK
    BY DEF Inv
  <1>2. QED
    BY <1>1, Invariance, PTL

(* A shared_ptr never outlives its object, no handle or pending call refers *)
(* to a deleted block, and each of the two is deleted by one thread only,   *)
(* whatever the interleaving of the counts.                                 *)
THEOREM MemorySafe == Spec => []NoUseAfterFree
  <1>1. Inv => NoUseAfterFree
    BY DEF Inv
  <1>2. QED
    BY <1>1, Invariance, PTL

(* No object and no block leaks: somebody has a handle to it, or is on the  *)
(* way to delete it.                                                        *)
THEOREM LeakFree == Spec => []NoLeak
  <1>1. Inv => NoLeak
    <2> SUFFICES ASSUME Safe, NEW b \in Block
                 PROVE  /\ life[b] = "live" =>
                             StrongOn(b) # {} \/ Pending(b, {"decUse", "dispose"}) # {}
                        /\ life[b] = "disposed" =>
                             WeakOn(b) # {} \/ Pending(b, {"decWeak", "destroy"}) # {}
      BY DEF Inv, Safe, Sound, NoLeak
    <2>1. ASSUME life[b] = "live", StrongOn(b) = {}
          PROVE  Pending(b, {"decUse", "dispose"}) # {}
      <3>1. CASE use[b] = 0
        BY <2>1, <3>1 DEF Safe, Sound, Dying, Pending
      <3>2. CASE use[b] # 0
        <4>1. Cardinality(StrongOn(b)) = 0
          BY <2>1, FS_EmptySet
        <4>2. Cardinality(Pending(b, {"decUse"})) # 0
          <5>1. Uses(b) # 0
            BY <2>1, <3>2, BlockFacts, Sizes
          <5>2. QED
            BY <4>1, <5>1, Sizes DEF Uses
        <4>3. Pending(b, {"decUse"}) # {}
          BY <4>2, FS_EmptySet
        <4>4. QED
          BY <4>3 DEF Pending
      <3>3. QED
        BY <3>1, <3>2
    <2>2. ASSUME life[b] = "disposed", WeakOn(b) = {}
          PROVE  Pending(b, {"decWeak", "destroy"}) # {}
      <3>1. CASE weak[b] = 0
        BY <2>2, <3>1 DEF Safe, Sound, Dying, Pending
      <3>2. CASE weak[b] # 0
        <4>1. Cardinality(WeakOn(b)) = 0
          BY <2>2, FS_EmptySet
        <4>2. Cardinality(Pending(b, {"decWeak"})) # 0
          <5>1. Weaks(b) # 0
            BY <2>2, <3>2, BlockFacts, Sizes
          <5>2. QED
            BY <4>1, <5>1, Sizes DEF Weaks
        <4>3. Pending(b, {"decWeak"}) # {}
          BY <4>2, FS_EmptySet
        <4>4. QED
          BY <4>3 DEF Pending
      <3>3. QED
        BY <3>1, <3>2
    <2>3. QED
      BY <2>1, <2>2
  <1>2. QED
    BY <1>1, Invariance, PTL

(* A lock () that is going to return null has seen use_count at 0, where it *)
(* stays: stale loads do not make it fail while the object lives on.        *)
THEOREM LockTellsTruth == Spec => []LockHonest
  <1>1. Inv => LockHonest
    <2> SUFFICES ASSUME Inv, NEW t \in Thread, pc[t] = "lock", loaded[t] = 0
                 PROVE  use[at[t]] = 0
      BY DEF LockHonest
    <2>1. at[t] \in Block
      BY DEF Inv, TypeOK
    <2>2. QED
      BY <2>1 DEF Inv, ZeroLasts
  <1>2. QED
    BY <1>1, Invariance, PTL

(* The memory orders of the two counts suffice: every access to the object  *)
(* happens before its deletion, and every access to the block before its.   *)
THEOREM DeletionsLast == Spec => []DeletedLast
  <1>1. Inv => DeletedLast
    <2> SUFFICES ASSUME Safe, OnItsWay, NEW t \in Thread
                 PROVE  /\ pc[t] = "dispose" =>
                             \A u \in Thread :
                                <<"object", u>> \in done[at[t]] =>
                                   <<"object", u>> \in known[t][at[t]]
                        /\ pc[t] = "destroy" => done[at[t]] \subseteq known[t][at[t]]
      BY DEF Inv, Safe, Sound, DeletedLast
    <2>1. ASSUME pc[t] = "dispose", NEW u \in Thread, <<"object", u>> \in done[at[t]]
          PROVE  <<"object", u>> \in known[t][at[t]]
      <3>1. PICK b \in Block : /\ b = at[t] /\ life[b] = "live" /\ use[b] = 0
                               /\ Pending(b, {"dispose"}) = {t}
        BY <2>1 DEF Safe, Sound, NoUseAfterFree, Dying, TypeOK
      <3>2. UseDroppers(b) = {t}
        BY <2>1, <3>1, LastDropper
      <3>3. ReachesDisposer(b, <<"object", u>>)
        <4> DEFINE e == <<"object", u>>
        <4>1. e \in done[b] /\ e[1] = "object"
          BY <2>1, <3>1
        <4> HIDE DEF e
        <4>2. ReachesDisposer(b, e)
          BY <3>1, <4>1 DEF OnItsWay
        <4>3. QED
          BY <4>2 DEF e
      <3>4. QED
        BY <3>1, <3>2, <3>3, Reaching DEF Safe
    <2>2. ASSUME pc[t] = "destroy", NEW e \in done[at[t]]
          PROVE  e \in known[t][at[t]]
      <3>1. PICK b \in Block : /\ b = at[t] /\ life[b] = "disposed" /\ weak[b] = 0
                               /\ Pending(b, {"lock", "destroy"}) = {t}
        BY <2>2 DEF Safe, Sound, NoUseAfterFree, Dying, TypeOK
      <3>2. WeakDroppers(b) = {t}
        BY <2>2, <3>1, LastDropper
      <3>3. ReachesDestroyer(b, e)
        BY <2>2, <3>1 DEF OnItsWay
      <3>4. QED
        BY <3>1, <3>2, <3>3, Reaching DEF Safe
    <2>3. QED
      BY <2>1, <2>2
  <1>2. QED
    BY <1>1, Invariance, PTL

-----------------------------------------------------------------------------
(***************************************************************************)
(* What a step may never do to an object and its block.                    *)
(***************************************************************************)

\* An object that has been deleted does not come back while its block lasts,
\* a block is not deleted before its object, and a count that has reached 0
\* stays there: dec_use_count and dec_weak_count see 1 -> 0 once a life.
DiesOnce ==
  \A b \in Block :
     /\ life[b] = "live" => life'[b] \in {"live", "disposed"}
     /\ life[b] = "disposed" => life'[b] \in {"disposed", "free"}
     /\ life[b] # "free" /\ use[b] = 0 => use'[b] = 0
     /\ life[b] = "disposed" /\ weak[b] = 0 => weak'[b] = 0

\* A shared_ptr gets an object only from one that has it, from a weak_ptr
\* whose object somebody still shares, or newly made.
SharesTheLiving ==
  \A h \in Strong :
     pb'[h] \notin {pb[h], None} =>
        \/ life[pb'[h]] = "live" /\ use[pb'[h]] > 0
        \/ life[pb'[h]] = "free" /\ use'[pb'[h]] = 1

\* A call that changes neither life nor the counts downwards.
LEMMA SharingStep ==
  ASSUME Safe, NEW h \in Handle, NEW x \in Block \cup {None},
         pb' = [pb EXCEPT ![h] = x],
         h \in Strong /\ x # None => life[x] = "live" /\ use[x] > 0,
         UNCHANGED life,
         \/ UNCHANGED use
         \/ x # None /\ use[x] > 0 /\ use' = [use EXCEPT ![x] = use[x] + 1],
         \/ UNCHANGED weak
         \/ x # None /\ weak[x] > 0 /\ weak' = [weak EXCEPT ![x] = weak[x] + 1]
  PROVE  DiesOnce /\ SharesTheLiving
  <1>1. DiesOnce
    <2> SUFFICES ASSUME NEW b \in Block
                 PROVE  /\ life[b] = "live" => life'[b] \in {"live", "disposed"}
                        /\ life[b] = "disposed" => life'[b] \in {"disposed", "free"}
                        /\ use[b] = 0 => use'[b] = 0
                        /\ weak[b] = 0 => weak'[b] = 0
      BY DEF DiesOnce
    <2>1. use[b] = 0 => use'[b] = 0
      BY DEF Safe, TypeOK
    <2>2. weak[b] = 0 => weak'[b] = 0
      BY DEF Safe, TypeOK
    <2>3. QED
      BY <2>1, <2>2
  <1>2. SharesTheLiving
    BY DEF SharesTheLiving, Safe, TypeOK, Handle
  <1>3. QED
    BY <1>1, <1>2

LEMMA MakeLives ==
  ASSUME Safe, NEW t \in Thread, NEW h \in Strong, NEW c \in Block, Make(t, h, c)
  PROVE  DiesOnce /\ SharesTheLiving
  <1>1. /\ life[c] = "free" /\ life' = [life EXCEPT ![c] = "live"]
        /\ use' = [use EXCEPT ![c] = 1] /\ weak' = [weak EXCEPT ![c] = 1]
        /\ pb' = [pb EXCEPT ![h] = c]
    BY DEF Make
  <1>2. DiesOnce
    BY <1>1 DEF DiesOnce, Safe, TypeOK
  <1>3. SharesTheLiving
    BY <1>1 DEF SharesTheLiving, Safe, TypeOK, Handle
  <1>4. QED
    BY <1>2, <1>3

\* Copies, lock () and the calls that make a handle null.
LEMMA AssignLives ==
  ASSUME Safe, NEW t \in Thread, NEW h \in Handle, NEW g \in Handle,
         \/ h \in Strong /\ g \in Strong /\ Copy(t, h, g)
         \/ h \in Weak /\ CopyWeak(t, h, g)
         \/ h \in Strong /\ LockSucceeds(t, h)
         \/ h \in Strong /\ LockFails(t, h)
         \/ Reset(t, h)
  PROVE  DiesOnce /\ SharesTheLiving
  <1>1. CASE h \in Strong /\ g \in Strong /\ Copy(t, h, g)
    <2>1. /\ pb[g] \in Block /\ life[pb[g]] = "live" /\ use[pb[g]] > 0
          /\ pb' = [pb EXCEPT ![h] = pb[g]]
          /\ use' = [use EXCEPT ![pb[g]] = use[pb[g]] + 1]
          /\ UNCHANGED <<weak, life>> /\ pb[g] # None
      BY <1>1, HandleFacts DEF Copy, Counted
    <2>2. QED
      BY <2>1, SharingStep
  <1>2. CASE h \in Weak /\ CopyWeak(t, h, g)
    <2>1. /\ pb[g] \in Block /\ weak[pb[g]] > 0 /\ pb[g] # None
          /\ pb' = [pb EXCEPT ![h] = pb[g]]
          /\ weak' = [weak EXCEPT ![pb[g]] = weak[pb[g]] + 1]
          /\ UNCHANGED <<use, life>>
      BY <1>2, HandleFacts DEF CopyWeak
    <2>2. h \notin Strong
      BY <1>2, PtrAssumption
    <2>3. QED
      BY <2>1, <2>2, SharingStep
  <1>3. CASE h \in Strong /\ LockSucceeds(t, h)
    <2>1. /\ at[t] \in Block /\ use[at[t]] > 0 /\ life[at[t]] = "live"
          /\ pb' = [pb EXCEPT ![h] = at[t]]
          /\ use' = [use EXCEPT ![at[t]] = use[at[t]] + 1]
          /\ UNCHANGED <<weak, life>> /\ at[t] # None
      BY <1>3, LockFacts, PtrAssumption DEF LockSucceeds, Counted
    <2>2. QED
      BY <2>1, SharingStep
  <1>4. CASE (h \in Strong /\ LockFails(t, h)) \/ Reset(t, h)
    <2>1. /\ pb' = [pb EXCEPT ![h] = None]
          /\ UNCHANGED <<use, weak, life>>
      BY <1>4 DEF LockFails, Reset, counts
    <2>2. QED
      BY <2>1, SharingStep
  <1>5. QED
    BY <1>1, <1>2, <1>3, <1>4

\* A move hands on what another handle of the kind keeps alive.
LEMMA MoveLives ==
  ASSUME Safe, NEW t \in Thread, NEW h \in Handle, NEW g \in Handle,
         h \in Strong <=> g \in Strong, Move(t, h, g)
  PROVE  DiesOnce /\ SharesTheLiving
  <1>1. /\ pb' = [pb EXCEPT ![g] = None, ![h] = pb[g]]
        /\ UNCHANGED <<use, weak, life>>
    BY DEF Move, counts
  <1>2. DiesOnce
    BY <1>1 DEF DiesOnce, Safe, TypeOK
  <1>3. SharesTheLiving
    <2> SUFFICES ASSUME NEW i \in Strong, pb'[i] # pb[i], pb'[i] # None
                 PROVE  life[pb'[i]] = "live" /\ use[pb'[i]] > 0
      BY DEF SharesTheLiving
    <2>1. i = h /\ pb'[i] = pb[g]
      BY <1>1 DEF Safe, TypeOK, Handle
    <2>2. g \in Strong /\ pb[g] # None
      BY <2>1
    <2>3. QED
      BY <2>1, <2>2, HandleFacts
  <1>4. QED
    BY <1>2, <1>3

\* The steps of a call that count down and delete.
LEMMA CountingLives ==
  ASSUME Safe, NEW t \in Thread, Counting(t)
  PROVE  DiesOnce /\ SharesTheLiving
  <1>1. UNCHANGED pb
    BY DEF Counting, DecUse, Dispose, DecWeak, Destroy, handles
  <1>2. SharesTheLiving
    BY <1>1 DEF SharesTheLiving
  <1>3. DiesOnce
    <2>1. CASE DecUse(t)
      <3>1. at[t] \in Block /\ use[at[t]] > 0
        BY <2>1, DropFacts DEF DecUse
      <3>2. /\ use' = [use EXCEPT ![at[t]] = use[at[t]] - 1]
            /\ UNCHANGED <<weak, life>>
        BY <2>1 DEF DecUse, Counted
      <3>3. QED
        BY <3>1, <3>2 DEF DiesOnce, Safe, TypeOK
    <2>2. CASE Dispose(t)
      <3>1. at[t] \in Block /\ life[at[t]] = "live"
        BY <2>2 DEF Dispose, Safe, Sound, NoUseAfterFree, TypeOK
      <3>2. /\ life' = [life EXCEPT ![at[t]] = "disposed"]
            /\ UNCHANGED <<use, weak>>
        BY <2>2 DEF Dispose, counts
      <3>3. QED
        BY <3>1, <3>2 DEF DiesOnce, Safe, TypeOK
    <2>3. CASE DecWeak(t)
      <3>1. at[t] \in Block /\ weak[at[t]] > 0
        BY <2>3, DropFacts DEF DecWeak
      <3>2. /\ weak' = [weak EXCEPT ![at[t]] = weak[at[t]] - 1]
            /\ UNCHANGED <<use, life>>
        BY <2>3 DEF DecWeak
      <3>3. QED
        BY <3>1, <3>2 DEF DiesOnce, Safe, TypeOK
    <2>4. CASE Destroy(t)
      <3>1. at[t] \in Block /\ life[at[t]] = "disposed"
        BY <2>4 DEF Destroy, Safe, Sound, NoUseAfterFree, TypeOK
      <3>2. /\ life' = [life EXCEPT ![at[t]] = "free"]
            /\ use' = [use EXCEPT ![at[t]] = 0]
            /\ UNCHANGED weak
        BY <2>4 DEF Destroy
      <3>3. QED
        BY <3>1, <3>2 DEF DiesOnce, Safe, TypeOK
    <2>5. QED
      BY <2>1, <2>2, <2>3, <2>4 DEF Counting
  <1>4. QED
    BY <1>2, <1>3

\* Every other step leaves handles, counts and lives alone.
LEMMA StepLives == Safe /\ [Next]_vars => DiesOnce /\ SharesTheLiving
  <1> SUFFICES ASSUME Safe, [Next]_vars
               PROVE  DiesOnce /\ SharesTheLiving
    OBVIOUS
  <1>1. ASSUME UNCHANGED <<pb, use, weak, life>>
        PROVE  DiesOnce /\ SharesTheLiving
    BY <1>1 DEF DiesOnce, SharesTheLiving, Safe, TypeOK
  <1>2. ASSUME NEW t \in Thread, NEW h \in Strong, NEW b \in Block, Make(t, h, b)
        PROVE  DiesOnce /\ SharesTheLiving
    BY <1>2, MakeLives
  <1>3. ASSUME NEW t \in Thread, NEW h \in Strong, NEW g \in Strong, Copy(t, h, g)
        PROVE  DiesOnce /\ SharesTheLiving
    BY <1>3, AssignLives DEF Handle
  <1>4. ASSUME NEW t \in Thread, NEW h \in Strong, LockFails(t, h) \/ LockSucceeds(t, h)
        PROVE  DiesOnce /\ SharesTheLiving
    BY <1>4, AssignLives DEF Handle
  <1>5. ASSUME NEW t \in Thread, NEW w \in Weak, NEW g \in Handle, CopyWeak(t, w, g)
        PROVE  DiesOnce /\ SharesTheLiving
    BY <1>5, AssignLives DEF Handle
  <1>6. ASSUME NEW t \in Thread, NEW h \in Handle, NEW g \in Handle,
               h \in Strong <=> g \in Strong, Move(t, h, g)
        PROVE  DiesOnce /\ SharesTheLiving
    BY <1>6, MoveLives
  <1>7. ASSUME NEW t \in Thread, NEW h \in Handle, Reset(t, h)
        PROVE  DiesOnce /\ SharesTheLiving
    BY <1>7, AssignLives
  <1>8. ASSUME NEW t \in Thread, Counting(t)
        PROVE  DiesOnce /\ SharesTheLiving
    BY <1>8, CountingLives
  <1>9. ASSUME NEW t \in Thread,
               \/ \E h \in Strong : Use(t, h)
               \/ \E w \in Weak : LockLoad(t, w)
               \/ \E h \in Handle : \E u \in Thread \ {t} : HandOver(t, u, h)
               \/ LockRetry(t)
        PROVE  DiesOnce /\ SharesTheLiving
    <2>1. UNCHANGED <<pb, use, weak, life>>
      BY <1>9 DEF Use, LockLoad, HandOver, LockRetry, handles, counts
    <2>2. QED
      BY <1>1, <2>1
  <1>10. CASE UNCHANGED vars
    BY <1>1, <1>10 DEF vars, handles, counts
  <1>11. QED
    BY <1>2, <1>3, <1>4, <1>5, <1>6, <1>7, <1>8, <1>9, <1>10 DEF Next

(* An object dies once, before its block: no lock () brings it back,        *)
(* whatever its load returned, and no count leaves 0, so that no second     *)
(* thread ever finds itself the last one.                                   *)
THEOREM NoResurrection == Spec => [][DiesOnce /\ SharesTheLiving]_vars
  <1>1. Inv => Safe
    BY DEF Inv, Safe, Sound
  <1>2. Inv /\ [Next]_vars => [DiesOnce /\ SharesTheLiving]_vars
    BY <1>1, StepLives
  <1>3. QED
    BY <1>2, Invariance, PTL DEF Spec
=============================================================================
