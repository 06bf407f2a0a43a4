----------------------------- MODULE UniquePtr -----------------------------
(***************************************************************************)
(* null/unique_ptr.h: handles that own an object and carry the deleter it  *)
(* is to be deleted with.  One thread.                                     *)
(*                                                                         *)
(* A handle is a variable of the program (Root) or a member of an object:  *)
(* every object has one, as in a list or a tree, and the object's name     *)
(* serves as the name of its handle.  Deleting an object runs its          *)
(* destructor, whose body may do with the handles whatever the program     *)
(* may, and then that of its member, which may delete the next object:     *)
(* doomed is the stack of the deletions under way, the innermost last.     *)
(*                                                                         *)
(* A move, a swap and an assignment finish with the handles before the     *)
(* temporary that has taken over the old object is destroyed; up to there  *)
(* no other code runs, and they are one step.                              *)
(***************************************************************************)
EXTENDS Naturals, Sequences, FiniteSets

CONSTANTS Root, Obj,
          Deleter,    \* the deleters the program passes
          Default,    \* a deleter made by its default constructor
          MovedFrom,  \* what a move leaves behind of a deleter
          None        \* a null pointer

ASSUME UniqueAssumption == /\ IsFiniteSet(Root)
                           /\ IsFiniteSet(Obj)
                           /\ Root \cap Obj = {}
                           /\ None \notin Obj
                           /\ Default \in Deleter
                           /\ MovedFrom \notin Deleter

VARIABLES ptr,        \* p_ of every handle
          del,        \* and its deleter
          allocated,  \* the objects that exist
          bare,       \* those the program holds by a plain pointer
          given,      \* the deleter the program has paired an object with
          doomed      \* the stack of deletions

vars == <<ptr, del, allocated, bare, given, doomed>>

Handle == Root \cup Obj
Deletion == [obj : Obj, del : Deleter \cup {MovedFrom},
             phase : {"body", "members"}]

InMembers(o) == \E i \in DOMAIN doomed :
                   doomed[i].obj = o /\ doomed[i].phase = "members"

\* The handles that exist: a member until the body of the destructor is over.
Existing == Root \cup {o \in allocated : ~InMembers(o)}

\* Code of the program runs: its own, or the body of a destructor.
Running == doomed # <<>> => doomed[Len(doomed)].phase = "body"

-----------------------------------------------------------------------------
Init == /\ ptr = [h \in Handle |-> None]
        /\ del = [h \in Handle |-> Default]
        /\ allocated = {}
        /\ bare = {}
        /\ given = [o \in Obj |-> Default]
        /\ doomed = <<>>

\* The destructor of a handle that holds p and the deleter d: if (p_) d (p_).
Push(stack, p, d) ==
  IF p = None THEN stack
  ELSE Append(stack, [obj |-> p, del |-> d, phase |-> "body"])

\* new T, whose member is null.
New(o) == /\ Running
          /\ o \notin allocated
          /\ allocated' = allocated \cup {o}
          /\ bare' = bare \cup {o}
          /\ UNCHANGED <<ptr, del, given, doomed>>

\* bug: the old object is deleted with the deleter of the new one
SwapPointersOnly(h, p, d) == /\ ptr' = [ptr EXCEPT ![h] = p]
                             /\ del' = [del EXCEPT ![h] = d]
                             /\ doomed' = Push(doomed, ptr[h], d)

\* A temporary holding p and d is swapped with h, then destroyed.
SwapIn(h, p, d) == /\ ptr' = [ptr EXCEPT ![h] = p]
                   /\ del' = [del EXCEPT ![h] = d]
                   /\ doomed' = Push(doomed, ptr[h], del[h])

\* h = unique_ptr{ p, d }: the program gives up its plain pointer.
Adopt(h, p, d) == /\ Running
                  /\ h \in Existing
                  /\ p \in bare
                  /\ SwapIn(h, p, d)
                  /\ bare' = bare \ {p}
                  /\ given' = [given EXCEPT ![p] = d]
                  /\ UNCHANGED allocated

\* h.reset (p): p comes with a default deleter, whatever h had.
Reset(h, p) == Adopt(h, p, Default)

\* h.reset (), h = nullptr; also the destruction of h, followed by the
\* definition of another null handle.
\* The destructor itself leaves p_ set: that the object uses the very handle
\* that is destroying it is left out.
Clear(h) == /\ Running
            /\ h \in Existing
            /\ SwapIn(h, None, Default)
            /\ UNCHANGED <<allocated, bare, given>>

\* bug: release () does not clear p_
ReleaseKeeps(h) == /\ Running
                   /\ h \in Existing
                   /\ ptr[h] # None
                   /\ bare' = bare \cup {ptr[h]}
                   /\ UNCHANGED <<ptr, del, allocated, given, doomed>>

\* h.release (): the deleter stays in h.
Release(h) == /\ Running
              /\ h \in Existing
              /\ ptr[h] # None
              /\ bare' = bare \cup {ptr[h]}
              /\ ptr' = [ptr EXCEPT ![h] = None]
              /\ UNCHANGED <<del, allocated, given, doomed>>

\* h = std::move (g), for handles of one type: t takes over g, which becomes
\* a default-constructed handle, and is swapped with h.  A handle that is
\* moved to itself comes back from t.
Move(h, g) ==
  /\ Running
  /\ {h, g} \subseteq Existing
  /\ ptr' = [ptr EXCEPT ![g] = None, ![h] = ptr[g]]
  /\ del' = [del EXCEPT ![g] = Default, ![h] = del[g]]
  /\ doomed' = Push(doomed, IF h = g THEN None ELSE ptr[h], del[h])
  /\ UNCHANGED <<allocated, bare, given>>

\* h = std::move (g), g of a type that converts to that of h: the deleter is
\* moved out of g, the pointer released.
MoveConverted(h, g) ==
  /\ Running
  /\ {h, g} \subseteq Existing
  /\ h # g
  /\ ptr' = [ptr EXCEPT ![g] = None, ![h] = ptr[g]]
  /\ del' = [del EXCEPT ![g] = MovedFrom, ![h] = del[g]]
  /\ doomed' = Push(doomed, ptr[h], del[h])
  /\ UNCHANGED <<allocated, bare, given>>

\* swap (h, g)
Swap(h, g) == /\ Running
              /\ {h, g} \subseteq Existing
              /\ ptr' = [ptr EXCEPT ![h] = ptr[g], ![g] = ptr[h]]
              /\ del' = [del EXCEPT ![h] = del[g], ![g] = del[h]]
              /\ UNCHANGED <<allocated, bare, given, doomed>>

\* The body of the destructor of the innermost object is over; its member is
\* destroyed, and what that owns is deleted.
BodyEnds ==
  /\ doomed # <<>>
  /\ LET n == Len(doomed)
         o == doomed[n].obj
     IN /\ doomed[n].phase = "body"
        /\ doomed' = Push([doomed EXCEPT ![n].phase = "members"], ptr[o], del[o])
        /\ ptr' = [ptr EXCEPT ![o] = None]
        /\ del' = [del EXCEPT ![o] = Default]
  /\ UNCHANGED <<allocated, bare, given>>

\* The members are gone: the memory is freed.
Freed == /\ doomed # <<>>
         /\ doomed[Len(doomed)].phase = "members"
         /\ allocated' = allocated \ {doomed[Len(doomed)].obj}
         /\ doomed' = SubSeq(doomed, 1, Len(doomed) - 1)
         /\ UNCHANGED <<ptr, del, bare, given>>

Next == \/ \E o \in Obj : New(o)
        \/ \E h \in Handle :
             \/ \E p \in Obj : Reset(h, p) \/ \E d \in Deleter : Adopt(h, p, d)
             \/ Clear(h) \/ Release(h)
             \/ \E g \in Handle : Move(h, g) \/ MoveConverted(h, g) \/ Swap(h, g)
        \/ BodyEnds \/ Freed

Spec == Init /\ [][Next]_vars
-----------------------------------------------------------------------------
(* The variables have their types.                                         *)
TypeOK == /\ ptr \in [Handle -> Obj \cup {None}]
          /\ del \in [Handle -> Deleter \cup {MovedFrom}]
          /\ allocated \subseteq Obj
          /\ bare \subseteq Obj
          /\ given \in [Obj -> Deleter]
          /\ doomed \in Seq(Deletion)

\* Whoever is responsible for object o: a handle, the program's plain
\* pointer, a deletion under way.
Owners(o) == ({"handle"} \X {h \in Existing : ptr[h] = o})
               \cup ({"bare"} \X (bare \cap {o}))
               \cup ({"deletion"} \X {i \in DOMAIN doomed : doomed[i].obj = o})

(* Every object that exists has exactly one owner, and nobody refers to    *)
(* one that does not: nothing is deleted twice, leaked or used after it    *)
(* has been deleted, through self-moves, handles moved out of the object   *)
(* they own, and destructors that use the handles they are called from.    *)
OwnedOnce == \A o \in Obj : IF o \in allocated THEN Cardinality(Owners(o)) = 1
                                               ELSE Owners(o) = {}

(* An object is deleted with the deleter it was paired with, however often *)
(* it was moved, and never with one that has been moved from.              *)
DeleterKept == \A i \in DOMAIN doomed : doomed[i].del = given[doomed[i].obj]

\* What is being deleted, and what handles own.
Dying == {doomed[i].obj : i \in DOMAIN doomed}
Held  == {ptr[h] : h \in Handle} \ {None}

(* Nobody owns what another owns; what exists is owned; a handle that does *)
(* not exist holds nothing.                                                *)
Unique ==
  /\ \A h, g \in Handle : ptr[h] # None /\ ptr[h] = ptr[g] => h = g
  /\ \A i, j \in DOMAIN doomed : doomed[i].obj = doomed[j].obj => i = j
  /\ Held \cap bare = {} /\ Held \cap Dying = {} /\ bare \cap Dying = {}
  /\ allocated = Held \cup bare \cup Dying
  /\ \A h \in Handle \ Existing : ptr[h] = None

(* A handle carries the deleter of what it holds.                          *)
Paired == \A h \in Handle : ptr[h] # None => del[h] = given[ptr[h]]

(* What every step preserves.                                              *)
Inv == TypeOK /\ Unique /\ Paired /\ DeleterKept
=============================================================================
