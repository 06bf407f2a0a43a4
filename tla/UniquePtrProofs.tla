-------------------------- MODULE UniquePtrProofs --------------------------
(***************************************************************************)
(* Theorems about UniquePtr, for any handles, objects and deleters.        *)
(***************************************************************************)
EXTENDS UniquePtr, FiniteSetTheorems, SequenceTheorems, TLAPS

Deleters == Deleter \cup {MovedFrom}

(***************************************************************************)
(* The stack of deletions                                                  *)
(***************************************************************************)

\* What a destructor that finds p does to a stack.
LEMMA Pushed ==
  ASSUME NEW S \in Seq(Deletion), NEW p \in Obj \cup {None}, NEW d \in Deleters,
         \A i, j \in DOMAIN S : S[i].obj = S[j].obj => i = j,
         \A i \in DOMAIN S : S[i].obj # p,
         doomed' = Push(S, p, d)
  PROVE  /\ doomed' \in Seq(Deletion)
         /\ Dying' = {S[i].obj : i \in DOMAIN S} \cup ({p} \ {None})
         /\ Existing' = Root \cup
              {o \in allocated' :
                 ~ \E i \in DOMAIN S : S[i].obj = o /\ S[i].phase = "members"}
         /\ \A i, j \in DOMAIN doomed' :
               doomed'[i].obj = doomed'[j].obj => i = j
         /\ \A i \in DOMAIN doomed' :
               \/ i \in DOMAIN S /\ doomed'[i] = S[i]
               \/ p # None /\ doomed'[i].obj = p /\ doomed'[i].del = d
  <1>1. CASE p = None
    <2>1. doomed' = S
      BY <1>1 DEF Push
    <2>2. {p} \ {None} = {}
      BY <1>1
    <2>3. QED
      BY <2>1, <2>2 DEF Dying, Existing, InMembers
  <1>2. CASE p # None
    <2> DEFINE e == [obj |-> p, del |-> d, phase |-> "body"]
    <2>1. e \in Deletion /\ e.obj = p /\ e.del = d /\ e.phase # "members"
      BY <1>2 DEF Deletion, Deleters
    <2>2. doomed' = Append(S, e)
      BY <1>2 DEF Push
    <2> HIDE DEF e
    <2>3. /\ doomed' \in Seq(Deletion)
          /\ DOMAIN S = 1 .. Len(S) /\ Len(S) \in Nat
          /\ DOMAIN doomed' = 1 .. Len(S) + 1
          /\ \A i \in 1 .. Len(S) : doomed'[i] = S[i]
          /\ doomed'[Len(S) + 1] = e
      BY <2>1, <2>2
    <2>4. \A i \in DOMAIN doomed' : i \in DOMAIN S \/ i = Len(S) + 1
      BY <2>3
    <2>5. \A i, j \in DOMAIN doomed' : doomed'[i].obj = doomed'[j].obj => i = j
      <3> SUFFICES ASSUME NEW i \in DOMAIN doomed', NEW j \in DOMAIN doomed',
                          doomed'[i].obj = doomed'[j].obj
                   PROVE  i = j
        OBVIOUS
      <3>1. CASE i \in DOMAIN S /\ j \in DOMAIN S
        BY <3>1, <2>3
      <3>2. CASE i \in DOMAIN S /\ j = Len(S) + 1
        BY <3>2, <2>1, <2>3
      <3>3. CASE i = Len(S) + 1 /\ j \in DOMAIN S
        BY <3>3, <2>1, <2>3
      <3>4. QED
        BY <3>1, <3>2, <3>3, <2>4
    <2>6. \A i \in DOMAIN doomed' :
             \/ i \in DOMAIN S /\ doomed'[i] = S[i]
             \/ p # None /\ doomed'[i].obj = p /\ doomed'[i].del = d
      BY <1>2, <2>1, <2>3, <2>4
    <2>7. Dying' = {S[i].obj : i \in DOMAIN S} \cup {p}
      <3>1. Dying' = {doomed'[i].obj : i \in DOMAIN doomed'}
        BY DEF Dying
      <3>2. \A x \in Dying' : x \in {S[i].obj : i \in DOMAIN S} \cup {p}
        BY <3>1, <2>6
      <3>3. \A i \in DOMAIN S : i \in DOMAIN doomed' /\ doomed'[i] = S[i]
        BY <2>3
      <3>4. p \in Dying'
        BY <3>1, <2>1, <2>3
      <3>5. \A i \in DOMAIN S : S[i].obj \in Dying'
        BY <3>1, <3>3
      <3>6. {S[i].obj : i \in DOMAIN S} \cup {p} \subseteq Dying'
        BY <3>4, <3>5
      <3>7. QED
        BY <3>2, <3>6
    <2>8. ASSUME NEW o
          PROVE  InMembers(o)' <=>
                   \E i \in DOMAIN S : S[i].obj = o /\ S[i].phase = "members"
      <3>1. InMembers(o)' <=> \E i \in DOMAIN doomed' : doomed'[i].obj = o
                                 /\ doomed'[i].phase = "members"
        BY DEF InMembers
      <3>2. \A i \in DOMAIN S : i \in DOMAIN doomed' /\ doomed'[i] = S[i]
        BY <2>3
      <3>3. \A i \in DOMAIN doomed' : doomed'[i].phase = "members" => i \in DOMAIN S
        BY <2>1, <2>3, <2>4
      <3>4. QED
        BY <3>1, <3>2, <3>3
    <2>9. QED
      BY <1>2, <2>3, <2>5, <2>6, <2>7, <2>8 DEF Existing
  <1>3. QED
    BY <1>1, <1>2

\* A step in which a handle with p and d is destroyed, or none if p is None.
LEMMA Deletes ==
  ASSUME Inv, NEW p \in Obj \cup {None}, NEW d \in Deleters, p \notin Dying,
         doomed' = Push(doomed, p, d), allocated' = allocated,
         \A o \in Dying \cup ({p} \ {None}) : given'[o] = given[o],
         p # None => d = given[p]
  PROVE  /\ doomed' \in Seq(Deletion)
         /\ Dying' = Dying \cup ({p} \ {None})
         /\ Existing' = Existing
         /\ \A i, j \in DOMAIN doomed' :
               doomed'[i].obj = doomed'[j].obj => i = j
         /\ DeleterKept'
  <1>1. /\ doomed \in Seq(Deletion)
        /\ \A i, j \in DOMAIN doomed : doomed[i].obj = doomed[j].obj => i = j
        /\ \A i \in DOMAIN doomed : doomed[i].del = given[doomed[i].obj]
    BY DEF Inv, TypeOK, Unique, DeleterKept
  <1>2. /\ \A i \in DOMAIN doomed : doomed[i].obj # p
        /\ \A i \in DOMAIN doomed : doomed[i].obj \in Dying
    BY DEF Dying
  <1>3. /\ doomed' \in Seq(Deletion)
        /\ Dying' = {doomed[i].obj : i \in DOMAIN doomed} \cup ({p} \ {None})
        /\ Existing' = Root \cup
              {o \in allocated' : ~ \E i \in DOMAIN doomed :
                 doomed[i].obj = o /\ doomed[i].phase = "members"}
        /\ \A i, j \in DOMAIN doomed' :
              doomed'[i].obj = doomed'[j].obj => i = j
        /\ \A i \in DOMAIN doomed' :
              \/ i \in DOMAIN doomed /\ doomed'[i] = doomed[i]
              \/ p # None /\ doomed'[i].obj = p /\ doomed'[i].del = d
    BY <1>1, <1>2, Pushed
  <1>4. Existing' = Existing
    BY <1>3 DEF Existing, InMembers
  <1>5. ASSUME NEW i \in DOMAIN doomed'
        PROVE  doomed'[i].del = given'[doomed'[i].obj]
    BY <1>1, <1>2, <1>3
  <1>6. DeleterKept'
    BY <1>5 DEF DeleterKept
  <1>7. QED
    BY <1>3, <1>4, <1>6 DEF Dying

LEMMA DyingType ==
  ASSUME Inv
  PROVE  Dying \subseteq Obj /\ Existing \subseteq Handle
  <1>1. doomed \in Seq(Deletion)
    BY DEF Inv, TypeOK
  <1>2. \A i \in DOMAIN doomed : doomed[i] \in Deletion
    BY <1>1
  <1>3. \A i \in DOMAIN doomed : doomed[i].obj \in Obj
    BY <1>2 DEF Deletion
  <1>4. QED
    BY <1>3 DEF Inv, TypeOK, Dying, Existing, Handle

\* The handles, and what they own.
LEMMA HandleTypes ==
  ASSUME Inv, NEW h \in Handle
  PROVE  /\ ptr[h] \in Obj \cup {None} /\ ptr[h] \notin Dying
         /\ del[h] \in Deleters
         /\ ptr[h] # None => del[h] = given[ptr[h]]
         /\ ptr[h] # None => ptr[h] \in Held
  <1>1. /\ ptr[h] \in Obj \cup {None} /\ del[h] \in Deleters
        /\ ptr[h] # None => del[h] = given[ptr[h]]
    BY DEF Inv, TypeOK, Paired, Deleters
  <1>2. ptr[h] # None => ptr[h] \in Held
    BY DEF Held
  <1>3. Dying \subseteq Obj
    BY DyingType
  <1>4. ptr[h] \notin Dying
    BY <1>1, <1>2, <1>3, UniqueAssumption DEF Inv, Unique
  <1>5. QED
    BY <1>1, <1>2, <1>4

\* A deletion takes over what a handle owned.
LEMMA Moved ==
  ASSUME Inv, NEW p, p # None => p \in Held
  PROVE  LET H == Held \ {p}
             D == Dying \cup ({p} \ {None})
         IN /\ H \cap bare = {} /\ H \cap D = {} /\ bare \cap D = {}
            /\ allocated = H \cup bare \cup D
  <1> DEFINE H == Held \ {p}
             D == Dying \cup ({p} \ {None})
  <1>1. /\ Held \cap bare = {} /\ Held \cap Dying = {} /\ bare \cap Dying = {}
        /\ allocated = Held \cup bare \cup Dying
        /\ None \notin Held
    BY DEF Inv, Unique, Held
  <1>2. CASE p = None
    <2>1. H = Held /\ D = Dying
      BY <1>1, <1>2
    <2>2. QED
      BY <1>1, <2>1
  <1>3. CASE p # None
    <2>1. D = Dying \cup {p} /\ p \in Held
      BY <1>3
    <2>2. QED
      BY <1>1, <2>1
  <1>4. QED
    BY <1>2, <1>3

LEMMA NoDefault == Default \in Deleters /\ MovedFrom \in Deleters
                     /\ Deleter \subseteq Deleters /\ None \notin Obj
  BY UniqueAssumption DEF Deleters

(***************************************************************************)
(* One lemma per operation                                                 *)
(***************************************************************************)
LEMMA NewInv ==
  ASSUME Inv, NEW o \in Obj, New(o)
  PROVE  Inv'
  <1>1. /\ o \notin allocated /\ allocated' = allocated \cup {o}
        /\ bare' = bare \cup {o} /\ ptr' = ptr /\ del' = del
        /\ given' = given /\ doomed' = doomed
    BY DEF New
  <1>2. Dying' = Dying /\ Held' = Held
    BY <1>1 DEF Dying, Held
  <1>3. Handle \ Existing' \subseteq Handle \ Existing
    BY <1>1 DEF Existing, InMembers
  <1>4. TypeOK' /\ Paired' /\ DeleterKept'
    BY <1>1 DEF Inv, TypeOK, Paired, DeleterKept
  <1>5. Held' \cap bare' = {} /\ bare' \cap Dying' = {}
        /\ allocated' = Held' \cup bare' \cup Dying'
    BY <1>1, <1>2 DEF Inv, Unique
  <1>6. Unique'
    BY <1>1, <1>2, <1>3, <1>5 DEF Inv, Unique
  <1>7. QED
    BY <1>4, <1>6 DEF Inv

LEMMA AdoptInv ==
  ASSUME Inv, NEW h \in Handle, NEW p \in Obj, NEW d \in Deleter, Adopt(h, p, d)
  PROVE  Inv'
  <1>1. /\ h \in Existing /\ p \in bare
        /\ ptr' = [ptr EXCEPT ![h] = p] /\ del' = [del EXCEPT ![h] = d]
        /\ doomed' = Push(doomed, ptr[h], del[h])
        /\ bare' = bare \ {p} /\ given' = [given EXCEPT ![p] = d]
        /\ allocated' = allocated
    BY DEF Adopt, SwapIn
  <1>2. /\ ptr[h] \in Obj \cup {None} /\ ptr[h] \notin Dying
        /\ del[h] \in Deleters
        /\ ptr[h] # None => del[h] = given[ptr[h]]
        /\ ptr[h] # None => ptr[h] \in Held
    BY HandleTypes
  <1>3. p \notin Held /\ p \notin Dying /\ p # None /\ p # ptr[h]
    BY <1>1, <1>2, NoDefault DEF Inv, Unique
  <1>4. \A o \in Dying \cup ({ptr[h]} \ {None}) : given'[o] = given[o]
    BY <1>1, <1>2, <1>3, DyingType DEF Inv, TypeOK
  <1>5. /\ doomed' \in Seq(Deletion)
        /\ Dying' = Dying \cup ({ptr[h]} \ {None})
        /\ Existing' = Existing
        /\ \A i, j \in DOMAIN doomed' :
              doomed'[i].obj = doomed'[j].obj => i = j
        /\ DeleterKept'
    BY <1>1, <1>2, <1>4, Deletes
  <1>6. /\ ptr' \in [Handle -> Obj \cup {None}]
        /\ ptr'[h] = p /\ del'[h] = d
        /\ \A x \in Handle \ {h} : ptr'[x] = ptr[x] /\ del'[x] = del[x]
    BY <1>1 DEF Inv, TypeOK
  <1>7. TypeOK'
    BY <1>1, <1>5, <1>6 DEF Inv, TypeOK
  <1>8. \A x \in Handle \ {h} : ptr[x] # None => ptr[x] # ptr[h] /\ ptr[x] # p
    BY <1>3 DEF Inv, Unique, Held
  <1>9. Held' = (Held \ {ptr[h]}) \cup {p}
    <2>1. Held' = {ptr'[x] : x \in Handle} \ {None}
      BY DEF Held
    <2>2. \A x \in Handle : ptr'[x] # None => ptr'[x] \in (Held \ {ptr[h]}) \cup {p}
      BY <1>6, <1>8 DEF Held
    <2>3. \A q \in (Held \ {ptr[h]}) \cup {p} : q # None /\ \E x \in Handle : q = ptr'[x]
      BY <1>3, <1>6 DEF Held
    <2>4. QED
      BY <2>1, <2>2, <2>3
  <1>10. /\ Held' \cap bare' = {} /\ Held' \cap Dying' = {}
         /\ bare' \cap Dying' = {}
         /\ allocated' = Held' \cup bare' \cup Dying'
    <2> DEFINE H == Held \ {ptr[h]}
    <2>1. /\ H \cap bare = {} /\ H \cap Dying' = {} /\ bare \cap Dying' = {}
          /\ allocated = H \cup bare \cup Dying'
      BY <1>2, <1>5, Moved
    <2>2. p \in bare /\ p \notin H
      BY <1>1, <1>3
    <2> HIDE DEF H
    <2>3. Held' = H \cup {p} /\ bare' = bare \ {p} /\ allocated' = allocated
      BY <1>1, <1>9 DEF H
    <2>4. QED
      BY <2>1, <2>2, <2>3
  <1>11. \A x, y \in Handle : ptr'[x] # None /\ ptr'[x] = ptr'[y] => x = y
    BY <1>6, <1>8 DEF Inv, Unique
  <1>12. \A x \in Handle \ Existing' : ptr'[x] = None
    BY <1>1, <1>5, <1>6 DEF Inv, Unique
  <1>13. Paired'
    <2> SUFFICES ASSUME NEW x \in Handle, ptr'[x] # None
                 PROVE  del'[x] = given'[ptr'[x]]
      BY DEF Paired
    <2>1. CASE x = h
      BY <2>1, <1>1, <1>6 DEF Inv, TypeOK
    <2>2. CASE x # h
      BY <2>2, <1>1, <1>6, <1>8 DEF Inv, TypeOK, Paired
    <2>3. QED
      BY <2>1, <2>2
  <1>14. QED
    BY <1>5, <1>7, <1>10, <1>11, <1>12, <1>13 DEF Inv, Unique

LEMMA ReleaseInv ==
  ASSUME Inv, NEW h \in Handle, Release(h)
  PROVE  Inv'
  <1>1. /\ h \in Existing /\ ptr[h] # None
        /\ ptr' = [ptr EXCEPT ![h] = None] /\ bare' = bare \cup {ptr[h]}
        /\ del' = del /\ doomed' = doomed /\ given' = given
        /\ allocated' = allocated
    BY DEF Release
  <1>2. /\ ptr[h] \in Obj \cup {None} /\ ptr[h] \notin Dying
        /\ ptr[h] \in Held
    BY <1>1, HandleTypes
  <1>3. Dying' = Dying /\ Existing' = Existing
    BY <1>1 DEF Dying, Existing, InMembers
  <1>4. /\ ptr' \in [Handle -> Obj \cup {None}]
        /\ ptr'[h] = None
        /\ \A x \in Handle \ {h} : ptr'[x] = ptr[x]
    BY <1>1 DEF Inv, TypeOK
  <1>5. TypeOK' /\ DeleterKept'
    BY <1>1, <1>2, <1>4 DEF Inv, TypeOK, DeleterKept
  <1>6. Held' = Held \ {ptr[h]}
    <2>1. Held' = {ptr'[x] : x \in Handle} \ {None}
      BY DEF Held
    <2>2. \A x \in Handle \ {h} : ptr[x] # None => ptr[x] # ptr[h]
      BY <1>1 DEF Inv, Unique
    <2>3. \A x \in Handle : ptr'[x] # None => ptr'[x] \in Held \ {ptr[h]}
      BY <1>4, <2>2 DEF Held
    <2>4. \A q \in Held \ {ptr[h]} : q # None /\ \E x \in Handle : q = ptr'[x]
      BY <1>4 DEF Held
    <2>5. QED
      BY <2>1, <2>3, <2>4
  <1>7. /\ Held' \cap bare' = {} /\ Held' \cap Dying' = {}
        /\ bare' \cap Dying' = {}
        /\ allocated' = Held' \cup bare' \cup Dying'
    BY <1>1, <1>2, <1>3, <1>6 DEF Inv, Unique
  <1>8. Unique'
    BY <1>1, <1>3, <1>4, <1>7 DEF Inv, Unique
  <1>9. Paired'
    BY <1>1, <1>4 DEF Inv, Paired
  <1>10. QED
    BY <1>5, <1>8, <1>9 DEF Inv

LEMMA ClearInv ==
  ASSUME Inv, NEW h \in Handle, Clear(h)
  PROVE  Inv'
  <1>1. /\ h \in Existing
        /\ ptr' = [ptr EXCEPT ![h] = None] /\ del' = [del EXCEPT ![h] = Default]
        /\ doomed' = Push(doomed, ptr[h], del[h])
        /\ bare' = bare /\ given' = given /\ allocated' = allocated
    BY DEF Clear, SwapIn
  <1>2. /\ ptr[h] \in Obj \cup {None} /\ ptr[h] \notin Dying
        /\ del[h] \in Deleters
        /\ ptr[h] # None => del[h] = given[ptr[h]]
        /\ ptr[h] # None => ptr[h] \in Held
    BY HandleTypes
  <1>3. /\ doomed' \in Seq(Deletion)
        /\ Dying' = Dying \cup ({ptr[h]} \ {None})
        /\ Existing' = Existing
        /\ \A i, j \in DOMAIN doomed' :
              doomed'[i].obj = doomed'[j].obj => i = j
        /\ DeleterKept'
    BY <1>1, <1>2, Deletes
  <1>4. /\ ptr' \in [Handle -> Obj \cup {None}]
        /\ ptr'[h] = None
        /\ \A x \in Handle \ {h} : ptr'[x] = ptr[x] /\ del'[x] = del[x]
    BY <1>1 DEF Inv, TypeOK
  <1>5. TypeOK'
    BY <1>1, <1>3, <1>4, NoDefault DEF Inv, TypeOK, Deleters
  <1>6. Held' = Held \ {ptr[h]}
    <2>1. Held' = {ptr'[x] : x \in Handle} \ {None}
      BY DEF Held
    <2>2. \A x \in Handle \ {h} : ptr[x] # None => ptr[x] # ptr[h]
      BY DEF Inv, Unique
    <2>3. \A x \in Handle : ptr'[x] # None => ptr'[x] \in Held \ {ptr[h]}
      BY <1>4, <2>2 DEF Held
    <2>4. \A q \in Held \ {ptr[h]} : q # None /\ \E x \in Handle : q = ptr'[x]
      BY <1>4 DEF Held
    <2>5. QED
      BY <2>1, <2>3, <2>4
  <1>7. /\ Held' \cap bare' = {} /\ Held' \cap Dying' = {}
        /\ bare' \cap Dying' = {}
        /\ allocated' = Held' \cup bare' \cup Dying'
    BY <1>1, <1>2, <1>3, <1>6, Moved
  <1>8. Unique'
    BY <1>1, <1>3, <1>4, <1>7 DEF Inv, Unique
  <1>9. Paired'
    BY <1>1, <1>4 DEF Inv, Paired
  <1>10. QED
    BY <1>3, <1>5, <1>8, <1>9 DEF Inv

\* What Move and MoveConverted do with two handles.
LEMMA MovesInv ==
  ASSUME Inv, NEW h \in Existing, NEW g \in Existing, h # g,
         NEW left \in Deleters,
         ptr' = [ptr EXCEPT ![g] = None, ![h] = ptr[g]],
         del' = [del EXCEPT ![g] = left, ![h] = del[g]],
         doomed' = Push(doomed, ptr[h], del[h]),
         UNCHANGED <<allocated, bare, given>>
  PROVE  Inv'
  <1>1. h \in Handle /\ g \in Handle
    BY DyingType
  <1>2. /\ ptr[h] \in Obj \cup {None} /\ ptr[h] \notin Dying
        /\ del[h] \in Deleters
        /\ ptr[h] # None => del[h] = given[ptr[h]]
        /\ ptr[h] # None => ptr[h] \in Held
    BY <1>1, HandleTypes
  <1>3. /\ doomed' \in Seq(Deletion)
        /\ Dying' = Dying \cup ({ptr[h]} \ {None})
        /\ Existing' = Existing
        /\ \A i, j \in DOMAIN doomed' :
              doomed'[i].obj = doomed'[j].obj => i = j
        /\ DeleterKept'
    BY <1>2, Deletes
  <1>4. /\ ptr' \in [Handle -> Obj \cup {None}]
        /\ del' \in [Handle -> Deleters]
    BY <1>1 DEF Inv, TypeOK, Deleters
  <1>5. /\ ptr'[g] = None /\ ptr'[h] = ptr[g] /\ del'[h] = del[g]
        /\ \A x \in Handle \ {h, g} : ptr'[x] = ptr[x] /\ del'[x] = del[x]
    BY <1>1 DEF Inv, TypeOK
  <1>6. TypeOK'
    BY <1>3, <1>4 DEF Inv, TypeOK, Deleters
  <1>7. \A x, y \in Handle : ptr[x] # None /\ ptr[x] = ptr[y] => x = y
    BY DEF Inv, Unique
  <1>8. Held' = Held \ {ptr[h]}
    <2>1. Held' = {ptr'[x] : x \in Handle} \ {None}
      BY DEF Held
    <2>2. \A x \in Handle \ {h} : ptr[x] # None => ptr[x] # ptr[h]
      BY <1>1, <1>7
    <2>3. ASSUME NEW x \in Handle, ptr'[x] # None
          PROVE  ptr'[x] \in Held \ {ptr[h]}
      <3>1. PICK y \in Handle : y # h /\ ptr'[x] = ptr[y]
        BY <1>1, <1>5, <2>3
      <3>2. QED
        BY <2>2, <2>3, <3>1 DEF Held
    <2>4. ASSUME NEW q \in Held \ {ptr[h]}
          PROVE  q # None /\ \E x \in Handle : q = ptr'[x]
      <3>1. PICK x \in Handle : q = ptr[x] /\ q # None
        BY DEF Held
      <3>2. CASE x = g
        BY <3>1, <3>2, <1>1, <1>5
      <3>3. CASE x # g
        BY <3>1, <3>3, <1>5
      <3>4. QED
        BY <3>2, <3>3
    <2>5. Held' \subseteq Held \ {ptr[h]}
      BY <2>1, <2>3
    <2>6. Held \ {ptr[h]} \subseteq Held'
      BY <2>1, <2>4
    <2>7. QED
      BY <2>5, <2>6
  <1>9. /\ Held' \cap bare' = {} /\ Held' \cap Dying' = {}
        /\ bare' \cap Dying' = {}
        /\ allocated' = Held' \cup bare' \cup Dying'
    BY <1>2, <1>3, <1>8, Moved
  <1>10. \A x, y \in Handle : ptr'[x] # None /\ ptr'[x] = ptr'[y] => x = y
    BY <1>1, <1>5, <1>7
  <1>11. \A x \in Handle \ Existing' : ptr'[x] = None
    BY <1>3, <1>5 DEF Inv, Unique
  <1>12. Unique'
    BY <1>3, <1>9, <1>10, <1>11 DEF Unique
  <1>13. Paired'
    BY <1>1, <1>5 DEF Inv, Paired
  <1>14. QED
    BY <1>3, <1>6, <1>12, <1>13 DEF Inv

LEMMA StutterInv ==
  ASSUME Inv, UNCHANGED vars
  PROVE  Inv'
  <1>1. /\ ptr' = ptr /\ del' = del /\ allocated' = allocated /\ bare' = bare
        /\ given' = given /\ doomed' = doomed
    BY DEF vars
  <1>2. Dying' = Dying /\ Held' = Held /\ Existing' = Existing
    BY <1>1 DEF Dying, Held, Existing, InMembers
  <1>3. QED
    BY <1>1, <1>2 DEF Inv, TypeOK, Unique, Paired, DeleterKept

LEMMA MoveInv ==
  ASSUME Inv, NEW h \in Handle, NEW g \in Handle, Move(h, g)
  PROVE  Inv'
  <1>1. CASE h = g
    <2>1. ptr' = ptr /\ del' = del
      BY <1>1 DEF Move, Inv, TypeOK
    <2>2. doomed' = doomed
      BY <1>1 DEF Move, Push
    <2>3. QED
      BY <2>1, <2>2, StutterInv DEF Move, vars
  <1>2. CASE h # g
    BY <1>2, MovesInv, NoDefault DEF Move
  <1>3. QED
    BY <1>1, <1>2

LEMMA MoveConvertedInv ==
  ASSUME Inv, NEW h \in Handle, NEW g \in Handle, MoveConverted(h, g)
  PROVE  Inv'
  BY MovesInv, NoDefault DEF MoveConverted

LEMMA SwapInv ==
  ASSUME Inv, NEW h \in Handle, NEW g \in Handle, Swap(h, g)
  PROVE  Inv'
  <1>1. /\ h \in Existing /\ g \in Existing
        /\ ptr' = [ptr EXCEPT ![h] = ptr[g], ![g] = ptr[h]]
        /\ del' = [del EXCEPT ![h] = del[g], ![g] = del[h]]
        /\ allocated' = allocated /\ bare' = bare /\ given' = given
        /\ doomed' = doomed
    BY DEF Swap
  <1>2. /\ ptr' \in [Handle -> Obj \cup {None}]
        /\ del' \in [Handle -> Deleters]
    BY <1>1 DEF Inv, TypeOK, Deleters
  <1>3. /\ ptr'[g] = ptr[h] /\ ptr'[h] = ptr[g]
        /\ del'[g] = del[h] /\ del'[h] = del[g]
        /\ \A x \in Handle \ {h, g} : ptr'[x] = ptr[x] /\ del'[x] = del[x]
    BY <1>1 DEF Inv, TypeOK
  <1>4. Held' = Held
    <2>1. Held' = {ptr'[x] : x \in Handle} \ {None}
      BY DEF Held
    <2>2. \A x \in Handle : ptr'[x] # None => ptr'[x] \in Held
      BY <1>3 DEF Held
    <2>3. ASSUME NEW x \in Handle
          PROVE  \E y \in Handle : ptr[x] = ptr'[y]
      <3>1. CASE x = h
        BY <3>1, <1>3
      <3>2. CASE x = g
        BY <3>2, <1>3
      <3>3. CASE x # h /\ x # g
        BY <3>3, <1>3
      <3>4. QED
        BY <3>1, <3>2, <3>3
    <2>4. \A q \in Held : q # None /\ \E y \in Handle : q = ptr'[y]
      BY <2>3 DEF Held
    <2>5. QED
      BY <2>1, <2>2, <2>4
  <1>5. Dying' = Dying /\ Existing' = Existing
    BY <1>1 DEF Dying, Existing, InMembers
  <1>6. TypeOK' /\ DeleterKept'
    BY <1>1, <1>2 DEF Inv, TypeOK, DeleterKept, Deleters
  <1>7. \A x, y \in Handle : ptr'[x] # None /\ ptr'[x] = ptr'[y] => x = y
    BY <1>3 DEF Inv, Unique
  <1>8. \A x \in Handle \ Existing' : ptr'[x] = None
    BY <1>1, <1>3, <1>5 DEF Inv, Unique
  <1>9. Unique'
    BY <1>1, <1>4, <1>5, <1>7, <1>8 DEF Inv, Unique
  <1>10. ASSUME NEW x \in Handle, ptr'[x] # None
         PROVE  del'[x] = given[ptr'[x]]
    <2>1. \A y \in Handle : ptr[y] # None => del[y] = given[ptr[y]]
      BY DEF Inv, Paired
    <2>2. CASE x = h
      BY <2>1, <2>2, <1>3, <1>10, DyingType, <1>1
    <2>3. CASE x = g
      BY <2>1, <2>3, <1>3, <1>10, DyingType, <1>1
    <2>4. CASE x # h /\ x # g
      BY <2>1, <2>4, <1>3, <1>10
    <2>5. QED
      BY <2>2, <2>3, <2>4
  <1>11. Paired'
    BY <1>1, <1>10 DEF Paired
  <1>12. QED
    BY <1>6, <1>9, <1>11 DEF Inv

LEMMA BodyEndsInv ==
  ASSUME Inv, BodyEnds
  PROVE  Inv'
  <1> DEFINE n == Len(doomed)
             o == doomed[n].obj
             S == [doomed EXCEPT ![n].phase = "members"]
  <1>1. /\ doomed \in Seq(Deletion) /\ doomed # <<>>
        /\ n \in 1 .. Len(doomed) /\ n \in DOMAIN doomed
        /\ DOMAIN doomed = 1 .. Len(doomed)
        /\ doomed[n] \in Deletion /\ o \in Obj /\ o \in Dying
        /\ doomed[n].phase = "body"
    <2>1. doomed \in Seq(Deletion) /\ doomed # <<>> /\ doomed[n].phase = "body"
      BY DEF Inv, TypeOK, BodyEnds
    <2>2. n \in 1 .. Len(doomed) /\ DOMAIN doomed = 1 .. Len(doomed)
          /\ doomed[n] \in Deletion
      BY <2>1
    <2>3. doomed[n].obj \in Obj
      BY <2>2 DEF Deletion
    <2>4. doomed[n].obj \in Dying
      BY <2>2 DEF Dying
    <2>5. QED
      BY <2>1, <2>2, <2>3, <2>4
  <1>2. /\ doomed' = Push(S, ptr[o], del[o])
        /\ ptr' = [ptr EXCEPT ![o] = None]
        /\ del' = [del EXCEPT ![o] = Default]
        /\ allocated' = allocated /\ bare' = bare /\ given' = given
    BY DEF BodyEnds
  <1>3. /\ S \in Seq(Deletion) /\ DOMAIN S = DOMAIN doomed
        /\ S[n].obj = o /\ S[n].del = doomed[n].del /\ S[n].phase = "members"
        /\ \A i \in DOMAIN doomed : i # n => S[i] = doomed[i]
    <2>1. S = [doomed EXCEPT ![n] = [doomed[n] EXCEPT !.phase = "members"]]
      BY <1>1
    <2> DEFINE e == [doomed[n] EXCEPT !.phase = "members"]
    <2>2. /\ e \in Deletion /\ e.obj = doomed[n].obj /\ e.del = doomed[n].del
          /\ e.phase = "members"
      BY <1>1 DEF Deletion
    <2> HIDE DEF e
    <2>3. [doomed EXCEPT ![n] = e] \in Seq(Deletion)
      BY <1>1, <2>2, ExceptSeq
    <2>4. \A i \in DOMAIN doomed : S[i] = IF i = n THEN e ELSE doomed[i]
      BY <1>1, <2>1 DEF e
    <2>5. DOMAIN S = DOMAIN doomed
      OBVIOUS
    <2> HIDE DEF S
    <2>6. QED
      BY <1>1, <2>1, <2>2, <2>3, <2>4, <2>5
  <1> HIDE DEF S, n, o
  <1>4. o \in Handle
    BY <1>1 DEF Handle
  <1>5. /\ ptr[o] \in Obj \cup {None} /\ ptr[o] \notin Dying
        /\ del[o] \in Deleters
        /\ ptr[o] # None => del[o] = given[ptr[o]]
        /\ ptr[o] # None => ptr[o] \in Held
    BY <1>4, HandleTypes
  <1>6. \A i \in DOMAIN doomed : S[i].obj = doomed[i].obj /\ S[i].del = doomed[i].del
    BY <1>3 DEF o
  <1>7. /\ \A i, j \in DOMAIN S : S[i].obj = S[j].obj => i = j
        /\ \A i \in DOMAIN S : S[i].obj # ptr[o]
        /\ {S[i].obj : i \in DOMAIN S} = Dying
    <2>1. \A i, j \in DOMAIN doomed : doomed[i].obj = doomed[j].obj => i = j
      BY DEF Inv, Unique
    <2>2. {S[i].obj : i \in DOMAIN S} = Dying
      BY <1>3, <1>6 DEF Dying
    <2>3. \A i \in DOMAIN S : S[i].obj \in Dying
      BY <2>2
    <2>4. QED
      BY <1>3, <1>5, <1>6, <2>1, <2>2, <2>3
  <1>8. /\ doomed' \in Seq(Deletion)
        /\ Dying' = Dying \cup ({ptr[o]} \ {None})
        /\ Existing' = Root \cup
              {x \in allocated' :
                 ~ \E i \in DOMAIN S : S[i].obj = x /\ S[i].phase = "members"}
        /\ \A i, j \in DOMAIN doomed' :
              doomed'[i].obj = doomed'[j].obj => i = j
        /\ \A i \in DOMAIN doomed' :
              \/ i \in DOMAIN S /\ doomed'[i] = S[i]
              \/ ptr[o] # None /\ doomed'[i].obj = ptr[o] /\ doomed'[i].del = del[o]
    <2> DEFINE p == ptr[o]
               d == del[o]
    <2>1. /\ S \in Seq(Deletion) /\ p \in Obj \cup {None} /\ d \in Deleters
          /\ \A i, j \in DOMAIN S : S[i].obj = S[j].obj => i = j
          /\ \A i \in DOMAIN S : S[i].obj # p
          /\ doomed' = Push(S, p, d)
      BY <1>2, <1>3, <1>5, <1>7
    <2>2. {S[i].obj : i \in DOMAIN S} = Dying
      BY <1>7
    <2> HIDE DEF p, d
    <2>3. /\ doomed' \in Seq(Deletion)
          /\ Dying' = {S[i].obj : i \in DOMAIN S} \cup ({p} \ {None})
          /\ Existing' = Root \cup
                {x \in allocated' :
                   ~ \E i \in DOMAIN S : S[i].obj = x /\ S[i].phase = "members"}
          /\ \A i, j \in DOMAIN doomed' :
                doomed'[i].obj = doomed'[j].obj => i = j
          /\ \A i \in DOMAIN doomed' :
                \/ i \in DOMAIN S /\ doomed'[i] = S[i]
                \/ p # None /\ doomed'[i].obj = p /\ doomed'[i].del = d
      BY <2>1, Pushed
    <2>4. QED
      BY <2>2, <2>3 DEF p, d
  <1>9. Existing \subseteq Existing' \cup {o}
    <2> SUFFICES ASSUME NEW x \in Existing, x # o
                 PROVE  x \in Existing'
      OBVIOUS
    <2>1. CASE x \in Root
      BY <2>1, <1>8
    <2>2. CASE x \notin Root
      <3>1. x \in allocated /\ ~InMembers(x)
        BY <2>2 DEF Existing
      <3>2. ~ \E i \in DOMAIN S : S[i].obj = x /\ S[i].phase = "members"
        BY <3>1, <1>3 DEF InMembers
      <3>3. QED
        BY <3>1, <3>2, <1>2, <1>8
    <2>3. QED
      BY <2>1, <2>2
  <1>10. /\ ptr' \in [Handle -> Obj \cup {None}]
         /\ del' \in [Handle -> Deleters]
         /\ ptr'[o] = None
         /\ \A x \in Handle \ {o} : ptr'[x] = ptr[x] /\ del'[x] = del[x]
    BY <1>2, <1>4, NoDefault DEF Inv, TypeOK, Deleters
  <1>11. TypeOK'
    BY <1>2, <1>8, <1>10 DEF Inv, TypeOK, Deleters
  <1>12. \A x, y \in Handle : ptr[x] # None /\ ptr[x] = ptr[y] => x = y
    BY DEF Inv, Unique
  <1>13. Held' = Held \ {ptr[o]}
    <2>1. Held' = {ptr'[x] : x \in Handle} \ {None}
      BY DEF Held
    <2>2. \A x \in Handle \ {o} : ptr[x] # None => ptr[x] # ptr[o]
      BY <1>4, <1>12
    <2>3. \A x \in Handle : ptr'[x] # None => ptr'[x] \in Held \ {ptr[o]}
      BY <1>10, <2>2 DEF Held
    <2>4. \A q \in Held \ {ptr[o]} : q # None /\ \E x \in Handle : q = ptr'[x]
      BY <1>10 DEF Held
    <2>5. QED
      BY <2>1, <2>3, <2>4
  <1>14. /\ Held' \cap bare' = {} /\ Held' \cap Dying' = {}
         /\ bare' \cap Dying' = {}
         /\ allocated' = Held' \cup bare' \cup Dying'
    BY <1>2, <1>5, <1>8, <1>13, Moved
  <1>15. \A x \in Handle \ Existing' : ptr'[x] = None
    BY <1>9, <1>10 DEF Inv, Unique
  <1>16. Unique'
    BY <1>8, <1>10, <1>12, <1>14, <1>15 DEF Unique
  <1>17. Paired'
    BY <1>2, <1>10 DEF Inv, Paired
  <1>18. DeleterKept'
    <2> SUFFICES ASSUME NEW i \in DOMAIN doomed'
                 PROVE  doomed'[i].del = given[doomed'[i].obj]
      BY <1>2 DEF DeleterKept
    <2>1. CASE i \in DOMAIN S /\ doomed'[i] = S[i]
      BY <2>1, <1>3, <1>6 DEF Inv, DeleterKept
    <2>2. CASE /\ ptr[o] # None /\ doomed'[i].obj = ptr[o]
               /\ doomed'[i].del = del[o]
      BY <2>2, <1>5
    <2>3. QED
      BY <2>1, <2>2, <1>8
  <1>19. QED
    BY <1>11, <1>16, <1>17, <1>18 DEF Inv

LEMMA FreedInv ==
  ASSUME Inv, Freed
  PROVE  Inv'
  <1> DEFINE n == Len(doomed)
             o == doomed[n].obj
  <1>1. /\ doomed \in Seq(Deletion) /\ n \in Nat /\ n \in DOMAIN doomed
        /\ doomed[n].phase = "members"
        /\ DOMAIN doomed = 1 .. n
    <2>1. /\ doomed \in Seq(Deletion) /\ doomed # <<>>
          /\ doomed[n].phase = "members"
      BY DEF Inv, TypeOK, Freed
    <2>2. QED
      BY <2>1
  <1>2. /\ doomed' = SubSeq(doomed, 1, n - 1)
        /\ allocated' = allocated \ {o}
        /\ ptr' = ptr /\ del' = del /\ bare' = bare /\ given' = given
    BY DEF Freed
  <1>3. /\ doomed' \in Seq(Deletion)
        /\ DOMAIN doomed' = 1 .. n - 1
        /\ \A i \in 1 .. n - 1 : doomed'[i] = doomed[i]
    BY <1>1, <1>2
  <1>4. \A i, j \in DOMAIN doomed : doomed[i].obj = doomed[j].obj => i = j
    BY DEF Inv, Unique
  <1> HIDE DEF n
  <1>5. \A i \in DOMAIN doomed : i # n => i \in DOMAIN doomed'
    BY <1>1, <1>3
  <1>6. \A i \in DOMAIN doomed' :
           i \in DOMAIN doomed /\ i # n /\ doomed'[i] = doomed[i]
    BY <1>1, <1>3
  <1>7. Dying' = Dying \ {o} /\ o \in Dying
    <2>1. Dying' = {doomed'[i].obj : i \in DOMAIN doomed'}
      BY DEF Dying
    <2>2. \A x \in Dying' : x \in Dying \ {o}
      BY <2>1, <1>1, <1>4, <1>6 DEF Dying
    <2>3. \A x \in Dying \ {o} : x \in Dying'
      BY <2>1, <1>5, <1>6 DEF Dying
    <2>4. QED
      BY <1>1, <2>2, <2>3 DEF Dying
  <1>8. InMembers(o)
    BY <1>1 DEF InMembers
  <1>9. Existing' = Existing \ ({o} \ Root)
    <2>1. Existing' = Root \cup {x \in allocated' :
            ~ \E i \in DOMAIN doomed' :
                doomed'[i].obj = x /\ doomed'[i].phase = "members"}
      BY DEF Existing, InMembers
    <2>2. ASSUME NEW x, x # o
          PROVE  (\E i \in DOMAIN doomed' :
                    doomed'[i].obj = x /\ doomed'[i].phase = "members")
                   <=> InMembers(x)
      BY <2>2, <1>5, <1>6 DEF InMembers
    <2>3. QED
      BY <2>1, <2>2, <1>2, <1>8 DEF Existing
  <1>10. Held' = Held
    BY <1>2 DEF Held
  <1>11. o \in Obj /\ o \notin Root
    BY <1>7, DyingType, UniqueAssumption
  <1>12. o \notin Existing
    BY <1>8, <1>11 DEF Existing
  <1>13. Existing' = Existing
    BY <1>9, <1>12
  <1>14. /\ Held' \cap bare' = {} /\ Held' \cap Dying' = {}
         /\ bare' \cap Dying' = {}
         /\ allocated' = Held' \cup bare' \cup Dying'
    <2>1. o \notin Held /\ o \notin bare
      BY <1>7 DEF Inv, Unique
    <2>2. QED
      BY <2>1, <1>2, <1>7, <1>10 DEF Inv, Unique
  <1>15. \A i, j \in DOMAIN doomed' : doomed'[i].obj = doomed'[j].obj => i = j
    BY <1>4, <1>6
  <1>16. Unique'
    BY <1>2, <1>13, <1>14, <1>15 DEF Inv, Unique
  <1>17. TypeOK' /\ Paired'
    BY <1>2, <1>3 DEF Inv, TypeOK, Paired
  <1>18. DeleterKept'
    BY <1>2, <1>6 DEF Inv, DeleterKept
  <1>19. QED
    BY <1>16, <1>17, <1>18 DEF Inv

(***************************************************************************)
(* The theorems                                                            *)
(***************************************************************************)
LEMMA InitInv == Init => Inv
  <1> SUFFICES ASSUME Init
               PROVE  Inv
    OBVIOUS
  <1>1. /\ ptr = [h \in Handle |-> None] /\ del = [h \in Handle |-> Default]
        /\ allocated = {} /\ bare = {} /\ given = [o \in Obj |-> Default]
        /\ doomed = <<>> /\ DOMAIN doomed = {}
    BY DEF Init
  <1>2. TypeOK
    BY <1>1, UniqueAssumption DEF TypeOK
  <1>3. Held = {} /\ Dying = {}
    BY <1>1 DEF Held, Dying
  <1>4. Unique
    BY <1>1, <1>3 DEF Unique
  <1>5. Paired /\ DeleterKept
    BY <1>1 DEF Paired, DeleterKept
  <1>6. QED
    BY <1>2, <1>4, <1>5 DEF Inv

LEMMA NextInv == Inv /\ [Next]_vars => Inv'
  <1> SUFFICES ASSUME Inv, [Next]_vars
               PROVE  Inv'
    OBVIOUS
  <1>1. ASSUME NEW o \in Obj, New(o)
        PROVE  Inv'
    BY <1>1, NewInv
  <1>2. ASSUME NEW h \in Handle, NEW p \in Obj, Reset(h, p)
        PROVE  Inv'
    BY <1>2, AdoptInv, UniqueAssumption DEF Reset
  <1>3. ASSUME NEW h \in Handle, NEW p \in Obj, NEW d \in Deleter, Adopt(h, p, d)
        PROVE  Inv'
    BY <1>3, AdoptInv
  <1>4. ASSUME NEW h \in Handle, Clear(h)
        PROVE  Inv'
    BY <1>4, ClearInv
  <1>5. ASSUME NEW h \in Handle, Release(h)
        PROVE  Inv'
    BY <1>5, ReleaseInv
  <1>6. ASSUME NEW h \in Handle, NEW g \in Handle, Move(h, g)
        PROVE  Inv'
    BY <1>6, MoveInv
  <1>7. ASSUME NEW h \in Handle, NEW g \in Handle, MoveConverted(h, g)
        PROVE  Inv'
    BY <1>7, MoveConvertedInv
  <1>8. ASSUME NEW h \in Handle, NEW g \in Handle, Swap(h, g)
        PROVE  Inv'
    BY <1>8, SwapInv
  <1>9. CASE BodyEnds
    BY <1>9, BodyEndsInv
  <1>10. CASE Freed
    BY <1>10, FreedInv
  <1>11. CASE UNCHANGED vars
    BY <1>11, StutterInv
  <1>12. QED
    BY <1>1, <1>2, <1>3, <1>4, <1>5, <1>6, <1>7, <1>8, <1>9, <1>10, <1>11
    DEF Next

(* Everything below follows from this: ownership is exclusive and the      *)
(* deleters go with what they are for, for any program that uses           *)
(* unique_ptr.h and destructors that do the same.                          *)
THEOREM Invariance == Spec => []Inv
  BY InitInv, NextInv, PTL DEF Spec

(* The variables of the handles, and the stack of deletions, have their    *)
(* types: no handle ever points to anything but an object or null.         *)
THEOREM TypeCorrect == Spec => []TypeOK
  <1>1. Inv => TypeOK
    BY DEF Inv
  <1>2. QED
    BY <1>1, Invariance, PTL

LEMMA OneOwner ==
  ASSUME Inv
  PROVE  OwnedOnce
  <1> SUFFICES ASSUME NEW o \in Obj
               PROVE  IF o \in allocated THEN Cardinality(Owners(o)) = 1
                      ELSE Owners(o) = {}
    BY DEF OwnedOnce
  <1>1. o # None
    BY UniqueAssumption
  <1>2. /\ Held \cap bare = {} /\ Held \cap Dying = {} /\ bare \cap Dying = {}
        /\ allocated = Held \cup bare \cup Dying
        /\ \A h, g \in Handle : ptr[h] # None /\ ptr[h] = ptr[g] => h = g
        /\ \A i, j \in DOMAIN doomed : doomed[i].obj = doomed[j].obj => i = j
        /\ \A h \in Handle \ Existing : ptr[h] = None
        /\ Existing \subseteq Handle
    BY DyingType DEF Inv, Unique
  <1> DEFINE Hs == {h \in Existing : ptr[h] = o}
             Bs == bare \cap {o}
             Ds == {i \in DOMAIN doomed : doomed[i].obj = o}
  <1>3. Owners(o) = ({"handle"} \X Hs) \cup ({"bare"} \X Bs)
                      \cup ({"deletion"} \X Ds)
    BY DEF Owners
  <1>4. /\ o \notin Held => Hs = {}
        /\ o \notin bare => Bs = {}
        /\ o \notin Dying => Ds = {}
    BY <1>1, <1>2 DEF Held, Dying
  <1>5. ASSUME o \in Held
        PROVE  \E h : Hs = {h}
    <2>1. PICK h \in Handle : ptr[h] = o
      BY <1>5 DEF Held
    <2>2. Hs = {h}
      BY <1>1, <1>2, <2>1
    <2>3. QED
      BY <2>2
  <1>6. ASSUME o \in Dying
        PROVE  \E i : Ds = {i}
    <2>1. PICK i \in DOMAIN doomed : doomed[i].obj = o
      BY <1>6 DEF Dying
    <2>2. Ds = {i}
      BY <1>2, <2>1
    <2>3. QED
      BY <2>2
  <1>7. o \in bare => Bs = {o}
    OBVIOUS
  <1> HIDE DEF Hs, Bs, Ds
  <1>8. CASE o \notin allocated
    <2>1. Hs = {} /\ Bs = {} /\ Ds = {}
      BY <1>2, <1>4, <1>8
    <2>2. QED
      BY <1>3, <1>8, <2>1
  <1>9. CASE o \in allocated
    <2>1. \E x : Owners(o) = {x}
      <3>1. CASE o \in Held
        <4>1. PICK h : Hs = {h}
          BY <1>5, <3>1
        <4>2. Bs = {} /\ Ds = {}
          BY <1>2, <1>4, <3>1
        <4>3. Owners(o) = {<<"handle", h>>}
          BY <1>3, <4>1, <4>2
        <4>4. QED
          BY <4>3
      <3>2. CASE o \in bare
        <4>1. Hs = {} /\ Bs = {o} /\ Ds = {}
          BY <1>2, <1>4, <1>7, <3>2
        <4>2. Owners(o) = {<<"bare", o>>}
          BY <1>3, <4>1
        <4>3. QED
          BY <4>2
      <3>3. CASE o \in Dying
        <4>1. PICK i : Ds = {i}
          BY <1>6, <3>3
        <4>2. Hs = {} /\ Bs = {}
          BY <1>2, <1>4, <3>3
        <4>3. Owners(o) = {<<"deletion", i>>}
          BY <1>3, <4>1, <4>2
        <4>4. QED
          BY <4>3
      <3>4. QED
        BY <1>2, <1>9, <3>1, <3>2, <3>3
    <2>2. Cardinality(Owners(o)) = 1
      BY <2>1, FS_Singleton
    <2>3. QED
      BY <1>9, <2>2
  <1>10. QED
    BY <1>8, <1>9

(* Every object has one owner from new to its deletion, and none after it: *)
(* no double deletion, no leak and no handle to a deleted object.          *)
THEOREM SoleOwner == Spec => []OwnedOnce
  BY OneOwner, Invariance, PTL

(* The deleter that is called is the one that was given for the object.    *)
THEOREM RightDeleter == Spec => []DeleterKept
  <1>1. Inv => DeleterKept
    BY DEF Inv
  <1>2. QED
    BY <1>1, Invariance, PTL
=============================================================================
