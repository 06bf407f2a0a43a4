--------------------------- MODULE ServersProofs ---------------------------
(***************************************************************************)
(* Theorems about Servers, for any numbers of ports, workers, connections  *)
(* and clients.                                                            *)
(***************************************************************************)
EXTENDS Servers, FiniteSetTheorems, FunctionTheorems, SequenceTheorems, TLAPS

(***************************************************************************)
(* UdpServer: the replies that are outstanding                             *)
(***************************************************************************)

\* The places of c in a sequence of addresses.
Places(s, c) == {i \in DOMAIN s : s[i] = c}

LEMMA PlacesType ==
  ASSUME NEW s \in Seq(Client), NEW c
  PROVE  IsFiniteSet(Places(s, c)) /\ Cardinality(Places(s, c)) \in Nat
  <1>1. DOMAIN s = 1 .. Len(s) /\ Len(s) \in Nat
    OBVIOUS
  <1>2. IsFiniteSet(DOMAIN s)
    BY <1>1, FS_Interval
  <1>3. QED
    BY <1>2, FS_Subset, FS_CardinalityType DEF Places

LEMMA Appended ==
  ASSUME NEW s \in Seq(Client), NEW a \in Client, NEW c
  PROVE  Cardinality(Places(Append(s, a), c))
           = Cardinality(Places(s, c)) + IF a = c THEN 1 ELSE 0
  <1> DEFINE n == Len(s) + 1
             P == Places(s, c)
             Q == Places(Append(s, a), c)
  <1>1. /\ DOMAIN s = 1 .. n - 1 /\ DOMAIN Append(s, a) = 1 .. n
        /\ n \in Nat
        /\ Append(s, a)[n] = a
        /\ \A i \in 1 .. n - 1 : Append(s, a)[i] = s[i]
    OBVIOUS
  <1>2. /\ n \notin P
        /\ IsFiniteSet(P) /\ Cardinality(P) \in Nat
    <2>1. n \notin P
      BY <1>1 DEF Places
    <2>2. QED
      BY <2>1, PlacesType
  <1>3. Q = IF a = c THEN P \cup {n} ELSE P
    BY <1>1 DEF Places
  <1> HIDE DEF P, Q, n
  <1>4. Cardinality(P \cup {n}) = Cardinality(P) + 1
    BY <1>2, FS_AddElement
  <1>5. Cardinality(Q) = Cardinality(P) + IF a = c THEN 1 ELSE 0
    BY <1>2, <1>3, <1>4
  <1>6. QED
    BY <1>5 DEF P, Q

LEMMA RemovedAt ==
  ASSUME NEW s \in Seq(Client), NEW k \in DOMAIN s
  PROVE  LET t == Udp!RemoveAt(s, k)
         IN /\ t \in Seq(Client)
            /\ DOMAIN t = 1 .. Len(s) - 1
            /\ \A i \in 1 .. Len(s) - 1 : t[i] = IF i < k THEN s[i] ELSE s[i + 1]
  <1> DEFINE a == SubSeq(s, 1, k - 1)
             b == SubSeq(s, k + 1, Len(s))
  <1>1. k \in 1 .. Len(s) /\ Len(s) \in Nat
    OBVIOUS
  <1>2. /\ a \in Seq(Client) /\ Len(a) = k - 1
        /\ \A i \in 1 .. k - 1 : a[i] = s[i]
    BY <1>1
  <1>3. /\ b \in Seq(Client) /\ Len(b) = Len(s) - k
        /\ \A i \in 1 .. Len(s) - k : b[i] = s[k + i]
    BY <1>1
  <1> HIDE DEF a, b
  <1>4. /\ a \o b \in Seq(Client) /\ Len(a \o b) = Len(s) - 1
        /\ \A i \in 1 .. Len(s) - 1 :
              (a \o b)[i] = IF i <= k - 1 THEN a[i] ELSE b[i - (k - 1)]
    <2>1. /\ a \o b \in Seq(Client) /\ Len(a \o b) = Len(a) + Len(b)
          /\ \A i \in 1 .. Len(a) + Len(b) :
                (a \o b)[i] = IF i <= Len(a) THEN a[i] ELSE b[i - Len(a)]
      BY <1>2, <1>3, ConcatProperties
    <2>2. Len(a) = k - 1 /\ Len(a) + Len(b) = Len(s) - 1
      BY <1>1, <1>2, <1>3
    <2>3. QED
      BY <2>1, <2>2
  <1>5. ASSUME NEW i \in 1 .. Len(s) - 1
        PROVE  (a \o b)[i] = IF i < k THEN s[i] ELSE s[i + 1]
    <2>1. CASE i < k
      BY <2>1, <1>1, <1>2, <1>4
    <2>2. CASE ~ (i < k)
      <3>1. i - (k - 1) \in 1 .. Len(s) - k /\ k + (i - (k - 1)) = i + 1
        BY <2>2, <1>1
      <3>2. ~ (i <= k - 1)
        BY <2>2, <1>1
      <3>3. (a \o b)[i] = b[i - (k - 1)]
        BY <3>2, <1>4
      <3>4. b[i - (k - 1)] = s[i + 1]
        BY <3>1, <1>3
      <3>5. QED
        BY <2>2, <3>3, <3>4
    <2>3. QED
      BY <2>1, <2>2
  <1>6. Udp!RemoveAt(s, k) = a \o b
    BY DEF Udp!RemoveAt, a, b
  <1>7. DOMAIN (a \o b) = 1 .. Len(s) - 1
    BY <1>4
  <1>8. QED
    BY <1>4, <1>5, <1>6, <1>7

LEMMA Removed ==
  ASSUME NEW s \in Seq(Client), NEW k \in DOMAIN s, NEW c
  PROVE  Cardinality(Places(Udp!RemoveAt(s, k), c))
           = Cardinality(Places(s, c)) - IF s[k] = c THEN 1 ELSE 0
  <1> DEFINE t == Udp!RemoveAt(s, k)
             P == Places(s, c)
             Q == Places(t, c)
             f == [i \in Q |-> IF i < k THEN i ELSE i + 1]
  <1>1. /\ DOMAIN t = 1 .. Len(s) - 1
        /\ \A i \in 1 .. Len(s) - 1 : t[i] = IF i < k THEN s[i] ELSE s[i + 1]
    BY RemovedAt
  <1>2. DOMAIN s = 1 .. Len(s) /\ Len(s) \in Nat /\ k \in 1 .. Len(s)
    OBVIOUS
  <1>3. IsFiniteSet(P) /\ Cardinality(P) \in Nat
    BY PlacesType
  <1>4. IsFiniteSet(P \ {k})
        /\ Cardinality(P \ {k}) = Cardinality(P) - IF s[k] = c THEN 1 ELSE 0
    <2>1. k \in P <=> s[k] = c
      BY DEF Places
    <2>2. QED
      BY <2>1, <1>3, FS_RemoveElement
  <1> HIDE DEF t
  <1>5. Q \subseteq 1 .. Len(s) - 1 /\ P \subseteq 1 .. Len(s)
    BY <1>1, <1>2 DEF Places
  <1>6. f \in [Q -> P \ {k}]
    <2> SUFFICES ASSUME NEW i \in Q
                 PROVE  f[i] \in P \ {k}
      OBVIOUS
    <2>1. i \in 1 .. Len(s) - 1 /\ t[i] = c
      BY <1>5 DEF Places
    <2>2. QED
      BY <2>1, <1>1, <1>2 DEF Places
  <1>7. \A i, j \in Q : f[i] = f[j] => i = j
    BY <1>2, <1>5
  <1>8. ASSUME NEW x \in P \ {k}
        PROVE  \E i \in Q : f[i] = x
    <2>1. x \in 1 .. Len(s) /\ x # k /\ s[x] = c
      BY <1>5 DEF Places
    <2>2. CASE x < k
      <3>1. x \in 1 .. Len(s) - 1 /\ t[x] = c
        BY <2>1, <2>2, <1>1, <1>2
      <3>2. x \in Q
        BY <3>1, <1>1 DEF Places
      <3>3. QED
        BY <3>2, <2>2
    <2>3. CASE x > k
      <3>1. x - 1 \in 1 .. Len(s) - 1 /\ ~ (x - 1 < k) /\ (x - 1) + 1 = x
        BY <2>1, <2>3, <1>2
      <3>2. x - 1 \in Q
        BY <3>1, <2>1, <1>1 DEF Places
      <3>3. QED
        BY <3>1, <3>2
    <2>4. QED
      BY <2>1, <2>2, <2>3, <1>2
  <1>9. f \in Bijection(Q, P \ {k})
    <2> HIDE DEF f
    <2>1. QED
      BY <1>6, <1>7, <1>8, Fun_IsBij
  <1> HIDE DEF f, Q, P
  <1>10. IsFiniteSet(Q)
    <2>1. IsFiniteSet(1 .. Len(s) - 1)
      BY <1>2, FS_Interval
    <2>2. QED
      BY <2>1, <1>5, FS_Subset
  <1>11. Cardinality(Q) = Cardinality(P \ {k})
    BY <1>9, <1>10, FS_Bijection DEF ExistsBijection
  <1>12. QED
    BY <1>4, <1>11 DEF P, Q, t

(***************************************************************************)
(* UdpServer: its steps                                                    *)
(***************************************************************************)
UdpInv == Udp!TypeOK /\ AnswersExact

\* The operator is the same in both modules.
LEMMA SameCardinality ==
  ASSUME NEW S
  PROVE  Udp!Cardinality(S) = Cardinality(S)
  BY DEF Udp!Cardinality, Cardinality

LEMMA AnswersAre ==
  AnswersExact <=>
     \A c \in Client :
        asked[c] = answered[c] + Cardinality(Places(sends, c))
                     + IF receiving = "ok" /\ m_endpoint = c THEN 1 ELSE 0
  <1>1. ASSUME NEW c \in Client
        PROVE  Udp!Cardinality(Udp!To(c)) = Cardinality(Places(sends, c))
    BY SameCardinality DEF Udp!To, Places
  <1>2. QED
    BY <1>1 DEF AnswersExact, Udp!AnswersExact

LEMMA AnswersAreNext ==
  AnswersExact' <=>
     \A c \in Client :
        asked'[c] = answered'[c] + Cardinality(Places(sends', c))
                     + IF receiving' = "ok" /\ m_endpoint' = c THEN 1 ELSE 0
  <1>1. ASSUME NEW c \in Client
        PROVE  Udp!Cardinality(Udp!To(c))' = Cardinality(Places(sends', c))
    BY SameCardinality DEF Udp!To, Places
  <1>2. QED
    BY <1>1 DEF AnswersExact, Udp!AnswersExact

LEMMA UdpReceived ==
  ASSUME UdpInv, NEW a \in Client, Udp!Received(a)
  PROVE  UdpInv'
  <1>1. /\ receiving = "pending" /\ receiving' = "ok" /\ m_endpoint' = a
        /\ asked' = [asked EXCEPT ![a] = @ + 1]
        /\ sends' = sends /\ answered' = answered
    BY DEF Udp!Received
  <1>2. Udp!TypeOK'
    BY <1>1 DEF UdpInv, Udp!TypeOK
  <1>3. ASSUME NEW c \in Client
        PROVE  asked'[c] = answered'[c] + Cardinality(Places(sends', c))
                     + IF receiving' = "ok" /\ m_endpoint' = c THEN 1 ELSE 0
    <2>1. /\ asked[c] \in Nat /\ answered[c] \in Nat
          /\ Cardinality(Places(sends, c)) \in Nat
      BY PlacesType DEF UdpInv, Udp!TypeOK
    <2>2. asked[c] = answered[c] + Cardinality(Places(sends, c))
      BY <1>1, <2>1, AnswersAre DEF UdpInv
    <2>3. asked'[c] = asked[c] + IF a = c THEN 1 ELSE 0
      BY <1>1, <2>1 DEF UdpInv, Udp!TypeOK
    <2>4. QED
      BY <1>1, <2>1, <2>2, <2>3
  <1>4. QED
    BY <1>2, <1>3, AnswersAreNext DEF UdpInv

LEMMA UdpReceiveFails ==
  ASSUME UdpInv, Udp!ReceiveFails
  PROVE  UdpInv'
  <1>1. /\ receiving = "pending" /\ receiving' = "error"
        /\ m_endpoint' = m_endpoint /\ asked' = asked
        /\ sends' = sends /\ answered' = answered
    BY DEF Udp!ReceiveFails
  <1>2. Udp!TypeOK'
    BY <1>1 DEF UdpInv, Udp!TypeOK
  <1>3. AnswersExact'
    BY <1>1, AnswersAre, AnswersAreNext DEF UdpInv
  <1>4. QED
    BY <1>2, <1>3 DEF UdpInv

LEMMA UdpHandleReceive ==
  ASSUME UdpInv, Udp!HandleReceive
  PROVE  UdpInv'
  <1>1. /\ sends' = IF receiving = "ok" THEN Append(sends, m_endpoint)
                    ELSE sends
        /\ receiving' = "pending"
        /\ m_endpoint' = m_endpoint /\ asked' = asked /\ answered' = answered
    BY DEF Udp!HandleReceive
  <1>2. /\ sends \in Seq(Client) /\ m_endpoint \in Client
        /\ asked \in [Client -> Nat] /\ answered \in [Client -> Nat]
    BY DEF UdpInv, Udp!TypeOK
  <1>3. Udp!TypeOK'
    BY <1>1, <1>2 DEF Udp!TypeOK
  <1>4. ASSUME NEW c \in Client
        PROVE  asked'[c] = answered'[c] + Cardinality(Places(sends', c))
                     + IF receiving' = "ok" /\ m_endpoint' = c THEN 1 ELSE 0
    <2>1. /\ asked[c] \in Nat /\ answered[c] \in Nat
          /\ Cardinality(Places(sends, c)) \in Nat
      BY <1>2, PlacesType
    <2>2. asked[c] = answered[c] + Cardinality(Places(sends, c))
                     + IF receiving = "ok" /\ m_endpoint = c THEN 1 ELSE 0
      BY AnswersAre DEF UdpInv
    <2>3. Cardinality(Places(sends', c)) = Cardinality(Places(sends, c))
                     + IF receiving = "ok" /\ m_endpoint = c THEN 1 ELSE 0
      <3>1. CASE receiving = "ok"
        BY <3>1, <1>1, <1>2, Appended
      <3>2. CASE receiving # "ok"
        BY <3>2, <1>1, <2>1
      <3>3. QED
        BY <3>1, <3>2
    <2>4. (IF receiving' = "ok" /\ m_endpoint' = c THEN 1 ELSE 0) = 0
      BY <1>1
    <2>5. asked'[c] = asked[c] /\ answered'[c] = answered[c]
      BY <1>1
    <2>6. QED
      BY <2>1, <2>2, <2>3, <2>4, <2>5
  <1>5. QED
    BY <1>3, <1>4, AnswersAreNext DEF UdpInv

LEMMA UdpHandleSend ==
  ASSUME UdpInv, NEW k \in DOMAIN sends, Udp!HandleSend(k)
  PROVE  UdpInv'
  <1>1. /\ sends' = Udp!RemoveAt(sends, k)
        /\ answered' = [answered EXCEPT ![sends[k]] = @ + 1]
        /\ receiving' = receiving /\ m_endpoint' = m_endpoint
        /\ asked' = asked
    BY DEF Udp!HandleSend
  <1>2. /\ sends \in Seq(Client) /\ sends[k] \in Client
        /\ asked \in [Client -> Nat] /\ answered \in [Client -> Nat]
    BY DEF UdpInv, Udp!TypeOK
  <1>3. Udp!TypeOK'
    <2>1. sends' \in Seq(Client)
      BY <1>1, <1>2, RemovedAt
    <2>2. answered' \in [Client -> Nat]
      BY <1>1, <1>2
    <2>3. QED
      BY <1>1, <2>1, <2>2 DEF UdpInv, Udp!TypeOK
  <1>4. ASSUME NEW c \in Client
        PROVE  asked'[c] = answered'[c] + Cardinality(Places(sends', c))
                     + IF receiving' = "ok" /\ m_endpoint' = c THEN 1 ELSE 0
    <2>1. /\ asked[c] \in Nat /\ answered[c] \in Nat
          /\ Cardinality(Places(sends, c)) \in Nat
      BY <1>2, PlacesType
    <2>2. asked[c] = answered[c] + Cardinality(Places(sends, c))
                     + IF receiving = "ok" /\ m_endpoint = c THEN 1 ELSE 0
      BY AnswersAre DEF UdpInv
    <2>3. Cardinality(Places(sends', c))
            = Cardinality(Places(sends, c)) - IF sends[k] = c THEN 1 ELSE 0
      BY <1>1, <1>2, Removed
    <2>4. answered'[c] = answered[c] + IF sends[k] = c THEN 1 ELSE 0
      BY <1>1, <1>2, <2>1
    <2>5. QED
      BY <1>1, <2>1, <2>2, <2>3, <2>4
  <1>5. QED
    BY <1>3, <1>4, AnswersAreNext DEF UdpInv

LEMMA UdpStep ==
  ASSUME UdpInv, Udp!Completes \/ Udp!Handles \/ UNCHANGED udp
  PROVE  UdpInv'
  <1>1. ASSUME NEW a \in Client, Udp!Received(a)
        PROVE  UdpInv'
    BY <1>1, UdpReceived
  <1>2. CASE Udp!ReceiveFails
    BY <1>2, UdpReceiveFails
  <1>3. CASE Udp!HandleReceive
    BY <1>3, UdpHandleReceive
  <1>4. ASSUME NEW k \in DOMAIN sends, Udp!HandleSend(k)
        PROVE  UdpInv'
    BY <1>4, UdpHandleSend
  <1>5. CASE UNCHANGED udp
    <2>1. /\ receiving' = receiving /\ m_endpoint' = m_endpoint
          /\ asked' = asked /\ sends' = sends /\ answered' = answered
      BY <1>5 DEF udp
    <2>2. Udp!TypeOK'
      BY <2>1 DEF UdpInv, Udp!TypeOK
    <2>3. AnswersExact'
      BY <2>1, AnswersAre, AnswersAreNext DEF UdpInv
    <2>4. QED
      BY <2>2, <2>3 DEF UdpInv
  <1>6. QED
    BY <1>1, <1>2, <1>3, <1>4, <1>5 DEF Udp!Completes, Udp!Handles

LEMMA UdpStart ==
  ASSUME Udp!Init
  PROVE  UdpInv
  <1>1. /\ receiving = "pending" /\ m_endpoint \in Client /\ sends = <<>>
        /\ asked = [c \in Client |-> 0] /\ answered = [c \in Client |-> 0]
    BY DEF Udp!Init
  <1>2. Udp!TypeOK
    BY <1>1 DEF Udp!TypeOK
  <1>3. \A c : Places(sends, c) = {}
    BY <1>1 DEF Places
  <1>4. AnswersExact
    BY <1>1, <1>3, FS_EmptySet, AnswersAre
  <1>5. QED
    BY <1>2, <1>4 DEF UdpInv

(***************************************************************************)
(* The accept loops.  In each lemma, UdpInv' is what the lemmas above say  *)
(* of the step.                                                            *)
(***************************************************************************)
LEMMA InvFacts ==
  ASSUME Inv
  PROVE  /\ accept \in [Port -> {"pending", "ok", "error", "handling", "over"}]
         /\ next \in [Port -> Conn \cup {None}]
         /\ holders \in [Conn -> SUBSET {"loop", "handler"}]
         /\ work \in [Conn -> {"none", "queued", "outstanding"}]
         /\ pc \in [Thread -> {"run", "accepted", "left"}]
         /\ at \in [Thread -> Port \cup {None}]
         /\ None \notin Conn /\ None \notin Port
         /\ UdpInv
  BY ServersAssumption DEF Inv, TypeOK, UdpInv

\* Steps that are not about the accept loops, threads or connections.
LEMMA FrameInv ==
  ASSUME Inv, UdpInv', program' = program, UNCHANGED <<threads, conns>>,
         accept' = accept, next' = next,
         process' \in {"up", "ended", "terminated"},
         signal' \in {"none", "queued", "handled"}, stopped' \in BOOLEAN,
         waiting' \in [Port -> Nat], arrived' \in Nat, errors' \in Nat
  PROVE  Inv'
  <1>1. pc' = pc /\ at' = at /\ holders' = holders /\ work' = work
    BY DEF threads, conns
  <1>2. TypeOK'
    BY <1>1 DEF Inv, TypeOK, UdpInv
  <1>3. OneHandler'
    BY <1>1 DEF Inv, OneHandler
  <1>4. OwnConnection'
    BY <1>1 DEF Inv, OwnConnection, MadeFirst, Apart
  <1>5. Kept'
    BY <1>1 DEF Inv, Kept
  <1>6. QED
    BY <1>2, <1>3, <1>4, <1>5 DEF Inv, UdpInv

\* The accept of a port completes.
LEMMA CompletesInv ==
  ASSUME Inv, UdpInv', NEW p \in Port, Accepted(p) \/ AcceptFails(p)
  PROVE  Inv'
  <1>1. PICK a \in {"ok", "error"} : accept' = [accept EXCEPT ![p] = a]
    BY DEF Accepted, AcceptFails
  <1>2. /\ accept[p] = "pending" /\ program' = program /\ process' = process
        /\ signal' = signal /\ stopped' = stopped /\ pc' = pc /\ at' = at
        /\ next' = next /\ arrived' = arrived
        /\ holders' = holders /\ work' = work
    BY DEF Accepted, AcceptFails, threads, bounds, conns
  <1>3. waiting' \in [Port -> Nat] /\ errors' \in Nat
    <2>1. CASE Accepted(p)
      <3>1. waiting[p] > 0 /\ waiting' = [waiting EXCEPT ![p] = @ - 1]
            /\ errors' = errors
        BY <2>1 DEF Accepted, bounds
      <3>2. QED
        BY <3>1 DEF Inv, TypeOK
    <2>2. CASE AcceptFails(p)
      BY <2>2 DEF AcceptFails, Inv, TypeOK
    <2>3. QED
      BY <2>1, <2>2
  <1>4. /\ accept' \in [Port -> {"pending", "ok", "error", "handling", "over"}]
        /\ accept'[p] = a
        /\ \A q \in Port : q # p => accept'[q] = accept[q]
    BY <1>1, InvFacts
  <1>5. TypeOK'
    BY <1>2, <1>3, <1>4 DEF Inv, TypeOK, UdpInv
  <1>6. OneHandler'
    BY <1>2, <1>4 DEF Inv, OneHandler
  <1>7. OwnConnection'
    BY <1>2, <1>4 DEF Inv, OwnConnection, MadeFirst, Apart
  <1>8. Kept'
    BY <1>2 DEF Inv, Kept
  <1>9. QED
    BY <1>5, <1>6, <1>7, <1>8 DEF Inv, UdpInv

LEMMA UnusedOnes ==
  ASSUME Inv, Unused # {}
  PROVE  /\ Fresh \in Conn /\ holders[Fresh] = {} /\ work[Fresh] = "none"
         /\ \A q \in Port : next[q] # Fresh
  <1>1. Fresh \in Unused
    BY DEF Fresh
  <1>2. Fresh \in Conn /\ holders[Fresh] = {} /\ work[Fresh] = "none"
    BY <1>1 DEF Unused
  <1>3. Fresh # None
    BY <1>2, InvFacts
  <1>4. QED
    BY <1>2, <1>3 DEF Inv, OwnConnection

LEMMA HandleAcceptInv ==
  ASSUME Inv, UdpInv', NEW t \in Thread, NEW p \in Port, HandleAccept(t, p)
  PROVE  Inv'
  <1> DEFINE c == IF MadeFirst THEN next[p] ELSE Fresh
  <1>1. /\ accept[p] = "ok" /\ pc[t] = "run"
        /\ accept' = [accept EXCEPT ![p] = "handling"]
        /\ pc' = [pc EXCEPT ![t] = "accepted"]
        /\ at' = [at EXCEPT ![t] = p]
        /\ MadeFirst \/ Unused # {}
        /\ Start(c) /\ next' = [next EXCEPT ![p] = c]
        /\ program' = program /\ process' = process /\ signal' = signal
        /\ stopped' = stopped /\ waiting' = waiting /\ arrived' = arrived
        /\ errors' = errors
    BY DEF HandleAccept, Takes, bounds
  <1>2. c \in Conn /\ c # None
    <2>1. CASE MadeFirst
      <3>1. next[p] # None
        BY <1>1, <2>1 DEF Inv, OwnConnection
      <3>2. QED
        BY <2>1, <3>1, InvFacts
    <2>2. CASE ~MadeFirst
      BY <1>1, <2>2, UnusedOnes, InvFacts
    <2>3. QED
      BY <2>1, <2>2
  <1>3. \A q \in Port : q # p => next[q] # c
    <2>1. CASE MadeFirst
      BY <1>2, <2>1 DEF Inv, OwnConnection, Apart
    <2>2. CASE ~MadeFirst
      BY <1>1, <2>2, UnusedOnes
    <2>3. QED
      BY <2>1, <2>2
  <1> HIDE DEF c
  <1>4. /\ accept' \in [Port -> {"pending", "ok", "error", "handling", "over"}]
        /\ accept'[p] = "handling"
        /\ \A q \in Port : q # p => accept'[q] = accept[q]
        /\ pc' \in [Thread -> {"run", "accepted", "left"}]
        /\ at' \in [Thread -> Port \cup {None}]
        /\ pc'[t] = "accepted" /\ at'[t] = p
        /\ \A u \in Thread : u # t => pc'[u] = pc[u] /\ at'[u] = at[u]
        /\ next' \in [Port -> Conn \cup {None}]
        /\ next'[p] = c
        /\ \A q \in Port : q # p => next'[q] = next[q]
    BY <1>1, <1>2, InvFacts
  <1>5. PICK hs \in SUBSET {"loop", "handler"}, w \in {"queued", "outstanding"} :
          /\ holders' = [holders EXCEPT ![c] = hs]
          /\ work' = [work EXCEPT ![c] = w]
          /\ "loop" \in hs
          /\ program # "coDaytime" => "handler" \in hs
    <2>1. CASE program = "coDaytime"
      <3>1. {"loop"} \in SUBSET {"loop", "handler"}
        OBVIOUS
      <3>2. PICK w \in {"queued", "outstanding"} : work' = [work EXCEPT ![c] = w]
        BY <1>1, <2>1 DEF Start
      <3>3. holders' = [holders EXCEPT ![c] = {"loop"}]
        BY <1>1, <2>1 DEF Start
      <3>4. QED
        BY <2>1, <3>1, <3>2, <3>3
    <2>2. CASE program # "coDaytime"
      <3>1. /\ holders' = [holders EXCEPT ![c] = {"loop", "handler"}]
            /\ work' = [work EXCEPT ![c] = "outstanding"]
        BY <1>1, <2>2 DEF Start
      <3>2. {"loop", "handler"} \in SUBSET {"loop", "handler"}
        OBVIOUS
      <3>3. "outstanding" \in {"queued", "outstanding"}
            /\ "loop" \in {"loop", "handler"} /\ "handler" \in {"loop", "handler"}
        OBVIOUS
      <3>4. QED
        BY <3>1, <3>2, <3>3
    <2>3. QED
      BY <2>1, <2>2
  <1>6. /\ holders' \in [Conn -> SUBSET {"loop", "handler"}]
        /\ work' \in [Conn -> {"none", "queued", "outstanding"}]
        /\ holders'[c] = hs
        /\ \A d \in Conn : d # c => holders'[d] = holders[d] /\ work'[d] = work[d]
    BY <1>2, <1>5, InvFacts
  <1>7. TypeOK'
    BY <1>1, <1>4, <1>6 DEF Inv, TypeOK, UdpInv
  <1>8. OneHandler'
    <2>1. \A u \in Thread : pc[u] = "accepted" => at[u] \in Port /\ at[u] # p
      BY <1>1 DEF Inv, OneHandler
    <2>2. ASSUME NEW u \in Thread, pc'[u] = "accepted"
          PROVE  at'[u] \in Port /\ accept'[at'[u]] = "handling"
      BY <2>1, <2>2, <1>4 DEF Inv, OneHandler
    <2>3. ASSUME NEW u \in Thread, NEW v \in Thread,
                 pc'[u] = "accepted", pc'[v] = "accepted", at'[u] = at'[v]
          PROVE  u = v
      BY <2>1, <2>3, <1>4 DEF Inv, OneHandler
    <2>4. QED
      BY <2>2, <2>3 DEF OneHandler
  <1>9. OwnConnection'
    <2>1. MadeFirst' = MadeFirst
      BY <1>1 DEF MadeFirst
    <2>2. ASSUME NEW q \in Port
          PROVE  next'[q] = None <=> \/ accept'[q] = "over"
                                     \/ ~MadeFirst /\ accept'[q] # "handling"
      BY <1>2, <1>4 DEF Inv, OwnConnection
    <2>3. ASSUME NEW q \in Port, next'[q] # None
          PROVE  "loop" \in holders'[next'[q]]
      <3>1. CASE q = p
        BY <3>1, <1>4, <1>5, <1>6
      <3>2. CASE q # p
        <4>1. next'[q] = next[q] /\ next[q] \in Conn /\ next[q] # c
          BY <3>2, <2>3, <1>3, <1>4, InvFacts
        <4>2. "loop" \in holders[next[q]]
          BY <2>3, <4>1 DEF Inv, OwnConnection
        <4>3. QED
          BY <4>1, <4>2, <1>6
      <3>3. QED
        BY <3>1, <3>2
    <2>4. ASSUME NEW q \in Port, NEW r \in Port,
                 next'[q] = next'[r], next'[q] # None
          PROVE  q = r
      BY <2>4, <1>3, <1>4 DEF Inv, OwnConnection, Apart
    <2>5. QED
      BY <2>1, <2>2, <2>3, <2>4 DEF OwnConnection, Apart
  <1>10. Kept'
    BY <1>1, <1>5, <1>6 DEF Inv, Kept
  <1>11. QED
    BY <1>7, <1>8, <1>9, <1>10 DEF Inv, UdpInv

\* What the next accept of a port leaves of the invariant, whoever starts it.
LEMMA AgainKeeps ==
  ASSUME Inv, NEW p \in Port, Again(p), accept[p] # "over",
         program' = program, work' = work
  PROVE  /\ accept' \in [Port -> {"pending", "ok", "error", "handling", "over"}]
         /\ next' \in [Port -> Conn \cup {None}]
         /\ holders' \in [Conn -> SUBSET {"loop", "handler"}]
         /\ \A q \in Port : q # p => accept'[q] = accept[q]
         /\ OwnConnection'
         /\ Kept'
  <1> DEFINE let == [c \in Conn |-> IF c = next[p] THEN holders[c] \ {"loop"}
                                    ELSE holders[c]]
  <1>1. accept' = [accept EXCEPT ![p] = "pending"]
    BY DEF Again
  <1>2. /\ accept' \in [Port -> {"pending", "ok", "error", "handling", "over"}]
        /\ accept'[p] = "pending"
        /\ \A q \in Port : q # p => accept'[q] = accept[q]
    BY <1>1, InvFacts
  <1>3. MadeFirst' = MadeFirst
    BY DEF MadeFirst
  <1>4. /\ let \in [Conn -> SUBSET {"loop", "handler"}]
        /\ \A c \in Conn : /\ "handler" \in let[c] <=> "handler" \in holders[c]
                           /\ c # next[p] => let[c] = holders[c]
    BY InvFacts
  <1>5. \A q \in Port : q # p /\ next[q] # None => next[q] # next[p]
    BY DEF Inv, OwnConnection, Apart
  <1>6. CASE MadeFirst
    <2>1. /\ Unused # {} /\ next' = [next EXCEPT ![p] = Fresh]
          /\ holders' = [let EXCEPT ![Fresh] = {"loop"}]
      BY <1>6 DEF Again
    <2>2. /\ Fresh \in Conn /\ holders[Fresh] = {} /\ work[Fresh] = "none"
          /\ \A q \in Port : next[q] # Fresh
      BY <2>1, UnusedOnes
    <2> HIDE DEF let
    <2>3. /\ next' \in [Port -> Conn \cup {None}]
          /\ next'[p] = Fresh
          /\ \A q \in Port : q # p => next'[q] = next[q]
      BY <2>1, <2>2, InvFacts
    <2>4. /\ holders' \in [Conn -> SUBSET {"loop", "handler"}]
          /\ holders'[Fresh] = {"loop"}
          /\ \A c \in Conn : c # Fresh => holders'[c] = let[c]
      BY <1>4, <2>1, <2>2
    <2>5. ASSUME NEW q \in Port
          PROVE  next'[q] = None <=> \/ accept'[q] = "over"
                                     \/ ~MadeFirst /\ accept'[q] # "handling"
      <3>1. Fresh # None
        BY <2>2, InvFacts
      <3>2. CASE q = p
        BY <3>1, <3>2, <1>2, <1>6, <2>3
      <3>3. CASE q # p
        BY <3>3, <1>2, <2>3 DEF Inv, OwnConnection
      <3>4. QED
        BY <3>2, <3>3
    <2>6. ASSUME NEW q \in Port, next'[q] # None
          PROVE  "loop" \in holders'[next'[q]]
      <3>1. CASE q = p
        BY <3>1, <2>3, <2>4
      <3>2. CASE q # p
        <4>1. /\ next'[q] = next[q] /\ next[q] \in Conn
              /\ next[q] # Fresh /\ next[q] # next[p]
          BY <3>2, <2>6, <2>2, <2>3, <1>5, InvFacts
        <4>2. "loop" \in holders[next[q]]
          BY <2>6, <4>1 DEF Inv, OwnConnection
        <4>3. QED
          BY <4>1, <4>2, <1>4, <2>4
      <3>3. QED
        BY <3>1, <3>2
    <2>7. ASSUME NEW q \in Port, NEW r \in Port,
                 next'[q] = next'[r], next'[q] # None
          PROVE  q = r
      BY <2>7, <2>2, <2>3 DEF Inv, OwnConnection, Apart
    <2>8. OwnConnection'
      BY <1>3, <2>5, <2>6, <2>7 DEF OwnConnection, Apart
    <2>9. Kept'
      <3> SUFFICES ASSUME program # "coDaytime", NEW c \in Conn, work[c] # "none"
                   PROVE  "handler" \in holders'[c]
        BY DEF Kept
      <3>1. "handler" \in holders[c] /\ c # Fresh
        BY <2>2 DEF Inv, Kept
      <3>2. QED
        BY <3>1, <1>4, <2>4
    <2>10. QED
      BY <1>2, <2>3, <2>4, <2>8, <2>9
  <1>7. CASE ~MadeFirst
    <2>1. next' = [next EXCEPT ![p] = None] /\ holders' = let
      BY <1>7 DEF Again
    <2> HIDE DEF let
    <2>2. /\ next' \in [Port -> Conn \cup {None}]
          /\ next'[p] = None
          /\ \A q \in Port : q # p => next'[q] = next[q]
      BY <2>1, InvFacts
    <2>3. ASSUME NEW q \in Port
          PROVE  next'[q] = None <=> \/ accept'[q] = "over"
                                     \/ ~MadeFirst /\ accept'[q] # "handling"
      <3>1. CASE q = p
        BY <3>1, <1>2, <1>7, <2>2
      <3>2. CASE q # p
        BY <3>2, <1>2, <2>2 DEF Inv, OwnConnection
      <3>3. QED
        BY <3>1, <3>2
    <2>4. ASSUME NEW q \in Port, next'[q] # None
          PROVE  "loop" \in holders'[next'[q]]
      <3>1. /\ q # p /\ next'[q] = next[q] /\ next[q] \in Conn
            /\ next[q] # next[p]
        BY <2>4, <2>2, <1>5, InvFacts
      <3>2. "loop" \in holders[next[q]]
        BY <2>4, <3>1 DEF Inv, OwnConnection
      <3>3. QED
        BY <3>1, <3>2, <1>4, <2>1
    <2>5. ASSUME NEW q \in Port, NEW r \in Port,
                 next'[q] = next'[r], next'[q] # None
          PROVE  q = r
      BY <2>5, <2>2 DEF Inv, OwnConnection, Apart
    <2>6. OwnConnection'
      BY <1>3, <2>3, <2>4, <2>5 DEF OwnConnection, Apart
    <2>7. Kept'
      BY <1>4, <2>1 DEF Inv, Kept
    <2>8. QED
      BY <1>2, <1>4, <2>1, <2>2, <2>6, <2>7
  <1>8. QED
    BY <1>6, <1>7

LEMMA AcceptAgainInv ==
  ASSUME Inv, UdpInv', NEW t \in Thread, AcceptAgain(t)
  PROVE  Inv'
  <1> DEFINE p == at[t]
  <1>1. /\ pc[t] = "accepted" /\ Again(p)
        /\ pc' = [pc EXCEPT ![t] = "run"] /\ at' = [at EXCEPT ![t] = None]
        /\ program' = program /\ process' = process /\ signal' = signal
        /\ stopped' = stopped /\ waiting' = waiting /\ arrived' = arrived
        /\ errors' = errors /\ work' = work
    BY DEF AcceptAgain, bounds
  <1>2. p \in Port /\ accept[p] = "handling"
    BY <1>1 DEF Inv, OneHandler
  <1> HIDE DEF p
  <1>3. /\ accept' \in [Port -> {"pending", "ok", "error", "handling", "over"}]
        /\ next' \in [Port -> Conn \cup {None}]
        /\ holders' \in [Conn -> SUBSET {"loop", "handler"}]
        /\ \A q \in Port : q # p => accept'[q] = accept[q]
        /\ OwnConnection'
        /\ Kept'
    BY <1>1, <1>2, AgainKeeps
  <1>4. /\ pc' \in [Thread -> {"run", "accepted", "left"}]
        /\ at' \in [Thread -> Port \cup {None}]
        /\ pc'[t] = "run"
        /\ \A u \in Thread : u # t => pc'[u] = pc[u] /\ at'[u] = at[u]
    BY <1>1, InvFacts
  <1>5. TypeOK'
    BY <1>1, <1>3, <1>4 DEF Inv, TypeOK, UdpInv
  <1>6. \A u \in Thread : pc'[u] = "accepted" =>
           /\ u # t /\ pc[u] = "accepted" /\ at'[u] = at[u]
           /\ at[u] \in Port /\ at[u] # p /\ accept[at[u]] = "handling"
    BY <1>1, <1>4 DEF Inv, OneHandler, p
  <1>7. OneHandler'
    BY <1>3, <1>6 DEF Inv, OneHandler
  <1>8. QED
    BY <1>3, <1>5, <1>7 DEF Inv, UdpInv

LEMMA RetriesInv ==
  ASSUME Inv, UdpInv', NEW t \in Thread, NEW p \in Port, RetriesOnError(t, p)
  PROVE  Inv'
  <1>1. /\ accept[p] = "error" /\ Again(p)
        /\ pc' = pc /\ at' = at
        /\ program' = program /\ process' = process /\ signal' = signal
        /\ stopped' = stopped /\ waiting' = waiting /\ arrived' = arrived
        /\ errors' = errors /\ work' = work
    BY DEF RetriesOnError, bounds, threads
  <1>2. /\ accept' \in [Port -> {"pending", "ok", "error", "handling", "over"}]
        /\ next' \in [Port -> Conn \cup {None}]
        /\ holders' \in [Conn -> SUBSET {"loop", "handler"}]
        /\ \A q \in Port : q # p => accept'[q] = accept[q]
        /\ OwnConnection'
        /\ Kept'
    BY <1>1, AgainKeeps
  <1>3. TypeOK'
    BY <1>1, <1>2 DEF Inv, TypeOK, UdpInv
  <1>4. OneHandler'
    BY <1>1, <1>2 DEF Inv, OneHandler
  <1>5. QED
    BY <1>2, <1>3, <1>4 DEF Inv, UdpInv

\* The loops that end on an error.
LEMMA OverInv ==
  ASSUME Inv, UdpInv', NEW t \in Thread, NEW p \in Port,
         \/ ReturnsOnError(t, p)
         \/ DetachedOnError(t, p)
         \/ ThrowsOnError(t, p)
  PROVE  Inv'
  <1>1. /\ accept[p] = "error" /\ pc[t] = "run" /\ Over(p)
        /\ pc' = pc \/ pc' = [pc EXCEPT ![t] = "left"]
        /\ at' = at /\ process' \in {"up", "ended", "terminated"}
        /\ program' = program /\ signal' = signal
        /\ stopped' = stopped /\ waiting' = waiting /\ arrived' = arrived
        /\ errors' = errors /\ work' = work
        /\ program \in {"echo", "proxy", "coEcho", "coDaytime"}
    BY DEF ReturnsOnError, DetachedOnError, ThrowsOnError, Takes, bounds,
           threads, Inv, TypeOK
  <1>2. /\ accept' = [accept EXCEPT ![p] = "over"]
        /\ next' = [next EXCEPT ![p] = None]
        /\ holders' = [c \in Conn |-> IF c = next[p] THEN {} ELSE holders[c]]
    BY <1>1 DEF Over
  <1>3. /\ accept' \in [Port -> {"pending", "ok", "error", "handling", "over"}]
        /\ accept'[p] = "over"
        /\ \A q \in Port : q # p => accept'[q] = accept[q]
        /\ next' \in [Port -> Conn \cup {None}]
        /\ next'[p] = None
        /\ \A q \in Port : q # p => next'[q] = next[q]
        /\ holders' \in [Conn -> SUBSET {"loop", "handler"}]
        /\ \A c \in Conn : c # next[p] => holders'[c] = holders[c]
    BY <1>2, InvFacts
  <1>4. /\ pc' \in [Thread -> {"run", "accepted", "left"}]
        /\ \A u \in Thread : pc'[u] = "accepted" => pc[u] = "accepted"
    BY <1>1, InvFacts
  <1>5. TypeOK'
    BY <1>1, <1>3, <1>4 DEF Inv, TypeOK, UdpInv
  <1>6. \A u \in Thread : pc'[u] = "accepted" =>
           /\ pc[u] = "accepted" /\ at'[u] = at[u]
           /\ at[u] \in Port /\ at[u] # p /\ accept[at[u]] = "handling"
    BY <1>1, <1>4 DEF Inv, OneHandler
  <1>7. OneHandler'
    BY <1>3, <1>6 DEF Inv, OneHandler
  <1>8. OwnConnection'
    <2>1. MadeFirst' = MadeFirst
      BY <1>1 DEF MadeFirst
    <2>2. ASSUME NEW q \in Port
          PROVE  next'[q] = None <=> \/ accept'[q] = "over"
                                     \/ ~MadeFirst /\ accept'[q] # "handling"
      BY <1>3 DEF Inv, OwnConnection
    <2>3. ASSUME NEW q \in Port, next'[q] # None
          PROVE  "loop" \in holders'[next'[q]]
      <3>1. /\ q # p /\ next'[q] = next[q] /\ next[q] \in Conn
            /\ next[q] # next[p]
        BY <2>3, <1>3, InvFacts DEF Inv, OwnConnection, Apart
      <3>2. "loop" \in holders[next[q]]
        BY <2>3, <3>1 DEF Inv, OwnConnection
      <3>3. QED
        BY <3>1, <3>2, <1>3
    <2>4. ASSUME NEW q \in Port, NEW r \in Port,
                 next'[q] = next'[r], next'[q] # None
          PROVE  q = r
      BY <2>4, <1>3 DEF Inv, OwnConnection, Apart
    <2>5. QED
      BY <2>1, <2>2, <2>3, <2>4 DEF OwnConnection, Apart
  <1>9. Kept'
    <2> SUFFICES ASSUME program # "coDaytime", NEW c \in Conn, work[c] # "none"
                 PROVE  "handler" \in holders'[c]
      BY <1>1 DEF Kept
    <2>1. ~MadeFirst
      BY <1>1 DEF MadeFirst
    <2>2. next[p] = None
      BY <2>1, <1>1 DEF Inv, OwnConnection
    <2>3. "handler" \in holders[c] /\ c # next[p]
      BY <2>2, InvFacts DEF Inv, Kept
    <2>4. QED
      BY <2>3, <1>3
  <1>10. QED
    BY <1>5, <1>7, <1>8, <1>9 DEF Inv, UdpInv

(***************************************************************************)
(* The connections, and the threads that leave                             *)
(***************************************************************************)
LEMMA WorkInv ==
  ASSUME Inv, UdpInv', NEW t \in Thread, NEW c \in Conn,
         CoroutineRuns(t, c) \/ WorkEnds(t, c)
  PROVE  Inv'
  <1>1. /\ program' = program /\ process' = process /\ signal' = signal
        /\ stopped' = stopped /\ pc' = pc /\ at' = at /\ accept' = accept
        /\ next' = next /\ waiting' = waiting /\ arrived' = arrived
        /\ errors' = errors
    BY DEF CoroutineRuns, WorkEnds, threads, loops, bounds
  <1>2. PICK w \in {"none", "outstanding"} :
          /\ work' = [work EXCEPT ![c] = w]
          /\ work[c] # "none"
          /\ \/ w = "outstanding" /\ holders' = holders
             \/ w = "none" /\ holders' = [holders EXCEPT ![c] = @ \ {"handler"}]
    BY DEF CoroutineRuns, WorkEnds
  <1>3. /\ work' \in [Conn -> {"none", "queued", "outstanding"}]
        /\ holders' \in [Conn -> SUBSET {"loop", "handler"}]
        /\ \A d \in Conn : "loop" \in holders[d] => "loop" \in holders'[d]
        /\ \A d \in Conn : d # c => work'[d] = work[d] /\ holders'[d] = holders[d]
        /\ work'[c] = w
    BY <1>2, InvFacts
  <1>4. TypeOK'
    BY <1>1, <1>3 DEF Inv, TypeOK, UdpInv
  <1>5. OneHandler'
    BY <1>1 DEF Inv, OneHandler
  <1>6. OwnConnection'
    <2>1. MadeFirst' = MadeFirst
      BY <1>1 DEF MadeFirst
    <2>2. \A q \in Port : next[q] # None =>
             next[q] \in Conn /\ "loop" \in holders[next[q]]
      BY InvFacts DEF Inv, OwnConnection
    <2>3. QED
      BY <1>1, <1>3, <2>1, <2>2 DEF Inv, OwnConnection, Apart
  <1>7. Kept'
    BY <1>1, <1>2, <1>3 DEF Inv, Kept
  <1>8. QED
    BY <1>4, <1>5, <1>6, <1>7 DEF Inv, UdpInv

LEMMA LeavesInv ==
  ASSUME Inv, UdpInv', NEW t \in Thread, Leaves(t)
  PROVE  Inv'
  <1>1. /\ program' = program /\ process' = process /\ signal' = signal
        /\ stopped' = TRUE /\ at' = at /\ accept' = accept /\ next' = next
        /\ waiting' = waiting /\ arrived' = arrived /\ errors' = errors
        /\ holders' = holders /\ work' = work
        /\ pc' = [pc EXCEPT ![t] = "left"]
    BY DEF Leaves, loops, bounds, conns
  <1>2. /\ pc' \in [Thread -> {"run", "accepted", "left"}]
        /\ \A u \in Thread : pc'[u] = "accepted" => pc[u] = "accepted"
    BY <1>1, InvFacts
  <1>3. TypeOK'
    BY <1>1, <1>2 DEF Inv, TypeOK, UdpInv
  <1>4. OneHandler'
    BY <1>1, <1>2 DEF Inv, OneHandler
  <1>5. OwnConnection' /\ Kept'
    BY <1>1 DEF Inv, OwnConnection, Kept, MadeFirst, Apart
  <1>6. QED
    BY <1>3, <1>4, <1>5 DEF Inv, UdpInv

(***************************************************************************)
(* The theorems                                                            *)
(***************************************************************************)
LEMMA InitInv == Init => Inv
  <1> SUFFICES ASSUME Init
               PROVE  Inv
    OBVIOUS
  <1>1. /\ program \in {"echo", "coEcho", "proxy", "daytime", "coDaytime"}
        /\ process = "up" /\ signal = "none" /\ stopped = FALSE
        /\ pc = [t \in Thread |-> IF Pooled \/ t = Main THEN "run" ELSE "left"]
        /\ at = [t \in Thread |-> None]
        /\ accept = [p \in Port |-> "pending"]
        /\ waiting = [p \in Port |-> 0] /\ arrived = 0 /\ errors = 0
        /\ work = [c \in Conn |-> "none"]
        /\ UdpInv
    BY UdpStart DEF Init
  <1>2. None \notin Conn
    BY ServersAssumption
  <1>3. OneHandler /\ Kept
    BY <1>1 DEF OneHandler, Kept
  <1>4. CASE MadeFirst
    <2> DEFINE S == {f \in [Port -> Conn] : Apart(f)}
    <2>1. next = CHOOSE f \in [Port -> Conn] : Apart(f)
      BY <1>4 DEF Init
    <2>2. next \in [Port -> Conn] /\ Apart(next)
      BY <2>1, ServersAssumption
    <2>3. holders = [c \in Conn |-> IF \E p \in Port : next[p] = c
                                    THEN {"loop"} ELSE {}]
      BY <1>4 DEF Init
    <2>4. holders \in [Conn -> SUBSET {"loop", "handler"}]
      BY <2>3
    <2>5. TypeOK
      BY <1>1, <2>2, <2>4 DEF TypeOK, UdpInv
    <2>6. OwnConnection
      BY <1>1, <1>2, <1>4, <2>2, <2>3 DEF OwnConnection
    <2>7. QED
      BY <1>1, <1>3, <2>5, <2>6 DEF Inv, UdpInv
  <1>5. CASE ~MadeFirst
    <2>1. next = [p \in Port |-> None] /\ holders = [c \in Conn |-> {}]
      BY <1>5 DEF Init
    <2>2. TypeOK
      BY <1>1, <2>1 DEF TypeOK, UdpInv
    <2>3. OwnConnection
      BY <1>1, <1>5, <2>1 DEF OwnConnection, Apart
    <2>4. QED
      BY <1>1, <1>3, <2>2, <2>3 DEF Inv, UdpInv
  <1>6. QED
    BY <1>4, <1>5

\* Only Datagrams is about the UdpServer.
LEMMA UdpNext ==
  ASSUME Inv, [Next]_vars
  PROVE  UdpInv'
  <1>1. CASE Datagrams
    BY <1>1, UdpStep DEF Datagrams, Inv, TypeOK, UdpInv
  <1>2. ASSUME NEW p \in Port, Outside(p)
        PROVE  UNCHANGED udp
    BY <1>2 DEF Outside, Arrives, Accepted, AcceptFails
  <1>3. ASSUME NEW t \in Thread, NEW p \in Port,
               HandleAccept(t, p) \/ HandleError(t, p)
        PROVE  UNCHANGED udp
    BY <1>3 DEF HandleAccept, HandleError, ReturnsOnError, RetriesOnError,
                DetachedOnError, ThrowsOnError
  <1>4. ASSUME NEW t \in Thread, NEW c \in Conn,
               CoroutineRuns(t, c) \/ WorkEnds(t, c)
        PROVE  UNCHANGED udp
    BY <1>4 DEF CoroutineRuns, WorkEnds
  <1>5. ASSUME NEW t \in Thread, AcceptAgain(t) \/ HandleSignal(t) \/ Leaves(t)
        PROVE  UNCHANGED udp
    BY <1>5 DEF AcceptAgain, HandleSignal, Leaves
  <1>6. CASE Interrupt \/ MainEnds \/ UNCHANGED vars
    BY <1>6, UdpStep DEF Interrupt, MainEnds, vars, Inv, TypeOK, UdpInv
  <1>7. Datagrams \/ UdpInv'
    BY <1>2, <1>3, <1>4, <1>5, <1>6, UdpStep DEF Next, Ending, Inv, TypeOK, UdpInv
  <1>8. QED
    BY <1>1, <1>7

LEMMA NextInv == Inv /\ [Next]_vars => Inv'
  <1> SUFFICES ASSUME Inv, [Next]_vars
               PROVE  Inv'
    OBVIOUS
  <1>1. UdpInv'
    BY UdpNext
  <1>2. /\ process \in {"up", "ended", "terminated"}
        /\ signal \in {"none", "queued", "handled"} /\ stopped \in BOOLEAN
        /\ waiting \in [Port -> Nat] /\ arrived \in Nat /\ errors \in Nat
    BY DEF Inv, TypeOK
  <1>3. ASSUME NEW p \in Port, Arrives(p)
        PROVE  Inv'
    BY <1>1, <1>2, <1>3, FrameInv DEF Arrives, conns, threads
  <1>4. ASSUME NEW p \in Port, Accepted(p) \/ AcceptFails(p)
        PROVE  Inv'
    BY <1>1, <1>4, CompletesInv
  <1>5. CASE Interrupt
    BY <1>1, <1>2, <1>5, FrameInv DEF Interrupt, loops, bounds
  <1>6. ASSUME NEW t \in Thread, NEW p \in Port, HandleAccept(t, p)
        PROVE  Inv'
    BY <1>1, <1>6, HandleAcceptInv
  <1>7. ASSUME NEW t \in Thread, NEW p \in Port, HandleError(t, p)
        PROVE  Inv'
    BY <1>1, <1>7, RetriesInv, OverInv DEF HandleError
  <1>8. ASSUME NEW t \in Thread, NEW c \in Conn,
               CoroutineRuns(t, c) \/ WorkEnds(t, c)
        PROVE  Inv'
    BY <1>1, <1>8, WorkInv
  <1>9. ASSUME NEW t \in Thread, AcceptAgain(t)
        PROVE  Inv'
    BY <1>1, <1>9, AcceptAgainInv
  <1>10. CASE Datagrams
    BY <1>1, <1>2, <1>10, FrameInv DEF Datagrams, loops, bounds
  <1>11. CASE MainEnds
    BY <1>1, <1>2, <1>11, FrameInv DEF MainEnds, loops, bounds
  <1>12. ASSUME NEW t \in Thread, HandleSignal(t)
         PROVE  Inv'
    BY <1>1, <1>2, <1>12, FrameInv DEF HandleSignal, loops, bounds
  <1>13. ASSUME NEW t \in Thread, Leaves(t)
         PROVE  Inv'
    BY <1>1, <1>13, LeavesInv
  <1>14. CASE UNCHANGED vars
    BY <1>1, <1>2, <1>14, FrameInv DEF vars, loops, bounds
  <1>15. QED
    BY <1>3, <1>4, <1>5, <1>6, <1>7, <1>8, <1>9, <1>10, <1>11, <1>12, <1>13,
       <1>14 DEF Next, Outside, Ending

(* What the accept loops of all five programs preserve.                    *)
THEOREM Invariance == Spec => []Inv
  BY InitInv, NextInv, PTL DEF Spec

(* The variables of the servers have their types.                          *)
THEOREM TypeCorrect == Spec => []TypeOK
  <1>1. Inv => TypeOK
    BY DEF Inv
  <1>2. QED
    BY <1>1, Invariance, PTL

(* Every datagram is answered once and to its sender, though all receives  *)
(* share m_endpoint and replies may be outstanding in any number.          *)
THEOREM Answered == Spec => []AnswersExact
  <1>1. Inv => AnswersExact
    BY DEF Inv
  <1>2. QED
    BY <1>1, Invariance, PTL

(* In the programs whose handlers hold their connection, no operation goes *)
(* on in one that has been destroyed.                                      *)
THEOREM ConnectionsAlive == Spec => []ConnectionsSafe
  <1>1. Inv => ConnectionsSafe
    BY DEF Inv, Kept, ConnectionsSafe
  <1>2. QED
    BY <1>1, Invariance, PTL

(* The threads that share an io_context do not run the accept handlers of  *)
(* one port at once, and no two ports accept into one connection.          *)
THEOREM PortsApart == Spec => [](OneHandler /\ OwnConnection)
  <1>1. Inv => OneHandler /\ OwnConnection
    BY DEF Inv
  <1>2. QED
    BY <1>1, Invariance, PTL
-----------------------------------------------------------------------------
(***************************************************************************)
(* Why a loop, a thread or a server may be at its end                      *)
(***************************************************************************)

\* A port that is being handled has a thread that will accept again.
HandlersKept == \A p \in Port : accept[p] = "handling" =>
                   \E t \in Thread : pc[t] = "accepted" /\ at[t] = p

\* A loop ends for an error only, and never in daytime.
LoopsKept == /\ \A p \in Port : accept[p] \in {"error", "over"} => errors > 0
             /\ \A p \in Port : accept[p] = "over" => program # "daytime"

\* The io_context stops for a signal; without threads that wait for one, when
\* every loop has ended.
StopsForReason ==
  /\ signal # "none" => Pooled
  /\ signal = "handled" => stopped
  /\ stopped => \/ signal = "handled"
                \/ ~Pooled /\ \A p \in Port : accept[p] = "over"

\* main () ends without that for a failed accept of the coroutine server only.
MainEndsForReason ==
  /\ pc[Main] = "left" /\ ~stopped =>
       program = "coEcho" /\ errors > 0 /\ (process = "terminated" \/ Worker = {})
  /\ process = "terminated" => program = "coEcho" /\ pc[Main] = "left"
  /\ process = "ended" => \A t \in Thread : pc[t] = "left"

Gone == {t \in Thread : pc[t] = "left"}
Lost == {p \in Port : accept[p] = "over"}

\* Before it is stopped, a server of many threads has lost no more of them than
\* loops; and the one without coroutines none.
ThreadsKept ==
  Pooled /\ ~stopped => /\ Cardinality(Gone) <= Cardinality(Lost)
                        /\ program = "echo" => Gone = {}

Reasons == /\ HandlersKept /\ LoopsKept /\ StopsForReason
           /\ MainEndsForReason /\ ThreadsKept

\* What a thread has left to do once the io_context is stopped.
ThreadRank(t) == IF pc[t] = "accepted" THEN 2 ELSE IF pc[t] = "run" THEN 1 ELSE 0

\* After stop () no handler begins: what has been accepted or has failed stays
\* where it is, and the connections where they are; each thread finishes the
\* handler it is in and leaves.
StopEnds ==
  stopped => /\ stopped' /\ UNCHANGED <<signal, work>>
             /\ \A p \in Port : accept[p] \in {"ok", "error", "over"} =>
                                   accept'[p] = accept[p]
             /\ \A t \in Thread : ThreadRank(t)' <= ThreadRank(t)
             /\ \A p \in Port : accept[p] = "handling" /\ accept'[p] # "handling" =>
                   \E t \in Thread : at[t] = p /\ ThreadRank(t)' < ThreadRank(t)

LEMMA ReasonFacts ==
  ASSUME Inv, Reasons
  PROVE  /\ accept \in [Port -> {"pending", "ok", "error", "handling", "over"}]
         /\ pc \in [Thread -> {"run", "accepted", "left"}]
         /\ at \in [Thread -> Port \cup {None}]
         /\ errors \in Nat /\ Main \in Thread /\ None \notin Port
         /\ program \in {"echo", "coEcho", "proxy", "daytime", "coDaytime"}
  BY ServersAssumption DEF Inv, TypeOK, Thread

LEMMA CountsFinite ==
  /\ IsFiniteSet(Gone) /\ Cardinality(Gone) \in Nat
  /\ IsFiniteSet(Lost) /\ Cardinality(Lost) \in Nat
  <1>1. IsFiniteSet(Thread)
    BY ServersAssumption, FS_AddElement DEF Thread
  <1>2. Gone \subseteq Thread /\ Lost \subseteq Port
    BY DEF Gone, Lost
  <1>3. IsFiniteSet(Gone) /\ IsFiniteSet(Lost)
    BY <1>1, <1>2, ServersAssumption, FS_Subset
  <1>4. QED
    BY <1>3, FS_CardinalityType

\* Nothing happens to the threads; an accept may complete.
Completes(p) == \/ accept' = [accept EXCEPT ![p] = "ok"]
                \/ accept' = [accept EXCEPT ![p] = "error"] /\ errors' > 0

LEMMA QuietReasons ==
  ASSUME Inv, Reasons,
         UNCHANGED <<program, pc, at, process, stopped>>,
         \/ UNCHANGED signal
         \/ Pooled /\ signal = "none" /\ signal' = "queued",
         errors' \in Nat, errors' >= errors,
         \/ UNCHANGED accept
         \/ \E p \in Port : accept[p] = "pending" /\ Completes(p)
  PROVE  Reasons'
  <1>1. /\ accept' \in [Port -> {"pending", "ok", "error", "handling", "over"}]
        /\ \A p \in Port : accept'[p] = "over" <=> accept[p] = "over"
        /\ \A p \in Port : accept'[p] = "handling" => accept[p] = "handling"
        /\ \A p \in Port : accept'[p] = "error" => accept[p] = "error" \/ errors' > 0
    BY ReasonFacts DEF Completes
  <1>2. HandlersKept'
    BY <1>1 DEF Reasons, HandlersKept
  <1>3. LoopsKept'
    <2>1. errors > 0 => errors' > 0
      BY ReasonFacts
    <2>2. QED
      BY <1>1, <2>1 DEF Reasons, LoopsKept
  <1>4. StopsForReason'
    BY <1>1 DEF Reasons, StopsForReason, Pooled
  <1>5. MainEndsForReason'
    <2>1. errors > 0 => errors' > 0
      BY ReasonFacts
    <2>2. QED
      BY <2>1 DEF Reasons, MainEndsForReason
  <1>6. ThreadsKept'
    <2>1. Gone' = Gone /\ Lost' = Lost
      BY <1>1 DEF Gone, Lost
    <2>2. QED
      BY <2>1 DEF Reasons, ThreadsKept, Pooled
  <1>7. QED
    BY <1>2, <1>3, <1>4, <1>5, <1>6 DEF Reasons

LEMMA HandleAcceptReasons ==
  ASSUME Inv, Reasons, NEW t \in Thread, NEW p \in Port, HandleAccept(t, p)
  PROVE  Reasons'
  <1>1. /\ process = "up" /\ pc[t] = "run" /\ accept[p] = "ok"
        /\ accept' = [accept EXCEPT ![p] = "handling"]
        /\ pc' = [pc EXCEPT ![t] = "accepted"] /\ at' = [at EXCEPT ![t] = p]
        /\ UNCHANGED <<program, process, signal, stopped, errors>>
    BY DEF HandleAccept, Takes, bounds
  <1>2. HandlersKept'
    <2> SUFFICES ASSUME NEW q \in Port, accept'[q] = "handling"
                 PROVE  \E u \in Thread : pc'[u] = "accepted" /\ at'[u] = q
      BY DEF HandlersKept
    <2>1. CASE q = p
      <3>1. pc'[t] = "accepted" /\ at'[t] = p
        BY <1>1, ReasonFacts
      <3>2. QED
        BY <2>1, <3>1
    <2>2. CASE q # p
      <3>1. PICK u \in Thread : pc[u] = "accepted" /\ at[u] = q
        BY <1>1, <2>2, ReasonFacts DEF Reasons, HandlersKept
      <3>2. u # t
        BY <1>1, <3>1
      <3>3. pc'[u] = "accepted" /\ at'[u] = q
        BY <1>1, <3>1, <3>2, ReasonFacts
      <3>4. QED
        BY <3>3
    <2>3. QED
      BY <2>1, <2>2
  <1>3. \A q \in Port : /\ accept'[q] \in {"error", "over"} => accept'[q] = accept[q]
                        /\ accept[q] = "over" => accept'[q] = "over"
    BY <1>1, ReasonFacts
  <1>4. LoopsKept' /\ StopsForReason'
    BY <1>1, <1>3 DEF Reasons, LoopsKept, StopsForReason, Pooled
  <1>5. \A u \in Thread : pc'[u] = "left" <=> pc[u] = "left"
    BY <1>1, ReasonFacts
  <1>6. MainEndsForReason'
    BY <1>1, <1>5, ReasonFacts DEF Reasons, MainEndsForReason
  <1>7. ThreadsKept'
    <2>1. Gone' = Gone /\ Lost' = Lost
      BY <1>3, <1>5 DEF Gone, Lost
    <2>2. QED
      BY <1>1, <2>1 DEF Reasons, ThreadsKept, Pooled
  <1>8. QED
    BY <1>2, <1>4, <1>6, <1>7 DEF Reasons

LEMMA AcceptAgainReasons ==
  ASSUME Inv, Reasons, NEW t \in Thread, AcceptAgain(t)
  PROVE  Reasons'
  <1>1. /\ process = "up" /\ pc[t] = "accepted"
        /\ at[t] \in Port /\ accept[at[t]] = "handling"
        /\ accept' = [accept EXCEPT ![at[t]] = "pending"]
        /\ pc' = [pc EXCEPT ![t] = "run"] /\ at' = [at EXCEPT ![t] = None]
        /\ UNCHANGED <<program, process, signal, stopped, errors>>
    BY DEF AcceptAgain, Again, bounds, Inv, OneHandler
  <1>2. HandlersKept'
    <2> SUFFICES ASSUME NEW q \in Port, accept'[q] = "handling"
                 PROVE  \E u \in Thread : pc'[u] = "accepted" /\ at'[u] = q
      BY DEF HandlersKept
    <2>1. q # at[t] /\ accept[q] = "handling"
      BY <1>1, ReasonFacts
    <2>2. PICK u \in Thread : pc[u] = "accepted" /\ at[u] = q
      BY <2>1 DEF Reasons, HandlersKept
    <2>3. pc'[u] = "accepted" /\ at'[u] = q
      BY <1>1, <2>1, <2>2, ReasonFacts
    <2>4. QED
      BY <2>3
  <1>3. \A q \in Port : /\ accept'[q] \in {"error", "over"} => accept'[q] = accept[q]
                        /\ accept[q] = "over" => accept'[q] = "over"
    BY <1>1, ReasonFacts
  <1>4. LoopsKept' /\ StopsForReason'
    BY <1>1, <1>3 DEF Reasons, LoopsKept, StopsForReason, Pooled
  <1>5. \A u \in Thread : pc'[u] = "left" <=> pc[u] = "left"
    BY <1>1, ReasonFacts
  <1>6. MainEndsForReason'
    BY <1>1, <1>5, ReasonFacts DEF Reasons, MainEndsForReason
  <1>7. ThreadsKept'
    <2>1. Gone' = Gone /\ Lost' = Lost
      BY <1>3, <1>5 DEF Gone, Lost
    <2>2. QED
      BY <1>1, <2>1 DEF Reasons, ThreadsKept, Pooled
  <1>8. QED
    BY <1>2, <1>4, <1>6, <1>7 DEF Reasons

LEMMA RetriesReasons ==
  ASSUME Inv, Reasons, NEW t \in Thread, NEW p \in Port, RetriesOnError(t, p)
  PROVE  Reasons'
  <1>1. /\ accept[p] = "error"
        /\ accept' = [accept EXCEPT ![p] = "pending"]
        /\ UNCHANGED <<program, process, signal, stopped, errors, pc, at>>
    BY DEF RetriesOnError, Again, bounds, threads
  <1>2. /\ \A q \in Port : accept'[q] = "over" <=> accept[q] = "over"
        /\ \A q \in Port : accept'[q] = "error" => accept[q] = "error"
        /\ \A q \in Port : accept'[q] = "handling" => accept[q] = "handling"
    BY <1>1, ReasonFacts
  <1>3. HandlersKept' /\ LoopsKept' /\ StopsForReason'
    BY <1>1, <1>2 DEF Reasons, HandlersKept, LoopsKept, StopsForReason, Pooled
  <1>4. MainEndsForReason'
    BY <1>1 DEF Reasons, MainEndsForReason
  <1>5. ThreadsKept'
    <2>1. Gone' = Gone /\ Lost' = Lost
      BY <1>1, <1>2 DEF Gone, Lost
    <2>2. QED
      BY <1>1, <2>1 DEF Reasons, ThreadsKept, Pooled
  <1>6. QED
    BY <1>3, <1>4, <1>5 DEF Reasons

\* A loop ends, and in the coroutine server the thread that has seen the error
\* is lost with it.
LEMMA OverReasons ==
  ASSUME Inv, Reasons, NEW t \in Thread, NEW p \in Port,
         \/ ReturnsOnError(t, p)
         \/ DetachedOnError(t, p)
         \/ ThrowsOnError(t, p)
  PROVE  Reasons'
  <1>1. /\ process = "up" /\ pc[t] = "run" /\ ~stopped
        /\ accept[p] = "error" /\ errors > 0 /\ program # "daytime"
        /\ accept' = [accept EXCEPT ![p] = "over"]
        /\ UNCHANGED <<program, signal, stopped, errors, at>>
    BY DEF ReturnsOnError, DetachedOnError, ThrowsOnError, Over, Takes, bounds,
           threads, Reasons, LoopsKept
  <1>2. \/ UNCHANGED <<pc, process>>
        \/ /\ program = "coEcho" /\ pc' = [pc EXCEPT ![t] = "left"]
           /\ process' = IF t = Main /\ Worker # {} THEN "terminated" ELSE "up"
    BY DEF ReturnsOnError, DetachedOnError, ThrowsOnError, threads
  <1>3. /\ \A q \in Port : accept[q] = "over" => accept'[q] = "over"
        /\ accept'[p] = "over"
        /\ \A q \in Port : accept'[q] \in {"handling", "error"} =>
                              accept'[q] = accept[q]
    BY <1>1, ReasonFacts
  <1>4. HandlersKept'
    <2>1. \A u \in Thread : pc[u] = "accepted" => pc'[u] = "accepted"
      BY <1>1, <1>2, ReasonFacts
    <2>2. QED
      BY <1>1, <1>3, <2>1 DEF Reasons, HandlersKept
  <1>5. LoopsKept' /\ StopsForReason'
    BY <1>1, <1>3 DEF Reasons, LoopsKept, StopsForReason, Pooled
  <1>6. MainEndsForReason'
    <2>1. CASE UNCHANGED <<pc, process>>
      BY <1>1, <2>1 DEF Reasons, MainEndsForReason
    <2>2. CASE /\ program = "coEcho" /\ pc' = [pc EXCEPT ![t] = "left"]
               /\ process' = IF t = Main /\ Worker # {} THEN "terminated" ELSE "up"
      <3>1. CASE t = Main
        <4>1. pc'[Main] = "left" /\ process' # "ended"
          BY <2>2, <3>1, ReasonFacts
        <4>2. QED
          BY <1>1, <2>2, <3>1, <4>1 DEF MainEndsForReason
      <3>2. CASE t # Main
        <4>1. pc'[Main] = pc[Main] /\ process' = "up"
          BY <2>2, <3>2, ReasonFacts
        <4>2. QED
          BY <1>1, <4>1 DEF Reasons, MainEndsForReason
      <3>3. QED
        BY <3>1, <3>2
    <2>3. QED
      BY <1>2, <2>1, <2>2
  <1>7. ThreadsKept'
    <2> SUFFICES ASSUME Pooled
                 PROVE  /\ Cardinality(Gone') <= Cardinality(Lost')
                        /\ program = "echo" => Gone' = {}
      BY <1>1 DEF ThreadsKept, Pooled
    <2>1. /\ Cardinality(Gone) <= Cardinality(Lost)
          /\ program = "echo" => Gone = {}
      BY <1>1 DEF Reasons, ThreadsKept
    <2>2. Lost' = Lost \cup {p} /\ p \notin Lost
      BY <1>1, ReasonFacts DEF Lost
    <2>3. Cardinality(Lost') = Cardinality(Lost) + 1
      BY <2>2, CountsFinite, FS_AddElement
    <2>4. CASE UNCHANGED <<pc, process>>
      <3>1. Gone' = Gone
        BY <2>4 DEF Gone
      <3>2. QED
        BY <2>1, <2>3, <3>1, CountsFinite
    <2>5. CASE program = "coEcho" /\ pc' = [pc EXCEPT ![t] = "left"]
      <3>1. Gone' = Gone \cup {t} /\ t \notin Gone
        BY <1>1, <2>5, ReasonFacts DEF Gone
      <3>2. Cardinality(Gone') = Cardinality(Gone) + 1
        BY <3>1, CountsFinite, FS_AddElement
      <3>3. QED
        BY <2>1, <2>3, <2>5, <3>2, CountsFinite
    <2>6. QED
      BY <1>2, <2>4, <2>5
  <1>8. QED
    BY <1>4, <1>5, <1>6, <1>7 DEF Reasons

LEMMA EndReasons ==
  ASSUME Inv, Reasons, NEW t \in Thread,
         HandleSignal(t) \/ Leaves(t) \/ MainEnds
  PROVE  Reasons'
  <1>1. UNCHANGED <<program, errors, at, accept>>
    BY DEF HandleSignal, Leaves, MainEnds, threads, loops, bounds
  <1>2. CASE HandleSignal(t)
    <2>1. /\ signal = "queued" /\ signal' = "handled" /\ stopped'
          /\ UNCHANGED <<pc, process>>
      BY <1>2 DEF HandleSignal, threads
    <2>2. HandlersKept' /\ LoopsKept' /\ StopsForReason'
      BY <1>1, <2>1 DEF Reasons, HandlersKept, LoopsKept, StopsForReason, Pooled
    <2>3. MainEndsForReason' /\ ThreadsKept'
      BY <1>1, <2>1 DEF Reasons, MainEndsForReason, ThreadsKept
    <2>4. QED
      BY <2>2, <2>3 DEF Reasons
  <1>3. CASE Leaves(t)
    <2>1. /\ process = "up" /\ pc[t] = "run"
          /\ stopped \/ NoWork
          /\ stopped' /\ pc' = [pc EXCEPT ![t] = "left"]
          /\ UNCHANGED <<signal, process>>
      BY <1>3 DEF Leaves
    <2>2. /\ \A u \in Thread : pc[u] = "accepted" => pc'[u] = "accepted"
          /\ \A u \in Thread : pc[u] = "left" => pc'[u] = "left"
      BY <2>1, ReasonFacts
    <2>3. HandlersKept' /\ LoopsKept'
      BY <1>1, <2>2 DEF Reasons, HandlersKept, LoopsKept
    <2>4. StopsForReason'
      BY <1>1, <1>3, <2>1 DEF Leaves, Reasons, StopsForReason, Pooled, NoWork
    <2>5. MainEndsForReason' /\ ThreadsKept'
      BY <1>1, <2>1, <2>2, ReasonFacts DEF Reasons, MainEndsForReason, ThreadsKept
    <2>6. QED
      BY <2>3, <2>4, <2>5 DEF Reasons
  <1>4. CASE MainEnds
    <2>1. /\ process = "up" /\ process' = "ended"
          /\ \A u \in Thread : pc[u] = "left"
          /\ UNCHANGED <<pc, signal, stopped>>
      BY <1>4 DEF MainEnds, threads
    <2>2. HandlersKept' /\ LoopsKept' /\ StopsForReason'
      BY <1>1, <2>1 DEF Reasons, HandlersKept, LoopsKept, StopsForReason, Pooled
    <2>3. MainEndsForReason'
      BY <1>1, <2>1 DEF Reasons, MainEndsForReason
    <2>4. ThreadsKept'
      BY <1>1, <2>1 DEF Reasons, ThreadsKept, Gone, Lost, Pooled
    <2>5. QED
      BY <2>2, <2>3, <2>4 DEF Reasons
  <1>5. QED
    BY <1>2, <1>3, <1>4

LEMMA ReasonsInitial == Init => Reasons
  <1> SUFFICES ASSUME Init PROVE Reasons
    OBVIOUS
  <1>1. /\ signal = "none" /\ ~stopped /\ process = "up"
        /\ \A p \in Port : accept[p] = "pending"
        /\ \A t \in Thread : pc[t] = IF Pooled \/ t = Main THEN "run" ELSE "left"
    BY DEF Init
  <1>2. Main \in Thread
    BY DEF Thread
  <1>3. HandlersKept /\ LoopsKept /\ StopsForReason
    BY <1>1 DEF HandlersKept, LoopsKept, StopsForReason
  <1>4. MainEndsForReason
    BY <1>1, <1>2 DEF MainEndsForReason
  <1>5. ThreadsKept
    <2>1. Pooled => Gone = {}
      BY <1>1 DEF Gone
    <2>2. Cardinality({}) = 0
      BY FS_EmptySet
    <2>3. QED
      BY <2>1, <2>2, CountsFinite DEF ThreadsKept
  <1>6. QED
    BY <1>3, <1>4, <1>5 DEF Reasons

LEMMA ReasonsInductive == Inv /\ Reasons /\ [Next]_vars => Reasons'
  <1> SUFFICES ASSUME Inv, Reasons, [Next]_vars PROVE Reasons'
    OBVIOUS
  <1> USE ReasonFacts
  <1>1. ASSUME NEW p \in Port, Outside(p) PROVE Reasons'
    <2>1. UNCHANGED <<program, pc, at, process, stopped, signal>>
      BY <1>1 DEF Outside, Arrives, Accepted, AcceptFails, threads
    <2>2. errors' \in Nat /\ errors' >= errors
      BY <1>1 DEF Outside, Arrives, Accepted, AcceptFails, bounds
    <2>3. UNCHANGED accept \/ (accept[p] = "pending" /\ Completes(p))
      BY <1>1 DEF Outside, Arrives, Accepted, AcceptFails, Completes
    <2>4. QED
      BY <2>1, <2>2, <2>3, QuietReasons
  <1>2. CASE Interrupt
    BY <1>2, QuietReasons DEF Interrupt, threads, loops, bounds
  <1>3. ASSUME NEW t \in Thread, NEW p \in Port, HandleAccept(t, p)
        PROVE  Reasons'
    BY <1>3, HandleAcceptReasons
  <1>4. ASSUME NEW t \in Thread, NEW p \in Port, HandleError(t, p)
        PROVE  Reasons'
    BY <1>4, RetriesReasons, OverReasons DEF HandleError
  <1>5. ASSUME NEW t \in Thread, NEW c \in Conn,
               CoroutineRuns(t, c) \/ WorkEnds(t, c)
        PROVE  Reasons'
    <2>1. UNCHANGED <<program, pc, at, process, stopped, signal, accept, errors>>
      BY <1>5 DEF CoroutineRuns, WorkEnds, threads, loops, bounds
    <2>2. QED
      BY <2>1, QuietReasons
  <1>6. ASSUME NEW t \in Thread, AcceptAgain(t) PROVE Reasons'
    BY <1>6, AcceptAgainReasons
  <1>7. CASE Datagrams \/ UNCHANGED vars
    <2>1. UNCHANGED <<program, pc, at, process, stopped, signal, accept, errors>>
      BY <1>7 DEF Datagrams, vars, threads, loops, bounds
    <2>2. QED
      BY <2>1, QuietReasons
  <1>8. CASE Ending
    BY <1>8, EndReasons DEF Ending
  <1>9. QED
    BY <1>1, <1>2, <1>3, <1>4, <1>5, <1>6, <1>7, <1>8 DEF Next

LEMMA ReasonsKept == Spec => []Reasons
  BY ReasonsInitial, ReasonsInductive, Invariance, PTL DEF Spec

(* No port is forgotten: a loop that is not over has its accept pending,   *)
(* its outcome waiting for a thread, or a thread that will accept again;   *)
(* a loop is over only after an accept has failed, and never in daytime.   *)
THEOREM LoopsGoOn == Spec => [](HandlersKept /\ LoopsKept)
  <1>1. Reasons => HandlersKept /\ LoopsKept
    BY DEF Reasons
  <1>2. QED
    BY <1>1, ReasonsKept, PTL

(* A server ends for a reason: a signal, the end of all its loops, or in   *)
(* the coroutine server an accept that has failed in the main thread.      *)
THEOREM ServersEndForReason == Spec => [](StopsForReason /\ MainEndsForReason)
  <1>1. Reasons => StopsForReason /\ MainEndsForReason
    BY DEF Reasons
  <1>2. QED
    BY <1>1, ReasonsKept, PTL

(* A failed accept costs the coroutine server one thread and one loop, so  *)
(* it never has fewer threads than loops that go on, if it had as many;    *)
(* the callback server loses none.                                         *)
THEOREM ThreadsLeft == Spec => []ThreadsKept
  <1>1. Reasons => ThreadsKept
    BY DEF Reasons
  <1>2. QED
    BY <1>1, ReasonsKept, PTL

(* A stopped server only finishes the handlers that its threads are in.    *)
THEOREM StopsRunning == Spec => [][StopEnds]_vars
  <1>1. Inv /\ Reasons /\ [Next]_vars => [StopEnds]_vars
    <2> SUFFICES ASSUME Inv, Reasons, Next, stopped PROVE StopEnds
      BY DEF StopEnds
    <2>1. /\ accept \in [Port -> {"pending", "ok", "error", "handling", "over"}]
          /\ pc \in [Thread -> {"run", "accepted", "left"}]
      BY InvFacts
    <2>2. ASSUME stopped', UNCHANGED <<signal, work, pc>>,
                 \/ UNCHANGED accept
                 \/ \E p \in Port : accept[p] = "pending" /\ Completes(p)
          PROVE  StopEnds
      <3>1. \A p \in Port : accept[p] # "pending" => accept'[p] = accept[p]
        BY <2>1, <2>2 DEF Completes
      <3>2. \A t \in Thread : ThreadRank(t)' <= ThreadRank(t)
        BY <2>2 DEF ThreadRank
      <3>3. QED
        BY <2>2, <3>1, <3>2 DEF StopEnds
    <2>3. ASSUME NEW p \in Port, Outside(p) PROVE StopEnds
      <3>1. stopped' /\ UNCHANGED <<signal, work, pc>>
        BY <2>3 DEF Outside, Arrives, Accepted, AcceptFails, threads, conns
      <3>2. UNCHANGED accept \/ (accept[p] = "pending" /\ Completes(p))
        <4>1. errors \in Nat
          BY DEF Inv, TypeOK
        <4>2. Arrives(p) => UNCHANGED accept
          BY DEF Arrives
        <4>3. Accepted(p) => accept[p] = "pending" /\ Completes(p)
          BY DEF Accepted, Completes
        <4>4. AcceptFails(p) => accept[p] = "pending" /\ Completes(p)
          <5>1. AcceptFails(p) => errors' > 0
            BY <4>1 DEF AcceptFails
          <5>2. QED
            BY <5>1 DEF AcceptFails, Completes
        <4>5. QED
          BY <2>3, <4>2, <4>3, <4>4 DEF Outside
      <3>3. QED
        BY <2>2, <3>1, <3>2
    <2>4. ASSUME NEW t \in Thread, AcceptAgain(t) PROVE StopEnds
      <3>1. /\ pc[t] = "accepted" /\ pc' = [pc EXCEPT ![t] = "run"]
            /\ at[t] \in Port /\ accept[at[t]] = "handling"
            /\ accept' = [accept EXCEPT ![at[t]] = "pending"]
            /\ stopped' /\ UNCHANGED <<signal, work>>
        BY <2>4 DEF AcceptAgain, Again, Inv, OneHandler
      <3>2. /\ ThreadRank(t)' < ThreadRank(t)
            /\ \A u \in Thread : ThreadRank(u)' <= ThreadRank(u)
        BY <2>1, <3>1 DEF ThreadRank
      <3>3. \A p \in Port : p # at[t] => accept'[p] = accept[p]
        BY <2>1, <3>1
      <3>4. QED
        BY <3>1, <3>2, <3>3 DEF StopEnds
    <2>5. ASSUME NEW t \in Thread, Leaves(t) PROVE StopEnds
      <3>1. /\ pc[t] = "run" /\ pc' = [pc EXCEPT ![t] = "left"]
            /\ stopped' /\ UNCHANGED <<signal, work, accept>>
        BY <2>5 DEF Leaves, loops, conns
      <3>2. \A u \in Thread : ThreadRank(u)' <= ThreadRank(u)
        BY <2>1, <3>1 DEF ThreadRank
      <3>3. QED
        BY <3>1, <3>2 DEF StopEnds
    <2>6. CASE Datagrams \/ MainEnds
      <3>1. stopped' /\ UNCHANGED <<signal, work, pc, accept>>
        BY <2>6 DEF Datagrams, MainEnds, threads, loops, conns
      <3>2. QED
        BY <2>2, <3>1
    <2>7. ~Interrupt
      BY DEF Interrupt, Reasons, StopsForReason
    <2>8. QED
      BY <2>3, <2>4, <2>5, <2>6, <2>7
         DEF Next, Ending, HandleAccept, HandleError, ReturnsOnError,
             RetriesOnError, DetachedOnError, ThrowsOnError, CoroutineRuns,
             WorkEnds, HandleSignal, Takes
  <1>2. QED
    BY <1>1, Invariance, ReasonsKept, PTL DEF Spec
=============================================================================
