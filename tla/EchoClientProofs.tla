-------------------------- MODULE EchoClientProofs --------------------------
(***************************************************************************)
(* Theorems about EchoClient, for every number of ports and connections.   *)
(***************************************************************************)
EXTENDS EchoClient, Integers, FiniteSetTheorems, TLAPS

\* The inductive invariant.
Inv == TypeOK /\ CountersExact

(***************************************************************************)
(* The sessions at a set of places, as one session moves.                  *)
(***************************************************************************)
LEMMA ConnsType ==
  /\ Conns \in Nat
  /\ Ports * Conns < connections + Ports
  /\ connections <= Ports * Conns
  <1> DEFINE d == connections \div Ports
             r == connections % Ports
  <1>1. /\ Ports \in Nat /\ Ports > 0
        /\ connections \in Nat
        /\ d \in Nat /\ r \in 0 .. Ports - 1
        /\ connections = Ports * d + r
    BY ClientAssumption
  <1>2. Conns = d + IF r = 0 THEN 0 ELSE 1
    BY DEF Conns
  <1> HIDE DEF d, r
  <1>3. CASE r = 0
    BY <1>1, <1>2, <1>3
  <1>4. CASE r # 0
    <2>1. Conns = d + 1 /\ r > 0
      BY <1>1, <1>2, <1>4
    <2>2. Ports * (d + 1) = Ports * d + Ports
      BY <1>1
    <2>3. QED
      BY <1>1, <2>1, <2>2
  <1>5. QED
    BY <1>3, <1>4

LEMMA Sessions ==
  /\ IsFiniteSet(Session)
  /\ Cardinality(Session) = Ports * Conns
  <1>1. Ports \in Nat /\ Conns \in Nat
    BY ClientAssumption, ConnsType
  <1>2. /\ IsFiniteSet(Port) /\ Cardinality(Port) = Ports
        /\ IsFiniteSet(1 .. Conns) /\ Cardinality(1 .. Conns) = Conns
    BY <1>1, FS_Interval DEF Port
  <1>3. QED
    BY <1>2, FS_Product DEF Session

LEMMA AtType ==
  ASSUME NEW P
  PROVE  /\ At(P) \in Nat
         /\ At(P) <= Ports * Conns
  <1> DEFINE S == {s \in Session : place[s] \in P}
  <1>1. S \subseteq Session /\ IsFiniteSet(Session)
    BY Sessions
  <1>2. /\ IsFiniteSet(S) /\ Cardinality(S) <= Cardinality(Session)
        /\ Cardinality(S) \in Nat
    BY <1>1, FS_Subset, FS_CardinalityType
  <1>3. QED
    BY <1>2, Sessions DEF At

LEMMA Grows ==
  ASSUME NEW S, IsFiniteSet(S), NEW x
  PROVE  /\ Cardinality(S \cup {x}) = Cardinality(S) + IF x \in S THEN 0 ELSE 1
         /\ Cardinality(S \ {x}) = Cardinality(S) - IF x \in S THEN 1 ELSE 0
         /\ x \in S => Cardinality(S) > 0
  <1>1. Cardinality(S) \in Nat /\ Cardinality(S \ {x}) \in Nat
    BY FS_RemoveElement, FS_CardinalityType
  <1>2. QED
    BY <1>1, FS_AddElement, FS_RemoveElement

LEMMA AtMoves ==
  ASSUME place \in [Session -> Place], NEW s \in Session, NEW to,
         place' = [place EXCEPT ![s] = to], NEW P
  PROVE  /\ At(P)' = At(P) + (IF to \in P THEN 1 ELSE 0)
                           - (IF place[s] \in P THEN 1 ELSE 0)
         /\ At(P) \in Nat
         /\ place[s] \in P => At(P) > 0
  <1> DEFINE S == {u \in Session : place[u] \in P}
             T == {u \in Session : place'[u] \in P}
  <1>1. /\ T = IF to \in P THEN S \cup {s} ELSE S \ {s}
        /\ s \in S <=> place[s] \in P
    OBVIOUS
  <1>2. IsFiniteSet(S) /\ Cardinality(S) \in Nat
    BY Sessions, FS_Subset, FS_CardinalityType
  <1> HIDE DEF S, T
  <1>3. /\ Cardinality(S \cup {s}) = Cardinality(S) + IF s \in S THEN 0 ELSE 1
        /\ Cardinality(S \ {s}) = Cardinality(S) - IF s \in S THEN 1 ELSE 0
        /\ s \in S => Cardinality(S) > 0
    BY <1>2, Grows
  <1>4. /\ Cardinality(T) = Cardinality(S) + (IF to \in P THEN 1 ELSE 0)
                              - (IF place[s] \in P THEN 1 ELSE 0)
        /\ place[s] \in P => Cardinality(S) > 0
    <2>1. CASE to \in P
      BY <1>1, <1>2, <1>3, <2>1
    <2>2. CASE to \notin P
      BY <1>1, <1>2, <1>3, <2>2
    <2>3. QED
      BY <2>1, <2>2
  <1>5. At(P) = Cardinality(S) /\ At(P)' = Cardinality(T)
    BY DEF At, S, T
  <1>6. QED
    BY <1>2, <1>4, <1>5

-----------------------------------------------------------------------------
(***************************************************************************)
(* A move of one session, and what the counters do meanwhile.              *)
(***************************************************************************)
Attempted == {"completed", "refused", "writing", "reading", "waiting", "broken",
              "dropping", "failing", "gone"}
Connected == {"writing", "reading", "waiting", "broken", "dropping"}
Failed    == {"dropping", "gone"}

In(p, P) == IF p \in P THEN 1 ELSE 0

\* The counters follow session s from its place to the place to.
Follows(from, to) ==
  /\ completed' = completed + In(to, Attempted) - In(from, Attempted)
  /\ connected' = connected + In(to, Connected) - In(from, Connected)
  /\ failed' = failed + In(to, Failed) - In(from, Failed)

LEMMA Exact ==
  ASSUME Inv, NEW s \in Session, NEW from \in Place, NEW to \in Place,
         place[s] = from, place' = [place EXCEPT ![s] = to], Follows(from, to)
  PROVE  /\ CountersExact'
         /\ completed' \in Nat /\ connected' \in Nat /\ failed' \in Nat
         /\ place' \in [Session -> Place]
  <1>1. place \in [Session -> Place]
    BY DEF Inv, TypeOK
  <1>2. ASSUME NEW P
        PROVE  /\ At(P)' = At(P) + In(to, P) - In(from, P)
               /\ At(P)' \in Nat
    <2>1. /\ At(P)' = At(P) + (IF to \in P THEN 1 ELSE 0)
                             - (IF place[s] \in P THEN 1 ELSE 0)
          /\ At(P) \in Nat
          /\ place[s] \in P => At(P) > 0
      BY <1>1, AtMoves
    <2>2. QED
      BY <2>1 DEF In
  <1>3. completed = At(Attempted) /\ connected = At(Connected) /\ failed = At(Failed)
    BY DEF Inv, CountersExact, Attempted, Connected, Failed
  <1>4. /\ completed' = At(Attempted)' /\ connected' = At(Connected)'
        /\ failed' = At(Failed)'
    BY <1>2, <1>3 DEF Follows
  <1>5. CountersExact'
    BY <1>4 DEF CountersExact, Attempted, Connected, Failed
  <1>6. QED
    BY <1>1, <1>2, <1>4, <1>5

LEMMA SessionsCount ==
  ASSUME Inv, NEW s \in Session, Handles(s) \/ CoHandles(s) \/ Counts(s)
  PROVE  Inv'
  <1> USE DEF Follows, In, Attempted, Connected, Failed, Place, counters
  <1>1. completed \in Nat /\ connected \in Nat /\ failed \in Nat
    BY DEF Inv, TypeOK
  <1>2. CASE ConnectDone(s)
    <2>1. PICK to \in {"completed", "refused"} : Handler(s, "connecting", to)
      BY <1>2 DEF ConnectDone
    <2>2. Follows("connecting", to)
      BY <1>1, <1>2, <2>1 DEF ConnectDone
    <2>3. /\ place[s] = "connecting" /\ place' = [place EXCEPT ![s] = to]
          /\ "connecting" \in Place /\ to \in Place
      BY <2>1 DEF Handler
    <2> HIDE DEF Follows, In, Attempted, Connected, Failed, Place
    <2>4. /\ CountersExact' /\ place' \in [Session -> Place]
          /\ completed' \in Nat /\ connected' \in Nat /\ failed' \in Nat
      BY <2>2, <2>3, Exact
    <2>5. QED
      BY <2>1, <2>4 DEF Handler, Inv, TypeOK
  <1>3. CASE WriteDone(s) \/ ReadDone(s) \/ WaitDone(s) \/ CoDone(s)
    <2>1. PICK from \in {"writing", "reading", "waiting"},
               to \in {"writing", "reading", "waiting", "broken"} : Handler(s, from, to)
      BY <1>3 DEF WriteDone, ReadDone, WaitDone, CoDone
    <2>2. Follows(from, to)
      BY <1>1, <1>3, <2>1 DEF WriteDone, ReadDone, WaitDone, CoDone
    <2>3. /\ place[s] = from /\ place' = [place EXCEPT ![s] = to]
          /\ from \in Place /\ to \in Place
      BY <2>1 DEF Handler
    <2> HIDE DEF Follows, In, Attempted, Connected, Failed, Place
    <2>4. /\ CountersExact' /\ place' \in [Session -> Place]
          /\ completed' \in Nat /\ connected' \in Nat /\ failed' \in Nat
      BY <2>2, <2>3, Exact
    <2>5. QED
      BY <2>1, <2>4 DEF Handler, Inv, TypeOK
  <1>4. CASE CountConnected(s)
    <2>1. Follows("completed", "writing") /\ Step(s, "completed", "writing")
      BY <1>1, <1>4 DEF CountConnected
    <2>2. QED
      BY <2>1, Exact DEF Step, Inv, TypeOK
  <1>5. CASE CountRefused(s)
    <2>1. Follows("refused", "gone") /\ Step(s, "refused", "gone")
      BY <1>1, <1>5 DEF CountRefused
    <2>2. QED
      BY <2>1, Exact DEF Step, Inv, TypeOK
  <1>6. CASE CountFailed(s)
    <2>1. Follows("broken", "dropping") /\ Step(s, "broken", "dropping")
      BY <1>1, <1>6 DEF CountFailed
    <2>2. QED
      BY <2>1, Exact DEF Step, Inv, TypeOK
  <1>7. CASE CountDropped(s)
    <2>1. Follows("dropping", "gone") /\ Step(s, "dropping", "gone")
      BY <1>1, <1>7 DEF CountDropped
    <2>2. QED
      BY <2>1, Exact DEF Step, Inv, TypeOK
  <1>8. CASE CoCountDropped(s)
    <2>1. Follows("broken", "failing") /\ Step(s, "broken", "failing")
      BY <1>1, <1>8 DEF CoCountDropped
    <2>2. QED
      BY <2>1, Exact DEF Step, Inv, TypeOK
  <1>9. CASE CoCountFailed(s)
    <2>1. Follows("failing", "gone") /\ Step(s, "failing", "gone")
      BY <1>1, <1>9 DEF CoCountFailed
    <2>2. QED
      BY <2>1, Exact DEF Step, Inv, TypeOK
  <1>10. QED
    BY <1>2, <1>3, <1>4, <1>5, <1>6, <1>7, <1>8, <1>9 DEF Handles, CoHandles, Counts

-----------------------------------------------------------------------------
(***************************************************************************)
(* The theorems.                                                           *)
(***************************************************************************)
LEMMA InitInv == Init => Inv
  <1> SUFFICES ASSUME Init
               PROVE  Inv
    OBVIOUS
  <1>1. TypeOK
    BY DEF Init, TypeOK, Place
  <1>2. ASSUME NEW P, "connecting" \notin P
        PROVE  At(P) = 0
    <2>1. {s \in Session : place[s] \in P} = {}
      BY <1>2 DEF Init
    <2>2. QED
      BY <2>1, FS_EmptySet DEF At
  <1>3. CountersExact
    BY <1>2 DEF Init, CountersExact
  <1>4. QED
    BY <1>1, <1>3 DEF Inv

LEMMA StepInv == Inv /\ [Next]_vars => Inv'
  <1> SUFFICES ASSUME Inv, [Next]_vars
               PROVE  Inv'
    OBVIOUS
  <1>1. CASE \E s \in Session : Handles(s) \/ CoHandles(s) \/ Counts(s)
    BY <1>1, SessionsCount
  <1>2. CASE \/ \E p \in Port : Thread(p)
             \/ Monitor \/ Interrupt \/ Main \/ UNCHANGED vars
    <2>1. UNCHANGED <<coroutines, place, completed, connected, failed>>
      BY <1>2 DEF Thread, MakeSessions, MakeThrows, ThreadEnds, Monitor, MonitorConnected, MonitorReturns, MonitorStopped,
                  MonitorFindsNone, MonitorStops, MonitorGoes, Interrupt, Main,
                  StopContext, MainEnds, vars, counters
    <2>2. CountersExact'
      BY <2>1 DEF Inv, CountersExact, At
    <2>3. TypeOK'
      <3>1. CASE \E p \in Port : Thread(p)
        BY <2>1, <3>1 DEF Thread, MakeSessions, MakeThrows, ThreadEnds, Inv, TypeOK
      <3>2. CASE Monitor
        BY <2>1, <3>2 DEF Monitor, MonitorConnected, MonitorReturns, MonitorStopped,
                          MonitorFindsNone, MonitorStops, MonitorGoes, Inv, TypeOK
      <3>3. CASE Interrupt \/ UNCHANGED vars
        BY <2>1, <3>3 DEF Interrupt, vars, Inv, TypeOK
      <3>4. CASE Main
        BY <2>1, <3>4 DEF Main, StopContext, MainEnds, Inv, TypeOK
      <3>5. QED
        BY <1>2, <3>1, <3>2, <3>3, <3>4
    <2>4. QED
      BY <2>2, <2>3 DEF Inv
  <1>3. QED
    BY <1>1, <1>2 DEF Next

(* The inductive invariant holds in every state.                           *)
THEOREM Invariance == Spec => []Inv
  <1>1. QED
    BY InitInv, StepInv, PTL DEF Spec

(* The variables have their types; no counter becomes negative.            *)
THEOREM TypeCorrect == Spec => []TypeOK
  <1>1. Inv => TypeOK
    BY DEF Inv
  <1>2. QED
    BY <1>1, Invariance, PTL

(* The counters are exact, in whichever order a session counts its loss     *)
(* and whatever the threads of the other ports count in between.           *)
THEOREM Counted == Spec => []CountersExact
  <1>1. Inv => CountersExact
    BY DEF Inv
  <1>2. QED
    BY <1>1, Invariance, PTL

(* More connections are made than the client announces (NoMoreThanTotal),   *)
(* but never by as many as there are ports.                                 *)
THEOREM AlmostTotal == Spec => [](connected < connections + Ports)
  <1>1. Inv => connected < connections + Ports
    <2> SUFFICES ASSUME Inv
                 PROVE  connected < connections + Ports
      OBVIOUS
    <2>1. connected \in Nat /\ connected <= Ports * Conns
      BY AtType DEF Inv, CountersExact
    <2>2. Ports * Conns \in Nat /\ connections + Ports \in Nat
      BY ConnsType, ClientAssumption
    <2>3. QED
      BY <2>1, <2>2, ConnsType
  <1>2. QED
    BY <1>1, Invariance, PTL
-----------------------------------------------------------------------------
(***************************************************************************)
(* The handlers of a port, its thread, and the end                         *)
(***************************************************************************)

\* A thread is in one handler at a time.
OneHandler == \A s, u \in Session :
                 /\ place[s] \in Counting /\ place[u] \in Counting
                 /\ PortOf(s) = PortOf(u)
                 => s = u

\* io.run () returns between two handlers, and not before it has to; before it
\* is called, and when an exception keeps it from being called, no session of
\* the port is handled.
ThreadsEnd ==
  \A p \in Port :
     /\ thread[p] = "ended" =>
          /\ ~Busy(p)
          /\ \/ p \in stopped
             \/ \A s \in Session : PortOf(s) = p => place[s] = "gone"
     /\ thread[p] \in {"making", "failed"} =>
          \A s \in Session : PortOf(s) = p => place[s] = "connecting"

\* main stops the io_contexts in order, and only once it has seen stop; it ends
\* when all threads have.
MainEndsLast == /\ stopped # {} => stop
                /\ \A p \in stopped : \A q \in 1 .. p - 1 : q \in stopped
                /\ main = "ended" => /\ stopped = Port /\ monitor = "ended"
                                     /\ \A p \in Port :
                                          thread[p] \in {"ended", "failed"}

\* The monitor looks for lost connections after enough attempts are over, and
\* never leaves without stop.
MonitorWaits == /\ monitor \in {"connected", "polling", "stops"} =>
                      stop \/ completed >= connections
                /\ monitor = "ended" => stop

Orderly == OneHandler /\ ThreadsEnd /\ MainEndsLast /\ MonitorWaits

\* What a handler has still to count for session s.
ToCount(s) == IF place[s] = "broken" THEN 2
              ELSE IF place[s] \in Counting THEN 1 ELSE 0

\* After stop () of an io_context no handler begins on it; the one that its
\* thread is in finishes.
PortStops ==
  \A s \in Session :
     PortOf(s) \in stopped =>
        /\ PortOf(s) \in stopped'
        /\ place'[s] = place[s] \/ ToCount(s)' < ToCount(s)

\* When the monitor gives up no session has a connection that counts, and less
\* than one attempt for each port is still to come or will never come.
GivesUp ==
  MonitorFindsNone =>
     /\ \A s \in Session :
           place[s] \in {"connecting", "completed", "refused", "failing", "gone"}
     /\ stop \/ At({"connecting"}) < Ports

\* Between handlers the counters add up: what has been completed is connected
\* or has failed.
AddUp == (\A p \in Port : ~Busy(p)) => completed = connected + failed

\* A handler of session s begins, or the handler that session s is in counts.
Begins(s) == /\ thread[PortOf(s)] = "running" /\ PortOf(s) \notin stopped
             /\ ~Busy(PortOf(s))
             /\ place[s] \in {"connecting", "writing", "reading", "waiting"}
             /\ \E to \in Place : place' = [place EXCEPT ![s] = to]

Continues(s) ==
  \/ /\ place[s] = "broken"
     /\ \E to \in {"dropping", "failing"} : place' = [place EXCEPT ![s] = to]
  \/ /\ place[s] \in Counting \ {"broken"}
     /\ \E to \in {"writing", "gone"} : place' = [place EXCEPT ![s] = to]

LEMMA SessionSteps ==
  ASSUME TypeOK, NEW s \in Session, Handles(s) \/ CoHandles(s) \/ Counts(s)
  PROVE  /\ UNCHANGED <<thread, stopped, stop, monitor, main>>
         /\ completed' >= completed
         /\ Begins(s) \/ Continues(s)
  <1>1. CASE Handles(s) \/ CoHandles(s)
    <2>1. PICK from \in {"connecting", "writing", "reading", "waiting"},
               to \in Place : Handler(s, from, to)
      BY <1>1 DEF Handles, CoHandles, ConnectDone, WriteDone, ReadDone, WaitDone,
                  CoDone, Place
    <2>2. completed' = completed \/ completed' = completed + 1
      BY <1>1 DEF Handles, CoHandles, ConnectDone, WriteDone, ReadDone, WaitDone,
                  CoDone, counters
    <2>3. Begins(s)
      BY <2>1 DEF Handler, Begins
    <2>4. UNCHANGED <<thread, stopped, stop, monitor, main>>
      BY <2>1 DEF Handler
    <2>5. completed' >= completed
      BY <2>2 DEF TypeOK
    <2>6. QED
      BY <2>3, <2>4, <2>5
  <1>2. CASE Counts(s)
    <2>1. \/ Step(s, "completed", "writing") \/ Step(s, "refused", "gone")
          \/ Step(s, "broken", "dropping") \/ Step(s, "dropping", "gone")
          \/ Step(s, "broken", "failing") \/ Step(s, "failing", "gone")
      BY <1>2 DEF Counts, CountConnected, CountRefused, CountFailed, CountDropped,
                  CoCountDropped, CoCountFailed
    <2>2. Continues(s) /\ UNCHANGED <<thread, stopped, stop, monitor, main>>
      BY <2>1 DEF Step, Continues, Counting
    <2>3. completed' = completed
      BY <1>2 DEF Counts, CountConnected, CountRefused, CountFailed, CountDropped,
                  CoCountDropped, CoCountFailed
    <2>4. QED
      BY <2>2, <2>3 DEF TypeOK
  <1>3. QED
    BY <1>1, <1>2

LEMMA SessionOrderly ==
  ASSUME TypeOK, Orderly, NEW s \in Session,
         Handles(s) \/ CoHandles(s) \/ Counts(s)
  PROVE  Orderly'
  <1>1. /\ UNCHANGED <<thread, stopped, stop, monitor, main>>
        /\ completed' >= completed /\ completed \in Nat /\ completed' \in Int
        /\ connections \in Nat
        /\ place \in [Session -> Place]
    <2>1. completed' = completed \/ completed' = completed + 1
      BY DEF Handles, CoHandles, ConnectDone, WriteDone, ReadDone, WaitDone,
             CoDone, counters, Counts, CountConnected, CountRefused, CountFailed,
             CountDropped, CoCountDropped, CoCountFailed
    <2>2. QED
      BY <2>1, SessionSteps, ClientAssumption DEF TypeOK
  <1>2. \A u \in Session : u # s => place'[u] = place[u]
    BY <1>1, SessionSteps DEF Begins, Continues
  <1>3. PortOf(s) \in Port
    BY DEF PortOf, Session
  <1>4. MainEndsLast' /\ MonitorWaits'
    BY <1>1 DEF Orderly, MainEndsLast, MonitorWaits
  <1>5. CASE Begins(s)
    <2>1. \A u \in Session : u # s /\ place'[u] \in Counting =>
                                PortOf(u) # PortOf(s) /\ place[u] \in Counting
      BY <1>2, <1>5 DEF Begins, Busy
    <2>2. OneHandler'
      BY <2>1 DEF Orderly, OneHandler
    <2>3. \A p \in Port : thread[p] # "running" =>
             \A u \in Session : PortOf(u) = p => place'[u] = place[u]
      BY <1>2, <1>5 DEF Begins
    <2>4. ThreadsEnd'
      BY <1>1, <2>3 DEF Orderly, ThreadsEnd, Busy
    <2>5. QED
      BY <1>4, <2>2, <2>4 DEF Orderly
  <1>6. CASE Continues(s)
    <2>1. place[s] \in Counting
      BY <1>6 DEF Continues, Counting
    <2>2. OneHandler'
      BY <1>2, <2>1 DEF Orderly, OneHandler
    <2>3. Busy(PortOf(s))
      BY <2>1 DEF Busy
    <2>4. \A p \in Port : thread[p] \in {"ended", "making", "failed"} =>
             \A u \in Session : PortOf(u) = p => place'[u] = place[u]
      <3>1. thread[PortOf(s)] \notin {"ended", "making", "failed"}
        BY <1>3, <2>1, <2>3 DEF Orderly, ThreadsEnd, Counting
      <3>2. QED
        BY <1>2, <3>1
    <2>5. ThreadsEnd'
      BY <1>1, <2>4 DEF Orderly, ThreadsEnd, Busy
    <2>6. QED
      BY <1>4, <2>2, <2>5 DEF Orderly
  <1>7. QED
    BY <1>5, <1>6, SessionSteps

LEMMA OrderlyInductive == TypeOK /\ Orderly /\ [Next]_vars => Orderly'
  <1> SUFFICES ASSUME TypeOK, Orderly, [Next]_vars PROVE Orderly'
    OBVIOUS
  <1>1. CASE \E s \in Session : Handles(s) \/ CoHandles(s) \/ Counts(s)
    BY <1>1, SessionOrderly
  <1>2. ASSUME UNCHANGED place, UNCHANGED thread
        PROVE  OneHandler' /\ (stopped \subseteq stopped' => ThreadsEnd')
    BY <1>2 DEF Orderly, OneHandler, ThreadsEnd, Busy
  <1>3. ASSUME NEW p \in Port, Thread(p)
        PROVE  Orderly'
    <2>1. /\ UNCHANGED <<place, completed, stop, stopped, monitor, main>>
          /\ thread[p] \in {"making", "running"}
      BY <1>3 DEF Thread, MakeSessions, MakeThrows, ThreadEnds, counters
    <2>2. OneHandler'
      BY <2>1 DEF Orderly, OneHandler
    <2>3. \A q \in Port : q # p => thread'[q] = thread[q]
      BY <1>3 DEF Thread, MakeSessions, MakeThrows, ThreadEnds, TypeOK
    <2>4. ThreadsEnd'
      <3>1. CASE MakeSessions(p)
        <4>1. thread'[p] = "running"
          BY <3>1 DEF MakeSessions, TypeOK
        <4>2. QED
          BY <2>1, <2>3, <4>1 DEF Orderly, ThreadsEnd, Busy
      <3>2. CASE MakeThrows(p)
        <4>1. thread[p] = "making" /\ thread'[p] = "failed"
          BY <3>2 DEF MakeThrows, TypeOK
        <4>2. QED
          BY <2>1, <2>3, <4>1 DEF Orderly, ThreadsEnd, Busy
      <3>3. CASE ThreadEnds(p)
        <4>1. /\ thread'[p] = "ended" /\ ~Busy(p)
              /\ \/ p \in stopped
                 \/ \A s \in Session : PortOf(s) = p => place[s] = "gone"
          BY <3>3 DEF ThreadEnds, TypeOK
        <4>2. QED
          BY <2>1, <2>3, <4>1 DEF Orderly, ThreadsEnd, Busy
      <3>4. QED
        BY <1>3, <3>1, <3>2, <3>3 DEF Thread
    <2>5. MainEndsLast'
      BY <2>1, <2>3 DEF Orderly, MainEndsLast
    <2>6. MonitorWaits'
      BY <2>1 DEF Orderly, MonitorWaits
    <2>7. QED
      BY <2>2, <2>4, <2>5, <2>6 DEF Orderly
  <1>4. CASE Monitor
    <2>1. /\ UNCHANGED <<place, completed, thread, stopped, main>>
          /\ stop => stop'
          /\ monitor # "ended"
      BY <1>4 DEF Monitor, MonitorConnected, MonitorReturns, MonitorStopped,
                  MonitorFindsNone, MonitorStops, MonitorGoes, counters
    <2>2. MainEndsLast'
      BY <2>1 DEF Orderly, MainEndsLast
    <2>3. MonitorWaits'
      BY <1>4, <2>1 DEF Monitor, MonitorConnected, MonitorReturns, MonitorStopped,
                  MonitorFindsNone, MonitorStops, MonitorGoes, Orderly, MonitorWaits
    <2>4. QED
      BY <1>2, <2>1, <2>2, <2>3 DEF Orderly
  <1>5. CASE Interrupt \/ UNCHANGED vars
    <2>1. /\ UNCHANGED <<place, completed, thread, stopped, monitor, main>>
          /\ stop => stop'
      BY <1>5 DEF Interrupt, vars, counters
    <2>2. MainEndsLast' /\ MonitorWaits'
      BY <2>1 DEF Orderly, MainEndsLast, MonitorWaits
    <2>3. QED
      BY <1>2, <2>1, <2>2 DEF Orderly
  <1>6. CASE Main
    <2>1. UNCHANGED <<place, completed, thread, stop, monitor>>
      BY <1>6 DEF Main, StopContext, MainEnds, counters
    <2>2. stopped \subseteq stopped'
      BY <1>6 DEF Main, StopContext, MainEnds
    <2>3. MonitorWaits'
      BY <2>1 DEF Orderly, MonitorWaits
    <2>4. MainEndsLast'
      <3>1. CASE MainEnds
        BY <2>1, <3>1 DEF MainEnds, Orderly, MainEndsLast
      <3>2. ASSUME NEW p \in Port, StopContext(p)
            PROVE  MainEndsLast'
        <4>1. /\ stop /\ main = "waiting" /\ main' = main
              /\ \A q \in 1 .. p - 1 : q \in stopped
              /\ stopped' = stopped \cup {p}
          BY <3>2 DEF StopContext
        <4>2. QED
          BY <2>1, <4>1 DEF Orderly, MainEndsLast
      <3>3. QED
        BY <1>6, <3>1, <3>2 DEF Main
    <2>5. QED
      BY <1>2, <2>1, <2>2, <2>3, <2>4 DEF Orderly
  <1>7. QED
    BY <1>1, <1>3, <1>4, <1>5, <1>6 DEF Next

LEMMA OrderlyKept == Spec => []Orderly
  <1>1. Init => Orderly
    BY DEF Init, Orderly, OneHandler, ThreadsEnd, MainEndsLast, MonitorWaits,
           Counting
  <1>2. QED
    BY <1>1, OrderlyInductive, TypeCorrect, PTL DEF Spec

\* Sizes of sets of sessions.
LEMMA AtSplits ==
  ASSUME NEW P, NEW Q, NEW R,
         \A s \in Session : place[s] \in P <=> place[s] \in Q \/ place[s] \in R,
         \A s \in Session : ~(place[s] \in Q /\ place[s] \in R)
  PROVE  At(P) = At(Q) + At(R)
  <1> DEFINE S == {s \in Session : place[s] \in P}
             T == {s \in Session : place[s] \in Q}
             U == {s \in Session : place[s] \in R}
  <1>1. S \cap T = T /\ S \ T = U
    OBVIOUS
  <1>2. IsFiniteSet(S) /\ IsFiniteSet(T) /\ IsFiniteSet(U)
    BY Sessions, FS_Subset
  <1> HIDE DEF S, T, U
  <1>3. Cardinality(S \ T) = Cardinality(S) - Cardinality(S \cap T)
    BY <1>2, FS_Difference
  <1>4. /\ Cardinality(S) \in Nat /\ Cardinality(T) \in Nat
        /\ Cardinality(U) \in Nat
    BY <1>2, FS_CardinalityType
  <1>5. Cardinality(U) = Cardinality(S) - Cardinality(T)
    BY <1>1, <1>3
  <1>6. Cardinality(S) = Cardinality(T) + Cardinality(U)
    BY <1>4, <1>5
  <1>7. QED
    BY <1>6 DEF At, S, T, U

(* The thread of a port is in one handler at a time; it ends between two   *)
(* of them, stopped or with none of its sessions left, or by an exception  *)
(* before the first of them, and then none of its sessions is handled;     *)
(* and main has stopped every io_context and joined every thread when it   *)
(* ends.                                                                   *)
THEOREM ThreadsOrderly == Spec => [](OneHandler /\ ThreadsEnd /\ MainEndsLast)
  <1>1. Orderly => OneHandler /\ ThreadsEnd /\ MainEndsLast
    BY DEF Orderly
  <1>2. QED
    BY <1>1, OrderlyKept, PTL

(* stop () of an io_context lets the handler in progress finish, which has *)
(* at most two counters to update, and no other begin.                     *)
THEOREM StopRunsDown == Spec => [][PortStops]_vars
  <1>1. TypeOK /\ Orderly /\ [Next]_vars => [PortStops]_vars
    <2> SUFFICES ASSUME TypeOK, Next, NEW u \in Session, PortOf(u) \in stopped
                 PROVE  /\ PortOf(u) \in stopped'
                        /\ place'[u] = place[u] \/ ToCount(u)' < ToCount(u)
      BY DEF PortStops
    <2>1. ASSUME NEW s \in Session, Handles(s) \/ CoHandles(s) \/ Counts(s)
          PROVE  /\ PortOf(u) \in stopped'
                 /\ place'[u] = place[u] \/ ToCount(u)' < ToCount(u)
      <3>1. UNCHANGED stopped /\ (Begins(s) \/ Continues(s))
        BY <2>1, SessionSteps
      <3>2. u # s => place'[u] = place[u]
        BY <3>1 DEF Begins, Continues, TypeOK
      <3>3. u = s => Continues(u)
        BY <3>1 DEF Begins
      <3>4. ASSUME Continues(u) PROVE ToCount(u)' < ToCount(u)
        <4>1. CASE place[u] = "broken"
          <5>1. place'[u] \in {"dropping", "failing"}
            BY <3>4, <4>1 DEF Continues, TypeOK
          <5>2. QED
            BY <4>1, <5>1 DEF ToCount, Counting
        <4>2. CASE place[u] \in Counting \ {"broken"}
          <5>1. place'[u] \in {"writing", "gone"}
            BY <3>4, <4>2 DEF Continues, TypeOK
          <5>2. QED
            BY <4>2, <5>1 DEF ToCount, Counting
        <4>3. QED
          BY <3>4, <4>1, <4>2 DEF Continues
      <3>5. QED
        BY <3>1, <3>2, <3>3, <3>4
    <2>2. ASSUME UNCHANGED place, stopped \subseteq stopped'
          PROVE  /\ PortOf(u) \in stopped'
                 /\ place'[u] = place[u] \/ ToCount(u)' < ToCount(u)
      BY <2>2
    <2>3. CASE \/ \E p \in Port : Thread(p)
               \/ Monitor \/ Interrupt \/ Main
      BY <2>2, <2>3 DEF Thread, MakeSessions, MakeThrows, ThreadEnds, Monitor, MonitorConnected, MonitorReturns,
                  MonitorStopped, MonitorFindsNone, MonitorStops, MonitorGoes,
                  Interrupt, Main, StopContext, MainEnds
    <2>4. QED
      BY <2>1, <2>3 DEF Next
  <1>2. QED
    BY <1>1, TypeCorrect, OrderlyKept, PTL DEF Spec

(* When the monitor ends the program because connected is 0, nobody writes *)
(* or reads, and fewer attempts than ports have yet to be over, or never   *)
(* will be because the thread that was to make them failed; a connection   *)
(* just made may be missed, one for each port at the most, since its       *)
(* handler has not counted it.                                             *)
THEOREM MonitorGivesUp == Spec => [][GivesUp]_vars
  <1>1. Inv /\ Orderly /\ [Next]_vars => [GivesUp]_vars
    <2> SUFFICES ASSUME Inv, Orderly, MonitorFindsNone PROVE GivesUp
      BY DEF GivesUp
    <2>1. connected = 0 /\ monitor = "polling"
      BY DEF MonitorFindsNone, MonitorGoes
    <2>2. place \in [Session -> Place]
      BY DEF Inv, TypeOK
    <2>3. ASSUME NEW s \in Session
          PROVE  place[s] \in {"connecting", "completed", "refused", "failing", "gone"}
      <3>1. At(Connected) = 0
        BY <2>1 DEF Inv, CountersExact, Connected
      <3>2. IsFiniteSet({u \in Session : place[u] \in Connected})
        BY Sessions, FS_Subset
      <3>3. {u \in Session : place[u] \in Connected} = {}
        BY <3>1, <3>2, FS_EmptySet DEF At
      <3>4. place[s] \notin Connected
        BY <3>3
      <3>5. QED
        BY <2>2, <3>4 DEF Connected, Place
    <2>4. ASSUME ~stop PROVE At({"connecting"}) < Ports
      <3>1. completed >= connections
        BY <2>1, <2>4 DEF Orderly, MonitorWaits
      <3>2. At(Place) = At({"connecting"}) + At(Attempted)
        <4>1. \A s \in Session : place[s] \in Place <=>
                 place[s] \in {"connecting"} \/ place[s] \in Attempted
          BY <2>2 DEF Place, Attempted
        <4>2. \A s \in Session : ~(place[s] \in {"connecting"} /\ place[s] \in Attempted)
          BY DEF Attempted
        <4>3. QED
          BY <4>1, <4>2, AtSplits
      <3>3. completed = At(Attempted)
        BY DEF Inv, CountersExact, Attempted
      <3>4. /\ At(Place) <= Ports * Conns /\ At(Place) \in Nat
            /\ At({"connecting"}) \in Nat /\ At(Attempted) \in Nat
        BY AtType
      <3>5. /\ Ports * Conns < connections + Ports /\ Ports * Conns \in Nat
            /\ connections \in Nat /\ Ports \in Nat
        BY ConnsType, ClientAssumption
      <3>6. QED
        BY <3>1, <3>2, <3>3, <3>4, <3>5
    <2>5. QED
      BY <2>3, <2>4 DEF GivesUp
  <1>2. QED
    BY <1>1, Invariance, OrderlyKept, PTL DEF Spec

\* All threads are over and nobody has stopped the program.
RunOut == ~stop /\ \A p \in Port : thread[p] \in {"ended", "failed"}

(* The first loop of the monitor waits for attempts that will never come   *)
(* only if a thread failed to make its sessions: when all threads are over *)
(* by themselves and none has failed, completed has reached connections,   *)
(* whatever became of the attempts; and a program short of it waits for    *)
(* the user.                                                               *)
THEOREM ShortOnlyAfterFailure ==
  Spec => [](RunOut => \/ completed >= connections
                       \/ /\ \E p \in Port : thread[p] = "failed"
                          /\ monitor = "connecting")
  <1> DEFINE Short == RunOut => \/ completed >= connections
                                \/ /\ \E p \in Port : thread[p] = "failed"
                                   /\ monitor = "connecting"
  <1>1. Inv /\ Orderly => Short
    <2> SUFFICES ASSUME Inv, Orderly, RunOut, ~(completed >= connections)
                 PROVE  /\ \E p \in Port : thread[p] = "failed"
                        /\ monitor = "connecting"
      OBVIOUS
    <2>1. monitor = "connecting"
      BY DEF RunOut, Orderly, MonitorWaits, Inv, TypeOK
    <2>2. ASSUME \A p \in Port : thread[p] # "failed"
          PROVE  FALSE
      <3>1. ASSUME NEW s \in Session
            PROVE  place[s] \in Attempted
        <4>1. PortOf(s) \in Port
          BY DEF PortOf, Session
        <4>2. thread[PortOf(s)] = "ended" /\ PortOf(s) \notin stopped
          BY <2>2, <4>1 DEF RunOut, Orderly, MainEndsLast
        <4>3. place[s] = "gone"
          BY <4>1, <4>2 DEF Orderly, ThreadsEnd
        <4>4. QED
          BY <4>3 DEF Attempted
      <3>2. {s \in Session : place[s] \in Attempted} = Session
        BY <3>1
      <3>3. At(Attempted) = Ports * Conns
        BY <3>2, Sessions DEF At
      <3>4. completed = At(Attempted)
        BY DEF Inv, CountersExact, Attempted
      <3>5. connections <= Ports * Conns
        BY ConnsType
      <3>6. completed \in Nat /\ connections \in Nat
        BY ClientAssumption DEF Inv, TypeOK
      <3>7. QED
        BY <3>3, <3>4, <3>5, <3>6
    <2>3. QED
      BY <2>1, <2>2
  <1> HIDE DEF Short
  <1>2. Spec => []Short
    BY <1>1, Invariance, OrderlyKept, PTL
  <1>3. QED
    BY <1>2 DEF Short

(* When no thread is in a handler, and so when the program has ended, the  *)
(* counters add up: completed = connected + failed.                        *)
THEOREM CountersAddUp ==
  Spec => [](AddUp /\ (main = "ended" => completed = connected + failed))
  <1>1. Inv => AddUp
    <2> SUFFICES ASSUME Inv, \A p \in Port : ~Busy(p)
                 PROVE  completed = connected + failed
      BY DEF AddUp
    <2>1. ASSUME NEW s \in Session
          PROVE  place[s] \in {"connecting", "writing", "reading", "waiting", "gone"}
      <3>1. PortOf(s) \in Port
        BY DEF PortOf, Session
      <3>2. place[s] \notin Counting /\ place[s] \in Place
        BY <3>1 DEF Busy, Inv, TypeOK
      <3>3. QED
        BY <3>2 DEF Counting, Place
    <2>2. /\ \A s \in Session : place[s] \in Attempted <=>
                 place[s] \in Connected \/ place[s] \in Failed
          /\ \A s \in Session : ~(place[s] \in Connected /\ place[s] \in Failed)
      BY <2>1 DEF Attempted, Connected, Failed
    <2>3. At(Attempted) = At(Connected) + At(Failed)
      BY <2>2, AtSplits
    <2>4. QED
      BY <2>3 DEF Inv, CountersExact, Attempted, Connected, Failed
  <1>2. Orderly /\ main = "ended" => \A p \in Port : ~Busy(p)
    BY DEF Orderly, MainEndsLast, ThreadsEnd, Busy, Counting
  <1>3. Inv /\ Orderly => AddUp /\ (main = "ended" => completed = connected + failed)
    BY <1>1, <1>2 DEF AddUp
  <1>4. QED
    BY <1>3, Invariance, OrderlyKept, PTL
=============================================================================
