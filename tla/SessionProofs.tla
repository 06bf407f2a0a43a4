--------------------------- MODULE SessionProofs ---------------------------
(***************************************************************************)
(* Theorems about the sessions of the servers, EchoSession, CoSession and  *)
(* ProxySession, for every timeout, any number of queued handlers and      *)
(* every order in which they run.                                          *)
(*                                                                         *)
(* Time only counts down: left + idle, the ticks until the deadline and    *)
(* those since the last operation, never falls below Timeout, because      *)
(* whoever starts an operation also puts the deadline off.                 *)
(***************************************************************************)
EXTENDS EchoSession, Sequences, SequenceTheorems, FiniteSets, FiniteSetTheorems,
        FunctionTheorems, TLAPS

(***************************************************************************)
(* EchoSession.                                                            *)
(***************************************************************************)
LEMMA TicksType ==
  /\ Timeout \in Nat /\ Timeout > 0
  /\ 0 \in Ticks /\ Timeout \in Ticks
  /\ \A n \in Ticks : n \in Nat /\ n >= 0 /\ n <= Timeout
  BY EchoAssumption DEF Ticks

LEMMA Minus1Type ==
  ASSUME NEW n \in Ticks
  PROVE  /\ Minus1(n) \in Ticks
         /\ Minus1(n) + 1 >= n
         /\ \A m \in Ticks : n <= m => Minus1(n) <= Minus1(m)
  BY EchoAssumption DEF Ticks, Minus1

\* A tick takes from the deadline at most what it adds to the idle time.
LEMMA Countdown ==
  ASSUME NEW n \in Ticks, NEW i \in Ticks, NEW j \in Ticks,
         j = i + 1 \/ j = Timeout, n + i >= Timeout
  PROVE  Minus1(n) + j >= Timeout
  <1>1. /\ n \in Nat /\ i \in Nat /\ j \in Nat /\ Timeout \in Nat
        /\ Minus1(n) \in Nat /\ Minus1(n) + 1 >= n
    BY TicksType, Minus1Type
  <1>2. CASE j = i + 1
    BY <1>1, <1>2
  <1>3. CASE j = Timeout
    BY <1>1, <1>3
  <1>4. QED
    BY <1>2, <1>3

LEMMA EchoInitial == Init => Inv
  <1> SUFFICES ASSUME Init
               PROVE  Inv
    OBVIOUS
  <1>1. TypeOK
    <2>1. waits \in 0 .. 2 /\ fired \in Nat /\ aborted \in Nat
      BY DEF Init
    <2>2. QED
      BY <2>1, TicksType DEF Init, TypeOK
  <1>2. Watched
    BY DEF Init, Watched
  <1>3. Untimed
    BY DEF Init, Untimed
  <1>4. Punctual
    BY DEF Init, Punctual
  <1>5. QED
    BY <1>1, <1>2, <1>3, <1>4 DEF Inv

\* TypeOK in three parts.
SocketOK == /\ open \in BOOLEAN
            /\ op \in {"none", "receive", "send"}
            /\ result \in {"none", "pending", "ok", "error"}
            /\ op = "none" <=> result = "none"
TimerOK == waits \in 0 .. 2 /\ tleft \in Ticks /\ fired \in Nat /\ aborted \in Nat
ClocksOK == /\ left \in Ticks /\ read \in Ticks /\ idle \in Ticks
            /\ overtaken \in BOOLEAN
StartOK == /\ withTimeout \in BOOLEAN
           /\ spc \in {"receive", "clock", "write", "check", "stop", "expire",
                       "wait", "done"}

LEMMA TypeParts == TypeOK <=> SocketOK /\ TimerOK /\ ClocksOK /\ StartOK
  BY DEF TypeOK, SocketOK, TimerOK, ClocksOK, StartOK

LEMMA TypePartsNext == TypeOK' <=> SocketOK' /\ TimerOK' /\ ClocksOK' /\ StartOK'
  BY DEF TypeOK, SocketOK, TimerOK, ClocksOK, StartOK

\* The pieces of handlers.
LEMMA BeginsType ==
  ASSUME SocketOK, NEW o \in {"receive", "send"}, Begins(o)
  PROVE  SocketOK'
  BY DEF SocketOK, Begins

LEMMA ArmTimerType ==
  ASSUME TimerOK, NEW n \in Ticks, NEW f \in Nat, ArmTimer(n, f, aborted)
  PROVE  TimerOK'
  BY DEF TimerOK, ArmTimer

LEMMA StopType ==
  ASSUME SocketOK, TimerOK, NEW f \in Nat,
         \/ Stop(op, result, f, aborted)
         \/ Stop("none", "none", f, aborted)
  PROVE  SocketOK' /\ TimerOK'
  <1>1. SocketOK'
    BY DEF SocketOK, Stop, CloseSocket
  <1>2. waits' = 0 /\ tleft' = tleft /\ fired' = f /\ aborted' = aborted + waits
    BY DEF Stop, CancelTimer
  <1>3. aborted' \in Nat /\ waits' \in 0 .. 2
    BY <1>2 DEF TimerOK
  <1>4. TimerOK'
    BY <1>2, <1>3 DEF TimerOK
  <1>5. QED
    BY <1>1, <1>4

LEMMA WatchdogType ==
  ASSUME SocketOK, TimerOK, ClocksOK, NEW f \in Nat, Watchdog(f)
  PROVE  SocketOK' /\ TimerOK'
  <1>1. CASE left = 0
    BY <1>1, StopType DEF Watchdog
  <1>2. CASE left # 0
    <2>1. TimerOK'
      BY <1>2, ArmTimerType DEF Watchdog, ClocksOK
    <2>2. SocketOK'
      BY <1>2 DEF Watchdog, SocketOK, socket
    <2>3. QED
      BY <2>1, <2>2
  <1>3. QED
    BY <1>1, <1>2

\* A session that the watchdog leaves open is watched.
LEMMA WatchdogWatches ==
  ASSUME NEW f \in Nat, Watchdog(f), open'
  PROVE  open /\ op' = op /\ waits' = 1 /\ tleft' = left
  BY DEF Watchdog, Stop, CloseSocket, ArmTimer, socket

\* What the statements of start () preserve.
LEMMA EchoStart ==
  ASSUME Inv, Start
  PROVE  Inv'
  <1> USE TicksType DEF Inv
  <1>1. CASE StartReceive
    <2> USE <1>1 DEF StartReceive, Begins, timer
    <2>1. TypeOK'
      BY DEF TypeOK
    <2>2. Watched'
      BY DEF TypeOK, Watched
    <2>3. Untimed'
      BY DEF TypeOK, Untimed
    <2>4. Punctual'
      BY DEF TypeOK, Punctual, Untimed
    <2>5. QED
      BY <2>1, <2>2, <2>3, <2>4
  <1>2. CASE StartClock
    <2> USE <1>2 DEF StartClock, socket, timer
    <2>1. TypeOK'
      BY DEF TypeOK
    <2>2. Watched'
      BY DEF TypeOK, Watched
    <2>3. Untimed'
      BY DEF TypeOK, Untimed
    <2>4. Punctual'
      BY DEF TypeOK, Punctual, Untimed
    <2>5. QED
      BY <2>1, <2>2, <2>3, <2>4
  <1>3. CASE StartWrite
    <2> USE <1>3 DEF StartWrite, socket, timer
    <2>1. TypeOK'
      BY DEF TypeOK
    <2>2. Watched'
      BY DEF TypeOK, Watched
    <2>3. Untimed'
      BY DEF TypeOK, Untimed
    <2>4. Punctual'
      BY DEF TypeOK, Punctual, Untimed
    <2>5. QED
      BY <2>1, <2>2, <2>3, <2>4
  <1>4. CASE StartCheck
    <2> USE <1>4 DEF StartCheck, socket, timer, clocks
    <2>1. TypeOK'
      BY DEF TypeOK
    <2>2. Watched'
      BY DEF TypeOK, Watched
    <2>3. Untimed'
      BY DEF TypeOK, Untimed
    <2>4. Punctual'
      BY DEF TypeOK, Punctual, Untimed
    <2>5. QED
      BY <2>1, <2>2, <2>3, <2>4
  <1>5. CASE StartStop
    <2>1. TypeOK'
      <3>1. SocketOK' /\ TimerOK'
        BY <1>5, TypeParts, StopType DEF StartStop, TimerOK
      <3>2. ClocksOK' /\ StartOK'
        BY <1>5, TypeParts DEF StartStop, ClocksOK, StartOK, clocks
      <3>3. QED
        BY <3>1, <3>2, TypePartsNext
    <2> USE <1>5 DEF StartStop, Stop, CloseSocket, CancelTimer, clocks
    <2>2. Watched'
      BY DEF Watched
    <2>3. Untimed'
      BY DEF TypeOK, Untimed
    <2>4. Punctual'
      BY DEF TypeOK, Punctual
    <2>5. QED
      BY <2>1, <2>2, <2>3, <2>4
  <1>6. CASE StartExpire
    <2> USE <1>6 DEF StartExpire, socket, clocks
    <2>1. TypeOK'
      <3>1. TimerOK'
        BY TypeParts DEF TimerOK, ClocksOK
      <3>2. SocketOK' /\ ClocksOK' /\ StartOK'
        BY TypeParts DEF SocketOK, ClocksOK, StartOK
      <3>3. QED
        BY <3>1, <3>2, TypePartsNext
    <2>2. Watched'
      BY DEF TypeOK, Watched
    <2>3. Untimed'
      BY DEF TypeOK, Untimed
    <2>4. Punctual'
      BY DEF TypeOK, Punctual
    <2>5. QED
      BY <2>1, <2>2, <2>3, <2>4
  <1>7. CASE StartWait
    <2> USE <1>7 DEF StartWait, socket, clocks
    <2>1. TypeOK'
      <3>1. waits' \in 0 .. 2
        BY DEF TypeOK, Untimed
      <3>2. QED
        BY <3>1 DEF TypeOK
    <2>2. Watched'
      BY DEF TypeOK, Watched
    <2>3. Untimed'
      BY DEF TypeOK, Untimed
    <2>4. Punctual'
      BY DEF TypeOK, Punctual
    <2>5. QED
      BY <2>1, <2>2, <2>3, <2>4
  <1>8. QED
    BY <1>1, <1>2, <1>3, <1>4, <1>5, <1>6, <1>7 DEF Start

\* What the handlers on the strand preserve.
LEMMA EchoHandlers ==
  ASSUME Inv, RunSocket \/ RunTimer \/ RunAborted
  PROVE  Inv'
  <1> USE TicksType DEF Inv
  <1>1. CASE RunSocket
    <2>1. TypeOK'
      <3>1. Other(op) \in {"receive", "send"}
        BY DEF Other
      <3>2. SocketOK' /\ TimerOK'
        BY <1>1, <3>1, TypeParts, BeginsType, ArmTimerType, StopType
           DEF RunSocket, TimerOK, timer
      <3>3. ClocksOK'
        BY <1>1, TypeParts DEF RunSocket, Begins, ClocksOK, clocks
      <3>4. StartOK'
        BY <1>1, TypeParts DEF RunSocket, StartOK, start
      <3>5. QED
        BY <3>2, <3>3, <3>4, TypePartsNext
    <2> USE <1>1 DEF RunSocket, Begins, Stop, CloseSocket, CancelTimer,
                     ArmTimer, NewDeadline, Other, MidStart, start, timer, clocks
    <2>2. Watched'
      <3>1. CASE result = "error"
        BY <3>1 DEF Watched
      <3>2. CASE result = "ok" /\ withTimeout
        BY <3>2 DEF Watched
      <3>3. CASE result = "ok" /\ ~withTimeout
        <4>1. /\ left' = Timeout /\ tleft' = tleft /\ open' = open /\ op' # "none"
              /\ UNCHANGED <<spc, waits, fired>>
          BY <3>3
        <4>2. tleft' <= left'
          BY <4>1, TicksType DEF TypeOK
        <4>3. QED
          BY <4>1, <4>2 DEF Watched
      <3>4. QED
        BY <3>1, <3>2, <3>3
    <2>3. Untimed'
      BY DEF TypeOK, Untimed
    <2>4. Punctual'
      <3>1. CASE result = "error"
        BY <3>1 DEF Punctual
      <3>2. CASE result = "ok" /\ withTimeout
        BY <3>2 DEF Punctual
      <3>3. CASE result = "ok" /\ ~withTimeout
        <4>1. withTimeout' = withTimeout /\ left' + idle' >= Timeout
          BY <3>3
        <4>2. spc' \in {"write", "stop"} => overtaken'
          BY <3>3
        <4>3. QED
          BY <3>3, <4>1, <4>2 DEF Punctual
      <3>4. QED
        BY <3>1, <3>2, <3>3
    <2>5. QED
      BY <2>1, <2>2, <2>3, <2>4
  <1>2. CASE RunTimer
    <2>1. TypeOK'
      <3>1. fired - 1 \in Nat
        BY <1>2, TypeParts DEF RunTimer, TimerOK
      <3>2. SocketOK' /\ TimerOK'
        BY <1>2, <3>1, TypeParts, StopType, WatchdogType DEF RunTimer
      <3>3. ClocksOK' /\ StartOK'
        BY <1>2, TypeParts DEF RunTimer, ClocksOK, StartOK, start, clocks
      <3>4. QED
        BY <3>2, <3>3, TypePartsNext
    <2> USE <1>2 DEF RunTimer, Watchdog, Stop, CloseSocket, CancelTimer,
                     ArmTimer, start, socket, clocks
    <2>2. Watched'
      <3>1. CASE withTimeout
        BY <3>1 DEF Watched
      <3>2. CASE ~withTimeout
        <4>1. fired - 1 \in Nat
          BY DEF TypeOK
        <4>2. open' => open /\ op' = op /\ waits' = 1 /\ tleft' = left
          BY <3>2, <4>1, WatchdogWatches
        <4>3. left' = left /\ left \in Ticks
          BY DEF TypeOK
        <4>4. QED
          BY <4>2, <4>3, TicksType DEF Watched
      <3>3. QED
        BY <3>1, <3>2
    <2>3. Untimed'
      BY DEF TypeOK, Untimed
    <2>4. Punctual'
      BY DEF TypeOK, Punctual, Untimed
    <2>5. QED
      BY <2>1, <2>2, <2>3, <2>4
  <1>3. CASE RunAborted
    <2> USE <1>3 DEF RunAborted, start, socket, clocks
    <2>1. TypeOK'
      BY DEF TypeOK
    <2>2. Watched' /\ Untimed' /\ Punctual'
      BY DEF Watched, Untimed, Punctual
    <2>3. QED
      BY <2>1, <2>2
  <1>4. QED
    BY <1>1, <1>2, <1>3

\* What the peer, the io_context and time preserve.
LEMMA EchoWorld ==
  ASSUME Inv, SocketCompletes \/ TimerExpires \/ Tick
  PROVE  Inv'
  <1> USE TicksType DEF Inv
  <1>1. CASE SocketCompletes
    <2> USE <1>1 DEF SocketCompletes, start, timer, clocks
    <2>1. TypeOK'
      BY DEF TypeOK
    <2>2. Watched' /\ Untimed' /\ Punctual'
      BY DEF Watched, Untimed, Punctual
    <2>3. QED
      BY <2>1, <2>2
  <1>2. CASE TimerExpires
    <2>1. TypeOK'
      <3>1. TimerOK'
        <4>1. /\ waits' = 0 /\ fired' = fired + waits
              /\ tleft' = tleft /\ aborted' = aborted
          BY <1>2 DEF TimerExpires
        <4>2. /\ tleft \in Ticks /\ fired \in Nat /\ aborted \in Nat
              /\ waits \in 0 .. 2
          BY TypeParts DEF TimerOK
        <4>3. fired' \in Nat /\ waits' \in 0 .. 2
          BY <4>1, <4>2
        <4>4. QED
          BY <4>1, <4>2, <4>3 DEF TimerOK
      <3>2. SocketOK' /\ ClocksOK' /\ StartOK'
        BY <1>2, TypeParts
           DEF TimerExpires, SocketOK, ClocksOK, StartOK, start, socket, clocks
      <3>3. QED
        BY <3>1, <3>2, TypePartsNext
    <2> USE <1>2 DEF TimerExpires, start, socket, clocks
    <2>2. Watched'
      BY DEF TypeOK, Watched
    <2>3. Untimed' /\ Punctual'
      BY DEF Untimed, Punctual
    <2>4. QED
      BY <2>1, <2>2, <2>3
  <1>3. CASE Tick
    <2>1. TypeOK'
      <3>1. TimerOK'
        BY <1>3, Minus1Type, TypeParts DEF Tick, TimerOK
      <3>2. left' \in Ticks /\ read' \in Ticks
        BY <1>3, Minus1Type, TypeParts DEF Tick, ClocksOK
      <3>3. idle' \in Ticks
        BY <1>3, TypeParts DEF Tick, ClocksOK, Ticks
      <3>4. SocketOK' /\ StartOK' /\ overtaken' \in BOOLEAN
        BY <1>3, TypeParts DEF Tick, ClocksOK, SocketOK, StartOK, start, socket
      <3>5. QED
        BY <3>1, <3>2, <3>3, <3>4, TypePartsNext DEF ClocksOK
    <2> USE <1>3 DEF Tick, start, socket
    <2>2. Watched'
      <3>1. tleft <= left => tleft' <= left'
        BY Minus1Type DEF TypeOK
      <3>2. QED
        BY <3>1 DEF Watched
    <2>3. Untimed'
      BY DEF Untimed
    <2>4. Punctual'
      <3>1. /\ idle \in Ticks /\ idle' \in Ticks
            /\ idle' = idle + 1 \/ idle' = Timeout
        BY <2>1 DEF TypeOK
      <3>2. \A n \in Ticks : n + idle >= Timeout => Minus1(n) + idle' >= Timeout
        BY <3>1, Countdown
      <3>3. left \in Ticks /\ read \in Ticks /\ tleft \in Ticks
        BY DEF TypeOK
      <3>4. left = 0 => left' = 0
        BY DEF Minus1
      <3>5. QED
        BY <3>2, <3>3, <3>4 DEF Punctual
    <2>5. QED
      BY <2>1, <2>2, <2>3, <2>4
  <1>4. QED
    BY <1>1, <1>2, <1>3

\* Every step preserves the invariant.
LEMMA EchoInductive == Inv /\ [Next]_vars => Inv'
  <1> SUFFICES ASSUME Inv, [Next]_vars
               PROVE  Inv'
    OBVIOUS
  <1>1. CASE UNCHANGED vars
    BY <1>1 DEF vars, start, socket, timer, clocks, Inv, TypeOK, Watched,
                Untimed, Punctual
  <1>2. CASE Next
    BY <1>2, EchoStart, EchoHandlers, EchoWorld DEF Next
  <1>3. QED
    BY <1>1, <1>2

(* A session of the echo server is never forgotten while it is open, and   *)
(* its deadline and its timer are set for the operation it waits for.      *)
THEOREM EchoInvariance == Spec => []Inv
  BY EchoInitial, EchoInductive, PTL DEF Spec

(* The variables keep their types.                                         *)
THEOREM EchoTypeCorrect == Spec => []TypeOK
  <1>1. Inv => TypeOK
    BY DEF Inv
  <1>2. QED
    BY <1>1, EchoInvariance, PTL

(* An open session has an operation outstanding, and once start () has     *)
(* returned the timer is waited on or its handler is queued.               *)
THEOREM EchoWatched == Spec => []Watched
  <1>1. Inv => Watched
    BY DEF Inv
  <1>2. QED
    BY <1>1, EchoInvariance, PTL

(* The watchdog closes the session only when it has started nothing for    *)
(* Timeout, unless a handler overtook start () in one of its two windows:  *)
(* as it assigned deadline_, or between its check of it and its stop ().   *)
THEOREM EchoClosedWhenIdle == Spec => ClosedWhenIdle
  <1> DEFINE Fair == open /\ ~open' /\ op' = op =>
                       withTimeout \/ overtaken \/ idle = Timeout
  <1>1. Inv /\ [Next]_vars => [Fair]_vars
    <2> SUFFICES ASSUME Inv, Next, open, ~open', op' = op,
                        ~withTimeout, ~overtaken
                 PROVE  idle = Timeout
      BY DEF Fair
    <2>1. left = 0 /\ spc \in {"stop", "done"} => idle = Timeout
      BY TicksType DEF Inv, TypeOK, Punctual
    <2>2. CASE StartStop
      BY <2>1, <2>2 DEF StartStop, Inv, Punctual
    <2>3. CASE RunSocket
      <3>1. op # "none"
        BY <2>3 DEF RunSocket, Inv, TypeOK
      <3>2. QED
        BY <2>3, <3>1 DEF RunSocket, Stop, CloseSocket, Begins
    <2>4. CASE RunTimer
      <3>1. spc = "done"
        BY <2>4 DEF RunTimer, Inv, TypeOK, Untimed
      <3>2. QED
        BY <2>1, <2>4, <3>1 DEF RunTimer, Watchdog, socket
    <2>5. QED
      BY <2>2, <2>3, <2>4
         DEF Next, Start, StartReceive, StartClock, StartWrite, StartCheck,
             StartExpire, StartWait, Begins, RunAborted, SocketCompletes,
             TimerExpires, Tick, socket
  <1>2. QED
    BY <1>1, EchoInvariance, PTL DEF Spec, ClosedWhenIdle

(* In timeout mode the timer expires only when the operation it was set    *)
(* for has lasted for Timeout.                                             *)
THEOREM EchoExpiresWhenIdle == Spec => ExpiresWhenIdle
  <1> DEFINE Fair == withTimeout /\ fired' > fired => idle = Timeout
  <1>1. Inv /\ [Next]_vars => [Fair]_vars
    <2> SUFFICES ASSUME Inv, Next, withTimeout, fired' > fired
                 PROVE  idle = Timeout
      BY DEF Fair
    <2>1. fired \in Nat
      BY DEF Inv, TypeOK
    <2>2. CASE TimerExpires
      BY <2>2, TicksType DEF TimerExpires, Inv, TypeOK, Punctual
    <2>3. CASE RunTimer
      BY <2>1, <2>3 DEF RunTimer, Stop, CancelTimer
    <2>4. CASE RunSocket
      BY <2>1, <2>4 DEF RunSocket, Stop, CancelTimer, ArmTimer, timer
    <2>5. CASE Start \/ RunAborted \/ SocketCompletes \/ Tick
      <3>1. fired' = fired
        BY <2>5 DEF Start, StartReceive, StartClock, StartWrite, StartCheck,
                    StartStop, StartExpire, StartWait, Stop, CancelTimer,
                    RunAborted, SocketCompletes, Tick, timer
      <3>2. QED
        BY <2>1, <3>1
    <2>6. QED
      BY <2>2, <2>3, <2>4, <2>5 DEF Next
  <1>2. QED
    BY <1>1, EchoInvariance, PTL DEF Spec, ExpiresWhenIdle

(***************************************************************************)
(* The end of a session of the echo server: what stop () leaves behind     *)
(* works itself off.  Each piece of it has a cost, the number of handlers, *)
(* expiries and statements that can still come of it.                      *)
(***************************************************************************)

\* stop () leaves nothing pending, and start () began before it.
Shut == ~open => result # "pending" /\ spc # "receive"

\* How often deadline_ may still be put off: by the handler of an operation
\* that ended well before the stop, and by start ().
Delays == (IF result = "ok" THEN 1 ELSE 0)
            + (IF spc \in {"clock", "write"} THEN 1 ELSE 0)

\* A handler of the timer that finds the deadline ahead waits once more; a
\* wait that ends before the deadline has such a handler.
FiredCost == IF withTimeout THEN 1
             ELSE (IF left > 0 THEN 3 ELSE 1) + 2 * Delays
OneWaitCost == IF withTimeout THEN 2
            ELSE (IF tleft < left THEN 4 ELSE 2) + 2 * Delays
WaitsCost == waits * OneWaitCost
SocketCost == CASE result = "ok" -> 4
                [] result = "error" -> 1
                [] OTHER -> 0
StartCost == CASE spc = "clock" -> 11
               [] spc = "write" -> 10
               [] spc = "check" -> 9
               [] spc = "expire" -> 8
               [] spc = "wait" -> 7
               [] spc = "stop" -> 1
               [] OTHER -> 0

Work == aborted + fired * FiredCost + WaitsCost + SocketCost + StartCost

LEMMA ShutInitial == Init => Shut
  BY DEF Init, Shut

LEMMA ShutInductive == Inv /\ Shut /\ [Next]_vars => Shut'
  <1> SUFFICES ASSUME Inv, Shut, [Next]_vars, ~open'
               PROVE  result' # "pending" /\ spc' # "receive"
    BY DEF Shut
  <1>1. spc' # "receive" \/ spc' = spc
    BY DEF Next, Start, StartReceive, StartClock, StartWrite, StartCheck,
           StartStop, StartExpire, StartWait, RunSocket, RunTimer, RunAborted,
           SocketCompletes, TimerExpires, Tick, vars, start
  <1>2. CASE StartReceive
    BY <1>2 DEF StartReceive, Begins
  <1>3. CASE StartStop
    BY <1>3 DEF StartStop, Stop, CloseSocket, Shut
  <1>4. CASE RunSocket
    <2>1. spc # "receive"
      BY <1>4 DEF RunSocket, Inv, TypeOK, Untimed
    <2>2. result' # "pending"
      BY <1>4 DEF RunSocket, Stop, CloseSocket, Begins
    <2>3. QED
      BY <1>1, <2>1, <2>2
  <1>5. CASE RunTimer
    <2>1. spc # "receive"
      BY <1>5 DEF RunTimer, Inv, TypeOK, Untimed
    <2>2. result' # "pending"
      BY <1>5 DEF RunTimer, Watchdog, Stop, CloseSocket, socket, Shut
    <2>3. QED
      BY <1>1, <2>1, <2>2
  <1>6. CASE \/ StartClock \/ StartWrite \/ StartCheck \/ StartExpire \/ StartWait
             \/ RunAborted \/ SocketCompletes \/ TimerExpires \/ Tick
             \/ UNCHANGED vars
    BY <1>1, <1>6 DEF StartClock, StartWrite, StartCheck, StartExpire, StartWait,
                      RunAborted, SocketCompletes, TimerExpires, Tick, vars,
                      socket, Shut
  <1>7. QED
    BY <1>2, <1>3, <1>4, <1>5, <1>6 DEF Next, Start

LEMMA Times ==
  ASSUME NEW f \in Nat, NEW c \in Nat, NEW d \in Nat, d <= c
  PROVE  /\ f * c \in Nat /\ f * d \in Nat /\ f * d <= f * c
         /\ (f + 1) * d = f * d + d
         /\ f > 0 => (f - 1) * d = f * d - d
  OBVIOUS

LEMMA SumsOrdered ==
  ASSUME NEW a \in Nat, NEW b \in Nat, NEW c \in Nat, NEW d \in Nat,
         a <= b, c <= d
  PROVE  a + c <= b + d
  OBVIOUS

LEMMA CostTypes ==
  ASSUME TypeOK
  PROVE  /\ Delays \in {0, 1, 2}
         /\ FiredCost \in 1 .. 7
         /\ OneWaitCost \in 2 .. 8 /\ WaitsCost \in Nat
         /\ waits \in Nat /\ waits + waits <= WaitsCost
         /\ waits = 0 => WaitsCost = 0
         /\ waits = 1 => WaitsCost = OneWaitCost
         /\ waits = 2 => WaitsCost = OneWaitCost + OneWaitCost
         /\ SocketCost \in {0, 1, 4}
         /\ StartCost \in {0, 1, 7, 8, 9, 10, 11}
         /\ Work \in Nat
  <1>1. Delays \in {0, 1, 2}
    BY DEF Delays
  <1>2. FiredCost \in 1 .. 7
    BY <1>1, TicksType DEF FiredCost, TypeOK
  <1>3. OneWaitCost \in 2 .. 8
    BY <1>1, TicksType DEF OneWaitCost, TypeOK
  <1>4. SocketCost \in {0, 1, 4}
    BY DEF SocketCost
  <1>5. StartCost \in {0, 1, 7, 8, 9, 10, 11}
    BY DEF StartCost
  <1>6. aborted \in Nat /\ fired \in Nat /\ waits \in 0 .. 2
    BY DEF TypeOK
  <1>7. /\ waits = 0 => WaitsCost = 0
        /\ waits = 1 => WaitsCost = OneWaitCost
        /\ waits = 2 => WaitsCost = OneWaitCost + OneWaitCost
    BY <1>3 DEF WaitsCost
  <1>8. WaitsCost \in Nat /\ waits + waits <= WaitsCost
    BY <1>3, <1>6, <1>7
  <1>9. fired * FiredCost \in Nat
    BY <1>2, <1>6, Times
  <1> DEFINE FC == fired * FiredCost
  <1> HIDE DEF FC
  <1>10. aborted + FC + WaitsCost + SocketCost + StartCost \in Nat
    BY <1>4, <1>5, <1>6, <1>8, <1>9 DEF FC
  <1>11. Work \in Nat
    BY <1>10 DEF FC, Work
  <1>12. QED
    BY <1>1, <1>2, <1>3, <1>4, <1>5, <1>6, <1>7, <1>8, <1>11

LEMMA CostTypesNext ==
  TypeOK' => (/\ Delays \in {0, 1, 2}
              /\ FiredCost \in 1 .. 7
              /\ OneWaitCost \in 2 .. 8 /\ WaitsCost \in Nat
              /\ waits \in Nat /\ waits + waits <= WaitsCost
              /\ waits = 0 => WaitsCost = 0
              /\ waits = 1 => WaitsCost = OneWaitCost
              /\ waits = 2 => WaitsCost = OneWaitCost + OneWaitCost
              /\ SocketCost \in {0, 1, 4}
              /\ StartCost \in {0, 1, 7, 8, 9, 10, 11}
              /\ Work \in Nat)'
  <1>1. TypeOK => /\ Delays \in {0, 1, 2}
                  /\ FiredCost \in 1 .. 7
                  /\ OneWaitCost \in 2 .. 8 /\ WaitsCost \in Nat
                  /\ waits \in Nat /\ waits + waits <= WaitsCost
                  /\ waits = 0 => WaitsCost = 0
                  /\ waits = 1 => WaitsCost = OneWaitCost
                  /\ waits = 2 => WaitsCost = OneWaitCost + OneWaitCost
                  /\ SocketCost \in {0, 1, 4}
                  /\ StartCost \in {0, 1, 7, 8, 9, 10, 11}
                  /\ Work \in Nat
    BY CostTypes
  <1>2. QED
    BY <1>1, PTL

\* What is left to do besides the handlers of the timer that are queued.
Rest == aborted + WaitsCost + SocketCost + StartCost

LEMMA RestType ==
  ASSUME TypeOK
  PROVE  /\ Rest \in Nat /\ fired \in Nat /\ FiredCost \in Nat
         /\ Work = Rest + fired * FiredCost
  <1> DEFINE FC == fired * FiredCost
  <1>1. /\ aborted \in Nat /\ WaitsCost \in Nat /\ SocketCost \in Nat
        /\ StartCost \in Nat /\ FiredCost \in Nat /\ fired \in Nat
    BY CostTypes DEF TypeOK
  <1>2. FC \in Nat
    BY <1>1, Times
  <1>3. Work = aborted + FC + WaitsCost + SocketCost + StartCost
    BY DEF Work
  <1> HIDE DEF FC
  <1>4. Rest \in Nat /\ Work = Rest + FC
    BY <1>1, <1>2, <1>3 DEF Rest
  <1>5. QED
    BY <1>1, <1>4 DEF FC

LEMMA RestTypeNext ==
  TypeOK' => (/\ Rest \in Nat /\ fired \in Nat /\ FiredCost \in Nat
              /\ Work = Rest + fired * FiredCost)'
  <1>1. TypeOK => /\ Rest \in Nat /\ fired \in Nat /\ FiredCost \in Nat
                  /\ Work = Rest + fired * FiredCost
    BY RestType
  <1>2. QED
    BY <1>1, PTL

\* f pieces that cost c each, and r besides, become g of at most d, and q.
LEMMA LessSum ==
  ASSUME NEW f \in Nat, NEW g \in Nat, NEW c \in Nat, NEW d \in Nat,
         NEW r \in Nat, NEW q \in Nat, d <= c,
         \/ g = f /\ q < r
         \/ f > 0 /\ g = f - 1 /\ q < r + c
         \/ g = f + 1 /\ q + d < r
         \/ g = f + 2 /\ q + d + d < r
  PROVE  q + g * d < r + f * c
  <1> DEFINE a == f * c
             b == f * d
             e == g * d
  <1>1. a \in Nat /\ b \in Nat /\ e \in Nat /\ b <= a
    BY Times
  <1>2. /\ g = f => e = b
        /\ g = f + 1 => e = b + d
        /\ g = f + 2 => e = b + d + d
        /\ f > 0 /\ g = f - 1 => e = b - d /\ a - c \in Nat /\ b - d <= a - c
    <2>1. g = f => e = b
      OBVIOUS
    <2>2. g = f + 1 => e = b + d
      BY Times
    <2>3. ASSUME g = f + 2
          PROVE  e = b + d + d
      <3>1. (f + 1) * d = b + d /\ f + 1 \in Nat
        BY Times
      <3>2. ((f + 1) + 1) * d = (f + 1) * d + d
        BY <3>1, Times
      <3>3. g = (f + 1) + 1
        BY <2>3
      <3>4. QED
        BY <3>1, <3>2, <3>3
    <2>4. ASSUME f > 0, g = f - 1
          PROVE  e = b - d /\ a - c \in Nat /\ b - d <= a - c
      <3>1. (f - 1) * d = b - d /\ (f - 1) * c = a - c
        BY <2>4, Times
      <3>2. g * d <= g * c /\ g * c \in Nat
        BY Times
      <3>3. QED
        BY <2>4, <3>1, <3>2
    <2>5. QED
      BY <2>1, <2>2, <2>3, <2>4
  <1> HIDE DEF a, b, e
  <1>3. q + e < r + a
    BY <1>1, <1>2
  <1>4. QED
    BY <1>3 DEF a, e

LEMMA LessWork ==
  ASSUME TypeOK, TypeOK', FiredCost' <= FiredCost,
         \/ fired' = fired /\ Rest' < Rest
         \/ fired > 0 /\ fired' = fired - 1 /\ Rest' < Rest + FiredCost
         \/ fired' = fired + 1 /\ Rest' + FiredCost' < Rest
         \/ fired' = fired + 2 /\ Rest' + FiredCost' + FiredCost' < Rest
  PROVE  Work' < Work
  <1>1. /\ Rest \in Nat /\ fired \in Nat /\ FiredCost \in Nat
        /\ Work = Rest + fired * FiredCost
    BY RestType
  <1>2. /\ Rest' \in Nat /\ fired' \in Nat /\ FiredCost' \in Nat
        /\ Work' = Rest' + fired' * FiredCost'
    BY RestTypeNext
  <1>3. Rest' + fired' * FiredCost' < Rest + fired * FiredCost
    BY <1>1, <1>2, LessSum
  <1>4. QED
    BY <1>1, <1>2, <1>3

\* Costs in watchdog mode, seen from outside the definitions.
LEMMA WatchdogCosts ==
  ASSUME ~withTimeout, left \in Nat, tleft \in Nat
  PROVE  /\ left = 0 => FiredCost = 1 + 2 * Delays
         /\ left # 0 => FiredCost = 3 + 2 * Delays
         /\ tleft < left => OneWaitCost = 4 + 2 * Delays
         /\ ~(tleft < left) => OneWaitCost = 2 + 2 * Delays
  BY DEF FiredCost, OneWaitCost

LEMMA WatchdogCostsNext ==
  ASSUME ~withTimeout', left' \in Nat, tleft' \in Nat
  PROVE  /\ left' = 0 => FiredCost' = 1 + 2 * Delays'
         /\ left' # 0 => FiredCost' = 3 + 2 * Delays'
         /\ tleft' < left' => OneWaitCost' = 4 + 2 * Delays'
         /\ ~(tleft' < left') => OneWaitCost' = 2 + 2 * Delays'
  BY DEF FiredCost, OneWaitCost

LEMMA TimeoutCosts ==
  /\ withTimeout => FiredCost = 1 /\ OneWaitCost = 2
  /\ withTimeout' => FiredCost' = 1 /\ OneWaitCost' = 2
  BY DEF FiredCost, OneWaitCost

\* As many waits that cost no more cost no more.
LEMMA WaitsCostFalls ==
  ASSUME TypeOK, TypeOK', waits' = waits, OneWaitCost' <= OneWaitCost
  PROVE  WaitsCost' <= WaitsCost
  <1>1. waits \in {0, 1, 2}
    BY DEF TypeOK
  <1>2. QED
    BY <1>1, CostTypes, CostTypesNext

\* What start () still does.
LEMMA StartWorks ==
  ASSUME Inv, Inv', ~open, Start
  PROVE  Shut => Work' < Work
  <1> SUFFICES ASSUME Shut
               PROVE  Work' < Work
    OBVIOUS
  <1> USE DEF Shut
  <1>1. TypeOK /\ TypeOK' /\ aborted \in Nat /\ fired \in Nat /\ aborted' \in Nat
    BY DEF Inv, TypeOK
  <1>2. ~StartReceive
    BY DEF StartReceive
  <1>3. CASE StartClock \/ StartCheck
    <2>1. /\ Delays' = Delays /\ FiredCost' = FiredCost
          /\ WaitsCost' = WaitsCost /\ SocketCost' = SocketCost
      BY <1>3 DEF StartClock, StartCheck, socket, timer, clocks, Delays,
                  FiredCost, OneWaitCost, WaitsCost, SocketCost
    <2>2. /\ \/ spc = "clock" /\ spc' = "write"
             \/ spc = "check" /\ spc' \in {"stop", "expire"}
          /\ fired' = fired /\ aborted' = aborted
      BY <1>3 DEF StartClock, StartCheck, timer
    <2>3. StartCost' < StartCost
      BY <2>2 DEF StartCost
    <2>4. Rest' < Rest
      BY <1>1, <2>1, <2>2, <2>3, CostTypes, CostTypesNext DEF Rest
    <2>5. QED
      BY <1>1, <2>1, <2>2, <2>4, CostTypes, LessWork
  <1>4. CASE StartWrite
    <2>1. /\ fired' = fired /\ aborted' = aborted /\ waits' = waits
          /\ tleft' = tleft /\ withTimeout' = withTimeout /\ result' = result
          /\ spc = "write" /\ spc' = "check"
      BY <1>4 DEF StartWrite, timer, socket
    <2>2. \/ Delays' = 0 /\ Delays = 1
          \/ Delays' = 1 /\ Delays = 2
      BY <2>1 DEF Delays
    <2>3. FiredCost' <= FiredCost /\ OneWaitCost' <= OneWaitCost
      <3>1. CASE withTimeout
        BY <2>1, <3>1, TimeoutCosts
      <3>2. CASE ~withTimeout
        <4>1. /\ left \in Nat /\ tleft \in Nat
              /\ left' \in Nat /\ tleft' \in Nat
          BY <1>1, TicksType DEF TypeOK
        <4>2. FiredCost' <= FiredCost
          BY <2>1, <2>2, <3>2, <4>1, WatchdogCosts, WatchdogCostsNext
        <4>3. OneWaitCost' <= OneWaitCost
          BY <2>1, <2>2, <3>2, <4>1, WatchdogCosts, WatchdogCostsNext
        <4>4. QED
          BY <4>2, <4>3
      <3>3. QED
        BY <3>1, <3>2
    <2>4. WaitsCost' <= WaitsCost
      BY <1>1, <2>1, <2>3, WaitsCostFalls
    <2>5. StartCost' = 9 /\ StartCost = 10 /\ SocketCost' = SocketCost
      BY <2>1 DEF StartCost, SocketCost
    <2>6. Rest' < Rest
      BY <1>1, <2>1, <2>4, <2>5, CostTypes, CostTypesNext DEF Rest
    <2>7. QED
      BY <1>1, <2>1, <2>3, <2>6, LessWork
  <1>5. CASE StartStop \/ StartExpire
    <2>1. /\ left' = left /\ withTimeout' = withTimeout /\ fired' = fired
          /\ waits' = 0 /\ aborted' = aborted + waits
          /\ \/ spc = "stop" /\ spc' = "done"
             \/ spc = "expire" /\ spc' = "wait"
      BY <1>5 DEF StartStop, StartExpire, clocks, Stop, CancelTimer
    <2>2. result' = result
      BY <1>5 DEF StartStop, StartExpire, Stop, CloseSocket, socket
    <2>3. /\ Delays' = Delays /\ FiredCost' = FiredCost
          /\ SocketCost' = SocketCost
      BY <2>1, <2>2 DEF Delays, FiredCost, SocketCost
    <2>4. StartCost' < StartCost
      BY <2>1 DEF StartCost
    <2>5. WaitsCost' = 0 /\ waits \in Nat /\ waits <= WaitsCost
      BY <1>1, <2>1, CostTypes, CostTypesNext
    <2>6. Rest' < Rest
      BY <1>1, <2>1, <2>3, <2>4, <2>5, CostTypes, CostTypesNext DEF Rest
    <2>7. QED
      BY <1>1, <2>1, <2>3, <2>6, CostTypes, LessWork
  <1>6. CASE StartWait
    <2>1. /\ spc = "wait" /\ spc' = "done" /\ left' = left /\ tleft' = tleft
          /\ withTimeout' = withTimeout /\ fired' = fired /\ aborted' = aborted
          /\ result' = result /\ waits' = waits + 1
      BY <1>6 DEF StartWait, clocks, socket
    <2>2. /\ Delays' = Delays /\ Delays \in {0, 1} /\ FiredCost' = FiredCost
          /\ OneWaitCost' = OneWaitCost /\ SocketCost' = SocketCost
      BY <2>1 DEF Delays, FiredCost, OneWaitCost, SocketCost
    <2>3. StartCost' = 0 /\ StartCost = 7
      BY <2>1 DEF StartCost
    <2>4. OneWaitCost <= 6
      <3>1. left \in Nat /\ tleft \in Nat
        BY <1>1, TicksType DEF TypeOK
      <3>2. QED
        BY <2>2, <3>1, TimeoutCosts, WatchdogCosts
    <2>5. WaitsCost' <= WaitsCost + 6
      <3>1. waits \in {0, 1, 2} /\ waits' \in {0, 1, 2}
        BY <1>1 DEF TypeOK
      <3>2. QED
        BY <1>1, <2>1, <2>2, <2>4, <3>1, CostTypes, CostTypesNext
    <2>6. Rest' < Rest
      BY <1>1, <2>1, <2>2, <2>3, <2>5, CostTypes, CostTypesNext DEF Rest
    <2>7. QED
      BY <1>1, <2>1, <2>2, <2>6, CostTypes, LessWork
  <1>7. QED
    BY <1>2, <1>3, <1>4, <1>5, <1>6 DEF Start

\* What the handler of the socket does.
LEMMA SocketWorks ==
  ASSUME Inv, Inv', ~open, RunSocket
  PROVE  Work' < Work
  <1>1. TypeOK /\ TypeOK' /\ aborted \in Nat /\ fired \in Nat /\ aborted' \in Nat
    BY DEF Inv, TypeOK
  <1>2. /\ left \in Nat /\ tleft \in Nat /\ left' \in Nat /\ tleft' \in Nat
    BY <1>1, TicksType DEF TypeOK
  <1>3. spc' = spc /\ withTimeout' = withTimeout /\ StartCost' = StartCost
    BY DEF RunSocket, start, StartCost
  <1>4. CASE result = "error"
    <2>1. /\ result' = "none" /\ fired' = fired /\ waits' = 0
          /\ aborted' = aborted + waits /\ left' = left
      BY <1>4 DEF RunSocket, Stop, CloseSocket, CancelTimer, clocks
    <2>2. Delays' = Delays
      BY <1>3, <1>4, <2>1 DEF Delays
    <2>3. FiredCost' = FiredCost
      BY <1>3, <2>1, <2>2 DEF FiredCost
    <2>4. WaitsCost' = 0 /\ waits \in Nat /\ waits <= WaitsCost
      BY <1>1, <2>1, CostTypes, CostTypesNext
    <2>5. SocketCost' = 0 /\ SocketCost = 1
      BY <1>4, <2>1 DEF SocketCost
    <2>6. Rest' < Rest
      BY <1>1, <1>3, <2>1, <2>4, <2>5, CostTypes, CostTypesNext DEF Rest
    <2>7. QED
      BY <1>1, <2>1, <2>3, <2>6, CostTypes, LessWork
  <1>5. CASE result = "ok"
    <2>1. result' = "error"
      BY <1>5 DEF RunSocket, Begins
    <2>2. SocketCost' = 1 /\ SocketCost = 4
      BY <1>5, <2>1 DEF SocketCost
    <2>3. CASE withTimeout
      <3>1. waits' = 1 /\ fired' = fired /\ aborted' = aborted + waits
        BY <1>5, <2>3 DEF RunSocket, ArmTimer
      <3>2. FiredCost' = 1 /\ FiredCost = 1 /\ OneWaitCost' = 2
        BY <1>3, <2>3, TimeoutCosts
      <3>3. WaitsCost' = 2 /\ waits \in Nat /\ waits <= WaitsCost
        BY <1>1, <3>1, <3>2, CostTypes, CostTypesNext
      <3>4. Rest' < Rest
        BY <1>1, <1>3, <2>2, <3>1, <3>3, CostTypes, CostTypesNext DEF Rest
      <3>5. QED
        BY <1>1, <3>1, <3>2, <3>4, LessWork
    <2>4. CASE ~withTimeout
      <3>1. waits' = waits /\ tleft' = tleft /\ fired' = fired /\ aborted' = aborted
        BY <1>5, <2>4 DEF RunSocket, timer
      <3>2. \/ Delays' = 0 /\ Delays = 1
            \/ Delays' = 1 /\ Delays = 2
        BY <1>3, <1>5, <2>1 DEF Delays
      <3>3. FiredCost' <= FiredCost
        BY <1>2, <1>3, <2>4, <3>2, WatchdogCosts, WatchdogCostsNext
      <3>4. OneWaitCost' <= OneWaitCost
        BY <1>2, <1>3, <2>4, <3>2, WatchdogCosts, WatchdogCostsNext
      <3>5. WaitsCost' <= WaitsCost
        BY <1>1, <3>1, <3>4, WaitsCostFalls
      <3>6. Rest' < Rest
        BY <1>1, <1>3, <2>2, <3>1, <3>5, CostTypes, CostTypesNext DEF Rest
      <3>7. QED
        BY <1>1, <3>1, <3>3, <3>6, LessWork
    <2>5. QED
      BY <2>3, <2>4
  <1>6. QED
    BY <1>4, <1>5 DEF RunSocket

\* What the handlers of the timer do.
LEMMA TimerWorks ==
  ASSUME Inv, Inv', Shut, ~open, RunTimer
  PROVE  Work' < Work
  <1>1. TypeOK /\ TypeOK' /\ aborted \in Nat /\ fired \in Nat /\ aborted' \in Nat
    BY DEF Inv, TypeOK
  <1>2. /\ left \in Nat /\ tleft \in Nat /\ left' \in Nat /\ tleft' \in Nat
    BY <1>1, TicksType DEF TypeOK
  <1>3. /\ spc' = spc /\ withTimeout' = withTimeout /\ left' = left
        /\ fired > 0 /\ fired' = fired - 1 /\ aborted' = aborted + waits
    BY DEF RunTimer, start, clocks, Watchdog, Stop, CancelTimer, ArmTimer
  <1>4. result' = result
    BY DEF RunTimer, Watchdog, Stop, CloseSocket, socket, Shut
  <1>5. StartCost' = StartCost /\ SocketCost' = SocketCost /\ Delays' = Delays
    BY <1>3, <1>4 DEF StartCost, SocketCost, Delays
  <1>6. FiredCost' = FiredCost
    BY <1>3, <1>5 DEF FiredCost
  <1>7. WaitsCost' < FiredCost
    <2>1. Delays \in {0, 1, 2} /\ FiredCost > 0
      BY <1>1, CostTypes
    <2>2. CASE withTimeout \/ left = 0
      <3>1. waits' = 0
        BY <2>2 DEF RunTimer, Watchdog, Stop, CancelTimer
      <3>2. QED
        BY <1>1, <2>1, <3>1, CostTypesNext
    <2>3. CASE ~withTimeout /\ left # 0
      <3>1. waits' = 1 /\ tleft' = left
        BY <2>3 DEF RunTimer, Watchdog, ArmTimer
      <3>2. OneWaitCost' = 2 + 2 * Delays /\ FiredCost = 3 + 2 * Delays
        BY <1>2, <1>3, <1>5, <2>3, <3>1, WatchdogCosts, WatchdogCostsNext
      <3>3. WaitsCost' = OneWaitCost'
        BY <1>1, <3>1, CostTypesNext
      <3>4. QED
        BY <2>1, <3>2, <3>3
    <2>4. QED
      BY <2>2, <2>3
  <1>8. waits \in Nat /\ waits <= WaitsCost
    BY <1>1, CostTypes
  <1>9. Rest' < Rest + FiredCost
    BY <1>1, <1>3, <1>5, <1>7, <1>8, CostTypes, CostTypesNext DEF Rest
  <1>10. QED
    BY <1>1, <1>3, <1>6, <1>9, CostTypes, LessWork

\* What the io_context does.
LEMMA QueueWorks ==
  ASSUME Inv, Inv', ~open, RunAborted \/ TimerExpires
  PROVE  Work' < Work
  <1>1. TypeOK /\ TypeOK' /\ aborted \in Nat /\ fired \in Nat /\ aborted' \in Nat
    BY DEF Inv, TypeOK
  <1>2. /\ left \in Nat /\ tleft \in Nat /\ left' \in Nat /\ tleft' \in Nat
    BY <1>1, TicksType DEF TypeOK
  <1>3. /\ spc' = spc /\ withTimeout' = withTimeout /\ left' = left
        /\ tleft' = tleft /\ result' = result
    BY DEF RunAborted, TimerExpires, start, socket, clocks
  <1>4. /\ StartCost' = StartCost /\ SocketCost' = SocketCost
        /\ Delays' = Delays /\ FiredCost' = FiredCost
    BY <1>3 DEF StartCost, SocketCost, Delays, FiredCost
  <1>5. CASE RunAborted
    <2>1. aborted' = aborted - 1 /\ fired' = fired /\ waits' = waits
      BY <1>5 DEF RunAborted
    <2>2. WaitsCost' = WaitsCost
      BY <1>3, <1>4, <2>1 DEF OneWaitCost, WaitsCost
    <2>3. Rest' < Rest
      BY <1>1, <1>4, <2>1, <2>2, CostTypes DEF Rest
    <2>4. QED
      BY <1>1, <1>4, <2>1, <2>3, CostTypes, LessWork
  <1>6. CASE TimerExpires
    <2>1. /\ tleft = 0 /\ waits' = 0 /\ waits \in {1, 2}
          /\ fired' = fired + waits /\ aborted' = aborted
      BY <1>1, <1>6 DEF TimerExpires, TypeOK
    <2>2. FiredCost < OneWaitCost
      <3>1. Delays \in {0, 1, 2}
        BY <1>1, CostTypes
      <3>2. CASE withTimeout
        BY <3>2, TimeoutCosts
      <3>3. CASE ~withTimeout
        BY <1>2, <2>1, <3>1, <3>3, WatchdogCosts
      <3>4. QED
        BY <3>2, <3>3
    <2>3. WaitsCost' = 0
      BY <1>1, <2>1, CostTypesNext
    <2>4. CASE waits = 1
      <3>1. WaitsCost = OneWaitCost
        BY <1>1, <2>4, CostTypes
      <3>2. Rest' + FiredCost' < Rest
        BY <1>1, <1>4, <2>1, <2>2, <2>3, <3>1, CostTypes DEF Rest
      <3>3. QED
        BY <1>1, <1>4, <2>1, <2>4, <3>2, CostTypes, LessWork
    <2>5. CASE waits = 2
      <3>1. WaitsCost = OneWaitCost + OneWaitCost
        BY <1>1, <2>5, CostTypes
      <3>2. Rest' + FiredCost' + FiredCost' < Rest
        BY <1>1, <1>4, <2>1, <2>2, <2>3, <3>1, CostTypes DEF Rest
      <3>3. QED
        BY <1>1, <1>4, <2>1, <2>5, <3>2, CostTypes, LessWork
    <2>6. QED
      BY <2>1, <2>4, <2>5
  <1>7. QED
    BY <1>5, <1>6

\* Time alone makes nothing harder to end.
LEMMA TickWorks ==
  ASSUME Inv, Inv', Tick
  PROVE  Work' <= Work
  <1>1. TypeOK /\ TypeOK' /\ aborted \in Nat /\ fired \in Nat
    BY DEF Inv, TypeOK
  <1>2. /\ left \in Nat /\ tleft \in Nat /\ left' \in Nat /\ tleft' \in Nat
    BY <1>1, TicksType DEF TypeOK
  <1>3. /\ spc' = spc /\ withTimeout' = withTimeout /\ result' = result
        /\ waits' = waits /\ fired' = fired /\ aborted' = aborted
        /\ left' = Minus1(left) /\ tleft' = Minus1(tleft)
    BY DEF Tick, start, socket
  <1>4. /\ StartCost' = StartCost /\ SocketCost' = SocketCost /\ Delays' = Delays
    BY <1>3 DEF StartCost, SocketCost, Delays
  <1>5. /\ left = 0 => left' = 0
        /\ tleft' < left' => tleft < left
    BY <1>2, <1>3 DEF Minus1
  <1>6. FiredCost' <= FiredCost /\ OneWaitCost' <= OneWaitCost
    <2>1. CASE withTimeout
      BY <1>3, <2>1, TimeoutCosts
    <2>2. CASE ~withTimeout
      <3>1. Delays \in {0, 1, 2}
        BY <1>1, CostTypes
      <3>2. FiredCost' <= FiredCost
        BY <1>2, <1>3, <1>4, <1>5, <2>2, <3>1, WatchdogCosts, WatchdogCostsNext
      <3>3. OneWaitCost' <= OneWaitCost
        BY <1>2, <1>3, <1>4, <1>5, <2>2, <3>1, WatchdogCosts, WatchdogCostsNext
      <3>4. QED
        BY <3>2, <3>3
    <2>3. QED
      BY <2>1, <2>2
  <1>7. WaitsCost' <= WaitsCost
    BY <1>1, <1>3, <1>6, WaitsCostFalls
  <1>8. Rest' <= Rest /\ Rest \in Nat /\ Rest' \in Nat
    BY <1>1, <1>3, <1>4, <1>7, CostTypes, CostTypesNext DEF Rest
  <1>9. FiredCost' \in Nat /\ FiredCost \in Nat
    BY <1>1, CostTypes, CostTypesNext
  <1>10. /\ Work = Rest + fired * FiredCost
         /\ Work' = Rest' + fired * FiredCost'
    BY <1>1, <1>3, RestType, RestTypeNext
  <1>11. /\ fired * FiredCost' <= fired * FiredCost
         /\ fired * FiredCost' \in Nat /\ fired * FiredCost \in Nat
    BY <1>1, <1>6, <1>9, Times
  <1>12. QED
    BY <1>8, <1>10, <1>11

(* stop () is final, and what it leaves behind is finite: after it, every  *)
(* step but the passing of time takes from Work, whatever handlers were    *)
(* queued, whichever thread runs start () and however long the queue waits *)
(* - handlers that rearm the timer or start an operation included.         *)
THEOREM EchoRunsDown ==
  Spec => [][~open => /\ ~open'
                      /\ Work' <= Work
                      /\ ~Tick => Work' < Work]_vars
  <1> DEFINE Down == ~open => /\ ~open'
                              /\ Work' <= Work
                              /\ ~Tick => Work' < Work
             Both == Inv /\ Shut
  <1>1. Init => Both
    BY EchoInitial, ShutInitial
  <1>2. Both /\ [Next]_vars => Both'
    BY EchoInductive, ShutInductive
  <1>3. Both /\ Both' /\ [Next]_vars => [Down]_vars
    <2> SUFFICES ASSUME Inv, Shut, Inv', Next, ~open
                 PROVE  /\ ~open'
                        /\ Work' <= Work
                        /\ ~Tick => Work' < Work
      OBVIOUS
    <2>1. ~open'
      BY DEF Next, Start, StartReceive, StartClock, StartWrite, StartCheck,
             StartStop, StartExpire, StartWait, RunSocket, RunTimer,
             RunAborted, SocketCompletes, TimerExpires, Tick, Watchdog, Stop,
             CloseSocket, Begins, socket
    <2>2. ~SocketCompletes
      BY DEF SocketCompletes, Shut
    <2>3. Tick \/ Work' < Work
      BY <2>2, StartWorks, SocketWorks, TimerWorks, QueueWorks DEF Next
    <2>4. Work \in Nat /\ Work' \in Nat
      BY CostTypes, CostTypesNext DEF Inv
    <2>5. Work' <= Work
      BY <2>3, <2>4, TickWorks
    <2>6. QED
      BY <2>1, <2>3, <2>5
  <1> HIDE DEF Down, Both
  <1>4. Spec => [][Down]_vars
    BY <1>1, <1>2, <1>3, PTL DEF Spec
  <1>5. QED
    BY <1>4 DEF Down

(* When nothing of it is left, and only then, a stopped session is         *)
(* released; until then start (), a queued handler or a timer is what      *)
(* keeps it, and never the peer.                                           *)
THEOREM EchoEndsReleased ==
  Spec => [](~open => /\ Work \in Nat
                      /\ Work = 0 <=> ~Alive
                      /\ Alive => \/ spc # "done"
                                  \/ result \in {"ok", "error"}
                                  \/ waits > 0 \/ fired > 0 \/ aborted > 0)
  <1> DEFINE Ended == ~open => /\ Work \in Nat
                               /\ Work = 0 <=> ~Alive
                               /\ Alive => \/ spc # "done"
                                           \/ result \in {"ok", "error"}
                                           \/ waits > 0 \/ fired > 0 \/ aborted > 0
             Both == Inv /\ Shut
  <1>1. Init => Both
    BY EchoInitial, ShutInitial
  <1>2. Both /\ [Next]_vars => Both'
    BY EchoInductive, ShutInductive
  <1>3. Both => Ended
    <2> SUFFICES ASSUME Inv, Shut, ~open
                 PROVE  Ended
      OBVIOUS
    <2>1. TypeOK /\ fired \in Nat /\ aborted \in Nat /\ Work \in Nat
      BY CostTypes DEF Inv, TypeOK
    <2>2. Alive => \/ spc # "done"
                   \/ result \in {"ok", "error"}
                   \/ waits > 0 \/ fired > 0 \/ aborted > 0
      BY <2>1 DEF Alive, Shut, TypeOK
    <2>3. Work = Rest + fired * FiredCost /\ Rest \in Nat /\ FiredCost \in Nat
      BY <2>1, RestType
    <2>4. fired * FiredCost \in Nat /\ (fired > 0 => fired * FiredCost > 0)
      <3>1. FiredCost > 0
        BY <2>1, CostTypes
      <3>2. fired * 1 <= fired * FiredCost /\ fired * FiredCost \in Nat
        BY <2>1, <2>3, <3>1, Times
      <3>3. QED
        BY <2>1, <3>2
    <2>5. /\ Rest = 0 => aborted = 0 /\ WaitsCost = 0 /\ SocketCost = 0 /\ StartCost = 0
          /\ aborted = 0 /\ WaitsCost = 0 /\ SocketCost = 0 /\ StartCost = 0 => Rest = 0
      BY <2>1, CostTypes DEF Rest
    <2>6. WaitsCost = 0 <=> ~(waits > 0)
      BY <2>1, CostTypes
    <2>7. SocketCost = 0 <=> op = "none"
      BY <2>1 DEF SocketCost, TypeOK, Shut
    <2>8. StartCost = 0 <=> spc = "done"
      BY <2>1 DEF StartCost, TypeOK, Shut
    <2>9. Rest = 0 /\ fired = 0 <=> ~Alive
      BY <2>1, <2>5, <2>6, <2>7, <2>8 DEF Alive
    <2>10. Work = 0 <=> Rest = 0 /\ fired = 0
      BY <2>1, <2>3, <2>4
    <2>11. QED
      BY <2>1, <2>2, <2>9, <2>10
  <1> HIDE DEF Ended, Both
  <1>4. Spec => []Ended
    BY <1>1, <1>2, <1>3, PTL DEF Spec
  <1>5. QED
    BY <1>4 DEF Ended

(***************************************************************************)
(* ProxySession.  Its variables are declared here as far as EchoSession    *)
(* does not have one of the name: the two are never meant together.        *)
(***************************************************************************)
VARIABLES connect, wait

Proxy == INSTANCE ProxySession

LEMMA ProxyTicks == Proxy!Ticks = Ticks
  BY DEF Proxy!Ticks, Ticks

LEMMA ProxyInitial == Proxy!Init => Proxy!Inv
  <1> SUFFICES ASSUME Proxy!Init
               PROVE  Proxy!Inv
    OBVIOUS
  <1>1. Proxy!TypeOK
    BY TicksType, ProxyTicks DEF Proxy!Init, Proxy!TypeOK
  <1>2. Proxy!BothWatched /\ Proxy!Quiet /\ Proxy!Punctual
    BY DEF Proxy!Init, Proxy!BothWatched, Proxy!Quiet, Proxy!Punctual
  <1>3. QED
    BY <1>1, <1>2 DEF Proxy!Inv

\* stop () leaves the session closed and nothing pending.
LEMMA ProxyStop ==
  ASSUME Proxy!Inv,
         NEW ops \in [Proxy!Dir -> {"none", "receive", "send"}],
         NEW results \in [Proxy!Dir -> {"none", "pending", "ok", "error"}],
         NEW ws \in [Proxy!Dir -> {"none", "armed", "fired", "aborted"}],
         \A d \in Proxy!Dir : ops[d] = "none" <=> results[d] = "none",
         Proxy!Stop(ops, results, ws), connect = "done",
         UNCHANGED <<connect, tleft, left, idle>>
  PROVE  Proxy!Inv'
  <1> USE DEF Proxy!Inv
  <1>1. ~open'
    BY DEF Proxy!Stop
  <1>2. /\ result' \in [Proxy!Dir -> {"none", "pending", "ok", "error"}]
        /\ \A d \in Proxy!Dir : /\ result'[d] # "pending"
                                /\ result'[d] = "none" <=> results[d] = "none"
    BY DEF Proxy!Stop, Proxy!Aborted
  <1>3. wait' \in [Proxy!Dir -> {"none", "armed", "fired", "aborted"}]
    BY DEF Proxy!Stop
  <1>4. Proxy!TypeOK'
    BY <1>1, <1>2, <1>3 DEF Proxy!Stop, Proxy!TypeOK
  <1>5. Proxy!BothWatched' /\ Proxy!Quiet' /\ Proxy!Punctual'
    BY <1>1 DEF Proxy!BothWatched, Proxy!Quiet, Proxy!Punctual
  <1>6. QED
    BY <1>4, <1>5

LEMMA ProxyHandleConnect ==
  ASSUME Proxy!Inv, Proxy!HandleConnect
  PROVE  Proxy!Inv'
  <1> USE TicksType, ProxyTicks DEF Proxy!Inv
  <1>1. connect # "done" /\ connect' = "done"
    BY DEF Proxy!HandleConnect
  <1>2. open /\ \A d \in Proxy!Dir : op[d] = "none" /\ wait[d] = "none"
    BY <1>1 DEF Proxy!Quiet
  <1>3. CASE connect = "ok"
    <2>1. /\ op' = [d \in Proxy!Dir |-> "receive"]
          /\ result' = [d \in Proxy!Dir |-> "pending"]
          /\ left' = [d \in Proxy!Dir |-> Timeout]
          /\ wait' = [d \in Proxy!Dir |-> "armed"]
          /\ tleft' = [d \in Proxy!Dir |-> Timeout]
          /\ idle' = [d \in Proxy!Dir |-> 0]
          /\ open' = open
      BY <1>3 DEF Proxy!HandleConnect
    <2>2. Proxy!TypeOK'
      BY <1>1, <1>2, <2>1 DEF Proxy!TypeOK
    <2>3. Proxy!BothWatched' /\ Proxy!Quiet'
      BY <1>1, <2>1 DEF Proxy!BothWatched, Proxy!Quiet
    <2>4. Proxy!Punctual'
      <3>1. \A d \in Proxy!Dir : idle'[d] = 0 /\ left'[d] = Timeout
        BY <2>1
      <3>2. \A d \in Proxy!Dir : left'[d] + idle'[d] >= Timeout
        BY <3>1
      <3>3. QED
        BY <3>2 DEF Proxy!Punctual
    <2>5. QED
      BY <2>2, <2>3, <2>4
  <1>4. CASE connect = "error"
    <2>1. /\ ~open' /\ UNCHANGED <<op, result, wait, tleft, left, idle>>
      BY <1>4 DEF Proxy!HandleConnect, Proxy!watchdogs
    <2>2. Proxy!TypeOK'
      BY <1>1, <1>2, <1>4, <2>1 DEF Proxy!TypeOK, Proxy!HandleConnect
    <2>3. Proxy!BothWatched' /\ Proxy!Quiet' /\ Proxy!Punctual'
      BY <1>1, <2>1 DEF Proxy!BothWatched, Proxy!Quiet, Proxy!Punctual
    <2>4. QED
      BY <2>2, <2>3
  <1>5. QED
    BY <1>3, <1>4 DEF Proxy!HandleConnect

LEMMA ProxyPumps ==
  ASSUME Proxy!Inv, NEW d \in Proxy!Dir, Proxy!PumpOn(d) \/ Proxy!PumpFails(d)
  PROVE  Proxy!Inv'
  <1> USE TicksType, ProxyTicks DEF Proxy!Inv
  <1>1. op[d] # "none" /\ connect = "done"
    BY DEF Proxy!PumpOn, Proxy!PumpFails, Proxy!TypeOK, Proxy!Quiet
  <1>2. CASE Proxy!PumpOn(d)
    <2>1. /\ op' = [op EXCEPT ![d] = Proxy!Other(@)]
          /\ result' = [result EXCEPT ![d] = IF open THEN "pending" ELSE "error"]
          /\ left' = [e \in Proxy!Dir |-> IF e = d THEN Timeout ELSE left[e]]
          /\ idle' = [idle EXCEPT ![d] = 0]
          /\ UNCHANGED <<connect, open, wait, tleft>>
      BY <1>2 DEF Proxy!PumpOn, Proxy!Delayed
    <2>2. Proxy!Other(op[d]) \in {"receive", "send"}
      BY DEF Proxy!Other
    <2>3. Proxy!TypeOK'
      <3>1. op' \in [Proxy!Dir -> {"none", "receive", "send"}]
        BY <2>1, <2>2 DEF Proxy!TypeOK
      <3>2. result' \in [Proxy!Dir -> {"none", "pending", "ok", "error"}]
        BY <2>1 DEF Proxy!TypeOK
      <3>3. left' \in [Proxy!Dir -> Ticks] /\ idle' \in [Proxy!Dir -> Ticks]
        BY <2>1 DEF Proxy!TypeOK
      <3>4. \A e \in Proxy!Dir : op'[e] = "none" <=> result'[e] = "none"
        BY <2>1, <2>2 DEF Proxy!TypeOK
      <3>5. ~open' => \A e \in Proxy!Dir : result'[e] # "pending"
        BY <2>1 DEF Proxy!TypeOK
      <3>6. QED
        BY <2>1, <3>1, <3>2, <3>3, <3>4, <3>5 DEF Proxy!TypeOK
    <2>4. Proxy!BothWatched'
      <3>1. \A e \in Proxy!Dir : op[e] # "none" => op'[e] # "none"
        BY <2>1, <2>2 DEF Proxy!TypeOK
      <3>2. \A e \in Proxy!Dir : tleft[e] <= left[e] => tleft'[e] <= left'[e]
        BY <2>1 DEF Proxy!TypeOK
      <3>3. QED
        BY <2>1, <3>1, <3>2 DEF Proxy!BothWatched
    <2>5. Proxy!Quiet'
      BY <1>1, <2>1 DEF Proxy!Quiet
    <2>6. Proxy!Punctual'
      BY <2>1 DEF Proxy!Punctual, Proxy!TypeOK
    <2>7. QED
      BY <2>3, <2>4, <2>5, <2>6
  <1>3. CASE Proxy!PumpFails(d)
    <2> DEFINE ops == Proxy!Over(op, d)
               results == Proxy!Over(result, d)
    <2>1. /\ ops \in [Proxy!Dir -> {"none", "receive", "send"}]
          /\ results \in [Proxy!Dir -> {"none", "pending", "ok", "error"}]
          /\ \A e \in Proxy!Dir : ops[e] = "none" <=> results[e] = "none"
      BY DEF Proxy!TypeOK, Proxy!Over
    <2> HIDE DEF ops, results
    <2>2. wait \in [Proxy!Dir -> {"none", "armed", "fired", "aborted"}]
      BY DEF Proxy!TypeOK
    <2>3. /\ Proxy!Stop(ops, results, wait)
          /\ UNCHANGED <<connect, tleft, left, idle>>
      BY <1>3 DEF Proxy!PumpFails, ops, results
    <2>4. QED
      BY <1>1, <2>1, <2>2, <2>3, ProxyStop
  <1>4. QED
    BY <1>2, <1>3

LEMMA ProxyWatch ==
  ASSUME Proxy!Inv, NEW d \in Proxy!Dir, Proxy!Watch(d) \/ Proxy!WatchAborted(d)
  PROVE  Proxy!Inv'
  <1> USE TicksType, ProxyTicks DEF Proxy!Inv
  <1>1. wait[d] # "none" /\ connect = "done"
    BY DEF Proxy!Watch, Proxy!WatchAborted, Proxy!Quiet
  <1>2. CASE Proxy!Watch(d) /\ left[d] = 0
    <2> DEFINE ws == Proxy!Over(wait, d)
    <2>1. /\ ws \in [Proxy!Dir -> {"none", "armed", "fired", "aborted"}]
      BY DEF Proxy!TypeOK, Proxy!Over
    <2> HIDE DEF ws
    <2>2. /\ op \in [Proxy!Dir -> {"none", "receive", "send"}]
          /\ result \in [Proxy!Dir -> {"none", "pending", "ok", "error"}]
          /\ \A e \in Proxy!Dir : op[e] = "none" <=> result[e] = "none"
      BY DEF Proxy!TypeOK
    <2>3. /\ Proxy!Stop(op, result, ws)
          /\ UNCHANGED <<connect, tleft, left, idle>>
      BY <1>2 DEF Proxy!Watch, ws
    <2>4. QED
      BY <1>1, <2>1, <2>2, <2>3, ProxyStop
  <1>3. CASE Proxy!Watch(d) /\ left[d] # 0
    <2>1. /\ wait' = [wait EXCEPT ![d] = "armed"]
          /\ tleft' = [tleft EXCEPT ![d] = left[d]]
          /\ UNCHANGED <<connect, open, op, result, left, idle>>
      BY <1>3 DEF Proxy!Watch, Proxy!sockets
    <2>2. Proxy!TypeOK'
      BY <2>1 DEF Proxy!TypeOK
    <2>3. Proxy!BothWatched'
      <3>1. wait'[d] = "armed" /\ tleft'[d] = left[d] /\ left[d] \in Nat
        BY <2>1 DEF Proxy!TypeOK
      <3>2. \A e \in Proxy!Dir \ {d} : wait'[e] = wait[e] /\ tleft'[e] = tleft[e]
        BY <2>1 DEF Proxy!TypeOK
      <3>3. tleft'[d] <= left'[d]
        BY <2>1, <3>1
      <3>4. QED
        BY <2>1, <3>1, <3>2, <3>3 DEF Proxy!BothWatched
    <2>4. Proxy!Quiet' /\ Proxy!Punctual'
      BY <1>1, <2>1 DEF Proxy!Quiet, Proxy!Punctual
    <2>5. QED
      BY <2>2, <2>3, <2>4
  <1>4. CASE Proxy!WatchAborted(d)
    <2>1. /\ wait[d] = "aborted"
          /\ wait' = [wait EXCEPT ![d] = "none"]
          /\ UNCHANGED <<connect, open, op, result, tleft, left, idle>>
      BY <1>4 DEF Proxy!WatchAborted, Proxy!Over, Proxy!sockets
    <2>2. Proxy!TypeOK'
      BY <2>1 DEF Proxy!TypeOK
    <2>3. Proxy!BothWatched'
      <3>1. ~open
        BY <1>1, <2>1 DEF Proxy!BothWatched
      <3>2. QED
        BY <2>1, <3>1 DEF Proxy!BothWatched
    <2>4. Proxy!Quiet' /\ Proxy!Punctual'
      BY <1>1, <2>1 DEF Proxy!Quiet, Proxy!Punctual
    <2>5. QED
      BY <2>2, <2>3, <2>4
  <1>5. QED
    BY <1>2, <1>3, <1>4

LEMMA ProxyWorld ==
  ASSUME Proxy!Inv, NEW d \in Proxy!Dir,
         \/ Proxy!ConnectCompletes \/ Proxy!SocketCompletes(d)
         \/ Proxy!TimerExpires(d)
  PROVE  Proxy!Inv'
  <1> USE TicksType, ProxyTicks DEF Proxy!Inv
  <1>1. CASE Proxy!ConnectCompletes
    <2>1. /\ connect # "done" /\ connect' \in {"ok", "error"}
          /\ UNCHANGED <<open, op, result, wait, tleft, left, idle>>
      BY <1>1 DEF Proxy!ConnectCompletes, Proxy!watchdogs
    <2>2. Proxy!TypeOK'
      BY <2>1 DEF Proxy!TypeOK
    <2>3. Proxy!BothWatched' /\ Proxy!Quiet' /\ Proxy!Punctual'
      BY <2>1 DEF Proxy!BothWatched, Proxy!Quiet, Proxy!Punctual
    <2>4. QED
      BY <2>2, <2>3
  <1>2. CASE Proxy!SocketCompletes(d)
    <2>1. /\ result[d] = "pending"
          /\ \E r \in {"ok", "error"} : result' = [result EXCEPT ![d] = r]
          /\ UNCHANGED <<connect, open, op, wait, tleft, left, idle>>
      BY <1>2 DEF Proxy!SocketCompletes, Proxy!watchdogs
    <2>2. PICK r \in {"ok", "error"} : result' = [result EXCEPT ![d] = r]
      BY <2>1
    <2>3. Proxy!TypeOK'
      BY <2>1, <2>2 DEF Proxy!TypeOK
    <2>4. Proxy!BothWatched' /\ Proxy!Quiet' /\ Proxy!Punctual'
      BY <2>1 DEF Proxy!BothWatched, Proxy!Quiet, Proxy!Punctual
    <2>5. QED
      BY <2>3, <2>4
  <1>3. CASE Proxy!TimerExpires(d)
    <2>1. /\ wait[d] = "armed"
          /\ wait' = [wait EXCEPT ![d] = "fired"]
          /\ UNCHANGED <<connect, open, op, result, tleft, left, idle>>
      BY <1>3 DEF Proxy!TimerExpires, Proxy!sockets
    <2>2. Proxy!TypeOK'
      BY <2>1 DEF Proxy!TypeOK
    <2>3. Proxy!BothWatched'
      BY <2>1 DEF Proxy!BothWatched, Proxy!TypeOK
    <2>4. Proxy!Quiet' /\ Proxy!Punctual'
      BY <2>1 DEF Proxy!Quiet, Proxy!Punctual
    <2>5. QED
      BY <2>2, <2>3, <2>4
  <1>4. QED
    BY <1>1, <1>2, <1>3

LEMMA ProxyTick ==
  ASSUME Proxy!Inv, Proxy!Tick
  PROVE  Proxy!Inv'
  <1> USE TicksType, ProxyTicks DEF Proxy!Inv
  <1>1. UNCHANGED <<connect, open, op, result, wait>>
    BY DEF Proxy!Tick, Proxy!sockets
  <1>2. \A d \in Proxy!Dir : /\ tleft'[d] = Minus1(tleft[d])
                             /\ left'[d] = Minus1(left[d])
    BY DEF Proxy!Tick, Proxy!Less1, Minus1
  <1>3. \A d \in Proxy!Dir : /\ tleft[d] \in Ticks /\ left[d] \in Ticks
                             /\ idle[d] \in Ticks
    BY DEF Proxy!TypeOK
  <1>4. tleft' \in [Proxy!Dir -> Ticks] /\ left' \in [Proxy!Dir -> Ticks]
    <2>1. \A d \in Proxy!Dir : tleft'[d] \in Ticks /\ left'[d] \in Ticks
      BY <1>2, <1>3, Minus1Type
    <2>2. QED
      BY <2>1 DEF Proxy!Tick, Proxy!Less1
  <1>5. \A d \in Proxy!Dir : idle'[d] = IF idle[d] < Timeout THEN idle[d] + 1
                                        ELSE Timeout
    BY DEF Proxy!Tick
  <1>6. \A d \in Proxy!Dir :
          /\ idle'[d] \in Ticks
          /\ idle'[d] = idle[d] + 1 \/ idle'[d] = Timeout
    BY <1>3, <1>5 DEF Ticks
  <1>7. idle' \in [Proxy!Dir -> Ticks]
    BY <1>6 DEF Proxy!Tick
  <1>8. Proxy!TypeOK'
    BY <1>1, <1>4, <1>7 DEF Proxy!TypeOK
  <1>9. Proxy!BothWatched'
    <2>1. \A d \in Proxy!Dir : tleft[d] <= left[d] => tleft'[d] <= left'[d]
      BY <1>2, <1>3, Minus1Type
    <2>2. QED
      BY <1>1, <2>1 DEF Proxy!BothWatched
  <1>10. Proxy!Quiet'
    BY <1>1 DEF Proxy!Quiet
  <1>11. Proxy!Punctual'
    <2>1. ASSUME NEW d \in Proxy!Dir, left[d] + idle[d] >= Timeout
          PROVE  left'[d] + idle'[d] >= Timeout
      BY <1>2, <1>3, <1>6, <2>1, Countdown
    <2>2. QED
      BY <1>1, <2>1 DEF Proxy!Punctual
  <1>12. QED
    BY <1>8, <1>9, <1>10, <1>11

\* Every step preserves the invariant.
LEMMA ProxyInductive == Proxy!Inv /\ [Proxy!Next]_Proxy!vars => Proxy!Inv'
  <1> SUFFICES ASSUME Proxy!Inv, [Proxy!Next]_Proxy!vars
               PROVE  Proxy!Inv'
    OBVIOUS
  <1>1. CASE UNCHANGED Proxy!vars
    BY <1>1 DEF Proxy!vars, Proxy!sockets, Proxy!watchdogs, Proxy!Inv,
       Proxy!TypeOK, Proxy!BothWatched, Proxy!Quiet, Proxy!Punctual
  <1>2. CASE Proxy!Next
    <2>1. "up" \in Proxy!Dir
      BY DEF Proxy!Dir
    <2>2. QED
      BY <1>2, <2>1, ProxyHandleConnect, ProxyPumps, ProxyWatch, ProxyWorld,
         ProxyTick DEF Proxy!Next, Proxy!Handlers
  <1>3. QED
    BY <1>1, <1>2

(* While a session of the proxy is open both of its pumps are going, each  *)
(* is watched, and never beyond its own deadline.                          *)
THEOREM ProxyInvariance == Proxy!Spec => []Proxy!Inv
  BY ProxyInitial, ProxyInductive, PTL DEF Proxy!Spec

(* A watchdog of the proxy cuts the connection only if one of the pumps    *)
(* has started nothing for Timeout.                                        *)
THEOREM ProxyCutWhenIdle == Proxy!Spec => Proxy!CutWhenIdle
  <1> DEFINE Fair == open /\ ~open' /\ connect = "done" /\ op' = op
                       => \E d \in Proxy!Dir : idle[d] = Timeout
  <1>1. Proxy!Inv /\ [Proxy!Next]_Proxy!vars => [Fair]_Proxy!vars
    <2> SUFFICES ASSUME Proxy!Inv, Proxy!Next, open, ~open',
                        connect = "done", op' = op
                 PROVE  \E d \in Proxy!Dir : idle[d] = Timeout
      BY DEF Fair
    <2>1. ASSUME NEW d \in Proxy!Dir, left[d] = 0
          PROVE  idle[d] = Timeout
      <3>1. idle[d] \in Ticks
        BY ProxyTicks DEF Proxy!Inv, Proxy!TypeOK
      <3>2. left[d] + idle[d] >= Timeout
        BY DEF Proxy!Inv, Proxy!Punctual
      <3> DEFINE i == idle[d]
                 l == left[d]
      <3>3. l = 0 /\ i \in Nat /\ i <= Timeout /\ l + i >= Timeout
            /\ Timeout \in Nat
        BY <2>1, <3>1, <3>2, TicksType
      <3> HIDE DEF i, l
      <3>4. i = Timeout
        BY <3>3
      <3>5. QED
        BY <3>4 DEF i
    <2>2. \E d \in Proxy!Dir : Proxy!Handlers(d)
      BY DEF Proxy!Next, Proxy!HandleConnect, Proxy!ConnectCompletes,
             Proxy!Tick, Proxy!SocketCompletes, Proxy!TimerExpires,
             Proxy!sockets
    <2>3. PICK d \in Proxy!Dir : Proxy!Handlers(d)
      BY <2>2
    <2>4. ~Proxy!PumpFails(d)
      <3>1. SUFFICES ASSUME Proxy!PumpFails(d)
                     PROVE  FALSE
        OBVIOUS
      <3>2. op[d] # "none" /\ op \in [Proxy!Dir -> {"none", "receive", "send"}]
        BY <3>1 DEF Proxy!PumpFails, Proxy!Inv, Proxy!TypeOK
      <3>3. op'[d] = "none"
        BY <3>1, <3>2 DEF Proxy!PumpFails, Proxy!Stop, Proxy!Over
      <3>4. QED
        BY <3>2, <3>3
    <2>5. Proxy!Watch(d) /\ left[d] = 0
      BY <2>3, <2>4 DEF Proxy!Handlers, Proxy!PumpOn, Proxy!Watch,
                        Proxy!WatchAborted, Proxy!sockets
    <2>6. QED
      BY <2>1, <2>5
  <1>2. QED
    BY <1>1, ProxyInvariance, PTL DEF Proxy!Spec, Proxy!CutWhenIdle

(***************************************************************************)
(* The end of a session of the proxy, as that of the echo server: a        *)
(* direction that has been stopped has a pump that may run once more and   *)
(* a watchdog that may wait again, as long as its deadline is ahead.       *)
(***************************************************************************)

\* The cost of wait w and result r of a direction: ahead says that deadline_
\* is ahead, late that it is later than the end of the wait.  A good result
\* in the queue may put deadline_ off once more.
CostOf(w, r, late, ahead) ==
  (CASE w = "armed" -> IF late THEN 4 ELSE 2
     [] w = "fired" -> IF ahead THEN 3 ELSE 1
     [] w = "aborted" -> 1
     [] OTHER -> 0)
  + (CASE r = "ok" -> IF w \in {"armed", "fired"} THEN 4 ELSE 2
       [] r = "error" -> 1
       [] OTHER -> 0)

DirCost(d) == CostOf(wait[d], result[d], tleft[d] < left[d], left[d] > 0)

\* What a step does to one direction of a stopped session.
Keeps(d) == wait'[d] = wait[d] /\ result'[d] = result[d]
            /\ tleft'[d] = tleft[d] /\ left'[d] = left[d]
Cancels(d) == /\ result'[d] = result[d] /\ left'[d] = left[d]
              /\ wait'[d] = IF wait[d] = "armed" THEN "aborted" ELSE wait[d]

LEMMA DirSteps ==
  ASSUME NEW d \in Proxy!Dir
  PROVE  /\ DirCost(d) \in 0 .. 8
         /\ DirCost(d)' \in 0 .. 8
         /\ Keeps(d) => DirCost(d)' = DirCost(d)
         /\ Cancels(d) => DirCost(d)' <= DirCost(d)
  <1>1. DirCost(d) \in 0 .. 8 /\ DirCost(d)' \in 0 .. 8
    <2>1. DirCost(d) \in 0 .. 8
      BY DEF DirCost, CostOf
    <2>2. DirCost(d)' \in 0 .. 8
      BY DEF DirCost, CostOf
    <2>3. QED
      BY <2>1, <2>2
  <1>2. ASSUME Keeps(d)
        PROVE  DirCost(d)' = DirCost(d)
    BY <1>2 DEF Keeps, DirCost
  <1>3. ASSUME Cancels(d)
        PROVE  DirCost(d)' <= DirCost(d)
    <2>1. CASE wait[d] = "armed"
      BY <1>3, <2>1 DEF Cancels, DirCost, CostOf
    <2>2. CASE wait[d] # "armed"
      BY <1>3, <2>2 DEF Cancels, DirCost, CostOf
    <2>3. QED
      BY <2>1, <2>2
  <1>4. QED
    BY <1>1, <1>2, <1>3

\* What the handlers and the io_context do to a stopped session.
LEMMA ProxyWorks ==
  ASSUME Proxy!Inv, Proxy!Inv', ~open, NEW d \in Proxy!Dir,
         Proxy!Handlers(d) \/ Proxy!TimerExpires(d)
  PROVE  /\ DirCost(d)' < DirCost(d)
         /\ \A e \in Proxy!Dir \ {d} : Keeps(e) \/ Cancels(e)
  <1> USE DEF Keeps, Cancels
  <1>1. /\ wait \in [Proxy!Dir -> {"none", "armed", "fired", "aborted"}]
        /\ result \in [Proxy!Dir -> {"none", "pending", "ok", "error"}]
        /\ \A e \in Proxy!Dir : result[e] # "pending"
        /\ tleft \in [Proxy!Dir -> Nat] /\ left \in [Proxy!Dir -> Nat]
    BY ProxyTicks, TicksType DEF Proxy!Inv, Proxy!TypeOK
  <1>2. DirCost(d) \in 0 .. 8 /\ DirCost(d)' \in 0 .. 8
    BY DirSteps
  <1>3. CASE Proxy!PumpOn(d)
    <2>1. /\ result[d] = "ok" /\ result'[d] = "error" /\ wait' = wait
          /\ left'[d] = Timeout /\ tleft' = tleft
          /\ \A e \in Proxy!Dir \ {d} : result'[e] = result[e] /\ left'[e] = left[e]
      BY <1>1, <1>3 DEF Proxy!PumpOn, Proxy!Delayed
    <2>2. DirCost(d)' < DirCost(d)
      BY <1>1, <2>1 DEF DirCost, CostOf
    <2>3. QED
      BY <2>1, <2>2
  <1>4. CASE Proxy!PumpFails(d)
    <2>1. /\ result[d] = "error" /\ result'[d] = "none" /\ left' = left
          /\ \A e \in Proxy!Dir \ {d} : result'[e] = result[e]
          /\ \A e \in Proxy!Dir :
               wait'[e] = IF wait[e] = "armed" THEN "aborted" ELSE wait[e]
      BY <1>1, <1>4 DEF Proxy!PumpFails, Proxy!Stop, Proxy!Over, Proxy!Aborted
    <2>2. DirCost(d)' < DirCost(d)
      <3>1. CASE wait[d] = "armed"
        BY <2>1, <3>1 DEF DirCost, CostOf
      <3>2. CASE wait[d] # "armed"
        BY <2>1, <3>2 DEF DirCost, CostOf
      <3>3. QED
        BY <3>1, <3>2
    <2>3. QED
      BY <2>1, <2>2
  <1>5. CASE Proxy!Watch(d)
    <2>1. /\ wait[d] = "fired" /\ left' = left
          /\ \A e \in Proxy!Dir : result'[e] = result[e]
      BY <1>1, <1>5 DEF Proxy!Watch, Proxy!Stop, Proxy!Aborted, Proxy!sockets
    <2>2. CASE left[d] = 0
      <3>1. /\ wait'[d] = "none"
            /\ \A e \in Proxy!Dir \ {d} :
                 wait'[e] = IF wait[e] = "armed" THEN "aborted" ELSE wait[e]
        BY <1>1, <1>5, <2>2 DEF Proxy!Watch, Proxy!Stop, Proxy!Over
      <3>2. DirCost(d)' < DirCost(d)
        BY <2>1, <2>2, <3>1 DEF DirCost, CostOf
      <3>3. QED
        BY <2>1, <3>1, <3>2
    <2>3. CASE left[d] # 0
      <3>1. /\ wait'[d] = "armed" /\ tleft'[d] = left[d]
            /\ \A e \in Proxy!Dir \ {d} : wait'[e] = wait[e] /\ tleft'[e] = tleft[e]
        BY <1>1, <1>5, <2>3 DEF Proxy!Watch
      <3>2. DirCost(d)' < DirCost(d)
        BY <1>1, <2>1, <2>3, <3>1 DEF DirCost, CostOf
      <3>3. QED
        BY <2>1, <3>1, <3>2
    <2>4. QED
      BY <2>2, <2>3
  <1>6. CASE Proxy!WatchAborted(d)
    <2>1. /\ wait[d] = "aborted" /\ wait'[d] = "none"
          /\ result' = result /\ left' = left /\ tleft' = tleft
          /\ \A e \in Proxy!Dir \ {d} : wait'[e] = wait[e]
      BY <1>1, <1>6 DEF Proxy!WatchAborted, Proxy!Over, Proxy!sockets
    <2>2. DirCost(d)' < DirCost(d)
      BY <2>1 DEF DirCost, CostOf
    <2>3. QED
      BY <2>1, <2>2
  <1>7. CASE Proxy!TimerExpires(d)
    <2>1. /\ wait[d] = "armed" /\ wait'[d] = "fired" /\ tleft[d] = 0
          /\ result' = result /\ left' = left /\ tleft' = tleft
          /\ \A e \in Proxy!Dir \ {d} : wait'[e] = wait[e]
      BY <1>1, <1>7 DEF Proxy!TimerExpires, Proxy!sockets
    <2>2. DirCost(d)' < DirCost(d)
      BY <1>1, <2>1 DEF DirCost, CostOf
    <2>3. QED
      BY <2>1, <2>2
  <1>8. QED
    BY <1>3, <1>4, <1>5, <1>6, <1>7 DEF Proxy!Handlers

LEMMA ProxyTickWorks ==
  ASSUME Proxy!Inv, Proxy!Tick, NEW d \in Proxy!Dir
  PROVE  DirCost(d)' <= DirCost(d)
  <1> DEFINE l == left[d]
             t == tleft[d]
  <1>1. /\ l \in Nat /\ t \in Nat
        /\ left'[d] = (IF l = 0 THEN 0 ELSE l - 1)
        /\ tleft'[d] = (IF t = 0 THEN 0 ELSE t - 1)
    BY ProxyTicks, TicksType DEF Proxy!Inv, Proxy!TypeOK, Proxy!Tick, Proxy!Less1
  <1>2. wait' = wait /\ result' = result
    BY DEF Proxy!Tick, Proxy!sockets
  <1>3. /\ left'[d] > 0 => l > 0
        /\ tleft'[d] < left'[d] => t < l
    <2> DEFINE ll == left'[d]
               tt == tleft'[d]
    <2>1. ll = (IF l = 0 THEN 0 ELSE l - 1) /\ tt = (IF t = 0 THEN 0 ELSE t - 1)
      BY <1>1
    <2>2. l \in Nat /\ t \in Nat
      BY <1>1
    <2> HIDE DEF l, t, ll, tt
    <2>3. (ll > 0 => l > 0) /\ (tt < ll => t < l)
      BY <2>1, <2>2
    <2>4. QED
      BY <2>3 DEF ll, tt
  <1>4. QED
    BY <1>2, <1>3 DEF DirCost, CostOf

(* The proxy's stop () is final, and what it leaves behind is finite:      *)
(* after it every step but the passing of time makes one direction         *)
(* cheaper, and none makes the other one dearer, whatever was queued in    *)
(* either.                                                                 *)
THEOREM ProxyRunsDown ==
  Proxy!Spec =>
    [][~open => /\ ~open'
                /\ \A d \in Proxy!Dir : DirCost(d)' <= DirCost(d)
                /\ ~Proxy!Tick => \E d \in Proxy!Dir : DirCost(d)' < DirCost(d)
      ]_Proxy!vars
  <1> DEFINE Down ==
        ~open => /\ ~open'
                 /\ \A d \in Proxy!Dir : DirCost(d)' <= DirCost(d)
                 /\ ~Proxy!Tick => \E d \in Proxy!Dir : DirCost(d)' < DirCost(d)
  <1>1. Proxy!Inv /\ Proxy!Inv' /\ [Proxy!Next]_Proxy!vars => [Down]_Proxy!vars
    <2> SUFFICES ASSUME Proxy!Inv, Proxy!Inv', Proxy!Next, ~open
                 PROVE  Down
      OBVIOUS
    <2>1. connect = "done" /\ \A d \in Proxy!Dir : result[d] # "pending"
      BY DEF Proxy!Inv, Proxy!TypeOK, Proxy!Quiet
    <2>2. /\ ~Proxy!HandleConnect /\ ~Proxy!ConnectCompletes
          /\ \A d \in Proxy!Dir : ~Proxy!SocketCompletes(d)
      BY <2>1 DEF Proxy!HandleConnect, Proxy!ConnectCompletes,
                  Proxy!SocketCompletes
    <2>3. CASE Proxy!Tick
      BY <2>3, ProxyTickWorks DEF Proxy!Tick, Proxy!sockets
    <2>4. CASE ~Proxy!Tick
      <3>1. PICK d \in Proxy!Dir : Proxy!Handlers(d) \/ Proxy!TimerExpires(d)
        BY <2>2, <2>4 DEF Proxy!Next
      <3>2. /\ DirCost(d)' < DirCost(d)
            /\ \A e \in Proxy!Dir \ {d} : Keeps(e) \/ Cancels(e)
        BY <3>1, ProxyWorks
      <3>3. \A e \in Proxy!Dir : DirCost(e)' <= DirCost(e)
        <4>1. SUFFICES ASSUME NEW e \in Proxy!Dir
                       PROVE  DirCost(e)' <= DirCost(e)
          OBVIOUS
        <4>2. DirCost(e) \in 0 .. 8 /\ DirCost(e)' \in 0 .. 8
          BY DirSteps
        <4>3. CASE e = d
          BY <3>2, <4>2, <4>3
        <4>4. CASE e # d
          BY <3>2, <4>2, <4>4, DirSteps
        <4>5. QED
          BY <4>3, <4>4
      <3>4. ~open'
        BY <3>1 DEF Proxy!Handlers, Proxy!PumpOn, Proxy!PumpFails, Proxy!Watch,
                    Proxy!WatchAborted, Proxy!TimerExpires, Proxy!Stop,
                    Proxy!sockets
      <3>5. QED
        BY <3>2, <3>3, <3>4
    <2>5. QED
      BY <2>3, <2>4
  <1> HIDE DEF Down
  <1>2. Proxy!Spec => [][Down]_Proxy!vars
    BY <1>1, ProxyInvariance, PTL DEF Proxy!Spec
  <1>3. QED
    BY <1>2 DEF Down

(* It is released when both directions have cost nothing any more, and not *)
(* before; at most eight handlers and expiries of each direction come      *)
(* after a stop.                                                           *)
THEOREM ProxyEndsReleased ==
  Proxy!Spec =>
    [](~open => /\ \A d \in Proxy!Dir : DirCost(d) \in 0 .. 8
                /\ (\A d \in Proxy!Dir : DirCost(d) = 0) <=> ~Proxy!Alive)
  <1> DEFINE Ended ==
        ~open => /\ \A d \in Proxy!Dir : DirCost(d) \in 0 .. 8
                 /\ (\A d \in Proxy!Dir : DirCost(d) = 0) <=> ~Proxy!Alive
  <1>1. Proxy!Inv => Ended
    <2> SUFFICES ASSUME Proxy!Inv, ~open
                 PROVE  Ended
      OBVIOUS
    <2>1. \A d \in Proxy!Dir : DirCost(d) \in 0 .. 8
      BY DirSteps
    <2>2. connect = "done"
      BY DEF Proxy!Inv, Proxy!Quiet
    <2>3. ASSUME NEW d \in Proxy!Dir
          PROVE  DirCost(d) = 0 <=> op[d] = "none" /\ wait[d] = "none"
      <3>1. /\ wait[d] \in {"none", "armed", "fired", "aborted"}
            /\ result[d] \in {"none", "ok", "error"}
            /\ op[d] = "none" <=> result[d] = "none"
        BY DEF Proxy!Inv, Proxy!TypeOK
      <3>2. DirCost(d) = 0 <=> result[d] = "none" /\ wait[d] = "none"
        <4>1. CASE result[d] = "none"
          BY <3>1, <4>1 DEF DirCost, CostOf
        <4>2. CASE result[d] = "ok"
          BY <3>1, <4>2 DEF DirCost, CostOf
        <4>3. CASE result[d] = "error"
          BY <3>1, <4>3 DEF DirCost, CostOf
        <4>4. QED
          BY <3>1, <4>1, <4>2, <4>3
      <3>3. QED
        BY <3>1, <3>2
    <2>4. QED
      BY <2>1, <2>2, <2>3 DEF Proxy!Alive
  <1> HIDE DEF Ended
  <1>2. Proxy!Spec => []Ended
    BY <1>1, ProxyInvariance, PTL
  <1>3. QED
    BY <1>2 DEF Ended

(***************************************************************************)
(* CoSession, again with the variables that no session above has.          *)
(***************************************************************************)
VARIABLES armed, spawning, strand, echo, error

Co == INSTANCE CoSession

LEMMA CoTicks == Co!Ticks = Ticks
  BY DEF Co!Ticks, Ticks

(***************************************************************************)
(* The strand: what is in a queue s, and that the echo coroutine is in it  *)
(* only once.                                                              *)
(***************************************************************************)
Has(s, k) == \E i \in DOMAIN s : s[i] = k
Once(s) == \A i, j \in DOMAIN s : s[i] = "echo" /\ s[j] = "echo" => i = j

LEMMA AppendHas ==
  ASSUME NEW s \in Seq(Co!Kinds), NEW k \in Co!Kinds
  PROVE  /\ Append(s, k) \in Seq(Co!Kinds)
         /\ \A c : Has(Append(s, k), c) <=> Has(s, c) \/ c = k
         /\ Once(s) /\ (k = "echo" => ~Has(s, "echo")) => Once(Append(s, k))
  <1> DEFINE t == Append(s, k)
             n == Len(s)
  <1>1. t \in Seq(Co!Kinds)
    OBVIOUS
  <1>2. /\ n \in Nat /\ DOMAIN s = 1 .. n /\ DOMAIN t = 1 .. n + 1
        /\ \A i \in 1 .. n : t[i] = s[i]
        /\ t[n + 1] = k
    OBVIOUS
  <1> HIDE DEF t, n
  <1>3. \A i \in 1 .. n + 1 : i \in 1 .. n \/ i = n + 1
    BY <1>2
  <1>4. \A i \in 1 .. n : i \in 1 .. n + 1
    BY <1>2
  <1>5. n + 1 \in 1 .. n + 1
    BY <1>2
  <1>6. \A c : Has(t, c) <=> Has(s, c) \/ c = k
    BY <1>2, <1>3, <1>4, <1>5 DEF Has
  <1>7. Once(s) /\ (k = "echo" => ~Has(s, "echo")) => Once(t)
    BY <1>2, <1>3 DEF Has, Once
  <1>8. QED
    BY <1>1, <1>6, <1>7 DEF t

LEMMA TailHas ==
  ASSUME NEW s \in Seq(Co!Kinds), s # <<>>
  PROVE  /\ Tail(s) \in Seq(Co!Kinds)
         /\ \A c : Has(s, c) <=> Has(Tail(s), c) \/ c = Head(s)
         /\ Once(s) => Once(Tail(s))
         /\ Once(s) /\ Head(s) = "echo" => ~Has(Tail(s), "echo")
  <1> DEFINE t == Tail(s)
             n == Len(s)
  <1>1. t \in Seq(Co!Kinds)
    OBVIOUS
  <1>2. /\ n \in Nat \ {0} /\ DOMAIN s = 1 .. n /\ DOMAIN t = 1 .. n - 1
        /\ \A i \in 1 .. n - 1 : t[i] = s[i + 1]
        /\ Head(s) = s[1]
    OBVIOUS
  <1> HIDE DEF t, n
  <1>3. \A i \in 1 .. n - 1 : i + 1 \in 1 .. n /\ i + 1 # 1
    BY <1>2
  <1>4. \A i \in 1 .. n : i = 1 \/ (i - 1 \in 1 .. n - 1 /\ (i - 1) + 1 = i)
    BY <1>2
  <1>5. 1 \in 1 .. n
    BY <1>2
  <1>6. ASSUME NEW c
        PROVE  Has(s, c) <=> Has(t, c) \/ c = Head(s)
    <2>1. ASSUME Has(s, c), c # Head(s)
          PROVE  Has(t, c)
      <3>1. PICK i \in 1 .. n : s[i] = c
        BY <1>2, <2>1 DEF Has
      <3>2. i - 1 \in 1 .. n - 1 /\ t[i - 1] = s[i]
        BY <1>2, <1>4, <2>1, <3>1
      <3>3. QED
        BY <1>2, <3>1, <3>2 DEF Has
    <2>2. Has(t, c) => Has(s, c)
      BY <1>2, <1>3 DEF Has
    <2>3. c = Head(s) => Has(s, c)
      BY <1>2, <1>5 DEF Has
    <2>4. QED
      BY <2>1, <2>2, <2>3
  <1>7. Once(s) => Once(t)
    <2> SUFFICES ASSUME Once(s), NEW i \in 1 .. n - 1, NEW j \in 1 .. n - 1,
                        t[i] = "echo", t[j] = "echo"
                 PROVE  i = j
      BY <1>2 DEF Once
    <2>1. i + 1 = j + 1
      BY <1>2, <1>3 DEF Once
    <2>2. QED
      BY <2>1
  <1>8. Once(s) /\ Head(s) = "echo" => ~Has(t, "echo")
    BY <1>2, <1>3, <1>5 DEF Has, Once
  <1>9. QED
    BY <1>1, <1>6, <1>7, <1>8 DEF t

\* What start () spawns, some of it already on the strand s.
LEMMA SpawnSplit ==
  ASSUME NEW s \in Seq(Co!Kinds), NEW t \in Seq(Co!Kinds),
         s \o t \in {<<"echo">>, <<"echo", "wait">>}
  PROVE  /\ s # <<>> => /\ Head(s) = "echo"
                        /\ t \in {<<>>, <<"wait">>}
         /\ s # <<>> /\ s \o t = <<"echo", "wait">> /\ t = <<>>
              => Has(Tail(s), "wait")
         /\ t # <<>> => /\ Append(s, Head(t)) \o Tail(t) = s \o t
                        /\ Head(t) = "echo" => s = <<>>
  <1> DEFINE u == s \o t
             m == Len(s)
             n == Len(t)
  <1>1. /\ m \in Nat /\ n \in Nat /\ Len(u) = m + n
        /\ \A i \in 1 .. m : u[i] = s[i]
        /\ \A i \in 1 .. n : u[m + i] = t[i]
    OBVIOUS
  <1>2. /\ u = <<"echo">> \/ u = <<"echo", "wait">>
        /\ Len(u) \in {1, 2} /\ u[1] = "echo"
        /\ Len(u) = 2 => u[2] = "wait"
    <2>1. Len(<<"echo">>) = 1 /\ <<"echo">>[1] = "echo"
      OBVIOUS
    <2>2. /\ Len(<<"echo", "wait">>) = 2
          /\ <<"echo", "wait">>[1] = "echo" /\ <<"echo", "wait">>[2] = "wait"
      OBVIOUS
    <2>3. u = <<"echo">> \/ u = <<"echo", "wait">>
      OBVIOUS
    <2> HIDE DEF u
    <2>4. CASE u = <<"echo">>
      <3>1. Len(u) = 1 /\ u[1] = "echo"
        BY <2>1, <2>4
      <3>2. QED
        BY <2>3, <3>1
    <2>5. CASE u = <<"echo", "wait">>
      <3>1. Len(u) = 2 /\ u[1] = "echo" /\ u[2] = "wait"
        BY <2>2, <2>5
      <3>2. QED
        BY <2>3, <3>1
    <2>6. QED
      BY <2>3, <2>4, <2>5
  <1>3. s # <<>> <=> m > 0
    OBVIOUS
  <1>4. t # <<>> <=> n > 0
    OBVIOUS
  <1>5. ASSUME s # <<>>
        PROVE  Head(s) = "echo" /\ t \in {<<>>, <<"wait">>}
    <2>1. Head(s) = "echo"
      BY <1>1, <1>2, <1>3, <1>5
    <2>2. n = 0 \/ (n = 1 /\ t[1] = "wait")
      <3> HIDE DEF u, m, n
      <3>1. CASE n = 1
        <4>1. m = 1 /\ 1 \in 1 .. n
          BY <1>1, <1>2, <1>3, <1>5, <3>1
        <4>2. u[m + 1] = t[1]
          BY <1>1, <4>1
        <4>3. QED
          BY <1>1, <1>2, <3>1, <4>1, <4>2
      <3>2. QED
        BY <1>1, <1>2, <1>3, <1>5, <3>1
    <2>3. QED
      BY <2>1, <2>2
  <1>6. ASSUME s # <<>>, u = <<"echo", "wait">>, t = <<>>
        PROVE  Has(Tail(s), "wait")
    <2>1. m = 2
      BY <1>1, <1>6
    <2>2. s[2] = "wait"
      BY <1>1, <1>2, <1>6, <2>1
    <2>3. /\ DOMAIN Tail(s) = 1 .. m - 1
          /\ \A i \in 1 .. m - 1 : Tail(s)[i] = s[i + 1]
      OBVIOUS
    <2>4. 1 \in DOMAIN Tail(s) /\ Tail(s)[1] = "wait"
      <3> HIDE DEF m
      <3>1. 1 \in 1 .. m - 1 /\ 1 + 1 = 2
        BY <2>1
      <3>2. QED
        BY <2>2, <2>3, <3>1
    <2>5. QED
      BY <2>4 DEF Has
  <1>7. ASSUME t # <<>>
        PROVE  Append(s, Head(t)) \o Tail(t) = u
    <2> DEFINE h == <<Head(t)>>
    <2>1. /\ h \in Seq(Co!Kinds) /\ Tail(t) \in Seq(Co!Kinds)
          /\ t = h \o Tail(t)
          /\ Append(s, Head(t)) = s \o h
      BY <1>7
    <2> DEFINE K == Co!Kinds
               r == Tail(t)
    <2>2. s \in Seq(K) /\ h \in Seq(K) /\ r \in Seq(K)
      BY <2>1
    <2> HIDE DEF h, K, r
    <2>3. (s \o h) \o r = s \o (h \o r)
      BY <2>2, ConcatAssociative
    <2>4. QED
      BY <2>1, <2>3 DEF r
  <1>8. ASSUME t # <<>>, Head(t) = "echo"
        PROVE  s = <<>>
    <2>1. CASE m = 0
      BY <1>3, <2>1
    <2>2. CASE m = 1
      <3>1. u[2] = "echo" /\ Len(u) = 2
        <4>1. n = 1
          BY <1>1, <1>2, <1>4, <1>8, <2>2
        <4>2. u[m + 1] = t[1]
          BY <1>1, <4>1
        <4>3. QED
          BY <1>1, <1>8, <2>2, <4>1, <4>2
      <3>2. QED
        BY <1>2, <3>1
    <2>3. QED
      BY <1>1, <1>2, <1>4, <1>8, <2>1, <2>2
  <1>9. QED
    BY <1>5, <1>6, <1>7, <1>8

(***************************************************************************)
(* The invariant of CoSession.                                             *)
(***************************************************************************)
LEMMA CoTimed ==
  /\ Co!Timed <=> \/ armed \/ fired > 0
                  \/ Has(strand, "fired") \/ Has(strand, "wait")
  /\ Co!Timed' <=> \/ armed' \/ fired' > 0
                   \/ Has(strand', "fired") \/ Has(strand', "wait")
  BY DEF Co!Timed, Co!Queued, Has

LEMMA CoOneEcho ==
  /\ Co!OneEcho <=> /\ Once(strand)
                    /\ Has(strand, "echo") => echo = "new" \/ result = "queued"
  /\ Co!OneEcho' <=> /\ Once(strand')
                     /\ Has(strand', "echo") => echo' = "new" \/ result' = "queued"
  BY DEF Co!OneEcho, Co!Queued, Has, Once

LEMMA CoInitial == Co!Init => Co!Inv
  <1> SUFFICES ASSUME Co!Init
               PROVE  Co!Inv
    OBVIOUS
  <1> USE DEF Co!Init
  <1>1. spawning \in Seq(Co!Kinds) /\ strand \in Seq(Co!Kinds)
    <2>1. "echo" \in Co!Kinds /\ "wait" \in Co!Kinds
      BY DEF Co!Kinds
    <2>2. /\ <<"echo">> \in Seq(Co!Kinds) /\ <<"echo", "wait">> \in Seq(Co!Kinds)
          /\ <<>> \in Seq(Co!Kinds)
      BY <2>1
    <2>3. QED
      BY <2>2
  <1>2. Co!TypeOK
    BY <1>1, TicksType, CoTicks DEF Co!TypeOK
  <1>3. Co!Watched /\ Co!Punctual
    BY DEF Co!Watched, Co!Punctual
  <1>4. Co!EchoFirst
    <2>1. <<>> \o <<"echo">> = <<"echo">> /\ <<>> \o <<"echo", "wait">> = <<"echo", "wait">>
      OBVIOUS
    <2>2. CASE withTimeout
      BY <2>1, <2>2 DEF Co!EchoFirst
    <2>3. CASE ~withTimeout
      BY <2>1, <2>3 DEF Co!EchoFirst
    <2>4. QED
      BY <2>2, <2>3
  <1>5. Co!OneEcho
    BY DEF Co!OneEcho, Co!Queued
  <1>6. QED
    BY <1>2, <1>3, <1>4, <1>5 DEF Co!Inv

\* Until the echo coroutine runs there is nothing else.
LEMMA CoNew ==
  ASSUME Co!Inv
  PROVE  /\ spawning \in Seq(Co!Kinds) /\ strand \in Seq(Co!Kinds)
         /\ echo = "new" => /\ ~error /\ ~armed /\ fired = 0 /\ aborted = 0
                            /\ strand # <<>> => Head(strand) = "echo"
         /\ spawning \in {<<>>, <<"wait">>} \/ (echo = "new" /\ strand = <<>>)
         /\ strand # <<>> /\ spawning = <<>> /\ echo = "new" /\ ~withTimeout
              => Has(Tail(strand), "wait")
         /\ result # "none" => echo # "new"
  <1> USE DEF Co!Inv
  <1>1. spawning \in Seq(Co!Kinds) /\ strand \in Seq(Co!Kinds)
    BY DEF Co!TypeOK
  <1>2. CASE echo = "new"
    <2>1. strand \o spawning \in {<<"echo">>, <<"echo", "wait">>}
      BY <1>2 DEF Co!EchoFirst
    <2>2. ~withTimeout => strand \o spawning = <<"echo", "wait">>
      BY <1>2 DEF Co!EchoFirst
    <2>3. ~error /\ ~armed /\ fired = 0 /\ aborted = 0
      BY <1>2 DEF Co!EchoFirst
    <2>4. result = "none"
      BY <1>2 DEF Co!TypeOK
    <2>5. /\ strand # <<>> => /\ Head(strand) = "echo"
                              /\ spawning \in {<<>>, <<"wait">>}
          /\ strand # <<>> /\ strand \o spawning = <<"echo", "wait">> /\ spawning = <<>>
               => Has(Tail(strand), "wait")
      BY <1>1, <2>1, SpawnSplit
    <2>6. QED
      BY <1>1, <1>2, <2>2, <2>3, <2>4, <2>5
  <1>3. CASE echo # "new"
    BY <1>1, <1>3 DEF Co!EchoFirst
  <1>4. QED
    BY <1>2, <1>3

LEMMA CoSpawn ==
  ASSUME Co!Inv, Co!Spawn
  PROVE  Co!Inv'
  <1> USE DEF Co!Inv
  <1> DEFINE k == Head(spawning)
  <1>1. /\ spawning # <<>> /\ strand' = Append(strand, k)
        /\ spawning' = Tail(spawning)
        /\ UNCHANGED <<withTimeout, open, echo, result, error, armed, tleft,
                       fired, aborted, left, idle>>
    BY DEF Co!Spawn, Co!socket, Co!timer
  <1>2. /\ strand \in Seq(Co!Kinds) /\ spawning \in Seq(Co!Kinds)
        /\ k \in Co!Kinds /\ Tail(spawning) \in Seq(Co!Kinds)
    BY <1>1, CoNew
  <1>3. echo # "new" => k = "wait" /\ Tail(spawning) = <<>>
    BY <1>1, CoNew
  <1>4. echo = "new" => /\ Append(strand, k) \o Tail(spawning) = strand \o spawning
                        /\ k = "echo" => strand = <<>>
    <2> SUFFICES ASSUME echo = "new"
                 PROVE  /\ Append(strand, k) \o Tail(spawning) = strand \o spawning
                        /\ k = "echo" => strand = <<>>
      OBVIOUS
    <2>1. strand \o spawning \in {<<"echo">>, <<"echo", "wait">>}
      BY DEF Co!EchoFirst
    <2>2. QED
      BY <1>1, <1>2, <2>1, SpawnSplit
  <1> HIDE DEF k
  <1>5. /\ strand' \in Seq(Co!Kinds)
        /\ \A c : Has(strand', c) <=> Has(strand, c) \/ c = k
        /\ Once(strand) /\ (k = "echo" => ~Has(strand, "echo")) => Once(strand')
    BY <1>1, <1>2, AppendHas
  <1>6. Co!TypeOK'
    BY <1>1, <1>2, <1>5 DEF Co!TypeOK
  <1>7. Co!Watched'
    <2>1. echo # "new" => Has(strand', "wait")
      BY <1>3, <1>5
    <2>2. echo # "new" => Co!Timed'
      BY <2>1, CoTimed
    <2>3. ~withTimeout /\ armed => tleft <= left
      BY DEF Co!Punctual
    <2>4. QED
      BY <1>1, <2>2, <2>3 DEF Co!Watched
  <1>8. Co!EchoFirst'
    <2>1. CASE echo = "new"
      <3>1. strand' \o spawning' = strand \o spawning
        BY <1>1, <1>4, <2>1
      <3>2. QED
        BY <1>1, <2>1, <3>1 DEF Co!EchoFirst
    <2>2. CASE echo # "new"
      BY <1>1, <1>3, <2>2 DEF Co!EchoFirst
    <2>3. QED
      BY <2>1, <2>2
  <1>9. Co!OneEcho'
    <2>1. ~Has(<<>>, "echo")
      BY DEF Has
    <2>2. k = "echo" => echo = "new" /\ ~Has(strand, "echo")
      BY <1>3, <1>4, <2>1
    <2>3. QED
      BY <1>1, <1>5, <2>2, CoOneEcho
  <1>10. Co!Punctual'
    BY <1>1 DEF Co!Punctual
  <1>11. QED
    BY <1>6, <1>7, <1>8, <1>9, <1>10

\* The coroutine at the head of the strand is resumed.
LEMMA CoResumes ==
  ASSUME Co!Inv, NEW k, Co!Resumes(k)
  PROVE  /\ Tail(strand) \in Seq(Co!Kinds)
         /\ \A c : Has(strand, c) <=> Has(Tail(strand), c) \/ c = k
         /\ Once(Tail(strand))
         /\ k = "echo" => /\ ~Has(Tail(strand), "echo")
                          /\ echo = "new" \/ result = "queued"
         /\ k # "echo" => echo # "new"
         /\ spawning \in {<<>>, <<"wait">>}
  <1> USE DEF Co!Inv, Co!Resumes
  <1>1. strand \in Seq(Co!Kinds) /\ strand # <<>> /\ Head(strand) = k
    BY CoNew
  <1>2. Once(strand) /\ (Has(strand, "echo") => echo = "new" \/ result = "queued")
    BY CoOneEcho
  <1>3. /\ Tail(strand) \in Seq(Co!Kinds)
        /\ \A c : Has(strand, c) <=> Has(Tail(strand), c) \/ c = Head(strand)
        /\ Once(strand) => Once(Tail(strand))
        /\ Once(strand) /\ Head(strand) = "echo" => ~Has(Tail(strand), "echo")
    BY <1>1, TailHas
  <1>4. /\ echo = "new" => Head(strand) = "echo"
        /\ spawning \in {<<>>, <<"wait">>}
    BY <1>1, CoNew
  <1>5. QED
    BY <1>1, <1>2, <1>3, <1>4

LEMMA CoEchoOn ==
  ASSUME Co!Inv, Co!EchoOn
  PROVE  Co!Inv'
  <1> USE TicksType, CoTicks DEF Co!Inv
  <1> DEFINE rest == Tail(strand)
  <1>1. /\ Co!Resumes("echo") /\ UNCHANGED <<withTimeout, spawning, open>>
        /\ echo' = Co!Other
        /\ result' = IF open THEN "pending" ELSE "error"
        /\ error' = FALSE /\ idle' = 0
    BY DEF Co!EchoOn, Co!Begins, Co!Resumes
  <1>2. echo' \in {"receive", "send"} /\ result' \in {"pending", "error"}
    BY <1>1 DEF Co!Other
  <1>3. /\ rest \in Seq(Co!Kinds) /\ Once(rest) /\ ~Has(rest, "echo")
        /\ echo = "new" \/ result = "queued"
        /\ \A c : Has(strand, c) <=> Has(rest, c) \/ c = "echo"
        /\ spawning \in {<<>>, <<"wait">>}
    BY <1>1, CoResumes
  <1>4. echo # "new" => echo \in {"receive", "send"}
    BY <1>3 DEF Co!TypeOK
  <1>5. Co!EchoFirst'
    BY <1>1, <1>2, <1>3 DEF Co!EchoFirst
  <1>6. CASE withTimeout
    <2> HIDE DEF rest
    <2>1. left' = left /\ Co!SpawnWait(rest)
      BY <1>6 DEF Co!EchoOn, rest
    <2>2. CASE strand' = Append(rest, "wait") /\ Co!Cancel
      <3>1. armed' = FALSE /\ tleft' = 0 /\ aborted' = Co!Cancelled /\ fired' = fired
        BY <2>2 DEF Co!Cancel
      <3>2. /\ strand' \in Seq(Co!Kinds)
            /\ \A c : Has(strand', c) <=> Has(rest, c) \/ c = "wait"
            /\ Once(strand')
        <4>1. "wait" \in Co!Kinds
          BY DEF Co!Kinds
        <4>2. QED
          BY <1>3, <2>2, <4>1, AppendHas
      <3>3. Co!Cancelled \in Nat
        BY DEF Co!Cancelled, Co!TypeOK
      <3>4. armed' \in BOOLEAN /\ error' \in BOOLEAN
        BY <1>1, <3>1
      <3>5. Co!TypeOK'
        BY <1>1, <1>2, <2>1, <3>1, <3>2, <3>3, <3>4 DEF Co!TypeOK
      <3>6. Co!Watched'
        BY <1>1, <1>6, <3>2, CoTimed DEF Co!Watched
      <3>7. Co!OneEcho'
        BY <1>3, <3>2, CoOneEcho
      <3>8. Co!Punctual'
        BY <1>1, <1>6 DEF Co!Punctual
      <3>9. QED
        BY <1>5, <3>5, <3>6, <3>7, <3>8
    <2>3. CASE strand' = rest /\ Co!Arm(Timeout)
      <3>1. armed' = TRUE /\ tleft' = Timeout /\ aborted' = Co!Cancelled /\ fired' = fired
        BY <2>3 DEF Co!Arm
      <3>3. Co!Cancelled \in Nat
        BY DEF Co!Cancelled, Co!TypeOK
      <3>4. armed' \in BOOLEAN /\ error' \in BOOLEAN
        BY <1>1, <3>1
      <3>5. Co!TypeOK'
        BY <1>1, <1>2, <1>3, <2>1, <2>3, <3>1, <3>3, <3>4 DEF Co!TypeOK
      <3>6. Co!Watched'
        BY <1>1, <1>6, <3>1, CoTimed DEF Co!Watched
      <3>7. Co!OneEcho'
        BY <1>3, <2>3, CoOneEcho
      <3>8. Co!Punctual'
        BY <1>1, <1>6 DEF Co!Punctual
      <3>9. QED
        BY <1>5, <3>5, <3>6, <3>7, <3>8
    <2>4. QED
      BY <2>1, <2>2, <2>3 DEF Co!SpawnWait
  <1>7. CASE ~withTimeout
    <2>1. /\ strand' = rest /\ left' = Timeout
          /\ UNCHANGED <<armed, tleft, fired, aborted>>
      BY <1>7 DEF Co!EchoOn, Co!timer
    <2>2. spawning = <<>> /\ echo = "new" => Has(rest, "wait")
      BY <1>1, <1>7, CoNew DEF Co!Resumes
    <2> HIDE DEF rest
    <2>3. Co!TypeOK'
      <3>1. error' \in BOOLEAN
        BY <1>1
      <3>2. QED
        BY <1>1, <1>2, <1>3, <2>1, <3>1 DEF Co!TypeOK
    <2>4. Co!Punctual'
      <3>1. left' + idle' >= Timeout /\ tleft' <= left'
        BY <1>1, <2>1 DEF Co!TypeOK
      <3>2. QED
        BY <3>1 DEF Co!Punctual
    <2>5. Co!Watched'
      <3>1. ASSUME open, spawning = <<>>
            PROVE  Co!Timed'
        <4>1. CASE echo = "new"
          BY <2>1, <2>2, <3>1, <4>1, CoTimed
        <4>2. CASE echo # "new"
          <5>1. Co!Timed
            BY <1>4, <3>1, <4>2 DEF Co!Watched
          <5>2. QED
            BY <1>3, <2>1, <5>1, CoTimed
        <4>3. QED
          BY <4>1, <4>2
      <3>2. ~withTimeout' /\ armed' => tleft' <= left'
        BY <2>4 DEF Co!Punctual
      <3>3. QED
        BY <1>1, <3>1, <3>2 DEF Co!Watched
    <2>6. Co!OneEcho'
      BY <1>3, <2>1, CoOneEcho
    <2>7. QED
      BY <1>5, <2>3, <2>4, <2>5, <2>6
  <1>8. QED
    BY <1>6, <1>7

LEMMA CoEchoEnds ==
  ASSUME Co!Inv, Co!EchoEnds
  PROVE  Co!Inv'
  <1> USE TicksType, CoTicks DEF Co!Inv
  <1> DEFINE rest == Tail(strand)
  <1>1. /\ Co!Resumes("echo") /\ strand' = rest
        /\ echo' = "over" /\ result' = "none" /\ error' = FALSE
        /\ armed' = FALSE /\ tleft' = 0 /\ aborted' = Co!Cancelled
        /\ UNCHANGED <<withTimeout, spawning, open, left, idle, fired>>
        /\ error
    BY DEF Co!EchoEnds, Co!Cancel, Co!Resumes
  <1>2. /\ rest \in Seq(Co!Kinds) /\ Once(rest) /\ ~Has(rest, "echo")
        /\ spawning \in {<<>>, <<"wait">>}
    BY <1>1, CoResumes
  <1>3. echo # "new"
    BY <1>1, CoNew
  <1>4. Co!Cancelled \in Nat
    BY DEF Co!Cancelled, Co!TypeOK
  <1>5. armed' \in BOOLEAN /\ error' \in BOOLEAN
    BY <1>1
  <1> HIDE DEF rest
  <1>6. Co!TypeOK'
    BY <1>1, <1>2, <1>4, <1>5 DEF Co!TypeOK
  <1>7. Co!Watched'
    BY <1>1 DEF Co!Watched
  <1>8. Co!EchoFirst'
    BY <1>1, <1>2 DEF Co!EchoFirst
  <1>9. Co!OneEcho'
    BY <1>1, <1>2, CoOneEcho
  <1>10. Co!Punctual'
    BY <1>1, <1>3 DEF Co!Punctual
  <1>11. QED
    BY <1>6, <1>7, <1>8, <1>9, <1>10

\* The coroutines of the timer.
LEMMA CoTimers ==
  ASSUME Co!Inv, Co!WaitBegins \/ Co!WaitCloses \/ Co!WatchLooks \/ Co!WaitEnds
  PROVE  Co!Inv'
  <1> USE TicksType, CoTicks DEF Co!Inv
  <1> DEFINE rest == Tail(strand)
  <1>1. /\ strand' = rest
        /\ UNCHANGED <<withTimeout, spawning, echo, error, left, idle, fired>>
    BY DEF Co!WaitBegins, Co!WaitCloses, Co!WatchLooks, Co!WaitEnds, Co!Close,
           Co!Arm, Co!Resumes, Co!socket, Co!timer
  <1>2. PICK k \in {"wait", "fired", "aborted"} : Co!Resumes(k)
    BY DEF Co!WaitBegins, Co!WaitCloses, Co!WatchLooks, Co!WaitEnds
  <1>3. /\ rest \in Seq(Co!Kinds) /\ Once(rest)
        /\ \A c : Has(strand, c) <=> Has(rest, c) \/ c = k
        /\ echo # "new" /\ spawning \in {<<>>, <<"wait">>}
    BY <1>2, CoResumes
  <1> HIDE DEF rest
  <1>4. Co!EchoFirst'
    BY <1>1, <1>3 DEF Co!EchoFirst
  <1>5. CASE /\ open' = FALSE /\ UNCHANGED <<armed, tleft, fired, aborted>>
             /\ result' = IF result = "pending" THEN "error" ELSE result
    <2>1. Co!TypeOK'
      BY <1>1, <1>3, <1>5 DEF Co!TypeOK
    <2>2. Co!Watched'
      BY <1>5 DEF Co!Watched
    <2>3. Co!OneEcho'
      BY <1>1, <1>3, <1>5, CoOneEcho
    <2>4. Co!Punctual'
      BY <1>1, <1>5 DEF Co!Punctual
    <2>5. QED
      BY <1>4, <2>1, <2>2, <2>3, <2>4
  <1>6. ASSUME NEW n \in Ticks, Co!Arm(n), UNCHANGED <<open, result>>,
               ~withTimeout => n = left
        PROVE  Co!Inv'
    <2>1. armed' = TRUE /\ tleft' = n /\ aborted' = Co!Cancelled
      BY <1>6 DEF Co!Arm
    <2>2. Co!Cancelled \in Nat
      BY DEF Co!Cancelled, Co!TypeOK
    <2>3. armed' \in BOOLEAN
      BY <2>1
    <2>4. Co!TypeOK'
      BY <1>1, <1>3, <1>6, <2>1, <2>2, <2>3 DEF Co!TypeOK
    <2>5. Co!Punctual'
      <3>1. ~withTimeout => left' + idle' >= Timeout /\ tleft' <= left'
        <4>1. ~withTimeout => left + idle >= Timeout
          BY <1>3 DEF Co!Punctual
        <4>2. left \in Ticks
          BY DEF Co!TypeOK
        <4>3. QED
          BY <1>1, <1>6, <2>1, <4>1, <4>2
      <3>2. QED
        BY <1>1, <3>1 DEF Co!Punctual
    <2>6. Co!Watched'
      <3>1. Co!Timed'
        BY <2>1, CoTimed
      <3>2. ~withTimeout' /\ armed' => tleft' <= left'
        BY <2>5 DEF Co!Punctual
      <3>3. QED
        BY <3>1, <3>2 DEF Co!Watched
    <2>7. Co!OneEcho'
      BY <1>1, <1>3, <1>6, CoOneEcho
    <2>8. QED
      BY <1>4, <2>4, <2>5, <2>6, <2>7
  <1>7. CASE Co!WaitBegins
    BY <1>6, <1>7 DEF Co!WaitBegins, Co!socket
  <1>8. CASE Co!WaitCloses
    BY <1>5, <1>8 DEF Co!WaitCloses, Co!Close, Co!timer
  <1>9. CASE Co!WatchLooks
    <2>1. CASE left = 0
      BY <1>5, <1>9, <2>1 DEF Co!WatchLooks, Co!Close, Co!timer
    <2>2. CASE left # 0
      <3>1. left \in Ticks /\ Co!Arm(left) /\ UNCHANGED <<open, result>>
        BY <1>9, <2>2 DEF Co!WatchLooks, Co!socket, Co!TypeOK
      <3>2. QED
        BY <1>6, <3>1
    <2>3. QED
      BY <2>1, <2>2
  <1>10. CASE Co!WaitEnds
    <2>1. /\ UNCHANGED <<open, result, armed, tleft, aborted>>
          /\ Co!Resumes("aborted")
      BY <1>10 DEF Co!WaitEnds, Co!socket, Co!timer
    <2>2. \A c : Has(strand, c) <=> Has(rest, c) \/ c = "aborted"
      BY <2>1, CoResumes DEF rest
    <2>3. Co!TypeOK'
      BY <1>1, <1>3, <2>1 DEF Co!TypeOK
    <2>4. Co!Watched'
      <3>1. Co!Timed => Co!Timed'
        BY <1>1, <2>1, <2>2, CoTimed
      <3>2. QED
        BY <1>1, <2>1, <3>1 DEF Co!Watched
    <2>5. Co!OneEcho'
      BY <1>1, <1>3, <2>1, CoOneEcho
    <2>6. Co!Punctual'
      BY <1>1, <2>1 DEF Co!Punctual
    <2>7. QED
      BY <1>4, <2>3, <2>4, <2>5, <2>6
  <1>11. QED
    BY <1>7, <1>8, <1>9, <1>10

\* A thread puts a resumption into the strand.
LEMMA CoQueues ==
  ASSUME Co!Inv, Co!EchoQueued \/ Co!FiredQueued \/ Co!AbortedQueued
  PROVE  Co!Inv'
  <1> USE TicksType, CoTicks DEF Co!Inv
  <1>1. /\ UNCHANGED <<withTimeout, spawning, open, echo, armed, tleft, left, idle>>
        /\ echo # "new" /\ strand \in Seq(Co!Kinds)
        /\ spawning \in {<<>>, <<"wait">>}
    BY CoNew DEF Co!EchoQueued, Co!FiredQueued, Co!AbortedQueued, Co!timer,
                 Co!socket
  <1>2. Co!EchoFirst'
    BY <1>1 DEF Co!EchoFirst
  <1>3. Co!Punctual'
    BY <1>1 DEF Co!Punctual
  <1>4. "echo" \in Co!Kinds /\ "fired" \in Co!Kinds /\ "aborted" \in Co!Kinds
    BY DEF Co!Kinds
  <1>5. Co!TypeOK' /\ Co!OneEcho' /\ (Co!Timed => Co!Timed')
    <2>1. CASE Co!EchoQueued
      <3>1. /\ result \in {"ok", "error"} /\ strand' = Append(strand, "echo")
            /\ error' = (result = "error") /\ result' = "queued"
            /\ UNCHANGED <<fired, aborted>>
        BY <2>1 DEF Co!EchoQueued, Co!timer
      <3>2. ~Has(strand, "echo") /\ Once(strand)
        BY <1>1, <3>1, CoOneEcho
      <3>3. /\ strand' \in Seq(Co!Kinds) /\ Once(strand')
            /\ \A c : Has(strand, c) => Has(strand', c)
        BY <1>1, <1>4, <3>1, <3>2, AppendHas
      <3>4. error' \in BOOLEAN
        BY <3>1
      <3>5. Co!TypeOK'
        BY <1>1, <3>1, <3>3, <3>4 DEF Co!TypeOK
      <3>6. Co!OneEcho'
        BY <3>1, <3>3, CoOneEcho
      <3>7. Co!Timed => Co!Timed'
        BY <1>1, <3>1, <3>3, CoTimed
      <3>8. QED
        BY <3>5, <3>6, <3>7
    <2>2. ASSUME NEW k \in {"fired", "aborted"}, strand' = Append(strand, k),
                 fired' \in Nat, aborted' \in Nat, UNCHANGED <<result, error>>,
                 fired' = fired \/ k = "fired"
          PROVE  Co!TypeOK' /\ Co!OneEcho' /\ (Co!Timed => Co!Timed')
      <3>1. Once(strand)
        BY CoOneEcho
      <3>2. /\ strand' \in Seq(Co!Kinds) /\ Once(strand')
            /\ \A c : Has(strand', c) <=> Has(strand, c) \/ c = k
        BY <1>1, <1>4, <2>2, <3>1, AppendHas
      <3>3. Co!TypeOK'
        BY <1>1, <2>2, <3>2 DEF Co!TypeOK
      <3>4. Co!OneEcho'
        BY <1>1, <2>2, <3>2, CoOneEcho
      <3>5. Co!Timed => Co!Timed'
        BY <1>1, <2>2, <3>2, CoTimed
      <3>6. QED
        BY <3>3, <3>4, <3>5
    <2>3. CASE Co!FiredQueued
      <3>1. /\ fired > 0 /\ fired' = fired - 1 /\ aborted' = aborted
            /\ fired \in Nat /\ aborted \in Nat
            /\ strand' = Append(strand, "fired") /\ UNCHANGED <<result, error>>
        BY <2>3 DEF Co!FiredQueued, Co!TypeOK, Co!socket
      <3>2. fired' \in Nat
        BY <3>1
      <3>3. QED
        BY <2>2, <3>1, <3>2
    <2>4. CASE Co!AbortedQueued
      <3>1. /\ aborted > 0 /\ aborted' = aborted - 1 /\ fired' = fired
            /\ fired \in Nat /\ aborted \in Nat
            /\ strand' = Append(strand, "aborted") /\ UNCHANGED <<result, error>>
        BY <2>4 DEF Co!AbortedQueued, Co!TypeOK, Co!socket
      <3>2. aborted' \in Nat
        BY <3>1
      <3>3. QED
        BY <2>2, <3>1, <3>2
    <2>5. QED
      BY <2>1, <2>3, <2>4
  <1>6. Co!Watched'
    BY <1>1, <1>5 DEF Co!Watched
  <1>7. QED
    BY <1>2, <1>3, <1>5, <1>6

\* The peer, the timer and time.
LEMMA CoWorld ==
  ASSUME Co!Inv, Co!SocketCompletes \/ Co!TimerExpires \/ Co!Tick
  PROVE  Co!Inv'
  <1> USE TicksType, CoTicks DEF Co!Inv
  <1>1. UNCHANGED <<withTimeout, spawning, strand, open, echo, error, aborted>>
    BY DEF Co!SocketCompletes, Co!TimerExpires, Co!Tick, Co!timer, Co!socket
  <1>2. CASE Co!SocketCompletes
    <2>1. /\ result = "pending" /\ result' \in {"ok", "error"}
          /\ UNCHANGED <<armed, tleft, fired, left, idle>>
      BY <1>2 DEF Co!SocketCompletes, Co!timer
    <2>2. Co!TypeOK'
      BY <1>1, <2>1 DEF Co!TypeOK
    <2>3. Co!Watched'
      <3>1. Co!Timed <=> Co!Timed'
        BY <1>1, <2>1, CoTimed
      <3>2. QED
        BY <1>1, <2>1, <3>1 DEF Co!Watched
    <2>4. Co!EchoFirst'
      BY <1>1, <2>1 DEF Co!EchoFirst
    <2>5. Co!OneEcho'
      BY <1>1, <2>1, CoOneEcho
    <2>6. Co!Punctual'
      BY <1>1, <2>1 DEF Co!Punctual
    <2>7. QED
      BY <2>2, <2>3, <2>4, <2>5, <2>6
  <1>3. CASE Co!TimerExpires
    <2>1. /\ armed /\ armed' = FALSE /\ fired' = fired + 1
          /\ UNCHANGED <<tleft, left, idle, result>>
          /\ fired \in Nat
      BY <1>3 DEF Co!TimerExpires, Co!socket, Co!TypeOK
    <2>2. fired' \in Nat /\ fired' > 0
      BY <2>1
    <2>3. armed' \in BOOLEAN
      BY <2>1
    <2>4. echo # "new"
      BY <2>1, CoNew
    <2>5. Co!TypeOK'
      BY <1>1, <2>1, <2>2, <2>3 DEF Co!TypeOK
    <2>6. Co!Watched'
      <3>1. Co!Timed'
        BY <2>2, CoTimed
      <3>2. QED
        BY <2>1, <3>1 DEF Co!Watched
    <2>7. Co!EchoFirst'
      BY <1>1, <2>4 DEF Co!EchoFirst
    <2>8. Co!OneEcho'
      BY <1>1, <2>1, CoOneEcho
    <2>9. Co!Punctual'
      BY <1>1, <2>1 DEF Co!Punctual
    <2>10. QED
      BY <2>5, <2>6, <2>7, <2>8, <2>9
  <1>4. CASE Co!Tick
    <2>1. /\ UNCHANGED <<armed, fired, result>>
          /\ tleft' = Minus1(tleft) /\ left' = Minus1(left)
          /\ idle' = IF idle < Timeout THEN idle + 1 ELSE idle
      BY <1>4 DEF Co!Tick, Co!socket, Minus1
    <2>2. tleft \in Ticks /\ left \in Ticks /\ idle \in Ticks
      BY DEF Co!TypeOK
    <2>3. tleft' \in Ticks /\ left' \in Ticks /\ idle' \in Ticks
      <3>1. idle' \in Ticks
        BY <2>1, <2>2 DEF Ticks
      <3>2. QED
        BY <2>1, <2>2, <3>1, Minus1Type
    <2>4. tleft <= left => tleft' <= left'
      BY <2>1, <2>2, Minus1Type
    <2>5. left + idle >= Timeout => left' + idle' >= Timeout
      <3>1. idle' = idle + 1 \/ idle' = Timeout
        BY <2>1, <2>2
      <3>2. QED
        BY <2>1, <2>2, <2>3, <3>1, Countdown
    <2>6. Co!TypeOK'
      BY <1>1, <2>1, <2>3 DEF Co!TypeOK
    <2>7. Co!Watched'
      <3>1. Co!Timed <=> Co!Timed'
        BY <1>1, <2>1, CoTimed
      <3>2. QED
        BY <1>1, <2>1, <2>4, <3>1 DEF Co!Watched
    <2>8. Co!EchoFirst'
      BY <1>1, <2>1 DEF Co!EchoFirst
    <2>9. Co!OneEcho'
      BY <1>1, <2>1, CoOneEcho
    <2>10. Co!Punctual'
      BY <1>1, <2>1, <2>4, <2>5 DEF Co!Punctual
    <2>11. QED
      BY <2>6, <2>7, <2>8, <2>9, <2>10
  <1>5. QED
    BY <1>2, <1>3, <1>4

\* Every step preserves the invariant.
LEMMA CoInductive == Co!Inv /\ [Co!Next]_Co!vars => Co!Inv'
  <1> SUFFICES ASSUME Co!Inv, [Co!Next]_Co!vars
               PROVE  Co!Inv'
    OBVIOUS
  <1>1. CASE UNCHANGED Co!vars
    BY <1>1 DEF Co!vars, Co!socket, Co!timer, Co!Inv, Co!TypeOK, Co!Watched,
       Co!Timed, Co!Queued, Co!EchoFirst, Co!OneEcho, Co!Punctual
  <1>2. CASE Co!Next
    BY <1>2, CoSpawn, CoEchoOn, CoEchoEnds, CoTimers, CoQueues, CoWorld
       DEF Co!Next, Co!Coroutines
  <1>3. QED
    BY <1>1, <1>2

(* A session of the coroutine server is never forgotten while it is open:  *)
(* someone waits on its timer, or will be resumed to do so.                *)
THEOREM CoInvariance == Co!Spec => []Co!Inv
  BY CoInitial, CoInductive, PTL DEF Co!Spec

(* The watchdog coroutine closes only a session that has started nothing   *)
(* for Timeout, and never one whose echo coroutine has yet to start.       *)
THEOREM CoClosedWhenIdle == Co!Spec => Co!ClosedWhenIdle
  <1> DEFINE Fair == open /\ ~open' => withTimeout \/ idle = Timeout
  <1>1. Co!Inv /\ [Co!Next]_Co!vars => [Fair]_Co!vars
    <2> SUFFICES ASSUME Co!Inv, Co!Next, open, ~open', ~withTimeout
                 PROVE  idle = Timeout
      BY DEF Fair
    <2>1. Co!WatchLooks /\ left = 0
      BY DEF Co!Next, Co!Coroutines, Co!Spawn, Co!EchoOn, Co!Begins,
             Co!EchoEnds, Co!WaitBegins, Co!WaitCloses, Co!WatchLooks,
             Co!WaitEnds, Co!EchoQueued, Co!FiredQueued, Co!AbortedQueued,
             Co!SocketCompletes, Co!TimerExpires, Co!Tick, Co!socket
    <2>2. PICK k \in {"wait", "fired"} : Co!Resumes(k)
      BY <2>1 DEF Co!WatchLooks
    <2>3. echo # "new"
      BY <2>2, CoResumes
    <2>4. left + idle >= Timeout /\ idle \in Ticks
      BY <2>3, CoTicks DEF Co!Inv, Co!TypeOK, Co!Punctual
    <2>5. QED
      BY <2>1, <2>4, TicksType
  <1>2. QED
    BY <1>1, CoInvariance, PTL DEF Co!Spec, Co!ClosedWhenIdle

(***************************************************************************)
(* The end of a session of the coroutine server.  Once its socket is       *)
(* closed or its echo coroutine over, what is still to come is bounded by  *)
(* the resumptions on the strand and those under way.                      *)
(***************************************************************************)
HowMany(s, k) == Cardinality({i \in DOMAIN s : s[i] = k})

LEMMA AppendMany ==
  ASSUME NEW s \in Seq(Co!Kinds), NEW k \in Co!Kinds, NEW c
  PROVE  /\ HowMany(s, c) \in Nat
         /\ HowMany(Append(s, k), c) = HowMany(s, c) + IF c = k THEN 1 ELSE 0
  <1> DEFINE t == Append(s, k)
             n == Len(s)
             S == {i \in 1 .. n : s[i] = c}
             T == {i \in 1 .. n + 1 : t[i] = c}
  <1>1. /\ n \in Nat /\ DOMAIN s = 1 .. n /\ DOMAIN t = 1 .. n + 1
        /\ \A i \in 1 .. n : t[i] = s[i]
        /\ t[n + 1] = k
    OBVIOUS
  <1>2. HowMany(s, c) = Cardinality(S) /\ HowMany(t, c) = Cardinality(T)
    BY <1>1 DEF HowMany
  <1>3. IsFiniteSet(S) /\ Cardinality(S) \in Nat
    <2>1. IsFiniteSet(1 .. n) /\ S \in SUBSET (1 .. n)
      BY <1>1, FS_Interval
    <2> HIDE DEF S
    <2>2. IsFiniteSet(S)
      BY <2>1, FS_Subset
    <2>3. QED
      BY <2>2, FS_CardinalityType
  <1> HIDE DEF t, n
  <1>4. \A i : i \in 1 .. n + 1 <=> i \in 1 .. n \/ i = n + 1
    BY <1>1
  <1>5. n + 1 \notin S
    BY <1>1
  <1>6. CASE c = k
    <2>1. T = S \cup {n + 1}
      BY <1>1, <1>4, <1>6
    <2> HIDE DEF S, T
    <2>2. Cardinality(S \cup {n + 1}) = Cardinality(S) + 1
      BY <1>3, <1>5, FS_AddElement
    <2>3. QED
      BY <1>2, <1>3, <1>6, <2>1, <2>2 DEF t
  <1>7. CASE c # k
    <2>1. T = S
      BY <1>1, <1>4, <1>7
    <2> HIDE DEF S, T
    <2>2. QED
      BY <1>2, <1>3, <1>7, <2>1 DEF t
  <1>8. QED
    BY <1>6, <1>7

LEMMA TailMany ==
  ASSUME NEW s \in Seq(Co!Kinds), s # <<>>, NEW c
  PROVE  /\ HowMany(Tail(s), c) \in Nat
         /\ HowMany(s, c) = HowMany(Tail(s), c) + IF c = Head(s) THEN 1 ELSE 0
  <1> DEFINE t == Tail(s)
             n == Len(s)
             S == {i \in 2 .. n : s[i] = c}
             T == {i \in 1 .. n - 1 : t[i] = c}
             U == {i \in 1 .. n : s[i] = c}
             f == [i \in T |-> i + 1]
  <1>1. /\ n \in Nat \ {0} /\ DOMAIN s = 1 .. n /\ DOMAIN t = 1 .. n - 1
        /\ \A i \in 1 .. n - 1 : t[i] = s[i + 1]
        /\ Head(s) = s[1]
    OBVIOUS
  <1>2. HowMany(s, c) = Cardinality(U) /\ HowMany(t, c) = Cardinality(T)
    BY <1>1 DEF HowMany
  <1> HIDE DEF t, n
  <1>3. IsFiniteSet(T) /\ Cardinality(T) \in Nat
    <2>1. IsFiniteSet(1 .. n - 1) /\ T \in SUBSET (1 .. n - 1)
      <3>1. n - 1 \in Int
        BY <1>1
      <3>2. IsFiniteSet(1 .. n - 1)
        BY <3>1, FS_Interval
      <3>3. QED
        BY <3>2
    <2> HIDE DEF T
    <2>2. IsFiniteSet(T)
      BY <2>1, FS_Subset
    <2>3. QED
      BY <2>2, FS_CardinalityType
  <1>4. /\ \A i \in 1 .. n - 1 : i + 1 \in 2 .. n
        /\ \A i \in 2 .. n : i - 1 \in 1 .. n - 1 /\ (i - 1) + 1 = i
        /\ \A i \in 1 .. n - 1, j \in 1 .. n - 1 : i + 1 = j + 1 => i = j
        /\ \A i : i \in 1 .. n <=> i \in 2 .. n \/ i = 1
    BY <1>1
  <1>5. IsFiniteSet(S) /\ Cardinality(S) = Cardinality(T)
    <2>1. f \in [T -> S]
      BY <1>1, <1>4
    <2>2. \A i \in T, j \in T : f[i] = f[j] => i = j
      BY <1>4
    <2>3. \A j \in S : \E i \in T : f[i] = j
      <3> SUFFICES ASSUME NEW j \in S
                   PROVE  \E i \in T : f[i] = j
        OBVIOUS
      <3>1. j \in 2 .. n /\ s[j] = c
        OBVIOUS
      <3>2. j - 1 \in 1 .. n - 1 /\ (j - 1) + 1 = j
        BY <1>4, <3>1
      <3>3. t[j - 1] = c
        BY <1>1, <3>1, <3>2
      <3>4. j - 1 \in T
        BY <3>2, <3>3
      <3>5. f[j - 1] = j
        BY <3>2, <3>4
      <3>6. QED
        BY <3>4, <3>5
    <2> HIDE DEF f, S, T
    <2>4. f \in Injection(T, S)
      BY <2>1, <2>2, Fun_IsInj
    <2>5. f \in Surjection(T, S)
      BY <2>1, <2>3, Fun_IsSurj
    <2>6. QED
      BY <1>3, <2>4, <2>5, FS_Surjection
  <1>6. 1 \notin S
    BY <1>1
  <1>7. CASE c = Head(s)
    <2>1. U = S \cup {1}
      BY <1>1, <1>4, <1>7
    <2> HIDE DEF S, T, U
    <2>2. Cardinality(S \cup {1}) = Cardinality(S) + 1
      BY <1>5, <1>6, FS_AddElement
    <2>3. QED
      BY <1>2, <1>3, <1>5, <1>7, <2>1, <2>2 DEF t
  <1>8. CASE c # Head(s)
    <2>1. U = S
      BY <1>1, <1>4, <1>8
    <2> HIDE DEF S, T, U
    <2>2. QED
      BY <1>2, <1>3, <1>5, <1>8, <2>1 DEF t
  <1>9. QED
    BY <1>7, <1>8

\* The end has begun.  Nothing is pending on a closed socket, and no echo
\* coroutine is new when it is closed.
Ending == ~open \/ echo = "over"
CoShut == ~open => result # "pending" /\ echo # "new"

LEMMA CoShutInitial == Co!Init => CoShut
  BY DEF Co!Init, CoShut

LEMMA CoShutInductive == Co!Inv /\ CoShut /\ [Co!Next]_Co!vars => CoShut'
  <1> SUFFICES ASSUME Co!Inv, CoShut, [Co!Next]_Co!vars
               PROVE  CoShut'
    OBVIOUS
  <1> USE DEF CoShut
  <1>1. CASE UNCHANGED Co!vars
    BY <1>1 DEF Co!vars, Co!socket
  <1>2. CASE Co!EchoOn
    BY <1>2 DEF Co!EchoOn, Co!Begins, Co!Other
  <1>3. CASE Co!EchoEnds \/ Co!Tick \/ Co!TimerExpires \/ Co!FiredQueued
             \/ Co!AbortedQueued \/ Co!EchoQueued \/ Co!Spawn
    BY <1>3 DEF Co!EchoEnds, Co!Tick, Co!TimerExpires, Co!FiredQueued,
                Co!AbortedQueued, Co!EchoQueued, Co!Spawn, Co!socket
  <1>4. CASE Co!SocketCompletes
    BY <1>4 DEF Co!SocketCompletes
  <1>5. CASE Co!WaitBegins \/ Co!WaitEnds
    BY <1>5 DEF Co!WaitBegins, Co!WaitEnds, Co!socket
  <1>6. CASE Co!WaitCloses \/ Co!WatchLooks
    <2>1. \E k \in {"wait", "fired"} : Co!Resumes(k)
      BY <1>6 DEF Co!WaitCloses, Co!WatchLooks
    <2>2. echo # "new"
      BY <2>1, CoResumes
    <2>3. UNCHANGED Co!socket \/ Co!Close
      BY <1>6 DEF Co!WaitCloses, Co!WatchLooks
    <2>4. QED
      BY <2>2, <2>3 DEF Co!Close, Co!socket
  <1>7. QED
    BY <1>1, <1>2, <1>3, <1>4, <1>5, <1>6 DEF Co!Next, Co!Coroutines

\* What is on the strand, and what start () has yet to put there.
Waits  == HowMany(strand, "wait")
Fires  == HowMany(strand, "fired")
Aborts == HowMany(strand, "aborted")
Starts == Len(spawning)

\* A good result that the echo coroutine has yet to see may, in watchdog mode,
\* put deadline_ off once more.
OnceMore == IF result = "ok" \/ (result = "queued" /\ ~error) THEN 3 ELSE 0

\* The cost of a coroutine that will look at the timer: in watchdog mode it
\* waits again when deadline_ is ahead.
LookCost == IF withTimeout THEN 1
                           ELSE (IF left > 0 THEN 4 ELSE 1) + OnceMore
WaitCost == IF ~armed THEN 0
            ELSE IF withTimeout THEN 3
                 ELSE (IF tleft < left THEN 6 ELSE 3) + OnceMore
EchoCost == CASE result = "ok" -> 8
              [] result = "error" -> 2
              [] result = "queued" -> IF error THEN 1 ELSE 7
              [] OTHER -> 0
Lookers  == Waits + Fires + fired + Starts
CoRest   == Aborts + 2 * aborted + fired + (IF withTimeout THEN 3 * Waits ELSE 0)
              + 4 * Starts + WaitCost + EchoCost
CoWork   == CoRest + Lookers * LookCost

LEMMA CoCounts ==
  ASSUME Co!TypeOK
  PROVE  /\ Waits \in Nat /\ Fires \in Nat /\ Aborts \in Nat /\ Starts \in Nat
         /\ fired \in Nat /\ aborted \in Nat /\ Lookers \in Nat
  <1>1. strand \in Seq(Co!Kinds) /\ spawning \in Seq(Co!Kinds)
        /\ fired \in Nat /\ aborted \in Nat
    BY DEF Co!TypeOK
  <1>2. "wait" \in Co!Kinds
    BY DEF Co!Kinds
  <1>3. Waits \in Nat /\ Fires \in Nat /\ Aborts \in Nat
    BY <1>1, <1>2, AppendMany DEF Waits, Fires, Aborts
  <1>4. Starts \in Nat
    BY <1>1 DEF Starts
  <1>5. QED
    BY <1>1, <1>3, <1>4 DEF Lookers

LEMMA CoCosts ==
  ASSUME Co!TypeOK
  PROVE  /\ OnceMore \in {0, 3}
         /\ LookCost \in 1 .. 7
         /\ WaitCost \in 0 .. 9 /\ (armed => WaitCost >= 3)
         /\ EchoCost \in {0, 1, 2, 7, 8}
         /\ CoRest \in Nat /\ CoWork \in Nat
  <1>1. OnceMore \in {0, 3}
    BY DEF OnceMore
  <1>2. LookCost \in 1 .. 7
    BY <1>1, TicksType, CoTicks DEF LookCost, Co!TypeOK
  <1>3. WaitCost \in 0 .. 9 /\ (armed => WaitCost >= 3)
    BY <1>1, TicksType, CoTicks DEF WaitCost, Co!TypeOK
  <1>4. EchoCost \in {0, 1, 2, 7, 8}
    BY DEF EchoCost
  <1>5. CoRest \in Nat
    BY <1>3, <1>4, CoCounts DEF CoRest
  <1>6. Lookers * LookCost \in Nat
    BY <1>2, CoCounts, Times
  <1> DEFINE LC == Lookers * LookCost
  <1> HIDE DEF LC
  <1>7. CoRest + LC \in Nat
    BY <1>5, <1>6 DEF LC
  <1>8. CoWork \in Nat
    BY <1>7 DEF LC, CoWork
  <1>9. QED
    BY <1>1, <1>2, <1>3, <1>4, <1>5, <1>8

LEMMA CoTypesNext ==
  Co!TypeOK' =>
    /\ Waits' \in Nat /\ Fires' \in Nat /\ Aborts' \in Nat /\ Starts' \in Nat
    /\ fired' \in Nat /\ aborted' \in Nat /\ Lookers' \in Nat
    /\ OnceMore' \in {0, 3}
    /\ LookCost' \in 1 .. 7
    /\ WaitCost' \in 0 .. 9
    /\ EchoCost' \in {0, 1, 2, 7, 8}
    /\ CoRest' \in Nat /\ CoWork' \in Nat
  <1> DEFINE Types ==
        /\ Waits \in Nat /\ Fires \in Nat /\ Aborts \in Nat /\ Starts \in Nat
        /\ fired \in Nat /\ aborted \in Nat /\ Lookers \in Nat
        /\ OnceMore \in {0, 3}
        /\ LookCost \in 1 .. 7
        /\ WaitCost \in 0 .. 9
        /\ EchoCost \in {0, 1, 2, 7, 8}
        /\ CoRest \in Nat /\ CoWork \in Nat
  <1>1. Co!TypeOK => Types
    BY CoCounts, CoCosts
  <1> HIDE DEF Types
  <1>2. Co!TypeOK' => Types'
    BY <1>1, PTL
  <1>3. QED
    BY <1>2 DEF Types

\* The number of lookers times their cost, in one place.
LEMMA CoLess ==
  ASSUME Co!TypeOK, Co!TypeOK', LookCost' <= LookCost,
         \/ Lookers' = Lookers /\ CoRest' < CoRest
         \/ Lookers > 0 /\ Lookers' = Lookers - 1 /\ CoRest' < CoRest + LookCost
         \/ Lookers' = Lookers + 1 /\ CoRest' + LookCost' < CoRest
  PROVE  CoWork' < CoWork
  <1>1. /\ CoRest \in Nat /\ Lookers \in Nat /\ LookCost \in Nat
        /\ CoWork = CoRest + Lookers * LookCost
    BY CoCosts, CoCounts DEF CoWork
  <1>2. /\ CoRest' \in Nat /\ Lookers' \in Nat /\ LookCost' \in Nat
        /\ CoWork' = CoRest' + Lookers' * LookCost'
    BY CoTypesNext DEF CoWork
  <1>3. CoRest' + Lookers' * LookCost' < CoRest + Lookers * LookCost
    BY <1>1, <1>2, LessSum
  <1>4. QED
    BY <1>1, <1>2, <1>3

LEMMA CoRestIs ==
  /\ withTimeout  => CoRest = Aborts + 2 * aborted + fired + 3 * Waits
                                + 4 * Starts + WaitCost + EchoCost
  /\ ~withTimeout => CoRest = Aborts + 2 * aborted + fired + 0
                                + 4 * Starts + WaitCost + EchoCost
  /\ withTimeout'  => CoRest' = Aborts' + 2 * aborted' + fired' + 3 * Waits'
                                  + 4 * Starts' + WaitCost' + EchoCost'
  /\ ~withTimeout' => CoRest' = Aborts' + 2 * aborted' + fired' + 0
                                  + 4 * Starts' + WaitCost' + EchoCost'
  BY DEF CoRest

LEMMA CoTimeout ==
  /\ withTimeout => LookCost = 1 /\ WaitCost = IF armed THEN 3 ELSE 0
  /\ withTimeout' => LookCost' = 1 /\ WaitCost' = IF armed' THEN 3 ELSE 0
  BY DEF LookCost, WaitCost

LEMMA CoWatchdog ==
  ASSUME ~withTimeout
  PROVE  /\ left > 0 => LookCost = 4 + OnceMore
         /\ ~(left > 0) => LookCost = 1 + OnceMore
         /\ ~armed => WaitCost = 0
         /\ armed /\ tleft < left => WaitCost = 6 + OnceMore
         /\ armed /\ ~(tleft < left) => WaitCost = 3 + OnceMore
  BY DEF LookCost, WaitCost

LEMMA CoWatchdogNext ==
  ASSUME ~withTimeout'
  PROVE  /\ left' > 0 => LookCost' = 4 + OnceMore'
         /\ ~(left' > 0) => LookCost' = 1 + OnceMore'
         /\ ~armed' => WaitCost' = 0
         /\ armed' /\ tleft' < left' => WaitCost' = 6 + OnceMore'
         /\ armed' /\ ~(tleft' < left') => WaitCost' = 3 + OnceMore'
  BY DEF LookCost, WaitCost

\* A coroutine leaves the strand, or is put on it.
LEMMA CoOff ==
  ASSUME Co!TypeOK, NEW k, Co!Resumes(k), strand' = Tail(strand)
  PROVE  /\ Waits  = Waits'  + IF k = "wait" THEN 1 ELSE 0
         /\ Fires  = Fires'  + IF k = "fired" THEN 1 ELSE 0
         /\ Aborts = Aborts' + IF k = "aborted" THEN 1 ELSE 0
         /\ Starts' = Starts /\ withTimeout' = withTimeout
  <1>1. strand \in Seq(Co!Kinds) /\ strand # <<>> /\ Head(strand) = k
    BY DEF Co!TypeOK, Co!Resumes
  <1>2. \A c : HowMany(strand, c) = HowMany(Tail(strand), c) + IF c = k THEN 1 ELSE 0
    BY <1>1, TailMany
  <1>3. Starts' = Starts /\ withTimeout' = withTimeout
    BY DEF Starts, Co!Resumes
  <1>4. QED
    BY <1>2, <1>3 DEF Waits, Fires, Aborts

LEMMA CoOn ==
  ASSUME Co!TypeOK, NEW k \in Co!Kinds, strand' = Append(strand, k)
  PROVE  /\ Waits'  = Waits  + IF k = "wait" THEN 1 ELSE 0
         /\ Fires'  = Fires  + IF k = "fired" THEN 1 ELSE 0
         /\ Aborts' = Aborts + IF k = "aborted" THEN 1 ELSE 0
  <1>1. strand \in Seq(Co!Kinds)
    BY DEF Co!TypeOK
  <1>2. \A c : HowMany(Append(strand, k), c) = HowMany(strand, c) + IF c = k THEN 1 ELSE 0
    BY <1>1, AppendMany
  <1>3. QED
    BY <1>2 DEF Waits, Fires, Aborts

\* start () spawns the last coroutine, the watchdog.
LEMMA CoSpawnWorks ==
  ASSUME Co!Inv, CoShut, Co!TypeOK', Ending, Co!Spawn
  PROVE  CoWork' < CoWork
  <1>1. echo # "new"
    BY DEF CoShut, Ending
  <1>2. /\ spawning # <<>> /\ strand' = Append(strand, Head(spawning))
        /\ spawning' = Tail(spawning)
        /\ UNCHANGED <<withTimeout, open, echo, result, error, armed, tleft,
                       fired, aborted, left, idle>>
    BY DEF Co!Spawn, Co!socket, Co!timer
  <1>3. spawning = <<"wait">>
    BY <1>1, <1>2, CoNew DEF Co!Inv
  <1>4. Starts = 1 /\ Starts' = 0
    <2>1. Len(<<"wait">>) = 1 /\ Len(Tail(<<"wait">>)) = 0
      OBVIOUS
    <2>2. QED
      BY <1>2, <1>3, <2>1 DEF Starts
  <1>5. strand' = Append(strand, "wait") /\ "wait" \in Co!Kinds
    BY <1>2, <1>3 DEF Co!Kinds
  <1>6. Waits' = Waits + 1 /\ Fires' = Fires /\ Aborts' = Aborts
    <2>1. Co!TypeOK
      BY DEF Co!Inv
    <2>2. /\ Waits'  = Waits  + IF "wait" = "wait" THEN 1 ELSE 0
          /\ Fires'  = Fires  + IF "wait" = "fired" THEN 1 ELSE 0
          /\ Aborts' = Aborts + IF "wait" = "aborted" THEN 1 ELSE 0
      BY <1>5, <2>1, CoOn
    <2>3. QED
      BY <2>1, <2>2, CoCounts
  <1>7. /\ OnceMore' = OnceMore /\ LookCost' = LookCost /\ WaitCost' = WaitCost
        /\ EchoCost' = EchoCost
    BY <1>2 DEF OnceMore, LookCost, WaitCost, EchoCost
  <1>8. Co!TypeOK /\ Waits \in Nat /\ Fires \in Nat /\ Aborts \in Nat
        /\ fired \in Nat /\ aborted \in Nat
        /\ LookCost \in 1 .. 7 /\ WaitCost \in 0 .. 9
        /\ EchoCost \in {0, 1, 2, 7, 8}
    BY CoCounts, CoCosts DEF Co!Inv
  <1>9. Lookers' = Lookers
    BY <1>2, <1>4, <1>6, <1>8 DEF Lookers
  <1>10. CoRest' < CoRest
    <2>1. CASE withTimeout
      BY <1>2, <1>4, <1>6, <1>7, <1>8, <2>1, CoRestIs
    <2>2. CASE ~withTimeout
      BY <1>2, <1>4, <1>6, <1>7, <1>8, <2>2, CoRestIs
    <2>3. QED
      BY <2>1, <2>2
  <1>11. QED
    BY <1>7, <1>8, <1>9, <1>10, CoLess

\* The types of everything that counts, before and after a step.
LEMMA CoAllTypes ==
  ASSUME Co!TypeOK, Co!TypeOK'
  PROVE  /\ Waits \in Nat /\ Fires \in Nat /\ Aborts \in Nat /\ Starts \in Nat
         /\ Waits' \in Nat /\ Fires' \in Nat /\ Aborts' \in Nat /\ Starts' \in Nat
         /\ fired \in Nat /\ aborted \in Nat /\ fired' \in Nat /\ aborted' \in Nat
         /\ OnceMore \in {0, 3} /\ OnceMore' \in {0, 3}
         /\ LookCost \in 1 .. 7 /\ LookCost' \in 1 .. 7
         /\ WaitCost \in 0 .. 9 /\ WaitCost' \in 0 .. 9
         /\ armed => WaitCost >= 3
         /\ EchoCost \in {0, 1, 2, 7, 8} /\ EchoCost' \in {0, 1, 2, 7, 8}
  BY CoCounts, CoCosts, CoTypesNext

\* The last operation of the echo coroutine fails at once: the socket is
\* closed.  It may put deadline_ off, or spawn one more coroutine, before.
LEMMA CoEchoOnWorks ==
  ASSUME Co!Inv, CoShut, Co!TypeOK', Ending, Co!EchoOn
  PROVE  CoWork' < CoWork
  <1> DEFINE rest == Tail(strand)
  <1>1. /\ Co!Resumes("echo") /\ ~error /\ error' = FALSE
        /\ result' = IF open THEN "pending" ELSE "error"
        /\ withTimeout' = withTimeout /\ spawning' = spawning
    BY DEF Co!EchoOn, Co!Begins, Co!Resumes
  <1>2. /\ echo = "new" \/ result = "queued"
        /\ strand \in Seq(Co!Kinds) /\ strand # <<>> /\ Head(strand) = "echo"
        /\ rest \in Seq(Co!Kinds)
    BY <1>1, CoResumes, CoNew DEF Co!Resumes
  <1>3. result = "queued" /\ ~open /\ result' = "error"
    <2>1. echo # "new" /\ (result # "none" => echo # "over")
      BY DEF Ending, CoShut, Co!Inv, Co!TypeOK
    <2>2. QED
      BY <1>1, <1>2, <2>1 DEF Ending
  <1>4. /\ Co!TypeOK
        /\ EchoCost = 7 /\ EchoCost' = 2 /\ OnceMore = 3 /\ OnceMore' = 0
    BY <1>1, <1>3 DEF EchoCost, OnceMore, Co!Inv
  <1>5. \A c : HowMany(strand, c) = HowMany(rest, c) + IF c = "echo" THEN 1 ELSE 0
    BY <1>2, TailMany
  <1>6. /\ HowMany(rest, "wait") = Waits /\ HowMany(rest, "fired") = Fires
        /\ HowMany(rest, "aborted") = Aborts
    <2>1. \A c : HowMany(rest, c) \in Nat
      BY <1>2, TailMany
    <2>2. /\ HowMany(strand, "wait") = HowMany(rest, "wait")
          /\ HowMany(strand, "fired") = HowMany(rest, "fired")
          /\ HowMany(strand, "aborted") = HowMany(rest, "aborted")
      BY <1>5, <2>1
    <2>3. QED
      BY <2>2 DEF Waits, Fires, Aborts
  <1>7. Starts' = Starts
    BY <1>1 DEF Starts
  <1>8. CASE withTimeout
    <2>1. withTimeout' /\ Co!SpawnWait(rest)
      BY <1>1, <1>8 DEF Co!EchoOn
    <2>2. LookCost = 1 /\ LookCost' = 1 /\ WaitCost' = IF armed' THEN 3 ELSE 0
      BY <1>8, <2>1, CoTimeout
    <2>3. aborted' = (IF armed THEN aborted + 1 ELSE aborted) /\ fired' = fired
          /\ WaitCost = IF armed THEN 3 ELSE 0
      <3>1. aborted' = Co!Cancelled /\ fired' = fired
        BY <2>1 DEF Co!SpawnWait, Co!Cancel, Co!Arm
      <3>2. aborted \in Nat
        BY <1>4, CoCounts
      <3>3. QED
        BY <1>8, <3>1, <3>2, CoTimeout DEF Co!Cancelled
    <2>4. CASE strand' = Append(rest, "wait") /\ Co!Cancel
      <3>1. /\ HowMany(Append(rest, "wait"), "wait") = HowMany(rest, "wait") + 1
            /\ HowMany(Append(rest, "wait"), "fired") = HowMany(rest, "fired") + 0
            /\ HowMany(Append(rest, "wait"), "aborted") = HowMany(rest, "aborted") + 0
        <4>1. "wait" \in Co!Kinds
          BY DEF Co!Kinds
        <4> HIDE DEF rest
        <4>2. \A c : HowMany(Append(rest, "wait"), c)
                       = HowMany(rest, c) + IF c = "wait" THEN 1 ELSE 0
          BY <1>2, <4>1, AppendMany
        <4>3. QED
          BY <4>2
      <3>2. Waits' = Waits + 1 /\ Fires' = Fires + 0 /\ Aborts' = Aborts + 0
        BY <1>6, <2>4, <3>1 DEF Waits, Fires, Aborts
      <3>3. WaitCost' = 0
        BY <2>2, <2>4 DEF Co!Cancel
      <3>4. Lookers' = Lookers + 1
        BY <1>4, <1>7, <2>3, <3>2, CoAllTypes DEF Lookers
      <3>5. CoRest' + LookCost' < CoRest
        BY <1>4, <1>7, <1>8, <2>1, <2>2, <2>3, <3>2, <3>3, CoAllTypes, CoRestIs
      <3>6. QED
        BY <1>4, <2>2, <3>4, <3>5, CoLess
    <2>5. CASE strand' = rest /\ Co!Arm(Timeout)
      <3>1. Waits' = Waits /\ Fires' = Fires /\ Aborts' = Aborts
        BY <1>6, <2>5 DEF Waits, Fires, Aborts
      <3>2. WaitCost' = 3
        BY <2>2, <2>5 DEF Co!Arm
      <3>3. Lookers' = Lookers
        BY <1>7, <2>3, <3>1 DEF Lookers
      <3>4. CoRest' < CoRest
        BY <1>4, <1>7, <1>8, <2>1, <2>3, <3>1, <3>2, CoAllTypes, CoRestIs
      <3>5. QED
        BY <1>4, <2>2, <3>3, <3>4, CoLess
    <2>6. QED
      BY <2>1, <2>4, <2>5 DEF Co!SpawnWait
  <1>9. CASE ~withTimeout
    <2>1. strand' = rest /\ left' = Timeout /\ ~withTimeout'
          /\ armed' = armed /\ tleft' = tleft /\ fired' = fired /\ aborted' = aborted
      BY <1>1, <1>9 DEF Co!EchoOn, Co!timer
    <2>2. Waits' = Waits /\ Fires' = Fires /\ Aborts' = Aborts
      BY <1>6, <2>1 DEF Waits, Fires, Aborts
    <2>3. LookCost' <= LookCost
      <3>1. LookCost' = 4
        BY <1>4, <2>1, TicksType, CoWatchdogNext
      <3>2. LookCost = 4 + 3 \/ LookCost = 1 + 3
        BY <1>4, <1>9, CoWatchdog
      <3>3. QED
        BY <3>1, <3>2
    <2>4. WaitCost' <= WaitCost
      <3>1. CASE armed
        <4>1. WaitCost' = 6 + 0 \/ WaitCost' = 3 + 0
          BY <1>4, <2>1, <3>1, CoWatchdogNext
        <4>2. WaitCost = 6 + 3 \/ WaitCost = 3 + 3
          BY <1>4, <1>9, <3>1, CoWatchdog
        <4>3. QED
          BY <4>1, <4>2
      <3>2. CASE ~armed
        BY <1>9, <2>1, <3>2, CoWatchdog, CoWatchdogNext
      <3>3. QED
        BY <3>1, <3>2
    <2>5. Lookers' = Lookers
      BY <1>7, <2>1, <2>2 DEF Lookers
    <2>6. CoRest' < CoRest
      <3>1. CoRest = Aborts + 2 * aborted + fired + 0 + 4 * Starts + WaitCost + 7
        BY <1>4, <1>9, CoRestIs
      <3>2. CoRest' = Aborts + 2 * aborted + fired + 0 + 4 * Starts + WaitCost' + 2
        BY <1>4, <1>7, <2>1, <2>2, CoRestIs
      <3>3. QED
        BY <1>4, <2>4, <3>1, <3>2, CoAllTypes
    <2>7. QED
      BY <1>4, <2>3, <2>5, <2>6, CoLess
  <1>10. QED
    BY <1>8, <1>9

LEMMA CoEchoEndsWorks ==
  ASSUME Co!Inv, CoShut, Co!TypeOK', Co!EchoEnds
  PROVE  CoWork' < CoWork
  <1>1. /\ Co!Resumes("echo") /\ error /\ strand' = Tail(strand)
        /\ result' = "none" /\ Co!Cancel /\ left' = left
    BY DEF Co!EchoEnds
  <1>2. echo = "new" \/ result = "queued"
    BY <1>1, CoResumes
  <1>3. result = "queued" /\ Co!TypeOK
    BY <1>1, <1>2, CoNew DEF Co!Inv
  <1>4. EchoCost = 1 /\ EchoCost' = 0 /\ OnceMore = 0 /\ OnceMore' = 0
    BY <1>1, <1>3 DEF EchoCost, OnceMore
  <1>5. /\ Waits = Waits' + 0 /\ Fires = Fires' + 0 /\ Aborts = Aborts' + 0
        /\ Starts' = Starts /\ withTimeout' = withTimeout
    BY <1>1, <1>3, CoOff
  <1>6. LookCost' = LookCost
    BY <1>1, <1>4, <1>5 DEF LookCost
  <1>7. fired' = fired /\ WaitCost' = 0
        /\ aborted' = (IF armed THEN aborted + 1 ELSE aborted)
    <2>1. fired' = fired /\ armed' = FALSE /\ aborted' = Co!Cancelled
      BY <1>1 DEF Co!Cancel
    <2>2. aborted \in Nat
      BY <1>3, CoCounts
    <2>3. QED
      BY <2>1, <2>2 DEF WaitCost, Co!Cancelled
  <1>8. Lookers' = Lookers
    BY <1>3, <1>5, <1>7, CoAllTypes DEF Lookers
  <1>9. CoRest' < CoRest
    <2>1. CASE withTimeout
      BY <1>3, <1>4, <1>5, <1>7, <2>1, CoAllTypes, CoRestIs
    <2>2. CASE ~withTimeout
      BY <1>3, <1>4, <1>5, <1>7, <2>2, CoAllTypes, CoRestIs
    <2>3. QED
      BY <2>1, <2>2
  <1>10. LookCost' <= LookCost
    BY <1>3, <1>6, CoAllTypes
  <1>11. QED
    BY <1>3, <1>8, <1>9, <1>10, CoLess

\* Arming the timer anew, which may cancel a wait that is still outstanding.
LEMMA CoArms ==
  ASSUME Co!TypeOK, NEW n \in Ticks, Co!Arm(n), withTimeout' = withTimeout,
         n = left \/ withTimeout, left' = left, OnceMore' = OnceMore
  PROVE  /\ fired' = fired
         /\ aborted' = (IF armed THEN aborted + 1 ELSE aborted)
         /\ WaitCost' = (IF withTimeout THEN 3 ELSE 3 + OnceMore)
         /\ armed => WaitCost >= WaitCost'
         /\ ~armed => WaitCost = 0
  <1>1. /\ armed' = TRUE /\ tleft' = n /\ fired' = fired
        /\ aborted' = Co!Cancelled
    BY DEF Co!Arm
  <1>2. aborted' = (IF armed THEN aborted + 1 ELSE aborted)
    BY <1>1, CoCounts DEF Co!Cancelled
  <1>3. ~armed => WaitCost = 0
    BY DEF WaitCost
  <1>4. CASE withTimeout
    <2>1. WaitCost' = 3 /\ (armed => WaitCost = 3)
      BY <1>1, <1>4, CoTimeout
    <2>2. QED
      BY <1>1, <1>2, <1>3, <1>4, <2>1
  <1>5. CASE ~withTimeout
    <2>1. ~(tleft' < left')
      BY <1>1, <1>5, TicksType
    <2>2. WaitCost' = 3 + OnceMore
      BY <1>1, <1>5, <2>1, CoWatchdogNext
    <2>3. armed => WaitCost = 6 + OnceMore \/ WaitCost = 3 + OnceMore
      BY <1>5, CoWatchdog
    <2>4. armed => WaitCost >= WaitCost'
      BY <2>2, <2>3, CoCosts
    <2>5. QED
      BY <1>1, <1>2, <1>3, <1>5, <2>2, <2>4
  <1>6. QED
    BY <1>4, <1>5

\* The coroutines of the timer.
LEMMA CoTimersWork ==
  ASSUME Co!Inv, CoShut, Co!TypeOK', Ending,
         Co!WaitBegins \/ Co!WaitCloses \/ Co!WatchLooks \/ Co!WaitEnds
  PROVE  CoWork' < CoWork
  <1>1. Co!TypeOK /\ result # "pending"
    BY DEF Co!Inv, Co!TypeOK, CoShut, Ending
  <1>2. CASE Co!WaitBegins
    <2>1. /\ withTimeout /\ Co!Resumes("wait") /\ strand' = Tail(strand)
          /\ Co!Arm(Timeout) /\ left' = left /\ result' = result /\ error' = error
      BY <1>2 DEF Co!WaitBegins, Co!socket
    <2>2. /\ Waits = Waits' + 1 /\ Fires = Fires' + 0 /\ Aborts = Aborts' + 0
          /\ Starts' = Starts /\ withTimeout' = withTimeout
      BY <1>1, <2>1, CoOff
    <2>3. OnceMore' = OnceMore /\ EchoCost' = EchoCost
      BY <2>1 DEF OnceMore, EchoCost
    <2>4. /\ fired' = fired /\ aborted' = (IF armed THEN aborted + 1 ELSE aborted)
          /\ WaitCost' = 3 /\ WaitCost = IF armed THEN 3 ELSE 0
          /\ LookCost = 1 /\ LookCost' = 1
      BY <1>1, <2>1, <2>2, <2>3, TicksType, CoArms, CoTimeout
    <2>5. Lookers > 0 /\ Lookers' = Lookers - 1
      BY <1>1, <2>2, <2>4, CoAllTypes DEF Lookers
    <2>6. CoRest' < CoRest + LookCost
      <3>1. CoRest = Aborts + 2 * aborted + fired + 3 * Waits + 4 * Starts
                       + WaitCost + EchoCost
        BY <2>1, CoRestIs
      <3>2. CoRest' = Aborts' + 2 * aborted' + fired + 3 * Waits' + 4 * Starts
                        + 3 + EchoCost
        BY <2>1, <2>2, <2>3, <2>4, CoRestIs
      <3>3. Aborts' = Aborts /\ 3 * Waits = 3 * Waits' + 3
        BY <1>1, <2>2, CoAllTypes
      <3>4. CASE armed
        BY <1>1, <2>4, <3>1, <3>2, <3>3, <3>4, CoAllTypes
      <3>5. CASE ~armed
        BY <1>1, <2>4, <3>1, <3>2, <3>3, <3>5, CoAllTypes
      <3>6. QED
        BY <3>4, <3>5
    <2>7. QED
      BY <1>1, <2>4, <2>5, <2>6, CoLess
  <1>3. CASE Co!WaitCloses
    <2>1. /\ withTimeout /\ Co!Resumes("fired") /\ strand' = Tail(strand)
          /\ result' = result /\ error' = error
          /\ UNCHANGED <<armed, tleft, fired, aborted, left>>
      BY <1>1, <1>3 DEF Co!WaitCloses, Co!Close, Co!timer
    <2>2. /\ Waits = Waits' + 0 /\ Fires = Fires' + 1 /\ Aborts = Aborts' + 0
          /\ Starts' = Starts /\ withTimeout' = withTimeout
      BY <1>1, <2>1, CoOff
    <2>3. EchoCost' = EchoCost /\ WaitCost' = WaitCost /\ LookCost = 1 /\ LookCost' = 1
      BY <2>1, <2>2, CoTimeout DEF EchoCost
    <2>4. Lookers > 0 /\ Lookers' = Lookers - 1
      <3>1. Waits' = Waits
        BY <1>1, <2>2, CoAllTypes
      <3>2. Fires' = Fires - 1 /\ Fires > 0
        BY <1>1, <2>2, CoAllTypes
      <3>3. Starts' = Starts /\ fired' = fired
        BY <2>1, <2>2
      <3>4. Lookers' = Waits + (Fires - 1) + fired + Starts
        BY <3>1, <3>2, <3>3 DEF Lookers
      <3>5. QED
        BY <1>1, <3>2, <3>4, CoAllTypes DEF Lookers
    <2>5. CoRest' < CoRest + LookCost
      <3>1. CoRest = Aborts + 2 * aborted + fired + 3 * Waits + 4 * Starts
                       + WaitCost + EchoCost
        BY <2>1, CoRestIs
      <3>2. CoRest' = Aborts' + 2 * aborted + fired + 3 * Waits' + 4 * Starts
                        + WaitCost + EchoCost
        BY <2>1, <2>2, <2>3, CoRestIs
      <3>3. Aborts' = Aborts /\ Waits' = Waits
        BY <1>1, <2>2, CoAllTypes
      <3>4. QED
        BY <1>1, <2>3, <3>1, <3>2, <3>3, CoAllTypes
    <2>6. QED
      BY <1>1, <2>3, <2>4, <2>5, CoLess
  <1>4. CASE Co!WatchLooks
    <2>1. PICK k \in {"wait", "fired"} : Co!Resumes(k)
      BY <1>4 DEF Co!WatchLooks
    <2>2. /\ ~withTimeout /\ strand' = Tail(strand) /\ left' = left
          /\ result' = result /\ error' = error
      BY <1>1, <1>4 DEF Co!WatchLooks, Co!Close, Co!socket
    <2>3. /\ Waits  = Waits'  + IF k = "wait" THEN 1 ELSE 0
          /\ Fires  = Fires'  + IF k = "fired" THEN 1 ELSE 0
          /\ Aborts = Aborts' + IF k = "aborted" THEN 1 ELSE 0
          /\ Starts' = Starts /\ withTimeout' = withTimeout
      BY <1>1, <2>1, <2>2, CoOff
    <2>4. /\ Waits + Fires = Waits' + Fires' + 1 /\ Aborts = Aborts' + 0
      <3>1. CASE k = "wait"
        BY <1>1, <2>3, <3>1, CoAllTypes
      <3>2. CASE k = "fired"
        BY <1>1, <2>3, <3>2, CoAllTypes
      <3>3. QED
        BY <3>1, <3>2
    <2>5. EchoCost' = EchoCost /\ OnceMore' = OnceMore
      BY <2>2 DEF EchoCost, OnceMore
    <2>6. LookCost' = LookCost
      BY <2>2, <2>3, <2>5 DEF LookCost
    <2>7. fired' = fired
      BY <1>4 DEF Co!WatchLooks, Co!Arm, Co!timer
    <2>8. Lookers > 0 /\ Lookers' = Lookers - 1
      <3>1. Waits' + Fires' = Waits + Fires - 1 /\ Waits + Fires > 0
        BY <1>1, <2>4, CoAllTypes
      <3>2. Starts' = Starts
        BY <2>3
      <3>3. Lookers' = (Waits' + Fires') + fired + Starts
        BY <2>7, <3>2 DEF Lookers
      <3>4. Lookers' = (Waits + Fires - 1) + fired + Starts
        BY <3>1, <3>3
      <3>5. Lookers = (Waits + Fires) + fired + Starts
        BY DEF Lookers
      <3>6. fired \in Nat /\ Starts \in Nat /\ Waits \in Nat /\ Fires \in Nat
        BY <1>1, CoAllTypes
      <3>7. QED
        BY <3>1, <3>4, <3>5, <3>6
    <2>9. CoRest' < CoRest + LookCost
      <3>1. CoRest = Aborts + 2 * aborted + fired + 0 + 4 * Starts + WaitCost + EchoCost
        BY <2>2, CoRestIs
      <3>2. CoRest' = Aborts + 2 * aborted' + fired + 0 + 4 * Starts + WaitCost' + EchoCost
        BY <1>1, <2>2, <2>3, <2>4, <2>5, <2>7, CoAllTypes, CoRestIs
      <3>3. CASE left = 0
        <4>1. UNCHANGED <<armed, tleft, aborted>>
          BY <1>4, <3>3 DEF Co!WatchLooks, Co!timer
        <4>2. WaitCost' = WaitCost
          BY <2>2, <2>3, <2>5, <4>1 DEF WaitCost
        <4>3. QED
          BY <1>1, <3>1, <3>2, <4>1, <4>2, CoAllTypes
      <3>4. CASE left # 0
        <4>1. Co!Arm(left) /\ left \in Ticks
          BY <1>1, <1>4, <3>4, CoTicks DEF Co!WatchLooks, Co!TypeOK
        <4>2. /\ aborted' = (IF armed THEN aborted + 1 ELSE aborted)
              /\ WaitCost' = 3 + OnceMore
              /\ armed => WaitCost >= WaitCost'
              /\ ~armed => WaitCost = 0
          BY <1>1, <2>2, <2>3, <2>5, <4>1, CoArms
        <4>3. LookCost = 4 + OnceMore
          BY <2>2, <3>4, <4>1, TicksType, CoWatchdog
        <4>4. CASE armed
          BY <1>1, <3>1, <3>2, <4>2, <4>3, <4>4, CoAllTypes
        <4>5. CASE ~armed
          BY <1>1, <3>1, <3>2, <4>2, <4>3, <4>5, CoAllTypes
        <4>6. QED
          BY <4>4, <4>5
      <3>5. QED
        BY <3>3, <3>4
    <2>10. LookCost' <= LookCost
      BY <1>1, <2>6, CoAllTypes
    <2>11. QED
      BY <1>1, <2>8, <2>9, <2>10, CoLess
  <1>5. CASE Co!WaitEnds
    <2>1. /\ Co!Resumes("aborted") /\ strand' = Tail(strand)
          /\ UNCHANGED <<result, error, armed, tleft, fired, aborted, left>>
      BY <1>5 DEF Co!WaitEnds, Co!socket, Co!timer
    <2>2. /\ Waits = Waits' + 0 /\ Fires = Fires' + 0 /\ Aborts = Aborts' + 1
          /\ Starts' = Starts /\ withTimeout' = withTimeout
      BY <1>1, <2>1, CoOff
    <2>3. /\ OnceMore' = OnceMore /\ EchoCost' = EchoCost
          /\ LookCost' = LookCost /\ WaitCost' = WaitCost
      BY <2>1, <2>2 DEF OnceMore, EchoCost, LookCost, WaitCost
    <2>4. Lookers' = Lookers
      BY <1>1, <2>1, <2>2, CoAllTypes DEF Lookers
    <2>5. CoRest' < CoRest
      <3>1. Waits' = Waits
        BY <1>1, <2>2, CoAllTypes
      <3>2. CASE withTimeout
        <4>1. CoRest = Aborts + 2 * aborted + fired + 3 * Waits + 4 * Starts
                         + WaitCost + EchoCost
          BY <3>2, CoRestIs
        <4>2. CoRest' = Aborts' + 2 * aborted + fired + 3 * Waits + 4 * Starts
                          + WaitCost + EchoCost
          BY <2>1, <2>2, <2>3, <3>1, <3>2, CoRestIs
        <4>3. QED
          BY <1>1, <2>2, <4>1, <4>2, CoAllTypes
      <3>3. CASE ~withTimeout
        <4>1. CoRest = Aborts + 2 * aborted + fired + 0 + 4 * Starts
                         + WaitCost + EchoCost
          BY <3>3, CoRestIs
        <4>2. CoRest' = Aborts' + 2 * aborted + fired + 0 + 4 * Starts
                          + WaitCost + EchoCost
          BY <2>1, <2>2, <2>3, <3>1, <3>3, CoRestIs
        <4>3. QED
          BY <1>1, <2>2, <4>1, <4>2, CoAllTypes
      <3>4. QED
        BY <3>2, <3>3
    <2>6. LookCost' <= LookCost
      BY <1>1, <2>3, CoAllTypes
    <2>7. QED
      BY <1>1, <2>4, <2>5, <2>6, CoLess
  <1>6. QED
    BY <1>2, <1>3, <1>4, <1>5

\* The threads of the io_context put on the strand what has completed.
LEMMA CoQueuesWork ==
  ASSUME Co!Inv, Co!TypeOK',
         Co!EchoQueued \/ Co!FiredQueued \/ Co!AbortedQueued
  PROVE  CoWork' < CoWork
  <1>1. Co!TypeOK
    BY DEF Co!Inv
  <1>2. /\ withTimeout' = withTimeout /\ Starts' = Starts
        /\ armed' = armed /\ tleft' = tleft /\ left' = left
    BY DEF Co!EchoQueued, Co!FiredQueued, Co!AbortedQueued, Co!timer, Starts
  <1> DEFINE fixed == (IF withTimeout THEN 3 * Waits ELSE 0) + 4 * Starts
  <1>3. /\ fixed \in Nat
        /\ CoRest = Aborts + 2 * aborted + fired + fixed + WaitCost + EchoCost
    <2>1. CASE withTimeout
      BY <1>1, <2>1, CoAllTypes, CoRestIs
    <2>2. CASE ~withTimeout
      BY <1>1, <2>2, CoAllTypes, CoRestIs
    <2>3. QED
      BY <2>1, <2>2
  <1>4. ASSUME Waits' = Waits
        PROVE  CoRest' = Aborts' + 2 * aborted' + fired' + fixed + WaitCost' + EchoCost'
    <2>1. CASE withTimeout
      <3>1. CoRest' = Aborts' + 2 * aborted' + fired' + 3 * Waits + 4 * Starts
                        + WaitCost' + EchoCost'
        BY <1>2, <1>4, <2>1, CoRestIs
      <3>2. QED
        BY <1>1, <2>1, <3>1, CoAllTypes
    <2>2. CASE ~withTimeout
      <3>1. CoRest' = Aborts' + 2 * aborted' + fired' + 0 + 4 * Starts
                        + WaitCost' + EchoCost'
        BY <1>2, <2>2, CoRestIs
      <3>2. QED
        BY <1>1, <2>2, <3>1, CoAllTypes
    <2>3. QED
      BY <2>1, <2>2
  <1> HIDE DEF fixed
  <1>5. CASE Co!EchoQueued
    <2>1. /\ result \in {"ok", "error"} /\ strand' = Append(strand, "echo")
          /\ error' = (result = "error") /\ result' = "queued"
          /\ fired' = fired /\ aborted' = aborted
      BY <1>5 DEF Co!EchoQueued, Co!timer
    <2>2. "echo" \in Co!Kinds
      BY DEF Co!Kinds
    <2>3. Waits' = Waits + 0 /\ Fires' = Fires + 0 /\ Aborts' = Aborts + 0
      BY <1>1, <2>1, <2>2, CoOn
    <2>4. OnceMore' = OnceMore /\ EchoCost' < EchoCost
      <3>1. CASE result = "ok"
        <4>1. ~error' /\ result' = "queued"
          BY <2>1, <3>1
        <4>2. OnceMore = 3 /\ OnceMore' = 3 /\ EchoCost = 8 /\ EchoCost' = 7
          BY <3>1, <4>1 DEF OnceMore, EchoCost
        <4>3. QED
          BY <4>2
      <3>2. CASE result = "error"
        <4>1. error' /\ result' = "queued"
          BY <2>1, <3>2
        <4>2. OnceMore = 0 /\ OnceMore' = 0 /\ EchoCost = 2 /\ EchoCost' = 1
          BY <3>2, <4>1 DEF OnceMore, EchoCost
        <4>3. QED
          BY <4>2
      <3>3. QED
        BY <2>1, <3>1, <3>2
    <2>5. LookCost' = LookCost /\ WaitCost' = WaitCost
      BY <1>2, <2>4 DEF LookCost, WaitCost
    <2>6. Waits' = Waits /\ Fires' = Fires /\ Aborts' = Aborts
      BY <1>1, <2>3, CoAllTypes
    <2>7. Lookers' = Lookers
      BY <1>2, <2>1, <2>6 DEF Lookers
    <2>8. CoRest' = Aborts + 2 * aborted + fired + fixed + WaitCost + EchoCost'
      BY <1>4, <2>1, <2>5, <2>6
    <2>9. CoRest' < CoRest
      BY <1>1, <1>3, <2>4, <2>8, CoAllTypes
    <2>10. LookCost' <= LookCost
      BY <1>1, <2>5, CoAllTypes
    <2>11. QED
      BY <1>1, <2>7, <2>9, <2>10, CoLess
  <1>6. CASE Co!FiredQueued
    <2>1. /\ fired > 0 /\ fired' = fired - 1 /\ strand' = Append(strand, "fired")
          /\ aborted' = aborted /\ result' = result /\ error' = error
      BY <1>6 DEF Co!FiredQueued, Co!socket
    <2>2. "fired" \in Co!Kinds
      BY DEF Co!Kinds
    <2>3. Waits' = Waits + 0 /\ Fires' = Fires + 1 /\ Aborts' = Aborts + 0
      BY <1>1, <2>1, <2>2, CoOn
    <2>4. OnceMore' = OnceMore /\ EchoCost' = EchoCost
      BY <2>1 DEF OnceMore, EchoCost
    <2>5. LookCost' = LookCost /\ WaitCost' = WaitCost
      BY <1>2, <2>4 DEF LookCost, WaitCost
    <2>6. Waits' = Waits /\ Aborts' = Aborts
      BY <1>1, <2>3, CoAllTypes
    <2>7. Lookers' = Lookers
      <3>1. Lookers = Waits + Fires + fired + Starts
        BY DEF Lookers
      <3>2. Lookers' = Waits + (Fires + 1) + (fired - 1) + Starts
        BY <1>2, <2>1, <2>3, <2>6 DEF Lookers
      <3>3. QED
        BY <1>1, <3>1, <3>2, CoAllTypes
    <2>8. CoRest' = Aborts + 2 * aborted + (fired - 1) + fixed + WaitCost + EchoCost
      BY <1>4, <2>1, <2>4, <2>5, <2>6
    <2>9. CoRest' < CoRest
      <3>1. /\ Aborts \in Nat /\ aborted \in Nat /\ fired \in Nat
            /\ WaitCost \in Nat /\ EchoCost \in Nat
        BY <1>1, CoAllTypes
      <3>2. QED
        BY <1>3, <2>8, <3>1
    <2>10. LookCost' <= LookCost
      BY <1>1, <2>5, CoAllTypes
    <2>11. QED
      BY <1>1, <2>7, <2>9, <2>10, CoLess
  <1>7. CASE Co!AbortedQueued
    <2>1. /\ aborted > 0 /\ aborted' = aborted - 1
          /\ strand' = Append(strand, "aborted")
          /\ fired' = fired /\ result' = result /\ error' = error
      BY <1>7 DEF Co!AbortedQueued, Co!socket
    <2>2. "aborted" \in Co!Kinds
      BY DEF Co!Kinds
    <2>3. Waits' = Waits + 0 /\ Fires' = Fires + 0 /\ Aborts' = Aborts + 1
      BY <1>1, <2>1, <2>2, CoOn
    <2>4. OnceMore' = OnceMore /\ EchoCost' = EchoCost
      BY <2>1 DEF OnceMore, EchoCost
    <2>5. LookCost' = LookCost /\ WaitCost' = WaitCost
      BY <1>2, <2>4 DEF LookCost, WaitCost
    <2>6. Waits' = Waits /\ Fires' = Fires
      BY <1>1, <2>3, CoAllTypes
    <2>7. Lookers' = Lookers
      BY <1>2, <2>1, <2>6 DEF Lookers
    <2>8. CoRest' = (Aborts + 1) + 2 * (aborted - 1) + fired + fixed
                      + WaitCost + EchoCost
      <3>1. Aborts' = Aborts + 1
        BY <2>3
      <3>2. QED
        BY <1>4, <2>1, <2>4, <2>5, <2>6, <3>1
    <2>9. CoRest' < CoRest
      <3>1. /\ Aborts \in Nat /\ aborted \in Nat /\ fired \in Nat
            /\ WaitCost \in Nat /\ EchoCost \in Nat
        BY <1>1, CoAllTypes
      <3>2. QED
        BY <1>3, <2>8, <3>1
    <2>10. LookCost' <= LookCost
      BY <1>1, <2>5, CoAllTypes
    <2>11. QED
      BY <1>1, <2>7, <2>9, <2>10, CoLess
  <1>8. QED
    BY <1>5, <1>6, <1>7

LEMMA CoExpiryWorks ==
  ASSUME Co!Inv, Co!TypeOK', Co!TimerExpires
  PROVE  CoWork' < CoWork
  <1>1. Co!TypeOK
    BY DEF Co!Inv
  <1>2. /\ armed /\ tleft = 0 /\ armed' = FALSE /\ fired' = fired + 1
        /\ UNCHANGED <<withTimeout, spawning, strand, result, error, tleft,
                       aborted, left>>
    BY DEF Co!TimerExpires, Co!socket
  <1>3. /\ Waits' = Waits /\ Fires' = Fires /\ Aborts' = Aborts
        /\ Starts' = Starts /\ EchoCost' = EchoCost /\ LookCost' = LookCost
        /\ WaitCost' = 0
    BY <1>2 DEF Waits, Fires, Aborts, Starts, EchoCost, LookCost, OnceMore, WaitCost
  <1>4. Lookers' = Lookers + 1
    BY <1>1, <1>2, <1>3, CoAllTypes DEF Lookers
  <1>5. LookCost + 1 < WaitCost
    <2>1. CASE withTimeout
      BY <1>2, <2>1, CoTimeout
    <2>2. CASE ~withTimeout /\ left = 0
      <3>1. LookCost = 1 + OnceMore /\ WaitCost = 3 + OnceMore
        BY <1>2, <2>2, CoWatchdog
      <3>2. QED
        BY <1>1, <3>1, CoAllTypes
    <2>3. CASE ~withTimeout /\ left # 0
      <3>1. left > 0 /\ tleft < left
        BY <1>1, <1>2, <2>3, TicksType, CoTicks DEF Co!TypeOK
      <3>2. LookCost = 4 + OnceMore /\ WaitCost = 6 + OnceMore
        BY <1>2, <2>3, <3>1, CoWatchdog
      <3>3. QED
        BY <1>1, <3>2, CoAllTypes
    <2>4. QED
      BY <2>1, <2>2, <2>3
  <1>6. CoRest' + LookCost' < CoRest
    <2>1. CASE withTimeout
      <3>1. CoRest = Aborts + 2 * aborted + fired + 3 * Waits + 4 * Starts
                       + WaitCost + EchoCost
        BY <2>1, CoRestIs
      <3>2. CoRest' = Aborts + 2 * aborted + (fired + 1) + 3 * Waits + 4 * Starts
                        + 0 + EchoCost
        BY <1>2, <1>3, <2>1, CoRestIs
      <3>3. QED
        BY <1>1, <1>3, <1>5, <3>1, <3>2, CoAllTypes
    <2>2. CASE ~withTimeout
      <3>1. CoRest = Aborts + 2 * aborted + fired + 0 + 4 * Starts + WaitCost + EchoCost
        BY <2>2, CoRestIs
      <3>2. CoRest' = Aborts + 2 * aborted + (fired + 1) + 0 + 4 * Starts
                        + 0 + EchoCost
        BY <1>2, <1>3, <2>2, CoRestIs
      <3>3. QED
        BY <1>1, <1>3, <1>5, <3>1, <3>2, CoAllTypes
    <2>3. QED
      BY <2>1, <2>2
  <1>7. LookCost' <= LookCost
    BY <1>1, <1>3, CoAllTypes
  <1>8. QED
    BY <1>1, <1>4, <1>6, <1>7, CoLess

LEMMA CoTickWorks ==
  ASSUME Co!Inv, Co!TypeOK', Co!Tick
  PROVE  CoWork' <= CoWork
  <1>1. Co!TypeOK
    BY DEF Co!Inv
  <1>2. /\ UNCHANGED <<withTimeout, spawning, strand, result, error, armed,
                       fired, aborted>>
        /\ tleft' = (IF tleft = 0 THEN 0 ELSE tleft - 1)
        /\ left' = (IF left = 0 THEN 0 ELSE left - 1)
        /\ left \in Nat /\ tleft \in Nat
    BY <1>1, TicksType, CoTicks DEF Co!Tick, Co!socket, Co!TypeOK
  <1>3. /\ Waits' = Waits /\ Fires' = Fires /\ Aborts' = Aborts
        /\ Starts' = Starts /\ EchoCost' = EchoCost /\ OnceMore' = OnceMore
        /\ Lookers' = Lookers
    BY <1>2 DEF Waits, Fires, Aborts, Starts, EchoCost, OnceMore, Lookers
  <1>4. (left' > 0 => left > 0) /\ (tleft' < left' => tleft < left)
    BY <1>2
  <1>5. LookCost' <= LookCost /\ WaitCost' <= WaitCost
    <2>1. CASE withTimeout
      BY <1>2, <2>1, CoTimeout
    <2>2. CASE ~withTimeout
      <3>1. LookCost' <= LookCost
        <4>1. /\ LookCost = 4 + OnceMore \/ (LookCost = 1 + OnceMore /\ ~(left > 0))
              /\ LookCost' = 4 + OnceMore \/ LookCost' = 1 + OnceMore
              /\ ~(left' > 0) => LookCost' = 1 + OnceMore
          BY <1>2, <1>3, <2>2, CoWatchdog, CoWatchdogNext
        <4>2. QED
          BY <1>1, <1>4, <4>1, CoAllTypes
      <3>2. CASE ~armed
        <4>1. WaitCost' = 0 /\ WaitCost = 0
          BY <1>2, <2>2, <3>2, CoWatchdog, CoWatchdogNext
        <4>2. QED
          BY <3>1, <4>1
      <3>3. CASE armed
        <4>1. /\ WaitCost = 6 + OnceMore \/ (WaitCost = 3 + OnceMore /\ ~(tleft < left))
              /\ WaitCost' = 6 + OnceMore \/ WaitCost' = 3 + OnceMore
              /\ ~(tleft' < left') => WaitCost' = 3 + OnceMore
          BY <1>2, <1>3, <2>2, <3>3, CoWatchdog, CoWatchdogNext
        <4>2. QED
          BY <1>1, <1>4, <3>1, <4>1, CoAllTypes
      <3>4. QED
        BY <3>2, <3>3
    <2>3. QED
      BY <2>1, <2>2
  <1>6. CoRest' <= CoRest
    <2>1. CASE withTimeout
      <3>1. CoRest = Aborts + 2 * aborted + fired + 3 * Waits + 4 * Starts
                       + WaitCost + EchoCost
        BY <2>1, CoRestIs
      <3>2. CoRest' = Aborts + 2 * aborted + fired + 3 * Waits + 4 * Starts
                        + WaitCost' + EchoCost
        BY <1>2, <1>3, <2>1, CoRestIs
      <3>3. QED
        BY <1>1, <1>5, <3>1, <3>2, CoAllTypes
    <2>2. CASE ~withTimeout
      <3>1. CoRest = Aborts + 2 * aborted + fired + 0 + 4 * Starts + WaitCost + EchoCost
        BY <2>2, CoRestIs
      <3>2. CoRest' = Aborts + 2 * aborted + fired + 0 + 4 * Starts
                        + WaitCost' + EchoCost
        BY <1>2, <1>3, <2>2, CoRestIs
      <3>3. QED
        BY <1>1, <1>5, <3>1, <3>2, CoAllTypes
    <2>3. QED
      BY <2>1, <2>2
  <1>7. /\ CoRest \in Nat /\ CoRest' \in Nat /\ Lookers \in Nat
        /\ LookCost \in Nat /\ LookCost' \in Nat
    BY <1>1, CoCosts, CoCounts, CoTypesNext
  <1>8. CoWork = CoRest + Lookers * LookCost /\ CoWork' = CoRest' + Lookers * LookCost'
    BY <1>3 DEF CoWork
  <1>9. /\ Lookers * LookCost' <= Lookers * LookCost
        /\ Lookers * LookCost' \in Nat /\ Lookers * LookCost \in Nat
    BY <1>5, <1>7, Times
  <1> DEFINE before == Lookers * LookCost
             after == Lookers * LookCost'
  <1>10. /\ CoWork = CoRest + before /\ CoWork' = CoRest' + after
         /\ after <= before /\ after \in Nat /\ before \in Nat
    BY <1>8, <1>9
  <1> HIDE DEF before, after
  <1>11. CoRest' + after <= CoRest + before
    <2>1. CoRest' \in Nat /\ CoRest \in Nat
      BY <1>7
    <2>2. after <= before /\ after \in Nat /\ before \in Nat
      BY <1>10
    <2>3. QED
      BY <1>6, <2>1, <2>2, SumsOrdered
  <1>12. CoWork = CoRest + before /\ CoWork' = CoRest' + after
    BY <1>10
  <1>13. QED
    BY <1>11, <1>12

(* Once the socket is closed or the echo coroutine is over, both stay so   *)
(* to the end, and every step but the passing of time takes from CoWork:   *)
(* the coroutines that wait, are resumed, are cancelled or have yet to be  *)
(* spawned by a start () that is late cannot wake one another for ever.    *)
THEOREM CoRunsDown ==
  Co!Spec => [][Ending => /\ Ending'
                          /\ CoWork' <= CoWork
                          /\ ~Co!Tick => CoWork' < CoWork]_Co!vars
  <1> DEFINE Down == Ending => /\ Ending'
                               /\ CoWork' <= CoWork
                               /\ ~Co!Tick => CoWork' < CoWork
             Both == Co!Inv /\ CoShut
  <1>1. Co!Init => Both
    BY CoInitial, CoShutInitial
  <1>2. Both /\ [Co!Next]_Co!vars => Both'
    BY CoInductive, CoShutInductive
  <1>3. Both /\ Both' /\ [Co!Next]_Co!vars => [Down]_Co!vars
    <2> SUFFICES ASSUME Co!Inv, CoShut, Co!Inv', Co!Next, Ending
                 PROVE  /\ Ending'
                        /\ CoWork' <= CoWork
                        /\ ~Co!Tick => CoWork' < CoWork
      OBVIOUS
    <2>1. Co!TypeOK /\ Co!TypeOK'
      BY DEF Co!Inv
    <2>2. ~Co!SocketCompletes
      BY <2>1 DEF Co!SocketCompletes, CoShut, Ending, Co!TypeOK
    <2>3. Ending'
      <3>1. CASE Co!EchoOn
        <4>1. echo = "new" \/ result = "queued"
          BY <3>1, CoResumes DEF Co!EchoOn
        <4>2. echo # "over"
          <5>1. echo = "over" => result = "none" /\ echo # "new"
            BY <2>1 DEF Co!TypeOK
          <5>2. QED
            BY <4>1, <5>1
        <4>3. open' = open
          BY <3>1 DEF Co!EchoOn, Co!Begins
        <4>4. QED
          BY <4>2, <4>3 DEF Ending
      <3>2. CASE ~Co!EchoOn
        <4>1. (open' = open \/ ~open') /\ (echo' = echo \/ echo' = "over")
          BY <3>2 DEF Co!Next, Co!Coroutines, Co!Spawn, Co!EchoEnds,
                 Co!WaitBegins, Co!WaitCloses, Co!WatchLooks, Co!WaitEnds,
                 Co!EchoQueued, Co!FiredQueued, Co!AbortedQueued,
                 Co!SocketCompletes, Co!TimerExpires, Co!Tick, Co!Close,
                 Co!socket
        <4>2. QED
          BY <4>1 DEF Ending
      <3>3. QED
        BY <3>1, <3>2
    <2>4. Co!Tick \/ CoWork' < CoWork
      BY <2>1, <2>2, CoSpawnWorks, CoEchoOnWorks, CoEchoEndsWorks,
         CoTimersWork, CoQueuesWork, CoExpiryWorks DEF Co!Next, Co!Coroutines
    <2>5. CoWork \in Nat /\ CoWork' \in Nat
      BY <2>1, CoCosts, CoTypesNext
    <2>6. CoWork' <= CoWork
      BY <2>1, <2>4, <2>5, CoTickWorks
    <2>7. QED
      BY <2>3, <2>4, <2>6
  <1> HIDE DEF Down, Both
  <1>4. Co!Spec => [][Down]_Co!vars
    BY <1>1, <1>2, <1>3, PTL DEF Co!Spec
  <1>5. QED
    BY <1>4 DEF Down

LEMMA NoneLeft ==
  ASSUME Co!TypeOK
  PROVE  /\ strand = <<>> => Waits = 0 /\ Fires = 0 /\ Aborts = 0
         /\ Waits = 0 /\ Fires = 0 /\ Aborts = 0 /\ ~Has(strand, "echo")
              => strand = <<>>
         /\ Starts = 0 <=> spawning = <<>>
  <1>1. strand \in Seq(Co!Kinds) /\ spawning \in Seq(Co!Kinds)
    BY DEF Co!TypeOK
  <1>2. ASSUME strand = <<>>
        PROVE  Waits = 0 /\ Fires = 0 /\ Aborts = 0
    <2>1. \A c : HowMany(<<>>, c) = 0
      <3>1. SUFFICES ASSUME NEW c
                     PROVE  HowMany(<<>>, c) = 0
        OBVIOUS
      <3>2. {i \in DOMAIN <<>> : <<>>[i] = c} = {}
        OBVIOUS
      <3>3. QED
        BY <3>2, FS_EmptySet DEF HowMany
    <2>2. QED
      BY <1>2, <2>1 DEF Waits, Fires, Aborts
  <1>3. ASSUME Waits = 0, Fires = 0, Aborts = 0, ~Has(strand, "echo"), strand # <<>>
        PROVE  FALSE
    <2> DEFINE k == Head(strand)
    <2>1. k \in Co!Kinds
      BY <1>1, <1>3
    <2>2. Has(strand, k)
      BY <1>1, <1>3, TailHas
    <2>3. HowMany(Tail(strand), k) \in Nat
          /\ HowMany(strand, k) = HowMany(Tail(strand), k) + 1
      <3>1. HowMany(strand, k) = HowMany(Tail(strand), k)
                                   + IF k = Head(strand) THEN 1 ELSE 0
        BY <1>1, <1>3, TailMany
      <3>2. QED
        BY <1>1, <1>3, <3>1, TailMany
    <2>4. k \in {"wait", "fired", "aborted"}
      BY <1>3, <2>1, <2>2 DEF Co!Kinds
    <2>5. HowMany(strand, k) = 0
      BY <1>3, <2>4 DEF Waits, Fires, Aborts
    <2>6. QED
      BY <2>3, <2>5
  <1>4. Starts = 0 <=> spawning = <<>>
    BY <1>1 DEF Starts
  <1>5. QED
    BY <1>2, <1>3, <1>4

(* Nothing of it is left exactly when the session is released: the echo    *)
(* coroutine is over, no coroutine is on the strand or yet to be spawned,  *)
(* no wait is outstanding and none has completed.  Until then it is never  *)
(* the peer that the end waits for.                                        *)
THEOREM CoEndsReleased ==
  Co!Spec =>
    [](Ending => /\ result # "pending"
                 /\ CoWork \in Nat
                 /\ CoWork = 0 <=>
                      /\ echo = "over" /\ strand = <<>> /\ spawning = <<>>
                      /\ ~armed /\ fired = 0 /\ aborted = 0)
  <1> DEFINE Left == /\ echo = "over" /\ strand = <<>> /\ spawning = <<>>
                     /\ ~armed /\ fired = 0 /\ aborted = 0
             Ended == Ending => /\ result # "pending"
                                /\ CoWork \in Nat
                                /\ CoWork = 0 <=> Left
             Both == Co!Inv /\ CoShut
  <1>1. Co!Init => Both
    BY CoInitial, CoShutInitial
  <1>2. Both /\ [Co!Next]_Co!vars => Both'
    BY CoInductive, CoShutInductive
  <1>3. Both => Ended
    <2> SUFFICES ASSUME Co!Inv, CoShut, Ending
                 PROVE  Ended
      OBVIOUS
    <2>1. Co!TypeOK
      BY DEF Co!Inv
    <2>2. result # "pending"
      BY <2>1 DEF CoShut, Ending, Co!TypeOK
    <2>3. EchoCost = 0 <=> echo = "over"
      <3>1. EchoCost = 0 <=> result = "none"
        BY <2>1, <2>2 DEF EchoCost, Co!TypeOK
      <3>2. result = "none" <=> echo \in {"new", "over"}
        BY <2>1 DEF Co!TypeOK
      <3>3. echo # "new"
        BY DEF CoShut, Ending
      <3>4. QED
        BY <3>1, <3>2, <3>3
    <2>4. WaitCost = 0 <=> ~armed
      <3>1. ~armed => WaitCost = 0
        BY DEF WaitCost
      <3>2. armed => WaitCost >= 3
        BY <2>1, CoCosts
      <3>3. QED
        BY <3>1, <3>2
    <2>5. /\ Waits \in Nat /\ Fires \in Nat /\ Aborts \in Nat /\ Starts \in Nat
          /\ fired \in Nat /\ aborted \in Nat /\ Lookers \in Nat
          /\ LookCost \in Nat /\ LookCost > 0 /\ WaitCost \in Nat
          /\ EchoCost \in Nat /\ CoRest \in Nat /\ CoWork \in Nat
      BY <2>1, CoCounts, CoCosts
    <2>6. CoWork = 0 <=> CoRest = 0 /\ Lookers = 0
      <3> DEFINE product == Lookers * LookCost
      <3>1. product \in Nat /\ (Lookers > 0 => product > 0)
        <4>1. Lookers * 1 <= Lookers * LookCost /\ Lookers * LookCost \in Nat
          BY <2>5, Times
        <4>2. QED
          BY <2>5, <4>1
      <3>2. Lookers = 0 => product = 0
        BY <2>5
      <3>3. CoWork = CoRest + product
        BY DEF CoWork
      <3> HIDE DEF product
      <3>4. QED
        BY <2>5, <3>1, <3>2, <3>3
    <2>7. Lookers = 0 <=> Waits = 0 /\ Fires = 0 /\ fired = 0 /\ Starts = 0
      BY <2>5 DEF Lookers
    <2>8. Lookers = 0 =>
            (CoRest = 0 <=> Aborts = 0 /\ aborted = 0 /\ WaitCost = 0 /\ EchoCost = 0)
      BY <2>5, <2>7 DEF CoRest
    <2>9. echo = "over" => ~Has(strand, "echo")
      <3>1. echo = "over" => result = "none"
        BY <2>1 DEF Co!TypeOK
      <3>2. Has(strand, "echo") => echo = "new" \/ result = "queued"
        BY CoOneEcho DEF Co!Inv
      <3>3. QED
        BY <3>1, <3>2
    <2>10. CoWork = 0 <=> Left
      BY <2>1, <2>3, <2>4, <2>6, <2>7, <2>8, <2>9, NoneLeft
    <2>11. QED
      BY <2>2, <2>5, <2>10
  <1> HIDE DEF Ended, Both
  <1>4. Co!Spec => []Ended
    BY <1>1, <1>2, <1>3, PTL DEF Co!Spec
  <1>5. QED
    BY <1>4 DEF Ended

(***************************************************************************)
(* Watchdog mode has one watchdog: it has yet to be spawned, is on the     *)
(* strand, waits, or has waited.                                           *)
(***************************************************************************)
Later     == HowMany(spawning, "wait")
Awaits    == IF armed THEN 1 ELSE 0
Watchdogs == Waits + Fires + fired + Later + Awaits
OneWatchdog == ~withTimeout => Watchdogs <= 1

LEMMA HowManyFirst ==
  /\ \A c : HowMany(<<>>, c) = 0
  /\ HowMany(<<"echo", "wait">>, "wait") = 1
  <1>1. ASSUME NEW c
        PROVE  HowMany(<<>>, c) = 0
    <2>1. {i \in DOMAIN <<>> : <<>>[i] = c} = {}
      OBVIOUS
    <2>2. QED
      BY <2>1, FS_EmptySet DEF HowMany
  <1>2. HowMany(<<"echo", "wait">>, "wait") = 1
    <2> DEFINE s == <<"echo", "wait">>
    <2>1. /\ DOMAIN s = {1, 2} /\ s[1] = "echo" /\ s[2] = "wait"
      OBVIOUS
    <2> HIDE DEF s
    <2>2. {i \in DOMAIN s : s[i] = "wait"} = {2}
      BY <2>1
    <2>3. HowMany(s, "wait") = 1
      BY <2>2, FS_Singleton DEF HowMany
    <2>4. QED
      BY <2>3 DEF s
  <1>3. QED
    BY <1>1, <1>2

LEMMA WatchdogsInitial == Co!Init => OneWatchdog
  <1> SUFFICES ASSUME Co!Init, ~withTimeout
               PROVE  Watchdogs <= 1
    BY DEF OneWatchdog
  <1>1. strand = <<>> /\ spawning = <<"echo", "wait">> /\ fired = 0 /\ armed = FALSE
    BY DEF Co!Init
  <1>2. Waits = 0 /\ Fires = 0 /\ HowMany(spawning, "wait") = 1
    BY <1>1, HowManyFirst DEF Waits, Fires
  <1>3. QED
    BY <1>1, <1>2 DEF Watchdogs, Later, Awaits

LEMMA OneFewer == ASSUME NEW a \in Nat, NEW b \in Nat
                  PROVE  /\ a = b + 1 => b = a - 1
                         /\ a = b + 0 => b = a
  OBVIOUS

\* CoOff for the watchdogs, as what they are after the step.
LEMMA WatchdogsOff ==
  ASSUME Co!TypeOK, Co!TypeOK', NEW k, Co!Resumes(k), strand' = Tail(strand)
  PROVE  /\ k = "wait"  => Waits' = Waits - 1 /\ Fires' = Fires
         /\ k = "fired" => Waits' = Waits /\ Fires' = Fires - 1
         /\ k \notin {"wait", "fired"} => Waits' = Waits /\ Fires' = Fires
         /\ Later' = Later
  <1>1. /\ Waits \in Nat /\ Fires \in Nat /\ Waits' \in Nat /\ Fires' \in Nat
    BY CoAllTypes
  <1>2. /\ Waits = Waits' + IF k = "wait" THEN 1 ELSE 0
        /\ Fires = Fires' + IF k = "fired" THEN 1 ELSE 0
    BY CoOff
  <1>3. Later' = Later
    BY DEF Later, Co!Resumes
  <1>4. CASE k = "wait"
    <2>1. Waits = Waits' + 1 /\ Fires = Fires' + 0
      BY <1>2, <1>4
    <2>2. QED
      BY <1>1, <1>3, <1>4, <2>1, OneFewer
  <1>5. CASE k = "fired"
    <2>1. Waits = Waits' + 0 /\ Fires = Fires' + 1
      BY <1>2, <1>5
    <2>2. QED
      BY <1>1, <1>3, <1>5, <2>1, OneFewer
  <1>6. CASE k \notin {"wait", "fired"}
    <2>1. Waits = Waits' + 0 /\ Fires = Fires' + 0
      BY <1>2, <1>6
    <2>2. QED
      BY <1>1, <1>3, <1>6, <2>1, OneFewer
  <1>7. QED
    BY <1>4, <1>5, <1>6

LEMMA WatchdogsInductive ==
  Co!Inv /\ Co!Inv' /\ OneWatchdog /\ [Co!Next]_Co!vars => OneWatchdog'
  <1> SUFFICES ASSUME Co!Inv, Co!Inv', OneWatchdog, [Co!Next]_Co!vars, ~withTimeout'
               PROVE  Watchdogs' <= 1
    BY DEF OneWatchdog
  <1>1. /\ Co!TypeOK /\ Co!TypeOK' /\ withTimeout' = withTimeout
    BY DEF Co!Inv, Co!Next, Co!Coroutines, Co!vars, Co!Spawn, Co!EchoOn,
           Co!EchoEnds, Co!WaitBegins, Co!WaitCloses, Co!WatchLooks,
           Co!WaitEnds, Co!EchoQueued, Co!FiredQueued, Co!AbortedQueued,
           Co!SocketCompletes, Co!TimerExpires, Co!Tick, Co!Resumes
  <1>2. /\ Waits \in Nat /\ Fires \in Nat /\ fired \in Nat
        /\ Waits' \in Nat /\ Fires' \in Nat /\ fired' \in Nat
    BY <1>1, CoAllTypes
  <1>3. /\ Later \in Nat /\ Awaits \in {0, 1} /\ Later' \in Nat /\ Awaits' \in {0, 1}
    <2>1. /\ spawning \in Seq(Co!Kinds) /\ spawning' \in Seq(Co!Kinds)
          /\ "wait" \in Co!Kinds
      BY <1>1 DEF Co!TypeOK, Co!Kinds
    <2>2. Later \in Nat /\ Later' \in Nat
      BY <2>1, AppendMany DEF Later
    <2>3. QED
      BY <2>2 DEF Awaits
  <1>4. Waits + Fires + fired + Later + Awaits <= 1
    BY <1>1 DEF OneWatchdog, Watchdogs
  <1>5. Watchdogs' = Waits' + Fires' + fired' + Later' + Awaits'
    BY DEF Watchdogs
  <1>6. spawning' = spawning => Later' = Later
    BY DEF Later
  <1>7. armed' = armed => Awaits' = Awaits
    BY DEF Awaits
  <1>8. (armed => Awaits = 1) /\ (~armed => Awaits = 0)
        /\ (armed' => Awaits' = 1) /\ (~armed' => Awaits' = 0)
    BY DEF Awaits
  <1>9. CASE Co!Spawn
    <2>1. /\ spawning # <<>> /\ strand' = Append(strand, Head(spawning))
          /\ spawning' = Tail(spawning) /\ fired' = fired /\ armed' = armed
      BY <1>9 DEF Co!Spawn, Co!timer
    <2>2. spawning \in Seq(Co!Kinds) /\ Head(spawning) \in Co!Kinds
      BY <1>1, <2>1 DEF Co!TypeOK
    <2>3. Later = Later' + IF "wait" = Head(spawning) THEN 1 ELSE 0
      BY <2>1, <2>2, TailMany DEF Later
    <2>4. /\ Waits' = Waits + IF Head(spawning) = "wait" THEN 1 ELSE 0
          /\ Fires' = Fires + IF Head(spawning) = "fired" THEN 1 ELSE 0
      BY <1>1, <2>1, <2>2, CoOn
    <2>5. Head(spawning) # "fired"
      <3>1. spawning \in {<<"wait">>, <<"echo">>, <<"echo", "wait">>}
        <4>1. CASE strand = <<>> /\ echo = "new"
          <5>1. strand \o spawning = spawning
            BY <2>2, <4>1
          <5>2. QED
            BY <4>1, <5>1 DEF Co!Inv, Co!EchoFirst
        <4>2. CASE ~(strand = <<>> /\ echo = "new")
          BY <2>1, <4>2, CoNew
        <4>3. QED
          BY <4>1, <4>2
      <3>2. QED
        BY <3>1
    <2>6. Awaits' = Awaits /\ Fires' = Fires + 0
      BY <1>7, <2>1, <2>4, <2>5
    <2>7. CASE Head(spawning) = "wait"
      <3>1. Later = Later' + 1 /\ Waits' = Waits + 1
        BY <2>3, <2>4, <2>7
      <3>2. Later' = Later - 1
        BY <1>3, <3>1, OneFewer
      <3>3. Watchdogs' = (Waits + 1) + (Fires + 0) + fired + (Later - 1) + Awaits
        BY <1>5, <2>1, <2>6, <3>1, <3>2
      <3>4. QED
        BY <1>2, <1>3, <1>4, <3>3
    <2>8. CASE Head(spawning) # "wait"
      <3>1. Later = Later' + 0 /\ Waits' = Waits + 0
        BY <2>3, <2>4, <2>8
      <3>2. Later' = Later
        BY <1>3, <3>1, OneFewer
      <3>3. Watchdogs' = (Waits + 0) + (Fires + 0) + fired + Later + Awaits
        BY <1>5, <2>1, <2>6, <3>1, <3>2
      <3>4. QED
        BY <1>2, <1>3, <1>4, <3>3
    <2>9. QED
      BY <2>7, <2>8
  <1>10. CASE Co!EchoOn \/ Co!EchoEnds
    <2>1. /\ Co!Resumes("echo") /\ fired' = fired
          /\ armed' => armed
          /\ strand' = Tail(strand)
      BY <1>1, <1>10 DEF Co!EchoOn, Co!EchoEnds, Co!Cancel, Co!timer
    <2>2. Waits' = Waits /\ Fires' = Fires /\ Later' = Later
      <3>1. "echo" \notin {"wait", "fired"}
        OBVIOUS
      <3>2. QED
        BY <1>1, <2>1, <3>1, WatchdogsOff
    <2>3. CASE armed'
      <3>1. Awaits' = 1 /\ Awaits = 1
        BY <1>8, <2>1, <2>3
      <3>2. Watchdogs' = Waits + Fires + fired + Later + Awaits
        BY <1>5, <2>1, <2>2, <3>1
      <3>3. QED
        BY <1>4, <3>2
    <2>4. CASE ~armed'
      <3>1. Watchdogs' = Waits + Fires + fired + Later + 0
        BY <1>5, <1>8, <2>1, <2>2, <2>4
      <3>2. QED
        BY <1>2, <1>3, <1>4, <3>1
    <2>5. QED
      BY <2>3, <2>4
  <1>11. CASE Co!WatchLooks
    <2>1. PICK k \in {"wait", "fired"} : Co!Resumes(k)
      BY <1>11 DEF Co!WatchLooks
    <2>2. strand' = Tail(strand) /\ fired' = fired
      BY <1>11 DEF Co!WatchLooks, Co!Arm, Co!timer
    <2>3. /\ \/ Waits' = Waits - 1 /\ Fires' = Fires
             \/ Waits' = Waits /\ Fires' = Fires - 1
          /\ Later' = Later
      BY <1>1, <2>1, <2>2, WatchdogsOff
    <2>4. Awaits' = 0 \/ Awaits' = 1
      BY <1>3
    <2>5. \/ Watchdogs' = (Waits - 1) + Fires + fired + Later + 0
          \/ Watchdogs' = (Waits - 1) + Fires + fired + Later + 1
          \/ Watchdogs' = Waits + (Fires - 1) + fired + Later + 0
          \/ Watchdogs' = Waits + (Fires - 1) + fired + Later + 1
      BY <1>5, <2>2, <2>3, <2>4
    <2>6. QED
      BY <1>2, <1>3, <1>4, <2>5
  <1>12. CASE Co!WaitEnds
    <2>1. Co!Resumes("aborted") /\ strand' = Tail(strand) /\ fired' = fired
          /\ armed' = armed
      BY <1>12 DEF Co!WaitEnds, Co!timer
    <2>2. Waits' = Waits /\ Fires' = Fires /\ Later' = Later /\ Awaits' = Awaits
      BY <1>1, <1>7, <2>1, WatchdogsOff
    <2>3. QED
      BY <1>2, <1>3, <1>4, <1>5, <2>1, <2>2
  <1>13. CASE Co!EchoQueued \/ Co!AbortedQueued
    <2>1. PICK k \in {"echo", "aborted"} : strand' = Append(strand, k)
      BY <1>13 DEF Co!EchoQueued, Co!AbortedQueued
    <2>2. fired' = fired /\ armed' = armed /\ spawning' = spawning
      BY <1>13 DEF Co!EchoQueued, Co!AbortedQueued, Co!timer
    <2>3. k \in Co!Kinds
      BY DEF Co!Kinds
    <2>4. Waits' = Waits + 0 /\ Fires' = Fires + 0
      BY <1>1, <2>1, <2>3, CoOn
    <2>5. Waits' = Waits /\ Fires' = Fires /\ Later' = Later /\ Awaits' = Awaits
      BY <1>2, <1>6, <1>7, <2>2, <2>4
    <2>6. QED
      BY <1>2, <1>3, <1>4, <1>5, <2>2, <2>5
  <1>14. CASE Co!FiredQueued
    <2>1. /\ strand' = Append(strand, "fired") /\ fired > 0 /\ fired' = fired - 1
          /\ armed' = armed /\ spawning' = spawning /\ "fired" \in Co!Kinds
      BY <1>14 DEF Co!FiredQueued, Co!Kinds
    <2>2. Waits' = Waits + 0 /\ Fires' = Fires + 1
      BY <1>1, <2>1, CoOn
    <2>3. QED
      BY <1>2, <1>3, <1>4, <1>5, <1>6, <1>7, <2>1, <2>2
  <1>15. CASE Co!TimerExpires
    <2>1. /\ strand' = strand /\ fired' = fired + 1 /\ armed /\ ~armed'
          /\ spawning' = spawning
      BY <1>15 DEF Co!TimerExpires
    <2>2. Waits' = Waits /\ Fires' = Fires
      BY <2>1 DEF Waits, Fires
    <2>3. QED
      BY <1>2, <1>3, <1>4, <1>5, <1>6, <1>8, <2>1, <2>2
  <1>16. CASE Co!SocketCompletes \/ Co!Tick \/ UNCHANGED Co!vars
    <2>1. /\ strand' = strand /\ fired' = fired /\ armed' = armed
          /\ spawning' = spawning
      BY <1>16 DEF Co!SocketCompletes, Co!Tick, Co!vars, Co!timer
    <2>2. Waits' = Waits /\ Fires' = Fires
      BY <2>1 DEF Waits, Fires
    <2>3. QED
      BY <1>2, <1>3, <1>4, <1>5, <1>6, <1>7, <2>1, <2>2
  <1>17. ~Co!WaitBegins /\ ~Co!WaitCloses
    BY <1>1 DEF Co!WaitBegins, Co!WaitCloses
  <1>18. QED
    BY <1>9, <1>10, <1>11, <1>12, <1>13, <1>14, <1>15, <1>16, <1>17
       DEF Co!Next, Co!Coroutines

(* In watchdog mode there is never a second watchdog: when the coroutine   *)
(* looks at deadline_ and waits, no wait is outstanding that arming timer_ *)
(* would cancel, so nobody but the echo coroutine, at its end, cancels it. *)
THEOREM CoOneWatchdog ==
  Co!Spec => /\ []OneWatchdog
             /\ [][~withTimeout /\ aborted' > aborted => Co!EchoEnds]_Co!vars
  <1> DEFINE Self == ~withTimeout /\ aborted' > aborted => Co!EchoEnds
             Both == Co!Inv /\ OneWatchdog
  <1>1. Co!Init => Both
    BY CoInitial, WatchdogsInitial
  <1>2. Both /\ [Co!Next]_Co!vars => Both'
    BY CoInductive, WatchdogsInductive
  <1>3. Both /\ Both' /\ [Co!Next]_Co!vars => [Self]_Co!vars
    <2> SUFFICES ASSUME Co!Inv, OneWatchdog, Co!Next, ~withTimeout,
                        aborted' > aborted, ~Co!EchoEnds
                 PROVE  FALSE
      OBVIOUS
    <2>1. Co!TypeOK /\ aborted \in Nat
      BY DEF Co!Inv, Co!TypeOK
    <2>2. Co!WatchLooks /\ aborted' = Co!Cancelled
      BY <2>1 DEF Co!Next, Co!Coroutines, Co!Spawn, Co!EchoOn,
             Co!WaitBegins, Co!WaitCloses, Co!WatchLooks, Co!WaitEnds,
             Co!EchoQueued, Co!FiredQueued, Co!AbortedQueued,
             Co!SocketCompletes, Co!TimerExpires, Co!Tick, Co!Arm, Co!timer
    <2>3. armed
      BY <2>1, <2>2 DEF Co!Cancelled
    <2>4. PICK k \in {"wait", "fired"} : Co!Resumes(k)
      BY <2>2 DEF Co!WatchLooks
    <2>5. /\ strand \in Seq(Co!Kinds) /\ strand # <<>> /\ Head(strand) = k
      BY <2>1, <2>4 DEF Co!Resumes, Co!TypeOK
    <2>6. HowMany(Tail(strand), k) \in Nat
          /\ HowMany(strand, k) = HowMany(Tail(strand), k) + 1
      <3>1. HowMany(strand, k) = HowMany(Tail(strand), k)
                                   + IF k = Head(strand) THEN 1 ELSE 0
        BY <2>5, TailMany
      <3>2. QED
        BY <2>5, <3>1, TailMany
    <2>7. Waits >= 1 \/ Fires >= 1
      BY <2>6 DEF Waits, Fires
    <2>8. Later \in Nat
      <3>1. spawning \in Seq(Co!Kinds) /\ "wait" \in Co!Kinds
        BY <2>1 DEF Co!TypeOK, Co!Kinds
      <3>2. QED
        BY <3>1, AppendMany DEF Later
    <2>9. Awaits = 1
      BY <2>3 DEF Awaits
    <2>10. QED
      BY <2>1, <2>7, <2>8, <2>9, CoCounts DEF OneWatchdog, Watchdogs
  <1> HIDE DEF Self, Both
  <1>4. Co!Spec => []Both /\ [][Self]_Co!vars
    BY <1>1, <1>2, <1>3, PTL DEF Co!Spec
  <1>5. Both => OneWatchdog
    BY DEF Both
  <1>6. Co!Spec => []OneWatchdog /\ [][Self]_Co!vars
    BY <1>4, <1>5, PTL
  <1>7. QED
    BY <1>6 DEF Self
=============================================================================
