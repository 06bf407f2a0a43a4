---------------------------- MODULE EchoSession ----------------------------
(***************************************************************************)
(* asio/echo/server.cc: one session of the echo server, in its two modes:  *)
(* a watchdog timer that follows deadline_, or a timeout per operation.    *)
(*                                                                         *)
(* Many threads run the io_context.  The handlers of a session are bound   *)
(* to its strand, so that each handler is one action; but start () is      *)
(* called by the accept handler, which is not on the strand, so that the   *)
(* statements of start (), those of the start_watchdog () or               *)
(* start_timeout () it calls included, interleave with the handlers.       *)
(*                                                                         *)
(* A handler is one action although start () may run between two of its    *)
(* statements: a statement of a handler that start () can meet touches     *)
(* the socket, deadline_ or the timer and nothing else, so that start ()   *)
(* might as well have come before the handler or after it.  The accesses   *)
(* themselves, which no lock orders, are taken to be whole, and so is each *)
(* call on the socket and on the timer.                                    *)
(*                                                                         *)
(* Handlers hold shared_from_this (): the session lives as long as there   *)
(* is an outstanding operation or wait, or a queued handler.  A wait that  *)
(* has expired and whose handler is queued can no longer be cancelled.     *)
(* The strand may run queued handlers in any order.                        *)
(*                                                                         *)
(* Time is relative: left and read are the ticks until the deadline_ that  *)
(* is stored and the one that start () has computed, tleft those until the *)
(* timer expires, idle those since the last socket operation was started.  *)
(***************************************************************************)
EXTENDS Naturals

CONSTANTS Timeout,    \* timeout_, in ticks
          MaxQueued   \* bound: wait handlers queued when the peer acts

ASSUME EchoAssumption == Timeout \in Nat \ {0} /\ MaxQueued \in Nat \ {0}

VARIABLES withTimeout, \* the argument of start ()
          spc,       \* the next statement of start ()
          open,      \* socket_ is open
          op,        \* the outstanding socket operation
          result,    \* "pending", or the result its queued handler will get
          waits,     \* how many waits on timer_ are outstanding
          tleft,     \* ticks until its expiry, waited for or not
          fired,     \* queued wait handlers without error
          aborted,   \* queued wait handlers with operation_aborted
          left, read, idle,
          overtaken  \* a handler put deadline_ off in one of the two windows
                     \* of start (): see MidStart

socket == <<open, op, result>>
timer  == <<waits, tleft, fired, aborted>>
clocks == <<left, read, idle, overtaken>>
start  == <<withTimeout, spc>>
vars   == <<start, socket, timer, clocks>>

Init == /\ withTimeout \in BOOLEAN
        /\ spc = "receive"
        /\ open = TRUE
        /\ op = "none" /\ result = "none"
        /\ waits = 0 /\ tleft = 0 /\ fired = 0 /\ aborted = 0
        /\ left = 0 /\ read = 0 /\ idle = 0
        /\ overtaken = FALSE

-----------------------------------------------------------------------------
(***************************************************************************)
(* Pieces of handlers                                                      *)
(***************************************************************************)

\* Operation o on the socket begins; on a closed socket its handler is queued
\* at once, with an error.
Begins(o) == /\ op' = o
             /\ result' = IF open THEN "pending" ELSE "error"
             /\ idle' = 0
             /\ UNCHANGED open

\* socket_.close (): an outstanding operation, o with result r, is aborted.
CloseSocket(o, r) == /\ open' = FALSE
                     /\ op' = o
                     /\ result' = IF r = "pending" THEN "error" ELSE r

\* timer_.cancel () with f and a queued handlers; the expiry remains.
CancelTimer(f, a) == /\ waits' = 0
                     /\ fired' = f
                     /\ aborted' = a + waits
                     /\ UNCHANGED tleft

\* timer_.expires_at/after in n ticks, which cancels, and async_wait.
CancelOnly(n, f, a) == CancelTimer(f, a)    \* bug: nothing waits on the timer
ArmTimer(n, f, a) == /\ waits' = 1
                     /\ tleft' = n
                     /\ fired' = f
                     /\ aborted' = a + waits

Stop(o, r, f, a) == CloseSocket(o, r) /\ CancelTimer(f, a)

\* start_watchdog () in a handler, with f queued handlers left.
WatchdogOnce(f) == IF left = 0              \* bug: the timer is not rearmed
                   THEN Stop(op, result, f, aborted)
                   ELSE CancelTimer(f, aborted) /\ UNCHANGED socket
Watchdog(f) == IF left = 0
               THEN Stop(op, result, f, aborted)
               ELSE ArmTimer(left, f, aborted) /\ UNCHANGED socket

(***************************************************************************)
(* start (), outside the strand                                            *)
(***************************************************************************)
StartReceive == /\ spc = "receive"
                /\ Begins("receive")
                /\ spc' = IF withTimeout THEN "expire" ELSE "clock"
                /\ UNCHANGED <<withTimeout, timer, left, read, overtaken>>

\* steady_clock::now () + timeout_ ...
StartClock == /\ spc = "clock"
              /\ read' = Timeout
              /\ spc' = "write"
              /\ UNCHANGED <<withTimeout, socket, timer, left, idle, overtaken>>

\* ... is assigned to deadline_.
StartWrite == /\ spc = "write"
              /\ left' = read
              /\ read' = 0
              /\ spc' = "check"
              /\ UNCHANGED <<withTimeout, socket, timer, idle, overtaken>>

\* start_watchdog () compares the clock with deadline_, as it would at some
\* moment between its reading of the one and of the other.
StartCheck == /\ spc = "check"
              /\ spc' = IF left = 0 THEN "stop" ELSE "expire"
              /\ UNCHANGED <<withTimeout, socket, timer, clocks>>

\* stop () in start_watchdog (); no wait is there to be cancelled.
StartStop == /\ spc = "stop"
             /\ Stop(op, result, fired, aborted)
             /\ spc' = "done"
             /\ UNCHANGED <<withTimeout, clocks>>

\* timer_.expires_at (deadline_) in start_watchdog (), or expires_after
\* (timeout_) in start_timeout (): the waits of handlers are cancelled.
StartExpire == /\ spc = "expire"
               /\ waits' = 0
               /\ tleft' = IF withTimeout THEN Timeout ELSE left
               /\ aborted' = aborted + waits
               /\ spc' = "wait"
               /\ UNCHANGED <<withTimeout, socket, fired, clocks>>

\* timer_.async_wait, besides one that a handler has begun since, and until
\* the expiry that is set by now.
StartWait == /\ spc = "wait"
             /\ waits' = waits + 1
             /\ spc' = "done"
             /\ UNCHANGED <<withTimeout, socket, tleft, fired, aborted, clocks>>

(***************************************************************************)
(* Handlers, on the strand                                                 *)
(***************************************************************************)
Other(o) == IF o = "receive" THEN "send" ELSE "receive"

\* The windows of start (): it has read the clock for deadline_ and not yet
\* assigned it, or has found the deadline passed and not yet stopped.
MidStart == spc \in {"write", "stop"}

\* The socket operation is over: handle_receive or handle_write, and what it
\* calls: stop (), or the next operation with a new deadline_ or timeout.
NoNewDeadline == FALSE                          \* bug: deadline_ not advanced
NewDeadline == ~withTimeout
RunSocketBlind ==                               \* bug: the error is ignored
  /\ result \in {"ok", "error"}
  /\ Begins(Other(op))
  /\ left' = IF NewDeadline THEN Timeout ELSE left
  /\ IF withTimeout THEN ArmTimer(Timeout, fired, aborted) ELSE UNCHANGED timer
  /\ overtaken' = (overtaken \/ MidStart)
  /\ UNCHANGED <<start, read>>
RunSocketUntimed ==                      \* bug: the timer is not set anew
  /\ \/ /\ result = "error"
        /\ Stop("none", "none", fired, aborted)
        /\ UNCHANGED clocks
     \/ /\ result = "ok"
        /\ Begins(Other(op))
        /\ UNCHANGED <<timer, left, read, overtaken>>
  /\ UNCHANGED start
RunSocket ==
  /\ \/ /\ result = "error"
        /\ Stop("none", "none", fired, aborted)
        /\ UNCHANGED clocks
     \/ /\ result = "ok"
        /\ Begins(Other(op))
        /\ left' = IF NewDeadline THEN Timeout ELSE left
        /\ IF withTimeout THEN ArmTimer(Timeout, fired, aborted)
                          ELSE UNCHANGED timer
        /\ overtaken' = (overtaken \/ MidStart)
        /\ UNCHANGED read
  /\ UNCHANGED start

\* handle_wait without error.
RunTimer == /\ fired > 0
            /\ IF withTimeout THEN Stop(op, result, fired - 1, aborted)
                              ELSE Watchdog(fired - 1)
            /\ UNCHANGED <<start, clocks>>

\* handle_wait with operation_aborted does nothing.
RunAborted == /\ aborted > 0
              /\ aborted' = aborted - 1
              /\ UNCHANGED <<start, socket, waits, tleft, fired, clocks>>

(***************************************************************************)
(* The io_context, the peer and time                                       *)
(***************************************************************************)

\* The peer sends, takes what we send, closes, or the connection breaks.
SocketCompletes == /\ result = "pending"
                   /\ fired + aborted < MaxQueued
                   /\ result' \in {"ok", "error"}
                   /\ UNCHANGED <<start, open, op, timer, clocks>>

TimerExpires == /\ waits > 0
                /\ tleft = 0
                /\ waits' = 0
                /\ fired' = fired + waits
                /\ UNCHANGED <<start, socket, tleft, aborted, clocks>>

Minus1(n) == IF n = 0 THEN 0 ELSE n - 1

Tick == /\ left' = Minus1(left)
        /\ read' = Minus1(read)
        /\ tleft' = Minus1(tleft)
        /\ idle' = IF idle < Timeout THEN idle + 1 ELSE idle
        /\ UNCHANGED <<start, socket, waits, fired, aborted, overtaken>>

-----------------------------------------------------------------------------
Start == \/ StartReceive \/ StartClock \/ StartWrite
         \/ StartCheck \/ StartStop \/ StartExpire \/ StartWait

Next == \/ Start
        \/ RunSocket \/ RunTimer \/ RunAborted
        \/ SocketCompletes \/ TimerExpires \/ Tick

Spec == Init /\ [][Next]_vars

(***************************************************************************)
(* The threads of the io_context run what is queued, the accept handler    *)
(* finishes start (), and time passes.  The peer owes us nothing.          *)
(***************************************************************************)
Fairness == /\ WF_vars(Start)
            /\ WF_vars(RunSocket) /\ WF_vars(RunTimer) /\ WF_vars(RunAborted)
            /\ WF_vars(TimerExpires) /\ WF_vars(Tick)

FairSpec == Spec /\ Fairness
-----------------------------------------------------------------------------
Ticks == 0 .. Timeout

(* The variables have their types, and an operation has a result.          *)
TypeOK == /\ withTimeout \in BOOLEAN
          /\ spc \in {"receive", "clock", "write", "check", "stop", "expire",
                      "wait", "done"}
          /\ open \in BOOLEAN /\ overtaken \in BOOLEAN
          /\ op \in {"none", "receive", "send"}
          /\ result \in {"none", "pending", "ok", "error"}
          /\ op = "none" <=> result = "none"
          /\ tleft \in Ticks /\ left \in Ticks /\ read \in Ticks /\ idle \in Ticks
          /\ waits \in 0 .. 2 /\ fired \in Nat /\ aborted \in Nat

Alive == spc # "done" \/ op # "none" \/ waits > 0 \/ fired > 0 \/ aborted > 0

(* An open session is never forgotten: it always has a socket operation    *)
(* outstanding, so that its handlers keep it alive, and once start () has  *)
(* returned it is watched, although start () and the handlers share the    *)
(* timer: the timer's handler is queued, or a wait on it is outstanding,   *)
(* and in watchdog mode never beyond deadline_.                            *)
Watched == open => /\ spc # "receive" => op # "none"
                   /\ spc = "done" => fired > 0 \/ waits > 0
                   /\ ~withTimeout => \/ spc \notin {"wait", "done"}
                                      \/ fired > 0
                                      \/ tleft <= left

(* The timer is not waited on before start () or a handler sets it, so     *)
(* that nothing of the timer is there to close too early; and start () and *)
(* a handler make no more than two waits between them.                     *)
Untimed == /\ spc = "receive" => op = "none"
           /\ \/ spc = "receive"
              \/ ~withTimeout /\ spc # "done"
              => waits = 0 /\ fired = 0
           /\ spc # "done" => waits < 2

(* Neither deadline_, from the moment start () has computed it, nor the    *)
(* timer of an operation comes before Timeout has passed without a new     *)
(* operation - deadline_ unless a handler overtook start () in a window.   *)
Punctual ==
  /\ ~withTimeout /\ ~overtaken =>
       /\ spc = "write" => read + idle >= Timeout
       /\ spc \in {"check", "stop", "expire", "wait", "done"} =>
            left + idle >= Timeout
       /\ spc = "stop" => left = 0
  /\ withTimeout /\ (waits > 0 \/ spc = "wait") => tleft + idle >= Timeout

(* What every handler preserves.                                           *)
Inv == TypeOK /\ Watched /\ Untimed /\ Punctual

(* The watchdog closes only a session that has started nothing for         *)
(* Timeout, whatever handlers were queued when - unless a handler overtook *)
(* start () in one of its two windows: in the middle of its assignment to  *)
(* deadline_, which then undoes the handler's, or between its check of the *)
(* deadline and its stop (), which then closes a session just used.        *)
ClosedWhenIdle ==
  [][open /\ ~open' /\ op' = op =>
       withTimeout \/ overtaken \/ idle = Timeout]_vars

(* In timeout mode the timer expires only when the current operation has   *)
(* lasted for Timeout, although start () and the handlers set it.          *)
ExpiresWhenIdle ==
  [][withTimeout /\ fired' > fired => idle = Timeout]_vars

(* A silent peer cannot hold a session: every socket operation ends, or    *)
(* the session is closed.                                                  *)
OperationsEnd == result = "pending" ~> result # "pending"

(* A closed session is released: no handler goes on referring to it, and   *)
(* none rearms the timer or starts operations on it for ever.              *)
Released == ~open ~> ~Alive
=============================================================================
