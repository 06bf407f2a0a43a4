----------------------------- MODULE CoSession -----------------------------
(***************************************************************************)
(* asio/echo/co_server.cc: a session of the echo server made of stackful   *)
(* coroutines on a strand.  One of them echoes.  In watchdog mode another  *)
(* one watches deadline_; in timeout mode each operation spawns one that   *)
(* waits on the timer and closes the socket.                               *)
(*                                                                         *)
(* The strand resumes one coroutine at a time, in the order in which the   *)
(* resumptions were queued: spawn queues one at once, whereas a completed  *)
(* operation is first picked up by some thread of the io_context, so that  *)
(* it gets into the queue at any later time.  A coroutine that is spawned  *)
(* on the strand may also run at once, nested in the one that spawns it:   *)
(* asio leaves that open.  Coroutines hold the session by self.            *)
(*                                                                         *)
(* Time is relative, as in EchoSession.                                    *)
(***************************************************************************)
EXTENDS Naturals, Sequences, SequencesExt

CONSTANTS Timeout,    \* timeout_, in ticks
          MaxQueued   \* bound: resumptions under way when the peer acts

ASSUME CoAssumption == Timeout \in Nat \ {0} /\ MaxQueued \in Nat \ {0}

VARIABLES withTimeout,   \* the argument of start ()
          spawning,      \* what start () has yet to spawn
          strand,        \* queued resumptions: of the echo coroutine, or of
                         \* a timer's one that begins ("wait"), has waited
                         \* ("fired") or whose wait was cancelled ("aborted")
          open,          \* socket_ is open
          echo,          \* "new", "receive", "send", "over"
          result,        \* of its operation: "pending", "ok", "error", or
                         \* "queued" when the resumption is on the strand
          error,         \* that resumption carries an error
          armed, tleft,  \* a wait on timer_ is outstanding; its ticks
          fired, aborted, \* completed waits that no thread has picked up
          left,          \* ticks until deadline_
          idle           \* ticks since the last operation was started

socket == <<open, echo, result, error>>
timer  == <<armed, tleft, fired, aborted>>
vars   == <<withTimeout, spawning, strand, socket, timer, left, idle>>

Init == /\ withTimeout \in BOOLEAN
        /\ spawning = IF withTimeout THEN <<"echo">> ELSE <<"echo", "wait">>
        /\ strand = <<>>
        /\ open = TRUE
        /\ echo = "new" /\ result = "none" /\ error = FALSE
        /\ armed = FALSE /\ tleft = 0 /\ fired = 0 /\ aborted = 0
        /\ left = 0     \* deadline_ is the epoch
        /\ idle = 0

-----------------------------------------------------------------------------
(***************************************************************************)
(* Pieces of coroutines.  rest is the strand without the running one.      *)
(***************************************************************************)
Begins(o) == /\ echo' = o
             /\ result' = IF open THEN "pending" ELSE "error"
             /\ error' = FALSE
             /\ idle' = 0
             /\ UNCHANGED open

\* socket_.close ()
Close == /\ open' = FALSE
         /\ result' = IF result = "pending" THEN "error" ELSE result
         /\ UNCHANGED <<echo, error>>

Cancelled == aborted + IF armed THEN 1 ELSE 0

\* timer_.cancel ()
Cancel == armed' = FALSE /\ tleft' = 0 /\ aborted' = Cancelled /\ UNCHANGED fired

\* timer_.expires_at/after in n ticks, which cancels, and async_wait.
Arm(n) == armed' = TRUE /\ tleft' = n /\ aborted' = Cancelled /\ UNCHANGED fired

\* A coroutine of the timer is spawned; what it does first may come at once.
SpawnWait(rest) == \/ strand' = Append(rest, "wait") /\ Cancel
                   \/ strand' = rest /\ Arm(Timeout)

(***************************************************************************)
(* start (), on a thread that is not on the strand                         *)
(***************************************************************************)
SpawnLast == /\ spawning # <<>>     \* bug: the watchdog is spawned first
             /\ strand' = Append(strand, Last(spawning))
             /\ spawning' = Front(spawning)
             /\ UNCHANGED <<withTimeout, socket, timer, left, idle>>
Spawn == /\ spawning # <<>>
         /\ strand' = Append(strand, Head(spawning))
         /\ spawning' = Tail(spawning)
         /\ UNCHANGED <<withTimeout, socket, timer, left, idle>>

(***************************************************************************)
(* The coroutines                                                          *)
(***************************************************************************)
Other == IF echo = "receive" THEN "send" ELSE "receive"

\* The strand resumes a coroutine of kind k; the rest of the queue stays.
Resumes(k) == strand # <<>> /\ Head(strand) = k /\ UNCHANGED <<withTimeout, spawning>>

\* The echo coroutine goes on with its next operation.
EchoOn == /\ Resumes("echo")
          /\ ~error
          /\ Begins(Other)
          /\ IF withTimeout
             THEN SpawnWait(Tail(strand)) /\ UNCHANGED left
             ELSE /\ strand' = Tail(strand)
                  /\ left' = Timeout
                  /\ UNCHANGED timer

\* It leaves its loop after an error: timer_.cancel ().
EchoIgnores == /\ Resumes("echo")       \* bug: the error is ignored
               /\ error
               /\ strand' = Tail(strand)
               /\ Begins(Other)
               /\ UNCHANGED <<timer, left>>
EchoEnds == /\ Resumes("echo")
            /\ error
            /\ strand' = Tail(strand)
            /\ echo' = "over" /\ result' = "none" /\ error' = FALSE
            /\ Cancel
            /\ UNCHANGED <<open, left, idle>>

\* In timeout mode: the wait begins, or is over and closes the socket.
WaitBegins == /\ withTimeout /\ Resumes("wait")
              /\ strand' = Tail(strand)
              /\ Arm(Timeout)
              /\ UNCHANGED <<socket, left, idle>>
WaitCloses == /\ withTimeout /\ Resumes("fired")
              /\ strand' = Tail(strand)
              /\ Close
              /\ UNCHANGED <<timer, left, idle>>

\* In watchdog mode: look at deadline_, and close the socket or wait.
WatchStops == /\ ~withTimeout           \* bug: waits once only
              /\ Resumes("wait") \/ Resumes("fired")
              /\ strand' = Tail(strand)
              /\ IF Head(strand) = "wait"
                 THEN Arm(left) /\ UNCHANGED socket
                 ELSE UNCHANGED <<timer, socket>>
              /\ UNCHANGED <<left, idle>>
WatchLooks == /\ ~withTimeout
              /\ Resumes("wait") \/ Resumes("fired")
              /\ strand' = Tail(strand)
              /\ IF left = 0 THEN Close /\ UNCHANGED timer
                             ELSE Arm(left) /\ UNCHANGED socket
              /\ UNCHANGED <<left, idle>>

\* A cancelled wait: the coroutine ends.
WaitEnds == /\ Resumes("aborted")
            /\ strand' = Tail(strand)
            /\ UNCHANGED <<socket, timer, left, idle>>

(***************************************************************************)
(* The threads of the io_context, the peer and time                        *)
(***************************************************************************)
EchoQueued == /\ result \in {"ok", "error"}
              /\ strand' = Append(strand, "echo")
              /\ error' = (result = "error")
              /\ result' = "queued"
              /\ UNCHANGED <<withTimeout, spawning, open, echo, timer, left, idle>>

FiredQueued == /\ fired > 0
               /\ fired' = fired - 1
               /\ strand' = Append(strand, "fired")
               /\ UNCHANGED <<withTimeout, spawning, socket, armed, tleft,
                              aborted, left, idle>>

AbortedQueued == /\ aborted > 0
                 /\ aborted' = aborted - 1
                 /\ strand' = Append(strand, "aborted")
                 /\ UNCHANGED <<withTimeout, spawning, socket, armed, tleft,
                                fired, left, idle>>

SocketCompletes == /\ result = "pending"
                   /\ Len(strand) + fired + aborted < MaxQueued
                   /\ result' \in {"ok", "error"}
                   /\ UNCHANGED <<withTimeout, spawning, strand, open, echo,
                                  error, timer, left, idle>>

TimerExpires == /\ armed /\ tleft = 0
                /\ armed' = FALSE
                /\ fired' = fired + 1
                /\ UNCHANGED <<withTimeout, spawning, strand, socket, tleft,
                               aborted, left, idle>>

Tick == /\ tleft' = IF tleft = 0 THEN 0 ELSE tleft - 1
        /\ left' = IF left = 0 THEN 0 ELSE left - 1
        /\ idle' = IF idle < Timeout THEN idle + 1 ELSE idle
        /\ UNCHANGED <<withTimeout, spawning, strand, socket, armed, fired,
                       aborted>>

-----------------------------------------------------------------------------
Coroutines == \/ EchoOn \/ EchoEnds \/ WaitBegins \/ WaitCloses
              \/ WatchLooks \/ WaitEnds

Next == \/ Spawn \/ Coroutines
        \/ EchoQueued \/ FiredQueued \/ AbortedQueued
        \/ SocketCompletes \/ TimerExpires \/ Tick

Spec == Init /\ [][Next]_vars

(***************************************************************************)
(* start () is finished, the threads resume what is ready, time passes.    *)
(* The peer owes us nothing.                                               *)
(***************************************************************************)
Fairness == /\ WF_vars(Spawn) /\ WF_vars(Coroutines)
            /\ WF_vars(EchoQueued) /\ WF_vars(FiredQueued)
            /\ WF_vars(AbortedQueued)
            /\ WF_vars(TimerExpires) /\ WF_vars(Tick)

FairSpec == Spec /\ Fairness
-----------------------------------------------------------------------------
Ticks == 0 .. Timeout
Kinds == {"echo", "wait", "fired", "aborted"}

(* The variables have their types, and the echo coroutine has an operation *)
(* exactly while it is in its loop.                                        *)
TypeOK == /\ withTimeout \in BOOLEAN /\ open \in BOOLEAN
          /\ error \in BOOLEAN /\ armed \in BOOLEAN
          /\ spawning \in Seq(Kinds) /\ strand \in Seq(Kinds)
          /\ echo \in {"new", "receive", "send", "over"}
          /\ result \in {"none", "pending", "ok", "error", "queued"}
          /\ echo \in {"receive", "send"} <=> result # "none"
          /\ tleft \in Ticks /\ left \in Ticks /\ idle \in Ticks
          /\ fired \in Nat /\ aborted \in Nat

Queued(k) == \E i \in DOMAIN strand : strand[i] = k
Timed == armed \/ fired > 0 \/ Queued("fired") \/ Queued("wait")

(* An open session whose echo coroutine is in its loop is watched, once    *)
(* start () is over: a coroutine waits on the timer, or will be resumed to *)
(* do so; in watchdog mode never beyond deadline_.                         *)
Watched == open /\ echo \in {"receive", "send"} /\ spawning = <<>> =>
             Timed /\ (~withTimeout /\ armed => tleft <= left)

(* The echo coroutine is the first to run: until then nothing else has     *)
(* happened than that start () has spawned some of the coroutines.         *)
EchoFirst ==
  IF echo = "new"
  THEN /\ ~error /\ ~armed /\ fired = 0 /\ aborted = 0
       /\ strand \o spawning = IF withTimeout THEN <<"echo">>
                                              ELSE <<"echo", "wait">>
  ELSE spawning \in {<<>>, <<"wait">>}

(* It is resumed once for each operation, and not after its end.           *)
OneEcho ==
  /\ \A i, j \in DOMAIN strand : strand[i] = "echo" /\ strand[j] = "echo" => i = j
  /\ Queued("echo") => echo = "new" \/ result = "queued"

(* In watchdog mode deadline_, once the echo coroutine has set it, does    *)
(* not come before Timeout has passed without a new operation; and nobody  *)
(* waits beyond it.                                                        *)
Punctual == ~withTimeout => /\ echo # "new" => left + idle >= Timeout
                            /\ armed => tleft <= left

(* What every resumption of a coroutine preserves.                         *)
Inv == TypeOK /\ Watched /\ EchoFirst /\ OneEcho /\ Punctual

(* The watchdog closes only a session that has started nothing for         *)
(* Timeout; in particular it never looks at deadline_ before the echo      *)
(* coroutine has set it, although start () spawns both from outside.       *)
ClosedWhenIdle == [][open /\ ~open' => withTimeout \/ idle = Timeout]_vars

(* A silent peer cannot hold a session: every operation ends.              *)
OperationsEnd == result = "pending" ~> result # "pending"

(* Once the echo coroutine has left its loop or the socket is closed, all  *)
(* coroutines end, so that the session is released.                        *)
Released ==
  ~open \/ echo = "over" ~>
    echo = "over" /\ strand = <<>> /\ ~armed /\ fired = 0 /\ aborted = 0
=============================================================================
