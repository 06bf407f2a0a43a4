---------------------------- MODULE ProxySession ----------------------------
(***************************************************************************)
(* asio/proxy/server.cc: one session of the TCP proxy.  It connects to the *)
(* target and then pumps in two directions, each with a buffer, a strand   *)
(* and a watchdog of its own.  A pump receives, sends what it has received *)
(* and receives again, and puts off its watchdog's deadline_ each time;    *)
(* whatever goes wrong in one direction stops the session for both.        *)
(*                                                                         *)
(* One thread runs the io_context: a handler is one action.  Handlers that *)
(* are queued run in any order, which includes the orders of two strands.  *)
(* The session lives as long as a handler that refers to it.               *)
(*                                                                         *)
(* A watchdog has at most one wait outstanding, because start () is called *)
(* by handle_connect and then only by the handler of the wait before; a    *)
(* wait whose handler is queued ("fired", "aborted") cannot be cancelled.  *)
(* Time is relative, as ticks until or since a moment.                     *)
(***************************************************************************)
EXTENDS Naturals

CONSTANT Timeout    \* timeout_, in ticks

ASSUME ProxyAssumption == Timeout \in Nat \ {0}

VARIABLES connect,  \* "pending", the result its queued handler gets, or "done"
          open,     \* client_ and server_ are open
          op,       \* the outstanding operation of each pump
          result,   \* "pending", or the result its queued handler will get
          wait,     \* the wait of each watchdog
          tleft,    \* ticks until it expires
          left,     \* ticks until deadline_
          idle      \* ticks since the pump's last operation was started

sockets   == <<connect, open, op, result>>
watchdogs == <<wait, tleft, left>>
vars      == <<sockets, watchdogs, idle>>

Dir == {"up", "down"}       \* from the client to the target, and back

Init == /\ connect = "pending"
        /\ open = TRUE
        /\ op = [d \in Dir |-> "none"]
        /\ result = [d \in Dir |-> "none"]
        /\ wait = [d \in Dir |-> "none"]
        /\ tleft = [d \in Dir |-> 0]
        /\ left = [d \in Dir |-> 0]
        /\ idle = [d \in Dir |-> 0]

-----------------------------------------------------------------------------
(***************************************************************************)
(* Pieces of handlers.  ops, results and waits are what is outstanding     *)
(* when the piece begins: the running handler's own is over.               *)
(***************************************************************************)
Over(f, d) == [f EXCEPT ![d] = "none"]

\* stop (): both sockets are closed, which aborts what is outstanding on
\* them, and both timers are cancelled.
Aborted(results) == [d \in Dir |-> IF results[d] = "pending" THEN "error"
                                   ELSE results[d]]
Stop(ops, results, waits) ==
  /\ open' = FALSE
  /\ op' = ops
  /\ result' = Aborted(results)
  /\ wait' = [d \in Dir |-> IF waits[d] = "armed" THEN "aborted" ELSE waits[d]]

\* The deadlines that an operation of pump d puts off.
DelayedBoth(d) == Dir                       \* bug: one deadline for both
Delayed(d) == {d}

(***************************************************************************)
(* Handlers                                                                *)
(***************************************************************************)


\* handle_connect: both pumps and both watchdogs start; or the session ends,
\* and its destructor closes the client's socket.
HandleConnect ==
  /\ connect \in {"ok", "error"}
  /\ connect' = "done"
  /\ IF connect = "ok"
     THEN /\ op' = [d \in Dir |-> "receive"]
          /\ result' = [d \in Dir |-> "pending"]
          /\ left' = [d \in Dir |-> Timeout]
          /\ wait' = [d \in Dir |-> "armed"]
          /\ tleft' = [d \in Dir |-> Timeout]
          /\ idle' = [d \in Dir |-> 0]
          /\ UNCHANGED open
     ELSE open' = FALSE /\ UNCHANGED <<op, result, watchdogs, idle>>

Other(o) == IF o = "receive" THEN "send" ELSE "receive"

\* handle_receive or handle_write of pump d without error: the next operation
\* is started, which fails at once if the session has been stopped.
PumpOn(d) ==
  /\ result[d] = "ok"
  /\ op' = [op EXCEPT ![d] = Other(@)]
  /\ result' = [result EXCEPT ![d] = IF open THEN "pending" ELSE "error"]
  /\ left' = [e \in Dir |-> IF e \in Delayed(d) THEN Timeout ELSE left[e]]
  /\ idle' = [idle EXCEPT ![d] = 0]
  /\ UNCHANGED <<connect, open, wait, tleft>>

\* The same with an error, an orderly end of file included.
PumpTriesAgain(d) ==            \* bug: the error is ignored
  /\ result[d] = "error"
  /\ result' = [result EXCEPT ![d] = IF open THEN "pending" ELSE "error"]
  /\ UNCHANGED <<connect, open, op, watchdogs, idle>>
PumpFails(d) == /\ result[d] = "error"
                /\ Stop(Over(op, d), Over(result, d), wait)
                /\ UNCHANGED <<connect, tleft, left, idle>>

\* handle_wait of watchdog d without error: start () looks at deadline_, and
\* stops the session or waits for deadline_.
WatchHastily(d) ==              \* bug: deadline_ may have been put off
  /\ wait[d] = "fired"
  /\ Stop(op, result, Over(wait, d))
  /\ UNCHANGED <<connect, tleft, left, idle>>
WatchLate(d) ==                 \* bug: waits for timeout_ instead of deadline_
  /\ wait[d] = "fired"
  /\ IF left[d] = 0
     THEN Stop(op, result, Over(wait, d)) /\ UNCHANGED <<connect, tleft>>
     ELSE /\ wait' = [wait EXCEPT ![d] = "armed"]
          /\ tleft' = [tleft EXCEPT ![d] = Timeout]
          /\ UNCHANGED sockets
  /\ UNCHANGED <<left, idle>>
Watch(d) ==
  /\ wait[d] = "fired"
  /\ IF left[d] = 0
     THEN Stop(op, result, Over(wait, d)) /\ UNCHANGED <<connect, tleft>>
     ELSE /\ wait' = [wait EXCEPT ![d] = "armed"]
          /\ tleft' = [tleft EXCEPT ![d] = left[d]]
          /\ UNCHANGED sockets
  /\ UNCHANGED <<left, idle>>

\* handle_wait with operation_aborted does nothing.
WatchAborted(d) == /\ wait[d] = "aborted"
                   /\ wait' = Over(wait, d)
                   /\ UNCHANGED <<sockets, tleft, left, idle>>

(***************************************************************************)
(* The two peers, the io_context and time                                  *)
(***************************************************************************)
ConnectCompletes == /\ connect = "pending"
                    /\ connect' \in {"ok", "error"}
                    /\ UNCHANGED <<open, op, result, watchdogs, idle>>

SocketCompletes(d) == /\ result[d] = "pending"
                      /\ \E r \in {"ok", "error"} :
                            result' = [result EXCEPT ![d] = r]
                      /\ UNCHANGED <<connect, open, op, watchdogs, idle>>

TimerExpires(d) == /\ wait[d] = "armed"
                   /\ tleft[d] = 0
                   /\ wait' = [wait EXCEPT ![d] = "fired"]
                   /\ UNCHANGED <<sockets, tleft, left, idle>>

Less1(f) == [d \in Dir |-> IF f[d] = 0 THEN 0 ELSE f[d] - 1]

Tick == /\ tleft' = Less1(tleft)
        /\ left' = Less1(left)
        /\ idle' = [d \in Dir |-> IF idle[d] < Timeout THEN idle[d] + 1
                                  ELSE Timeout]
        /\ UNCHANGED <<sockets, wait>>

-----------------------------------------------------------------------------
Handlers(d) == PumpOn(d) \/ PumpFails(d) \/ Watch(d) \/ WatchAborted(d)

Next == \/ HandleConnect \/ ConnectCompletes \/ Tick
        \/ \E d \in Dir : Handlers(d) \/ SocketCompletes(d) \/ TimerExpires(d)

Spec == Init /\ [][Next]_vars

(***************************************************************************)
(* The thread runs what is queued, and time passes.  Neither the client    *)
(* nor the target owes us anything, not even a connection.                 *)
(***************************************************************************)
Fairness == /\ WF_vars(HandleConnect) /\ WF_vars(Tick)
            /\ \A d \in Dir : /\ WF_vars(PumpOn(d) \/ PumpFails(d))
                              /\ WF_vars(Watch(d) \/ WatchAborted(d))
                              /\ WF_vars(TimerExpires(d))

FairSpec == Spec /\ Fairness
-----------------------------------------------------------------------------
Ticks == 0 .. Timeout

(* The variables have their types, an operation has a result, and nothing  *)
(* is pending on a closed socket.                                          *)
TypeOK == /\ connect \in {"pending", "ok", "error", "done"}
          /\ open \in BOOLEAN
          /\ op \in [Dir -> {"none", "receive", "send"}]
          /\ result \in [Dir -> {"none", "pending", "ok", "error"}]
          /\ \A d \in Dir : op[d] = "none" <=> result[d] = "none"
          /\ ~open => \A d \in Dir : result[d] # "pending"
          /\ wait \in [Dir -> {"none", "armed", "fired", "aborted"}]
          /\ tleft \in [Dir -> Ticks]
          /\ left \in [Dir -> Ticks]
          /\ idle \in [Dir -> Ticks]

Alive == connect # "done" \/ \E d \in Dir : op[d] # "none" \/ wait[d] # "none"

(* As long as the session is open both of its pumps are going and both are *)
(* watched: the handler of the watchdog is queued, or its timer waits, and *)
(* never beyond the deadline, however often that has been put off.         *)
BothWatched ==
  open /\ connect = "done" =>
    \A d \in Dir : /\ op[d] # "none"
                   /\ \/ wait[d] = "fired"
                      \/ wait[d] = "armed" /\ tleft[d] <= left[d]

(* Nothing happens before the connection to the target is there.           *)
Quiet == connect # "done" =>
           open /\ \A d \in Dir : op[d] = "none" /\ wait[d] = "none"

(* No deadline comes before Timeout has passed without an operation of     *)
(* its pump.                                                               *)
Punctual == open /\ connect = "done" =>
              \A d \in Dir : left[d] + idle[d] >= Timeout

(* What every handler preserves.                                           *)
Inv == TypeOK /\ BothWatched /\ Quiet /\ Punctual

(* A watchdog ends the session only if one of the pumps has started        *)
(* nothing for Timeout, whatever was queued when its timer expired.        *)
CutWhenIdle ==
  [][open /\ ~open' /\ connect = "done" /\ op' = op
       => \E d \in Dir : idle[d] = Timeout]_vars

(* Neither peer can hold the session by being silent: every operation      *)
(* ends, even when there is traffic in the other direction.                *)
OperationsEnd == \A d \in Dir : result[d] = "pending" ~> result[d] # "pending"

(* A session that has been stopped is released: its queued handlers may    *)
(* start operations and rearm timers once more, but not for ever.          *)
Released == ~open ~> ~Alive
=============================================================================
