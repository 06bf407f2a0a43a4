------------------------------ MODULE Servers ------------------------------
(***************************************************************************)
(* The accept loops of the TCP servers and the threads that run them:      *)
(*   "echo"        class server and main () of asio/echo/server.cc         *)
(*   "coEcho"      those of asio/echo/co_server.cc                         *)
(*   "proxy"       those of asio/proxy/server.cc                           *)
(*   "daytime"     asio/socket/03/main.cc, and 07 with a UdpServer beside  *)
(*   "coDaytime"   asio/socket/03/co.cc                                    *)
(*                                                                         *)
(* The programs differ in what a failed accept does, in who keeps a        *)
(* connection alive, and in their threads.  What goes on in a connection   *)
(* of the first three is the business of EchoSession, CoSession and        *)
(* ProxySession; here it has work outstanding, until it has not.           *)
(*                                                                         *)
(* The life of a connection is kept by its holders: the coroutine or       *)
(* handler of the accept loop, and the handlers of its own operations.     *)
(***************************************************************************)
EXTENDS Naturals, FiniteSets

CONSTANTS Port, Worker, Conn,   \* Conn: memory for connections, reused
          Main, None,
          Client, MaxAsked,     \* of the UdpServer
          MaxClients,           \* bound: clients that connect
          MaxErrors             \* bound: accepts that fail

\* No connection is at two ports: there is memory for one at each.
Apart(f) == \A p, q \in Port : f[p] = f[q] /\ f[p] # None => p = q

ASSUME ServersAssumption == /\ IsFiniteSet(Port) /\ Port # {}
                            /\ IsFiniteSet(Worker) /\ Main \notin Worker
                            /\ None \notin Conn \cup Port
                            /\ \E f \in [Port -> Conn] : Apart(f)
                            /\ Client # {} /\ MaxAsked \in Nat
                            /\ MaxClients \in Nat /\ MaxErrors \in Nat

VARIABLES program,
          process,     \* "up", "ended", or "terminated" by std::terminate
          signal,      \* "none", "queued" or "handled"
          stopped,     \* the io_context
          pc,          \* threads: "run", "accepted" (in the accept handler
                       \* or coroutine, before it accepts again), "left"
          at,          \* the port whose handler a thread is in
          accept,      \* "pending", "ok", "error", "handling" or "over"
          next,        \* the connection that a port is accepting into
          waiting,     \* clients that wait for a port
          arrived,     \* clients that have come, for the bound
          errors,      \* accepts that have failed, for the bound
          holders,     \* who keeps each connection alive
          work,        \* "none", "queued" (a coroutine) or "outstanding"
          receiving, m_endpoint, sends, asked, answered    \* the UdpServer

threads == <<pc, at>>
loops   == <<accept, next, waiting>>
bounds  == <<arrived, errors>>
conns   == <<holders, work>>
udp     == <<receiving, m_endpoint, sends, asked, answered>>
vars    == <<program, process, signal, stopped, threads, loops, bounds, conns,
             udp>>

Udp == INSTANCE UdpServer

Thread  == Worker \cup {Main}
Pooled  == program \in {"echo", "coEcho"}
\* The connection is made before it is accepted into.
MadeFirst == program \in {"daytime", "coDaytime"}
\* New memory for a connection; whichever is free.
Unused  == {c \in Conn : holders[c] = {} /\ work[c] = "none"}
Fresh   == CHOOSE c \in Unused : TRUE

-----------------------------------------------------------------------------
Init == /\ program \in {"echo", "coEcho", "proxy", "daytime", "coDaytime"}
        /\ process = "up"
        /\ signal = "none"
        /\ stopped = FALSE
        /\ pc = [t \in Thread |-> IF Pooled \/ t = Main THEN "run" ELSE "left"]
        /\ at = [t \in Thread |-> None]
        /\ accept = [p \in Port |-> "pending"]
        /\ waiting = [p \in Port |-> 0]
        /\ arrived = 0
        /\ errors = 0
        /\ work = [c \in Conn |-> "none"]
        /\ IF MadeFirst
           THEN /\ next = CHOOSE f \in [Port -> Conn] : Apart(f)
                /\ holders = [c \in Conn |-> IF \E p \in Port : next[p] = c
                                             THEN {"loop"} ELSE {}]
           ELSE /\ next = [p \in Port |-> None]
                /\ holders = [c \in Conn |-> {}]
        /\ Udp!Init

(***************************************************************************)
(* The outside: clients, the operating system, the user                    *)
(***************************************************************************)
Arrives(p) == /\ arrived < MaxClients
              /\ arrived' = arrived + 1
              /\ waiting' = [waiting EXCEPT ![p] = @ + 1]
              /\ UNCHANGED <<program, process, signal, stopped, threads, accept,
                             next, errors, conns, udp>>

Accepted(p) == /\ accept[p] = "pending"
               /\ waiting[p] > 0
               /\ accept' = [accept EXCEPT ![p] = "ok"]
               /\ waiting' = [waiting EXCEPT ![p] = @ - 1]
               /\ UNCHANGED <<program, process, signal, stopped, threads, next,
                              bounds, conns, udp>>

AcceptFails(p) == /\ accept[p] = "pending"
                  /\ errors < MaxErrors
                  /\ errors' = errors + 1
                  /\ accept' = [accept EXCEPT ![p] = "error"]
                  /\ UNCHANGED <<program, process, signal, stopped, threads,
                                 next, waiting, arrived, conns, udp>>

Interrupt == /\ Pooled
             /\ signal = "none"
             /\ signal' = "queued"
             /\ UNCHANGED <<program, process, stopped, threads, loops, bounds,
                            conns, udp>>

(***************************************************************************)
(* The accept loop.  A thread in run () takes a handler that is ready.     *)
(***************************************************************************)
Takes(t) == process = "up" /\ pc[t] = "run" /\ ~stopped

\* The connection starts its first operation, whose handler holds it; the
\* coroutine of coDaytime only refers to it, and may not run at once.
StartUnheld(c) == /\ holders' = [holders EXCEPT ![c] = {"loop"}]
                  /\ work' = [work EXCEPT ![c] = "outstanding"]
Start(c) ==
  IF program = "coDaytime"
  THEN /\ \E w \in {"queued", "outstanding"} : work' = [work EXCEPT ![c] = w]
       /\ holders' = [holders EXCEPT ![c] = {"loop"}]
  ELSE /\ work' = [work EXCEPT ![c] = "outstanding"]
       /\ holders' = [holders EXCEPT ![c] = {"loop", "handler"}]

\* A client has been accepted: its connection is made, unless the accept has
\* gone into one, and started.
HandleAccept(t, p) ==
  /\ Takes(t)
  /\ accept[p] = "ok"
  /\ accept' = [accept EXCEPT ![p] = "handling"]
  /\ pc' = [pc EXCEPT ![t] = "accepted"]
  /\ at' = [at EXCEPT ![t] = p]
  /\ MadeFirst \/ Unused # {}
  /\ LET c == IF MadeFirst THEN next[p] ELSE Fresh
     IN Start(c) /\ next' = [next EXCEPT ![p] = c]
  /\ UNCHANGED <<program, process, signal, stopped, waiting, bounds, udp>>

\* bug: the loop is not started again
NotAgain(p) == /\ accept' = [accept EXCEPT ![p] = "over"]
               /\ UNCHANGED <<next, holders>>

\* The next accept of port p; the loop lets go of the connection it had.
Again(p) ==
  LET let == [c \in Conn |-> IF c = next[p] THEN holders[c] \ {"loop"}
                             ELSE holders[c]]
  IN /\ accept' = [accept EXCEPT ![p] = "pending"]
     /\ IF MadeFirst
        THEN /\ Unused # {}
             /\ next' = [next EXCEPT ![p] = Fresh]
             /\ holders' = [let EXCEPT ![Fresh] = {"loop"}]
        ELSE /\ next' = [next EXCEPT ![p] = None]
             /\ holders' = let

AcceptAgain(t) == /\ process = "up"
                  /\ pc[t] = "accepted"
                  /\ Again(at[t])
                  /\ pc' = [pc EXCEPT ![t] = "run"]
                  /\ at' = [at EXCEPT ![t] = None]
                  /\ UNCHANGED <<program, process, signal, stopped, waiting,
                                 bounds, work, udp>>

\* The loop ends; the connection that was to be accepted into goes with it.
Over(p) == /\ accept' = [accept EXCEPT ![p] = "over"]
           /\ next' = [next EXCEPT ![p] = None]
           /\ holders' = [c \in Conn |-> IF c = next[p] THEN {} ELSE holders[c]]

\* echo and proxy: if (error) return;
ReturnsOnError(t, p) == /\ Takes(t)
                        /\ program \in {"echo", "proxy"}
                        /\ accept[p] = "error"
                        /\ Over(p)
                        /\ UNCHANGED <<program, process, signal, stopped,
                                       threads, waiting, bounds, work, udp>>

\* daytime: start_accept () whatever has happened
RetriesOnError(t, p) == /\ Takes(t)
                        /\ program = "daytime"
                        /\ accept[p] = "error"
                        /\ Again(p)
                        /\ UNCHANGED <<program, process, signal, stopped,
                                       threads, waiting, bounds, work, udp>>

\* coDaytime: the exception ends the coroutine, and detached ignores it.
DetachedOnError(t, p) == /\ Takes(t)
                         /\ program = "coDaytime"
                         /\ accept[p] = "error"
                         /\ Over(p)
                         /\ UNCHANGED <<program, process, signal, stopped,
                                        threads, waiting, bounds, work, udp>>

\* coEcho: handle_spawn throws it again, out of run () of this very thread.
\* A worker prints it and returns; main () leaves its scope, in which the
\* workers have not been joined.
ThrowsOnError(t, p) ==
  /\ Takes(t)
  /\ program = "coEcho"
  /\ accept[p] = "error"
  /\ Over(p)
  /\ pc' = [pc EXCEPT ![t] = "left"]
  /\ process' = IF t = Main /\ Worker # {} THEN "terminated" ELSE "up"
  /\ UNCHANGED <<program, signal, stopped, at, waiting, bounds, work, udp>>

(***************************************************************************)
(* Connections                                                             *)
(***************************************************************************)

\* The coroutine of a coDaytime connection starts to write.
CoroutineRuns(t, c) == /\ Takes(t)
                       /\ work[c] = "queued"
                       /\ work' = [work EXCEPT ![c] = "outstanding"]
                       /\ UNCHANGED <<program, process, signal, stopped, threads,
                                      loops, bounds, holders, udp>>

\* The last handler of the connection returns.
WorkEnds(t, c) == /\ Takes(t)
                  /\ work[c] = "outstanding"
                  /\ work' = [work EXCEPT ![c] = "none"]
                  /\ holders' = [holders EXCEPT ![c] = @ \ {"handler"}]
                  /\ UNCHANGED <<program, process, signal, stopped, threads,
                                 loops, bounds, udp>>

\* 07 runs a udp_server on the same io_context and thread.
Datagrams == /\ program = "daytime"
             /\ Udp!Completes \/ (Takes(Main) /\ Udp!Handles)
             /\ UNCHANGED <<program, process, signal, stopped, threads, loops,
                            bounds, conns>>

(***************************************************************************)
(* The end                                                                 *)
(***************************************************************************)

\* The handler, or coroutine, of the signal stops the io_context.
HandleSignalOnly(t) ==                       \* bug: io_context.stop () missing
  /\ Takes(t)
  /\ signal = "queued"
  /\ signal' = "handled"
  /\ UNCHANGED <<program, process, stopped, threads, loops, bounds, conns, udp>>
HandleSignal(t) == /\ Takes(t)
                   /\ signal = "queued"
                   /\ signal' = "handled"
                   /\ stopped' = TRUE
                   /\ UNCHANGED <<program, process, threads, loops, bounds,
                                  conns, udp>>

NoWork == /\ Pooled => signal = "handled"
          /\ program # "daytime"
          /\ \A p \in Port : accept[p] = "over"
          /\ \A c \in Conn : work[c] = "none"

\* run () returns: stopped, or out of work.
Leaves(t) == /\ process = "up"
             /\ pc[t] = "run"
             /\ stopped \/ NoWork
             /\ stopped' = TRUE
             /\ pc' = [pc EXCEPT ![t] = "left"]
             /\ UNCHANGED <<program, process, signal, at, loops, bounds, conns,
                            udp>>

\* main () has joined the workers.
MainEnds == /\ process = "up"
            /\ \A t \in Thread : pc[t] = "left"
            /\ process' = "ended"
            /\ UNCHANGED <<program, signal, stopped, threads, loops, bounds,
                           conns, udp>>

-----------------------------------------------------------------------------
Outside(p) == Arrives(p) \/ Accepted(p) \/ AcceptFails(p)

HandleError(t, p) == \/ ReturnsOnError(t, p) \/ RetriesOnError(t, p)
                     \/ DetachedOnError(t, p) \/ ThrowsOnError(t, p)

Ending == MainEnds \/ \E t \in Thread : HandleSignal(t) \/ Leaves(t)

Next == \/ process = "up" /\ (Interrupt \/ \E p \in Port : Outside(p))
        \/ \E t \in Thread : \/ \E p \in Port : HandleAccept(t, p) \/ HandleError(t, p)
                             \/ \E c \in Conn : CoroutineRuns(t, c) \/ WorkEnds(t, c)
                             \/ AcceptAgain(t)
        \/ Datagrams
        \/ Ending

Spec == Init /\ [][Next]_vars

(***************************************************************************)
(* A client that waits is accepted if an accept is outstanding; what is    *)
(* ready is run by some thread; a thread finishes its handler.  No client  *)
(* has to come, no connection has to end and nobody has to interrupt.      *)
(***************************************************************************)
Fairness ==
  /\ \A p \in Port : /\ WF_vars(process = "up" /\ Accepted(p))
                     /\ WF_vars(\E t \in Thread : HandleAccept(t, p))
                     /\ WF_vars(\E t \in Thread : HandleError(t, p))
  /\ WF_vars(\E t \in Thread : AcceptAgain(t))
  /\ WF_vars(\E t \in Thread : HandleSignal(t))
  /\ \A t \in Thread : WF_vars(Leaves(t))
  /\ WF_vars(MainEnds)

FairSpec == Spec /\ Fairness
-----------------------------------------------------------------------------
(* The variables have their types.                                         *)
TypeOK ==
  /\ program \in {"echo", "coEcho", "proxy", "daytime", "coDaytime"}
  /\ process \in {"up", "ended", "terminated"}
  /\ signal \in {"none", "queued", "handled"}
  /\ stopped \in BOOLEAN
  /\ pc \in [Thread -> {"run", "accepted", "left"}]
  /\ at \in [Thread -> Port \cup {None}]
  /\ accept \in [Port -> {"pending", "ok", "error", "handling", "over"}]
  /\ next \in [Port -> Conn \cup {None}]
  /\ waiting \in [Port -> Nat]
  /\ arrived \in Nat /\ errors \in Nat
  /\ holders \in [Conn -> SUBSET {"loop", "handler"}]
  /\ work \in [Conn -> {"none", "queued", "outstanding"}]
  /\ Udp!TypeOK

AnswersExact == Udp!AnswersExact

(* No operation or coroutine goes on in a connection that has been         *)
(* destroyed, in any program whose handlers hold it.  (The coroutine of    *)
(* coDaytime does not: there the run reaches such a state.)                *)
ConnectionsSafe ==
  program # "coDaytime" =>
     \A c \in Conn : work[c] # "none" => holders[c] # {}

(* A client that has connected is served, whatever happens at other ports  *)
(* and to other threads, unless the server is being stopped, an accept of  *)
(* its own port has failed, or one of any port has failed in the main      *)
(* thread of the coroutine server; the daytime server always serves it.    *)
Served ==
  \A p \in Port :
     waiting[p] > 0 ~> \/ waiting[p] = 0
                       \/ stopped
                       \/ program # "daytime" /\ accept[p] = "over" /\ errors > 0
                       \/ program = "coEcho" /\ process = "terminated"

(* A signal ends the servers that wait for one.                            *)
Ends == signal = "queued" ~> process # "up"

(* The handler of a port runs in one thread at a time.                     *)
OneHandler ==
  /\ \A t \in Thread : pc[t] = "accepted" =>
        at[t] \in Port /\ accept[at[t]] = "handling"
  /\ \A t, u \in Thread :
        pc[t] = "accepted" /\ pc[u] = "accepted" /\ at[t] = at[u] => t = u

(* A port has a connection when it accepts into one, or is handling it; it *)
(* keeps that connection alive, and shares it with no other port.          *)
OwnConnection ==
  /\ \A p \in Port : next[p] = None <=>
        accept[p] = "over" \/ (~MadeFirst /\ accept[p] # "handling")
  /\ \A p \in Port : next[p] # None => "loop" \in holders[next[p]]
  /\ Apart(next)

(* It is the handlers that keep a connection at work alive.                *)
Kept == program # "coDaytime" =>
           \A c \in Conn : work[c] # "none" => "handler" \in holders[c]

(* What every step preserves.                                              *)
Inv == TypeOK /\ AnswersExact /\ OneHandler /\ OwnConnection /\ Kept
=============================================================================
