----------------------------- MODULE EchoClient -----------------------------
(***************************************************************************)
(* asio/echo/client.cc and asio/echo/co_client.cc: a load generator, with  *)
(* callbacks and with coroutines.  One thread for each port runs           *)
(* an io_context with its share of the sessions; the sessions count what   *)
(* happens to them in atomic counters, which a monitor thread polls; main  *)
(* waits for stop, which is set by the monitor when no session is left, or *)
(* by the user, and then stops the io_contexts and joins the threads.      *)
(* The two programs differ in their sessions only, which count a loss in   *)
(* opposite orders; monitor () and main () are the same in both.           *)
(*                                                                         *)
(* A thread makes the sessions of its port and then runs its io_context,   *)
(* unless an exception keeps it from doing so: a session opens its socket  *)
(* when it is made, and descriptors may run out.                           *)
(*                                                                         *)
(* The handlers of a port run one after the other on its thread, and each  *)
(* update of a counter is a step of its own.  Left out: echoes, which only *)
(* feeds the rate that is printed, all printing, and want of memory once   *)
(* the sessions are made.                                                  *)
(***************************************************************************)
EXTENDS Naturals, FiniteSets

CONSTANTS Ports,         \* how many ports and threads (10 in the program)
          connections    \* the argument of the program

ASSUME ClientAssumption == Ports \in Nat \ {0} /\ connections \in Nat

VARIABLES coroutines, \* the program is co_client.cc
          place,      \* what each session is doing; "connecting" also before
                      \* it is made
          completed, connected, failed, stop,
          thread,     \* the threads of the ports: making the sessions, running
                      \* the io_context, returned from it, or stopped short by
                      \* an exception
          stopped,    \* io_contexts that have been stopped
          monitor,    \* where the monitor is
          main        \* where main is, once it has started the threads

counters == <<completed, connected, failed>>
vars     == <<coroutines, place, counters, stop, thread, stopped, monitor, main>>

\* The number of sessions of a port.
ConnsFloor == connections \div Ports               \* bug: some are left out
Conns == connections \div Ports + IF connections % Ports = 0 THEN 0 ELSE 1

Port     == 1 .. Ports
Session  == Port \X (1 .. Conns)
PortOf(s) == s[1]

Init == /\ coroutines \in BOOLEAN
        /\ place = [s \in Session |-> "connecting"]
        /\ completed = 0 /\ connected = 0 /\ failed = 0
        /\ stop = FALSE
        /\ thread = [p \in Port |-> "making"]
        /\ stopped = {}
        /\ monitor = "connecting"
        /\ main = "waiting"

-----------------------------------------------------------------------------
(***************************************************************************)
(* Threads make their sessions.  What other threads and main do meanwhile  *)
(* does not depend on how many of them there are: none is handled before   *)
(* all have been made.                                                     *)
(***************************************************************************)
MakeSessions(p) ==
  /\ thread[p] = "making"
  /\ thread' = [thread EXCEPT ![p] = "running"]
  /\ UNCHANGED <<coroutines, place, counters, stop, stopped, monitor, main>>

\* session::make throws: the exception is caught and the thread is over,
\* without io.run (), so that none of the sessions it has made is handled.
MakeThrows(p) ==
  /\ thread[p] = "making"
  /\ Conns > 0
  /\ thread' = [thread EXCEPT ![p] = "failed"]
  /\ UNCHANGED <<coroutines, place, counters, stop, stopped, monitor, main>>

(***************************************************************************)
(* Sessions.  A thread is inside a handler while a session of its port is  *)
(* at one of the counting places.                                          *)
(***************************************************************************)
Counting == {"completed", "refused", "broken", "dropping", "failing"}
Busy(p)  == \E s \in Session : PortOf(s) = p /\ place[s] \in Counting

\* A handler of session s, which is at place from, begins; it leads to to.
Handler(s, from, to) == /\ thread[PortOf(s)] = "running"
                        /\ PortOf(s) \notin stopped
                        /\ ~Busy(PortOf(s))
                        /\ place[s] = from
                        /\ place' = [place EXCEPT ![s] = to]
                        /\ UNCHANGED <<coroutines, stop, thread, stopped,
                                       monitor, main>>

\* The handler of session s goes on.
Step(s, from, to) == /\ place[s] = from
                     /\ place' = [place EXCEPT ![s] = to]
                     /\ UNCHANGED <<coroutines, stop, thread, stopped, monitor,
                                    main>>

\* handle_connect, or the coroutine resumes from async_connect.
ConnectDone(s) == /\ \E to \in {"completed", "refused"} :
                        Handler(s, "connecting", to)
                  /\ completed' = completed + 1
                  /\ UNCHANGED <<connected, failed>>

CountConnected(s) == /\ Step(s, "completed", "writing")
                     /\ connected' = connected + 1
                     /\ UNCHANGED <<completed, failed>>

CountRefused(s) == /\ Step(s, "refused", "gone")
                   /\ failed' = failed + 1
                   /\ UNCHANGED <<completed, connected>>

\* handle_write, handle_read and handle_wait
WriteDone(s) == /\ ~coroutines
                /\ \E to \in {"reading", "broken"} : Handler(s, "writing", to)
                /\ UNCHANGED counters
ReadDone(s)  == /\ ~coroutines
                /\ \E to \in {"waiting", "broken"} : Handler(s, "reading", to)
                /\ UNCHANGED counters
WaitDone(s)  == /\ ~coroutines
                /\ Handler(s, "waiting", "writing")
                /\ UNCHANGED counters

\* The coroutine resumes from sending, receiving or waiting.
CoDone(s) == /\ coroutines
             /\ \/ \E to \in {"reading", "broken"} : Handler(s, "writing", to)
                \/ \E to \in {"waiting", "broken"} : Handler(s, "reading", to)
                \/ Handler(s, "waiting", "writing")
             /\ UNCHANGED counters

\* It has lost its connection: connected is counted down first.
CoCountDropped(s) == /\ coroutines
                     /\ Step(s, "broken", "failing")
                     /\ connected' = connected - 1
                     /\ UNCHANGED <<completed, failed>>
CoCountTwice(s) == /\ Step(s, "failing", "broken")     \* bug: no break
                   /\ failed' = failed + 1
                   /\ UNCHANGED <<completed, connected>>
CoCountFailed(s) == /\ Step(s, "failing", "gone")
                    /\ failed' = failed + 1
                    /\ UNCHANGED <<completed, connected>>

\* on_error
CountFailed(s) == /\ ~coroutines
                  /\ Step(s, "broken", "dropping")
                  /\ failed' = failed + 1
                  /\ UNCHANGED <<completed, connected>>

CountDropped(s) == /\ Step(s, "dropping", "gone")
                   /\ connected' = connected - 1
                   /\ UNCHANGED <<completed, failed>>

\* io.run () returns: no work is left, or it has been stopped.
ThreadEnds(p) ==
  /\ thread[p] = "running"
  /\ ~Busy(p)
  /\ p \in stopped \/ \A s \in Session : PortOf(s) = p => place[s] = "gone"
  /\ thread' = [thread EXCEPT ![p] = "ended"]
  /\ UNCHANGED <<coroutines, place, counters, stop, stopped, monitor, main>>

(***************************************************************************)
(* The monitor                                                             *)
(***************************************************************************)
MonitorGoes(from, to) == /\ monitor = from
                         /\ monitor' = to
                         /\ UNCHANGED <<coroutines, place, counters, thread,
                                        stopped, main>>

\* The first loop ends.
MonitorConnected == /\ stop \/ completed >= connections
                    /\ MonitorGoes("connecting", "connected")
                    /\ UNCHANGED stop

\* if (stop) return;
MonitorReturns == /\ MonitorGoes("connected", IF stop THEN "ended" ELSE "polling")
                  /\ UNCHANGED stop

\* The second loop finds that it has been stopped, or that nothing is
\* connected; otherwise it sleeps and looks again.
MonitorStopped == stop /\ MonitorGoes("polling", "ended") /\ UNCHANGED stop
MonitorFindsNone == /\ connected = 0
                    /\ MonitorGoes("polling", "stops")
                    /\ UNCHANGED stop
MonitorStops == MonitorGoes("stops", "ended") /\ stop' = TRUE

(***************************************************************************)
(* The user and main                                                       *)
(***************************************************************************)
Interrupt == /\ ~stop
             /\ stop' = TRUE
             /\ UNCHANGED <<coroutines, place, counters, thread, stopped,
                            monitor, main>>

\* main sees stop, and calls stop () of one io_context after the other.
StopContext(p) == /\ main = "waiting"
                  /\ stop
                  /\ \A q \in 1 .. p - 1 : q \in stopped
                  /\ p \notin stopped
                  /\ stopped' = stopped \cup {p}
                  /\ UNCHANGED <<coroutines, place, counters, stop, thread,
                                 monitor, main>>

\* All threads have been joined.
MainEnds == /\ main = "waiting"
            /\ stop /\ stopped = Port
            /\ \A p \in Port : thread[p] \in {"ended", "failed"}
            /\ monitor = "ended"
            /\ main' = "ended"
            /\ UNCHANGED <<coroutines, place, counters, stop, thread, stopped,
                           monitor>>

-----------------------------------------------------------------------------
\* The sessions of client.cc, and those of co_client.cc.
Handles(s)   == ConnectDone(s) \/ WriteDone(s) \/ ReadDone(s) \/ WaitDone(s)
CoHandles(s) == ConnectDone(s) \/ CoDone(s)
Counts(s)    == \/ CountConnected(s) \/ CountRefused(s)
                \/ CountFailed(s) \/ CountDropped(s)
                \/ CoCountDropped(s) \/ CoCountFailed(s)
\* What a thread does besides.
Thread(p) == MakeSessions(p) \/ MakeThrows(p) \/ ThreadEnds(p)
\* monitor () and the end of main ()
Monitor    == \/ MonitorConnected \/ MonitorReturns
              \/ MonitorStopped \/ MonitorFindsNone \/ MonitorStops
Main       == (\E p \in Port : StopContext(p)) \/ MainEnds

Next == \/ \E s \in Session : Handles(s) \/ CoHandles(s) \/ Counts(s)
        \/ \E p \in Port : Thread(p)
        \/ Monitor \/ Interrupt \/ Main

Spec == Init /\ [][Next]_vars

(***************************************************************************)
(* Every thread goes on.  No connection has to be made, and none to fail;  *)
(* nobody has to interrupt the program.                                    *)
(***************************************************************************)
Fairness == /\ \A s \in Session : WF_vars(Counts(s))
            /\ \A p \in Port : WF_vars(Thread(p))
            /\ WF_vars(Monitor) /\ WF_vars(Main)

FairSpec == Spec /\ Fairness
-----------------------------------------------------------------------------
At(places) == Cardinality({s \in Session : place[s] \in places})

Place == {"connecting", "completed", "refused", "writing", "reading", "waiting",
          "broken", "dropping", "failing", "gone"}

(* The variables have their types.                                         *)
TypeOK == /\ coroutines \in BOOLEAN
          /\ place \in [Session -> Place]
          /\ completed \in Nat /\ connected \in Nat /\ failed \in Nat
          /\ stop \in BOOLEAN
          /\ thread \in [Port -> {"making", "running", "ended", "failed"}]
          /\ stopped \subseteq Port
          /\ monitor \in {"connecting", "connected", "polling", "stops", "ended"}
          /\ main \in {"waiting", "ended"}

(* The counters, updated one by one on many threads, are exact: completed  *)
(* counts the attempts that are over, connected the sessions that have     *)
(* been counted and not yet counted down, failed those lost for any        *)
(* reason; so that connected reaches 0 when the last session is lost, in   *)
(* whichever order a session counts its loss.                              *)
CountersExact ==
  /\ completed = At({"completed", "refused", "writing", "reading", "waiting",
                     "broken", "dropping", "failing", "gone"})
  /\ connected = At({"writing", "reading", "waiting", "broken", "dropping"})
  /\ failed = At({"dropping", "gone"})

\* Every connection has been lost, or will never be handled.
AllLost == \A p \in Port :
              \/ thread[p] = "failed"
              \/ \A s \in Session : PortOf(s) = p => place[s] = "gone"

(* The program ends when it has been stopped by anybody, and also when all *)
(* its sessions have been lost - those of threads that failed included, as *)
(* long as enough of the others were there to reach the number that the    *)
(* monitor waits for in its first loop (client.cc:205).                    *)
Ends == /\ stop ~> main = "ended"
        /\ AllLost /\ (\/ completed >= connections
                       \/ \A p \in Port : thread[p] # "failed")
             ~> main = "ended"

(* "Target: ... | Total Connections: <connections>", says the monitor at   *)
(* its start (client.cc:200): no more than that many are made.             *)
NoMoreThanTotal == connected <= connections
=============================================================================
