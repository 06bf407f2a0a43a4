----------------------------- MODULE UdpServer -----------------------------
(***************************************************************************)
(* The class udp_server of asio/socket/06/main.cc (and 07): whoever sends  *)
(* it a datagram is sent the time of day.  One receive is outstanding at   *)
(* any time, and any number of replies.  All receives share m_endpoint,    *)
(* which is overwritten with the sender's address when one completes: a    *)
(* reply is queued with the address that was there when handle_receive     *)
(* ran, and may be sent long after the next datagram has come in.          *)
(***************************************************************************)
EXTENDS Naturals, Sequences, FiniteSets, SequencesExt

CONSTANTS Client,      \* the addresses that datagrams come from
          MaxAsked     \* bound: datagrams received from each

VARIABLES receiving,   \* the outstanding receive, or its result
          m_endpoint,
          sends,       \* the addresses of the outstanding replies
          asked,       \* datagrams received from each client
          answered     \* replies to each client that are over

vars == <<receiving, m_endpoint, sends, asked, answered>>

-----------------------------------------------------------------------------
Init == /\ receiving = "pending"
        /\ m_endpoint \in Client
        /\ sends = <<>>
        /\ asked = [c \in Client |-> 0]
        /\ answered = [c \in Client |-> 0]

\* A datagram of c, or an error, completes the receive.
Received(c) == /\ receiving = "pending"
               /\ asked[c] < MaxAsked
               /\ receiving' = "ok"
               /\ m_endpoint' = c
               /\ asked' = [asked EXCEPT ![c] = @ + 1]
               /\ UNCHANGED <<sends, answered>>

ReceiveFails == /\ receiving = "pending"
                /\ receiving' = "error"
                /\ UNCHANGED <<m_endpoint, sends, asked, answered>>

\* handle_receive: a reply, if there was no error; and the next receive.
HandleReceive == /\ receiving # "pending"
                 /\ sends' = IF receiving = "ok" THEN Append(sends, m_endpoint)
                             ELSE sends
                 /\ receiving' = "pending"
                 /\ UNCHANGED <<m_endpoint, asked, answered>>

\* bug: the reply goes to m_endpoint as it is when it is sent
HandleSendLate(i) == /\ i \in DOMAIN sends
                     /\ sends' = RemoveAt(sends, i)
                     /\ answered' = [answered EXCEPT ![m_endpoint] = @ + 1]
                     /\ UNCHANGED <<receiving, m_endpoint, asked>>

\* handle_send: the i-th outstanding reply has been sent, or not.
HandleSend(i) == /\ i \in DOMAIN sends
                 /\ sends' = RemoveAt(sends, i)
                 /\ answered' = [answered EXCEPT ![sends[i]] = @ + 1]
                 /\ UNCHANGED <<receiving, m_endpoint, asked>>

Completes == ReceiveFails \/ \E c \in Client : Received(c)
Handles   == HandleReceive \/ \E i \in DOMAIN sends : HandleSend(i)

Next == Completes \/ Handles
Spec == Init /\ [][Next]_vars
-----------------------------------------------------------------------------
(* The variables have their types.                                         *)
TypeOK == /\ receiving \in {"pending", "ok", "error"}
          /\ m_endpoint \in Client
          /\ sends \in Seq(Client)
          /\ asked \in [Client -> Nat]
          /\ answered \in [Client -> Nat]

To(c) == {i \in DOMAIN sends : sends[i] = c}

(* Every datagram gets one reply, to its own sender: it has been answered, *)
(* its reply is outstanding, or it is the one that was received last and   *)
(* waits in m_endpoint for handle_receive.                                 *)
AnswersExact ==
  \A c \in Client :
     asked[c] = answered[c] + Cardinality(To(c))
                  + IF receiving = "ok" /\ m_endpoint = c THEN 1 ELSE 0
=============================================================================
