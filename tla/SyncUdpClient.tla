--------------------------- MODULE SyncUdpClient ---------------------------
(***************************************************************************)
(* 003_client/002_sync_udp_client.cpp: one socket, and a request to each   *)
(* of two servers, one after the other.  A request is a datagram, and so   *)
(* is its response: the network may lose, repeat and delay them.  The      *)
(* socket is never connected, so it takes a datagram of any sender: of     *)
(* either server, or of a stranger that sends one to its port.             *)
(***************************************************************************)
EXTENDS Naturals

CONSTANT MaxExtra \* how many datagrams nobody has asked for can be on the way in all

ASSUME SyncUdpClientAssumption == MaxExtra \in Nat

\* Request n goes to server n.
Requests == 1..2

\* Somebody else, who sends to the port of the client's socket.
Stranger == 3
Senders == Requests \cup {Stranger}

VARIABLES
  pc,       \* where main() is
  n,        \* the request it is at
  ep,       \* the endpoint its last receive_from has stored
  shut,     \* has the socket been shut down
  returned, \* whose datagram EmulateLongComputationOp returned, by request
  net,      \* copies of each datagram on the way
  extra     \* how often the network has repeated one, or a stranger sent one

main == <<pc, n, ep, shut, returned>>
vars == <<main, net, extra>>

Datagrams == [of : {"request", "response"}, peer : Senders]
Request(s) == [of |-> "request", peer |-> s]
Response(s) == [of |-> "response", peer |-> s]

TypeOK ==
  /\ pc \in {"send", "receive", "shutdown", "done", "failed"}
  /\ n \in Requests
  /\ ep \in Senders \cup {0}
  /\ shut \in BOOLEAN
  /\ returned \in [Requests -> Senders \cup {0}]
  /\ net \in [Datagrams -> Nat]
  /\ extra \in 0..MaxExtra

Init ==
  /\ pc = "send"
  /\ n = 1
  /\ ep = 0
  /\ shut = FALSE
  /\ returned = [r \in Requests |-> 0]
  /\ net = [d \in Datagrams |-> 0]
  /\ extra = 0
-----------------------------------------------------------------------------
(***************************************************************************)
(* The client.                                                             *)
(***************************************************************************)
SendRequest ==
  /\ pc = "send"
  /\ ~shut
  /\ pc' = "receive"
  /\ net' = [net EXCEPT ![Request(n)] = @ + 1]
  /\ UNCHANGED <<n, ep, shut, returned, extra>>

\* Mutant: the error of send_to() goes unnoticed.
SendFailsUnnoticed ==
  /\ pc = "send"
  /\ shut
  /\ pc' = "receive"
  /\ UNCHANGED <<n, ep, shut, returned, net, extra>>

\* send_to() throws on a socket that was shut down.
SendThrows ==
  /\ pc = "send"
  /\ shut
  /\ pc' = "failed"
  /\ UNCHANGED <<n, ep, shut, returned, net, extra>>

\* Whoever has sent the datagram: its endpoint overwrites ep, and nothing
\* compares the two.
ReceiveResponse ==
  /\ pc = "receive"
  /\ \E s \in Senders :
       /\ net[Response(s)] > 0
       /\ net' = [net EXCEPT ![Response(s)] = @ - 1]
       /\ ep' = s
  /\ pc' = "shutdown"
  /\ UNCHANGED <<n, shut, returned, extra>>

\* EmulateLongComputationOp returns, and main() goes on.
Returns ==
  /\ returned' = [returned EXCEPT ![n] = ep]
  /\ IF n = 2 THEN pc' = "done" /\ UNCHANGED n ELSE pc' = "send" /\ n' = 2

\* Mutant: the socket is left open for the second request.
LeaveOpen ==
  /\ pc = "shutdown"
  /\ Returns
  /\ UNCHANGED <<ep, shut, net, extra>>

\* The response is in, and the socket is shut down, which some systems refuse
\* for a socket that has no peer.
ShutdownSocket ==
  /\ pc = "shutdown"
  /\ shut' = TRUE
  /\ Returns
  /\ UNCHANGED <<ep, net, extra>>

ShutdownThrows ==
  /\ pc = "shutdown"
  /\ pc' = "failed"
  /\ UNCHANGED <<n, ep, shut, returned, net, extra>>
-----------------------------------------------------------------------------
(***************************************************************************)
(* The servers, the strangers, and the network.                            *)
(***************************************************************************)
ServerAnswers(s) ==
  /\ net[Request(s)] > 0
  /\ net' = [net EXCEPT ![Request(s)] = @ - 1, ![Response(s)] = @ + 1]
  /\ UNCHANGED <<main, extra>>

\* The first send_to has given the socket its port.
StrangerSends ==
  /\ ~(pc = "send" /\ n = 1)
  /\ extra < MaxExtra
  /\ extra' = extra + 1
  /\ net' = [net EXCEPT ![Response(Stranger)] = @ + 1]
  /\ UNCHANGED main

Repeat(d) ==
  /\ net[d] > 0
  /\ extra < MaxExtra
  /\ extra' = extra + 1
  /\ net' = [net EXCEPT ![d] = @ + 1]
  /\ UNCHANGED main

Lose(d) ==
  /\ net[d] > 0
  /\ net' = [net EXCEPT ![d] = @ - 1]
  /\ UNCHANGED <<main, extra>>
-----------------------------------------------------------------------------
ClientStep ==
  SendRequest \/ SendThrows \/ ReceiveResponse \/ ShutdownSocket \/ ShutdownThrows

Next ==
  \/ ClientStep
  \/ \E s \in Requests : ServerAnswers(s)
  \/ StrangerSends
  \/ \E d \in Datagrams : Repeat(d) \/ Lose(d)

Spec == Init /\ [][Next]_vars

\* The servers answer, and the client goes on when it can.
FairSpec ==
  /\ Spec
  /\ WF_vars(ClientStep)
  /\ \A s \in Requests : WF_vars(ServerAnswers(s))
-----------------------------------------------------------------------------
\* Whatever the network and strangers deliver to it, the socket that was shut
\* down (line 36) sends no second request: main() never gets a second response,
\* and never returns 0.
SecondServerIsNeverAsked ==
  net[Request(2)] = 0 /\ returned[2] = 0 /\ pc # "done"

\* receive_from has no timeout, and nothing is sent again.
NothingOnTheWay == \A d \in Datagrams : net[d] = 0
WaitsForALostDatagram == pc = "receive" /\ ~shut /\ NothingOnTheWay

\* Only on an open socket to which nothing is on its way any more, for the
\* request it has sent or the response was lost, does the client wait for ever.
ClientEnds == <>(pc \in {"done", "failed"} \/ WaitsForALostDatagram)

\* If nothing it needs is lost, main() prints the response of both servers.
BothAreAnswered ==
  <>(WaitsForALostDatagram \/ \A r \in Requests : returned[r] # 0)
=============================================================================
