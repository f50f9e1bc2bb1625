------------------------ MODULE SyncUdpClientProofs ------------------------
(***************************************************************************)
(* Proofs about SyncUdpClient, for any number of datagrams repeated or sent*)
(* by strangers.                                                           *)
(***************************************************************************)
EXTENDS SyncUdpClient, TLAPS

(***************************************************************************)
(* The inductive invariant: the second request is never on its way, for    *)
(* the socket is shut down before main() comes to it, and whatever arrives *)
(* is taken for the first response only.                                   *)
(***************************************************************************)
NetInv == net[Request(2)] = 0

ShutInv ==
  /\ n = 2 => pc \in {"send", "failed"}
  /\ pc \in {"receive", "shutdown"} => ~shut
  /\ pc = "send" => (shut <=> n = 2)
  /\ pc = "done" => FALSE

ReturnedInv == returned[2] = 0

IInv == TypeOK /\ NetInv /\ ShutInv /\ ReturnedInv

\* A request is no response, and the two requests differ.
LEMMA Distinct ==
  /\ \A s \in Senders : Request(s) \in Datagrams /\ Response(s) \in Datagrams
  /\ Request(1) # Request(2)
  /\ \A r, s \in Senders : Request(r) # Response(s)
<1>1. \A s \in Senders : Request(s) \in Datagrams /\ Response(s) \in Datagrams
  BY DEF Datagrams, Request, Response
<1>2. Request(1) # Request(2)
  <2>1. Request(1).peer = 1 /\ Request(2).peer = 2
    BY DEF Request
  <2> QED BY <2>1
<1>3. \A r, s \in Senders : Request(r) # Response(s)
  <2> TAKE r, s \in Senders
  <2>1. Request(r).of = "request" /\ Response(s).of = "response"
    BY DEF Request, Response
  <2> QED BY <2>1
<1> QED BY <1>1, <1>2, <1>3

LEMMA InitInv == Init => IInv
<1> SUFFICES ASSUME Init PROVE IInv
  OBVIOUS
<1>1. net \in [Datagrams -> Nat] /\ \A d \in Datagrams : net[d] = 0
  BY DEF Init
<1>2. TypeOK
  <2>1. returned \in [Requests -> Senders \cup {0}]
    BY DEF Init
  <2>2. pc = "send" /\ shut \in BOOLEAN /\ ep \in Senders \cup {0}
    BY DEF Init
  <2>4. n \in Requests
    BY DEF Init, Requests
  <2>3. extra \in 0..MaxExtra
    BY SyncUdpClientAssumption DEF Init
  <2> QED BY <1>1, <2>1, <2>2, <2>3, <2>4 DEF TypeOK
<1>3. NetInv /\ ShutInv /\ ReturnedInv
  BY <1>1, Distinct DEF Init, NetInv, ShutInv, ReturnedInv, Requests, Senders
<1> QED BY <1>2, <1>3 DEF IInv

LEMMA Inductive == IInv /\ [Next]_vars => IInv'
<1> SUFFICES ASSUME IInv, [Next]_vars PROVE IInv'
  OBVIOUS
<1> USE Distinct, SyncUdpClientAssumption DEF IInv, Requests, Senders, Stranger
<1>1. CASE SendRequest
  <2>0. n = 1
    BY <1>1 DEF SendRequest, TypeOK, ShutInv
  <2>1. net' = [net EXCEPT ![Request(1)] = @ + 1]
    BY <1>1, <2>0 DEF SendRequest
  <2>2. net' \in [Datagrams -> Nat] /\ NetInv'
    BY <2>1 DEF TypeOK, NetInv
  <2> QED BY <1>1, <2>0, <2>2 DEF SendRequest, TypeOK, ShutInv, ReturnedInv
<1>2. CASE SendThrows
  BY <1>2 DEF SendThrows, TypeOK, NetInv, ShutInv, ReturnedInv
<1>3. CASE ReceiveResponse
  <2>1. PICK s \in Senders :
          /\ net[Response(s)] > 0 /\ net' = [net EXCEPT ![Response(s)] = @ - 1] /\ ep' = s
    BY <1>3 DEF ReceiveResponse
  <2>2. net' \in [Datagrams -> Nat] /\ NetInv'
    BY <2>1 DEF TypeOK, NetInv
  <2> QED BY <1>3, <2>1, <2>2 DEF ReceiveResponse, TypeOK, ShutInv, ReturnedInv
<1>4. CASE ShutdownSocket
  <2>1. n = 1 /\ ep \in Senders \cup {0}
    BY <1>4 DEF ShutdownSocket, TypeOK, ShutInv
  <2>2. returned' = [returned EXCEPT ![1] = ep] /\ pc' = "send" /\ n' = 2 /\ shut' = TRUE
    BY <1>4, <2>1 DEF ShutdownSocket, Returns
  <2>3. UNCHANGED <<ep, net, extra>>
    BY <1>4 DEF ShutdownSocket
  <2>4. TypeOK'
    BY <2>1, <2>2, <2>3 DEF TypeOK
  <2> QED BY <2>2, <2>3, <2>4 DEF TypeOK, NetInv, ShutInv, ReturnedInv
<1>5. CASE ShutdownThrows
  BY <1>5 DEF ShutdownThrows, TypeOK, NetInv, ShutInv, ReturnedInv
<1>6. ASSUME NEW s \in Requests, ServerAnswers(s) PROVE IInv'
  <2>1. /\ net[Request(s)] > 0
        /\ net' = [net EXCEPT ![Request(s)] = @ - 1, ![Response(s)] = @ + 1]
        /\ UNCHANGED <<main, extra>>
    BY <1>6 DEF ServerAnswers
  <2>2. s = 1
    BY <2>1 DEF NetInv
  <2>3. net' \in [Datagrams -> Nat] /\ NetInv'
    BY <2>1, <2>2 DEF TypeOK, NetInv
  <2> QED BY <2>1, <2>3 DEF main, TypeOK, ShutInv, ReturnedInv
<1>7. CASE StrangerSends
  <2>1. net' = [net EXCEPT ![Response(3)] = @ + 1] /\ extra' \in 0..MaxExtra /\ UNCHANGED main
    BY <1>7 DEF StrangerSends, TypeOK
  <2>2. net' \in [Datagrams -> Nat] /\ NetInv'
    BY <2>1 DEF TypeOK, NetInv
  <2> QED BY <2>1, <2>2 DEF main, TypeOK, ShutInv, ReturnedInv
<1>8. ASSUME NEW d \in Datagrams, Repeat(d) \/ Lose(d) PROVE IInv'
  <2>1. PICK k \in Nat : net' = [net EXCEPT ![d] = k] /\ net[d] # 0
    BY <1>8 DEF Repeat, Lose, TypeOK
  <2>2. extra' \in 0..MaxExtra /\ UNCHANGED main
    BY <1>8 DEF Repeat, Lose, TypeOK
  <2>3. net' \in [Datagrams -> Nat] /\ NetInv'
    BY <2>1 DEF TypeOK, NetInv
  <2> QED BY <2>2, <2>3 DEF main, TypeOK, ShutInv, ReturnedInv
<1>9. CASE UNCHANGED vars
  BY <1>9 DEF vars, main, TypeOK, NetInv, ShutInv, ReturnedInv
<1> QED
  BY <1>1, <1>2, <1>3, <1>4, <1>5, <1>6, <1>7, <1>8, <1>9 DEF Next, ClientStep

LEMMA Invariance == Spec => []IInv
BY InitInv, Inductive, PTL DEF Spec

\* Every variable keeps its type.
THEOREM TypeCorrect == Spec => []TypeOK
BY Invariance, PTL DEF IInv

\* Whatever the network and strangers do, and however long it runs, main() sends
\* nothing to the second server, gets nothing for it, and never returns 0: the
\* socket is shut down (line 36) before main() comes to the second request.
THEOREM SecondRequestNeverSent == Spec => []SecondServerIsNeverAsked
<1>1. IInv => SecondServerIsNeverAsked
  BY DEF IInv, NetInv, ShutInv, ReturnedInv, SecondServerIsNeverAsked
<1> QED BY <1>1, Invariance, PTL
=============================================================================
